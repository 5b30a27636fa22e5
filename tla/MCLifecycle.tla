---------------------------- MODULE MCLifecycle ----------------------------
EXTENDS Lifecycle

\* All but hepTCPWorker, which polls like the UDP workers.
WithTLS == (Tickers \cup Listeners) \ {"hepTCPWorker"}
=============================================================================
