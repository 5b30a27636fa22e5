------------------------------ MODULE MCIngest ------------------------------
EXTENDS Ingest

TransportTable == [sip |-> "UDP", hep |-> "HEP3", tcp |-> "HEP3/TCP",
                   tls |-> "HEP3/TLS"]

SipAndTcp == {"sip", "tcp"}
HepAndTls == {"hep", "tls"}

MCTransport == [p \in Producers |-> TransportTable[p]]

Request  == [kind |-> "request", status |-> 0, echo |-> TRUE]
Ok200    == [kind |-> "response", status |-> 200, echo |-> FALSE]
Busy486  == [kind |-> "response", status |-> 486, echo |-> FALSE]

OneShape    == {Request}
ThreeShapes == {Request, Ok200, Busy486}
=============================================================================
