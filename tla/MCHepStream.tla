---------------------------- MODULE MCHepStream ----------------------------
EXTENDS HepStream
=============================================================================
