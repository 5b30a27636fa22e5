SPECIFICATION Spec
CONSTANTS
  Producers <- SipAndTcp
  Transport <- MCTransport
  Shapes <- OneShape
  Protos = {"HEPSIP"}
  Cap = 1
  BatchSize = 2
  RingSize = 2
  MaxPackets = 2
  NoMsg = NoMsg
INVARIANTS
  TypeOK
  Accounting
  StoredBounds
  RingLeads
  LostAtExit
PROPERTY
  ImplementsRecorder
CHECK_DEADLOCK FALSE
