SPECIFICATION FairSpec
CONSTANTS
  Producers <- HepAndTls
  Transport <- MCTransport
  Shapes <- ThreeShapes
  Protos = {"HEPSIP", "HEPRTCP"}
  Cap = 1
  BatchSize = 2
  RingSize = 2
  MaxPackets = 1
  NoMsg = NoMsg
INVARIANTS
  HepAccounting
  KindAccounting
PROPERTIES
  QueuedIsSettled
  PipelineStops
CHECK_DEADLOCK FALSE
