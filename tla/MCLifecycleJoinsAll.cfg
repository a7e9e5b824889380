\* A failed start, then stop: what README says of stop.
CONSTANTS
  dahua2 = dahua2
  bosch = bosch
  arecont = arecont
  arp = arp
  nic1 = nic1
  Broker = broker
  EngineSeq <- MCOneGroup
  Engines <- MCEngines
  Kind <- MCKind
  Sweepers <- MCSweepers
  NicSeq <- OneNic
  Heard <- MCHeard
  PortSharing = FALSE
  MaxStarts = 1
  MaxScans = 1
SPECIFICATION Spec
INVARIANTS
  StopJoinsEverything
