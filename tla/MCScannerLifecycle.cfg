\* Two starts, two scans of each: a group socket with a sweep, mDNS with one, ARP.
CONSTANTS
  dahua2 = dahua2
  bosch = bosch
  arecont = arecont
  arp = arp
  nic1 = nic1
  Broker = broker
  EngineSeq <- MCMixedEngines
  Engines <- MCEngines
  Kind <- MCKind
  Sweepers <- MCSweepers
  NicSeq <- OneNic
  Heard <- MCHeard
  PortSharing = FALSE
  MaxStarts = 2
  MaxScans = 2
SPECIFICATION Spec
INVARIANTS
  TypeOK
  TasksAreOwned
  StopLeavesNothing
  ProbesAreHeard
  SweepsAreOwned
  ContextsMatchEngines
