\* Liveness of stop and of the tasks it cancels: group and global sockets, ARP.
CONSTANTS
  dahua2 = dahua2
  bosch = bosch
  arecont = arecont
  arp = arp
  nic1 = nic1
  Broker = broker
  EngineSeq <- MCLiveEngines
  Engines <- MCEngines
  Kind <- MCKind
  Sweepers <- MCSweepers
  NicSeq <- NoNic
  Heard <- MCHeard
  PortSharing = FALSE
  MaxStarts = 2
  MaxScans = 1
SPECIFICATION FairSpec
PROPERTIES
  StopReturns
  StoppedComesToRest
