\* Panasonic after another engine: what scanner.rs says of fixed ports.
CONSTANTS
  nic1 = nic1
  Any = Any
  None = None
  Device = Device
  Broker <- BrokerName
  Owners <- RegistryOwners
  Mode <- RegistryMode
  Fixed <- RegistryFixed
  Reserves <- RegistryReserves
  Ports <- MCPorts
  Candidates <- MCCandidates
  Nics = {nic1}
  NicSeq <- MCOneNic
  Starts <- MCPair
  OnvifVerbatim = TRUE
  MaxAnswers = 2
  MaxForeign = 0
SPECIFICATION DiscoverySpec
INVARIANTS
  FixedPortsAreReserved

