\* Every engine, ports shared or not, one socket of another program.
CONSTANTS
  nic1 = nic1
  Any = Any
  None = None
  Device = Device
  Broker <- BrokerName
  Owners <- RegistryOwners
  Mode <- RegistryMode
  Fixed <- RegistryFixed
  Reserves <- RegistryReserves
  Ports <- MCPorts
  Candidates <- MCCandidates
  Nics = {nic1}
  NicSeq <- MCOneNic
  Starts <- MCStarts
  OnvifVerbatim = FALSE
  MaxAnswers = 2
  MaxForeign = 1
SPECIFICATION DiscoverySpec
INVARIANTS
  TypeOK
  UnicastReachesOneEngine
  StartDeafensNobody
  OnlyAnswersAreReported
  AnswersAreHeard
\* A failed start, and a scan whose answers all came, may stop.
CHECK_DEADLOCK FALSE
