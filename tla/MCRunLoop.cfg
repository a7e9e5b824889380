\* uscan scan --timeout, with --rescan or with --batch.
CONSTANTS
  arp = arp
  dahua = dahua
  host = host
  other = other
  mac1 = mac1
  mac2 = mac2
  host6 = host6
  NoMac = NoMac
  Header = Header
  NoCode = NoCode
  Killed = Killed
  Protocols <- MCProtocols
  IPv4 <- MCIPv4
  IPv6 <- MCIPv6
  Macs <- MCMacs
  Reports <- MCReports
  ForceGeneric = FALSE
  EnableIPv4 = TRUE
  EnableIPv6 = FALSE
  Args <- MCTimed
  MaxSent = 3
  MaxTicks = 1
  MaxSignals = 2
SPECIFICATION FairRunSpec
INVARIANTS
  RunTypeOK
  StreamedRowsAreCurrent
  BatchInDiscoveryOrder
  ExitCodes
  OrderEnumeratesEntries
  StreamAgreesWithBatch
  RowsImprove
  BestReportWins
  MacBelongsToKey
PROPERTIES
  FirstCtrlCStopsGracefully
  DeadlineEndsRun
  InterruptEndsRun
