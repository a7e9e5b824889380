\* No --timeout: what run.rs says of the first Ctrl-C.
CONSTANTS
  arp = arp
  dahua = dahua
  host = host
  other = other
  mac1 = mac1
  mac2 = mac2
  host6 = host6
  NoMac = NoMac
  Header = Header
  NoCode = NoCode
  Killed = Killed
  Protocols <- MCProtocols
  IPv4 <- MCIPv4
  IPv6 <- MCIPv6
  Macs <- MCMacs
  Reports <- MCReports
  ForceGeneric = FALSE
  EnableIPv4 = TRUE
  EnableIPv6 = FALSE
  Args <- MCForever
  MaxSent = 1
  MaxTicks = 1
  MaxSignals = 2
SPECIFICATION FairRunSpec
PROPERTIES
  CtrlCEndsRun
\* Without --timeout the loop waits for ever when nothing is reported.
CHECK_DEADLOCK FALSE
