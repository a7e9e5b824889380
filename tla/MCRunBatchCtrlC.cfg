\* uscan scan --batch, ended by Ctrl-C: what README says.
CONSTANTS
  arp = arp
  dahua = dahua
  host = host
  other = other
  mac1 = mac1
  mac2 = mac2
  host6 = host6
  NoMac = NoMac
  Header = Header
  NoCode = NoCode
  Killed = Killed
  Protocols <- MCProtocols
  IPv4 <- MCIPv4
  IPv6 <- MCIPv6
  Macs <- MCMacs
  Reports <- MCReports
  ForceGeneric = FALSE
  EnableIPv4 = TRUE
  EnableIPv6 = FALSE
  Args <- MCBatch
  MaxSent = 2
  MaxTicks = 1
  MaxSignals = 2
SPECIFICATION RunSpec
INVARIANTS
  BatchPrintedWhenScanEnds
