\* The three engines, the group and one interface, any one packet.
CONSTANTS
  nic1 = nic1
  v4 = v4
  auto4 = auto4
  none4 = none4
  v6 = v6
  auto6 = auto6
  none6 = none6
  Group = Group
  Wanted = {"Axis", "Google", "Arecont"}
  NicSeq <- MCNics
  IPv4 <- MCIPv4
  IPv6 <- MCIPv6
  Autoconf <- MCAutoconf
  Unspecified <- MCUnspecified
  ForceZeroconf = FALSE
  ForceLinkLocal = FALSE
  Redirects = 4
  Messages <- MCMessages
  MaxHeard = 1
SPECIFICATION MdnsSpec
INVARIANTS
  MessagesDecode
  ReportsAreFounded
  DevicesAreReported
  RecordOrderIrrelevant
\* The tasks end once the token is cancelled.
CHECK_DEADLOCK FALSE
