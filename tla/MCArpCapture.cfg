\* Two NICs, two sweeps, an address of ours that comes and goes.
CONSTANTS
  nic1 = nic1
  nic2 = nic2
  ours = ours
  other = other
  host = host
  Broadcast = Broadcast
  Malformed = Malformed
  Nics <- MCNics
  OurIPs = {ours, other}
  Hosts = {host}
  Addresses <- MCAddresses
  Mobile = {other}
  Private = {ours, other}
  SubnetHosts <- MCSubnetHosts
  MaxChannel = 1
  MaxScans = 2
SPECIFICATION FairSpec
INVARIANTS
  TypeOK
  CapturedIsReported
  OneFrameAfterCancel
PROPERTIES
  ArpEnds
  RequestsLeave
\* All is quiet when the threads and the consumer have ended.
CHECK_DEADLOCK FALSE
