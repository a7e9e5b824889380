\* Two receive tasks, four datagrams, one size of which does not fit.
CONSTANTS
  task1 = task1
  task2 = task2
  Tasks = {task1, task2}
  Sizes = {0, 2}
  Modulus = 4
  UdpHeader = 0
  IpHeader = 1
  EthernetHeader = 1
  MaxRecords = 4
SPECIFICATION Spec
INVARIANTS
  ReadsBack
  TasksSurvive
\* The datagrams are bounded, and a killed process stops.
CHECK_DEADLOCK FALSE
