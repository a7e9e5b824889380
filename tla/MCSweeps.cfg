\* Two scans; one engine or the other, which share only the tokens.
CONSTANTS
  Sweepers = {"Arecont", "Dahua"}
  Selections = {{"Arecont"}, {"Dahua"}}
  MaxScans = 2
  Rounds = 4
  Bits = 4
  Cap = 3
  Private <- MCPrivate
  Interfaces <- MCInterfaces
SPECIFICATION Spec
INVARIANTS
  ProbesStayInSubnet
  SweepsCoverSubnets
PROPERTIES
  ImplementsSweepTasks
\* All is quiet when the sweeps have ended.
CHECK_DEADLOCK FALSE
