\* The floor of a machine, the reserve made from it, and tokens priced from that.
SPECIFICATION Spec
CONSTANTS
  Places = 4
  Scale = 10
  Parts = 10
  Life = 7
  UMin = 3
  UMax = 9
  Machines <- SmallMachines
  Boosts = {10, 11, 13}
  Bases = {0, 35}
  Loads <- SmallLoads
INVARIANTS
  HostNetsItsMachine
  
