SPECIFICATION Spec
CONSTANTS
  Vms = {v1, v2, v3}
  Macs = {m1, m2}
  SlotCount = 2
  Depth = 2
  FdbSize = 2
  Flood = FALSE
  GenMod = 2
  Timeout = 1
  MaxOutages = 1
SYMMETRY Symmetry
INVARIANTS
  RingsAgree
  OnlyAddressee
  Rebound
PROPERTIES
  PoolFullOnlyFresh
