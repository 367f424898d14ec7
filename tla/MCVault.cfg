CONSTANTS
  N = 2
  Labels = {a, b}
  KeyLabels = {k}
  Values = {x, y}
  Cap = 7
  CtrMax = 2
SYMMETRY Symmetry
SPECIFICATION Spec
INVARIANTS DirectoryOK PriorSurvives
PROPERTIES AbsSpec KeysKept
