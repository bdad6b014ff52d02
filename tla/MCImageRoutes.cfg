SPECIFICATION Spec
CONSTANTS
  Pages = {p1, p2}
  EditModels = {e1, e2}
  Gen = gen
  None = none
  MaxRestarts = 2
  MaxDrifts = 1
  MayVanish = FALSE
SYMMETRY Symmetry
INVARIANTS
  TypeOK
  OneRoute
  OnePlace
  ReplaysAgree
CHECK_DEADLOCK FALSE
