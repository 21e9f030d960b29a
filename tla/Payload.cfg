SPECIFICATION Spec
CONSTANTS
  d1 = d1
  d2 = d2
  o1 = o1
  o2 = o2
  Public <- MCPublic
  Requests <- MCRequests
  Dirs <- MCDirs
  Operators <- MCOperators
  MaxTokens = 2
  MaxDamage = 1
  MaxUploads = 2
INVARIANTS OneStage PassIsWhole AssembledVerifies BootsWhole Identity
SYMMETRY MCSymmetry
CHECK_DEADLOCK FALSE
