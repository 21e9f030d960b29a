SPECIFICATION LiveSpec
CONSTANTS
  Scripts <- AllScripts
  MaxStrays = 2
INVARIANTS VerdictTrue RestoresAll
CHECK_DEADLOCK FALSE
