SPECIFICATION Spec
CONSTANTS
  NEvents = 1
  WakeCapable = {0}
  BootMask = {}
  MaxRetries = 1
  MaxBurst = 1
  WriteFails = FALSE
INVARIANT WakeEventWakes
