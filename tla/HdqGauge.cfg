SPECIFICATION FairSpec
CONSTANTS
  p = p
  Prober = p
  NoWord = NoWord
  Known <- MCKnown
  Status <- MCStatus
  Threads <- MCThreads
  Base = 3
  Retries = 2
  Attempts = 2
  MaxBinds = 1
  Ways <- MCWays
  Devices <- MCDevices
INVARIANTS NotTorn ChipRight
PROPERTIES ReadsAndProbesEnd
CHECK_DEADLOCK FALSE
