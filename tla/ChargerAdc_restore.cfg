SPECIFICATION AdcSpec
CONSTANTS
  t1 = t1
  t2 = t2
  amps = amps
  volts = volts
  Threads <- MCThreads
  Channels <- MCChannels
  Current <- amps
  Fails <- MCCtrl
  BootMask = TRUE
  MaxCalls = 2
  MaxFaults = 1
INVARIANTS MaskRestored
CHECK_DEADLOCK FALSE
