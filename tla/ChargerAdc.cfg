SPECIFICATION AdcFairSpec
CONSTANTS
  t1 = t1
  t2 = t2
  amps = amps
  volts = volts
  Threads <- MCThreads
  Channels <- MCChannels
  Current <- amps
  Fails <- MCAll
  BootMask = TRUE
  MaxCalls = 3
  MaxFaults = 2
INVARIANTS SampleIsOwn Restored
PROPERTIES CallsReturn
CHECK_DEADLOCK FALSE
