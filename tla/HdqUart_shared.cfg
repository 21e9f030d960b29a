SPECIFICATION FairSpec
CONSTANTS
  Callers = {c1, c2}
  NoCaller = none
  L = 2
  Addrs <- MCOneAddr
  Values <- MCOneValue
  Highs <- MCWeak
  Lows <- MCLows
  Noise <- MCBreak
  MaxFaults = 2
  MaxNoise = 1
  MaxTrail = 1
INVARIANTS StackBufferLive NoFalseTimeout
PROPERTIES BusSpec CallsReturn
