SPECIFICATION FairSpec
CONSTANTS
  Temps <- MCTemps
  Caps <- MCCaps
  Tiers <- MCHighTier
  Customs <- MCCustoms
  Polls = 2
  WaitSecs = 1
  MaxEnv = 2
  MaxSessions = 1
  MaxFails = 1
INVARIANTS NeverAboveValidated NothingLeft
PROPERTIES RaisesOnlyCooled BacksOff Settles
