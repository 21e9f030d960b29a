SPECIFICATION FairSpec
CONSTANTS
  NEvents = 1
  WakeCapable = {0}
  BootMask = {}
  MaxRetries = 2
  MaxBurst = 1
  WriteFails = TRUE
INVARIANTS NoStrayBusAccess HeldIsReleased NoEventLost QuietAfterStop
PROPERTIES SuspendCompletes EventsHandled
