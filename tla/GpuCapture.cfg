SPECIFICATION Spec
CONSTANTS Scripts <- AllScripts
          MaxPoll = 2
          MaxSessions = 2
INVARIANTS OwnWords NothingTwice CompleteIsTrue
PROPERTIES StopsAtWrong
CHECK_DEADLOCK FALSE
