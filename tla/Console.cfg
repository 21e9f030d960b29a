SPECIFICATION FairSpec
CONSTANTS Programs <- AllPrograms
          MaxCommands = 2
          MaxBoots = 2
INVARIANTS AuditTrue OneBoot
PROPERTIES KeepsPromise AlwaysAnswers
CHECK_DEADLOCK FALSE
