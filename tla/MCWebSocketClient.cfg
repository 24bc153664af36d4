SPECIFICATION FairSpec
CONSTANTS
    MaxCalls = 4
    MaxSockets = 2
    MaxTime = 1
INVARIANTS
    AnswerOfOwnKind
    OnlyCollisionsLoseAnswers
    ConnectResolvesWithItsSocket
    NoOrphanSocket
PROPERTY
    RequestsSettle
CHECK_DEADLOCK FALSE
