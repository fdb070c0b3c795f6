CONSTANTS
    Gated = {TRUE, FALSE}
    Budgets <- Mixed
SPECIFICATION FairSpec
INVARIANTS
    TypeOK
    FollowUpsHonest
PROPERTIES
    FenceHolds
    HoldSticks
    QueueDrains
CHECK_DEADLOCK FALSE
