CONSTANTS
    MaxMessages <- MCMaxMessages
    MaxLoss <- MCMaxLoss
    MaxSpurious <- MCMaxSpurious

SPECIFICATION FairSpec

INVARIANTS
    TypeOK
    NoMessageLost
    PredecessorDispatchedFirst
    AcksMatchPending
    IdleMeansQueueEmpty

PROPERTIES
    EveryMessageAcked
    ImplementsDispatchChannel
