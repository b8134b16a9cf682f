CONSTANTS
    MaxMessages <- MCMaxMessages
    MaxLoss <- MCMaxLoss
    MaxSpurious <- MCMaxSpurious

SPECIFICATION FairSpec

INVARIANTS
    AtMostOnceDispatch
