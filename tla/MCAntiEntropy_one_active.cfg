CONSTANTS
    n1 = n1
    n2 = n2
    c1 = c1
    k1 = k1
    Nodes <- MCNodes
    Collections <- MCCollections
    Keys <- MCKeys
    MaxRetryCount <- MCMaxRetryCount
    MaxAudits <- MCMaxAudits
    MaxDuplicates <- MCMaxDuplicates

SPECIFICATION Spec

INVARIANTS
    AtMostOneActivePerCollection

