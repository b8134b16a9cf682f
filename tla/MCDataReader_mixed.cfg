CONSTANTS
    p1 = p1
    p2 = p2
    Parts <- MCParts
    MaxSequences <- MCMaxSequences
    MaxRetrievals <- MCMaxRetrievals
    MaxDuplicates <- MCMaxDuplicates
    MaxFaults <- MCMaxFaults

SPECIFICATION Spec

\* The reader idles once the requester has made its retrievals.
CHECK_DEADLOCK FALSE

INVARIANTS
    DoneMeansWholePart
