\* B's reader may handle the retrieve-key-start twice; B and A may each fail
\* once.  The coroutine is fair, and so are B's handlers and A's writer.
CONSTANTS
    Part = p1
    p1 = p1
    MaxSequences <- MCMaxSequences
    MaxFaults = 1
    MaxWriterFaults = 1
    MaxDuplicates = 1
SPECIFICATION FairSpec
PROPERTIES ForwarderEnds
\* The coroutine waits at its first yield with nothing left to happen.
CHECK_DEADLOCK FALSE
