SPECIFICATION Spec
CONSTANTS
    Keys <- MCKeys
    QueryPrefixes <- MCQueryPrefixes
    Markers <- MCMarkers
    PageSizes <- MCPageSizes
    Delimiters <- MCDelimiters
    MaxRows = 5
    NoId = NoId
INVARIANTS
    ListKeysMatchesReference
CHECK_DEADLOCK FALSE
