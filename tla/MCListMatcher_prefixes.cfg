SPECIFICATION Spec
CONSTANTS
    Keys <- MCKeys
    QueryPrefixes <- MCQueryPrefixes
    Markers <- MCMarkers
    PageSizes <- MCPageSizes
    Delimiters <- MCDelimiters
    MaxRows = 3
    NoId = NoId
INVARIANTS
    PrefixesMatchReference
CHECK_DEADLOCK FALSE
