SPECIFICATION Spec
CONSTANTS
    Keys <- MCKeys
    QueryPrefixes <- MCQueryPrefixes
    Markers <- MCMarkers
    PageSizes <- MCPageSizes
    Delimiters <- MCDelimiters
    MaxRows = 4
    NoId = NoId
INVARIANTS
    VersionsMatchReference
CHECK_DEADLOCK FALSE
