\* Range reads over ids 0..2 in two groups: what range_get returns.
CONSTANTS
    ANY = ANY
    QUORUM = QUORUM
    ALL = ALL
    MaxReplication = 7
    GroupIds = {1, 2, 3, 4}
    MaxList = 3
    MaxCount = 4
    ExplicitArgs <- MCExplicitArgs
    MaxId = 2
    HelperLists <- MCHelperNone
SPECIFICATION Spec
INVARIANT RangeGetMatchesSpec
