\* Policy inputs up to R = 7; selector inputs over four group ids.
CONSTANTS
    ANY = ANY
    QUORUM = QUORUM
    ALL = ALL
    MaxReplication = 7
    GroupIds = {1, 2, 3, 4}
    MaxList = 3
    MaxCount = 4
    ExplicitArgs <- MCExplicitArgs
    MaxId = 2
    HelperLists <- MCHelperNone
SPECIFICATION Spec
INVARIANTS AcceptanceMatchesTable DefaultSelectionContract
