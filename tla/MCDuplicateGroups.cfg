\* Chunked uploads to explicit group lists that name a group twice: what write_helper_t counts and removes.
CONSTANTS
    ANY = ANY
    QUORUM = QUORUM
    ALL = ALL
    MaxReplication = 7
    GroupIds = {1, 2, 3, 4}
    MaxList = 3
    MaxCount = 4
    ExplicitArgs <- MCExplicitArgs
    MaxId = 2
    HelperLists <- MCHelperRepeats
SPECIFICATION Spec
INVARIANT AcceptedUploadCountsGroups
