\* The caller passes the default or an explicit number of copies.
CONSTANTS
    ANY = ANY
    QUORUM = QUORUM
    ALL = ALL
    None = None
    Groups = {1, 2, 3}
    Keys = {k1, k2}
    DefaultGroups <- MCDefaultGroups
    ConfReplication = 0
    ConfSuccessCopies = 0
    GroupArgs <- MCGroupArgs
    SuccessCopiesArgs = {0, 1}
    Replies = {"ok", "lost", "fail"}
    MaxWrites = 2
    MaxReads = 1
SPECIFICATION Spec
INVARIANT BulkVerdictMatchesPolicy
CHECK_DEADLOCK FALSE
