\* Batches of up to two keys, the default and an explicit group list.
CONSTANTS
    ANY = ANY
    QUORUM = QUORUM
    ALL = ALL
    None = None
    Groups = {1, 2, 3}
    Keys = {k1, k2}
    DefaultGroups <- MCDefaultGroups
    ConfReplication = 0
    ConfSuccessCopies = 0
    GroupArgs <- MCGroupArgs
    SuccessCopiesArgs = {0, 2}
    Replies = {"ok", "fail"}
    MaxWrites = 2
    MaxReads = 1
SPECIFICATION Spec
SYMMETRY MCKeySymmetry
INVARIANTS TypeOK AcceptedKeysMeetPolicy
CHECK_DEADLOCK FALSE
