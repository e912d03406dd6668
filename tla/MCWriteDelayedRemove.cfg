\* Removes the proxy sends are not ordered before the caller's later calls.
CONSTANTS
    ANY = ANY
    QUORUM = QUORUM
    ALL = ALL
    None = None
    Groups <- MCGroups
    DefaultGroups <- MCDefaultGroups
    ConfReplication = 0
    ConfSuccessCopies = 0
    ChunkSize = 1
    ContentSize = 3
    GroupArgs <- MCGroupArgs
    SuccessCopiesArgs <- MCSuccessCopiesArgs
    OffsetArgs = {0}
    IoFlagArgs = {"none"}
    KeyKinds = {"name"}
    MaxWrites = 2
    Replies = {"ok", "lost", "fail"}
    RemovesOrdered = FALSE
    MetadataMayFail = FALSE
    CallKinds = {"write"}
SPECIFICATION Spec
INVARIANT ResultSatisfiesPolicy
CHECK_DEADLOCK FALSE
