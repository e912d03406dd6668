\* A reader asks lookup_addr for the key with and without an explicit
\* group list; the writer makes no call.
CONSTANTS
    ANY = ANY
    QUORUM = QUORUM
    ALL = ALL
    None = None
    Groups <- MCGroups
    DefaultGroups <- MCDefaultGroups
    ConfReplication = 0
    ConfSuccessCopies = 0
    ChunkSize = 1
    ContentSize = 3
    GroupArgs <- MCGroupArgs
    SuccessCopiesArgs <- MCSuccessCopiesArgs
    OffsetArgs = {0}
    IoFlagArgs <- MCIoFlagArgs
    KeyKinds = {"name"}
    MaxWrites = 2
    Replies = {"ok", "lost", "fail"}
    RemovesOrdered = TRUE
    MetadataMayFail = FALSE
    CallKinds = {}
    ReadGroupArgs <- MCReadGroupArgs
    ReadOps = {"lookup_addr"}
    LookupReplies = {"ok", "error", "bad"}
    MaxReads = 1
SPECIFICATION CSpec
\* The reader stops after its one call.
CHECK_DEADLOCK FALSE
INVARIANT LookupAddrCoversGroups
