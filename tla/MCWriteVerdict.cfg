\* Writes by name (chunked, offset 0 or 1) and by raw id, calls that may fail in every group, and a write_metadata that may throw: does the store match the verdict?
CONSTANTS
    ANY = ANY
    QUORUM = QUORUM
    ALL = ALL
    None = None
    Groups <- MCGroups
    DefaultGroups <- MCDefaultGroups
    ConfReplication = 0
    ConfSuccessCopies = 0
    ChunkSize = 1
    ContentSize = 3
    GroupArgs <- MCGroupArgs
    SuccessCopiesArgs <- MCSuccessCopiesArgs
    OffsetArgs = {0, 1}
    IoFlagArgs = {"none"}
    KeyKinds = {"name", "id"}
    MaxWrites = 2
    Replies = {"ok", "lost", "fail"}
    RemovesOrdered = TRUE
    MetadataMayFail = TRUE
    CallKinds = {"write"}
SPECIFICATION Spec
INVARIANT WriteAllOrNothing
CHECK_DEADLOCK FALSE
