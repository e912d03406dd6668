\* Chunked uploads of name keys with faulty replies, reliable removes and
\* metadata writes, async writes and removes, and one lookup or read by a
\* second thread at any point. Offsets are 0, as every caller of the
\* chunked path uses.
CONSTANTS
    ANY = ANY
    QUORUM = QUORUM
    ALL = ALL
    None = None
    Groups <- MCGroups
    DefaultGroups <- MCDefaultGroups
    ConfReplication = 0
    ConfSuccessCopies = 0
    ChunkSize = 1
    ContentSize = 3
    GroupArgs <- MCGroupArgs
    SuccessCopiesArgs <- MCSuccessCopiesArgs
    OffsetArgs = {0}
    IoFlagArgs <- MCIoFlagArgs
    KeyKinds = {"name"}
    MaxWrites = 2
    Replies = {"ok", "lost", "fail"}
    RemovesOrdered = TRUE
    MetadataMayFail = FALSE
    CallKinds = {"write", "write_async", "remove"}
    ReadGroupArgs <- MCReadGroupArgs
    ReadOps = {"lookup", "read", "read_latest", "lookup_addr"}
    LookupReplies = {"ok", "error", "bad"}
    MaxReads = 1
SPECIFICATION CSpec
INVARIANT CTypeOK
INVARIANT CommittedObjectIsWhole
INVARIANT TargetsHoldTheWrite
INVARIANT ResultSatisfiesPolicy
INVARIANT ChunkCallCount
\* The threads stop after MaxWrites and MaxReads calls.
CHECK_DEADLOCK FALSE
INVARIANT ReadNeverOlderThanAccepted
