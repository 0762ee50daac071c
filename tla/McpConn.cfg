CONSTANTS
    Calls = {c1, c2}
    Closers = {k1}
    Reader = reader
    ReplyKinds = {"result"}
    MaxInbox = 1
SPECIFICATION FairSpec
INVARIANTS TypeOK AtMostOneResult OwnAnswer NoLostCall NoPendingLeak
PROPERTIES CloseErrWrittenOnce ImplementsChannel Released
CHECK_DEADLOCK FALSE
