CONSTANTS
    Calls = {c1}
    Closers = {k1, k2}
    Reader = reader
    ReplyKinds = {"result"}
    MaxInbox = 1
SPECIFICATION Spec
INVARIANT CloseShutsTransport
CHECK_DEADLOCK FALSE
