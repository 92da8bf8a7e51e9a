\* Two calls of put_data, a call of close_wait, the runner and the send thread.
SPECIFICATION Spec
CONSTANTS
    Calls = {"c1", "c2"}
    Size = 2
    IovCount = 2
    MaxMessages = 1
    DirectSend = TRUE
    FirstThread = TRUE
    Threaded = {TRUE}
INVARIANTS
    TypeOK
    StreamKept
    ResultHolds
    ClosedOnce
