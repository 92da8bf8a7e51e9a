\* The handler belongs to a send thread that is not the first one.
SPECIFICATION Spec
CONSTANTS
    Calls = {"c1"}
    Size = 1
    IovCount = 1
    MaxMessages = 1
    DirectSend = TRUE
    FirstThread = FALSE
    Threaded = {TRUE}
PROPERTY OnlyDeadClosed
