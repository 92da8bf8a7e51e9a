\* One call, fair scheduling; the peer is silent (its messages only renew the age).
SPECIFICATION LiveSpec
CONSTANTS
    Calls = {"c1"}
    Size = 2
    IovCount = 2
    MaxMessages = 0
    DirectSend = TRUE
    FirstThread = FALSE
    Threaded = {TRUE, FALSE}
PROPERTIES
    EventuallySent
    EventuallyFreed
