\* Two publishers race on a ring of two slots: push with one attempt,
\* quit_event with unlimited attempts.  Fair scheduling.
CONSTANTS
    Handlers = {h1}
    Publishers = {p1, p2}
    Gating = {h1}
    QueueNotify = {h1}
    Deps <- GatingLast
    Capacity = 2
    MaxPush = 2
    QuitEvent = QuitEvent
    Garbage = Garbage
    NoHandler = NoHandler
    Redo = {1}
    Quitters = {p1}
SPECIFICATION FairSpec
CHECK_DEADLOCK FALSE
INVARIANTS TypeOK SlotSafe ClaimsDisjoint PushAccounted DeliveredInOrder
PROPERTIES ImplementsLog EventuallyHandled PushReturns
