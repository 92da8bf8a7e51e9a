\* h2 depends on h1; only h2 holds the publisher back.
CONSTANTS
    Handlers = {h1, h2}
    Publishers = {p1}
    Gating = {h2}
    QueueNotify = {h1, h2}
    Deps <- GatingLast
    Capacity = 2
    MaxPush = 3
    QuitEvent = QuitEvent
    Garbage = Garbage
    NoHandler = NoHandler
    Redo = {1}
    Quitters = {p1}
SPECIFICATION Spec
CHECK_DEADLOCK FALSE
INVARIANT DependencyFirst
