\* Every push asks for unlimited attempts.
CONSTANTS
    h1 = h1
    h2 = h2
    h3 = h3
    Handlers = {h1, h2}
    Publishers = {w}
    Writer = w
    Gating = {h1, h2}
    QueueNotify = {h1, h2}
    Deps <- Broadcast
    Capacity = 2
    MaxPush = 4
    QuitEvent = QuitEvent
    Garbage = Garbage
    NoHandler = NoHandler
    Redo <- CommentedRedo
    Parts = {"single"}
    Pushers = {p1}
    Poppers = {c1}
    Patient = {p1}
    Attempts = 1
    NoThread = NoThread
    RingCapacity = 2
    RingMaxPush = 1
    RingRedo = {0}
SPECIFICATION MCSpec
CHECK_DEADLOCK FALSE
INVARIANT UnlimitedNeverFails
