\* One writer with three handlers that all hold it back, one dependent on
\* another; two pushing and two popping threads; rings of two slots.
CONSTANTS
    Parts = {"single", "lockfree", "twolock", "swap", "ring"}
    h1 = h1
    h2 = h2
    h3 = h3
    Handlers = {h1, h2, h3}
    Publishers = {w}
    Writer = w
    Gating = {h1, h2, h3}
    QueueNotify = {h1}
    Deps <- Chain
    Capacity = 2
    MaxPush = 3
    QuitEvent = QuitEvent
    Garbage = Garbage
    NoHandler = NoHandler
    Redo <- BoundedRedo
    Pushers = {p1, p2}
    Poppers = {c1, c2}
    Patient = {p2, c1}
    Attempts = 1
    NoThread = NoThread
    RingCapacity = 2
    RingMaxPush = 5
    RingRedo = {0, 2}
SPECIFICATION MCSpec
CHECK_DEADLOCK FALSE
INVARIANTS SlotSafe SizeTrue NoDangling
PROPERTIES ImplementsLog QueuesAreFifo
