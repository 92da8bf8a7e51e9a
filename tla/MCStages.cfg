\* Two producers, rings of two slots, stop when the standby ring is empty;
\* three threads in turn; two threads on two shared queues; pools of two threads over one
\* queue or two, three puts;
\* stage timers of both classes, the LRU one without updates; both timer lists;
\* a loop that checks its timers after three events; groups of two threads, one
\* restart; three clients of a lock or a counter, one operation each on a counter.
CONSTANTS
    Parts = {"thread", "round", "shared", "task", "timers", "list", "loop",
             "threads", "sync"}
    Producers = {p1, p2}
    Stopper = stopper
    StageThread = st
    Capacity = 2
    MaxPush = 2
    StopQuiet = TRUE
    QuitEvent = QuitEvent
    Garbage = Garbage
    NoOne = NoOne
    ThreadSize = 3
    MaxCalls = 12
    Callers = {p1}
    Workers = {w1, w2}
    SharedMax = 2
    BatchSize = 2
    Quit = Quit
    PoolSize = 2
    OneAssigner = TRUE
    MaxShared = 3
    MaxPut = 3
    MaxTakes = 1
    t1 = t1
    t2 = t2
    t3 = t3
    Pool <- ThreeTimers
    Interval <- ShortOrLong
    Cyclic <- FirstTwo
    Repair = 1
    Intervals = {1, 2}
    LruInterval = 2
    Updates = {FALSE}
    StaleCalls = FALSE
    MaxClock = 4
    MaxSets = 3
    Loops = {"stage", "shared", "disruptor"}
    QueueIntervals <- OneAndTwo
    IdleInterval = 2
    EventFactor = 3
    MaxWaiting = 2
    MaxRuns = 4
    Orderly = TRUE
    Clients = {c1, c2, c3}
    MaxOps = 1
    Unsafe = {}
SPECIFICATION MCSpec
CHECK_DEADLOCK FALSE
INVARIANTS ThreadsTrue  HandledOnce  
PROPERTIES ImplementsLog HandledInTheEnd ThreadsEnd ServedOrClosed  
