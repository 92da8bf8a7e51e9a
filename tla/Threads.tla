------------------------------ MODULE Threads ------------------------------
(***************************************************************************)
(* SL_Thread and SL_Thread_Group: an owner starts, stops, joins and clears *)
(* threads through the flags started_ and running_ and a handle, while the *)
(* threads read running_ and reset both flags when they leave.  The owner  *)
(* has a group, whose threads leave when the group's running_ is 0, or one *)
(* SL_Thread, whose thread calls exit() at its end.                        *)
(* Line numbers refer to include/SL_Thread.h, "group" to                   *)
(* src/SL_Thread_Group.cpp.                                                *)
(*                                                                         *)
(* SL_Sync_Atomic_Int32 and _Int64, SL_Sync_RWMutex and SL_Sync_Condition  *)
(* in their builds: clients use one object, of the kind chosen at the      *)
(* start, in whatever order.  What the system provides (interlocked        *)
(* instructions, critical sections, events, POSIX locks and conditions)    *)
(* is taken to be what it is documented to be.                             *)
(* Line numbers refer to include/SL_Sync_Atomic.h, SL_Sync_RWMutex.h and   *)
(* SL_Sync_Condition.h.                                                    *)
(***************************************************************************)
EXTENDS Integers, Sequences, FiniteSets

CONSTANTS Objects,      \* the SL_Thread objects of the group, in their order
          MaxRuns,      \* bound: threads created
          Orderly       \* a group is cleared or restarted after a stop only, an
                        \* SL_Thread after its thread has ended

VARIABLES windows,      \* the build: the Windows or the POSIX class
          grouped,      \* a group, or a single SL_Thread
          objects,      \* the objects that exist
          started, flag,    \* started_ and running_ of each object
          handle,       \* thread_handle_: the thread, 0 for none
          group_running,    \* the group's running_
          todo,         \* what is left of the owner's call: <<step, object>>
          spc,          \* where each thread is
          of,           \* the object each thread belongs to
          told          \* history: the threads that were told to stop

threadVars == <<windows, grouped, objects, started, flag, handle, group_running, todo, spc,
                of, told>>

Runs    == 1 .. MaxRuns
Used    == {o \in {Objects[i] : i \in DOMAIN Objects} : grouped \/ o = Objects[1]}
Current == IF grouped THEN Objects ELSE <<Objects[1]>>

(* The steps named in steps, for each object in turn.                      *)
ForEach(steps, objs) ==
    [k \in 1 .. Len(steps) * Len(objs) |->
        <<steps[((k - 1) % Len(steps)) + 1], objs[((k - 1) \div Len(steps)) + 1]>>]

Init ==
    /\ windows \in BOOLEAN /\ grouped \in BOOLEAN
    /\ objects = IF grouped THEN {} ELSE {Objects[1]}
    /\ started = [o \in {Objects[i] : i \in DOMAIN Objects} |-> 0]
    /\ flag = started /\ handle = started
    /\ group_running = 0
    /\ todo = << >>
    /\ spc = [r \in Runs |-> "none"]
    /\ of = [r \in Runs |-> Objects[1]]
    /\ told = {}

(* The thread of the object's handle is over, or there is no handle.       *)
Ended(o) == IF handle[o] = 0 THEN TRUE ELSE spc[handle[o]] = "over"

(* clear joins the threads of a group without having reset the group's     *)
(* running_; exit makes an SL_Thread look as if it had never started.      *)
InOrder == IF grouped THEN group_running = 0
           ELSE \A r \in Runs : spc[r] \in {"none", "over"}

-----------------------------------------------------------------------------
(* The owner's calls.                                                      *)

Call(steps) ==
    /\ todo = << >> /\ todo' = steps
    /\ UNCHANGED <<windows, grouped, objects, started, flag, handle, group_running, spc, of,
                   told>>

(* start: the group clears itself first and makes its objects anew.        *)
StartCall ==
    /\ Orderly => InOrder
    /\ \E r \in Runs : spc[r] = "none"
    /\ IF grouped
       THEN Call(ForEach(<<"clear", "delete">>, IF objects = {} THEN << >> ELSE Objects)
                   \o <<<<"group on", Objects[1]>>>> \o ForEach(<<"new", "start">>, Objects))
       ELSE objects # {} /\ Call(<<<<"start", Objects[1]>>>>)

StopCall ==
    /\ objects # {}
    /\ Call(<<<<"group off", Objects[1]>>>> \o ForEach(<<"stop">>, Current))

(* join waits until the thread ends, so somebody has told it to.           *)
JoinCall ==
    /\ objects # {}
    /\ \A o \in objects : handle[o] \in {0} \cup told
    /\ Call(ForEach(<<"join">>, Current))

(* clear and the destructors.                                              *)
ClearCall ==
    /\ objects # {}
    /\ Orderly => InOrder
    /\ Call(ForEach(<<"clear", "delete">>, Current))

-----------------------------------------------------------------------------
(* The steps of these calls, each a load or a store of a flag or a call of *)
(* the system.                                                             *)

Step(what) == todo # << >> /\ Head(todo)[1] = what
Obj        == Head(todo)[2]
Go(steps)  == todo' = [i \in DOMAIN steps |-> <<steps[i], Obj>>] \o Tail(todo)
Go1        == todo' = Tail(todo)

Kept(others) == UNCHANGED <<windows, grouped, of, others>>

(* clear joins a thread that is there: by its handle on Windows, by        *)
(* started_ on POSIX, where exit() has reset started_.                     *)
Clear ==
    /\ Step("clear")
    /\ Go(IF (windows /\ handle[Obj] # 0) \/ (~windows /\ started[Obj] > 0)
          THEN <<"unstart", "stop", "join", "forget">> ELSE << >>)
    /\ Kept(<<objects, started, flag, handle, group_running, spc, told>>)

Forget ==
    /\ Step("forget") /\ Go1
    /\ handle' = [handle EXCEPT ![Obj] = 0]
    /\ Kept(<<objects, started, flag, group_running, spc, told>>)

NewOrDelete ==
    /\ Step("new") \/ Step("delete")
    /\ Go1
    /\ objects' = IF Step("new") THEN objects \cup {Obj} ELSE objects \ {Obj}
    /\ started' = [started EXCEPT ![Obj] = 0]
    /\ flag' = [flag EXCEPT ![Obj] = 0]
    /\ handle' = [handle EXCEPT ![Obj] = 0]
    /\ Kept(<<group_running, spc, told>>)

(* Mutated form of Start: the flags are set behind the thread's back.      *)
Start_CreatesFirst ==
    /\ Step("start")
    /\ Go(IF started[Obj] > 0 THEN << >> ELSE <<"create", "set started", "set running">>)
    /\ Kept(<<objects, started, flag, handle, group_running, spc, told>>)

(* start of an object that has started returns 1.                          *)
Start ==
    /\ Step("start")
    /\ Go(IF started[Obj] > 0 THEN << >> ELSE <<"set started", "set running", "create">>)
    /\ Kept(<<objects, started, flag, handle, group_running, spc, told>>)

SetStarted ==
    /\ Step("set started") \/ Step("unstart")
    /\ Go1
    /\ started' = [started EXCEPT ![Obj] = IF Step("unstart") THEN 0 ELSE 1]
    /\ Kept(<<objects, flag, handle, group_running, spc, told>>)

SetRunning ==
    /\ Step("set running") /\ Go1
    /\ flag' = [flag EXCEPT ![Obj] = 1]
    /\ Kept(<<objects, started, handle, group_running, spc, told>>)

(* pthread_create, _beginthreadex: the thread is there, or it failed.      *)
Create ==
    /\ Step("create")
    /\ \/ \E r \in Runs :
             /\ spc[r] = "none" /\ \A q \in Runs : q < r => spc[q] # "none"
             /\ Go1
             /\ spc' = [spc EXCEPT ![r] = "loop"]
             /\ of' = [of EXCEPT ![r] = Obj]
             /\ handle' = [handle EXCEPT ![Obj] = r]
       \/ Go(<<"unstart", "stop">>) /\ UNCHANGED <<spc, of, handle>>
    /\ UNCHANGED <<windows, grouped, objects, started, flag, group_running, told>>

(* The runs that a stop of the object, or of the group, is meant for.      *)
Meant(objs) == {r \in Runs : spc[r] # "none" /\ of[r] \in objs}

(* Mutated form of Stop: the flag that is reset is started_.               *)
Stop_Started ==
    /\ Step("stop") /\ Go1
    /\ started' = [started EXCEPT ![Obj] = 0]
    /\ told' = told \cup Meant({Obj})
    /\ Kept(<<objects, flag, handle, group_running, spc>>)

Stop ==
    /\ Step("stop") /\ Go1
    /\ flag' = [flag EXCEPT ![Obj] = 0]
    /\ told' = IF grouped THEN told ELSE told \cup Meant({Obj})
    /\ Kept(<<objects, started, handle, group_running, spc>>)

GroupFlag ==
    /\ Step("group on") \/ Step("group off")
    /\ Go1
    /\ group_running' = IF Step("group on") THEN 1 ELSE 0
    /\ told' = IF grouped /\ Step("group off") THEN told \cup Meant(Used) ELSE told
    /\ Kept(<<objects, started, flag, handle, spc>>)

(* pthread_join also forgets the handle.                                   *)
Join ==
    /\ Step("join")
    /\ Ended(Obj)
    /\ Go1
    /\ handle' = IF windows THEN handle ELSE [handle EXCEPT ![Obj] = 0]
    /\ Kept(<<objects, started, flag, group_running, spc, told>>)

OwnerStep ==
    \/ Clear \/ Forget \/ NewOrDelete \/ Start \/ SetStarted \/ SetRunning \/ Create
    \/ Stop \/ GroupFlag \/ Join

-----------------------------------------------------------------------------
(* The threads.  The loop of one ends when its flag is 0, or before it     *)
(* began because init_svc_run failed.                                      *)

Running(r) == IF grouped THEN group_running = 1 ELSE flag[of[r]] = 1

Leave(r) == spc' = [spc EXCEPT ![r] = IF grouped THEN "over" ELSE "exit"]

EndLoop(r) ==
    /\ spc[r] = "loop" /\ ~Running(r)
    /\ Leave(r)
    /\ UNCHANGED <<windows, grouped, objects, started, flag, handle, group_running, todo, of,
                   told>>

GiveUp(r) ==
    /\ spc[r] = "loop"
    /\ Leave(r)
    /\ told' = told \cup {r}
    /\ UNCHANGED <<windows, grouped, objects, started, flag, handle, group_running, todo, of>>

ExitStarted(r) ==
    /\ spc[r] = "exit"
    /\ spc' = [spc EXCEPT ![r] = "exit running"]
    /\ started' = [started EXCEPT ![of[r]] = 0]
    /\ UNCHANGED <<windows, grouped, objects, flag, handle, group_running, todo, of, told>>

ExitRunning(r) ==
    /\ spc[r] = "exit running"
    /\ spc' = [spc EXCEPT ![r] = "over"]
    /\ flag' = [flag EXCEPT ![of[r]] = 0]
    /\ UNCHANGED <<windows, grouped, objects, started, handle, group_running, todo, of, told>>

ThreadStep(r) == EndLoop(r) \/ ExitStarted(r) \/ ExitRunning(r)

Next ==
    \/ StartCall \/ StopCall \/ JoinCall \/ ClearCall \/ OwnerStep
    \/ \E r \in Runs : ThreadStep(r) \/ GiveUp(r)

Spec == Init /\ [][Next]_threadVars

-----------------------------------------------------------------------------
(* clear, delete and exit: no thread uses its object's flags after the     *)
(* object is gone, and no object has two threads.                          *)
ObjectsOutlive ==
    /\ \A r \in Runs : spc[r] \in {"loop", "exit", "exit running"} => of[r] \in objects
    /\ \A r, q \in Runs :
          {spc[r], spc[q]} \cap {"none", "over"} = {} /\ of[r] = of[q] => r = q

(* start and exit: a thread that nobody told to stop finds its flag set.   *)
RunsUntilTold == \A r \in Runs : spc[r] = "loop" /\ r \notin told => Running(r)

(* stop, join and clear: each call of the owner returns, if every thread   *)
(* looks at its flag again and again.                                      *)
CallsReturn == []<>(todo = << >>)

-----------------------------------------------------------------------------
(* What threads synchronise with.                                          *)
CONSTANTS Clients,      \* the threads
          MaxOps,       \* bound: operations of one client on a counter
          Free,         \* no thread
          Unsafe        \* of "exchange", "compare", "static", "try" and "now",
                        \* the operations that are used without the care they need

(* The atomic classes: Int32 and Int64 of Visual C++, the latter before    *)
(* Windows Vista with a mutex, and the two alike classes of GCC.           *)
AtomicKinds == {"int32", "int64", "locked64", "builtin"}
Kinds       == AtomicKinds \cup {"rwmutex", "condition"}

VARIABLES kind, sync_windows,    \* the object, and the build of the two last kinds
          tokens,           \* the counter is used for exchanges, or for counting
          value,            \* value_
          mutex,            \* mutex_ of locked64, write_mutex_, the condition's mutex
          read_mutex, read_refcount, read_clear,    \* SL_Sync_RWMutex
          event,            \* condition_ on Windows, an auto-reset event
          where,            \* where each client is
          seen, held,       \* the value it has read; what it gives to exchange
          ops,              \* operations begun
          total             \* history: what was added to the counter

counterVars == <<value, seen, held, ops, total>>
lockVars    == <<read_mutex, read_refcount, read_clear>>
fixedVars   == <<kind, sync_windows, tokens>>
syncVars    == <<fixedVars, mutex, event, where, counterVars, lockVars>>

SyncInit ==
    /\ kind \in Kinds
    /\ sync_windows \in BOOLEAN
    /\ kind \in AtomicKinds => sync_windows = (kind # "builtin")
    /\ tokens \in BOOLEAN
    /\ kind \notin AtomicKinds => ~tokens
    /\ value = 0 /\ total = 0
    /\ mutex = Free /\ read_mutex = Free
    /\ read_refcount = 0 /\ read_clear = TRUE
    /\ event = FALSE
    /\ where = [c \in Clients |-> "out"]
    /\ seen = [c \in Clients |-> 0]
    /\ held = [c \in Clients |-> c]
    /\ ops = [c \in Clients |-> 0]

Move(c, from, to) == where[c] = from /\ where' = [where EXCEPT ![c] = to]

-----------------------------------------------------------------------------
(* The counters.  An operation that is several steps of the machine needs  *)
(* care: nobody else works on the counter from its first step to its last. *)

Delicate == {"exchange", "compare", "static"} \ Unsafe
Others(c) == {where[d] : d \in Clients \ {c}}

BeginOp(c, what) ==
    /\ kind \in AtomicKinds
    /\ where[c] = "out" /\ ops[c] < MaxOps
    /\ Others(c) \cap Delicate = {}
    /\ what \in Delicate => Others(c) = {"out"}
    /\ ops' = [ops EXCEPT ![c] = @ + 1]

(* fetch_add, fetch_sub, ++, --, += and -=: one instruction.               *)
AddInterlocked(c, delta) ==
    /\ ~tokens /\ kind # "locked64"
    /\ BeginOp(c, "add")
    /\ value' = value + delta /\ total' = total + delta
    /\ UNCHANGED <<fixedVars, mutex, event, where, seen, held, lockVars>>

(* The same under mutex_: a read and a write.                              *)
AddLock(c) ==
    /\ ~tokens /\ kind = "locked64"
    /\ BeginOp(c, "locked") /\ Move(c, "out", "locked")
    /\ mutex = Free /\ mutex' = c
    /\ UNCHANGED <<fixedVars, event, value, seen, held, total, lockVars>>

(* Mutated form of AddRead: mutex_ is given up before the write.           *)
AddRead_Unlocked(c) ==
    /\ Move(c, "locked", "add")
    /\ seen' = [seen EXCEPT ![c] = value]
    /\ mutex' = Free
    /\ UNCHANGED <<fixedVars, event, value, held, ops, total, lockVars>>

AddRead(c) ==
    /\ Move(c, "locked", "add")
    /\ seen' = [seen EXCEPT ![c] = value]
    /\ UNCHANGED <<fixedVars, mutex, event, value, held, ops, total, lockVars>>

AddWrite(c, delta) ==
    /\ Move(c, "add", "unlock")
    /\ value' = seen[c] + delta /\ total' = total + delta
    /\ UNCHANGED <<fixedVars, mutex, event, seen, held, ops, lockVars>>

AddUnlock(c) ==
    /\ Move(c, "unlock", "out")
    /\ mutex' = Free
    /\ UNCHANGED <<fixedVars, event, counterVars, lockVars>>

(* The caller of compare_exchange reads the value, exchange and compare    *)
(* read it for themselves, before anything is locked.                      *)
Read(c, what) ==
    /\ what \in IF tokens THEN {"exchange"}
                ELSE {"swap", "compare"} \cup IF kind = "locked64" THEN {"static"} ELSE {}
    /\ BeginOp(c, what) /\ Move(c, "out", what)
    /\ seen' = [seen EXCEPT ![c] = value]
    /\ UNCHANGED <<fixedVars, mutex, event, value, held, total, lockVars>>

(* compare_exchange, to add one to the value read if it is still there.    *)
CompareExchange(c) ==
    /\ Move(c, "swap", "out") /\ mutex = Free
    /\ IF value = seen[c]
       THEN value' = value + 1 /\ total' = total + 1
       ELSE UNCHANGED <<value, total>>
    /\ UNCHANGED <<fixedVars, mutex, event, seen, held, ops, lockVars>>

(* The static compare_exchange of locked64 compares and assigns.           *)
StaticExchange(c) ==
    /\ Move(c, "static", "out")
    /\ value' = seen[c] + 1 /\ total' = total + 1
    /\ UNCHANGED <<fixedVars, mutex, event, seen, held, ops, lockVars>>

(* compare(comparand) is compare_exchange(comparand, value_): it assigns   *)
(* the value it has read when the counter has become the comparand.        *)
Compare(c) ==
    /\ Move(c, "compare", "out") /\ mutex = Free
    /\ \E comparand \in {seen[c], seen[c] + 1} :
          value' = IF value = comparand THEN seen[c] ELSE value
    /\ UNCHANGED <<fixedVars, mutex, event, seen, held, ops, total, lockVars>>

(* exchange and store; int64 and builtin store only if the counter is      *)
(* still what they have read, and never try again.                         *)
Exchange(c) ==
    LET stores == kind \in {"int64", "builtin"} => value = seen[c] IN
    /\ Move(c, "exchange", "out") /\ mutex = Free
    /\ value' = IF stores THEN held[c] ELSE value
    /\ held' = [held EXCEPT ![c] = value]
    /\ UNCHANGED <<fixedVars, mutex, event, seen, ops, total, lockVars>>

CounterStep(c) ==
    \/ \E delta \in {-1, 1} : AddInterlocked(c, delta) \/ AddWrite(c, delta)
    \/ AddLock(c) \/ AddRead(c) \/ AddUnlock(c)
    \/ \E what \in {"swap", "exchange", "compare", "static"} : Read(c, what)
    \/ CompareExchange(c) \/ StaticExchange(c) \/ Compare(c) \/ Exchange(c)

-----------------------------------------------------------------------------
(* The reader-writer lock of Windows: a writer holds write_mutex_, where   *)
(* new readers wait, and waits for the event the last reader sets.         *)

Win(c, from, to) == kind = "rwmutex" /\ sync_windows /\ Move(c, from, to)

(* Mutated form of ReadEnter: a reader does not pass through write_mutex_. *)
ReadEnter_Past(c) ==
    /\ Win(c, "out", "entering")
    /\ UNCHANGED <<fixedVars, mutex, event, counterVars, lockVars>>

ReadEnter(c) ==
    /\ Win(c, "out", "entering")
    /\ mutex = Free /\ mutex' = c
    /\ UNCHANGED <<fixedVars, event, counterVars, lockVars>>

ReadCount(c) ==
    /\ Win(c, "entering", "counted")
    /\ read_mutex = Free /\ read_mutex' = c
    /\ read_refcount' = read_refcount + 1
    /\ UNCHANGED <<fixedVars, mutex, event, counterVars, read_clear>>

ReadLocked(c) ==
    /\ Win(c, "counted", "reading")
    /\ read_clear' = IF read_refcount = 1 THEN FALSE ELSE read_clear
    /\ read_mutex' = Free /\ mutex' = Free
    /\ UNCHANGED <<fixedVars, event, counterVars, read_refcount>>

WriteEnter(c) ==
    /\ Win(c, "out", "draining")
    /\ mutex = Free /\ mutex' = c
    /\ UNCHANGED <<fixedVars, event, counterVars, lockVars>>

WriteLocked(c) ==
    /\ Win(c, "draining", "writing")
    /\ read_clear
    /\ UNCHANGED <<fixedVars, mutex, event, counterVars, lockVars>>

(* unlock finds out by the count who calls it, and then does what          *)
(* read_unlock or write_unlock do.                                         *)
Unlock(c) ==
    \/ /\ read_refcount = 0
       /\ \E from \in {"reading", "writing"} : Win(c, from, "out")
       /\ mutex' = Free
       /\ UNCHANGED <<fixedVars, event, counterVars, lockVars>>
    \/ /\ read_refcount # 0
       /\ \E from \in {"reading", "writing"} : Win(c, from, "leaving")
       /\ read_mutex = Free /\ read_mutex' = c
       /\ read_refcount' = read_refcount - 1
       /\ UNCHANGED <<fixedVars, mutex, event, counterVars, read_clear>>

(* Mutated form of ReadLeft: the event is set for the last but one.        *)
ReadLeft_Early(c) ==
    /\ Win(c, "leaving", "out")
    /\ read_clear' = IF read_refcount = 1 THEN TRUE ELSE read_clear
    /\ read_mutex' = Free
    /\ UNCHANGED <<fixedVars, mutex, event, counterVars, read_refcount>>

ReadLeft(c) ==
    /\ Win(c, "leaving", "out")
    /\ read_clear' = IF read_refcount = 0 THEN TRUE ELSE read_clear
    /\ read_mutex' = Free
    /\ UNCHANGED <<fixedVars, mutex, event, counterVars, read_refcount>>

(* The POSIX lock; mutex is its writer, read_refcount counts its readers.  *)
Posix(c, from, to) == kind = "rwmutex" /\ ~sync_windows /\ Move(c, from, to)

PosixFree(to) == mutex = Free /\ (to = "writing" => read_refcount = 0)
PosixTake(c, to) ==
    IF to = "writing" THEN mutex' = c /\ UNCHANGED read_refcount
    ELSE read_refcount' = read_refcount + 1 /\ UNCHANGED mutex

PosixLock(c) ==
    /\ \E to \in {"reading", "writing"} :
          Posix(c, "out", to) /\ PosixFree(to) /\ PosixTake(c, to)
    /\ UNCHANGED <<fixedVars, event, counterVars, read_mutex, read_clear>>

PosixUnlock(c) ==
    /\ \/ Posix(c, "reading", "out") /\ read_refcount' = read_refcount - 1 /\ UNCHANGED mutex
       \/ Posix(c, "writing", "out") /\ mutex' = Free /\ UNCHANGED read_refcount
    /\ UNCHANGED <<fixedVars, event, counterVars, read_mutex, read_clear>>

(* read_trylock and write_trylock return the number of the system call as  *)
(* a bool: false when the lock was taken.  A careful caller knows it.      *)
PosixTryLock(c) ==
    /\ \E to \in {"reading", "writing"} :
          LET taken == PosixFree(to)
              enter == IF "try" \in Unsafe THEN ~taken ELSE taken IN
          /\ Posix(c, "out", IF enter THEN to ELSE "out")
          /\ IF taken THEN PosixTake(c, to) ELSE UNCHANGED <<mutex, read_refcount>>
    /\ UNCHANGED <<fixedVars, event, counterVars, read_mutex, read_clear>>

LockEnter(c) == ReadEnter(c) \/ WriteEnter(c) \/ PosixLock(c) \/ PosixTryLock(c)
LockStep(c)  == ReadCount(c) \/ ReadLocked(c) \/ WriteLocked(c) \/ Unlock(c)
                  \/ ReadLeft(c) \/ PosixUnlock(c)

-----------------------------------------------------------------------------
(* The condition and the mutex its clients wait with.                      *)

Cond(c, from, to) == kind = "condition" /\ Move(c, from, to)

Acquire(c) ==
    /\ Cond(c, "out", "in")
    /\ mutex = Free /\ mutex' = c
    /\ UNCHANGED <<fixedVars, event, counterVars, lockVars>>

Release(c) ==
    /\ Cond(c, "in", "out")
    /\ mutex' = IF mutex = c THEN Free ELSE mutex
    /\ UNCHANGED <<fixedVars, event, counterVars, lockVars>>

(* wait, timed_wait with a timeout, and timed_wait(0), which returns at    *)
(* once, on Windows after it has unlocked the mutex.                       *)
Wait(c) ==
    /\ \/ \E how \in {"waiting", "timed"} : Cond(c, "in", how) /\ mutex' = Free
       \/ /\ Cond(c, "in", "in")
          /\ sync_windows => "now" \in Unsafe
          /\ mutex' = IF sync_windows THEN Free ELSE mutex
    /\ UNCHANGED <<fixedVars, event, counterVars, lockVars>>

(* Without a mutex Windows waits, POSIX returns.                           *)
WaitBare(c) ==
    /\ Cond(c, "out", IF sync_windows THEN "bare" ELSE "out")
    /\ UNCHANGED <<fixedVars, mutex, event, counterVars, lockVars>>

Waiting == {c \in Clients : where[c] \in {"waiting", "timed"}}

(* signal and broadcast: on Windows both set the event.                    *)
Signal(c) ==
    /\ kind = "condition" /\ where[c] \in {"out", "in"}
    /\ IF sync_windows
       THEN event' = TRUE /\ UNCHANGED where
       ELSE /\ \E woken \in SUBSET Waiting :
                  /\ woken = Waiting \/ Cardinality(woken) = 1
                  /\ where' = [d \in Clients |-> IF d \in woken THEN "relock" ELSE where[d]]
            /\ UNCHANGED event
    /\ UNCHANGED <<fixedVars, mutex, counterVars, lockVars>>

(* The event wakes one thread and is reset.                                *)
Wake(c) ==
    /\ sync_windows /\ event
    /\ \/ \E how \in {"waiting", "timed"} : Cond(c, how, "relock")
       \/ Cond(c, "bare", "out")
    /\ event' = FALSE
    /\ UNCHANGED <<fixedVars, mutex, counterVars, lockVars>>

(* Mutated form of TimeOut: the mutex is not locked again.                 *)
TimeOut_Unlocked(c) ==
    /\ Cond(c, "timed", "in")
    /\ UNCHANGED <<fixedVars, mutex, event, counterVars, lockVars>>

TimeOut(c) ==
    /\ Cond(c, "timed", "relock")
    /\ UNCHANGED <<fixedVars, mutex, event, counterVars, lockVars>>

Relock(c) ==
    /\ Cond(c, "relock", "in")
    /\ mutex = Free /\ mutex' = c
    /\ UNCHANGED <<fixedVars, event, counterVars, lockVars>>

CondStep(c) ==
    \/ Acquire(c) \/ Release(c) \/ Wait(c) \/ WaitBare(c) \/ Signal(c)
    \/ Wake(c) \/ TimeOut(c) \/ Relock(c)

SyncNext == \E c \in Clients : CounterStep(c) \/ LockEnter(c) \/ LockStep(c) \/ CondStep(c)

SyncSpec == SyncInit /\ [][SyncNext]_syncVars

-----------------------------------------------------------------------------
(* The counters lose no addition, whatever its steps interleave with, and  *)
(* a token given to exchange is got back by one caller.                    *)
CountersTrue ==
    kind \in AtomicKinds =>
       IF tokens THEN Cardinality({value} \cup {held[c] : c \in Clients})
                        = Cardinality(Clients) + 1
                 ELSE value = total

(* SL_Sync_RWMutex: a writer is alone.  SL_Sync_Condition: who comes back  *)
(* from a wait has the mutex.                                              *)
LocksHold ==
    /\ kind = "rwmutex" =>
          \A c, d \in Clients :
             where[c] = "writing" /\ where[d] \in {"reading", "writing"} => c = d
    /\ kind = "condition" => \A c \in Clients : where[c] = "in" => mutex = c

(* write_lock on Windows: the readers leave, and the writer gets in.       *)
WritersGetIn == []<>(\A c \in Clients : where[c] # "draining")
=============================================================================
