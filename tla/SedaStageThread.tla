--------------------------- MODULE SedaStageThread --------------------------
(***************************************************************************)
(* SL_Seda_StageThread with its two SL_Seda_EventQueue rings: producers    *)
(* push into the standby ring under a spin lock, the stage thread pops     *)
(* from the active ring without a lock and swaps the two when the active   *)
(* one is empty and the standby one is not.  stop() pushes the quit event  *)
(* without the lock.                                                       *)
(*                                                                         *)
(* Line numbers refer to include/SL_Seda_StageThread.h and, for the ring,  *)
(* to include/SL_Seda_EventQueue.h.                                        *)
(*                                                                         *)
(* SL_Seda_Stage::push_event, at the end, chooses the stage thread an      *)
(* event goes to: many callers share next_thread_index_, a plain int,      *)
(* without a lock.  Line numbers there refer to include/SL_Seda_Stage.h.   *)
(***************************************************************************)
EXTENDS Integers, Sequences, FiniteSets

CONSTANTS Producers,    \* the threads calling push_event
          Stopper,      \* the thread calling stop, then join
          StageThread,  \* the thread running thread_proc
          Capacity,     \* capacity_ of each ring
          MaxPush,      \* bound: calls of push_event by one producer
          StopQuiet,    \* stop is called when the producers have ceased and the
                        \* standby ring is empty
          QuitEvent,    \* SL_Seda_QuitEvent
          Garbage,      \* a slot nothing was copied to yet
          NoOne         \* the spin lock is free

Events == (Producers \X (1 .. MaxPush)) \cup {QuitEvent}

ASSUME StageThreadAssumption ==
    /\ Capacity \in Nat \ {0}
    /\ MaxPush \in Nat
    /\ StopQuiet \in BOOLEAN
    /\ NoOne \notin Producers \cup {StageThread}
    /\ Stopper \notin Producers
    /\ StageThread \notin Producers \cup {Stopper}
    /\ Garbage \notin Events

VARIABLES
    slots,          \* pool_begin_ of the two rings
    write_index,    \* write_index_
    read_index,     \* read_index_
    queue_size,     \* queue_size_
    active,         \* event_queue_active_: 1 or 2; the other one is standby
    mutex,          \* event_queue_mutex_: its holder
    timedwait_flag, \* timedwait_flag_
    signalled,      \* the blocked stage thread's condition was signalled
    ppc,            \* where a producer or the stopper is
    target,         \* the ring the stopper loaded from event_queue_standby_
    size_read,      \* queue_size_ as loaded by ++queue_size_ / --queue_size_
    result,         \* what push returned to a producer
    pushed,         \* how many calls of push_event a producer began
    spc,            \* where thread_proc is
    event,          \* the slot pop() returned
    log,            \* history: accepted events, in order
    delivered       \* history: the events handle_event was called with

ringVars     == <<slots, write_index, read_index, queue_size, active, mutex>>
waitVars     == <<timedwait_flag, signalled>>
producerVars == <<ppc, target, result, pushed>>
threadVars   == <<spc, event, delivered>>
vars == <<ringVars, waitVars, producerVars, threadVars, size_read, log>>

Rings   == {1, 2}
Slots   == 0 .. Capacity - 1
Pushers == Producers \cup {Stopper}
standby == 3 - active

(* The slot at the i-th place from the ring's start, past its end once.    *)
Place(i) == IF i < Capacity THEN i ELSE i - Capacity

After(i) == Place(i + 1)

(* Every variable has its type.                                            *)
TypeOK ==
    /\ slots \in [Rings -> [Slots -> Events \cup {Garbage}]]
    /\ write_index \in [Rings -> Slots]
    /\ read_index \in [Rings -> Slots]
    /\ queue_size \in [Rings -> 0 .. Capacity]
    /\ active \in Rings
    /\ mutex \in Producers \cup {StageThread, NoOne}
    /\ timedwait_flag \in {0, 1}
    /\ signalled \in BOOLEAN
    /\ ppc \in [Pushers -> {"idle", "copy", "load", "store", "unlock", "test",
                            "signal", "join", "joined"}]
    /\ target \in Rings
    /\ size_read \in [Pushers \cup {StageThread} -> 0 .. Capacity]
    /\ result \in [Pushers -> {-1} \cup 1 .. Capacity]
    /\ pushed \in [Producers -> 0 .. MaxPush]
    /\ spc \in {"pop", "take", "handle", "check", "lock", "swap", "flag", "block",
                "blocked", "woken", "recheck", "relock", "reswap", "quit"}
    /\ event \in Slots
    /\ log \in Seq(Events)
    /\ delivered \in Seq(Events \cup {Garbage})

Init ==
    /\ slots = [q \in Rings |-> [s \in Slots |-> Garbage]]
    /\ write_index = [q \in Rings |-> 0]
    /\ read_index = [q \in Rings |-> 0]
    /\ queue_size = [q \in Rings |-> 0]
    /\ active = 1
    /\ mutex = NoOne
    /\ timedwait_flag = 0
    /\ signalled = FALSE
    /\ ppc = [p \in Pushers |-> "idle"]
    /\ target = 2
    /\ size_read = [t \in Pushers \cup {StageThread} |-> 0]
    /\ result = [p \in Pushers |-> -1]
    /\ pushed = [p \in Producers |-> 0]
    /\ spc = "pop"
    /\ event = 0
    /\ log = << >>
    /\ delivered = << >>

-----------------------------------------------------------------------------
(* push_event and stop.                                                    *)

Goto(t, pc) == ppc' = [ppc EXCEPT ![t] = pc]

(* push_event is called and takes the spin lock.                           *)
PushEvent(p) ==
    /\ ppc[p] = "idle"
    /\ pushed[p] < MaxPush
    /\ StopQuiet => ppc[Stopper] = "idle"
    /\ mutex = NoOne
    /\ mutex' = p
    /\ pushed' = [pushed EXCEPT ![p] = @ + 1]
    /\ Goto(p, "copy")
    /\ UNCHANGED <<slots, write_index, read_index, queue_size, active, waitVars,
                   target, result, threadVars, size_read, log>>

(* stop is called and loads event_queue_standby_, without the lock.        *)
Stop ==
    /\ ppc[Stopper] = "idle"
    /\ StopQuiet => /\ \A p \in Producers : ppc[p] = "idle"
                    /\ queue_size[standby] = 0
    /\ target' = standby
    /\ Goto(Stopper, "copy")
    /\ UNCHANGED <<ringVars, waitVars, result, pushed, threadVars, size_read, log>>

RingOf(t)  == IF t = Stopper THEN target ELSE standby
EventOf(t) == IF t = Stopper THEN QuitEvent ELSE <<t, pushed[t]>>

(* SL_Seda_EventQueue::push: a full ring refuses, otherwise the event is   *)
(* copied and write_index_ moves on ...                                    *)
CopyEvent(t) ==
    LET q == RingOf(t) IN
    /\ ppc[t] = "copy"
    /\ IF queue_size[q] < Capacity
       THEN /\ slots' = [slots EXCEPT ![q][write_index[q]] = EventOf(t)]
            /\ write_index' = [write_index EXCEPT ![q] = After(@)]
            /\ Goto(t, "load")
            /\ UNCHANGED result
       ELSE /\ result' = [result EXCEPT ![t] = -1]
            /\ Goto(t, "unlock")
            /\ UNCHANGED <<slots, write_index>>
    /\ UNCHANGED <<read_index, queue_size, active, mutex, waitVars, target, pushed,
                   threadVars, size_read, log>>

(* ... then ++queue_size_, a load and a store.                             *)
LoadSize(t) ==
    /\ ppc[t] = "load"
    /\ size_read' = [size_read EXCEPT ![t] = queue_size[RingOf(t)]]
    /\ Goto(t, "store")
    /\ UNCHANGED <<ringVars, waitVars, target, result, pushed, threadVars, log>>

(* Mutated form of StoreSize: the increment is forgotten when the ring     *)
(* was not empty.                                                          *)
StoreSize_FirstOnly(t) ==
    /\ ppc[t] = "store"
    /\ queue_size' = [queue_size EXCEPT ![RingOf(t)] = 1]
    /\ result' = [result EXCEPT ![t] = 1]
    /\ log' = Append(log, EventOf(t))
    /\ Goto(t, "unlock")
    /\ UNCHANGED <<slots, write_index, read_index, active, mutex, waitVars, target,
                   pushed, threadVars, size_read>>

StoreSize(t) ==
    /\ ppc[t] = "store"
    /\ queue_size' = [queue_size EXCEPT ![RingOf(t)] = size_read[t] + 1]
    /\ result' = [result EXCEPT ![t] = size_read[t] + 1]
    /\ log' = Append(log, EventOf(t))
    /\ Goto(t, "unlock")
    /\ UNCHANGED <<slots, write_index, read_index, active, mutex, waitVars, target,
                   pushed, threadVars, size_read>>

(* push_event releases the lock; only the event that made the ring         *)
(* non-empty may signal.  stop signals whatever push answered.             *)
Unlock(t) ==
    /\ ppc[t] = "unlock"
    /\ IF t = Stopper
       THEN Goto(t, "signal") /\ UNCHANGED mutex
       ELSE mutex' = NoOne /\ Goto(t, IF result[t] = 1 THEN "test" ELSE "idle")
    /\ UNCHANGED <<slots, write_index, read_index, queue_size, active, waitVars,
                   target, result, pushed, threadVars, size_read, log>>

TestFlag(p) ==
    /\ ppc[p] = "test"
    /\ Goto(p, IF timedwait_flag > 0 THEN "signal" ELSE "idle")
    /\ UNCHANGED <<ringVars, waitVars, target, result, pushed, threadVars, size_read, log>>

Signal(t) ==
    /\ ppc[t] = "signal"
    /\ timedwait_flag' = IF t = Stopper THEN timedwait_flag ELSE 0
    /\ signalled' = (signalled \/ spc = "blocked")
    /\ Goto(t, IF t = Stopper THEN "join" ELSE "idle")
    /\ UNCHANGED <<ringVars, target, result, pushed, threadVars, size_read, log>>

(* SL_Seda_Stage::close joins the thread after stop.                       *)
Join ==
    /\ ppc[Stopper] = "join"
    /\ spc = "quit"
    /\ Goto(Stopper, "joined")
    /\ UNCHANGED <<ringVars, waitVars, target, result, pushed, threadVars, size_read, log>>

-----------------------------------------------------------------------------
(* thread_proc, without idle events and timers.                            *)

At(pc, next) == spc = pc /\ spc' = next

(* pop() on the active ring: load queue_size_ ...                          *)
Pop ==
    /\ At("pop", IF queue_size[active] > 0 THEN "take" ELSE "check")
    /\ size_read' = [size_read EXCEPT ![StageThread] = queue_size[active]]
    /\ UNCHANGED <<ringVars, waitVars, producerVars, event, delivered, log>>

(* ... store the decremented size and hand out the slot itself.            *)
TakeSlot ==
    /\ At("take", "handle")
    /\ queue_size' = [queue_size EXCEPT ![active] = size_read[StageThread] - 1]
    /\ event' = read_index[active]
    /\ read_index' = [read_index EXCEPT ![active] = After(@)]
    /\ UNCHANGED <<slots, write_index, active, mutex, waitVars, producerVars, delivered,
                   size_read, log>>

HandleEvent ==
    /\ slots[active][event] # QuitEvent
    /\ At("handle", "pop")
    /\ delivered' = Append(delivered, slots[active][event])
    /\ UNCHANGED <<ringVars, waitVars, producerVars, event, size_read, log>>

(* Mutated form of HandleQuit: a quit event is handled like the others.    *)
HandleQuit_Ignored ==
    /\ slots[active][event] \in {QuitEvent, Garbage}
    /\ At("handle", "pop")
    /\ UNCHANGED <<ringVars, waitVars, producerVars, event, delivered, size_read, log>>

HandleQuit ==
    /\ slots[active][event] \in {QuitEvent, Garbage}
    /\ At("handle", "quit")
    /\ UNCHANGED <<ringVars, waitVars, producerVars, event, delivered, size_read, log>>

(* swap_event_queue: empty() is asked without the lock ...                 *)
CheckStandby ==
    /\ \/ At("check", IF queue_size[standby] = 0 THEN "flag" ELSE "lock")
       \/ At("recheck", IF queue_size[standby] = 0 THEN "pop" ELSE "lock")
    /\ UNCHANGED <<ringVars, waitVars, producerVars, event, delivered, size_read, log>>

(* Mutated form of TakeLock: the swap does not wait for the lock.          *)
TakeLock_NotTaken ==
    /\ At("lock", "swap")
    /\ UNCHANGED <<ringVars, waitVars, producerVars, event, delivered, size_read, log>>

(* ... the lock is taken, the pointers swapped, the lock released.         *)
TakeLock ==
    /\ mutex = NoOne
    /\ At("lock", "swap")
    /\ mutex' = StageThread
    /\ UNCHANGED <<slots, write_index, read_index, queue_size, active, waitVars,
                   producerVars, event, delivered, size_read, log>>

Swap ==
    /\ At("swap", "pop")
    /\ active' = standby
    /\ mutex' = NoOne
    /\ UNCHANGED <<slots, write_index, read_index, queue_size, waitVars, producerVars,
                   event, delivered, size_read, log>>

RaiseFlag ==
    /\ At("flag", "block")
    /\ timedwait_flag' = 1
    /\ UNCHANGED <<ringVars, signalled, producerVars, event, delivered, size_read, log>>

Block ==
    /\ At("block", "blocked")
    /\ signalled' = FALSE
    /\ UNCHANGED <<ringVars, timedwait_flag, producerVars, event, delivered, size_read, log>>

(* timed_wait returns: signalled, or after timedwait_interval_us_.         *)
Wake(by_signal) ==
    /\ by_signal = signalled
    /\ At("blocked", "woken")
    /\ signalled' = FALSE
    /\ UNCHANGED <<ringVars, timedwait_flag, producerVars, event, delivered, size_read, log>>

WakeSignalled == Wake(TRUE)

(* Mutated form of WakeTimeout: an untimed wait.                           *)
WakeTimeout_Never == FALSE

WakeTimeout   == Wake(FALSE)

ClearFlag ==
    /\ At("woken", "recheck")
    /\ timedwait_flag' = 0
    /\ UNCHANGED <<ringVars, signalled, producerVars, event, delivered, size_read, log>>

-----------------------------------------------------------------------------
PusherStep(t) ==
    \/ CopyEvent(t) \/ LoadSize(t) \/ StoreSize(t)
    \/ Unlock(t)    \/ TestFlag(t) \/ Signal(t)

ThreadStep ==
    \/ Pop          \/ TakeSlot  \/ HandleEvent   \/ HandleQuit
    \/ CheckStandby \/ TakeLock  \/ Swap
    \/ RaiseFlag    \/ Block     \/ WakeSignalled \/ WakeTimeout \/ ClearFlag

Next ==
    \/ \E p \in Producers : PushEvent(p)
    \/ Stop \/ Join
    \/ \E t \in Pushers : PusherStep(t)
    \/ ThreadStep

Spec == Init /\ [][Next]_vars

(* Every thread runs; nobody has to call push_event or stop.               *)
Fairness ==
    /\ \A t \in Pushers : WF_vars(PusherStep(t))
    /\ WF_vars(ThreadStep)
    /\ WF_vars(Join)

FairSpec == Spec /\ Fairness

-----------------------------------------------------------------------------
(* The events between read_index_ and read_index_ + queue_size_.           *)
Contents(q) == [k \in 1 .. queue_size[q] |->
                   slots[q][Place(read_index[q] + k - 1)]]

(* The event pop() returned that handle_event has not finished with.       *)
InHand ==
    IF spc = "handle" \/ (spc = "quit" /\ slots[active][event] = QuitEvent)
    THEN <<slots[active][event]>> ELSE << >>

(* push_event, pop, swap_event_queue: whatever was accepted is handled, is *)
(* being handled, or is in the active or in the standby ring, in that      *)
(* order; nothing is lost, doubled, reordered, or overwritten under        *)
(* handle_event, which works on the slot itself.                           *)
Conserved == log = delivered \o InHand \o Contents(active) \o Contents(standby)

(* What the steps keep so that this holds when stop is quiet.              *)

Pushing(t) == ppc[t] \in {"load", "store"}

(* The producers write one at a time, and the stopper after all of them,   *)
(* into a standby ring that nobody swaps away.                             *)
OneWriter ==
    /\ \A p \in Producers : mutex = p <=> ppc[p] \in {"copy", "load", "store", "unlock"}
    /\ mutex = StageThread <=> spc = "swap"
    /\ ppc[Stopper] # "idle" => \A p \in Producers : ppc[p] = "idle"
    /\ ppc[Stopper] \in {"copy", "load", "store"} =>
          target = standby /\ queue_size[standby] = 0
    /\ \A p \in Producers : mutex = p => pushed[p] > 0

(* thread_proc swaps an empty ring for one that is not.                    *)
SwapIsDue ==
    /\ spc \in {"check", "lock", "swap", "flag", "block", "blocked", "woken", "recheck"} =>
          queue_size[active] = 0
    /\ spc \in {"lock", "swap"} => queue_size[standby] > 0
    /\ spc = "take" => queue_size[active] > 0

(* write_index_ is where the contents end, or one further once the event   *)
(* is copied; nobody else writes the size between its load and its store.  *)
RingsTrue ==
    /\ write_index[active] = Place(read_index[active] + queue_size[active])
    /\ (\A t \in Pushers : ~Pushing(t)) =>
          write_index[standby] = Place(read_index[standby] + queue_size[standby])
    /\ \A t \in Pushers : Pushing(t) =>
          LET last == read_index[standby] + queue_size[standby] IN
          /\ queue_size[standby] < Capacity
          /\ write_index[standby] = Place(last + 1)
          /\ slots[standby][Place(last)] = EventOf(t)
    /\ \A t \in Pushers : ppc[t] = "store" => size_read[t] = queue_size[standby]
    /\ spc = "take" => size_read[StageThread] = queue_size[active]

IInv == TypeOK /\ OneWriter /\ SwapIsDue /\ RingsTrue /\ Conserved

Log == INSTANCE EventLog WITH
          Handlers  <- {StageThread},
          delivered <- [h \in {StageThread} |-> delivered],
          stopped   <- IF spc = "quit" THEN {StageThread} ELSE {}

(* The two rings implement the event log: accepted events are handled once *)
(* each and in order, until the quit event.                                *)
ImplementsLog == Log!Spec

(* Every accepted event of the finitely many is handled although           *)
(* push_event signals only when the ring was empty and the signal may come *)
(* before the wait.                                                        *)
EventuallyHandled == <>[](spc = "quit" \/ Len(delivered) = Len(log))

(* stop followed by join returns.                                          *)
StopJoins == <>[](ppc[Stopper] \in {"idle", "joined"})

-----------------------------------------------------------------------------
(* SL_Seda_Stage::push_event.                                              *)
CONSTANTS Callers,      \* the threads calling SL_Seda_Stage::push_event
          ThreadSize,   \* stage_threads_.size(), at least 1 after open
          MaxCalls      \* bound: calls by one of them

ASSUME StageAssumption ==
    /\ ThreadSize \in Nat \ {0}
    /\ MaxCalls \in Nat

VARIABLES
    next_thread_index_,     \* the next thread in turn
    stage_pc,               \* where a caller is inside push_event
    thread_index,           \* local thread_index
    stage_calls,            \* how many calls a caller began
    turns                   \* history: turns given to each thread

stageVars == <<next_thread_index_, stage_pc, thread_index, stage_calls, turns>>

ThreadIndices == 0 .. ThreadSize - 1

StageInit ==
    /\ next_thread_index_ = 0
    /\ stage_pc = [p \in Callers |-> "idle"]
    /\ thread_index = [p \in Callers |-> 0]
    /\ stage_calls = [p \in Callers |-> 0]
    /\ turns = [i \in ThreadIndices |-> 0]

StageGoto(p, pc) == stage_pc' = [stage_pc EXCEPT ![p] = pc]

(* push_event(event, arg): a single thread takes everything, a valid index *)
(* is obeyed, any other one means the next thread in turn.                 *)
StagePush(p, arg) ==
    /\ stage_pc[p] = "idle"
    /\ stage_calls[p] < MaxCalls
    /\ stage_calls' = [stage_calls EXCEPT ![p] = @ + 1]
    /\ IF ThreadSize < 2
       THEN thread_index' = [thread_index EXCEPT ![p] = 0] /\ StageGoto(p, "push")
       ELSE IF arg \in ThreadIndices
            THEN thread_index' = [thread_index EXCEPT ![p] = arg] /\ StageGoto(p, "push")
            ELSE UNCHANGED thread_index /\ StageGoto(p, "load")
    /\ UNCHANGED <<next_thread_index_, turns>>

(* thread_index = next_thread_index_++ is a load and a store.              *)
LoadNext(p) ==
    /\ stage_pc[p] = "load"
    /\ thread_index' = [thread_index EXCEPT ![p] = next_thread_index_]
    /\ StageGoto(p, "store")
    /\ UNCHANGED <<next_thread_index_, stage_calls, turns>>

(* Thread i has its turn.                                                  *)
Turn(i) == turns' = [turns EXCEPT ![i] = @ + 1]

(* Mutated form of StoreNext: the wrap test lets the size itself pass.     *)
StoreNext_OffByOne(p) ==
    /\ stage_pc[p] = "store"
    /\ next_thread_index_' = thread_index[p] + 1
    /\ IF thread_index[p] > ThreadSize
       THEN StageGoto(p, "wrap") /\ UNCHANGED turns
       ELSE StageGoto(p, "push") /\ Turn(thread_index[p])
    /\ UNCHANGED <<thread_index, stage_calls>>

StoreNext(p) ==
    /\ stage_pc[p] = "store"
    /\ next_thread_index_' = thread_index[p] + 1
    /\ IF thread_index[p] >= ThreadSize
       THEN StageGoto(p, "wrap") /\ UNCHANGED turns
       ELSE StageGoto(p, "push") /\ Turn(thread_index[p])
    /\ UNCHANGED <<thread_index, stage_calls>>

(* Mutated form of Wrap: the turn is set to the thread just used.          *)
Wrap_SameAgain(p) ==
    /\ stage_pc[p] = "wrap"
    /\ thread_index' = [thread_index EXCEPT ![p] = @ - ThreadSize]
    /\ next_thread_index_' = thread_index[p] - ThreadSize
    /\ Turn(thread_index[p] - ThreadSize)
    /\ StageGoto(p, "push")
    /\ UNCHANGED stage_calls

(* Past the end: start over, and set the turn to match.                    *)
Wrap(p) ==
    /\ stage_pc[p] = "wrap"
    /\ thread_index' = [thread_index EXCEPT ![p] = @ - ThreadSize]
    /\ next_thread_index_' = thread_index[p] - ThreadSize + 1
    /\ Turn(thread_index[p] - ThreadSize)
    /\ StageGoto(p, "push")
    /\ UNCHANGED stage_calls

(* stage_threads_[thread_index]->push_event(event), see SedaStageThread.   *)
PushToThread(p) ==
    /\ stage_pc[p] = "push"
    /\ StageGoto(p, "idle")
    /\ UNCHANGED <<next_thread_index_, thread_index, stage_calls, turns>>

StageNext ==
    \E p \in Callers :
       \/ \E arg \in -1 .. ThreadSize : StagePush(p, arg)
       \/ LoadNext(p) \/ StoreNext(p) \/ Wrap(p) \/ PushToThread(p)

StageSpec == StageInit /\ [][StageNext]_stageVars

-----------------------------------------------------------------------------
(* push_event: the index a caller uses is one of stage_threads_, whatever  *)
(* explicit indices come between its turns.  With two callers two stale    *)
(* increments around a reset can break it.                                 *)
IndexInRange ==
    \A p \in Callers : stage_pc[p] = "push" => thread_index[p] \in ThreadIndices

(* push_event in turn, whatever explicit indices come in between: no       *)
(* thread is ever given two turns more than another.                       *)
Balanced ==
    \A i, j \in ThreadIndices : turns[i] <= turns[j] + 1

(* Balance while a caller's turn is taken in steps, one caller at a time:  *)
(* the threads before the next one have had one turn more.                 *)
OneCaller == \A p, q \in Callers : p = q

TurnsEven ==
    \E n \in Nat : \A i \in ThreadIndices :
        turns[i] = IF i < next_thread_index_ THEN n + 1 ELSE n

RoundInv ==
    /\ next_thread_index_ \in 0 .. ThreadSize + 1
    /\ stage_pc \in [Callers -> {"idle", "load", "store", "wrap", "push"}]
    /\ thread_index \in [Callers -> 0 .. ThreadSize]
    /\ turns \in [ThreadIndices -> Nat]
    /\ \A p \in Callers :
          /\ stage_pc[p] = "store" => thread_index[p] = next_thread_index_
          /\ stage_pc[p] = "push" => thread_index[p] \in ThreadIndices
          /\ IF stage_pc[p] = "wrap"
             THEN thread_index[p] = ThreadSize /\ next_thread_index_ = ThreadSize + 1
             ELSE next_thread_index_ <= ThreadSize
    /\ TurnsEven
=============================================================================
