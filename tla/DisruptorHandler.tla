-------------------------- MODULE DisruptorHandler --------------------------
(***************************************************************************)
(* SL_Disruptor_Handler: the consuming threads of a disruptor queue, and   *)
(* the state they share with the publishers (the ring, its cursor, the     *)
(* handlers' positions and wait flags).  DisruptorLockFree and             *)
(* DisruptorSingleWrite add a queue's push to it.                          *)
(*                                                                         *)
(* Every atomic load, store or compare_exchange of the code is one step.   *)
(* Line numbers refer to include/SL_Disruptor_Handler.h.                   *)
(***************************************************************************)
EXTENDS Integers, Sequences, FiniteSets

CONSTANTS Handlers,     \* the handlers reading the queue
          Publishers,   \* the threads calling push
          Deps,         \* dependent_list_ of each handler (add_dependent_handler)
          Gating,       \* dependent_list_ of the queue (add_handler(h, true, _))
          QueueNotify,  \* notify_list_ of the queue (add_handler(h, _, true))
          Capacity,     \* capacity_ of the queue, after init rounded it
          MaxPush,      \* bound: how many times one publisher calls push
          QuitEvent,    \* SL_Disruptor_QuitEvent
          Garbage,      \* a slot of event_pool_ nothing was copied to yet
          NoHandler     \* no handler is being signalled

ASSUME HandlerAssumption ==
    /\ Deps \in [Handlers -> SUBSET Handlers]
    /\ Gating \subseteq Handlers
    /\ QueueNotify \subseteq Handlers
    /\ Capacity \in Nat \ {0}
    /\ MaxPush \in Nat
    /\ Handlers \cap Publishers = {}
    /\ NoHandler \notin Handlers
    /\ QuitEvent \notin Publishers \X (1..MaxPush)
    /\ Garbage \notin Publishers \X (1..MaxPush)
    /\ Garbage # QuitEvent

(* The topology of the runs: the handlers that hold the publishers back    *)
(* come after the others.                                                  *)
GatingLast == [h \in Handlers |-> IF h \in Gating THEN Handlers \ Gating ELSE {}]

VARIABLES
    cursor_index,   \* cursor_index_ of the queue: events below it are published
    event_pool,     \* event_pool_: what each slot of the ring holds
    log,            \* history: the published events, in order
    handler_index,  \* handler_index_: what a handler says it has consumed
    current_index,  \* local current_index of thread_proc
    limit_index,    \* local next_index of thread_proc
    hpc,            \* where a handler's thread is
    unread,         \* dependencies whose handler_index() is still to be read
    timedwait_flag, \* timedwait_flag_
    signalled,      \* handlers blocked in timed_wait whose condition was signalled
    to_signal,      \* per thread, the handlers its notify loop has not reached
    aim,            \* per thread, the handler whose flag it found set
    delivered       \* history: the events handle_event was called with

handlerVars == <<handler_index, current_index, limit_index, hpc, unread, delivered>>
signalVars  == <<timedwait_flag, signalled, to_signal, aim>>
ringVars    == <<cursor_index, event_pool, log>>

Threads == Handlers \cup Publishers
Slots   == 0 .. Capacity - 1

(* The k-th call of push by p carries the event <<p, k>>, or it is         *)
(* quit_event().                                                           *)
UserEvents == Publishers \X (1 .. MaxPush)
Events     == UserEvents \cup {QuitEvent}

(* get_event: index & index_bit_mask_, the mask being capacity_ - 1 and    *)
(* capacity_ a power of two.                                               *)
SlotOf(i) == i % Capacity

(* add_dependent_handler puts the dependent on its dependency's notify     *)
(* list.                                                                   *)
NotifyList(h) == {g \in Handlers : h \in Deps[g]}

(* Mutated form of MinOf: the largest.                                     *)
MinOf_Largest(a, b) == IF a < b THEN b ELSE a

MinOf(a, b) == IF a < b THEN a ELSE b

HandlerPCs == {"read", "batch", "store", "flag", "block", "blocked", "woken", "quit"}

HandlerTypeOK ==
    /\ cursor_index \in Nat
    /\ event_pool \in [Slots -> Events \cup {Garbage}]
    /\ log \in Seq(Events)
    /\ handler_index \in [Handlers -> Nat]
    /\ current_index \in [Handlers -> Nat]
    /\ limit_index \in [Handlers -> Nat]
    /\ hpc \in [Handlers -> HandlerPCs]
    /\ unread \in [Handlers -> SUBSET Handlers]
    /\ timedwait_flag \in [Handlers -> {0, 1}]
    /\ signalled \subseteq Handlers
    /\ to_signal \in [Threads -> SUBSET Handlers]
    /\ aim \in [Threads -> Handlers \cup {NoHandler}]
    /\ delivered \in [Handlers -> Seq(UserEvents \cup {Garbage})]

HandlerInit ==
    /\ cursor_index = 0
    /\ event_pool = [s \in Slots |-> Garbage]
    /\ log = << >>
    /\ handler_index = [h \in Handlers |-> 0]
    /\ current_index = [h \in Handlers |-> 0]
    /\ limit_index = [h \in Handlers |-> 0]
    /\ hpc = [h \in Handlers |-> "read"]
    /\ unread = Deps
    /\ timedwait_flag = [h \in Handlers |-> 0]
    /\ signalled = {}
    /\ to_signal = [t \in Threads |-> {}]
    /\ aim = [t \in Threads |-> NoHandler]
    /\ delivered = [h \in Handlers |-> << >>]

-----------------------------------------------------------------------------
(* signal_event, as the notify loops of push and of thread_proc call it.   *)

(* timedwait_flag_.load() of one handler of the list; a clear flag ends    *)
(* the call for that handler.                                              *)
TestFlag(t) ==
    /\ aim[t] = NoHandler
    /\ \E g \in to_signal[t] :
          IF timedwait_flag[g] > 0
          THEN /\ aim' = [aim EXCEPT ![t] = g]
               /\ UNCHANGED to_signal
          ELSE /\ to_signal' = [to_signal EXCEPT ![t] = @ \ {g}]
               /\ UNCHANGED aim
    /\ UNCHANGED <<timedwait_flag, signalled>>

(* The flag was set: compare the index with handler_index_, and if the     *)
(* handler is behind it clear the flag and signal the condition, which     *)
(* reaches the handler only if it is already blocked.                      *)
Signal(t, event_index) ==
    LET g == aim[t] IN
    /\ g # NoHandler
    /\ aim' = [aim EXCEPT ![t] = NoHandler]
    /\ to_signal' = [to_signal EXCEPT ![t] = @ \ {g}]
    /\ IF event_index > handler_index[g]
       THEN /\ timedwait_flag' = [timedwait_flag EXCEPT ![g] = 0]
            /\ signalled' = IF hpc[g] = "blocked" THEN signalled \cup {g} ELSE signalled
       ELSE UNCHANGED <<timedwait_flag, signalled>>

-----------------------------------------------------------------------------
(* thread_proc.                                                            *)

(* The bound next_index is known: process up to it, or wait.               *)
Decide(h, n) ==
    /\ limit_index' = [limit_index EXCEPT ![h] = n]
    /\ hpc' = [hpc EXCEPT ![h] = IF current_index[h] < n THEN "batch" ELSE "flag"]
    /\ unread' = [unread EXCEPT ![h] = Deps[h]]

(* Mutated form of ReadCursor: one past the cursor.                        *)
ReadCursor_OnePast(h) ==
    /\ hpc[h] = "read" /\ to_signal[h] = {} /\ Deps[h] = {}
    /\ Decide(h, cursor_index + 1)
    /\ UNCHANGED <<handler_index, current_index, delivered, ringVars, signalVars>>

(* A handler without dependencies follows the queue's cursor.              *)
ReadCursor(h) ==
    /\ hpc[h] = "read"
    /\ to_signal[h] = {}
    /\ Deps[h] = {}
    /\ Decide(h, cursor_index)
    /\ UNCHANGED <<handler_index, current_index, delivered, ringVars, signalVars>>

(* "if (next_index > 0) ++next_index", after the minimum is known.         *)
DependentLimit(n) == IF n > 0 THEN n + 1 ELSE n

(* A dependent handler reads the positions of its dependencies one after   *)
(* the other and keeps the smallest.                                       *)
ReadDependency(h) ==
    /\ hpc[h] = "read"
    /\ to_signal[h] = {}
    /\ \E d \in unread[h] :
          LET n == IF unread[h] = Deps[h] THEN handler_index[d]
                                          ELSE MinOf(limit_index[h], handler_index[d])
          IN  IF unread[h] = {d}
              THEN Decide(h, DependentLimit(n))
              ELSE /\ limit_index' = [limit_index EXCEPT ![h] = n]
                   /\ unread' = [unread EXCEPT ![h] = @ \ {d}]
                   /\ UNCHANGED hpc
    /\ UNCHANGED <<handler_index, current_index, delivered, ringVars, signalVars>>

(* get_event and handle_event of one event of the batch.  The handler      *)
(* works on the slot itself, no copy is made.                              *)
HandleEvent(h) ==
    LET e == event_pool[SlotOf(current_index[h])] IN
    /\ hpc[h] = "batch"
    /\ e # QuitEvent
    /\ delivered' = [delivered EXCEPT ![h] = Append(@, e)]
    /\ current_index' = [current_index EXCEPT ![h] = @ + 1]
    /\ hpc' = [hpc EXCEPT ![h] = IF current_index[h] + 1 < limit_index[h]
                                 THEN "batch" ELSE "store"]
    /\ UNCHANGED <<handler_index, limit_index, unread, ringVars, signalVars>>

(* Mutated form of HandleQuit: the quit event ends the batch only.         *)
HandleQuit_EndsBatch(h) ==
    /\ hpc[h] = "batch"
    /\ event_pool[SlotOf(current_index[h])] \in {QuitEvent, Garbage}
    /\ current_index' = [current_index EXCEPT ![h] = @ + 1]
    /\ hpc' = [hpc EXCEPT ![h] = "store"]
    /\ UNCHANGED <<handler_index, limit_index, unread, delivered, ringVars, signalVars>>

(* The quit event, or slot contents that happen to look like one: the      *)
(* position is stored without counting it and nobody is notified.          *)
HandleQuit(h) ==
    LET e == event_pool[SlotOf(current_index[h])] IN
    /\ hpc[h] = "batch"
    /\ e \in {QuitEvent, Garbage}
    /\ handler_index' = [handler_index EXCEPT ![h] = current_index[h]]
    /\ hpc' = [hpc EXCEPT ![h] = "quit"]
    /\ UNCHANGED <<current_index, limit_index, unread, delivered, ringVars, signalVars>>

(* Mutated form of StoreIndex: the position is not stored.                 *)
StoreIndex_Forgotten(h) ==
    /\ hpc[h] = "store"
    /\ hpc' = [hpc EXCEPT ![h] = "read"]
    /\ to_signal' = [to_signal EXCEPT ![h] = NotifyList(h)]
    /\ UNCHANGED <<handler_index, current_index, limit_index, unread, delivered, ringVars,
                   timedwait_flag, signalled, aim>>

(* The end of a batch: the position becomes visible to the publishers and  *)
(* to the dependents, which are then signalled.                            *)
StoreIndex(h) ==
    /\ hpc[h] = "store"
    /\ handler_index' = [handler_index EXCEPT ![h] = current_index[h]]
    /\ hpc' = [hpc EXCEPT ![h] = "read"]
    /\ to_signal' = [to_signal EXCEPT ![h] = NotifyList(h)]
    /\ UNCHANGED <<current_index, limit_index, unread, delivered, ringVars,
                   timedwait_flag, signalled, aim>>

(* Nothing to do: raise the flag ...                                       *)
RaiseFlag(h) ==
    /\ hpc[h] = "flag"
    /\ timedwait_flag' = [timedwait_flag EXCEPT ![h] = 1]
    /\ hpc' = [hpc EXCEPT ![h] = "block"]
    /\ UNCHANGED <<handler_index, current_index, limit_index, unread, delivered,
                   ringVars, signalled, to_signal, aim>>

(* ... and block on the condition; a signal sent before this step is lost. *)
Block(h) ==
    /\ hpc[h] = "block"
    /\ hpc' = [hpc EXCEPT ![h] = "blocked"]
    /\ signalled' = signalled \ {h}
    /\ UNCHANGED <<handler_index, current_index, limit_index, unread, delivered,
                   ringVars, timedwait_flag, to_signal, aim>>

Wake(h) ==
    /\ hpc[h] = "blocked"
    /\ hpc' = [hpc EXCEPT ![h] = "woken"]
    /\ signalled' = signalled \ {h}
    /\ UNCHANGED <<handler_index, current_index, limit_index, unread, delivered,
                   ringVars, timedwait_flag, to_signal, aim>>

(* timed_wait returns because the condition was signalled, or because      *)
(* timedwait_interval_us passed.                                           *)
WakeSignalled(h) == h \in signalled /\ Wake(h)

(* Mutated form of WakeTimeout: an untimed wait.                           *)
WakeTimeout_Never(h) == FALSE

WakeTimeout(h) == h \notin signalled /\ Wake(h)

ClearFlag(h) ==
    /\ hpc[h] = "woken"
    /\ timedwait_flag' = [timedwait_flag EXCEPT ![h] = 0]
    /\ hpc' = [hpc EXCEPT ![h] = "read"]
    /\ UNCHANGED <<handler_index, current_index, limit_index, unread, delivered,
                   ringVars, signalled, to_signal, aim>>

(* The notify loop after StoreIndex.                                       *)
HandlerSignals(h) ==
    /\ TestFlag(h) \/ Signal(h, current_index[h])
    /\ UNCHANGED <<handlerVars, ringVars>>

HandlerStep(h) ==
    \/ ReadCursor(h)    \/ ReadDependency(h)
    \/ HandleEvent(h)   \/ HandleQuit(h)     \/ StoreIndex(h)
    \/ RaiseFlag(h)     \/ Block(h)
    \/ WakeSignalled(h) \/ WakeTimeout(h)    \/ ClearFlag(h)
    \/ HandlerSignals(h)

-----------------------------------------------------------------------------
(* Handlers that read the cursor and hold the publishers back.             *)
Roots == {h \in Handlers : Deps[h] = {} /\ h \in Gating}

(* A root handler that gates the publishers keeps the sizes push returns   *)
(* from being less than one: the positions of dependents may be beyond the *)
(* cursor.                                                                 *)
RootsGate == Gating # {} => Roots # {}

IsPrefixOf(s, t) == Len(s) <= Len(t) /\ \A i \in 1 .. Len(s) : s[i] = t[i]

(* thread_proc: a handler without dependencies has been given a prefix of  *)
(* the published events, in order, none twice, and when it has quit the    *)
(* quit event is the next one.                                             *)
DeliveredInOrder ==
    \A h \in Roots :
       /\ IsPrefixOf(delivered[h], log)
       /\ Len(delivered[h]) = current_index[h]
       /\ hpc[h] = "quit" => /\ current_index[h] < cursor_index
                             /\ log[current_index[h] + 1] = QuitEvent

(* What the handlers rely on and keep, whichever queue they read: a root   *)
(* handler stays between its stored position and the cursor, ...           *)
RootsBehindCursor ==
    \A h \in Roots :
       /\ handler_index[h] <= current_index[h]
       /\ current_index[h] <= cursor_index
       /\ limit_index[h] <= cursor_index
       /\ hpc[h] = "batch" => current_index[h] < limit_index[h]
       /\ unread[h] = {}

(* ... and the slots from its stored position on hold what was published.  *)
RingKept ==
    \A h \in Roots : \A i \in handler_index[h] .. cursor_index - 1 :
       event_pool[SlotOf(i)] = log[i + 1]

HandlerInv ==
    /\ HandlerTypeOK
    /\ cursor_index = Len(log)
    /\ RootsBehindCursor
    /\ RingKept
    /\ DeliveredInOrder

(* The abstract log: published events and deliveries.                      *)
Log == INSTANCE EventLog WITH Handlers  <- Roots,
                              delivered <- [h \in Roots |-> delivered[h]],
                              stopped   <- {h \in Roots : hpc[h] = "quit"}

(* The ring, its indices and the retries implement the event log.          *)
ImplementsLog == Log!Spec

(* Every published event reaches every handler that has not met the quit   *)
(* event, although signal_event may be lost or never sent: the wait is     *)
(* timed.                                                                  *)
EventuallyHandled ==
    \A h \in Handlers : \A n \in 1 .. Cardinality(Publishers) * MaxPush :
       (cursor_index >= n) ~> (hpc[h] = "quit" \/ Len(delivered[h]) >= n)

(* What the dependency list of a handler is for: an event is handled only  *)
(* after every dependency has handled it.                                  *)
DependencyFirst ==
    \A h \in Handlers : \A d \in Deps[h] : Len(delivered[h]) <= Len(delivered[d])
=============================================================================
