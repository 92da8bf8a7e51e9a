------------------------- MODULE DisruptorLockFree --------------------------
(***************************************************************************)
(* SL_Disruptor_LockFreeQueue: several publishers claim indices with a     *)
(* compare_exchange on next_index_, copy their event into the slot, and    *)
(* publish in index order with a compare_exchange on cursor_index_.  The   *)
(* consuming side is DisruptorHandler.                                     *)
(* Line numbers refer to include/SL_Disruptor_LockFreeQueue.h.             *)
(***************************************************************************)
EXTENDS DisruptorHandler

CONSTANTS Redo,         \* the redo counts push is called with, after the
                        \* rewrite_count_ default: > 0, or -1 for no limit
          Quitters      \* the publishers that may call quit_event

ASSUME LockFreeAssumption ==
    /\ Redo \subseteq Nat \cup {-1}
    /\ 0 \notin Redo
    /\ Quitters \subseteq Publishers

VARIABLES
    next_index,     \* next_index_: the next index to claim
    ppc,            \* where a publisher is inside push
    loaded,         \* local next_index
    min_index,      \* local handler_index
    unscanned,      \* dependent_list_ entries min_dependent_index_i has yet to read
    event,          \* the event being pushed
    redo,           \* attempts left, -1: no limit
    results         \* history: what each finished call of push returned

publisherVars == <<ppc, loaded, min_index, unscanned, event, redo, results>>
vars == <<ringVars, handlerVars, signalVars, next_index, publisherVars>>

PublisherPCs == {"idle", "load", "scan", "cas", "copy", "publish"}

(* Every variable has its type.                                            *)
TypeOK ==
    /\ HandlerTypeOK
    /\ next_index \in Nat
    /\ ppc \in [Publishers -> PublisherPCs]
    /\ loaded \in [Publishers -> Nat]
    /\ min_index \in [Publishers -> Nat]
    /\ unscanned \in [Publishers -> SUBSET Handlers]
    /\ event \in [Publishers -> Events]
    /\ redo \in [Publishers -> Nat \cup {-1}]
    /\ results \in [Publishers -> Seq(Int)]

Init ==
    /\ HandlerInit
    /\ next_index = 0
    /\ ppc = [p \in Publishers |-> "idle"]
    /\ loaded = [p \in Publishers |-> 0]
    /\ min_index = [p \in Publishers |-> 0]
    /\ unscanned = [p \in Publishers |-> {}]
    /\ event = [p \in Publishers |-> QuitEvent]
    /\ redo = [p \in Publishers |-> -1]
    /\ results = [p \in Publishers |-> << >>]

-----------------------------------------------------------------------------
Return(p, r) ==
    /\ ppc' = [ppc EXCEPT ![p] = "idle"]
    /\ results' = [results EXCEPT ![p] = Append(@, r)]

(* push is called with event e; without a dependent handler it refuses.    *)
Push(p, e, r) ==
    /\ ppc[p] = "idle"
    /\ to_signal[p] = {}
    /\ Len(results[p]) < MaxPush
    /\ IF Gating # {}
       THEN /\ ppc' = [ppc EXCEPT ![p] = "load"]
            /\ event' = [event EXCEPT ![p] = e]
            /\ redo' = [redo EXCEPT ![p] = r]
            /\ UNCHANGED results
       ELSE Return(p, -1) /\ UNCHANGED <<event, redo>>
    /\ UNCHANGED <<ringVars, handlerVars, signalVars, next_index, loaded, min_index, unscanned>>

PushUser(p) == \E r \in Redo : Push(p, <<p, Len(results[p]) + 1>>, r)

(* quit_event: push(&quit_event, -1).                                      *)
PushQuit(p) == p \in Quitters /\ Push(p, QuitEvent, -1)

LoadNext(p) ==
    /\ ppc[p] = "load"
    /\ loaded' = [loaded EXCEPT ![p] = next_index]
    /\ unscanned' = [unscanned EXCEPT ![p] = Gating]
    /\ ppc' = [ppc EXCEPT ![p] = "scan"]
    /\ UNCHANGED <<ringVars, handlerVars, signalVars, next_index, min_index, event, redo, results>>

(* Mutated form of Retry: an unlimited count is counted down too.          *)
Retry_CountsDown(p) ==
    IF redo[p] = 1
    THEN Return(p, -1) /\ UNCHANGED redo
    ELSE /\ redo' = [redo EXCEPT ![p] = @ - 1]
         /\ ppc' = [ppc EXCEPT ![p] = "load"]
         /\ UNCHANGED results

(* An attempt failed: try again, or give up when none is left.             *)
Retry(p) ==
    IF redo[p] = 1
    THEN Return(p, -1) /\ UNCHANGED redo
    ELSE /\ redo' = [redo EXCEPT ![p] = IF @ > 1 THEN @ - 1 ELSE @]
         /\ ppc' = [ppc EXCEPT ![p] = "load"]
         /\ UNCHANGED results

(* min_dependent_index_i reads the handlers' positions one after the       *)
(* other; once it has them all the ring is either full or not.             *)
ScanDependent(p) ==
    /\ ppc[p] = "scan"
    /\ \E h \in unscanned[p] :
          LET m == IF unscanned[p] = Gating THEN handler_index[h]
                                            ELSE MinOf(min_index[p], handler_index[h])
          IN  /\ min_index' = [min_index EXCEPT ![p] = m]
              /\ unscanned' = [unscanned EXCEPT ![p] = @ \ {h}]
              /\ IF unscanned[p] # {h}
                 THEN UNCHANGED <<ppc, redo, results>>
                 ELSE IF loaded[p] - m < Capacity
                      THEN /\ ppc' = [ppc EXCEPT ![p] = "cas"]
                           /\ UNCHANGED <<redo, results>>
                      ELSE Retry(p)
    /\ UNCHANGED <<ringVars, handlerVars, signalVars, next_index, loaded, event>>

(* Mutated form of ClaimIndex: a store instead of the compare_exchange.    *)
ClaimIndex_Store(p) ==
    /\ ppc[p] = "cas"
    /\ next_index' = loaded[p] + 1
    /\ ppc' = [ppc EXCEPT ![p] = "copy"]
    /\ UNCHANGED <<redo, results, ringVars, handlerVars, signalVars, loaded, min_index,
                   unscanned, event>>

(* next_index_.compare_exchange(next_index, next_index + 1).               *)
ClaimIndex(p) ==
    /\ ppc[p] = "cas"
    /\ IF next_index = loaded[p]
       THEN /\ next_index' = next_index + 1
            /\ ppc' = [ppc EXCEPT ![p] = "copy"]
            /\ UNCHANGED <<redo, results>>
       ELSE UNCHANGED next_index /\ Retry(p)
    /\ UNCHANGED <<ringVars, handlerVars, signalVars, loaded, min_index, unscanned, event>>

(* Mutated form of CopyEvent: the slot after the claimed one.              *)
CopyEvent_NextSlot(p) ==
    /\ ppc[p] = "copy"
    /\ event_pool' = [event_pool EXCEPT ![SlotOf(loaded[p] + 1)] = event[p]]
    /\ ppc' = [ppc EXCEPT ![p] = "publish"]
    /\ UNCHANGED <<cursor_index, log, handlerVars, signalVars, next_index, loaded,
                   min_index, unscanned, event, redo, results>>

(* sl_memcpy into the claimed slot.                                        *)
CopyEvent(p) ==
    /\ ppc[p] = "copy"
    /\ event_pool' = [event_pool EXCEPT ![SlotOf(loaded[p])] = event[p]]
    /\ ppc' = [ppc EXCEPT ![p] = "publish"]
    /\ UNCHANGED <<cursor_index, log, handlerVars, signalVars, next_index, loaded,
                   min_index, unscanned, event, redo, results>>

(* Mutated forms of Publish: the size before the push is returned; the     *)
(* return after the notify loop is missing.                                *)
Publish_WithResult(p, r) ==
    /\ ppc[p] = "publish"
    /\ cursor_index = loaded[p]
    /\ cursor_index' = cursor_index + 1
    /\ log' = Append(log, event[p])
    /\ to_signal' = [to_signal EXCEPT ![p] = QueueNotify]
    /\ Return(p, r)
    /\ UNCHANGED <<event_pool, handlerVars, timedwait_flag, signalled, aim,
                   next_index, loaded, min_index, unscanned, event, redo>>
Publish_SizeBefore(p) == Publish_WithResult(p, loaded[p] - min_index[p])
Publish_FallsThrough(p) ==
    Publish_WithResult(p, IF QueueNotify # {} THEN -1 ELSE loaded[p] - min_index[p] + 1)

(* The spin on cursor_index_.compare_exchange succeeds once every smaller  *)
(* index is published; the notify loop follows.                            *)
Publish(p) ==
    /\ ppc[p] = "publish"
    /\ cursor_index = loaded[p]
    /\ cursor_index' = cursor_index + 1
    /\ log' = Append(log, event[p])
    /\ to_signal' = [to_signal EXCEPT ![p] = QueueNotify]
    /\ Return(p, loaded[p] - min_index[p] + 1)
    /\ UNCHANGED <<event_pool, handlerVars, timedwait_flag, signalled, aim,
                   next_index, loaded, min_index, unscanned, event, redo>>

(* The notify loop of push.                                                *)
PublisherSignals(p) ==
    /\ TestFlag(p) \/ Signal(p, loaded[p])
    /\ UNCHANGED <<ringVars, handlerVars, next_index, publisherVars>>

PublisherStep(p) ==
    \/ LoadNext(p)  \/ ScanDependent(p) \/ ClaimIndex(p)
    \/ CopyEvent(p) \/ Publish(p)       \/ PublisherSignals(p)

HandlerNext(h) == HandlerStep(h) /\ UNCHANGED <<next_index, publisherVars>>

Next ==
    \/ \E p \in Publishers : PushUser(p) \/ PushQuit(p) \/ PublisherStep(p)
    \/ \E h \in Handlers : HandlerNext(h)

Spec == Init /\ [][Next]_vars

(* The scheduler runs every thread; nobody has to call push.               *)
Fairness ==
    /\ \A p \in Publishers : WF_vars(PublisherStep(p))
    /\ \A h \in Handlers : WF_vars(HandlerNext(h))

FairSpec == Spec /\ Fairness

-----------------------------------------------------------------------------
Claimed(p) == ppc[p] \in {"copy", "publish"}

(* push: a slot whose event some handler has still to consume is neither   *)
(* overwritten nor claimed, however stale the positions push compared      *)
(* next_index_ with.                                                       *)
SlotSafe ==
    /\ RingKept
    /\ \A h \in Roots, p \in Publishers :
          Claimed(p) => loaded[p] < handler_index[h] + Capacity

(* The two compare_exchange loops of push: an index is claimed by one      *)
(* publisher at most, and the indices between cursor_index_ and            *)
(* next_index_ are exactly the claimed ones, so publication has no gap.    *)
ClaimsDisjoint ==
    /\ \A p, q \in Publishers :
          Claimed(p) /\ Claimed(q) /\ p # q => loaded[p] # loaded[q]
    /\ {loaded[p] : p \in {q \in Publishers : Claimed(q)}}
          = cursor_index .. next_index - 1

Published(p) == {k \in 1 .. MaxPush : \E i \in 1 .. Len(log) : log[i] = <<p, k>>}
Accepted(p)  == {k \in 1 .. Len(results[p]) : results[p][k] # -1}

(* push: a call that returned a size published its event exactly once, a   *)
(* call that returned -1 published nothing, and a publisher's events are   *)
(* in the log in the order it pushed them.  Although next_index_ is loaded *)
(* before the handlers' positions and may be behind them, a successful     *)
(* call never returns a size outside 1..capacity_.                         *)
PushAccounted ==
    \A p \in Publishers :
       /\ \A i, j \in 1 .. Len(log) : \A k, l \in 1 .. MaxPush :
             i < j /\ log[i] = <<p, k>> /\ log[j] = <<p, l>> => k < l
       /\ Published(p) \subseteq Accepted(p)
       /\ p \notin Quitters => Accepted(p) \subseteq Published(p)
       /\ \A k \in 1 .. Len(results[p]) : results[p][k] \in {-1} \cup 1 .. Capacity

(* A call of push returns, as long as no handler has quit: it does not     *)
(* spin for ever on a full ring or behind another publisher.               *)
PushReturns ==
    \A p \in Publishers :
       (ppc[p] # "idle") ~> (ppc[p] = "idle" \/ \E h \in Gating : hpc[h] = "quit")

-----------------------------------------------------------------------------
(* The inductive invariant behind SlotSafe and DeliveredInOrder.           *)

(* What a publisher has read is still a lower bound of what it read.       *)
ReadsAreLowerBounds ==
    \A p \in Publishers :
       /\ loaded[p] <= next_index
       /\ unscanned[p] \subseteq Gating
       /\ ppc[p] = "scan" =>
             \A h \in Roots : h \notin unscanned[p] => min_index[p] <= handler_index[h]
       /\ ppc[p] = "cas" => \A h \in Roots : loaded[p] < handler_index[h] + Capacity

(* A claimed index is not yet published and belongs to one publisher.      *)
ClaimsUnpublished ==
    /\ cursor_index <= next_index
    /\ \A p \in Publishers :
          Claimed(p) => cursor_index <= loaded[p] /\ loaded[p] < next_index
    /\ \A p, q \in Publishers :
          Claimed(p) /\ Claimed(q) /\ p # q => loaded[p] # loaded[q]

(* A copied event stays in its slot until it is published.                 *)
CopiedStays ==
    \A h \in Roots : \A p \in Publishers :
       ppc[p] = "publish" => event_pool[SlotOf(loaded[p])] = event[p]

IInv ==
    /\ TypeOK
    /\ HandlerInv
    /\ ReadsAreLowerBounds
    /\ ClaimsUnpublished
    /\ CopiedStays
    /\ SlotSafe

-----------------------------------------------------------------------------
(* What ClaimsDisjoint and PushAccounted rest on, besides IInv.            *)

(* Every index between cursor_index_ and next_index_ is somebody's.        *)
NoGap ==
    \A i \in cursor_index .. next_index - 1 :
       \E p \in Publishers : Claimed(p) /\ loaded[p] = i

(* The event of a call carries the call's number, or is the quit event.    *)
EventsNumbered ==
    \A p \in Publishers : ppc[p] # "idle" =>
       /\ Len(results[p]) < MaxPush
       /\ \/ event[p] = <<p, Len(results[p]) + 1>>
          \/ event[p] = QuitEvent /\ p \in Quitters

(* The smallest position a publisher has read keeps its distance.          *)
SizesBounded ==
    \A p \in Publishers :
       /\ ppc[p] # "idle" => Gating # {}
       /\ ppc[p] = "cas" => \A h \in Roots : min_index[p] <= handler_index[h]
       /\ ppc[p] \in {"cas", "copy", "publish"} => loaded[p] - min_index[p] < Capacity
       /\ Claimed(p) => min_index[p] <= loaded[p]

AccountInv == EventsNumbered /\ SizesBounded /\ PushAccounted
=============================================================================
