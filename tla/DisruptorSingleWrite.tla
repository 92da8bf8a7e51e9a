------------------------ MODULE DisruptorSingleWrite ------------------------
(***************************************************************************)
(* SL_Disruptor_SingleWriteQueue: one publisher, which claims and          *)
(* publishes by incrementing cursor_index_.  The consuming side is         *)
(* DisruptorHandler.                                                       *)
(* Line numbers refer to include/SL_Disruptor_SingleWriteQueue.h.          *)
(***************************************************************************)
EXTENDS DisruptorHandler

CONSTANTS Writer,       \* the only thread that may call push
          Redo          \* the redo_count arguments push is called with

ASSUME SingleWriteAssumption ==
    /\ Publishers = {Writer}
    /\ Redo \subseteq Int

VARIABLES
    wpc,            \* where the writer is inside push
    min_index,      \* local handler_index
    unscanned,      \* dependent_list_ entries min_dependent_index_i has yet to read
    event,          \* the event being pushed
    returned        \* history: the redo count and the result of each call

writerVars == <<wpc, min_index, unscanned, event, returned>>
vars == <<ringVars, handlerVars, signalVars, writerVars>>

(* Every variable has its type.                                            *)
TypeOK ==
    /\ HandlerTypeOK
    /\ wpc \in {"idle", "scan", "copy", "publish"}
    /\ min_index \in Nat
    /\ unscanned \in SUBSET Handlers
    /\ event \in Events
    /\ returned \in Seq(Int \X Int)

Init ==
    /\ HandlerInit
    /\ wpc = "idle"
    /\ min_index = 0
    /\ unscanned = {}
    /\ event = QuitEvent
    /\ returned = << >>

(* init takes a rewrite_count and never stores it: the constructor's -1    *)
(* stays.                                                                  *)
RewriteCount == -1

(* push(e, redo_count): without a dependent handler, or when the retry     *)
(* count is negative and its loop therefore has no iteration, it returns   *)
(* -1; with any other count it tries until there is room.                  *)
Push(e, redo_count) ==
    LET count == IF redo_count = 0 THEN RewriteCount ELSE redo_count IN
    /\ wpc = "idle"
    /\ to_signal[Writer] = {}
    /\ Len(returned) < MaxPush
    /\ event' = e
    /\ IF Gating = {} \/ count < 0
       THEN /\ returned' = Append(returned, <<redo_count, -1>>)
            /\ UNCHANGED <<wpc, unscanned>>
       ELSE /\ wpc' = "scan"
            /\ unscanned' = Gating
            /\ returned' = Append(returned, <<redo_count, 0>>)
    /\ UNCHANGED <<ringVars, handlerVars, signalVars, min_index>>

PushUser == \E r \in Redo : Push(<<Writer, Len(returned) + 1>>, r)

(* quit_event: push(&quit_event, -1).                                      *)
PushQuit == Push(QuitEvent, -1)

(* min_dependent_index_i, one handler at a time; a full ring is scanned    *)
(* again.                                                                  *)
ScanDependent ==
    /\ wpc = "scan"
    /\ \E h \in unscanned :
          LET m == IF unscanned = Gating THEN handler_index[h]
                                         ELSE MinOf(min_index, handler_index[h])
          IN  /\ min_index' = m
              /\ IF unscanned # {h}
                 THEN unscanned' = unscanned \ {h} /\ UNCHANGED wpc
                 ELSE IF cursor_index - m < Capacity
                      THEN unscanned' = {} /\ wpc' = "copy"
                      ELSE unscanned' = Gating /\ UNCHANGED wpc
    /\ UNCHANGED <<ringVars, handlerVars, signalVars, event, returned>>

(* Mutated form of CopyEvent: the slot after the cursor's.                 *)
CopyEvent_NextSlot ==
    /\ wpc = "copy"
    /\ event_pool' = [event_pool EXCEPT ![SlotOf(cursor_index + 1)] = event]
    /\ wpc' = "publish"
    /\ UNCHANGED <<cursor_index, log, handlerVars, signalVars, min_index, unscanned,
                   event, returned>>

CopyEvent ==
    /\ wpc = "copy"
    /\ event_pool' = [event_pool EXCEPT ![SlotOf(cursor_index)] = event]
    /\ wpc' = "publish"
    /\ UNCHANGED <<cursor_index, log, handlerVars, signalVars, min_index, unscanned,
                   event, returned>>

(* Mutated form of Publish: the size before the push is returned.          *)
Publish_SizeBefore ==
    /\ wpc = "publish"
    /\ cursor_index' = cursor_index + 1
    /\ log' = Append(log, event)
    /\ to_signal' = [to_signal EXCEPT ![Writer] = QueueNotify]
    /\ returned' = [returned EXCEPT ![Len(returned)][2] = cursor_index - min_index]
    /\ wpc' = "idle"
    /\ UNCHANGED <<event_pool, handlerVars, timedwait_flag, signalled, aim,
                   min_index, unscanned, event>>

(* ++cursor_index_, then the notify loop; the result is the size.          *)
Publish ==
    /\ wpc = "publish"
    /\ cursor_index' = cursor_index + 1
    /\ log' = Append(log, event)
    /\ to_signal' = [to_signal EXCEPT ![Writer] = QueueNotify]
    /\ returned' = [returned EXCEPT ![Len(returned)][2] = cursor_index - min_index + 1]
    /\ wpc' = "idle"
    /\ UNCHANGED <<event_pool, handlerVars, timedwait_flag, signalled, aim,
                   min_index, unscanned, event>>

(* signal_event is given the index just published.                         *)
WriterSignals ==
    /\ TestFlag(Writer) \/ Signal(Writer, cursor_index - 1)
    /\ UNCHANGED <<ringVars, handlerVars, writerVars>>

WriterStep == ScanDependent \/ CopyEvent \/ Publish \/ WriterSignals

HandlerNext(h) == HandlerStep(h) /\ UNCHANGED writerVars

Next ==
    \/ PushUser \/ PushQuit \/ WriterStep
    \/ \E h \in Handlers : HandlerNext(h)

Spec == Init /\ [][Next]_vars

FairSpec == Spec /\ WF_vars(WriterStep) /\ \A h \in Handlers : WF_vars(HandlerNext(h))

-----------------------------------------------------------------------------
(* push: the slot of an event some handler has still to consume keeps it,  *)
(* and the writer copies only where no handler is behind.                  *)
SlotSafe ==
    /\ RingKept
    /\ wpc \in {"copy", "publish"} =>
          \A h \in Roots : cursor_index < handler_index[h] + Capacity

(* The calls of push that have returned, and those whose event is in the   *)
(* log.                                                                    *)
Done      == {k \in 1 .. Len(returned) : k < Len(returned) \/ wpc = "idle"}
Published == {k \in 1 .. Len(returned) : \E i \in 1 .. Len(log) : log[i] = <<Writer, k>>}

(* push returns -1 or a size in 1..capacity_, and it published its event   *)
(* exactly when it did not return -1.                                      *)
ResultInRange ==
    /\ \A k \in Done : returned[k][2] = -1 \/ returned[k][2] \in 1 .. Capacity
    /\ \A k \in Done : (returned[k][2] = -1) <=> (k \notin Published)

(* The comment on rewrite_count_: -1 means an unlimited number of          *)
(* attempts, so a push asked to retry without limit never gives up.        *)
UnlimitedNeverFails ==
    Gating # {} => \A k \in 1 .. Len(returned) : returned[k][1] = -1 => returned[k][2] # -1

-----------------------------------------------------------------------------
(* The inductive invariant behind SlotSafe and DeliveredInOrder.           *)

(* What the writer has read is still a lower bound of what it read.        *)
ReadsAreLowerBounds ==
    /\ unscanned \subseteq Gating
    /\ wpc = "scan" =>
          \A h \in Roots : h \notin unscanned => min_index <= handler_index[h]

(* The call going on has an entry in returned, and its event its number.   *)
CallGoesOn ==
    wpc # "idle" => /\ Gating # {}
                    /\ Len(returned) > 0
                    /\ event = <<Writer, Len(returned)>>

(* The copied event stays in its slot until it is published.               *)
CopiedStays ==
    wpc = "publish" => \A h \in Roots : event_pool[SlotOf(cursor_index)] = event

IInv ==
    /\ TypeOK
    /\ HandlerInv
    /\ CallGoesOn
    /\ ReadsAreLowerBounds
    /\ CopiedStays
    /\ SlotSafe

(* What ResultInRange rests on besides: what is published was pushed by a  *)
(* call that has returned, and the smallest position read keeps its        *)
(* distance.                                                               *)
AccountInv ==
    /\ \A i \in 1 .. Len(log) : \E k \in Done : log[i] = <<Writer, k>>
    /\ wpc \in {"copy", "publish"} =>
          /\ cursor_index - min_index < Capacity
          /\ \A h \in Roots : min_index <= handler_index[h]
    /\ ResultInRange
=============================================================================
