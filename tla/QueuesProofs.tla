---------------------------- MODULE QueuesProofs ----------------------------
(***************************************************************************)
(* Theorems about the queues of MCQueues: DisruptorSingleWrite first, then *)
(* the utility queues, for every set of threads, capacity and number of    *)
(* calls.                                                                  *)
(***************************************************************************)
EXTENDS MCQueues, DisruptorHandlerProofs, SequenceTheorems,
        FiniteSetTheorems

(***************************************************************************)
(* The disruptor with one writer: for every set of handlers, topology,     *)
(* capacity and number of pushes.                                          *)
(***************************************************************************)

LEMMA WriterIsThread == Writer \in Threads
BY SingleWriteAssumption DEF Threads

LEMMA SingleInitType == Init => TypeOK
BY HandlerAssumption DEF Init, HandlerInit, TypeOK, HandlerTypeOK, Events, HandlerPCs

LEMMA PushType ==
    ASSUME TypeOK, NEW e \in Events, NEW r \in Int, Push(e, r)
    PROVE  TypeOK'
<1>1. <<r, -1>> \in Int \X Int /\ <<r, 0>> \in Int \X Int
  OBVIOUS
<1>2. returned' \in Seq(Int \X Int)
  <2>1. PICK x \in {-1, 0} : returned' = Append(returned, <<r, x>>)
    BY DEF Push
  <2> QED BY <1>1, <2>1 DEF TypeOK
<1>3. wpc' \in {"idle", "scan"} /\ unscanned' \in SUBSET Handlers /\ event' \in Events
  BY HandlerAssumption DEF Push, TypeOK
<1> QED
  BY <1>2, <1>3 DEF Push, TypeOK, HandlerTypeOK, ringVars, handlerVars, signalVars

(* The size is stored in the entry of the call that is going on.           *)
LEMMA PublishReturns ==
    ASSUME TypeOK, Publish, Len(returned) > 0
    PROVE  LET n == Len(returned)  r == cursor_index - min_index + 1 IN
           /\ returned' \in Seq(Int \X Int)
           /\ Len(returned') = n
           /\ returned'[n] = <<returned[n][1], r>>
           /\ \A k \in 1 .. n - 1 : returned'[k] = returned[k]
<1> DEFINE n == Len(returned)
           r == cursor_index - min_index + 1
<1>1. /\ returned \in Seq(Int \X Int)
      /\ n \in 1 .. Len(returned)
      /\ r \in Int
  BY DEF TypeOK, HandlerTypeOK
<1>2. returned' = [returned EXCEPT ![n] = [@ EXCEPT ![2] = r]]
  BY DEF Publish
<1>3. returned[n] \in Int \X Int
  BY <1>1
<1> HIDE DEF r, n
<1>4. [returned[n] EXCEPT ![2] = r] = <<returned[n][1], r>>
  <2>1. PICK a \in Int, b \in Int : returned[n] = <<a, b>>
    BY <1>3
  <2>2. [<<a, b>> EXCEPT ![2] = r] = <<a, r>>
    BY <1>1
  <2> QED BY <2>1, <2>2
<1>5. <<returned[n][1], r>> \in Int \X Int
  BY <1>1, <1>3
<1> QED
  BY <1>1, <1>2, <1>4, <1>5 DEF n, r

LEMMA WriterType ==
    ASSUME TypeOK, CallGoesOn, PushUser \/ PushQuit \/ WriterStep
    PROVE  TypeOK'
<1> USE HandlerAssumption, SingleWriteAssumption
    DEF TypeOK, ringVars, signalVars, handlerVars, writerVars, Threads
<1>1. CASE PushUser
  <2>1. PICK r \in Redo : Push(<<Writer, Len(returned) + 1>>, r)
    BY <1>1 DEF PushUser
  <2>2. <<Writer, Len(returned) + 1>> \in Events
    BY <2>1 DEF Push, Events, UserEvents
  <2> QED BY <2>1, <2>2, PushType
<1>2. CASE PushQuit
  <2>1. Push(QuitEvent, -1) /\ QuitEvent \in Events /\ -1 \in Int
    BY <1>2 DEF PushQuit, Events
  <2> QED BY <2>1, PushType
<1>3. CASE ScanDependent
  BY <1>3 DEF ScanDependent, HandlerTypeOK, MinOf
<1>4. CASE CopyEvent
  BY <1>4, SlotInRing DEF CopyEvent, HandlerTypeOK
<1>5. CASE Publish
  <2>1. returned' \in Seq(Int \X Int)
    BY <1>5, PublishReturns DEF Publish, CallGoesOn
  <2>2. Append(log, event) \in Seq(Events)
    BY DEF HandlerTypeOK
  <2>3. to_signal' \in [Threads -> SUBSET Handlers]
    BY <1>5 DEF Publish, HandlerTypeOK
  <2>4. /\ cursor_index' = cursor_index + 1 /\ log' = Append(log, event) /\ wpc' = "idle"
        /\ UNCHANGED <<event_pool, handlerVars, timedwait_flag, signalled, aim,
                       min_index, unscanned, event>>
    BY <1>5 DEF Publish
  <2> QED BY <2>1, <2>2, <2>3, <2>4 DEF HandlerTypeOK
<1>6. CASE WriterSignals
  <2>1. Writer \in Threads
    BY WriterIsThread
  <2>2. /\ timedwait_flag' \in [Handlers -> {0, 1}]
        /\ signalled' \subseteq Handlers
        /\ to_signal' \in [Threads -> SUBSET Handlers]
        /\ aim' \in [Threads -> Handlers \cup {NoHandler}]
    BY <1>6, <2>1, TestFlagType, SignalType DEF WriterSignals
  <2> QED BY <1>6, <2>2 DEF WriterSignals, HandlerTypeOK
<1> QED
  BY <1>1, <1>2, <1>3, <1>4, <1>5, <1>6 DEF WriterStep

-----------------------------------------------------------------------------
(* DisruptorSingleWrite: the inductive invariant.                          *)

LEMMA SingleInit == Init => IInv
<1> SUFFICES ASSUME Init PROVE IInv
  OBVIOUS
<1> USE HandlerAssumption DEF Init, HandlerInit, Roots
<1>1. TypeOK
  BY SingleInitType
<1>2. HandlerInv
  BY <1>1 DEF TypeOK, HandlerInv, RootsBehindCursor, RingKept, DeliveredInOrder, IsPrefixOf
<1> QED
  BY <1>1, <1>2 DEF IInv, HandlerInv, CallGoesOn, ReadsAreLowerBounds, CopiedStays, SlotSafe

LEMMA SingleHandlerStep ==
    ASSUME IInv, NEW h \in Handlers, HandlerNext(h)
    PROVE  IInv'
<1>1. HandlerStep(h) /\ UNCHANGED writerVars
  BY DEF HandlerNext
<1>2. TypeOK'
  BY <1>1, HandlerStepType DEF IInv, TypeOK, writerVars
<1>3. /\ HandlerInv'
      /\ UNCHANGED ringVars
      /\ \A g \in Roots : handler_index[g] <= handler_index'[g]
  BY <1>1, HandlerKeeps DEF IInv
<1>4. /\ cursor_index \in Nat /\ min_index \in Nat /\ Capacity \in Nat
      /\ \A g \in Roots : handler_index[g] \in Nat /\ handler_index'[g] \in Nat
  BY <1>2, HandlerAssumption DEF Roots, IInv, TypeOK, HandlerTypeOK
<1> USE <1>1, <1>3 DEF ringVars, writerVars
<1>5. ReadsAreLowerBounds'
  BY <1>4 DEF IInv, ReadsAreLowerBounds, Roots
<1>6. CopiedStays'
  BY DEF IInv, CopiedStays, Roots
<1>7. SlotSafe'
  BY <1>4 DEF IInv, HandlerInv, SlotSafe, Roots
<1> QED
  BY <1>2, <1>5, <1>6, <1>7 DEF IInv, CallGoesOn

(* A step of the writer that leaves the ring alone.                        *)
LEMMA SingleReadingStep ==
    ASSUME IInv, TypeOK', UNCHANGED <<ringVars, handlerVars>>, CallGoesOn', ReadsAreLowerBounds',
           wpc' = "publish" => wpc = "publish" /\ UNCHANGED event,
           wpc' = "copy" => \A h \in Roots : cursor_index < handler_index[h] + Capacity
    PROVE  IInv'
<1> USE DEF ringVars, handlerVars
<1>1. HandlerInv'
  BY OthersKeep DEF IInv, TypeOK
<1>2. CopiedStays' /\ SlotSafe'
  BY <1>1 DEF IInv, HandlerInv, CopiedStays, SlotSafe, Roots
<1> QED
  BY <1>1, <1>2 DEF IInv

(* What the scan of the dependents finds.                                  *)
LEMMA ScanFinds ==
    ASSUME IInv, ScanDependent
    PROVE  /\ wpc = "scan" /\ wpc' \in {"scan", "copy"}
           /\ UNCHANGED <<ringVars, handlerVars, signalVars, event, returned>>
           /\ unscanned' \subseteq Gating
           /\ wpc' = "scan" =>
                 \A h \in Roots : h \notin unscanned' => min_index' <= handler_index[h]
           /\ wpc' = "copy" => /\ cursor_index - min_index' < Capacity
                               /\ \A h \in Roots : min_index' <= handler_index[h]
<1>1. PICK h \in unscanned :
        LET m == IF unscanned = Gating THEN handler_index[h] ELSE MinOf(min_index, handler_index[h])
        IN  /\ min_index' = m
            /\ IF unscanned # {h}
               THEN unscanned' = unscanned \ {h} /\ UNCHANGED wpc
               ELSE IF cursor_index - m < Capacity
                    THEN unscanned' = {} /\ wpc' = "copy"
                    ELSE unscanned' = Gating /\ UNCHANGED wpc
  BY DEF ScanDependent
<1> DEFINE m == IF unscanned = Gating THEN handler_index[h] ELSE MinOf(min_index, handler_index[h])
<1>2. wpc = "scan" /\ UNCHANGED <<ringVars, handlerVars, signalVars, event, returned>>
  BY DEF ScanDependent
<1>3. /\ unscanned \subseteq Gating
      /\ \A g \in Roots : g \notin unscanned => min_index <= handler_index[g]
      /\ \A g \in Roots : g \in Gating /\ handler_index[g] \in Nat
      /\ min_index \in Nat /\ h \in Handlers /\ handler_index[h] \in Nat
  BY <1>2 DEF IInv, ReadsAreLowerBounds, TypeOK, HandlerTypeOK, Roots
<1>4. \A g \in Roots : g \notin unscanned \ {h} => m <= handler_index[g]
  BY <1>3 DEF MinOf
<1>5. min_index' = m
  BY <1>1
<1>6. \/ unscanned # {h} /\ unscanned' = unscanned \ {h} /\ wpc' = wpc
      \/ unscanned = {h} /\ unscanned' = {} /\ wpc' = "copy" /\ cursor_index - m < Capacity
      \/ unscanned' = Gating /\ wpc' = wpc
  BY <1>1
<1> HIDE DEF m
<1> QED
  BY <1>2, <1>3, <1>4, <1>5, <1>6

LEMMA SingleWriterStep ==
    ASSUME IInv, TypeOK', PushUser \/ PushQuit \/ WriterStep
    PROVE  IInv'
<1>1. ASSUME NEW e, NEW r, Push(e, r),
             e = <<Writer, Len(returned) + 1>> \/ (e = QuitEvent /\ r = -1)
      PROVE  IInv'
  <2>1. /\ wpc = "idle" /\ wpc' \in {"idle", "scan"}
        /\ unscanned' = unscanned \/ unscanned' = Gating
        /\ wpc' = "scan" => unscanned' = Gating
        /\ UNCHANGED <<ringVars, handlerVars, min_index>>
    BY <1>1 DEF Push
  <2>2. ReadsAreLowerBounds'
    BY <2>1 DEF IInv, ReadsAreLowerBounds, Roots
  <2>3. CallGoesOn'
    <3>1. CASE Gating # {} /\ wpc' = "scan" /\ returned' = Append(returned, <<r, 0>>)
                /\ e = <<Writer, Len(returned) + 1>> /\ event' = e
      <4>1. Len(returned') = Len(returned) + 1 /\ Len(returned) \in Nat
        BY <3>1 DEF IInv, TypeOK
      <4> QED BY <3>1, <4>1 DEF CallGoesOn
    <3>2. CASE wpc' = "idle"
      BY <3>2 DEF CallGoesOn
    <3> QED BY <1>1, <3>1, <3>2 DEF Push
  <2> QED BY <2>1, <2>2, <2>3, SingleReadingStep
<1>2. CASE ScanDependent
  <2>1. ReadsAreLowerBounds' /\ UNCHANGED <<ringVars, handlerVars>> /\ wpc' # "publish"
    BY <1>2, ScanFinds DEF ReadsAreLowerBounds, handlerVars, Roots
  <2>5. CallGoesOn'
    BY <1>2, ScanFinds DEF IInv, CallGoesOn
  <2>2. /\ cursor_index \in Nat /\ min_index' \in Nat /\ Capacity \in Nat
        /\ \A h \in Roots : handler_index[h] \in Nat
    BY HandlerAssumption DEF IInv, TypeOK, HandlerTypeOK, Roots
  <2>3. wpc' = "copy" => \A h \in Roots : cursor_index < handler_index[h] + Capacity
    <3> SUFFICES ASSUME wpc' = "copy", NEW h \in Roots
                 PROVE  cursor_index < handler_index[h] + Capacity
      OBVIOUS
    <3>1. cursor_index - min_index' < Capacity /\ min_index' <= handler_index[h]
      BY <1>2, ScanFinds
    <3>2. /\ cursor_index \in Nat /\ min_index' \in Nat /\ Capacity \in Nat
          /\ handler_index[h] \in Nat
      BY <2>2
    <3>3. \A a, b, c, d \in Nat : a - b < c /\ b <= d => a < d + c
      OBVIOUS
    <3> QED BY <3>1, <3>2, <3>3
  <2> QED BY <1>2, <2>1, <2>3, <2>5, ScanFinds, SingleReadingStep
<1>3. CASE CopyEvent
  <2>1. /\ wpc = "copy" /\ wpc' = "publish"
        /\ event_pool' = [event_pool EXCEPT ![SlotOf(cursor_index)] = event]
        /\ UNCHANGED <<cursor_index, log, handlerVars, unscanned, event>>
    BY <1>3 DEF CopyEvent
  <2>2. /\ cursor_index \in Nat
        /\ \A h \in Roots : cursor_index < handler_index[h] + Capacity
        /\ event_pool \in [Slots -> Events \cup {Garbage}]
    BY <2>1 DEF IInv, SlotSafe, TypeOK, HandlerTypeOK
  <2>3. HandlerInv'
    <3>1. HandlerInv /\ HandlerTypeOK' /\ cursor_index <= cursor_index
      BY <2>2 DEF IInv, TypeOK
    <3>2. UNCHANGED <<cursor_index, log, handlerVars>>
      BY <2>1
    <3> QED BY <2>1, <2>2, <3>1, <3>2, CopyKeeps
  <2>7. CallGoesOn'
    BY <1>3 DEF CopyEvent, IInv, CallGoesOn
  <2>4. ReadsAreLowerBounds'
    BY <2>1 DEF IInv, ReadsAreLowerBounds
  <2>5. CopiedStays'
    BY <2>1, <2>2, SlotInRing DEF CopiedStays, Roots
  <2>6. SlotSafe'
    BY <2>1, <2>2, <2>3 DEF HandlerInv, SlotSafe, Roots, handlerVars
  <2> QED BY <2>3, <2>4, <2>5, <2>6, <2>7 DEF IInv
<1>4. CASE Publish
  <2>1. /\ wpc = "publish" /\ wpc' = "idle"
        /\ cursor_index' = cursor_index + 1
        /\ log' = Append(log, event)
        /\ UNCHANGED <<event_pool, handlerVars, unscanned>>
    BY <1>4 DEF Publish
  <2>2. event \in Events /\ \A h \in Roots : event_pool[SlotOf(cursor_index)] = event
    BY <2>1 DEF IInv, CopiedStays, TypeOK
  <2>3. HandlerInv'
    BY <2>1, <2>2, PublishKeeps DEF IInv, TypeOK
  <2> QED BY <2>1, <2>3 DEF IInv, HandlerInv, CallGoesOn, ReadsAreLowerBounds,
     CopiedStays, SlotSafe
<1>5. CASE WriterSignals
  <2>1. UNCHANGED <<ringVars, handlerVars, wpc, unscanned, min_index, event, returned>>
    BY <1>5 DEF WriterSignals, writerVars
  <2>2. wpc = "copy" => \A h \in Roots : cursor_index < handler_index[h] + Capacity
    BY DEF IInv, SlotSafe
  <2>3. ReadsAreLowerBounds'
    BY <2>1 DEF IInv, ReadsAreLowerBounds, Roots, handlerVars
  <2>4. CallGoesOn'
    BY <2>1 DEF IInv, CallGoesOn
  <2> QED BY <2>1, <2>2, <2>3, <2>4, SingleReadingStep
<1> QED
  BY <1>1, <1>2, <1>3, <1>4, <1>5 DEF PushUser, PushQuit, WriterStep

LEMMA SingleNextType ==
    ASSUME TypeOK, CallGoesOn, [Next]_vars
    PROVE  TypeOK'
<1>1. ASSUME NEW h \in Handlers, HandlerNext(h)
      PROVE  TypeOK'
  BY <1>1, HandlerStepType DEF HandlerNext, TypeOK, writerVars
<1>2. CASE UNCHANGED vars
  BY <1>2 DEF vars, TypeOK, HandlerTypeOK, ringVars, handlerVars, signalVars, writerVars
<1> QED
  BY <1>1, <1>2, WriterType DEF Next

LEMMA SingleNextInv ==
    ASSUME IInv, [Next]_vars
    PROVE  IInv'
<1>1. TypeOK'
  BY SingleNextType DEF IInv
<1>2. CASE UNCHANGED vars
  <2>1. UNCHANGED <<ringVars, handlerVars, writerVars>>
    BY <1>2 DEF vars
  <2>2. HandlerInv'
    BY <1>1, <2>1, OthersKeep DEF IInv, TypeOK
  <2> QED
    BY <1>1, <2>1, <2>2 DEF IInv, HandlerInv, CallGoesOn, ReadsAreLowerBounds, CopiedStays,
       SlotSafe, Roots, ringVars, handlerVars, writerVars
<1> QED
  BY <1>1, <1>2, SingleHandlerStep, SingleWriterStep DEF Next

(* The writer's cached minimum and the handlers' cached indices are lower  *)
(* bounds of what they were read from, a copied event stays in its slot    *)
(* until it is published, and no slot is written that a gating handler has *)
(* yet to read (push_i, min_dependent_index_i).                            *)
THEOREM SingleInductive == Spec => []IInv
<1>1. IInv /\ [Next]_vars => IInv'
  BY SingleNextInv
<1> QED
  BY SingleInit, <1>1, PTL DEF Spec

LEMMA SingleNextLogs ==
    ASSUME IInv, [Next]_vars
    PROVE  [Log!Next]_(Log!logVars)
<1>1. ASSUME NEW h \in Handlers, HandlerNext(h)
      PROVE  [Log!Next]_(Log!logVars)
  BY <1>1, HandlerLogs DEF HandlerNext, IInv
<1>2. CASE Publish
  BY <1>2, PublishLogs DEF Publish, IInv, TypeOK
<1>3. CASE CopyEvent
  BY <1>3 DEF CopyEvent, handlerVars, Log!logVars, Roots
<1>4. CASE PushUser \/ PushQuit \/ ScanDependent \/ WriterSignals
  <2>1. UNCHANGED <<ringVars, handlerVars>>
    BY <1>4 DEF PushUser, PushQuit, Push, ScanDependent, WriterSignals
  <2> QED BY <2>1, OthersLog
<1>5. CASE UNCHANGED vars
  BY <1>5, OthersLog DEF vars
<1> QED
  BY <1>1, <1>2, <1>3, <1>4, <1>5 DEF Next, WriterStep

(* A push never writes the slot of an event that a handler it waits for    *)
(* has still to handle: the minimum that push_i cached and reads again     *)
(* only when it is too small is never ahead of the handlers.               *)
THEOREM SingleNoOverwrite == Spec => []SlotSafe
<1>1. IInv => SlotSafe
  BY DEF IInv
<1> QED
  BY SingleInductive, <1>1, PTL

(* The ring and the handlers' positions implement the abstract log: every  *)
(* event handled is the one published at that place.                       *)
THEOREM SingleImplements == Spec => ImplementsLog
<1>1. Init => Log!Init
  BY InitLogs DEF Init
<1>2. IInv /\ [Next]_vars => [Log!Next]_(Log!logVars)
  BY SingleNextLogs
<1> QED
  BY SingleInductive, <1>1, <1>2, PTL DEF Spec, ImplementsLog, Log!Spec

-----------------------------------------------------------------------------
(* DisruptorSingleWrite: what push returns.                                *)

(* The distance of the smallest position read.                             *)
SizeBounded ==
    wpc \in {"copy", "publish"} =>
       /\ cursor_index - min_index < Capacity
       /\ \A h \in Roots : min_index <= handler_index[h]

(* Nothing is published, and the calls that have returned stay.            *)
LEMMA SingleSameAccount ==
    ASSUME AccountInv, SizeBounded', UNCHANGED log, Done' = Done,
           \A k \in Done : /\ k \in 1 .. Len(returned')
                           /\ returned'[k] = returned[k]
    PROVE  AccountInv'
<1>1. \A k \in Done : k \in Published' <=> k \in Published
  BY DEF Published, Done
<1> QED
  BY <1>1 DEF AccountInv, SizeBounded, ResultInRange

LEMMA SinglePushAccount ==
    ASSUME IInv, AccountInv, NEW e, NEW r \in Int, Push(e, r)
    PROVE  AccountInv'
<1> DEFINE n == Len(returned)
<1>1. returned \in Seq(Int \X Int) /\ n \in Nat /\ wpc = "idle"
  BY DEF IInv, TypeOK, Push
<1>2. Done = 1 .. n
  BY <1>1 DEF Done
<1>3. /\ UNCHANGED log /\ wpc' \in {"idle", "scan"}
      /\ \/ wpc' = "idle" /\ returned' = Append(returned, <<r, -1>>)
         \/ wpc' = "scan" /\ returned' = Append(returned, <<r, 0>>)
  BY <1>1 DEF Push, ringVars
<1>4. SizeBounded'
  BY <1>3 DEF SizeBounded
<1>5. /\ Len(returned') = n + 1
      /\ \A k \in 1 .. n : returned'[k] = returned[k]
      /\ wpc' = "idle" => returned'[n + 1] = <<r, -1>>
  <2>1. <<r, -1>> \in Int \X Int /\ <<r, 0>> \in Int \X Int
    OBVIOUS
  <2>2. PICK x \in Int \X Int : returned' = Append(returned, x) /\ (wpc' = "idle" => x = <<r, -1>>)
    BY <1>3, <2>1
  <2>3. /\ Len(Append(returned, x)) = n + 1
        /\ Append(returned, x)[n + 1] = x
        /\ \A k \in 1 .. n : Append(returned, x)[k] = returned[k]
    BY <1>1
  <2> HIDE DEF n
  <2> QED BY <2>2, <2>3
<1>6. CASE wpc' = "scan"
  <2>1. Done' = Done
    BY <1>1, <1>2, <1>5, <1>6 DEF Done
  <2> QED BY <1>1, <1>2, <1>3, <1>4, <1>5, <2>1, SingleSameAccount
<1>7. CASE wpc' = "idle"
  <2>1. Done' = 1 .. n + 1 /\ returned'[n + 1][2] = -1
    BY <1>1, <1>3, <1>5, <1>7 DEF Done
  <2>2. ASSUME n + 1 \in Published' PROVE FALSE
    <3>1. PICK i \in 1 .. Len(log) : log[i] = <<Writer, n + 1>>
      BY <1>3, <2>2 DEF Published
    <3>2. PICK k \in Done : log[i] = <<Writer, k>>
      BY DEF AccountInv
    <3> QED BY <1>1, <1>2, <3>1, <3>2
  <2>3. \A k \in 1 .. n : k \in Published' <=> k \in Published
    <3>1. \A k \in 1 .. n : k \in 1 .. Len(returned') /\ k \in 1 .. Len(returned)
      BY <1>1, <1>5
    <3> QED BY <1>3, <3>1 DEF Published
  <2>4. \A k \in Done' : k \in Done \/ k = n + 1
    BY <1>1, <1>2, <2>1
  <2>5. \A k \in Done : k \in Done'
    BY <1>1, <1>2, <2>1
  <2>6. ResultInRange'
    BY <1>2, <1>5, <2>1, <2>2, <2>3, <2>4 DEF AccountInv, ResultInRange
  <2> QED BY <1>3, <1>4, <2>5, <2>6 DEF AccountInv, SizeBounded
<1> QED
  BY <1>3, <1>6, <1>7

LEMMA SinglePublishAccount ==
    ASSUME RootsGate, IInv, AccountInv, Publish
    PROVE  AccountInv'
<1> DEFINE n == Len(returned)
           r == cursor_index - min_index + 1
<1>1. /\ returned \in Seq(Int \X Int) /\ log \in Seq(Events) /\ event \in Events
      /\ cursor_index \in Nat /\ min_index \in Nat /\ Capacity \in Nat
      /\ n \in Nat \ {0} /\ event = <<Writer, n>> /\ Gating # {}
      /\ wpc = "publish" /\ wpc' = "idle" /\ log' = Append(log, event)
  BY HandlerAssumption DEF IInv, TypeOK, HandlerTypeOK, CallGoesOn, Publish
<1>2. /\ Len(returned') = n
      /\ returned'[n][2] = r
      /\ \A k \in 1 .. n - 1 : returned'[k] = returned[k]
  <2>1. TypeOK /\ Publish /\ Len(returned) > 0
    BY <1>1 DEF IInv
  <2>2. /\ Len(returned') = n
        /\ returned'[n] = <<returned[n][1], r>>
        /\ \A k \in 1 .. n - 1 : returned'[k] = returned[k]
    BY <2>1, PublishReturns
  <2> HIDE DEF n, r
  <2> QED BY <2>2
<1>3. Done = 1 .. n - 1 /\ Done' = 1 .. n
  BY <1>1, <1>2, SMTT(60) DEF Done
<1>4. r \in 1 .. Capacity
  <2>1. PICK h \in Roots : TRUE
    BY <1>1 DEF RootsGate
  <2>2. handler_index[h] <= current_index[h] /\ current_index[h] <= cursor_index
    BY DEF IInv, HandlerInv, RootsBehindCursor
  <2>3. handler_index[h] \in Nat /\ current_index[h] \in Nat
    BY DEF IInv, TypeOK, HandlerTypeOK, Roots
  <2>4. min_index <= handler_index[h] /\ cursor_index - min_index < Capacity
    BY <1>1 DEF AccountInv
  <2>5. min_index <= cursor_index
    BY <1>1, <2>2, <2>3, <2>4, SMTT(60)
  <2> QED BY <1>1, <2>4, <2>5
<1>5. /\ Len(log') = Len(log) + 1
      /\ log'[Len(log) + 1] = <<Writer, n>>
      /\ \A i \in 1 .. Len(log) : log'[i] = log[i]
      /\ \A i \in 1 .. Len(log') : i = Len(log) + 1 \/ i \in 1 .. Len(log)
      /\ Len(log) \in Nat
  BY <1>1
<1> HIDE DEF r
<1>6. n \in Published'
  <2>1. n \in 1 .. Len(returned') /\ Len(log) + 1 \in 1 .. Len(log')
    BY <1>1, <1>2, <1>5
  <2> QED BY <1>5, <2>1 DEF Published
<1>7. \A k \in 1 .. n - 1 : k \in Published' <=> k \in Published
  <2> SUFFICES ASSUME NEW k \in 1 .. n - 1
               PROVE  k \in Published' <=> k \in Published
    OBVIOUS
  <2>1. <<Writer, k>> # <<Writer, n>>
    BY <1>1
  <2>2. k \in 1 .. Len(returned) /\ k \in 1 .. Len(returned')
    BY <1>1, <1>2
  <2>3. \A i \in 1 .. Len(log) : i \in 1 .. Len(log')
    BY <1>5
  <2>4. (\E i \in 1 .. Len(log') : log'[i] = <<Writer, k>>)
           <=> (\E i \in 1 .. Len(log) : log[i] = <<Writer, k>>)
    BY <1>5, <2>1, <2>3
  <2> QED BY <2>2, <2>4 DEF Published
<1>8. \A k \in Done' : k \in Done \/ k = n
  BY <1>1, <1>3
<1>9. ResultInRange'
  <2>1. \A k \in Done : (returned[k][2] = -1 \/ returned[k][2] \in 1 .. Capacity)
                        /\ ((returned[k][2] = -1) <=> (k \notin Published))
    BY DEF AccountInv, ResultInRange
  <2>2. \A k \in Done : (returned'[k][2] = -1 \/ returned'[k][2] \in 1 .. Capacity)
                        /\ ((returned'[k][2] = -1) <=> (k \notin Published'))
    BY <1>2, <1>3, <1>7, <2>1
  <2>3. r # -1
    BY <1>4
  <2> QED BY <1>2, <1>4, <1>6, <1>8, <2>2, <2>3 DEF ResultInRange
<1>10. \A i \in 1 .. Len(log') : \E k \in Done' : log'[i] = <<Writer, k>>
  <2>1. n \in Done' /\ \A k \in Done : k \in Done'
    BY <1>1, <1>3
  <2> QED BY <1>5, <2>1 DEF AccountInv
<1> QED
  BY <1>1, <1>9, <1>10 DEF AccountInv

LEMMA SingleNextAccount ==
    ASSUME RootsGate, IInv, AccountInv, [Next]_vars
    PROVE  AccountInv'
<1>0. /\ returned \in Seq(Int \X Int)
      /\ \A k \in Done : k \in 1 .. Len(returned)
  BY DEF IInv, TypeOK, Done
<1>1. ASSUME NEW h \in Handlers, HandlerNext(h)
      PROVE  AccountInv'
  <2>1. /\ HandlerStep(h) /\ UNCHANGED writerVars /\ HandlerInv
    BY <1>1 DEF HandlerNext, IInv
  <2>2. /\ HandlerInv' /\ UNCHANGED ringVars
        /\ \A g \in Roots : handler_index[g] <= handler_index'[g]
    BY <2>1, HandlerKeeps
  <2>3. /\ min_index \in Nat
        /\ \A g \in Roots : handler_index[g] \in Nat /\ handler_index'[g] \in Nat
    BY <2>2 DEF IInv, HandlerInv, TypeOK, HandlerTypeOK, Roots
  <2>4. SizeBounded'
    BY <2>1, <2>2, <2>3 DEF SizeBounded, AccountInv, Roots, writerVars, ringVars
  <2>5. Done' = Done /\ UNCHANGED <<log, returned>>
    BY <2>1, <2>2 DEF Done, writerVars, ringVars
  <2> QED BY <1>0, <2>4, <2>5, SingleSameAccount
<1>2. CASE PushUser \/ PushQuit
  <2>1. PICK r \in Int : \E e : Push(e, r)
    <3>1. CASE PushUser
      BY <3>1, SingleWriteAssumption DEF PushUser
    <3>2. CASE PushQuit
      BY <3>2 DEF PushQuit
    <3> QED BY <1>2, <3>1, <3>2
  <2> QED BY <2>1, SinglePushAccount
<1>3. CASE ScanDependent
  <2>1. /\ wpc = "scan" /\ wpc' \in {"scan", "copy"}
        /\ UNCHANGED <<ringVars, handlerVars, signalVars, event, returned>>
        /\ wpc' = "copy" => /\ cursor_index - min_index' < Capacity
                            /\ \A h \in Roots : min_index' <= handler_index[h]
    BY <1>3, ScanFinds
  <2>2. SizeBounded'
    BY <2>1 DEF SizeBounded, Roots, ringVars, handlerVars
  <2>3. Done' = Done /\ UNCHANGED <<log, returned>>
    BY <2>1 DEF Done, ringVars
  <2> QED BY <1>0, <2>2, <2>3, SingleSameAccount
<1>4. CASE CopyEvent
  <2>1. /\ wpc = "copy" /\ wpc' = "publish"
        /\ UNCHANGED <<cursor_index, log, handlerVars, min_index, returned>>
    BY <1>4 DEF CopyEvent
  <2>2. SizeBounded'
    BY <2>1 DEF SizeBounded, AccountInv, Roots, handlerVars
  <2>3. Done' = Done
    BY <2>1 DEF Done
  <2> QED BY <1>0, <2>1, <2>2, <2>3, SingleSameAccount
<1>5. CASE WriterSignals \/ UNCHANGED vars
  <2>1. UNCHANGED <<ringVars, handlerVars, writerVars>>
    BY <1>5 DEF WriterSignals, vars
  <2>2. SizeBounded' /\ Done' = Done /\ UNCHANGED <<log, returned>>
    BY <2>1 DEF SizeBounded, AccountInv, Roots, Done, ringVars, handlerVars, writerVars
  <2> QED BY <1>0, <2>2, SingleSameAccount
<1> QED
  BY <1>1, <1>2, <1>3, <1>4, <1>5, SinglePublishAccount DEF Next, WriterStep

(* push returns -1 exactly for the events it did not publish, and a number *)
(* of unhandled events in 1 .. capacity_ for those it did, when one of the *)
(* handlers that hold the writer back depends on no other.                 *)
THEOREM SingleResults == ASSUME RootsGate PROVE Spec => []ResultInRange
<1>1. Init => AccountInv
  BY DEF Init, HandlerInit, AccountInv, ResultInRange, Done
<1>2. IInv /\ AccountInv /\ [Next]_vars => AccountInv'
  BY SingleNextAccount
<1>3. AccountInv => ResultInRange
  BY DEF AccountInv
<1> QED
  BY SingleInductive, <1>1, <1>2, <1>3, PTL DEF Spec

(***************************************************************************)
(* The utility queues.                                                     *)
(***************************************************************************)

(* Sequences: a value enters at the end and leaves at the front.           *)

LEMMA AppendToSecond ==
    ASSUME NEW S, NEW s \in Seq(S), NEW t \in Seq(S), NEW e \in S
    PROVE  s \o Append(t, e) = Append(s \o t, e)
<1>1. /\ Append(t, e) \in Seq(S) /\ Append(t, e) = t \o <<e>>
      /\ <<e>> \in Seq(S) /\ s \o t \in Seq(S)
  BY AppendProperties, AppendIsConcat, ConcatProperties
<1>2. Append(s \o t, e) = (s \o t) \o <<e>>
  BY <1>1, AppendIsConcat
<1> QED
  BY <1>1, <1>2, ConcatAssociative

LEMMA TailOfFirst ==
    ASSUME NEW S, NEW s \in Seq(S), NEW t \in Seq(S), s # << >>
    PROVE  /\ s \o t # << >>
           /\ Head(s \o t) = Head(s)
           /\ Tail(s \o t) = Tail(s) \o t
<1>1. /\ s \o t \in Seq(S) /\ Len(s \o t) = Len(s) + Len(t)
      /\ \A i \in 1 .. Len(s) + Len(t) :
            (s \o t)[i] = IF i <= Len(s) THEN s[i] ELSE t[i - Len(s)]
  BY ConcatProperties
<1>2. Len(s) \in Nat \ {0} /\ Len(t) \in Nat
  BY EmptySeq, LenProperties
<1>3. s \o t # << >> /\ Head(s \o t) = Head(s)
  BY <1>1, <1>2
<1>4. /\ Tail(s) \in Seq(S) /\ Len(Tail(s)) = Len(s) - 1
      /\ \A i \in 1 .. Len(s) - 1 : Tail(s)[i] = s[i + 1]
  BY HeadTailProperties
<1>5. /\ Tail(s \o t) \in Seq(S) /\ Len(Tail(s \o t)) = Len(s) + Len(t) - 1
      /\ \A i \in 1 .. Len(s) + Len(t) - 1 : Tail(s \o t)[i] = (s \o t)[i + 1]
  BY <1>1, <1>3, HeadTailProperties
<1>6. /\ Tail(s) \o t \in Seq(S) /\ Len(Tail(s) \o t) = Len(s) - 1 + Len(t)
      /\ \A i \in 1 .. Len(s) - 1 + Len(t) :
            (Tail(s) \o t)[i] = IF i <= Len(s) - 1 THEN Tail(s)[i] ELSE t[i - (Len(s) - 1)]
  BY <1>4, ConcatProperties
<1>7. ASSUME NEW i \in 1 .. Len(s) + Len(t) - 1
      PROVE  Tail(s \o t)[i] = (Tail(s) \o t)[i]
  <2>1. CASE i <= Len(s) - 1
    BY <1>1, <1>2, <1>4, <1>5, <1>6, <2>1
  <2>2. CASE i > Len(s) - 1
    <3>1. /\ i + 1 - Len(s) = i - (Len(s) - 1)
          /\ i + 1 \in 1 .. Len(s) + Len(t)
          /\ i \in 1 .. Len(s) - 1 + Len(t)
          /\ ~(i + 1 <= Len(s)) /\ ~(i <= Len(s) - 1)
      BY <1>2, <2>2
    <3> QED BY <1>1, <1>5, <1>6, <3>1
  <2> QED BY <1>2, <2>1, <2>2
<1> QED
  BY <1>2, <1>3, <1>5, <1>6, <1>7, SeqEqual

LEMMA AppendBehind ==
    ASSUME NEW S, NEW s \in Seq(S), NEW e \in S, NEW k \in 1 .. Len(s) + 1
    PROVE  /\ SubSeq(s, k, Len(s)) \in Seq(S)
           /\ Len(SubSeq(s, k, Len(s))) = Len(s) + 1 - k
           /\ SubSeq(Append(s, e), k, Len(Append(s, e))) = Append(SubSeq(s, k, Len(s)), e)
<1> DEFINE n == Len(s)
           m == k - 1
           r == Append(s, e)
           rest == SubSeq(s, m + 1, n)
<1>1. /\ n \in Nat /\ r \in Seq(S) /\ Len(r) = n + 1 /\ r[n + 1] = e
      /\ \A i \in 1 .. n : s[i] \in S /\ r[i] = s[i]
  BY LenProperties, ElementOfSeq, AppendProperties
<1>0. m \in 0 .. n /\ m + 1 = k /\ n - m = n + 1 - k
  BY <1>1
<1> HIDE DEF n, r, m
<1>2. /\ rest \in Seq(S) /\ Len(rest) = n - m
      /\ \A i \in 1 .. n - m : rest[i] = s[m + i]
  <2>1. m + 1 \in Int /\ n \in Int /\ \A i \in m + 1 .. n : s[i] \in S
    BY <1>0, <1>1
  <2>2. /\ rest \in Seq(S) /\ Len(rest) = IF m + 1 <= n THEN n - (m + 1) + 1 ELSE 0
        /\ \A i \in 1 .. n - (m + 1) + 1 : rest[i] = s[m + 1 + i - 1]
    BY <2>1, SubSeqProperties
  <2>3. n - (m + 1) + 1 = n - m /\ m <= n /\ \A i \in Int : m + 1 + i - 1 = m + i
    BY <1>0, <1>1
  <2> HIDE DEF rest
  <2> QED BY <1>0, <1>1, <2>2, <2>3
<1>3. /\ SubSeq(r, m + 1, n + 1) \in Seq(S)
      /\ Len(SubSeq(r, m + 1, n + 1)) = n + 1 - m
      /\ \A i \in 1 .. n + 1 - m : SubSeq(r, m + 1, n + 1)[i] = r[m + i]
  <2> DEFINE a == m + 1
             z == n + 1
  <2>1. a \in Int /\ z \in Int /\ \A i \in a .. z : r[i] \in S
    BY <1>0, <1>1
  <2>2. /\ SubSeq(r, a, z) \in Seq(S)
        /\ Len(SubSeq(r, a, z)) = IF a <= z THEN z - a + 1 ELSE 0
        /\ \A i \in 1 .. z - a + 1 : SubSeq(r, a, z)[i] = r[a + i - 1]
    <3> HIDE DEF a, z
    <3> QED BY <2>1, SubSeqProperties
  <2>3. z - a + 1 = n + 1 - m /\ a <= z /\ \A i \in Int : a + i - 1 = m + i
    BY <1>0, <1>1
  <2>4. SubSeq(r, a, z) \in Seq(S) /\ Len(SubSeq(r, a, z)) = n + 1 - m
    BY <2>2, <2>3
  <2>5. \A i \in 1 .. n + 1 - m : SubSeq(r, a, z)[i] = r[m + i]
    <3> HIDE DEF a, z
    <3> QED BY <1>0, <1>1, <2>1, <2>2, <2>3
  <2> QED BY <2>4, <2>5
<1> HIDE DEF rest
<1>4. /\ Append(rest, e) \in Seq(S) /\ Len(Append(rest, e)) = n + 1 - m
      /\ Append(rest, e)[n + 1 - m] = e
      /\ \A i \in 1 .. n - m : Append(rest, e)[i] = rest[i]
  <2>1. n - m + 1 = n + 1 - m
    BY <1>0, <1>1
  <2> QED BY <1>2, <2>1, AppendProperties
<1>5. ASSUME NEW i \in 1 .. n + 1 - m
      PROVE  SubSeq(r, m + 1, n + 1)[i] = Append(rest, e)[i]
  <2>1. CASE i = n + 1 - m
    <3>1. m + i = n + 1
      BY <1>0, <1>1, <2>1
    <3> QED BY <1>1, <1>3, <1>4, <2>1, <3>1
  <2>2. CASE i # n + 1 - m
    <3>1. i \in 1 .. n - m /\ m + i \in 1 .. n
      BY <1>0, <1>1, <2>2
    <3> QED BY <1>1, <1>2, <1>3, <1>4, <3>1
  <2> QED BY <2>1, <2>2
<1>6. SubSeq(r, m + 1, n + 1) = Append(rest, e)
  BY <1>3, <1>4, <1>5, SeqEqual
<1> QED
  BY <1>0, <1>1, <1>2, <1>6 DEF n, r, rest

-----------------------------------------------------------------------------
(* SwapQueue: TwoList.                                                     *)

LEMMA SwapInit == ASSUME TwoList!SwapAssumption PROVE TwoList!Init => TwoList!IInv
<1> SUFFICES ASSUME TwoList!Init
             PROVE  TwoList!IInv
  OBVIOUS
<1>1. << >> \in Seq(TwoList!Values) /\ swap_popped \in Seq(TwoList!Values)
  BY DEF TwoList!Init
<1>2. DOMAIN lists = 1 .. 2 /\ lists[1] = << >> /\ lists[2] = << >>
  BY DEF TwoList!Init
<1>3. lists = [i \in 1 .. 2 |-> lists[i]]
  BY <1>2 DEF TwoList!Init
<1>4. lists \in [1 .. 2 -> Seq(TwoList!Values)]
  <2>1. \A i \in 1 .. 2 : lists[i] \in Seq(TwoList!Values)
    <3>1. \A i \in 1 .. 2 : i = 1 \/ i = 2
      OBVIOUS
    <3> QED BY <1>1, <1>2, <3>1
  <2> QED BY <1>2, <1>3, <2>1
<1> QED
  BY <1>1, <1>2, <1>4 DEF TwoList!SwapAssumption, TwoList!Init, TwoList!IInv,
     TwoList!TypeOK, TwoList!ActiveStaysDrained, TwoList!RoomForPush

LEMMA SwapStep ==
    ASSUME TwoList!SwapAssumption, TwoList!IInv, [TwoList!Next]_(TwoList!vars)
    PROVE  TwoList!IInv'
<1> USE DEF TwoList!SwapAssumption, TwoList!IInv, TwoList!TypeOK, TwoList!Values,
            TwoList!ActiveStaysDrained, TwoList!RoomForPush, TwoList!standby
<1>1. ASSUME NEW t \in Pushers, TwoList!LockPush(t)
      PROVE  TwoList!IInv'
  BY <1>1 DEF TwoList!LockPush
<1>2. ASSUME NEW t \in Pushers, TwoList!PushBack(t)
      PROVE  TwoList!IInv'
  <2> DEFINE n == Len(swap_popped) + Len(lists[1]) + Len(lists[2]) + 1
  <2>1. n \in 1 .. MaxPush
    BY <1>2 DEF TwoList!PushBack
  <2>2. lists' = [lists EXCEPT ![3 - active] = Append(@, n)]
    BY <1>2 DEF TwoList!PushBack
  <2>3. Append(lists[3 - active], n) \in Seq(1 .. MaxPush) /\ 3 - active \in 1 .. 2
    BY <2>1
  <2>4. lists' \in [1 .. 2 -> Seq(1 .. MaxPush)]
    BY <2>2, <2>3
  <2>5. push_mutex' = NoThread /\ UNCHANGED <<active, consumer, swap_popped>> /\ push_mutex = t
    BY <1>2 DEF TwoList!PushBack
  <2>6. lists'[active] = lists[active]
    BY <2>2, <2>3
  <2> QED
    BY <2>4, <2>5, <2>6
<1>3. CASE TwoList!Pop
  <2>1. CASE lists[active] = << >>
    BY <1>3, <2>1 DEF TwoList!Pop
  <2>2. CASE lists[active] # << >>
    <3>1. /\ Head(lists[active]) \in 1 .. MaxPush /\ Tail(lists[active]) \in Seq(1 .. MaxPush)
          /\ Len(Tail(lists[active])) = Len(lists[active]) - 1
      <4>1. lists[active] \in Seq(1 .. MaxPush)
        OBVIOUS
      <4> QED BY <2>2, <4>1, HeadTailProperties
    <3>2. /\ swap_popped' = Append(swap_popped, Head(lists[active]))
          /\ lists' = [lists EXCEPT ![active] = Tail(lists[active])]
          /\ UNCHANGED <<active, consumer, push_mutex>> /\ consumer = "pop"
      BY <1>3, <2>2 DEF TwoList!Pop
    <3>3. /\ swap_popped' \in Seq(1 .. MaxPush)
          /\ lists' \in [1 .. 2 -> Seq(1 .. MaxPush)]
          /\ Len(swap_popped') = Len(swap_popped) + 1
      BY <3>1, <3>2
    <3>4. Len(swap_popped') + Len(lists'[1]) + Len(lists'[2])
             = Len(swap_popped) + Len(lists[1]) + Len(lists[2])
      <4>1. CASE active = 1
        BY <3>1, <3>2, <3>3, <4>1
      <4>2. CASE active = 2
        BY <3>1, <3>2, <3>3, <4>2
      <4>3. active = 1 \/ active = 2
        OBVIOUS
      <4> QED BY ONLY <4>1, <4>2, <4>3
    <3> QED
      BY <3>2, <3>3, <3>4
  <2> QED BY <2>1, <2>2
<1>4. CASE TwoList!TestStandby
  BY <1>4 DEF TwoList!TestStandby
<1>5. CASE TwoList!LockSwap
  BY <1>5 DEF TwoList!LockSwap
<1>6. CASE TwoList!Swap
  BY <1>6 DEF TwoList!Swap
<1>7. CASE UNCHANGED TwoList!vars
  BY <1>7 DEF TwoList!vars
<1> QED
  BY <1>1, <1>2, <1>3, <1>4, <1>5, <1>6, <1>7 DEF TwoList!Next, TwoList!Consume

LEMMA SwapFifo ==
    ASSUME TwoList!SwapAssumption, TwoList!IInv, [TwoList!Next]_(TwoList!vars)
    PROVE  [TwoList!Fifo!Next]_<<lists[active] \o lists[TwoList!standby], swap_popped>>
<1> DEFINE S == 1 .. MaxPush
           a == lists[active]
           s == lists[3 - active]
<1>1. /\ lists \in [1 .. 2 -> Seq(S)] /\ active \in 1 .. 2 /\ 3 - active \in 1 .. 2
      /\ a \in Seq(S) /\ s \in Seq(S) /\ swap_popped \in Seq(S)
      /\ TwoList!standby = 3 - active
      /\ active = 1 \/ active = 2
  BY DEF TwoList!IInv, TwoList!TypeOK, TwoList!Values, TwoList!standby
<1>2. ASSUME NEW t \in Pushers, TwoList!PushBack(t)
      PROVE  TwoList!Fifo!Next
  <2> DEFINE n == Len(swap_popped) + Len(lists[1]) + Len(lists[2]) + 1
  <2>1. /\ Len(swap_popped) \in Nat /\ Len(lists[1]) \in Nat /\ Len(lists[2]) \in Nat
        /\ MaxPush \in Nat
        /\ Len(swap_popped) + Len(lists[1]) + Len(lists[2]) < MaxPush
    BY <1>1, <1>2 DEF TwoList!SwapAssumption, TwoList!PushBack, TwoList!IInv,
       TwoList!RoomForPush
  <2>2. n \in S /\ Len(a) + Len(s) < MaxPush
    <3>1. \A x, y, z, m \in Nat :
             x + y + z < m => /\ x + y + z + 1 \in 1 .. m
                              /\ y + z < m /\ z + y < m
      OBVIOUS
    <3>2. n \in S /\ Len(lists[1]) + Len(lists[2]) < MaxPush
                  /\ Len(lists[2]) + Len(lists[1]) < MaxPush
      BY <2>1, <3>1
    <3>3. (active = 1 => 3 - active = 2) /\ (active = 2 => 3 - active = 1)
      OBVIOUS
    <3> QED BY <1>1, <3>2, <3>3
  <2>3. Len(a \o s) < MaxPush
    <3> HIDE DEF a, s, S
    <3> QED BY <1>1, <2>2, ConcatProperties
  <2>4. /\ lists' = [lists EXCEPT ![3 - active] = Append(s, n)]
        /\ UNCHANGED <<active, swap_popped>>
    BY <1>1, <1>2 DEF TwoList!PushBack
  <2>5. lists'[active'] = a /\ lists'[3 - active'] = Append(s, n)
    BY <1>1, <2>4
  <2>6. lists'[active'] \o lists'[3 - active'] = Append(a \o s, n)
    <3>1. a \in Seq(S) /\ s \in Seq(S) /\ n \in S
      BY <1>1, <2>2
    <3>2. a \o Append(s, n) = Append(a \o s, n)
      <4> HIDE DEF a, s, S, n
      <4> QED BY <3>1, AppendToSecond
    <3> QED BY <2>5, <3>2
  <2> QED
    BY <1>1, <2>2, <2>3, <2>4, <2>6
    DEF TwoList!Fifo!Next, TwoList!Fifo!Push, TwoList!Values, TwoList!standby
<1>3. CASE TwoList!Pop
  <2>1. CASE a # << >>
    <3>1. /\ lists' = [lists EXCEPT ![active] = Tail(a)]
          /\ swap_popped' = Append(swap_popped, Head(a)) /\ active' = active
      BY <1>3, <2>1 DEF TwoList!Pop
    <3>2. lists'[active'] = Tail(a) /\ lists'[3 - active'] = s
      BY <1>1, <3>1
    <3>3. /\ a \o s # << >> /\ Head(a \o s) = Head(a)
          /\ lists'[active'] \o lists'[3 - active'] = Tail(a \o s)
      <4> HIDE DEF a, s, S
      <4> QED BY <1>1, <2>1, <3>2, TailOfFirst, SMTT(60)
    <3> QED
      BY <1>1, <3>1, <3>3 DEF TwoList!Fifo!Next, TwoList!Fifo!Pop, TwoList!standby
  <2>2. CASE a = << >>
    BY <1>3, <2>2 DEF TwoList!Pop, TwoList!standby
  <2> QED BY <2>1, <2>2
<1>4. CASE TwoList!Swap
  <2>1. a = << >> /\ active' = 3 - active /\ UNCHANGED <<lists, swap_popped>>
    BY <1>4 DEF TwoList!Swap, TwoList!IInv, TwoList!ActiveStaysDrained, TwoList!standby
  <2>2. lists'[active'] = s /\ lists'[3 - active'] = a
    BY <1>1, <2>1
  <2>3. a \o s = s /\ s \o a = s
    BY <1>1, <2>1, ConcatEmptySeq
  <2> QED
    BY <2>1, <2>2, <2>3 DEF TwoList!standby
<1>5. ASSUME UNCHANGED <<lists, active, swap_popped>>
      PROVE  UNCHANGED <<lists[active] \o lists[TwoList!standby], swap_popped>>
  BY <1>5 DEF TwoList!standby
<1> QED
  BY <1>2, <1>3, <1>4, <1>5
  DEF TwoList!Next, TwoList!Consume, TwoList!vars, TwoList!LockPush, TwoList!TestStandby,
      TwoList!LockSwap

-----------------------------------------------------------------------------
(* TwoLockQueue: TwoLock.                                                  *)

LEMMA ChainTrue ==
    ASSUME TwoLock!ListAssumption, TwoLock!TypeOK, TwoLock!ListLinked
    PROVE  /\ \A i \in 0 .. Len(pushed) : TwoLock!Chain(i) \in 1 .. MaxPush + 1
           /\ \A i \in 1 .. Len(pushed) : TwoLock!Chain(i) \in 1 .. MaxPush
           /\ \A i, j \in 0 .. Len(pushed) :
                 TwoLock!Chain(i) = TwoLock!Chain(j) => i = j
           /\ \A i \in 0 .. Len(pushed) : \A n : TwoLock!Fresh(n) => TwoLock!Chain(i) # n
<1>1. MaxPush \in Nat /\ Len(pushed) \in Nat
      /\ \A i \in 1 .. Len(pushed) : pushed[i] \in 1 .. MaxPush
  BY DEF TwoLock!ListAssumption, TwoLock!TypeOK, TwoLock!Values
<1>2. \A i \in 0 .. Len(pushed) : i = 0 \/ i \in 1 .. Len(pushed)
  BY <1>1
<1>3. MaxPush + 1 \in 1 .. MaxPush + 1 /\ \A n \in 1 .. MaxPush : n # MaxPush + 1
      /\ n \in 1 .. MaxPush + 1
  BY <1>1
<1> QED
  BY <1>1, <1>2, <1>3
  DEF TwoLock!Chain, TwoLock!Dummy, TwoLock!ListLinked, TwoLock!Fresh, TwoLock!Values

LEMMA ListInit == ASSUME TwoLock!ListAssumption PROVE TwoLock!Init => TwoLock!IInv
BY DEF TwoLock!ListAssumption, TwoLock!Init, TwoLock!IInv, TwoLock!TypeOK,
   TwoLock!MutexesHeld, TwoLock!ListLinked, TwoLock!EndsTrue, TwoLock!PushersTrue,
   TwoLock!PoppersTrue, TwoLock!Chain, TwoLock!Values, TwoLock!Dummy, TwoLock!Nodes,
   TwoLock!Fresh

LEMMA ListNewNode ==
    ASSUME TwoLock!ListAssumption, TwoLock!IInv, NEW t \in Pushers,
           NEW v \in TwoLock!Values, TwoLock!NewNode(t, v)
    PROVE  TwoLock!IInv'
<1> USE DEF TwoLock!ListAssumption, TwoLock!IInv, TwoLock!TypeOK
<1>1. /\ list_pc' = [list_pc EXCEPT ![t] = "lock_tail"] /\ node' = [node EXCEPT ![t] = v]
      /\ list_pc[t] = "idle" /\ TwoLock!Fresh(v) /\ \A u \in Pushers : node[u] # v
      /\ UNCHANGED <<next, head, tail, head_mutex, tail_mutex, deleted, pushed, popped>>
  BY DEF TwoLock!NewNode, TwoLock!Move, TwoLock!Fresh
<1>2. TwoLock!TypeOK'
  BY <1>1 DEF TwoLock!Values, TwoLock!Nodes, TwoLock!Dummy
<1>3. TwoLock!MutexesHeld'
  BY <1>1 DEF TwoLock!MutexesHeld
<1>4. TwoLock!ListLinked'
  BY <1>1 DEF TwoLock!ListLinked, TwoLock!Chain, TwoLock!Fresh
<1>5. TwoLock!EndsTrue'
  BY <1>1 DEF TwoLock!EndsTrue, TwoLock!Chain
<1>6. TwoLock!PushersTrue'
  BY <1>1 DEF TwoLock!PushersTrue, TwoLock!Fresh, TwoLock!Chain
<1>7. TwoLock!PoppersTrue'
  BY <1>1 DEF TwoLock!PoppersTrue, TwoLock!Chain
<1> QED BY <1>2, <1>3, <1>4, <1>5, <1>6, <1>7

LEMMA ListLockTail ==
    ASSUME TwoLock!ListAssumption, TwoLock!IInv, NEW t \in Pushers, TwoLock!LockTail(t)
    PROVE  TwoLock!IInv'
<1> USE DEF TwoLock!ListAssumption, TwoLock!IInv, TwoLock!TypeOK
<1>1. /\ list_pc' = [list_pc EXCEPT ![t] = "link"] /\ node' = node
      /\ list_pc[t] = "lock_tail" /\ tail_mutex = NoThread /\ tail_mutex' = t
      /\ UNCHANGED <<next, head, tail, head_mutex, deleted, pushed, popped>>
  BY DEF TwoLock!LockTail, TwoLock!Move
<1>2. TwoLock!TypeOK'
  BY <1>1
<1>3. TwoLock!MutexesHeld'
  BY <1>1 DEF TwoLock!MutexesHeld
<1>4. TwoLock!ListLinked'
  BY <1>1 DEF TwoLock!ListLinked, TwoLock!Chain, TwoLock!Fresh
<1>5. TwoLock!EndsTrue'
  BY <1>1 DEF TwoLock!EndsTrue, TwoLock!Chain
<1>6. TwoLock!PushersTrue'
  BY <1>1 DEF TwoLock!PushersTrue, TwoLock!Fresh, TwoLock!Chain
<1>7. TwoLock!PoppersTrue'
  BY <1>1 DEF TwoLock!PoppersTrue, TwoLock!Chain
<1> QED BY <1>2, <1>3, <1>4, <1>5, <1>6, <1>7

LEMMA ListLink ==
    ASSUME TwoLock!ListAssumption, TwoLock!IInv, NEW t \in Pushers, TwoLock!Link(t)
    PROVE  TwoLock!IInv'
<1> USE DEF TwoLock!ListAssumption, TwoLock!IInv, TwoLock!TypeOK
<1> DEFINE n == Len(pushed)
           v == node[t]
<1>1. /\ list_pc' = [list_pc EXCEPT ![t] = "advance"] /\ node' = node
      /\ list_pc[t] = "link" /\ TwoLock!Fresh(v) /\ next' = [next EXCEPT ![tail] = v]
      /\ pushed' = Append(pushed, v)
      /\ UNCHANGED <<head, tail, head_mutex, tail_mutex, deleted, popped>>
  BY DEF TwoLock!Link, TwoLock!Move, TwoLock!PushersTrue
<1>2. tail = TwoLock!Chain(n) /\ \A u \in Pushers \ {t} : list_pc[u] \notin {"link", "advance"}
  BY <1>1 DEF TwoLock!EndsTrue, TwoLock!MutexesHeld
<1>3. /\ Len(pushed') = n + 1 /\ pushed'[n + 1] = v /\ \A i \in 1 .. n : pushed'[i] = pushed[i]
      /\ pushed' \in Seq(TwoLock!Values) /\ v \in TwoLock!Values /\ n \in Nat
      /\ Len(popped) \in 0 .. n
  BY <1>1 DEF TwoLock!Fresh, TwoLock!EndsTrue
<1>4. /\ \A i \in 0 .. n : TwoLock!Chain(i)' = TwoLock!Chain(i)
      /\ TwoLock!Chain(n)' = v
  <2>1. n + 1 # 0 /\ \A i \in 0 .. n : i = 0 \/ i \in 1 .. n
    BY <1>3
  <2> QED BY <1>3, <2>1 DEF TwoLock!Chain, TwoLock!Dummy
<1>5. TwoLock!TypeOK'
  BY <1>1, <1>3
<1>6. TwoLock!MutexesHeld'
  BY <1>1 DEF TwoLock!MutexesHeld
<1>7. TwoLock!ListLinked'
  <2>1. \A i, j \in 1 .. n + 1 : pushed'[i] = pushed'[j] => i = j
    BY <1>1, <1>3 DEF TwoLock!ListLinked, TwoLock!Fresh
  <2>2. \A i \in 0 .. n : next'[TwoLock!Chain(i)'] = pushed'[i + 1]
    <3>1. next'[tail] = v
      BY <1>1
    <3>2. \A i \in 0 .. n - 1 : TwoLock!Chain(i) # tail /\ TwoLock!Chain(i) \in TwoLock!Nodes
      BY <1>2, <1>3, ChainTrue DEF TwoLock!Nodes, TwoLock!Dummy
    <3>3. \A i \in 0 .. n - 1 : next'[TwoLock!Chain(i)] = pushed[i + 1]
      BY <1>1, <1>3, <3>2 DEF TwoLock!ListLinked
    <3>4. \A i \in 0 .. n : i = n \/ (i \in 0 .. n - 1 /\ i + 1 \in 1 .. n)
      BY <1>3
    <3> QED BY <1>2, <1>3, <1>4, <3>1, <3>3, <3>4
  <2>3. \A x \in TwoLock!Values : TwoLock!Fresh(x) /\ x # tail => next'[x] = 0
    BY <1>1 DEF TwoLock!ListLinked, TwoLock!Values, TwoLock!Nodes, TwoLock!Dummy
  <2>4. v # tail /\ \A x : TwoLock!Fresh(x)' => TwoLock!Fresh(x)
    <3>1. n \in 0 .. n /\ \A i \in 1 .. n : i \in 1 .. n + 1
      BY <1>3
    <3>2. v # tail
      BY <1>1, <1>2, <3>1, ChainTrue
    <3> QED BY <1>3, <3>1, <3>2 DEF TwoLock!Fresh
  <2>5. \A x : TwoLock!Fresh(x)' => x # tail
    BY <1>2, <1>3, <2>4, ChainTrue
  <2> QED
    <3>1. next'[v] = 0
      BY <1>1, <1>3, <2>3, <2>4
    <3>2. \A x \in TwoLock!Values : TwoLock!Fresh(x)' => next'[x] = 0
      BY <2>3, <2>4, <2>5
    <3>3. /\ \A i, j \in 1 .. Len(pushed') : pushed'[i] = pushed'[j] => i = j
          /\ \A i \in 0 .. Len(pushed') - 1 : next'[TwoLock!Chain(i)'] = pushed'[i + 1]
          /\ next'[TwoLock!Chain(Len(pushed))'] = 0
      <4>1. Len(pushed') - 1 = n
        BY <1>3
      <4> QED BY <1>3, <1>4, <2>1, <2>2, <3>1, <4>1
    <3> QED BY <3>2, <3>3 DEF TwoLock!ListLinked, TwoLock!Values
<1>8. TwoLock!EndsTrue'
  BY <1>1, <1>3, <1>4 DEF TwoLock!EndsTrue
<1>9. TwoLock!PushersTrue'
  <2>1. ASSUME NEW u \in Pushers, list_pc'[u] \in {"lock_tail", "link"}
        PROVE  TwoLock!Fresh(node[u])' /\ \A w \in Pushers : node'[u] = node'[w] => u = w
    <3>1. u # t /\ list_pc[u] \in {"lock_tail", "link"}
      BY <1>1, <2>1
    <3>2. node[u] # v /\ TwoLock!Fresh(node[u])
          /\ \A w \in Pushers : node[u] = node[w] => u = w
      BY <3>1 DEF TwoLock!PushersTrue
    <3>3. \A i \in 1 .. n + 1 : i = n + 1 \/ i \in 1 .. n
      BY <1>3
    <3> QED BY <1>1, <1>3, <3>2, <3>3 DEF TwoLock!Fresh
  <2>2. ASSUME NEW u \in Pushers, list_pc'[u] = "advance"
        PROVE  node'[u] = TwoLock!Chain(n)'
    <3>1. u = t
      BY <1>1, <1>2, <2>2
    <3> QED BY <1>1, <1>4, <3>1
  <2> QED
    BY <1>3, <2>1, <2>2 DEF TwoLock!PushersTrue
<1>10. TwoLock!PoppersTrue'
  BY <1>1, <1>3, <1>4 DEF TwoLock!PoppersTrue
<1> QED BY <1>5, <1>6, <1>7, <1>8, <1>9, <1>10

LEMMA ListAdvance ==
    ASSUME TwoLock!ListAssumption, TwoLock!IInv, NEW t \in Pushers, TwoLock!Advance(t)
    PROVE  TwoLock!IInv'
<1> USE DEF TwoLock!ListAssumption, TwoLock!IInv, TwoLock!TypeOK
<1>1. /\ list_pc' = [list_pc EXCEPT ![t] = "idle"] /\ node' = [node EXCEPT ![t] = 0]
      /\ list_pc[t] = "advance" /\ tail_mutex' = NoThread /\ tail' = TwoLock!Chain(Len(pushed))
      /\ UNCHANGED <<next, head, head_mutex, deleted, pushed, popped>>
  BY DEF TwoLock!Advance, TwoLock!Move, TwoLock!PushersTrue
<1>2. tail_mutex = t
  BY <1>1 DEF TwoLock!MutexesHeld
<1>3. TwoLock!TypeOK'
  <2>1. tail' \in TwoLock!Nodes
    BY <1>1, ChainTrue DEF TwoLock!Nodes, TwoLock!Dummy
  <2> QED BY <1>1, <2>1
<1>4. TwoLock!MutexesHeld'
  BY <1>1, <1>2 DEF TwoLock!MutexesHeld
<1>5. TwoLock!ListLinked'
  BY <1>1 DEF TwoLock!ListLinked, TwoLock!Chain, TwoLock!Fresh
<1>6. TwoLock!EndsTrue'
  BY <1>1 DEF TwoLock!EndsTrue, TwoLock!Chain
<1>7. TwoLock!PushersTrue'
  <2>1. ASSUME NEW u \in Pushers, list_pc'[u] \in {"lock_tail", "link"}
        PROVE  TwoLock!Fresh(node[u])' /\ \A w \in Pushers : node'[u] = node'[w] => u = w
    <3>1. u # t /\ list_pc[u] \in {"lock_tail", "link"} /\ node'[u] = node[u]
      BY <1>1, <2>1
    <3>2. TwoLock!Fresh(node[u]) /\ \A w \in Pushers : node[u] = node[w] => u = w
      BY <3>1 DEF TwoLock!PushersTrue
    <3>3. node[u] # 0
      BY <3>2 DEF TwoLock!Fresh, TwoLock!Values
    <3> QED BY <1>1, <3>1, <3>2, <3>3 DEF TwoLock!Fresh
  <2>2. ASSUME NEW u \in Pushers, list_pc'[u] = "advance"
        PROVE  FALSE
    <3>1. u # t /\ list_pc[u] = "advance"
      BY <1>1, <2>2
    <3> QED BY <1>1, <3>1 DEF TwoLock!MutexesHeld
  <2> QED BY <2>1, <2>2 DEF TwoLock!PushersTrue
<1>8. TwoLock!PoppersTrue'
  BY <1>1 DEF TwoLock!PoppersTrue, TwoLock!Chain
<1> QED BY <1>3, <1>4, <1>5, <1>6, <1>7, <1>8

LEMMA ListLockHead ==
    ASSUME TwoLock!ListAssumption, TwoLock!IInv, NEW t \in Poppers, TwoLock!LockHead(t)
    PROVE  TwoLock!IInv'
<1> USE DEF TwoLock!ListAssumption, TwoLock!IInv, TwoLock!TypeOK
<1>1. /\ list_pc' = [list_pc EXCEPT ![t] = "unlink"] /\ node' = [node EXCEPT ![t] = head]
      /\ list_pc[t] = "idle" /\ head_mutex = NoThread /\ head_mutex' = t
      /\ UNCHANGED <<next, head, tail, tail_mutex, deleted, pushed, popped>>
  BY DEF TwoLock!LockHead, TwoLock!Move
<1>2. TwoLock!TypeOK'
  BY <1>1
<1>3. TwoLock!MutexesHeld'
  BY <1>1 DEF TwoLock!MutexesHeld
<1>4. TwoLock!ListLinked'
  BY <1>1 DEF TwoLock!ListLinked, TwoLock!Chain, TwoLock!Fresh
<1>5. TwoLock!EndsTrue'
  BY <1>1 DEF TwoLock!EndsTrue, TwoLock!Chain
<1>6. TwoLock!PushersTrue'
  BY <1>1 DEF TwoLock!PushersTrue, TwoLock!Fresh, TwoLock!Chain
<1>7. TwoLock!PoppersTrue'
  <2>1. ASSUME NEW u \in Poppers, list_pc'[u] = "unlink"
        PROVE  node'[u] = head'
    BY <1>1, <2>1 DEF TwoLock!PoppersTrue
  <2>2. ASSUME NEW u \in Poppers, list_pc'[u] = "delete"
        PROVE  u # t /\ list_pc[u] = "delete" /\ node'[u] = node[u]
    BY <1>1, <2>2
  <2>3. /\ {TwoLock!Chain(i) : i \in 0 .. Len(popped) - 1}'
              = {TwoLock!Chain(i) : i \in 0 .. Len(popped) - 1}
        /\ deleted' = deleted
    BY <1>1 DEF TwoLock!Chain
  <2>4. ASSUME NEW u \in Poppers, list_pc'[u] = "delete"
        PROVE  /\ node'[u] \in {TwoLock!Chain(i) : i \in 0 .. Len(popped) - 1}
               /\ node'[u] \notin deleted
               /\ \A w \in Poppers : list_pc'[w] = "delete" /\ node'[w] = node'[u] => w = u
    <3> HIDE DEF TwoLock!IInv, TwoLock!TypeOK
    <3>1. TwoLock!PoppersTrue
      BY DEF TwoLock!IInv
    <3>2. u # t /\ list_pc[u] = "delete" /\ node'[u] = node[u]
      BY <2>2, <2>4
    <3>3. \A w \in Poppers : list_pc'[w] = "delete" => list_pc[w] = "delete" /\ node'[w] = node[w]
      BY <2>2
    <3> QED BY <3>1, <3>2, <3>3 DEF TwoLock!PoppersTrue
  <2>5. deleted \subseteq {TwoLock!Chain(i) : i \in 0 .. Len(popped) - 1}
    BY DEF TwoLock!PoppersTrue
  <2> HIDE DEF TwoLock!IInv, TwoLock!TypeOK, TwoLock!ListAssumption
  <2> QED BY <2>1, <2>3, <2>4, <2>5 DEF TwoLock!PoppersTrue
<1> QED BY <1>2, <1>3, <1>4, <1>5, <1>6, <1>7

(* The node after head_ is the oldest value not taken.                     *)
LEMMA UnlinkTakes ==
    ASSUME TwoLock!ListAssumption, TwoLock!IInv, NEW t \in Poppers, TwoLock!Unlink(t)
    PROVE  LET m == Len(popped)  first == next[node[t]] IN
           /\ list_pc[t] = "unlink" /\ node[t] = TwoLock!Chain(m) /\ m \in Nat
           /\ head_mutex' = NoThread
           /\ UNCHANGED <<next, tail, tail_mutex, deleted, pushed>>
           /\ \/ /\ first = 0 /\ UNCHANGED <<head, popped>>
                 /\ list_pc' = [list_pc EXCEPT ![t] = "idle"]
                 /\ node' = [node EXCEPT ![t] = 0]
              \/ /\ m < Len(pushed) /\ first = pushed[m + 1] /\ first \in TwoLock!Values
                 /\ head' = first /\ popped' = Append(popped, first)
                 /\ list_pc' = [list_pc EXCEPT ![t] = "delete"]
                 /\ node' = node
<1> DEFINE m == Len(popped)
           first == next[node[t]]
<1>1. /\ list_pc[t] = "unlink" /\ node[t] = TwoLock!Chain(m)
      /\ m \in Nat /\ Len(pushed) \in Nat /\ m <= Len(pushed)
  BY DEF TwoLock!Unlink, TwoLock!IInv, TwoLock!PoppersTrue, TwoLock!EndsTrue, TwoLock!TypeOK
<1>2. CASE first = 0
  BY <1>1, <1>2 DEF TwoLock!Unlink, TwoLock!Move
<1>3. CASE first # 0
  <2>1. m # Len(pushed)
    BY <1>1, <1>3 DEF TwoLock!IInv, TwoLock!ListLinked
  <2>2. m < Len(pushed) /\ m \in 0 .. Len(pushed) - 1 /\ m + 1 \in 1 .. Len(pushed)
    BY <1>1, <2>1
  <2>3. first = pushed[m + 1] /\ first \in TwoLock!Values
    BY <1>1, <2>2 DEF TwoLock!IInv, TwoLock!ListLinked, TwoLock!TypeOK
  <2>4. node' = node
    BY <1>3 DEF TwoLock!Unlink, TwoLock!Move, TwoLock!IInv, TwoLock!TypeOK
  <2> QED
    BY <1>1, <1>3, <2>2, <2>3, <2>4 DEF TwoLock!Unlink, TwoLock!Move
<1> QED BY <1>2, <1>3

LEMMA ListUnlink ==
    ASSUME TwoLock!ListAssumption, TwoLock!IInv, NEW t \in Poppers, TwoLock!Unlink(t)
    PROVE  TwoLock!IInv'
<1> USE DEF TwoLock!ListAssumption, TwoLock!IInv, TwoLock!TypeOK
<1> DEFINE m == Len(popped)
           first == next[node[t]]
<1>1. /\ list_pc[t] = "unlink" /\ node[t] = TwoLock!Chain(m) /\ m \in Nat
      /\ head_mutex' = NoThread
      /\ UNCHANGED <<next, tail, tail_mutex, deleted, pushed>>
  BY UnlinkTakes
<1>2. head_mutex = t /\ \A u \in Poppers \ {t} : list_pc[u] # "unlink"
  BY <1>1 DEF TwoLock!MutexesHeld
<1>3. ASSUME /\ first = 0 /\ UNCHANGED <<head, popped>>
             /\ list_pc' = [list_pc EXCEPT ![t] = "idle"]
             /\ node' = [node EXCEPT ![t] = 0]
      PROVE  TwoLock!IInv'
  <2>1. TwoLock!TypeOK'
    BY <1>1, <1>3
  <2>2. TwoLock!MutexesHeld'
    BY <1>1, <1>2, <1>3 DEF TwoLock!MutexesHeld
  <2>3. TwoLock!ListLinked'
    BY <1>1, <1>3 DEF TwoLock!ListLinked, TwoLock!Chain, TwoLock!Fresh
  <2>4. TwoLock!EndsTrue'
    BY <1>1, <1>3 DEF TwoLock!EndsTrue, TwoLock!Chain
  <2>5. TwoLock!PushersTrue'
    BY <1>1, <1>3 DEF TwoLock!PushersTrue, TwoLock!Fresh, TwoLock!Chain
  <2>6. TwoLock!PoppersTrue'
    BY <1>1, <1>3 DEF TwoLock!PoppersTrue, TwoLock!Chain
  <2> QED BY <2>1, <2>2, <2>3, <2>4, <2>5, <2>6
<1>4. ASSUME /\ m < Len(pushed) /\ first = pushed[m + 1] /\ first \in TwoLock!Values
             /\ head' = first /\ popped' = Append(popped, first)
             /\ list_pc' = [list_pc EXCEPT ![t] = "delete"]
             /\ node' = node
      PROVE  TwoLock!IInv'
  <2>1. /\ Len(popped') = m + 1 /\ popped'[m + 1] = first
        /\ \A i \in 1 .. m : popped'[i] = popped[i]
        /\ popped' \in Seq(TwoLock!Values) /\ Len(pushed) \in Nat
    BY <1>1, <1>4
  <2>2. TwoLock!TypeOK'
    BY <1>1, <1>4, <2>1 DEF TwoLock!Nodes, TwoLock!Values, TwoLock!Dummy
  <2>3. TwoLock!MutexesHeld'
    BY <1>1, <1>2, <1>4 DEF TwoLock!MutexesHeld
  <2>4. TwoLock!ListLinked'
    BY <1>1, <1>4 DEF TwoLock!ListLinked, TwoLock!Chain, TwoLock!Fresh
  <2>5. TwoLock!EndsTrue'
    BY <1>1, <1>4, <2>1 DEF TwoLock!EndsTrue, TwoLock!Chain
  <2>6. TwoLock!PushersTrue'
    BY <1>1, <1>4 DEF TwoLock!PushersTrue, TwoLock!Fresh, TwoLock!Chain
  <2>7. TwoLock!PoppersTrue'
    <3>1. \A i \in 0 .. m - 1 : TwoLock!Chain(i) # node[t]
      <4>1. m \in 0 .. Len(pushed) /\ \A i \in 0 .. m - 1 : i \in 0 .. Len(pushed) /\ i # m
        BY <1>1, <1>4, <2>1
      <4> QED BY <1>1, <4>1, ChainTrue
    <3>2. /\ \A i : TwoLock!Chain(i)' = TwoLock!Chain(i)
          /\ m \in 0 .. Len(popped') - 1 /\ \A i \in 0 .. m - 1 : i \in 0 .. Len(popped') - 1
      BY <1>1, <2>1 DEF TwoLock!Chain
    <3>3. \A x : x \in {TwoLock!Chain(i) : i \in 0 .. m - 1} =>
             x # node[t] /\ \E i \in 0 .. Len(popped') - 1 : x = TwoLock!Chain(i)
      BY <3>1, <3>2
    <3>4. \E i \in 0 .. Len(popped') - 1 : node[t] = TwoLock!Chain(i)
      BY <1>1, <3>2
    <3>5. /\ \A x \in deleted : x # node[t]
          /\ \A x \in deleted : \E i \in 0 .. Len(popped') - 1 : x = TwoLock!Chain(i)
      BY <3>3 DEF TwoLock!PoppersTrue
    <3>6. \A u \in Poppers \ {t} : list_pc'[u] = list_pc[u] /\ list_pc[u] # "unlink"
      BY <1>2, <1>4
    <3>7. ASSUME NEW u \in Poppers, list_pc'[u] = "delete"
          PROVE  /\ \E i \in 0 .. Len(popped') - 1 : node'[u] = TwoLock!Chain(i)
                 /\ node'[u] \notin deleted'
                 /\ \A w \in Poppers : list_pc'[w] = "delete" /\ node'[w] = node'[u] => w = u
      <4>1. CASE u = t
        <5>1. \A w \in Poppers \ {t} : list_pc'[w] = "delete" => node[w] # node[t]
          BY <3>3, <3>6 DEF TwoLock!PoppersTrue
        <5> QED BY <1>1, <1>4, <3>4, <3>5, <4>1, <5>1
      <4>2. CASE u # t
        <5>1. list_pc[u] = "delete" /\ node[u] # node[t]
              /\ \E i \in 0 .. Len(popped') - 1 : node[u] = TwoLock!Chain(i)
          BY <3>3, <3>6, <3>7, <4>2 DEF TwoLock!PoppersTrue
        <5> QED BY <1>1, <1>4, <3>6, <4>2, <5>1 DEF TwoLock!PoppersTrue
      <4> QED BY <4>1, <4>2
    <3>8. \A u \in Poppers : list_pc'[u] # "unlink"
      BY <1>4, <3>6
    <3>9. deleted' \subseteq {TwoLock!Chain(i)' : i \in 0 .. Len(popped') - 1}
      BY <1>1, <3>2, <3>5
    <3>10. \A u \in Poppers : list_pc'[u] = "delete" =>
              node'[u] \in {TwoLock!Chain(i)' : i \in 0 .. Len(popped') - 1}
      BY <3>2, <3>7
    <3> QED BY <3>7, <3>8, <3>9, <3>10 DEF TwoLock!PoppersTrue
  <2> QED BY <2>2, <2>3, <2>4, <2>5, <2>6, <2>7
<1> QED BY <1>3, <1>4, UnlinkTakes

LEMMA ListDelete ==
    ASSUME TwoLock!ListAssumption, TwoLock!IInv, NEW t \in Poppers, TwoLock!Delete(t)
    PROVE  TwoLock!IInv'
<1> USE DEF TwoLock!ListAssumption, TwoLock!IInv, TwoLock!TypeOK
<1>1. /\ list_pc' = [list_pc EXCEPT ![t] = "idle"] /\ node' = [node EXCEPT ![t] = 0]
      /\ list_pc[t] = "delete" /\ deleted' = deleted \cup {node[t]}
      /\ UNCHANGED <<next, head, tail, head_mutex, tail_mutex, pushed, popped>>
  BY DEF TwoLock!Delete, TwoLock!Move
<1>2. TwoLock!TypeOK'
  BY <1>1
<1>3. TwoLock!MutexesHeld'
  BY <1>1 DEF TwoLock!MutexesHeld
<1>4. TwoLock!ListLinked'
  BY <1>1 DEF TwoLock!ListLinked, TwoLock!Chain, TwoLock!Fresh
<1>5. TwoLock!EndsTrue'
  BY <1>1 DEF TwoLock!EndsTrue, TwoLock!Chain
<1>6. TwoLock!PushersTrue'
  BY <1>1 DEF TwoLock!PushersTrue, TwoLock!Fresh, TwoLock!Chain
<1>7. TwoLock!PoppersTrue'
  BY <1>1 DEF TwoLock!PoppersTrue, TwoLock!Chain
<1> QED BY <1>2, <1>3, <1>4, <1>5, <1>6, <1>7

LEMMA ListStep ==
    ASSUME TwoLock!ListAssumption, TwoLock!IInv, [TwoLock!Next]_(TwoLock!vars)
    PROVE  TwoLock!IInv'
<1>1. CASE UNCHANGED TwoLock!vars
  BY <1>1 DEF TwoLock!vars, TwoLock!IInv, TwoLock!TypeOK, TwoLock!MutexesHeld,
     TwoLock!ListLinked, TwoLock!EndsTrue, TwoLock!PushersTrue, TwoLock!PoppersTrue,
     TwoLock!Chain, TwoLock!Fresh
<1> QED
  BY <1>1, ListNewNode, ListLockTail, ListLink, ListAdvance, ListLockHead, ListUnlink,
     ListDelete DEF TwoLock!Next

LEMMA ListNothingDangles ==
    ASSUME TwoLock!ListAssumption, TwoLock!IInv
    PROVE  TwoLock!NoDangling
<1> DEFINE m == Len(popped)
<1>1. /\ m \in 0 .. Len(pushed) /\ Len(pushed) \in Nat /\ head = TwoLock!Chain(m)
      /\ deleted \subseteq {TwoLock!Chain(i) : i \in 0 .. m - 1}
  BY DEF TwoLock!IInv, TwoLock!TypeOK, TwoLock!EndsTrue, TwoLock!PoppersTrue
<1>2. \A k \in m .. Len(pushed) : TwoLock!Chain(k) \notin deleted
  <2>1. ASSUME NEW k \in m .. Len(pushed), NEW i \in 0 .. m - 1
        PROVE  TwoLock!Chain(k) # TwoLock!Chain(i)
    <3>1. k \in 0 .. Len(pushed) /\ i \in 0 .. Len(pushed) /\ i # k
      BY <1>1
    <3> QED BY <3>1, ChainTrue DEF TwoLock!IInv
  <2> QED BY <1>1, <2>1
<1>3. m \in m .. Len(pushed) /\ Len(pushed) \in m .. Len(pushed)
  BY <1>1
<1>4. ASSUME NEW t \in Pushers, list_pc[t] = "link"
      PROVE  tail \notin deleted
  <2>1. tail_mutex = t
    BY <1>4 DEF TwoLock!IInv, TwoLock!MutexesHeld
  <2>2. \A u \in Pushers : list_pc[u] # "advance"
    BY <1>4, <2>1 DEF TwoLock!IInv, TwoLock!MutexesHeld
  <2> QED BY <1>2, <1>3, <2>2 DEF TwoLock!IInv, TwoLock!EndsTrue
<1> QED
  BY <1>1, <1>2, <1>3, <1>4 DEF TwoLock!NoDangling, TwoLock!IInv, TwoLock!PoppersTrue

(* A value a push holds has its place: the values linked are distinct.     *)
LEMMA RoomForFresh ==
    ASSUME TwoLock!ListAssumption, TwoLock!IInv, NEW v, TwoLock!Fresh(v)
    PROVE  Len(pushed) < MaxPush
<1> DEFINE n == Len(pushed)
           place == [i \in 1 .. n + 1 |-> IF i = n + 1 THEN v ELSE pushed[i]]
<1>1. /\ n \in Nat /\ MaxPush \in Nat /\ v \in 1 .. MaxPush
      /\ \A i \in 1 .. n : pushed[i] \in 1 .. MaxPush /\ pushed[i] # v
      /\ \A i, j \in 1 .. n : pushed[i] = pushed[j] => i = j
  BY DEF TwoLock!ListAssumption, TwoLock!IInv, TwoLock!TypeOK, TwoLock!ListLinked,
     TwoLock!Fresh, TwoLock!Values
<1> SUFFICES ASSUME MaxPush < n + 1
             PROVE  FALSE
  BY <1>1
<1>2. \A i \in 1 .. n + 1 : i = n + 1 \/ i \in 1 .. n
  BY <1>1, SMTT(60)
<1>3. place \in [1 .. n + 1 -> 1 .. MaxPush]
  BY <1>1, <1>2
<1>4. /\ IsFiniteSet(1 .. n + 1) /\ Cardinality(1 .. n + 1) = n + 1
      /\ IsFiniteSet(1 .. MaxPush) /\ Cardinality(1 .. MaxPush) = MaxPush
  BY <1>1, FS_Interval
<1>5. \E i, j \in 1 .. n + 1 : i # j /\ place[i] = place[j]
  <2> HIDE DEF place
  <2> QED BY <1>3, <1>4, FS_PigeonHole
<1>6. \A i, j \in 1 .. n + 1 : place[i] = place[j] => i = j
  BY <1>1, <1>2
<1> QED BY <1>5, <1>6

LEMMA ListFifo ==
    ASSUME TwoLock!ListAssumption, TwoLock!IInv, [TwoLock!Next]_(TwoLock!vars)
    PROVE  [TwoLock!Fifo!Next]_<<SubSeq(pushed, Len(popped) + 1, Len(pushed)), popped>>
<1> DEFINE n == Len(pushed)
           m == Len(popped)
           k == m + 1
           items == SubSeq(pushed, k, n)
<1>1. /\ pushed \in Seq(TwoLock!Values) /\ n \in Nat /\ m \in Nat /\ m <= n
      /\ MaxPush \in Nat
  BY DEF TwoLock!ListAssumption, TwoLock!IInv, TwoLock!TypeOK, TwoLock!EndsTrue
<1>2. ASSUME NEW t \in Pushers, TwoLock!Link(t)
      PROVE  TwoLock!Fifo!Next
  <2> DEFINE v == node[t]
  <2>1. /\ TwoLock!Fresh(v) /\ pushed' = Append(pushed, v) /\ popped' = popped
        /\ v \in TwoLock!Values
    BY <1>2 DEF TwoLock!Link, TwoLock!Move, TwoLock!IInv, TwoLock!PushersTrue, TwoLock!Fresh
  <2>2. n < MaxPush
    BY <2>1, RoomForFresh
  <2>3. /\ Len(pushed') = n + 1 /\ m \in 0 .. n
        /\ Len(items) = n - m /\ SubSeq(pushed', k, n + 1) = Append(items, v)
    <3>1. m \in 0 .. n
      BY <1>1
    <3>2. k \in 1 .. Len(pushed) + 1 /\ n + 1 - k = n - m
      BY <1>1
    <3>3. /\ Len(Append(pushed, v)) = n + 1
          /\ Len(items) = n + 1 - k
          /\ SubSeq(Append(pushed, v), k, Len(Append(pushed, v))) = Append(items, v)
      <4> HIDE DEF v, k
      <4> QED BY <1>1, <2>1, <3>2, AppendProperties, AppendBehind
    <3> QED BY <2>1, <3>1, <3>2, <3>3
  <2>4. Len(items) < MaxPush
    BY <1>1, <2>2, <2>3
  <2> HIDE DEF v
  <2> QED
    BY <2>1, <2>3, <2>4 DEF TwoLock!Fifo!Next, TwoLock!Fifo!Push
<1>3. ASSUME NEW t \in Poppers, TwoLock!Unlink(t)
      PROVE  [TwoLock!Fifo!Next]_<<items, popped>>
  <2> DEFINE first == next[node[t]]
  <2>1. CASE first = 0 /\ UNCHANGED <<head, popped>>
    BY <1>3, <2>1, UnlinkTakes
  <2>2. CASE /\ m < n /\ first = pushed[m + 1]
             /\ popped' = Append(popped, first)
    <3>1. m + 1 \in 1 .. n /\ n \in m + 1 .. n
      BY <1>1, <2>2
    <3>2. Head(items) = first /\ Tail(items) = SubSeq(pushed, m + 1 + 1, n)
      BY <1>1, <2>2, <3>1, HeadTailOfSubSeq
    <3>3. Len(popped') = m + 1 /\ pushed' = pushed
      BY <1>3, <2>2, UnlinkTakes DEF TwoLock!IInv, TwoLock!TypeOK
    <3>4. items # << >>
      <4>1. Len(items) = n - m
        BY <1>1, <3>1
      <4>2. Len(items) # 0
        BY <1>1, <2>2, <4>1
      <4> HIDE DEF items
      <4> QED BY <4>2, EmptySeq
    <3> QED
      BY <2>2, <3>2, <3>3, <3>4 DEF TwoLock!Fifo!Next, TwoLock!Fifo!Pop
  <2> QED BY <1>3, <2>1, <2>2, UnlinkTakes
<1>4. ASSUME UNCHANGED <<pushed, popped>>
      PROVE  UNCHANGED <<items, popped>>
  BY <1>4
<1> QED
  BY <1>2, <1>3, <1>4
  DEF TwoLock!Next, TwoLock!vars, TwoLock!NewNode, TwoLock!LockTail, TwoLock!Advance,
      TwoLock!LockHead, TwoLock!Delete

-----------------------------------------------------------------------------
(* LockFreeQueue: LockFree.                                                *)

LEMMA FreeInit == ASSUME LockFree!RingAssumption PROVE LockFree!Init => LockFree!IInv
BY DEF LockFree!RingAssumption, LockFree!Init, LockFree!IInv, LockFree!TypeOK,
   LockFree!IndicesOrdered, LockFree!ClaimsTrue, LockFree!Claimed, LockFree!LoadsCautious,
   LockFree!SizeTrue, LockFree!SlotsTrue, LockFree!Threads, LockFree!Values

(* A call that begins, gives up or begins again claims nothing.            *)
LEMMA FreeMoves ==
    ASSUME LockFree!RingAssumption, LockFree!IInv,
           NEW t \in LockFree!Threads, NEW w \in {"idle", "load"},
           pc' = [pc EXCEPT ![t] = w],
           UNCHANGED <<pool, write_index, write_end_index, read_index, read_end_index,
                       written, taken>>,
           calls' \in 0 .. MaxPush,
           loaded' \in [LockFree!Threads -> Nat], size' \in [LockFree!Threads -> Int],
           left' \in [LockFree!Threads -> Int],
           held' \in [LockFree!Threads -> LockFree!Values \cup {Garbage}],
           \A u \in LockFree!Threads : u # t =>
              loaded'[u] = loaded[u] /\ size'[u] = size[u] /\ held'[u] = held[u],
           t \in Pushers /\ w = "load" => held'[t] \in LockFree!Values
    PROVE  LockFree!IInv'
<1> USE DEF LockFree!RingAssumption, LockFree!IInv, LockFree!TypeOK
<1>1. /\ pc'[t] = w /\ \A u \in LockFree!Threads : u # t => pc'[u] = pc[u]
      /\ \A u \in Pushers : u \in LockFree!Threads /\ u \notin Poppers
      /\ \A u \in Poppers : u \in LockFree!Threads
  BY DEF LockFree!Threads
<1>2. LockFree!TypeOK'
  BY <1>1
<1>3. LockFree!IndicesOrdered'
  BY DEF LockFree!IndicesOrdered
<1>4. LockFree!ClaimsTrue'
  <2>1. \A u \in LockFree!Threads :
           LockFree!Claimed(u)' => LockFree!Claimed(u) /\ loaded'[u] = loaded[u]
    BY <1>1 DEF LockFree!Claimed
  <2> QED BY <1>1, <2>1 DEF LockFree!ClaimsTrue
<1>5. LockFree!LoadsCautious'
  BY <1>1 DEF LockFree!LoadsCautious
<1>6. LockFree!SizeTrue'
  BY <1>1 DEF LockFree!SizeTrue
<1>7. LockFree!SlotsTrue'
  BY <1>1, ZenonT(60) DEF LockFree!SlotsTrue, LockFree!Offset
<1> QED BY <1>2, <1>3, <1>4, <1>5, <1>6, <1>7

LEMMA FreePushPop ==
    ASSUME LockFree!RingAssumption, LockFree!IInv, NEW t,
           (t \in Pushers /\ LockFree!Push(t)) \/ (t \in Poppers /\ LockFree!Pop(t))
    PROVE  LockFree!IInv'
<1> USE DEF LockFree!RingAssumption, LockFree!IInv, LockFree!TypeOK
<1>1. /\ t \in LockFree!Threads /\ pc' = [pc EXCEPT ![t] = "load"]
      /\ UNCHANGED <<pool, write_index, write_end_index, read_index, read_end_index,
                     loaded, size, written, taken>>
      /\ left' = [left EXCEPT ![t] = IF t \in Patient THEN -1 ELSE Attempts]
  BY DEF LockFree!Push, LockFree!Pop, LockFree!Enter, LockFree!Threads, LockFree!indexVars
<1>2. left' \in [LockFree!Threads -> Int]
  BY <1>1
<1>3. CASE t \in Pushers /\ LockFree!Push(t)
  <2>1. /\ calls' \in 0 .. MaxPush /\ calls + 1 \in 1 .. MaxPush
        /\ held' = [held EXCEPT ![t] = calls + 1]
    BY <1>3 DEF LockFree!Push
  <2>2. /\ held' \in [LockFree!Threads -> LockFree!Values \cup {Garbage}]
        /\ held'[t] \in LockFree!Values
        /\ \A u \in LockFree!Threads : u # t => held'[u] = held[u]
    BY <1>1, <2>1 DEF LockFree!Values
  <2> QED BY <1>1, <1>2, <2>1, <2>2, FreeMoves
<1>4. CASE t \in Poppers /\ LockFree!Pop(t)
  <2>1. t \notin Pushers /\ UNCHANGED <<held, calls>>
    BY <1>4 DEF LockFree!Pop
  <2> QED BY <1>1, <1>2, <2>1, FreeMoves
<1> QED BY <1>3, <1>4

LEMMA FreeGivesUp ==
    ASSUME LockFree!RingAssumption, LockFree!IInv, NEW t \in LockFree!Threads,
           LockFree!GiveUp(t), pc[t] # "idle",
           UNCHANGED <<pool, write_index, write_end_index, read_index, read_end_index,
                       written, taken, calls>>
    PROVE  LockFree!IInv'
<1> USE DEF LockFree!RingAssumption, LockFree!IInv, LockFree!TypeOK
<1>1. /\ loaded' = [loaded EXCEPT ![t] = 0] /\ size' = [size EXCEPT ![t] = 0]
  BY DEF LockFree!GiveUp, LockFree!Return
<1>2. /\ loaded' \in [LockFree!Threads -> Nat] /\ size' \in [LockFree!Threads -> Int]
      /\ \A u \in LockFree!Threads : u # t => loaded'[u] = loaded[u] /\ size'[u] = size[u]
  BY <1>1
<1>3. CASE left[t] = 1
  <2>1. /\ pc' = [pc EXCEPT ![t] = "idle"] /\ left' = [left EXCEPT ![t] = 0]
        /\ held' = [held EXCEPT ![t] = Garbage]
    BY <1>3 DEF LockFree!GiveUp, LockFree!Return
  <2>2. /\ held' \in [LockFree!Threads -> LockFree!Values \cup {Garbage}]
        /\ left' \in [LockFree!Threads -> Int]
        /\ \A u \in LockFree!Threads : u # t => held'[u] = held[u]
    BY <2>1
  <2> QED BY <1>2, <2>1, <2>2, FreeMoves
<1>4. CASE left[t] # 1
  <2>1. /\ pc' = [pc EXCEPT ![t] = "load"] /\ held' = held
        /\ left' = [left EXCEPT ![t] = IF @ = -1 THEN -1 ELSE @ - 1]
    BY <1>4 DEF LockFree!GiveUp
  <2>2. left' \in [LockFree!Threads -> Int]
    BY <2>1
  <2>3. t \in Pushers => held[t] \in LockFree!Values
    BY DEF LockFree!SlotsTrue
  <2> QED BY <1>2, <2>1, <2>2, <2>3, FreeMoves
<1> QED BY <1>3, <1>4

LEMMA FreeLoadFirst ==
    ASSUME LockFree!RingAssumption, LockFree!IInv, NEW t \in LockFree!Threads,
           LockFree!LoadFirst(t)
    PROVE  LockFree!IInv'
<1> USE DEF LockFree!RingAssumption, LockFree!IInv, LockFree!TypeOK
<1>1. /\ pc' = [pc EXCEPT ![t] = "compare"] /\ pc[t] = "load"
      /\ loaded' = [loaded EXCEPT ![t] = IF t \in Pushers THEN write_index ELSE write_end_index]
      /\ UNCHANGED <<pool, write_index, write_end_index, read_index, read_end_index, size, left,
                     held, written, taken, calls>>
  BY DEF LockFree!LoadFirst, LockFree!indexVars
<1>2. /\ pc'[t] = "compare" /\ \A u \in LockFree!Threads : u # t => pc'[u] = pc[u]
      /\ loaded'[t] = IF t \in Pushers THEN write_index ELSE write_end_index
      /\ \A u \in LockFree!Threads : u # t => loaded'[u] = loaded[u]
      /\ \A u \in Pushers : u \in LockFree!Threads /\ u \notin Poppers
      /\ \A u \in Poppers : u \in LockFree!Threads
  BY <1>1 DEF LockFree!Threads
<1>3. LockFree!TypeOK'
  BY <1>1
<1>4. LockFree!IndicesOrdered'
  BY <1>1 DEF LockFree!IndicesOrdered
<1>5. LockFree!ClaimsTrue'
  BY <1>1, <1>2, SMTT(60) DEF LockFree!ClaimsTrue, LockFree!Claimed
<1>6. LockFree!LoadsCautious'
  BY <1>1, <1>2 DEF LockFree!LoadsCautious
<1>7. LockFree!SizeTrue'
  BY <1>1, <1>2 DEF LockFree!SizeTrue
<1>8. LockFree!SlotsTrue'
  BY <1>1, <1>2 DEF LockFree!SlotsTrue, LockFree!Offset
<1> QED BY <1>3, <1>4, <1>5, <1>6, <1>7, <1>8

LEMMA FreeLoadSecond ==
    ASSUME LockFree!RingAssumption, LockFree!IInv, NEW t \in LockFree!Threads,
           LockFree!LoadSecond(t)
    PROVE  LockFree!IInv'
<1> USE DEF LockFree!RingAssumption, LockFree!IInv, LockFree!TypeOK
<1> DEFINE filled == loaded[t] - IF t \in Pushers THEN read_end_index ELSE read_index
           fits == IF t \in Pushers THEN filled < Capacity ELSE filled > 0
<1>1. /\ pc[t] = "compare" /\ filled \in Int
      /\ UNCHANGED <<pool, write_index, write_end_index, read_index, read_end_index,
                     written, taken, calls>>
  BY DEF LockFree!LoadSecond, LockFree!indexVars
<1>2. CASE ~fits
  BY <1>1, <1>2, FreeGivesUp DEF LockFree!LoadSecond
<1>3. CASE fits
  <2>1. /\ pc' = [pc EXCEPT ![t] = "claim"] /\ size' = [size EXCEPT ![t] = filled]
        /\ loaded' = [loaded EXCEPT ![t] = IF t \in Pushers THEN @ ELSE read_index]
        /\ UNCHANGED <<left, held>>
    BY <1>3 DEF LockFree!LoadSecond
  <2>2. /\ pc'[t] = "claim" /\ \A u \in LockFree!Threads : u # t => pc'[u] = pc[u]
        /\ size'[t] = filled /\ \A u \in LockFree!Threads : u # t => size'[u] = size[u]
        /\ loaded'[t] = IF t \in Pushers THEN loaded[t] ELSE read_index
        /\ \A u \in LockFree!Threads : u # t => loaded'[u] = loaded[u]
        /\ \A u \in Pushers : u \in LockFree!Threads /\ u \notin Poppers
        /\ \A u \in Poppers : u \in LockFree!Threads
    BY <1>1, <2>1 DEF LockFree!Threads
  <2>3. LockFree!TypeOK'
    BY <1>1, <2>1
  <2>4. LockFree!IndicesOrdered'
    BY <1>1 DEF LockFree!IndicesOrdered
  <2>5. LockFree!ClaimsTrue'
    <3>1. \A u \in LockFree!Threads :
             LockFree!Claimed(u)' => LockFree!Claimed(u) /\ loaded'[u] = loaded[u]
      BY <2>2 DEF LockFree!Claimed
    <3> QED BY <1>1, <2>2, <3>1 DEF LockFree!ClaimsTrue
  <2>6. LockFree!LoadsCautious'
    <3>1. ASSUME NEW u \in Pushers
          PROVE  /\ pc'[u] \in {"compare", "claim"} => loaded'[u] <= write_index'
                 /\ pc'[u] = "claim" => /\ size'[u] < Capacity
                                        /\ loaded'[u] - size'[u] <= read_end_index'
      <4>1. CASE u = t
        BY <1>1, <1>3, <2>2, <4>1 DEF LockFree!LoadsCautious
      <4>2. CASE u # t
        BY <1>1, <2>2, <4>2 DEF LockFree!LoadsCautious
      <4> QED BY <4>1, <4>2
    <3>2. ASSUME NEW u \in Poppers
          PROVE  /\ pc'[u] = "compare" => loaded'[u] <= write_end_index'
                 /\ pc'[u] = "claim" => /\ size'[u] > 0 /\ loaded'[u] <= read_index'
                                        /\ loaded'[u] + size'[u] <= write_end_index'
      <4>1. CASE u = t
        BY <1>1, <1>3, <2>2, <4>1, SMTT(60) DEF LockFree!LoadsCautious
      <4>2. CASE u # t
        BY <1>1, <2>2, <4>2 DEF LockFree!LoadsCautious
      <4> QED BY <4>1, <4>2
    <3> QED BY <3>1, <3>2 DEF LockFree!LoadsCautious
  <2>7. LockFree!SizeTrue'
    BY <2>2 DEF LockFree!SizeTrue
  <2>8. LockFree!SlotsTrue'
    BY <1>1, <2>1, <2>2 DEF LockFree!SlotsTrue, LockFree!Offset
  <2> QED BY <2>3, <2>4, <2>5, <2>6, <2>7, <2>8
<1> QED BY <1>2, <1>3

LEMMA FreeClaim ==
    ASSUME LockFree!RingAssumption, LockFree!IInv, NEW t \in LockFree!Threads,
           LockFree!Claim(t)
    PROVE  LockFree!IInv'
<1> USE DEF LockFree!RingAssumption, LockFree!IInv, LockFree!TypeOK
<1>1. /\ pc[t] = "claim"
      /\ UNCHANGED <<pool, write_end_index, read_end_index, written, taken, calls>>
      /\ \A u \in Pushers : u \in LockFree!Threads /\ u \notin Poppers
      /\ \A u \in Poppers : u \in LockFree!Threads
  BY DEF LockFree!Claim, LockFree!Threads
<1>2. CASE loaded[t] # IF t \in Pushers THEN write_index ELSE read_index
  BY <1>1, <1>2, FreeGivesUp DEF LockFree!Claim
<1>3. ASSUME pc' = [pc EXCEPT ![t] = "copy"], UNCHANGED <<loaded, size, left, held>>
      PROVE  /\ pc'[t] = "copy" /\ \A u \in LockFree!Threads : u # t => pc'[u] = pc[u]
             /\ LockFree!SlotsTrue' /\ pc' \in [LockFree!Threads ->
                    {"idle", "load", "compare", "claim", "copy", "release"}]
  BY <1>1, <1>3 DEF LockFree!SlotsTrue, LockFree!Offset
<1>4. CASE t \in Pushers /\ write_index = loaded[t]
  <2>1. /\ write_index' = write_index + 1 /\ pc' = [pc EXCEPT ![t] = "copy"]
        /\ UNCHANGED <<loaded, size, left, held, read_index>>
    BY <1>1, <1>4 DEF LockFree!Claim, LockFree!localVars
  <2>2. /\ pc'[t] = "copy" /\ \A u \in LockFree!Threads : u # t => pc'[u] = pc[u]
        /\ LockFree!SlotsTrue' /\ LockFree!TypeOK'
    BY <1>1, <1>3, <2>1
  <2>3. /\ size[t] < Capacity /\ loaded[t] - size[t] <= read_end_index
        /\ size[t] \in Int /\ loaded[t] \in Nat
    BY <1>1, <1>4 DEF LockFree!LoadsCautious
  <2>4. size[t] \in 0 .. Capacity - 1 /\ write_index' <= read_end_index + Capacity
    BY <1>4, <2>1, <2>3 DEF LockFree!IndicesOrdered
  <2>5. LockFree!IndicesOrdered'
    BY <1>1, <2>1, <2>4 DEF LockFree!IndicesOrdered
  <2>6. LockFree!ClaimsTrue'
    <3>1. \A u \in Pushers : LockFree!Claimed(u) => loaded[u] < write_index
      BY DEF LockFree!ClaimsTrue
    <3> QED
      BY <1>1, <1>4, <2>1, <2>2, <3>1, SMTT(60)
      DEF LockFree!ClaimsTrue, LockFree!Claimed, LockFree!IndicesOrdered
  <2>7. LockFree!LoadsCautious'
    <3>1. \A u \in LockFree!Threads : pc'[u] \in {"compare", "claim"} => pc'[u] = pc[u]
      BY <2>2
    <3> QED BY <1>1, <2>1, <3>1, SMTT(60) DEF LockFree!LoadsCautious
  <2>8. LockFree!SizeTrue'
    BY <1>1, <1>4, <2>1, <2>2, <2>4 DEF LockFree!SizeTrue
  <2> QED BY <2>2, <2>5, <2>6, <2>7, <2>8
<1>5. CASE t \in Poppers /\ t \notin Pushers /\ read_index = loaded[t]
  <2>1. /\ read_index' = read_index + 1 /\ pc' = [pc EXCEPT ![t] = "copy"]
        /\ UNCHANGED <<loaded, size, left, held, write_index>>
    BY <1>1, <1>5 DEF LockFree!Claim, LockFree!localVars
  <2>2. /\ pc'[t] = "copy" /\ \A u \in LockFree!Threads : u # t => pc'[u] = pc[u]
        /\ LockFree!SlotsTrue' /\ LockFree!TypeOK'
    BY <1>1, <1>3, <2>1
  <2>3. /\ size[t] > 0 /\ loaded[t] + size[t] <= write_end_index
        /\ size[t] \in Int /\ loaded[t] \in Nat
    BY <1>1, <1>5 DEF LockFree!LoadsCautious
  <2>4. size[t] \in 1 .. Capacity /\ read_index' <= write_end_index
    BY <1>5, <2>1, <2>3 DEF LockFree!IndicesOrdered
  <2>5. LockFree!IndicesOrdered'
    BY <1>1, <2>1, <2>4 DEF LockFree!IndicesOrdered
  <2>6. LockFree!ClaimsTrue'
    <3>1. \A u \in Poppers : LockFree!Claimed(u) => loaded[u] < read_index
      BY DEF LockFree!ClaimsTrue
    <3> QED
      BY <1>1, <1>5, <2>1, <2>2, <3>1, SMTT(60)
      DEF LockFree!ClaimsTrue, LockFree!Claimed, LockFree!IndicesOrdered
  <2>7. LockFree!LoadsCautious'
    BY <1>1, <1>5, <2>1, <2>2 DEF LockFree!LoadsCautious
  <2>8. LockFree!SizeTrue'
    BY <1>1, <1>5, <2>1, <2>2, <2>4 DEF LockFree!SizeTrue
  <2> QED BY <2>2, <2>5, <2>6, <2>7, <2>8
<1> QED BY <1>1, <1>2, <1>4, <1>5 DEF LockFree!Threads

(* Two indices less than a ring apart have slots of their own.             *)
LEMMA FreeSlotsDiffer ==
    ASSUME NEW i \in Nat, NEW j \in Nat, i < j, j < i + Capacity
    PROVE  LockFree!Offset(i) # LockFree!Offset(j)
BY SlotsDiffer DEF LockFree!Offset, SlotOf

LEMMA FreeCopy ==
    ASSUME LockFree!RingAssumption, LockFree!IInv, NEW t \in LockFree!Threads,
           LockFree!Copy(t)
    PROVE  LockFree!IInv'
<1> USE DEF LockFree!RingAssumption, LockFree!IInv, LockFree!TypeOK
<1>1. /\ pc[t] = "copy" /\ pc' = [pc EXCEPT ![t] = "release"]
      /\ UNCHANGED <<write_index, write_end_index, read_index, read_end_index,
                     loaded, size, left, written, taken, calls>>
      /\ \A u \in Pushers : u \in LockFree!Threads /\ u \notin Poppers
      /\ \A u \in Poppers : u \in LockFree!Threads
  BY DEF LockFree!Copy, LockFree!Threads, LockFree!indexVars
<1>2. /\ pc'[t] = "release" /\ \A u \in LockFree!Threads : u # t => pc'[u] = pc[u]
      /\ pc' \in [LockFree!Threads ->
                    {"idle", "load", "compare", "claim", "copy", "release"}]
      /\ loaded[t] \in Nat /\ LockFree!Offset(loaded[t]) \in 0 .. Capacity - 1
  BY <1>1 DEF LockFree!Offset
<1>3. LockFree!IndicesOrdered' /\ LockFree!ClaimsTrue' /\ LockFree!LoadsCautious'
      /\ LockFree!SizeTrue'
  <2>1. LockFree!IndicesOrdered'
    BY <1>1 DEF LockFree!IndicesOrdered
  <2>2. LockFree!ClaimsTrue'
    BY <1>1, <1>2, SMTT(60) DEF LockFree!ClaimsTrue, LockFree!Claimed
  <2>3. LockFree!LoadsCautious'
    BY <1>1, <1>2 DEF LockFree!LoadsCautious
  <2>4. LockFree!SizeTrue'
    BY <1>1, <1>2 DEF LockFree!SizeTrue
  <2> QED BY <2>1, <2>2, <2>3, <2>4
<1>4. CASE t \in Pushers
  <2>1. /\ pool' = [pool EXCEPT ![LockFree!Offset(loaded[t])] = held[t]] /\ held' = held
        /\ held[t] \in LockFree!Values
    BY <1>1, <1>4 DEF LockFree!Copy, LockFree!SlotsTrue
  <2>2. LockFree!TypeOK'
    BY <1>1, <1>2, <2>1
  <2>3. write_end_index <= loaded[t] /\ loaded[t] < read_end_index + Capacity
    BY <1>1, <1>4 DEF LockFree!ClaimsTrue, LockFree!Claimed, LockFree!IndicesOrdered
  <2>4. ASSUME NEW i \in read_end_index .. write_end_index - 1
        PROVE  pool'[LockFree!Offset(i)] = written'[i + 1]
    <3>1. i \in Nat /\ i < loaded[t] /\ loaded[t] < i + Capacity
      BY <1>2, <2>3
    <3>2. LockFree!Offset(i) # LockFree!Offset(loaded[t])
          /\ LockFree!Offset(i) \in 0 .. Capacity - 1
      <4>1. LockFree!Offset(i) # LockFree!Offset(loaded[t])
        BY <1>2, <3>1, FreeSlotsDiffer
      <4> QED BY <3>1, <4>1 DEF LockFree!Offset
    <3> QED BY <1>1, <2>1, <3>2 DEF LockFree!SlotsTrue
  <2>5. ASSUME NEW u \in Pushers, u # t, pc[u] = "release"
        PROVE  pool'[LockFree!Offset(loaded[u])] = held[u]
    <3>1. /\ loaded[u] \in Nat /\ loaded[u] # loaded[t]
          /\ write_end_index <= loaded[u] /\ loaded[u] < write_index
          /\ loaded[t] < write_index
      BY <1>1, <1>4, <2>5 DEF LockFree!ClaimsTrue, LockFree!Claimed
    <3>2. /\ loaded[t] < loaded[u] => loaded[u] < loaded[t] + Capacity
          /\ loaded[u] < loaded[t] => loaded[t] < loaded[u] + Capacity
          /\ loaded[t] < loaded[u] \/ loaded[u] < loaded[t]
      BY <1>2, <2>3, <3>1, SMTT(60) DEF LockFree!IndicesOrdered
    <3>3. LockFree!Offset(loaded[u]) # LockFree!Offset(loaded[t])
          /\ LockFree!Offset(loaded[u]) \in 0 .. Capacity - 1
      <4>1. LockFree!Offset(loaded[u]) # LockFree!Offset(loaded[t])
        <5>1. \A i, j \in Nat : i < j /\ j < i + Capacity =>
                 LockFree!Offset(i) # LockFree!Offset(j)
          BY FreeSlotsDiffer
        <5> QED BY <1>2, <3>1, <3>2, <5>1
      <4> QED BY <3>1, <4>1, SMTT(60) DEF LockFree!Offset
    <3> QED BY <2>1, <2>5, <3>3 DEF LockFree!SlotsTrue
  <2>6. pool'[LockFree!Offset(loaded[t])] = held[t]
    BY <1>2, <2>1
  <2>7. LockFree!SlotsTrue'
    BY <1>1, <1>2, <1>4, <2>1, <2>4, <2>5, <2>6 DEF LockFree!SlotsTrue, LockFree!Offset
  <2> QED BY <1>3, <2>2, <2>7
<1>5. CASE t \in Poppers /\ t \notin Pushers
  <2>1. /\ held' = [held EXCEPT ![t] = pool[LockFree!Offset(loaded[t])]] /\ pool' = pool
    BY <1>1, <1>5 DEF LockFree!Copy
  <2>2. loaded[t] \in read_end_index .. write_end_index - 1
    BY <1>1, <1>2, <1>5 DEF LockFree!ClaimsTrue, LockFree!Claimed, LockFree!IndicesOrdered
  <2>3. held'[t] = written[loaded[t] + 1]
        /\ \A u \in LockFree!Threads : u # t => held'[u] = held[u]
    BY <2>1, <2>2 DEF LockFree!SlotsTrue
  <2>4. LockFree!TypeOK'
    BY <1>1, <1>2, <2>1
  <2>5. LockFree!SlotsTrue'
    BY <1>1, <1>2, <1>5, <2>1, <2>3 DEF LockFree!SlotsTrue, LockFree!Offset
  <2> QED BY <1>3, <2>4, <2>5
<1> QED BY <1>4, <1>5 DEF LockFree!Threads

(* The thread whose turn it is gives its index back.                       *)
LEMMA ReleaseTakesTurn ==
    ASSUME LockFree!RingAssumption, LockFree!IInv, NEW t \in LockFree!Threads,
           LockFree!Release(t)
    PROVE  /\ pc[t] = "release" /\ pc' = [pc EXCEPT ![t] = "idle"]
           /\ loaded' = [loaded EXCEPT ![t] = 0] /\ size' = [size EXCEPT ![t] = 0]
           /\ left' = [left EXCEPT ![t] = 0] /\ held' = [held EXCEPT ![t] = Garbage]
           /\ UNCHANGED <<pool, write_index, read_index, calls>>
           /\ \/ /\ t \in Pushers /\ write_end_index = loaded[t]
                 /\ write_end_index < write_index /\ held[t] \in LockFree!Values
                 /\ pool[LockFree!Offset(write_end_index)] = held[t]
                 /\ write_end_index' = write_end_index + 1
                 /\ written' = Append(written, held[t])
                 /\ UNCHANGED <<read_end_index, taken>>
              \/ /\ t \in Poppers /\ t \notin Pushers /\ read_end_index = loaded[t]
                 /\ read_end_index < read_index
                 /\ held[t] = written[read_end_index + 1] /\ held[t] \in LockFree!Values
                 /\ read_end_index' = read_end_index + 1
                 /\ taken' = Append(taken, held[t])
                 /\ UNCHANGED <<write_end_index, written>>
<1>1. CASE t \in Pushers
  <2>1. t \notin Poppers
    BY <1>1 DEF LockFree!RingAssumption
  <2>2. pc[t] = "release" /\ write_end_index = loaded[t]
    BY <2>1 DEF LockFree!Release
  <2>3. /\ write_end_index < write_index /\ held[t] \in LockFree!Values
        /\ pool[LockFree!Offset(write_end_index)] = held[t]
    BY <1>1, <2>2 DEF LockFree!IInv, LockFree!ClaimsTrue, LockFree!Claimed, LockFree!SlotsTrue
  <2> QED BY <1>1, <2>1, <2>2, <2>3 DEF LockFree!Release, LockFree!Return
<1>2. CASE t \in Poppers /\ t \notin Pushers
  <2>1. pc[t] = "release" /\ read_end_index = loaded[t]
    BY <1>2 DEF LockFree!Release
  <2>2. /\ read_end_index < read_index /\ held[t] = written[read_end_index + 1]
    BY <1>2, <2>1 DEF LockFree!IInv, LockFree!ClaimsTrue, LockFree!Claimed, LockFree!SlotsTrue
  <2>3. held[t] \in LockFree!Values
    <3>1. read_end_index + 1 \in 1 .. Len(written)
      BY <2>2 DEF LockFree!IInv, LockFree!TypeOK, LockFree!IndicesOrdered
    <3> QED BY <2>2, <3>1 DEF LockFree!IInv, LockFree!TypeOK
  <2> QED BY <1>2, <2>1, <2>2, <2>3 DEF LockFree!Release, LockFree!Return
<1> QED BY <1>1, <1>2 DEF LockFree!Threads

LEMMA FreeRelease ==
    ASSUME LockFree!RingAssumption, LockFree!IInv, NEW t \in LockFree!Threads,
           LockFree!Release(t)
    PROVE  LockFree!IInv'
<1> USE DEF LockFree!RingAssumption, LockFree!IInv, LockFree!TypeOK
<1>1. /\ pc[t] = "release" /\ pc' = [pc EXCEPT ![t] = "idle"]
      /\ loaded' = [loaded EXCEPT ![t] = 0] /\ size' = [size EXCEPT ![t] = 0]
      /\ left' = [left EXCEPT ![t] = 0] /\ held' = [held EXCEPT ![t] = Garbage]
      /\ UNCHANGED <<pool, write_index, read_index, calls>>
      /\ \A u \in Pushers : u \in LockFree!Threads /\ u \notin Poppers
      /\ \A u \in Poppers : u \in LockFree!Threads
  BY ReleaseTakesTurn DEF LockFree!Threads
<1>2. /\ pc'[t] = "idle"
      /\ \A u \in LockFree!Threads : u # t =>
            /\ pc'[u] = pc[u] /\ loaded'[u] = loaded[u]
            /\ size'[u] = size[u] /\ held'[u] = held[u]
      /\ \A u \in LockFree!Threads :
            pc'[u] # "idle" => u # t /\ pc'[u] = pc[u] /\ loaded'[u] = loaded[u]
                               /\ size'[u] = size[u] /\ held'[u] = held[u]
      /\ \A u \in LockFree!Threads : LockFree!Claimed(u)' => LockFree!Claimed(u) /\ u # t
  BY <1>1 DEF LockFree!Claimed
<1>3. /\ pc' \in [LockFree!Threads ->
                    {"idle", "load", "compare", "claim", "copy", "release"}]
      /\ loaded' \in [LockFree!Threads -> Nat] /\ size' \in [LockFree!Threads -> Int]
      /\ left' \in [LockFree!Threads -> Int]
      /\ held' \in [LockFree!Threads -> LockFree!Values \cup {Garbage}]
  BY <1>1
<1>4. LockFree!SizeTrue'
  BY <1>2 DEF LockFree!SizeTrue
<1>5. ASSUME /\ t \in Pushers /\ write_end_index = loaded[t]
             /\ write_end_index < write_index /\ held[t] \in LockFree!Values
             /\ pool[LockFree!Offset(write_end_index)] = held[t]
             /\ write_end_index' = write_end_index + 1
             /\ written' = Append(written, held[t])
             /\ UNCHANGED <<read_end_index, taken>>
      PROVE  LockFree!IInv'
  <2>1. /\ Len(written') = write_end_index + 1
        /\ written'[write_end_index + 1] = held[t]
        /\ \A i \in 1 .. write_end_index : written'[i] = written[i]
        /\ written' \in Seq(LockFree!Values)
    BY <1>5 DEF LockFree!IndicesOrdered
  <2>2. LockFree!TypeOK'
    BY <1>1, <1>3, <1>5, <2>1
  <2>3. LockFree!IndicesOrdered'
    BY <1>1, <1>5, <2>1 DEF LockFree!IndicesOrdered
  <2>4. LockFree!ClaimsTrue'
    <3>1. \A u \in Pushers : LockFree!Claimed(u)' => loaded[u] # loaded[t]
      BY <1>1, <1>2, <1>5 DEF LockFree!ClaimsTrue, LockFree!Claimed
    <3>2. ASSUME NEW u \in Pushers, LockFree!Claimed(u)'
          PROVE  /\ write_end_index' <= loaded'[u] /\ loaded'[u] < write_index'
                 /\ \A v \in Pushers : LockFree!Claimed(v)' /\ loaded'[v] = loaded'[u] => v = u
      <4>1. /\ u \in LockFree!Threads /\ LockFree!Claimed(u) /\ loaded'[u] = loaded[u]
            /\ loaded[u] \in Nat /\ loaded[u] # write_end_index
        BY <1>1, <1>2, <1>5, <3>1, <3>2
      <4> QED BY <1>1, <1>2, <1>5, <4>1 DEF LockFree!ClaimsTrue
    <3>3. ASSUME NEW u \in Poppers, LockFree!Claimed(u)'
          PROVE  /\ read_end_index' <= loaded'[u] /\ loaded'[u] < read_index'
                 /\ \A v \in Poppers : LockFree!Claimed(v)' /\ loaded'[v] = loaded'[u] => v = u
      BY <1>1, <1>2, <1>5, <3>3 DEF LockFree!ClaimsTrue
    <3> QED BY <3>2, <3>3 DEF LockFree!ClaimsTrue
  <2>5. LockFree!LoadsCautious'
    BY <1>1, <1>2, <1>5 DEF LockFree!LoadsCautious
  <2>6. LockFree!SlotsTrue'
    <3>1. ASSUME NEW i \in read_end_index' .. write_end_index' - 1
          PROVE  pool'[LockFree!Offset(i)] = written'[i + 1]
      <4>1. CASE i = write_end_index
        BY <1>1, <1>5, <2>1, <4>1
      <4>2. CASE i # write_end_index
        <5>1. i \in read_end_index .. write_end_index - 1 /\ i + 1 \in 1 .. write_end_index
          BY <1>5, <4>2
        <5> QED BY <1>1, <2>1, <5>1 DEF LockFree!SlotsTrue
      <4> QED BY <4>1, <4>2
    <3>2. \A u \in Pushers :
             /\ pc'[u] # "idle" => held'[u] \in LockFree!Values
             /\ pc'[u] = "release" => pool'[LockFree!Offset(loaded'[u])] = held'[u]
      BY <1>1, <1>2 DEF LockFree!SlotsTrue
    <3>3. ASSUME NEW u \in Poppers, pc'[u] = "release"
          PROVE  held'[u] = written'[loaded'[u] + 1]
      <4>1. /\ u \in LockFree!Threads /\ pc[u] = "release" /\ loaded'[u] = loaded[u]
            /\ held'[u] = held[u] /\ loaded[u] \in Nat
        BY <1>1, <1>2, <3>3
      <4>2. loaded[u] + 1 \in 1 .. write_end_index
        BY <4>1 DEF LockFree!ClaimsTrue, LockFree!Claimed, LockFree!IndicesOrdered
      <4> QED BY <2>1, <4>1, <4>2 DEF LockFree!SlotsTrue
    <3>4. \A i : LockFree!Offset(i)' = LockFree!Offset(i)
      BY DEF LockFree!Offset
    <3> QED BY <3>1, <3>2, <3>3, <3>4 DEF LockFree!SlotsTrue, LockFree!Values
  <2> QED BY <1>4, <2>2, <2>3, <2>4, <2>5, <2>6
<1>6. ASSUME /\ t \in Poppers /\ t \notin Pushers /\ read_end_index = loaded[t]
             /\ read_end_index < read_index
             /\ held[t] = written[read_end_index + 1] /\ held[t] \in LockFree!Values
             /\ read_end_index' = read_end_index + 1
             /\ taken' = Append(taken, held[t])
             /\ UNCHANGED <<write_end_index, written>>
      PROVE  LockFree!IInv'
  <2>1. Len(taken') = read_end_index + 1 /\ taken' \in Seq(LockFree!Values)
    BY <1>6 DEF LockFree!IndicesOrdered
  <2>2. LockFree!TypeOK'
    BY <1>1, <1>3, <1>6, <2>1
  <2>3. LockFree!IndicesOrdered'
    BY <1>1, <1>6, <2>1 DEF LockFree!IndicesOrdered
  <2>4. LockFree!ClaimsTrue'
    <3>1. \A u \in Poppers : LockFree!Claimed(u)' => loaded[u] # loaded[t]
      BY <1>1, <1>2, <1>6 DEF LockFree!ClaimsTrue, LockFree!Claimed
    <3>2. ASSUME NEW u \in Poppers, LockFree!Claimed(u)'
          PROVE  /\ read_end_index' <= loaded'[u] /\ loaded'[u] < read_index'
                 /\ \A v \in Poppers : LockFree!Claimed(v)' /\ loaded'[v] = loaded'[u] => v = u
      <4>1. /\ u \in LockFree!Threads /\ LockFree!Claimed(u) /\ loaded'[u] = loaded[u]
            /\ loaded[u] \in Nat /\ loaded[u] # read_end_index
        BY <1>1, <1>2, <1>6, <3>1, <3>2
      <4> QED BY <1>1, <1>2, <1>6, <4>1 DEF LockFree!ClaimsTrue
    <3>3. ASSUME NEW u \in Pushers, LockFree!Claimed(u)'
          PROVE  /\ write_end_index' <= loaded'[u] /\ loaded'[u] < write_index'
                 /\ \A v \in Pushers : LockFree!Claimed(v)' /\ loaded'[v] = loaded'[u] => v = u
      BY <1>1, <1>2, <1>6, <3>3 DEF LockFree!ClaimsTrue
    <3> QED BY <3>2, <3>3 DEF LockFree!ClaimsTrue
  <2>5. LockFree!LoadsCautious'
    <3>1. \A x \in Int : x <= read_end_index => x <= read_end_index + 1
      OBVIOUS
    <3>2. ASSUME NEW u \in Pushers
          PROVE  /\ pc'[u] \in {"compare", "claim"} => loaded'[u] <= write_index'
                 /\ pc'[u] = "claim" => /\ size'[u] < Capacity
                                        /\ loaded'[u] - size'[u] <= read_end_index'
      <4>1. loaded[u] - size[u] \in Int
        BY <1>1
      <4> QED BY <1>1, <1>2, <1>6, <3>1, <4>1 DEF LockFree!LoadsCautious
    <3>3. \A u \in Poppers :
             /\ pc'[u] = "compare" => loaded'[u] <= write_end_index'
             /\ pc'[u] = "claim" => /\ size'[u] > 0 /\ loaded'[u] <= read_index'
                                    /\ loaded'[u] + size'[u] <= write_end_index'
      BY <1>1, <1>2, <1>6 DEF LockFree!LoadsCautious
    <3> QED BY <3>2, <3>3 DEF LockFree!LoadsCautious
  <2>6. LockFree!SlotsTrue'
    <3>1. \A i \in read_end_index' .. write_end_index' - 1 :
             i \in read_end_index .. write_end_index - 1
      BY <1>6
    <3>2. \A i : LockFree!Offset(i)' = LockFree!Offset(i)
      BY DEF LockFree!Offset
    <3> QED BY <1>1, <1>2, <1>6, <3>1, <3>2, SMTT(60) DEF LockFree!SlotsTrue
  <2> QED BY <1>4, <2>2, <2>3, <2>4, <2>5, <2>6
<1> QED BY <1>5, <1>6, ReleaseTakesTurn

LEMMA FreeStep ==
    ASSUME LockFree!RingAssumption, LockFree!IInv, [LockFree!Next]_(LockFree!vars)
    PROVE  LockFree!IInv'
<1>1. CASE UNCHANGED LockFree!vars
  BY <1>1 DEF LockFree!vars, LockFree!IInv, LockFree!TypeOK, LockFree!IndicesOrdered,
     LockFree!ClaimsTrue, LockFree!Claimed, LockFree!LoadsCautious, LockFree!SizeTrue,
     LockFree!SlotsTrue, LockFree!Offset
<1> QED
  BY <1>1, FreePushPop, FreeLoadFirst, FreeLoadSecond, FreeClaim, FreeCopy, FreeRelease
  DEF LockFree!Next, LockFree!Step

LEMMA FreeFifo ==
    ASSUME LockFree!RingAssumption, LockFree!IInv, [LockFree!Next]_(LockFree!vars)
    PROVE  [LockFree!Fifo!Next]_<<SubSeq(written, read_end_index + 1, write_end_index), taken>>
<1> DEFINE k == read_end_index + 1
           items == SubSeq(written, k, write_end_index)
<1>1. /\ written \in Seq(LockFree!Values) /\ Len(written) = write_end_index
      /\ read_end_index \in Nat /\ write_end_index \in Nat /\ Capacity \in Nat
      /\ read_end_index <= read_index /\ read_index <= write_end_index
      /\ write_end_index <= write_index /\ write_index <= read_end_index + Capacity
      /\ read_index \in Nat /\ write_index \in Nat
  BY DEF LockFree!RingAssumption, LockFree!IInv, LockFree!TypeOK, LockFree!IndicesOrdered
<1>2. ASSUME NEW t \in LockFree!Threads, LockFree!Release(t)
      PROVE  LockFree!Fifo!Next
  <2> DEFINE v == held[t]
  <2>1. ASSUME /\ write_end_index < write_index /\ v \in LockFree!Values
               /\ write_end_index' = write_end_index + 1
               /\ written' = Append(written, v)
               /\ UNCHANGED <<read_end_index, taken>>
        PROVE  LockFree!Fifo!Next
    <3>1. k \in 1 .. Len(written) + 1
      BY <1>1
    <3>2. /\ Len(items) = write_end_index + 1 - k
          /\ Len(Append(written, v)) = write_end_index + 1
          /\ SubSeq(Append(written, v), k, Len(Append(written, v))) = Append(items, v)
      <4> HIDE DEF k, v
      <4> QED BY <1>1, <2>1, <3>1, AppendProperties, AppendBehind
    <3>3. Len(items) < Capacity
      BY <1>1, <2>1, <3>2
    <3>4. SubSeq(written', k, write_end_index') = Append(items, v)
      BY <2>1, <3>2
    <3> HIDE DEF v
    <3> QED BY <2>1, <3>3, <3>4 DEF LockFree!Fifo!Next, LockFree!Fifo!Push
  <2>2. ASSUME /\ read_end_index < read_index
               /\ v = written[k]
               /\ read_end_index' = read_end_index + 1
               /\ taken' = Append(taken, v)
               /\ UNCHANGED <<write_end_index, written>>
        PROVE  LockFree!Fifo!Next
    <3>1. k \in 1 .. Len(written) /\ write_end_index \in k .. Len(written)
      BY <1>1, <2>2
    <3>2. Head(items) = v /\ Tail(items) = SubSeq(written, k + 1, write_end_index)
      <4> HIDE DEF k, v
      <4> QED BY <1>1, <2>2, <3>1, HeadTailOfSubSeq
    <3>3. items # << >>
      <4>1. Len(items) = write_end_index + 1 - k
        BY <1>1, <3>1
      <4>2. Len(items) # 0
        BY <1>1, <2>2, <4>1
      <4> HIDE DEF items
      <4> QED BY <4>2, EmptySeq
    <3>4. SubSeq(written', read_end_index' + 1, write_end_index') = Tail(items)
      BY <2>2, <3>2
    <3> QED BY <2>2, <3>2, <3>3, <3>4 DEF LockFree!Fifo!Next, LockFree!Fifo!Pop
  <2> QED BY <1>2, <2>1, <2>2, ReleaseTakesTurn
<1>3. ASSUME UNCHANGED <<written, taken, read_end_index, write_end_index>>
      PROVE  UNCHANGED <<items, taken>>
  BY <1>3
<1> QED
  BY <1>2, <1>3
  DEF LockFree!Next, LockFree!Step, LockFree!vars, LockFree!indexVars, LockFree!Push,
      LockFree!Pop, LockFree!Enter, LockFree!LoadFirst, LockFree!LoadSecond,
      LockFree!Claim, LockFree!Copy

-----------------------------------------------------------------------------
(* CircularQueue: Ring.                                                    *)

LEMMA RingOffset ==
    ASSUME Ring!RingAssumption, NEW i \in Nat
    PROVE  /\ Ring!Offset(i) \in 1 .. RingCapacity
           /\ i < RingCapacity => Ring!Offset(i) = i + 1
           /\ RingCapacity <= i /\ i < 2 * RingCapacity =>
                 Ring!Offset(i) = i - RingCapacity + 1
<1> DEFINE C == RingCapacity
           q == i \div C
           r == i % C
<1>1. C \in Nat \ {0} /\ q \in Int /\ r \in 0 .. C - 1 /\ i = C * q + r
  BY DEF Ring!RingAssumption
<1> HIDE DEF C, q, r
<1>2. q >= 0
  <2>1. q < 0 => C * q <= -C
    BY <1>1
  <2> QED BY <1>1, <2>1
<1>3. q >= 1 => C * q >= C
  BY <1>1
<1>4. q >= 2 => C * q >= 2 * C
  BY <1>1
<1>5. i < C => r = i
  BY <1>1, <1>2, <1>3
<1>6. C <= i /\ i < 2 * C => r = i - C
  BY <1>1, <1>2, <1>3, <1>4
<1> QED
  BY <1>1, <1>5, <1>6 DEF C, r, Ring!Offset

LEMMA RingOffsetsDiffer ==
    ASSUME Ring!RingAssumption, NEW i \in Nat, NEW j \in Nat, i < j, j < i + RingCapacity
    PROVE  Ring!Offset(i) # Ring!Offset(j)
<1>1. i % RingCapacity # j % RingCapacity
  BY ResiduesDiffer DEF Ring!RingAssumption
<1>2. i % RingCapacity \in Int /\ j % RingCapacity \in Int
  BY DEF Ring!RingAssumption
<1> QED BY <1>1, <1>2 DEF Ring!Offset

(* The place after the last one of the pool is the first.                  *)
LEMMA RingAfter ==
    ASSUME Ring!RingAssumption, NEW i \in 0 .. RingCapacity - 1, NEW k \in 1 .. RingCapacity
    PROVE  /\ Ring!After(i) \in 0 .. RingCapacity - 1
           /\ Ring!Offset(Ring!After(i) + k - 1) = Ring!Offset(i + k)
<1>1. RingCapacity \in Nat \ {0}
  BY DEF Ring!RingAssumption
<1>2. CASE i + 1 < RingCapacity
  <2>1. Ring!After(i) = i + 1 /\ i + 1 + k - 1 = i + k
    BY <1>1, <1>2 DEF Ring!After
  <2> QED BY <1>1, <1>2, <2>1
<1>3. CASE i = RingCapacity - 1
  <2>1. Ring!After(i) = 0 /\ 0 + k - 1 = k - 1
    BY <1>1, <1>3 DEF Ring!After
  <2>2. k - 1 \in Nat /\ k - 1 < RingCapacity /\ k - 1 + 1 = k
    BY <1>1
  <2>3. /\ i + k \in Nat /\ RingCapacity <= i + k /\ i + k < 2 * RingCapacity
        /\ i + k - RingCapacity + 1 = k
    BY <1>1, <1>3
  <2>4. Ring!Offset(k - 1) = k
    BY <2>2, RingOffset
  <2>5. Ring!Offset(i + k) = k
    <3> DEFINE x == i + k
    <3>1. x \in Nat /\ RingCapacity <= x /\ x < 2 * RingCapacity /\ x - RingCapacity + 1 = k
      BY <1>1, <2>3
    <3> HIDE DEF x
    <3>2. Ring!Offset(x) = k
      BY <3>1, RingOffset
    <3> QED BY <3>2 DEF x
  <2> QED BY <1>1, <2>1, <2>4, <2>5
<1> QED BY <1>1, <1>2, <1>3

(* The slots in use, and the one a push writes.                            *)
LEMMA RingShape ==
    ASSUME Ring!RingAssumption, Ring!TypeOK, Ring!OffsetsTrue, Ring!IndicesTrue
    PROVE  /\ Ring!First \in Nat /\ Ring!Count \in 0 .. RingCapacity
           /\ utility => /\ Ring!Count = ring_write - next_get /\ Ring!First = next_get
                         /\ ring_write = Ring!First + Ring!Count
           /\ ~utility => /\ Ring!Count = queue_size /\ Ring!First = ring_read
                          /\ ring_write \in 0 .. RingCapacity - 1
                          /\ ring_write + 1 = Ring!Offset(Ring!First + Ring!Count)
<1> USE DEF Ring!RingAssumption, Ring!TypeOK, Ring!First, Ring!Count, Ring!Size
<1>1. CASE utility
  BY <1>1 DEF Ring!IndicesTrue
<1>2. CASE ~utility
  <2>1. /\ ring_read < RingCapacity /\ Ring!First = ring_read /\ Ring!Count = queue_size
        /\ ring_write = ring_read + queue_size - IF ring_read + queue_size >= RingCapacity
                                                 THEN RingCapacity ELSE 0
    BY <1>2 DEF Ring!OffsetsTrue
  <2>2. ring_write \in 0 .. RingCapacity - 1
    BY <2>1
  <2>3. ring_write + 1 = Ring!Offset(ring_read + queue_size)
    <3>1. ring_read + queue_size \in Nat /\ ring_read + queue_size < 2 * RingCapacity
      BY <2>1
    <3>2. CASE ring_read + queue_size >= RingCapacity
      <4>1. Ring!Offset(ring_read + queue_size) = ring_read + queue_size - RingCapacity + 1
        BY <3>1, <3>2, RingOffset
      <4> QED BY <2>1, <3>2, <4>1
    <3>3. CASE ring_read + queue_size < RingCapacity
      <4>1. Ring!Offset(ring_read + queue_size) = ring_read + queue_size + 1
        BY <3>1, <3>3, RingOffset
      <4> QED BY <2>1, <3>3, <4>1
    <3> QED BY <3>1, <3>2, <3>3
  <2> QED BY <1>2, <2>1, <2>2, <2>3
<1> QED BY <1>1, <1>2

LEMMA RingItems ==
    ASSUME Ring!RingAssumption, Ring!IInv
    PROVE  /\ Ring!Items \in Seq(1 .. RingMaxPush) /\ Len(Ring!Items) = Ring!Count
           /\ \A k \in 1 .. Ring!Count : Ring!Items[k] = ring[Ring!Offset(Ring!First + k - 1)]
<1>1. Ring!Count \in Nat
  BY RingShape DEF Ring!IInv
<1> QED BY <1>1 DEF Ring!IInv, Ring!OnlyPushed, Ring!Items

(* A value stored in the place after the last one enters at the end.       *)
LEMMA RingStores ==
    ASSUME Ring!RingAssumption, Ring!IInv, NEW v \in 1 .. RingMaxPush,
           Ring!Count < RingCapacity,
           ring' = [ring EXCEPT ![Ring!Offset(Ring!First + Ring!Count)] = v],
           Ring!First' = Ring!First, Ring!Count' = Ring!Count + 1
    PROVE  Ring!Items' = Append(Ring!Items, v)
<1> DEFINE n == Ring!Count
           s == Ring!Items
<1>1. /\ n \in Nat /\ Ring!First \in Nat /\ RingCapacity \in Nat
      /\ ring \in [1 .. RingCapacity -> 1 .. RingMaxPush \cup {Garbage}]
  BY RingShape DEF Ring!RingAssumption, Ring!IInv, Ring!TypeOK
<1>2. /\ s \in Seq(1 .. RingMaxPush) /\ Len(s) = n
      /\ \A k \in 1 .. n : s[k] = ring[Ring!Offset(Ring!First + k - 1)]
  BY RingItems
<1>3. Ring!Items' = [k \in 1 .. n + 1 |-> ring'[Ring!Offset(Ring!First + k - 1)]]
  BY DEF Ring!Items, Ring!Offset
<1>4. ASSUME NEW k \in 1 .. n
      PROVE  ring'[Ring!Offset(Ring!First + k - 1)] = s[k]
  <2> DEFINE x == Ring!First + k - 1
             y == Ring!First + n
  <2>1. x \in Nat /\ y \in Nat /\ x < y /\ y < x + RingCapacity
    BY <1>1
  <2> HIDE DEF x, y
  <2>2. Ring!Offset(x) # Ring!Offset(y) /\ Ring!Offset(x) \in 1 .. RingCapacity
    BY <2>1, RingOffset, RingOffsetsDiffer
  <2>3. ring'[Ring!Offset(x)] = ring[Ring!Offset(x)]
    BY <1>1, <2>2 DEF y
  <2> QED BY <1>2, <2>3 DEF x
<1>5. ring'[Ring!Offset(Ring!First + (n + 1) - 1)] = v
  <2>1. Ring!First + (n + 1) - 1 = Ring!First + n /\ Ring!First + n \in Nat
    BY <1>1
  <2>2. Ring!Offset(Ring!First + n) \in 1 .. RingCapacity
    BY <2>1, RingOffset
  <2> QED BY <1>1, <2>1, <2>2
<1> HIDE DEF n, s
<1>6. /\ Append(s, v) \in Seq(1 .. RingMaxPush) /\ Len(Append(s, v)) = n + 1
      /\ Append(s, v)[n + 1] = v /\ \A k \in 1 .. n : Append(s, v)[k] = s[k]
  BY <1>2, AppendProperties
<1>7. \A k \in 1 .. n + 1 : ring'[Ring!Offset(Ring!First + k - 1)] = Append(s, v)[k]
  <2>1. \A k \in 1 .. n + 1 : k \in 1 .. n \/ k = n + 1
    BY <1>1 DEF n
  <2> QED BY <1>4, <1>5, <1>6, <2>1
<1>8. Append(s, v) = [k \in 1 .. n + 1 |-> Append(s, v)[k]]
  BY <1>6, LenProperties
<1>9. Ring!Items' = [k \in 1 .. n + 1 |-> Append(s, v)[k]]
  BY <1>3, <1>7
<1> QED BY <1>8, <1>9 DEF s

(* Moving on by one place gives up the oldest value.                       *)
LEMMA RingMovesOn ==
    ASSUME Ring!RingAssumption, Ring!IInv, 0 < Ring!Count, ring' = ring,
           Ring!Count' = Ring!Count - 1,
           \A k \in 1 .. Ring!Count :
              Ring!Offset(Ring!First' + k - 1) = Ring!Offset(Ring!First + k)
    PROVE  /\ Ring!Items # << >>
           /\ Head(Ring!Items) = ring[Ring!Offset(Ring!First)]
           /\ Ring!Items' = Tail(Ring!Items)
<1> DEFINE n == Ring!Count
           s == Ring!Items
<1>1. n \in Nat /\ Ring!First \in Nat /\ n \in 1 .. n /\ 1 \in 1 .. n /\ n # 0
  BY RingShape DEF Ring!IInv
<1>2. /\ s \in Seq(1 .. RingMaxPush) /\ Len(s) = n
      /\ \A k \in 1 .. n : s[k] = ring[Ring!Offset(Ring!First + k - 1)]
  BY RingItems
<1>3. s # << >>
  <2> HIDE DEF s, n
  <2> QED BY <1>1, <1>2, EmptySeq
<1>4. Head(s) = s[1] /\ s[1] = ring[Ring!Offset(Ring!First)]
  <2>1. Ring!First + 1 - 1 = Ring!First
    BY <1>1
  <2>2. s[1] = ring[Ring!Offset(Ring!First + 1 - 1)]
    BY <1>1, <1>2
  <2>3. Head(s) = s[1]
    <3> HIDE DEF s, n
    <3> QED BY <1>2, <1>3
  <2> QED BY <2>1, <2>2, <2>3
<1>5. Ring!Items' = [k \in 1 .. n - 1 |-> ring[Ring!Offset(Ring!First + k)]]
  <2>1. Ring!Items' = [k \in 1 .. n - 1 |-> ring[Ring!Offset(Ring!First' + k - 1)]]
    BY DEF Ring!Items, Ring!Offset
  <2>2. \A k \in 1 .. n - 1 : k \in 1 .. n
    BY <1>1
  <2> QED BY <2>1, <2>2
<1>6. ASSUME NEW k \in 1 .. n - 1
      PROVE  ring[Ring!Offset(Ring!First + k)] = Tail(s)[k]
  <2>1. k + 1 \in 1 .. n /\ Ring!First + (k + 1) - 1 = Ring!First + k
    BY <1>1
  <2>2. s[k + 1] = ring[Ring!Offset(Ring!First + k)]
    BY <1>2, <2>1
  <2>3. Tail(s)[k] = s[k + 1]
    <3> HIDE DEF s, n
    <3> QED BY <1>2, <1>3, HeadTailProperties
  <2> QED BY <2>2, <2>3
<1>7. Tail(s) = [k \in 1 .. n - 1 |-> Tail(s)[k]]
  <2> HIDE DEF s, n
  <2>1. Tail(s) \in Seq(1 .. RingMaxPush) /\ Len(Tail(s)) = n - 1
    BY <1>2, <1>3, HeadTailProperties
  <2> QED BY <2>1, LenProperties
<1>8. Ring!Items' = [k \in 1 .. n - 1 |-> Tail(s)[k]]
  BY <1>5, <1>6
<1> QED BY <1>3, <1>4, <1>7, <1>8

(* The newest value in the place of the oldest.                            *)
LEMMA RingRewrites ==
    ASSUME Ring!RingAssumption, Ring!IInv, NEW v \in 1 .. RingMaxPush,
           Ring!Count = RingCapacity, Ring!Count' = Ring!Count,
           ring' = [ring EXCEPT ![Ring!Offset(Ring!First + Ring!Count)] = v],
           \A k \in 1 .. Ring!Count :
              Ring!Offset(Ring!First' + k - 1) = Ring!Offset(Ring!First + k)
    PROVE  Ring!Items' = Append(Tail(Ring!Items), v)
<1> DEFINE n == RingCapacity
           s == Ring!Items
<1>1. /\ n \in Nat /\ Ring!First \in Nat /\ n \in 1 .. n /\ 1 \in 1 .. n /\ n # 0
      /\ ring \in [1 .. n -> 1 .. RingMaxPush \cup {Garbage}]
  BY RingShape DEF Ring!RingAssumption, Ring!IInv, Ring!TypeOK
<1>2. /\ s \in Seq(1 .. RingMaxPush) /\ Len(s) = n
      /\ \A k \in 1 .. n : s[k] = ring[Ring!Offset(Ring!First + k - 1)]
  BY RingItems
<1>3. /\ Tail(s) \in Seq(1 .. RingMaxPush) /\ Len(Tail(s)) = n - 1
      /\ \A k \in 1 .. n - 1 : Tail(s)[k] = s[k + 1]
  <2> HIDE DEF s, n
  <2>1. s # << >>
    BY <1>1, <1>2, EmptySeq
  <2> QED BY <1>2, <2>1, HeadTailProperties
<1>4. Ring!Items' = [k \in 1 .. n |-> ring'[Ring!Offset(Ring!First + k)]]
  BY DEF Ring!Items, Ring!Offset
<1>5. ASSUME NEW k \in 1 .. n - 1
      PROVE  ring'[Ring!Offset(Ring!First + k)] = Tail(s)[k]
  <2> DEFINE x == Ring!First + k
             y == Ring!First + n
  <2>1. /\ x \in Nat /\ y \in Nat /\ x < y /\ y < x + n
        /\ k + 1 \in 1 .. n /\ Ring!First + (k + 1) - 1 = x
    BY <1>1
  <2> HIDE DEF x, y
  <2>2. Ring!Offset(x) # Ring!Offset(y) /\ Ring!Offset(x) \in 1 .. n
    BY <2>1, RingOffset, RingOffsetsDiffer
  <2>3. ring'[Ring!Offset(x)] = ring[Ring!Offset(x)]
    BY <1>1, <2>2 DEF y
  <2>4. s[k + 1] = ring[Ring!Offset(x)]
    BY <1>2, <2>1
  <2> QED BY <1>3, <2>3, <2>4 DEF x
<1>6. ring'[Ring!Offset(Ring!First + n)] = v
  <2>1. Ring!First + n \in Nat
    BY <1>1
  <2>2. Ring!Offset(Ring!First + n) \in 1 .. n
    BY <2>1, RingOffset
  <2> QED BY <1>1, <2>2
<1> DEFINE r == Append(Tail(s), v)
<1>7. /\ r \in Seq(1 .. RingMaxPush) /\ Len(r) = n
      /\ r[n] = v /\ \A k \in 1 .. n - 1 : r[k] = Tail(s)[k]
  <2>1. n - 1 + 1 = n
    BY <1>1
  <2> HIDE DEF s, n
  <2> QED BY <1>3, <2>1, AppendProperties
<1>8. \A k \in 1 .. n : ring'[Ring!Offset(Ring!First + k)] = r[k]
  <2>1. \A k \in 1 .. n : k \in 1 .. n - 1 \/ k = n
    BY <1>1
  <2> HIDE DEF r, s
  <2> QED BY <1>5, <1>6, <1>7, <2>1
<1>9. r = [k \in 1 .. n |-> r[k]]
  <2> HIDE DEF r
  <2> QED BY <1>7, LenProperties
<1>10. Ring!Items' = [k \in 1 .. n |-> r[k]]
  <2> HIDE DEF r
  <2> QED BY <1>4, <1>8
<1> QED BY <1>9, <1>10

(* A step of the abstract queue.                                           *)
RingFifoStep ==
    [Ring!Fifo!Next \/ \E v \in 1 .. RingMaxPush :
        Ring!Fifo!Overwrite(v)]_<<Ring!Items, ring_popped>>

RingTrue == Ring!TypeOK /\ Ring!OffsetsTrue /\ Ring!IndicesTrue

LEMMA RingPush ==
    ASSUME Ring!RingAssumption, Ring!IInv, NEW rewrite \in BOOLEAN, Ring!Push(rewrite)
    PROVE  RingTrue' /\ RingFifoStep
<1> USE DEF Ring!RingAssumption, Ring!IInv, Ring!TypeOK, RingTrue
<1> DEFINE v == ring_calls + 1
<1>1. /\ ~utility /\ v \in 1 .. RingMaxPush /\ ring_calls' = v /\ v \in 0 .. RingMaxPush
      /\ UNCHANGED <<utility, rewrite_flag, tries, pushing, next_get, end_get, ring_popped>>
  BY DEF Ring!Push, Ring!utilityVars
<1>2. /\ Ring!Count = queue_size /\ Ring!First = ring_read /\ ring_read < RingCapacity
      /\ ring_write \in 0 .. RingCapacity - 1
      /\ ring_write + 1 = Ring!Offset(Ring!First + Ring!Count)
      /\ Ring!Count' = queue_size' /\ Ring!First' = ring_read'
      /\ next_get = 0 /\ end_get = 0 /\ \A c \in Pushers : tries[c] = 0
      /\ ring_write = ring_read + queue_size - IF ring_read + queue_size >= RingCapacity
                                               THEN RingCapacity ELSE 0
  BY <1>1, RingShape DEF Ring!OffsetsTrue, Ring!Count, Ring!First, Ring!Size
<1>3. ASSUME Ring!Store
      PROVE  /\ ring' = [ring EXCEPT ![Ring!Offset(Ring!First + Ring!Count)] = v]
             /\ ring' \in [1 .. RingCapacity -> 1 .. RingMaxPush \cup {Garbage}]
             /\ ring_write' = Ring!After(ring_write) /\ ring_write' \in 0 .. RingCapacity - 1
  <2>1. ring_write + 1 \in 1 .. RingCapacity
    BY <1>2
  <2>2. ring' = [ring EXCEPT ![ring_write + 1] = v] /\ ring_write' = Ring!After(ring_write)
    BY <1>3 DEF Ring!Store
  <2>3. ring' \in [1 .. RingCapacity -> 1 .. RingMaxPush \cup {Garbage}]
    BY <1>1, <2>1, <2>2
  <2>4. Ring!After(ring_write) \in 0 .. RingCapacity - 1
    BY <1>2 DEF Ring!After
  <2> QED BY <1>2, <2>2, <2>3, <2>4
<1> HIDE DEF v
<1>4. CASE queue_size < RingCapacity /\ Ring!Store /\ queue_size' = queue_size + 1
           /\ ring_read' = ring_read
  <2>1. Ring!Items' = Append(Ring!Items, v)
    BY <1>1, <1>2, <1>3, <1>4, RingStores
  <2>2. Len(Ring!Items) < RingCapacity
    BY <1>2, <1>4, RingItems
  <2>3. RingFifoStep
    BY <1>1, <2>1, <2>2 DEF RingFifoStep, Ring!Fifo!Next, Ring!Fifo!Push
  <2>4. Ring!TypeOK'
    BY <1>1, <1>3, <1>4
  <2>5. Ring!OffsetsTrue'
    BY <1>1, <1>2, <1>3, <1>4 DEF Ring!OffsetsTrue, Ring!After
  <2> QED BY <1>1, <2>3, <2>4, <2>5 DEF Ring!IndicesTrue
<1>5. CASE Ring!Rewrite
  <2>1. /\ Ring!Store /\ queue_size = RingCapacity /\ queue_size' = queue_size
        /\ ring_read' = Ring!After(ring_read)
    BY <1>5 DEF Ring!Rewrite
  <2>2. /\ ring_read \in 0 .. RingCapacity - 1 /\ ring_read' \in 0 .. RingCapacity - 1
        /\ \A k \in 1 .. RingCapacity :
              Ring!Offset(ring_read' + k - 1) = Ring!Offset(ring_read + k)
    BY <1>2, <2>1, RingAfter
  <2>3. Ring!Items' = Append(Tail(Ring!Items), v)
    BY <1>1, <1>2, <1>3, <2>1, <2>2, RingRewrites
  <2>4. Len(Ring!Items) = RingCapacity
    BY <1>2, <2>1, RingItems
  <2>5. RingFifoStep
    BY <1>1, <2>3, <2>4 DEF RingFifoStep, Ring!Fifo!Overwrite
  <2>6. Ring!TypeOK'
    BY <1>1, <1>3, <2>1, <2>2
  <2>7. Ring!OffsetsTrue'
    BY <1>1, <1>2, <1>3, <2>1, <2>2 DEF Ring!OffsetsTrue, Ring!After
  <2> QED BY <1>1, <2>5, <2>6, <2>7 DEF Ring!IndicesTrue
<1>6. CASE UNCHANGED <<ring, ring_write, ring_read, queue_size>>
  <2>1. Ring!Items' = Ring!Items
    BY <1>1, <1>6 DEF Ring!Items, Ring!Offset, Ring!Count, Ring!First, Ring!Size
  <2>2. RingFifoStep
    BY <1>1, <2>1 DEF RingFifoStep
  <2> QED BY <1>1, <1>2, <1>6, <2>2 DEF Ring!IndicesTrue, Ring!OffsetsTrue
<1> QED BY <1>4, <1>5, <1>6 DEF Ring!Push

LEMMA RingPop ==
    ASSUME Ring!RingAssumption, Ring!IInv, Ring!Pop
    PROVE  RingTrue' /\ RingFifoStep
<1> USE DEF Ring!RingAssumption, Ring!IInv, Ring!TypeOK, RingTrue
<1>1. /\ ~utility /\ queue_size > 0 /\ queue_size' = queue_size - 1
      /\ ring_read' = Ring!After(ring_read)
      /\ ring_popped' = Append(ring_popped, ring[ring_read + 1])
      /\ UNCHANGED <<utility, ring, ring_write, rewrite_flag, tries, pushing, next_get,
                     end_get, ring_calls>>
  BY DEF Ring!Pop, Ring!utilityVars
<1>2. /\ Ring!Count = queue_size /\ Ring!First = ring_read
      /\ ring_read \in 0 .. RingCapacity - 1
      /\ Ring!Count' = queue_size' /\ Ring!First' = ring_read'
      /\ next_get = 0 /\ end_get = 0 /\ \A c \in Pushers : tries[c] = 0
      /\ ring_write = ring_read + queue_size - IF ring_read + queue_size >= RingCapacity
                                               THEN RingCapacity ELSE 0
  BY <1>1, RingShape DEF Ring!OffsetsTrue, Ring!Count, Ring!First, Ring!Size
<1>3. /\ ring_read' \in 0 .. RingCapacity - 1 /\ Ring!Offset(ring_read) = ring_read + 1
      /\ \A k \in 1 .. RingCapacity :
            Ring!Offset(ring_read' + k - 1) = Ring!Offset(ring_read + k)
  BY <1>1, <1>2, RingAfter, RingOffset
<1>4. \A k \in 1 .. queue_size : k \in 1 .. RingCapacity
  OBVIOUS
<1>5. /\ Ring!Items # << >> /\ Head(Ring!Items) = ring[ring_read + 1]
      /\ Ring!Items' = Tail(Ring!Items)
  BY <1>1, <1>2, <1>3, <1>4, RingMovesOn
<1>6. RingFifoStep
  BY <1>1, <1>5 DEF RingFifoStep, Ring!Fifo!Next, Ring!Fifo!Pop
<1>7. Ring!TypeOK'
  BY <1>1, <1>3
<1>8. Ring!OffsetsTrue'
  BY <1>1, <1>2, <1>3 DEF Ring!OffsetsTrue, Ring!After
<1> QED BY <1>1, <1>6, <1>7, <1>8 DEF Ring!IndicesTrue

(* The places of SL_Utility_CircularQueue only grow.                       *)
LEMMA RingUtility ==
    ASSUME Ring!RingAssumption, Ring!IInv, utility, utility' = utility
    PROVE  /\ Ring!First = next_get /\ Ring!Count = ring_write - next_get
           /\ Ring!First' = next_get' /\ Ring!Count' = ring_write' - next_get'
           /\ ring_read <= next_get /\ next_get <= end_get /\ end_get <= ring_write
           /\ ring_write <= ring_read + RingCapacity
           /\ Ring!OffsetsTrue'
BY RingShape DEF Ring!IInv, Ring!TypeOK, Ring!RingAssumption, Ring!First, Ring!Count, Ring!Size, Ring!IndicesTrue,
   Ring!OffsetsTrue

LEMMA RingTryPush ==
    ASSUME Ring!RingAssumption, Ring!IInv, NEW c \in Pushers, Ring!TryPush(c)
    PROVE  RingTrue' /\ RingFifoStep
<1> USE DEF Ring!RingAssumption, Ring!IInv, Ring!TypeOK, RingTrue
<1> DEFINE v == pushing[c]
<1>1. utility
  BY DEF Ring!TryPush, Ring!OffsetsTrue
<1>2. /\ ring_write - ring_read < RingCapacity /\ ring_write' = ring_write + 1
      /\ v \in 1 .. RingMaxPush
      /\ ring' = [ring EXCEPT ![Ring!Offset(ring_write)] = v]
      /\ tries' = [tries EXCEPT ![c] = 0] /\ pushing' = [pushing EXCEPT ![c] = 0]
      /\ UNCHANGED <<utility, ring_read, queue_size, rewrite_flag, next_get, end_get,
                     ring_calls, ring_popped>>
  BY <1>1 DEF Ring!TryPush, Ring!Pushed, Ring!Size, Ring!classicVars, Ring!IndicesTrue
<1>3. /\ Ring!First = next_get /\ Ring!Count = ring_write - next_get
      /\ Ring!First' = next_get' /\ Ring!Count' = ring_write' - next_get'
      /\ ring_read <= next_get /\ next_get <= end_get /\ end_get <= ring_write
      /\ ring_write <= ring_read + RingCapacity
      /\ Ring!OffsetsTrue'
  BY <1>1, <1>2, RingUtility
<1>4. /\ Ring!Count < RingCapacity /\ Ring!Count' = Ring!Count + 1
      /\ Ring!First + Ring!Count = ring_write
  BY <1>2, <1>3
<1>5. Ring!Items' = Append(Ring!Items, v)
  BY <1>2, <1>3, <1>4, RingStores
<1>6. Len(Ring!Items) < RingCapacity
  BY <1>4, RingItems
<1>7. RingFifoStep
  <2> HIDE DEF v
  <2> QED BY <1>2, <1>5, <1>6 DEF RingFifoStep, Ring!Fifo!Next, Ring!Fifo!Push
<1>8. Ring!TypeOK'
  <2>1. Ring!Offset(ring_write) \in 1 .. RingCapacity
    BY RingOffset
  <2> QED BY <1>2, <2>1
<1>9. Ring!IndicesTrue'
  <2>1. \A d \in Pushers : tries'[d] # 0 => tries[d] # 0 /\ pushing'[d] = pushing[d]
    BY <1>2
  <2> QED BY <1>1, <1>2, <1>3, <2>1 DEF Ring!IndicesTrue
<1> QED BY <1>3, <1>7, <1>8, <1>9

LEMMA RingTryPop ==
    ASSUME Ring!RingAssumption, Ring!IInv, Ring!TryPop
    PROVE  RingTrue' /\ RingFifoStep
<1> USE DEF Ring!RingAssumption, Ring!IInv, Ring!TypeOK, RingTrue
<1>1. /\ utility /\ ring_read = end_get /\ ring_write - ring_read > 0
      /\ ring_popped' = Append(ring_popped, ring[Ring!Offset(ring_read)])
      /\ ring_read' = ring_read + 1 /\ next_get' = ring_read + 1 /\ end_get' = ring_read + 1
      /\ UNCHANGED <<utility, ring, ring_write, queue_size, rewrite_flag, tries, pushing,
                     ring_calls>>
  BY DEF Ring!TryPop, Ring!classicVars, Ring!Size
<1>2. /\ Ring!First = next_get /\ Ring!Count = ring_write - next_get
      /\ Ring!First' = next_get' /\ Ring!Count' = ring_write' - next_get'
      /\ ring_read <= next_get /\ next_get <= end_get /\ end_get <= ring_write
      /\ ring_write <= ring_read + RingCapacity
      /\ Ring!OffsetsTrue'
  BY <1>1, RingUtility
<1>3. next_get = ring_read /\ 0 < Ring!Count /\ Ring!Count' = Ring!Count - 1
  BY <1>1, <1>2
<1>4. \A k \in 1 .. Ring!Count :
         Ring!Offset(Ring!First' + k - 1) = Ring!Offset(Ring!First + k)
  <2>1. \A k \in Int : Ring!First' + k - 1 = Ring!First + k
    BY <1>1, <1>2, <1>3
  <2> QED BY <1>2, <2>1
<1>5. /\ Ring!Items # << >> /\ Head(Ring!Items) = ring[Ring!Offset(ring_read)]
      /\ Ring!Items' = Tail(Ring!Items)
  BY <1>1, <1>2, <1>3, <1>4, RingMovesOn
<1>6. RingFifoStep
  BY <1>1, <1>5 DEF RingFifoStep, Ring!Fifo!Next, Ring!Fifo!Pop
<1>7. Ring!TypeOK'
  BY <1>1
<1>8. Ring!IndicesTrue'
  BY <1>1, <1>2, <1>3 DEF Ring!IndicesTrue
<1> QED BY <1>2, <1>6, <1>7, <1>8

LEMMA RingGet ==
    ASSUME Ring!RingAssumption, Ring!IInv, Ring!Get
    PROVE  RingTrue' /\ RingFifoStep
<1> USE DEF Ring!RingAssumption, Ring!IInv, Ring!TypeOK, RingTrue
<1>1. /\ utility /\ next_get < end_get /\ next_get' = next_get + 1
      /\ ring_popped' = Append(ring_popped, ring[Ring!Offset(next_get)])
      /\ UNCHANGED <<utility, ring, ring_read, ring_write, queue_size, rewrite_flag, tries,
                     pushing, end_get, ring_calls>>
  BY DEF Ring!Get, Ring!classicVars, Ring!OffsetsTrue
<1>2. /\ Ring!First = next_get /\ Ring!Count = ring_write - next_get
      /\ Ring!First' = next_get' /\ Ring!Count' = ring_write' - next_get'
      /\ ring_read <= next_get /\ next_get <= end_get /\ end_get <= ring_write
      /\ ring_write <= ring_read + RingCapacity
      /\ Ring!OffsetsTrue'
  BY <1>1, RingUtility
<1>3. 0 < Ring!Count /\ Ring!Count' = Ring!Count - 1
  BY <1>1, <1>2
<1>4. \A k \in 1 .. Ring!Count :
         Ring!Offset(Ring!First' + k - 1) = Ring!Offset(Ring!First + k)
  <2>1. \A k \in Int : Ring!First' + k - 1 = Ring!First + k
    BY <1>1, <1>2
  <2> QED BY <1>2, <2>1
<1>5. /\ Ring!Items # << >> /\ Head(Ring!Items) = ring[Ring!Offset(next_get)]
      /\ Ring!Items' = Tail(Ring!Items)
  BY <1>1, <1>2, <1>3, <1>4, RingMovesOn
<1>6. RingFifoStep
  BY <1>1, <1>5 DEF RingFifoStep, Ring!Fifo!Next, Ring!Fifo!Pop
<1>7. Ring!TypeOK'
  BY <1>1
<1>8. Ring!IndicesTrue'
  BY <1>1, <1>2 DEF Ring!IndicesTrue
<1> QED BY <1>2, <1>6, <1>7, <1>8

(* The attempts of a push and the places a reader notes leave the values   *)
(* alone.                                                                  *)
LEMMA RingAttempts ==
    ASSUME Ring!RingAssumption, Ring!IInv, NEW c \in Pushers, NEW redo,
           (Ring!BeginPush(c, redo) /\ redo \in RingRedo) \/ Ring!FailPush(c)
    PROVE  RingTrue' /\ RingFifoStep
<1> USE DEF Ring!RingAssumption, Ring!IInv, Ring!TypeOK, RingTrue
<1>1. UNCHANGED <<utility, ring, ring_read, ring_write, queue_size, rewrite_flag, next_get,
                  end_get, ring_popped>>
  BY DEF Ring!BeginPush, Ring!FailPush, Ring!classicVars
<1>2. Ring!Items' = Ring!Items
  BY <1>1 DEF Ring!Items, Ring!Offset, Ring!Count, Ring!First
<1>3. utility
  BY DEF Ring!BeginPush, Ring!FailPush, Ring!OffsetsTrue
<1>4. /\ tries' \in [Pushers -> Int] /\ pushing' \in [Pushers -> 0 .. RingMaxPush]
      /\ ring_calls' \in 0 .. RingMaxPush
      /\ \A d \in Pushers : tries'[d] # 0 => pushing'[d] \in 1 .. RingMaxPush
  <2>1. CASE Ring!BeginPush(c, redo) /\ redo \in RingRedo
    BY <1>3, <2>1 DEF Ring!BeginPush, Ring!IndicesTrue
  <2>2. CASE Ring!FailPush(c)
    BY <1>3, <2>2 DEF Ring!FailPush, Ring!IndicesTrue
  <2> QED BY <2>1, <2>2
<1> QED
  BY <1>1, <1>2, <1>3, <1>4 DEF RingFifoStep, Ring!IndicesTrue, Ring!OffsetsTrue

LEMMA RingReads ==
    ASSUME Ring!RingAssumption, Ring!IInv, Ring!BeginGet \/ Ring!GiveBack
    PROVE  RingTrue' /\ RingFifoStep
<1> USE DEF Ring!RingAssumption, Ring!IInv, Ring!TypeOK, RingTrue
<1>1. /\ UNCHANGED <<utility, ring, ring_write, queue_size, rewrite_flag, tries, pushing,
                     next_get, ring_calls, ring_popped>>
      /\ utility
      /\ \/ ring_read' = ring_read /\ end_get' = ring_write
         \/ ring_read' = end_get /\ next_get = end_get /\ end_get' = end_get
  BY DEF Ring!BeginGet, Ring!GiveBack, Ring!utilityVars, Ring!classicVars
<1>2. Ring!Items' = Ring!Items
  BY <1>1 DEF Ring!Items, Ring!Offset, Ring!Count, Ring!First
<1>3. Ring!IndicesTrue'
  BY <1>1 DEF Ring!IndicesTrue
<1>4. Ring!TypeOK'
  BY <1>1
<1> QED
  BY <1>1, <1>2, <1>3, <1>4 DEF RingFifoStep, Ring!OffsetsTrue

LEMMA RingStep ==
    ASSUME Ring!RingAssumption, Ring!IInv, [Ring!Next]_(Ring!vars)
    PROVE  RingTrue' /\ RingFifoStep
<1>1. CASE UNCHANGED Ring!vars
  <2>1. UNCHANGED <<Ring!Items, ring_popped>>
    BY <1>1 DEF Ring!vars, Ring!utilityVars, Ring!classicVars, Ring!Items, Ring!Offset,
       Ring!Count, Ring!First
  <2> QED
    BY <1>1, <2>1 DEF RingTrue, RingFifoStep, Ring!IInv, Ring!TypeOK, Ring!OffsetsTrue,
       Ring!IndicesTrue, Ring!vars, Ring!utilityVars, Ring!classicVars
<1> QED
  BY <1>1, RingAttempts, RingReads, RingPush, RingPop, RingTryPush, RingTryPop, RingGet
  DEF Ring!Next

(* What comes out was inside, so it was pushed.                            *)
LEMMA RingInv ==
    ASSUME Ring!RingAssumption, Ring!IInv, [Ring!Next]_(Ring!vars)
    PROVE  Ring!IInv'
<1> DEFINE S == 1 .. RingMaxPush
           s == Ring!Items
<1>1. RingTrue' /\ RingFifoStep /\ s \in Seq(S) /\ ring_popped \in Seq(S)
  BY RingStep DEF Ring!IInv, Ring!OnlyPushed
<1> HIDE DEF S
<1>2. ASSUME NEW v \in S, s' = Append(s, v)
      PROVE  s' \in Seq(S)
  BY <1>1, <1>2, AppendProperties
<1>3. ASSUME s # << >>, s' = Tail(s), ring_popped' = Append(ring_popped, Head(s))
      PROVE  s' \in Seq(S) /\ ring_popped' \in Seq(S)
  BY <1>1, <1>3, HeadTailProperties, AppendProperties
<1>4. ASSUME NEW v \in S, s' = Append(Tail(s), v), Len(s) = RingCapacity
      PROVE  s' \in Seq(S)
  <2>1. s # << >>
    BY <1>1, <1>4, EmptySeq DEF Ring!RingAssumption
  <2> QED BY <1>1, <1>4, <2>1, HeadTailProperties, AppendProperties
<1>5. s' \in Seq(S) /\ ring_popped' \in Seq(S)
  BY <1>1, <1>2, <1>3, <1>4
  DEF S, RingFifoStep, Ring!Fifo!Next, Ring!Fifo!Push, Ring!Fifo!Pop, Ring!Fifo!Overwrite
<1> QED BY <1>1, <1>5 DEF S, RingTrue, Ring!IInv, Ring!OnlyPushed

LEMMA RingInit == ASSUME Ring!RingAssumption PROVE Ring!Init => Ring!IInv /\ Ring!Fifo!Init
<1> SUFFICES ASSUME Ring!Init
             PROVE  Ring!IInv /\ Ring!Fifo!Init
  OBVIOUS
<1>1. Ring!TypeOK /\ Ring!OffsetsTrue /\ Ring!IndicesTrue
  <2>1. /\ utility \in BOOLEAN /\ rewrite_flag \in BOOLEAN
        /\ ring_read = 0 /\ ring_write = 0 /\ queue_size = 0 /\ ring_calls = 0
        /\ next_get = 0 /\ end_get = 0
    BY DEF Ring!Init
  <2>2. /\ ring \in [1 .. RingCapacity -> 1 .. RingMaxPush \cup {Garbage}]
        /\ tries \in [Pushers -> Int] /\ pushing \in [Pushers -> 0 .. RingMaxPush]
        /\ \A c \in Pushers : tries[c] = 0
    BY DEF Ring!Init, Ring!RingAssumption
  <2>3. Ring!TypeOK
    BY <2>1, <2>2 DEF Ring!RingAssumption, Ring!TypeOK
  <2>4. Ring!OffsetsTrue
    <3>1. RingCapacity > 0 /\ RingCapacity \in Nat
      BY DEF Ring!RingAssumption
    <3>2. ~(0 + 0 >= RingCapacity) /\ 0 + 0 - 0 = 0 /\ 0 < RingCapacity
      BY <3>1
    <3> QED BY <2>1, <2>2, <3>2 DEF Ring!OffsetsTrue
  <2>5. Ring!IndicesTrue
    BY <2>1, <2>2 DEF Ring!RingAssumption, Ring!IndicesTrue
  <2> QED BY <2>3, <2>4, <2>5
<1>2. Ring!Count = 0
  BY DEF Ring!Init, Ring!Count
<1>3. Ring!Items = << >>
  BY <1>2 DEF Ring!Items
<1> QED
  BY <1>1, <1>3 DEF Ring!Init, Ring!IInv, Ring!OnlyPushed, Ring!Fifo!Init

-----------------------------------------------------------------------------
(* A behaviour of MCQueues is one of each of its queues: all but one of    *)
(* them stay in their initial states.                                      *)

LEMMA PartsOfNext ==
    ASSUME [MCNext]_allVars
    PROVE  /\ [Next]_vars /\ [LockFree!Next]_(LockFree!vars)
           /\ [TwoLock!Next]_(TwoLock!vars) /\ [TwoList!Next]_(TwoList!vars)
           /\ [Ring!Next]_(Ring!vars)
BY DEF MCNext, allVars, lockFreeVars, twoLockVars, swapVars, ringVars_, LockFree!vars,
   TwoLock!vars, TwoList!vars, Ring!vars, LockFree!indexVars, LockFree!localVars,
   Ring!classicVars, Ring!utilityVars

LEMMA SingleProjection == MCSpec => Spec
<1>1. MCInit => Init
  BY DEF MCInit
<1>2. [MCNext]_allVars => [Next]_vars
  BY PartsOfNext
<1> QED BY <1>1, <1>2, PTL DEF MCSpec, Spec

(* SL_Utility_LockFreeQueue: every thread between its claim and its        *)
(* release has an index of its own within the ring, and the indices and    *)
(* slots agree, although each was loaded at another time.                  *)
THEOREM LockFreeInductive == MCSpec => []LockFree!IInv
<1>1. MCInit => LockFree!IInv
  BY FreeInit, QueuesAssumption DEF MCInit
<1>2. LockFree!IInv /\ [MCNext]_allVars => LockFree!IInv'
  BY FreeStep, PartsOfNext, QueuesAssumption
<1> QED BY <1>1, <1>2, PTL DEF MCSpec

(* SL_Utility_TwoLockQueue: the list is linked from the dummy to tail_,    *)
(* and nodes are deleted only behind head_, each by one pop.               *)
THEOREM TwoLockInductive == MCSpec => []TwoLock!IInv
<1>1. MCInit => TwoLock!IInv
  BY ListInit, QueuesAssumption DEF MCInit
<1>2. TwoLock!IInv /\ [MCNext]_allVars => TwoLock!IInv'
  BY ListStep, PartsOfNext, QueuesAssumption
<1> QED BY <1>1, <1>2, PTL DEF MCSpec

(* SL_Utility_TwoPointerSwapQueue: nothing enters the active list between  *)
(* the pop that found it empty and the swap.                               *)
THEOREM SwapInductive == MCSpec => []TwoList!IInv
<1>1. MCInit => TwoList!IInv
  BY SwapInit, QueuesAssumption DEF MCInit
<1>2. TwoList!IInv /\ [MCNext]_allVars => TwoList!IInv'
  BY SwapStep, PartsOfNext, QueuesAssumption
<1> QED BY <1>1, <1>2, PTL DEF MCSpec

(* SL_CircularQueue and SL_Utility_CircularQueue: the offsets agree with   *)
(* the count, and what is in the slots between them was pushed.            *)
THEOREM RingInductive == MCSpec => []Ring!IInv
<1>1. MCInit => Ring!IInv
  BY RingInit, QueuesAssumption DEF MCInit
<1>2. Ring!IInv /\ [MCNext]_allVars => Ring!IInv'
  BY RingInv, PartsOfNext, QueuesAssumption
<1> QED BY <1>1, <1>2, PTL DEF MCSpec

(* The four utility queues are first in first out: no value is lost,       *)
(* popped twice or popped out of order, whatever their threads interleave, *)
(* and SL_CircularQueue gives up its oldest value only when it is full.    *)
THEOREM QueuesFifo == MCSpec => QueuesAreFifo
<1>1. MCInit => /\ LockFree!Fifo!Init /\ TwoLock!Fifo!Init
                /\ TwoList!Fifo!Init /\ Ring!Fifo!Init
  <2>1. MCInit => LockFree!Fifo!Init
    BY DEF MCInit, LockFree!Init, LockFree!Fifo!Init
  <2>2. MCInit => TwoLock!Fifo!Init
    BY DEF MCInit, TwoLock!Init, TwoLock!Fifo!Init
  <2>3. MCInit => TwoList!Fifo!Init
    BY DEF MCInit, TwoList!Init, TwoList!Fifo!Init, TwoList!standby
  <2>4. MCInit => Ring!Fifo!Init
    BY RingInit, QueuesAssumption DEF MCInit
  <2> QED BY <2>1, <2>2, <2>3, <2>4
<1>2. LockFree!IInv /\ [MCNext]_allVars =>
         [LockFree!Fifo!Next]_<<SubSeq(written, read_end_index + 1, write_end_index), taken>>
  BY FreeFifo, PartsOfNext, QueuesAssumption
<1>3. TwoLock!IInv /\ [MCNext]_allVars =>
         [TwoLock!Fifo!Next]_<<SubSeq(pushed, Len(popped) + 1, Len(pushed)), popped>>
  BY ListFifo, PartsOfNext, QueuesAssumption
<1>4. TwoList!IInv /\ [MCNext]_allVars =>
         [TwoList!Fifo!Next]_<<lists[active] \o lists[TwoList!standby], swap_popped>>
  BY SwapFifo, PartsOfNext, QueuesAssumption
<1>5. Ring!IInv /\ [MCNext]_allVars => RingFifoStep
  BY RingStep, PartsOfNext, QueuesAssumption
<1>6. MCSpec => LockFree!ImplementsFifo
  BY LockFreeInductive, <1>1, <1>2, PTL DEF MCSpec, LockFree!ImplementsFifo, LockFree!Fifo!Spec
<1>7. MCSpec => TwoLock!ImplementsFifo
  BY TwoLockInductive, <1>1, <1>3, PTL DEF MCSpec, TwoLock!ImplementsFifo, TwoLock!Fifo!Spec
<1>8. MCSpec => TwoList!ImplementsFifo
  BY SwapInductive, <1>1, <1>4, PTL DEF MCSpec, TwoList!ImplementsFifo, TwoList!Fifo!Spec
<1>9. MCSpec => Ring!ImplementsFifo
  BY RingInductive, <1>1, <1>5, PTL
  DEF MCSpec, Ring!ImplementsFifo, Ring!Fifo!OverwritingSpec, RingFifoStep
<1> QED BY <1>6, <1>7, <1>8, <1>9, PTL DEF QueuesAreFifo

(* What push and pop return of the queue's size is within the ring, though *)
(* it is computed from indices that other threads have moved since         *)
(* (LockFreeQueue, DisruptorSingleWrite).                                  *)
THEOREM SizesTrue == ASSUME RootsGate PROVE MCSpec => []SizeTrue
<1>1. LockFree!IInv => LockFree!SizeTrue
  BY DEF LockFree!IInv
<1>2. MCSpec => []ResultInRange
  BY SingleProjection, SingleResults, PTL
<1> QED BY LockFreeInductive, <1>1, <1>2, PTL DEF SizeTrue

(* No thread of SL_Utility_TwoLockQueue reads or writes through a node     *)
(* that was deleted, and no node is deleted twice.                         *)
THEOREM NothingDangles == MCSpec => []NoDangling
<1>1. TwoLock!IInv => NoDangling
  BY ListNothingDangles, QueuesAssumption DEF NoDangling
<1> QED BY TwoLockInductive, <1>1, PTL
=============================================================================
