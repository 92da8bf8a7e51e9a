----------------------- MODULE DisruptorLockFreeProofs ----------------------
(***************************************************************************)
(* Theorems about DisruptorLockFree, for every set of publishers and       *)
(* handlers, every topology, every capacity and every retry count.         *)
(***************************************************************************)
EXTENDS DisruptorLockFree, DisruptorHandlerProofs

LEMMA InitType == Init => TypeOK
BY HandlerAssumption DEF Init, HandlerInit, TypeOK, HandlerTypeOK, Events, HandlerPCs, PublisherPCs

LEMMA PublisherType ==
    ASSUME TypeOK, NEW p \in Publishers, PushUser(p) \/ PushQuit(p) \/ PublisherStep(p)
    PROVE  TypeOK'
<1> USE HandlerAssumption, LockFreeAssumption
    DEF TypeOK, ringVars, signalVars, handlerVars, publisherVars, PublisherPCs, Threads
<1>0. ASSUME NEW r \in Int, Return(p, r)
      PROVE  /\ ppc' \in [Publishers -> PublisherPCs]
             /\ results' \in [Publishers -> Seq(Int)]
  <2>1. Append(results[p], r) \in Seq(Int)
    OBVIOUS
  <2> QED BY <1>0, <2>1 DEF Return
<1>1. ASSUME NEW e \in Events, NEW r \in Nat \cup {-1}, Push(p, e, r)
      PROVE  TypeOK'
  <2>1. CASE Gating # {}
    <3>1. /\ ppc' = [ppc EXCEPT ![p] = "load"]
          /\ event' = [event EXCEPT ![p] = e]
          /\ redo' = [redo EXCEPT ![p] = r]
          /\ UNCHANGED results
      BY <1>1, <2>1 DEF Push
    <3>2. /\ ppc' \in [Publishers -> PublisherPCs]
          /\ event' \in [Publishers -> Events]
          /\ redo' \in [Publishers -> Nat \cup {-1}]
          /\ results' \in [Publishers -> Seq(Int)]
      BY <3>1
    <3> QED BY <1>1, <3>2 DEF Push, HandlerTypeOK
  <2>2. CASE Gating = {}
    BY <1>0, <1>1, <2>2, SMTT(60) DEF Push, HandlerTypeOK
  <2> QED BY <2>1, <2>2
<1>2. CASE PushUser(p)
  <2>1. PICK r \in Redo : Push(p, <<p, Len(results[p]) + 1>>, r)
    BY <1>2 DEF PushUser
  <2>2. <<p, Len(results[p]) + 1>> \in Events
    BY <2>1 DEF Push, Events, UserEvents
  <2> QED BY <1>1, <2>1, <2>2
<1>3. CASE PushQuit(p)
  BY <1>1, <1>3 DEF PushQuit, Events
<1>4. CASE LoadNext(p)
  BY <1>4 DEF LoadNext, HandlerTypeOK
<1>5. ASSUME Retry(p)
      PROVE  /\ ppc' \in [Publishers -> PublisherPCs]
             /\ redo' \in [Publishers -> Nat \cup {-1}]
             /\ results' \in [Publishers -> Seq(Int)]
  <2>1. CASE redo[p] = 1
    BY <1>0, <1>5, <2>1 DEF Retry
  <2>2. CASE redo[p] # 1
    <3>1. /\ redo' = [redo EXCEPT ![p] = IF redo[p] > 1 THEN redo[p] - 1 ELSE redo[p]]
          /\ ppc' = [ppc EXCEPT ![p] = "load"]
          /\ UNCHANGED results
      BY <1>5, <2>2 DEF Retry
    <3>2. (IF redo[p] > 1 THEN redo[p] - 1 ELSE redo[p]) \in Nat \cup {-1}
      OBVIOUS
    <3> QED BY <3>1, <3>2
  <2> QED BY <2>1, <2>2
<1>6. CASE ScanDependent(p)
  <2> USE DEF HandlerTypeOK
  <2>1. PICK h \in unscanned[p] :
          LET m == IF unscanned[p] = Gating THEN handler_index[h]
                                            ELSE MinOf(min_index[p], handler_index[h])
          IN  /\ min_index' = [min_index EXCEPT ![p] = m]
              /\ unscanned' = [unscanned EXCEPT ![p] = @ \ {h}]
              /\ IF unscanned[p] # {h}
                 THEN UNCHANGED <<ppc, redo, results>>
                 ELSE IF loaded[p] - m < Capacity
                      THEN /\ ppc' = [ppc EXCEPT ![p] = "cas"]
                           /\ UNCHANGED <<redo, results>>
                      ELSE Retry(p)
    BY <1>6 DEF ScanDependent
  <2>2. min_index' \in [Publishers -> Nat]
    BY <2>1 DEF MinOf
  <2>3. unscanned' \in [Publishers -> SUBSET Handlers]
    BY <2>1
  <2>4. /\ ppc' \in [Publishers -> PublisherPCs]
        /\ redo' \in [Publishers -> Nat \cup {-1}]
        /\ results' \in [Publishers -> Seq(Int)]
    <3>1. CASE Retry(p)
      BY <1>5, <3>1
    <3>2. CASE UNCHANGED <<ppc, redo, results>>
      BY <3>2
    <3>3. CASE ppc' = [ppc EXCEPT ![p] = "cas"] /\ UNCHANGED <<redo, results>>
      BY <3>3
    <3> QED BY <2>1, <3>1, <3>2, <3>3
  <2> QED BY <1>6, <2>2, <2>3, <2>4 DEF ScanDependent
<1>7. CASE ClaimIndex(p)
  <2>1. CASE next_index = loaded[p]
    <3>1. /\ next_index' = next_index + 1
          /\ ppc' = [ppc EXCEPT ![p] = "copy"]
          /\ UNCHANGED <<redo, results>>
      BY <1>7, <2>1 DEF ClaimIndex
    <3>2. next_index' \in Nat /\ ppc' \in [Publishers -> PublisherPCs]
      BY <3>1
    <3> QED BY <1>7, <3>1, <3>2 DEF ClaimIndex, HandlerTypeOK
  <2>2. CASE next_index # loaded[p]
    BY <1>5, <1>7, <2>2 DEF ClaimIndex, HandlerTypeOK
  <2> QED BY <2>1, <2>2
<1>8. CASE CopyEvent(p)
  BY <1>8, SlotInRing DEF CopyEvent, HandlerTypeOK
<1>9. CASE Publish(p)
  <2>1. Append(log, event[p]) \in Seq(Events)
    BY DEF HandlerTypeOK
  <2>2. Return(p, loaded[p] - min_index[p] + 1)
    BY <1>9 DEF Publish
  <2>3. /\ ppc' \in [Publishers -> PublisherPCs]
        /\ results' \in [Publishers -> Seq(Int)]
    BY <1>0, <2>2
  <2>4. /\ cursor_index' \in Nat
        /\ log' \in Seq(Events)
        /\ to_signal' \in [Threads -> SUBSET Handlers]
    BY <1>9, <2>1 DEF Publish, HandlerTypeOK
  <2>5. UNCHANGED <<event_pool, handlerVars, timedwait_flag, signalled, aim,
                    next_index, loaded, min_index, unscanned, event, redo>>
    BY <1>9 DEF Publish
  <2> QED BY <2>3, <2>4, <2>5 DEF HandlerTypeOK
<1>10. CASE PublisherSignals(p)
  BY <1>10, TestFlagType, SignalType DEF PublisherSignals, HandlerTypeOK
<1> QED
  BY <1>2, <1>3, <1>4, <1>6, <1>7, <1>8, <1>9, <1>10 DEF PublisherStep

LEMMA NextType ==
    ASSUME TypeOK, [Next]_vars
    PROVE  TypeOK'
<1>1. ASSUME NEW p \in Publishers, PushUser(p) \/ PushQuit(p) \/ PublisherStep(p)
      PROVE  TypeOK'
  BY <1>1, PublisherType
<1>2. ASSUME NEW h \in Handlers, HandlerNext(h)
      PROVE  TypeOK'
  BY <1>2, HandlerStepType DEF HandlerNext, TypeOK, publisherVars
<1>3. CASE UNCHANGED vars
  BY <1>3 DEF vars, TypeOK, HandlerTypeOK, ringVars, handlerVars, signalVars, publisherVars
<1> QED
  BY <1>1, <1>2, <1>3 DEF Next

(* Every variable of the queue and of its handlers keeps its type.         *)
THEOREM TypeCorrect == Spec => []TypeOK
<1>1. TypeOK /\ [Next]_vars => TypeOK'
  BY NextType
<1> QED
  BY InitType, <1>1, PTL DEF Spec

-----------------------------------------------------------------------------
(* The inductive invariant: the initial state.                             *)

LEMMA InitInv == Init => IInv
<1> SUFFICES ASSUME Init PROVE IInv
  OBVIOUS
<1> USE HandlerAssumption DEF Init, HandlerInit, Roots
<1>1. TypeOK
  BY InitType
<1>2. HandlerInv
  BY <1>1 DEF TypeOK, HandlerInv, RootsBehindCursor, RingKept, DeliveredInOrder, IsPrefixOf
<1>3. ReadsAreLowerBounds
  BY DEF ReadsAreLowerBounds
<1>4. ClaimsUnpublished
  BY DEF ClaimsUnpublished, Claimed
<1>5. CopiedStays
  BY DEF CopiedStays
<1>6. SlotSafe
  BY <1>2 DEF HandlerInv, SlotSafe, Claimed
<1> QED
  BY <1>1, <1>2, <1>3, <1>4, <1>5, <1>6 DEF IInv

-----------------------------------------------------------------------------
(* Steps of a handler.                                                     *)

LEMMA HandlerStepInv ==
    ASSUME IInv, NEW h \in Handlers, HandlerNext(h)
    PROVE  IInv'
<1>1. /\ HandlerStep(h)
      /\ UNCHANGED <<next_index, publisherVars>>
  BY DEF HandlerNext
<1>2. TypeOK'
  BY <1>1, HandlerStepType DEF IInv, TypeOK, publisherVars
<1>3. /\ HandlerInv'
      /\ UNCHANGED ringVars
      /\ \A g \in Roots : handler_index[g] <= handler_index'[g]
  BY <1>1, HandlerKeeps DEF IInv
<1> USE <1>1, <1>3 DEF ringVars, publisherVars
<1>7. \A g \in Roots : /\ g \in Handlers
                       /\ handler_index[g] \in Nat
                       /\ handler_index'[g] \in Nat
  BY <1>2 DEF Roots, IInv, TypeOK, HandlerTypeOK
<1>8. ReadsAreLowerBounds'
  <2>1. \A p \in Publishers : min_index[p] \in Nat /\ loaded[p] \in Nat
    BY DEF IInv, TypeOK
  <2> QED
    BY <1>7, <2>1, HandlerAssumption DEF IInv, ReadsAreLowerBounds, Roots
<1>9. ClaimsUnpublished'
  BY DEF IInv, ClaimsUnpublished, Claimed
<1>10. CopiedStays'
  BY DEF IInv, CopiedStays, Roots
<1>11. SlotSafe'
  <2>1. cursor_index \in Nat /\ \A p \in Publishers : loaded[p] \in Nat
    BY DEF IInv, TypeOK, HandlerTypeOK
  <2> QED
    BY <1>7, <2>1, HandlerAssumption DEF IInv, HandlerInv, SlotSafe, Roots, Claimed
<1> QED
  BY <1>2, <1>8, <1>9, <1>10, <1>11 DEF IInv

-----------------------------------------------------------------------------
(* Steps of a publisher.  Every one of them leaves the handlers alone.     *)

(* The steps that neither claim nor copy nor publish: the ring, its        *)
(* indices and the claims stay, so only what was read is at stake.         *)
LEMMA ReadingStep ==
    ASSUME IInv, TypeOK', UNCHANGED <<ringVars, handlerVars, next_index>>,
           NEW p \in Publishers,
           \A q \in Publishers : q # p => /\ ppc'[q] = ppc[q]
                                          /\ loaded'[q] = loaded[q]
                                          /\ min_index'[q] = min_index[q]
                                          /\ unscanned'[q] = unscanned[q]
                                          /\ event'[q] = event[q],
           ~Claimed(p), ~Claimed(p)',
           loaded'[p] <= next_index,
           unscanned'[p] \subseteq Gating,
           ppc'[p] = "scan" =>
              \A h \in Roots : h \notin unscanned'[p] => min_index'[p] <= handler_index[h],
           ppc'[p] = "cas" => \A h \in Roots : loaded'[p] < handler_index[h] + Capacity
    PROVE  IInv'
<1> USE DEF ringVars, handlerVars
<1>1. HandlerInv'
  BY OthersKeep DEF IInv, TypeOK
<1>3. ReadsAreLowerBounds'
  BY DEF IInv, ReadsAreLowerBounds, Roots
<1>4. \A q \in Publishers : Claimed(q)' => /\ q # p
                                           /\ Claimed(q)
                                           /\ loaded'[q] = loaded[q]
                                           /\ event'[q] = event[q]
                                           /\ ppc'[q] = ppc[q]
  BY DEF Claimed
<1>5. ClaimsUnpublished'
  BY <1>4 DEF IInv, ClaimsUnpublished
<1>6. CopiedStays'
  BY <1>4 DEF IInv, CopiedStays, Roots, Claimed
<1>7. SlotSafe'
  BY <1>1, <1>4 DEF IInv, HandlerInv, SlotSafe, Roots
<1> QED
  BY <1>1, <1>3, <1>5, <1>6, <1>7 DEF IInv

LEMMA ClaimStep ==
    ASSUME IInv, TypeOK', NEW p \in Publishers, ClaimIndex(p), next_index = loaded[p]
    PROVE  IInv'
<1> USE DEF ringVars, handlerVars, signalVars
<1>1. /\ ppc[p] = "cas"
      /\ next_index' = next_index + 1
      /\ ppc' = [ppc EXCEPT ![p] = "copy"]
      /\ UNCHANGED <<ringVars, handlerVars, loaded, min_index, unscanned, event>>
  BY DEF ClaimIndex
<1>2. /\ next_index \in Nat
      /\ cursor_index \in Nat
      /\ ppc \in [Publishers -> PublisherPCs]
      /\ \A q \in Publishers : loaded[q] \in Nat /\ min_index[q] \in Nat
      /\ \A h \in Roots : handler_index[h] \in Nat
  BY DEF IInv, TypeOK, HandlerTypeOK, Roots
<1>3. /\ Claimed(p)' /\ ~Claimed(p)
      /\ \A q \in Publishers : q # p => ppc'[q] = ppc[q] /\ (Claimed(q)' <=> Claimed(q))
      /\ ppc'[p] = "copy"
  BY <1>1, <1>2 DEF Claimed
<1>4. HandlerInv'
  BY <1>1, OthersKeep DEF IInv, TypeOK
<1>6. ReadsAreLowerBounds'
  BY <1>1, <1>2, <1>3 DEF IInv, ReadsAreLowerBounds, Roots
<1>7. ClaimsUnpublished'
  <2>1. \A q \in Publishers : Claimed(q) => loaded[q] < loaded[p]
    BY DEF IInv, ClaimsUnpublished
  <2> QED
    BY <1>1, <1>2, <1>3, <2>1 DEF IInv, ClaimsUnpublished
<1>8. CopiedStays'
  BY <1>1, <1>3 DEF IInv, CopiedStays, Roots
<1>9. SlotSafe'
  <2>1. \A h \in Roots : loaded[p] < handler_index[h] + Capacity
    BY <1>1 DEF IInv, ReadsAreLowerBounds
  <2> QED
    BY <1>1, <1>3, <1>4, <2>1 DEF IInv, HandlerInv, SlotSafe, Roots
<1> QED
  BY <1>4, <1>6, <1>7, <1>8, <1>9 DEF IInv

(* The copy reaches no slot that is still to be consumed or published.     *)
LEMMA CopyStep ==
    ASSUME IInv, TypeOK', NEW p \in Publishers, CopyEvent(p)
    PROVE  IInv'
<1> USE DEF handlerVars, signalVars
<1>1. /\ ppc[p] = "copy"
      /\ event_pool' = [event_pool EXCEPT ![SlotOf(loaded[p])] = event[p]]
      /\ ppc' = [ppc EXCEPT ![p] = "publish"]
      /\ UNCHANGED <<cursor_index, log, handlerVars, next_index, loaded, min_index,
                     unscanned, event>>
  BY DEF CopyEvent
<1>2. /\ cursor_index \in Nat
      /\ ppc \in [Publishers -> PublisherPCs]
      /\ event_pool \in [Slots -> Events \cup {Garbage}]
      /\ \A q \in Publishers : loaded[q] \in Nat
      /\ \A h \in Roots : handler_index[h] \in Nat
      /\ Capacity \in Nat
  BY HandlerAssumption DEF IInv, TypeOK, HandlerTypeOK, Roots
<1>3. /\ Claimed(p) /\ ppc'[p] = "publish"
      /\ \A q \in Publishers : q # p => ppc'[q] = ppc[q]
      /\ \A q \in Publishers : Claimed(q)' <=> Claimed(q)
  BY <1>1, <1>2 DEF Claimed
<1>4. \A i \in Nat : i # loaded[p] /\ loaded[p] < i + Capacity /\ i < loaded[p] + Capacity
                     => event_pool'[SlotOf(i)] = event_pool[SlotOf(i)]
  <2> SUFFICES ASSUME NEW i \in Nat, i # loaded[p], loaded[p] < i + Capacity,
                      i < loaded[p] + Capacity
               PROVE  event_pool'[SlotOf(i)] = event_pool[SlotOf(i)]
    OBVIOUS
  <2>1. SlotOf(i) # SlotOf(loaded[p])
    BY <1>2, SlotsDiffer
  <2>2. SlotOf(i) \in Slots
    BY SlotInRing
  <2> QED BY <1>1, <1>2, <2>1, <2>2
<1>5. ASSUME NEW h \in Roots
      PROVE  /\ cursor_index <= loaded[p]
             /\ loaded[p] < handler_index[h] + Capacity
             /\ handler_index[h] <= cursor_index
  <2>1. current_index[h] \in Nat /\ handler_index[h] \in Nat
    BY DEF IInv, TypeOK, HandlerTypeOK, Roots
  <2>2. handler_index[h] <= current_index[h] /\ current_index[h] <= cursor_index
    BY DEF IInv, HandlerInv, RootsBehindCursor
  <2>3. cursor_index <= loaded[p] /\ loaded[p] < handler_index[h] + Capacity
    BY <1>3 DEF IInv, ClaimsUnpublished, SlotSafe
  <2> QED BY <1>2, <2>1, <2>2, <2>3
<1>6. HandlerInv'
  <2>1. cursor_index <= loaded[p] /\ loaded[p] \in Nat
    BY <1>2, <1>3 DEF IInv, ClaimsUnpublished
  <2>2. HandlerInv /\ HandlerTypeOK' /\ UNCHANGED <<cursor_index, log, handlerVars>>
    BY <1>1 DEF IInv, TypeOK
  <2> QED BY <1>1, <1>5, <2>1, <2>2, CopyKeeps
<1>8. ReadsAreLowerBounds'
  BY <1>1, <1>3 DEF IInv, ReadsAreLowerBounds, Roots
<1>9. ClaimsUnpublished'
  BY <1>1, <1>3 DEF IInv, ClaimsUnpublished
<1>10. CopiedStays'
  <2> SUFFICES ASSUME NEW h \in Roots, NEW q \in Publishers, ppc'[q] = "publish"
               PROVE  event_pool'[SlotOf(loaded[q])] = event[q]
    BY <1>1 DEF CopiedStays, Roots
  <2>1. CASE q = p
    BY <1>1, <1>2, <2>1, SlotInRing
  <2>2. CASE q # p
    <3>1. ppc[q] = "publish" /\ Claimed(q)
      BY <1>3, <2>2 DEF Claimed
    <3>2. /\ loaded[q] # loaded[p]
          /\ cursor_index <= loaded[q]
          /\ loaded[q] < handler_index[h] + Capacity
      BY <1>3, <2>2, <3>1 DEF IInv, ClaimsUnpublished, SlotSafe
    <3>3. event_pool'[SlotOf(loaded[q])] = event_pool[SlotOf(loaded[q])]
      BY <1>2, <1>4, <1>5, <3>2
    <3> QED BY <3>1, <3>3 DEF IInv, CopiedStays
  <2> QED BY <2>1, <2>2
<1>11. SlotSafe'
  BY <1>1, <1>3, <1>6 DEF IInv, HandlerInv, SlotSafe, Roots
<1> QED
  BY <1>6, <1>8, <1>9, <1>10, <1>11 DEF IInv

LEMMA PublishStep ==
    ASSUME IInv, TypeOK', NEW p \in Publishers, Publish(p)
    PROVE  IInv'
<1> USE DEF handlerVars
<1>1. /\ ppc[p] = "publish"
      /\ cursor_index = loaded[p]
      /\ cursor_index' = cursor_index + 1
      /\ log' = Append(log, event[p])
      /\ ppc' = [ppc EXCEPT ![p] = "idle"]
      /\ UNCHANGED <<event_pool, handlerVars, next_index, loaded, min_index, unscanned, event>>
  BY DEF Publish, Return
<1>2. /\ cursor_index \in Nat
      /\ event[p] \in Events
      /\ next_index \in Nat
      /\ ppc \in [Publishers -> PublisherPCs]
      /\ \A q \in Publishers : loaded[q] \in Nat
  BY DEF IInv, TypeOK, HandlerTypeOK
<1>3. /\ Claimed(p) /\ ~Claimed(p)'
      /\ \A q \in Publishers : q # p => ppc'[q] = ppc[q] /\ (Claimed(q)' <=> Claimed(q))
      /\ ppc'[p] = "idle"
  BY <1>1, <1>2 DEF Claimed
<1>4. HandlerInv'
  <2>1. \A h \in Roots : event_pool[SlotOf(cursor_index)] = event[p]
    BY <1>1 DEF IInv, CopiedStays
  <2> QED BY <1>1, <1>2, <2>1, PublishKeeps DEF IInv, TypeOK
<1>7. ReadsAreLowerBounds'
  BY <1>1, <1>3 DEF IInv, ReadsAreLowerBounds, Roots
<1>8. ClaimsUnpublished'
  <2>1. loaded[p] < next_index
    BY <1>3 DEF IInv, ClaimsUnpublished
  <2>2. \A q \in Publishers : Claimed(q)' => q # p /\ Claimed(q) /\ loaded[q] # loaded[p]
    BY <1>3 DEF IInv, ClaimsUnpublished
  <2> QED
    BY <1>1, <1>2, <2>1, <2>2 DEF IInv, ClaimsUnpublished
<1>9. CopiedStays'
  BY <1>1, <1>3 DEF IInv, CopiedStays, Roots
<1>10. SlotSafe'
  BY <1>1, <1>3, <1>4 DEF IInv, HandlerInv, SlotSafe, Roots
<1> QED
  BY <1>4, <1>7, <1>8, <1>9, <1>10 DEF IInv

(* Every other step of a publisher is a reading step.                      *)
LEMMA PublisherStepInv ==
    ASSUME IInv, NEW p \in Publishers, PushUser(p) \/ PushQuit(p) \/ PublisherStep(p)
    PROVE  IInv'
<1>1. TypeOK'
  BY PublisherType DEF IInv
<1>2. /\ ppc \in [Publishers -> PublisherPCs]
      /\ next_index \in Nat
      /\ loaded \in [Publishers -> Nat]
      /\ min_index \in [Publishers -> Nat]
      /\ unscanned \in [Publishers -> SUBSET Handlers]
      /\ event \in [Publishers -> Events]
      /\ \A h \in Roots : h \in Gating /\ handler_index[h] \in Nat
      /\ Capacity \in Nat
  BY HandlerAssumption DEF IInv, TypeOK, HandlerTypeOK, Roots
<1>3. /\ loaded[p] <= next_index
      /\ unscanned[p] \subseteq Gating
      /\ ppc[p] = "scan" =>
            \A h \in Roots : h \notin unscanned[p] => min_index[p] <= handler_index[h]
      /\ ppc[p] = "cas" => \A h \in Roots : loaded[p] < handler_index[h] + Capacity
  BY DEF IInv, ReadsAreLowerBounds
<1>4. ASSUME NEW e, NEW r, Push(p, e, r)
      PROVE  IInv'
  <2>1. ppc[p] = "idle" /\ ppc'[p] \in {"idle", "load"}
    BY <1>2, <1>4 DEF Push, Return
  <2>2. /\ UNCHANGED <<ringVars, handlerVars, next_index, loaded, min_index, unscanned>>
        /\ \A q \in Publishers : q # p => ppc'[q] = ppc[q] /\ event'[q] = event[q]
    BY <1>2, <1>4 DEF Push, Return
  <2> QED BY <1>1, <1>3, <2>1, <2>2, ReadingStep DEF Claimed
<1>5. CASE PushUser(p) \/ PushQuit(p)
  BY <1>4, <1>5 DEF PushUser, PushQuit
<1>6. CASE LoadNext(p)
  <2>1. /\ ppc[p] = "load" /\ ppc'[p] = "scan"
        /\ loaded'[p] = next_index
        /\ unscanned'[p] = Gating
        /\ UNCHANGED <<ringVars, handlerVars, next_index, min_index, event>>
        /\ \A q \in Publishers : q # p => /\ ppc'[q] = ppc[q]
                                          /\ loaded'[q] = loaded[q]
                                          /\ unscanned'[q] = unscanned[q]
    BY <1>2, <1>6 DEF LoadNext
  <2> QED BY <1>1, <1>2, <1>3, <2>1, ReadingStep DEF Claimed
<1>7. ASSUME Retry(p)
      PROVE  /\ ppc'[p] \in {"idle", "load"}
             /\ \A q \in Publishers : q # p => ppc'[q] = ppc[q]
  BY <1>2, <1>7 DEF Retry, Return
<1>8. CASE ScanDependent(p)
  <2>1. PICK h \in unscanned[p] :
          LET m == IF unscanned[p] = Gating THEN handler_index[h]
                                            ELSE MinOf(min_index[p], handler_index[h])
          IN  /\ min_index' = [min_index EXCEPT ![p] = m]
              /\ unscanned' = [unscanned EXCEPT ![p] = @ \ {h}]
              /\ IF unscanned[p] # {h}
                 THEN UNCHANGED <<ppc, redo, results>>
                 ELSE IF loaded[p] - m < Capacity
                      THEN /\ ppc' = [ppc EXCEPT ![p] = "cas"]
                           /\ UNCHANGED <<redo, results>>
                      ELSE Retry(p)
    BY <1>8 DEF ScanDependent
  <2> DEFINE m == IF unscanned[p] = Gating THEN handler_index[h]
                                           ELSE MinOf(min_index[p], handler_index[h])
  <2>2. handler_index[h] \in Nat /\ m \in Nat
    BY <1>2 DEF MinOf, IInv, TypeOK, HandlerTypeOK
  <2>3. ppc[p] = "scan" /\ UNCHANGED <<ringVars, handlerVars, next_index, loaded, event>>
    BY <1>8 DEF ScanDependent
  <2>4. \A g \in Roots : g \notin unscanned[p] \ {h} => m <= handler_index[g]
    BY <1>2, <1>3, <2>2, <2>3 DEF MinOf
  <2>5. /\ min_index'[p] = m
        /\ unscanned'[p] = unscanned[p] \ {h}
        /\ \A q \in Publishers : q # p => /\ min_index'[q] = min_index[q]
                                          /\ unscanned'[q] = unscanned[q]
    BY <1>2, <2>1
  <2>6. /\ ppc'[p] \in {"scan", "cas", "load", "idle"}
        /\ ppc'[p] = "cas" => unscanned[p] = {h} /\ loaded[p] - m < Capacity
        /\ \A q \in Publishers : q # p => ppc'[q] = ppc[q]
    <3> HIDE DEF m
    <3>1. CASE unscanned[p] # {h}
      BY <1>2, <2>1, <2>3, <3>1 DEF m
    <3>2. CASE unscanned[p] = {h} /\ loaded[p] - m < Capacity
      BY <1>2, <2>1, <3>2 DEF m
    <3>3. CASE unscanned[p] = {h} /\ ~(loaded[p] - m < Capacity)
      BY <1>7, <2>1, <3>3 DEF m
    <3> QED BY <3>1, <3>2, <3>3
  <2> HIDE DEF m
  <2>7. ppc'[p] = "cas" => \A g \in Roots : loaded[p] < handler_index[g] + Capacity
    <3> SUFFICES ASSUME ppc'[p] = "cas", NEW g \in Roots
                 PROVE  loaded[p] < handler_index[g] + Capacity
      OBVIOUS
    <3>1. m <= handler_index[g]
      BY <2>4, <2>6
    <3> QED BY <1>2, <2>2, <2>6, <3>1
  <2>8. ~Claimed(p) /\ ~Claimed(p)'
    BY <2>3, <2>6 DEF Claimed
  <2>9. /\ loaded'[p] <= next_index
        /\ unscanned'[p] \subseteq Gating
        /\ ppc'[p] = "scan" =>
              \A g \in Roots : g \notin unscanned'[p] => min_index'[p] <= handler_index[g]
        /\ ppc'[p] = "cas" => \A g \in Roots : loaded'[p] < handler_index[g] + Capacity
    BY <1>3, <2>3, <2>4, <2>5, <2>7
  <2> QED BY <1>1, <2>3, <2>5, <2>6, <2>8, <2>9, ReadingStep
<1>9. CASE ClaimIndex(p)
  <2>1. CASE next_index = loaded[p]
    BY <1>1, <1>9, <2>1, ClaimStep
  <2>2. CASE next_index # loaded[p]
    <3>1. /\ ppc[p] = "cas"
          /\ UNCHANGED <<ringVars, handlerVars, next_index, loaded, min_index, unscanned, event>>
          /\ Retry(p)
      BY <1>9, <2>2 DEF ClaimIndex
    <3> QED BY <1>1, <1>3, <1>7, <3>1, ReadingStep DEF Claimed
  <2> QED BY <2>1, <2>2
<1>10. CASE CopyEvent(p)
  BY <1>1, <1>10, CopyStep
<1>11. CASE Publish(p)
  BY <1>1, <1>11, PublishStep
<1>12. CASE PublisherSignals(p)
  <2>1. UNCHANGED <<ringVars, handlerVars, next_index, ppc, loaded, min_index, unscanned, event>>
    BY <1>12 DEF PublisherSignals, publisherVars
  <2> QED
    BY <1>1, <2>1, OthersKeep DEF IInv, TypeOK, HandlerInv, ReadsAreLowerBounds,
       ClaimsUnpublished, CopiedStays, SlotSafe, Roots, Claimed, ringVars, handlerVars
<1> QED
  BY <1>5, <1>6, <1>8, <1>9, <1>10, <1>11, <1>12 DEF PublisherStep

LEMMA NextInv ==
    ASSUME IInv, [Next]_vars
    PROVE  IInv'
<1>1. CASE UNCHANGED vars
  <2>1. TypeOK'
    BY NextType DEF IInv
  <2> QED
    BY <1>1, <2>1, OthersKeep DEF IInv, TypeOK, HandlerInv, ReadsAreLowerBounds,
       ClaimsUnpublished, CopiedStays, SlotSafe, Roots, Claimed, vars, ringVars,
       handlerVars, publisherVars
<1> QED
  BY <1>1, HandlerStepInv, PublisherStepInv DEF Next

(* The conjunction of what the publishers and the root handlers rely on is *)
(* an invariant of every queue.                                            *)
THEOREM Inductive == Spec => []IInv
<1>1. IInv /\ [Next]_vars => IInv'
  BY NextInv
<1> QED
  BY InitInv, <1>1, PTL DEF Spec

(* push never claims or overwrites a slot a gating root handler has still  *)
(* to consume.                                                             *)
THEOREM NoOverwrite == Spec => []SlotSafe
<1>1. IInv => SlotSafe
  BY DEF IInv
<1> QED
  BY Inductive, <1>1, PTL

(* thread_proc gives a gating root handler a prefix of the published       *)
(* events, and it stops at a quit event only.                              *)
THEOREM HandledInOrder == Spec => []DeliveredInOrder
<1>1. IInv => DeliveredInOrder
  BY DEF IInv, HandlerInv
<1> QED
  BY Inductive, <1>1, PTL

-----------------------------------------------------------------------------
(* The queue implements the event log.                                     *)

LEMMA NextLogs ==
    ASSUME IInv, [Next]_vars
    PROVE  [Log!Next]_(Log!logVars)
<1>1. ASSUME NEW h \in Handlers, HandlerNext(h)
      PROVE  [Log!Next]_(Log!logVars)
  BY <1>1, HandlerLogs DEF HandlerNext, IInv
<1>2. ASSUME NEW p \in Publishers, Publish(p)
      PROVE  [Log!Next]_(Log!logVars)
  BY <1>2, PublishLogs DEF Publish, IInv, TypeOK
<1>3. ASSUME NEW p \in Publishers, CopyEvent(p)
      PROVE  UNCHANGED Log!logVars
  BY <1>3 DEF CopyEvent, handlerVars, Log!logVars, Roots
<1>4. ASSUME NEW p \in Publishers,
             \/ PushUser(p) \/ PushQuit(p) \/ LoadNext(p) \/ ScanDependent(p)
             \/ ClaimIndex(p) \/ PublisherSignals(p)
      PROVE  UNCHANGED Log!logVars
  <2>1. UNCHANGED <<ringVars, handlerVars>>
    BY <1>4 DEF PushUser, PushQuit, Push, LoadNext, ScanDependent, ClaimIndex, PublisherSignals
  <2> QED BY <2>1, OthersLog
<1>5. CASE UNCHANGED vars
  BY <1>5, OthersLog DEF vars
<1> QED
  BY <1>1, <1>2, <1>3, <1>4, <1>5 DEF Next, PublisherStep

(* With its ring, indices, retries and stale reads, the queue does nothing *)
(* but append to one log and give each gating root handler the log's next  *)
(* event, or its end at a quit event.                                      *)
THEOREM Implements == Spec => ImplementsLog
<1>1. Init => Log!Init
  BY InitLogs DEF Init
<1>2. IInv /\ [Next]_vars => [Log!Next]_(Log!logVars)
  BY NextLogs
<1> QED
  BY Inductive, <1>1, <1>2, PTL DEF Spec, ImplementsLog, Log!Spec

-----------------------------------------------------------------------------
(* Claims have no gap.                                                     *)

(* The steps that neither claim nor publish.                               *)
LEMMA SameClaims ==
    ASSUME NoGap, UNCHANGED <<cursor_index, next_index>>,
           \A q \in Publishers : Claimed(q) => Claimed(q)' /\ loaded'[q] = loaded[q]
    PROVE  NoGap'
BY DEF NoGap

LEMMA NextNoGap ==
    ASSUME IInv, NoGap, [Next]_vars
    PROVE  NoGap'
<1>1. /\ cursor_index \in Nat /\ next_index \in Nat
      /\ ppc \in [Publishers -> PublisherPCs]
      /\ loaded \in [Publishers -> Nat]
  BY DEF IInv, TypeOK, HandlerTypeOK
<1>2. CASE UNCHANGED vars
  BY <1>2, SameClaims DEF vars, ringVars, publisherVars, Claimed
<1>3. ASSUME NEW h \in Handlers, HandlerNext(h)
      PROVE  NoGap'
  <2>1. UNCHANGED ringVars
    BY <1>3, HandlerKeeps DEF HandlerNext, IInv
  <2> QED BY <1>3, <2>1, SameClaims DEF HandlerNext, ringVars, publisherVars, Claimed
<1>4. ASSUME NEW p \in Publishers, ClaimIndex(p), next_index = loaded[p]
      PROVE  NoGap'
  <2>1. /\ next_index' = next_index + 1
        /\ ppc' = [ppc EXCEPT ![p] = "copy"]
        /\ UNCHANGED <<cursor_index, loaded>>
    BY <1>4 DEF ClaimIndex, ringVars
  <2>2. \A q \in Publishers : Claimed(q) => Claimed(q)'
    BY <1>1, <2>1 DEF Claimed
  <2>3. Claimed(p)' /\ loaded'[p] = next_index
    BY <1>1, <1>4, <2>1 DEF Claimed
  <2>4. \A i \in cursor_index' .. next_index' - 1 :
           i = next_index \/ i \in cursor_index .. next_index - 1
    BY <1>1, <2>1
  <2> QED BY <2>1, <2>2, <2>3, <2>4 DEF NoGap
<1>5. ASSUME NEW p \in Publishers, Publish(p)
      PROVE  NoGap'
  <2>1. /\ cursor_index = loaded[p]
        /\ cursor_index' = cursor_index + 1
        /\ ppc' = [ppc EXCEPT ![p] = "idle"]
        /\ UNCHANGED <<next_index, loaded>>
    BY <1>5 DEF Publish, Return
  <2>2. \A q \in Publishers : Claimed(q) /\ q # p => Claimed(q)'
    BY <1>1, <2>1 DEF Claimed
  <2>3. \A i \in cursor_index' .. next_index' - 1 :
           i \in cursor_index .. next_index - 1 /\ i # loaded[p]
    BY <1>1, <2>1
  <2> QED BY <2>1, <2>2, <2>3 DEF NoGap
<1>6. ASSUME NEW p \in Publishers, CopyEvent(p)
      PROVE  NoGap'
  <2>1. /\ ppc' = [ppc EXCEPT ![p] = "publish"]
        /\ UNCHANGED <<cursor_index, next_index, loaded>>
    BY <1>6 DEF CopyEvent
  <2>2. \A q \in Publishers : Claimed(q) => Claimed(q)'
    BY <1>1, <2>1 DEF Claimed
  <2> QED BY <2>1, <2>2, SameClaims
<1>7. ASSUME NEW p \in Publishers, ~Claimed(p),
             \A q \in Publishers : q # p => ppc'[q] = ppc[q] /\ loaded'[q] = loaded[q],
             UNCHANGED <<cursor_index, next_index>>
      PROVE  NoGap'
  BY <1>7, SameClaims DEF Claimed
<1>8. ASSUME NEW p \in Publishers,
             \/ PushUser(p) \/ PushQuit(p) \/ LoadNext(p) \/ ScanDependent(p)
             \/ ClaimIndex(p) /\ next_index # loaded[p]
      PROVE  NoGap'
  <2>1. ASSUME Retry(p) PROVE \A q \in Publishers : q # p => ppc'[q] = ppc[q]
    BY <1>1, <2>1 DEF Retry, Return
  <2>2. ASSUME NEW e, NEW r, Push(p, e, r)
        PROVE  /\ ~Claimed(p) /\ UNCHANGED <<cursor_index, next_index, loaded>>
               /\ \A q \in Publishers : q # p => ppc'[q] = ppc[q]
    BY <1>1, <2>2 DEF Push, Return, ringVars, Claimed
  <2>3. CASE PushUser(p) \/ PushQuit(p)
    BY <1>7, <2>2, <2>3 DEF PushUser, PushQuit
  <2>4. CASE LoadNext(p)
    <3>1. /\ ~Claimed(p) /\ UNCHANGED <<cursor_index, next_index>>
          /\ \A q \in Publishers : q # p => ppc'[q] = ppc[q] /\ loaded'[q] = loaded[q]
      BY <1>1, <2>4 DEF LoadNext, ringVars, Claimed
    <3> QED BY <1>7, <3>1
  <2>5. CASE ScanDependent(p)
    <3>1. /\ ~Claimed(p) /\ UNCHANGED <<cursor_index, next_index, loaded>>
          /\ \/ Retry(p) \/ UNCHANGED ppc \/ ppc' = [ppc EXCEPT ![p] = "cas"]
      BY <2>5 DEF ScanDependent, ringVars, Claimed
    <3>2. \A q \in Publishers : q # p => ppc'[q] = ppc[q]
      BY <1>1, <2>1, <3>1
    <3> QED BY <1>7, <3>1, <3>2
  <2>6. CASE ClaimIndex(p) /\ next_index # loaded[p]
    <3>1. ~Claimed(p) /\ Retry(p) /\ UNCHANGED <<cursor_index, next_index, loaded>>
      BY <2>6 DEF ClaimIndex, ringVars, Claimed
    <3> QED BY <1>7, <2>1, <3>1
  <2> QED BY <1>8, <2>3, <2>4, <2>5, <2>6
<1>9. ASSUME NEW p \in Publishers, PublisherSignals(p)
      PROVE  NoGap'
  BY <1>9, SameClaims DEF PublisherSignals, ringVars, publisherVars, Claimed
<1> QED
  BY <1>2, <1>3, <1>4, <1>5, <1>6, <1>8, <1>9 DEF Next, PublisherStep

(* The two compare_exchange loops: no index is claimed twice, and the      *)
(* indices claimed and not yet published are all those behind the cursor.  *)
THEOREM ClaimsExact == Spec => []ClaimsDisjoint
<1>1. Init => NoGap
  BY DEF Init, HandlerInit, NoGap
<1>2. IInv /\ NoGap /\ [Next]_vars => NoGap'
  BY NextNoGap
<1>3. IInv /\ NoGap => ClaimsDisjoint
  <2> SUFFICES ASSUME IInv, NoGap PROVE ClaimsDisjoint
    OBVIOUS
  <2>1. /\ cursor_index \in Nat /\ next_index \in Nat
        /\ \A p \in Publishers : loaded[p] \in Nat
    BY DEF IInv, TypeOK, HandlerTypeOK
  <2>2. \A p \in Publishers : Claimed(p) => loaded[p] \in cursor_index .. next_index - 1
    BY <2>1 DEF IInv, ClaimsUnpublished
  <2>3. {loaded[p] : p \in {q \in Publishers : Claimed(q)}} = cursor_index .. next_index - 1
    BY <2>2 DEF NoGap
  <2> QED BY <2>3 DEF IInv, ClaimsUnpublished, ClaimsDisjoint
<1> QED
  BY Inductive, <1>1, <1>2, <1>3, PTL DEF Spec

-----------------------------------------------------------------------------
(* What push returns.                                                      *)

LEMMA SameAccounts ==
    ASSUME PushAccounted, UNCHANGED <<log, results>>
    PROVE  PushAccounted'
<1>1. ASSUME NEW p \in Publishers
      PROVE  Published(p)' = Published(p) /\ Accepted(p)' = Accepted(p)
  BY DEF Published, Accepted
<1>2. \A p \in Publishers : results'[p] = results[p]
  OBVIOUS
<1> QED
  BY <1>1, <1>2 DEF PushAccounted

(* A call that returns -1 changes nobody's account.                        *)
LEMMA RefusedIsAccounted ==
    ASSUME TypeOK, PushAccounted, NEW p \in Publishers,
           results' = [results EXCEPT ![p] = Append(@, -1)], UNCHANGED log
    PROVE  PushAccounted'
<1> SUFFICES ASSUME NEW q \in Publishers
             PROVE  /\ Published(q)' = Published(q)
                    /\ Accepted(q)' = Accepted(q)
                    /\ \A k \in 1 .. Len(results'[q]) :
                          results'[q][k] \in {-1} \cup 1 .. Capacity
  BY DEF PushAccounted
<1>1. results[q] \in Seq(Int)
  BY DEF TypeOK
<1>2. Published(q)' = Published(q)
  BY DEF Published
<1>3. CASE q # p
  <2>1. results'[q] = results[q]
    BY <1>3 DEF TypeOK
  <2> QED BY <1>2, <2>1 DEF Accepted, PushAccounted
<1>4. CASE q = p
  <2>1. results'[q] = Append(results[q], -1)
    BY <1>4 DEF TypeOK
  <2>2. /\ Len(results'[q]) = Len(results[q]) + 1
        /\ results'[q][Len(results[q]) + 1] = -1
        /\ \A k \in 1 .. Len(results[q]) : results'[q][k] = results[q][k]
    BY <1>1, <2>1
  <2>3. Accepted(q)' = Accepted(q)
    BY <1>1, <2>2 DEF Accepted
  <2>4. \A k \in 1 .. Len(results'[q]) : k = Len(results[q]) + 1 \/ k \in 1 .. Len(results[q])
    BY <1>1, <2>2
  <2> QED BY <1>2, <2>2, <2>3, <2>4 DEF PushAccounted
<1> QED
  BY <1>3, <1>4

(* The call that publishes an event returns a size.                        *)
LEMMA PublishedIsAccounted ==
    ASSUME IInv, EventsNumbered, SizesBounded, PushAccounted, NEW p \in Publishers, Publish(p)
    PROVE  PushAccounted'
<1> DEFINE r == loaded[p] - min_index[p] + 1
           n == Len(results[p]) + 1
<1>1. /\ ppc[p] = "publish"
      /\ log' = Append(log, event[p])
      /\ results' = [results EXCEPT ![p] = Append(@, r)]
  BY DEF Publish, Return
<1>2. /\ results \in [Publishers -> Seq(Int)]
      /\ log \in Seq(Events)
      /\ event[p] \in Events
      /\ loaded[p] \in Nat /\ min_index[p] \in Nat
      /\ Capacity \in Nat /\ MaxPush \in Nat
  BY HandlerAssumption DEF IInv, TypeOK, HandlerTypeOK
<1>3. r \in 1 .. Capacity
  <2>1. loaded[p] - min_index[p] < Capacity /\ min_index[p] <= loaded[p]
    BY <1>1 DEF SizesBounded, Claimed
  <2> QED BY <1>2, <2>1
<1>4. /\ n \in 1 .. MaxPush
      /\ event[p] = <<p, n>> \/ (event[p] = QuitEvent /\ p \in Quitters)
  <2>1. /\ Len(results[p]) < MaxPush
        /\ event[p] = <<p, n>> \/ (event[p] = QuitEvent /\ p \in Quitters)
    BY <1>1 DEF EventsNumbered
  <2>2. Len(results[p]) \in Nat
    BY <1>2
  <2>3. n \in 1 .. MaxPush
    BY <1>2, <2>1, <2>2
  <2> QED BY <2>1, <2>3
<1> HIDE DEF r
<1>5. /\ Len(log') = Len(log) + 1
      /\ log'[Len(log) + 1] = event[p]
      /\ \A i \in 1 .. Len(log) : log'[i] = log[i]
      /\ \A i \in 1 .. Len(log') : i = Len(log) + 1 \/ i \in 1 .. Len(log)
  BY <1>1, <1>2
<1>6. /\ results'[p] = Append(results[p], r)
      /\ Len(results'[p]) = n
      /\ results'[p][n] = r
      /\ \A k \in 1 .. Len(results[p]) : results'[p][k] = results[p][k]
      /\ \A k \in 1 .. n : k = n \/ k \in 1 .. Len(results[p])
      /\ Len(results[p]) \in Nat
  BY <1>1, <1>2, <1>3
<1>7. Accepted(p)' = Accepted(p) \cup {n}
  BY <1>3, <1>6 DEF Accepted
<1>8. ASSUME NEW q \in Publishers, NEW k \in 1 .. MaxPush
      PROVE  /\ QuitEvent # <<q, k>>
             /\ event[p] = <<q, k>> => q = p /\ k = n
  <2> HIDE DEF n
  <2>1. <<q, k>> \in Publishers \X (1 .. MaxPush)
    OBVIOUS
  <2>2. QuitEvent # <<q, k>>
    BY <2>1, HandlerAssumption
  <2> QED BY <1>4, <2>2
<1>9. \A q \in Publishers : Published(q)' = Published(q) \cup {k \in 1 .. MaxPush : event[p] = <<q, k>>}
  BY <1>5, SMTT(60) DEF Published
<1>10. ASSUME NEW q \in Publishers, q # p
       PROVE  Accepted(q)' = Accepted(q) /\ results'[q] = results[q] /\ Published(q)' = Published(q)
  BY <1>1, <1>2, <1>8, <1>9, <1>10 DEF Accepted
<1>11. Published(p)' \subseteq Published(p) \cup {n}
  BY <1>8, <1>9
<1>12. p \notin Quitters => n \in Published(p)'
  BY <1>4, <1>9
<1>13. \A q \in Publishers : Published(q) \subseteq Accepted(q)
  BY DEF PushAccounted
<1>14. ASSUME NEW q \in Publishers, NEW i \in 1 .. Len(log'), NEW j \in 1 .. Len(log'),
              NEW k \in 1 .. MaxPush, NEW l \in 1 .. MaxPush,
              i < j, log'[i] = <<q, k>>, log'[j] = <<q, l>>
       PROVE  k < l
  <2>1. CASE j = Len(log) + 1
    <3>1. i \in 1 .. Len(log) /\ log[i] = <<q, k>>
      BY <1>2, <1>5, <1>14, <2>1
    <3>2. q = p /\ l = n
      BY <1>5, <1>8, <1>14, <2>1
    <3>3. k \in Accepted(p)
      BY <1>13, <3>1, <3>2 DEF Published
    <3> QED BY <1>6, <3>2, <3>3 DEF Accepted
  <2>2. CASE j \in 1 .. Len(log)
    <3>1. i \in 1 .. Len(log) /\ log[i] = <<q, k>> /\ log[j] = <<q, l>>
      BY <1>2, <1>5, <1>14, <2>2
    <3> QED BY <1>14, <2>2, <3>1 DEF PushAccounted
  <2> QED BY <1>5, <2>1, <2>2
<1>15. ASSUME NEW q \in Publishers
       PROVE  /\ Published(q)' \subseteq Accepted(q)'
              /\ q \notin Quitters => Accepted(q)' \subseteq Published(q)'
              /\ \A k \in 1 .. Len(results'[q]) : results'[q][k] \in {-1} \cup 1 .. Capacity
  <2>1. CASE q # p
    BY <1>10, <2>1 DEF PushAccounted
  <2>2. CASE q = p
    <3>1. Published(p)' \subseteq Accepted(p)'
      BY <1>7, <1>11, <1>13
    <3>2. p \notin Quitters => Accepted(p)' \subseteq Published(p)'
      BY <1>7, <1>9, <1>12 DEF PushAccounted
    <3>3. \A k \in 1 .. Len(results'[p]) : results'[p][k] \in {-1} \cup 1 .. Capacity
      BY <1>3, <1>6 DEF PushAccounted
    <3> QED BY <2>2, <3>1, <3>2, <3>3
  <2> QED BY <2>1, <2>2
<1> QED
  BY <1>14, <1>15 DEF PushAccounted

(* What a step of p says of p's own call; everyone else's is as it was.    *)
LEMMA OwnCallOnly ==
    ASSUME IInv, IInv', EventsNumbered, SizesBounded,
           NEW p \in Publishers, UNCHANGED handler_index,
           \A q \in Publishers : q # p => /\ ppc'[q] = ppc[q]
                                          /\ loaded'[q] = loaded[q]
                                          /\ min_index'[q] = min_index[q]
                                          /\ event'[q] = event[q]
                                          /\ results'[q] = results[q],
           ppc'[p] # "idle" =>
              /\ Gating # {}
              /\ Len(results'[p]) < MaxPush
              /\ \/ event'[p] = <<p, Len(results'[p]) + 1>>
                 \/ event'[p] = QuitEvent /\ p \in Quitters,
           ppc'[p] = "cas" => \A h \in Roots : min_index'[p] <= handler_index[h],
           ppc'[p] \in {"cas", "copy", "publish"} => loaded'[p] - min_index'[p] < Capacity,
           Claimed(p)' => min_index'[p] <= loaded'[p]
    PROVE  EventsNumbered' /\ SizesBounded'
<1>1. EventsNumbered'
  BY DEF EventsNumbered
<1>2. SizesBounded'
  BY DEF SizesBounded, Claimed, Roots
<1> QED
  BY <1>1, <1>2

LEMMA PublisherAccounts ==
    ASSUME RootsGate, IInv, IInv', EventsNumbered, SizesBounded, PushAccounted,
           NEW p \in Publishers, PushUser(p) \/ PushQuit(p) \/ PublisherStep(p)
    PROVE  EventsNumbered' /\ SizesBounded' /\ PushAccounted'
<1>1. /\ TypeOK
      /\ ppc \in [Publishers -> PublisherPCs]
      /\ next_index \in Nat /\ cursor_index \in Nat
      /\ loaded \in [Publishers -> Nat]
      /\ min_index \in [Publishers -> Nat]
      /\ unscanned \in [Publishers -> SUBSET Handlers]
      /\ event \in [Publishers -> Events]
      /\ results \in [Publishers -> Seq(Int)]
      /\ Capacity \in Nat
      /\ \A h \in Roots : h \in Gating /\ handler_index[h] \in Nat
  BY HandlerAssumption DEF IInv, TypeOK, HandlerTypeOK, Roots
<1>2. /\ ppc[p] # "idle" =>
            /\ Gating # {}
            /\ Len(results[p]) < MaxPush
            /\ \/ event[p] = <<p, Len(results[p]) + 1>>
               \/ event[p] = QuitEvent /\ p \in Quitters
      /\ ppc[p] = "cas" => \A h \in Roots : min_index[p] <= handler_index[h]
      /\ ppc[p] \in {"cas", "copy", "publish"} => loaded[p] - min_index[p] < Capacity
      /\ Claimed(p) => min_index[p] <= loaded[p]
  BY DEF EventsNumbered, SizesBounded
<1>3. ASSUME UNCHANGED <<log, results>> PROVE PushAccounted'
  BY <1>3, SameAccounts
<1>4. ASSUME Return(p, -1), UNCHANGED log
      PROVE  /\ PushAccounted'
             /\ ppc'[p] = "idle"
             /\ \A q \in Publishers : q # p => ppc'[q] = ppc[q] /\ results'[q] = results[q]
  BY <1>1, <1>4, RefusedIsAccounted DEF Return
<1>5. ASSUME Retry(p), UNCHANGED <<log, event>>, ppc[p] # "idle"
      PROVE  /\ PushAccounted'
             /\ ppc'[p] \in {"idle", "load"}
             /\ ppc'[p] = "load" => results'[p] = results[p]
             /\ \A q \in Publishers : q # p => ppc'[q] = ppc[q] /\ results'[q] = results[q]
  <2>1. CASE redo[p] = 1
    BY <1>4, <1>5, <2>1 DEF Retry
  <2>2. CASE redo[p] # 1
    BY <1>1, <1>3, <1>5, <2>2 DEF Retry
  <2> QED BY <2>1, <2>2
<1>6. ASSUME NEW e, NEW r, Push(p, e, r),
             \/ e = <<p, Len(results[p]) + 1>>
             \/ e = QuitEvent /\ p \in Quitters
      PROVE  EventsNumbered' /\ SizesBounded' /\ PushAccounted'
  <2>1. /\ ppc[p] = "idle" /\ Len(results[p]) < MaxPush
        /\ UNCHANGED <<log, handler_index, loaded, min_index>>
    BY <1>6 DEF Push, ringVars, handlerVars
  <2>2. CASE Gating # {}
    <3>1. /\ ppc' = [ppc EXCEPT ![p] = "load"]
          /\ event' = [event EXCEPT ![p] = e]
          /\ UNCHANGED results
      BY <1>6, <2>2 DEF Push
    <3>2. PushAccounted'
      BY <1>3, <2>1, <3>1
    <3>3. /\ ppc'[p] = "load" /\ event'[p] = e /\ ~Claimed(p)'
          /\ \A q \in Publishers : q # p => ppc'[q] = ppc[q] /\ event'[q] = event[q]
      BY <1>1, <3>1 DEF Claimed
    <3> QED BY <1>6, <2>1, <2>2, <3>1, <3>2, <3>3, OwnCallOnly
  <2>3. CASE Gating = {}
    <3>1. Return(p, -1) /\ UNCHANGED event
      BY <1>6, <2>3 DEF Push
    <3> QED BY <1>4, <2>1, <3>1, OwnCallOnly DEF Claimed
  <2> QED BY <2>2, <2>3
<1>7. CASE PushUser(p) \/ PushQuit(p)
  BY <1>6, <1>7 DEF PushUser, PushQuit
<1>8. CASE LoadNext(p)
  <2>1. /\ ppc[p] = "load" /\ ppc'[p] = "scan"
        /\ UNCHANGED <<log, handler_index, min_index, event, results>>
        /\ \A q \in Publishers : q # p => ppc'[q] = ppc[q] /\ loaded'[q] = loaded[q]
    BY <1>1, <1>8 DEF LoadNext, ringVars, handlerVars
  <2> QED BY <1>2, <1>3, <2>1, OwnCallOnly DEF Claimed
<1>9. CASE ScanDependent(p)
  <2>1. PICK h \in unscanned[p] :
          LET m == IF unscanned[p] = Gating THEN handler_index[h]
                                            ELSE MinOf(min_index[p], handler_index[h])
          IN  /\ min_index' = [min_index EXCEPT ![p] = m]
              /\ unscanned' = [unscanned EXCEPT ![p] = @ \ {h}]
              /\ IF unscanned[p] # {h}
                 THEN UNCHANGED <<ppc, redo, results>>
                 ELSE IF loaded[p] - m < Capacity
                      THEN /\ ppc' = [ppc EXCEPT ![p] = "cas"]
                           /\ UNCHANGED <<redo, results>>
                      ELSE Retry(p)
    BY <1>9 DEF ScanDependent
  <2> DEFINE m == IF unscanned[p] = Gating THEN handler_index[h]
                                           ELSE MinOf(min_index[p], handler_index[h])
  <2>2. /\ ppc[p] = "scan" /\ UNCHANGED <<log, handler_index, loaded, event>>
        /\ min_index'[p] = m
        /\ \A q \in Publishers : q # p => min_index'[q] = min_index[q]
    BY <1>1, <1>9, <2>1 DEF ScanDependent, ringVars, handlerVars
  <2>3. handler_index[h] \in Nat /\ m \in Nat
    BY <1>1 DEF MinOf, TypeOK, HandlerTypeOK
  <2>4. \A g \in Roots : g \notin unscanned[p] \ {h} => m <= handler_index[g]
    BY <1>1, <2>2, <2>3 DEF MinOf, IInv, ReadsAreLowerBounds
  <2> HIDE DEF m
  <2>5. CASE unscanned[p] # {h}
    <3>1. UNCHANGED <<ppc, results>>
      BY <2>1, <2>5
    <3> QED BY <1>2, <1>3, <2>2, <3>1, OwnCallOnly DEF Claimed
  <2>6. CASE unscanned[p] = {h} /\ loaded[p] - m < Capacity
    <3>1. /\ ppc' = [ppc EXCEPT ![p] = "cas"]
          /\ UNCHANGED results
      BY <2>1, <2>6 DEF m
    <3>2. /\ ppc'[p] = "cas" /\ ~Claimed(p)'
          /\ \A q \in Publishers : q # p => ppc'[q] = ppc[q]
      BY <1>1, <3>1 DEF Claimed
    <3>3. \A g \in Roots : min_index'[p] <= handler_index[g]
      BY <2>2, <2>4, <2>6
    <3> QED BY <1>2, <1>3, <2>2, <2>6, <3>1, <3>2, <3>3, OwnCallOnly
  <2>7. CASE unscanned[p] = {h} /\ ~(loaded[p] - m < Capacity)
    <3>1. Retry(p)
      BY <2>1, <2>7 DEF m
    <3>2. /\ PushAccounted'
          /\ ppc'[p] \in {"idle", "load"}
          /\ ppc'[p] = "load" => results'[p] = results[p]
          /\ \A q \in Publishers : q # p => ppc'[q] = ppc[q] /\ results'[q] = results[q]
      BY <1>5, <2>2, <3>1
    <3> QED BY <1>2, <2>2, <3>2, OwnCallOnly DEF Claimed
  <2> QED BY <2>5, <2>6, <2>7
<1>10. CASE ClaimIndex(p)
  <2>1. ppc[p] = "cas" /\ UNCHANGED <<log, handler_index, loaded, min_index, event>>
    BY <1>10 DEF ClaimIndex, ringVars, handlerVars
  <2>2. CASE next_index = loaded[p]
    <3>1. ppc' = [ppc EXCEPT ![p] = "copy"] /\ UNCHANGED results
      BY <1>10, <2>2 DEF ClaimIndex
    <3>2. /\ ppc'[p] = "copy"
          /\ \A q \in Publishers : q # p => ppc'[q] = ppc[q]
      BY <1>1, <3>1
    <3>3. PICK h \in Roots : TRUE
      BY <1>2, <2>1 DEF RootsGate
    <3>4. /\ min_index[p] <= handler_index[h]
          /\ handler_index[h] <= current_index[h] /\ current_index[h] <= cursor_index
          /\ cursor_index <= next_index
          /\ current_index[h] \in Nat
      BY <1>2, <2>1 DEF IInv, TypeOK, HandlerTypeOK, HandlerInv, RootsBehindCursor,
         ClaimsUnpublished, Roots
    <3>5. min_index[p] <= loaded[p]
      BY <1>1, <2>2, <3>4
    <3> QED BY <1>2, <1>3, <2>1, <3>1, <3>2, <3>5, OwnCallOnly
  <2>3. CASE next_index # loaded[p]
    <3>1. Retry(p)
      BY <1>10, <2>3 DEF ClaimIndex
    <3>2. /\ PushAccounted'
          /\ ppc'[p] \in {"idle", "load"}
          /\ ppc'[p] = "load" => results'[p] = results[p]
          /\ \A q \in Publishers : q # p => ppc'[q] = ppc[q] /\ results'[q] = results[q]
      BY <1>5, <2>1, <3>1
    <3> QED BY <1>2, <2>1, <3>2, OwnCallOnly DEF Claimed
  <2> QED BY <2>2, <2>3
<1>11. CASE CopyEvent(p)
  <2>1. /\ ppc[p] = "copy" /\ ppc'[p] = "publish"
        /\ UNCHANGED <<log, handler_index, loaded, min_index, event, results>>
        /\ \A q \in Publishers : q # p => ppc'[q] = ppc[q]
    BY <1>1, <1>11 DEF CopyEvent, handlerVars
  <2> QED BY <1>2, <1>3, <2>1, OwnCallOnly DEF Claimed
<1>12. CASE Publish(p)
  <2>1. PushAccounted'
    BY <1>12, PublishedIsAccounted
  <2>2. /\ ppc'[p] = "idle"
        /\ UNCHANGED <<handler_index, loaded, min_index, event>>
        /\ \A q \in Publishers : q # p => ppc'[q] = ppc[q] /\ results'[q] = results[q]
    BY <1>1, <1>12 DEF Publish, Return, handlerVars
  <2> QED BY <2>1, <2>2, OwnCallOnly DEF Claimed
<1>13. CASE PublisherSignals(p)
  BY <1>3, <1>13 DEF PublisherSignals, EventsNumbered, SizesBounded, Claimed, Roots, ringVars,
     handlerVars, publisherVars
<1> QED
  BY <1>7, <1>8, <1>9, <1>10, <1>11, <1>12, <1>13 DEF PublisherStep

(* A size is returned for what was published, once and in order, and it is *)
(* one of 1 .. Capacity; -1 is returned for what was not.                  *)
THEOREM ResultsTellTheTruth ==
    ASSUME RootsGate
    PROVE  Spec => []PushAccounted
<1> USE DEF AccountInv
<1>1. Init => AccountInv
  BY HandlerAssumption DEF Init, HandlerInit, EventsNumbered, SizesBounded, PushAccounted, Published,
     Accepted, Claimed
<1>2. IInv /\ AccountInv /\ [Next]_vars /\ IInv' => AccountInv'
  <2> SUFFICES ASSUME IInv, AccountInv, [Next]_vars, IInv' PROVE AccountInv'
    OBVIOUS
  <2>1. ASSUME NEW h \in Handlers, HandlerNext(h) PROVE AccountInv'
    <3>1. /\ UNCHANGED <<ringVars, publisherVars>>
          /\ \A g \in Roots : handler_index[g] <= handler_index'[g]
      BY <2>1, HandlerKeeps DEF HandlerNext, IInv
    <3>2. \A g \in Roots, p \in Publishers :
             handler_index[g] \in Nat /\ handler_index'[g] \in Nat /\ min_index[p] \in Nat
      BY DEF IInv, TypeOK, HandlerTypeOK, Roots
    <3> USE <3>1 DEF ringVars, publisherVars
    <3>3. EventsNumbered' /\ PushAccounted'
      BY SameAccounts DEF EventsNumbered
    <3>4. SizesBounded'
      BY <3>2 DEF SizesBounded, Claimed, Roots
    <3> QED BY <3>3, <3>4
  <2>2. ASSUME NEW p \in Publishers, PushUser(p) \/ PushQuit(p) \/ PublisherStep(p) PROVE AccountInv'
    BY <2>2, PublisherAccounts
  <2>3. CASE UNCHANGED vars
    BY <2>3, SameAccounts DEF EventsNumbered, SizesBounded, Claimed, Roots,
       vars, ringVars, handlerVars, publisherVars
  <2> QED BY <2>1, <2>2, <2>3 DEF Next
<1> QED
  BY Inductive, <1>1, <1>2, PTL DEF Spec
=============================================================================
