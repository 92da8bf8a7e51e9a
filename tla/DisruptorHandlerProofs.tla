----------------------- MODULE DisruptorHandlerProofs -----------------------
(***************************************************************************)
(* What holds of the handlers of either disruptor queue, for every         *)
(* topology and capacity: a step of a handler, and a copy or a publication *)
(* made where the queues make them, keeps HandlerInv and is a step of the  *)
(* event log.                                                              *)
(***************************************************************************)
EXTENDS DisruptorHandler, TLAPS

(* Two indices less than a ring apart live in different slots.             *)
LEMMA ResiduesDiffer ==
    ASSUME NEW C \in Nat \ {0}, NEW i \in Nat, NEW j \in Nat, i < j, j < i + C
    PROVE  i % C # j % C
<1> DEFINE q == i \div C
           r == j \div C
<1>1. q \in Int /\ i = C * q + (i % C)
  OBVIOUS
<1>2. r \in Int /\ j = C * r + (j % C)
  OBVIOUS
<1>3. SUFFICES ASSUME i % C = j % C PROVE FALSE
  OBVIOUS
<1> HIDE DEF q, r
<1>4. j - i = C * (r - q)
  BY <1>1, <1>2, <1>3
<1>5. QED
  BY <1>1, <1>2, <1>4

LEMMA SlotsDiffer ==
    ASSUME NEW i \in Nat, NEW j \in Nat, i < j, j < i + Capacity
    PROVE  SlotOf(i) # SlotOf(j)
BY ResiduesDiffer, HandlerAssumption DEF SlotOf

LEMMA SlotInRing ==
    ASSUME NEW i \in Nat
    PROVE  SlotOf(i) \in Slots
BY HandlerAssumption DEF SlotOf, Slots

-----------------------------------------------------------------------------
(* Type correctness, one action at a time.                                 *)

LEMMA TestFlagType ==
    ASSUME HandlerTypeOK, NEW t \in Threads, TestFlag(t)
    PROVE  /\ timedwait_flag' \in [Handlers -> {0, 1}]
           /\ signalled' \subseteq Handlers
           /\ to_signal' \in [Threads -> SUBSET Handlers]
           /\ aim' \in [Threads -> Handlers \cup {NoHandler}]
<1>1. PICK g \in to_signal[t] :
          IF timedwait_flag[g] > 0
          THEN aim' = [aim EXCEPT ![t] = g] /\ UNCHANGED to_signal
          ELSE to_signal' = [to_signal EXCEPT ![t] = @ \ {g}] /\ UNCHANGED aim
  BY DEF TestFlag
<1>2. g \in Handlers
  BY DEF HandlerTypeOK
<1>3. UNCHANGED <<timedwait_flag, signalled>>
  BY DEF TestFlag
<1>4. CASE timedwait_flag[g] > 0
  BY <1>1, <1>2, <1>3, <1>4 DEF HandlerTypeOK
<1>5. CASE ~(timedwait_flag[g] > 0)
  <2>1. to_signal' = [to_signal EXCEPT ![t] = to_signal[t] \ {g}] /\ UNCHANGED aim
    BY <1>1, <1>5
  <2>2. to_signal[t] \ {g} \in SUBSET Handlers
    BY DEF HandlerTypeOK
  <2>3. to_signal' \in [Threads -> SUBSET Handlers]
    BY <2>1, <2>2 DEF HandlerTypeOK
  <2> QED BY <1>3, <2>1, <2>3 DEF HandlerTypeOK
<1> QED
  BY <1>4, <1>5

LEMMA SignalType ==
    ASSUME HandlerTypeOK, NEW t \in Threads, NEW i, Signal(t, i)
    PROVE  /\ timedwait_flag' \in [Handlers -> {0, 1}]
           /\ signalled' \subseteq Handlers
           /\ to_signal' \in [Threads -> SUBSET Handlers]
           /\ aim' \in [Threads -> Handlers \cup {NoHandler}]
BY DEF HandlerTypeOK, Signal

LEMMA HandlerStepType ==
    ASSUME HandlerTypeOK, NEW h \in Handlers, HandlerStep(h)
    PROVE  HandlerTypeOK'
<1> USE HandlerAssumption DEF HandlerTypeOK, ringVars, signalVars, handlerVars, HandlerPCs, Threads
<1>1. CASE ReadCursor(h)
  BY <1>1 DEF ReadCursor, Decide
<1>2. CASE ReadDependency(h)
  <2>1. PICK d \in unread[h] :
          LET n == IF unread[h] = Deps[h] THEN handler_index[d]
                                          ELSE MinOf(limit_index[h], handler_index[d])
          IN  IF unread[h] = {d}
              THEN Decide(h, DependentLimit(n))
              ELSE /\ limit_index' = [limit_index EXCEPT ![h] = n]
                   /\ unread' = [unread EXCEPT ![h] = @ \ {d}]
                   /\ UNCHANGED hpc
    BY <1>2 DEF ReadDependency
  <2> DEFINE n == IF unread[h] = Deps[h] THEN handler_index[d]
                                         ELSE MinOf(limit_index[h], handler_index[d])
  <2>2. n \in Nat /\ DependentLimit(n) \in Nat
    BY DEF MinOf, DependentLimit
  <2>3. /\ limit_index' \in [Handlers -> Nat]
        /\ unread' \in [Handlers -> SUBSET Handlers]
        /\ hpc' \in [Handlers -> HandlerPCs]
    <3> HIDE DEF n
    <3>1. CASE unread[h] = {d}
      <4>1. Decide(h, DependentLimit(n))
        BY <2>1, <3>1 DEF n
      <4> QED BY <2>2, <4>1 DEF Decide
    <3>2. CASE unread[h] # {d}
      <4>1. /\ limit_index' = [limit_index EXCEPT ![h] = n]
            /\ unread' = [unread EXCEPT ![h] = @ \ {d}]
            /\ UNCHANGED hpc
        BY <2>1, <3>2 DEF n
      <4> QED BY <2>2, <4>1
    <3> QED BY <3>1, <3>2
  <2> QED BY <1>2, <2>3 DEF ReadDependency
<1>3. CASE HandleEvent(h)
  <2>1. event_pool[SlotOf(current_index[h])] \in UserEvents \cup {Garbage}
    BY <1>3, SlotInRing DEF HandleEvent, Events
  <2> QED BY <1>3, <2>1 DEF HandleEvent
<1>4. CASE HandleQuit(h)
  BY <1>4 DEF HandleQuit
<1>5. CASE StoreIndex(h)
  BY <1>5 DEF StoreIndex, NotifyList
<1>6. CASE RaiseFlag(h)
  BY <1>6 DEF RaiseFlag
<1>7. CASE Block(h)
  BY <1>7 DEF Block
<1>8. CASE WakeSignalled(h) \/ WakeTimeout(h)
  BY <1>8, ZenonT(60) DEF WakeSignalled, WakeTimeout, Wake
<1>9. CASE ClearFlag(h)
  BY <1>9 DEF ClearFlag
<1>10. CASE HandlerSignals(h)
  BY <1>10, TestFlagType, SignalType DEF HandlerSignals
<1> QED
  BY <1>1, <1>2, <1>3, <1>4, <1>5, <1>6, <1>7, <1>8, <1>9, <1>10 DEF HandlerStep

-----------------------------------------------------------------------------
(* Steps of a handler.                                                     *)

(* A step of one handler does not touch another handler's position.        *)
LEMMA OtherHandler ==
    ASSUME HandlerTypeOK, NEW h \in Handlers, HandlerStep(h), NEW g \in Handlers, g # h
    PROVE  /\ handler_index'[g] = handler_index[g]
           /\ current_index'[g] = current_index[g]
           /\ limit_index'[g] = limit_index[g]
           /\ hpc'[g] = hpc[g]
           /\ unread'[g] = unread[g]
           /\ delivered'[g] = delivered[g]
<1> USE DEF HandlerTypeOK, handlerVars
<1>1. CASE ReadCursor(h)
  BY <1>1 DEF ReadCursor, Decide
<1>2. CASE ReadDependency(h)
  BY <1>2 DEF ReadDependency, Decide
<1>3. CASE HandleEvent(h)
  BY <1>3 DEF HandleEvent
<1>4. CASE HandleQuit(h)
  BY <1>4 DEF HandleQuit
<1>5. CASE StoreIndex(h)
  BY <1>5 DEF StoreIndex
<1>6. CASE RaiseFlag(h) \/ Block(h) \/ WakeSignalled(h) \/ WakeTimeout(h) \/ ClearFlag(h)
  BY <1>6 DEF RaiseFlag, Block, WakeSignalled, WakeTimeout, Wake, ClearFlag
<1>7. CASE HandlerSignals(h)
  BY <1>7 DEF HandlerSignals
<1> QED
  BY <1>1, <1>2, <1>3, <1>4, <1>5, <1>6, <1>7 DEF HandlerStep

(* A root handler stays behind the cursor, its stored position only grows, *)
(* and what it is given is the next published event.                       *)
LEMMA RootStep ==
    ASSUME HandlerInv, NEW h \in Roots, HandlerStep(h), UNCHANGED ringVars
    PROVE  /\ handler_index[h] <= handler_index'[h]
           /\ handler_index'[h] <= current_index'[h]
           /\ current_index'[h] <= cursor_index
           /\ limit_index'[h] <= cursor_index
           /\ hpc'[h] = "batch" => current_index'[h] < limit_index'[h]
           /\ unread'[h] = {}
           /\ IsPrefixOf(delivered'[h], log)
           /\ Len(delivered'[h]) = current_index'[h]
           /\ hpc'[h] = "quit" => /\ current_index'[h] < cursor_index
                                  /\ log[current_index'[h] + 1] = QuitEvent
<1> USE DEF HandlerTypeOK, handlerVars
<1>1. /\ h \in Handlers
      /\ Deps[h] = {}
      /\ HandlerTypeOK
      /\ handler_index[h] <= current_index[h]
      /\ current_index[h] <= cursor_index
      /\ limit_index[h] <= cursor_index
      /\ hpc[h] = "batch" => current_index[h] < limit_index[h]
      /\ unread[h] = {}
      /\ IsPrefixOf(delivered[h], log)
      /\ Len(delivered[h]) = current_index[h]
      /\ hpc[h] = "quit" => /\ current_index[h] < cursor_index
                            /\ log[current_index[h] + 1] = QuitEvent
      /\ cursor_index = Len(log)
  BY DEF HandlerInv, Roots, RootsBehindCursor, DeliveredInOrder
<1>2. hpc[h] = "batch" =>
         event_pool[SlotOf(current_index[h])] = log[current_index[h] + 1]
  <2> SUFFICES ASSUME hpc[h] = "batch"
               PROVE  event_pool[SlotOf(current_index[h])] = log[current_index[h] + 1]
    OBVIOUS
  <2>1. current_index[h] \in handler_index[h] .. cursor_index - 1
    BY <1>1
  <2> QED BY <2>1 DEF HandlerInv, RingKept
<1>3. CASE ReadCursor(h)
  BY <1>1, <1>3 DEF ReadCursor, Decide
<1>4. CASE ReadDependency(h)
  BY <1>1, <1>4 DEF ReadDependency
<1>5. CASE HandleEvent(h)
  <2> DEFINE e == event_pool[SlotOf(current_index[h])]
  <2>1. /\ hpc[h] = "batch"
        /\ delivered'[h] = Append(delivered[h], e)
        /\ current_index'[h] = current_index[h] + 1
        /\ hpc'[h] = IF current_index[h] + 1 < limit_index[h] THEN "batch" ELSE "store"
        /\ UNCHANGED <<handler_index, limit_index, unread>>
    BY <1>1, <1>5 DEF HandleEvent
  <2>2. e = log[current_index[h] + 1]
    BY <1>2, <2>1
  <2>3. delivered[h] \in Seq(UserEvents \cup {Garbage}) /\ log \in Seq(Events)
    BY <1>1
  <2>4. current_index[h] < cursor_index
    BY <1>1, <2>1
  <2> HIDE DEF e
  <2>5. IsPrefixOf(delivered'[h], log) /\ Len(delivered'[h]) = current_index[h] + 1
    BY <1>1, <2>1, <2>2, <2>3, <2>4 DEF IsPrefixOf
  <2> QED BY <1>1, <2>1, <2>4, <2>5
<1>6. CASE HandleQuit(h)
  <2>1. event_pool[SlotOf(current_index[h])] # Garbage
    BY <1>1, <1>2, <1>6, HandlerAssumption DEF HandleQuit, Events, UserEvents
  <2> QED BY <1>1, <1>2, <1>6, <2>1 DEF HandleQuit
<1>7. CASE StoreIndex(h)
  BY <1>1, <1>7 DEF StoreIndex
<1>8. CASE RaiseFlag(h) \/ Block(h) \/ WakeSignalled(h) \/ WakeTimeout(h) \/ ClearFlag(h)
  BY <1>1, <1>8 DEF RaiseFlag, Block, WakeSignalled, WakeTimeout, Wake, ClearFlag
<1>9. CASE HandlerSignals(h)
  BY <1>1, <1>9 DEF HandlerSignals
<1> QED
  BY <1>3, <1>4, <1>5, <1>6, <1>7, <1>8, <1>9 DEF HandlerStep

(* A handler's step keeps what the handlers rely on, and no root handler's *)
(* stored position goes back.                                              *)
LEMMA HandlerKeeps ==
    ASSUME HandlerInv, NEW h \in Handlers, HandlerStep(h)
    PROVE  /\ HandlerInv'
           /\ UNCHANGED ringVars
           /\ \A g \in Roots : handler_index[g] <= handler_index'[g]
<1>1. HandlerTypeOK'
  BY HandlerStepType DEF HandlerInv
<1>2. UNCHANGED ringVars
  BY DEF HandlerStep, ReadCursor, ReadDependency, HandleEvent, HandleQuit, StoreIndex,
     RaiseFlag, Block, WakeSignalled, WakeTimeout, Wake, ClearFlag, HandlerSignals
<1>3. ASSUME NEW g \in Roots
      PROVE  /\ handler_index[g] <= handler_index'[g]
             /\ handler_index'[g] <= current_index'[g]
             /\ current_index'[g] <= cursor_index
             /\ limit_index'[g] <= cursor_index
             /\ hpc'[g] = "batch" => current_index'[g] < limit_index'[g]
             /\ unread'[g] = {}
             /\ IsPrefixOf(delivered'[g], log)
             /\ Len(delivered'[g]) = current_index'[g]
             /\ hpc'[g] = "quit" => /\ current_index'[g] < cursor_index
                                    /\ log[current_index'[g] + 1] = QuitEvent
  <2>1. CASE g = h
    BY <1>2, <2>1, RootStep
  <2>2. CASE g # h
    <3>1. g \in Handlers /\ HandlerTypeOK
      BY DEF Roots, HandlerInv
    <3>2. /\ handler_index[g] \in Nat
          /\ handler_index'[g] = handler_index[g]
          /\ current_index'[g] = current_index[g]
          /\ limit_index'[g] = limit_index[g]
          /\ hpc'[g] = hpc[g]
          /\ unread'[g] = unread[g]
          /\ delivered'[g] = delivered[g]
      BY <2>2, <3>1, OtherHandler DEF HandlerTypeOK
    <3> QED BY <3>2 DEF HandlerInv, RootsBehindCursor, DeliveredInOrder
  <2> QED BY <2>1, <2>2
<1>4. cursor_index' = cursor_index /\ event_pool' = event_pool /\ log' = log
  BY <1>2 DEF ringVars
<1>5. RootsBehindCursor' /\ DeliveredInOrder'
  BY <1>3, <1>4 DEF RootsBehindCursor, DeliveredInOrder, Roots
<1>6. RingKept'
  <2>1. \A g \in Roots : /\ handler_index[g] \in Nat
                         /\ handler_index'[g] \in Nat
                         /\ cursor_index \in Nat
    BY <1>1 DEF Roots, HandlerInv, HandlerTypeOK
  <2> QED BY <1>3, <1>4, <2>1 DEF HandlerInv, RingKept, Roots
<1> QED
  BY <1>1, <1>2, <1>3, <1>4, <1>5, <1>6 DEF HandlerInv

(* A step that changes neither the ring nor a position.                    *)
LEMMA OthersKeep ==
    ASSUME HandlerInv, HandlerTypeOK', UNCHANGED <<ringVars, handlerVars>>
    PROVE  HandlerInv'
BY DEF HandlerInv, RootsBehindCursor, RingKept, DeliveredInOrder, Roots, ringVars, handlerVars

(* An event copied into the slot of an index that is not published and     *)
(* less than a ring ahead of every root handler.                           *)
LEMMA CopyKeeps ==
    ASSUME HandlerInv, HandlerTypeOK', NEW i \in Nat, NEW e,
           cursor_index <= i, \A h \in Roots : i < handler_index[h] + Capacity,
           event_pool' = [event_pool EXCEPT ![SlotOf(i)] = e],
           UNCHANGED <<cursor_index, log, handlerVars>>
    PROVE  HandlerInv'
<1> USE DEF handlerVars
<1>1. RingKept'
  <2> SUFFICES ASSUME NEW h \in Roots, NEW j \in handler_index[h] .. cursor_index - 1
               PROVE  event_pool'[SlotOf(j)] = log[j + 1]
    BY DEF RingKept, Roots
  <2>1. handler_index[h] \in Nat /\ cursor_index \in Nat /\ Capacity \in Nat
    BY HandlerAssumption DEF HandlerInv, HandlerTypeOK, Roots
  <2>2. j \in Nat /\ j < i /\ i < j + Capacity
    BY <2>1
  <2>3. SlotOf(j) # SlotOf(i) /\ SlotOf(j) \in Slots
    BY <2>2, SlotsDiffer, SlotInRing
  <2>4. event_pool'[SlotOf(j)] = event_pool[SlotOf(j)]
    BY <2>3 DEF HandlerInv, HandlerTypeOK
  <2> QED BY <2>4 DEF HandlerInv, RingKept
<1> QED
  BY <1>1 DEF HandlerInv, RootsBehindCursor, DeliveredInOrder, Roots

(* The event whose slot the cursor is at becomes the next one of the log.  *)
LEMMA PublishKeeps ==
    ASSUME HandlerInv, HandlerTypeOK', NEW e \in Events,
           \A h \in Roots : event_pool[SlotOf(cursor_index)] = e,
           cursor_index' = cursor_index + 1,
           log' = Append(log, e),
           UNCHANGED <<event_pool, handlerVars>>
    PROVE  HandlerInv'
<1> USE DEF handlerVars
<1>1. /\ cursor_index \in Nat
      /\ cursor_index = Len(log)
      /\ log \in Seq(Events)
      /\ \A h \in Roots : /\ handler_index[h] \in Nat
                          /\ current_index[h] \in Nat
                          /\ limit_index[h] \in Nat
                          /\ delivered[h] \in Seq(UserEvents \cup {Garbage})
  BY DEF HandlerInv, HandlerTypeOK, Roots
<1>2. /\ Len(log') = cursor_index + 1
      /\ \A i \in 1 .. cursor_index : log'[i] = log[i]
      /\ log'[cursor_index + 1] = e
  BY <1>1
<1>3. RootsBehindCursor'
  BY <1>1 DEF HandlerInv, RootsBehindCursor, Roots
<1>4. DeliveredInOrder'
  <2> SUFFICES ASSUME NEW h \in Roots
               PROVE  /\ IsPrefixOf(delivered[h], log')
                      /\ Len(delivered[h]) = current_index[h]
                      /\ hpc[h] = "quit" => /\ current_index[h] < cursor_index'
                                            /\ log'[current_index[h] + 1] = QuitEvent
    BY DEF DeliveredInOrder, Roots
  <2>1. /\ IsPrefixOf(delivered[h], log)
        /\ Len(delivered[h]) = current_index[h]
        /\ hpc[h] = "quit" => /\ current_index[h] < cursor_index
                              /\ log[current_index[h] + 1] = QuitEvent
    BY DEF HandlerInv, DeliveredInOrder
  <2>2. IsPrefixOf(delivered[h], log')
    BY <1>1, <1>2, <2>1 DEF IsPrefixOf
  <2> QED BY <1>1, <1>2, <2>1, <2>2
<1>5. RingKept'
  <2>1. ASSUME NEW h \in Roots, NEW i \in handler_index[h] .. cursor_index
        PROVE  event_pool[SlotOf(i)] = log'[i + 1]
    <3>1. CASE i = cursor_index
      BY <1>2, <3>1
    <3>2. CASE i # cursor_index
      <4>1. i \in handler_index[h] .. cursor_index - 1 /\ i + 1 \in 1 .. cursor_index
        BY <1>1, <3>2
      <4> QED BY <1>2, <4>1 DEF HandlerInv, RingKept
    <3> QED BY <3>1, <3>2
  <2>2. \A h \in Roots : handler_index[h] .. cursor_index' - 1 = handler_index[h] .. cursor_index
    BY <1>1
  <2> QED
    BY <2>1, <2>2 DEF RingKept, Roots
<1> QED
  BY <1>1, <1>2, <1>3, <1>4, <1>5 DEF HandlerInv

-----------------------------------------------------------------------------
(* The event log: which of its steps a step of the queue is.               *)

LEMMA InitLogs == HandlerInit => Log!Init
BY DEF HandlerInit, Log!Init, Roots

(* Nothing the log speaks of changes.                                      *)
LEMMA OthersLog ==
    ASSUME UNCHANGED <<ringVars, handlerVars>>
    PROVE  UNCHANGED Log!logVars
BY DEF ringVars, handlerVars, Log!logVars, Roots

(* A publication appends to the log.                                       *)
LEMMA PublishLogs ==
    ASSUME NEW e \in Events, log' = Append(log, e), UNCHANGED handlerVars
    PROVE  Log!Next
BY DEF handlerVars, Log!Next, Log!Append1, Roots

(* A root handler's step delivers the next event, or stops at a quit event,*)
(* or changes nothing; so does a step of any other handler.                *)
LEMMA HandlerLogs ==
    ASSUME HandlerInv, NEW h \in Handlers, HandlerStep(h)
    PROVE  [Log!Next]_(Log!logVars)
<1> DEFINE given == [g \in Roots |-> delivered[g]]
           stopped == {g \in Roots : hpc[g] = "quit"}
<1>1. HandlerTypeOK /\ HandlerTypeOK' /\ log' = log
  BY HandlerKeeps DEF HandlerInv, ringVars
<1>2. \A g \in Roots : g # h => delivered'[g] = delivered[g] /\ hpc'[g] = hpc[g]
  BY <1>1, OtherHandler DEF Roots
<1>3. ASSUME h \in Roots => delivered'[h] = delivered[h] /\ (hpc'[h] = "quit" <=> hpc[h] = "quit")
      PROVE  UNCHANGED Log!logVars
  BY <1>1, <1>2, <1>3 DEF Log!logVars, Roots
<1>4. CASE HandleEvent(h) /\ h \in Roots
  <2>1. PICK e : /\ hpc[h] = "batch" /\ e = event_pool[SlotOf(current_index[h])]
                 /\ e # QuitEvent
                 /\ delivered'[h] = Append(delivered[h], e)
                 /\ hpc'[h] \in {"batch", "store"}
    BY <1>1, <1>4 DEF HandleEvent, HandlerTypeOK
  <2>2. /\ handler_index[h] \in Nat /\ current_index[h] \in Nat /\ cursor_index \in Nat
        /\ handler_index[h] <= current_index[h] /\ current_index[h] < cursor_index
        /\ Len(delivered[h]) = current_index[h]
        /\ limit_index[h] \in Nat
    <3>1. /\ handler_index[h] \in Nat /\ current_index[h] \in Nat /\ cursor_index \in Nat
          /\ limit_index[h] \in Nat
      BY <1>1 DEF HandlerTypeOK
    <3>2. /\ handler_index[h] <= current_index[h]
          /\ limit_index[h] <= cursor_index /\ current_index[h] < limit_index[h]
          /\ Len(delivered[h]) = current_index[h]
      BY <1>4, <2>1 DEF HandlerInv, RootsBehindCursor, DeliveredInOrder
    <3> QED BY <3>1, <3>2
  <2>3. e = log[Len(delivered[h]) + 1] /\ Len(delivered[h]) + 1 <= Len(log)
    BY <1>4, <2>1, <2>2 DEF HandlerInv, RingKept
  <2>4. given' = [given EXCEPT ![h] = Append(given[h], log[Len(given[h]) + 1])]
    BY <1>2, <1>4, <2>1, <2>3 DEF Roots
  <2>5. stopped' = stopped /\ h \notin stopped
    BY <1>2, <2>1 DEF Roots
  <2>6. Log!Deliver(h)
    BY <1>1, <1>4, <2>1, <2>3, <2>4, <2>5 DEF Log!Deliver
  <2> QED BY <1>4, <2>6 DEF Log!Next
<1>5. CASE HandleQuit(h) /\ h \in Roots
  <2>1. /\ hpc[h] = "batch" /\ event_pool[SlotOf(current_index[h])] \in {QuitEvent, Garbage}
        /\ hpc'[h] = "quit" /\ delivered' = delivered
    BY <1>1, <1>5 DEF HandleQuit, HandlerTypeOK
  <2>2. /\ handler_index[h] \in Nat /\ current_index[h] \in Nat /\ cursor_index \in Nat
        /\ handler_index[h] <= current_index[h] /\ current_index[h] < cursor_index
        /\ Len(delivered[h]) = current_index[h]
        /\ limit_index[h] \in Nat
    <3>1. /\ handler_index[h] \in Nat /\ current_index[h] \in Nat /\ cursor_index \in Nat
          /\ limit_index[h] \in Nat
      BY <1>1 DEF HandlerTypeOK
    <3>2. /\ handler_index[h] <= current_index[h]
          /\ limit_index[h] <= cursor_index /\ current_index[h] < limit_index[h]
          /\ Len(delivered[h]) = current_index[h]
      BY <1>5, <2>1 DEF HandlerInv, RootsBehindCursor, DeliveredInOrder
    <3> QED BY <3>1, <3>2
  <2>3. /\ event_pool[SlotOf(current_index[h])] = log[current_index[h] + 1]
        /\ log[current_index[h] + 1] \in Events
    BY <1>1, <1>5, <2>2 DEF HandlerInv, RingKept, HandlerTypeOK
  <2>4. log[Len(delivered[h]) + 1] = QuitEvent /\ Len(delivered[h]) + 1 <= Len(log)
    BY <2>1, <2>2, <2>3, HandlerAssumption DEF HandlerInv, Events, UserEvents
  <2>5. given' = given /\ stopped' = stopped \cup {h} /\ h \notin stopped
    BY <1>2, <1>5, <2>1 DEF Roots
  <2>6. Log!Stop(h)
    BY <1>1, <1>5, <2>4, <2>5 DEF Log!Stop
  <2> QED BY <1>5, <2>6 DEF Log!Next
<1>6. CASE (HandleEvent(h) \/ HandleQuit(h)) /\ h \notin Roots
  BY <1>3, <1>6
<1>7. CASE ReadCursor(h) \/ ReadDependency(h)
  <2>1. delivered' = delivered /\ hpc[h] = "read" /\ hpc'[h] # "quit"
    BY <1>1, <1>7, SMTT(60) DEF ReadCursor, ReadDependency, Decide, HandlerTypeOK
  <2> QED BY <1>3, <2>1
<1>8. CASE \/ StoreIndex(h) \/ RaiseFlag(h) \/ Block(h) \/ WakeSignalled(h) \/ WakeTimeout(h)
           \/ ClearFlag(h)
  <2>1. delivered' = delivered /\ hpc[h] # "quit" /\ hpc'[h] # "quit"
    BY <1>1, <1>8 DEF StoreIndex, RaiseFlag, Block, WakeSignalled, WakeTimeout, Wake, ClearFlag,
       HandlerTypeOK
  <2> QED BY <1>3, <2>1
<1>9. CASE HandlerSignals(h)
  BY <1>3, <1>9 DEF HandlerSignals, handlerVars
<1> QED
  BY <1>4, <1>5, <1>6, <1>7, <1>8, <1>9 DEF HandlerStep
=============================================================================
