---------------------------- MODULE StagesProofs ----------------------------
(***************************************************************************)
(* Theorems about the stages of MCStages, for every set of threads, events *)
(* and timers, every capacity and number of calls: a stage thread's two    *)
(* rings and a stage's choice of the thread, the queues the threads of the *)
(* second stage share, the task queues with the pool that serves them, the *)
(* timer queues, the timer lists, and the loop of a thread with timers.    *)
(* One inductive invariant per part: SedaStageThread!IInv and RoundInv,    *)
(* SedaStage2!IInv, TaskQueue!IInv, and below TimerInv, SortInv, LateInv.  *)
(***************************************************************************)
EXTENDS MCStages, SequenceTheorems, WellFoundedInduction, TLAPS

-----------------------------------------------------------------------------
(* The places of a ring.                                                   *)

LEMMA PlaceIsSlot ==
    ASSUME NEW i \in Nat, i < 2 * Capacity
    PROVE  Place(i) \in Slots
BY StageThreadAssumption DEF Place, Slots

LEMMA PlaceAfter ==
    ASSUME NEW r \in Slots, NEW n \in 0 .. Capacity
    PROVE  /\ n < Capacity => After(Place(r + n)) = Place(r + n + 1)
           /\ n > 0 => Place(After(r) + n - 1) = Place(r + n)
<1>1. Capacity \in Nat \ {0} /\ r \in 0 .. Capacity - 1
  BY StageThreadAssumption DEF Slots
<1>2. n < Capacity => After(Place(r + n)) = Place(r + n + 1)
  <2>1. CASE r + n < Capacity
    BY <1>1, <2>1 DEF After, Place
  <2>2. CASE ~(r + n < Capacity) /\ n < Capacity
    <3>1. Place(r + n) = r + n - Capacity
      BY <1>1, <2>2 DEF Place
    <3>2. r + n - Capacity + 1 < Capacity
      BY <1>1, <2>2
    <3>3. After(Place(r + n)) = r + n - Capacity + 1
      BY <3>1, <3>2 DEF After, Place
    <3>4. Place(r + n + 1) = r + n + 1 - Capacity
      BY <1>1, <2>2 DEF Place
    <3> QED BY <1>1, <3>3, <3>4
  <2> QED BY <2>1, <2>2
<1>3. n > 0 => Place(After(r) + n - 1) = Place(r + n)
  <2>1. CASE r + 1 < Capacity
    <3>1. After(r) = r + 1
      BY <2>1 DEF After, Place
    <3>2. After(r) + n - 1 = r + n
      BY <1>1, <3>1
    <3> QED BY <3>2
  <2>2. CASE ~(r + 1 < Capacity) /\ n > 0
    <3>1. r = Capacity - 1 /\ After(r) = 0
      BY <1>1, <2>2 DEF After, Place
    <3>2. Place(r + n) = n - 1
      BY <1>1, <2>2, <3>1 DEF Place
    <3>3. Place(After(r) + n - 1) = n - 1
      BY <1>1, <2>2, <3>1 DEF Place
    <3> QED BY <3>2, <3>3
  <2> QED BY <2>1, <2>2
<1> QED BY <1>2, <1>3

(* A place fewer than a round further on is another slot.                  *)
LEMMA PlacesDiffer ==
    ASSUME NEW r \in Slots, NEW k \in Nat, NEW n \in Nat, k < n, n < Capacity
    PROVE  Place(r + k) # Place(r + n)
BY StageThreadAssumption DEF Place, Slots

Values == Events \cup {Garbage}

(* The events from r on, n of them, in slots f: Contents of a ring.        *)
Window(f, r, n) == [k \in 1 .. n |-> f[Place(r + k - 1)]]

LEMMA WindowType ==
    ASSUME NEW f \in [Slots -> Values], NEW r \in Slots, NEW n \in 0 .. Capacity
    PROVE  /\ Window(f, r, n) \in Seq(Values)
           /\ Len(Window(f, r, n)) = n
           /\ n = 0 => Window(f, r, n) = << >>
<1>1. \A k \in 1 .. n : f[Place(r + k - 1)] \in Values
  <2> TAKE k \in 1 .. n
  <2>1. r + k - 1 \in Nat /\ r + k - 1 < 2 * Capacity
    BY StageThreadAssumption DEF Slots
  <2> QED BY <2>1, PlaceIsSlot
<1>2. n \in Nat
  BY StageThreadAssumption
<1>3. Window(f, r, n) \in [1 .. n -> Values]
  BY <1>1 DEF Window
<1>4. Window(f, r, n) \in Seq(Values) /\ Len(Window(f, r, n)) = n
  BY <1>2, <1>3
<1> QED
  BY <1>4, EmptySeq

(* One event more at the end, one fewer at the front.                      *)
LEMMA WindowGrows ==
    ASSUME NEW f \in [Slots -> Values], NEW r \in Slots, NEW n \in 0 .. Capacity - 1
    PROVE  Window(f, r, n + 1) = Append(Window(f, r, n), f[Place(r + n)])
<1>1. n + 1 \in 0 .. Capacity /\ n \in 0 .. Capacity /\ n \in Nat
  BY StageThreadAssumption
<1>2. f[Place(r + n)] \in Values
  <2>1. r + n \in Nat /\ r + n < 2 * Capacity
    BY StageThreadAssumption DEF Slots
  <2> QED BY <2>1, PlaceIsSlot
<1> DEFINE w == Window(f, r, n)
           z == Window(f, r, n + 1)
           a == Append(w, f[Place(r + n)])
<1>3. /\ w \in Seq(Values) /\ Len(w) = n
      /\ z \in Seq(Values) /\ Len(z) = n + 1
  BY <1>1, WindowType
<1>4. /\ \A i \in 1 .. n : w[i] = f[Place(r + i - 1)]
      /\ \A i \in 1 .. n + 1 : z[i] = f[Place(r + i - 1)]
  BY DEF Window
<1>5. r + (n + 1) - 1 = r + n
  BY <1>1, StageThreadAssumption DEF Slots
<1> HIDE DEF w, z
<1>6. /\ a \in Seq(Values) /\ Len(a) = n + 1
      /\ \A i \in 1 .. n : a[i] = w[i]
      /\ a[n + 1] = f[Place(r + n)]
  BY <1>2, <1>3, AppendProperties
<1> HIDE DEF a
<1>7. ASSUME NEW i \in 1 .. n + 1 PROVE z[i] = a[i]
  BY <1>1, <1>4, <1>5, <1>6
<1>8. z = a
  BY <1>3, <1>6, <1>7, SeqEqual
<1> QED
  BY <1>8 DEF z, a, w

LEMMA WindowShrinks ==
    ASSUME NEW f \in [Slots -> Values], NEW r \in Slots, NEW n \in 1 .. Capacity
    PROVE  Window(f, r, n) = <<f[r]>> \o Window(f, After(r), n - 1)
<1>1. /\ n \in 0 .. Capacity /\ n - 1 \in 0 .. Capacity /\ n \in Nat
      /\ r \in 0 .. Capacity - 1 /\ Capacity \in Nat \ {0}
  BY StageThreadAssumption DEF Slots
<1>2. After(r) \in Slots /\ f[r] \in Values
  BY <1>1, PlaceIsSlot DEF After
<1> DEFINE w == Window(f, r, n)
           z == Window(f, After(r), n - 1)
           a == <<f[r]>> \o z
<1>3. /\ w \in Seq(Values) /\ Len(w) = n
      /\ z \in Seq(Values) /\ Len(z) = n - 1
  BY <1>1, <1>2, WindowType, Zenon
<1>4. /\ \A i \in 1 .. n : w[i] = f[Place(r + i - 1)]
      /\ \A i \in 1 .. n - 1 : z[i] = f[Place(After(r) + i - 1)]
  BY DEF Window
<1>5. \A i \in 1 .. n - 1 : Place(After(r) + i - 1) = Place(r + i)
  BY <1>1, PlaceAfter
<1>6. Place(r + 1 - 1) = r
  BY <1>1 DEF Place
<1> HIDE DEF w, z
<1>7. <<f[r]>> \in Seq(Values) /\ Len(<<f[r]>>) = 1 /\ <<f[r]>>[1] = f[r]
  BY <1>2
<1>8. /\ a \in Seq(Values) /\ Len(a) = 1 + (n - 1)
      /\ \A i \in 1 .. 1 + (n - 1) : a[i] = IF i <= 1 THEN <<f[r]>>[i] ELSE z[i - 1]
  BY <1>3, <1>7, ConcatProperties
<1> HIDE DEF a
<1>9. 1 + (n - 1) = n
  BY <1>1
<1>10. ASSUME NEW i \in 1 .. n PROVE w[i] = a[i]
  <2>1. CASE i = 1
    BY <1>1, <1>4, <1>6, <1>7, <1>8, <1>9, <2>1
  <2>2. CASE i # 1
    <3>1. /\ i - 1 \in 1 .. n - 1 /\ ~(i <= 1) /\ i \in 1 .. 1 + (n - 1)
          /\ r + i - 1 = r + (i - 1)
      BY <1>1, <2>2
    <3>2. a[i] = z[i - 1] /\ z[i - 1] = f[Place(r + (i - 1))]
      BY <1>4, <1>5, <1>8, <3>1
    <3> QED BY <1>4, <3>1, <3>2
  <2> QED BY <2>1, <2>2
<1>11. w = a
  BY <1>3, <1>8, <1>9, <1>10, SeqEqual
<1> QED
  BY <1>11 DEF w, z, a

-----------------------------------------------------------------------------
(* A stage thread and its rings.                                           *)

LEMMA ThreadInit == Init => IInv
<1> SUFFICES ASSUME Init PROVE IInv
  OBVIOUS
<1>1. Capacity \in Nat \ {0} /\ MaxPush \in Nat /\ NoOne \notin Producers \cup {StageThread}
  BY StageThreadAssumption
<1>2. << >> \in Seq(Events) /\ << >> \in Seq(Values)
  OBVIOUS
<1>3. TypeOK
  <2>1. /\ slots \in [Rings -> [Slots -> Events \cup {Garbage}]]
        /\ write_index \in [Rings -> Slots]
        /\ read_index \in [Rings -> Slots]
        /\ queue_size \in [Rings -> 0 .. Capacity]
        /\ active \in Rings
        /\ target \in Rings
        /\ event \in Slots
    BY <1>1 DEF Init, Rings, Slots
  <2>2. /\ ppc \in [Pushers -> {"idle", "copy", "load", "store", "unlock", "test",
                                "signal", "join", "joined"}]
        /\ size_read \in [Pushers \cup {StageThread} -> 0 .. Capacity]
        /\ result \in [Pushers -> {-1} \cup 1 .. Capacity]
        /\ pushed \in [Producers -> 0 .. MaxPush]
    BY <1>1 DEF Init
  <2> QED BY <1>2, <2>1, <2>2, Zenon DEF Init, TypeOK, Values
<1>4. Place(0) = 0
  BY <1>1 DEF Place
<1>5. OneWriter /\ SwapIsDue
  BY <1>1 DEF Init, OneWriter, SwapIsDue, Rings, Pushers
<1>6. RingsTrue
  BY <1>1, <1>4 DEF Init, RingsTrue, Rings, Pushers, Pushing, standby
<1>7. \A q \in Rings : Contents(q) = << >>
  BY DEF Init, Contents
<1>8. Conserved
  <2>1. log = << >> /\ delivered = << >> /\ InHand = << >>
    BY DEF Init, InHand
  <2>2. Contents(active) = << >> /\ Contents(standby) = << >>
    BY <1>7 DEF Init, Rings, standby
  <2> QED BY <2>1, <2>2, <1>2, ConcatEmptySeq DEF Conserved
<1> QED
  BY <1>3, <1>5, <1>6, <1>8 DEF IInv

(* The rings' contents are windows on their slots.                         *)
LEMMA ContentsAreWindows ==
    ASSUME IInv, NEW q \in Rings
    PROVE  /\ Contents(q) = Window(slots[q], read_index[q], queue_size[q])
           /\ Contents(q) \in Seq(Values)
           /\ slots[q] \in [Slots -> Values]
           /\ read_index[q] \in Slots
           /\ queue_size[q] \in 0 .. Capacity
           /\ queue_size[q] = 0 => Contents(q) = << >>
<1>1. /\ slots[q] \in [Slots -> Values] /\ read_index[q] \in Slots
      /\ queue_size[q] \in 0 .. Capacity
  BY DEF IInv, TypeOK, Values
<1>2. Contents(q) = Window(slots[q], read_index[q], queue_size[q])
  BY DEF Contents, Window
<1> QED
  BY <1>1, <1>2, WindowType

LEMMA RingsDiffer ==
    ASSUME IInv
    PROVE  active \in Rings /\ standby \in Rings /\ standby # active
BY DEF IInv, TypeOK, Rings, standby

(* Who is inside push writes to the standby ring, and is alone with it.    *)
LEMMA WritesAlone ==
    ASSUME IInv, NEW t \in Pushers, ppc[t] \in {"copy", "load", "store"}
    PROVE  /\ RingOf(t) = standby
           /\ EventOf(t) \in Events
           /\ spc # "swap"
           /\ \A u \in Pushers : u # t => ppc[u] \notin {"copy", "load", "store"}
<1>1. CASE t = Stopper
  <2>1. RingOf(t) = standby /\ EventOf(t) \in Events
    BY <1>1 DEF IInv, OneWriter, RingOf, EventOf, Events
  <2>2. \A p \in Producers : ppc[p] = "idle"
    BY <1>1 DEF IInv, OneWriter
  <2>3. spc # "swap"
    <3>1. queue_size[standby] = 0
      BY <1>1 DEF IInv, OneWriter
    <3> QED BY <3>1 DEF IInv, SwapIsDue
  <2> QED BY <1>1, <2>1, <2>2, <2>3 DEF Pushers
<1>2. CASE t \in Producers
  <2>1. t # Stopper
    BY <1>2, StageThreadAssumption
  <2>2. mutex = t /\ pushed[t] > 0
    BY <1>2 DEF IInv, OneWriter
  <2>3. RingOf(t) = standby /\ EventOf(t) \in Events
    <3>1. pushed[t] \in 1 .. MaxPush
      BY <1>2, <2>2, StageThreadAssumption DEF IInv, TypeOK
    <3> QED BY <1>2, <2>1, <3>1 DEF RingOf, EventOf, Events
  <2>4. spc # "swap"
    BY <1>2, <2>2, StageThreadAssumption DEF IInv, OneWriter
  <2>5. ppc[Stopper] = "idle"
    BY <1>2 DEF IInv, OneWriter
  <2>6. \A p \in Producers : p # t => ppc[p] \notin {"copy", "load", "store"}
    BY <2>2 DEF IInv, OneWriter
  <2> QED BY <2>3, <2>4, <2>5, <2>6 DEF Pushers
<1> QED
  BY <1>1, <1>2 DEF Pushers

(* Conserved needs only the log, what is in hand and the two contents.     *)
LEMMA SameContents ==
    ASSUME IInv, Conserved,
           UNCHANGED <<slots, read_index, queue_size, active, log>>,
           delivered' \o InHand' = delivered \o InHand
    PROVE  Conserved'
<1>1. UNCHANGED <<Contents(active), Contents(standby)>>
  BY DEF Contents, standby
<1> QED
  BY <1>1 DEF Conserved

LEMMA StepPushEvent ==
    ASSUME IInv, StopQuiet, NEW p \in Producers, PushEvent(p)
    PROVE  IInv'
<1>1. p # Stopper /\ p # NoOne /\ p # StageThread /\ p \in Pushers
  BY StageThreadAssumption DEF Pushers
<1>2. TypeOK'
  BY <1>1, StageThreadAssumption
  DEF IInv, TypeOK, PushEvent, Goto, waitVars, threadVars
<1>3. /\ \A t \in Pushers : ppc[t] \notin {"copy", "load", "store"}
      /\ ppc[Stopper] = "idle"
  BY StageThreadAssumption DEF IInv, OneWriter, PushEvent, Pushers
<1>4. /\ UNCHANGED <<active, standby, target, queue_size, spc>>
      /\ mutex = NoOne /\ mutex' = p
      /\ ppc' = [ppc EXCEPT ![p] = "copy"]
      /\ pushed' = [pushed EXCEPT ![p] = @ + 1]
      /\ ppc \in [Pushers -> {"idle", "copy", "load", "store", "unlock", "test",
                              "signal", "join", "joined"}]
      /\ pushed \in [Producers -> 0 .. MaxPush]
  BY DEF PushEvent, Goto, standby, waitVars, threadVars, IInv, TypeOK
<1>5. OneWriter'
  <2>1. spc # "swap" /\ \A u \in Producers : ppc[u] \notin {"copy", "load", "store", "unlock"}
    BY <1>4, StageThreadAssumption DEF IInv, OneWriter
  <2>2. /\ ppc'[p] = "copy" /\ \A u \in Pushers : u # p => ppc'[u] = ppc[u]
        /\ pushed'[p] = pushed[p] + 1 /\ pushed[p] \in Nat
    BY <1>1, <1>4, StageThreadAssumption
  <2>3. ppc'[Stopper] = "idle"
    BY <1>1, <1>3, <2>2 DEF Pushers
  <2> QED BY <1>1, <1>4, <2>1, <2>2, <2>3 DEF OneWriter, Pushers
<1>6. SwapIsDue'
  BY <1>4 DEF IInv, SwapIsDue
<1>7. RingsTrue'
  <2>1. \A t \in Pushers : ~Pushing(t) /\ ~Pushing(t)' /\ ppc'[t] # "store"
    BY <1>1, <1>3, <1>4 DEF Pushing
  <2>2. UNCHANGED <<write_index, read_index, queue_size, active, standby, spc, size_read>>
    BY <1>4 DEF PushEvent
  <2> QED BY <2>1, <2>2 DEF IInv, RingsTrue
<1>8. Conserved'
  <2>1. UNCHANGED <<slots, read_index, queue_size, active, log, delivered, InHand>>
    BY DEF PushEvent, threadVars, InHand
  <2> QED BY <2>1, SameContents DEF IInv
<1> QED
  BY <1>2, <1>5, <1>6, <1>7, <1>8 DEF IInv

LEMMA StepStop ==
    ASSUME IInv, StopQuiet, Stop
    PROVE  IInv'
<1>1. Stopper \in Pushers /\ Stopper \notin Producers
  BY StageThreadAssumption DEF Pushers
<1>2. TypeOK'
  BY <1>1, RingsDiffer DEF IInv, TypeOK, Stop, Goto, ringVars, waitVars, threadVars
<1>3. /\ \A p \in Producers : ppc[p] = "idle"
      /\ queue_size[standby] = 0 /\ ppc[Stopper] = "idle"
  BY DEF Stop
<1>4. /\ UNCHANGED <<active, standby, queue_size, spc, mutex, pushed, write_index,
                     read_index, slots, size_read, log, event, delivered>>
      /\ target' = standby
      /\ ppc' = [ppc EXCEPT ![Stopper] = "copy"]
  BY DEF Stop, Goto, standby, ringVars, threadVars
<1>5. \A u \in Pushers : ppc'[u] = IF u = Stopper THEN "copy" ELSE ppc[u]
  BY <1>4 DEF IInv, TypeOK
<1>6. OneWriter'
  BY <1>1, <1>3, <1>4, <1>5 DEF IInv, OneWriter, Pushers
<1>7. SwapIsDue'
  BY <1>4 DEF IInv, SwapIsDue
<1>8. RingsTrue'
  <2>1. \A t \in Pushers : ~Pushing(t) /\ ~Pushing(t)' /\ ppc'[t] # "store"
    BY <1>3, <1>5 DEF Pushing, Pushers
  <2> QED BY <1>4, <2>1 DEF IInv, RingsTrue
<1>9. Conserved'
  <2>1. UNCHANGED InHand
    BY <1>4 DEF InHand
  <2> QED BY <1>4, <2>1, SameContents DEF IInv
<1> QED
  BY <1>2, <1>6, <1>7, <1>8, <1>9 DEF IInv

LEMMA StepCopyEvent ==
    ASSUME IInv, StopQuiet, NEW t \in Pushers, CopyEvent(t)
    PROVE  IInv'
<1>1. /\ RingOf(t) = standby /\ EventOf(t) \in Events
      /\ \A u \in Pushers : u # t => ppc[u] \notin {"copy", "load", "store"}
      /\ ppc[t] = "copy"
  BY WritesAlone DEF CopyEvent
<1>2. standby \in Rings /\ active \in Rings /\ standby # active
  BY RingsDiffer
<1>3. /\ UNCHANGED <<active, standby, queue_size, spc, mutex, pushed, target, read_index,
                     size_read, log, event, delivered, EventOf(t), waitVars>>
      /\ write_index[standby] \in Slots
      /\ queue_size[standby] \in 0 .. Capacity
      /\ read_index[standby] \in Slots /\ read_index[active] \in Slots
      /\ write_index[standby] = Place(read_index[standby] + queue_size[standby])
  BY <1>1, <1>2
  DEF CopyEvent, standby, threadVars, IInv, RingsTrue, TypeOK, Pushing, EventOf
<1>4. CASE queue_size[standby] < Capacity
  <2>1. /\ slots' = [slots EXCEPT ![standby][write_index[standby]] = EventOf(t)]
        /\ write_index' = [write_index EXCEPT ![standby] = After(@)]
        /\ ppc' = [ppc EXCEPT ![t] = "load"]
        /\ UNCHANGED result
    BY <1>1, <1>4 DEF CopyEvent, Goto
  <2>2. After(write_index[standby]) \in Slots
    BY <1>3, PlaceIsSlot, StageThreadAssumption DEF After, Slots
  <2>3. TypeOK'
    BY <1>1, <1>2, <1>3, <2>1, <2>2 DEF IInv, TypeOK, waitVars
  <2>4. \A u \in Pushers : ppc'[u] = IF u = t THEN "load" ELSE ppc[u]
    BY <2>1 DEF IInv, TypeOK
  <2>5. OneWriter'
    BY <1>1, <1>3, <2>4 DEF IInv, OneWriter, Pushers
  <2>6. SwapIsDue'
    BY <1>3 DEF IInv, SwapIsDue
  <2>7. /\ write_index'[active] = write_index[active]
        /\ write_index'[standby] = After(write_index[standby])
        /\ slots'[active] = slots[active]
        /\ slots'[standby] = [slots[standby] EXCEPT ![write_index[standby]] = EventOf(t)]
        /\ slots'[standby][write_index[standby]] = EventOf(t)
    BY <1>2, <1>3, <2>1 DEF IInv, TypeOK
  <2>8. RingsTrue'
    <3>1. \A u \in Pushers : Pushing(u)' <=> u = t
      BY <1>1, <2>4 DEF Pushing
    <3>2. write_index'[standby] = Place(read_index[standby] + queue_size[standby] + 1)
      BY <1>3, <1>4, <2>7, PlaceAfter, StageThreadAssumption
    <3>3. \A u \in Pushers : ppc'[u] # "store"
      BY <1>1, <2>4
    <3> QED BY <1>1, <1>3, <1>4, <2>7, <3>1, <3>2, <3>3 DEF IInv, RingsTrue
  <2>9. Conserved'
    <3>1. \A k \in 1 .. queue_size[standby] :
              Place(read_index[standby] + k - 1) # write_index[standby]
      <4> TAKE k \in 1 .. queue_size[standby]
      <4>1. /\ k - 1 \in Nat /\ k - 1 < queue_size[standby] /\ queue_size[standby] \in Nat
            /\ read_index[standby] + (k - 1) = read_index[standby] + k - 1
        BY <1>3, StageThreadAssumption DEF Slots
      <4> QED BY <1>3, <1>4, <4>1, PlacesDiffer
    <3>2. \A k \in 1 .. queue_size[standby] : Place(read_index[standby] + k - 1) \in Slots
      <4> TAKE k \in 1 .. queue_size[standby]
      <4>1. read_index[standby] + k - 1 \in Nat /\ read_index[standby] + k - 1 < 2 * Capacity
        BY <1>3, StageThreadAssumption DEF Slots
      <4> QED BY <4>1, PlaceIsSlot
    <3>3. slots[standby] \in [Slots -> Events \cup {Garbage}]
      BY <1>2 DEF IInv, TypeOK
    <3>4. \A k \in 1 .. queue_size[standby] :
              slots'[standby][Place(read_index[standby] + k - 1)] =
                  slots[standby][Place(read_index[standby] + k - 1)]
      BY <2>7, <3>1, <3>2, <3>3
    <3>5. Contents(standby)' = Contents(standby)
      BY <1>3, <3>4 DEF Contents
    <3>6. Contents(active)' = Contents(active)
      BY <1>3, <2>7 DEF Contents
    <3>7. InHand' = InHand
      BY <1>3, <2>7 DEF InHand
    <3> QED BY <1>3, <3>5, <3>6, <3>7 DEF IInv, Conserved
  <2> QED BY <2>3, <2>5, <2>6, <2>8, <2>9 DEF IInv
<1>5. CASE ~(queue_size[standby] < Capacity)
  <2>1. /\ UNCHANGED <<slots, write_index>>
        /\ result' = [result EXCEPT ![t] = -1]
        /\ ppc' = [ppc EXCEPT ![t] = "unlock"]
    BY <1>1, <1>5 DEF CopyEvent, Goto
  <2>2. TypeOK'
    BY <1>3, <2>1 DEF IInv, TypeOK, waitVars
  <2>3. \A u \in Pushers : ppc'[u] = IF u = t THEN "unlock" ELSE ppc[u]
    BY <2>1 DEF IInv, TypeOK
  <2>4. OneWriter'
    BY <1>1, <1>3, <2>3 DEF IInv, OneWriter, Pushers
  <2>5. SwapIsDue'
    BY <1>3 DEF IInv, SwapIsDue
  <2>6. RingsTrue'
    <3>1. \A u \in Pushers : ~Pushing(u)' /\ ~Pushing(u) /\ ppc'[u] # "store"
      BY <1>1, <2>3 DEF Pushing
    <3> QED BY <1>3, <2>1, <3>1 DEF IInv, RingsTrue
  <2>7. Conserved'
    <3>1. UNCHANGED InHand
      BY <1>3, <2>1 DEF InHand
    <3> QED BY <1>3, <2>1, <3>1, SameContents DEF IInv
  <2> QED BY <2>2, <2>4, <2>5, <2>6, <2>7 DEF IInv
<1> QED
  BY <1>4, <1>5

LEMMA StepLoadSize ==
    ASSUME IInv, StopQuiet, NEW t \in Pushers, LoadSize(t)
    PROVE  IInv'
<1>1. /\ RingOf(t) = standby /\ ppc[t] = "load"
      /\ \A u \in Pushers : u # t => ppc[u] \notin {"copy", "load", "store"}
  BY WritesAlone DEF LoadSize
<1>2. standby \in Rings /\ t # StageThread
  BY RingsDiffer, StageThreadAssumption DEF Pushers
<1>3. /\ UNCHANGED <<slots, write_index, read_index, queue_size, active, standby, mutex,
                     target, pushed, spc, log, event, delivered>>
      /\ size_read' = [size_read EXCEPT ![t] = queue_size[standby]]
      /\ ppc' = [ppc EXCEPT ![t] = "store"]
  BY <1>1 DEF LoadSize, Goto, standby, ringVars, threadVars
<1>4. TypeOK'
  BY <1>2, <1>3 DEF IInv, TypeOK, LoadSize, waitVars
<1>5. /\ \A u \in Pushers : ppc'[u] = IF u = t THEN "store" ELSE ppc[u]
      /\ size_read'[t] = queue_size[standby]
      /\ size_read'[StageThread] = size_read[StageThread]
      /\ \A u \in Pushers : UNCHANGED EventOf(u)
  BY <1>2, <1>3 DEF IInv, TypeOK, EventOf
<1>6. OneWriter'
  BY <1>1, <1>3, <1>5 DEF IInv, OneWriter, Pushers
<1>7. SwapIsDue'
  BY <1>3 DEF IInv, SwapIsDue
<1>8. RingsTrue'
  <2>1. \A u \in Pushers : /\ Pushing(u)' <=> u = t
                           /\ Pushing(u) <=> u = t
                           /\ ppc'[u] = "store" => u = t
    BY <1>1, <1>5 DEF Pushing
  <2> QED BY <1>3, <1>5, <2>1 DEF IInv, RingsTrue
<1>9. Conserved'
  <2>1. UNCHANGED InHand
    BY <1>3 DEF InHand
  <2> QED BY <1>3, <2>1, SameContents DEF IInv
<1> QED
  BY <1>4, <1>6, <1>7, <1>8, <1>9 DEF IInv

LEMMA InHandType ==
    ASSUME IInv
    PROVE  InHand \in Seq(Values) /\ delivered \in Seq(Values) /\ log \in Seq(Values)
<1>1. slots[active][event] \in Values
  BY DEF IInv, TypeOK, Values
<1>2. <<slots[active][event]>> \in Seq(Values) /\ << >> \in Seq(Values)
  BY <1>1
<1>3. delivered \in Seq(Values)
  BY DEF IInv, TypeOK, Values
<1>4. log \in Seq(Values)
  <2>1. Len(log) \in Nat /\ log \in [1 .. Len(log) -> Events]
    BY LenProperties DEF IInv, TypeOK
  <2>2. log \in [1 .. Len(log) -> Values]
    BY <2>1 DEF Values
  <2> QED BY <2>1, <2>2
<1> QED
  BY <1>2, <1>3, <1>4 DEF InHand

LEMMA AppendAtEnd ==
    ASSUME NEW S, NEW s \in Seq(S), NEW t \in Seq(S), NEW e \in S
    PROVE  s \o Append(t, e) = Append(s \o t, e)
<1>1. /\ Append(t, e) \in Seq(S) /\ Append(t, e) = t \o <<e>>
      /\ <<e>> \in Seq(S) /\ s \o t \in Seq(S)
  BY AppendProperties, AppendIsConcat, ConcatProperties
<1>2. Append(s \o t, e) = (s \o t) \o <<e>>
  BY <1>1, AppendIsConcat
<1> QED
  BY <1>1, <1>2, ConcatAssociative

LEMMA StepStoreSize ==
    ASSUME IInv, StopQuiet, NEW t \in Pushers, StoreSize(t)
    PROVE  IInv' /\ EventOf(t) \in Events
<1>1. /\ RingOf(t) = standby /\ ppc[t] = "store" /\ EventOf(t) \in Events
      /\ \A u \in Pushers : u # t => ppc[u] \notin {"copy", "load", "store"}
      /\ spc # "swap"
  BY WritesAlone DEF StoreSize
<1>2. /\ standby \in Rings /\ active \in Rings /\ standby # active
      /\ t # StageThread
      /\ queue_size[standby] \in 0 .. Capacity /\ read_index[standby] \in Slots
  BY RingsDiffer, StageThreadAssumption, ContentsAreWindows DEF Pushers
<1>3. /\ size_read[t] = queue_size[standby]
      /\ queue_size[standby] < Capacity
      /\ write_index[standby] = Place(read_index[standby] + queue_size[standby] + 1)
      /\ slots[standby][Place(read_index[standby] + queue_size[standby])] = EventOf(t)
  BY <1>1 DEF IInv, RingsTrue, Pushing
<1>4. /\ UNCHANGED <<slots, write_index, read_index, active, standby, mutex, size_read,
                     target, pushed, spc, event, delivered>>
      /\ queue_size' = [queue_size EXCEPT ![standby] = queue_size[standby] + 1]
      /\ ppc' = [ppc EXCEPT ![t] = "unlock"]
      /\ log' = Append(log, EventOf(t))
  BY <1>1, <1>3 DEF StoreSize, Goto, standby, threadVars
<1>5. queue_size[standby] + 1 \in 1 .. Capacity
  BY <1>2, <1>3, StageThreadAssumption
<1>6. TypeOK'
  <2>1. log' \in Seq(Events)
    BY <1>1, <1>4, AppendProperties DEF IInv, TypeOK
  <2>2. result' = [result EXCEPT ![t] = queue_size[standby] + 1]
    BY <1>1, <1>3 DEF StoreSize
  <2>3. result' \in [Pushers -> {-1} \cup 1 .. Capacity]
    BY <1>5, <2>2 DEF IInv, TypeOK
  <2>4. queue_size' \in [Rings -> 0 .. Capacity]
    BY <1>2, <1>4, <1>5 DEF IInv, TypeOK
  <2>5. ppc' \in [Pushers -> {"idle", "copy", "load", "store", "unlock", "test",
                              "signal", "join", "joined"}]
    BY <1>4 DEF IInv, TypeOK
  <2> QED BY <1>4, <2>1, <2>3, <2>4, <2>5 DEF IInv, TypeOK, StoreSize, waitVars
<1>7. /\ \A u \in Pushers : ppc'[u] = IF u = t THEN "unlock" ELSE ppc[u]
      /\ queue_size'[standby] = queue_size[standby] + 1
      /\ queue_size'[active] = queue_size[active]
  BY <1>2, <1>4 DEF IInv, TypeOK
<1>8. OneWriter'
  BY <1>1, <1>4, <1>7 DEF IInv, OneWriter, Pushers
<1>9. SwapIsDue'
  <2>1. queue_size'[standby] > 0
    BY <1>5, <1>7
  <2> QED BY <1>4, <1>7, <2>1 DEF IInv, SwapIsDue
<1>10. RingsTrue'
  <2>1. \A u \in Pushers : ~Pushing(u)' /\ ppc'[u] # "store"
    BY <1>1, <1>7 DEF Pushing
  <2>2. read_index[standby] + queue_size[standby] + 1 =
            read_index[standby] + (queue_size[standby] + 1)
    BY <1>2, StageThreadAssumption DEF Slots
  <2> QED BY <1>3, <1>4, <1>7, <2>1, <2>2 DEF IInv, RingsTrue
<1>11. Conserved'
  <2>1. Contents(active)' = Contents(active) /\ InHand' = InHand
    BY <1>4, <1>7 DEF Contents, InHand
  <2>2. Contents(standby)' = Append(Contents(standby), EventOf(t))
    <3>1. queue_size[standby] \in 0 .. Capacity - 1
      BY <1>2, <1>3, StageThreadAssumption
    <3>2. slots[standby] \in [Slots -> Values] /\ read_index[standby] \in Slots
      BY <1>2, ContentsAreWindows
    <3>3. Window(slots[standby], read_index[standby], queue_size[standby] + 1) =
              Append(Window(slots[standby], read_index[standby], queue_size[standby]),
                     EventOf(t))
      BY <1>3, <3>1, <3>2, WindowGrows, Zenon
    <3>4. Contents(standby)' =
              Window(slots[standby], read_index[standby], queue_size[standby] + 1)
      BY <1>4, <1>7 DEF Contents, Window
    <3> QED BY <1>2, <3>3, <3>4, ContentsAreWindows
  <2>3. /\ Contents(active) \in Seq(Values) /\ Contents(standby) \in Seq(Values)
        /\ EventOf(t) \in Values
    BY <1>1, <1>2, ContentsAreWindows DEF Values
  <2>4. delivered \o InHand \o Contents(active) \o Append(Contents(standby), EventOf(t)) =
            Append(delivered \o InHand \o Contents(active) \o Contents(standby), EventOf(t))
    <3> DEFINE before == delivered \o InHand \o Contents(active)
    <3>1. before \in Seq(Values)
      <4>1. delivered \o InHand \in Seq(Values)
        BY InHandType, ConcatProperties
      <4> QED BY <2>3, <4>1, ConcatProperties
    <3> HIDE DEF before
    <3>2. before \o Append(Contents(standby), EventOf(t)) =
              Append(before \o Contents(standby), EventOf(t))
      BY <2>3, <3>1, AppendAtEnd
    <3> QED BY <3>2 DEF before
  <2>5. log = delivered \o InHand \o Contents(active) \o Contents(standby)
    BY DEF IInv, Conserved
  <2> QED BY <1>4, <2>1, <2>2, <2>4, <2>5 DEF Conserved
<1> QED
  BY <1>1, <1>6, <1>8, <1>9, <1>10, <1>11 DEF IInv

(* The steps of a push that no longer touch the rings.                     *)
LEMMA StepAfterPush ==
    ASSUME IInv, StopQuiet, NEW t \in Pushers, Unlock(t) \/ TestFlag(t) \/ Signal(t)
    PROVE  IInv'
<1>1. /\ UNCHANGED <<slots, write_index, read_index, queue_size, active, standby,
                     size_read, target, result, pushed, spc, event, delivered, log>>
      /\ \/ /\ ppc[t] = "unlock" /\ t = Stopper /\ UNCHANGED mutex
            /\ ppc' = [ppc EXCEPT ![t] = "signal"]
         \/ /\ ppc[t] = "unlock" /\ t # Stopper /\ mutex' = NoOne
            /\ ppc' = [ppc EXCEPT ![t] = IF result[t] = 1 THEN "test" ELSE "idle"]
         \/ /\ ppc[t] = "test" /\ UNCHANGED mutex
            /\ ppc' = [ppc EXCEPT ![t] = IF timedwait_flag > 0 THEN "signal" ELSE "idle"]
         \/ /\ ppc[t] = "signal" /\ UNCHANGED mutex
            /\ ppc' = [ppc EXCEPT ![t] = IF t = Stopper THEN "join" ELSE "idle"]
      /\ timedwait_flag' \in {timedwait_flag, 0} /\ signalled' \in BOOLEAN
  BY Zenon DEF Unlock, TestFlag, Signal, Goto, standby, ringVars, waitVars, threadVars, IInv, TypeOK
<1>2. TypeOK'
  BY <1>1 DEF IInv, TypeOK
<1>3. \A u \in Pushers : u # t => ppc'[u] = ppc[u]
  BY <1>1 DEF IInv, TypeOK
<1>4. ppc[t] \in {"unlock", "test", "signal"}
  BY <1>1
<1>5. ppc'[t] \in {"test", "signal", "idle", "join"}
  BY <1>1 DEF IInv, TypeOK
<1>6. t = Stopper => ppc'[t] \in {"signal", "join", "idle"}
  BY <1>1 DEF IInv, TypeOK
<1>7. OneWriter'
  <2>1. CASE t = Stopper
    <3>1. /\ UNCHANGED mutex /\ \A p \in Producers : ppc'[p] = ppc[p]
          /\ \A p \in Producers : ppc[p] = "idle"
      BY <1>1, <1>3, <1>4, <2>1, StageThreadAssumption DEF Pushers, IInv, OneWriter
    <3> QED BY <1>1, <1>5, <2>1, <3>1 DEF IInv, OneWriter
  <2>2. CASE t \in Producers
    <3>1. /\ t # Stopper /\ t # NoOne /\ t # StageThread /\ NoOne # StageThread
          /\ ppc[Stopper] = "idle" /\ ppc'[Stopper] = "idle"
      BY <1>3, <1>4, <2>2, StageThreadAssumption DEF Pushers, IInv, OneWriter
    <3>2. /\ mutex = t => ppc[t] = "unlock" /\ mutex' = NoOne
          /\ mutex # t => mutex' = mutex
      BY <1>1, <1>4, <2>2, <3>1 DEF IInv, OneWriter
    <3>3. \A p \in Producers : mutex' = p <=> ppc'[p] \in {"copy", "load", "store", "unlock"}
      <4> TAKE p \in Producers
      <4>1. NoOne # p
        BY StageThreadAssumption
      <4>2. CASE p = t
        BY <1>5, <3>1, <3>2, <4>1, <4>2
      <4>3. CASE p # t
        BY <1>3, <3>1, <3>2, <4>1, <4>3 DEF IInv, OneWriter, Pushers
      <4> QED BY <4>2, <4>3
    <3>4. mutex' = StageThread <=> spc' = "swap"
      BY <1>1, <3>1, <3>2 DEF IInv, OneWriter
    <3>5. \A p \in Producers : mutex' = p => pushed'[p] > 0
      BY <1>1, <3>1, <3>2, StageThreadAssumption DEF IInv, OneWriter
    <3> QED BY <3>1, <3>3, <3>4, <3>5 DEF OneWriter
  <2> QED BY <2>1, <2>2 DEF Pushers
<1>8. SwapIsDue'
  BY <1>1 DEF IInv, SwapIsDue
<1>9. RingsTrue'
  <2>1. \A u \in Pushers : /\ Pushing(u)' <=> Pushing(u)
                           /\ ppc'[u] = "store" <=> ppc[u] = "store"
                           /\ UNCHANGED EventOf(u)
    BY <1>1, <1>3, <1>4, <1>5 DEF Pushing, EventOf
  <2> QED BY <1>1, <2>1 DEF IInv, RingsTrue
<1>10. Conserved'
  <2>1. UNCHANGED InHand
    BY <1>1 DEF InHand
  <2> QED BY <1>1, <2>1, SameContents DEF IInv
<1> QED
  BY <1>2, <1>7, <1>8, <1>9, <1>10 DEF IInv

LEMMA StepJoin ==
    ASSUME IInv, StopQuiet, Join
    PROVE  IInv'
<1>1. /\ UNCHANGED <<slots, write_index, read_index, queue_size, active, standby, mutex,
                     size_read, target, result, pushed, spc, event, delivered, log,
                     timedwait_flag, signalled>>
      /\ ppc[Stopper] = "join" /\ ppc' = [ppc EXCEPT ![Stopper] = "joined"]
  BY DEF Join, Goto, standby, ringVars, waitVars, threadVars
<1>2. TypeOK'
  BY <1>1, Zenon DEF IInv, TypeOK
<1>3. \A u \in Pushers : ppc'[u] = IF u = Stopper THEN "joined" ELSE ppc[u]
  BY <1>1 DEF IInv, TypeOK
<1>4. Stopper \notin Producers /\ Stopper \in Pushers
  BY StageThreadAssumption DEF Pushers
<1>5. OneWriter'
  BY <1>1, <1>3, <1>4 DEF IInv, OneWriter, Pushers
<1>6. SwapIsDue'
  BY <1>1 DEF IInv, SwapIsDue
<1>7. RingsTrue'
  <2>1. \A u \in Pushers : /\ Pushing(u)' <=> Pushing(u)
                           /\ ppc'[u] = "store" <=> ppc[u] = "store"
                           /\ UNCHANGED EventOf(u)
    BY <1>1, <1>3 DEF Pushing, EventOf
  <2> QED BY <1>1, <2>1 DEF IInv, RingsTrue
<1>8. Conserved'
  <2>1. UNCHANGED InHand
    BY <1>1 DEF InHand
  <2> QED BY <1>1, <2>1, SameContents DEF IInv
<1> QED
  BY <1>2, <1>5, <1>6, <1>7, <1>8 DEF IInv

(* The steps of thread_proc that leave the rings and the lock alone.       *)
LEMMA ThreadMovesOn ==
    ASSUME IInv, UNCHANGED <<slots, write_index, read_index, queue_size, active, mutex,
                             producerVars>>,
           spc # "swap", spc' # "swap",
           \A u \in Pushers : size_read'[u] = size_read[u],
           spc' = "take" => size_read'[StageThread] = queue_size[active]
    PROVE  OneWriter' /\ RingsTrue'
<1>1. UNCHANGED <<slots, write_index, read_index, queue_size, active, standby, mutex,
                  ppc, target, pushed>>
  BY DEF producerVars, standby
<1>2. OneWriter'
  BY <1>1 DEF IInv, OneWriter
<1>3. RingsTrue'
  <2>1. \A u \in Pushers : UNCHANGED EventOf(u) /\ (Pushing(u)' <=> Pushing(u))
    BY <1>1 DEF EventOf, Pushing
  <2> QED BY <1>1, <2>1 DEF IInv, RingsTrue
<1> QED
  BY <1>2, <1>3

LEMMA StepPop ==
    ASSUME IInv, Pop
    PROVE  IInv'
<1>1. /\ UNCHANGED <<slots, write_index, read_index, queue_size, active, standby, mutex,
                     producerVars, waitVars, event, delivered, log>>
      /\ size_read' = [size_read EXCEPT ![StageThread] = queue_size[active]]
      /\ spc = "pop" /\ spc' = IF queue_size[active] > 0 THEN "take" ELSE "check"
      /\ active \in Rings
  BY RingsDiffer DEF Pop, At, ringVars, standby
<1>2. TypeOK'
  BY <1>1 DEF IInv, TypeOK, producerVars, waitVars
<1>3. /\ size_read'[StageThread] = queue_size[active]
      /\ \A u \in Pushers : size_read'[u] = size_read[u]
  BY <1>1, StageThreadAssumption DEF IInv, TypeOK, Pushers
<1>4. OneWriter' /\ RingsTrue'
  BY <1>1, <1>3, ThreadMovesOn
<1>5. SwapIsDue'
  <2>1. queue_size[active] \in Nat
    BY <1>1 DEF IInv, TypeOK
  <2> QED BY <1>1, <2>1 DEF SwapIsDue
<1>6. Conserved'
  <2>1. UNCHANGED InHand
    BY <1>1 DEF InHand
  <2> QED BY <1>1, <2>1, SameContents DEF IInv
<1> QED
  BY <1>2, <1>4, <1>5, <1>6 DEF IInv

LEMMA StepWaits ==
    ASSUME IInv,
           \/ CheckStandby \/ RaiseFlag \/ Block \/ WakeSignalled \/ WakeTimeout \/ ClearFlag
    PROVE  IInv'
<1>1. /\ UNCHANGED <<slots, write_index, read_index, queue_size, active, standby, mutex,
                     producerVars, event, delivered, log, size_read>>
      /\ timedwait_flag' \in {0, 1, timedwait_flag} /\ signalled' \in {FALSE, signalled}
      /\ \/ spc = "check" /\ spc' = IF queue_size[standby] = 0 THEN "flag" ELSE "lock"
         \/ spc = "recheck" /\ spc' = IF queue_size[standby] = 0 THEN "pop" ELSE "lock"
         \/ spc = "flag" /\ spc' = "block"
         \/ spc = "block" /\ spc' = "blocked"
         \/ spc = "blocked" /\ spc' = "woken"
         \/ spc = "woken" /\ spc' = "recheck"
  BY Zenon DEF CheckStandby, RaiseFlag, Block, WakeSignalled, WakeTimeout, Wake, ClearFlag, At,
         ringVars, waitVars, standby
<1>2. queue_size[standby] \in Nat
  BY RingsDiffer DEF IInv, TypeOK
<1>3. TypeOK'
  <2>1. spc' \in {"flag", "lock", "pop", "block", "blocked", "woken", "recheck"}
    BY <1>1
  <2>2. timedwait_flag' \in {0, 1} /\ signalled' \in BOOLEAN
    BY <1>1, Zenon DEF IInv, TypeOK
  <2> QED BY <1>1, <2>1, <2>2 DEF IInv, TypeOK, producerVars
<1>4. OneWriter' /\ RingsTrue'
  BY <1>1, ThreadMovesOn
<1>5. SwapIsDue'
  <2>1. queue_size[active] = 0
    BY <1>1 DEF IInv, SwapIsDue
  <2>2. spc' \in {"lock", "swap"} => queue_size[standby] > 0
    BY <1>1, <1>2
  <2>3. spc' # "take"
    BY <1>1
  <2> QED BY <1>1, <2>1, <2>2, <2>3 DEF SwapIsDue
<1>6. Conserved'
  <2>1. InHand = << >> /\ InHand' = << >>
    BY <1>1 DEF InHand
  <2> QED BY <1>1, <2>1, SameContents DEF IInv
<1> QED
  BY <1>3, <1>4, <1>5, <1>6 DEF IInv

LEMMA StepTakeSlot ==
    ASSUME IInv, TakeSlot
    PROVE  IInv'
<1>1. /\ UNCHANGED <<slots, write_index, active, standby, mutex, producerVars, waitVars,
                     delivered, log, size_read>>
      /\ spc = "take" /\ spc' = "handle"
      /\ queue_size' = [queue_size EXCEPT ![active] = queue_size[active] - 1]
      /\ event' = read_index[active]
      /\ read_index' = [read_index EXCEPT ![active] = After(@)]
  BY Zenon DEF TakeSlot, At, standby, IInv, RingsTrue
<1>2. /\ active \in Rings /\ standby \in Rings /\ standby # active
      /\ queue_size[active] \in 1 .. Capacity
      /\ read_index[active] \in Slots /\ read_index[active] \in 0 .. Capacity - 1
      /\ slots[active] \in [Slots -> Values]
  <2>1. queue_size[active] > 0
    BY <1>1 DEF IInv, SwapIsDue
  <2> QED BY <2>1, RingsDiffer, ContentsAreWindows, StageThreadAssumption DEF Slots
<1>3. After(read_index[active]) \in Slots
  BY <1>2, PlaceIsSlot, StageThreadAssumption DEF After
<1>4. TypeOK'
  <2>1. queue_size[active] - 1 \in 0 .. Capacity
    BY <1>2, StageThreadAssumption
  <2> QED BY <1>1, <1>2, <1>3, <2>1, Zenon DEF IInv, TypeOK, producerVars, waitVars
<1>5. /\ queue_size'[active] = queue_size[active] - 1
      /\ queue_size'[standby] = queue_size[standby]
      /\ read_index'[active] = After(read_index[active])
      /\ read_index'[standby] = read_index[standby]
      /\ UNCHANGED <<ppc, target, pushed>>
  BY <1>1, <1>2 DEF IInv, TypeOK, producerVars
<1>6. OneWriter'
  BY <1>1, <1>5 DEF IInv, OneWriter
<1>7. SwapIsDue'
  BY <1>1 DEF SwapIsDue
<1>8. RingsTrue'
  <2>1. Place(After(read_index[active]) + (queue_size[active] - 1)) =
            Place(read_index[active] + queue_size[active])
    <3>1. /\ queue_size[active] \in 0 .. Capacity /\ queue_size[active] > 0
          /\ After(read_index[active]) + queue_size[active] - 1 =
                 After(read_index[active]) + (queue_size[active] - 1)
      BY <1>2, <1>3, StageThreadAssumption DEF Slots
    <3> QED BY <1>2, <3>1, PlaceAfter
  <2>2. \A u \in Pushers : UNCHANGED EventOf(u) /\ (Pushing(u)' <=> Pushing(u))
    BY <1>1, <1>5 DEF EventOf, Pushing
  <2> QED BY <1>1, <1>5, <2>1, <2>2 DEF IInv, RingsTrue
<1>9. Conserved'
  <2>1. Contents(standby)' = Contents(standby)
    BY <1>1, <1>5 DEF Contents
  <2>2. Contents(active)' =
            Window(slots[active], After(read_index[active]), queue_size[active] - 1)
    BY <1>1, <1>5 DEF Contents, Window
  <2>3. Contents(active) = <<slots[active][read_index[active]]>> \o Contents(active)'
    BY <1>2, <2>2, WindowShrinks, ContentsAreWindows, Zenon
  <2>4. InHand = << >> /\ InHand' = <<slots[active][read_index[active]]>>
    BY <1>1 DEF InHand
  <2>5. delivered \o InHand \o Contents(active) =
            delivered \o InHand' \o Contents(active)'
    <3>1. delivered \in Seq(Values) /\ delivered \o << >> = delivered
      BY InHandType, ConcatEmptySeq
    <3>2. <<slots[active][read_index[active]]>> \in Seq(Values)
      BY <1>2
    <3>3. Contents(active)' \in Seq(Values)
      <4>1. queue_size[active] - 1 \in 0 .. Capacity
        BY <1>2, StageThreadAssumption
      <4> QED BY <1>2, <1>3, <2>2, <4>1, WindowType
    <3>4. delivered \o (<<slots[active][read_index[active]]>> \o Contents(active)') =
              delivered \o <<slots[active][read_index[active]]>> \o Contents(active)'
      BY <3>1, <3>2, <3>3, ConcatAssociative
    <3> QED BY <2>3, <2>4, <3>1, <3>4, Zenon
  <2> QED BY <1>1, <2>1, <2>5 DEF IInv, Conserved
<1> QED
  BY <1>4, <1>6, <1>7, <1>8, <1>9 DEF IInv

(* The event in hand is the next one of the log.                           *)
LEMMA InHandIsNext ==
    ASSUME IInv, spc = "handle"
    PROVE  /\ slots[active][event] \in Events
           /\ Len(delivered) + 1 <= Len(log)
           /\ log[Len(delivered) + 1] = slots[active][event]
<1> DEFINE x == slots[active][event]
           rest == Contents(active) \o Contents(standby)
<1>1. /\ delivered \in Seq(Values) /\ Contents(active) \in Seq(Values)
      /\ Contents(standby) \in Seq(Values)
      /\ InHand = <<x>> /\ <<x>> \in Seq(Values) /\ x \in Values
  <2>1. InHand = <<x>>
    BY DEF InHand
  <2>2. x \in Values
    BY DEF IInv, TypeOK, Values
  <2> QED BY <2>1, <2>2, InHandType, ContentsAreWindows, RingsDiffer
<1> HIDE DEF x
<1>2. rest \in Seq(Values)
  BY <1>1, ConcatProperties
<1>3. log = (delivered \o <<x>>) \o rest /\ delivered \o <<x>> \in Seq(Values)
  <2>1. delivered \o <<x>> \in Seq(Values)
    BY <1>1, ConcatProperties
  <2>2. log = delivered \o <<x>> \o Contents(active) \o Contents(standby)
    BY <1>1 DEF IInv, Conserved
  <2>3. (delivered \o <<x>>) \o (Contents(active) \o Contents(standby)) =
            delivered \o <<x>> \o Contents(active) \o Contents(standby)
    <3> DEFINE d == delivered \o <<x>>
               a == Contents(active)
               b == Contents(standby)
    <3>1. d \in Seq(Values) /\ a \in Seq(Values) /\ b \in Seq(Values)
      BY <1>1, <2>1
    <3> HIDE DEF d, a, b
    <3>2. d \o (a \o b) = d \o a \o b
      BY <3>1, ConcatAssociative, SMTT(60)
    <3> QED BY <3>2, Zenon DEF d, a, b
  <2> QED BY <2>1, <2>2, <2>3, Zenon DEF rest
<1> HIDE DEF rest
<1>4. /\ Len(delivered \o <<x>>) = Len(delivered) + 1
      /\ (delivered \o <<x>>)[Len(delivered) + 1] = x
  <2>1. Len(<<x>>) = 1 /\ <<x>>[1] = x
    OBVIOUS
  <2>2. /\ Len(delivered \o <<x>>) = Len(delivered) + 1
        /\ \A i \in 1 .. Len(delivered) + 1 :
              (delivered \o <<x>>)[i] =
                  IF i <= Len(delivered) THEN delivered[i] ELSE <<x>>[i - Len(delivered)]
    BY <1>1, <2>1, ConcatProperties
  <2>3. Len(delivered) \in Nat
    BY <1>1, LenProperties
  <2>4. Len(delivered) + 1 - Len(delivered) = 1 /\ ~(Len(delivered) + 1 <= Len(delivered))
        /\ Len(delivered) + 1 \in 1 .. Len(delivered) + 1
    BY <2>3
  <2> QED BY <2>1, <2>2, <2>4
<1>5. /\ Len(log) = Len(delivered) + 1 + Len(rest)
      /\ log[Len(delivered) + 1] = (delivered \o <<x>>)[Len(delivered) + 1]
  <2>1. /\ Len((delivered \o <<x>>) \o rest) = Len(delivered \o <<x>>) + Len(rest)
        /\ \A i \in 1 .. Len(delivered \o <<x>>) + Len(rest) :
              ((delivered \o <<x>>) \o rest)[i] =
                  IF i <= Len(delivered \o <<x>>) THEN (delivered \o <<x>>)[i]
                                                   ELSE rest[i - Len(delivered \o <<x>>)]
    BY <1>2, <1>3, ConcatProperties
  <2>2. Len(delivered) \in Nat /\ Len(rest) \in Nat
    BY <1>1, <1>2, LenProperties
  <2>3. /\ Len(delivered) + 1 \in 1 .. Len(delivered) + 1 + Len(rest)
        /\ Len(delivered) + 1 <= Len(delivered) + 1
    BY <2>2
  <2> QED BY <1>3, <1>4, <2>1, <2>3
<1>6. Len(delivered) \in Nat /\ Len(rest) \in Nat
  BY <1>1, <1>2, LenProperties
<1>7. Len(delivered) + 1 \in 1 .. Len(log)
  BY <1>5, <1>6
<1>8. log[Len(delivered) + 1] \in Events
  BY <1>7, ElementOfSeq DEF IInv, TypeOK
<1> QED
  BY <1>4, <1>5, <1>6, <1>7, <1>8 DEF x

LEMMA StepHandle ==
    ASSUME IInv, HandleEvent \/ HandleQuit
    PROVE  IInv'
<1>1. /\ UNCHANGED <<slots, write_index, read_index, queue_size, active, standby, mutex,
                     producerVars, waitVars, event, log, size_read>>
      /\ spc = "handle" /\ spc' \in {"pop", "quit"}
      /\ \/ /\ slots[active][event] # QuitEvent /\ spc' = "pop"
            /\ delivered' = Append(delivered, slots[active][event])
         \/ /\ slots[active][event] \in {QuitEvent, Garbage} /\ spc' = "quit"
            /\ UNCHANGED delivered
  BY DEF HandleEvent, HandleQuit, At, ringVars, standby
<1>2. slots[active][event] \in Events /\ slots[active][event] # Garbage
  BY <1>1, InHandIsNext, StageThreadAssumption
<1>3. delivered \in Seq(Values) /\ slots[active][event] \in Values
  BY <1>2, InHandType DEF Values
<1>4. TypeOK'
  <2>1. delivered' \in Seq(Values)
    BY <1>1, <1>3, AppendProperties
  <2> QED BY <1>1, <2>1 DEF IInv, TypeOK, producerVars, waitVars, Values
<1>5. OneWriter' /\ RingsTrue'
  BY <1>1, ThreadMovesOn
<1>6. SwapIsDue'
  BY <1>1 DEF SwapIsDue
<1>7. Conserved'
  <2>1. InHand = <<slots[active][event]>>
    BY <1>1 DEF InHand
  <2>2. CASE spc' = "pop"
    <3>1. InHand' = << >> /\ delivered' = delivered \o <<slots[active][event]>>
      BY <1>1, <1>3, <2>2, AppendIsConcat, Zenon DEF InHand
    <3>2. delivered' \o << >> = delivered'
      BY <1>4, ConcatEmptySeq DEF TypeOK
    <3> QED BY <1>1, <2>1, <3>1, <3>2, SameContents DEF IInv
  <2>3. CASE spc' = "quit"
    <3>1. slots[active][event] = QuitEvent /\ UNCHANGED delivered
      BY <1>1, <1>2, <2>3
    <3>2. InHand' = InHand
      BY <1>1, <2>1, <2>3, <3>1 DEF InHand
    <3> QED BY <1>1, <3>1, <3>2, SameContents DEF IInv
  <2> QED BY <1>1, <2>2, <2>3
<1> QED
  BY <1>4, <1>5, <1>6, <1>7 DEF IInv

LEMMA StepTakeLock ==
    ASSUME IInv, TakeLock
    PROVE  IInv'
<1>1. /\ UNCHANGED <<slots, write_index, read_index, queue_size, active, standby,
                     producerVars, waitVars, event, delivered, log, size_read>>
      /\ spc = "lock" /\ spc' = "swap" /\ mutex = NoOne /\ mutex' = StageThread
  BY DEF TakeLock, At, standby
<1>2. TypeOK'
  BY <1>1 DEF IInv, TypeOK, producerVars, waitVars
<1>3. UNCHANGED <<ppc, target, pushed>>
  BY <1>1 DEF producerVars
<1>4. OneWriter'
  BY <1>1, <1>3, StageThreadAssumption DEF IInv, OneWriter
<1>5. SwapIsDue'
  BY <1>1 DEF IInv, SwapIsDue
<1>6. RingsTrue'
  <2>1. \A u \in Pushers : UNCHANGED EventOf(u) /\ (Pushing(u)' <=> Pushing(u))
    BY <1>1, <1>3 DEF EventOf, Pushing
  <2> QED BY <1>1, <1>3, <2>1 DEF IInv, RingsTrue
<1>7. Conserved'
  <2>1. InHand = << >> /\ InHand' = << >>
    BY <1>1 DEF InHand
  <2> QED BY <1>1, <2>1, SameContents DEF IInv
<1> QED
  BY <1>2, <1>4, <1>5, <1>6, <1>7 DEF IInv

LEMMA StepSwap ==
    ASSUME IInv, Swap
    PROVE  IInv'
<1>1. /\ UNCHANGED <<slots, write_index, read_index, queue_size, producerVars, waitVars,
                     event, delivered, log, size_read>>
      /\ spc = "swap" /\ spc' = "pop" /\ active' = standby /\ mutex' = NoOne
  BY DEF Swap, At
<1>2. /\ active \in Rings /\ standby \in Rings /\ standby # active
      /\ standby' = active
  BY <1>1, RingsDiffer DEF standby, IInv, TypeOK, Rings
<1>3. TypeOK'
  BY <1>1, <1>2 DEF IInv, TypeOK, producerVars, waitVars
<1>4. /\ UNCHANGED <<ppc, target, pushed>>
      /\ mutex = StageThread
      /\ queue_size[active] = 0 /\ queue_size[standby] > 0
      /\ \A u \in Pushers : ppc[u] \notin {"copy", "load", "store"}
  <2>1. mutex = StageThread /\ queue_size[active] = 0 /\ queue_size[standby] > 0
    BY <1>1 DEF IInv, OneWriter, SwapIsDue
  <2>2. \A u \in Pushers : ppc[u] \notin {"copy", "load", "store"}
    BY <1>1, WritesAlone
  <2> QED BY <1>1, <2>1, <2>2 DEF producerVars
<1>5. OneWriter'
  BY <1>1, <1>4, StageThreadAssumption DEF IInv, OneWriter, Pushers
<1>6. SwapIsDue'
  BY <1>1 DEF SwapIsDue
<1>7. RingsTrue'
  <2>1. \A u \in Pushers : ~Pushing(u) /\ ~Pushing(u)' /\ ppc'[u] # "store"
    BY <1>4 DEF Pushing
  <2> QED BY <1>1, <1>2, <2>1 DEF IInv, RingsTrue
<1>8. Conserved'
  <2>1. InHand = << >> /\ InHand' = << >>
    BY <1>1 DEF InHand
  <2>2. Contents(active) = << >> /\ Contents(standby) \in Seq(Values)
    BY <1>2, <1>4, ContentsAreWindows
  <2>3. Contents(active)' = Contents(standby) /\ Contents(standby)' = Contents(active)
    BY <1>1, <1>2 DEF Contents
  <2>4. log = delivered \o << >> \o << >> \o Contents(standby)
    BY <2>1, <2>2 DEF IInv, Conserved
  <2>5. delivered \o << >> = delivered
    BY InHandType, ConcatEmptySeq
  <2>6. delivered \o Contents(standby) \in Seq(Values)
    BY <2>2, InHandType, ConcatProperties
  <2>7. log = delivered \o Contents(standby) /\ log \o << >> = log
    BY <2>4, <2>5, <2>6, ConcatEmptySeq
  <2> QED BY <1>1, <2>1, <2>2, <2>3, <2>5, <2>7 DEF Conserved
<1> QED
  BY <1>3, <1>5, <1>6, <1>7, <1>8 DEF IInv

LEMMA ThreadStutters ==
    ASSUME IInv, UNCHANGED vars
    PROVE  IInv'
<1>1. UNCHANGED <<slots, write_index, read_index, queue_size, active, standby, mutex,
                  producerVars, waitVars, spc, event, log, delivered, size_read>>
  BY DEF vars, ringVars, threadVars, standby
<1>2. TypeOK'
  BY <1>1 DEF IInv, TypeOK, producerVars, waitVars
<1>3. UNCHANGED <<ppc, target, pushed>>
  BY <1>1 DEF producerVars
<1>4. OneWriter' /\ SwapIsDue'
  BY <1>1, <1>3 DEF IInv, OneWriter, SwapIsDue
<1>5. RingsTrue'
  <2>1. \A u \in Pushers : UNCHANGED EventOf(u) /\ (Pushing(u)' <=> Pushing(u))
    BY <1>1, <1>3 DEF EventOf, Pushing
  <2> QED BY <1>1, <1>3, <2>1 DEF IInv, RingsTrue
<1>6. Conserved'
  <2>1. InHand' = InHand
    BY <1>1 DEF InHand
  <2> QED BY <1>1, <2>1, SameContents DEF IInv
<1> QED
  BY <1>2, <1>4, <1>5, <1>6 DEF IInv

LEMMA ThreadInvariant ==
    ASSUME IInv, StopQuiet, [Next]_vars
    PROVE  IInv'
<1>1. ASSUME NEW p \in Producers, PushEvent(p) PROVE IInv'
  BY <1>1, StepPushEvent
<1>2. ASSUME NEW t \in Pushers, PusherStep(t) PROVE IInv'
  BY <1>2, StepCopyEvent, StepLoadSize, StepStoreSize, StepAfterPush DEF PusherStep
<1>3. CASE ThreadStep
  BY <1>3, StepPop, StepWaits, StepTakeSlot, StepHandle, StepTakeLock, StepSwap
  DEF ThreadStep
<1> QED
  BY <1>1, <1>2, <1>3, StepStop, StepJoin, ThreadStutters DEF Next

(* Every step is one of the log's, or none.                                *)
LEMMA ThreadRefines ==
    ASSUME IInv, IInv', StopQuiet, [Next]_vars
    PROVE  [Log!Next]_(Log!logVars)
<1> DEFINE given == [h \in {StageThread} |-> delivered]
           gone  == IF spc = "quit" THEN {StageThread} ELSE {}
<1>1. ASSUME NEW t \in Pushers, StoreSize(t) PROVE Log!Next
  <2>1. log' = Append(log, EventOf(t)) /\ EventOf(t) \in Events
    BY <1>1, StepStoreSize, Zenon DEF StoreSize
  <2>2. UNCHANGED <<spc, delivered>>
    BY <1>1 DEF StoreSize, threadVars
  <2>3. given' = given /\ gone' = gone
    BY <2>2
  <2>4. Log!Append1
    BY <2>1, <2>3 DEF Log!Append1
  <2> QED BY <2>4 DEF Log!Next
<1>2. CASE HandleEvent
  <2>1. /\ spc = "handle" /\ spc' = "pop" /\ slots[active][event] # QuitEvent
        /\ delivered' = Append(delivered, slots[active][event]) /\ log' = log
    BY <1>2 DEF HandleEvent, At
  <2>2. /\ Len(delivered) + 1 <= Len(log)
        /\ log[Len(delivered) + 1] = slots[active][event]
    BY <2>1, InHandIsNext
  <2>3. given[StageThread] = delivered /\ StageThread \notin gone /\ gone' = gone
    BY <2>1
  <2>4. given' = [given EXCEPT ![StageThread] = Append(@, log[Len(delivered) + 1])]
    BY <2>1, <2>2, Zenon
  <2>5. Log!Deliver(StageThread)
    BY <2>1, <2>2, <2>3, <2>4, Zenon DEF Log!Deliver
  <2> QED BY <2>5 DEF Log!Next
<1>3. CASE HandleQuit
  <2>1. /\ spc = "handle" /\ spc' = "quit" /\ slots[active][event] \in {QuitEvent, Garbage}
        /\ UNCHANGED <<delivered, log>>
    BY <1>3 DEF HandleQuit, At
  <2>2. /\ Len(delivered) + 1 <= Len(log)
        /\ log[Len(delivered) + 1] = slots[active][event]
        /\ slots[active][event] = QuitEvent
    BY <2>1, InHandIsNext, StageThreadAssumption
  <2>3. /\ given[StageThread] = delivered /\ given' = given
        /\ StageThread \notin gone /\ gone' = gone \cup {StageThread}
    BY <2>1
  <2>4. Log!Stop(StageThread)
    BY <2>1, <2>2, <2>3 DEF Log!Stop
  <2> QED BY <2>4 DEF Log!Next
<1>4. ASSUME log' = log, delivered' = delivered, spc = "quit" <=> spc' = "quit"
      PROVE  UNCHANGED Log!logVars
  BY <1>4 DEF Log!logVars
<1>5. ASSUME NEW p \in Producers, PushEvent(p) PROVE UNCHANGED Log!logVars
  BY <1>4, <1>5 DEF PushEvent, threadVars
<1>6. ASSUME NEW t \in Pushers,
             CopyEvent(t) \/ LoadSize(t) \/ Unlock(t) \/ TestFlag(t) \/ Signal(t)
      PROVE  UNCHANGED Log!logVars
  <2>1. log' = log /\ delivered' = delivered /\ (spc = "quit" <=> spc' = "quit")
    BY <1>6 DEF CopyEvent, LoadSize, Unlock, TestFlag, Signal, threadVars
  <2> QED BY <1>4, <2>1
<1>7. CASE Stop \/ Join \/ UNCHANGED vars
  <2>1. log' = log /\ delivered' = delivered /\ (spc = "quit" <=> spc' = "quit")
    BY <1>7 DEF Stop, Join, vars, threadVars
  <2> QED BY <1>4, <2>1
<1>8. CASE \/ Pop \/ TakeSlot \/ CheckStandby \/ TakeLock \/ Swap
           \/ RaiseFlag \/ Block \/ WakeSignalled \/ WakeTimeout \/ ClearFlag
  <2>1. log' = log /\ delivered' = delivered /\ (spc = "quit" <=> spc' = "quit")
    BY <1>8 DEF Pop, TakeSlot, CheckStandby, TakeLock, Swap, RaiseFlag, Block,
                WakeSignalled, WakeTimeout, Wake, ClearFlag, At
  <2> QED BY <1>4, <2>1
<1> QED
  BY <1>1, <1>2, <1>3, <1>5, <1>6, <1>7, <1>8 DEF Next, PusherStep, ThreadStep

-----------------------------------------------------------------------------
(* A stage's choice of the thread.                                         *)

LEMMA RoundInit == StageInit => RoundInv
<1> SUFFICES ASSUME StageInit PROVE RoundInv
  OBVIOUS
<1>1. ThreadSize \in Nat \ {0}
  BY StageAssumption
<1>2. \A i \in ThreadIndices : turns[i] = IF i < next_thread_index_ THEN 0 + 1 ELSE 0
  BY <1>1 DEF StageInit, ThreadIndices
<1>3. TurnsEven
  BY <1>2 DEF TurnsEven
<1>4. \A p \in Callers : stage_pc[p] = "idle"
  BY DEF StageInit
<1> QED
  BY <1>1, <1>3, <1>4 DEF StageInit, RoundInv, ThreadIndices

LEMMA RoundStep ==
    ASSUME RoundInv, OneCaller, [StageNext]_stageVars
    PROVE  RoundInv'
<1>1. ThreadSize \in Nat \ {0} /\ \A p, q \in Callers : p = q
  BY StageAssumption DEF OneCaller
<1>2. CASE UNCHANGED stageVars
  BY <1>2 DEF stageVars, RoundInv, TurnsEven
<1>3. ASSUME NEW p \in Callers, NEW arg \in -1 .. ThreadSize, StagePush(p, arg)
      PROVE  RoundInv'
  <2>1. /\ UNCHANGED <<next_thread_index_, turns>> /\ stage_pc[p] = "idle"
        /\ \/ /\ stage_pc' = [stage_pc EXCEPT ![p] = "push"]
              /\ \E i \in ThreadIndices : thread_index' = [thread_index EXCEPT ![p] = i]
           \/ /\ stage_pc' = [stage_pc EXCEPT ![p] = "load"] /\ UNCHANGED thread_index
    BY <1>1, <1>3 DEF StagePush, StageGoto, ThreadIndices
  <2>2. TurnsEven'
    BY <2>1 DEF RoundInv, TurnsEven
  <2>3. next_thread_index_ <= ThreadSize
    BY <2>1 DEF RoundInv
  <2>4. CASE stage_pc' = [stage_pc EXCEPT ![p] = "load"] /\ UNCHANGED thread_index
    BY <1>1, <2>1, <2>2, <2>3, <2>4 DEF RoundInv
  <2>5. ASSUME NEW i \in ThreadIndices, thread_index' = [thread_index EXCEPT ![p] = i],
               stage_pc' = [stage_pc EXCEPT ![p] = "push"]
        PROVE  RoundInv'
    <3>1. i \in 0 .. ThreadSize
      BY <1>1 DEF ThreadIndices
    <3> QED BY <1>1, <2>1, <2>2, <2>3, <2>5, <3>1 DEF RoundInv
  <2> QED BY <2>1, <2>4, <2>5
<1>4. ASSUME NEW p \in Callers, LoadNext(p) PROVE RoundInv'
  <2>1. /\ UNCHANGED <<next_thread_index_, turns>> /\ stage_pc[p] = "load"
        /\ stage_pc' = [stage_pc EXCEPT ![p] = "store"]
        /\ thread_index' = [thread_index EXCEPT ![p] = next_thread_index_]
    BY <1>4 DEF LoadNext, StageGoto
  <2>2. TurnsEven'
    BY <2>1 DEF RoundInv, TurnsEven
  <2>3. next_thread_index_ \in 0 .. ThreadSize
    BY <1>1, <2>1 DEF RoundInv
  <2> QED BY <1>1, <2>1, <2>2, <2>3 DEF RoundInv
<1>5. ASSUME NEW p \in Callers, StoreNext(p) PROVE RoundInv'
  <2>1. /\ stage_pc[p] = "store" /\ UNCHANGED thread_index
        /\ thread_index[p] = next_thread_index_ /\ next_thread_index_ \in 0 .. ThreadSize
        /\ next_thread_index_' = next_thread_index_ + 1
    BY <1>1, <1>5 DEF StoreNext, RoundInv
  <2>2. PICK n \in Nat : \A i \in ThreadIndices :
            turns[i] = IF i < next_thread_index_ THEN n + 1 ELSE n
    BY DEF RoundInv, TurnsEven
  <2>3. CASE next_thread_index_ = ThreadSize
    <3>1. stage_pc' = [stage_pc EXCEPT ![p] = "wrap"] /\ UNCHANGED turns
      BY <1>1, <1>5, <2>1, <2>3 DEF StoreNext, StageGoto
    <3>2. \A i \in ThreadIndices : turns'[i] = IF i < next_thread_index_' THEN n + 1 ELSE n
      BY <1>1, <2>1, <2>2, <2>3, <3>1 DEF ThreadIndices
    <3>3. TurnsEven'
      BY <3>2 DEF TurnsEven
    <3> QED BY <1>1, <2>1, <2>3, <3>1, <3>3 DEF RoundInv
  <2>4. CASE next_thread_index_ # ThreadSize
    <3>1. /\ stage_pc' = [stage_pc EXCEPT ![p] = "push"]
          /\ turns' = [turns EXCEPT ![next_thread_index_] = @ + 1]
          /\ next_thread_index_ \in ThreadIndices
      BY <1>1, <1>5, <2>1, <2>4 DEF StoreNext, StageGoto, Turn, ThreadIndices
    <3>2. turns \in [ThreadIndices -> Nat]
      BY DEF RoundInv
    <3>3. \A i \in ThreadIndices : turns'[i] = IF i < next_thread_index_' THEN n + 1 ELSE n
      <4> TAKE i \in ThreadIndices
      <4>1. i \in Nat /\ next_thread_index_ \in Nat
        BY <1>1, <2>1 DEF ThreadIndices
      <4>2. CASE i = next_thread_index_
        <5>1. turns[i] = n /\ turns'[i] = turns[i] + 1 /\ i < next_thread_index_'
          BY <2>1, <2>2, <3>1, <3>2, <4>1, <4>2
        <5> QED BY <5>1
      <4>3. CASE i # next_thread_index_
        <5>1. turns'[i] = turns[i] /\ (i < next_thread_index_' <=> i < next_thread_index_)
          BY <2>1, <3>1, <3>2, <4>1, <4>3
        <5> QED BY <2>2, <5>1
      <4> QED BY <4>2, <4>3
    <3>4. TurnsEven'
      BY <3>3 DEF TurnsEven
    <3>5. turns' \in [ThreadIndices -> Nat]
      BY <3>1, <3>2
    <3>6. next_thread_index_' <= ThreadSize
      BY <1>1, <2>1, <2>4
    <3> QED BY <1>1, <2>1, <3>1, <3>4, <3>5, <3>6 DEF RoundInv
  <2> QED BY <2>3, <2>4
<1>6. ASSUME NEW p \in Callers, Wrap(p) PROVE RoundInv'
  <2>1. /\ stage_pc[p] = "wrap" /\ thread_index[p] = ThreadSize
        /\ next_thread_index_ = ThreadSize + 1
        /\ ThreadSize - ThreadSize = 0 /\ ThreadSize - ThreadSize + 1 = 1
    BY <1>1, <1>6 DEF Wrap, RoundInv
  <2>2. /\ thread_index' = [thread_index EXCEPT ![p] = 0]
        /\ next_thread_index_' = 1
        /\ turns' = [turns EXCEPT ![0] = @ + 1]
        /\ stage_pc' = [stage_pc EXCEPT ![p] = "push"]
    BY <1>6, <2>1, Zenon DEF Wrap, Turn, StageGoto
  <2>3. PICK n \in Nat : \A i \in ThreadIndices :
            turns[i] = IF i < next_thread_index_ THEN n + 1 ELSE n
    BY DEF RoundInv, TurnsEven
  <2>4. turns \in [ThreadIndices -> Nat] /\ 0 \in ThreadIndices
    BY <1>1 DEF RoundInv, ThreadIndices
  <2>5. \A i \in ThreadIndices : turns'[i] = IF i < next_thread_index_' THEN (n + 1) + 1 ELSE n + 1
    BY <1>1, <2>1, <2>2, <2>3, <2>4 DEF ThreadIndices
  <2>6. TurnsEven'
    BY <2>5 DEF TurnsEven
  <2>7. turns' \in [ThreadIndices -> Nat]
    BY <2>2, <2>4
  <2> QED BY <1>1, <2>2, <2>4, <2>6, <2>7 DEF RoundInv
<1>7. ASSUME NEW p \in Callers, PushToThread(p) PROVE RoundInv'
  <2>1. /\ UNCHANGED <<next_thread_index_, thread_index, turns>> /\ stage_pc[p] = "push"
        /\ stage_pc' = [stage_pc EXCEPT ![p] = "idle"]
    BY <1>7 DEF PushToThread, StageGoto
  <2>2. TurnsEven'
    BY <2>1 DEF RoundInv, TurnsEven
  <2> QED BY <1>1, <2>1, <2>2 DEF RoundInv
<1> QED
  BY <1>2, <1>3, <1>4, <1>5, <1>6, <1>7 DEF StageNext

LEMMA RoundIsFair == RoundInv => IndexInRange /\ Balanced
<1> SUFFICES ASSUME RoundInv PROVE IndexInRange /\ Balanced
  OBVIOUS
<1>1. IndexInRange
  BY DEF RoundInv, IndexInRange
<1>2. PICK n \in Nat : \A i \in ThreadIndices :
          turns[i] = IF i < next_thread_index_ THEN n + 1 ELSE n
  BY DEF RoundInv, TurnsEven
<1>3. \A i \in ThreadIndices : turns[i] \in {n, n + 1}
  BY <1>2
<1>4. Balanced
  BY <1>3 DEF Balanced
<1> QED
  BY <1>1, <1>4

-----------------------------------------------------------------------------
(* The composition.                                                        *)

LEMMA PartsOfStages ==
    MCNext => /\ [Next]_vars
              /\ [StageNext]_stageVars
              /\ [Shared!Next]_sharedVars
              /\ UNCHANGED part
BY DEF MCNext

(* A stage thread: its inductive invariant (typing, one writer at a time,  *)
(* a swap only when it is due, the rings' indices, conservation) holds     *)
(* for every number of producers, ring capacity and number of calls.       *)
THEOREM ThreadInductive == ASSUME StopQuiet PROVE MCSpec => []IInv
<1>1. MCInit => IInv
  BY ThreadInit DEF MCInit
<1>2. IInv /\ [MCNext]_allVars => IInv'
  <2> SUFFICES ASSUME IInv, [MCNext]_allVars PROVE IInv'
    OBVIOUS
  <2>1. [Next]_vars
    BY PartsOfStages DEF allVars
  <2> QED BY <2>1, ThreadInvariant
<1> QED
  BY <1>1, <1>2, PTL DEF MCSpec

-----------------------------------------------------------------------------
(* The shared queues of SL_Seda_Stage2.                                    *)

LEMMA BothGrow ==
    ASSUME NEW a \in Nat, NEW b \in Nat
    PROVE  /\ (a + 1) - (b + 1) = a - b
           /\ (a - b) + (b + 1) = a + 1
           /\ b <= a => a - b \in Nat
           /\ b <= a => \A i \in 1 .. b : (a - b) + i \in 1 .. a
           /\ \A i \in 1 .. a - b : i \in 1 .. a
           /\ \A i \in 1 .. a : ~(b + i <= b) /\ (b + i) - b = i
OBVIOUS

LEMMA SharedInit == Shared!Init => Shared!IInv
<1> SUFFICES ASSUME Shared!Init PROVE Shared!IInv
  OBVIOUS
<1>1. /\ \A q \in Shared!Priorities : shared[q] = << >> /\ accepted[q] = << >>
      /\ \A w \in Workers : /\ local[w] = << >> /\ handled[w] = << >>
                            /\ wpc[w] = "pop" /\ handling[w] = Quit
      /\ closing = FALSE
  BY DEF Shared!Init
<1>2. << >> \in Seq(Shared!Sent) /\ << >> \in Seq(Shared!Sent \cup {Quit})
  OBVIOUS
<1>3. Len(<< >>) = 0 /\ BatchSize \in Nat
  BY SharedAssumption DEF Shared!Stage2Assumption
<1>4. Shared!QueuesTyped
  <2>1. /\ shared \in [Shared!Priorities -> Seq(Shared!Sent)]
        /\ accepted \in [Shared!Priorities -> Seq(Shared!Sent)]
        /\ local \in [Workers -> Seq(Shared!Sent \cup {Quit})]
        /\ handled \in [Workers -> Seq(Shared!Sent)]
        /\ handling \in [Workers -> Shared!Sent \cup {Quit}]
        /\ sent \in [OneProducer -> Nat]
    BY <1>2 DEF Shared!Init
  <2>2. \A w \in Workers : /\ Len(local[w]) = 0 /\ Len(local[w]) <= BatchSize
                           /\ \A i \in 1 .. Len(local[w]) : FALSE
    BY <1>1, <1>3
  <2>3. wpc \in [Workers -> {"pop", "handle", "high", "low", "test", "waiting", "quit", "exited"}]
    BY DEF Shared!Init
  <2> QED BY <1>1, <2>1, <2>2, <2>3, Zenon DEF Shared!QueuesTyped
<1>5. \A w \in Workers : Shared!given[w] = << >>
  <2> TAKE w \in Workers
  <2>1. Shared!Given(w) = << >> \o << >> \o << >>
    BY <1>1 DEF Shared!Given
  <2> QED BY <1>2, <2>1, ConcatEmptySeq DEF Shared!given
<1>6. \A q \in Shared!Priorities :
         Shared!gone[q] = 0 /\ Len(shared[q]) = 0 /\ Len(accepted[q]) = 0
  BY <1>1, <1>3 DEF Shared!gone, Shared!Gone
<1>7. Shared!AcceptedOnce
  BY <1>6 DEF Shared!AcceptedOnce
<1>8. Shared!GivenOnce
  <2>1. \A w \in Workers : \A i \in 1 .. Len(Shared!given[w]) : FALSE
    BY <1>3, <1>5
  <2>2. \A q \in Shared!Priorities : \A k \in 1 .. Shared!gone[q] : FALSE
    BY <1>6
  <2> QED BY <2>1, <2>2 DEF Shared!GivenOnce, Shared!GivenAway, Shared!GivenWasAccepted,
                            Shared!GivenInOrder, Shared!OneOwner
<1> QED
  BY <1>4, <1>7, <1>8 DEF Shared!IInv

(* The types of one queue's and one thread's part.                         *)
LEMMA SharedTypes ==
    ASSUME Shared!IInv
    PROVE  /\ \A q \in Shared!Priorities :
                 /\ shared[q] \in Seq(Shared!Sent) /\ accepted[q] \in Seq(Shared!Sent)
                 /\ Len(shared[q]) \in Nat /\ Len(accepted[q]) \in Nat
                 /\ Len(shared[q]) <= Len(accepted[q]) /\ Shared!gone[q] \in Nat
                 /\ Shared!gone[q] = Len(accepted[q]) - Len(shared[q])
           /\ \A w \in Workers :
                 /\ local[w] \in Seq(Shared!Sent \cup {Quit}) /\ handled[w] \in Seq(Shared!Sent)
                 /\ ~closing => local[w] \in Seq(Shared!Sent)
                 /\ wpc[w] = "handle" => handling[w] \in Shared!Sent
<1>1. ASSUME NEW q \in Shared!Priorities
      PROVE  /\ shared[q] \in Seq(Shared!Sent) /\ accepted[q] \in Seq(Shared!Sent)
             /\ Len(shared[q]) \in Nat /\ Len(accepted[q]) \in Nat
             /\ Len(shared[q]) <= Len(accepted[q]) /\ Shared!gone[q] \in Nat
             /\ Shared!gone[q] = Len(accepted[q]) - Len(shared[q])
  <2>1. shared[q] \in Seq(Shared!Sent) /\ accepted[q] \in Seq(Shared!Sent)
    BY DEF Shared!IInv, Shared!QueuesTyped
  <2>2. Len(shared[q]) \in Nat /\ Len(accepted[q]) \in Nat
    BY <2>1, LenProperties
  <2>3. Len(shared[q]) <= Len(accepted[q])
    BY DEF Shared!IInv, Shared!AcceptedOnce
  <2> QED BY <2>1, <2>2, <2>3 DEF Shared!gone, Shared!Gone
<1>2. ASSUME NEW w \in Workers
      PROVE  /\ local[w] \in Seq(Shared!Sent \cup {Quit}) /\ handled[w] \in Seq(Shared!Sent)
             /\ ~closing => local[w] \in Seq(Shared!Sent)
             /\ wpc[w] = "handle" => handling[w] \in Shared!Sent
  <2>1. local[w] \in Seq(Shared!Sent \cup {Quit}) /\ handled[w] \in Seq(Shared!Sent)
    BY DEF Shared!IInv, Shared!QueuesTyped
  <2>2. ASSUME ~closing PROVE local[w] \in Seq(Shared!Sent)
    <3>1. Len(local[w]) \in Nat /\ local[w] \in [1 .. Len(local[w]) -> Shared!Sent \cup {Quit}]
      BY <2>1, LenProperties
    <3>2. \A i \in 1 .. Len(local[w]) : local[w][i] # Quit
      BY <2>2 DEF Shared!IInv, Shared!QueuesTyped
    <3>3. local[w] \in [1 .. Len(local[w]) -> Shared!Sent]
      BY <3>1, <3>2
    <3> QED BY <3>1, <3>3
  <2>3. wpc[w] = "handle" => handling[w] \in Shared!Sent
    BY DEF Shared!IInv, Shared!QueuesTyped
  <2> QED BY <2>1, <2>2, <2>3
<1> QED
  BY <1>1, <1>2, Zenon

LEMMA GivenType ==
    ASSUME Shared!IInv, NEW w \in Workers
    PROVE  /\ Shared!Given(w) \in Seq(Shared!Sent) /\ Len(Shared!Given(w)) \in Nat
           /\ Shared!given[w] = Shared!Given(w)
<1> DEFINE hand == IF wpc[w] = "handle" THEN <<handling[w]>> ELSE << >>
           rest == IF closing THEN << >> ELSE local[w]
<1>1. handled[w] \in Seq(Shared!Sent) /\ hand \in Seq(Shared!Sent) /\ rest \in Seq(Shared!Sent)
  BY SharedTypes
<1>2. Shared!Given(w) = handled[w] \o hand \o rest
  BY DEF Shared!Given
<1> HIDE DEF hand, rest
<1>3. handled[w] \o hand \in Seq(Shared!Sent)
  BY <1>1, ConcatProperties
<1>4. Shared!Given(w) \in Seq(Shared!Sent)
  BY <1>1, <1>2, <1>3, ConcatProperties
<1> QED
  BY <1>4, LenProperties DEF Shared!given

(* A step that accepts nothing and gives nothing away.                     *)
LEMMA GivenStays ==
    ASSUME Shared!IInv, UNCHANGED <<shared, accepted, sent>>,
           \A w \in Workers : Shared!Given(w)' = Shared!Given(w)
    PROVE  Shared!AcceptedOnce' /\ Shared!GivenOnce'
<1>1. Shared!gone' = Shared!gone
  BY DEF Shared!gone, Shared!Gone
<1>2. Shared!given' = Shared!given
  BY DEF Shared!given
<1>3. Shared!AcceptedOnce'
  BY <1>1 DEF Shared!IInv, Shared!AcceptedOnce
<1>4. Shared!GivenAway' /\ Shared!GivenWasAccepted'
  <2>1. Shared!GivenAway /\ Shared!GivenWasAccepted
    BY DEF Shared!IInv, Shared!GivenOnce
  <2>2. Shared!GivenAway'
    BY <1>1, <1>2, <2>1 DEF Shared!GivenAway
  <2>3. Shared!GivenWasAccepted'
    BY <1>1, <1>2, <2>1 DEF Shared!GivenWasAccepted
  <2> QED BY <2>2, <2>3
<1>5. Shared!GivenInOrder' /\ Shared!OneOwner'
  BY <1>1, <1>2 DEF Shared!IInv, Shared!GivenOnce, Shared!GivenInOrder, Shared!OneOwner
<1> QED
  BY <1>3, <1>4, <1>5 DEF Shared!GivenOnce

LEMMA SharedAccept ==
    ASSUME Shared!IInv, NEW p \in OneProducer, NEW q \in Shared!Priorities,
           Shared!PushEvent(p, q)
    PROVE  Shared!IInv'
<1> DEFINE event2 == <<p, sent[p] + 1>>
<1>1. /\ ~closing /\ sent' = [sent EXCEPT ![p] = @ + 1]
      /\ UNCHANGED <<local, wpc, handling, closing, handled>>
      /\ \/ /\ shared' = [shared EXCEPT ![q] = Append(@, event2)]
            /\ accepted' = [accepted EXCEPT ![q] = Append(@, event2)]
         \/ UNCHANGED <<shared, accepted>>
  BY DEF Shared!PushEvent, Shared!closeVars
<1>2. sent[p] \in Nat /\ sent'[p] = sent[p] + 1 /\ \A r \in OneProducer : r # p => sent'[r] = sent[r]
  BY <1>1 DEF Shared!IInv, Shared!QueuesTyped
<1>3. event2 \in Shared!Sent /\ event2[1] = p /\ event2[2] = sent[p] + 1
  BY <1>2 DEF Shared!Sent
<1>4. Shared!given' = Shared!given
  BY <1>1 DEF Shared!given, Shared!Given
<1>5. sent' \in [OneProducer -> Nat]
  BY <1>1, <1>2 DEF Shared!IInv, Shared!QueuesTyped
<1>6. CASE UNCHANGED <<shared, accepted>>
  <2>1. Shared!QueuesTyped'
    BY <1>1, <1>5, <1>6, Zenon DEF Shared!IInv, Shared!QueuesTyped
  <2>2. Shared!gone' = Shared!gone
    BY <1>6 DEF Shared!gone, Shared!Gone
  <2>3. Shared!GivenOnce'
    <3>1. Shared!GivenAway' /\ Shared!GivenWasAccepted'
      BY <1>4, <1>6, <2>2
      DEF Shared!IInv, Shared!GivenOnce, Shared!GivenAway, Shared!GivenWasAccepted
    <3>2. Shared!GivenInOrder' /\ Shared!OneOwner'
      BY <1>4, <1>6, <2>2 DEF Shared!IInv, Shared!GivenOnce, Shared!GivenInOrder, Shared!OneOwner
    <3> QED BY <3>1, <3>2 DEF Shared!GivenOnce
  <2>4. \A r \in Shared!Priorities : \A i \in 1 .. Len(accepted[r]) :
            accepted[r][i][2] <= sent'[accepted[r][i][1]]
    <3> TAKE r \in Shared!Priorities
    <3> TAKE i \in 1 .. Len(accepted[r])
    <3>1. accepted[r][i] \in Shared!Sent /\ accepted[r][i][2] <= sent[accepted[r][i][1]]
      BY SharedTypes, ElementOfSeq, Zenon DEF Shared!IInv, Shared!AcceptedOnce
    <3>2. accepted[r][i][1] \in OneProducer /\ accepted[r][i][2] \in Nat
      BY <3>1 DEF Shared!Sent
    <3>3. sent[accepted[r][i][1]] \in Nat
      BY <3>2 DEF Shared!IInv, Shared!QueuesTyped
    <3> QED BY <1>2, <3>1, <3>2, <3>3
  <2>5. Shared!AcceptedOnce'
    BY <1>6, <2>2, <2>4 DEF Shared!IInv, Shared!AcceptedOnce
  <2> QED BY <2>1, <2>3, <2>5 DEF Shared!IInv
<1>7. CASE /\ shared' = [shared EXCEPT ![q] = Append(@, event2)]
           /\ accepted' = [accepted EXCEPT ![q] = Append(@, event2)]
  <2> HIDE DEF event2
  <2>1. /\ shared[q] \in Seq(Shared!Sent) /\ accepted[q] \in Seq(Shared!Sent)
        /\ shared'[q] = Append(shared[q], event2) /\ accepted'[q] = Append(accepted[q], event2)
        /\ \A r \in Shared!Priorities : r # q => shared'[r] = shared[r] /\ accepted'[r] = accepted[r]
    BY <1>7, SharedTypes DEF Shared!IInv, Shared!QueuesTyped
  <2>2. /\ shared'[q] \in Seq(Shared!Sent) /\ accepted'[q] \in Seq(Shared!Sent)
        /\ Len(shared'[q]) = Len(shared[q]) + 1 /\ Len(accepted'[q]) = Len(accepted[q]) + 1
        /\ \A i \in 1 .. Len(shared[q]) : shared'[q][i] = shared[q][i]
        /\ \A i \in 1 .. Len(accepted[q]) : accepted'[q][i] = accepted[q][i]
        /\ shared'[q][Len(shared[q]) + 1] = event2
        /\ accepted'[q][Len(accepted[q]) + 1] = event2
    BY <1>3, <2>1, AppendProperties
  <2>3. /\ shared' \in [Shared!Priorities -> Seq(Shared!Sent)]
        /\ accepted' \in [Shared!Priorities -> Seq(Shared!Sent)]
    BY <1>7, <2>1, <2>2 DEF Shared!IInv, Shared!QueuesTyped
  <2>4. Shared!QueuesTyped'
    BY <1>1, <1>5, <2>3, Zenon DEF Shared!IInv, Shared!QueuesTyped
  <2>5. Shared!gone' = Shared!gone
    <3>1. ASSUME NEW r \in Shared!Priorities PROVE Shared!Gone(r)' = Shared!Gone(r)
      <4>1. Len(accepted[r]) \in Nat /\ Len(shared[r]) \in Nat
        BY SharedTypes
      <4>2. CASE r = q
        <5>1. /\ Len(accepted[q]) \in Nat /\ Len(shared[q]) \in Nat
              /\ Len(accepted'[q]) - Len(shared'[q]) =
                     (Len(accepted[q]) + 1) - (Len(shared[q]) + 1)
          BY <2>2, <4>1, <4>2
        <5>2. Len(accepted'[q]) - Len(shared'[q]) = Len(accepted[q]) - Len(shared[q])
          BY <5>1, BothGrow, Zenon
        <5> QED BY <4>2, <5>2, Zenon DEF Shared!Gone
      <4>3. CASE r # q
        BY <2>1, <4>3, Zenon DEF Shared!Gone
      <4> QED BY <4>2, <4>3
    <3> QED BY <3>1 DEF Shared!gone
  <2>6. \A r \in Shared!Priorities : \A k \in 1 .. Shared!gone[r] : accepted'[r][k] = accepted[r][k]
    <3> TAKE r \in Shared!Priorities
    <3> TAKE k \in 1 .. Shared!gone[r]
    <3>1. /\ Len(accepted[r]) \in Nat /\ Len(shared[r]) \in Nat
          /\ Shared!gone[r] = Len(accepted[r]) - Len(shared[r])
      BY SharedTypes, Zenon
    <3>2. k \in 1 .. Len(accepted[r])
      BY <3>1
    <3> QED BY <2>1, <2>2, <3>2, Zenon
  <2>7. Shared!GivenOnce'
    <3>1. Shared!GivenAway' /\ Shared!GivenWasAccepted'
      BY <1>4, <2>5, <2>6
      DEF Shared!IInv, Shared!GivenOnce, Shared!GivenAway, Shared!GivenWasAccepted
    <3>2. Shared!GivenInOrder' /\ Shared!OneOwner'
      BY <1>4, <2>5, <2>6
      DEF Shared!IInv, Shared!GivenOnce, Shared!GivenInOrder, Shared!OneOwner
    <3> QED BY <3>1, <3>2 DEF Shared!GivenOnce
  <2>8. \A r \in Shared!Priorities : \A i \in 1 .. Len(accepted[r]) :
            /\ accepted[r][i][2] <= sent'[accepted[r][i][1]]
            /\ accepted[r][i] # event2
    <3> TAKE r \in Shared!Priorities
    <3> TAKE i \in 1 .. Len(accepted[r])
    <3>1. accepted[r][i] \in Shared!Sent /\ accepted[r][i][2] <= sent[accepted[r][i][1]]
      BY SharedTypes, ElementOfSeq, Zenon DEF Shared!IInv, Shared!AcceptedOnce
    <3>2. accepted[r][i][1] \in OneProducer /\ accepted[r][i][2] \in Nat
      BY <3>1 DEF Shared!Sent
    <3>3. sent[accepted[r][i][1]] \in Nat
      BY <3>2 DEF Shared!IInv, Shared!QueuesTyped
    <3>4. accepted[r][i][1] = p => accepted[r][i][2] <= sent[p] /\ sent[p] + 1 # accepted[r][i][2]
      BY <1>2, <3>1, <3>2
    <3> QED BY <1>2, <1>3, <3>1, <3>2, <3>3, <3>4, SMTT(60)
  <2>9. \A r \in Shared!Priorities : \A i \in 1 .. Len(accepted'[r]) :
            \/ i \in 1 .. Len(accepted[r]) /\ accepted'[r][i] = accepted[r][i]
            \/ r = q /\ i = Len(accepted[q]) + 1 /\ accepted'[r][i] = event2
    <3> TAKE r \in Shared!Priorities
    <3>1. Len(accepted[r]) \in Nat
      BY SharedTypes
    <3>2. CASE r = q
      BY <2>2, <3>1, <3>2, SMTT(60)
    <3>3. CASE r # q
      BY <2>1, <3>3
    <3> QED BY <3>2, <3>3
  <2>10. \A r \in Shared!Priorities : \A i \in 1 .. Len(accepted'[r]) :
            accepted'[r][i][2] <= sent'[accepted'[r][i][1]]
    <3>1. event2[2] <= sent'[event2[1]]
      BY <1>2, <1>3
    <3> QED BY <2>8, <2>9, <3>1, Zenon
  <2>11. \A r, s \in Shared!Priorities :
            \A i \in 1 .. Len(accepted'[r]), j \in 1 .. Len(accepted'[s]) :
               accepted'[r][i] = accepted'[s][j] => r = s /\ i = j
    <3>1. \A r, s \in Shared!Priorities :
             \A i \in 1 .. Len(accepted[r]), j \in 1 .. Len(accepted[s]) :
                accepted[r][i] = accepted[s][j] => r = s /\ i = j
      BY Zenon DEF Shared!IInv, Shared!AcceptedOnce
    <3> QED BY <2>8, <2>9, <3>1, SMTT(60)
  <2>12. \A r \in Shared!Priorities :
            /\ Len(shared'[r]) <= Len(accepted'[r])
            /\ \A i \in 1 .. Len(shared'[r]) : shared'[r][i] = accepted'[r][Shared!gone[r] + i]
    <3>1. ASSUME NEW r \in Shared!Priorities, r # q
          PROVE  /\ Len(shared'[r]) <= Len(accepted'[r])
                 /\ \A i \in 1 .. Len(shared'[r]) : shared'[r][i] = accepted'[r][Shared!gone[r] + i]
      BY <2>1, <3>1 DEF Shared!IInv, Shared!AcceptedOnce
    <3>0. /\ Len(accepted[q]) \in Nat /\ Len(shared[q]) \in Nat /\ Shared!gone[q] \in Nat
          /\ Len(shared[q]) <= Len(accepted[q])
          /\ Shared!gone[q] = Len(accepted[q]) - Len(shared[q])
      BY SharedTypes, Zenon
    <3>2. Len(shared'[q]) <= Len(accepted'[q])
      BY <2>2, <3>0
    <3>3. ASSUME NEW i \in 1 .. Len(shared'[q])
          PROVE  shared'[q][i] = accepted'[q][Shared!gone[q] + i]
      <4>1. CASE i = Len(shared[q]) + 1
        <5>1. Shared!gone[q] + (Len(shared[q]) + 1) = Len(accepted[q]) + 1
          <6>1. (Len(accepted[q]) - Len(shared[q])) + (Len(shared[q]) + 1) = Len(accepted[q]) + 1
            BY <3>0, BothGrow, Zenon
          <6>2. Shared!gone[q] = Len(accepted[q]) - Len(shared[q])
            BY <3>0
          <6> QED BY <6>1, <6>2, Zenon
        <5> QED BY <2>2, <4>1, <5>1
      <4>2. CASE i # Len(shared[q]) + 1
        <5>1. i \in 1 .. Len(shared[q]) /\ Shared!gone[q] + i \in 1 .. Len(accepted[q])
          <6>1. i \in 1 .. Len(shared[q]) + 1 /\ i \in Int
            BY <2>2, <3>0
          <6>2. i \in 1 .. Len(shared[q])
            BY <3>0, <4>2, <6>1
          <6> QED BY <3>0, <6>2, BothGrow, Zenon
        <5>2. shared[q][i] = accepted[q][Shared!gone[q] + i]
          BY <5>1 DEF Shared!IInv, Shared!AcceptedOnce
        <5> QED BY <2>2, <5>1, <5>2, Zenon
      <4> QED BY <4>1, <4>2
    <3> QED BY <3>1, <3>2, <3>3
  <2>13. Shared!AcceptedOnce'
    BY <2>5, <2>10, <2>11, <2>12 DEF Shared!AcceptedOnce
  <2> QED BY <2>4, <2>7, <2>13 DEF Shared!IInv
<1> QED
  BY <1>1, <1>6, <1>7

(* A given event that was accepted at a place is one that is gone.         *)
LEMMA GivenIsGone ==
    ASSUME Shared!IInv, NEW w \in Workers, NEW i \in 1 .. Len(Shared!given[w]),
           NEW q \in Shared!Priorities, NEW k \in 1 .. Len(accepted[q]),
           Shared!given[w][i] = accepted[q][k]
    PROVE  k \in 1 .. Shared!gone[q]
<1>0. PICK r \in Shared!Priorities :
          \E l \in 1 .. Shared!gone[r] : Shared!given[w][i] = accepted[r][l]
  BY DEF Shared!IInv, Shared!GivenOnce, Shared!GivenWasAccepted
<1>1. PICK l \in 1 .. Shared!gone[r] : Shared!given[w][i] = accepted[r][l]
  BY <1>0
<1>2. l \in 1 .. Len(accepted[r])
  <2>1. /\ Len(accepted[r]) \in Nat /\ Len(shared[r]) \in Nat
        /\ Shared!gone[r] = Len(accepted[r]) - Len(shared[r])
    BY SharedTypes, Zenon
  <2>2. \A i2 \in 1 .. Len(accepted[r]) - Len(shared[r]) : i2 \in 1 .. Len(accepted[r])
    BY <2>1, BothGrow
  <2> QED BY <2>1, <2>2
<1>3. accepted[r][l] = accepted[q][k] => r = q /\ l = k
  BY <1>2 DEF Shared!IInv, Shared!AcceptedOnce
<1> QED
  BY <1>1, <1>3

(* pop_event takes events of one shared queue, as many as there is room for. *)
LEMMA MoveTakes ==
    ASSUME Shared!IInv, NEW w \in Workers, NEW q \in Shared!Priorities, Shared!Move(w, q)
    PROVE  \E n \in 0 .. Len(shared[q]) : \E taken, kept \in Seq(Shared!Sent) :
              /\ Len(local[w]) + n <= BatchSize
              /\ Len(taken) = n /\ Len(kept) = Len(shared[q]) - n
              /\ \A i \in 1 .. n : taken[i] = shared[q][i]
              /\ \A i \in 1 .. Len(shared[q]) - n : kept[i] = shared[q][n + i]
              /\ shared' = [shared EXCEPT ![q] = kept]
              /\ local' = [local EXCEPT ![w] = @ \o taken]
<1> DEFINE s == shared[q]
           z == Len(s)
           m == Len(local[w])
           n == Shared!Least(z, BatchSize - m)
           taken == SubSeq(s, 1, n)
           kept == SubSeq(s, n + 1, z)
<1>1. /\ s \in Seq(Shared!Sent) /\ z \in Nat /\ Len(local[w]) \in Nat /\ BatchSize \in Nat
      /\ Len(local[w]) <= BatchSize
  BY SharedTypes, LenProperties, SharedAssumption
  DEF Shared!Stage2Assumption, Shared!IInv, Shared!QueuesTyped
<1>2. n \in 0 .. z /\ m + n <= BatchSize
  <2>1. m \in Nat
    BY <1>1
  <2>2. m <= BatchSize
    BY <1>1
  <2>3. z \in Nat /\ BatchSize \in Nat
    BY <1>1
  <2> HIDE DEF m, z
  <2> QED BY <2>1, <2>2, <2>3 DEF Shared!Least
<1>3. /\ shared' = [shared EXCEPT ![q] = kept]
      /\ local' = [local EXCEPT ![w] = @ \o taken]
  BY DEF Shared!Move
<1>4. /\ \A i \in 1 .. z : s[i] \in Shared!Sent
  BY <1>1, ElementOfSeq
<1> HIDE DEF n, s, z, m
<1>5. /\ taken \in Seq(Shared!Sent) /\ Len(taken) = n
      /\ \A i \in 1 .. n : taken[i] = s[i]
  <2>1. 1 \in Int /\ n \in Int /\ \A i \in 1 .. n : s[i] \in Shared!Sent
    BY <1>1, <1>2, <1>4
  <2>2. /\ taken \in Seq(Shared!Sent) /\ Len(taken) = IF 1 <= n THEN n - 1 + 1 ELSE 0
        /\ \A i \in 1 .. n - 1 + 1 : taken[i] = s[1 + i - 1]
    BY <2>1, SubSeqProperties
  <2>3. n - 1 + 1 = n /\ (~(1 <= n) => n = 0) /\ \A i \in Int : 1 + i - 1 = i
    BY <1>1, <1>2
  <2> HIDE DEF taken
  <2> QED BY <2>2, <2>3
<1>6. /\ kept \in Seq(Shared!Sent) /\ Len(kept) = z - n
      /\ \A i \in 1 .. z - n : kept[i] = s[n + i]
  <2>1. n + 1 \in Int /\ z \in Int /\ \A i \in n + 1 .. z : s[i] \in Shared!Sent
    BY <1>1, <1>2, <1>4
  <2>2. /\ kept \in Seq(Shared!Sent) /\ Len(kept) = IF n + 1 <= z THEN z - (n + 1) + 1 ELSE 0
        /\ \A i \in 1 .. z - (n + 1) + 1 : kept[i] = s[n + 1 + i - 1]
    BY <2>1, SubSeqProperties
  <2>3. z - (n + 1) + 1 = z - n /\ (~(n + 1 <= z) => z - n = 0)
        /\ \A i \in Int : n + 1 + i - 1 = n + i
    BY <1>1, <1>2
  <2> HIDE DEF kept
  <2> QED BY <1>1, <1>2, <2>2, <2>3
<1> HIDE DEF taken, kept
<1> QED
  BY <1>2, <1>3, <1>5, <1>6, Zenon DEF s, z, m

LEMMA SharedMove ==
    ASSUME Shared!IInv, NEW w \in Workers, NEW q \in Shared!Priorities, Shared!Move(w, q),
           NEW next \in {"low", "test"}, wpc[w] \in {"high", "low"},
           wpc' = [wpc EXCEPT ![w] = next],
           UNCHANGED <<handling, sent, closing, accepted, handled>>
    PROVE  Shared!IInv'
<1>1. PICK n \in 0 .. Len(shared[q]), taken \in Seq(Shared!Sent), kept \in Seq(Shared!Sent) :
         /\ Len(local[w]) + n <= BatchSize
         /\ Len(taken) = n /\ Len(kept) = Len(shared[q]) - n
         /\ \A i \in 1 .. n : taken[i] = shared[q][i]
         /\ \A i \in 1 .. Len(shared[q]) - n : kept[i] = shared[q][n + i]
         /\ shared' = [shared EXCEPT ![q] = kept]
         /\ local' = [local EXCEPT ![w] = @ \o taken]
  BY MoveTakes, Zenon
<1> DEFINE G == Shared!gone[q]
           a == accepted[q]
           g == Shared!given[w]
           z == Len(shared[q])
           L == Len(g)
<1>2. /\ shared[q] \in Seq(Shared!Sent) /\ a \in Seq(Shared!Sent)
      /\ z \in Nat /\ n \in Nat /\ n <= z
      /\ Len(a) \in Nat /\ G \in Nat /\ z <= Len(a) /\ G = Len(a) - z
      /\ g \in Seq(Shared!Sent) /\ L \in Nat
      /\ local[w] \in Seq(Shared!Sent \cup {Quit})
      /\ handled[w] \in Seq(Shared!Sent)
  <2>1. z \in Nat
    BY SharedTypes
  <2>2. n \in Nat /\ n <= z
    BY <2>1
  <2>3. L \in Nat
    BY GivenType
  <2> QED BY <2>1, <2>2, <2>3, SharedTypes, GivenType, Zenon
<1>3. /\ shared'[q] = kept /\ local'[w] = local[w] \o taken /\ wpc'[w] = next
      /\ \A r \in Shared!Priorities : r # q => shared'[r] = shared[r]
      /\ \A v \in Workers : v # w => local'[v] = local[v] /\ wpc'[v] = wpc[v]
  BY <1>1 DEF Shared!IInv, Shared!QueuesTyped
<1>4. closing => taken = << >> /\ kept = << >>
  <2> SUFFICES ASSUME closing PROVE taken = << >> /\ kept = << >>
    OBVIOUS
  <2>1. Len(shared[q]) = 0
    BY DEF Shared!IInv, Shared!QueuesTyped
  <2>2. n = 0 /\ Len(taken) = n /\ Len(kept) = 0 - n
    BY <1>1, <2>1
  <2> QED BY <1>1, <2>2, EmptySeq
<1>5. Shared!given'[w] = g \o taken /\ \A v \in Workers : v # w => Shared!given'[v] = Shared!given[v]
  <2>1. \A v \in Workers : v # w => Shared!Given(v)' = Shared!Given(v)
    BY <1>3, Zenon DEF Shared!Given
  <2>2. g = handled[w] \o << >> \o (IF closing THEN << >> ELSE local[w])
    BY Zenon DEF Shared!Given, Shared!given
  <2>3. Shared!Given(w)' = handled[w] \o << >> \o (IF closing THEN << >> ELSE local[w] \o taken)
    BY <1>3, Zenon DEF Shared!Given
  <2>4. Shared!Given(w)' = g \o taken
    <3>1. CASE closing
      BY <1>2, <1>4, <2>2, <2>3, <3>1, ConcatEmptySeq
    <3>2. CASE ~closing
      <4>1. local[w] \in Seq(Shared!Sent) /\ handled[w] \o << >> = handled[w]
        BY <1>2, <3>2, SharedTypes, ConcatEmptySeq
      <4>2. handled[w] \o (local[w] \o taken) = (handled[w] \o local[w]) \o taken
        <5> DEFINE x == handled[w]
                   y == local[w]
        <5>1. x \in Seq(Shared!Sent) /\ y \in Seq(Shared!Sent)
          BY <1>2, <4>1
        <5> HIDE DEF x, y
        <5>2. x \o (y \o taken) = (x \o y) \o taken
          BY <5>1, ConcatAssociative, SMTT(60)
        <5> QED BY <5>2 DEF x, y
      <4> QED BY <2>2, <2>3, <3>2, <4>1, <4>2, Zenon
    <3> QED BY <3>1, <3>2
  <2> QED BY <2>1, <2>4 DEF Shared!given
<1>6. Shared!gone'[q] = G + n /\ \A r \in Shared!Priorities : r # q => Shared!gone'[r] = Shared!gone[r]
  <2>1. Shared!Gone(q)' = Len(a) - (z - n)
    BY <1>1, <1>3, Zenon DEF Shared!Gone
  <2>2. Len(a) - (z - n) = (Len(a) - z) + n
    <3> DEFINE y == Len(a)
    <3>1. y \in Nat /\ n \in Nat /\ z \in Nat
      BY <1>2
    <3> HIDE DEF y, z
    <3>2. y - (z - n) = (y - z) + n
      BY <3>1
    <3> QED BY <3>2 DEF y
  <2>3. \A r \in Shared!Priorities : r # q => Shared!Gone(r)' = Shared!Gone(r)
    BY <1>3, Zenon DEF Shared!Gone
  <2> QED BY <1>2, <2>1, <2>2, <2>3 DEF Shared!gone
<1>7. \A i \in 1 .. n : G + i \in 1 .. Len(a) /\ taken[i] = a[G + i]
  <2> TAKE i \in 1 .. n
  <2>1. i \in 1 .. z
    BY <1>2
  <2>2. (Len(a) - z) + i \in 1 .. Len(a)
    BY <1>2, <2>1, BothGrow, Zenon
  <2>3. taken[i] = shared[q][i] /\ shared[q][i] = a[G + i]
    BY <1>1, <2>1, Zenon DEF Shared!IInv, Shared!AcceptedOnce
  <2> QED BY <1>2, <2>2, <2>3, Zenon
<1>8. /\ g \o taken \in Seq(Shared!Sent) /\ Len(g \o taken) = L + n
      /\ \A i \in 1 .. L + n :
            (g \o taken)[i] = IF i <= L THEN g[i] ELSE taken[i - L]
  <2> HIDE DEF g
  <2>1. /\ g \o taken \in Seq(Shared!Sent) /\ Len(g \o taken) = Len(g) + Len(taken)
        /\ \A i \in 1 .. Len(g) + Len(taken) :
              (g \o taken)[i] = IF i <= Len(g) THEN g[i] ELSE taken[i - Len(g)]
    BY <1>2, ConcatProperties
  <2>2. Len(taken) = n
    BY <1>1
  <2> QED BY <2>1, <2>2
<1> HIDE DEF G, a, z, L
<1>0. L = Len(g)
  BY DEF L
<1>00. L \in Nat /\ n \in Nat /\ G \in Nat
  BY <1>2
<1> HIDE DEF g
(* What w has now it had before, or got from q.                            *)
<1>9. ASSUME NEW v \in Workers, NEW i \in 1 .. Len(Shared!given'[v])
      PROVE  \/ /\ i \in 1 .. Len(Shared!given[v])
                /\ Shared!given'[v][i] = Shared!given[v][i]
             \/ /\ v = w /\ \E m \in 1 .. n : i = L + m /\ Shared!given'[v][i] = a[G + m]
  <2>1. CASE v # w
    BY <1>5, <1>9, <2>1
  <2>2. CASE v = w /\ i <= L
    <3>1. i \in 1 .. L /\ i \in 1 .. L + n
      BY <1>2, <1>5, <1>8, <1>9, <2>2
    <3>2. Shared!given'[w][i] = g[i]
      BY <1>5, <1>8, <2>2, <3>1, Zenon
    <3>3. v = w /\ g = Shared!given[w] /\ L = Len(g)
      BY <1>0, <2>2 DEF g
    <3> QED BY <3>1, <3>2, <3>3
  <2>3. CASE v = w /\ ~(i <= L)
    <3>1. i \in 1 .. L + n
      BY <1>5, <1>8, <1>9, <2>3
    <3>2. i - L \in 1 .. n /\ i = L + (i - L)
      BY <1>00, <2>3, <3>1
    <3>3. Shared!given'[v][i] = taken[i - L]
      BY <1>5, <1>8, <2>3, <3>1, Zenon
    <3> QED BY <1>7, <2>3, <3>2, <3>3
  <2> QED BY <2>1, <2>2, <2>3
<1>10. ASSUME NEW v \in Workers, NEW i \in 1 .. Len(Shared!given[v])
       PROVE  i \in 1 .. Len(Shared!given'[v]) /\ Shared!given'[v][i] = Shared!given[v][i]
  <2>1. CASE v # w
    BY <1>5, <1>10, <2>1
  <2>2. CASE v = w
    <3>1. i \in 1 .. L /\ i \in 1 .. L + n /\ i <= L
      <4>1. i \in 1 .. L
        BY <1>0, <1>10, <2>2 DEF g
      <4> QED BY <1>2, <4>1
    <3>2. i \in 1 .. Len(Shared!given'[w]) /\ Shared!given'[w][i] = g[i]
      BY <1>5, <1>8, <3>1
    <3> QED BY <2>2, <3>2 DEF g
  <2> QED BY <2>1, <2>2
<1>11. \A m \in 1 .. n : /\ L + m \in 1 .. Len(Shared!given'[w])
                         /\ Shared!given'[w][L + m] = a[G + m]
  <2> TAKE m \in 1 .. n
  <2>1. /\ L + m \in 1 .. L + n /\ ~(L + m <= L)
        /\ (L + m) - L = m
    BY <1>2, SMTT(60)
  <2> QED BY <1>5, <1>7, <1>8, <2>1, Zenon
<1>12. ASSUME NEW r \in Shared!Priorities, NEW k \in 1 .. Shared!gone'[r]
       PROVE  \/ k \in 1 .. Shared!gone[r]
              \/ r = q /\ \E m \in 1 .. n : k = G + m
  <2>1. CASE r # q
    BY <1>6, <1>12, <2>1
  <2>2. CASE r = q
    <3>1. k \in 1 .. G + n
      BY <1>6, <1>12, <2>2
    <3>2. k \in 1 .. G \/ (k - G \in 1 .. n /\ k = G + (k - G))
      BY <1>2, <3>1
    <3> QED BY <2>2, <3>2 DEF G
  <2> QED BY <2>1, <2>2
<1>13. ASSUME NEW r \in Shared!Priorities, NEW k \in 1 .. Shared!gone'[r]
       PROVE  k \in 1 .. Len(accepted[r])
  <2>1. CASE k \in 1 .. Shared!gone[r]
    <3>1. /\ Len(accepted[r]) \in Nat /\ Len(shared[r]) \in Nat /\ Shared!gone[r] \in Nat
          /\ Shared!gone[r] = Len(accepted[r]) - Len(shared[r])
      BY SharedTypes, Zenon
    <3> QED BY <2>1, <3>1
  <2>2. CASE r = q /\ \E m \in 1 .. n : k = G + m
    BY <1>7, <2>2 DEF a
  <2> QED BY <1>12, <1>13, <2>1, <2>2
<1>14. \A r \in Shared!Priorities : \A k \in 1 .. Shared!gone[r] : k \in 1 .. Shared!gone'[r]
  <2> TAKE r \in Shared!Priorities
  <2> TAKE k \in 1 .. Shared!gone[r]
  <2>1. CASE r = q
    BY <1>2, <1>6, <2>1 DEF G
  <2>2. CASE r # q
    BY <1>6, <2>2
  <2> QED BY <2>1, <2>2
<1>15. \A m \in 1 .. n : G + m \in 1 .. Shared!gone'[q]
  BY <1>2, <1>6
<1>16. Shared!GivenAway'
  <2> SUFFICES ASSUME NEW r \in Shared!Priorities, NEW k \in 1 .. Shared!gone'[r]
               PROVE  \E v \in Workers : \E i \in 1 .. Len(Shared!given'[v]) :
                          Shared!given'[v][i] = accepted[r][k]
    BY DEF Shared!GivenAway
  <2>1. CASE k \in 1 .. Shared!gone[r]
    <3>1. PICK v \in Workers :
              \E i \in 1 .. Len(Shared!given[v]) : Shared!given[v][i] = accepted[r][k]
      BY <2>1 DEF Shared!IInv, Shared!GivenOnce, Shared!GivenAway
    <3> QED BY <1>10, <3>1
  <2>2. CASE r = q /\ \E m \in 1 .. n : k = G + m
    BY <1>11, <2>2, Zenon DEF a
  <2> QED BY <1>12, <2>1, <2>2
<1>17. Shared!GivenWasAccepted'
  <2> SUFFICES ASSUME NEW v \in Workers, NEW i \in 1 .. Len(Shared!given'[v])
               PROVE  \E r \in Shared!Priorities : \E k \in 1 .. Shared!gone'[r] :
                          Shared!given'[v][i] = accepted[r][k]
    BY Zenon DEF Shared!GivenWasAccepted
  <2>1. CASE i \in 1 .. Len(Shared!given[v]) /\ Shared!given'[v][i] = Shared!given[v][i]
    <3>1. PICK r \in Shared!Priorities :
              \E k \in 1 .. Shared!gone[r] : Shared!given[v][i] = accepted[r][k]
      BY <2>1, Zenon DEF Shared!IInv, Shared!GivenOnce, Shared!GivenWasAccepted
    <3> QED BY <1>14, <2>1, <3>1
  <2>2. CASE v = w /\ \E m \in 1 .. n : i = L + m /\ Shared!given'[v][i] = a[G + m]
    BY <1>15, <2>2, Zenon DEF a
  <2> QED BY <1>9, <2>1, <2>2, Zenon
<1>18. \A r, s \in Shared!Priorities : \A k \in 1 .. Len(accepted[r]), l \in 1 .. Len(accepted[s]) :
          accepted[r][k] = accepted[s][l] => r = s /\ k = l
  BY DEF Shared!IInv, Shared!AcceptedOnce
<1>19. Shared!GivenInOrder'
  <2>1. ASSUME NEW r \in Shared!Priorities, NEW v \in Workers,
               NEW i \in 1 .. Len(Shared!given'[v]), NEW j \in 1 .. Len(Shared!given'[v]),
               NEW k \in 1 .. Shared!gone'[r], NEW l \in 1 .. Shared!gone'[r],
               Shared!given'[v][i] = accepted[r][k],
               Shared!given'[v][j] = accepted[r][l], i < j
        PROVE  k < l
    <3>1. k \in 1 .. Len(accepted[r]) /\ l \in 1 .. Len(accepted[r])
      BY <1>13, <2>1
    <3>2. \A m \in 1 .. n : /\ a[G + m] = accepted[r][k] => r = q /\ k = G + m
                            /\ a[G + m] = accepted[r][l] => r = q /\ l = G + m
      <4> TAKE m \in 1 .. n
      <4>1. G + m \in 1 .. Len(accepted[q]) /\ a = accepted[q]
        BY <1>7 DEF a
      <4>2. /\ accepted[q][G + m] = accepted[r][k] => q = r /\ G + m = k
            /\ accepted[q][G + m] = accepted[r][l] => q = r /\ G + m = l
        <5>1. \A s \in Shared!Priorities : \A j2 \in 1 .. Len(accepted[s]) :
                 accepted[q][G + m] = accepted[s][j2] => q = s /\ G + m = j2
          BY <1>18, <4>1, SMTT(60)
        <5> QED BY <3>1, <5>1, Zenon
      <4> QED BY <4>1, <4>2
    <3>3. CASE /\ i \in 1 .. Len(Shared!given[v]) /\ Shared!given'[v][i] = Shared!given[v][i]
               /\ j \in 1 .. Len(Shared!given[v]) /\ Shared!given'[v][j] = Shared!given[v][j]
      <4>1. k \in 1 .. Shared!gone[r] /\ l \in 1 .. Shared!gone[r]
        BY <2>1, <3>1, <3>3, GivenIsGone, Zenon
      <4>2. (/\ Shared!given[v][i] = accepted[r][k] /\ Shared!given[v][j] = accepted[r][l]
             /\ i < j) => k < l
        BY <3>3, <4>1 DEF Shared!IInv, Shared!GivenOnce, Shared!GivenInOrder
      <4> QED BY <2>1, <3>3, <4>2
    <3>4. CASE /\ i \in 1 .. Len(Shared!given[v]) /\ Shared!given'[v][i] = Shared!given[v][i]
               /\ v = w /\ \E m \in 1 .. n : j = L + m /\ Shared!given'[v][j] = a[G + m]
      <4>1. k \in 1 .. Shared!gone[r]
        BY <2>1, <3>1, <3>4, GivenIsGone, Zenon
      <4>2. PICK m \in 1 .. n : Shared!given'[v][j] = a[G + m]
        BY <3>4
      <4>3. r = q /\ l = G + m
        BY <2>1, <3>2, <4>2
      <4>4. k \in 1 .. G
        BY <4>1, <4>3 DEF G
      <4> QED BY <1>2, <4>3, <4>4
    <3>5. CASE /\ v = w /\ \E m \in 1 .. n : i = L + m /\ Shared!given'[v][i] = a[G + m]
               /\ j \in 1 .. Len(Shared!given[v])
      <4>1. PICK m \in 1 .. n : i = L + m
        BY <3>5
      <4>2. j \in 1 .. L
        BY <1>0, <3>5 DEF g
      <4>3. i \in Int /\ ~(i < j)
        BY <1>00, <4>1, <4>2
      <4> QED BY <2>1, <4>3
    <3>6. CASE /\ \E m \in 1 .. n : i = L + m /\ Shared!given'[v][i] = a[G + m]
               /\ \E m \in 1 .. n : j = L + m /\ Shared!given'[v][j] = a[G + m]
      <4>1. PICK m \in 1 .. n : i = L + m /\ Shared!given'[v][i] = a[G + m]
        BY <3>6
      <4>2. PICK o \in 1 .. n : j = L + o /\ Shared!given'[v][j] = a[G + o]
        BY <3>6
      <4>3. k = G + m /\ l = G + o
        BY <2>1, <3>2, <4>1, <4>2
      <4>4. m < o
        BY <1>00, <2>1, <4>1, <4>2
      <4> QED BY <1>00, <4>3, <4>4
    <3> QED BY <1>9, <3>3, <3>4, <3>5, <3>6, Zenon
  <2> SUFFICES ASSUME NEW r \in Shared!Priorities, NEW v \in Workers
               PROVE  \A i, j \in 1 .. Len(Shared!given'[v]) : \A k, l \in 1 .. Shared!gone'[r] :
                         (/\ Shared!given'[v][i] = accepted[r][k]
                          /\ Shared!given'[v][j] = accepted[r][l] /\ i < j) => k < l
    BY SMTT(60) DEF Shared!GivenInOrder
  <2> TAKE i, j \in 1 .. Len(Shared!given'[v])
  <2> TAKE k, l \in 1 .. Shared!gone'[r]
  <2> QED BY <2>1
<1>20. Shared!OneOwner'
  <2>1. ASSUME NEW v \in Workers, NEW i \in 1 .. Len(Shared!given[v]), NEW m \in 1 .. n
        PROVE  Shared!given[v][i] # a[G + m]
    <3>1. G + m \in 1 .. Len(accepted[q])
      BY <1>7 DEF a
    <3>2. ~(G + m \in 1 .. Shared!gone[q])
      BY <1>00 DEF G
    <3> QED BY <3>1, <3>2, GivenIsGone, SMTT(60) DEF a
  <2> SUFFICES ASSUME NEW v \in Workers, NEW u \in Workers,
                      NEW i \in 1 .. Len(Shared!given'[v]), NEW j \in 1 .. Len(Shared!given'[u]),
                      Shared!given'[v][i] = Shared!given'[u][j]
               PROVE  v = u
    BY DEF Shared!OneOwner
  <2>2. CASE /\ i \in 1 .. Len(Shared!given[v]) /\ Shared!given'[v][i] = Shared!given[v][i]
             /\ j \in 1 .. Len(Shared!given[u]) /\ Shared!given'[u][j] = Shared!given[u][j]
    BY <2>2, Zenon DEF Shared!IInv, Shared!GivenOnce, Shared!OneOwner
  <2> QED BY <1>9, <2>1, <2>2, SMTT(60)
<1>21. Shared!AcceptedOnce'
  <2>1. ASSUME NEW r \in Shared!Priorities
        PROVE  /\ Len(shared'[r]) <= Len(accepted[r])
               /\ \A i \in 1 .. Len(shared'[r]) : shared'[r][i] = accepted[r][Shared!gone'[r] + i]
    <3>1. CASE r # q
      <4>1. /\ Len(shared[r]) <= Len(accepted[r])
            /\ \A i \in 1 .. Len(shared[r]) : shared[r][i] = accepted[r][Shared!gone[r] + i]
        BY DEF Shared!IInv, Shared!AcceptedOnce
      <4>2. shared'[r] = shared[r] /\ Shared!gone'[r] = Shared!gone[r]
        BY <1>3, <1>6, <3>1
      <4> QED BY <4>1, <4>2
    <3>2. CASE r = q
      <4>1. Len(kept) = z - n /\ n \in Nat /\ n <= z
        BY <1>1, <1>2 DEF z
      <4>2. Len(kept) <= Len(a)
        BY <1>2, <4>1
      <4>3. ASSUME NEW i \in 1 .. Len(kept) PROVE kept[i] = a[(G + n) + i]
        <5>1. n + i \in 1 .. z /\ i \in 1 .. z - n /\ (G + n) + i = G + (n + i)
          BY <1>2, <4>1
        <5>2. kept[i] = shared[q][n + i]
          BY <1>1, <5>1 DEF z
        <5>3. shared[q][n + i] = a[G + (n + i)]
          BY <5>1 DEF Shared!IInv, Shared!AcceptedOnce, z, a, G
        <5> QED BY <5>1, <5>2, <5>3
      <4> QED BY <1>3, <1>6, <3>2, <4>2, <4>3 DEF a
    <3> QED BY <3>1, <3>2
  <2> QED BY <1>18, <2>1 DEF Shared!IInv, Shared!AcceptedOnce
<1>22. Shared!QueuesTyped'
  <2>1. /\ shared' \in [Shared!Priorities -> Seq(Shared!Sent)]
        /\ accepted' \in [Shared!Priorities -> Seq(Shared!Sent)]
    BY <1>1 DEF Shared!IInv, Shared!QueuesTyped
  <2>2. /\ local'[w] \in Seq(Shared!Sent \cup {Quit}) /\ Len(local'[w]) = Len(local[w]) + n
        /\ \A i \in 1 .. Len(local[w]) + n :
              local'[w][i] = IF i <= Len(local[w]) THEN local[w][i]
                                                   ELSE taken[i - Len(local[w])]
    <3>1. taken \in Seq(Shared!Sent \cup {Quit})
      <4>1. taken \in [1 .. Len(taken) -> Shared!Sent] /\ Len(taken) \in Nat
        BY LenProperties
      <4>2. taken \in [1 .. Len(taken) -> Shared!Sent \cup {Quit}]
        BY <4>1
      <4> QED BY <4>1, <4>2
    <3> DEFINE x == local[w]
    <3>2. x \in Seq(Shared!Sent \cup {Quit}) /\ local'[w] = x \o taken /\ Len(taken) = n
      BY <1>1, <1>2, <1>3, Zenon
    <3> HIDE DEF x
    <3>3. /\ x \o taken \in Seq(Shared!Sent \cup {Quit})
          /\ Len(x \o taken) = Len(x) + Len(taken)
          /\ \A i \in 1 .. Len(x) + Len(taken) :
                (x \o taken)[i] = IF i <= Len(x) THEN x[i] ELSE taken[i - Len(x)]
      BY <3>1, <3>2, ConcatProperties, Zenon
    <3> QED BY <3>2, <3>3 DEF x
  <2>3. local' \in [Workers -> Seq(Shared!Sent \cup {Quit})]
    BY <1>1, <1>3, <2>2 DEF Shared!IInv, Shared!QueuesTyped
  <2>4. \A i \in 1 .. Len(local'[w]) : local'[w][i] = Quit <=> closing
    <3>1. CASE closing
      <4>1. local'[w] = local[w]
        BY <1>2, <1>3, <1>4, <3>1, ConcatEmptySeq
      <4> QED BY <4>1 DEF Shared!IInv, Shared!QueuesTyped
    <3>2. CASE ~closing
      <4> SUFFICES ASSUME NEW i \in 1 .. Len(local'[w]) PROVE local'[w][i] # Quit
        BY <3>2
      <4>1. Len(local[w]) \in Nat /\ i \in 1 .. Len(local[w]) + n
        BY <1>2, <2>2, LenProperties
      <4>2. CASE i <= Len(local[w])
        <5>1. i \in 1 .. Len(local[w])
          BY <4>1, <4>2
        <5> QED BY <2>2, <3>2, <4>1, <4>2, <5>1, Zenon DEF Shared!IInv, Shared!QueuesTyped
      <4>3. CASE ~(i <= Len(local[w]))
        <5>1. i - Len(local[w]) \in 1 .. n
          BY <4>1, <4>3
        <5>2. taken[i - Len(local[w])] \in Shared!Sent
          BY <1>1, <5>1, ElementOfSeq
        <5>3. Quit \notin Shared!Sent
          BY SharedAssumption DEF Shared!Stage2Assumption, Shared!Sent
        <5> QED BY <2>2, <4>1, <4>3, <5>2, <5>3, Zenon
      <4> QED BY <4>2, <4>3
    <3> QED BY <3>1, <3>2, Zenon DEF Shared!IInv, Shared!QueuesTyped
  <2>5. Len(local'[w]) <= BatchSize
    BY <1>1, <2>2
  <2>6. wpc' \in [Workers -> {"pop", "handle", "high", "low", "test", "waiting", "quit", "exited"}]
    BY DEF Shared!IInv, Shared!QueuesTyped
  <2>7. \A v \in Workers : wpc'[v] = "handle" => handling[v] # Quit /\ ~closing
    BY <1>3 DEF Shared!IInv, Shared!QueuesTyped
  <2>8. \A v \in Workers : \A i \in 1 .. Len(local'[v]) : local'[v][i] = Quit <=> closing
    <3> TAKE v \in Workers
    <3>1. CASE v = w
      BY <2>4, <3>1
    <3>2. CASE v # w
      BY <1>3, <3>2 DEF Shared!IInv, Shared!QueuesTyped
    <3> QED BY <3>1, <3>2
  <2>9. \A v \in Workers : Len(local'[v]) <= BatchSize
    BY <1>3, <2>5, Zenon DEF Shared!IInv, Shared!QueuesTyped
  <2>10. closing => \A r \in Shared!Priorities : shared'[r] = << >>
    BY <1>3, <1>4 DEF Shared!IInv, Shared!QueuesTyped
  <2> QED BY <2>1, <2>3, <2>6, <2>7, <2>8, <2>9, <2>10, Zenon DEF Shared!IInv, Shared!QueuesTyped
<1> QED
  BY <1>16, <1>17, <1>19, <1>20, <1>21, <1>22 DEF Shared!IInv, Shared!GivenOnce

(* A step that only moves threads, none of them into or out of handle_event. *)
LEMMA ThreadsMove ==
    ASSUME Shared!IInv, UNCHANGED <<shared, local, handling, sent, closing, accepted, handled>>,
           wpc' \in [Workers -> {"pop", "handle", "high", "low", "test", "waiting", "quit", "exited"}],
           \A w \in Workers : wpc'[w] = "handle" <=> wpc[w] = "handle"
    PROVE  Shared!IInv'
<1>1. \A w \in Workers : Shared!Given(w)' = Shared!Given(w)
  BY Zenon DEF Shared!Given
<1>2. Shared!QueuesTyped'
  BY DEF Shared!IInv, Shared!QueuesTyped
<1> QED
  BY <1>1, <1>2, GivenStays DEF Shared!IInv

LEMMA SharedMoveOn ==
    ASSUME Shared!IInv, NEW w \in Workers, NEW place \in {"pop", "high", "waiting", "exited"},
           wpc[w] # "handle", wpc' = [wpc EXCEPT ![w] = place],
           UNCHANGED <<shared, local, handling, sent, closing, accepted, handled>>
    PROVE  Shared!IInv'
<1>1. wpc' \in [Workers -> {"pop", "handle", "high", "low", "test", "waiting", "quit", "exited"}]
  BY DEF Shared!IInv, Shared!QueuesTyped
<1>2. \A v \in Workers : wpc'[v] = "handle" <=> wpc[v] = "handle"
  BY DEF Shared!IInv, Shared!QueuesTyped
<1> QED
  BY <1>1, <1>2, ThreadsMove

LEMMA SharedSignal ==
    ASSUME Shared!IInv, NEW p \in OneProducer, Shared!Signal(p) PROVE Shared!IInv'
<1>1. UNCHANGED <<shared, local, handling, sent, closing, accepted, handled>>
  BY DEF Shared!Signal, Shared!closeVars
<1>2. CASE \E w \in Workers : wpc[w] = "waiting" /\ wpc' = [wpc EXCEPT ![w] = "pop"]
  <2>1. PICK w \in Workers : wpc[w] = "waiting" /\ wpc' = [wpc EXCEPT ![w] = "pop"]
    BY <1>2, Zenon
  <2> QED BY <1>1, <2>1, SharedMoveOn, Zenon
<1>3. CASE UNCHANGED wpc
  BY <1>1, <1>3, ThreadsMove DEF Shared!IInv, Shared!QueuesTyped
<1> QED
  BY <1>2, <1>3 DEF Shared!Signal

LEMMA SharedWaits ==
    ASSUME Shared!IInv, NEW w \in Workers,
           \/ Shared!TestEmpty(w) \/ Shared!WaitTimeout(w) \/ Shared!Quitting(w)
           \/ Shared!JoinThread(w)
    PROVE  Shared!IInv'
<1>1. UNCHANGED <<shared, local, handling, sent, closing, accepted, handled>>
  BY DEF Shared!TestEmpty, Shared!WaitTimeout, Shared!Quitting, Shared!JoinThread, Shared!closeVars
<1>2. CASE Shared!TestEmpty(w) \/ Shared!WaitTimeout(w) \/ Shared!Quitting(w)
  <2>1. /\ wpc[w] # "handle"
        /\ \E place \in {"pop", "high", "waiting", "exited"} : wpc' = [wpc EXCEPT ![w] = place]
    BY <1>2 DEF Shared!TestEmpty, Shared!WaitTimeout, Shared!Quitting, Shared!Goto
  <2> QED BY <1>1, <2>1, SharedMoveOn, Zenon
<1>3. CASE Shared!JoinThread(w)
  <2>1. UNCHANGED wpc
    BY <1>3 DEF Shared!JoinThread
  <2> QED BY <1>1, <2>1, ThreadsMove, Zenon DEF Shared!IInv, Shared!QueuesTyped
<1> QED
  BY <1>2, <1>3

(* close of a drained stage: there was nothing left in a local queue.      *)
LEMMA SharedClose == ASSUME Shared!IInv, Shared!Close PROVE Shared!IInv'
<1>1. /\ UNCHANGED <<shared, local, wpc, handling, sent, accepted, handled>>
      /\ ~closing /\ closing' = TRUE
      /\ \A q \in Shared!Priorities : shared[q] = << >>
      /\ \A w \in Workers : local[w] = << >> /\ wpc[w] # "handle"
  BY DEF Shared!Close, Shared!Drained
<1>2. \A w \in Workers : Shared!Given(w)' = Shared!Given(w)
  BY <1>1, Zenon DEF Shared!Given
<1>3. \A w \in Workers : \A i \in 1 .. Len(local[w]) : FALSE
  <2> TAKE w \in Workers
  <2>1. local[w] = << >> /\ Len(<< >>) = 0
    BY <1>1
  <2> QED BY <2>1
<1>4. Shared!QueuesTyped'
  BY <1>1, <1>3 DEF Shared!IInv, Shared!QueuesTyped
<1> QED
  BY <1>1, <1>2, <1>4, GivenStays DEF Shared!IInv

(* stop(): the quit event, behind nothing but quit events.                 *)
LEMMA SharedStop ==
    ASSUME Shared!IInv, NEW w \in Workers, Shared!StopThread(w) PROVE Shared!IInv'
<1>1. /\ UNCHANGED <<shared, wpc, handling, sent, closing, accepted, handled>> /\ closing
      /\ local' = [local EXCEPT ![w] = IF Len(@) < BatchSize THEN Append(@, Quit) ELSE @]
  BY DEF Shared!StopThread
<1>2. \A v \in Workers : Shared!Given(v)' = Shared!Given(v)
  BY <1>1, Zenon DEF Shared!Given
<1>3. local[w] \in Seq(Shared!Sent \cup {Quit}) /\ Len(local[w]) \in Nat /\ BatchSize \in Nat
  BY SharedTypes, LenProperties, SharedAssumption DEF Shared!Stage2Assumption
<1>4. CASE Len(local[w]) < BatchSize
  <2>1. /\ Append(local[w], Quit) \in Seq(Shared!Sent \cup {Quit})
        /\ Len(Append(local[w], Quit)) = Len(local[w]) + 1
        /\ \A i \in 1 .. Len(local[w]) : Append(local[w], Quit)[i] = local[w][i]
        /\ Append(local[w], Quit)[Len(local[w]) + 1] = Quit
    BY <1>3, AppendProperties
  <2>2. /\ local'[w] = Append(local[w], Quit)
        /\ \A v \in Workers : v # w => local'[v] = local[v]
    BY <1>1, <1>4 DEF Shared!IInv, Shared!QueuesTyped
  <2>3. Len(local'[w]) <= BatchSize
    BY <1>3, <1>4, <2>1, <2>2
  <2>4. \A i \in 1 .. Len(local'[w]) : local'[w][i] = Quit
    <3> TAKE i \in 1 .. Len(local'[w])
    <3>1. i \in 1 .. Len(local[w]) \/ i = Len(local[w]) + 1
      BY <1>3, <2>1, <2>2
    <3>2. i \in 1 .. Len(local[w]) => local[w][i] = Quit
      BY <1>1 DEF Shared!IInv, Shared!QueuesTyped
    <3> QED BY <2>1, <2>2, <3>1, <3>2
  <2>5. local' \in [Workers -> Seq(Shared!Sent \cup {Quit})]
    BY <1>1, <2>1, <2>2 DEF Shared!IInv, Shared!QueuesTyped
  <2>6. \A v \in Workers : Len(local'[v]) <= BatchSize
    BY <2>2, <2>3, Zenon DEF Shared!IInv, Shared!QueuesTyped
  <2>7. \A v \in Workers : \A i \in 1 .. Len(local'[v]) : local'[v][i] = Quit <=> closing
    <3> TAKE v \in Workers
    <3>1. CASE v = w
      BY <1>1, <2>4, <3>1
    <3>2. CASE v # w
      BY <2>2, <3>2 DEF Shared!IInv, Shared!QueuesTyped
    <3> QED BY <3>1, <3>2
  <2>8. Shared!QueuesTyped'
    BY <1>1, <2>5, <2>6, <2>7 DEF Shared!IInv, Shared!QueuesTyped
  <2> QED BY <1>1, <1>2, <2>8, GivenStays DEF Shared!IInv
<1>5. CASE ~(Len(local[w]) < BatchSize)
  <2>1. local' = local
    BY <1>1, <1>5 DEF Shared!IInv, Shared!QueuesTyped
  <2>2. Shared!QueuesTyped'
    BY <1>1, <2>1 DEF Shared!IInv, Shared!QueuesTyped
  <2> QED BY <1>1, <1>2, <2>2, GivenStays DEF Shared!IInv
<1> QED
  BY <1>4, <1>5

LEMMA HeadThenTail ==
    ASSUME NEW S, NEW s \in Seq(S), s # << >>
    PROVE  /\ Head(s) \in S /\ Head(s) = s[1] /\ 1 \in 1 .. Len(s)
           /\ Tail(s) \in Seq(S) /\ Len(s) \in Nat /\ Len(Tail(s)) = Len(s) - 1
           /\ \A i \in 1 .. Len(Tail(s)) : i + 1 \in 1 .. Len(s) /\ Tail(s)[i] = s[i + 1]
           /\ <<Head(s)>> \o Tail(s) = s
<1>1. /\ Head(s) \in S /\ Tail(s) \in Seq(S) /\ Len(Tail(s)) = Len(s) - 1
      /\ \A i \in 1 .. Len(Tail(s)) : Tail(s)[i] = s[i + 1]
  BY HeadTailProperties
<1>2. Len(s) \in Nat /\ Len(s) # 0 /\ Head(s) = s[1]
  BY LenProperties, EmptySeq
<1>3. 1 \in 1 .. Len(s) /\ \A i \in 1 .. Len(Tail(s)) : i + 1 \in 1 .. Len(s)
  BY <1>1, <1>2
<1> DEFINE h == <<Head(s)>>
           t == Tail(s)
<1>4. h \in Seq(S) /\ Len(h) = 1 /\ h[1] = s[1] /\ t \in Seq(S) /\ Len(t) = Len(s) - 1
  BY <1>1, <1>2
<1>5. \A i \in 1 .. Len(t) : t[i] = s[i + 1]
  BY <1>1
<1> HIDE DEF h, t
<1>6. /\ h \o t \in Seq(S) /\ Len(h \o t) = Len(h) + Len(t)
      /\ \A i \in 1 .. Len(h) + Len(t) : (h \o t)[i] = IF i <= Len(h) THEN h[i] ELSE t[i - Len(h)]
  BY <1>4, ConcatProperties, Zenon
<1>7. Len(h \o t) = Len(s)
  BY <1>2, <1>4, <1>6
<1>8. \A i \in 1 .. Len(h \o t) : (h \o t)[i] = s[i]
  <2> TAKE i \in 1 .. Len(h \o t)
  <2>1. CASE i = 1
    BY <1>2, <1>3, <1>4, <1>6, <1>7, <2>1
  <2>2. CASE i # 1
    <3>1. i - 1 \in 1 .. Len(t) /\ (i - 1) + 1 = i /\ ~(i <= 1) /\ i \in 1 .. Len(h) + Len(t)
      BY <1>2, <1>4, <1>6, <1>7, <2>2
    <3>2. (h \o t)[i] = t[i - 1]
      BY <1>4, <1>6, <3>1
    <3>3. t[i - 1] = s[(i - 1) + 1]
      BY <1>5, <3>1
    <3> QED BY <3>1, <3>2, <3>3
  <2> QED BY <2>1, <2>2
<1>9. h \o t = s
  BY <1>6, <1>7, <1>8, SeqEqual, Zenon
<1> QED
  BY <1>1, <1>2, <1>3, <1>9 DEF h, t

(* event_queue_.pop(): an event changes hands, within its thread.          *)
LEMMA SharedTake ==
    ASSUME Shared!IInv, NEW w \in Workers, Shared!TakeEvent(w) PROVE Shared!IInv'
<1>1. /\ wpc[w] = "pop" /\ UNCHANGED <<shared, sent, closing, accepted, handled>>
  BY DEF Shared!TakeEvent, Shared!closeVars
<1>2. CASE local[w] = << >>
  <2>1. wpc' = [wpc EXCEPT ![w] = "high"] /\ UNCHANGED <<local, handling>>
    BY <1>2 DEF Shared!TakeEvent, Shared!Goto
  <2> QED BY <1>1, <2>1, SharedMoveOn, Zenon
<1>3. CASE local[w] # << >>
  <2> DEFINE s == local[w]
             T == Shared!Sent \cup {Quit}
             turn == IF Head(s) = Quit THEN "quit" ELSE "handle"
  <2>1. /\ local' = [local EXCEPT ![w] = Tail(@)] /\ handling' = [handling EXCEPT ![w] = Head(s)]
        /\ wpc' = [wpc EXCEPT ![w] = turn]
    BY <1>3 DEF Shared!TakeEvent, Shared!Goto
  <2>2. /\ s \in Seq(T) /\ Len(s) <= BatchSize /\ BatchSize \in Nat
        /\ \A i \in 1 .. Len(s) : s[i] = Quit <=> closing
    BY SharedTypes, SharedAssumption DEF Shared!IInv, Shared!QueuesTyped, Shared!Stage2Assumption
  <2>3. /\ Head(s) \in T /\ Head(s) = s[1] /\ 1 \in 1 .. Len(s)
        /\ Tail(s) \in Seq(T) /\ Len(s) \in Nat /\ Len(Tail(s)) = Len(s) - 1
        /\ \A i \in 1 .. Len(Tail(s)) : i + 1 \in 1 .. Len(s) /\ Tail(s)[i] = s[i + 1]
        /\ <<Head(s)>> \o Tail(s) = s
    BY <1>3, <2>2, HeadThenTail
  <2>4. Head(s) = Quit <=> closing
    BY <2>2, <2>3
  <2>5. /\ local'[w] = Tail(s) /\ handling'[w] = Head(s) /\ wpc'[w] = turn
        /\ \A v \in Workers : v # w => /\ local'[v] = local[v] /\ handling'[v] = handling[v]
                                       /\ wpc'[v] = wpc[v]
    BY <2>1 DEF Shared!IInv, Shared!QueuesTyped
  <2>6. Len(Tail(s)) <= BatchSize /\ \A i \in 1 .. Len(Tail(s)) : Tail(s)[i] = Quit <=> closing
    BY <2>2, <2>3
  <2>7. Shared!QueuesTyped'
    <3>1. /\ local' \in [Workers -> Seq(T)] /\ handling' \in [Workers -> T]
          /\ wpc' \in [Workers -> {"pop", "handle", "high", "low", "test", "waiting", "quit", "exited"}]
      BY <2>1, <2>3 DEF Shared!IInv, Shared!QueuesTyped
    <3>2. \A v \in Workers : Len(local'[v]) <= BatchSize
      BY <2>5, <2>6, Zenon DEF Shared!IInv, Shared!QueuesTyped
    <3>3. \A v \in Workers : wpc'[v] = "handle" => handling'[v] # Quit /\ ~closing
      BY <2>4, <2>5 DEF Shared!IInv, Shared!QueuesTyped
    <3>4. \A v \in Workers : \A i \in 1 .. Len(local'[v]) : local'[v][i] = Quit <=> closing
      <4> TAKE v \in Workers
      <4>1. CASE v = w
        BY <2>5, <2>6, <4>1, Zenon
      <4>2. CASE v # w
        BY <2>5, <4>2 DEF Shared!IInv, Shared!QueuesTyped
      <4> QED BY <4>1, <4>2
    <3> QED BY <1>1, <3>1, <3>2, <3>3, <3>4 DEF Shared!IInv, Shared!QueuesTyped
  <2>8. \A v \in Workers : Shared!Given(v)' = Shared!Given(v)
    <3> TAKE v \in Workers
    <3>1. CASE v # w
      BY <1>1, <2>5, <3>1, Zenon DEF Shared!Given
    <3>2. CASE v = w /\ closing
      BY <1>1, <2>4, <2>5, <3>2, Zenon DEF Shared!Given
    <3>3. CASE v = w /\ ~closing
      <4>1. /\ Shared!Given(w) = handled[w] \o << >> \o s
            /\ Shared!Given(w)' = handled[w] \o <<Head(s)>> \o Tail(s)
        BY <1>1, <2>4, <2>5, <3>3, Zenon DEF Shared!Given
      <4> DEFINE x == handled[w]
                 h == <<Head(s)>>
                 t == Tail(s)
      <4>2. x \in Seq(T) /\ h \in Seq(T) /\ t \in Seq(T) /\ h \o t = s /\ x \o << >> = x
        <5>1. x \in Seq(Shared!Sent)
          BY SharedTypes
        <5>2. x \in Seq(T)
          BY <5>1, SeqMonotonic
        <5> QED BY <2>3, <5>2, ConcatEmptySeq
      <4> HIDE DEF x, h, t, T
      <4>3. x \in Seq(T) /\ h \in Seq(T) /\ t \in Seq(T)
        BY <4>2
      <4>4. x \o (h \o t) = (x \o h) \o t
        BY <4>3, ConcatAssociative
      <4> QED BY <3>3, <4>1, <4>2, <4>4, Zenon DEF x, h, t
    <3> QED BY <3>1, <3>2, <3>3
  <2> QED BY <1>1, <2>7, <2>8, GivenStays DEF Shared!IInv
<1> QED
  BY <1>2, <1>3

LEMMA SharedHandle ==
    ASSUME Shared!IInv, NEW w \in Workers, Shared!HandleEvent(w) PROVE Shared!IInv'
<1>1. /\ wpc[w] = "handle" /\ UNCHANGED <<shared, local, sent, closing, accepted>>
      /\ handled' = [handled EXCEPT ![w] = Append(@, handling[w])]
      /\ handling' = [handling EXCEPT ![w] = Quit]
      /\ wpc' = [wpc EXCEPT ![w] = "pop"]
  BY DEF Shared!HandleEvent, Shared!Goto, Shared!closeVars
<1>2. /\ handling[w] \in Shared!Sent /\ handled[w] \in Seq(Shared!Sent)
  BY <1>1, SharedTypes
<1>3. Append(handled[w], handling[w]) \in Seq(Shared!Sent)
  BY <1>2, AppendProperties
<1>4. /\ handled'[w] = Append(handled[w], handling[w]) /\ wpc'[w] = "pop"
      /\ \A v \in Workers : v # w => /\ handled'[v] = handled[v] /\ handling'[v] = handling[v]
                                     /\ wpc'[v] = wpc[v]
  BY <1>1 DEF Shared!IInv, Shared!QueuesTyped
<1>5. Shared!QueuesTyped'
  <2>1. /\ handled' \in [Workers -> Seq(Shared!Sent)]
        /\ handling' \in [Workers -> Shared!Sent \cup {Quit}]
        /\ wpc' \in [Workers -> {"pop", "handle", "high", "low", "test", "waiting", "quit", "exited"}]
    BY <1>1, <1>3 DEF Shared!IInv, Shared!QueuesTyped
  <2>2. \A v \in Workers : wpc'[v] = "handle" => handling'[v] # Quit /\ ~closing
    BY <1>4, Zenon DEF Shared!IInv, Shared!QueuesTyped
  <2> QED BY <1>1, <2>1, <2>2 DEF Shared!IInv, Shared!QueuesTyped
<1>6. \A v \in Workers : Shared!Given(v)' = Shared!Given(v)
  <2> TAKE v \in Workers
  <2>1. CASE v # w
    <3>1. /\ local' = local /\ closing' = closing /\ handled'[v] = handled[v]
          /\ handling'[v] = handling[v] /\ wpc'[v] = wpc[v]
      BY <1>1, <1>4, <2>1
    <3> QED BY <3>1 DEF Shared!Given
  <2>2. CASE v = w
    <3>1. /\ Shared!Given(w) = handled[w] \o <<handling[w]>>
                                  \o (IF closing THEN << >> ELSE local[w])
          /\ Shared!Given(w)' = Append(handled[w], handling[w]) \o << >>
                                  \o (IF closing THEN << >> ELSE local[w])
      BY <1>1, <1>4, Zenon DEF Shared!Given
    <3>2. Append(handled[w], handling[w]) \o << >> = Append(handled[w], handling[w])
      BY <1>3, ConcatEmptySeq
    <3>3. Append(handled[w], handling[w]) = handled[w] \o <<handling[w]>>
      BY <1>2, AppendIsConcat
    <3> QED BY <2>2, <3>1, <3>2, <3>3
  <2> QED BY <2>1, <2>2
<1> QED
  BY <1>1, <1>5, <1>6, GivenStays DEF Shared!IInv

LEMMA SharedStep == ASSUME Shared!IInv, [Shared!Next]_sharedVars PROVE Shared!IInv'
<1>1. CASE UNCHANGED sharedVars
  BY <1>1, ThreadsMove DEF sharedVars, Shared!IInv, Shared!QueuesTyped
<1>2. ASSUME NEW p \in OneProducer, Shared!Signal(p) PROVE Shared!IInv'
  BY <1>2, SharedSignal
<1>3. ASSUME NEW p \in OneProducer, NEW q \in Shared!Priorities, Shared!PushEvent(p, q)
      PROVE  Shared!IInv'
  BY <1>3, SharedAccept
<1>4. ASSUME NEW w \in Workers, Shared!WorkerStep(w) PROVE Shared!IInv'
  <2>1. CASE Shared!MoveHigh(w)
    <3>1. /\ wpc[w] = "high" /\ Shared!Move(w, "high") /\ wpc' = [wpc EXCEPT ![w] = "low"]
          /\ UNCHANGED <<handling, sent, closing, accepted, handled>>
      BY <2>1 DEF Shared!MoveHigh, Shared!Goto, Shared!closeVars
    <3> QED BY <3>1, SharedMove, Zenon DEF Shared!Priorities
  <2>2. CASE Shared!MoveLow(w)
    <3>1. /\ wpc[w] = "low" /\ Shared!Move(w, "low") /\ wpc' = [wpc EXCEPT ![w] = "test"]
          /\ UNCHANGED <<handling, sent, closing, accepted, handled>>
      BY <2>2 DEF Shared!MoveLow, Shared!Goto, Shared!closeVars
    <3> QED BY <3>1, SharedMove, Zenon DEF Shared!Priorities
  <2> QED BY <1>4, <2>1, <2>2, SharedTake, SharedHandle, SharedWaits DEF Shared!WorkerStep
<1>5. ASSUME NEW w \in Workers, Shared!StopThread(w) \/ Shared!JoinThread(w) PROVE Shared!IInv'
  BY <1>5, SharedStop, SharedWaits
<1> QED
  BY <1>1, <1>2, <1>3, <1>4, <1>5, SharedClose DEF Shared!Next, Shared!CloseStep

(* The property of the run follows.                                        *)
LEMMA SharedIsOnce == Shared!IInv => Shared!HandledOnce
<1> SUFFICES ASSUME Shared!IInv PROVE Shared!HandledOnce
  OBVIOUS
<1>1. /\ \A w \in Workers : Shared!given[w] = Shared!Given(w)
      /\ \A q \in Shared!Priorities : Shared!gone[q] = Shared!Gone(q)
  BY DEF Shared!given, Shared!gone
<1>2. ASSUME NEW q \in Shared!Priorities
      PROVE  shared[q] = SubSeq(accepted[q], Shared!Gone(q) + 1, Len(accepted[q]))
  <2> DEFINE s == shared[q]
             a == accepted[q]
             G == Shared!Gone(q)
             z == Len(a)
             rest == SubSeq(a, G + 1, z)
  <2>1. /\ s \in Seq(Shared!Sent) /\ a \in Seq(Shared!Sent) /\ Len(s) \in Nat
        /\ z \in Nat /\ G \in Nat /\ Len(s) <= z /\ G = z - Len(s)
    BY <1>1, SharedTypes, Zenon
  <2>2. \A i \in 1 .. Len(s) : s[i] = a[G + i]
    BY <1>1 DEF Shared!IInv, Shared!AcceptedOnce
  <2>3. \A i \in G + 1 .. z : a[i] \in Shared!Sent
    <3>1. \A i \in G + 1 .. z : i \in 1 .. Len(a)
      BY <2>1
    <3> QED BY <2>1, <3>1, ElementOfSeq, Zenon
  <2> HIDE DEF s, a, G, z
  <2>4. /\ rest \in Seq(Shared!Sent) /\ Len(rest) = IF G + 1 <= z THEN z - (G + 1) + 1 ELSE 0
        /\ \A i \in 1 .. z - (G + 1) + 1 : rest[i] = a[G + 1 + i - 1]
    <3>1. G + 1 \in Int /\ z \in Int
      BY <2>1
    <3> QED BY <2>3, <3>1, SubSeqProperties
  <2>5. /\ z - (G + 1) + 1 = Len(s) /\ (~(G + 1 <= z) => Len(s) = 0)
        /\ \A i \in Int : G + 1 + i - 1 = G + i
    <3> DEFINE m == Len(s)
    <3>1. m \in Nat /\ z \in Nat /\ G = z - m
      BY <2>1
    <3> HIDE DEF m
    <3>2. /\ z - ((z - m) + 1) + 1 = m /\ (~((z - m) + 1 <= z) => m = 0)
          /\ \A i \in Int : (z - m) + 1 + i - 1 = (z - m) + i
      BY <3>1
    <3> QED BY <3>1, <3>2 DEF m
  <2> HIDE DEF rest
  <2>6. Len(rest) = Len(s) /\ \A i \in 1 .. Len(s) : s[i] = rest[i]
    <3>1. Len(rest) = Len(s)
      BY <2>1, <2>4, <2>5
    <3>2. ASSUME NEW i \in 1 .. Len(s) PROVE s[i] = rest[i]
      <4>1. i \in 1 .. z - (G + 1) + 1 /\ G + 1 + i - 1 = G + i
        BY <2>5
      <4>2. rest[i] = a[G + 1 + i - 1]
        BY <2>4, <4>1
      <4> QED BY <2>2, <4>1, <4>2
    <3> QED BY <3>1, <3>2
  <2>7. s = rest
    BY <2>1, <2>4, <2>6, SeqEqual
  <2> QED BY <2>7 DEF s, a, G, z, rest
<1>3. ASSUME NEW q \in Shared!Priorities, NEW k \in 1 .. Shared!Gone(q)
      PROVE  \E w \in Workers : accepted[q][k] \in Shared!Elements(Shared!Given(w))
  BY <1>1 DEF Shared!IInv, Shared!GivenOnce, Shared!GivenAway, Shared!Elements
<1>4. ASSUME NEW q \in Shared!Priorities, NEW w \in Workers
      PROVE  \A i, j \in 1 .. Len(Shared!Given(w)) : \A k, l \in 1 .. Shared!Gone(q) :
                (/\ Shared!Given(w)[i] = accepted[q][k] /\ Shared!Given(w)[j] = accepted[q][l]
                 /\ i < j) => k < l
  BY <1>1 DEF Shared!IInv, Shared!GivenOnce, Shared!GivenInOrder
<1>5. ASSUME NEW v \in Workers, NEW w \in Workers, v # w
      PROVE  Shared!Elements(Shared!Given(v)) \cap Shared!Elements(Shared!Given(w)) = {}
  BY <1>1, <1>5 DEF Shared!IInv, Shared!GivenOnce, Shared!OneOwner, Shared!Elements
<1>6. ASSUME closing, NEW w \in Workers PROVE Shared!Elements(local[w]) \subseteq {Quit}
  BY <1>6 DEF Shared!IInv, Shared!QueuesTyped, Shared!Elements
<1> QED
  BY <1>2, <1>3, <1>4, <1>5, <1>6 DEF Shared!HandledOnce

(* SL_Seda_Stage2: its inductive invariant, for every number of threads,   *)
(* batch size and number of events, without a precondition.                *)
THEOREM SharedInductive == MCSpec => []Shared!IInv
<1>1. MCInit => Shared!IInv
  BY SharedInit DEF MCInit
<1>2. Shared!IInv /\ [MCNext]_allVars => Shared!IInv'
  <2> SUFFICES ASSUME Shared!IInv, [MCNext]_allVars PROVE Shared!IInv'
    OBVIOUS
  <2>1. [Shared!Next]_sharedVars
    BY PartsOfStages DEF allVars
  <2> QED BY <2>1, SharedStep
<1> QED
  BY <1>1, <1>2, PTL DEF MCSpec

-----------------------------------------------------------------------------
(* The task queues.                                                        *)

(* Of a family of sequences, one gives its first elements to the end of    *)
(* another.                                                                *)
Gives(D, H, J, a, b, x, y, n) ==
    /\ a \in D /\ b \in D /\ a # b
    /\ x \in Nat /\ y \in Nat /\ n \in 0 .. x
    /\ Len(H[a]) = x /\ Len(J[a]) = x - n
    /\ \A i \in 1 .. x - n : J[a][i] = H[a][n + i]
    /\ Len(H[b]) = y /\ Len(J[b]) = y + n
    /\ \A i \in 1 .. y : J[b][i] = H[b][i]
    /\ \A i \in 1 .. n : J[b][y + i] = H[a][i]
    /\ \A h \in D : h # a /\ h # b => J[h] = H[h]

EachOnce(D, H) ==
    \A g, h \in D : \A i \in 1 .. Len(H[g]), j \in 1 .. Len(H[h]) :
        H[g][i] = H[h][j] => g = h /\ i = j

Comes(H, J, a, b, x, n, g, i) ==
    \/ i \in 1 .. Len(H[g]) /\ J[g][i] = H[g][i]
    \/ g = a /\ n + i \in 1 .. x /\ J[g][i] = H[a][n + i]
    \/ g = b /\ \E m \in 1 .. n : J[g][i] = H[a][m]

(* What was in one place stays in one place, and nothing is lost.          *)
LEMMA ChangeHands ==
    ASSUME NEW D, NEW H, NEW J, NEW a, NEW b, NEW x, NEW y, NEW n,
           Gives(D, H, J, a, b, x, y, n), EachOnce(D, H)
    PROVE  /\ EachOnce(D, J)
           /\ \A h \in D : \A i \in 1 .. Len(H[h]) :
                 \E g \in D : \E j \in 1 .. Len(J[g]) : J[g][j] = H[h][i]
           /\ \A g \in D : \A i \in 1 .. Len(J[g]) : Comes(H, J, a, b, x, n, g, i)
<1> USE DEF Gives
<1>1. ASSUME NEW g \in D, NEW i \in 1 .. Len(J[g])
      PROVE  \/ g = a /\ n + i \in 1 .. x /\ J[g][i] = H[a][n + i]
             \/ g = b /\ i \in 1 .. y /\ J[g][i] = H[b][i]
             \/ g = b /\ i - y \in 1 .. n /\ i - y \in 1 .. x /\ J[g][i] = H[a][i - y]
             \/ g # a /\ g # b /\ i \in 1 .. Len(H[g]) /\ J[g][i] = H[g][i]
  <2>1. CASE g = a
    BY <1>1, <2>1
  <2>2. CASE g = b /\ i <= y
    BY <1>1, <2>2
  <2>3. CASE g = b /\ ~(i <= y)
    <3>1. i \in 1 .. y + n
      BY <1>1, <2>3
    <3>2. i - y \in 1 .. n /\ i - y \in 1 .. x /\ y + (i - y) = i
      BY <2>3, <3>1
    <3>3. J[b][y + (i - y)] = H[a][i - y]
      BY <3>2
    <3> QED BY <2>3, <3>2, <3>3
  <2>4. CASE g # a /\ g # b
    BY <1>1, <2>4
  <2> QED BY <2>1, <2>2, <2>3, <2>4
<1>2. ASSUME NEW g \in D, NEW i \in 1 .. Len(J[g])
      PROVE  \E f \in D : \E m \in 1 .. Len(H[f]) :
                /\ J[g][i] = H[f][m]
                /\ \/ g = a /\ f = a /\ m = n + i
                   \/ g = b /\ f = b /\ m = i
                   \/ g = b /\ f = a /\ m = i - y /\ m <= n
                   \/ g # a /\ g # b /\ f = g /\ m = i
  <2>1. CASE g = b /\ i - y \in 1 .. n /\ i - y \in 1 .. x /\ J[g][i] = H[a][i - y]
    <3>1. i - y <= n
      BY <2>1
    <3> QED BY <2>1, <3>1, Zenon
  <2> QED BY <1>1, <1>2, <2>1
<1>3. ASSUME NEW g \in D, NEW h \in D, NEW i \in 1 .. Len(J[g]), NEW j \in 1 .. Len(J[h]),
             J[g][i] = J[h][j]
      PROVE  g = h /\ i = j
  <2>a. PICK f \in D : \E m \in 1 .. Len(H[f]) :
           /\ J[g][i] = H[f][m]
           /\ \/ g = a /\ f = a /\ m = n + i
              \/ g = b /\ f = b /\ m = i
              \/ g = b /\ f = a /\ m = i - y /\ m <= n
              \/ g # a /\ g # b /\ f = g /\ m = i
    BY <1>2, Zenon
  <2>1. PICK m \in 1 .. Len(H[f]) :
           /\ J[g][i] = H[f][m]
           /\ \/ g = a /\ f = a /\ m = n + i
              \/ g = b /\ f = b /\ m = i
              \/ g = b /\ f = a /\ m = i - y /\ m <= n
              \/ g # a /\ g # b /\ f = g /\ m = i
    BY <2>a, Zenon
  <2>b. PICK e \in D : \E o \in 1 .. Len(H[e]) :
           /\ J[h][j] = H[e][o]
           /\ \/ h = a /\ e = a /\ o = n + j
              \/ h = b /\ e = b /\ o = j
              \/ h = b /\ e = a /\ o = j - y /\ o <= n
              \/ h # a /\ h # b /\ e = h /\ o = j
    BY <1>2, Zenon
  <2>2. PICK o \in 1 .. Len(H[e]) :
           /\ J[h][j] = H[e][o]
           /\ \/ h = a /\ e = a /\ o = n + j
              \/ h = b /\ e = b /\ o = j
              \/ h = b /\ e = a /\ o = j - y /\ o <= n
              \/ h # a /\ h # b /\ e = h /\ o = j
    BY <2>b
  <2>3. f = e /\ m = o
    <3>1. H[f][m] = H[e][o]
      BY <1>3, <2>1, <2>2, Zenon
    <3> QED BY <3>1, SMTT(60) DEF EachOnce
  <2>4. /\ i \in Int /\ j \in Int /\ n \in Int /\ y \in Int /\ i >= 1 /\ j >= 1
    BY <1>3
  <2>5. /\ n + i = n + j => i = j
        /\ i - y = j - y => i = j
        /\ ~(n + i <= n) /\ ~(n + j <= n)
    BY <2>4
  <2> QED BY <2>1, <2>2, <2>3, <2>5, Zenon
<1>4. ASSUME NEW h \in D, NEW i \in 1 .. Len(H[h])
      PROVE  \E g \in D : \E j \in 1 .. Len(J[g]) : J[g][j] = H[h][i]
  <2>1. CASE h = a /\ i <= n
    <3>1. i \in 1 .. n /\ y + i \in 1 .. Len(J[b])
      BY <1>4, <2>1
    <3> QED BY <2>1, <3>1, Zenon
  <2>2. CASE h = a /\ ~(i <= n)
    <3>1. i - n \in 1 .. x - n /\ i - n \in 1 .. Len(J[a]) /\ n + (i - n) = i
      BY <1>4, <2>2
    <3>2. J[a][i - n] = H[a][n + (i - n)]
      BY <3>1, Zenon
    <3> QED BY <2>2, <3>1, <3>2
  <2>3. CASE h = b
    <3>1. i \in 1 .. y /\ i \in 1 .. Len(J[b])
      BY <1>4, <2>3
    <3> QED BY <2>3, <3>1
  <2>4. CASE h # a /\ h # b
    BY <1>4, <2>4, Zenon
  <2> QED BY <2>1, <2>2, <2>3, <2>4
<1>5. ASSUME NEW g \in D, NEW i \in 1 .. Len(J[g])
      PROVE  Comes(H, J, a, b, x, n, g, i)
  BY <1>1 DEF Comes
<1> QED
  BY <1>3, <1>4, <1>5 DEF EachOnce

(* The holders of a lane's nodes, one by one.                              *)
LEMMA HoldersAre ==
    /\ Task!Holders = {Task!InQueue, -2, -1} \cup Task!PoolThreads
    /\ Task!InQueue \notin Task!PoolThreads \cup {-2, -1}
    /\ -2 \notin Task!PoolThreads \cup {-1} /\ -1 \notin Task!PoolThreads
BY PoolAssumption DEF Task!TaskAssumption, Task!Holders, Task!InQueue, Task!PoolThreads

LEMMA HeldParts ==
    ASSUME NEW l
    PROVE  /\ Task!Held(l)[Task!InQueue] = queue[l]
           /\ Task!Held(l)[-2] = served[l] /\ Task!Held(l)[-1] = got[l]
           /\ \A w \in Task!PoolThreads :
                 Task!Held(l)[w] = IF Task!LaneOf(w) = l THEN node[w] ELSE << >>
<1>1. \A h \in Task!Holders :
         Task!Held(l)[h] = CASE h = Task!InQueue -> queue[l]
                             [] h = -2 -> served[l]
                             [] h = -1 -> got[l]
                             [] OTHER -> IF Task!LaneOf(h) = l THEN node[h] ELSE << >>
  BY DEF Task!Held
<1>2. /\ Task!InQueue \in Task!Holders /\ -2 \in Task!Holders /\ -1 \in Task!Holders
      /\ Task!PoolThreads \subseteq Task!Holders
      /\ Task!InQueue # -2 /\ Task!InQueue # -1 /\ -2 # -1
      /\ \A w \in Task!PoolThreads : w # Task!InQueue /\ w # -2 /\ w # -1
  BY HoldersAre
<1> QED
  BY <1>1, <1>2

LEMMA HeldPartsNext ==
    ASSUME NEW l
    PROVE  /\ Task!Held(l)'[Task!InQueue] = queue'[l]
           /\ Task!Held(l)'[-2] = served'[l] /\ Task!Held(l)'[-1] = got'[l]
           /\ \A w \in Task!PoolThreads :
                 Task!Held(l)'[w] = IF Task!LaneOf(w)' = l THEN node'[w] ELSE << >>
<1>1. \A h \in Task!Holders :
         Task!Held(l)'[h] = CASE h = Task!InQueue -> queue'[l]
                              [] h = -2 -> served'[l]
                              [] h = -1 -> got'[l]
                              [] OTHER -> IF Task!LaneOf(h)' = l THEN node'[h] ELSE << >>
  BY DEF Task!Held
<1>2. /\ Task!InQueue \in Task!Holders /\ -2 \in Task!Holders /\ -1 \in Task!Holders
      /\ Task!PoolThreads \subseteq Task!Holders
      /\ Task!InQueue # -2 /\ Task!InQueue # -1 /\ -2 # -1
      /\ \A w \in Task!PoolThreads : w # Task!InQueue /\ w # -2 /\ w # -1
  BY HoldersAre
<1> QED
  BY <1>1, <1>2

LEMMA LanesAre ==
    /\ \A w \in Task!PoolThreads : Task!LaneOf(w) \in Task!Lanes
    /\ Task!Lanes \subseteq Task!PoolThreads /\ 0 \in Task!PoolThreads
    /\ Task!PoolThreads \subseteq Nat
    /\ multi => /\ Task!Lanes = Task!PoolThreads
                /\ \A w \in Task!PoolThreads : Task!LaneOf(w) = w
BY PoolAssumption DEF Task!TaskAssumption, Task!PoolThreads, Task!Lanes, Task!LaneOf

(* The types of one lane's and one thread's part.                          *)
LEMMA PoolTypes ==
    ASSUME Task!IInv
    PROVE  /\ \A l \in Task!Lanes :
                 /\ queue[l] \in Seq(Nat) /\ served[l] \in Seq(Nat) /\ got[l] \in Seq(Nat)
                 /\ Len(queue[l]) \in Nat /\ Len(served[l]) \in Nat /\ Len(got[l]) \in Nat
                 /\ put[l] \in Nat /\ Len(queue[l]) <= put[l] /\ Task!TakenFrom(l) \in Nat
                 /\ Task!TakenFrom(l) = put[l] - Len(queue[l])
           /\ \A w \in Task!PoolThreads : node[w] \in Seq(Nat) /\ Len(node[w]) \in Nat
<1>1. ASSUME NEW l \in Task!Lanes
      PROVE  /\ queue[l] \in Seq(Nat) /\ served[l] \in Seq(Nat) /\ got[l] \in Seq(Nat)
             /\ put[l] \in Nat /\ Len(queue[l]) <= put[l]
  BY DEF Task!IInv, Task!PoolTyped, Task!Numbered
<1>2. ASSUME NEW w \in Task!PoolThreads PROVE node[w] \in Seq(Nat)
  BY DEF Task!IInv, Task!PoolTyped
<1>3. ASSUME NEW l \in Task!Lanes
      PROVE  /\ Len(queue[l]) \in Nat /\ Len(served[l]) \in Nat /\ Len(got[l]) \in Nat
             /\ Task!TakenFrom(l) \in Nat
  <2>1. Len(queue[l]) \in Nat /\ Len(served[l]) \in Nat /\ Len(got[l]) \in Nat
    BY <1>1, LenProperties
  <2>2. put[l] \in Nat /\ Len(queue[l]) <= put[l]
    BY <1>1
  <2>3. put[l] - Len(queue[l]) \in Nat
    BY <2>1, <2>2
  <2> QED BY <2>1, <2>3 DEF Task!TakenFrom
<1> QED
  BY <1>1, <1>2, <1>3, LenProperties DEF Task!TakenFrom

LEMMA LessTaken ==
    ASSUME NEW a \in Nat, NEW b \in Nat, NEW c \in Nat, b <= a, c <= b
    PROVE  a - (b - c) = (a - b) + c /\ a - b \in Nat /\ b - c <= a
OBVIOUS

(* Nodes of one lane change hands, the first ones of their holder.         *)
LEMMA NodesChangeHands ==
    ASSUME Task!IInv, NEW l \in Task!Lanes, NEW a, NEW b, NEW x, NEW y, NEW n,
           Gives(Task!Holders, Task!Held(l), Task!Held(l)', a, b, x, y, n), b # Task!InQueue,
           \A m \in Task!Lanes : m # l => Task!Held(m)' = Task!Held(m),
           UNCHANGED <<put, close_pc, multi>>
    PROVE  Task!Numbered' /\ Task!NodesOnce' /\ Task!NoneLost'
<1> DEFINE D == Task!Holders
           H == Task!Held(l)
           J == Task!Held(l)'
<1>1. EachOnce(D, H)
  BY DEF Task!IInv, Task!NodesOnce, EachOnce
<1>0. Gives(D, H, J, a, b, x, y, n)
  OBVIOUS
<1>a. /\ a \in Task!Holders /\ b \in Task!Holders /\ a # b
      /\ x \in Nat /\ y \in Nat /\ n \in 0 .. x
  BY <1>0 DEF Gives
<1> HIDE DEF D, H, J
<1>2. /\ EachOnce(D, J)
      /\ \A h \in D : \A i \in 1 .. Len(H[h]) :
            \E g \in D : \E j \in 1 .. Len(J[g]) : J[g][j] = H[h][i]
      /\ \A g \in D : \A i \in 1 .. Len(J[g]) : Comes(H, J, a, b, x, n, g, i)
  BY <1>0, <1>1, ChangeHands
<1>3. Task!Lanes' = Task!Lanes
  BY DEF Task!Lanes
<1>4. Task!NodesOnce'
  <2>1. ASSUME NEW m \in Task!Lanes PROVE EachOnce(Task!Holders, Task!Held(m)')
    <3>1. CASE m = l
      <4>1. Task!Held(m)' = J /\ D = Task!Holders
        BY <3>1 DEF D, J
      <4> QED BY <1>2, <4>1
    <3>2. CASE m # l
      <4>1. Task!Held(m)' = Task!Held(m)
        BY <3>2
      <4>2. EachOnce(Task!Holders, Task!Held(m))
        BY DEF Task!IInv, Task!NodesOnce, EachOnce
      <4> QED BY <4>1, <4>2
    <3> QED BY <3>1, <3>2
  <2> QED BY <1>3, <2>1 DEF EachOnce, Task!NodesOnce
<1>5. Task!NoneLost'
  <2> SUFFICES ASSUME close_pc = "open", NEW m \in Task!Lanes, NEW k \in 1 .. put[m]
               PROVE  \E h \in Task!Holders : \E i \in 1 .. Len(Task!Held(m)'[h]) :
                          Task!Held(m)'[h][i] = k
    BY <1>3 DEF Task!NoneLost, Task!In
  <2>1. PICK h \in Task!Holders : \E i \in 1 .. Len(Task!Held(m)[h]) : Task!Held(m)[h][i] = k
    BY DEF Task!IInv, Task!NoneLost, Task!In
  <2>2. CASE m = l
    <3>1. Task!Held(m)' = J /\ Task!Held(m) = H /\ D = Task!Holders
      BY <2>2 DEF D, H, J
    <3>2. PICK i \in 1 .. Len(H[h]) : H[h][i] = k
      BY <2>1, <3>1
    <3>3. \E g \in D : \E j \in 1 .. Len(J[g]) : J[g][j] = H[h][i]
      BY <1>2, <2>1, <3>1, <3>2
    <3> QED BY <3>1, <3>2, <3>3
  <2>3. CASE m # l
    BY <2>1, <2>3
  <2> QED BY <2>2, <2>3
<1>6. Task!Numbered'
  <2> SUFFICES ASSUME NEW m \in Task!Lanes
               PROVE  /\ Len(queue'[m]) <= put[m]
                      /\ \A i \in 1 .. Len(queue'[m]) : queue'[m][i] = Task!TakenFrom(m)' + i
                      /\ \A h \in Task!Holders \ {Task!InQueue} :
                            \A i \in 1 .. Len(Task!Held(m)'[h]) :
                               Task!Held(m)'[h][i] \in 1 .. Task!TakenFrom(m)'
    BY <1>3 DEF Task!Numbered
  <2>1. /\ Len(queue[m]) <= put[m]
        /\ \A i \in 1 .. Len(queue[m]) : queue[m][i] = Task!TakenFrom(m) + i
        /\ \A h \in Task!Holders \ {Task!InQueue} : \A i \in 1 .. Len(Task!Held(m)[h]) :
              Task!Held(m)[h][i] \in 1 .. Task!TakenFrom(m)
    BY DEF Task!IInv, Task!Numbered
  <2>2. /\ Task!Held(m)[Task!InQueue] = queue[m] /\ Task!Held(m)'[Task!InQueue] = queue'[m]
        /\ Task!InQueue \in Task!Holders
    BY HeldParts, HeldPartsNext, HoldersAre
  <2>3. /\ put[m] \in Nat /\ Len(queue[m]) \in Nat
        /\ Task!TakenFrom(m) = put[m] - Len(queue[m])
        /\ Task!TakenFrom(m)' = put[m] - Len(queue'[m])
    BY PoolTypes DEF Task!TakenFrom
  <2>4. CASE m # l
    <3>1. Task!Held(m)' = Task!Held(m) /\ queue'[m] = queue[m]
      BY <2>2, <2>4
    <3> QED BY <2>1, <2>3, <3>1
  <2>5. CASE m = l /\ a # Task!InQueue
    <3>1. queue'[m] = queue[m] /\ Task!TakenFrom(m)' = Task!TakenFrom(m)
      BY <1>0, <2>2, <2>3, <2>5 DEF D, H, J, Gives
    <3>2. \A h \in Task!Holders \ {Task!InQueue} : \A i \in 1 .. Len(J[h]) :
             J[h][i] \in 1 .. Task!TakenFrom(m)
      <4>1. \A h \in Task!Holders \ {Task!InQueue} : \A i \in 1 .. Len(H[h]) :
               H[h][i] \in 1 .. Task!TakenFrom(m)
        BY <2>1, <2>5 DEF H
      <4>2. \A i \in 1 .. n : i \in 1 .. x
        BY <1>a
      <4>3. D = Task!Holders
        BY DEF D
      <4> TAKE h \in Task!Holders \ {Task!InQueue}
      <4> TAKE i \in 1 .. Len(J[h])
      <4>4. \/ i \in 1 .. Len(H[h]) /\ J[h][i] = H[h][i]
            \/ h = a /\ n + i \in 1 .. x /\ J[h][i] = H[a][n + i]
            \/ h = b /\ \E k \in 1 .. n : J[h][i] = H[a][k]
        <5>1. Comes(H, J, a, b, x, n, h, i)
          BY <1>2, <4>3
        <5> QED BY <5>1 DEF Comes
      <4>5. \A k \in 1 .. x : H[a][k] \in 1 .. Task!TakenFrom(m)
        BY <1>0, <2>5, <4>1 DEF Gives
      <4> QED BY <4>1, <4>2, <4>4, <4>5
    <3> QED BY <2>1, <2>5, <3>1, <3>2 DEF J
  <2>6. CASE m = l /\ a = Task!InQueue
    <3> DEFINE T == Task!TakenFrom(m)
    <3>0. H[a] = queue[m] /\ J[a] = queue'[m]
      BY <2>2, <2>6 DEF H, J
    <3>1. /\ x = Len(queue[m]) /\ Len(queue'[m]) = x - n /\ put[m] \in Nat /\ x <= put[m]
          /\ T = put[m] - x /\ Task!TakenFrom(m)' = put[m] - (x - n)
      BY <1>0, <2>1, <2>3, <3>0, Zenon DEF Gives
    <3> HIDE DEF T
    <3>2. Task!TakenFrom(m)' = T + n /\ T \in Nat /\ Len(queue'[m]) <= put[m]
      <4> DEFINE P == put[m]
      <4>1. P \in Nat /\ x \in Nat /\ n \in Nat /\ n <= x /\ x <= P /\ T = P - x
        BY <1>a, <3>1
      <4> HIDE DEF P
      <4>2. P - (x - n) = (P - x) + n /\ P - x \in Nat /\ x - n <= P
        BY <4>1, LessTaken
      <4> QED BY <3>1, <4>1, <4>2 DEF P
    <3>3. ASSUME NEW i \in 1 .. x PROVE H[a][i] = T + i
      BY <2>1, <3>0, <3>1 DEF T
    <3>4. ASSUME NEW i \in 1 .. x - n PROVE queue'[m][i] = (T + n) + i
      <4>1. n + i \in 1 .. x /\ T + (n + i) = (T + n) + i
        BY <1>a, <3>2
      <4> QED BY <1>0, <3>0, <3>3, <4>1 DEF Gives
    <3>5. ASSUME NEW h \in Task!Holders \ {Task!InQueue}, NEW i \in 1 .. Len(J[h])
          PROVE  J[h][i] \in 1 .. T + n
      <4>1. CASE i \in 1 .. Len(H[h]) /\ J[h][i] = H[h][i]
        <5>1. H[h][i] \in 1 .. T
          BY <2>1, <2>6, <4>1 DEF H, T
        <5>2. \A k \in 1 .. T : k \in 1 .. T + n
          BY <1>a, <3>2
        <5> QED BY <4>1, <5>1, <5>2
      <4>2. CASE \E k \in 1 .. n : J[h][i] = H[a][k]
        <5>1. PICK k \in 1 .. n : J[h][i] = H[a][k]
          BY <4>2
        <5>2. k \in 1 .. x /\ T + k \in 1 .. T + n
          BY <1>a, <3>2
        <5> QED BY <3>3, <5>1, <5>2
      <4>3. D = Task!Holders /\ h # a /\ h \in Task!Holders
        BY <2>6 DEF D
      <4>4. \/ i \in 1 .. Len(H[h]) /\ J[h][i] = H[h][i]
            \/ h = a /\ n + i \in 1 .. x /\ J[h][i] = H[a][n + i]
            \/ h = b /\ \E k \in 1 .. n : J[h][i] = H[a][k]
        BY <1>2, <3>5, <4>3 DEF Comes
      <4> QED BY <4>1, <4>2, <4>3, <4>4
    <3> QED BY <2>6, <3>1, <3>2, <3>4, <3>5 DEF J
  <2> QED BY <2>4, <2>5, <2>6
<1> QED
  BY <1>4, <1>5, <1>6

LEMMA CutInTwo ==
    ASSUME NEW S, NEW s \in Seq(S), NEW z \in Nat, z = Len(s), NEW n \in 0 .. z
    PROVE  /\ SubSeq(s, 1, n) \in Seq(S) /\ Len(SubSeq(s, 1, n)) = n
           /\ \A i \in 1 .. n : SubSeq(s, 1, n)[i] = s[i]
           /\ SubSeq(s, n + 1, z) \in Seq(S) /\ Len(SubSeq(s, n + 1, z)) = z - n
           /\ \A i \in 1 .. z - n : SubSeq(s, n + 1, z)[i] = s[n + i]
<1> DEFINE taken == SubSeq(s, 1, n)
           kept == SubSeq(s, n + 1, z)
<1>1. \A i \in 1 .. z : s[i] \in S
  BY ElementOfSeq
<1>2. /\ taken \in Seq(S) /\ Len(taken) = n
      /\ \A i \in 1 .. n : taken[i] = s[i]
  <2>1. 1 \in Int /\ n \in Int /\ \A i \in 1 .. n : s[i] \in S
    BY <1>1
  <2>2. /\ taken \in Seq(S) /\ Len(taken) = IF 1 <= n THEN n - 1 + 1 ELSE 0
        /\ \A i \in 1 .. n - 1 + 1 : taken[i] = s[1 + i - 1]
    BY <2>1, SubSeqProperties
  <2>3. n - 1 + 1 = n /\ (~(1 <= n) => n = 0) /\ \A i \in Int : 1 + i - 1 = i
    OBVIOUS
  <2> HIDE DEF taken
  <2> QED BY <2>2, <2>3
<1>3. /\ kept \in Seq(S) /\ Len(kept) = z - n
      /\ \A i \in 1 .. z - n : kept[i] = s[n + i]
  <2>1. n + 1 \in Int /\ z \in Int /\ \A i \in n + 1 .. z : s[i] \in S
    BY <1>1
  <2>2. /\ kept \in Seq(S) /\ Len(kept) = IF n + 1 <= z THEN z - (n + 1) + 1 ELSE 0
        /\ \A i \in 1 .. z - (n + 1) + 1 : kept[i] = s[n + 1 + i - 1]
    BY <2>1, SubSeqProperties
  <2>3. z - (n + 1) + 1 = z - n /\ (~(n + 1 <= z) => z - n = 0)
        /\ \A i \in Int : n + 1 + i - 1 = n + i
    OBVIOUS
  <2> HIDE DEF kept
  <2> QED BY <2>2, <2>3
<1> QED
  BY <1>2, <1>3

LEMMA HeldSame ==
    ASSUME NEW m, queue'[m] = queue[m], served'[m] = served[m], got'[m] = got[m],
           \A v \in Task!PoolThreads : Task!LaneOf(v)' = Task!LaneOf(v),
           \A v \in Task!PoolThreads : Task!LaneOf(v) = m => node'[v] = node[v]
    PROVE  Task!Held(m)' = Task!Held(m)
<1>1. \A h \in Task!Holders :
         (CASE h = Task!InQueue -> queue'[m] [] h = -2 -> served'[m] [] h = -1 -> got'[m]
            [] OTHER -> IF Task!LaneOf(h)' = m THEN node'[h] ELSE << >>) =
         (CASE h = Task!InQueue -> queue[m] [] h = -2 -> served[m] [] h = -1 -> got[m]
            [] OTHER -> IF Task!LaneOf(h) = m THEN node[h] ELSE << >>)
  <2> TAKE h \in Task!Holders
  <2>1. h \in Task!PoolThreads \/ h = Task!InQueue \/ h = -2 \/ h = -1
    BY HoldersAre
  <2>2. CASE h \in Task!PoolThreads
    <3>1. h # Task!InQueue /\ h # -2 /\ h # -1
      BY <2>2, HoldersAre
    <3>2. /\ Task!LaneOf(h)' = Task!LaneOf(h)
          /\ Task!LaneOf(h) = m => node'[h] = node[h]
      BY <2>2
    <3> HIDE DEF Task!InQueue
    <3> QED BY <3>1, <3>2
  <2>3. CASE h = Task!InQueue \/ h = -2 \/ h = -1
    BY <2>3, HoldersAre
  <2> QED BY <2>1, <2>2, <2>3
<1> QED
  BY <1>1 DEF Task!Held

(* A step that leaves the nodes alone.                                     *)
LEMMA NodesStay ==
    ASSUME Task!IInv, UNCHANGED <<queue, node, served, got, put, multi>>,
           close_pc' = "open" => close_pc = "open"
    PROVE  Task!Numbered' /\ Task!NodesOnce' /\ Task!NoneLost' /\ Task!InOrder'
<1>1. /\ Task!Lanes' = Task!Lanes
      /\ \A l : Task!Held(l)' = Task!Held(l) /\ Task!TakenFrom(l)' = Task!TakenFrom(l)
  BY DEF Task!Lanes, Task!Held, Task!TakenFrom, Task!LaneOf
<1>2. Task!Numbered'
  BY <1>1 DEF Task!IInv, Task!Numbered
<1>3. Task!NodesOnce'
  <2>1. \A l \in Task!Lanes : EachOnce(Task!Holders, Task!Held(l))
    BY DEF Task!IInv, Task!NodesOnce, EachOnce
  <2>2. \A l \in Task!Lanes : EachOnce(Task!Holders, Task!Held(l)')
    BY <1>1, <2>1
  <2> QED BY <1>1, <2>2 DEF Task!NodesOnce, EachOnce
<1>4. Task!NoneLost'
  BY <1>1 DEF Task!IInv, Task!NoneLost, Task!In
<1>5. Task!InOrder'
  BY DEF Task!IInv, Task!InOrder
<1> QED
  BY <1>2, <1>3, <1>4, <1>5

(* svc_run pops a batch.                                                   *)
LEMMA PoolPops ==
    ASSUME Task!IInv, NEW w \in Task!PoolThreads, NEW l, l = Task!LaneOf(w), tpc[w] # "serve", Task!PopFront(w),
           UNCHANGED <<served, got, put, close_pc, multi>>
    PROVE  /\ queue' \in [Task!Lanes -> Seq(Nat)] /\ node' \in [Task!PoolThreads -> Seq(Nat)]
           /\ \A v \in Task!PoolThreads : v # w => node'[v] = node[v]
           /\ queue[l] = << >> => node'[w] = << >>
           /\ Task!Numbered' /\ Task!NodesOnce' /\ Task!NoneLost' /\ Task!InOrder'
<1> DEFINE x == Len(queue[l])
           n == Task!Fewer(x, BatchSize)
<1>0. /\ l \in Task!Lanes /\ queue[l] \in Seq(Nat) /\ x \in Nat /\ BatchSize \in Nat
  BY LanesAre, PoolTypes, PoolAssumption, Zenon DEF Task!TaskAssumption
<1>1. n \in 0 .. x
  BY <1>0 DEF Task!Fewer
<1>2. /\ node' = [node EXCEPT ![w] = SubSeq(queue[l], 1, n)]
      /\ queue' = [queue EXCEPT ![l] = SubSeq(queue[l], n + 1, x)]
  BY DEF Task!PopFront, Task!Prefix, Task!Rest
<1> HIDE DEF n, x
<1>3. x = Len(queue[l])
  BY DEF x
<1>4. /\ SubSeq(queue[l], 1, n) \in Seq(Nat) /\ Len(SubSeq(queue[l], 1, n)) = n
      /\ \A i \in 1 .. n : SubSeq(queue[l], 1, n)[i] = queue[l][i]
      /\ SubSeq(queue[l], n + 1, x) \in Seq(Nat) /\ Len(SubSeq(queue[l], n + 1, x)) = x - n
      /\ \A i \in 1 .. x - n : SubSeq(queue[l], n + 1, x)[i] = queue[l][n + i]
  <2> DEFINE s == queue[l]
             N == Nat
  <2>1. s \in Seq(N) /\ x \in Nat /\ x = Len(s)
    BY <1>0, <1>3
  <2> HIDE DEF s, N
  <2>2. /\ SubSeq(s, 1, n) \in Seq(N) /\ Len(SubSeq(s, 1, n)) = n
        /\ \A i \in 1 .. n : SubSeq(s, 1, n)[i] = s[i]
        /\ SubSeq(s, n + 1, x) \in Seq(N) /\ Len(SubSeq(s, n + 1, x)) = x - n
        /\ \A i \in 1 .. x - n : SubSeq(s, n + 1, x)[i] = s[n + i]
    BY <1>1, <2>1, CutInTwo, SMTT(60)
  <2> QED BY <2>2 DEF s, N
<1>5. /\ node \in [Task!PoolThreads -> Seq(Nat)] /\ queue \in [Task!Lanes -> Seq(Nat)]
      /\ node[w] = << >>
  BY DEF Task!IInv, Task!PoolTyped
<1>6. /\ queue' \in [Task!Lanes -> Seq(Nat)] /\ node' \in [Task!PoolThreads -> Seq(Nat)]
      /\ \A v \in Task!PoolThreads : v # w => node'[v] = node[v]
      /\ \A m \in Task!Lanes : m # l => queue'[m] = queue[m]
      /\ Len(node'[w]) = n /\ \A i \in 1 .. n : node'[w][i] = queue[l][i]
      /\ Len(queue'[l]) = x - n /\ \A i \in 1 .. x - n : queue'[l][i] = queue[l][n + i]
  BY <1>0, <1>2, <1>4, <1>5, Zenon
<1>7. queue[l] = << >> => node'[w] = << >>
  <2> SUFFICES ASSUME queue[l] = << >> PROVE node'[w] = << >>
    OBVIOUS
  <2>1. Len(node'[w]) = 0 /\ node'[w] \in Seq(Nat)
    BY <1>1, <1>3, <1>6
  <2> QED BY <2>1, EmptySeq
<1>8. /\ Task!LaneOf(w) = l
      /\ \A v \in Task!PoolThreads : Task!LaneOf(v)' = Task!LaneOf(v)
  BY DEF Task!LaneOf
<1>9. /\ Task!Held(l)[Task!InQueue] = queue[l] /\ Task!Held(l)'[Task!InQueue] = queue'[l]
      /\ Task!Held(l)[w] = node[w] /\ Task!Held(l)'[w] = node'[w]
  BY <1>8, HeldParts, HeldPartsNext
<1>10. /\ \A m \in Task!Lanes : m # l => Task!Held(m)' = Task!Held(m)
       /\ \A h \in Task!Holders : h # Task!InQueue /\ h # w => Task!Held(l)'[h] = Task!Held(l)[h]
  <2>1. ASSUME NEW m \in Task!Lanes, m # l PROVE Task!Held(m)' = Task!Held(m)
    <3>1. /\ queue'[m] = queue[m] /\ served'[m] = served[m] /\ got'[m] = got[m]
          /\ \A v \in Task!PoolThreads : Task!LaneOf(v)' = Task!LaneOf(v)
      BY <1>6, <1>8, <2>1
    <3>2. \A v \in Task!PoolThreads : Task!LaneOf(v) = m => node'[v] = node[v]
      BY <1>6, <1>8, <2>1
    <3> QED BY <3>1, <3>2, HeldSame
  <2>2. ASSUME NEW h \in Task!Holders, h # Task!InQueue, h # w
        PROVE  Task!Held(l)'[h] = Task!Held(l)[h]
    <3>1. CASE h = -2
      BY <3>1, HeldParts, HeldPartsNext
    <3>2. CASE h = -1
      BY <3>2, HeldParts, HeldPartsNext
    <3>3. CASE h \in Task!PoolThreads
      BY <1>6, <1>8, <2>2, <3>3, HeldParts, HeldPartsNext, SMTT(60)
    <3> QED BY <2>2, <3>1, <3>2, <3>3, HoldersAre
  <2> QED BY <2>1, <2>2
<1>11. Task!Numbered' /\ Task!NodesOnce' /\ Task!NoneLost'
  <2>1. /\ Task!InQueue \in Task!Holders /\ w \in Task!Holders \ {Task!InQueue}
        /\ Task!InQueue # w
    BY HoldersAre
  <2>2. Len(node[w]) = 0
    BY <1>5
  <2>3. /\ Len(Task!Held(l)[Task!InQueue]) = x /\ Len(Task!Held(l)'[Task!InQueue]) = x - n
        /\ \A i \in 1 .. x - n : Task!Held(l)'[Task!InQueue][i] = Task!Held(l)[Task!InQueue][n + i]
    BY <1>3, <1>6, <1>9
  <2>4. /\ Len(Task!Held(l)[w]) = 0 /\ Len(Task!Held(l)'[w]) = 0 + n
        /\ \A i \in 1 .. 0 : Task!Held(l)'[w][i] = Task!Held(l)[w][i]
        /\ \A i \in 1 .. n : Task!Held(l)'[w][0 + i] = Task!Held(l)[Task!InQueue][i]
    BY <1>1, <1>6, <1>9, <2>2
  <2>5. l \in Task!Lanes /\ x \in Nat /\ 0 \in Nat /\ n \in 0 .. x
    BY <1>0, <1>1, <1>8, <1>3
  <2>6. Gives(Task!Holders, Task!Held(l), Task!Held(l)', Task!InQueue, w, x, 0, n)
    BY <1>10, <2>1, <2>3, <2>4, <2>5 DEF Gives
  <2> QED BY <1>10, <2>1, <2>5, <2>6, NodesChangeHands
<1>12. Task!InOrder'
  <2> SUFFICES ASSUME multi, NEW v \in Task!PoolThreads
               PROVE  /\ \A i, j \in 1 .. Len(served[v]) : i < j => served[v][i] < served[v][j]
                      /\ \A i, j \in 1 .. Len(node'[v]) : i < j => node'[v][i] < node'[v][j]
                      /\ \A i \in 1 .. Len(served[v]), j \in 1 .. Len(node'[v]) :
                            served[v][i] < node'[v][j]
    BY DEF Task!InOrder
  <2>1. /\ \A i, j \in 1 .. Len(served[v]) : i < j => served[v][i] < served[v][j]
        /\ \A i, j \in 1 .. Len(node[v]) : i < j => node[v][i] < node[v][j]
        /\ \A i \in 1 .. Len(served[v]), j \in 1 .. Len(node[v]) : served[v][i] < node[v][j]
    BY DEF Task!IInv, Task!InOrder
  <2>2. CASE v # w
    <3>1. node'[v] = node[v]
      BY <1>6, <2>2
    <3> QED BY <2>1, <3>1
  <2>3. CASE v = w
    <3>1. v = l /\ l \in Task!Lanes
      BY <1>0, <1>8, <2>3, LanesAre
    <3>2. /\ \A i \in 1 .. x : queue[l][i] = Task!TakenFrom(l) + i
          /\ \A i \in 1 .. Len(served[l]) : served[l][i] \in 1 .. Task!TakenFrom(l)
      <4>1. -2 \in Task!Holders \ {Task!InQueue} /\ Task!Held(l)[-2] = served[l]
        BY HoldersAre, HeldParts
      <4> QED BY <1>3, <3>1, <4>1 DEF Task!IInv, Task!Numbered
    <3>3. Task!TakenFrom(l) \in Nat
      BY <3>1, PoolTypes
    <3>4. \A i \in 1 .. n : i \in 1 .. x /\ node'[w][i] = Task!TakenFrom(l) + i
      <4>1. \A i \in 1 .. n : i \in 1 .. x
        BY <1>0, <1>1
      <4> QED BY <1>6, <3>2, <4>1, Zenon
    <3> DEFINE T == Task!TakenFrom(l)
    <3>5. /\ T \in Nat /\ n \in Nat /\ Len(node'[w]) = n
          /\ \A i \in 1 .. n : node'[w][i] = T + i
          /\ \A i \in 1 .. Len(served[l]) : served[l][i] \in 1 .. T
      <4>1. T \in Nat /\ \A i \in 1 .. Len(served[l]) : served[l][i] \in 1 .. T
        BY <3>2, <3>3
      <4>2. n \in Nat /\ Len(node'[w]) = n
        BY <1>0, <1>1, <1>6
      <4> QED BY <3>4, <4>1, <4>2
    <3> HIDE DEF T
    <3>6. \A i, j \in 1 .. n : i < j => node'[w][i] < node'[w][j]
      BY <3>5
    <3>7. \A i \in 1 .. Len(served[l]), j \in 1 .. n : served[l][i] < node'[w][j]
      BY <3>5
    <3>8. Len(node'[v]) = n /\ node'[v] = node'[w] /\ served[v] = served[l]
      BY <2>3, <3>1, <3>5, Zenon
    <3>9. v = w /\ l = w
      BY <2>3, <3>1, Zenon
    <3> QED BY <2>1, <3>5, <3>6, <3>7, <3>9
  <2> QED BY <2>2, <2>3
<1> QED
  BY <1>6, <1>7, <1>11, <1>12

(* The first element of one sequence, put at the end of another.           *)
LEMMA OneMoves ==
    ASSUME NEW S, NEW s \in Seq(S), s # << >>, NEW t \in Seq(S)
    PROVE  /\ Len(s) \in Nat /\ Len(t) \in Nat /\ 1 \in 0 .. Len(s)
           /\ Tail(s) \in Seq(S) /\ Append(t, Head(s)) \in Seq(S)
           /\ Len(Tail(s)) = Len(s) - 1 /\ Len(Append(t, Head(s))) = Len(t) + 1
           /\ \A i \in 1 .. Len(s) - 1 : Tail(s)[i] = s[1 + i]
           /\ \A i \in 1 .. Len(t) : Append(t, Head(s))[i] = t[i]
           /\ \A i \in 1 .. 1 : Append(t, Head(s))[Len(t) + i] = s[i]
<1>1. /\ Head(s) \in S /\ Head(s) = s[1] /\ 1 \in 1 .. Len(s) /\ Len(s) \in Nat
      /\ Tail(s) \in Seq(S) /\ Len(Tail(s)) = Len(s) - 1
      /\ \A i \in 1 .. Len(Tail(s)) : Tail(s)[i] = s[i + 1]
  BY HeadThenTail
<1> DEFINE h == Head(s)
           r == Tail(s)
           x == Len(s)
<1>2. /\ h \in S /\ h = s[1] /\ x \in Nat /\ 1 \in 1 .. x
      /\ Len(r) = x - 1 /\ \A i \in 1 .. Len(r) : r[i] = s[i + 1]
  BY <1>1
<1> HIDE DEF h, r, x
<1>3. 1 \in 0 .. x /\ \A i \in 1 .. x - 1 : r[i] = s[1 + i]
  <2>1. 1 \in 0 .. x /\ \A i \in 1 .. x - 1 : i + 1 = 1 + i
    BY <1>2
  <2> QED BY <1>2, <2>1
<1>4. /\ Append(t, h) \in Seq(S) /\ Len(Append(t, h)) = Len(t) + 1 /\ Len(t) \in Nat
      /\ \A i \in 1 .. Len(t) : Append(t, h)[i] = t[i]
      /\ Append(t, h)[Len(t) + 1] = h
  BY <1>2, AppendProperties
<1>5. \A i \in 1 .. 1 : Append(t, h)[Len(t) + i] = s[i]
  <2>1. \A i \in 1 .. 1 : i = 1
    OBVIOUS
  <2> QED BY <1>2, <1>4, <2>1
<1> QED
  BY <1>1, <1>3, <1>4, <1>5 DEF h, r, x

(* svc_run serves the first node that it has.                              *)
LEMMA PoolServes ==
    ASSUME Task!IInv, NEW w \in Task!PoolThreads, NEW l, l = Task!LaneOf(w), node[w] # << >>,
           served' = [served EXCEPT ![l] = Append(@, Head(node[w]))],
           node' = [node EXCEPT ![w] = Tail(@)],
           UNCHANGED <<queue, got, put, close_pc, multi>>
    PROVE  /\ served' \in [Task!Lanes -> Seq(Nat)] /\ node' \in [Task!PoolThreads -> Seq(Nat)]
           /\ \A v \in Task!PoolThreads : v # w => node'[v] = node[v]
           /\ Task!Numbered' /\ Task!NodesOnce' /\ Task!NoneLost' /\ Task!InOrder'
<1> DEFINE N == Nat
           s == node[w]
           t == served[l]
           x == Len(s)
           y == Len(t)
<1>0. /\ l \in Task!Lanes /\ s \in Seq(N) /\ s # << >> /\ t \in Seq(N)
  BY LanesAre, PoolTypes, Zenon
<1>1. served' = [served EXCEPT ![l] = Append(t, Head(s))] /\ node' = [node EXCEPT ![w] = Tail(s)]
  OBVIOUS
<1>2. /\ node \in [Task!PoolThreads -> Seq(N)] /\ served \in [Task!Lanes -> Seq(N)]
  BY DEF Task!IInv, Task!PoolTyped
<1> HIDE DEF N, s, t
<1>3. /\ x \in Nat /\ y \in Nat /\ 1 \in 0 .. x
      /\ Tail(s) \in Seq(N) /\ Append(t, Head(s)) \in Seq(N)
      /\ Len(Tail(s)) = x - 1 /\ Len(Append(t, Head(s))) = y + 1
      /\ \A i \in 1 .. x - 1 : Tail(s)[i] = s[1 + i]
      /\ \A i \in 1 .. y : Append(t, Head(s))[i] = t[i]
      /\ \A i \in 1 .. 1 : Append(t, Head(s))[y + i] = s[i]
  BY <1>0, OneMoves
<1> HIDE DEF x, y
<1>4. /\ served' \in [Task!Lanes -> Seq(N)] /\ node' \in [Task!PoolThreads -> Seq(N)]
      /\ \A v \in Task!PoolThreads : v # w => node'[v] = node[v]
      /\ \A m \in Task!Lanes : m # l => served'[m] = served[m]
      /\ node'[w] = Tail(s) /\ served'[l] = Append(t, Head(s))
  BY <1>0, <1>1, <1>2, <1>3
<1>5. /\ Task!LaneOf(w) = l
      /\ \A v \in Task!PoolThreads : Task!LaneOf(v)' = Task!LaneOf(v)
  BY DEF Task!LaneOf
<1>6. /\ Task!Held(l)[w] = s /\ Task!Held(l)'[w] = Tail(s)
      /\ Task!Held(l)[-2] = t /\ Task!Held(l)'[-2] = Append(t, Head(s))
  <2>1. Task!Held(l)[w] = node[w] /\ Task!Held(l)'[w] = node'[w]
    BY <1>5, HeldParts, HeldPartsNext
  <2>2. Task!Held(l)[-2] = served[l] /\ Task!Held(l)'[-2] = served'[l]
    BY HeldParts, HeldPartsNext
  <2> QED BY <1>4, <2>1, <2>2 DEF s, t
<1>7. ASSUME NEW m \in Task!Lanes, m # l PROVE Task!Held(m)' = Task!Held(m)
  <2>1. /\ queue'[m] = queue[m] /\ served'[m] = served[m] /\ got'[m] = got[m]
        /\ \A v \in Task!PoolThreads : Task!LaneOf(v)' = Task!LaneOf(v)
    BY <1>4, <1>5, <1>7
  <2>2. \A v \in Task!PoolThreads : Task!LaneOf(v) = m => node'[v] = node[v]
    BY <1>4, <1>5, <1>7
  <2> QED BY <2>1, <2>2, HeldSame
<1>8. ASSUME NEW h \in Task!Holders, h # w, h # -2 PROVE Task!Held(l)'[h] = Task!Held(l)[h]
  <2>1. CASE h = Task!InQueue
    BY <2>1, HeldParts, HeldPartsNext
  <2>2. CASE h = -1
    BY <2>2, HeldParts, HeldPartsNext
  <2>3. CASE h \in Task!PoolThreads
    <3>1. Task!LaneOf(h)' = Task!LaneOf(h) /\ node'[h] = node[h]
      BY <1>4, <1>5, <1>8, <2>3
    <3>2. /\ Task!Held(l)[h] = IF Task!LaneOf(h) = l THEN node[h] ELSE << >>
          /\ Task!Held(l)'[h] = IF Task!LaneOf(h)' = l THEN node'[h] ELSE << >>
      BY <2>3, HeldParts, HeldPartsNext
    <3> QED BY <3>1, <3>2, Zenon
  <2> QED BY <1>8, <2>1, <2>2, <2>3, HoldersAre
<1>9. Task!Numbered' /\ Task!NodesOnce' /\ Task!NoneLost'
  <2>1. -2 \in Task!Holders /\ w \in Task!Holders /\ w # -2 /\ -2 # Task!InQueue
    BY HoldersAre
  <2>2. Len(s) = x /\ Len(t) = y
    BY DEF x, y
  <2>3. Gives(Task!Holders, Task!Held(l), Task!Held(l)', w, -2, x, y, 1)
    BY <1>3, <1>6, <1>8, <2>1, <2>2 DEF Gives
  <2> QED BY <1>0, <1>7, <2>1, <2>3, NodesChangeHands
<1>10. Task!InOrder'
  <2> SUFFICES ASSUME multi, NEW v \in Task!PoolThreads
               PROVE  /\ \A i, j \in 1 .. Len(served'[v]) : i < j => served'[v][i] < served'[v][j]
                      /\ \A i, j \in 1 .. Len(node'[v]) : i < j => node'[v][i] < node'[v][j]
                      /\ \A i \in 1 .. Len(served'[v]), j \in 1 .. Len(node'[v]) :
                            served'[v][i] < node'[v][j]
    BY Zenon DEF Task!InOrder
  <2>1. /\ \A i, j \in 1 .. Len(served[v]) : i < j => served[v][i] < served[v][j]
        /\ \A i, j \in 1 .. Len(node[v]) : i < j => node[v][i] < node[v][j]
        /\ \A i \in 1 .. Len(served[v]), j \in 1 .. Len(node[v]) : served[v][i] < node[v][j]
    BY DEF Task!IInv, Task!InOrder
  <2>0. w = l /\ v \in Task!Lanes
    BY <1>5, LanesAre
  <2>2. CASE v # w
    <3>1. node'[v] = node[v] /\ served'[v] = served[v]
      BY <1>4, <2>0, <2>2
    <3> QED BY <2>1, <3>1, Zenon
  <2>3. CASE v = w
    <3>1. v = l /\ served[v] = t /\ node[v] = s
      BY <2>0, <2>3 DEF s, t
    <3>2. served'[v] = Append(t, Head(s)) /\ node'[v] = Tail(s)
      BY <1>4, <2>3, <3>1, Zenon
    <3>3. /\ \A i, j \in 1 .. y : i < j => t[i] < t[j]
          /\ \A i, j \in 1 .. x : i < j => s[i] < s[j]
          /\ \A i \in 1 .. y, j \in 1 .. x : t[i] < s[j]
      BY <2>1, <3>1 DEF x, y
    <3>a. \A i \in 1 .. x - 1 : 1 + i \in 1 .. x /\ 1 \in 1 .. x /\ 1 < 1 + i
      BY <1>3
    <3>b. \A i, j \in 1 .. x - 1 : i < j => 1 + i < 1 + j
      BY <1>3
    <3>c. /\ \A i \in 1 .. y + 1 : i \in 1 .. y \/ i = y + 1
          /\ \A i \in 1 .. y : ~(y + 1 < i)
          /\ ~(y + 1 < y + 1) /\ 1 \in 1 .. x
      BY <1>3
    <3>d. Append(t, Head(s))[y + 1] = s[1]
      BY <1>3
    <3>4. \A i, j \in 1 .. x - 1 : i < j => Tail(s)[i] < Tail(s)[j]
      BY <1>3, <3>3, <3>a, <3>b
    <3>5. \A i, j \in 1 .. y + 1 : i < j => Append(t, Head(s))[i] < Append(t, Head(s))[j]
      <4> TAKE i, j \in 1 .. y + 1
      <4>1. CASE i \in 1 .. y /\ j \in 1 .. y
        BY <1>3, <3>3, <4>1
      <4>2. CASE i \in 1 .. y /\ j = y + 1
        BY <1>3, <3>3, <3>c, <3>d, <4>2
      <4> QED BY <3>c, <4>1, <4>2, Zenon
    <3>6. \A i \in 1 .. y + 1, j \in 1 .. x - 1 : Append(t, Head(s))[i] < Tail(s)[j]
      <4> TAKE i \in 1 .. y + 1, j \in 1 .. x - 1
      <4>1. Tail(s)[j] = s[1 + j] /\ 1 + j \in 1 .. x
        BY <1>3, <3>a
      <4>2. CASE i \in 1 .. y
        BY <1>3, <3>3, <4>1, <4>2
      <4>3. CASE i = y + 1
        BY <3>3, <3>a, <3>d, <4>1, <4>3, Zenon
      <4> QED BY <3>c, <4>2, <4>3, Zenon
    <3>7. Len(served'[v]) = y + 1 /\ Len(node'[v]) = x - 1
      BY <1>3, <3>2, Zenon
    <3> QED BY <3>2, <3>4, <3>5, <3>6, <3>7, Zenon
  <2> QED BY <2>2, <2>3, Zenon
<1> QED
  BY <1>4, <1>9, <1>10 DEF N

(* getq takes the first node of a lane.                                    *)
LEMMA PoolGets ==
    ASSUME Task!IInv, NEW l \in Task!Lanes, queue[l] # << >>,
           got' = [got EXCEPT ![l] = Append(@, Head(queue[l]))],
           queue' = [queue EXCEPT ![l] = Tail(@)],
           UNCHANGED <<node, served, put, close_pc, multi>>
    PROVE  /\ queue' \in [Task!Lanes -> Seq(Nat)] /\ got' \in [Task!Lanes -> Seq(Nat)]
           /\ Task!Numbered' /\ Task!NodesOnce' /\ Task!NoneLost' /\ Task!InOrder'
<1> DEFINE N == Nat
           s == queue[l]
           t == got[l]
           x == Len(s)
           y == Len(t)
<1>0. s \in Seq(N) /\ s # << >> /\ t \in Seq(N)
  BY PoolTypes
<1>1. got' = [got EXCEPT ![l] = Append(t, Head(s))] /\ queue' = [queue EXCEPT ![l] = Tail(s)]
  OBVIOUS
<1>2. queue \in [Task!Lanes -> Seq(N)] /\ got \in [Task!Lanes -> Seq(N)]
  BY Zenon DEF Task!IInv, Task!PoolTyped
<1> HIDE DEF N, s, t
<1>3. /\ x \in Nat /\ y \in Nat /\ 1 \in 0 .. x
      /\ Tail(s) \in Seq(N) /\ Append(t, Head(s)) \in Seq(N)
      /\ Len(Tail(s)) = x - 1 /\ Len(Append(t, Head(s))) = y + 1
      /\ \A i \in 1 .. x - 1 : Tail(s)[i] = s[1 + i]
      /\ \A i \in 1 .. y : Append(t, Head(s))[i] = t[i]
      /\ \A i \in 1 .. 1 : Append(t, Head(s))[y + i] = s[i]
  BY <1>0, OneMoves
<1> HIDE DEF x, y
<1>4. /\ queue' \in [Task!Lanes -> Seq(N)] /\ got' \in [Task!Lanes -> Seq(N)]
      /\ \A m \in Task!Lanes : m # l => queue'[m] = queue[m] /\ got'[m] = got[m]
      /\ queue'[l] = Tail(s) /\ got'[l] = Append(t, Head(s))
  BY <1>1, <1>2, <1>3
<1>5. \A v \in Task!PoolThreads : Task!LaneOf(v)' = Task!LaneOf(v)
  BY DEF Task!LaneOf
<1>6. /\ Task!Held(l)[Task!InQueue] = s /\ Task!Held(l)'[Task!InQueue] = Tail(s)
      /\ Task!Held(l)[-1] = t /\ Task!Held(l)'[-1] = Append(t, Head(s))
  <2>1. Task!Held(l)[Task!InQueue] = queue[l] /\ Task!Held(l)'[Task!InQueue] = queue'[l]
    BY HeldParts, HeldPartsNext
  <2>2. Task!Held(l)[-1] = got[l] /\ Task!Held(l)'[-1] = got'[l]
    BY HeldParts, HeldPartsNext
  <2> QED BY <1>4, <2>1, <2>2 DEF s, t
<1>7. ASSUME NEW m \in Task!Lanes, m # l PROVE Task!Held(m)' = Task!Held(m)
  <2>1. /\ queue'[m] = queue[m] /\ served'[m] = served[m] /\ got'[m] = got[m]
        /\ \A v \in Task!PoolThreads : Task!LaneOf(v)' = Task!LaneOf(v)
    BY <1>4, <1>5, <1>7
  <2>2. \A v \in Task!PoolThreads : Task!LaneOf(v) = m => node'[v] = node[v]
    OBVIOUS
  <2> QED BY <2>1, <2>2, HeldSame
<1>8. ASSUME NEW h \in Task!Holders, h # Task!InQueue, h # -1
      PROVE  Task!Held(l)'[h] = Task!Held(l)[h]
  <2>1. CASE h = -2
    BY <2>1, HeldParts, HeldPartsNext
  <2>2. CASE h \in Task!PoolThreads
    <3>1. Task!LaneOf(h)' = Task!LaneOf(h) /\ node'[h] = node[h]
      BY <1>5, <2>2
    <3>2. /\ Task!Held(l)[h] = IF Task!LaneOf(h) = l THEN node[h] ELSE << >>
          /\ Task!Held(l)'[h] = IF Task!LaneOf(h)' = l THEN node'[h] ELSE << >>
      BY <2>2, HeldParts, HeldPartsNext
    <3> QED BY <3>1, <3>2, Zenon
  <2> QED BY <1>8, <2>1, <2>2, HoldersAre
<1>9. Task!Numbered' /\ Task!NodesOnce' /\ Task!NoneLost'
  <2>1. -1 \in Task!Holders /\ Task!InQueue \in Task!Holders /\ -1 # Task!InQueue
    BY HoldersAre
  <2>2. Len(s) = x /\ Len(t) = y
    BY DEF x, y
  <2>3. Gives(Task!Holders, Task!Held(l), Task!Held(l)', Task!InQueue, -1, x, y, 1)
    BY <1>3, <1>6, <1>8, <2>1, <2>2 DEF Gives
  <2> QED BY <1>7, <2>1, <2>3, NodesChangeHands
<1>10. Task!InOrder'
  BY DEF Task!IInv, Task!InOrder
<1> QED
  BY <1>4, <1>9, <1>10 DEF N

(* push_back: a new node, the last of its lane.                            *)
LEMMA PoolGrows ==
    ASSUME Task!IInv, NEW l \in Task!Lanes,
           put' = [put EXCEPT ![l] = @ + 1],
           queue' = [queue EXCEPT ![l] = Append(@, put[l] + 1)],
           UNCHANGED <<node, served, got, close_pc, multi>>
    PROVE  /\ queue' \in [Task!Lanes -> Seq(Nat)] /\ put' \in [Task!Lanes -> Nat]
           /\ Task!Numbered' /\ Task!NodesOnce' /\ Task!NoneLost' /\ Task!InOrder'
<1> DEFINE N == Nat
           s == queue[l]
           x == Len(s)
           P == put[l]
           T == Task!TakenFrom(l)
           H == Task!Held(l)
           J == Task!Held(l)'
           new == P + 1
<1>0. s \in Seq(N) /\ x \in Nat /\ P \in Nat /\ x <= P /\ T = P - x /\ T \in Nat /\ new \in N
  BY PoolTypes
<1>1. put' = [put EXCEPT ![l] = new] /\ queue' = [queue EXCEPT ![l] = Append(s, new)]
  OBVIOUS
<1>2. queue \in [Task!Lanes -> Seq(N)] /\ put \in [Task!Lanes -> Nat]
  BY DEF Task!IInv, Task!PoolTyped
<1>a. /\ Len(s) = x /\ put[l] = P /\ H = Task!Held(l) /\ J = Task!Held(l)' /\ s = queue[l]
      /\ Task!TakenFrom(l) = T
  OBVIOUS
<1>b. new = P + 1 /\ new \in Nat
  BY <1>0
<1> HIDE DEF N, s, x, P, T, H, J, new
<1>3. /\ Append(s, new) \in Seq(N) /\ Len(Append(s, new)) = x + 1
      /\ \A i \in 1 .. x : Append(s, new)[i] = s[i]
      /\ Append(s, new)[x + 1] = new
  <2>1. /\ Append(s, new) \in Seq(N) /\ Len(Append(s, new)) = Len(s) + 1
        /\ \A i \in 1 .. Len(s) : Append(s, new)[i] = s[i]
        /\ Append(s, new)[Len(s) + 1] = new
    BY <1>0, AppendProperties
  <2> QED BY <1>a, <2>1
<1>4. /\ queue' \in [Task!Lanes -> Seq(N)] /\ put' \in [Task!Lanes -> Nat]
      /\ \A m \in Task!Lanes : m # l => queue'[m] = queue[m] /\ put'[m] = put[m]
      /\ queue'[l] = Append(s, new) /\ put'[l] = new
  BY <1>1, <1>2, <1>3, <1>b
<1>5. /\ \A v \in Task!PoolThreads : Task!LaneOf(v)' = Task!LaneOf(v)
      /\ Task!Lanes' = Task!Lanes
  BY DEF Task!LaneOf, Task!Lanes
<1>6. H[Task!InQueue] = s /\ J[Task!InQueue] = Append(s, new)
  <2>1. Task!Held(l)[Task!InQueue] = queue[l] /\ Task!Held(l)'[Task!InQueue] = queue'[l]
    BY HeldParts, HeldPartsNext
  <2> QED BY <1>4, <1>a, <2>1
<1>7. ASSUME NEW m \in Task!Lanes, m # l
      PROVE  Task!Held(m)' = Task!Held(m) /\ Task!TakenFrom(m)' = Task!TakenFrom(m)
  <2>1. /\ queue'[m] = queue[m] /\ served'[m] = served[m] /\ got'[m] = got[m]
        /\ \A v \in Task!PoolThreads : Task!LaneOf(v)' = Task!LaneOf(v)
    BY <1>4, <1>5, <1>7
  <2>2. \A v \in Task!PoolThreads : Task!LaneOf(v) = m => node'[v] = node[v]
    OBVIOUS
  <2>3. Task!TakenFrom(m)' = Task!TakenFrom(m)
    BY <1>4, <1>7 DEF Task!TakenFrom
  <2> QED BY <2>1, <2>2, <2>3, HeldSame
<1>8. ASSUME NEW h \in Task!Holders, h # Task!InQueue PROVE J[h] = H[h]
  <2>1. CASE h = -2 \/ h = -1
    BY <1>a, <2>1, HeldParts, HeldPartsNext
  <2>2. CASE h \in Task!PoolThreads
    <3>1. Task!LaneOf(h)' = Task!LaneOf(h) /\ node'[h] = node[h]
      BY <1>5, <2>2
    <3>2. /\ Task!Held(l)[h] = IF Task!LaneOf(h) = l THEN node[h] ELSE << >>
          /\ Task!Held(l)'[h] = IF Task!LaneOf(h)' = l THEN node'[h] ELSE << >>
      BY <2>2, HeldParts, HeldPartsNext
    <3> QED BY <1>a, <3>1, <3>2, Zenon
  <2> QED BY <1>8, <2>1, <2>2, HoldersAre
<1>9. Task!TakenFrom(l)' = T
  <2>1. Task!TakenFrom(l)' = new - (x + 1)
    BY <1>3, <1>4 DEF Task!TakenFrom
  <2>2. (P + 1) - (x + 1) = P - x
    BY <1>0
  <2> QED BY <1>0, <1>b, <2>1, <2>2
<1>10. /\ \A i \in 1 .. x : s[i] = T + i
       /\ \A h \in Task!Holders \ {Task!InQueue} : \A i \in 1 .. Len(H[h]) : H[h][i] \in 1 .. T
  <2>1. /\ \A i \in 1 .. Len(queue[l]) : queue[l][i] = Task!TakenFrom(l) + i
        /\ \A h \in Task!Holders \ {Task!InQueue} : \A i \in 1 .. Len(Task!Held(l)[h]) :
              Task!Held(l)[h][i] \in 1 .. Task!TakenFrom(l)
    BY DEF Task!IInv, Task!Numbered
  <2> QED BY <1>a, <2>1
<1>11. \A h \in Task!Holders : \A i \in 1 .. Len(H[h]) : H[h][i] \in 1 .. P
  <2>1. \A k \in 1 .. T : k \in 1 .. P
    BY <1>0
  <2>2. \A i \in 1 .. x : T + i \in 1 .. P
    BY <1>0
  <2>3. Len(H[Task!InQueue]) = x /\ \A i \in 1 .. x : H[Task!InQueue][i] \in 1 .. P
    BY <1>6, <1>10, <1>a, <2>2
  <2>4. ASSUME NEW h \in Task!Holders, h # Task!InQueue, NEW i \in 1 .. Len(H[h])
        PROVE  H[h][i] \in 1 .. P
    BY <1>10, <2>1, <2>4
  <2> QED BY <2>3, <2>4
<1>12. ASSUME NEW h \in Task!Holders, NEW i \in 1 .. Len(J[h])
       PROVE  \/ i \in 1 .. Len(H[h]) /\ J[h][i] = H[h][i]
              \/ h = Task!InQueue /\ i = x + 1 /\ J[h][i] = new
  <2>1. CASE h = Task!InQueue
    <3>1. i \in 1 .. x \/ i = x + 1
      BY <1>0, <1>3, <1>6, <1>12, <2>1
    <3> QED BY <1>3, <1>6, <1>a, <2>1, <3>1, Zenon
  <2>2. CASE h # Task!InQueue
    BY <1>8, <1>12, <2>2
  <2> QED BY <2>1, <2>2
<1>13. Task!NodesOnce'
  <2>1. ASSUME NEW m \in Task!Lanes PROVE EachOnce(Task!Holders, Task!Held(m)')
    <3>1. EachOnce(Task!Holders, Task!Held(m))
      BY DEF Task!IInv, Task!NodesOnce, EachOnce
    <3>2. CASE m # l
      <4>1. Task!Held(m)' = Task!Held(m)
        BY <1>7, <3>2
      <4> QED BY <3>1, <4>1
    <3>3. CASE m = l
      <4>1. EachOnce(Task!Holders, H)
        BY <1>a, <3>1, <3>3
      <4>2. new \notin 1 .. P
        BY <1>0, <1>b
      <4>3. EachOnce(Task!Holders, J)
        <5> SUFFICES ASSUME NEW g \in Task!Holders, NEW h \in Task!Holders,
                            NEW i \in 1 .. Len(J[g]), NEW j \in 1 .. Len(J[h]),
                            J[g][i] = J[h][j]
                     PROVE  g = h /\ i = j
          BY DEF EachOnce
        <5>1. \/ i \in 1 .. Len(H[g]) /\ J[g][i] = H[g][i]
              \/ g = Task!InQueue /\ i = x + 1 /\ J[g][i] = new
          BY <1>12
        <5>2. \/ j \in 1 .. Len(H[h]) /\ J[h][j] = H[h][j]
              \/ h = Task!InQueue /\ j = x + 1 /\ J[h][j] = new
          BY <1>12
        <5>3. CASE /\ i \in 1 .. Len(H[g]) /\ J[g][i] = H[g][i]
                   /\ j \in 1 .. Len(H[h]) /\ J[h][j] = H[h][j]
          <6>1. H[g][i] = H[h][j]
            BY <5>3, Zenon
          <6> QED BY <4>1, <5>3, <6>1 DEF EachOnce
        <5>4. /\ i \in 1 .. Len(H[g]) => H[g][i] # new
              /\ j \in 1 .. Len(H[h]) => H[h][j] # new
          BY <1>11, <4>2, Zenon
        <5> QED BY <5>1, <5>2, <5>3, <5>4
      <4> QED BY <1>a, <3>3, <4>3
    <3> QED BY <3>2, <3>3
  <2> QED BY <1>5, <2>1 DEF EachOnce, Task!NodesOnce
<1>14. Task!NoneLost'
  <2> SUFFICES ASSUME close_pc = "open", NEW m \in Task!Lanes, NEW k \in 1 .. put'[m]
               PROVE  \E h \in Task!Holders : \E i \in 1 .. Len(Task!Held(m)'[h]) :
                          Task!Held(m)'[h][i] = k
    BY <1>5 DEF Task!NoneLost, Task!In
  <2>1. \A j \in 1 .. put[m] :
           \E h \in Task!Holders : \E i \in 1 .. Len(Task!Held(m)[h]) : Task!Held(m)[h][i] = j
    BY DEF Task!IInv, Task!NoneLost, Task!In
  <2>2. CASE m # l
    <3>1. put'[m] = put[m] /\ Task!Held(m)' = Task!Held(m)
      BY <1>4, <1>7, <2>2
    <3>2. k \in 1 .. put[m]
      BY <3>1
    <3> QED BY <2>1, <3>1, <3>2
  <2>3. CASE m = l
    <3>1. k \in 1 .. P \/ k = new
      BY <1>0, <1>4, <1>b, <2>3
    <3>2. CASE k \in 1 .. P
      <4>1. PICK h \in Task!Holders : \E i \in 1 .. Len(H[h]) : H[h][i] = k
        BY <1>a, <2>1, <2>3, <3>2
      <4>2. PICK i \in 1 .. Len(H[h]) : H[h][i] = k
        BY <4>1
      <4>3. i \in 1 .. Len(J[h]) /\ J[h][i] = H[h][i]
        <5>1. CASE h = Task!InQueue
          <6>1. i \in 1 .. x /\ i \in 1 .. x + 1
            BY <1>0, <1>6, <1>a, <4>2, <5>1
          <6> QED BY <1>3, <1>6, <5>1, <6>1, Zenon
        <5>2. CASE h # Task!InQueue
          BY <1>8, <4>2, <5>2
        <5> QED BY <5>1, <5>2
      <4> QED BY <1>a, <2>3, <4>2, <4>3
    <3>3. CASE k = new
      <4>1. x + 1 \in 1 .. x + 1 /\ Task!InQueue \in Task!Holders
        BY <1>0, HoldersAre
      <4> QED BY <1>3, <1>6, <1>a, <2>3, <3>3, <4>1
    <3> QED BY <3>1, <3>2, <3>3
  <2> QED BY <2>2, <2>3
<1>15. Task!Numbered'
  <2> SUFFICES ASSUME NEW m \in Task!Lanes
               PROVE  /\ Len(queue'[m]) <= put'[m]
                      /\ \A i \in 1 .. Len(queue'[m]) : queue'[m][i] = Task!TakenFrom(m)' + i
                      /\ \A h \in Task!Holders \ {Task!InQueue} :
                            \A i \in 1 .. Len(Task!Held(m)'[h]) :
                               Task!Held(m)'[h][i] \in 1 .. Task!TakenFrom(m)'
    BY <1>5 DEF Task!Numbered
  <2>1. CASE m # l
    <3>1. /\ Len(queue[m]) <= put[m]
          /\ \A i \in 1 .. Len(queue[m]) : queue[m][i] = Task!TakenFrom(m) + i
          /\ \A h \in Task!Holders \ {Task!InQueue} : \A i \in 1 .. Len(Task!Held(m)[h]) :
                Task!Held(m)[h][i] \in 1 .. Task!TakenFrom(m)
      BY DEF Task!IInv, Task!Numbered
    <3>2. /\ queue'[m] = queue[m] /\ put'[m] = put[m] /\ Task!Held(m)' = Task!Held(m)
          /\ Task!TakenFrom(m)' = Task!TakenFrom(m)
      BY <1>4, <1>7, <2>1
    <3> QED BY <3>1, <3>2, Zenon
  <2>2. CASE m = l
    <3>1. x + 1 <= new /\ T + (x + 1) = new
      BY <1>0, <1>b
    <3>2. \A i \in 1 .. x + 1 : i \in 1 .. x \/ i = x + 1
      BY <1>0
    <3>3. \A i \in 1 .. x + 1 : Append(s, new)[i] = T + i
      BY <1>3, <1>10, <3>1, <3>2
    <3>4. \A h \in Task!Holders \ {Task!InQueue} : \A i \in 1 .. Len(J[h]) : J[h][i] \in 1 .. T
      BY <1>8, <1>10
    <3> QED BY <1>3, <1>4, <1>9, <1>a, <2>2, <3>1, <3>3, <3>4
  <2> QED BY <2>1, <2>2
<1>16. Task!InOrder'
  BY DEF Task!IInv, Task!InOrder
<1> QED
  BY <1>4, <1>13, <1>14, <1>15, <1>16 DEF N

(* close clears a queue.                                                   *)
LEMMA PoolClears ==
    ASSUME Task!IInv, NEW l \in Task!Lanes, queue' = [queue EXCEPT ![l] = << >>],
           close_pc' # "open", UNCHANGED <<node, served, got, put, multi>>
    PROVE  /\ queue' \in [Task!Lanes -> Seq(Nat)]
           /\ Task!Numbered' /\ Task!NodesOnce' /\ Task!NoneLost' /\ Task!InOrder'
<1>1. queue \in [Task!Lanes -> Seq(Nat)]
  BY DEF Task!IInv, Task!PoolTyped
<1>2. /\ queue' \in [Task!Lanes -> Seq(Nat)] /\ queue'[l] = << >>
      /\ \A m \in Task!Lanes : m # l => queue'[m] = queue[m]
  BY <1>1
<1>3. /\ \A v \in Task!PoolThreads : Task!LaneOf(v)' = Task!LaneOf(v)
      /\ Task!Lanes' = Task!Lanes
  BY DEF Task!LaneOf, Task!Lanes
<1>4. ASSUME NEW m \in Task!Lanes, m # l
      PROVE  Task!Held(m)' = Task!Held(m) /\ Task!TakenFrom(m)' = Task!TakenFrom(m)
  <2>1. /\ queue'[m] = queue[m] /\ served'[m] = served[m] /\ got'[m] = got[m]
        /\ \A v \in Task!PoolThreads : Task!LaneOf(v)' = Task!LaneOf(v)
    BY <1>2, <1>3, <1>4
  <2>2. \A v \in Task!PoolThreads : Task!LaneOf(v) = m => node'[v] = node[v]
    OBVIOUS
  <2>3. Task!TakenFrom(m)' = Task!TakenFrom(m)
    BY <2>1 DEF Task!TakenFrom
  <2> QED BY <2>1, <2>2, <2>3, HeldSame
<1>5. ASSUME NEW h \in Task!Holders, h # Task!InQueue
      PROVE  Task!Held(l)'[h] = Task!Held(l)[h]
  <2>1. CASE h = -2 \/ h = -1
    BY <2>1, HeldParts, HeldPartsNext
  <2>2. CASE h \in Task!PoolThreads
    <3>1. Task!LaneOf(h)' = Task!LaneOf(h) /\ node'[h] = node[h]
      BY <1>3, <2>2
    <3>2. /\ Task!Held(l)[h] = IF Task!LaneOf(h) = l THEN node[h] ELSE << >>
          /\ Task!Held(l)'[h] = IF Task!LaneOf(h)' = l THEN node'[h] ELSE << >>
      BY <2>2, HeldParts, HeldPartsNext
    <3> QED BY <3>1, <3>2, Zenon
  <2> QED BY <1>5, <2>1, <2>2, HoldersAre
<1>6. Len(Task!Held(l)'[Task!InQueue]) = 0
  BY <1>2, HeldPartsNext
<1>7. Task!NodesOnce'
  <2>1. ASSUME NEW m \in Task!Lanes PROVE EachOnce(Task!Holders, Task!Held(m)')
    <3>1. EachOnce(Task!Holders, Task!Held(m))
      BY DEF Task!IInv, Task!NodesOnce, EachOnce
    <3>2. CASE m # l
      <4>1. Task!Held(m)' = Task!Held(m)
        BY <1>4, <3>2
      <4> QED BY <3>1, <4>1
    <3>3. CASE m = l
      <4> DEFINE H == Task!Held(l)
                 J == Task!Held(l)'
      <4>1. /\ EachOnce(Task!Holders, H) /\ Len(J[Task!InQueue]) = 0
            /\ \A h \in Task!Holders : h # Task!InQueue => J[h] = H[h]
        BY <1>5, <1>6, <3>1, <3>3
      <4>2. J = Task!Held(m)'
        BY <3>3
      <4> HIDE DEF H, J
      <4>3. \A i \in 1 .. 0 : FALSE
        OBVIOUS
      <4>4. EachOnce(Task!Holders, J)
        BY <4>1, <4>3 DEF EachOnce
      <4> QED BY <4>2, <4>4
    <3> QED BY <3>2, <3>3
  <2> QED BY <1>3, <2>1 DEF EachOnce, Task!NodesOnce
<1>8. Task!NoneLost'
  BY DEF Task!NoneLost
<1>9. Task!Numbered'
  <2> SUFFICES ASSUME NEW m \in Task!Lanes
               PROVE  /\ Len(queue'[m]) <= put[m]
                      /\ \A i \in 1 .. Len(queue'[m]) : queue'[m][i] = Task!TakenFrom(m)' + i
                      /\ \A h \in Task!Holders \ {Task!InQueue} :
                            \A i \in 1 .. Len(Task!Held(m)'[h]) :
                               Task!Held(m)'[h][i] \in 1 .. Task!TakenFrom(m)'
    BY <1>3 DEF Task!Numbered
  <2>1. /\ Len(queue[m]) <= put[m]
        /\ \A i \in 1 .. Len(queue[m]) : queue[m][i] = Task!TakenFrom(m) + i
        /\ \A h \in Task!Holders \ {Task!InQueue} : \A i \in 1 .. Len(Task!Held(m)[h]) :
              Task!Held(m)[h][i] \in 1 .. Task!TakenFrom(m)
    BY DEF Task!IInv, Task!Numbered
  <2>2. CASE m # l
    <3>1. /\ queue'[m] = queue[m] /\ Task!Held(m)' = Task!Held(m)
          /\ Task!TakenFrom(m)' = Task!TakenFrom(m)
      BY <1>2, <1>4, <2>2
    <3> QED BY <2>1, <3>1
  <2>3. CASE m = l
    <3>1. /\ put[m] \in Nat /\ Len(queue[m]) \in Nat
          /\ Task!TakenFrom(m) = put[m] - Len(queue[m])
      BY PoolTypes
    <3>2. Len(queue'[m]) = 0 /\ Task!TakenFrom(m)' = put[m]
      <4>1. Len(queue'[m]) = 0
        BY <1>2, <2>3
      <4>2. put[m] - 0 = put[m]
        BY <3>1
      <4> QED BY <4>1, <4>2 DEF Task!TakenFrom
    <3>3. \A k \in 1 .. Task!TakenFrom(m) : k \in 1 .. put[m]
      BY <3>1
    <3>4. ASSUME NEW h \in Task!Holders \ {Task!InQueue}, NEW i \in 1 .. Len(Task!Held(m)'[h])
          PROVE  Task!Held(m)'[h][i] \in 1 .. put[m]
      <4>1. Task!Held(m)'[h] = Task!Held(m)[h]
        BY <1>5, <2>3
      <4> QED BY <2>1, <3>3, <4>1
    <3>5. 0 <= put[m] /\ \A i \in 1 .. 0 : FALSE
      BY <3>1
    <3> QED BY <3>2, <3>4, <3>5
  <2> QED BY <2>2, <2>3
<1>10. Task!InOrder'
  BY DEF Task!IInv, Task!InOrder
<1> QED
  BY <1>2, <1>7, <1>8, <1>9, <1>10

(* A step that is not putq's.                                              *)
LEMMA PutSideStays ==
    ASSUME Task!IInv, UNCHANGED <<put_pc, scan, lane, next_index, multi>>
    PROVE  Task!LanesChosen'
<1>1. /\ Task!Lanes' = Task!Lanes /\ Task!Assigning' = Task!Assigning
      /\ Task!PoolThreads' = Task!PoolThreads
  BY DEF Task!Lanes, Task!Assigning
<1> QED
  BY <1>1 DEF Task!IInv, Task!LanesChosen

(* A step of a thread, or of close, that leaves the nodes alone.           *)
LEMMA ControlMoves ==
    ASSUME Task!IInv, UNCHANGED <<queue, node, served, got, put, semaphore, multi>>,
           close_pc' \in {"open", "stop", "wake", "join", "closed"},
           close_pc' = "open" => close_pc = "open", closing_lane' \in Task!Lanes,
           tpc' \in [Task!PoolThreads -> {"loop", "acquire", "pop", "serve", "wait", "blocked",
                                          "woken", "exited"}],
           \A w \in Task!PoolThreads : tpc'[w] # "serve" => node[w] = << >>
    PROVE  /\ Task!PoolTyped' /\ Task!Numbered' /\ Task!NodesOnce' /\ Task!NoneLost'
           /\ Task!InOrder'
<1>1. Task!Lanes' = Task!Lanes
  BY DEF Task!Lanes
<1>2. Task!PoolTyped'
  BY <1>1 DEF Task!IInv, Task!PoolTyped
<1> QED
  BY <1>2, NodesStay

LEMMA ThreadGoes ==
    ASSUME Task!IInv, NEW w \in Task!PoolThreads, NEW e,
           e \in {"loop", "acquire", "pop", "serve", "wait", "blocked", "woken", "exited"},
           Task!Goto(w, e)
    PROVE  /\ tpc' \in [Task!PoolThreads -> {"loop", "acquire", "pop", "serve", "wait",
                                             "blocked", "woken", "exited"}]
           /\ tpc'[w] = e /\ \A v \in Task!PoolThreads : v # w => tpc'[v] = tpc[v]
BY DEF Task!IInv, Task!PoolTyped, Task!Goto

(* Loop, Acquire, Wait, WaitFlagged, and leaving.                          *)
LEMMA ThreadOnly ==
    ASSUME Task!IInv, NEW w \in Task!PoolThreads, NEW e,
           e \in {"loop", "acquire", "pop", "wait", "blocked", "woken", "exited"},
           Task!Goto(w, e), node[w] = << >>,
           UNCHANGED <<queue, node, served, got, put, semaphore, multi, put_pc, scan, lane,
                       next_index, close_pc, closing_lane>>
    PROVE  Task!IInv'
<1>1. /\ tpc' \in [Task!PoolThreads -> {"loop", "acquire", "pop", "serve", "wait",
                                        "blocked", "woken", "exited"}]
      /\ \A v \in Task!PoolThreads : v # w => tpc'[v] = tpc[v]
  BY ThreadGoes
<1>2. \A v \in Task!PoolThreads : tpc'[v] # "serve" => node[v] = << >>
  BY <1>1 DEF Task!IInv, Task!PoolTyped
<1>3. /\ close_pc' \in {"open", "stop", "wake", "join", "closed"}
      /\ close_pc' = "open" => close_pc = "open"
      /\ closing_lane' \in Task!Lanes
  BY DEF Task!IInv, Task!PoolTyped
<1>4. /\ Task!PoolTyped' /\ Task!Numbered' /\ Task!NodesOnce' /\ Task!NoneLost'
      /\ Task!InOrder'
  BY <1>1, <1>2, <1>3, ControlMoves
<1> QED
  BY <1>4, PutSideStays DEF Task!IInv

(* PopBatch, LockAndPop, and a thread that was woken.                      *)
LEMMA ThreadPops ==
    ASSUME Task!IInv, NEW w \in Task!PoolThreads, NEW e, tpc[w] # "serve",
           e = "serve" \/ (e = "wait" /\ queue[Task!LaneOf(w)] = << >>),
           Task!Goto(w, e), Task!PopFront(w),
           UNCHANGED <<served, got, put, semaphore, multi, put_pc, scan, lane, next_index,
                       close_pc, closing_lane>>
    PROVE  Task!IInv'
<1>1. /\ tpc' \in [Task!PoolThreads -> {"loop", "acquire", "pop", "serve", "wait",
                                        "blocked", "woken", "exited"}]
      /\ tpc'[w] = e /\ \A v \in Task!PoolThreads : v # w => tpc'[v] = tpc[v]
  BY ThreadGoes
<1>2. /\ queue' \in [Task!Lanes -> Seq(Nat)] /\ node' \in [Task!PoolThreads -> Seq(Nat)]
      /\ \A v \in Task!PoolThreads : v # w => node'[v] = node[v]
      /\ queue[Task!LaneOf(w)] = << >> => node'[w] = << >>
      /\ Task!Numbered' /\ Task!NodesOnce' /\ Task!NoneLost' /\ Task!InOrder'
  BY PoolPops
<1>3. Task!Lanes' = Task!Lanes
  BY DEF Task!Lanes
<1>4. \A v \in Task!PoolThreads : tpc'[v] # "serve" => node'[v] = << >>
  BY <1>1, <1>2, Zenon DEF Task!IInv, Task!PoolTyped
<1>5. Task!PoolTyped'
  BY <1>1, <1>2, <1>3, <1>4, Zenon DEF Task!IInv, Task!PoolTyped
<1> QED
  BY <1>2, <1>5, PutSideStays DEF Task!IInv

LEMMA ThreadServes ==
    ASSUME Task!IInv, NEW w \in Task!PoolThreads, Task!Serve(w), UNCHANGED <<semaphore, multi>>
    PROVE  Task!IInv'
<1>1. /\ tpc[w] = "serve"
      /\ UNCHANGED <<queue, got, put, put_pc, scan, lane, next_index, close_pc, closing_lane>>
  BY DEF Task!Serve, Task!putVars, Task!closeVars
<1>2. CASE node[w] = << >> /\ Task!Goto(w, "loop") /\ UNCHANGED <<node, served>>
  BY <1>1, <1>2, ThreadOnly
<1>3. CASE /\ node[w] # << >>
           /\ served' = [served EXCEPT ![Task!LaneOf(w)] = Append(@, Head(node[w]))]
           /\ node' = [node EXCEPT ![w] = Tail(@)]
           /\ UNCHANGED tpc
  <2>1. /\ served' \in [Task!Lanes -> Seq(Nat)] /\ node' \in [Task!PoolThreads -> Seq(Nat)]
        /\ \A v \in Task!PoolThreads : v # w => node'[v] = node[v]
        /\ Task!Numbered' /\ Task!NodesOnce' /\ Task!NoneLost' /\ Task!InOrder'
    BY <1>1, <1>3, PoolServes, Zenon
  <2>2. Task!Lanes' = Task!Lanes
    BY <1>3 DEF Task!Lanes
  <2>3. \A v \in Task!PoolThreads : tpc'[v] # "serve" => node'[v] = << >>
    BY <1>1, <1>3, <2>1 DEF Task!IInv, Task!PoolTyped
  <2>4. Task!PoolTyped'
    BY <1>1, <1>3, <2>1, <2>2, <2>3, Zenon DEF Task!IInv, Task!PoolTyped
  <2> QED BY <1>1, <2>1, <2>4, PutSideStays DEF Task!IInv
<1> QED
  BY <1>2, <1>3 DEF Task!Serve

(* svc_run.                                                                *)
LEMMA TaskWorker ==
    ASSUME Task!IInv, NEW w \in Task!PoolThreads, Task!WorkerStep(w)
    PROVE  Task!IInv'
<1>0. UNCHANGED <<semaphore, multi>>
  BY DEF Task!WorkerStep, Task!classVars
<1>a. tpc[w] # "serve" => node[w] = << >>
  BY DEF Task!IInv, Task!PoolTyped
<1>1. CASE Task!Loop(w)
  <2> DEFINE e == IF running[Task!LaneOf(w)] THEN "acquire" ELSE "exited"
  <2>1. /\ Task!Goto(w, e) /\ tpc[w] = "loop"
        /\ UNCHANGED <<queue, node, served, got, put, put_pc, scan, lane,
                       next_index, close_pc, closing_lane>>
    BY <1>1 DEF Task!Loop, Task!putVars, Task!closeVars
  <2>2. e \in {"acquire", "exited"}
    OBVIOUS
  <2> HIDE DEF e
  <2> QED BY <1>0, <1>a, <2>1, <2>2, ThreadOnly
<1>2. CASE Task!Acquire(w)
  <2>1. /\ Task!Goto(w, "pop") /\ tpc[w] = "acquire"
        /\ UNCHANGED <<queue, node, served, got, put, put_pc, scan, lane,
                       next_index, close_pc, closing_lane>>
    BY <1>2 DEF Task!Acquire, Task!putVars, Task!closeVars
  <2> QED BY <1>0, <1>a, <2>1, ThreadOnly
<1>3. CASE Task!PopBatch(w)
  <2>1. /\ Task!Goto(w, "serve") /\ tpc[w] = "pop" /\ Task!PopFront(w)
        /\ UNCHANGED <<served, got, put, put_pc, scan, lane, next_index, close_pc,
                       closing_lane>>
    BY <1>3 DEF Task!PopBatch, Task!putVars, Task!closeVars
  <2> QED BY <1>0, <2>1, ThreadPops
<1>4. CASE Task!LockAndPop(w)
  <2> DEFINE e == IF queue[Task!LaneOf(w)] = << >> THEN "wait" ELSE "serve"
  <2>1. /\ Task!Goto(w, e) /\ tpc[w] = "acquire" /\ Task!PopFront(w)
        /\ UNCHANGED <<served, got, put, put_pc, scan, lane, next_index, close_pc,
                       closing_lane>>
    BY <1>4 DEF Task!LockAndPop, Task!putVars, Task!closeVars
  <2>2. e = "serve" \/ (e = "wait" /\ queue[Task!LaneOf(w)] = << >>)
    OBVIOUS
  <2> HIDE DEF e
  <2> QED BY <1>0, <2>1, <2>2, ThreadPops
<1>5. CASE Task!Wait(w) \/ Task!WaitFlagged(w)
  <2>1. /\ Task!Goto(w, "blocked") /\ tpc[w] = "wait"
        /\ UNCHANGED <<queue, node, served, got, put, put_pc, scan, lane,
                       next_index, close_pc, closing_lane>>
    BY <1>5 DEF Task!Wait, Task!WaitFlagged, Task!putVars, Task!closeVars
  <2> QED BY <1>0, <1>a, <2>1, ThreadOnly
<1>6. CASE Task!Woken(w) \/ Task!WokenFlagged(w)
  <2>1. /\ Task!PopAgain(w) /\ tpc[w] = "woken"
        /\ UNCHANGED <<served, got, put, put_pc, scan, lane, next_index, close_pc,
                       closing_lane>>
    BY <1>6 DEF Task!Woken, Task!WokenFlagged, Task!putVars, Task!closeVars
  <2>2. CASE Task!Goto(w, "exited") /\ UNCHANGED <<queue, node>>
    BY <1>0, <1>a, <2>1, <2>2, ThreadOnly
  <2>3. CASE /\ Task!PopFront(w)
             /\ Task!Goto(w, IF queue[Task!LaneOf(w)] = << >> THEN "wait" ELSE "serve")
    <3> DEFINE e == IF queue[Task!LaneOf(w)] = << >> THEN "wait" ELSE "serve"
    <3>1. Task!Goto(w, e)
      BY <2>3
    <3>2. e = "serve" \/ (e = "wait" /\ queue[Task!LaneOf(w)] = << >>)
      OBVIOUS
    <3> HIDE DEF e
    <3> QED BY <1>0, <2>1, <2>3, <3>1, <3>2, ThreadPops
  <2> QED BY <2>1, <2>2, <2>3 DEF Task!PopAgain
<1>7. CASE Task!Serve(w)
  BY <1>0, <1>7, ThreadServes
<1> QED
  BY <1>1, <1>2, <1>3, <1>4, <1>5, <1>6, <1>7 DEF Task!WorkerStep

LEMMA SignalWakes ==
    ASSUME Task!IInv, NEW l, Task!SignalOne(l)
    PROVE  /\ tpc' \in [Task!PoolThreads -> {"loop", "acquire", "pop", "serve", "wait",
                                             "blocked", "woken", "exited"}]
           /\ \A w \in Task!PoolThreads : tpc'[w] # "serve" => node[w] = << >>
<1>1. CASE \E w \in Task!ThreadsOf(l) : tpc[w] = "blocked" /\ Task!Goto(w, "woken")
  <2>1. PICK w \in Task!PoolThreads : tpc[w] = "blocked" /\ Task!Goto(w, "woken")
    BY <1>1 DEF Task!ThreadsOf
  <2>2. /\ tpc' \in [Task!PoolThreads -> {"loop", "acquire", "pop", "serve", "wait",
                                          "blocked", "woken", "exited"}]
        /\ \A v \in Task!PoolThreads : v # w => tpc'[v] = tpc[v]
    BY <2>1, ThreadGoes
  <2> QED BY <2>1, <2>2 DEF Task!IInv, Task!PoolTyped
<1>2. CASE UNCHANGED tpc
  BY <1>2 DEF Task!IInv, Task!PoolTyped
<1> QED
  BY <1>1, <1>2 DEF Task!SignalOne

(* The nodes stay and close does not move: what is left is putq's part.    *)
LEMMA PutLeaves ==
    ASSUME Task!IInv, UNCHANGED <<queue, node, served, got, put, semaphore, multi, close_pc,
                                  closing_lane>>,
           UNCHANGED tpc \/ \E l \in Nat : Task!SignalOne(l)
    PROVE  /\ Task!PoolTyped' /\ Task!Numbered' /\ Task!NodesOnce' /\ Task!NoneLost'
           /\ Task!InOrder'
<1>1. /\ tpc' \in [Task!PoolThreads -> {"loop", "acquire", "pop", "serve", "wait",
                                        "blocked", "woken", "exited"}]
      /\ \A w \in Task!PoolThreads : tpc'[w] # "serve" => node[w] = << >>
  BY SignalWakes DEF Task!IInv, Task!PoolTyped
<1>2. /\ close_pc' \in {"open", "stop", "wake", "join", "closed"}
      /\ close_pc' = "open" => close_pc = "open"
      /\ closing_lane' \in Task!Lanes
  BY DEF Task!IInv, Task!PoolTyped
<1> QED
  BY <1>1, <1>2, ControlMoves

(* A caller of putq outside assign_thread of the class with a condition.   *)
LEMMA CallerGoes ==
    ASSUME Task!IInv, NEW p \in Producers, NEW e,
           e \in {"idle", "scan", "push", "flag", "clear", "wake"}, Task!PGoto(p, e),
           put_pc[p] \notin {"count", "wrap"}, UNCHANGED <<next_index, multi>>,
           lane' \in [Producers -> Nat], DOMAIN scan' = Producers,
           \A q \in Producers : q # p => lane'[q] = lane[q] /\ scan'[q] = scan[q],
           e \in {"push", "flag", "clear", "wake"} => lane'[p] \in Task!Lanes,
           e = "scan" => /\ multi /\ scan'[p][1] \in Task!PoolThreads
                         /\ scan'[p][2] \in Task!PoolThreads
    PROVE  Task!LanesChosen'
<1>1. /\ put_pc' = [put_pc EXCEPT ![p] = e]
      /\ put_pc \in [Producers -> {"idle", "scan", "count", "wrap", "push", "flag", "clear",
                                   "wake"}]
  BY DEF Task!IInv, Task!LanesChosen, Task!PGoto
<1>2. /\ put_pc' \in [Producers -> {"idle", "scan", "count", "wrap", "push", "flag", "clear",
                                    "wake"}]
      /\ put_pc'[p] = e /\ \A q \in Producers : q # p => put_pc'[q] = put_pc[q]
  BY <1>1
<1>3. Task!Lanes' = Task!Lanes /\ Task!Assigning' = Task!Assigning
  <2>1. Task!Lanes' = Task!Lanes
    BY DEF Task!Lanes
  <2> QED BY <1>2, <2>1 DEF Task!Assigning
<1>4. (\A q \in Producers : put_pc'[q] # "wrap") => next_index <= PoolSize
  <2>1. (\A q \in Producers : put_pc'[q] # "wrap") => \A q \in Producers : put_pc[q] # "wrap"
    BY <1>2
  <2> QED BY <2>1 DEF Task!IInv, Task!LanesChosen
<1>5. \A q \in Producers :
          /\ put_pc'[q] \in {"push", "flag", "clear", "wake"} => lane'[q] \in Task!Lanes
          /\ put_pc'[q] = "scan" => /\ multi /\ scan'[q][1] \in Task!PoolThreads
                                    /\ scan'[q][2] \in Task!PoolThreads
          /\ put_pc'[q] \in {"count", "wrap"} =>
                multi /\ PoolSize > 1 /\ Task!Assigning \subseteq {q}
          /\ put_pc'[q] = "count" => lane'[q] = next_index
          /\ put_pc'[q] = "wrap" => lane'[q] = PoolSize
  <2> TAKE q \in Producers
  <2>1. CASE q = p
    BY <1>2, <2>1
  <2>2. CASE q # p
    <3>1. put_pc'[q] = put_pc[q] /\ lane'[q] = lane[q] /\ scan'[q] = scan[q]
      BY <1>2, <2>2
    <3> QED BY <3>1 DEF Task!IInv, Task!LanesChosen
  <2> QED BY <2>1, <2>2
<1>6. next_index \in Nat
  BY DEF Task!IInv, Task!LanesChosen
<1> QED
  BY <1>2, <1>3, <1>4, <1>5, <1>6 DEF Task!LanesChosen

(* putq returns.                                                           *)
LEMMA CallerReturns ==
    ASSUME Task!IInv, NEW p \in Producers, Task!Return(p), put_pc[p] \notin {"count", "wrap"},
           UNCHANGED <<scan, next_index, multi>>
    PROVE  Task!LanesChosen'
<1>1. lane \in [Producers -> Nat] /\ DOMAIN scan = Producers
  BY DEF Task!IInv, Task!LanesChosen
<1>2. Task!PGoto(p, "idle") /\ lane' = [lane EXCEPT ![p] = 0]
  BY DEF Task!Return
<1> QED
  BY <1>1, <1>2, CallerGoes

(* assign_thread of the class with a condition, by one caller at a time.   *)
LEMMA CallerCounts ==
    ASSUME OneAssigner, Task!IInv, NEW p \in Producers, UNCHANGED <<scan, multi>>,
           Task!LoadNext(p) \/ Task!CountNext(p) \/ Task!WrapNext(p)
    PROVE  Task!LanesChosen'
<1> USE DEF Task!PGoto
<1>0. /\ put_pc \in [Producers -> {"idle", "scan", "count", "wrap", "push", "flag", "clear",
                                   "wake"}]
      /\ lane \in [Producers -> Nat] /\ DOMAIN scan = Producers /\ next_index \in Nat
      /\ PoolSize \in Nat
  BY PoolAssumption DEF Task!IInv, Task!LanesChosen, Task!TaskAssumption
<1>1. Task!Lanes' = Task!Lanes
  BY DEF Task!Lanes
<1>2. ASSUME NEW q \in Producers
      PROVE  /\ put_pc[q] \in {"push", "flag", "clear", "wake"} => lane[q] \in Task!Lanes
             /\ put_pc[q] = "scan" => /\ multi /\ scan[q][1] \in Task!PoolThreads
                                      /\ scan[q][2] \in Task!PoolThreads
             /\ put_pc[q] \in {"count", "wrap"} =>
                   multi /\ PoolSize > 1 /\ Task!Assigning \subseteq {q}
             /\ put_pc[q] = "count" => lane[q] = next_index
             /\ put_pc[q] = "wrap" => lane[q] = PoolSize
  BY DEF Task!IInv, Task!LanesChosen
<1>3. (\A q \in Producers : put_pc[q] # "wrap") => next_index <= PoolSize
  BY DEF Task!IInv, Task!LanesChosen
<1>4. CASE Task!LoadNext(p)
  <2>1. /\ multi /\ PoolSize > 1 /\ Task!Assigning = {} /\ put_pc[p] = "idle"
        /\ put_pc' = [put_pc EXCEPT ![p] = "count"]
        /\ lane' = [lane EXCEPT ![p] = next_index] /\ next_index' = next_index
    BY <1>4 DEF Task!LoadNext, Task!EnterPut
  <2>2. \A q \in Producers : put_pc[q] \notin {"count", "wrap"}
    BY <2>1 DEF Task!Assigning
  <2>3. /\ put_pc' \in [Producers -> {"idle", "scan", "count", "wrap", "push", "flag", "clear",
                                      "wake"}]
        /\ lane' \in [Producers -> Nat]
        /\ put_pc'[p] = "count" /\ lane'[p] = next_index
        /\ \A q \in Producers : q # p => put_pc'[q] = put_pc[q] /\ lane'[q] = lane[q]
    BY <1>0, <2>1
  <2>4. Task!Assigning' \subseteq {p}
    BY <2>2, <2>3 DEF Task!Assigning
  <2>5. next_index <= PoolSize
    BY <1>3, <2>2
  <2> QED BY <1>0, <1>1, <1>2, <2>1, <2>2, <2>3, <2>4, <2>5 DEF Task!LanesChosen
<1>5. CASE Task!CountNext(p)
  <2> DEFINE e == IF lane[p] >= PoolSize THEN "wrap" ELSE "push"
  <2>1. /\ put_pc[p] = "count" /\ put_pc' = [put_pc EXCEPT ![p] = e]
        /\ next_index' = lane[p] + 1 /\ lane' = lane
    BY <1>5 DEF Task!CountNext
  <2>2. /\ multi /\ PoolSize > 1 /\ Task!Assigning \subseteq {p} /\ lane[p] = next_index
    BY <1>2, <2>1
  <2>3. \A q \in Producers : q # p => put_pc[q] \notin {"count", "wrap"}
    BY <2>2 DEF Task!Assigning
  <2>4. lane[p] \in Nat /\ lane[p] <= PoolSize
    BY <1>0, <1>3, <2>1, <2>2, <2>3
  <2>5. /\ put_pc' \in [Producers -> {"idle", "scan", "count", "wrap", "push", "flag", "clear",
                                      "wake"}]
        /\ put_pc'[p] = e
        /\ \A q \in Producers : q # p => put_pc'[q] = put_pc[q]
    BY <1>0, <2>1
  <2>6. Task!Assigning' \subseteq {p}
    BY <2>3, <2>5 DEF Task!Assigning
  <2>7. /\ e = "wrap" => lane[p] = PoolSize
        /\ e = "push" => lane[p] \in Task!Lanes /\ lane[p] + 1 <= PoolSize
        /\ e \in {"wrap", "push"} /\ lane[p] + 1 \in Nat
    <3>1. Task!Lanes = 0 .. PoolSize - 1
      BY <2>2 DEF Task!Lanes, Task!PoolThreads
    <3> QED BY <1>0, <2>4, <3>1
  <2> HIDE DEF e
  <2>8. (\A q \in Producers : put_pc'[q] # "wrap") => next_index' <= PoolSize
    BY <2>1, <2>5, <2>7
  <2>9. next_index' \in Nat
    BY <2>1, <2>7
  <2>10. \A q \in Producers :
            /\ put_pc'[q] \in {"push", "flag", "clear", "wake"} => lane'[q] \in Task!Lanes
            /\ put_pc'[q] = "scan" => /\ multi /\ scan[q][1] \in Task!PoolThreads
                                      /\ scan[q][2] \in Task!PoolThreads
            /\ put_pc'[q] \in {"count", "wrap"} =>
                  multi /\ PoolSize > 1 /\ Task!Assigning' \subseteq {q}
            /\ put_pc'[q] # "count"
            /\ put_pc'[q] = "wrap" => lane'[q] = PoolSize
    <3> TAKE q \in Producers
    <3>1. CASE q = p
      BY <2>1, <2>2, <2>5, <2>6, <2>7, <3>1
    <3>2. CASE q # p
      BY <1>2, <2>1, <2>3, <2>5, <3>2
    <3> QED BY <3>1, <3>2
  <2> QED BY <1>0, <1>1, <2>1, <2>5, <2>8, <2>9, <2>10 DEF Task!LanesChosen
<1>6. CASE Task!WrapNext(p)
  <2>1. /\ put_pc[p] = "wrap" /\ put_pc' = [put_pc EXCEPT ![p] = "push"]
        /\ lane' = [lane EXCEPT ![p] = @ - PoolSize]
        /\ next_index' = lane[p] - PoolSize + 1
    BY <1>6 DEF Task!WrapNext
  <2>2. /\ multi /\ PoolSize > 1 /\ Task!Assigning \subseteq {p} /\ lane[p] = PoolSize
    BY <1>2, <2>1
  <2>3. \A q \in Producers : q # p => put_pc[q] \notin {"count", "wrap"}
    BY <2>2 DEF Task!Assigning
  <2>4. lane[p] - PoolSize = 0 /\ next_index' = 1 /\ 1 <= PoolSize
    BY <1>0, <2>1, <2>2
  <2>5. /\ put_pc' \in [Producers -> {"idle", "scan", "count", "wrap", "push", "flag", "clear",
                                      "wake"}]
        /\ lane' \in [Producers -> Nat] /\ put_pc'[p] = "push" /\ lane'[p] = 0
        /\ \A q \in Producers : q # p => put_pc'[q] = put_pc[q] /\ lane'[q] = lane[q]
    BY <1>0, <2>1, <2>4
  <2>6. 0 \in Task!Lanes
    BY <2>2, LanesAre
  <2> QED BY <1>0, <1>1, <1>2, <2>3, <2>4, <2>5, <2>6 DEF Task!LanesChosen
<1> QED
  BY <1>4, <1>5, <1>6

LEMMA ReadsOn ==
    ASSUME Task!IInv, NEW p \in Producers, Task!ReadNext(p), UNCHANGED multi
    PROVE  Task!LanesChosen'
<1> DEFINE i == scan[p][1]
           n == Len(queue[i])
           best == IF n < scan[p][3] THEN <<i, n>> ELSE <<scan[p][2], scan[p][3]>>
<1>1. /\ put_pc[p] = "scan" /\ next_index' = next_index
      /\ multi /\ i \in Task!PoolThreads /\ scan[p][2] \in Task!PoolThreads
      /\ lane \in [Producers -> Nat] /\ DOMAIN scan = Producers
  BY DEF Task!ReadNext, Task!IInv, Task!LanesChosen
<1>2. best[1] \in Task!PoolThreads
  BY <1>1
<1>3. \/ /\ i + 1 < PoolSize
         /\ scan' = [scan EXCEPT ![p] = <<i + 1, best[1], best[2]>>]
         /\ UNCHANGED <<put_pc, lane>>
      \/ /\ lane' = [lane EXCEPT ![p] = best[1]]
         /\ scan' = [scan EXCEPT ![p] = << >>]
         /\ Task!PGoto(p, "push")
  BY DEF Task!ReadNext
<1>4. PoolSize \in Nat /\ Task!PoolThreads = 0 .. PoolSize - 1 /\ Task!Lanes = Task!PoolThreads
  BY <1>1, PoolAssumption, LanesAre DEF Task!TaskAssumption, Task!PoolThreads
<1> HIDE DEF i, best
<1>5. CASE /\ i + 1 < PoolSize
           /\ scan' = [scan EXCEPT ![p] = <<i + 1, best[1], best[2]>>]
           /\ UNCHANGED <<put_pc, lane>>
  <2>1. i + 1 \in Task!PoolThreads
    BY <1>1, <1>4, <1>5
  <2>2. /\ DOMAIN scan' = Producers /\ scan'[p] = <<i + 1, best[1], best[2]>>
        /\ \A q \in Producers : q # p => scan'[q] = scan[q]
    BY <1>1, <1>5
  <2>3. scan'[p][1] \in Task!PoolThreads /\ scan'[p][2] \in Task!PoolThreads
    BY <1>2, <2>1, <2>2
  <2>4. Task!PGoto(p, "scan")
    <3>1. put_pc \in [Producers -> {"idle", "scan", "count", "wrap", "push", "flag", "clear",
                                    "wake"}]
      BY DEF Task!IInv, Task!LanesChosen
    <3> QED BY <1>1, <1>5, <3>1 DEF Task!PGoto
  <2> QED BY <1>1, <1>5, <2>2, <2>3, <2>4, CallerGoes
<1>6. CASE /\ lane' = [lane EXCEPT ![p] = best[1]]
           /\ scan' = [scan EXCEPT ![p] = << >>]
           /\ Task!PGoto(p, "push")
  <2>1. best[1] \in Nat /\ best[1] \in Task!Lanes
    BY <1>2, <1>4
  <2>2. /\ lane' \in [Producers -> Nat] /\ lane'[p] = best[1] /\ DOMAIN scan' = Producers
        /\ \A q \in Producers : q # p => lane'[q] = lane[q] /\ scan'[q] = scan[q]
    BY <1>1, <1>6, <2>1
  <2> QED BY <1>1, <1>6, <2>1, <2>2, CallerGoes
<1> QED
  BY <1>3, <1>5, <1>6

(* putq goes on.                                                           *)
LEMMA TaskPutter ==
    ASSUME OneAssigner, Task!IInv, NEW p \in Producers, Task!PutStep(p)
    PROVE  Task!IInv'
<1>0. UNCHANGED <<semaphore, multi>>
  BY DEF Task!PutStep, Task!classVars
<1>a. /\ put_pc[p] \in {"push", "flag", "clear", "wake"} => lane[p] \in Task!Lanes
      /\ lane \in [Producers -> Nat] /\ DOMAIN scan = Producers
  BY DEF Task!IInv, Task!LanesChosen
<1>1. CASE Task!ReadNext(p)
  <2>1. UNCHANGED <<queue, node, served, got, put, close_pc, closing_lane, tpc>>
    BY <1>1 DEF Task!ReadNext, Task!closeVars
  <2> QED BY <1>0, <1>1, <2>1, ReadsOn, PutLeaves DEF Task!IInv
<1>2. CASE Task!CountNext(p) \/ Task!WrapNext(p)
  <2>1. UNCHANGED <<queue, node, served, got, put, close_pc, closing_lane, tpc, scan>>
    BY <1>2 DEF Task!CountNext, Task!WrapNext, Task!closeVars
  <2> QED BY <1>0, <1>2, <2>1, CallerCounts, PutLeaves DEF Task!IInv
<1>3. CASE Task!PushBack(p)
  <2> DEFINE l == lane[p]
             e == IF ~semaphore /\ multi THEN "flag" ELSE "wake"
  <2>1. /\ put_pc[p] = "push" /\ put' = [put EXCEPT ![l] = @ + 1]
        /\ queue' = [queue EXCEPT ![l] = Append(@, put[l] + 1)]
        /\ Task!PGoto(p, e)
        /\ UNCHANGED <<tpc, node, scan, lane, next_index, close_pc, closing_lane, served, got>>
    BY <1>3 DEF Task!PushBack, Task!closeVars
  <2>2. l \in Task!Lanes /\ e \in {"flag", "wake"}
    BY <1>a, <2>1
  <2> HIDE DEF l, e
  <2>3. /\ queue' \in [Task!Lanes -> Seq(Nat)] /\ put' \in [Task!Lanes -> Nat]
        /\ Task!Numbered' /\ Task!NodesOnce' /\ Task!NoneLost' /\ Task!InOrder'
    BY <1>0, <2>1, <2>2, PoolGrows, Zenon
  <2>4. Task!Lanes' = Task!Lanes
    BY <1>0 DEF Task!Lanes
  <2>5. Task!PoolTyped'
    BY <1>0, <2>1, <2>3, <2>4, Zenon DEF Task!IInv, Task!PoolTyped
  <2>6. Task!LanesChosen'
    BY <1>0, <1>a, <2>1, <2>2, CallerGoes DEF l
  <2> QED BY <2>3, <2>5, <2>6 DEF Task!IInv
<1>4. CASE Task!Release(p) \/ Task!NotifyPool(p) \/ Task!NotifyLane(p)
  <2>1. /\ put_pc[p] = "wake" /\ Task!Return(p)
        /\ UNCHANGED <<queue, node, scan, next_index, close_pc, closing_lane, put, served, got>>
    BY <1>4 DEF Task!Release, Task!NotifyPool, Task!NotifyLane, Task!closeVars
  <2>2. UNCHANGED tpc \/ \E l \in Nat : Task!SignalOne(l)
    BY <1>4, <1>a DEF Task!Release, Task!NotifyPool, Task!NotifyLane
  <2> QED BY <1>0, <2>1, <2>2, CallerReturns, PutLeaves DEF Task!IInv
<1>5. CASE Task!TestFlag(p)
  <2>1. /\ put_pc[p] = "flag"
        /\ UNCHANGED <<queue, tpc, node, scan, next_index, close_pc, closing_lane, put, served,
                       got>>
        /\ (Task!PGoto(p, "clear") /\ UNCHANGED <<lane, size>>) \/ Task!Return(p)
    BY <1>5 DEF Task!TestFlag, Task!closeVars
  <2>2. CASE Task!PGoto(p, "clear") /\ UNCHANGED <<lane, size>>
    <3>1. Task!LanesChosen'
      BY <1>0, <1>a, <2>1, <2>2, CallerGoes
    <3> QED BY <1>0, <2>1, <3>1, PutLeaves DEF Task!IInv
  <2>3. CASE Task!Return(p)
    BY <1>0, <2>1, <2>3, CallerReturns, PutLeaves DEF Task!IInv
  <2> QED BY <2>1, <2>2, <2>3
<1>6. CASE Task!ClearFlag(p)
  <2>1. /\ put_pc[p] = "clear" /\ Task!PGoto(p, "wake")
        /\ UNCHANGED <<queue, tpc, node, scan, lane, next_index, close_pc, closing_lane, put,
                       served, got>>
    BY <1>6 DEF Task!ClearFlag, Task!closeVars
  <2>2. Task!LanesChosen'
    BY <1>0, <1>a, <2>1, CallerGoes
  <2> QED BY <1>0, <2>1, <2>2, PutLeaves DEF Task!IInv
<1> QED
  BY <1>1, <1>2, <1>3, <1>4, <1>5, <1>6 DEF Task!PutStep

(* putq and getq are called.                                               *)
LEMMA TaskCall ==
    ASSUME OneAssigner, Task!IInv, NEW p \in Producers, Task!CallStep(p)
    PROVE  Task!IInv'
<1>0. UNCHANGED <<semaphore, multi>>
  BY DEF Task!CallStep, Task!classVars
<1>a. /\ lane \in [Producers -> Nat] /\ DOMAIN scan = Producers
      /\ Task!Lanes \subseteq Nat
  BY LanesAre DEF Task!IInv, Task!LanesChosen
<1>1. CASE Task!PutTo(p)
  <2>1. PICK l \in Task!Lanes : lane' = [lane EXCEPT ![p] = l]
    BY <1>1, Zenon DEF Task!PutTo
  <2>2. /\ put_pc[p] = "idle" /\ Task!PGoto(p, "push")
        /\ UNCHANGED <<queue, tpc, node, scan, next_index, close_pc, closing_lane, put, served,
                       got>>
    BY <1>1 DEF Task!PutTo, Task!EnterPut, Task!closeVars
  <2>3. /\ lane' \in [Producers -> Nat] /\ lane'[p] = l
        /\ \A q \in Producers : q # p => lane'[q] = lane[q]
    BY <1>a, <2>1
  <2>4. Task!LanesChosen'
    BY <1>0, <1>a, <2>2, <2>3, CallerGoes
  <2> QED BY <1>0, <2>2, <2>4, PutLeaves DEF Task!IInv
<1>2. CASE Task!ReadFirst(p)
  <2>1. /\ put_pc[p] = "idle" /\ Task!PGoto(p, "scan") /\ multi /\ PoolSize > 1
        /\ scan' = [scan EXCEPT ![p] = <<1, 0, Len(queue[0])>>]
        /\ UNCHANGED <<queue, tpc, node, lane, next_index, close_pc, closing_lane, put, served,
                       got>>
    BY <1>2 DEF Task!ReadFirst, Task!EnterPut, Task!closeVars
  <2>2. /\ DOMAIN scan' = Producers /\ scan'[p][1] = 1 /\ scan'[p][2] = 0
        /\ \A q \in Producers : q # p => scan'[q] = scan[q]
    BY <1>a, <2>1
  <2>3. 1 \in Task!PoolThreads /\ 0 \in Task!PoolThreads
    BY <2>1, PoolAssumption DEF Task!TaskAssumption, Task!PoolThreads
  <2>4. Task!LanesChosen'
    BY <1>0, <1>a, <2>1, <2>2, <2>3, CallerGoes
  <2> QED BY <1>0, <2>1, <2>4, PutLeaves DEF Task!IInv
<1>3. CASE Task!LoadNext(p)
  <2>1. UNCHANGED <<queue, node, served, got, put, close_pc, closing_lane, tpc, scan>>
    BY <1>3 DEF Task!LoadNext, Task!closeVars
  <2> QED BY <1>0, <1>3, <2>1, CallerCounts, PutLeaves DEF Task!IInv
<1>4. CASE \E l \in Task!Lanes : Task!Getq(p, l)
  <2>1. PICK l \in Task!Lanes : Task!Getq(p, l)
    BY <1>4
  <2>2. /\ queue[l] # << >> /\ got' = [got EXCEPT ![l] = Append(@, Head(queue[l]))]
        /\ queue' = [queue EXCEPT ![l] = Tail(@)]
        /\ UNCHANGED <<tpc, node, put_pc, scan, lane, next_index, close_pc, closing_lane, put,
                       served>>
    BY <2>1 DEF Task!Getq, Task!putVars, Task!closeVars
  <2>3. /\ queue' \in [Task!Lanes -> Seq(Nat)] /\ got' \in [Task!Lanes -> Seq(Nat)]
        /\ Task!Numbered' /\ Task!NodesOnce' /\ Task!NoneLost' /\ Task!InOrder'
    BY <1>0, <2>2, PoolGets, Zenon
  <2>4. Task!Lanes' = Task!Lanes
    BY <1>0 DEF Task!Lanes
  <2>5. Task!PoolTyped'
    BY <1>0, <2>2, <2>3, <2>4, Zenon DEF Task!IInv, Task!PoolTyped
  <2> QED BY <1>0, <2>2, <2>3, <2>5, PutSideStays DEF Task!IInv
<1> QED
  BY <1>1, <1>2, <1>3, <1>4 DEF Task!CallStep

(* close.                                                                  *)
LEMMA TaskClose ==
    ASSUME Task!IInv, UNCHANGED <<semaphore, multi>>,
           Task!Close \/ Task!Stop \/ Task!WakeOne \/ Task!JoinAndClear
    PROVE  Task!IInv'
<1>0. closing_lane \in Task!Lanes /\ Task!Lanes' = Task!Lanes
  BY DEF Task!IInv, Task!PoolTyped, Task!Lanes
<1>1. CASE Task!Close \/ Task!Stop \/ Task!WakeOne
  <2>1. /\ close_pc' \in {"stop", "wake", "join"} /\ closing_lane' = closing_lane
        /\ UNCHANGED <<queue, node, put_pc, scan, lane, next_index, put, served, got>>
    BY <1>1 DEF Task!Close, Task!Stop, Task!WakeOne, Task!putVars
  <2>2. UNCHANGED tpc \/ Task!SignalOne(closing_lane)
    BY <1>1 DEF Task!Close, Task!Stop, Task!WakeOne, Task!Wake
  <2>3. /\ tpc' \in [Task!PoolThreads -> {"loop", "acquire", "pop", "serve", "wait", "blocked",
                                          "woken", "exited"}]
        /\ \A w \in Task!PoolThreads : tpc'[w] # "serve" => node[w] = << >>
    BY <2>2, SignalWakes DEF Task!IInv, Task!PoolTyped
  <2>4. /\ Task!PoolTyped' /\ Task!Numbered' /\ Task!NodesOnce' /\ Task!NoneLost'
        /\ Task!InOrder'
    BY <1>0, <2>1, <2>3, ControlMoves
  <2> QED BY <2>1, <2>4, PutSideStays DEF Task!IInv
<1>2. CASE Task!JoinAndClear
  <2>1. /\ queue' = [queue EXCEPT ![closing_lane] = << >>]
        /\ close_pc' \in {"stop", "closed"} /\ closing_lane' \in Task!Lanes
        /\ UNCHANGED <<tpc, node, put_pc, scan, lane, next_index, put, served, got>>
    BY <1>0, <1>2 DEF Task!JoinAndClear, Task!putVars
  <2>2. /\ queue' \in [Task!Lanes -> Seq(Nat)]
        /\ Task!Numbered' /\ Task!NodesOnce' /\ Task!NoneLost' /\ Task!InOrder'
    BY <1>0, <2>1, PoolClears, Zenon
  <2>3. Task!PoolTyped'
    BY <1>0, <2>1, <2>2 DEF Task!IInv, Task!PoolTyped
  <2> QED BY <2>1, <2>2, <2>3, PutSideStays DEF Task!IInv
<1> QED
  BY <1>1, <1>2

LEMMA TaskStep ==
    ASSUME OneAssigner, Task!IInv, [Task!Next]_taskVars PROVE Task!IInv'
<1>1. CASE UNCHANGED taskVars
  <2>1. UNCHANGED <<queue, node, served, got, put, semaphore, multi, close_pc, closing_lane,
                    tpc, put_pc, scan, lane, next_index>>
    BY <1>1 DEF taskVars
  <2> QED BY <2>1, PutLeaves, PutSideStays DEF Task!IInv
<1>2. CASE \E p \in Producers : Task!CallStep(p) \/ Task!PutStep(p)
  BY <1>2, TaskCall, TaskPutter
<1>3. CASE \E w \in Task!PoolThreads : Task!WorkerStep(w)
  BY <1>3, TaskWorker
<1>4. CASE \/ UNCHANGED Task!classVars /\ Task!Close
           \/ Task!CloseStep
  BY <1>4, TaskClose DEF Task!CloseStep, Task!classVars
<1> QED
  BY <1>1, <1>2, <1>3, <1>4 DEF Task!Next

LEMMA TaskInit == Task!Init => Task!IInv
<1> SUFFICES ASSUME Task!Init PROVE Task!IInv
  OBVIOUS
<1> USE DEF Task!Init
<1>1. /\ << >> \in Seq(Nat) /\ Len(<< >>) = 0 /\ 0 \in Task!Lanes /\ PoolSize \in Nat
      /\ \A i \in 1 .. 0 : FALSE
  BY EmptySeq, PoolAssumption DEF Task!TaskAssumption, Task!Lanes, Task!PoolThreads
<1>2. Task!PoolTyped
  BY <1>1 DEF Task!PoolTyped
<1>3. Task!LanesChosen
  BY <1>1 DEF Task!LanesChosen
<1>4. \A l \in Task!Lanes : /\ queue[l] = << >> /\ put[l] = 0
                            /\ \A h \in Task!Holders : Len(Task!Held(l)[h]) = 0
  <2> TAKE l \in Task!Lanes
  <2>1. queue[l] = << >> /\ put[l] = 0 /\ served[l] = << >> /\ got[l] = << >>
    OBVIOUS
  <2>2. \A w \in Task!PoolThreads : node[w] = << >>
    OBVIOUS
  <2>3. ASSUME NEW h \in Task!Holders PROVE Len(Task!Held(l)[h]) = 0
    <3>1. Task!Held(l)[h] = << >>
      BY <2>1, <2>2, HeldParts, HoldersAre
    <3> QED BY <1>1, <3>1
  <2> QED BY <2>1, <2>3
<1>5. Task!Numbered
  BY <1>1, <1>4 DEF Task!Numbered
<1>6. Task!NodesOnce
  BY <1>1, <1>4 DEF Task!NodesOnce
<1>7. Task!NoneLost
  BY <1>1, <1>4 DEF Task!NoneLost
<1>8. Task!InOrder
  <2>1. \A w \in Task!PoolThreads : node[w] = << >>
    OBVIOUS
  <2>2. multi => \A w \in Task!PoolThreads : served[w] = << >>
    BY LanesAre
  <2> QED BY <1>1, <2>1, <2>2 DEF Task!InOrder
<1> QED
  BY <1>2, <1>3, <1>5, <1>6, <1>7, <1>8 DEF Task!IInv

LEMMA TaskIsOnce == Task!IInv => Task!ServedOnce
<1> SUFFICES ASSUME Task!IInv PROVE Task!ServedOnce
  OBVIOUS
<1>1. \A l \in Task!Lanes : \A i \in 1 .. Len(queue[l]) : queue[l][i] = Task!TakenFrom(l) + i
  BY DEF Task!IInv, Task!Numbered
<1>2. \A l \in Task!Lanes : \A k \in 1 .. put[l] :
         close_pc = "open" => \E h \in Task!Holders : Task!In(k, Task!Held(l)[h])
  BY DEF Task!IInv, Task!NoneLost
<1>3. \A l \in Task!Lanes : \A g, h \in Task!Holders :
         \A i \in 1 .. Len(Task!Held(l)[g]), j \in 1 .. Len(Task!Held(l)[h]) :
            Task!Held(l)[g][i] = Task!Held(l)[h][j] => g = h /\ i = j
  BY DEF Task!IInv, Task!NodesOnce
<1>4. ASSUME NEW l \in Task!Lanes, multi, NEW i \in 1 .. Len(served[l]) - 1
      PROVE  served[l][i] < served[l][i + 1]
  <2>1. l \in Task!PoolThreads /\ Len(served[l]) \in Nat
    BY LanesAre, PoolTypes
  <2>2. i \in 1 .. Len(served[l]) /\ i + 1 \in 1 .. Len(served[l]) /\ i < i + 1
    BY <1>4, <2>1
  <2> QED BY <1>4, <2>1, <2>2 DEF Task!IInv, Task!InOrder
<1>5. \A p \in Producers : put_pc[p] = "push" => lane[p] \in Task!Lanes
  BY DEF Task!IInv, Task!LanesChosen
<1> QED
  BY <1>1, <1>2, <1>3, <1>4, <1>5 DEF Task!ServedOnce

(* The task queues: their inductive invariant, for every number of threads *)
(* and of callers of putq and getq, every batch size and number of calls,  *)
(* when assign_thread of the class with a condition is not called by two   *)
(* of them at once.                                                        *)
THEOREM PoolInductive == ASSUME OneAssigner PROVE MCSpec => []Task!IInv
<1>1. MCInit => Task!IInv
  BY TaskInit DEF MCInit
<1>2. Task!IInv /\ [MCNext]_allVars => Task!IInv'
  <2> SUFFICES ASSUME Task!IInv, [MCNext]_allVars PROVE Task!IInv'
    OBVIOUS
  <2>1. [Task!Next]_taskVars
    BY DEF allVars, MCNext
  <2> QED BY <2>1, TaskStep
<1> QED
  BY <1>1, <1>2, PTL DEF MCSpec

-----------------------------------------------------------------------------
(* What follows for the properties of the run.                             *)

(* SL_Seda_Stage::push_event: with one caller the thread's index exists    *)
(* and the turns go round evenly, for every number of threads and calls.   *)
THEOREM TurnsGoRound == ASSUME OneCaller PROVE MCSpec => []RoundRobin
<1>1. MCInit => RoundInv
  BY RoundInit DEF MCInit
<1>2. RoundInv /\ [MCNext]_allVars => RoundInv'
  <2> SUFFICES ASSUME RoundInv, [MCNext]_allVars PROVE RoundInv'
    OBVIOUS
  <2>1. [StageNext]_stageVars
    BY PartsOfStages DEF allVars
  <2> QED BY <2>1, RoundStep
<1>3. RoundInv => RoundRobin
  BY RoundIsFair DEF RoundRobin
<1> QED
  BY <1>1, <1>2, <1>3, PTL DEF MCSpec

(* SL_Seda_StageThread: every step of the two rings, the flag and the lock *)
(* is one of the event log that the disruptor promises too, or none: what  *)
(* push_event accepted is handled once, in order, until the quit event.    *)
THEOREM RingsAreLog == ASSUME StopQuiet PROVE MCSpec => ImplementsLog
<1>1. MCInit => Log!Init
  <2> SUFFICES ASSUME MCInit PROVE Log!Init
    OBVIOUS
  <2>1. log = << >> /\ delivered = << >> /\ spc = "pop"
    BY DEF MCInit, Init
  <2> QED BY <2>1 DEF Log!Init
<1>2. IInv /\ IInv' /\ [MCNext]_allVars => [Log!Next]_(Log!logVars)
  <2> SUFFICES ASSUME IInv, IInv', [MCNext]_allVars PROVE [Log!Next]_(Log!logVars)
    OBVIOUS
  <2>1. [Next]_vars
    BY PartsOfStages DEF allVars
  <2> QED BY <2>1, ThreadRefines
<1> QED
  BY <1>1, <1>2, ThreadInductive, PTL DEF MCSpec, ImplementsLog, Log!Spec

(* push_event and putq: what was accepted is handled once and in order by  *)
(* a stage thread, by the threads of a stage with shared queues, and by a  *)
(* pool of threads, for every number of each.                              *)
THEOREM EachHandledOnce == ASSUME StopQuiet, OneAssigner PROVE MCSpec => []HandledOnce
<1>1. MCSpec => []IInv
  BY ThreadInductive
<1>2. MCSpec => []Shared!IInv
  BY SharedInductive
<1>3. MCSpec => []Task!IInv
  BY PoolInductive
<1>4. IInv /\ Shared!IInv /\ Task!IInv => HandledOnce
  BY SharedIsOnce, TaskIsOnce DEF HandledOnce, IInv
<1> QED
  BY <1>1, <1>2, <1>3, <1>4, PTL

-----------------------------------------------------------------------------
(***************************************************************************)
(* The timer queues of a stage: intrusive doubly linked lists as chains of *)
(* nodes, the operations of SL_Seda_TimerList on two such lists, and the   *)
(* steps of the queue as steps of the timer service.  The invariant names  *)
(* the nodes of the two lists, so that no proof has to follow a walk.      *)
(***************************************************************************)
(* Induction over the naturals for one set.                                *)
LEMMA NatInSet ==
    ASSUME NEW T, 0 \in T, \A n \in Nat : n \in T => n + 1 \in T
    PROVE  \A n \in Nat : n \in T
<1> DEFINE R == OpToRel(<, Nat)
           U == Nat \ T
<1>1. SUFFICES ASSUME U # {} PROVE FALSE
  OBVIOUS
<1>2. IsWellFoundedOn(R, Nat)
  BY NatLessThanWellFounded, Zenon
<1>3. U \subseteq Nat
  OBVIOUS
<1> HIDE DEF U, R
<1>4. PICK x \in U : \A y \in U : ~(<<y, x>> \in R)
  BY <1>1, <1>2, <1>3, WFMin, Zenon
<1> USE DEF U, R
<1>5. x # 0 /\ x \in Nat
  OBVIOUS
<1>6. x - 1 \in Nat /\ x - 1 < x /\ (x - 1) + 1 = x
  BY <1>5
<1>7. <<x - 1, x>> \in R
  BY <1>5, <1>6 DEF OpToRel
<1>8. x - 1 \in T
  BY <1>4, <1>6, <1>7, Zenon
<1> QED
  BY <1>5, <1>6, <1>8

-----------------------------------------------------------------------------
(* The timer queues.                                                       *)

(* The n nodes of f, linked by nx and pv from the head l on.               *)
Chain(nx, pv, l, n, f) ==
    /\ n \in Nat /\ f \in [1 .. n -> Timers]
    /\ \A i, j \in 1 .. n : f[i] = f[j] => i = j
    /\ n = 0 => nx[l] = l /\ pv[l] = l
    /\ n > 0 => /\ nx[l] = f[1] /\ pv[f[1]] = f[1]
                /\ pv[l] = f[n] /\ nx[f[n]] = f[n]
    /\ \A i \in 1 .. n - 1 : nx[f[i]] = f[i + 1] /\ pv[f[i + 1]] = f[i]

(* A walk of n steps from a node, when f has the nodes it meets.           *)
IsWalk(link, from, n, f) ==
    /\ n \in Nat /\ f = [i \in 1 .. n |-> f[i]]
    /\ n > 0 => link[from] = f[1]
    /\ \A i \in 1 .. n - 1 : link[f[i]] = f[i + 1]

(* There is one walk of n steps, that of TimerQueue.                       *)
LEMMA WalkIs ==
    ASSUME NEW link, NEW from, NEW n, NEW f, IsWalk(link, from, n, f)
    PROVE  Timer!Walk(link, from, n) = f
<1> USE DEF IsWalk
<1> DEFINE Is(w) == w = [i \in 1 .. n |-> IF i = 1 THEN link[from] ELSE link[w[i - 1]]]
           w == CHOOSE w : Is(w)
<1>1. Is(f)
  <2>1. ASSUME NEW i \in 1 .. n PROVE f[i] = IF i = 1 THEN link[from] ELSE link[f[i - 1]]
    <3>1. CASE i = 1
      BY <3>1
    <3>2. CASE i # 1
      <4>1. i - 1 \in 1 .. n - 1 /\ (i - 1) + 1 = i
        BY <3>2
      <4> QED
        BY <3>2, <4>1
    <3> QED
      BY <3>1, <3>2
  <2> QED
    BY <2>1
<1>2. Is(w)
  BY <1>1, Zenon
<1>3. Timer!Walk(link, from, n) = w
  BY Zenon DEF Timer!Walk
<1> HIDE DEF w
<1> DEFINE T == {i \in Nat : i \in 1 .. n => w[i] = f[i]}
<1>4. 0 \in T
  OBVIOUS
<1>5. ASSUME NEW i \in Nat, i \in T PROVE i + 1 \in T
  <2>1. SUFFICES ASSUME i + 1 \in 1 .. n PROVE w[i + 1] = f[i + 1]
    OBVIOUS
  <2> DEFINE j == i + 1
  <2>2. j \in 1 .. n /\ j - 1 = i /\ j \in Nat
    BY <2>1
  <2>3. w[j] = IF j = 1 THEN link[from] ELSE link[w[j - 1]]
    BY <1>2, <2>2, Zenon
  <2>4. CASE j = 1
    BY <2>2, <2>3, <2>4
  <2>5. CASE j # 1
    <3>1. i \in 1 .. n - 1 /\ i \in 1 .. n
      BY <2>2, <2>5
    <3>2. w[i] = f[i]
      BY <1>5, <3>1
    <3> QED
      BY <2>2, <2>3, <2>5, <3>1, <3>2
  <2> QED
    BY <2>4, <2>5
<1> HIDE DEF T
<1>6. \A i \in Nat : i \in T
  BY <1>4, <1>5, NatInSet
<1>7. \A i \in 1 .. n : w[i] = f[i]
  <2>1. \A i \in 1 .. n : i \in Nat
    OBVIOUS
  <2> QED
    BY <1>6, <2>1, Zenon DEF T
<1>8. w = [i \in 1 .. n |-> w[i]]
  BY <1>2
<1> QED
  BY <1>3, <1>7, <1>8

(* A chain with t behind its first p nodes, and without its p-th one.      *)
Spliced(f, n, p, t) == [i \in 1 .. n + 1 |-> IF i <= p THEN f[i] ELSE IF i = p + 1 THEN t ELSE f[i - 1]]
Cut(f, n, p) == [i \in 1 .. n - 1 |-> IF i < p THEN f[i] ELSE f[i + 1]]

(* A chain whose nodes keep their links.                                   *)
LEMMA ChainStays ==
    ASSUME NEW nx, NEW pv, NEW nx2, NEW pv2, NEW l, NEW n, NEW f, Chain(nx, pv, l, n, f),
           nx2[l] = nx[l], pv2[l] = pv[l],
           \A i \in 1 .. n : nx2[f[i]] = nx[f[i]] /\ pv2[f[i]] = pv[f[i]]
    PROVE  Chain(nx2, pv2, l, n, f)
<1>1. n \in Nat
  BY DEF Chain
<1>2. n > 0 => 1 \in 1 .. n /\ n \in 1 .. n
  BY <1>1
<1>3. \A i \in 1 .. n - 1 : i \in 1 .. n /\ i + 1 \in 1 .. n
  BY <1>1
<1> QED
  BY <1>1, <1>2, <1>3 DEF Chain

(* From nx and pv to nx2 and pv2 the node t has come behind the first p    *)
(* nodes of f, between before and after.                                   *)
LinksAdd(nx, pv, nx2, pv2, l, n, f, p, t, before, after) ==
    /\ Chain(nx, pv, l, n, f)
    /\ l \notin Timers /\ t \in Timers /\ \A i \in 1 .. n : f[i] # t
    /\ p \in 0 .. n
    /\ before = IF p = 0 THEN l ELSE f[p]
    /\ after = IF p = n THEN l ELSE f[p + 1]
    /\ nx2[t] = (IF p = n THEN t ELSE f[p + 1]) /\ nx2[before] = t
    /\ pv2[t] = (IF p = 0 THEN t ELSE f[p]) /\ pv2[after] = t
    /\ \A u \in Timers \cup {l} : u \notin {t, before} => nx2[u] = nx[u]
    /\ \A u \in Timers \cup {l} : u \notin {t, after} => pv2[u] = pv[u]

(* A chain with one node more is a chain, wherever it has come.            *)
LEMMA ChainAdds ==
    ASSUME NEW nx, NEW pv, NEW nx2, NEW pv2, NEW l, NEW n, NEW f, NEW p, NEW t,
           NEW before, NEW after, LinksAdd(nx, pv, nx2, pv2, l, n, f, p, t, before, after)
    PROVE  Chain(nx2, pv2, l, n + 1, Spliced(f, n, p, t))
<1> USE DEF LinksAdd
<1> DEFINE g == Spliced(f, n, p, t)
<1>1. n \in Nat /\ p \in Nat /\ p <= n
  BY DEF Chain
<1>2. \A i \in 1 .. n : f[i] \in Timers /\ f[i] # l
  BY DEF Chain
<1>3. /\ DOMAIN g = 1 .. n + 1
      /\ \A i \in 1 .. p : g[i] = f[i]
      /\ g[p + 1] = t
      /\ \A i \in p + 1 .. n : g[i + 1] = f[i]
  BY <1>1 DEF Spliced
<1>4. g \in [1 .. n + 1 -> Timers]
  <2>1. \A i \in 1 .. n + 1 : g[i] \in Timers
    BY <1>1, <1>2 DEF Spliced
  <2> QED
    BY <2>1 DEF Spliced
<1>5. \A i, j \in 1 .. n : f[i] = f[j] => i = j
  BY DEF Chain
<1> HIDE DEF g
<1>6. ASSUME NEW i \in 1 .. n + 1
      PROVE  \/ i \in 1 .. p /\ i \in 1 .. n /\ g[i] = f[i]
             \/ i = p + 1 /\ g[i] = t
             \/ i - 1 \in p + 1 .. n /\ i - 1 \in 1 .. n /\ g[i] = f[i - 1]
  <2>1. CASE i <= p
    BY <1>1, <1>3, <2>1
  <2>2. CASE i = p + 1
    BY <1>3, <2>2
  <2>3. CASE i > p + 1
    <3>1. i - 1 \in p + 1 .. n /\ (i - 1) + 1 = i /\ i - 1 \in 1 .. n
      BY <1>1, <2>3
    <3> QED
      BY <1>3, <3>1
  <2> QED
    BY <1>1, <2>1, <2>2, <2>3
<1>7. ASSUME NEW i \in 1 .. n + 1, NEW j \in 1 .. n + 1, g[i] = g[j] PROVE i = j
  <2>1. \/ i \in 1 .. p /\ i \in 1 .. n /\ g[i] = f[i]
        \/ i = p + 1 /\ g[i] = t
        \/ i - 1 \in p + 1 .. n /\ i - 1 \in 1 .. n /\ g[i] = f[i - 1]
    BY <1>6
  <2>2. \/ j \in 1 .. p /\ j \in 1 .. n /\ g[j] = f[j]
        \/ j = p + 1 /\ g[j] = t
        \/ j - 1 \in p + 1 .. n /\ j - 1 \in 1 .. n /\ g[j] = f[j - 1]
    BY <1>6
  <2> QED
    BY <1>1, <1>5, <1>7, <2>1, <2>2
<1>8. nx2[l] = g[1] /\ pv2[g[1]] = g[1]
  <2>1. CASE p = 0
    BY <1>3, <2>1
  <2>2. CASE p > 0
    <3>1. 1 \in 1 .. n /\ 1 \in 1 .. p /\ p \in 1 .. n /\ n > 0
      BY <1>1, <2>2
    <3>2. nx[l] = f[1] /\ pv[f[1]] = f[1] /\ g[1] = f[1]
      BY <1>3, <3>1 DEF Chain
    <3>3. l # before /\ l # t /\ f[1] # t
      BY <1>2, <2>2, <3>1
    <3>4. f[1] # after
      <4>1. CASE p = n
        BY <1>2, <3>1, <4>1
      <4>2. CASE p # n
        <5>1. p + 1 \in 1 .. n /\ p + 1 # 1
          BY <1>1, <2>2, <4>2
        <5> QED
          BY <1>5, <3>1, <4>2, <5>1
      <4> QED
        BY <4>1, <4>2
    <3> QED
      BY <1>2, <3>1, <3>2, <3>3, <3>4
  <2> QED
    BY <1>1, <2>1, <2>2
<1>9. pv2[l] = g[n + 1] /\ nx2[g[n + 1]] = g[n + 1]
  <2>1. CASE p = n
    BY <1>3, <2>1
  <2>2. CASE p < n
    <3>1. n \in 1 .. n /\ n \in p + 1 .. n /\ p + 1 \in 1 .. n /\ n > 0
      BY <1>1, <2>2
    <3>2. pv[l] = f[n] /\ nx[f[n]] = f[n] /\ g[n + 1] = f[n]
      BY <1>3, <3>1 DEF Chain
    <3>3. l # after /\ l # t /\ f[n] # t
      BY <1>2, <2>2, <3>1
    <3>4. f[n] # before
      <4>1. CASE p = 0
        BY <1>2, <3>1, <4>1
      <4>2. CASE p # 0
        <5>1. p \in 1 .. n /\ p # n
          BY <1>1, <2>2, <4>2
        <5> QED
          BY <1>5, <3>1, <4>2, <5>1
      <4> QED
        BY <4>1, <4>2
    <3> QED
      BY <1>2, <3>1, <3>2, <3>3, <3>4
  <2> QED
    BY <1>1, <2>1, <2>2
<1>10. ASSUME NEW i \in 1 .. n PROVE nx2[g[i]] = g[i + 1] /\ pv2[g[i + 1]] = g[i]
  <2>1. CASE i < p
    <3>1. i \in 1 .. p /\ i + 1 \in 1 .. p /\ i + 1 \in 1 .. n /\ i \in 1 .. n - 1 /\ p \in 1 .. n
      BY <1>1, <2>1
    <3>2. g[i] = f[i] /\ g[i + 1] = f[i + 1] /\ nx[f[i]] = f[i + 1] /\ pv[f[i + 1]] = f[i]
      BY <1>3, <3>1 DEF Chain
    <3>3. f[i] # before
      BY <1>1, <1>5, <2>1, <3>1
    <3>4. f[i + 1] # after
      <4>1. CASE p = n
        BY <1>2, <3>1, <4>1
      <4>2. CASE p # n
        <5>1. p + 1 \in 1 .. n /\ i + 1 # p + 1
          BY <1>1, <2>1, <4>2
        <5> QED
          BY <1>5, <3>1, <4>2, <5>1
      <4> QED
        BY <4>1, <4>2
    <3> QED
      BY <1>2, <3>1, <3>2, <3>3, <3>4
  <2>2. CASE i = p
    <3>1. g[i] = f[p] /\ g[i + 1] = t /\ p # 0
      BY <1>1, <1>3, <2>2
    <3> QED
      BY <3>1
  <2>3. CASE i = p + 1
    <3>1. i \in p + 1 .. n /\ p # n
      BY <1>1, <2>3
    <3>2. g[i] = t /\ g[i + 1] = f[p + 1]
      BY <1>3, <2>3, <3>1
    <3> QED
      BY <3>1, <3>2
  <2>4. CASE i > p + 1
    <3> DEFINE h == i - 1
    <3>1. /\ h \in p + 1 .. n /\ i \in p + 1 .. n /\ h \in 1 .. n - 1 /\ h \in 1 .. n /\ h + 1 = i
          /\ p + 1 \in 1 .. n /\ p # n /\ i # p + 1
      BY <1>1, <2>4
    <3>2. g[i] = f[h] /\ g[i + 1] = f[i]
      BY <1>3, <3>1
    <3>3. nx[f[h]] = f[i] /\ pv[f[i]] = f[h]
      BY <3>1 DEF Chain
    <3>4. f[h] # before
      <4>1. CASE p = 0
        BY <1>2, <3>1, <4>1
      <4>2. CASE p # 0
        <5>1. p \in 1 .. n /\ p # h
          BY <1>1, <3>1, <4>2
        <5> QED
          BY <1>5, <3>1, <4>2, <5>1
      <4> QED
        BY <4>1, <4>2
    <3>5. f[i] # after
      BY <1>5, <3>1
    <3> QED
      BY <1>2, <3>1, <3>2, <3>3, <3>4, <3>5
  <2> QED
    BY <1>1, <2>1, <2>2, <2>3, <2>4
<1>11. n + 1 \in Nat /\ n + 1 > 0 /\ n + 1 # 0 /\ (n + 1) - 1 = n
  BY <1>1
<1> QED
  BY <1>4, <1>7, <1>8, <1>9, <1>10, <1>11 DEF Chain, g

(* From nx and pv to nx2 and pv2 the p-th node of f, between before and    *)
(* after, has gone.                                                        *)
LinksLose(nx, pv, nx2, pv2, l, n, f, p, before, after) ==
    /\ Chain(nx, pv, l, n, f)
    /\ l \notin Timers /\ p \in 1 .. n
    /\ before = IF p = 1 THEN l ELSE f[p - 1]
    /\ after = IF p = n THEN l ELSE f[p + 1]
    /\ nx2[before] = IF p = n THEN before ELSE f[p + 1]
    /\ pv2[after] = IF p = 1 THEN after ELSE f[p - 1]
    /\ \A u \in Timers \cup {l} : u \notin {f[p], before} => nx2[u] = nx[u]
    /\ \A u \in Timers \cup {l} : u \notin {f[p], after} => pv2[u] = pv[u]

(* A chain without one of its nodes is a chain, whichever has gone.        *)
LEMMA ChainLoses ==
    ASSUME NEW nx, NEW pv, NEW nx2, NEW pv2, NEW l, NEW n, NEW f, NEW p,
           NEW before, NEW after, LinksLose(nx, pv, nx2, pv2, l, n, f, p, before, after)
    PROVE  Chain(nx2, pv2, l, n - 1, Cut(f, n, p))
<1> USE DEF LinksLose
<1> DEFINE g == Cut(f, n, p)
<1>1. n \in Nat /\ p \in Nat /\ 1 <= p /\ p <= n /\ n - 1 \in Nat
  BY DEF Chain
<1>2. \A i \in 1 .. n : f[i] \in Timers /\ f[i] # l
  BY DEF Chain
<1>3. /\ \A i \in 1 .. p - 1 : g[i] = f[i]
      /\ \A i \in p .. n - 1 : g[i] = f[i + 1]
  BY <1>1 DEF Cut
<1>4. g \in [1 .. n - 1 -> Timers]
  <2>1. \A i \in 1 .. n - 1 : g[i] \in Timers
    BY <1>1, <1>2 DEF Cut
  <2> QED
    BY <2>1 DEF Cut
<1>5. \A i, j \in 1 .. n : f[i] = f[j] => i = j
  BY DEF Chain
<1> HIDE DEF g
<1>6. ASSUME NEW i \in 1 .. n - 1
      PROVE  \/ i \in 1 .. p - 1 /\ i \in 1 .. n /\ g[i] = f[i]
             \/ i \in p .. n - 1 /\ i + 1 \in 1 .. n /\ g[i] = f[i + 1]
  <2>1. i \in 1 .. p - 1 \/ i \in p .. n - 1
    BY <1>1
  <2>2. i \in 1 .. n /\ i + 1 \in 1 .. n
    BY <1>1
  <2> QED
    BY <1>3, <2>1, <2>2
<1>7. ASSUME NEW i \in 1 .. n - 1, NEW j \in 1 .. n - 1, g[i] = g[j] PROVE i = j
  <2>1. \/ i \in 1 .. p - 1 /\ i \in 1 .. n /\ g[i] = f[i]
        \/ i \in p .. n - 1 /\ i + 1 \in 1 .. n /\ g[i] = f[i + 1]
    BY <1>6
  <2>2. \/ j \in 1 .. p - 1 /\ j \in 1 .. n /\ g[j] = f[j]
        \/ j \in p .. n - 1 /\ j + 1 \in 1 .. n /\ g[j] = f[j + 1]
    BY <1>6
  <2> QED
    BY <1>1, <1>5, <1>7, <2>1, <2>2
<1>8. n - 1 = 0 => nx2[l] = l /\ pv2[l] = l
  BY <1>1
<1>9. n - 1 > 0 => nx2[l] = g[1] /\ pv2[g[1]] = g[1]
  <2>1. SUFFICES ASSUME n > 1 PROVE nx2[l] = g[1] /\ pv2[g[1]] = g[1]
    BY <1>1
  <2>2. CASE p = 1
    <3>1. 1 \in p .. n - 1 /\ p # n
      BY <1>1, <2>1, <2>2
    <3>2. g[1] = f[2] /\ before = l /\ after = f[2]
      BY <1>3, <2>2, <3>1
    <3> QED
      BY <2>2, <3>1, <3>2
  <2>3. CASE p > 1
    <3>1. 1 \in 1 .. p - 1 /\ 1 \in 1 .. n /\ p - 1 \in 1 .. n /\ n > 0 /\ p # 1
      BY <1>1, <2>3
    <3>2. g[1] = f[1] /\ nx[l] = f[1] /\ pv[f[1]] = f[1]
      BY <1>3, <3>1 DEF Chain
    <3>3. l # before /\ l # f[p] /\ f[1] # f[p]
      BY <1>2, <1>5, <3>1
    <3>4. f[1] # after
      <4>1. CASE p = n
        BY <1>2, <3>1, <4>1
      <4>2. CASE p # n
        <5>1. p + 1 \in 1 .. n /\ p + 1 # 1
          BY <1>1, <4>2
        <5> QED
          BY <1>5, <3>1, <4>2, <5>1
      <4> QED
        BY <4>1, <4>2
    <3> QED
      BY <1>2, <3>1, <3>2, <3>3, <3>4
  <2> QED
    BY <1>1, <2>2, <2>3
<1>10. n - 1 > 0 => pv2[l] = g[n - 1] /\ nx2[g[n - 1]] = g[n - 1]
  <2>1. SUFFICES ASSUME n > 1 PROVE pv2[l] = g[n - 1] /\ nx2[g[n - 1]] = g[n - 1]
    BY <1>1
  <2>2. CASE p = n
    <3>1. n - 1 \in 1 .. p - 1 /\ p # 1
      BY <1>1, <2>1, <2>2
    <3>2. g[n - 1] = f[n - 1] /\ before = f[n - 1] /\ after = l
      BY <1>3, <2>2, <3>1
    <3> QED
      BY <2>2, <3>1, <3>2
  <2>3. CASE p < n
    <3>1. n - 1 \in p .. n - 1 /\ n \in 1 .. n /\ n > 0 /\ p # n /\ (n - 1) + 1 = n /\ p + 1 \in 1 .. n
      BY <1>1, <2>3
    <3>2. g[n - 1] = f[n] /\ pv[l] = f[n] /\ nx[f[n]] = f[n]
      <4>1. g[n - 1] = f[(n - 1) + 1]
        BY <1>3, <3>1
      <4> QED
        BY <3>1, <4>1 DEF Chain
    <3>3. l # after /\ l # f[p] /\ f[n] # f[p]
      BY <1>2, <1>5, <3>1
    <3>4. f[n] # before
      <4>1. CASE p = 1
        BY <1>2, <3>1, <4>1
      <4>2. CASE p # 1
        <5>1. p - 1 \in 1 .. n /\ p - 1 # n
          BY <1>1, <4>2
        <5> QED
          BY <1>5, <3>1, <4>2, <5>1
      <4> QED
        BY <4>1, <4>2
    <3> QED
      BY <1>2, <3>1, <3>2, <3>3, <3>4
  <2> QED
    BY <1>1, <2>2, <2>3
<1>11. ASSUME NEW i \in 1 .. (n - 1) - 1 PROVE nx2[g[i]] = g[i + 1] /\ pv2[g[i + 1]] = g[i]
  <2>1. CASE i + 1 < p
    <3>1. /\ i \in 1 .. p - 1 /\ i + 1 \in 1 .. p - 1 /\ i \in 1 .. n - 1 /\ i \in 1 .. n /\ i + 1 \in 1 .. n
          /\ p # 1 /\ p - 1 \in 1 .. n /\ i # p /\ i + 1 # p /\ i # p - 1
      BY <1>1, <2>1
    <3>2. g[i] = f[i] /\ g[i + 1] = f[i + 1] /\ nx[f[i]] = f[i + 1] /\ pv[f[i + 1]] = f[i]
      BY <1>3, <3>1 DEF Chain
    <3>3. f[i] # before /\ f[i] # f[p] /\ f[i + 1] # f[p]
      BY <1>5, <3>1
    <3>4. f[i + 1] # after
      <4>1. CASE p = n
        BY <1>2, <3>1, <4>1
      <4>2. CASE p # n
        <5>1. p + 1 \in 1 .. n /\ i + 1 # p + 1
          BY <1>1, <2>1, <4>2
        <5> QED
          BY <1>5, <3>1, <4>2, <5>1
      <4> QED
        BY <4>1, <4>2
    <3> QED
      BY <1>2, <3>1, <3>2, <3>3, <3>4
  <2>2. CASE i + 1 = p
    <3>1. i \in 1 .. p - 1 /\ i + 1 \in p .. n - 1 /\ p # 1 /\ p # n /\ i = p - 1 /\ (i + 1) + 1 = p + 1
      BY <1>1, <2>2
    <3>2. g[i] = f[p - 1] /\ g[i + 1] = f[p + 1]
      <4>1. g[i + 1] = f[(i + 1) + 1]
        BY <1>3, <3>1
      <4> QED
        BY <1>3, <3>1, <4>1
    <3> QED
      BY <3>1, <3>2
  <2>3. CASE i >= p
    <3> DEFINE j == i + 1
               k == i + 2
    <3>1. /\ i \in p .. n - 1 /\ j \in p .. n - 1 /\ j \in 1 .. n - 1 /\ j \in 1 .. n /\ k \in 1 .. n
          /\ j + 1 = k /\ p # n /\ p + 1 \in 1 .. n /\ j # p /\ k # p /\ k # p + 1
      BY <1>1, <2>3
    <3>2. g[i] = f[j] /\ g[j] = f[k] /\ nx[f[j]] = f[k] /\ pv[f[k]] = f[j]
      <4>1. g[j] = f[j + 1]
        BY <1>3, <3>1
      <4> QED
        BY <1>3, <3>1, <4>1 DEF Chain
    <3>3. f[k] # after /\ f[j] # f[p] /\ f[k] # f[p]
      BY <1>5, <3>1
    <3>4. f[j] # before
      <4>1. CASE p = 1
        BY <1>2, <3>1, <4>1
      <4>2. CASE p # 1
        <5>1. p - 1 \in 1 .. n /\ j # p - 1
          BY <1>1, <2>3, <4>2
        <5> QED
          BY <1>5, <3>1, <4>2, <5>1
      <4> QED
        BY <4>1, <4>2
    <3> QED
      BY <1>2, <3>1, <3>2, <3>3, <3>4
  <2> QED
    BY <1>1, <2>1, <2>2, <2>3
<1> QED
  BY <1>1, <1>4, <1>7, <1>8, <1>9, <1>10, <1>11 DEF Chain, g

(* The two heads, and the record of the links and sizes.                   *)
Heads == {"free_list_", "active_list_"}

Shape(m) == m \in [next : [Timer!Nodes -> Timer!Nodes], prev : [Timer!Nodes -> Timer!Nodes],
                   size : [Heads -> Nat]]

Fields(m) == m = [next |-> m.next, prev |-> m.prev, size |-> m.size]

(* The lists l and k have the nodes of f and those of g, and share none.   *)
TwoLists(m, l, f, k, g) ==
    /\ Shape(m) /\ {l, k} = Heads /\ l # k /\ Heads \cap Timers = {}
    /\ Chain(m.next, m.prev, l, m.size[l], f)
    /\ Chain(m.next, m.prev, k, m.size[k], g)
    /\ \A i \in 1 .. m.size[l], j \in 1 .. m.size[k] : f[i] # g[j]

(* t is a node of neither list.                                            *)
Outside(m, l, f, k, g, t) ==
    /\ t \in Timers
    /\ \A i \in 1 .. m.size[l] : f[i] # t
    /\ \A i \in 1 .. m.size[k] : g[i] # t

(* From m to m2 the node t has come behind the first p nodes of f.         *)
Adds(m, m2, l, f, k, g, p, t) ==
    LET n == m.size[l]
        before == IF p = 0 THEN l ELSE f[p]
        after == IF p = n THEN l ELSE f[p + 1] IN
    /\ TwoLists(m, l, f, k, g) /\ Outside(m, l, f, k, g, t) /\ p \in 0 .. n
    /\ Fields(m2) /\ m2.next \in [Timer!Nodes -> Timer!Nodes]
    /\ m2.prev \in [Timer!Nodes -> Timer!Nodes]
    /\ m2.next[t] = (IF p = n THEN t ELSE f[p + 1]) /\ m2.next[before] = t
    /\ m2.prev[t] = (IF p = 0 THEN t ELSE f[p]) /\ m2.prev[after] = t
    /\ \A u \in Timer!Nodes : u \notin {t, before} => m2.next[u] = m.next[u]
    /\ \A u \in Timer!Nodes : u \notin {t, after} => m2.prev[u] = m.prev[u]
    /\ m2.size = [m.size EXCEPT ![l] = @ + 1]

(* From m to m2 the p-th node of f has gone.                               *)
Loses(m, m2, l, f, k, g, p) ==
    LET n == m.size[l]
        before == IF p = 1 THEN l ELSE f[p - 1]
        after == IF p = n THEN l ELSE f[p + 1] IN
    /\ TwoLists(m, l, f, k, g) /\ p \in 1 .. n
    /\ Fields(m2) /\ m2.next \in [Timer!Nodes -> Timer!Nodes]
    /\ m2.prev \in [Timer!Nodes -> Timer!Nodes]
    /\ m2.next[before] = (IF p = n THEN before ELSE f[p + 1])
    /\ m2.prev[after] = (IF p = 1 THEN after ELSE f[p - 1])
    /\ \A u \in Timer!Nodes : u \notin {f[p], before} => m2.next[u] = m.next[u]
    /\ \A u \in Timer!Nodes : u \notin {f[p], after} => m2.prev[u] = m.prev[u]
    /\ m2.size = [m.size EXCEPT ![l] = @ - 1]

(* The two lists are alike.                                                *)
LEMMA ListsChange ==
    ASSUME NEW m, NEW l, NEW f, NEW k, NEW g, TwoLists(m, l, f, k, g)
    PROVE  TwoLists(m, k, g, l, f)
BY DEF TwoLists

(* The types of what two lists are made of.                                *)
LEMMA NodesAre ==
    ASSUME NEW m, NEW l, NEW f, NEW k, NEW g, TwoLists(m, l, f, k, g)
    PROVE  /\ m.size[l] \in Nat /\ m.size[k] \in Nat
           /\ Timer!Nodes = Timers \cup {l, k} /\ l \notin Timers /\ k \notin Timers /\ l # k
           /\ \A i \in 1 .. m.size[l] : f[i] \in Timers
           /\ \A i \in 1 .. m.size[k] : g[i] \in Timers
           /\ \A i, j \in 1 .. m.size[l] : f[i] = f[j] => i = j
<1>1. m.size[l] \in Nat /\ f \in [1 .. m.size[l] -> Timers]
  BY DEF TwoLists, Chain
<1>2. m.size[k] \in Nat /\ g \in [1 .. m.size[k] -> Timers]
  BY DEF TwoLists, Chain
<1>3. Timer!Nodes = Timers \cup {l, k} /\ l \notin Timers /\ k \notin Timers /\ l # k
  BY DEF TwoLists, Heads, Timer!Nodes
<1>4. \A i, j \in 1 .. m.size[l] : f[i] = f[j] => i = j
  BY DEF TwoLists, Chain
<1> QED
  BY <1>1, <1>2, <1>3, <1>4

(* The sizes when one list changes.                                        *)
LEMMA SizesOfHeads ==
    ASSUME NEW s \in [Heads -> Nat], NEW l, NEW k, {l, k} = Heads, l # k, NEW n \in Nat,
           NEW z, z = [s EXCEPT ![l] = n]
    PROVE  z \in [Heads -> Nat] /\ z[l] = n /\ z[k] = s[k]
<1>1. l \in Heads /\ k \in Heads
  OBVIOUS
<1> QED
  BY <1>1

(* Two lists stay two lists when one gets a node of neither,               *)
LEMMA ListsAdd ==
    ASSUME NEW m, NEW m2, NEW l, NEW f, NEW k, NEW g, NEW p, NEW t,
           Adds(m, m2, l, f, k, g, p, t)
    PROVE  /\ TwoLists(m2, l, Spliced(f, m.size[l], p, t), k, g)
           /\ m2.size[l] = m.size[l] + 1 /\ m2.size[k] = m.size[k]
<1> USE DEF Adds
<1> DEFINE n == m.size[l]
           nk == m.size[k]
           before == IF p = 0 THEN l ELSE f[p]
           after == IF p = n THEN l ELSE f[p + 1]
           nx == m.next
           pv == m.prev
           nx2 == m2.next
           pv2 == m2.prev
<1>1. /\ n \in Nat /\ nk \in Nat
      /\ Timer!Nodes = Timers \cup {l, k} /\ l \notin Timers /\ k \notin Timers /\ l # k
      /\ \A i \in 1 .. n : f[i] \in Timers
      /\ \A i \in 1 .. nk : g[i] \in Timers
  BY NodesAre
<1>2. t \in Timers /\ (\A i \in 1 .. n : f[i] # t) /\ (\A i \in 1 .. nk : g[i] # t)
  BY DEF Outside
<1>3. Chain(nx, pv, l, n, f) /\ Chain(nx, pv, k, nk, g)
  BY DEF TwoLists
<1>4. /\ nx2[t] = (IF p = n THEN t ELSE f[p + 1]) /\ nx2[before] = t
      /\ pv2[t] = (IF p = 0 THEN t ELSE f[p]) /\ pv2[after] = t
      /\ \A u \in Timer!Nodes : u \notin {t, before} => nx2[u] = nx[u]
      /\ \A u \in Timer!Nodes : u \notin {t, after} => pv2[u] = pv[u]
  OBVIOUS
<1>5. m2.size = [m.size EXCEPT ![l] = n + 1] /\ m.size \in [Heads -> Nat] /\ {l, k} = Heads
  BY DEF TwoLists, Shape
<1>6. m2.size \in [Heads -> Nat] /\ m2.size[l] = n + 1 /\ m2.size[k] = nk
  <2>1. n + 1 \in Nat
    BY <1>1
  <2> QED
    BY <1>1, <1>5, <2>1, SizesOfHeads
<1>7. Shape(m2)
  BY <1>6 DEF Shape, Fields
<1>8. (p # 0 => p \in 1 .. n) /\ (p # n => p + 1 \in 1 .. n)
  BY <1>1
<1>9. before \in Timers \cup {l} /\ after \in Timers \cup {l}
  BY <1>1, <1>8
<1>10. \A i \in 1 .. n, j \in 1 .. nk : f[i] # g[j]
  BY DEF TwoLists
<1>11. \A i \in 1 .. nk : g[i] # before /\ g[i] # after /\ g[i] # t
  BY <1>1, <1>2, <1>8, <1>10
<1>12. before = (IF p = 0 THEN l ELSE f[p]) /\ after = (IF p = n THEN l ELSE f[p + 1])
  OBVIOUS
<1> HIDE DEF before, after, n, nk, nx, pv, nx2, pv2
<1>13. Chain(nx2, pv2, l, n + 1, Spliced(f, n, p, t))
  <2>1. p \in 0 .. n
    BY DEF n
  <2>2. \A u \in Timers \cup {l} : u \notin {t, before} => nx2[u] = nx[u]
    BY <1>1, <1>4
  <2>3. \A u \in Timers \cup {l} : u \notin {t, after} => pv2[u] = pv[u]
    BY <1>1, <1>4
  <2>4. LinksAdd(nx, pv, nx2, pv2, l, n, f, p, t, before, after)
    BY <1>1, <1>2, <1>3, <1>4, <1>12, <2>1, <2>2, <2>3 DEF LinksAdd
  <2> QED
    BY <2>4, ChainAdds
<1>14. Chain(nx2, pv2, k, nk, g)
  <2>1. nx2[k] = nx[k] /\ pv2[k] = pv[k]
    BY <1>1, <1>2, <1>4, <1>9
  <2>2. \A i \in 1 .. nk : nx2[g[i]] = nx[g[i]] /\ pv2[g[i]] = pv[g[i]]
    BY <1>1, <1>4, <1>11
  <2> QED
    BY <1>3, <2>1, <2>2, ChainStays
<1>15. \A i \in 1 .. n + 1, j \in 1 .. nk : Spliced(f, n, p, t)[i] # g[j]
  <2> SUFFICES ASSUME NEW i \in 1 .. n + 1, NEW j \in 1 .. nk
               PROVE  Spliced(f, n, p, t)[i] # g[j]
    OBVIOUS
  <2>1. p \in 0 .. n
    BY DEF n
  <2>2. Spliced(f, n, p, t)[i] = IF i <= p THEN f[i] ELSE IF i = p + 1 THEN t ELSE f[i - 1]
    BY DEF Spliced
  <2>3. (i <= p => i \in 1 .. n) /\ (~(i <= p) /\ i # p + 1 => i - 1 \in 1 .. n)
    BY <1>1, <2>1
  <2> QED
    BY <1>2, <1>10, <2>2, <2>3
<1> QED
  BY <1>1, <1>5, <1>6, <1>7, <1>13, <1>14, <1>15 DEF TwoLists, n, nk, nx2, pv2

(* and when one loses a node, which is then in neither.                    *)
LEMMA ListsLose ==
    ASSUME NEW m, NEW m2, NEW l, NEW f, NEW k, NEW g, NEW p, Loses(m, m2, l, f, k, g, p)
    PROVE  /\ TwoLists(m2, l, Cut(f, m.size[l], p), k, g)
           /\ m2.size[l] = m.size[l] - 1 /\ m2.size[k] = m.size[k]
           /\ Outside(m2, l, Cut(f, m.size[l], p), k, g, f[p])
<1> USE DEF Loses
<1> DEFINE n == m.size[l]
           nk == m.size[k]
           before == IF p = 1 THEN l ELSE f[p - 1]
           after == IF p = n THEN l ELSE f[p + 1]
           nx == m.next
           pv == m.prev
           nx2 == m2.next
           pv2 == m2.prev
<1>1. /\ n \in Nat /\ nk \in Nat
      /\ Timer!Nodes = Timers \cup {l, k} /\ l \notin Timers /\ k \notin Timers /\ l # k
      /\ \A i \in 1 .. n : f[i] \in Timers
      /\ \A i \in 1 .. nk : g[i] \in Timers
      /\ \A i, j \in 1 .. n : f[i] = f[j] => i = j
  BY NodesAre
<1>2. p \in 1 .. n /\ p \in Nat /\ n - 1 \in Nat
  BY <1>1
<1>3. Chain(nx, pv, l, n, f) /\ Chain(nx, pv, k, nk, g)
  BY DEF TwoLists
<1>4. /\ nx2[before] = (IF p = n THEN before ELSE f[p + 1])
      /\ pv2[after] = (IF p = 1 THEN after ELSE f[p - 1])
      /\ \A u \in Timer!Nodes : u \notin {f[p], before} => nx2[u] = nx[u]
      /\ \A u \in Timer!Nodes : u \notin {f[p], after} => pv2[u] = pv[u]
  OBVIOUS
<1>5. m2.size = [m.size EXCEPT ![l] = n - 1] /\ m.size \in [Heads -> Nat] /\ {l, k} = Heads
  BY DEF TwoLists, Shape
<1>6. m2.size \in [Heads -> Nat] /\ m2.size[l] = n - 1 /\ m2.size[k] = nk
  BY <1>1, <1>2, <1>5, SizesOfHeads
<1>7. Shape(m2)
  BY <1>6 DEF Shape, Fields
<1>8. (p # 1 => p - 1 \in 1 .. n) /\ (p # n => p + 1 \in 1 .. n)
  BY <1>1, <1>2
<1>9. before \in Timers \cup {l} /\ after \in Timers \cup {l} /\ f[p] \in Timers
  BY <1>1, <1>2, <1>8
<1>10. \A i \in 1 .. n, j \in 1 .. nk : f[i] # g[j]
  BY DEF TwoLists
<1>11. \A i \in 1 .. nk : g[i] # before /\ g[i] # after /\ g[i] # f[p]
  BY <1>1, <1>2, <1>8, <1>10
<1>12. before = (IF p = 1 THEN l ELSE f[p - 1]) /\ after = (IF p = n THEN l ELSE f[p + 1])
  OBVIOUS
<1> HIDE DEF before, after, n, nk, nx, pv, nx2, pv2
<1>13. Chain(nx2, pv2, l, n - 1, Cut(f, n, p))
  <2>2. \A u \in Timers \cup {l} : u \notin {f[p], before} => nx2[u] = nx[u]
    BY <1>1, <1>4
  <2>3. \A u \in Timers \cup {l} : u \notin {f[p], after} => pv2[u] = pv[u]
    BY <1>1, <1>4
  <2>4. LinksLose(nx, pv, nx2, pv2, l, n, f, p, before, after)
    BY <1>1, <1>2, <1>3, <1>4, <1>12, <2>2, <2>3 DEF LinksLose
  <2> QED
    BY <2>4, ChainLoses
<1>14. Chain(nx2, pv2, k, nk, g)
  <2>1. nx2[k] = nx[k] /\ pv2[k] = pv[k]
    BY <1>1, <1>4, <1>9
  <2>2. \A i \in 1 .. nk : nx2[g[i]] = nx[g[i]] /\ pv2[g[i]] = pv[g[i]]
    BY <1>1, <1>4, <1>11
  <2> QED
    BY <1>3, <2>1, <2>2, ChainStays
<1>15. \A i \in 1 .. n - 1 : /\ Cut(f, n, p)[i] # f[p]
                             /\ \A j \in 1 .. nk : Cut(f, n, p)[i] # g[j]
  <2> SUFFICES ASSUME NEW i \in 1 .. n - 1
               PROVE  /\ Cut(f, n, p)[i] # f[p]
                      /\ \A j \in 1 .. nk : Cut(f, n, p)[i] # g[j]
    OBVIOUS
  <2>2. Cut(f, n, p)[i] = IF i < p THEN f[i] ELSE f[i + 1]
    BY DEF Cut
  <2>3. /\ i \in 1 .. n /\ i + 1 \in 1 .. n
        /\ i < p => i # p
        /\ ~(i < p) => i + 1 # p
    BY <1>1, <1>2
  <2> QED
    BY <1>1, <1>2, <1>10, <2>2, <2>3
<1>16. Outside(m2, l, Cut(f, n, p), k, g, f[p])
  BY <1>6, <1>9, <1>11, <1>15 DEF Outside
<1> QED
  BY <1>1, <1>5, <1>6, <1>7, <1>13, <1>14, <1>15, <1>16 DEF TwoLists, n, nk, nx2, pv2

(* What the chain says of its ends.                                        *)
LEMMA ListEnds ==
    ASSUME NEW m, NEW l, NEW f, NEW k, NEW g, TwoLists(m, l, f, k, g)
    PROVE  /\ Fields(m)
           /\ m.next \in [Timer!Nodes -> Timer!Nodes] /\ m.prev \in [Timer!Nodes -> Timer!Nodes]
           /\ m.size \in [Heads -> Nat] /\ l \in Heads
           /\ Timer!Alone(m, l) <=> m.size[l] = 0
           /\ m.size[l] = 0 => m.next[l] = l /\ m.prev[l] = l
           /\ m.size[l] > 0 => /\ 1 \in 1 .. m.size[l] /\ m.size[l] \in 1 .. m.size[l]
                               /\ m.next[l] = f[1] /\ m.prev[f[1]] = f[1]
                               /\ m.prev[l] = f[m.size[l]] /\ m.next[f[m.size[l]]] = f[m.size[l]]
           /\ \A i \in 1 .. m.size[l] - 1 : m.next[f[i]] = f[i + 1] /\ m.prev[f[i + 1]] = f[i]
<1>1. Shape(m) /\ {l, k} = Heads /\ Chain(m.next, m.prev, l, m.size[l], f)
  BY DEF TwoLists
<1>2. /\ Fields(m)
      /\ m.next \in [Timer!Nodes -> Timer!Nodes] /\ m.prev \in [Timer!Nodes -> Timer!Nodes]
      /\ m.size \in [Heads -> Nat] /\ l \in Heads
  BY <1>1 DEF Shape, Fields
<1>3. m.size[l] \in Nat
  BY <1>2
<1>4. m.size[l] = 0 => m.next[l] = l /\ m.prev[l] = l
  BY <1>1 DEF Chain
<1>5. m.size[l] > 0 => /\ 1 \in 1 .. m.size[l] /\ m.size[l] \in 1 .. m.size[l]
                       /\ m.next[l] = f[1] /\ m.prev[f[1]] = f[1]
                       /\ m.prev[l] = f[m.size[l]] /\ m.next[f[m.size[l]]] = f[m.size[l]]
  BY <1>1, <1>3 DEF Chain
<1>6. \A i \in 1 .. m.size[l] - 1 : m.next[f[i]] = f[i + 1] /\ m.prev[f[i + 1]] = f[i]
  BY <1>1 DEF Chain
<1>7. m.size[l] > 0 => f[1] # l
  <2>1. l \notin Timers /\ \A i \in 1 .. m.size[l] : f[i] \in Timers
    BY NodesAre
  <2> QED
    BY <1>5, <2>1
<1>8. Timer!Alone(m, l) <=> m.size[l] = 0
  BY <1>3, <1>4, <1>5, <1>7 DEF Timer!Alone
<1> QED
  BY <1>2, <1>4, <1>5, <1>6, <1>8

(* SL_Seda_TimerList::push_front, push_back and insert, called with a node *)
(* of neither list.                                                        *)
LEMMA PushesFront ==
    ASSUME NEW m, NEW l, NEW f, NEW k, NEW g, TwoLists(m, l, f, k, g),
           NEW t, Outside(m, l, f, k, g, t)
    PROVE  LET m2 == Timer!PushFront(m, l, t) IN
           /\ TwoLists(m2, l, Spliced(f, m.size[l], 0, t), k, g)
           /\ m2.size[l] = m.size[l] + 1 /\ m2.size[k] = m.size[k]
<1> DEFINE m2 == Timer!PushFront(m, l, t)
           n == m.size[l]
           old == IF Timer!Alone(m, l) THEN t ELSE m.next[l]
           beyond == IF Timer!Alone(m, l) THEN l ELSE m.next[l]
<1>1. /\ n \in Nat /\ Timer!Nodes = Timers \cup {l, k} /\ l \notin Timers
      /\ \A i \in 1 .. n : f[i] \in Timers
  BY NodesAre
<1>2. t \in Timers
  BY DEF Outside
<1>3. /\ m.next \in [Timer!Nodes -> Timer!Nodes] /\ m.prev \in [Timer!Nodes -> Timer!Nodes]
      /\ (Timer!Alone(m, l) <=> n = 0) /\ (n > 0 => 1 \in 1 .. n /\ m.next[l] = f[1])
  BY ListEnds
<1>4. m2 = [next |-> [m.next EXCEPT ![t] = old, ![l] = t],
            prev |-> [m.prev EXCEPT ![t] = t, ![beyond] = t],
            size |-> [m.size EXCEPT ![l] = @ + 1]]
  BY Zenon DEF Timer!PushFront
<1>5. /\ m2.next = [m.next EXCEPT ![t] = old, ![l] = t]
      /\ m2.prev = [m.prev EXCEPT ![t] = t, ![beyond] = t]
      /\ m2.size = [m.size EXCEPT ![l] = @ + 1]
      /\ Fields(m2)
  BY <1>4 DEF Fields
<1>6. /\ old = IF n = 0 THEN t ELSE f[1]
      /\ beyond = IF n = 0 THEN l ELSE f[1]
  BY <1>1, <1>3
<1> HIDE DEF m2, old, beyond
<1>7. m2.next \in [Timer!Nodes -> Timer!Nodes] /\ m2.prev \in [Timer!Nodes -> Timer!Nodes]
  BY <1>1, <1>2, <1>3, <1>5, <1>6
<1>8. Adds(m, m2, l, f, k, g, 0, t)
  <2>5. 0 \in 0 .. n
    BY <1>1
  <2>1. m2.next[t] = (IF 0 = n THEN t ELSE f[0 + 1]) /\ m2.next[l] = t
    BY <1>1, <1>2, <1>3, <1>5, <1>6
  <2>2. m2.prev[t] = t /\ m2.prev[IF 0 = n THEN l ELSE f[0 + 1]] = t
    BY <1>1, <1>2, <1>3, <1>5, <1>6
  <2>3. \A u \in Timer!Nodes : u \notin {t, l} => m2.next[u] = m.next[u]
    BY <1>3, <1>5
  <2>4. \A u \in Timer!Nodes : u \notin {t, IF 0 = n THEN l ELSE f[0 + 1]} => m2.prev[u] = m.prev[u]
    BY <1>3, <1>5, <1>6
  <2> QED
    BY <1>5, <1>7, <2>1, <2>2, <2>3, <2>4, <2>5 DEF Adds
<1>9. /\ TwoLists(m2, l, Spliced(f, m.size[l], 0, t), k, g)
      /\ m2.size[l] = m.size[l] + 1 /\ m2.size[k] = m.size[k]
  BY <1>8, ListsAdd
<1> QED
  BY <1>9 DEF m2

LEMMA PushesBack ==
    ASSUME NEW m, NEW l, NEW f, NEW k, NEW g, TwoLists(m, l, f, k, g),
           NEW t, Outside(m, l, f, k, g, t)
    PROVE  LET m2 == Timer!PushBack(m, l, t) IN
           /\ TwoLists(m2, l, Spliced(f, m.size[l], m.size[l], t), k, g)
           /\ m2.size[l] = m.size[l] + 1 /\ m2.size[k] = m.size[k]
<1> DEFINE m2 == Timer!PushBack(m, l, t)
           n == m.size[l]
           old == IF Timer!Alone(m, l) THEN t ELSE m.prev[l]
           beyond == IF Timer!Alone(m, l) THEN l ELSE m.prev[l]
<1>1. /\ n \in Nat /\ Timer!Nodes = Timers \cup {l, k} /\ l \notin Timers
      /\ \A i \in 1 .. n : f[i] \in Timers
  BY NodesAre
<1>2. t \in Timers
  BY DEF Outside
<1>3. /\ m.next \in [Timer!Nodes -> Timer!Nodes] /\ m.prev \in [Timer!Nodes -> Timer!Nodes]
      /\ (Timer!Alone(m, l) <=> n = 0) /\ (n > 0 => n \in 1 .. n /\ m.prev[l] = f[n])
  BY ListEnds
<1>4. m2 = [next |-> [m.next EXCEPT ![t] = t, ![beyond] = t],
            prev |-> [m.prev EXCEPT ![t] = old, ![l] = t],
            size |-> [m.size EXCEPT ![l] = @ + 1]]
  BY Zenon DEF Timer!PushBack
<1>5. /\ m2.next = [m.next EXCEPT ![t] = t, ![beyond] = t]
      /\ m2.prev = [m.prev EXCEPT ![t] = old, ![l] = t]
      /\ m2.size = [m.size EXCEPT ![l] = @ + 1]
      /\ Fields(m2)
  BY <1>4 DEF Fields
<1>6. /\ old = IF n = 0 THEN t ELSE f[n]
      /\ beyond = IF n = 0 THEN l ELSE f[n]
  BY <1>1, <1>3
<1> HIDE DEF m2, old, beyond
<1>7. m2.next \in [Timer!Nodes -> Timer!Nodes] /\ m2.prev \in [Timer!Nodes -> Timer!Nodes]
  BY <1>1, <1>2, <1>3, <1>5, <1>6
<1>8. Adds(m, m2, l, f, k, g, n, t)
  <2>5. n \in 0 .. n
    BY <1>1
  <2>1. m2.next[t] = t /\ m2.next[IF n = 0 THEN l ELSE f[n]] = t
    BY <1>1, <1>2, <1>3, <1>5, <1>6
  <2>2. m2.prev[t] = (IF n = 0 THEN t ELSE f[n]) /\ m2.prev[l] = t
    BY <1>1, <1>2, <1>3, <1>5, <1>6
  <2>3. \A u \in Timer!Nodes : u \notin {t, IF n = 0 THEN l ELSE f[n]} => m2.next[u] = m.next[u]
    BY <1>3, <1>5, <1>6
  <2>4. \A u \in Timer!Nodes : u \notin {t, l} => m2.prev[u] = m.prev[u]
    BY <1>3, <1>5
  <2> QED
    BY <1>5, <1>7, <2>1, <2>2, <2>3, <2>4, <2>5 DEF Adds
<1>9. /\ TwoLists(m2, l, Spliced(f, m.size[l], m.size[l], t), k, g)
      /\ m2.size[l] = m.size[l] + 1 /\ m2.size[k] = m.size[k]
  BY <1>8, ListsAdd
<1> QED
  BY <1>9 DEF m2

LEMMA InsertsAfter ==
    ASSUME NEW m, NEW l, NEW f, NEW k, NEW g, TwoLists(m, l, f, k, g),
           NEW t, Outside(m, l, f, k, g, t), NEW p \in 1 .. m.size[l]
    PROVE  LET m2 == Timer!InsertAfter(m, l, f[p], t) IN
           /\ TwoLists(m2, l, Spliced(f, m.size[l], p, t), k, g)
           /\ m2.size[l] = m.size[l] + 1 /\ m2.size[k] = m.size[k]
<1> DEFINE m2 == Timer!InsertAfter(m, l, f[p], t)
           n == m.size[l]
           pos == f[p]
           next == m.next[pos]
           last == pos = m.prev[l]
           p1 == [m.prev EXCEPT ![t] = pos, ![next] = IF next # pos THEN t ELSE @]
<1>1. /\ n \in Nat /\ Timer!Nodes = Timers \cup {l, k} /\ l \notin Timers
      /\ \A i \in 1 .. n : f[i] \in Timers
      /\ \A i, j \in 1 .. n : f[i] = f[j] => i = j
  BY NodesAre
<1>2. t \in Timers /\ \A i \in 1 .. n : f[i] # t
  BY DEF Outside
<1>3. p \in 1 .. n /\ n > 0 /\ n \in 1 .. n /\ (p # n => p \in 1 .. n - 1 /\ p + 1 \in 1 .. n /\ p # p + 1)
  BY <1>1
<1>4. /\ m.next \in [Timer!Nodes -> Timer!Nodes] /\ m.prev \in [Timer!Nodes -> Timer!Nodes]
      /\ m.prev[l] = f[n] /\ m.next[f[n]] = f[n]
      /\ \A i \in 1 .. n - 1 : m.next[f[i]] = f[i + 1] /\ m.prev[f[i + 1]] = f[i]
  BY <1>3, ListEnds
<1>5. m2 = [next |-> [m.next EXCEPT ![t] = IF last THEN t ELSE next, ![pos] = t],
            prev |-> [p1 EXCEPT ![l] = IF last THEN t ELSE @],
            size |-> [m.size EXCEPT ![l] = @ + 1]]
  BY Zenon DEF Timer!InsertAfter
<1>6. /\ m2.next = [m.next EXCEPT ![t] = IF last THEN t ELSE next, ![pos] = t]
      /\ m2.prev = [p1 EXCEPT ![l] = IF last THEN t ELSE @]
      /\ m2.size = [m.size EXCEPT ![l] = @ + 1]
      /\ Fields(m2)
  BY <1>5 DEF Fields
<1>7. /\ last <=> p = n
      /\ next = IF p = n THEN pos ELSE f[p + 1]
      /\ next # pos <=> p # n
  BY <1>1, <1>3, <1>4
<1>8. pos \in Timers /\ pos # t /\ next \in Timers /\ next # t
  BY <1>1, <1>2, <1>3, <1>7
<1>9. p1 = [m.prev EXCEPT ![t] = pos, ![next] = IF next # pos THEN t ELSE @]
  OBVIOUS
<1> HIDE DEF m2, pos, next, last, p1
<1>10. /\ p1 \in [Timer!Nodes -> Timer!Nodes] /\ p1[t] = pos
       /\ p # n => p1[next] = t
       /\ \A u \in Timer!Nodes : u # t /\ (p # n => u # next) => p1[u] = m.prev[u]
  BY <1>1, <1>2, <1>4, <1>7, <1>8, <1>9
<1>11. m2.next \in [Timer!Nodes -> Timer!Nodes] /\ m2.prev \in [Timer!Nodes -> Timer!Nodes]
  BY <1>1, <1>2, <1>4, <1>6, <1>8, <1>10
<1>12. /\ m2.next[t] = (IF p = n THEN t ELSE next) /\ m2.next[pos] = t
       /\ \A u \in Timer!Nodes : u \notin {t, pos} => m2.next[u] = m.next[u]
  BY <1>1, <1>2, <1>4, <1>6, <1>7, <1>8
<1>13. /\ m2.prev[t] = pos /\ m2.prev[IF p = n THEN l ELSE next] = t
       /\ \A u \in Timer!Nodes : u \notin {t, IF p = n THEN l ELSE next} => m2.prev[u] = m.prev[u]
  BY <1>1, <1>2, <1>6, <1>7, <1>8, <1>10
<1>14. Adds(m, m2, l, f, k, g, p, t)
  <2>1. p # 0 /\ p \in 0 .. n
    BY <1>3
  <2> QED
    BY <1>6, <1>7, <1>11, <1>12, <1>13, <2>1 DEF Adds, pos
<1>15. /\ TwoLists(m2, l, Spliced(f, m.size[l], p, t), k, g)
       /\ m2.size[l] = m.size[l] + 1 /\ m2.size[k] = m.size[k]
  BY <1>14, ListsAdd
<1> QED
  BY <1>15 DEF m2, pos

(* m2 is m with the links x and y.                                         *)
Relinked(m, m2, x, y) == m2 = [m EXCEPT !.next = x, !.prev = y]

(* The fields of a record that was changed.                                *)
LEMMA LinksChange ==
    ASSUME NEW m, Fields(m), NEW x, NEW y, NEW m2, Relinked(m, m2, x, y)
    PROVE  m2.next = x /\ m2.prev = y /\ m2.size = m.size /\ Fields(m2)
<1> DEFINE R == [next : {m.next, x}, prev : {m.prev, y}, size : {m.size}]
<1>1. m \in R
  BY DEF Fields
<1>2. m2 \in R /\ m2.next = x /\ m2.prev = y /\ m2.size = m.size
  BY <1>1 DEF Relinked
<1> QED
  BY <1>2 DEF Fields

(* m2 is m with x behind t and y before u.                                 *)
Rewired(m, m2, t, u, x, y) == m2 = [m EXCEPT !.next[t] = x, !.prev[u] = y]

(* The links of a record that was changed.                                 *)
LEMMA NodesChange ==
    ASSUME NEW m, Fields(m), NEW t, NEW u, NEW x, NEW y, NEW m2, Rewired(m, m2, t, u, x, y)
    PROVE  /\ m2.next = [m.next EXCEPT ![t] = x] /\ m2.prev = [m.prev EXCEPT ![u] = y]
           /\ m2.size = m.size /\ Fields(m2)
<1> DEFINE a == [m.next EXCEPT ![t] = x]
           b == [m.prev EXCEPT ![u] = y]
<1>1. Relinked(m, m2, a, b)
  BY DEF Relinked, Rewired
<1> HIDE DEF a, b
<1>2. m2.next = a /\ m2.prev = b /\ m2.size = m.size /\ Fields(m2)
  BY <1>1, LinksChange
<1> QED
  BY <1>2 DEF a, b

(* A node of neither list is linked anew, to itself or to anything.        *)
LEMMA ListsStay ==
    ASSUME NEW m, NEW l, NEW f, NEW k, NEW g, TwoLists(m, l, f, k, g),
           NEW t, Outside(m, l, f, k, g, t), NEW x \in Timer!Nodes, NEW y \in Timer!Nodes,
           NEW m2, Rewired(m, m2, t, t, x, y)
    PROVE  TwoLists(m2, l, f, k, g) /\ m2.size = m.size
<1>1. /\ Fields(m)
      /\ m.next \in [Timer!Nodes -> Timer!Nodes] /\ m.prev \in [Timer!Nodes -> Timer!Nodes]
      /\ m.size \in [Heads -> Nat]
  BY ListEnds
<1>2. /\ m2.next = [m.next EXCEPT ![t] = x] /\ m2.prev = [m.prev EXCEPT ![t] = y]
      /\ m2.size = m.size /\ Fields(m2)
  BY <1>1, NodesChange
<1>3. /\ m.size[l] \in Nat /\ m.size[k] \in Nat
      /\ Timer!Nodes = Timers \cup {l, k} /\ l \notin Timers /\ k \notin Timers
      /\ \A i \in 1 .. m.size[l] : f[i] \in Timers
      /\ \A i \in 1 .. m.size[k] : g[i] \in Timers
  BY NodesAre
<1>4. /\ t \in Timers
      /\ \A i \in 1 .. m.size[l] : f[i] # t
      /\ \A i \in 1 .. m.size[k] : g[i] # t
  BY DEF Outside
<1>5. Chain(m.next, m.prev, l, m.size[l], f) /\ Chain(m.next, m.prev, k, m.size[k], g)
  BY DEF TwoLists
<1>6. Chain(m2.next, m2.prev, l, m.size[l], f)
  <2>1. m2.next[l] = m.next[l] /\ m2.prev[l] = m.prev[l]
    BY <1>1, <1>2, <1>3, <1>4
  <2>2. \A i \in 1 .. m.size[l] : m2.next[f[i]] = m.next[f[i]] /\ m2.prev[f[i]] = m.prev[f[i]]
    BY <1>1, <1>2, <1>3, <1>4
  <2> QED
    BY <1>5, <2>1, <2>2, ChainStays
<1>7. Chain(m2.next, m2.prev, k, m.size[k], g)
  <2>1. m2.next[k] = m.next[k] /\ m2.prev[k] = m.prev[k]
    BY <1>1, <1>2, <1>3, <1>4
  <2>2. \A i \in 1 .. m.size[k] : m2.next[g[i]] = m.next[g[i]] /\ m2.prev[g[i]] = m.prev[g[i]]
    BY <1>1, <1>2, <1>3, <1>4
  <2> QED
    BY <1>5, <2>1, <2>2, ChainStays
<1>8. Shape(m2)
  <2>1. m2.next \in [Timer!Nodes -> Timer!Nodes] /\ m2.prev \in [Timer!Nodes -> Timer!Nodes]
    BY <1>1, <1>2, ZenonT(60)
  <2> QED
    BY <1>1, <1>2, <2>1 DEF Shape, Fields
<1>9. TwoLists(m2, l, f, k, g)
  BY <1>2, <1>6, <1>7, <1>8 DEF TwoLists
<1> QED
  BY <1>2, <1>9

(* The head of a list that has lost its last node is alone again.          *)
LEMMA ShrunkIs ==
    ASSUME NEW m, NEW l, m.size[l] \in Nat, Fields(m)
    PROVE  LET s == Timer!Shrunk(m, l) IN
           /\ Fields(s) /\ s.size = [m.size EXCEPT ![l] = @ - 1]
           /\ m.size[l] = 1 => s.next = [m.next EXCEPT ![l] = l] /\ s.prev = [m.prev EXCEPT ![l] = l]
           /\ m.size[l] # 1 => s.next = m.next /\ s.prev = m.prev
<1>1. CASE m.size[l] = 1
  BY <1>1 DEF Timer!Shrunk, Fields
<1>2. CASE m.size[l] # 1
  BY <1>2 DEF Timer!Shrunk, Fields
<1> QED
  BY <1>1, <1>2

(* SL_Seda_TimerList::pop_front.                                           *)
LEMMA PopsFront ==
    ASSUME NEW m, NEW l, NEW f, NEW k, NEW g, TwoLists(m, l, f, k, g), m.size[l] > 0
    PROVE  LET m2 == Timer!PopFront(m, l) IN
           /\ TwoLists(m2, l, Cut(f, m.size[l], 1), k, g)
           /\ m2.size[l] = m.size[l] - 1 /\ m2.size[k] = m.size[k]
           /\ Outside(m2, l, Cut(f, m.size[l], 1), k, g, f[1])
           /\ m.next[l] = f[1] /\ f[1] \in Timers
<1> DEFINE m2 == Timer!PopFront(m, l)
           n == m.size[l]
           second == m.next[m.next[l]]
           m1 == [m EXCEPT !.next[l] = second, !.prev[second] = second]
<1>1. /\ n \in Nat /\ Timer!Nodes = Timers \cup {l, k} /\ l \notin Timers
      /\ \A i \in 1 .. n : f[i] \in Timers
      /\ \A i, j \in 1 .. n : f[i] = f[j] => i = j
  BY NodesAre
<1>2. /\ Fields(m)
      /\ m.next \in [Timer!Nodes -> Timer!Nodes] /\ m.prev \in [Timer!Nodes -> Timer!Nodes]
      /\ ~Timer!Alone(m, l) /\ 1 \in 1 .. n /\ m.next[l] = f[1] /\ m.next[f[n]] = f[n]
      /\ \A i \in 1 .. n - 1 : m.next[f[i]] = f[i + 1]
  <2>1. ~(n = 0)
    OBVIOUS
  <2> QED
    BY <2>1, ListEnds
<1>3. second = IF n = 1 THEN f[1] ELSE f[2]
  BY <1>1, <1>2
<1>4. second \in Timers /\ f[1] \in Timers
  <2>1. n # 1 => 2 \in 1 .. n
    BY <1>1
  <2> QED
    BY <1>1, <1>2, <1>3, <2>1
<1>5. /\ m1.next = [m.next EXCEPT ![l] = second] /\ m1.prev = [m.prev EXCEPT ![second] = second]
      /\ m1.size = m.size /\ Fields(m1)
  <2>1. Rewired(m, m1, l, second, second, second)
    BY DEF Rewired
  <2> HIDE DEF m1, second
  <2> QED
    BY <1>2, <2>1, NodesChange
<1>6. m2 = Timer!Shrunk(m1, l)
  BY <1>2 DEF Timer!PopFront
<1> HIDE DEF m2, m1, second
<1>7. /\ Fields(m2) /\ m2.size = [m.size EXCEPT ![l] = @ - 1]
      /\ n = 1 => m2.next = [m1.next EXCEPT ![l] = l] /\ m2.prev = [m1.prev EXCEPT ![l] = l]
      /\ n # 1 => m2.next = m1.next /\ m2.prev = m1.prev
  BY <1>1, <1>5, <1>6, ShrunkIs
<1>8. Loses(m, m2, l, f, k, g, 1)
  <2>1. CASE n = 1
    <3>1. m2.next = [m.next EXCEPT ![l] = l]
      BY <1>2, <1>5, <1>7, <2>1
    <3>2. m2.prev = [m.prev EXCEPT ![f[1]] = f[1], ![l] = l]
      BY <1>2, <1>3, <1>5, <1>7, <2>1
    <3>3. m2.next \in [Timer!Nodes -> Timer!Nodes] /\ m2.prev \in [Timer!Nodes -> Timer!Nodes]
      BY <1>1, <1>2, <1>4, <3>1, <3>2
    <3>4. m2.next[l] = l /\ m2.prev[l] = l
      BY <1>1, <1>2, <1>4, <3>1, <3>2
    <3>5. \A u \in Timer!Nodes : u \notin {f[1], l} => m2.next[u] = m.next[u] /\ m2.prev[u] = m.prev[u]
      BY <1>2, <3>1, <3>2
    <3> QED
      BY <1>2, <1>7, <2>1, <3>3, <3>4, <3>5 DEF Loses
  <2>2. CASE n # 1
    <3>1. m2.next = [m.next EXCEPT ![l] = f[2]]
      BY <1>3, <1>5, <1>7, <2>2
    <3>2. m2.prev = [m.prev EXCEPT ![f[2]] = f[2]]
      BY <1>3, <1>5, <1>7, <2>2
    <3>3. m2.next \in [Timer!Nodes -> Timer!Nodes] /\ m2.prev \in [Timer!Nodes -> Timer!Nodes]
      BY <1>1, <1>2, <1>3, <1>4, <2>2, <3>1, <3>2
    <3>4. m2.next[l] = f[2] /\ m2.prev[f[2]] = f[2]
      BY <1>1, <1>2, <1>3, <1>4, <2>2, <3>1, <3>2
    <3>5. /\ \A u \in Timer!Nodes : u \notin {f[1], l} => m2.next[u] = m.next[u]
          /\ \A u \in Timer!Nodes : u \notin {f[1], f[2]} => m2.prev[u] = m.prev[u]
      BY <1>2, <3>1, <3>2
    <3> QED
      BY <1>2, <1>7, <2>2, <3>3, <3>4, <3>5 DEF Loses
  <2> QED
    BY <2>1, <2>2
<1>9. /\ TwoLists(m2, l, Cut(f, m.size[l], 1), k, g)
      /\ m2.size[l] = m.size[l] - 1 /\ m2.size[k] = m.size[k]
      /\ Outside(m2, l, Cut(f, m.size[l], 1), k, g, f[1])
  BY <1>8, ListsLose
<1> QED
  BY <1>2, <1>4, <1>9 DEF m2

(* The links that remove changes, one after the other.                     *)
RemovalLinks(m, l, t, n1, p1, n2, p2, p3, n3) ==
    /\ n1 = [m.next EXCEPT ![m.prev[t]] = m.next[t]]
    /\ p1 = [m.prev EXCEPT ![n1[t]] = m.prev[t]]
    /\ n2 = [n1 EXCEPT ![l] = IF t = n1[l] THEN n1[t] ELSE n1[l]]
    /\ p2 = [p1 EXCEPT ![n2[l]] = IF t = n1[l] THEN n2[l] ELSE p1[n2[l]]]
    /\ p3 = [p2 EXCEPT ![l] = IF t = p2[l] THEN p2[t] ELSE p2[l]]
    /\ n3 = [n2 EXCEPT ![p3[l]] = IF t = p2[l] THEN p3[l] ELSE n2[p3[l]]]

(* m2 has the links n3 and p3, but those of t and of a head alone.         *)
UnlinkedWith(m, l, t, n3, p3, m2) ==
    /\ Fields(m2) /\ m2.size = [m.size EXCEPT ![l] = @ - 1]
    /\ m.size[l] = 1 => /\ m2.next = [n3 EXCEPT ![l] = l, ![t] = t]
                        /\ m2.prev = [p3 EXCEPT ![l] = l, ![t] = t]
    /\ m.size[l] # 1 => /\ m2.next = [n3 EXCEPT ![t] = t]
                        /\ m2.prev = [p3 EXCEPT ![t] = t]

(* SL_Seda_TimerList::remove on a list that is not empty, step by step.    *)
LEMMA RemoveIs ==
    ASSUME NEW m, NEW l, NEW t, m.size[l] \in Nat, m.size[l] # 0, Fields(m),
           NEW n1, NEW p1, NEW n2, NEW p2, NEW p3, NEW n3,
           RemovalLinks(m, l, t, n1, p1, n2, p2, p3, n3)
    PROVE  UnlinkedWith(m, l, t, n3, p3, Timer!Remove(m, l, t))
<1> DEFINE N1 == [m.next EXCEPT ![m.prev[t]] = m.next[t]]
           P1 == [m.prev EXCEPT ![N1[t]] = m.prev[t]]
           N2 == [N1 EXCEPT ![l] = IF t = N1[l] THEN N1[t] ELSE @]
           P2 == [P1 EXCEPT ![N2[l]] = IF t = N1[l] THEN N2[l] ELSE @]
           P3 == [P2 EXCEPT ![l] = IF t = P2[l] THEN P2[t] ELSE @]
           N3 == [N2 EXCEPT ![P3[l]] = IF t = P2[l] THEN P3[l] ELSE @]
           m1 == [m EXCEPT !.next = N3, !.prev = P3]
           s == Timer!Shrunk(m1, l)
           m2 == Timer!Remove(m, l, t)
<1>1. Rewired(s, m2, t, t, t, t)
  BY ONLY m.size[l] # 0, Zenon DEF Timer!Remove, Rewired
<1> HIDE DEF m2, s
<1>2. m1.next = N3 /\ m1.prev = P3 /\ m1.size = m.size /\ Fields(m1)
  <2> HIDE DEF N3, P3
  <2>1. Relinked(m, m1, N3, P3)
    BY DEF Relinked
  <2> HIDE DEF m1
  <2> QED
    BY ONLY Fields(m), <2>1, LinksChange
<1> HIDE DEF m1, N3, P3
<1>3. N3 = n3 /\ P3 = p3
  <2>1. N1 = n1
    BY ZenonT(60) DEF RemovalLinks
  <2> HIDE DEF N1
  <2>2. P1 = p1
    BY <2>1, ZenonT(60) DEF RemovalLinks
  <2> HIDE DEF P1
  <2>3. N2 = n2
    <3>1. n2 = [n1 EXCEPT ![l] = IF t = n1[l] THEN n1[t] ELSE n1[l]]
      BY ZenonT(60) DEF RemovalLinks
    <3> QED
      BY ONLY <2>1, <3>1, ZenonT(60)
  <2> HIDE DEF N2
  <2>4. P2 = p2
    BY <2>1, <2>2, <2>3, ZenonT(60) DEF RemovalLinks, P2
  <2> HIDE DEF P2
  <2>5. P3 = p3
    <3>1. p3 = [p2 EXCEPT ![l] = IF t = p2[l] THEN p2[t] ELSE p2[l]]
      BY ZenonT(60) DEF RemovalLinks
    <3> QED
      BY ONLY <2>4, <3>1, Zenon DEF P3
  <2> QED
    <3>1. n3 = [n2 EXCEPT ![p3[l]] = IF t = p2[l] THEN p3[l] ELSE n2[p3[l]]]
      BY ZenonT(60) DEF RemovalLinks
    <3> QED
      BY ONLY <2>3, <2>4, <2>5, <3>1, ZenonT(60) DEF N3
<1>4. /\ Fields(s) /\ s.size = [m.size EXCEPT ![l] = @ - 1]
      /\ m.size[l] = 1 => s.next = [n3 EXCEPT ![l] = l] /\ s.prev = [p3 EXCEPT ![l] = l]
      /\ m.size[l] # 1 => s.next = n3 /\ s.prev = p3
  <2>1. m1.size[l] \in Nat /\ Fields(m1)
    BY <1>2
  <2>2. /\ Fields(s) /\ s.size = [m1.size EXCEPT ![l] = @ - 1]
        /\ m1.size[l] = 1 => s.next = [m1.next EXCEPT ![l] = l] /\ s.prev = [m1.prev EXCEPT ![l] = l]
        /\ m1.size[l] # 1 => s.next = m1.next /\ s.prev = m1.prev
    BY ONLY <2>1, ShrunkIs DEF s
  <2> QED
    BY ONLY <1>2, <1>3, <2>2
<1>5. /\ m2.next = [s.next EXCEPT ![t] = t] /\ m2.prev = [s.prev EXCEPT ![t] = t]
      /\ m2.size = s.size /\ Fields(m2)
  BY ONLY <1>1, <1>4, NodesChange
<1>6. m.size[l] = 1 => /\ m2.next = [n3 EXCEPT ![l] = l, ![t] = t]
                       /\ m2.prev = [p3 EXCEPT ![l] = l, ![t] = t]
  BY ONLY <1>4, <1>5
<1> QED
  BY ONLY <1>4, <1>5, <1>6 DEF m2, UnlinkedWith

(* It unlinks any node of the list: the first, the last, the only one or   *)
(* one between.                                                            *)
LEMMA Removes ==
    ASSUME NEW m, NEW l, NEW f, NEW k, NEW g, TwoLists(m, l, f, k, g), NEW p \in 1 .. m.size[l]
    PROVE  LET m2 == Timer!Remove(m, l, f[p]) IN
           /\ TwoLists(m2, l, Cut(f, m.size[l], p), k, g)
           /\ m2.size[l] = m.size[l] - 1 /\ m2.size[k] = m.size[k]
           /\ Outside(m2, l, Cut(f, m.size[l], p), k, g, f[p])
<1> DEFINE n == m.size[l]
           t == f[p]
           m2 == Timer!Remove(m, l, t)
           b == IF p = 1 THEN t ELSE f[p - 1]
           a == IF p = n THEN t ELSE f[p + 1]
           n1 == [m.next EXCEPT ![m.prev[t]] = m.next[t]]
           p1 == [m.prev EXCEPT ![n1[t]] = m.prev[t]]
           n2 == [n1 EXCEPT ![l] = IF t = n1[l] THEN n1[t] ELSE n1[l]]
           p2 == [p1 EXCEPT ![n2[l]] = IF t = n1[l] THEN n2[l] ELSE p1[n2[l]]]
           p3 == [p2 EXCEPT ![l] = IF t = p2[l] THEN p2[t] ELSE p2[l]]
           n3 == [n2 EXCEPT ![p3[l]] = IF t = p2[l] THEN p3[l] ELSE n2[p3[l]]]
<1>1. /\ n \in Nat /\ Timer!Nodes = Timers \cup {l, k} /\ l \notin Timers
      /\ \A i \in 1 .. n : f[i] \in Timers
      /\ \A i, j \in 1 .. n : f[i] = f[j] => i = j
  BY NodesAre
<1>2. /\ p \in 1 .. n /\ n # 0 /\ 1 \in 1 .. n /\ n \in 1 .. n
      /\ (p # 1 => p - 1 \in 1 .. n /\ p - 1 \in 1 .. n - 1 /\ p - 1 # p /\ (p - 1) + 1 = p)
      /\ (p # n => p + 1 \in 1 .. n /\ p \in 1 .. n - 1 /\ p + 1 # p)
      /\ (p # 1 /\ p # n => p - 1 # p + 1)
  BY <1>1
<1>3. /\ Fields(m)
      /\ m.next \in [Timer!Nodes -> Timer!Nodes] /\ m.prev \in [Timer!Nodes -> Timer!Nodes]
      /\ m.next[l] = f[1] /\ m.prev[f[1]] = f[1] /\ m.prev[l] = f[n] /\ m.next[f[n]] = f[n]
      /\ \A i \in 1 .. n - 1 : m.next[f[i]] = f[i + 1] /\ m.prev[f[i + 1]] = f[i]
  <2>1. n > 0
    BY <1>1, <1>2
  <2>2. m.next[l] = f[1] /\ m.prev[f[1]] = f[1] /\ m.prev[l] = f[n] /\ m.next[f[n]] = f[n]
    BY <2>1, ListEnds
  <2>3. \A i \in 1 .. n - 1 : m.next[f[i]] = f[i + 1] /\ m.prev[f[i + 1]] = f[i]
    BY ListEnds
  <2>4. Fields(m) /\ m.next \in [Timer!Nodes -> Timer!Nodes] /\ m.prev \in [Timer!Nodes -> Timer!Nodes]
    BY ListEnds
  <2> QED
    BY <2>2, <2>3, <2>4
<1>4. m.prev[t] = b /\ m.next[t] = a /\ b \in Timers /\ a \in Timers /\ t \in Timers
  BY <1>1, <1>2, <1>3
<1>5. (t = f[1] <=> p = 1) /\ (t = f[n] <=> p = n) /\ f[1] \in Timers /\ f[n] \in Timers
  BY <1>1, <1>2
<1>6. (b = t <=> p = 1) /\ (a = t <=> p = n) /\ (a = b <=> p = 1 /\ p = n)
  BY <1>1, <1>2
<1>7. /\ Fields(m2) /\ m2.size = [m.size EXCEPT ![l] = @ - 1]
      /\ n = 1 => /\ m2.next = [n3 EXCEPT ![l] = l, ![t] = t]
                  /\ m2.prev = [p3 EXCEPT ![l] = l, ![t] = t]
      /\ n # 1 => /\ m2.next = [n3 EXCEPT ![t] = t]
                  /\ m2.prev = [p3 EXCEPT ![t] = t]
  <2>1. RemovalLinks(m, l, t, n1, p1, n2, p2, p3, n3)
    BY Zenon DEF RemovalLinks
  <2> HIDE DEF n1, p1, n2, p2, p3, n3, t
  <2>2. n \in Nat /\ n # 0 /\ Fields(m)
    BY <1>1, <1>2, <1>3
  <2>3. UnlinkedWith(m, l, t, n3, p3, m2)
    BY ONLY <2>1, <2>2, RemoveIs
  <2> QED
    BY <2>3 DEF UnlinkedWith
<1> DEFINE hl == IF p = 1 THEN a ELSE f[1]
           tl == IF p = n THEN b ELSE f[n]
<1> HIDE DEF t, m2, b, a, n3, p3, n2, p2, n1, p1
<1>8. /\ n1 \in [Timer!Nodes -> Timer!Nodes] /\ n1[t] = a /\ n1[l] = f[1] /\ n1[b] = a
      /\ \A u \in Timer!Nodes : u # b => n1[u] = m.next[u]
  BY <1>1, <1>3, <1>4 DEF n1
<1>9. /\ p1 \in [Timer!Nodes -> Timer!Nodes] /\ p1[t] = b /\ p1[l] = f[n] /\ p1[a] = b
      /\ \A u \in Timer!Nodes : u # a => p1[u] = m.prev[u]
  BY <1>1, <1>3, <1>4, <1>8 DEF p1
<1>10. hl \in Timers /\ tl \in Timers
  BY <1>1, <1>4, <1>5
<1>11. /\ n2 \in [Timer!Nodes -> Timer!Nodes] /\ n2[l] = hl
       /\ \A u \in Timer!Nodes : u # l => n2[u] = n1[u]
  <2>1. n2 = [n1 EXCEPT ![l] = hl]
    BY <1>5, <1>8 DEF n2
  <2> HIDE DEF hl
  <2> QED
    BY <1>1, <1>8, <1>10, <2>1
<1>12. /\ p2 \in [Timer!Nodes -> Timer!Nodes] /\ p2[l] = f[n] /\ p2[t] = b /\ p2[a] = IF p = 1 THEN a ELSE b
       /\ \A u \in Timer!Nodes : u # a => p2[u] = p1[u]
  <2>1. p2 = [p1 EXCEPT ![hl] = IF p = 1 THEN a ELSE p1[hl]]
    BY <1>5, <1>8, <1>11 DEF p2
  <2>2. CASE p = 1
    BY <1>1, <1>4, <1>6, <1>9, <2>1, <2>2
  <2>3. CASE p # 1
    <3>1. p1 = [p1 EXCEPT ![hl] = p1[hl]]
      BY <1>9
    <3>2. p2 = p1
      BY <2>1, <2>3, <3>1
    <3> QED
      BY <1>9, <2>3, <3>2
  <2> QED
    BY <2>2, <2>3
<1>13. /\ p3 \in [Timer!Nodes -> Timer!Nodes] /\ p3[l] = tl
       /\ \A u \in Timer!Nodes : u # l => p3[u] = p2[u]
  <2>1. p3 = [p2 EXCEPT ![l] = tl]
    BY <1>5, <1>12 DEF p3
  <2> HIDE DEF tl
  <2> QED
    BY <1>1, <1>10, <1>12, <2>1
<1>14. /\ n3 \in [Timer!Nodes -> Timer!Nodes] /\ n3[l] = hl /\ n3[b] = IF p = n THEN b ELSE a
       /\ \A u \in Timer!Nodes : u \notin {b, l} => n3[u] = n1[u]
  <2>1. n3 = [n2 EXCEPT ![tl] = IF p = n THEN b ELSE n2[tl]]
    BY <1>5, <1>12, <1>13 DEF n3
  <2>2. CASE p = n
    BY <1>1, <1>4, <1>10, <1>11, <2>1, <2>2
  <2>3. CASE p # n
    <3>1. n2 = [n2 EXCEPT ![tl] = n2[tl]]
      BY <1>11
    <3>2. n3 = n2
      BY <2>1, <2>3, <3>1
    <3> QED
      BY <1>1, <1>4, <1>8, <1>11, <2>3, <3>2
  <2> QED
    BY <2>2, <2>3
<1>15. Loses(m, m2, l, f, k, g, p)
  <2> DEFINE before == IF p = 1 THEN l ELSE f[p - 1]
             after == IF p = n THEN l ELSE f[p + 1]
  <2>1. m2.next \in [Timer!Nodes -> Timer!Nodes] /\ m2.prev \in [Timer!Nodes -> Timer!Nodes]
    <3>1. CASE n = 1
      <4>1. m2.next = [n3 EXCEPT ![l] = l, ![t] = t] /\ m2.prev = [p3 EXCEPT ![l] = l, ![t] = t]
        BY <1>7, <3>1
      <4> QED
        BY ONLY <1>1, <1>4, <1>13, <1>14, <4>1
    <3>2. CASE n # 1
      <4>1. m2.next = [n3 EXCEPT ![t] = t] /\ m2.prev = [p3 EXCEPT ![t] = t]
        BY <1>7, <3>2
      <4> QED
        BY ONLY <1>1, <1>4, <1>13, <1>14, <4>1
    <3> QED
      BY <3>1, <3>2
  <2>2. /\ m2.next[l] = (IF n = 1 THEN l ELSE hl)
        /\ m2.prev[l] = (IF n = 1 THEN l ELSE tl)
        /\ \A u \in Timer!Nodes : u \notin {l, t} => m2.next[u] = n3[u] /\ m2.prev[u] = p3[u]
    BY <1>1, <1>4, <1>7, <1>13, <1>14, ZenonT(60)
  <2>3. before = (IF p = 1 THEN l ELSE b) /\ after = (IF p = n THEN l ELSE a)
    BY DEF a, b
  <2>4. m2.next[before] = (IF p = n THEN before ELSE a)
    BY <1>1, <1>2, <1>4, <1>6, <1>14, <2>2, <2>3
  <2>5. m2.prev[after] = (IF p = 1 THEN after ELSE b)
    BY <1>1, <1>2, <1>4, <1>6, <1>12, <1>13, <2>2, <2>3
  <2>6. \A u \in Timer!Nodes : u \notin {t, before} => m2.next[u] = m.next[u]
    <3> SUFFICES ASSUME NEW u \in Timer!Nodes, u # t, u # before PROVE m2.next[u] = m.next[u]
      OBVIOUS
    <3>1. CASE u = l
      BY <1>2, <1>3, <2>2, <2>3, <3>1
    <3>2. CASE u # l
      BY <1>6, <1>8, <1>14, <2>2, <2>3, <3>2
    <3> QED
      BY <3>1, <3>2
  <2>7. \A u \in Timer!Nodes : u \notin {t, after} => m2.prev[u] = m.prev[u]
    <3> SUFFICES ASSUME NEW u \in Timer!Nodes, u # t, u # after PROVE m2.prev[u] = m.prev[u]
      OBVIOUS
    <3>1. CASE u = l
      BY <1>2, <1>3, <2>2, <2>3, <3>1
    <3>2. CASE u # l
      BY <1>6, <1>9, <1>12, <1>13, <2>2, <2>3, <3>2
    <3> QED
      BY <3>1, <3>2
  <2>8. (p # n => a = f[p + 1]) /\ (p # 1 => b = f[p - 1])
    BY DEF a, b
  <2>9. /\ m2.next[before] = (IF p = n THEN before ELSE f[p + 1])
        /\ m2.prev[after] = (IF p = 1 THEN after ELSE f[p - 1])
    BY <2>4, <2>5, <2>8
  <2>10. TwoLists(m, l, f, k, g) /\ p \in 1 .. n
    BY <1>2
  <2> QED
    BY ONLY <1>7, <2>1, <2>6, <2>7, <2>9, <2>10 DEF Loses, t
<1>16. /\ TwoLists(m2, l, Cut(f, m.size[l], p), k, g)
       /\ m2.size[l] = m.size[l] - 1 /\ m2.size[k] = m.size[k]
       /\ Outside(m2, l, Cut(f, m.size[l], p), k, g, f[p])
  BY ONLY <1>15, ListsLose
<1> QED
  BY ONLY <1>16 DEF m2, t

(* The nodes of f from the last to the first.                              *)
Turned(f, n) == [i \in 1 .. n |-> f[n + 1 - i]]

(* A walk from the head meets the nodes of the list,                       *)
LEMMA WalksForth ==
    ASSUME NEW m, NEW l, NEW f, NEW k, NEW g, TwoLists(m, l, f, k, g)
    PROVE  /\ Timer!Walk(m.next, l, m.size[l]) = f
           /\ Timer!Contents(m, l) = f
           /\ Timer!Members(m, l) = {f[i] : i \in 1 .. m.size[l]}
<1> DEFINE n == m.size[l]
<1>1. n \in Nat
  BY NodesAre
<1>2. DOMAIN f = 1 .. n /\ f = [i \in 1 .. n |-> f[i]]
  BY DEF TwoLists, Chain
<1>3. n > 0 => m.next[l] = f[1]
  BY ListEnds
<1>4. \A i \in 1 .. n - 1 : m.next[f[i]] = f[i + 1]
  BY ListEnds
<1>5. Timer!Walk(m.next, l, n) = f
  <2>1. IsWalk(m.next, l, n, f)
    BY ONLY <1>1, <1>2, <1>3, <1>4 DEF IsWalk
  <2> QED
    BY ONLY <2>1, WalkIs
<1> QED
  BY <1>5 DEF Timer!Contents, Timer!Members

(* one from its last node meets them the other way round,                  *)
LEMMA WalksBack ==
    ASSUME NEW m, NEW l, NEW f, NEW k, NEW g, TwoLists(m, l, f, k, g)
    PROVE  Timer!Walk(m.prev, l, m.size[l]) = Turned(f, m.size[l])
<1> DEFINE n == m.size[l]
           h == Turned(f, n)
<1>1. n \in Nat
  BY NodesAre
<1>2. DOMAIN h = 1 .. n /\ h = [i \in 1 .. n |-> h[i]]
  BY DEF Turned
<1>3. n > 0 => m.prev[l] = h[1]
  <2>1. SUFFICES ASSUME n > 0 PROVE m.prev[l] = h[1]
    OBVIOUS
  <2>2. m.prev[l] = f[n] /\ 1 \in 1 .. n
    BY <2>1, ListEnds
  <2> QED
    BY <1>1, <2>2 DEF Turned
<1>4. \A i \in 1 .. n - 1 : m.prev[h[i]] = h[i + 1]
  <2> SUFFICES ASSUME NEW i \in 1 .. n - 1 PROVE m.prev[h[i]] = h[i + 1]
    OBVIOUS
  <2> DEFINE j == n - i
  <2>1. j \in 1 .. n - 1 /\ i \in 1 .. n /\ i + 1 \in 1 .. n /\ n + 1 - i = j + 1 /\ n + 1 - (i + 1) = j
    BY <1>1
  <2>2. h[i] = f[j + 1] /\ h[i + 1] = f[j]
    BY <2>1 DEF Turned
  <2>3. m.prev[f[j + 1]] = f[j]
    BY <2>1, ListEnds
  <2> QED
    BY <2>2, <2>3
<1> HIDE DEF h
<1>5. Timer!Walk(m.prev, l, n) = h
  <2>1. IsWalk(m.prev, l, n, h)
    BY ONLY <1>1, <1>2, <1>3, <1>4 DEF IsWalk
  <2> QED
    BY ONLY <2>1, WalkIs
<1> QED
  BY <1>5 DEF h

(* so that the list can be walked both ways.                               *)
LEMMA IsIntact ==
    ASSUME NEW m, NEW l, NEW f, NEW k, NEW g, TwoLists(m, l, f, k, g)
    PROVE  Timer!Intact(m, l)
<1> DEFINE n == m.size[l]
           h == Turned(f, n)
<1>1. /\ n \in Nat
      /\ \A i \in 1 .. n : f[i] \in Timers
      /\ \A i, j \in 1 .. n : f[i] = f[j] => i = j
  BY NodesAre
<1>2. Timer!Walk(m.next, l, n) = f /\ Timer!Walk(m.prev, l, n) = h
  BY WalksForth, WalksBack
<1>3. n = 0 => m.next[l] = l /\ m.prev[l] = l
  BY ListEnds
<1>4. n > 0 => m.next[f[n]] = f[n] /\ m.prev[h[n]] = h[n]
  <2>1. SUFFICES ASSUME n > 0 PROVE m.next[f[n]] = f[n] /\ m.prev[h[n]] = h[n]
    OBVIOUS
  <2>2. m.next[f[n]] = f[n] /\ m.prev[f[1]] = f[1]
    BY <2>1, ListEnds
  <2>3. n \in 1 .. n /\ n + 1 - n = 1
    BY <1>1, <2>1
  <2>4. h[n] = f[1]
    BY <2>3 DEF Turned
  <2> QED
    BY <2>2, <2>4
<1>5. \A i \in 1 .. n : h[n + 1 - i] = f[i]
  <2> SUFFICES ASSUME NEW i \in 1 .. n PROVE h[n + 1 - i] = f[i]
    OBVIOUS
  <2>1. n + 1 - i \in 1 .. n /\ n + 1 - (n + 1 - i) = i
    BY <1>1
  <2> QED
    BY <2>1 DEF Turned
<1> QED
  BY <1>1, <1>2, <1>3, <1>4, <1>5 DEF Timer!Intact

(* A set of numbers up to n has a least one.                               *)
LEMMA LeastExists ==
    ASSUME NEW S, S # {}, S \subseteq Nat
    PROVE  \E i \in S : \A j \in S : i <= j
<1> DEFINE R == OpToRel(<, Nat)
<1>1. IsWellFoundedOn(R, Nat)
  BY NatLessThanWellFounded, Zenon
<1> HIDE DEF R
<1>2. PICK i \in S : \A j \in S : ~(<<j, i>> \in R)
  BY <1>1, WFMin, Zenon
<1>3. \A j \in S : ~(j < i)
  BY <1>2 DEF R, OpToRel
<1>4. \A j \in S : i <= j
  BY <1>3
<1> QED
  BY <1>4

(* The deadlines of the nodes of f, from the first to the last.            *)
InOrder(ends, f, n) == \A i, j \in 1 .. n : i <= j => ends[f[i]] <= ends[f[j]]

(* set_timer and update_timer find a place for the timer at which the      *)
(* active list stays in order.                                             *)
LEMMA Activates ==
    ASSUME NEW m, NEW f, NEW g, NEW t, NEW end \in Int,
           TwoLists(m, "active_list_", f, "free_list_", g),
           Outside(m, "active_list_", f, "free_list_", g, t),
           end_clock_ms_ \in [Timers -> Int],
           InOrder(end_clock_ms_, f, m.size["active_list_"])
    PROVE  LET m2 == Timer!Activated(m, t, end)
               n == m.size["active_list_"] IN
           /\ m2.size["active_list_"] = n + 1
           /\ m2.size["free_list_"] = m.size["free_list_"]
           /\ \E p \in 0 .. n :
                 /\ TwoLists(m2, "active_list_", Spliced(f, n, p, t), "free_list_", g)
                 /\ lru => p = n
                 /\ ~lru => /\ \A i \in 1 .. p : end_clock_ms_[f[i]] < end
                            /\ \A i \in p + 1 .. n : end <= end_clock_ms_[f[i]]
<1> DEFINE l == "active_list_"
           k == "free_list_"
           n == m.size[l]
           back == Timer!Walk(m.prev, l, n)
           earlier == {i \in DOMAIN back : end > end_clock_ms_[back[i]]}
           first == CHOOSE i \in earlier : \A j \in earlier : i <= j
           m2 == Timer!Activated(m, t, end)
           Is(p) == /\ m2.size[l] = n + 1 /\ m2.size[k] = m.size[k]
                    /\ TwoLists(m2, l, Spliced(f, n, p, t), k, g)
                    /\ lru => p = n
                    /\ ~lru => /\ \A i \in 1 .. p : end_clock_ms_[f[i]] < end
                               /\ \A i \in p + 1 .. n : end <= end_clock_ms_[f[i]]
<1>0. TwoLists(m, l, f, k, g) /\ Outside(m, l, f, k, g, t)
  OBVIOUS
<1>1. m2 = IF lru \/ n = 0 THEN Timer!PushBack(m, l, t)
           ELSE IF earlier = {} THEN Timer!PushFront(m, l, t)
           ELSE Timer!InsertAfter(m, l, back[first], t)
  BY Zenon DEF Timer!Activated
<1>2. back = Turned(f, n)
  BY WalksBack
<1>3. n \in Nat /\ \A i \in 1 .. n : f[i] \in Timers /\ end_clock_ms_[f[i]] \in Int
  <2>1. n \in Nat /\ \A i \in 1 .. n : f[i] \in Timers
    BY NodesAre
  <2> QED
    BY <2>1
<1> HIDE DEF l, k, back, m2
<1>4. DOMAIN back = 1 .. n /\ \A i \in 1 .. n : back[i] = f[n + 1 - i]
  BY <1>2 DEF Turned
<1>5. \A i \in 1 .. n : n + 1 - i \in earlier <=> end_clock_ms_[f[i]] < end
  <2> SUFFICES ASSUME NEW i \in 1 .. n
               PROVE  n + 1 - i \in earlier <=> end_clock_ms_[f[i]] < end
    OBVIOUS
  <2>1. n + 1 - i \in 1 .. n /\ n + 1 - (n + 1 - i) = i
    BY <1>3
  <2>2. back[n + 1 - i] = f[i]
    BY <1>4, <2>1
  <2> QED
    BY <1>3, <1>4, <2>1, <2>2
<1>6. CASE lru \/ n = 0
  <2>1. m2 = Timer!PushBack(m, l, t)
    BY <1>1, <1>6
  <2>2. TwoLists(m2, l, Spliced(f, n, n, t), k, g) /\ m2.size[l] = n + 1 /\ m2.size[k] = m.size[k]
    BY ONLY <1>0, <2>1, PushesBack
  <2>3. ~lru => n = 0
    BY <1>6
  <2>4. (\A i \in 1 .. 0 : end_clock_ms_[f[i]] < end) /\ (\A i \in 0 + 1 .. 0 : end <= end_clock_ms_[f[i]])
    OBVIOUS
  <2>5. Is(n)
    BY <2>2, <2>3, <2>4
  <2>6. n \in 0 .. n
    BY <1>3
  <2> QED
    BY ONLY <2>5, <2>6, Zenon DEF l, k, m2
<1>7. CASE ~(lru \/ n = 0) /\ earlier = {}
  <2>1. m2 = Timer!PushFront(m, l, t)
    BY <1>1, <1>7
  <2>2. TwoLists(m2, l, Spliced(f, n, 0, t), k, g) /\ m2.size[l] = n + 1 /\ m2.size[k] = m.size[k]
    BY ONLY <1>0, <2>1, PushesFront
  <2>3. \A i \in 1 .. 0 : end_clock_ms_[f[i]] < end
    OBVIOUS
  <2>4. \A i \in 0 + 1 .. n : end <= end_clock_ms_[f[i]]
    <3> SUFFICES ASSUME NEW i \in 1 .. n PROVE end <= end_clock_ms_[f[i]]
      OBVIOUS
    <3>1. ~(end_clock_ms_[f[i]] < end)
      BY <1>5, <1>7
    <3> QED
      BY <1>3, <3>1
  <2>5. Is(0)
    BY <1>7, <2>2, <2>3, <2>4
  <2>6. 0 \in 0 .. n
    BY <1>3
  <2> QED
    BY ONLY <2>5, <2>6, Zenon DEF l, k, m2
<1>8. CASE ~(lru \/ n = 0) /\ earlier # {}
  <2> DEFINE p == n + 1 - first
  <2>1. first \in earlier /\ \A j \in earlier : first <= j
    <3>1. earlier \subseteq Nat
      BY <1>3, <1>4
    <3>2. \E i \in earlier : \A j \in earlier : i <= j
      BY <1>8, <3>1, LeastExists
    <3> HIDE DEF earlier
    <3> QED
      BY <3>2, Zenon
  <2> HIDE DEF first
  <2>2. first \in 1 .. n /\ end > end_clock_ms_[back[first]]
    BY <1>4, <2>1
  <2>3. p \in 1 .. n /\ p \in 0 .. n /\ p # 0 /\ back[first] = f[p]
    BY <1>3, <1>4, <2>2, SMTT(60)
  <2>4. m2 = Timer!InsertAfter(m, l, f[p], t)
    BY <1>1, <1>8, <2>3
  <2>5. TwoLists(m2, l, Spliced(f, n, p, t), k, g) /\ m2.size[l] = n + 1 /\ m2.size[k] = m.size[k]
    <3>1. p \in 1 .. n
      BY <2>3
    <3> HIDE DEF p
    <3> QED
      BY ONLY <1>0, <2>4, <3>1, InsertsAfter
  <2>6. \A i \in 1 .. p : end_clock_ms_[f[i]] < end
    <3> SUFFICES ASSUME NEW i \in 1 .. p PROVE end_clock_ms_[f[i]] < end
      OBVIOUS
    <3>1. i \in 1 .. n /\ p \in 1 .. n /\ i <= p
      BY <1>3, <2>3
    <3>2. end_clock_ms_[f[i]] <= end_clock_ms_[f[p]]
      BY <3>1 DEF InOrder, l
    <3>3. end_clock_ms_[f[p]] < end
      BY <1>3, <2>2, <2>3
    <3>4. end_clock_ms_[f[i]] \in Int /\ end_clock_ms_[f[p]] \in Int
      BY <1>3, <3>1
    <3> QED
      BY <3>2, <3>3, <3>4
  <2>7. \A i \in p + 1 .. n : end <= end_clock_ms_[f[i]]
    <3> SUFFICES ASSUME NEW i \in p + 1 .. n PROVE end <= end_clock_ms_[f[i]]
      OBVIOUS
    <3>1. i \in 1 .. n /\ ~(first <= n + 1 - i)
      BY <1>3, <2>2, <2>3
    <3>2. ~(end_clock_ms_[f[i]] < end)
      BY <1>5, <2>1, <3>1
    <3> QED
      BY <1>3, <3>1, <3>2
  <2>8. Is(p)
    BY <1>8, <2>5, <2>6, <2>7
  <2>9. p \in 0 .. n
    BY <2>3
  <2> HIDE DEF p
  <2> QED
    BY ONLY <2>8, <2>9, Zenon DEF l, k, m2
<1> QED
  BY <1>6, <1>7, <1>8

(* The nodes of a list as a set.                                           *)
NodesOf(f, n) == {f[i] : i \in 1 .. n}

LEMMA NodesSpliced ==
    ASSUME NEW f, NEW n \in Nat, NEW p \in 0 .. n, NEW t
    PROVE  NodesOf(Spliced(f, n, p, t), n + 1) = NodesOf(f, n) \cup {t}
<1> DEFINE h == Spliced(f, n, p, t)
<1>1. \A i \in 1 .. n + 1 : h[i] = IF i <= p THEN f[i] ELSE IF i = p + 1 THEN t ELSE f[i - 1]
  BY DEF Spliced
<1> HIDE DEF h
<1>2. ASSUME NEW i \in 1 .. n + 1 PROVE h[i] \in NodesOf(f, n) \cup {t}
  <2>1. (i <= p => i \in 1 .. n) /\ (~(i <= p) /\ i # p + 1 => i - 1 \in 1 .. n)
    OBVIOUS
  <2> QED
    BY <1>1, <2>1 DEF NodesOf
<1>3. t \in NodesOf(h, n + 1)
  <2>1. p + 1 \in 1 .. n + 1 /\ ~(p + 1 <= p)
    OBVIOUS
  <2>2. h[p + 1] = t
    BY <1>1, <2>1
  <2> QED
    BY <2>1, <2>2 DEF NodesOf
<1>4. ASSUME NEW i \in 1 .. n PROVE f[i] \in NodesOf(h, n + 1)
  <2>1. CASE i <= p
    <3>1. i \in 1 .. n + 1 /\ h[i] = f[i]
      BY <1>1, <2>1
    <3> QED
      BY <3>1 DEF NodesOf
  <2>2. CASE ~(i <= p)
    <3> DEFINE j == i + 1
    <3>1. j \in 1 .. n + 1 /\ ~(j <= p) /\ j # p + 1 /\ j - 1 = i
      BY <2>2
    <3>2. h[j] = f[i]
      BY <1>1, <3>1
    <3> QED
      BY <3>1, <3>2 DEF NodesOf
  <2> QED
    BY <2>1, <2>2
<1>5. NodesOf(h, n + 1) \subseteq NodesOf(f, n) \cup {t}
  BY <1>2 DEF NodesOf
<1>6. NodesOf(f, n) \subseteq NodesOf(h, n + 1)
  BY <1>4 DEF NodesOf
<1> QED
  BY <1>3, <1>5, <1>6 DEF h

LEMMA NodesCut ==
    ASSUME NEW f, NEW n \in Nat, NEW p \in 1 .. n, \A i, j \in 1 .. n : f[i] = f[j] => i = j
    PROVE  NodesOf(Cut(f, n, p), n - 1) = NodesOf(f, n) \ {f[p]}
<1> DEFINE h == Cut(f, n, p)
<1>1. \A i \in 1 .. n - 1 : h[i] = IF i < p THEN f[i] ELSE f[i + 1]
  BY DEF Cut
<1> HIDE DEF h
<1>2. ASSUME NEW i \in 1 .. n - 1 PROVE h[i] \in NodesOf(f, n) \ {f[p]}
  <2>1. i \in 1 .. n /\ i + 1 \in 1 .. n /\ (i < p => i # p) /\ (~(i < p) => i + 1 # p)
    OBVIOUS
  <2> QED
    BY <1>1, <2>1 DEF NodesOf
<1>3. ASSUME NEW i \in 1 .. n, f[i] # f[p] PROVE f[i] \in NodesOf(h, n - 1)
  <2>1. CASE i < p
    <3>1. i \in 1 .. n - 1 /\ h[i] = f[i]
      BY <1>1, <2>1
    <3> QED
      BY <3>1 DEF NodesOf
  <2>2. CASE ~(i < p)
    <3> DEFINE j == i - 1
    <3>0. i # p
      BY <1>3
    <3>1. j \in 1 .. n - 1 /\ ~(j < p) /\ j + 1 = i
      BY <2>2, <3>0
    <3>2. h[j] = f[i]
      BY <1>1, <3>1
    <3> QED
      BY <3>1, <3>2 DEF NodesOf
  <2> QED
    BY <2>1, <2>2
<1>4. NodesOf(h, n - 1) \subseteq NodesOf(f, n) \ {f[p]}
  BY <1>2 DEF NodesOf
<1>5. NodesOf(f, n) \ {f[p]} \subseteq NodesOf(h, n - 1)
  BY <1>3 DEF NodesOf
<1> QED
  BY <1>4, <1>5 DEF h

-----------------------------------------------------------------------------
(* The constructor.                                                        *)
LEMMA PoolIs == /\ Pool \in Seq(Timers) /\ Len(Pool) \in Nat
                /\ \A i, j \in 1 .. Len(Pool) : Pool[i] = Pool[j] => i = j
                /\ \A i \in 1 .. Len(Pool) : Pool[i] \in Timers
                /\ NodesOf(Pool, Len(Pool)) = Timers
                /\ Heads \cap Timers = {}
                /\ Intervals \subseteq Nat /\ LruInterval \in Nat
<1>1. /\ Timer!ListAssumption
      /\ Pool \in Seq(Timers) /\ Timer!IsInjective(Pool)
      /\ Intervals \subseteq Nat /\ LruInterval \in Nat
  BY TimersAssumption DEF Timer!QueueAssumption
<1>2. Len(Pool) \in Nat /\ DOMAIN Pool = 1 .. Len(Pool) /\ \A i \in 1 .. Len(Pool) : Pool[i] \in Timers
  BY <1>1
<1>3. \A i, j \in 1 .. Len(Pool) : Pool[i] = Pool[j] => i = j
  BY <1>1, <1>2 DEF Timer!IsInjective
<1>4. NodesOf(Pool, Len(Pool)) = Timers
  BY <1>2 DEF NodesOf, Timers
<1>5. Heads \cap Timers = {}
  BY <1>1 DEF Timer!ListAssumption, Heads
<1> QED
  BY <1>1, <1>2, <1>3, <1>4, <1>5

(* A history of calls of push_back exists, and its last state is Filled.   *)
Pushes(m, n) ==
    m = [i \in 0 .. n |-> IF i = 0 THEN Timer!EmptyLists
                          ELSE Timer!PushBack(m[i - 1], "free_list_", Pool[i])]

LEMMA PushesExist == \A n \in Nat : \E m : Pushes(m, n)
<1> DEFINE T == {n \in Nat : \E m : Pushes(m, n)}
<1>1. 0 \in T
  <2> DEFINE m == [i \in 0 .. 0 |-> Timer!EmptyLists]
  <2>1. \A i \in 0 .. 0 : i = 0
    OBVIOUS
  <2>2. Pushes(m, 0)
    BY <2>1 DEF Pushes
  <2> QED
    BY <2>2
<1>2. ASSUME NEW n \in Nat, n \in T PROVE n + 1 \in T
  <2>1. PICK m : Pushes(m, n)
    BY <1>2
  <2> DEFINE Pushed(i) == IF i = 0 THEN Timer!EmptyLists
                          ELSE Timer!PushBack(m[i - 1], "free_list_", Pool[i])
             h == [i \in 0 .. n + 1 |-> Pushed(i)]
  <2>2. \A i \in 0 .. n : m[i] = Pushed(i)
    BY <2>1 DEF Pushes
  <2> HIDE DEF Pushed
  <2>3. \A i \in 0 .. n : h[i] = m[i]
    <3>1. \A i \in 0 .. n : i \in 0 .. n + 1
      OBVIOUS
    <3> QED
      BY <2>2, <3>1
  <2>4. ASSUME NEW i \in 0 .. n + 1
        PROVE  Pushed(i) = IF i = 0 THEN Timer!EmptyLists
                           ELSE Timer!PushBack(h[i - 1], "free_list_", Pool[i])
    <3>1. i # 0 => i - 1 \in 0 .. n
      OBVIOUS
    <3>2. i # 0 => h[i - 1] = m[i - 1]
      BY <2>3, <3>1
    <3> HIDE DEF h
    <3> QED
      BY <3>2, Zenon DEF Pushed
  <2>5. Pushes(h, n + 1)
    BY <2>4, Zenon DEF Pushes
  <2> QED
    BY <2>5
<1> HIDE DEF T
<1>3. \A n \in Nat : n \in T
  BY <1>1, <1>2, NatInSet
<1> QED
  BY <1>3 DEF T

(* All timers are free when the constructor has ended.                     *)
LEMMA FilledIs ==
    \E f, g : /\ TwoLists(Timer!Filled, "active_list_", f, "free_list_", g)
              /\ Timer!Filled.size["active_list_"] = 0
              /\ NodesOf(g, Timer!Filled.size["free_list_"]) = Timers
<1> DEFINE len == Len(Pool)
           m == CHOOSE x : Pushes(x, len)
           l == "free_list_"
           k == "active_list_"
           none == [i \in 1 .. 0 |-> Pool[i]]
           Upto(n) == [i \in 1 .. n |-> Pool[i]]
           Is(n) == /\ TwoLists(m[n], l, Upto(n), k, none)
                    /\ m[n].size[l] = n /\ m[n].size[k] = 0
           T == {n \in Nat : n <= len => Is(n)}
<1>1. len \in Nat /\ \A i \in 1 .. len : Pool[i] \in Timers
  BY PoolIs
<1>2. Pushes(m, len)
  BY <1>1, PushesExist, Zenon
<1>3. Timer!Filled = m[len]
  BY Zenon DEF Timer!Filled, Pushes
<1> HIDE DEF m
<1>4. /\ m[0] = Timer!EmptyLists
      /\ \A n \in 1 .. len : m[n] = Timer!PushBack(m[n - 1], l, Pool[n])
  <2>1. 0 \in 0 .. len /\ \A n \in 1 .. len : n \in 0 .. len /\ n # 0
    BY <1>1
  <2> QED
    BY <1>2, <2>1 DEF Pushes
<1>5. 0 \in T
  <2> DEFINE e == Timer!EmptyLists
  <2>1. /\ Fields(e)
        /\ e.next = [x \in Timer!Nodes |-> x] /\ e.prev = [x \in Timer!Nodes |-> x]
        /\ e.size = [x \in Heads |-> 0]
    BY DEF Timer!EmptyLists, Fields, Heads
  <2> HIDE DEF e
  <2>2. l \in Timer!Nodes /\ k \in Timer!Nodes /\ l \in Heads /\ k \in Heads /\ {l, k} = Heads /\ l # k
    BY DEF Timer!Nodes, Heads
  <2>3. /\ e.next \in [Timer!Nodes -> Timer!Nodes] /\ e.prev \in [Timer!Nodes -> Timer!Nodes]
        /\ e.size \in [Heads -> Nat]
        /\ e.next[l] = l /\ e.prev[l] = l /\ e.next[k] = k /\ e.prev[k] = k
        /\ e.size[l] = 0 /\ e.size[k] = 0
    BY <2>1, <2>2
  <2>4. Shape(e)
    BY <2>1, <2>3 DEF Shape, Fields
  <2>5. Upto(0) = none /\ none \in [1 .. 0 -> Timers]
    OBVIOUS
  <2> HIDE DEF none, l, k
  <2>6. Chain(e.next, e.prev, l, 0, none) /\ Chain(e.next, e.prev, k, 0, none)
    BY <2>3, <2>5 DEF Chain
  <2>7. TwoLists(e, l, none, k, none)
    BY <2>2, <2>3, <2>4, <2>6, PoolIs DEF TwoLists
  <2>8. Is(0)
    BY <1>4, <2>3, <2>5, <2>7 DEF e
  <2> QED
    BY <2>8
<1>6. ASSUME NEW n \in Nat, n \in T PROVE n + 1 \in T
  <2>1. SUFFICES ASSUME n + 1 <= len PROVE Is(n + 1)
    OBVIOUS
  <2> DEFINE t == Pool[n + 1]
  <2>2. n <= len /\ n + 1 \in 1 .. len /\ (n + 1) - 1 = n
    BY <1>1, <2>1
  <2>3. /\ TwoLists(m[n], l, Upto(n), k, none)
        /\ m[n].size[l] = n /\ m[n].size[k] = 0
    BY <1>6, <2>2
  <2>4. m[n + 1] = Timer!PushBack(m[n], l, t)
    BY <1>4, <2>2
  <2>5. Outside(m[n], l, Upto(n), k, none, t)
    <3>1. t \in Timers
      BY <1>1, <2>2
    <3>2. \A i \in 1 .. n : Upto(n)[i] # t
      <4>1. \A i \in 1 .. n : i \in 1 .. len /\ i # n + 1
        BY <1>1, <2>1
      <4> QED
        BY <2>2, <4>1, PoolIs
    <3>3. \A i \in 1 .. 0 : none[i] # t
      OBVIOUS
    <3> QED
      BY <2>3, <3>1, <3>2, <3>3 DEF Outside
  <2>6. Spliced(Upto(n), n, n, t) = Upto(n + 1)
    BY DEF Spliced
  <2> DEFINE x == m[n]
             y == m[n + 1]
             u == Upto(n)
             v == Upto(n + 1)
  <2>10. TwoLists(x, l, u, k, none) /\ Outside(x, l, u, k, none, t) /\ y = Timer!PushBack(x, l, t)
        /\ Spliced(u, n, n, t) = v /\ x.size[l] = n /\ x.size[k] = 0
    BY <2>3, <2>4, <2>5, <2>6
  <2> HIDE DEF x, y, u, v, t, l, k, none
  <2>7. TwoLists(y, l, Spliced(u, x.size[l], x.size[l], t), k, none)
        /\ y.size[l] = x.size[l] + 1 /\ y.size[k] = x.size[k]
    BY ONLY <2>10, PushesBack
  <2>8. TwoLists(y, l, v, k, none) /\ y.size[l] = n + 1 /\ y.size[k] = 0
    BY <2>7, <2>10
  <2> QED
    BY <2>8 DEF y, v
<1> HIDE DEF T
<1>7. \A n \in Nat : n \in T
  BY <1>5, <1>6, NatInSet
<1>8. Is(len)
  BY <1>1, <1>7 DEF T
<1>9. TwoLists(m[len], k, none, l, Upto(len))
  BY <1>8, ListsChange
<1>10. NodesOf(Upto(len), len) = Timers
  BY PoolIs, SMTT(60) DEF NodesOf
<1> HIDE DEF none, Upto
<1> QED
  BY <1>3, <1>8, <1>9, <1>10

(* The active list has the nodes of f, ended in order, none of them later  *)
(* than the LRU queue's interval allows and, unless expire is at work,     *)
(* none that it should have taken; the free list has the nodes of g.       *)
Arranged(m, ends, is_lru, now_ms, last_ms, busy, f, g) ==
    LET n == m.size["active_list_"] IN
    /\ TwoLists(m, "active_list_", f, "free_list_", g)
    /\ NodesOf(f, n) \cup NodesOf(g, m.size["free_list_"]) = Timers
    /\ InOrder(ends, f, n)
    /\ is_lru => \A t \in NodesOf(f, n) : ends[t] <= now_ms + LruInterval
    /\ ~busy => \A t \in NodesOf(f, n) : last_ms <= ends[t]

(* The types, and the inductive invariant of a timer queue.                *)
TimerTypes ==
    /\ lru \in BOOLEAN /\ expiring \in BOOLEAN
    /\ clock \in Nat /\ last_clock_ms_ \in Nat /\ last_clock_ms_ <= clock
    /\ end_clock_ms_ \in [Timers -> Int]

TimerInv ==
    /\ TimerTypes
    /\ \E f, g : Arranged(lists, end_clock_ms_, lru, clock, last_clock_ms_, expiring, f, g)

(* The timers of the service are the nodes of the active list.             *)
LEMMA ActiveIs ==
    ASSUME NEW f, NEW g, TwoLists(lists, "active_list_", f, "free_list_", g)
    PROVE  Timer!Active = NodesOf(f, lists.size["active_list_"])
BY WalksForth DEF Timer!Active, NodesOf

(* It holds at first, and says that the lists are intact and nothing is    *)
(* overdue.                                                                *)
LEMMA TimersInit == Timer!Init => TimerInv
<1> SUFFICES ASSUME Timer!Init PROVE TimerInv
  OBVIOUS
<1>1. TimerTypes
  <2>1. lru \in BOOLEAN /\ expiring = FALSE /\ clock = 0 /\ last_clock_ms_ = 0
        /\ end_clock_ms_ = [t \in Timers |-> 0]
    BY DEF Timer!Init
  <2>2. end_clock_ms_ \in [Timers -> Int]
    BY <2>1
  <2>3. expiring \in BOOLEAN
    BY <2>1, Zenon
  <2>4. clock \in Nat /\ last_clock_ms_ \in Nat /\ last_clock_ms_ <= clock
    BY <2>1
  <2> QED
    BY <2>1, <2>2, <2>3, <2>4, Zenon DEF TimerTypes
<1>2. PICK f, g : /\ TwoLists(lists, "active_list_", f, "free_list_", g)
                  /\ lists.size["active_list_"] = 0
                  /\ NodesOf(g, lists.size["free_list_"]) = Timers
  BY FilledIs DEF Timer!Init
<1>3. NodesOf(f, 0) = {}
  BY DEF NodesOf
<1>4. InOrder(end_clock_ms_, f, 0)
  BY DEF InOrder
<1>5. Arranged(lists, end_clock_ms_, lru, clock, last_clock_ms_, expiring, f, g)
  BY <1>2, <1>3, <1>4 DEF Arranged
<1> QED
  BY <1>1, <1>5 DEF TimerInv

LEMMA TimersAreIntact == TimerInv => Timer!ListsIntact /\ Timer!NoneOverdue
<1> SUFFICES ASSUME TimerInv PROVE Timer!ListsIntact /\ Timer!NoneOverdue
  OBVIOUS
<1> DEFINE l == "active_list_"
           k == "free_list_"
<1>1. PICK f, g : Arranged(lists, end_clock_ms_, lru, clock, last_clock_ms_, expiring, f, g)
  BY DEF TimerInv
<1>2. TwoLists(lists, l, f, k, g) /\ TwoLists(lists, k, g, l, f)
  BY <1>1, ListsChange DEF Arranged
<1>3. Timer!Intact(lists, l) /\ Timer!Intact(lists, k)
  BY ONLY <1>2, IsIntact
<1>4. Timer!Active = NodesOf(f, lists.size[l]) /\ Timer!Members(lists, k) = NodesOf(g, lists.size[k])
  BY <1>2, WalksForth, ActiveIs DEF NodesOf
<1>5. NodesOf(f, lists.size[l]) \cap NodesOf(g, lists.size[k]) = {}
  BY <1>2 DEF TwoLists, NodesOf
<1>6. Timer!ListsIntact
  BY <1>1, <1>3, <1>4, <1>5 DEF Timer!ListsIntact, Arranged
<1>7. Timer!NoneOverdue
  <2> SUFFICES ASSUME ~expiring, NEW t \in Timer!Active PROVE end_clock_ms_[t] >= last_clock_ms_
    BY DEF Timer!NoneOverdue
  <2>1. last_clock_ms_ <= end_clock_ms_[t]
    BY <1>1, <1>4 DEF Arranged
  <2>2. NodesOf(f, lists.size[l]) \subseteq Timers
    BY <1>2, NodesAre DEF NodesOf
  <2>3. end_clock_ms_[t] \in Int /\ last_clock_ms_ \in Nat
    BY <1>4, <2>2 DEF TimerInv, TimerTypes
  <2> QED
    BY <2>1, <2>3
<1> QED
  BY <1>6, <1>7

-----------------------------------------------------------------------------
(* A timer comes to the active list, or leaves one of the lists.           *)
CanActivate(m, f, g, t, i) ==
    LET n == m.size["active_list_"] IN
    /\ i \in Nat /\ (lru => i = LruInterval)
    /\ TwoLists(m, "active_list_", f, "free_list_", g)
    /\ Outside(m, "active_list_", f, "free_list_", g, t)
    /\ NodesOf(f, n) \cup NodesOf(g, m.size["free_list_"]) = Timers \ {t}
    /\ InOrder(end_clock_ms_, f, n)
    /\ lru => \A u \in NodesOf(f, n) : end_clock_ms_[u] <= clock + LruInterval
    /\ ~expiring => \A u \in NodesOf(f, n) : last_clock_ms_ <= end_clock_ms_[u]

NowActive(m2, ends, h, g, nodes) ==
    /\ Arranged(m2, ends, lru, clock, last_clock_ms_, expiring, h, g)
    /\ NodesOf(h, m2.size["active_list_"]) = nodes

(* A timer that is on neither list goes to its place on the active one.    *)
LEMMA Activated ==
    ASSUME TimerTypes, NEW m, NEW f, NEW g, NEW t, NEW i, CanActivate(m, f, g, t, i)
    PROVE  \E h : NowActive(Timer!Activated(m, t, clock + i),
                           [end_clock_ms_ EXCEPT ![t] = clock + i], h, g,
                           NodesOf(f, m.size["active_list_"]) \cup {t})
<1> USE DEF CanActivate
<1> DEFINE l == "active_list_"
           k == "free_list_"
           n == m.size[l]
           end == clock + i
           m2 == Timer!Activated(m, t, end)
           ends == [end_clock_ms_ EXCEPT ![t] = end]
           old == NodesOf(f, n)
<1>1. end \in Int /\ clock \in Nat /\ last_clock_ms_ \in Nat /\ last_clock_ms_ <= end
      /\ end_clock_ms_ \in [Timers -> Int] /\ LruInterval \in Nat
  BY PoolIs DEF TimerTypes
<1>2. t \in Timers /\ (\A j \in 1 .. n : f[j] # t) /\ n \in Nat /\ \A j \in 1 .. n : f[j] \in Timers
  BY NodesAre DEF Outside
<1> HIDE DEF end, l, k
<1>3. PICK p \in 0 .. n :
         /\ TwoLists(m2, l, Spliced(f, n, p, t), k, g)
         /\ lru => p = n
         /\ ~lru => /\ \A j \in 1 .. p : end_clock_ms_[f[j]] < end
                    /\ \A j \in p + 1 .. n : end <= end_clock_ms_[f[j]]
  BY <1>1, Activates DEF l, k
<1>4. m2.size[l] = n + 1 /\ m2.size[k] = m.size[k]
  BY <1>1, Activates DEF l, k
<1> HIDE DEF m2
<1> DEFINE h == Spliced(f, n, p, t)
<1>5. NodesOf(h, n + 1) = old \cup {t}
  <2>1. n \in Nat /\ p \in 0 .. n
    BY <1>2
  <2> HIDE DEF n
  <2> QED
    BY ONLY <2>1, NodesSpliced
<1>6. ends[t] = end /\ \A u \in Timers : u # t => ends[u] = end_clock_ms_[u]
  BY <1>1, <1>2
<1>7. old \subseteq Timers \ {t}
  BY <1>2 DEF NodesOf
<1>8. /\ lru => \A u \in old \cup {t} : ends[u] <= clock + LruInterval
      /\ ~expiring => \A u \in old \cup {t} : last_clock_ms_ <= ends[u]
  <2>1. lru => end <= clock + LruInterval
    BY <1>1 DEF end
  <2> HIDE DEF ends, old
  <2> QED
    BY <1>1, <1>6, <1>7, <2>1 DEF l, old
<1>9. InOrder(ends, h, n + 1)
  <2> SUFFICES ASSUME NEW a \in 1 .. n + 1, NEW b \in 1 .. n + 1, a <= b
               PROVE  ends[h[a]] <= ends[h[b]]
    BY DEF InOrder
  <2> DEFINE E(j) == end_clock_ms_[f[j]]
  <2>1. \A j \in 1 .. n + 1 : ends[h[j]] = IF j <= p THEN E(j) ELSE IF j = p + 1 THEN end ELSE E(j - 1)
    <3> SUFFICES ASSUME NEW j \in 1 .. n + 1
                 PROVE  ends[h[j]] = IF j <= p THEN E(j) ELSE IF j = p + 1 THEN end ELSE E(j - 1)
      OBVIOUS
    <3>1. h[j] = IF j <= p THEN f[j] ELSE IF j = p + 1 THEN t ELSE f[j - 1]
      BY DEF Spliced
    <3>2. (j <= p => j \in 1 .. n) /\ (~(j <= p) /\ j # p + 1 => j - 1 \in 1 .. n)
      BY <1>2
    <3> HIDE DEF h, ends
    <3> QED
      BY <1>2, <1>6, <3>1, <3>2
  <2>2. \A j, j2 \in 1 .. n : j <= j2 => E(j) <= E(j2)
    BY DEF InOrder, l
  <2>3. \A j \in 1 .. n : E(j) \in Int
    BY <1>1, <1>2
  <2>4. \A j \in 1 .. p : E(j) <= end
    <3> SUFFICES ASSUME NEW j \in 1 .. p PROVE E(j) <= end
      OBVIOUS
    <3>0. j \in 1 .. n
      BY <1>2
    <3>1. CASE lru
      <4>1. f[j] \in old
        BY <3>0 DEF NodesOf
      <4>2. E(j) <= clock + LruInterval
        BY <3>1, <4>1 DEF l
      <4> QED
        BY <3>1, <4>2 DEF end
    <3>2. CASE ~lru
      <4>1. E(j) < end
        BY <1>3, <3>2
      <4>2. E(j) \in Int
        BY <2>3, <3>0
      <4> HIDE DEF E
      <4> QED
        BY <1>1, <4>1, <4>2
    <3> QED
      BY <3>1, <3>2
  <2>5. \A j \in p + 1 .. n : end <= E(j)
    <3>1. CASE lru
      <4>1. p = n
        BY <1>3, <3>1
      <4> QED
        BY <1>2, <4>1
    <3>2. CASE ~lru
      BY <1>3, <3>2
    <3> QED
      BY <3>1, <3>2
  <2> HIDE DEF E, h, ends
  <2>6. CASE a <= p
    <3>1. ends[h[a]] = E(a) /\ a \in 1 .. n /\ a \in 1 .. p
      BY <1>2, <2>1, <2>6
    <3>2. CASE b <= p
      <4>1. ends[h[b]] = E(b) /\ b \in 1 .. n
        BY <1>2, <2>1, <3>2
      <4> QED
        BY <2>2, <3>1, <4>1
    <3>3. CASE b = p + 1
      <4>1. ends[h[b]] = end
        BY <2>1, <3>3
      <4> QED
        BY <2>4, <3>1, <4>1
    <3>4. CASE b > p + 1
      <4>1. ends[h[b]] = E(b - 1) /\ b - 1 \in 1 .. n /\ a <= b - 1
        BY <1>2, <2>1, <2>6, <3>4
      <4> QED
        BY <2>2, <3>1, <4>1
    <3> QED
      BY <3>2, <3>3, <3>4
  <2>7. CASE a = p + 1
    <3>1. ends[h[a]] = end
      BY <2>1, <2>7
    <3>2. CASE b = p + 1
      BY <1>1, <2>7, <3>1, <3>2
    <3>3. CASE b > p + 1
      <4>1. ends[h[b]] = E(b - 1) /\ b - 1 \in p + 1 .. n
        BY <1>2, <2>1, <3>3
      <4> QED
        BY <2>5, <3>1, <4>1
    <3> QED
      BY <2>7, <3>2, <3>3
  <2>8. CASE a > p + 1
    <3>1. ends[h[a]] = E(a - 1) /\ a - 1 \in 1 .. n
      BY <1>2, <2>1, <2>8
    <3>2. ends[h[b]] = E(b - 1) /\ b - 1 \in 1 .. n /\ a - 1 <= b - 1
      BY <1>2, <2>1, <2>8
    <3> QED
      BY <2>2, <3>1, <3>2
  <2> QED
    BY <2>6, <2>7, <2>8
<1>10. NodesOf(h, n + 1) \cup NodesOf(g, m2.size[k]) = Timers
  <2>1. old \cup NodesOf(g, m.size[k]) = Timers \ {t}
    BY DEF l, k
  <2> HIDE DEF old
  <2> QED
    BY <1>2, <1>4, <1>5, <2>1
<1> HIDE DEF h, ends, old
<1>11. Arranged(m2, ends, lru, clock, last_clock_ms_, expiring, h, g)
  <2>1. TwoLists(m2, l, h, k, g)
    BY <1>3 DEF h
  <2> QED
    BY <1>4, <1>5, <1>8, <1>9, <1>10, <2>1 DEF Arranged, l, k
<1>12. NodesOf(h, m2.size[l]) = old \cup {t}
  BY <1>4, <1>5
<1> QED
  BY <1>11, <1>12, Zenon DEF NowActive, m2, ends, end, old, l

(* What the service sees of a step: one deadline more or moved, or one     *)
(* less.                                                                   *)
LEMMA ActiveNext ==
    ASSUME NEW f, NEW g, TwoLists(lists', "active_list_", f, "free_list_", g)
    PROVE  Timer!Active' = NodesOf(f, lists'.size["active_list_"])
<1>1. Timer!Members(lists', "active_list_") = NodesOf(f, lists'.size["active_list_"])
  BY WalksForth DEF NodesOf
<1> QED
  BY <1>1 DEF Timer!Active

LEMMA ArmsOne ==
    ASSUME NEW t \in Timers, NEW x, Timer!Active \subseteq Timers,
           Timer!Active' = Timer!Active \cup {t},
           end_clock_ms_ \in [Timers -> Int], end_clock_ms_' = [end_clock_ms_ EXCEPT ![t] = x],
           x >= clock, clock' = clock, fired' = fired
    PROVE  Timer!Service!Arm(t)
<1> DEFINE armed == [u \in Timer!Active |-> end_clock_ms_[u]]
           armed2 == [u \in Timer!Active' |-> end_clock_ms_'[u]]
<1>1. DOMAIN armed2 = DOMAIN armed \cup {t}
  OBVIOUS
<1>2. armed2[t] = x
  OBVIOUS
<1>3. \A u \in DOMAIN armed \ {t} : armed2[u] = armed[u]
  OBVIOUS
<1>4. armed2[t] >= clock
  BY <1>2
<1> QED
  BY <1>1, <1>3, <1>4 DEF Timer!Service!Arm, Timer!Service!ArmedTimers

LEMMA DisarmsOne ==
    ASSUME NEW t, Timer!Active' = Timer!Active \ {t},
           \A u \in Timer!Active' : end_clock_ms_'[u] = end_clock_ms_[u]
    PROVE  Timer!Service!Disarm(t)
<1> DEFINE armed == [u \in Timer!Active |-> end_clock_ms_[u]]
           armed2 == [u \in Timer!Active' |-> end_clock_ms_'[u]]
<1>1. DOMAIN armed = Timer!Active
  OBVIOUS
<1>2. armed2 = [u \in DOMAIN armed \ {t} |-> armed[u]]
  OBVIOUS
<1> QED
  BY <1>2 DEF Timer!Service!Disarm, Timer!Service!ArmedTimers

(* A step keeps the invariant and is one of the service.                   *)
Kept == TimerInv' /\ [Timer!Service!Next]_(Timer!Service!serviceVars)

(* set_timer.                                                              *)
LEMMA TimerSets ==
    ASSUME TimerInv, NEW i \in Intervals \cup {LruInterval}, Timer!SetTimer(i)
    PROVE  Kept
<1> DEFINE l == "active_list_"
           k == "free_list_"
           m == Timer!PopFront(lists, k)
<1>0. PICK t : t = lists.next[k]
  OBVIOUS
<1> DEFINE reset == [m EXCEPT !.next[t] = t, !.prev[t] = t]
<1>1. PICK f, g : Arranged(lists, end_clock_ms_, lru, clock, last_clock_ms_, expiring, f, g)
  BY DEF TimerInv
<1>2. /\ lru => i = LruInterval
      /\ lists.size[k] > 0
      /\ lists' = Timer!Activated(reset, t, clock + i)
      /\ end_clock_ms_' = [end_clock_ms_ EXCEPT ![t] = clock + i]
      /\ UNCHANGED <<lru, last_clock_ms_, expiring, clock, fired>>
  BY <1>0, Zenon DEF Timer!SetTimer
<1>3. i \in Nat
  BY PoolIs
<1>4. TimerTypes
  BY DEF TimerInv
<1> DEFINE n == lists.size[l]
           nk == lists.size[k]
           g2 == Cut(g, nk, 1)
<1>5. /\ TwoLists(lists, l, f, k, g) /\ TwoLists(lists, k, g, l, f)
      /\ NodesOf(f, n) \cup NodesOf(g, nk) = Timers
      /\ n \in Nat /\ nk \in Nat /\ 1 \in 1 .. nk
      /\ \A a, b \in 1 .. nk : g[a] = g[b] => a = b
  <2>1. TwoLists(lists, l, f, k, g) /\ TwoLists(lists, k, g, l, f)
    BY <1>1, ListsChange DEF Arranged
  <2>2. NodesOf(f, n) \cup NodesOf(g, nk) = Timers
    BY <1>1 DEF Arranged
  <2>3. n \in Nat /\ nk \in Nat /\ \A a, b \in 1 .. nk : g[a] = g[b] => a = b
    BY <2>1, NodesAre
  <2>4. 1 \in 1 .. nk
    BY <1>2, <2>3
  <2> QED
    BY <2>1, <2>2, <2>3, <2>4
<1>6. /\ TwoLists(m, k, g2, l, f) /\ m.size[k] = nk - 1 /\ m.size[l] = n
      /\ Outside(m, k, g2, l, f, g[1]) /\ t = g[1] /\ t \in Timers
  BY <1>0, <1>2, <1>5, PopsFront
<1> HIDE DEF m
<1>7. TwoLists(reset, k, g2, l, f) /\ reset.size = m.size
  <2>1. Rewired(m, reset, t, t, t, t)
    BY DEF Rewired
  <2>2. t \in Timer!Nodes
    BY <1>6 DEF Timer!Nodes
  <2> HIDE DEF reset, g2, l, k
  <2> QED
    BY <1>6, <2>1, <2>2, ListsStay
<1> HIDE DEF reset
<1>8. TwoLists(reset, l, f, k, g2) /\ Outside(reset, l, f, k, g2, t)
  <2>1. TwoLists(reset, l, f, k, g2)
    BY <1>7, ListsChange
  <2> QED
    BY <1>6, <1>7, <2>1 DEF Outside
<1>9. NodesOf(f, n) \cup NodesOf(g2, nk - 1) = Timers \ {t}
  <2>1. NodesOf(g2, nk - 1) = NodesOf(g, nk) \ {t}
    BY <1>5, <1>6, NodesCut
  <2>2. t \notin NodesOf(f, n)
    BY <1>6 DEF Outside, NodesOf
  <2> QED
    BY <1>5, <2>1, <2>2
<1>10. \E h : /\ Arranged(lists', end_clock_ms_', lru, clock, last_clock_ms_, expiring, h, g2)
              /\ NodesOf(h, lists'.size[l]) = NodesOf(f, n) \cup {t}
  <2>1. reset.size[l] = n /\ reset.size[k] = nk - 1
    BY <1>6, <1>7
  <2>2. /\ InOrder(end_clock_ms_, f, n)
        /\ lru => \A u \in NodesOf(f, n) : end_clock_ms_[u] <= clock + LruInterval
        /\ ~expiring => \A u \in NodesOf(f, n) : last_clock_ms_ <= end_clock_ms_[u]
    BY <1>1 DEF Arranged
  <2>3. CanActivate(reset, f, g2, t, i)
    BY <1>2, <1>3, <1>8, <1>9, <2>1, <2>2 DEF CanActivate
  <2> HIDE DEF g2, nk
  <2>4. \E h : NowActive(Timer!Activated(reset, t, clock + i),
                        [end_clock_ms_ EXCEPT ![t] = clock + i], h, g2,
                        NodesOf(f, reset.size[l]) \cup {t})
    BY ONLY <1>4, <2>3, Activated
  <2> HIDE DEF n
  <2> QED
    BY <1>2, <2>1, <2>4 DEF NowActive
<1>11. PICK h : /\ Arranged(lists', end_clock_ms_', lru, clock, last_clock_ms_, expiring, h, g2)
                /\ NodesOf(h, lists'.size[l]) = NodesOf(f, n) \cup {t}
  BY <1>10
<1> HIDE DEF g2, n, nk
<1>12. TimerInv'
  <2>1. TimerTypes'
    BY <1>2, <1>3, <1>4, <1>6 DEF TimerTypes
  <2>2. Arranged(lists', end_clock_ms_', lru', clock', last_clock_ms_', expiring', h, g2)
    BY <1>2, <1>11
  <2> QED
    BY <2>1, <2>2 DEF TimerInv
<1>13. Timer!Service!Arm(t)
  <2>1. Timer!Active = NodesOf(f, n)
    BY <1>5, ActiveIs DEF n
  <2>2. Timer!Active' = NodesOf(h, lists'.size[l])
    BY <1>11, ActiveNext DEF Arranged
  <2>3. Timer!Active \subseteq Timers
    BY <1>5, <2>1
  <2>4. clock + i >= clock
    BY <1>3, <1>4 DEF TimerTypes
  <2>5. end_clock_ms_ \in [Timers -> Int]
    BY <1>4 DEF TimerTypes
  <2>6. Timer!Active' = Timer!Active \cup {t}
    BY <1>11, <2>1, <2>2
  <2> DEFINE x == clock + i
  <2>7. end_clock_ms_' = [end_clock_ms_ EXCEPT ![t] = x] /\ x >= clock
    BY <1>2, <2>4
  <2> HIDE DEF x
  <2>8. clock' = clock /\ fired' = fired /\ t \in Timers
    BY <1>2, <1>6
  <2> QED
    BY ONLY <2>3, <2>5, <2>6, <2>7, <2>8, ArmsOne
<1>14. Timer!Service!Next
  BY <1>6, <1>13 DEF Timer!Service!Next
<1> QED
  BY <1>12, <1>14, Zenon DEF Kept

(* Without its p-th node the active list is still in order.                *)
LEMMA StillInOrder ==
    ASSUME NEW f, NEW n \in Nat, NEW p \in 1 .. n, NEW ends, NEW ends2, InOrder(ends, f, n),
           \A i, j \in 1 .. n : f[i] = f[j] => i = j,
           \A i \in 1 .. n : f[i] # f[p] => ends2[f[i]] = ends[f[i]]
    PROVE  InOrder(ends2, Cut(f, n, p), n - 1)
<1> DEFINE h == Cut(f, n, p)
<1>1. \A i \in 1 .. n - 1 : h[i] = IF i < p THEN f[i] ELSE f[i + 1]
  BY DEF Cut
<1> HIDE DEF h
<1> SUFFICES ASSUME NEW a \in 1 .. n - 1, NEW b \in 1 .. n - 1, a <= b
             PROVE  ends2[h[a]] <= ends2[h[b]]
  BY DEF InOrder, h
<1>2. ASSUME NEW i \in 1 .. n, i # p PROVE ends2[f[i]] = ends[f[i]]
  BY <1>2
<1>3. PICK c \in 1 .. n : c # p /\ h[a] = f[c] /\ c = IF a < p THEN a ELSE a + 1
  <2>1. CASE a < p
    BY <1>1, <2>1
  <2>2. CASE ~(a < p)
    <3>1. a + 1 \in 1 .. n /\ a + 1 # p
      BY <2>2
    <3> QED
      BY <1>1, <2>2, <3>1
  <2> QED
    BY <2>1, <2>2
<1>4. PICK d \in 1 .. n : d # p /\ h[b] = f[d] /\ d = IF b < p THEN b ELSE b + 1
  <2>1. CASE b < p
    BY <1>1, <2>1
  <2>2. CASE ~(b < p)
    <3>1. b + 1 \in 1 .. n /\ b + 1 # p
      BY <2>2
    <3> QED
      BY <1>1, <2>2, <3>1
  <2> QED
    BY <2>1, <2>2
<1>5. c <= d
  BY <1>3, <1>4
<1> QED
  BY <1>2, <1>3, <1>4, <1>5 DEF InOrder

(* m is lists without the p-th active timer, which is in neither list.     *)
Unlinked(m, f, g, p) ==
    LET n == lists.size["active_list_"] IN
    /\ p \in 1 .. n
    /\ TwoLists(m, "active_list_", Cut(f, n, p), "free_list_", g)
    /\ Outside(m, "active_list_", Cut(f, n, p), "free_list_", g, f[p])
    /\ m.size["active_list_"] = n - 1 /\ m.size["free_list_"] = lists.size["free_list_"]

(* And it has gone to the free list.                                       *)
NowFree(m2, ends, h, g, nodes) ==
    /\ Arranged(m2, ends, lru, clock, last_clock_ms_, expiring, h, g)
    /\ NodesOf(h, m2.size["active_list_"]) = nodes

LEMMA Freed ==
    ASSUME NEW f, NEW g, NEW m, NEW p, NEW t, NEW ends,
           Arranged(lists, end_clock_ms_, lru, clock, last_clock_ms_, expiring, f, g),
           Unlinked(m, f, g, p), t = f[p],
           \A u \in Timers : u # t => ends[u] = end_clock_ms_[u]
    PROVE  \E h, g2 : NowFree(Timer!PushFront(m, "free_list_", t), ends, h, g2,
                              NodesOf(f, lists.size["active_list_"]) \ {t})
<1> DEFINE l == "active_list_"
           k == "free_list_"
           n == lists.size[l]
           nk == lists.size[k]
           h == Cut(f, n, p)
           g2 == Spliced(g, nk, 0, t)
           m2 == Timer!PushFront(m, k, t)
           left_ == NodesOf(f, n) \ {t}
<1>1. /\ TwoLists(lists, l, f, k, g)
      /\ NodesOf(f, n) \cup NodesOf(g, nk) = Timers
      /\ InOrder(end_clock_ms_, f, n)
      /\ lru => \A u \in NodesOf(f, n) : end_clock_ms_[u] <= clock + LruInterval
      /\ ~expiring => \A u \in NodesOf(f, n) : last_clock_ms_ <= end_clock_ms_[u]
  BY DEF Arranged
<1>2. /\ n \in Nat /\ nk \in Nat
      /\ \A i \in 1 .. n : f[i] \in Timers
      /\ \A i, j \in 1 .. n : f[i] = f[j] => i = j
  BY <1>1, NodesAre
<1>3. /\ p \in 1 .. n /\ TwoLists(m, k, g, l, h) /\ Outside(m, k, g, l, h, t)
      /\ m.size[l] = n - 1 /\ m.size[k] = nk
  <2>1. /\ p \in 1 .. n /\ TwoLists(m, l, h, k, g) /\ Outside(m, l, h, k, g, t)
        /\ m.size[l] = n - 1 /\ m.size[k] = nk
    BY DEF Unlinked
  <2>2. TwoLists(m, k, g, l, h)
    BY <2>1, ListsChange
  <2> QED
    BY <2>1, <2>2 DEF Outside
<1>4. TwoLists(m2, l, h, k, g2) /\ m2.size[l] = n - 1 /\ m2.size[k] = nk + 1
  <2> HIDE DEF l, k, h
  <2>1. /\ TwoLists(m2, k, Spliced(g, m.size[k], 0, t), l, h)
        /\ m2.size[k] = m.size[k] + 1 /\ m2.size[l] = m.size[l]
    BY <1>3, PushesFront
  <2> HIDE DEF m2
  <2>2. TwoLists(m2, k, g2, l, h)
    BY <1>3, <2>1
  <2> HIDE DEF g2
  <2> QED
    BY <1>3, <2>1, <2>2, ListsChange
<1>5. NodesOf(h, n - 1) = left_
  BY <1>2, <1>3, NodesCut
<1>6. NodesOf(g2, nk + 1) = NodesOf(g, nk) \cup {t}
  <2>1. 0 \in 0 .. nk /\ nk \in Nat
    BY <1>2
  <2> HIDE DEF nk
  <2> QED
    BY ONLY <2>1, NodesSpliced
<1>7. InOrder(ends, h, n - 1)
  <2>1. \A i \in 1 .. n : f[i] # f[p] => ends[f[i]] = end_clock_ms_[f[i]]
    BY <1>2
  <2> HIDE DEF n
  <2> QED
    BY <1>1, <1>2, <1>3, <2>1, StillInOrder
<1>8. NodesOf(f, n) \subseteq Timers /\ t \in Timers
  BY <1>2, <1>3 DEF NodesOf
<1> HIDE DEF m2, h, g2, l, k, n, nk
<1>9. /\ \A u \in left_ : ends[u] = end_clock_ms_[u] /\ u \in NodesOf(f, n)
  BY <1>8
<1>10. left_ \cup (NodesOf(g, nk) \cup {t}) = Timers
  BY <1>1, <1>8
<1> HIDE DEF left_
<1>11. Arranged(m2, ends, lru, clock, last_clock_ms_, expiring, h, g2)
  BY <1>1, <1>4, <1>5, <1>6, <1>7, <1>9, <1>10 DEF Arranged, l, k
<1>12. NodesOf(h, m2.size[l]) = left_
  BY <1>4, <1>5
<1> QED
  BY <1>11, <1>12, Zenon DEF NowFree, m2, left_, l, k, n

(* What expire, cancel_timer and update_timer find.                        *)
LEMMA ActivePlace ==
    ASSUME NEW f, NEW g, TwoLists(lists, "active_list_", f, "free_list_", g),
           NEW t \in Timer!Active
    PROVE  /\ \E p \in 1 .. lists.size["active_list_"] : t = f[p]
           /\ lists.size["active_list_"] > 0 /\ t \in Timers
<1>1. Timer!Active = NodesOf(f, lists.size["active_list_"])
  BY ActiveIs
<1>2. PICK p \in 1 .. lists.size["active_list_"] : t = f[p]
  BY <1>1 DEF NodesOf
<1>3. lists.size["active_list_"] \in Nat /\ f[p] \in Timers
  BY NodesAre
<1> QED
  BY <1>2, <1>3

LEMMA Removed ==
    ASSUME NEW f, NEW g, TwoLists(lists, "active_list_", f, "free_list_", g),
           NEW p \in 1 .. lists.size["active_list_"]
    PROVE  Unlinked(Timer!Remove(lists, "active_list_", f[p]), f, g, p)
BY Removes DEF Unlinked

LEMMA Popped ==
    ASSUME NEW f, NEW g, TwoLists(lists, "active_list_", f, "free_list_", g),
           lists.size["active_list_"] > 0
    PROVE  /\ Unlinked(Timer!PopFront(lists, "active_list_"), f, g, 1)
           /\ Timer!Front = f[1]
<1>1. 1 \in 1 .. lists.size["active_list_"]
  BY NodesAre
<1> QED
  BY <1>1, PopsFront DEF Unlinked, Timer!Front

(* A step of the queue that only moves the clocks or the loop of expire.   *)
LEMMA TimersStay ==
    ASSUME TimerInv, UNCHANGED <<lru, lists, end_clock_ms_, fired>>,
           clock' \in Nat, last_clock_ms_' \in Nat, expiring' \in BOOLEAN,
           clock <= clock', last_clock_ms_' <= clock',
           ~expiring' => \A t \in Timer!Active : last_clock_ms_' <= end_clock_ms_[t]
    PROVE  Kept
<1>1. PICK f, g : Arranged(lists, end_clock_ms_, lru, clock, last_clock_ms_, expiring, f, g)
  BY DEF TimerInv
<1> DEFINE n == lists.size["active_list_"]
<1>2. /\ TwoLists(lists, "active_list_", f, "free_list_", g)
      /\ NodesOf(f, n) \cup NodesOf(g, lists.size["free_list_"]) = Timers
      /\ InOrder(end_clock_ms_, f, n)
      /\ lru => \A t \in NodesOf(f, n) : end_clock_ms_[t] <= clock + LruInterval
  BY <1>1 DEF Arranged
<1>3. Timer!Active = NodesOf(f, n)
  BY <1>2, ActiveIs
<1>4. /\ lru \in BOOLEAN /\ clock \in Nat /\ LruInterval \in Nat
      /\ \A t \in NodesOf(f, n) : t \in Timers /\ end_clock_ms_[t] \in Int
      /\ end_clock_ms_ \in [Timers -> Int]
  <2>1. \A t \in NodesOf(f, n) : t \in Timers
    BY <1>2
  <2> QED
    BY <2>1, PoolIs DEF TimerInv, TimerTypes
<1>5. lru' = lru /\ lists' = lists /\ end_clock_ms_' = end_clock_ms_ /\ fired' = fired
  OBVIOUS
<1>6. lru => \A t \in NodesOf(f, n) : end_clock_ms_[t] <= clock' + LruInterval
  <2> SUFFICES ASSUME lru, NEW t \in NodesOf(f, n) PROVE end_clock_ms_[t] <= clock' + LruInterval
    OBVIOUS
  <2>1. end_clock_ms_[t] <= clock + LruInterval /\ end_clock_ms_[t] \in Int
    BY <1>2, <1>4
  <2> QED
    BY <1>4, <2>1
<1>7. Arranged(lists, end_clock_ms_, lru, clock', last_clock_ms_', expiring', f, g)
  BY <1>2, <1>3, <1>6 DEF Arranged
<1>8. TimerInv'
  <2>1. TimerTypes'
    BY <1>4, <1>5 DEF TimerTypes
  <2>2. Arranged(lists', end_clock_ms_', lru', clock', last_clock_ms_', expiring', f, g)
    BY <1>5, <1>7
  <2> QED
    BY <2>1, <2>2 DEF TimerInv
<1>9. [Timer!Service!Next]_(Timer!Service!serviceVars)
  <2> DEFINE armed == [t \in Timer!Active |-> end_clock_ms_[t]]
  <2>1. Timer!Active' = Timer!Active
    BY <1>5 DEF Timer!Active
  <2>2. [t \in Timer!Active' |-> end_clock_ms_'[t]] = armed
    BY <1>5, <2>1
  <2>3. CASE clock' = clock
    BY <1>5, <2>2, <2>3 DEF Timer!Service!serviceVars
  <2>4. CASE clock' # clock
    <3>1. clock' > clock
      BY <1>4, <2>4
    <3>2. Timer!Service!Tick
      BY <1>5, <2>2, <3>1 DEF Timer!Service!Tick
    <3> QED
      BY <3>2 DEF Timer!Service!Next
  <2> QED
    BY <2>3, <2>4
<1> QED
  BY <1>8, <1>9, Zenon DEF Kept

(* cancel_timer.                                                           *)
LEMMA TimerCancels ==
    ASSUME TimerInv, ~StaleCalls, NEW t \in Timers, Timer!CancelTimer(t)
    PROVE  Kept
<1> DEFINE l == "active_list_"
           k == "free_list_"
           n == lists.size[l]
           m == Timer!Remove(lists, l, t)
<1>1. PICK f, g : Arranged(lists, end_clock_ms_, lru, clock, last_clock_ms_, expiring, f, g)
  BY DEF TimerInv
<1>2. TwoLists(lists, l, f, k, g) /\ Timer!Active = NodesOf(f, n)
  BY <1>1, ActiveIs DEF Arranged
<1>3. t \in Timer!Active
  BY DEF Timer!CancelTimer, Timer!Usable
<1>4. PICK p \in 1 .. n : t = f[p]
  BY <1>2, <1>3, ActivePlace
<1>5. n > 0
  BY <1>2, <1>3, ActivePlace
<1>6. /\ lists' = Timer!PushFront(m, k, t)
      /\ end_clock_ms_' = [end_clock_ms_ EXCEPT ![t] = 0]
      /\ UNCHANGED <<lru, last_clock_ms_, expiring, clock, fired>>
  BY <1>5 DEF Timer!CancelTimer
<1>7. Unlinked(m, f, g, p)
  BY <1>2, <1>4, Removed
<1> HIDE DEF m
<1>8. end_clock_ms_ \in [Timers -> Int] /\ TimerTypes
  BY DEF TimerInv, TimerTypes
<1>9. \A u \in Timers : u # t => end_clock_ms_'[u] = end_clock_ms_[u]
  BY <1>6, <1>8
<1>10. \E h, g2 : NowFree(lists', end_clock_ms_', h, g2, Timer!Active \ {t})
  <2> DEFINE ends == end_clock_ms_'
  <2>1. \A u \in Timers : u # t => ends[u] = end_clock_ms_[u]
    BY <1>9
  <2> HIDE DEF ends
  <2>2. \E h, g2 : NowFree(Timer!PushFront(m, k, t), ends, h, g2, NodesOf(f, n) \ {t})
    BY ONLY <1>1, <1>4, <1>7, <2>1, Freed
  <2> QED
    BY <1>2, <1>6, <2>2 DEF ends
<1>11. PICK h, g2 : /\ Arranged(lists', end_clock_ms_', lru, clock, last_clock_ms_, expiring, h, g2)
                    /\ NodesOf(h, lists'.size[l]) = Timer!Active \ {t}
  BY <1>10 DEF NowFree
<1>12. TimerInv'
  <2>1. TimerTypes'
    BY <1>6, <1>8 DEF TimerTypes
  <2>2. Arranged(lists', end_clock_ms_', lru', clock', last_clock_ms_', expiring', h, g2)
    BY <1>6, <1>11
  <2> QED
    BY <2>1, <2>2 DEF TimerInv
<1>13. Timer!Service!Cancel(t)
  <2>1. Timer!Active' = Timer!Active \ {t}
    BY <1>11, ActiveNext DEF Arranged
  <2>2. Timer!Active \subseteq Timers
    BY <1>1, <1>2 DEF Arranged
  <2>3. \A u \in Timer!Active' : end_clock_ms_'[u] = end_clock_ms_[u]
    BY <1>9, <2>1, <2>2
  <2>4. Timer!Service!Disarm(t)
    BY <2>1, <2>3, DisarmsOne
  <2> QED
    BY <1>3, <1>6, <2>4 DEF Timer!Service!Cancel, Timer!Service!ArmedTimers
<1>14. Timer!Service!Next
  BY <1>13 DEF Timer!Service!Next
<1> QED
  BY <1>12, <1>14, Zenon DEF Kept

(* One turn of the loop of expire.                                         *)
LEMMA TimerFires ==
    ASSUME TimerInv, Timer!FireFront
    PROVE  Kept
<1> DEFINE l == "active_list_"
           k == "free_list_"
           n == lists.size[l]
           m == Timer!PopFront(lists, l)
<1>1. PICK f, g : Arranged(lists, end_clock_ms_, lru, clock, last_clock_ms_, expiring, f, g)
  BY DEF TimerInv
<1>2. TwoLists(lists, l, f, k, g) /\ Timer!Active = NodesOf(f, n)
  BY <1>1, ActiveIs DEF Arranged
<1>3. n > 0 /\ last_clock_ms_ >= end_clock_ms_[Timer!Front]
  BY DEF Timer!FireFront, Timer!Due
<1>4. Unlinked(m, f, g, 1) /\ Timer!Front = f[1]
  BY <1>2, <1>3, Popped
<1>5. PICK t : t = f[1]
  OBVIOUS
<1>6. /\ lists' = Timer!PushFront(m, k, t)
      /\ fired' = fired + 1
      /\ UNCHANGED <<lru, end_clock_ms_, last_clock_ms_, expiring, clock>>
  BY <1>4, <1>5 DEF Timer!FireFront, Timer!timerVars
<1> HIDE DEF m
<1>7. n \in Nat /\ 1 \in 1 .. n /\ t \in Timer!Active /\ Timer!Active \subseteq Timers
  <2>1. n \in Nat
    BY <1>2, NodesAre
  <2>2. 1 \in 1 .. n
    BY <1>3, <2>1
  <2> QED
    BY <1>1, <1>2, <1>5, <2>1, <2>2 DEF Arranged, NodesOf
<1>8. end_clock_ms_ \in [Timers -> Int] /\ TimerTypes
  BY DEF TimerInv, TimerTypes
<1>10. \E h, g2 : NowFree(lists', end_clock_ms_, h, g2, Timer!Active \ {t})
  <2>1. \A u \in Timers : u # t => end_clock_ms_[u] = end_clock_ms_[u]
    OBVIOUS
  <2>2. \E h, g2 : NowFree(Timer!PushFront(m, k, t), end_clock_ms_, h, g2, NodesOf(f, n) \ {t})
    BY ONLY <1>1, <1>4, <1>5, <2>1, Freed
  <2> QED
    BY <1>2, <1>6, <2>2
<1>11. PICK h, g2 : /\ Arranged(lists', end_clock_ms_, lru, clock, last_clock_ms_, expiring, h, g2)
                    /\ NodesOf(h, lists'.size[l]) = Timer!Active \ {t}
  BY <1>10 DEF NowFree
<1>12. TimerInv'
  <2>1. TimerTypes'
    BY <1>6, <1>8 DEF TimerTypes
  <2>2. Arranged(lists', end_clock_ms_', lru', clock', last_clock_ms_', expiring', h, g2)
    BY <1>6, <1>11
  <2> QED
    BY <2>1, <2>2 DEF TimerInv
<1>13. Timer!Service!Fire(t)
  <2> DEFINE armed == [u \in Timer!Active |-> end_clock_ms_[u]]
  <2>1. Timer!Active' = Timer!Active \ {t}
    BY <1>11, ActiveNext DEF Arranged
  <2>2. Timer!Service!Disarm(t)
    BY <1>6, <2>1, DisarmsOne
  <2>3. end_clock_ms_[t] <= clock
    <3>1. end_clock_ms_[t] \in Int /\ last_clock_ms_ \in Nat /\ clock \in Nat /\ last_clock_ms_ <= clock
      BY <1>7, <1>8 DEF TimerTypes
    <3>2. last_clock_ms_ >= end_clock_ms_[t]
      BY <1>3, <1>4, <1>5
    <3> QED
      BY <3>1, <3>2
  <2>4. \A u \in Timer!Active : end_clock_ms_[t] <= end_clock_ms_[u]
    <3>1. InOrder(end_clock_ms_, f, n)
      BY <1>1 DEF Arranged
    <3>2. \A i \in 1 .. n : 1 <= i
      OBVIOUS
    <3>3. \A i \in 1 .. n : end_clock_ms_[f[1]] <= end_clock_ms_[f[i]]
      BY <1>7, <3>1, <3>2 DEF InOrder
    <3> QED
      BY <1>2, <1>5, <3>3 DEF NodesOf
  <2>5. DOMAIN armed = Timer!Active /\ \A u \in Timer!Active : armed[u] = end_clock_ms_[u]
    OBVIOUS
  <2>6. t \in DOMAIN armed /\ armed[t] <= clock /\ \A u \in DOMAIN armed : armed[t] <= armed[u]
    BY <1>7, <2>3, <2>4, <2>5
  <2> QED
    BY <1>6, <2>2, <2>6 DEF Timer!Service!Fire, Timer!Service!ArmedTimers
<1>14. Timer!Service!Next
  BY <1>7, <1>13 DEF Timer!Service!Next
<1> QED
  BY <1>12, <1>14, Zenon DEF Kept

(* update_timer of the sorted queue.                                       *)
LEMMA TimerUpdates ==
    ASSUME TimerInv, ~StaleCalls, TRUE \notin Updates, NEW t \in Timers, Timer!UpdateTimer(t)
    PROVE  Kept
<1> DEFINE l == "active_list_"
           k == "free_list_"
           n == lists.size[l]
           m == Timer!Remove(lists, l, t)
<1>1. PICK f, g : Arranged(lists, end_clock_ms_, lru, clock, last_clock_ms_, expiring, f, g)
  BY DEF TimerInv
<1>2. TwoLists(lists, l, f, k, g) /\ Timer!Active = NodesOf(f, n)
  BY <1>1, ActiveIs DEF Arranged
<1>3. t \in Timer!Active
  BY DEF Timer!UpdateTimer, Timer!Usable
<1>4. PICK p \in 1 .. n : t = f[p]
  BY <1>2, <1>3, ActivePlace
<1>5. n > 0
  BY <1>2, <1>3, ActivePlace
<1>6. /\ lists' = Timer!Activated(m, t, clock + 0)
      /\ end_clock_ms_' = [end_clock_ms_ EXCEPT ![t] = clock + 0]
      /\ UNCHANGED <<lru, last_clock_ms_, expiring, clock, fired>>
  BY <1>5 DEF Timer!UpdateTimer
<1>7. lru \in BOOLEAN /\ lru \in Updates
  BY Zenon DEF Timer!UpdateTimer, TimerInv, TimerTypes
<1>8. ~lru
  <2>1. CASE lru
    <3>1. lru = TRUE
      BY <1>7, <2>1, Zenon
    <3> QED
      BY <1>7, <3>1, Zenon
  <2> QED
    BY <2>1
<1>9. Unlinked(m, f, g, p)
  BY <1>2, <1>4, Removed
<1> HIDE DEF m
<1>10. TimerTypes /\ end_clock_ms_ \in [Timers -> Int] /\ clock \in Nat
  BY DEF TimerInv, TimerTypes
<1> DEFINE c == Cut(f, n, p)
           nk == lists.size[k]
<1>11. /\ n \in Nat /\ n - 1 \in Nat /\ \A i, j \in 1 .. n : f[i] = f[j] => i = j
       /\ m.size[l] = n - 1 /\ m.size[k] = nk
       /\ TwoLists(m, l, c, k, g) /\ Outside(m, l, c, k, g, t)
  <2>1. n \in Nat /\ \A i, j \in 1 .. n : f[i] = f[j] => i = j
    BY <1>2, NodesAre
  <2>2. n - 1 \in Nat
    BY <1>5, <2>1
  <2> QED
    BY <1>4, <1>9, <2>1, <2>2 DEF Unlinked
<1>12. NodesOf(c, n - 1) = Timer!Active \ {t}
  BY <1>2, <1>4, <1>11, NodesCut
<1>13. CanActivate(m, c, g, t, 0)
  <2>1. InOrder(end_clock_ms_, c, n - 1)
    <3>1. InOrder(end_clock_ms_, f, n) /\ p \in 1 .. n /\ n \in Nat
      BY <1>1, <1>11 DEF Arranged
    <3>2. \A i \in 1 .. n : f[i] # f[p] => end_clock_ms_[f[i]] = end_clock_ms_[f[i]]
      OBVIOUS
    <3> HIDE DEF n
    <3> QED
      BY <1>11, <3>1, <3>2, StillInOrder
  <2>2. NodesOf(c, n - 1) \cup NodesOf(g, nk) = Timers \ {t}
    <3>1. Timer!Active \cup NodesOf(g, nk) = Timers
      BY <1>1, <1>2 DEF Arranged
    <3>2. t \notin NodesOf(g, nk)
      BY <1>11 DEF Outside, NodesOf
    <3> HIDE DEF nk, c, n
    <3> QED
      BY <1>12, <3>1, <3>2
  <2>3. ~expiring => \A u \in NodesOf(c, n - 1) : last_clock_ms_ <= end_clock_ms_[u]
    <3>1. ~expiring => \A u \in Timer!Active : last_clock_ms_ <= end_clock_ms_[u]
      BY <1>1, <1>2 DEF Arranged
    <3> HIDE DEF c, n
    <3> QED
      BY <1>12, <3>1
  <2> HIDE DEF c
  <2> QED
    BY <1>8, <1>11, <2>1, <2>2, <2>3 DEF CanActivate
<1>14. PICK h : NowActive(lists', end_clock_ms_', h, g, Timer!Active)
  <2>1. \E h : NowActive(Timer!Activated(m, t, clock + 0),
                         [end_clock_ms_ EXCEPT ![t] = clock + 0], h, g,
                         NodesOf(c, m.size[l]) \cup {t})
    BY ONLY <1>10, <1>13, Activated
  <2>2. NodesOf(c, m.size[l]) \cup {t} = Timer!Active
    BY <1>3, <1>11, <1>12
  <2> HIDE DEF c
  <2> QED
    BY ONLY <1>6, <2>1, <2>2
<1>15. TimerInv'
  <2>1. TimerTypes'
    <3>1. clock + 0 \in Int
      BY <1>10
    <3>2. end_clock_ms_' \in [Timers -> Int]
      BY <1>6, <1>10, <3>1
    <3> QED
      BY <1>6, <1>10, <3>2 DEF TimerTypes
  <2>2. Arranged(lists', end_clock_ms_', lru', clock', last_clock_ms_', expiring', h, g)
    BY <1>6, <1>14 DEF NowActive
  <2> QED
    BY <2>1, <2>2 DEF TimerInv
<1>16. Timer!Service!Arm(t)
  <2>1. Timer!Active' = Timer!Active \cup {t}
    <3>1. TwoLists(lists', l, h, k, g) /\ NodesOf(h, lists'.size[l]) = Timer!Active
      BY <1>14 DEF NowActive, Arranged
    <3>2. Timer!Active' = Timer!Active
      BY <3>1, ActiveNext
    <3> QED
      BY <1>3, <3>2
  <2>2. Timer!Active \subseteq Timers
    BY <1>1, <1>2 DEF Arranged
  <2> DEFINE x == clock + 0
  <2>3. end_clock_ms_' = [end_clock_ms_ EXCEPT ![t] = x] /\ x >= clock
    BY <1>6, <1>10
  <2> HIDE DEF x
  <2>4. clock' = clock /\ fired' = fired
    BY <1>6
  <2> QED
    BY ONLY t \in Timers, <1>10, <2>1, <2>2, <2>3, <2>4, ArmsOne
<1>17. Timer!Service!Next
  BY <1>16 DEF Timer!Service!Next
<1> QED
  BY <1>15, <1>17, Zenon DEF Kept

(* Every step of a timer queue.                                            *)
LEMMA TimersStep ==
    ASSUME TimerInv, ~StaleCalls, TRUE \notin Updates, [Timer!Next]_timerVars
    PROVE  Kept
<1>1. /\ clock \in Nat /\ last_clock_ms_ \in Nat /\ last_clock_ms_ <= clock
      /\ expiring \in BOOLEAN /\ end_clock_ms_ \in [Timers -> Int]
  BY DEF TimerInv, TimerTypes
<1>2. PICK f, g : Arranged(lists, end_clock_ms_, lru, clock, last_clock_ms_, expiring, f, g)
  BY DEF TimerInv
<1>3. /\ TwoLists(lists, "active_list_", f, "free_list_", g)
      /\ Timer!Active = NodesOf(f, lists.size["active_list_"])
      /\ InOrder(end_clock_ms_, f, lists.size["active_list_"])
      /\ ~expiring => \A t \in Timer!Active : last_clock_ms_ <= end_clock_ms_[t]
  BY <1>2, ActiveIs DEF Arranged
<1>4. CASE UNCHANGED timerVars
  <2>1. /\ lru' = lru /\ lists' = lists /\ end_clock_ms_' = end_clock_ms_ /\ fired' = fired
        /\ clock' = clock /\ last_clock_ms_' = last_clock_ms_ /\ expiring' = expiring
    BY <1>4 DEF timerVars
  <2>2. clock' \in Nat /\ last_clock_ms_' \in Nat /\ clock <= clock' /\ last_clock_ms_' <= clock'
    BY <1>1, <2>1
  <2> QED
    BY <1>1, <1>3, <2>1, <2>2, TimersStay
<1>5. CASE Timer!Tick
  <2>1. /\ lru' = lru /\ lists' = lists /\ end_clock_ms_' = end_clock_ms_ /\ fired' = fired
        /\ clock' = clock + 1 /\ last_clock_ms_' = last_clock_ms_ /\ expiring' = expiring
    BY <1>5 DEF Timer!Tick, Timer!timerVars
  <2>2. clock' \in Nat /\ last_clock_ms_' \in Nat /\ clock <= clock' /\ last_clock_ms_' <= clock'
    BY <1>1, <2>1
  <2> QED
    BY <1>1, <1>3, <2>1, <2>2, TimersStay
<1>6. CASE Timer!BeginExpire
  <2>1. /\ lru' = lru /\ lists' = lists /\ end_clock_ms_' = end_clock_ms_ /\ fired' = fired
        /\ clock' = clock /\ last_clock_ms_' = clock /\ expiring' = TRUE
    BY <1>6 DEF Timer!BeginExpire, Timer!timerVars
  <2>2. clock' \in Nat /\ last_clock_ms_' \in Nat /\ clock <= clock' /\ last_clock_ms_' <= clock'
    BY <1>1, <2>1
  <2> QED
    BY <2>1, <2>2, TimersStay
<1>7. CASE Timer!EndExpire
  <2>1. /\ lru' = lru /\ lists' = lists /\ end_clock_ms_' = end_clock_ms_ /\ fired' = fired
        /\ clock' = clock /\ last_clock_ms_' = last_clock_ms_ /\ expiring' = FALSE
    BY <1>7 DEF Timer!EndExpire, Timer!timerVars
  <2>2. clock' \in Nat /\ last_clock_ms_' \in Nat /\ clock <= clock' /\ last_clock_ms_' <= clock'
    BY <1>1, <2>1
  <2> DEFINE n == lists.size["active_list_"]
  <2>3. /\ n \in Nat /\ \A i \in 1 .. n : f[i] \in Timers
        /\ n > 0 => 1 \in 1 .. n /\ Timer!Front = f[1]
    BY <1>3, NodesAre, ListEnds DEF Timer!Front
  <2>4. ASSUME NEW t \in Timer!Active PROVE last_clock_ms_' <= end_clock_ms_[t]
    <3>1. PICK i \in 1 .. n : t = f[i]
      BY <1>3 DEF NodesOf
    <3>2. n > 0 /\ 1 \in 1 .. n /\ 1 <= i
      BY <2>3
    <3>3. ~(last_clock_ms_ >= end_clock_ms_[f[1]])
      BY <1>7, <2>3, <3>2 DEF Timer!EndExpire, Timer!Due
    <3>4. end_clock_ms_[f[1]] <= end_clock_ms_[f[i]]
      BY <1>3, <3>2 DEF InOrder
    <3>5. end_clock_ms_[f[1]] \in Int /\ end_clock_ms_[f[i]] \in Int
      BY <1>1, <2>3, <3>2
    <3> QED
      BY <1>1, <2>1, <3>1, <3>3, <3>4, <3>5
  <2> QED
    BY <2>1, <2>2, <2>4, TimersStay
<1>8. CASE Timer!FireFront
  BY <1>8, TimerFires
<1>9. ASSUME NEW i \in Intervals \cup {LruInterval}, Timer!SetTimer(i) PROVE Kept
  BY <1>9, TimerSets
<1>10. ASSUME NEW t \in Timers, Timer!CancelTimer(t) PROVE Kept
  BY <1>10, TimerCancels
<1>11. ASSUME NEW t \in Timers, Timer!UpdateTimer(t) PROVE Kept
  BY <1>11, TimerUpdates
<1> QED
  BY <1>4, <1>5, <1>6, <1>7, <1>8, <1>9, <1>10, <1>11 DEF Timer!Next, Timer!Expire

-----------------------------------------------------------------------------
(***************************************************************************)
(* The timer lists: what is defined on the numbers up to n by a step, the  *)
(* lists in order of the deadlines, and SL_Timer_List_Time and _Clock.     *)
(***************************************************************************)
(* A function on 0 .. n that is defined by what it is at 0 and by a step.  *)
Follows(f, n, a, step) ==
    f = [i \in 0 .. n |-> IF i = 0 THEN a ELSE step[<<i, f[i - 1]>>]]

LEMMA FollowsExists ==
    ASSUME NEW X, NEW a \in X, NEW step \in [Nat \X X -> X], NEW n \in Nat
    PROVE  \E f : Follows(f, n, a, step) /\ \A i \in 0 .. n : f[i] \in X
<1> DEFINE Good(f, k) == Follows(f, k, a, step) /\ \A i \in 0 .. k : f[i] \in X
           T == {k \in Nat : \E f : Good(f, k)}
<1>1. 0 \in T
  <2> DEFINE f == [i \in 0 .. 0 |-> a]
  <2>1. Good(f, 0)
    BY DEF Follows
  <2> QED
    BY <2>1
<1>2. ASSUME NEW k \in Nat, k \in T PROVE k + 1 \in T
  <2>1. PICK f : Good(f, k)
    BY <1>2
  <2> DEFINE V(i) == IF i = 0 THEN a ELSE step[<<i, f[i - 1]>>]
             h == [i \in 0 .. k + 1 |-> V(i)]
  <2>2. \A i \in 0 .. k : f[i] = V(i) /\ f[i] \in X
    BY <2>1 DEF Follows
  <2>3. \A i \in 0 .. k + 1 : V(i) \in X
    <3> SUFFICES ASSUME NEW i \in 0 .. k + 1, i # 0 PROVE V(i) \in X
      OBVIOUS
    <3>1. i - 1 \in 0 .. k /\ i \in Nat
      OBVIOUS
    <3>2. f[i - 1] \in X
      BY <2>2, <3>1
    <3> QED
      BY <3>1, <3>2
  <2>4. \A i \in 0 .. k + 1 : i # 0 => h[i - 1] = f[i - 1]
    <3> SUFFICES ASSUME NEW i \in 0 .. k + 1, i # 0 PROVE h[i - 1] = f[i - 1]
      OBVIOUS
    <3>1. i - 1 \in 0 .. k /\ i - 1 \in 0 .. k + 1
      OBVIOUS
    <3> HIDE DEF V
    <3>2. h[i - 1] = V(i - 1)
      BY <3>1
    <3> QED
      BY <2>2, <3>1, <3>2
  <2>5. \A i \in 0 .. k + 1 : V(i) = IF i = 0 THEN a ELSE step[<<i, h[i - 1]>>]
    <3> HIDE DEF h
    <3> QED
      BY <2>4
  <2>6. Follows(h, k + 1, a, step)
    <3> DEFINE W(i) == IF i = 0 THEN a ELSE step[<<i, h[i - 1]>>]
    <3>1. \A i \in 0 .. k + 1 : V(i) = W(i)
      BY <2>5
    <3>2. h = [i \in 0 .. k + 1 |-> V(i)]
      OBVIOUS
    <3> HIDE DEF V, W, h
    <3>3. h = [i \in 0 .. k + 1 |-> W(i)]
      BY <3>1, <3>2
    <3> QED
      BY <3>3 DEF W, Follows
  <2>7. \A i \in 0 .. k + 1 : h[i] \in X
    <3> HIDE DEF V
    <3> QED
      BY <2>3
  <2> HIDE DEF h
  <2> QED
    BY <1>2, <2>6, <2>7
<1> HIDE DEF T
<1>3. \A k \in Nat : k \in T
  BY <1>1, <1>2, NatInSet
<1> QED
  BY <1>3 DEF T

-----------------------------------------------------------------------------
(* The lists in order of the deadlines, and add_timer_i.                   *)
Elements(list) == {list[i] : i \in DOMAIN list}

Ordered(list, ends) ==
    /\ list \in Seq(Timers)
    /\ \A i, j \in DOMAIN list : i < j => list[i] # list[j] /\ ends[list[i]] <= ends[list[j]]

LEMMA ElementsAre ==
    ASSUME NEW list \in Seq(Timers)
    PROVE  /\ Len(list) \in Nat /\ DOMAIN list = 1 .. Len(list)
           /\ Elements(list) \subseteq Timers
           /\ \A i \in 1 .. Len(list) : list[i] \in Timers /\ list[i] \in Elements(list)
           /\ \A t : t \in Elements(list) <=> Sorted!In(list, t)
<1>1. Len(list) \in Nat /\ DOMAIN list = 1 .. Len(list) /\ \A i \in 1 .. Len(list) : list[i] \in Timers
  BY LenProperties, ElementOfSeq
<1> QED
  BY <1>1 DEF Elements, Sorted!In

(* The place that add_timer_i finds.                                       *)
FoundPlace(list, ends, t) ==
    LET later == {i \in DOMAIN list : ends[t] <= ends[list[i]]} IN
    IF later = {} THEN Len(list) + 1 ELSE CHOOSE i \in later : \A j \in later : i <= j

LEMMA PlaceIs ==
    ASSUME NEW list \in Seq(Timers), NEW ends \in [Timers -> Int], NEW t \in Timers
    PROVE  /\ FoundPlace(list, ends, t) \in 1 .. Len(list) + 1
           /\ \A i \in 1 .. Len(list) : i < FoundPlace(list, ends, t) => ends[list[i]] < ends[t]
           /\ FoundPlace(list, ends, t) <= Len(list) => ends[t] <= ends[list[FoundPlace(list, ends, t)]]
<1> DEFINE n == Len(list)
           later == {i \in DOMAIN list : ends[t] <= ends[list[i]]}
           p == FoundPlace(list, ends, t)
<1>1. n \in Nat /\ DOMAIN list = 1 .. n /\ \A i \in 1 .. n : list[i] \in Timers
  BY ElementsAre
<1>2. ends[t] \in Int /\ \A i \in 1 .. n : ends[list[i]] \in Int
  BY <1>1
<1>3. \A i \in 1 .. n : i \notin later => ends[list[i]] < ends[t]
  BY <1>1, <1>2
<1>4. CASE later = {}
  <2>1. p = n + 1
    BY <1>4 DEF FoundPlace
  <2> HIDE DEF p, n
  <2> QED
    BY <1>1, <1>3, <1>4, <2>1, SMTT(60) DEF p, n
<1>5. CASE later # {}
  <2>1. later \subseteq 1 .. n
    BY <1>1
  <2>2. \E i \in later : \A j \in later : i <= j
    <3> HIDE DEF later
    <3>1. later \subseteq Nat
      BY <1>1, <2>1
    <3> QED
      BY <1>5, <3>1, LeastExists
  <2>3. p = CHOOSE i \in later : \A j \in later : i <= j
    BY <1>5 DEF FoundPlace
  <2>4. p \in later /\ \A j \in later : p <= j
    <3> HIDE DEF later, p
    <3> QED
      BY <2>2, <2>3
  <2>5. p \in 1 .. n /\ ends[t] <= ends[list[p]]
    BY <2>1, <2>4
  <2>6. \A i \in 1 .. n : i < p => i \notin later
    <3> HIDE DEF later, p
    <3> QED
      BY <2>4, <2>5, <1>1
  <2> HIDE DEF later, p
  <2> QED
    BY <1>1, <1>3, <2>5, <2>6 DEF p
<1> QED
  BY <1>4, <1>5

LEMMA InsertedIs ==
    ASSUME NEW list \in Seq(Timers), NEW ends \in [Timers -> Int], NEW t \in Timers
    PROVE  LET p == FoundPlace(list, ends, t)
               r == Sorted!Inserted(list, ends, t) IN
           /\ r \in Seq(Timers) /\ Len(r) = Len(list) + 1
           /\ \A i \in 1 .. Len(list) + 1 :
                 r[i] = IF i < p THEN list[i] ELSE IF i = p THEN t ELSE list[i - 1]
<1> DEFINE n == Len(list)
           p == FoundPlace(list, ends, t)
           r == Sorted!Inserted(list, ends, t)
           a == SubSeq(list, 1, p - 1)
           b == SubSeq(list, p, n)
<1>1. n \in Nat /\ \A i \in 1 .. n : list[i] \in Timers
  BY ElementsAre
<1>2. p \in 1 .. n + 1
  BY PlaceIs
<1>3. r = a \o <<t>> \o b
  BY DEF Sorted!Inserted, FoundPlace
<1> HIDE DEF p, r
<1>4. /\ a \in Seq(Timers) /\ Len(a) = p - 1
      /\ \A i \in 1 .. p - 1 : a[i] = list[i]
  <2>1. \A i \in 1 .. p - 1 : list[i] \in Timers
    BY <1>1, <1>2
  <2>2. p - 1 \in Int /\ 1 \in Int
    BY <1>2
  <2>3. /\ a \in Seq(Timers) /\ Len(a) = (IF 1 <= p - 1 THEN p - 1 - 1 + 1 ELSE 0)
        /\ \A i \in 1 .. p - 1 - 1 + 1 : a[i] = list[1 + i - 1]
    BY <2>1, <2>2, SubSeqProperties
  <2> HIDE DEF a
  <2> QED
    BY <1>2, <2>3
<1>5. /\ b \in Seq(Timers) /\ Len(b) = n + 1 - p
      /\ \A i \in 1 .. n + 1 - p : b[i] = list[p + i - 1]
  <2>1. \A i \in p .. n : list[i] \in Timers
    BY <1>1, <1>2
  <2>2. p \in Int /\ n \in Int
    BY <1>1, <1>2
  <2>3. /\ b \in Seq(Timers) /\ Len(b) = (IF p <= n THEN n - p + 1 ELSE 0)
        /\ \A i \in 1 .. n - p + 1 : b[i] = list[p + i - 1]
    BY <2>1, <2>2, SubSeqProperties
  <2> HIDE DEF b
  <2> QED
    BY <1>1, <1>2, <2>3, SMTT(60)
<1> HIDE DEF a, b
<1>6. <<t>> \in Seq(Timers) /\ Len(<<t>>) = 1 /\ <<t>>[1] = t
  OBVIOUS
<1> DEFINE c == a \o <<t>>
<1>7. /\ c \in Seq(Timers) /\ Len(c) = p
      /\ \A i \in 1 .. p : c[i] = IF i < p THEN list[i] ELSE t
  <2>1. c \in Seq(Timers) /\ Len(c) = Len(a) + 1
        /\ \A i \in 1 .. Len(a) + 1 : c[i] = IF i <= Len(a) THEN a[i] ELSE <<t>>[i - Len(a)]
    BY <1>4, <1>6, ConcatProperties
  <2> HIDE DEF c
  <2>2. Len(c) = p /\ Len(a) + 1 = p
    BY <1>2, <1>4, <2>1
  <2>3. ASSUME NEW i \in 1 .. p PROVE c[i] = IF i < p THEN list[i] ELSE t
    <3>1. c[i] = IF i <= Len(a) THEN a[i] ELSE <<t>>[i - Len(a)]
      BY <2>1, <2>2
    <3>2. CASE i < p
      BY <1>2, <1>4, <3>1, <3>2
    <3>3. CASE i = p
      <4>1. ~(i <= Len(a)) /\ i - Len(a) = 1
        BY <1>2, <1>4, <3>3
      <4> QED
        BY <1>6, <3>1, <3>3, <4>1
    <3> QED
      BY <1>2, <3>2, <3>3
  <2> QED
    BY <2>1, <2>2, <2>3
<1> HIDE DEF c
<1>8. /\ r \in Seq(Timers) /\ Len(r) = n + 1
      /\ \A i \in 1 .. n + 1 : r[i] = IF i <= p THEN c[i] ELSE b[i - p]
  <2>1. r = c \o b
    BY <1>3 DEF c
  <2>2. r \in Seq(Timers) /\ Len(r) = Len(c) + Len(b)
        /\ \A i \in 1 .. Len(c) + Len(b) : r[i] = IF i <= Len(c) THEN c[i] ELSE b[i - Len(c)]
    BY <1>5, <1>7, <2>1, ConcatProperties
  <2>3. Len(c) + Len(b) = n + 1 /\ Len(c) = p
    BY <1>1, <1>2, <1>5, <1>7
  <2> QED
    BY <2>2, <2>3
<1>9. ASSUME NEW i \in 1 .. n + 1
      PROVE  r[i] = IF i < p THEN list[i] ELSE IF i = p THEN t ELSE list[i - 1]
  <2>1. CASE i <= p
    BY <1>1, <1>2, <1>7, <1>8, <2>1
  <2>2. CASE ~(i <= p)
    <3>1. i - p \in 1 .. n + 1 - p /\ p + (i - p) - 1 = i - 1 /\ ~(i < p) /\ i # p
      BY <1>1, <1>2, <2>2
    <3>2. b[i - p] = list[p + (i - p) - 1]
      BY <1>5, <3>1
    <3> QED
      BY <1>8, <2>2, <3>1, <3>2
  <2> QED
    BY <2>1, <2>2
<1> QED
  BY <1>8, <1>9 DEF r, p

(* In a list in order it is the right place.                               *)
LEMMA InsertsInOrder ==
    ASSUME NEW list, NEW ends \in [Timers -> Int], Ordered(list, ends),
           NEW t \in Timers, t \notin Elements(list)
    PROVE  /\ Ordered(Sorted!Inserted(list, ends, t), ends)
           /\ Elements(Sorted!Inserted(list, ends, t)) = Elements(list) \cup {t}
<1> DEFINE n == Len(list)
           p == FoundPlace(list, ends, t)
           r == Sorted!Inserted(list, ends, t)
           R(i) == IF i < p THEN list[i] ELSE IF i = p THEN t ELSE list[i - 1]
<1>1. /\ n \in Nat /\ list \in Seq(Timers) /\ DOMAIN list = 1 .. n
      /\ \A i \in 1 .. n : list[i] \in Timers /\ list[i] \in Elements(list)
      /\ \A i, j \in 1 .. n : i < j => list[i] # list[j] /\ ends[list[i]] <= ends[list[j]]
  BY ElementsAre DEF Ordered
<1>2. /\ p \in 1 .. n + 1
      /\ \A i \in 1 .. n : i < p => ends[list[i]] < ends[t]
      /\ p <= n => ends[t] <= ends[list[p]]
  BY <1>1, PlaceIs
<1>3. /\ r \in Seq(Timers) /\ Len(r) = n + 1 /\ DOMAIN r = 1 .. n + 1
      /\ \A i \in 1 .. n + 1 : r[i] = R(i)
  <2>1. /\ r \in Seq(Timers) /\ Len(r) = n + 1
        /\ \A i \in 1 .. n + 1 : r[i] = R(i)
    BY <1>1, InsertedIs, ZenonT(60)
  <2> HIDE DEF r, R, n, p
  <2>2. DOMAIN r = 1 .. Len(r)
    BY <2>1, LenProperties
  <2> QED
    BY <2>1, <2>2
<1> HIDE DEF n, p, r
<1>4. \A i \in 1 .. n : p <= i => ends[t] <= ends[list[i]]
  <2> SUFFICES ASSUME NEW i \in 1 .. n, p <= i PROVE ends[t] <= ends[list[i]]
    OBVIOUS
  <2>1. p \in 1 .. n /\ p <= n
    BY <1>1, <1>2
  <2>2. ends[t] \in Int /\ ends[list[i]] \in Int /\ ends[list[p]] \in Int
    BY <1>1, <2>1
  <2>3. p = i \/ p < i
    BY <1>2
  <2>4. ends[list[p]] <= ends[list[i]]
    BY <1>1, <2>1, <2>2, <2>3
  <2> QED
    BY <1>2, <2>1, <2>2, <2>4
<1>5. ASSUME NEW i \in 1 .. n + 1, NEW j \in 1 .. n + 1, i < j
      PROVE  R(i) # R(j) /\ ends[R(i)] <= ends[R(j)]
  <2>1. CASE j < p
    <3>1. i \in 1 .. n /\ j \in 1 .. n /\ i < p
      BY <1>1, <1>2, <1>5, <2>1
    <3> QED
      BY <1>1, <1>5, <2>1, <3>1
  <2>2. CASE j = p
    <3>1. i \in 1 .. n /\ i < p
      BY <1>1, <1>2, <1>5, <2>2
    <3>2. list[i] # t /\ ends[list[i]] < ends[t] /\ ends[list[i]] \in Int /\ ends[t] \in Int
      BY <1>1, <1>2, <3>1
    <3>3. R(i) = list[i] /\ R(j) = t
      BY <2>2, <3>1
    <3> HIDE DEF R
    <3> QED
      BY <3>2, <3>3
  <2>3. CASE i < p /\ p < j
    <3>1. i \in 1 .. n /\ j - 1 \in 1 .. n /\ i < j - 1
      BY <1>1, <1>2, <2>3
    <3>2. R(i) = list[i] /\ R(j) = list[j - 1]
      BY <1>2, <2>3
    <3> HIDE DEF R
    <3> QED
      BY <1>1, <3>1, <3>2
  <2>4. CASE i = p
    <3>1. j - 1 \in 1 .. n /\ p <= j - 1 /\ p < j
      BY <1>1, <1>2, <1>5, <2>4
    <3>2. R(i) = t /\ R(j) = list[j - 1]
      BY <1>2, <2>4, <3>1
    <3>3. list[j - 1] # t /\ ends[t] <= ends[list[j - 1]]
      BY <1>1, <1>4, <3>1
    <3> HIDE DEF R
    <3> QED
      BY <3>2, <3>3
  <2>5. CASE p < i
    <3>1. i - 1 \in 1 .. n /\ j - 1 \in 1 .. n /\ i - 1 < j - 1
      BY <1>1, <1>2, <1>5, <2>5
    <3>2. R(i) = list[i - 1] /\ R(j) = list[j - 1]
      BY <1>2, <1>5, <2>5
    <3> HIDE DEF R
    <3> QED
      BY <1>1, <3>1, <3>2
  <2> QED
    BY <1>2, <1>5, <2>1, <2>2, <2>3, <2>4, <2>5
<1>6. Ordered(r, ends)
  <2> HIDE DEF R
  <2> QED
    BY <1>3, <1>5 DEF Ordered
<1>7. ASSUME NEW u \in Elements(r) PROVE u \in Elements(list) \cup {t}
  <2>1. PICK i \in 1 .. n + 1 : u = R(i)
    BY <1>3 DEF Elements
  <2>2. (i < p => i \in 1 .. n) /\ (~(i < p) /\ i # p => i - 1 \in 1 .. n)
    BY <1>1, <1>2
  <2> QED
    BY <1>1, <2>1, <2>2
<1>8. ASSUME NEW u \in Elements(list) \cup {t} PROVE u \in Elements(r)
  <2>1. CASE u = t
    <3>1. R(p) = t
      BY <1>2
    <3> HIDE DEF R
    <3> QED
      BY <1>2, <1>3, <2>1, <3>1 DEF Elements
  <2>2. CASE u \in Elements(list)
    <3>1. PICK i \in 1 .. n : u = list[i]
      BY <1>1, <2>2 DEF Elements
    <3>2. i \in 1 .. n + 1 /\ i + 1 \in 1 .. n + 1 /\ i + 1 - 1 = i
      BY <1>1
    <3>3. R(i) = u \/ R(i + 1) = u
      BY <1>2, <3>1, <3>2
    <3> HIDE DEF R
    <3> QED
      BY <1>3, <3>2, <3>3 DEF Elements
  <2> QED
    BY <1>8, <2>1, <2>2
<1> QED
  BY <1>6, <1>7, <1>8 DEF r

(* A list that gets a last element, and one that keeps its deadlines.      *)
LEMMA AppendsInOrder ==
    ASSUME NEW list, NEW ends \in [Timers -> Int], Ordered(list, ends), NEW t \in Timers,
           \A u \in Elements(list) : u # t /\ ends[u] <= ends[t]
    PROVE  /\ Ordered(Append(list, t), ends)
           /\ Elements(Append(list, t)) = Elements(list) \cup {t}
<1> DEFINE n == Len(list)
           r == Append(list, t)
<1>1. /\ n \in Nat /\ list \in Seq(Timers) /\ DOMAIN list = 1 .. n
      /\ \A i \in 1 .. n : list[i] \in Timers /\ list[i] \in Elements(list)
      /\ \A i, j \in 1 .. n : i < j => list[i] # list[j] /\ ends[list[i]] <= ends[list[j]]
  BY ElementsAre DEF Ordered
<1>2. /\ r \in Seq(Timers) /\ Len(r) = n + 1
      /\ \A i \in 1 .. n : r[i] = list[i]
      /\ r[n + 1] = t
  BY <1>1, AppendProperties
<1> HIDE DEF n, r
<1>3. DOMAIN r = 1 .. n + 1
  BY <1>2, LenProperties
<1>4. \A i \in 1 .. n + 1 : i \in 1 .. n \/ i = n + 1
  BY <1>1
<1>5. ASSUME NEW i \in 1 .. n + 1, NEW j \in 1 .. n + 1, i < j
      PROVE  r[i] # r[j] /\ ends[r[i]] <= ends[r[j]]
  <2>1. i \in 1 .. n
    BY <1>1, <1>5
  <2> QED
    BY <1>1, <1>2, <1>4, <1>5, <2>1
<1>6. Ordered(r, ends)
  BY <1>2, <1>3, <1>5 DEF Ordered
<1>7. \A i \in 1 .. n : i \in 1 .. n + 1
  BY <1>1
<1>8. n + 1 \in 1 .. n + 1
  BY <1>1
<1> QED
  BY <1>1, <1>2, <1>3, <1>4, <1>6, <1>7, <1>8 DEF r, Elements

LEMMA OrderStays ==
    ASSUME NEW list, NEW ends, NEW ends2, Ordered(list, ends),
           \A t \in Elements(list) : ends2[t] = ends[t]
    PROVE  Ordered(list, ends2)
BY DEF Ordered, Elements

LEMMA EmptyInOrder == ASSUME NEW ends PROVE Ordered(<< >>, ends) /\ Elements(<< >>) = {}
<1>1. << >> \in Seq(Timers) /\ Len(<< >>) = 0
  OBVIOUS
<1>2. DOMAIN << >> = {}
  BY <1>1
<1> QED
  BY <1>1, <1>2 DEF Ordered, Elements

(* del_timer_i: std::list::remove.                                         *)
Walked(w, list, t) ==
    w = [i \in 0 .. Len(list) |->
            IF i = 0 THEN << >>
            ELSE IF list[i] = t THEN w[i - 1] ELSE Append(w[i - 1], list[i])]

LEMMA WalkedExists ==
    ASSUME NEW list \in Seq(Timers), NEW t PROVE \E w : Walked(w, list, t)
<1> DEFINE X == Seq(Timers)
           N == Len(list)
           S(i, x) == IF list[i] = t THEN x ELSE Append(x, list[i])
           step == [q \in Nat \X X |-> IF q[1] \in 1 .. N THEN S(q[1], q[2]) ELSE q[2]]
<1>1. N \in Nat /\ \A i \in 1 .. N : list[i] \in Timers
  BY ElementsAre
<1>2. ASSUME NEW i \in 1 .. N, NEW x \in X PROVE S(i, x) \in X
  <2>1. list[i] \in Timers
    BY <1>1
  <2> QED
    BY <2>1, AppendProperties
<1>3. step \in [Nat \X X -> X]
  <2> HIDE DEF S, X, N
  <2> QED
    BY <1>2
<1>4. << >> \in X
  OBVIOUS
<1> HIDE DEF X, step, N
<1>5. PICK w : Follows(w, N, << >>, step) /\ \A i \in 0 .. N : w[i] \in X
  BY <1>1, <1>3, <1>4, FollowsExists
<1>6. ASSUME NEW i \in 0 .. N, i # 0 PROVE step[<<i, w[i - 1]>>] = S(i, w[i - 1])
  <2>1. i \in Nat /\ i \in 1 .. N /\ i - 1 \in 0 .. N
    BY <1>1, <1>6
  <2>2. w[i - 1] \in X
    BY <1>5, <2>1
  <2> HIDE DEF S
  <2> QED
    BY <2>1, <2>2 DEF step
<1>7. w = [i \in 0 .. N |-> IF i = 0 THEN << >> ELSE S(i, w[i - 1])]
  <2> HIDE DEF S
  <2> QED
    BY <1>5, <1>6 DEF Follows
<1> QED
  BY <1>7 DEF Walked, N

LEMMA WithoutInOrder ==
    ASSUME NEW list, NEW ends \in [Timers -> Int], Ordered(list, ends), NEW t
    PROVE  /\ Ordered(Sorted!Without(list, t), ends)
           /\ Elements(Sorted!Without(list, t)) = Elements(list) \ {t}
<1> DEFINE N == Len(list)
           w == CHOOSE x : Walked(x, list, t)
           Upto(i) == {list[j] : j \in 1 .. i}
           Good(i) == Ordered(w[i], ends) /\ Elements(w[i]) = Upto(i) \ {t}
           T == {i \in Nat : i <= N => Good(i)}
<1>1. /\ N \in Nat /\ list \in Seq(Timers) /\ DOMAIN list = 1 .. N
      /\ \A i \in 1 .. N : list[i] \in Timers
      /\ \A i, j \in 1 .. N : i < j => list[i] # list[j] /\ ends[list[i]] <= ends[list[j]]
  BY ElementsAre DEF Ordered
<1>2. Walked(w, list, t)
  BY <1>1, WalkedExists, Zenon
<1>3. Sorted!Without(list, t) = w[N]
  BY Zenon DEF Sorted!Without, Walked
<1> HIDE DEF w, N
<1>4. w[0] = << >> /\ \A i \in 1 .. N : w[i] = IF list[i] = t THEN w[i - 1]
                                             ELSE Append(w[i - 1], list[i])
  <2>1. 0 \in 0 .. N /\ \A i \in 1 .. N : i \in 0 .. N /\ i # 0
    BY <1>1
  <2> QED
    BY <1>2, <2>1 DEF Walked, N
<1>5. 0 \in T
  <2>1. Upto(0) = {}
    OBVIOUS
  <2>2. Good(0)
    BY <1>4, <2>1, EmptyInOrder
  <2> QED
    BY <2>2
<1>6. ASSUME NEW i \in Nat, i \in T PROVE i + 1 \in T
  <2>1. SUFFICES ASSUME i + 1 <= N PROVE Good(i + 1)
    OBVIOUS
  <2> DEFINE v == list[i + 1]
  <2>2. i <= N /\ i + 1 \in 1 .. N /\ (i + 1) - 1 = i
    BY <1>1, <2>1
  <2>3. Good(i)
    BY <1>6, <2>2
  <2>4. w[i + 1] = IF v = t THEN w[i] ELSE Append(w[i], v)
    BY <1>4, <2>2
  <2>5. Upto(i + 1) = Upto(i) \cup {v}
    <3>1. \A j \in 1 .. i + 1 : j \in 1 .. i \/ j = i + 1
      OBVIOUS
    <3>2. \A j \in 1 .. i : j \in 1 .. i + 1
      OBVIOUS
    <3>3. i + 1 \in 1 .. i + 1
      OBVIOUS
    <3> QED
      BY <3>1, <3>2, <3>3
  <2>6. CASE v = t
    <3> HIDE DEF Upto, v
    <3> QED
      BY <2>3, <2>4, <2>5, <2>6
  <2>7. CASE v # t
    <3>1. v \in Timers
      BY <1>1, <2>2
    <3>2. \A u \in Elements(w[i]) : u # v /\ ends[u] <= ends[v]
      <4> SUFFICES ASSUME NEW u \in Upto(i) PROVE u # v /\ ends[u] <= ends[v]
        BY <2>3
      <4>1. PICK j \in 1 .. i : u = list[j]
        OBVIOUS
      <4>2. j \in 1 .. N /\ j < i + 1
        BY <1>1, <2>2
      <4> QED
        BY <1>1, <2>2, <4>1, <4>2
    <3> HIDE DEF Upto, v
    <3>3. /\ Ordered(Append(w[i], v), ends)
          /\ Elements(Append(w[i], v)) = Elements(w[i]) \cup {v}
      BY <2>3, <3>1, <3>2, AppendsInOrder
    <3> QED
      BY <2>3, <2>4, <2>5, <2>7, <3>3
  <2> QED
    BY <2>6, <2>7
<1> HIDE DEF T
<1>7. \A i \in Nat : i \in T
  BY <1>5, <1>6, NatInSet
<1>8. Good(N)
  BY <1>1, <1>7 DEF T
<1>9. Upto(N) = Elements(list)
  BY <1>1 DEF Elements
<1> QED
  BY <1>3, <1>8, <1>9

(* The loop of timer_loop.                                                 *)
Put(w, list, n, ends) ==
    w = [i \in 0 .. n |->
            IF i = 0 THEN SubSeq(list, n + 1, Len(list))
            ELSE IF list[i] \in Cyclic THEN Sorted!Inserted(w[i - 1], ends, list[i]) ELSE w[i - 1]]

LEMMA RestIs ==
    ASSUME NEW list, NEW ends, Ordered(list, ends), NEW n \in 0 .. Len(list)
    PROVE  LET r == SubSeq(list, n + 1, Len(list)) IN
           /\ Ordered(r, ends)
           /\ Elements(r) = {list[i] : i \in n + 1 .. Len(list)}
<1> DEFINE N == Len(list)
           r == SubSeq(list, n + 1, N)
<1>1. /\ N \in Nat /\ list \in Seq(Timers) /\ DOMAIN list = 1 .. N
      /\ \A i \in 1 .. N : list[i] \in Timers
      /\ \A i, j \in 1 .. N : i < j => list[i] # list[j] /\ ends[list[i]] <= ends[list[j]]
  BY ElementsAre DEF Ordered
<1>2. /\ r \in Seq(Timers) /\ Len(r) = N - n
      /\ \A i \in 1 .. N - n : r[i] = list[n + i]
  <2>1. \A i \in n + 1 .. N : list[i] \in Timers
    BY <1>1
  <2>2. /\ r \in Seq(Timers) /\ Len(r) = (IF n + 1 <= N THEN N - (n + 1) + 1 ELSE 0)
        /\ \A i \in 1 .. N - (n + 1) + 1 : r[i] = list[n + 1 + i - 1]
    BY <1>1, <2>1, SubSeqProperties
  <2>5. n \in Nat /\ n <= N
    BY <1>1
  <2> HIDE DEF r, N
  <2>3. Len(r) = N - n /\ N - (n + 1) + 1 = N - n
    <3>1. Len(r) = IF n + 1 <= N THEN N - (n + 1) + 1 ELSE 0
      BY <2>2
    <3> QED
      BY <1>1, <2>5, <3>1
  <2>4. \A i \in 1 .. N - n : n + 1 + i - 1 = n + i
    BY <1>1
  <2> QED
    BY <2>2, <2>3, <2>4
<1> HIDE DEF r
<1>3. DOMAIN r = 1 .. N - n
  BY <1>2, LenProperties
<1>4. \A i \in 1 .. N - n : n + i \in 1 .. N /\ n + i \in n + 1 .. N
  BY <1>1
<1>5. ASSUME NEW i \in 1 .. N - n, NEW j \in 1 .. N - n, i < j
      PROVE  r[i] # r[j] /\ ends[r[i]] <= ends[r[j]]
  <2>1. n + i \in 1 .. N /\ n + j \in 1 .. N /\ n + i < n + j
    BY <1>1, <1>5
  <2> QED
    BY <1>1, <1>2, <2>1
<1>6. Ordered(r, ends)
  BY <1>2, <1>3, <1>5 DEF Ordered
<1>7. \A j \in n + 1 .. N : j - n \in 1 .. N - n /\ n + (j - n) = j
  BY <1>1
<1>8. Elements(r) = {list[i] : i \in n + 1 .. N}
  <2>1. Elements(r) = {r[i] : i \in 1 .. N - n}
    BY <1>3 DEF Elements
  <2>2. ASSUME NEW i \in 1 .. N - n PROVE r[i] \in {list[j] : j \in n + 1 .. N}
    BY <1>2, <1>4
  <2>3. ASSUME NEW j \in n + 1 .. N PROVE list[j] \in {r[i] : i \in 1 .. N - n}
    <3>1. j - n \in 1 .. N - n /\ r[j - n] = list[n + (j - n)]
      BY <1>2, <1>7
    <3>2. r[j - n] = list[j]
      BY <1>7, <3>1
    <3> QED
      BY <3>1, <3>2
  <2> HIDE DEF N
  <2> QED
    BY <2>1, <2>2, <2>3
<1> QED
  BY <1>6, <1>8 DEF r

LEMMA PutExists ==
    ASSUME NEW list \in Seq(Timers), NEW ends \in [Timers -> Int], NEW n \in 0 .. Len(list)
    PROVE \E w : Put(w, list, n, ends)
<1> DEFINE X == Seq(Timers)
           N == Len(list)
           a == SubSeq(list, n + 1, N)
           S(i, x) == IF list[i] \in Cyclic THEN Sorted!Inserted(x, ends, list[i]) ELSE x
           step == [q \in Nat \X X |-> IF q[1] \in 1 .. n THEN S(q[1], q[2]) ELSE q[2]]
<1>1. N \in Nat /\ n \in Nat /\ \A i \in 1 .. N : list[i] \in Timers
  BY ElementsAre
<1>2. ASSUME NEW i \in 1 .. n, NEW x \in X PROVE S(i, x) \in X
  <2>1. list[i] \in Timers
    BY <1>1
  <2> QED
    BY <2>1, InsertedIs
<1>3. step \in [Nat \X X -> X]
  <2> HIDE DEF S, X, N
  <2> QED
    BY <1>2
<1>4. a \in X
  <2>1. \A i \in n + 1 .. N : list[i] \in Timers
    BY <1>1
  <2> QED
    BY <1>1, <2>1, SubSeqProperties
<1> HIDE DEF X, step, N, a
<1>5. PICK w : Follows(w, n, a, step) /\ \A i \in 0 .. n : w[i] \in X
  BY <1>1, <1>3, <1>4, FollowsExists
<1>6. ASSUME NEW i \in 0 .. n, i # 0 PROVE step[<<i, w[i - 1]>>] = S(i, w[i - 1])
  <2>1. i \in Nat /\ i \in 1 .. n /\ i - 1 \in 0 .. n
    BY <1>1, <1>6
  <2>2. w[i - 1] \in X
    BY <1>5, <2>1
  <2> HIDE DEF S
  <2> QED
    BY <2>1, <2>2 DEF step
<1>7. w = [i \in 0 .. n |-> IF i = 0 THEN a ELSE S(i, w[i - 1])]
  <2> HIDE DEF S
  <2> QED
    BY <1>5, <1>6 DEF Follows
<1> QED
  BY <1>7 DEF Put, N, a

(* Without the first n timers of a list; the cyclic ones of those.         *)
RestOf(list, n) == {list[i] : i \in n + 1 .. Len(list)}
CyclicOf(list, n) == {list[k] : k \in {j \in 1 .. n : list[j] \in Cyclic}}

(* The cyclic ones of the timers taken are in the list again, in order.    *)
LEMMA AgainInOrder ==
    ASSUME NEW list, NEW ends \in [Timers -> Int], NEW ends2 \in [Timers -> Int],
           Ordered(list, ends), NEW n \in 0 .. Len(list),
           \A t \in RestOf(list, n) : ends2[t] = ends[t]
    PROVE  /\ Ordered(Sorted!Again(list, n, ends2), ends2)
           /\ Elements(Sorted!Again(list, n, ends2)) = RestOf(list, n) \cup CyclicOf(list, n)
<1> DEFINE N == Len(list)
           w == CHOOSE x : Put(x, list, n, ends2)
           rest == {list[i] : i \in n + 1 .. N}
           Back(i) == {list[k] : k \in {j \in 1 .. i : list[j] \in Cyclic}}
           Good(i) == Ordered(w[i], ends2) /\ Elements(w[i]) = rest \cup Back(i)
           T == {i \in Nat : i <= n => Good(i)}
<1>1. /\ N \in Nat /\ n \in Nat /\ n <= N /\ list \in Seq(Timers) /\ DOMAIN list = 1 .. N
      /\ \A i \in 1 .. N : list[i] \in Timers
      /\ \A i, j \in 1 .. N : i < j => list[i] # list[j]
  BY ElementsAre DEF Ordered
<1>2. Put(w, list, n, ends2)
  BY <1>1, PutExists, Zenon
<1>3. Sorted!Again(list, n, ends2) = w[n]
  BY Zenon DEF Sorted!Again, Put
<1> HIDE DEF w
<1>4. /\ w[0] = SubSeq(list, n + 1, N)
      /\ \A i \in 1 .. n : w[i] = IF list[i] \in Cyclic
                                  THEN Sorted!Inserted(w[i - 1], ends2, list[i]) ELSE w[i - 1]
  <2>1. 0 \in 0 .. n /\ \A i \in 1 .. n : i \in 0 .. n /\ i # 0
    BY <1>1
  <2> QED
    BY <1>2, <2>1 DEF Put
<1> HIDE DEF N
<1>5. 0 \in T
  <2>1. Back(0) = {}
    OBVIOUS
  <2>2. Ordered(w[0], ends) /\ Elements(w[0]) = rest
    BY <1>4, RestIs DEF N
  <2>3. \A t \in Elements(w[0]) : ends2[t] = ends[t]
    BY <2>2 DEF N, RestOf
  <2>4. Ordered(w[0], ends2)
    BY <2>2, <2>3, OrderStays
  <2> HIDE DEF rest, Back
  <2>5. Good(0)
    BY <2>1, <2>2, <2>4
  <2> QED
    BY <2>5
<1>6. ASSUME NEW i \in Nat, i \in T PROVE i + 1 \in T
  <2>1. SUFFICES ASSUME i + 1 <= n PROVE Good(i + 1)
    OBVIOUS
  <2> DEFINE v == list[i + 1]
  <2>2. i <= n /\ i + 1 \in 1 .. n /\ (i + 1) - 1 = i
    BY <1>1, <2>1
  <2>3. Good(i)
    BY <1>6, <2>2
  <2>4. w[i + 1] = IF v \in Cyclic THEN Sorted!Inserted(w[i], ends2, v) ELSE w[i]
    BY <1>4, <2>2
  <2>5. Back(i + 1) = IF v \in Cyclic THEN Back(i) \cup {v} ELSE Back(i)
    <3>1. \A j \in 1 .. i + 1 : j \in 1 .. i \/ j = i + 1
      OBVIOUS
    <3>2. \A j \in 1 .. i : j \in 1 .. i + 1
      OBVIOUS
    <3>3. i + 1 \in 1 .. i + 1
      OBVIOUS
    <3> QED
      BY <3>1, <3>2, <3>3
  <2>6. CASE v \notin Cyclic
    <3> HIDE DEF Back, v, rest
    <3> QED
      BY <2>3, <2>4, <2>5, <2>6
  <2>7. CASE v \in Cyclic
    <3>1. v \in Timers
      BY <1>1, <2>2
    <3>2. v \notin Elements(w[i])
      <4> SUFFICES v \notin rest /\ v \notin Back(i)
        BY <2>3
      <4>1. ASSUME NEW j \in n + 1 .. N PROVE list[j] # v
        <5>1. j \in 1 .. N /\ i + 1 \in 1 .. N /\ i + 1 < j
          BY <1>1, <2>2
        <5> QED
          BY <1>1, <5>1
      <4>2. ASSUME NEW j \in 1 .. i PROVE list[j] # v
        <5>1. j \in 1 .. N /\ i + 1 \in 1 .. N /\ j < i + 1
          BY <1>1, <2>2
        <5> QED
          BY <1>1, <5>1
      <4> QED
        BY <4>1, <4>2
    <3> HIDE DEF Back, v, rest
    <3>3. /\ Ordered(Sorted!Inserted(w[i], ends2, v), ends2)
          /\ Elements(Sorted!Inserted(w[i], ends2, v)) = Elements(w[i]) \cup {v}
      BY <2>3, <3>1, <3>2, InsertsInOrder
    <3> QED
      BY <2>3, <2>4, <2>5, <2>7, <3>3
  <2> QED
    BY <2>6, <2>7
<1> HIDE DEF T
<1>7. \A i \in Nat : i \in T
  BY <1>5, <1>6, NatInSet
<1>8. Good(n)
  <2> HIDE DEF Good
  <2>1. n <= n
    BY <1>1
  <2> QED
    BY <1>1, <1>7, <2>1 DEF T
<1> HIDE DEF rest, Back
<1> QED
  BY <1>3, <1>8 DEF rest, Back, N, RestOf, CyclicOf

(* The inductive invariant of a timer list.                                *)
SortTypes ==
    /\ kind \in {"time", "clock"}
    /\ now \in Nat /\ stand \in Nat /\ stand <= now + Repair
    /\ end_time \in [Timers -> Nat]
    /\ state_ = [t \in Timers |-> state_[t]]
    /\ temp_timer_list \in Seq(Timers)
    /\ early = FALSE /\ doubled = FALSE

SortInv ==
    /\ SortTypes
    /\ Ordered(timer_list_, end_time)
    /\ kind = "time" => \A t \in Elements(timer_list_) : state_[t] = "alive"
    /\ temp_timer_list # << >> => \A t \in Elements(timer_list_) : end_time[t] > stand

LEMMA SortConstants ==
    /\ Interval \in [Timers -> Nat] /\ Repair \in Nat /\ \A t \in Timers : Interval[t] > Repair
BY ListsAssumption DEF Sorted!SortedAssumption

LEMMA SortInit == Sorted!Init => SortInv
<1> SUFFICES ASSUME Sorted!Init PROVE SortInv
  OBVIOUS
<1>1. /\ kind \in {"time", "clock"} /\ now = 0 /\ stand = 0
      /\ timer_list_ = << >> /\ temp_timer_list = << >>
      /\ state_ = [t \in Timers |-> "idle"] /\ end_time = [t \in Timers |-> 0]
      /\ early = FALSE /\ doubled = FALSE
  BY DEF Sorted!Init
<1>2. stand <= now + Repair /\ now \in Nat /\ stand \in Nat
  BY <1>1, SortConstants
<1>3. end_time \in [Timers -> Nat]
  BY <1>1
<1>4. state_ = [t \in Timers |-> state_[t]]
  BY <1>1, Zenon
<1>5. Ordered(timer_list_, end_time) /\ Elements(timer_list_) = {}
  BY <1>1, EmptyInOrder
<1>6. << >> \in Seq(Timers)
  OBVIOUS
<1>7. SortTypes
  BY <1>1, <1>2, <1>3, <1>4, <1>6, Zenon DEF SortTypes
<1> QED
  BY <1>1, <1>5, <1>7, Zenon DEF SortInv

LEMMA SortMeans ==
    SortInv => Sorted!StaysSorted /\ Sorted!NoneLeft
<1> SUFFICES ASSUME SortInv PROVE Sorted!StaysSorted /\ Sorted!NoneLeft
  OBVIOUS
<1>1. Sorted!StaysSorted
  BY DEF SortInv, SortTypes, Ordered, Sorted!StaysSorted
<1>2. Sorted!NoneLeft
  BY DEF SortInv, Elements, Sorted!NoneLeft
<1> QED
  BY <1>1, <1>2

(* The timers that are due are the first ones.                             *)
LEMMA DueIs ==
    ASSUME SortInv
    PROVE  LET n == Sorted!Due(now) IN
           /\ n \in 0 .. Len(timer_list_)
           /\ \A i \in 1 .. n : end_time[timer_list_[i]] <= now + Repair
           /\ \A i \in n + 1 .. Len(timer_list_) : end_time[timer_list_[i]] > now + Repair
<1> DEFINE list == timer_list_
           N == Len(list)
           E(i) == end_time[list[i]]
           d == now + Repair
           U == {i \in 1 .. N : ~(E(i) <= d)}
           n == Sorted!Due(now)
<1>1. /\ N \in Nat /\ list \in Seq(Timers) /\ DOMAIN list = 1 .. N
      /\ \A i \in 1 .. N : list[i] \in Timers
      /\ \A i, j \in 1 .. N : i < j => E(i) <= E(j)
  BY ElementsAre DEF SortInv, Ordered
<1>2. d \in Nat /\ \A i \in 1 .. N : E(i) \in Nat
  BY <1>1, SortConstants DEF SortInv, SortTypes
<1> HIDE DEF N, E, d
<1>4. \E m \in 0 .. N : /\ \A i \in 1 .. m : E(i) <= d
                        /\ m < N => E(m + 1) > d
  <2>1. CASE U = {}
    <3>1. \A i \in 1 .. N : E(i) <= d
      BY <2>1
    <3> QED
      BY <1>1, <3>1
  <2>2. CASE U # {}
    <3>1. PICK u \in U : \A j \in U : u <= j
      <4>1. U \subseteq Nat
        BY <1>1
      <4> QED
        BY <2>2, <4>1, LeastExists
    <3>2. u \in 1 .. N /\ E(u) > d
      BY <1>2
    <3>3. \A i \in 1 .. u - 1 : E(i) <= d
      <4> SUFFICES ASSUME NEW i \in 1 .. u - 1 PROVE E(i) <= d
        OBVIOUS
      <4>1. i \in 1 .. N /\ ~(u <= i)
        BY <1>1, <3>2
      <4> QED
        BY <3>1, <4>1
    <3>4. u - 1 \in 0 .. N /\ (u - 1) + 1 = u
      BY <1>1, <3>2
    <3> HIDE DEF U
    <3> QED
      BY <3>2, <3>3, <3>4
  <2> QED
    BY <2>1, <2>2
<1>5. /\ n \in 0 .. N /\ \A i \in 1 .. n : E(i) <= d
      /\ n < N => E(n + 1) > d
  <2>1. n = CHOOSE m \in 0 .. N : (\A i \in 1 .. m : E(i) <= d) /\ (m < N => E(m + 1) > d)
    BY Zenon DEF Sorted!Due, N, E, d
  <2> HIDE DEF n
  <2> QED
    BY <1>4, <2>1
<1> HIDE DEF n
<1>8. ASSUME NEW i \in n + 1 .. N PROVE E(i) > d
  <2>1. n \in Nat /\ n < N /\ n + 1 \in 1 .. N /\ i \in 1 .. N /\ (i = n + 1 \/ n + 1 < i)
    BY <1>1, <1>5
  <2>2. E(n + 1) > d /\ E(n + 1) <= E(i)
    BY <1>1, <1>2, <1>5, <2>1 DEF E
  <2> QED
    BY <1>2, <2>1, <2>2
<1> QED
  BY <1>5, <1>8 DEF n, N, E, d

(* timer_loop, under the lock.                                             *)
LEMMA Collects == ASSUME SortInv, Sorted!Collect PROVE SortInv'
<1> DEFINE list == timer_list_
           N == Len(list)
           n == Sorted!Due(now)
           due == SubSeq(list, 1, n)
           ends == [t \in Timers |-> IF t \in Cyclic /\ Sorted!In(due, t)
                                     THEN now + Interval[t] ELSE end_time[t]]
           r == Sorted!Again(list, n, ends)
           rest == {list[i] : i \in n + 1 .. N}
           back == {list[i] : i \in {j \in 1 .. n : list[j] \in Cyclic}}
<1>1. /\ N \in Nat /\ list \in Seq(Timers) /\ DOMAIN list = 1 .. N
      /\ \A i \in 1 .. N : list[i] \in Timers /\ list[i] \in Elements(list)
      /\ \A i, j \in 1 .. N : i < j => list[i] # list[j]
      /\ Ordered(list, end_time)
  BY ElementsAre DEF SortInv, Ordered
<1>2. /\ n \in 0 .. N
      /\ \A i \in 1 .. n : end_time[list[i]] <= now + Repair
      /\ \A i \in n + 1 .. N : end_time[list[i]] > now + Repair
  BY DueIs
<1>3. /\ kind' = kind /\ now' = now /\ stand' = now + Repair
      /\ temp_timer_list' = due
      /\ timer_list_' = r
      /\ end_time' = ends
      /\ state_' = [t \in Timers |->
                      IF ~Sorted!In(due, t) THEN state_[t]
                      ELSE IF t \notin Cyclic THEN "timeout"
                      ELSE IF kind = "time" THEN "alive" ELSE "idle"]
      /\ early' = (early \/ \E i \in DOMAIN due : end_time[due[i]] > now + Repair)
      /\ doubled' = (doubled \/ \E i, j \in DOMAIN due : i # j /\ due[i] = due[j])
  BY DEF Sorted!Collect
<1>4. /\ now \in Nat /\ Repair \in Nat /\ end_time \in [Timers -> Nat]
      /\ kind \in {"time", "clock"} /\ early = FALSE /\ doubled = FALSE
      /\ kind = "time" => \A t \in Elements(list) : state_[t] = "alive"
      /\ Interval \in [Timers -> Nat] /\ \A t \in Timers : Interval[t] > Repair
  BY SortConstants DEF SortInv, SortTypes
<1>5. /\ due \in Seq(Timers) /\ Len(due) = n /\ DOMAIN due = 1 .. n
      /\ \A i \in 1 .. n : due[i] = list[i]
  <2>1. n \in Int /\ 1 \in Int /\ n \in Nat /\ \A i \in 1 .. n : list[i] \in Timers
    BY <1>1, <1>2
  <2> HIDE DEF n, list
  <2>2. /\ due \in Seq(Timers) /\ Len(due) = (IF 1 <= n THEN n - 1 + 1 ELSE 0)
        /\ \A i \in 1 .. n - 1 + 1 : due[i] = list[1 + i - 1]
    BY <2>1, SubSeqProperties
  <2> HIDE DEF due
  <2>3. Len(due) = n /\ n - 1 + 1 = n /\ \A i \in 1 .. n : 1 + i - 1 = i
    <3>1. Len(due) = IF 1 <= n THEN n - 1 + 1 ELSE 0
      BY <2>2
    <3> QED
      BY <2>1, <3>1
  <2>4. DOMAIN due = 1 .. n
    BY <2>2, <2>3, LenProperties
  <2> QED
    BY <2>2, <2>3, <2>4
<1> HIDE DEF n, N, list
<1>6. \A t : Sorted!In(due, t) <=> \E i \in 1 .. n : list[i] = t
  <2> HIDE DEF due
  <2> QED
    BY <1>5 DEF Sorted!In
<1> HIDE DEF due
<1>7. ASSUME NEW i \in n + 1 .. N PROVE ~Sorted!In(due, list[i])
  <2> SUFFICES ASSUME NEW j \in 1 .. n, list[j] = list[i] PROVE FALSE
    BY <1>6
  <2>1. j \in 1 .. N /\ i \in 1 .. N /\ j < i
    BY <1>1, <1>2
  <2> QED
    BY <1>1, <2>1
<1>8. ends \in [Timers -> Int] /\ ends \in [Timers -> Nat] /\ end_time \in [Timers -> Int]
  BY <1>4
<1>9. \A i \in n + 1 .. N : list[i] \in Timers /\ ends[list[i]] = end_time[list[i]]
  <2>1. \A i \in n + 1 .. N : list[i] \in Timers
    BY <1>1, <1>2
  <2> QED
    BY <1>7, <2>1
<1> HIDE DEF ends
<1>10. Ordered(r, ends) /\ Elements(r) = rest \cup back
  <2>1. n \in 0 .. Len(list) /\ rest = RestOf(list, n) /\ back = CyclicOf(list, n)
    BY <1>2 DEF N, RestOf, CyclicOf
  <2>2. \A t \in rest : ends[t] = end_time[t]
    BY <1>9
  <2> HIDE DEF rest, back
  <2> QED
    BY <1>1, <1>8, <2>1, <2>2, AgainInOrder, ZenonT(60)
<1> HIDE DEF r
<1>11. ASSUME NEW t \in rest
       PROVE  /\ t \in Timers /\ t \in Elements(list) /\ ~Sorted!In(due, t)
              /\ ends[t] > now + Repair
  <2>1. PICK i \in n + 1 .. N : t = list[i]
    OBVIOUS
  <2>2. i \in 1 .. N
    BY <1>1, <1>2
  <2>3. end_time[list[i]] > now + Repair
    BY <1>2
  <2> QED
    BY <1>1, <1>7, <1>9, <2>1, <2>2, <2>3
<1>12. ASSUME NEW t \in back
       PROVE  /\ t \in Timers /\ t \in Cyclic /\ Sorted!In(due, t)
              /\ ends[t] > now + Repair
  <2>1. PICK i \in 1 .. n : t = list[i] /\ list[i] \in Cyclic
    OBVIOUS
  <2>2. i \in 1 .. N
    BY <1>1, <1>2
  <2>3. t \in Timers /\ t \in Cyclic /\ Sorted!In(due, t)
    BY <1>1, <1>6, <2>1, <2>2
  <2>4. ends[t] = now + Interval[t]
    BY <2>3 DEF ends
  <2>5. Interval[t] > Repair /\ Interval[t] \in Nat
    BY <1>4, <2>3
  <2> QED
    BY <1>4, <2>3, <2>4, <2>5
<1>13. ASSUME NEW t \in Elements(r) PROVE ends[t] > now + Repair
  BY <1>10, <1>11, <1>12
<1>14. ASSUME kind = "time", NEW t \in Elements(r) PROVE state_'[t] = "alive"
  <2>1. CASE t \in rest
    <3>1. t \in Timers /\ t \in Elements(list) /\ ~Sorted!In(due, t)
      BY <1>11, <2>1
    <3>2. state_'[t] = state_[t]
      BY <1>3, <3>1
    <3> QED
      BY <1>4, <1>14, <3>1, <3>2
  <2>2. CASE t \in back
    <3>1. t \in Timers /\ t \in Cyclic /\ Sorted!In(due, t)
      BY <1>12, <2>2
    <3> QED
      BY <1>3, <1>14, <3>1
  <2> QED
    BY <1>10, <2>1, <2>2
<1>15. early' = FALSE /\ doubled' = FALSE
  <2>1. ASSUME NEW i \in DOMAIN due PROVE ~(end_time[due[i]] > now + Repair)
    <3>1. i \in 1 .. n /\ i \in 1 .. N
      BY <1>1, <1>2, <1>5
    <3>2. end_time[list[i]] <= now + Repair /\ end_time[list[i]] \in Nat /\ due[i] = list[i]
      BY <1>1, <1>2, <1>4, <1>5, <3>1
    <3> QED
      BY <1>4, <3>2
  <2>2. ASSUME NEW i \in DOMAIN due, NEW j \in DOMAIN due, i # j PROVE due[i] # due[j]
    <3>1. i \in 1 .. n /\ j \in 1 .. n /\ i \in 1 .. N /\ j \in 1 .. N /\ (i < j \/ j < i)
      BY <1>1, <1>2, <1>5, <2>2
    <3>2. list[i] # list[j]
      BY <1>1, <3>1
    <3> QED
      BY <1>5, <3>1, <3>2
  <2>3. early' = (early \/ \E i \in DOMAIN due : end_time[due[i]] > now + Repair)
        /\ doubled' = (doubled \/ \E i, j \in DOMAIN due : i # j /\ due[i] = due[j])
    BY <1>3
  <2> QED
    BY <1>4, <2>1, <2>2, <2>3
<1>16. /\ stand' \in Nat /\ stand' <= now' + Repair /\ now' \in Nat
       /\ end_time' \in [Timers -> Nat] /\ kind' \in {"time", "clock"}
       /\ temp_timer_list' \in Seq(Timers)
  <2>1. /\ kind' = kind /\ now' = now /\ stand' = now + Repair
        /\ temp_timer_list' = due /\ end_time' = ends
    BY <1>3
  <2>2. stand' \in Nat /\ stand' <= now' + Repair /\ now' \in Nat
    BY <1>4, <2>1
  <2>3. kind' \in {"time", "clock"} /\ end_time' \in [Timers -> Nat]
        /\ temp_timer_list' \in Seq(Timers)
    BY <1>4, <1>5, <1>8, <2>1, Zenon
  <2> QED
    BY <2>2, <2>3
<1>17. state_' = [t \in Timers |-> state_'[t]]
  BY <1>3, Zenon
<1>18. SortTypes'
  BY <1>15, <1>16, <1>17, Zenon DEF SortTypes
<1>19. /\ Ordered(timer_list_', end_time')
       /\ kind' = "time" => \A t \in Elements(timer_list_') : state_'[t] = "alive"
       /\ \A t \in Elements(timer_list_') : end_time'[t] > stand'
  <2>1. kind' = kind /\ timer_list_' = r /\ end_time' = ends /\ stand' = now + Repair
    BY <1>3
  <2> QED
    BY <1>10, <1>13, <1>14, <2>1
<1> QED
  BY <1>18, <1>19 DEF SortInv

(* add_timer.                                                              *)
LEMMA Starts == ASSUME SortInv, NEW t \in Timers, Sorted!Start(t) PROVE SortInv'
<1> DEFINE list == timer_list_
           end == now + Interval[t]
           ends == [end_time EXCEPT ![t] = end]
           r == Sorted!Inserted(list, ends, t)
<1>1. /\ state_[t] # "alive" /\ (kind = "clock" => ~Sorted!In(list, t))
      /\ kind' = kind /\ now' = now /\ stand' = stand /\ temp_timer_list' = temp_timer_list
      /\ early' = early /\ doubled' = doubled
      /\ end_time' = ends
      /\ timer_list_' = r
      /\ state_' = [state_ EXCEPT ![t] = Sorted!Started(t)]
  <2>1. end_time' = ends /\ timer_list_' = Sorted!Inserted(list, end_time', t)
    BY DEF Sorted!Start
  <2> QED
    BY <2>1 DEF Sorted!Start
<1>2. /\ now \in Nat /\ stand \in Nat /\ stand <= now + Repair /\ Repair \in Nat
      /\ end_time \in [Timers -> Nat] /\ kind \in {"time", "clock"}
      /\ Interval[t] \in Nat /\ Interval[t] > Repair
      /\ state_ = [u \in Timers |-> state_[u]]
      /\ temp_timer_list \in Seq(Timers) /\ early = FALSE /\ doubled = FALSE
  BY SortConstants DEF SortInv, SortTypes
<1>3. /\ Ordered(list, end_time) /\ list \in Seq(Timers)
      /\ kind = "time" => \A u \in Elements(list) : state_[u] = "alive"
      /\ temp_timer_list # << >> => \A u \in Elements(list) : end_time[u] > stand
  BY DEF SortInv, Ordered
<1>4. t \notin Elements(list)
  BY <1>1, <1>2, <1>3, ElementsAre
<1>5. end \in Nat /\ end > stand
  BY <1>2, SMTT(60)
<1>6. /\ ends \in [Timers -> Nat] /\ ends \in [Timers -> Int] /\ ends[t] = end
      /\ \A u \in Timers : u # t => ends[u] = end_time[u]
  BY <1>2, <1>5
<1> HIDE DEF ends, end, list
<1>7. \A u \in Elements(list) : u \in Timers /\ ends[u] = end_time[u]
  BY <1>3, <1>4, <1>6, ElementsAre
<1>8. Ordered(r, ends) /\ Elements(r) = Elements(list) \cup {t}
  BY <1>3, <1>4, <1>6, <1>7, OrderStays, InsertsInOrder, SMTT(60)
<1> HIDE DEF r
<1>9. kind = "time" => \A u \in Elements(r) : state_'[u] = "alive"
  <2>1. t \in DOMAIN state_
    BY <1>2
  <2>2. state_'[t] = Sorted!Started(t) /\ \A u \in Timers : u # t => state_'[u] = state_[u]
    BY <1>1, <1>2, <2>1
  <2> QED
    BY <1>3, <1>4, <1>7, <1>8, <2>2 DEF Sorted!Started
<1>10. temp_timer_list # << >> => \A u \in Elements(r) : ends[u] > stand
  BY <1>3, <1>5, <1>6, <1>7, <1>8
<1>11. state_' = [u \in Timers |-> state_'[u]]
  <2>1. DOMAIN state_ = Timers
    BY <1>2
  <2>2. state_' = [u \in DOMAIN state_ |-> state_'[u]]
    BY <1>1
  <2> QED
    BY <2>1, <2>2, Zenon
<1>12. SortTypes'
  <2>1. stand' \in Nat /\ stand' <= now' + Repair /\ now' \in Nat
    BY <1>1, <1>2
  <2>2. end_time' \in [Timers -> Nat] /\ kind' \in {"time", "clock"}
        /\ temp_timer_list' \in Seq(Timers) /\ early' = FALSE /\ doubled' = FALSE
    BY <1>1, <1>2, <1>6, Zenon
  <2> QED
    BY <1>11, <2>1, <2>2, Zenon DEF SortTypes
<1>13. /\ Ordered(timer_list_', end_time')
       /\ kind' = "time" => \A u \in Elements(timer_list_') : state_'[u] = "alive"
       /\ temp_timer_list' # << >> => \A u \in Elements(timer_list_') : end_time'[u] > stand'
  <2>1. kind' = kind /\ timer_list_' = r /\ end_time' = ends /\ stand' = stand
        /\ temp_timer_list' = temp_timer_list
    BY <1>1
  <2> QED
    BY <1>8, <1>9, <1>10, <2>1
<1> QED
  BY <1>12, <1>13 DEF SortInv

(* A list with fewer timers, none of which has changed its state.          *)
LEMMA SortShrinks ==
    ASSUME SortInv, SortTypes', UNCHANGED <<kind, end_time>>,
           Ordered(timer_list_', end_time), Elements(timer_list_') \subseteq Elements(timer_list_),
           \A t \in Elements(timer_list_') : state_'[t] = state_[t],
           temp_timer_list' # << >> => temp_timer_list # << >> /\ stand' = stand
    PROVE  SortInv'
<1>1. kind' = kind /\ end_time' = end_time
  OBVIOUS
<1>2. kind = "time" => \A t \in Elements(timer_list_) : state_[t] = "alive"
  BY DEF SortInv
<1>3. temp_timer_list # << >> => \A t \in Elements(timer_list_) : end_time[t] > stand
  BY DEF SortInv
<1>4. Ordered(timer_list_', end_time')
  BY <1>1
<1>5. kind' = "time" => \A t \in Elements(timer_list_') : state_'[t] = "alive"
  BY <1>1, <1>2
<1>6. temp_timer_list' # << >> => \A t \in Elements(timer_list_') : end_time'[t] > stand'
  BY <1>1, <1>3
<1> QED
  BY <1>4, <1>5, <1>6 DEF SortInv

LEMMA SortStep == ASSUME SortInv, [Sorted!Next]_sortedVars PROVE SortInv'
<1>1. /\ now \in Nat /\ stand \in Nat /\ stand <= now + Repair /\ Repair \in Nat
      /\ end_time \in [Timers -> Nat] /\ kind \in {"time", "clock"}
      /\ state_ = [u \in Timers |-> state_[u]]
      /\ temp_timer_list \in Seq(Timers) /\ early = FALSE /\ doubled = FALSE
      /\ Ordered(timer_list_, end_time)
  BY SortConstants DEF SortInv, SortTypes
<1>2. end_time \in [Timers -> Int]
  BY <1>1
<1>3. CASE UNCHANGED sortedVars
  <2>1. /\ kind' = kind /\ now' = now /\ timer_list_' = timer_list_ /\ state_' = state_
        /\ end_time' = end_time /\ temp_timer_list' = temp_timer_list /\ stand' = stand
        /\ early' = early /\ doubled' = doubled
    BY <1>3 DEF sortedVars
  <2>2. SortTypes'
    BY <1>1, <2>1, Zenon DEF SortTypes
  <2> QED
    BY <1>1, <2>1, <2>2, SortShrinks
<1>4. CASE Sorted!Tick
  <2>1. /\ kind' = kind /\ now' = now + 1 /\ timer_list_' = timer_list_ /\ state_' = state_
        /\ end_time' = end_time /\ temp_timer_list' = temp_timer_list /\ stand' = stand
        /\ early' = early /\ doubled' = doubled
    BY <1>4 DEF Sorted!Tick
  <2>2. now' \in Nat /\ stand' <= now' + Repair
    BY <1>1, <2>1
  <2>3. SortTypes'
    BY <1>1, <2>1, <2>2, Zenon DEF SortTypes
  <2> QED
    BY <1>1, <2>1, <2>3, SortShrinks
<1>5. CASE Sorted!ClearTimer
  <2>1. /\ kind' = kind /\ now' = now /\ timer_list_' = << >> /\ state_' = state_
        /\ end_time' = end_time /\ temp_timer_list' = temp_timer_list /\ stand' = stand
        /\ early' = early /\ doubled' = doubled
    BY <1>5 DEF Sorted!ClearTimer
  <2>2. SortTypes'
    BY <1>1, <2>1, Zenon DEF SortTypes
  <2>3. Ordered(timer_list_', end_time) /\ Elements(timer_list_') = {}
    BY <2>1, EmptyInOrder
  <2> QED
    BY <2>1, <2>2, <2>3, SortShrinks
<1>6. CASE Sorted!Timeout
  <2>1. /\ kind' = kind /\ now' = now /\ timer_list_' = timer_list_ /\ state_' = state_
        /\ end_time' = end_time /\ temp_timer_list' = Tail(temp_timer_list) /\ stand' = stand
        /\ early' = early /\ doubled' = doubled /\ temp_timer_list # << >>
    BY <1>6 DEF Sorted!Timeout
  <2>2. Tail(temp_timer_list) \in Seq(Timers)
    BY <1>1, <2>1, HeadTailProperties
  <2>3. SortTypes'
    BY <1>1, <2>1, <2>2, Zenon DEF SortTypes
  <2> QED
    BY <1>1, <2>1, <2>3, SortShrinks
<1>7. ASSUME NEW t \in Timers, Sorted!Stop(t) PROVE SortInv'
  <2>1. /\ kind' = kind /\ now' = now /\ timer_list_' = Sorted!Without(timer_list_, t)
        /\ state_' = [state_ EXCEPT ![t] = "idle"]
        /\ end_time' = end_time /\ temp_timer_list' = temp_timer_list /\ stand' = stand
        /\ early' = early /\ doubled' = doubled
    BY <1>7 DEF Sorted!Stop
  <2>2. DOMAIN state_ = Timers
    BY <1>1
  <2>3. state_' = [u \in Timers |-> state_'[u]]
    <3>1. state_' = [u \in DOMAIN state_ |-> state_'[u]]
      BY <2>1
    <3> QED
      BY <2>2, <3>1, Zenon
  <2>4. SortTypes'
    BY <1>1, <2>1, <2>3, Zenon DEF SortTypes
  <2>5. /\ Ordered(timer_list_', end_time)
        /\ Elements(timer_list_') = Elements(timer_list_) \ {t}
    BY <1>1, <1>2, <2>1, WithoutInOrder
  <2>6. Elements(timer_list_) \subseteq Timers
    BY <1>1, ElementsAre DEF Ordered
  <2>7. \A u \in Elements(timer_list_') : state_'[u] = state_[u]
    BY <2>1, <2>2, <2>5, <2>6
  <2> QED
    BY <2>1, <2>4, <2>5, <2>7, SortShrinks
<1> QED
  BY <1>3, <1>4, <1>5, <1>6, <1>7, Starts, Collects DEF Sorted!Next

-----------------------------------------------------------------------------
(* The loop of a thread with timers.  The events since the last check are  *)
(* at least those that any due timer has waited for; a timer cannot become *)
(* due before the clock has moved.                                         *)
LateInv ==
    /\ timer_event_count \in 0 .. EventFactor - 1
    /\ left \in [DOMAIN QueueIntervals -> Int]
    /\ late \in [DOMAIN QueueIntervals -> Nat]
    /\ moved \in BOOLEAN /\ timer_event_flag \in BOOLEAN
    /\ \A s \in DOMAIN QueueIntervals :
          /\ ~timer_event_flag => left[s] = Loop!NoTimer
          /\ ~moved => ~Loop!Due(s)
          /\ late[s] <= timer_event_count
          /\ ~Loop!Due(s) => late[s] = 0

LEMMA LoopConstants == /\ EventFactor \in Nat \ {0}
                       /\ \A s \in DOMAIN QueueIntervals : QueueIntervals[s] \in Nat \ {0}
BY LoopsAssumption DEF Loop!LoopAssumption

LEMMA LoopInit == Loop!Init => LateInv
<1> SUFFICES ASSUME Loop!Init PROVE LateInv
  OBVIOUS
<1>1. /\ timer_event_count = 0 /\ moved = TRUE /\ timer_event_flag \in BOOLEAN
      /\ left = [s \in DOMAIN QueueIntervals |-> -1]
      /\ late = [s \in DOMAIN QueueIntervals |-> 0]
  BY DEF Loop!Init, Loop!NoTimer
<1>2. moved \in BOOLEAN
  BY <1>1, Zenon
<1>3. timer_event_count \in 0 .. EventFactor - 1
  BY <1>1, LoopConstants
<1>4. left \in [DOMAIN QueueIntervals -> Int] /\ late \in [DOMAIN QueueIntervals -> Nat]
  BY <1>1
<1> QED
  BY <1>1, <1>2, <1>3, <1>4 DEF LateInv, Loop!NoTimer, Loop!Due

(* check_timers leaves no timer that is due.                               *)
LEMMA ChecksTimers ==
    ASSUME LateInv, Loop!CheckTimers
    PROVE  /\ left' \in [DOMAIN QueueIntervals -> Int] /\ moved' \in BOOLEAN
           /\ \A s \in DOMAIN QueueIntervals : left'[s] # 0
           /\ \A s \in DOMAIN QueueIntervals : left[s] = -1 => left'[s] = -1
<1>1. /\ moved' = FALSE
      /\ left' = [s \in DOMAIN QueueIntervals |->
                     IF moved /\ Loop!Due(s) THEN -1 ELSE left[s]]
  BY DEF Loop!CheckTimers, Loop!NoTimer
<1>2. left \in [DOMAIN QueueIntervals -> Int]
      /\ \A s \in DOMAIN QueueIntervals : ~moved => ~Loop!Due(s)
  BY DEF LateInv
<1>3. moved' \in BOOLEAN
  BY <1>1, Zenon
<1>4. left' \in [DOMAIN QueueIntervals -> Int]
  BY <1>1, <1>2
<1> QED
  BY <1>1, <1>2, <1>3, <1>4 DEF Loop!Due

(* Either the timers have been checked, or they stay as they are and the   *)
(* count goes up with the events.                                          *)
LEMMA LateStays ==
    ASSUME LateInv, NEW e \in {0, 1}, Loop!Lateness(e),
           UNCHANGED timer_event_flag, timer_event_count' \in 0 .. EventFactor - 1,
           \/ Loop!CheckTimers
           \/ /\ UNCHANGED <<left, moved>>
              /\ timer_event_flag => timer_event_count + e <= timer_event_count'
    PROVE  LateInv'
<1> DEFINE Q == DOMAIN QueueIntervals
<1>1. /\ late' = [s \in Q |-> IF left'[s] # 0 THEN 0
                              ELSE IF Loop!Due(s) THEN late[s] + e ELSE 0]
      /\ timer_event_flag' = timer_event_flag
  BY DEF Loop!Lateness
<1>2. /\ left \in [Q -> Int] /\ late \in [Q -> Nat] /\ e \in Nat
      /\ timer_event_count \in Nat /\ timer_event_count' \in Nat
      /\ moved \in BOOLEAN /\ timer_event_flag \in BOOLEAN
  BY LoopConstants DEF LateInv
<1>3. late' \in [Q -> Nat]
  BY <1>1, <1>2
<1>4. timer_event_flag' \in BOOLEAN
  BY <1>1, <1>2, Zenon
<1>5. CASE Loop!CheckTimers
  <2>1. /\ left' \in [Q -> Int] /\ moved' \in BOOLEAN
        /\ \A s \in Q : left'[s] # 0 /\ (left[s] = -1 => left'[s] = -1)
    BY <1>5, ChecksTimers
  <2>2. \A s \in Q : late'[s] = 0
    BY <1>1, <2>1
  <2>3. \A s \in Q : ~timer_event_flag => left[s] = -1
    BY DEF LateInv, Loop!NoTimer
  <2> QED
    BY <1>1, <1>2, <1>3, <1>4, <2>1, <2>2, <2>3 DEF LateInv, Loop!Due, Loop!NoTimer
<1>6. CASE /\ UNCHANGED <<left, moved>>
           /\ timer_event_flag => timer_event_count + e <= timer_event_count'
  <2>1. left' = left /\ moved' = moved
    BY <1>6
  <2>2. moved' \in BOOLEAN
    BY <1>2, <2>1, Zenon
  <2>3. ASSUME NEW s \in Q
        PROVE  /\ ~timer_event_flag => left[s] = -1
               /\ ~moved => left[s] # 0
               /\ late[s] <= timer_event_count
    BY DEF LateInv, Loop!NoTimer, Loop!Due
  <2>4. ASSUME NEW s \in Q PROVE late'[s] <= timer_event_count' /\ (left[s] # 0 => late'[s] = 0)
    <3>1. late'[s] = IF left[s] # 0 THEN 0 ELSE late[s] + e
      BY <1>1, <2>1 DEF Loop!Due
    <3>2. late[s] \in Nat
      BY <1>2
    <3>3. left[s] = 0 => timer_event_flag
      BY <2>3
    <3> QED
      BY <1>2, <1>6, <2>3, <3>1, <3>2, <3>3
  <2> QED
    BY <1>1, <1>2, <1>3, <1>4, <2>1, <2>2, <2>3, <2>4 DEF LateInv, Loop!Due, Loop!NoTimer
<1> QED
  BY <1>5, <1>6

(* thread_proc, with an event and without one.                             *)
LEMMA LoopHandles == ASSUME LateInv, Loop!HandleEvent PROVE LateInv'
<1>1. /\ Loop!Lateness(1) /\ UNCHANGED timer_event_flag
      /\ IF timer_event_flag THEN Loop!CountEvent ELSE Loop!NoCheck
  BY DEF Loop!HandleEvent
<1>2. timer_event_count \in 0 .. EventFactor - 1 /\ EventFactor \in Nat \ {0}
  BY LoopConstants DEF LateInv
<1>3. CASE ~timer_event_flag
  BY <1>1, <1>2, <1>3, LateStays DEF Loop!NoCheck
<1>4. CASE timer_event_flag /\ timer_event_count + 1 = EventFactor
  <2>1. Loop!CheckTimers /\ timer_event_count' = 0
    BY <1>1, <1>4 DEF Loop!CountEvent
  <2>2. timer_event_count' \in 0 .. EventFactor - 1
    BY <1>2, <2>1
  <2> QED
    BY <1>1, <2>1, <2>2, LateStays
<1>5. CASE timer_event_flag /\ timer_event_count + 1 # EventFactor
  <2>1. timer_event_count' = timer_event_count + 1 /\ UNCHANGED <<left, moved>>
    BY <1>1, <1>5 DEF Loop!CountEvent
  <2>2. timer_event_count' \in 0 .. EventFactor - 1 /\ timer_event_count + 1 <= timer_event_count'
    BY <1>2, <1>5, <2>1
  <2> QED
    BY <1>1, <2>1, <2>2, LateStays
<1> QED
  BY <1>3, <1>4, <1>5

LEMMA LoopChecks ==
    ASSUME LateInv, Loop!CheckWhenEmpty, UNCHANGED timer_event_flag PROVE LateInv'
<1>1. /\ Loop!Lateness(0)
      /\ IF timer_event_flag THEN Loop!CheckTimers /\ timer_event_count' = 0 ELSE Loop!NoCheck
  BY DEF Loop!CheckWhenEmpty
<1>2. timer_event_count \in 0 .. EventFactor - 1 /\ EventFactor \in Nat \ {0}
  BY LoopConstants DEF LateInv
<1>3. CASE timer_event_flag
  <2>1. Loop!CheckTimers /\ timer_event_count' \in 0 .. EventFactor - 1
    BY <1>1, <1>2, <1>3
  <2> QED
    BY <1>1, <2>1, LateStays
<1>4. CASE ~timer_event_flag
  BY <1>1, <1>2, <1>4, LateStays DEF Loop!NoCheck
<1> QED
  BY <1>3, <1>4

(* The others leave the timers alone, or touch one of them.                *)
LEMMA LoopKeeps ==
    ASSUME LateInv, UNCHANGED <<timer_event_flag, timer_event_count, left, moved, late>>
    PROVE  LateInv'
BY DEF LateInv, Loop!Due, Loop!NoTimer

LEMMA LoopStep == ASSUME LateInv, [Loop!Next]_loopVars PROVE LateInv'
<1> DEFINE Q == DOMAIN QueueIntervals
<1>1. /\ timer_event_count \in 0 .. EventFactor - 1
      /\ left \in [Q -> Int] /\ late \in [Q -> Nat]
      /\ moved \in BOOLEAN /\ timer_event_flag \in BOOLEAN
  BY DEF LateInv
<1>2. \A s \in Q : /\ ~timer_event_flag => left[s] = -1
                   /\ ~moved => left[s] # 0
                   /\ late[s] <= timer_event_count
                   /\ left[s] # 0 => late[s] = 0
  BY DEF LateInv, Loop!Due, Loop!NoTimer
<1>3. CASE UNCHANGED loopVars
  BY <1>3, LoopKeeps DEF loopVars
<1>4. CASE Loop!HandleEvent
  BY <1>4, LoopHandles
<1>5. CASE Loop!StageEmpty \/ Loop!DisruptorEmpty
  BY <1>5, LoopChecks DEF Loop!StageEmpty, Loop!DisruptorEmpty, Loop!Settings
<1>6. CASE Loop!SharedEmpty
  BY <1>6, LoopChecks, LoopKeeps DEF Loop!SharedEmpty, Loop!Settings, Loop!NoCheck
<1>7. CASE Loop!SharedIdle
  BY <1>7, LoopChecks, LoopKeeps DEF Loop!SharedIdle, Loop!Settings, Loop!NoCheck
<1>8. CASE Loop!Fetch \/ Loop!Sleep \/ Loop!Wake \/ Loop!Arrive \/ Loop!TakenByOther
  BY <1>8, LoopKeeps DEF Loop!Fetch, Loop!Sleep, Loop!Wake, Loop!Arrive, Loop!TakenByOther,
     Loop!Settings
<1>9. ASSUME NEW s \in Q, Loop!SetTimer(s) PROVE LateInv'
  <2>1. /\ timer_event_flag /\ left[s] = -1
        /\ left' = [left EXCEPT ![s] = QueueIntervals[s]]
        /\ timer_event_flag' = timer_event_flag /\ timer_event_count' = timer_event_count
        /\ moved' = moved /\ late' = late
    BY <1>9 DEF Loop!SetTimer, Loop!Settings, Loop!NoTimer
  <2>2. QueueIntervals[s] \in Nat \ {0}
    BY LoopConstants
  <2>3. left' \in [Q -> Int] /\ left'[s] # 0 /\ \A u \in Q : u # s => left'[u] = left[u]
    BY <1>1, <2>1, <2>2
  <2>4. moved' \in BOOLEAN /\ timer_event_flag'
    BY <1>1, <2>1, Zenon
  <2>5. timer_event_flag' \in BOOLEAN
    BY <1>1, <2>1, Zenon
  <2> QED
    BY <1>1, <1>2, <2>1, <2>3, <2>4, <2>5 DEF LateInv, Loop!Due, Loop!NoTimer
<1>10. ASSUME NEW s \in Q, Loop!CancelTimer(s) PROVE LateInv'
  <2>1. /\ left' = [left EXCEPT ![s] = -1] /\ late' = [late EXCEPT ![s] = 0]
        /\ timer_event_flag' = timer_event_flag /\ timer_event_count' = timer_event_count
        /\ moved' = moved
    BY <1>10 DEF Loop!CancelTimer, Loop!Settings, Loop!NoTimer
  <2>2. /\ left' \in [Q -> Int] /\ late' \in [Q -> Nat] /\ left'[s] = -1 /\ late'[s] = 0
        /\ \A u \in Q : u # s => left'[u] = left[u] /\ late'[u] = late[u]
    BY <1>1, <2>1
  <2>3. moved' \in BOOLEAN /\ timer_event_flag' \in BOOLEAN
    BY <1>1, <2>1, Zenon
  <2>4. 0 <= timer_event_count
    BY <1>1
  <2> QED
    BY <1>1, <1>2, <2>1, <2>2, <2>3, <2>4 DEF LateInv, Loop!Due, Loop!NoTimer
<1>11. CASE Loop!Tick
  <2>1. /\ left' = [s \in Q |-> IF left[s] > 0 THEN left[s] - 1 ELSE left[s]]
        /\ timer_event_flag' = timer_event_flag /\ timer_event_count' = timer_event_count
        /\ moved' = TRUE /\ late' = late
    BY <1>11 DEF Loop!Tick, Loop!Settings
  <2>2. left' \in [Q -> Int] /\ \A u \in Q : /\ left[u] = -1 => left'[u] = -1
                                            /\ left[u] = 0 => left'[u] = 0
    BY <1>1, <2>1
  <2>3. moved' \in BOOLEAN /\ timer_event_flag' \in BOOLEAN /\ moved'
    BY <1>1, <2>1, Zenon
  <2> QED
    BY <1>1, <1>2, <2>1, <2>2, <2>3 DEF LateInv, Loop!Due, Loop!NoTimer
<1> QED
  BY <1>3, <1>4, <1>5, <1>6, <1>7, <1>8, <1>9, <1>10, <1>11 DEF Loop!Next, Loop!ThreadStep

LEMMA LoopIsInTime == LateInv => Loop!NoneLate
<1> SUFFICES ASSUME LateInv, NEW s \in DOMAIN QueueIntervals PROVE late[s] < EventFactor
  BY DEF Loop!NoneLate
<1>1. late[s] \in Nat /\ late[s] <= timer_event_count /\ timer_event_count \in 0 .. EventFactor - 1
      /\ EventFactor \in Nat
  BY LoopConstants DEF LateInv
<1> QED
  BY <1>1

-----------------------------------------------------------------------------
(* What follows for the timers.                                            *)

(* SL_Seda_TimerQueue: the two lists stay what a list should be, the       *)
(* active one in order of the deadlines, if the handler uses a timer only  *)
(* until it has fired and updates none of the LRU queue.                   *)
THEOREM TimersInductive ==
    ASSUME ~StaleCalls, TRUE \notin Updates PROVE MCSpec => []TimerInv
<1>1. MCInit => TimerInv
  BY TimersInit DEF MCInit
<1>2. TimerInv /\ [MCNext]_allVars => TimerInv'
  <2> SUFFICES ASSUME TimerInv, [MCNext]_allVars PROVE TimerInv'
    OBVIOUS
  <2>1. [Timer!Next]_timerVars
    BY DEF allVars, otherVars, MCNext
  <2> QED BY <2>1, TimersStep DEF Kept
<1> QED
  BY <1>1, <1>2, PTL DEF MCSpec

(* SL_Timer_List_Time, SL_Timer_List_Clock: the list stays in order under  *)
(* add_timer, del_timer, clear_timer and timer_loop.                       *)
THEOREM SortInductive == MCSpec => []SortInv
<1>1. MCInit => SortInv
  BY SortInit DEF MCInit
<1>2. SortInv /\ [MCNext]_allVars => SortInv'
  <2> SUFFICES ASSUME SortInv, [MCNext]_allVars PROVE SortInv'
    OBVIOUS
  <2>1. [Sorted!Next]_sortedVars
    BY DEF allVars, otherVars, MCNext
  <2> QED BY <2>1, SortStep
<1> QED
  BY <1>1, <1>2, PTL DEF MCSpec

(* thread_proc: a timer that is due has waited for no more events than     *)
(* were counted since the last check.                                      *)
THEOREM LateInductive == MCSpec => []LateInv
<1>1. MCInit => LateInv
  BY LoopInit DEF MCInit
<1>2. LateInv /\ [MCNext]_allVars => LateInv'
  <2> SUFFICES ASSUME LateInv, [MCNext]_allVars PROVE LateInv'
    OBVIOUS
  <2>1. [Loop!Next]_loopVars
    BY DEF allVars, otherVars, MCNext
  <2> QED BY <2>1, LoopStep
<1> QED
  BY <1>1, <1>2, PTL DEF MCSpec

(* set_timer, cancel_timer, update_timer and expire; add_timer, del_timer  *)
(* and timer_loop: every timer of a stage is on one of two lists that can  *)
(* be walked both ways, a timer list is in order and calls no timer too    *)
(* soon or twice in a turn, for every pool, interval and order of calls.   *)
THEOREM ListsStayTrue ==
    ASSUME ~StaleCalls, TRUE \notin Updates PROVE MCSpec => []ListsTrue
<1>1. TimerInv => Timer!ListsIntact
  BY TimersAreIntact
<1>2. SortInv => Sorted!StaysSorted
  BY SortMeans
<1>3. TimerInv /\ SortInv => ListsTrue
  BY <1>1, <1>2 DEF ListsTrue
<1> QED
  BY <1>3, TimersInductive, SortInductive, PTL

(* expire, timer_loop and thread_proc: no timer that was due is passed     *)
(* over, and fewer than EventFactor events are handled while one is due.   *)
THEOREM NothingPassedOver ==
    ASSUME ~StaleCalls, TRUE \notin Updates PROVE MCSpec => []NonePassedOver
<1>1. TimerInv => Timer!NoneOverdue
  BY TimersAreIntact
<1>2. SortInv => Sorted!NoneLeft
  BY SortMeans
<1>3. LateInv => Loop!NoneLate
  BY LoopIsInTime
<1>4. TimerInv /\ SortInv /\ LateInv => NonePassedOver
  BY <1>1, <1>2, <1>3 DEF NonePassedOver
<1> QED
  BY <1>4, TimersInductive, SortInductive, LateInductive, PTL

(* SL_Seda_TimerQueue and SL_Seda_LRUTimerQueue: every step of the linked  *)
(* lists is one of the timer service, which arms, cancels and fires        *)
(* timers, none too early and none out of turn, or leaves it as it was.    *)
THEOREM TimersAreService ==
    ASSUME ~StaleCalls, TRUE \notin Updates PROVE MCSpec => ImplementsService
<1>1. MCInit => Timer!Service!Init
  <2> SUFFICES ASSUME MCInit PROVE Timer!Service!Init
    OBVIOUS
  <2>1. Timer!Init
    BY DEF MCInit
  <2>2. PICK f, g : /\ TwoLists(lists, "active_list_", f, "free_list_", g)
                    /\ lists.size["active_list_"] = 0
    BY <2>1, FilledIs DEF Timer!Init
  <2>3. Timer!Active = {}
    BY <2>2, ActiveIs DEF NodesOf
  <2>4. [t \in Timer!Active |-> end_clock_ms_[t]] = [t \in {} |-> 0]
    BY <2>3
  <2> QED
    BY <2>1, <2>4 DEF Timer!Init, Timer!Service!Init
<1>2. TimerInv /\ [MCNext]_allVars => [Timer!Service!Next]_(Timer!Service!serviceVars)
  <2> SUFFICES ASSUME TimerInv, [MCNext]_allVars
               PROVE  [Timer!Service!Next]_(Timer!Service!serviceVars)
    OBVIOUS
  <2>1. [Timer!Next]_timerVars
    BY DEF allVars, otherVars, MCNext
  <2> QED BY <2>1, TimersStep DEF Kept
<1> QED
  BY <1>1, <1>2, TimersInductive, PTL DEF MCSpec, ImplementsService, Timer!ImplementsService,
     Timer!Service!Spec
=============================================================================
