--------------------------- MODULE LockFreeQueue ---------------------------
(***************************************************************************)
(* SL_Utility_LockFreeQueue: a ring for several pushing and several        *)
(* popping threads.  An index is claimed with a compare_exchange on        *)
(* write_index_ (read_index_), the slot is written (read), and the index   *)
(* is released, in order, with a compare_exchange on write_end_index_      *)
(* (read_end_index_) that spins until every smaller index is released.     *)
(* Line numbers refer to "include/SL_Utility_LockFreeQueue .h".            *)
(***************************************************************************)
EXTENDS Naturals, Integers, Sequences

CONSTANTS Pushers, Poppers, \* the threads that push and those that pop
          Capacity,         \* capacity_: pool slots; init rounds it to a power of two
          Patient,          \* the threads whose calls retry without limit
          Attempts,         \* rewrite_count_ = reread_count_ of the others
          MaxPush,          \* bound: calls of push, over all threads
          Unwritten         \* what a slot holds before its first write

Threads == Pushers \cup Poppers

RingAssumption ==
    /\ Pushers \cap Poppers = {}
    /\ Capacity \in Nat \ {0}
    /\ MaxPush \in Nat
    /\ Attempts \in Int

VARIABLES pool,                             \* pool_
          write_index, write_end_index,     \* write_index_, write_end_index_
          read_index, read_end_index,       \* read_index_, read_end_index_
          pc,       \* where each thread is inside push or pop
          loaded,   \* its local write_index (push), write_end_index or read_index (pop)
          size,     \* its local queue_size
          left,     \* attempts left; -1 is the unlimited loop
          held,     \* the value it pushes or has read
          written,  \* history: the values published, in index order
          taken,    \* history: the values whose pop returned, in index order
          calls     \* history: the number of pushes called

vars == <<pool, write_index, write_end_index, read_index, read_end_index,
          pc, loaded, size, left, held, written, taken, calls>>
indexVars == <<write_index, write_end_index, read_index, read_end_index>>
localVars == <<loaded, size, left, held>>

Values == 1 .. MaxPush
Offset(index) == index % Capacity     \* index & index_bit_mask_

Init ==
    /\ pool = [o \in 0 .. Capacity - 1 |-> Unwritten]
    /\ write_index = 0 /\ write_end_index = 0
    /\ read_index = 0 /\ read_end_index = 0
    /\ pc = [t \in Threads |-> "idle"]
    /\ loaded = [t \in Threads |-> 0]
    /\ size = [t \in Threads |-> 0]
    /\ left = [t \in Threads |-> 0]
    /\ held = [t \in Threads |-> Unwritten]
    /\ written = << >> /\ taken = << >>
    /\ calls = 0

(* Entering either function; redo_count is bounded or unlimited.           *)
Enter(t) ==
    /\ pc[t] = "idle"
    /\ pc' = [pc EXCEPT ![t] = "load"]
    /\ left' = [left EXCEPT ![t] = IF t \in Patient THEN -1 ELSE Attempts]
    /\ UNCHANGED <<pool, indexVars, loaded, size, written, taken>>

(* Returning: the locals are dead.                                         *)
Return(t) ==
    /\ pc' = [pc EXCEPT ![t] = "idle"]
    /\ loaded' = [loaded EXCEPT ![t] = 0]
    /\ size' = [size EXCEPT ![t] = 0]
    /\ left' = [left EXCEPT ![t] = 0]
    /\ held' = [held EXCEPT ![t] = Unwritten]

Push(t) ==
    /\ calls < MaxPush
    /\ calls' = calls + 1
    /\ held' = [held EXCEPT ![t] = calls + 1]
    /\ Enter(t)

Pop(t) ==
    /\ Enter(t)
    /\ UNCHANGED <<held, calls>>

(* The first load of an attempt.                                           *)
LoadFirst(t) ==
    /\ pc[t] = "load"
    /\ pc' = [pc EXCEPT ![t] = "compare"]
    /\ loaded' = [loaded EXCEPT ![t] = IF t \in Pushers THEN write_index
                                                        ELSE write_end_index]
    /\ UNCHANGED <<pool, indexVars, size, left, held, written, taken, calls>>

(* An attempt failed: the next one, or -1 after the last.                  *)
GiveUp(t) ==
    IF left[t] = 1
    THEN Return(t)
    ELSE /\ left' = [left EXCEPT ![t] = IF @ = -1 THEN -1 ELSE @ - 1]
         /\ pc' = [pc EXCEPT ![t] = "load"]
         /\ loaded' = [loaded EXCEPT ![t] = 0]
         /\ size' = [size EXCEPT ![t] = 0]
         /\ UNCHANGED held

(* The second load and the test of queue_size; pop keeps read_index.       *)
LoadSecond(t) ==
    LET filled == loaded[t] - IF t \in Pushers THEN read_end_index ELSE read_index
        fits   == IF t \in Pushers THEN filled < Capacity ELSE filled > 0
    IN
    /\ pc[t] = "compare"
    /\ \/ /\ fits
          /\ pc' = [pc EXCEPT ![t] = "claim"]
          /\ size' = [size EXCEPT ![t] = filled]
          /\ loaded' = [loaded EXCEPT ![t] = IF t \in Pushers THEN @ ELSE read_index]
          /\ UNCHANGED <<left, held>>
       \/ ~fits /\ GiveUp(t)
    /\ UNCHANGED <<pool, indexVars, written, taken, calls>>

(* Mutated form of Claim: the exchange succeeds whatever was there.        *)
Claim_Store(t) ==
    /\ pc[t] = "claim"
    /\ pc' = [pc EXCEPT ![t] = "copy"]
    /\ write_index' = IF t \in Pushers THEN loaded[t] + 1 ELSE write_index
    /\ read_index' = IF t \in Poppers THEN loaded[t] + 1 ELSE read_index
    /\ UNCHANGED <<pool, write_end_index, read_end_index, localVars, written, taken, calls>>

(* write_index_ (read_index_).compare_exchange(loaded, loaded + 1).        *)
Claim(t) ==
    /\ pc[t] = "claim"
    /\ \/ /\ t \in Pushers /\ write_index = loaded[t]
          /\ write_index' = write_index + 1
          /\ pc' = [pc EXCEPT ![t] = "copy"]
          /\ UNCHANGED <<localVars, read_index>>
       \/ /\ t \in Poppers /\ read_index = loaded[t]
          /\ read_index' = read_index + 1
          /\ pc' = [pc EXCEPT ![t] = "copy"]
          /\ UNCHANGED <<localVars, write_index>>
       \/ /\ loaded[t] # IF t \in Pushers THEN write_index ELSE read_index
          /\ GiveUp(t)
          /\ UNCHANGED <<write_index, read_index>>
    /\ UNCHANGED <<pool, write_end_index, read_end_index, written, taken, calls>>

(* pool_[offset] = value, or value = pool_[offset].                        *)
Copy(t) ==
    /\ pc[t] = "copy"
    /\ pc' = [pc EXCEPT ![t] = "release"]
    /\ \/ /\ t \in Pushers
          /\ pool' = [pool EXCEPT ![Offset(loaded[t])] = held[t]]
          /\ UNCHANGED held
       \/ /\ t \in Poppers
          /\ held' = [held EXCEPT ![t] = pool[Offset(loaded[t])]]
          /\ UNCHANGED pool
    /\ UNCHANGED <<indexVars, loaded, size, left, written, taken, calls>>

(* The exchange on the end index succeeds once it has come to loaded; the  *)
(* result is queue_size + 1 (push) or queue_size - 1 (pop).                *)
Release(t) ==
    /\ pc[t] = "release"
    /\ Return(t)
    /\ \/ /\ t \in Pushers /\ write_end_index = loaded[t]
          /\ write_end_index' = write_end_index + 1
          /\ written' = Append(written, held[t])
          /\ UNCHANGED <<read_end_index, taken>>
       \/ /\ t \in Poppers /\ read_end_index = loaded[t]
          /\ read_end_index' = read_end_index + 1
          /\ taken' = Append(taken, held[t])
          /\ UNCHANGED <<write_end_index, written>>
    /\ UNCHANGED <<pool, write_index, read_index, calls>>

Step(t) == LoadFirst(t) \/ LoadSecond(t) \/ Claim(t) \/ Copy(t) \/ Release(t)

Next ==
    \/ \E t \in Pushers : Push(t)
    \/ \E t \in Poppers : Pop(t)
    \/ \E t \in Threads : Step(t)

Spec == Init /\ [][Next]_vars

-----------------------------------------------------------------------------
(* push and pop together are a bounded queue: the values between           *)
(* read_end_index_ and write_end_index_, first in first out, each popped   *)
(* once with the value that was pushed.                                    *)
Fifo == INSTANCE FifoQueue WITH
            Value <- Values, Bound <- Capacity,
            items <- SubSeq(written, read_end_index + 1, write_end_index)

ImplementsFifo == Fifo!Spec

(* push and pop: a size returned by push is in 1..capacity_ and one        *)
(* returned by pop in 0..capacity_ - 1, although both were computed from   *)
(* two loads with other threads' steps in between.                         *)
SizeTrue ==
    \A t \in Threads : pc[t] \in {"copy", "release"} =>
        IF t \in Pushers THEN size[t] + 1 \in 1 .. Capacity
                         ELSE size[t] - 1 \in 0 .. Capacity - 1

TypeOK ==
    /\ pool \in [0 .. Capacity - 1 -> Values \cup {Unwritten}]
    /\ write_index \in Nat /\ write_end_index \in Nat
    /\ read_index \in Nat /\ read_end_index \in Nat
    /\ pc \in [Threads -> {"idle", "load", "compare", "claim", "copy", "release"}]
    /\ loaded \in [Threads -> Nat] /\ size \in [Threads -> Int]
    /\ left \in [Threads -> Int]
    /\ held \in [Threads -> Values \cup {Unwritten}]
    /\ written \in Seq(Values) /\ taken \in Seq(Values)
    /\ calls \in 0 .. MaxPush

IndicesOrdered ==
    /\ Len(taken) = read_end_index /\ Len(written) = write_end_index
    /\ read_end_index <= read_index /\ read_index <= write_end_index
    /\ write_end_index <= write_index /\ write_index <= read_end_index + Capacity

Claimed(t) == pc[t] \in {"copy", "release"}

(* Every thread between its claim and its release has an index of its own. *)
ClaimsTrue ==
    /\ \A t \in Pushers : Claimed(t) =>
          /\ write_end_index <= loaded[t] /\ loaded[t] < write_index
          /\ \A u \in Pushers : Claimed(u) /\ loaded[u] = loaded[t] => u = t
    /\ \A t \in Poppers : Claimed(t) =>
          /\ read_end_index <= loaded[t] /\ loaded[t] < read_index
          /\ \A u \in Poppers : Claimed(u) /\ loaded[u] = loaded[t] => u = t

(* What was loaded only becomes too cautious: by the exchange that proves  *)
(* the first index current, a push has room and a pop has a value.         *)
LoadsCautious ==
    /\ \A t \in Pushers :
          /\ pc[t] \in {"compare", "claim"} => loaded[t] <= write_index
          /\ pc[t] = "claim" => size[t] < Capacity /\ loaded[t] - size[t] <= read_end_index
    /\ \A t \in Poppers :
          /\ pc[t] = "compare" => loaded[t] <= write_end_index
          /\ pc[t] = "claim" => /\ size[t] > 0 /\ loaded[t] <= read_index
                                /\ loaded[t] + size[t] <= write_end_index

(* The ring holds what was published and not yet given back; a push before *)
(* its release holds the value of its slot, a pop that of its index.       *)
SlotsTrue ==
    /\ \A i \in read_end_index .. write_end_index - 1 : pool[Offset(i)] = written[i + 1]
    /\ \A t \in Pushers :
          /\ pc[t] # "idle" => held[t] \in Values
          /\ pc[t] = "release" => pool[Offset(loaded[t])] = held[t]
    /\ \A t \in Poppers : pc[t] = "release" => held[t] = written[loaded[t] + 1]

IInv ==
    TypeOK /\ IndicesOrdered /\ ClaimsTrue /\ LoadsCautious /\ SizeTrue /\ SlotsTrue
=============================================================================
