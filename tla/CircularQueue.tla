--------------------------- MODULE CircularQueue ---------------------------
(***************************************************************************)
(* SL_CircularQueue: a ring of capacity_ slots under one mutex.  A push    *)
(* into a full ring is refused, or, when the queue was built with the      *)
(* rewrite flag and the caller asks for it, takes the place of the oldest  *)
(* value.  The indices are offsets from pool_begin_.                       *)
(* SL_Utility_CircularQueue: the indices only grow, a slot is an index     *)
(* under a mask (init makes the capacity a power of two), push and pop     *)
(* take the mutex for each attempt anew, and a reader may go from slot to  *)
(* slot with get and give them back all at once with read_index.           *)
(* Line numbers refer to include/SL_CircularQueue.h and                    *)
(* include/SL_Utility_CircularQueue.h.                                     *)
(***************************************************************************)
EXTENDS Integers, Sequences

CONSTANTS Capacity,     \* capacity_
          MaxPush,      \* bound: calls of push
          Callers,      \* SL_Utility_CircularQueue: the threads that push
          Redo,         \* their retry counts, of which those below 1 have no end
          Unwritten     \* what a slot holds before its first write

RingAssumption ==
    /\ Capacity \in Nat \ {0}
    /\ MaxPush \in Nat
    /\ Redo \subseteq Int

VARIABLES utility,                      \* which of the two classes
          pool,                         \* the array from pool_begin_ to pool_end_
          read_index, write_index,      \* read_index_, write_index_
          queue_size, rewrite_flag,     \* queue_size_, rewrite_flag_
          tries,                        \* attempts left of each push begun, 0: none
          pushing,                      \* and its value
          next_get, end_get,            \* the reader's place and the write_index it read
          calls,                        \* the calls of push so far; call k pushes k
          popped                        \* history: the values pop returned

classicVars == <<queue_size, rewrite_flag>>
utilityVars == <<tries, pushing, next_get, end_get>>
vars == <<utility, pool, read_index, write_index, classicVars, utilityVars, calls, popped>>

(* init, or the constructor.                                               *)
Init ==
    /\ utility \in BOOLEAN
    /\ pool = [o \in 1 .. Capacity |-> Unwritten]
    /\ read_index = 0 /\ write_index = 0 /\ queue_size = 0
    /\ rewrite_flag \in IF utility THEN {FALSE} ELSE BOOLEAN
    /\ tries = [c \in Callers |-> 0] /\ pushing = tries
    /\ next_get = 0 /\ end_get = 0
    /\ calls = 0
    /\ popped = << >>

-----------------------------------------------------------------------------
(* SL_CircularQueue.                                                       *)

(* if (++index >= pool_end_) index = pool_begin_                           *)
After(index) == IF index + 1 >= Capacity THEN 0 ELSE index + 1

Store ==
    /\ pool' = [pool EXCEPT ![write_index + 1] = calls + 1]
    /\ write_index' = After(write_index)

(* Mutated form of Rewrite: the oldest value is not given up.              *)
Rewrite_KeepsOldest ==
    /\ queue_size = Capacity /\ rewrite_flag
    /\ Store
    /\ UNCHANGED <<read_index, queue_size>>

Rewrite ==
    /\ queue_size = Capacity /\ rewrite_flag
    /\ Store
    /\ read_index' = After(read_index)
    /\ UNCHANGED queue_size

Push(rewrite) ==
    /\ ~utility /\ calls < MaxPush
    /\ calls' = calls + 1
    /\ \/ queue_size < Capacity /\ Store /\ queue_size' = queue_size + 1 /\ UNCHANGED read_index
       \/ rewrite /\ Rewrite
       \/ /\ queue_size = Capacity /\ ~(rewrite /\ rewrite_flag)
          /\ UNCHANGED <<pool, write_index, read_index, queue_size>>
    /\ UNCHANGED <<utility, rewrite_flag, utilityVars, popped>>

Pop ==
    /\ ~utility /\ queue_size > 0
    /\ popped' = Append(popped, pool[read_index + 1])
    /\ read_index' = After(read_index)
    /\ queue_size' = queue_size - 1
    /\ UNCHANGED <<utility, pool, write_index, rewrite_flag, utilityVars, calls>>

-----------------------------------------------------------------------------
(* SL_Utility_CircularQueue.                                               *)

(* index & index_bit_mask_                                                 *)
Offset(index) == (index % Capacity) + 1

Size == IF utility THEN write_index - read_index ELSE queue_size

(* push: its retry count, then attempts of which each holds the mutex.     *)
BeginPush(c, redo) ==
    /\ utility /\ calls < MaxPush /\ tries[c] = 0
    /\ calls' = calls + 1
    /\ tries' = [tries EXCEPT ![c] = IF redo < 1 THEN -1 ELSE redo]
    /\ pushing' = [pushing EXCEPT ![c] = calls + 1]
    /\ UNCHANGED <<utility, pool, read_index, write_index, classicVars, next_get, end_get,
                   popped>>

Pushed(c) ==
    /\ pool' = [pool EXCEPT ![Offset(write_index)] = pushing[c]]
    /\ write_index' = write_index + 1
    /\ tries' = [tries EXCEPT ![c] = 0]
    /\ pushing' = [pushing EXCEPT ![c] = 0]

(* Mutated form of TryPush: the test is made for the place after the next. *)
TryPush_OneMore(c) ==
    /\ tries[c] # 0 /\ Size <= Capacity
    /\ Pushed(c)
    /\ UNCHANGED <<utility, read_index, classicVars, next_get, end_get, calls, popped>>

TryPush(c) ==
    /\ tries[c] # 0 /\ Size < Capacity
    /\ Pushed(c)
    /\ UNCHANGED <<utility, read_index, classicVars, next_get, end_get, calls, popped>>

(* A full ring: the attempt is over, and the push when it was the last.    *)
(* Without an end to the attempts nothing changes.                         *)
FailPush(c) ==
    /\ tries[c] > 0 /\ Size = Capacity
    /\ tries' = [tries EXCEPT ![c] = @ - 1]
    /\ pushing' = [pushing EXCEPT ![c] = IF tries[c] = 1 THEN 0 ELSE @]
    /\ UNCHANGED <<utility, pool, read_index, write_index, classicVars, next_get, end_get,
                   calls, popped>>

(* pop: an attempt that finds a value.                                     *)
TryPop ==
    /\ utility /\ read_index = end_get /\ Size > 0
    /\ popped' = Append(popped, pool[Offset(read_index)])
    /\ read_index' = read_index + 1
    /\ next_get' = read_index + 1 /\ end_get' = read_index + 1
    /\ UNCHANGED <<utility, pool, write_index, classicVars, tries, pushing, calls>>

(* write_index(), get(index) without the mutex, read_index(index): one     *)
(* reader, which does not pop in between.                                  *)
BeginGet ==
    /\ utility /\ read_index = end_get /\ write_index > read_index
    /\ end_get' = write_index
    /\ UNCHANGED <<utility, pool, read_index, write_index, classicVars, tries, pushing,
                   next_get, calls, popped>>

Get ==
    /\ next_get < end_get
    /\ popped' = Append(popped, pool[Offset(next_get)])
    /\ next_get' = next_get + 1
    /\ UNCHANGED <<utility, pool, read_index, write_index, classicVars, tries, pushing,
                   end_get, calls>>

GiveBack ==
    /\ next_get = end_get /\ read_index < end_get /\ utility
    /\ read_index' = end_get
    /\ UNCHANGED <<utility, pool, write_index, classicVars, utilityVars, calls, popped>>

-----------------------------------------------------------------------------
Next ==
    \/ Pop \/ TryPop \/ BeginGet \/ Get \/ GiveBack
    \/ \E rewrite \in BOOLEAN : Push(rewrite)
    \/ \E c \in Callers : TryPush(c) \/ FailPush(c) \/ \E redo \in Redo : BeginPush(c, redo)

Spec == Init /\ [][Next]_vars

-----------------------------------------------------------------------------
(* push and pop are a bounded queue, whatever wrapped and was rewritten;   *)
(* a value that get has returned is out of it.                             *)
First == IF utility THEN next_get ELSE read_index
Count == IF utility THEN write_index - next_get ELSE queue_size
Items == [k \in 1 .. Count |-> pool[Offset(First + k - 1)]]

Fifo == INSTANCE FifoQueue WITH
            Value <- 1 .. MaxPush, Bound <- Capacity, taken <- popped, items <- Items

ImplementsFifo == Fifo!OverwritingSpec

TypeOK ==
    /\ utility \in BOOLEAN /\ rewrite_flag \in BOOLEAN
    /\ pool \in [1 .. Capacity -> 1 .. MaxPush \cup {Unwritten}]
    /\ read_index \in Nat /\ write_index \in Nat /\ queue_size \in 0 .. Capacity
    /\ tries \in [Callers -> Int] /\ pushing \in [Callers -> 0 .. MaxPush]
    /\ next_get \in Nat /\ end_get \in Nat
    /\ calls \in 0 .. MaxPush

(* SL_CircularQueue counts its values, and write_index_ is queue_size_     *)
(* places after read_index_, around the end of the pool.                   *)
OffsetsTrue == ~utility =>
    /\ read_index < Capacity
    /\ write_index = read_index + queue_size - IF read_index + queue_size >= Capacity
                                               THEN Capacity ELSE 0
    /\ next_get = 0 /\ end_get = 0
    /\ \A c \in Callers : tries[c] = 0

(* SL_Utility_CircularQueue: a reader is between read_index_ and the       *)
(* write_index_ it read, which the pushes leave alone.                     *)
IndicesTrue == utility =>
    /\ read_index <= next_get /\ next_get <= end_get /\ end_get <= write_index
    /\ write_index <= read_index + Capacity
    /\ \A c \in Callers : tries[c] # 0 => pushing[c] \in 1 .. MaxPush

(* What is inside was pushed, and so was what came out.                    *)
OnlyPushed == Items \in Seq(1 .. MaxPush) /\ popped \in Seq(1 .. MaxPush)

IInv == TypeOK /\ OffsetsTrue /\ IndicesTrue /\ OnlyPushed
=============================================================================
