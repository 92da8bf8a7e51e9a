----------------------------- MODULE SwapQueue -----------------------------
(***************************************************************************)
(* SL_Utility_TwoPointerSwapQueue: threads push to the standby list under  *)
(* push_mutex_; a consumer pops from the active list under pop_mutex_ and, *)
(* when it is drained, swaps the two pointers.  The header leaves it to    *)
(* the caller when to swap; here one consumer swaps after a pop that       *)
(* returned -1, the only use under which swap_pointer (which does not take *)
(* pop_mutex_) keeps the order.                                            *)
(* Line numbers refer to include/SL_Utility_TwoPointerSwapQueue.h.         *)
(***************************************************************************)
EXTENDS Naturals, Sequences

CONSTANTS Pushers,  \* the threads that push
          MaxPush,  \* bound: calls of push, over all threads
          NoThread

SwapAssumption ==
    /\ MaxPush \in Nat
    /\ NoThread \notin Pushers \cup {"consumer"}
    /\ "consumer" \notin Pushers

VARIABLES lists,        \* <<queue1_, queue2_>>
          active,       \* queue_active_: 1 or 2
          push_mutex,   \* the owner of push_mutex_, or NoThread
          consumer,     \* where the consumer is
          popped        \* history: the values popped

vars == <<lists, active, push_mutex, consumer, popped>>

Values  == 1 .. MaxPush
standby == 3 - active

Init ==
    /\ lists = <<<< >>, << >>>>
    /\ active = 1
    /\ push_mutex = NoThread
    /\ consumer = "pop"
    /\ popped = << >>

LockPush(t) ==
    /\ push_mutex = NoThread
    /\ Len(popped) + Len(lists[1]) + Len(lists[2]) < MaxPush
    /\ push_mutex' = t
    /\ UNCHANGED <<lists, active, consumer, popped>>

(* queue_standby_->push_back(value) and the unlock.                        *)
PushBack(t) ==
    /\ push_mutex = t
    /\ lists' = [lists EXCEPT ![standby] =
                    Append(@, Len(popped) + Len(lists[1]) + Len(lists[2]) + 1)]
    /\ push_mutex' = NoThread
    /\ UNCHANGED <<active, consumer, popped>>

(* pop: the front of the active list, or -1.                               *)
Pop ==
    /\ consumer = "pop"
    /\ \/ /\ lists[active] # << >>
          /\ popped' = Append(popped, Head(lists[active]))
          /\ lists' = [lists EXCEPT ![active] = Tail(@)]
          /\ UNCHANGED consumer
       \/ /\ lists[active] = << >>
          /\ consumer' = "test"
          /\ UNCHANGED <<lists, popped>>
    /\ UNCHANGED <<active, push_mutex>>

(* swap_pointer reads empty() without the lock: a push in progress may be  *)
(* missed, never invented.                                                 *)
TestStandby ==
    /\ consumer = "test"
    /\ consumer' = IF lists[standby] = << >> THEN "pop" ELSE "lock"
    /\ UNCHANGED <<lists, active, push_mutex, popped>>

LockSwap ==
    /\ consumer = "lock" /\ push_mutex = NoThread
    /\ push_mutex' = "consumer"
    /\ consumer' = "swap"
    /\ UNCHANGED <<lists, active, popped>>

Swap ==
    /\ consumer = "swap"
    /\ active' = standby
    /\ push_mutex' = NoThread
    /\ consumer' = "pop"
    /\ UNCHANGED <<lists, popped>>

Consume == Pop \/ TestStandby \/ LockSwap \/ Swap

Next == Consume \/ \E t \in Pushers : LockPush(t) \/ PushBack(t)

Spec == Init /\ [][Next]_vars

-----------------------------------------------------------------------------
(* push, pop and swap_pointer are a queue: what is still active is ahead   *)
(* of what is on standby.                                                  *)
Fifo == INSTANCE FifoQueue WITH
            Value <- Values, Bound <- MaxPush,
            items <- lists[active] \o lists[standby], taken <- popped

ImplementsFifo == Fifo!Spec

TypeOK ==
    /\ lists \in [1 .. 2 -> Seq(Values)]
    /\ active \in 1 .. 2
    /\ push_mutex \in Pushers \cup {NoThread, "consumer"}
    /\ consumer \in {"pop", "test", "lock", "swap"}
    /\ popped \in Seq(Values)

(* The swap loses nothing: until it is done nothing enters the list that   *)
(* was found empty, and no push is between its lock and its unlock.        *)
ActiveStaysDrained ==
    /\ consumer # "pop" => lists[active] = << >>
    /\ (consumer = "swap") <=> (push_mutex = "consumer")

RoomForPush ==
    push_mutex \in Pushers => Len(popped) + Len(lists[1]) + Len(lists[2]) < MaxPush

IInv == TypeOK /\ ActiveStaysDrained /\ RoomForPush
=============================================================================
