----------------------------- MODULE MCQueues -----------------------------
(***************************************************************************)
(* The queues in one run: DisruptorSingleWrite, LockFreeQueue,             *)
(* TwoLockQueue, SwapQueue and CircularQueue.  They share no state, so a   *)
(* behaviour is one of one part: Init chooses it and the others stay in    *)
(* their initial states, where their properties hold.                      *)
(***************************************************************************)
EXTENDS DisruptorSingleWrite

CONSTANTS Parts,                                    \* the parts to check
          h1, h2, h3,                               \* DisruptorSingleWrite
          Pushers, Poppers, Patient, Attempts,      \* LockFreeQueue, TwoLockQueue
          NoThread, RingCapacity, RingMaxPush, RingRedo  \* CircularQueue

VARIABLES part,
    pool, write_index, write_end_index, read_index, read_end_index,
    pc, loaded, size, left, held, written, taken, calls,
    next, head, tail, head_mutex, tail_mutex, list_pc, node, deleted, pushed, popped,
    lists, active, push_mutex, consumer, swap_popped,
    utility, ring, ring_read, ring_write, queue_size, rewrite_flag, tries, pushing, next_get,
    end_get, ring_calls, ring_popped

(* Topologies of the handlers, retry counts.  In Chain h3 depends on h1,   *)
(* h1 and h2 follow the cursor.                                            *)
Broadcast == [h \in Handlers |-> {}]
Chain == [h \in Handlers |-> IF h = h3 THEN {h1} ELSE {}]

CommentedRedo == {-1}
BoundedRedo   == {0, 1}     \* quit_event pushes with -1

lockFreeVars == <<pool, write_index, write_end_index, read_index, read_end_index,
                  pc, loaded, size, left, held, written, taken, calls>>
twoLockVars  == <<next, head, tail, head_mutex, tail_mutex, list_pc, node, deleted,
                  pushed, popped>>
swapVars     == <<lists, active, push_mutex, consumer, swap_popped>>
ringVars_    == <<utility, ring, ring_read, ring_write, queue_size, rewrite_flag, tries,
                  pushing, next_get, end_get, ring_calls, ring_popped>>
allVars      == <<part, vars, lockFreeVars, twoLockVars, swapVars, ringVars_>>

LockFree == INSTANCE LockFreeQueue WITH Unwritten <- Garbage
TwoLock  == INSTANCE TwoLockQueue WITH pc <- list_pc
TwoList  == INSTANCE SwapQueue WITH popped <- swap_popped
Ring     == INSTANCE CircularQueue WITH
    Capacity <- RingCapacity, MaxPush <- RingMaxPush, Unwritten <- Garbage,
    Callers <- Pushers, Redo <- RingRedo,
    pool <- ring, read_index <- ring_read, write_index <- ring_write,
    calls <- ring_calls, popped <- ring_popped

ASSUME QueuesAssumption ==
    /\ LockFree!RingAssumption
    /\ TwoLock!ListAssumption
    /\ TwoList!SwapAssumption
    /\ Ring!RingAssumption

MCInit ==
    /\ part \in Parts
    /\ part # "ring" => utility = FALSE /\ rewrite_flag = FALSE
    /\ Init /\ LockFree!Init /\ TwoLock!Init /\ TwoList!Init /\ Ring!Init

MCNext ==
    /\ UNCHANGED part
    /\ \/ part = "single" /\ Next
             /\ UNCHANGED <<lockFreeVars, twoLockVars, swapVars, ringVars_>>
       \/ part = "lockfree" /\ LockFree!Next
             /\ UNCHANGED <<vars, twoLockVars, swapVars, ringVars_>>
       \/ part = "twolock" /\ TwoLock!Next
             /\ UNCHANGED <<vars, lockFreeVars, swapVars, ringVars_>>
       \/ part = "swap" /\ TwoList!Next
             /\ UNCHANGED <<vars, lockFreeVars, twoLockVars, ringVars_>>
       \/ part = "ring" /\ Ring!Next
             /\ UNCHANGED <<vars, lockFreeVars, twoLockVars, swapVars>>

MCSpec == MCInit /\ [][MCNext]_allVars

-----------------------------------------------------------------------------
(* push and pop of the utility queues are a queue, whatever their threads  *)
(* interleave: first in first out, nothing lost or popped twice;           *)
(* SL_CircularQueue is one as well, its oldest values given up on request, *)
(* and SL_Utility_CircularQueue, for a reader that goes from slot to slot. *)
QueuesAreFifo ==
    /\ LockFree!ImplementsFifo /\ TwoLock!ImplementsFifo /\ TwoList!ImplementsFifo
    /\ Ring!ImplementsFifo

(* The sizes push and pop return although they are computed from stale     *)
(* indices (LockFreeQueue, DisruptorSingleWrite).                          *)
SizeTrue == LockFree!SizeTrue /\ ResultInRange

(* No thread uses a node that was deleted (TwoLockQueue).                  *)
NoDangling == TwoLock!NoDangling
=============================================================================
