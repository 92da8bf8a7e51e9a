---------------------------- MODULE TwoLockQueue ----------------------------
(***************************************************************************)
(* SL_Utility_TwoLockQueue: a linked list whose first node is a dummy;     *)
(* push links a node under tail_mutex_, pop unlinks under head_mutex_ and  *)
(* deletes the old dummy after unlocking.                                  *)
(* Line numbers refer to include/SL_Utility_TwoLockQueue.h.                *)
(***************************************************************************)
EXTENDS Naturals, Sequences

CONSTANTS Pushers, Poppers,     \* threads
          MaxPush,              \* bound: calls of push, over all threads
          NoThread

ListAssumption ==
    /\ MaxPush \in Nat
    /\ NoThread \notin Pushers \cup Poppers
    /\ Pushers \cap Poppers = {}

VARIABLES next,                     \* node -> its next, 0 for NULL; node k holds value k
          head, tail,               \* head_, tail_
          head_mutex, tail_mutex,   \* the owner of each lock, or NoThread
          pc, node,                 \* where each thread is and its local node
          deleted,                  \* nodes given to delete
          pushed, popped            \* history: values linked, values taken

vars == <<next, head, tail, head_mutex, tail_mutex, pc, node, deleted, pushed, popped>>

Values == 1 .. MaxPush
Dummy  == MaxPush + 1
Nodes  == 1 .. Dummy

Init ==
    /\ next = [n \in Nodes |-> 0]
    /\ head = Dummy /\ tail = Dummy
    /\ head_mutex = NoThread /\ tail_mutex = NoThread
    /\ pc = [t \in Pushers \cup Poppers |-> "idle"]
    /\ node = [t \in Pushers \cup Poppers |-> 0]
    /\ deleted = {}
    /\ pushed = << >> /\ popped = << >>

Move(t, where, n) ==
    /\ pc' = [pc EXCEPT ![t] = where]
    /\ node' = [node EXCEPT ![t] = n]

(* push: the new node is private until it is linked.                       *)
NewNode(t, v) ==
    /\ pc[t] = "idle"
    /\ \A u \in Pushers : node[u] # v
    /\ v \notin {pushed[i] : i \in 1 .. Len(pushed)}
    /\ Move(t, "lock_tail", v)
    /\ UNCHANGED <<next, head, tail, head_mutex, tail_mutex, deleted, pushed, popped>>

LockTail(t) ==
    /\ pc[t] = "lock_tail" /\ tail_mutex = NoThread
    /\ tail_mutex' = t
    /\ Move(t, "link", node[t])
    /\ UNCHANGED <<next, head, tail, head_mutex, deleted, pushed, popped>>

(* tail_->next = node: from here on pop can see the value.                 *)
Link(t) ==
    /\ pc[t] = "link"
    /\ next' = [next EXCEPT ![tail] = node[t]]
    /\ pushed' = Append(pushed, node[t])
    /\ Move(t, "advance", node[t])
    /\ UNCHANGED <<head, tail, head_mutex, tail_mutex, deleted, popped>>

Advance(t) ==
    /\ pc[t] = "advance"
    /\ tail' = node[t]
    /\ tail_mutex' = NoThread
    /\ Move(t, "idle", 0)
    /\ UNCHANGED <<next, head, head_mutex, deleted, pushed, popped>>

(* pop: an empty list unlocks and returns -1, in Unlink.                   *)
LockHead(t) ==
    /\ pc[t] = "idle" /\ head_mutex = NoThread
    /\ head_mutex' = t
    /\ Move(t, "unlink", head)
    /\ UNCHANGED <<next, head, tail, tail_mutex, deleted, pushed, popped>>

(* Mutated form of Unlink: the node that becomes the dummy is deleted.      *)
Unlink_DeletesNew(t) ==
    LET new_head == next[node[t]] IN
    /\ pc[t] = "unlink"
    /\ head_mutex' = NoThread
    /\ \/ /\ new_head = 0
          /\ Move(t, "idle", 0)
          /\ UNCHANGED <<head, popped>>
       \/ /\ new_head # 0
          /\ popped' = Append(popped, new_head)
          /\ head' = new_head
          /\ Move(t, "delete", new_head)
    /\ UNCHANGED <<next, tail, tail_mutex, deleted, pushed>>

Unlink(t) ==
    LET new_head == next[node[t]] IN
    /\ pc[t] = "unlink"
    /\ head_mutex' = NoThread
    /\ \/ /\ new_head = 0
          /\ Move(t, "idle", 0)
          /\ UNCHANGED <<head, popped>>
       \/ /\ new_head # 0
          /\ popped' = Append(popped, new_head)
          /\ head' = new_head
          /\ Move(t, "delete", node[t])
    /\ UNCHANGED <<next, tail, tail_mutex, deleted, pushed>>

Delete(t) ==
    /\ pc[t] = "delete"
    /\ deleted' = deleted \cup {node[t]}
    /\ Move(t, "idle", 0)
    /\ UNCHANGED <<next, head, tail, head_mutex, tail_mutex, pushed, popped>>

Next ==
    \/ \E t \in Pushers : (\E v \in Values : NewNode(t, v)) \/ LockTail(t) \/ Link(t) \/ Advance(t)
    \/ \E t \in Poppers : LockHead(t) \/ Unlink(t) \/ Delete(t)

Spec == Init /\ [][Next]_vars

-----------------------------------------------------------------------------
(* push and pop are a queue: linking is the push, unlinking the pop.       *)
Fifo == INSTANCE FifoQueue WITH
            Value <- Values, Bound <- MaxPush,
            items <- SubSeq(pushed, Len(popped) + 1, Len(pushed)), taken <- popped

ImplementsFifo == Fifo!Spec

(* push keeps tail_ pointing at the old last node until Advance, and pop   *)
(* may delete that very node in between: no thread ever reads or writes    *)
(* through a node that was deleted, and no node is deleted twice.          *)
NoDangling ==
    /\ head \notin deleted
    /\ \A t \in Pushers : pc[t] = "link" => tail \notin deleted
    /\ \A t \in Poppers : pc[t] \in {"unlink", "delete"} => node[t] \notin deleted

TypeOK ==
    /\ next \in [Nodes -> Values \cup {0}]
    /\ head \in Nodes /\ tail \in Nodes
    /\ head_mutex \in Poppers \cup {NoThread}
    /\ tail_mutex \in Pushers \cup {NoThread}
    /\ pc \in [Pushers \cup Poppers ->
                  {"idle", "lock_tail", "link", "advance", "unlink", "delete"}]
    /\ \A t \in Pushers : pc[t] \in {"idle", "lock_tail", "link", "advance"}
    /\ \A t \in Poppers : pc[t] \in {"idle", "unlink", "delete"}
    /\ node \in [Pushers \cup Poppers -> Nodes \cup {0}]
    /\ pushed \in Seq(Values) /\ popped \in Seq(Values)

(* The nodes ever linked, in the order of the links: the dummy, then the   *)
(* values.  Those from head_ on are the list.                              *)
Chain(i) == IF i = 0 THEN Dummy ELSE pushed[i]

MutexesHeld ==
    /\ \A t \in Pushers : tail_mutex = t <=> pc[t] \in {"link", "advance"}
    /\ \A t \in Poppers : head_mutex = t <=> pc[t] = "unlink"

Fresh(n) == n \in Values /\ \A i \in 1 .. Len(pushed) : pushed[i] # n

(* Values are linked once, each after the one before it.                   *)
ListLinked ==
    /\ \A i, j \in 1 .. Len(pushed) : pushed[i] = pushed[j] => i = j
    /\ \A i \in 0 .. Len(pushed) - 1 : next[Chain(i)] = pushed[i + 1]
    /\ next[Chain(Len(pushed))] = 0
    /\ \A n \in Values : Fresh(n) => next[n] = 0

(* head_ is the last node taken; tail_ the last one linked, but for the    *)
(* moment between Link and Advance.                                        *)
EndsTrue ==
    /\ Len(popped) <= Len(pushed)
    /\ \A i \in 1 .. Len(popped) : popped[i] = pushed[i]
    /\ head = Chain(Len(popped))
    /\ (\A t \in Pushers : pc[t] # "advance") => tail = Chain(Len(pushed))

(* A node a push holds is its own until it is linked.                      *)
PushersTrue ==
    /\ \A t \in Pushers : pc[t] \in {"lock_tail", "link"} => Fresh(node[t])
    /\ \A t, u \in Pushers :
          pc[t] \in {"lock_tail", "link"} /\ node[t] = node[u] => t = u
    /\ \A t \in Pushers : pc[t] = "advance" => node[t] = Chain(Len(pushed))

(* The nodes before head_ are deleted, each by the pop that unlinked it.   *)
PoppersTrue ==
    /\ \A t \in Poppers : pc[t] = "unlink" => node[t] = head
    /\ \A t \in Poppers : pc[t] = "delete" =>
          /\ node[t] \in {Chain(i) : i \in 0 .. Len(popped) - 1}
          /\ node[t] \notin deleted
          /\ \A u \in Poppers : pc[u] = "delete" /\ node[u] = node[t] => u = t
    /\ deleted \subseteq {Chain(i) : i \in 0 .. Len(popped) - 1}

IInv == TypeOK /\ MutexesHeld /\ ListLinked /\ EndsTrue /\ PushersTrue /\ PoppersTrue
=============================================================================
