---------------------------- MODULE LruHashtable ----------------------------
(***************************************************************************)
(* SL_LRUHashtable: a hash table whose nodes are also a doubly linked list *)
(* from the most to the least recently used; adding to a full table takes  *)
(* the last one out.  Used by one thread.  pop_up erases the node first    *)
(* and reads its prev after that: the node is past the two words the       *)
(* allocator writes to, so the model lets it read what was there.  Line    *)
(* numbers refer to include/SL_LRUHashtable.h.                             *)
(***************************************************************************)
EXTENDS Naturals, Integers, Sequences, FiniteSets

CONSTANTS Keys, Data,
          NULL,
          MaxSizes      \* sizes a table is given

VARIABLES max_size_, head_, tail_,
          table,        \* elements_ht_: the keys with a node
          prev, next,   \* of the node of each key; stale in a node that is gone
          real_data,
          recent,       \* history: the keys by their last use, latest first
          expected,     \* history: the datum last added for each key
          limit,        \* history: the size the table may have
          got           \* history: what the last getter handed out and should have, or NULL

lruVars == <<max_size_, head_, tail_, table, prev, next, real_data, recent, expected, limit, got>>

Without(list, k) == SelectSeq(list, LAMBDA x : x # k)
Larger(a, b)     == IF a >= b THEN a ELSE b

Init ==
    /\ max_size_ \in MaxSizes
    /\ head_ = NULL /\ tail_ = NULL
    /\ table = {}
    /\ prev = [k \in Keys |-> NULL] /\ next = [k \in Keys |-> NULL]
    /\ real_data \in [Keys -> {NULL}]
    /\ recent = << >>
    /\ expected = [k \in Keys |-> NULL]
    /\ limit = Larger(max_size_, 1)
    /\ got = NULL

(* The list as the pointers have it: [head, tail, table, prev, next].      *)
List == [head |-> head_, tail |-> tail_, table |-> table, prev |-> prev, next |-> next]

Become(l) ==
    /\ head_' = l.head /\ tail_' = l.tail /\ table' = l.table
    /\ prev' = l.prev /\ next' = l.next

(* pop_up: erase the last node, then go back one from it.                  *)
Popped(l) ==
    IF l.tail = NULL THEN l
    ELSE LET before == l.prev[l.tail]
         IN  [l EXCEPT !.table = @ \ {l.tail},
                       !.tail = before,
                       !.head = IF before = NULL THEN NULL ELSE @,
                       !.next = IF before = NULL THEN @ ELSE [@ EXCEPT ![before] = NULL]]

(* A new node goes to the front.                                           *)
Pushed(l, k) ==
    [l EXCEPT !.table = @ \cup {k},
              !.next[k] = l.head,
              !.prev = IF l.head = NULL THEN [@ EXCEPT ![k] = NULL]
                       ELSE [@ EXCEPT ![k] = NULL, ![l.head] = k],
              !.head = k,
              !.tail = IF @ = NULL THEN k ELSE @]

(* The node of k goes to the front, unless it is there.                    *)
(* Mutated form of Raised: the last node's successor is the new last.      *)
Raised_KeepTail(l, k) ==
    IF l.head = k THEN l
    ELSE LET p == l.prev[k]
             n == l.next[k]
         IN  [l EXCEPT !.next = [@ EXCEPT ![p] = n, ![k] = l.head],
                       !.prev = IF n = NULL THEN [@ EXCEPT ![k] = NULL, ![l.head] = k]
                                ELSE [[@ EXCEPT ![k] = NULL, ![l.head] = k] EXCEPT ![n] = p],
                       !.head = k]

Raised(l, k) ==
    IF l.head = k THEN l
    ELSE LET p == l.prev[k]
             n == l.next[k]
         IN  [l EXCEPT !.next = [@ EXCEPT ![p] = n, ![k] = l.head],
                       !.prev = IF n = NULL THEN [@ EXCEPT ![k] = NULL, ![l.head] = k]
                                ELSE [[@ EXCEPT ![k] = NULL, ![l.head] = k] EXCEPT ![n] = p],
                       !.head = k,
                       !.tail = IF @ = k THEN p ELSE @]

(* What is before the node now leads to what is after it, and back.        *)
Unlinked(l, k) ==
    LET p == l.prev[k]
        n == l.next[k]
    IN  [l EXCEPT !.table = @ \ {k},
                  !.head = IF p = NULL THEN n ELSE @,
                  !.next = IF p = NULL THEN @ ELSE [@ EXCEPT ![p] = n],
                  !.tail = IF n = NULL THEN p ELSE @,
                  !.prev = IF n = NULL THEN @ ELSE [@ EXCEPT ![n] = p]]

(* The getter hands out the node of k; the key at place i was meant.       *)
Answer(k, i) == got' = [key |-> k, data |-> real_data[k],
                        meant |-> recent[i], last |-> expected[recent[i]]]

-----------------------------------------------------------------------------
AddElement(k, d) ==
    /\ IF k \notin table
       THEN LET full == Cardinality(table) >= max_size_
            IN  /\ Become(Pushed(IF full THEN Popped(List) ELSE List, k))
                /\ recent' = <<k>> \o (IF full /\ recent # << >>
                                       THEN SubSeq(recent, 1, Len(recent) - 1) ELSE recent)
       ELSE /\ Become(Raised(List, k))
            /\ recent' = <<k>> \o Without(recent, k)
    /\ real_data' = [real_data EXCEPT ![k] = d]
    /\ expected' = [expected EXCEPT ![k] = d]
    /\ UNCHANGED <<max_size_, limit, got>>

RemoveElement(k) ==
    /\ k \in table
    /\ Become(Unlinked(List, k))
    /\ recent' = Without(recent, k)
    /\ UNCHANGED <<max_size_, real_data, expected, limit, got>>

PopUp ==
    /\ tail_ # NULL
    /\ Become(Popped(List))
    /\ Answer(tail_, Len(recent))
    /\ recent' = SubSeq(recent, 1, Len(recent) - 1)
    /\ UNCHANGED <<max_size_, real_data, expected, limit>>

GetElement(k) ==
    /\ k \in table
    /\ Become(Raised(List, k))
    /\ Answer(k, CHOOSE i \in 1 .. Len(recent) : recent[i] = k)
    /\ recent' = <<k>> \o Without(recent, k)
    /\ UNCHANGED <<max_size_, real_data, expected, limit>>

GetMostRecent ==
    /\ head_ # NULL
    /\ Answer(head_, 1)
    /\ UNCHANGED <<max_size_, head_, tail_, table, prev, next, real_data, recent, expected, limit>>

GetLeastRecent ==
    /\ tail_ # NULL
    /\ Answer(tail_, Len(recent))
    /\ UNCHANGED <<max_size_, head_, tail_, table, prev, next, real_data, recent, expected, limit>>

Clear ==
    /\ head_' = NULL /\ tail_' = NULL /\ table' = {} /\ recent' = << >>
    /\ UNCHANGED <<max_size_, prev, next, real_data, expected, limit, got>>

(* init takes a new size and takes nothing out.                            *)
Resize(max_size) ==
    /\ max_size_' = max_size
    /\ limit' = Larger(Cardinality(table), Larger(max_size, 1))
    /\ UNCHANGED <<head_, tail_, table, prev, next, real_data, recent, expected, got>>

Next ==
    \/ \E k \in Keys, d \in Data : AddElement(k, d)
    \/ \E k \in Keys : RemoveElement(k) \/ GetElement(k)
    \/ PopUp \/ GetMostRecent \/ GetLeastRecent \/ Clear
    \/ \E n \in MaxSizes : Resize(n)

Spec == Init /\ [][Next]_lruVars

-----------------------------------------------------------------------------
(* add_element, remove_element, pop_up and the getters: the links lead     *)
(* through the nodes of the table, each once, in the order of their last   *)
(* use and back, no more of them than the table may have; a getter hands   *)
(* out the datum last added for the key that is at that place.             *)
LruTrue ==
    LET n == Len(recent)
        at(i) == IF i \in 1 .. n THEN recent[i] ELSE NULL
    IN  /\ head_ = at(1) /\ tail_ = at(n)
        /\ \A i \in 1 .. n : next[recent[i]] = at(i + 1) /\ prev[recent[i]] = at(i - 1)
        /\ table = {recent[i] : i \in 1 .. n} /\ Cardinality(table) = n
        /\ n <= limit
        /\ \A k \in table : real_data[k] = expected[k]
        /\ got # NULL => got.key = got.meant /\ got.data = got.last
=============================================================================
