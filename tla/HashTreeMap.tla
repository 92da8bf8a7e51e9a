---------------------------- MODULE HashTreeMap ----------------------------
(***************************************************************************)
(* SL_Utility_HashTreeMap: an array of buckets, each a std::map under a    *)
(* spin lock, and an atomic count of the elements.  The lock is held for   *)
(* one operation of the std::map; the count is changed after it, and find  *)
(* reads the node it found after it.  SL_Utility_HashTreeSet is the same   *)
(* over a std::set; both have a specialisation for one thread, without     *)
(* locks.  Line numbers refer to include/SL_Utility_HashTreeMap.h.         *)
(***************************************************************************)
EXTENDS Naturals, Integers, Sequences, FiniteSets

CONSTANTS Threads,      \* the threads that use the map
          Keys, Values,
          NoNode,       \* end()
          Undefined,    \* what a read of a freed node yields
          SizesAsked,   \* what init is asked for
          MaxCalls      \* bound: calls by one thread

VARIABLES tree,         \* the class: "map", "set"
          alone,        \* it is specialised for one thread
          bucket_size,  \* buckets there are, a power of two; 0 before init
          data_map,     \* the node of each key, NoNode if it has none
          nodes,        \* nodes made so far; a node is its place here: [key, value, live]
          elements_num_,
          pc, key,      \* per thread: where it is, and its argument
          iter,         \* the node find holds, or gave to its caller
          calls,
          erased,       \* history: the node find holds was erased since
          results       \* history: what the calls returned, [op, key, result]

mapVars == <<tree, alone, bucket_size, data_map, nodes, elements_num_, pc, key, iter, calls,
             erased, results>>

Nodes   == 1 .. Len(nodes)
Present == {k \in Keys : data_map[k] # NoNode}

Users   == IF alone THEN {CHOOSE t \in Threads : TRUE} ELSE Threads

Init ==
    /\ tree \in {"map", "set"}
    /\ alone \in BOOLEAN
    /\ bucket_size = 0
    /\ data_map = [k \in Keys |-> NoNode]
    /\ nodes = << >>
    /\ elements_num_ = 0
    /\ pc = [t \in Threads |-> "idle"]
    /\ key = [t \in Threads |-> CHOOSE k \in Keys : TRUE]
    /\ iter = [t \in Threads |-> NoNode]
    /\ calls = [t \in Threads |-> 0]
    /\ erased = [t \in Threads |-> FALSE]
    /\ results = << >>

Return(t, op, k, result) ==
    /\ pc' = [pc EXCEPT ![t] = "idle"]
    /\ results' = Append(results, [op |-> op, key |-> k, result |-> result])

Begin(t, k) ==
    /\ pc[t] = "idle" /\ calls[t] < MaxCalls /\ bucket_size > 0
    /\ calls' = [calls EXCEPT ![t] = @ + 1]
    /\ key' = [key EXCEPT ![t] = k]

-----------------------------------------------------------------------------
(* clear, and init, which makes as many buckets as the next power of two;  *)
(* whoever calls them is alone with the object, and all iterators are void.*)
RoundedUp(n) == CHOOSE p \in {2 ^ i : i \in 0 .. n} :
                    p >= n /\ \A i \in 0 .. n : 2 ^ i >= n => p <= 2 ^ i

Cleared(size) ==
    /\ \A t \in Threads : pc[t] = "idle"
    /\ bucket_size' = size
    /\ data_map' = [k \in Keys |-> NoNode]
    /\ nodes' = << >>
    /\ elements_num_' = 0
    /\ iter' = [t \in Threads |-> NoNode]
    /\ erased' = [t \in Threads |-> FALSE]
    /\ results' = << >>
    /\ UNCHANGED <<pc, key, calls>>

Clear == bucket_size > 0 /\ Cleared(0)

InitBuckets(n) == ~alone /\ Cleared(RoundedUp(n))
InitAlone(n) == alone /\ Cleared(RoundedUp(n))

-----------------------------------------------------------------------------
NewNode(k, v) ==
    /\ nodes' = Append(nodes, [key |-> k, value |-> v, live |-> TRUE])
    /\ data_map' = [data_map EXCEPT ![k] = Len(nodes) + 1]

(* What the std::map does for insert; update says whether an existing      *)
(* value is replaced.                                                      *)
Inserted(k, v, update) ==
    IF k \notin Present THEN NewNode(k, v)
    ELSE /\ nodes' = IF update THEN [nodes EXCEPT ![data_map[k]].value = v] ELSE nodes
         /\ UNCHANGED data_map

(* insert under the lock.  Only a map that has grown is counted.           *)
Insert(t, k, v, update) ==
    /\ ~alone /\ Begin(t, k)
    /\ Inserted(k, v, update)
    /\ \/ k \notin Present /\ pc' = [pc EXCEPT ![t] = "count"] /\ UNCHANGED results
       \/ k \in Present /\ Return(t, "insert", k, FALSE)
    /\ UNCHANGED <<elements_num_, iter, erased>>

(* The form for one thread (385).                                          *)
InsertAlone(t, k, v, update) ==
    /\ alone /\ Begin(t, k)
    /\ Inserted(k, v, update)
    /\ elements_num_' = elements_num_ + (IF k \in Present THEN 0 ELSE 1)
    /\ Return(t, "insert", k, k \notin Present)
    /\ UNCHANGED <<iter, erased>>

(* A set replaces nothing.                                                 *)
InsertKey(t, k) == tree = "set" /\ Insert(t, k, NoNode, FALSE)
InsertKeyAlone(t, k) == tree = "set" /\ InsertAlone(t, k, NoNode, FALSE)

(* Mutated form of Count: the counter is stored, not incremented.          *)
Count_Store(t) ==
    /\ pc[t] = "count"
    /\ elements_num_' = Cardinality(Present)
    /\ Return(t, "insert", key[t], TRUE)
    /\ UNCHANGED <<data_map, nodes, key, iter, calls, erased>>

Count(t) ==
    /\ pc[t] = "count"
    /\ elements_num_' = elements_num_ + 1
    /\ Return(t, "insert", key[t], TRUE)
    /\ UNCHANGED <<data_map, nodes, key, iter, calls, erased>>

Removed(k) ==
    /\ data_map' = [data_map EXCEPT ![k] = NoNode]
    /\ nodes' = [nodes EXCEPT ![data_map[k]].live = FALSE]
    /\ erased' = [u \in Threads |-> erased[u] \/ iter[u] = data_map[k]]

(* erase(key) under the lock.                                              *)
Erase(t, k) ==
    /\ ~alone /\ Begin(t, k)
    /\ \/ /\ k \in Present
          /\ Removed(k)
          /\ pc' = [pc EXCEPT ![t] = "uncount"]
          /\ UNCHANGED results
       \/ /\ k \notin Present
          /\ Return(t, "erase", k, FALSE)
          /\ UNCHANGED <<data_map, nodes, erased>>
    /\ UNCHANGED <<elements_num_, iter>>

(* The form for one thread (419).                                          *)
EraseAlone(t, k) ==
    /\ alone /\ Begin(t, k)
    /\ IF k \in Present
       THEN Removed(k) /\ elements_num_' = elements_num_ - 1
       ELSE UNCHANGED <<data_map, nodes, erased, elements_num_>>
    /\ Return(t, "erase", k, k \in Present)
    /\ UNCHANGED iter

(* erase(position), of an iterator find gave the caller; an iterator of a  *)
(* node that is gone is not one the caller may use.                        *)
Held(t) == pc[t] = "idle" /\ iter[t] # NoNode /\ ~erased[t]

EraseAt(t) ==
    /\ ~alone /\ Held(t) /\ Begin(t, nodes[iter[t]].key)
    /\ Removed(nodes[iter[t]].key)
    /\ pc' = [pc EXCEPT ![t] = "uncount"]
    /\ UNCHANGED <<elements_num_, iter, results>>

EraseAtAlone(t) ==
    /\ alone /\ Held(t) /\ Begin(t, nodes[iter[t]].key)
    /\ Removed(nodes[iter[t]].key)
    /\ elements_num_' = elements_num_ - 1
    /\ Return(t, "erase", nodes[iter[t]].key, TRUE)
    /\ UNCHANGED iter

(* The erases of a set.                                                    *)
EraseKey(t, k) == tree = "set" /\ Erase(t, k)
EraseKeyAlone(t, k) == tree = "set" /\ EraseAlone(t, k)
EraseKeyAt(t) == tree = "set" /\ EraseAt(t)
EraseKeyAtAlone(t) == tree = "set" /\ EraseAtAlone(t)

Uncount(t) ==
    /\ pc[t] = "uncount"
    /\ elements_num_' = elements_num_ - 1
    /\ Return(t, "erase", key[t], TRUE)
    /\ UNCHANGED <<data_map, nodes, key, iter, calls, erased>>

(* Mutated form of Find: any node of the bucket is taken for the key's.    *)
Find_AnyNode(t, k) ==
    /\ tree = "map" /\ ~alone /\ Begin(t, k)
    /\ erased' = [erased EXCEPT ![t] = FALSE]
    /\ \/ \E p \in Present : iter' = [iter EXCEPT ![t] = data_map[p]]
          /\ pc' = [pc EXCEPT ![t] = "read"] /\ UNCHANGED results
       \/ Present = {} /\ Return(t, "find", k, NoNode) /\ UNCHANGED iter
    /\ UNCHANGED <<data_map, nodes, elements_num_>>

(* find: the look-up under the lock ...                                    *)
Find(t, k) ==
    /\ tree = "map" /\ ~alone /\ Begin(t, k)
    /\ erased' = [erased EXCEPT ![t] = FALSE]
    /\ iter' = [iter EXCEPT ![t] = data_map[k]]
    /\ \/ k \in Present /\ pc' = [pc EXCEPT ![t] = "read"] /\ UNCHANGED results
       \/ k \notin Present /\ Return(t, "find", k, NoNode)
    /\ UNCHANGED <<data_map, nodes, elements_num_>>

(* ... and the read of the value without it; the node may be gone by then. *)
(* One of the forms keeps the iterator for the caller.                     *)
ReadValue(t) ==
    /\ pc[t] = "read"
    /\ Return(t, "find", key[t], IF nodes[iter[t]].live THEN nodes[iter[t]].value ELSE Undefined)
    /\ \/ iter' = [iter EXCEPT ![t] = NoNode]
       \/ UNCHANGED iter
    /\ UNCHANGED <<data_map, nodes, elements_num_, key, calls, erased>>

(* find for one thread (352), with the iterator or without.                *)
FindAlone(t, k) ==
    /\ tree = "map" /\ alone /\ Begin(t, k)
    /\ erased' = [erased EXCEPT ![t] = FALSE]
    /\ iter' \in {[iter EXCEPT ![t] = n] : n \in {NoNode, data_map[k]}}
    /\ Return(t, "find", k, IF k \in Present THEN nodes[data_map[k]].value ELSE NoNode)
    /\ UNCHANGED <<data_map, nodes, elements_num_>>

(* find of a set, and find of a map into an iterator: nothing is read from *)
(* the node.                                                               *)
FindKey(t, k) ==
    /\ ~alone /\ Begin(t, k)
    /\ erased' = [erased EXCEPT ![t] = FALSE]
    /\ iter' = [iter EXCEPT ![t] = data_map[k]]
    /\ Return(t, "look", k, k \in Present)
    /\ UNCHANGED <<data_map, nodes, elements_num_>>

FindKeyAlone(t, k) ==
    /\ alone /\ Begin(t, k)
    /\ erased' = [erased EXCEPT ![t] = FALSE]
    /\ iter' = [iter EXCEPT ![t] = data_map[k]]
    /\ Return(t, "look", k, k \in Present)
    /\ UNCHANGED <<data_map, nodes, elements_num_>>

Calling(t) ==
    \/ \E k \in Keys, v \in Values, update \in BOOLEAN :
          tree = "map" /\ (Insert(t, k, v, update) \/ InsertAlone(t, k, v, update))
    \/ \E k \in Keys : \/ /\ tree = "map"
                          /\ Erase(t, k) \/ EraseAlone(t, k)
                       \/ InsertKey(t, k) \/ InsertKeyAlone(t, k)
                       \/ EraseKey(t, k) \/ EraseKeyAlone(t, k)
                       \/ Find(t, k) \/ FindAlone(t, k) \/ FindKey(t, k) \/ FindKeyAlone(t, k)
    \/ tree = "map" /\ (EraseAt(t) \/ EraseAtAlone(t))
    \/ EraseKeyAt(t) \/ EraseKeyAtAlone(t)
    \/ Count(t) \/ Uncount(t) \/ ReadValue(t)

Next ==
    /\ UNCHANGED <<tree, alone>>
    /\ \/ \E t \in Users : Calling(t) /\ UNCHANGED bucket_size
       \/ Clear
       \/ \E n \in SizesAsked : InitBuckets(n) \/ InitAlone(n)

Spec == Init /\ [][Next]_mapVars

-----------------------------------------------------------------------------
Calls(op, k) ==
    Cardinality({i \in 1 .. Len(results) :
                    results[i] = [op |-> op, key |-> k, result |-> TRUE]})
At(place, k) == Cardinality({t \in Threads : pc[t] = place /\ key[t] = k})

(* insert, erase and elements_num_: the count is that of the elements up   *)
(* to the calls still between the lock and the count, and of each key one  *)
(* more insertion than erasure succeeds if it is there, as many otherwise. *)
CountTrue ==
    /\ elements_num_ = Cardinality(Present)
                          - Cardinality({t \in Threads : pc[t] = "count"})
                          + Cardinality({t \in Threads : pc[t] = "uncount"})
    /\ bucket_size = 0 => elements_num_ = 0
    /\ \A k \in Keys :
          (Calls("insert", k) + At("count", k)) - (Calls("erase", k) + At("uncount", k))
             = (IF k \in Present THEN 1 ELSE 0)

(* find: unless the key is erased between look-up and read (line 98 to     *)
(* 102), the value returned is one of that key, and so is the iterator.    *)
FoundIsOfKey ==
    \A t \in Threads :
       /\ pc[t] = "read" => nodes[iter[t]].key = key[t]
       /\ iter[t] # NoNode => nodes[iter[t]].live = ~erased[t]
=============================================================================
