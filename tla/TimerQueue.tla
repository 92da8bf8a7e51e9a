----------------------------- MODULE TimerQueue ------------------------------
(***************************************************************************)
(* SL_Seda_LRUTimerQueue (lru is TRUE) and SL_Seda_TimerQueue (FALSE): a   *)
(* pool of timers on a free list and an active list, and the intrusive     *)
(* lists themselves, SL_Seda_TimerList.  One stage thread owns a queue:    *)
(* the handler calls set, cancel and update, from its own events or from   *)
(* the timer event that expire is delivering.                              *)
(* Line numbers refer to src/SL_Seda_TimerQueue.cpp, those of the lists to *)
(* include/SL_Seda_TimerQueue.h.                                           *)
(***************************************************************************)
EXTENDS Integers, Sequences, FiniteSets, Functions

CONSTANTS Timers,       \* the nodes
          Lists,        \* the lists, each standing for its own head_
          Pool,         \* pool_, the timers in array order
          Intervals,    \* the intervals given to the sorted queue's set_timer
          LruInterval,  \* the LRU queue's interval_ms_
          Updates,      \* the classes, as values of lru, whose update_timer is called
          StaleCalls,   \* does it also use a timer after that has fired
          MaxClock,     \* bound: the last clock value
          MaxSets       \* bound: calls of set_timer that find a free timer

ListAssumption == Timers \cap Lists = {}

QueueAssumption ==
    /\ ListAssumption
    /\ Pool \in Seq(Timers) /\ IsInjective(Pool) /\ Range(Pool) = Timers
    /\ Lists = {"free_list_", "active_list_"}
    /\ Intervals \subseteq Nat /\ LruInterval \in Nat
    /\ Updates \subseteq BOOLEAN /\ StaleCalls \in BOOLEAN
    /\ MaxClock \in Nat /\ MaxSets \in Nat

-----------------------------------------------------------------------------
(***************************************************************************)
(* SL_Seda_TimerList: intrusive doubly linked lists.  A list is the node   *)
(* head_, whose next_ is the first timer and whose prev_ is the last one;  *)
(* the first timer's prev_ and the last one's next_ are the timer itself.  *)
(* The state of all lists is one record with the fields next, prev and     *)
(* size; the pointer writes are the code's, in the code's order, also when *)
(* a timer is removed from a list it is not in.                            *)
(***************************************************************************)
Nodes == Timers \cup Lists

(* Every node starts, and is reset by SL_Seda_Timer::init, alone.          *)
EmptyLists == [next |-> [n \in Nodes |-> n],
               prev |-> [n \in Nodes |-> n],
               size |-> [l \in Lists |-> 0]]

Alone(m, l) == m.next[l] = l

(* head_.init() when the size falls to zero.                               *)
Shrunk(m, l) ==
    IF m.size[l] = 1
    THEN [next |-> [m.next EXCEPT ![l] = l], prev |-> [m.prev EXCEPT ![l] = l],
          size |-> [m.size EXCEPT ![l] = 0]]
    ELSE [m EXCEPT !.size[l] = @ - 1]

PushFront(m, l, t) ==
    LET old == IF Alone(m, l) THEN t ELSE m.next[l]
        beyond == IF Alone(m, l) THEN l ELSE m.next[l] IN
    [next |-> [m.next EXCEPT ![t] = old, ![l] = t],
     prev |-> [m.prev EXCEPT ![t] = t, ![beyond] = t],
     size |-> [m.size EXCEPT ![l] = @ + 1]]

PushBack(m, l, t) ==
    LET old == IF Alone(m, l) THEN t ELSE m.prev[l]
        beyond == IF Alone(m, l) THEN l ELSE m.prev[l] IN
    [next |-> [m.next EXCEPT ![t] = t, ![beyond] = t],
     prev |-> [m.prev EXCEPT ![t] = old, ![l] = t],
     size |-> [m.size EXCEPT ![l] = @ + 1]]

PopFront(m, l) ==
    LET second == m.next[m.next[l]] IN
    IF Alone(m, l) THEN m
    ELSE Shrunk([m EXCEPT !.next[l] = second, !.prev[second] = second], l)

(* t goes behind pos, which becomes the last node's new neighbour if pos   *)
(* was last.                                                               *)
InsertAfter(m, l, pos, t) ==
    LET after == m.next[pos]
        last == pos = m.prev[l] IN
    [next |-> [m.next EXCEPT ![t] = IF last THEN t ELSE after, ![pos] = t],
     prev |-> [[m.prev EXCEPT ![t] = pos, ![after] = IF after # pos THEN t ELSE @]
               EXCEPT ![l] = IF last THEN t ELSE @],
     size |-> [m.size EXCEPT ![l] = @ + 1]]

(* Mutated form of Remove: the last node is unlinked, head_.prev_ is not.  *)
Remove_KeepsLast(m, l, t) ==
    LET n1 == [m.next EXCEPT ![m.prev[t]] = m.next[t]]
        p1 == [m.prev EXCEPT ![n1[t]] = m.prev[t]]
        first == t = n1[l]
        n2 == [n1 EXCEPT ![l] = IF first THEN n1[t] ELSE @]
        p2 == [p1 EXCEPT ![n2[l]] = IF first THEN n2[l] ELSE @]
        s == Shrunk([m EXCEPT !.next = n2, !.prev = p2], l) IN
    IF m.size[l] = 0 THEN m ELSE [s EXCEPT !.next[t] = t, !.prev[t] = t]

(* remove does nothing on an empty list, and resets the timer it removes.  *)
Remove(m, l, t) ==
    LET n1 == [m.next EXCEPT ![m.prev[t]] = m.next[t]]
        p1 == [m.prev EXCEPT ![n1[t]] = m.prev[t]]
        first == t = n1[l]
        n2 == [n1 EXCEPT ![l] = IF first THEN n1[t] ELSE @]
        p2 == [p1 EXCEPT ![n2[l]] = IF first THEN n2[l] ELSE @]
        last == t = p2[l]
        p3 == [p2 EXCEPT ![l] = IF last THEN p2[t] ELSE @]
        n3 == [n2 EXCEPT ![p3[l]] = IF last THEN p3[l] ELSE @]
        s == Shrunk([m EXCEPT !.next = n3, !.prev = p3], l) IN
    IF m.size[l] = 0 THEN m ELSE [s EXCEPT !.next[t] = t, !.prev[t] = t]

-----------------------------------------------------------------------------
(* The lists as sequences: a walk of size_ steps from head_.               *)
Walk(link, from, n) ==
    LET w[i \in 1 .. n] == IF i = 1 THEN link[from] ELSE link[w[i - 1]] IN w

Contents(m, l) == Walk(m.next, l, m.size[l])

Members(m, l) == {Contents(m, l)[i] : i \in 1 .. m.size[l]}

(* l is what a list should be: as many different nodes as size_ says, none *)
(* of them a head, ended by its last node, and the same ones backwards.    *)
Intact(m, l) ==
    LET n == m.size[l]
        forth == Walk(m.next, l, n)
        back == Walk(m.prev, l, n) IN
    /\ n = 0 => m.next[l] = l /\ m.prev[l] = l
    /\ n > 0 => m.next[forth[n]] = forth[n] /\ m.prev[back[n]] = back[n]
    /\ \A i \in 1 .. n : forth[i] \in Timers /\ back[n + 1 - i] = forth[i]
    /\ \A i, j \in 1 .. n : forth[i] = forth[j] => i = j

-----------------------------------------------------------------------------
(* The queues.                                                             *)
VARIABLES
    lru,                \* which of the two classes this queue is
    lists,              \* free_list_ and active_list_
    end_clock_ms_, interval_ms_, is_active_,    \* fields of the timers
    last_clock_ms_,     \* the clock of the latest expire
    expiring,           \* is expire inside its loop
    clock,              \* util_process_clock_ms()
    sets,               \* counts the timers set, for the bound
    fired               \* history: timers handed to handle_event

timerVars == <<end_clock_ms_, interval_ms_, is_active_>>
vars == <<lru, lists, timerVars, last_clock_ms_, expiring, clock, sets, fired>>

(* The constructor pushes every timer of the pool.                         *)
Filled == LET m[n \in 0 .. Len(Pool)] ==
                 IF n = 0 THEN EmptyLists ELSE PushBack(m[n - 1], "free_list_", Pool[n])
          IN  m[Len(Pool)]

Active == Members(lists, "active_list_")
Front == lists.next["active_list_"]

Init ==
    /\ lru \in BOOLEAN
    /\ lists = Filled
    /\ end_clock_ms_ = [t \in Timers |-> 0]
    /\ interval_ms_ = [t \in Timers |-> 0]
    /\ is_active_ = [t \in Timers |-> FALSE]
    /\ last_clock_ms_ = 0
    /\ expiring = FALSE
    /\ clock = 0
    /\ sets = 0
    /\ fired = 0

Tick ==
    /\ clock < MaxClock
    /\ clock' = clock + 1
    /\ UNCHANGED <<lru, lists, timerVars, last_clock_ms_, expiring, sets, fired>>

(* Mutated form of Activated: the sorted queue is searched from its front. *)
Activated_FromFront(m, t, end) ==
    LET forth == Walk(m.next, "active_list_", m.size["active_list_"])
        earlier == {i \in DOMAIN forth : end > end_clock_ms_[forth[i]]} IN
    IF lru \/ m.size["active_list_"] = 0
    THEN PushBack(m, "active_list_", t)
    ELSE IF earlier = {}
         THEN PushFront(m, "active_list_", t)
         ELSE InsertAfter(m, "active_list_", forth[CHOOSE i \in earlier : \A j \in earlier : i <= j], t)

(* The lists m with t added to the active one: at the back of the LRU      *)
(* queue; in the sorted queue behind the last timer that ends before end.  *)
Activated(m, t, end) ==
    LET back == Walk(m.prev, "active_list_", m.size["active_list_"])
        earlier == {i \in DOMAIN back : end > end_clock_ms_[back[i]]} IN
    IF lru \/ m.size["active_list_"] = 0
    THEN PushBack(m, "active_list_", t)
    ELSE IF earlier = {}
         THEN PushFront(m, "active_list_", t)
         ELSE InsertAfter(m, "active_list_", back[CHOOSE i \in earlier : \A j \in earlier : i <= j], t)

(* set_timer; with no free timer it returns NULL and changes nothing.      *)
SetTimer(interval) ==
    LET t == lists.next["free_list_"]
        m == PopFront(lists, "free_list_")
        reset == [m EXCEPT !.next[t] = t, !.prev[t] = t] IN
    /\ lru => interval = LruInterval
    /\ sets < MaxSets
    /\ lists.size["free_list_"] > 0
    /\ lists' = Activated(reset, t, clock + interval)
    /\ end_clock_ms_' = [end_clock_ms_ EXCEPT ![t] = clock + interval]
    /\ interval_ms_' = [interval_ms_ EXCEPT ![t] = interval]
    /\ is_active_' = [is_active_ EXCEPT ![t] = TRUE]
    /\ sets' = sets + 1
    /\ UNCHANGED <<lru, last_clock_ms_, expiring, clock, fired>>

(* The timers the handler may name: is_active_ lets the call through, and  *)
(* unless StaleCalls the handler has not been told that the timer fired.   *)
Usable(t) == is_active_[t] /\ (StaleCalls \/ t \in Active)

(* cancel_timer: remove resets the timer's fields, unless it found the     *)
(* list empty.                                                             *)
CancelTimer(t) ==
    LET found == lists.size["active_list_"] > 0
        Reset(f, value) == [f EXCEPT ![t] = IF found THEN value ELSE @] IN
    /\ Usable(t)
    /\ lists' = PushFront(Remove(lists, "active_list_", t), "free_list_", t)
    /\ end_clock_ms_' = Reset(end_clock_ms_, 0)
    /\ interval_ms_' = Reset(interval_ms_, 0)
    /\ is_active_' = Reset(is_active_, FALSE)
    /\ UNCHANGED <<lru, last_clock_ms_, expiring, clock, sets, fired>>

(* update_timer: by the time the deadline is computed, remove has reset    *)
(* interval_ms_.                                                           *)
UpdateTimer(t) ==
    LET found == lists.size["active_list_"] > 0
        interval == IF found THEN 0 ELSE interval_ms_[t] IN
    /\ lru \in Updates
    /\ Usable(t)
    /\ lists' = Activated(Remove(lists, "active_list_", t), t, clock + interval)
    /\ interval_ms_' = [interval_ms_ EXCEPT ![t] = interval]
    /\ end_clock_ms_' = [end_clock_ms_ EXCEPT ![t] = clock + interval]
    /\ is_active_' = [is_active_ EXCEPT ![t] = TRUE]
    /\ UNCHANGED <<lru, last_clock_ms_, expiring, clock, sets, fired>>

(* expire(current_clock_ms) is called with the clock just read, and does   *)
(* nothing unless the clock has moved.                                     *)
BeginExpire ==
    /\ ~expiring
    /\ clock > last_clock_ms_
    /\ last_clock_ms_' = clock
    /\ expiring' = TRUE
    /\ UNCHANGED <<lru, lists, timerVars, clock, sets, fired>>

(* Mutated form of Due: a timer is due one tick early.                     *)
Due_Early ==
    lists.size["active_list_"] > 0 /\ last_clock_ms_ + 1 >= end_clock_ms_[Front]

(* The first active timer is due at current_clock_ms.                      *)
Due == lists.size["active_list_"] > 0 /\ last_clock_ms_ >= end_clock_ms_[Front]

(* One turn of the loop: the timer goes to the free list, then to          *)
(* handle_event; its is_active_ stays set.                                 *)
FireFront ==
    /\ expiring /\ Due
    /\ lists' = PushFront(PopFront(lists, "active_list_"), "free_list_", Front)
    /\ fired' = fired + 1
    /\ UNCHANGED <<lru, timerVars, last_clock_ms_, expiring, clock, sets>>

(* Mutated form of EndExpire: one timer per call of expire.                *)
EndExpire_AfterOne ==
    /\ expiring
    /\ expiring' = FALSE
    /\ UNCHANGED <<lru, lists, timerVars, last_clock_ms_, clock, sets, fired>>

EndExpire ==
    /\ expiring /\ ~Due
    /\ expiring' = FALSE
    /\ UNCHANGED <<lru, lists, timerVars, last_clock_ms_, clock, sets, fired>>

Expire == BeginExpire \/ FireFront \/ EndExpire

Next ==
    \/ Tick
    \/ Expire
    \/ \E i \in Intervals \cup {LruInterval} : SetTimer(i)
    \/ \E t \in Timers : CancelTimer(t) \/ UpdateTimer(t)

Spec == Init /\ [][Next]_vars

(* check_timers is called in every turn of the stage thread's loop; the    *)
(* clock goes on.                                                          *)
LiveSpec == Spec /\ WF_vars(Tick) /\ WF_vars(Expire)

-----------------------------------------------------------------------------
(* Every timer of the pool is on exactly one of two lists that can be      *)
(* walked both ways, whatever the order of set, cancel, update and expire. *)
ListsIntact ==
    /\ \A l \in Lists : Intact(lists, l)
    /\ Active \cap Members(lists, "free_list_") = {}
    /\ Active \cup Members(lists, "free_list_") = Timers

(* expire leaves no active timer behind that was due at its clock, also    *)
(* when the handler sets and cancels timers while it runs.                 *)
NoneOverdue ==
    ~expiring => \A t \in Active : end_clock_ms_[t] >= last_clock_ms_

Service == INSTANCE TimerService
           WITH armed <- [t \in Active |-> end_clock_ms_[t]]

(* set_timer, cancel_timer, update_timer and expire are the promised timer *)
(* service: no timer lost, none early, none passed over.                   *)
ImplementsService == Service!Spec

(* expire, called again and again, lets no timer wait for ever: each one   *)
(* fires or is cancelled or moved, if its deadline is within the clock's   *)
(* bound.                                                                  *)
EventuallyFires == <>[](\A t \in Active : end_clock_ms_[t] >= MaxClock)
=============================================================================
