---------------------------- MODULE SortedTimers ----------------------------
(***************************************************************************)
(* SL_Timer_List_Time and SL_Timer_List_Clock: a list of timers, the next  *)
(* to end first, under a lock; a thread takes those that are due from it   *)
(* and calls them without the lock, while others start and stop timers.    *)
(* The two differ in the state they give a timer they add: _Time makes it  *)
(* ALIVE, _Clock leaves it, so that there del_timer never finds one to     *)
(* delete, and add_timer never one that is in the list already.            *)
(* Line numbers refer to include/SL_Timer_List_Time.h.                     *)
(***************************************************************************)
EXTENDS Integers, Sequences

CONSTANTS Timers,
          Kinds,        \* "time", "clock"
          Interval,     \* interval_ms_ of each timer, above Repair
          Cyclic,       \* the timers of TIMER_TYPE_CYCLE
          Repair,       \* repair_: how much too early a timer may be called
          MaxClock,     \* bound: the last time
          MaxStarts     \* bound: calls of add_timer

SortedAssumption ==
    /\ Interval \in [Timers -> Nat] /\ Repair \in Nat
    /\ \A t \in Timers : Interval[t] > Repair
    /\ Kinds \subseteq {"time", "clock"}

VARIABLES kind,
          clock,
          timer_list_,
          state_, end_time,     \* fields of the timers
          temp_timer_list,      \* those due, not called yet
          stand,                \* the time the thread compared with
          starts,
          early, doubled        \* history: a timer was called too early; was called for
                                \* more than one of its rounds in one turn of the loop

sortedVars == <<kind, clock, timer_list_, state_, end_time, temp_timer_list, stand, starts,
                early, doubled>>

In(list, t) == \E i \in DOMAIN list : list[i] = t

Init ==
    /\ kind \in Kinds
    /\ clock = 0
    /\ timer_list_ = << >> /\ temp_timer_list = << >>
    /\ state_ = [t \in Timers |-> "idle"]
    /\ end_time = [t \in Timers |-> 0]
    /\ stand = 0 /\ starts = 0
    /\ early = FALSE /\ doubled = FALSE

Tick ==
    /\ clock < MaxClock
    /\ clock' = clock + 1
    /\ UNCHANGED <<kind, timer_list_, state_, end_time, temp_timer_list, stand, starts,
                   early, doubled>>

(* add_timer_i: before the first timer that ends no sooner.                *)
(* Mutated form of Inserted: at the end of the list.                       *)
Inserted_Last(list, ends, t) == Append(list, t)

Inserted(list, ends, t) ==
    LET later == {i \in DOMAIN list : ends[t] <= ends[list[i]]}
        at == IF later = {} THEN Len(list) + 1 ELSE CHOOSE i \in later : \A j \in later : i <= j
    IN  SubSeq(list, 1, at - 1) \o <<t>> \o SubSeq(list, at, Len(list))

Started(t) == IF kind = "time" THEN "alive" ELSE state_[t]

(* add_timer, which an ALIVE timer is not added by.  _Clock would add a    *)
(* timer twice: its callers start only one that is not in the list.        *)
Start(t) ==
    /\ state_[t] # "alive" /\ (kind = "clock" => ~In(timer_list_, t))
    /\ starts < MaxStarts
    /\ end_time' = [end_time EXCEPT ![t] = clock + Interval[t]]
    /\ timer_list_' = Inserted(timer_list_, end_time', t)
    /\ state_' = [state_ EXCEPT ![t] = Started(t)]
    /\ starts' = starts + 1
    /\ UNCHANGED <<kind, clock, temp_timer_list, stand, early, doubled>>

(* The list without t, wherever it is.                                     *)
Without(list, t) ==
    LET w[i \in 0 .. Len(list)] ==
           IF i = 0 THEN << >>
           ELSE IF list[i] = t THEN w[i - 1] ELSE Append(w[i - 1], list[i])
    IN  w[Len(list)]

(* del_timer_i: only a timer that is ALIVE.                                *)
Stop(t) ==
    /\ state_[t] = "alive"
    /\ timer_list_' = Without(timer_list_, t)
    /\ state_' = [state_ EXCEPT ![t] = "idle"]
    /\ UNCHANGED <<kind, clock, end_time, temp_timer_list, stand, starts, early, doubled>>

(* clear_timer: a timer that was ALIVE stays so, out of the list.          *)
ClearTimer ==
    /\ timer_list_ # << >>
    /\ timer_list_' = << >>
    /\ UNCHANGED <<kind, clock, state_, end_time, temp_timer_list, stand, starts, early, doubled>>

(* timer_loop under the lock: the due timers leave from the front, the     *)
(* cyclic ones for a later place.  A cyclic timer no longer than Repair    *)
(* would be due again at once, and be taken until the clock has moved.     *)
Due(now) == CHOOSE n \in 0 .. Len(timer_list_) :
    /\ \A i \in 1 .. n : end_time[timer_list_[i]] <= now + Repair
    /\ n < Len(timer_list_) => end_time[timer_list_[n + 1]] > now + Repair

Again(list, n, ends) ==
    LET back[i \in 0 .. n] ==
           IF i = 0 THEN SubSeq(list, n + 1, Len(list))
           ELSE IF list[i] \in Cyclic THEN Inserted(back[i - 1], ends, list[i]) ELSE back[i - 1]
    IN  back[n]

Collect ==
    /\ temp_timer_list = << >>
    /\ LET n     == Due(clock)
           due   == SubSeq(timer_list_, 1, n)
           ends  == [t \in Timers |-> IF t \in Cyclic /\ In(due, t)
                                      THEN clock + Interval[t] ELSE end_time[t]]
       IN  /\ n > 0
           /\ temp_timer_list' = due
           /\ timer_list_' = Again(timer_list_, n, ends)
           /\ end_time' = ends
           /\ state_' = [t \in Timers |->
                           IF ~In(due, t) THEN state_[t]
                           ELSE IF t \notin Cyclic THEN "timeout"
                           ELSE IF kind = "time" THEN "alive" ELSE "idle"]
           /\ early' = (early \/ \E i \in DOMAIN due : end_time[due[i]] > clock + Repair)
           /\ doubled' = (doubled \/ \E i, j \in DOMAIN due : i # j /\ due[i] = due[j])
    /\ stand' = clock + Repair
    /\ UNCHANGED <<kind, clock, starts>>

(* timeout() of one timer, without the lock; a timer stopped since the     *)
(* list was unlocked is called as well.                                    *)
Timeout ==
    /\ temp_timer_list # << >>
    /\ temp_timer_list' = Tail(temp_timer_list)
    /\ UNCHANGED <<kind, clock, timer_list_, state_, end_time, stand, starts, early, doubled>>

Next ==
    \/ Tick \/ ClearTimer \/ Collect \/ Timeout
    \/ \E t \in Timers : Start(t) \/ Stop(t)

Spec == Init /\ [][Next]_sortedVars

-----------------------------------------------------------------------------
(* add_timer, del_timer and timer_loop keep the list sorted, so that no    *)
(* due timer stays behind one that is not; none is in it or called twice.  *)
StaysSorted ==
    /\ ~early /\ ~doubled
    /\ \A i, j \in DOMAIN timer_list_ :
          i < j => /\ timer_list_[i] # timer_list_[j]
                   /\ end_time[timer_list_[i]] <= end_time[timer_list_[j]]

(* While the thread calls what it took, nothing it should have taken is    *)
(* left, and what was started since ends later.                            *)
NoneLeft == temp_timer_list # << >> =>
               \A i \in DOMAIN timer_list_ : end_time[timer_list_[i]] > stand

(* timer_loop, called again and again: every timer in the list is called   *)
(* or taken out, if the clock's bound lets it end.                         *)
EventuallyCalled == <>[](\A t \in Timers : In(timer_list_, t) => end_time[t] > MaxClock)
=============================================================================
