---------------------------- MODULE TimerService -----------------------------
(***************************************************************************)
(* What a timer queue promises, without its lists: a timer that was set    *)
(* stays armed until it is cancelled or it fires, it never fires before    *)
(* its deadline, and no armed timer with an earlier deadline is passed     *)
(* over.                                                                   *)
(***************************************************************************)
EXTENDS Integers

CONSTANTS Timers

VARIABLES clock,        \* the process clock in ms
          armed,        \* the armed timers with their deadlines
          fired         \* how many timers have fired

serviceVars == <<clock, armed, fired>>

ArmedTimers == DOMAIN armed

Init ==
    /\ clock = 0
    /\ armed = [t \in {} |-> 0]
    /\ fired = 0

Tick == clock' > clock /\ UNCHANGED <<armed, fired>>

(* t is set, or its deadline is moved; no other timer is affected.         *)
Arm(t) ==
    /\ DOMAIN armed' = ArmedTimers \cup {t}
    /\ armed'[t] >= clock
    /\ \A u \in ArmedTimers \ {t} : armed'[u] = armed[u]
    /\ UNCHANGED <<clock, fired>>

Disarm(t) == armed' = [u \in ArmedTimers \ {t} |-> armed[u]]

Cancel(t) ==
    /\ t \in ArmedTimers
    /\ Disarm(t)
    /\ UNCHANGED <<clock, fired>>

(* The earliest deadline has come.                                         *)
Fire(t) ==
    /\ t \in ArmedTimers
    /\ armed[t] <= clock
    /\ \A u \in ArmedTimers : armed[t] <= armed[u]
    /\ Disarm(t)
    /\ fired' = fired + 1
    /\ UNCHANGED clock

Next == Tick \/ \E t \in Timers : Arm(t) \/ Cancel(t) \/ Fire(t)

Spec == Init /\ [][Next]_serviceVars
=============================================================================
