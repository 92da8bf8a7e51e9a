------------------------------ MODULE EventLog ------------------------------
(***************************************************************************)
(* What the disruptor promises, without its ring: publishers append to one *)
(* log, and every handler consumes that log from its start, in order, one  *)
(* event at a time, until it meets the quit event.                         *)
(***************************************************************************)
EXTENDS Naturals, Sequences

CONSTANTS Handlers,     \* the consuming threads
          Events,       \* what may be pushed, the quit event included
          QuitEvent     \* SL_Disruptor_QuitEvent

VARIABLES log,          \* the published events, in publication order
          delivered,    \* per handler, the events handle_event was called with
          stopped       \* the handlers that met the quit event

logVars == <<log, delivered, stopped>>

Init ==
    /\ log = << >>
    /\ delivered = [h \in Handlers |-> << >>]
    /\ stopped = {}

(* A publisher makes one more event visible to everyone.                   *)
Append1 ==
    /\ \E e \in Events : log' = Append(log, e)
    /\ UNCHANGED <<delivered, stopped>>

(* h consumes the next event of the log.                                   *)
Deliver(h) ==
    LET n == Len(delivered[h]) + 1 IN
    /\ h \notin stopped
    /\ n <= Len(log)
    /\ log[n] # QuitEvent
    /\ delivered' = [delivered EXCEPT ![h] = Append(@, log[n])]
    /\ UNCHANGED <<log, stopped>>

(* The next event of the log is the quit event: h consumes nothing more.   *)
Stop(h) ==
    LET n == Len(delivered[h]) + 1 IN
    /\ h \notin stopped
    /\ n <= Len(log)
    /\ log[n] = QuitEvent
    /\ stopped' = stopped \cup {h}
    /\ UNCHANGED <<log, delivered>>

Next == Append1 \/ \E h \in Handlers : Deliver(h) \/ Stop(h)

Spec == Init /\ [][Next]_logVars
=============================================================================
