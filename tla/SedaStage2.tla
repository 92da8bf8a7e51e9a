----------------------------- MODULE SedaStage2 -----------------------------
(***************************************************************************)
(* SL_Seda_Stage2 and its SL_Seda_StageThread2 threads: producers push     *)
(* into one of two shared queues, each under its own spin lock; a thread   *)
(* whose local queue is empty fills it from the shared ones, the high      *)
(* priority queue first, and waits at most timedwait_interval_us_ when     *)
(* there was nothing.  Line numbers refer to include/SL_Seda_Stage2.h and  *)
(* include/SL_Seda_StageThread2.h.                                         *)
(*                                                                         *)
(* The rings are sequences here (SedaStageThread models the ring itself).  *)
(* close() pushes the quit event into a local queue that belongs to        *)
(* another thread; it is modelled for a stage that is drained and no       *)
(* longer fed, as the tests of the repository close theirs.                *)
(***************************************************************************)
EXTENDS Naturals, Integers, Sequences, FiniteSets

CONSTANTS Producers,    \* the threads calling push_event
          Workers,      \* the stage threads
          SharedMax,    \* queue_max_size of each shared queue
          BatchSize,    \* batch_size_: the capacity of a local queue
          MaxPush,      \* bound: calls of push_event by one producer
          Quit          \* SL_Seda_QuitEvent

Stage2Assumption ==
    /\ SharedMax \in Nat /\ BatchSize \in Nat
    /\ Quit \notin Producers \X Nat

Priorities == {"high", "low"}

VARIABLES shared,       \* high_priority_queue_ and low_priority_queue_
          local,        \* event_queue_ of each thread
          wpc,          \* where thread_proc, or pop_event for it, is
          handling,     \* the event handle_event was given, or Quit
          to_signal,    \* producers about to signal timedwait_condition_
          sent,         \* calls of push_event per producer
          to_stop,      \* the threads close() has still to stop; all of them before it
          joining,      \* the thread close() is joining, in a set
          closing,      \* close() was called
          accepted,     \* history: events push_event accepted, per queue, in order
          handled       \* history: events handled, in order, per thread

closeVars == <<to_stop, joining, closing>>
vars == <<shared, local, wpc, handling, to_signal, sent, closeVars, accepted, handled>>

Least(a, b) == IF a < b THEN a ELSE b
Elements(s) == {s[i] : i \in 1 .. Len(s)}

Init ==
    /\ shared = [q \in Priorities |-> << >>]
    /\ local = [w \in Workers |-> << >>]
    /\ wpc = [w \in Workers |-> "pop"]
    /\ handling = [w \in Workers |-> Quit]
    /\ to_signal = {}
    /\ sent = [p \in Producers |-> 0]
    /\ to_stop = Workers /\ joining = {}
    /\ closing = FALSE
    /\ accepted = [q \in Priorities |-> << >>]
    /\ handled = [w \in Workers |-> << >>]

-----------------------------------------------------------------------------
(* push_event, under the lock of queue q; the size 1 makes it signal.      *)
PushEvent(p, q) ==
    LET event == <<p, sent[p] + 1>> IN
    /\ ~closing /\ p \notin to_signal
    /\ sent[p] < MaxPush
    /\ sent' = [sent EXCEPT ![p] = @ + 1]
    /\ \/ /\ Len(shared[q]) < SharedMax
          /\ shared' = [shared EXCEPT ![q] = Append(@, event)]
          /\ accepted' = [accepted EXCEPT ![q] = Append(@, event)]
          /\ to_signal' = IF shared[q] = << >> THEN to_signal \cup {p} ELSE to_signal
       \/ /\ Len(shared[q]) = SharedMax
          /\ UNCHANGED <<shared, accepted, to_signal>>
    /\ UNCHANGED <<local, wpc, handling, closeVars, handled>>

(* timedwait_condition_.signal(): one waiting thread, if there is one.     *)
Signal(p) ==
    /\ p \in to_signal
    /\ to_signal' = to_signal \ {p}
    /\ \/ \E w \in Workers : wpc[w] = "waiting" /\ wpc' = [wpc EXCEPT ![w] = "pop"]
       \/ (\A w \in Workers : wpc[w] # "waiting") /\ UNCHANGED wpc
    /\ UNCHANGED <<shared, local, handling, sent, closeVars, accepted, handled>>

-----------------------------------------------------------------------------
(* thread_proc.                                                            *)

Goto(w, where) == wpc' = [wpc EXCEPT ![w] = where]

(* Mutated form of TakeEvent: a quit event is popped and passed over.      *)
TakeEvent_QuitIgnored(w) ==
    /\ wpc[w] = "pop"
    /\ \/ /\ local[w] = << >>
          /\ Goto(w, "high")
          /\ UNCHANGED <<local, handling>>
       \/ /\ local[w] # << >>
          /\ local' = [local EXCEPT ![w] = Tail(@)]
          /\ handling' = [handling EXCEPT ![w] = Head(local[w])]
          /\ Goto(w, IF Head(local[w]) = Quit THEN "pop" ELSE "handle")
    /\ UNCHANGED <<shared, to_signal, sent, closeVars, accepted, handled>>

(* event_queue_.pop(): the next event, the quit event, or a refill.        *)
TakeEvent(w) ==
    /\ wpc[w] = "pop"
    /\ \/ /\ local[w] = << >>
          /\ Goto(w, "high")
          /\ UNCHANGED <<local, handling>>
       \/ /\ local[w] # << >>
          /\ local' = [local EXCEPT ![w] = Tail(@)]
          /\ handling' = [handling EXCEPT ![w] = Head(local[w])]
          /\ Goto(w, IF Head(local[w]) = Quit THEN "quit" ELSE "handle")
    /\ UNCHANGED <<shared, to_signal, sent, closeVars, accepted, handled>>

HandleEvent(w) ==
    /\ wpc[w] = "handle"
    /\ handled' = [handled EXCEPT ![w] = Append(@, handling[w])]
    /\ handling' = [handling EXCEPT ![w] = Quit]
    /\ Goto(w, "pop")
    /\ UNCHANGED <<shared, local, to_signal, sent, closeVars, accepted>>

(* Mutated form of Move: as many events as the shared queue holds are      *)
(* moved, and the local queue drops the ones it has no room for.           *)
Move_All(w, q) ==
    /\ shared' = [shared EXCEPT ![q] = << >>]
    /\ local' = [local EXCEPT ![w] =
                    SubSeq(@ \o shared[q], 1, Least(BatchSize, Len(@) + Len(shared[q])))]

(* SL_Seda_EventQueue::pop(push_queue) under the lock of shared queue q:   *)
(* as many events as the local queue has room for.                         *)
Move(w, q) ==
    LET count == Least(Len(shared[q]), BatchSize - Len(local[w])) IN
    /\ shared' = [shared EXCEPT ![q] = SubSeq(@, count + 1, Len(@))]
    /\ local' = [local EXCEPT ![w] = @ \o SubSeq(shared[q], 1, count)]

MoveHigh(w) ==
    /\ wpc[w] = "high"
    /\ Move(w, "high")
    /\ Goto(w, "low")
    /\ UNCHANGED <<handling, to_signal, sent, closeVars, accepted, handled>>

MoveLow(w) ==
    /\ wpc[w] = "low"
    /\ Move(w, "low")
    /\ Goto(w, "test")
    /\ UNCHANGED <<handling, to_signal, sent, closeVars, accepted, handled>>

(* An empty local queue makes pop_event wait.  Nothing is tested under the *)
(* mutex, so a signal sent before the wait begins is lost.                 *)
TestEmpty(w) ==
    /\ wpc[w] = "test"
    /\ Goto(w, IF local[w] = << >> THEN "waiting" ELSE "pop")
    /\ UNCHANGED <<shared, local, handling, to_signal, sent, closeVars, accepted, handled>>

(* Mutated form of WaitTimeout: the wait has no limit.                     *)
WaitTimeout_Never(w) == FALSE /\ UNCHANGED vars

WaitTimeout(w) ==
    /\ wpc[w] = "waiting"
    /\ Goto(w, "pop")
    /\ UNCHANGED <<shared, local, handling, to_signal, sent, closeVars, accepted, handled>>

Quitting(w) ==
    /\ wpc[w] = "quit"
    /\ Goto(w, "exited")
    /\ UNCHANGED <<shared, local, handling, to_signal, sent, closeVars, accepted, handled>>

-----------------------------------------------------------------------------
(* close() of a drained stage: stop and join one thread after the other.   *)
Drained ==
    /\ to_signal = {}
    /\ \A q \in Priorities : shared[q] = << >>
    /\ \A w \in Workers : local[w] = << >> /\ wpc[w] # "handle"

Close ==
    /\ ~closing /\ Drained
    /\ closing' = TRUE
    /\ UNCHANGED <<to_stop, joining, shared, local, wpc, handling, to_signal, sent, accepted, handled>>

(* stop(): the quit event goes into the thread's own queue, if it fits.    *)
StopThread(w) ==
    /\ closing /\ w \in to_stop /\ joining = {}
    /\ to_stop' = to_stop \ {w}
    /\ joining' = {w}
    /\ local' = [local EXCEPT ![w] = IF Len(@) < BatchSize THEN Append(@, Quit) ELSE @]
    /\ UNCHANGED <<closing, shared, wpc, handling, to_signal, sent, accepted, handled>>

JoinThread(w) ==
    /\ w \in joining /\ wpc[w] = "exited"
    /\ joining' = {}
    /\ UNCHANGED <<to_stop, closing, shared, local, wpc, handling, to_signal, sent, accepted, handled>>

-----------------------------------------------------------------------------
WorkerStep(w) ==
    \/ TakeEvent(w) \/ HandleEvent(w) \/ MoveHigh(w) \/ MoveLow(w)
    \/ TestEmpty(w) \/ WaitTimeout(w) \/ Quitting(w)

CloseStep == \E w \in Workers : StopThread(w) \/ JoinThread(w)

Next ==
    \/ \E p \in Producers : Signal(p) \/ \E q \in Priorities : PushEvent(p, q)
    \/ \E w \in Workers : WorkerStep(w)
    \/ Close \/ CloseStep

Spec == Init /\ [][Next]_vars

-----------------------------------------------------------------------------
(* What a thread was given: handled, being handled, still local.  From     *)
(* close on its queue holds no event but the quit event.                   *)
Given(w) ==
    handled[w] \o (IF wpc[w] = "handle" THEN <<handling[w]>> ELSE << >>)
        \o (IF closing THEN << >> ELSE local[w])

(* The events that left a shared queue are the first ones it accepted.     *)
Gone(q) == Len(accepted[q]) - Len(shared[q])

(* pop_event: an accepted event is in its shared queue or was given to one *)
(* thread, once; each shared queue gives its events away in the order they *)
(* were accepted, and a thread handles those of one queue in that order.   *)
HandledOnce ==
    /\ \A q \in Priorities :
          /\ shared[q] = SubSeq(accepted[q], Gone(q) + 1, Len(accepted[q]))
          /\ \A k \in 1 .. Gone(q) : \E w \in Workers : accepted[q][k] \in Elements(Given(w))
          /\ \A w \in Workers : \A i, j \in 1 .. Len(Given(w)) : \A k, l \in 1 .. Gone(q) :
                (/\ Given(w)[i] = accepted[q][k] /\ Given(w)[j] = accepted[q][l] /\ i < j)
                    => k < l
    /\ \A v, w \in Workers : v # w => Elements(Given(v)) \cap Elements(Given(w)) = {}
    /\ closing => \A w \in Workers : Elements(local[w]) \subseteq {Quit}

(* What the steps keep so that this holds.                                 *)
Sent  == Producers \X Nat
given == [w \in Workers |-> Given(w)]
gone  == [q \in Priorities |-> Gone(q)]

QueuesTyped ==
    /\ shared \in [Priorities -> Seq(Sent)] /\ accepted \in [Priorities -> Seq(Sent)]
    /\ local \in [Workers -> Seq(Sent \cup {Quit})]
    /\ handled \in [Workers -> Seq(Sent)]
    /\ handling \in [Workers -> Sent \cup {Quit}]
    /\ wpc \in [Workers -> {"pop", "handle", "high", "low", "test", "waiting", "quit", "exited"}]
    /\ sent \in [Producers -> Nat]
    /\ closing \in BOOLEAN
    /\ \A w \in Workers : Len(local[w]) <= BatchSize
    /\ \A w \in Workers : wpc[w] = "handle" => handling[w] # Quit /\ ~closing
    /\ \A w \in Workers : \A i \in 1 .. Len(local[w]) : local[w][i] = Quit <=> closing
    /\ closing => \A q \in Priorities : shared[q] = << >>

(* No event is accepted twice, and a shared queue is what is left.         *)
AcceptedOnce ==
    /\ \A q \in Priorities : \A i \in 1 .. Len(accepted[q]) :
          accepted[q][i][2] <= sent[accepted[q][i][1]]
    /\ \A q, r \in Priorities : \A i \in 1 .. Len(accepted[q]), j \in 1 .. Len(accepted[r]) :
          accepted[q][i] = accepted[r][j] => q = r /\ i = j
    /\ \A q \in Priorities :
          /\ Len(shared[q]) <= Len(accepted[q])
          /\ \A i \in 1 .. Len(shared[q]) : shared[q][i] = accepted[q][gone[q] + i]

(* What left a shared queue has one owner, who got it in order.            *)
GivenAway ==
    \A q \in Priorities : \A k \in 1 .. gone[q] :
        \E w \in Workers : \E i \in 1 .. Len(given[w]) : given[w][i] = accepted[q][k]

GivenWasAccepted ==
    \A w \in Workers : \A i \in 1 .. Len(given[w]) :
        \E q \in Priorities : \E k \in 1 .. gone[q] : given[w][i] = accepted[q][k]

GivenInOrder ==
    \A q \in Priorities, w \in Workers :
        \A i, j \in 1 .. Len(given[w]) : \A k, l \in 1 .. gone[q] :
            (given[w][i] = accepted[q][k] /\ given[w][j] = accepted[q][l] /\ i < j) => k < l

OneOwner ==
    \A v, w \in Workers : \A i \in 1 .. Len(given[v]), j \in 1 .. Len(given[w]) :
        given[v][i] = given[w][j] => v = w

GivenOnce == GivenAway /\ GivenWasAccepted /\ GivenInOrder /\ OneOwner

IInv == QueuesTyped /\ AcceptedOnce /\ GivenOnce

(* push_event and pop_event: the signals can all be lost, yet whatever the *)
(* finitely many calls had accepted is handled in the end.                 *)
AllHandled ==
    <>[](\A q \in Priorities : \A i \in 1 .. Len(accepted[q]) :
            \E w \in Workers : accepted[q][i] \in Elements(handled[w]))

(* close: every join returns.                                              *)
CloseReturns == <>[](closing => to_stop = {} /\ joining = {})
=============================================================================
