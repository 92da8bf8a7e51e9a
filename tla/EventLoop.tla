----------------------------- MODULE EventLoop ------------------------------
(***************************************************************************)
(* The loop of an event thread with timers and idle events, in the forms   *)
(* it has in SL_Seda_StageThread, SL_Seda_StageThread2 and                 *)
(* SL_Disruptor_Handler: when events are handled, when the LRU timers are  *)
(* checked, when the handler is told that the thread is idle.  Events are  *)
(* counted here; their queues are the business of SedaStageThread,         *)
(* SedaStage2 and DisruptorHandler, the timers' lists that of TimerQueue.  *)
(* Times are differences to the process clock, in milliseconds.            *)
(* Line numbers refer to include/SL_Seda_StageThread.h.                    *)
(***************************************************************************)
EXTENDS Integers

CONSTANTS Loops,        \* a subset of {"stage", "shared", "disruptor"}
          Slots,        \* the LRU timer queues of a thread
          IntervalOf,   \* their intervals
          IdleInterval, \* idle_interval_ms_
          EventFactor,  \* SOCKETLITE_SEDA_TIMER_EVENT_FACTOR, 10000 in the code
          MaxWaiting    \* bound: events waiting outside of the thread

LoopAssumption ==
    /\ IntervalOf \in [Slots -> Nat \ {0}]
    /\ IdleInterval \in Nat \ {0}
    /\ EventFactor \in Nat \ {0}

VARIABLES
    loop,               \* the thread's class
    timer_event_flag, idle_event_flag,  \* as read when the thread began
    lpc,                \* where thread_proc is
    own,                \* events the thread can take: active ring, local queue, batch
    waiting,            \* events it has yet to fetch: standby ring, shared queue, ring
    timer_event_count,  \* timer_event_count
    left,               \* per slot, the time its timer has left; NoTimer
    moved,              \* the clock has moved since the last check
    idle_for,           \* the time since idle_last_clock_ms
    late                \* history: events handled while a slot's timer was due

loopVars == <<loop, timer_event_flag, idle_event_flag, lpc, own, waiting,
              timer_event_count, left, moved, idle_for, late>>

NoTimer == -1
Due(s)  == left[s] = 0

Init ==
    /\ loop \in Loops
    /\ timer_event_flag \in BOOLEAN
    /\ idle_event_flag \in (IF loop = "disruptor" THEN {FALSE} ELSE BOOLEAN)
    /\ lpc = "pop" /\ own = 0 /\ waiting = 0
    /\ timer_event_count = 0
    /\ left = [s \in Slots |-> NoTimer]
    /\ moved = TRUE /\ idle_for = 0
    /\ late = [s \in Slots |-> 0]

-----------------------------------------------------------------------------
(* check_timers: every slot's expire, which does nothing until the clock   *)
(* has moved.                                                              *)
CheckTimers ==
    /\ left' = [s \in Slots |-> IF moved /\ Due(s) THEN NoTimer ELSE left[s]]
    /\ moved' = FALSE

(* late, when so many more events have been handled.                       *)
Lateness(events) ==
    late' = [s \in Slots |-> IF left'[s] # 0 THEN 0
                             ELSE IF Due(s) THEN late[s] + events ELSE 0]

NoCheck == UNCHANGED <<left, moved, timer_event_count>>

(* Mutated form of CountEvent: the count goes on behind the factor.        *)
CountEvent_GoesOn ==
    /\ timer_event_count' = timer_event_count + 1
    /\ IF timer_event_count = EventFactor THEN CheckTimers ELSE UNCHANGED <<left, moved>>

(* Each EventFactor-th event the timers are checked.                       *)
CountEvent ==
    IF timer_event_count + 1 = EventFactor
    THEN CheckTimers /\ timer_event_count' = 0
    ELSE timer_event_count' = timer_event_count + 1 /\ UNCHANGED <<left, moved>>

(* pop gives an event, and it is handled.                                  *)
HandleEvent ==
    /\ lpc = "pop" /\ own > 0
    /\ own' = own - 1
    /\ IF timer_event_flag THEN CountEvent ELSE NoCheck
    /\ Lateness(1)
    /\ UNCHANGED <<loop, timer_event_flag, idle_event_flag, lpc, waiting, idle_for>>

(* No event: the timers are checked, and the handler is told so if it was  *)
(* not for some time.                                                      *)
CheckWhenEmpty ==
    /\ IF timer_event_flag THEN CheckTimers /\ timer_event_count' = 0 ELSE NoCheck
    /\ Lateness(0)

(* Mutated form of TellIdle: idle_last_clock_ms stays as it is.            *)
TellIdle_Always == UNCHANGED idle_for

TellIdle ==
    idle_for' = IF idle_event_flag /\ idle_for >= IdleInterval THEN 0 ELSE idle_for

Settings == <<loop, timer_event_flag, idle_event_flag>>

(* SL_Seda_StageThread, when the active ring is empty; the standby ring is *)
(* looked at afterwards.                                                   *)
StageEmpty ==
    /\ loop = "stage" /\ lpc = "pop" /\ own = 0
    /\ CheckWhenEmpty /\ TellIdle
    /\ lpc' = "fetch"
    /\ UNCHANGED <<Settings, own, waiting>>

(* SL_Disruptor_Handler, at the end of its batch: the timers are checked   *)
(* if there is nothing more.                                               *)
DisruptorEmpty ==
    /\ loop = "disruptor" /\ lpc = "pop" /\ own = 0 /\ waiting = 0
    /\ CheckWhenEmpty
    /\ lpc' = "wait"
    /\ UNCHANGED <<Settings, own, waiting, idle_for>>

(* SL_Seda_StageThread2: without idle events the timers are checked before *)
(* pop_event, with them behind it.                                         *)
SharedEmpty ==
    /\ loop = "shared" /\ lpc = "pop" /\ own = 0
    /\ IF idle_event_flag THEN NoCheck /\ UNCHANGED late ELSE CheckWhenEmpty
    /\ lpc' = "fetch"
    /\ UNCHANGED <<Settings, own, waiting, idle_for>>

SharedIdle ==
    /\ lpc = "idle"
    /\ IF own = 0 THEN CheckWhenEmpty /\ TellIdle
                  ELSE NoCheck /\ UNCHANGED <<late, idle_for>>
    /\ lpc' = "pop"
    /\ UNCHANGED <<Settings, own, waiting>>

AfterFetch == IF loop = "shared" /\ idle_event_flag THEN "idle" ELSE "pop"

(* swap_event_queue, pop_event, or the next batch: there are events, of    *)
(* which pop_event moves those it has room for.                            *)
Fetch ==
    /\ lpc = "fetch" \/ (loop = "disruptor" /\ lpc = "pop" /\ own = 0)
    /\ waiting > 0
    /\ own' \in (IF loop = "shared" THEN 1 .. waiting ELSE {waiting})
    /\ waiting' = waiting - own'
    /\ lpc' = AfterFetch
    /\ UNCHANGED <<Settings, timer_event_count, left, moved, idle_for, late>>

(* There are none: the thread waits ...                                    *)
Sleep ==
    /\ lpc = "fetch" /\ waiting = 0
    /\ lpc' = "wait"
    /\ UNCHANGED <<Settings, own, waiting, timer_event_count, left, moved, idle_for, late>>

(* ... until the time is over or it is signalled; SL_Seda_StageThread      *)
(* takes what there is then.                                               *)
Wake ==
    /\ lpc = "wait"
    /\ IF loop = "stage" THEN own' = waiting /\ waiting' = 0
                         ELSE UNCHANGED <<own, waiting>>
    /\ lpc' = AfterFetch
    /\ UNCHANGED <<Settings, timer_event_count, left, moved, idle_for, late>>

ThreadStep == HandleEvent \/ StageEmpty \/ DisruptorEmpty \/ SharedEmpty \/ SharedIdle
                 \/ Fetch \/ Sleep \/ Wake

-----------------------------------------------------------------------------
(* set_lru_timer and cancel_lru_timer, called by the handler.              *)
SetTimer(s) ==
    /\ timer_event_flag /\ lpc \in {"pop", "fetch"} /\ left[s] = NoTimer
    /\ left' = [left EXCEPT ![s] = IntervalOf[s]]
    /\ UNCHANGED <<Settings, lpc, own, waiting, timer_event_count, moved, idle_for, late>>

CancelTimer(s) ==
    /\ lpc \in {"pop", "fetch"} /\ left[s] # NoTimer
    /\ left' = [left EXCEPT ![s] = NoTimer] /\ late' = [late EXCEPT ![s] = 0]
    /\ UNCHANGED <<Settings, lpc, own, waiting, timer_event_count, moved, idle_for>>

(* An event arrives from another thread.                                   *)
Arrive ==
    /\ waiting < MaxWaiting
    /\ waiting' = waiting + 1
    /\ UNCHANGED <<Settings, lpc, own, timer_event_count, left, moved, idle_for, late>>

(* Another thread of SL_Seda_Stage2 takes an event.                        *)
TakenByOther ==
    /\ loop = "shared" /\ waiting > 0
    /\ waiting' = waiting - 1
    /\ UNCHANGED <<Settings, lpc, own, timer_event_count, left, moved, idle_for, late>>

(* A millisecond goes by.                                                  *)
Tick ==
    /\ left' = [s \in Slots |-> IF left[s] > 0 THEN left[s] - 1 ELSE left[s]]
    /\ moved' = TRUE
    /\ idle_for' = IF idle_for < IdleInterval THEN idle_for + 1 ELSE idle_for
    /\ UNCHANGED <<Settings, lpc, own, waiting, timer_event_count, late>>

Next ==
    \/ ThreadStep \/ Arrive \/ TakenByOther \/ Tick
    \/ \E s \in Slots : SetTimer(s) \/ CancelTimer(s)

(* The thread runs and time goes on; nobody has to push anything.          *)
Spec == Init /\ [][Next]_loopVars /\ WF_loopVars(ThreadStep) /\ WF_loopVars(Tick)

-----------------------------------------------------------------------------
(* thread_proc: however the events come, fewer than EventFactor of them    *)
(* are handled while a timer is due.                                       *)
NoneLate == \A s \in Slots : late[s] < EventFactor

(* thread_proc: timers that are due are called or cancelled in the end,    *)
(* also if events never cease.                                             *)
TimersCalled == []<>(\A s \in Slots : ~Due(s))

(* A thread that asked for idle events gets them again and again, that of  *)
(* SL_Seda_StageThread in any case, that of SL_Seda_StageThread2 if it has *)
(* nothing to do from some time on.                                        *)
IdleAgain == []<>(\/ ~idle_event_flag \/ idle_for < IdleInterval
                  \/ loop = "shared" /\ waiting > 0)
=============================================================================
