------------------------------ MODULE MCStages ------------------------------
(***************************************************************************)
(* The thread pools and timers of the library in one run: a stage thread   *)
(* and a stage's choice of the thread (SedaStageThread), SedaStage2,       *)
(* TaskQueue in its four classes, the loop of a thread (EventLoop), a      *)
(* stage's timers (TimerQueue), the timer lists (SortedTimers), and what   *)
(* the threads are built from (Threads).  They share no state, so a        *)
(* behaviour is one of one part: Init chooses it and the others stay in    *)
(* their initial states.                                                   *)
(***************************************************************************)
EXTENDS SedaStageThread, TLC

CONSTANTS Parts,                                    \* the parts to check
          Workers, SharedMax, BatchSize, Quit,      \* SedaStage2
          PoolSize, OneAssigner, MaxShared, MaxPut, MaxTakes, \* TaskQueue
          t1, t2, t3, Pool,                         \* TimerQueue, SortedTimers
          Interval, Cyclic, Repair,
          Intervals, LruInterval, Updates, StaleCalls, MaxClock, MaxSets,
          Loops, QueueIntervals, IdleInterval, EventFactor, MaxWaiting, \* EventLoop
          MaxRuns, Orderly, Clients, MaxOps, Unsafe     \* Threads

VARIABLES part,
    shared, local, wpc, handling, to_signal, sent, to_stop, joining, closing,
    accepted, handled,
    semaphore, multi, queue, permits, wait_flag, running, tpc, node, put_pc, scan, lane, size,
    next_index, puts, close_pc, closing_lane, wakes, put, served, got,
    lru, lists, end_clock_ms_, interval_ms_, is_active_, last_clock_ms_, expiring, clock,
    sets, fired,
    kind, now, timer_list_, state_, end_time, temp_timer_list, stand, starts, early, doubled,
    loop, timer_event_flag, idle_event_flag, lpc, own, waiting, timer_event_count, left,
    moved, idle_for, late,
    windows, grouped, objects, started, flag, handle, group_running, todo, run_pc, of, told,
    primitive, sync_windows, tokens, value, sync_mutex, read_mutex, read_refcount, read_clear,
    cond_event, where, seen, held, ops, total

sharedVars == <<shared, local, wpc, handling, to_signal, sent, to_stop, joining,
                closing, accepted, handled>>
taskVars   == <<semaphore, multi, queue, permits, wait_flag, running, tpc, node, put_pc,
                scan, lane, size, next_index, puts, close_pc, closing_lane, wakes, put, served, got>>
timerVars  == <<lru, lists, end_clock_ms_, interval_ms_, is_active_, last_clock_ms_,
                expiring, clock, sets, fired>>
sortedVars == <<kind, now, timer_list_, state_, end_time, temp_timer_list, stand, starts,
                early, doubled>>
loopVars   == <<loop, timer_event_flag, idle_event_flag, lpc, own, waiting,
                timer_event_count, left, moved, idle_for, late>>
runVars    == <<windows, grouped, objects, started, flag, handle, group_running, todo, run_pc,
                of, told>>
syncVars   == <<primitive, sync_windows, tokens, value, sync_mutex, read_mutex, read_refcount,
                read_clear, cond_event, where, seen, held, ops, total>>
osVars     == <<runVars, syncVars>>
otherVars  == <<timerVars, sortedVars, loopVars, osVars>>
allVars    == <<part, vars, stageVars, sharedVars, taskVars, otherVars>>

OneProducer == {CHOOSE p \in Producers : TRUE}

Shared == INSTANCE SedaStage2 WITH
    Producers <- OneProducer, MaxPush <- MaxShared
Task == INSTANCE TaskQueue WITH
    ThreadNumber <- PoolSize, Putters <- Producers, MaxPermits <- MaxPut, CloseQuiet <- TRUE,
    flag <- wait_flag, ppc <- put_pc, closing <- closing_lane
Loop == INSTANCE EventLoop WITH
    Slots <- DOMAIN QueueIntervals, IntervalOf <- QueueIntervals

Timers == {Pool[i] : i \in DOMAIN Pool}
Timer  == INSTANCE TimerQueue WITH Lists <- {"free_list_", "active_list_"}
Sorted == INSTANCE SortedTimers WITH
    Kinds <- {"time", "clock"}, MaxStarts <- 3, clock <- now

(* Of the timer lists' timers, t1 and t2 are called again and again, t3    *)
(* once.                                                                   *)
ThreeTimers == <<t1, t2, t3>>
ShortOrLong == t1 :> 2 @@ t2 :> 3 @@ t3 :> 2
FirstTwo    == {t1, t2}
OneAndTwo   == <<1, 2>>

Run  == INSTANCE Threads WITH
    Objects <- <<t1, t2>>, spc <- run_pc,
    Free <- NoOne, kind <- primitive, mutex <- sync_mutex, event <- cond_event

ASSUME SharedAssumption == Shared!Stage2Assumption
ASSUME PoolAssumption == Task!TaskAssumption
ASSUME TimersAssumption == Timer!QueueAssumption
ASSUME ListsAssumption == Sorted!SortedAssumption
ASSUME LoopsAssumption == Loop!LoopAssumption

MCInit ==
    /\ part \in Parts
    /\ part # "timers" => lru = TRUE
    /\ part # "task" => semaphore = TRUE /\ multi = FALSE
    /\ part # "list" => kind = "time"
    /\ part # "loop" => loop = "stage" /\ timer_event_flag = FALSE /\ idle_event_flag = FALSE
    /\ part # "threads" => windows = FALSE /\ grouped = FALSE
    /\ part # "sync" => primitive = "rwmutex" /\ sync_windows = FALSE
    /\ Init /\ StageInit /\ Shared!Init
    /\ Task!Init
    /\ Timer!Init /\ Sorted!Init /\ Loop!Init /\ Run!Init /\ Run!SyncInit

MCNext ==
    /\ UNCHANGED part
    /\ \/ part = "thread" /\ Next
             /\ UNCHANGED <<stageVars, sharedVars, taskVars, otherVars>>
       \/ part = "round" /\ StageNext
             /\ UNCHANGED <<vars, sharedVars, taskVars, otherVars>>
       \/ part = "shared" /\ Shared!Next
             /\ UNCHANGED <<vars, stageVars, taskVars, otherVars>>
       \/ part = "task" /\ Task!Next
             /\ UNCHANGED <<vars, stageVars, sharedVars, otherVars>>
       \/ part = "timers" /\ Timer!Next
             /\ UNCHANGED <<vars, stageVars, sharedVars, taskVars, sortedVars, loopVars,
                             osVars>>
       \/ part = "list" /\ Sorted!Next
             /\ UNCHANGED <<vars, stageVars, sharedVars, taskVars, timerVars, loopVars,
                             osVars>>
       \/ part = "loop" /\ Loop!Next
             /\ UNCHANGED <<vars, stageVars, sharedVars, taskVars, timerVars, sortedVars,
                             osVars>>
       \/ part = "threads" /\ Run!Next
             /\ UNCHANGED <<vars, stageVars, sharedVars, taskVars, timerVars, sortedVars,
                             loopVars, syncVars>>
       \/ part = "sync" /\ Run!SyncNext
             /\ UNCHANGED <<vars, stageVars, sharedVars, taskVars, timerVars, sortedVars,
                             loopVars, runVars>>

(* Every thread of the part at work runs, and clocks go on; nobody has to  *)
(* push, stop or close.                                                    *)
MCFairness ==
    /\ \A t \in Pushers : WF_vars(part = "thread" /\ PusherStep(t))
    /\ WF_vars(part = "thread" /\ ThreadStep)
    /\ WF_vars(part = "thread" /\ Join)
    /\ \A w \in Workers : WF_sharedVars(part = "shared" /\ Shared!WorkerStep(w))
    /\ WF_sharedVars(part = "shared" /\ Shared!CloseStep)
    /\ \A w \in Task!PoolThreads : WF_taskVars(part = "task" /\ Task!WorkerStep(w))
    /\ WF_taskVars(part = "task" /\ Task!CloseStep)
    /\ \A p \in Producers :
          /\ WF_sharedVars(part = "shared" /\ p \in OneProducer /\ Shared!Signal(p))
          /\ WF_taskVars(part = "task" /\ Task!PutStep(p))

TimerFairness ==
    /\ WF_timerVars(part = "timers" /\ Timer!Tick)
    /\ WF_timerVars(part = "timers" /\ Timer!Expire)
    /\ WF_sortedVars(part = "list" /\ Sorted!Tick)
    /\ WF_sortedVars(part = "list" /\ Sorted!Collect)
    /\ WF_sortedVars(part = "list" /\ Sorted!Timeout)
    /\ WF_loopVars(part = "loop" /\ Loop!ThreadStep)
    /\ WF_loopVars(part = "loop" /\ Loop!Tick)

(* Whoever has begun a call goes on with it, a thread looks at its flag,   *)
(* and a reader leaves.                                                    *)
RunFairness ==
    /\ WF_runVars(part = "threads" /\ Run!OwnerStep)
    /\ \A r \in 1 .. MaxRuns : WF_runVars(part = "threads" /\ Run!ThreadStep(r))
    /\ \A c \in Clients : WF_syncVars(part = "sync" /\ Run!LockStep(c))

MCSpec == MCInit /\ [][MCNext]_allVars /\ MCFairness /\ TimerFairness /\ RunFairness

-----------------------------------------------------------------------------
(* SL_Seda_Stage::push_event: an index that exists, turns that go round    *)
(* evenly.                                                                 *)
RoundRobin == part = "round" => IndexInRange /\ Balanced

(* Whatever was accepted is handled once and in order, across the swap of  *)
(* a thread's queues (SedaStageThread), from shared queues of two          *)
(* priorities (SedaStage2), and by a pool of threads (TaskQueue).          *)
HandledOnce == /\ part = "thread" => Conserved
               /\ part = "shared" => Shared!HandledOnce
               /\ part = "task" => Task!ServedOnce

(* It is handled in the end, although every wakeup can be lost.            *)
HandledInTheEnd == EventuallyHandled /\ Shared!AllHandled

(* SL_Task and its three kin: a node is served in the end unless the pool  *)
(* is closed, and close returns (TaskQueue).                               *)
ServedOrClosed == Task!ServedOrClosed

(* stop() and SL_Seda_Stage2::close join every thread; the calls of        *)
(* SL_Thread and SL_Thread_Group return (Threads).                         *)
ThreadsEnd == StopJoins /\ Shared!CloseReturns /\ Run!CallsReturn

(* SL_Thread, SL_Thread_Group: a thread runs until it is told to stop, and *)
(* its object lives as long (Threads).  The atomic classes lose no         *)
(* addition and no token, a writer is alone, and who returns from a wait   *)
(* has the mutex.                                                          *)
ThreadsTrue == /\ part = "threads" => Run!ObjectsOutlive /\ Run!RunsUntilTold
               /\ part = "sync" => Run!CountersTrue /\ Run!LocksHold

(* Every timer of a stage is on one of two lists that can be walked both   *)
(* ways (TimerQueue); a timer list is sorted, and calls no timer too soon  *)
(* or twice in a turn (SortedTimers).                                      *)
ListsTrue == /\ part = "timers" => Timer!ListsIntact
             /\ part = "list" => Sorted!StaysSorted

(* expire and timer_loop pass over no timer that was due at their clock,   *)
(* and a loop that is busy with events gets to them in time (EventLoop).   *)
NonePassedOver == /\ part = "timers" => Timer!NoneOverdue
                  /\ part = "list" => Sorted!NoneLeft
                  /\ part = "loop" => Loop!NoneLate

(* set_timer, cancel_timer, update_timer and expire are the promised timer *)
(* service (TimerService).                                                 *)
ImplementsService == Timer!ImplementsService

(* Every timer that is set is called, cancelled or set anew, also by a     *)
(* thread that never runs out of events; one that does gets idle events.   *)
(* A writer that waits for readers gets its lock.                          *)
NoneWaits == /\ Timer!EventuallyFires /\ Sorted!EventuallyCalled
             /\ Loop!TimersCalled /\ Loop!IdleAgain /\ Run!WritersGetIn
=============================================================================
