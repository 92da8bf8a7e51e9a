----------------------------- MODULE TaskQueue -----------------------------
(***************************************************************************)
(* SL_Task, SL_Task_Condition, SL_Task_MultiQueue and its form with a      *)
(* condition: threads run svc_run over one SL_Queue, or each over a lane   *)
(* of its own.  A semaphore counts the nodes put, or a thread waits on a   *)
(* condition under the queue's mutex.  Line numbers refer to               *)
(* include/SL_Task.h, SL_Task_Condition.h, SL_Task_MultiQueue.h and        *)
(* SL_Task_MultiQueue_Condition.h.                                         *)
(*                                                                         *)
(* pop_node_count is a uint in svc_run and an int& in SL_Queue, and putq   *)
(* of the last class uses a WorkThread as a pointer, which no compiler     *)
(* accepts; the model takes the one for an int and the other for the       *)
(* pointer.                                                                *)
(***************************************************************************)
EXTENDS Naturals, Integers, Sequences, FiniteSets

CONSTANTS ThreadNumber, \* thread_number of open
          Putters,      \* the threads that call putq and getq
          BatchSize,    \* batch_node_count_
          MaxPut,       \* bound: calls of putq by all of them
          MaxTakes,     \* bound: nodes of one queue taken with getq
          OneAssigner,  \* assign_thread of the class with a condition is called by one
                        \* thread at a time
          MaxPermits,   \* the semaphore's largest count (Windows: queue_max_size)
          CloseQuiet    \* with a condition, close comes to a queue when no thread is
                        \* between its test of the queue and its wait

TaskAssumption ==
    /\ ThreadNumber \in Nat \ {0} /\ BatchSize \in Nat
    /\ OneAssigner \in BOOLEAN

VARIABLES semaphore,    \* the class: a semaphore or a condition,
          multi,        \* a queue per thread or one for all
          queue,        \* per lane: queue_, or the work thread's queue
          permits,      \* per lane: the semaphore's count
          flag,         \* per lane: timedwait_flag
          running,      \* per lane: get_running() of the group or of the thread
          tpc,          \* where each thread is in svc_run
          node,         \* the nodes it popped and has not served yet
          ppc,          \* where each putter is in putq
          scan,         \* assign_thread: the next lane to look at, the best and its size
          lane,         \* thread_index of its putq
          size,         \* what push_back returned
          next_index,   \* next_thread_index_
          puts,         \* calls of putq begun
          close_pc,     \* where close is
          closing,      \* the lane it is at
          wakes,        \* releases or signals it has still to make for that lane
          put,          \* history: how many nodes were queued, per lane
          served, got   \* history: the nodes given to svc, and those taken with getq

closeVars == <<close_pc, closing, wakes>>
putVars   == <<ppc, scan, lane, size, next_index, puts>>
classVars == <<semaphore, multi>>
poolVars  == <<classVars, queue, permits, flag, running, tpc, node, putVars, closeVars,
               put, served, got>>

PoolThreads == 0 .. ThreadNumber - 1

(* struct WorkThread: each thread has its queue, or all have the first.    *)
Lanes       == IF multi THEN PoolThreads ELSE {0}
LaneOf(w)   == IF multi THEN w ELSE 0
ThreadsOf(l) == {w \in PoolThreads : LaneOf(w) = l}

Prefix(s, n) == SubSeq(s, 1, n)
Rest(s, n)   == SubSeq(s, n + 1, Len(s))
Fewer(a, b)  == IF a < b THEN a ELSE b
In(e, s)     == \E i \in 1 .. Len(s) : s[i] = e

(* open.                                                                   *)
Init ==
    /\ semaphore \in BOOLEAN /\ multi \in BOOLEAN
    /\ queue = [l \in Lanes |-> << >>]
    /\ permits = [l \in Lanes |-> 0]
    /\ flag = [l \in Lanes |-> FALSE]
    /\ running = [l \in Lanes |-> TRUE]
    /\ tpc = [w \in PoolThreads |-> "loop"]
    /\ node = [w \in PoolThreads |-> << >>]
    /\ ppc = [p \in Putters |-> "idle"]
    /\ scan = [p \in Putters |-> << >>]
    /\ lane = [p \in Putters |-> 0]
    /\ size = [p \in Putters |-> 0]
    /\ puts = 0
    /\ next_index = 0
    /\ close_pc = "open" /\ closing = 0 /\ wakes = 0
    /\ put = [l \in Lanes |-> 0]
    /\ served = [l \in Lanes |-> << >>] /\ got = served

Goto(w, where)  == tpc' = [tpc EXCEPT ![w] = where]
PGoto(p, where) == ppc' = [ppc EXCEPT ![p] = where]

(* putq returns, and its locals are gone.                                  *)
Return(p) ==
    /\ PGoto(p, "idle")
    /\ lane' = [lane EXCEPT ![p] = 0]
    /\ size' = [size EXCEPT ![p] = 0]

(* With a condition, the queue's mutex is held from the test of the queue  *)
(* to the wait.                                                            *)
MutexFree(l) == semaphore \/ \A w \in ThreadsOf(l) : tpc[w] # "wait"

-----------------------------------------------------------------------------
(* putq: the lane first.  It is not called once close has begun.           *)

EnterPut(p) ==
    /\ ppc[p] = "idle" /\ close_pc = "open" /\ puts < MaxPut
    /\ puts' = puts + 1

(* One queue, or the lane that the caller wants.                           *)
PutTo(p) ==
    /\ EnterPut(p)
    /\ \E l \in Lanes : lane' = [lane EXCEPT ![p] = l]
    /\ PGoto(p, "push")
    /\ UNCHANGED <<queue, permits, flag, running, tpc, node, scan, size, next_index,
                   closeVars, put, served, got>>

(* assign_thread of SL_Task_MultiQueue: the least loaded lane, whose sizes *)
(* are read one after the other, without their mutexes.                    *)
ReadFirst(p) ==
    /\ multi /\ semaphore /\ ThreadNumber > 1
    /\ EnterPut(p)
    /\ scan' = [scan EXCEPT ![p] = <<1, 0, Len(queue[0])>>]
    /\ PGoto(p, "scan")
    /\ UNCHANGED <<queue, permits, flag, running, tpc, node, lane, size, next_index,
                   closeVars, put, served, got>>

ReadNext(p) ==
    /\ ppc[p] = "scan"
    /\ LET i == scan[p][1]
           n == Len(queue[i])
           best == IF n < scan[p][3] THEN <<i, n>> ELSE <<scan[p][2], scan[p][3]>>
       IN IF i + 1 < ThreadNumber
          THEN /\ scan' = [scan EXCEPT ![p] = <<i + 1, best[1], best[2]>>]
               /\ UNCHANGED <<ppc, lane>>
          ELSE /\ lane' = [lane EXCEPT ![p] = best[1]]
               /\ scan' = [scan EXCEPT ![p] = << >>]
               /\ PGoto(p, "push")
    /\ UNCHANGED <<queue, permits, flag, running, tpc, node, size, next_index, puts,
                   closeVars, put, served, got>>

(* assign_thread of the class with a condition: the next lane, counted     *)
(* without a lock.                                                         *)
Assigning == {p \in Putters : ppc[p] \in {"count", "wrap"}}

LoadNext(p) ==
    /\ multi /\ ~semaphore /\ ThreadNumber > 1
    /\ OneAssigner => Assigning = {}
    /\ EnterPut(p)
    /\ lane' = [lane EXCEPT ![p] = next_index]
    /\ PGoto(p, "count")
    /\ UNCHANGED <<queue, permits, flag, running, tpc, node, scan, size, next_index,
                   closeVars, put, served, got>>

CountNext(p) ==
    /\ ppc[p] = "count"
    /\ next_index' = lane[p] + 1
    /\ PGoto(p, IF lane[p] >= ThreadNumber THEN "wrap" ELSE "push")
    /\ UNCHANGED <<queue, permits, flag, running, tpc, node, scan, lane, size, puts,
                   closeVars, put, served, got>>

(* Mutated form of WrapNext: only the next call's index is wrapped.        *)
WrapNext_Later(p) ==
    /\ ppc[p] = "wrap"
    /\ next_index' = lane[p] - ThreadNumber + 1
    /\ PGoto(p, "push")
    /\ UNCHANGED <<queue, permits, flag, running, tpc, node, scan, lane, size, puts,
                   closeVars, put, served, got>>

WrapNext(p) ==
    /\ ppc[p] = "wrap"
    /\ lane' = [lane EXCEPT ![p] = @ - ThreadNumber]
    /\ next_index' = lane[p] - ThreadNumber + 1
    /\ PGoto(p, "push")
    /\ UNCHANGED <<queue, permits, flag, running, tpc, node, scan, size, puts,
                   closeVars, put, served, got>>

(* push_back.  A node is its place in the order in which its lane got them. *)
PushBack(p) ==
    /\ ppc[p] = "push" /\ MutexFree(lane[p])
    /\ put' = [put EXCEPT ![lane[p]] = @ + 1]
    /\ queue' = [queue EXCEPT ![lane[p]] = Append(@, put[lane[p]] + 1)]
    /\ size' = [size EXCEPT ![p] = Len(queue[lane[p]]) + 1]
    /\ PGoto(p, IF ~semaphore /\ multi THEN "flag" ELSE "wake")
    /\ UNCHANGED <<permits, flag, running, tpc, node, scan, lane, next_index, puts,
                   closeVars, served, got>>

(* release: nothing at the largest count.                                  *)
Released(l) == permits' = [permits EXCEPT ![l] = IF @ < MaxPermits THEN @ + 1 ELSE @]

(* A condition's signal wakes one waiting thread, or nobody.               *)
SignalOne(l) ==
    \/ \E w \in ThreadsOf(l) : tpc[w] = "blocked" /\ Goto(w, "woken")
    \/ (\A w \in ThreadsOf(l) : tpc[w] # "blocked") /\ UNCHANGED tpc

(* Mutated form of Release: no release once the queue was not empty.       *)
Release_FirstOnly(p) ==
    /\ semaphore /\ ppc[p] = "wake"
    /\ IF size[p] = 1 THEN Released(lane[p]) ELSE UNCHANGED permits
    /\ Return(p)
    /\ UNCHANGED <<queue, flag, running, tpc, node, scan, next_index, puts,
                   closeVars, put, served, got>>

Release(p) ==
    /\ semaphore /\ ppc[p] = "wake"
    /\ Released(lane[p])
    /\ Return(p)
    /\ UNCHANGED <<queue, flag, running, tpc, node, scan, next_index, puts,
                   closeVars, put, served, got>>

(* SL_Task_Condition: a queue longer than the pool is not signalled (and   *)
(* putq returns -1 for a node that is queued all the same).                *)
NotifyPool(p) ==
    /\ ~semaphore /\ ~multi /\ ppc[p] = "wake"
    /\ IF size[p] <= ThreadNumber THEN SignalOne(0) ELSE UNCHANGED tpc
    /\ Return(p)
    /\ UNCHANGED <<queue, permits, flag, running, node, scan, next_index, puts,
                   closeVars, put, served, got>>

(* SL_Task_MultiQueue_Condition: a lane whose thread waits.  The flag is   *)
(* tested and cleared without the mutex.                                   *)
TestFlag(p) ==
    /\ ppc[p] = "flag"
    /\ IF flag[lane[p]] THEN PGoto(p, "clear") /\ UNCHANGED <<lane, size>> ELSE Return(p)
    /\ UNCHANGED <<queue, permits, flag, running, tpc, node, scan, next_index, puts,
                   closeVars, put, served, got>>

ClearFlag(p) ==
    /\ ppc[p] = "clear"
    /\ flag' = [flag EXCEPT ![lane[p]] = FALSE]
    /\ PGoto(p, "wake")
    /\ UNCHANGED <<queue, permits, running, tpc, node, scan, lane, size, next_index, puts,
                   closeVars, put, served, got>>

NotifyLane(p) ==
    /\ ~semaphore /\ multi /\ ppc[p] = "wake"
    /\ SignalOne(lane[p])
    /\ Return(p)
    /\ UNCHANGED <<queue, permits, flag, running, node, scan, next_index, puts,
                   closeVars, put, served, got>>

(* getq: a node of a lane, if there is one, for its caller.  That of       *)
(* SL_Task_MultiQueue_Condition names no variable, and cannot be called.   *)
Getq(p, l) ==
    /\ semaphore \/ ~multi
    /\ ppc[p] = "idle" /\ close_pc = "open"
    /\ MutexFree(l) /\ queue[l] # << >>
    /\ Len(got[l]) < MaxTakes
    /\ got' = [got EXCEPT ![l] = Append(@, Head(queue[l]))]
    /\ queue' = [queue EXCEPT ![l] = Tail(@)]
    /\ UNCHANGED <<permits, flag, running, tpc, node, putVars, closeVars, put, served>>

-----------------------------------------------------------------------------
(* svc_run.                                                                *)

Loop(w) ==
    /\ tpc[w] = "loop"
    /\ Goto(w, IF running[LaneOf(w)] THEN "acquire" ELSE "exited")
    /\ UNCHANGED <<queue, permits, flag, running, node, putVars, closeVars, put, served, got>>

(* Mutated form of PopFront: the batch is counted from zero, so its last   *)
(* node stays in the queue.                                                *)
PopFront_KeepsLast(w) ==
    LET l == LaneOf(w)
        count == Fewer(Len(queue[l]), BatchSize) IN
    /\ node' = [node EXCEPT ![w] = Prefix(queue[l], count)]
    /\ queue' = [queue EXCEPT ![l] = Rest(@, IF count > 1 THEN count - 1 ELSE count)]

(* The pop of at most batch_node_count_ nodes.                             *)
PopFront(w) ==
    LET l == LaneOf(w)
        count == Fewer(Len(queue[l]), BatchSize) IN
    /\ node' = [node EXCEPT ![w] = Prefix(queue[l], count)]
    /\ queue' = [queue EXCEPT ![l] = Rest(@, count)]

(* With a semaphore: acquire, then one pop, which may find nothing.        *)
Acquire(w) ==
    /\ semaphore /\ tpc[w] = "acquire" /\ permits[LaneOf(w)] > 0
    /\ permits' = [permits EXCEPT ![LaneOf(w)] = @ - 1]
    /\ Goto(w, "pop")
    /\ UNCHANGED <<queue, flag, running, node, putVars, closeVars, put, served, got>>

PopBatch(w) ==
    /\ semaphore /\ tpc[w] = "pop"
    /\ PopFront(w)
    /\ Goto(w, "serve")
    /\ UNCHANGED <<permits, flag, running, putVars, closeVars, put, served, got>>

(* With a condition: the mutex is taken, an empty queue means a wait.      *)
LockAndPop(w) ==
    /\ ~semaphore /\ tpc[w] = "acquire" /\ MutexFree(LaneOf(w))
    /\ PopFront(w)
    /\ Goto(w, IF queue[LaneOf(w)] = << >> THEN "wait" ELSE "serve")
    /\ UNCHANGED <<permits, flag, running, putVars, closeVars, put, served, got>>

Wait(w) ==
    /\ tpc[w] = "wait" /\ ~multi
    /\ Goto(w, "blocked")
    /\ UNCHANGED <<queue, permits, flag, running, node, putVars, closeVars, put, served, got>>

(* The flag first: the mutex is only given back by the wait.               *)
WaitFlagged(w) ==
    /\ tpc[w] = "wait" /\ multi
    /\ flag' = [flag EXCEPT ![w] = TRUE]
    /\ Goto(w, "blocked")
    /\ UNCHANGED <<queue, permits, running, node, putVars, closeVars, put, served, got>>

(* Woken, with the mutex again: leave if the pool was stopped.             *)
PopAgain(w) ==
    \/ ~running[LaneOf(w)] /\ Goto(w, "exited") /\ UNCHANGED <<queue, node>>
    \/ /\ running[LaneOf(w)]
       /\ PopFront(w)
       /\ Goto(w, IF queue[LaneOf(w)] = << >> THEN "wait" ELSE "serve")

Woken(w) ==
    /\ tpc[w] = "woken" /\ ~multi /\ MutexFree(0)
    /\ PopAgain(w)
    /\ UNCHANGED <<permits, flag, running, putVars, closeVars, put, served, got>>

(* Mutated form of WokenFlagged: the flag is raised before the first wait  *)
(* only.                                                                   *)
WokenFlagged_WaitsOn(w) ==
    /\ tpc[w] = "woken" /\ multi
    /\ flag' = [flag EXCEPT ![w] = FALSE]
    /\ IF queue[w] = << >> /\ running[w]
       THEN Goto(w, "blocked") /\ UNCHANGED <<queue, node>>
       ELSE PopAgain(w)
    /\ UNCHANGED <<permits, running, putVars, closeVars, put, served, got>>

WokenFlagged(w) ==
    /\ tpc[w] = "woken" /\ multi
    /\ flag' = [flag EXCEPT ![w] = FALSE]
    /\ PopAgain(w)
    /\ UNCHANGED <<permits, running, putVars, closeVars, put, served, got>>

Serve(w) ==
    /\ tpc[w] = "serve"
    /\ \/ node[w] = << >> /\ Goto(w, "loop") /\ UNCHANGED <<node, served>>
       \/ /\ node[w] # << >>
          /\ served' = [served EXCEPT ![LaneOf(w)] = Append(@, Head(node[w]))]
          /\ node' = [node EXCEPT ![w] = Tail(@)]
          /\ UNCHANGED tpc
    /\ UNCHANGED <<queue, permits, flag, running, putVars, closeVars, put, got>>

-----------------------------------------------------------------------------
(* close: lane by lane (all threads are of the one queue's), stop, a       *)
(* release or signal per thread without the mutex, join, clear.            *)

Quiet(l) ==
    CloseQuiet /\ ~semaphore =>
       \A w \in ThreadsOf(l) : tpc[w] \in {"blocked", "serve", "exited"}

Close ==
    /\ close_pc = "open" /\ \A p \in Putters : ppc[p] = "idle"
    /\ close_pc' = "stop"
    /\ UNCHANGED <<queue, permits, flag, running, tpc, node, putVars, closing, wakes,
                   put, served, got>>

Stop ==
    /\ close_pc = "stop" /\ Quiet(closing)
    /\ running' = [running EXCEPT ![closing] = FALSE]
    /\ wakes' = Cardinality(ThreadsOf(closing))
    /\ close_pc' = "wake"
    /\ UNCHANGED <<queue, permits, flag, tpc, node, putVars, closing, put, served, got>>

Wake ==
    \/ semaphore /\ Released(closing) /\ UNCHANGED tpc
    \/ ~semaphore /\ SignalOne(closing) /\ UNCHANGED permits

(* Mutated form of WakeOne: one release for the whole pool.                *)
WakeOne_Once ==
    /\ close_pc = "wake"
    /\ close_pc' = "join" /\ wakes' = 0
    /\ Wake
    /\ UNCHANGED <<queue, flag, running, node, putVars, closing, put, served, got>>

WakeOne ==
    /\ close_pc = "wake"
    /\ wakes' = wakes - 1
    /\ close_pc' = IF wakes = 1 THEN "join" ELSE "wake"
    /\ Wake
    /\ UNCHANGED <<queue, flag, running, node, putVars, closing, put, served, got>>

JoinAndClear ==
    /\ close_pc = "join"
    /\ \A w \in ThreadsOf(closing) : tpc[w] = "exited"
    /\ queue' = [queue EXCEPT ![closing] = << >>]
    /\ IF closing + 1 \in Lanes
       THEN closing' = closing + 1 /\ close_pc' = "stop"
       ELSE close_pc' = "closed" /\ UNCHANGED closing
    /\ UNCHANGED <<permits, flag, running, tpc, node, putVars, wakes, put, served, got>>

-----------------------------------------------------------------------------
WorkerStep(w) ==
    /\ UNCHANGED classVars
    /\ \/ Loop(w) \/ Acquire(w) \/ PopBatch(w) \/ LockAndPop(w)
       \/ Wait(w) \/ WaitFlagged(w) \/ Woken(w) \/ WokenFlagged(w) \/ Serve(w)

PutStep(p) ==
    /\ UNCHANGED classVars
    /\ \/ ReadNext(p) \/ CountNext(p) \/ WrapNext(p) \/ PushBack(p)
       \/ Release(p) \/ NotifyPool(p) \/ TestFlag(p) \/ ClearFlag(p) \/ NotifyLane(p)

CallStep(p) ==
    /\ UNCHANGED classVars
    /\ PutTo(p) \/ ReadFirst(p) \/ LoadNext(p) \/ \E l \in Lanes : Getq(p, l)

CloseStep == UNCHANGED classVars /\ (Stop \/ WakeOne \/ JoinAndClear)

Next ==
    \/ \E p \in Putters : CallStep(p) \/ PutStep(p)
    \/ \E w \in PoolThreads : WorkerStep(w)
    \/ UNCHANGED classVars /\ Close
    \/ CloseStep

Spec == Init /\ [][Next]_poolVars

-----------------------------------------------------------------------------
(* Who can have a node of lane l: its queue, those who served or got it,   *)
(* and the threads.                                                        *)
InQueue == -3
Holders == InQueue .. ThreadNumber - 1
Held(l) == [h \in Holders |-> CASE h = InQueue -> queue[l]
                                 [] h = -2 -> served[l]
                                 [] h = -1 -> got[l]
                                 [] OTHER -> IF LaneOf(h) = l THEN node[h] ELSE << >>]
TakenFrom(l) == put[l] - Len(queue[l])

(* putq, getq and svc_run: until close clears it no queued node is lost,   *)
(* none is given out twice, and the nodes leave their queue in order; with *)
(* a queue per thread, which is there to guarantee the order of processing *)
(* (SL_Task_MultiQueue.h:14), they are served in that order too.           *)
ServedOnce ==
    /\ \A l \in Lanes :
          /\ \A i \in 1 .. Len(queue[l]) : queue[l][i] = TakenFrom(l) + i
          /\ \A k \in 1 .. put[l] :
                close_pc = "open" => \E h \in Holders : In(k, Held(l)[h])
          /\ \A g, h \in Holders : \A i \in 1 .. Len(Held(l)[g]), j \in 1 .. Len(Held(l)[h]) :
                Held(l)[g][i] = Held(l)[h][j] => g = h /\ i = j
          /\ multi => \A i \in 1 .. Len(served[l]) - 1 : served[l][i] < served[l][i + 1]
    /\ \A p \in Putters : ppc[p] = "push" => lane[p] \in Lanes

(* What the steps keep so that this holds.                                 *)
PoolTyped ==
    /\ semaphore \in BOOLEAN /\ multi \in BOOLEAN
    /\ queue \in [Lanes -> Seq(Nat)]
    /\ served \in [Lanes -> Seq(Nat)] /\ got \in [Lanes -> Seq(Nat)]
    /\ put \in [Lanes -> Nat]
    /\ node \in [PoolThreads -> Seq(Nat)]
    /\ \A w \in PoolThreads : tpc[w] # "serve" => node[w] = << >>
    /\ tpc \in [PoolThreads -> {"loop", "acquire", "pop", "serve", "wait", "blocked", "woken",
                                "exited"}]
    /\ closing \in Lanes
    /\ close_pc \in {"open", "stop", "wake", "join", "closed"}

(* putq: who is in assign_thread, and what it reads there, is in range.    *)
LanesChosen ==
    /\ ppc \in [Putters -> {"idle", "scan", "count", "wrap", "push", "flag", "clear", "wake"}]
    /\ lane \in [Putters -> Nat] /\ DOMAIN scan = Putters /\ next_index \in Nat
    /\ \A p \in Putters :
          /\ ppc[p] \in {"push", "flag", "clear", "wake"} => lane[p] \in Lanes
          /\ ppc[p] = "scan" => multi /\ scan[p][1] \in PoolThreads /\ scan[p][2] \in PoolThreads
          /\ ppc[p] \in {"count", "wrap"} => multi /\ ThreadNumber > 1 /\ Assigning \subseteq {p}
          /\ ppc[p] = "count" => lane[p] = next_index
          /\ ppc[p] = "wrap" => lane[p] = ThreadNumber
    /\ (\A p \in Putters : ppc[p] # "wrap") => next_index <= ThreadNumber

(* A lane's nodes are numbered as they come, and those that left it were   *)
(* its first ones.                                                         *)
Numbered ==
    \A l \in Lanes :
        /\ Len(queue[l]) <= put[l]
        /\ \A i \in 1 .. Len(queue[l]) : queue[l][i] = TakenFrom(l) + i
        /\ \A h \in Holders \ {InQueue} : \A i \in 1 .. Len(Held(l)[h]) :
              Held(l)[h][i] \in 1 .. TakenFrom(l)

NodesOnce ==
    \A l \in Lanes : \A g, h \in Holders :
        \A i \in 1 .. Len(Held(l)[g]), j \in 1 .. Len(Held(l)[h]) :
            Held(l)[g][i] = Held(l)[h][j] => g = h /\ i = j

NoneLost ==
    close_pc = "open" =>
        \A l \in Lanes : \A k \in 1 .. put[l] : \E h \in Holders : In(k, Held(l)[h])

(* With a queue per thread, the thread has a later part of the queue's     *)
(* nodes than it has served.                                               *)
InOrder ==
    multi => \A w \in PoolThreads :
        /\ \A i, j \in 1 .. Len(served[w]) : i < j => served[w][i] < served[w][j]
        /\ \A i, j \in 1 .. Len(node[w]) : i < j => node[w][i] < node[w][j]
        /\ \A i \in 1 .. Len(served[w]), j \in 1 .. Len(node[w]) : served[w][i] < node[w][j]

IInv == PoolTyped /\ LanesChosen /\ Numbered /\ NodesOnce /\ NoneLost /\ InOrder

(* putq, svc_run and close: whatever is queued is served or taken, unless  *)
(* the pool is closed first, and a close that was begun returns.           *)
ServedOrClosed ==
    <>[](/\ close_pc \in {"open", "closed"}
         /\ close_pc = "open" => \A l \in DOMAIN put : \A k \in 1 .. put[l] :
                                    In(k, served[l]) \/ In(k, got[l]))
=============================================================================
