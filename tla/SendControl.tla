----------------------------- MODULE SendControl -----------------------------
(***************************************************************************)
(* One connection of SL_Socket_SendControl_Handler: its runner adds it to  *)
(* the SL_Socket_SendControl_HandlerManager when it is opened, threads     *)
(* call put_data and close_wait, the runner reads from the socket, and the *)
(* manager sends what is queued, watches the connection's age and frees    *)
(* the handler when it is closed.  The manager does so in send threads or, *)
(* without any, in event_loop, which the application calls.                *)
(*                                                                         *)
(* Time is abstracted to what the code compares: age says which of the two *)
(* limits the last update is older than, failing whether the last failure  *)
(* is younger than send_delaytime_us_.  A message is Size units, and a     *)
(* socket call accepts some of the units it is given.                      *)
(***************************************************************************)
EXTENDS Integers, SequencesExt

CONSTANTS Calls,        \* calls of put_data, each made by a thread of its own
          Size,         \* units of a message
          IovCount,     \* iovec_count_
          MaxMessages,  \* bound: messages the peer sends
          DirectSend,   \* direct_send_flag_
          FirstThread,  \* the handler's send thread has index 0: it is the
                        \* one that updates current_timestamp_us_
          Threaded      \* which it may be: thread_number_ > 0, or not

ASSUME SizesAssumption ==
    /\ {Size, IovCount} \subseteq Nat \ {0} /\ MaxMessages \in Nat
    /\ {DirectSend, FirstThread} \cup Threaded \subseteq BOOLEAN

Threads == {"sender", "runner", "closer"}
ASSUME CallsAssumption == Calls \cap (Threads \cup {"free"}) = {}

VARIABLES
    current_status_, next_status_, last_errno_,     \* of the handler
    threaded,           \* thread_number_ > 0
    place,              \* the list of the send thread the handler is in: "none",
                        \* "temp", which it is added to, "handlers_list"
    event_mask_,        \* the handler is registered with epoll
    socket_open,        \* socket_ is open
    freed,              \* free_handler was called
    queue_active_, queue_standby_,      \* nodes: the units left of a message
    mutex_,             \* a call, "closer" or "free"
    failing, age,       \* last_fail_timestamp_us_, last_update_timestamp_us_
    tick, ahead,        \* current_timestamp_us_, last_update_timestamp_us_ are
                        \* later than the send thread's current_timestamp_us
    keepalive,          \* keepalive_time_us_ > 0
    timedwait_flag,
    pc,                 \* where every thread is
    serving,            \* the case of the send thread's switch
    taken,              \* send_bytes of sendv, until the queue is cut
    success,            \* write_success_times > 0
    messages,           \* messages still to come from the peer
    result,             \* history: what put_data returned
    order,              \* history: the calls whose message was accepted
    wire,               \* history: the units the socket accepted
    closes              \* history: how often do_close was called

statusVars == <<current_status_, next_status_, last_errno_>>
queueVars == <<queue_active_, queue_standby_>>
clockVars == <<failing, age, tick, ahead>>
callVars == <<result, order>>
sendVars == <<serving, taken, success>>
closeVars == <<event_mask_, closes>>
listVars == <<threaded, place>>
lifeVars == <<socket_open, freed, listVars>>
vars == <<statusVars, queueVars, clockVars, callVars, sendVars, closeVars, lifeVars,
          mutex_, keepalive, timedwait_flag, pc, messages, wire>>

Message(c) == [i \in 1 .. Size |-> <<c, i>>]
Goto(t, step) == pc' = [pc EXCEPT ![t] = step]

(* open: the send threads are started, or there is none.                   *)
Opened ==
    /\ threaded \in Threaded
    /\ place = "none"
    /\ timedwait_flag = 0
    /\ pc = [t \in Calls \cup Threads |->
                CASE t = "sender" -> IF threaded THEN "scan" ELSE "idle"
                  [] t = "runner" -> "add"
                  [] OTHER -> "start"]

(* The runner is in handle_open, after the init_control of add_handler.    *)
Init ==
    /\ Opened
    /\ current_status_ = "OPEN" /\ next_status_ = "OPEN" /\ last_errno_ = "none"
    /\ event_mask_ = FALSE
    /\ socket_open = TRUE /\ freed = FALSE
    /\ queue_active_ = << >> /\ queue_standby_ = << >>
    /\ mutex_ = "free"
    /\ failing = FALSE /\ age = 0 /\ tick = FALSE /\ ahead = FALSE
    /\ keepalive \in BOOLEAN
    /\ serving = "OPEN" /\ taken = 0 /\ success = FALSE
    /\ messages = MaxMessages
    /\ result = [c \in Calls |-> "none"]
    /\ order = << >> /\ wire = << >>
    /\ closes = 0

-----------------------------------------------------------------------------
(* Time passes.                                                            *)
GrowOlder ==
    /\ age < (IF keepalive THEN 2 ELSE 1)
    /\ age' = age + 1
    /\ UNCHANGED <<statusVars, queueVars, failing, tick, ahead, callVars, sendVars, closeVars,
                   lifeVars, mutex_, keepalive, timedwait_flag, pc, messages, wire>>

SendDelayOver ==
    /\ failing
    /\ failing' = FALSE
    /\ UNCHANGED <<statusVars, queueVars, age, tick, ahead, callVars, sendVars, closeVars,
                   lifeVars, mutex_, keepalive, timedwait_flag, pc, messages, wire>>

(* Another send thread, the first one, updates current_timestamp_us_.      *)
Tick ==
    /\ threaded /\ ~FirstThread /\ ~tick
    /\ tick' = TRUE
    /\ UNCHANGED <<statusVars, queueVars, failing, age, ahead, callVars, sendVars, closeVars,
                   lifeVars, mutex_, keepalive, timedwait_flag, pc, messages, wire>>

(* last_update_timestamp_us_ = current_timestamp_us_.                      *)
Refresh ==
    /\ age' = 0
    /\ ahead' = tick
    /\ UNCHANGED tick

(* current_timestamp_us - last_update_timestamp_us_ > limit, in uint64.    *)
Older(limit) == ahead \/ age >= limit

-----------------------------------------------------------------------------
(* The end of add_handler: the item is pushed under the send thread's      *)
(* mutex, the thread is woken, and handle_open's caller registers the      *)
(* handler, whose socket the send thread may have closed by then.          *)
AddHandler ==
    /\ pc["runner"] = "add"
    /\ place' = "temp"
    /\ Goto("runner", "signal")
    /\ UNCHANGED <<statusVars, queueVars, clockVars, callVars, sendVars, closeVars, socket_open,
                   freed, threaded, mutex_, keepalive, timedwait_flag, messages, wire>>

(* A signal to a thread that does not wait yet is lost.                    *)
Signalled(t) ==
    /\ timedwait_flag' = 0
    /\ pc' = [pc EXCEPT ![t] = CASE t = "runner" -> "register" [] OTHER -> "done",
                        !["sender"] = IF timedwait_flag = 1 /\ @ = "wait" THEN "woken" ELSE @]

AddSignal ==
    /\ pc["runner"] = "signal"
    /\ Signalled("runner")
    /\ UNCHANGED <<statusVars, queueVars, clockVars, callVars, sendVars, closeVars,
                   lifeVars, mutex_, keepalive, messages, wire>>

AddHandle ==
    /\ pc["runner"] = "register"
    /\ event_mask_' = socket_open
    /\ Goto("runner", "poll")
    /\ UNCHANGED <<statusVars, queueVars, clockVars, callVars, sendVars, closes,
                   lifeVars, mutex_, keepalive, timedwait_flag, messages, wire>>

(* The handler is made known to others after it was added.                 *)
Added == pc["runner"] \notin {"add", "signal"}

-----------------------------------------------------------------------------
(* put_data.                                                               *)
PutTest(c) ==
    /\ pc[c] = "start" /\ Added
    /\ IF current_status_ = "OPEN"
          THEN Goto(c, "lock") /\ UNCHANGED result
          ELSE Goto(c, "done") /\ result' = [result EXCEPT ![c] = "fail"]
    /\ UNCHANGED <<statusVars, queueVars, clockVars, order, sendVars, closeVars,
                   lifeVars, mutex_, keepalive, timedwait_flag, messages, wire>>

(* Mutated form of MaySend: the queue being sent is not looked at.         *)
MaySend_StandbyOnly == DirectSend /\ queue_standby_ = << >> /\ ~failing

MaySend == DirectSend /\ queue_standby_ = << >> /\ queue_active_ = << >> /\ ~failing

PutLock(c) ==
    /\ pc[c] = "lock"
    /\ mutex_ = "free"
    /\ mutex_' = c
    /\ Goto(c, IF MaySend THEN "send" ELSE "push")
    /\ UNCHANGED <<statusVars, queueVars, clockVars, callVars, sendVars, closeVars,
                   lifeVars, keepalive, timedwait_flag, messages, wire>>

Return(c, value) ==
    /\ Goto(c, "done")
    /\ mutex_' = "free"
    /\ result' = [result EXCEPT ![c] = value]

(* Mutated form of PutSend: a message sent in part counts as sent.         *)
PutSend_PartIsAll(c, n) ==
    /\ pc[c] = "send" /\ socket_open
    /\ wire' = wire \o SubSeq(Message(c), 1, n)
    /\ order' = Append(order, c)
    /\ Refresh
    /\ UNCHANGED queue_standby_
    /\ Return(c, "sent")
    /\ UNCHANGED <<statusVars, queue_active_, failing, sendVars, closeVars, lifeVars,
                   keepalive, timedwait_flag, messages>>

(* socket_send accepts n units; the rest is queued.                        *)
PutSend(c, n) ==
    /\ pc[c] = "send" /\ socket_open
    /\ wire' = wire \o SubSeq(Message(c), 1, n)
    /\ order' = Append(order, c)
    /\ Refresh
    /\ IF n = Size
          THEN Return(c, "sent") /\ UNCHANGED queue_standby_
          ELSE /\ queue_standby_' = Append(queue_standby_, SubSeq(Message(c), n + 1, Size))
               /\ Goto(c, "wake")
               /\ UNCHANGED <<mutex_, result>>
    /\ UNCHANGED <<statusVars, queue_active_, failing, sendVars, closeVars, lifeVars,
                   keepalive, timedwait_flag, messages>>

(* socket_send fails with EAGAIN.                                          *)
PutAgain(c) ==
    /\ pc[c] = "send" /\ socket_open
    /\ failing' = TRUE
    /\ Goto(c, "push")
    /\ UNCHANGED <<statusVars, queueVars, age, tick, ahead, callVars, sendVars, closeVars,
                   lifeVars, mutex_, keepalive, timedwait_flag, messages, wire>>

(* socket_send fails.                                                      *)
PutFail(c) ==
    /\ pc[c] = "send"
    /\ last_errno_' = "error_id"
    /\ current_status_' = "CLOSE_SEND"
    /\ Return(c, "fail")
    /\ UNCHANGED <<next_status_, queueVars, clockVars, order, sendVars, closeVars,
                   lifeVars, keepalive, timedwait_flag, messages, wire>>

PutPush(c) ==
    /\ pc[c] = "push"
    /\ queue_standby_' = Append(queue_standby_, Message(c))
    /\ order' = Append(order, c)
    /\ Goto(c, "wake")
    /\ UNCHANGED <<statusVars, queue_active_, clockVars, result, sendVars, closeVars,
                   lifeVars, mutex_, keepalive, timedwait_flag, messages, wire>>

(* wakeup_thread, and the end of put_data.                                 *)
PutWake(c) ==
    /\ pc[c] = "wake"
    /\ Signalled(c)
    /\ mutex_' = "free"
    /\ result' = [result EXCEPT ![c] = "queued"]
    /\ UNCHANGED <<statusVars, queueVars, clockVars, order, sendVars, closeVars,
                   lifeVars, keepalive, messages, wire>>

-----------------------------------------------------------------------------
(* close_wait: the test and the assignments, under the mutex.              *)
CloseWaitTest ==
    /\ pc["closer"] = "start" /\ Added
    /\ mutex_ = "free"
    /\ IF current_status_ = "OPEN"
          THEN Goto("closer", "set") /\ mutex_' = "closer"
          ELSE Goto("closer", "done") /\ UNCHANGED mutex_
    /\ UNCHANGED <<statusVars, queueVars, clockVars, callVars, sendVars, closeVars,
                   lifeVars, keepalive, timedwait_flag, messages, wire>>

CloseWaitSet ==
    /\ pc["closer"] = "set"
    /\ last_errno_' = "ERROR_CLOSE_ACTIVE"
    /\ current_status_' = "CLOSE_WAIT"
    /\ next_status_' = "CLOSE_WAIT"
    /\ mutex_' = "free"
    /\ Goto("closer", "done")
    /\ UNCHANGED <<queueVars, clockVars, callVars, sendVars, closeVars,
                   lifeVars, keepalive, timedwait_flag, messages, wire>>

-----------------------------------------------------------------------------
(* del_handle, called by the runner and by the send thread.  Its test and  *)
(* epoll_ctl are one step: of two threads in it, one finds the handler     *)
(* registered, and the other returns at the test or at epoll_ctl.          *)
After(t) == IF t = "sender" THEN "status" ELSE "poll"

(* Mutated form of DelHandle: a handler that is not registered is closed.  *)
DelHandle_Always(t) ==
    /\ pc[t] = "del"
    /\ event_mask_' = FALSE
    /\ Goto(t, "handle_close")
    /\ UNCHANGED <<statusVars, queueVars, clockVars, callVars, sendVars, closes,
                   lifeVars, mutex_, keepalive, timedwait_flag, messages, wire>>

DelHandle(t) ==
    /\ pc[t] = "del"
    /\ event_mask_' = FALSE
    /\ Goto(t, IF event_mask_ THEN "handle_close" ELSE After(t))
    /\ UNCHANGED <<statusVars, queueVars, clockVars, callVars, sendVars, closes,
                   lifeVars, mutex_, keepalive, timedwait_flag, messages, wire>>

HandleClose(t) ==
    /\ pc[t] = "handle_close"
    /\ IF current_status_ # "CLOSE"
          THEN closes' = closes + 1 /\ Goto(t, "next_status")
          ELSE UNCHANGED closes /\ Goto(t, After(t))
    /\ UNCHANGED <<statusVars, queueVars, clockVars, callVars, sendVars, event_mask_,
                   lifeVars, mutex_, keepalive, timedwait_flag, messages, wire>>

TakeNextStatus(t) ==
    /\ pc[t] = "next_status"
    /\ current_status_' = next_status_
    /\ Goto(t, After(t))
    /\ UNCHANGED <<next_status_, last_errno_, queueVars, clockVars, callVars, sendVars, closeVars,
                   lifeVars, mutex_, keepalive, timedwait_flag, messages, wire>>

-----------------------------------------------------------------------------
(* The runner: epoll reports the handler, and handle_read has a message or *)
(* fails.                                                                  *)
ReadEvent ==
    /\ pc["runner"] = "poll"
    /\ event_mask_
    /\ Goto("runner", "read")
    /\ UNCHANGED <<statusVars, queueVars, clockVars, callVars, sendVars, closeVars,
                   lifeVars, mutex_, keepalive, timedwait_flag, messages, wire>>

HandleMessage ==
    /\ pc["runner"] = "read"
    /\ messages > 0
    /\ messages' = messages - 1
    /\ Refresh
    /\ Goto("runner", "poll")
    /\ UNCHANGED <<statusVars, queueVars, failing, callVars, sendVars, closeVars,
                   lifeVars, mutex_, keepalive, timedwait_flag, wire>>

HandleReadFails ==
    /\ pc["runner"] = "read"
    /\ next_status_' = "CLOSE"
    /\ Goto("runner", "del")
    /\ UNCHANGED <<current_status_, last_errno_, queueVars, clockVars, callVars, sendVars, closeVars,
                   lifeVars, mutex_, keepalive, timedwait_flag, messages, wire>>

-----------------------------------------------------------------------------
(* The send thread.  One turn of its loop: read the clock, switch on the   *)
(* status, write, look at the age, and wait if nothing was sent.           *)

(* Mutated form of Case: a connection that cannot send is passed over.     *)
Case_NoCloseSend ==
    CASE current_status_ = "OPEN" -> IF failing THEN "age" ELSE "write"
      [] current_status_ = "CLOSE_WAIT" -> "write"
      [] current_status_ = "CLOSE_SEND" -> "end"
      [] current_status_ = "CLOSE" -> "close"

Case ==
    CASE current_status_ = "OPEN" -> IF failing THEN "age" ELSE "write"
      [] current_status_ = "CLOSE_WAIT" -> "write"
      [] current_status_ = "CLOSE_SEND" -> "next"
      [] current_status_ = "CLOSE" -> "close"

(* Mutated form of TakeHandlers: nothing is taken in by event_loop.        *)
TakeHandlers_ThreadOnly == IF place = "temp" /\ threaded THEN "handlers_list" ELSE place

(* What was added is taken into the list that is scanned.                  *)
TakeHandlers == IF place = "temp" THEN "handlers_list" ELSE place

Scan ==
    /\ pc["sender"] = "scan"
    /\ tick' = FALSE /\ ahead' = FALSE
    /\ place' = TakeHandlers
    /\ success' = FALSE
    /\ IF place' = "handlers_list"
          THEN serving' = current_status_ /\ Goto("sender", Case)
          ELSE UNCHANGED serving /\ Goto("sender", "end")
    /\ UNCHANGED <<statusVars, queueVars, failing, age, callVars, taken, closeVars, socket_open,
                   freed, threaded, mutex_, keepalive, timedwait_flag, messages, wire>>

(* write_data: WRITE_RETURN_NOT_DATA, or on to sendv.                      *)
WriteData ==
    /\ pc["sender"] = "write"
    /\ Goto("sender", IF queue_active_ # << >> THEN "sendv"
                      ELSE IF queue_standby_ # << >> THEN "swap" ELSE "age")
    /\ UNCHANGED <<statusVars, queueVars, clockVars, callVars, sendVars, closeVars,
                   lifeVars, mutex_, keepalive, timedwait_flag, messages, wire>>

SwapQueues ==
    /\ pc["sender"] = "swap"
    /\ mutex_ = "free"
    /\ queue_active_' = queue_standby_
    /\ queue_standby_' = queue_active_
    /\ Goto("sender", "sendv")
    /\ UNCHANGED <<statusVars, clockVars, callVars, sendVars, closeVars,
                   lifeVars, mutex_, keepalive, timedwait_flag, messages, wire>>

node_count == IF Len(queue_active_) < IovCount THEN Len(queue_active_) ELSE IovCount
FirstNodes(k) == FlattenSeq(SubSeq(queue_active_, 1, k))

(* socket_sendv accepts n of the units of the first node_count nodes.      *)
SendV(n) ==
    /\ pc["sender"] = "sendv"
    /\ n <= Len(FirstNodes(node_count))
    /\ wire' = wire \o SubSeq(FirstNodes(node_count), 1, n)
    /\ taken' = n
    /\ Goto("sender", "cut")
    /\ UNCHANGED <<statusVars, queueVars, clockVars, callVars, serving, success, closeVars,
                   lifeVars, mutex_, keepalive, timedwait_flag, messages>>

SendVAgain ==
    /\ pc["sender"] = "sendv"
    /\ failing' = TRUE
    /\ Goto("sender", "age")
    /\ UNCHANGED <<statusVars, queueVars, age, tick, ahead, callVars, sendVars, closeVars,
                   lifeVars, mutex_, keepalive, timedwait_flag, messages, wire>>

SendVFail ==
    /\ pc["sender"] = "sendv"
    /\ last_errno_' = "error_id"
    /\ current_status_' = "CLOSE_SEND"
    /\ Goto("sender", "age")
    /\ UNCHANGED <<next_status_, queueVars, clockVars, callVars, sendVars, closeVars,
                   lifeVars, mutex_, keepalive, timedwait_flag, messages, wire>>

(* The node in which the first n units end.                                *)
EndNode(n) == CHOOSE k \in 1 .. Len(queue_active_) :
                 /\ Len(FirstNodes(k - 1)) < n
                 /\ n <= Len(FirstNodes(k))

(* Mutated form of Without: the node that ends at n stays, empty.          *)
Without_KeepsEmpty(n) ==
    <<SubSeq(FirstNodes(EndNode(n)), n + 1, Len(FirstNodes(EndNode(n))))>>
        \o SubSeq(queue_active_, EndNode(n) + 1, Len(queue_active_))

(* queue_active_ without its first n units.                                *)
Without(n) ==
    LET k == EndNode(n)
        rest == SubSeq(FirstNodes(k), n + 1, Len(FirstNodes(k)))
        others == SubSeq(queue_active_, k + 1, Len(queue_active_)) IN
    IF rest = << >> THEN others ELSE <<rest>> \o others

(* Nodes are popped and data_begin is advanced; last_update_timestamp_us_  *)
(* is this thread's own current_timestamp_us.                              *)
CutQueue ==
    /\ pc["sender"] = "cut"
    /\ queue_active_' = Without(taken)
    /\ taken' = 0
    /\ age' = 0 /\ ahead' = FALSE
    /\ success' = (EndNode(taken) = node_count)
    /\ failing' = ~success'
    /\ Goto("sender", "age")
    /\ UNCHANGED <<statusVars, queue_standby_, tick, callVars, serving, closeVars,
                   lifeVars, mutex_, keepalive, timedwait_flag, messages, wire>>

TooOld == IF serving = "OPEN" THEN keepalive /\ Older(2) ELSE Older(1)

TestAge ==
    /\ pc["sender"] = "age"
    /\ IF TooOld
          THEN /\ Goto("sender", "next")
               /\ last_errno_' = IF serving = "OPEN" THEN "ERROR_KEEPALIVE_TIMEOUT" ELSE last_errno_
          ELSE Goto("sender", "end") /\ UNCHANGED last_errno_
    /\ UNCHANGED <<current_status_, next_status_, queueVars, clockVars, callVars, sendVars, closeVars,
                   lifeVars, mutex_, keepalive, timedwait_flag, messages, wire>>

NextStatusClose ==
    /\ pc["sender"] = "next"
    /\ next_status_' = "CLOSE"
    /\ Goto("sender", "del")
    /\ UNCHANGED <<current_status_, last_errno_, queueVars, clockVars, callVars, sendVars, closeVars,
                   lifeVars, mutex_, keepalive, timedwait_flag, messages, wire>>

CurrentStatusClose ==
    /\ pc["sender"] = "status"
    /\ current_status_' = "CLOSE"
    /\ Goto("sender", "end")
    /\ UNCHANGED <<next_status_, last_errno_, queueVars, clockVars, callVars, sendVars, closeVars,
                   lifeVars, mutex_, keepalive, timedwait_flag, messages, wire>>

(* event_loop scans once for each call.                                    *)
EventLoop ==
    /\ ~threaded
    /\ \/ pc["sender"] = "idle" /\ Goto("sender", "scan")
       \/ pc["sender"] = "end" /\ Goto("sender", "idle")
    /\ UNCHANGED <<statusVars, queueVars, clockVars, callVars, sendVars, closeVars,
                   lifeVars, mutex_, keepalive, timedwait_flag, messages, wire>>

(* After the scan of a thread: once more, or wait.                         *)
RaiseFlag ==
    /\ threaded
    /\ pc["sender"] = "end"
    /\ timedwait_flag' = IF success THEN timedwait_flag ELSE 1
    /\ Goto("sender", IF success THEN "scan" ELSE "block")
    /\ UNCHANGED <<statusVars, queueVars, clockVars, callVars, sendVars, closeVars,
                   lifeVars, mutex_, keepalive, messages, wire>>

Block ==
    /\ pc["sender"] = "block"
    /\ Goto("sender", "wait")
    /\ UNCHANGED <<statusVars, queueVars, clockVars, callVars, sendVars, closeVars,
                   lifeVars, mutex_, keepalive, timedwait_flag, messages, wire>>

(* Mutated form of WaitOver: the wait has no timeout.                      *)
WaitOver_Never ==
    /\ pc["sender"] = "wait"
    /\ UNCHANGED vars

WaitOver ==
    /\ pc["sender"] = "wait"
    /\ Goto("sender", "woken")
    /\ UNCHANGED <<statusVars, queueVars, clockVars, callVars, sendVars, closeVars,
                   lifeVars, mutex_, keepalive, timedwait_flag, messages, wire>>

LowerFlag ==
    /\ pc["sender"] = "woken"
    /\ timedwait_flag' = 0
    /\ Goto("sender", "scan")
    /\ UNCHANGED <<statusVars, queueVars, clockVars, callVars, sendVars, closeVars,
                   lifeVars, mutex_, keepalive, messages, wire>>

(* case STATUS_CLOSE: close, after which epoll knows the socket no more,   *)
(* clear_control, erase and free_handler.                                  *)
CloseSocket ==
    /\ pc["sender"] = "close"
    /\ socket_open' = FALSE /\ event_mask_' = FALSE
    /\ Goto("sender", "clear")
    /\ UNCHANGED <<statusVars, queueVars, clockVars, callVars, sendVars, closes,
                   freed, listVars, mutex_, keepalive, timedwait_flag, messages, wire>>

ClearControl ==
    /\ pc["sender"] = "clear"
    /\ mutex_ = "free"
    /\ Refresh
    /\ failing' = FALSE
    /\ queue_active_' = << >> /\ queue_standby_' = << >>
    /\ Goto("sender", "free")
    /\ UNCHANGED <<statusVars, callVars, sendVars, closeVars,
                   lifeVars, mutex_, keepalive, timedwait_flag, messages, wire>>

FreeHandler ==
    /\ pc["sender"] = "free"
    /\ place' = "none"
    /\ freed' = TRUE
    /\ Goto("sender", "done")
    /\ UNCHANGED <<statusVars, queueVars, clockVars, callVars, sendVars, closeVars,
                   socket_open, threaded, mutex_, keepalive, timedwait_flag, messages, wire>>

-----------------------------------------------------------------------------
PutStep(c) ==
    \/ PutTest(c) \/ PutLock(c)
    \/ \E n \in 1 .. Size : PutSend(c, n)
    \/ PutAgain(c) \/ PutFail(c) \/ PutPush(c) \/ PutWake(c)

CloseStep(t) == DelHandle(t) \/ HandleClose(t) \/ TakeNextStatus(t)

RunnerStep ==
    \/ AddHandler \/ AddSignal \/ AddHandle
    \/ ReadEvent \/ HandleMessage \/ HandleReadFails \/ CloseStep("runner")

Sent == \E n \in 1 .. Size * IovCount : SendV(n)

SenderStep ==
    \/ Scan \/ WriteData \/ SwapQueues
    \/ Sent \/ SendVAgain \/ SendVFail \/ CutQueue
    \/ TestAge \/ NextStatusClose \/ CloseStep("sender") \/ CurrentStatusClose
    \/ EventLoop \/ RaiseFlag \/ Block \/ WaitOver \/ LowerFlag
    \/ CloseSocket \/ ClearControl \/ FreeHandler

(* The connection is gone and nobody uses it any more.                     *)
Terminated ==
    /\ pc["runner"] = "poll"
    /\ \A t \in DOMAIN pc \ {"runner"} : pc[t] = "done"
    /\ UNCHANGED vars

Next ==
    \/ GrowOlder \/ SendDelayOver \/ Tick
    \/ \E c \in Calls : PutStep(c)
    \/ CloseWaitTest \/ CloseWaitSet
    \/ RunnerStep \/ SenderStep
    \/ Terminated

Spec == Init /\ [][Next]_vars

(* The threads run, the clock goes on, and a socket that is tried again    *)
(* and again accepts something in the end.  Nobody has to call put_data or *)
(* close_wait, and the peer need neither send nor close.                   *)
LiveSpec ==
    /\ Spec
    /\ WF_vars(GrowOlder) /\ WF_vars(SendDelayOver)
    /\ \A c \in Calls : WF_vars(pc[c] # "start" /\ PutStep(c))
    /\ WF_vars(CloseWaitSet)
    /\ WF_vars(pc["runner"] # "poll" /\ RunnerStep)
    /\ WF_vars(SenderStep) /\ SF_vars(Sent)

-----------------------------------------------------------------------------
Node == { SubSeq(Message(c), i, Size) : c \in Calls, i \in 1 .. Size }

(* The status is one of the enumerator's values the send control uses, the *)
(* queues hold parts of messages, none of them empty, and the thread in    *)
(* the mutex is the one that is between its lock and its unlock.           *)
TypeOK ==
    /\ {current_status_, next_status_} \subseteq {"OPEN", "CLOSE_WAIT", "CLOSE_SEND", "CLOSE"}
    /\ {threaded, event_mask_, socket_open, freed, failing, tick, ahead, success} \subseteq BOOLEAN
    /\ \A q \in {queue_active_, queue_standby_} : ToSet(q) \subseteq Node
    /\ \A c \in Calls : (mutex_ = c) <=> (pc[c] \in {"send", "push", "wake"})
    /\ (mutex_ = "closer") <=> (pc["closer"] = "set")

Messages(calls) == FlattenSeq([i \in DOMAIN calls |-> Message(calls[i])])
Pending == LET nodes == FlattenSeq(queue_active_ \o queue_standby_) IN
           SubSeq(nodes, taken + 1, Len(nodes))

(* What put_data has accepted goes over the socket unit by unit in the     *)
(* order in which it was accepted, whether a message is sent directly, in  *)
(* parts or from the queues: nothing is lost, repeated or overtaken until  *)
(* clear_control, and even then nothing comes out of order.                *)
StreamKept ==
    IF pc["sender"] \in {"free", "done"}
       THEN IsPrefix(wire, Messages(order))
       ELSE wire \o Pending = Messages(order)

(* put_data's result: sent means that the whole message is on the wire,    *)
(* failed that no unit of it is there or will be.                          *)
ResultHolds ==
    \A c \in Calls :
       /\ result[c] = "sent" => ToSet(Message(c)) \subseteq ToSet(wire)
       /\ result[c] = "fail" => ToSet(Message(c)) \cap ToSet(wire \o Pending) = {}

(* do_close is called once at most, although the runner and the send       *)
(* thread may both find a reason to close.                                 *)
ClosedOnce == closes <= 1

(* keepalive_time closes a connection only when nothing was received or    *)
(* sent on it for that time.                                               *)
OnlyDeadClosed ==
    [][ (TestAge /\ last_errno_' = "ERROR_KEEPALIVE_TIMEOUT") => age = 2 ]_vars

(* A queued message gets onto the wire while the connection is open,       *)
(* although the send thread's wakeup may be lost.                          *)
EventuallySent ==
    \A c \in Calls :
       (result[c] = "queued") ~> (ToSet(Message(c)) \subseteq ToSet(wire) \/ current_status_ # "OPEN")

(* A connection that stops being open is closed and its handler freed,     *)
(* whoever closed it and whatever was still queued.                        *)
EventuallyFreed == (current_status_ # "OPEN") ~> freed
=============================================================================
