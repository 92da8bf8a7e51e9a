----------------------------- MODULE TcpClient -----------------------------
(***************************************************************************)
(* SL_Socket_TcpClient with SL_Socket_TcpClient_AutoConnect: one thread    *)
(* reconnects a client that lost its connection, the runner's event loop   *)
(* notices the loss, and the application sends, closes, or stops the       *)
(* reconnecting.  connect, disconnect and close exclude each other with a  *)
(* spin lock; the flags are read without it.                               *)
(*                                                                         *)
(* The handler is one whose handle_close closes its socket and returns 0,  *)
(* and is_free_self_handler_ is false, its default.  Line numbers refer to *)
(* include/SL_Socket_TcpClient.h and src/SL_Socket_TcpClient_AutoConnect.cpp. *)
(***************************************************************************)
EXTENDS EpollRunner

CONSTANTS Servers,      \* positions in serveraddr_list_: 0 .. n - 1
          Reachable,    \* the servers that accept connections
          Runner, AutoConnect, App,     \* the three threads
          Conns,        \* bound: connections that can be made, in order
          NoConn, NoHandler, NoThread,
          MaxFail,      \* bound: failures of handle_open and epoll_ctl
          MaxCalls      \* bound: calls the application makes

Callers == {AutoConnect, App}
Threads == {Runner, AutoConnect, App}

ClientAssumption ==
    /\ AutoConnect # App /\ Runner \notin Callers /\ NoThread \notin Callers
    /\ NoConn \notin Conns /\ NoHandler \notin Handlers

VARIABLES
    is_connected, is_autoconnect,   \* is_connected_, is_autoconnect_
    socket_handler,     \* socket_handler_
    server_pos,         \* connect_serveraddr_pos_
    client_mutex,       \* mutex_: its owner
    auto_running,       \* autoconnect_thread_.get_running()
    app_stops,          \* AutoConnect::close() waits in join
    tpc, tfd, thandler, \* where each thread is, its local fd and handler
    socket_,            \* handler -> its connection
    in_use,             \* handlers allocated and not freed
    fd, eof, made,      \* connections whose socket is open; closed by the server; made
    failures,           \* how often handle_open or epoll_ctl failed
    app_calls,          \* how many calls the application made
    lost,               \* history: handlers close() took from the runner, or a send overtook
    double_freed,       \* history: handlers freed twice
    missed              \* history: connections whose end was reported before event_mask_

flagVars   == <<is_connected, is_autoconnect, socket_handler, server_pos>>
threadVars == <<tpc, tfd, thandler>>
autoVars   == <<auto_running, app_stops, app_calls>>
sockVars   == <<socket_, fd, eof, made>>
ghostVars  == <<lost, missed>>
clientVars == <<epollVars, flagVars, client_mutex, autoVars, threadVars, sockVars, in_use,
                failures, double_freed, ghostVars>>

(* After open() with automatic reconnection, the threads started.          *)
Init ==
    /\ EpollInit
    /\ is_connected = FALSE /\ is_autoconnect = TRUE
    /\ socket_handler = NoHandler
    /\ server_pos = Cardinality(Servers) - 1
    /\ client_mutex = NoThread
    /\ auto_running = TRUE /\ app_stops = FALSE
    /\ tpc = [t \in Threads |-> CASE t = Runner      -> "wait"
                                  [] t = AutoConnect -> "scan"
                                  [] t = App         -> "idle"]
    /\ tfd = [t \in Threads |-> NoConn]
    /\ thandler = [t \in Threads |-> NoHandler]
    /\ socket_ = [h \in Handlers |-> NoConn]
    /\ in_use = {} /\ fd = {} /\ eof = {} /\ made = {}
    /\ failures = 0 /\ app_calls = 0
    /\ lost = {} /\ double_freed = {} /\ missed = {}

Goto(t, pc) == tpc' = [tpc EXCEPT ![t] = pc]
Fail == failures < MaxFail /\ failures' = failures + 1

Free(h) ==
    /\ in_use' = in_use \ {h}
    /\ double_freed' = double_freed \cup ({h} \ in_use)

(* Where a caller of connect returns to.                                   *)
Back(t) == IF t = App THEN "idle" ELSE "sleep"
Unlock(t) == client_mutex' = NoThread /\ Goto(t, Back(t))

-----------------------------------------------------------------------------
(* autoconnect_proc.                                                       *)

Scan ==
    /\ tpc[AutoConnect] = "scan"
    /\ Goto(AutoConnect, CASE ~auto_running                   -> "exited"
                           [] auto_running /\ is_autoconnect  -> "test"
                           [] auto_running /\ ~is_autoconnect -> "sleep")
    /\ UNCHANGED <<epollVars, flagVars, client_mutex, autoVars, tfd, thandler, sockVars,
                   in_use, failures, double_freed, ghostVars>>

(* get_connected is asked later than get_autoconnect, both unlocked.       *)
TestConnected ==
    /\ tpc[AutoConnect] = "test"
    /\ Goto(AutoConnect, IF is_connected THEN "sleep" ELSE "lock")
    /\ UNCHANGED <<epollVars, flagVars, client_mutex, autoVars, tfd, thandler, sockVars,
                   in_use, failures, double_freed, ghostVars>>

Sleep ==
    /\ tpc[AutoConnect] = "sleep"
    /\ Goto(AutoConnect, "scan")
    /\ UNCHANGED <<epollVars, flagVars, client_mutex, autoVars, tfd, thandler, sockVars,
                   in_use, failures, double_freed, ghostVars>>

-----------------------------------------------------------------------------
(* connect().                                                              *)

(* The lock, the test, and the choice of the next server.                  *)
BeginConnect(t) ==
    /\ tpc[t] = "lock" /\ client_mutex = NoThread
    /\ \/ /\ is_connected
          /\ Goto(t, Back(t))
          /\ UNCHANGED <<client_mutex, server_pos>>
       \/ /\ ~is_connected
          /\ client_mutex' = t
          /\ server_pos' = 1 + IF server_pos \in Servers THEN server_pos ELSE 0
          /\ Goto(t, "dial")
    /\ UNCHANGED <<epollVars, is_connected, is_autoconnect, socket_handler, autoVars, tfd,
                   thandler, sockVars, in_use, failures, double_freed, ghostVars>>

(* Mutated form of Dial: the position is set back to the first server.     *)
Dial_SameServer(t) ==
    /\ tpc[t] = "dial"
    /\ server_pos' = 0
    /\ \/ /\ server_pos - 1 \in Reachable /\ made # Conns
          /\ \E c \in Conns \ made :
                /\ \A d \in Conns \ made : c <= d
                /\ made' = made \cup {c} /\ fd' = fd \cup {c}
                /\ tfd' = [tfd EXCEPT ![t] = c]
          /\ Goto(t, "alloc")
          /\ UNCHANGED client_mutex
       \/ /\ server_pos - 1 \notin Reachable \/ made = Conns
          /\ Unlock(t)
          /\ UNCHANGED <<made, fd, tfd>>
    /\ UNCHANGED <<epollVars, is_connected, is_autoconnect, socket_handler, autoVars, thandler,
                   socket_, eof, in_use, failures, double_freed, ghostVars>>

(* The server accepts, or the attempt fails and the socket is closed.      *)
Dial(t) ==
    /\ tpc[t] = "dial"
    /\ \/ /\ server_pos - 1 \in Reachable /\ made # Conns
          /\ \E c \in Conns \ made :
                /\ \A d \in Conns \ made : c <= d
                /\ made' = made \cup {c} /\ fd' = fd \cup {c}
                /\ tfd' = [tfd EXCEPT ![t] = c]
          /\ Goto(t, "alloc")
          /\ UNCHANGED client_mutex
       \/ /\ server_pos - 1 \notin Reachable \/ made = Conns
          /\ Unlock(t)
          /\ UNCHANGED <<made, fd, tfd>>
    /\ UNCHANGED <<epollVars, flagVars, autoVars, thandler, socket_, eof, in_use, failures,
                   double_freed, ghostVars>>

(* alloc_handler and handle_open; a pool with no limit never returns NULL  *)
(* (bound: the handlers there are).                                        *)
HandleOpen(t) ==
    /\ tpc[t] = "alloc" /\ in_use # Handlers
    /\ LET h == CHOOSE h \in Handlers : h \notin in_use IN
          /\ thandler' = [thandler EXCEPT ![t] = h]
          /\ in_use' = in_use \cup {h}
          /\ socket_' = [socket_ EXCEPT ![h] = tfd[t]]
    /\ \/ Goto(t, "add") /\ UNCHANGED failures
       \/ Goto(t, "undo") /\ Fail
    /\ UNCHANGED <<epollVars, flagVars, client_mutex, autoVars, tfd, fd, eof, made,
                   double_freed, ghostVars>>

AddHandle(t) ==
    /\ tpc[t] = "add"
    /\ \/ /\ CtlAdd(thandler[t], tfd[t] \in eof)
          /\ Goto(t, "mask")
          /\ UNCHANGED failures
       \/ /\ Fail
          /\ Goto(t, "undo")
          /\ UNCHANGED epollVars
    /\ UNCHANGED <<flagVars, client_mutex, autoVars, tfd, thandler, sockVars, in_use,
                   double_freed, ghostVars>>

AddMask(t) ==
    /\ tpc[t] = "mask"
    /\ SetMask(thandler[t])
    /\ Goto(t, "publish")
    /\ UNCHANGED <<flagVars, client_mutex, autoVars, tfd, thandler, sockVars, in_use,
                   failures, double_freed, ghostVars>>

(* A failed handle_open or add_handle: the socket is closed, the handler   *)
(* freed.                                                                  *)
Undo(t) ==
    /\ tpc[t] = "undo"
    /\ fd' = fd \ {tfd[t]}
    /\ Free(thandler[t])
    /\ tfd' = [tfd EXCEPT ![t] = NoConn]
    /\ thandler' = [thandler EXCEPT ![t] = NoHandler]
    /\ Unlock(t)
    /\ UNCHANGED <<epollVars, flagVars, autoVars, socket_, eof, made, failures, ghostVars>>

(* is_connected_ and then socket_handler_ are set once the runner has the  *)
(* handler; a disconnect for it waits for the lock, a send does not.       *)
Publish(t) ==
    /\ tpc[t] = "publish"
    /\ is_connected' = TRUE
    /\ Goto(t, "assign")
    /\ UNCHANGED <<epollVars, is_autoconnect, socket_handler, server_pos, client_mutex,
                   autoVars, tfd, thandler, sockVars, in_use, failures, double_freed, ghostVars>>

AssignHandler(t) ==
    /\ tpc[t] = "assign"
    /\ socket_handler' = thandler[t]
    /\ tfd' = [tfd EXCEPT ![t] = NoConn]
    /\ thandler' = [thandler EXCEPT ![t] = NoHandler]
    /\ Unlock(t)
    /\ UNCHANGED <<epollVars, is_connected, is_autoconnect, server_pos, autoVars, sockVars, in_use,
                   failures, double_freed, ghostVars>>

ConnectStep(t) ==
    \/ BeginConnect(t) \/ Dial(t) \/ HandleOpen(t) \/ AddHandle(t) \/ AddMask(t)
    \/ Undo(t) \/ Publish(t) \/ AssignHandler(t)

-----------------------------------------------------------------------------
(* The application.                                                        *)

AppCalls ==
    /\ tpc[App] = "idle" /\ ~app_stops
    /\ app_calls < MaxCalls
    /\ app_calls' = app_calls + 1

(* connect(), or open() without automatic reconnection.                    *)
AppConnect ==
    /\ AppCalls
    /\ Goto(App, "lock")
    /\ UNCHANGED <<epollVars, flagVars, client_mutex, auto_running, app_stops,
                   tfd, thandler, sockVars, in_use, failures, double_freed, ghostVars>>

(* send(), unlocked, when there is a handler (without one it would use     *)
(* NULL): an error only clears is_connected_, so that the next connection  *)
(* is made while the runner still has the old handler.  Between Publish    *)
(* and AssignHandler it is the old handler's error that clears the flag of *)
(* the new connection, which is never current.                             *)
SendFails ==
    /\ AppCalls
    /\ is_connected /\ socket_handler # NoHandler
    /\ socket_[socket_handler] \in eof
    /\ is_connected' = FALSE
    /\ lost' = lost \cup {thandler[t] : t \in {u \in Callers : tpc[u] = "assign"}}
    /\ UNCHANGED <<epollVars, is_autoconnect, socket_handler, server_pos, client_mutex, auto_running,
                   app_stops, threadVars, sockVars, in_use, failures, double_freed, missed>>

(* close(): remove_handle deletes the handler from the runner, the socket  *)
(* is closed, and the handler stays with the application.                  *)
AppClose ==
    LET h == socket_handler IN
    /\ AppCalls
    /\ client_mutex = NoThread
    /\ is_autoconnect' = FALSE
    /\ is_connected' = FALSE
    /\ socket_handler' = NoHandler
    /\ IF h \in event_mask
       THEN CtlDel(h) /\ lost' = lost \cup {h}
       ELSE UNCHANGED <<epollVars, lost>>
    /\ IF h # NoHandler
       THEN fd' = fd \ {socket_[h]} /\ socket_' = [socket_ EXCEPT ![h] = NoConn]
       ELSE UNCHANGED <<fd, socket_>>
    /\ UNCHANGED <<server_pos, client_mutex, auto_running, app_stops, threadVars, eof, made, in_use,
                   failures, double_freed, missed>>

(* AutoConnect::close: stop and join.                                      *)
StopAutoConnect ==
    /\ AppCalls
    /\ auto_running' = FALSE
    /\ app_stops' = TRUE
    /\ UNCHANGED <<epollVars, flagVars, client_mutex, threadVars, sockVars, in_use,
                   failures, double_freed, ghostVars>>

(* The server closes a connection.                                         *)
ServerClose(c) ==
    /\ c \in made \ eof
    /\ eof' = eof \cup {c}
    /\ Edge({h \in Handlers : socket_[h] = c})
    /\ UNCHANGED <<interest, events, event_mask, flagVars, client_mutex, autoVars, threadVars,
                   socket_, fd, made, in_use, failures, double_freed, ghostVars>>

-----------------------------------------------------------------------------
(* The event loop.                                                         *)

Wait ==
    /\ tpc[Runner] = "wait"
    /\ EpollWait
    /\ Goto(Runner, "dispatch")
    /\ UNCHANGED <<flagVars, client_mutex, autoVars, tfd, thandler, sockVars, in_use,
                   failures, double_freed, ghostVars>>

(* handle_read of the next event fails: the stream is at its end, or the   *)
(* application closed the socket meanwhile.                                *)
Dispatch ==
    /\ tpc[Runner] = "dispatch"
    /\ \/ /\ events = {}
          /\ Goto(Runner, "wait")
          /\ UNCHANGED <<events, thandler>>
       \/ \E h \in events :
             /\ events' = events \ {h}
             /\ thandler' = [thandler EXCEPT ![Runner] = h]
             /\ Goto(Runner, "delete")
    /\ UNCHANGED <<interest, pending, event_mask, flagVars, client_mutex, autoVars, tfd,
                   sockVars, in_use, failures, double_freed, ghostVars>>

DelHandle ==
    LET h == thandler[Runner] IN
    /\ tpc[Runner] = "delete"
    /\ \/ /\ h \in event_mask
          /\ CtlDel(h)
          /\ Goto(Runner, "close")
          /\ UNCHANGED <<thandler, missed>>
       \/ /\ h \notin event_mask
          /\ missed' = missed \cup {socket_[h]}
          /\ thandler' = [thandler EXCEPT ![Runner] = NoHandler]
          /\ Goto(Runner, "dispatch")
          /\ UNCHANGED epollVars
    /\ UNCHANGED <<flagVars, client_mutex, autoVars, tfd, sockVars, in_use, failures,
                   double_freed, lost>>

HandleClose ==
    LET h == thandler[Runner] IN
    /\ tpc[Runner] = "close"
    /\ fd' = fd \ {socket_[h]}
    /\ socket_' = [socket_ EXCEPT ![h] = NoConn]
    /\ Goto(Runner, "disconnect")
    /\ UNCHANGED <<epollVars, flagVars, client_mutex, autoVars, tfd, thandler, eof, made,
                   in_use, failures, double_freed, ghostVars>>

(* Mutated form of Disconnect: whichever handler it is, the connection is  *)
(* taken for lost.                                                         *)
Disconnect_AnyHandler ==
    /\ tpc[Runner] = "disconnect" /\ client_mutex = NoThread
    /\ is_connected' = FALSE
    /\ socket_handler' = NoHandler
    /\ Goto(Runner, "free")
    /\ UNCHANGED <<epollVars, is_autoconnect, server_pos, client_mutex, autoVars, tfd, thandler,
                   sockVars, in_use, failures, double_freed, ghostVars>>

(* disconnect(h), under the lock: only the current handler's loss counts.  *)
Disconnect ==
    /\ tpc[Runner] = "disconnect" /\ client_mutex = NoThread
    /\ IF thandler[Runner] = socket_handler
       THEN is_connected' = FALSE /\ socket_handler' = NoHandler
       ELSE UNCHANGED <<is_connected, socket_handler>>
    /\ Goto(Runner, "free")
    /\ UNCHANGED <<epollVars, is_autoconnect, server_pos, client_mutex, autoVars, tfd, thandler,
                   sockVars, in_use, failures, double_freed, ghostVars>>

FreeHandler ==
    /\ tpc[Runner] = "free"
    /\ Free(thandler[Runner])
    /\ thandler' = [thandler EXCEPT ![Runner] = NoHandler]
    /\ Goto(Runner, "dispatch")
    /\ UNCHANGED <<epollVars, flagVars, client_mutex, autoVars, tfd, sockVars, failures,
                   ghostVars>>

-----------------------------------------------------------------------------
RunnerStep == Wait \/ Dispatch \/ DelHandle \/ HandleClose \/ Disconnect \/ FreeHandler
AutoStep   == Scan \/ TestConnected \/ Sleep \/ ConnectStep(AutoConnect)

Next ==
    \/ AutoStep \/ RunnerStep
    \/ ConnectStep(App) \/ AppConnect \/ SendFails \/ AppClose \/ StopAutoConnect
    \/ \E c \in Conns : ServerClose(c)

Spec == Init /\ [][Next]_clientVars

-----------------------------------------------------------------------------
(* connect, disconnect and close: an open socket is that of a handler in   *)
(* use, which a thread holds, the runner watches, or close() just took     *)
(* away; the client is connected without a handler only while connect()    *)
(* assigns it; a handler the runner watches is the current one, or its     *)
(* stream has ended, or a racing close or send made it not the current     *)
(* one; and no handler is freed twice or while anybody may still use it.   *)
OneOwner ==
    /\ double_freed = {}
    /\ interest \cup event_mask \cup {thandler[t] : t \in Threads} \cup {socket_handler}
          \subseteq in_use \cup {NoHandler}
    /\ \A c \in fd : \/ \E t \in Callers : tfd[t] = c
                     \/ \E h \in in_use : socket_[h] = c /\ (h \in interest \/ h = thandler[Runner])
    /\ is_connected /\ socket_handler = NoHandler => \E t \in Callers : tpc[t] = "assign"
    /\ \A h \in interest \cap event_mask : h = socket_handler
          \/ h \in {thandler[t] : t \in Callers} \cup lost \/ socket_[h] \in eof

-----------------------------------------------------------------------------
(* An inductive invariant, of which OneOwner is a consequence.             *)

Opening == {"add", "mask", "publish", "assign", "undo"}
Locked  == {"dial", "alloc"} \cup Opening
Taken   == {"delete", "close", "disconnect", "free"}

TypeOK ==
    /\ is_connected \in BOOLEAN
    /\ socket_handler \in in_use \cup {NoHandler}
    /\ client_mutex \in Callers \cup {NoThread}
    /\ tpc \in [Threads -> {"wait", "dispatch", "scan", "test", "sleep", "lock", "idle", "exited"}
                             \cup Locked \cup Taken]
    /\ tfd \in [Threads -> Conns \cup {NoConn}]
    /\ thandler \in [Threads -> in_use \cup {NoHandler}]
    /\ socket_ \in [Handlers -> Conns \cup {NoConn}]
    /\ in_use \subseteq Handlers
    /\ fd \subseteq Conns
    /\ double_freed = {}

(* The lock's owner is the caller inside connect, which has a handler and  *)
(* a socket exactly where it works on them; so does the runner.            *)
PlacesAgree ==
    /\ \A t \in Callers :
          /\ client_mutex = t <=> tpc[t] \in Locked
          /\ tpc[t] \notin {"wait", "dispatch"} \cup Taken
          /\ thandler[t] = NoHandler <=> tpc[t] \notin Opening
          /\ tfd[t] = NoConn <=> tpc[t] \notin {"alloc"} \cup Opening
    /\ tpc[Runner] \in {"wait", "dispatch"} \cup Taken
    /\ thandler[Runner] = NoHandler <=> tpc[Runner] \notin Taken

(* Only between epoll_ctl and event_mask_ = is a watched handler without a *)
(* mask.  An event is for a handler that is watched or that close() took   *)
(* away, and then it has no socket.                                        *)
WatchAgrees ==
    /\ event_mask \cup pending \subseteq interest
    /\ interest \cup events \subseteq in_use
    /\ \A h \in interest \ event_mask : \E t \in Callers : tpc[t] = "mask" /\ thandler[t] = h
    /\ \A h \in events : h \in interest \/ socket_[h] = NoConn

(* The handler connect() works on is the runner's from epoll_ctl on, and   *)
(* the runner frees it only when connect() is over.                        *)
HandsAgree ==
    /\ \A t \in Callers : tpc[t] \in Opening =>
          LET h == thandler[t] IN
          /\ h # socket_handler
          /\ tpc[t] \in {"add", "undo"} => h \notin interest \cup events \cup {thandler[Runner]}
          /\ tpc[t] = "mask" => h \in interest \ event_mask
          /\ tpc[t] \in {"add", "mask"} => socket_[h] = tfd[t]
          /\ tpc[t] \in {"publish", "assign"} /\ tfd[t] \in fd =>
                socket_[h] = tfd[t] /\ (h \in interest \/ h = thandler[Runner])
    /\ LET h == thandler[Runner] IN
          /\ tpc[Runner] \in Taken => h \notin events
          /\ tpc[Runner] = "delete" => h \in interest \/ socket_[h] = NoConn
          /\ tpc[Runner] \in {"close", "disconnect", "free"} => h \notin interest
          /\ tpc[Runner] \in {"disconnect", "free"} => socket_[h] = NoConn
          /\ tpc[Runner] = "free" => h # socket_handler /\ \A t \in Callers : thandler[t] # h

(* An open socket is a caller's or its handler's; a current handler that   *)
(* connect() may replace has lost its connection already.                  *)
CurrentAgrees ==
    /\ \A c \in fd : \/ \E t \in Callers : tfd[t] = c
                     \/ \E h \in in_use : socket_[h] = c /\ (h \in interest \/ h = thandler[Runner])
    /\ is_connected /\ socket_handler = NoHandler => \E t \in Callers : tpc[t] = "assign"
    /\ socket_handler # NoHandler /\ (~is_connected \/ client_mutex # NoThread) =>
          \/ socket_handler \notin event_mask
          \/ socket_handler \in lost
          \/ socket_[socket_handler] \in eof
    /\ \A t \in Callers : tpc[t] = "assign" /\ ~is_connected => thandler[t] \in lost
    /\ \A h \in event_mask : h = socket_handler
          \/ h \in {thandler[t] : t \in Callers} \cup lost \/ socket_[h] \in eof

IInv == TypeOK /\ PlacesAgree /\ WatchAgrees /\ HandsAgree /\ CurrentAgrees

(* autoconnect_proc, connect and del_handle: however often the connection  *)
(* is lost, in the end the client has one to a server that accepts, while  *)
(* some server does and the bound on connections allows it, unless the end *)
(* of one was reported before event_mask_ was assigned; and the thread     *)
(* ends once it was stopped.                                               *)
HasConnection ==
    /\ auto_running /\ is_autoconnect /\ made # Conns =>
          /\ is_connected
          /\ socket_handler # NoHandler
          /\ \/ socket_[socket_handler] \in fd \ eof
             \/ missed # {}
    /\ app_stops => tpc[AutoConnect] = "exited"

Reconnected == <>[]HasConnection
=============================================================================
