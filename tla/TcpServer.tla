----------------------------- MODULE TcpServer -----------------------------
(***************************************************************************)
(* SL_Socket_TcpServer: connections are accepted either by threads of its  *)
(* own (Acceptors) or by the event loop (Acceptors = {}), given a handler  *)
(* of an SL_ObjectPool_SimpleEx and added to the epoll runner, which reads *)
(* and, once reading fails, deletes, closes and frees the handler.  The    *)
(* client handler is one whose handle_close closes its socket and returns  *)
(* 0; SendControl models the other kind.                                   *)
(*                                                                         *)
(* Line numbers refer to include/SL_Socket_TcpServer.h, for handle_read    *)
(* and handle_accept to include/SL_Socket_TcpServer_Handler.h.             *)
(***************************************************************************)
EXTENDS EpollRunner, SequencesExt

CONSTANTS Acceptors,    \* the accept_proc threads
          Runner,       \* the thread in event_loop
          Listener,     \* server_handler_, which is in no pool
          ChunkSize,    \* per_chunk_size_: objects of the pool come in chunks
          ObjectOrder,  \* the pool's objects in the order they are created
          Conns,        \* connections clients make
          NoConn, NoHandler,
          MaxFail       \* bound: failures of handle_open and epoll_ctl

Threads == Acceptors \cup {Runner}

ServerAssumption ==
    /\ Runner \notin Acceptors
    /\ NoConn \notin Conns
    /\ Listener \notin Handlers /\ NoHandler \notin Handlers
    /\ ChunkSize \in Nat \ {0}
    /\ ObjectOrder \in Seq(Handlers) /\ IsInjective(ObjectOrder)

VARIABLES
    listening,      \* the listening socket is open
    running,        \* accept_thread_group_.get_running()
    backlog,        \* connections the kernel completed, in order
    made,           \* connections that were made (or refused)
    fd,             \* connections whose accepted socket is open
    eof,            \* connections the client closed
    socket_,        \* handler -> its connection
    free_objects,   \* free_objects_ of the pool, as a stack
    created,        \* how many objects the pool has created
    tpc,            \* where each thread is
    tfd, thandler,  \* its local fd and handler
    failures,       \* how often handle_open or epoll_ctl failed
    missed          \* history: connections whose end was reported before event_mask_

poolVars   == <<free_objects, created>>
kernelVars == <<listening, backlog, made, eof>>
localVars  == <<tfd, thandler>>
serverVars == <<epollVars, poolVars, kernelVars, localVars, running, fd, socket_,
                tpc, failures, missed>>

(* After open(): the accept threads are started, or the runner has the     *)
(* listening handler.                                                      *)
Init ==
    /\ interest = IF Acceptors = {} THEN {Listener} ELSE {}
    /\ event_mask = interest
    /\ pending = {} /\ events = {}
    /\ listening = TRUE /\ running = TRUE
    /\ backlog = << >> /\ made = {} /\ eof = {} /\ fd = {}
    /\ socket_ = [h \in Handlers |-> NoConn]
    /\ free_objects = << >> /\ created = 0
    /\ tpc = [t \in Threads |-> IF t = Runner THEN "wait" ELSE "loop"]
    /\ tfd = [t \in Threads |-> NoConn]
    /\ thandler = [t \in Threads |-> NoHandler]
    /\ failures = 0
    /\ missed = {}

Goto(t, pc) == tpc' = [tpc EXCEPT ![t] = pc]
Fail == failures < MaxFail /\ failures' = failures + 1

(* Mutated form of NextAccept: one connection for each event.              *)
NextAccept_Once(t) == Goto(t, IF t = Runner THEN "dispatch" ELSE "loop")

(* The next connection: accept_proc tests get_running, handle_read goes on *)
(* until accept finds nothing.                                             *)
NextAccept(t) == Goto(t, IF t = Runner THEN "accept" ELSE "loop")

-----------------------------------------------------------------------------
(* The clients.  A thread blocked in accept keeps the socket alive.        *)

Blocked == \E t \in Acceptors : tpc[t] = "blocked"

Connect(c) ==
    /\ c \notin made
    /\ made' = made \cup {c}
    /\ IF listening \/ Blocked
       THEN backlog' = Append(backlog, c) /\ Edge({Listener})
       ELSE UNCHANGED <<backlog, pending>>
    /\ UNCHANGED <<interest, events, event_mask, poolVars, localVars, listening, running,
                   eof, fd, socket_, tpc, failures, missed>>

ClientClose(c) ==
    /\ c \in made \ eof
    /\ eof' = eof \cup {c}
    /\ Edge({h \in Handlers : socket_[h] = c})
    /\ UNCHANGED <<interest, events, event_mask, poolVars, localVars, listening, running,
                   backlog, made, fd, socket_, tpc, failures, missed>>

-----------------------------------------------------------------------------
(* Accepting.                                                              *)

Loop(t) ==
    /\ t \in Acceptors /\ tpc[t] = "loop"
    /\ Goto(t, IF running THEN "accept" ELSE "exited")
    /\ UNCHANGED <<epollVars, poolVars, kernelVars, localVars, running, fd, socket_,
                   failures, missed>>

Accept(t) ==
    /\ tpc[t] \in {"accept", "blocked"}
    /\ backlog # << >>
    /\ backlog' = Tail(backlog)
    /\ fd' = fd \cup {Head(backlog)}
    /\ tfd' = [tfd EXCEPT ![t] = Head(backlog)]
    /\ Goto(t, "alloc")
    /\ UNCHANGED <<epollVars, poolVars, listening, made, eof, thandler, running, socket_,
                   failures, missed>>

(* Nothing to accept: the event loop goes on with its next event, an       *)
(* accept thread blocks, or leaves when the socket is already closed.      *)
AcceptNothing(t) ==
    /\ tpc[t] = "accept" /\ backlog = << >>
    /\ Goto(t, CASE t = Runner -> "dispatch"
                 [] t # Runner /\ listening -> "blocked"
                 [] OTHER -> "exited")
    /\ UNCHANGED <<epollVars, poolVars, kernelVars, localVars, running, fd, socket_,
                   failures, missed>>

(* alloc_object of the pool, under its mutex: a free object, or a new      *)
(* chunk, or NULL, which makes the caller close the socket.                *)
Alloc(t) ==
    LET chunk == [i \in 1 .. ChunkSize |-> ObjectOrder[created + i]]
        objects == IF free_objects = << >> /\ created + ChunkSize <= Len(ObjectOrder)
                   THEN chunk ELSE free_objects
    IN
    /\ tpc[t] = "alloc"
    /\ created' = IF objects = free_objects THEN created ELSE created + ChunkSize
    /\ IF objects = << >>
       THEN Goto(t, "close_fd") /\ UNCHANGED <<free_objects, thandler>>
       ELSE /\ free_objects' = Front(objects)
            /\ thandler' = [thandler EXCEPT ![t] = Last(objects)]
            /\ Goto(t, "open")
    /\ UNCHANGED <<epollVars, kernelVars, tfd, running, fd, socket_, failures, missed>>

(* handle_open assigns socket_ and may fail in the client's own part.      *)
HandleOpen(t) ==
    /\ tpc[t] = "open"
    /\ socket_' = [socket_ EXCEPT ![thandler[t]] = tfd[t]]
    /\ \/ Goto(t, "add") /\ UNCHANGED failures
       \/ Goto(t, "undo") /\ Fail
    /\ UNCHANGED <<epollVars, poolVars, kernelVars, localVars, running, fd, missed>>

AddHandle(t) ==
    /\ tpc[t] = "add"
    /\ \/ /\ CtlAdd(thandler[t], tfd[t] \in eof)
          /\ Goto(t, "mask")
          /\ UNCHANGED failures
       \/ /\ Fail
          /\ Goto(t, "undo")
          /\ UNCHANGED epollVars
    /\ UNCHANGED <<poolVars, kernelVars, localVars, running, fd, socket_, missed>>

(* The handler now is the runner's; the locals are dead.                   *)
AddMask(t) ==
    /\ tpc[t] = "mask"
    /\ SetMask(thandler[t])
    /\ tfd' = [tfd EXCEPT ![t] = NoConn]
    /\ thandler' = [thandler EXCEPT ![t] = NoHandler]
    /\ NextAccept(t)
    /\ UNCHANGED <<poolVars, kernelVars, running, fd, socket_, failures, missed>>

FreeObject(h) == free_objects' = Append(free_objects, h)

(* Mutated form of Undo: the object goes back without the socket being     *)
(* closed by whoever accepted it.                                          *)
Undo_KeepsSocket(t) ==
    /\ tpc[t] = "undo"
    /\ FreeObject(thandler[t])
    /\ thandler' = [thandler EXCEPT ![t] = NoHandler]
    /\ tfd' = [tfd EXCEPT ![t] = NoConn]
    /\ NextAccept(t)
    /\ UNCHANGED <<epollVars, created, kernelVars, running, fd, socket_, failures, missed>>

(* Undoing an open or an add that failed: handle_read closes the handler   *)
(* first, handle_accept frees it and lets accept_proc close the socket.    *)
Undo(t) ==
    /\ tpc[t] = "undo"
    /\ FreeObject(thandler[t])
    /\ socket_' = IF t = Runner THEN [socket_ EXCEPT ![thandler[t]] = NoConn] ELSE socket_
    /\ thandler' = [thandler EXCEPT ![t] = NoHandler]
    /\ Goto(t, "close_fd")
    /\ UNCHANGED <<epollVars, created, kernelVars, tfd, running, fd, failures, missed>>

CloseFd(t) ==
    /\ tpc[t] = "close_fd"
    /\ fd' = fd \ {tfd[t]}
    /\ tfd' = [tfd EXCEPT ![t] = NoConn]
    /\ NextAccept(t)
    /\ UNCHANGED <<epollVars, poolVars, kernelVars, thandler, running, socket_, failures, missed>>

-----------------------------------------------------------------------------
(* The event loop.                                                         *)

Wait ==
    /\ tpc[Runner] = "wait"
    /\ EpollWait
    /\ Goto(Runner, "dispatch")
    /\ UNCHANGED <<poolVars, kernelVars, localVars, running, fd, socket_, failures, missed>>

Dispatch ==
    /\ tpc[Runner] = "dispatch"
    /\ \/ events = {} /\ Goto(Runner, "wait") /\ UNCHANGED <<events, thandler>>
       \/ \E h \in events :
             /\ events' = events \ {h}
             /\ IF h = Listener
                THEN Goto(Runner, "accept") /\ UNCHANGED thandler
                ELSE Goto(Runner, "read") /\ thandler' = [thandler EXCEPT ![Runner] = h]
    /\ UNCHANGED <<interest, pending, event_mask, poolVars, kernelVars, tfd, running, fd,
                   socket_, failures, missed>>

(* handle_read fails at the end of the stream, or on a bad message.        *)
HandleRead ==
    /\ tpc[Runner] = "read"
    /\ \/ /\ socket_[thandler[Runner]] \notin eof
          /\ Goto(Runner, "dispatch")
          /\ thandler' = [thandler EXCEPT ![Runner] = NoHandler]
       \/ Goto(Runner, "delete") /\ UNCHANGED thandler
    /\ UNCHANGED <<epollVars, poolVars, kernelVars, tfd, running, fd, socket_, failures, missed>>

(* del_handle does nothing when event_mask_ was not assigned yet, and the  *)
(* edge is not reported again.                                             *)
DelHandle ==
    LET h == thandler[Runner] IN
    /\ tpc[Runner] = "delete"
    /\ \/ /\ h \in event_mask
          /\ CtlDel(h)
          /\ Goto(Runner, "close")
          /\ UNCHANGED <<thandler, missed>>
       \/ /\ h \notin event_mask
          /\ missed' = missed \cup {socket_[h]}
          /\ thandler' = [thandler EXCEPT ![Runner] = NoHandler]
          /\ Goto(Runner, "dispatch")
          /\ UNCHANGED epollVars
    /\ UNCHANGED <<poolVars, kernelVars, tfd, running, fd, socket_, failures>>

HandleClose ==
    LET h == thandler[Runner] IN
    /\ tpc[Runner] = "close"
    /\ fd' = fd \ {socket_[h]}
    /\ socket_' = [socket_ EXCEPT ![h] = NoConn]
    /\ Goto(Runner, "free")
    /\ UNCHANGED <<epollVars, poolVars, kernelVars, localVars, running, failures, missed>>

FreeHandler ==
    /\ tpc[Runner] = "free"
    /\ FreeObject(thandler[Runner])
    /\ thandler' = [thandler EXCEPT ![Runner] = NoHandler]
    /\ Goto(Runner, "dispatch")
    /\ UNCHANGED <<epollVars, created, kernelVars, tfd, running, fd, socket_, failures, missed>>

-----------------------------------------------------------------------------
(* close(): the accept threads are told to stop, and not joined.  Closing  *)
(* the socket resets what is in its backlog.                               *)
Close ==
    /\ listening
    /\ listening' = FALSE
    /\ running' = FALSE
    /\ backlog' = << >>
    /\ interest' = interest \ {Listener}
    /\ pending' = pending \ {Listener}
    /\ UNCHANGED <<events, event_mask, poolVars, localVars, made, eof, fd, socket_, tpc,
                   failures, missed>>

-----------------------------------------------------------------------------
ThreadStep(t) ==
    \/ Loop(t) \/ Accept(t) \/ AcceptNothing(t) \/ Alloc(t) \/ HandleOpen(t)
    \/ AddHandle(t) \/ AddMask(t) \/ Undo(t) \/ CloseFd(t)

RunnerStep == Wait \/ Dispatch \/ HandleRead \/ DelHandle \/ HandleClose \/ FreeHandler

Next ==
    \/ \E c \in Conns : Connect(c) \/ ClientClose(c)
    \/ \E t \in Threads : ThreadStep(t)
    \/ RunnerStep
    \/ Close

Spec == Init /\ [][Next]_serverVars

-----------------------------------------------------------------------------
InHand(t) == IF thandler[t] = NoHandler THEN {} ELSE {thandler[t]}

(* handle_accept, handle_read, del_handle and the pool: an object is free, *)
(* in a thread's hands or in the runner, once; a free one has no event     *)
(* mask left, which would let a stale event delete its next owner; and an  *)
(* open socket belongs to exactly one of a thread and a handler in the     *)
(* runner, none of them to a closed one.                                   *)
Accounted ==
    /\ \A h \in Range(free_objects) :
          /\ Cardinality({i \in 1 .. Len(free_objects) : free_objects[i] = h}) = 1
          /\ h \notin interest \cup event_mask
          /\ \A t \in Threads : thandler[t] # h
    /\ \A h \in Range(SubSeq(ObjectOrder, 1, created)) :
          h \in Range(free_objects) \cup interest \cup UNION {InHand(t) : t \in Threads}
    /\ \A c \in Conns :
          Cardinality({t \in Threads : tfd[t] = c /\ tpc[t] # "mask"}
              \cup {h \in interest \ {Listener} : socket_[h] = c}
              \cup {h \in InHand(Runner) : socket_[h] = c /\ tpc[Runner] = "close"})
          = IF c \in fd THEN 1 ELSE 0

-----------------------------------------------------------------------------
(* An inductive invariant, of which Accounted is a consequence.            *)

Opening   == {"open", "add", "mask", "undo"}
Accepting == {"alloc", "close_fd"} \cup Opening
Reading   == {"read", "delete", "close", "free"}

TypeOK ==
    /\ tpc \in [Threads -> {"loop", "accept", "blocked", "exited", "wait", "dispatch"}
                             \cup Accepting \cup Reading]
    /\ thandler \in [Threads -> Handlers \cup {NoHandler}]
    /\ tfd \in [Threads -> Conns \cup {NoConn}]
    /\ socket_ \in [Handlers -> Conns \cup {NoConn}]
    /\ free_objects \in Seq(Handlers)
    /\ created \in 0 .. Len(ObjectOrder)
    /\ backlog \in Seq(Conns)
    /\ made \subseteq Conns

(* A thread has a handler and a socket exactly where it works on them.     *)
PlacesAgree ==
    /\ \A t \in Acceptors : tpc[t] \notin {"wait", "dispatch"} \cup Reading
    /\ \A t \in Threads : thandler[t] = NoHandler <=> tpc[t] \notin Opening \cup Reading
    /\ \A t \in Threads : tfd[t] = NoConn <=> tpc[t] \notin Accepting

(* The objects that exist are free, in the epoll set, or in the hands of a *)
(* thread, and nothing else is; a free one is free once and nowhere else.  *)
Created == {ObjectOrder[i] : i \in 1 .. created}
Free    == Range(free_objects)
Held    == {thandler[t] : t \in Threads} \ {NoHandler}
Watched == interest \ {Listener}

PoolAgrees ==
    /\ Created = Free \cup Watched \cup Held
    /\ IsInjective(free_objects)
    /\ Free \cap (Watched \cup Held) = {}
    /\ pending \subseteq interest
    /\ (events \cup event_mask) \ {Listener} \subseteq Watched

(* Two threads have the same object only between epoll_ctl and the         *)
(* assignment of event_mask_, when the runner may already read it; the     *)
(* missing mask keeps it from deleting it.                                 *)
HandsAgree ==
    /\ \A t, u \in Threads :
          t # u /\ {tpc[t], tpc[u]} \subseteq Opening => thandler[t] # thandler[u]
    /\ \A t \in Threads :
          /\ tpc[t] \in {"open", "add", "undo"} => thandler[t] \notin Watched
          /\ tpc[t] = "mask" => thandler[t] \in Watched \ event_mask
    /\ tpc[Runner] \in {"read", "delete"} => thandler[Runner] \in Watched \ events
    /\ tpc[Runner] \in {"close", "free"} =>
          /\ thandler[Runner] \notin Watched
          /\ \A t \in Acceptors : thandler[t] # thandler[Runner]

(* An accepted socket is a thread's until the epoll set has its handler,   *)
(* then the handler's until handle_close; handle_open has told the handler *)
(* which socket it is.                                                     *)
InRunner == Watched \cup {h \in InHand(Runner) : tpc[Runner] = "close"}
Has(t)   == tpc[t] \in Accepting \ {"mask"}

SocketsAgree ==
    /\ \A t, u \in Threads : t # u /\ tfd[t] # NoConn => tfd[t] # tfd[u]
    /\ \A t \in Threads : tpc[t] \in {"add", "mask"} => socket_[thandler[t]] = tfd[t]
    /\ \A h, g \in InRunner : socket_[h] = socket_[g] => h = g
    /\ \A t \in Threads : Has(t) => \A h \in InRunner : socket_[h] # tfd[t]
    /\ \A h \in InRunner : socket_[h] # NoConn
    /\ fd \subseteq Conns
    /\ \A c \in Conns : c \in fd <=> \/ \E t \in Threads : Has(t) /\ tfd[t] = c
                                    \/ \E h \in InRunner : socket_[h] = c

(* A connection is accepted once.                                          *)
BacklogAgrees ==
    /\ IsInjective(backlog)
    /\ Range(backlog) \cap fd = {}
    /\ Range(backlog) \cup fd \subseteq made

IInv == TypeOK /\ PlacesAgree /\ PoolAgrees /\ HandsAgree /\ SocketsAgree /\ BacklogAgrees

-----------------------------------------------------------------------------
(* accept_proc, handle_read and event_loop: every connection is accepted   *)
(* while the server is open, and one its client closed is closed here too, *)
(* unless its end was reported before event_mask_ was assigned.            *)
Served ==
    /\ listening => backlog = << >>
    /\ fd \cap eof \subseteq missed
    /\ \A h \in interest \ {Listener} : socket_[h] \in eof => socket_[h] \in missed

ServedInTheEnd == <>[]Served
=============================================================================
