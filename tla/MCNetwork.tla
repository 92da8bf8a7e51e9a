----------------------------- MODULE MCNetwork ------------------------------
(***************************************************************************)
(* The sources and runners in one run: TcpServer with accept threads and   *)
(* with accepting in the event loop, TcpClient with automatic              *)
(* reconnection, and SelectRunner.  They share no state here, so a         *)
(* behaviour is one of one part: Init chooses it and the others stay in    *)
(* their initial states.                                                   *)
(***************************************************************************)
EXTENDS TcpClient, Integers

CONSTANTS Parts,                            \* the parts to check
          Acceptors, Listener, MaxClients,  \* TcpServer
          Sockets, MaxSize, MaxAdds         \* SelectRunner

VARIABLES part,
    s_interest, s_pending, s_events, s_event_mask,
    listening, running, backlog, s_made, s_fd, s_eof, s_socket, free_objects, created,
    s_tpc, s_tfd, s_thandler, s_failures, s_missed,
    socket_handlers, runner_pos, r_event_mask, fd_in, fd_out, standby, active, max_handle,
    lpc, ret, iter, ready, adds, added, removed, freed, skipped

serverVars ==
    <<s_interest, s_pending, s_events, s_event_mask, listening, running, backlog, s_made,
      s_fd, s_eof, s_socket, free_objects, created, s_tpc, s_tfd, s_thandler, s_failures,
      s_missed>>
selectVars ==
    <<socket_handlers, runner_pos, r_event_mask, fd_in, fd_out, standby, active, max_handle,
      lpc, ret, iter, ready, adds, added, removed, freed, skipped>>
allVars == <<part, clientVars, serverVars, selectVars>>

Objects == <<"o1", "o2">>

Threaded == INSTANCE TcpServer WITH
    Handlers <- {Objects[i] : i \in 1 .. 2}, ObjectOrder <- Objects, ChunkSize <- 1,
    Conns <- 1 .. MaxClients - 1,
    interest <- s_interest, pending <- s_pending, events <- s_events,
    event_mask <- s_event_mask, made <- s_made, fd <- s_fd, eof <- s_eof,
    socket_ <- s_socket, tpc <- s_tpc, tfd <- s_tfd, thandler <- s_thandler,
    failures <- s_failures, missed <- s_missed

Looped == INSTANCE TcpServer WITH
    Acceptors <- {},
    Handlers <- {Objects[i] : i \in 1 .. 2}, ObjectOrder <- Objects, ChunkSize <- 2,
    Conns <- 1 .. MaxClients,
    interest <- s_interest, pending <- s_pending, events <- s_events,
    event_mask <- s_event_mask, made <- s_made, fd <- s_fd, eof <- s_eof,
    socket_ <- s_socket, tpc <- s_tpc, tfd <- s_tfd, thandler <- s_thandler,
    failures <- s_failures, missed <- s_missed

Select == INSTANCE SelectRunner WITH event_mask <- r_event_mask

ASSUME NetworkAssumption ==
    /\ ClientAssumption /\ Select!SelectAssumption
    /\ Threaded!ServerAssumption /\ Looped!ServerAssumption

MCInit ==
    /\ part \in Parts
    /\ Init /\ Select!Init
    /\ IF part = "looped" THEN Looped!Init ELSE Threaded!Init

MCNext ==
    /\ UNCHANGED part
    /\ \/ part = "client" /\ Next /\ UNCHANGED <<serverVars, selectVars>>
       \/ part = "threaded" /\ Threaded!Next /\ UNCHANGED <<clientVars, selectVars>>
       \/ part = "looped" /\ Looped!Next /\ UNCHANGED <<clientVars, selectVars>>
       \/ part = "select" /\ Select!Next /\ UNCHANGED <<clientVars, serverVars>>

(* The library's threads run, a connect the application called goes on;    *)
(* nobody has to connect, call or close.                                   *)
MCFairness ==
    /\ WF_clientVars(part = "client" /\ AutoStep)
    /\ WF_clientVars(part = "client" /\ RunnerStep)
    /\ WF_clientVars(part = "client" /\ ConnectStep(App))
    /\ \A a \in Acceptors : WF_serverVars(part = "threaded" /\ Threaded!ThreadStep(a))
    /\ WF_serverVars(part = "threaded" /\ Threaded!RunnerStep)
    /\ WF_serverVars(part = "looped" /\ Looped!ThreadStep(Runner))
    /\ WF_serverVars(part = "looped" /\ Looped!RunnerStep)
    /\ WF_selectVars(part = "select" /\ Select!LoopStep)

MCSpec == MCInit /\ [][MCNext]_allVars /\ MCFairness

-----------------------------------------------------------------------------
(* TcpClient: a lost connection is replaced, and a stopped reconnecting    *)
(* thread ends.                                                            *)
Reconnects == <>[](part = "client" => HasConnection)

(* Each handler and each socket has exactly one owner at any time: those   *)
(* of the client, and the server's, with accept threads and without.       *)
OwnedOnce ==
    /\ OneOwner
    /\ IF part = "looped" THEN Looped!Accounted ELSE Threaded!Accounted

(* TcpServer: connections are accepted while it is open, and closed once   *)
(* their clients closed them; what was deleted from a select runner is     *)
(* closed and freed.                                                       *)
ServedInTheEnd ==
    /\ <>[](IF part = "looped" THEN Looped!Served ELSE Threaded!Served)
    /\ <>[](Select!Deleted)

(* SL_Socket_Select_Runner: positions, marks and sets agree.               *)
TableTrue == Select!TableTrue
=============================================================================
