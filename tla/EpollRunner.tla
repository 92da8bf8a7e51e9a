---------------------------- MODULE EpollRunner ----------------------------
(***************************************************************************)
(* SL_Socket_Epoll_Runner as a source and its threads use it: the kernel's *)
(* interest list, the edges epoll_wait has not reported yet, the batch the *)
(* event loop works on, and event_mask_, which other threads assign after  *)
(* epoll_ctl has added the handler.  TcpServer and TcpClient extend it.    *)
(* Line numbers refer to include/SL_Socket_Epoll_Runner.h.                 *)
(***************************************************************************)
EXTENDS Naturals, Sequences, FiniteSets

CONSTANTS Handlers,     \* the SL_Socket_Handler objects
          MaxEvents     \* max_events_

VARIABLES interest,     \* the handlers whose socket is in the epoll set
          pending,      \* those with an edge that was not reported yet
          events,       \* events_: reported and not yet dispatched
          event_mask    \* the handlers whose event_mask_ is not NULL_EVENT_MASK

epollVars == <<interest, pending, events, event_mask>>

EpollInit == interest = {} /\ pending = {} /\ events = {} /\ event_mask = {}

(* add_handle, first half: EPOLL_CTL_ADD reports what is already there.    *)
CtlAdd(h, readable) ==
    /\ interest' = interest \cup {h}
    /\ pending' = IF readable THEN pending \cup {h} ELSE pending
    /\ UNCHANGED <<events, event_mask>>

(* add_handle, second half: event_mask_ is assigned.                       *)
SetMask(h) ==
    /\ event_mask' = event_mask \cup {h}
    /\ UNCHANGED <<interest, pending, events>>

(* EPOLL_CTL_DEL and event_mask_ = NULL_EVENT_MASK, in del_handle and in   *)
(* remove_handle; the test of the mask is the caller's guard.              *)
CtlDel(h) ==
    /\ interest' = interest \ {h}
    /\ pending' = pending \ {h}
    /\ event_mask' = event_mask \ {h}
    /\ UNCHANGED events

(* The kernel notices something new on a handler's socket.                 *)
Edge(hs) == pending' = pending \cup (hs \cap interest)

(* epoll_wait: at most max_events_ of the edges, each reported once.       *)
EpollWait ==
    /\ events = {} /\ pending # {}
    /\ \E batch \in SUBSET pending :
          /\ Cardinality(batch) = IF Cardinality(pending) < MaxEvents
                                  THEN Cardinality(pending) ELSE MaxEvents
          /\ events' = batch
          /\ pending' = pending \ batch
    /\ UNCHANGED <<interest, event_mask>>
=============================================================================
