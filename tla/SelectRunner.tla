---------------------------- MODULE SelectRunner ----------------------------
(***************************************************************************)
(* SL_Socket_Select_Runner: other threads (and handle_read itself) only    *)
(* mark a handler and note the wish in the standby map; the event loop     *)
(* swaps the maps, applies what was noted to socket_handlers_, selects,    *)
(* and reads the handlers that are ready.  Built, as SL_Config.h has it,   *)
(* with SOCKETLITE_RUNNER_EVENTMASK_ONLYREAD.                              *)
(* Line numbers refer to include/SL_Socket_Select_Runner.h.                *)
(***************************************************************************)
EXTENDS Integers, Sequences, FiniteSets

CONSTANTS Sockets,      \* the handlers, each known by its socket number
          MaxSize,      \* max_size_
          MaxAdds       \* bound: calls of add_handle

SelectAssumption == Sockets \subseteq Nat

VARIABLES
    socket_handlers,    \* socket_handlers_
    runner_pos,         \* runner_pos_ of each handler, -1 outside
    event_mask,         \* the handlers whose event_mask_ is READ_EVENT_MASK
    fd_in, fd_out,      \* fd_set_in_.read, fd_set_out_.read
    standby, active,    \* temp_handlers_standby_, temp_handlers_active_: handler -> wish
    max_handle,         \* max_handle_
    lpc,                \* where event_loop is
    ret, iter,          \* its locals
    ready,              \* sockets at the end of their stream
    adds,               \* how often add_handle was called
    added,              \* handlers add_handle accepted
    removed,            \* handlers taken out with remove_handle
    freed,              \* handlers closed and freed
    skipped             \* history: handlers deleted before the loop had added them

loopVars   == <<lpc, ret, iter>>
tableVars  == <<socket_handlers, runner_pos, max_handle>>
wishVars   == <<event_mask, fd_in, standby>>
selectVars == <<loopVars, tableVars, wishVars, fd_out, active, ready, adds, added, removed, freed,
                skipped>>

Nothing == [h \in {} |-> "add"]
Wish(map, h, w) == [g \in DOMAIN map \cup {h} |-> IF g = h THEN w ELSE map[g]]

Init ==
    /\ socket_handlers = << >>
    /\ runner_pos = [h \in Sockets |-> -1]
    /\ event_mask = {} /\ fd_in = {} /\ fd_out = {}
    /\ standby = Nothing /\ active = Nothing
    /\ max_handle = 0
    /\ lpc = "top" /\ ret = 0 /\ iter = 0
    /\ ready = {} /\ adds = 0 /\ added = {} /\ removed = {} /\ freed = {} /\ skipped = {}

-----------------------------------------------------------------------------
(* Calls of other threads, each under mutex_.                              *)

(* add_handle: refused when the table and the wishes fill max_size_; the   *)
(* difference is unsigned.                                                 *)
AddHandle(h) ==
    LET wishes == Cardinality(DOMAIN standby) IN
    /\ h \notin added \/ h \in freed
    /\ adds < MaxAdds /\ adds' = adds + 1
    /\ IF wishes <= MaxSize /\ Len(socket_handlers) >= MaxSize - wishes
       THEN UNCHANGED <<wishVars, added, ready, freed>>
       ELSE /\ fd_in' = fd_in \cup {h}
            /\ event_mask' = event_mask \cup {h}
            /\ standby' = Wish(standby, h, "add")
            /\ added' = added \cup {h}
            /\ ready' = ready \ {h}
            /\ freed' = freed \ {h}
    /\ UNCHANGED <<loopVars, tableVars, fd_out, active, removed, skipped>>

Unmark(h, wish) ==
    /\ h \in event_mask
    /\ fd_in' = fd_in \ {h}
    /\ event_mask' = event_mask \ {h}
    /\ standby' = Wish(standby, h, wish)

(* del_handle from the thread that sends.                                  *)
DelHandle(h) ==
    /\ Unmark(h, "del")
    /\ UNCHANGED <<loopVars, tableVars, fd_out, active, ready, adds, added,
                   removed, freed, skipped>>

RemoveHandle(h) ==
    /\ Unmark(h, "remove")
    /\ removed' = removed \cup {h}
    /\ UNCHANGED <<loopVars, tableVars, fd_out, active, ready, adds, added, freed, skipped>>

(* The peer closes.                                                        *)
Ready(h) ==
    /\ h \in added \ ready
    /\ ready' = ready \cup {h}
    /\ UNCHANGED <<loopVars, tableVars, wishVars, fd_out, active, adds, added,
                   removed, freed, skipped>>

-----------------------------------------------------------------------------
(* event_loop.                                                             *)

(* Mutated form of Swap: without wishes the set is not copied.             *)
Swap_NoCopy ==
    /\ lpc = "top"
    /\ active' = standby /\ standby' = active
    /\ fd_out' = IF standby = Nothing THEN fd_out ELSE fd_in
    /\ lpc' = "apply"
    /\ UNCHANGED <<ret, iter, tableVars, event_mask, fd_in, ready, adds, added,
                   removed, freed, skipped>>

(* The swap; without wishes only the descriptor set is copied.             *)
Swap ==
    /\ lpc = "top"
    /\ active' = standby /\ standby' = active
    /\ fd_out' = fd_in
    /\ lpc' = "apply"
    /\ UNCHANGED <<ret, iter, tableVars, event_mask, fd_in, ready, adds, added,
                   removed, freed, skipped>>

ApplyAdd(h) ==
    /\ active[h] = "add"
    /\ IF runner_pos[h] < 0
       THEN /\ socket_handlers' = Append(socket_handlers, h)
            /\ runner_pos' = [runner_pos EXCEPT ![h] = Len(socket_handlers)]
       ELSE UNCHANGED <<socket_handlers, runner_pos>>
    /\ max_handle' = IF max_handle < h THEN h ELSE max_handle
    /\ UNCHANGED <<freed, skipped>>

(* Mutated form of TakeOut: the last handler keeps its old position.       *)
TakeOut_PosKept(h) ==
    LET last == socket_handlers[Len(socket_handlers)] IN
    /\ socket_handlers' = SubSeq([socket_handlers EXCEPT ![runner_pos[h] + 1] = last],
                                 1, Len(socket_handlers) - 1)
    /\ runner_pos' = [runner_pos EXCEPT ![h] = -1]
    /\ max_handle' = IF max_handle = h THEN max_handle - 1 ELSE max_handle

(* The last handler takes the place of the one that leaves.                *)
TakeOut(h) ==
    LET last == socket_handlers[Len(socket_handlers)] IN
    /\ socket_handlers' = SubSeq([socket_handlers EXCEPT ![runner_pos[h] + 1] = last],
                                 1, Len(socket_handlers) - 1)
    /\ runner_pos' = [runner_pos EXCEPT ![last] = runner_pos[h], ![h] = -1]
    /\ max_handle' = IF max_handle = h THEN max_handle - 1 ELSE max_handle

(* DEL_HANDLE closes and frees, unless the handler was never added.        *)
ApplyDel(h) ==
    /\ active[h] = "del"
    /\ \/ runner_pos[h] >= 0 /\ TakeOut(h) /\ freed' = freed \cup {h} /\ UNCHANGED skipped
       \/ runner_pos[h] < 0 /\ skipped' = skipped \cup {h} /\ UNCHANGED <<tableVars, freed>>

ApplyRemove(h) ==
    /\ active[h] = "remove"
    /\ IF runner_pos[h] >= 0 THEN TakeOut(h) ELSE UNCHANGED tableVars
    /\ UNCHANGED <<freed, skipped>>

(* One entry of the active map; the map is cleared at the end.             *)
Apply ==
    /\ lpc = "apply"
    /\ \/ \E h \in DOMAIN active :
             /\ ApplyAdd(h) \/ ApplyDel(h) \/ ApplyRemove(h)
             /\ active' = [g \in DOMAIN active \ {h} |-> active[g]]
             /\ UNCHANGED lpc
       \/ /\ active = Nothing
          /\ lpc' = "select"
          /\ UNCHANGED <<tableVars, active, freed, skipped>>
    /\ UNCHANGED <<ret, iter, wishVars, fd_out, ready, adds, added, removed>>

(* select(max_handle_ + 1, ...): the result is the number of sockets found *)
(* readable; a socket removed meanwhile may still be in the set.           *)
Select ==
    LET found == {h \in fd_out \cap ready : h <= max_handle} IN
    /\ lpc = "select"
    /\ fd_out' = found
    /\ ret' = Cardinality(found)
    /\ iter' = 1
    /\ lpc' = IF found = {} THEN "top" ELSE "scan"
    /\ UNCHANGED <<tableVars, wishVars, active, ready, adds, added,
                   removed, freed, skipped>>

(* handle_read of the next handler in the table, if its socket is ready,   *)
(* fails: del_handle only marks it.  The loop ends after ret of them.      *)
Scan ==
    LET h == socket_handlers[iter]
        left == IF iter <= Len(socket_handlers) /\ h \in fd_out THEN ret - 1 ELSE ret
    IN
    /\ lpc = "scan"
    /\ IF iter <= Len(socket_handlers) /\ h \in fd_out /\ h \in event_mask
       THEN Unmark(h, "del") ELSE UNCHANGED wishVars
    /\ IF left = 0 \/ iter >= Len(socket_handlers)
       THEN lpc' = "top" /\ iter' = 0 /\ ret' = 0
       ELSE lpc' = "scan" /\ iter' = iter + 1 /\ ret' = left
    /\ UNCHANGED <<tableVars, fd_out, active, ready, adds, added,
                   removed, freed, skipped>>

LoopStep == Swap \/ Apply \/ Select \/ Scan

Next ==
    \/ LoopStep
    \/ \E h \in Sockets : AddHandle(h) \/ DelHandle(h) \/ RemoveHandle(h) \/ Ready(h)

Spec == Init /\ [][Next]_selectVars

-----------------------------------------------------------------------------
(* event_loop and the calls: runner_pos_ is each handler's place in the    *)
(* table through every swap with the last one; select covers every socket  *)
(* of the table that is still marked; and a handler that was freed is in   *)
(* no table, set or map.                                                   *)
TableTrue ==
    /\ \A i \in 1 .. Len(socket_handlers) : runner_pos[socket_handlers[i]] = i - 1
    /\ \A h \in Sockets : runner_pos[h] >= 0 =>
          /\ runner_pos[h] < Len(socket_handlers)
          /\ socket_handlers[runner_pos[h] + 1] = h
          /\ h \in event_mask => h <= max_handle
    /\ \A h \in freed : runner_pos[h] < 0 /\ h \notin fd_in \cup DOMAIN active

-----------------------------------------------------------------------------
(* An inductive invariant, of which TableTrue is a consequence.            *)
(*                                                                         *)
(* The table and the positions are each other's inverse, which every swap  *)
(* with the last handler has to keep; max_handle_ bounds the whole table,  *)
(* the unmarked handlers that wait to be taken out included: it goes down  *)
(* by one only when the handler that leaves was the largest.               *)
InTable(h) == runner_pos[h] >= 0

PositionsAgree ==
    /\ socket_handlers \in Seq(Sockets)
    /\ \A i \in DOMAIN socket_handlers : runner_pos[socket_handlers[i]] = i - 1
    /\ runner_pos \in [Sockets -> Int]
    /\ \A h \in Sockets : InTable(h) =>
          /\ runner_pos[h] < Len(socket_handlers)
          /\ socket_handlers[runner_pos[h] + 1] = h
    /\ max_handle \in Int
    /\ \A h \in Sockets : InTable(h) => h <= max_handle

(* A wish is for a handler that was added and not freed.  One to delete or *)
(* to remove comes from a handler that is no longer marked, so none can    *)
(* follow it.                                                              *)
WishesOf(map) ==
    /\ map \in [DOMAIN map -> {"add", "del", "remove"}]
    /\ DOMAIN map \subseteq added \ freed
    /\ \A h \in DOMAIN map : map[h] # "add" => h \notin event_mask

WishesAgree ==
    /\ WishesOf(standby) /\ WishesOf(active)
    /\ \A h \in DOMAIN active : active[h] # "add" => h \notin DOMAIN standby
    /\ lpc \in {"top", "apply", "select", "scan"}
    /\ lpc # "apply" => active = Nothing

(* What is marked is selected, and was added and not freed; what was freed *)
(* has left the table.                                                     *)
MarksAgree ==
    /\ fd_in = event_mask
    /\ event_mask \subseteq added \ freed
    /\ added \subseteq Sockets
    /\ freed \subseteq added
    /\ \A h \in freed : ~InTable(h)

IInv == PositionsAgree /\ WishesAgree /\ MarksAgree

-----------------------------------------------------------------------------
(* add_handle, del_handle, remove_handle and event_loop: in the end no     *)
(* handler whose stream ended is still marked, the table holds just the    *)
(* marked ones, and every other one was closed and freed or was removed,   *)
(* unless it was deleted before the loop had seen it added.                *)
Deleted ==
    /\ event_mask \cap ready = {}
    /\ {socket_handlers[i] : i \in 1 .. Len(socket_handlers)} = event_mask
    /\ added = event_mask \cup freed \cup removed \cup skipped

DeletedInTheEnd == <>[]Deleted
=============================================================================
