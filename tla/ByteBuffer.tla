----------------------------- MODULE ByteBuffer -----------------------------
(***************************************************************************)
(* SL_ByteBuffer: a growing buffer that is passed on by copying it.  A     *)
(* copy takes the memory over and leaves the original a view of it; other  *)
(* views are of memory the caller keeps.  owner(bool), by which a caller   *)
(* can make two owners, is not called.  A byte is told by the object it    *)
(* was written through.                                                    *)
(*                                                                         *)
(* SL_SharedBuffer: handles, each with its own place in the data, on a     *)
(* counted Buffer_.  Every handle belongs to one thread; the count is      *)
(* atomic, so a release is a step of its own between those of the others.  *)
(* Allocation succeeds.  Line numbers refer to include/SL_ByteBuffer.h.    *)
(***************************************************************************)
EXTENDS Naturals, Integers, Sequences, FiniteSets

CONSTANTS Objects,     \* the buffer objects
          NULL,
          Capacities,  \* sizes asked for
          MaxSize,     \* bound: the size buffers grow to
          MaxBlocks    \* bound: blocks made

VARIABLES object,      \* per object: alive, buffer_, begin, end, owner_
          block,       \* the blocks made so far: size, data, who frees it, if it is live
          content      \* history: per object, what was written and not yet read

bufferVars == <<object, block, content>>

Blocks == 1 .. Len(block)
Blank  == [alive |-> FALSE, buffer |-> NULL, begin |-> 0, end |-> 0, owner |-> FALSE]
Size(o) == IF object[o].buffer = NULL THEN 0 ELSE block[object[o].buffer].size
Free(o) == Size(o) - object[o].end
DataOf(o) == IF object[o].buffer = NULL THEN << >>
             ELSE SubSeq(block[object[o].buffer].data, object[o].begin + 1, object[o].end)

Init ==
    /\ object = [o \in Objects |-> Blank]
    /\ block = << >>
    /\ content = [o \in Objects |-> << >>]

NewBlock(size, data, callers) ==
    [size |-> size, data |-> data, callers |-> callers, live |-> TRUE, frees |-> 0]
Freed(blocks, b) == [blocks EXCEPT ![b] = [@ EXCEPT !.live = FALSE, !.frees = @ + 1,
                                                 !.size = 0, !.data = << >>]]

(* The memory o owns is freed, if it owns some.                            *)
FreedOf(o) == IF object[o].owner /\ object[o].buffer # NULL THEN Freed(block, object[o].buffer)
                                                            ELSE block

(* realloc: the block grows in place or moves.                             *)
Realloc(o, size, moves, data) ==
    LET b == object[o].buffer
    IN  IF b # NULL /\ ~moves
        THEN [b |-> b, blocks |-> [block EXCEPT ![b].size = size, ![b].data = data]]
        ELSE [b |-> Len(block) + 1,
              blocks |-> Append(FreedOf(o), NewBlock(size, data, FALSE))]
BlocksLeft == Len(block) < MaxBlocks

-----------------------------------------------------------------------------
Construct(o, size) ==
    /\ ~object[o].alive /\ BlocksLeft
    /\ block' = IF size = 0 THEN block ELSE Append(block, NewBlock(size, << >>, FALSE))
    /\ object' = [object EXCEPT ![o] = [alive |-> TRUE, begin |-> 0, end |-> 0, owner |-> TRUE,
                                        buffer |-> IF size = 0 THEN NULL ELSE Len(block) + 1]]
    /\ content' = [content EXCEPT ![o] = << >>]

(* Mutated form of Taken: the original keeps the memory as well.           *)
Taken_KeepOwner(o, p) ==
    /\ object' = [object EXCEPT ![o] = IF object[p].owner THEN [object[p] EXCEPT !.alive = TRUE]
                                       ELSE [Blank EXCEPT !.alive = TRUE]]
    /\ content' = [content EXCEPT ![o] = IF object[p].owner THEN content[p] ELSE << >>]

(* o becomes what p is; p keeps its pointer and gives up the memory.       *)
Taken(o, p) ==
    /\ object' = [object EXCEPT ![o] = IF object[p].owner THEN object[p]
                                       ELSE [Blank EXCEPT !.alive = TRUE],
                                ![p].owner = FALSE]
    /\ content' = [content EXCEPT ![o] = IF object[p].owner THEN content[p] ELSE << >>]

Copy(o, p) ==
    /\ ~object[o].alive /\ object[p].alive
    /\ Taken(o, p)
    /\ UNCHANGED block

Assign(o, p) ==
    /\ object[o].alive /\ object[p].alive /\ o # p
    /\ block' = FreedOf(o)
    /\ Taken(o, p)

Destroy(o) ==
    /\ object[o].alive
    /\ block' = FreedOf(o)
    /\ object' = [object EXCEPT ![o] = Blank]
    /\ content' = [content EXCEPT ![o] = << >>]

Clear(o) ==
    /\ object[o].alive
    /\ block' = FreedOf(o)
    /\ object' = [object EXCEPT ![o] = [Blank EXCEPT !.alive = TRUE, !.owner = TRUE]]
    /\ content' = [content EXCEPT ![o] = << >>]

Reset(o) ==
    /\ object[o].alive
    /\ object' = [object EXCEPT ![o].begin = 0, ![o].end = 0]
    /\ content' = [content EXCEPT ![o] = << >>]
    /\ UNCHANGED block

(* data(p, size, owner): a copy of the caller's memory, in a block grown   *)
(* or made, or the caller's memory itself.                                 *)
SetData(o, bytes, owner, moves) ==
    /\ object[o].alive /\ BlocksLeft
    /\ LET copied == IF object[o].owner THEN Realloc(o, Len(bytes), moves, bytes)
                     ELSE [b |-> Len(block) + 1,
                           blocks |-> Append(block, NewBlock(Len(bytes), bytes, FALSE))]
           viewed == [b |-> Len(block) + 1,
                      blocks |-> Append(FreedOf(o), NewBlock(Len(bytes), bytes, TRUE))]
           made   == IF owner THEN copied ELSE viewed
       IN  /\ block' = made.blocks
           /\ object' = [object EXCEPT ![o] = [alive |-> TRUE, buffer |-> made.b, begin |-> 0,
                                               end |-> Len(bytes), owner |-> owner]]
    /\ content' = [content EXCEPT ![o] = bytes]

(* reserve makes the buffer larger and forgets what was in it.             *)
Reserve(o, size, moves) ==
    /\ object[o].alive /\ BlocksLeft
    /\ object[o].owner => size > Size(o)
    /\ LET made == IF object[o].owner THEN Realloc(o, size, moves, << >>)
                   ELSE [b |-> Len(block) + 1,
                         blocks |-> Append(block, NewBlock(size, << >>, FALSE))]
       IN  /\ block' = made.blocks
           /\ object' = [object EXCEPT ![o] = [alive |-> TRUE, buffer |-> made.b, begin |-> 0,
                                               end |-> 0, owner |-> TRUE]]
    /\ content' = [content EXCEPT ![o] = << >>]

(* write: behind the data, in a larger block if there is no room.          *)
Write(o, bytes, moves) ==
    /\ object[o].alive /\ object[o].owner
    /\ LET o1   == object[o]
           kept == IF o1.buffer = NULL THEN << >> ELSE SubSeq(block[o1.buffer].data, 1, o1.end)
           size == 2 * Size(o) + Len(bytes)
           made == IF Free(o) >= Len(bytes)
                   THEN [b |-> o1.buffer,
                         blocks |-> [block EXCEPT ![o1.buffer].data = kept \o bytes]]
                   ELSE Realloc(o, size, moves, kept \o bytes)
       IN  /\ Free(o) < Len(bytes) => size <= MaxSize /\ BlocksLeft
           /\ block' = made.blocks
           /\ object' = [object EXCEPT ![o].buffer = made.b, ![o].end = @ + Len(bytes)]
    /\ content' = [content EXCEPT ![o] = @ \o bytes]

Read(o, n) ==
    /\ object[o].alive /\ object[o].owner /\ object[o].end - object[o].begin >= n
    /\ object' = [object EXCEPT ![o].begin = @ + n]
    /\ content' = [content EXCEPT ![o] = SubSeq(@, n + 1, Len(@))]
    /\ UNCHANGED block

(* data_end(n), within the data; data_begin(n) goes the same way.          *)
DataEnd(o, n) ==
    /\ object[o].alive /\ object[o].owner /\ n < object[o].end
    /\ object' = [object EXCEPT ![o].end = n,
                                ![o].begin = IF object[o].begin > n THEN n ELSE @]
    /\ content' = [content EXCEPT ![o] =
                     IF n <= object[o].begin THEN << >> ELSE SubSeq(@, 1, n - object[o].begin)]
    /\ UNCHANGED block

Next ==
    \E o \in Objects :
       \/ \E n \in Capacities \cup {0} : Construct(o, n)
       \/ \E p \in Objects : Copy(o, p) \/ Assign(o, p)
       \/ Destroy(o) \/ Clear(o) \/ Reset(o)
       \/ \E moves \in BOOLEAN, owner \in BOOLEAN : SetData(o, <<o>>, owner, moves)
       \/ \E n \in Capacities, moves \in BOOLEAN : Reserve(o, n, moves)
       \/ \E moves \in BOOLEAN : Write(o, <<o>>, moves)
       \/ Read(o, 1)
       \/ \E n \in 0 .. MaxSize : DataEnd(o, n)

Spec == Init /\ [][Next]_bufferVars

-----------------------------------------------------------------------------
Owners(b) == {o \in Objects : object[o].alive /\ object[o].owner /\ object[o].buffer = b}

(* The copies, assignments, data, reserve, write and clear: a block that   *)
(* was allocated has one owner until it is freed, once; the caller's is    *)
(* never freed; an owner's data is what was written and not yet read.      *)
OneOwner ==
    /\ \A b \in Blocks :
          IF block[b].callers THEN block[b].frees = 0 /\ Owners(b) = {}
          ELSE /\ block[b].frees <= 1
               /\ Cardinality(Owners(b)) = (IF block[b].live THEN 1 ELSE 0)
    /\ \A o \in Objects :
          object[o].alive /\ object[o].owner =>
             /\ object[o].begin <= object[o].end /\ object[o].end <= Size(o)
             /\ DataOf(o) = content[o]

-----------------------------------------------------------------------------
(* SL_SharedBuffer.                                                        *)
CONSTANTS Handles,     \* the handles on shared buffers
          Bytes,
          MaxShared,   \* bound: the size of the data
          MaxBuffers   \* bound: Buffer_ objects made

VARIABLES handle,      \* per handle: buffer_ (NULL: not alive), begin, end
          buffer,      \* the Buffer_ objects made: refcount_, use_size_, data, live, frees
          next_buffer, \* assignment: what the handle will hold, NULL outside of one
          shared_content, \* history: per handle, what it has written and not read
          mixed        \* history: Buffer_ objects several handles wrote to, or one reset

sharedVars == <<handle, buffer, next_buffer, shared_content, mixed>>

Alive(h)   == handle[h].buffer # NULL
Ready(h)   == next_buffer[h] = NULL
(* The thread of an assignment in progress uses neither of its handles.    *)
Idle(h)    == Alive(h) /\ Ready(h) /\ \A f \in Handles : next_buffer[f] # h
NoBuffer   == [buffer |-> NULL, begin |-> 0, end |-> 0]
NewBuffer  == [refcount |-> 1, data |-> << >>, live |-> TRUE, frees |-> 0]

SharedInit ==
    /\ handle = [h \in Handles |-> NoBuffer]
    /\ buffer = << >>
    /\ next_buffer = [h \in Handles |-> NULL]
    /\ shared_content = [h \in Handles |-> << >>]
    /\ mixed = {}

(* release(): the count goes down; at zero the memory goes, and the object.*)
(* Mutated form of Released: the count is read again to see if it is zero. *)
Released_Twice(buffers, b) ==
    LET n == buffers[b].refcount - 1
    IN  [buffers EXCEPT ![b].refcount = n,
                        ![b].live = @ /\ n > 1,
                        ![b].frees = IF n <= 1 THEN @ + 1 ELSE @]
Released(buffers, b) ==
    LET n == buffers[b].refcount - 1
    IN  [buffers EXCEPT ![b].refcount = n,
                        ![b].live = @ /\ n > 0,
                        ![b].data = IF n > 0 THEN @ ELSE << >>,
                        ![b].frees = IF n = 0 THEN @ + 1 ELSE @]

-----------------------------------------------------------------------------
SharedConstruct(h) ==
    /\ ~Alive(h) /\ Len(buffer) < MaxBuffers
    /\ buffer' = Append(buffer, NewBuffer)
    /\ handle' = [handle EXCEPT ![h] = [NoBuffer EXCEPT !.buffer = Len(buffer) + 1]]
    /\ shared_content' = [shared_content EXCEPT ![h] = << >>]
    /\ UNCHANGED <<next_buffer, mixed>>

(* A copy shares the object and stands where the original stands.          *)
SharedCopy(h, g) ==
    /\ ~Alive(h) /\ Alive(g) /\ Ready(g)
    /\ buffer' = [buffer EXCEPT ![handle[g].buffer].refcount = @ + 1]
    /\ handle' = [handle EXCEPT ![h] = handle[g]]
    /\ shared_content' = [shared_content EXCEPT ![h] = shared_content[g]]
    /\ UNCHANGED <<next_buffer, mixed>>

SharedDestroy(h) ==
    /\ Idle(h)
    /\ buffer' = Released(buffer, handle[h].buffer)
    /\ handle' = [handle EXCEPT ![h] = NoBuffer]
    /\ shared_content' = [shared_content EXCEPT ![h] = << >>]
    /\ UNCHANGED <<next_buffer, mixed>>

(* operator=: the old object is released, the new one counted after that.  *)
(* A handle is not assigned to itself: that would count a deleted object.  *)
(* The thread holds g meanwhile.                                           *)
AssignRelease(h, g) ==
    /\ Idle(h) /\ Alive(g) /\ Ready(g) /\ h # g
    /\ buffer' = Released(buffer, handle[h].buffer)
    /\ next_buffer' = [next_buffer EXCEPT ![h] = g]
    /\ UNCHANGED <<handle, shared_content, mixed>>

AssignCount(h) ==
    /\ ~Ready(h)
    /\ LET g == next_buffer[h]
       IN  /\ buffer' = [buffer EXCEPT ![handle[g].buffer].refcount = @ + 1]
           /\ handle' = [handle EXCEPT ![h] = handle[g]]
           /\ shared_content' = [shared_content EXCEPT ![h] = shared_content[g]]
    /\ next_buffer' = [next_buffer EXCEPT ![h] = NULL]
    /\ UNCHANGED mixed

(* data(p, size): a new object with a copy of the bytes.                   *)
SharedSetData(h, bytes) ==
    /\ Idle(h) /\ Len(buffer) < MaxBuffers
    /\ buffer' = Append(Released(buffer, handle[h].buffer), [NewBuffer EXCEPT !.data = bytes])
    /\ handle' = [handle EXCEPT ![h] = [buffer |-> Len(buffer) + 1, begin |-> 0,
                                        end |-> Len(bytes)]]
    /\ shared_content' = [shared_content EXCEPT ![h] = bytes]
    /\ UNCHANGED <<next_buffer, mixed>>

(* write: at use_size_, the end of all that was written through any        *)
(* handle; only this handle's end follows.                                 *)
SharedWrite(h, byte) ==
    LET b == handle[h].buffer
    IN  /\ Idle(h) /\ Len(buffer[b].data) < MaxShared
        /\ buffer' = [buffer EXCEPT ![b].data = Append(@, byte)]
        /\ handle' = [handle EXCEPT ![h].end = @ + 1]
        /\ shared_content' = [shared_content EXCEPT ![h] = Append(@, byte)]
        /\ mixed' = IF handle[h].end = Len(buffer[b].data) THEN mixed ELSE mixed \cup {b}
        /\ UNCHANGED next_buffer

SharedRead(h) ==
    /\ Idle(h) /\ handle[h].begin < handle[h].end
    /\ handle' = [handle EXCEPT ![h].begin = @ + 1]
    /\ shared_content' = [shared_content EXCEPT ![h] = Tail(@)]
    /\ UNCHANGED <<buffer, next_buffer, mixed>>

(* reset() leaves use_size_ where it is.                                   *)
SharedReset(h) ==
    /\ Idle(h)
    /\ handle' = [handle EXCEPT ![h].begin = 0, ![h].end = 0]
    /\ shared_content' = [shared_content EXCEPT ![h] = << >>]
    /\ UNCHANGED <<buffer, next_buffer, mixed>>

SharedNext ==
    \E h \in Handles :
       \/ SharedConstruct(h) \/ SharedDestroy(h) \/ SharedRead(h) \/ SharedReset(h)
       \/ AssignCount(h)
       \/ \E g \in Handles : SharedCopy(h, g) \/ AssignRelease(h, g)
       \/ \E b \in Bytes : SharedSetData(h, <<b>>) \/ SharedWrite(h, b)

SharedSpec == SharedInit /\ [][SharedNext]_sharedVars

-----------------------------------------------------------------------------
Holders(b) == {h \in Handles : handle[h].buffer = b /\ Ready(h)}

(* The copies, operator=, data and the destructor: a Buffer_ counts its    *)
(* handles, and is freed, once, when the last is gone.  A handle's data is *)
(* what was written through it, as long as each writer stood at the end of *)
(* all that had been written.                                              *)
CountedTrue ==
    /\ \A b \in 1 .. Len(buffer) :
          /\ buffer[b].refcount = Cardinality(Holders(b))
          /\ buffer[b].live = (Holders(b) # {})
          /\ buffer[b].frees = (IF Holders(b) = {} THEN 1 ELSE 0)
    /\ \A h \in Handles :
          LET b == handle[h].buffer
          IN  Alive(h) /\ Ready(h) /\ b \notin mixed =>
                 SubSeq(buffer[b].data, handle[h].begin + 1, handle[h].end) = shared_content[h]
=============================================================================
