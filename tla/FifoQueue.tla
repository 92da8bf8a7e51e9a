----------------------------- MODULE FifoQueue -----------------------------
(***************************************************************************)
(* What a queue of the library promises its callers: a value that was      *)
(* pushed is popped once, values are popped in the order they were pushed, *)
(* and there are never more than Bound of them inside.                     *)
(***************************************************************************)
EXTENDS Naturals, Sequences

CONSTANTS Value, Bound

VARIABLES items,    \* pushed and not yet popped
          taken     \* every value popped, in order

Init == items = << >> /\ taken = << >>

Push(v) ==
    /\ Len(items) < Bound
    /\ items' = Append(items, v)
    /\ UNCHANGED taken

Pop ==
    /\ items # << >>
    /\ items' = Tail(items)
    /\ taken' = Append(taken, Head(items))

Next == Pop \/ \E v \in Value : Push(v)

Spec == Init /\ [][Next]_<<items, taken>>

(* A queue that may give up its oldest value for a new one when it is full. *)
Overwrite(v) ==
    /\ Len(items) = Bound
    /\ items' = Append(Tail(items), v)
    /\ UNCHANGED taken

OverwritingSpec ==
    Init /\ [][Next \/ \E v \in Value : Overwrite(v)]_<<items, taken>>
=============================================================================
