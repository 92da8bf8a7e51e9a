----------------------------- MODULE RpcMessage -----------------------------
(***************************************************************************)
(* The receivers of an RPC message.  A sender names them in the head       *)
(* (head_.destination, the first one) and in a set (destinations_);        *)
(* serialize puts a list of them behind the body if there are several; a   *)
(* router takes them out of the head and the list with parse_head, sends   *)
(* the message on to some of them with serialize_head, or hands it to the  *)
(* receiver, which fills a message object with parse.  The four heads      *)
(* differ in their fields, each of which parse and serialize convert, and  *)
(* in the width of two.  Line numbers refer to include/SL_Rpc_Message.h.   *)
(***************************************************************************)
EXTENDS Naturals, Integers, Sequences, FiniteSets

CONSTANTS HeadKinds,  \* which of the four heads
          Ids,        \* ids of senders and receivers, above 0
          HeadSize, ItemSize, \* sizeof(THead), sizeof(TDestinationType)
          BodySizes,  \* sizes of the bodies
          OffsetMod,  \* the low half of head.destination counts up to this
          MaxSends    \* bound: times the message is serialized

VARIABLES head_, destinations_,  \* the sender's message object
          wire,         \* the bytes on their way: a head, and the list behind the body
          kind,         \* THead
          inNetOrder,   \* the fields of the head on the wire that are in network order
          routed,       \* what the router holds: destinations, and if it has them
          parsed,       \* the receiver's object: receivers, none before parse
          pc,
          intended,     \* history: the receivers the message should reach
          first,        \* history: the receiver named in the head, 0 for none
          sends

rpcVars == <<head_, destinations_, wire, kind, inNetOrder, routed, parsed, pc, intended,
             first, sends>>

NoHead == [broadcast |-> FALSE, not_destinations |-> FALSE, source |-> 0,
           destination |-> 0, index |-> 0, length |-> 0]

-----------------------------------------------------------------------------
(* What parse converts of each head; it sets the length to that of the     *)
(* data it is given instead.                                               *)
MessageHead    == {"flag", "type", "source", "destination", "sequence", "attach_id"}
MessageHeadEx  == {"flag", "type", "source", "destination", "sequence", "checksum",
                   "attach_id1", "attach_id2", "attach_id3", "attach_id4"}
MessageHeadEx2 == {"flag", "type", "checksum", "source", "destination", "sequence",
                   "attach_id1", "attach_id2", "attach_id3", "attach_id4"}
MessageHeadEx3 == {"flag", "type", "reserved", "source", "destination", "sequence",
                   "attach_id1", "attach_id2"}

Converted == CASE kind = "head" -> MessageHead   [] kind = "ex" -> MessageHeadEx
               [] kind = "ex2" -> MessageHeadEx2 [] kind = "ex3" -> MessageHeadEx3

(* Mutated form of NetOrder: the field nobody uses is left out.            *)
NetOrder_NoReserved(fields) ==
    LET turned == (Converted \ {"reserved"}) \cup {"length"}
    IN  (fields \ turned) \cup (turned \ fields)

(* serialize, with an index or without: htonl and its kin turn each field, *)
(* whatever order it is in.                                                *)
NetOrder(fields) ==
    LET turned == Converted \cup {"length"}
    IN  (fields \ turned) \cup (turned \ fields)

HostOrder(fields) ==
    (((fields \ Converted) \cup (Converted \ fields)) \ {"length"})

(* The index of the named receiver has the high half of destination, of 16 *)
(* or 32 bits; length has 16 bits in the last head, 32 in the others.      *)
OffsetOf(n) == IF kind \in {"head", "ex"} THEN n % OffsetMod ELSE n
LengthOf(n) == IF kind = "ex3" THEN n % OffsetMod ELSE n

(* std::set keeps its members in order.                                    *)
Ordered(S) == CHOOSE s \in [1 .. Cardinality(S) -> S] : \A i, j \in DOMAIN s : i < j => s[i] < s[j]
Members(list) == {list[i] : i \in DOMAIN list}
Place(list, d) == CHOOSE i \in DOMAIN list : list[i] = d

Init ==
    /\ \E s \in Ids : head_ = [NoHead EXCEPT !.source = s]
    /\ destinations_ = {}
    /\ wire = [head |-> NoHead, list |-> << >>]
    /\ kind \in HeadKinds
    /\ inNetOrder = {}
    /\ routed = {} /\ parsed = {}
    /\ pc = "sender"
    /\ intended = {} /\ first = 0
    /\ sends = 0

(* add_destination_item, clear_destinations, and head_.destination, which  *)
(* callers set; serialize leaves its own use of the field in it, so they   *)
(* set it anew for every message.                                          *)
AddDestination(d) ==
    /\ pc = "sender"
    /\ destinations_' = destinations_ \cup {d}
    /\ UNCHANGED <<head_, wire, inNetOrder, routed, parsed, pc, intended, first, sends>>

ClearDestinations ==
    /\ pc = "sender" /\ destinations_ # {}
    /\ destinations_' = {}
    /\ UNCHANGED <<head_, wire, inNetOrder, routed, parsed, pc, intended, first, sends>>

(* The head and list for receivers dests with d named in the head, as      *)
(* serialize and serialize_head make them of a message of length bytes.    *)
(* Mutated form of Addressed: the place in the list counts from zero.      *)
Addressed_FromZero(head, dests, length) ==
    LET d     == head.destination
        all   == IF d > 0 THEN dests \cup {d} ELSE dests
        clean == [head EXCEPT !.broadcast = FALSE, !.not_destinations = FALSE, !.length = length]
    IN  IF dests # {} /\ Cardinality(all) > 1
        THEN [head |-> [clean EXCEPT !.broadcast = TRUE,
                                     !.not_destinations = d > 0 /\ d \notin dests,
                                     !.destination = OffsetOf(length),
                                     !.index = IF d > 0 THEN Place(Ordered(all), d) - 1 ELSE 0,
                                     !.length = LengthOf(length + ItemSize * Cardinality(all))],
              list |-> Ordered(all)]
        ELSE [head |-> [clean EXCEPT !.index = 0,
                          !.destination = IF d > 0 THEN d
                                          ELSE IF dests # {} THEN Ordered(dests)[1]
                                          ELSE head.source],
              list |-> << >>]

Addressed(head, dests, length) ==
    LET d     == head.destination
        all   == IF d > 0 THEN dests \cup {d} ELSE dests
        clean == [head EXCEPT !.broadcast = FALSE, !.not_destinations = FALSE, !.length = length]
    IN  IF dests # {} /\ Cardinality(all) > 1
        THEN [head |-> [clean EXCEPT !.broadcast = TRUE,
                                     !.not_destinations = d > 0 /\ d \notin dests,
                                     !.destination = OffsetOf(length),
                                     !.index = IF d > 0 THEN Place(Ordered(all), d) ELSE 0,
                                     !.length = LengthOf(length + ItemSize * Cardinality(all))],
              list |-> Ordered(all)]
        ELSE [head |-> [clean EXCEPT !.index = 0,
                          !.destination = IF d > 0 THEN d
                                          ELSE IF dests # {} THEN Ordered(dests)[1]
                                          ELSE head.source],
              list |-> << >>]

Receivers(head, dests) ==
    LET all == dests \cup (IF head.destination > 0 THEN {head.destination} ELSE {})
    IN  IF all = {} THEN {head.source} ELSE all

(* SL_Rpc_Message::serialize (719): the object keeps the inserted          *)
(* destination and the fields it has written to the head.                  *)
Serialize(d, body) ==
    /\ pc = "sender" /\ sends < MaxSends
    /\ LET head == [head_ EXCEPT !.destination = d]
           out  == Addressed(head, destinations_, HeadSize + body)
       IN  /\ wire' = out
           /\ head_' = [out.head EXCEPT !.index = 0]
           /\ destinations_' = IF d > 0 /\ destinations_ # {} THEN destinations_ \cup {d}
                                                              ELSE destinations_
           /\ intended' = Receivers(head, destinations_)
           /\ first' = d
    /\ inNetOrder' = NetOrder({})
    /\ pc' = "arrived"
    /\ sends' = sends + 1
    /\ UNCHANGED <<routed, parsed>>

(* The list behind the body, from byte offset on.                          *)
ListAt(offset) ==
    LET start == wire.head.length - ItemSize * Len(wire.list)
    IN  IF offset = start THEN wire.list ELSE << >>

(* parse_head (419), in place: network order goes, the length becomes that *)
(* without the list, the destination the first receiver.                   *)
(* Mutated form of ParseHead: the flag that the named receiver is not one  *)
(* of the set is not looked at.                                            *)
ParseHead_Ignore ==
    /\ pc = "arrived"
    /\ inNetOrder' = HostOrder(inNetOrder)
    /\ LET h == wire.head
           items == ListAt(h.destination)
       IN  IF h.broadcast
           THEN /\ wire' = [wire EXCEPT !.head.length = h.destination, !.head.index = 0,
                              !.head.destination = IF h.index > 0 THEN items[h.index] ELSE 0]
                /\ routed' = Members(items)
           ELSE /\ routed' = {IF h.destination > 0 THEN h.destination ELSE h.source}
                /\ UNCHANGED wire
    /\ pc' = "router"
    /\ UNCHANGED <<head_, destinations_, parsed, intended, first, sends>>

ParseHead ==
    /\ pc = "arrived"
    /\ inNetOrder' = HostOrder(inNetOrder)
    /\ LET h == wire.head
           items == ListAt(h.destination)
       IN  IF h.broadcast
           THEN /\ wire' = [wire EXCEPT !.head.length = h.destination, !.head.index = 0,
                              !.head.destination = IF h.index > 0 THEN items[h.index] ELSE 0]
                /\ routed' = IF h.index > 0 /\ h.not_destinations
                             THEN Members(items) \ {items[h.index]} ELSE Members(items)
           ELSE /\ routed' = {IF h.destination > 0 THEN h.destination ELSE h.source}
                /\ UNCHANGED wire
    /\ pc' = "router"
    /\ UNCHANGED <<head_, destinations_, parsed, intended, first, sends>>

(* serialize_head (479), in place, for the receivers the router keeps, and *)
(* with d in the head: one of theirs or none.                              *)
SerializeHead(keep, d) ==
    /\ pc = "router" /\ sends < MaxSends
    /\ keep \subseteq routed /\ d \in keep \cup {0, wire.head.destination}
    /\ LET head == [wire.head EXCEPT !.destination = d]
       IN  /\ wire' = Addressed(head, keep, wire.head.length)
           /\ intended' = Receivers(head, keep)
           /\ first' = d
    /\ inNetOrder' = NetOrder(inNetOrder)
    /\ routed' = {}
    /\ pc' = "arrived"
    /\ sends' = sends + 1
    /\ UNCHANGED <<head_, destinations_, parsed>>

(* SL_Rpc_Message::parse (697), of a message parse_head has been over: the *)
(* list starts where the length parse_head left ends.                      *)
Parsed == IF wire.head.broadcast THEN Members(wire.list) ELSE {wire.head.destination}

(* message_to_event, message_to_event2: a new object parses the message    *)
(* and goes into the event; if its body cannot be read, of a type or a     *)
(* form it does not know, the object is deleted again.                     *)
MessageToEvent(readable) ==
    /\ pc = "router"
    /\ parsed' = IF readable THEN Parsed ELSE {}
    /\ pc' = IF readable THEN "received" ELSE "refused"
    /\ UNCHANGED <<head_, destinations_, wire, inNetOrder, routed, intended, first, sends>>

(* The sender goes on with the same object.                                *)
NextMessage ==
    /\ pc \in {"received", "refused"}
    /\ pc' = "sender"
    /\ parsed' = {} /\ routed' = {}
    /\ wire' = [head |-> NoHead, list |-> << >>]
    /\ intended' = {} /\ first' = 0
    /\ inNetOrder' = {}
    /\ UNCHANGED <<head_, destinations_, sends>>

Next ==
    /\ UNCHANGED kind
    /\ \/ \E d \in Ids : AddDestination(d)
       \/ ClearDestinations
       \/ \E d \in Ids \cup {0}, body \in BodySizes : Serialize(d, body)
       \/ ParseHead
       \/ \E keep \in SUBSET Ids, d \in Ids \cup {0} : SerializeHead(keep, d)
       \/ (\E readable \in BOOLEAN : MessageToEvent(readable)) \/ NextMessage

Spec == Init /\ [][Next]_rpcVars

-----------------------------------------------------------------------------
(* parse_head, serialize_head and parse: the router finds the receivers    *)
(* the sender meant, the named one in the head and, if it was not one of   *)
(* the set, nowhere else; the receiver's object names the same ones.  On   *)
(* the way every field of every head is in network order, and none of them *)
(* is when it is looked at.                                                *)
ReceiversKept ==
    /\ pc = "router" =>
          /\ Receivers(wire.head, routed) = intended
          /\ first # 0 => wire.head.destination = first
          /\ wire.head.not_destinations => first \notin routed
    /\ pc = "received" => parsed = intended
    /\ inNetOrder = IF pc = "arrived" THEN Converted \cup {"length"} ELSE {}
=============================================================================
