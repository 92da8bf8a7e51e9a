--------------------------- MODULE MessageHandler ----------------------------
(***************************************************************************)
(* SL_Socket_Message_Handler on an epoll runner: handle_read cuts the byte *)
(* stream of a TCP connection into messages, each a length field followed  *)
(* by its content, however the stream arrives.  A byte is named by its     *)
(* offset in the stream.  Line numbers refer to                            *)
(* src/SL_Socket_Message_Handler.cpp.                                      *)
(***************************************************************************)
EXTENDS Integers, Sequences

CONSTANTS Streams,      \* the streams a peer may send, see StreamAssumption
          LenBytes,     \* msglen_bytes_, the size of the length field in bytes
          LenBits,      \* its size in bits
          SignedLen,    \* get_msglen_int8 and _int16_host sign-extend the
                        \* field, get_msglen_int16_network does not
          MsgBufferSize,    \* msgbuffer_size_
          RecvBufferSize,   \* recv_buffer_size of the runner
          EdgeTriggered     \* epoll_mode_ = ET_MODE, the default

(* A stream is the sequence of its messages' boundaries: message i is the  *)
(* bytes from s[i] up to s[i + 1].  write_message puts the whole size of   *)
(* a message into its length field, so none is shorter than that.          *)
ASSUME StreamAssumption ==
    \A s \in Streams :
       /\ s \in Seq(Nat) /\ Len(s) >= 1 /\ s[1] = 0
       /\ \A i \in 1 .. Len(s) - 1 : s[i + 1] - s[i] >= LenBytes

ASSUME SizeAssumption ==
    /\ LenBytes \in Nat \ {0} /\ LenBits \in Nat \ {0}
    /\ MsgBufferSize \in Nat /\ RecvBufferSize \in Nat \ {0}
    /\ {SignedLen, EdgeTriggered} \subseteq BOOLEAN

VARIABLES
    stream,             \* what this peer sends
    arrived,            \* how many of its bytes reached this host's socket
    peer_closed,        \* the peer's FIN did, too
    edge,               \* epoll has an edge to report
    pc,                 \* "wait" in epoll_wait, "recv" or "parse" in
                        \* handle_read, "closed" after del_handle
    received,           \* how many bytes recv has returned
    pos_size,           \* how many of them are not consumed yet
    full,               \* ret = recv_buffer_size
    msg_buffer_, need_len_, last_left_, last_errno_,    \* fields of the handler
    delivered           \* history: the arguments of handle_message

socketVars == <<stream, arrived, peer_closed, edge>>
readVars == <<pc, received, pos_size, full>>
handlerVars == <<msg_buffer_, need_len_, last_left_, last_errno_, delivered>>
vars == <<socketVars, readVars, handlerVars>>

Total == stream[Len(stream)]

Init ==
    /\ stream \in Streams
    /\ arrived = 0
    /\ peer_closed = FALSE
    /\ edge = FALSE
    /\ pc = "wait"
    /\ received = 0
    /\ pos_size = 0
    /\ full = FALSE
    /\ msg_buffer_ = << >>
    /\ need_len_ = 0
    /\ last_left_ = 0
    /\ last_errno_ = "none"
    /\ delivered = << >>

-----------------------------------------------------------------------------
(* The connection: bytes arrive in order, in pieces, then perhaps a FIN.   *)
Arrive(n) ==
    /\ ~peer_closed
    /\ n <= Total - arrived
    /\ arrived' = arrived + n
    /\ edge' = TRUE
    /\ UNCHANGED <<stream, peer_closed, readVars, handlerVars>>

PeerClose ==
    /\ ~peer_closed
    /\ arrived = Total
    /\ peer_closed' = TRUE
    /\ edge' = TRUE
    /\ UNCHANGED <<stream, arrived, readVars, handlerVars>>

Readable == arrived > received \/ peer_closed

(* epoll_wait reports an edge once, a level as long as it lasts.           *)
EpollWait ==
    /\ pc = "wait"
    /\ IF EdgeTriggered THEN edge ELSE Readable
    /\ edge' = FALSE
    /\ pc' = "recv"
    /\ UNCHANGED <<stream, arrived, peer_closed, received, pos_size, full, handlerVars>>

-----------------------------------------------------------------------------
(* handle_read returns a negative value and the runner deletes the handler.*)
Close(error) ==
    /\ last_errno_' = error
    /\ pc' = "closed"

(* socket_recv returns what has arrived, up to the size of the buffer.     *)
Recv ==
    LET left == arrived - received
        n == IF left < RecvBufferSize THEN left ELSE RecvBufferSize IN
    /\ pc = "recv"
    /\ n > 0
    /\ received' = received + n
    /\ pos_size' = n
    /\ full' = (n = RecvBufferSize)
    /\ pc' = "parse"
    /\ UNCHANGED <<socketVars, handlerVars>>

(* recv returns 0.                                                         *)
RecvEof ==
    /\ pc = "recv"
    /\ arrived = received /\ peer_closed
    /\ Close("ERROR_CLOSE_PASSIVE")
    /\ UNCHANGED <<socketVars, received, pos_size, full, msg_buffer_, need_len_, last_left_, delivered>>

(* recv fails with EAGAIN.                                                 *)
RecvAgain ==
    /\ pc = "recv"
    /\ arrived = received /\ ~peer_closed
    /\ pc' = "wait"
    /\ UNCHANGED <<socketVars, received, pos_size, full, handlerVars>>

-----------------------------------------------------------------------------
(* The first n bytes at pos.                                               *)
AtPos(n) == [i \in 1 .. n |-> received - pos_size + i - 1]

(* Mutated form of Consume: a buffer filled to the brim is not read again. *)
Consume_ReadsOnce(n) ==
    /\ pos_size' = pos_size - n
    /\ pc' = IF n < pos_size THEN "parse" ELSE "wait"
    /\ UNCHANGED <<socketVars, received, full>>

(* pos advances by n.  When the buffer is used up handle_read reads again  *)
(* if it had been full, and returns otherwise.                             *)
Consume(n) ==
    /\ pos_size' = pos_size - n
    /\ pc' = IF n < pos_size THEN "parse" ELSE IF full THEN "recv" ELSE "wait"
    /\ UNCHANGED <<socketVars, received, full>>

(* The whole length field of message i, read with its sign or without.     *)
FieldValue(len) ==
    LET u == len % 2^LenBits IN
    IF SignedLen /\ u >= 2^(LenBits - 1) THEN u - 2^LenBits ELSE u

(* get_msglen_proc_ on bytes that start with a message's length field.     *)
Msglen(bytes) ==
    LET starts == {i \in 1 .. Len(stream) - 1 : stream[i] = bytes[1]} IN
    IF starts = {} THEN 0
    ELSE LET i == CHOOSE j \in starts : TRUE IN FieldValue(stream[i + 1] - stream[i])

(* Mutated forms of Invalid: the bound is off by one, either way.          *)
Invalid_OneMore(msglen) == msglen <= 0 \/ msglen > MsgBufferSize + 1
Invalid_AtSize(msglen) == msglen <= 0 \/ msglen >= MsgBufferSize

(* The message's size is invalid or exceeds the message buffer.            *)
Invalid(msglen) == msglen <= 0 \/ msglen > MsgBufferSize

Refuse(msglen) ==
    /\ Invalid(msglen)
    /\ Close("ERROR_CLOSE_RECV")
    /\ UNCHANGED <<socketVars, received, pos_size, full, need_len_, delivered>>

(* handle_message takes the message, or refuses it with a negative value.  *)
HandleMessage(bytes, n) ==
    /\ delivered' = Append(delivered, bytes)
    /\ \/ Consume(n) /\ UNCHANGED last_errno_
       \/ Close("ERROR_CLOSE_ACTIVE") /\ UNCHANGED <<socketVars, received, pos_size, full>>

(* Mutated form of KeepAll: the bytes are not written to msg_buffer_.      *)
KeepAll_Drops ==
    /\ Consume(pos_size)
    /\ UNCHANGED <<msg_buffer_, last_errno_, delivered>>

(* Everything at pos goes to msg_buffer_, and the loop is left.            *)
KeepAll ==
    /\ msg_buffer_' = msg_buffer_ \o AtPos(pos_size)
    /\ Consume(pos_size)
    /\ UNCHANGED <<last_errno_, delivered>>

(* need_len_ = 0 and last_left_ = 0: pos is at a length field, complete    *)
(* (lines 31-56) or not (lines 57-62).                                     *)
NewMessage ==
    LET msglen == Msglen(AtPos(LenBytes)) IN
    /\ pc = "parse" /\ need_len_ = 0 /\ last_left_ = 0
    /\ pos_size >= LenBytes
    /\ \/ Refuse(msglen) /\ UNCHANGED <<msg_buffer_, last_left_>>
       \/ /\ ~Invalid(msglen)
          /\ pos_size >= msglen
          /\ HandleMessage(AtPos(msglen), msglen)
          /\ UNCHANGED <<msg_buffer_, need_len_, last_left_>>
       \/ /\ ~Invalid(msglen)
          /\ pos_size < msglen
          /\ need_len_' = msglen - pos_size
          /\ KeepAll
          /\ UNCHANGED last_left_

PartOfLength ==
    /\ pc = "parse" /\ need_len_ = 0 /\ last_left_ = 0
    /\ pos_size < LenBytes
    /\ last_left_' = pos_size
    /\ KeepAll
    /\ UNCHANGED need_len_

(* last_left_ > 0: msg_buffer_ holds a part of a length field.             *)
MoreOfLength ==
    /\ pc = "parse" /\ need_len_ = 0 /\ last_left_ > 0
    /\ last_left_ + pos_size < LenBytes
    /\ last_left_' = last_left_ + pos_size
    /\ KeepAll
    /\ UNCHANGED need_len_

(* The rest of the length field comes first, then the content or a part    *)
(* of it.                                                                  *)
RestOfLength ==
    LET rest == LenBytes - last_left_
        msglen == Msglen(msg_buffer_ \o AtPos(rest))
        whole == rest + msglen - LenBytes IN
    /\ pc = "parse" /\ need_len_ = 0 /\ last_left_ > 0
    /\ rest <= pos_size
    /\ \/ Refuse(msglen) /\ msg_buffer_' = msg_buffer_ \o AtPos(rest) /\ UNCHANGED last_left_
       \/ /\ ~Invalid(msglen)
          /\ pos_size >= whole
          /\ last_left_' = 0
          /\ HandleMessage(msg_buffer_ \o AtPos(whole), whole)
          /\ msg_buffer_' = IF pc' = "closed" THEN msg_buffer_ \o AtPos(whole) ELSE << >>
          /\ UNCHANGED need_len_
       \/ /\ ~Invalid(msglen)
          /\ pos_size < whole
          /\ last_left_' = 0
          /\ need_len_' = whole - pos_size
          /\ KeepAll

(* Mutated form of RestOfMessage: the buffer is not reset.                 *)
RestOfMessage_NoReset ==
    /\ pc = "parse" /\ need_len_ > 0
    /\ pos_size >= need_len_
    /\ HandleMessage(msg_buffer_ \o AtPos(need_len_), need_len_)
    /\ need_len_' = 0
    /\ msg_buffer_' = msg_buffer_ \o AtPos(need_len_)
    /\ UNCHANGED last_left_

(* need_len_ > 0: msg_buffer_ holds a part of a message.                   *)
RestOfMessage ==
    LET message == msg_buffer_ \o AtPos(need_len_) IN
    /\ pc = "parse" /\ need_len_ > 0
    /\ pos_size >= need_len_
    /\ HandleMessage(message, need_len_)
    /\ IF pc' = "closed"
       THEN msg_buffer_' = message /\ UNCHANGED need_len_
       ELSE msg_buffer_' = << >> /\ need_len_' = 0
    /\ UNCHANGED last_left_

MoreOfMessage ==
    /\ pc = "parse" /\ need_len_ > 0
    /\ pos_size < need_len_
    /\ need_len_' = need_len_ - pos_size
    /\ KeepAll
    /\ UNCHANGED last_left_

HandleRead ==
    \/ Recv \/ RecvEof \/ RecvAgain
    \/ NewMessage \/ PartOfLength \/ MoreOfLength \/ RestOfLength
    \/ RestOfMessage \/ MoreOfMessage

Peer == (\E n \in 1 .. Total : Arrive(n)) \/ PeerClose

Next == Peer \/ EpollWait \/ HandleRead

Spec == Init /\ [][Next]_vars

(* The event loop runs for ever; the peer may stop at any point.           *)
LiveSpec == Spec /\ WF_vars(EpollWait) /\ WF_vars(HandleRead)

-----------------------------------------------------------------------------
Message(i) == [k \in 1 .. stream[i + 1] - stream[i] |-> stream[i] + k - 1]

BetweenReads == pc = "wait"

(* handle_read calls handle_message with exactly the messages of the       *)
(* stream, whole and in order, however the stream was cut into pieces.     *)
Framed ==
    /\ Len(delivered) < Len(stream)
    /\ \A i \in 1 .. Len(delivered) : delivered[i] = Message(i)

(* handle_read keeps no complete message back: between two calls every     *)
(* message that was received whole has been handed over, and the bytes     *)
(* after it are in msg_buffer_.                                            *)
NothingKept ==
    BetweenReads =>
       LET k == Len(delivered) + 1 IN
       /\ Len(msg_buffer_) = received - stream[k]
       /\ k < Len(stream) => received < stream[k + 1]

(* lines 34 and 78: msg_buffer_ never grows past the size reserved for it, *)
(* and handle_read refuses only a message that is too long for it, or for  *)
(* the field as include/SL_Socket_Message_Handler.h:15 declares it         *)
(* ("ushort len").                                                         *)
SizeLimits ==
    /\ Len(msg_buffer_) <= MsgBufferSize
    /\ last_errno_ = "ERROR_CLOSE_RECV" =>
          LET k == Len(delivered) + 1 IN
          \/ stream[k + 1] - stream[k] > MsgBufferSize
          \/ stream[k + 1] - stream[k] >= 2^LenBits

(* No length is taken that the buffer has no room for, none refused that   *)
(* it has, and no byte is kept that belongs to a message handled.          *)
WithinBuffer == NothingKept /\ SizeLimits

(* What arrives is read: neither an edge of epoll nor a short read makes   *)
(* the handler leave bytes in the socket.                                  *)
EventuallyRead == (arrived > received) ~> (arrived = received \/ pc = "closed")

(* include/SL_Socket_Handler.h:43, ERROR_CLOSE_PASSIVE: a close by the     *)
(* peer closes the handler.                                                *)
CloseNoticed == peer_closed ~> (pc = "closed")
=============================================================================
