----------------------------- MODULE SocketApi ------------------------------
(***************************************************************************)
(* SL_Socket_CommonAPI: the calls that loop over the system's (connect     *)
(* with a timeout, sendn, recvn) on one socket and its peer, and the sleep *)
(* and clock functions.  The system's socket is modelled from how these    *)
(* calls use it: both directions have little room, a socket may or may not *)
(* block, the peer can refuse, reset or close.                             *)
(* Line numbers refer to include/SL_Socket_CommonAPI.h.                    *)
(***************************************************************************)
EXTENDS Integers, Sequences

CONSTANTS StreamBytes,  \* how many bytes each side has to send
          Room,         \* bytes in flight, per direction
          PeerStays,    \* the peer closes after it has sent what is asked of it
          EarlyRefusal, \* connect itself may report that it was refused
          WrapMs,       \* timeGetTime() starts again at 0; 2^32 in the code
          Durations     \* per unit, how long to sleep

ApiAssumption == Room > 0 /\ WrapMs > 0 /\ 0 \notin Durations.s

VARIABLES blocking,     \* the socket waits in connect, send and recv
          link,         \* "none", "pending", "up", "refused" ("early": by connect
                        \* itself), "reset" or "closed" by the peer
          calling,      \* the call underway, or "idle"
          asked, moved, \* of a transfer: len, and bytes_send or bytes_recv
          outgoing, arrived,    \* bytes in flight to the peer; bytes it has read
          incoming, given,      \* bytes in flight from the peer; how many it sent
          received,     \* the user's buffer
          reported, taken,      \* what the calls returned so far, sent and received
          trusts,       \* connect returned 0
          windows,      \* the build whose clock is timeGetTime()
          time, before, \* the system's clock now and before the sleep, <<s, ns>>
          request       \* the sleep, <<unit, duration>>

clockVars  == <<windows, time, before, request>>
streamVars == <<blocking, link, calling, asked, moved, outgoing, arrived, incoming, given,
                received, reported, taken, trusts>>

Init ==
    /\ blocking = TRUE /\ link = "none" /\ calling = "idle"
    /\ asked = 0 /\ moved = 0
    /\ outgoing = << >> /\ arrived = << >> /\ incoming = << >> /\ given = 0
    /\ received = [i \in 1 .. StreamBytes |-> 0]
    /\ reported = 0 /\ taken = 0
    /\ trusts = FALSE
    /\ windows \in BOOLEAN
    /\ time \in {<<0, 0>>, <<0, 999000001>>, <<0, 999999999>>}
    /\ before = time /\ request = <<"s", 0>>

fixedTransfer == <<asked, moved, outgoing, arrived, incoming, given, received, reported, taken>>
peerVars      == <<link, arrived, given>>

(* The least of the two.                                                   *)
Least(a, b) == IF a <= b THEN a ELSE b

-----------------------------------------------------------------------------
(* socket_connect; with a timeout the socket blocks no more, also after it *)
(* is connected.                                                           *)
Connect(timeout) ==
    /\ calling = "idle" /\ link = "none"
    /\ blocking' = (blocking /\ ~timeout)
    /\ \E to \in {"up"} \cup IF ~timeout THEN {"refused"}
                    ELSE {"pending"} \cup IF EarlyRefusal THEN {"early"} ELSE {} :
          /\ link' = to
          /\ trusts' = (to = "up")
          /\ calling' = IF timeout /\ to # "up" THEN "select" ELSE "idle"
    /\ UNCHANGED fixedTransfer

(* Mutated form of Select: the socket is writable, the error not asked for.*)
Select_Writable ==
    /\ calling = "select"
    /\ calling' = "idle"
    /\ trusts' = (link # "pending")
    /\ UNCHANGED <<blocking, link, fixedTransfer>>

(* select finds the socket writable once it is connected or refused, or    *)
(* runs into the timeout (on Windows also if it is refused); SO_ERROR      *)
(* tells which, but an error that connect has returned is gone from there. *)
Select ==
    /\ calling = "select"
    /\ calling' = "idle"
    /\ \/ link \in {"pending", "refused"} /\ trusts' = FALSE
       \/ link # "pending" /\ trusts' = (link # "refused")
    /\ UNCHANGED <<blocking, link, fixedTransfer>>

(* socket_set_block.                                                       *)
SetBlock(block) ==
    /\ calling = "idle" /\ trusts
    /\ blocking' = block
    /\ UNCHANGED <<link, calling, trusts, fixedTransfer>>

-----------------------------------------------------------------------------
(* socket_send and socket_recv, one call of the system each, socket_sendn  *)
(* and socket_recvn, which repeat it; the user goes on behind what the     *)
(* calls returned.                                                         *)
SendCall(call, len) ==
    /\ calling = "idle" /\ trusts /\ call \in {"send", "sendn"}
    /\ reported + len <= StreamBytes
    /\ calling' = call /\ asked' = len /\ moved' = 0
    /\ UNCHANGED <<blocking, peerVars, outgoing, incoming, received, reported, taken, trusts>>

RecvCall(call, len) ==
    /\ calling = "idle" /\ trusts /\ call \in {"recv", "recvn"}
    /\ taken + len <= StreamBytes
    /\ calling' = call /\ asked' = len /\ moved' = 0
    /\ UNCHANGED <<blocking, peerVars, outgoing, incoming, received, reported, taken, trusts>>

(* send at buf + bytes_send: it takes some of the bytes.                   *)
Send ==
    /\ calling \in {"send", "sendn"} /\ moved < asked /\ link = "up"
    /\ calling = "send" => moved = 0
    /\ \E n \in 1 .. Least(Room - Len(outgoing), asked - moved) :
          /\ outgoing' = outgoing \o [i \in 1 .. n |-> reported + moved + i]
          /\ moved' = moved + n
    /\ UNCHANGED <<blocking, peerVars, calling, asked, incoming, received, reported, taken,
                   trusts>>

(* Mutated form of Recv: the bytes go to the start of buf.                 *)
Recv_Start ==
    /\ calling \in {"recv", "recvn"} /\ moved < asked /\ link \in {"up", "closed"}
    /\ calling = "recv" => moved = 0
    /\ \E n \in 1 .. Least(Len(incoming), asked - moved) :
          /\ received' = [i \in DOMAIN received |->
                             IF i - taken \in 1 .. n THEN incoming[i - taken] ELSE received[i]]
          /\ incoming' = SubSeq(incoming, n + 1, Len(incoming))
          /\ moved' = moved + n
    /\ UNCHANGED <<blocking, peerVars, calling, asked, outgoing, reported, taken, trusts>>

(* recv at buf + bytes_recv.                                               *)
Recv ==
    /\ calling \in {"recv", "recvn"} /\ moved < asked /\ link \in {"up", "closed"}
    /\ calling = "recv" => moved = 0
    /\ \E n \in 1 .. Least(Len(incoming), asked - moved) :
          LET from == taken + moved IN
          /\ received' = [i \in DOMAIN received |->
                             IF i - from \in 1 .. n THEN incoming[i - from] ELSE received[i]]
          /\ incoming' = SubSeq(incoming, n + 1, Len(incoming))
          /\ moved' = moved + n
    /\ UNCHANGED <<blocking, peerVars, calling, asked, outgoing, reported, taken, trusts>>

(* The system's call failed: it would block, or the link is down.  recv of *)
(* a closed link returns 0, with which recvn tries again, for ever.        *)
Fails ==
    \/ link = "reset" \/ (link = "closed" /\ calling \in {"send", "sendn"})
    \/ ~blocking /\ calling \in {"send", "sendn"} /\ Len(outgoing) = Room
    \/ ~blocking /\ link = "up" /\ calling \in {"recv", "recvn"} /\ incoming = << >>
    \/ calling = "recv" /\ link = "closed" /\ incoming = << >>

(* Mutated form of Return: an error returns -1, whatever was moved.        *)
Return_Error ==
    /\ calling \in {"send", "sendn", "recv", "recvn"}
    /\ moved = asked \/ (moved > 0 /\ calling \in {"send", "recv"}) \/ Fails
    /\ calling' = "idle" /\ moved' = 0
    /\ reported' = IF calling \in {"send", "sendn"} /\ ~Fails THEN reported + moved ELSE reported
    /\ taken' = IF calling \in {"recv", "recvn"} /\ ~Fails THEN taken + moved ELSE taken
    /\ UNCHANGED <<blocking, peerVars, asked, outgoing, incoming, received, trusts>>

(* The call returns what it moved, all of it, or less after an error.      *)
Return ==
    /\ calling \in {"send", "sendn", "recv", "recvn"}
    /\ moved = asked \/ (moved > 0 /\ calling \in {"send", "recv"}) \/ Fails
    /\ calling' = "idle" /\ moved' = 0
    /\ reported' = IF calling \in {"send", "sendn"} THEN reported + moved ELSE reported
    /\ taken' = IF calling \in {"recv", "recvn"} THEN taken + moved ELSE taken
    /\ UNCHANGED <<blocking, peerVars, asked, outgoing, incoming, received, trusts>>

CallStep == Select \/ Send \/ Recv \/ Return

-----------------------------------------------------------------------------
(* The peer.                                                               *)
unchangedCall == <<blocking, calling, asked, moved, received, reported, taken, trusts>>

Answer ==
    /\ link = "pending"
    /\ link' \in {"up", "refused"}
    /\ UNCHANGED <<unchangedCall, outgoing, arrived, incoming, given>>

PeerRead ==
    /\ link \in {"up", "closed"} /\ outgoing # << >>
    /\ arrived' = Append(arrived, Head(outgoing)) /\ outgoing' = Tail(outgoing)
    /\ UNCHANGED <<unchangedCall, link, incoming, given>>

PeerWrite ==
    /\ link = "up" /\ given < StreamBytes /\ Len(incoming) < Room
    /\ given' = given + 1 /\ incoming' = Append(incoming, given + 1)
    /\ UNCHANGED <<unchangedCall, link, outgoing, arrived>>

PeerReset ==
    /\ link = "up" /\ link' = "reset"
    /\ outgoing' = << >> /\ incoming' = << >>
    /\ UNCHANGED <<unchangedCall, arrived, given>>

PeerClose ==
    /\ link = "up" /\ link' = "closed"
    /\ PeerStays => given = StreamBytes
    /\ UNCHANGED <<unchangedCall, outgoing, arrived, incoming, given>>

StreamNext ==
    \/ \E yes \in BOOLEAN : Connect(yes) \/ SetBlock(yes)
    \/ \E call \in {"send", "sendn", "recv", "recvn"}, len \in 1 .. StreamBytes :
          SendCall(call, len) \/ RecvCall(call, len)
    \/ CallStep \/ Answer \/ PeerRead \/ PeerWrite \/ PeerReset \/ PeerClose

-----------------------------------------------------------------------------
(* What the peer reads is what the calls reported as sent, what is in the  *)
(* user's buffer is what the peer sent, in order, however the calls were   *)
(* cut short; a socket that connect reported as connected is.              *)
Numbers(n) == [i \in 1 .. n |-> i]
Sending    == IF calling \in {"send", "sendn"} THEN moved ELSE 0
Receiving  == IF calling \in {"recv", "recvn"} THEN moved ELSE 0

TransfersTrue ==
    /\ IF link = "reset" THEN arrived = Numbers(Len(arrived))
       ELSE arrived \o outgoing = Numbers(reported + Sending)
    /\ SubSeq(received, 1, taken + Receiving) = Numbers(taken + Receiving)
    /\ trusts => link \in {"up", "reset", "closed"}

(* Every call returns while the peer reads and writes.                     *)
TransfersReturn == []<>(calling = "idle")
-----------------------------------------------------------------------------
(* The times.  One second has so many of a unit.                           *)
Units == [s |-> 1, ms |-> 1000, us |-> 1000000, ns |-> 1000000000]

(* util_time_*, util_process_clock_* and util_timestamp_* of a time; their *)
(* Windows forms all count milliseconds.                                   *)
TimeGetTime(t)  == (t[1] * 1000 + t[2] \div 1000000) % WrapMs
Clock(t, unit) ==
    IF ~windows THEN t[1] * Units[unit] + t[2] \div (Units.ns \div Units[unit])
    ELSE IF unit = "s" THEN TimeGetTime(t) \div 1000
    ELSE TimeGetTime(t) * (Units[unit] \div 1000)

(* util_process_clock_difference: of two unsigned numbers, as a signed one.*)
Difference(end, start) ==
    LET d == (end - start) % WrapMs IN IF d < WrapMs \div 2 THEN d ELSE d - WrapMs

(* util_system_counter_time_us, from nanoseconds.                          *)
CounterUs(end, start) == (Clock(end, "ns") - Clock(start, "ns")) \div 1000

(* Mutated form of Timespec: the nanoseconds are not those of the rest.    *)
Timespec_Whole(unit, d) == <<d \div Units[unit], d * (Units.ns \div Units[unit])>>

(* The timespec of util_sleep_s, _ms, _us and _ns; Sleep() is told the     *)
(* whole milliseconds.                                                     *)
Timespec(unit, d) ==
    LET sec == d \div Units[unit] IN
    <<sec, (d - sec * Units[unit]) * (Units.ns \div Units[unit])>>

SleepMs(unit, d) == IF unit = "s" THEN d * 1000 ELSE d \div (Units[unit] \div 1000)

(* util_timeradd, util_timersub and util_timercmp, on <<seconds, parts>>.  *)
Carried(t, whole) ==
    IF t[2] >= whole THEN <<t[1] + 1, t[2] - whole>>
    ELSE IF t[2] < 0 THEN <<t[1] - 1, t[2] + whole>> ELSE t
Timeradd(t, u) == Carried(<<t[1] + u[1], t[2] + u[2]>>, Units.us)
Timersub(t, u) == Carried(<<t[1] - u[1], t[2] - u[2]>>, Units.us)
Timercmp(t, u) ==
    IF t[1] # u[1] THEN (IF t[1] > u[1] THEN 1 ELSE -1)
    ELSE IF t[2] = u[2] THEN 0 ELSE IF t[2] > u[2] THEN 1 ELSE -1

(* The thread sleeps, once, and wakes up as late as late says.             *)
(* nanosleep returns at once when there is a second or more in tv_nsec.    *)
Sleep(unit, d, late) ==
    LET ts == IF windows THEN Timespec("ms", SleepMs(unit, d)) ELSE Timespec(unit, d)
        slept == IF ts[2] \in 0 .. Units.ns - 1 THEN <<ts[1], ts[2] + late>> ELSE <<0, 0>> IN
    /\ request = <<"s", 0>> /\ request' = <<unit, d>>
    /\ before' = time
    /\ time' = Carried(<<time[1] + slept[1], time[2] + slept[2]>>, Units.ns)
    /\ UNCHANGED windows

ClockNext == \E unit \in DOMAIN Durations : \E d \in Durations[unit], late \in {0, 1} :
                Sleep(unit, d, late)

-----------------------------------------------------------------------------
(* A sleep lasts as long as it was asked to (on Windows whole              *)
(* milliseconds), by every clock and over the end of timeGetTime(); the    *)
(* clocks of all units tell the same time; and adding, subtracting and     *)
(* comparing times agree.                                                  *)
Timeval(t) == <<t[1], t[2] \div 1000>>

TimesTrue ==
    LET unit == request[1]  d == request[2]
        slept == Timeval(Timespec(unit, d)) IN
    /\ IF windows THEN Difference(Clock(time, "ms"), Clock(before, "ms")) >= SleepMs(unit, d)
       ELSE /\ Clock(time, unit) - Clock(before, unit) >= d
            /\ \A u \in {"s", "ms", "us"} :
                  Clock(time, u) = Clock(time, "ns") \div (Units.ns \div Units[u])
            /\ CounterUs(time, before) >= slept[1] * Units.us + slept[2]
    /\ LET sum == Timeradd(Timeval(before), slept) IN
          /\ sum[2] \in 0 .. Units.us - 1
          /\ Timersub(sum, slept) = Timeval(before)
          /\ Timercmp(sum, Timeval(before)) = IF slept = <<0, 0>> THEN 0 ELSE 1
          /\ ~windows => Timercmp(Timeval(time), sum) >= 0
=============================================================================
