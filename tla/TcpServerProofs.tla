-------------------------- MODULE TcpServerProofs ---------------------------
(***************************************************************************)
(* The inductive invariant of TcpServer, for any number of accept threads, *)
(* connections and objects and any size of the chunks.                     *)
(***************************************************************************)
EXTENDS TcpServer, SequenceTheorems, FiniteSetTheorems, TLAPS

LEMMA AppendNew ==
    ASSUME NEW S, NEW s \in Seq(S), IsInjective(s), NEW e \in S, e \notin Range(s)
    PROVE  /\ Append(s, e) \in Seq(S)
           /\ IsInjective(Append(s, e))
           /\ Range(Append(s, e)) = Range(s) \cup {e}
<1> DEFINE n == Len(s)  t == Append(s, e)
<1>1. /\ n \in Nat /\ DOMAIN s = 1 .. n
      /\ t \in Seq(S) /\ Len(t) = n + 1
      /\ \A i \in 1 .. n : t[i] = s[i]
      /\ t[n + 1] = e
  BY LenProperties, AppendProperties
<1>2. DOMAIN t = 1 .. n + 1
  BY <1>1, LenProperties
<1> HIDE DEF n, t
<1>3. \A i \in 1 .. n : s[i] # e
  BY <1>1 DEF Range
<1>4. IsInjective(t)
  BY <1>1, <1>2, <1>3 DEF IsInjective
<1>5. Range(t) = Range(s) \cup {e}
  <2>1. ASSUME NEW x PROVE x \in Range(t) <=> x \in Range(s) \cup {e}
    BY <1>1, <1>2 DEF Range
  <2> QED BY <2>1
<1> QED BY <1>1, <1>4, <1>5 DEF t

LEMMA TakeFirst ==
    ASSUME NEW S, NEW s \in Seq(S), IsInjective(s), s # << >>
    PROVE  /\ Head(s) \in S /\ Head(s) \in Range(s)
           /\ Tail(s) \in Seq(S) /\ IsInjective(Tail(s))
           /\ Range(Tail(s)) = Range(s) \ {Head(s)}
<1> DEFINE n == Len(s)  t == Tail(s)
<1>1. /\ n \in Nat \ {0} /\ DOMAIN s = 1 .. n
      /\ Head(s) \in S /\ Head(s) = s[1]
      /\ t \in Seq(S) /\ Len(t) = n - 1
      /\ \A i \in 1 .. n - 1 : t[i] = s[i + 1]
  BY LenProperties, HeadTailProperties, EmptySeq
<1>2. DOMAIN t = 1 .. n - 1
  BY <1>1, LenProperties
<1> HIDE DEF n, t
<1>3. IsInjective(t)
  BY <1>1, <1>2, SMTT(60) DEF IsInjective
<1>4. Range(t) = Range(s) \ {Head(s)}
  <2>1. ASSUME NEW x \in Range(s), x # Head(s) PROVE x \in Range(t)
    <3>1. PICK i \in 1 .. n : s[i] = x
      BY <1>1 DEF Range
    <3>2. i # 1 /\ i - 1 \in 1 .. n - 1 /\ t[i - 1] = x
      BY <1>1, <2>1, <3>1
    <3> QED BY <1>2, <3>2 DEF Range
  <2>2. ASSUME NEW i \in 1 .. n - 1 PROVE t[i] \in Range(s) /\ t[i] # Head(s)
    <3>1. t[i] = s[i + 1] /\ i + 1 \in 1 .. n /\ i + 1 # 1 /\ 1 \in 1 .. n
      BY <1>1
    <3> QED BY <1>1, <3>1 DEF Range, IsInjective
  <2>3. \A x \in Range(t) : x \in Range(s) /\ x # Head(s)
    BY <1>2, <2>2 DEF Range
  <2> QED BY <2>1, <2>3
<1>5. Head(s) \in Range(s)
  BY <1>1 DEF Range
<1> QED BY <1>1, <1>3, <1>4, <1>5 DEF t

LEMMA TakeLast ==
    ASSUME NEW S, NEW s \in Seq(S), IsInjective(s), s # << >>
    PROVE  /\ Last(s) \in S /\ Last(s) \in Range(s)
           /\ Front(s) \in Seq(S) /\ IsInjective(Front(s))
           /\ Range(Front(s)) = Range(s) \ {Last(s)}
<1> DEFINE n == Len(s)  t == Front(s)
<1>1. /\ n \in Nat \ {0} /\ DOMAIN s = 1 .. n
      /\ Last(s) = s[n] /\ n \in 1 .. n
      /\ \A i \in 1 .. n : s[i] \in S
  BY LenProperties, EmptySeq, ElementOfSeq DEF Last
<1>2. /\ t \in Seq(S) /\ Len(t) = n - 1
      /\ \A i \in 1 .. n - 1 : t[i] = s[i]
  <2>1. n - 1 \in Int /\ 1 \in Int /\ \A i \in 1 .. n - 1 : s[i] \in S
    BY <1>1
  <2>2. /\ SubSeq(s, 1, n - 1) \in Seq(S)
        /\ Len(SubSeq(s, 1, n - 1)) = IF 1 <= n - 1 THEN n - 1 - 1 + 1 ELSE 0
        /\ \A i \in 1 .. n - 1 - 1 + 1 : SubSeq(s, 1, n - 1)[i] = s[1 + i - 1]
    BY <2>1, SubSeqProperties
  <2> HIDE DEF n
  <2>3. \A i \in 1 .. n - 1 : i \in 1 .. n - 1 - 1 + 1 /\ 1 + i - 1 = i
    BY <1>1
  <2> QED BY <1>1, <2>2, <2>3 DEF Front, n
<1>3. DOMAIN t = 1 .. n - 1
  BY <1>2, LenProperties
<1> HIDE DEF n, t
<1>4. IsInjective(t)
  BY <1>1, <1>2, <1>3 DEF IsInjective
<1>5. Range(t) = Range(s) \ {Last(s)}
  <2>1. ASSUME NEW x \in Range(s), x # Last(s) PROVE x \in Range(t)
    <3>1. PICK i \in 1 .. n : s[i] = x
      BY <1>1 DEF Range
    <3>2. i \in 1 .. n - 1
      BY <1>1, <2>1, <3>1
    <3> QED BY <1>2, <1>3, <3>1, <3>2 DEF Range
  <2>2. ASSUME NEW i \in 1 .. n - 1 PROVE t[i] \in Range(s) /\ t[i] # Last(s)
    <3>1. t[i] = s[i] /\ i \in 1 .. n /\ i # n
      BY <1>1, <1>2
    <3> QED BY <1>1, <3>1 DEF Range, IsInjective
  <2>3. \A x \in Range(t) : x \in Range(s) /\ x # Last(s)
    BY <1>3, <2>2 DEF Range
  <2> QED BY <2>1, <2>3
<1>6. Last(s) \in Range(s)
  BY <1>1 DEF Range
<1> QED BY <1>1, <1>2, <1>4, <1>5, <1>6 DEF t

-----------------------------------------------------------------------------
(* Each part of the invariant needs only these variables.                  *)

LEMMA PlacesFrame ==
    ASSUME PlacesAgree, UNCHANGED <<tpc, thandler, tfd>>
    PROVE  PlacesAgree'
BY DEF PlacesAgree

LEMMA PoolFrame ==
    ASSUME PoolAgrees, UNCHANGED <<free_objects, created, interest, event_mask, thandler>>,
           pending' \subseteq interest, events' \subseteq events \cup pending
    PROVE  PoolAgrees'
BY DEF PoolAgrees, Created, Free, Held, Watched

LEMMA HandsFrame ==
    ASSUME HandsAgree, UNCHANGED <<tpc, thandler, interest, event_mask, events>>
    PROVE  HandsAgree'
BY DEF HandsAgree, Watched

LEMMA SocketsFrame ==
    ASSUME SocketsAgree, UNCHANGED <<tpc, thandler, tfd, socket_, fd, interest>>
    PROVE  SocketsAgree'
BY DEF SocketsAgree, Watched, InRunner, InHand, Has

LEMMA BacklogFrame ==
    ASSUME BacklogAgrees, UNCHANGED <<backlog, fd>>, made \subseteq made'
    PROVE  BacklogAgrees'
BY DEF BacklogAgrees

(* What is created, watched or in the runner's hands is a handler.         *)
LEMMA OnlyHandlers ==
    ASSUME ServerAssumption, TypeOK, PoolAgrees
    PROVE  Created \subseteq Handlers /\ Watched \subseteq Handlers /\ InRunner \subseteq Handlers
<1>1. \A i \in 1 .. created : ObjectOrder[i] \in Handlers
  <2>1. ObjectOrder \in Seq(Handlers) /\ Len(ObjectOrder) \in Nat
    BY LenProperties DEF ServerAssumption
  <2>2. \A i \in 1 .. created : i \in 1 .. Len(ObjectOrder)
    BY <2>1 DEF TypeOK
  <2> QED BY <2>1, <2>2, ElementOfSeq
<1>2. Created \subseteq Handlers
  BY <1>1 DEF Created
<1>3. Runner \in Threads
  BY DEF Threads
<1> QED BY <1>2, <1>3 DEF PoolAgrees, InRunner, InHand, TypeOK

-----------------------------------------------------------------------------
LEMMA InitHolds ==
    ASSUME ServerAssumption, Init
    PROVE  IInv
<1>1. TypeOK /\ PlacesAgree
  <2>1. Len(ObjectOrder) \in Nat
    BY LenProperties DEF ServerAssumption
  <2> QED
    BY <2>1, EmptySeq DEF ServerAssumption, Init, TypeOK, PlacesAgree, Threads, Opening,
       Accepting, Reading
<1>2. PoolAgrees
  BY DEF ServerAssumption, Init, PoolAgrees, Created, Free, Held, Watched, Range, IsInjective
<1>3. HandsAgree
  BY DEF ServerAssumption, Init, HandsAgree, Threads, Watched, Opening
<1>4. SocketsAgree
  BY DEF ServerAssumption, Init, SocketsAgree, Threads, Watched, InRunner, InHand, Has, Accepting, Opening
<1>5. BacklogAgrees
  BY DEF Init, BacklogAgrees, IsInjective, Range
<1> QED BY <1>1, <1>2, <1>3, <1>4, <1>5 DEF IInv

LEMMA ConnectHolds ==
    ASSUME IInv, NEW c \in Conns, Connect(c)
    PROVE  IInv'
<1> USE DEF Connect, IInv
<1>1. TypeOK'
  <2>1. backlog' \in Seq(Conns) /\ made' \subseteq Conns
    <3>1. backlog' = Append(backlog, c) \/ backlog' = backlog
      OBVIOUS
    <3>2. backlog \in Seq(Conns) /\ Append(backlog, c) \in Seq(Conns) /\ made \subseteq Conns
      BY AppendProperties DEF TypeOK
    <3> QED BY <3>1, <3>2
  <2> QED BY <2>1 DEF TypeOK, poolVars, localVars
<1>2. pending' \subseteq interest
  BY DEF PoolAgrees, Edge, poolVars
<1>3. BacklogAgrees'
  <2>1. c \notin Range(backlog)
    BY DEF BacklogAgrees
  <2>2. CASE backlog' = Append(backlog, c)
    <3>1. IsInjective(backlog') /\ Range(backlog') = Range(backlog) \cup {c}
      BY <2>1, <2>2, AppendNew DEF TypeOK, BacklogAgrees
    <3> QED BY <3>1 DEF BacklogAgrees
  <2>3. CASE UNCHANGED backlog
    BY <2>3 DEF BacklogAgrees
  <2> QED BY <2>2, <2>3
<1> QED
  BY <1>1, <1>2, <1>3, PlacesFrame, PoolFrame, HandsFrame, SocketsFrame DEF poolVars, localVars

LEMMA ClientCloseHolds ==
    ASSUME IInv, NEW c \in Conns, ClientClose(c)
    PROVE  IInv'
<1> USE DEF ClientClose, IInv
<1>1. TypeOK'
  BY DEF TypeOK, Threads, poolVars, localVars
<1>2. pending' \subseteq interest
  BY DEF PoolAgrees, Edge
<1> QED
  BY <1>1, <1>2, PlacesFrame, PoolFrame, HandsFrame, SocketsFrame, BacklogFrame DEF poolVars, localVars

LEMMA LoopHolds ==
    ASSUME ServerAssumption, IInv, NEW t \in Threads, Loop(t) \/ AcceptNothing(t)
    PROVE  IInv'
<1> USE DEF Loop, AcceptNothing, IInv, Goto
<1>0. /\ tpc[t] \in {"loop", "accept"} /\ tpc'[t] \in {"accept", "exited", "dispatch", "blocked"}
      /\ tpc' = [tpc EXCEPT ![t] = tpc'[t]] /\ tpc'[t] = "dispatch" => t = Runner
      /\ UNCHANGED <<epollVars, poolVars, kernelVars, localVars, fd, socket_>>
  BY DEF TypeOK
<1>1. TypeOK'
  BY <1>0 DEF TypeOK, poolVars, localVars, kernelVars
<1>4. PlacesAgree'
  BY <1>0, SMTT(60) DEF TypeOK, PlacesAgree, Threads, localVars, Opening, Accepting, Reading, ServerAssumption
<1>2. HandsAgree'
  BY <1>0 DEF HandsAgree, TypeOK, Threads, Watched, epollVars, localVars, Opening
<1>3. SocketsAgree'
  BY <1>0, SMTT(60) DEF TypeOK, SocketsAgree, Threads, Watched, InRunner, InHand, Has, Accepting, Opening, epollVars, localVars
<1> QED
  BY <1>0, <1>1, <1>2, <1>3, <1>4, PoolFrame, BacklogFrame DEF poolVars, localVars, epollVars, kernelVars, PoolAgrees

(* The next connection of the backlog is the thread's.                     *)
LEMMA AcceptHolds ==
    ASSUME ServerAssumption, IInv, NEW t \in Threads, Accept(t)
    PROVE  IInv'
<1> DEFINE c == Head(backlog)
<1> USE DEF Accept, IInv, Goto
<1>1. /\ c \in Conns /\ c \in Range(backlog) /\ c # NoConn
      /\ backlog' \in Seq(Conns) /\ IsInjective(backlog')
      /\ Range(backlog') = Range(backlog) \ {c}
      /\ fd' = fd \cup {c} /\ tfd' = [tfd EXCEPT ![t] = c]
      /\ tpc[t] \in {"accept", "blocked"} /\ tpc' = [tpc EXCEPT ![t] = "alloc"]
      /\ UNCHANGED <<epollVars, poolVars, made, eof, thandler, socket_>>
  BY TakeFirst DEF TypeOK, BacklogAgrees, ServerAssumption
<1>2. c \notin fd
  BY <1>1 DEF BacklogAgrees
<1> HIDE DEF c, Accept
<1>3. TypeOK'
  BY <1>1 DEF TypeOK, poolVars, Accepting
<1>4. PlacesAgree'
  BY <1>1 DEF TypeOK, PlacesAgree, Threads, Opening, Accepting, Reading
<1>5. HandsAgree'
  BY <1>1 DEF TypeOK, HandsAgree, Threads, Watched, Opening, epollVars
<1>6. SocketsAgree'
  <2>1. InRunner' = InRunner /\ \A h \in InRunner : socket_'[h] = socket_[h]
    BY <1>1 DEF InRunner, InHand, Watched, epollVars, TypeOK
  <2>2. \A u \in Threads : /\ Has(u)' <=> u = t \/ Has(u)
                           /\ tfd'[u] = IF u = t THEN c ELSE tfd[u]
    BY <1>1 DEF TypeOK, Has, Accepting, Opening
  <2>3. (\A u \in Threads : tfd[u] # c) /\ (\A h \in InRunner : socket_[h] # c)
    BY <1>1, <1>2 DEF SocketsAgree, PlacesAgree, HandsAgree, Has, InRunner
  <2>4. \A u \in Threads : tpc'[u] \in {"add", "mask"} => socket_'[thandler'[u]] = tfd'[u]
    BY <1>1, <2>2 DEF SocketsAgree, TypeOK
  <2>5. \A u, v \in Threads : u # v /\ tfd'[u] # NoConn => tfd'[u] # tfd'[v]
    BY <2>2, <2>3 DEF SocketsAgree
  <2>6. \A u \in Threads : Has(u)' => \A h \in InRunner' : socket_'[h] # tfd'[u]
    BY <2>1, <2>2, <2>3 DEF SocketsAgree
  <2>7. \A x \in Conns : x \in fd' <=> \/ \E u \in Threads : Has(u)' /\ tfd'[u] = x
                                       \/ \E h \in InRunner' : socket_'[h] = x
    <3> SUFFICES ASSUME NEW x \in Conns
                 PROVE  x \in fd' <=> \/ \E u \in Threads : Has(u)' /\ tfd'[u] = x
                                     \/ \E h \in InRunner' : socket_'[h] = x
      OBVIOUS
    <3>1. CASE x = c
      BY <1>1, <2>2, <3>1
    <3>2. CASE x # c
      <4>1. x \in fd' <=> x \in fd
        BY <1>1, <3>2
      <4>2. \A u \in Threads : Has(u)' /\ tfd'[u] = x <=> Has(u) /\ tfd[u] = x
        BY <2>2, <2>3, <3>2, <1>1 DEF PlacesAgree, Has, Accepting, Opening
      <4> QED BY <2>1, <4>1, <4>2 DEF SocketsAgree
    <3> QED BY <3>1, <3>2
  <2> QED
    BY <1>1, <2>1, <2>4, <2>5, <2>6, <2>7 DEF SocketsAgree
<1>7. BacklogAgrees'
  BY <1>1 DEF BacklogAgrees
<1> QED
  BY <1>1, <1>3, <1>4, <1>5, <1>6, <1>7, PoolFrame DEF PoolAgrees, poolVars, epollVars

LEMMA HandleOpenHolds ==
    ASSUME ServerAssumption, IInv, NEW t \in Threads, HandleOpen(t)
    PROVE  IInv'
<1> DEFINE h == thandler[t]
<1> USE DEF HandleOpen, IInv, Goto
<1>1. /\ tpc[t] = "open" /\ tpc'[t] \in {"add", "undo"} /\ tpc' = [tpc EXCEPT ![t] = tpc'[t]]
      /\ h \in Handlers /\ tfd[t] \in Conns /\ h \notin Watched
      /\ socket_' = [socket_ EXCEPT ![h] = tfd[t]]
      /\ UNCHANGED <<epollVars, poolVars, kernelVars, localVars, fd>>
  BY DEF TypeOK, PlacesAgree, HandsAgree, Opening, Accepting
<1>2. \A u \in Threads : u # t /\ tpc[u] \in Opening => thandler[u] # h
  BY <1>1 DEF HandsAgree, Opening
<1>3. h \notin InRunner
  BY <1>1 DEF InRunner, InHand, HandsAgree, Threads, Opening, PlacesAgree
<1> HIDE DEF h, HandleOpen
<1>4. TypeOK'
  BY <1>1 DEF TypeOK, poolVars, kernelVars, localVars, Accepting, Opening
<1>5. PlacesAgree'
  BY <1>1 DEF TypeOK, PlacesAgree, Threads, Opening, Accepting, Reading, localVars
<1>6. HandsAgree'
  BY <1>1 DEF TypeOK, HandsAgree, Threads, Watched, Opening, epollVars, localVars
<1>7. SocketsAgree'
  <2>1. InRunner' = InRunner /\ \A g \in InRunner : socket_'[g] = socket_[g]
    BY <1>1, <1>3, OnlyHandlers DEF Threads, InRunner, InHand, Watched, epollVars, localVars, TypeOK
  <2>2. \A u \in Threads : (Has(u)' <=> Has(u)) /\ tfd'[u] = tfd[u]
    BY <1>1 DEF TypeOK, Has, Accepting, Opening, localVars
  <2>3. \A u \in Threads : tpc'[u] \in {"add", "mask"} => socket_'[thandler'[u]] = tfd'[u]
    BY <1>1, <1>2 DEF SocketsAgree, TypeOK, h, Opening, localVars
  <2> QED
    BY <1>1, <2>1, <2>2, <2>3 DEF SocketsAgree, localVars
<1> QED
  BY <1>1, <1>4, <1>5, <1>6, <1>7, PoolFrame, BacklogFrame
     DEF PoolAgrees, poolVars, epollVars, kernelVars, localVars

LEMMA CloseFdHolds ==
    ASSUME ServerAssumption, IInv, NEW t \in Threads, CloseFd(t)
    PROVE  IInv'
<1> USE DEF CloseFd, IInv, Goto, NextAccept
<1>1. /\ tpc[t] = "close_fd" /\ tpc'[t] = IF t = Runner THEN "accept" ELSE "loop"
      /\ tpc' = [tpc EXCEPT ![t] = tpc'[t]]
      /\ tfd[t] \in Conns /\ tfd' = [tfd EXCEPT ![t] = NoConn] /\ fd' = fd \ {tfd[t]}
      /\ UNCHANGED <<epollVars, poolVars, kernelVars, thandler, socket_>>
  BY DEF TypeOK, PlacesAgree, Opening, Accepting
<1> HIDE DEF CloseFd
<1>4. TypeOK'
  BY <1>1 DEF TypeOK, poolVars, kernelVars
<1>5. PlacesAgree'
  BY <1>1 DEF TypeOK, PlacesAgree, Threads, Opening, Accepting, Reading
<1>6. HandsAgree'
  BY <1>1 DEF TypeOK, HandsAgree, Threads, Watched, Opening, epollVars
<1>7. SocketsAgree'
  <2>1. InRunner' = InRunner /\ \A h \in InRunner : socket_'[h] = socket_[h]
    BY <1>1 DEF InRunner, InHand, Watched, epollVars, TypeOK, Threads
  <2>2. \A u \in Threads : /\ Has(u)' <=> u # t /\ Has(u)
                           /\ tfd'[u] = IF u = t THEN NoConn ELSE tfd[u]
    BY <1>1 DEF TypeOK, Has, Accepting, Opening
  <2>3. /\ \A u \in Threads \ {t} : tfd[u] # tfd[t]
        /\ \A h \in InRunner : socket_[h] # tfd[t]
    BY <1>1 DEF SocketsAgree, PlacesAgree, Has, Accepting
  <2>4. \A u \in Threads : tpc'[u] \in {"add", "mask"} => socket_'[thandler'[u]] = tfd'[u]
    BY <1>1, <2>2 DEF SocketsAgree, TypeOK
  <2>7. \A x \in Conns : x \in fd' <=> \/ \E u \in Threads : Has(u)' /\ tfd'[u] = x
                                       \/ \E h \in InRunner' : socket_'[h] = x
    BY <1>1, <2>1, <2>2, <2>3 DEF SocketsAgree
  <2> QED
    BY <1>1, <2>1, <2>2, <2>4, <2>7 DEF SocketsAgree, PlacesAgree, Has
<1>8. BacklogAgrees'
  BY <1>1 DEF BacklogAgrees, kernelVars
<1> QED
  BY <1>1, <1>4, <1>5, <1>6, <1>7, <1>8, PoolFrame DEF PoolAgrees, poolVars, epollVars
(* A new chunk of the pool holds objects nobody has yet.                   *)
LEMMA NewChunk ==
    ASSUME ServerAssumption, created \in Nat, created + ChunkSize <= Len(ObjectOrder)
    PROVE  LET chunk == [i \in 1 .. ChunkSize |-> ObjectOrder[created + i]]
           IN  /\ chunk \in Seq(Handlers) /\ chunk # << >> /\ IsInjective(chunk)
               /\ Range(chunk) \cap Created = {}
               /\ {ObjectOrder[i] : i \in 1 .. created + ChunkSize} = Created \cup Range(chunk)
<1> DEFINE chunk == [i \in 1 .. ChunkSize |-> ObjectOrder[created + i]]
           n == Len(ObjectOrder)
<1>1. /\ ChunkSize \in Nat \ {0} /\ n \in Nat /\ DOMAIN ObjectOrder = 1 .. n
      /\ \A i \in 1 .. n : ObjectOrder[i] \in Handlers
      /\ \A i, j \in 1 .. n : ObjectOrder[i] = ObjectOrder[j] => i = j
  BY LenProperties, ElementOfSeq DEF ServerAssumption, IsInjective
<1> HIDE DEF n
<1>2. \A i \in 1 .. ChunkSize : created + i \in 1 .. n /\ created + i \notin 1 .. created
  BY <1>1 DEF n
<1>3. \A i \in 1 .. created : i \in 1 .. n
  BY <1>1 DEF n
<1>4. /\ DOMAIN chunk = 1 .. ChunkSize
      /\ \A i \in 1 .. ChunkSize : chunk[i] = ObjectOrder[created + i] /\ chunk[i] \in Handlers
  BY <1>1, <1>2
<1>5. chunk \in Seq(Handlers) /\ chunk # << >>
  <2>1. chunk \in [1 .. ChunkSize -> Handlers] /\ 1 \in DOMAIN chunk
    BY <1>1, <1>4
  <2>2. DOMAIN << >> = {}
    OBVIOUS
  <2> HIDE DEF chunk
  <2> QED BY <1>1, <2>1, <2>2
<1> HIDE DEF chunk
<1>6. IsInjective(chunk)
  <2> SUFFICES ASSUME NEW i \in 1 .. ChunkSize, NEW j \in 1 .. ChunkSize, chunk[i] = chunk[j]
               PROVE  i = j
    BY <1>4 DEF IsInjective
  <2>1. created + i = created + j
    BY <1>1, <1>2, <1>4
  <2> QED BY <1>1, <2>1
<1>7. ASSUME NEW i \in 1 .. ChunkSize, NEW j \in 1 .. created PROVE chunk[i] # ObjectOrder[j]
  BY <1>1, <1>2, <1>3, <1>4
<1>8. Range(chunk) \cap Created = {}
  BY <1>4, <1>7 DEF Range, Created
<1>9. {ObjectOrder[i] : i \in 1 .. created + ChunkSize} = Created \cup Range(chunk)
  <2>1. ASSUME NEW i \in 1 .. created + ChunkSize
        PROVE  ObjectOrder[i] \in Created \cup Range(chunk)
    <3>1. CASE i \in 1 .. created
      BY <3>1 DEF Created
    <3>2. CASE i \notin 1 .. created
      <4>1. i - created \in 1 .. ChunkSize /\ created + (i - created) = i
        BY <1>1, <3>2
      <4> QED BY <1>4, <4>1 DEF Range
    <3> QED BY <3>1, <3>2
  <2>2. \A i \in 1 .. created : i \in 1 .. created + ChunkSize
    BY <1>1
  <2>3. \A i \in 1 .. ChunkSize : created + i \in 1 .. created + ChunkSize
    BY <1>1
  <2>4. ASSUME NEW i \in 1 .. created
        PROVE  ObjectOrder[i] \in {ObjectOrder[j] : j \in 1 .. created + ChunkSize}
    BY <2>2
  <2>5. ASSUME NEW i \in 1 .. ChunkSize
        PROVE  chunk[i] \in {ObjectOrder[j] : j \in 1 .. created + ChunkSize}
    BY <1>4, <2>3
  <2> QED BY <1>4, <2>1, <2>4, <2>5 DEF Range, Created
<1> QED BY <1>5, <1>6, <1>8, <1>9 DEF chunk

LEMMA AllocHolds ==
    ASSUME ServerAssumption, IInv, NEW t \in Threads, Alloc(t)
    PROVE  IInv'
<1> DEFINE chunk == [i \in 1 .. ChunkSize |-> ObjectOrder[created + i]]
           more == free_objects = << >> /\ created + ChunkSize <= Len(ObjectOrder)
           objects == IF more THEN chunk ELSE free_objects
           h == Last(objects)
<1> USE DEF IInv
<1>1. /\ tpc[t] = "alloc" /\ tfd[t] # NoConn /\ thandler[t] = NoHandler
      /\ UNCHANGED <<epollVars, kernelVars, tfd, fd, socket_>>
  BY DEF Alloc, PlacesAgree, Opening, Accepting, Reading
<1>2. created \in Nat /\ ChunkSize \in Nat \ {0} /\ Len(ObjectOrder) \in Nat
  BY LenProperties DEF TypeOK, ServerAssumption
<1>3. created' = IF more THEN created + ChunkSize ELSE created
  <2>1. more => chunk # free_objects
    BY <1>2, NewChunk
  <2> QED BY <2>1 DEF Alloc
<1>4. created' \in 0 .. Len(ObjectOrder)
  BY <1>2, <1>3 DEF TypeOK
<1>5. /\ objects \in Seq(Handlers) /\ IsInjective(objects)
      /\ Range(objects) \cap (Watched \cup Held) = {}
      /\ Created' = Range(objects) \cup Watched \cup Held
  <2>1. CASE more
    <3>1. /\ objects = chunk /\ Created' = Created \cup Range(chunk)
          /\ chunk \in Seq(Handlers) /\ IsInjective(chunk) /\ Range(chunk) \cap Created = {}
      BY <1>2, <1>3, <2>1, NewChunk DEF Created
    <3>2. Free = {} /\ Created = Watched \cup Held
      BY <2>1 DEF PoolAgrees, Free, Range
    <3> HIDE DEF objects, chunk
    <3> QED BY <3>1, <3>2
  <2>2. CASE ~more
    <3>1. objects = free_objects /\ Created' = Created
      BY <1>3, <2>2 DEF Created
    <3> QED BY <3>1 DEF PoolAgrees, TypeOK, Free
  <2> QED BY <2>1, <2>2
<1>6. CASE objects = << >>
  <2>1. /\ tpc' = [tpc EXCEPT ![t] = "close_fd"] /\ UNCHANGED <<free_objects, thandler>>
        /\ ~more
    BY <1>2, <1>6, NewChunk DEF Alloc, Goto
  <2>2. TypeOK'
    BY <1>1, <1>4, <2>1 DEF TypeOK, epollVars, kernelVars, Accepting
  <2>3. PlacesAgree'
    BY <1>1, <2>1 DEF TypeOK, PlacesAgree, Opening, Accepting, Reading
  <2>4. PoolAgrees'
    BY <1>1, <1>3, <2>1, PoolFrame DEF PoolAgrees, epollVars
  <2>5. HandsAgree'
    BY <1>1, <2>1 DEF TypeOK, HandsAgree, Threads, Watched, Opening, epollVars
  <2>6. SocketsAgree'
    <3>1. InRunner' = InRunner /\ \A u \in Threads : Has(u)' <=> Has(u)
      BY <1>1, <2>1 DEF TypeOK, Threads, InRunner, InHand, Watched, Has, Accepting, Opening, epollVars
    <3>2. \A u \in Threads : tpc'[u] \in {"add", "mask"} => socket_'[thandler'[u]] = tfd'[u]
      BY <1>1, <2>1 DEF SocketsAgree, TypeOK
    <3> QED BY <1>1, <3>1, <3>2 DEF SocketsAgree
  <2> QED BY <1>1, <2>2, <2>3, <2>4, <2>5, <2>6, BacklogFrame DEF kernelVars
<1>7. CASE objects # << >>
  <2>1. /\ tpc' = [tpc EXCEPT ![t] = "open"] /\ free_objects' = Front(objects)
        /\ thandler' = [thandler EXCEPT ![t] = h]
    BY <1>7 DEF Alloc, Goto
  <2>2. /\ h \in Handlers /\ h \in Range(objects) /\ h # NoHandler
        /\ free_objects' \in Seq(Handlers) /\ IsInjective(free_objects')
        /\ Range(free_objects') = Range(objects) \ {h}
    <3> HIDE DEF objects, IInv
    <3>1. /\ h \in Handlers /\ h \in Range(objects)
          /\ Front(objects) \in Seq(Handlers) /\ IsInjective(Front(objects))
          /\ Range(Front(objects)) = Range(objects) \ {h}
      BY <1>5, <1>7, TakeLast
    <3> HIDE DEF h
    <3> QED BY <2>1, <3>1 DEF ServerAssumption
  <2> HIDE DEF h, objects, chunk, more
  <2>3. TypeOK'
    BY <1>1, <1>4, <2>1, <2>2 DEF TypeOK, epollVars, kernelVars, Accepting, Opening
  <2>4. PlacesAgree'
    BY <1>1, <2>1, <2>2 DEF TypeOK, PlacesAgree, Opening, Accepting, Reading
  <2>5. Held' = Held \cup {h}
    BY <1>1, <2>1, <2>2 DEF Held, TypeOK
  <2>6. PoolAgrees'
    BY <1>1, <1>5, <2>2, <2>5 DEF PoolAgrees, Free, Watched, epollVars
  <2>7. h \notin Watched /\ \A u \in Threads : thandler[u] # h
    BY <1>5, <2>2 DEF Held
  <2>8. HandsAgree'
    BY <1>1, <2>1, <2>2, <2>7 DEF TypeOK, HandsAgree, Threads, Watched, Opening, epollVars
  <2>9. SocketsAgree'
    <3>1. InRunner' = InRunner /\ \A u \in Threads : Has(u)' <=> Has(u)
      BY <1>1, <2>1 DEF TypeOK, Threads, InRunner, InHand, Watched, Has, Accepting, Opening, epollVars
    <3>2. \A u \in Threads : tpc'[u] \in {"add", "mask"} => socket_'[thandler'[u]] = tfd'[u]
      BY <1>1, <2>1 DEF SocketsAgree, TypeOK
    <3> QED BY <1>1, <3>1, <3>2 DEF SocketsAgree
  <2> QED BY <1>1, <2>3, <2>4, <2>6, <2>8, <2>9, BacklogFrame DEF kernelVars
<1> QED BY <1>6, <1>7
(* The handler joins the epoll set, and with it the socket.                *)
LEMMA AddHolds ==
    ASSUME ServerAssumption, IInv, NEW t \in Threads, tpc[t] = "add",
           CtlAdd(thandler[t], tfd[t] \in eof), Goto(t, "mask"),
           UNCHANGED <<poolVars, kernelVars, localVars, fd, socket_>>
    PROVE  IInv'
<1> DEFINE h == thandler[t]
           c == tfd[t]
<1> USE DEF IInv, Goto
<1>1. /\ h \in Handlers /\ c \in Conns /\ h \notin Watched /\ h # Listener
      /\ socket_[h] = c
  BY DEF TypeOK, PlacesAgree, HandsAgree, SocketsAgree, Opening, Accepting, Reading,
     ServerAssumption
<1>2. /\ interest' = interest \cup {h} /\ pending' \subseteq pending \cup {h}
      /\ Watched' = Watched \cup {h} /\ UNCHANGED <<events, event_mask>>
  BY <1>1 DEF CtlAdd, Watched
<1>3. /\ \A u \in Threads : u # t /\ tpc[u] \in Opening => thandler[u] # h
      /\ tpc[Runner] \in {"close", "free"} => thandler[Runner] # h
      /\ h \notin event_mask
  BY <1>1 DEF HandsAgree, PoolAgrees, Opening, Threads
<1>4. TypeOK'
  BY DEF TypeOK, poolVars, kernelVars, localVars, Accepting, Opening
<1>5. PlacesAgree'
  BY DEF TypeOK, PlacesAgree, Opening, Accepting, Reading, localVars
<1>6. PoolAgrees'
  <2>1. h \in Held /\ Held' = Held
    BY <1>1 DEF Held, localVars, ServerAssumption
  <2> QED BY <1>1, <1>2, <2>1 DEF PoolAgrees, Created, Free, poolVars
<1>7. HandsAgree'
  BY <1>1, <1>2, <1>3 DEF TypeOK, HandsAgree, Threads, Opening, localVars
<1>8. SocketsAgree'
  <2>1. InRunner' = InRunner \cup {h} /\ h \notin InRunner
    BY <1>1, <1>2, <1>3 DEF InRunner, InHand, localVars, TypeOK, Threads
  <2>2. \A u \in Threads : Has(u)' <=> u # t /\ Has(u)
    BY DEF TypeOK, Has, Accepting, Opening
  <2>3. Has(t) /\ socket_[h] = tfd[t]
    BY <1>1 DEF Has, Accepting, Opening
  <2>4. \A u \in Threads : tpc'[u] \in {"add", "mask"} => socket_'[thandler'[u]] = tfd'[u]
    BY <1>1 DEF SocketsAgree, TypeOK, localVars
  <2>5. \A g, f \in InRunner' : socket_'[g] = socket_'[f] => g = f
    BY <2>1, <2>3 DEF SocketsAgree
  <2>6. \A u \in Threads : Has(u)' => \A g \in InRunner' : socket_'[g] # tfd'[u]
    BY <1>1, <2>1, <2>2, <2>3 DEF SocketsAgree, localVars, ServerAssumption
  <2>7. \A x \in Conns : x \in fd' <=> \/ \E u \in Threads : Has(u)' /\ tfd'[u] = x
                                       \/ \E g \in InRunner' : socket_'[g] = x
    BY <2>1, <2>2, <2>3 DEF SocketsAgree, localVars
  <2>8. \A g \in InRunner' : socket_'[g] # NoConn
    BY <1>1, <2>1 DEF SocketsAgree, ServerAssumption
  <2> QED
    BY <2>4, <2>5, <2>6, <2>7, <2>8 DEF SocketsAgree, localVars
<1> QED BY <1>4, <1>5, <1>6, <1>7, <1>8, BacklogFrame DEF kernelVars

LEMMA AddHandleHolds ==
    ASSUME ServerAssumption, IInv, NEW t \in Threads, AddHandle(t)
    PROVE  IInv'
<1>1. CASE CtlAdd(thandler[t], tfd[t] \in eof) /\ Goto(t, "mask")
  BY <1>1, AddHolds DEF AddHandle
<1>2. CASE Goto(t, "undo") /\ UNCHANGED epollVars
  <2> USE DEF IInv
  <2>1. /\ tpc[t] = "add" /\ tpc' = [tpc EXCEPT ![t] = "undo"]
        /\ UNCHANGED <<epollVars, poolVars, kernelVars, localVars, fd, socket_>>
    BY <1>2 DEF AddHandle, Goto
  <2>2. TypeOK' /\ PlacesAgree'
    BY <2>1 DEF TypeOK, PlacesAgree, poolVars, kernelVars, localVars, Accepting, Opening, Reading
  <2>3. HandsAgree'
    BY <2>1 DEF TypeOK, HandsAgree, Threads, Watched, Opening, localVars, epollVars
  <2>4. SocketsAgree'
    <3>1. InRunner' = InRunner /\ \A u \in Threads : Has(u)' <=> Has(u)
      BY <2>1 DEF TypeOK, Threads, InRunner, InHand, Watched, Has, Accepting, Opening, epollVars,
         localVars
    <3>2. \A u \in Threads : tpc'[u] \in {"add", "mask"} => socket_'[thandler'[u]] = tfd'[u]
      BY <2>1 DEF SocketsAgree, TypeOK, localVars
    <3> QED BY <2>1, <3>1, <3>2 DEF SocketsAgree, localVars
  <2> QED
    BY <2>1, <2>2, <2>3, <2>4, PoolFrame, BacklogFrame
       DEF PoolAgrees, kernelVars, poolVars, epollVars, localVars
<1> QED BY <1>1, <1>2 DEF AddHandle

LEMMA AddMaskHolds ==
    ASSUME ServerAssumption, IInv, NEW t \in Threads, AddMask(t)
    PROVE  IInv'
<1> DEFINE h == thandler[t]
<1> USE DEF IInv
<1>1. /\ tpc[t] = "mask" /\ tpc'[t] = (IF t = Runner THEN "accept" ELSE "loop")
      /\ tpc' = [tpc EXCEPT ![t] = tpc'[t]]
      /\ tfd' = [tfd EXCEPT ![t] = NoConn] /\ thandler' = [thandler EXCEPT ![t] = NoHandler]
      /\ event_mask' = event_mask \cup {h}
      /\ UNCHANGED <<interest, pending, events, poolVars, kernelVars, fd, socket_>>
  BY DEF AddMask, Goto, NextAccept, SetMask, TypeOK
<1>2. h \in Watched /\ \A u \in Threads : u # t /\ tpc[u] \in Opening => thandler[u] # h
  BY <1>1 DEF HandsAgree, Opening
<1>3. TypeOK'
  BY <1>1 DEF TypeOK, poolVars, kernelVars
<1>4. PlacesAgree'
  BY <1>1 DEF TypeOK, PlacesAgree, Threads, Opening, Accepting, Reading
<1>5. PoolAgrees'
  <2>1. Held' \subseteq Held /\ Held \subseteq Held' \cup {h}
    BY <1>1 DEF Held, TypeOK
  <2>2. Watched' = Watched /\ Free' = Free /\ Created' = Created
    BY <1>1 DEF Watched, Free, Created, poolVars
  <2> QED BY <1>1, <1>2, <2>1, <2>2 DEF PoolAgrees, poolVars
<1>6. HandsAgree'
  <2>1. tpc[Runner] \in {"close", "free"} => thandler[Runner] # NoHandler
    BY DEF PlacesAgree, Reading, Threads
  <2> QED BY <1>1, <1>2, <2>1 DEF TypeOK, HandsAgree, Threads, Watched, Opening
<1>7. SocketsAgree'
  <2>1. InRunner' = InRunner
    BY <1>1 DEF InRunner, InHand, Watched, TypeOK, Threads
  <2>2. \A u \in Threads : /\ Has(u)' <=> Has(u)
                           /\ Has(u) => tfd'[u] = tfd[u]
                           /\ tfd'[u] # NoConn => tfd'[u] = tfd[u] /\ u # t
    BY <1>1 DEF TypeOK, Has, Accepting, Opening
  <2>4. \A u \in Threads : tpc'[u] \in {"add", "mask"} => socket_'[thandler'[u]] = tfd'[u]
    BY <1>1 DEF SocketsAgree, TypeOK
  <2>5. \A u, v \in Threads : u # v /\ tfd'[u] # NoConn => tfd'[u] # tfd'[v]
    BY <1>1, <2>2 DEF SocketsAgree, TypeOK
  <2> QED
    BY <1>1, <2>1, <2>2, <2>4, <2>5 DEF SocketsAgree
<1> QED BY <1>1, <1>3, <1>4, <1>5, <1>6, <1>7, BacklogFrame DEF kernelVars
(* An object goes back to the pool, where it was not and where nobody has  *)
(* it any more.                                                            *)
LEMMA FreeHolds ==
    ASSUME ServerAssumption, IInv, NEW t \in Threads, FreeObject(thandler[t]),
           thandler[t] # NoHandler, thandler[t] \notin Watched,
           \A u \in Threads : u # t => thandler[u] # thandler[t],
           thandler' = [thandler EXCEPT ![t] = NoHandler],
           UNCHANGED <<epollVars, created>>
    PROVE  PoolAgrees' /\ free_objects' \in Seq(Handlers)
<1> DEFINE h == thandler[t]
<1> USE DEF IInv
<1>1. h \in Handlers /\ h \in Held /\ Held' = Held \ {h}
  BY DEF TypeOK, Held
<1>2. h \notin Free
  BY <1>1 DEF PoolAgrees
<1>3. free_objects' = Append(free_objects, h)
  BY DEF FreeObject
<1> HIDE DEF h
<1>4. /\ free_objects' \in Seq(Handlers) /\ IsInjective(free_objects')
      /\ Free' = Free \cup {h}
  BY <1>1, <1>2, <1>3, AppendNew DEF TypeOK, PoolAgrees, Free
<1>5. Watched' = Watched /\ Created' = Created
  BY DEF Watched, Created, epollVars
<1> QED BY <1>1, <1>4, <1>5 DEF PoolAgrees, epollVars, h

LEMMA UndoHolds ==
    ASSUME ServerAssumption, IInv, NEW t \in Threads, Undo(t)
    PROVE  IInv'
<1> DEFINE h == thandler[t]
<1> USE DEF IInv
<1>1. /\ tpc[t] = "undo" /\ tpc' = [tpc EXCEPT ![t] = "close_fd"]
      /\ thandler' = [thandler EXCEPT ![t] = NoHandler] /\ FreeObject(h)
      /\ socket_' = [socket_ EXCEPT ![h] = NoConn] \/ socket_' = socket_
      /\ UNCHANGED <<epollVars, created, kernelVars, tfd, fd>>
  BY DEF Undo, Goto
<1>2. /\ h \in Handlers /\ h # NoHandler /\ h \notin Watched
      /\ \A u \in Threads : u # t => thandler[u] # h
  <2>1. h # NoHandler /\ h \notin Watched /\ h \in Handlers
    BY <1>1 DEF HandsAgree, PlacesAgree, TypeOK, Opening
  <2>2. ASSUME NEW u \in Threads, u # t, thandler[u] = h PROVE FALSE
    <3>1. tpc[u] \in Opening \cup Reading
      BY <2>1, <2>2 DEF PlacesAgree
    <3>2. tpc[u] \notin Opening
      BY <1>1, <2>2 DEF HandsAgree, Opening
    <3>3. u = Runner /\ t \in Acceptors
      BY <2>2, <3>1, <3>2 DEF PlacesAgree, Threads
    <3> QED BY <2>1, <2>2, <3>1, <3>2, <3>3 DEF HandsAgree, Reading
  <2> QED BY <2>1, <2>2
<1> HIDE DEF h
<1>3. PoolAgrees' /\ free_objects' \in Seq(Handlers)
  BY <1>1, <1>2, FreeHolds DEF h
<1>4. TypeOK'
  BY <1>1, <1>2, <1>3 DEF TypeOK, epollVars, kernelVars, Accepting
<1>5. PlacesAgree'
  BY <1>1 DEF TypeOK, PlacesAgree, Opening, Accepting, Reading
<1>6. HandsAgree'
  <2>1. tpc[Runner] \in {"close", "free"} => thandler[Runner] # NoHandler
    BY DEF PlacesAgree, Reading, Threads
  <2> QED BY <1>1, <2>1 DEF TypeOK, HandsAgree, Threads, Watched, Opening, epollVars
<1>7. SocketsAgree'
  <2>1. h \notin InRunner
    BY <1>1, <1>2 DEF InRunner, InHand, Threads
  <2>2. InRunner' = InRunner
    BY <1>1 DEF InRunner, InHand, Watched, TypeOK, Threads, epollVars
  <2>3. \A g \in InRunner : socket_'[g] = socket_[g]
    BY <1>1, <1>2, <2>1, OnlyHandlers DEF TypeOK
  <2>4. \A u \in Threads : Has(u)' <=> Has(u)
    BY <1>1 DEF TypeOK, Has, Accepting, Opening
  <2>5. \A u \in Threads : tpc'[u] \in {"add", "mask"} => socket_'[thandler'[u]] = tfd'[u]
    <3>1. \A u \in Threads : tpc'[u] \in {"add", "mask"} =>
              u # t /\ thandler[u] # h /\ thandler[u] \in Handlers /\ tpc'[u] = tpc[u]
      BY <1>1, <1>2 DEF PlacesAgree, TypeOK, Opening
    <3> QED BY <1>1, <3>1 DEF SocketsAgree, TypeOK
  <2> QED
    BY <1>1, <2>2, <2>3, <2>4, <2>5 DEF SocketsAgree
<1> QED BY <1>1, <1>3, <1>4, <1>5, <1>6, <1>7, BacklogFrame DEF kernelVars

-----------------------------------------------------------------------------
LEMMA WaitHolds ==
    ASSUME ServerAssumption, IInv, Wait
    PROVE  IInv'
<1> USE DEF IInv
<1>1. /\ tpc[Runner] = "wait" /\ tpc' = [tpc EXCEPT ![Runner] = "dispatch"]
      /\ pending' \subseteq pending /\ events' \subseteq pending
      /\ UNCHANGED <<interest, event_mask, poolVars, kernelVars, localVars, fd, socket_>>
  BY DEF Wait, Goto, EpollWait
<1>2. TypeOK' /\ PlacesAgree'
  BY <1>1 DEF TypeOK, PlacesAgree, poolVars, kernelVars, localVars, Accepting, Opening, Reading,
     ServerAssumption, Threads
<1>3. HandsAgree'
  BY <1>1 DEF TypeOK, HandsAgree, Threads, Watched, Opening, localVars
<1>4. SocketsAgree'
  <2>1. InRunner' = InRunner /\ \A u \in Threads : Has(u)' <=> Has(u)
    BY <1>1 DEF TypeOK, Threads, InRunner, InHand, Watched, Has, Accepting, Opening, localVars
  <2>2. \A u \in Threads : tpc'[u] \in {"add", "mask"} => socket_'[thandler'[u]] = tfd'[u]
    BY <1>1 DEF SocketsAgree, TypeOK, localVars
  <2> QED BY <1>1, <2>1, <2>2 DEF SocketsAgree, localVars
<1>5. pending' \subseteq interest
  BY <1>1 DEF PoolAgrees
<1> QED
  BY <1>1, <1>2, <1>3, <1>4, <1>5, PoolFrame, BacklogFrame DEF kernelVars, poolVars, localVars

(* The runner takes up a handler that is still watched.                    *)
LEMMA DispatchHolds ==
    ASSUME ServerAssumption, IInv, Dispatch
    PROVE  IInv'
<1> USE DEF IInv
<1>1. /\ tpc[Runner] = "dispatch" /\ Runner \in Threads
      /\ UNCHANGED <<interest, pending, event_mask, poolVars, kernelVars, tfd, fd, socket_>>
  BY DEF Dispatch, Threads
<1>2. CASE \E h \in events : /\ events' = events \ {h} /\ h # Listener
                            /\ tpc' = [tpc EXCEPT ![Runner] = "read"]
                            /\ thandler' = [thandler EXCEPT ![Runner] = h]
  <2>1. PICK h \in events : /\ events' = events \ {h} /\ h # Listener
                            /\ tpc' = [tpc EXCEPT ![Runner] = "read"]
                            /\ thandler' = [thandler EXCEPT ![Runner] = h]
    BY <1>2
  <2>2. h \in Watched /\ h \in Handlers /\ h # NoHandler /\ h \notin events'
    BY <2>1, OnlyHandlers DEF PoolAgrees, ServerAssumption
  <2>3. TypeOK' /\ PlacesAgree'
    BY <1>1, <2>1, <2>2 DEF TypeOK, PlacesAgree, poolVars, kernelVars, Accepting, Opening,
       Reading, ServerAssumption
  <2>4. PoolAgrees'
    <3>1. Held' = Held \cup {h} \/ Held' = (Held \ {thandler[Runner]}) \cup {h}
      BY <1>1, <2>1, <2>2 DEF Held, TypeOK
    <3>2. thandler[Runner] = NoHandler
      BY <1>1 DEF PlacesAgree, Opening, Reading
    <3> QED BY <1>1, <2>1, <2>2, <3>1, <3>2 DEF PoolAgrees, Watched, Free, Created, poolVars, Held
  <2>5. HandsAgree'
    BY <1>1, <2>1, <2>2 DEF TypeOK, HandsAgree, Threads, Watched, Opening
  <2>6. SocketsAgree'
    <3>1. InRunner' = InRunner /\ \A u \in Threads : Has(u)' <=> Has(u)
      BY <1>1, <2>1 DEF TypeOK, InRunner, InHand, Watched, Has, Accepting, Opening
    <3>2. \A u \in Threads : tpc'[u] \in {"add", "mask"} => socket_'[thandler'[u]] = tfd'[u]
      BY <1>1, <2>1 DEF SocketsAgree, TypeOK
    <3> QED BY <1>1, <3>1, <3>2 DEF SocketsAgree
  <2> QED BY <1>1, <2>3, <2>4, <2>5, <2>6, BacklogFrame DEF kernelVars
<1>3. CASE /\ events' \subseteq events /\ UNCHANGED thandler
           /\ tpc' \in {[tpc EXCEPT ![Runner] = "wait"], [tpc EXCEPT ![Runner] = "accept"]}
  <2>2. TypeOK' /\ PlacesAgree'
    BY <1>1, <1>3 DEF TypeOK, PlacesAgree, poolVars, kernelVars, Accepting, Opening, Reading,
       ServerAssumption, Threads
  <2>3. HandsAgree'
    BY <1>1, <1>3 DEF TypeOK, HandsAgree, Threads, Watched, Opening
  <2>4. SocketsAgree'
    <3>1. InRunner' = InRunner /\ \A u \in Threads : Has(u)' <=> Has(u)
      BY <1>1, <1>3 DEF TypeOK, InRunner, InHand, Watched, Has, Accepting, Opening
    <3>2. \A u \in Threads : tpc'[u] \in {"add", "mask"} => socket_'[thandler'[u]] = tfd'[u]
      BY <1>1, <1>3 DEF SocketsAgree, TypeOK
    <3> QED BY <1>1, <1>3, <3>1, <3>2 DEF SocketsAgree
  <2> QED
    BY <1>1, <1>3, <2>2, <2>3, <2>4, PoolFrame, BacklogFrame
       DEF PoolAgrees, kernelVars, poolVars
<1> QED BY <1>2, <1>3 DEF Dispatch, Goto
(* What a step of the runner leaves as it is when it only moves on from    *)
(* one step of reading to another, or back to dispatching.                 *)
LEMMA RunnerMoves ==
    ASSUME ServerAssumption, TypeOK, PlacesAgree, NEW p \in Reading \cup {"dispatch"},
           tpc[Runner] \in Reading, tpc' = [tpc EXCEPT ![Runner] = p],
           thandler' = IF p = "dispatch" THEN [thandler EXCEPT ![Runner] = NoHandler] ELSE thandler,
           UNCHANGED tfd
    PROVE  /\ tpc' \in [Threads -> {"loop", "accept", "blocked", "exited", "wait", "dispatch"}
                                      \cup Accepting \cup Reading]
           /\ thandler' \in [Threads -> Handlers \cup {NoHandler}]
           /\ PlacesAgree'
           /\ \A t \in Threads : /\ Has(t)' <=> Has(t)
                                 /\ tpc'[t] \in Opening <=> tpc[t] \in Opening
                                 /\ t # Runner => tpc'[t] = tpc[t] /\ thandler'[t] = thandler[t]
           /\ tpc'[Runner] = p /\ tpc[Runner] \notin Opening
           /\ \A t \in Acceptors : tpc[t] \notin Reading /\ t # Runner /\ t \in Threads
<1>1. Runner \in Threads /\ Runner \notin Acceptors
  BY DEF Threads, ServerAssumption
<1> QED
  BY <1>1 DEF TypeOK, PlacesAgree, Has, Accepting, Opening, Reading, Threads

(* The runner leaves a handler to whoever else watches or holds it.        *)
LEMMA LetGo ==
    ASSUME ServerAssumption, IInv, tpc[Runner] \in Reading, thandler[Runner] \in Watched,
           tpc[Runner] \in {"read", "delete"},
           Goto(Runner, "dispatch"), thandler' = [thandler EXCEPT ![Runner] = NoHandler],
           UNCHANGED <<epollVars, poolVars, kernelVars, tfd, fd, socket_>>
    PROVE  IInv'
<1> USE DEF IInv
<1>1. tpc' = [tpc EXCEPT ![Runner] = "dispatch"] /\ Runner \in Threads
  BY DEF Goto, Threads
<1>2. TypeOK' /\ PlacesAgree'
  BY <1>1, RunnerMoves DEF TypeOK, poolVars, kernelVars
<1>3. PoolAgrees'
  <2>1. Held' \subseteq Held /\ Held \subseteq Held' \cup {thandler[Runner]}
    BY DEF Held, TypeOK
  <2> QED BY <2>1 DEF PoolAgrees, Created, Free, Watched, epollVars, poolVars
<1>4. HandsAgree'
  <2>1. Runner \in Threads /\ tpc'[Runner] = "dispatch" /\ tpc[Runner] \notin Opening
    BY <1>1, RunnerMoves
  <2>2. \A t \in Threads : t # Runner => tpc'[t] = tpc[t] /\ thandler'[t] = thandler[t]
    BY <1>1, RunnerMoves
  <2> QED BY <2>1, <2>2 DEF HandsAgree, Watched, epollVars, Opening
<1>5. SocketsAgree'
  <2>1. InRunner' = InRunner
    BY <1>1 DEF InRunner, InHand, Watched, TypeOK, epollVars
  <2>2. \A t \in Threads : tpc'[t] \in {"add", "mask"} => socket_'[thandler'[t]] = tfd'[t]
    BY <1>1 DEF SocketsAgree, TypeOK
  <2>3. \A t \in Threads : Has(t)' <=> Has(t)
    BY <1>1, RunnerMoves
  <2> QED BY <2>1, <2>2, <2>3 DEF SocketsAgree
<1> QED BY <1>2, <1>3, <1>4, <1>5, BacklogFrame DEF kernelVars

LEMMA HandleReadHolds ==
    ASSUME ServerAssumption, IInv, HandleRead
    PROVE  IInv'
<1> USE DEF IInv
<1>1. /\ tpc[Runner] = "read" /\ Runner \in Threads /\ thandler[Runner] \in Watched
      /\ UNCHANGED <<epollVars, poolVars, kernelVars, tfd, fd, socket_>>
  BY DEF HandleRead, HandsAgree, Threads
<1>2. CASE Goto(Runner, "dispatch") /\ thandler' = [thandler EXCEPT ![Runner] = NoHandler]
  BY <1>1, <1>2, LetGo DEF Reading
<1>3. CASE tpc' = [tpc EXCEPT ![Runner] = "delete"] /\ UNCHANGED thandler
  <2>1. TypeOK' /\ PlacesAgree'
    BY <1>1, <1>3, RunnerMoves DEF TypeOK, poolVars, kernelVars, Reading
  <2>2. HandsAgree'
    BY <1>1, <1>3 DEF TypeOK, HandsAgree, Threads, Watched, Opening, epollVars
  <2>3. SocketsAgree'
    <3>1. InRunner' = InRunner
      BY <1>1, <1>3 DEF InRunner, InHand, Watched, TypeOK, epollVars
    <3>2. \A t \in Threads : tpc'[t] \in {"add", "mask"} => socket_'[thandler'[t]] = tfd'[t]
      BY <1>1, <1>3 DEF SocketsAgree, TypeOK
    <3>3. \A t \in Threads : Has(t)' <=> Has(t)
      BY <1>1, <1>3, RunnerMoves DEF Reading
    <3> QED BY <1>1, <3>1, <3>2, <3>3 DEF SocketsAgree
  <2> QED
    BY <1>1, <1>3, <2>1, <2>2, <2>3, PoolFrame, BacklogFrame
       DEF PoolAgrees, kernelVars, poolVars, epollVars
<1> QED BY <1>2, <1>3 DEF HandleRead, Goto

(* What leaves the epoll set is in the runner's hands alone.               *)
LEMMA DelHandleHolds ==
    ASSUME ServerAssumption, IInv, DelHandle
    PROVE  IInv'
<1> DEFINE h == thandler[Runner]
<1> USE DEF IInv
<1>1. /\ tpc[Runner] = "delete" /\ Runner \in Threads /\ h \in Watched /\ h \notin events
      /\ UNCHANGED <<poolVars, kernelVars, tfd, fd, socket_>>
  BY DEF DelHandle, HandsAgree, Threads
<1>2. CASE h \notin event_mask
  BY <1>1, <1>2, LetGo DEF DelHandle, Reading
<1>3. CASE h \in event_mask
  <2>1. /\ tpc' = [tpc EXCEPT ![Runner] = "close"] /\ UNCHANGED <<thandler, events>>
        /\ interest' = interest \ {h} /\ pending' = pending \ {h}
        /\ event_mask' = event_mask \ {h}
        /\ Watched' = Watched \ {h} /\ h \in Held
    BY <1>1, <1>3 DEF DelHandle, CtlDel, Goto, Watched, Held, PlacesAgree, Reading
  <2>2. \A t \in Acceptors : thandler[t] # h
    <3> SUFFICES ASSUME NEW t \in Acceptors, thandler[t] = h PROVE FALSE
      OBVIOUS
    <3>1. t \in Threads /\ h # NoHandler
      BY <1>1 DEF Threads, PlacesAgree, Reading
    <3>2. tpc[t] \in Opening
      BY <3>1 DEF PlacesAgree, Reading
    <3> QED BY <1>1, <1>3, <3>1, <3>2 DEF HandsAgree, Opening
  <2>3. TypeOK' /\ PlacesAgree'
    BY <1>1, <2>1, RunnerMoves DEF TypeOK, poolVars, kernelVars, Reading
  <2>4. PoolAgrees'
    <3>1. Held' = Held /\ Free' = Free /\ Created' = Created
      BY <1>1, <2>1 DEF Held, Free, Created, poolVars
    <3> QED BY <1>1, <2>1, <3>1 DEF PoolAgrees, poolVars
  <2>5. HandsAgree'
    BY <1>1, <2>1, <2>2, RunnerMoves DEF HandsAgree, Opening, Reading, Threads
  <2>6. SocketsAgree'
    <3>1. InRunner' = InRunner
      BY <1>1, <2>1 DEF InRunner, InHand, TypeOK, PlacesAgree, Reading
    <3>2. \A t \in Threads : tpc'[t] \in {"add", "mask"} => socket_'[thandler'[t]] = tfd'[t]
      BY <1>1, <2>1 DEF SocketsAgree, TypeOK
    <3>3. \A t \in Threads : Has(t)' <=> Has(t)
      BY <1>1, <2>1, RunnerMoves DEF Reading
    <3> QED BY <1>1, <3>1, <3>2, <3>3 DEF SocketsAgree
  <2> QED BY <1>1, <2>3, <2>4, <2>5, <2>6, BacklogFrame DEF kernelVars
<1> QED BY <1>2, <1>3

LEMMA HandleCloseHolds ==
    ASSUME ServerAssumption, IInv, HandleClose
    PROVE  IInv'
<1> DEFINE h == thandler[Runner]
<1> USE DEF IInv
<1>1. /\ tpc[Runner] = "close" /\ Runner \in Threads /\ h \notin Watched
      /\ h # NoHandler /\ h \in Handlers /\ \A t \in Acceptors : thandler[t] # h
      /\ fd' = fd \ {socket_[h]} /\ socket_' = [socket_ EXCEPT ![h] = NoConn]
      /\ tpc' = [tpc EXCEPT ![Runner] = "free"]
      /\ UNCHANGED <<epollVars, poolVars, kernelVars, thandler, tfd>>
  BY DEF HandleClose, HandsAgree, Threads, Goto, PlacesAgree, Reading, TypeOK, localVars
<1> HIDE DEF h
<1>2. TypeOK' /\ PlacesAgree'
  BY <1>1, RunnerMoves DEF TypeOK, poolVars, kernelVars, Reading
<1>3. HandsAgree'
  BY <1>1 DEF TypeOK, HandsAgree, Threads, Watched, Opening, epollVars
<1>4. SocketsAgree'
  <2>1. InRunner = Watched \cup {h} /\ InRunner' = Watched
    BY <1>1 DEF InRunner, InHand, TypeOK, epollVars, h, Watched
  <2>2. \A g \in Watched : g # h /\ socket_'[g] = socket_[g] /\ socket_[g] # socket_[h]
    BY <1>1, <2>1, OnlyHandlers DEF TypeOK, SocketsAgree
  <2>3. \A t \in Threads : /\ Has(t)' <=> Has(t)
                           /\ Has(t) => tfd[t] # socket_[h]
    BY <1>1, <2>1, RunnerMoves DEF Reading, SocketsAgree
  <2>4. \A t \in Threads : tpc'[t] \in {"add", "mask"} => socket_'[thandler'[t]] = tfd'[t]
    <3>1. \A t \in Threads : tpc'[t] \in {"add", "mask"} =>
              t \in Acceptors /\ thandler[t] \in Handlers /\ tpc'[t] = tpc[t]
      BY <1>1 DEF PlacesAgree, TypeOK, Opening, Threads
    <3> QED BY <1>1, <3>1 DEF SocketsAgree, TypeOK
  <2>5. \A x \in Conns : x \in fd' <=> \/ \E u \in Threads : Has(u)' /\ tfd'[u] = x
                                       \/ \E g \in InRunner' : socket_'[g] = x
    BY <1>1, <2>1, <2>2, <2>3 DEF SocketsAgree
  <2> QED BY <1>1, <2>1, <2>2, <2>3, <2>4, <2>5 DEF SocketsAgree
<1>5. BacklogAgrees'
  BY <1>1 DEF BacklogAgrees, kernelVars
<1> QED BY <1>1, <1>2, <1>3, <1>4, <1>5, PoolFrame DEF PoolAgrees, poolVars, epollVars

LEMMA FreeHandlerHolds ==
    ASSUME ServerAssumption, IInv, FreeHandler
    PROVE  IInv'
<1> DEFINE h == thandler[Runner]
<1> USE DEF IInv
<1>1. /\ tpc[Runner] = "free" /\ Runner \in Threads /\ h \notin Watched /\ h # NoHandler
      /\ \A t \in Threads : t # Runner => thandler[t] # h
      /\ FreeObject(h) /\ thandler' = [thandler EXCEPT ![Runner] = NoHandler]
      /\ tpc' = [tpc EXCEPT ![Runner] = "dispatch"]
      /\ UNCHANGED <<epollVars, created, kernelVars, tfd, fd, socket_>>
  BY DEF FreeHandler, HandsAgree, Threads, Goto, PlacesAgree, Reading
<1>2. PoolAgrees' /\ free_objects' \in Seq(Handlers)
  BY <1>1, FreeHolds
<1>3. TypeOK' /\ PlacesAgree'
  BY <1>1, <1>2, RunnerMoves DEF TypeOK, kernelVars, Reading
<1>4. HandsAgree'
  BY <1>1 DEF TypeOK, HandsAgree, Threads, Watched, Opening, epollVars
<1>5. SocketsAgree'
  <2>1. InRunner' = InRunner
    BY <1>1 DEF InRunner, InHand, Watched, TypeOK, epollVars
  <2>2. \A t \in Threads : tpc'[t] \in {"add", "mask"} => socket_'[thandler'[t]] = tfd'[t]
    BY <1>1 DEF SocketsAgree, TypeOK
  <2>3. \A t \in Threads : Has(t)' <=> Has(t)
    BY <1>1, RunnerMoves DEF Reading
  <2> QED BY <1>1, <2>1, <2>2, <2>3 DEF SocketsAgree
<1> QED BY <1>1, <1>2, <1>3, <1>4, <1>5, BacklogFrame DEF kernelVars

LEMMA CloseHolds ==
    ASSUME ServerAssumption, IInv, Close
    PROVE  IInv'
<1> USE DEF IInv
<1>1. /\ interest' = interest \ {Listener} /\ pending' = pending \ {Listener}
      /\ Watched' = Watched /\ backlog' = << >>
      /\ UNCHANGED <<events, event_mask, poolVars, localVars, made, fd, socket_, tpc>>
  BY DEF Close, Watched
<1>2. TypeOK' /\ PlacesAgree'
  BY <1>1, EmptySeq DEF TypeOK, PlacesAgree, poolVars, localVars
<1>3. PoolAgrees'
  BY <1>1 DEF PoolAgrees, Created, Free, Held, poolVars, localVars
<1>4. HandsAgree'
  BY <1>1 DEF HandsAgree, localVars
<1>5. SocketsAgree'
  BY <1>1 DEF SocketsAgree, InRunner, InHand, Has, localVars
<1>6. BacklogAgrees'
  BY <1>1 DEF BacklogAgrees, IsInjective, Range
<1> QED BY <1>2, <1>3, <1>4, <1>5, <1>6
-----------------------------------------------------------------------------
LEMMA StepHolds ==
    ASSUME ServerAssumption, IInv, [Next]_serverVars
    PROVE  IInv'
<1>1. ASSUME NEW c \in Conns, Connect(c) PROVE IInv'
  BY <1>1, ConnectHolds
<1>2. ASSUME NEW c \in Conns, ClientClose(c) PROVE IInv'
  BY <1>2, ClientCloseHolds
<1>3. ASSUME NEW t \in Threads, ThreadStep(t) PROVE IInv'
  BY <1>3, LoopHolds, AcceptHolds, AllocHolds, HandleOpenHolds, AddHandleHolds, AddMaskHolds,
     UndoHolds, CloseFdHolds DEF ThreadStep
<1>4. CASE RunnerStep
  BY <1>4, WaitHolds, DispatchHolds, HandleReadHolds, DelHandleHolds, HandleCloseHolds,
     FreeHandlerHolds DEF RunnerStep
<1>5. CASE Close
  BY <1>5, CloseHolds
<1>6. CASE UNCHANGED serverVars
  <2> USE DEF serverVars, epollVars, poolVars, kernelVars, localVars, IInv
  <2>1. TypeOK'
    BY <1>6 DEF TypeOK
  <2>2. pending' \subseteq interest
    BY <1>6 DEF PoolAgrees
  <2> QED
    BY <1>6, <2>1, <2>2, PlacesFrame, PoolFrame, HandsFrame, SocketsFrame, BacklogFrame
<1> QED BY <1>1, <1>2, <1>3, <1>4, <1>5, <1>6 DEF Next

-----------------------------------------------------------------------------
(* A connection whose socket is open has one owner, any other has none.    *)
LEMMA OneOwnerEach ==
    ASSUME ServerAssumption, IInv, NEW c \in Conns
    PROVE  Cardinality({t \in Threads : tfd[t] = c /\ tpc[t] # "mask"}
                           \cup {h \in Watched : socket_[h] = c}
                           \cup {h \in InHand(Runner) : socket_[h] = c /\ tpc[Runner] = "close"})
           = IF c \in fd THEN 1 ELSE 0
<1> DEFINE A == {t \in Threads : tfd[t] = c /\ tpc[t] # "mask"}
           B == {h \in InRunner : socket_[h] = c}
<1> USE DEF IInv
<1>1. A = {t \in Threads : Has(t) /\ tfd[t] = c}
  BY DEF PlacesAgree, Has, ServerAssumption
<1>2. {h \in Watched : socket_[h] = c}
          \cup {h \in InHand(Runner) : socket_[h] = c /\ tpc[Runner] = "close"} = B
  BY DEF InRunner
<1>3. /\ \A t, u \in A : t = u
      /\ \A h, g \in B : h = g
      /\ A = {} \/ B = {}
      /\ c \in fd <=> A # {} \/ B # {}
  BY <1>1 DEF SocketsAgree, ServerAssumption
<1> HIDE DEF A, B
<1>4. CASE c \in fd
  <2>1. \E x : A \cup B = {x}
    BY <1>3, <1>4
  <2> QED BY <1>2, <1>4, <2>1, FS_Singleton DEF A
<1>5. CASE c \notin fd
  <2>1. A \cup B = {}
    BY <1>3, <1>5
  <2> QED BY <1>2, <1>5, <2>1, FS_EmptySet DEF A
<1> QED BY <1>4, <1>5

(* accept_proc, handle_read, del_handle and the pool: Accounted, for any   *)
(* number of accept threads, connections and objects.                      *)
LEMMA InvariantAccounts ==
    ASSUME ServerAssumption, IInv
    PROVE  Accounted
<1> USE DEF IInv
<1>1. ASSUME NEW h \in Range(free_objects)
      PROVE  /\ Cardinality({i \in 1 .. Len(free_objects) : free_objects[i] = h}) = 1
             /\ h \notin interest \cup event_mask
             /\ \A t \in Threads : thandler[t] # h
  <2>1. DOMAIN free_objects = 1 .. Len(free_objects)
    BY LenProperties DEF TypeOK
  <2>2. h \in Handlers /\ h \in Free
    <3>1. \A i \in 1 .. Len(free_objects) : free_objects[i] \in Handlers
      BY ElementOfSeq DEF TypeOK
    <3> QED BY <2>1, <3>1 DEF Range, Free
  <2>3. h # Listener /\ h # NoHandler
    BY <2>2 DEF ServerAssumption
  <2>4. h \notin Watched \cup Held
    BY <2>2 DEF PoolAgrees
  <2>5. \E i : {j \in 1 .. Len(free_objects) : free_objects[j] = h} = {i}
    <3>1. PICK i \in 1 .. Len(free_objects) : free_objects[i] = h
      BY <2>1 DEF Range
    <3>2. \A j \in 1 .. Len(free_objects) : free_objects[j] = h => j = i
      BY <2>1, <3>1 DEF PoolAgrees, IsInjective
    <3>3. {j \in 1 .. Len(free_objects) : free_objects[j] = h} = {i}
      BY <3>1, <3>2
    <3> QED BY <3>3
  <2>6. Cardinality({j \in 1 .. Len(free_objects) : free_objects[j] = h}) = 1
    BY <2>5, FS_Singleton
  <2>7. h \notin interest \cup event_mask
    BY <2>3, <2>4 DEF Watched, PoolAgrees
  <2>8. \A t \in Threads : thandler[t] # h
    BY <2>3, <2>4 DEF Held
  <2> QED BY <2>6, <2>7, <2>8
<1>2. ASSUME NEW h \in Range(SubSeq(ObjectOrder, 1, created))
      PROVE  h \in Range(free_objects) \cup interest \cup UNION {InHand(t) : t \in Threads}
  <2>1. h \in Created
    <3>1. /\ created \in Nat /\ ObjectOrder \in Seq(Handlers)
          /\ \A i \in 1 .. created : i \in 1 .. Len(ObjectOrder)
      BY LenProperties DEF TypeOK, ServerAssumption
    <3>2. \A i \in 1 .. created : ObjectOrder[i] \in Handlers
      BY <3>1, ElementOfSeq
    <3> DEFINE s == SubSeq(ObjectOrder, 1, created)
    <3>3. s \in Seq(Handlers) /\ \A i \in 1 .. created : s[i] = ObjectOrder[i]
      <4>1. created \in Int /\ 1 \in Int
        BY <3>1
      <4>2. s \in Seq(Handlers) /\ \A i \in 1 .. created - 1 + 1 : s[i] = ObjectOrder[1 + i - 1]
        BY <3>2, <4>1, SubSeqProperties
      <4> HIDE DEF s
      <4>3. \A i \in 1 .. created : i \in 1 .. created - 1 + 1 /\ 1 + i - 1 = i
        BY <3>1
      <4> QED BY <4>2, <4>3
    <3>4. Len(s) = created
      <4>1. created \in Int /\ 1 \in Int
        BY <3>1
      <4>2. Len(s) = IF 1 <= created THEN created - 1 + 1 ELSE 0
        BY <3>2, <4>1, SubSeqProperties
      <4> HIDE DEF s
      <4> QED BY <3>1, <4>2
    <3> HIDE DEF s
    <3>5. DOMAIN s = 1 .. created
      BY <3>3, <3>4, LenProperties
    <3>6. h \in Range(s)
      BY <1>2 DEF s
    <3> QED BY <3>3, <3>5, <3>6 DEF Range, Created
  <2>2. CASE h \in Free \cup Watched
    BY <2>2 DEF Free, Watched
  <2>3. CASE h \in Held
    BY <2>3 DEF Held, InHand
  <2> QED BY <2>1, <2>2, <2>3 DEF PoolAgrees
<1>3. \A c \in Conns :
          Cardinality({t \in Threads : tfd[t] = c /\ tpc[t] # "mask"}
              \cup {h \in interest \ {Listener} : socket_[h] = c}
              \cup {h \in InHand(Runner) : socket_[h] = c /\ tpc[Runner] = "close"})
          = IF c \in fd THEN 1 ELSE 0
  BY OneOwnerEach DEF Watched
<1> QED BY <1>1, <1>2, <1>3 DEF Accounted
(* The invariant of a server, whose assumption a model has to meet.        *)
THEOREM ServerInductive ==
    ASSUME ServerAssumption
    PROVE  Spec => []IInv
<1>1. Init => IInv
  BY InitHolds
<1>2. IInv /\ [Next]_serverVars => IInv'
  BY StepHolds
<1> QED BY <1>1, <1>2, PTL DEF Spec

(* accept_proc, handle_read, del_handle and the pool: an object is free,   *)
(* in a thread's hands or watched, once, and an open socket has one owner, *)
(* through every failure and every order of accepting and closing.         *)
THEOREM ServerAccounts ==
    ASSUME ServerAssumption
    PROVE  Spec => []Accounted
<1>1. IInv => Accounted
  BY InvariantAccounts
<1> QED BY <1>1, ServerInductive, PTL
=============================================================================
