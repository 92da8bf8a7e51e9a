-------------------------- MODULE NetworkProofs ---------------------------
(***************************************************************************)
(* Theorems about the runners and sources of MCNetwork, for every set of   *)
(* sockets, addresses, the client's handlers and accept threads, number of *)
(* connections, size of the table and number of calls.  The servers' pool  *)
(* has two objects here; TcpServerProofs leaves it open.                   *)
(***************************************************************************)
EXTENDS MCNetwork, SequenceTheorems, TLAPS

(* Taking the k-th element out of a sequence by putting the last in its    *)
(* place.                                                                  *)
LEMMA LastInPlace ==
    ASSUME NEW S, NEW s \in Seq(S), NEW k \in 1 .. Len(s)
    PROVE  LET n == Len(s)
               t == SubSeq([s EXCEPT ![k] = s[n]], 1, n - 1)
           IN  /\ t \in Seq(S) /\ Len(t) = n - 1
               /\ \A i \in 1 .. n - 1 : t[i] = IF i = k THEN s[n] ELSE s[i]
<1> DEFINE n == Len(s)
           r == [s EXCEPT ![k] = s[n]]
<1>1. n \in Nat \ {0} /\ n \in 1 .. n /\ n - 1 \in 0 .. n
  BY LenProperties
<1>2. s[n] \in S /\ DOMAIN s = 1 .. n
  BY <1>1, ElementOfSeq, LenProperties
<1>3. r \in Seq(S) /\ Len(r) = n
  BY <1>2, ExceptSeq
<1>4. \A i \in 1 .. n : r[i] = IF i = k THEN s[n] ELSE s[i]
  BY <1>2
<1> HIDE DEF r, n
<1>5. /\ SubSeq(r, 1, n - 1) \in Seq(S)
      /\ Len(SubSeq(r, 1, n - 1)) = n - 1
      /\ \A i \in 1 .. n - 1 : SubSeq(r, 1, n - 1)[i] = r[i]
  BY <1>1, <1>3, SMT
<1> QED
  BY <1>1, <1>4, <1>5 DEF r, n

-----------------------------------------------------------------------------
(* SL_Socket_Select_Runner.                                                *)

LEMMA SelectInit == Select!Init => Select!IInv
BY DEF Select!Init, Select!IInv, Select!PositionsAgree, Select!WishesAgree, Select!WishesOf,
   Select!MarksAgree, Select!InTable, Select!Nothing

(* A wish that was applied leaves the map.                                 *)
LEMMA WishApplied ==
    ASSUME NEW map, NEW h, map \in [DOMAIN map -> {"add", "del", "remove"}]
    PROVE  LET m == [g \in DOMAIN map \ {h} |-> map[g]]
           IN  /\ m \in [DOMAIN m -> {"add", "del", "remove"}]
               /\ DOMAIN m = DOMAIN map \ {h}
               /\ \A g \in DOMAIN m : m[g] = map[g]
OBVIOUS

(* The calls of other threads do not touch the table.                      *)
LEMMA SelectAddHandle ==
    ASSUME Select!IInv, NEW h \in Sockets, Select!AddHandle(h)
    PROVE  Select!IInv'
<1> USE DEF Select!IInv
<1>1. Select!PositionsAgree'
  BY DEF Select!AddHandle, Select!tableVars, Select!PositionsAgree, Select!InTable
<1>2. CASE UNCHANGED <<Select!wishVars, added, ready, freed>>
  BY <1>1, <1>2 DEF Select!AddHandle, Select!loopVars, Select!tableVars, Select!wishVars,
     Select!WishesAgree, Select!WishesOf, Select!MarksAgree, Select!InTable
<1>3. CASE /\ fd_in' = fd_in \cup {h} /\ r_event_mask' = r_event_mask \cup {h}
           /\ standby' = Select!Wish(standby, h, "add")
           /\ added' = added \cup {h} /\ freed' = freed \ {h}
  <2>1. h \notin added \ freed /\ UNCHANGED <<active, lpc, runner_pos>>
    BY DEF Select!AddHandle, Select!loopVars, Select!tableVars
  <2>2. /\ standby' \in [DOMAIN standby' -> {"add", "del", "remove"}]
        /\ DOMAIN standby' = DOMAIN standby \cup {h} /\ standby'[h] = "add"
        /\ \A g \in DOMAIN standby : g # h => standby'[g] = standby[g]
    <3>1. standby \in [DOMAIN standby -> {"add", "del", "remove"}]
      BY DEF Select!WishesAgree, Select!WishesOf
    <3>2. standby' = [g \in DOMAIN standby \cup {h} |-> IF g = h THEN "add" ELSE standby[g]]
      BY <1>3 DEF Select!Wish
    <3> HIDE DEF Select!IInv
    <3> QED BY <3>1, <3>2
  <2>3. Select!WishesAgree'
    BY <1>3, <2>1, <2>2 DEF Select!WishesAgree, Select!WishesOf, Select!MarksAgree
  <2>4. Select!MarksAgree'
    BY <1>3, <2>1 DEF Select!MarksAgree, Select!InTable
  <2> QED BY <1>1, <2>3, <2>4
<1> QED BY <1>2, <1>3 DEF Select!AddHandle

LEMMA SelectUnmark ==
    ASSUME Select!IInv, NEW h, NEW w \in {"del", "remove"}, Select!Unmark(h, w),
           UNCHANGED <<Select!tableVars, active, added, freed>>,
           lpc' \in {"top", "apply", "select", "scan"},
           lpc' # "apply" => active = Select!Nothing
    PROVE  Select!IInv'
<1> USE DEF Select!IInv
<1>1. /\ h \in r_event_mask /\ fd_in' = fd_in \ {h} /\ r_event_mask' = r_event_mask \ {h}
      /\ standby' = Select!Wish(standby, h, w) /\ UNCHANGED runner_pos
  BY DEF Select!Unmark, Select!tableVars
<1>2. /\ standby' \in [DOMAIN standby' -> {"add", "del", "remove"}]
      /\ DOMAIN standby' = DOMAIN standby \cup {h}
      /\ \A g \in DOMAIN standby : g # h => standby'[g] = standby[g]
  <2>1. standby \in [DOMAIN standby -> {"add", "del", "remove"}]
    BY DEF Select!WishesAgree, Select!WishesOf
  <2>2. w \in {"add", "del", "remove"}
    OBVIOUS
  <2>3. standby' = [g \in DOMAIN standby \cup {h} |-> IF g = h THEN w ELSE standby[g]]
    BY <1>1 DEF Select!Wish
  <2> HIDE DEF Select!IInv
  <2> QED BY <2>1, <2>2, <2>3
<1>3. Select!PositionsAgree'
  BY DEF Select!tableVars, Select!PositionsAgree, Select!InTable
<1>4. Select!WishesAgree'
  BY <1>1, <1>2 DEF Select!WishesAgree, Select!WishesOf, Select!MarksAgree, Select!Nothing
<1>5. Select!MarksAgree'
  BY <1>1 DEF Select!MarksAgree, Select!InTable
<1> QED BY <1>3, <1>4, <1>5

LEMMA SelectSwap ==
    ASSUME Select!IInv, Select!Swap
    PROVE  Select!IInv'
<1> USE DEF Select!IInv
<1>1. /\ lpc = "top" /\ active = Select!Nothing /\ active' = standby /\ standby' = active
      /\ lpc' = "apply" /\ UNCHANGED <<r_event_mask, fd_in, added, freed, Select!tableVars>>
  BY DEF Select!Swap, Select!WishesAgree
<1>2. Select!PositionsAgree'
  BY <1>1 DEF Select!tableVars, Select!PositionsAgree, Select!InTable
<1>3. Select!WishesAgree'
  BY <1>1 DEF Select!WishesAgree, Select!WishesOf, Select!Nothing
<1>4. Select!MarksAgree'
  BY <1>1 DEF Select!MarksAgree, Select!InTable, Select!tableVars
<1> QED BY <1>2, <1>3, <1>4

(* A handler joins the table behind the last one.                          *)
LEMMA SelectJoins ==
    ASSUME Select!PositionsAgree, NEW h \in Sockets, Select!ApplyAdd(h)
    PROVE  /\ Select!PositionsAgree'
           /\ \A g \in Sockets \ {h} : Select!InTable(g)' <=> Select!InTable(g)
<1>1. /\ max_handle \in Int /\ h \in Nat
      /\ max_handle' \in Int /\ max_handle <= max_handle' /\ h <= max_handle'
  BY NetworkAssumption DEF Select!ApplyAdd, Select!PositionsAgree, Select!SelectAssumption
<1>2. \A g \in Sockets : g \in Nat
  BY NetworkAssumption DEF Select!SelectAssumption
<1>3. CASE Select!InTable(h)
  <2>1. UNCHANGED <<socket_handlers, runner_pos>>
    BY <1>3, SMT DEF Select!ApplyAdd, Select!InTable, Select!PositionsAgree
  <2> QED BY <1>1, <1>2, <2>1 DEF Select!PositionsAgree, Select!InTable
<1>4. CASE ~Select!InTable(h)
  <2> DEFINE n == Len(socket_handlers)
  <2>1. /\ socket_handlers \in Seq(Sockets) /\ n \in Nat
        /\ DOMAIN socket_handlers = 1 .. n /\ runner_pos \in [Sockets -> Int]
    BY LenProperties DEF Select!PositionsAgree
  <2>2. /\ socket_handlers' = Append(socket_handlers, h)
        /\ runner_pos' = [runner_pos EXCEPT ![h] = n]
    BY <1>4, <2>1 DEF Select!ApplyAdd, Select!InTable
  <2>3. /\ socket_handlers' \in Seq(Sockets) /\ Len(socket_handlers') = n + 1
        /\ DOMAIN socket_handlers' = 1 .. n + 1
        /\ socket_handlers'[n + 1] = h
        /\ \A i \in 1 .. n : socket_handlers'[i] = socket_handlers[i]
    BY <2>1, <2>2, AppendProperties, LenProperties
  <2>4. /\ runner_pos' \in [Sockets -> Int] /\ runner_pos'[h] = n
        /\ \A g \in Sockets \ {h} : runner_pos'[g] = runner_pos[g]
    BY <2>1, <2>2
  <2> HIDE DEF n
  <2>5. \A i \in 1 .. n : socket_handlers[i] \in Sockets /\ socket_handlers[i] # h
    <3>1. \A i \in 1 .. n : socket_handlers[i] \in Sockets
      BY <2>1, ElementOfSeq DEF n
    <3>2. ASSUME NEW i \in 1 .. n PROVE runner_pos[socket_handlers[i]] >= 0
      BY <2>1, <3>2 DEF Select!PositionsAgree
    <3> QED BY <1>4, <3>1, <3>2 DEF Select!InTable
  <2>6. \A i \in 1 .. n + 1 : runner_pos'[socket_handlers'[i]] = i - 1
    <3>1. \A i \in 1 .. n : runner_pos'[socket_handlers'[i]] = i - 1
      <4> TAKE i \in 1 .. n
      <4>1. /\ socket_handlers'[i] = socket_handlers[i]
            /\ socket_handlers[i] \in Sockets \ {h}
        BY <2>3, <2>5
      <4>2. runner_pos[socket_handlers[i]] = i - 1
        BY <2>1 DEF Select!PositionsAgree
      <4> QED BY <2>4, <4>1, <4>2
    <3>2. runner_pos'[socket_handlers'[n + 1]] = n
      BY <2>3, <2>4
    <3> QED BY <2>1, <3>1, <3>2
  <2>7. ASSUME NEW g \in Sockets, runner_pos'[g] >= 0
        PROVE  runner_pos'[g] < n + 1 /\ socket_handlers'[runner_pos'[g] + 1] = g /\ g <= max_handle'
    <3>1. CASE g = h
      BY <1>1, <2>1, <2>3, <2>4, <3>1
    <3>2. CASE g # h
      <4>1. /\ runner_pos'[g] = runner_pos[g] /\ runner_pos[g] \in Int
            /\ runner_pos[g] < n /\ socket_handlers[runner_pos[g] + 1] = g /\ g <= max_handle
        BY <2>1, <2>4, <2>7, <3>2 DEF Select!PositionsAgree, Select!InTable, n
      <4>2. runner_pos[g] + 1 \in 1 .. n
        BY <2>1, <2>7, <4>1
      <4> QED BY <1>1, <1>2, <2>1, <2>3, <4>1, <4>2
    <3> QED BY <3>1, <3>2
  <2>8. Select!PositionsAgree'
    BY <1>1, <2>3, <2>4, <2>6, <2>7 DEF Select!PositionsAgree, Select!InTable
  <2> QED BY <2>4, <2>8 DEF Select!InTable
<1> QED BY <1>3, <1>4

(* A handler leaves the table, and the last one takes its place.           *)
LEMMA SelectLeaves ==
    ASSUME Select!PositionsAgree, NEW h \in Sockets, Select!InTable(h), Select!TakeOut(h)
    PROVE  /\ Select!PositionsAgree'
           /\ ~Select!InTable(h)'
           /\ \A g \in Sockets \ {h} : Select!InTable(g)' <=> Select!InTable(g)
<1> DEFINE n == Len(socket_handlers)
           k == runner_pos[h] + 1
           last == socket_handlers[n]
<1>1. /\ socket_handlers \in Seq(Sockets) /\ n \in Nat
      /\ DOMAIN socket_handlers = 1 .. n /\ runner_pos \in [Sockets -> Int]
      /\ \A i \in 1 .. n : socket_handlers[i] \in Sockets /\ runner_pos[socket_handlers[i]] = i - 1
  BY LenProperties, ElementOfSeq DEF Select!PositionsAgree
<1>2. k \in 1 .. n /\ socket_handlers[k] = h /\ runner_pos[h] = k - 1 /\ n \in 1 .. n
  BY <1>1 DEF Select!PositionsAgree, Select!InTable
<1>3. last \in Sockets /\ runner_pos[last] = n - 1
  BY <1>1, <1>2
<1>4. /\ socket_handlers' = SubSeq([socket_handlers EXCEPT ![k] = socket_handlers[n]], 1, n - 1)
      /\ runner_pos' = [runner_pos EXCEPT ![last] = k - 1, ![h] = -1]
      /\ max_handle' = IF max_handle = h THEN max_handle - 1 ELSE max_handle
  BY <1>2 DEF Select!TakeOut
<1>5. /\ socket_handlers' \in Seq(Sockets) /\ Len(socket_handlers') = n - 1
      /\ \A i \in 1 .. n - 1 : socket_handlers'[i] = IF i = k THEN last ELSE socket_handlers[i]
  BY <1>1, <1>2, <1>4, LastInPlace
<1>6. DOMAIN socket_handlers' = 1 .. n - 1
  BY <1>5, LenProperties
<1>7. /\ runner_pos' \in [Sockets -> Int] /\ runner_pos'[h] = -1
      /\ last # h => runner_pos'[last] = k - 1
      /\ \A g \in Sockets \ {h, last} : runner_pos'[g] = runner_pos[g]
  BY <1>1, <1>2, <1>3, <1>4
<1>8. (last = h) <=> (k = n)
  BY <1>1, <1>2, <1>3
<1> HIDE DEF n, k, last
<1>9. \A i \in 1 .. n - 1 : runner_pos'[socket_handlers'[i]] = i - 1
  <2> SUFFICES ASSUME NEW i \in 1 .. n - 1 PROVE runner_pos'[socket_handlers'[i]] = i - 1
    OBVIOUS
  <2>1. CASE i = k
    <3>1. k # n /\ socket_handlers'[i] = last
      BY <1>1, <1>5, <2>1
    <3> QED BY <1>7, <1>8, <2>1, <3>1
  <2>2. CASE i # k
    <3>1. /\ i \in 1 .. n /\ i # n /\ socket_handlers'[i] = socket_handlers[i]
      BY <1>1, <1>5, <2>2, SMTT(60)
    <3>2. socket_handlers[i] # h /\ socket_handlers[i] # last
      BY <1>1, <1>2, <1>3, <2>2, <3>1
    <3> QED BY <1>1, <1>7, <3>1, <3>2
  <2> QED BY <2>1, <2>2
<1>10. ASSUME NEW g \in Sockets, runner_pos'[g] >= 0
       PROVE  /\ runner_pos'[g] < n - 1
              /\ socket_handlers'[runner_pos'[g] + 1] = g
              /\ g <= max_handle'
  <2>1. g # h
    BY <1>7, <1>10
  <2>2. runner_pos[g] \in Int /\ runner_pos[g] >= 0
    BY <1>1, <1>2, <1>3, <1>7, <1>10, <2>1
  <2>3. runner_pos[g] < n /\ socket_handlers[runner_pos[g] + 1] = g /\ g <= max_handle
    BY <2>2 DEF Select!PositionsAgree, Select!InTable, n
  <2>4. g <= max_handle'
    <3>1. g \in Nat /\ h \in Nat /\ max_handle \in Int
      BY NetworkAssumption DEF Select!SelectAssumption, Select!PositionsAgree
    <3> QED BY <1>4, <2>1, <2>3, <3>1
  <2>5. CASE g = last
    <3>1. runner_pos'[g] = k - 1 /\ k # n
      BY <1>7, <1>8, <2>1, <2>5
    <3>2. k \in 1 .. n - 1
      BY <1>1, <1>2, <3>1
    <3> QED BY <1>1, <1>2, <1>5, <2>4, <2>5, <3>1, <3>2
  <2>6. CASE g # last
    <3>1. runner_pos'[g] = runner_pos[g]
      BY <1>7, <2>1, <2>6
    <3>2. runner_pos[g] + 1 # k /\ runner_pos[g] + 1 # n
      BY <1>2, <2>1, <2>3, <2>6 DEF last
    <3>3. runner_pos[g] + 1 \in 1 .. n - 1
      BY <1>1, <2>2, <2>3, <3>2
    <3> QED BY <1>1, <1>5, <2>3, <2>4, <3>1, <3>2, <3>3
  <2> QED BY <2>5, <2>6
<1>11. max_handle' \in Int
  BY <1>4 DEF Select!PositionsAgree
<1>12. Select!PositionsAgree'
  BY <1>5, <1>6, <1>7, <1>9, <1>10, <1>11 DEF Select!PositionsAgree, Select!InTable
<1>13. ~Select!InTable(h)'
  BY <1>7 DEF Select!InTable
<1>14. \A g \in Sockets \ {h} : Select!InTable(g)' <=> Select!InTable(g)
  BY <1>1, <1>2, <1>3, <1>7 DEF Select!InTable
<1> QED BY <1>12, <1>13, <1>14

(* What is done to the table when a wish is applied.                       *)
LEMMA SelectApplied ==
    ASSUME Select!IInv, lpc = "apply", NEW h \in DOMAIN active,
           Select!ApplyAdd(h) \/ Select!ApplyDel(h) \/ Select!ApplyRemove(h),
           active' = [g \in DOMAIN active \ {h} |-> active[g]],
           UNCHANGED <<lpc, Select!wishVars, added>>
    PROVE  Select!IInv'
<1> USE DEF Select!IInv
<1>1. h \in Sockets /\ h \in added \ freed
  BY DEF Select!WishesAgree, Select!WishesOf, Select!MarksAgree
<1>2. /\ active' \in [DOMAIN active' -> {"add", "del", "remove"}]
      /\ DOMAIN active' = DOMAIN active \ {h}
      /\ \A g \in DOMAIN active' : active'[g] = active[g]
  BY WishApplied DEF Select!WishesAgree, Select!WishesOf
<1>3. /\ Select!PositionsAgree'
      /\ \A g \in Sockets \ {h} : Select!InTable(g)' <=> Select!InTable(g)
      /\ freed' \in {freed, freed \cup {h}}
      /\ h \in freed' => active[h] = "del" /\ ~Select!InTable(h)'
  <2>1. CASE Select!ApplyAdd(h)
    BY <1>1, <2>1, SelectJoins DEF Select!ApplyAdd
  <2>2. CASE Select!ApplyDel(h) /\ Select!InTable(h)
    BY <1>1, <2>2, SelectLeaves DEF Select!ApplyDel, Select!InTable, Select!PositionsAgree
  <2>3. CASE Select!ApplyRemove(h) /\ Select!InTable(h)
    BY <1>1, <2>3, SelectLeaves DEF Select!ApplyRemove, Select!InTable
  <2>4. CASE /\ Select!ApplyDel(h) \/ Select!ApplyRemove(h)
             /\ ~Select!InTable(h)
    <3>1. UNCHANGED <<Select!tableVars, freed>>
      BY <1>1, <2>4 DEF Select!ApplyDel, Select!ApplyRemove, Select!InTable, Select!PositionsAgree
    <3> QED BY <1>1, <3>1 DEF Select!tableVars, Select!PositionsAgree, Select!InTable
  <2> QED BY <2>1, <2>2, <2>3, <2>4
<1>4. Select!WishesAgree'
  BY <1>1, <1>2, <1>3 DEF Select!WishesAgree, Select!WishesOf, Select!MarksAgree, Select!wishVars
<1>5. Select!MarksAgree'
  BY <1>1, <1>3 DEF Select!WishesAgree, Select!WishesOf, Select!MarksAgree, Select!wishVars
<1> QED BY <1>3, <1>4, <1>5

LEMMA SelectRest ==
    ASSUME Select!IInv,
           UNCHANGED <<Select!tableVars, Select!wishVars, active, added, freed>>,
           lpc' \in {"top", "apply", "select", "scan"},
           lpc' # "apply" => active = Select!Nothing
    PROVE  Select!IInv'
BY DEF Select!IInv, Select!tableVars, Select!wishVars, Select!PositionsAgree, Select!WishesAgree,
   Select!WishesOf, Select!MarksAgree, Select!InTable, Select!Nothing

LEMMA SelectStep ==
    ASSUME Select!IInv, [Select!Next]_(Select!selectVars)
    PROVE  Select!IInv'
<1>0. /\ lpc \in {"top", "apply", "select", "scan"}
      /\ lpc # "apply" => active = Select!Nothing
  BY DEF Select!IInv, Select!WishesAgree
<1>1. CASE Select!Swap
  BY <1>1, SelectSwap
<1>2. CASE Select!Apply
  <2>1. CASE \E h \in DOMAIN active :
                /\ Select!ApplyAdd(h) \/ Select!ApplyDel(h) \/ Select!ApplyRemove(h)
                /\ active' = [g \in DOMAIN active \ {h} |-> active[g]]
                /\ UNCHANGED lpc
    <3>1. lpc = "apply" /\ UNCHANGED <<Select!wishVars, added>>
      BY <1>2 DEF Select!Apply
    <3> QED BY <2>1, <3>1, SelectApplied
  <2>2. CASE /\ active = Select!Nothing /\ lpc' = "select"
             /\ UNCHANGED <<Select!tableVars, active, freed, skipped>>
    BY <1>2, <2>2, SelectRest DEF Select!Apply
  <2> QED BY <1>2, <2>1, <2>2 DEF Select!Apply
<1>3. CASE Select!Select
  BY <1>0, <1>3, SelectRest DEF Select!Select
<1>4. CASE Select!Scan
  <2>1. /\ lpc = "scan" /\ lpc' \in {"top", "scan"}
        /\ UNCHANGED <<Select!tableVars, active, added, freed>>
    BY <1>4 DEF Select!Scan
  <2>2. CASE UNCHANGED Select!wishVars
    BY <1>0, <2>1, <2>2, SelectRest
  <2>3. CASE ~UNCHANGED Select!wishVars
    <3>1. Select!Unmark(socket_handlers[iter], "del")
      BY <1>4, <2>3 DEF Select!Scan
    <3> QED BY <1>0, <2>1, <3>1, SelectUnmark
  <2> QED BY <2>2, <2>3
<1>5. ASSUME NEW h \in Sockets, Select!AddHandle(h) PROVE Select!IInv'
  BY <1>5, SelectAddHandle
<1>6. ASSUME NEW h \in Sockets, Select!DelHandle(h) PROVE Select!IInv'
  BY <1>0, <1>6, SelectUnmark DEF Select!DelHandle, Select!loopVars
<1>7. ASSUME NEW h \in Sockets, Select!RemoveHandle(h) PROVE Select!IInv'
  BY <1>0, <1>7, SelectUnmark DEF Select!RemoveHandle, Select!loopVars
<1>8. ASSUME NEW h \in Sockets, Select!Ready(h) PROVE Select!IInv'
  BY <1>0, <1>8, SelectRest DEF Select!Ready, Select!loopVars
<1>9. CASE UNCHANGED Select!selectVars
  BY <1>0, <1>9, SelectRest DEF Select!selectVars, Select!loopVars
<1> QED
  BY <1>1, <1>2, <1>3, <1>4, <1>5, <1>6, <1>7, <1>8, <1>9 DEF Select!Next, Select!LoopStep

-----------------------------------------------------------------------------
(* A behaviour of MCNetwork is one of the select runner.                   *)

LEMMA SelectProjection ==
    ASSUME [MCNext]_allVars
    PROVE  [Select!Next]_(Select!selectVars)
BY DEF MCNext, allVars, selectVars, Select!selectVars, Select!loopVars, Select!tableVars,
   Select!wishVars

(* SL_Socket_Select_Runner: the table, the positions and the wishes agree, *)
(* whatever the other threads note while the loop applies, selects and     *)
(* reads.                                                                  *)
THEOREM SelectInductive == MCSpec => []Select!IInv
<1>1. MCInit => Select!IInv
  BY SelectInit DEF MCInit
<1>2. Select!IInv /\ [MCNext]_allVars => Select!IInv'
  BY SelectStep, SelectProjection
<1> QED BY <1>1, <1>2, PTL DEF MCSpec

(* event_loop: runner_pos_ is each handler's place in the table through    *)
(* every swap with the last one, select covers every marked socket of the  *)
(* table, and a handler that was freed is in no table, set or map.         *)
THEOREM TablesTrue == MCSpec => []TableTrue
<1>1. Select!IInv => TableTrue
  <2> SUFFICES ASSUME Select!IInv PROVE Select!TableTrue
    BY DEF TableTrue
  <2>1. DOMAIN socket_handlers = 1 .. Len(socket_handlers)
    BY LenProperties DEF Select!IInv, Select!PositionsAgree
  <2>2. \A h \in freed : runner_pos[h] < 0 /\ h \notin fd_in \cup DOMAIN active
    BY DEF Select!IInv, Select!PositionsAgree, Select!WishesAgree, Select!WishesOf,
       Select!MarksAgree, Select!InTable
  <2> QED
    BY <2>1, <2>2 DEF Select!IInv, Select!PositionsAgree, Select!TableTrue, Select!InTable
<1> QED BY SelectInductive, <1>1, PTL

-----------------------------------------------------------------------------
(* SL_Socket_TcpClient: an inductive invariant for any number of handlers, *)
(* servers and connections.                                                *)

(* The lock lets one caller into connect.                                  *)
LEMMA OneLocked ==
    ASSUME PlacesAgree, NEW t \in Callers, NEW u \in Callers, tpc[t] \in Locked, u # t
    PROVE  tpc[u] \notin Locked /\ thandler[u] = NoHandler /\ tfd[u] = NoConn
BY DEF PlacesAgree, Locked, Opening

LEMMA ClientInit ==
    ASSUME ClientAssumption, Init
    PROVE  IInv
<1> USE DEF Init, EpollInit, ClientAssumption, Threads, Callers
<1>1. TypeOK
  BY DEF TypeOK
<1>2. PlacesAgree
  BY DEF PlacesAgree, Locked, Opening, Taken
<1>3. WatchAgrees /\ HandsAgree /\ CurrentAgrees
  BY DEF WatchAgrees, HandsAgree, CurrentAgrees, Locked, Opening, Taken
<1> QED BY <1>1, <1>2, <1>3 DEF IInv

(* A caller outside connect goes from one place to another.                *)
LEMMA ClientMoves ==
    ASSUME ClientAssumption, IInv, NEW t \in Callers, tpc[t] \notin Locked,
           NEW p \in {"scan", "test", "sleep", "lock", "idle", "exited"},
           tpc' = [tpc EXCEPT ![t] = p],
           UNCHANGED <<epollVars, is_connected, socket_handler, client_mutex, tfd, thandler,
                       sockVars, in_use, double_freed, ghostVars>>
    PROVE  IInv'
<1> USE DEF IInv, epollVars, sockVars, ghostVars
<1>1. t \in Threads /\ t # Runner /\ p \notin Locked \cup Taken
  BY DEF Threads, Callers, ClientAssumption, Locked, Taken, Opening
<1>2. TypeOK'
  BY <1>1 DEF TypeOK
<1>3. PlacesAgree'
  BY <1>1 DEF TypeOK, PlacesAgree, Locked, Opening, Threads, Callers
<1>4. WatchAgrees'
  BY <1>1 DEF TypeOK, WatchAgrees, Locked, Opening, Threads, Callers
<1>5. HandsAgree'
  BY <1>1 DEF TypeOK, HandsAgree, Locked, Opening, Threads, Callers
<1>6. CurrentAgrees'
  BY <1>1 DEF TypeOK, CurrentAgrees, Locked, Opening, Threads, Callers
<1> QED BY <1>2, <1>3, <1>4, <1>5, <1>6

LEMMA ClientBegin ==
    ASSUME ClientAssumption, IInv, NEW t \in Callers, BeginConnect(t)
    PROVE  IInv'
<1> USE DEF IInv, epollVars, sockVars, ghostVars
<1>0. tpc[t] = "lock" /\ client_mutex = NoThread /\ t \in Threads /\ t # Runner
  BY DEF BeginConnect, Threads, Callers, ClientAssumption
<1>1. CASE Goto(t, Back(t)) /\ UNCHANGED client_mutex
  BY <1>0, <1>1, ClientMoves DEF BeginConnect, Goto, Back, Locked, Opening
<1>2. CASE ~is_connected /\ client_mutex' = t /\ Goto(t, "dial")
  <2>1. /\ tpc' = [tpc EXCEPT ![t] = "dial"]
        /\ UNCHANGED <<epollVars, is_connected, socket_handler, tfd, thandler,
                       sockVars, in_use, double_freed, ghostVars>>
    BY <1>2 DEF BeginConnect, Goto
  <2>2. TypeOK'
    BY <1>0, <1>2, <2>1 DEF TypeOK, Locked
  <2>3. PlacesAgree'
    BY <1>0, <1>2, <2>1 DEF TypeOK, PlacesAgree, Locked, Opening, Taken, Threads, Callers, ClientAssumption
  <2>4. WatchAgrees'
    BY <1>0, <2>1 DEF TypeOK, WatchAgrees, Threads, Callers
  <2>5. HandsAgree'
    BY <1>0, <2>1 DEF TypeOK, HandsAgree, Opening, Threads, Callers
  <2>6. CurrentAgrees'
    BY <1>0, <1>2, <2>1 DEF TypeOK, CurrentAgrees, Threads, Callers
  <2> QED BY <2>2, <2>3, <2>4, <2>5, <2>6
<1> QED BY <1>1, <1>2 DEF BeginConnect

(* A caller leaves connect without a connection.                           *)
LEMMA ClientUnlocks ==
    ASSUME ClientAssumption, IInv, NEW t \in Callers, tpc[t] = "dial", Unlock(t),
           UNCHANGED <<epollVars, is_connected, socket_handler, tfd, thandler,
                       sockVars, in_use, double_freed, ghostVars>>
    PROVE  IInv'
<1> USE DEF IInv, epollVars, sockVars, ghostVars
<1>1. /\ t \in Threads /\ t # Runner /\ client_mutex = t /\ client_mutex' = NoThread
      /\ tpc' = [tpc EXCEPT ![t] = Back(t)] /\ Back(t) \in {"idle", "sleep"}
  BY DEF Threads, Callers, ClientAssumption, Unlock, Goto, Back, PlacesAgree, Locked
<1>2. TypeOK'
  BY <1>1 DEF TypeOK
<1>3. PlacesAgree'
  BY <1>1 DEF TypeOK, PlacesAgree, Locked, Opening, Taken, Threads, Callers, ClientAssumption
<1>4. WatchAgrees'
  BY <1>1 DEF TypeOK, WatchAgrees, Threads, Callers
<1>5. HandsAgree'
  BY <1>1 DEF TypeOK, HandsAgree, Opening, Threads, Callers
<1>6. CurrentAgrees'
  BY <1>1 DEF TypeOK, CurrentAgrees, Threads, Callers
<1> QED BY <1>2, <1>3, <1>4, <1>5, <1>6

LEMMA ClientDials ==
    ASSUME ClientAssumption, IInv, NEW t \in Callers, Dial(t)
    PROVE  IInv'
<1> USE DEF IInv, epollVars, flagVars, ghostVars
<1>0. tpc[t] = "dial" /\ t \in Threads /\ t # Runner
  BY DEF Dial, Threads, Callers, ClientAssumption
<1>1. CASE Unlock(t) /\ UNCHANGED <<made, fd, tfd>>
  BY <1>0, <1>1, ClientUnlocks DEF Dial, sockVars
<1>2. CASE /\ \E c \in Conns \ made : fd' = fd \cup {c} /\ tfd' = [tfd EXCEPT ![t] = c]
           /\ Goto(t, "alloc") /\ UNCHANGED client_mutex
  <2>1. PICK c \in Conns : fd' = fd \cup {c} /\ tfd' = [tfd EXCEPT ![t] = c]
    BY <1>2
  <2>2. /\ tpc' = [tpc EXCEPT ![t] = "alloc"] /\ c # NoConn
        /\ UNCHANGED <<epollVars, is_connected, socket_handler, client_mutex, thandler, socket_,
                       eof, in_use, double_freed, ghostVars>>
    BY <1>2 DEF Dial, Goto, ClientAssumption
  <2>3. TypeOK'
    BY <1>0, <2>1, <2>2 DEF TypeOK, Locked
  <2>4. PlacesAgree'
    BY <1>0, <2>1, <2>2 DEF TypeOK, PlacesAgree, Locked, Opening, Taken, Threads, Callers
  <2>5. WatchAgrees'
    BY <1>0, <2>2 DEF TypeOK, WatchAgrees, Threads, Callers
  <2>6. HandsAgree'
    <3>1. \A u \in Callers : tpc'[u] \notin Opening
      BY <1>0, <2>2, OneLocked DEF TypeOK, Locked, Opening, Threads, Callers
    <3> QED BY <1>0, <2>2, <3>1 DEF TypeOK, HandsAgree, Threads
  <2>7. CurrentAgrees'
    <3>1. tfd[t] = NoConn /\ NoConn \notin fd
      BY <1>0 DEF PlacesAgree, Opening, TypeOK, ClientAssumption
    <3>2. \A x \in fd' : \/ \E u \in Callers : tfd'[u] = x
                         \/ \E h \in in_use' : socket_'[h] = x /\ (h \in interest' \/ h = thandler'[Runner])
      BY <1>0, <2>1, <2>2, <3>1 DEF TypeOK, CurrentAgrees, Threads, Callers
    <3> QED BY <1>0, <2>2, <3>2 DEF TypeOK, CurrentAgrees, Threads, Callers
  <2> QED BY <2>3, <2>4, <2>5, <2>6, <2>7
<1> QED BY <1>1, <1>2 DEF Dial

(* A new handler is nobody's yet.                                          *)
LEMMA ClientOpens ==
    ASSUME ClientAssumption, IInv, NEW t \in Callers, HandleOpen(t)
    PROVE  IInv'
<1> DEFINE h == CHOOSE g \in Handlers : g \notin in_use
<1> USE DEF IInv, epollVars, flagVars, ghostVars
<1>1. h \in Handlers /\ h \notin in_use
  BY DEF HandleOpen, TypeOK
<1>2. /\ tpc[t] = "alloc" /\ t \in Threads /\ t # Runner
      /\ tpc'[t] \in {"add", "undo"} /\ tpc' = [tpc EXCEPT ![t] = tpc'[t]]
      /\ thandler' = [thandler EXCEPT ![t] = h] /\ in_use' = in_use \cup {h}
      /\ socket_' = [socket_ EXCEPT ![h] = tfd[t]]
      /\ UNCHANGED <<epollVars, is_connected, socket_handler, client_mutex, tfd, fd, eof,
                     double_freed, ghostVars>>
  BY DEF HandleOpen, Goto, Threads, Callers, ClientAssumption, TypeOK
<1> HIDE DEF h
<1>3. /\ h # NoHandler /\ h # socket_handler /\ h \notin interest \cup events \cup event_mask
      /\ \A u \in Threads : thandler[u] # h
  BY <1>1 DEF TypeOK, WatchAgrees, ClientAssumption
<1>4. TypeOK'
  BY <1>1, <1>2 DEF TypeOK, Locked, Opening
<1>5. PlacesAgree'
  BY <1>2, <1>3 DEF TypeOK, PlacesAgree, Locked, Opening, Taken, Threads, Callers
<1>6. WatchAgrees'
  BY <1>1, <1>2, <1>3 DEF TypeOK, WatchAgrees, Threads, Callers
<1>7. HandsAgree'
  <2>1. \A u \in Callers : u # t => tpc'[u] \notin Opening
    BY <1>2, OneLocked DEF TypeOK, Locked, Opening, Threads, Callers
  <2>2. thandler'[Runner] = thandler[Runner] /\ tpc'[Runner] = tpc[Runner]
    BY <1>2 DEF TypeOK, Threads
  <2>3. \A u \in Callers : u # t => thandler'[u] = thandler[u]
    BY <1>2 DEF TypeOK, Threads, Callers
  <2>4. thandler'[t] = h /\ socket_'[h] = tfd[t] /\ \A g \in Handlers : g # h => socket_'[g] = socket_[g]
    BY <1>1, <1>2 DEF TypeOK
  <2>5. tpc[Runner] \in Taken => thandler[Runner] \in Handlers /\ thandler[Runner] # h
    BY <1>3 DEF TypeOK, PlacesAgree, Threads
  <2>6. \A u \in Callers : tpc'[u] \in Opening =>
          /\ thandler'[u] # socket_handler'
          /\ tpc'[u] \in {"add", "undo"}
          /\ thandler'[u] \notin interest' \cup events' \cup {thandler'[Runner]}
          /\ socket_'[thandler'[u]] = tfd'[u]
    BY <1>2, <1>3, <2>1, <2>2, <2>4 DEF Threads
  <2>7. tpc'[Runner] = "free" => \A u \in Callers : thandler'[u] # thandler'[Runner]
    BY <1>2, <2>2, <2>3, <2>4, <2>5 DEF HandsAgree, Taken
  <2> QED BY <1>2, <2>2, <2>4, <2>5, <2>6, <2>7 DEF HandsAgree, Taken
<1>8. CurrentAgrees'
  <2>1. \A g \in in_use : g # h /\ g \in Handlers /\ socket_'[g] = socket_[g]
    BY <1>1, <1>2 DEF TypeOK
  <2>2. thandler'[Runner] = thandler[Runner]
    BY <1>2 DEF TypeOK, Threads
  <2>3. event_mask \subseteq in_use /\ (socket_handler # NoHandler => socket_handler \in in_use)
    BY DEF TypeOK, WatchAgrees
  <2>4. \A x \in fd' : \/ \E u \in Callers : tfd'[u] = x
                       \/ \E g \in in_use' : socket_'[g] = x /\ (g \in interest' \/ g = thandler'[Runner])
    BY <1>2, <2>1, <2>2 DEF CurrentAgrees
  <2>5. \A u \in Callers : tpc'[u] = "assign" <=> tpc[u] = "assign"
    BY <1>2 DEF TypeOK, Threads, Callers
  <2>6. \A u \in Callers : thandler'[u] = thandler[u] \/ thandler[u] = NoHandler
    <3>1. thandler[t] = NoHandler
      BY <1>2 DEF PlacesAgree, Opening
    <3> QED BY <1>2, <3>1 DEF TypeOK, Threads, Callers
  <2>7. \A u \in Callers : tpc'[u] = "assign" => thandler'[u] = thandler[u]
    BY <1>2, <2>5 DEF TypeOK, Threads, Callers
  <2>8. NoHandler \notin event_mask
    BY <2>3 DEF TypeOK, ClientAssumption
  <2>9. \A g \in event_mask' : g = socket_handler'
          \/ g \in {thandler'[u] : u \in Callers} \cup lost' \/ socket_'[g] \in eof'
    BY <1>2, <2>1, <2>3, <2>6, <2>8 DEF CurrentAgrees
  <2> QED BY <1>2, <2>1, <2>3, <2>4, <2>5, <2>7, <2>9 DEF CurrentAgrees
<1> QED BY <1>4, <1>5, <1>6, <1>7, <1>8

(* The handler becomes the runner's, and has no mask yet.                  *)
LEMMA ClientAdds ==
    ASSUME ClientAssumption, IInv, NEW t \in Callers, AddHandle(t)
    PROVE  IInv'
<1> DEFINE h == thandler[t]
<1> USE DEF IInv, flagVars, ghostVars, sockVars
<1>1. /\ tpc[t] = "add" /\ t \in Threads /\ t # Runner
      /\ h \in in_use /\ h # NoHandler /\ h \notin interest \cup events \cup event_mask
      /\ h # thandler[Runner] /\ socket_[h] = tfd[t] /\ h # socket_handler
      /\ UNCHANGED <<is_connected, socket_handler, client_mutex, tfd, thandler, sockVars, in_use,
                     double_freed, ghostVars>>
  BY DEF AddHandle, Threads, Callers, ClientAssumption, TypeOK, PlacesAgree, HandsAgree,
     WatchAgrees, Opening
<1>2. \A u \in Callers : u # t => tpc'[u] \notin Opening /\ tpc'[u] = tpc[u] /\ thandler[u] # h
  BY <1>1, OneLocked DEF AddHandle, Goto, TypeOK, Locked, Opening, Threads, Callers
<1> HIDE DEF h
<1>3. CASE /\ interest' = interest \cup {h} /\ pending' \subseteq pending \cup {h}
           /\ UNCHANGED <<events, event_mask>> /\ tpc' = [tpc EXCEPT ![t] = "mask"]
  <2>1. TypeOK'
    BY <1>1, <1>3 DEF TypeOK, Locked, Opening
  <2>2. PlacesAgree'
    BY <1>1, <1>3 DEF TypeOK, PlacesAgree, Locked, Opening, Taken, Threads, Callers
  <2>3. tpc'[t] = "mask" /\ tpc'[Runner] = tpc[Runner]
    BY <1>1, <1>3 DEF TypeOK, Threads
  <2>4. WatchAgrees'
    BY <1>1, <1>2, <1>3, <2>3 DEF WatchAgrees, h
  <2>5. HandsAgree'
    <3>1. \A u \in Callers : tpc'[u] \in Opening => u = t
      BY <1>2
    <3> QED BY <1>1, <1>3, <2>3, <3>1 DEF HandsAgree, h
  <2>6. CurrentAgrees'
    <3>1. \A u \in Callers : tpc'[u] = "assign" <=> tpc[u] = "assign"
      BY <1>1, <1>2, <2>3
    <3> QED BY <1>1, <1>3, <3>1 DEF CurrentAgrees
  <2> QED BY <2>1, <2>2, <2>4, <2>5, <2>6
<1>4. CASE tpc' = [tpc EXCEPT ![t] = "undo"] /\ UNCHANGED epollVars
  <2> USE DEF epollVars
  <2>1. TypeOK'
    BY <1>1, <1>4 DEF TypeOK, Locked, Opening
  <2>2. PlacesAgree'
    BY <1>1, <1>4 DEF TypeOK, PlacesAgree, Locked, Opening, Taken, Threads, Callers
  <2>3. tpc'[t] = "undo" /\ tpc'[Runner] = tpc[Runner]
    BY <1>1, <1>4 DEF TypeOK, Threads
  <2>4. WatchAgrees'
    BY <1>1, <1>2, <1>4 DEF WatchAgrees
  <2>5. HandsAgree'
    <3>1. \A u \in Callers : tpc'[u] \in Opening => u = t
      BY <1>2
    <3> QED BY <1>1, <1>4, <2>3, <3>1 DEF HandsAgree, h
  <2>6. CurrentAgrees'
    <3>1. \A u \in Callers : tpc'[u] = "assign" <=> tpc[u] = "assign"
      BY <1>1, <1>2, <2>3
    <3> QED BY <1>1, <1>4, <3>1 DEF CurrentAgrees
  <2> QED BY <2>1, <2>2, <2>4, <2>5, <2>6
<1> QED BY <1>3, <1>4 DEF AddHandle, CtlAdd, Goto, h

LEMMA ClientMasks ==
    ASSUME ClientAssumption, IInv, NEW t \in Callers, AddMask(t)
    PROVE  IInv'
<1> DEFINE h == thandler[t]
<1> USE DEF IInv, flagVars, ghostVars, sockVars
<1>1. /\ tpc[t] = "mask" /\ t \in Threads /\ t # Runner
      /\ h \in interest \ event_mask /\ socket_[h] = tfd[t] /\ h # socket_handler
      /\ tpc' = [tpc EXCEPT ![t] = "publish"]
      /\ event_mask' = event_mask \cup {h} /\ UNCHANGED <<interest, pending, events>>
      /\ UNCHANGED <<is_connected, socket_handler, client_mutex, tfd, thandler, sockVars, in_use,
                     double_freed, ghostVars>>
  BY DEF AddMask, SetMask, Goto, Threads, Callers, ClientAssumption, HandsAgree, Opening
<1>2. \A u \in Callers : u # t => tpc'[u] \notin Opening /\ tpc'[u] = tpc[u]
  BY <1>1, OneLocked DEF TypeOK, Locked, Opening, Threads, Callers
<1>3. \A u \in Callers : u # t => tpc[u] \notin Opening
  BY <1>1, <1>2
<1>4. tpc'[t] = "publish" /\ tpc'[Runner] = tpc[Runner]
  BY <1>1 DEF TypeOK, Threads
<1>5. TypeOK'
  BY <1>1 DEF TypeOK, Locked, Opening
<1>6. PlacesAgree'
  BY <1>1 DEF TypeOK, PlacesAgree, Locked, Opening, Taken, Threads, Callers
<1>7. WatchAgrees'
  <2>1. \A g \in interest \ event_mask : g = h
    BY <1>3 DEF WatchAgrees, Opening
  <2> QED BY <1>1, <2>1 DEF WatchAgrees
<1>8. HandsAgree'
  <2>1. \A u \in Callers : tpc'[u] \in Opening => u = t
    BY <1>2
  <2> QED BY <1>1, <1>4, <2>1 DEF HandsAgree
<1>9. CurrentAgrees'
  <2>1. \A u \in Callers : tpc'[u] = "assign" <=> tpc[u] = "assign"
    BY <1>1, <1>2, <1>4
  <2> QED BY <1>1, <2>1 DEF CurrentAgrees
<1> QED BY <1>5, <1>6, <1>7, <1>8, <1>9

(* The socket is closed and the handler freed, which nobody else had.      *)
LEMMA ClientUndoes ==
    ASSUME ClientAssumption, IInv, NEW t \in Callers, Undo(t)
    PROVE  IInv'
<1> DEFINE h == thandler[t]
           c == tfd[t]
<1> USE DEF IInv, flagVars, ghostVars, epollVars
<1>1. /\ tpc[t] = "undo" /\ t \in Threads /\ t # Runner
      /\ h \in in_use /\ h # NoHandler /\ h \notin interest \cup events \cup event_mask
      /\ h # thandler[Runner] /\ h # socket_handler /\ c # NoConn
      /\ fd' = fd \ {c} /\ in_use' = in_use \ {h} /\ UNCHANGED double_freed
      /\ tfd' = [tfd EXCEPT ![t] = NoConn] /\ thandler' = [thandler EXCEPT ![t] = NoHandler]
      /\ tpc' = [tpc EXCEPT ![t] = Back(t)] /\ Back(t) \in {"idle", "sleep"}
      /\ client_mutex = t /\ client_mutex' = NoThread
      /\ UNCHANGED <<epollVars, is_connected, socket_handler, socket_, eof, ghostVars>>
  BY DEF Undo, Free, Unlock, Back, Goto, Threads, Callers, ClientAssumption, TypeOK, PlacesAgree,
     HandsAgree, WatchAgrees, Opening, Locked
<1>2. \A u \in Callers : u # t => /\ tpc'[u] \notin Locked /\ tpc'[u] = tpc[u]
                                  /\ thandler'[u] = thandler[u] /\ thandler[u] = NoHandler
                                  /\ tfd'[u] = tfd[u] /\ tfd[u] = NoConn
  BY <1>1, OneLocked DEF TypeOK, Locked, Opening, Threads, Callers
<1>3. /\ tpc'[t] = Back(t) /\ thandler'[t] = NoHandler /\ tfd'[t] = NoConn
      /\ tpc'[Runner] = tpc[Runner] /\ thandler'[Runner] = thandler[Runner]
  BY <1>1 DEF TypeOK, Threads
<1> HIDE DEF h, c
<1>4. \A u \in Callers : tpc'[u] \notin Locked /\ tpc'[u] \notin Opening
  BY <1>1, <1>2, <1>3 DEF Locked, Opening
<1>5. TypeOK'
  <2>1. thandler' \in [Threads -> in_use' \cup {NoHandler}]
    BY <1>1, <1>2, <1>3 DEF TypeOK, Threads, Callers
  <2> QED BY <1>1, <2>1 DEF TypeOK
<1>6. PlacesAgree'
  BY <1>1, <1>2, <1>3, <1>4 DEF TypeOK, PlacesAgree, Opening, Taken, Callers, ClientAssumption
<1>7. WatchAgrees'
  <2>1. interest \subseteq event_mask
    BY <1>1, <1>2 DEF WatchAgrees, Locked, Opening
  <2> QED BY <1>1, <2>1 DEF WatchAgrees
<1>8. HandsAgree'
  <2>1. tpc[Runner] = "free" => thandler[Runner] # NoHandler
    BY DEF PlacesAgree, Taken
  <2> QED BY <1>1, <1>2, <1>3, <1>4, <2>1 DEF HandsAgree
<1>9. CurrentAgrees'
  <2>1. ASSUME NEW x \in fd'
        PROVE  \E g \in in_use' : socket_'[g] = x /\ (g \in interest' \/ g = thandler'[Runner])
    <3>1. x \in fd /\ x # c /\ x # NoConn
      BY <1>1, <2>1 DEF TypeOK, ClientAssumption
    <3>2. \A u \in Callers : tfd[u] # x
      BY <1>2, <3>1 DEF c
    <3>3. PICK g \in in_use : socket_[g] = x /\ (g \in interest \/ g = thandler[Runner])
      BY <3>1, <3>2 DEF CurrentAgrees
    <3>4. g # h
      BY <1>1, <3>3
    <3> QED BY <1>1, <1>3, <3>3, <3>4
  <2>2. is_connected => socket_handler # NoHandler
    <3>1. \A u \in Callers : tpc[u] # "assign"
      BY <1>1, <1>2 DEF Locked, Opening
    <3> QED BY <3>1 DEF CurrentAgrees
  <2>3. \A g \in event_mask' : g = socket_handler'
          \/ g \in {thandler'[u] : u \in Callers} \cup lost' \/ socket_'[g] \in eof'
    <3>1. \A g \in event_mask : g # h /\ g # NoHandler
      BY <1>1 DEF WatchAgrees, TypeOK, ClientAssumption
    <3>2. \A g \in event_mask : g \notin {thandler[u] : u \in Callers}
      BY <1>2, <3>1 DEF h
    <3> QED BY <1>1, <3>2 DEF CurrentAgrees
  <2>4. \A u \in Callers : tpc'[u] # "assign"
    BY <1>4 DEF Opening
  <2> QED BY <1>1, <2>1, <2>2, <2>3, <2>4 DEF CurrentAgrees
<1> QED BY <1>5, <1>6, <1>7, <1>8, <1>9

(* is_connected_ is set while the handler before is still the current one. *)
LEMMA ClientPublishes ==
    ASSUME ClientAssumption, IInv, NEW t \in Callers, Publish(t)
    PROVE  IInv'
<1> USE DEF IInv, ghostVars, sockVars, epollVars
<1>1. /\ tpc[t] = "publish" /\ t \in Threads /\ t # Runner /\ client_mutex = t
      /\ tpc' = [tpc EXCEPT ![t] = "assign"] /\ is_connected' = TRUE
      /\ UNCHANGED <<epollVars, socket_handler, client_mutex, tfd, thandler, sockVars, in_use,
                     double_freed, ghostVars>>
  BY DEF Publish, Goto, Threads, Callers, ClientAssumption, PlacesAgree, Locked, Opening
<1>2. \A u \in Callers : u # t => tpc'[u] \notin Opening /\ tpc'[u] = tpc[u]
  BY <1>1, OneLocked DEF TypeOK, Locked, Opening, Threads, Callers
<1>3. tpc'[t] = "assign" /\ tpc'[Runner] = tpc[Runner]
  BY <1>1 DEF TypeOK, Threads
<1>4. client_mutex # NoThread
  BY <1>1 DEF ClientAssumption
<1>5. TypeOK'
  BY <1>1 DEF TypeOK, Locked, Opening
<1>6. PlacesAgree'
  BY <1>1 DEF TypeOK, PlacesAgree, Locked, Opening, Taken, Threads, Callers
<1>7. WatchAgrees'
  BY <1>1, <1>2 DEF WatchAgrees
<1>8. HandsAgree'
  <2>1. \A u \in Callers : tpc'[u] \in Opening => u = t
    BY <1>2
  <2>2. tpc[t] \in Opening
    BY <1>1 DEF Opening
  <2> QED BY <1>1, <1>3, <2>1, <2>2 DEF HandsAgree
<1>9. CurrentAgrees'
  BY <1>1, <1>3, <1>4 DEF CurrentAgrees
<1> QED BY <1>5, <1>6, <1>7, <1>8, <1>9

(* The handler before has lost its connection; the new one is current.     *)
LEMMA ClientAssigns ==
    ASSUME ClientAssumption, IInv, NEW t \in Callers, AssignHandler(t)
    PROVE  IInv'
<1> DEFINE h == thandler[t]
           c == tfd[t]
<1> USE DEF IInv, ghostVars, sockVars, epollVars
<1>1. /\ tpc[t] = "assign" /\ t \in Threads /\ t # Runner
      /\ h \in in_use /\ h # NoHandler /\ c # NoConn
      /\ socket_handler' = h
      /\ tfd' = [tfd EXCEPT ![t] = NoConn] /\ thandler' = [thandler EXCEPT ![t] = NoHandler]
      /\ tpc' = [tpc EXCEPT ![t] = Back(t)] /\ Back(t) \in {"idle", "sleep"}
      /\ client_mutex = t /\ client_mutex' = NoThread /\ client_mutex # NoThread
      /\ UNCHANGED <<epollVars, is_connected, sockVars, in_use, double_freed, ghostVars>>
  BY DEF AssignHandler, Unlock, Back, Goto, Threads, Callers, ClientAssumption, TypeOK, PlacesAgree,
     Opening, Locked
<1>2. \A u \in Callers : u # t => /\ tpc'[u] \notin Locked /\ tpc'[u] = tpc[u]
                                  /\ thandler'[u] = thandler[u] /\ thandler[u] = NoHandler
                                  /\ tfd'[u] = tfd[u] /\ tfd[u] = NoConn
  BY <1>1, OneLocked DEF TypeOK, Locked, Opening, Threads, Callers
<1>3. /\ tpc'[t] = Back(t) /\ thandler'[t] = NoHandler /\ tfd'[t] = NoConn
      /\ tpc'[Runner] = tpc[Runner] /\ thandler'[Runner] = thandler[Runner]
  BY <1>1 DEF TypeOK, Threads
<1>4. /\ c \in fd => socket_[h] = c /\ (h \in interest \/ h = thandler[Runner])
      /\ tpc[Runner] = "free" => thandler[Runner] # h
      /\ ~is_connected => h \in lost
  BY <1>1 DEF HandsAgree, CurrentAgrees, Opening
<1> HIDE DEF h, c
<1>5. \A u \in Callers : tpc'[u] \notin Locked /\ tpc'[u] \notin Opening
  BY <1>1, <1>2, <1>3 DEF Locked, Opening
<1>6. TypeOK'
  BY <1>1 DEF TypeOK
<1>7. PlacesAgree'
  BY <1>1, <1>2, <1>3, <1>5 DEF TypeOK, PlacesAgree, Opening, Taken, Callers, ClientAssumption
<1>8. interest \subseteq event_mask
  BY <1>1, <1>2 DEF WatchAgrees, Locked, Opening
<1>9. WatchAgrees'
  BY <1>1, <1>8 DEF WatchAgrees
<1>10. HandsAgree'
  <2>1. tpc[Runner] = "free" => thandler[Runner] # NoHandler
    BY DEF PlacesAgree, Taken
  <2> QED BY <1>1, <1>2, <1>3, <1>4, <1>5, <2>1 DEF HandsAgree
<1>11. CurrentAgrees'
  <2>1. ASSUME NEW x \in fd'
        PROVE  \E g \in in_use' : socket_'[g] = x /\ (g \in interest' \/ g = thandler'[Runner])
    <3>1. x \in fd /\ x # NoConn
      BY <1>1, <2>1 DEF TypeOK, ClientAssumption
    <3>2. CASE x = c
      BY <1>1, <1>3, <1>4, <3>1, <3>2
    <3>3. CASE x # c
      <4>1. \A u \in Callers : tfd[u] # x
        BY <1>2, <3>1, <3>3 DEF c
      <4> QED BY <1>1, <1>3, <3>1, <4>1 DEF CurrentAgrees
    <3> QED BY <3>2, <3>3
  <2>2. \A g \in event_mask' : g = socket_handler'
          \/ g \in {thandler'[u] : u \in Callers} \cup lost' \/ socket_'[g] \in eof'
    <3>1. \A g \in event_mask : g # NoHandler
      BY DEF WatchAgrees, TypeOK, ClientAssumption
    <3>2. \A g \in event_mask : g # h => g \notin {thandler[u] : u \in Callers}
      BY <1>2, <3>1 DEF h
    <3>3. socket_handler \in event_mask => socket_handler \in lost \/ socket_[socket_handler] \in eof
      BY <1>1, <3>1 DEF CurrentAgrees
    <3> QED BY <1>1, <3>2, <3>3 DEF CurrentAgrees
  <2>3. \A u \in Callers : tpc'[u] # "assign"
    BY <1>5 DEF Opening
  <2> QED BY <1>1, <1>4, <2>1, <2>2, <2>3 DEF CurrentAgrees
<1> QED BY <1>6, <1>7, <1>9, <1>10, <1>11

(* A send that fails is that of the current handler, whose stream ended.   *)
LEMMA ClientSends ==
    ASSUME ClientAssumption, IInv, SendFails
    PROVE  IInv'
<1> USE DEF IInv, sockVars, epollVars, threadVars
<1>1. /\ socket_handler # NoHandler /\ socket_[socket_handler] \in eof
      /\ is_connected' = FALSE
      /\ lost' = lost \cup {thandler[t] : t \in {u \in Callers : tpc[u] = "assign"}}
      /\ UNCHANGED <<epollVars, socket_handler, client_mutex, threadVars, sockVars, in_use,
                     double_freed>>
  BY DEF SendFails
<1>2. TypeOK'
  BY <1>1 DEF TypeOK
<1>3. PlacesAgree' /\ WatchAgrees' /\ HandsAgree'
  BY <1>1 DEF PlacesAgree, WatchAgrees, HandsAgree
<1>4. CurrentAgrees'
  <2>1. \A t \in Callers : tpc[t] = "assign" => thandler[t] \in lost'
    BY <1>1
  <2>2. lost \subseteq lost'
    BY <1>1
  <2> QED BY <1>1, <2>1, <2>2 DEF CurrentAgrees
<1> QED BY <1>2, <1>3, <1>4

(* close() waits for connect and disconnect.                               *)
LEMMA ClientCloses ==
    ASSUME ClientAssumption, IInv, AppClose
    PROVE  IInv'
<1> DEFINE h == socket_handler
<1> USE DEF IInv, threadVars
<1>1. /\ client_mutex = NoThread /\ is_connected' = FALSE /\ socket_handler' = NoHandler
      /\ lost \subseteq lost'
      /\ UNCHANGED <<client_mutex, threadVars, eof, in_use, double_freed, events>>
  BY DEF AppClose, CtlDel, epollVars
<1>2. \A t \in Callers : tpc[t] \notin Locked /\ tpc[t] \notin Opening /\ tfd[t] = NoConn
                         /\ thandler[t] = NoHandler
  BY <1>1 DEF PlacesAgree, Locked, Opening, ClientAssumption
<1>3. /\ interest \subseteq event_mask /\ h \in in_use \cup {NoHandler}
      /\ NoHandler \notin in_use /\ in_use \subseteq Handlers
  BY <1>2 DEF WatchAgrees, TypeOK, Opening, ClientAssumption
<1>4. /\ interest' = interest \ {h} /\ event_mask' = event_mask \ {h}
      /\ pending' \subseteq pending /\ h \notin pending'
  <2>1. CASE h \in event_mask
    BY <2>1 DEF AppClose, CtlDel
  <2>2. CASE h \notin event_mask
    BY <1>3, <2>2 DEF AppClose, epollVars, WatchAgrees
  <2> QED BY <2>1, <2>2
<1>5. /\ fd' \subseteq fd
      /\ socket_' \in [Handlers -> Conns \cup {NoConn}]
      /\ \A g \in in_use : socket_'[g] = IF g = h THEN NoConn ELSE socket_[g]
      /\ h # NoHandler => fd' = fd \ {socket_[h]}
      /\ h = NoHandler => fd' = fd
  <2>1. CASE h # NoHandler
    BY <1>3, <2>1 DEF AppClose, TypeOK
  <2>2. CASE h = NoHandler
    BY <1>3, <2>2 DEF AppClose, TypeOK
  <2> QED BY <2>1, <2>2
<1> HIDE DEF h
<1>6. TypeOK'
  BY <1>1, <1>5 DEF TypeOK
<1>7. PlacesAgree'
  BY <1>1 DEF PlacesAgree
<1>8. WatchAgrees'
  BY <1>1, <1>3, <1>4, <1>5 DEF WatchAgrees
<1>9. HandsAgree'
  <2>1. tpc[Runner] \in Taken => thandler[Runner] \in in_use
    BY DEF PlacesAgree, TypeOK, Threads
  <2> QED BY <1>1, <1>2, <1>3, <1>4, <1>5, <2>1 DEF HandsAgree, Taken
<1>10. CurrentAgrees'
  <2>1. ASSUME NEW x \in fd'
        PROVE  \E g \in in_use' : socket_'[g] = x /\ (g \in interest' \/ g = thandler'[Runner])
    <3>1. x \in fd /\ x # NoConn
      BY <1>5, <2>1 DEF TypeOK, ClientAssumption
    <3>2. PICK g \in in_use : socket_[g] = x /\ (g \in interest \/ g = thandler[Runner])
      BY <1>2, <3>1 DEF CurrentAgrees
    <3>3. g # h
      BY <1>3, <1>5, <2>1, <3>2
    <3> QED BY <1>1, <1>4, <1>5, <3>2, <3>3
  <2>2. \A g \in event_mask' : g \in lost' \/ socket_'[g] \in eof'
    <3>1. \A g \in event_mask : g # NoHandler /\ g \in in_use
      BY <1>3 DEF WatchAgrees
    <3> QED BY <1>1, <1>2, <1>4, <1>5, <3>1 DEF CurrentAgrees, h
  <2>3. \A t \in Callers : tpc'[t] # "assign"
    BY <1>1, <1>2 DEF Opening
  <2> QED BY <1>1, <2>1, <2>2, <2>3 DEF CurrentAgrees
<1> QED BY <1>6, <1>7, <1>8, <1>9, <1>10

(* What is left alone by the rest.                                         *)
LEMMA ClientRest ==
    ASSUME IInv,
           UNCHANGED <<interest, events, event_mask, is_connected, socket_handler, client_mutex,
                       threadVars, socket_, fd, in_use, double_freed, ghostVars>>,
           pending' \subseteq interest, eof \subseteq eof'
    PROVE  IInv'
<1> USE DEF IInv, threadVars, ghostVars
<1>1. TypeOK'
  BY DEF TypeOK
<1>2. PlacesAgree'
  BY DEF PlacesAgree
<1>3. WatchAgrees'
  BY DEF WatchAgrees
<1>4. HandsAgree'
  BY DEF HandsAgree
<1>5. CurrentAgrees'
  BY DEF CurrentAgrees
<1> QED BY <1>1, <1>2, <1>3, <1>4, <1>5

-----------------------------------------------------------------------------
(* A step of the runner leaves the callers where they are.                 *)
LEMMA RunnerOnly ==
    ASSUME ClientAssumption, TypeOK, NEW p,
           tpc' = [tpc EXCEPT ![Runner] = p]
    PROVE  tpc'[Runner] = p /\ \A t \in Callers : t # Runner /\ tpc'[t] = tpc[t]
BY DEF TypeOK, Threads, Callers, ClientAssumption

LEMMA RunnerWaits ==
    ASSUME ClientAssumption, IInv, Wait
    PROVE  IInv'
<1> USE DEF IInv, flagVars, ghostVars, sockVars
<1>1. /\ tpc[Runner] = "wait" /\ tpc' = [tpc EXCEPT ![Runner] = "dispatch"]
      /\ pending' \subseteq pending /\ events' \subseteq pending
      /\ UNCHANGED <<interest, event_mask, is_connected, socket_handler, client_mutex, tfd, thandler,
                     sockVars, in_use, double_freed, ghostVars>>
  BY DEF Wait, EpollWait, Goto
<1>2. tpc'[Runner] = "dispatch" /\ \A t \in Callers : tpc'[t] = tpc[t]
  BY <1>1, RunnerOnly
<1>3. TypeOK'
  BY <1>1 DEF TypeOK
<1>4. PlacesAgree'
  BY <1>1, <1>2 DEF PlacesAgree, Taken
<1>5. WatchAgrees'
  BY <1>1, <1>2 DEF WatchAgrees
<1>6. HandsAgree'
  <2>1. events' \subseteq interest
    BY <1>1 DEF WatchAgrees
  <2> QED BY <1>1, <1>2, <2>1 DEF HandsAgree, Taken
<1>7. CurrentAgrees'
  BY <1>1, <1>2 DEF CurrentAgrees
<1> QED BY <1>3, <1>4, <1>5, <1>6, <1>7

LEMMA RunnerDispatches ==
    ASSUME ClientAssumption, IInv, Dispatch
    PROVE  IInv'
<1> USE DEF IInv, flagVars, ghostVars, sockVars
<1>0. /\ tpc[Runner] = "dispatch" /\ thandler[Runner] = NoHandler
      /\ UNCHANGED <<interest, pending, event_mask, is_connected, socket_handler, client_mutex, tfd,
                     sockVars, in_use, double_freed, ghostVars>>
  BY DEF Dispatch, PlacesAgree, Taken
<1>1. CASE UNCHANGED <<events, thandler>> /\ Goto(Runner, "wait")
  <2>1. tpc' = [tpc EXCEPT ![Runner] = "wait"]
    BY <1>1 DEF Goto
  <2>2. tpc'[Runner] = "wait" /\ \A t \in Callers : tpc'[t] = tpc[t]
    BY <2>1, RunnerOnly
  <2>3. TypeOK'
    BY <1>0, <1>1, <2>1 DEF TypeOK
  <2>4. PlacesAgree' /\ WatchAgrees' /\ HandsAgree' /\ CurrentAgrees'
    BY <1>0, <1>1, <2>2 DEF PlacesAgree, WatchAgrees, HandsAgree, CurrentAgrees, Taken
  <2> QED BY <2>3, <2>4
<1>2. CASE \E h \in events : /\ events' = events \ {h} /\ Goto(Runner, "delete")
                            /\ thandler' = [thandler EXCEPT ![Runner] = h]
  <2>1. PICK h \in events : /\ events' = events \ {h} /\ tpc' = [tpc EXCEPT ![Runner] = "delete"]
                            /\ thandler' = [thandler EXCEPT ![Runner] = h]
    BY <1>2 DEF Goto
  <2>2. tpc'[Runner] = "delete" /\ \A t \in Callers : tpc'[t] = tpc[t] /\ t # Runner
    BY <2>1, RunnerOnly
  <2>3. /\ h \in in_use /\ h # NoHandler /\ (h \in interest \/ socket_[h] = NoConn)
        /\ thandler'[Runner] = h /\ \A t \in Callers : thandler'[t] = thandler[t]
    BY <2>1, <2>2 DEF WatchAgrees, TypeOK, ClientAssumption, Threads, Callers
  <2>4. TypeOK'
    BY <1>0, <2>1, <2>3 DEF TypeOK, Taken
  <2>5. PlacesAgree'
    BY <1>0, <2>2, <2>3 DEF PlacesAgree, Taken
  <2>6. WatchAgrees'
    BY <1>0, <2>1, <2>2, <2>3 DEF WatchAgrees
  <2>7. HandsAgree'
    BY <1>0, <2>1, <2>2, <2>3 DEF HandsAgree, Taken, PlacesAgree
  <2>8. CurrentAgrees'
    <3>1. NoHandler \notin in_use
      BY DEF TypeOK, ClientAssumption
    <3> QED BY <1>0, <2>2, <2>3, <3>1 DEF CurrentAgrees
  <2> QED BY <2>4, <2>5, <2>6, <2>7, <2>8
<1> QED BY <1>1, <1>2 DEF Dispatch

LEMMA RunnerDeletes ==
    ASSUME ClientAssumption, IInv, DelHandle
    PROVE  IInv'
<1> DEFINE h == thandler[Runner]
<1> USE DEF IInv, flagVars, ghostVars, sockVars
<1>0. /\ tpc[Runner] = "delete" /\ h \in in_use /\ h # NoHandler /\ h \notin events
      /\ h \in interest \/ socket_[h] = NoConn
      /\ UNCHANGED <<events, is_connected, socket_handler, client_mutex, tfd, sockVars, in_use,
                     double_freed, lost>>
  BY DEF DelHandle, CtlDel, epollVars, TypeOK, PlacesAgree, HandsAgree, Taken, Threads
<1>1. CASE h \in event_mask
  <2>1. /\ interest' = interest \ {h} /\ pending' = pending \ {h} /\ event_mask' = event_mask \ {h}
        /\ tpc' = [tpc EXCEPT ![Runner] = "close"] /\ UNCHANGED thandler
    BY <1>1 DEF DelHandle, CtlDel, Goto
  <2>2. tpc'[Runner] = "close" /\ \A t \in Callers : tpc'[t] = tpc[t] /\ t # Runner
    BY <2>1, RunnerOnly
  <2>3. TypeOK'
    BY <1>0, <2>1 DEF TypeOK, Taken
  <2>4. PlacesAgree'
    BY <1>0, <2>1, <2>2 DEF PlacesAgree, Taken
  <2>5. WatchAgrees'
    BY <1>0, <2>1, <2>2 DEF WatchAgrees
  <2>6. HandsAgree'
    BY <1>0, <1>1, <2>1, <2>2 DEF HandsAgree, Taken, Opening
  <2>7. CurrentAgrees'
    BY <1>0, <2>1, <2>2 DEF CurrentAgrees
  <2> QED BY <2>3, <2>4, <2>5, <2>6, <2>7
<1>2. CASE h \notin event_mask
  <2>1. /\ tpc' = [tpc EXCEPT ![Runner] = "dispatch"] /\ UNCHANGED epollVars
        /\ thandler' = [thandler EXCEPT ![Runner] = NoHandler]
    BY <1>2 DEF DelHandle, Goto
  <2>2. tpc'[Runner] = "dispatch" /\ \A t \in Callers : tpc'[t] = tpc[t] /\ t # Runner
    BY <2>1, RunnerOnly
  <2>3. thandler'[Runner] = NoHandler /\ \A t \in Callers : thandler'[t] = thandler[t]
    BY <2>1, <2>2 DEF TypeOK, Threads, Callers
  <2> USE DEF epollVars
  <2>4. TypeOK'
    BY <1>0, <2>1 DEF TypeOK
  <2>5. PlacesAgree'
    BY <1>0, <2>2, <2>3 DEF PlacesAgree, Taken
  <2>6. WatchAgrees'
    BY <1>0, <2>1, <2>2, <2>3 DEF WatchAgrees
  <2>7. NoConn \notin fd /\ NoHandler \notin in_use
    BY DEF TypeOK, ClientAssumption
  <2>8. HandsAgree'
    <3>1. \A t \in Callers : tpc[t] \in Opening => thandler[t] \in in_use
      BY DEF TypeOK, PlacesAgree, Threads, Callers
    <3> QED BY <1>0, <2>1, <2>2, <2>3, <2>7, <3>1 DEF HandsAgree, Taken, WatchAgrees
  <2>9. CurrentAgrees'
    <3>1. ASSUME NEW g \in in_use, g = h, socket_[g] \in fd PROVE g \in interest
      BY <1>0, <2>7, <3>1
    <3> QED BY <1>0, <2>1, <2>2, <2>3, <3>1 DEF CurrentAgrees
  <2> QED BY <2>4, <2>5, <2>6, <2>8, <2>9
<1> QED BY <1>1, <1>2

LEMMA RunnerCloses ==
    ASSUME ClientAssumption, IInv, HandleClose
    PROVE  IInv'
<1> DEFINE h == thandler[Runner]
<1> USE DEF IInv, flagVars, ghostVars, epollVars
<1>1. /\ tpc[Runner] = "close" /\ h \in in_use /\ h # NoHandler /\ h \notin events \cup interest
      /\ fd' = fd \ {socket_[h]} /\ socket_' = [socket_ EXCEPT ![h] = NoConn]
      /\ tpc' = [tpc EXCEPT ![Runner] = "disconnect"]
      /\ UNCHANGED <<epollVars, is_connected, socket_handler, client_mutex, tfd, thandler, eof, in_use,
                     double_freed, ghostVars>>
  BY DEF HandleClose, Goto, TypeOK, PlacesAgree, HandsAgree, Taken, Threads
<1>2. tpc'[Runner] = "disconnect" /\ \A t \in Callers : tpc'[t] = tpc[t] /\ t # Runner
  BY <1>1, RunnerOnly
<1>3. \A g \in in_use : socket_'[g] = IF g = h THEN NoConn ELSE socket_[g]
  BY <1>1 DEF TypeOK
<1>4. NoConn \notin fd /\ fd' \subseteq fd
  BY <1>1 DEF TypeOK, ClientAssumption
<1>5. \A t \in Callers : tpc[t] \in Opening => thandler[t] \in in_use
  BY DEF TypeOK, PlacesAgree, Threads, Callers
<1> HIDE DEF h
<1>6. TypeOK'
  BY <1>1 DEF TypeOK, Taken
<1>7. PlacesAgree'
  BY <1>1, <1>2 DEF PlacesAgree, Taken
<1>8. WatchAgrees'
  BY <1>1, <1>2, <1>3 DEF WatchAgrees
<1>9. HandsAgree'
  <2>1. h = thandler[Runner]
    BY DEF h
  <2>2. ASSUME NEW t \in Callers, tpc[t] \in Opening
        PROVE  /\ thandler[t] # socket_handler
               /\ tpc[t] \in {"add", "undo"} => thandler[t] \notin interest \cup events \cup {h}
               /\ tpc[t] = "mask" => thandler[t] \in interest \ event_mask
               /\ tpc[t] \in {"add", "mask"} => socket_'[thandler[t]] = tfd[t]
               /\ tpc[t] \in {"publish", "assign"} /\ tfd[t] \in fd' =>
                     socket_'[thandler[t]] = tfd[t] /\ (thandler[t] \in interest \/ thandler[t] = h)
    BY <1>1, <1>3, <1>4, <1>5, <2>1, <2>2 DEF HandsAgree
  <2>3. socket_'[h] = NoConn
    BY <1>1, <1>3
  <2> QED BY <1>1, <1>2, <2>1, <2>2, <2>3 DEF HandsAgree, Taken
<1>10. CurrentAgrees'
  <2>1. ASSUME NEW x \in fd'
        PROVE  \/ \E t \in Callers : tfd'[t] = x
               \/ \E g \in in_use' : socket_'[g] = x /\ (g \in interest' \/ g = thandler'[Runner])
    <3>1. CASE \E t \in Callers : tfd[t] = x
      BY <1>1, <3>1
    <3>2. CASE \E g \in in_use : socket_[g] = x /\ (g \in interest \/ g = thandler[Runner])
      <4>1. PICK g \in in_use : socket_[g] = x /\ (g \in interest \/ g = thandler[Runner])
        BY <3>2
      <4>2. g # h
        BY <1>1, <2>1, <4>1
      <4> QED BY <1>1, <1>3, <4>1, <4>2
    <3> QED BY <1>4, <2>1, <3>1, <3>2 DEF CurrentAgrees
  <2>2. \A g \in event_mask : g # h /\ g \in in_use
    BY <1>1 DEF WatchAgrees
  <2>3. socket_handler # NoHandler => socket_handler \in in_use
    BY DEF TypeOK
  <2> QED BY <1>1, <1>2, <1>3, <2>1, <2>2, <2>3 DEF CurrentAgrees
<1> QED BY <1>6, <1>7, <1>8, <1>9, <1>10

(* disconnect() waits for connect(), which has assigned its handler.       *)
LEMMA RunnerDisconnects ==
    ASSUME ClientAssumption, IInv, Disconnect
    PROVE  IInv'
<1> DEFINE h == thandler[Runner]
<1> USE DEF IInv, sockVars, ghostVars, epollVars
<1>1. /\ tpc[Runner] = "disconnect" /\ h \in in_use /\ h # NoHandler /\ client_mutex = NoThread
      /\ tpc' = [tpc EXCEPT ![Runner] = "free"]
      /\ IF h = socket_handler THEN is_connected' = FALSE /\ socket_handler' = NoHandler
                               ELSE UNCHANGED <<is_connected, socket_handler>>
      /\ h \notin interest /\ h \notin event_mask
      /\ UNCHANGED <<epollVars, client_mutex, tfd, thandler, sockVars, in_use,
                     double_freed, ghostVars>>
  BY DEF Disconnect, Goto, TypeOK, PlacesAgree, HandsAgree, WatchAgrees, Taken, Threads
<1>2. tpc'[Runner] = "free" /\ \A t \in Callers : tpc'[t] = tpc[t] /\ t # Runner
  BY <1>1, RunnerOnly
<1>3. \A t \in Callers : tpc[t] \notin Locked /\ tpc[t] \notin Opening /\ thandler[t] = NoHandler
  BY <1>1 DEF PlacesAgree, Locked, Opening, ClientAssumption
<1>4. TypeOK'
  BY <1>1 DEF TypeOK, Taken
<1>5. PlacesAgree'
  BY <1>1, <1>2 DEF PlacesAgree, Taken
<1>6. WatchAgrees'
  BY <1>1, <1>2 DEF WatchAgrees
<1>7. HandsAgree'
  BY <1>1, <1>2, <1>3 DEF HandsAgree, Taken
<1>8. CurrentAgrees'
  BY <1>1, <1>2, <1>3 DEF CurrentAgrees, Opening
<1> QED BY <1>4, <1>5, <1>6, <1>7, <1>8

LEMMA RunnerFrees ==
    ASSUME ClientAssumption, IInv, FreeHandler
    PROVE  IInv'
<1> DEFINE h == thandler[Runner]
<1> USE DEF IInv, sockVars, ghostVars, epollVars, flagVars
<1>1. /\ tpc[Runner] = "free" /\ h \in in_use /\ h # NoHandler
      /\ h # socket_handler /\ h \notin interest \cup events \cup event_mask
      /\ socket_[h] = NoConn /\ \A t \in Callers : thandler[t] # h
      /\ tpc' = [tpc EXCEPT ![Runner] = "dispatch"]
      /\ thandler' = [thandler EXCEPT ![Runner] = NoHandler]
      /\ in_use' = in_use \ {h} /\ UNCHANGED double_freed
      /\ UNCHANGED <<epollVars, is_connected, socket_handler, client_mutex, tfd, sockVars, ghostVars>>
  BY DEF FreeHandler, Free, Goto, TypeOK, PlacesAgree, HandsAgree, WatchAgrees, Taken, Threads
<1>2. tpc'[Runner] = "dispatch" /\ \A t \in Callers : tpc'[t] = tpc[t] /\ t # Runner
  BY <1>1, RunnerOnly
<1>3. thandler'[Runner] = NoHandler /\ \A t \in Callers : thandler'[t] = thandler[t]
  BY <1>1, <1>2 DEF TypeOK, Threads, Callers
<1>4. NoConn \notin fd /\ NoHandler \notin in_use
  BY DEF TypeOK, ClientAssumption
<1> HIDE DEF h
<1>5. TypeOK'
  <2>1. \A t \in Threads : thandler'[t] \in in_use' \cup {NoHandler}
    BY <1>1, <1>3 DEF TypeOK, Threads, Callers
  <2> QED BY <1>1, <2>1 DEF TypeOK
<1>6. PlacesAgree'
  BY <1>1, <1>2, <1>3 DEF PlacesAgree, Taken
<1>7. WatchAgrees'
  BY <1>1, <1>2, <1>3 DEF WatchAgrees
<1>8. HandsAgree'
  <2>1. \A t \in Callers : tpc[t] \in Opening => thandler[t] # NoHandler
    BY DEF PlacesAgree
  <2> QED BY <1>1, <1>2, <1>3, <2>1 DEF HandsAgree, Taken, h
<1>9. CurrentAgrees'
  <2>1. \A g \in in_use : socket_[g] \in fd /\ (g \in interest \/ g = thandler[Runner]) =>
            g \in in_use' /\ g \in interest
    BY <1>1, <1>4 DEF h
  <2> QED BY <1>1, <1>2, <1>3, <2>1 DEF CurrentAgrees
<1> QED BY <1>5, <1>6, <1>7, <1>8, <1>9

-----------------------------------------------------------------------------
LEMMA ClientStep ==
    ASSUME ClientAssumption, IInv, [Next]_clientVars
    PROVE  IInv'
<1>1. ASSUME NEW t \in Callers, ConnectStep(t) PROVE IInv'
  BY <1>1, ClientBegin, ClientDials, ClientOpens, ClientAdds, ClientMasks, ClientUndoes,
     ClientPublishes, ClientAssigns DEF ConnectStep
<1>2. CASE Scan \/ TestConnected \/ Sleep \/ AppConnect
  <2>1. PICK t \in Callers : /\ tpc[t] \notin Locked
                             /\ \E p \in {"scan", "test", "sleep", "lock", "idle", "exited"} :
                                   tpc' = [tpc EXCEPT ![t] = p]
    BY <1>2 DEF Scan, TestConnected, Sleep, AppConnect, AppCalls, Goto, Callers, Locked, Opening
  <2>2. UNCHANGED <<epollVars, is_connected, socket_handler, client_mutex, tfd, thandler,
                    sockVars, in_use, double_freed, ghostVars>>
    BY <1>2 DEF Scan, TestConnected, Sleep, AppConnect, flagVars
  <2> QED BY <2>1, <2>2, ClientMoves
<1>3. CASE RunnerStep
  BY <1>3, RunnerWaits, RunnerDispatches, RunnerDeletes, RunnerCloses, RunnerDisconnects, RunnerFrees
     DEF RunnerStep
<1>4. CASE SendFails
  BY <1>4, ClientSends
<1>5. CASE AppClose
  BY <1>5, ClientCloses
<1>6. CASE StopAutoConnect \/ UNCHANGED clientVars
  <2>1. pending \subseteq interest
    BY DEF IInv, WatchAgrees
  <2> QED
    BY <1>6, <2>1, ClientRest DEF StopAutoConnect, clientVars, epollVars, flagVars, sockVars
<1>7. ASSUME NEW c \in Conns, ServerClose(c) PROVE IInv'
  <2>1. pending' \subseteq interest
    BY <1>7 DEF ServerClose, Edge, IInv, WatchAgrees
  <2> QED BY <1>7, <2>1, ClientRest DEF ServerClose, flagVars
<1> QED BY <1>1, <1>2, <1>3, <1>4, <1>5, <1>6, <1>7 DEF Next, AutoStep, Callers

LEMMA ClientOwns ==
    ASSUME IInv
    PROVE  OneOwner
<1> USE DEF IInv
<1>1. interest \cup event_mask \cup {thandler[t] : t \in Threads} \cup {socket_handler}
          \subseteq in_use \cup {NoHandler}
  BY DEF TypeOK, WatchAgrees
<1> QED BY <1>1 DEF OneOwner, TypeOK, CurrentAgrees

-----------------------------------------------------------------------------
(* SL_Socket_TcpServer: the lemmas of TcpServerProofs about both servers.  *)
(* An instance of TcpServerProofs defines its own copy of each operator;   *)
(* the copies are the same, action by action.                              *)

ThreadedP == INSTANCE TcpServerProofs WITH
    Handlers <- {Objects[i] : i \in 1 .. 2}, ObjectOrder <- Objects, ChunkSize <- 1,
    Conns <- 1 .. MaxClients - 1,
    interest <- s_interest, pending <- s_pending, events <- s_events,
    event_mask <- s_event_mask, made <- s_made, fd <- s_fd, eof <- s_eof,
    socket_ <- s_socket, tpc <- s_tpc, tfd <- s_tfd, thandler <- s_thandler,
    failures <- s_failures, missed <- s_missed

LoopedP == INSTANCE TcpServerProofs WITH
    Acceptors <- {},
    Handlers <- {Objects[i] : i \in 1 .. 2}, ObjectOrder <- Objects, ChunkSize <- 2,
    Conns <- 1 .. MaxClients,
    interest <- s_interest, pending <- s_pending, events <- s_events,
    event_mask <- s_event_mask, made <- s_made, fd <- s_fd, eof <- s_eof,
    socket_ <- s_socket, tpc <- s_tpc, tfd <- s_tfd, thandler <- s_thandler,
    failures <- s_failures, missed <- s_missed

LEMMA ThreadedStart ==
    /\ Threaded!ServerAssumption => ThreadedP!ServerAssumption
    /\ Threaded!Init => ThreadedP!Init
BY DEF Threaded!ServerAssumption, ThreadedP!ServerAssumption, Threaded!IsInjective,
   ThreadedP!IsInjective, Threaded!Init, ThreadedP!Init, Threaded!Threads, ThreadedP!Threads

LEMMA ThreadedEnd ==
    ThreadedP!Accounted => Threaded!Accounted
BY DEF Threaded!Accounted, ThreadedP!Accounted, Threaded!Cardinality, ThreadedP!Cardinality,
   Threaded!Range, ThreadedP!Range, Threaded!InHand, ThreadedP!InHand, Threaded!Threads,
   ThreadedP!Threads

LEMMA ThreadedSame ==
    [Threaded!Next]_(Threaded!serverVars) => [ThreadedP!Next]_(ThreadedP!serverVars)
<1>1. \A t : Threaded!Loop(t) => ThreadedP!Loop(t)
  BY DEF Threaded!Loop, ThreadedP!Loop, Threaded!Goto, ThreadedP!Goto, Threaded!epollVars,
     ThreadedP!epollVars, Threaded!poolVars, ThreadedP!poolVars, Threaded!kernelVars,
     ThreadedP!kernelVars, Threaded!localVars, ThreadedP!localVars
<1>2. \A t : Threaded!Accept(t) => ThreadedP!Accept(t)
  BY DEF Threaded!Accept, ThreadedP!Accept, Threaded!Goto, ThreadedP!Goto,
     Threaded!epollVars, ThreadedP!epollVars, Threaded!poolVars, ThreadedP!poolVars
<1>3. \A t : Threaded!AcceptNothing(t) => ThreadedP!AcceptNothing(t)
  BY DEF Threaded!AcceptNothing, ThreadedP!AcceptNothing, Threaded!Goto, ThreadedP!Goto,
     Threaded!epollVars, ThreadedP!epollVars, Threaded!poolVars, ThreadedP!poolVars,
     Threaded!kernelVars, ThreadedP!kernelVars, Threaded!localVars, ThreadedP!localVars
<1>4. \A t : Threaded!Alloc(t) => ThreadedP!Alloc(t)
  BY DEF Threaded!Alloc, ThreadedP!Alloc, Threaded!Goto, ThreadedP!Goto, Threaded!Front,
     ThreadedP!Front, Threaded!Last, ThreadedP!Last, Threaded!epollVars,
     ThreadedP!epollVars, Threaded!kernelVars, ThreadedP!kernelVars
<1>5. \A t : Threaded!HandleOpen(t) => ThreadedP!HandleOpen(t)
  BY DEF Threaded!HandleOpen, ThreadedP!HandleOpen, Threaded!Goto, ThreadedP!Goto,
     Threaded!Fail, ThreadedP!Fail, Threaded!epollVars, ThreadedP!epollVars,
     Threaded!poolVars, ThreadedP!poolVars, Threaded!kernelVars, ThreadedP!kernelVars,
     Threaded!localVars, ThreadedP!localVars
<1>6. \A t : Threaded!AddHandle(t) => ThreadedP!AddHandle(t)
  BY DEF Threaded!AddHandle, ThreadedP!AddHandle, Threaded!CtlAdd, ThreadedP!CtlAdd,
     Threaded!Goto, ThreadedP!Goto, Threaded!Fail, ThreadedP!Fail, Threaded!epollVars,
     ThreadedP!epollVars, Threaded!poolVars, ThreadedP!poolVars, Threaded!kernelVars,
     ThreadedP!kernelVars, Threaded!localVars, ThreadedP!localVars
<1>7. \A t : Threaded!AddMask(t) => ThreadedP!AddMask(t)
  BY DEF Threaded!AddMask, ThreadedP!AddMask, Threaded!SetMask, ThreadedP!SetMask,
     Threaded!NextAccept, ThreadedP!NextAccept, Threaded!Goto, ThreadedP!Goto,
     Threaded!poolVars, ThreadedP!poolVars, Threaded!kernelVars, ThreadedP!kernelVars
<1>8. \A t : Threaded!Undo(t) => ThreadedP!Undo(t)
  BY DEF Threaded!Undo, ThreadedP!Undo, Threaded!FreeObject, ThreadedP!FreeObject,
     Threaded!Goto, ThreadedP!Goto, Threaded!epollVars, ThreadedP!epollVars,
     Threaded!kernelVars, ThreadedP!kernelVars
<1>9. \A t : Threaded!CloseFd(t) => ThreadedP!CloseFd(t)
  BY DEF Threaded!CloseFd, ThreadedP!CloseFd, Threaded!NextAccept, ThreadedP!NextAccept,
     Threaded!Goto, ThreadedP!Goto, Threaded!epollVars, ThreadedP!epollVars,
     Threaded!poolVars, ThreadedP!poolVars, Threaded!kernelVars, ThreadedP!kernelVars
<1>10. \A c : Threaded!Connect(c) => ThreadedP!Connect(c)
  BY DEF Threaded!Connect, ThreadedP!Connect, Threaded!Blocked, ThreadedP!Blocked,
     Threaded!Edge, ThreadedP!Edge, Threaded!poolVars, ThreadedP!poolVars,
     Threaded!localVars, ThreadedP!localVars
<1>11. \A c : Threaded!ClientClose(c) => ThreadedP!ClientClose(c)
  BY DEF Threaded!ClientClose, ThreadedP!ClientClose, Threaded!Edge, ThreadedP!Edge,
     Threaded!poolVars, ThreadedP!poolVars, Threaded!localVars, ThreadedP!localVars
<1>12. Threaded!Wait => ThreadedP!Wait
  <2>1. Threaded!EpollWait => ThreadedP!EpollWait
    BY DEF Threaded!EpollWait, ThreadedP!EpollWait, Threaded!Cardinality, ThreadedP!Cardinality
  <2> QED
    BY <2>1 DEF Threaded!Wait, ThreadedP!Wait, Threaded!Goto, ThreadedP!Goto, Threaded!poolVars,
       ThreadedP!poolVars, Threaded!kernelVars, ThreadedP!kernelVars, Threaded!localVars,
       ThreadedP!localVars
<1>13. Threaded!Dispatch => ThreadedP!Dispatch
  BY DEF Threaded!Dispatch, ThreadedP!Dispatch, Threaded!Goto, ThreadedP!Goto,
     Threaded!poolVars, ThreadedP!poolVars, Threaded!kernelVars, ThreadedP!kernelVars
<1>14. Threaded!HandleRead => ThreadedP!HandleRead
  BY DEF Threaded!HandleRead, ThreadedP!HandleRead, Threaded!Goto, ThreadedP!Goto,
     Threaded!epollVars, ThreadedP!epollVars, Threaded!poolVars, ThreadedP!poolVars,
     Threaded!kernelVars, ThreadedP!kernelVars
<1>15. Threaded!DelHandle => ThreadedP!DelHandle
  BY DEF Threaded!DelHandle, ThreadedP!DelHandle, Threaded!CtlDel, ThreadedP!CtlDel,
     Threaded!Goto, ThreadedP!Goto, Threaded!epollVars, ThreadedP!epollVars,
     Threaded!poolVars, ThreadedP!poolVars, Threaded!kernelVars, ThreadedP!kernelVars
<1>16. Threaded!HandleClose => ThreadedP!HandleClose
  BY DEF Threaded!HandleClose, ThreadedP!HandleClose, Threaded!Goto, ThreadedP!Goto,
     Threaded!epollVars, ThreadedP!epollVars, Threaded!poolVars, ThreadedP!poolVars,
     Threaded!kernelVars, ThreadedP!kernelVars, Threaded!localVars, ThreadedP!localVars
<1>17. Threaded!FreeHandler => ThreadedP!FreeHandler
  BY DEF Threaded!FreeHandler, ThreadedP!FreeHandler, Threaded!FreeObject,
     ThreadedP!FreeObject, Threaded!Goto, ThreadedP!Goto, Threaded!epollVars,
     ThreadedP!epollVars, Threaded!kernelVars, ThreadedP!kernelVars
<1>18. Threaded!Close => ThreadedP!Close
  BY DEF Threaded!Close, ThreadedP!Close, Threaded!poolVars, ThreadedP!poolVars,
     Threaded!localVars, ThreadedP!localVars
<1>19. UNCHANGED Threaded!serverVars => UNCHANGED ThreadedP!serverVars
  BY DEF Threaded!serverVars, ThreadedP!serverVars, Threaded!epollVars, ThreadedP!epollVars,
     Threaded!poolVars, ThreadedP!poolVars, Threaded!kernelVars, ThreadedP!kernelVars,
     Threaded!localVars, ThreadedP!localVars
<1> SUFFICES ASSUME [Threaded!Next]_(Threaded!serverVars) PROVE [ThreadedP!Next]_(ThreadedP!serverVars)
  OBVIOUS
<1>20. \A t : Threaded!ThreadStep(t) => ThreadedP!ThreadStep(t)
  BY <1>1, <1>2, <1>3, <1>4, <1>5, <1>6, <1>7, <1>8, <1>9 DEF Threaded!ThreadStep,
     ThreadedP!ThreadStep
<1>21. Threaded!RunnerStep => ThreadedP!RunnerStep
  BY <1>12, <1>13, <1>14, <1>15, <1>16, <1>17 DEF Threaded!RunnerStep, ThreadedP!RunnerStep
<1> QED
  BY <1>10, <1>11, <1>18, <1>19, <1>20, <1>21 DEF Threaded!Next, ThreadedP!Next,
     Threaded!Threads, ThreadedP!Threads

LEMMA LoopedStart ==
    /\ Looped!ServerAssumption => LoopedP!ServerAssumption
    /\ Looped!Init => LoopedP!Init
BY DEF Looped!ServerAssumption, LoopedP!ServerAssumption, Looped!IsInjective,
   LoopedP!IsInjective, Looped!Init, LoopedP!Init, Looped!Threads, LoopedP!Threads

LEMMA LoopedEnd ==
    LoopedP!Accounted => Looped!Accounted
BY DEF Looped!Accounted, LoopedP!Accounted, Looped!Cardinality, LoopedP!Cardinality,
   Looped!Range, LoopedP!Range, Looped!InHand, LoopedP!InHand, Looped!Threads,
   LoopedP!Threads

LEMMA LoopedSame ==
    [Looped!Next]_(Looped!serverVars) => [LoopedP!Next]_(LoopedP!serverVars)
<1>1. \A t : Looped!Loop(t) => LoopedP!Loop(t)
  BY DEF Looped!Loop, LoopedP!Loop, Looped!Goto, LoopedP!Goto, Looped!epollVars,
     LoopedP!epollVars, Looped!poolVars, LoopedP!poolVars, Looped!kernelVars,
     LoopedP!kernelVars, Looped!localVars, LoopedP!localVars
<1>2. \A t : Looped!Accept(t) => LoopedP!Accept(t)
  BY DEF Looped!Accept, LoopedP!Accept, Looped!Goto, LoopedP!Goto, Looped!epollVars,
     LoopedP!epollVars, Looped!poolVars, LoopedP!poolVars
<1>3. \A t : Looped!AcceptNothing(t) => LoopedP!AcceptNothing(t)
  BY DEF Looped!AcceptNothing, LoopedP!AcceptNothing, Looped!Goto, LoopedP!Goto,
     Looped!epollVars, LoopedP!epollVars, Looped!poolVars, LoopedP!poolVars,
     Looped!kernelVars, LoopedP!kernelVars, Looped!localVars, LoopedP!localVars
<1>4. \A t : Looped!Alloc(t) => LoopedP!Alloc(t)
  BY DEF Looped!Alloc, LoopedP!Alloc, Looped!Goto, LoopedP!Goto, Looped!Front,
     LoopedP!Front, Looped!Last, LoopedP!Last, Looped!epollVars, LoopedP!epollVars,
     Looped!kernelVars, LoopedP!kernelVars
<1>5. \A t : Looped!HandleOpen(t) => LoopedP!HandleOpen(t)
  BY DEF Looped!HandleOpen, LoopedP!HandleOpen, Looped!Goto, LoopedP!Goto, Looped!Fail,
     LoopedP!Fail, Looped!epollVars, LoopedP!epollVars, Looped!poolVars, LoopedP!poolVars,
     Looped!kernelVars, LoopedP!kernelVars, Looped!localVars, LoopedP!localVars
<1>6. \A t : Looped!AddHandle(t) => LoopedP!AddHandle(t)
  BY DEF Looped!AddHandle, LoopedP!AddHandle, Looped!CtlAdd, LoopedP!CtlAdd, Looped!Goto,
     LoopedP!Goto, Looped!Fail, LoopedP!Fail, Looped!epollVars, LoopedP!epollVars,
     Looped!poolVars, LoopedP!poolVars, Looped!kernelVars, LoopedP!kernelVars,
     Looped!localVars, LoopedP!localVars
<1>7. \A t : Looped!AddMask(t) => LoopedP!AddMask(t)
  BY DEF Looped!AddMask, LoopedP!AddMask, Looped!SetMask, LoopedP!SetMask,
     Looped!NextAccept, LoopedP!NextAccept, Looped!Goto, LoopedP!Goto, Looped!poolVars,
     LoopedP!poolVars, Looped!kernelVars, LoopedP!kernelVars
<1>8. \A t : Looped!Undo(t) => LoopedP!Undo(t)
  BY DEF Looped!Undo, LoopedP!Undo, Looped!FreeObject, LoopedP!FreeObject, Looped!Goto,
     LoopedP!Goto, Looped!epollVars, LoopedP!epollVars, Looped!kernelVars,
     LoopedP!kernelVars
<1>9. \A t : Looped!CloseFd(t) => LoopedP!CloseFd(t)
  BY DEF Looped!CloseFd, LoopedP!CloseFd, Looped!NextAccept, LoopedP!NextAccept,
     Looped!Goto, LoopedP!Goto, Looped!epollVars, LoopedP!epollVars, Looped!poolVars,
     LoopedP!poolVars, Looped!kernelVars, LoopedP!kernelVars
<1>10. \A c : Looped!Connect(c) => LoopedP!Connect(c)
  BY DEF Looped!Connect, LoopedP!Connect, Looped!Blocked, LoopedP!Blocked, Looped!Edge,
     LoopedP!Edge, Looped!poolVars, LoopedP!poolVars, Looped!localVars, LoopedP!localVars
<1>11. \A c : Looped!ClientClose(c) => LoopedP!ClientClose(c)
  BY DEF Looped!ClientClose, LoopedP!ClientClose, Looped!Edge, LoopedP!Edge,
     Looped!poolVars, LoopedP!poolVars, Looped!localVars, LoopedP!localVars
<1>12. Looped!Wait => LoopedP!Wait
  <2>1. Looped!EpollWait => LoopedP!EpollWait
    BY DEF Looped!EpollWait, LoopedP!EpollWait, Looped!Cardinality, LoopedP!Cardinality
  <2> QED
    BY <2>1 DEF Looped!Wait, LoopedP!Wait, Looped!Goto, LoopedP!Goto, Looped!poolVars,
       LoopedP!poolVars, Looped!kernelVars, LoopedP!kernelVars, Looped!localVars,
       LoopedP!localVars
<1>13. Looped!Dispatch => LoopedP!Dispatch
  BY DEF Looped!Dispatch, LoopedP!Dispatch, Looped!Goto, LoopedP!Goto, Looped!poolVars,
     LoopedP!poolVars, Looped!kernelVars, LoopedP!kernelVars
<1>14. Looped!HandleRead => LoopedP!HandleRead
  BY DEF Looped!HandleRead, LoopedP!HandleRead, Looped!Goto, LoopedP!Goto, Looped!epollVars,
     LoopedP!epollVars, Looped!poolVars, LoopedP!poolVars, Looped!kernelVars,
     LoopedP!kernelVars
<1>15. Looped!DelHandle => LoopedP!DelHandle
  BY DEF Looped!DelHandle, LoopedP!DelHandle, Looped!CtlDel, LoopedP!CtlDel, Looped!Goto,
     LoopedP!Goto, Looped!epollVars, LoopedP!epollVars, Looped!poolVars, LoopedP!poolVars,
     Looped!kernelVars, LoopedP!kernelVars
<1>16. Looped!HandleClose => LoopedP!HandleClose
  BY DEF Looped!HandleClose, LoopedP!HandleClose, Looped!Goto, LoopedP!Goto,
     Looped!epollVars, LoopedP!epollVars, Looped!poolVars, LoopedP!poolVars,
     Looped!kernelVars, LoopedP!kernelVars, Looped!localVars, LoopedP!localVars
<1>17. Looped!FreeHandler => LoopedP!FreeHandler
  BY DEF Looped!FreeHandler, LoopedP!FreeHandler, Looped!FreeObject, LoopedP!FreeObject,
     Looped!Goto, LoopedP!Goto, Looped!epollVars, LoopedP!epollVars, Looped!kernelVars,
     LoopedP!kernelVars
<1>18. Looped!Close => LoopedP!Close
  BY DEF Looped!Close, LoopedP!Close, Looped!poolVars, LoopedP!poolVars, Looped!localVars,
     LoopedP!localVars
<1>19. UNCHANGED Looped!serverVars => UNCHANGED LoopedP!serverVars
  BY DEF Looped!serverVars, LoopedP!serverVars, Looped!epollVars, LoopedP!epollVars,
     Looped!poolVars, LoopedP!poolVars, Looped!kernelVars, LoopedP!kernelVars,
     Looped!localVars, LoopedP!localVars
<1> SUFFICES ASSUME [Looped!Next]_(Looped!serverVars) PROVE [LoopedP!Next]_(LoopedP!serverVars)
  OBVIOUS
<1>20. \A t : Looped!ThreadStep(t) => LoopedP!ThreadStep(t)
  BY <1>1, <1>2, <1>3, <1>4, <1>5, <1>6, <1>7, <1>8, <1>9 DEF Looped!ThreadStep,
     LoopedP!ThreadStep
<1>21. Looped!RunnerStep => LoopedP!RunnerStep
  BY <1>12, <1>13, <1>14, <1>15, <1>16, <1>17 DEF Looped!RunnerStep, LoopedP!RunnerStep
<1> QED
  BY <1>10, <1>11, <1>18, <1>19, <1>20, <1>21 DEF Looped!Next, LoopedP!Next, Looped!Threads,
     LoopedP!Threads

-----------------------------------------------------------------------------
(* Each behaviour of MCNetwork is one of the client and of one server.     *)

NetworkInv == IInv /\ IF part = "looped" THEN LoopedP!IInv ELSE ThreadedP!IInv

LEMMA NetworkInit == MCInit => NetworkInv
<1> SUFFICES ASSUME MCInit PROVE NetworkInv
  OBVIOUS
<1>1. IInv
  BY ClientInit, NetworkAssumption DEF MCInit
<1>2. CASE part = "looped"
  BY <1>1, <1>2, LoopedStart, LoopedP!InitHolds, NetworkAssumption DEF MCInit, NetworkInv
<1>3. CASE part # "looped"
  BY <1>1, <1>3, ThreadedStart, ThreadedP!InitHolds, NetworkAssumption DEF MCInit, NetworkInv
<1> QED BY <1>2, <1>3

LEMMA NetworkStep == NetworkInv /\ [MCNext]_allVars => NetworkInv'
<1> SUFFICES ASSUME NetworkInv, [MCNext]_allVars PROVE NetworkInv'
  OBVIOUS
<1>1. [Next]_clientVars /\ part' = part
  BY DEF MCNext, allVars
<1>2. IInv'
  BY <1>1, ClientStep, NetworkAssumption DEF NetworkInv
<1>3. CASE part = "looped"
  <2>1. [Looped!Next]_(Looped!serverVars)
    BY <1>3 DEF MCNext, allVars, serverVars, Looped!serverVars, Looped!epollVars, Looped!poolVars,
       Looped!kernelVars, Looped!localVars
  <2>2. LoopedP!IInv'
    BY <1>3, <2>1, LoopedSame, LoopedStart, LoopedP!StepHolds, NetworkAssumption DEF NetworkInv
  <2> QED BY <1>1, <1>2, <1>3, <2>2 DEF NetworkInv
<1>4. CASE part # "looped"
  <2>1. [Threaded!Next]_(Threaded!serverVars)
    BY <1>4 DEF MCNext, allVars, serverVars, Threaded!serverVars, Threaded!epollVars,
       Threaded!poolVars, Threaded!kernelVars, Threaded!localVars
  <2>2. ThreadedP!IInv'
    BY <1>4, <2>1, ThreadedSame, ThreadedStart, ThreadedP!StepHolds, NetworkAssumption DEF NetworkInv
  <2> QED BY <1>1, <1>2, <1>4, <2>2 DEF NetworkInv
<1> QED BY <1>3, <1>4

(* TcpServer and TcpClient: the inductive invariants of the client and of  *)
(* the server that runs.                                                   *)
THEOREM NetworkInductive == MCSpec => []NetworkInv
BY NetworkInit, NetworkStep, PTL DEF MCSpec

(* connect, disconnect, close, handle_accept, handle_read, del_handle and  *)
(* the pools: every handler and every socket has exactly one owner through *)
(* every failure and every order of the threads' steps.                    *)
THEOREM OwnersAreOne == MCSpec => []OwnedOnce
<1>1. NetworkInv => OwnedOnce
  <2> SUFFICES ASSUME NetworkInv PROVE OwnedOnce
    OBVIOUS
  <2>1. OneOwner
    BY ClientOwns DEF NetworkInv
  <2>2. CASE part = "looped"
    BY <2>1, <2>2, LoopedStart, LoopedEnd, LoopedP!InvariantAccounts, NetworkAssumption
       DEF NetworkInv, OwnedOnce
  <2>3. CASE part # "looped"
    BY <2>1, <2>3, ThreadedStart, ThreadedEnd, ThreadedP!InvariantAccounts, NetworkAssumption
       DEF NetworkInv, OwnedOnce
  <2> QED BY <2>2, <2>3
<1> QED BY <1>1, NetworkInductive, PTL
=============================================================================
