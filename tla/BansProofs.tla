----------------------------- MODULE BansProofs -----------------------------
(* Proofs about the bans, for any servers, masks, scenes and bounds: what  *)
(* is told and kept has its type, no ban is wider than its maker may make  *)
(* it, no user is left who matches one, a record never goes back, and the  *)
(* state a server gave it stands.                                          *)
EXTENDS BansSteps

\* A user signs on, unless a ban matches.
LEMMA SignOnStep ==
  ASSUME BansInv, NEW s \in Servers, NEW m \in Masks, SignOn(s, m)
  PROVE  BansInv' /\ Keeps
<1>1. /\ scene' = scene /\ now' = now /\ glines' = glines /\ locals' = locals /\ burst' = burst
      /\ up' = up /\ queue' = queue /\ users' = [users EXCEPT ![s] = @ \cup {m}]
  BY DEF SignOn
<1>2. /\ users' \in [Servers -> SUBSET Masks] /\ users'[s] = users[s] \cup {m}
      /\ \A k \in Servers \ {s} : users'[k] = users[k]
  BY <1>1 DEF BansInv
<1>3. scene.kind # "shun" => ~GlineIsActive(glines[s][m]) /\ ~(locals[s][m] > now)
  <2>1. scene.kind \in {"gline", "zline", "shun"}
    BY InvSetting DEF Setting, Scene
  <2>2. At(s).gl = glines[s] /\ At(s).lo = locals[s]
    BY AtSound
  <2> QED
    BY <2>1, <2>2 DEF SignOn, gline_lookup, zline_lookup
<1>4. ASSUME NEW k \in Servers
      PROVE  Narrow(At(k))' /\ Clean(At(k))' /\ NoLoop(At(k))'
  <2>1. /\ At(k)'.gl = glines[k] /\ At(k)'.lo = locals[k] /\ At(k)'.us = users'[k]
        /\ At(k)'.up = up[k] /\ At(k)'.out = queue[k] /\ At(k)'.s = k
    BY <1>1 DEF At
  <2>2. Narrow(At(k)) /\ Clean(At(k)) /\ NoLoop(At(k))
    BY DEF BansInv
  <2>3. Narrow(At(k))'
    BY <1>1, <2>1, <2>2, AtSound, SameSetting DEF Narrow
  <2>4. NoLoop(At(k))'
    BY <2>1, <2>2, AtSound DEF NoLoop
  <2>5. Clean(At(k))'
    <3>1. scene.kind # "shun" =>
            \A j \in users'[k] : Text[j].form # "channel" =>
              ~GlineIsActive(glines[k][j]) /\ ~(locals[k][j] > now)
      BY <1>2, <1>3, <2>2, AtSound DEF Clean
    <3> QED
      BY <1>1, <2>1, <3>1 DEF Clean
  <2> QED
    BY <2>3, <2>4, <2>5
<1>5. BansInv'
  BY <1>1, <1>2, <1>4, SameSetting DEF BansInv
<1> QED
  BY <1>1, <1>5, StandingKeeps

\* A message that may take its time is as true a second later.
LEMMA LaterStream ==
  ASSUME BansInv, scene' = scene, now' = now + 1, ~scene.prompt, NEW q \in Stream(now)
  PROVE  q \in Stream(now)'
<1>1. \A m : Wide(m)' <=> Wide(m)
  BY DEF Wide
<1>2. \A x \in Mail(now) : x \in Mail(now)'
  BY <1>1 DEF Mail
<1> QED
  BY <1>2 DEF Stream

\* The clock ticks, and records that expired are turned off or freed (gliter).
LEMMA TickStep ==
  ASSUME BansInv, Tick
  PROVE  BansInv' /\ Keeps
<1>1. /\ scene' = scene /\ now' = now + 1 /\ users' = users /\ burst' = burst
      /\ up' = up /\ queue' = queue
  BY DEF Tick
<1>2. now \in Nat /\ now + 1 \in Nat /\ now' \in 2 .. MaxTime
  <2>1. scene.time \in 2 .. MaxTime /\ now \in 2 .. MaxTime /\ now < scene.time
    BY InvSetting DEF Setting, Scene, Tick
  <2> QED
    BY <1>1, <2>1, Bounds
<1>3. \A m : Wide(m)' <=> Wide(m)
  BY <1>1 DEF Wide
<1>4. Record(now)' = Record(now + 1)
  BY <1>1 DEF Record
<1>5. ASSUME NEW s \in Servers, NEW m \in Masks
      PROVE  /\ glines'[s][m] = gliter(glines[s][m], now + 1)
             /\ glines[s][m] \in Record(now)
  <2>1. glines'[s][m] = Iter(glines[s][m], now + 1)
    BY DEF Tick
  <2> QED
    BY <2>1, InvSetting, OneMachine DEF BansInv
<1>6. ASSUME NEW s \in Servers, NEW m \in Masks
      PROVE  /\ glines'[s][m] \in Record(now + 1)
             /\ GlineIsActive(glines'[s][m]) => GlineIsActive(glines[s][m])
             /\ RecordGrows(glines[s][m], glines'[s][m])
             /\ LocalStateKept(glines[s][m], glines'[s][m], now + 1)
             /\ glines[s][m] = NoBan => glines'[s][m] = NoBan
  <2>1. now <= now + 1
    BY <1>2
  <2> QED
    BY <1>2, <1>5, <1>6, <2>1, IterRecord
<1>7. Keeps
  BY <1>1, <1>6 DEF Keeps
<1>8. ASSUME NEW s \in Servers, NEW m \in Masks
      PROVE  /\ locals'[s][m] \in Times /\ locals[s][m] \in Times
             /\ locals'[s][m] > now + 1 => locals[s][m] > now
             /\ locals[s][m] = 0 => locals'[s][m] = 0
  <2>1. locals'[s][m] = IF locals[s][m] <= now + 1 THEN 0 ELSE locals[s][m]
    BY DEF Tick
  <2>2. locals[s][m] \in Times /\ 0 \in Times
    BY Bounds DEF BansInv, Times
  <2> QED
    BY <1>2, <2>1, <2>2, Bounds DEF Times
<1>9. glines' \in [Servers -> [Masks -> Record(now + 1)]] /\ locals' \in [Servers -> [Masks -> Times]]
  <2>1. glines' = [s \in Servers |-> [m \in Masks |-> glines'[s][m]]]
    BY DEF Tick
  <2>2. locals' = [s \in Servers |-> [m \in Masks |-> locals'[s][m]]]
    BY DEF Tick
  <2> QED
    BY <1>6, <1>8, <2>1, <2>2
<1>10. ASSUME NEW s \in Servers, NEW n \in Servers
       PROVE  queue[s][n] \in Stream(now)'
  <2>1. CASE scene.prompt
    <3>1. queue[s][n] = <<>>
      BY <2>1 DEF Tick, Quiet
    <3> QED
      BY <3>1 DEF Stream
  <2>2. CASE ~scene.prompt
    <3>1. queue[s][n] \in Stream(now)
      BY DEF BansInv
    <3> QED
      BY <1>1, <2>2, <3>1, LaterStream
  <2> QED
    BY <2>1, <2>2
<1>11. queue' \in [Servers -> [Servers -> Stream(now)']]
  <2>1. queue \in Table
    BY DEF BansInv, Table
  <2>2. queue = [s \in Servers |-> [n \in Servers |-> queue[s][n]]]
    BY <2>1 DEF Table
  <2> QED
    BY <1>1, <1>10, <2>2
<1>12. ASSUME NEW k \in Servers
       PROVE  Narrow(At(k))' /\ Clean(At(k))' /\ NoLoop(At(k))'
  <2>1. /\ At(k)'.gl = glines'[k] /\ At(k)'.lo = locals'[k] /\ At(k)'.us = users[k]
        /\ At(k)'.up = up[k] /\ At(k)'.out = queue[k] /\ At(k)'.s = k
    BY <1>1 DEF At
  <2>2. Narrow(At(k)) /\ Clean(At(k)) /\ NoLoop(At(k))
    BY DEF BansInv
  <2>3. Narrow(At(k))'
    <3>1. \A m \in Masks : Wide(m) => glines'[k][m] = NoBan /\ locals'[k][m] = 0
      BY <1>6, <1>8, <2>2, AtSound DEF Narrow
    <3> QED
      BY <1>3, <2>1, <3>1 DEF Narrow
  <2>4. NoLoop(At(k))'
    BY <2>1, <2>2, AtSound DEF NoLoop
  <2>5. Clean(At(k))'
    <3>1. users[k] \subseteq Masks
      BY DEF BansInv
    <3>2. scene.kind # "shun" =>
            \A j \in users[k] : Text[j].form # "channel" =>
              ~GlineIsActive(glines'[k][j]) /\ ~(locals'[k][j] > now + 1)
      BY <1>6, <1>8, <2>2, <3>1, AtSound DEF Clean
    <3> QED
      BY <1>1, <2>1, <3>2 DEF Clean
  <2> QED
    BY <2>3, <2>4, <2>5
<1>13. BansInv'
  BY <1>1, <1>2, <1>4, <1>9, <1>11, <1>12 DEF BansInv
<1> QED
  BY <1>7, <1>13

\* No server knows a ban at first.
LEMMA InitInv == Init => BansInv
<1> SUFFICES ASSUME Init
             PROVE  BansInv
  OBVIOUS
<1>1. now \in 2 .. MaxTime
  <2>1. scene \in Scene
    BY BansConstants DEF Init
  <2> QED
    BY <2>1, Bounds DEF Init, Scene
<1>2. glines \in [Servers -> [Masks -> Record(now)]] /\ locals \in [Servers -> [Masks -> Times]]
  BY Bounds DEF Init, Record, Times
<1>3. /\ users \in [Servers -> SUBSET Masks]
      /\ burst \in [Servers -> [Servers -> {"none", "burst", "ack"}]]
  BY DEF Init
<1>4. up \in [Servers -> [Servers -> BOOLEAN]]
  BY DEF Init
<1>5. queue \in [Servers -> [Servers -> Stream(now)]]
  BY DEF Init, Stream
<1>6. ASSUME NEW s \in Servers
      PROVE  Narrow(At(s)) /\ Clean(At(s)) /\ NoLoop(At(s))
  <2>1. /\ \A m \in Masks : At(s).gl[m] = NoBan /\ At(s).lo[m] = 0
        /\ At(s).us = {} /\ At(s).s = s /\ At(s).out[s] = <<>>
    BY DEF Init, At
  <2>2. ~At(s).up[s]
    <3>1. At(s).up = up[s] /\ s \notin Neighbours(s)
      BY DEF At, Neighbours
    <3>2. (s \in Neighbours(s)) = FALSE
      BY <3>1
    <3>3. up[s] = [n \in Servers |-> {s, n} \subseteq scene.linked /\ n \in Neighbours(s)]
      BY DEF Init
    <3>4. up[s][s] = ({s, s} \subseteq scene.linked /\ s \in Neighbours(s))
      BY <3>3
    <3>5. up[s][s] = ({s, s} \subseteq scene.linked /\ FALSE)
      BY <3>2, <3>4, Zenon
    <3>6. ~up[s][s]
      BY <3>5, Zenon
    <3> QED
      BY <3>1, <3>6, Zenon
  <2> QED
    BY <2>1, <2>2 DEF Narrow, Clean, NoLoop
<1>7. \A s, n \in Servers : ~Greets(queue[n][s])
  BY DEF Init, Greets
<1> QED
  BY <1>1, <1>2, <1>3, <1>4, <1>5, <1>6, <1>7 DEF BansInv, Init

\* Every step keeps the invariant and lets no record go back.
LEMMA NextInv == BansInv /\ Next => BansInv' /\ Keeps
<1> SUFFICES ASSUME BansInv, Next
             PROVE  BansInv' /\ Keeps
  OBVIOUS
<1>1. scene.net \subseteq Servers /\ scene.masks \subseteq Masks
  BY InvSetting DEF Setting, Scene
<1>2. CASE Tick
  BY <1>2, TickStep
<1>3. ASSUME NEW s \in Servers, NEW n \in Servers,
             Read(s, n) \/ Accept(s, n) \/ Connected(s, n) \/ Close(s, n)
      PROVE  BansInv' /\ Keeps
  BY <1>3, ReadStep, AcceptStep, ConnectedStep, CloseStep
<1>4. ASSUME NEW s \in scene.net, NEW m \in scene.masks,
             mo_gline(s, m) \/ mo_zline(s, m) \/ mo_shun(s, m) \/ mo_remove(s, m) \/ SignOn(s, m)
      PROVE  BansInv' /\ Keeps
  <2>1. s \in Servers /\ m \in Masks
    BY <1>1
  <2>2. CASE Operator(s, m)
    BY <2>1, <2>2, OperatorStep
  <2>3. CASE mo_remove(s, m)
    BY <2>1, <2>3, RemoveStep
  <2>4. CASE SignOn(s, m)
    BY <2>1, <2>4, SignOnStep
  <2> QED
    BY <1>4, <2>2, <2>3, <2>4 DEF mo_gline, mo_zline, mo_shun
<1> QED
  BY <1>2, <1>3, <1>4 DEF Next

\* A step that changes nothing keeps the invariant.
LEMMA StutterInv == BansInv /\ UNCHANGED vars => BansInv'
<1> SUFFICES ASSUME BansInv, UNCHANGED vars
             PROVE  BansInv'
  OBVIOUS
<1>1. /\ scene' = scene /\ now' = now /\ glines' = glines /\ locals' = locals /\ burst' = burst
      /\ up' = up /\ queue' = queue /\ users' = users
  BY DEF vars
<1>2. ASSUME NEW k \in Servers
      PROVE  Narrow(At(k))' /\ Clean(At(k))' /\ NoLoop(At(k))'
  <2>1. Narrow(At(k)) /\ Clean(At(k)) /\ NoLoop(At(k)) /\ At(k)' = At(k)
    BY <1>1 DEF BansInv, At
  <2> QED
    BY <1>1, <2>1, SameSetting DEF Narrow, Clean, NoLoop
<1> QED
  BY <1>1, <1>2, SameSetting DEF BansInv

\* The invariant holds in every state.
LEMMA AlwaysInv == Spec => []BansInv
<1>1. BansInv /\ [Next]_vars => BansInv'
  BY NextInv, StutterInv
<1> QED
  BY <1>1, InitInv, PTL DEF Spec

\* On every server, whatever is told, crosses, splits, is burst, expires or is removed: while a
\* record is there its lastmod and its lifetime never go back, and the state a server gave a ban
\* stands until the ban changes everywhere or expires (gline_modify, gline_add, gliter).
THEOREM RecordsNeverGoBack == Spec => BanHistory
<1>1. BansInv /\ [Next]_vars => [Keeps]_vars
  BY NextInv
<1>2. Spec => [][Keeps]_vars
  BY <1>1, AlwaysInv, PTL DEF Spec
<1> QED
  BY <1>2 DEF BanHistory, Keeps

\* The invariant says that records have their types and no ban is too wide.
LEMMA InvConsistent == BansInv => BansConsistent
<1> SUFFICES ASSUME BansInv
             PROVE  BansConsistent
  OBVIOUS
<1>1. \A g \in Record(now) : g \in Gline \cup {NoBan}
  BY DEF Record
<1>2. \A s, n \in Servers : queue[s][n] \in Seq(Messages)
  BY DEF BansInv, Stream
<1>3. TypeOK
  <2>1. glines \in [Servers -> [Masks -> Gline \cup {NoBan}]]
    BY <1>1 DEF BansInv
  <2>2. \A s, n \in Servers : \A i \in DOMAIN queue[s][n] : queue[s][n][i] \in Messages
    BY <1>2
  <2> QED
    BY <2>1, <2>2 DEF BansInv, TypeOK
<1>4. \A s \in Servers, m \in Masks : Wide(m) => glines[s][m] = NoBan /\ locals[s][m] = 0
  <2> TAKE s \in Servers, m \in Masks
  <2>1. Narrow(At(s)) /\ At(s).gl = glines[s] /\ At(s).lo = locals[s]
    BY AtSound DEF BansInv
  <2> QED
    BY <2>1 DEF Narrow
<1>5. scene.prompt => \A s \in Servers, m \in Masks :
        glines[s][m] # NoBan => glines[s][m].lifetime >= glines[s][m].expire
  <2>1. \A s \in Servers, m \in Masks : glines[s][m] \in Record(now)
    BY DEF BansInv
  <2> QED
    BY <2>1 DEF Record
<1> QED
  BY <1>3, <1>4, <1>5 DEF BansConsistent, Wide

\* The invariant says that no user is left whom a ban in force matches.
LEMMA InvNoBannedUser == BansInv => NoBannedUser
<1> SUFFICES ASSUME BansInv, scene.kind # "shun", NEW s \in Servers, NEW m \in users[s],
                    Text[m].form # "channel"
             PROVE  ~gline_lookup(At(s), m) /\ ~zline_lookup(At(s), m)
  BY DEF NoBannedUser
<1>1. Clean(At(s)) /\ At(s).us = users[s]
  BY AtSound DEF BansInv
<1>2. ~GlineIsActive(At(s).gl[m]) /\ ~(At(s).lo[m] > now)
  BY <1>1 DEF Clean
<1> QED
  BY <1>2 DEF gline_lookup, zline_lookup

\* At every moment, on every server: what is kept and on the way has its type; no ban is in force
\* on a host that its makers were not allowed to ban, wherever they made it; while messages take no
\* time no record is forgotten before its ban expires; and no user is left whom a G-line or a
\* Z-line in force matches (gline_add, gline_checkmask, gline_modify, do_gline, find_kill).
THEOREM BansInForce == Spec => [](BansConsistent /\ NoBannedUser)
BY AlwaysInv, InvConsistent, InvNoBannedUser, PTL
=============================================================================
