----------------------------- MODULE BansSteps ------------------------------
(* Messages, operators and links, for any servers, masks, scenes and       *)
(* bounds: each step keeps the invariant and lets no record go back.       *)
EXTENDS BansLinks

\* A message is read and handled.
LEMMA ReadStep ==
  ASSUME BansInv, NEW s \in Servers, NEW n \in Servers, Read(s, n)
  PROVE  BansInv' /\ Keeps
<1> DEFINE x == Head(queue[n][s])
           w == Handle(At(s), x, n)
           a == Put(queue, s, w.out)
<1>1. /\ up[s][n] /\ queue[n][s] # <<>> /\ scene' = scene /\ now' = now /\ Become(w)
      /\ queue' = [queue EXCEPT ![s] = w.out, ![n][s] = Tail(@)]
  BY DEF Read
<1>2. n # s /\ queue[n][s] \in Stream(now) /\ ~Greets(queue[n][s])
  BY <1>1, NoSelfLink DEF BansInv
<1>3. x \in Mail(now) /\ Tail(queue[n][s]) \in Stream(now) /\ ~Greets(Tail(queue[n][s]))
  BY <1>1, <1>2, StreamHead DEF Greets
<1> HIDE DEF x
<1>4. Good(At(s), w)
  BY <1>2, <1>3, AtSound, InvSetting, HandleGood
<1> HIDE DEF w
<1>5. Sound(w) /\ w.s = s
  BY <1>4, AtSound DEF Good, Follows
<1>6. Sent(s, w.out, a)
  BY <1>5, SentIs
<1>7. queue' = PutOne(a, n, s, Tail(queue[n][s]))
  BY <1>1, <1>2 DEF BansInv, Put, PutOne
<1> HIDE DEF a
<1>8. Flow
  BY <1>2, <1>3, <1>4, <1>6, <1>7, ReadFlow
<1> QED
  BY <1>1, <1>4, <1>8, CalmStep

\* Something an operator did at a server.
LEMMA ActStep ==
  ASSUME BansInv, NEW s \in Servers, NEW op, NEW w, Good(At(s), w), Act(op, w)
  PROVE  BansInv' /\ Keeps
<1>1. scene' = scene /\ now' = now /\ Become(w) /\ queue' = Put(queue, w.s, w.out)
  BY DEF Act, Output, Put
<1>2. Sound(w) /\ w.s = s
  BY AtSound DEF Good, Follows
<1>3. Sent(s, w.out, queue')
  BY <1>1, <1>2, SentIs
<1>4. Flow
  BY <1>3, OutputFlow DEF Flow, Sent, Table
<1> QED
  BY <1>1, <1>4, CalmStep

\* What operators say is an order.
LEMMA SaidOrder ==
  ASSUME BansInv, NEW s \in Servers, NEW target \in Servers \cup {"*"},
         NEW action \in {"+", "-", "modify", ">", "<"}, NEW m \in Masks, NEW r \in Reasons,
         NEW d \in 0 .. MAX_EXPIRE + 1, NEW e \in Nat, e <= now + MAX_EXPIRE + 1, e # 0 => e >= now
  PROVE  /\ Order(At(s), Said(target, action, m, d, r), e, s)
         /\ Said(target, action, m, d, r).target = target
         /\ Said(target, action, m, d, r).action = action
<1>1. scene.operforce \in BOOLEAN /\ now \in Nat /\ now >= 2 /\ now <= MaxTime
  BY InvSetting, NowIsNat DEF Setting, Scene
<1> DEFINE x == Said(target, action, m, d, r)
<1>2. /\ x.cmd = "GLINE" /\ x.target = target /\ x.action = action /\ x.m = m /\ x.lifetime = 0
      /\ ~x.force /\ x.operforce = scene.operforce
  BY DEF Said
<1>3. x \in Messages
  <2>1. d \in -1 .. MAX_EXPIRE + 1 /\ now \in Times /\ 0 \in Times
    BY <1>1, Bounds DEF Times
  <2> QED
    BY <1>1, <2>1 DEF Said, Messages
<1>4. At(s).s = s
  BY AtSound
<1>5. e # 0 => e >= now - 1
  BY <1>1
<1> HIDE DEF x
<1>6. Order(At(s), x, e, s)
  <2>1. x.force => e <= now + MAX_EXPIRE
    BY <1>2
  <2>2. Wide(x.m) => /\ ~x.force /\ x.operforce = scene.operforce
                     /\ s = At(s).s \/ x.target # "*"
    BY <1>2, <1>4
  <2>3. x.action \in {">", "<"} => x.lifetime = 0
    BY <1>2
  <2>4. scene.prompt => x.lifetime = 0 \/ x.lifetime >= e
    BY <1>2
  <2>5. x.target # "*" => x \in Mail(now)
    BY <1>2, <1>3 DEF Mail
  <2> QED
    BY <1>2, <1>3, <1>5, <2>1, <2>2, <2>3, <2>4, <2>5, Zenon DEF Order
<1> QED
  BY <1>2, <1>6 DEF x

\* An operator makes, changes, overrides or removes a ban with GLINE, ZLINE or SHUN.
LEMMA OperatorStep ==
  ASSUME BansInv, NEW s \in Servers, NEW m \in Masks, Operator(s, m)
  PROVE  BansInv' /\ Keeps
<1>1. /\ Setting /\ now \in Nat /\ scene.net \subseteq Servers /\ scene.reasons \subseteq Reasons
      /\ scene.durations \subseteq 0 .. MAX_EXPIRE + 1
  BY InvSetting, NowIsNat DEF Setting, Scene
<1>2. Sound(At(s))
  BY AtSound
<1>3. ASSUME NEW target \in Servers \cup {"*"}, NEW action \in {"+", "-", "modify", ">", "<"},
             NEW r \in Reasons, NEW d \in 0 .. MAX_EXPIRE + 1, NEW e \in Nat,
             e <= now + MAX_EXPIRE + 1, e # 0 => e >= now,
             e = 0 => target = "*" \/ action \in {">", "<"}
      PROVE  Good(At(s), GlineCommand(At(s), Said(target, action, m, d, r), e, s))
  <2> DEFINE x == Said(target, action, m, d, r)
  <2>1. Order(At(s), x, e, s) /\ x.target = target /\ x.action = action
    BY <1>3, SaidOrder
  <2> HIDE DEF x
  <2>2. e = 0 => x.target = "*" \/ x.action \in {">", "<"}
    BY <1>3, <2>1
  <2>3. Good(At(s), GlineCommand(At(s), x, e, s))
    BY <1>1, <1>2, <2>1, <2>2, CommandGood
  <2> QED
    BY <2>3 DEF x
<1>4. ASSUME NEW d \in scene.durations
      PROVE  /\ d \in 0 .. MAX_EXPIRE + 1 /\ now + d \in Nat /\ now + d <= now + MAX_EXPIRE + 1
             /\ now + d >= now /\ now + d # 0
  <2>1. d \in 0 .. MAX_EXPIRE + 1
    BY <1>1
  <2> QED
    BY <1>1, <2>1, InvSetting, NowIsNat, Bounds
<1>5. 0 \in Nat /\ 0 <= now + MAX_EXPIRE + 1 /\ 0 \in 0 .. MAX_EXPIRE + 1
  BY <1>1, Bounds
<1>6. ASSUME NEW action \in {"+", "-", "modify"}, NEW d \in scene.durations,
             NEW r \in scene.reasons, Change(s, action, m, d, r)
      PROVE  BansInv' /\ Keeps
  <2> DEFINE v == GlineCommand(At(s), Said("*", action, m, 0, r), now + d, s)
  <2>1. Good(At(s), v)
    BY <1>1, <1>3, <1>4, <1>5
  <2>2. Act("global", v)
    BY <1>6 DEF Change
  <2> HIDE DEF v
  <2> QED
    BY <2>1, <2>2, ActStep
<1>7. ASSUME NEW action \in {"+", "-"}, ChangeStatus(s, action, m)
      PROVE  BansInv' /\ Keeps
  <2> DEFINE r == glines[s][m].reason
             v == GlineCommand(At(s), Said("*", action, m, 0, r), 0, s)
  <2>1. r \in Reasons /\ Act("global", v)
    BY <1>7, GlineFields DEF ChangeStatus, BansInv, Record
  <2> HIDE DEF r
  <2>2. Good(At(s), v)
    BY <1>3, <1>5, <2>1
  <2> HIDE DEF v
  <2> QED
    BY <2>1, <2>2, ActStep
<1>8. ASSUME NEW action \in {">", "<"}, NEW h \in scene.net, OverrideStatus(s, action, m, h)
      PROVE  BansInv' /\ Keeps
  <2>1. PICK r \in scene.reasons : Act("status", GlineCommand(At(s), Said(h, action, m, 0, r), 0, s))
    BY <1>8 DEF OverrideStatus
  <2> DEFINE v == GlineCommand(At(s), Said(h, action, m, 0, r), 0, s)
  <2>2. Good(At(s), v)
    BY <1>1, <1>3, <1>5
  <2>3. Act("status", v)
    BY <2>1
  <2> HIDE DEF v
  <2> QED
    BY <2>2, <2>3, ActStep
<1>9. ASSUME NEW action \in {"+", "-"}, NEW d \in scene.durations, NEW h \in scene.net,
             MakeLocal(s, action, m, d, h)
      PROVE  BansInv' /\ Keeps
  <2>1. PICK r \in scene.reasons :
          Act("local", GlineCommand(At(s), Said(h, action, m, d, r), now + d, s))
    BY <1>9 DEF MakeLocal
  <2> DEFINE v == GlineCommand(At(s), Said(h, action, m, d, r), now + d, s)
  <2>2. Good(At(s), v)
    BY <1>1, <1>3, <1>4
  <2>3. Act("local", v)
    BY <2>1
  <2> HIDE DEF v
  <2> QED
    BY <2>2, <2>3, ActStep
<1> QED
  BY <1>6, <1>7, <1>8, <1>9 DEF Operator

\* An operator uses REMOVE.
LEMMA RemoveStep ==
  ASSUME BansInv, NEW s \in Servers, NEW m \in Masks, mo_remove(s, m)
  PROVE  BansInv' /\ Keeps
<1> DEFINE x == [cmd |-> "REMOVE", m |-> m]
           v == Send(Forget(At(s), m), Servers \ {s}, x)
<1>1. x \in Mail(now)
  BY PlainMail
<1>2. Act("remove", v)
  BY DEF mo_remove, ms_remove, sendcmdto_serv_butone
<1> HIDE DEF x
<1>3. Good(At(s), v)
  BY <1>1, AtSound, InvSetting, ForgetGood, ThenSend
<1> HIDE DEF v
<1> QED
  BY <1>2, <1>3, ActStep

\* A link is opened: w is the server that opens it, a the streams after it did.
Opened(s, n) ==
  /\ queue' \in Table /\ \A k \in Servers : queue'[k][k] = <<>>
  /\ ~Greets(queue'[n][s]) /\ (Greets(queue'[s][n]) => ~up[n][s])
  /\ \A k, h \in Servers : {k, h} # {s, n} => queue'[k][h] = queue[k][h]

\* A server connects to another.
LEMMA OpenStep ==
  ASSUME BansInv, scene' = scene, now' = now, NEW s \in Servers, NEW n \in Servers, n # s,
         NEW w, Sound(w), Rest(At(s), w, n), Become(w), Opened(s, n)
  PROVE  BansInv' /\ Keeps
<1>1. w.s = s /\ w.gl = glines[s] /\ \A k \in Servers \ {n} : w.up[k] = up[s][k]
  BY AtSound DEF Rest
<1>2. up'[s] = w.up /\ \A k \in Servers \ {s} : up'[k] = up[k]
  BY <1>1 DEF Become, BansInv
<1>3. glines' = glines
  BY <1>1 DEF Become, BansInv
<1>4. ASSUME NEW k \in Servers, NEW h \in Servers, Greets(queue'[h][k])
      PROVE  ~up'[k][h]
  <2>1. CASE k = s /\ h = n
    BY <1>4, <2>1 DEF Opened
  <2>2. CASE k = n /\ h = s
    BY <1>2, <1>4, <2>2 DEF Opened
  <2>3. CASE {h, k} # {s, n}
    <3>1. Greets(queue[h][k])
      BY <1>4, <2>3 DEF Opened
    <3>2. ~up[k][h]
      BY <3>1 DEF BansInv
    <3>3. up'[k][h] = up[k][h]
      BY <1>1, <1>2, <2>3
    <3> QED
      BY <3>2, <3>3
  <2>4. {h, k} = {s, n} => (k = s /\ h = n) \/ (k = n /\ h = s)
    OBVIOUS
  <2> QED
    BY <2>1, <2>2, <2>3, <2>4
<1>5. BansInv'
  BY <1>4, BecomeInv DEF Table, Opened
<1> QED
  BY <1>3, <1>5, StandingKeeps

\* mr_server on the server that was called.
LEMMA AcceptStep ==
  ASSUME BansInv, NEW s \in Servers, NEW n \in Servers, Accept(s, n)
  PROVE  BansInv' /\ Keeps
<1> DEFINE w == server_estab(At(s), n, <<Hello>>)
<1>1. /\ n # s /\ ~up[n][s] /\ queue[n][s] = <<>> /\ scene' = scene /\ now' = now
      /\ Become(w) /\ queue' = Put(queue, w.s, w.out)
  BY DEF Accept, Neighbours, Hello, Output, Put
<1>2. Sound(w) /\ Rest(At(s), w, n)
  BY <1>1, AtSound, InvSetting, EstabSound
<1> HIDE DEF w
<1>3. w.s = s /\ w.out[s] = <<>> /\ \A h \in Servers \ {n} : w.out[h] = queue[s][h]
  BY <1>1, <1>2, AtSound, NoSelfLink DEF Rest
<1>4. Sent(s, w.out, queue')
  BY <1>1, <1>2, <1>3, SentIs
<1>5. \A k \in Servers : queue[k][k] = <<>>
  BY NoSelfLink
<1>6. queue' \in Table /\ (\A k \in Servers : queue'[k][k] = <<>>) /\ queue'[n][s] = <<>>
  BY <1>1, <1>3, <1>4, <1>5 DEF Sent
<1>7. ~Greets(queue'[n][s])
  BY <1>6 DEF Greets
<1>8. ASSUME NEW k \in Servers, NEW h \in Servers, {k, h} # {s, n}
      PROVE  queue'[k][h] = queue[k][h]
  <2>1. CASE k = s
    BY <1>3, <1>4, <1>8, <2>1 DEF Sent
  <2>2. CASE k # s
    BY <1>4, <2>2 DEF Sent
  <2> QED
    BY <2>1, <2>2
<1>9. Opened(s, n)
  BY <1>1, <1>6, <1>7, <1>8 DEF Opened
<1> QED
  BY <1>1, <1>2, <1>9, OpenStep

\* mr_server on the server that called.
LEMMA ConnectedStep ==
  ASSUME BansInv, NEW s \in Servers, NEW n \in Servers, Connected(s, n)
  PROVE  BansInv' /\ Keeps
<1> DEFINE w == server_estab(At(s), n, <<>>)
           a == Put(queue, s, w.out)
           q == Tail(queue[n][s])
<1>1. /\ queue[n][s] # <<>> /\ scene' = scene /\ now' = now /\ Become(w)
      /\ queue' = [queue EXCEPT ![s] = w.out, ![n][s] = Tail(@)]
  BY DEF Connected
<1>2. n # s /\ queue[n][s] \in Stream(now)
  BY <1>1, NoSelfLink DEF BansInv
<1>3. q \in Stream(now) /\ ~Greets(q)
  BY <1>1, <1>2, StreamHead
<1>4. Sound(w) /\ Rest(At(s), w, n) /\ ~Greets(w.out[n])
  BY <1>2, AtSound, InvSetting, EstabSound
<1> HIDE DEF w
<1>5. w.s = s /\ w.out[s] = <<>> /\ \A h \in Servers \ {n} : w.out[h] = queue[s][h]
  BY <1>2, <1>4, AtSound, NoSelfLink DEF Rest
<1>6. Sent(s, w.out, a)
  BY <1>4, <1>5, SentIs
<1>7. queue' = PutOne(a, n, s, q)
  BY <1>1, <1>2 DEF BansInv, Put, PutOne
<1> HIDE DEF a, q
<1>8. OneMoved(a, n, s, q, queue')
  BY <1>3, <1>6, <1>7, StreamTables DEF Sent
<1>9. queue' \in Table /\ ~Greets(queue'[n][s]) /\ ~Greets(queue'[s][n])
  BY <1>2, <1>3, <1>4, <1>6, <1>8 DEF OneMoved, Sent
<1>10. \A k \in Servers : queue'[k][k] = <<>>
  <2> TAKE k \in Servers
  <2>1. queue'[k][k] = a[k][k] /\ queue[k][k] = <<>>
    BY <1>2, <1>8, NoSelfLink DEF OneMoved
  <2> QED
    BY <1>5, <1>6, <2>1 DEF Sent
<1>11. ASSUME NEW k \in Servers, NEW h \in Servers, {k, h} # {s, n}
       PROVE  queue'[k][h] = queue[k][h]
  <2>1. queue'[k][h] = a[k][h]
    BY <1>8, <1>11 DEF OneMoved
  <2>2. CASE k = s
    BY <1>5, <1>6, <1>11, <2>1, <2>2 DEF Sent
  <2>3. CASE k # s
    BY <1>6, <2>1, <2>3 DEF Sent
  <2> QED
    BY <2>2, <2>3
<1>12. Opened(s, n)
  BY <1>9, <1>10, <1>11 DEF Opened
<1> QED
  BY <1>1, <1>2, <1>4, <1>12, OpenStep

\* A link breaks: both ends lose it and what was on its way.
LEMMA CloseStep ==
  ASSUME BansInv, NEW s \in Servers, NEW n \in Servers, Close(s, n)
  PROVE  BansInv' /\ Keeps
<1> DEFINE w == Dropped(At(s), n)
           x == [cmd |-> "SQUIT"]
           q == Append(queue[s][n], x)
           a == PutOne(queue, s, n, q)
<1>1. /\ up[s][n] /\ scene' = scene /\ now' = now /\ Become(w)
      /\ queue' = [queue EXCEPT ![s][n] = Append(@, x), ![n][s] = <<>>]
  BY DEF Close
<1>2. n # s /\ queue \in Table /\ queue[s][n] \in Stream(now)
  BY <1>1, NoSelfLink DEF BansInv, Table
<1>3. queue' = PutOne(a, n, s, <<>>)
  BY <1>1, <1>2 DEF Put, PutOne, Table
<1>4. Good(At(s), w)
  BY <1>2, AtSound, DroppedGood
<1> HIDE DEF w
<1>5. x \in Mail(now)
  BY PlainMail
<1> HIDE DEF x
<1>6. q \in Stream(now) /\ (Greets(q) => Greets(queue[s][n]))
  BY <1>2, <1>5, StreamAppend
<1> HIDE DEF q
<1>7. OneMoved(queue, s, n, q, a)
  BY <1>2, <1>6, StreamTables
<1> HIDE DEF a
<1>8. <<>> \in Stream(now) /\ ~Greets(<<>>)
  BY DEF Stream, Greets
<1>9. OneMoved(a, n, s, <<>>, queue')
  <2>1. a \in Table
    BY <1>7 DEF OneMoved
  <2> QED
    BY <1>3, <1>8, <2>1, StreamTables
<1>10. queue' \in Table /\ \A k \in Servers : queue'[k][k] = <<>>
  BY <1>2, <1>7, <1>9, NoSelfLink DEF OneMoved
<1>11. ASSUME NEW k \in Servers, NEW h \in Servers, Greets(queue'[k][h])
       PROVE  Greets(queue[k][h])
  <2>1. CASE k = n /\ h = s
    BY <1>8, <1>9, <1>11, <2>1 DEF OneMoved
  <2>2. CASE k = s /\ h = n
    <3>1. queue'[k][h] = q
      BY <1>2, <1>7, <1>9, <2>2 DEF OneMoved
    <3> QED
      BY <1>6, <1>11, <2>2, <3>1
  <2>3. CASE (k # n \/ h # s) /\ (k # s \/ h # n)
    <3>1. queue'[k][h] = queue[k][h]
      BY <1>7, <1>9, <2>3 DEF OneMoved
    <3> QED
      BY <1>11, <3>1
  <2> QED
    BY <2>1, <2>2, <2>3
<1>12. Flow
  BY <1>10, <1>11 DEF Flow, Table
<1> QED
  BY <1>1, <1>4, <1>12, CalmStep
=============================================================================
