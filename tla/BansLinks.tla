----------------------------- MODULE BansLinks ------------------------------
(* What links do to a server, for any servers, masks, scenes and bounds:   *)
(* the burst, its end, links that are made and lost, and with them every   *)
(* message; and what a step of one server leaves of the invariant.         *)
EXTENDS BansCommands, FiniteSetTheorems

\* gline_burst tells every record.
LEMMA ListOfSet ==
  ASSUME NEW S, IsFiniteSet(S)
  PROVE  \E n \in Nat : ListOf(S) \in [1 .. n -> S]
<1>1. Cardinality(S) \in Nat /\ ExistsBijection(1 .. Cardinality(S), S)
  BY FS_CardinalityType
<1>2. ListOf(S) \in Bijection(1 .. Cardinality(S), S)
  BY <1>1, Zenon DEF ExistsBijection, ListOf
<1>3. ListOf(S) \in [1 .. Cardinality(S) -> S]
  BY <1>2, Zenon DEF Bijection, Injection
<1> QED
  BY <1>1, <1>3

\* The burst of a server is messages.
LEMMA BurstIsMail ==
  ASSUME Setting, NEW w, Sound(w)
  PROVE  Burst(w) \in Seq(Mail(now))
<1> DEFINE S == {m \in Masks : w.gl[m] # NoBan}
           ms == ListOf(S)
<1>1. w.gl \in [Masks -> Record(now)]
  BY DEF Sound, Worker
<1>2. IsFiniteSet(S)
  BY BansConstants, FS_Subset
<1>3. PICK n \in Nat : ms \in [1 .. n -> S]
  BY <1>2, ListOfSet, Zenon
<1>4. \A m \in S : Whole(w.gl[m], m, TRUE) \in Mail(now)
  <2> TAKE m \in S
  <2>1. m \in Masks /\ w.gl[m] # NoBan /\ w.gl[m] \in Record(now) /\ ~Wide(m)
    BY <1>1 DEF Sound, Narrow
  <2> QED
    BY <2>1, WholeIsMail, Zenon
<1>5. gline_burst(w) = [i \in DOMAIN ms |-> Whole(w.gl[ms[i]], ms[i], TRUE)]
  BY DEF gline_burst
<1> HIDE DEF ms, S
<1>6. [i \in DOMAIN ms |-> Whole(w.gl[ms[i]], ms[i], TRUE)] \in [1 .. n -> Mail(now)]
  BY <1>3, <1>4, Zenon
<1>7. gline_burst(w) \in [1 .. n -> Mail(now)]
  BY <1>5, <1>6, Zenon
<1>8. gline_burst(w) \in Seq(Mail(now))
  BY <1>7
<1> QED
  BY <1>8, OneMachine

-----------------------------------------------------------------------------
\* What changes only a server's links.
Linked(w, up0, b0, q0) == [w EXCEPT !.up = up0, !.burst = b0, !.out = q0]
Bursting(w, n, b) == [w EXCEPT !.burst[n] = b]
Rest(w, v, n) ==
  v.s = w.s /\ v.gl = w.gl /\ \A k \in Servers \ {n} : v.up[k] = w.up[k] /\ v.out[k] = w.out[k]

\* A server with other links is a server.
LEMMA LinkWorker ==
  ASSUME NEW w \in Worker, NEW up0 \in [Servers -> BOOLEAN],
         NEW b0 \in [Servers -> {"none", "burst", "ack"}], NEW q0 \in [Servers -> Stream(now)]
  PROVE  /\ Linked(w, up0, b0, q0) \in Worker
         /\ Linked(w, up0, b0, q0).s = w.s /\ Linked(w, up0, b0, q0).gl = w.gl
         /\ Linked(w, up0, b0, q0).lo = w.lo /\ Linked(w, up0, b0, q0).us = w.us
         /\ Linked(w, up0, b0, q0).up = up0 /\ Linked(w, up0, b0, q0).out = q0
<1> DEFINE a == [w EXCEPT !.up = up0]
           b == [a EXCEPT !.burst = b0]
           c == [b EXCEPT !.out = q0]
<1>1. /\ a \in Worker /\ a.s = w.s /\ a.gl = w.gl /\ a.lo = w.lo /\ a.us = w.us /\ a.up = up0
  BY DEF Worker
<1> HIDE DEF a
<1>2. /\ b \in Worker /\ b.s = a.s /\ b.gl = a.gl /\ b.lo = a.lo /\ b.us = a.us /\ b.up = a.up
  BY <1>1 DEF Worker
<1> HIDE DEF b
<1>3. /\ c \in Worker /\ c.s = b.s /\ c.gl = b.gl /\ c.lo = b.lo /\ c.us = b.us /\ c.up = b.up
      /\ c.out = q0
  BY <1>2 DEF Worker
<1>4. c = Linked(w, up0, b0, q0)
  BY Zenon DEF Linked, a, b
<1> HIDE DEF c
<1> QED
  BY <1>1, <1>2, <1>3, <1>4

\* It is a sound one if it has no link to itself.
LEMMA LinkSound ==
  ASSUME NEW w, Sound(w), NEW n \in Servers, n # w.s,
         NEW up0 \in [Servers -> BOOLEAN], \A k \in Servers \ {n} : up0[k] = w.up[k],
         NEW b0 \in [Servers -> {"none", "burst", "ack"}],
         NEW q0 \in [Servers -> Stream(now)], \A k \in Servers \ {n} : q0[k] = w.out[k]
  PROVE  /\ Sound(Linked(w, up0, b0, q0)) /\ Rest(w, Linked(w, up0, b0, q0), n)
         /\ Linked(w, up0, b0, q0).up = up0 /\ Linked(w, up0, b0, q0).out = q0
<1>1. w \in Worker /\ w.s \in Servers
  BY DEF Sound, Worker
<1> DEFINE v == Linked(w, up0, b0, q0)
<1>2. /\ v \in Worker /\ v.s = w.s /\ v.gl = w.gl /\ v.lo = w.lo /\ v.us = w.us
      /\ v.up = up0 /\ v.out = q0
  BY <1>1, LinkWorker
<1> HIDE DEF v
<1>4. v.up[w.s] = w.up[w.s] /\ v.out[w.s] = w.out[w.s]
  BY <1>1, <1>2
<1>5. Sound(v)
  BY <1>2, <1>4 DEF Sound, Narrow, Clean, NoLoop
<1>6. Rest(w, v, n)
  BY <1>2 DEF Rest
<1> QED
  BY <1>2, <1>5, <1>6 DEF v

\* The tables of a server's links with one entry changed.
LEMMA LinkTables ==
  ASSUME NEW w, Sound(w), NEW n \in Servers, NEW b \in {"none", "burst", "ack"},
         NEW q \in Stream(now)
  PROVE  /\ [w.up EXCEPT ![n] = TRUE] \in [Servers -> BOOLEAN]
         /\ [w.up EXCEPT ![n] = FALSE] \in [Servers -> BOOLEAN]
         /\ [w.burst EXCEPT ![n] = b] \in [Servers -> {"none", "burst", "ack"}]
         /\ [w.out EXCEPT ![n] = q] \in [Servers -> Stream(now)]
         /\ ~[w.up EXCEPT ![n] = FALSE][n] /\ [w.out EXCEPT ![n] = q][n] = q
         /\ \A k \in Servers \ {n} : /\ [w.up EXCEPT ![n] = TRUE][k] = w.up[k]
                                     /\ [w.up EXCEPT ![n] = FALSE][k] = w.up[k]
                                     /\ [w.out EXCEPT ![n] = q][k] = w.out[k]
<1>1. /\ w.up \in [Servers -> BOOLEAN] /\ w.burst \in [Servers -> {"none", "burst", "ack"}]
      /\ w.out \in [Servers -> Stream(now)]
  BY DEF Sound, Worker
<1> QED
  BY <1>1

\* gline_burst and the end of burst leave a server sound.
LEMMA BurstGood ==
  ASSUME NEW w, Sound(w), NEW n \in Servers, NEW b \in {"none", "burst", "ack"}
  PROVE  Good(w, Bursting(w, n, b))
<1> DEFINE v == Bursting(w, n, b)
<1>1. w \in Worker
  BY DEF Sound
<1>2. /\ v \in Worker /\ v.s = w.s /\ v.gl = w.gl /\ v.lo = w.lo /\ v.us = w.us
      /\ v.up = w.up /\ v.out = w.out
  BY <1>1 DEF Worker, Bursting
<1> HIDE DEF v
<1>3. Sound(v) /\ Calm(w, v)
  BY <1>2 DEF Sound, Narrow, Clean, NoLoop, Calm
<1>4. Good(w, v)
  BY <1>2, <1>3, SameGood
<1> QED
  BY <1>4 DEF v

\* server_estab links a server, tells it everything and leaves it sound.
LEMMA EstabSound ==
  ASSUME Setting, NEW w, Sound(w), NEW n \in Servers, n # w.s, NEW hello \in {<<>>, <<Hello>>}
  PROVE  /\ Sound(server_estab(w, n, hello)) /\ Rest(w, server_estab(w, n, hello), n)
         /\ hello = <<>> => ~Greets(server_estab(w, n, hello).out[n])
<1>1. [cmd |-> "EOB"] \in Mail(now)
  BY PlainMail
<1> DEFINE q == hello \o Burst(w) \o <<[cmd |-> "EOB"]>>
<1>2. q \in Stream(now) /\ (hello = <<>> => ~Greets(q))
  <2>1. Burst(w) \in Seq(Mail(now))
    BY BurstIsMail
  <2>2. CASE hello = <<>>
    BY <1>1, <2>1, <2>2, StreamNew
  <2>3. CASE hello = <<Hello>>
    <3>1. q \in Stream(now)
      BY <1>1, <2>1, <2>3, StreamNew
    <3> QED
      BY <2>3, <3>1
  <2> QED
    BY <2>2, <2>3
<1> DEFINE up0 == [w.up EXCEPT ![n] = TRUE]
           b0 == [w.burst EXCEPT ![n] = "burst"]
           q0 == [w.out EXCEPT ![n] = q]
<1>3. server_estab(w, n, hello) = Linked(w, up0, b0, q0)
  BY DEF server_estab, Linked, Sound, Worker
<1> HIDE DEF q
<1>4. /\ up0 \in [Servers -> BOOLEAN] /\ b0 \in [Servers -> {"none", "burst", "ack"}]
      /\ q0 \in [Servers -> Stream(now)] /\ q0[n] = q
      /\ \A k \in Servers \ {n} : up0[k] = w.up[k] /\ q0[k] = w.out[k]
  BY <1>2, LinkTables
<1> HIDE DEF up0, b0, q0
<1>5. /\ Sound(Linked(w, up0, b0, q0)) /\ Rest(w, Linked(w, up0, b0, q0), n)
      /\ Linked(w, up0, b0, q0).out = q0
  BY <1>4, LinkSound
<1> QED
  BY <1>2, <1>3, <1>4, <1>5

\* exit_client on a link leaves a server sound.
LEMMA DroppedGood ==
  ASSUME NEW w, Sound(w), NEW n \in Servers, n # w.s
  PROVE  /\ Good(w, Dropped(w, n)) /\ Rest(w, Dropped(w, n), n)
         /\ ~Dropped(w, n).up[n] /\ Dropped(w, n).out[n] = <<>>
<1> DEFINE v == Dropped(w, n)
           up0 == [w.up EXCEPT ![n] = FALSE]
           b0 == [w.burst EXCEPT ![n] = "none"]
           q0 == [w.out EXCEPT ![n] = <<>>]
<1>1. <<>> \in Stream(now)
  BY DEF Stream
<1>2. v = Linked(w, up0, b0, q0)
  BY DEF Dropped, Linked, Sound, Worker
<1>3. /\ up0 \in [Servers -> BOOLEAN] /\ b0 \in [Servers -> {"none", "burst", "ack"}]
      /\ q0 \in [Servers -> Stream(now)] /\ q0[n] = <<>> /\ ~up0[n]
      /\ \A k \in Servers \ {n} : up0[k] = w.up[k] /\ q0[k] = w.out[k]
  BY <1>1, LinkTables
<1> HIDE DEF v, up0, b0, q0
<1>4. Sound(v) /\ Rest(w, v, n) /\ v.up = up0 /\ v.out = q0
  BY <1>2, <1>3, LinkSound
<1>5. Calm(w, v)
  BY <1>3, <1>4 DEF Calm, Greets, Rest
<1>6. Good(w, v)
  BY <1>4, <1>5, SameGood DEF Rest
<1> QED
  BY <1>3, <1>4, <1>6 DEF v

\* One good step after another that leaves the records alone.
LEMMA ThenSend ==
  ASSUME NEW w, NEW v, Good(w, v), NEW to, NEW x \in Mail(now)
  PROVE  Good(w, Send(v, to, x))
<1>1. Sound(v) /\ v.s = w.s
  BY DEF Good, Follows
<1> DEFINE u == Send(v, to, x)
<1>2. Sound(u) /\ u.s = v.s /\ u.gl = v.gl /\ Calm(v, u)
  BY <1>1, SendKeeps
<1> HIDE DEF u
<1>3. Calm(w, u)
  BY <1>2 DEF Good, Follows, Calm
<1>4. Good(w, u)
  BY <1>1, <1>2, <1>3 DEF Good, Follows
<1> QED
  BY <1>4 DEF u

\* Whatever arrives.
LEMMA HandleGood ==
  ASSUME Setting, NEW w, Sound(w), NEW n \in Servers, n # w.s, NEW x \in Mail(now)
  PROVE  Good(w, Handle(w, x, n))
<1>1. x \in Messages
  BY DEF Mail
<1>2. CASE x.cmd = "GLINE"
  <2>1. scene.kind \in {"gline", "zline", "shun"}
    BY DEF Setting, Scene
  <2> DEFINE e == now + x.expire
  <2>2. Handle(w, x, n) = GlineCommand(w, x, e, n)
    BY <1>2, <2>1 DEF Handle, ms_gline, ms_zline, ms_shun, ZlineCommand, ShunCommand
  <2>3. x.expire \in -1 .. MAX_EXPIRE + 1 /\ x.lifetime \in Nat
    BY <1>1, <1>2, MessageFields, Bounds DEF Times
  <2>4. e \in Nat /\ e # 0 /\ e >= now - 1 /\ e <= now + MAX_EXPIRE + 1
    BY <2>3, NowIsNat, Bounds
  <2>5. /\ x.force => x.expire <= MAX_EXPIRE
        /\ x.action \in {">", "<"} => x.lifetime = 0
        /\ Wide(x.m) => x.target # "*" /\ ~x.force /\ x.operforce = scene.operforce
        /\ scene.prompt => x.lifetime = 0 \/ x.lifetime >= e
    BY <1>2 DEF Mail
  <2>6. x.force => e <= now + MAX_EXPIRE
    BY <2>3, <2>5, NowIsNat, Bounds
  <2> HIDE DEF e
  <2>7. Order(w, x, e, n)
    BY <1>1, <1>2, <2>4, <2>5, <2>6 DEF Order
  <2> QED
    BY <2>2, <2>4, <2>7, CommandGood
<1>3. CASE x.cmd = "REMOVE"
  <2>1. x.m \in Masks
    BY <1>1, <1>3 DEF Messages
  <2>2. Good(w, Send(Forget(w, x.m), Servers \ {n}, x))
    BY <2>1, ForgetGood, ThenSend
  <2>3. Handle(w, x, n) = Send(Forget(w, x.m), Servers \ {n}, x)
    BY <1>3 DEF Handle, ms_remove, sendcmdto_serv_butone
  <2> QED
    BY <2>2, <2>3
<1>4. CASE x.cmd = "EOB"
  <2> DEFINE v == Bursting(w, n, "ack")
  <2>1. Good(w, v) /\ [cmd |-> "EOB_ACK"] \in Mail(now)
    BY BurstGood, PlainMail
  <2>2. Handle(w, x, n) = Send(v, {n}, [cmd |-> "EOB_ACK"])
    BY <1>4 DEF Handle, ms_end_of_burst, sendcmdto_one, Bursting
  <2> HIDE DEF v
  <2> QED
    BY <2>1, <2>2, ThenSend
<1>5. CASE x.cmd = "EOB_ACK"
  <2> DEFINE b == IF w.burst[n] = "ack" THEN "none" ELSE w.burst[n]
  <2>1. b \in {"none", "burst", "ack"}
    BY DEF Sound, Worker
  <2>2. Handle(w, x, n) = Bursting(w, n, b)
    BY <1>5 DEF Handle, ms_end_of_burst_ack, Bursting
  <2> HIDE DEF b
  <2> QED
    BY <2>1, <2>2, BurstGood
<1>6. CASE x.cmd = "SQUIT"
  <2>1. Handle(w, x, n) = Dropped(w, n)
    BY <1>6 DEF Handle
  <2> QED
    BY <2>1, DroppedGood
<1>7. x.cmd \in {"GLINE", "REMOVE", "EOB", "EOB_ACK", "SQUIT"}
  BY <1>1 DEF Messages, Mail
<1> QED
  BY <1>2, <1>3, <1>4, <1>5, <1>6, <1>7

-----------------------------------------------------------------------------
\* The inductive invariant.
BansInv ==
  /\ scene \in Scenes
  /\ now \in 2 .. MaxTime
  /\ glines \in [Servers -> [Masks -> Record(now)]]
  /\ locals \in [Servers -> [Masks -> Times]]
  /\ users \in [Servers -> SUBSET Masks]
  /\ burst \in [Servers -> [Servers -> {"none", "burst", "ack"}]]
  /\ up \in [Servers -> [Servers -> BOOLEAN]]
  /\ queue \in [Servers -> [Servers -> Stream(now)]]
  /\ \A s \in Servers : Narrow(At(s)) /\ Clean(At(s)) /\ NoLoop(At(s))
  /\ \A s, n \in Servers : Greets(queue[n][s]) => ~up[s][n]
-----------------------------------------------------------------------------
\* The invariant makes every server a sound one.
LEMMA InvSetting == BansInv => Setting
BY BansConstants DEF BansInv, Setting

\* What a server works with is what the variables say of it.
LEMMA AtSound ==
  ASSUME BansInv, NEW s \in Servers
  PROVE  /\ Sound(At(s)) /\ At(s).s = s /\ At(s).gl = glines[s] /\ At(s).up = up[s]
         /\ At(s).out = queue[s] /\ At(s).us = users[s] /\ At(s).lo = locals[s]
<1>1. At(s) \in Worker
  <2>1. /\ glines[s] \in [Masks -> Record(now)] /\ locals[s] \in [Masks -> Times]
        /\ users[s] \in SUBSET Masks /\ burst[s] \in [Servers -> {"none", "burst", "ack"}]
        /\ up[s] \in [Servers -> BOOLEAN] /\ queue[s] \in [Servers -> Stream(now)]
    BY DEF BansInv
  <2> QED
    BY <2>1 DEF At, Worker
<1>2. Narrow(At(s)) /\ Clean(At(s)) /\ NoLoop(At(s))
  BY DEF BansInv
<1> QED
  BY <1>1, <1>2 DEF Sound, At

\* No server has a link to itself.
LEMMA NoSelfLink ==
  ASSUME BansInv, NEW s \in Servers
  PROVE  ~up[s][s] /\ queue[s][s] = <<>>
<1>1. NoLoop(At(s))
  BY DEF BansInv
<1> QED
  BY <1>1, AtSound DEF NoLoop

\* Within a second what a record, a message and a stream may be does not change.
LEMMA SameSetting ==
  ASSUME scene' = scene, now' = now
  PROVE  /\ Record(now)' = Record(now) /\ Stream(now)' = Stream(now)
         /\ \A m \in Masks : Wide(m)' <=> Wide(m)
<1>1. \A m : Wide(m)' <=> Wide(m)
  BY DEF Wide
<1>2. Record(now)' = Record(now)
  BY DEF Record
<1>3. Mail(now)' = Mail(now)
  <2>1. \A x \in Messages : (Wide(x.m)' <=> Wide(x.m))
    BY <1>1
  <2> QED
    BY <2>1 DEF Mail
<1>4. Stream(now)' = Stream(now)
  BY <1>3 DEF Stream
<1> QED
  BY <1>1, <1>2, <1>4

\* A server becomes what it worked out; what the streams become is up to the action.
LEMMA BecomeInv ==
  ASSUME BansInv, scene' = scene, now' = now, NEW w, Sound(w), Become(w),
         queue' \in [Servers -> [Servers -> Stream(now)]],
         \A k \in Servers : queue'[k][k] = <<>>,
         \A s, n \in Servers : Greets(queue'[n][s]) => ~up'[s][n]
  PROVE  BansInv'
<1>1. /\ w.s \in Servers /\ w.gl \in [Masks -> Record(now)] /\ w.lo \in [Masks -> Times]
      /\ w.us \in SUBSET Masks /\ w.burst \in [Servers -> {"none", "burst", "ack"}]
      /\ w.up \in [Servers -> BOOLEAN]
  BY DEF Sound, Worker
<1>2. /\ glines' \in [Servers -> [Masks -> Record(now)]]
      /\ glines'[w.s] = w.gl /\ \A k \in Servers \ {w.s} : glines'[k] = glines[k]
  BY <1>1 DEF Become, BansInv
<1>3. /\ locals' \in [Servers -> [Masks -> Times]]
      /\ locals'[w.s] = w.lo /\ \A k \in Servers \ {w.s} : locals'[k] = locals[k]
  BY <1>1 DEF Become, BansInv
<1>4. /\ users' \in [Servers -> SUBSET Masks]
      /\ users'[w.s] = w.us /\ \A k \in Servers \ {w.s} : users'[k] = users[k]
  BY <1>1 DEF Become, BansInv
<1>5. burst' \in [Servers -> [Servers -> {"none", "burst", "ack"}]]
  BY <1>1 DEF Become, BansInv
<1>6. /\ up' \in [Servers -> [Servers -> BOOLEAN]]
      /\ up'[w.s] = w.up /\ \A k \in Servers \ {w.s} : up'[k] = up[k]
  BY <1>1 DEF Become, BansInv
<1>7. ASSUME NEW k \in Servers
      PROVE  Narrow(At(k))' /\ Clean(At(k))' /\ NoLoop(At(k))'
  <2>1. PICK v : /\ Narrow(v) /\ Clean(v) /\ ~v.up[k]
                 /\ glines'[k] = v.gl /\ locals'[k] = v.lo /\ users'[k] = v.us /\ up'[k] = v.up
    <3>1. CASE k = w.s
      BY <1>2, <1>3, <1>4, <1>6, <3>1 DEF Sound, NoLoop
    <3>2. CASE k # w.s
      <4>1. /\ Narrow(At(k)) /\ Clean(At(k)) /\ ~At(k).up[k]
            /\ At(k).gl = glines[k] /\ At(k).lo = locals[k] /\ At(k).us = users[k]
            /\ At(k).up = up[k]
        BY AtSound, NoSelfLink DEF Sound
      <4>2. /\ glines'[k] = At(k).gl /\ locals'[k] = At(k).lo /\ users'[k] = At(k).us
            /\ up'[k] = At(k).up
        BY <1>2, <1>3, <1>4, <1>6, <3>2, <4>1
      <4> QED
        BY <4>1, <4>2, Zenon
    <3> QED
      BY <3>1, <3>2
  <2>2. /\ At(k)'.gl = v.gl /\ At(k)'.lo = v.lo /\ At(k)'.us = v.us /\ At(k)'.up = v.up
        /\ At(k)'.out = queue'[k] /\ At(k)'.s = k
    BY <2>1 DEF At
  <2>3. Narrow(At(k))'
    BY <2>1, <2>2, SameSetting DEF Narrow
  <2>4. Clean(At(k))'
    BY <2>1, <2>2 DEF Clean
  <2>5. NoLoop(At(k))'
    BY <2>1, <2>2 DEF NoLoop
  <2> QED
    BY <2>3, <2>4, <2>5
<1> QED
  BY <1>2, <1>3, <1>4, <1>5, <1>6, <1>7, SameSetting DEF BansInv
-----------------------------------------------------------------------------
\* No record goes back in a step of one server.
Keeps ==
  \A s \in Servers, m \in Masks : /\ RecordGrows(glines[s][m], glines'[s][m])
                                  /\ LocalStateKept(glines[s][m], glines'[s][m], now')

\* Records that stay do not go back.
LEMMA StandingKeeps ==
  ASSUME BansInv, glines' = glines, now' = now
  PROVE  Keeps
<1>1. \A s \in Servers, m \in Masks : glines[s][m] \in Record(now)
  BY DEF BansInv
<1> QED
  BY <1>1, SameRecord DEF Keeps

\* Nor do those of a server that did something good.
LEMMA BecomeKeeps ==
  ASSUME BansInv, now' = now, NEW s \in Servers, NEW w, Good(At(s), w), Become(w)
  PROVE  Keeps
<1>1. /\ w.s = s
      /\ \A m \in Masks : /\ RecordGrows(glines[s][m], w.gl[m])
                          /\ LocalStateKept(glines[s][m], w.gl[m], now)
  BY AtSound DEF Good, Follows
<1>2. glines'[s] = w.gl /\ \A k \in Servers \ {s} : glines'[k] = glines[k]
  BY <1>1 DEF Become, BansInv
<1>3. \A k \in Servers, m \in Masks : glines[k][m] \in Record(now)
  BY DEF BansInv
<1> SUFFICES ASSUME NEW k \in Servers, NEW m \in Masks
             PROVE  /\ RecordGrows(glines[k][m], glines'[k][m])
                    /\ LocalStateKept(glines[k][m], glines'[k][m], now')
  BY DEF Keeps
<1>4. CASE k = s
  BY <1>1, <1>2, <1>4
<1>5. CASE k # s
  BY <1>2, <1>3, <1>5, SameRecord
<1> QED
  BY <1>4, <1>5

\* Nothing that is on the way after a step opens a link, unless it did before.
Flow ==
  /\ queue' \in [Servers -> [Servers -> Stream(now)]]
  /\ \A k \in Servers : queue'[k][k] = <<>>
  /\ \A k, h \in Servers : Greets(queue'[k][h]) => Greets(queue[k][h])

\* A good step of a server that opens no link keeps the invariant.
LEMMA CalmStep ==
  ASSUME BansInv, scene' = scene, now' = now, NEW s \in Servers, NEW w, Good(At(s), w), Become(w), Flow
  PROVE  BansInv' /\ Keeps
<1>1. Sound(w) /\ w.s = s /\ Calm(At(s), w) /\ up \in [Servers -> [Servers -> BOOLEAN]]
  BY AtSound DEF Good, Follows, BansInv
<1>2. up'[s] = w.up /\ \A k \in Servers \ {s} : up'[k] = up[k]
  BY <1>1 DEF Become
<1>3. \A h \in Servers : w.up[h] => up[s][h]
  BY <1>1, AtSound DEF Calm
<1>4. ASSUME NEW k \in Servers, NEW h \in Servers, Greets(queue'[h][k])
      PROVE  ~up'[k][h]
  <2>1. Greets(queue[h][k])
    BY <1>4 DEF Flow
  <2>2. ~up[k][h]
    BY <2>1 DEF BansInv
  <2> QED
    BY <1>2, <1>3, <2>2
<1>5. BansInv'
  BY <1>1, <1>4, BecomeInv DEF Flow
<1> QED
  BY <1>5, BecomeKeeps

\* One table of streams, then one stream, changed.
Table == [Servers -> [Servers -> Stream(now)]]
Put(a, s, out) == [a EXCEPT ![s] = out]
PutOne(a, n, s, q) == Put(a, n, Put(a[n], s, q))

\* A table of streams with another row is one.
LEMMA PutTable ==
  ASSUME NEW a \in Table, NEW n \in Servers,
         NEW b \in [Servers -> Stream(now)]
  PROVE  /\ Put(a, n, b) \in Table /\ Put(a, n, b)[n] = b
         /\ \A k \in Servers \ {n} : Put(a, n, b)[k] = a[k]
BY DEF Put, Table

OneMoved(a, n, s, q, c) ==
  c \in Table /\ c[n][s] = q /\ \A k, h \in Servers : k # n \/ h # s => c[k][h] = a[k][h]

\* A table of streams with another stream differs only there.
LEMMA StreamTables ==
  ASSUME NEW a \in Table, NEW n \in Servers, NEW s \in Servers,
         NEW q \in Stream(now)
  PROVE  OneMoved(a, n, s, q, PutOne(a, n, s, q))
<1> DEFINE b == Put(a[n], s, q)
           c == PutOne(a, n, s, q)
<1>1. b \in [Servers -> Stream(now)] /\ b[s] = q /\ \A h \in Servers \ {s} : b[h] = a[n][h]
  BY DEF Put, Table
<1>2. c = Put(a, n, b)
  BY DEF PutOne
<1> HIDE DEF b, c
<1>3. c \in Table /\ c[n] = b /\ \A k \in Servers \ {n} : c[k] = a[k]
  BY <1>1, <1>2, PutTable
<1>4. c[n][s] = q /\ \A k, h \in Servers : k # n \/ h # s => c[k][h] = a[k][h]
  BY <1>1, <1>3, Zenon
<1>5. OneMoved(a, n, s, q, c)
  BY <1>3, <1>4, Zenon DEF OneMoved
<1> QED
  BY <1>5 DEF c

\* What s sends.
Sent(s, out, a) ==
  /\ a \in Table
  /\ a[s] = out /\ \A k \in Servers \ {s} : a[k] = queue[k]

\* What Output leaves on the way.
LEMMA SentIs ==
  ASSUME BansInv, NEW s \in Servers, NEW w, Sound(w), w.s = s
  PROVE  Sent(s, w.out, Put(queue, s, w.out))
<1>1. queue \in Table /\ w.out \in [Servers -> Stream(now)]
  BY DEF BansInv, Sound, Worker, Table
<1> QED
  BY <1>1, PutTable DEF Sent

\* Output opens no link.
LEMMA OutputFlow ==
  ASSUME BansInv, NEW s \in Servers, NEW w, Good(At(s), w), NEW a, Sent(s, w.out, a)
  PROVE  /\ \A k \in Servers : a[k][k] = <<>>
         /\ \A k, h \in Servers : Greets(a[k][h]) => Greets(queue[k][h])
<1>1. w.out[s] = <<>> /\ \A h \in Servers : Greets(w.out[h]) => Greets(queue[s][h])
  BY AtSound DEF Good, Follows, Sound, NoLoop, Calm
<1>2. \A k \in Servers : queue[k][k] = <<>>
  BY NoSelfLink
<1> QED
  BY <1>1, <1>2 DEF Sent

\* Taking a message off a stream and sending others opens no link.
LEMMA ReadFlow ==
  ASSUME BansInv, NEW s \in Servers, NEW w, Good(At(s), w), NEW a, Sent(s, w.out, a),
         NEW n \in Servers, n # s, NEW q \in Stream(now), ~Greets(q),
         queue' = PutOne(a, n, s, q)
  PROVE  Flow
<1>1. /\ \A k \in Servers : a[k][k] = <<>>
      /\ \A k, h \in Servers : Greets(a[k][h]) => Greets(queue[k][h])
  BY OutputFlow
<1>2. /\ queue' \in Table /\ queue'[n][s] = q
      /\ \A k, h \in Servers : k # n \/ h # s => queue'[k][h] = a[k][h]
  <2>1. a \in Table
    BY DEF Sent
  <2>2. OneMoved(a, n, s, q, queue')
    BY <2>1, StreamTables
  <2> QED
    BY <2>2, Zenon DEF OneMoved
<1>3. \A k \in Servers : queue'[k][k] = <<>>
  BY <1>1, <1>2, Zenon
<1>4. ASSUME NEW k \in Servers, NEW h \in Servers, Greets(queue'[k][h])
      PROVE  Greets(queue[k][h])
  <2>1. k # n \/ h # s
    BY <1>2, <1>4
  <2>2. queue'[k][h] = a[k][h]
    BY <1>2, <2>1, Zenon
  <2> QED
    BY <1>1, <1>4, <2>2
<1> QED
  BY <1>2, <1>3, <1>4 DEF Flow, Table
=============================================================================
