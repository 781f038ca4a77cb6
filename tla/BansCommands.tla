---------------------------- MODULE BansCommands ----------------------------
(* What a server knows of bans while it works on a message, for any        *)
(* servers, masks, scenes and bounds.  Making a ban, changing it, a        *)
(* server's own state of it and its removal keep the server sound and let  *)
(* no record go back.                                                      *)
EXTENDS Bans, TLAPS

\* A host that operators may not ban, not even with the "!" they can give here.
Wide(m) ==
  /\ Text[m].form = "host"
  /\ \/ gline_checkmask(Text[m]) = "rejected"
     \/ gline_checkmask(Text[m]) = "overridable" /\ ~scene.operforce

\* Records as they are at time t: none expires later than one made now would, and while
\* messages take no time none is kept that should not be, or less long than it should be.
Record(t) ==
  {NoBan} \cup {g \in Gline : /\ g.expire <= t + MAX_EXPIRE
                              /\ scene.prompt => g.lifetime >= g.expire /\ g.lifetime >= t - 1}

\* Messages on the way at time t.  The times in one that is forced were true of a record; a
\* change of the local state has no lifetime; and one about a mask that is too wide is for one
\* server only, which will refuse it.
Mail(t) ==
  {x \in Messages :
     /\ x.cmd # "SERVER"
     /\ x.cmd = "GLINE" =>
          /\ x.force => x.expire <= MAX_EXPIRE
          /\ x.action \in {">", "<"} => x.lifetime = 0
          /\ Wide(x.m) => x.target # "*" /\ ~x.force /\ x.operforce = scene.operforce
          /\ scene.prompt => x.lifetime = 0 \/ x.lifetime >= t + x.expire}

\* What is on the way in one direction of a link: only its first message may open it.
Hello == [cmd |-> "SERVER"]
Greets(q) == q # <<>> /\ Head(q) = Hello
Stream(t) == {q \in Seq(Messages) : \A i \in 1 .. Len(q) : q[i] \in Mail(t) \/ (i = 1 /\ q[i] = Hello)}

\* A server at work.
Worker == [s : Servers, gl : [Masks -> Record(now)], lo : [Masks -> Times], us : SUBSET Masks,
           burst : [Servers -> {"none", "burst", "ack"}], up : [Servers -> BOOLEAN],
           out : [Servers -> Stream(now)]]

Narrow(w) == \A m \in Masks : Wide(m) => w.gl[m] = NoBan /\ w.lo[m] = 0

\* None of its users is matched by a ban in force.
Clean(w) ==
  scene.kind # "shun" => \A m \in w.us :
    Text[m].form # "channel" => ~GlineIsActive(w.gl[m]) /\ ~(w.lo[m] > now)

\* It has no link to itself.
NoLoop(w) == ~w.up[w.s] /\ w.out[w.s] = <<>>

Sound(w) == w \in Worker /\ Narrow(w) /\ Clean(w) /\ NoLoop(w)

-----------------------------------------------------------------------------
\* Helpers

\* The larger of two times, as gline_modify takes it.
LEMMA MaxOfTwo ==
  ASSUME NEW a \in Int, NEW b \in Int
  PROVE  Max({a, b}) \in {a, b} /\ Max({a, b}) >= a /\ Max({a, b}) >= b
<1>1. \E x \in {a, b} : \A y \in {a, b} : x >= y
  OBVIOUS
<1> QED
  BY <1>1 DEF Max

\* The largest of three times.
LEMMA MaxOfThree ==
  ASSUME NEW a \in Int, NEW b \in Int, NEW c \in Int
  PROVE  /\ Max({a, b, c}) \in {a, b, c}
         /\ Max({a, b, c}) >= a /\ Max({a, b, c}) >= b /\ Max({a, b, c}) >= c
<1>1. \E x \in {a, b, c} : \A y \in {a, b, c} : x >= y
  OBVIOUS
<1> QED
  BY <1>1 DEF Max

\* The constants, and the scene, are what they are assumed to be.
Setting == scene \in Scene /\ now \in 2 .. MaxTime

\* The three kinds of bans are one machine: only masks and victims differ.
LEMMA OneMachine ==
  ASSUME Setting
  PROVE  /\ \A g, t : Iter(g, t) = gliter(g, t)
         /\ \A w, x, e, cptr : Modify(w, x, e, cptr) = gline_modify(w, x, e, cptr)
         /\ \A w, m : Destroy(w, m) = gline_destroy(w, m)
         /\ \A w : Burst(w) = gline_burst(w)
<1>1. scene.kind \in {"gline", "zline", "shun"}
  BY DEF Setting, Scene
<1>2. \A g, t : Iter(g, t) = gliter(g, t)
  BY <1>1 DEF Iter, zliter, shiter
<1>3. \A w, x, e, cptr : Modify(w, x, e, cptr) = gline_modify(w, x, e, cptr)
  BY <1>1 DEF Modify, zline_modify, shun_modify
<1>4. \A w, m : Destroy(w, m) = gline_destroy(w, m)
  BY <1>1 DEF Destroy, zline_destroy, shun_destroy
<1>5. \A w : Burst(w) = gline_burst(w)
  BY <1>1 DEF Burst, zline_burst, shun_burst
<1> QED
  BY <1>2, <1>3, <1>4, <1>5

\* No record is NoBan.
LEMMA NoBanIsNone == NoBan \notin Gline
<1>1. Gline \subseteq [expire : Nat, lastmod : Nat, lifetime : Nat, active : BOOLEAN,
                       state : {"global", "activated", "deactivated"}, reason : Reasons]
  BY BansConstants DEF Gline, Times
<1> QED
  BY <1>1, BansConstants

\* The clock is a number.
LEMMA NowIsNat == Setting => now \in Nat /\ now >= 2 /\ now <= MaxTime
BY BansConstants DEF Setting

\* So are the bounds on times.
LEMMA Bounds == MAX_EXPIRE \in Nat /\ MAX_EXPIRE > 0 /\ MaxTime \in Nat
BY BansConstants

\* The fields of a record.
LEMMA GlineFields ==
  ASSUME NEW g \in Gline
  PROVE  /\ g.expire \in Nat /\ g.lifetime \in Nat /\ g.lastmod \in Nat
         /\ g.expire \in Times /\ g.lifetime \in Times /\ g.lastmod \in Times
         /\ g.reason \in Reasons /\ g.active \in BOOLEAN
         /\ g.state \in {"global", "activated", "deactivated"}
BY Bounds DEF Gline, Times

\* gliter keeps a record, without its activity if it has expired, or frees it.
LEMMA IterRecord ==
  ASSUME NEW t \in Nat, NEW u \in Nat, u <= t, NEW g \in Record(u)
  PROVE  /\ gliter(g, t) \in Record(t)
         /\ GlineIsActive(gliter(g, t)) => GlineIsActive(g)
         /\ RecordGrows(g, gliter(g, t))
         /\ LocalStateKept(g, gliter(g, t), t)
         /\ g = NoBan => gliter(g, t) = NoBan
<1>1. CASE g = NoBan
  BY <1>1 DEF gliter, Record, RecordGrows, LocalStateKept
<1>2. CASE g # NoBan
  <2>1. g \in Gline /\ g.expire <= t + MAX_EXPIRE
    BY <1>2, BansConstants DEF Record, Gline, Times
  <2> DEFINE h == [g EXCEPT !.active = FALSE, !.state = "global"]
  <2>2. /\ h \in Gline /\ h.expire = g.expire /\ h.lifetime = g.lifetime
        /\ h.lastmod = g.lastmod /\ h.active = FALSE /\ h.state = "global"
    BY <2>1, Zenon DEF Gline
  <2>3. \/ gliter(g, t) = NoBan
        \/ gliter(g, t) = g /\ ~(g.lifetime <= t)
        \/ gliter(g, t) = h /\ g.expire <= t /\ ~(g.lifetime <= t)
    BY <1>2 DEF gliter
  <2> HIDE DEF h
  <2>4. g.lastmod \in Int /\ g.lifetime \in Int
    BY <2>1 DEF Gline, Times
  <2>5. ~(g.lifetime <= t) => g \in Record(t) /\ h \in Record(t)
    BY <1>2, <2>1, <2>2, <2>4 DEF Record
  <2>6. ~GlineIsActive(h)
    BY <2>2 DEF GlineIsActive
  <2> QED
    BY <1>2, <2>2, <2>3, <2>4, <2>5, <2>6 DEF Record, RecordGrows, LocalStateKept, GlineIsActive
<1> QED
  BY <1>1, <1>2

\* The users of the server that a ban in force matches have gone.
Purged(w, m) ==
  scene.kind # "shun" /\ Text[m].form # "channel" /\ m \in w.us =>
    ~GlineIsActive(w.gl[m]) /\ ~(w.lo[m] > now)

\* do_gline makes the users that a ban matches leave.
LEMMA DoPurges ==
  ASSUME Setting, NEW w \in Worker, NEW m \in Masks
  PROVE  /\ Do(w, m) \in Worker
         /\ Do(w, m).s = w.s /\ Do(w, m).gl = w.gl /\ Do(w, m).lo = w.lo
         /\ Do(w, m).up = w.up /\ Do(w, m).out = w.out
         /\ Do(w, m).us \subseteq w.us
         /\ Purged(Do(w, m), m)
<1>1. scene.kind \in {"gline", "zline", "shun"}
  BY DEF Setting, Scene
<1> DEFINE v == [w EXCEPT !.us = @ \ {m}]
<1>2. /\ v \in Worker /\ v.s = w.s /\ v.gl = w.gl /\ v.lo = w.lo /\ v.up = w.up
      /\ v.out = w.out /\ v.us = w.us \ {m}
  BY DEF Worker
<1>3. Do(w, m) \in {w, v}
  BY <1>1 DEF Do, do_gline, do_zline, do_shun
<1>4. Do(w, m) = w => Purged(w, m)
  BY <1>1, <1>2, Zenon DEF Do, do_gline, do_zline, do_shun, Purged, gline_lookup, zline_lookup
<1> HIDE DEF v
<1> QED
  BY <1>2, <1>3, <1>4 DEF Purged
-----------------------------------------------------------------------------
\* Streams.
LEMMA StreamAppend ==
  ASSUME NEW t, NEW q \in Stream(t), NEW x \in Mail(t)
  PROVE  Append(q, x) \in Stream(t) /\ (Greets(Append(q, x)) => Greets(q))
<1>1. q \in Seq(Messages) /\ x \in Messages /\ x.cmd # "SERVER" /\ x # Hello
  BY DEF Stream, Mail, Hello
<1>2. Append(q, x) \in Seq(Messages) /\ Len(Append(q, x)) = Len(q) + 1 /\ Len(q) \in Nat
  BY <1>1
<1>3. \A i \in 1 .. Len(q) + 1 : Append(q, x)[i] = IF i = Len(q) + 1 THEN x ELSE q[i]
  BY <1>1
<1>4. Append(q, x) \in Stream(t)
  <2> SUFFICES ASSUME NEW i \in 1 .. Len(Append(q, x))
               PROVE  \/ Append(q, x)[i] \in Mail(t)
                      \/ i = 1 /\ Append(q, x)[i] = Hello
    BY <1>2, Zenon DEF Stream
  <2>1. CASE i = Len(q) + 1
    BY <1>2, <1>3, <2>1
  <2>2. CASE i # Len(q) + 1
    <3>1. i \in 1 .. Len(q) /\ Append(q, x)[i] = q[i]
      BY <1>2, <1>3, <2>2
    <3> QED
      BY <3>1 DEF Stream
  <2> QED
    BY <2>1, <2>2
<1>5. q = <<>> => Head(Append(q, x)) = x
  BY <1>1
<1>6. q # <<>> => Head(Append(q, x)) = Head(q)
  BY <1>1
<1> QED
  BY <1>1, <1>4, <1>5, <1>6 DEF Greets

\* What is left after a message was read is a stream.
LEMMA StreamHead ==
  ASSUME NEW t, NEW q \in Stream(t), q # <<>>
  PROVE  /\ Head(q) \in Mail(t) \/ Head(q) = Hello
         /\ Tail(q) \in Stream(t) /\ ~Greets(Tail(q))
<1>1. q \in Seq(Messages) /\ Len(q) \in Nat /\ Len(q) > 0 /\ Head(q) = q[1]
  BY DEF Stream
<1>2. Tail(q) \in Seq(Messages) /\ Len(Tail(q)) = Len(q) - 1
  BY <1>1
<1>3. \A i \in 1 .. Len(q) - 1 : Tail(q)[i] = q[i + 1]
  BY <1>1
<1>4. \A i \in 1 .. Len(q) - 1 : Tail(q)[i] \in Mail(t)
  BY <1>1, <1>3 DEF Stream
<1>5. Tail(q) \in Stream(t)
  BY <1>2, <1>4, Zenon DEF Stream
<1>6. Tail(q) # <<>> => Head(Tail(q)) \in Mail(t)
  BY <1>2, <1>4
<1>7. Hello \notin Mail(t)
  BY DEF Hello, Mail
<1> QED
  BY <1>1, <1>5, <1>6, <1>7 DEF Greets, Stream

\* What server_estab puts on a new link is a stream.
LEMMA StreamNew ==
  ASSUME NEW t, NEW q \in Seq(Mail(t)), NEW x \in Mail(t)
  PROVE  <<>> \in Stream(t) /\ <<Hello>> \o q \o <<x>> \in Stream(t) /\ <<>> \o q \o <<x>> \in Stream(t)
         /\ ~Greets(<<>> \o q \o <<x>>)
<1>1. Hello \in Messages /\ Hello \notin Mail(t)
  BY DEF Hello, Mail, Messages
<1>2. Mail(t) \subseteq Messages
  BY DEF Mail
<1>3. <<>> \in Stream(t)
  BY DEF Stream
<1> DEFINE a == <<>> \o q \o <<x>>
           b == <<Hello>> \o q \o <<x>>
<1>4. a \in Seq(Mail(t)) /\ Len(a) \in Nat /\ Len(a) > 0
  OBVIOUS
<1>5. b = <<Hello>> \o a
  OBVIOUS
<1> HIDE DEF a, b
<1>6. a \in Seq(Messages)
  BY <1>2, <1>4
<1>7. a \in Stream(t)
  BY <1>4, <1>6 DEF Stream
<1>8. b \in Seq(Messages) /\ Len(b) = 1 + Len(a)
  BY <1>1, <1>5, <1>6
<1>9. \A i \in 1 .. Len(b) : b[i] = IF i = 1 THEN Hello ELSE a[i - 1]
  BY <1>1, <1>5, <1>6, <1>8
<1>10. b \in Stream(t)
  BY <1>4, <1>8, <1>9 DEF Stream
<1>11. ~Greets(a)
  BY <1>1, <1>4 DEF Greets
<1> QED
  BY <1>3, <1>7, <1>10, <1>11 DEF a, b

\* No link is opened by what a server at work does, nor is one greeted.
Calm(w, v) ==
  \A n \in Servers : (v.up[n] => w.up[n]) /\ (Greets(v.out[n]) => Greets(w.out[n]))

\* What is sent goes to neighbours only and leaves the rest alone.
LEMMA SendKeeps ==
  ASSUME NEW w, Sound(w), NEW to, NEW x \in Mail(now)
  PROVE  LET v == Send(w, to, x)
         IN  Sound(v) /\ v.s = w.s /\ v.gl = w.gl /\ v.lo = w.lo /\ Calm(w, v)
<1> DEFINE out == [n \in Servers |-> IF n \in to /\ w.up[n] THEN Append(w.out[n], x) ELSE w.out[n]]
           v == [w EXCEPT !.out = out]
<1>1. w \in Worker
  BY DEF Sound
<1>2. /\ out \in [Servers -> Stream(now)] /\ out[w.s] = <<>>
      /\ \A n \in Servers : Greets(out[n]) => Greets(w.out[n])
  <2>1. /\ w.s \in Servers /\ w.out \in [Servers -> Stream(now)]
        /\ ~w.up[w.s] /\ w.out[w.s] = <<>>
    BY <1>1 DEF Sound, Worker, NoLoop
  <2>3. \A n \in Servers : out[n] \in Stream(now) /\ (Greets(out[n]) => Greets(w.out[n]))
    <3> TAKE n \in Servers
    <3>1. out[n] = Append(w.out[n], x) \/ out[n] = w.out[n]
      OBVIOUS
    <3> HIDE DEF out
    <3>2. w.out[n] \in Stream(now)
      BY <2>1
    <3>3. /\ Append(w.out[n], x) \in Stream(now)
          /\ Greets(Append(w.out[n], x)) => Greets(w.out[n])
      BY <3>2, StreamAppend
    <3> QED
      BY <3>1, <3>2, <3>3, Zenon
  <2>4. out[w.s] = <<>>
    BY <2>1
  <2> QED
    BY <2>3, <2>4
<1>3. Send(w, to, x) = v
  BY <1>1 DEF Send, Worker
<1> HIDE DEF out
<1>4. /\ v \in Worker /\ v.s = w.s /\ v.gl = w.gl /\ v.lo = w.lo /\ v.up = w.up
      /\ v.out = out /\ v.us = w.us
  BY <1>1, <1>2 DEF Worker
<1> HIDE DEF v
<1>5. Sound(v)
  BY <1>2, <1>4 DEF Sound, Narrow, Clean, NoLoop
<1> QED
  BY <1>2, <1>3, <1>4, <1>5 DEF Calm

\* The record of m as it is now, and its users.
LEMMA RecordSet ==
  ASSUME Setting, NEW w, Sound(w), NEW m \in Masks, NEW g \in Record(now), ~Wide(m)
  PROVE  LET v == Settle(Do([w EXCEPT !.gl[m] = g], m), m)
         IN  Sound(v) /\ v.s = w.s /\ v.gl = [w.gl EXCEPT ![m] = gliter(g, now)] /\ Calm(w, v)
<1> DEFINE a == [w EXCEPT !.gl[m] = g]
           b == Do(a, m)
<1>1. w \in Worker
  BY DEF Sound
<1>2. /\ a \in Worker /\ a.s = w.s /\ a.gl = [w.gl EXCEPT ![m] = g] /\ a.lo = w.lo
      /\ a.up = w.up /\ a.out = w.out /\ a.us = w.us
  BY <1>1 DEF Worker
<1> HIDE DEF a
<1>3. /\ b \in Worker /\ b.s = a.s /\ b.gl = a.gl /\ b.lo = a.lo
      /\ b.up = a.up /\ b.out = a.out /\ b.us \subseteq a.us /\ Purged(b, m)
  BY <1>2, DoPurges
<1> HIDE DEF b
<1>4. b.gl[m] = g /\ w.gl \in [Masks -> Record(now)]
  BY <1>1, <1>2, <1>3 DEF Worker
<1>5. /\ gliter(g, now) \in Record(now)
      /\ GlineIsActive(gliter(g, now)) => GlineIsActive(g)
  BY IterRecord DEF Setting
<1> DEFINE h == gliter(g, now)
           v == [b EXCEPT !.gl[m] = h]
<1> HIDE DEF h
<1>6. /\ v \in Worker /\ v.s = b.s /\ v.gl = [b.gl EXCEPT ![m] = h]
      /\ v.lo = b.lo /\ v.up = b.up /\ v.out = b.out /\ v.us = b.us
  BY <1>3, <1>5 DEF Worker, h
<1>7. Settle(b, m) = v
  BY <1>3, <1>4, OneMachine DEF Settle, h
<1>10. v.gl = [w.gl EXCEPT ![m] = h]
  BY <1>2, <1>3, <1>4, <1>6
<1> HIDE DEF v
<1>8. Narrow(v) /\ NoLoop(v)
  BY <1>1, <1>2, <1>3, <1>4, <1>6, <1>10 DEF Sound, Narrow, NoLoop
<1>9. Clean(v)
  <2> SUFFICES ASSUME scene.kind # "shun", NEW k \in v.us, Text[k].form # "channel"
               PROVE  ~GlineIsActive(v.gl[k]) /\ ~(v.lo[k] > now)
    BY DEF Clean
  <2>1. k \in Masks /\ k \in w.us /\ k \in b.us
    BY <1>1, <1>2, <1>3, <1>6 DEF Worker
  <2>2. v.lo[k] = b.lo[k] /\ v.lo[k] = w.lo[k]
    BY <1>2, <1>3, <1>6
  <2>3. CASE k = m
    <3>1. v.gl[k] = h
      BY <1>4, <1>10, <2>3
    <3> QED
      BY <1>3, <1>4, <1>5, <2>1, <2>2, <2>3, <3>1, Zenon DEF Purged, h
  <2>4. CASE k # m
    <3>1. v.gl[k] = w.gl[k]
      BY <1>4, <1>10, <2>1, <2>4
    <3> QED
      BY <2>1, <2>2, <3>1 DEF Sound, Clean
  <2> QED
    BY <2>3, <2>4
<1> QED
  BY <1>2, <1>3, <1>6, <1>7, <1>10, <1>8, <1>9 DEF Sound, Calm, a, b, h

\* What is told of a record.
Actions == {"+", "-", "modify"}

\* What gline_propagate and gline_resend say of a record is a message.
LEMMA ToldIsMail ==
  ASSUME Setting, NEW g \in Record(now), g # NoBan, NEW m \in Masks, ~Wide(m),
         NEW action \in Actions, NEW force \in BOOLEAN
  PROVE  GLINE(g, m, action, force) \in Mail(now)
<1> DEFINE x == GLINE(g, m, action, force)
<1>1. /\ g \in Gline /\ g.expire <= now + MAX_EXPIRE
      /\ scene.prompt => g.lifetime >= g.expire /\ g.lifetime >= now - 1
  BY DEF Record
<1>2. g.expire \in Nat /\ g.lifetime \in Nat /\ now \in Nat /\ MAX_EXPIRE \in Nat
  BY <1>1, Bounds, GlineFields, NowIsNat
<1>3. /\ Relative(g.expire) \in -1 .. MAX_EXPIRE
      /\ scene.prompt => g.lifetime >= now + Relative(g.expire)
  BY <1>1, <1>2 DEF Relative
<1>4. x \in [cmd : {"GLINE"}, target : Servers \cup {"*"}, action : {"+", "-", "modify", ">", "<"}, m : Masks,
             expire : -1 .. MAX_EXPIRE + 1, lastmod : Times, lifetime : Times, reason : Reasons,
             force : BOOLEAN, operforce : BOOLEAN]
  <2>1. Relative(g.expire) \in -1 .. MAX_EXPIRE + 1
    BY <1>2, <1>3
  <2>2. g.lastmod \in Times /\ g.lifetime \in Times /\ g.reason \in Reasons
    BY <1>1, GlineFields
  <2> QED
    BY <2>1, <2>2 DEF GLINE, Actions
<1>5. /\ x.m = m /\ x.action = action /\ x.expire = Relative(g.expire)
      /\ x.lifetime = g.lifetime /\ x.target = "*" /\ x.cmd # "SERVER"
  BY DEF GLINE
<1> HIDE DEF x
<1>6. x \in Messages
  BY <1>4 DEF Messages
<1>7. x.action \notin {">", "<"}
  BY <1>5, Zenon DEF Actions
<1>8. ~Wide(x.m) /\ (scene.prompt => x.lifetime = 0 \/ x.lifetime >= now + x.expire)
      /\ x.expire <= MAX_EXPIRE
  BY <1>2, <1>3, <1>5
<1>9. x \in Mail(now)
  BY <1>5, <1>6, <1>7, <1>8 DEF Mail
<1> QED
  BY <1>9 DEF x

\* So is the whole record, as bursts tell it.
LEMMA WholeIsMail ==
  ASSUME Setting, NEW g \in Record(now), g # NoBan, NEW m \in Masks, ~Wide(m), NEW force \in BOOLEAN
  PROVE  Whole(g, m, force) \in Mail(now)
<1>1. (IF g.active THEN "+" ELSE "-") \in Actions
  BY DEF Actions
<1> QED
  BY <1>1, ToldIsMail DEF Whole

-----------------------------------------------------------------------------
\* A step of a server at work: what it becomes is sound, and no record goes back.
Follows(w, v) ==
  /\ v.s = w.s /\ Calm(w, v)
  /\ \A m \in Masks : RecordGrows(w.gl[m], v.gl[m]) /\ LocalStateKept(w.gl[m], v.gl[m], now)

Good(w, v) == Sound(v) /\ Follows(w, v)

\* A record grows into itself.
LEMMA SameRecord ==
  ASSUME NEW g \in Record(now)
  PROVE  RecordGrows(g, g) /\ LocalStateKept(g, g, now)
<1>1. g # NoBan => g.lastmod \in Nat /\ g.lifetime \in Nat
  BY GlineFields DEF Record
<1> QED
  BY <1>1 DEF RecordGrows, LocalStateKept

\* A change that leaves the records alone lets none go back.
LEMMA SameGood ==
  ASSUME NEW w, Sound(w), NEW v, Sound(v), v.s = w.s, v.gl = w.gl, Calm(w, v)
  PROVE  Good(w, v)
<1>1. w.gl \in [Masks -> Record(now)]
  BY DEF Sound, Worker
<1> QED
  BY <1>1, SameRecord DEF Good, Follows

\* Steps one after the other, the first of which leaves the records alone.
LEMMA ThenGood ==
  ASSUME NEW w, NEW v, v.s = w.s, v.gl = w.gl, Calm(w, v), NEW r, Good(v, r)
  PROVE  Good(w, r)
<1>1. Calm(w, r)
  BY DEF Good, Follows, Calm
<1> QED
  BY <1>1 DEF Good, Follows

\* A command that does nothing is good.
LEMMA IdleGood ==
  ASSUME NEW w, Sound(w)
  PROVE  Good(w, w)
<1>1. Calm(w, w)
  BY DEF Calm
<1> QED
  BY <1>1, SameGood

\* So is one that only sends.
LEMMA SendGood ==
  ASSUME NEW w, Sound(w), NEW to, NEW x \in Mail(now)
  PROVE  Good(w, Send(w, to, x))
BY SendKeeps, SameGood

\* A record that grows still does after gliter looked at it.
LEMMA GrowsThrough ==
  ASSUME Setting, NEW g \in Record(now), NEW h \in Record(now),
         RecordGrows(g, h), LocalStateKept(g, h, now)
  PROVE  RecordGrows(g, gliter(h, now)) /\ LocalStateKept(g, gliter(h, now), now)
<1>1. CASE g = NoBan
  BY <1>1 DEF RecordGrows, LocalStateKept
<1>2. CASE h = NoBan
  BY <1>2 DEF RecordGrows, LocalStateKept, gliter
<1>3. CASE g # NoBan /\ h # NoBan
  <2>1. g \in Gline /\ h \in Gline
    BY <1>3 DEF Record
  <2> DEFINE k == [h EXCEPT !.active = FALSE, !.state = "global"]
  <2>2. k.expire = h.expire /\ k.lifetime = h.lifetime /\ k.lastmod = h.lastmod
    BY <2>1 DEF Gline
  <2>3. \/ gliter(h, now) \in {NoBan, h}
        \/ gliter(h, now) = k /\ h.expire <= now
    BY <1>3 DEF gliter
  <2> HIDE DEF k
  <2> QED
    BY <1>3, <2>2, <2>3 DEF RecordGrows, LocalStateKept
<1> QED
  BY <1>1, <1>2, <1>3

\* The record of a mask is made or changed.
LEMMA SetGood ==
  ASSUME Setting, NEW w, Sound(w), NEW m \in Masks, NEW g \in Record(now), ~Wide(m),
         RecordGrows(w.gl[m], g), LocalStateKept(w.gl[m], g, now)
  PROVE  Good(w, Settle(Do([w EXCEPT !.gl[m] = g], m), m))
<1> DEFINE v == Settle(Do([w EXCEPT !.gl[m] = g], m), m)
<1>1. Sound(v) /\ v.s = w.s /\ v.gl = [w.gl EXCEPT ![m] = gliter(g, now)] /\ Calm(w, v)
  BY RecordSet
<1> HIDE DEF v
<1>2. w.gl \in [Masks -> Record(now)]
  BY DEF Sound, Worker
<1>3. \A k \in Masks : RecordGrows(w.gl[k], v.gl[k]) /\ LocalStateKept(w.gl[k], v.gl[k], now)
  <2> TAKE k \in Masks
  <2>1. CASE k = m
    <3>1. v.gl[k] = gliter(g, now) /\ w.gl[m] \in Record(now)
      BY <1>1, <1>2, <2>1
    <3> QED
      BY <2>1, <3>1, GrowsThrough
  <2>2. CASE k # m
    <3>1. v.gl[k] = w.gl[k] /\ w.gl[k] \in Record(now)
      BY <1>1, <1>2, <2>2
    <3> QED
      BY <3>1, SameRecord
  <2> QED
    BY <2>1, <2>2
<1> QED
  BY <1>1, <1>3 DEF Good, Follows, v

-----------------------------------------------------------------------------
\* A GLINE as it is handled: from an operator of the server, or from a link.
Order(w, x, e, cptr) ==
  /\ x \in Messages /\ x.cmd = "GLINE"
  /\ e \in Nat /\ e <= now + MAX_EXPIRE + 1
  /\ e # 0 => e >= now - 1
  /\ x.force => e <= now + MAX_EXPIRE
  /\ x.action \in {">", "<"} => x.lifetime = 0
  /\ Wide(x.m) => /\ ~x.force /\ x.operforce = scene.operforce
                  /\ cptr = w.s \/ x.target # "*"
  /\ scene.prompt => x.lifetime = 0 \/ x.lifetime >= e
  /\ x.target # "*" => x \in Mail(now)

\* The fields of a GLINE.
LEMMA MessageFields ==
  ASSUME NEW x \in Messages, x.cmd = "GLINE"
  PROVE  /\ x \in [cmd : {"GLINE"}, target : Servers \cup {"*"},
                    action : {"+", "-", "modify", ">", "<"}, m : Masks,
                    expire : -1 .. MAX_EXPIRE + 1, lastmod : Times, lifetime : Times,
                    reason : Reasons, force : BOOLEAN, operforce : BOOLEAN]
         /\ x.target \in Servers \cup {"*"} /\ x.action \in {"+", "-", "modify", ">", "<"}
         /\ x.m \in Masks /\ x.expire \in -1 .. MAX_EXPIRE + 1
         /\ x.lastmod \in Times /\ x.lifetime \in Times /\ x.reason \in Reasons
         /\ x.force \in BOOLEAN /\ x.operforce \in BOOLEAN
BY DEF Messages

\* A ban that is too wide is refused, of whatever kind.
LEMMA WideRefused ==
  ASSUME Setting, NEW w, NEW x, NEW e, NEW cptr, NEW local, Wide(x.m),
         x.operforce = scene.operforce, Restricted(w, x, cptr, local)
  PROVE  Add(w, x, e, cptr, local) = w
<1>1. scene.kind \in {"gline", "zline", "shun"}
  BY DEF Setting, Scene
<1>2. \A count : TooWide(x, gline_checkmask(Text[x.m]), count)
  BY DEF Wide, TooWide
<1>3. /\ gline_refused(w, x, cptr, local)
      /\ zline_refused(w, x, cptr, local)
      /\ shun_refused(w, x, cptr, local)
  BY <1>2 DEF Wide, gline_refused, zline_refused, shun_refused, zline_checkmask, shun_checkmask
<1> QED
  BY <1>1, <1>3 DEF Add, gline_add, zline_add, shun_add

\* Sending does not look at the records.
With(w, m, g) == [w EXCEPT !.gl[m] = g]

\* Sending before or after a record is set is the same.
LEMMA SendCommutes ==
  ASSUME NEW w \in Worker, NEW m \in Masks, NEW g, NEW to, NEW x
  PROVE  Send(With(w, m, g), to, x) = With(Send(w, to, x), m, g)
<1> DEFINE out == [n \in Servers |-> IF n \in to /\ w.up[n] THEN Append(w.out[n], x) ELSE w.out[n]]
           a == [w EXCEPT !.gl[m] = g]
<1>1. Send(w, to, x) = [w EXCEPT !.out = out]
  BY DEF Send, Worker
<1>2. a.up = w.up /\ a.out = w.out
  BY DEF Worker
<1>3. Send(a, to, x) = [a EXCEPT !.out = [n \in Servers |->
                          IF n \in to /\ a.up[n] THEN Append(a.out[n], x) ELSE a.out[n]]]
  BY DEF Send, Worker
<1>4. Send(a, to, x) = [a EXCEPT !.out = out]
  BY <1>2, <1>3
<1> HIDE DEF out
<1>5. [[w EXCEPT !.gl[m] = g] EXCEPT !.out = out] = [[w EXCEPT !.out = out] EXCEPT !.gl[m] = g]
  BY Zenon DEF Worker
<1> QED
  BY <1>1, <1>4, <1>5 DEF With

\* A local ban is made.
LEMMA LocalSet ==
  ASSUME Setting, NEW w, Sound(w), NEW m \in Masks, NEW e \in Times, ~Wide(m)
  PROVE  Good(w, Do([w EXCEPT !.lo[m] = e], m))
<1> DEFINE a == [w EXCEPT !.lo[m] = e]
           b == Do(a, m)
<1>1. w \in Worker
  BY DEF Sound
<1>2. /\ a \in Worker /\ a.s = w.s /\ a.lo = [w.lo EXCEPT ![m] = e] /\ a.gl = w.gl
      /\ a.up = w.up /\ a.out = w.out /\ a.us = w.us
  BY <1>1 DEF Worker
<1> HIDE DEF a
<1>3. /\ b \in Worker /\ b.s = a.s /\ b.gl = a.gl /\ b.lo = a.lo
      /\ b.up = a.up /\ b.out = a.out /\ b.us \subseteq a.us /\ Purged(b, m)
  BY <1>2, DoPurges
<1> HIDE DEF b
<1>4. w.lo \in [Masks -> Times] /\ w.us \subseteq Masks
  BY <1>1 DEF Worker
<1>5. \A k \in Masks : k # m => b.lo[k] = w.lo[k]
  BY <1>2, <1>3, <1>4
<1>6. Narrow(b) /\ NoLoop(b)
  BY <1>2, <1>3, <1>5 DEF Sound, Narrow, NoLoop
<1>7. Clean(b)
  <2> SUFFICES ASSUME scene.kind # "shun", NEW k \in b.us, Text[k].form # "channel"
               PROVE  ~GlineIsActive(b.gl[k]) /\ ~(b.lo[k] > now)
    BY DEF Clean
  <2>1. k \in Masks /\ k \in w.us
    BY <1>2, <1>3, <1>4
  <2>2. CASE k = m
    BY <1>3, <2>2 DEF Purged
  <2>3. CASE k # m
    BY <1>2, <1>3, <1>5, <2>1, <2>3 DEF Sound, Clean
  <2> QED
    BY <2>2, <2>3
<1>8. Sound(b) /\ b.s = w.s /\ b.gl = w.gl /\ Calm(w, b)
  BY <1>2, <1>3, <1>6, <1>7 DEF Sound, Calm
<1> QED
  BY <1>8, SameGood DEF a, b

\* A ban is made that was not refused.
LEMMA MakeGood ==
  ASSUME Setting, NEW w, Sound(w), NEW x, NEW e, NEW cptr, Order(w, x, e, cptr), e # 0,
         ~BadExpire(e, x.force), ~Wide(x.m), NEW local \in BOOLEAN,
         ~local => w.gl[x.m] = NoBan
  PROVE  Good(w, make_gline(w, x, e, cptr, local))
<1> DEFINE g == [expire |-> e, lastmod |-> x.lastmod,
                 lifetime |-> IF x.lifetime = 0 THEN e ELSE x.lifetime,
                 active |-> x.action = "+" /\ e > now, state |-> "global", reason |-> x.reason]
           y == Whole(g, x.m, x.force)
           v == sendcmdto_serv_butone(w, y, cptr)
<1>1. /\ x.m \in Masks /\ x.lastmod \in Times /\ x.lifetime \in Times /\ x.reason \in Reasons
      /\ x.force \in BOOLEAN
  BY MessageFields DEF Order
<1>2. /\ e \in Nat /\ e >= now - 1 /\ e <= now + MAX_EXPIRE /\ e \in Times
      /\ scene.prompt => x.lifetime = 0 \/ x.lifetime >= e
  <2>1. /\ e \in Nat /\ e >= now - 1 /\ (x.force => e <= now + MAX_EXPIRE)
        /\ scene.prompt => x.lifetime = 0 \/ x.lifetime >= e
    BY DEF Order
  <2>2. e <= now + MAX_EXPIRE
    BY <1>1, <2>1, NowIsNat, Bounds DEF BadExpire
  <2> QED
    BY <2>1, <2>2, NowIsNat, Bounds DEF Times
<1>3. w \in Worker
  BY DEF Sound
<1>4. CASE local
  <2>1. make_gline(w, x, e, cptr, local) = Do([w EXCEPT !.lo[x.m] = e], x.m)
    BY <1>4 DEF make_gline
  <2> QED
    BY <1>1, <1>2, <2>1, LocalSet
<1>5. CASE ~local
  <2>1. make_gline(w, x, e, cptr, local) =
          Settle(Do(sendcmdto_serv_butone([w EXCEPT !.gl[x.m] = g], y, cptr), x.m), x.m)
    BY <1>5 DEF make_gline
  <2>2. /\ g.expire = e /\ g.lifetime = (IF x.lifetime = 0 THEN e ELSE x.lifetime)
        /\ g \in Gline
    BY <1>1, <1>2 DEF Gline
  <2> HIDE DEF g
  <2>3. g.lifetime \in Nat /\ x.lifetime \in Nat
    BY <1>1, <2>2, GlineFields, Bounds DEF Times
  <2>4. g \in Record(now) /\ g # NoBan
    BY <1>2, <2>2, <2>3, NowIsNat, NoBanIsNone DEF Record
  <2>5. y \in Mail(now)
    BY <1>1, <2>4, WholeIsMail
  <2> HIDE DEF y
  <2>6. Sound(v) /\ v.s = w.s /\ v.gl = w.gl /\ Calm(w, v)
    BY <2>5, SendKeeps DEF sendcmdto_serv_butone
  <2>7. sendcmdto_serv_butone([w EXCEPT !.gl[x.m] = g], y, cptr) = [v EXCEPT !.gl[x.m] = g]
    <3>1. sendcmdto_serv_butone(With(w, x.m, g), y, cptr) = With(v, x.m, g)
      BY <1>1, <1>3, SendCommutes DEF sendcmdto_serv_butone
    <3> QED
      BY <3>1 DEF With
  <2> HIDE DEF v
  <2>8. RecordGrows(v.gl[x.m], g) /\ LocalStateKept(v.gl[x.m], g, now)
    BY <1>5, <2>6 DEF RecordGrows, LocalStateKept
  <2>9. Good(v, Settle(Do([v EXCEPT !.gl[x.m] = g], x.m), x.m))
    BY <1>1, <2>4, <2>6, <2>8, SetGood
  <2> QED
    BY <2>1, <2>6, <2>7, <2>9, ThenGood
<1> QED
  BY <1>4, <1>5

\* A ban is asked for that is not there.
LEMMA AddGood ==
  ASSUME Setting, NEW w, Sound(w), NEW x, NEW e, NEW cptr, Order(w, x, e, cptr), e # 0,
         NEW local \in BOOLEAN, ~local => w.gl[x.m] = NoBan,
         Wide(x.m) => Restricted(w, x, cptr, local)
  PROVE  Good(w, Add(w, x, e, cptr, local))
<1>1. scene.kind \in {"gline", "zline", "shun"}
  BY DEF Setting, Scene
<1>2. CASE Wide(x.m)
  <2>1. Add(w, x, e, cptr, local) = w
    <3>1. x.operforce = scene.operforce
      BY <1>2 DEF Order
    <3> QED
      BY <1>2, <3>1, WideRefused
  <2> QED
    BY <2>1, IdleGood
<1>3. CASE ~Wide(x.m)
  <2>1. \/ Add(w, x, e, cptr, local) = w
        \/ /\ ~BadExpire(e, x.force)
           /\ Add(w, x, e, cptr, local) = make_gline(w, x, e, cptr, local)
    BY <1>1 DEF Add, gline_add, zline_add, shun_add, make_zline, make_shun
  <2> QED
    BY <1>3, <2>1, MakeGood, IdleGood
<1> QED
  BY <1>2, <1>3

\* What gline_modify makes of a record.
LEMMA ModifiedRecord ==
  ASSUME Setting, NEW g \in Record(now), g # NoBan, NEW x \in Messages, x.cmd = "GLINE",
         NEW expire \in Nat, expire <= now + MAX_EXPIRE, NEW action,
         action \in {x.action, "modify"},
         x.action \notin {">", "<"} => x.lastmod > g.lastmod,
         x.action \in {">", "<"} => action = x.action,
         action = "+" => ~g.active, action = "-" => g.active
  PROVE  /\ Modified(g, x, expire, action) \in Record(now)
         /\ Modified(g, x, expire, action) # NoBan
         /\ RecordGrows(g, Modified(g, x, expire, action))
         /\ LocalStateKept(g, Modified(g, x, expire, action), now)
<1> DEFINE h == Modified(g, x, expire, action)
           life == Max({g.lifetime, x.lifetime, expire})
<1>1. /\ g \in Gline /\ g.expire <= now + MAX_EXPIRE
      /\ scene.prompt => g.lifetime >= g.expire /\ g.lifetime >= now - 1
  BY DEF Record
<1>2. /\ x.lastmod \in Times /\ x.lifetime \in Times /\ x.reason \in Reasons
      /\ x.action \in {"+", "-", "modify", ">", "<"}
  BY MessageFields
<1>3. /\ g.lifetime \in Times /\ g.lastmod \in Times /\ g.expire \in Times
      /\ g.active \in BOOLEAN /\ g.state \in {"global", "activated", "deactivated"}
  BY <1>1, GlineFields
<1>4. /\ expire \in Times /\ now \in Nat /\ MAX_EXPIRE \in Nat
      /\ g.lifetime \in Nat /\ x.lifetime \in Nat /\ g.lastmod \in Nat /\ x.lastmod \in Nat
      /\ g.expire \in Nat
  BY <1>2, <1>3, NowIsNat, Bounds DEF Times
<1>5. /\ life \in {g.lifetime, x.lifetime, expire}
      /\ life >= g.lifetime /\ life >= expire
  <2>1. g.lifetime \in Int /\ x.lifetime \in Int /\ expire \in Int
    BY <1>4
  <2> QED
    BY <2>1, MaxOfThree, Zenon
<1> HIDE DEF life
<1>6. life \in Times /\ life \in Nat
  BY <1>2, <1>3, <1>4, <1>5
<1> DEFINE lastmod == IF action \in {">", "<"} THEN g.lastmod ELSE x.lastmod
           active == CASE action = "+" -> TRUE [] action = "-" -> FALSE [] OTHER -> g.active
           state == CASE action \in {"+", "-"} -> "global" [] action = ">" -> "activated"
                      [] action = "<" -> "deactivated" [] OTHER -> g.state
           exp == IF expire # 0 THEN expire ELSE g.expire
<1>7. h = [g EXCEPT !.lastmod = lastmod, !.active = active, !.state = state, !.expire = exp,
                    !.lifetime = life, !.reason = x.reason]
  BY DEF Modified, life
<1>8. lastmod \in Times /\ lastmod >= g.lastmod
  BY <1>2, <1>3, <1>4
<1>9. active \in BOOLEAN /\ state \in {"global", "activated", "deactivated"}
  BY <1>3, Zenon
<1>10. exp \in Times /\ exp <= now + MAX_EXPIRE /\ (scene.prompt => life >= exp /\ life >= now - 1)
  BY <1>1, <1>3, <1>4, <1>5, <1>6
<1>11. g.state # "global" /\ state = "global" => active # g.active
  BY <1>3, Zenon
<1> HIDE DEF lastmod, active, state, exp, h
<1>12. h \in Gline
  BY <1>1, <1>2, <1>6, <1>7, <1>8, <1>9, <1>10, Zenon DEF Gline
<1>13. /\ h.expire = exp /\ h.lifetime = life /\ h.lastmod = lastmod /\ h.active = active
       /\ h.state = state
  BY <1>1, <1>7 DEF Gline
<1>14. h \in Record(now) /\ h # NoBan
  BY <1>10, <1>12, <1>13, NoBanIsNone DEF Record
<1>15. RecordGrows(g, h) /\ LocalStateKept(g, h, now)
  BY <1>5, <1>8, <1>11, <1>13 DEF RecordGrows, LocalStateKept
<1> QED
  BY <1>14, <1>15 DEF h

\* A change of nothing.
LEMMA UnchangedRecord ==
  ASSUME NEW g \in Gline, NEW x \in Messages, x.cmd = "GLINE", x.lifetime = 0, x.reason = g.reason
  PROVE  Modified(g, x, 0, "modify") =
           [g EXCEPT !.lastmod = Modified(g, x, 0, "modify").lastmod]
<1> DEFINE life == Max({g.lifetime, x.lifetime, 0})
<1>1. g.lifetime \in Nat
  BY GlineFields
<1>2. life = g.lifetime
  <2>1. g.lifetime \in Int /\ x.lifetime \in Int /\ 0 \in Int
    BY <1>1
  <2>2. life \in {g.lifetime, x.lifetime, 0} /\ life >= g.lifetime
    BY <2>1, MaxOfThree, Zenon
  <2> HIDE DEF life
  <2> QED
    BY <1>1, <2>2
<1> HIDE DEF life
<1>3. Modified(g, x, 0, "modify") =
        [g EXCEPT !.lastmod = x.lastmod, !.active = g.active, !.state = g.state,
                  !.expire = g.expire, !.lifetime = life, !.reason = x.reason]
  BY DEF Modified, life, Gline
<1>4. Modified(g, x, 0, "modify") = [g EXCEPT !.lastmod = x.lastmod]
  BY <1>2, <1>3, Zenon DEF Gline
<1> QED
  BY <1>4 DEF Gline

\* What Activity lets through.
LEMMA ActivityOf ==
  ASSUME NEW g, NEW a, NEW expire
  PROVE  /\ Activity(g, a, expire) \in {a, "modify"}
         /\ Activity(g, a, expire) = "+" => ~g.active
         /\ Activity(g, a, expire) = "-" => g.active
BY DEF Activity

\* A record is changed, corrected or left alone.
LEMMA ModifyGood ==
  ASSUME Setting, NEW w, Sound(w), NEW x, NEW e, NEW cptr, Order(w, x, e, cptr),
         w.gl[x.m] # NoBan, x.action \in {">", "<"} => e = 0 /\ x.reason = w.gl[x.m].reason
  PROVE  Good(w, Modify(w, x, e, cptr))
<1> DEFINE g == w.gl[x.m]
           global == x.action \notin {">", "<"}
           expire == IF e = g.expire THEN 0 ELSE e
           action == Activity(g, x.action, expire)
           changed == Modified(g, x, expire, action)
           y == GLINE(changed, x.m, action, x.force)
           v == IF global THEN sendcmdto_serv_butone(w, y, cptr) ELSE w
           r == gline_modify(w, x, e, cptr)
<1>1. \/ r = w
      \/ r = sendcmdto_one(w, Whole(g, x.m, TRUE), cptr)
      \/ /\ ~(global /\ HaveNewer(g, x)) /\ ~(global /\ g.lastmod = x.lastmod)
         /\ ~(e # 0 /\ BadExpire(e, x.force))
         /\ ~(action = "modify" /\ changed = [g EXCEPT !.lastmod = changed.lastmod])
         /\ r = Settle(Do([v EXCEPT !.gl[x.m] = changed], x.m), x.m)
  BY Zenon DEF gline_modify
<1> HIDE DEF r
<1> SUFFICES Good(w, r)
  BY OneMachine DEF r
<1>2. /\ x \in Messages /\ x.cmd = "GLINE" /\ x.m \in Masks /\ x.force \in BOOLEAN
      /\ x.lastmod \in Times /\ x.action \in {"+", "-", "modify", ">", "<"}
  BY MessageFields DEF Order
<1>3. g \in Record(now) /\ g \in Gline /\ g # NoBan /\ ~Wide(x.m)
  BY <1>2 DEF Sound, Worker, Narrow, Record
<1>4. CASE r = w
  BY <1>4, IdleGood
<1>5. CASE r = sendcmdto_one(w, Whole(g, x.m, TRUE), cptr)
  <2>1. Whole(g, x.m, TRUE) \in Mail(now)
    BY <1>2, <1>3, WholeIsMail, Zenon
  <2> QED
    BY <1>5, <2>1, SendGood, Zenon DEF sendcmdto_one
<1>6. CASE /\ ~(global /\ HaveNewer(g, x)) /\ ~(global /\ g.lastmod = x.lastmod)
           /\ ~(e # 0 /\ BadExpire(e, x.force))
           /\ ~(action = "modify" /\ changed = [g EXCEPT !.lastmod = changed.lastmod])
           /\ r = Settle(Do([v EXCEPT !.gl[x.m] = changed], x.m), x.m)
  <2>0. /\ global => ~HaveNewer(g, x) /\ g.lastmod # x.lastmod
        /\ e # 0 => ~BadExpire(e, x.force)
    BY <1>6, Zenon
  <2>1. /\ action \in {x.action, "modify"} /\ (action = "+" => ~g.active)
        /\ action = "-" => g.active
    BY ActivityOf
  <2>2. global => x.lastmod > g.lastmod
    <3>1. x.lastmod \in Nat /\ g.lastmod \in Nat
      BY <1>2, <1>3, GlineFields, Bounds DEF Times
    <3> QED
      BY <2>0, <3>1 DEF HaveNewer
  <2>3. expire \in Nat /\ expire <= now + MAX_EXPIRE
    <3>1. e \in Nat /\ (x.force => e <= now + MAX_EXPIRE)
      BY DEF Order
    <3>2. e # 0 => e <= now + MAX_EXPIRE
      BY <1>2, <2>0, <3>1, NowIsNat, Bounds DEF BadExpire
    <3> QED
      BY <3>1, <3>2, NowIsNat, Bounds
  <2>4. ~global => action = x.action
    <3> SUFFICES ASSUME ~global, action = "modify" PROVE FALSE
      BY <2>1
    <3>1. expire = 0 /\ x.lifetime = 0 /\ x.reason = g.reason
      BY DEF Order
    <3>2. changed = Modified(g, x, 0, "modify")
      BY <3>1
    <3>3. x \in Messages /\ x.cmd = "GLINE" /\ g \in Gline
      BY <1>2, <1>3
    <3> HIDE DEF g
    <3>4. Modified(g, x, 0, "modify") = [g EXCEPT !.lastmod = Modified(g, x, 0, "modify").lastmod]
      BY <3>1, <3>3, UnchangedRecord
    <3> HIDE DEF action, changed
    <3> QED
      BY <1>6, <3>2, <3>4, Zenon
  <2> HIDE DEF g, expire, action
  <2>5. /\ changed \in Record(now) /\ changed # NoBan
        /\ RecordGrows(g, changed) /\ LocalStateKept(g, changed, now)
    BY <1>2, <1>3, <2>1, <2>2, <2>3, <2>4, ModifiedRecord
  <2> HIDE DEF changed
  <2>6. global => action \in Actions
    BY <1>2, <2>1 DEF Actions
  <2>7. global => y \in Mail(now)
    BY <1>2, <1>3, <2>5, <2>6, ToldIsMail
  <2> HIDE DEF y
  <2>8. Sound(v) /\ v.s = w.s /\ v.gl = w.gl /\ Calm(w, v)
    BY <2>7, SendKeeps DEF sendcmdto_serv_butone, Calm
  <2> HIDE DEF v
  <2>9. v.gl[x.m] = g
    BY <2>8 DEF g
  <2>10. Good(v, Settle(Do([v EXCEPT !.gl[x.m] = changed], x.m), x.m))
    BY <1>2, <1>3, <2>5, <2>8, <2>9, SetGood
  <2> QED
    BY <1>6, <2>8, <2>10, ThenGood
<1> QED
  BY <1>1, <1>4, <1>5, <1>6, Zenon

\* An order with another action, or another reason, is one still.
LEMMA OrderAction ==
  ASSUME NEW w, NEW x, NEW e, NEW cptr, Order(w, x, e, cptr), x.target = "*", NEW a \in Actions
  PROVE  LET y == [x EXCEPT !.action = a]
         IN  Order(w, y, e, cptr) /\ y.m = x.m /\ y.force = x.force /\ y.action = a
<1> DEFINE y == [x EXCEPT !.action = a]
<1>1. x \in [cmd : {"GLINE"}, target : Servers \cup {"*"},
             action : {"+", "-", "modify", ">", "<"}, m : Masks,
             expire : -1 .. MAX_EXPIRE + 1, lastmod : Times, lifetime : Times,
             reason : Reasons, force : BOOLEAN, operforce : BOOLEAN]
  BY MessageFields DEF Order
<1>2. /\ y \in [cmd : {"GLINE"}, target : Servers \cup {"*"},
                action : {"+", "-", "modify", ">", "<"}, m : Masks,
                expire : -1 .. MAX_EXPIRE + 1, lastmod : Times, lifetime : Times,
                reason : Reasons, force : BOOLEAN, operforce : BOOLEAN]
      /\ y.action = a /\ y.m = x.m /\ y.force = x.force /\ y.operforce = x.operforce
      /\ y.target = x.target /\ y.lifetime = x.lifetime /\ y.cmd = "GLINE"
  BY <1>1 DEF Actions
<1> HIDE DEF y
<1>3. y \in Messages
  BY <1>2 DEF Messages
<1>4. y.action \notin {">", "<"}
  BY <1>2 DEF Actions
<1>5. Order(w, y, e, cptr)
  BY <1>2, <1>3, <1>4 DEF Order
<1> QED
  BY <1>2, <1>5 DEF y

\* A GLINE whose reason or times were replaced is still one to be handled.
LEMMA OrderReason ==
  ASSUME Setting, NEW w, NEW x, NEW e, NEW cptr, Order(w, x, e, cptr), NEW r \in Reasons
  PROVE  LET y == [x EXCEPT !.reason = r]
         IN  Order(w, y, 0, cptr) /\ y.m = x.m /\ y.reason = r
<1> DEFINE y == [x EXCEPT !.reason = r]
<1>1. x \in [cmd : {"GLINE"}, target : Servers \cup {"*"},
             action : {"+", "-", "modify", ">", "<"}, m : Masks,
             expire : -1 .. MAX_EXPIRE + 1, lastmod : Times, lifetime : Times,
             reason : Reasons, force : BOOLEAN, operforce : BOOLEAN]
  BY MessageFields DEF Order
<1>2. /\ y \in [cmd : {"GLINE"}, target : Servers \cup {"*"},
                action : {"+", "-", "modify", ">", "<"}, m : Masks,
                expire : -1 .. MAX_EXPIRE + 1, lastmod : Times, lifetime : Times,
                reason : Reasons, force : BOOLEAN, operforce : BOOLEAN]
      /\ y.action = x.action /\ y.m = x.m /\ y.force = x.force /\ y.operforce = x.operforce
      /\ y.target = x.target /\ y.lifetime = x.lifetime /\ y.cmd = "GLINE"
      /\ y.expire = x.expire /\ y.reason = r
  BY <1>1
<1> HIDE DEF y
<1>3. y \in Messages
  BY <1>2 DEF Messages
<1>4. x \in Mail(now) => y \in Mail(now)
  BY <1>1, <1>2, <1>3 DEF Mail
<1>5. x.lifetime \in Nat
  BY <1>1, Bounds DEF Times
<1>6. 0 <= now + MAX_EXPIRE + 1 /\ 0 <= now + MAX_EXPIRE
  BY NowIsNat, Bounds
<1>7. Order(w, y, 0, cptr)
  BY <1>2, <1>3, <1>4, <1>5, <1>6 DEF Order
<1> QED
  BY <1>2, <1>7 DEF y

\* GLINE, whoever says it.
LEMMA CommandGood ==
  ASSUME Setting, NEW w, Sound(w), NEW x, NEW e, NEW cptr, Order(w, x, e, cptr),
         e = 0 => x.target = "*" \/ x.action \in {">", "<"}
  PROVE  Good(w, GlineCommand(w, x, e, cptr))
<1>1. x \in Messages /\ x.m \in Masks /\ x.action \in {"+", "-", "modify", ">", "<"}
  BY MessageFields DEF Order
<1>2. w \in Worker /\ w.s \in Servers /\ w.gl \in [Masks -> Record(now)] /\ w.lo \in [Masks -> Times]
  BY DEF Sound, Worker
<1>3. CASE x.target \notin {"*", w.s}
  <2>1. x \in Mail(now)
    BY <1>3 DEF Order
  <2> QED
    BY <1>3, <2>1, SendGood DEF GlineCommand, sendcmdto_one
<1>4. CASE x.target \in {"*", w.s} /\ x.action \in {">", "<"}
  <2>1. GlineCommand(w, x, e, cptr) = StatusGline(w, x, cptr)
    BY <1>4 DEF GlineCommand
  <2>2. CASE w.gl[x.m] = NoBan
    BY <2>1, <2>2, IdleGood DEF StatusGline
  <2>3. CASE w.gl[x.m] # NoBan
    <3> DEFINE y == [x EXCEPT !.reason = w.gl[x.m].reason]
    <3>1. w.gl[x.m].reason \in Reasons
      BY <1>1, <1>2, <2>3, GlineFields DEF Record
    <3>2. Order(w, y, 0, cptr) /\ y.m = x.m /\ y.reason = w.gl[x.m].reason
      BY <3>1, OrderReason
    <3>3. StatusGline(w, x, cptr) = Modify(w, y, 0, cptr)
      BY <2>3 DEF StatusGline
    <3> HIDE DEF y
    <3>4. Good(w, Modify(w, y, 0, cptr))
      BY <2>3, <3>2, ModifyGood
    <3> QED
      BY <2>1, <3>3, <3>4
  <2> QED
    BY <2>2, <2>3
<1>5. CASE x.target = w.s /\ x.action \notin {">", "<"}
  <2>0. x.target # "*" /\ e # 0
    BY <1>2, <1>5, BansConstants
  <2>1. GlineCommand(w, x, e, cptr) = LocalGline(w, x, e, cptr)
    BY <1>5, <2>0 DEF GlineCommand
  <2>2. CASE x.action = "-"
    <3> DEFINE v == [w EXCEPT !.lo[x.m] = 0]
    <3>0. 0 \in Times
      BY Bounds DEF Times
    <3>1. /\ v \in Worker /\ v.s = w.s /\ v.gl = w.gl /\ v.up = w.up /\ v.out = w.out
          /\ v.us = w.us /\ v.lo = [w.lo EXCEPT ![x.m] = 0]
      BY <1>1, <1>2, <3>0 DEF Worker
    <3>2. LocalGline(w, x, e, cptr) = v
      BY <2>2, OneMachine, Zenon DEF LocalGline, gline_destroy
    <3> HIDE DEF v
    <3>3. \A m \in Masks : v.lo[m] = 0 \/ v.lo[m] = w.lo[m]
      BY <1>1, <1>2, <3>1
    <3>4. Narrow(v) /\ NoLoop(v)
      BY <3>1, <3>3 DEF Narrow, NoLoop, Sound
    <3>5. w.us \subseteq Masks /\ ~(0 > now)
      BY <1>2, NowIsNat DEF Worker
    <3>6. Clean(v)
      BY <3>1, <3>3, <3>5 DEF Clean, Sound
    <3> QED
      BY <2>1, <3>1, <3>2, <3>4, <3>6, SameGood DEF Sound, Calm
  <2>3. CASE x.action # "-" /\ w.lo[x.m] # 0
    BY <2>1, <2>3, IdleGood DEF LocalGline
  <2>4. CASE x.action # "-" /\ w.lo[x.m] = 0
    <3>1. LocalGline(w, x, e, cptr) = Add(w, x, e, cptr, TRUE)
      BY <2>4 DEF LocalGline
    <3>2. Wide(x.m) => Restricted(w, x, cptr, TRUE)
      BY DEF Order, Restricted
    <3>3. Good(w, Add(w, x, e, cptr, TRUE))
      BY <2>0, <3>2, AddGood, Zenon
    <3> QED
      BY <2>1, <3>1, <3>3, Zenon
  <2> QED
    BY <2>2, <2>3, <2>4
<1>6. CASE x.target = "*" /\ x.target # w.s /\ x.action \notin {">", "<"}
  <2>1. GlineCommand(w, x, e, cptr) = GlobalGline(w, x, e, cptr)
    BY <1>6 DEF GlineCommand
  <2>2. CASE w.gl[x.m] # NoBan
    BY <1>6, <2>1, <2>2, ModifyGood DEF GlobalGline
  <2>3. CASE w.gl[x.m] = NoBan /\ (e = 0 \/ (cptr = w.s /\ x.action = "modify"))
    BY <2>1, <2>3, IdleGood, Zenon DEF GlobalGline
  <2>4. CASE w.gl[x.m] = NoBan /\ ~(e = 0 \/ (cptr = w.s /\ x.action = "modify"))
    <3> DEFINE a == IF x.action = "modify" THEN "+" ELSE x.action
               y == [x EXCEPT !.action = a]
    <3>1. a \in Actions
      BY <1>1, <1>6 DEF Actions
    <3> HIDE DEF a
    <3>2. Order(w, y, e, cptr) /\ y.m = x.m /\ y.force = x.force
      BY <1>6, <3>1, OrderAction
    <3>3. GlobalGline(w, x, e, cptr) = Add(w, y, e, cptr, FALSE)
      BY <2>4 DEF GlobalGline, a
    <3> HIDE DEF y
    <3>4. Wide(x.m) => Restricted(w, y, cptr, FALSE)
      BY <1>6 DEF Order, Restricted
    <3>5. Good(w, Add(w, y, e, cptr, FALSE))
      BY <2>4, <3>2, <3>4, AddGood, Zenon
    <3> QED
      BY <2>1, <3>3, <3>5, Zenon
  <2> QED
    BY <2>2, <2>3, <2>4
<1> QED
  BY <1>2, <1>3, <1>4, <1>5, <1>6, BansConstants

\* Messages of other commands.
LEMMA PlainMail ==
  ASSUME NEW x
  PROVE  /\ x \in [cmd : {"REMOVE"}, m : Masks] => x \in Mail(now)
         /\ x \in [cmd : {"EOB", "EOB_ACK", "SQUIT"}] => x \in Mail(now)
<1>1. x \in [cmd : {"REMOVE"}, m : Masks] \/ x \in [cmd : {"EOB", "EOB_ACK", "SQUIT"}]
        => x \in Messages /\ x.cmd # "GLINE" /\ x.cmd # "SERVER"
  BY DEF Messages
<1> QED
  BY <1>1 DEF Mail

\* REMOVE frees records and local bans.
LEMMA ForgetGood ==
  ASSUME Setting, NEW w, Sound(w), NEW m \in Masks
  PROVE  Good(w, Forget(w, m))
<1> DEFINE F(gl) == [w EXCEPT !.gl = gl, !.lo[m] = 0]
           a == [k \in Masks |-> IF k = m \/ (/\ Text[k].form # "channel"
                                              /\ w.gl[k] # NoBan /\ w.gl[k].expire <= now)
                                 THEN NoBan ELSE w.gl[k]]
           b == [k \in Masks |-> IF k = m \/ (w.gl[k] # NoBan /\ w.gl[k].expire <= now)
                                 THEN NoBan ELSE w.gl[k]]
<1>1. scene.kind \in {"gline", "zline", "shun"}
  BY DEF Setting, Scene
<1>2. Forget(w, m) \in {w, F(a), F(b)}
  BY <1>1 DEF Forget, gline_remove, zline_remove, shun_remove
<1>3. w \in Worker /\ w.gl \in [Masks -> Record(now)] /\ w.lo \in [Masks -> Times]
      /\ w.us \subseteq Masks
  BY DEF Sound, Worker
<1>4. NoBan \in Record(now) /\ 0 \in Times /\ ~(0 > now)
  BY NowIsNat, Bounds DEF Record, Times
<1>5. /\ a \in [Masks -> Record(now)] /\ \A k \in Masks : a[k] \in {NoBan, w.gl[k]}
      /\ b \in [Masks -> Record(now)] /\ \A k \in Masks : b[k] \in {NoBan, w.gl[k]}
  BY <1>3, <1>4
<1> HIDE DEF a, b
<1>6. ASSUME NEW gl \in [Masks -> Record(now)], \A k \in Masks : gl[k] \in {NoBan, w.gl[k]}
      PROVE  Good(w, F(gl))
  <2> DEFINE v == F(gl)
  <2>1. /\ v \in Worker /\ v.s = w.s /\ v.gl = gl /\ v.lo = [w.lo EXCEPT ![m] = 0]
        /\ v.up = w.up /\ v.out = w.out /\ v.us = w.us
    BY <1>3, <1>4, Zenon DEF Worker
  <2> HIDE DEF v
  <2>2. \A k \in Masks : v.lo[k] = 0 \/ v.lo[k] = w.lo[k]
    BY <1>3, <2>1
  <2>3. Narrow(v) /\ NoLoop(v)
    BY <1>6, <2>1, <2>2 DEF Narrow, NoLoop, Sound
  <2>4. Clean(v)
    BY <1>3, <1>4, <1>6, <2>1, <2>2 DEF Clean, Sound, GlineIsActive
  <2>5. \A k \in Masks : RecordGrows(w.gl[k], v.gl[k]) /\ LocalStateKept(w.gl[k], v.gl[k], now)
    <3> SUFFICES ASSUME NEW k \in Masks
                 PROVE  RecordGrows(w.gl[k], v.gl[k]) /\ LocalStateKept(w.gl[k], v.gl[k], now)
      OBVIOUS
    <3>1. CASE v.gl[k] = NoBan
      BY <3>1 DEF RecordGrows, LocalStateKept
    <3>2. CASE v.gl[k] = w.gl[k]
      BY <1>3, <3>2, SameRecord
    <3> QED
      BY <1>6, <2>1, <3>1, <3>2
  <2> QED
    BY <2>1, <2>3, <2>4, <2>5 DEF Good, Sound, Follows, Calm, v
<1> QED
  BY <1>2, <1>5, <1>6, IdleGood, Zenon
=============================================================================
