-------------------------------- MODULE Bans --------------------------------
(***************************************************************************)
(* The bans of a network: G-lines (gline.c, m_gline.c), Z-lines (zline.c,  *)
(* m_zline.c) and shuns (shun.c, m_shun.c), which are the same machine     *)
(* with different masks, and REMOVE (m_remove.c).  A global ban is a       *)
(* record on every server with the time of its last modification, the      *)
(* time it expires and the time its record is forgotten; a server may      *)
(* override whether it is active.  A local ban is known to one server.     *)
(*                                                                         *)
(* zline.c and shun.c have the functions of gline.c, statement for         *)
(* statement, except for the masks they take and for what they do to the   *)
(* users these match, so a function of theirs that differs in neither is   *)
(* defined to be gline.c's.  Servers have the same clock.  A message only  *)
(* comes from where its source is, behind the link it was introduced by,   *)
(* so its source is always known.  The forms of GLINE without an           *)
(* expiration, which only other versions send, privileges and exceptions   *)
(* are left out.                                                           *)
(***************************************************************************)
EXTENDS Integers, Sequences, FiniteSets, FiniteSetsExt, Functions

CONSTANTS
  Servers,
  Via,          \* Via[s][h]: the neighbour of s on the way to h
  Masks,        \* masks that match different users
  Text,         \* Text[m]: what checks see of the mask m
  Reasons,
  NoBan,        \* there is no record
  MAX_EXPIRE,   \* GLINE_MAX_EXPIRE
  MAXUSERCOUNT, \* FEAT_GLINEMAXUSERCOUNT
  MaxTime,      \* bound on the clock
  MaxQueue,     \* bound on the messages on the way in one direction of a link
  Scenes        \* what happens in a behaviour is limited to one of these

\* The text of a mask: whether it is a channel, a realname or a host; for a host, whether
\* all its characters are those of addresses, which of its labels have wildcards, and the
\* bits after a slash, or none.
Form == [form : {"channel", "realname", "host"}, ip : BOOLEAN, wilds : Seq(BOOLEAN) \ {<<>>},
         bits : Int]
NONE == -1

\* A scene: the kind of ban; its masks; the servers that take part; those that are linked at
\* first; how many links are made; until when; what operators and users do, and how
\* often; the durations and the reasons they give, and whether with a "!"; whether time stands still while messages are on
\* the way, and operators act, and links come and go, one by one; whether servers read for ever.
Scene == [kind : {"gline", "zline", "shun"}, masks : SUBSET Masks, operforce : BOOLEAN, net : SUBSET Servers, linked : SUBSET Servers,
          links : Nat, time : 2 .. MaxTime, durations : SUBSET (0 .. MAX_EXPIRE + 1),
          reasons : SUBSET Reasons,
          ops : SUBSET {"global", "status", "local", "remove", "users", "split"},
          acts : Nat, prompt : BOOLEAN, fair : BOOLEAN]

Neighbours(s) == {n \in Servers \ {s} : Via[s][n] = n}

ASSUME BansConstants ==
  /\ IsFiniteSet(Masks) /\ "*" \notin Servers
  /\ Via \in [Servers -> [Servers -> Servers]]
  /\ \A s, h \in Servers : s # h => Via[s][h] \in Neighbours(s)
  /\ \A s \in Servers : \A n \in Neighbours(s) : s \in Neighbours(n)
  /\ NoBan \notin [expire : Nat, lastmod : Nat, lifetime : Nat, active : BOOLEAN,
                   state : {"global", "activated", "deactivated"}, reason : Reasons]
  /\ \A m \in Masks : Text[m] \in Form
  /\ MAXUSERCOUNT \in Nat \ {0} /\ MAX_EXPIRE \in Nat \ {0} /\ MaxTime \in Nat /\ MaxQueue \in Nat
  /\ \A sc \in Scenes : sc \in Scene

VARIABLES
  now,      \* TStime()
  glines,   \* glines[s][m]: the global ban on m at s
  locals,   \* locals[s][m]: when the local ban on m at s expires, 0 if there is none
  users,    \* users[s]: the masks that match a user of s
  burst,    \* burst[s][n]: n is sending its net burst, or has not acknowledged ours
  up,       \* up[s][n]: s has a link to its neighbour n
  queue,    \* queue[s][n]: messages from s to n
  acts, links,
  scene

vars == <<now, glines, locals, users, burst, up, queue, acts, links, scene>>

Times == 0 .. MaxTime + MAX_EXPIRE
Gline == [expire : Times, lastmod : Times, lifetime : Times, active : BOOLEAN,
          state : {"global", "activated", "deactivated"}, reason : Reasons]

\* What a GLINE says: "+" activates, "-" deactivates, "modify" modifies, and ">" and "<"
\* do so for one server; expire is relative.  A source that is a server may force.
Messages ==
  [cmd : {"GLINE"}, target : Servers \cup {"*"}, action : {"+", "-", "modify", ">", "<"}, m : Masks,
   expire : -1 .. MAX_EXPIRE + 1, lastmod : Times, lifetime : Times, reason : Reasons,
   force : BOOLEAN, operforce : BOOLEAN]
  \cup [cmd : {"REMOVE"}, m : Masks] \cup [cmd : {"SERVER", "EOB", "EOB_ACK", "SQUIT"}]

TypeOK ==
  /\ now \in 2 .. MaxTime
  /\ glines \in [Servers -> [Masks -> Gline \cup {NoBan}]]
  /\ locals \in [Servers -> [Masks -> Times]]
  /\ users \in [Servers -> SUBSET Masks]
  /\ burst \in [Servers -> [Servers -> {"none", "burst", "ack"}]]
  /\ up \in [Servers -> [Servers -> BOOLEAN]]
  /\ \A s, n \in Servers : \A i \in DOMAIN queue[s][n] : queue[s][n][i] \in Messages

Init ==
  /\ now = 2
  /\ scene \in Scenes
  /\ glines = [s \in Servers |-> [m \in Masks |-> NoBan]]
  /\ locals = [s \in Servers |-> [m \in Masks |-> 0]]
  /\ users = [s \in Servers |-> {}]
  /\ burst = [s \in Servers |-> [n \in Servers |-> "none"]]
  /\ up = [s \in Servers |-> [n \in Servers |-> {s, n} \subseteq scene.linked /\ n \in Neighbours(s)]]
  /\ queue = [s \in Servers |-> [n \in Servers |-> <<>>]]
  /\ acts = 0 /\ links = 0

-----------------------------------------------------------------------------
\* Server s at work: its own state and what it sends.
At(s) == [s |-> s, gl |-> glines[s], lo |-> locals[s], us |-> users[s], burst |-> burst[s],
          up |-> up[s], out |-> queue[s]]

Become(w) ==
  /\ \A n \in Servers : Len(w.out[n]) <= MaxQueue
  /\ glines' = [glines EXCEPT ![w.s] = w.gl]
  /\ locals' = [locals EXCEPT ![w.s] = w.lo]
  /\ users' = [users EXCEPT ![w.s] = w.us]
  /\ burst' = [burst EXCEPT ![w.s] = w.burst]
  /\ up' = [up EXCEPT ![w.s] = w.up]

Output(w) == queue' = [queue EXCEPT ![w.s] = w.out]

Send(w, to, x) ==
  [w EXCEPT !.out = [n \in Servers |-> IF n \in to /\ w.up[n] THEN Append(@[n], x) ELSE @[n]]]

sendcmdto_one(w, x, n) == Send(w, {n}, x)
sendcmdto_serv_butone(w, x, one) == Send(w, Servers \ {one}, x)

-----------------------------------------------------------------------------
\* One record.

\* gliter, by which everybody reaches the records: it frees one that has outlived its
\* lifetime and deactivates one that has expired.
gliter(g, t) ==
  IF g = NoBan THEN NoBan
  ELSE IF g.lifetime <= t THEN NoBan
  ELSE IF g.expire <= t THEN [g EXCEPT !.active = FALSE, !.state = "global"]
  ELSE g

zliter(g, t) == gliter(g, t)
shiter(g, t) == gliter(g, t)

Iter(g, t) ==
  CASE scene.kind = "gline" -> gliter(g, t)
    [] scene.kind = "zline" -> zliter(g, t)
    [] scene.kind = "shun" -> shiter(g, t)

GlineIsActive(g) ==
  g # NoBan /\ ((g.active /\ g.state # "deactivated") \/ g.state = "activated")

\* Whether a user who is matched by m, or who joins the channel m, meets a ban.
gline_lookup(w, m) == GlineIsActive(w.gl[m]) \/ w.lo[m] > now
zline_lookup(w, m) == GlineIsActive(w.gl[m]) \/ w.lo[m] > now
shun_lookup(w, m) == GlineIsActive(w.gl[m]) \/ w.lo[m] > now

\* The users of this server that the ban matches have to go; who is in a channel stays.
do_gline(w, m) ==
  IF Text[m].form # "channel" /\ gline_lookup(w, m) THEN [w EXCEPT !.us = @ \ {m}] ELSE w

do_zline(w, m) == IF zline_lookup(w, m) THEN [w EXCEPT !.us = @ \ {m}] ELSE w

\* Users that are shunned are told, and stay.
do_shun(w, m) == w

Do(w, m) ==
  CASE scene.kind = "gline" -> do_gline(w, m)
    [] scene.kind = "zline" -> do_zline(w, m)
    [] scene.kind = "shun" -> do_shun(w, m)

\* The record as the next one finds it.
Settle(w, m) == [w EXCEPT !.gl[m] = Iter(@, now)]

\* How the time of expiry is sent: relative to now; the negative difference is printed
\* as a huge number, which atoi makes -1.
Relative(t) == IF t < now THEN -1 ELSE t - now

GLINE(g, m, action, force) ==
  [cmd |-> "GLINE", target |-> "*", action |-> action, m |-> m, expire |-> Relative(g.expire),
   lastmod |-> g.lastmod, lifetime |-> g.lifetime, reason |-> g.reason, force |-> force,
   operforce |-> FALSE]

\* gline_propagate, gline_resend and gline_burst tell the whole record.
Whole(g, m, force) == GLINE(g, m, IF g.active THEN "+" ELSE "-", force)

BadExpire(e, force) == ~force /\ (e <= now \/ e > now + MAX_EXPIRE)

-----------------------------------------------------------------------------
\* What an operator may ban.

\* A host mask needs two labels without wildcards at its end, an address 16 bits; one
\* with wildcards also needs a "!".
gline_checkmask(f) ==
  LET dots == Len(f.wilds) - 1
      full == IF dots = 0 THEN 128 ELSE 32
      slash == f.bits # NONE
      stars == TRUE \in Range(f.wilds)
      wild == stars \/ (slash /\ f.bits < full)
      ip == f.ip /\ dots <= 3 /\ (wild \/ dots = 3)
      fixed == IF stars THEN Min({i \in DOMAIN f.wilds : f.wilds[i]}) - 1 ELSE dots + 1
      bits == IF slash THEN f.bits ELSE 8 * fixed
  IN  IF \/ slash /\ (stars \/ ~f.ip \/ f.bits > full \/ dots \notin {0, 3})
         \/ wild /\ ~ip /\ (dots < 2 \/ f.wilds[dots] \/ f.wilds[dots + 1])
         \/ wild /\ ip /\ bits < 16
      THEN "rejected" ELSE IF wild THEN "overridable" ELSE "approved"

zline_checkmask(f) == gline_checkmask(f)
shun_checkmask(f) == gline_checkmask(f)

\* The users that m matches here or, unless the ban is local, anywhere behind a link.
count_users(w, m, local) ==
  Cardinality({s \in Servers : \/ s = w.s /\ m \in w.us
                               \/ s # w.s /\ ~local /\ w.up[Via[w.s][s]] /\ m \in users[s]})

count_realnames(w, m) == count_users(w, m, FALSE)

\* Users are restricted, here and in local bans they make elsewhere; servers are not.
Restricted(w, x, cptr, local) == cptr = w.s \/ (local /\ ~x.force)

\* CHECK_OVERRIDABLE needs a "!", and so does a ban of too many users.
TooWide(x, verdict, count) ==
  \/ verdict = "rejected"
  \/ ~x.operforce /\ (verdict = "overridable" \/ count >= MAXUSERCOUNT)

\* The verdict on a mask other than a channel.
gline_refused(w, x, cptr, local) ==
  /\ Text[x.m].form # "channel" /\ Restricted(w, x, cptr, local)
  /\ IF Text[x.m].form = "realname" THEN TooWide(x, "approved", count_realnames(w, x.m))
     ELSE TooWide(x, gline_checkmask(Text[x.m]), count_users(w, x.m, local))

\* Only addresses are taken, whoever asks.
zline_refused(w, x, cptr, local) ==
  \/ ~Text[x.m].ip
  \/ /\ Restricted(w, x, cptr, local)
     /\ TooWide(x, zline_checkmask(Text[x.m]), count_users(w, x.m, local))

shun_refused(w, x, cptr, local) ==
  /\ Restricted(w, x, cptr, local)
  /\ IF Text[x.m].form = "realname" THEN TooWide(x, "approved", count_realnames(w, x.m))
     ELSE TooWide(x, shun_checkmask(Text[x.m]), count_users(w, x.m, local))

-----------------------------------------------------------------------------
\* A ban is made, modified and destroyed.

\* The ban with an expiry e, once it is not refused: nobody else is told of a local one.
make_gline(w, x, e, cptr, local) ==
  LET g == [expire |-> e, lastmod |-> x.lastmod,
            lifetime |-> IF x.lifetime = 0 THEN e ELSE x.lifetime,
            active |-> x.action = "+" /\ e > now, state |-> "global", reason |-> x.reason]
      v == sendcmdto_serv_butone([w EXCEPT !.gl[x.m] = g], Whole(g, x.m, x.force), cptr)
  IN  IF local THEN Do([w EXCEPT !.lo[x.m] = e], x.m) ELSE Settle(Do(v, x.m), x.m)

make_zline(w, x, e, cptr, local) == make_gline(w, x, e, cptr, local)
make_shun(w, x, e, cptr, local) == make_gline(w, x, e, cptr, local)

\* A new ban; cptr is the link it came from, or w.s.
gline_add(w, x, e, cptr, local) ==
  IF gline_refused(w, x, cptr, local) \/ BadExpire(e, x.force) THEN w
  ELSE make_gline(w, x, e, cptr, local)

zline_add(w, x, e, cptr, local) ==
  IF zline_refused(w, x, cptr, local) \/ BadExpire(e, x.force) THEN w
  ELSE make_zline(w, x, e, cptr, local)

shun_add(w, x, e, cptr, local) ==
  IF shun_refused(w, x, cptr, local) \/ BadExpire(e, x.force) THEN w
  ELSE make_shun(w, x, e, cptr, local)

Add(w, x, e, cptr, local) ==
  CASE scene.kind = "gline" -> gline_add(w, x, e, cptr, local)
    [] scene.kind = "zline" -> zline_add(w, x, e, cptr, local)
    [] scene.kind = "shun" -> shun_add(w, x, e, cptr, local)

\* The activity a modification asks for, if it changes anything; what has expired and
\* is not prolonged stays as it is.
Activity(g, action, expire) ==
  IF \/ action = "+" /\ g.active
     \/ action = "-" /\ ~g.active
     \/ action = ">" /\ g.state = "activated"
     \/ action = "<" /\ g.state = "deactivated"
     \/ Max({g.expire, expire}) <= now
  THEN "modify" ELSE action

\* mutant: a change of the record's lifetime is taken over as it is told
Modified_lifetime(g, x, expire, action) ==
  [g EXCEPT !.lastmod = IF action \in {">", "<"} THEN @ ELSE x.lastmod,
            !.active = CASE action = "+" -> TRUE [] action = "-" -> FALSE [] OTHER -> @,
            !.state = CASE action \in {"+", "-"} -> "global" [] action = ">" -> "activated"
                        [] action = "<" -> "deactivated" [] OTHER -> @,
            !.expire = IF expire # 0 THEN expire ELSE @,
            !.lifetime = IF x.lifetime # 0 THEN x.lifetime ELSE Max({@, expire}),
            !.reason = x.reason]

\* The record after a modification; expire is 0 if it does not change.
Modified(g, x, expire, action) ==
  [g EXCEPT !.lastmod = IF action \in {">", "<"} THEN @ ELSE x.lastmod,
            !.active = CASE action = "+" -> TRUE [] action = "-" -> FALSE [] OTHER -> @,
            !.state = CASE action \in {"+", "-"} -> "global" [] action = ">" -> "activated"
                        [] action = "<" -> "deactivated" [] OTHER -> @,
            !.expire = IF expire # 0 THEN expire ELSE @,
            !.lifetime = Max({@, x.lifetime, expire}),
            !.reason = x.reason]

\* mutant: also the same version
HaveNewer_or_same(g, x) == g.lastmod >= x.lastmod

HaveNewer(g, x) == g.lastmod > x.lastmod

\* A more recent version here is sent back, unless the link is in its net burst; an
\* older one here is changed, which all others are told, if that changes anything.
\* The expiry e is 0 if there is none.
gline_modify(w, x, e, cptr) ==
  LET g == w.gl[x.m]
      global == x.action \notin {">", "<"}
      expire == IF e = g.expire THEN 0 ELSE e
      action == Activity(g, x.action, expire)
      changed == Modified(g, x, expire, action)
      v == IF global
           THEN sendcmdto_serv_butone(w, GLINE(changed, x.m, action, x.force), cptr)
           ELSE w
  IN  IF global /\ HaveNewer(g, x)
      THEN IF w.burst[cptr] # "none" THEN w ELSE sendcmdto_one(w, Whole(g, x.m, TRUE), cptr)
      ELSE IF \/ global /\ g.lastmod = x.lastmod
              \/ e # 0 /\ BadExpire(e, x.force)
              \/ action = "modify" /\ changed = [g EXCEPT !.lastmod = changed.lastmod]
      THEN w
      ELSE Settle(Do([v EXCEPT !.gl[x.m] = changed], x.m), x.m)

zline_modify(w, x, e, cptr) == gline_modify(w, x, e, cptr)
shun_modify(w, x, e, cptr) == gline_modify(w, x, e, cptr)

Modify(w, x, e, cptr) ==
  CASE scene.kind = "gline" -> gline_modify(w, x, e, cptr)
    [] scene.kind = "zline" -> zline_modify(w, x, e, cptr)
    [] scene.kind = "shun" -> shun_modify(w, x, e, cptr)

\* Only local bans are destroyed.
gline_destroy(w, m) == [w EXCEPT !.lo[m] = 0]
zline_destroy(w, m) == gline_destroy(w, m)
shun_destroy(w, m) == gline_destroy(w, m)

Destroy(w, m) ==
  CASE scene.kind = "gline" -> gline_destroy(w, m)
    [] scene.kind = "zline" -> zline_destroy(w, m)
    [] scene.kind = "shun" -> shun_destroy(w, m)

-----------------------------------------------------------------------------
\* GLINE and REMOVE.

\* A local ban is made, if there is none, or destroyed.
LocalGline(w, x, e, cptr) ==
  IF x.action = "-" THEN Destroy(w, x.m)
  ELSE IF w.lo[x.m] # 0 THEN w ELSE Add(w, x, e, cptr, TRUE)

\* The status of a ban is changed on this server.
StatusGline(w, x, cptr) ==
  IF w.gl[x.m] = NoBan THEN w
  ELSE Modify(w, [x EXCEPT !.reason = w.gl[x.m].reason], 0, cptr)

\* A server that does not have the record takes a modification for an activation, and an
\* operator is told that there is none.
GlobalGline(w, x, e, cptr) ==
  IF w.gl[x.m] # NoBan THEN Modify(w, x, e, cptr)
  ELSE IF e = 0 \/ (cptr = w.s /\ x.action = "modify") THEN w
  ELSE Add(w, [x EXCEPT !.action = IF @ = "modify" THEN "+" ELSE @], e, cptr, FALSE)

\* GLINE from the link cptr, or from an operator of this server (cptr = w.s).  One for
\* another server is passed on.
GlineCommand(w, x, e, cptr) ==
  IF x.target \notin {"*", w.s} THEN sendcmdto_one(w, x, Via[w.s][x.target])
  ELSE IF x.action \in {">", "<"} THEN StatusGline(w, x, cptr)
  ELSE IF x.target = w.s THEN LocalGline(w, x, e, cptr)
  ELSE GlobalGline(w, x, e, cptr)

ZlineCommand(w, x, e, cptr) == GlineCommand(w, x, e, cptr)
ShunCommand(w, x, e, cptr) == GlineCommand(w, x, e, cptr)

\* abs_expire: the time of expiry counts from when the message is read.
ms_gline(w, x, cptr) == GlineCommand(w, x, now + x.expire, cptr)
ms_zline(w, x, cptr) == ZlineCommand(w, x, now + x.expire, cptr)
ms_shun(w, x, cptr) == ShunCommand(w, x, now + x.expire, cptr)

\* Every record for the mask goes, and all that have expired; channels are another list.
gline_remove(w, m) ==
  IF Text[m].form = "channel" THEN w
  ELSE [w EXCEPT !.gl = [k \in Masks |->
                           IF k = m \/ (/\ Text[k].form # "channel"
                                       /\ @[k] # NoBan /\ @[k].expire <= now)
                           THEN NoBan ELSE @[k]],
                 !.lo[m] = 0]

zline_remove(w, m) ==
  [w EXCEPT !.gl = [k \in Masks |-> IF k = m \/ (@[k] # NoBan /\ @[k].expire <= now)
                                    THEN NoBan ELSE @[k]],
            !.lo[m] = 0]

shun_remove(w, m) == zline_remove(w, m)

Forget(w, m) ==
  CASE scene.kind = "gline" -> gline_remove(w, m)
    [] scene.kind = "zline" -> zline_remove(w, m)
    [] scene.kind = "shun" -> shun_remove(w, m)

ms_remove(w, x, cptr) == sendcmdto_serv_butone(Forget(w, x.m), x, cptr)

-----------------------------------------------------------------------------
\* Links.

\* The order in which the list holds the records does not matter.
ListOf(S) == CHOOSE f \in Bijection(1 .. Cardinality(S), S) : TRUE

\* mutant: only bans that are active are told
gline_burst_active(w) ==
  LET ms == ListOf({m \in Masks : w.gl[m] # NoBan /\ w.gl[m].active})
  IN  [i \in DOMAIN ms |-> Whole(w.gl[ms[i]], ms[i], TRUE)]

gline_burst(w) ==
  LET ms == ListOf({m \in Masks : w.gl[m] # NoBan})
  IN  [i \in DOMAIN ms |-> Whole(w.gl[ms[i]], ms[i], TRUE)]

zline_burst(w) == gline_burst(w)
shun_burst(w) == gline_burst(w)

Burst(w) ==
  CASE scene.kind = "gline" -> gline_burst(w)
    [] scene.kind = "zline" -> zline_burst(w)
    [] scene.kind = "shun" -> shun_burst(w)

server_estab(w, n, hello) ==
  [w EXCEPT !.up[n] = TRUE, !.burst[n] = "burst",
            !.out[n] = hello \o Burst(w) \o <<[cmd |-> "EOB"]>>]

ms_end_of_burst(w, n) ==
  sendcmdto_one([w EXCEPT !.burst[n] = "ack"], [cmd |-> "EOB_ACK"], n)

ms_end_of_burst_ack(w, n) == [w EXCEPT !.burst[n] = IF @ = "ack" THEN "none" ELSE @]

Dropped(w, n) == [w EXCEPT !.up[n] = FALSE, !.burst[n] = "none", !.out[n] = <<>>]

Handle(w, x, n) ==
  CASE x.cmd = "GLINE" /\ scene.kind = "gline" -> ms_gline(w, x, n)
    [] x.cmd = "GLINE" /\ scene.kind = "zline" -> ms_zline(w, x, n)
    [] x.cmd = "GLINE" /\ scene.kind = "shun" -> ms_shun(w, x, n)
    [] x.cmd = "REMOVE" -> ms_remove(w, x, n)
    [] x.cmd = "EOB" -> ms_end_of_burst(w, n)
    [] x.cmd = "EOB_ACK" -> ms_end_of_burst_ack(w, n)
    [] x.cmd = "SQUIT" -> Dropped(w, n)

Read(s, n) ==
  /\ up[s][n] /\ queue[n][s] # <<>>
  /\ \E w \in {Handle(At(s), Head(queue[n][s]), n)} :
       /\ Become(w)
       /\ queue' = [queue EXCEPT ![s] = w.out, ![n][s] = Tail(@)]
  /\ UNCHANGED <<now, acts, links, scene>>

\* Nothing is on the way and no link is half open.
Quiet ==
  \A s, n \in Servers : queue[s][n] = <<>> /\ up[s][n] = up[n][s]

\* s accepts the connection of n, or reads the answer to its own.
Accept(s, n) ==
  /\ {s, n} \subseteq scene.net /\ n \in Neighbours(s) /\ links < scene.links
  /\ ~up[s][n] /\ ~up[n][s] /\ queue[s][n] = <<>> /\ queue[n][s] = <<>>
  /\ scene.prompt => Quiet
  /\ \E w \in {server_estab(At(s), n, <<[cmd |-> "SERVER"]>>)} : Become(w) /\ Output(w)
  /\ links' = links + 1
  /\ UNCHANGED <<now, acts, scene>>

Connected(s, n) ==
  /\ ~up[s][n] /\ queue[n][s] # <<>> /\ Head(queue[n][s]).cmd = "SERVER"
  /\ \E w \in {server_estab(At(s), n, <<>>)} :
       /\ Become(w)
       /\ queue' = [queue EXCEPT ![s] = w.out, ![n][s] = Tail(@)]
  /\ UNCHANGED <<now, acts, links, scene>>

\* s closes its link to n: an error, a time-out or an operator's SQUIT.
Close(s, n) ==
  /\ "split" \in scene.ops
  /\ up[s][n] /\ up[n][s]
  /\ scene.prompt => Quiet
  /\ Become(Dropped(At(s), n))
  /\ queue' = [queue EXCEPT ![s][n] = Append(@, [cmd |-> "SQUIT"]), ![n][s] = <<>>]
  /\ UNCHANGED <<now, acts, links, scene>>
-----------------------------------------------------------------------------
\* Operators and users.

Act(op, v) ==
  /\ op \in scene.ops /\ acts < scene.acts /\ acts' = acts + 1
  /\ scene.prompt => /\ Quiet
                     /\ \A s \in Servers, m \in Masks :
                          glines[s][m] # NoBan => glines[s][m].lastmod < now
  /\ \E w \in {v} : Become(w) /\ Output(w)
  /\ UNCHANGED <<now, links, scene>>

\* What operators say is like a GLINE of today without a lifetime.
Said(target, action, m, d, r) ==
  [cmd |-> "GLINE", target |-> target, action |-> action, m |-> m, expire |-> d,
   lastmod |-> now, lifetime |-> 0, reason |-> r, force |-> FALSE,
   operforce |-> scene.operforce]

\* A global ban is made or modified, with an expiration and a reason.
Change(s, action, m, d, r) ==
  /\ action = "modify" => glines[s][m] # NoBan
  /\ Act("global", GlineCommand(At(s), Said("*", action, m, 0, r), now + d, s))

\* A global ban is activated or deactivated, without an expiration.
ChangeStatus(s, action, m) ==
  /\ glines[s][m] # NoBan
  /\ Act("global", GlineCommand(At(s), Said("*", action, m, 0, glines[s][m].reason), 0, s))

\* The same on one server, which may be another one.
OverrideStatus(s, action, m, h) ==
  \E r \in scene.reasons : Act("status", GlineCommand(At(s), Said(h, action, m, 0, r), 0, s))

\* A local ban, here or on another server; if that is not reached nothing happens.
MakeLocal(s, action, m, d, h) ==
  \E r \in scene.reasons :
    Act("local", GlineCommand(At(s), Said(h, action, m, d, r), now + d, s))

mo_remove(s, m) == Act("remove", ms_remove(At(s), [cmd |-> "REMOVE", m |-> m], s))

\* A user that m matches registers with s (find_kill), or one joins the channel m
\* (join_badchannel).  Who is shunned may register.
SignOn(s, m) ==
  /\ "users" \in scene.ops /\ s \in scene.net /\ m \notin users[s]
  /\ CASE scene.kind = "gline" -> ~gline_lookup(At(s), m)
       [] scene.kind = "zline" -> ~zline_lookup(At(s), m)
       [] OTHER -> TRUE
  /\ users' = [users EXCEPT ![s] = @ \cup {m}]
  /\ UNCHANGED <<now, glines, locals, burst, up, queue, acts, links, scene>>

\* The clock; what gliter would do to a record it does at once.
Tick ==
  /\ now < scene.time
  /\ scene.prompt => Quiet
  /\ now' = now + 1
  /\ glines' = [s \in Servers |-> [m \in Masks |-> Iter(glines[s][m], now + 1)]]
  /\ locals' = [s \in Servers |-> [m \in Masks |-> IF locals[s][m] <= now + 1 THEN 0 ELSE locals[s][m]]]
  /\ UNCHANGED <<users, burst, up, queue, acts, links, scene>>

\* What mo_gline, mo_zline and mo_shun do once they know their parameters.
Operator(s, m) ==
  \/ \E action \in {"+", "-", "modify"}, d \in scene.durations, r \in scene.reasons : Change(s, action, m, d, r)
  \/ \E action \in {"+", "-"} : ChangeStatus(s, action, m)
  \/ \E action \in {">", "<"}, h \in scene.net : OverrideStatus(s, action, m, h)
  \/ \E action \in {"+", "-"}, d \in scene.durations, h \in scene.net : MakeLocal(s, action, m, d, h)

mo_gline(s, m) == scene.kind = "gline" /\ Operator(s, m)
mo_zline(s, m) == scene.kind = "zline" /\ Operator(s, m)
mo_shun(s, m) == scene.kind = "shun" /\ Operator(s, m)

Next ==
  \/ Tick
  \/ \E s, n \in Servers : Read(s, n) \/ Accept(s, n) \/ Connected(s, n) \/ Close(s, n)
  \/ \E s \in scene.net, m \in scene.masks : mo_gline(s, m) \/ mo_zline(s, m) \/ mo_shun(s, m)
                                   \/ mo_remove(s, m) \/ SignOn(s, m)

Spec == Init /\ [][Next]_vars

\* Servers keep reading what arrives.
Reading == scene.fair /\ \E s, n \in Servers : Read(s, n) \/ Connected(s, n)
FairSpec == Spec /\ WF_vars(Reading)

-----------------------------------------------------------------------------
\* Properties

\* Also, while messages take no time, the record of a ban is kept until it expires; and no
\* operator's ban is wider than gline_checkmask lets it be, on whatever server it was made.
BansConsistent ==
  /\ TypeOK
  /\ \A s \in Servers, m \in Masks :
       /\ Text[m].form = "host"
       /\ \/ gline_checkmask(Text[m]) = "rejected"
          \/ gline_checkmask(Text[m]) = "overridable" /\ ~scene.operforce
       => glines[s][m] = NoBan /\ locals[s][m] = 0
  /\ scene.prompt => \A s \in Servers, m \in Masks :
       glines[s][m] # NoBan => glines[s][m].lifetime >= glines[s][m].expire

\* No user of a server is matched by a ban that is active there, in whatever order
\* users sign on, bans are made, activated here or everywhere, change and expire.
NoBannedUser ==
  scene.kind # "shun" =>
    \A s \in Servers : \A m \in users[s] :
      Text[m].form # "channel" =>
        ~IF scene.kind = "gline" THEN gline_lookup(At(s), m) ELSE zline_lookup(At(s), m)

\* What servers should agree on: how long an expired record is kept is not.
Told(g) == IF g = NoBan \/ g.expire <= now THEN <<>> ELSE <<g.active, g.expire, g.reason>>

\* When nothing is on the way, servers that are linked have the same bans, also after
\* both sides of a split changed them, if that was in different seconds and messages
\* take less than one.
BansAgree ==
  scene.prompt /\ Quiet =>
    \A s, n \in Servers : up[s][n] =>
      \A m \in Masks : Told(glines[s][m]) = Told(glines[n][m])

\* lastmod is "a monotonically increasing serial number", and lifetime is "monotonically
\* increasing" (readme.gline), on every server for as long as it has the record.
RecordGrows(g, h) ==
  g # NoBan /\ h # NoBan => h.lastmod >= g.lastmod /\ h.lifetime >= g.lifetime

\* The local state of a ban "persists until there is a global state change to the G-line,
\* or until the G-line expires" (readme.gline), or an operator changes it.
LocalStateKept(g, h, t) ==
  g # NoBan /\ h # NoBan /\ g.state # "global" /\ h.state = "global" =>
    h.active # g.active \/ h.expire <= t

\* Servers that correct each other's bans do not do so for ever.
ComesToRest == scene.fair => []<>Quiet

\* Bans are in force where they should be, whatever crosses, splits and expires: no user is left who
\* matches one, no record is lost or wider than its maker may make it, and once nothing is on the
\* way linked servers have the same (gline_add, gline_modify, gline_burst, gline_resend, do_gline).
BansEnforced == BansConsistent /\ NoBannedUser /\ BansAgree

\* A record never goes back (lastmod, lifetime), and what an operator decided for their own server
\* stands until the ban is changed everywhere or expires (gline_modify, gline_activate).
BanHistory ==
  [][\A s \in Servers, m \in Masks : /\ RecordGrows(glines[s][m], glines'[s][m])
                                     /\ LocalStateKept(glines[s][m], glines'[s][m], now')]_vars
=============================================================================
