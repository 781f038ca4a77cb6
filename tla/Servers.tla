------------------------------- MODULE Servers -------------------------------
(***************************************************************************)
(* How servers link: CONNECT and the connection timer, the exchange of     *)
(* SERVER lines, the refusal or removal of a link that closes a loop       *)
(* (m_server.c, s_serv.c), SQUIT (m_squit.c, s_misc.c), jupes (jupe.c,     *)
(* m_jupe.c) and the clock offsets that links and SETTIME agree on.        *)
(*                                                                         *)
(* A server's name is a number; strcmp orders names as numbers.            *)
(*   nw.sv[s].list  the servers s knows, oldest first: name, up, link      *)
(*                  timestamp, the connection it is reached by, status     *)
(*   nw.cn[c]       a connection: the status of each end and the FIFO      *)
(*                  of lines each end has still to read                    *)
(* A command of nScene.cmds is issued at most once, and nScene.breaks      *)
(* connections may break, losing what was under way.                       *)
(***************************************************************************)
EXTENDS Integers, Sequences, FiniteSets, SequencesExt, FiniteSetsExt, TLC

CONSTANT SrvScenes

VARIABLES nw, nScene

nwVars == <<nw, nScene>>

\* Bounds that stand for 30 seconds, 9000000 seconds and the age of the protocol.
ClockGap == 3
FarAhead == 50
OLDEST_TS == 1

Nodes == nScene.servers
TStime(w, s) == w.now + w.sv[s].off

NoServer == [name |-> 0, up |-> 0, ts |-> 0, ghost |-> -100, cn |-> 0, st |-> "none",
             burst |-> FALSE, ack |-> FALSE, junct |-> FALSE, hop |-> 0]
MeEntry(s) == [NoServer EXCEPT !.name = s, !.st = "me"]

Entry(w, s, P(_)) ==
  LET list == w.sv[s].list
      found == {i \in DOMAIN list : P(list[i])}
  IN  IF found = {} THEN NoServer ELSE list[Max(found)]

FindClient(w, s, n) == IF n = s THEN MeEntry(s) ELSE Entry(w, s, LAMBDA e : e.name = n)
FindServer(w, s, n) ==
  LET e == FindClient(w, s, n) IN IF e.st \in {"server", "me"} THEN e ELSE NoServer
FindNServer(w, s, num) ==
  IF num = nScene.num[s] THEN MeEntry(s)
  ELSE Entry(w, s, LAMBDA e : e.st = "server" /\ nScene.num[e.name] = num)
Peer(w, s, c) == Entry(w, s, LAMBDA e : e.up = s /\ e.cn = c)

\* The servers between n and s, n included: cli_serv(n)->up, and so on.
RECURSIVE Uplinks(_, _, _)
Uplinks(w, s, n) ==
  IF n = s \/ FindClient(w, s, n).st = "none" THEN <<>>
  ELSE <<n>> \o Uplinks(w, s, FindClient(w, s, n).up)

a_kills_b_too(w, s, a, b) == a \in ToSet(Uplinks(w, s, b))

\* The established links of a server: cli_serv(&me)->down.
Downlinks(w, s) == SelectSeq(w.sv[s].list, LAMBDA e : e.st = "server" /\ e.up = s)

OtherEnd(w, s, c) == IF w.cn[c].ends[1] = s THEN w.cn[c].ends[2] ELSE w.cn[c].ends[1]

\* A line for the other end of connection c is lost when that end has closed.
Put(w, s, c, m) ==
  LET o == OtherEnd(w, s, c)
  IN  IF w.cn[c].st[o] = "closed" \/ w.cn[c].broken THEN w ELSE [w EXCEPT !.cn[c].q[o] = Append(@, m)]

SendDown(w, s, but, m) ==
  FoldLeft(LAMBDA x, e : IF e.cn \in but THEN x ELSE Put(x, s, e.cn, m), w, Downlinks(w, s))

(***************************************************************************)
(* s_misc.c, s_serv.c: leaving                                             *)
(***************************************************************************)
\* A link that was up is not tried again before the hold time is over.
close_connection(w, s, c) ==
  LET e == Peer(w, s, c)
  IN  [w EXCEPT !.cn[c].st[s] = "closed", !.cn[c].q[s] = <<>>,
                !.sv[s].hold = [n \in DOMAIN @ |-> IF n = e.name /\ e.st = "server"
                                                   THEN w.now + nScene.freq ELSE @[n]]]

exit_downlinks(w, s, n) ==
  [w EXCEPT !.sv[s].list = SelectSeq(@, LAMBDA e : ~a_kills_b_too(w, s, n, e.name))]

exit_client(w, s, n, killer) ==
  LET v == FindClient(w, s, n)
      from == FindClient(w, s, killer).cn
      told == IF v.cn # from /\ v.st \in {"server", "handshake"}
              THEN Put(w, s, v.cn, [k |-> "SQUIT", src |-> killer, name |-> s, ts |-> 0]) ELSE w
      shut == IF v.up = s THEN close_connection(told, s, v.cn) ELSE w
      spread == IF v.st = "server"
                THEN SendDown(shut, s, {from, IF v.up = s THEN v.cn ELSE 0},
                              [k |-> "SQUIT", src |-> killer, name |-> n, ts |-> v.ts])
                ELSE shut
  IN  exit_downlinks(spread, s, n)

\* The connection leaves, whether or not it has become a server.
exit_cptr(w, s, c) ==
  IF Peer(w, s, c).st = "none" THEN close_connection(w, s, c)
  ELSE exit_client(w, s, Peer(w, s, c).name, s)

\* sptr is 0 for a connection that is not a server yet.
exit_new_server(w, s, c, sptr, host, ts) ==
  IF sptr = 0 THEN exit_cptr(w, s, c)
  ELSE Put(w, s, c, [k |-> "SQUIT", src |-> s, name |-> host, ts |-> ts])

(***************************************************************************)
(* m_server.c: loops, leaves and hubs                                      *)
(***************************************************************************)
\* An announcement: connection c, sptr the server that sent it (0 for the
\* connection itself), host and so on; ghost says that it is a direct link.
LinkTs(w, s, n, ts) == IF n = 0 THEN ts ELSE FindClient(w, s, n).ts

\* The first of the links with the greatest timestamp, starting from best; 0 is the new link.
Younger(w, s, links, best, but, ts) ==
  FoldLeft(LAMBDA b, n : IF n # but /\ LinkTs(w, s, n, ts) > LinkTs(w, s, b, ts) THEN n ELSE b,
           best, links)

\* The lesser name of a link's two ends.
LinkName(w, s, n, a) ==
  IF n = 0 THEN Min({a.host, IF a.sptr = 0 THEN s ELSE a.sptr})
  ELSE Min({n, FindClient(w, s, n).up})

\* Of the youngest link c3 and the next one, which is it for the same second.
ByName(w, s, a, c3, c2) ==
  IF LinkTs(w, s, c2, a.ts) = LinkTs(w, s, c3, a.ts)
     /\ LinkName(w, s, c3, a) > LinkName(w, s, c2, a)
  THEN c3 ELSE c2

SecondTo(w, s, acptr, a, path, old) ==
  LET isNew == a.ts > LinkTs(w, s, old, a.ts)
      c3 == IF isNew THEN 0 ELSE old
  IN  ByName(w, s, a, c3, Younger(w, s, path, IF isNew THEN acptr ELSE 0, c3, a.ts))

SecondYoungest(w, s, acptr, a) ==
  LET path == Uplinks(w, s, acptr) \o Uplinks(w, s, a.sptr)
  IN  SecondTo(w, s, acptr, a, path, Younger(w, s, path, acptr, 0, a.ts))

\* A limit of the Connect block or of FEAT_HUB that the announcement meets.
LhLine(w, s, a) ==
  LET lh == nScene.lh[<<s, Peer(w, s, a.cn).name>>]
  IN  IF a.ghost
      THEN IF s \notin nScene.hub /\ Downlinks(w, s) # <<>> THEN "I_AM_NOT_HUB" ELSE "ALLOWED"
      ELSE IF a.hop > lh.max THEN "MAX_HOPS_EXCEEDED"
      ELSE IF a.host \notin lh.mask THEN "NOT_ALLOWED_TO_HUB" ELSE "ALLOWED"

\* The junction that a bursting link came in through, 0 if there is none.
LhClient(w, s, a, line) ==
  LET ups == SelectSeq(Uplinks(w, s, a.sptr), LAMBDA n : FindClient(w, s, n).junct)
  IN  IF line = "NOT_ALLOWED_TO_HUB" /\ a.junction /\ ups # <<>> THEN ups[1] ELSE 0

\* What is done about a server that is known already.  x is the walk of
\* check_loop_and_lh: world, limit, whom the limit removes, and, once it is
\* over, what it returns: 1, 0 or -1 for a connection that was killed.
Leave(x, w, ret) == [x EXCEPT !.w = w, !.on = FALSE, !.ret = ret]

KillSecond(x, s, a, acptr, c2) ==
  LET w == x.w
      real == FindClient(w, s, c2).cn = a.cn \/ a.sptr # 0
      victim == IF real THEN c2 ELSE acptr.name
      limited == x.line # "ALLOWED"
      covered == limited /\ x.lh # 0 /\ a_kills_b_too(w, s, x.lh, victim)
      solves == \/ FindClient(w, s, victim).cn = a.cn
                \/ x.lh # 0 /\ a_kills_b_too(w, s, victim, x.lh)
      lagged == real /\ w.now - Peer(w, s, a.cn).ghost < 20
      out == IF lagged THEN acptr.name ELSE victim
      over == real /\ FindClient(w, s, out).cn = a.cn
  IN  IF covered THEN [x EXCEPT !.on = FALSE]
      ELSE IF limited /\ ~solves THEN [x EXCEPT !.on = FALSE, !.lh = 0]
      ELSE [x EXCEPT !.w = exit_client(w, s, out, s), !.line = "ALLOWED", !.on = real /\ ~over,
                     !.ghost = IF real THEN @ ELSE w.now,
                     !.ret = IF ~over THEN @ ELSE IF out = Peer(w, s, a.cn).name THEN -1 ELSE 0]

Collide(x, s, a, acptr) ==
  LET c2 == SecondYoungest(x.w, s, acptr.name, a)
  IN  IF c2 # 0 THEN KillSecond(x, s, a, acptr, c2)
      ELSE Leave(x, exit_new_server(x.w, s, a.cn, a.sptr, a.host, a.ts), IF a.sptr = 0 THEN -1 ELSE 0)

Clash(x, s, a, acptr) ==
  LET w == x.w
  IN  CASE acptr.st = "me" \/ acptr.name # a.host -> Leave(x, exit_cptr(w, s, a.cn), -1)
        [] acptr.st = "connecting" ->
             [x EXCEPT !.w = IF x.line = "ALLOWED" THEN exit_client(w, s, acptr.name, s) ELSE w,
                       !.on = FALSE]
        [] acptr.st = "server" /\ acptr.name \in nScene.held ->
             Leave(x, exit_new_server(w, s, a.cn, a.sptr, a.host, a.ts),
                   IF a.sptr = 0 THEN -1 ELSE 0)
        [] acptr.st = "handshake" /\ acptr.cn = a.cn -> [x EXCEPT !.on = FALSE]
        [] OTHER -> Collide(x, s, a, acptr)

RECURSIVE Search(_, _, _)
Search(x, s, a) ==
  LET byName == FindClient(x.w, s, a.host)
      acptr == IF byName.st # "none" THEN byName
               ELSE FindNServer(x.w, s, nScene.num[a.host])
  IN  IF ~x.on \/ acptr.st = "none" THEN x ELSE Search(Clash(x, s, a, acptr), s, a)

KillLimited(x, s, a) ==
  LET victim == IF x.lh # 0 THEN x.lh ELSE a.sptr
  IN  IF x.ret # 1 \/ x.line = "ALLOWED" THEN x
      ELSE IF victim = 0 THEN Leave(x, exit_cptr(x.w, s, a.cn), -1)
      ELSE Leave(x, exit_client(x.w, s, victim, s), 0)

check_loop_and_lh(w, s, a) ==
  LET line == LhLine(w, s, a)
  IN  KillLimited(Search([w |-> w, line |-> line, lh |-> LhClient(w, s, a, line), on |-> TRUE,
                          ret |-> 1, ghost |-> -100], s, a), s, a)

(***************************************************************************)
(* jupe.c, m_jupe.c                                                        *)
(***************************************************************************)
NoJupe == [made |-> FALSE, active |-> FALSE, local |-> FALSE, ldeact |-> FALSE, lastmod |-> 0,
           expire |-> 0]
JupeIsActive(j) == j.made /\ j.active /\ ~j.ldeact

jupe_free(w, s, n) == [w EXCEPT !.sv[s].jupes[n] = NoJupe]

\* Looking a jupe up frees the expired ones it passes.
jupe_find(w, s, n) == IF w.sv[s].jupes[n].expire <= w.now THEN jupe_free(w, s, n) ELSE w
Juped(w, s, n) == JupeIsActive(jupe_find(w, s, n).sv[s].jupes[n])

JupeLine(w, s, src, n) ==
  LET j == w.sv[s].jupes[n]
  IN  [k |-> "JUPE", src |-> src, to |-> 0, name |-> n, active |-> j.active,
       off |-> j.expire - w.now, lastmod |-> j.lastmod]

propagate_jupe(w, s, c, src, n) ==
  IF w.sv[s].jupes[n].local THEN w ELSE SendDown(w, s, {c}, JupeLine(w, s, src, n))

do_jupe(w, s, n) ==
  LET e == FindServer(w, s, n)
  IN  IF JupeIsActive(w.sv[s].jupes[n]) /\ e.st = "server" /\ e.up = s
      THEN exit_client(w, s, n, s) ELSE w

jupe_add(w, s, c, src, n, off, lastmod, flags) ==
  IF off <= 0 \/ off > nScene.maxexpire THEN w
  ELSE LET made == [w EXCEPT !.sv[s].jupes[n] =
                      [made |-> TRUE, active |-> flags.active, local |-> flags.local,
                       ldeact |-> FALSE, lastmod |-> lastmod, expire |-> w.now + off]]
       IN  do_jupe(propagate_jupe(made, s, c, src, n), s, n)

Increased(j, lastmod) == IF j.lastmod >= lastmod THEN j.lastmod + 1 ELSE lastmod

jupe_activate(w, s, c, src, n, lastmod, flags) ==
  LET j == w.sv[s].jupes[n]
      on == IF flags.local THEN [j EXCEPT !.ldeact = FALSE]
            ELSE [j EXCEPT !.active = TRUE, !.lastmod = Increased(j, lastmod)]
      set == [w EXCEPT !.sv[s].jupes[n] = on]
      sent == IF flags.local THEN set ELSE propagate_jupe(set, s, c, src, n)
  IN  IF JupeIsActive(j) THEN set ELSE do_jupe(sent, s, n)

jupe_deactivate(w, s, c, src, n, lastmod, flags) ==
  LET j == w.sv[s].jupes[n]
      off == IF flags.local THEN [j EXCEPT !.ldeact = TRUE]
             ELSE [j EXCEPT !.active = FALSE, !.lastmod = Increased(j, lastmod)]
      set == [w EXCEPT !.sv[s].jupes[n] = off]
  IN  IF j.local THEN jupe_free(w, s, n)
      ELSE IF ~JupeIsActive(j) \/ flags.local THEN set
      ELSE propagate_jupe(set, s, c, src, n)

jupe_burst(w, s, c) ==
  FoldLeft(LAMBDA x, n : LET y == jupe_find(x, s, n)
                             j == y.sv[s].jupes[n]
                         IN  IF ~j.made \/ j.local THEN y
                             ELSE Put(y, s, c, JupeLine(y, s, s, n)),
           w, nScene.names)

jupe_resend(w, s, c, n) ==
  IF w.sv[s].jupes[n].local THEN w ELSE Put(w, s, c, JupeLine(w, s, s, n))

Jupe(w, s, c, src, n, off, lastmod, flags) ==
  IF flags.active THEN jupe_activate(w, s, c, src, n, lastmod, flags)
  ELSE jupe_deactivate(w, s, c, src, n, lastmod, flags)

\* mutant: an older change of a jupe is applied.
ms_jupe_older(w, s, c, src, m) ==
  LET flags == [local |-> m.to # 0, active |-> m.active]
      x == jupe_find(w, s, m.name)
      j == x.sv[s].jupes[m.name]
      e == FindServer(w, s, m.to)
  IN  IF m.to # 0 /\ e.st # "me" THEN (IF e.st = "none" THEN w ELSE Put(w, s, e.cn, m))
      ELSE IF ~j.made \/ (j.local /\ ~flags.local)
      THEN jupe_add(jupe_free(x, s, m.name), s, c, src, m.name, m.off, m.lastmod, flags)
      ELSE IF j.lastmod = m.lastmod THEN x
      ELSE Jupe(x, s, c, src, m.name, m.off, m.lastmod, flags)

ms_jupe(w, s, c, src, m) ==
  LET flags == [local |-> m.to # 0, active |-> m.active]
      x == jupe_find(w, s, m.name)
      j == x.sv[s].jupes[m.name]
      e == FindServer(w, s, m.to)
      link == Peer(w, s, c)
  IN  IF m.to # 0 /\ e.st # "me" THEN (IF e.st = "none" THEN w ELSE Put(w, s, e.cn, m))
      ELSE IF ~j.made \/ (j.local /\ ~flags.local)
      THEN jupe_add(jupe_free(x, s, m.name), s, c, src, m.name, m.off, m.lastmod, flags)
      ELSE IF j.lastmod < m.lastmod
      THEN Jupe(x, s, c, src, m.name, m.off, m.lastmod, flags)
      ELSE IF j.lastmod = m.lastmod \/ link.burst \/ link.ack THEN x
      ELSE jupe_resend(x, s, c, m.name)

\* to is -1 for a jupe of this server, 0 for one of the network.
mo_jupe(w, s, k) ==
  LET flags == [local |-> k.to \in {-1, s}, active |-> k.active]
      e == FindServer(w, s, k.to)
      x == jupe_find(w, s, k.name)
      j == x.sv[s].jupes[k.name]
  IN  IF k.to > 0 /\ k.to # s
      THEN IF e.st = "none" THEN w
           ELSE Put(w, s, e.cn, [k |-> "JUPE", src |-> s, to |-> k.to, name |-> k.name,
                                 active |-> k.active, off |-> k.off, lastmod |-> TStime(w, s)])
      ELSE IF ~j.made \/ (j.local /\ ~flags.local)
      THEN jupe_add(jupe_free(x, s, k.name), s, 0, s, k.name, k.off, TStime(w, s), flags)
      ELSE Jupe(x, s, 0, s, k.name, k.off, TStime(w, s), flags)

(***************************************************************************)
(* m_server.c, s_serv.c: a new link                                        *)
(***************************************************************************)

\* What a link does to the clocks: the offset, the start time and the
\* timestamp of the link.
check_start_timestamp(w, s, m, unknown, now) ==
  LET v == w.sv[s]
      earlier == m.start < v.start
      decides == unknown /\ (nScene.reliable[s] \/ ~earlier)
      follows == ~nScene.reliable[s] /\ (earlier \/ ~unknown)
  IN  [w |-> [w EXCEPT !.sv[s].start = IF earlier THEN m.start ELSE @,
                       !.sv[s].off = IF follows THEN @ + (m.ts - now) ELSE @],
       ts |-> IF decides THEN now ELSE m.ts]

Intro(w, s, ts) ==
  [k |-> "intro", src |-> s, name |-> s, start |-> w.sv[s].start, ts |-> ts]
ServerLine(e, src, hop, j) ==
  [k |-> "SERVER", src |-> src, name |-> e.name, hop |-> hop, ts |-> e.ts, junction |-> j]

\* The servers are told in the order in which they were learnt.
server_estab(w, s, e, unknown) ==
  LET greeted == IF unknown THEN Put(w, s, e.cn, Intro(w, s, e.ts)) ELSE w
      up == [e EXCEPT !.st = "server", !.burst = TRUE, !.junct = TRUE]
      others == SelectSeq(greeted.sv[s].list, LAMBDA x : x.name # e.name)
      added == [greeted EXCEPT !.sv[s].list = Append(others, up), !.cn[e.cn].st[s] = "server",
                               !.cn[e.cn].ts = e.ts]
      jupes == jupe_burst(SendDown(added, s, {e.cn}, ServerLine(up, s, 2, TRUE)), s, e.cn)
      burst == FoldLeft(LAMBDA x, o : IF o.st # "server" THEN x
                                      ELSE Put(x, s, e.cn, ServerLine(o, o.up, o.hop + 1, o.burst)),
                        jupes, others)
  IN  Put(burst, s, e.cn, [k |-> "EB", src |-> s])

\* The link is up at the time both agree on, unless x forbids it; a clock that is too far
\* off is set.
SetClock(w, s, c, gap) ==
  IF nScene.reliable[s] /\ (gap > ClockGap \/ gap < -ClockGap)
  THEN Put(w, s, c, [k |-> "SETTIME", src |-> s, t |-> TStime(w, s), to |-> -1]) ELSE w

LinkUp(x, s, c, m, unknown, now) ==
  LET clock == check_start_timestamp(x.w, s, m, unknown, now)
      e == [NoServer EXCEPT !.name = m.name, !.up = s, !.ts = clock.ts, !.ghost = x.ghost,
                            !.cn = c, !.hop = 1]
  IN  IF x.ret # 1 THEN x.w
      ELSE SetClock(server_estab(clock.w, s, e, unknown), s, c, clock.ts - now)

mr_server(w, s, c, m) ==
  LET a == [cn |-> c, sptr |-> 0, host |-> m.name, ts |-> m.ts, hop |-> 1, ghost |-> TRUE,
            junction |-> TRUE]
  IN  IF Juped(w, s, m.name) \/ <<s, m.name>> \in nScene.rules \/ m.ts < OLDEST_TS
         \/ m.start < OLDEST_TS \/ <<s, m.name>> \notin nScene.conf
      THEN exit_cptr(w, s, c)
      ELSE LinkUp(check_loop_and_lh(jupe_find(w, s, m.name), s, a), s, c, m,
                  w.cn[c].st[s] = "unknown", TStime(w, s))

Added(x, s, c, src, m) ==
  LET e == [NoServer EXCEPT !.name = m.name, !.up = src, !.ts = m.ts, !.cn = c, !.st = "server",
                            !.burst = m.junction, !.junct = m.junction, !.hop = m.hop]
  IN  IF x.ret # 1 THEN x.w
      ELSE SendDown([x.w EXCEPT !.sv[s].list = Append(@, e)], s, {c},
                    ServerLine(e, src, m.hop + 1, m.junction))

ms_server(w, s, c, src, m) ==
  LET a == [cn |-> c, sptr |-> src, host |-> m.name, ts |-> m.ts, hop |-> m.hop, ghost |-> FALSE,
            junction |-> m.junction]
  IN  IF m.ts < OLDEST_TS THEN (IF src = 0 THEN exit_cptr(w, s, c) ELSE exit_client(w, s, src, s))
      ELSE Added(check_loop_and_lh(w, s, a), s, c, src, m)

SetFlags(w, s, n, burst, ack) ==
  [w EXCEPT !.sv[s].list = [i \in DOMAIN @ |->
     IF @[i].name = n THEN [@[i] EXCEPT !.burst = burst, !.ack = ack] ELSE @[i]]]

ms_end_of_burst(w, s, c, src, m) ==
  LET x == SetFlags(SendDown(w, s, {c}, m), s, src, FALSE, TRUE)
  IN  IF FindClient(w, s, src).up = s THEN Put(x, s, c, [k |-> "EA", src |-> s]) ELSE x

ms_end_of_burst_ack(w, s, c, src, m) ==
  SetFlags(SendDown(w, s, {c}, m), s, src, FindClient(w, s, src).burst, FALSE)


ms_squit(w, s, c, src, m) ==
  LET e == FindServer(w, s, m.name)
      out == IF e.st = "me" THEN Peer(w, s, c) ELSE e
  IN  IF e.st = "none" \/ m.ts \notin {0, out.ts} THEN w ELSE exit_client(w, s, out.name, src)

mo_squit(w, s, k) ==
  IF FindServer(w, s, k.name).st = "server" THEN exit_client(w, s, k.name, s) ELSE w

connect_server(w, s, n) ==
  IF FindClient(w, s, n).st # "none" THEN w
  ELSE LET c == Len(w.cn) + 1
       IN  [w EXCEPT
              !.cn = Append(@, [ends |-> <<s, n>>, broken |-> FALSE, ts |-> 0,
                                st |-> (s :> "connecting" @@ n :> "none"),
                                q |-> (s :> <<>> @@ n :> <<>>)]),
              !.sv[s].list = Append(@, [NoServer EXCEPT !.name = n, !.up = s, !.cn = c,
                                                        !.st = "connecting"])]

\* What ms_connect and mo_connect do on the server that is to connect.
Connect(w, s, n) ==
  IF <<s, n>> \notin nScene.conf \/ FindServer(w, s, n).st # "none"
     \/ <<s, n>> \in nScene.rules \/ Juped(w, s, n)
  THEN w ELSE connect_server(w, s, n)

\* A command for another server goes on to it.
hunt_server_cmd(w, s, to, m) ==
  IF FindServer(w, s, to).st = "server" THEN Put(w, s, FindServer(w, s, to).cn, m) ELSE w

ms_connect(w, s, c, src, m) ==
  IF FindServer(w, s, m.to).st = "me" THEN Connect(w, s, m.name)
  ELSE hunt_server_cmd(w, s, m.to, [m EXCEPT !.src = src])

mo_connect(w, s, k) ==
  IF FindServer(w, s, k.to).st = "me" THEN Connect(w, s, k.name)
  ELSE hunt_server_cmd(w, s, k.to, [k |-> "CONNECT", src |-> s, name |-> k.name, to |-> k.to])

\* The timestamp of a link is unlike that of any other link of this server.
completed_connection(w, s, c) ==
  LET others == {w.sv[s].list[i] : i \in DOMAIN w.sv[s].list}
      used == {e.ts : e \in {x \in others : x.up = s /\ x.st \in {"server", "handshake"}}}
      newts == Max({TStime(w, s)} \cup {t + 1 : t \in used})
      n == Peer(w, s, c).name
      up == [w EXCEPT !.sv[s].list = [i \in DOMAIN @ |->
               IF @[i].name = n THEN [@[i] EXCEPT !.ts = newts, !.st = "handshake"] ELSE @[i]],
                      !.cn[c].st = [x \in DOMAIN @ |-> IF x = s THEN "handshake" ELSE "unknown"]]
  IN  Put(up, s, c, Intro(w, s, newts))

\* The first entry that may be tried is moved to the end of the list;
\* an entry that might have been tried and was not has waited once more.
try_connections(w, s) ==
  LET v == w.sv[s]
      may(n) == /\ ~Juped(w, s, n) /\ v.hold[n] <= w.now /\ <<s, n>> \notin nScene.full
                /\ FindServer(w, s, n).st = "none" /\ <<s, n>> \notin nScene.rules
      able == SelectSeq(v.auto, may)
      n == able[1]
      seen == IF able = <<>> THEN ToSet(v.auto)
              ELSE ToSet(SubSeq(v.auto, 1, CHOOSE i \in DOMAIN v.auto : v.auto[i] = n))
      later == {v.hold[x] : x \in {y \in seen : v.hold[y] > w.now /\ ~Juped(w, s, y)}}
      set == [w EXCEPT !.sv[s].next = Min(later \cup {w.now + nScene.freq})]
      taken == [set EXCEPT !.sv[s].auto = Append(SelectSeq(@, LAMBDA x : x # n), n),
                           !.sv[s].waits = [x \in DOMAIN @ |->
                  IF x = n THEN 0 ELSE IF x \in ToSet(able) THEN @[x] + 1 ELSE @[x]]]
  IN  IF able = <<>> THEN set ELSE connect_server(taken, s, n)

(***************************************************************************)
(* m_settime.c                                                             *)
(***************************************************************************)

SettimeApplied(w, s, t) ==
  IF nScene.reliable[s] THEN w ELSE [w EXCEPT !.sv[s].off = @ - (TStime(w, s) - t)]

\* to: 0 for everyone, -1 for a server nobody knows.
ms_settime(w, s, c, src, m) ==
  LET dt == TStime(w, s) - m.t
      fixed == [m EXCEPT !.src = src, !.t = IF nScene.reliable[s] THEN TStime(w, s) ELSE @]
      e == FindServer(w, s, m.to)
      hunted == hunt_server_cmd(w, s, m.to, fixed)
  IN  IF m.t < OLDEST_TS \/ dt < -FarAhead THEN w
      ELSE IF m.to = 0 THEN SettimeApplied(SendDown(w, s, {c}, fixed), s, m.t)
      ELSE IF e.st = "me" THEN SettimeApplied(w, s, m.t)
      ELSE IF nScene.reliable[s] /\ (dt > ClockGap \/ dt < -ClockGap)
      THEN Put(hunted, s, c, [fixed EXCEPT !.src = s, !.to = Peer(w, s, c).name])
      ELSE hunted

mo_settime(w, s, k) ==
  LET t == IF k.t = 0 \/ nScene.reliable[s] THEN TStime(w, s) ELSE k.t
      e == FindServer(w, s, k.to)
  IN  IF t < OLDEST_TS \/ TStime(w, s) - t < -FarAhead \/ e.st = "none" THEN w
      ELSE LET aimed == [w EXCEPT !.aim = [to |-> k.to, t |-> t, at |-> w.now]]
           IN  IF e.st = "me" THEN SettimeApplied(aimed, s, t)
               ELSE hunt_server_cmd(aimed, s, k.to, [k |-> "SETTIME", src |-> s, t |-> t, to |-> k.to])

(***************************************************************************)
(* parse.c: a line is dropped when its prefix is not known, or is known    *)
(* behind another link; a SQUIT from an unknown prefix counts as its       *)
(* link's own.                                                             *)
(***************************************************************************)

parse_server(w, s, c, m) ==
  LET f == FindNServer(w, s, nScene.num[m.src])
      src == IF f.st = "none" THEN Peer(w, s, c).name ELSE m.src
  IN  IF (f.st = "none" /\ m.k # "SQUIT") \/ (f.st # "none" /\ f.cn # c) THEN w
      ELSE CASE m.k = "SERVER" -> ms_server(w, s, c, src, m)
             [] m.k = "SQUIT" -> ms_squit(w, s, c, src, m)
             [] m.k = "EB" -> ms_end_of_burst(w, s, c, src, m)
             [] m.k = "EA" -> ms_end_of_burst_ack(w, s, c, src, m)
             [] m.k = "JUPE" -> ms_jupe(w, s, c, src, m)
             [] m.k = "CONNECT" -> ms_connect(w, s, c, src, m)
             [] m.k = "SETTIME" -> ms_settime(w, s, c, src, m)
             [] OTHER -> w

(***************************************************************************)
(* Actions                                                                 *)
(***************************************************************************)
Ends(w) == {<<s, c>> \in Nodes \X DOMAIN w.cn : s \in ToSet(w.cn[c].ends)}

\* A link was made in this second.
Used == \E c \in DOMAIN nw.cn : nw.cn[c].ts = nw.now

\* A line is read from a connection.
ReadLine(s, c) ==
  LET m == Head(nw.cn[c].q[s])
      w == [nw EXCEPT !.cn[c].q[s] = Tail(@)]
  IN  /\ nw.cn[c].q[s] # <<>>
      /\ nw.cn[c].st[s] = "unknown" /\ nScene.apart => ~Used
      /\ nw' = IF nw.cn[c].st[s] = "server" THEN parse_server(w, s, c, m)
               ELSE IF m.k = "intro" THEN mr_server(w, s, c, m) ELSE w

\* The other end has closed, or the connection broke.
LinkLost(s, c) ==
  /\ nw.cn[c].st[s] \in {"unknown", "handshake", "server"}
  /\ nw.cn[c].q[s] = <<>>
  /\ nw.cn[c].broken \/ nw.cn[c].st[OtherEnd(nw, s, c)] = "closed"
  /\ nw' = exit_cptr(nw, s, c)

Connected(s, c) ==
  /\ nw.cn[c].st[s] = "connecting" /\ <<s, OtherEnd(nw, s, c)>> \notin nScene.down
  /\ nw' = completed_connection(nw, s, c)

ConnectFails(s, c) ==
  /\ nw.cn[c].st[s] = "connecting" /\ <<s, OtherEnd(nw, s, c)>> \in nScene.down
  /\ nw' = exit_cptr(nw, s, c)

LinkBreaks(s, c) ==
  /\ nw.breaks > 0
  /\ nw.cn[c].st[s] \in {"handshake", "server"} /\ ~nw.cn[c].broken
  /\ nw' = [nw EXCEPT !.breaks = @ - 1, !.cn[c].broken = TRUE,
                      !.cn[c].q = [x \in DOMAIN @ |-> <<>>]]

Order(i) ==
  LET k == nScene.cmds[i]
      w == [nw EXCEPT !.todo = @ \ {i}]
  IN  /\ i \in nw.todo
      /\ nw' = CASE k.k = "connect" -> mo_connect(w, k.at, k)
                 [] k.k = "squit" -> mo_squit(w, k.at, k)
                 [] k.k = "jupe" -> [mo_jupe(w, k.at, k) EXCEPT !.now = @ + 1]
                 [] k.k = "settime" -> mo_settime(w, k.at, k)

ConnectTimer(s) ==
  /\ nScene.auto[s] # <<>> /\ nw.sv[s].next <= nw.now
  /\ nw' = try_connections(nw, s)

ClockTicks ==
  /\ nw.now < nScene.until /\ (nScene.apart => Used)
  /\ nw' = [nw EXCEPT !.now = @ + 1]

\* The links of nScene.links are up to begin with.
Initial(i) == ToSet(nScene.links[i])
Linked(a, b) == \E i \in DOMAIN nScene.links : Initial(i) = {a, b}
LinkOf(a, b) == CHOOSE i \in DOMAIN nScene.links : Initial(i) = {a, b}

From(s, up, cn) ==
  FlattenSeq([i \in DOMAIN nScene.names |->
    LET n == nScene.names[i]
        c == IF up = s THEN LinkOf(up, n) ELSE cn
    IN  IF n \in {s, up} \/ ~Linked(up, n) THEN <<>>
        ELSE <<[NoServer EXCEPT !.name = n, !.up = up, !.ts = LinkOf(up, n), !.cn = c,
                                !.st = "server", !.hop = 1]>> ])

RECURSIVE Behind(_, _, _)
Behind(s, todo, list) ==
  IF todo = <<>> THEN list
  ELSE LET e == Head(todo)
           more == SelectSeq(From(s, e.name, e.cn), LAMBDA x : x.name # e.up)
           next == [i \in DOMAIN more |-> [more[i] EXCEPT !.hop = e.hop + 1]]
       IN  Behind(s, Tail(todo) \o next, Append(list, e))

SrvInit ==
  /\ nScene \in SrvScenes
  /\ nw = [now |-> nScene.now, todo |-> DOMAIN nScene.cmds, breaks |-> nScene.breaks,
           aim |-> [to |-> 0, t |-> 0, at |-> 0],
           cn |-> [i \in DOMAIN nScene.links |->
                     [ends |-> nScene.links[i], broken |-> FALSE, ts |-> i,
                      st |-> [s \in Initial(i) |-> "server"], q |-> [s \in Initial(i) |-> <<>>]]],
           sv |-> [s \in Nodes |->
                     [list |-> Behind(s, From(s, s, 0), <<>>), start |-> nScene.start[s],
                      off |-> nScene.off[s], auto |-> nScene.auto[s], next |-> nScene.now,
                      jupes |-> [n \in Nodes |-> NoJupe], hold |-> [n \in Nodes |-> 0],
                      waits |-> [n \in Nodes |-> 0]]]]

SrvNext ==
  /\ UNCHANGED nScene
  /\ \/ \E e \in Ends(nw) : \/ ReadLine(e[1], e[2])
                             \/ LinkLost(e[1], e[2])
                             \/ Connected(e[1], e[2])
                             \/ ConnectFails(e[1], e[2])
                             \/ LinkBreaks(e[1], e[2])
     \/ \E i \in DOMAIN nScene.cmds : Order(i)
     \/ \E s \in Nodes : ConnectTimer(s)
     \/ ClockTicks

SrvSpec == SrvInit /\ [][SrvNext]_nwVars

(***************************************************************************)
(* Properties                                                              *)
(***************************************************************************)
Lists(s) == ToSet(nw.sv[s].list)
Ours(s) == {e \in Lists(s) : e.st = "server"}

\* No line is under way, no connection is being made or taken down.
AtRest == \A e \in Ends(nw) :
  /\ nw.cn[e[2]].q[e[1]] = <<>>
  /\ nw.cn[e[2]].st[e[1]] \notin {"connecting", "handshake", "unknown"}
  /\ nw.cn[e[2]].st[e[1]] = "server" =>
       ~nw.cn[e[2]].broken /\ nw.cn[e[2]].st[OtherEnd(nw, e[1], e[2])] # "closed"

\* What each server knows is a tree: check_loop_and_lh and exit_client leave
\* one entry for a name and for a numeric, none for the server itself, and
\* none whose uplink is gone or is reached by another connection.
TreesSound == \A s \in Nodes :
  LET list == nw.sv[s].list
  IN  /\ \A i, j \in DOMAIN list : i # j => list[i].name # list[j].name
      /\ \A e \in Ours(s) :
           /\ nScene.num[e.name] # nScene.num[s]
           /\ \A o \in Ours(s) \ {e} : nScene.num[o.name] # nScene.num[e.name]
      /\ \A i \in DOMAIN list :
           /\ list[i].name # s
           /\ list[i].up = s => nw.cn[list[i].cn].st[s] = list[i].st
           /\ list[i].up # s => \E j \in 1 .. i - 1 : /\ list[j].name = list[i].up
                                                      /\ list[j].cn = list[i].cn
                                                      /\ list[j].st = "server"

\* The servers s knows behind connection c, with their uplinks and link timestamps.
BehindLink(s, c) == {<<e.name, e.up, e.ts>> : e \in {x \in Ours(s) : x.cn = c}}
NotBehind(s, c) == {<<e.name, e.up, e.ts>> : e \in {x \in Ours(s) : x.cn # c}}

\* No two links were made in the same second.
DistinctTimes == \A c, d \in DOMAIN nw.cn : c # d /\ nw.cn[c].ts # 0 => nw.cn[c].ts # nw.cn[d].ts

\* Once nothing is under way the servers agree: whatever links were made at
\* the same time, closed loops or broke, both ends of a link hold it, with one
\* timestamp, and each knows exactly what the other knows beyond it
\* (SERVER, SQUIT and the rules for lagged lines in parse_server).
NetworkAgrees == AtRest /\ DistinctTimes => \A s \in Nodes : \A e \in {x \in Ours(s) : x.up = s} :
  /\ nw.cn[e.cn].st[e.name] = "server"
  /\ \E o \in Ours(e.name) : o.name = s /\ o.cn = e.cn /\ o.up = e.name /\ o.ts = e.ts
  /\ BehindLink(s, e.cn) = {<<e.name, s, e.ts>>} \cup NotBehind(e.name, e.cn)

\* A jupe of the whole network that no server will have forgotten.
Lasting(j) == j.made /\ ~j.local /\ j.expire > nScene.until + Len(nScene.cmds)

\* A server never has a link of its own to a server it holds an active jupe
\* for, however the link and the jupe came about (do_jupe, mr_server), and once
\* nothing is under way the ends of a link agree on what is juped, whichever
\* changes crossed or were made while they were apart, unless two of them carry
\* the same second (ms_jupe, jupe_burst).
JupesObeyed ==
  /\ \A s, n \in Nodes : JupeIsActive(nw.sv[s].jupes[n]) /\ nw.sv[s].jupes[n].expire > nw.now
                           => ~ \E e \in Ours(s) : e.name = n /\ e.up = s
  /\ AtRest => \A s, n \in Nodes : \A e \in {x \in Ours(s) : x.up = s} :
       LET a == nw.sv[s].jupes[n]
           b == nw.sv[e.name].jupes[n]
       IN  Lasting(a) => Lasting(b) /\ (a.active = b.active \/ a.lastmod = b.lastmod)

\* The one case in which neither clock is moved: the server that was started
\* later has the reliable clock and makes the connection.
Ignored(s, o) == nScene.reliable[s] /\ nScene.start[s] > nScene.start[o]

\* Once nothing is under way linked servers have the same start time, and
\* clocks that differ by no more than the time the lines took
\* (check_start_timestamp); the clock an operator set is as late as the
\* SETTIME was under way, at most, compared with the time they gave or with a
\* reliable clock on its path (ms_settime).
ClocksFollow == AtRest => \A s \in Nodes :
  /\ nw.aim.to = s /\ ~nScene.reliable[s] =>
       LET sure == {o \in Nodes : nScene.reliable[o]}
       IN  IF sure = {} THEN TStime(nw, s) - nw.aim.t \in 0 .. nw.now - nw.aim.at
           ELSE \A o \in sure : TStime(nw, o) - TStime(nw, s) \in 0 .. nw.now - nw.aim.at
  /\ \A e \in {x \in Ours(s) : x.up = s} :
       nw.aim.to = 0 /\ nScene.links = <<>> /\ ~Ignored(s, e.name) /\ ~Ignored(e.name, s)
         => /\ nw.sv[s].start = nw.sv[e.name].start
            /\ TStime(nw, s) - TStime(nw, e.name) \in nScene.now - nw.now .. nw.now - nScene.now

\* Every server of the Connect blocks gets its turn: one that may be tried is
\* passed over only while each of the others is tried once (try_connections
\* moves an entry to the end of the list when it is used).
TurnsTaken == \A s \in Nodes : \A n \in ToSet(nw.sv[s].auto) :
  nw.sv[s].waits[n] < Len(nw.sv[s].auto)


\* What operators order of a network is kept to while it links and splits: jupes keep servers out
\* and are the same everywhere, clocks follow SETTIME and the older server, and each Connect block
\* gets its turn (do_jupe, jupe_burst, ms_settime, check_start_timestamp, try_connections).
OrdersKept == JupesObeyed /\ ClocksFollow /\ TurnsTaken
=============================================================================
