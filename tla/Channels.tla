------------------------------ MODULE Channels ------------------------------
(***************************************************************************)
(* One channel on a network of servers: creating and joining it, PART,     *)
(* KICK, channel operators, the modes +i and +k, and how time stamps       *)
(* settle what crosses on the way and what two sides of a split made of    *)
(* the channel (m_burst.c, m_join.c, m_create.c, m_mode.c, m_kick.c,       *)
(* m_part.c, m_endburst.c and the mode parser and zombies of channel.c).   *)
(* Features have their defaults: no op-levels, zannels, half-ops or        *)
(* exceptions.  A burst fits in one line.  Bans, topic, invites, voice,    *)
(* delayed joins and persistent channels are left out.                     *)
(***************************************************************************)
EXTENDS Naturals, Sequences, SequencesExt, FiniteSets, FiniteSetsExt, Functions

CONSTANTS
  Servers,
  Via,          \* Via[s][h]: the neighbour of s on the way to h
  Home,         \* Home[u]: the server of user u
  NoChan,       \* FindChannel found nothing
  MaxKey,       \* keys are 1 .. MaxKey, in strcmp order; 0 is no key
  Grace,        \* seconds by which the time stamp of an empty channel may differ
  MaxTime,      \* bound on the clock
  MaxQueue,     \* bound on the messages on the way in one direction of a link
  MaxActs,      \* bound on what users do
  Scenes        \* what happens in a behaviour is limited to one of these

\* A scene: the servers that take part; those that are linked at first; how many links
\* are made; until when; what users may do, and how often; whether they are patient
\* and do nothing while messages are on the way; whether servers read for ever.
Scene == [net : SUBSET Servers, linked : SUBSET Servers, links : Nat, time : 1 .. MaxTime,
          ops : SUBSET {"part", "kick", "op", "invite", "key", "kill", "split"},
          acts : 0 .. MaxActs, patient : BOOLEAN, fair : BOOLEAN]

Users == DOMAIN Home
Neighbours(s) == {n \in Servers \ {s} : Via[s][n] = n}

ASSUME ChannelsConstants ==
  /\ Via \in [Servers -> [Servers -> Servers]]
  /\ \A s, h \in Servers : s # h => Via[s][h] \in Neighbours(s)
  /\ \A s \in Servers : \A n \in Neighbours(s) : s \in Neighbours(n)
  /\ \A u \in Users : Home[u] \in Servers
  /\ MaxKey \in Nat /\ Grace \in Nat /\ MaxTime \in Nat /\ MaxQueue \in Nat
  /\ MaxActs \in Nat
  /\ \A sc \in Scenes : sc \in Scene

VARIABLES
  now,      \* TStime()
  chan,     \* chan[s]: the channel at server s
  users,    \* users[s]: the users s knows
  known,    \* known[s]: the servers s knows, itself included
  burst,    \* burst[s][h]: h is sending its net burst, or has not acknowledged ours
  up,       \* up[s][n]: s has a link to its neighbour n
  queue,    \* queue[s][n]: messages from s to n
  acts, links,
  scene

vars == <<now, chan, users, known, burst, up, queue, acts, links, scene>>

Keys == 0 .. MaxKey
Times == 0 .. MaxTime + MaxActs
Statuses == SUBSET {"o", "z"}     \* CHFL_CHANOP, CHFL_ZOMBIE
Memberships(S) == UNION {[U -> S] : U \in SUBSET Users}
Chans == [ts : Times, mem : Memberships(Statuses), inv : BOOLEAN, key : Keys, added : BOOLEAN]
Changes == [add : BOOLEAN, m : {"o"}, u : Users] \cup [add : BOOLEAN, m : {"i"}]
           \cup [add : BOOLEAN, m : {"k"}, key : Keys \ {0}]
Messages ==
  [cmd : {"CREATE", "JOIN"}, u : Users, ts : Times]
  \cup [cmd : {"PART", "QUIT", "KILL"}, u : Users]
  \cup [cmd : {"KICK"}, src : Users \cup Servers, who : Users]
  \cup [cmd : {"MODE"}, src : Users \cup Servers, ch : SUBSET Changes, ts : Times]
  \cup [cmd : {"BURST"}, src : Servers, ts : Times, inv : BOOLEAN, key : Keys,
        mem : Memberships(BOOLEAN)]
  \cup [cmd : {"EOB", "EOB_ACK", "SQUIT"}, h : Servers]
  \cup [cmd : {"SERVER"}, h : Servers, j : BOOLEAN] \cup [cmd : {"NICK"}, us : SUBSET Users]

TypeOK ==
  /\ now \in 1 .. MaxTime
  /\ chan \in [Servers -> Chans \cup {NoChan}]
  /\ users \in [Servers -> SUBSET Users]
  /\ known \in [Servers -> SUBSET Servers]
  /\ burst \in [Servers -> [Servers -> {"", "burst", "ack"}]]
  /\ up \in [Servers -> [Servers -> BOOLEAN]]
  /\ \A s, n \in Servers : \A i \in DOMAIN queue[s][n] : queue[s][n][i] \in Messages

Init ==
  /\ now = 1
  /\ chan = [s \in Servers |-> NoChan]
  /\ scene \in Scenes
  /\ known = [s \in Servers |-> IF s \in scene.linked THEN scene.linked ELSE {s}]
  /\ users = [s \in Servers |-> {u \in Users : Home[u] \in known[s] \cap scene.net}]
  /\ burst = [s \in Servers |-> [h \in Servers |-> ""]]
  /\ up = [s \in Servers |-> [n \in Servers |-> n \in known[s] \cap Neighbours(s)]]
  /\ queue = [s \in Servers |-> [n \in Servers |-> <<>>]]
  /\ acts = 0 /\ links = 0

-----------------------------------------------------------------------------
\* Server s at work: its own state and what it sends.  Nothing arrives at the
\* neighbours in gone, which have closed their end.
At(s) == [s |-> s, ch |-> chan[s], us |-> users[s], known |-> known[s], burst |-> burst[s],
          up |-> up[s], out |-> queue[s],
          gone |-> {n \in Servers : ~up[n][s] /\ queue[s][n] = <<>>}]

Become(w) ==
  /\ \A n \in Servers : Len(w.out[n]) <= MaxQueue
  /\ chan' = [chan EXCEPT ![w.s] = w.ch]
  /\ users' = [users EXCEPT ![w.s] = w.us]
  /\ known' = [known EXCEPT ![w.s] = w.known]
  /\ burst' = [burst EXCEPT ![w.s] = w.burst]
  /\ up' = [up EXCEPT ![w.s] = w.up]

Output(w) == queue' = [queue EXCEPT ![w.s] = w.out]

Send(w, to, m) ==
  [w EXCEPT !.out = [n \in Servers |->
     IF n \in to /\ w.up[n] /\ n \notin w.gone THEN Append(@[n], m) ELSE @[n]]]

sendcmdto_one(w, m, n) == Send(w, {n}, m)
sendcmdto_serv_butone(w, m, one) == Send(w, Servers \ {one}, m)

\* x and what is behind it, seen from s.
Behind(s, x) == {h \in Servers : h = x \/ (h # s /\ Via[x][h] # Via[x][s])}

ServerOf(src) == IF src \in Users THEN Home[src] ELSE src

-----------------------------------------------------------------------------
\* The channel and its members.
Member(c, u) == c # NoChan /\ u \in DOMAIN c.mem
IsZombie(c, u) == "z" \in c.mem[u]
IsChanOp(c, u) == Member(c, u) /\ "o" \in c.mem[u]

NewChannel(ts) == [ts |-> ts, mem |-> <<>>, inv |-> FALSE, key |-> 0, added |-> FALSE]

add_user_to_channel(c, u, flags) ==
  [c EXCEPT !.mem = [v \in DOMAIN c.mem \cup {u} |-> IF v = u THEN flags ELSE c.mem[v]]]

channel_all_zombies(c) == \A u \in DOMAIN c.mem : IsZombie(c, u)

\* The channel goes with its last member that is not a zombie.
remove_user_from_channel(c, u) ==
  IF ~Member(c, u) THEN c
  ELSE LET rest == [c EXCEPT !.mem = Restrict(c.mem, DOMAIN c.mem \ {u})]
       IN  IF channel_all_zombies(rest) THEN NoChan ELSE rest

\* who is kicked; cptr is the link the KICK came from, or w.s if it was made here.
make_zombie(w, who, cptr, src) ==
  LET c == [w.ch EXCEPT !.mem[who] = @ \cup {"z"}]
      v == [w EXCEPT !.ch = c]
      removed == [w EXCEPT !.ch = remove_user_from_channel(c, who)]
  IN  IF Home[who] = w.s
      THEN IF cptr = w.s THEN removed
           ELSE sendcmdto_one(removed, [cmd |-> "PART", u |-> who], cptr)
      ELSE IF Via[w.s][Home[who]] = cptr /\ ServerOf(src) \in Behind(w.s, Home[who])
      THEN removed
      ELSE IF channel_all_zombies(c) THEN removed ELSE v

\* exit_one_client: the user leaves the channel and the network.
exit_one_client(w, u) ==
  [w EXCEPT !.us = @ \ {u}, !.ch = remove_user_from_channel(@, u)]

joinbuf_join(w, u, flags, cptr) ==
  LET c == add_user_to_channel(w.ch, u, flags)
  IN  sendcmdto_serv_butone([w EXCEPT !.ch = c], [cmd |-> "JOIN", u |-> u, ts |-> c.ts], cptr)

joinbuf_create(w, u, ts, cptr) ==
  sendcmdto_serv_butone([w EXCEPT !.ch = add_user_to_channel(@, u, {"o"})],
                        [cmd |-> "CREATE", u |-> u, ts |-> ts], cptr)

-----------------------------------------------------------------------------
\* MODE.
Reverse_(x) == [x EXCEPT !.add = ~@]

\* The changes to simple modes and members that change something.
Real(c, ch) ==
  {x \in ch : \/ x.m = "i" /\ c.inv # x.add
              \/ x.m = "o" /\ Member(c, x.u) /\ IsChanOp(c, x.u) # x.add}

Set(c, ch) ==
  [c EXCEPT !.inv = IF \E x \in ch : x.m = "i" THEN \E x \in ch : x.m = "i" /\ x.add ELSE @,
            !.mem = [u \in DOMAIN c.mem |->
              IF \E x \in ch : x.m = "o" /\ x.u = u
              THEN IF \E x \in ch : x.m = "o" /\ x.u = u /\ x.add
                   THEN c.mem[u] \cup {"o"} ELSE c.mem[u] \ {"o"}
              ELSE c.mem[u]]]

\* The changes to the key, which are made while the line is parsed.
KeyChanges(c, ch, force) ==
  {x \in ch : /\ x.m = "k"
              /\ ~force => IF x.add THEN c.key = 0 ELSE c.key = x.key
              /\ x.add => c.key # x.key}
SetKey(c, ch) ==
  IF ch = {} THEN c
  ELSE LET x == CHOOSE x \in ch : TRUE IN [c EXCEPT !.key = IF x.add THEN x.key ELSE 0]

\* To bounce a key: the old one is set again, or the new one removed.
BounceKey(c, ch) ==
  {IF c.key # 0 THEN [x EXCEPT !.add = FALSE, !.key = c.key] ELSE [x EXCEPT !.add = TRUE]
     : x \in ch}

\* modebuf_flush with MODEBUF_DEST_BOUNCE: the reverse goes back.
Bounce(w, ch, deop, cptr) ==
  IF ch = {} THEN w
  ELSE sendcmdto_one(w, [cmd |-> "MODE", src |-> w.s, ts |-> w.ch.ts,
                         ch |-> {Reverse_(x) : x \in ch}
                                \cup {[add |-> FALSE, m |-> "o", u |-> u] : u \in deop}], cptr)

\* A MODE that is accepted is set and passed on with the time stamp of the channel.
Accepted(w, m, c, keys, cptr) ==
  LET real == Real(c, m.ch)
      v == [w EXCEPT !.ch = Set(c, real)]
  IN  IF real \cup keys = {} THEN v
      ELSE sendcmdto_serv_butone(v, [m EXCEPT !.ch = real \cup keys, !.ts = c.ts], cptr)

\* MODE from the link cptr, by a user or a server.  The time stamp comes last in
\* the line, when the key is set already.
ms_mode(w, m, cptr) ==
  LET c == w.ch
      keys == KeyChanges(c, m.ch, TRUE)
      d == SetKey(c, keys)
  IN  IF c = NoChan THEN w
      ELSE IF m.src \in Users /\ ~IsChanOp(c, m.src)
      THEN Bounce(w, Real(c, m.ch) \cup BounceKey(c, KeyChanges(c, m.ch, FALSE)), {m.src}, cptr)
      ELSE IF m.ts > c.ts
      THEN IF w.burst[cptr] # "" THEN [w EXCEPT !.ch = d]
           ELSE Bounce([w EXCEPT !.ch = d], Real(d, m.ch) \cup keys, {}, cptr)
      ELSE Accepted(w, m, IF m.ts # 0 THEN [d EXCEPT !.ts = m.ts] ELSE d, keys, cptr)

-----------------------------------------------------------------------------
\* Joining and leaving, as told by other servers.

\* An older channel won: modes and operators of this side are wiped out.
Wipe(c, ts) ==
  [c EXCEPT !.ts = ts, !.inv = FALSE, !.key = 0, !.mem = [u \in DOMAIN @ |-> @[u] \ {"o"}]]

ms_join(w, m, cptr) ==
  LET c == w.ch
      d == IF c = NoChan THEN NewChannel(m.ts) ELSE remove_user_from_channel(c, m.u)
      older == m.ts # 0 /\ (m.ts < d.ts \/ DOMAIN d.mem = {})
  IN  IF Member(c, m.u) /\ ~IsZombie(c, m.u) THEN w
      ELSE joinbuf_join([w EXCEPT !.ch = IF c # NoChan /\ older THEN Wipe(d, m.ts) ELSE d],
                        m.u, {}, cptr)

\* A CREATE that is too young: the user joins, without becoming operator.
ms_create(w, m, cptr) ==
  LET c == w.ch
      young == c # NoChan /\ c.ts # 0 /\ m.ts > c.ts /\ DOMAIN c.mem # {}
      bounce == young /\ w.burst[Home[m.u]] = ""
      v == IF ~bounce THEN w
           ELSE Bounce(w, {[add |-> TRUE, m |-> "o", u |-> m.u]}, {}, cptr)
  IN  IF Member(c, m.u) THEN w
      ELSE IF bounce \/ (young /\ m.ts > c.ts + Grace) THEN joinbuf_join(v, m.u, {}, cptr)
      ELSE joinbuf_create([w EXCEPT !.ch = IF c = NoChan THEN NewChannel(m.ts)
                                           ELSE [c EXCEPT !.ts = m.ts]],
                          m.u, m.ts, cptr)

ms_part(w, m, cptr) ==
  IF ~Member(w.ch, m.u) THEN w
  ELSE sendcmdto_serv_butone([w EXCEPT !.ch = remove_user_from_channel(@, m.u)], m, cptr)

\* mutant: a KICK by somebody who is not operator here is dropped
ms_kick_drop(w, m, cptr) ==
  IF \/ ~Member(w.ch, m.who) \/ IsZombie(w.ch, m.who)
     \/ m.src \in Users /\ ~IsChanOp(w.ch, m.src)
  THEN w ELSE make_zombie(sendcmdto_serv_butone(w, m, cptr), m.who, cptr, m.src)

\* A KICK by somebody who is not operator here is bounced: the victim joins
\* again and becomes operator again.
ms_kick(w, m, cptr) ==
  LET c == w.ch
      zombie == Member(c, m.who) /\ IsZombie(c, m.who)
      member == Member(c, m.who) /\ ~IsZombie(c, m.who)
      bounce == /\ m.src \in Users /\ member /\ Via[w.s][Home[m.who]] # cptr
                /\ ~IsChanOp(c, m.src)
      back == sendcmdto_one(w, [cmd |-> "JOIN", u |-> m.who, ts |-> 0], cptr)
      v == sendcmdto_serv_butone(w, m, cptr)
  IN  IF c = NoChan \/ m.who \notin w.us THEN w
      ELSE IF bounce
      THEN IF IsChanOp(c, m.who)
           THEN Bounce(back, {[add |-> FALSE, m |-> "o", u |-> m.who]}, {m.src}, cptr)
           ELSE back
      ELSE IF member THEN make_zombie(v, m.who, cptr, m.src)
      ELSE IF zombie /\ m.src = Home[m.who]
      THEN [v EXCEPT !.ch = remove_user_from_channel(@, m.who)]
      ELSE v

ms_quit(w, m, cptr) ==
  IF m.u \notin w.us THEN w ELSE sendcmdto_serv_butone(exit_one_client(w, m.u), m, cptr)

\* mutant: a KILL for a user that is gone is sent back too
ms_kill_bounce(w, m, cptr) ==
  IF m.u \notin w.us THEN sendcmdto_one(w, m, cptr)
  ELSE sendcmdto_serv_butone(exit_one_client(sendcmdto_one(w, m, cptr), m.u), m, cptr)

ms_kill(w, m, cptr) ==
  LET v == IF Home[m.u] = w.s THEN sendcmdto_one(w, m, cptr) ELSE w
  IN  IF m.u \notin w.us THEN w ELSE sendcmdto_serv_butone(exit_one_client(v, m.u), m, cptr)

-----------------------------------------------------------------------------
\* The net burst.
send_channel_modes(w) ==
  IF w.ch = NoChan THEN <<>>
  ELSE <<[cmd |-> "BURST", src |-> w.s, ts |-> w.ch.ts, inv |-> w.ch.inv, key |-> w.ch.key,
          mem |-> [u \in DOMAIN w.ch.mem |-> IsChanOp(w.ch, u)]]>>

\* Members of an older channel that its key or +i would have kept out.
NetRiders(w, c, m) ==
  {u \in DOMAIN c.mem : /\ Home[u] = w.s /\ ~IsZombie(c, u)
                        /\ m.inv \/ (m.key # 0 /\ m.key # c.key)}

\* They are kicked by the server, which tells all links.
KickNetRiders(w, riders) ==
  FoldLeft(LAMBDA v, u : make_zombie(sendcmdto_serv_butone(v, [cmd |-> "KICK", src |-> w.s,
                                                              who |-> u], w.s), u, w.s, w.s),
           w, SetToSeq(riders))

\* The simple modes and the key of a burst are added; of two keys the first in
\* the alphabet stays.
BurstModes(c, m) ==
  [c EXCEPT !.inv = @ \/ m.inv,
            !.key = IF m.key = 0 \/ (@ # 0 /\ @ <= m.key) THEN @ ELSE m.key]

\* The channel here is new or younger than that of the burst.
Older(c, ts) == c.ts = 0 \/ c.ts > ts

\* Then its modes go, except the key.
BurstTime(c, ts) == [c EXCEPT !.ts = ts, !.inv = FALSE, !.added = @ \/ c.ts = 0]

\* mutant: operators of the younger channel stay
BurstMembers_keep(c, m, joined, set, wipe) ==
  LET op(u) == IF set /\ m.mem[u] THEN {"o"} ELSE {}
      old(u) == IF u \in DOMAIN c.mem THEN c.mem[u] ELSE {}
  IN  [u \in joined \cup DOMAIN c.mem |-> IF u \in joined THEN old(u) \cup op(u) ELSE old(u)]

\* Those that joined; the operators of the younger channel are no longer.
BurstMembers(c, m, joined, set, wipe) ==
  LET op(u) == IF set /\ m.mem[u] THEN {"o"} ELSE {}
      old(u) == IF u \in DOMAIN c.mem THEN c.mem[u] ELSE {}
  IN  [u \in joined \cup DOMAIN c.mem |->
         IF u \in joined THEN old(u) \cup op(u)
         ELSE IF wipe THEN old(u) \ {"o"} ELSE old(u)]

\* A time stamp that is only a little older than ours is ignored if the channel is
\* empty there, and taken over if it is empty here.
ms_burst(w, m, cptr) ==
  LET c == IF w.ch = NoChan THEN NewChannel(0) ELSE w.ch
      empty == ~m.inv /\ m.key = 0 /\ DOMAIN m.mem = {}
      ts == IF empty /\ m.ts < c.ts /\ c.ts <= m.ts + Grace /\ DOMAIN c.mem # {}
            THEN c.ts ELSE m.ts
      c1 == IF ~empty /\ c.ts # 0 /\ c.ts < m.ts /\ m.ts <= c.ts + Grace /\ DOMAIN c.mem = {}
            THEN [c EXCEPT !.ts = m.ts] ELSE c
      v == IF Older(c1, ts) THEN KickNetRiders([w EXCEPT !.ch = c1], NetRiders(w, c1, m))
           ELSE [w EXCEPT !.ch = c1]
      c2 == IF v.ch = NoChan THEN NewChannel(0) ELSE v.ch
      wipe == Older(c2, ts)
      set == wipe \/ c2.ts = ts
      c3 == IF wipe THEN BurstTime(c2, ts) ELSE c2
      c4 == IF set THEN BurstModes(c3, m) ELSE c3
      joined == {u \in DOMAIN m.mem : u \in w.us /\ Via[w.s][Home[u]] = cptr}
  IN  sendcmdto_serv_butone(
        [v EXCEPT !.ch = [c4 EXCEPT !.mem = BurstMembers(c4, m, joined, set, wipe)]],
        [m EXCEPT !.ts = c4.ts, !.inv = c4.inv /\ ~c3.inv,
                  !.key = IF c4.key = c3.key THEN 0 ELSE c4.key,
                  !.mem = [u \in joined |-> set /\ m.mem[u]]], cptr)

ms_end_of_burst(w, m, cptr) ==
  LET v == sendcmdto_serv_butone([w EXCEPT !.burst[m.h] = "ack"], m, cptr)
      u == IF m.h = cptr THEN sendcmdto_one(v, [cmd |-> "EOB_ACK", h |-> w.s], cptr) ELSE v
  IN  [u EXCEPT !.ch = IF @ = NoChan THEN NoChan
                       ELSE IF @.added /\ DOMAIN @.mem = {} THEN NoChan
                       ELSE [@ EXCEPT !.added = FALSE]]

ms_end_of_burst_ack(w, m, cptr) ==
  sendcmdto_serv_butone([w EXCEPT !.burst[m.h] = IF @ = "ack" THEN "" ELSE @], m, cptr)

-----------------------------------------------------------------------------
\* Servers come and go.
Drop(w, x, from) ==
  LET lost == {u \in w.us : Home[u] \in Behind(w.s, x)}
      v == FoldLeft(exit_one_client, w, SetToSeq(lost))
  IN  [sendcmdto_serv_butone(v, [cmd |-> "SQUIT", h |-> x], from) EXCEPT
         !.known = @ \ Behind(w.s, x),
         !.burst = [h \in Servers |-> IF h \in Behind(w.s, x) THEN "" ELSE @[h]]]

ms_server(w, m, cptr) ==
  sendcmdto_serv_butone([w EXCEPT !.known = @ \cup {m.h},
                                  !.burst[m.h] = IF m.j THEN "burst" ELSE ""], m, cptr)

\* The users of a burst, whose servers have to be known.
ms_nick(w, m, cptr) ==
  LET us == {u \in m.us : Home[u] \in w.known}
  IN  sendcmdto_serv_butone([w EXCEPT !.us = @ \cup us], [m EXCEPT !.us = us], cptr)

ms_squit(w, m, cptr) ==
  IF m.h \notin w.known THEN w
  ELSE LET v == Drop(w, m.h, cptr)
       IN  IF m.h = cptr THEN [v EXCEPT !.up[cptr] = FALSE, !.out[cptr] = <<>>] ELSE v

\* The net burst: servers, users, the channel and the end of it.
Burst(w, n) ==
  LET side == w.known \ Behind(w.s, n)
      hs == SetToSeq(side \ {w.s})
  IN  [i \in DOMAIN hs |-> [cmd |-> "SERVER", h |-> hs[i], j |-> w.burst[hs[i]] = "burst"]]
      \o <<[cmd |-> "NICK", us |-> {u \in w.us : Home[u] \in side}]>>
      \o send_channel_modes(w) \o <<[cmd |-> "EOB", h |-> w.s]>>

\* server_estab: the other links hear of n, n gets the burst.
server_estab(w, n, hello) ==
  LET v == [w EXCEPT !.up[n] = TRUE, !.known = @ \cup {n}, !.burst[n] = "burst",
                     !.out[n] = hello]
      u == sendcmdto_serv_butone(v, [cmd |-> "SERVER", h |-> n, j |-> TRUE], n)
  IN  IF n \in w.gone /\ hello = <<>> THEN u ELSE [u EXCEPT !.out[n] = @ \o Burst(w, n)]

-----------------------------------------------------------------------------
\* The steps of the network.

\* What a user does that is not known is ignored.
Handle(w, m, n) ==
  CASE m.cmd = "JOIN" -> IF m.u \in w.us THEN ms_join(w, m, n) ELSE w
    [] m.cmd = "CREATE" -> IF m.u \in w.us THEN ms_create(w, m, n) ELSE w
    [] m.cmd = "PART" -> ms_part(w, m, n)
    [] m.cmd = "KICK" -> IF m.src \in w.us \cup w.known THEN ms_kick(w, m, n) ELSE w
    [] m.cmd = "MODE" -> IF m.src \in w.us \cup w.known THEN ms_mode(w, m, n) ELSE w
    [] m.cmd = "QUIT" -> ms_quit(w, m, n)
    [] m.cmd = "KILL" -> ms_kill(w, m, n)
    [] m.cmd = "BURST" -> ms_burst(w, m, n)
    [] m.cmd = "EOB" -> ms_end_of_burst(w, m, n)
    [] m.cmd = "EOB_ACK" -> ms_end_of_burst_ack(w, m, n)
    [] m.cmd = "SERVER" -> ms_server(w, m, n)
    [] m.cmd = "NICK" -> ms_nick(w, m, n)
    [] m.cmd = "SQUIT" -> ms_squit(w, m, n)

Read(s, n) ==
  /\ up[s][n] /\ queue[n][s] # <<>>
  /\ \E w \in {Handle(At(s), Head(queue[n][s]), n)} :
       /\ Become(w)
       /\ queue' = [queue EXCEPT ![s] = w.out, ![n][s] = Tail(@)]
  /\ UNCHANGED <<now, acts, links, scene>>

\* s accepts the connection of n, or reads the answer to its own.
Accept(s, n) ==
  /\ {s, n} \subseteq scene.net /\ n \in Neighbours(s) /\ links < scene.links
  /\ ~up[s][n] /\ ~up[n][s] /\ queue[s][n] = <<>> /\ queue[n][s] = <<>>
  /\ \E w \in {server_estab(At(s), n, <<[cmd |-> "SERVER", h |-> s, j |-> TRUE]>>)} :
       Become(w) /\ Output(w)
  /\ links' = links + 1
  /\ UNCHANGED <<now, acts, scene>>

Connected(s, n) ==
  /\ ~up[s][n] /\ queue[n][s] # <<>> /\ Head(queue[n][s]) = [cmd |-> "SERVER", h |-> n, j |-> TRUE]
  /\ \E w \in {server_estab(At(s), n, <<>>)} :
       /\ Become(w)
       /\ queue' = [queue EXCEPT ![s] = w.out, ![n][s] = Tail(@)]
  /\ UNCHANGED <<now, acts, links, scene>>

\* s closes its link to n: an error, a time-out or an operator's SQUIT.
Close(s, n) ==
  /\ "split" \in scene.ops
  /\ up[s][n] /\ up[n][s]
  /\ \E w \in {Drop(sendcmdto_one(At(s), [cmd |-> "SQUIT", h |-> s], n), n, n)} :
       /\ Become([w EXCEPT !.up[n] = FALSE])
       /\ queue' = [queue EXCEPT ![s] = w.out, ![n][s] = <<>>]
  /\ UNCHANGED <<now, acts, links, scene>>

-----------------------------------------------------------------------------
\* What users do.

\* Nothing is on the way and no link is half open.
Quiet ==
  \A s, n \in Servers : queue[s][n] = <<>> /\ up[s][n] = up[n][s]

MayAct == acts < scene.acts /\ acts' = acts + 1 /\ (scene.patient => Quiet)

Act(s, u, v) ==
  /\ MayAct
  /\ Home[u] = s /\ u \in users[s]
  /\ \E w \in {v} : Become(w) /\ Output(w)
  /\ UNCHANGED <<now, links, scene>>

\* JOIN with a key (0: none).  In an empty channel the user becomes operator,
\* which the server tells after the JOIN.
m_join(s, u, key) ==
  LET c == chan[s]
      v == joinbuf_join([At(s) EXCEPT !.ch.ts = @ + 1], u, {"o"}, s)
  IN  IF c = NoChan THEN Act(s, u, joinbuf_create([At(s) EXCEPT !.ch = NewChannel(now)], u, now, s))
      ELSE /\ ~Member(c, u)
           /\ IF DOMAIN c.mem = {}
              THEN Act(s, u, sendcmdto_serv_butone(v, [cmd |-> "MODE", src |-> s, ts |-> v.ch.ts,
                                ch |-> {[add |-> TRUE, m |-> "o", u |-> u]}], s))
              ELSE /\ (c.key # 0 => key = c.key) /\ ~c.inv
                   /\ Act(s, u, joinbuf_join(At(s), u, {}, s))

m_part(s, u) ==
  /\ "part" \in scene.ops /\ Member(chan[s], u)
  /\ Act(s, u, ms_part(At(s), [cmd |-> "PART", u |-> u], s))

m_kick(s, u, who) ==
  /\ "kick" \in scene.ops /\ IsChanOp(chan[s], u)
  /\ Member(chan[s], who) /\ ~IsZombie(chan[s], who)
  /\ Act(s, u, make_zombie(sendcmdto_serv_butone(At(s), [cmd |-> "KICK", src |-> u, who |-> who], s),
                           who, s, u))

\* MODE of an operator with one change.
m_mode(s, u, x) ==
  /\ x.m = "o" => "op" \in scene.ops
  /\ x.m = "i" => "invite" \in scene.ops
  /\ x.m = "k" => "key" \in scene.ops
  /\ IsChanOp(chan[s], u)
  /\ LET c == chan[s]
         keys == KeyChanges(c, {x}, FALSE)
     IN  /\ Real(c, {x}) \cup keys # {}
         /\ x.m = "o" => ~IsZombie(c, x.u)
         /\ Act(s, u, Accepted(At(s), [cmd |-> "MODE", src |-> u, ch |-> {x}, ts |-> c.ts],
                               SetKey(c, keys), keys, s))

m_quit(s, u) ==
  /\ "kill" \in scene.ops
  /\ Act(s, u, ms_quit(At(s), [cmd |-> "QUIT", u |-> u], s))

\* KILL by an operator on s of a user elsewhere.
mo_kill(s, u) ==
  /\ "kill" \in scene.ops /\ MayAct
  /\ u \in users[s] /\ Home[u] # s
  /\ \E w \in {ms_kill(At(s), [cmd |-> "KILL", u |-> u], s)} : Become(w) /\ Output(w)
  /\ UNCHANGED <<now, links, scene>>

Tick ==
  /\ now < scene.time
  /\ now' = now + 1
  /\ UNCHANGED <<chan, users, known, burst, up, queue, acts, links, scene>>

Next ==
  \/ Tick
  \/ \E s, n \in Servers : Read(s, n) \/ Accept(s, n) \/ Connected(s, n) \/ Close(s, n)
  \/ \E s \in Servers, u \in Users :
       \/ \E key \in Keys : m_join(s, u, key)
       \/ m_part(s, u)
       \/ \E who \in Users : m_kick(s, u, who)
       \/ \E x \in Changes : m_mode(s, u, x)
       \/ m_quit(s, u)
       \/ mo_kill(s, u)

Spec == Init /\ [][Next]_vars

\* Servers keep reading what arrives.
Reading == scene.fair /\ \E s, n \in Servers : Read(s, n) \/ Connected(s, n)
FairSpec == Spec /\ WF_vars(Reading)

-----------------------------------------------------------------------------
\* Properties

\* The members s knows that are on the servers in S.
MembersFrom(s, S) ==
  IF chan[s] = NoChan THEN {}
  ELSE {u \in DOMAIN chan[s].mem : Home[u] \in S /\ ~IsZombie(chan[s], u)}

\* The channel at two linked servers that have it.
Agree(P(_, _)) ==
  Quiet => \A s \in Servers : \A h \in known[s] :
             chan[s] # NoChan /\ chan[h] # NoChan => P(chan[s], chan[h])

\* When nothing is on the way, servers that are linked have the same members on the
\* channel: KICKs, PARTs, bounces and bursts leave nobody on one side only.
MembersAgree ==
  Quiet => \A s \in Servers : \A h \in known[s] :
             MembersFrom(s, known[s]) = MembersFrom(h, known[s])

\* And, if users wait for messages on the way, the same time stamp, on which the next
\* burst will be decided, the same +i and the same channel operators: a burst takes
\* from the younger side what the older does not have.
ModesAgree ==
  scene.patient =>
    Agree(LAMBDA x, y :
      /\ x.ts = y.ts /\ x.inv = y.inv
      /\ \A u \in DOMAIN x.mem \cap DOMAIN y.mem : IsChanOp(x, u) <=> IsChanOp(y, u))

\* And the same key.
KeysAgree == Agree(LAMBDA x, y : x.key = y.key)

\* A channel that a burst made without members does not outlive the burst, if the link
\* holds.
NoEmptyChannel ==
  Quiet /\ "split" \notin scene.ops => \A s \in Servers : chan[s] # NoChan => DOMAIN chan[s].mem # {}

\* A channel is never left to its zombies: ms_join looks it up again after it removed
\* one, and uses what it finds.
NotAllZombies ==
  \A s \in Servers : chan[s] # NoChan /\ DOMAIN chan[s].mem # {} => ~channel_all_zombies(chan[s])

\* A user is never a zombie on its own server, as m_part asserts.
LocalNeverZombie ==
  \A s \in Servers : chan[s] # NoChan =>
    \A u \in DOMAIN chan[s].mem : Home[u] = s => ~IsZombie(chan[s], u)

\* What every server can rely on at any time: channels are well formed, and zombies
\* are users of other servers who share the channel with members.
ChannelsConsistent == TypeOK /\ NotAllZombies /\ LocalNeverZombie

\* Bounces, KILLs that are sent back and bursts do not keep each other going: the
\* network comes to rest.
ComesToRest == scene.fair => []<>Quiet

\* s reads the MODE m from n, for a channel that is older here.
ReadsYounger(s, n, m) ==
  /\ up[s][n] /\ queue[n][s] # <<>> /\ Head(queue[n][s]) = m /\ queue'[n][s] = Tail(queue[n][s])
  /\ m.cmd = "MODE" /\ chan[s] # NoChan /\ m.ts > chan[s].ts
  /\ IF m.src \in Users THEN IsChanOp(chan[s], m.src) ELSE m.src \in known[s]

\* A MODE with a younger time stamp from a server whose burst is not over is ignored,
\* as the comment in mode_parse says: the channel stays as it is.
IgnoresYounger ==
  [][\A s, n \in Servers : queue[n][s] # <<>> =>
       (ReadsYounger(s, n, Head(queue[n][s])) /\ burst[s][n] # "" => chan'[s] = chan[s])]_vars

\* Who is on the channel, in whatever order users join, part and are kicked and servers link and
\* split: zombies always share it with members of their own server, a burst leaves no empty channel
\* behind, and once nothing is on the way linked servers have the same members (make_zombie,
\* ms_part, ms_burst, remove_user_from_channel).
MembersKept == ChannelsConsistent /\ MembersAgree /\ NoEmptyChannel
=============================================================================
