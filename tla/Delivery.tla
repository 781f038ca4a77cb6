------------------------------- MODULE Delivery -------------------------------
(***************************************************************************)
(* How one message fans out over a tree of servers: the senders of send.c, *)
(* the channel, masked and wall handlers (ircd_relay.c, m_privmsg.c,       *)
(* m_notice.c, m_wall*.c, m_desynch.c, m_sno.c) and the notices a nick     *)
(* change or an AWAY causes.                                               *)
(*                                                                         *)
(* dv.net[<<s, t>>] is the FIFO link from server s to its neighbour t.     *)
(* Each server keeps a counter, sentalong_marker, and the value it had     *)
(* when it last wrote to each connection; a connection that carries the    *)
(* current value is not written to again.  A user is a connection of the   *)
(* server it is on; everyone behind a neighbour shares that neighbour's    *)
(* connection.  Commands come from dScene.cmds, each issued at most once.  *)
(***************************************************************************)
EXTENDS Integers, Sequences, FiniteSets, SequencesExt

CONSTANT DelivScenes

VARIABLES dv, dScene

dvVars == <<dv, dScene>>

DServers == DOMAIN dScene.next
DUsers == DOMAIN dScene.home
DLinks == {l \in DServers \X DServers : dScene.next[l[1]][l[2]] = l[2] /\ l[1] # l[2]}
Down(s) == {t \in DServers : <<s, t>> \in DLinks}
Local(s) == {u \in DUsers : dScene.home[u] = s}
DCmd(i) == dScene.cmds[i]
Flag(u, f) == f \in dScene.flag[u]
Mode(ch, f) == f \in dScene.chans[ch].mode
Zombie(u, ch) == <<u, ch>> \in dScene.zombies

\* A client's connection on server s, as cli_from gives it.
cli_from(s, u) == IF dScene.home[u] = s THEN u ELSE dScene.next[s][dScene.home[u]]

(***************************************************************************)
(* send.c                                                                  *)
(***************************************************************************)
\* send_buffer: the message is queued on each of the given connections.
send_buffer(d, s, conns, m) ==
  [d EXCEPT !.got[m.id] = [u \in DUsers |-> @[u] + (IF u \in conns THEN 1 ELSE 0)],
            !.net = [l \in DLinks |-> IF l[1] = s /\ l[2] \in conns
                                      THEN Append(@[l], m) ELSE @[l]]]

sendcmdto_serv_butone(d, s, one, m) == send_buffer(d, s, Down(s) \ one, m)

\* mutant: the markers are left as they were when the counter wraps.
bump_sentalong_kept(d, s, one) ==
  LET n == (d.marker[s] + 1) % dScene.wrap
      k == IF n = 0 THEN 1 ELSE n
  IN  [d EXCEPT !.marker[s] = k,
                !.along[s] = [c \in DOMAIN @ |-> IF c \in one THEN k ELSE @[c]]]

\* The reset stops short of HighestFd, so that the connection with the
\* highest descriptor keeps its marker.
bump_sentalong(d, s, one) ==
  LET n == (d.marker[s] + 1) % dScene.wrap
      k == IF n = 0 THEN 1 ELSE n
      old(c) == IF n = 0 /\ c # dScene.highest[s] THEN 0 ELSE d.along[s][c]
  IN  [d EXCEPT !.marker[s] = k,
                !.along[s] = [c \in DOMAIN @ |-> IF c \in one THEN k ELSE old(c)],
                !.wrapped = IF n = 0 THEN @ \cup {s} ELSE @]

\* The connections of a set of clients that do not carry the marker yet.
Unmarked(d, s, users) ==
  {c \in {cli_from(s, u) : u \in users} : d.along[s][c] # d.marker[s]}

\* The body of the loops: mark the connection, then write to it.
SendAlong(d, s, conns, m) ==
  send_buffer([d EXCEPT !.along[s] = [c \in DOMAIN @ |-> IF c \in conns THEN d.marker[s]
                                                         ELSE @[c]]],
              s, conns, m)

CommonWith(d, s, u) ==
  UNION {d.on[s][ch] : ch \in {c \in DOMAIN dScene.chans :
                                 u \in d.on[s][c] /\ ~Zombie(u, c) /\ u \notin d.hidden[s][c]}}

sendcmdto_common_channels_butone(d, s, u, one, m) ==
  LET b == bump_sentalong(d, s, {cli_from(s, u)})
      a == SendAlong(b, s, Unmarked(b, s, (CommonWith(d, s, u) \cap Local(s)) \ one), m)
  IN  IF u \in Local(s) \ one THEN send_buffer(a, s, {u}, m) ELSE a

sendcmdto_common_channels_capab_butone(d, s, u, one, m) ==
  LET b == bump_sentalong(d, s, {cli_from(s, u)})
      a == SendAlong(b, s, Unmarked(b, s, {v \in (CommonWith(d, s, u) \cap Local(s)) \ one :
                                             Flag(v, "cap")}), m)
  IN  IF u \in Local(s) \ one THEN send_buffer(a, s, {u}, m) ELSE a

\* Who has the channel status that a wall to operators, half-operators or
\* voices asks for; {} asks for none.
HasStatus(u, ch, need) == need = {} \/ dScene.chans[ch].status[u] \cap need # {}

\* The first JOIN of a member hidden by +D, to the local members
\* (sendcmdto_channel_capab_butserv_butone, once for each capability).
sendcmdto_channel_capab_butserv_butone(d, s, u, ch) ==
  [d EXCEPT !.seen = @ \cup {<<v, u, ch>> : v \in d.on[s][ch] \cap Local(s)}]

RevealDelayedJoin(d, s, u, ch) ==
  sendcmdto_channel_capab_butserv_butone(
    [d EXCEPT !.hidden[s][ch] = @ \ {u}, !.moved = @ \cup {u}], s, u, ch)

\* A local member who is not a zombie and is sent a message sees it; a
\* message from a member it was never shown is remembered.
Heard(d, s, from, ch, conns) ==
  [d EXCEPT !.unseen = @ \cup {<<v, from, ch>> : v \in {w \in conns \cap Local(s) :
                                  from \in d.on[s][ch] /\ <<w, from, ch>> \notin d.seen}}]

sendcmdto_channel_butone(d, s, from, ch, one, need, m) ==
  LET b == bump_sentalong(d, s, one)
      who == {u \in d.on[s][ch] :
                /\ ~Zombie(u, ch) /\ ~Flag(u, "deaf") /\ HasStatus(u, ch, need)
                /\ <<s, cli_from(s, u)>> \notin dScene.burst
                /\ from \notin dScene.silences[u]}
      conns == Unmarked(b, s, who)
      a == Heard(SendAlong(b, s, conns, m), s, from, ch, conns)
      \* GlobalForwards: the server of a service that reads the prefix
      service == {dScene.next[s][t] : t \in {x \in dScene.forward : m.fwd /\ x # s}}
  IN  SendAlong(a, s, {t \in service : a.along[s][t] # a.marker[s]}, m)

sendwallto_group_butone(d, s, type, one, m) ==
  LET wants(u) == CASE type = "desynch"   -> Flag(u, "debug")
                    [] type = "wallops"   -> Flag(u, "wallops")
                                             /\ (dScene.his_wallops => Flag(u, "oper"))
                    [] type = "wallusers" -> Flag(u, "wallops")
  IN  send_buffer(send_buffer(d, s, {u \in Local(s) : wants(u)}, m), s, Down(s) \ one, m)

match_it(u, mask) == u \in dScene.masks[mask]

sendcmdto_match_butone(d, s, mask, one, m) ==
  LET b == bump_sentalong(d, s, one)
  IN  SendAlong(b, s, Unmarked(b, s, {u \in DUsers : match_it(u, mask)}), m)

vsendto_opmask_butone(d, s, m) == send_buffer(d, s, {u \in Local(s) : Flag(u, "sno")}, m)

sendto_opmask_butone_global(d, s, m) ==
  vsendto_opmask_butone(send_buffer(d, s, Down(s), m), s, m)

(***************************************************************************)
(* May a client speak on a channel?  The bans and the modes about who may  *)
(* join are left to the channel modules; +n and +m are kept.               *)
(***************************************************************************)
client_can_send_to_channel(d, s, u, ch) ==
  \/ Flag(u, "service")
  \/ u \in d.on[s][ch] /\ (u \in Local(s) /\ Mode(ch, "m") => dScene.chans[ch].status[u] # {})
  \/ u \notin d.on[s][ch] /\ ~Mode(ch, "n") /\ ~Mode(ch, "m")

RevealDelayedJoinIfNeeded(d, s, u, ch) ==
  IF u \in d.hidden[s][ch] THEN RevealDelayedJoin(d, s, u, ch) ELSE d

\* member_can_send_to_channel with "reveal", which services do not reach.
Reveals(d, s, u, ch) == IF Flag(u, "service") THEN d ELSE RevealDelayedJoinIfNeeded(d, s, u, ch)

ChannelExists(d, s, ch) == d.on[s][ch] # {}

(***************************************************************************)
(* ircd_relay.c and the handlers                                           *)
(***************************************************************************)
\* What the channel's modes hold against the text.
TextRefused(ch, c) ==
  \/ Mode(ch, "noctcp") /\ (c.text = "ctcp" \/ (c.text = "action" /\ c.kind = "notice"))
  \/ (Mode(ch, "nomulti") \/ dScene.nomulti) /\ c.targets > 1
  \/ Mode(ch, "nocolor") /\ c.text \in {"colour", "colours"}
  \/ Mode(ch, "strip") /\ c.text = "colours"

Relayed(d, s, c, i) ==
  sendcmdto_channel_butone(RevealDelayedJoinIfNeeded(d, s, c.by, c.to), s, c.by, c.to,
                           {c.by}, {}, [kind |-> c.kind, id |-> i, by |-> c.by, to |-> c.to,
                                        fwd |-> c.kind = "privmsg" /\ c.text = "prefix"])

relay_channel_message(d, s, c, i) ==
  IF ~ChannelExists(d, s, c.to) \/ ~client_can_send_to_channel(d, s, c.by, c.to) \/ TextRefused(c.to, c)
  THEN d
  ELSE Relayed(d, s, c, i)

relay_channel_notice(d, s, c, i) ==
  IF \/ ~ChannelExists(d, s, c.to) \/ ~client_can_send_to_channel(d, s, c.by, c.to)
     \/ Mode(c.to, "nonotice") \/ TextRefused(c.to, c)
  THEN d
  ELSE Relayed(d, s, c, i)

server_relay_channel_message(d, s, from, m) ==
  IF Mode(m.to, "local") \/ ~ChannelExists(d, s, m.to) \/ ~client_can_send_to_channel(d, s, m.by, m.to)
  THEN d
  ELSE sendcmdto_channel_butone(Reveals(d, s, m.by, m.to), s, m.by, m.to, {from}, {}, m)

server_relay_channel_notice(d, s, from, m) ==
  IF \/ Mode(m.to, "local") \/ ~ChannelExists(d, s, m.to)
     \/ /\ ~client_can_send_to_channel(d, s, m.by, m.to) \/ Mode(m.to, "nonotice")
        /\ ~Flag(m.by, "service")
  THEN d
  ELSE sendcmdto_channel_butone(Reveals(d, s, m.by, m.to), s, m.by, m.to, {from}, {}, m)

\* m_wallchops, m_wallhops, m_wallvoices: the least status that is sent to.
m_wallchops == {"op"}
m_wallhops == {"op", "half"}
m_wallvoices == {"op", "half", "voice"}
WallNeed(kind) == CASE kind = "wallchops" -> m_wallchops
                    [] kind = "wallhops" -> m_wallhops
                    [] kind = "wallvoices" -> m_wallvoices

WallKinds == {"wallchops", "wallhops", "wallvoices"}

m_wall(d, s, c, i) ==
  IF ~ChannelExists(d, s, c.to) \/ ~client_can_send_to_channel(d, s, c.by, c.to)
  THEN d
  ELSE sendcmdto_channel_butone(RevealDelayedJoinIfNeeded(d, s, c.by, c.to), s, c.by, c.to,
                                {c.by}, WallNeed(c.kind),
                                [kind |-> c.kind, id |-> i, by |-> c.by, to |-> c.to,
                                 fwd |-> FALSE])

ms_wall(d, s, from, m) ==
  IF Mode(m.to, "local") \/ ~ChannelExists(d, s, m.to) \/ ~client_can_send_to_channel(d, s, m.by, m.to)
  THEN d
  ELSE sendcmdto_channel_butone(Reveals(d, s, m.by, m.to), s, m.by, m.to, {from},
                                WallNeed(m.kind), m)

\* A mask whose top level is missing or wild is refused.
relay_masked_message(d, s, c, i) ==
  IF c.to \in dScene.wild THEN d
  ELSE sendcmdto_match_butone(d, s, c.to, {}, [kind |-> c.kind, id |-> i, by |-> c.by, to |-> c.to])

server_relay_masked_message(d, s, from, m) ==
  IF Flag(m.by, "oper") THEN sendcmdto_match_butone(d, s, m.to, {from}, m) ELSE d

relay_masked_notice(d, s, c, i) == relay_masked_message(d, s, c, i)
server_relay_masked_notice(d, s, from, m) == server_relay_masked_message(d, s, from, m)

m_privmsg(d, s, c, i) == relay_channel_message(d, s, c, i)
mo_privmsg(d, s, c, i) ==
  IF c.kind = "mask" THEN relay_masked_message(d, s, c, i) ELSE relay_channel_message(d, s, c, i)
ms_privmsg(d, s, from, m) ==
  IF m.kind = "mask" THEN server_relay_masked_message(d, s, from, m)
                     ELSE server_relay_channel_message(d, s, from, m)

\* A client's answer to the server's own CTCP VERSION is kept and passed on
\* once; every other notice is relayed.
m_notice(d, s, c, i) ==
  IF c.kind = "version"
  THEN IF c.by \in d.versions THEN d
       ELSE sendcmdto_serv_butone([d EXCEPT !.versions = @ \cup {c.by}], s, {},
                                  [kind |-> "version", id |-> i, by |-> c.by, to |-> c.to])
  ELSE relay_channel_notice(d, s, c, i)
mo_notice(d, s, c, i) ==
  IF c.kind = "masknotice" THEN relay_masked_notice(d, s, c, i) ELSE relay_channel_notice(d, s, c, i)
ms_notice(d, s, from, m) ==
  IF m.kind = "masknotice" THEN server_relay_masked_notice(d, s, from, m)
                           ELSE server_relay_channel_notice(d, s, from, m)

GroupKinds == {"wallops", "wallusers", "desynch"}
MaskKinds == {"mask", "masknotice"}
Group(c, i) == [kind |-> c.kind, id |-> i, by |-> c.by, to |-> c.to]
mo_wallops(d, s, c, i) == sendwallto_group_butone(d, s, "wallops", {}, Group(c, i))
ms_wallops(d, s, from, m) == sendwallto_group_butone(d, s, "wallops", {from}, m)
mo_wallusers(d, s, c, i) == sendwallto_group_butone(d, s, "wallusers", {}, Group(c, i))
ms_wallusers(d, s, from, m) == sendwallto_group_butone(d, s, "wallusers", {from}, m)
ms_desynch(d, s, from, m) == sendwallto_group_butone(d, s, "desynch", {from}, m)

ms_sno(d, s, from, m) ==
  sendcmdto_serv_butone(vsendto_opmask_butone(d, s, m), s, {from}, m)

\* set_nick_name_told's tail: the user's channels and the other servers are told.
set_nick_name_told(d, s, one, m) ==
  sendcmdto_serv_butone(sendcmdto_common_channels_butone(d, s, m.by, {}, m), s, one, m)

m_away_told(d, s, c, i) ==
  LET m == [kind |-> "away", id |-> i, by |-> c.by, to |-> c.to]
  IN  sendcmdto_common_channels_capab_butone(sendcmdto_serv_butone(d, s, {}, m), s, c.by, {c.by}, m)
ms_away_told(d, s, from, m) == sendcmdto_serv_butone(d, s, {from}, m)

\* PART: the membership goes, and the other servers are told.
ms_part(d, s, one, m) ==
  sendcmdto_serv_butone([d EXCEPT !.on[s][m.to] = @ \ {m.by}, !.hidden[s][m.to] = @ \ {m.by}],
                        s, one, m)

(***************************************************************************)
(* The specification                                                       *)
(***************************************************************************)
NewDelivery(sc) ==
  LET servers == DOMAIN sc.next
      users == DOMAIN sc.home
      links == {l \in servers \X servers : sc.next[l[1]][l[2]] = l[2] /\ l[1] # l[2]}
      conns(s) == {u \in users : sc.home[u] = s} \cup {t \in servers : <<s, t>> \in links}
      on(s, ch) == {u \in sc.chans[ch].members : ~(sc.home[u] = s /\ <<u, ch>> \in sc.zombies)
                                                 /\ ("local" \in sc.chans[ch].mode => sc.home[u] = s)}
  IN  [net |-> [l \in links |-> <<>>],
       on |-> [s \in servers |-> [ch \in DOMAIN sc.chans |-> on(s, ch)]],
       hidden |-> [s \in servers |-> [ch \in DOMAIN sc.chans |-> sc.hidden[ch]]],
       marker |-> [s \in servers |-> sc.marker],
       along |-> [s \in servers |-> [c \in conns(s) |-> sc.along]],
       wrapped |-> {}, versions |-> {}, issued |-> {}, moved |-> {}, unseen |-> {},
       seen |-> {t \in users \X users \X DOMAIN sc.chans :
                   t[2] \notin sc.hidden[t[3]] \/ t[1] = t[2]},
       arrived |-> [i \in DOMAIN sc.cmds |-> [s \in servers |-> 0]],
       got |-> [i \in DOMAIN sc.cmds |-> [u \in users |-> 0]],
       owed |-> [i \in DOMAIN sc.cmds |-> {}]]

DvInit == \E sc \in DelivScenes : dScene = sc /\ dv = NewDelivery(sc)

\* The handler of a local client's command (of the server's own, for "sno").
Issue(d, s, c, i) ==
  CASE c.kind = "privmsg" -> IF Flag(c.by, "oper") THEN mo_privmsg(d, s, c, i)
                                                   ELSE m_privmsg(d, s, c, i)
    [] c.kind = "mask" -> mo_privmsg(d, s, c, i)
    [] c.kind \in {"notice", "masknotice"} /\ Flag(c.by, "oper") -> mo_notice(d, s, c, i)
    [] c.kind \in {"notice", "version"} /\ ~Flag(c.by, "oper") -> m_notice(d, s, c, i)
    [] c.kind \in WallKinds -> m_wall(d, s, c, i)
    [] c.kind = "wallops" -> mo_wallops(d, s, c, i)
    [] c.kind = "wallusers" -> mo_wallusers(d, s, c, i)
    [] c.kind = "desynch" -> sendwallto_group_butone(d, s, "desynch", {}, Group(c, i))
    [] c.kind = "sno" -> sendto_opmask_butone_global(d, s, [kind |-> "sno", id |-> i, by |-> c.by,
                                                            to |-> c.to])
    [] c.kind = "nick" -> set_nick_name_told(d, s, {}, [kind |-> "nick", id |-> i, by |-> c.by,
                                                   to |-> c.to])
    [] c.kind = "away" -> m_away_told(d, s, c, i)
    [] c.kind = "part" -> IF c.by \in d.on[s][c.to]
                          THEN ms_part([d EXCEPT !.moved = @ \cup {c.by}], s, {},
                                       [kind |-> "part", id |-> i, by |-> c.by, to |-> c.to])
                          ELSE d

Received(d, s, from, m) ==
  CASE m.kind \in {"privmsg", "mask"} -> ms_privmsg(d, s, from, m)
    [] m.kind \in {"notice", "masknotice"} -> ms_notice(d, s, from, m)
    [] m.kind = "version" -> sendcmdto_serv_butone(d, s, {from}, m)
    [] m.kind \in WallKinds -> ms_wall(d, s, from, m)
    [] m.kind = "wallops" -> ms_wallops(d, s, from, m)
    [] m.kind = "wallusers" -> ms_wallusers(d, s, from, m)
    [] m.kind = "desynch" -> ms_desynch(d, s, from, m)
    [] m.kind = "sno" -> ms_sno(d, s, from, m)
    [] m.kind = "nick" -> set_nick_name_told(d, s, {from}, m)
    [] m.kind = "away" -> ms_away_told(d, s, from, m)
    [] m.kind = "part" -> ms_part(d, s, {from}, m)

\* Who the command is meant for when it is issued, whatever the servers do.
OnPath(s, t, x, y) == dScene.next[x][t] = y /\ dScene.next[y][s] = x
Members(d, ch) == {u \in DUsers : u \in d.on[dScene.home[u]][ch]}
Origin(c) == IF c.kind = "sno" THEN c.by ELSE dScene.home[c.by]
Need(c) == IF c.kind \in WallKinds THEN WallNeed(c.kind) ELSE {}
Audience(d, c) ==
  CASE c.kind \in {"privmsg", "notice"} \cup WallKinds ->
         {u \in Members(d, c.to) \ {c.by} :
            /\ ~Flag(u, "deaf") /\ HasStatus(u, c.to, Need(c)) /\ c.by \notin dScene.silences[u]
            /\ ~\E l \in dScene.burst : OnPath(Origin(c), dScene.home[u], l[1], l[2])}
    [] c.kind \in MaskKinds -> dScene.masks[c.to]
    [] c.kind = "wallops" -> {u \in DUsers : Flag(u, "wallops")
                                             /\ (dScene.his_wallops => Flag(u, "oper"))}
    [] c.kind = "wallusers" -> {u \in DUsers : Flag(u, "wallops")}
    [] c.kind = "desynch" -> {u \in DUsers : Flag(u, "debug")}
    [] c.kind = "sno" -> {u \in DUsers : Flag(u, "sno")}
    [] c.kind = "nick" -> UNION {CommonWith(d, s, c.by) \cap Local(s) : s \in DServers} \cup {c.by}
    [] c.kind = "away" -> {u \in (CommonWith(d, Origin(c), c.by) \cap Local(Origin(c))) \ {c.by} :
                             Flag(u, "cap")}
    [] OTHER -> {}

\* A command is taken when its handler writes to anyone or passes a marker.
Taken(d, e, c) == e.marker # d.marker \/ c.kind \in GroupKinds \cup {"sno"}

Ask(i) ==
  LET c == DCmd(i)
      s == Origin(c)
      e == Issue(dv, s, c, i)
  IN  /\ i \notin dv.issued
      /\ dv' = [e EXCEPT !.issued = @ \cup {i},
                         !.owed[i] = IF Taken(dv, e, c) THEN Audience(dv, c) ELSE {}]
      /\ UNCHANGED dScene

Arrive(l) ==
  /\ dv.net[l] # <<>>
  /\ LET m == Head(dv.net[l])
         d == [dv EXCEPT !.net[l] = Tail(@), !.arrived[m.id][l[2]] = @ + 1]
     IN  dv' = Received(d, l[2], l[1], m)
  /\ UNCHANGED dScene

DvNext == (\E i \in DOMAIN dScene.cmds : Ask(i)) \/ (\E l \in DLinks : Arrive(l))

DvSpec == DvInit /\ [][DvNext]_dvVars

(***************************************************************************)
(* Properties                                                              *)
(***************************************************************************)
DeliveryQuiet == \A l \in DLinks : dv.net[l] = <<>>

\* The user's messages pass through a connection that a wrapped marker may
\* hide for one message.
Overlooked(u) == \E s \in dv.wrapped : cli_from(s, u) = dScene.highest[s]

\* Whatever the members of a tree of servers send at the same time, nobody
\* is sent the same channel message, wall, masked message or nick change
\* twice and only those it is meant for are sent it; no server receives it
\* twice or gets its own message back; and once the links are empty everyone
\* it was meant for, who stayed, has it (send.c, ircd_relay.c).
MessagesDelivered ==
  \A i \in dv.issued :
    LET c == DCmd(i)
    IN  /\ \A s \in DServers : dv.arrived[i][s] <= (IF s = Origin(c) THEN 0 ELSE 1)
        /\ \A u \in DUsers : /\ dv.got[i][u] <= 1
                              /\ dv.got[i][u] = 1 => u \in dv.owed[i] \/ c.by \in dv.moved
        /\ DeliveryQuiet =>
             \A u \in dv.owed[i] \ dv.moved :
               \/ dv.got[i][u] = 1 \/ Overlooked(u)
               \/ c.kind \in {"nick", "away"} /\ c.by \in dv.moved

\* A member hidden by +D is shown to the members of the channel, on their own
\* server, before they are sent anything that member says
\* (RevealDelayedJoinIfNeeded, member_can_send_to_channel).
SpeakersSeen == \A t \in dv.unseen : Flag(t[2], "service")

\* Everyone a message to a channel, a mask or to watchers of a user is meant for gets it once,
\* nobody else does, and its sender is seen on the channel before it is heard (send.c,
\* ircd_relay.c, RevealDelayedJoinIfNeeded).
SpeechDelivered == MessagesDelivered /\ SpeakersSeen
===============================================================================
