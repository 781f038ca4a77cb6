-------------------------------- MODULE Private --------------------------------
(***************************************************************************)
(* Messages from one user to another over a tree of servers: the private   *)
(* and directed relays of ircd_relay.c, CPRIVMSG and CNOTICE (whisper),    *)
(* the SILENCE lists (m_silence.c, is_silenced, apply_ban) and the limit   *)
(* on new targets (add_target, check_target_limit).                        *)
(*                                                                         *)
(* A user's own server holds the user's SILENCE list; another server holds *)
(* a copy that it learns from the removals and exceptions that are sent to *)
(* all servers and from the masks a server sends back towards a sender     *)
(* whose message it dropped.  A mask stands for the set of users it        *)
(* matches.  pv.net[<<s, t>>] is the FIFO link from s to its neighbour t.  *)
(***************************************************************************)
EXTENDS Integers, Sequences, FiniteSets, SequencesExt

CONSTANT PrivScenes

VARIABLES pv, pScene

pvVars == <<pv, pScene>>

PServers == DOMAIN pScene.next
PUsers == DOMAIN pScene.home
PLinks == {l \in PServers \X PServers : pScene.next[l[1]][l[2]] = l[2] /\ l[1] # l[2]}
MineUser(s, u) == pScene.home[u] = s
Has(u, f) == f \in pScene.flag[u]
Hop(s, u) == pScene.next[s][pScene.home[u]]

\* sendcmdto_one: to the user, or along the link that leads to it.
sendcmdto_one(p, s, u, m) ==
  IF MineUser(s, u)
  THEN [p EXCEPT !.got[m.id] = @ + 1]
  ELSE [p EXCEPT !.net[<<s, Hop(s, u)>>] = Append(@, m)]

(***************************************************************************)
(* SILENCE lists                                                           *)
(***************************************************************************)
\* The set of users a ban matches.
Matched(b) == pScene.masks[b.mask]

\* TRUE when old is a superset of new; a ban never is one of an exception.
bmatch(old, new) == (old.exc \/ ~new.exc) /\ Matched(new) \subseteq Matched(old)

\* Entries being changed carry n, the number of the update that made them (0
\* for an older one), and del once they are overlapped or deleted.
Marked(list, nb) == [i \in DOMAIN list |-> IF bmatch(nb, list[i])
                                           THEN [list[i] EXCEPT !.del = TRUE] ELSE list[i]]

\* apply_ban: the list with the update applied, or the list as it was.
apply_ban(list, up, n) ==
  LET nb == [mask |-> up.mask, exc |-> up.exc, n |-> n, del |-> FALSE]
  IN  IF up.add
      THEN IF \E i \in DOMAIN list : bmatch(list[i], nb) /\ ~list[i].del
           THEN [ok |-> FALSE, list |-> list]
           ELSE [ok |-> TRUE, list |-> Append(Marked(list, nb), nb)]
      ELSE [ok |-> \E i \in DOMAIN list : bmatch(nb, list[i]), list |-> Marked(list, nb)]

Live(list) == SelectSeq(list, LAMBDA b : ~b.del)

\* The updates of one SILENCE in turn; a remote server's copy has no limit.
RECURSIVE Applied(_, _, _, _)
Applied(list, ups, n, accepted) ==
  IF n > Len(ups) THEN [list |-> list, accepted |-> accepted]
  ELSE LET r == apply_ban(list, ups[n], n)
       IN  Applied(r.list, ups, n + 1, IF r.ok THEN Append(accepted, n) ELSE accepted)

\* The new entries beyond FEAT_MAXSILES are dropped, the first ones kept.
Kept(list) ==
  LET old == Cardinality({i \in DOMAIN list : ~list[i].del /\ list[i].n = 0})
      before(i) == Cardinality({j \in DOMAIN list : j < i /\ ~list[j].del /\ list[j].n > 0})
      drop == {list[i].n : i \in {j \in DOMAIN list : /\ ~list[j].del /\ list[j].n > 0
                                                      /\ old + before(j) >= pScene.maxsiles}}
  IN  drop

Settled(list) == [i \in DOMAIN list |-> [list[i] EXCEPT !.n = 0]]

\* mutant: only exceptions are passed on, not removals.
forward_silences_adds(p, s, u, ups, dest) ==
  LET r == Applied(p.sil[s][u], ups, 1, <<>>)
      drop == IF MineUser(s, u) THEN Kept(r.list) ELSE {}
      list == SelectSeq(r.list, LAMBDA b : ~b.del /\ b.n \notin drop)
      sent(n) == ups[n].add /\ (\E i \in DOMAIN list : list[i].n = n) /\ ups[n].exc
      out == SelectSeq(r.accepted, sent)
      m == [kind |-> "silence", by |-> u, dest |-> dest, ups |-> [i \in DOMAIN out |-> ups[out[i]]]]
      to == IF dest = {} THEN {t \in PServers : <<s, t>> \in PLinks /\ t # Hop(s, u)}
                         ELSE {Hop(s, d) : d \in {x \in dest : ~MineUser(s, x)}}
  IN  [p EXCEPT !.sil[s][u] = Settled(list),
                !.net = [l \in PLinks |-> IF l[1] = s /\ l[2] \in to /\ out # <<>>
                                          THEN Append(@[l], m) ELSE @[l]]]

\* Apply the updates to u's list on server s, then pass on the removals and
\* the exceptions (every update with FEAT_SILENCE_CHANMSGS) towards dest, or
\* to all servers but the one u is behind.
forward_silences(p, s, u, ups, dest) ==
  LET r == Applied(p.sil[s][u], ups, 1, <<>>)
      drop == IF MineUser(s, u) THEN Kept(r.list) ELSE {}
      list == SelectSeq(r.list, LAMBDA b : ~b.del /\ b.n \notin drop)
      sent(n) == IF ups[n].add
                 THEN (\E i \in DOMAIN list : list[i].n = n) /\ (ups[n].exc \/ pScene.chanmsgs)
                 ELSE TRUE
      out == SelectSeq(r.accepted, sent)
      m == [kind |-> "silence", by |-> u, dest |-> dest, ups |-> [i \in DOMAIN out |-> ups[out[i]]]]
      to == IF dest = {} THEN {t \in PServers : <<s, t>> \in PLinks /\ t # Hop(s, u)}
                         ELSE {Hop(s, d) : d \in {x \in dest : ~MineUser(s, x)}}
  IN  [p EXCEPT !.sil[s][u] = Settled(list),
                !.net = [l \in PLinks |-> IF l[1] = s /\ l[2] \in to /\ out # <<>>
                                          THEN Append(@[l], m) ELSE @[l]]]

\* find_ban on a SILENCE list: the first ban that matches, unless an
\* exception does.
find_ban(list, x) ==
  IF \E i \in DOMAIN list : list[i].exc /\ x \in Matched(list[i])
  THEN {}
  ELSE LET hit == {i \in DOMAIN list : ~list[i].exc /\ x \in Matched(list[i])}
       IN  {list[i] : i \in {j \in hit : \A k \in hit : j <= k}}

Silences(list, x) == find_ban(list, x) # {}

Add(b) == [add |-> TRUE, mask |-> b.mask, exc |-> b.exc]

\* is_silenced, for a private message: a remote sender's servers are sent
\* the ban found and the exceptions.
is_silenced(p, s, from, u) ==
  LET list == p.sil[s][u]
      found == find_ban(list, from)
      exc == SelectSeq(list, LAMBDA b : b.exc)
  IN  IF found = {} \/ MineUser(s, from) THEN p
      ELSE [p EXCEPT !.net[<<s, Hop(s, from)>>] =
                        Append(@, [kind |-> "silence", by |-> u, dest |-> {from},
                                   ups |-> <<Add(CHOOSE b \in found : TRUE)>>
                                           \o [i \in DOMAIN exc |-> Add(exc[i])]]),
                     !.refused = IF MineUser(s, u) THEN @ \cup {<<from, u, Hop(s, from)>>} ELSE @]

m_silence(p, s, u, ups) ==
  forward_silences([p EXCEPT !.refused = {t \in @ : t[2] # u}], s, u, ups, {})

\* A SILENCE from a server on a user's behalf goes to the user's own server.
ms_silence(p, s, m) ==
  IF m.by \in PServers
  THEN LET u == CHOOSE x \in m.dest : TRUE
       IN  IF MineUser(s, u) THEN m_silence(p, s, u, m.ups)
           ELSE [p EXCEPT !.net[<<s, Hop(s, u)>>] = Append(@, m)]
  ELSE forward_silences(p, s, m.by, m.ups, m.dest)

(***************************************************************************)
(* The limit on targets.  pv.targets[u] holds MAXTARGETS hashes.           *)
(***************************************************************************)
Hash(t) == pScene.hash[t]

ToFront(ts, i) == <<ts[i]>> \o SubSeq(ts, 1, i - 1) \o SubSeq(ts, i + 1, Len(ts))

add_target(p, u, x) ==
  LET ts == p.targets[u]
      r == pScene.reserved
  IN  IF \E i \in DOMAIN ts : ts[i] = Hash(x) THEN p
      ELSE [p EXCEPT !.targets[u] = SubSeq(ts, 1, r) \o <<Hash(x)>> \o SubSeq(ts, r + 1, Len(ts) - 1)]

NextTarget(p, u) ==
  LET n == p.nexttarget[u] + pScene.delay
      floor == p.now - pScene.delay * (Len(p.targets[u]) - 1)
  IN  IF n < floor THEN floor ELSE n

FreshTarget(p, u, x) ==
  [p EXCEPT !.nexttarget[u] = NextTarget(p, u), !.fresh[u] = Append(@, p.now),
            !.targets[u] = <<Hash(x)>> \o SubSeq(@, 1, Len(@) - 1)]

Limited(p, u, x) ==
  /\ pScene.limiting /\ ~Has(u, "except")
  /\ \A i \in DOMAIN p.targets[u] : p.targets[u][i] # Hash(x)
  /\ p.now < p.nexttarget[u]

\* The state after the check; it fails exactly when Limited.
check_target_limit(p, u, x) ==
  LET at == {i \in DOMAIN p.targets[u] : p.targets[u][i] = Hash(x)}
  IN  IF ~pScene.limiting \/ Has(u, "except") THEN p
      ELSE IF at # {} THEN [p EXCEPT !.targets[u] = ToFront(@, CHOOSE i \in at : \A j \in at : i <= j)]
      ELSE IF ~Limited(p, u, x) THEN FreshTarget(p, u, x)
      ELSE IF p.nexttarget[u] - p.now < pScene.delay + 8
           THEN [p EXCEPT !.nexttarget[u] = @ + 2]
           ELSE p

(***************************************************************************)
(* ircd_relay.c                                                            *)
(***************************************************************************)
Common(x, y) == \E ch \in DOMAIN pScene.chans : {x, y} \subseteq pScene.chans[ch]

\* The target's +R and +D and the demand for a common channel.
Unwelcome(from, u) ==
  /\ from # u
  /\ \/ Has(u, "R") /\ ~Has(from, "account") /\ ~Has(from, "oper")
     \/ Has(u, "D") /\ ~Has(from, "oper")
     \/ (Has(from, "restricted") \/ Has(u, "q")) /\ ~Has(from, "oper") /\ ~Common(u, from)

PassOn(p, s, from, u, m) ==
  sendcmdto_one(IF MineUser(s, u) THEN add_target(p, u, from) ELSE p, s, u, m)

relay_private_message(p, s, from, u, m) ==
  LET q == IF Has(u, "service") THEN p ELSE check_target_limit(p, from, u)
  IN  IF ~Has(u, "service") /\ Limited(p, from, u) THEN q
      ELSE IF Silences(p.sil[s][u], from) THEN is_silenced(q, s, from, u)
      ELSE IF Unwelcome(from, u) THEN q
      ELSE PassOn([q EXCEPT !.accepted = @ \cup {m.id}], s, from, u, m)

\* The same but for the replies to the sender.
relay_private_notice(p, s, from, u, m) == relay_private_message(p, s, from, u, m)

server_relay_private_message(p, s, m) ==
  IF Silences(p.sil[s][m.to], m.by)
  THEN is_silenced([p EXCEPT !.accepted = @ \ {m.id}], s, m.by, m.to)
  ELSE PassOn(p, s, m.by, m.to, m)

server_relay_private_notice(p, s, m) == server_relay_private_message(p, s, m)

\* nick@server: a message only through a services server and to a service.
relay_directed_message(p, s, m) ==
  IF m.at \notin pScene.services THEN p
  ELSE IF m.at # s THEN [p EXCEPT !.net[<<s, pScene.next[s][m.at]>>] = Append(@, m)]
  ELSE IF ~MineUser(s, m.to) \/ ~Has(m.to, "service") \/ Unwelcome(m.by, m.to) THEN p
  ELSE IF Silences(p.sil[s][m.to], m.by) THEN is_silenced(p, s, m.by, m.to)
  ELSE sendcmdto_one(p, s, m.to, m)

relay_directed_notice(p, s, m) ==
  IF m.at # s THEN [p EXCEPT !.net[<<s, pScene.next[s][m.at]>>] = Append(@, m)]
  ELSE IF ~MineUser(s, m.to) \/ Unwelcome(m.by, m.to) THEN p
  ELSE IF Silences(p.sil[s][m.to], m.by) THEN is_silenced(p, s, m.by, m.to)
  ELSE sendcmdto_one(p, s, m.to, m)

\* CPRIVMSG and CNOTICE: no target limit for an operator or voice of a
\* channel both are on.
whisper(p, s, from, u, m) ==
  IF ~\E ch \in DOMAIN pScene.chans : {from, u} \subseteq pScene.chans[ch] /\ <<from, ch>> \in pScene.voiced
  THEN p
  ELSE IF Silences(p.sil[s][u], from) THEN is_silenced(p, s, from, u)
  ELSE IF /\ from # u
          /\ \/ Has(u, "R") /\ ~Has(from, "account") /\ ~Has(from, "oper")
             \/ Has(u, "D") /\ ~Has(from, "oper")
       THEN p
  ELSE sendcmdto_one([p EXCEPT !.accepted = @ \cup {m.id}], s, u, m)

m_cprivmsg(p, s, from, u, m) == whisper(p, s, from, u, m)
m_cnotice(p, s, from, u, m) == whisper(p, s, from, u, m)

(***************************************************************************)
(* The specification                                                       *)
(***************************************************************************)
NewPrivate(sc) ==
  LET servers == DOMAIN sc.next
      users == DOMAIN sc.home
  IN  [net |-> [l \in {l \in servers \X servers : sc.next[l[1]][l[2]] = l[2] /\ l[1] # l[2]} |-> <<>>],
       sil |-> [s \in servers |-> [u \in users |-> <<>>]],
       refused |-> {}, accepted |-> {}, issued |-> {},
       got |-> [i \in DOMAIN sc.cmds |-> 0],
       now |-> sc.now, nexttarget |-> [u \in users |-> sc.now - sc.delay * (sc.start - 1)],
       targets |-> [u \in users |-> [i \in 1 .. sc.slots |-> 0]],
       fresh |-> [u \in users |-> <<>>]]

PvInit == \E sc \in PrivScenes : pScene = sc /\ pv = NewPrivate(sc)

PvMsg(c, i) == [kind |-> c.kind, id |-> i, by |-> c.by, to |-> c.to, at |-> c.at]

Start(p, s, c, i) ==
  CASE c.kind = "silence" -> m_silence(p, s, c.by, c.ups)
    [] c.kind = "service" -> ms_silence(p, s, [kind |-> "silence", by |-> c.by, dest |-> {c.to},
                                               ups |-> c.ups])
    [] c.kind = "message" -> relay_private_message(p, s, c.by, c.to, PvMsg(c, i))
    [] c.kind = "notice" -> relay_private_notice(p, s, c.by, c.to, PvMsg(c, i))
    [] c.kind = "directed" -> relay_directed_message(p, s, PvMsg(c, i))
    [] c.kind = "dnotice" -> relay_directed_notice(p, s, PvMsg(c, i))
    [] c.kind = "cprivmsg" -> m_cprivmsg(p, s, c.by, c.to, [PvMsg(c, i) EXCEPT !.kind = "message"])
    [] c.kind = "cnotice" -> m_cnotice(p, s, c.by, c.to, [PvMsg(c, i) EXCEPT !.kind = "notice"])

\* Each command once, or again and again where the scene says so.
Say(i) ==
  LET c == pScene.cmds[i]
  IN  /\ pScene.again \/ i \notin pv.issued
      /\ \A u \in PUsers : Len(pv.fresh[u]) < pScene.most
      /\ pv' = Start([pv EXCEPT !.issued = @ \cup {i}, !.got[i] = IF pScene.again THEN 0 ELSE @],
                     IF c.by \in PServers THEN c.by ELSE pScene.home[c.by], c, i)
      /\ UNCHANGED pScene

Pass(l) ==
  /\ pv.net[l] # <<>>
  /\ LET m == Head(pv.net[l])
         p == [pv EXCEPT !.net[l] = Tail(@)]
         s == l[2]
     IN  pv' = CASE m.kind = "silence" -> ms_silence(p, s, m)
                 [] m.kind = "message" -> server_relay_private_message(p, s, m)
                 [] m.kind = "notice" -> server_relay_private_notice(p, s, m)
                 [] m.kind = "directed" -> relay_directed_message(p, s, m)
                 [] m.kind = "dnotice" -> relay_directed_notice(p, s, m)
  /\ UNCHANGED pScene

PvTick ==
  /\ pv.now < pScene.until
  /\ pv' = [pv EXCEPT !.now = @ + 1]
  /\ UNCHANGED pScene

PvNext == (\E i \in DOMAIN pScene.cmds : Say(i)) \/ (\E l \in PLinks : Pass(l)) \/ PvTick

PvSpec == PvInit /\ [][PvNext]_pvVars

(***************************************************************************)
(* Properties                                                              *)
(***************************************************************************)
PrivateQuiet == \A l \in PLinks : pv.net[l] = <<>>

\* The three invariants the comment of apply_ban states, of one list.
Normal(list) == \A i, j \in DOMAIN list : i # j => ~bmatch(list[i], list[j])

\* On every server every SILENCE list keeps the invariants of apply_ban.  Once
\* the links are empty no server holds back what the user's own server would
\* let through, and where that server dropped a message under the list as it
\* stands, the neighbour it came from drops the next one itself
\* (forward_silences, is_silenced).
SilencesAgree ==
  /\ \A s \in PServers, u \in PUsers : Normal(pv.sil[s][u])
  /\ PrivateQuiet =>
       /\ \A s \in PServers, u, x \in PUsers :
            Silences(pv.sil[s][u], x) => Silences(pv.sil[pScene.home[u]][u], x)
       /\ \A t \in pv.refused : Silences(pv.sil[t[3]][t[2]], t[1])

\* A message that no server drops for a SILENCE arrives once, and no message
\* twice (relay_private_message, server_relay_private_message).
PrivateDelivered ==
  \A i \in DOMAIN pv.got :
    /\ pv.got[i] <= 1
    /\ PrivateQuiet /\ i \in pv.accepted /\ ~pScene.again => pv.got[i] = 1

\* Among any slots + 2 new targets in a row the last comes at least one delay
\* after the first, and so on for each further one: the credit that idle time
\* builds up is bounded (check_target_limit).
TargetsLimited ==
  \A u \in PUsers : \A i, j \in DOMAIN pv.fresh[u] :
    j > i + pScene.slots =>
      pv.fresh[u][j] - pv.fresh[u][i] >= pScene.delay * (j - i - pScene.slots)

\* A message to a user arrives once or is held back by a SILENCE that the user has, the servers
\* on its way know of it, and no user reaches new targets faster than the limit (ircd_silence.c,
\* m_silence.c, check_target_limit).
PrivateSpeech == PrivateDelivered /\ SilencesAgree /\ TargetsLimited
===============================================================================
