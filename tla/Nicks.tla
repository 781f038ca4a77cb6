------------------------------- MODULE Nicks --------------------------------
(***************************************************************************)
(* Users and their nicks on a network of servers: signing on, changing     *)
(* nick, quitting, KILL, SVSNICK, and how ms_nick (m_nick.c) settles a     *)
(* nick that two users took at the same time or on two sides of a split.   *)
(* The servers form a tree whose links come up, with a net burst, and go   *)
(* down, with a SQUIT.  A link is two queues, in order and without loss    *)
(* until it is closed.  A user is known by a numeric: a server and a       *)
(* number, of which the remainder modulo the server's capacity is the slot *)
(* in its client_list.  Case of nicks, wording, hosts beyond user@host     *)
(* equality and rate limits are left out.                                  *)
(***************************************************************************)
EXTENDS Naturals, Sequences, SequencesExt, FiniteSets, FiniteSetsExt

CONSTANTS
  Servers, NickNames, Hosts,
  NoUser,       \* an empty slot
  Via,          \* Via[s][h]: the neighbour of s on the way to h
  Capacity,     \* bound on the slots of a server
  Numbers,      \* NN_MAX_CLIENT
  MaxTime,      \* bound on the clock
  MaxQueue,     \* bound on the messages on the way in one direction of a link
  Scenes        \* what happens in a behaviour is limited to one of these

\* A scene: the servers that take part; the nicks and user@hosts of users; how many
\* slots a server has (nn_mask + 1); until when; how many sign-ons and nick changes;
\* how many links are made; what else happens; whether servers read for ever.
Scene == [net : SUBSET Servers, nicks : SUBSET NickNames, hosts : SUBSET Hosts,
          slots : 1 .. Capacity, time : 0 .. MaxTime, acts : Nat, links : Nat,
          ops : SUBSET {"kill", "svsnick", "quit", "nick", "split"}, fair : BOOLEAN]

Neighbours(s) == {n \in Servers \ {s} : Via[s][n] = n}

ASSUME NicksConstants ==
  /\ Via \in [Servers -> [Servers -> Servers]]
  /\ \A s, h \in Servers : s # h => Via[s][h] \in Neighbours(s)
  /\ \A s \in Servers : \A n \in Neighbours(s) : s \in Neighbours(n)
  /\ Capacity \in Nat \ {0} /\ Numbers \in Nat
  /\ MaxTime \in Nat /\ MaxQueue \in Nat
  /\ \A sc \in Scenes : sc \in Scene /\ Numbers % sc.slots = 0

VARIABLES
  now,       \* TStime()
  clients,   \* clients[s][h][slot]: the client_list of server h at server s
  known,     \* known[s]: the servers s knows, itself included
  unknown,   \* unknown[s][nick]: connect time of an unregistered client, or NoUser
  last_nn,   \* last_nn[s]: where SetLocalNumNick looks next
  up,        \* up[s][n]: s has a link to its neighbour n
  queue,     \* queue[s][n]: messages from s to n
  acts, links,
  scene

vars == <<now, clients, known, unknown, last_nn, up, queue, acts, links, scene>>

Slots == 0 .. Capacity - 1
Numerics == [h : Servers, xxx : 0 .. Numbers - 1]
Clients == [xxx : 0 .. Numbers - 1, nick : NickNames, ts : 0 .. MaxTime, host : Hosts]
Messages ==
  [cmd : {"NICK"}, id : Numerics, nick : NickNames, ts : 0 .. MaxTime, host : Hosts]
  \cup [cmd : {"CHANGE"}, id : Numerics, nick : NickNames, ts : 0 .. MaxTime]
  \cup [cmd : {"QUIT", "KILL"}, id : Numerics]
  \cup [cmd : {"SVSNICK"}, id : Numerics, nick : NickNames]
  \cup [cmd : {"SERVER", "SQUIT"}, h : Servers]

TypeOK ==
  /\ now \in 0 .. MaxTime
  /\ clients \in [Servers -> [Servers -> [Slots -> Clients \cup {NoUser}]]]
  /\ known \in [Servers -> SUBSET Servers]
  /\ unknown \in [Servers -> [NickNames -> 0 .. MaxTime \cup {NoUser}]]
  /\ last_nn \in [Servers -> 0 .. Numbers - 1]
  /\ up \in [Servers -> [Servers -> BOOLEAN]]
  /\ \A s, n \in Servers : \A i \in DOMAIN queue[s][n] : queue[s][n][i] \in Messages

Empty == [slot \in Slots |-> NoUser]

Init ==
  /\ now = 0
  /\ clients = [s \in Servers |-> [h \in Servers |-> Empty]]
  /\ known = [s \in Servers |-> {s}]
  /\ unknown = [s \in Servers |-> [n \in NickNames |-> NoUser]]
  /\ last_nn = [s \in Servers |-> 0]
  /\ up = [s \in Servers |-> [n \in Servers |-> FALSE]]
  /\ queue = [s \in Servers |-> [n \in Servers |-> <<>>]]
  /\ acts = 0 /\ links = 0
  /\ scene \in Scenes

-----------------------------------------------------------------------------
\* Server s at work: its own state and what it sends.  gone are the neighbours
\* that have closed their end, so that nothing sent there arrives.
At(s) == [s |-> s, cl |-> clients[s], known |-> known[s], unk |-> unknown[s],
          nn |-> last_nn[s], up |-> up[s], out |-> queue[s],
          gone |-> {n \in Servers : ~up[n][s] /\ queue[s][n] = <<>>}]

Fits(w) == \A n \in Servers : Len(w.out[n]) <= MaxQueue

Become(w) ==
  /\ Fits(w)
  /\ clients' = [clients EXCEPT ![w.s] = w.cl]
  /\ known' = [known EXCEPT ![w.s] = w.known]
  /\ unknown' = [unknown EXCEPT ![w.s] = w.unk]
  /\ last_nn' = [last_nn EXCEPT ![w.s] = w.nn]
  /\ up' = [up EXCEPT ![w.s] = w.up]

Send(w, to, m) ==
  [w EXCEPT !.out = [n \in Servers |->
     IF n \in to /\ w.up[n] /\ n \notin w.gone THEN Append(@[n], m) ELSE @[n]]]

sendcmdto_serv_butone(w, m, one) == Send(w, Servers \ {one}, m)

\* Only the slot of a numeric is looked at.
Slot(xxx) == xxx % scene.slots
findNUser(w, id) == IF id.h \in w.known THEN w.cl[id.h][Slot(id.xxx)] ELSE NoUser
Numeric(w, id) == [h |-> id.h, xxx |-> w.cl[id.h][Slot(id.xxx)].xxx]

\* The registered users a server knows, and the one with a nick.
Users(w) == {id \in Numerics : /\ w.cl[id.h][Slot(id.xxx)] # NoUser
                               /\ w.cl[id.h][Slot(id.xxx)].xxx = id.xxx}
Client(w, id) == w.cl[id.h][Slot(id.xxx)]
Holders(w, nick) == {id \in Users(w) : Client(w, id).nick = nick}

\* exit_client of a user; from is the link that knows already, or the server
\* itself; nothing is sent for a user that was killed.
exit_client(w, id, from, killed) ==
  LET v == IF killed THEN w
           ELSE sendcmdto_serv_butone(w, [cmd |-> "QUIT", id |-> Numeric(w, id)], from)
  IN  [v EXCEPT !.cl[id.h][Slot(id.xxx)] = NoUser]

\* Kill a user in a collision: KILL in every direction, then exit.
Kill(w, id, from) ==
  exit_client(sendcmdto_serv_butone(w, [cmd |-> "KILL", id |-> Numeric(w, id)], from),
              id, w.s, TRUE)

SetRemoteNumNick(w, id) ==
  IF findNUser(w, id) = NoUser THEN w ELSE exit_client(w, id, Via[w.s][id.h], FALSE)

\* A server introduces a user: the slot is taken over and the user passed on.
Introduce(w, m, cptr) ==
  sendcmdto_serv_butone(
    [SetRemoteNumNick(w, m.id) EXCEPT
       !.cl[m.id.h][Slot(m.id.xxx)] =
         [xxx |-> m.id.xxx, nick |-> m.nick, ts |-> m.ts, host |-> m.host]],
    m, cptr)

\* A user changes nick.
Rename(w, id, nick, ts, cptr) ==
  sendcmdto_serv_butone(
    [w EXCEPT !.cl[id.h][Slot(id.xxx)].nick = nick, !.cl[id.h][Slot(id.xxx)].ts = ts],
    [cmd |-> "CHANGE", id |-> Numeric(w, id), nick |-> nick, ts |-> ts], cptr)

set_nick_name(w, m, cptr) ==
  IF m.cmd = "NICK" THEN Introduce(w, m, cptr) ELSE Rename(w, m.id, m.nick, m.ts, cptr)

\* A nick came from cptr that the user old has.  Differ: not the same user@host.
Collide(w, m, old, differ, cptr) ==
  LET ts == Client(w, old).ts
      lost == (differ /\ m.ts >= ts) \/ (~differ /\ m.ts <= ts)
      v == IF ~lost THEN w
           ELSE IF m.cmd = "CHANGE" THEN Kill(w, m.id, w.s)
           ELSE Send(w, {cptr}, [cmd |-> "KILL", id |-> m.id])
  IN  IF lost /\ m.ts # ts THEN v
      ELSE IF m.ts = ts THEN Kill(v, old, w.s)
      ELSE set_nick_name(Kill(v, old, w.s), m, cptr)


\* NICK from the link cptr, for a new user or by a user.
ms_nick(w, m, cptr) ==
  LET old == Holders(w, m.nick)
      same == m.cmd = "CHANGE" /\ Numeric(w, m.id) \in old
      host == IF m.cmd = "NICK" THEN m.host ELSE findNUser(w, m.id).host
  IN  IF same THEN w
      ELSE IF old = {} THEN set_nick_name([w EXCEPT !.unk[m.nick] = NoUser], m, cptr)
      ELSE LET id == CHOOSE o \in old : TRUE
           IN  Collide(w, m, id, Client(w, id).host # host, cptr)

\* mutant: a KILL for a user that is gone is sent back too
ms_kill_bounce(w, m, cptr) ==
  LET v == Send(w, {cptr}, m)
  IN  IF findNUser(w, m.id) = NoUser THEN v
      ELSE exit_client(sendcmdto_serv_butone(v, m, cptr), m.id, cptr, TRUE)

\* KILL from a link: a local victim's KILL is also sent back.
ms_kill(w, m, cptr) ==
  IF findNUser(w, m.id) = NoUser THEN w
  ELSE LET kill == [cmd |-> "KILL", id |-> Numeric(w, m.id)]
           v == IF m.id.h = w.s THEN Send(w, {cptr}, kill) ELSE w
       IN  exit_client(sendcmdto_serv_butone(v, kill, cptr), m.id, cptr, TRUE)

ms_quit(w, m, cptr) ==
  IF findNUser(w, m.id) = NoUser THEN w ELSE exit_client(w, m.id, cptr, FALSE)

\* A nick change by a user that is not known is answered with a KILL, if its
\* server is.
ms_change(w, m, cptr) ==
  IF m.id.h \notin w.known THEN w
  ELSE IF findNUser(w, m.id) = NoUser THEN Send(w, {cptr}, [cmd |-> "KILL", id |-> m.id])
  ELSE ms_nick(w, m, cptr)

\* SVSNICK renames the user on every server that has it: each one takes the
\* change as the user's own, made now.
ms_svsnick(w, m, cptr) ==
  IF findNUser(w, m.id) = NoUser \/ findNUser(w, m.id).nick = m.nick THEN w
  ELSE LET old == Holders(w, m.nick)
           v == IF old = {} THEN [w EXCEPT !.unk[m.nick] = NoUser]
                ELSE Kill(w, CHOOSE o \in old : TRUE, w.s)
       IN  sendcmdto_serv_butone(Rename(v, m.id, m.nick, now, Via[w.s][m.id.h]), m, cptr)

-----------------------------------------------------------------------------
\* Servers come and go.

\* x and what is behind it, seen from s.
Behind(s, x) == {h \in Servers : h = x \/ (h # s /\ Via[x][h] # Via[x][s])}

\* exit_client of server x; the users on it go without a QUIT.
Drop(w, x, from) ==
  LET v == sendcmdto_serv_butone(w, [cmd |-> "SQUIT", h |-> x], from)
  IN  [v EXCEPT !.known = @ \ Behind(w.s, x),
                !.cl = [h \in Servers |-> IF h \in Behind(w.s, x) THEN Empty ELSE @[h]]]

ms_server(w, m, cptr) == sendcmdto_serv_butone([w EXCEPT !.known = @ \cup {m.h}], m, cptr)

\* SQUIT for a server further away; one for a neighbour closes the link.
ms_squit(w, m, cptr) ==
  IF m.h \notin w.known THEN w
  ELSE LET v == Drop(w, m.h, cptr)
       IN  IF m.h = cptr THEN [v EXCEPT !.up[cptr] = FALSE, !.out[cptr] = <<>>] ELSE v

\* The net burst: the servers and users that are not behind n.
Burst(w, n) ==
  LET SERVER(h) == [cmd |-> "SERVER", h |-> h]
      NICK(id) == LET c == Client(w, id)
                  IN  [cmd |-> "NICK", id |-> id, nick |-> c.nick, ts |-> c.ts, host |-> c.host]
      side == w.known \ Behind(w.s, n)
  IN  [i \in 1 .. Cardinality(side \ {w.s}) |-> SERVER(SetToSeq(side \ {w.s})[i])]
      \o LET ids == SetToSeq({id \in Users(w) : id.h \in side})
         IN  [i \in 1 .. Len(ids) |-> NICK(ids[i])]

\* server_estab: the other links hear of n, n gets the burst.
server_estab(w, n, hello) ==
  LET v == [w EXCEPT !.up[n] = TRUE, !.known = @ \cup {n}, !.out[n] = hello]
      u == sendcmdto_serv_butone(v, [cmd |-> "SERVER", h |-> n], n)
  IN  IF n \in w.gone /\ hello = <<>> THEN u ELSE [u EXCEPT !.out[n] = @ \o Burst(w, n)]

-----------------------------------------------------------------------------
\* The steps of the network.
Output(w) == queue' = [queue EXCEPT ![w.s] = w.out]

\* A server reads the next message of a link.
Handle(w, m, n) ==
  CASE m.cmd = "NICK" -> IF m.id.h \in w.known THEN ms_nick(w, m, n) ELSE w
    [] m.cmd = "CHANGE" -> ms_change(w, m, n)
    [] m.cmd = "QUIT" -> ms_quit(w, m, n)
    [] m.cmd = "KILL" -> ms_kill(w, m, n)
    [] m.cmd = "SVSNICK" -> ms_svsnick(w, m, n)
    [] m.cmd = "SERVER" -> ms_server(w, m, n)
    [] m.cmd = "SQUIT" -> ms_squit(w, m, n)

Read(s, n) ==
  /\ up[s][n] /\ queue[n][s] # <<>>
  /\ \E w \in {Handle(At(s), Head(queue[n][s]), n)} :
       /\ Become(w)
       /\ queue' = [queue EXCEPT ![s] = w.out, ![n][s] = Tail(@)]
  /\ UNCHANGED <<now, acts, links, scene>>

\* s accepts the connection of n, or reads the answer to its own.
Accept(s, n) ==
  /\ {s, n} \subseteq scene.net /\ n \in Neighbours(s) /\ links < scene.links
  /\ ~up[s][n] /\ ~up[n][s] /\ queue[s][n] = <<>> /\ queue[n][s] = <<>>
  /\ \E w \in {server_estab(At(s), n, <<[cmd |-> "SERVER", h |-> s]>>)} :
       Become(w) /\ Output(w)
  /\ links' = links + 1
  /\ UNCHANGED <<now, acts, scene>>

Connected(s, n) ==
  /\ ~up[s][n] /\ queue[n][s] # <<>> /\ Head(queue[n][s]) = [cmd |-> "SERVER", h |-> n]
  /\ \E w \in {server_estab(At(s), n, <<>>)} :
       /\ Become(w)
       /\ queue' = [queue EXCEPT ![s] = w.out, ![n][s] = Tail(@)]
  /\ UNCHANGED <<now, acts, links, scene>>

\* s closes its link to n: an error, a time-out or an operator's SQUIT.
Close(s, n) ==
  /\ "split" \in scene.ops
  /\ up[s][n] /\ up[n][s]
  /\ \E w \in {Drop(Send(At(s), {n}, [cmd |-> "SQUIT", h |-> s]), n, n)} :
       /\ Become([w EXCEPT !.up[n] = FALSE])
       /\ queue' = [queue EXCEPT ![s] = w.out, ![n][s] = <<>>]
  /\ UNCHANGED <<now, acts, links, scene>>

\* NICK of a client that is not registered yet; it connected at time t.
FirstNick(s, nick, t) ==
  /\ acts < scene.acts
  /\ Holders(At(s), nick) = {} /\ unknown[s][nick] = NoUser
  /\ unknown' = [unknown EXCEPT ![s][nick] = t]
  /\ acts' = acts + 1
  /\ UNCHANGED <<now, clients, known, last_nn, up, queue, links, scene>>

\* The first free numeric from last_nn on.
SetLocalNumNick(w) ==
  LET free == {k \in 0 .. scene.slots - 1 : w.cl[w.s][Slot(w.nn + k)] = NoUser}
  IN  (w.nn + Min(free)) % Numbers

\* The client is registered and introduced.
register_user(s, nick, host) ==
  /\ unknown[s][nick] # NoUser
  /\ \E slot \in Slots : slot < scene.slots /\ clients[s][s][slot] = NoUser
  /\ LET w == At(s)
         xxx == SetLocalNumNick(w)
         v == Introduce([w EXCEPT !.unk[nick] = NoUser, !.nn = (xxx + 1) % Numbers],
                        [cmd |-> "NICK", id |-> [h |-> s, xxx |-> xxx], nick |-> nick,
                         ts |-> unknown[s][nick], host |-> host], s)
     IN  Become(v) /\ Output(v)
  /\ UNCHANGED <<now, acts, links, scene>>

\* NICK of a local user: a nick in use is refused, unless an unregistered client
\* has it, which is disconnected.
m_nick(s, id, nick) ==
  /\ "nick" \in scene.ops /\ acts < scene.acts /\ id.h = s /\ id \in Users(At(s))
  /\ Holders(At(s), nick) = {}
  /\ \E w \in {Rename([At(s) EXCEPT !.unk[nick] = NoUser], id, nick, now, s)} :
       Become(w) /\ Output(w)
  /\ acts' = acts + 1
  /\ UNCHANGED <<now, links, scene>>

m_quit(s, id) ==
  /\ "quit" \in scene.ops /\ id.h = s /\ id \in Users(At(s))
  /\ \E w \in {exit_client(At(s), id, s, FALSE)} : Become(w) /\ Output(w)
  /\ UNCHANGED <<now, acts, links, scene>>

\* KILL by an operator on s: a local victim quits.
mo_kill(s, id) ==
  /\ "kill" \in scene.ops /\ id \in Users(At(s))
  /\ \E w \in {IF id.h = s THEN exit_client(At(s), id, s, FALSE) ELSE Kill(At(s), id, s)} :
       Become(w) /\ Output(w)
  /\ UNCHANGED <<now, acts, links, scene>>

\* SVSNICK from services that are linked to s.
Services(s, id, nick) ==
  /\ "svsnick" \in scene.ops /\ acts < scene.acts /\ id \in Users(At(s)) /\ Client(At(s), id).nick # nick
  /\ \E w \in {ms_svsnick(At(s), [cmd |-> "SVSNICK", id |-> id, nick |-> nick], s)} :
       Become(w) /\ Output(w)
  /\ acts' = acts + 1
  /\ UNCHANGED <<now, links, scene>>

Tick ==
  /\ now < scene.time
  /\ now' = now + 1
  /\ UNCHANGED <<clients, known, unknown, last_nn, up, queue, acts, links, scene>>

Next ==
  \/ Tick
  \/ \E s, n \in Servers : Read(s, n) \/ Accept(s, n) \/ Connected(s, n) \/ Close(s, n)
  \/ \E s \in scene.net, nick \in scene.nicks :
       \/ \E t \in 0 .. now : FirstNick(s, nick, t)
       \/ \E host \in scene.hosts : register_user(s, nick, host)
       \/ \E id \in Numerics : m_nick(s, id, nick) \/ Services(s, id, nick)
  \/ \E s \in Servers, id \in Numerics : m_quit(s, id) \/ mo_kill(s, id)

Spec == Init /\ [][Next]_vars

\* Servers keep reading what arrives.
Reading == scene.fair /\ \E s, n \in Servers : Read(s, n) \/ Connected(s, n)
FairSpec == Spec /\ WF_vars(Reading)

-----------------------------------------------------------------------------
\* Properties

\* A nick is the name of one client only in the hash table of a server.
UniqueNicks ==
  \A s \in Servers, nick \in NickNames :
    LET n == Cardinality(Holders(At(s), nick))
    IN  n <= 1 /\ (unknown[s][nick] # NoUser => n = 0)

\* Nothing is on the way and no link is half open.
Quiet ==
  \A s, n \in Servers : queue[s][n] = <<>> /\ up[s][n] = up[n][s]

Forget(ts) == [slot \in Slots |-> IF ts[slot] = NoUser THEN NoUser
                                  ELSE [xxx |-> ts[slot].xxx, nick |-> ts[slot].nick,
                                        host |-> ts[slot].host]]

\* When nothing is on the way, all servers know the same users by the same nicks:
\* nobody is on one side of the network only.
UsersAgree ==
  Quiet => \A s \in Servers : \A h \in known[s] : Forget(clients[s][h]) = Forget(clients[h][h])

\* And, without SVSNICK, with the same time stamps, on which the next collision will
\* be decided.
TimesAgree ==
  Quiet /\ "svsnick" \notin scene.ops => \A s \in Servers : \A h \in known[s] : clients[s][h] = clients[h][h]

\* No user is known from a server that is not.
NoOrphans ==
  \A s, h \in Servers : h \notin known[s] => clients[s][h] = Empty

\* What every server knows is well formed and hangs on servers it knows.
UsersConsistent == TypeOK /\ NoOrphans

\* KILLs that cross, are sent back or answer a nick change do not keep each other
\* going: the network comes to rest.
ComesToRest == scene.fair => []<>Quiet

\* A KILL removes the user with its numeric, and no other that has the slot now.
RightVictim ==
  [][\A s, n \in Servers :
       /\ queue[n][s] # <<>> /\ Head(queue[n][s]).cmd = "KILL"
       /\ queue'[n][s] = Tail(queue[n][s]) /\ up[s][n] /\ up'[s][n]
       => LET id == Head(queue[n][s]).id
              c == clients[s][id.h][Slot(id.xxx)]
          IN  c # NoUser /\ c.xxx # id.xxx => clients'[s] = clients[s]]_vars

=============================================================================
