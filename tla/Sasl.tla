-------------------------------- MODULE Sasl --------------------------------
(***************************************************************************)
(* Logging in before registration: capability negotiation (m_cap.c), the   *)
(* SASL exchange between a client and an agent, which is a server behind   *)
(* any of the links (m_authenticate.c, m_sasl.c) or the IAuth process      *)
(* (s_auth.c), and what registration makes of the outcome.                 *)
(*                                                                         *)
(* sasl is one record and each C function an operator on it.  A local      *)
(* client is named by its descriptor, which is reused; inst tells          *)
(* connections apart.  Session cookies are the numbers of the sessions, as *)
(* ircrandom() is taken not to repeat one.  An account is the number of    *)
(* the session (with IAuth, of the connection) the agent approved.         *)
(***************************************************************************)
EXTENDS Integers, Sequences, FiniteSets, SequencesExt

CONSTANT SaslScenes    \* agents, features, the requests clients make and how often

VARIABLES saslScene, sasl

saslVars == <<saslScene, sasl>>

Slots == saslScene.slots
Agents == saslScene.agents

\* No connection at this descriptor.
NoClient == [inst |-> 0, reg |-> FALSE, pend |-> {}, capab |-> {}, active |-> {}, view |-> {}, cookie |-> 0,
             agent |-> 0, account |-> 0, complete |-> FALSE, timer |-> FALSE, login |-> 0]

Linked == {s \in Agents : sasl.srv[s].id # 0}

\* The agent that is the server with this link number; 0 is no server.
ServerOf(w, id) == CHOOSE s \in Agents : w.srv[s].id = id

-----------------------------------------------------------------------------
\* Messages between servers.

sendcmdto_one(w, s, msg) == [w EXCEPT !.to[s] = Append(@, msg)]

sendcmdto_serv_butone(w, one, msg) ==
  [w EXCEPT !.to = [s \in Agents |-> IF w.srv[s].id # 0 /\ s # one THEN Append(@[s], msg) ELSE @[s]]]

\* To the server SASL_SERVER names, or to every server if it is "*".
find_match_server(w) ==
  IF saslScene.server \in Agents /\ w.srv[saslScene.server].id # 0 THEN w.srv[saslScene.server].id ELSE 0

Target(w, c) == IF w.cl[c].agent # 0 THEN w.cl[c].agent ELSE find_match_server(w)

Tell(w, c, t) ==
  LET msg == [t |-> t, dest |-> "*", of |-> "me", fd |-> c, cookie |-> w.cl[c].cookie]
  IN  IF Target(w, c) # 0
      THEN sendcmdto_one(w, ServerOf(w, Target(w, c)), [msg EXCEPT !.dest = "you"])
      ELSE sendcmdto_serv_butone(w, "none", msg)

-----------------------------------------------------------------------------
\* m_sasl.c: the end of an exchange.

\* The agent no longer serves this client.
Release(w, c) ==
  LET a == w.cl[c].agent
      v == IF a # 0 /\ w.srv[ServerOf(w, a)].ref # 0 THEN [w EXCEPT !.srv[ServerOf(w, a)].ref = @ - 1] ELSE w
  IN  [v EXCEPT !.cl[c].agent = 0, !.cl[c].cookie = 0]

abort_sasl(w, c) ==
  LET v == [w EXCEPT !.cl[c].timer = FALSE]
  IN  IF w.cl[c].cookie = 0 \/ w.cl[c].complete THEN v
      ELSE Release(Tell(v, c, "A"), c)

\* mutant: the timer runs out and the session is left open
sasl_timeout_callback_open(w, c) == [w EXCEPT !.cl[c].timer = FALSE]

sasl_timeout_callback(w, c) == abort_sasl(w, c)

-----------------------------------------------------------------------------
\* s_auth.c: registration.

auth_complete_sasl(w, c) ==
  LET v == IF w.cl[c].complete /\ w.cl[c].account # 0 THEN [w EXCEPT !.cl[c].login = w.cl[c].account] ELSE w
  IN  abort_sasl(v, c)

\* Waits for what the client still has to say, then finishes SASL, then waits for IAuth.
check_auth_finished(w, c) ==
  IF w.cl[c].reg \/ w.cl[c].pend \cap {"cap", "nick"} # {} THEN w
  ELSE LET v == auth_complete_sasl(w, c)
       IN  IF "iauth" \in v.cl[c].pend THEN v ELSE [v EXCEPT !.cl[c].reg = TRUE]

auth_set_nick(w, c) == check_auth_finished([w EXCEPT !.cl[c].pend = @ \ {"nick"}], c)

iauth_done(w, c) == check_auth_finished([w EXCEPT !.cl[c].pend = @ \ {"iauth"}], c)

auth_set_account(w, c) == check_auth_finished(w, c)

auth_cap_start(w, c) == IF w.cl[c].reg THEN w ELSE [w EXCEPT !.cl[c].pend = @ \union {"cap"}]

auth_cap_done(w, c) == check_auth_finished([w EXCEPT !.cl[c].pend = @ \ {"cap"}], c)

auth_iauth_handles_sasl == saslScene.iauth

\* To IAuth, which tells clients apart by descriptor, address and port.
sendto_iauth(w, c, t) == [w EXCEPT !.ask = Append(@, [t |-> t, fd |-> c, inst |-> w.cl[c].inst])]

auth_send_sasl_start(w, c) == sendto_iauth(w, c, "S")
auth_send_sasl_data(w, c) == sendto_iauth(w, c, "C")
auth_send_exit(w, c) == IF saslScene.iauth THEN sendto_iauth(w, c, "D") ELSE w

exit_client(w, c) == [auth_send_exit(abort_sasl(w, c), c) EXCEPT !.cl[c] = NoClient]

-----------------------------------------------------------------------------
\* m_cap.c.  Each capability with its flags.

capab_list == [none |-> {"hidden", "prohibit"}, namesx |-> {}, sasl |-> {}]

Known == DOMAIN capab_list
Flagged(cap, flag) == flag \in capab_list[cap]

\* A capability in the list of a request.
find_cap(item) == item.cap \in Known

\* The client is told what was removed and what was set, and believes it.
send_caplist(w, c, set, rem) == [w EXCEPT !.cl[c].view = (@ \ rem) \union (set \ rem)]

cap_ls(w, c) == auth_cap_start(w, c)

Prohibited(item) ==
  \/ ~find_cap(item)
  \/ (~item.neg /\ Flagged(item.cap, "prohibit"))
  \/ (item.neg /\ Flagged(item.cap, "sticky"))

\* One item of a request: st holds what is set and removed so far and the two resulting sets.
Requested(st, item) ==
  LET keep(S) == IF Flagged(item.cap, "proto") THEN S
                 ELSE IF item.neg THEN S \ {item.cap} ELSE S \union {item.cap}
  IN  IF item.neg
      THEN [set |-> st.set \ {item.cap}, rem |-> st.rem \union {item.cap}, cs |-> st.cs \ {item.cap},
            as |-> keep(st.as)]
      ELSE [set |-> st.set \union {item.cap}, rem |-> st.rem \ {item.cap}, cs |-> st.cs \union {item.cap},
            as |-> keep(st.as)]

\* All of it or, if any of it is not to be had, nothing.
cap_req(w, c, list) ==
  LET v == auth_cap_start(w, c)
      st == FoldLeft(Requested, [set |-> {}, rem |-> {}, cs |-> w.cl[c].capab, as |-> w.cl[c].active], list)
  IN  IF \E k \in DOMAIN list : Prohibited(list[k]) THEN v
      ELSE [send_caplist(v, c, st.set, st.rem) EXCEPT !.cl[c].capab = st.cs, !.cl[c].active = st.as]

cap_ack(w, c, list) ==
  LET Ack(S, item) ==
        IF \/ ~find_cap(item)
           \/ (item.neg <=> item.cap \in w.cl[c].capab)
           \/ Flagged(item.cap, IF item.neg THEN "sticky" ELSE "prohibit")
        THEN S
        ELSE IF item.neg THEN S \ {item.cap} ELSE S \union {item.cap}
  IN  [w EXCEPT !.cl[c].active = FoldLeft(Ack, @, list)]

cap_clear(w, c) ==
  LET cleared == {cap \in w.cl[c].capab : ~Flagged(cap, "sticky")}
      off == {cap \in cleared : ~Flagged(cap, "proto")}
  IN  [send_caplist(w, c, {}, cleared) EXCEPT !.cl[c].capab = @ \ cleared, !.cl[c].active = @ \ off]

cap_end(w, c) == IF w.cl[c].reg THEN w ELSE auth_cap_done(w, c)

m_cap(w, c, cmd, list) ==
  CASE cmd = "ACK" -> cap_ack(w, c, list)
    [] cmd = "CLEAR" -> cap_clear(w, c)
    [] cmd = "END" -> cap_end(w, c)
    [] cmd = "LS" -> cap_ls(w, c)
    [] cmd = "REQ" -> cap_req(w, c, list)
    [] cmd \in {"LIST", "NAK"} -> w

-----------------------------------------------------------------------------
\* m_authenticate.c.

\* A new cookie, if the client has none.
Cookie(w, c) ==
  IF w.cl[c].cookie # 0 THEN w
  ELSE [w EXCEPT !.cl[c].cookie = Len(w.owner) + 1, !.owner = Append(@, w.cl[c].inst)]

m_authenticate(w, c, malformed) ==
  LET v == Cookie(w, c)
      first == w.cl[c].cookie = 0
      sent == IF auth_iauth_handles_sasl
              THEN IF first THEN auth_send_sasl_start(v, c) ELSE auth_send_sasl_data(v, c)
              ELSE Tell(v, c, IF first THEN "S" ELSE "C")
  IN  CASE "sasl" \notin w.cl[c].active \/ w.cl[c].complete -> w
        [] ~auth_iauth_handles_sasl /\ Target(w, c) = 0 /\ saslScene.server # "*" -> w
        [] first /\ malformed -> exit_client(v, c)
        [] OTHER -> [sent EXCEPT !.cl[c].timer = TRUE]

-----------------------------------------------------------------------------
\* m_sasl.c: a line from server s.

\* Is there a client with this session?
Served(w, msg) == w.cl[msg.fd].inst # 0 /\ w.cl[msg.fd].cookie = msg.cookie

\* The first server that answers becomes the agent.
Adopt(w, s, c) ==
  IF w.cl[c].agent # 0 THEN w ELSE [w EXCEPT !.cl[c].agent = w.srv[s].id, !.srv[s].ref = @ + 1]

Answered(w, s, msg) ==
  LET c == msg.fd
      v == Adopt(w, s, c)
  IN  CASE ~Served(w, msg) -> w
        [] Served(w, msg) /\ v.cl[c].agent # w.srv[s].id -> v
        [] Served(w, msg) /\ v.cl[c].agent = w.srv[s].id /\ msg.t \in {"C", "M"} -> v
        [] Served(w, msg) /\ v.cl[c].agent = w.srv[s].id /\ msg.t = "L" ->
             LET u == [v EXCEPT !.cl[c].account = msg.cookie]
             IN  IF u.cl[c].reg THEN u ELSE auth_set_account(u, c)
        [] OTHER ->
             LET u == IF msg.t = "DS" THEN [v EXCEPT !.cl[c].complete = TRUE] ELSE v
             IN  [Release(u, c) EXCEPT !.cl[c].timer = FALSE]

ms_sasl(w, s, msg) ==
  CASE msg.dest = "*" -> sendcmdto_serv_butone(w, s, msg)
    [] msg.dest \in Agents -> IF w.srv[msg.dest].id # 0 THEN sendcmdto_one(w, msg.dest, msg) ELSE w
    [] OTHER -> IF msg.of # "me" THEN w ELSE Answered(w, s, msg)

-----------------------------------------------------------------------------
\* list.c: a server is gone, and with it the agent of its clients.

free_client(w, s) ==
  LET cleared == IF w.srv[s].ref = 0 THEN w
                 ELSE [w EXCEPT !.cl = [c \in DOMAIN @ |-> IF @[c].agent = w.srv[s].id
                                                           THEN [@[c] EXCEPT !.agent = 0] ELSE @[c]]]
  IN  [cleared EXCEPT !.srv[s] = [id |-> 0, ref |-> 0], !.to[s] = <<>>, !.from[s] = <<>>]

-----------------------------------------------------------------------------
\* s_auth.c: a line from IAuth about the client with this descriptor and port.

iauth_cmd_sasl_challenge(w, c) == w
iauth_cmd_sasl_mechs(w, c) == w
iauth_cmd_sasl_fail(w, c) == w
iauth_cmd_sasl_loggedin(w, c, account) == [w EXCEPT !.cl[c].account = account]
iauth_cmd_sasl_done(w, c) == [w EXCEPT !.cl[c].complete = TRUE, !.cl[c].timer = FALSE]


\* The port is compared only while the client has an authorization request; the address is the same here.
iauth_parse(w, msg) ==
  LET c == msg.fd
      taken == w.cl[c].inst # 0 /\ (w.cl[c].reg \/ w.cl[c].inst = msg.inst)
  IN  CASE ~taken -> w
        [] taken /\ msg.t = "c" -> iauth_cmd_sasl_challenge(w, c)
        [] taken /\ msg.t = "l" -> iauth_cmd_sasl_mechs(w, c)
        [] taken /\ msg.t = "f" -> iauth_cmd_sasl_fail(w, c)
        [] taken /\ msg.t = "L" -> iauth_cmd_sasl_loggedin(w, c, msg.inst)
        [] taken /\ msg.t = "Z" -> iauth_cmd_sasl_done(w, c)

-----------------------------------------------------------------------------
\* What happens, each kind as often as the scene lets it.

SaslInit ==
  /\ saslScene \in SaslScenes
  /\ sasl = [cl |-> [c \in saslScene.slots |-> NoClient],
             srv |-> [s \in saslScene.agents |-> [id |-> saslScene.linked[s], ref |-> 0]],
             to |-> [s \in saslScene.agents |-> <<>>], from |-> [s \in saslScene.agents |-> <<>>],
             ask |-> <<>>, told |-> <<>>, owner |-> <<>>, approved |-> {}, next |-> 10, left |-> saslScene.times]

Happen(k, w) == sasl.left[k] > 0 /\ sasl' = [w EXCEPT !.left[k] = @ - 1] /\ UNCHANGED saslScene

Go(w) == sasl' = w /\ UNCHANGED saslScene

Here(c) == sasl.cl[c].inst # 0

Come(c) ==
  /\ ~Here(c)
  /\ Happen("come", [sasl EXCEPT !.cl[c] = [NoClient EXCEPT !.inst = sasl.next,
                                                            !.pend = {"nick"} \union saslScene.pend],
                                 !.next = @ + 1])

Name(c) == Here(c) /\ "nick" \in sasl.cl[c].pend /\ Go(auth_set_nick(sasl, c))

IauthDone(c) == Here(c) /\ "iauth" \in sasl.cl[c].pend /\ Go(iauth_done(sasl, c))

Cap(c, cmd, list) == Here(c) /\ Happen("cap", m_cap(sasl, c, cmd, list))

Authenticate(c, malformed) ==
  Here(c) /\ ~sasl.cl[c].reg /\ Happen("auth", m_authenticate(sasl, c, malformed))

Leave(c) == Here(c) /\ Go(exit_client(sasl, c))

Expire(c) == sasl.cl[c].timer /\ Go(sasl_timeout_callback(sasl, c))

Link(s) ==
  sasl.srv[s].id = 0 /\ Happen("link", [sasl EXCEPT !.srv[s].id = sasl.next, !.next = @ + 1])

Split(s) == sasl.srv[s].id # 0 /\ Happen("split", free_client(sasl, s))

Receive(s) ==
  /\ sasl.from[s] # <<>>
  /\ Go(ms_sasl([sasl EXCEPT !.from[s] = Tail(@)], s, Head(sasl.from[s])))

\* An agent handles the next line that was sent to it (external): silence, a challenge, a list of mechanisms
\* and a refusal, an abort, or the account and success.
Serve(s, reply) ==
  LET msg == Head(sasl.to[s])
      line(t) == [t |-> t, dest |-> "you", of |-> msg.of, fd |-> msg.fd, cookie |-> msg.cookie]
  IN  /\ sasl.to[s] # <<>>
      /\ (msg.t = "A" \/ msg.of # "me") => reply = <<>>
      /\ Go([sasl EXCEPT !.to[s] = Tail(@), !.from[s] = @ \o [k \in DOMAIN reply |-> line(reply[k])],
                         !.approved = IF "DS" \in ToSet(reply) THEN @ \union {msg.cookie} ELSE @])

\* A session of a client of server s passes this server.
Pass(s, dest) ==
  s \in Linked /\ Happen("pass", [sasl EXCEPT !.from[s] = Append(@, [t |-> "S", dest |-> dest, of |-> s, fd |-> 1,
                                                                     cookie |-> 0])])

\* IAuth handles the next line sent to it (external), in the same ways.
IauthServe(reply) ==
  LET msg == Head(sasl.ask)
  IN  /\ sasl.ask # <<>>
      /\ msg.t = "D" => reply = <<>>
      /\ Go([sasl EXCEPT !.ask = Tail(@),
                         !.told = @ \o [k \in DOMAIN reply |-> [t |-> reply[k], fd |-> msg.fd, inst |-> msg.inst]],
                         !.approved = IF "Z" \in ToSet(reply) THEN @ \union {msg.inst} ELSE @])

IauthReceive == sasl.told # <<>> /\ Go(iauth_parse([sasl EXCEPT !.told = Tail(@)], Head(sasl.told)))

SaslNext ==
  \/ \E c \in Slots : Come(c) \/ Name(c) \/ IauthDone(c) \/ Leave(c) \/ Expire(c)
  \/ \E c \in Slots : \E cmd \in saslScene.cmds \cap {"ACK", "REQ"} : \E list \in saslScene.lists : Cap(c, cmd, list)
  \/ \E c \in Slots : \E cmd \in saslScene.cmds \ {"ACK", "REQ"} : Cap(c, cmd, <<>>)
  \/ \E c \in Slots : \E malformed \in saslScene.malformed : Authenticate(c, malformed)
  \/ \E s \in Agents : Link(s) \/ Split(s) \/ Receive(s)
  \/ \E s \in Agents : \E reply \in saslScene.replies : Serve(s, reply)
  \/ \E s \in Agents : \E dest \in Agents \union {"*"} : Pass(s, dest)
  \/ \E reply \in saslScene.replies : IauthServe(reply)
  \/ IauthReceive

\* Timers expire (ircd_events.c).  Expire(c) is enabled while the timer runs and stops it, so that this is weak
\* fairness of Expire(c).
SaslFair == \A c \in UNION {s.slots : s \in SaslScenes} : []<>(c \in Slots => ~sasl.cl[c].timer)

SaslSpec == SaslInit /\ [][SaslNext]_saslVars /\ SaslFair

-----------------------------------------------------------------------------
\* A user is logged in only to an account that the agent approved in a session of this very connection:
\* not by an answer to an earlier user of the descriptor, and not by half an answer.
LoginsOwn ==
  \A c \in Slots : LET a == sasl.cl[c].login
                   IN  a # 0 => /\ a \in sasl.approved
                                /\ sasl.cl[c].inst = (IF saslScene.iauth THEN a ELSE sasl.owner[a])

\* free_client() looks for the clients of an agent only if it is counted as one: each agent a client refers
\* to is linked, and is counted once per client.
AgentsCounted ==
  /\ \A c \in Slots : sasl.cl[c].agent # 0 => \E s \in Agents : sasl.srv[s].id = sasl.cl[c].agent
  /\ \A s \in Linked : sasl.srv[s].ref = Cardinality({c \in Slots : sasl.cl[c].agent = sasl.srv[s].id})

\* What a client was told of its capabilities (CAP ACK and NAK) is what the server acts on.
CapsUnderstood == \A c \in Slots : sasl.cl[c].active = sasl.cl[c].view

\* A session that has been opened ends: with success, or by an answer, the timer or registration.
SessionsEnd ==
  \A c \in UNION {s.slots : s \in SaslScenes} :
    (c \in Slots /\ sasl.cl[c].cookie # 0) ~> (c \in Slots => sasl.cl[c].cookie = 0 \/ sasl.cl[c].complete)

=============================================================================
