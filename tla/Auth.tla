-------------------------------- MODULE Auth --------------------------------
(***************************************************************************)
(* Registration of connections (ircd/s_auth.c).  Every accepted            *)
(* connection gets an AuthRequest that collects what must happen before it *)
(* is let in: a DNS lookup, an ident query, the USER, NICK and PONG of a   *)
(* user, the end of CAP negotiation, a login to a service (login on        *)
(* connect, LOC) and the verdict of the external IAuth program.  Each of   *)
(* these ends in a call of check_auth_finished.  Requests come from a free *)
(* list, and connections from slots (file descriptors) that are used       *)
(* again, so answers of IAuth and of the service may come too late.        *)
(*                                                                         *)
(* A connection's number stands for its remote port and for the random     *)
(* LOC cookie, which are taken to be fresh.  Every connection of a slot    *)
(* has the same address.  Timers are untimed: an active one may fire.      *)
(***************************************************************************)
EXTENDS Naturals, Sequences, FiniteSets, SequencesExt

CONSTANTS
  Clients,          \* file descriptors: slots of LocalClientArray
  Requests,         \* the AuthRequest structures malloc may return
  NoRequest,        \* the null pointer
  MaxConns,         \* bound: accepted connections
  MaxAnswers,       \* bound: unread answers of IAuth
  Scenes            \* configurations and surroundings

\* A scene: the descriptors in use; the kinds of listeners; how start_dns_query and
\* start_auth_query may end; FEAT_LOGIN_ON_CONNECT with FEAT_EXTENDED_ACCOUNTS;
\* FEAT_KILL_IPMISMATCH; whether there is an IAuth program, the commands it uses and
\* whether it has the policy R, IAUTH_REQUIRED; a bound on the connections; whether
\* timers run for ever.
Scene == [clients : SUBSET Clients, ports : SUBSET {"user", "server"},
          dns : SUBSET {"none", "query"},
          ident : SUBSET {"none", "add_error", "connecting", "sent", "send_failed"},
          login : BOOLEAN, mismatch : BOOLEAN, iauth : BOOLEAN,
          commands : SUBSET {"U", "N", "C", "d", "D", "R", "K"}, required : BOOLEAN,
          conns : 0 .. MaxConns, fair : BOOLEAN]

ASSUME AuthConstants ==
  /\ NoRequest \notin Requests
  /\ {MaxConns, MaxAnswers} \subseteq Nat
  /\ \A sc \in Scenes : sc \in Scene

VARIABLES
  conns,     \* how many connections were accepted
  conn,      \* LocalClientArray: number, port, status, "told": known to IAuth
  auth,      \* cli_auth
  req,       \* the AuthRequests
  heap,      \* the requests malloc has returned
  freelist,  \* auth_freelist
  loc,       \* cli_loc: set, and the cookie (0: nothing asked)
  account,   \* the connection on whose behalf cli_user(c)->account was set
  dns,       \* requests some resolver query points to
  asked,     \* LOC requests the service has not answered: slot and cookie
  iauth,     \* the IAuth program: up, its unread input, the connections it
             \* knows, its unread output
  approved,  \* connections IAuth has answered d, D or R for
  wronged,   \* connections killed by a verdict on another one
  aborted,   \* an assertion has failed
  scene

vars == <<conns, conn, auth, req, heap, freelist, loc, account, dns, asked, iauth,
          approved, wronged, aborted, scene>>

\* The flags check_auth_finished scans, and the others that matter here.
Scan == {"AUTH_PENDING", "DNS_PENDING", "CAP_PENDING", "NEEDS_PONG", "NEEDS_USER",
         "NEEDS_NICK"}
Flags == Scan \cup {"IAUTH_PENDING", "IAUTH_HURRY", "IAUTH_SOFT_DONE",
                    "PASSWORD_CHECKED", "LOC_DONE"}

Free == [n |-> 0, port |-> "none", status |-> "free", told |-> FALSE]
NoLoc == [set |-> FALSE, cookie |-> 0]
Zeroed(c) == [client |-> c, flags |-> {}, timeout |-> FALSE, loctimeout |-> FALSE,
              sock |-> "none", cookie |-> FALSE]

Numbers == 0 .. MaxConns
TypeOK ==
  /\ conns \in Numbers
  /\ conn \in [Clients -> [n : Numbers, port : {"user", "server", "none"},
                           status : {"free", "unreg", "reg"}, told : BOOLEAN]]
  /\ auth \in [Clients -> Requests \cup {NoRequest}]
  /\ DOMAIN req = heap
  /\ heap \subseteq Requests
  /\ \A r \in heap :
       req[r] \in [client : Clients, flags : SUBSET Flags, timeout : BOOLEAN,
                   loctimeout : BOOLEAN, sock : {"none", "connecting", "connected"},
                   cookie : BOOLEAN]
  /\ freelist \in Seq(Requests)
  /\ loc \in [Clients -> [set : BOOLEAN, cookie : Numbers]]
  /\ account \in [Clients -> Numbers]
  /\ dns \subseteq heap
  /\ asked \subseteq Clients \X Numbers
  /\ iauth.up \in BOOLEAN
  /\ iauth.known \subseteq Clients \X Numbers
  /\ approved \subseteq Numbers
  /\ wronged \subseteq Numbers
  /\ aborted \in BOOLEAN

Init ==
  /\ scene \in Scenes
  /\ conns = 0
  /\ conn = [c \in Clients |-> Free]
  /\ auth = [c \in Clients |-> NoRequest]
  /\ req = <<>>
  /\ heap = {}
  /\ freelist = <<>>
  /\ loc = [c \in Clients |-> NoLoc]
  /\ account = [c \in Clients |-> 0]
  /\ dns = {}
  /\ asked = {}
  /\ iauth = [up |-> scene.iauth, input |-> <<>>, known |-> {}, output |-> <<>>]
  /\ approved = {}
  /\ wronged = {}
  /\ aborted = FALSE

-----------------------------------------------------------------------------
(***************************************************************************)
(* What a handler does is a set of outcomes, each a record of the state it *)
(* leaves behind: checks that the model leaves open go both ways.          *)
(***************************************************************************)
Now == [conns |-> conns, conn |-> conn, auth |-> auth, req |-> req, heap |-> heap, freelist |-> freelist,
        loc |-> loc, account |-> account, dns |-> dns, asked |-> asked, iauth |-> iauth]

Become(w) ==
  /\ conns' = w.conns /\ conn' = w.conn /\ auth' = w.auth /\ req' = w.req /\ heap' = w.heap
  /\ freelist' = w.freelist /\ loc' = w.loc /\ account' = w.account /\ dns' = w.dns
  /\ asked' = w.asked /\ iauth' = w.iauth

Take(outcomes) ==
  /\ ~aborted
  /\ \E w \in outcomes : Become(w)
  /\ UNCHANGED <<approved, wronged, aborted, scene>>

Has(w, r, flag) == flag \in w.req[r].flags
FlagSet(w, r, fs) == [w EXCEPT !.req[r].flags = @ \cup fs]
FlagClr(w, r, fs) == [w EXCEPT !.req[r].flags = @ \ fs]
IsUserPort(w, c) == w.conn[c].port = "user"

\* Only what tells IAuth of a connection (C) and of its end (D) is kept.
sendto_iauth(w, c, cmd) ==
  IF \/ ~w.iauth.up
     \/ /\ cmd # "D"
        /\ w.auth[c] = NoRequest \/ ~Has(w, w.auth[c], "IAUTH_PENDING")
  THEN w
  ELSE [w EXCEPT !.iauth.input = Append(@, <<cmd, c, w.conn[c].n>>)]

destroy_auth_request(w, r) ==
  [w EXCEPT !.dns = IF Has(w, r, "DNS_PENDING") THEN @ \ {r} ELSE @,
            !.req[r] = [@ EXCEPT !.sock = "none", !.timeout = FALSE, !.loctimeout = FALSE],
            !.auth[w.req[r].client] = NoRequest,
            !.freelist = <<r>> \o @]

\* mutant: free_client forgets the request
exit_client_leak(w, c) ==
  LET told == IF IsUserPort(w, c) THEN sendto_iauth(w, c, "D") ELSE w
  IN  [told EXCEPT !.auth[c] = NoRequest, !.loc[c] = NoLoc, !.conn[c] = Free,
                   !.account[c] = 0]

\* exit_client of an unregistered connection or a user: IAuth is told, the
\* descriptor is closed, and free_client destroys the request and cli_loc.
exit_client(w, c) ==
  LET told == IF IsUserPort(w, c) THEN sendto_iauth(w, c, "D") ELSE w
      gone == IF w.auth[c] = NoRequest THEN told
              ELSE destroy_auth_request(told, w.auth[c])
  IN  [gone EXCEPT !.loc[c] = NoLoc, !.conn[c] = Free, !.account[c] = 0]

\* The first call of auth_do_loc asks the service; the cookie is the slot's
\* connection number.
auth_do_loc(w, c) ==
  IF w.loc[c].cookie # 0 THEN w
  ELSE [w EXCEPT !.loc[c].cookie = w.conn[c].n,
                 !.asked = @ \cup {<<c, w.conn[c].n>>}]

\* What follows once nothing is pending but perhaps IAuth.  The class, the
\* certificate or the password, the user name, and register_user may refuse
\* the client.
Refused(w, r) ==
  LET c == w.req[r].client
  IN  IF /\ IsUserPort(w, c)
         /\ ~(/\ Has(w, r, "IAUTH_HURRY") /\ Has(w, r, "PASSWORD_CHECKED")
              /\ Has(w, r, "IAUTH_PENDING"))
      THEN {exit_client(w, c)} ELSE {}

Accepted(w, r) ==
  LET c == w.req[r].client
      checked == IF IsUserPort(w, c) THEN FlagSet(w, r, {"PASSWORD_CHECKED", "IAUTH_HURRY"})
                 ELSE FlagSet(w, r, {"IAUTH_HURRY"})
  IN  IF Has(w, r, "IAUTH_PENDING") THEN checked
      ELSE IF IsUserPort(w, c)
      THEN destroy_auth_request([checked EXCEPT !.conn[c].status = "reg"], r)
      ELSE destroy_auth_request(checked, r)

check_auth_finished(w, r) ==
  LET c == w.req[r].client
      tried == FlagSet(w, r, {"LOC_DONE"})
  IN  IF w.req[r].flags \cap Scan # {} THEN {w}
      ELSE IF IsUserPort(w, c) /\ w.loc[c].set
      THEN IF Has(w, r, "LOC_DONE") THEN {w}
           ELSE {auth_do_loc([tried EXCEPT !.req[r].loctimeout = TRUE], c), tried}
      ELSE Refused(w, r) \cup {Accepted(w, r)}

-----------------------------------------------------------------------------
\* Ident

\* The socket is closed, whatever was read.
read_auth_reply(w, r) ==
  check_auth_finished(FlagClr([w EXCEPT !.req[r].sock = "none"], r, {"AUTH_PENDING"}), r)

\* The query is written at once or the lookup has failed.
send_auth_query(w, r, ok) ==
  IF ok THEN {[w EXCEPT !.req[r].sock = "connected"]}
  ELSE check_auth_finished(FlagClr([w EXCEPT !.req[r].sock = "none"], r, {"AUTH_PENDING"}), r)

\* Not wanted or refused; the socket cannot be added, which the callback is
\* told of as an error; connecting; or connected at once.
start_auth_query(w, r) ==
  UNION {CASE how = "none" -> {w}
           [] how = "add_error" -> read_auth_reply(w, r)
           [] how = "connecting" ->
                {FlagSet([w EXCEPT !.req[r].sock = "connecting"], r, {"AUTH_PENDING"})}
           [] OTHER -> send_auth_query(FlagSet(w, r, {"AUTH_PENDING"}), r, how = "sent")
         : how \in scene.ident}

\* ET_CONNECT, and ET_READ, ET_EOF and ET_ERROR.
auth_sock_callback(r) ==
  /\ r \in heap
  /\ \/ /\ req[r].sock = "connecting"
        /\ \E ok \in BOOLEAN : Take(send_auth_query(Now, r, ok))
     \/ /\ req[r].sock # "none"
        /\ Take(read_auth_reply(Now, r))

-----------------------------------------------------------------------------
\* Start

start_dns_query(w, r) ==
  {IF how = "none" THEN w
   ELSE FlagSet([w EXCEPT !.dns = @ \cup {r}], r, {"DNS_PENDING"}) : how \in scene.dns}

start_iauth_query(w, r) ==
  LET c == w.req[r].client
      pending == FlagSet(w, r, {"IAUTH_PENDING"})
  IN  IF w.iauth.up
      THEN [sendto_iauth(pending, c, "C") EXCEPT !.conn[c].told = TRUE]
      ELSE w

\* A request from the free list, or a new one (any: their names do not matter).
Allocate(c, port) ==
  {LET n == conns + 1
       w == [Now EXCEPT !.conns = n,
                        !.freelist = IF @ = <<>> THEN @ ELSE Tail(@),
                        !.heap = @ \cup {r},
                        !.auth[c] = r,
                        !.conn[c] = [n |-> n, port |-> port, status |-> "unreg",
                                     told |-> FALSE]]
   IN  [w EXCEPT !.req = [q \in w.heap |->
                            IF q = r THEN [Zeroed(c) EXCEPT !.timeout = TRUE] ELSE req[q]]]
   : r \in IF freelist # <<>> THEN {Head(freelist)}
         ELSE {q \in Requests \ heap : q = CHOOSE fresh \in Requests \ heap : TRUE}}

\* The connection's addresses may not be known any more.  A user needs USER
\* and NICK and is shown to IAuth; then DNS, ident, and the first check.
start_auth(c, port) ==
  UNION {LET r == w.auth[c]
             started == IF port = "user"
                        THEN start_iauth_query(FlagSet(w, r, {"NEEDS_USER", "NEEDS_NICK"}), r)
                        ELSE w
         IN  {exit_client(w, c)} \cup
             UNION {UNION {check_auth_finished(v, r) : v \in start_auth_query(u, r)}
                    : u \in start_dns_query(started, r)}
         : w \in Allocate(c, port)}

\* A listener accepts a connection.
Accept(c, port) ==
  /\ conn[c].status = "free"
  /\ conns < scene.conns
  /\ Take(start_auth(c, port))

-----------------------------------------------------------------------------
\* What the client sends

Unregistered(c) == conn[c].status = "unreg"

\* With the right cookie.
auth_set_pong(w, r) ==
  IF ~Has(w, r, "NEEDS_PONG") THEN {w}
  ELSE check_auth_finished(FlagClr(w, r, {"NEEDS_PONG"}), r)

\* mr_pong hands the request on unseen: there may be none.
mr_pong(c) ==
  /\ Unregistered(c)
  /\ \/ auth[c] # NoRequest /\ Take(auth_set_pong(Now, auth[c]))
     \/ /\ auth[c] = NoRequest /\ ~aborted
        /\ aborted' = TRUE
        /\ Become(Now) /\ UNCHANGED <<approved, wronged, scene>>

auth_set_user(w, r) ==
  IF Has(w, r, "IAUTH_HURRY") THEN {w}
  ELSE check_auth_finished(FlagClr(w, r, {"NEEDS_USER"}), r)

\* Users only: on a server port the client is told to use a different port.
m_user(c) ==
  /\ Unregistered(c)
  /\ Take(IF IsUserPort(Now, c) THEN auth_set_user(Now, auth[c]) ELSE {exit_client(Now, c)})

auth_set_nick(w, r) ==
  LET named == FlagClr(w, r, {"NEEDS_NICK"})
      pinged == IF w.req[r].cookie THEN named
                ELSE FlagSet([named EXCEPT !.req[r].cookie = TRUE], r, {"NEEDS_PONG"})
  IN  check_auth_finished(pinged, r)

\* set_nick_name: the first nickname; later ones are mere nickname changes.
m_nick(c) ==
  /\ Unregistered(c)
  /\ IF IsUserPort(Now, c)
     THEN Has(Now, auth[c], "NEEDS_NICK") /\ Take(auth_set_nick(Now, auth[c]))
     ELSE Take({exit_client(Now, c)})

auth_end_loc(w, c) ==
  IF w.auth[c] = NoRequest THEN w ELSE [w EXCEPT !.req[w.auth[c]].loctimeout = FALSE]

\* auth_set_password and auth_set_account, if there is a request.
Checked(w, c) ==
  IF w.auth[c] = NoRequest THEN {w} ELSE check_auth_finished(w, w.auth[c])

\* PASS with a login, with a password only, or empty, which gives up the login.
mr_pass(c, what) ==
  /\ Unregistered(c)
  /\ CASE what = "login" /\ scene.login /\ ~loc[c].set ->
            Take(Checked([Now EXCEPT !.loc[c] = [set |-> TRUE, cookie |-> 0]], c))
       [] what = "empty" ->
            /\ loc[c].set
            /\ Take(Checked([auth_end_loc(Now, c) EXCEPT !.loc[c] = NoLoc], c))
       [] OTHER -> Take(Checked(Now, c))

\* CAP LS and CAP REQ suspend the registration, CAP END lets it go on.
cap_ls(c) ==
  /\ Unregistered(c) /\ auth[c] # NoRequest
  /\ Take({FlagSet(Now, auth[c], {"CAP_PENDING"})})

cap_end(c) ==
  /\ Unregistered(c) /\ auth[c] # NoRequest
  /\ Take(check_auth_finished(FlagClr(Now, auth[c], {"CAP_PENDING"}), auth[c]))

\* A server completes its handshake, whatever became of its request.
mr_server(c) ==
  /\ Unregistered(c) /\ conn[c].port = "server"
  /\ Take({[Now EXCEPT !.conn[c].status = "reg"]})

\* The connection is closed by its client, by an error or for any other reason.
Disconnect(c) ==
  /\ conn[c].status # "free"
  /\ Take({exit_client(Now, c)})

-----------------------------------------------------------------------------
\* Timers, the resolver, the login service

\* The ident socket stays open: a late answer still ends in read_auth_reply.
auth_timeout_callback(r) ==
  /\ r \in heap /\ req[r].timeout
  /\ LET w == FlagClr([Now EXCEPT !.req[r].timeout = FALSE,
                                  !.dns = IF Has(Now, r, "DNS_PENDING") THEN @ \ {r} ELSE @],
                      r, {"AUTH_PENDING", "DNS_PENDING"})
     IN  Take(check_auth_finished(w, r))

\* Only tells the user that PASS without parameters gets them on.
auth_loc_timeout_callback(r) ==
  /\ r \in heap /\ req[r].loctimeout
  /\ Take({[Now EXCEPT !.req[r].loctimeout = FALSE]})

\* mutant: IAuth stays pending
auth_ping_timeout_waits(c) ==
  LET r == auth[c]
  IN  IF \/ r = NoRequest \/ loc[c].set
         \/ req[r].flags \cap Scan # {}
      THEN {exit_client(Now, c)}
      ELSE check_auth_finished(Now, r)

\* The time to register is over.  If only IAuth is missing, the client may do
\* without it.  (The assertion at the end is WaitsForSomething.)
auth_ping_timeout(c) ==
  LET r == auth[c]
  IN  IF \/ r = NoRequest \/ loc[c].set
         \/ req[r].flags \cap Scan # {}
         \/ scene.required /\ ~Has(Now, r, "IAUTH_SOFT_DONE")
      THEN {exit_client(Now, c)}
      ELSE check_auth_finished(FlagClr(Now, r, {"IAUTH_PENDING"}), r)

\* The part of check_pings about connections that are not registered.
check_pings(c) == Unregistered(c) /\ Take(auth_ping_timeout(c))

\* Whatever the answer is, it ends the lookup; a name for another address may
\* end the connection.
auth_dns_callback(r) ==
  /\ r \in dns
  /\ LET w == FlagClr([Now EXCEPT !.dns = @ \ {r}], r, {"DNS_PENDING"})
     IN  Take(check_auth_finished(w, r) \cup
              (IF scene.mismatch THEN {exit_client(w, req[r].client)} ELSE {}))

\* mutant: the cookie is not compared
decode_auth_id_fd(id) == conn[id[1]].status # "free" /\ loc[id[1]].set

\* Whether the connection a reply is for is still there.
decode_auth_id(id) ==
  conn[id[1]].status # "free" /\ loc[id[1]].set /\ loc[id[1]].cookie = id[2]

\* The service answers: accepted (A) or denied (D).
ms_account(id, type) ==
  /\ id \in asked
  /\ LET c == id[1]
         w == [Now EXCEPT !.asked = @ \ {id}]
         told == auth_end_loc(w, c)
     IN  Take(IF ~decode_auth_id(id) THEN {w}
              ELSE IF type = "D" THEN {told}
              ELSE Checked([told EXCEPT !.account[c] = id[2], !.loc[c] = NoLoc], c))

-----------------------------------------------------------------------------
\* IAuth

\* The program (external) reads what it is told, decides about connections it
\* knows at any time and in any order, dies, and is started again, which does
\* not tell it of the connections that wait for its predecessor.
IAuthReads ==
  /\ iauth.up /\ iauth.input # <<>>
  /\ LET m == Head(iauth.input)
     IN  Take({[Now EXCEPT !.iauth.input = Tail(@),
                           !.iauth.known = IF m[1] = "C" THEN @ \cup {<<m[2], m[3]>>}
                                           ELSE @ \ {<<m[2], m[3]>>}]})

IAuthAnswers ==
  /\ iauth.up /\ Len(iauth.output) < MaxAnswers /\ ~aborted
  /\ \E k \in iauth.known, cmd \in scene.commands :
       /\ Become([Now EXCEPT !.iauth.output = Append(@, <<cmd, k[1], k[2]>>)])
       /\ approved' = IF cmd \in {"d", "D", "R"} THEN approved \cup {k[2]} ELSE approved
  /\ UNCHANGED <<wronged, aborted, scene>>

IAuthDies ==
  /\ iauth.up
  /\ Take({[Now EXCEPT !.iauth = [up |-> FALSE, input |-> <<>>, known |-> {},
                                  output |-> <<>>]]})

IAuthStarts ==
  /\ ~iauth.up /\ scene.iauth
  /\ Take({[Now EXCEPT !.iauth.up = TRUE]})

\* username_forced, username_good and username_bad end the ident lookup.
iauth_cmd_username(w, r) == check_auth_finished(FlagClr(w, r, {"AUTH_PENDING"}), r)

iauth_cmd_hostname(w, r) ==
  check_auth_finished(FlagClr([w EXCEPT !.dns = IF Has(w, r, "DNS_PENDING") THEN @ \ {r}
                                                 ELSE @], r, {"DNS_PENDING"}), r)

\* A challenge, a mark or user modes: nothing that matters here.
iauth_cmd_challenge(w) == {w}

iauth_cmd_soft_done(w, r) == check_auth_finished(FlagSet(w, r, {"IAUTH_SOFT_DONE"}), r)

\* The class IAuth asks for may be full.
iauth_cmd_done_client(w, r) ==
  {exit_client(w, w.req[r].client)}
  \cup check_auth_finished(FlagClr(w, r, {"IAUTH_PENDING"}), r)

iauth_cmd_done_account(w, r, n) ==
  iauth_cmd_done_client([w EXCEPT !.account[w.req[r].client] = n], r)

iauth_cmd_kill(w, c) == {exit_client(w, c)}

\* Whether a command reaches its handler: the slot is in use, waits for IAuth
\* unless the command is for anyone, and has the right port, which only its
\* request knows.
Expected(cmd, c, n) ==
  /\ conn[c].status # "free"
  /\ cmd = "K" \/ (auth[c] # NoRequest /\ Has(Now, auth[c], "IAUTH_PENDING"))
  /\ auth[c] # NoRequest => n = conn[c].n

iauth_parse ==
  /\ iauth.output # <<>> /\ ~aborted
  /\ LET m == Head(iauth.output)
         cmd == m[1]
         c == m[2]
         w == [Now EXCEPT !.iauth.output = Tail(@)]
         r == auth[c]
     IN  /\ \E v \in IF ~Expected(cmd, c, m[3]) THEN {w}
                     ELSE CASE cmd = "U" -> iauth_cmd_username(w, r)
                            [] cmd = "N" -> iauth_cmd_hostname(w, r)
                            [] cmd = "C" -> iauth_cmd_challenge(w)
                            [] cmd = "d" -> iauth_cmd_soft_done(w, r)
                            [] cmd = "D" -> iauth_cmd_done_client(w, r)
                            [] cmd = "R" -> iauth_cmd_done_account(w, r, m[3])
                            [] cmd = "K" -> iauth_cmd_kill(w, c) :
              Become(v)
         /\ wronged' = IF cmd = "K" /\ Expected(cmd, c, m[3]) /\ m[3] # conn[c].n
                       THEN wronged \cup {conn[c].n} ELSE wronged
  /\ UNCHANGED <<approved, aborted, scene>>

-----------------------------------------------------------------------------
Client(c) ==
  \/ \E port \in scene.ports : Accept(c, port)
  \/ mr_pong(c) \/ m_user(c) \/ m_nick(c) \/ cap_ls(c) \/ cap_end(c) \/ mr_server(c)
  \/ \E what \in {"login", "plain", "empty"} : mr_pass(c, what)
  \/ Disconnect(c)
  \/ check_pings(c)

Request(r) ==
  \/ auth_sock_callback(r) \/ auth_timeout_callback(r)
  \/ auth_loc_timeout_callback(r) \/ auth_dns_callback(r)

Next ==
  \/ \E c \in scene.clients : Client(c)
  \/ \E r \in Requests : Request(r)
  \/ \E id \in asked, type \in {"A", "D"} : ms_account(id, type)
  \/ IAuthReads \/ IAuthAnswers \/ IAuthDies \/ IAuthStarts \/ iauth_parse

Spec == Init /\ [][Next]_vars

\* check_pings is a timer that always sets itself again, so a connection that
\* is not registered is looked at when its time is over.
FairSpec == Spec /\ \A c \in Clients : WF_vars(scene.fair /\ check_pings(c))

-----------------------------------------------------------------------------
\* Properties

\* Every request that was ever allocated is either the request of exactly the
\* connection it points back to, or on the free list exactly once: nothing is
\* leaked, shared or freed twice, whichever of the many ways a registration
\* ends.
RequestsOwned ==
  /\ \A r \in heap :
       Cardinality({c \in Clients : auth[c] = r})
       + Cardinality({i \in 1 .. Len(freelist) : freelist[i] = r}) = 1
  /\ \A c \in Clients :
       auth[c] # NoRequest => req[auth[c]].client = c /\ conn[c].status # "free"

\* No callback is left behind by a request that was given back: its timers, its
\* ident socket and its resolver queries are gone when it is on the free list.
FreeIsIdle ==
  \A r \in heap :
    r \in ToSet(freelist) =>
      req[r].sock = "none" /\ ~req[r].timeout /\ ~req[r].loctimeout /\ r \notin dns

\* A request waits for the resolver exactly if a query points to it.
DnsPending ==
  \A c \in Clients :
    auth[c] # NoRequest => (auth[c] \in dns <=> Has(Now, auth[c], "DNS_PENDING"))

\* Requests are well formed and what points to them is in step with them: no
\* callback reaches one that was given back, and the resolver is waited for
\* exactly while it has a query.
RequestsConsistent == TypeOK /\ FreeIsIdle /\ DnsPending

\* A connection whose request is still there waits for something that will call
\* check_auth_finished or that check_pings acts on: the assertion at the end of
\* auth_ping_timeout is never reached.
WaitsForSomething ==
  \A c \in Clients :
    auth[c] # NoRequest =>
      \/ req[auth[c]].flags \cap (Scan \cup {"IAUTH_PENDING"}) # {}
      \/ loc[c].set

\* However DNS, ident, IAuth, login and timers interleave, the requests are in step with the
\* connections: none is leaked or shared, none is reached after it was given back, and none
\* is kept that nothing will finish.
RequestsSound == RequestsConsistent /\ RequestsOwned /\ WaitsForSomething

\* An account is only set on the connection the service or IAuth approved,
\* although replies name the connection by its descriptor.
AccountIsOwn == \A c \in Clients : account[c] \in {0, conn[c].n}

\* If IAuth is required, no user it was told of gets in without its consent,
\* not even on a time-out or if the program dies.
RequiredMeansApproved ==
  scene.required =>
    \A c \in Clients :
      conn[c].status = "reg" /\ conn[c].told => conn[c].n \in approved

\* Answers that come late, after the descriptor has been used again or after IAuth has died,
\* decide about nobody else: accounts and approvals are the connection's own.
VerdictsOwn == AccountIsOwn /\ RequiredMeansApproved

\* Every connection is registered or gone in the end: none is kept waiting for
\* an answer that never comes.
RegistrationEnds ==
  \A c \in Clients : \A n \in 1 .. MaxConns :
    (scene.fair /\ Unregistered(c) /\ conn[c].n = n) ~> ~(Unregistered(c) /\ conn[c].n = n)

\* A kill from IAuth only ends the connection it was about.
KillHitsItsConnection == wronged = {}

\* The handlers of registration commands are called with a request.
AuthNotNull == ~aborted
=============================================================================
