------------------------------ MODULE IPcheck ------------------------------
(***************************************************************************)
(* The registry of client addresses (ircd/IPcheck.c): how many clients an  *)
(* address has, how often it connected lately, and the throttling decision *)
(* taken from that, together with every caller that charges or releases a  *)
(* client (add_connection, WEBIRC and the IAuth "I" command, the nickname  *)
(* override, registration, exit_one_client and NICK from a server).        *)
(*                                                                         *)
(* An address stands for the group of addresses ip_registry_find treats as *)
(* one: an IPv4 address, or the first 48 or 64 bits of an IPv6 address.    *)
(***************************************************************************)
EXTENDS Integers, FiniteSets

CONSTANTS
  Clients,      \* client structures
  Addrs,        \* address groups of the registry
  NoAddr,       \* no address
  Invalid,      \* the addresses irc_in_addr_valid rejects
  Exemptions,   \* the sets of addresses the Except blocks may exempt
  UserExempt,   \* clients an Except block exempts by their user@host
  LIMIT, PERIOD, DELAY,   \* IPCHECK_CLONE_LIMIT, _PERIOD and _DELAY
  ExpireAge, TargetAge,   \* 600 and 120 seconds in ip_registry_expire_entry
  STARTTARGETS, TARGET_DELAY,
  ConnMod,      \* 2^16: connected is an unsigned short
  AttMod,       \* 2^8: attempts is an unsigned char
  TimeMod,      \* 2^16: NOW keeps 16 bits of the clock
  Epoch,        \* the clock when the server started
  MaxTime,      \* bound: seconds a behaviour lasts
  MaxLeaks      \* bound: failed socket set-ups per address

ASSUME IPcheckConstants ==
  /\ IsFiniteSet(Clients) /\ Invalid \subseteq Addrs /\ NoAddr \notin Addrs
  /\ Exemptions \subseteq SUBSET Addrs /\ Exemptions # {}
  /\ UserExempt \subseteq Clients
  /\ LIMIT \in Nat /\ PERIOD \in Nat /\ DELAY \in Nat
  /\ ExpireAge \in Nat /\ TargetAge \in Nat
  /\ STARTTARGETS \in Nat /\ TARGET_DELAY \in Nat \ {0}
  /\ ConnMod \in Nat \ {0, 1} /\ AttMod \in Nat \ {0, 1}
  /\ TimeMod \in Nat \ {0} /\ Epoch \in Nat
  /\ MaxTime \in Nat /\ MaxLeaks \in Nat

VARIABLES
  now,       \* CurrentTime, in seconds since the server started
  registry,  \* hashTable: the entry of every address
  clients,   \* the client structures
  exempt,    \* addresses the Except blocks in force exempt
  leaked,    \* history: clients counted whose set-up failed, per address
  touched,   \* history: true time of the last change of last_connect
  chain,     \* history: attempts no more than PERIOD after the last touch
  refused,   \* history: address throttled by the last step, or none
  aborted    \* history: assertions of the code that failed

vars == <<now, registry, clients, exempt, leaked, touched, chain, refused,
          aborted>>
history == <<leaked, touched, chain>>

NoTarget == -1

NOW == (Epoch + now) % TimeMod
CONNECTED_SINCE(x) == NOW - x

\* C's division truncates towards zero.
CDiv(n, d) == IF n >= 0 THEN n \div d ELSE -((-n) \div d)

NoEntry == [here |-> FALSE, last |-> 0, connected |-> 0, attempts |-> 0,
            target |-> NoTarget]

ip_registry_new_entry ==
  [here |-> TRUE, last |-> NOW, connected |-> 1, attempts |-> 1,
   target |-> NoTarget]

\* "if (0 == ++attempts) --attempts": an increment that saturates.
CountAttempt(e) ==
  [e EXCEPT !.attempts = IF @ + 1 = AttMod THEN @ ELSE @ + 1]

\* The sum is unsigned: a negative one is huge, and is clamped.
ip_registry_update_free_targets(e) ==
  LET sum == e.target + CDiv(CONNECTED_SINCE(e.last), TARGET_DELAY)
  IN  IF e.target = NoTarget
      THEN e
      ELSE [e EXCEPT !.target =
              IF sum < 0 \/ sum > STARTTARGETS THEN STARTTARGETS ELSE sum]

ForgetAttempts(e, age) ==
  IF CONNECTED_SINCE(e.last) > age THEN [e EXCEPT !.attempts = 0] ELSE e

\* What a connection that is counted as an attempt does to the entry.
Attempt(e) ==
  LET e1 == ip_registry_update_free_targets(ForgetAttempts(e, PERIOD))
  IN  CountAttempt([e1 EXCEPT !.last = NOW])

ip_registry_check_local(e) ==
  IF ~e.here THEN [ok |-> TRUE, entry |-> ip_registry_new_entry]
  ELSE IF e.connected + 1 = ConnMod THEN [ok |-> FALSE, entry |-> e]
  ELSE LET e1 == Attempt(e)
           ok == e1.attempts < LIMIT \/ now <= DELAY
       IN  [ok |-> ok,
            entry |-> IF ok THEN [e1 EXCEPT !.connected = @ + 1] ELSE e1]

\* The counter wraps before the function gives up on the client.
ip_registry_check_remote(e, is_burst) ==
  LET e1 == [e EXCEPT !.connected = (@ + 1) % ConnMod]
  IN  IF ~e.here
      THEN IF is_burst THEN [ip_registry_new_entry EXCEPT !.attempts = 0]
           ELSE ip_registry_new_entry
      ELSE IF e1.connected = 0 THEN e1
      ELSE IF is_burst THEN ForgetAttempts(e1, PERIOD) ELSE Attempt(e1)

\* mutant: the disconnect flag is ignored
connect_fail_keeps_count(e, disconnect) ==
  LET left == (e.attempts - 1) % AttMod
  IN  IF e.here THEN [e EXCEPT !.attempts = IF left = 0 THEN 1 ELSE left] ELSE e

\* mutant: a failed connection is one more attempt
connect_fail_counts(e, disconnect) ==
  IF e.here
  THEN [e EXCEPT !.attempts = IF @ = AttMod - 1 THEN @ ELSE @ + 1,
                 !.connected = IF disconnect THEN (@ - 1) % ConnMod ELSE @]
  ELSE e

\* "if (0 == --attempts) ++attempts" on an unsigned char.
ip_registry_connect_fail(e, disconnect) ==
  LET left == (e.attempts - 1) % AttMod
  IN  IF ~e.here THEN e
      ELSE [e EXCEPT !.attempts = IF left = 0 THEN 1 ELSE left,
                     !.connected = IF disconnect THEN (@ - 1) % ConnMod ELSE @]

\* freeTargets is what the client's own clock of free targets leaves it.
ip_registry_disconnect(e, local, freeTargets) ==
  LET e1 == [e EXCEPT !.connected = (@ - 1) % ConnMod]
      e2 == IF e1.connected # 0 THEN e1
            ELSE [ip_registry_update_free_targets(
                     ForgetAttempts(e1, LIMIT * PERIOD)) EXCEPT !.last = NOW]
      old == IF e2.target = NoTarget THEN STARTTARGETS ELSE e2.target
  IN  IF ~local THEN e2
      ELSE [e2 EXCEPT !.target = IF freeTargets < old THEN freeTargets ELSE old]

ip_registry_expire_entry(e) ==
  IF CONNECTED_SINCE(e.last) > ExpireAge THEN NoEntry
  ELSE IF CONNECTED_SINCE(e.last) > TargetAge THEN [e EXCEPT !.target = NoTarget]
  ELSE e

-----------------------------------------------------------------------------
\* Client structures

FreeClient == [status |-> "free", addr |-> NoAddr, checked |-> FALSE,
               cache |-> "unset"]

Live(c) == clients[c].status # "free"
IsIPChecked(c) == clients[c].checked
IsUnknown(c) == clients[c].status = "unknown"

find_except_conf_by_ip(a) == a \in exempt

\* The answer is cached on the client and survives a change of its address.
find_except_conf(c, a) ==
  IF clients[c].cache = "unset"
  THEN IF a \in exempt \/ c \in UserExempt THEN "exempt" ELSE "counted"
  ELSE clients[c].cache

-----------------------------------------------------------------------------
\* The true history of an address, which the 16-bit clock only approximates.

RecordAttempt(a) ==
  /\ touched' = [touched EXCEPT ![a] = now]
  /\ chain' = [chain EXCEPT ![a] =
                 IF touched[a] < 0 \/ now - touched[a] > PERIOD THEN 1
                 ELSE IF @ + 1 = AttMod THEN @ ELSE @ + 1]

-----------------------------------------------------------------------------
\* Operations

\* add_connection on a client port, up to the hand-over to start_auth.  A
\* Z-line or G-line takes the charge back; a failing socket_add or
\* ssl_accept does not.
add_connection(c, a) ==
  LET byIP == find_except_conf_by_ip(a)
      res == ip_registry_check_local(registry[a])
      full == registry[a].connected + 1 = ConnMod
      keep == [FreeClient EXCEPT !.status = "unknown", !.addr = a,
                                 !.checked = ~byIP]
  IN
  /\ ~Live(c)
  /\ a \notin Invalid
  /\ IF byIP \/ full THEN UNCHANGED <<touched, chain>> ELSE RecordAttempt(a)
  /\ \/ /\ ~byIP /\ ~res.ok                \* throttled, or counter is full
        /\ registry' = [registry EXCEPT ![a] = res.entry]
        /\ refused' = IF full THEN NoAddr ELSE a
        /\ UNCHANGED <<clients, leaked>>
     \/ /\ byIP \/ res.ok                           \* handed to start_auth
        /\ registry' = IF byIP THEN registry
                       ELSE [registry EXCEPT ![a] = res.entry]
        /\ clients' = [clients EXCEPT ![c] = keep]
        /\ refused' = NoAddr
        /\ UNCHANGED leaked
     \/ /\ ~byIP /\ res.ok                          \* Z-lined or G-lined
        /\ registry' = [registry EXCEPT ![a] =
                          ip_registry_connect_fail(res.entry, TRUE)]
        /\ refused' = NoAddr
        /\ UNCHANGED <<clients, leaked>>
     \/ /\ ~byIP /\ res.ok /\ leaked[a] < MaxLeaks  \* socket set-up failed
        /\ registry' = [registry EXCEPT ![a] = res.entry]
        /\ leaked' = [leaked EXCEPT ![a] = @ + 1]
        /\ refused' = NoAddr
        /\ UNCHANGED clients
  /\ UNCHANGED <<now, exempt, aborted>>

\* WEBIRC and the IAuth "I" command give a registering client another
\* address: uncharge the old one, then charge the new one as a remote client.
change_address(c, a) ==
  LET old == clients[c].addr
      mid == IF IsIPChecked(c)
             THEN [registry EXCEPT ![old] = ip_registry_connect_fail(@, TRUE)]
             ELSE registry
      ex  == find_except_conf(c, a)
      new == ex = "counted"
  IN
  /\ IsUnknown(c)
  /\ registry' = IF new /\ a \notin Invalid
                 THEN [mid EXCEPT ![a] = ip_registry_check_remote(@, FALSE)]
                 ELSE mid
  /\ clients' = [clients EXCEPT ![c].addr = a, ![c].checked = new,
                                ![c].cache = ex]
  /\ aborted' = aborted \cup
       (IF IsIPChecked(c) /\ registry[old].here /\ registry[old].connected = 0
        THEN {"connect_fail: connected > 0"} ELSE {})
  /\ IF new /\ a \notin Invalid THEN RecordAttempt(a)
     ELSE UNCHANGED <<touched, chain>>
  /\ refused' = NoAddr
  /\ UNCHANGED <<now, exempt, leaked>>

\* ip_registry_disconnect as exit_one_client calls it, on registry reg.
Disconnect(c, reg) ==
  LET a == clients[c].addr IN
  IF ~IsIPChecked(c) \/ a \in Invalid
  THEN /\ registry' = reg /\ UNCHANGED <<aborted, touched>>
  ELSE /\ \E ft \in 0..STARTTARGETS :
            registry' = [reg EXCEPT ![a] = IF @.here
              THEN ip_registry_disconnect(@, clients[c].status # "remote", ft)
              ELSE @]
       /\ aborted' = aborted \cup
            (IF ~reg[a].here THEN {"disconnect: entry"}
             ELSE IF reg[a].connected = 0 THEN {"disconnect: connected > 0"}
             ELSE {})
       /\ touched' = IF reg[a].here /\ reg[a].connected = 1
                     THEN [touched EXCEPT ![a] = now] ELSE touched

exit_one_client(c) ==
  /\ Live(c)
  /\ Disconnect(c, registry)
  /\ clients' = [clients EXCEPT ![c] = FreeClient]
  /\ refused' = NoAddr
  /\ UNCHANGED <<now, exempt, leaked, chain>>

\* NICK takes the nickname of a client that has not registered: the loser is
\* told it is no fault of its own, and exits.
override_nick(c) ==
  LET a == clients[c].addr
      ex == find_except_conf(c, a)
      calls == ex = "counted"
      mid == IF calls
             THEN [registry EXCEPT ![a] = ip_registry_connect_fail(@, FALSE)]
             ELSE registry
  IN
  /\ IsUnknown(c)
  /\ ~(calls /\ ~IsIPChecked(c))
  /\ Disconnect(c, mid)
  /\ clients' = [clients EXCEPT ![c] = FreeClient]
  /\ refused' = NoAddr
  /\ UNCHANGED <<now, exempt, leaked, chain>>

\* The same where the client was exempt when it connected and no longer is:
\* IPcheck_connect_fail is called for a client that was never charged.
override_nick_uncharged(c) ==
  LET a == clients[c].addr IN
  /\ IsUnknown(c)
  /\ find_except_conf(c, a) = "counted" /\ ~IsIPChecked(c)
  /\ registry' = [registry EXCEPT ![a] = ip_registry_connect_fail(@, FALSE)]
  /\ aborted' = aborted \cup {"connect_fail: IsIPChecked"}
  /\ clients' = [clients EXCEPT ![c] = FreeClient]
  /\ refused' = NoAddr
  /\ UNCHANGED <<now, exempt, leaked, touched, chain>>

\* preregister_user gives up on a client that could not be authorised.
preregister_error(c) ==
  LET a == clients[c].addr
      mid == IF IsIPChecked(c)
             THEN [registry EXCEPT ![a] = ip_registry_connect_fail(@, FALSE)]
             ELSE registry
  IN
  /\ IsUnknown(c)
  /\ Disconnect(c, mid)
  /\ clients' = [clients EXCEPT ![c] = FreeClient]
  /\ refused' = NoAddr
  /\ UNCHANGED <<now, exempt, leaked, chain>>

\* register_user for a local client: connect_succeeded reads the entry.
register_local(c) ==
  /\ IsUnknown(c)
  /\ clients' = [clients EXCEPT ![c].status = "user"]
  /\ aborted' = aborted \cup
       (IF IsIPChecked(c) /\ ~registry[clients[c].addr].here
        THEN {"connect_succeeded: entry"} ELSE {})
  /\ refused' = NoAddr
  /\ UNCHANGED <<now, registry, exempt, leaked, touched, chain>>

\* register_user for a client another server introduces: the new structure
\* is not IPChecked, so IPcheck_remote_connect is not reached.
register_remote(c, a) ==
  /\ ~Live(c)
  /\ clients' = [clients EXCEPT ![c] = [FreeClient EXCEPT !.status = "remote",
                                                          !.addr = a]]
  /\ registry' = IF FreeClient.checked
                 THEN [registry EXCEPT ![a] = ip_registry_check_remote(@, FALSE)]
                 ELSE registry
  /\ refused' = NoAddr
  /\ UNCHANGED <<now, exempt, leaked, touched, chain, aborted>>

ip_registry_expire ==
  /\ registry' = [a \in Addrs |->
       IF registry[a].here /\ registry[a].connected = 0
       THEN ip_registry_expire_entry(registry[a]) ELSE registry[a]]
  /\ registry' # registry
  /\ refused' = NoAddr
  /\ UNCHANGED <<now, clients, exempt, history, aborted>>

\* REHASH replaces the Except blocks; cached answers stay.
rehash ==
  /\ \E x \in Exemptions \ {exempt} : exempt' = x
  /\ refused' = NoAddr
  /\ UNCHANGED <<now, registry, clients, history, aborted>>

Tick ==
  /\ now < MaxTime
  /\ now' = now + 1
  /\ refused' = NoAddr
  /\ UNCHANGED <<registry, clients, exempt, history, aborted>>

Init ==
  /\ now = 0
  /\ registry = [a \in Addrs |-> NoEntry]
  /\ clients = [c \in Clients |-> FreeClient]
  /\ exempt \in Exemptions
  /\ leaked = [a \in Addrs |-> 0]
  /\ touched = [a \in Addrs |-> -1]
  /\ chain = [a \in Addrs |-> 0]
  /\ refused = NoAddr
  /\ aborted = {}

Next ==
  \/ \E c \in Clients :
       \/ exit_one_client(c) \/ override_nick(c) \/ override_nick_uncharged(c)
       \/ preregister_error(c) \/ register_local(c)
       \/ \E a \in Addrs : \/ add_connection(c, a) \/ change_address(c, a)
                           \/ register_remote(c, a)
  \/ ip_registry_expire
  \/ rehash
  \/ Tick

Spec == Init /\ [][Next]_vars

-----------------------------------------------------------------------------
\* Properties

Entry == [here : BOOLEAN, last : 0..(TimeMod - 1), connected : 0..(ConnMod - 1),
          attempts : 0..(AttMod - 1), target : NoTarget..STARTTARGETS]

Client == [status : {"free", "unknown", "user", "remote"},
           addr : Addrs \cup {NoAddr}, checked : BOOLEAN,
           cache : {"unset", "exempt", "counted"}]

\* Every field of the registry stays within the width the C type gives it.
TypeOK ==
  /\ now \in 0..MaxTime
  /\ registry \in [Addrs -> Entry]
  /\ clients \in [Clients -> Client]
  /\ exempt \in Exemptions
  /\ leaked \in [Addrs -> 0..MaxLeaks]
  /\ touched \in [Addrs -> -1..MaxTime]
  /\ chain \in [Addrs -> 0..(AttMod - 1)]
  /\ refused \in Addrs \cup {NoAddr}

\* The clients IPcheck has charged to an address.
Charged(a) == {c \in Clients : clients[c].addr = a /\ clients[c].checked}

\* IPRegistryEntry::connected is exactly the number of clients charged to the
\* address plus those whose socket set-up failed after they were charged:
\* WEBIRC, IAuth, nickname overrides, authorisation errors and exits never
\* release a client twice or forget one.
ConnectedCountsClients ==
  \A a \in Addrs \ Invalid :
    registry[a].connected = Cardinality(Charged(a)) + leaked[a]

\* An address with a counted client has a recorded attempt, so the unsigned
\* decrement of ip_registry_connect_fail never wraps to 255 attempts.
CountedHasAttempt ==
  \A a \in Addrs : registry[a].connected > 0 =>
                     registry[a].here /\ registry[a].attempts > 0

\* A client is throttled only after LIMIT attempts, each at most PERIOD
\* seconds after the previous activity the registry recorded, as long as the
\* assertion that connect_fail is called for charged clients only has held.
ThrottleNeedsAttempts ==
  refused # NoAddr /\ "connect_fail: IsIPChecked" \notin aborted => chain[refused] >= LIMIT

\* The assertions of IPcheck.c hold.
AssertionsHold == aborted = {}

\* The assertions about the counters themselves, those of connect_fail and
\* disconnect, hold even while REHASH changes who is exempt and for addresses
\* irc_in_addr_valid rejects.
CountAssertionsHold ==
  aborted \subseteq {"connect_fail: IsIPChecked", "connect_succeeded: entry"}

\* The counters of the registry follow the clients through every caller: they stay within
\* their types, count exactly the clients that were charged, an address that is counted has
\* an attempt to take back, and the assertions about them hold.
RegistrySound == TypeOK /\ ConnectedCountsClients /\ CountedHasAttempt /\ CountAssertionsHold

\* Telling the registry that the connection of a charged client failed through no
\* fault of its own never raises the attempts recorded for its address.
FailNeverPenalizes ==
  \A c \in Clients : override_nick(c) \/ preregister_error(c) =>
    registry'[clients[c].addr].attempts <= registry[clients[c].addr].attempts

\* No step throttles a client without the attempts the limit asks for, and a failure the client
\* is not to blame for is not counted as one.
ThrottleFair == [][ThrottleNeedsAttempts' /\ FailNeverPenalizes]_vars

-----------------------------------------------------------------------------
\* What comments and documentation say, and the code does not do

\* IPcheck.c:54 calls connected the "Number of currently connected clients".
ConnectedIsLive ==
  \A a \in Addrs : registry[a].connected = Cardinality(Charged(a))

\* s_user.c:350 says of register_user: "For all connections, ... run IPcheck
\* against their address".
AllUsersCounted ==
  \A a \in Addrs : registry[a].connected >=
    Cardinality({c \in Clients : /\ clients[c].addr = a
                                 /\ clients[c].status \in {"user", "remote"}})

\* doc/readme.features:820 calls LIMIT "the number of times you are allowed to
\* connect within IPCHECK_CLONE_PERIOD seconds".
LimitConnectsAllowed == refused # NoAddr => chain[refused] > LIMIT

\* IPcheck.c:351 comments the increment of ip_registry_check_remote with "Avoid
\* overflowing the connection counter": an address with charged clients
\* never has a count of zero.
CounterNotOverflown ==
  \A a \in Addrs \ Invalid : Charged(a) # {} => registry[a].connected > 0
=============================================================================
