--------------------------- MODULE IPcheckProofs ---------------------------
(* Proofs about the address registry of IPcheck, for any set of clients and *)
(* addresses and any limits.                                                *)
EXTENDS IPcheck, FiniteSetTheorems, TLAPS

\* The remainder of a division is within the modulus (C's unsigned types).
LEMMA ModRange ==
  ASSUME NEW n \in Int, NEW m \in Nat \ {0}
  PROVE  n % m \in 0..(m - 1)
  OBVIOUS

\* NOW fits in the 16 bits it is cut to.
LEMMA NowRange ==
  ASSUME TypeOK
  PROVE  NOW \in 0..(TimeMod - 1)
<1>1. Epoch + now \in Int /\ TimeMod \in Nat \ {0}
  BY IPcheckConstants DEF TypeOK
<1>2. (Epoch + now) % TimeMod \in 0..(TimeMod - 1)
  BY <1>1, ModRange
<1> QED
  BY <1>2 DEF NOW

\* Updating the free targets keeps an entry within its types.
LEMMA TargetsType ==
  ASSUME TypeOK, NEW e \in Entry
  PROVE  ip_registry_update_free_targets(e) \in Entry
<1>1. CONNECTED_SINCE(e.last) \in Int
  BY NowRange DEF CONNECTED_SINCE, Entry
<1>2. CDiv(CONNECTED_SINCE(e.last), TARGET_DELAY) \in Int
  BY <1>1, IPcheckConstants DEF CDiv
<1> QED
  BY <1>2, IPcheckConstants DEF ip_registry_update_free_targets, Entry, NoTarget

\* Forgetting attempts keeps an entry within its types.
LEMMA ForgetType ==
  ASSUME TypeOK, NEW e \in Entry, NEW age
  PROVE  ForgetAttempts(e, age) \in Entry
  BY IPcheckConstants DEF ForgetAttempts, Entry

\* An attempt keeps an entry within its types, and is recorded in it.
LEMMA AttemptType ==
  ASSUME TypeOK, NEW e \in Entry
  PROVE  /\ Attempt(e) \in Entry
         /\ Attempt(e).attempts > 0
         /\ Attempt(e).here = e.here
         /\ Attempt(e).connected = e.connected
<1> DEFINE f == ForgetAttempts(e, PERIOD)
           e1 == ip_registry_update_free_targets(f)
           e2 == [e1 EXCEPT !.last = NOW]
<1>1. f \in Entry /\ f.here = e.here /\ f.connected = e.connected
  BY ForgetType DEF ForgetAttempts, Entry
<1>2. e1 \in Entry /\ e1.here = f.here /\ e1.connected = f.connected
  <2>1. e1 \in Entry
    BY <1>1, TargetsType
  <2> QED
    BY <1>1, <2>1 DEF ip_registry_update_free_targets, Entry
<1>3. e2 \in Entry /\ e2.here = e1.here /\ e2.connected = e1.connected
  BY <1>2, NowRange DEF Entry
<1> HIDE DEF e2
<1>4. /\ CountAttempt(e2) \in Entry /\ CountAttempt(e2).attempts > 0
      /\ CountAttempt(e2).here = e2.here
      /\ CountAttempt(e2).connected = e2.connected
  BY <1>3, IPcheckConstants DEF CountAttempt, Entry
<1> QED
  BY <1>1, <1>2, <1>3, <1>4 DEF Attempt, e2

\* A local connection that is accepted adds one client to its entry; one that
\* is refused adds none.
LEMMA CheckLocal ==
  ASSUME TypeOK, NEW a \in Addrs, registry[a].connected + 1 < ConnMod,
         ~registry[a].here => registry[a].connected = 0
  PROVE  LET r == ip_registry_check_local(registry[a])
         IN  /\ r.entry \in Entry /\ r.entry.here /\ r.entry.attempts > 0
             /\ r.ok \in BOOLEAN
             /\ r.entry.connected = registry[a].connected
                                      + (IF r.ok THEN 1 ELSE 0)
<1> DEFINE e == registry[a]
<1>1. e \in Entry
  BY DEF TypeOK
<1>2. CASE ~e.here
  BY <1>2, NowRange, IPcheckConstants
     DEF ip_registry_check_local, ip_registry_new_entry, Entry, NoTarget
<1>3. CASE e.here
  <2>1. /\ Attempt(e) \in Entry /\ Attempt(e).attempts > 0 /\ Attempt(e).here
        /\ Attempt(e).connected = e.connected
    BY <1>1, <1>3, AttemptType
  <2> HIDE DEF e
  <2>2. e.connected + 1 # ConnMod /\ e.connected \in Nat
    BY <1>1, IPcheckConstants DEF e, Entry
  <2> DEFINE e1 == Attempt(e)
             ok == e1.attempts < LIMIT \/ now <= DELAY
             e2 == IF ok THEN [e1 EXCEPT !.connected = @ + 1] ELSE e1
  <2>3. ip_registry_check_local(registry[a]) = [ok |-> ok, entry |-> e2]
    BY <1>3, <2>2 DEF ip_registry_check_local, e
  <2> HIDE DEF e1
  <2>4. /\ e2 \in Entry /\ e2.here /\ e2.attempts > 0
        /\ e2.connected = e.connected + (IF ok THEN 1 ELSE 0)
    BY <2>1, <2>2, IPcheckConstants DEF Entry, e1, e
  <2> HIDE DEF e2, ok
  <2>5. ok \in BOOLEAN
    BY DEF ok
  <2> QED
    BY <2>3, <2>4, <2>5 DEF e
<1> QED
  BY <1>2, <1>3

\* A remote connection that does not overflow the counter adds one client.
LEMMA CheckRemote ==
  ASSUME TypeOK, NEW e \in Entry, e.connected + 1 < ConnMod,
         ~e.here => e.connected = 0
  PROVE  LET r == ip_registry_check_remote(e, FALSE)
         IN  /\ r \in Entry /\ r.here /\ r.attempts > 0
             /\ r.connected = e.connected + 1
<1> DEFINE e1 == [e EXCEPT !.connected = (@ + 1) % ConnMod]
<1>1. e.connected \in Nat /\ (e.connected + 1) % ConnMod = e.connected + 1
  BY IPcheckConstants DEF Entry
<1>2. CASE ~e.here
  <2>2. ip_registry_check_remote(e, FALSE) = ip_registry_new_entry
    BY <1>2 DEF ip_registry_check_remote
  <2>3. ip_registry_new_entry \in Entry
    BY NowRange, IPcheckConstants DEF ip_registry_new_entry, Entry, NoTarget
  <2>4. /\ ip_registry_new_entry.here /\ ip_registry_new_entry.attempts = 1
        /\ ip_registry_new_entry.connected = 1
    BY DEF ip_registry_new_entry
  <2>5. 1 = e.connected + 1 /\ 1 > 0
    BY <1>2
  <2> DEFINE n == ip_registry_new_entry
  <2> HIDE DEF n
  <2>6. /\ n \in Entry /\ n.here /\ n.attempts > 0
        /\ n.connected = e.connected + 1
    BY <2>3, <2>4, <2>5 DEF n
  <2>7. ip_registry_check_remote(e, FALSE) = n
    BY <2>2, Zenon DEF n
  <2> QED
    BY <2>6, <2>7, Zenon
<1>3. CASE e.here
  <2>1. e1 \in Entry /\ e1.connected = e.connected + 1 /\ e1.here
    BY <1>1, <1>3, IPcheckConstants DEF Entry
  <2>2. /\ Attempt(e1) \in Entry /\ Attempt(e1).attempts > 0
        /\ Attempt(e1).here /\ Attempt(e1).connected = e1.connected
    BY <2>1, AttemptType, Zenon
  <2>3. e1.connected # 0
    BY <1>1, <2>1
  <2>4. ip_registry_check_remote(e, FALSE) = Attempt(e1)
    BY <1>3, <2>3 DEF ip_registry_check_remote
  <2> QED
    BY <2>1, <2>2, <2>4, Zenon
<1> QED
  BY <1>2, <1>3, Zenon

\* A failed connection leaves a positive number of attempts, and releases one
\* client exactly when it is asked to.
LEMMA ConnectFail ==
  ASSUME TypeOK, NEW e \in Entry, NEW d \in BOOLEAN,
         d /\ e.here => e.connected > 0
  PROVE  LET r == ip_registry_connect_fail(e, d)
         IN  /\ r \in Entry /\ r.here = e.here /\ (e.here => r.attempts > 0)
             /\ r.connected = IF d /\ e.here THEN e.connected - 1
                              ELSE e.connected
<1>1. (e.attempts - 1) % AttMod \in 0..(AttMod - 1)
  <2>1. e.attempts - 1 \in Int /\ AttMod \in Nat \ {0}
    BY IPcheckConstants DEF Entry
  <2> QED
    BY <2>1, ModRange, Zenon
<1>2. d /\ e.here => (e.connected - 1) % ConnMod = e.connected - 1
  BY IPcheckConstants DEF Entry
<1> DEFINE l == (e.attempts - 1) % AttMod
           l1 == IF l = 0 THEN 1 ELSE l
           k == IF d THEN (e.connected - 1) % ConnMod ELSE e.connected
<1>3. l1 \in 1..(AttMod - 1)
  BY <1>1, IPcheckConstants
<1>4. e.here => /\ k \in 0..(ConnMod - 1)
                /\ k = IF d THEN e.connected - 1 ELSE e.connected
  BY <1>2, IPcheckConstants DEF Entry
<1>5. ip_registry_connect_fail(e, d) =
        IF ~e.here THEN e ELSE [e EXCEPT !.attempts = l1, !.connected = k]
  BY DEF ip_registry_connect_fail
<1> HIDE DEF l1, k
<1>6. CASE ~e.here
  BY <1>5, <1>6
<1>7. CASE e.here
  <2> DEFINE r == [e EXCEPT !.attempts = l1, !.connected = k]
  <2>0. k \in 0..(ConnMod - 1) /\ l1 \in 0..(AttMod - 1)
    BY <1>3, <1>4, <1>7, IPcheckConstants
  <2>1. /\ r \in Entry /\ r.here = e.here /\ r.attempts = l1
        /\ r.connected = k
    BY <2>0, Zenon DEF Entry
  <2>2. ip_registry_connect_fail(e, d) = r
    BY <1>5, <1>7
  <2>3. l1 > 0 /\ k = IF d /\ e.here THEN e.connected - 1 ELSE e.connected
    BY <1>3, <1>4, <1>7, IPcheckConstants
  <2> HIDE DEF r
  <2> QED
    BY <2>1, <2>2, <2>3
<1> QED
  BY <1>6, <1>7

\* The exit of a client that was counted releases one client.
LEMMA DisconnectEntry ==
  ASSUME TypeOK, NEW e \in Entry, NEW local \in BOOLEAN,
         NEW ft \in 0..STARTTARGETS, e.connected > 0
  PROVE  LET r == ip_registry_disconnect(e, local, ft)
         IN  /\ r \in Entry /\ r.here = e.here
             /\ r.connected = e.connected - 1
             /\ r.connected > 0 => r.attempts = e.attempts
<1> DEFINE e1 == [e EXCEPT !.connected = (@ - 1) % ConnMod]
           f == ForgetAttempts(e1, LIMIT * PERIOD)
           g == ip_registry_update_free_targets(f)
           e2 == IF e1.connected # 0 THEN e1 ELSE [g EXCEPT !.last = NOW]
           old == IF e2.target = NoTarget THEN STARTTARGETS ELSE e2.target
<1>1. e.connected \in 1..(ConnMod - 1)
      /\ (e.connected - 1) % ConnMod = e.connected - 1
  BY IPcheckConstants DEF Entry
<1>2. /\ e1 \in Entry /\ e1.here = e.here /\ e1.connected = e.connected - 1
      /\ e1.attempts = e.attempts
  BY <1>1, IPcheckConstants DEF Entry
<1> HIDE DEF e1
<1>3. f \in Entry /\ f.here = e1.here /\ f.connected = e1.connected
  BY <1>2, ForgetType DEF ForgetAttempts, Entry
<1> HIDE DEF f
<1>4. g \in Entry /\ g.here = f.here /\ g.connected = f.connected
  <2>1. g \in Entry
    BY <1>3, TargetsType
  <2> QED
    BY <1>3, <2>1 DEF ip_registry_update_free_targets, Entry
<1> HIDE DEF g
<1>5. /\ e2 \in Entry /\ e2.here = e.here /\ e2.connected = e.connected - 1
      /\ e2.connected > 0 => e2.attempts = e.attempts
  BY <1>1, <1>2, <1>3, <1>4, NowRange DEF Entry
<1> HIDE DEF e2
<1>6. old \in 0..STARTTARGETS
  BY <1>5, IPcheckConstants DEF Entry, NoTarget
<1> HIDE DEF old
<1>7. ip_registry_disconnect(e, local, ft) =
        IF ~local THEN e2
        ELSE [e2 EXCEPT !.target = IF ft < old THEN ft ELSE old]
  BY DEF ip_registry_disconnect, e1, e2, f, g, old
<1> QED
  BY <1>5, <1>6, <1>7 DEF Entry, NoTarget

-----------------------------------------------------------------------------
\* The counters are wide enough for every client there is.
NoOverflow == Cardinality(Clients) + MaxLeaks < ConnMod

\* Only a live client is charged, and a live client has an address.
ClientsOK ==
  \A c \in Clients : clients[c].checked \/ clients[c].status # "free"
                       => clients[c].addr \in Addrs /\ clients[c].status # "free"

\* Addresses irc_in_addr_valid rejects are never entered in the registry.
InvalidAbsent == \A a \in Invalid : ~registry[a].here

\* The inductive invariant.
IInv ==
  /\ TypeOK
  /\ ClientsOK
  /\ InvalidAbsent
  /\ ConnectedCountsClients
  /\ CountedHasAttempt
  /\ CountAssertionsHold

\* The number of clients the entry of an address should count.
Due(a) == Cardinality(Charged(a)) + leaked[a]

\* What IInv says of entry e of address a when n clients are due to it.
Good(e, a, n) ==
  /\ e \in Entry
  /\ e.connected > 0 => e.here /\ e.attempts > 0
  /\ a \in Invalid => ~e.here
  /\ a \notin Invalid => e.connected = n

\* IInv, entry by entry.
LEMMA GoodEntries ==
  ASSUME IInv, NEW a \in Addrs
  PROVE  Good(registry[a], a, Due(a))
  BY DEF IInv, TypeOK, InvalidAbsent, ConnectedCountsClients,
         CountedHasAttempt, Good, Due

\* The next state's part of IInv, from its entries.
LEMMA FromGoodEntries ==
  ASSUME \A a \in Addrs : Good(registry'[a], a, Due(a)'),
         registry' = [a \in Addrs |-> registry'[a]]
  PROVE  /\ registry' \in [Addrs -> Entry] /\ InvalidAbsent'
         /\ ConnectedCountsClients' /\ CountedHasAttempt'
<1>1. Invalid \subseteq Addrs
  BY IPcheckConstants
<1> QED
  BY <1>1 DEF InvalidAbsent, ConnectedCountsClients, CountedHasAttempt, Good, Due

\* A set of clients is finite, and one that misses a client is smaller than
\* the set of all clients.
LEMMA ClientSets ==
  ASSUME NEW S \in SUBSET Clients, NEW c \in Clients
  PROVE  /\ Cardinality(S) \in Nat /\ Cardinality(Clients) \in Nat
         /\ c \in S => /\ Cardinality(S \ {c}) = Cardinality(S) - 1
                       /\ Cardinality(S) > 0
         /\ c \notin S => /\ Cardinality(S \cup {c}) = Cardinality(S) + 1
                          /\ Cardinality(S) + 1 <= Cardinality(Clients)
<1>1. IsFiniteSet(Clients) /\ IsFiniteSet(S) /\ S \cup {c} \in SUBSET Clients
  BY IPcheckConstants, FS_Subset
<1>2. Cardinality(S) \in Nat /\ Cardinality(Clients) \in Nat
  BY <1>1, FS_CardinalityType
<1>3. c \in S => Cardinality(S \ {c}) = Cardinality(S) - 1
  BY <1>1, FS_RemoveElement
<1>4. c \in S => Cardinality(S) > 0
  <2>1. S # {} => Cardinality(S) # 0
    BY <1>1, FS_EmptySet
  <2> QED
    BY <1>2, <2>1
<1>5. c \notin S => Cardinality(S \cup {c}) = Cardinality(S) + 1
  BY <1>1, FS_AddElement
<1>6. Cardinality(S \cup {c}) <= Cardinality(Clients)
  BY <1>1, FS_Subset
<1> QED
  BY <1>2, <1>3, <1>4, <1>5, <1>6

\* Replacing one client record changes the charged clients of the addresses
\* it is charged to before and after.
LEMMA ChargedChange ==
  ASSUME TypeOK, NEW c \in Clients, NEW r \in Client,
         clients' = [clients EXCEPT ![c] = r], NEW b
  PROVE  /\ Charged(b) \in SUBSET Clients
         /\ c \in Charged(b) <=> clients[c].addr = b /\ clients[c].checked
         /\ r.addr = b /\ r.checked => Charged(b)' = Charged(b) \cup {c}
         /\ ~(r.addr = b /\ r.checked) => Charged(b)' = Charged(b) \ {c}
  BY DEF Charged, TypeOK

\* There is room for one more client in the counter of an address.
LEMMA Room ==
  ASSUME IInv, NoOverflow, NEW c \in Clients, NEW a \in Addrs, c \notin Charged(a)
  PROVE  /\ registry[a].connected + 1 < ConnMod
         /\ ~registry[a].here => registry[a].connected = 0
<1>1. Good(registry[a], a, Due(a)) /\ leaked[a] \in 0..MaxLeaks
  BY GoodEntries DEF IInv, TypeOK
<1>2. Charged(a) \in SUBSET Clients
  BY DEF Charged
<1>3. /\ Cardinality(Charged(a)) \in Nat /\ Cardinality(Clients) \in Nat
      /\ Cardinality(Charged(a)) + 1 <= Cardinality(Clients)
  BY <1>2, ClientSets, Zenon
<1>4. ~registry[a].here => registry[a].connected = 0
  BY <1>1, IPcheckConstants DEF Good, Entry
<1>5. CASE a \in Invalid
  BY <1>1, <1>4, <1>5, IPcheckConstants DEF Good
<1>6. CASE a \notin Invalid
  <2>1. registry[a].connected = Cardinality(Charged(a)) + leaked[a]
    BY <1>1, <1>6 DEF Good, Due
  <2> QED
    BY <1>1, <1>3, <1>4, <2>1, IPcheckConstants DEF NoOverflow
<1> QED
  BY <1>5, <1>6

\* The true history of attempts keeps its types.
LEMMA RecordType ==
  ASSUME TypeOK, NEW a \in Addrs, RecordAttempt(a)
  PROVE  /\ touched' \in [Addrs -> -1..MaxTime]
         /\ chain' \in [Addrs -> 0..(AttMod - 1)]
  BY IPcheckConstants DEF RecordAttempt, TypeOK

\* Two readings of the number due agree on the entries that count clients.
LEMMA GoodSame ==
  ASSUME NEW e, NEW b, NEW m, NEW n, Good(e, b, m), b \in Invalid \/ m = n
  PROVE  Good(e, b, n)
  BY DEF Good

\* How a new record for client c moves the number due to each address.
LEMMA DueChange ==
  ASSUME IInv, NEW c \in Clients, NEW r \in Client,
         clients' = [clients EXCEPT ![c] = r], leaked' = leaked, NEW b \in Addrs
  PROVE  LET was == clients[c].addr = b /\ clients[c].checked
             is  == r.addr = b /\ r.checked
         IN  /\ was <=> c \in Charged(b)
             /\ Due(b) \in Nat /\ (was => Due(b) > 0)
             /\ (was <=> is) => Due(b)' = Due(b)
             /\ was /\ ~is => Due(b)' = Due(b) - 1
             /\ ~was /\ is => Due(b)' = Due(b) + 1
<1> DEFINE was == clients[c].addr = b /\ clients[c].checked
           is  == r.addr = b /\ r.checked
<1>1. /\ Charged(b) \in SUBSET Clients /\ (c \in Charged(b) <=> was)
      /\ is => Charged(b)' = Charged(b) \cup {c}
      /\ ~is => Charged(b)' = Charged(b) \ {c}
  BY ChargedChange, Zenon DEF IInv
<1>2. leaked[b] \in Nat /\ leaked'[b] = leaked[b]
  BY DEF IInv, TypeOK
<1> HIDE DEF was, is
<1>3. /\ Cardinality(Charged(b)) \in Nat
      /\ was => /\ Cardinality(Charged(b) \ {c}) = Cardinality(Charged(b)) - 1
                /\ Cardinality(Charged(b)) > 0
      /\ ~was => Cardinality(Charged(b) \cup {c}) = Cardinality(Charged(b)) + 1
  BY <1>1, ClientSets, Zenon
<1>4. /\ was => Charged(b) \cup {c} = Charged(b)
      /\ ~was => Charged(b) \ {c} = Charged(b)
  BY <1>1
<1>5. /\ was /\ is => Charged(b)' = Charged(b)
      /\ ~was /\ ~is => Charged(b)' = Charged(b)
      /\ was /\ ~is => Cardinality(Charged(b)') = Cardinality(Charged(b)) - 1
      /\ ~was /\ is => Cardinality(Charged(b)') = Cardinality(Charged(b)) + 1
  BY <1>1, <1>3, <1>4, Zenon
<1>6. /\ Due(b) \in Nat /\ (was => Due(b) > 0)
      /\ (was <=> is) => Due(b)' = Due(b)
      /\ was /\ ~is => Due(b)' = Due(b) - 1
      /\ ~was /\ is => Due(b)' = Due(b) + 1
  BY <1>2, <1>3, <1>5 DEF Due
<1> QED
  BY <1>1, <1>6 DEF was, is

\* The exit of a client leaves every entry counting the clients that remain,
\* whatever good registry ip_registry_disconnect finds.
LEMMA DisconnectStep ==
  ASSUME IInv, NEW c \in Clients, Live(c),
         NEW reg \in [Addrs -> Entry],
         \A b \in Addrs : Good(reg[b], b, Due(b)),
         Disconnect(c, reg),
         clients' = [clients EXCEPT ![c] = FreeClient], leaked' = leaked
  PROVE  /\ registry' = [b \in Addrs |-> registry'[b]]
         /\ \A b \in Addrs : Good(registry'[b], b, Due(b)')
         /\ aborted' = aborted /\ touched' \in [Addrs -> -1..MaxTime]
         /\ clients' \in [Clients -> Client] /\ ClientsOK'
<1>1. FreeClient \in Client /\ ~FreeClient.checked
  BY DEF FreeClient, Client
<1>2. clients' \in [Clients -> Client] /\ ClientsOK'
  <2>1. clients' \in [Clients -> Client]
    BY <1>1 DEF IInv, TypeOK
  <2>2. FreeClient.status = "free" /\ ~FreeClient.checked
    BY DEF FreeClient
  <2> QED
    BY <2>1, <2>2 DEF IInv, TypeOK, ClientsOK
<1>3. PICK a \in Addrs : a = clients[c].addr
  BY DEF IInv, ClientsOK, Live
<1>4. \A b \in Addrs :
        /\ Due(b) \in Nat
        /\ b = a /\ IsIPChecked(c) => Due(b) > 0 /\ Due(b)' = Due(b) - 1
        /\ ~(b = a /\ IsIPChecked(c)) => Due(b)' = Due(b)
  BY <1>1, <1>3, DueChange, Zenon DEF IsIPChecked
<1>5. CASE ~IsIPChecked(c) \/ a \in Invalid
  <2>1. registry' = reg /\ aborted' = aborted /\ touched' = touched
    BY <1>3, <1>5, Zenon DEF Disconnect
  <2>2. ASSUME NEW b \in Addrs PROVE Good(registry'[b], b, Due(b)')
    <3>1. b \in Invalid \/ Due(b) = Due(b)'
      BY <1>4, <1>5
    <3> QED
      BY <2>1, <3>1, GoodSame
  <2> QED
    BY <1>2, <2>1, <2>2 DEF IInv, TypeOK
<1>6. CASE IsIPChecked(c) /\ a \notin Invalid
  <2>1. reg[a] \in Entry /\ reg[a].connected = Due(a) /\ reg[a].connected > 0
        /\ reg[a].here
    BY <1>3, <1>4, <1>6 DEF Good
  <2> DEFINE newly == IF ~reg[a].here THEN {"disconnect: entry"}
                      ELSE IF reg[a].connected = 0
                           THEN {"disconnect: connected > 0"} ELSE {}
  <2>0. /\ aborted' = aborted \cup newly
        /\ touched' = IF reg[a].here /\ reg[a].connected = 1
                      THEN [touched EXCEPT ![a] = now] ELSE touched
    BY <1>3, <1>6, Zenon DEF Disconnect
  <2>2. aborted' = aborted
    <3>1. newly = {}
      <4>1. reg[a].connected \in Nat
        BY <2>1, IPcheckConstants DEF Entry
      <4>2. reg[a].connected # 0
        BY <2>1, <4>1
      <4> QED
        BY <2>1, <4>2
    <3> QED
      BY <2>0, <3>1, Zenon
  <2>3. touched' \in [Addrs -> -1..MaxTime]
    <3>1. now \in -1..MaxTime /\ touched \in [Addrs -> -1..MaxTime]
      BY IPcheckConstants DEF IInv, TypeOK
    <3>2. [touched EXCEPT ![a] = now] \in [Addrs -> -1..MaxTime]
      BY <3>1
    <3> QED
      BY <2>0, <3>1, <3>2, Zenon
  <2>4. PICK ft \in 0..STARTTARGETS : registry' = [reg EXCEPT ![a] =
          ip_registry_disconnect(reg[a], clients[c].status # "remote", ft)]
    BY <1>3, <1>6, <2>1, Zenon DEF Disconnect
  <2> DEFINE e == ip_registry_disconnect(reg[a], clients[c].status # "remote", ft)
  <2>5. /\ e \in Entry /\ e.here = reg[a].here
        /\ e.connected = reg[a].connected - 1
        /\ e.connected > 0 => e.attempts = reg[a].attempts
    BY <2>1, DisconnectEntry, Zenon DEF IInv
  <2> HIDE DEF e
  <2>6. Good(e, a, Due(a)')
    <3>1. Due(a) \in Nat /\ Due(a)' = Due(a) - 1
      BY <1>3, <1>4, <1>6
    <3>2. e.connected = Due(a)'
      BY <2>1, <2>5, <3>1
    <3>3. reg[a].here /\ reg[a].attempts > 0
      BY <1>3, <2>1 DEF Good
    <3> QED
      BY <1>6, <2>5, <3>2, <3>3 DEF Good
  <2>7. /\ registry' = [b \in Addrs |-> registry'[b]] /\ registry'[a] = e
        /\ \A b \in Addrs : b # a => registry'[b] = reg[b]
    BY <1>3, <2>4, Zenon DEF e
  <2>8. ASSUME NEW b \in Addrs PROVE Good(registry'[b], b, Due(b)')
    <3>1. CASE b = a
      <4>1. registry'[b] = e /\ Due(b)' = Due(a)'
        BY <2>7, <3>1
      <4> QED
        BY <2>6, <3>1, <4>1
    <3>2. CASE b # a
      BY <1>4, <2>7, <3>2, GoodSame
    <3> QED
      BY <3>1, <3>2
  <2> QED
    BY <1>2, <2>2, <2>3, <2>7, <2>8
<1> QED
  BY <1>5, <1>6

\* IPcheck_connect_fail without a disconnect changes no count.
LEMMA FailGood ==
  ASSUME IInv, NEW a \in Addrs
  PROVE  LET reg == [registry EXCEPT ![a] = ip_registry_connect_fail(@, FALSE)]
         IN  /\ reg \in [Addrs -> Entry]
             /\ \A b \in Addrs : Good(reg[b], b, Due(b))
<1> DEFINE e == ip_registry_connect_fail(registry[a], FALSE)
           reg == [registry EXCEPT ![a] = e]
<1>1. \A b \in Addrs : Good(registry[b], b, Due(b))
  BY GoodEntries
<1>2. registry[a] \in Entry
  BY DEF IInv, TypeOK
<1>3. /\ e \in Entry /\ e.here = registry[a].here
      /\ registry[a].here => e.attempts > 0
      /\ e.connected = registry[a].connected
  BY <1>2, ConnectFail, Zenon DEF IInv
<1> HIDE DEF e
<1>4. Good(e, a, Due(a))
  BY <1>1, <1>3 DEF Good
<1>5. reg \in [Addrs -> Entry]
  BY <1>3 DEF IInv, TypeOK
<1>6. reg[a] = e /\ \A b \in Addrs : b # a => reg[b] = registry[b]
  BY DEF IInv, TypeOK
<1>7. \A b \in Addrs : Good(reg[b], b, Due(b))
  BY <1>1, <1>4, <1>6
<1> QED
  BY <1>5, <1>7, Zenon DEF e

\* What is left to show when an action keeps every entry good.
LEMMA Preserved ==
  ASSUME \A b \in Addrs : Good(registry'[b], b, Due(b)'),
         registry' = [b \in Addrs |-> registry'[b]],
         now' \in 0..MaxTime, clients' \in [Clients -> Client], ClientsOK',
         exempt' \in Exemptions, leaked' \in [Addrs -> 0..MaxLeaks],
         touched' \in [Addrs -> -1..MaxTime],
         chain' \in [Addrs -> 0..(AttMod - 1)],
         refused' \in Addrs \cup {NoAddr}, CountAssertionsHold'
  PROVE  IInv'
  BY FromGoodEntries DEF IInv, TypeOK

LEMMA ExitPreserves ==
  ASSUME IInv, NEW c \in Clients, exit_one_client(c)
  PROVE  IInv'
<1>1. \A b \in Addrs : Good(registry[b], b, Due(b))
  BY GoodEntries
<1>2. /\ Live(c) /\ Disconnect(c, registry)
      /\ clients' = [clients EXCEPT ![c] = FreeClient] /\ leaked' = leaked
      /\ refused' = NoAddr /\ now' = now /\ exempt' = exempt /\ chain' = chain
  BY DEF exit_one_client
<1>3. registry \in [Addrs -> Entry]
  BY DEF IInv, TypeOK
<1>4. /\ registry' = [b \in Addrs |-> registry'[b]]
      /\ \A b \in Addrs : Good(registry'[b], b, Due(b)')
      /\ aborted' = aborted /\ touched' \in [Addrs -> -1..MaxTime]
      /\ clients' \in [Clients -> Client] /\ ClientsOK'
  BY <1>1, <1>2, <1>3, DisconnectStep, Zenon
<1>5. CountAssertionsHold'
  BY <1>4, Zenon DEF IInv, CountAssertionsHold
<1> QED
  BY <1>2, <1>4, <1>5, Preserved DEF IInv, TypeOK

\* A failure that is no fault of the client, followed by its exit.
LEMMA FailThenExit ==
  ASSUME IInv, NEW c \in Clients, NEW fail \in BOOLEAN, Live(c),
         Disconnect(c, IF fail THEN [registry EXCEPT ![clients[c].addr] =
                                       ip_registry_connect_fail(@, FALSE)]
                       ELSE registry),
         clients' = [clients EXCEPT ![c] = FreeClient], leaked' = leaked,
         refused' = NoAddr, now' = now, exempt' = exempt, chain' = chain
  PROVE  IInv'
<1> DEFINE reg == IF fail THEN [registry EXCEPT ![clients[c].addr] =
                                  ip_registry_connect_fail(@, FALSE)]
                  ELSE registry
<1>1. clients[c].addr \in Addrs
  BY DEF IInv, ClientsOK, Live
<1>2. reg \in [Addrs -> Entry] /\ \A b \in Addrs : Good(reg[b], b, Due(b))
  <2>1. CASE fail
    BY <1>1, <2>1, FailGood, Zenon
  <2>2. CASE ~fail
    <3>1. registry \in [Addrs -> Entry]
      BY DEF IInv, TypeOK
    <3> QED
      BY <2>2, <3>1, GoodEntries
  <2> QED
    BY <2>1, <2>2, Zenon
<1>3. Disconnect(c, reg)
  OBVIOUS
<1> HIDE DEF reg
<1>4. /\ registry' = [b \in Addrs |-> registry'[b]]
      /\ \A b \in Addrs : Good(registry'[b], b, Due(b)')
      /\ aborted' = aborted /\ touched' \in [Addrs -> -1..MaxTime]
      /\ clients' \in [Clients -> Client] /\ ClientsOK'
  BY <1>2, <1>3, DisconnectStep, Zenon
<1>5. CountAssertionsHold'
  BY <1>4, Zenon DEF IInv, CountAssertionsHold
<1> QED
  BY <1>4, <1>5, Preserved DEF IInv, TypeOK

LEMMA OverridePreserves ==
  ASSUME IInv, NEW c \in Clients, override_nick(c)
  PROVE  IInv'
<1> DEFINE fail == find_except_conf(c, clients[c].addr) = "counted"
<1>1. Live(c)
  BY DEF override_nick, IsUnknown, Live
<1>2. /\ Disconnect(c, IF fail THEN [registry EXCEPT ![clients[c].addr] =
                                       ip_registry_connect_fail(@, FALSE)]
                       ELSE registry)
      /\ clients' = [clients EXCEPT ![c] = FreeClient] /\ leaked' = leaked
      /\ refused' = NoAddr /\ now' = now /\ exempt' = exempt /\ chain' = chain
  BY Zenon DEF override_nick
<1> HIDE DEF fail
<1>3. fail \in BOOLEAN
  BY DEF fail
<1> QED
  BY <1>1, <1>2, <1>3, FailThenExit, Zenon

LEMMA PreregisterPreserves ==
  ASSUME IInv, NEW c \in Clients, preregister_error(c)
  PROVE  IInv'
<1> DEFINE fail == IsIPChecked(c)
<1>1. Live(c)
  BY DEF preregister_error, IsUnknown, Live
<1>2. /\ Disconnect(c, IF fail THEN [registry EXCEPT ![clients[c].addr] =
                                       ip_registry_connect_fail(@, FALSE)]
                       ELSE registry)
      /\ clients' = [clients EXCEPT ![c] = FreeClient] /\ leaked' = leaked
      /\ refused' = NoAddr /\ now' = now /\ exempt' = exempt /\ chain' = chain
  BY Zenon DEF preregister_error
<1>3. fail \in BOOLEAN
  BY DEF IsIPChecked, IInv, TypeOK, Client
<1> HIDE DEF fail
<1> QED
  BY <1>1, <1>2, <1>3, FailThenExit, Zenon

\* A new record for a live client, or the end of one, keeps ClientsOK.
LEMMA ClientsOKChange ==
  ASSUME IInv, NEW c \in Clients, NEW r \in Client,
         clients' = [clients EXCEPT ![c] = r],
         r.checked \/ r.status # "free" => r.addr \in Addrs /\ r.status # "free"
  PROVE  clients' \in [Clients -> Client] /\ ClientsOK'
<1>1. clients' \in [Clients -> Client]
  BY DEF IInv, TypeOK
<1>2. ASSUME NEW d \in Clients
      PROVE  clients'[d].checked \/ clients'[d].status # "free"
               => clients'[d].addr \in Addrs /\ clients'[d].status # "free"
  <2>1. CASE d = c
    BY <2>1 DEF IInv, TypeOK
  <2>2. CASE d # c
    BY <2>2 DEF IInv, TypeOK, ClientsOK
  <2> QED
    BY <2>1, <2>2
<1> QED
  BY <1>1, <1>2 DEF ClientsOK

LEMMA UnchargedPreserves ==
  ASSUME IInv, NEW c \in Clients, override_nick_uncharged(c)
  PROVE  IInv'
<1>1. PICK a \in Addrs : a = clients[c].addr
  BY Zenon DEF IInv, ClientsOK, override_nick_uncharged, IsUnknown
<1> DEFINE reg == [registry EXCEPT ![a] = ip_registry_connect_fail(@, FALSE)]
<1>2. /\ registry' = reg /\ clients' = [clients EXCEPT ![c] = FreeClient]
      /\ ~clients[c].checked /\ leaked' = leaked
      /\ aborted' = aborted \cup {"connect_fail: IsIPChecked"}
      /\ now' = now /\ exempt' = exempt /\ touched' = touched /\ chain' = chain
      /\ refused' = NoAddr
  BY <1>1, Zenon DEF override_nick_uncharged, IsIPChecked
<1>3. reg \in [Addrs -> Entry] /\ \A b \in Addrs : Good(reg[b], b, Due(b))
  BY FailGood, Zenon
<1>4. FreeClient \in Client /\ ~FreeClient.checked /\ FreeClient.status = "free"
  BY DEF FreeClient, Client
<1>5. \A b \in Addrs : Due(b)' = Due(b)
  BY <1>2, <1>4, DueChange, Zenon
<1> HIDE DEF reg
<1>6. /\ registry' = [b \in Addrs |-> registry'[b]]
      /\ \A b \in Addrs : Good(registry'[b], b, Due(b)')
  BY <1>2, <1>3, <1>5, Zenon
<1>7. clients' \in [Clients -> Client] /\ ClientsOK'
  BY <1>2, <1>4, ClientsOKChange, Zenon
<1>8. CountAssertionsHold'
  BY <1>2, Zenon DEF IInv, CountAssertionsHold
<1> QED
  BY <1>2, <1>6, <1>7, <1>8, Preserved, Zenon DEF IInv, TypeOK

\* An action that leaves the registry alone and charges nobody.
LEMMA SameRegistry ==
  ASSUME IInv, registry' = registry, \A b \in Addrs : Due(b)' = Due(b)
  PROVE  /\ registry' = [b \in Addrs |-> registry'[b]]
         /\ \A b \in Addrs : Good(registry'[b], b, Due(b)')
<1>1. \A b \in Addrs : Good(registry[b], b, Due(b))
  BY GoodEntries
<1>2. registry = [b \in Addrs |-> registry[b]]
  BY DEF IInv, TypeOK
<1> QED
  BY <1>1, <1>2

LEMMA RegisterLocalPreserves ==
  ASSUME IInv, NEW c \in Clients, register_local(c)
  PROVE  IInv'
<1> DEFINE r == [clients[c] EXCEPT !.status = "user"]
<1>1. /\ r \in Client /\ r.addr = clients[c].addr /\ r.status = "user"
      /\ r.checked = clients[c].checked
  BY DEF IInv, TypeOK, Client
<1>2. clients' = [clients EXCEPT ![c] = r] /\ leaked' = leaked
  BY Zenon DEF register_local
<1>3. clients[c].addr \in Addrs
  BY Zenon DEF IInv, ClientsOK, register_local, IsUnknown
<1> HIDE DEF r
<1>4. ASSUME NEW b \in Addrs
      PROVE  Due(b)' = Due(b)
  <2>1. (clients[c].addr = b /\ clients[c].checked) <=> (r.addr = b /\ r.checked)
    BY <1>1
  <2>2. r \in Client /\ clients' = [clients EXCEPT ![c] = r] /\ leaked' = leaked
    BY <1>1, <1>2
  <2> QED
    BY <2>1, <2>2, DueChange, ZenonT(40)
<1>5. clients' \in [Clients -> Client] /\ ClientsOK'
  BY <1>1, <1>2, <1>3, ClientsOKChange, Zenon
<1>6. /\ registry' = registry /\ now' = now /\ exempt' = exempt
      /\ touched' = touched /\ chain' = chain /\ refused' = NoAddr
      /\ aborted' \subseteq aborted \cup {"connect_succeeded: entry"}
  BY Zenon DEF register_local
<1>7. CountAssertionsHold'
  BY <1>6, Zenon DEF IInv, CountAssertionsHold
<1> QED
  BY <1>2, <1>4, <1>5, <1>6, <1>7, SameRegistry, Preserved, Zenon DEF IInv, TypeOK

LEMMA RegisterRemotePreserves ==
  ASSUME IInv, NEW c \in Clients, NEW a \in Addrs, register_remote(c, a)
  PROVE  IInv'
<1> DEFINE r == [FreeClient EXCEPT !.status = "remote", !.addr = a]
<1>1. /\ r \in Client /\ r.addr = a /\ r.status = "remote" /\ ~r.checked
      /\ ~FreeClient.checked
  BY Zenon DEF FreeClient, Client
<1>2. clients' = [clients EXCEPT ![c] = r] /\ ~Live(c)
  BY DEF register_remote
<1> HIDE DEF r
<1>3. ~clients[c].checked
  BY <1>2 DEF IInv, ClientsOK, Live
<1>4. /\ registry' = registry /\ now' = now /\ exempt' = exempt
      /\ touched' = touched /\ chain' = chain /\ refused' = NoAddr
      /\ aborted' = aborted /\ leaked' = leaked
  BY <1>1 DEF register_remote
<1>5. \A b \in Addrs : Due(b)' = Due(b)
  BY <1>1, <1>2, <1>3, <1>4, DueChange, Zenon
<1>6. clients' \in [Clients -> Client] /\ ClientsOK'
  BY <1>1, <1>2, ClientsOKChange, Zenon
<1>7. CountAssertionsHold'
  BY <1>4, Zenon DEF IInv, CountAssertionsHold
<1> QED
  BY <1>4, <1>5, <1>6, <1>7, SameRegistry, Preserved DEF IInv, TypeOK

LEMMA ExpirePreserves ==
  ASSUME IInv, ip_registry_expire
  PROVE  IInv'
<1>1. /\ clients' = clients /\ leaked' = leaked /\ now' = now /\ exempt' = exempt
      /\ touched' = touched /\ chain' = chain /\ refused' = NoAddr
      /\ aborted' = aborted
  BY DEF ip_registry_expire, history
<1>2. /\ registry' = [b \in Addrs |-> registry'[b]]
      /\ \A b \in Addrs : registry'[b] =
           IF registry[b].here /\ registry[b].connected = 0
           THEN ip_registry_expire_entry(registry[b]) ELSE registry[b]
  BY DEF ip_registry_expire
<1>3. \A b \in Addrs : Due(b)' = Due(b)
  BY <1>1 DEF Due, Charged
<1>4. ASSUME NEW b \in Addrs
      PROVE  Good(registry'[b], b, Due(b)')
  <2> DEFINE e == registry[b]
             f == ip_registry_expire_entry(e)
  <2>1. Good(e, b, Due(b))
    BY GoodEntries
  <2>2. CASE e.here /\ e.connected = 0
    <3>1. f \in Entry /\ f.connected = 0
      BY <2>1, <2>2, IPcheckConstants
         DEF ip_registry_expire_entry, NoEntry, NoTarget, Entry, Good
    <3>2. f.connected = e.connected /\ b \notin Invalid
      BY <2>1, <2>2, <3>1 DEF Good
    <3> HIDE DEF f
    <3>3. Good(f, b, Due(b))
      BY <2>1, <3>1, <3>2 DEF Good
    <3> QED
      BY <1>2, <1>3, <2>2, <3>3 DEF f
  <2>3. CASE ~(e.here /\ e.connected = 0)
    BY <1>2, <1>3, <2>1, <2>3
  <2> QED
    BY <2>2, <2>3
<1>5. ClientsOK' /\ CountAssertionsHold'
  BY <1>1, Zenon DEF IInv, ClientsOK, CountAssertionsHold
<1> QED
  BY <1>1, <1>2, <1>4, <1>5, Preserved DEF IInv, TypeOK

LEMMA RehashAndTickPreserve ==
  ASSUME IInv, rehash \/ Tick \/ UNCHANGED vars
  PROVE  IInv'
<1>1. /\ clients' = clients /\ leaked' = leaked /\ registry' = registry
      /\ touched' = touched /\ chain' = chain /\ aborted' = aborted
      /\ refused' = NoAddr \/ refused' = refused
  BY DEF rehash, Tick, history, vars
<1>2. now' \in 0..MaxTime /\ exempt' \in Exemptions
  BY IPcheckConstants DEF rehash, Tick, vars, IInv, TypeOK
<1>3. \A b \in Addrs : Due(b)' = Due(b)
  BY <1>1 DEF Due, Charged
<1>4. ClientsOK' /\ CountAssertionsHold'
  BY <1>1, Zenon DEF IInv, ClientsOK, CountAssertionsHold
<1> QED
  BY <1>1, <1>2, <1>3, <1>4, SameRegistry, Preserved DEF IInv, TypeOK

\* One entry replaced by a good one, the others due what they were.
LEMMA OneGoodEntry ==
  ASSUME IInv, NEW a \in Addrs, NEW e, registry' = [registry EXCEPT ![a] = e],
         Good(e, a, Due(a)'), \A b \in Addrs : b # a => Due(b)' = Due(b)
  PROVE  /\ registry' = [b \in Addrs |-> registry'[b]]
         /\ \A b \in Addrs : Good(registry'[b], b, Due(b)')
<1>1. \A b \in Addrs : Good(registry[b], b, Due(b))
  BY GoodEntries
<1>2. /\ registry' = [b \in Addrs |-> registry'[b]] /\ registry'[a] = e
      /\ \A b \in Addrs : b # a => registry'[b] = registry[b]
  BY Zenon DEF IInv, TypeOK
<1>3. ASSUME NEW b \in Addrs PROVE Good(registry'[b], b, Due(b)')
  <2>1. CASE b = a
    BY <1>2, <2>1
  <2>2. CASE b # a
    <3>1. registry'[b] = registry[b] /\ Due(b)' = Due(b)
      BY <1>2, <2>2
    <3> QED
      BY <1>1, <3>1
  <2> QED
    BY <2>1, <2>2
<1> QED
  BY <1>2, <1>3

LEMMA AddPreserves ==
  ASSUME IInv, NoOverflow, NEW c \in Clients, NEW a \in Addrs,
         add_connection(c, a)
  PROVE  IInv'
<1> DEFINE byIP == find_except_conf_by_ip(a)
           res == ip_registry_check_local(registry[a])
           full == registry[a].connected + 1 = ConnMod
           keep == [FreeClient EXCEPT !.status = "unknown", !.addr = a,
                                      !.checked = ~byIP]
           Throttled == /\ ~byIP /\ ~res.ok
                        /\ registry' = [registry EXCEPT ![a] = res.entry]
                        /\ refused' = IF full THEN NoAddr ELSE a
                        /\ UNCHANGED <<clients, leaked>>
           Handed == /\ byIP \/ res.ok
                     /\ registry' = IF byIP THEN registry
                                    ELSE [registry EXCEPT ![a] = res.entry]
                     /\ clients' = [clients EXCEPT ![c] = keep]
                     /\ refused' = NoAddr
                     /\ UNCHANGED leaked
           Lined == /\ ~byIP /\ res.ok
                    /\ registry' = [registry EXCEPT ![a] =
                                      ip_registry_connect_fail(res.entry, TRUE)]
                    /\ refused' = NoAddr
                    /\ UNCHANGED <<clients, leaked>>
           Leaks == /\ ~byIP /\ res.ok /\ leaked[a] < MaxLeaks
                    /\ registry' = [registry EXCEPT ![a] = res.entry]
                    /\ leaked' = [leaked EXCEPT ![a] = @ + 1]
                    /\ refused' = NoAddr
                    /\ UNCHANGED clients
<1>1. /\ ~Live(c) /\ a \notin Invalid
      /\ IF byIP \/ full THEN UNCHANGED <<touched, chain>> ELSE RecordAttempt(a)
      /\ Throttled \/ Handed \/ Lined \/ Leaks
      /\ now' = now /\ exempt' = exempt /\ aborted' = aborted
  BY Zenon DEF add_connection
<1>2. touched' \in [Addrs -> -1..MaxTime] /\ chain' \in [Addrs -> 0..(AttMod - 1)]
  BY <1>1, RecordType DEF IInv, TypeOK
<1>3. ~clients[c].checked
  BY <1>1 DEF IInv, ClientsOK, Live
<1>4. registry[a].connected + 1 < ConnMod
      /\ (~registry[a].here => registry[a].connected = 0)
  BY <1>3, Room DEF Charged
<1>5. /\ res.entry \in Entry /\ res.entry.here /\ res.entry.attempts > 0
      /\ res.ok \in BOOLEAN
      /\ res.entry.connected = registry[a].connected + (IF res.ok THEN 1 ELSE 0)
  BY <1>4, CheckLocal DEF IInv
<1>6. Good(registry[a], a, Due(a)) /\ registry[a].connected = Due(a)
  BY <1>1, GoodEntries DEF Good
<1>7. /\ keep \in Client /\ keep.addr = a /\ keep.checked = ~byIP
      /\ keep.status = "unknown"
  BY Zenon DEF find_except_conf_by_ip, FreeClient, Client
<1>8. Due(a) \in Nat /\ leaked \in [Addrs -> 0..MaxLeaks] /\ byIP \in BOOLEAN
  BY <1>6, IPcheckConstants
     DEF Good, Entry, IInv, TypeOK, find_except_conf_by_ip
<1> HIDE DEF res, keep, byIP, full
<1>9. CountAssertionsHold' /\ now' \in 0..MaxTime /\ exempt' \in Exemptions
  BY <1>1, Zenon DEF CountAssertionsHold, IInv, TypeOK
<1>10. clients' = clients => /\ clients' \in [Clients -> Client] /\ ClientsOK'
                             /\ \A b : Charged(b)' = Charged(b)
  BY DEF IInv, TypeOK, ClientsOK, Charged
<1>11. CASE Throttled
  <2>1. \A b \in Addrs : Due(b)' = Due(b)
    BY <1>10, <1>11, SMTT(40) DEF Due
  <2>2. Good(res.entry, a, Due(a)')
    <3>1. ~res.ok /\ a \notin Invalid
      BY <1>1, <1>11, Zenon
    <3>2. res.entry.connected = registry[a].connected + 0 /\ registry[a].connected = Due(a)
      BY <1>5, <1>6, <3>1
    <3>3. res.entry.connected = Due(a)'
      BY <1>8, <2>1, <3>2
    <3> HIDE DEF Throttled, Handed, Lined, Leaks
    <3> QED
      BY <1>5, <3>1, <3>3, SMTT(40) DEF Good
  <2>3. /\ registry' = [b \in Addrs |-> registry'[b]]
        /\ \A b \in Addrs : Good(registry'[b], b, Due(b)')
    BY <1>11, <2>1, <2>2, OneGoodEntry, ZenonT(40)
  <2>4. refused' \in Addrs \cup {NoAddr} /\ leaked' \in [Addrs -> 0..MaxLeaks]
    BY <1>8, <1>11
  <2> QED
    BY <1>2, <1>9, <1>10, <1>11, <2>3, <2>4, Preserved
<1>12. CASE Handed
  <2>1. clients' \in [Clients -> Client] /\ ClientsOK'
    BY <1>7, <1>12, ClientsOKChange, Zenon
  <2>2. \A b \in Addrs : /\ b = a /\ ~byIP => Due(b)' = Due(b) + 1
                         /\ ~(b = a /\ ~byIP) => Due(b)' = Due(b)
    <3> TAKE b \in Addrs
    <3>1. clients' = [clients EXCEPT ![c] = keep] /\ leaked' = leaked
      BY <1>12
    <3>2. /\ ~(clients[c].addr = b /\ clients[c].checked)
          /\ (keep.addr = b /\ keep.checked) <=> (b = a /\ ~byIP)
      BY <1>3, <1>7, <1>8, Zenon
    <3> QED
      BY <1>7, <3>1, <3>2, DueChange, ZenonT(40)
  <2>3. /\ registry' = [b \in Addrs |-> registry'[b]]
        /\ \A b \in Addrs : Good(registry'[b], b, Due(b)')
    <3>1. CASE byIP
      BY <1>12, <2>2, <3>1, SameRegistry
    <3>2. CASE ~byIP
      <4>1. res.entry.connected = Due(a)'
        BY <1>5, <1>6, <1>8, <1>12, <2>2, <3>2
      <4>2. Good(res.entry, a, Due(a)')
        BY <1>1, <1>5, <4>1 DEF Good
      <4> QED
        BY <1>12, <2>2, <3>2, <4>2, OneGoodEntry, Zenon
    <3> QED
      BY <3>1, <3>2
  <2>4. refused' \in Addrs \cup {NoAddr} /\ leaked' \in [Addrs -> 0..MaxLeaks]
    BY <1>8, <1>12
  <2> QED
    BY <1>2, <1>9, <2>1, <2>3, <2>4, Preserved
<1>13. CASE Lined
  <2>1. \A b \in Addrs : Due(b)' = Due(b)
    BY <1>10, <1>13, SMTT(40) DEF Due
  <2> DEFINE f == ip_registry_connect_fail(res.entry, TRUE)
  <2>2. res.entry.connected = Due(a) + 1
    <3>1. res.ok
      BY <1>13, Zenon
    <3> QED
      BY <1>5, <1>6, <3>1
  <2>3. /\ f \in Entry /\ f.here = res.entry.here /\ f.attempts > 0
        /\ f.connected = Due(a)
    <3>1. TypeOK /\ res.entry.connected > 0
      BY <1>8, <2>2 DEF IInv
    <3>2. /\ f \in Entry /\ f.here = res.entry.here
          /\ res.entry.here => f.attempts > 0
          /\ f.connected = IF TRUE /\ res.entry.here
                           THEN res.entry.connected - 1 ELSE res.entry.connected
      BY <1>5, <3>1, ConnectFail, Zenon
    <3> HIDE DEF f
    <3> QED
      BY <1>5, <1>8, <2>2, <3>2, SMTT(40)
  <2>4. registry' = [registry EXCEPT ![a] = f]
    BY <1>13
  <2> HIDE DEF f
  <2>5. Good(f, a, Due(a)')
    BY <1>1, <1>5, <2>1, <2>3 DEF Good
  <2>6. /\ registry' = [b \in Addrs |-> registry'[b]]
        /\ \A b \in Addrs : Good(registry'[b], b, Due(b)')
    BY <2>1, <2>4, <2>5, OneGoodEntry, Zenon
  <2>7. refused' \in Addrs \cup {NoAddr} /\ leaked' \in [Addrs -> 0..MaxLeaks]
    BY <1>8, <1>13
  <2> QED
    BY <1>2, <1>9, <1>10, <1>13, <2>6, <2>7, Preserved, Zenon
<1>14. CASE Leaks
  <2>1. /\ \A b \in Addrs : b # a => Due(b)' = Due(b)
        /\ Due(a)' = Due(a) + 1
    <3>1. leaked'[a] = leaked[a] + 1 /\ \A b \in Addrs : b # a => leaked'[b] = leaked[b]
      BY <1>8, <1>14
    <3>2. Charged(a) \in SUBSET Clients
      BY DEF Charged
    <3>3. Cardinality(Charged(a)) \in Nat
      BY <3>2, ClientSets, Zenon
    <3> QED
      BY <1>8, <1>10, <1>14, <3>1, <3>3 DEF Due
  <2>2. res.entry.connected = Due(a)'
    BY <1>5, <1>6, <1>8, <1>14, <2>1
  <2>3. Good(res.entry, a, Due(a)')
    BY <1>1, <1>5, <2>2 DEF Good
  <2>4. /\ registry' = [b \in Addrs |-> registry'[b]]
        /\ \A b \in Addrs : Good(registry'[b], b, Due(b)')
    BY <1>14, <2>1, <2>3, OneGoodEntry, Zenon
  <2>5. refused' \in Addrs \cup {NoAddr} /\ leaked' \in [Addrs -> 0..MaxLeaks]
    <3>1. leaked[a] + 1 \in 0..MaxLeaks
      BY <1>8, <1>14, IPcheckConstants
    <3> QED
      BY <1>8, <1>14, <3>1
  <2> QED
    BY <1>2, <1>9, <1>10, <1>14, <2>4, <2>5, Preserved
<1> QED
  BY <1>1, <1>11, <1>12, <1>13, <1>14, Zenon

LEMMA ChangePreserves ==
  ASSUME IInv, NoOverflow, NEW c \in Clients, NEW a \in Addrs,
         change_address(c, a)
  PROVE  IInv'
<1>1. PICK old \in Addrs : old = clients[c].addr
  BY Zenon DEF IInv, ClientsOK, change_address, IsUnknown
<1> DEFINE was == IsIPChecked(c)
           mid == IF was
                  THEN [registry EXCEPT ![old] = ip_registry_connect_fail(@, TRUE)]
                  ELSE registry
           ex == find_except_conf(c, a)
           new == ex = "counted"
           gone == IF was /\ registry[old].here /\ registry[old].connected = 0
                   THEN {"connect_fail: connected > 0"} ELSE {}
           r == [clients[c] EXCEPT !.addr = a, !.checked = new, !.cache = ex]
<1>2. /\ registry' = IF new /\ a \notin Invalid
                     THEN [mid EXCEPT ![a] = ip_registry_check_remote(@, FALSE)]
                     ELSE mid
      /\ clients' = [clients EXCEPT ![c].addr = a, ![c].checked = new,
                                    ![c].cache = ex]
      /\ aborted' = aborted \cup gone
      /\ IF new /\ a \notin Invalid THEN RecordAttempt(a)
         ELSE UNCHANGED <<touched, chain>>
      /\ refused' = NoAddr /\ now' = now /\ exempt' = exempt /\ leaked' = leaked
      /\ IsUnknown(c)
  BY <1>1, Zenon DEF change_address
<1>3. ex \in {"exempt", "counted"} /\ new \in BOOLEAN /\ was \in BOOLEAN
  BY DEF find_except_conf, IInv, TypeOK, Client, IsIPChecked
<1>4. clients' = [clients EXCEPT ![c] = r]
  BY <1>2, Zenon DEF IInv, TypeOK
<1>6. was <=> clients[c].checked
  BY DEF IsIPChecked
<1>7. clients[c].status = "unknown"
  BY <1>2, Zenon DEF IsUnknown
<1> HIDE DEF was, ex, new
<1>5. r \in Client /\ r.addr = a /\ (r.checked <=> new) /\ r.status = clients[c].status
  <2>1. clients[c] \in Client
    BY DEF IInv, TypeOK
  <2> QED
    BY <1>3, <2>1, Zenon DEF Client
<1> HIDE DEF r
<1>8. clients' \in [Clients -> Client] /\ ClientsOK'
  BY <1>4, <1>5, <1>7, ClientsOKChange, Zenon
<1>9. \A b \in Addrs :
        /\ (b = old /\ was) <=> c \in Charged(b)
        /\ Due(b) \in Nat /\ (b = old /\ was => Due(b) > 0)
        /\ ((b = old /\ was) <=> (b = a /\ new)) => Due(b)' = Due(b)
        /\ (b = old /\ was) /\ ~(b = a /\ new) => Due(b)' = Due(b) - 1
        /\ ~(b = old /\ was) /\ (b = a /\ new) => Due(b)' = Due(b) + 1
  <2> TAKE b \in Addrs
  <2>1. leaked' = leaked
    BY <1>2, Zenon
  <2>2. /\ (clients[c].addr = b /\ clients[c].checked) <=> (b = old /\ was)
        /\ (r.addr = b /\ r.checked) <=> (b = a /\ new)
    BY <1>1, <1>5, <1>6
  <2> QED
    BY <1>4, <1>5, <2>1, <2>2, DueChange, ZenonT(40)
<1> DEFINE f == ip_registry_connect_fail(registry[old], TRUE)
           midDue(b) == IF b = old /\ was THEN Due(b) - 1 ELSE Due(b)
<1>10. mid \in [Addrs -> Entry] /\ \A b \in Addrs : Good(mid[b], b, midDue(b))
  <2>1. \A b \in Addrs : Good(registry[b], b, Due(b))
    BY GoodEntries
  <2>2. registry \in [Addrs -> Entry]
    BY DEF IInv, TypeOK
  <2>3. CASE ~was
    BY <2>1, <2>2, <2>3
  <2>4. CASE was
    <3>1. old \notin Invalid => registry[old].connected > 0
      BY <1>9, <2>1, <2>4 DEF Good
    <3>2. registry[old].here => registry[old].connected > 0
      BY <2>1, <3>1 DEF Good
    <3>3. /\ f \in Entry /\ f.here = registry[old].here
          /\ registry[old].here => f.attempts > 0
          /\ f.connected = IF registry[old].here THEN registry[old].connected - 1
                           ELSE registry[old].connected
      BY <2>2, <3>2, ConnectFail, Zenon DEF IInv
    <3> HIDE DEF f
    <3>4. Good(f, old, Due(old) - 1)
      <4>1. registry[old].connected \in Nat
        BY <2>2, IPcheckConstants DEF Entry
      <4>2. old \notin Invalid => registry[old].here /\ registry[old].connected = Due(old)
        BY <2>1, <3>1 DEF Good
      <4>3. ~registry[old].here => registry[old].connected = 0
        BY <2>1, <4>1 DEF Good
      <4>4. old \in Invalid => ~registry[old].here
        BY <2>1 DEF Good
      <4> QED
        BY <3>3, <4>1, <4>2, <4>3, <4>4 DEF Good
    <3>5. mid = [registry EXCEPT ![old] = f]
      BY <2>4 DEF f
    <3>6. /\ mid \in [Addrs -> Entry] /\ mid[old] = f
          /\ \A b \in Addrs : b # old => mid[b] = registry[b]
      BY <2>2, <3>3, <3>5, Zenon
    <3> QED
      BY <2>1, <2>4, <3>4, <3>6, Zenon
  <2> QED
    BY <2>3, <2>4, Zenon
<1>11. gone = {}
  <2>1. Good(registry[old], old, Due(old))
    BY GoodEntries
  <2>2. was /\ registry[old].here => registry[old].connected > 0
    BY <1>9, <2>1 DEF Good
  <2>3. registry[old].connected \in Nat
    BY <2>1, IPcheckConstants DEF Good, Entry
  <2>4. ~(was /\ registry[old].here /\ registry[old].connected = 0)
    BY <2>2, <2>3
  <2> QED
    BY <2>4, Zenon
<1> HIDE DEF mid, gone
<1>12. CASE new /\ a \notin Invalid
  <2> DEFINE g == ip_registry_check_remote(mid[a], FALSE)
  <2>1. mid[a].connected + 1 < ConnMod /\ (~mid[a].here => mid[a].connected = 0)
    <3>1. Good(mid[a], a, midDue(a)) /\ mid[a].connected = midDue(a)
      BY <1>10, <1>12 DEF Good
    <3>2. ~mid[a].here => mid[a].connected = 0
      <4>1. mid[a].connected \in Nat
        BY <1>10, IPcheckConstants DEF Entry
      <4>2. mid[a].connected > 0 => mid[a].here
        BY <1>10 DEF Good
      <4> QED
        BY <4>1, <4>2
    <3>3. registry[a].connected = Due(a) /\ registry[a].connected \in 0..(ConnMod - 1)
      BY <1>12, GoodEntries, SMTT(40) DEF Good, Entry
    <3>4. CASE a = old /\ was
      <4>1. midDue(a) = Due(a) - 1
        BY <3>4
      <4>2. mid[a].connected = registry[a].connected - 1
        BY <3>1, <3>3, <4>1
      <4> QED
        BY <3>2, <3>3, <4>2, IPcheckConstants
    <3>5. CASE ~(a = old /\ was)
      <4>1. registry[a].connected + 1 < ConnMod
        BY <1>9, <3>5, Room
      <4>2. midDue(a) = Due(a)
        BY <3>5
      <4>3. mid[a].connected = registry[a].connected
        BY <3>1, <3>3, <4>2
      <4> QED
        BY <3>2, <4>1, <4>3
    <3> QED
      BY <3>4, <3>5
  <2>2. mid[a] \in Entry /\ TypeOK
    BY <1>10 DEF IInv
  <2>3. /\ g \in Entry /\ g.here /\ g.attempts > 0
        /\ g.connected = mid[a].connected + 1
    BY <2>1, <2>2, CheckRemote, Zenon
  <2>4. registry' = [mid EXCEPT ![a] = g]
    BY <1>2, <1>12
  <2> HIDE DEF g
  <2>5. /\ registry' = [b \in Addrs |-> registry'[b]] /\ registry'[a] = g
        /\ \A b \in Addrs : b # a => registry'[b] = mid[b]
    BY <1>10, <2>4, Zenon
  <2>6. Good(g, a, Due(a)')
    <3>1. mid[a].connected = midDue(a)
      BY <1>10, <1>12 DEF Good
    <3>2. g.connected = Due(a)'
      BY <1>9, <1>12, <2>3, <3>1
    <3> QED
      BY <1>12, <2>3, <3>2 DEF Good
  <2>7. ASSUME NEW b \in Addrs PROVE Good(registry'[b], b, Due(b)')
    <3>1. CASE b = a
      BY <2>5, <2>6, <3>1
    <3>2. CASE b # a
      <4>1. Due(b)' = midDue(b)
        BY <1>9, <3>2
      <4>2. Good(mid[b], b, midDue(b)) /\ registry'[b] = mid[b]
        BY <1>10, <2>5, <3>2
      <4> HIDE DEF midDue
      <4> QED
        BY <4>1, <4>2
    <3> QED
      BY <3>1, <3>2
  <2>8. CountAssertionsHold'
    BY <1>2, <1>11, Zenon DEF IInv, CountAssertionsHold
  <2>9. touched' \in [Addrs -> -1..MaxTime] /\ chain' \in [Addrs -> 0..(AttMod - 1)]
    BY <1>2, <1>12, RecordType DEF IInv
  <2> QED
    BY <1>2, <1>8, <2>5, <2>7, <2>8, <2>9, Preserved, Zenon DEF IInv, TypeOK
<1>13. CASE ~(new /\ a \notin Invalid)
  <2>1. registry' = mid /\ touched' = touched /\ chain' = chain
    BY <1>2, <1>13, Zenon
  <2>2. ASSUME NEW b \in Addrs PROVE Good(registry'[b], b, Due(b)')
    <3>1. Good(mid[b], b, midDue(b))
      BY <1>10
    <3>2. b \in Invalid \/ midDue(b) = Due(b)'
      BY <1>9, <1>13
    <3> HIDE DEF midDue
    <3> QED
      BY <2>1, <3>1, <3>2, GoodSame
  <2>3. registry' = [b \in Addrs |-> registry'[b]]
    BY <1>10, <2>1
  <2>4. CountAssertionsHold'
    BY <1>2, <1>11, Zenon DEF IInv, CountAssertionsHold
  <2> QED
    BY <1>2, <1>8, <2>1, <2>2, <2>3, <2>4, Preserved, Zenon DEF IInv, TypeOK
<1> QED
  BY <1>12, <1>13

-----------------------------------------------------------------------------
LEMMA InitIInv ==
  ASSUME Init
  PROVE  IInv
<1>1. NoEntry \in Entry /\ NoEntry.connected = 0 /\ ~NoEntry.here
  BY IPcheckConstants DEF NoEntry, Entry, NoTarget
<1>2. FreeClient \in Client /\ ~FreeClient.checked /\ FreeClient.status = "free"
  BY DEF FreeClient, Client
<1>3. TypeOK
  BY <1>1, <1>2, IPcheckConstants DEF Init, TypeOK
<1>4. \A a : Charged(a) = {}
  BY <1>2 DEF Init, Charged
<1>5. ConnectedCountsClients
  BY <1>1, <1>4, FS_EmptySet DEF Init, ConnectedCountsClients
<1> QED
  BY <1>1, <1>2, <1>3, <1>5, IPcheckConstants
     DEF IInv, Init, ClientsOK, InvalidAbsent, CountedHasAttempt,
         CountAssertionsHold

\* Every step preserves the inductive invariant.
LEMMA StepIInv ==
  ASSUME IInv, NoOverflow, [Next]_vars
  PROVE  IInv'
  BY ExitPreserves, OverridePreserves, UnchargedPreserves,
     PreregisterPreserves, RegisterLocalPreserves, AddPreserves,
     ChangePreserves, RegisterRemotePreserves, ExpirePreserves,
     RehashAndTickPreserve DEF Next

\* The registry counts exactly the clients it has charged, never releases one
\* twice, keeps an attempt for every address with a client, and no assertion
\* about its counters fails, whatever the numbers of clients and addresses,
\* provided the 16-bit counter is wider than the number of clients.
THEOREM RegistryCounts ==
  ASSUME NoOverflow
  PROVE  Spec => []RegistrySound
<1>1. Init => IInv
  BY InitIInv
<1>2. IInv /\ [Next]_vars => IInv'
  BY StepIInv
<1>3. IInv => RegistrySound
  BY DEF IInv, RegistrySound
<1> QED
  BY <1>1, <1>2, <1>3, PTL DEF Spec
=============================================================================
