--------------------------- MODULE ThrottleProofs ---------------------------
(* Proofs about the throttling decision of IPcheck: an address is throttled *)
(* only for attempts that were made, for any clients, addresses and limits, *)
(* as long as the 16 bits of the clock do not wrap.                         *)
EXTENDS IPcheckProofs

\* NOW when the server started.
Start == Epoch % TimeMod

\* The 16 bits that NOW keeps of the clock do not start anew.
NoWrap == Start + MaxTime < TimeMod

\* A client was released that was never charged: IPcheck_connect_fail's assertion failed.
Misused == "connect_fail: IsIPChecked" \in aborted

\* Entry e is no stricter than what happened: its time is when the address was last touched, t,
\* and it has no more attempts than were made in a row, n.
Earned(e, t, n) == e.here => t \in 0..now /\ e.last = Start + t /\ e.attempts <= n

\* The attempts in a row after one more.
Chained(t, n) ==
  IF t < 0 \/ now - t > PERIOD THEN 1 ELSE IF n + 1 = AttMod THEN n ELSE n + 1

\* The registry r is no stricter than the history t, n of its addresses.
AllEarned(r, t, n) == \A b \in Addrs : Earned(r[b], t[b], n[b])

\* The inductive invariant.
Deserved == ~Misused => AllEarned(registry, touched, chain)
TInv == IInv /\ Deserved

\* A quotient and a remainder within the modulus are the only ones.
LEMMA OneRemainder ==
  ASSUME NEW m \in Nat \ {0}, NEW q \in Int, NEW p \in Int, NEW r \in 0..(m - 1), NEW s \in 0..(m - 1),
         m * q + r = m * p + s
  PROVE  r = s
<1>1. CASE q = p
  BY <1>1
<1>2. ASSUME NEW x \in Int, NEW y \in Int, x > y
      PROVE  m * x >= m * y + m
  <2>1. m * (x - y - 1) >= 0
    BY <1>2
  <2>2. m * (x - y - 1) = m * x - m * y - m
    BY <1>2
  <2> QED
    BY <2>1, <2>2
<1>3. CASE q > p
  BY <1>2, <1>3
<1>4. CASE p > q
  BY <1>2, <1>4
<1> QED
  BY <1>1, <1>3, <1>4

\* Until then NOW goes on with the clock.
LEMMA NowIs ==
  ASSUME NoWrap, now \in 0..MaxTime
  PROVE  NOW = Start + now /\ Start \in Nat
<1> DEFINE q == Epoch \div TimeMod
           p == (Epoch + now) \div TimeMod
<1>1. Epoch \in Nat /\ now \in Nat /\ TimeMod \in Nat \ {0} /\ now <= MaxTime
  BY IPcheckConstants
<1>2. q \in Int /\ Start \in 0..(TimeMod - 1) /\ Epoch = TimeMod * q + Start
  BY <1>1 DEF Start
<1>3. p \in Int /\ NOW \in 0..(TimeMod - 1) /\ Epoch + now = TimeMod * p + NOW
  BY <1>1 DEF NOW
<1> HIDE DEF q, p
<1>4. Start + now \in 0..(TimeMod - 1) /\ TimeMod * q + (Start + now) = TimeMod * p + NOW
  BY <1>1, <1>2, <1>3, IPcheckConstants DEF NoWrap
<1> QED
  BY <1>1, <1>2, <1>3, <1>4, OneRemainder

\* An attempt is one more in the row, or starts a new one when the last was long ago.
LEMMA AttemptEarned ==
  ASSUME NoWrap, TypeOK, NEW e \in Entry, e.here, NEW t \in -1..MaxTime,
         NEW n \in 0..(AttMod - 1), Earned(e, t, n)
  PROVE  Earned(Attempt(e), now, Chained(t, n)) /\ Attempt(e).attempts <= Chained(t, n)
<1> DEFINE f == ForgetAttempts(e, PERIOD)
           g == ip_registry_update_free_targets(f)
           h == [g EXCEPT !.last = NOW]
<1>1. NOW = Start + now /\ Start \in Nat /\ now \in 0..MaxTime
  BY NowIs DEF TypeOK
<1>2. t \in 0..now /\ e.last = Start + t /\ e.attempts <= n /\ e.attempts \in Nat
  BY IPcheckConstants DEF Earned, Entry
<1>3. CONNECTED_SINCE(e.last) = now - t
  BY <1>1, <1>2, IPcheckConstants DEF CONNECTED_SINCE
<1>4. /\ f \in Entry /\ f.attempts = IF now - t > PERIOD THEN 0 ELSE e.attempts
  BY <1>3, ForgetType DEF ForgetAttempts, Entry
<1> HIDE DEF f
<1>5. g \in Entry /\ g.attempts = f.attempts
  <2>1. g \in Entry
    BY <1>4, TargetsType
  <2> QED
    BY <1>4, <2>1 DEF ip_registry_update_free_targets, Entry
<1> HIDE DEF g
<1>6. h \in Entry /\ h.attempts = f.attempts /\ h.last = NOW
  BY <1>5, NowRange DEF Entry
<1> HIDE DEF h
<1>7. Attempt(e) = CountAttempt(h)
  BY DEF Attempt, f, g, h
<1>8. /\ CountAttempt(h).last = NOW
      /\ CountAttempt(h).attempts = IF h.attempts + 1 = AttMod THEN h.attempts ELSE h.attempts + 1
  BY <1>6 DEF CountAttempt, Entry
<1>9. CountAttempt(h).attempts <= Chained(t, n)
  BY <1>1, <1>2, <1>4, <1>6, <1>8, IPcheckConstants DEF Chained
<1> QED
  BY <1>1, <1>7, <1>8, <1>9 DEF Earned

\* A failure that is not the client's takes an attempt back, or leaves the last one.
LEMMA FailEarned ==
  ASSUME TypeOK, NEW e \in Entry, e.here => e.attempts > 0, NEW d \in BOOLEAN
  PROVE  /\ ip_registry_connect_fail(e, d).here = e.here
         /\ ip_registry_connect_fail(e, d).last = e.last
         /\ ip_registry_connect_fail(e, d).attempts \in Nat
         /\ ip_registry_connect_fail(e, d).attempts <= e.attempts
<1>1. e.attempts \in 0..(AttMod - 1) /\ AttMod \in Nat \ {0, 1}
  BY IPcheckConstants DEF Entry
<1>2. CASE ~e.here
  BY <1>1, <1>2 DEF ip_registry_connect_fail
<1>3. CASE e.here
  <2>1. e.attempts - 1 \in Nat /\ e.attempts - 1 < AttMod /\ e.attempts > 0
    BY <1>1, <1>3
  <2>2. \A x \in Nat, y \in Nat \ {0} : x < y => x % y = x
    OBVIOUS
  <2>3. (e.attempts - 1) % AttMod = e.attempts - 1
    BY <1>1, <2>1, <2>2
  <2> DEFINE k == IF (e.attempts - 1) % AttMod = 0 THEN 1 ELSE (e.attempts - 1) % AttMod
             j == IF d THEN (e.connected - 1) % ConnMod ELSE e.connected
  <2>4. k \in Nat /\ k <= e.attempts
    BY <1>1, <2>1, <2>3
  <2>5. ip_registry_connect_fail(e, d) = [e EXCEPT !.attempts = k, !.connected = j]
    BY <1>3 DEF ip_registry_connect_fail
  <2> HIDE DEF k, j
  <2> QED
    BY <2>4, <2>5 DEF Entry
<1> QED
  BY <1>2, <1>3

\* A client that leaves adds no attempt; the last one's leaving touches the entry.
Left(e, f) ==
  /\ f.here /\ f.attempts \in Nat /\ f.attempts <= e.attempts
  /\ f.last = IF e.connected = 1 THEN NOW ELSE e.last

\* ip_registry_disconnect does just that.
LEMMA LeftEntry ==
  ASSUME TypeOK, NEW e \in Entry, e.here, e.connected > 0, NEW l \in BOOLEAN,
         NEW ft \in 0..STARTTARGETS
  PROVE  Left(e, ip_registry_disconnect(e, l, ft))
<1> DEFINE e1 == [e EXCEPT !.connected = (@ - 1) % ConnMod]
           f == ForgetAttempts(e1, LIMIT * PERIOD)
           g == ip_registry_update_free_targets(f)
           h == [g EXCEPT !.last = NOW]
           e2 == IF e1.connected # 0 THEN e1 ELSE h
           old == IF e2.target = NoTarget THEN STARTTARGETS ELSE e2.target
           r == IF ~l THEN e2 ELSE [e2 EXCEPT !.target = IF ft < old THEN ft ELSE old]
<1>1. /\ e.connected \in 0..(ConnMod - 1) /\ e.attempts \in Nat /\ ConnMod \in Nat \ {0, 1}
  BY IPcheckConstants DEF Entry
<1>2. (e.connected - 1) % ConnMod = e.connected - 1
  <2>1. \A x \in Nat, y \in Nat \ {0} : x < y => x % y = x
    OBVIOUS
  <2>2. e.connected - 1 \in Nat /\ e.connected - 1 < ConnMod
    BY <1>1
  <2> QED
    BY <1>1, <2>1, <2>2
<1>3. /\ e1 \in Entry /\ e1.connected = e.connected - 1 /\ e1.attempts = e.attempts
      /\ e1.last = e.last /\ e1.here
  BY <1>1, <1>2 DEF Entry
<1>4. ip_registry_disconnect(e, l, ft) = r
  BY DEF ip_registry_disconnect
<1> HIDE DEF e1
<1>5. f \in Entry /\ f.attempts <= e.attempts /\ f.here
  BY <1>1, <1>3, ForgetType, IPcheckConstants DEF ForgetAttempts, Entry
<1> HIDE DEF f
<1>6. g \in Entry /\ g.attempts = f.attempts /\ g.here
  <2>1. g \in Entry
    BY <1>5, TargetsType
  <2> QED
    BY <1>5, <2>1 DEF ip_registry_update_free_targets, Entry
<1> HIDE DEF g
<1>7. h \in Entry /\ h.attempts <= e.attempts /\ h.here /\ h.last = NOW
  BY <1>5, <1>6, NowRange DEF Entry
<1> HIDE DEF h
<1>8. /\ e2 \in Entry /\ e2.attempts <= e.attempts /\ e2.here
      /\ e2.last = IF e.connected = 1 THEN NOW ELSE e.last
  BY <1>1, <1>3, <1>7
<1> HIDE DEF e2
<1>9. r.attempts = e2.attempts /\ r.here = e2.here /\ r.last = e2.last /\ r.attempts \in Nat
  <2> DEFINE j == IF ft < old THEN ft ELSE old
  <2>1. e2.attempts \in Nat
    BY <1>8, IPcheckConstants DEF Entry
  <2>2. r = IF ~l THEN e2 ELSE [e2 EXCEPT !.target = j]
    OBVIOUS
  <2> HIDE DEF j, r
  <2>3. CASE l
    BY <1>8, <2>1, <2>2, <2>3, Zenon DEF Entry
  <2>4. CASE ~l
    BY <2>1, <2>2, <2>4
  <2> QED
    BY <2>3, <2>4
<1> HIDE DEF r
<1> QED
  BY <1>4, <1>8, <1>9 DEF Left

\* A charged client is one of those due to its address.
LEMMA ChargedEntry ==
  ASSUME IInv, NEW c \in Clients, IsIPChecked(c), NEW e,
         clients[c].addr \notin Invalid, Good(e, clients[c].addr, Due(clients[c].addr))
  PROVE  clients[c].addr \in Addrs /\ e \in Entry /\ e.here /\ e.connected > 0 /\ e.attempts > 0
<1>1. PICK a \in Addrs : a = clients[c].addr
  BY DEF IInv, ClientsOK, IsIPChecked
<1>2. Charged(a) \in SUBSET Clients /\ c \in Charged(a)
  BY <1>1 DEF Charged, IsIPChecked
<1>3. Cardinality(Charged(a)) \in Nat /\ Cardinality(Charged(a)) > 0
  BY <1>2, ClientSets, Zenon
<1>4. leaked[a] \in Nat
  BY <1>1 DEF IInv, TypeOK
<1>5. Due(a) > 0
  BY <1>3, <1>4 DEF Due
<1> QED
  BY <1>1, <1>5 DEF Good

\* No address has more attempts in r than in q.
Fewer(r, q) == \A b \in Addrs : r[b].attempts \in Nat /\ q[b].attempts \in Nat /\ r[b].attempts <= q[b].attempts

\* The exit of a client, on a registry that ip_registry_connect_fail may have changed, adds no
\* attempt, and leaves the registry no stricter than the history.
LEMMA GoneEarned ==
  ASSUME IInv, NEW c \in Clients, Live(c), NEW reg \in [Addrs -> Entry],
         \A b \in Addrs : Good(reg[b], b, Due(b)), Disconnect(c, reg)
  PROVE  /\ Fewer(registry', reg)
         /\ NoWrap /\ AllEarned(reg, touched, chain) => AllEarned(registry', touched', chain)
<1>1. PICK a \in Addrs : a = clients[c].addr
  BY DEF IInv, ClientsOK, Live
<1>2. \A b \in Addrs : reg[b].attempts \in Nat
  BY IPcheckConstants DEF Entry
<1>3. CASE ~IsIPChecked(c) \/ a \in Invalid
  <2>1. registry' = reg /\ touched' = touched
    BY <1>1, <1>3, Zenon DEF Disconnect
  <2> QED
    BY <1>2, <2>1 DEF Fewer, AllEarned
<1>4. CASE IsIPChecked(c) /\ a \notin Invalid
  <2>1. reg[a] \in Entry /\ reg[a].here /\ reg[a].connected > 0
    BY <1>1, <1>4, ChargedEntry
  <2>2. PICK ft \in 0..STARTTARGETS : registry' = [reg EXCEPT ![a] =
          ip_registry_disconnect(reg[a], clients[c].status # "remote", ft)]
    BY <1>1, <1>4, <2>1, Zenon DEF Disconnect
  <2> DEFINE l == clients[c].status # "remote"
             e == ip_registry_disconnect(reg[a], l, ft)
  <2>3. l \in BOOLEAN
    OBVIOUS
  <2>4. touched' = IF reg[a].connected = 1 THEN [touched EXCEPT ![a] = now] ELSE touched
    <3>1. touched' = IF reg[a].here /\ reg[a].connected = 1
                     THEN [touched EXCEPT ![a] = now] ELSE touched
      BY <1>1, <1>4, Zenon DEF Disconnect
    <3> QED
      BY <2>1, <3>1
  <2> HIDE DEF l
  <2>5. Left(reg[a], e)
    BY <2>1, <2>3, LeftEntry DEF IInv
  <2>6. registry'[a] = e /\ \A b \in Addrs : b # a => registry'[b] = reg[b]
    BY <1>1, <2>2 DEF l
  <2> HIDE DEF e
  <2>7. Fewer(registry', reg)
    BY <1>2, <2>5, <2>6 DEF Fewer, Left
  <2>8. ASSUME NoWrap, AllEarned(reg, touched, chain), NEW b \in Addrs
        PROVE  Earned(registry'[b], touched'[b], chain[b])
    <3>1. touched'[a] = IF reg[a].connected = 1 THEN now ELSE touched[a]
      BY <1>1, <2>4 DEF IInv, TypeOK
    <3>2. b # a => touched'[b] = touched[b]
      BY <1>1, <2>4, <2>8 DEF IInv, TypeOK
    <3>3. CASE b # a
      BY <2>6, <2>8, <3>2, <3>3 DEF AllEarned
    <3>4. CASE b = a
      <4>1. NOW = Start + now /\ now \in 0..MaxTime
        BY <2>8, NowIs DEF IInv, TypeOK
      <4>2. touched[a] \in 0..now /\ reg[a].last = Start + touched[a] /\ reg[a].attempts <= chain[a]
        BY <1>1, <2>1, <2>8 DEF AllEarned, Earned
      <4>3. chain[a] \in Nat
        BY <1>1, IPcheckConstants DEF IInv, TypeOK
      <4>4. e.attempts <= chain[a] /\ e.last = Start + touched'[a] /\ touched'[a] \in 0..now
        BY <1>1, <1>2, <2>5, <3>1, <4>1, <4>2, <4>3 DEF Left
      <4> QED
        BY <2>6, <3>4, <4>4 DEF Earned
    <3> QED
      BY <3>3, <3>4
  <2> QED
    BY <2>7, <2>8 DEF AllEarned
<1> QED
  BY <1>3, <1>4

\* So does a failure that is not the client's fault, followed by its exit.
LEMMA FailThenGone ==
  ASSUME IInv, NEW c \in Clients, NEW fail \in BOOLEAN, Live(c), fail => IsIPChecked(c),
         Disconnect(c, IF fail THEN [registry EXCEPT ![clients[c].addr] =
                                       ip_registry_connect_fail(@, FALSE)]
                       ELSE registry)
  PROVE  /\ Fewer(registry', registry)
         /\ NoWrap /\ AllEarned(registry, touched, chain) => AllEarned(registry', touched', chain)
<1>0. PICK a \in Addrs : a = clients[c].addr
  BY DEF IInv, ClientsOK, Live
<1> DEFINE e == ip_registry_connect_fail(registry[a], FALSE)
           failed == [registry EXCEPT ![a] = e]
           reg == IF fail THEN failed ELSE registry
<1>1. a \in Addrs /\ registry \in [Addrs -> Entry] /\ registry[a] \in Entry
  BY DEF IInv, TypeOK
<1>2. reg \in [Addrs -> Entry] /\ \A b \in Addrs : Good(reg[b], b, Due(b))
  <2>1. CASE fail
    BY <1>1, <2>1, FailGood, Zenon
  <2>2. CASE ~fail
    BY <1>1, <2>2, GoodEntries
  <2> QED
    BY <2>1, <2>2, Zenon
<1>3. Disconnect(c, reg)
  BY <1>0
<1> HIDE DEF reg
<1>4. \A b \in Addrs : registry[b].attempts \in Nat /\ reg[b].attempts \in Nat
  BY <1>1, <1>2, IPcheckConstants DEF Entry
<1>5. Fewer(reg, registry) /\ \A b \in Addrs : reg[b].here = registry[b].here /\ reg[b].last = registry[b].last
  <2>1. CASE ~fail
    <3>1. reg = registry
      BY <2>1 DEF reg
    <3> QED
      BY <1>4, <3>1 DEF Fewer
  <2>2. CASE fail
    <3>1. registry[a].here => registry[a].attempts > 0
      <4>1. CASE a \in Invalid
        BY <4>1 DEF IInv, InvalidAbsent
      <4>2. CASE a \notin Invalid
        BY <1>0, <2>2, <4>2, GoodEntries, ChargedEntry
      <4> QED
        BY <4>1, <4>2
    <3>2. e.here = registry[a].here /\ e.last = registry[a].last /\ e.attempts <= registry[a].attempts
      BY <1>1, <3>1, FailEarned, Zenon DEF IInv
    <3>3. reg = failed
      BY <2>2 DEF reg
    <3> HIDE DEF e
    <3>4. reg[a] = e /\ \A b \in Addrs : b # a => reg[b] = registry[b]
      BY <1>1, <3>3
    <3> QED
      BY <1>4, <3>2, <3>4 DEF Fewer
  <2> QED
    BY <2>1, <2>2
<1>6. ASSUME AllEarned(registry, touched, chain)
      PROVE  AllEarned(reg, touched, chain)
  <2> SUFFICES ASSUME NEW b \in Addrs
               PROVE  Earned(reg[b], touched[b], chain[b])
    BY DEF AllEarned
  <2>1. Earned(registry[b], touched[b], chain[b]) /\ chain[b] \in Nat
    BY <1>6, IPcheckConstants DEF AllEarned, IInv, TypeOK
  <2>2. reg[b].here = registry[b].here /\ reg[b].last = registry[b].last
        /\ reg[b].attempts <= registry[b].attempts
    BY <1>5 DEF Fewer
  <2> QED
    BY <1>4, <2>1, <2>2 DEF Earned
<1>7. /\ Fewer(registry', reg)
      /\ NoWrap /\ AllEarned(reg, touched, chain) => AllEarned(registry', touched', chain)
  BY <1>2, <1>3, GoneEarned
<1>8. Fewer(registry', registry)
  BY <1>5, <1>7 DEF Fewer
<1> QED
  BY <1>6, <1>7, <1>8

-----------------------------------------------------------------------------
\* A local connection is one more attempt, and is refused only if there were enough.
LEMMA LocalEarned ==
  ASSUME NoWrap, TypeOK, NEW e \in Entry, e.connected + 1 # ConnMod, NEW t \in -1..MaxTime,
         NEW n \in 0..(AttMod - 1), Earned(e, t, n)
  PROVE  /\ Earned(ip_registry_check_local(e).entry, now, Chained(t, n))
         /\ ~ip_registry_check_local(e).ok => Chained(t, n) >= LIMIT
<1>1. NOW = Start + now /\ Start \in Nat /\ now \in 0..MaxTime
  BY NowIs DEF TypeOK
<1>2. Chained(t, n) \in Nat /\ Chained(t, n) >= 1
  BY <1>1, IPcheckConstants DEF Chained
<1>3. CASE ~e.here
  <2>1. ip_registry_check_local(e) = [ok |-> TRUE, entry |-> ip_registry_new_entry]
    BY <1>3 DEF ip_registry_check_local
  <2>2. ip_registry_new_entry.last = NOW /\ ip_registry_new_entry.attempts = 1
    BY DEF ip_registry_new_entry
  <2> QED
    BY <1>1, <1>2, <2>1, <2>2 DEF Earned
<1>4. CASE e.here
  <2> DEFINE f == Attempt(e)
             ok == f.attempts < LIMIT \/ now <= DELAY
             g == IF ok THEN [f EXCEPT !.connected = @ + 1] ELSE f
  <2>1. ip_registry_check_local(e) = [ok |-> ok, entry |-> g]
    BY <1>4 DEF ip_registry_check_local
  <2>2. f \in Entry
    BY AttemptType
  <2>3. Earned(f, now, Chained(t, n)) /\ f.attempts <= Chained(t, n)
    BY <1>4, AttemptEarned
  <2> HIDE DEF f
  <2>4. g.here = f.here /\ g.last = f.last /\ g.attempts = f.attempts
    BY <2>2 DEF Entry
  <2>5. ~ok => Chained(t, n) >= LIMIT
    BY <1>2, <2>2, <2>3, IPcheckConstants DEF Entry
  <2>6. Earned(g, now, Chained(t, n))
    BY <2>3, <2>4 DEF Earned
  <2> HIDE DEF g, ok
  <2> QED
    BY <2>1, <2>5, <2>6
<1> QED
  BY <1>3, <1>4

\* So is one that is charged to a new address (WEBIRC, IAuth).
LEMMA RemoteEarned ==
  ASSUME NoWrap, TypeOK, NEW e \in Entry, e.connected + 1 < ConnMod, NEW t \in -1..MaxTime,
         NEW n \in 0..(AttMod - 1), Earned(e, t, n)
  PROVE  Earned(ip_registry_check_remote(e, FALSE), now, Chained(t, n))
<1>1. NOW = Start + now /\ Start \in Nat /\ now \in 0..MaxTime
  BY NowIs DEF TypeOK
<1>2. Chained(t, n) \in Nat /\ Chained(t, n) >= 1
  BY <1>1, IPcheckConstants DEF Chained
<1>3. CASE ~e.here
  <2>1. ip_registry_check_remote(e, FALSE) = ip_registry_new_entry
    BY <1>3 DEF ip_registry_check_remote
  <2>2. ip_registry_new_entry.last = NOW /\ ip_registry_new_entry.attempts = 1
    BY DEF ip_registry_new_entry
  <2>3. Earned(ip_registry_new_entry, now, Chained(t, n))
    BY <1>1, <1>2, <2>2 DEF Earned
  <2> QED
    BY <2>1, <2>3, Zenon
<1>4. CASE e.here
  <2> DEFINE k == (e.connected + 1) % ConnMod
             f == [e EXCEPT !.connected = k]
  <2>1. e.connected \in Nat /\ k = e.connected + 1
    BY IPcheckConstants DEF Entry
  <2> HIDE DEF k
  <2>2. k \in 0..(ConnMod - 1) /\ k # 0
    BY <2>1, IPcheckConstants
  <2>3. f \in Entry /\ f.here /\ f.last = e.last /\ f.attempts = e.attempts /\ f.connected = k
    BY <1>4, <2>2, Zenon DEF Entry
  <2>4. ip_registry_check_remote(e, FALSE) = Attempt(f)
    BY <1>4, <2>2, <2>3 DEF ip_registry_check_remote, k
  <2> HIDE DEF f
  <2>5. Earned(f, t, n)
    BY <1>4, <2>3 DEF Earned
  <2> QED
    BY <2>3, <2>4, <2>5, AttemptEarned, Zenon
<1> QED
  BY <1>3, <1>4, Zenon

-----------------------------------------------------------------------------
\* The steps.  What was not misused after one was not before, so it is enough to follow the
\* registry and its history.
LEMMA DeservedBy ==
  ASSUME Deserved, aborted \subseteq aborted', now' = now,
         AllEarned(registry, touched, chain) => AllEarned(registry', touched', chain')
  PROVE  Deserved'
<1>1. ~Misused' => ~Misused
  BY Zenon DEF Misused
<1>2. AllEarned(registry', touched', chain') => AllEarned(registry, touched, chain)'
  BY DEF AllEarned, Earned
<1> QED
  BY <1>1, <1>2, Zenon DEF Deserved

\* A client exits.
LEMMA ExitDeserved ==
  ASSUME TInv, NoWrap, NEW c \in Clients, exit_one_client(c)
  PROVE  Deserved'
<1>1. /\ Live(c) /\ Disconnect(c, registry) /\ now' = now /\ chain' = chain
  BY DEF exit_one_client
<1>2. registry \in [Addrs -> Entry] /\ \A b \in Addrs : Good(registry[b], b, Due(b))
  BY GoodEntries DEF TInv, IInv, TypeOK
<1>3. AllEarned(registry, touched, chain) => AllEarned(registry', touched', chain)
  BY <1>1, <1>2, GoneEarned, Zenon DEF TInv
<1>4. aborted \subseteq aborted'
  BY <1>1, Zenon DEF Disconnect
<1> QED
  BY <1>1, <1>3, <1>4, DeservedBy, Zenon DEF TInv

\* NICK or a failed authorisation ends a connection.
LEMMA FailDeserved ==
  ASSUME IInv, NEW c \in Clients, override_nick(c) \/ preregister_error(c)
  PROVE  /\ Fewer(registry', registry) /\ clients[c].addr \in Addrs
         /\ NoWrap /\ AllEarned(registry, touched, chain) => AllEarned(registry', touched', chain')
         /\ aborted \subseteq aborted' /\ now' = now
<1>1. /\ Live(c) /\ now' = now /\ chain' = chain
  BY DEF override_nick, preregister_error, IsUnknown, Live
<1>2. clients[c].addr \in Addrs
  BY <1>1 DEF IInv, ClientsOK, Live
<1>3. ASSUME NEW fail \in BOOLEAN, fail => IsIPChecked(c),
             Disconnect(c, IF fail THEN [registry EXCEPT ![clients[c].addr] =
                                           ip_registry_connect_fail(@, FALSE)]
                           ELSE registry)
      PROVE  /\ Fewer(registry', registry)
             /\ NoWrap /\ AllEarned(registry, touched, chain) => AllEarned(registry', touched', chain)
             /\ aborted \subseteq aborted'
  <2>1. aborted \subseteq aborted'
    BY <1>3, Zenon DEF Disconnect
  <2> QED
    BY <1>1, <1>3, <2>1, FailThenGone, Zenon
<1>4. CASE override_nick(c)
  <2> DEFINE fail == find_except_conf(c, clients[c].addr) = "counted"
  <2>1. /\ fail => IsIPChecked(c)
        /\ Disconnect(c, IF fail THEN [registry EXCEPT ![clients[c].addr] =
                                         ip_registry_connect_fail(@, FALSE)]
                         ELSE registry)
    BY <1>4, Zenon DEF override_nick
  <2> HIDE DEF fail
  <2>2. fail \in BOOLEAN
    BY DEF fail
  <2> QED
    BY <1>1, <1>2, <1>3, <2>1, <2>2, Zenon
<1>5. CASE preregister_error(c)
  <2>1. Disconnect(c, IF IsIPChecked(c) THEN [registry EXCEPT ![clients[c].addr] =
                                                ip_registry_connect_fail(@, FALSE)]
                      ELSE registry)
    BY <1>5, Zenon DEF preregister_error
  <2>2. IsIPChecked(c) \in BOOLEAN
    BY DEF IsIPChecked, IInv, TypeOK, Client
  <2> QED
    BY <1>1, <1>2, <1>3, <2>1, <2>2, Zenon
<1> QED
  BY <1>4, <1>5

\* A failure that is not the client's is not held against its address.
LEMMA NoPenalty ==
  ASSUME IInv
  PROVE  FailNeverPenalizes
  BY FailDeserved DEF FailNeverPenalizes, Fewer

\* Registration leaves the registry and its history alone; after a release of what was never
\* charged nothing is claimed.
LEMMA RegisterDeserved ==
  ASSUME TInv, NEW c \in Clients,
         register_local(c) \/ (\E a \in Addrs : register_remote(c, a)) \/ override_nick_uncharged(c)
  PROVE  Deserved'
<1>1. CASE override_nick_uncharged(c)
  <2>1. Misused'
    BY <1>1, Zenon DEF override_nick_uncharged, Misused
  <2> QED
    BY <2>1, Zenon DEF Deserved
<1>2. CASE register_local(c) \/ \E a \in Addrs : register_remote(c, a)
  <2>1. registry' = registry /\ touched' = touched /\ chain' = chain /\ now' = now /\ aborted \subseteq aborted'
    <3>1. ~FreeClient.checked
      BY DEF FreeClient
    <3> QED
      BY <1>2, <3>1, Zenon DEF register_local, register_remote
  <2> QED
    BY <2>1, DeservedBy DEF TInv
<1> QED
  BY <1>1, <1>2, Zenon

\* So do REHASH and the clock.
LEMMA WaitDeserved ==
  ASSUME TInv, rehash \/ Tick \/ UNCHANGED vars
  PROVE  Deserved'
<1>1. CASE Tick
  <2>1. /\ registry' = registry /\ touched' = touched /\ chain' = chain /\ aborted' = aborted
        /\ now' = now + 1 /\ now \in Nat
    BY <1>1 DEF Tick, history, TInv, IInv, TypeOK
  <2>2. Misused' <=> Misused
    BY <2>1 DEF Misused
  <2>3. ASSUME NEW b \in Addrs, Earned(registry[b], touched[b], chain[b])
        PROVE  Earned(registry[b], touched[b], chain[b])'
    BY <2>1, <2>3 DEF Earned
  <2>4. AllEarned(registry, touched, chain) => AllEarned(registry, touched, chain)'
    BY <2>3, Zenon DEF AllEarned
  <2> QED
    BY <2>2, <2>4, Zenon DEF TInv, Deserved
<1>2. CASE rehash \/ UNCHANGED vars
  <2>1. registry' = registry /\ touched' = touched /\ chain' = chain /\ now' = now /\ aborted' = aborted
    BY <1>2, Zenon DEF rehash, history, vars
  <2> QED
    BY <2>1, DeservedBy DEF TInv
<1> QED
  BY <1>1, <1>2, Zenon

\* An entry that expires leaves nothing that could be too strict.
LEMMA ExpireDeserved ==
  ASSUME TInv, ip_registry_expire
  PROVE  Deserved'
<1>1. touched' = touched /\ chain' = chain /\ now' = now /\ aborted' = aborted
  BY DEF ip_registry_expire, history
<1>2. ASSUME NEW b \in Addrs, Earned(registry[b], touched[b], chain[b])
      PROVE  Earned(registry'[b], touched[b], chain[b])
  <2> DEFINE e == registry[b]
             f == ip_registry_expire_entry(e)
  <2>1. e \in Entry
    BY DEF TInv, IInv, TypeOK
  <2>2. f.here => f.last = e.last /\ f.attempts = e.attempts /\ e.here
    BY <2>1 DEF ip_registry_expire_entry, NoEntry, Entry
  <2>3. registry'[b] \in {e, f}
    BY DEF ip_registry_expire
  <2> HIDE DEF e, f
  <2>4. Earned(e, touched[b], chain[b])
    BY <1>2 DEF e
  <2> QED
    BY <2>2, <2>3, <2>4 DEF Earned
<1>3. AllEarned(registry, touched, chain) => AllEarned(registry', touched', chain')
  BY <1>1, <1>2 DEF AllEarned
<1> QED
  BY <1>1, <1>3, DeservedBy DEF TInv

\* One address with a new entry and one more attempt in its history.
LEMMA OneMore ==
  ASSUME TypeOK, NEW a \in Addrs, NEW r \in [Addrs -> Entry], NEW e,
         AllEarned(r, touched, chain), registry' = [r EXCEPT ![a] = e], RecordAttempt(a),
         Earned(e, now, Chained(touched[a], chain[a]))
  PROVE  AllEarned(registry', touched', chain')
<1>1. /\ touched'[a] = now /\ chain'[a] = Chained(touched[a], chain[a])
      /\ \A b \in Addrs : b # a => touched'[b] = touched[b] /\ chain'[b] = chain[b]
  BY DEF TypeOK, RecordAttempt, Chained
<1>2. registry'[a] = e /\ \A b \in Addrs : b # a => registry'[b] = r[b]
  BY Zenon
<1>3. ASSUME NEW b \in Addrs
      PROVE  Earned(registry'[b], touched'[b], chain'[b])
  <2>1. CASE b = a
    BY <1>1, <1>2, <2>1
  <2>2. CASE b # a
    BY <1>1, <1>2, <2>2 DEF AllEarned
  <2> QED
    BY <2>1, <2>2
<1> QED
  BY <1>3, Zenon DEF AllEarned

\* A connection is accepted: who is refused made the attempts for it.
LEMMA AddDeserved ==
  ASSUME TInv, NoOverflow, NoWrap, NEW c \in Clients, NEW a \in Addrs, add_connection(c, a)
  PROVE  /\ Deserved'
         /\ refused' # NoAddr /\ ~Misused' => chain'[refused'] >= LIMIT
<1> DEFINE byIP == find_except_conf_by_ip(a)
           res == ip_registry_check_local(registry[a])
           full == registry[a].connected + 1 = ConnMod
           f == ip_registry_connect_fail(res.entry, TRUE)
<1>1. /\ ~Live(c) /\ now' = now /\ aborted' = aborted
      /\ byIP => registry' = registry /\ touched' = touched /\ chain' = chain /\ refused' = NoAddr
      /\ ~byIP /\ ~full => RecordAttempt(a)
      /\ ~byIP => \/ registry' = [registry EXCEPT ![a] = res.entry]
                  \/ registry' = [registry EXCEPT ![a] = f]
      /\ refused' = NoAddr \/ (refused' = a /\ ~res.ok /\ ~byIP)
  BY Zenon DEF add_connection
<1>2. ~clients[c].checked
  BY <1>1 DEF TInv, IInv, ClientsOK, Live
<1>3. /\ registry[a].connected + 1 < ConnMod
      /\ ~registry[a].here => registry[a].connected = 0
  BY <1>2, Room DEF Charged, TInv
<1>4. registry[a] \in Entry /\ registry \in [Addrs -> Entry] /\ touched[a] \in -1..MaxTime
      /\ chain[a] \in 0..(AttMod - 1) /\ TypeOK
  BY DEF TInv, IInv, TypeOK
<1>5. registry[a].connected + 1 # ConnMod
  BY <1>3, <1>4, IPcheckConstants DEF Entry
<1>6. CASE byIP
  BY <1>1, <1>6, DeservedBy DEF TInv
<1>7. CASE ~byIP
  <2> DEFINE n == Chained(touched[a], chain[a])
  <2>1. Misused' <=> Misused
    BY <1>1, Zenon DEF Misused
  <2>2. ASSUME AllEarned(registry, touched, chain)
        PROVE  /\ AllEarned(registry', touched', chain')
               /\ ~res.ok => n >= LIMIT
    <3>1. Earned(registry[a], touched[a], chain[a])
      BY <2>2, Zenon DEF AllEarned
    <3>2. Earned(res.entry, now, n) /\ (~res.ok => n >= LIMIT)
      BY <1>4, <1>5, <3>1, LocalEarned, Zenon
    <3>3. res.entry \in Entry /\ res.entry.here /\ res.entry.attempts > 0
      BY <1>3, <1>4, CheckLocal
    <3> HIDE DEF res
    <3>4. /\ f.here = res.entry.here /\ f.last = res.entry.last
          /\ f.attempts \in Nat /\ f.attempts <= res.entry.attempts
      BY <1>4, <3>3, FailEarned, Zenon
    <3>5. n \in Nat /\ res.entry.attempts \in Nat
      BY <1>4, <3>3, IPcheckConstants DEF Chained, Entry
    <3> HIDE DEF f, n
    <3>6. Earned(f, now, n)
      BY <3>2, <3>3, <3>4, <3>5 DEF Earned
    <3> QED
      BY <1>1, <1>4, <1>5, <1>7, <2>2, <3>2, <3>6, OneMore, Zenon DEF n
  <2>3. Deserved'
    BY <1>1, <2>2, DeservedBy, Zenon DEF TInv
  <2>4. ASSUME refused' # NoAddr, ~Misused'
        PROVE  chain'[refused'] >= LIMIT
    <3>1. refused' = a /\ n >= LIMIT
      BY <1>1, <2>1, <2>2, <2>4, Zenon DEF TInv, Deserved
    <3>2. chain'[a] = n
      BY <1>1, <1>4, <1>5, <1>7 DEF RecordAttempt, Chained, TypeOK
    <3> QED
      BY <3>1, <3>2
  <2> QED
    BY <2>3, <2>4, Zenon
<1> QED
  BY <1>6, <1>7, Zenon

\* WEBIRC or IAuth gives a client another address.
LEMMA ChangeDeserved ==
  ASSUME TInv, NoOverflow, NoWrap, NEW c \in Clients, NEW a \in Addrs, change_address(c, a)
  PROVE  Deserved'
<1>1. PICK old \in Addrs : old = clients[c].addr
  BY Zenon DEF TInv, IInv, ClientsOK, change_address, IsUnknown
<1> DEFINE was == IsIPChecked(c)
           f == ip_registry_connect_fail(registry[old], TRUE)
           failed == [registry EXCEPT ![old] = f]
           mid == IF was THEN failed ELSE registry
           new == find_except_conf(c, a) = "counted"
<1>2. /\ registry' = IF new /\ a \notin Invalid
                     THEN [mid EXCEPT ![a] = ip_registry_check_remote(mid[a], FALSE)]
                     ELSE mid
      /\ IF new /\ a \notin Invalid THEN RecordAttempt(a)
         ELSE UNCHANGED <<touched, chain>>
      /\ aborted \subseteq aborted' /\ now' = now
  BY <1>1, Zenon DEF change_address
<1>3. registry \in [Addrs -> Entry] /\ registry[old] \in Entry /\ TypeOK /\ IInv
  BY DEF TInv, IInv, TypeOK
<1>4. \A b \in Addrs : Good(registry[b], b, Due(b))
  BY <1>3, GoodEntries
<1>5. was => /\ registry[old].here => registry[old].attempts > 0 /\ registry[old].connected > 0
             /\ c \in Charged(old)
  <2>1. CASE old \in Invalid
    BY <1>1, <1>3, <2>1 DEF IInv, InvalidAbsent, Charged, IsIPChecked
  <2>2. CASE old \notin Invalid
    BY <1>1, <1>3, <1>4, <2>2, ChargedEntry DEF Charged, IsIPChecked
  <2> QED
    BY <2>1, <2>2
<1>6. was => /\ f \in Entry /\ f.here = registry[old].here /\ f.last = registry[old].last
             /\ f.attempts \in Nat /\ f.attempts <= registry[old].attempts
             /\ f.connected = IF registry[old].here THEN registry[old].connected - 1
                              ELSE registry[old].connected
  <2>1. was => /\ f \in Entry
               /\ f.connected = IF registry[old].here THEN registry[old].connected - 1
                                ELSE registry[old].connected
    BY <1>3, <1>5, ConnectFail, Zenon
  <2>2. was => /\ f.here = registry[old].here /\ f.last = registry[old].last
               /\ f.attempts \in Nat /\ f.attempts <= registry[old].attempts
    BY <1>3, <1>5, FailEarned, Zenon
  <2> QED
    BY <2>1, <2>2, Zenon
<1> HIDE DEF f
<1>7. was => failed \in [Addrs -> Entry] /\ failed[old] = f /\ \A b \in Addrs : b # old => failed[b] = registry[b]
  BY <1>3, <1>6, Zenon
<1> HIDE DEF failed
<1>8. mid \in [Addrs -> Entry]
  BY <1>3, <1>7, Zenon
<1>9. mid[a].connected + 1 < ConnMod
  <2>1. CASE was /\ a = old
    BY <1>3, <1>4, <1>5, <1>6, <1>7, <2>1, IPcheckConstants DEF Entry, Good
  <2>2. CASE ~(was /\ a = old)
    <3>1. c \notin Charged(a)
      BY <1>1, <2>2, Zenon DEF Charged, IsIPChecked
    <3>2. mid[a] = registry[a]
      BY <1>7, <2>2, Zenon
    <3> QED
      BY <1>3, <3>1, <3>2, Room
  <2> QED
    BY <2>1, <2>2
<1>10. ASSUME AllEarned(registry, touched, chain)
       PROVE  AllEarned(mid, touched, chain)
  <2>1. CASE ~was
    BY <1>10, <2>1
  <2>2. CASE was
    <3>1. Earned(registry[old], touched[old], chain[old])
      BY <1>10, Zenon DEF AllEarned
    <3>2. chain[old] \in Nat /\ registry[old].attempts \in Nat
      BY <1>3, IPcheckConstants DEF TypeOK, Entry
    <3>3. Earned(f, touched[old], chain[old])
      <4>1. /\ f.here = registry[old].here /\ f.last = registry[old].last
            /\ f.attempts \in Nat /\ f.attempts <= registry[old].attempts
        BY <1>6, <2>2, Zenon
      <4> QED
        BY <3>1, <3>2, <4>1 DEF Earned
    <3> QED
      BY <1>7, <1>10, <2>2, <3>3, Zenon DEF AllEarned
  <2> QED
    BY <2>1, <2>2
<1> HIDE DEF mid, was
<1>11. CASE new /\ a \notin Invalid
  <2> DEFINE g == ip_registry_check_remote(mid[a], FALSE)
  <2>1. registry' = [mid EXCEPT ![a] = g] /\ RecordAttempt(a)
    BY <1>2, <1>11, Zenon
  <2>2. touched[a] \in -1..MaxTime /\ chain[a] \in 0..(AttMod - 1) /\ mid[a] \in Entry
    BY <1>3, <1>8 DEF TypeOK
  <2>3. ASSUME AllEarned(registry, touched, chain)
        PROVE  AllEarned(registry', touched', chain')
    <3>1. AllEarned(mid, touched, chain) /\ Earned(mid[a], touched[a], chain[a])
      BY <1>10, <2>3, Zenon DEF AllEarned
    <3>2. Earned(g, now, Chained(touched[a], chain[a]))
      BY <1>3, <1>9, <2>2, <3>1, RemoteEarned, Zenon
    <3> HIDE DEF g
    <3> QED
      BY <1>3, <1>8, <2>1, <3>1, <3>2, OneMore, Zenon
  <2> QED
    BY <1>2, <2>3, DeservedBy, Zenon DEF TInv
<1>12. CASE ~(new /\ a \notin Invalid)
  <2>1. registry' = mid /\ touched' = touched /\ chain' = chain
    BY <1>2, <1>12, Zenon
  <2> QED
    BY <1>2, <1>10, <2>1, DeservedBy, Zenon DEF TInv
<1> QED
  BY <1>11, <1>12

-----------------------------------------------------------------------------
\* Nobody has been seen yet.
LEMMA InitTInv ==
  ASSUME Init
  PROVE  TInv
<1>1. \A a \in Addrs : ~registry[a].here
  BY DEF Init, NoEntry
<1> QED
  BY <1>1, InitIInv DEF TInv, Deserved, AllEarned, Earned

\* Every step keeps the invariant.
LEMMA StepTInv ==
  ASSUME TInv, NoOverflow, NoWrap, [Next]_vars
  PROVE  TInv'
<1>1. IInv'
  BY StepIInv DEF TInv
<1>2. CASE UNCHANGED vars \/ rehash \/ Tick \/ ip_registry_expire
  BY <1>1, <1>2, WaitDeserved, ExpireDeserved, Zenon DEF TInv
<1>3. ASSUME NEW c \in Clients,
             \/ exit_one_client(c) \/ override_nick(c) \/ override_nick_uncharged(c)
             \/ preregister_error(c) \/ register_local(c)
             \/ \E a \in Addrs : add_connection(c, a) \/ change_address(c, a) \/ register_remote(c, a)
      PROVE  TInv'
  <2>1. CASE exit_one_client(c)
    BY <1>1, <2>1, ExitDeserved, Zenon DEF TInv
  <2>2. CASE override_nick(c) \/ preregister_error(c)
    BY <1>1, <2>2, FailDeserved, DeservedBy, Zenon DEF TInv
  <2>3. CASE override_nick_uncharged(c) \/ register_local(c) \/ \E a \in Addrs : register_remote(c, a)
    BY <1>1, <2>3, RegisterDeserved, Zenon DEF TInv
  <2>4. CASE \E a \in Addrs : add_connection(c, a) \/ change_address(c, a)
    BY <1>1, <2>4, AddDeserved, ChangeDeserved, Zenon DEF TInv
  <2> QED
    BY <1>3, <2>1, <2>2, <2>3, <2>4, Zenon
<1> QED
  BY <1>2, <1>3, Zenon DEF Next

\* Every step is fair.
LEMMA StepFair ==
  ASSUME TInv, NoOverflow, NoWrap, Next
  PROVE  ThrottleNeedsAttempts' /\ FailNeverPenalizes
<1>1. FailNeverPenalizes
  BY NoPenalty DEF TInv
<1>2. refused' = NoAddr => ThrottleNeedsAttempts'
  BY Zenon DEF ThrottleNeedsAttempts
<1>3. ASSUME NEW c \in Clients, NEW a \in Addrs, add_connection(c, a)
      PROVE  ThrottleNeedsAttempts'
  BY <1>3, AddDeserved, Zenon DEF ThrottleNeedsAttempts, Misused
<1>4. \/ refused' = NoAddr
      \/ \E c \in Clients, a \in Addrs : add_connection(c, a)
  BY Zenon DEF Next, exit_one_client, override_nick, override_nick_uncharged, preregister_error,
     register_local, change_address, register_remote, ip_registry_expire, rehash, Tick
<1> QED
  BY <1>1, <1>2, <1>3, <1>4, Zenon

\* A connection is throttled only after as many attempts as the limit says, each soon after the
\* one before, and a failure that is not the client's fault is never counted as an attempt,
\* whatever clients, addresses, limits and changes of the Except blocks there are; provided that
\* the counter of clients and the 16 bits of the clock (IPcheck.c, NOW) do not wrap.
THEOREM ThrottlingIsFair ==
  ASSUME NoOverflow, NoWrap
  PROVE  Spec => ThrottleFair
<1>1. Init => TInv
  BY InitTInv
<1>2. TInv /\ [Next]_vars => TInv'
  BY StepTInv
<1>3. TInv /\ [Next]_vars => [ThrottleNeedsAttempts' /\ FailNeverPenalizes]_vars
  BY StepFair
<1> QED
  BY <1>1, <1>2, <1>3, PTL DEF Spec, ThrottleFair
=============================================================================
