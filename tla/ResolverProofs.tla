--------------------------- MODULE ResolverProofs ---------------------------
(* Proofs about the resolver, for any callers, ids, replies and number of     *)
(* lookups: each caller that waits has one request, no two requests have the  *)
(* same id, and the timer is never put on the queue.                          *)
EXTENDS Resolver, FiniteSetTheorems, TLAPS

\* What LookupsTracked rests on.  A request belongs to a caller that waits, and is its only
\* one; a caller that waits has one, unless the assertion of res_readreply has failed; and the
\* timer is as it was when the program started.
Tracked ==
  /\ ResolverTypeOK
  /\ \A r \in requests : pending[r.ctx]
  /\ \A r, q \in requests : r.ctx = q.ctx => r = q
  /\ ~resolverAborted => \A c \in Contexts : pending[c] => \E r \in requests : r.ctx = c
  /\ UniqueIds
  /\ res_timeout = [queued |-> FALSE, expire |-> 0]

\* The requests rs, without two that have a caller or an id in common.
Separate(rs) ==
  /\ rs \subseteq Request
  /\ \A r, q \in rs : r.ctx = q.ctx => r = q
  /\ \A r, q \in rs : r.id = q.id /\ r.sends > 0 /\ q.sends > 0 => r = q

\* The outcome o of a query: one more request, of the same caller, with its old id or a new one.
Outcome(rs, r, type, o) ==
  /\ \E q \in Request :
       /\ o.reqs = rs \cup {q}
       /\ q.ctx = r.ctx /\ q.type = type
       /\ q.sends > 0 => \/ q.id = r.id /\ q.sends = r.sends
                         \/ \A p \in rs : p.id # q.id
  /\ o.ids \subseteq Ids
  /\ \A d \in o.due : d \in Nat /\ d > 0

\* What query_name makes of a request, and when it is due if it was sent: the caller is the
\* same, and the id is new if there is one.
LEMMA QueryOutcome ==
  ASSUME NEW rs \in SUBSET Request, NEW r \in Request, NEW type \in {"A", "AAAA", "PTR"},
         NEW o \in Query(rs, r, type)
  PROVE  Outcome(rs, r, type, o)
<1>1. CASE \E id \in FreeId(rs \cup {r}), ok \in BOOLEAN :
             o = [reqs |-> rs \cup {Sent(r, type, id, ok)}, ids |-> IF ok THEN {id} ELSE {},
                  due |-> {r.sentat + r.timeout}]
  <2>1. PICK id \in FreeId(rs \cup {r}), ok \in BOOLEAN :
             o = [reqs |-> rs \cup {Sent(r, type, id, ok)}, ids |-> IF ok THEN {id} ELSE {},
                  due |-> {r.sentat + r.timeout}]
    BY <1>1, Zenon
  <2> DEFINE q == Sent(r, type, id, ok)
  <2>2. id \in Ids /\ \A p \in rs : p.id # id
    BY <2>1 DEF FreeId, find_id
  <2>3. q \in Request /\ q.ctx = r.ctx /\ q.type = type /\ q.id = id
    <3> DEFINE n == IF ok THEN 1 ELSE 0
    <3>1. r.sends + 1 \in Nat /\ r.sent + n \in Nat
      BY DEF Request
    <3> HIDE DEF n
    <3>2. q = [r EXCEPT !.type = type, !.id = id, !.sends = r.sends + 1, !.sent = r.sent + n]
      BY DEF Sent, n
    <3> HIDE DEF q
    <3> QED
      BY <2>2, <3>1, <3>2, Zenon DEF Request
  <2>4. r.sentat + r.timeout \in Nat /\ r.sentat + r.timeout > 0
    BY ResolverConstants DEF Request
  <2> HIDE DEF q
  <2>5. o.reqs = rs \cup {q} /\ o.ids \subseteq Ids /\ o.due = {r.sentat + r.timeout}
    BY <2>1, <2>2 DEF q
  <2> QED
    BY <2>2, <2>3, <2>4, <2>5 DEF Outcome
<1>2. CASE o = [reqs |-> rs \cup {[r EXCEPT !.type = type]}, ids |-> {}, due |-> {}]
  <2> DEFINE q == [r EXCEPT !.type = type]
  <2>1. q \in Request /\ q.ctx = r.ctx /\ q.type = type /\ q.id = r.id /\ q.sends = r.sends
    BY DEF Request
  <2> HIDE DEF q
  <2>2. o.reqs = rs \cup {q} /\ o.ids = {} /\ o.due = {}
    BY <1>2 DEF q
  <2> QED
    BY <2>1, <2>2 DEF Outcome
<1>3. \/ \E id \in FreeId(rs \cup {r}), ok \in BOOLEAN :
           o = [reqs |-> rs \cup {Sent(r, type, id, ok)}, ids |-> IF ok THEN {id} ELSE {},
                due |-> {r.sentat + r.timeout}]
      \/ o = [reqs |-> rs \cup {[r EXCEPT !.type = type]}, ids |-> {}, due |-> {}]
  <2> DEFINE Out(id, ok) == [reqs |-> rs \cup {Sent(r, type, id, ok)},
                             ids |-> IF ok THEN {id} ELSE {}, due |-> {r.sentat + r.timeout}]
             none == [reqs |-> rs \cup {[r EXCEPT !.type = type]}, ids |-> {}, due |-> {}]
  <2>1. o \in {Out(id, ok) : id \in FreeId(rs \cup {r}), ok \in BOOLEAN} \cup {none}
    BY SMTT(30) DEF Query
  <2>2. ASSUME o \notin {none}
        PROVE  \E id \in FreeId(rs \cup {r}), ok \in BOOLEAN : o = Out(id, ok)
    <3> HIDE DEF Out, none
    <3> QED
      BY <2>1, <2>2, SMT
  <2> QED
    BY <2>2
<1> QED
  BY <1>1, <1>2, <1>3, Zenon

\* Requests stay apart when one is added whose caller has none, and whose id is its own.
LEMMA SeparateAdd ==
  ASSUME NEW rs, Separate(rs), NEW q \in Request,
         \A p \in rs : p.ctx # q.ctx,
         q.sends > 0 => \A p \in rs : p.sends > 0 => p.id # q.id
  PROVE  Separate(rs \cup {q})
  BY DEF Separate

\* proc_answer changes neither the caller nor what was sent.
LEMMA AnswerKeeps ==
  ASSUME NEW r \in Request, NEW rrs \in Answers
  PROVE  LET a == proc_answer(r, rrs)
         IN  /\ a.r \in Request /\ a.count \in {0, 1}
             /\ a.r.ctx = r.ctx /\ a.r.id = r.id /\ a.r.sends = r.sends /\ a.r.type = r.type
<1> DEFINE ends == {i \in DOMAIN rrs : Ends(r, rrs, i)}
           last == IF ends = {} THEN Len(rrs) + 1 ELSE Min(ends)
           type == IF ends = {} THEN "none" ELSE rrs[last]
           q == IF \E j \in 1 .. last - 1 : rrs[j] = "CNAME" THEN [r EXCEPT !.state = "CNAME"] ELSE r
           a == proc_answer(r, rrs)
<1>1. /\ q \in Request
      /\ q.ctx = r.ctx /\ q.id = r.id /\ q.sends = r.sends /\ q.type = r.type
  BY DEF Request
<1> HIDE DEF type, q
<1>3. a = CASE type = "BROKEN" \/ (type \in {"A", "AAAA", "PTR"} /\ type # r.type) ->
             [r |-> q, count |-> 0]
        [] type \in {"A", "AAAA"} /\ type = r.type -> [r |-> [q EXCEPT !.addr = "answer"], count |-> 1]
        [] type = "PTR" /\ type = r.type -> [r |-> [q EXCEPT !.name = "answer"], count |-> 1]
        [] OTHER -> [r |-> q, count |-> 1]
  BY DEF proc_answer, type, q
<1>4. \/ a = [r |-> q, count |-> 0]
      \/ a = [r |-> q, count |-> 1]
      \/ a = [r |-> [q EXCEPT !.addr = "answer"], count |-> 1]
      \/ a = [r |-> [q EXCEPT !.name = "answer"], count |-> 1]
  BY <1>3
<1> QED
  BY <1>1, <1>4 DEF Request

\* The request r may join the requests rs.
Joins(rs, r) ==
  /\ Separate(rs) /\ r \in Request
  /\ \A p \in rs : p.ctx # r.ctx
  /\ r.sends > 0 => \A p \in rs : p.sends > 0 => p.id # r.id

\* What Follow does with the outcome o, apart from the requests.
Applied(o) ==
  /\ asked' = asked \cup o.ids
  /\ res_timeout' = IF o.due = {} THEN res_timeout
                    ELSE check_resolver_timeout(CHOOSE d \in o.due : TRUE, res_timeout)

\* The requests reqs are those of rs and one of r's caller, and the timer is left alone.
Joined(rs, r, type, reqs) ==
  /\ \E q \in Request : reqs = rs \cup {q} /\ q.ctx = r.ctx /\ q.type = type
  /\ Separate(reqs)
  /\ asked' \subseteq Ids /\ res_timeout' = res_timeout

\* check_resolver_timeout leaves the timer alone: t_expire is 0, and the time is later.
LEMMA TimerLeft ==
  ASSUME Tracked, NEW rs, NEW r, NEW type, NEW o, Outcome(rs, r, type, o), Applied(o)
  PROVE  asked' \subseteq Ids /\ res_timeout' = res_timeout
<1>1. asked' \subseteq Ids
  BY DEF Tracked, ResolverTypeOK, Outcome, Applied
<1>2. CASE o.due # {}
  <2>1. (CHOOSE d \in o.due : TRUE) \in o.due
    BY <1>2
  <2>2. (CHOOSE d \in o.due : TRUE) > 0
    BY <2>1 DEF Outcome
  <2> QED
    BY <1>1, <1>2, <2>2 DEF check_resolver_timeout, Applied, Tracked
<1> QED
  BY <1>1, <1>2 DEF Applied

\* A query that is sent, or cannot be, adds one request of the same caller to the others and
\* keeps them apart.
LEMMA FollowQuery ==
  ASSUME Tracked, NEW rs, NEW r, Joins(rs, r), NEW type \in {"A", "AAAA", "PTR"},
         NEW o \in Query(rs, r, type), Applied(o)
  PROVE  Joined(rs, r, type, o.reqs)
<1>1. r \in Request /\ Separate(rs) /\ rs \in SUBSET Request
  BY DEF Joins, Separate
<1>2. Outcome(rs, r, type, o)
  BY <1>1, QueryOutcome, Zenon
<1>3. PICK q \in Request :
        /\ o.reqs = rs \cup {q}
        /\ q.ctx = r.ctx /\ q.type = type
        /\ q.sends > 0 => \/ q.id = r.id /\ q.sends = r.sends
                          \/ \A p \in rs : p.id # q.id
  BY <1>2 DEF Outcome
<1>4. Separate(rs \cup {q})
  <2>1. q.sends > 0 => \A p \in rs : p.sends > 0 => p.id # q.id
    BY <1>3 DEF Joins
  <2>2. \A p \in rs : p.ctx # q.ctx
    BY <1>3 DEF Joins
  <2> QED
    BY <1>1, <2>1, <2>2, SeparateAdd
<1> QED
  BY <1>2, <1>3, <1>4, TimerLeft DEF Joined

\* The requests of do_query_name and do_query_number.
Named(c, state, name) == [make_request(c) EXCEPT !.state = state, !.name = name]

Numbered(c, state) == [make_request(c) EXCEPT !.state = state, !.addr = "own"]

\* New requests are within their types and have not been sent.
LEMMA NewRequest ==
  ASSUME ResolverTypeOK, NEW c \in Contexts, NEW state \in {"A", "AAAA", "PTR"},
         NEW name \in {"unset", "host", "answer"}
  PROVE  /\ Named(c, state, name) \in Request
         /\ Named(c, state, name).ctx = c /\ Named(c, state, name).sends = 0
         /\ Numbered(c, state) \in Request
         /\ Numbered(c, state).ctx = c /\ Numbered(c, state).sends = 0
<1> DEFINE z == make_request(c)
<1>1. /\ z \in [ctx : Contexts, id : Ids, sent : Nat, sends : Nat, state : {"IDLE"}, type : {"A"},
                sentat : 1 .. ResolverTime, timeout : Nat, addr : {"zero"}, name : {"unset"}]
      /\ z.ctx = c /\ z.sends = 0
  BY ResolverConstants DEF ResolverTypeOK, make_request
<1> HIDE DEF z
<1> DEFINE r == [z EXCEPT !.state = state, !.name = name]
           q == [z EXCEPT !.state = state, !.addr = "own"]
<1>2. /\ r \in Request /\ r.ctx = c /\ r.sends = 0
      /\ q \in Request /\ q.ctx = c /\ q.sends = 0
  BY <1>1, Zenon DEF Request
<1> QED
  BY <1>2 DEF z, Named, Numbered

\* The requests that are left when one is removed are apart.
LEMMA SeparateRest ==
  ASSUME Tracked, NEW r \in requests
  PROVE  /\ Separate(requests) /\ Separate(requests \ {r})
         /\ r \in Request
         /\ \A p \in requests \ {r} : p.ctx # r.ctx
         /\ r.sends > 0 => \A p \in requests \ {r} : p.sends > 0 => p.id # r.id
  BY DEF Tracked, Separate, UniqueIds, ResolverTypeOK

\* One request takes the place of another one of the same caller, who still waits.
LEMMA Replaced ==
  ASSUME Tracked, NEW r \in requests, NEW q \in Request, q.ctx = r.ctx,
         requests' = (requests \ {r}) \cup {q}, Separate(requests'),
         asked' \subseteq Ids, res_timeout' = res_timeout,
         UNCHANGED <<pending, result, lookups, resolverNow, resolverAborted>>
  PROVE  Tracked'
<1>1. ResolverTypeOK'
  BY DEF Tracked, ResolverTypeOK, Separate
<1>2. \A p \in requests' : pending'[p.ctx]
  BY DEF Tracked
<1>3. ~resolverAborted' => \A c \in Contexts : pending'[c] => \E p \in requests' : p.ctx = c
  BY DEF Tracked
<1> QED
  BY <1>1, <1>2, <1>3 DEF Tracked, Separate, UniqueIds

\* A request is done, and its caller is told.
LEMMA Done ==
  ASSUME Tracked, NEW r \in requests, NEW what \in {"failed", "zero", "answer", "own"},
         Callback(r, what), requests' = requests \ {r},
         UNCHANGED <<asked, res_timeout, lookups, resolverNow, resolverAborted>>
  PROVE  Tracked'
<1>1. r \in Request /\ r.ctx \in Contexts /\ Separate(requests')
  BY SeparateRest, Zenon DEF Request
<1>2. ResolverTypeOK'
  BY <1>1 DEF Tracked, ResolverTypeOK, Separate, Callback
<1>3. \A p \in requests' : pending'[p.ctx]
  BY <1>1, SeparateRest DEF Tracked, Callback, ResolverTypeOK, Request
<1>4. ~resolverAborted' => \A c \in Contexts : pending'[c] => \E p \in requests' : p.ctx = c
  BY <1>1 DEF Tracked, Callback, ResolverTypeOK
<1> QED
  BY <1>1, <1>2, <1>3, <1>4 DEF Tracked, Separate, UniqueIds

\* A query for a request that waits replaces it.
LEMMA Again ==
  ASSUME Tracked, NEW r \in requests, NEW q \in Request,
         q.ctx = r.ctx, q.id = r.id, q.sends = r.sends,
         NEW type \in {"A", "AAAA", "PTR"}, Follow(Query(requests \ {r}, q, type)),
         UNCHANGED <<pending, result, lookups, resolverNow, resolverAborted>>
  PROVE  Tracked'
<1> DEFINE rest == requests \ {r}
<1>1. Joins(rest, q)
  BY SeparateRest DEF Joins
<1>2. PICK o \in Query(rest, q, type) : requests' = o.reqs /\ Applied(o)
  BY Zenon DEF Follow, Applied
<1> HIDE DEF rest
<1>3. Joined(rest, q, type, o.reqs)
  BY <1>1, <1>2, FollowQuery
<1>4. PICK p \in Request : requests' = rest \cup {p} /\ p.ctx = r.ctx
  BY <1>2, <1>3 DEF Joined
<1>5. requests' = (requests \ {r}) \cup {p} /\ p.ctx = r.ctx
  BY <1>4, Zenon DEF rest
<1>6. Separate(requests') /\ asked' \subseteq Ids /\ res_timeout' = res_timeout
  BY <1>2, <1>3, Zenon DEF Joined
<1> QED
  BY <1>5, <1>6, Replaced, Zenon

\* start_dns_query, conf_dns_lookup and connect_server: a caller that does not wait has no
\* request, and gets one.
LEMMA LookupKeeps ==
  ASSUME Tracked, NEW c \in Contexts, Lookup(c)
  PROVE  Tracked'
<1> DEFINE byname == Named(c, "AAAA", "host")
           bynumber == Numbered(c, "PTR")
<1>1. ResolverTypeOK /\ ~pending[c] /\ (\A p \in requests : p.ctx # c) /\ Separate(requests)
  BY DEF Tracked, Lookup, Separate, UniqueIds, ResolverTypeOK
<1>2. /\ byname \in Request /\ byname.ctx = c /\ byname.sends = 0
      /\ bynumber \in Request /\ bynumber.ctx = c /\ bynumber.sends = 0
  <2>1. /\ "AAAA" \in {"A", "AAAA", "PTR"} /\ "PTR" \in {"A", "AAAA", "PTR"}
        /\ "host" \in {"unset", "host", "answer"}
    OBVIOUS
  <2>2. byname \in Request /\ byname.ctx = c /\ byname.sends = 0
    BY <1>1, <2>1, NewRequest, Zenon
  <2>3. bynumber \in Request /\ bynumber.ctx = c /\ bynumber.sends = 0
    BY <1>1, <2>1, NewRequest, Zenon
  <2> QED
    BY <2>2, <2>3
<1> HIDE DEF byname, bynumber
<1>3. Joins(requests, byname) /\ Joins(requests, bynumber)
  BY <1>1, <1>2 DEF Joins
<1>4. \E r \in Request, type \in {"A", "AAAA", "PTR"} :
         r.ctx = c /\ Joins(requests, r) /\ Follow(Query(requests, r, type))
  <2>1. CASE Kind[c] = "conf"
    <3>1. Follow(Query(requests, byname, "AAAA"))
      BY <2>1 DEF Lookup, do_query_name, byname, Named
    <3> QED
      BY <1>2, <1>3, <3>1
  <2>2. CASE Kind[c] # "conf"
    <3>1. Follow(Query(requests, bynumber, "PTR"))
      BY <2>2 DEF Lookup, do_query_number, bynumber, Numbered
    <3> QED
      BY <1>2, <1>3, <3>1
  <2> QED
    BY <2>1, <2>2
<1>5. PICK r \in Request, type \in {"A", "AAAA", "PTR"} :
         r.ctx = c /\ Joins(requests, r) /\ Follow(Query(requests, r, type))
  BY <1>4
<1>6. PICK o \in Query(requests, r, type) : requests' = o.reqs /\ Applied(o)
  BY <1>5, Zenon DEF Follow, Applied
<1>7. Joined(requests, r, type, requests')
  BY <1>5, <1>6, FollowQuery
<1>8. PICK q \in Request : requests' = requests \cup {q} /\ q.ctx = c
  BY <1>5, <1>7 DEF Joined
<1>9. ResolverTypeOK'
  BY <1>7, ResolverConstants DEF Joined, Separate, ResolverTypeOK, Tracked, Lookup
<1>10. \A p \in requests' : pending'[p.ctx]
  BY <1>8 DEF Tracked, ResolverTypeOK, Lookup, Request
<1>11. ~resolverAborted' => \A d \in Contexts : pending'[d] => \E p \in requests' : p.ctx = d
  BY <1>8 DEF Tracked, ResolverTypeOK, Lookup
<1> QED
  BY <1>7, <1>9, <1>10, <1>11 DEF Tracked, Joined, Separate, UniqueIds

\* delete_resolver_queries: the caller no longer waits, and its request is gone.
LEMMA DeleteKeeps ==
  ASSUME Tracked, NEW c \in Contexts, delete_resolver_queries(c)
  PROVE  Tracked'
<1>1. ResolverTypeOK'
  BY DEF Tracked, ResolverTypeOK, delete_resolver_queries
<1>2. \A p \in requests' : pending'[p.ctx]
  BY DEF Tracked, ResolverTypeOK, delete_resolver_queries, Request
<1>3. ~resolverAborted' => \A d \in Contexts : pending'[d] => \E p \in requests' : p.ctx = d
  <2> SUFFICES ASSUME ~resolverAborted, NEW d \in Contexts, pending'[d]
               PROVE  \E p \in requests' : p.ctx = d
    BY DEF delete_resolver_queries
  <2>1. d # c /\ pending[d]
    BY DEF Tracked, ResolverTypeOK, delete_resolver_queries
  <2> QED
    BY <2>1 DEF Tracked, delete_resolver_queries
<1> QED
  BY <1>1, <1>2, <1>3 DEF Tracked, UniqueIds, delete_resolver_queries

\* A reply that reports an error or has no answers.
LEMMA NoAnswerKeeps ==
  ASSUME Tracked, NEW r \in requests, NEW rcode \in Rcodes, NoAnswer(r, rcode),
         UNCHANGED <<lookups, resolverNow, resolverAborted>>
  PROVE  Tracked'
<1> DEFINE longer == [r EXCEPT !.timeout = @ + RES_TIMEOUT]
           inside == [longer EXCEPT !.state = "INT"]
<1>0. r \in Request
  BY SeparateRest, Zenon
<1>1. /\ longer \in Request /\ longer.ctx = r.ctx /\ longer.id = r.id /\ longer.sends = r.sends
      /\ longer.type = r.type /\ longer.state = r.state
  <2>1. r.timeout + RES_TIMEOUT \in Nat
    BY <1>0, ResolverConstants DEF Request
  <2> QED
    BY <1>0, <2>1 DEF Request
<1> HIDE DEF longer
<1>7. /\ inside \in Request /\ inside.ctx = r.ctx /\ inside.id = r.id
      /\ inside.sends = r.sends /\ inside.type = r.type
  BY <1>1 DEF Request
<1> HIDE DEF inside
<1>2. CASE rcode = "BAD"
  <2>1. Callback(r, "failed") /\ requests' = requests \ {r} /\ UNCHANGED <<asked, res_timeout>>
    BY <1>2 DEF NoAnswer
  <2> QED
    BY <2>1, Done
<1>3. CASE rcode # "BAD" /\ r.state = "AAAA" /\ r.type = "AAAA"
  <2>1. Follow(Query(requests \ {r}, longer, "A")) /\ UNCHANGED <<pending, result>>
    BY <1>1, <1>3 DEF NoAnswer, resend_query, longer
  <2> QED
    BY <1>1, <2>1, Again
<1>4. CASE rcode # "BAD" /\ r.type = "PTR" /\ r.state # "INT" /\ Kind[r.ctx] = "auth6"
  <2>1. Follow(Query(requests \ {r}, inside, "PTR")) /\ UNCHANGED <<pending, result>>
    BY <1>4, <1>7 DEF NoAnswer, resend_query, inside, longer
  <2> QED
    BY <1>7, <2>1, Again
<1>5. CASE /\ rcode # "BAD"
           /\ ~(r.state = "AAAA" /\ r.type = "AAAA")
           /\ ~(r.type = "PTR" /\ r.state # "INT" /\ Kind[r.ctx] = "auth6")
  <2>1. UNCHANGED <<requests, asked, res_timeout, pending, result>>
    BY <1>5 DEF NoAnswer
  <2> QED
    BY <2>1 DEF Tracked, ResolverTypeOK, UniqueIds
<1> QED
  BY <1>2, <1>3, <1>4, <1>5

\* A reply with answers: the name of an address is looked up in turn by a new request, an
\* address is told to the caller, and a reply that cannot be used leaves the request.
LEMMA ReplyKeeps ==
  ASSUME Tracked, NEW r \in requests, NEW rrs \in Answers, Answer(r, rrs),
         UNCHANGED <<lookups, resolverNow>>
  PROVE  Tracked'
<1> DEFINE a == proc_answer(r, rrs)
           rest == requests \ {r}
<1>1. /\ r \in Request /\ Separate(rest) /\ Separate(requests)
      /\ \A p \in rest : p.ctx # r.ctx
      /\ r.sends > 0 => \A p \in rest : p.sends > 0 => p.id # r.id
  BY SeparateRest
<1>2. /\ a.r \in Request /\ a.count \in {0, 1}
      /\ a.r.ctx = r.ctx /\ a.r.id = r.id /\ a.r.sends = r.sends /\ a.r.type = r.type
  BY <1>1, AnswerKeeps
<1> HIDE DEF a, rest
<1>3. CASE a.count = 1 /\ a.r.type = "PTR"
  <2> DEFINE type == IF Kind[r.ctx] = "auth6" THEN "AAAA" ELSE "A"
             q == Named(r.ctx, type, a.r.name)
             all == rest \cup {a.r}
  <2>1. type \in {"A", "AAAA", "PTR"} /\ type # "PTR" /\ (IF type = "AAAA" THEN "AAAA" ELSE "A") = type
    OBVIOUS
  <2> HIDE DEF type
  <2>2. /\ Follow({[o EXCEPT !.reqs = @ \ {a.r}] : o \in do_query_name(all, r.ctx, a.r.name, type)})
        /\ UNCHANGED <<pending, result, resolverAborted>>
    BY <1>3 DEF Answer, a, rest, type
  <2>3. q \in Request /\ q.ctx = r.ctx /\ q.sends = 0
    <3>1. r.ctx \in Contexts /\ a.r.name \in {"unset", "host", "answer"} /\ ResolverTypeOK
      BY <1>1, <1>2 DEF Request, Tracked
    <3> QED
      BY <2>1, <3>1, NewRequest
  <2>4. do_query_name(all, r.ctx, a.r.name, type) = Query(all, q, type)
    BY <2>1, Zenon DEF do_query_name, Named
  <2> HIDE DEF q
  <2>5. Separate(all) /\ a.r \notin rest
    BY <1>1, <1>2 DEF Separate
  <2>6. PICK o \in Query(all, q, type) : requests' = o.reqs \ {a.r} /\ Applied(o)
    <3>1. PICK u \in {[o EXCEPT !.reqs = @ \ {a.r}] : o \in Query(all, q, type)} :
            requests' = u.reqs /\ Applied(u)
      BY <2>2, <2>4, Zenon DEF Follow, Applied
    <3>2. PICK o \in Query(all, q, type) : u = [o EXCEPT !.reqs = @ \ {a.r}]
      BY <3>1, Zenon
    <3>3. u.reqs = o.reqs \ {a.r} /\ u.ids = o.ids /\ u.due = o.due
      BY <3>2
    <3> QED
      BY <3>1, <3>3, Zenon DEF Applied
  <2>7. Outcome(all, q, type, o)
    BY <2>1, <2>3, <2>5, <2>6, QueryOutcome, Zenon DEF Separate
  <2>8. PICK p \in Request :
          /\ o.reqs = all \cup {p}
          /\ p.ctx = r.ctx /\ p.type = type
          /\ p.sends > 0 => \A x \in all : x.id # p.id
    BY <2>3, <2>7 DEF Outcome
  <2>9. requests' = rest \cup {p}
    BY <1>3, <2>1, <2>5, <2>6, <2>8
  <2>10. Separate(rest \cup {p})
    BY <1>1, <2>8, SeparateAdd
  <2>11. asked' \subseteq Ids /\ res_timeout' = res_timeout
    BY <2>6, <2>7, TimerLeft
  <2> QED
    BY <2>2, <2>8, <2>9, <2>10, <2>11, Replaced, Zenon DEF rest
<1>4. CASE a.count = 1 /\ a.r.type # "PTR"
  <2>1. /\ Callback(r, a.r.addr) /\ requests' = requests \ {r}
        /\ UNCHANGED <<asked, res_timeout, resolverAborted>>
    BY <1>4 DEF Answer, a
  <2>2. a.r.addr \in {"failed", "zero", "answer", "own"}
    BY <1>2 DEF Request
  <2> QED
    BY <2>1, <2>2, Done
<1>5. CASE a.count = 0
  <2>1. /\ requests' = IF a.r.sent = 0 THEN rest ELSE rest \cup {a.r}
        /\ resolverAborted' = (resolverAborted \/ a.r.sent = 0)
        /\ UNCHANGED <<asked, res_timeout, pending, result>>
    BY <1>5 DEF Answer, a, rest
  <2>2. Separate(rest \cup {a.r})
    BY <1>1, <1>2, SeparateAdd
  <2>3. CASE a.r.sent = 0
    <3>1. requests' = rest /\ resolverAborted'
      BY <2>1, <2>3, Zenon
    <3>2. ResolverTypeOK'
      BY <1>1, <2>1, <3>1 DEF Tracked, ResolverTypeOK, Separate
    <3> QED
      BY <1>1, <2>1, <3>1, <3>2 DEF Tracked, Separate, UniqueIds, rest
  <2>4. CASE a.r.sent # 0
    <3>1. requests' = rest \cup {a.r} /\ (resolverAborted' <=> resolverAborted)
      BY <2>1, <2>4, Zenon
    <3>2. resolverAborted' = resolverAborted
      BY <2>1, <2>4 DEF Tracked, ResolverTypeOK
    <3>3. requests' = (requests \ {r}) \cup {a.r} /\ Separate(requests')
      BY <2>2, <3>1 DEF rest
    <3>4. asked' \subseteq Ids
      BY <2>1 DEF Tracked, ResolverTypeOK
    <3>5. a.r \in Request /\ a.r.ctx = r.ctx
      BY <1>2
    <3> HIDE DEF a, rest
    <3> QED
      BY <2>1, <3>2, <3>3, <3>4, <3>5, Replaced
  <2> QED
    BY <2>3, <2>4
<1> QED
  BY <1>2, <1>3, <1>4, <1>5

\* Every step keeps Tracked.
LEMMA StepKeeps ==
  ASSUME Tracked, [ResolverNext]_resolverVars
  PROVE  Tracked'
<1>1. CASE \E c \in Contexts : Lookup(c)
  BY <1>1, LookupKeeps
<1>2. CASE \E c \in Contexts : delete_resolver_queries(c)
  BY <1>2, DeleteKeeps
<1>3. CASE \E id \in Ids, rrs \in Answers : res_readreply(id, "NO_ERRORS", rrs)
  <2>1. PICK rrs \in Answers, r \in requests :
          /\ IF rrs = <<>> THEN NoAnswer(r, "NO_ERRORS") /\ UNCHANGED resolverAborted
                           ELSE Answer(r, rrs)
          /\ UNCHANGED <<resolverNow, lookups>>
    BY <1>3 DEF res_readreply, find_id
  <2>2. CASE rrs = <<>>
    BY <2>1, <2>2, NoAnswerKeeps DEF Rcodes
  <2>3. CASE rrs # <<>>
    BY <2>1, <2>3, ReplyKeeps
  <2> QED
    BY <2>2, <2>3
<1>4. CASE \E id \in Ids, rcode \in Rcodes : res_readreply(id, rcode, <<>>)
  <2>1. PICK rcode \in Rcodes, r \in requests :
          NoAnswer(r, rcode) /\ UNCHANGED <<resolverAborted, resolverNow, lookups>>
    BY <1>4 DEF res_readreply, find_id
  <2> QED
    BY <2>1, NoAnswerKeeps
<1>5. CASE ResolverTick
  BY <1>5, ResolverConstants DEF ResolverTick, Tracked, ResolverTypeOK, UniqueIds
<1>6. CASE UNCHANGED resolverVars
  BY <1>6 DEF resolverVars, Tracked, ResolverTypeOK, UniqueIds
<1> QED
  BY <1>1, <1>2, <1>3, <1>4, <1>5, <1>6 DEF ResolverNext

LEMMA InitTracked == ResolverInit => Tracked
<1> SUFFICES ASSUME ResolverInit PROVE Tracked
  OBVIOUS
<1>1. \A c \in Contexts : ~pending[c]
  BY DEF ResolverInit
<1>2. pending \in [Contexts -> BOOLEAN] /\ resolverAborted \in BOOLEAN
  BY Zenon DEF ResolverInit
<1>3. ResolverTypeOK
  BY <1>2, ResolverConstants DEF ResolverInit, ResolverTypeOK
<1> QED
  BY <1>1, <1>3 DEF ResolverInit, Tracked, UniqueIds

\* One request of each caller that waits, and none of another.
LEMMA TrackedSuffices ==
  ASSUME Tracked
  PROVE  LookupsTracked /\ NeverArmed
<1>1. ASSUME ~resolverAborted, NEW c \in Contexts
      PROVE  Cardinality({r \in requests : r.ctx = c}) = IF pending[c] THEN 1 ELSE 0
  <2>1. CASE pending[c]
    <3>1. PICK r \in requests : r.ctx = c
      BY <1>1, <2>1 DEF Tracked
    <3>2. {q \in requests : q.ctx = c} = {r}
      BY <3>1 DEF Tracked
    <3> QED
      BY <2>1, <3>2, FS_Singleton, Zenon
  <2>2. CASE ~pending[c]
    <3>1. {q \in requests : q.ctx = c} = {}
      BY <2>2 DEF Tracked
    <3> QED
      BY <2>2, <3>1, FS_EmptySet
  <2> QED
    BY <2>1, <2>2
<1> QED
  BY <1>1 DEF Tracked, LookupsTracked, PendingHasRequest, NeverArmed

\* Whatever replies come, and whenever callers ask or go away, each caller that waits has the
\* one request it waits for and replies are told apart by their ids (query_name,
\* res_readreply, delete_resolver_queries).
THEOREM LookupsAreTracked == ResolverSpec => []LookupsTracked
<1>1. Tracked /\ [ResolverNext]_resolverVars => Tracked'
  BY StepKeeps
<1>2. Tracked => LookupsTracked
  BY TrackedSuffices
<1> QED
  BY <1>1, <1>2, InitTracked, PTL DEF ResolverSpec

\* check_resolver_timeout never puts the timer on the queue, so timeout_resolver never runs
\* and no query is sent again for want of a reply.
THEOREM TimerNeverQueued == ResolverSpec => []NeverArmed
<1>1. Tracked /\ [ResolverNext]_resolverVars => Tracked'
  BY StepKeeps
<1>2. Tracked => NeverArmed
  BY TrackedSuffices
<1> QED
  BY <1>1, <1>2, InitTracked, PTL DEF ResolverSpec
=============================================================================
