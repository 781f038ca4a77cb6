------------------------------ MODULE Resolver ------------------------------
(***************************************************************************)
(* The DNS resolver (ircd/ircd_res.c) and the callers that wait for it: an *)
(* auth request looks up the name of an address and then the address of    *)
(* that name, a Connect block the address of a host.  Queries and replies  *)
(* are datagrams: they are lost, delayed and duplicated, and a late reply  *)
(* is told from a current one by its 16-bit id only.                       *)
(***************************************************************************)
EXTENDS Integers, Sequences, FiniteSets, FiniteSetsExt

CONSTANTS
  Contexts,      \* callers: what callback_ctx points to
  Kind,          \* of each: "conf", "auth4" or "auth6" by its address
  Ids,           \* 0 .. 65535: request ids
  RES_TIMEOUT,   \* the feature IRCD_RES_TIMEOUT
  Answers,       \* resource record sequences a reply may hold
  ResolverTime,       \* bound: seconds a behaviour lasts
  MaxLookups,    \* bound: lookups a caller starts
  MaxSends       \* bound: queries a request is sent with, and times it is extended

RRTypes == {"A", "AAAA", "PTR", "CNAME", "OTHER", "BROKEN"}

ASSUME ResolverConstants ==
  /\ Kind \in [Contexts -> {"conf", "auth4", "auth6"}]
  /\ 0 \in Ids /\ Ids \subseteq Nat
  /\ RES_TIMEOUT \in Nat /\ ResolverTime \in Nat \ {0} /\ MaxLookups \in Nat
  /\ MaxSends \in Nat
  /\ Answers \subseteq Seq(RRTypes)

\* BAD is SERVFAIL or NXDOMAIN, which end a request; OTHER any other error.
Rcodes == {"NO_ERRORS", "BAD", "OTHER"}

VARIABLES
  resolverNow,       \* CurrentTime
  requests,  \* request_list
  asked,     \* ids of queries that reached the network: replies may come
  pending,   \* callers that wait: AR_DNS_PENDING, dns_pending
  result,    \* what the last callback told the caller
  lookups,   \* lookups each caller has started
  res_timeout, \* the timer: queued or not, and t_expire
  resolverAborted    \* history: an assertion failed

Request == [ctx : Contexts, id : Ids, sent : Nat, sends : Nat,
            state : {"A", "AAAA", "PTR", "CNAME", "INT"},
            type : {"A", "AAAA", "PTR"}, sentat : 1 .. ResolverTime, timeout : Nat,
            addr : {"zero", "own", "answer"}, name : {"unset", "host", "answer"}]

resolverVars == <<resolverNow, requests, asked, pending, result, lookups, res_timeout, resolverAborted>>

-----------------------------------------------------------------------------
\* Requests

make_request(c) ==
  [ctx |-> c, id |-> 0, sent |-> 0, sends |-> 0, state |-> "IDLE", type |-> "A",
   sentat |-> resolverNow, timeout |-> RES_TIMEOUT, addr |-> "zero", name |-> "unset"]

find_id(rs, id) == {r \in rs : r.id = id}

FreeId(rs) == {id \in Ids : find_id(rs, id) = {}}

\* Whether the timer is queued and for when, after a request that is due at
\* time "when" (at most AR_TTL away).
check_resolver_timeout(when, t) ==
  IF when > t.expire THEN t ELSE [queued |-> TRUE, expire |-> when]

\* What a query of a type makes of a request: the packet may not be buildable,
\* and then nothing is sent, and sending it may fail.
Sent(r, type, id, ok) ==
  [r EXCEPT !.type = type, !.id = id, !.sends = @ + 1,
            !.sent = @ + (IF ok THEN 1 ELSE 0)]

Query(rs, r, type) ==
  LET others == rs \cup {r}
  IN  {[reqs |-> rs \cup {Sent(r, type, id, ok)}, ids |-> IF ok THEN {id} ELSE {},
        due |-> {r.sentat + r.timeout}] :
         id \in FreeId(others), ok \in BOOLEAN}
      \cup {[reqs |-> rs \cup {[r EXCEPT !.type = type]}, ids |-> {}, due |-> {}]}

\* The outcomes of do_query_name and do_query_number for a new request, given
\* the rest of the list.  Without an address family the AAAA query goes first.
do_query_name(rs, c, name, type) ==
  Query(rs, [make_request(c) EXCEPT !.state = IF type = "AAAA" THEN "AAAA" ELSE "A",
                                    !.name = name], type)

do_query_number(rs, c) ==
  Query(rs, [make_request(c) EXCEPT !.state = "PTR", !.addr = "own"], "PTR")

\* resend_query: the other type of address, or the same question again.
resend_query(rs, r) ==
  CASE r.type = "PTR" -> Query(rs, r, "PTR")
    [] r.type = "A" -> Query(rs, r, "A")
    [] r.type = "AAAA" /\ r.state = "AAAA" -> Query(rs, r, "A")
    [] OTHER -> {[reqs |-> rs \cup {r}, ids |-> {}, due |-> {}]}

\* Follow one of the outcomes.
Follow(outcomes) ==
  \E o \in outcomes :
    /\ requests' = o.reqs
    /\ asked' = asked \cup o.ids
    /\ res_timeout' = IF o.due = {} THEN res_timeout
                      ELSE check_resolver_timeout(CHOOSE d \in o.due : TRUE, res_timeout)

-----------------------------------------------------------------------------
\* Calls

\* start_dns_query of an auth request, conf_dns_lookup or connect_server of a
\* Connect block: one lookup at a time.
Lookup(c) ==
  /\ ~pending[c]
  /\ lookups[c] < MaxLookups
  /\ lookups' = [lookups EXCEPT ![c] = @ + 1]
  /\ pending' = [pending EXCEPT ![c] = TRUE]
  /\ result' = [result EXCEPT ![c] = "none"]
  /\ Follow(IF Kind[c] = "conf" THEN do_query_name(requests, c, "host", "AAAA")
                              ELSE do_query_number(requests, c))
  /\ UNCHANGED <<resolverNow, resolverAborted>>

\* The caller goes away, or gives up: destroy_auth_request,
\* auth_timeout_callback and free_conf delete its queries if it waits.
delete_resolver_queries(c) ==
  /\ pending[c]
  /\ pending' = [pending EXCEPT ![c] = FALSE]
  /\ requests' = {r \in requests : r.ctx # c}
  /\ UNCHANGED <<resolverNow, asked, result, lookups, res_timeout, resolverAborted>>

\* The callback of a request, which the caller no longer waits for.
Callback(r, what) ==
  /\ pending' = [pending EXCEPT ![r.ctx] = FALSE]
  /\ result' = [result EXCEPT ![r.ctx] = what]

-----------------------------------------------------------------------------
\* Replies

\* The record that ends the reading: one that is broken, an address or a name, and an
\* alias after another one.
Ends(r, rrs, i) ==
  \/ rrs[i] \in {"BROKEN", "A", "AAAA", "PTR"}
  \/ rrs[i] = "CNAME" /\ (r.state = "CNAME" \/ \E j \in 1 .. i - 1 : rrs[j] = "CNAME")

\* The request as the answer leaves it, and whether there was an answer.  A
\* reply whose records are all skipped counts as one.
proc_answer(r, rrs) ==
  LET ends == {i \in DOMAIN rrs : Ends(r, rrs, i)}
      last == IF ends = {} THEN Len(rrs) + 1 ELSE Min(ends)
      type == IF ends = {} THEN "none" ELSE rrs[last]
      q == IF \E j \in 1 .. last - 1 : rrs[j] = "CNAME" THEN [r EXCEPT !.state = "CNAME"] ELSE r
  IN  CASE type = "BROKEN" \/ (type \in {"A", "AAAA", "PTR"} /\ type # r.type) ->
             [r |-> q, count |-> 0]
        [] type \in {"A", "AAAA"} /\ type = r.type -> [r |-> [q EXCEPT !.addr = "answer"], count |-> 1]
        [] type = "PTR" /\ type = r.type -> [r |-> [q EXCEPT !.name = "answer"], count |-> 1]
        [] OTHER -> [r |-> q, count |-> 1]

\* An error, or no answers.
NoAnswer(r, rcode) ==
  LET rest == requests \ {r}
      longer == [r EXCEPT !.timeout = @ + RES_TIMEOUT]
  IN  CASE rcode = "BAD" ->
             /\ Callback(r, "failed")
             /\ requests' = rest
             /\ UNCHANGED <<asked, res_timeout>>
        [] rcode # "BAD" /\ r.state = "AAAA" /\ r.type = "AAAA" ->
             /\ Follow(resend_query(rest, longer))
             /\ UNCHANGED <<pending, result>>
        [] rcode # "BAD" /\ r.type = "PTR" /\ r.state # "INT"
           /\ Kind[r.ctx] = "auth6" ->
             /\ Follow(resend_query(rest, [longer EXCEPT !.state = "INT"]))
             /\ UNCHANGED <<pending, result>>
        [] OTHER -> UNCHANGED <<requests, asked, res_timeout, pending, result>>

\* mutant: the request for the name is not removed when the next one is made
Answer_keeping(r, rrs) ==
  LET a == proc_answer(r, rrs)
  IN  /\ a.count = 1 /\ a.r.type = "PTR"
      /\ Follow(do_query_name(requests, r.ctx, a.r.name, "A"))
      /\ UNCHANGED <<pending, result, resolverAborted>>

Answer(r, rrs) ==
  LET a == proc_answer(r, rrs)
      rest == requests \ {r}
  IN  CASE a.count = 1 /\ a.r.type = "PTR" ->
             /\ Follow({[o EXCEPT !.reqs = @ \ {a.r}] :
                        o \in do_query_name(rest \cup {a.r}, r.ctx, a.r.name,
                                IF Kind[r.ctx] = "auth6" THEN "AAAA" ELSE "A")})
             /\ UNCHANGED <<pending, result, resolverAborted>>
        [] a.count = 1 /\ a.r.type # "PTR" ->
             /\ Callback(r, a.r.addr)
             /\ requests' = rest
             /\ UNCHANGED <<asked, res_timeout, resolverAborted>>
        [] a.count = 0 ->
             /\ requests' = IF a.r.sent = 0 THEN rest ELSE rest \cup {a.r}
             /\ resolverAborted' = (resolverAborted \/ a.r.sent = 0)
             /\ UNCHANGED <<asked, res_timeout, pending, result>>

\* A reply of one of our servers, to any query that was ever sent.
res_readreply(id, rcode, rrs) ==
  /\ id \in asked
  /\ \E r \in find_id(requests, id) :
       /\ r.sends < MaxSends /\ r.timeout < MaxSends * RES_TIMEOUT
       /\ IF rcode # "NO_ERRORS" \/ rrs = <<>>
          THEN NoAnswer(r, rcode) /\ UNCHANGED resolverAborted
          ELSE Answer(r, rrs)
  /\ UNCHANGED <<resolverNow, lookups>>

ResolverTick ==
  /\ resolverNow < ResolverTime
  /\ resolverNow' = resolverNow + 1
  /\ UNCHANGED <<requests, asked, pending, result, lookups, res_timeout, resolverAborted>>

-----------------------------------------------------------------------------
\* restart_resolver; the program starts at time 1 at the earliest, and the
\* static timer's t_expire is 0.  timeout_resolver, the timer's callback, is
\* not an action: NeverArmed shows that it cannot run.
ResolverInit ==
  /\ resolverNow = 1
  /\ requests = {}
  /\ asked = {}
  /\ pending = [c \in Contexts |-> FALSE]
  /\ result = [c \in Contexts |-> "none"]
  /\ lookups = [c \in Contexts |-> 0]
  /\ res_timeout = [queued |-> FALSE, expire |-> 0]
  /\ resolverAborted = FALSE

ResolverNext ==
  \/ \E c \in Contexts : Lookup(c) \/ delete_resolver_queries(c)
  \/ \E id \in Ids : \/ \E rrs \in Answers : res_readreply(id, "NO_ERRORS", rrs)
                     \/ \E rcode \in Rcodes : res_readreply(id, rcode, <<>>)
  \/ ResolverTick

ResolverSpec == ResolverInit /\ [][ResolverNext]_resolverVars

-----------------------------------------------------------------------------
\* Type invariant.
ResolverTypeOK ==
  /\ resolverNow \in 1 .. ResolverTime
  /\ requests \subseteq Request
  /\ asked \subseteq Ids
  /\ pending \in [Contexts -> BOOLEAN]
  /\ result \in [Contexts -> {"none", "failed", "zero", "answer", "own"}]
  /\ lookups \in [Contexts -> 0 .. MaxLookups]
  /\ res_timeout \in [queued : BOOLEAN, expire : Nat]
  /\ resolverAborted \in BOOLEAN

\* A caller waits for exactly one request, and the context of every request is
\* a caller that waits: no callback reaches a caller that is gone, and none is
\* called twice for a lookup.  (After the assertion of res_readreply has failed
\* the request is gone and the caller waits for ever.)
PendingHasRequest ==
  ~resolverAborted => \A c \in Contexts :
    Cardinality({r \in requests : r.ctx = c}) = IF pending[c] THEN 1 ELSE 0

\* query_name's "generate an unique id": a reply matches one request.
UniqueIds ==
  \A r, q \in requests : r.id = q.id /\ r.sends > 0 /\ q.sends > 0 => r = q

\* Through lost, late and repeated replies, queries that cannot be sent and callers that
\* go away, every lookup has the one request its caller waits for, with an id of its own.
LookupsTracked == ResolverTypeOK /\ PendingHasRequest /\ UniqueIds

\* The resolver's timer is never put on the queue: t_expire is 0, and no time a
\* request is due is earlier.
NeverArmed == ~res_timeout.queued

\* check_resolver_timeout: "Make sure that a timeout event will happen by the
\* given time", for the time every query that was sent is due.
TimeoutScheduled ==
  \A r \in requests : r.sends > 0 =>
    res_timeout.queued /\ res_timeout.expire <= r.sentat + r.timeout

\* res_readreply: "got a name and address response, client resolved", of the
\* callback that reports success.
ResolvedHasAddress == \A c \in Contexts : result[c] # "zero"

\* res_readreply: an answer to a query that was not sent "should never happen".
NoUnexpectedAnswer == ~resolverAborted
=============================================================================
