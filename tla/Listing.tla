------------------------------ MODULE Listing ------------------------------
(***************************************************************************)
(* LIST (m_list.c, list_next_channels of hash.c): one local user asks for  *)
(* the channels of the server, and the answer is sent bucket by bucket of  *)
(* the hash table as the user's send queue drains, while channels come,    *)
(* go, change and are looked up.                                           *)
(*                                                                         *)
(* A parameter is a sequence of tokens, its parts between commas; a        *)
(* pattern is the set of the names it matches.                             *)
(***************************************************************************)
EXTENDS Integers, Sequences, FiniteSets, SequencesExt, FiniteSetsExt, Loops

CONSTANT
  ListScenes    \* what a behaviour is about

VARIABLES ls, lScene

listVars == <<ls, lScene>>

UINT == 128        \* values of unsigned int
HASHSIZE == 3
Minute == 2        \* seconds
EPOCH == 60        \* 80000000: smaller numbers are ages
ListTime == 40

\* max_time .. min_topic_time, no flags, the first bucket, no pattern.
la_init ==
  [max_time |-> UINT - 1, min_time |-> 0, max_users |-> UINT - 1, min_users |-> 0, max_topic_time |-> UINT - 1,
   min_topic_time |-> 0, flags |-> {}, bucket |-> 0, wildcard |-> {}]

\* The limit that a number sets, for users, creation times and topic times.
Limit(args, is_time, dir, v) ==
  CASE is_time = 0 -> IF dir = "<" THEN [args EXCEPT !.max_users = v] ELSE [args EXCEPT !.min_users = v]
    [] is_time = 1 -> IF dir = "<" THEN [args EXCEPT !.max_time = v] ELSE [args EXCEPT !.min_time = v]
    [] is_time = 2 -> IF dir = "<" THEN [args EXCEPT !.max_topic_time = v] ELSE [args EXCEPT !.min_topic_time = v]
    [] OTHER -> args

\* mutant: the direction of an age is not reversed
Number_forward(args, is_time, t) ==
  LET age == is_time > 0 /\ t.v < EPOCH
      v == IF age THEN ListTime - t.v * Minute ELSE t.v
      step == IF t.eq THEN 0 ELSE 1
  IN Limit(args, is_time, t.dir, (v + (IF t.dir = "<" THEN -step ELSE step)) % UINT)
\* An age becomes a time, in the other direction; a strict limit becomes one that includes its bound.
Number(args, is_time, t) ==
  LET age == is_time > 0 /\ t.v < EPOCH
      v == IF age THEN ListTime - t.v * Minute ELSE t.v
      dir == IF ~age THEN t.dir ELSE IF t.dir = ">" THEN "<" ELSE ">"
      step == IF t.eq THEN 0 ELSE 1
  IN Limit(args, is_time, dir, (v + (IF dir = "<" THEN -step ELSE step)) % UINT)

\* is_time is counted up by every T and C of one parameter.
param_token(p, t) ==
  LET is_time == p.is_time + (CASE t.t = "T" -> 2 [] t.t = "C" -> 1 [] OTHER -> 0)
      flagged == IF t.t = "T" THEN [p.args EXCEPT !.flags = @ \union {"TOPICLIMITS"}] ELSE p.args
      oper == lScene.oper
      Usage == [p EXCEPT !.result = "ERROR"]
  IN IF p.result # "SUCCESS" THEN p
     ELSE CASE t.t \in {"T", "C", "users"} -> [p EXCEPT !.is_time = is_time, !.args = Number(flagged, is_time, t)]
            [] t.t = "S" -> IF oper THEN [p EXCEPT !.args.flags = @ \union {"SHOWSECRET"}] ELSE Usage
            [] t.t = "M" -> IF lScene.modesOper /\ ~oper THEN Usage ELSE [p EXCEPT !.args.flags = @ \union {"SHOWMODES"}]
            [] t.t = "pattern" ->
                 IF p.args.wildcard # {} THEN Usage
                 ELSE [p EXCEPT !.args.wildcard = t.names, !.args.flags = @ \union (IF t.neg THEN {"NEGATE"} ELSE {})]
            [] t.t = "channel" -> IF p.permit_chan THEN [p EXCEPT !.result = "CHANNEL"] ELSE Usage

param_parse(args, tokens, permit_chan) ==
  FoldLeft(param_token, [args |-> args, is_time |-> 0, permit_chan |-> permit_chan, result |-> "SUCCESS"], tokens)

-----------------------------------------------------------------------------

Exists(c) == \E b \in DOMAIN ls.channelTable : Contains(ls.channelTable[b], c)
strhash_channel(c) == lScene.hash[c]

ListMatch(args, c, ch) ==
  /\ ch.users >= args.min_users /\ ch.users <= args.max_users
  /\ ch.creationtime >= args.min_time /\ ch.creationtime <= args.max_time
  /\ args.wildcard # {} => (c \in args.wildcard <=> "NEGATE" \notin args.flags)
  /\ "TOPICLIMITS" \in args.flags =>
       ch.topic_time # 0 /\ ch.topic_time >= args.min_topic_time /\ ch.topic_time <= args.max_topic_time
  /\ "SHOWSECRET" \in args.flags \/ ch.shown \/ (lScene.showPrivate /\ ch.hidden)

\* The meaning of a parameter, in the words of show_usage.
Means(t, c, ch) ==
  LET In(x, y) == (IF t.dir = "<" THEN x < y ELSE x > y) \/ (t.eq /\ x = y)
  IN CASE t.t = "users" -> In(ch.users, t.v)
       [] t.t = "C" -> In(ListTime - ch.creationtime, t.v * Minute)
       [] t.t = "T" -> ch.topic_time # 0 /\ In(ListTime - ch.topic_time, t.v * Minute)
       [] t.t = "pattern" -> c \in t.names <=> ~t.neg
       [] OTHER -> TRUE
Shown(params, ch) ==
  ch.shown \/ (lScene.showPrivate /\ ch.hidden)
    \/ \E i \in DOMAIN params : \E j \in DOMAIN params[i] : params[i][j].t = "S"
Wanted(params, c, ch) ==
  Shown(params, ch) /\ \A i \in DOMAIN params : \A j \in DOMAIN params[i] : Means(params[i][j], c, ch)

LISTEND(l) == [l EXCEPT !.listing = <<>>, !.q = @ + 1, !.ends = @ + 1]

\* One bucket; the bucket after which the queue is more than half full is sent again.
ListBucket(l) ==
  LET args == l.listing[1]
      sent == SelectSeq(l.channelTable[args.bucket], LAMBDA c : ListMatch(args, c, l.chan[c]))
      g == [l EXCEPT !.q = @ + Len(sent), !.listed = @ \union ToSet(sent),
                     !.wrong = @ \/ (~lScene.loose /\ \E c \in ToSet(sent) : ~Wanted(l.asked, c, l.chan[c]))]
  IN IF l.stop \/ args.bucket >= HASHSIZE THEN l
     ELSE IF g.q > lScene.sendq \div 2 THEN [g EXCEPT !.stop = TRUE]
     ELSE [g EXCEPT !.listing[1].bucket = @ + 1]
list_next_channels(l) ==
  LET g == [Repeat(ListBucket, l, HASHSIZE) EXCEPT !.stop = FALSE]
  IN IF g.listing[1].bucket >= HASHSIZE THEN LISTEND(g) ELSE g

\* The interest in writing that the engine is told of.
list_update_write(l) == [l EXCEPT !.writable = l.q > 0 \/ l.listing # <<>>]

la_default ==
  LET p == param_parse(la_init, lScene.default, FALSE) IN IF p.result = "SUCCESS" THEN p.args ELSE la_init

\* The user asks: a running listing ends first, and LIST alone or LIST STOP does no more than that.
m_list(params, stop) ==
  LET running == ls.listing # <<>>
      l == IF running THEN list_update_write(LISTEND([ls EXCEPT !.must = {}])) ELSE ls
      parsed == FoldLeft(LAMBDA p, ts : IF p.result = "ERROR" THEN p
                                        ELSE LET q == param_parse(p.args, ts, Len(params) = 1)
                                             IN [q EXCEPT !.result = IF @ = "SUCCESS" THEN p.result ELSE @],
                         [args |-> IF params = <<>> THEN la_default ELSE la_init, result |-> "SUCCESS"], params)
      a == parsed.args
      asked == IF params = <<>> THEN <<lScene.default>> ELSE params
      begun == [l EXCEPT !.q = @ + 1, !.starts = @ + 1, !.asked = asked, !.listed = {},
                         !.must = {c \in lScene.chans : ~lScene.loose /\ Exists(c) /\ Wanted(asked, c, ls.chan[c])}]
      Some(t) == {c \in t.names : Exists(c) /\ (ls.chan[c].shown \/ lScene.oper)}
  IN /\ ls.left > 0
     /\ ls' = [IF (running /\ (params = <<>> \/ stop)) \/ parsed.result = "ERROR" THEN l
               ELSE IF parsed.result = "CHANNEL"
               THEN list_update_write(LISTEND([begun EXCEPT !.q = @ + Cardinality(Some(params[1][1])), !.must = {}]))
               ELSE IF a.max_users >= a.min_users /\ a.max_time >= a.min_time /\ a.max_topic_time >= a.min_topic_time
               THEN list_update_write(list_next_channels([begun EXCEPT !.listing = <<a>>]))
               ELSE list_update_write(LISTEND(begun)) EXCEPT !.left = @ - 1]

\* The socket can be written: more channels when little is queued, then some of the queue is sent.
ET_WRITE(k) ==
  /\ ls.writable
  /\ LET l == IF ls.listing # <<>> /\ ls.q < lScene.low THEN list_next_channels(ls) ELSE ls
     IN /\ k <= l.q
        /\ ls' = list_update_write([l EXCEPT !.q = @ - k])

\* Other users: channels appear, vanish, change and are looked up.
Create(c) ==
  /\ ~Exists(c) /\ ls.left > 0
  /\ ls' = [ls EXCEPT !.channelTable[strhash_channel(c)] = <<c>> \o @, !.left = @ - 1]
hRemChannel(c) ==
  /\ Exists(c) /\ ls.left > 0
  /\ ls' = [ls EXCEPT !.channelTable[strhash_channel(c)] = SelectSeq(@, LAMBDA d : d # c), !.must = @ \ {c}, !.left = @ - 1]
Change(c, n) ==
  /\ Exists(c) /\ ls.left > 0 /\ n # ls.chan[c].users
  /\ ls' = [ls EXCEPT !.chan[c].users = n, !.must = @ \ {c}, !.left = @ - 1]
hSeekChannel(c) ==
  /\ Exists(c)
  /\ ls' = [ls EXCEPT !.channelTable[strhash_channel(c)] = <<c>> \o SelectSeq(@, LAMBDA d : d # c)]
QuitListing ==
  /\ ls.listing # <<>>
  /\ ls' = [ls EXCEPT !.listing = <<>>, !.left = 0, !.starts = 0, !.ends = 0, !.q = 0, !.writable = FALSE, !.must = {}, !.listed = {}]

ListInit ==
  /\ lScene \in ListScenes
  /\ ls = [channelTable |-> [b \in 0 .. HASHSIZE |-> SelectSeq(lScene.chain, LAMBDA c : lScene.hash[c] = b)], chan |-> lScene.chan,
           listing |-> <<>>, q |-> 0, writable |-> FALSE, stop |-> FALSE, left |-> lScene.left,
           wrong |-> FALSE, asked |-> <<>>, listed |-> {}, must |-> {}, starts |-> 0, ends |-> 0]

ListNext ==
  /\ UNCHANGED lScene
  /\ \/ \E i \in DOMAIN lScene.params, stop \in BOOLEAN : m_list(lScene.params[i], stop)
     \/ \E k \in 1 .. lScene.sendq : ET_WRITE(k)
     \/ \E c \in lScene.chans : Create(c) \/ hRemChannel(c) \/ hSeekChannel(c)
     \/ \E c \in lScene.chans, n \in lScene.counts : Change(c, n)
     \/ QuitListing

-----------------------------------------------------------------------------

\* Every LISTSTART is followed by one LISTEND, and while a listing waits for the queue to drain the
\* engine is asked for the event that continues it; when it has run to its end, every channel that was
\* there all the time and that the parameters describe, as show_usage explains them, has been listed,
\* and nothing is listed that they do not describe (m_list, list_next_channels, ET_WRITE).
ListingHonest ==
  /\ ls.starts = ls.ends + Len(ls.listing)
  /\ ls.listing # <<>> => ls.writable
  /\ ls.listing = <<>> => ls.must \subseteq ls.listed
  /\ ~ls.wrong
=============================================================================
