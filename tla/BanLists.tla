------------------------------ MODULE BanLists ------------------------------
(***************************************************************************)
(* The ban list and the exception list of one channel as two servers hold  *)
(* them: how MODE, OPMODE and CLEARMODE edit them, how a bounced MODE       *)
(* undoes an edit, how a net join merges them, and the per-member cache of  *)
(* the verdict "banned" that a server consults before it lets a local       *)
(* member speak or change nick (ircd/channel.c, m_clearmode.c, m_burst.c).  *)
(* Messages are delivered at once: what the servers do with MODEs that      *)
(* cross is the subject of module Channels.                                 *)
(***************************************************************************)
EXTENDS Integers, FiniteSets, Sequences, SequencesExt, FiniteSetsExt

CONSTANTS
  BanMasks,     \* masks, in the form pretty_extmask gives them
  BanKind,      \* BanMasks -> {"any", "quiet", "nick"}: the activity of an extban
  BanIncludes,  \* BanMasks -> SUBSET BanMasks: the masks its text matches
  BanMatches,   \* BanMasks -> SUBSET BanIdentities: the users it matches
  BanIdentities,\* nick!user@host forms the member may take
  MAXBANS,      \* FEAT_MAXBANS
  BanEdits,     \* the MODE lines users try: sequences of [dir, list, m]
  MAXMODEPARAMS,\* arguments that fit in one MODE line
  MaxBanClock   \* bound: channel creations

VARIABLES
  banChan,   \* server -> the channel as that server knows it
  banUser,   \* identity of the unprivileged member, a user of server "east"
  banLinked, \* the two servers are linked
  banClock   \* creation time of the latest channel

banVars == <<banChan, banUser, banLinked, banClock>>

BanServers == {"east", "west"}
Peer(s) == IF s = "east" THEN "west" ELSE "east"
Lists == {"b", "e"}
Activities == {"quiet", "nick"}
Caches == Lists \X Activities
Unknown == [hit |-> FALSE, with |-> {}]   \* the "valid" flag is clear

ASSUME BanAssumption ==
  /\ BanKind \in [BanMasks -> {"any"} \union Activities]
  /\ BanIncludes \in [BanMasks -> SUBSET BanMasks]
  /\ BanMatches \in [BanMasks -> SUBSET BanIdentities]
  /\ \A m \in BanMasks : m \in BanIncludes[m]
  /\ \A m, n \in BanMasks : n \in BanIncludes[m] => BanIncludes[n] \subseteq BanIncludes[m]

(***************************************************************************)
(* Entries of a list while it is edited, and the counter of allocated bans *)
(***************************************************************************)
Entry(m, fl) == [m |-> m, fl |-> fl]

\* n bans are allocated, or given back.
make_ban(c, n) == [c EXCEPT !.inuse = @ + n]
free_ban(c, n) == [c EXCEPT !.inuse = @ - n]

bmatch(old, new) == new \in BanIncludes[old]

\* apply_ban: a new entry is refused when a live one covers it, and marks the
\* ones it covers; a removal only marks.  apply_except is the same code.
MarkCovered(list, m) ==
  [i \in DOMAIN list |->
     IF bmatch(m, list[i].m) THEN [list[i] EXCEPT !.fl = @ \union {"DEL"}] ELSE list[i]]

apply_ban(list, e) ==
  IF "ADD" \in e.fl
  THEN IF \E i \in DOMAIN list : bmatch(list[i].m, e.m) /\ "DEL" \notin list[i].fl
       THEN list
       ELSE Append(MarkCovered(list, e.m), e)
  ELSE MarkCovered(list, e.m)

apply_except(list, e) == apply_ban(list, e)

\* mode_parse_ban, mode_parse_except: one argument of the line.
mode_parse_ban(st, x) ==
  [st EXCEPT !.b = apply_ban(@, Entry(x.m, {IF x.dir = "+" THEN "ADD" ELSE "DEL"}))]

mode_parse_except(st, x) ==
  [st EXCEPT !.e = apply_except(@, Entry(x.m, {IF x.dir = "+" THEN "ADD" ELSE "DEL"}))]

ParseEdits(c, edits) ==
  LET open(list) == [i \in DOMAIN list |-> Entry(list[i], {})]
  IN  FoldLeft(LAMBDA st, x : IF x.list = "b" THEN mode_parse_ban(st, x)
                                              ELSE mode_parse_except(st, x),
               [b |-> open(c.b), e |-> open(c.e)], edits)

mode_ban_invalidate(c) ==
  [c EXCEPT !.cache = [x \in Caches |-> IF x[1] = "b" THEN Unknown ELSE @[x]]]

mode_except_invalidate(c) ==
  [c EXCEPT !.cache = [x \in Caches |-> IF x[1] = "e" THEN Unknown ELSE @[x]]]

Invalidate(c, l) == IF l = "b" THEN mode_ban_invalidate(c) ELSE mode_except_invalidate(c)

\* mode_process_bans: walk the marked list once.  `flags` holds "SET" when the
\* change takes effect, "BOUNCE" when it is to be undone at the sender, and
\* "LIMIT" when the source is a local user and not overriding with OPMODE.
mode_process_bans(c, l, marked, flags) ==
  LET full(a) == {"SET", "LIMIT"} \subseteq flags /\ a.count + 1 > MAXBANS
      step(a, x) ==
        IF {"ADD", "DEL"} \subseteq x.fl THEN a
        ELSE IF "DEL" \in x.fl
        THEN [a EXCEPT !.out = Append(@, [dir |-> "-", list |-> l, m |-> x.m]),
                       !.kept = IF "SET" \in flags THEN @ ELSE Append(@, x.m),
                       !.count = IF "SET" \in flags THEN @ ELSE @ + 1,
                       !.freed = IF "SET" \in flags THEN @ + 1 ELSE @]
        ELSE IF "ADD" \in x.fl
        THEN IF full(a) THEN a
             ELSE [a EXCEPT !.out = Append(@, [dir |-> "+", list |-> l, m |-> x.m]),
                            !.made = IF "SET" \in flags THEN <<x.m>> \o @ ELSE @,
                            !.count = @ + 1]
        ELSE [a EXCEPT !.kept = Append(@, x.m), !.count = @ + 1]
      a == FoldLeft(step, [kept |-> <<>>, made |-> <<>>, out |-> <<>>, count |-> 0, freed |-> 0],
                    marked)
      c2 == make_ban(free_ban([c EXCEPT ![l] = a.made \o a.kept], a.freed), Len(a.made))
  IN  [c |-> IF a.freed > 0 \/ a.made # <<>> THEN Invalidate(c2, l) ELSE c2, out |-> a.out]

mode_process_excepts(c, marked, flags) == mode_process_bans(c, "e", marked, flags)

\* The part of mode_parse that concerns the lists: all arguments, then both
\* bottom halves.  The result is the channel and the changes put in the ModeBuf.
mode_parse_lists(c, edits, flags) ==
  LET st == ParseEdits(c, edits)
      r == mode_process_bans(c, "b", st.b, flags)
      q == mode_process_excepts(r.c, st.e, flags)
  IN  [c |-> q.c, out |-> r.out \o q.out]

\* modebuf_flush: lines of at most MAXMODEPARAMS arguments; a line names what
\* it takes away before what it adds.
RECURSIVE LinesOf(_)
LinesOf(out) ==
  IF out = <<>> THEN <<>>
  ELSE LET n == Min({Len(out), MAXMODEPARAMS})
           now == SubSeq(out, 1, n)
           of(d) == SelectSeq(now, LAMBDA x : x.dir = d)
       IN  <<of("-") \o of("+")>> \o LinesOf(SubSeq(out, n + 1, Len(out)))


\* The line sent back to undo a change: the senses are reversed, so what it
\* had added is named first.
BounceOf(line) ==
  LET flip(x) == [x EXCEPT !.dir = IF @ = "+" THEN "-" ELSE "+"]
      of(d) == SelectSeq(line, LAMBDA x : x.dir = d)
  IN  [i \in DOMAIN line |-> flip((of("+") \o of("-"))[i])]

\* What the peer does with the lines of a MODE from an operator.
ApplyLines(c, lines) ==
  FoldLeft(LAMBDA d, line : mode_parse_lists(d, line, {"SET"}).c, c, lines)

(***************************************************************************)
(* The verdict and its cache                                               *)
(***************************************************************************)
find_ban(id, list, act) ==
  \E i \in DOMAIN list : id \in BanMatches[list[i]] /\ BanKind[list[i]] \in {"any", act}

\* is_banned, is_excepted: the cached verdict, or a search whose result is
\* cached.  `with` is history: the identity the verdict was found for.
is_banned(c, id, l, act) ==
  IF c.cache[<<l, act>>] # Unknown THEN c
  ELSE [c EXCEPT !.cache[<<l, act>>] = [hit |-> find_ban(id, c[l], act), with |-> {id}]]

Verdict(c, l, act) == c.cache[<<l, act>>].hit

is_excepted(c, id, act) == is_banned(c, id, "e", act)

\* The test `is_banned(member, act) && !is_excepted(member, act)': the cache
\* it leaves, and whether the member is stopped.
Stopped(c, id, act) ==
  LET c1 == is_banned(c, id, "b", act)
      c2 == IF Verdict(c1, "b", act) THEN is_excepted(c1, id, act) ELSE c1
  IN  [c |-> c2, no |-> Verdict(c2, "b", act) /\ ~Verdict(c2, "e", act)]

(***************************************************************************)
(* Initial state                                                           *)
(***************************************************************************)
NewBanChan(ts) ==
  [b |-> <<>>, e |-> <<>>, ts |-> ts, inuse |-> 0, cache |-> [x \in Caches |-> Unknown]]

BanListsInit ==
  /\ banChan = [s \in BanServers |-> NewBanChan(1)]
  /\ banUser \in BanIdentities
  /\ banLinked = TRUE
  /\ banClock = 1

(***************************************************************************)
(* Actions                                                                 *)
(***************************************************************************)
\* A channel operator at s sends MODE; the peer, when linked, executes the
\* lines that come out.  With `how' = "OPMODE" it is an IRC operator's OPMODE.
EditLists(s, edits, how) ==
  /\ \E r \in {mode_parse_lists(banChan[s], edits,
                               IF how = "MODE" THEN {"SET", "LIMIT"} ELSE {"SET"})} :
       banChan' = [banChan EXCEPT ![s] = r.c,
                     ![Peer(s)] = IF banLinked THEN ApplyLines(@, LinesOf(r.out)) ELSE @]
  /\ UNCHANGED <<banUser, banLinked, banClock>>

\* The source of the MODE is, for the peer, no operator (its deop crossed the
\* MODE): the peer executes nothing and returns the undoing lines.
BouncedEdit(s, edits) ==
  /\ banLinked
  /\ \E r \in {mode_parse_lists(banChan[s], edits, {"SET", "LIMIT"})} :
       /\ Len(LinesOf(r.out)) = 1
       /\ \E back \in {mode_parse_lists(banChan[Peer(s)], LinesOf(r.out)[1], {"BOUNCE"})} :
            banChan' = [banChan EXCEPT ![s] = ApplyLines(r.c, <<BounceOf(back.out)>>),
                                       ![Peer(s)] = back.c]
  /\ UNCHANGED <<banUser, banLinked, banClock>>

\* clearmode_lists: empties the lists named in `which`, and forgets the verdicts.
clearmode_lists(c, which) ==
  FoldSet(LAMBDA l, d : Invalidate(free_ban([d EXCEPT ![l] = <<>>], Len(d[l])), l), c, which)

ClearMode(s, which) ==
  /\ banChan' = [banChan EXCEPT ![s] = clearmode_lists(@, which),
                   ![Peer(s)] = IF banLinked THEN clearmode_lists(@, which) ELSE @]
  /\ UNCHANGED <<banUser, banLinked, banClock>>

\* The local member sends to the channel (member_can_send_to_channel, for a
\* member without voice on a channel without +m).
member_can_send_to_channel ==
  /\ banChan' = [banChan EXCEPT !["east"] = Stopped(@, banUser, "quiet").c]
  /\ UNCHANGED <<banUser, banLinked, banClock>>

\* The local member asks for another nick.  find_no_nickchange_channel may
\* stop it; set_nick_name drops the verdicts for nick changes.
find_no_nickchange_channel == Stopped(banChan["east"], banUser, "nick")

DropNickVerdicts(c) ==
  [c EXCEPT !.cache = [x \in Caches |-> IF x[2] = "nick" THEN Unknown ELSE @[x]]]

ChangeNick(id) ==
  LET r == find_no_nickchange_channel
  IN  /\ id # banUser
      /\ banChan' = [banChan EXCEPT !["east"] = IF r.no THEN r.c ELSE DropNickVerdicts(r.c)]
      /\ banUser' = IF r.no THEN banUser ELSE id
      /\ UNCHANGED <<banLinked, banClock>>

\* hide_hostmask, unhide_hostmask: the host the member shows changes, and
\* every verdict is dropped.
ChangeHost(id) ==
  /\ id # banUser
  /\ banUser' = id
  /\ banChan' = [banChan EXCEPT !["east"].cache = [x \in Caches |-> Unknown]]
  /\ UNCHANGED <<banLinked, banClock>>

(***************************************************************************)
(* Split and join                                                          *)
(***************************************************************************)
BanSplit ==
  /\ banLinked
  /\ banLinked' = FALSE
  /\ UNCHANGED <<banChan, banUser, banClock>>

\* While split, everyone leaves the channel at s (sub1_from_channel frees the
\* lists and destroys it) and someone makes it again, with a later time.
Recreate(s) ==
  LET gone == free_ban(banChan[s], Len(banChan[s].b) + Len(banChan[s].e))
  IN  /\ ~banLinked
      /\ banClock < MaxBanClock
      /\ banClock' = banClock + 1
      /\ banChan' = [banChan EXCEPT ![s] = [NewBanChan(banClock + 1) EXCEPT !.inuse = gone.inuse]]
      /\ UNCHANGED <<banUser, banLinked>>

\* ms_burst, the `%' parameter: merge the masks of the burst into one list.
\* Entries to be wiped out do not keep a new ban from being added.
BurstBan(list, m) ==
  LET same == {i \in DOMAIN list : list[i].m = m}
      cover == {i \in DOMAIN list : "WIPE" \notin list[i].fl /\ bmatch(list[i].m, m)}
      stop == same \union cover
      upto == IF stop = {} THEN Len(list) ELSE Min(stop) - 1
      over == [i \in DOMAIN list |->
                 IF i <= upto /\ bmatch(m, list[i].m)
                 THEN [list[i] EXCEPT !.fl = @ \union {"OVER"}] ELSE list[i]]
  IN  IF stop = {} THEN Append(over, Entry(m, {"BURSTED"}))
      ELSE IF Min(stop) \in same
      THEN [over EXCEPT ![Min(stop)].fl = @ \ {"WIPE"}]
      ELSE over

\* What ms_burst does at the end of the message with one list.
BurstList(c, l, incoming, wipeout) ==
  LET start == [i \in DOMAIN c[l] |-> Entry(c[l][i], IF wipeout THEN {"WIPE"} ELSE {})]
      merged == FoldLeft(BurstBan, start, incoming)
      new == Len(merged) - Len(c[l])
      kept == SelectSeq(merged, LAMBDA x : x.fl \intersect {"OVER", "WIPE"} = {})
      c2 == free_ban(make_ban([c EXCEPT ![l] = [i \in DOMAIN kept |-> kept[i].m]], new),
                     Len(merged) - Len(kept))
  IN  IF wipeout \/ new > 0 THEN Invalidate(c2, l) ELSE c2

\* A burst with a later creation time leaves the channel alone; one with an
\* earlier time wipes out what is there.
ms_burst_lists(c, from) ==
  IF from.ts > c.ts THEN c
  ELSE LET w == from.ts < c.ts
       IN  [BurstList(BurstList(c, "b", from.b, w), "e", from.e, w) EXCEPT !.ts = from.ts]

BanJoin ==
  /\ ~banLinked
  /\ banLinked' = TRUE
  /\ banChan' = [s \in BanServers |-> ms_burst_lists(banChan[s], banChan[Peer(s)])]
  /\ UNCHANGED <<banUser, banClock>>

BanListsNext ==
  \/ \E s \in BanServers, edits \in BanEdits, how \in {"MODE", "OPMODE"} : EditLists(s, edits, how)
  \/ \E s \in BanServers, edits \in BanEdits : BouncedEdit(s, edits)
  \/ \E s \in BanServers, which \in SUBSET Lists \ {{}} : ClearMode(s, which)
  \/ member_can_send_to_channel
  \/ \E id \in BanIdentities : ChangeNick(id)
  \/ \E id \in BanIdentities : ChangeHost(id)
  \/ BanSplit
  \/ \E s \in BanServers : Recreate(s)
  \/ BanJoin

BanListsSpec == BanListsInit /\ [][BanListsNext]_banVars

(***************************************************************************)
(* Properties                                                              *)
(***************************************************************************)
Antichain(list) ==
  \A i, j \in DOMAIN list : i # j => ~bmatch(list[i], list[j])

\* The invariant stated above apply_ban: no ban of a list is more specific
\* than another one, whichever of MODE, OPMODE, a bounce, CLEARMODE and a net
\* join edited the list; and every allocated ban is in a list (make_ban and
\* free_ban are paired on every path).
BanListsReduced ==
  \A s \in BanServers :
    /\ \A l \in Lists : Antichain(banChan[s][l])
    /\ banChan[s].inuse = Len(banChan[s].b) + Len(banChan[s].e)

\* A cached verdict is the one a search of the list would give now, for the
\* member's present name where nick changes are concerned.  The verdict for
\* speaking is right for the name it was found with: set_nick_name does not
\* drop it.
BanCacheRight ==
  LET c == banChan["east"]
  IN  \A x \in Caches : \A with \in c.cache[x].with :
        Verdict(c, x[1], x[2])
          <=> find_ban(IF x[2] = "nick" THEN banUser ELSE with, c[x[1]], x[2])

\* While the servers are linked they hold the same bans and exceptions: the
\* lines a server sends describe the edit it made, a bounce undoes it, and a
\* net join leaves both with the less specific masks of the two lists.
BanListsAgree ==
  banLinked => \A l \in Lists :
    ToSet(banChan["east"][l]) = ToSet(banChan["west"][l])
=============================================================================
