---------------------------- MODULE ChannelModes ----------------------------
(***************************************************************************)
(* What lives on a channel besides its members' right to be there: limit,  *)
(* redirection, key and the two passes with their op-levels, invitations,  *)
(* hidden ("delayed") joins, the topic, and the empty channels that wait    *)
(* to be destroyed.  Two linked servers run the same handlers: what one     *)
(* sends, the other executes (ircd/channel.c, m_mode.c, m_opmode.c,         *)
(* m_clearmode.c, m_join.c, m_create.c, m_part.c, m_svsjoin.c, m_svspart.c, *)
(* m_invite.c, m_topic.c, m_destruct.c, destruct_event.c).                  *)
(*                                                                         *)
(* Bans are in module BanLists; zombies, kicks, bounced MODEs and the       *)
(* merging of channels at a net join are in module Channels.                *)
(***************************************************************************)
EXTENDS Integers, FiniteSets, Sequences, SequencesExt, FiniteSetsExt

CONSTANTS
  CmScenes,    \* situations: features, users, the operations they try, and
               \* a bound `until' on the clock and the times a zannel comes back
  CmUsers, CmHome, \* users, and CmUsers -> server
  CmChans,     \* channel names
  MAXCHANS,    \* channels (and invitations) per user
  MAX_BOUNCE,  \* FEAT_MAX_BOUNCE
  MAXOPLEVEL,  \* the op-level of ops without a pass (999 in the code)
  MINUTE, DAYS,\* delays of the two kinds of destruct events
  MaxWire      \* bound: messages under way to one server

VARIABLES
  cmScene,  \* the scene, constant
  cmSrv,    \* server -> its state
  cmWire,   \* server -> messages under way to it
  cmNow     \* the clock, TStime()

cmVars == <<cmScene, cmSrv, cmWire, cmNow>>

CmServers == {"east", "west"}
CmPeer(s) == IF s = "east" THEN "west" ELSE "east"
Services == "services"         \* a services server, behind "west"
NoPass == "none"
ExModes == {"z", "c", "S"}     \* kept in mode.exmode

(***************************************************************************)
(* Channels and memberships                                                *)
(***************************************************************************)
NotOn == [st |-> {}, lvl |-> MAXOPLEVEL]
NoChan ==
  [on |-> FALSE, ts |-> 0, mode |-> {}, limit |-> 0, redir |-> NoPass, key |-> NoPass,
   apass |-> NoPass, upass |-> NoPass, mem |-> [u \in CmUsers |-> NotOn],
   invites |-> <<>>, topic |-> <<NoPass, 0>>]

\* `event' is a destruct event; the lists run from bottom (oldest) to top.
DestructEvent(c, expires) == [c |-> c, expires |-> expires]

MembersOf(ch) == {u \in CmUsers : "on" \in ch.mem[u].st}
OpsOf(ch) == {u \in CmUsers : "o" \in ch.mem[u].st}
find_delayed_joins(ch) == \E u \in CmUsers : "delayed" \in ch.mem[u].st
Event(S, c) == \E l \in {"minute", "days"} : \E i \in DOMAIN S[l] : S[l][i].c = c

Joined(S, u) == {c \in CmChans : u \in MembersOf(S.chan[c])}
MyUser(S, src) == src \in CmUsers /\ CmHome[src] = S.me
Feature(f) == f \in cmScene.features

\* Tell: to every server but the one the command came from (`from').
\* Back: to that server.
Tell(S, m) == IF S.from = CmPeer(S.me) THEN S ELSE [S EXCEPT !.out = Append(@, m)]
Back(S, m) == [S EXCEPT !.out = Append(@, m)]

(***************************************************************************)
(* Invitations: a list on the channel, a list and a counter at the user    *)
(***************************************************************************)
Drop(seq, x) ==
  IF x \in ToSet(seq) THEN RemoveAt(seq, CHOOSE i \in DOMAIN seq :
                              seq[i] = x /\ \A j \in 1..(i - 1) : seq[j] # x)
  ELSE seq

del_invite(S, u, c) ==
  [S EXCEPT !.chan[c].invites = Drop(@, u),
            !.ninv[u] = IF u \in ToSet(S.chan[c].invites) THEN @ - 1 ELSE @,
            !.invited[u] = Drop(@, c)]

add_invite(S, u, c) ==
  LET S1 == del_invite(S, u, c)
      S2 == IF S1.ninv[u] >= MAXCHANS THEN del_invite(S1, u, S1.invited[u][1]) ELSE S1
  IN  [S2 EXCEPT !.chan[c].invites = <<u>> \o @,
                 !.invited[u] = Append(@, c),
                 !.ninv[u] = @ + 1]

IsInvited(S, u, c) == c \in ToSet(S.invited[u])

mode_invite_clear(S, c) ==
  FoldLeft(LAMBDA T, u : del_invite(T, u, c), S, S.chan[c].invites)

(***************************************************************************)
(* Hidden joins                                                            *)
(***************************************************************************)

\* The local mode +d says that some members of a -D channel are still hidden.
CheckDelayedJoins(S, c) ==
  IF "d" \in S.chan[c].mode /\ ~find_delayed_joins(S.chan[c])
  THEN [S EXCEPT !.chan[c].mode = @ \ {"d"}]
  ELSE S

RevealDelayedJoin(S, u, c) ==
  CheckDelayedJoins([S EXCEPT !.chan[c].mem[u].st = @ \ {"delayed"}], c)

RevealDelayedJoinIfNeeded(S, u, c) ==
  IF u \in CmUsers /\ "delayed" \in S.chan[c].mem[u].st THEN RevealDelayedJoin(S, u, c) ELSE S

show_delayed_joins(S, c) ==
  FoldSet(LAMBDA u, T : RevealDelayedJoinIfNeeded(T, u, c), S, CmUsers)

(***************************************************************************)
(* Empty channels                                                          *)
(***************************************************************************)
schedule_destruct_event_1m(S, c) ==
  IF Event(S, c) THEN S
  ELSE [S EXCEPT !.minute = Append(@, DestructEvent(c, cmNow + MINUTE))]

schedule_destruct_event_48h(S, c) ==
  IF Event(S, c) THEN S
  ELSE [S EXCEPT !.days = Append(@, DestructEvent(c, cmNow + DAYS))]

remove_destruct_event(S, c) ==
  LET keep(l) == SelectSeq(l, LAMBDA e : e.c # c)
  IN  [S EXCEPT !.minute = keep(@), !.days = keep(@)]

destruct_channel(S, c) ==
  LET S1 == mode_invite_clear(S, c) IN [S1 EXCEPT !.chan[c] = NoChan]

\* The member is off the list already.
sub1_from_channel(S, c) ==
  LET ch == S.chan[c]
      kind == [S EXCEPT !.chan[c].mode = @ \ {"i"}, !.chan[c].limit = 0]
      bare == mode_invite_clear([kind EXCEPT !.chan[c].mode = {}, !.chan[c].key = NoPass], c)
      wait(T) == IF Feature("ZANNELS")
                 THEN IF cmNow - ch.ts < DAYS THEN schedule_destruct_event_1m(T, c)
                                              ELSE schedule_destruct_event_48h(T, c)
                 ELSE destruct_channel(T, c)
  IN  IF MembersOf(ch) # {} \/ "z" \in ch.mode THEN S
      ELSE IF ch.apass # NoPass THEN wait(kind)
      ELSE IF Feature("OPLEVELS") THEN wait(bare)
      ELSE destruct_channel(bare, c)

remove_user_from_channel(S, u, c) ==
  LET S1 == [S EXCEPT !.chan[c].mem[u] = NotOn]
      S2 == IF "delayed" \in S.chan[c].mem[u].st THEN CheckDelayedJoins(S1, c) ELSE S1
  IN  sub1_from_channel(S2, c)

add_user_to_channel(S, u, c, st, lvl) ==
  LET S1 == [S EXCEPT !.chan[c].mem[u] = [st |-> {"on"} \union st, lvl |-> lvl]]
  IN  IF Event(S, c) THEN remove_destruct_event(S1, c) ELSE S1

(***************************************************************************)
(* MODE: the parser.  A line is a sequence of changes [dir, m, arg].       *)
(***************************************************************************)
\* The state of mode_parse: server S, channel c, source, flags of the caller,
\* what was done, flags to add and delete, members to change, the ModeBuf.
ParseState(S, c, src, flags) ==
  [S |-> S, c |-> c, src |-> src, flags |-> flags, done |-> {}, add |-> {}, del |-> {},
   cli |-> <<>>, mb |-> <<>>,
   member |-> IF "OPMODE" \in flags \/ src \notin MembersOf(S.chan[c]) THEN NoPass ELSE src]

Ch(st) == st.S.chan[st.c]
Put(st, x) == [st EXCEPT !.mb = Append(@, x)]
Done(st, d) == [st EXCEPT !.done = @ \union {d}]
Chg(dir, m, arg) == [dir |-> dir, m |-> m, arg |-> arg]

mode_parse_redir(st, x) ==
  IF \/ x.dir = "+" /\ x.arg = st.c
     \/ x.dir = "-" /\ Ch(st).redir = NoPass
     \/ "redir" \in st.done
  THEN st
  ELSE LET d == Done(st, "redir")
       IN  IF x.dir = "+" /\ Ch(st).redir = x.arg THEN d
           ELSE [Put(d, x) EXCEPT !.S.chan[st.c].redir = IF x.dir = "+" THEN x.arg ELSE NoPass]

mode_parse_limit(st, x) ==
  IF \/ x.dir = "+" /\ x.arg \in {0, Ch(st).limit}
     \/ x.dir = "-" /\ Ch(st).limit = 0
     \/ "limit" \in st.done
  THEN st
  ELSE [Put(Done(st, "limit"), x) EXCEPT !.S.chan[st.c].limit = IF x.dir = "+" THEN x.arg ELSE 0]

\* Keys and passes are set at most once per line, and not removed after.
Once(st, what, dir) ==
  IF dir = "+" THEN <<what, "+">> \notin st.done
  ELSE <<what, "+">> \notin st.done /\ <<what, "-">> \notin st.done

mode_parse_key(st, x) ==
  IF ~Once(st, "key", x.dir) THEN st
  ELSE LET d == Done(st, <<"key", x.dir>>)
           key == Ch(st).key
       IN  IF \/ /\ "FORCE" \notin st.flags
                 /\ IF x.dir = "+" THEN key # NoPass ELSE key # x.arg
              \/ x.dir = "+" /\ key = x.arg
           THEN d
           ELSE [Put(d, x) EXCEPT !.S.chan[st.c].key = IF x.dir = "+" THEN x.arg ELSE NoPass]

IsChannelManager(st) == st.member # NoPass /\ "mgr" \in Ch(st).mem[st.member].st

\* Only the channel manager, or an operator with the privilege to do so
\* through OPMODE, changes the passes at the server of the source.
mode_parse_upass(st, x) ==
  LET ch == Ch(st)
      d == Done(st, <<"upass", x.dir>>)
  IN  IF \/ MyUser(st.S, st.src) /\ "FORCE" \notin st.flags /\ ~IsChannelManager(st)
         \/ ~Once(st, "upass", x.dir)
      THEN st
      ELSE IF \/ /\ "FORCE" \notin st.flags
                 /\ \/ x.dir = "+" /\ (ch.apass \in {NoPass, x.arg} \/ ch.upass # NoPass)
                    \/ x.dir = "-" /\ ch.upass # x.arg
              \/ x.dir = "+" /\ ch.upass = x.arg
      THEN d
      ELSE [Put(d, x) EXCEPT !.S.chan[st.c].upass = IF x.dir = "+" THEN x.arg ELSE NoPass]

mode_parse_apass(st, x) ==
  LET ch == Ch(st)
      d == Done(st, <<"apass", x.dir>>)
      set(T) == IF st.member = NoPass THEN T
                ELSE [T EXCEPT !.S.chan[st.c].mem[st.member].lvl = 0]
  IN  IF \/ /\ MyUser(st.S, st.src)
            /\ \/ /\ "FORCE" \notin st.flags
                  /\ \/ ~IsChannelManager(st)
                     \/ x.dir = "-" /\ (ch.upass # NoPass \/ ch.apass # x.arg)
                     \/ x.dir = "+" /\ ch.apass # NoPass
               \/ x.dir = "-" /\ cmNow - ch.ts >= DAYS /\ st.src \notin cmScene.opers
         \/ ~Once(st, "apass", x.dir)
      THEN st
      ELSE IF x.dir = "+" /\ ch.apass = x.arg THEN d
      ELSE IF x.dir = "+"
      THEN set([Put(d, x) EXCEPT !.S.chan[st.c].apass = IF @ = NoPass THEN x.arg ELSE @])
      ELSE [Put(d, x) EXCEPT
              !.S.chan[st.c] =
                 [@ EXCEPT !.apass = NoPass, !.upass = NoPass,
                           !.mem = [u \in CmUsers |->
                              IF "o" \in @[u].st THEN [@[u] EXCEPT !.lvl = MAXOPLEVEL] ELSE @[u]]]]

\* +o and +v: a later change of the same member and mode replaces an earlier.
mode_parse_client(st, x) ==
  LET i == SelectInSeq(st.cli, LAMBDA y : y.arg.u = x.arg.u /\ y.m = x.m)
  IN  [st EXCEPT !.cli = IF i = 0 THEN Append(@, x) ELSE [@ EXCEPT ![i] = x]]

\* Opposites: +s and +p, +c and +S.
Opposite == [m \in {"s", "p", "c", "S"} |->
               CASE m = "s" -> "p" [] m = "p" -> "s" [] m = "c" -> "S" [] m = "S" -> "c"]

mode_parse_mode(st, x) ==
  LET off == IF x.m \in DOMAIN Opposite THEN {Opposite[x.m]} ELSE {}
  IN  IF x.dir = "+"
      THEN [st EXCEPT !.add = (@ \union {x.m}) \ off, !.del = (@ \ {x.m}) \union off]
      ELSE [st EXCEPT !.add = @ \ {x.m}, !.del = @ \union {x.m}]

\* +z is for services; taking it off an empty channel dooms the channel.
ParsePersist(st, x) ==
  IF st.src # Services THEN st
  ELSE LET T == mode_parse_mode(st, x)
       IN  IF x.dir = "-" /\ MembersOf(Ch(st)) = {}
           THEN [T EXCEPT !.S = schedule_destruct_event_1m(@, st.c)] ELSE T

ParseLetter(st, x) ==
  CASE x.m = "l" -> mode_parse_limit(st, x)
    [] x.m = "L" -> mode_parse_redir(st, x)
    [] x.m = "k" -> mode_parse_key(st, x)
    [] x.m = "A" -> IF Feature("OPLEVELS") \/ ~MyUser(st.S, st.src) THEN mode_parse_apass(st, x) ELSE st
    [] x.m = "U" -> IF Feature("OPLEVELS") \/ ~MyUser(st.S, st.src) THEN mode_parse_upass(st, x) ELSE st
    [] x.m \in {"o", "v"} -> mode_parse_client(st, x)
    [] x.m = "z" -> ParsePersist(st, x)
    [] OTHER -> mode_parse_mode(st, x)

\* The level of a member being opped.
NewOpLevel(st, x) ==
  IF x.m # "o" \/ x.dir = "-" THEN MAXOPLEVEL + 1
  ELSE IF x.arg.lvl <= MAXOPLEVEL THEN x.arg.lvl
  ELSE IF st.member = NoPass THEN MAXOPLEVEL
  ELSE Min({MAXOPLEVEL, Ch(st).mem[st.member].lvl + 1})

\* mode_process_clients, one entry of cli_change.
ProcessClient(st, x) ==
  LET m == Ch(st).mem[x.arg.u]
      me == IF st.member = NoPass THEN NotOn ELSE Ch(st).mem[st.member]
      lvl == NewOpLevel(st, x)
      same == IF x.dir = "+"
              THEN x.m \in m.st /\ (~Feature("ALLOW_OPLEVEL_CHANGE") \/ lvl = m.lvl)
              ELSE x.m \notin m.st
      above == /\ x.dir = "-" /\ x.m = "o"
               /\ MyUser(st.S, st.src) /\ st.member # NoPass /\ st.src # x.arg.u
               /\ m.lvl < me.lvl \/ (m.lvl = me.lvl /\ m.lvl < MAXOPLEVEL)
      shown == IF x.dir = "+" THEN RevealDelayedJoinIfNeeded(st.S, x.arg.u, st.c) ELSE st.S
  IN  IF "on" \notin m.st \/ same \/ above THEN st
      ELSE Put([st EXCEPT !.S = [shown EXCEPT
                  !.chan[st.c].mem[x.arg.u] =
                     [st |-> IF x.dir = "+" THEN @.st \union {x.m} ELSE @.st \ {x.m},
                      lvl |-> IF x.dir = "+" /\ x.m = "o" THEN lvl ELSE @.lvl]]], x)

mode_process_clients(st) == FoldLeft(ProcessClient, st, st.cli)

\* The flags that change, and the invitations that go with +i.
FinishFlags(st) ==
  LET mode == Ch(st).mode
      del == st.del \intersect mode
      add == st.add \ (mode \ del)
      new == (mode \ del) \union add
      S1 == IF "i" \in mode /\ "i" \notin new THEN mode_invite_clear(st.S, st.c) ELSE st.S
      put(T, dir, ms) == FoldSet(LAMBDA m, U : Put(U, Chg(dir, m, NoPass)), T, ms)
  IN  put(put([st EXCEPT !.S = [S1 EXCEPT !.chan[st.c].mode = new]], "-", del), "+", add)

mode_parse(S, c, src, line, flags) ==
  mode_process_clients(FinishFlags(FoldLeft(ParseLetter, ParseState(S, c, src, flags), line)))

\* modebuf_flush: settles what -D and +D mean for the hidden members, and
\* returns the line to send, removals first.  Levels are sent when known and
\* below MAXOPLEVEL.
FlushDelayed(S, c, mb) ==
  LET has(dir) == \E i \in DOMAIN mb : mb[i].dir = dir /\ mb[i].m = "D"
      S1 == IF has("-") /\ {"D", "d"} \intersect S.chan[c].mode = {}
            THEN IF ~Feature("JOIN_ON_REMOVEDELAY") /\ find_delayed_joins(S.chan[c])
                 THEN [S EXCEPT !.chan[c].mode = @ \union {"d"}]
                 ELSE show_delayed_joins(S, c)
            ELSE S
  IN  IF has("+") /\ "d" \in S1.chan[c].mode THEN [S1 EXCEPT !.chan[c].mode = @ \ {"d"}] ELSE S1

LineOf(mb) ==
  LET sent == [i \in DOMAIN mb |->
                 IF mb[i].m \in {"o", "v"} /\ (mb[i].m = "v" \/ mb[i].arg.lvl >= MAXOPLEVEL)
                 THEN [mb[i] EXCEPT !.arg.lvl = MAXOPLEVEL + 1] ELSE mb[i]]
      of(d) == SelectSeq(sent, LAMBDA x : x.dir = d)
  IN  of("-") \o of("+")

modebuf_flush(S, c, src, mb, cmd) ==
  IF mb = <<>> THEN S
  ELSE Tell(FlushDelayed(S, c, mb),
            [cmd |-> cmd, src |-> src, c |-> c, line |-> LineOf(mb), ts |-> S.chan[c].ts])

RunMode(S, c, src, line, flags, cmd) ==
  LET st == mode_parse(S, c, src, line, flags) IN modebuf_flush(st.S, c, src, st.mb, cmd)

\* m_mode, by a channel operator; anyone else changes nothing.
m_mode(S, u, c, line) ==
  IF "o" \in S.chan[c].mem[u].st THEN RunMode(S, c, u, line, {"SET"}, "MODE") ELSE S

mo_opmode(S, u, c, line) == RunMode(S, c, u, line, {"SET", "FORCE", "OPMODE"}, "OPMODE")

\* do_clearmode.  Not sent as MODE: every server clears for itself.  The
\* extended flags are cleared under the names of simple ones in the notice.
do_clearmode(S, u, c, which) ==
  LET ch == S.chan[c]
      mb == IF "D" \in which \intersect ch.mode THEN <<Chg("-", "D", NoPass)>> ELSE <<>>
      any == which \intersect ch.mode # {} \/ ("k" \in which /\ ch.key # NoPass)
             \/ ("l" \in which /\ ch.limit # 0)
             \/ \E v \in MembersOf(ch) : ch.mem[v].st \intersect which # {}
      S1 == IF "i" \in which THEN mode_invite_clear(S, c) ELSE S
      S2 == [S1 EXCEPT !.chan[c] =
               [@ EXCEPT !.mode = @ \ which,
                         !.limit = IF "l" \in which THEN 0 ELSE @,
                         !.mem = [v \in CmUsers |-> [@[v] EXCEPT !.st = @ \ (which \intersect {"o", "v"})]]]]
      S3 == IF any THEN FlushDelayed(S2, c, mb) ELSE S2
  IN  Tell([S3 EXCEPT !.chan[c].key = IF "k" \in which THEN NoPass ELSE @],
           [cmd |-> "CLEARMODE", src |-> u, c |-> c, which |-> which])

(***************************************************************************)
(* JOIN, CREATE, PART                                                      *)
(***************************************************************************)
\* joinbuf_join for a join or a creation.
joinbuf_join(S, u, c, st) ==
  LET ch == S.chan[c]
      lvl == IF ch.apass = NoPass THEN MAXOPLEVEL ELSE IF "mgr" \in st THEN 0 ELSE 1
      hide == IF "D" \in ch.mode /\ "o" \notin st THEN {"delayed"} ELSE {}
  IN  add_user_to_channel(S, u, c, st \union hide, lvl)

get_channel(S, c, ts) ==
  IF S.chan[c].on THEN S ELSE [S EXCEPT !.chan[c] = [NoChan EXCEPT !.on = TRUE, !.ts = ts]]

\* A channel kept alive after its last member left, open to anyone.
IsZannel(ch) == MembersOf(ch) = {} /\ ch.apass = NoPass /\ "z" \notin ch.mode

\* Why a user may not join, in the order of do_join; NoPass when it may.
JoinError(S, u, c, key) ==
  LET ch == S.chan[c]
  IN  IF IsInvited(S, u, c) THEN NoPass
      ELSE IF ch.key # NoPass /\ key # ch.key THEN "key"
      ELSE IF ch.key # NoPass /\ Feature("FLEXIBLEKEYS") THEN NoPass
      ELSE IF "i" \in ch.mode THEN "inviteonly"
      ELSE IF ch.limit # 0 /\ Cardinality(MembersOf(ch)) >= ch.limit THEN "full"
      ELSE NoPass

\* Join, and have the server op the user if the join gave ops.
JoinAs(S, u, c, st) ==
  LET S1 == Tell(joinbuf_join(S, u, c, st),
                 [cmd |-> "JOIN", src |-> u, c |-> c, ts |-> S.chan[c].ts])
      lvl == IF S.chan[c].apass = NoPass THEN MAXOPLEVEL ELSE IF "mgr" \in st THEN 0 ELSE 1
  IN  IF "o" \in st
      THEN modebuf_flush(S1, c, S.me, <<Chg("+", "o", [u |-> u, lvl |-> lvl])>>, "MODE")
      ELSE S1

Create(S, u, c) ==
  Tell(joinbuf_join(get_channel(S, c, cmNow), u, c, {"o", "mgr"}),
       [cmd |-> "CREATE", src |-> u, c |-> c, ts |-> cmNow])

Older(S, c) == [S EXCEPT !.chan[c].ts = @ + 1]

RECURSIVE do_join(_, _, _, _, _)
do_join(S, u, c, key, level) ==
  LET ch == S.chan[c]
      in(st, T) == del_invite(JoinAs(T, u, c, st), u, c)
  IN  IF level > MAX_BOUNCE \/ u \in MembersOf(ch) THEN S
      ELSE IF ~ch.on THEN del_invite(Create(S, u, c), u, c)
      ELSE IF ch.redir # NoPass /\ Cardinality(MembersOf(ch)) >= ch.limit
      THEN do_join(S, u, ch.redir, key, level + 1)
      ELSE IF key # NoPass /\ key = ch.apass THEN in({"o", "mgr"}, S)
      ELSE IF key # NoPass /\ key = ch.upass THEN in({"o"}, S)
      ELSE IF IsZannel(ch) THEN in({"o"}, Older(S, c))
      ELSE IF JoinError(S, u, c, key) # NoPass THEN S
      ELSE in({}, S)

m_join(S, u, c, key) ==
  IF Cardinality(Joined(S, u)) >= MAXCHANS THEN S ELSE do_join(S, u, c, key, 0)

\* ms_svsjoin at the user's server: no mode keeps the user out.
ms_svsjoin(S, u, c) ==
  IF u \in MembersOf(S.chan[c]) THEN S
  ELSE del_invite(IF ~S.chan[c].on THEN Create(S, u, c)
                  ELSE IF IsZannel(S.chan[c]) THEN JoinAs(Older(S, c), u, c, {"o"})
                  ELSE JoinAs(S, u, c, {}), u, c)

m_part(S, u, c) ==
  Tell(remove_user_from_channel(S, u, c), [cmd |-> "PART", src |-> u, c |-> c])

\* JOIN 0 (last0): out of every channel.
last0(S, u) ==
  FoldSet(LAMBDA c, T : remove_user_from_channel(T, u, c),
          Tell(S, [cmd |-> "JOIN0", src |-> u]), Joined(S, u))

(***************************************************************************)
(* Topic, invitations, talk                                                *)
(***************************************************************************)
do_settopic(S, u, c, topic, time) ==
  LET ch == S.chan[c]
      S1 == Tell([S EXCEPT !.chan[c].topic = <<topic, time>>],
                 [cmd |-> "TOPIC", src |-> u, c |-> c, ts |-> ch.ts, topic |-> topic, time |-> time])
  IN  IF ch.topic[1] # topic THEN RevealDelayedJoinIfNeeded(S1, u, c) ELSE S1

\* A local member speaks: not on a +m channel without voice; it is shown.
client_can_send_to_channel(S, u, c) ==
  S.chan[c].mem[u].st \intersect {"o", "v"} # {} \/ "m" \notin S.chan[c].mode

m_topic(S, u, c, topic) ==
  IF \/ u \notin MembersOf(S.chan[c])
     \/ "t" \in S.chan[c].mode /\ "o" \notin S.chan[c].mem[u].st
     \/ ~client_can_send_to_channel(S, u, c)
  THEN S
  ELSE do_settopic(RevealDelayedJoinIfNeeded(S, u, c), u, c, topic, cmNow)

\* PRIVMSG goes to the peer when members are there.
Say(S, u, c) ==
  IF u \notin MembersOf(S.chan[c]) \/ ~client_can_send_to_channel(S, u, c) THEN S
  ELSE LET T == RevealDelayedJoinIfNeeded(S, u, c)
       IN  IF \E v \in MembersOf(S.chan[c]) : CmHome[v] # S.me
           THEN Tell(T, [cmd |-> "PRIVMSG", src |-> u, c |-> c]) ELSE T

m_invite(S, u, v, c) ==
  IF "o" \notin S.chan[c].mem[u].st \/ v \in MembersOf(S.chan[c]) THEN S
  ELSE IF MyUser(S, v) THEN add_invite(S, v, c)
  ELSE Tell(S, [cmd |-> "INVITE", src |-> u, u |-> v, c |-> c, ts |-> S.chan[c].ts])

(***************************************************************************)
(* Handlers of messages from the other server                              *)
(***************************************************************************)
\* A MODE with an earlier time stamp brings the channel to that time; one
\* with a later time is sent back reversed (what it does to keys on the way is
\* in module Channels).
Reversed(line) ==
  [i \in DOMAIN line |-> [Reverse(line)[i] EXCEPT !.dir = IF @ = "+" THEN "-" ELSE "+"]]

ms_mode(S, m) ==
  IF ~S.chan[m.c].on THEN S
  ELSE IF m.ts > S.chan[m.c].ts
  THEN LET mb == mode_parse(S, m.c, m.src, m.line, {"FORCE"}).mb
       IN  IF mb = <<>> THEN S
           ELSE Back(S, [cmd |-> "MODE", src |-> S.me, c |-> m.c, line |-> Reversed(LineOf(mb)),
                         ts |-> S.chan[m.c].ts])
  ELSE RunMode([S EXCEPT !.chan[m.c].ts = m.ts], m.c, m.src, m.line, {"SET", "FORCE"}, "MODE")

ms_opmode(S, m) ==
  IF ~S.chan[m.c].on THEN S
  ELSE RunMode(S, m.c, m.src, m.line, {"SET", "FORCE", "OPMODE"}, "OPMODE")

ms_clearmode(S, m) == IF ~S.chan[m.c].on THEN S ELSE do_clearmode(S, m.src, m.c, m.which)

\* ms_join: an earlier time, or a join to a zannel, wipes out the modes, but
\* not the extended ones.  A JOIN without a time (0) never does.
ms_join(S, m) ==
  LET ch == S.chan[m.c]
      wipe == [ch EXCEPT !.ts = m.ts, !.mode = @ \intersect ({"d"} \union ExModes), !.limit = 0, !.key = NoPass,
                 !.upass = NoPass, !.apass = NoPass,
                 !.mem = [v \in CmUsers |-> [@[v] EXCEPT !.st = @ \ {"o", "v"}]]]
      mb == IF "D" \in ch.mode THEN <<Chg("-", "D", NoPass)>> ELSE <<>>
      S1 == IF ~ch.on THEN get_channel(S, m.c, m.ts)
            ELSE IF m.ts # 0 /\ (m.ts < ch.ts \/ IsZannel(ch))
            THEN FlushDelayed([S EXCEPT !.chan[m.c] = wipe], m.c, mb)
            ELSE S
  IN  IF m.src \in MembersOf(ch) THEN S ELSE joinbuf_join(S1, m.src, m.c, {})

\* ms_create: the later creator of a live channel joins without ops; its +o
\* is bounced.
ms_create(S, m) ==
  LET ch == S.chan[m.c]
      bad == ch.on /\ m.ts > ch.ts /\ ~IsZannel(ch)
  IN  IF m.src \in MembersOf(ch) THEN S
      ELSE IF bad
      THEN Back(joinbuf_join(S, m.src, m.c, {}),
                [cmd |-> "MODE", src |-> S.me, c |-> m.c, ts |-> ch.ts,
                 line |-> <<Chg("-", "o", [u |-> m.src, lvl |-> MAXOPLEVEL + 1])>>])
      ELSE joinbuf_join([get_channel(S, m.c, m.ts) EXCEPT !.chan[m.c].ts = m.ts], m.src, m.c, {"o"})

ms_part(S, m) ==
  IF m.src \in MembersOf(S.chan[m.c]) THEN remove_user_from_channel(S, m.src, m.c) ELSE S

ms_topic(S, m) ==
  LET ch == S.chan[m.c]
  IN  IF ~ch.on \/ ch.ts < m.ts \/ ch.topic[2] > m.time THEN S
      ELSE do_settopic(S, m.src, m.c, m.topic, m.time)

ms_invite(S, m) ==
  LET ch == S.chan[m.c]
  IN  IF \/ ~ch.on \/ m.ts > ch.ts \/ m.src \notin MembersOf(ch) \/ m.u \in MembersOf(ch)
         \/ ~MyUser(S, m.u)
      THEN S ELSE add_invite(S, m.u, m.c)

\* exec_expired_destruct_events: the two lists, oldest first, stop at the
\* first event that has not expired.
Expire(S, l) ==
  LET due == {i \in DOMAIN S[l] : \A j \in 1..i : cmNow >= S[l][j].expires}
  IN  FoldSeq(LAMBDA e, T : destruct_channel(remove_destruct_event(
                              Tell(T, [cmd |-> "DESTRUCT", c |-> e.c, ts |-> T.chan[e.c].ts]), e.c), e.c),
              S, Reverse(SubSeq(S[l], 1, Cardinality(due))))

exec_expired_destruct_events(S) == Expire(Expire(S, "minute"), "days")

\* mutant: the sender is not told about a channel that has members here
ms_destruct_silent(S, m) ==
  IF ~S.chan[m.c].on \/ m.ts > S.chan[m.c].ts \/ MembersOf(S.chan[m.c]) # {} THEN S
  ELSE destruct_channel(remove_destruct_event(
         Back(S, [cmd |-> "DESTRUCT", c |-> m.c, ts |-> m.ts]), m.c), m.c)

\* ms_destruct: an empty channel goes, and the message goes back too; one with
\* members is described anew to the sender, as PARTs, JOINs and a MODE.
ms_destruct(S, m) ==
  LET ch == S.chan[m.c]
      each(T, cmd) == FoldSet(LAMBDA u, U : Back(U, [cmd |-> cmd, src |-> u, c |-> m.c, ts |-> 0]),
                              T, MembersOf(ch))
      client(x) == FoldSet(LAMBDA u, q : Append(q, Chg("+", x, [u |-> u, lvl |-> ch.mem[u].lvl])), <<>>,
                           {u \in MembersOf(ch) : x \in ch.mem[u].st})
      flag == FoldSet(LAMBDA x, q : Append(q, Chg("+", x, NoPass)), <<>>, ch.mode \ ({"d"} \union ExModes))
      str(x, v, none) == IF v = none THEN <<>> ELSE <<Chg("+", x, v)>>
      line == client("o") \o client("v") \o flag \o str("k", ch.key, NoPass) \o str("l", ch.limit, 0)
              \o str("U", ch.upass, NoPass) \o str("A", ch.apass, NoPass)
      T == each(each(S, "PART"), "JOIN")
  IN  IF ~ch.on \/ m.ts > ch.ts THEN S
      ELSE IF MembersOf(ch) # {}
      THEN IF line = <<>> THEN T
           ELSE Back(T, [cmd |-> "MODE", src |-> S.me, c |-> m.c, line |-> line, ts |-> ch.ts])
      ELSE destruct_channel(remove_destruct_event(
             Back(S, [cmd |-> "DESTRUCT", c |-> m.c, ts |-> m.ts]), m.c), m.c)

Handle(S, m) ==
  CASE m.cmd = "MODE" -> ms_mode(S, m)
    [] m.cmd = "OPMODE" -> ms_opmode(S, m)
    [] m.cmd = "CLEARMODE" -> ms_clearmode(S, m)
    [] m.cmd = "JOIN" -> ms_join(S, m)
    [] m.cmd = "CREATE" -> ms_create(S, m)
    [] m.cmd = "PART" -> ms_part(S, m)
    [] m.cmd = "JOIN0" -> last0(S, m.src)
    [] m.cmd = "TOPIC" -> ms_topic(S, m)
    [] m.cmd = "PRIVMSG" -> RevealDelayedJoinIfNeeded(S, m.src, m.c)
    [] m.cmd = "INVITE" -> ms_invite(S, m)
    [] m.cmd = "DESTRUCT" -> ms_destruct(S, m)

(***************************************************************************)
(* The two servers                                                         *)
(***************************************************************************)
NewServer(s) ==
  [me |-> s, from |-> NoPass, out |-> <<>>, chan |-> [c \in CmChans |-> NoChan],
   minute |-> <<>>, days |-> <<>>,
   invited |-> [u \in CmUsers |-> <<>>], ninv |-> [u \in CmUsers |-> 0]]

ChannelModesInit ==
  /\ cmScene \in CmScenes
  /\ cmSrv = [s \in CmServers |-> NewServer(s)]
  /\ cmWire = [s \in CmServers |-> <<>>]
  /\ cmNow = 1

\* Server s goes to state S, whose output is put on the wire to the other.
Goes(s, S) ==
  /\ cmSrv' = [cmSrv EXCEPT ![s] = [S EXCEPT !.out = <<>>, !.from = NoPass]]
  /\ Len(cmWire[CmPeer(s)]) + Len(S.out) <= MaxWire
  /\ cmWire' = [cmWire EXCEPT ![CmPeer(s)] = @ \o S.out]
  /\ UNCHANGED <<cmScene, cmNow>>

WiresEmpty == \A s \in CmServers : cmWire[s] = <<>>

\* Users act when no message is under way, except in the scenes made for
\* crossing messages; a timer's DESTRUCT may follow any of them.
Quiet == \A s \in CmServers : \A i \in DOMAIN cmWire[s] : cmWire[s][i].cmd = "DESTRUCT"
MayAct(op) ==
  /\ op \in cmScene.ops
  /\ WiresEmpty \/ cmScene.cross = "users" \/ (cmScene.cross = "timers" /\ Quiet)

Home(u) == cmSrv[CmHome[u]]

UserJoins(u, c, key) ==
  /\ MayAct("JOIN") /\ u \in cmScene.users /\ c \in cmScene.chans
  /\ Home(u).chan[c].on \/ u \in cmScene.founders
  /\ Home(u).chan[c].ts <= cmScene.until
  /\ Goes(CmHome[u], m_join(Home(u), u, c, key))
UserParts(u, c) ==
  MayAct("PART") /\ u \in MembersOf(Home(u).chan[c]) /\ Goes(CmHome[u], m_part(Home(u), u, c))
UserLeavesAll(u) == MayAct("JOIN0") /\ Joined(Home(u), u) # {} /\ Goes(CmHome[u], last0(Home(u), u))
UserMode(u, c, line) ==
  MayAct("MODE") /\ u \in MembersOf(Home(u).chan[c]) /\ Goes(CmHome[u], m_mode(Home(u), u, c, line))
OperMode(u, c, line) ==
  MayAct("OPMODE") /\ u \in cmScene.opers /\ Home(u).chan[c].on /\ Goes(CmHome[u], mo_opmode(Home(u), u, c, line))
OperClears(u, c, which) ==
  /\ MayAct("CLEARMODE") /\ u \in cmScene.opers /\ Home(u).chan[c].on
  /\ Goes(CmHome[u], do_clearmode(Home(u), u, c, which))
UserTopic(u, c, t) == MayAct("TOPIC") /\ Home(u).chan[c].on /\ Goes(CmHome[u], m_topic(Home(u), u, c, t))
UserSays(u, c) == MayAct("PRIVMSG") /\ Home(u).chan[c].on /\ Goes(CmHome[u], Say(Home(u), u, c))
UserInvites(u, v, c) ==
  MayAct("INVITE") /\ u \in MembersOf(Home(u).chan[c]) /\ Goes(CmHome[u], m_invite(Home(u), u, v, c))

\* Services reach "west" first: SVSJOIN, SVSPART of its users, MODE +z (which
\* they set while the channel has members) and -z.
ServicesJoin(u, c) ==
  /\ MayAct("SVSJOIN") /\ u \in cmScene.users /\ c \in cmScene.chans /\ CmHome[u] = "west"
  /\ Goes("west", ms_svsjoin(cmSrv["west"], u, c))
ms_svspart(u, c) ==
  /\ MayAct("SVSPART") /\ CmHome[u] = "west" /\ u \in MembersOf(cmSrv["west"].chan[c])
  /\ Goes("west", m_part(cmSrv["west"], u, c))
ServicesMode(c, line) ==
  /\ MayAct("SVSMODE") /\ cmSrv["west"].chan[c].on
  /\ line[1].dir = "+" => MembersOf(cmSrv["west"].chan[c]) # {}
  /\ Goes("west", ms_mode(cmSrv["west"], [src |-> Services, c |-> c, line |-> line,
                                         ts |-> cmSrv["west"].chan[c].ts]))

Deliver(s) ==
  /\ cmWire[s] # <<>>
  /\ \E S \in {Handle([cmSrv[s] EXCEPT !.from = CmPeer(s)], Head(cmWire[s]))} :
       /\ cmSrv' = [cmSrv EXCEPT ![s] = [S EXCEPT !.out = <<>>, !.from = NoPass]]
       /\ cmWire' = [cmWire EXCEPT ![s] = Tail(@), ![CmPeer(s)] = @ \o S.out]
  /\ UNCHANGED <<cmScene, cmNow>>

\* mutant: the events of the second list are not looked at
Due_minute(s) == cmSrv[s].minute # <<>> /\ cmNow >= Head(cmSrv[s].minute).expires

\* The timer runs exec_expired_destruct_events again and again.
Due(s) ==
  \E l \in {"minute", "days"} : cmSrv[s][l] # <<>> /\ cmNow >= Head(cmSrv[s][l]).expires

DestructTimer(s) ==
  /\ Due(s)
  /\ Goes(s, exec_expired_destruct_events(cmSrv[s]))

\* Messages and due events are handled well within a tick.
CanTick == "TICK" \in cmScene.ops /\ cmNow < cmScene.until /\ WiresEmpty
Tick ==
  /\ CanTick
  /\ cmNow' = cmNow + 1
  /\ UNCHANGED <<cmScene, cmSrv, cmWire>>

ChannelModesNext ==
  \/ \E u \in CmUsers, c \in CmChans, key \in cmScene.keys : UserJoins(u, c, key)
  \/ \E u \in CmUsers, c \in CmChans : UserParts(u, c)
  \/ \E u \in CmUsers : UserLeavesAll(u)
  \/ \E u \in CmUsers, c \in CmChans, line \in cmScene.lines : UserMode(u, c, line)
  \/ \E u \in CmUsers, c \in CmChans, line \in cmScene.lines : OperMode(u, c, line)
  \/ \E u \in CmUsers, c \in CmChans, which \in cmScene.clears : OperClears(u, c, which)
  \/ \E u \in CmUsers, c \in CmChans, t \in {"t1", "t2"} : UserTopic(u, c, t)
  \/ \E u \in CmUsers, c \in CmChans : UserSays(u, c)
  \/ \E u, v \in CmUsers, c \in CmChans : UserInvites(u, v, c)
  \/ \E u \in CmUsers, c \in CmChans : ServicesJoin(u, c)
  \/ \E u \in CmUsers, c \in CmChans : ms_svspart(u, c)
  \/ \E c \in CmChans, line \in cmScene.svslines : ServicesMode(c, line)
  \/ \E s \in CmServers : Deliver(s)
  \/ \E s \in CmServers : DestructTimer(s)
  \/ Tick

\* The timers fire and the links carry messages; the clock runs whatever the
\* servers do.
ChannelModesFair ==
  /\ \A s \in CmServers :
       /\ []<>(cmWire[s] = <<>>) \/ []<><<Deliver(s)>>_cmVars
       /\ []<>~Due(s) \/ []<><<DestructTimer(s)>>_cmVars
  /\ <>[]~CanTick \/ []<><<Tick>>_cmVars

ChannelModesSpec == ChannelModesInit /\ [][ChannelModesNext]_cmVars /\ ChannelModesFair

(***************************************************************************)
(* Properties                                                              *)
(***************************************************************************)
Times(x, seq) == Cardinality({i \in DOMAIN seq : seq[i] = x})

\* The invitations of a channel and those of a user mirror each other, none
\* is there twice, and the counter that limits a user's invitations to
\* MAXCHANS counts them: add_invite, del_invite, -i, a join, CLEARMODE and the
\* end of a channel all keep the three in step.
InvitesPaired ==
  \A s \in CmServers, u \in CmUsers :
    LET S == cmSrv[s]
    IN  /\ S.ninv[u] = Len(S.invited[u])
        /\ S.ninv[u] <= MAXCHANS
        /\ \A c \in CmChans :
             /\ Times(c, S.invited[u]) = Times(u, S.chan[c].invites)
             /\ Times(c, S.invited[u]) <= 1

\* A member is hidden only while the channel says so: by +D, or by the local
\* mode +d after +D was taken off; and +d goes with the last hidden member
\* and with a new +D.
HiddenAnnounced ==
  \A s \in CmServers, c \in CmChans :
    LET ch == cmSrv[s].chan[c]
    IN  /\ find_delayed_joins(ch) => {"D", "d"} \intersect ch.mode # {}
        /\ "d" \in ch.mode => find_delayed_joins(ch) /\ "D" \notin ch.mode

\* A channel without members is on its way out (it has exactly one destruct
\* event) or is kept by +z; a channel with members has no such event, so that
\* no channel is destroyed under its members; and no event outlives its channel.
EmptyChannels ==
  \A s \in CmServers, c \in CmChans :
    LET S == cmSrv[s]
        events == Times(c, [i \in DOMAIN S.minute |-> S.minute[i].c])
                  + Times(c, [i \in DOMAIN S.days |-> S.days[i].c])
    IN  /\ events <= 1
        /\ events = 1 => S.chan[c].on /\ MembersOf(S.chan[c]) = {}
        /\ S.chan[c].on /\ MembersOf(S.chan[c]) = {} /\ "z" \notin S.chan[c].mode => events = 1

\* What the servers are meant to agree on about a channel.
Shared(ch) ==
  [on |-> ch.on, ts |-> ch.ts, mode |-> ch.mode \ {"d"}, limit |-> ch.limit, redir |-> ch.redir,
   key |-> ch.key, apass |-> ch.apass, upass |-> ch.upass, topic |-> ch.topic,
   mem |-> [u \in CmUsers |-> [st |-> ch.mem[u].st \intersect {"on", "o", "v"},
                               lvl |-> IF u \in OpsOf(ch) THEN ch.mem[u].lvl ELSE MAXOPLEVEL]]]

\* When no message is under way the two servers describe every channel alike:
\* modes, limit, redirection, key, passes, members, ops, op-levels, topic and
\* creation time; and a channel is never both secret and private.  Each server
\* parses for itself, against its own state and with different rights, the
\* line the other built; DESTRUCTs cross joins and other DESTRUCTs.  (Crossing
\* commands of users are the subject of module Channels.)
ModesAgree ==
  WiresEmpty /\ cmScene.cross # "users" => \A c \in CmChans :
    /\ Shared(cmSrv["east"].chan[c]) = Shared(cmSrv["west"].chan[c])
    /\ ~({"s", "p"} \subseteq cmSrv["east"].chan[c].mode)

\* A channel nobody joins again after its last member left is destroyed once
\* its delay is over (an expiry beyond the clock's bound is never reached).
Doomed(s, c) ==
  \E l \in {"minute", "days"} : \E i \in DOMAIN cmSrv[s][l] :
    cmSrv[s][l][i].c = c /\ cmSrv[s][l][i].expires <= cmScene.until

EmptyGone == \A s \in CmServers, c \in CmChans : Doomed(s, c) ~> ~Doomed(s, c)
=============================================================================
