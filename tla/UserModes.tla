----------------------------- MODULE UserModes -----------------------------
(***************************************************************************)
(* What the network knows of one user: the modes, operator status and      *)
(* privileges, account, displayed host, away state and marks (s_user.c,    *)
(* client.c, m_oper.c, m_account.c, m_sethost.c, m_fake.c, m_svsmode.c,     *)
(* m_privs.c, m_swhois.c, m_mark.c, m_away.c).                             *)
(*                                                                         *)
(* The user is a client of server "A".  "B" is the next server, with the   *)
(* services behind it.  um[n] is the user's Client as server n holds it,   *)
(* together with n's two counters; umWire[n] is what is on the way to n.   *)
(* Modes are named by their letters (userModeList).                        *)
(***************************************************************************)
EXTENDS Integers, Sequences, FiniteSets, SequencesExt

CONSTANTS
  UmScenes   \* what a behaviour is about: configuration, commands, their number

VARIABLES um, umWire, umLinked, umLeft, umScene

umVars == <<um, umWire, umLinked, umLeft, umScene>>

None == "none"

userModeList ==
  <<"o", "O", "i", "w", "s", "d", "k", "g", "x", "p", "q", "B", "D", "H", "I", "R", "W", "a", "X", "L", "z",
    "r", "h", "f", "C", "c">>
\* Below FLAG_GLOBAL_UMODES; with an argument; the letters that set and clear one flag.
LocalModes == {"O", "s"}
WithArg == {"r", "h", "f", "C", "c"}
Plain == ToSet(userModeList) \ (WithArg \union {"o", "O", "s", "x"})

\* The bits of a server notice mask: "n" is in both defaults, "h" in SNOMASK_OPERDEFAULT, "c" is
\* one of SNO_OPER.
SNO_OPER == {"c"}
SNO_ALL == {"n", "h", "c"}
SNO_USER == SNO_ALL \ SNO_OPER
SNOMASK_DEFAULT == {"n"}
SNOMASK_OPERDEFAULT == {"n", "h"}

Feature(f) == f \in umScene.features
Style == umScene.style

\* One mode of a mode string: its sign, its letter, its argument <<a>> or no argument <<>>.
Chg(w, m, a) == [w |-> w, m |-> m, a |-> a]
Msg(k, d) == [k |-> k, d |-> d]

RealHost == <<"real">>

\* A Client before registration; counters belong to the server.
Fresh == [on |-> FALSE, flags |-> {}, privs |-> {}, args |-> [m \in WithArg |-> None], host |-> RealHost,
          snomask |-> {}, handler |-> "CLIENT", away |-> None, swhois |-> None, marks |-> {},
          opers |-> 0, inv |-> 0]

Nothing(u) == [u |-> u, out |-> <<>>]

IsAnOper(n, f) == "o" \in f \/ (n = "A" /\ "O" \in f) \/ "a" \in f
\* Operators that the count of operators leaves out.
Uncounted(f) == f \cap {"H", "k", "B"} # {}

-----------------------------------------------------------------------------
(* The displayed host.                                                      *)

user_setcloaked(u) ==
  IF Style \notin {2, 3} THEN u
  ELSE [u EXCEPT !.flags = @ \union {"C", "c"},
                 !.args = [@ EXCEPT !["c"] = IF "c" \in u.flags THEN @ ELSE "cloakip",
                                    !["C"] = IF "C" \in u.flags THEN @ ELSE "cloak"]]

\* Which host a hidden host is replaced by.
NewHost(n, u) ==
  CASE "h" \in u.flags -> <<u.args["h"]>>
    [] "h" \notin u.flags /\ "f" \in u.flags -> <<u.args["f"]>>
    [] u.flags \cap {"h", "f"} = {} /\ (Style = 1 \/ (Style = 3 /\ "r" \in u.flags)) ->
         <<u.args["r"], IF IsAnOper(n, u.flags) /\ "H" \notin u.flags /\ Feature("OPERHOST_HIDING")
                        THEN "HIDDEN_OPERHOST" ELSE "HIDDEN_HOST">>
    [] OTHER -> IF "C" \in u.flags /\ Style \in {2, 3} THEN <<u.args["C"]>> ELSE RealHost

hide_hostmask(n, u) ==
  IF \/ "x" \notin u.flags
     \/ u.flags \cap {"f", "h"} = {} /\ (Style \notin 0 .. 3 \/ (Style = 1 /\ "r" \notin u.flags))
  THEN u
  ELSE LET v == IF "C" \notin u.flags THEN user_setcloaked(u) ELSE u
       IN [v EXCEPT !.host = NewHost(n, v)]

unhide_hostmask(u) == IF "x" \in u.flags THEN u ELSE [u EXCEPT !.host = RealHost]

-----------------------------------------------------------------------------
(* Server notice masks.  A mask in a command is [sign, bits].               *)

umode_make_snomask(old, arg, what) ==
  IF what = "+" /\ arg.bits = SNO_ALL THEN SNO_ALL
  ELSE CASE arg.sign = None -> IF what = "+" THEN arg.bits ELSE old \ arg.bits
         [] arg.sign = what -> old \union arg.bits
         [] OTHER -> old \ arg.bits

set_snomask(n, u, new, how) ==
  LET m == CASE how = "ADD" -> u.snomask \union new
             [] how = "DEL" -> u.snomask \ new
             [] how = "SET" -> new
  IN [u EXCEPT !.snomask = m \cap (IF IsAnOper(n, u.flags) THEN SNO_ALL ELSE SNO_USER)]

-----------------------------------------------------------------------------
(* Mode strings.                                                            *)

\* The modes of a user in a NICK that introduces the user: operator status only when it is
\* propagated, the arguments of the modes that have one.
umode_str(n, u) ==
  LET f == IF n = "A" /\ "PROPAGATE" \notin u.privs THEN u.flags \ {"o"} ELSE u.flags
  IN [flags |-> f \ LocalModes, args |-> [m \in WithArg |-> IF m \in f THEN u.args[m] ELSE None]]

\* The MODE that tells another server of the change from `old' (send_umode with SEND_UMODES or
\* SEND_UMODES_BUT_OPER): only +h carries an argument.
send_umode_out(u, old, prop) ==
  LET seen == LocalModes \union (IF prop THEN {} ELSE {"o"})
      differs(m) == (m \in old) # (m \in u.flags) /\ m \notin seen
      letters == SelectSeq(userModeList, differs)
      mode == [i \in DOMAIN letters |->
                 LET m == letters[i]
                 IN IF m \in old THEN Chg("-", m, <<>>) ELSE Chg("+", m, IF m = "h" THEN <<u.args["h"]>> ELSE <<>>)]
  IN IF mode = <<>> THEN <<>> ELSE <<Msg("MODE", mode)>>

-----------------------------------------------------------------------------
(* set_user_mode.  `c' says who changes the modes: c.server when the change  *)
(* came over a server link, c.svs for SVSMODE, c.force for a MODE of a       *)
(* server about a local user.                                                *)

\* One letter: x is the flags, mask and arguments so far.
ParseMode(n, u, x, ch) ==
  LET set == ch.w = "+"
      Put(f, m) == IF set THEN f \union {m} ELSE f \ {m}
      deoper == IF n = "A" THEN u.snomask \ SNO_OPER ELSE x.mask
  IN CASE ch.m = "s" ->
            LET oper == IsAnOper(n, x.f)
                mask == IF ch.a # <<>>
                        THEN umode_make_snomask(x.mask, ch.a[1], ch.w) \cap (IF oper THEN SNO_ALL ELSE SNO_USER)
                        ELSE IF ~set THEN {} ELSE IF oper THEN SNOMASK_OPERDEFAULT ELSE SNOMASK_DEFAULT
            IN [x EXCEPT !.mask = mask, !.f = IF mask # {} THEN @ \union {"s"} ELSE @ \ {"s"}]
       [] ch.m \in {"o", "O"} ->
            IF set THEN [x EXCEPT !.f = @ \union {ch.m}]
            ELSE [x EXCEPT !.f = @ \ ({"o", "O"} \union (IF ch.m = "o" THEN {"a"} ELSE {})),
                           !.mask = deoper, !.handler = "CLIENT"]
       [] ch.m = "x" ->
            IF ~set /\ ~Feature("ALLOWRMX") /\ Style \notin {2, 3} THEN x ELSE [x EXCEPT !.f = Put(@, "x")]
       [] ch.m = "h" /\ ~set -> [x EXCEPT !.f = @ \ {"h"}]
       [] ch.m \in WithArg /\ set /\ ch.a # <<>> -> [x EXCEPT !.f = @ \union {ch.m}, !.args[ch.m] = ch.a[1]]
       [] ch.m \in Plain -> [x EXCEPT !.f = Put(@, ch.m)]
       [] OTHER -> x

\* The privilege a mode needs, when the user asks for it.
Needs == [k |-> "SERVICE", W |-> "WHOIS_NOTICE", H |-> "HIDE_OPER", p |-> "HIDE_CHANNELS",
          I |-> "HIDE_IDLE", X |-> "XTRAOP"]

\* What is left of what the user asked for: "stop users making themselves operators too easily".
\* (WHOIS_PARANOIA, OPER_HIDE and OPER_XTRAOP are on, DERESTRICT_HIDECHANS is off.)
Evaluate(u, old, f) ==
  LET kept == (f \ ({"o", "O", "r", "c", "C", "f", "h", "z"} \ old)) \union (old \cap {"h", "z"})
      g == IF "ADMIN" \notin u.privs /\ "a" \notin old THEN kept \ {"a"} ELSE kept
      oper == IsAnOper("A", g)
  IN g \ ( {m \in DOMAIN Needs : Needs[m] \notin u.privs}
           \union (IF Feature("WALLOPS_OPER_ONLY") /\ ~oper THEN {"w"} ELSE {})
           \union (IF Feature("HIS_SNOTICES_OPER_ONLY") /\ ~oper /\ "s" \notin old THEN {"s"} ELSE {})
           \union (IF Feature("HIS_DEBUG_OPER_ONLY") /\ ~oper /\ "g" \notin old THEN {"g"} ELSE {})
           \union (IF "x" \notin old /\ Style = 0 THEN {"x"} ELSE {}) )

\* mutant: an operator who turns invisible to the count leaves it only when the status goes too
OpersDelta_uncounted(old, f) ==
  IF "o" \in old /\ "o" \in f THEN 0
  ELSE (IF "o" \in f /\ ~Uncounted(f) THEN 1 ELSE 0) - (IF "o" \in old /\ ~Uncounted(old) THEN 1 ELSE 0)

\* The change of UserStats.opers, a case each for a new operator, a former one, and an operator
\* who hides from the count or shows up in it.
OpersDelta(old, f) ==
  CASE "o" \notin old /\ "o" \in f -> IF ~Uncounted(f) THEN 1 ELSE 0
    [] "o" \in old /\ "o" \notin f -> IF ~Uncounted(old) THEN -1 ELSE 0
    [] "o" \in old /\ "o" \in f /\ ~Uncounted(old) /\ Uncounted(f) -> -1
    [] "o" \in old /\ "o" \in f /\ Uncounted(old) /\ ~Uncounted(f) -> 1
    [] OTHER -> 0

InvDelta(old, f) == (IF "i" \in f \ old THEN 1 ELSE 0) - (IF "i" \in old \ f THEN 1 ELSE 0)

\* What a local user who stops being an operator loses, and the notice mask of a local user.
OwnUser(u, old, mask) ==
  LET v == IF old \cap {"o", "O"} # {} /\ ~IsAnOper("A", u.flags) THEN [u EXCEPT !.privs = {}] ELSE u
  IN IF "s" \in v.flags
     THEN IF mask # v.snomask THEN set_snomask("A", v, mask, "SET") ELSE v
     ELSE set_snomask("A", v, {}, "SET")

\* The part for registered users: counters, handler, privileges, the change told to servers, the
\* host.
ModesRegistered(n, c, v, old0, prop0, rehide0) ==
  LET f == v.flags
      prop == prop0 \/ "PROPAGATE" \in v.privs
      gained == {"o", "O"} \cap (f \ old0)
      lost == {"o", "O"} \cap (old0 \ f)
      counted == [v EXCEPT !.opers = @ + OpersDelta(old0, f), !.inv = @ + InvDelta(old0, f),
                           !.privs = IF "o" \in lost THEN {} ELSE @,
                           !.handler = IF n = "B" THEN @ ELSE IF lost # {} THEN "CLIENT" ELSE IF gained # {} THEN "OPER" ELSE @]
      unset == "h" \in old0 /\ "h" \notin f
      exposed == unset /\ "x" \in f /\ "f" \notin f /\ (Style = 0 \/ Style > 3 \/ (Style = 1 /\ "r" \notin f))
      old == IF unset THEN old0 \ {"h"} ELSE old0      \* "Dont let the user see -h"
      w == IF exposed THEN [counted EXCEPT !.flags = @ \ {"x"}] ELSE counted
      rehide == \/ rehide0
                \/ gained \union lost # {}
                \/ ("H" \in f) # ("H" \in old0)
                \/ unset
                \/ "x" \in f \ old0
      shown == IF "x" \in old /\ "x" \notin w.flags THEN unhide_hostmask(w) ELSE w
  IN [u |-> IF rehide THEN hide_hostmask(n, shown) ELSE shown,
      out |-> IF c.force THEN send_umode_out(w, old, TRUE)
              ELSE IF c.server THEN <<>> ELSE send_umode_out(w, old, prop)]

\* The changes were parsed to x, and f is what may be set.
ModesParsed(n, u, c, x, f) ==
  LET mine == n = "A"
      sethost == IF ~(c.server \/ c.svs) /\ "h" \in f THEN None ELSE x.args["h"]
      prop == mine /\ "PROPAGATE" \in u.privs
      parsed == [u EXCEPT !.flags = f, !.handler = IF mine THEN x.handler ELSE @]
      own == IF mine THEN OwnUser(parsed, u.flags, x.mask) ELSE parsed
      moved == "h" \in f /\ sethost # None /\ ("h" \notin u.flags \/ u.args["h"] # sethost)
      v == [own EXCEPT !.args = [m \in WithArg |->
              CASE m = "h" -> IF moved THEN sethost ELSE u.args["h"]
                [] m # "h" /\ m \in f \ u.flags -> x.args[m]
                [] OTHER -> u.args[m]]]
      old == IF moved THEN u.flags \ {"h"} ELSE u.flags
      rehide == moved /\ "x" \in f
  IN IF u.on THEN ModesRegistered(n, c, v, old, prop, rehide)
     ELSE Nothing(IF rehide THEN hide_hostmask(n, v) ELSE v)

ModesAllowed(n, u, c, x) ==
  ModesParsed(n, u, c, x, IF c.server \/ c.svs THEN x.f ELSE Evaluate(u, u.flags, x.f))

set_user_mode(n, u, c, changes) ==
  ModesAllowed(n, u, c,
    FoldLeft(LAMBDA y, ch : ParseMode(n, u, y, ch),
             [f |-> u.flags, mask |-> u.snomask, args |-> [m \in WithArg |-> None], handler |-> u.handler],
             changes))

-----------------------------------------------------------------------------
(* Operators.  An operator block is [privs, modes, sno, swhois, remote].     *)

\* The privileges a block gives (the defaults of the block's class are in block.privs): without
\* PROPAGATE the ones that would desynchronise servers are withheld.
BlockPrivs(n, block) ==
  (IF "PROPAGATE" \in block.privs THEN block.privs \union {"DISPLAY"} ELSE block.privs \ {"GLINE"})
  \ (IF n = "A" THEN {"REMOTE"} ELSE {})

Server(flags) == [server |-> TRUE, svs |-> FALSE, force |-> "force" \in flags]
Self == [server |-> FALSE, svs |-> FALSE, force |-> FALSE]

\* do_oper for a local user, whose modes are those of the block when it ends.
OperModed(moded, block, told) ==
  LET hidden == IF Style \in {1, 3} THEN hide_hostmask("A", moded.u) ELSE moded.u
      title == IF block.swhois = None THEN <<>> ELSE <<Msg("SWHOIS", block.swhois)>>
  IN [u |-> IF block.swhois = None THEN hidden ELSE [hidden EXCEPT !.swhois = block.swhois],
      out |-> told \o moded.out \o title]

do_oper_local(u, block) ==
  LET privs == BlockPrivs("A", block)
      global == "PROPAGATE" \in privs
      f == (u.flags \ {"o"})
           \union (IF global THEN {"o"} \union (IF "ADMIN" \in privs THEN {"a"} ELSE {}) ELSE {"O"})
           \union {"w", "s", "g"}
      v == [u EXCEPT !.flags = IF global THEN f \ {"O"} ELSE f, !.privs = privs, !.handler = "OPER",
                     !.opers = @ + (IF global /\ ~Uncounted(u.flags) THEN 1 ELSE 0)]
      w == set_snomask("A", v, IF block.sno # {} THEN block.sno ELSE SNOMASK_OPERDEFAULT, "ADD")
      told == <<Msg("PRIVS", [add |-> privs, del |-> {}])>> \o send_umode_out(w, u.flags, global)
  IN OperModed(set_user_mode("A", w, Self, block.modes), block, told)

\* do_oper for a user of another server: the privileges and modes are sent there.
do_oper_remote(u, block) ==
  LET privs == BlockPrivs("B", block)
      letters == IF "PROPAGATE" \notin privs THEN <<"O", "w", "s", "g">>
                 ELSE (IF "ADMIN" \in privs THEN <<"a">> ELSE <<>>) \o <<"o", "w", "s", "g">>
      modes == [i \in DOMAIN letters |-> Chg("+", letters[i], <<>>)]
      more == block.modes \o (IF block.sno = {} THEN <<>> ELSE <<Chg("+", "s", <<[sign |-> "+", bits |-> block.sno]>>)>>)
      done == [u EXCEPT !.privs = privs, !.flags = @ \ {"o"}, !.swhois = IF block.swhois = None THEN @ ELSE block.swhois]
  IN [u |-> IF Style \in {1, 3} THEN hide_hostmask("B", done) ELSE done,
      out |-> <<Msg("PRIVS", [add |-> privs, del |-> {}]), Msg("SMODE", modes)>>
              \o (IF block.modes = <<>> THEN <<>> ELSE <<Msg("SMODE", more)>>)
              \o (IF block.swhois = None THEN <<>> ELSE <<Msg("SWHOIS", block.swhois)>>)]

can_oper(n, block) == n = "A" \/ block.remote

ms_oper(u, block) == IF "o" \in u.flags \/ ~can_oper("B", block) THEN Nothing(u) ELSE do_oper_remote(u, block)

-----------------------------------------------------------------------------
(* Messages of servers about the user; each is handled the same way by every *)
(* server and passed on away from where it came from.                        *)

Rehidden(n, u) == IF Style \in {1, 3} /\ "x" \in u.flags THEN hide_hostmask(n, u) ELSE u

\* type U takes the account away, R sets it, M changes it
ms_account(n, u, d) ==
  LET on(m) == [u |-> Rehidden(n, m), out |-> <<Msg("ACCOUNT", d)>>]
  IN CASE d.type = "U" ->
            IF "r" \notin u.flags THEN Nothing(u)
            ELSE on([u EXCEPT !.flags = @ \ {"r"}, !.args["r"] = None])
       [] d.type \in {"R", "M"} ->
            IF (d.type = "R" /\ "r" \in u.flags) \/ u.args["r"] = d.account THEN Nothing(u)
            ELSE on([u EXCEPT !.flags = @ \union {"r"}, !.args["r"] = d.account])

ms_fake(n, u, host) ==
  IF "f" \in u.flags /\ u.args["f"] = host THEN Nothing(u)
  ELSE [u |-> hide_hostmask(n, [u EXCEPT !.flags = @ \union {"f"}, !.args["f"] = host]), out |-> <<Msg("FAKE", host)>>]

ms_swhois(u, s) == [u |-> [u EXCEPT !.swhois = s], out |-> <<Msg("SWHOIS", s)>>]

\* webirc, geoip, cversion, sslclifp, kill and plain marks: one of each is kept, the plain ones add up
ms_mark(u, d) ==
  [u |-> [u EXCEPT !.marks = (IF d.type = "mark" THEN @ ELSE {x \in @ : x.type # d.type}) \union {d}],
   out |-> <<Msg("MARK", d)>>]

ms_privs(u, d) ==
  [u |-> [u EXCEPT !.privs = (@ \union d.add) \ d.del], out |-> <<Msg("PRIVS", d)>>]

user_set_away(u, m) == [u EXCEPT !.away = m]

ms_away(u, m) == [u |-> user_set_away(u, m), out |-> <<Msg("AWAY", m)>>]

ms_svsmode(n, u, changes) ==
  IF n = "A" THEN set_user_mode("A", u, [server |-> FALSE, svs |-> TRUE, force |-> FALSE], changes)
  ELSE [u |-> u, out |-> <<Msg("SVSMODE", changes)>>]

\* A MODE of a server: applied by the user's own server, passed on by the others.
ms_mode(n, u, changes) ==
  IF n = "A" THEN set_user_mode("A", u, Server({"force"}), changes) ELSE [u |-> u, out |-> <<Msg("SMODE", changes)>>]

-----------------------------------------------------------------------------
(* Registration, introduction to another server and exit.                   *)

\* The end of register_user, for every user: cloaks, host, counters.
Registered(n, u) ==
  LET v == user_setcloaked([u EXCEPT !.on = TRUE])
      w == IF "x" \in v.flags THEN hide_hostmask(n, v) ELSE v
  IN [w EXCEPT !.inv = @ + (IF "i" \in w.flags THEN 1 ELSE 0),
               !.opers = @ + (IF "o" \in w.flags /\ ~Uncounted(w.flags) THEN 1 ELSE 0),
               !.privs = {}]

Introduced(u) ==
  <<Msg("NICK", umode_str("A", u))>>
  \o (IF u.swhois = None THEN <<>> ELSE <<Msg("SWHOIS", u.swhois)>>)
  \o LET marks == SetToSeq(u.marks) IN [i \in DOMAIN marks |-> Msg("MARK", marks[i])]
  \o (IF u.privs = {} THEN <<>> ELSE <<Msg("PRIVS", [add |-> u.privs, del |-> {}])>>)

\* register_user for a local user: the default modes of the block, the spoofed host of the
\* configuration, then as above; the user is introduced.
Spoofed(u, spoof) ==
  IF spoof = None THEN u ELSE [u EXCEPT !.flags = @ \union {"h", "x"}, !.args["h"] = spoof]

register_user_local(u, modes, spoof) ==
  LET Introduce(v) == [u |-> v, out |-> Introduced(v)]
      moded == [set_user_mode("A", u, Self, modes).u EXCEPT !.handler = "CLIENT"]
  IN Introduce(Registered("A", Spoofed(moded, spoof)))

\* set_nick_name for a NICK of a server: the modes with their arguments, then register_user.
set_nick_name_remote(u, d) ==
  LET f == SelectSeq(userModeList, LAMBDA m : m \in d.flags)
      changes == [i \in DOMAIN f |-> Chg("+", f[i], IF f[i] \in WithArg THEN <<d.args[f[i]]>> ELSE <<>>)]
      new == [Fresh EXCEPT !.opers = u.opers, !.inv = u.inv]
  IN Nothing(Registered("B", set_user_mode("B", new, Server({}), changes).u))

\* exit_one_client; nobody else takes the place of the user of "A".
Exited(u) ==
  [Fresh EXCEPT !.handler = None, !.opers = u.opers - (IF "o" \in u.flags /\ ~Uncounted(u.flags) THEN 1 ELSE 0),
                !.inv = u.inv - (IF "i" \in u.flags THEN 1 ELSE 0)]

Handle(n, u, m) ==
  CASE m.k = "NICK" -> set_nick_name_remote(u, m.d)
    [] m.k = "END_OF_BURST" -> Nothing(u)
    [] m.k \notin {"NICK", "END_OF_BURST"} /\ ~u.on -> Nothing(u)            \* findNUser found nobody
    [] m.k = "MODE" /\ u.on -> set_user_mode(n, u, Server({}), m.d)
    [] m.k = "SMODE" /\ u.on -> ms_mode(n, u, m.d)
    [] m.k = "SVSMODE" /\ u.on -> ms_svsmode(n, u, m.d)
    [] m.k = "PRIVS" /\ u.on -> ms_privs(u, m.d)
    [] m.k = "ACCOUNT" /\ u.on -> ms_account(n, u, m.d)
    [] m.k = "FAKE" /\ u.on -> ms_fake(n, u, m.d)
    [] m.k = "SWHOIS" /\ u.on -> ms_swhois(u, m.d)
    [] m.k = "MARK" /\ u.on -> ms_mark(u, m.d)
    [] m.k = "AWAY" /\ u.on -> ms_away(u, m.d)
    [] m.k = "OPER" /\ u.on -> ms_oper(u, m.d)
    [] m.k = "QUIT" /\ u.on -> Nothing(Exited(u))

-----------------------------------------------------------------------------
(* Steps.                                                                   *)

Other(n) == IF n = "A" THEN "B" ELSE "A"

\* A step of server n: r is the user's new state there and what is sent to the other server.
Step(n, r) ==
  /\ um' = [um EXCEPT ![n] = r.u]
  /\ umWire' = IF umLinked THEN [umWire EXCEPT ![Other(n)] = @ \o r.out] ELSE umWire

Asked(op) == umLeft > 0 /\ op \in umScene.ops /\ umLeft' = umLeft - 1 /\ UNCHANGED <<umLinked, umScene>>

Register ==
  /\ ~um["A"].on /\ um["A"].handler = "CLIENT"
  /\ Asked("REGISTER")
  /\ \E modes \in umScene.defaults, spoof \in umScene.spoofs :
       Step("A", register_user_local(um["A"], modes, spoof))

\* MODE of the user
m_mode ==
  /\ um["A"].on /\ Asked("MODE")
  /\ \E i \in DOMAIN umScene.lines : Step("A", set_user_mode("A", um["A"], Self, umScene.lines[i]))

\* OPER of the user, with a block of the own server or of the other one; an operator is only
\* told so (mo_oper).
m_oper ==
  /\ um["A"].on /\ um["A"].handler = "CLIENT" /\ Asked("OPER")
  /\ \E block \in umScene.blocks :
       \/ ~block.remote /\ can_oper("A", block) /\ Step("A", do_oper_local(um["A"], block))
       \/ block.remote /\ umLinked /\ Step("A", [u |-> um["A"], out |-> <<Msg("OPER", block)>>])

\* SETHOST: the host is one the configuration allows, or the user takes it back.  (mo_sethost
\* differs in what it accepts.)
SetHost(host) ==
  LET u == um["A"]
      old == IF host # None THEN u.flags \ {"h"} ELSE u.flags
      v == IF host = None THEN [u EXCEPT !.flags = @ \ {"h"}, !.args["h"] = None]
           ELSE [u EXCEPT !.flags = @ \union {"h", "x"}, !.args["h"] = host]
      w == hide_hostmask("A", v)
  IN [u |-> w, out |-> send_umode_out(w, old, FALSE)]

m_sethost ==
  /\ um["A"].on /\ um["A"].handler = "CLIENT" /\ Asked("SETHOST")
  /\ \E host \in umScene.hosts : Step("A", SetHost(host))

mo_sethost ==
  /\ um["A"].on /\ um["A"].handler = "OPER" /\ Asked("SETHOST")
  /\ \E host \in umScene.hosts :
       (host # None => "FREEFORM" \in um["A"].privs) /\ Step("A", SetHost(host))

\* AWAY: a changed message is not told to other servers, only that there is one.
m_away ==
  /\ um["A"].on /\ Asked("AWAY")
  /\ \E m \in {None, "a1", "a2"} :
       Step("A", [u |-> user_set_away(um["A"], m),
                  out |-> IF m # None /\ um["A"].away # None THEN <<>> ELSE <<Msg("AWAY", m)>>])

Quit ==
  /\ um["A"].on /\ Asked("QUIT")
  /\ Step("A", [u |-> Exited(um["A"]), out |-> <<Msg("QUIT", None)>>])

\* Services send a message about a user they know, once the net burst is over; B handles it first.
Services ==
  /\ um["B"].on /\ \A i \in DOMAIN umWire["B"] : umWire["B"][i].k # "END_OF_BURST"
  /\ Asked("SERVICES")
  /\ \E i \in DOMAIN umScene.services : Step("B", Handle("B", um["B"], umScene.services[i]))

\* Everything else goes on to servers further away only.
Answered == {"OPER", "SMODE", "SVSMODE"}

Deliver(n) ==
  /\ umWire[n] # <<>>
  /\ \E r \in {Handle(n, um[n], Head(umWire[n]))} :
        /\ um' = [um EXCEPT ![n] = r.u]
        /\ umWire' = [umWire EXCEPT ![n] = Tail(@),
                                    ![Other(n)] = IF Head(umWire[n]).k \in Answered THEN @ \o r.out ELSE @]
  /\ UNCHANGED <<umLinked, umLeft, umScene>>

\* The link breaks: what is on the way is lost, B forgets the user.
Split ==
  /\ umLinked /\ umLeft > 0 /\ "SPLIT" \in umScene.ops
  /\ um' = [um EXCEPT !["B"] = IF @.on THEN Exited(@) ELSE @]
  /\ umWire' = [n \in {"A", "B"} |-> <<>>] /\ umLinked' = FALSE /\ umLeft' = umLeft - 1
  /\ UNCHANGED umScene

\* server_estab_users introduces the user again.
server_estab_users ==
  /\ ~umLinked /\ umLinked' = TRUE
  /\ umWire' = [umWire EXCEPT !["B"] = (IF um["A"].on THEN Introduced(um["A"]) ELSE <<>>) \o <<Msg("END_OF_BURST", None)>>]
  /\ UNCHANGED <<um, umLeft, umScene>>

UserModesInit ==
  /\ umScene \in UmScenes
  /\ um = [n \in {"A", "B"} |-> Fresh]
  /\ umWire = [n \in {"A", "B"} |-> <<>>] /\ umLinked = TRUE /\ umLeft = umScene.left

UserModesNext ==
  \/ Register \/ m_mode \/ m_oper \/ m_sethost \/ mo_sethost \/ m_away \/ Quit \/ Services
  \/ Split \/ server_estab_users
  \/ \E n \in {"A", "B"} : Deliver(n)

-----------------------------------------------------------------------------
(* Properties.                                                              *)

\* Both counters of each server are what LUSERS reports: the operators that do not hide from the
\* count and the invisible users (s_user.c, register_user, set_user_mode; m_oper.c, do_oper;
\* s_misc.c, exit_one_client) -- whatever combination of modes changes at once and wherever the
\* change was made.
UsersCounted ==
  \A n \in {"A", "B"} :
    /\ um[n].opers = IF um[n].on /\ "o" \in um[n].flags /\ ~Uncounted(um[n].flags) THEN 1 ELSE 0
    /\ um[n].inv = IF um[n].on /\ "i" \in um[n].flags THEN 1 ELSE 0

\* A local user is served by the operator's handlers exactly while being an operator, gets server
\* notices only with mode s, and those for operators only as one (set_user_mode, set_snomask).
OperHandled ==
  LET u == um["A"]
  IN /\ u.on => (u.handler = "OPER" <=> u.flags \cap {"o", "O"} # {})
     /\ u.snomask # {} => "s" \in u.flags
     /\ u.snomask \cap SNO_OPER # {} => IsAnOper("A", u.flags)

\* When nothing is on the way both servers know the same user: the global modes (operator status
\* only if it is propagated), account, set and fake host, the host shown to users, whether the
\* user is away, the title and the marks (umode_str, send_umode_out, ms_account, ms_fake ...).
\* The scenes without `agree' hold the cases in which the code does not keep them equal.
UsersAgree ==
  umScene.agree /\ umLinked /\ umWire["A"] = <<>> /\ umWire["B"] = <<>> =>
    LET a == um["A"]  b == um["B"]
        F(u) == u.flags \ LocalModes
    IN /\ a.on = b.on
       /\ F(a) = F(b) /\ a.host = b.host
       /\ \A m \in WithArg \cap F(a) : a.args[m] = b.args[m]
       /\ (a.away = None) = (b.away = None)
       /\ a.swhois = b.swhois /\ a.marks = b.marks

\* What servers know of a user, whatever changes cross: both know the same modes, accounts and
\* hosts once nothing is on the way, both count the user rightly, and the user's handlers and
\* notices are those of the modes (set_user_mode, do_oper, umode_str, ms_account, exit_one_client).
UsersKnown == UsersAgree /\ UsersCounted /\ OperHandled
=============================================================================
