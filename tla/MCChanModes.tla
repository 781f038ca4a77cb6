---------------------------- MODULE MCChanModes ----------------------------
(***************************************************************************)
(* Ban lists (BanLists) and the rest of what channels carry (ChannelModes), *)
(* two machines that do not meet: `part' says which one a behaviour is of.  *)
(***************************************************************************)
EXTENDS BanLists, ChannelModes

VARIABLE part

vars == <<part, banVars, cmVars>>

MCMasks == {"all", "a", "qb"}
MCKind == [m \in MCMasks |-> IF m = "qb" THEN "quiet" ELSE "any"]
MCIncludes == [m \in MCMasks |-> IF m = "all" THEN MCMasks ELSE {m}]
MCMatches ==
  [m \in MCMasks |-> CASE m = "all" -> BanIdentities [] m = "a" -> {"a"} [] m = "qb" -> {"b"}]
Edit(d, l, m) == [dir |-> d, list |-> l, m |-> m]
MCEdits ==
  {<<Edit(d, "b", m)>> : d \in {"+", "-"}, m \in MCMasks}
  \union {<<Edit(d, "e", "a")>> : d \in {"+", "-"}}
  \union {<<Edit("-", "b", "all"), Edit("+", "b", "a")>>, <<Edit("+", "b", "qb"), Edit("+", "b", "all")>>,
          <<Edit("+", "b", "a"), Edit("-", "b", "a")>>}

MCHome == [u \in CmUsers |-> IF u = "w1" THEN "west" ELSE "east"]

\* One change of a simple mode, of one with an argument, of a member.
Sw(d, m) == Chg(d, m, NoPass)
Mem(d, m, u) == Chg(d, m, [u |-> u, lvl |-> MAXOPLEVEL + 1])
Singles(S) == {<<x>> : x \in S}

Scene ==
  [features |-> {}, users |-> {"e1", "w1"}, chans |-> {"c"}, until |-> 1, opers |-> {}, cross |-> "none", founders |-> {"e1", "w1"}, ops |-> {}, keys |-> {NoPass},
   lines |-> {}, svslines |-> {}, clears |-> {}]

MCScenes ==
  { \* invitations
    [Scene EXCEPT !.ops = {"JOIN", "PART", "INVITE"}, !.chans = {"c", "d"}],
    [Scene EXCEPT !.ops = {"JOIN", "JOIN0", "INVITE", "MODE", "CLEARMODE", "SVSJOIN", "SVSPART"},
                  !.opers = {"w1"}, !.clears = {{"i", "o"}},
                  !.lines = Singles({Sw(d, "i") : d \in {"+", "-"}})],
    [Scene EXCEPT !.ops = {"JOIN", "PART", "INVITE"}, !.cross = "users"],
    \* empty channels
    [Scene EXCEPT !.features = {"OPLEVELS", "ZANNELS"}, !.cross = "users",
                  !.ops = {"JOIN", "PART", "TICK"}, !.until = 2, !.founders = {"e1"}],
    [Scene EXCEPT !.features = {"OPLEVELS", "ZANNELS"}, !.cross = "timers",
                  !.ops = {"JOIN", "PART", "TICK"}, !.until = 5],
    [Scene EXCEPT !.features = {"OPLEVELS", "ZANNELS"}, !.keys = {NoPass, "pa"}, !.founders = {"e1"},
                  !.ops = {"JOIN", "PART", "MODE", "TICK"}, !.until = 5,
                  !.lines = {<<Chg("+", "A", "pa")>>, <<Chg("-", "A", "pa")>>}],
    [Scene EXCEPT !.features = {"OPLEVELS", "ZANNELS"},
                  !.ops = {"JOIN", "PART", "SVSMODE", "TICK"}, !.until = 5,
                  !.svslines = Singles({Sw(d, "z") : d \in {"+", "-"}})] }
  \union { \* hidden joins
    [Scene EXCEPT !.features = f, !.users = {"e1", "e2", "w1"}, !.opers = {"w1"}, !.founders = {"e1"},
                  !.ops = {"JOIN", "PART", "MODE", "PRIVMSG", "CLEARMODE"}, !.clears = {{"D"}},
                  !.lines = {<<Sw("+", "D")>>, <<Sw("-", "D")>>, <<Sw("-", "D"), Mem("+", "v", "w1")>>,
                             <<Sw("-", "D"), Sw("+", "D")>>}]
    : f \in {{}, {"JOIN_ON_REMOVEDELAY"}} }
  \union { \* modes
    [Scene EXCEPT !.ops = {"JOIN", "MODE", "OPMODE", "CLEARMODE"}, !.opers = {"w1"}, !.founders = {"e1"},
                  !.clears = {{"s", "p", "l", "o"}},
                  !.lines = {<<Sw("+", "s")>>, <<Sw("+", "p")>>, <<Sw("+", "s"), Sw("+", "p"), Sw("-", "s")>>,
                             <<Chg("+", "l", 1), Chg("+", "l", 2)>>, <<Chg("-", "l", NoPass)>>,
                             <<Mem("+", "o", "w1"), Mem("-", "o", "e1")>>, <<Sw("-", "s"), Mem("+", "v", "e1")>>}],
    [Scene EXCEPT !.ops = {"JOIN", "PART", "MODE"}, !.features = {"OPLEVELS"}, !.founders = {"e1"},
                  !.keys = {NoPass, "pa", "pu"},
                  !.lines = {<<Chg("+", "A", "pa")>>, <<Chg("-", "A", "pa")>>, <<Chg("+", "U", "pu")>>,
                             <<Chg("-", "U", "pu"), Chg("-", "A", "pa")>>,
                             <<Mem("+", "o", "w1")>>, <<Mem("-", "o", "w1")>>, <<Mem("-", "o", "e1")>>}],
    [Scene EXCEPT !.ops = {"JOIN", "MODE", "OPMODE", "CLEARMODE"}, !.opers = {"w1"}, !.founders = {"e1"},
                  !.features = {"OPLEVELS"}, !.clears = {{"k", "o"}},
                  !.lines = {<<Chg("+", "k", "k1")>>, <<Chg("-", "k", "k1"), Chg("+", "k", "k2")>>,
                             <<Chg("+", "U", "pu")>>, <<Chg("+", "A", "pa"), Mem("+", "o", "w1")>>}],
    [Scene EXCEPT !.ops = {"JOIN", "PART", "MODE", "TOPIC"}, !.founders = {"e1"},
                  !.lines = {<<Sw("+", "t"), Sw("+", "m")>>, <<Sw("-", "m")>>, <<Sw("+", "D")>>}],
    [Scene EXCEPT !.ops = {"JOIN", "MODE", "JOIN0"}, !.features = {"FLEXIBLEKEYS"}, !.keys = {"k1"},
                  !.founders = {"e1"},
                  !.lines = {<<Chg("+", "L", "d")>>, <<Chg("+", "L", "c"), Chg("-", "L", NoPass)>>,
                             <<Sw("+", "c")>>, <<Sw("+", "S")>>,
                             <<Sw("+", "i"), Chg("+", "k", "k1")>>}] }

Init ==
  /\ part \in {"lists", "modes"}
  /\ BanListsInit /\ (part = "modes" => banUser = "a")
  /\ ChannelModesInit /\ (part = "lists" => cmScene = CHOOSE x \in MCScenes : TRUE)

Next ==
  /\ UNCHANGED part
  /\ \/ part = "lists" /\ BanListsNext /\ UNCHANGED cmVars
     \/ part = "modes" /\ ChannelModesNext /\ UNCHANGED banVars

Spec == Init /\ [][Next]_vars /\ (part = "modes" => ChannelModesFair)


\* Modes, hidden members and empty channels, whatever crosses: linked servers have the same once
\* nothing is on the way, hidden members are announced in time, and a channel without members has
\* its end scheduled (modebuf_*, ms_mode, ms_burst, RevealDelayedJoin, schedule_destruct_event_*).
ChannelsKept == HiddenAnnounced /\ EmptyChannels /\ ModesAgree
=============================================================================
