------------------------------ MODULE MCUsers ------------------------------
(***************************************************************************)
(* What the network knows of a user (UserModes), what a server keeps of    *)
(* nicknames (History), what it lists to a user (Listing), what users send *)
(* to each other (Delivery, Private) and the network itself (Servers): a   *)
(* behaviour is about one of the six.                                      *)
(***************************************************************************)
EXTENDS UserModes, History, Listing, MCDelivery, MCServers

VARIABLE part

On(m) == Chg("+", m, <<>>)
Off(m) == Chg("-", m, <<>>)

UmScene ==
  [features |-> {}, style |-> 2, ops |-> {}, left |-> 5, defaults |-> {<<>>}, spoofs |-> {None}, lines |-> <<>>,
   blocks |-> {}, hosts |-> {}, services |-> <<>>, agree |-> TRUE]

Block == [privs |-> {"PROPAGATE", "GLINE", "REMOTE"}, modes |-> <<>>, sno |-> {}, swhois |-> None, remote |-> FALSE]
LocalBlock == [Block EXCEPT !.privs = {"GLINE"}]
AdminBlock == [Block EXCEPT !.privs = {"PROPAGATE", "ADMIN", "FREEFORM"}, !.swhois = "title"]

MCUmScenes ==
  { \* operators that hide from the count, several modes at once
    [UmScene EXCEPT !.ops = {"REGISTER", "MODE", "OPER", "QUIT"},
       !.defaults = {<<On("i"), On("o")>>, <<On("B"), On("x")>>},
       !.blocks = {[Block EXCEPT !.privs = @ \union {"HIDE_OPER", "SERVICE"}, !.modes = <<On("H"), Off("i")>>]},
       !.lines = <<<<Off("o"), On("B")>>, <<Off("B"), On("k")>>, <<Off("H"), Off("B"), Off("k")>>,
                  <<On("i"), Off("i")>>, <<On("i"), On("H")>>, <<Off("O")>>, <<Off("w"), On("o"), On("a")>>>>],
    \* operators of a block of the other server, crossing the user's own commands
    [UmScene EXCEPT !.ops = {"REGISTER", "MODE", "OPER", "QUIT", "SPLIT"},
       !.blocks = {[AdminBlock EXCEPT !.remote = TRUE], Block}, !.lines = <<<<On("i"), On("B")>>, <<Off("B")>>>>],
    \* the status taken back between the privileges and the mode, of an administrator with -O, by
    \* services; services give it without the privilege to propagate it
    [UmScene EXCEPT !.ops = {"REGISTER", "MODE", "OPER", "SERVICES", "SPLIT"}, !.left = 4, !.agree = FALSE,
       !.blocks = {[AdminBlock EXCEPT !.remote = TRUE], [LocalBlock EXCEPT !.remote = TRUE, !.sno = {"c"}], Block},
       !.lines = <<<<Off("o")>>, <<Off("O"), On("B")>>, <<Off("B")>>>>,
       !.services = <<Msg("SMODE", <<On("o"), On("i")>>), Msg("SVSMODE", <<On("o"), On("H")>>),
                      Msg("SVSMODE", <<Off("H"), Off("h")>>)>>],
    \* notice masks
    [UmScene EXCEPT !.ops = {"REGISTER", "MODE", "OPER"}, !.left = 6,
       !.blocks = {[LocalBlock EXCEPT !.sno = {"c"}], Block},
       !.lines = <<<<On("s")>>, <<Off("s")>>, <<Chg("+", "s", <<[sign |-> "+", bits |-> {"h", "c"}]>>)>>,
                  <<Chg("+", "s", <<[sign |-> "-", bits |-> {"n"}]>>)>>, <<Off("o")>>, <<Off("O"), On("s")>>>>],
    [UmScene EXCEPT !.ops = {"REGISTER", "MODE", "OPER"}, !.blocks = {Block},
       !.features = {"HIS_SNOTICES_OPER_ONLY", "WALLOPS_OPER_ONLY", "HIS_DEBUG_OPER_ONLY"},
       !.lines = <<<<On("s"), On("w"), On("g")>>, <<Off("s"), Off("g")>>, <<Off("o")>>>>],
    \* services change the modes
    [UmScene EXCEPT !.ops = {"REGISTER", "MODE", "OPER", "SERVICES", "SPLIT"}, !.left = 4, !.blocks = {Block}, !.lines = <<<<On("i"), Off("o")>>, <<Off("x")>>>>,
       !.services = <<Msg("SMODE", <<On("i"), On("B")>>), Msg("SMODE", <<Off("o"), On("H")>>),
                     Msg("SVSMODE", <<On("x"), On("k")>>), Msg("SVSMODE", <<Chg("+", "h", <<"h1">>), Off("i")>>),
                     Msg("PRIVS", [add |-> {"HIDE_OPER"}, del |-> {"GLINE"}])>>],
    \* away, titles and marks
    [UmScene EXCEPT !.ops = {"REGISTER", "AWAY", "OPER", "SERVICES", "QUIT"}, !.blocks = {AdminBlock},
       !.services = <<Msg("MARK", [type |-> "mark", v |-> "m1"]),
                     Msg("MARK", [type |-> "kill", v |-> "m2"]), Msg("MARK", [type |-> "kill", v |-> "m3"])>>],
    [UmScene EXCEPT !.ops = {"REGISTER", "OPER", "SERVICES", "SPLIT"}, !.blocks = {Block},
       !.services = <<Msg("SWHOIS", "other"), Msg("SWHOIS", None), Msg("MARK", [type |-> "mark", v |-> "m1"])>>] }
  \union { \* hosts
    [UmScene EXCEPT !.ops = {"REGISTER", "MODE", "SETHOST", "SERVICES", how[2]}, !.style = how[1],
       !.features = {"OPERHOST_HIDING"}, !.spoofs = {None, "h0"}, !.hosts = {None, "h1", "h2"},
       !.blocks = {AdminBlock}, !.lines = <<<<On("x")>>, <<Off("x"), On("h")>>>>,
       !.services = <<Msg("ACCOUNT", [type |-> "R", account |-> "acc"]), Msg("ACCOUNT", [type |-> "M", account |-> "acd"]),
                     Msg("ACCOUNT", [type |-> "U", account |-> None])>>]
    : how \in {<<2, "SPLIT">>, <<3, "OPER">>} }
  \union { \* hosts made of accounts only
    [UmScene EXCEPT !.ops = {"REGISTER", "MODE", "SETHOST", "SERVICES", "OPER"}, !.style = 1,
       !.features = {"OPERHOST_HIDING", "ALLOWRMX"}, !.hosts = {"h1"}, !.blocks = {Block},
       !.lines = <<<<On("x")>>, <<Off("x")>>, <<Off("o")>>>>,
       !.services = <<Msg("ACCOUNT", [type |-> "R", account |-> "acc"]), Msg("FAKE", "f1"), Msg("FAKE", "f2")>>] }

-----------------------------------------------------------------------------
(* Nicknames.                                                              *)

HistScene ==
  [ops |-> {"NICK"}, clients |-> {"c1", "c2"}, local |-> {"c1", "c2"}, nicks |-> {"n1", "n2", "n3"},
   hash |-> [n1 |-> 0, n2 |-> 1, n3 |-> 0], early |-> {}, lengths |-> {2}, chase |-> 2, jupes |-> {},
   jupeSize |-> 1, jupeMax |-> 0, watches |-> {}, maxWatchs |-> 2, left |-> 5]

W(k, n) == [k |-> k, n |-> n]

MCHistScenes ==
  { [HistScene EXCEPT !.watches = {<<W("+", "n2"), W("-", "n1")>>, <<W("L", ""), W("C", "")>>,
                                   <<W("+", "n1"), W("+", "n3"), W("+", "n2")>>}],
    [HistScene EXCEPT !.clients = {"c1", "r1"}, !.local = {"c1"}, !.left = 5,
                      !.watches = {<<W("+", "n1"), W("S", ""), W("+", "n3")>>, <<W("-", "n3")>>}],
    \* nicknames changed before registration
    [HistScene EXCEPT !.watches = {<<W("+", "n1"), W("+", "n3")>>}, !.early = {"unknown"}],
    \* a short history whose length changes
    [HistScene EXCEPT !.clients = {"r1", "r2"}, !.local = {}, !.ops = {"NICK", "TICK"}, !.lengths = {2, 3},
                      !.nicks = {"n1", "n3"}, !.left = 5],
    \* the table of jupes fills
    [HistScene EXCEPT !.clients = {"c1", "r1"}, !.local = {"c1"}, !.ops = {"NICK", "LOOK"}, !.jupeSize = 3, !.jupeMax = 2,
                      !.jupes = {<<>>, <<"n1", "n3">>, <<"n3", "n2", "n1">>, <<"n2", "n2", "n3">>}, !.left = 5] }

-----------------------------------------------------------------------------
(* Lists of channels.                                                      *)

Ch(u, t, tt, shown, hidden) == [users |-> u, creationtime |-> t, topic_time |-> tt, shown |-> shown, hidden |-> hidden]
ListScene ==
  [oper |-> FALSE, modesOper |-> TRUE, showPrivate |-> FALSE, loose |-> FALSE, default |-> <<>>, chans |-> {"a", "b", "c", "d"},
   hash |-> [a |-> 0, b |-> 0, c |-> 1, d |-> 2], chain |-> <<"a", "b", "c">>, counts |-> {1}, sendq |-> 4, low |-> 2,
   chan |-> [a |-> Ch(2, 10, 0, TRUE, FALSE), b |-> Ch(5, 34, 36, TRUE, FALSE), c |-> Ch(3, 30, 30, FALSE, TRUE), d |-> Ch(0, 40, 40, TRUE, FALSE)],
   params |-> <<<<>>>>, left |-> 3]
U(dir, eq, v) == [t |-> "users", dir |-> dir, eq |-> eq, v |-> v]
T(k, dir, eq, v) == [t |-> k, dir |-> dir, eq |-> eq, v |-> v]
Word(t) == [t |-> t]
Pattern(names, neg) == [t |-> "pattern", names |-> names, neg |-> neg]
MCListScenes ==
  { [ListScene EXCEPT !.params = <<<<>>, <<<<U("<", FALSE, 3)>>>>, <<<<Pattern({"a", "d"}, FALSE)>>>>>>, !.left = 3],
    [ListScene EXCEPT !.oper = TRUE, !.showPrivate = TRUE, !.default = <<U(">", FALSE, 2)>>,
       !.params = <<<<>>, <<<<Word("S"), U(">", TRUE, 3)>>, <<Pattern({"c"}, TRUE)>>>>, <<<<U("<", TRUE, 3), U(">", FALSE, 2), Word("M")>>>>>>],
    [ListScene EXCEPT !.params = <<<<<<T("C", "<", FALSE, 4)>>>>, <<<<T("C", ">", TRUE, 5)>>, <<T("T", "<", TRUE, 5)>>>>,
          <<<<T("T", ">", FALSE, 2)>>, <<U("<", FALSE, 9)>>>> >>, !.left = 2],
    [ListScene EXCEPT !.loose = TRUE, !.left = 2, !.default = <<Word("S")>>,
       !.params = <<<<>>, <<<<U("<", FALSE, 0)>>>>, <<<<T("C", ">", FALSE, 70)>>>>, <<<<T("C", "<", FALSE, 4), T("T", "<", FALSE, 3), U(">", FALSE, 3)>>>>,
          <<<<Word("M")>>>>, <<<<U(">", FALSE, 5), U("<", FALSE, 2)>>>>, <<<<Pattern({"a"}, FALSE), Pattern({"b"}, FALSE)>>>>,
          <<<<[t |-> "channel", names |-> {"a", "c", "d"}]>>>>, <<<<U("<", FALSE, 3)>>, <<[t |-> "channel", names |-> {"a"}]>>>> >>] }

-----------------------------------------------------------------------------

FirstOf(S) == CHOOSE x \in S : TRUE

Init ==
  /\ part \in {"modes", "nicks", "lists", "channels", "private", "servers"}
  /\ UserModesInit /\ (part # "modes" => umScene = CHOOSE x \in UmScenes : {"QUIT", "SPLIT"} \subseteq x.ops)
  /\ HistInit /\ (part # "nicks" => hScene = CHOOSE x \in HistScenes : x.early # {})
  /\ ListInit /\ (part # "lists" => lScene = CHOOSE x \in ListScenes : ~x.oper)
  /\ DvInit /\ (part # "channels" => dScene = FirstOf(DelivScenes))
  /\ PvInit /\ (part # "private" => pScene = FirstOf(PrivScenes))
  /\ SrvInit /\ (part # "servers" => nScene = FirstOf(SrvScenes))

Next ==
  /\ UNCHANGED part
  /\ \/ part = "modes" /\ UserModesNext /\ UNCHANGED <<histVars, listVars, dvVars, pvVars, nwVars>>
     \/ part = "nicks" /\ HistNext /\ UNCHANGED <<umVars, listVars, dvVars, pvVars, nwVars>>
     \/ part = "lists" /\ ListNext /\ UNCHANGED <<umVars, histVars, dvVars, pvVars, nwVars>>
     \/ part = "channels" /\ DvNext /\ UNCHANGED <<umVars, histVars, listVars, pvVars, nwVars>>
     \/ part = "private" /\ PvNext /\ UNCHANGED <<umVars, histVars, listVars, dvVars, nwVars>>
     \/ part = "servers" /\ SrvNext /\ UNCHANGED <<umVars, histVars, listVars, dvVars, pvVars>>

vars == <<umVars, histVars, listVars, dvVars, pvVars, nwVars, part>>

Spec == Init /\ [][Next]_vars
=============================================================================
