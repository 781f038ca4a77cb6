------------------------------ MODULE MCConfig ------------------------------
\* A server with two users and a peer whose file is edited and read again; and clients that log in with SASL.
EXTENDS Config, Sasl

Class(n, max) == [t |-> "class", name |-> n, max |-> max]
Line(t, name, class, hosts) ==
  [t |-> t, name |-> name, class |-> class, hosts |-> hosts, port |-> 0, maximum |-> 2, redirect |-> FALSE,
   addr |-> "s"]
Port(p, fams) == [t |-> "port", port |-> p, fams |-> fams, fail |-> {"v6"}, mask |-> {"a", "b", "s"}]
Motd(mask, path) == [t |-> "motd", mask |-> mask, path |-> path]
Feature(f, v) == [t |-> "feature", f |-> f, v |-> v]
Entry(l, x) == [t |-> "entry", list |-> l, what |-> x]
File(lines) == [there |-> TRUE, lines |-> lines]
Missing == [there |-> FALSE, lines |-> <<>>]

All == {"a", "b"}
Client(class) == Line("client", "", class, All)
OperLine(class) == Line("oper", "op", class, All)
Server(class) == Line("server", "srv", class, {"s"})
Uworld == Line("uworld", "", "", {"srv"})

Default ==
  [OPLEVELS |-> 0, LOCAL_CHANNELS |-> 1, MAXCHANNELSPERUSER |-> 3, NICKLEN |-> 3, MAXBANS |-> 3, MAXSILES |-> 3,
   MAXIMUM_LINKS |-> 9, CHANNELLEN |-> 3, MPATH |-> "m", RPATH |-> "m", NETWORK |-> "n", NETWORK_REHASH |-> 1,
   MAXWATCHS |-> 3, HALFOPS |-> 0, EXCEPTS |-> 0, MAXEXCEPTS |-> 3, EXTBANS |-> 0, EXTBAN_a |-> 1,
   OMPATH |-> "m", EPATH |-> "e"]
None == [arrive |-> 0, oper |-> 0, deoper |-> 0, connect |-> 0, motd |-> 0, rehash |-> 0, remote |-> 0,
         svsnoop |-> 0, set |-> 0, edit |-> 0, touch |-> 0]

Who == [u |-> [kind |-> "user", name |-> "u", host |-> "a", nr |-> 1, oper |-> "op"],
        v |-> [kind |-> "user", name |-> "v", host |-> "b", nr |-> 1, oper |-> "op"],
        p |-> [kind |-> "server", name |-> "srv", host |-> "s", nr |-> 1, oper |-> ""]]

Base(clients, files) ==
  [who |-> [c \in clients |-> Who[c]], files |-> files, default |-> Default, disk |-> [m |-> 1, e |-> 1, o |-> 1],
   values |-> [f \in DOMAIN Default |-> {}], times |-> None]

MCCfgScenes == {
  \* two users in a class that is dropped and comes back
  [Base({"u", "v"}, <<File(<<Class("c", 3), Client("c"), OperLine("c"), Port(1, {"v4"})>>),
          File(<<Class("d", 2), Client("d"), OperLine("d"), Port(2, {"v4"}), Entry("deny", "b")>>),
          File(<<Class("c", 2), Client("c"), Port(1, {"v4"})>>)>>)
     EXCEPT !.times = [None EXCEPT !.arrive = 2, !.oper = 1, !.edit = 2, !.rehash = 2]],
  \* a peer, whose address must be looked up, and Uworld blocks
  [Base({"p"}, <<File(<<Class("c", 1), [Server("c") EXCEPT !.addr = "none"], Uworld, Port(1, {"v4", "v6"})>>),
          File(<<Class("d", 1), Server("d"), Uworld, Port(1, {"v4"})>>)>>)
     EXCEPT !.times = [None EXCEPT !.arrive = 1, !.connect = 2, !.edit = 1, !.rehash = 2]],
  \* messages of the day by class and by host, shared and edited
  [Base({"u", "v"}, <<File(<<Class("c", 0), Client("c"), Port(1, {"v4"}), Motd("c", "o"), Motd("b", "m")>>),
          File(<<Class("c", 0), Client("c"), Port(1, {"v4"}), Motd("b", "o"), Feature("MPATH", "o")>>)>>)
     EXCEPT !.times = [None EXCEPT !.arrive = 2, !.motd = 1, !.edit = 1, !.rehash = 1, !.touch = 1]],
  \* features set by hand, by the file, and badly
  [Base({"u"}, <<File(<<Feature("MAXIMUM_LINKS", 2), Client("default"), Port(1, {"v4"})>>),
          File(<<Feature("MPATH", "e"), Feature("NETWORK_REHASH", 0), Feature("RPATH", ""),
                 Client("default"), Port(1, {"v4"})>>), Missing>>)
     EXCEPT !.times = [None EXCEPT !.arrive = 1, !.set = 1, !.edit = 2, !.remote = 1, !.rehash = 1],
            !.values = [@ EXCEPT !.MPATH = {"o", ""}, !.MAXIMUM_LINKS = {1}, !.NETWORK_REHASH = {0, 2}]],
  \* what is announced follows the file and the commands
  [Base({"u"}, <<File(<<Feature("EXCEPTS", 1), Feature("OPLEVELS", 1), Feature("EXTBANS", 1), Feature("HALFOPS", 1),
                        Feature("NICKLEN", 4), Feature("CHANNELLEN", 4), Feature("MAXSILES", 4),
                        Feature("MAXWATCHS", 4), Feature("NETWORK", "x"), Feature("LOCAL_CHANNELS", 0),
                        Feature("MAXCHANNELSPERUSER", 4), Client("default"), Port(1, {"v4"})>>),
                 File(<<Feature("EXTBAN_a", 0), Feature("EXTBANS", 1), Client("default"), Port(1, {"v4"})>>)>>)
     EXCEPT !.times = [None EXCEPT !.arrive = 2, !.set = 2, !.edit = 1, !.rehash = 1],
            !.values = [@ EXCEPT !.MAXBANS = {4}, !.MAXEXCEPTS = {5}, !.OPLEVELS = {0, 1}, !.EXTBANS = {0, 1}]],
  \* operators under SVSNOOP
  [Base({"u", "v"}, <<File(<<Class("c", 0), Client("c"), OperLine("c"), Port(1, {"v4"})>>)>>)
     EXCEPT !.times = [None EXCEPT !.arrive = 2, !.oper = 2, !.deoper = 1, !.svsnoop = 2]],
  \* blocks that refuse
  [Base({"u", "v", "p"}, <<File(<<Class("c", 0), [Client("c") EXCEPT !.maximum = 0, !.hosts = {"a"}],
                 [Client("c") EXCEPT !.redirect = TRUE, !.hosts = {"b"}], [Client("c") EXCEPT !.port = 9],
                 Client("x"), [Port(1, {"v6"}) EXCEPT !.port = 0], Port(2, {"v6"}),
                 [Port(1, {"v4"}) EXCEPT !.mask = {"a", "b"}], Entry("quarantine", "q")>>)>>)
     EXCEPT !.times = [None EXCEPT !.arrive = 3, !.rehash = 1]] }

Add(cap) == [cap |-> cap, neg |-> FALSE]
Sub(cap) == [cap |-> cap, neg |-> TRUE]

NoTimes == [come |-> 0, cap |-> 0, auth |-> 0, link |-> 0, split |-> 0, pass |-> 0]

Scene == [slots |-> {1}, agents |-> {}, linked |-> <<>>, server |-> "*", iauth |-> FALSE, pend |-> {},
          malformed |-> {FALSE}, cmds |-> {"REQ", "END"}, lists |-> {<<Add("sasl")>>},
          replies |-> {<<>>, <<"C">>, <<"L", "DS">>}, times |-> NoTimes]

MCSaslScenes == {
  \* capabilities alone
  [Scene EXCEPT !.cmds = {"ACK", "REQ", "CLEAR", "END", "LIST", "LS"},
   !.lists = {<<Add("namesx"), Add("sasl")>>, <<Sub("sasl"), Add("sasl")>>, <<Add("sasl"), Add("other")>>,
              <<Sub("namesx"), Add("none")>>, <<Add("namesx"), Sub("namesx")>>},
   !.times = [NoTimes EXCEPT !.come = 1, !.cap = 4]],
  \* any server may be the agent
  [Scene EXCEPT !.agents = {"s", "t"}, !.linked = [s |-> 1, t |-> 2], !.pend = {"iauth"},
                !.replies = {<<"C">>, <<"L", "DS">>},
                !.times = [NoTimes EXCEPT !.come = 1, !.cap = 2, !.auth = 1, !.split = 1]],
  \* one agent, named by the feature, which comes back, and a descriptor that is used again
  [Scene EXCEPT !.agents = {"s"}, !.linked = [s |-> 1], !.server = "s", !.malformed = {FALSE, TRUE},
                !.replies = {<<"M", "DF">>, <<"DA">>, <<"L", "DS">>},
                !.times = [NoTimes EXCEPT !.come = 2, !.cap = 2, !.auth = 2, !.link = 1, !.split = 1]],
  \* two clients of one agent
  [Scene EXCEPT !.slots = {1, 2}, !.agents = {"s"}, !.linked = [s |-> 1], !.cmds = {"REQ"},
                !.replies = {<<"C">>, <<"L", "DS">>},
                !.times = [NoTimes EXCEPT !.come = 2, !.cap = 2, !.auth = 2, !.split = 1]],
  \* sessions of other servers pass
  [Scene EXCEPT !.agents = {"s", "t"}, !.linked = [s |-> 1, t |-> 2], !.server = "s",
                !.times = [NoTimes EXCEPT !.come = 1, !.cap = 1, !.auth = 1, !.pass = 2]],
  \* IAuth is the agent
  [Scene EXCEPT !.iauth = TRUE, !.pend = {"iauth"}, !.replies = {<<"c">>, <<"l", "f">>, <<"L", "Z">>},
                !.times = [NoTimes EXCEPT !.come = 2, !.cap = 2, !.auth = 2]]
}

VARIABLE part    \* which of the two components this behaviour is about

MCVars == <<cfgVars, saslVars, part>>

FirstOf(S) == CHOOSE x \in S : TRUE

MCInit ==
  /\ part \in {"config", "sasl"}
  /\ CfgInit /\ (part = "config" \/ cfgScene = FirstOf(MCCfgScenes))
  /\ SaslInit /\ (part = "sasl" \/ saslScene = FirstOf(MCSaslScenes))

MCNext ==
  /\ UNCHANGED part
  /\ \/ part = "config" /\ CfgNext /\ UNCHANGED saslVars
     \/ part = "sasl" /\ SaslNext /\ UNCHANGED cfgVars

MCSpec == MCInit /\ [][MCNext]_MCVars /\ SaslFair

============================================================================
