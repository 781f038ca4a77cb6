------------------------------ MODULE MCDelivery ------------------------------
\* The scenes of message delivery: three servers in a line, and four in a star.
EXTENDS Delivery, Private, TLC

Line == [a |-> [a |-> "a", b |-> "b", c |-> "b"], b |-> [a |-> "a", b |-> "b", c |-> "c"],
         c |-> [a |-> "b", b |-> "b", c |-> "c"]]

NoChan == [members |-> {}, mode |-> {}, status |-> <<>>]

PlainNet == [next |-> Line, home |-> [u1 |-> "a", u2 |-> "a", u3 |-> "b", u4 |-> "c"],
          flag |-> [u1 |-> {}, u2 |-> {}, u3 |-> {}, u4 |-> {}],
          chans |-> [ch |-> [members |-> {"u1", "u2", "u3", "u4"}, mode |-> {"n"},
                             status |-> [u1 |-> {"op"}, u2 |-> {}, u3 |-> {"half"},
                                         u4 |-> {"voice"}]]],
          hidden |-> [ch |-> {}], zombies |-> {}, burst |-> {}, silences |-> [u \in
             {"u1", "u2", "u3", "u4"} |-> {}], forward |-> {}, masks |-> [m |-> {"u2", "u4"}],
          wild |-> {}, his_wallops |-> FALSE, nomulti |-> FALSE, wrap |-> 16, marker |-> 1,
          along |-> 0, highest |-> [a |-> "u2", b |-> "c", c |-> "u4"], cmds |-> <<>>]

C(kind, by, to, text) == [kind |-> kind, by |-> by, to |-> to, text |-> text, targets |-> 1]

MCDelivScenes == {
  \* channel messages crossing, with a member leaving
  [PlainNet EXCEPT !.cmds = <<C("privmsg", "u1", "ch", "plain"), C("notice", "u4", "ch", "plain"),
                           C("part", "u3", "ch", ""), C("privmsg", "u3", "ch", "plain")>>],
  \* the marker wraps
  [PlainNet EXCEPT !.cmds = <<C("privmsg", "u1", "ch", "plain"), C("privmsg", "u2", "ch", "plain"),
                           C("nick", "u3", "", ""), C("privmsg", "u4", "ch", "plain")>>,
                !.wrap = 4, !.marker = 2, !.along = 2],
  [PlainNet EXCEPT !.flag.u1 = {"oper"}, !.masks = [m |-> {"u4"}],
                !.cmds = <<C("mask", "u1", "m", ""), C("mask", "u1", "m", ""),
                           C("privmsg", "u1", "ch", "plain"), C("privmsg", "u3", "ch", "plain")>>,
                !.wrap = 4, !.marker = 2, !.along = 2, !.highest.a = "u1"],
  \* hidden members speak
  [PlainNet EXCEPT !.hidden = [ch |-> {"u2", "u4"}],
                !.cmds = <<C("notice", "u4", "ch", "plain"), C("privmsg", "u2", "ch", "plain"),
                           C("nick", "u2", "", ""), C("wallvoices", "u4", "ch", "plain")>>],
  \* walls to part of the channel
  [PlainNet EXCEPT !.flag.u3 = {"deaf"},
                !.cmds = <<C("wallchops", "u4", "ch", "plain"), C("wallhops", "u2", "ch", "plain"),
                           C("wallvoices", "u1", "ch", "plain"), C("privmsg", "u1", "ch", "plain")>>],
  \* masks, walls and server notices
  [PlainNet EXCEPT !.flag = [u1 |-> {"oper", "wallops", "sno"}, u2 |-> {"wallops"}, u3 |-> {"debug"},
                          u4 |-> {"oper", "wallops", "debug"}], !.his_wallops = TRUE,
                !.masks = [m |-> {"u1", "u2", "u4"}, w |-> {}], !.wild = {"w"},
                !.cmds = <<C("masknotice", "u1", "m", ""), C("wallops", "u4", "", ""),
                           C("desynch", "u1", "", ""), C("sno", "b", "", "")>>],
  [PlainNet EXCEPT !.flag = [u1 |-> {"oper", "wallops"}, u2 |-> {"wallops"}, u3 |-> {"cap"},
                          u4 |-> {"oper", "sno"}],
                !.masks = [m |-> {"u3"}, w |-> {}], !.wild = {"w"},
                !.cmds = <<C("mask", "u4", "m", ""), C("wallusers", "u1", "", ""),
                           C("mask", "u1", "w", ""), C("away", "u3", "", ""),
                           C("version", "u2", "", "")>>],
  \* a channel service, a forwarded prefix, silences, a kicked member
  [PlainNet EXCEPT !.flag.u4 = {"service"}, !.forward = {"c"}, !.zombies = {<<"u3", "ch">>},
                !.silences = [u1 |-> {"u2"}, u2 |-> {}, u3 |-> {}, u4 |-> {}],
                !.hidden = [ch |-> {"u4"}],
                !.cmds = <<C("privmsg", "u2", "ch", "prefix"), C("notice", "u4", "ch", "plain"),
                           C("privmsg", "u3", "ch", "plain"), C("privmsg", "u1", "ch", "prefix")>>],
  \* text and channel modes; a link still bursting; a channel of one server
  [PlainNet EXCEPT !.chans = [ch |-> [PlainNet.chans.ch EXCEPT !.mode = {"m", "noctcp", "nocolor"}],
                           lo |-> [members |-> {"u1", "u2"}, mode |-> {"local", "strip"},
                                   status |-> [u1 |-> {}, u2 |-> {}]]],
                !.hidden = [ch |-> {}, lo |-> {}], !.burst = {<<"b", "c">>},
                !.cmds = <<C("privmsg", "u1", "ch", "action"), C("notice", "u3", "ch", "ctcp"),
                           C("privmsg", "u2", "ch", "plain"), C("privmsg", "u3", "ch", "colour"),
                           C("privmsg", "u2", "lo", "colour"), C("notice", "u1", "lo", "colours")>>],
  [PlainNet EXCEPT !.chans.ch.mode = {"nonotice", "nomulti"}, !.chans.ch.members = {"u2", "u4"},
                !.cmds = <<[C("privmsg", "u2", "ch", "plain") EXCEPT !.targets = 2],
                           C("notice", "u4", "ch", "plain"), C("privmsg", "u1", "ch", "plain"),
                           C("nick", "u4", "", "")>>] }

Star == [a |-> [a |-> "a", h |-> "h", b |-> "h", c |-> "h"],
         b |-> [a |-> "h", h |-> "h", b |-> "b", c |-> "h"],
         c |-> [a |-> "h", h |-> "h", b |-> "h", c |-> "c"],
         h |-> [a |-> "a", h |-> "h", b |-> "b", c |-> "c"]]

\* three users of a hub's leaves speak at once
StarScene ==
  [PlainNet EXCEPT !.next = Star, !.home = [u1 |-> "a", u2 |-> "b", u3 |-> "c", u4 |-> "c"],
                !.highest = [a |-> "h", b |-> "h", c |-> "h", h |-> "c"],
                !.cmds = <<C("privmsg", "u1", "ch", "plain"), C("notice", "u2", "ch", "plain"),
                           C("nick", "u3", "", "")>>]

(***************************************************************************)
(* Private messages                                                        *)
(***************************************************************************)
Quiet1 == [next |-> Line, home |-> [v |-> "a", x1 |-> "c", x2 |-> "b", x3 |-> "c"],
           flag |-> [v |-> {}, x1 |-> {}, x2 |-> {}, x3 |-> {}],
           masks |-> [one |-> {"x1"}, two |-> {"x1", "x2"}, far |-> {"x1", "x3"},
                      all |-> {"x1", "x2", "x3"}],
           maxsiles |-> 3, chanmsgs |-> FALSE, chans |-> <<>>, voiced |-> {}, services |-> {},
           limiting |-> FALSE, hash |-> [v |-> 1, x1 |-> 2, x2 |-> 3, x3 |-> 4], reserved |-> 1,
           slots |-> 2, start |-> 2, delay |-> 2, now |-> 0, until |-> 0, again |-> FALSE,
           most |-> 1, cmds |-> <<>>]

Sile(by, ups) == [kind |-> "silence", by |-> by, to |-> "", at |-> "", ups |-> ups]
SileOn(mask) == [add |-> TRUE, mask |-> mask, exc |-> FALSE]
SileOff(mask) == [add |-> FALSE, mask |-> mask, exc |-> FALSE]
OnX(mask) == [add |-> TRUE, mask |-> mask, exc |-> TRUE]
OffX(mask) == [add |-> FALSE, mask |-> mask, exc |-> TRUE]
Text(kind, by, to, at) == [kind |-> kind, by |-> by, to |-> to, at |-> at, ups |-> <<>>]

MCPrivScenes == {
  \* a list that narrows, widens and goes while a remote user writes
  [Quiet1 EXCEPT !.cmds = <<Sile("v", <<SileOn("one")>>), Sile("v", <<SileOn("two")>>), Sile("v", <<SileOff("two")>>),
                            Text("message", "x1", "v", ""), Text("message", "x1", "v", ""),
                            Text("message", "x1", "x2", "")>>],
  [Quiet1 EXCEPT !.cmds = <<Sile("v", <<SileOn("all"), OnX("far")>>), Sile("v", <<OffX("far")>>),
                            Sile("v", <<SileOff("all"), SileOn("one")>>),
                            Text("message", "x3", "v", ""), Text("message", "x2", "v", "")>>],
  [Quiet1 EXCEPT !.cmds = <<Sile("v", <<SileOn("two"), SileOn("all"), OnX("one")>>),
                            Sile("v", <<OnX("two"), SileOff("one")>>),
                            Text("message", "x2", "v", ""), Text("message", "x1", "v", ""),
                            Text("message", "x1", "v", "")>>],
  \* a full list; another server's services change it
  [Quiet1 EXCEPT !.maxsiles = 1,
                 !.cmds = <<Sile("v", <<SileOn("one")>>), Sile("v", <<OnX("far")>>),
                            [Sile("b", <<SileOff("one")>>) EXCEPT !.kind = "service", !.to = "v"],
                            [Sile("c", <<SileOn("all")>>) EXCEPT !.kind = "service", !.to = "v"],
                            Text("message", "x1", "v", "")>>],
  \* with FEAT_SILENCE_CHANMSGS every update is sent
  [Quiet1 EXCEPT !.chanmsgs = TRUE,
                 !.cmds = <<Sile("v", <<SileOn("one")>>), Sile("v", <<SileOn("all")>>), Sile("v", <<SileOff("one")>>),
                            Sile("v", <<OnX("two"), SileOff("far")>>), Text("message", "x1", "v", "")>>],
  \* directed messages, whispers, users who refuse
  [Quiet1 EXCEPT !.flag = [v |-> {"service"}, x1 |-> {"D"}, x2 |-> {"oper"}, x3 |-> {"R", "q"}],
                 !.services = {"a"},
                 !.cmds = <<Text("directed", "x1", "v", "a"), Text("directed", "x1", "x2", "b"),
                            Text("dnotice", "x2", "x1", "c"), Sile("v", <<SileOn("one")>>),
                            Text("message", "x1", "x3", ""), Text("message", "x2", "x3", "")>>],
  [Quiet1 EXCEPT !.chans = [ch |-> {"v", "x1", "x3"}], !.voiced = {<<"x1", "ch">>},
                 !.flag.x3 = {"q"},
                 !.cmds = <<Text("cprivmsg", "x1", "v", ""), Text("cprivmsg", "x3", "v", ""),
                            Text("cnotice", "x1", "v", ""), Text("notice", "v", "x3", ""),
                            Sile("v", <<SileOn("far")>>)>>],
  \* new targets, and one that answers
  [Quiet1 EXCEPT !.limiting = TRUE, !.again = TRUE, !.most = 4, !.now = 10, !.until = 13,
                 !.home = [v |-> "a", x1 |-> "a", x2 |-> "a", x3 |-> "a"],
                 !.cmds = <<Text("message", "v", "x1", ""), Text("message", "v", "x2", ""),
                            Text("message", "v", "x3", ""), Text("message", "x3", "v", "")>>],
  [Quiet1 EXCEPT !.limiting = TRUE, !.again = TRUE, !.most = 5, !.now = 10, !.until = 14,
                 !.slots = 3, !.start = 2, !.home = [v |-> "a", x1 |-> "a", x2 |-> "a", x3 |-> "a"],
                 !.flag.x3 = {"except"},
                 !.hash = [v |-> 5, x1 |-> 1, x2 |-> 2, x3 |-> 3],
                 !.cmds = <<Text("message", "v", "x1", ""), Text("message", "v", "x2", ""),
                            Text("message", "x3", "v", ""), Text("message", "x3", "x2", "")>>]
  }

MCAllDeliv == MCDelivScenes \cup {StarScene}
===============================================================================
