------------------------------ MODULE MCServers ------------------------------
\* Two to four servers that link, break and link again.
EXTENDS Servers

Net(n, links) ==
  [servers |-> 1 .. n, names |-> [i \in 1 .. n |-> i], num |-> [i \in 1 .. n |-> i],
   links |-> links, conf |-> (1 .. n) \X (1 .. n), rules |-> {}, full |-> {}, hub |-> 1 .. n,
   lh |-> [p \in (0 .. n) \X (0 .. n) |-> [max |-> 9, mask |-> 1 .. n]], held |-> {},
   start |-> [i \in 1 .. n |-> 5], off |-> [i \in 1 .. n |-> 0], reliable |-> [i \in 1 .. n |-> FALSE],
   auto |-> [i \in 1 .. n |-> <<>>], freq |-> 2, down |-> {}, cmds |-> <<>>, breaks |-> 0,
   now |-> 10, until |-> 13, apart |-> TRUE, maxexpire |-> 8]

Con(at, to) == [k |-> "connect", at |-> at, to |-> at, name |-> to]
Squit(at, n) == [k |-> "squit", at |-> at, name |-> n]

Far(at, via, to) == [k |-> "connect", at |-> at, to |-> via, name |-> to]
Jup(at, to, n, active, off) ==
  [k |-> "jupe", at |-> at, to |-> to, name |-> n, active |-> active, off |-> off]
Set(at, to, t) == [k |-> "settime", at |-> at, to |-> to, t |-> t]
Clocks(a, b, reliable, cmds) ==
  [Net(2, <<>>) EXCEPT !.start = a, !.off = b, !.reliable = reliable, !.cmds = cmds, !.apart = FALSE,
                       !.until = 12]

MCSrvScenes == {
  \* two servers connect to each other at once
  [Net(2, <<>>) EXCEPT !.cmds = <<Con(1, 2), Con(2, 1)>>, !.breaks = 1],
  \* a triangle is closed from both sides
  [Net(3, <<<<1, 2>>>>) EXCEPT !.cmds = <<Con(2, 3), Con(3, 1)>>, !.until = 11],
  \* a leaf is cut off at one end and connected at the other
  [Net(3, <<<<1, 2>>, <<2, 3>>>>) EXCEPT !.cmds = <<Squit(1, 3), Far(1, 2, 3)>>, !.until = 11],
  \* a link breaks and the server connects again by itself
  [Net(2, <<<<1, 2>>>>) EXCEPT !.auto[1] = <<2>>, !.breaks = 1, !.apart = FALSE],
  \* three Connect blocks, none of which answers
  [Net(4, <<>>) EXCEPT !.auto[1] = <<2, 3, 4>>, !.down = {<<1, 2>>, <<1, 3>>, <<1, 4>>},
                       !.conf = {<<1, 2>>, <<1, 3>>, <<1, 4>>}, !.freq = 1,
                       !.apart = FALSE, !.until = 18],
  \* a server that is no hub, one that may not introduce servers, one with a numeric in use
  [Net(3, <<<<1, 2>>>>) EXCEPT !.hub = {1, 3}, !.cmds = <<Con(3, 2)>>],
  [Net(3, <<<<1, 2>>>>) EXCEPT !.lh[<<1, 2>>] = [max |-> 9, mask |-> {2}], !.cmds = <<Con(3, 2)>>],
  [Net(3, <<<<1, 2>>>>) EXCEPT !.lh[<<1, 2>>] = [max |-> 1, mask |-> 1 .. 3], !.cmds = <<Con(3, 2)>>],
  [Net(3, <<<<1, 2>>>>) EXCEPT !.num[3] = 1, !.cmds = <<Con(3, 2)>>],
  [Net(3, <<<<1, 2>>, <<1, 3>>>>) EXCEPT !.held = {3}, !.cmds = <<Con(3, 2)>>],
  [Net(3, <<<<1, 2>>, <<1, 3>>>>) EXCEPT !.cmds = <<Con(3, 2)>>],
  [Net(3, <<<<1, 2>>>>) EXCEPT !.rules = {<<3, 2>>}, !.conf = {<<1, 3>>, <<3, 2>>},
                               !.cmds = <<Con(3, 2), Con(1, 3)>>],
  \* a server is juped and let in again, at both ends of a link
  [Net(3, <<<<1, 2>>, <<2, 3>>>>) EXCEPT !.cmds = <<Jup(1, 0, 3, TRUE, 8), Jup(2, 0, 3, FALSE, 8),
                                                    Con(3, 2)>>, !.apart = FALSE, !.until = 10],
  [Net(3, <<<<1, 2>>, <<2, 3>>>>) EXCEPT !.cmds = <<Jup(1, 0, 3, TRUE, 8), Jup(1, 2, 3, TRUE, 8),
                                                    Jup(2, -1, 3, FALSE, 8)>>,
                                         !.apart = FALSE, !.until = 10],
  [Net(3, <<<<1, 3>>>>) EXCEPT !.cmds = <<Jup(1, 0, 3, TRUE, 8), Jup(2, 0, 3, FALSE, 8), Con(1, 2)>>,
                               !.apart = FALSE, !.until = 10],
  [Net(2, <<<<1, 2>>>>) EXCEPT !.cmds = <<Jup(1, 0, 2, TRUE, 2)>>, !.auto[1] = <<2>>, !.apart = FALSE,
                               !.until = 14],
  \* clocks that differ
  Clocks(<<3, 5>>, <<0, 9>>, <<FALSE, FALSE>>, <<Con(1, 2)>>),
  Clocks(<<3, 5>>, <<0, 9>>, <<FALSE, FALSE>>, <<Con(2, 1)>>),
  Clocks(<<5, 5>>, <<0, 9>>, <<TRUE, FALSE>>, <<Con(2, 1)>>),
  Clocks(<<5, 3>>, <<0, 9>>, <<TRUE, FALSE>>, <<Con(1, 2)>>),
  [Net(3, <<<<1, 2>>, <<2, 3>>>>) EXCEPT !.cmds = <<Set(1, 3, 7)>>, !.apart = FALSE],
  [Net(3, <<<<1, 2>>, <<2, 3>>>>) EXCEPT !.cmds = <<Set(1, 3, 3)>>, !.reliable[2] = TRUE,
                                         !.off[3] = 9, !.apart = FALSE],
  [Net(2, <<>>) EXCEPT !.cmds = <<Set(1, 1, 0)>>, !.off[1] = 4, !.apart = FALSE] }
=============================================================================
