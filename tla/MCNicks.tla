------------------------------ MODULE MCNicks -------------------------------
EXTENDS Nicks, TLC

CONSTANTS s1, s2, s3, n1, n2, h1, h2

\* s1 - s2 - s3
MCLine == [s \in {s1, s2, s3} |->
             [h \in {s1, s2, s3} |-> IF s = s2 \/ h = s2 \/ s = h THEN h ELSE s2]]

\* Two servers link, split and link again while users take the same nicks.
MCPair == [net |-> {s1, s2}, nicks |-> {n1, n2}, hosts |-> {h1, h2}, slots |-> 2, time |-> 1,
           acts |-> 2, links |-> 2, ops |-> {"nick", "quit", "split"}, fair |-> FALSE]

\* Collisions, KILLs and SQUITs meet on the server in the middle.
MCMiddle == [net |-> {s1, s2, s3}, nicks |-> {n1}, hosts |-> {h1, h2}, slots |-> 2, time |-> 0,
             acts |-> 2, links |-> 2, ops |-> {"kill", "split"}, fair |-> FALSE]

\* A server has one slot: numerics are used again at once.
MCSlot == [net |-> {s1, s2}, nicks |-> {n1, n2}, hosts |-> {h1}, slots |-> 1, time |-> 0,
           acts |-> 3, links |-> 1, ops |-> {"nick", "quit", "kill"}, fair |-> TRUE]

\* Services rename users that change nick themselves.
MCSvsnick == [net |-> {s1, s2}, nicks |-> {n1, n2}, hosts |-> {h1}, slots |-> 2, time |-> 1,
              acts |-> 3, links |-> 1, ops |-> {"svsnick", "nick"}, fair |-> FALSE]

MCScenes == {MCPair, MCMiddle, MCSlot, MCSvsnick}
=============================================================================
