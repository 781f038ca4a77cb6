----------------------------- MODULE MCChannels -----------------------------
EXTENDS Channels, TLC

CONSTANTS s1, s2, s3, u1, u2, u3

\* s1 - s2 - s3, with a user each
MCLine == [s \in {s1, s2, s3} |->
             [h \in {s1, s2, s3} |-> IF s = s2 \/ h = s2 \/ s = h THEN h ELSE s2]]
MCHome == [u \in {u1, u2, u3} |-> IF u = u1 THEN s1 ELSE IF u = u2 THEN s2 ELSE s3]

\* Everything at once on two linked servers.
MCPair == [net |-> {s1, s2}, linked |-> {s1, s2}, links |-> 0, time |-> 2,
           ops |-> {"part", "kick", "op", "invite", "key"}, acts |-> 4, patient |-> FALSE, fair |-> TRUE]

\* KICKs in both directions and zombies on the server in the middle.
MCKicks == [net |-> {s1, s2, s3}, linked |-> {s1, s2, s3}, links |-> 0, time |-> 1,
            ops |-> {"part", "kick"}, acts |-> 5, patient |-> FALSE, fair |-> FALSE]

\* Users join, leave and are killed while two servers link.
MCLink == [net |-> {s1, s2}, linked |-> {}, links |-> 1, time |-> 1,
           ops |-> {"part", "kick", "kill"}, acts |-> 3, patient |-> FALSE, fair |-> TRUE]

\* The sides of a split use the channel and link again, twice.
MCMerge == [net |-> {s1, s2}, linked |-> {}, links |-> 2, time |-> 3,
            ops |-> {"part", "kick", "op", "invite", "kill", "split"}, acts |-> 4, patient |-> TRUE, fair |-> FALSE]

\* Three servers, two of them linked, that have two channels.
MCThree == [net |-> {s1, s2, s3}, linked |-> {s2, s3}, links |-> 1, time |-> 2,
            ops |-> {"op"}, acts |-> 4, patient |-> TRUE, fair |-> FALSE]

MCScenes == {MCPair, MCKicks, MCLink, MCMerge, MCThree}
MCPatient == {[MCMerge EXCEPT !.ops = {"key"}, !.links = 1, !.time = 2]}
=============================================================================
