------------------------------- MODULE MCBans -------------------------------
EXTENDS Bans, TLC

CONSTANTS s1, s2, s3, m1, m2, m3, m4, r1, r2

\* An address, a host and an address with wildcards, and a channel.
MCText ==
  (m1 :> [form |-> "host", ip |-> TRUE, wilds |-> <<FALSE, FALSE, FALSE, FALSE>>, bits |-> NONE]
   @@ m2 :> [form |-> "host", ip |-> FALSE, wilds |-> <<TRUE, FALSE, FALSE>>, bits |-> NONE]
   @@ m3 :> [form |-> "host", ip |-> TRUE, wilds |-> <<FALSE, FALSE, FALSE, FALSE>>, bits |-> 12]
   @@ m4 :> [form |-> "channel", ip |-> FALSE, wilds |-> <<FALSE>>, bits |-> NONE])

\* s1 - s2 - s3
MCLine == [s \in {s1, s2, s3} |->
             [h \in {s1, s2, s3} |-> IF s = s2 \/ h = s2 \/ s = h THEN h ELSE s2]]

\* Two linked servers; operators do what they like while messages are on the way.
MCPair == [kind |-> "gline", masks |-> {m1}, operforce |-> FALSE, net |-> {s1, s2}, linked |-> {s1, s2}, links |-> 0, time |-> 4,
           durations |-> {1, 2}, reasons |-> {r1}, ops |-> {"global"}, acts |-> 3,
           prompt |-> FALSE, fair |-> TRUE]

\* The same servers; messages take no time.
MCPrompt == [MCPair EXCEPT !.ops = {"global", "remove"}, !.reasons = {r1, r2}, !.time = 5,
                           !.prompt = TRUE, !.fair = FALSE]

\* Local bans and local states, and users who sign on.
MCLocal == [kind |-> "zline", masks |-> {m1}, operforce |-> FALSE, net |-> {s1, s2}, linked |-> {s1, s2}, links |-> 0, time |-> 4,
            durations |-> {0, 1}, reasons |-> {r1}, ops |-> {"global", "status", "local", "users"},
            acts |-> 3, prompt |-> FALSE, fair |-> FALSE]

\* The sides of a split change a ban and link again; no record is forgotten.
MCMerge == [kind |-> "shun", masks |-> {m1}, operforce |-> FALSE, net |-> {s1, s2}, linked |-> {s1, s2}, links |-> 1, time |-> 5,
            durations |-> {4, 5}, reasons |-> {r1, r2}, ops |-> {"global", "remove", "split"},
            acts |-> 3, prompt |-> TRUE, fair |-> FALSE]

\* Three servers, two of them linked.
MCThree == [kind |-> "gline", masks |-> {m1}, operforce |-> FALSE, net |-> {s1, s2, s3}, linked |-> {s2, s3}, links |-> 1, time |-> 5,
            durations |-> {4}, reasons |-> {r1}, ops |-> {"global", "remove"}, acts |-> 4,
            prompt |-> TRUE, fair |-> FALSE]

\* Masks that are too wide, with a "!" and without one, and a channel.
MCWide == [kind |-> "gline", masks |-> {m2, m3}, operforce |-> FALSE, net |-> {s1, s2},
           linked |-> {s1, s2}, links |-> 0, time |-> 3, durations |-> {1}, reasons |-> {r1},
           ops |-> {"global", "local", "users"}, acts |-> 2, prompt |-> FALSE, fair |-> FALSE]
MCForced == [MCWide EXCEPT !.operforce = TRUE, !.durations = {1, 6}]
MCChannel == [MCWide EXCEPT !.masks = {m4}, !.ops = {"global", "remove", "users"}]
MCShunned == [MCWide EXCEPT !.kind = "shun"]
MCZlined == [MCWide EXCEPT !.kind = "zline", !.operforce = TRUE]

MCScenes == {MCWide, MCForced, MCChannel, MCShunned, MCZlined, MCPair, MCPrompt, MCLocal, MCMerge, MCThree}
=============================================================================
