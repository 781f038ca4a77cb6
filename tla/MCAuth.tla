------------------------------- MODULE MCAuth -------------------------------
(* Connections that register, and the IAuth programs; one part in each behaviour. *)
EXTENDS Auth, IAuth, TLC

CONSTANTS c1, c2

VARIABLE part

\* One descriptor, used twice, and an IAuth program that is required, answers late,
\* dies and is restarted, while DNS, ident and timers interleave.
MCIauth == [clients |-> {c1}, ports |-> {"user"}, dns |-> {"none", "query"},
            ident |-> {"none", "connecting", "sent"}, login |-> FALSE, mismatch |-> FALSE,
            iauth |-> TRUE, commands |-> {"U", "N", "C", "D", "K"},
            required |-> TRUE, conns |-> 2, fair |-> FALSE]

\* The other answers of such a program.
MCAnswers == [MCIauth EXCEPT !.ident = {"none"}, !.commands = {"d", "D", "R"}, !.conns = 1]

\* Login on connect, with a service that answers late or never.
MCLogin == [MCIauth EXCEPT !.dns = {"none"}, !.ident = {"none"}, !.login = TRUE,
                           !.commands = {"D"}, !.required = FALSE, !.fair = TRUE]

\* Two descriptors, and a DNS lookup for everyone.
MCPool == [MCIauth EXCEPT !.clients = {c1, c2}, !.ports = {"user"},
                          !.dns = {"query"}, !.ident = {"add_error", "connecting", "send_failed"},
                          !.mismatch = TRUE, !.iauth = FALSE, !.commands = {}]

\* Servers connect again and again: the free list holds several requests.
MCServers == [MCPool EXCEPT !.ports = {"server"}, !.ident = {"connecting"}, !.conns = 3]

MCScenes == {MCIauth, MCAnswers, MCLogin, MCPool, MCServers}

\* A server port that looks up no names.
MCTwice == {[MCPool EXCEPT !.clients = {c1}, !.ports = {"server"}, !.dns = {"none", "query"},
                           !.ident = {"connecting", "send_failed"}, !.conns = 2]}

MCInit ==
  /\ part \in {"registration", "programs"}
  /\ Init /\ IAuthInit
  /\ part = "programs" => scene = CHOOSE sc \in Scenes : ~sc.fair

MCNext ==
  /\ UNCHANGED part
  /\ \/ part = "registration" /\ Next /\ UNCHANGED iauthVars
     \/ part = "programs" /\ IAuthNext /\ UNCHANGED vars

MCVars == <<part, vars, iauthVars>>

\* check_pings is a timer that always sets itself again, so a connection that
\* is not registered is looked at when its time is over.
MCSpec ==
  /\ MCInit
  /\ [][MCNext]_MCVars
  /\ \A c \in Clients : WF_vars(scene.fair /\ check_pings(c))
=============================================================================
