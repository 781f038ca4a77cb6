------------------------------- MODULE IAuth --------------------------------
(***************************************************************************)
(* The IAuth program as ircd/s_auth.c runs it: a child process behind two  *)
(* socket pairs, one for the protocol and one for its stderr.  It is       *)
(* started from the configuration, kept or replaced on REHASH, restarted   *)
(* by REHASH i, and started again when both sockets of a dead one are      *)
(* destroyed.  Sockets are destroyed at once, in the middle of socket_del, *)
(* unless one of their events is being handled; then it happens after the  *)
(* handler.  Time is reduced to whether an instance was started within the *)
(* last five seconds.                                                      *)
(***************************************************************************)
EXTENDS Naturals, Sequences, FiniteSets

CONSTANTS
  Instances,     \* the IAuth structures malloc may return
  None,          \* the null pointer
  Programs,      \* the programs IAuth blocks may name
  SpawnResults,  \* among "ok", "no_pair" (first socket pair), "no_fork" (later)
  WriteResults,  \* among "all", "blocked", "fail"
  MaxQueue       \* bound: messages in the send queue

ASSUME IAuthConstants ==
  /\ None \notin Instances \cup Programs
  /\ SpawnResults \subseteq {"ok", "no_pair", "no_fork"}
  /\ WriteResults \subseteq {"all", "blocked", "fail"}
  /\ MaxQueue \in Nat

VARIABLES
  iauthActive,    \* the active instance
  inst,     \* the structures
  iauthAborted   \* an assertion of the event engine has failed

iauthVars == <<iauthActive, inst, iauthAborted>>

\* A structure from MyCalloc: descriptor 0 counts as connected.
\* argv is what execvp gets, argc what auth_restart copies.
Blank == [alloc |-> "no", closing |-> FALSE, blocked |-> FALSE, sock |-> FALSE,
          err |-> FALSE, fd |-> TRUE, efd |-> TRUE, writable |-> FALSE, queue |-> 0,
          argv |-> None, argc |-> 0, recent |-> FALSE, child |-> None]

IAuthTypeOK ==
  /\ iauthActive \in Instances \cup {None}
  /\ inst \in [Instances ->
       [alloc : {"no", "yes", "freed"}, closing : BOOLEAN, blocked : BOOLEAN,
        sock : BOOLEAN, err : BOOLEAN, fd : BOOLEAN, efd : BOOLEAN, writable : BOOLEAN,
        queue : 0 .. MaxQueue, argv : Programs \cup {None}, argc : {0, 1},
        recent : BOOLEAN, child : Programs \cup {None}]]
  /\ iauthAborted \in BOOLEAN

IAuthInit ==
  /\ iauthActive = None
  /\ inst = [i \in Instances |-> Blank]
  /\ iauthAborted = FALSE

-----------------------------------------------------------------------------
\* A state is a record w; the operations give the states they may end in.
IAuthNow == [iauth |-> iauthActive, inst |-> inst, aborted |-> iauthAborted]
Then(ws, Op(_)) == UNION {IF w.aborted THEN {w} ELSE Op(w) : w \in ws}

i_GetConnected(w, i) == i # None /\ w.inst[i].fd

RECURSIVE iauth_do_spawn(_, _, _), iauth_write(_, _, _), iauth_disconnect(_, _, _)

\* One more message for the active instance, whoever sends it.
iauth_sendto(w, handling) ==
  LET i == w.iauth
  IN  IF ~i_GetConnected(w, i) THEN {w}
      ELSE iauth_write([w EXCEPT !.inst[i].queue = IF @ = MaxQueue THEN @ ELSE @ + 1],
                       i, handling)

\* A failure after the first socket was added destroys it, and its callback
\* asks for a spawn in vain; its descriptor number stays.  Without arguments
\* there is nothing to execute and the child exits.
iauth_do_spawn(w, i, automatic) ==
  IF automatic /\ w.inst[i].recent THEN {w}
  ELSE LET tried == [w EXCEPT !.inst[i].recent = TRUE]
           added == [tried EXCEPT !.inst[i].sock = TRUE, !.inst[i].fd = TRUE,
                                  !.inst[i].writable = FALSE]
       IN  UNION {CASE how = "no_pair" -> {tried}
                    [] how = "no_fork" -> {[added EXCEPT !.inst[i].sock = FALSE,
                                                         !.inst[i].efd = @ \/ e] : e \in BOOLEAN}
                    [] how = "ok" ->
                         iauth_sendto([added EXCEPT !.inst[i].err = TRUE, !.inst[i].efd = TRUE,
                                                    !.inst[i].child = w.inst[i].argv], "none")
                  : how \in SpawnResults}


ErrDestroyed_eager(w, i) ==
  LET v == [w EXCEPT !.inst[i].err = FALSE]
  IN  IF ~v.inst[i].closing THEN iauth_do_spawn(v, i, TRUE) ELSE {v}

\* ET_DESTROY of the protocol socket and of the stderr socket: the second one
\* to go starts the program again.
SockDestroyed(w, i) ==
  LET v == [w EXCEPT !.inst[i].sock = FALSE]
  IN  IF ~v.inst[i].closing /\ ~v.inst[i].err THEN iauth_do_spawn(v, i, TRUE) ELSE {v}

ErrDestroyed(w, i) ==
  LET v == [w EXCEPT !.inst[i].err = FALSE]
  IN  IF ~v.inst[i].closing /\ ~v.inst[i].sock THEN iauth_do_spawn(v, i, TRUE) ELSE {v}

\* socket_del of a socket that is not active fails an assertion.
Abort(w) == {[w EXCEPT !.aborted = TRUE]}
CloseErr(w, i, handling) ==
  IF ~w.inst[i].efd THEN {w}
  ELSE IF ~w.inst[i].err THEN Abort(w)
  ELSE {[v EXCEPT !.inst[i].efd = FALSE] :
          v \in IF handling = "err" THEN {w} ELSE ErrDestroyed(w, i)}

CloseSock(w, i, handling) ==
  IF ~w.inst[i].fd THEN {w}
  ELSE IF ~w.inst[i].sock THEN Abort(w)
  ELSE {[v EXCEPT !.inst[i].fd = FALSE] :
          v \in IF handling = "sock" THEN {w} ELSE SockDestroyed(w, i)}

\* The error socket is closed first; a descriptor is forgotten after its socket
\* was destroyed.  "handling" is the socket of i whose event is being handled.
iauth_disconnect(w, i, handling) ==
  Then(CloseErr(w, i, handling), LAMBDA v : CloseSock(v, i, handling))

\* Writing to a descriptor that was closed fails.
iauth_write(w, i, handling) ==
  IF w.inst[i].blocked \/ w.inst[i].queue = 0 THEN {w}
  ELSE UNION {CASE how = "all" -> {[w EXCEPT !.inst[i].queue = 0, !.inst[i].writable = FALSE]}
                [] how = "blocked" -> {[w EXCEPT !.inst[i].blocked = TRUE,
                                                 !.inst[i].writable = TRUE]}
                [] how = "fail" -> iauth_disconnect(w, i, handling)
              : how \in IF w.inst[i].sock THEN WriteResults ELSE {"fail"}}

IAuthBecome(w) == iauthActive' = w.iauth /\ inst' = w.inst /\ iauthAborted' = w.aborted
IAuthTake(ws) == ~iauthAborted /\ \E w \in ws : IAuthBecome(w)

-----------------------------------------------------------------------------

\* The instance is disconnected and freed if it is marked.
auth_close_unused(w) ==
  IF w.iauth # None /\ w.inst[w.iauth].closing
  THEN {[v EXCEPT !.inst[w.iauth].alloc = "freed", !.iauth = None]
        : v \in iauth_disconnect(w, w.iauth, "none")}
  ELSE {w}

\* A new structure becomes the active one and is spawned.  Which one malloc returns does not
\* matter: they are alike.
Start(w, argv, argc) ==
  LET new == {j \in Instances : w.inst[j].alloc = "no"}
      i == CHOOSE j \in new : TRUE
  IN IF new = {} THEN {}
     ELSE iauth_do_spawn([w EXCEPT !.iauth = i,
                                   !.inst[i] = [Blank EXCEPT !.alloc = "yes", !.argv = argv,
                                                             !.argc = argc]], i, FALSE)

\* An IAuth block was read: the same program is kept if it is connected.
auth_spawn(w, program) ==
  IF w.iauth # None /\ w.inst[w.iauth].argv = program /\ i_GetConnected(w, w.iauth)
  THEN {[w EXCEPT !.inst[w.iauth].closing = FALSE]}
  ELSE Then(auth_close_unused(w), LAMBDA v : Start(v, program, 1))

\* At startup and on REHASH: mark, read the configuration with the IAuth block
\* it has now, if any, and close what is not used any more.
auth_rehash(program) ==
  LET marked == IF iauthActive = None THEN IAuthNow ELSE [IAuthNow EXCEPT !.inst[iauthActive].closing = TRUE]
      read == IF program = None THEN {marked} ELSE auth_spawn(marked, program)
  IN  IAuthTake(Then(read, LAMBDA v : auth_close_unused(v)))

\* REHASH i.  The argument vector is copied, its length is not.
auth_restart ==
  /\ iauthActive # None
  /\ LET old == inst[iauthActive]
         argv == IF old.argc = 0 THEN None ELSE old.argv
     IN  IAuthTake(Then(auth_close_unused(IAuthNow), LAMBDA v : Start(v, argv, 0)))

\* Any message about a client or a server event.
Send == iauthActive # None /\ IAuthTake(iauth_sendto(IAuthNow, "none"))

\* The event of a protocol socket ends: a socket that was deleted while it was
\* handled is destroyed now.
SockHandled(i, ws) ==
  IAuthTake(Then(ws, LAMBDA v : IF inst[i].fd /\ ~v.inst[i].fd THEN SockDestroyed(v, i) ELSE {v}))

\* The program has sent a line, and one is sent back.
iauth_read(i) ==
  /\ inst[i].sock /\ inst[i].fd /\ inst[i].child # None
  /\ SockHandled(i, iauth_sendto(IAuthNow, IF i = iauthActive THEN "sock" ELSE "none"))

\* The program reads its input: the socket is writable again.
WriteReady(i) ==
  /\ inst[i].sock /\ inst[i].writable /\ inst[i].child # None
  /\ SockHandled(i, iauth_write([IAuthNow EXCEPT !.inst[i].blocked = FALSE], i, "sock"))

\* End of file or an error on the protocol socket.
iauth_sock_callback(i) ==
  /\ inst[i].sock /\ inst[i].child = None
  /\ SockHandled(i, iauth_disconnect(IAuthNow, i, "sock"))

\* The same on the stderr socket.
iauth_stderr_callback(i) ==
  /\ inst[i].err /\ inst[i].child = None
  /\ IAuthTake(Then(iauth_disconnect(IAuthNow, i, "err"),
               LAMBDA v : IF inst[i].efd THEN ErrDestroyed(v, i) ELSE {v}))

\* The program ends (external).
Dies(i) ==
  /\ inst[i].child # None
  /\ IAuthTake({[IAuthNow EXCEPT !.inst[i].child = None]})

\* Five seconds have passed since an instance was started.
IAuthTick(i) ==
  /\ inst[i].recent
  /\ IAuthTake({[IAuthNow EXCEPT !.inst[i].recent = FALSE]})

IAuthNext ==
  \/ \E p \in Programs \cup {None} : auth_rehash(p)
  \/ auth_restart
  \/ Send
  \/ \E i \in Instances :
       \/ iauth_read(i) \/ WriteReady(i) \/ iauth_sock_callback(i) \/ iauth_stderr_callback(i)
       \/ Dies(i) \/ IAuthTick(i)

IAuthSpec == IAuthInit /\ [][IAuthNext]_iauthVars

-----------------------------------------------------------------------------
\* Properties

\* No callback can reach a structure that was freed: its sockets are gone.
NoFreedCallback ==
  \A i \in Instances : inst[i].alloc # "yes" => ~inst[i].sock /\ ~inst[i].err

\* The active instance counts as connected exactly while its protocol socket is
\* in the event engine.
ConnectedIffActive ==
  \A i \in Instances : inst[i].alloc = "yes" => (inst[i].fd <=> inst[i].sock)

\* The sockets of an instance come and go together.
BothOrNeither == \A i \in Instances : inst[i].sock <=> inst[i].err

\* A structure that was freed is not the active one.
ActiveIsAllocated == iauthActive # None => inst[iauthActive].alloc = "yes" /\ ~inst[iauthActive].closing


\* An instance that could not write is waiting for its socket to be writable.
BlockedWaits ==
  \A i \in Instances : inst[i].sock /\ inst[i].blocked => inst[i].writable

\* Only the active instance talks to a program.
OneProgram == \A i \in Instances : inst[i].sock => i = iauthActive

\* What is restarted is the program of the configuration.
RestartsTheProgram == iauthActive # None => inst[iauthActive].argv # None

\* No assertion of the event engine fails.
EngineAssertions == ~iauthAborted
=============================================================================
