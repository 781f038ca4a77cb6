------------------------------- MODULE Engines -------------------------------
(***************************************************************************)
(* The engines over select, poll, /dev/poll and kqueue (engine_*.c): the   *)
(* tables by which they know sockets, what they tell the system to watch,  *)
(* and the loops that hand out what it reported while callbacks add,       *)
(* change and delete sockets and descriptors are used again.  Module       *)
(* Events has the engine over epoll, with timers and signals.              *)
(***************************************************************************)
EXTENDS Integers, Sequences, SequencesExt, FiniteSets, FiniteSetsExt, Functions

CONSTANTS
  Socks,
  NoSock,
  MaxFd,        \* descriptors are 0 .. MaxFd - 1
  MaxRef,       \* bound on the references an engine leaks
  ERROR_THRESHOLD,
  EngineScenes

Fds == 0 .. MaxFd - 1
Conditions == {"in", "out", "hup", "err", "eof"}
SockStates == {"CONNECTING", "LISTENING", "CONNECTED", "NOTSOCK", "DATAGRAM", "CONNECTDG"}

\* A scene: the engine, the sockets, the states and events of sockets, the conditions a descriptor may
\* be in, the operations of callbacks in a turn of the loop, whether the system refuses
\* what it is told, how often waiting fails, and whether the loop goes on for ever.
EngineScene ==
  [engine : {"select", "poll", "devpoll", "kqueue"}, socks : SUBSET Socks, states : SUBSET SockStates,
   events : SUBSET SUBSET {"in", "out"}, ready : SUBSET SUBSET Conditions, ops : Nat,
   refuses : BOOLEAN, errors : Nat, fair : BOOLEAN]

ASSUME EnginesConstants ==
  /\ IsFiniteSet(Socks) /\ NoSock \notin Socks
  /\ MaxFd \in Nat \ {0} /\ MaxRef \in Nat \ {0} /\ ERROR_THRESHOLD \in Nat
  /\ \A sc \in EngineScenes : sc \in EngineScene

VARIABLES
  en,        \* the engine's state
  en_stack,  \* the call stack, the innermost frame first
  en_pc,     \* the loop is before its wait, or hands out what that returned
  en_ops,    \* operations in this turn of the loop
  en_errors, \* errors, the count of recent failures to wait
  en_scene

enVars == <<en, en_stack, en_pc, en_ops, en_errors, en_scene>>

NoSocket == [life |-> "none", fd |-> 0, ed |-> 0, state |-> "CONNECTED", events |-> {},
             ref |-> 0, error |-> FALSE, fresh |-> FALSE]

\* en.list is sockList, by descriptor or by slot; en.watch what the system watches for in
\* that place; en.top highest_fd + 1 or poll_count; en.rev what was reported there, or
\* en.queue what was reported, handed out from its end; en.ready the condition of each
\* descriptor when the wait returned.
EnginesStart ==
  [sock |-> [s \in Socks |-> NoSocket], list |-> [i \in Fds |-> NoSock],
   watch |-> [i \in Fds |-> {}], top |-> 0, rev |-> [i \in Fds |-> {}], queue |-> <<>>,
   pos |-> 0, nfds |-> 0, ready |-> [i \in Fds |-> {}]]

Main == <<[kind |-> "main", s |-> NoSock, todo |-> <<>>, leaks |-> FALSE]>>

EnginesInit ==
  /\ en = EnginesStart /\ en_stack = Main
  /\ en_scene \in EngineScenes
  /\ en_pc = "wait" /\ en_ops = 0 /\ en_errors = 0

-----------------------------------------------------------------------------
\* What the engines have in common.

state_to_events(st, ev) ==
  CASE st = "CONNECTING" -> {"out"}
    [] st \in {"LISTENING", "NOTSOCK"} -> {"in"}
    [] st \in {"CONNECTED", "DATAGRAM", "CONNECTDG"} -> ev

Wanted(e, s) == state_to_events(e.sock[s].state, e.sock[s].events)

\* Only what differs between clear and set is touched.
set_or_clear(e, i, clear, set) ==
  [e EXCEPT !.watch[i] = (@ \ (clear \ set)) \cup (set \ clear)]

\* highest_fd and poll_count go down to the last entry that is used.
Shrink(e) ==
  [e EXCEPT !.top = Max({0} \cup {i + 1 : i \in {j \in Fds : j < e.top /\ e.list[j] # NoSock}})]

\* The unprocessed entries that cite the socket are overwritten by the last one, which
\* is not looked at again.
Dropped(e, s) ==
  [e EXCEPT !.queue =
     FoldLeft(LAMBDA q, i : IF i <= Len(q) /\ q[i].fd = e.sock[s].fd
                            THEN Front([q EXCEPT ![i] = Last(q)]) ELSE q,
              @, [i \in DOMAIN @ |-> i])]

-----------------------------------------------------------------------------
\* select: two sets of descriptors.

select_add(e, s) ==
  LET fd == e.sock[s].fd
  IN  set_or_clear([e EXCEPT !.list[fd] = s, !.top = Max({@, fd + 1})], fd, {}, Wanted(e, s))

select_state(e, s, st) ==
  set_or_clear(e, e.sock[s].fd, Wanted(e, s), state_to_events(st, e.sock[s].events))

select_events(e, s, ev) ==
  set_or_clear(e, e.sock[s].fd, Wanted(e, s), state_to_events(e.sock[s].state, ev))

select_delete(e, s) ==
  Shrink([e EXCEPT !.watch[e.sock[s].fd] = {}, !.list[e.sock[s].fd] = NoSock])

-----------------------------------------------------------------------------
\* poll: an array of slots; one that was freed is used again, with its revents.

poll_add(e, s) ==
  LET free == {i \in Fds : i < e.top /\ e.list[i] = NoSock}
      slot == IF free = {} THEN e.top ELSE Min(free)
  IN  set_or_clear([e EXCEPT !.list[slot] = s, !.sock[s].ed = slot, !.top = Max({@, slot + 1})],
                   slot, {}, Wanted(e, s))

poll_state(e, s, st) ==
  set_or_clear(e, e.sock[s].ed, Wanted(e, s), state_to_events(st, e.sock[s].events))

poll_events(e, s, ev) ==
  set_or_clear(e, e.sock[s].ed, Wanted(e, s), state_to_events(e.sock[s].state, ev))

poll_delete(e, s) ==
  Shrink([e EXCEPT !.watch[e.sock[s].ed] = {}, !.list[e.sock[s].ed] = NoSock])

-----------------------------------------------------------------------------
\* /dev/poll: an entry is removed and written again; s_ed_int is whether there is one.
\* The system refuses the removal, or what follows it.

devpoll_set_events(e, s, ev) ==
  LET fd == e.sock[s].fd
  IN  [e EXCEPT !.watch[fd] = ev, !.sock[s].ed = IF ev = {} THEN 0 ELSE 1]

devpoll_refused(e, s, ev) ==
  (IF e.sock[s].ed = 1 THEN {e} ELSE {}) \cup
  (IF ev # {} THEN {[e EXCEPT !.watch[e.sock[s].fd] = {}, !.sock[s].ed = 0]} ELSE {})

devpoll_add(e, s) == devpoll_set_events([e EXCEPT !.list[e.sock[s].fd] = s], s, Wanted(e, s))

devpoll_state(e, s, st) == devpoll_set_events(e, s, state_to_events(st, e.sock[s].events))

devpoll_events(e, s, ev) == devpoll_set_events(e, s, state_to_events(e.sock[s].state, ev))

devpoll_delete(e, s) ==
  Dropped([devpoll_set_events(e, s, {}) EXCEPT !.list[e.sock[s].fd] = NoSock], s)

-----------------------------------------------------------------------------
\* kqueue: filters that are enabled and disabled; they go when the descriptor is closed.

kqueue_set_or_clear(e, s, clear, set) == set_or_clear(e, e.sock[s].fd, clear, set)

\* The first of two changes may have been made when the system refuses.
kqueue_refused(e, s, clear, set) ==
  IF clear = set THEN {} ELSE {e, set_or_clear(e, e.sock[s].fd, clear \cap {"in"}, set \cap {"in"})}

kqueue_add(e, s) ==
  kqueue_set_or_clear([e EXCEPT !.list[e.sock[s].fd] = s], s, {}, Wanted(e, s))

kqueue_state(e, s, st) ==
  kqueue_set_or_clear(e, s, Wanted(e, s), state_to_events(st, e.sock[s].events))

kqueue_events(e, s, ev) ==
  kqueue_set_or_clear(e, s, Wanted(e, s), state_to_events(e.sock[s].state, ev))

kqueue_delete(e, s) == Dropped([e EXCEPT !.list[e.sock[s].fd] = NoSock], s)

-----------------------------------------------------------------------------
\* The engine that was chosen, and the ways in which a change may be refused.

Place(e, s) == IF en_scene.engine = "poll" THEN e.sock[s].ed ELSE e.sock[s].fd

eng_add(e, s) ==
  CASE en_scene.engine = "select"  -> select_add(e, s)
    [] en_scene.engine = "poll"    -> poll_add(e, s)
    [] en_scene.engine = "devpoll" -> devpoll_add(e, s)
    [] en_scene.engine = "kqueue"  -> kqueue_add(e, s)

eng_state(e, s, st) ==
  CASE en_scene.engine = "select"  -> select_state(e, s, st)
    [] en_scene.engine = "poll"    -> poll_state(e, s, st)
    [] en_scene.engine = "devpoll" -> devpoll_state(e, s, st)
    [] en_scene.engine = "kqueue"  -> kqueue_state(e, s, st)

eng_events(e, s, ev) ==
  CASE en_scene.engine = "select"  -> select_events(e, s, ev)
    [] en_scene.engine = "poll"    -> poll_events(e, s, ev)
    [] en_scene.engine = "devpoll" -> devpoll_events(e, s, ev)
    [] en_scene.engine = "kqueue"  -> kqueue_events(e, s, ev)

eng_closing(e, s) ==
  CASE en_scene.engine = "select"  -> select_delete(e, s)
    [] en_scene.engine = "poll"    -> poll_delete(e, s)
    [] en_scene.engine = "devpoll" -> devpoll_delete(e, s)
    [] en_scene.engine = "kqueue"  -> kqueue_delete(e, s)

Refusals(e, s, clear, set) ==
  CASE en_scene.engine = "devpoll" -> devpoll_refused(e, s, set)
    [] en_scene.engine = "kqueue"  -> kqueue_refused(e, s, clear, set)
    [] OTHER -> {}

-----------------------------------------------------------------------------
\* Sockets, as callbacks use them.

SockLive(e, s) == e.sock[s].life = "live"
SockUsable(s) == SockLive(en, s) /\ ~en.sock[s].error

OpenFds == {en.sock[s].fd : s \in {t \in Socks : SockLive(en, t)}}

\* A socket that is not used any more is destroyed when it was deleted.
Unref(e, s) ==
  IF e.sock[s].ref = 1 /\ e.sock[s].life = "deleted"
  THEN [e EXCEPT !.sock[s] = NoSocket]
  ELSE [e EXCEPT !.sock[s].ref = @ - 1]

\* event_generate: the callback holds the socket; an error marks it.
Generated(e, s, type) ==
  [e EXCEPT !.sock[s].ref = @ + 1, !.sock[s].error = @ \/ type = "ERROR"]
Frame(kind, s, todo) == [kind |-> kind, s |-> s, todo |-> todo, leaks |-> FALSE]

InCallback == en_stack # <<>> /\ Head(en_stack).kind \in {"main", "event"}
SockStep == InCallback /\ en_ops < en_scene.ops /\ en_ops' = en_ops + 1

\* A change is made, or is refused and the socket's callback is told so first.
Changes(e, s, clear, set, done) ==
  /\ \/ en' = done /\ UNCHANGED en_stack
     \/ /\ en_scene.refuses
        /\ \E r \in Refusals(e, s, clear, set) :
             en' = Generated([r EXCEPT !.sock[s].state = done.sock[s].state,
                                       !.sock[s].events = done.sock[s].events], s, "ERROR")
        /\ en_stack' = <<Frame("event", s, <<"ERROR">>)>> \o en_stack
  /\ UNCHANGED <<en_pc, en_errors, en_scene>>

\* The system gives out the lowest descriptor that is free, so one that was closed is used
\* again.
SocketAdd(s, fd, st, ev) ==
  LET e == [en EXCEPT !.sock[s] = [NoSocket EXCEPT !.life = "live", !.fd = fd, !.state = st,
                                                   !.events = ev, !.fresh = TRUE],
                      !.ready[fd] = {}]
      listed == IF en_scene.engine \in {"devpoll", "kqueue"}
                THEN [e EXCEPT !.list[fd] = s] ELSE e
  IN  /\ SockStep
      /\ en.sock[s].life = "none"
      /\ fd = Min(Fds \ OpenFds)
      /\ Changes(listed, s, {}, Wanted(e, s), eng_add(e, s))

SocketState(s, st) ==
  /\ SockStep /\ SockUsable(s)
  /\ \/ en.sock[s].state = "CONNECTING" /\ st = "CONNECTED"
     \/ en.sock[s].state = "DATAGRAM" /\ st = "CONNECTDG"
     \/ en.sock[s].state = "CONNECTDG" /\ st = "DATAGRAM"
  /\ Changes(en, s, Wanted(en, s), state_to_events(st, en.sock[s].events),
             [eng_state(en, s, st) EXCEPT !.sock[s].state = st])

SocketEvents(s, ev) ==
  /\ SockStep /\ SockUsable(s) /\ en.sock[s].events # ev
  /\ Changes(en, s, Wanted(en, s), state_to_events(en.sock[s].state, ev),
             [eng_events(en, s, ev) EXCEPT !.sock[s].events = ev])

\* socket_del, and the close that follows it, with which the system stops watching.
SocketDel(s) ==
  LET e == [eng_closing(en, s) EXCEPT !.sock[s].life = "deleted"]
      f == IF en_scene.engine = "kqueue" THEN [e EXCEPT !.watch[e.sock[s].fd] = {}] ELSE e
  IN  /\ SockStep /\ SockLive(en, s)
      /\ en' = IF f.sock[s].ref = 0 THEN [f EXCEPT !.sock[s] = NoSocket] ELSE f
      /\ UNCHANGED <<en_stack, en_pc, en_errors, en_scene>>

\* A callback returns to the loop or to the change that was refused.
SockCallbackReturns ==
  /\ InCallback
  /\ en' = IF Head(en_stack).kind = "event" THEN Unref(en, Head(en_stack).s) ELSE en
  /\ en_stack' = Tail(en_stack)
  /\ UNCHANGED <<en_pc, en_ops, en_errors, en_scene>>
-----------------------------------------------------------------------------
\* The loops.

AtWait == en_stack = <<>> /\ en_pc = "wait"
ByPlace == en_scene.engine \in {"select", "poll"}

\* What the system reports of a descriptor that is in a condition.
Reported(watch, ready) ==
  (watch \cap ready) \cup (IF en_scene.engine = "select" THEN {} ELSE ready \cap {"hup", "err"})

\* select counts what it reports, poll the places; poll writes only those it was given.
select_wait(e) ==
  LET rev == [i \in Fds |-> Reported(e.watch[i], e.ready[i])]
  IN  {[e EXCEPT !.rev = rev, !.pos = 0,
                 !.nfds = MapThenSumSet(LAMBDA i : Cardinality(rev[i]), Fds)]}

\* mutant: the loop starts at the second place
poll_wait_second(e) ==
  LET rev == [i \in Fds |-> IF i < e.top
                            THEN IF e.list[i] = NoSock THEN {}
                                 ELSE Reported(e.watch[i], e.ready[e.sock[e.list[i]].fd])
                            ELSE e.rev[i]]
  IN  {[e EXCEPT !.rev = rev, !.pos = 1,
                 !.nfds = Cardinality({i \in Fds : i < e.top /\ rev[i] # {}})]}

poll_wait(e) ==
  LET rev == [i \in Fds |-> IF i < e.top
                            THEN IF e.list[i] = NoSock THEN {}
                                 ELSE Reported(e.watch[i], e.ready[e.sock[e.list[i]].fd])
                            ELSE e.rev[i]]
  IN  {[e EXCEPT !.rev = rev, !.pos = 0,
                 !.nfds = Cardinality({i \in Fds : i < e.top /\ rev[i] # {}})]}

devpoll_wait(e) ==
  LET entries == {[fd |-> i, rev |-> Reported(e.watch[i], e.ready[i])] :
                     i \in {j \in Fds : e.watch[j] # {} /\ Reported(e.watch[j], e.ready[j]) # {}}}
  IN  {[e EXCEPT !.queue = q] : q \in SetToSeqs(entries)}

\* One entry for each filter, which says whether the other side is done.
kqueue_wait(e) ==
  LET entries == {[fd |-> i, rev |-> {f} \cup (IF f = "in" THEN e.ready[i] \cap {"eof"} ELSE {})] :
                     <<i, f>> \in {p \in Fds \X {"in", "out"} : p[2] \in e.watch[p[1]] \cap e.ready[p[1]]}}
  IN  {[e EXCEPT !.queue = q] : q \in SetToSeqs(entries)}

Reports(e) ==
  CASE en_scene.engine = "select"  -> select_wait(e)
    [] en_scene.engine = "poll"    -> poll_wait(e)
    [] en_scene.engine = "devpoll" -> devpoll_wait(e)
    [] en_scene.engine = "kqueue"  -> kqueue_wait(e)

\* Nothing is fresh any more.
Stale(e) == [e EXCEPT !.sock = [s \in Socks |-> [e.sock[s] EXCEPT !.fresh = FALSE]]]

\* The wait returns; descriptors are in any condition.
WaitReturns ==
  /\ AtWait
  /\ \E ready \in [OpenFds -> en_scene.ready] :
       en' \in Reports([Stale(en) EXCEPT !.ready = [i \in Fds |-> IF i \in OpenFds THEN ready[i] ELSE {}]])
  /\ en_pc' = "loop" /\ en_ops' = 0
  /\ UNCHANGED <<en_stack, en_errors, en_scene>>

\* It fails; after too many failures the server is started again.  A timer takes one off
\* the count at a time.
WaitFails ==
  /\ AtWait /\ en_errors < en_scene.errors
  /\ IF en_errors > 0 /\ en_errors + 1 > ERROR_THRESHOLD
     THEN en' = EnginesStart /\ en_stack' = Main /\ en_errors' = 0 /\ en_ops' = 0
     ELSE en_errors' = en_errors + 1 /\ UNCHANGED <<en, en_stack, en_ops>>
  /\ UNCHANGED <<en_pc, en_scene>>

error_clear ==
  /\ AtWait /\ en_errors > 0 /\ en_errors' = en_errors - 1
  /\ UNCHANGED <<en, en_stack, en_pc, en_ops, en_scene>>

-----------------------------------------------------------------------------
\* What a socket is told: the events, whether the loop goes on without giving its
\* reference back, and by how much nfds goes down.

Told(todo, leaks, dec) == [todo |-> todo, leaks |-> leaks, dec |-> dec]

\* Both of what a connected socket was reported for; reading is peeked at first.
Peeked(e, s) == IF "eof" \in e.ready[e.sock[s].fd] THEN <<"EOF">> ELSE <<"READ">>
Again(e, s, rev) ==
  e.sock[s].state = "CONNECTED" /\ "in" \in rev /\ "in" \notin e.ready[e.sock[s].fd]
Both(rev, reads) ==
  (IF "in" \in rev THEN reads ELSE <<>>) \o (IF "out" \in rev THEN <<"WRITE">> ELSE <<>>)

ByState(e, s, rev) ==
  LET st == e.sock[s].state
  IN  CASE st = "CONNECTING" -> IF "out" \in rev THEN <<"CONNECT">> ELSE <<>>
        [] st = "LISTENING" -> IF "in" \in rev THEN <<"ACCEPT">> ELSE <<>>
        [] st = "NOTSOCK" -> IF "in" \in rev THEN <<"READ">> ELSE <<>>
        [] st = "CONNECTED" -> Both(rev, Peeked(e, s))
        [] OTHER -> Both(rev, <<"READ">>)

SO_ERROR(e, s) == e.sock[s].state # "NOTSOCK" /\ "err" \in e.ready[e.sock[s].fd]

select_told(e, s, rev) ==
  LET todo == ByState(e, s, rev)
  IN  IF SO_ERROR(e, s) THEN Told(<<"ERROR">>, FALSE, 0)
      ELSE IF Again(e, s, rev) THEN Told(<<>>, TRUE, 0)
      ELSE Told(todo, todo = <<"CONNECT">>, IF todo = <<>> THEN 0 ELSE 1)

\* mutant: the state is not looked at
poll_told_stateless(e, s, rev) == Told(Both(rev, <<"READ">>), FALSE, 1)

poll_told(e, s, rev) ==
  LET todo == ByState(e, s, rev)
  IN  IF SO_ERROR(e, s) THEN Told(<<"ERROR">>, FALSE, 1)
      ELSE IF "hup" \in rev THEN Told(<<"EOF">>, TRUE, 1)
      ELSE IF Again(e, s, rev) THEN Told(<<>>, TRUE, 0)
      ELSE Told(todo, FALSE, IF todo = <<>> THEN 0 ELSE 1)

devpoll_told(e, s, rev) ==
  IF SO_ERROR(e, s) THEN Told(<<"ERROR">>, FALSE, 0)
  ELSE IF "hup" \in rev THEN Told(<<"EOF">>, TRUE, 0)
  ELSE IF Again(e, s, rev) THEN Told(<<>>, TRUE, 0)
  ELSE Told(ByState(e, s, rev), FALSE, 0)

kqueue_told(e, s, rev) ==
  IF SO_ERROR(e, s) THEN Told(<<"ERROR">>, FALSE, 0)
  ELSE IF e.sock[s].state \in {"CONNECTED", "NOTSOCK"}
       THEN Told(Both(rev, IF "eof" \in rev THEN <<"EOF">> ELSE <<"READ">>), FALSE, 0)
       ELSE Told(ByState(e, s, rev), FALSE, 0)

eng_told(e, s, rev) ==
  CASE en_scene.engine = "select"  -> select_told(e, s, rev)
    [] en_scene.engine = "poll"    -> poll_told(e, s, rev)
    [] en_scene.engine = "devpoll" -> devpoll_told(e, s, rev)
    [] en_scene.engine = "kqueue"  -> kqueue_told(e, s, rev)

HandingOut == en_stack = <<>> /\ en_pc = "loop"
NextPlaces == {i \in Fds : en.pos <= i /\ i < en.top /\ en.list[i] # NoSock}
More == IF ByPlace THEN en.nfds > 0 /\ NextPlaces # {} ELSE en.queue # <<>>

\* The next socket that is looked at is held.
Handle(e, s, rev) ==
  LET told == eng_told(e, s, rev)
  IN  /\ en' = [e EXCEPT !.sock[s].ref = @ + 1, !.nfds = @ - told.dec]
      /\ en_stack' = <<[Frame("socket", s, told.todo) EXCEPT !.leaks = told.leaks]>>

HandleNext ==
  /\ HandingOut /\ More
  /\ IF ByPlace
     THEN LET i == Min(NextPlaces)
          IN  Handle([en EXCEPT !.pos = i + 1], en.list[i], en.rev[i])
     ELSE LET entry == Last(en.queue)
              e == [en EXCEPT !.queue = Front(@)]
          IN  IF e.list[entry.fd] = NoSock
              THEN en' = e /\ UNCHANGED en_stack
              ELSE Handle(e, e.list[entry.fd], entry.rev)
  /\ UNCHANGED <<en_pc, en_ops, en_errors, en_scene>>

\* Events of a socket that was deleted meanwhile are not generated.
SockEvent ==
  /\ en_stack # <<>> /\ Head(en_stack).kind = "socket" /\ Head(en_stack).todo # <<>>
  /\ LET f == Head(en_stack)
         rest == <<[f EXCEPT !.todo = Tail(@)]>> \o Tail(en_stack)
     IN  IF SockLive(en, f.s)
         THEN /\ en' = Generated(en, f.s, f.todo[1])
              /\ en_stack' = <<Frame("event", f.s, <<f.todo[1]>>)>> \o rest
         ELSE en' = en /\ en_stack' = rest
  /\ UNCHANGED <<en_pc, en_ops, en_errors, en_scene>>

\* The reference is given back, or leaked (up to MaxRef of them).
SockHandled ==
  /\ en_stack # <<>> /\ Head(en_stack).kind = "socket" /\ Head(en_stack).todo = <<>>
  /\ LET f == Head(en_stack)
     IN  en' = IF f.leaks /\ en.sock[f.s].ref <= MaxRef THEN en ELSE Unref(en, f.s)
  /\ en_stack' = Tail(en_stack)
  /\ UNCHANGED <<en_pc, en_ops, en_errors, en_scene>>

LoopEnds ==
  /\ HandingOut /\ ~More
  /\ en_pc' = "wait" /\ en_ops' = 0
  /\ en' = [en EXCEPT !.pos = 0, !.nfds = 0, !.ready = [i \in Fds |-> {}],
                     !.rev = IF en_scene.engine = "poll" THEN @ ELSE [i \in Fds |-> {}]]
  /\ UNCHANGED <<en_stack, en_errors, en_scene>>

-----------------------------------------------------------------------------
SockOperation ==
  \E s \in en_scene.socks :
    \/ \E fd \in Fds, st \in en_scene.states, ev \in en_scene.events : SocketAdd(s, fd, st, ev)
    \/ \E st \in SockStates : SocketState(s, st)
    \/ \E ev \in en_scene.events : SocketEvents(s, ev)
    \/ SocketDel(s)

EngineLoop ==
  \/ SockCallbackReturns \/ WaitReturns \/ HandleNext
  \/ SockEvent \/ SockHandled \/ LoopEnds

EnginesNext == SockOperation \/ EngineLoop \/ WaitFails \/ error_clear

\* The loop never stops: each of its steps can be taken when it is reached.
EnginesFair == en_scene.fair => []<><<EngineLoop>>_enVars

EnginesSpec == EnginesInit /\ [][EnginesNext]_enVars /\ EnginesFair

-----------------------------------------------------------------------------
\* The engines' tables fit together: sockList has each socket that was not deleted at its
\* place and nothing else, highest_fd and poll_count end at a socket, nobody waits in the
\* array of reports for a descriptor that is not watched any more, and a socket is held
\* once for each frame of the call stack that uses it (by engine_kqueue.c exactly; the
\* other loops leave some of their branches without gen_ref_dec).
EnginesConsistent ==
  /\ \A s \in Socks : SockLive(en, s) => en.list[Place(en, s)] = s
  /\ \A i \in Fds : en.list[i] # NoSock => SockLive(en, en.list[i]) /\ Place(en, en.list[i]) = i
  /\ ByPlace => en.top = Max({0} \cup {i + 1 : i \in {j \in Fds : en.list[j] # NoSock}})
  /\ en_scene.engine = "devpoll" => \A e \in Range(en.queue) : en.list[e.fd] # NoSock
  /\ \A s \in Socks :
       LET users == Cardinality({i \in DOMAIN en_stack : en_stack[i].s = s})
       IN  IF en_scene.engine = "kqueue" THEN en.sock[s].ref = users ELSE en.sock[s].ref >= users

\* Each of the engines is an engine as module EngineSpec has it: what the system watches a
\* socket for is what its state and events call for, however it was changed, and only a
\* socket that was not deleted is told of an event, of a type that its state has; with
\* /dev/poll also never of one that was reported before the socket was added.
Abstract == INSTANCE EngineSpec WITH
  here <- {s \in Socks : SockLive(en, s)},
  state <- [s \in Socks |-> IF SockLive(en, s) THEN en.sock[s].state ELSE "CONNECTED"],
  events <- [s \in Socks |-> IF SockLive(en, s) THEN en.sock[s].events ELSE {}],
  mask <- [s \in Socks |-> IF SockLive(en, s) THEN en.watch[Place(en, s)] ELSE {}],
  failed <- {s \in Socks : SockLive(en, s) /\ en.sock[s].error},
  fresh <- {s \in Socks : SockLive(en, s) /\ en.sock[s].fresh},
  told <- LET events == SelectSeq(en_stack, LAMBDA f : f.kind = "event")
          IN  [i \in DOMAIN events |-> <<events[i].s, events[i].todo[1]>>],
  lenient <- en_scene.engine # "devpoll"

EngineImplemented == Abstract!Spec

\* A connected socket that is watched for reading and stays readable is told so, whatever
\* the callbacks of other sockets do in every turn of the loop.
SocketsServed ==
  \A s \in Socks :
    (en_scene.fair /\ SockUsable(s) /\ en.sock[s].state = "CONNECTED" /\ "in" \in en.sock[s].events)
      ~> (\/ ~SockUsable(s) \/ "in" \notin en.sock[s].events
          \/ en_stack # <<>> /\ Head(en_stack).s = s /\ Head(en_stack).kind = "event")
=============================================================================
