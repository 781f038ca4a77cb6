------------------------------ MODULE MCEvents ------------------------------
(* The event engines: epoll with a few timers and sockets, and the others, of which one
   runs. *)
EXTENDS Events, Engines, TLC

CONSTANTS t1, t2, s1, s2

VARIABLE part

\* Callbacks delete and add sockets that were reported together.
MCSockets == [timers |-> {}, values |-> {}, sockets |-> {s1, s2}, states |-> {"CONNECTED"},
              events |-> {{"in", "out"}}, time |-> 0, ops |-> 3, fair |-> FALSE]

\* A socket whose events change.
MCSocket == [MCSockets EXCEPT !.sockets = {s1}, !.events = {{"in"}, {"in", "out"}}]

\* Timers that expire at once, together or apart, changed while they run.
MCTimers == [timers |-> {t1, t2}, values |-> {0, 1}, sockets |-> {}, states |-> {},
             events |-> {}, time |-> 1, ops |-> 2, fair |-> FALSE]

\* A timer and a socket of every state, for ever.
MCBoth == [timers |-> {t1}, values |-> {1}, sockets |-> {s1},
           states |-> {"CONNECTING", "LISTENING"}, events |-> {{"in", "out"}},
           time |-> 1, ops |-> 2, fair |-> TRUE]

MCScenes == {MCSockets, MCSocket, MCTimers, MCBoth}

\* Callbacks add, change and delete sockets that were reported together.
Churn(engine) ==
  [engine |-> engine, socks |-> {s1, s2}, states |-> {"CONNECTED"}, events |-> {{"in"}, {"in", "out"}},
   ready |-> {{}, {"in", "out"}}, ops |-> 3, refuses |-> FALSE, errors |-> 0, fair |-> FALSE]

\* Every state, and a system that refuses and fails.
AnyState(engine) ==
  [engine |-> engine, socks |-> {s1}, states |-> SockStates, events |-> {{}, {"in"}, {"out"}},
   ready |-> {{"in", "out"}}, ops |-> 2, refuses |-> TRUE, errors |-> 3, fair |-> FALSE]

\* Every condition of a descriptor.
AnyCondition(engine) ==
  [engine |-> engine, socks |-> {s1}, states |-> {"CONNECTED"}, events |-> {{"in", "out"}},
   ready |-> {{"out"}, {"in", "out", "err"}, {"in", "out", "hup"}, {"in", "eof"}}, ops |-> 2,
   refuses |-> FALSE, errors |-> 0, fair |-> FALSE]

\* Sockets that are always ready, in a loop that goes on for ever.
Served(engine) ==
  [engine |-> engine, socks |-> {s1, s2}, states |-> {"CONNECTED"}, events |-> {{"in"}, {"in", "out"}},
   ready |-> {{"in", "out"}}, ops |-> 1, refuses |-> FALSE, errors |-> 0, fair |-> TRUE]

MCEngineScenes ==
  UNION {{Churn(e), AnyState(e), AnyCondition(e), Served(e)} : e \in {"select", "poll", "devpoll", "kqueue"}}

-----------------------------------------------------------------------------
MCVars == <<part, vars, enVars>>

MCInit ==
  \/ part = "epoll" /\ Init /\ EnginesInit /\ en_scene = Churn("kqueue")
  \/ part = "others" /\ Init /\ scene = MCTimers /\ EnginesInit

MCNext ==
  /\ UNCHANGED part
  /\ \/ part = "epoll" /\ Next /\ UNCHANGED enVars
     \/ part = "others" /\ EnginesNext /\ UNCHANGED vars

\* In the scenes that ask for it, the loop that runs never stops.
MCProgress ==
  /\ part = "epoll" /\ scene.fair => Progress
  /\ part = "others" /\ en_scene.fair => EngineLoop

MCSpec == MCInit /\ [][MCNext]_MCVars /\ []<><<MCProgress>>_MCVars

\* What each loop relies on between any two of its steps (ircd_events.c, engine_epoll.c,
\* engine_poll.c, engine_select.c, engine_kqueue.c, engine_devpoll.c).
EnginesSound == EngineConsistent /\ EnginesConsistent

\* What must happen does, whatever the callbacks do in every turn of the loop: expired timers run,
\* deleted sockets are destroyed and readable ones are read (timer_run, event_execute, gen_dequeue,
\* engine_loop).
EventsHappen == ExpiredTimerRuns /\ DeletedSocketDestroyed /\ SocketsServed
=============================================================================
