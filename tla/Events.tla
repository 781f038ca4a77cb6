------------------------------- MODULE Events -------------------------------
(***************************************************************************)
(* The event engine (ircd/ircd_events.c) over the epoll loop               *)
(* (ircd/engine_epoll.c): event generators (sockets and timers) with their *)
(* flags and reference counts, the sorted timer queue, and the loop that   *)
(* waits, delivers socket events and runs expired timers.                  *)
(*                                                                         *)
(* Events are executed synchronously, so the C call stack is part of the   *)
(* state: a callback may add, change and delete any generator, its own     *)
(* included, and an operation that fails may run another callback before   *)
(* it returns.  What a callback does is left open within the guards the    *)
(* callers in the server observe.                                          *)
(***************************************************************************)
EXTENDS Integers, Sequences, FiniteSets, SequencesExt

CONSTANTS
  Timers, Sockets,
  RefMod,        \* 2^32: gh_ref is an unsigned int
  MaxTime,       \* bound: seconds a behaviour lasts
  Scenes         \* what the program does in a behaviour is limited to one of these

Generators == Timers \cup Sockets
Types == {"ABSOLUTE", "RELATIVE", "PERIODIC"}
States == {"CONNECTING", "LISTENING", "CONNECTED"}
Interests == SUBSET {"in", "out"}

\* A scene: the generators the program has, the values of its timers, the states
\* and events of its sockets, how long it runs, how many operations it makes per
\* turn of the loop, and whether the loop goes on for ever.
Scene == [timers : SUBSET Timers, values : SUBSET Nat,
          sockets : SUBSET Sockets, states : SUBSET States, events : SUBSET Interests,
          time : 0 .. MaxTime, ops : Nat, fair : BOOLEAN]

ASSUME EventsConstants ==
  /\ Timers \cap Sockets = {}
  /\ IsFiniteSet(Timers) /\ IsFiniteSet(Sockets)
  /\ RefMod \in Nat \ {0} /\ MaxTime \in Nat
  /\ \A sc \in Scenes : sc \in Scene

VARIABLES
  now,       \* CurrentTime, set when epoll_wait returns
  gen,       \* the GenHeader of every generator
  timer,     \* type, value and expiry of the timers
  gens_timer,\* evInfo.gens.g_timer: the timer queue
  sock,      \* s_state and s_events of the sockets, and what epoll watches
  events,    \* the descriptors epoll_wait reported and not yet handled
  stack,     \* the call stack, innermost frame first
  pc,        \* where engine_loop is
  signalled, \* the signal pipe: empty, holding a byte, or reported readable
  ops,       \* operations the program made in this turn of the loop
  scene,     \* the scene this behaviour is in
  aborted    \* history: assertions that failed

vars == <<now, gen, timer, gens_timer, sock, events, stack, pc, signalled, ops,
          scene, aborted>>

\* Generators whose memory is in use: added, and ET_DESTROY not yet delivered.
Live(g) == gen[g].life = "live"
Flag(g, f) == f \in gen[g].flags
OnQueue(t) == \E i \in DOMAIN gens_timer : gens_timer[i] = t

\* Program code runs: main before the loop, the callback of a signal, which no
\* operation can delete, or the callback of a socket or timer event.
InProgram == stack # <<>> /\ Head(stack).kind \in {"main", "event"}

MainFrame == [kind |-> "main", gen |-> "none", type |-> "none", todo |-> <<>>]
EventFrame(g, type) == [kind |-> "event", gen |-> g, type |-> type, todo |-> <<>>]

-----------------------------------------------------------------------------
\* Generators

NoGen == [life |-> "none", flags |-> {}, ref |-> 0]
gen_init == [life |-> "live", flags |-> {"ACTIVE"}, ref |-> 0]

\* event_generate and event_execute of ET_DESTROY: the callback frees the
\* generator, whose reference is not taken back.
Destroy(h) == [h EXCEPT !.life = "gone", !.flags = @ \ {"ACTIVE"},
                        !.ref = (@ + 1) % RefMod]

\* mutant: a deleted generator is destroyed although it is in use
gen_ref_dec_early(h) ==
  LET r == (h.ref - 1) % RefMod
  IN  IF "DESTROY" \in h.flags /\ h.life = "live"
      THEN Destroy([h EXCEPT !.ref = r])
      ELSE [h EXCEPT !.ref = r]

gen_ref_dec(h) ==
  LET r == (h.ref - 1) % RefMod
  IN  IF r = 0 /\ "DESTROY" \in h.flags
      THEN Destroy([h EXCEPT !.ref = r])
      ELSE [h EXCEPT !.ref = r]

\* event_generate of any other event, up to the callback.  None is generated
\* for a generator that is being destroyed.
Generates(h) == "DESTROY" \notin h.flags

event_generate(h, type) ==
  [h EXCEPT !.ref = (@ + 1) % RefMod,
            !.flags = IF type = "ERROR" THEN @ \cup {"ERROR"} ELSE @]

ActiveAssertion(h) ==
  IF "ACTIVE" \in h.flags THEN {} ELSE {"event_execute: active"}

-----------------------------------------------------------------------------
\* The timer queue

gen_dequeue(q, t) == SelectSeq(q, LAMBDA x : x # t)

\* The place before the first timer that expires later.
timer_enqueue(q, t, tm) ==
  LET later == {i \in DOMAIN q : tm[t].expire < tm[q[i]].expire}
      place == IF later = {} THEN Len(q) + 1
               ELSE CHOOSE i \in later : \A j \in later : i <= j
  IN  InsertAt(q, place, t)

ExpireTime(type, value) == IF type = "ABSOLUTE" THEN value ELSE value + now

EnqueueAssertion(h, q, t) ==
  ActiveAssertion(h) \cup
  (IF \E i \in DOMAIN q : q[i] = t THEN {"timer_enqueue: on queue"} ELSE {})

\* Everything timer_enqueue changes when t has flags h after it.
Enqueue(t, h, type, value) ==
  LET tm == [timer EXCEPT ![t] = [type |-> type, value |-> value,
                                  expire |-> ExpireTime(type, value)]]
      q == gen_dequeue(gens_timer, t)
  IN  /\ timer' = tm
      /\ gens_timer' = timer_enqueue(q, t, tm)
      /\ gen' = [gen EXCEPT ![t] = h]
      /\ aborted' = aborted \cup EnqueueAssertion(h, q, t)

-----------------------------------------------------------------------------
(***************************************************************************)
(* Timer operations, called by program code.  Callers add a timer that is  *)
(* inactive or whose callback is running, and change or delete one that is *)
(* active.                                                                 *)
(***************************************************************************)

ProgramStep == InProgram /\ ops < scene.ops /\ ops' = ops + 1

\* timer_add(timer_init(t), ...)
timer_add(t, type, value) ==
  /\ ProgramStep
  /\ ~Live(t)
  /\ Enqueue(t, gen_init, type, value)
  /\ UNCHANGED <<now, sock, events, stack, pc, signalled, scene>>

\* timer_add(t, ...) from the timer's own callback
timer_readd(t, type, value) ==
  /\ ProgramStep
  /\ Live(t) /\ Flag(t, "MARKED")
  /\ timer' = [timer EXCEPT ![t] = [type |-> type, value |-> value, expire |-> 0]]
  /\ gen' = [gen EXCEPT ![t].flags = @ \cup {"ACTIVE", "READD"}, ![t].ref = 0]
  /\ UNCHANGED <<now, gens_timer, sock, events, stack, pc, signalled, aborted, scene>>

timer_del(t) ==
  /\ ProgramStep
  /\ Live(t)
  /\ IF Flag(t, "MARKED")
     THEN /\ gen' = [gen EXCEPT ![t].flags = @ \ {"READD"}]
          /\ UNCHANGED <<gens_timer, aborted>>
     ELSE /\ gens_timer' = gen_dequeue(gens_timer, t)
          /\ gen' = [gen EXCEPT ![t] = Destroy([@ EXCEPT !.flags = @ \ {"READD"}])]
          /\ aborted' = aborted \cup ActiveAssertion(gen[t])
  /\ UNCHANGED <<now, timer, sock, events, stack, pc, signalled, scene>>

timer_chg(t, type, value) ==
  /\ ProgramStep
  /\ Live(t)
  /\ value # 0 /\ timer[t].type # "PERIODIC" /\ type # "PERIODIC"
  /\ IF Flag(t, "MARKED")
     THEN /\ timer' = [timer EXCEPT ![t] = [type |-> type, value |-> value,
                                           expire |-> 0]]
          /\ gen' = [gen EXCEPT ![t].flags = @ \cup {"READD"}]
          /\ UNCHANGED <<gens_timer, aborted>>
     ELSE Enqueue(t, gen[t], type, value)
  /\ UNCHANGED <<now, sock, events, stack, pc, signalled, scene>>

-----------------------------------------------------------------------------
(***************************************************************************)
(* Socket operations, called by program code.                              *)
(***************************************************************************)

\* What epoll is told to watch for.
set_events(state, interest) ==
  CASE state = "CONNECTING" -> {"out"}
    [] state = "LISTENING"  -> {"in"}
    [] state = "CONNECTED"  -> interest

\* epoll_ctl refuses the descriptor: the error is an event, and its callback
\* runs before the operation returns to frame f, if it has more to do.
Refused(s, h, f) ==
  /\ gen' = [gen EXCEPT ![s] = event_generate(h, "ERROR")]
  /\ stack' = <<EventFrame(s, "ERROR")>> \o f \o stack
  /\ aborted' = aborted \cup ActiveAssertion(h)

socket_add(s, state, interest, ok) ==
  /\ ProgramStep
  /\ ~Live(s)
  /\ sock' = [sock EXCEPT ![s] =
       [state |-> state, events |-> interest, added |-> ok,
        epoll |-> IF ok THEN set_events(state, interest) ELSE {}]]
  /\ IF ok THEN gen' = [gen EXCEPT ![s] = gen_init] /\ UNCHANGED <<stack, aborted>>
           ELSE Refused(s, gen_init, <<>>)
  /\ UNCHANGED <<now, timer, gens_timer, events, pc, signalled, scene>>

\* The unprocessed events citing the socket are dropped; the caller closes the
\* descriptor, which ends what epoll watches.
engine_delete(s) ==
  /\ events' = [events EXCEPT ![s] = {}]
  /\ sock' = [sock EXCEPT ![s].added = FALSE]

\* The generator is destroyed now or when its last user is done.
socket_del(s) ==
  /\ ProgramStep
  /\ Live(s) /\ ~Flag(s, "DESTROY")
  /\ engine_delete(s)
  /\ LET h == [gen[s] EXCEPT !.flags = @ \cup {"DESTROY"}]
     IN  /\ gen' = [gen EXCEPT ![s] = IF h.ref = 0 THEN Destroy(h) ELSE h]
         /\ aborted' = aborted \cup (IF h.ref = 0 THEN ActiveAssertion(h) ELSE {})
  /\ UNCHANGED <<now, timer, gens_timer, stack, pc, signalled, scene>>

\* The new state and events are recorded after the engine has been told, which
\* is after the callback of the error if the engine could not do it.
Update(s, state, interest, ok) ==
  /\ IF ok
     THEN /\ sock' = [sock EXCEPT ![s].state = state, ![s].events = interest,
                                  ![s].epoll = set_events(state, interest)]
          /\ UNCHANGED <<gen, stack, aborted>>
     ELSE /\ Refused(s, gen[s], <<[kind |-> "update", gen |-> s,
                                  type |-> state, todo |-> SetToSeq(interest)]>>)
          /\ UNCHANGED sock
  /\ UNCHANGED <<now, timer, gens_timer, events, pc, signalled, scene>>

Usable(s) == Live(s) /\ ~Flag(s, "DESTROY") /\ ~Flag(s, "ERROR")

\* The only transition a caller asks for: a connecting socket is connected.
socket_state(s, ok) ==
  /\ ProgramStep
  /\ Usable(s) /\ sock[s].state = "CONNECTING"
  /\ Update(s, "CONNECTED", sock[s].events, ok)

socket_events(s, interest, ok) ==
  /\ ProgramStep
  /\ Usable(s) /\ sock[s].events # interest
  /\ Update(s, sock[s].state, interest, ok)

-----------------------------------------------------------------------------
(***************************************************************************)
(* Returning.                                                              *)
(***************************************************************************)

\* A callback returns to event_execute, which gives its reference back.
CallbackReturns ==
  /\ stack # <<>> /\ Head(stack).kind = "event"
  /\ LET g == Head(stack).gen
     IN  gen' = [gen EXCEPT ![g] = gen_ref_dec(@)]
  /\ stack' = Tail(stack)
  /\ UNCHANGED <<now, timer, gens_timer, sock, events, pc, signalled, ops, aborted, scene>>

\* The end of a socket_state or socket_events the engine refused.
UpdateReturns ==
  /\ stack # <<>> /\ Head(stack).kind = "update"
  /\ sock' = [sock EXCEPT ![Head(stack).gen].state = Head(stack).type,
                          ![Head(stack).gen].events = ToSet(Head(stack).todo)]
  /\ stack' = Tail(stack)
  /\ UNCHANGED <<now, gen, timer, gens_timer, events, pc, signalled, ops, aborted, scene>>

\* main enters the loop, or the callback of a signal returns to it.
event_loop ==
  /\ stack # <<>> /\ Head(stack).kind = "main"
  /\ stack' = Tail(stack)
  /\ UNCHANGED <<now, gen, timer, gens_timer, sock, events, pc, signalled, ops,
                 aborted, scene>>

-----------------------------------------------------------------------------
(***************************************************************************)
(* engine_loop.                                                            *)
(***************************************************************************)

InLoop(place) == stack = <<>> /\ pc = place

\* What epoll can report of a socket: nothing, events it watches, an error or
\* the peer's hang-up.
Reportable(s) ==
  {{}} \cup (IF sock[s].added
            THEN (SUBSET sock[s].epoll) \cup {{"err"}, {"hup"}}
            ELSE {})

\* The wait ends at the time of the first timer, and never when that has passed
\* already: the negative timeout means there is none.
TimesOut(t) ==
  /\ gens_timer # <<>>
  /\ timer[gens_timer[1]].expire >= now
  /\ t >= timer[gens_timer[1]].expire

epoll_wait(t, reported) ==
  /\ InLoop("wait")
  /\ \A s \in Sockets : reported[s] \in Reportable(s)
  /\ \/ \E s \in Sockets : reported[s] # {}
     \/ signalled = "pipe"
     \/ TimesOut(t)
  /\ now' = t
  /\ events' = reported
  /\ signalled' = IF signalled = "pipe" THEN "reported" ELSE "empty"
  /\ pc' = "sockets"
  /\ ops' = 0
  /\ UNCHANGED <<gen, timer, gens_timer, sock, stack, aborted, scene>>

\* A signal interrupts the wait: EINTR, and neither events nor timers are run.
interrupted(t) ==
  /\ InLoop("wait")
  /\ now' = t
  /\ signalled' = "pipe"
  /\ UNCHANGED <<gen, timer, gens_timer, sock, events, stack, pc, ops, aborted, scene>>

\* A signal at any other time.
signal_handler ==
  /\ signalled = "empty"
  /\ signalled' = "pipe"
  /\ UNCHANGED <<now, gen, timer, gens_timer, sock, events, stack, pc, ops, aborted, scene>>

\* The pipe is read empty and the callbacks of the signals are run.
signal_callback ==
  /\ InLoop("sockets") /\ signalled = "reported"
  /\ signalled' = "empty"
  /\ stack' = <<MainFrame>>
  /\ UNCHANGED <<now, gen, timer, gens_timer, sock, events, pc, ops, aborted, scene>>

\* The events generated for what epoll reported; an error that is gone when
\* the socket is asked for it generates none.
EventsFor(s, mask) ==
  CASE mask = {"err"} -> {<<"ERROR">>, <<>>}
    [] mask = {"hup"} -> {<<"EOF">>}
    [] OTHER ->
      {CASE sock[s].state = "CONNECTING" -> IF "out" \in mask THEN <<"CONNECT">> ELSE <<>>
         [] sock[s].state = "LISTENING" -> IF "in" \in mask THEN <<"ACCEPT">> ELSE <<>>
         [] sock[s].state = "CONNECTED" ->
              (IF "in" \in mask THEN <<"READ">> ELSE <<>>) \o
              (IF "out" \in mask THEN <<"WRITE">> ELSE <<>>)}

\* The next descriptor of the array; its socket is in use until it is handled.
HandleSocket(s) ==
  /\ InLoop("sockets")
  /\ events[s] # {}
  /\ events' = [events EXCEPT ![s] = {}]
  /\ gen' = [gen EXCEPT ![s].ref = (@ + 1) % RefMod]
  /\ \E todo \in EventsFor(s, events[s]) :
       stack' = <<[kind |-> "socket", gen |-> s, type |-> "none", todo |-> todo]>>
  /\ UNCHANGED <<now, timer, gens_timer, sock, pc, signalled, ops, aborted, scene>>

\* mutant: an event is generated for a socket that is being destroyed
SocketEvent_always ==
  /\ stack # <<>> /\ Head(stack).kind = "socket" /\ Head(stack).todo # <<>>
  /\ LET f == Head(stack) IN
       /\ gen' = [gen EXCEPT ![f.gen] = event_generate(@, Head(f.todo))]
       /\ stack' = <<EventFrame(f.gen, Head(f.todo))>> \o
                    <<[f EXCEPT !.todo = Tail(@)]>> \o Tail(stack)
       /\ aborted' = aborted \cup ActiveAssertion(gen[f.gen])
  /\ UNCHANGED <<now, timer, gens_timer, sock, events, pc, signalled, ops, scene>>

SocketEvent ==
  /\ stack # <<>> /\ Head(stack).kind = "socket" /\ Head(stack).todo # <<>>
  /\ LET f == Head(stack)
         rest == <<[f EXCEPT !.todo = Tail(@)]>> \o Tail(stack)
     IN  IF Generates(gen[f.gen])
         THEN /\ gen' = [gen EXCEPT ![f.gen] = event_generate(@, Head(f.todo))]
              /\ stack' = <<EventFrame(f.gen, Head(f.todo))>> \o rest
              /\ aborted' = aborted \cup ActiveAssertion(gen[f.gen])
         ELSE /\ stack' = rest
              /\ UNCHANGED <<gen, aborted>>
  /\ UNCHANGED <<now, timer, gens_timer, sock, events, pc, signalled, ops, scene>>

SocketHandled ==
  /\ stack # <<>> /\ Head(stack).kind = "socket" /\ Head(stack).todo = <<>>
  /\ gen' = [gen EXCEPT ![Head(stack).gen] = gen_ref_dec(@)]
  /\ stack' = Tail(stack)
  /\ UNCHANGED <<now, timer, gens_timer, sock, events, pc, signalled, ops, aborted, scene>>

AllHandled ==
  /\ InLoop("sockets")
  /\ \A s \in Sockets : events[s] = {}
  /\ signalled # "reported"
  /\ pc' = "timers"
  /\ UNCHANGED <<now, gen, timer, gens_timer, sock, events, stack, signalled, ops,
                 aborted, scene>>

Expired == gens_timer # <<>> /\ now >= timer[gens_timer[1]].expire

\* timer_run takes an expired timer off the queue and runs its callback.
timer_run ==
  /\ InLoop("timers")
  /\ Expired
  /\ LET t == gens_timer[1] IN
       /\ gens_timer' = gen_dequeue(gens_timer, t)
       /\ gen' = [gen EXCEPT ![t] = event_generate([@ EXCEPT !.flags =
                    @ \cup {"MARKED"} \cup
                    (IF timer[t].type = "PERIODIC" THEN {"READD"} ELSE {})], "EXPIRE")]
       /\ stack' = <<EventFrame(t, "EXPIRE"),
                     [kind |-> "timer", gen |-> t, type |-> "none", todo |-> <<>>]>>
       /\ aborted' = aborted \cup ActiveAssertion(gen[t])
  /\ UNCHANGED <<now, timer, sock, events, pc, signalled, ops, scene>>

\* What timer_run does with the timer after the callback.
TimerHandled ==
  /\ stack # <<>> /\ Head(stack).kind = "timer"
  /\ LET t == Head(stack).gen
         h == [gen[t] EXCEPT !.flags = @ \ {"MARKED"}]
     IN  IF "READD" \in h.flags
         THEN Enqueue(t, [h EXCEPT !.flags = @ \ {"READD"}], timer[t].type,
                      timer[t].value)
         ELSE /\ gen' = [gen EXCEPT ![t] = Destroy(h)]
              /\ aborted' = aborted \cup ActiveAssertion(h)
              /\ UNCHANGED <<timer, gens_timer>>
  /\ stack' = Tail(stack)
  /\ UNCHANGED <<now, sock, events, pc, signalled, ops, scene>>

TimersRun ==
  /\ InLoop("timers")
  /\ ~Expired
  /\ pc' = "wait"
  /\ UNCHANGED <<now, gen, timer, gens_timer, sock, events, stack, signalled, ops,
                 aborted, scene>>

-----------------------------------------------------------------------------
Init ==
  /\ now = 0
  /\ gen = [g \in Generators |-> NoGen]
  /\ timer = [t \in Timers |-> [type |-> "RELATIVE", value |-> 0, expire |-> 0]]
  /\ gens_timer = <<>>
  /\ sock = [s \in Sockets |-> [state |-> "CONNECTED", events |-> {}, added |-> FALSE,
                               epoll |-> {}]]
  /\ events = [s \in Sockets |-> {}]
  /\ stack = <<MainFrame>>
  /\ pc = "wait"
  /\ signalled = "empty"
  /\ ops = 0
  /\ scene \in Scenes
  /\ aborted = {}

ProgramOperation ==
  \/ \E t \in scene.timers, type \in Types, value \in scene.values :
       \/ timer_add(t, type, value)
       \/ timer_readd(t, type, value)
       \/ timer_chg(t, type, value)
  \/ \E t \in scene.timers : timer_del(t)
  \/ \E s \in scene.sockets, state \in scene.states, interest \in scene.events,
       ok \in BOOLEAN : socket_add(s, state, interest, ok)
  \/ \E s \in scene.sockets, interest \in scene.events, ok \in BOOLEAN :
       socket_events(s, interest, ok)
  \/ \E s \in scene.sockets, ok \in BOOLEAN : socket_state(s, ok)
  \/ \E s \in scene.sockets : socket_del(s)

Wait(t) == \E reported \in [Sockets -> Interests \cup {{"err"}, {"hup"}}] :
             epoll_wait(t, reported)

Returns == CallbackReturns \/ UpdateReturns \/ event_loop

Loop ==
  \/ signal_callback
  \/ \E s \in Sockets : HandleSocket(s)
  \/ SocketEvent \/ SocketHandled \/ AllHandled
  \/ timer_run \/ TimerHandled \/ TimersRun

Next ==
  \/ ProgramOperation
  \/ Returns
  \/ Loop
  \/ signal_handler
  \/ \E t \in now .. scene.time : Wait(t) \/ interrupted(t)

Spec == Init /\ [][Next]_vars

\* The loop does not stop, callbacks return, and the clock advances: the server is one
\* thread that the system schedules.  Such a step can always be taken; it is one that
\* moves the loop or its call stack and is not an operation of a callback.
Progress == (pc' # pc \/ stack' # stack) /\ ops' # ops + 1
EventsFair == scene.fair => []<><<Progress>>_vars
FairSpec == Spec /\ EventsFair

-----------------------------------------------------------------------------
\* Type invariant.
TypeOK ==
  /\ now \in 0 .. MaxTime
  /\ gen \in [Generators -> [life : {"none", "live", "gone"},
                             flags : SUBSET {"DESTROY", "MARKED", "ACTIVE", "READD",
                                             "ERROR"},
                             ref : 0 .. RefMod - 1]]
  /\ timer \in [Timers -> [type : Types, value : Nat, expire : Nat]]
  /\ gens_timer \in Seq(Timers)
  /\ sock \in [Sockets -> [state : States, events : Interests, added : BOOLEAN,
                           epoll : Interests]]
  /\ events \in [Sockets -> Interests \cup {{"err"}, {"hup"}}]
  /\ pc \in {"wait", "sockets", "timers"}
  /\ signalled \in {"empty", "pipe", "reported"}
  /\ ops \in 0 .. scene.ops
  /\ aborted \subseteq {"event_execute: active", "timer_enqueue: on queue"}

\* The timer queue is what timer_verify checks and timer_run relies on: in the
\* order of expiry, and holding exactly the active timers whose callback is not
\* running, each once.
TimerQueue ==
  /\ \A i, j \in DOMAIN gens_timer :
       i < j => /\ timer[gens_timer[i]].expire <= timer[gens_timer[j]].expire
                /\ gens_timer[i] # gens_timer[j]
  /\ \A t \in Timers : OnQueue(t) <=> Live(t) /\ ~Flag(t, "MARKED")

\* The frames that use a socket: the loop handling it, and its callbacks.
Users(s) == {i \in DOMAIN stack : stack[i].gen = s /\ stack[i].kind # "update"}

\* gh_ref of a socket is the number of frames of the call stack that use it.
References ==
  \A s \in Sockets : Live(s) => gen[s].ref = Cardinality(Users(s))

\* Neither the loop, nor event_execute, nor timer_run touches a generator whose
\* ET_DESTROY has been delivered, whatever callbacks deleted in between.
NoUseAfterDestroy ==
  \A i \in DOMAIN stack : stack[i].kind \in {"event", "socket", "timer"} =>
    Live(stack[i].gen)

\* "we must assume the generator is now invalid" (event_execute, of ET_DESTROY):
\* nothing on the call stack still has to write to such a generator.
NothingToDoAfterDestroy ==
  \A i \in DOMAIN stack : stack[i].kind # "main" => Live(stack[i].gen)

\* engine_delete drops the unprocessed events of a socket: what epoll reported
\* and the loop has still to handle is never a deleted socket.
ReportedNotDeleted ==
  \A s \in Sockets : events[s] # {} => Live(s) /\ ~Flag(s, "DESTROY")

\* The assertions of event_execute and timer_enqueue.
EngineAssertionsHold == aborted = {}

\* epoll watches a socket for what its state and its s_events say.
EpollInStep ==
  \A s \in Sockets : Usable(s) /\ sock[s].added =>
    sock[s].epoll = set_events(sock[s].state, sock[s].events)

\* The loop waits without a limit although a timer has expired (the timeout is
\* negative after an interrupted wait) only when the signal pipe will end the
\* wait at once.
NeverOversleeps ==
  InLoop("wait") /\ gens_timer # <<>> /\ timer[gens_timer[1]].expire < now =>
    signalled = "pipe"

\* What the loop relies on between any two of its steps: the timer queue is in order and
\* complete, reference counts are the frames that use a socket, nothing that was destroyed is in
\* use, deleted sockets are forgotten, epoll watches what it should, no expired timer is
\* overslept and the assertions hold (ircd_events.c, engine_epoll.c).
EngineConsistent ==
  /\ TypeOK /\ TimerQueue /\ References /\ NoUseAfterDestroy
  /\ ReportedNotDeleted /\ EpollInStep /\ NeverOversleeps /\ EngineAssertionsHold

\* No event is delivered for a socket after socket_del, even one that was
\* reported together with the event whose callback deleted it.
NoEventAfterDelete ==
  [][Len(stack') > Len(stack) /\ Head(stack').kind = "event" =>
       "DESTROY" \notin gen'[Head(stack').gen].flags]_vars

\* A timer that has expired is run (or changed or deleted) in the end.
ExpiredTimerRuns ==
  \A t \in UNION {sc.timers : sc \in {x \in Scenes : x.fair}} :
    scene.fair /\ OnQueue(t) /\ timer[t].expire <= now ~> ~OnQueue(t) \/ timer[t].expire > now

\* A deleted socket is destroyed, and its owner freed, in the end.
DeletedSocketDestroyed ==
  \A s \in UNION {sc.sockets : sc \in {x \in Scenes : x.fair}} : scene.fair /\ Live(s) /\ Flag(s, "DESTROY") ~> ~Live(s)
=============================================================================
