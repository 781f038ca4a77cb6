----------------------------- MODULE EngineSpec -----------------------------
(***************************************************************************)
(* What the server relies on in an event engine (struct Engine of          *)
(* ircd_events.h), whatever system call it is built on: the system watches *)
(* each socket for what its state and its events call for, and an event is *)
(* only told to a socket that was not deleted, of a type its state has.    *)
(***************************************************************************)
EXTENDS Sequences

CONSTANT Socks

VARIABLES
  here,     \* the sockets that were added and not deleted
  state, events,
  mask,     \* what the system watches each of them for
  failed,   \* the sockets that were told of an error
  fresh,    \* the sockets that were added since the last wait
  told,     \* the callbacks that run: <<socket, type>>, the innermost first
  lenient   \* also fresh sockets may be told of what others were reported for

evars == <<here, state, events, mask, failed, fresh, told, lenient>>

\* What the system watches a socket for.
Interest(st, ev) ==
  CASE st = "CONNECTING" -> {"out"}
    [] st \in {"LISTENING", "NOTSOCK"} -> {"in"}
    [] st \in {"CONNECTED", "DATAGRAM", "CONNECTDG"} -> ev

Types(st) ==
  {"ERROR", "EOF"} \cup
  CASE st = "CONNECTING" -> {"CONNECT"}
    [] st = "LISTENING" -> {"ACCEPT"}
    [] st = "NOTSOCK" -> {"READ"}
    [] st \in {"CONNECTED", "DATAGRAM", "CONNECTDG"} -> {"READ", "WRITE"}

Init ==
  /\ here = {} /\ failed = {} /\ fresh = {} /\ told = <<>>
  /\ mask = [s \in Socks |-> {}]
  /\ state \in [Socks -> {"CONNECTED"}] /\ events \in [Socks -> {{}}]
  /\ lenient \in BOOLEAN

\* A socket that is not in trouble has a new state or new events, and is watched for
\* them, or its callback is told that this failed.
Watch(s, st, ev) ==
  \/ /\ mask' = [mask EXCEPT ![s] = Interest(st, ev)]
     /\ state' = [state EXCEPT ![s] = st] /\ events' = [events EXCEPT ![s] = ev]
     /\ UNCHANGED <<failed, told>>
  \/ /\ failed' = failed \cup {s} /\ told' = <<<<s, "ERROR">>>> \o told
     /\ mask'[s] \subseteq {"in", "out"} /\ mask' = [mask EXCEPT ![s] = mask'[s]]
     /\ state' = [state EXCEPT ![s] = state'[s]] /\ events' = [events EXCEPT ![s] = events'[s]]

Add(s) ==
  /\ s \notin here
  /\ here' = here \cup {s} /\ fresh' = fresh \cup {s}
  /\ Watch(s, state'[s], events'[s])

Change(s) ==
  /\ s \in here \ failed
  /\ Watch(s, state'[s], events'[s])
  /\ UNCHANGED <<here, fresh>>

\* The socket is forgotten; what was told stays told.
Del(s) ==
  /\ s \in here
  /\ here' = here \ {s} /\ mask' = [mask EXCEPT ![s] = {}]
  /\ failed' = failed \ {s} /\ fresh' = fresh \ {s}
  /\ state' = [state EXCEPT ![s] = "CONNECTED"] /\ events' = [events EXCEPT ![s] = {}]
  /\ UNCHANGED told

Tell(s, type) ==
  /\ s \in here /\ type \in Types(state[s])
  /\ s \in fresh => lenient
  /\ told' = <<<<s, type>>>> \o told
  /\ failed' = IF type = "ERROR" THEN failed \cup {s} ELSE failed
  /\ UNCHANGED <<here, state, events, mask, fresh>>

Return ==
  /\ told # <<>> /\ told' = Tail(told)
  /\ UNCHANGED <<here, state, events, mask, failed, fresh>>

Wait ==
  /\ told = <<>> /\ fresh' = {}
  /\ UNCHANGED <<here, state, events, mask, failed, told>>

\* The server starts again.
Restart ==
  /\ told = <<>>
  /\ here' = {} /\ failed' = {} /\ fresh' = {} /\ told' = <<>>
  /\ mask' = [s \in Socks |-> {}]
  /\ state' = [s \in Socks |-> "CONNECTED"] /\ events' = [s \in Socks |-> {}]

Next ==
  /\ UNCHANGED lenient
  /\ \/ \E s \in Socks : Add(s) \/ Change(s) \/ Del(s)
     \/ \E s \in Socks : \E type \in Types(state[s]) : Tell(s, type)
     \/ Return \/ Wait \/ Restart

Spec == Init /\ [][Next]_evars
=============================================================================
