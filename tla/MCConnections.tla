--------------------------- MODULE MCConnections ---------------------------
(***************************************************************************)
(* Connections, and the queues of what is sent to them; the two have no    *)
(* state in common and are checked one at a time.                          *)
(***************************************************************************)
EXTENDS Connections, SendQueues

VARIABLE part
vars == <<part, connVars, sendqVars>>

\* Messages that take one, two, one and three chunks, the last one too long.
MCStream ==
  LET Message(m, n) == [i \in 1 .. n |-> [m |-> m, eol |-> FALSE]] \o <<[m |-> m, eol |-> TRUE]>>
  IN  Message(1, 1) \o Message(2, 2) \o Message(3, 1) \o Message(4, 3)

Init == part \in {"connections", "queues"} /\ ConnInit /\ SendqInit

Next ==
  /\ UNCHANGED part
  /\ \/ part = "connections" /\ ConnNext /\ UNCHANGED sendqVars
     \/ part = "queues" /\ SendqNext /\ UNCHANGED connVars

Spec == Init /\ [][Next]_vars /\ (part = "connections" => ConnFair)
                             /\ (part = "queues" => SendqFair)


\* What is read is cut into the lines that were sent and what is sent reaches the wire whole and in
\* order, however reads and writes are cut up, priorities interleave and queues overflow
\* (connect_dopacket, server_dopacket, client_dopacket, msgq_mapiov, msgq_delete, msgq_excise).
StreamsIntact == LinesWhole /\ WireIntact

\* Neither direction stalls: lines that wait are parsed once the flood limit allows, and queues drain
\* if the peer reads (client_timer_callback, deliver_it, update_write).
StreamsFlow == LinesParsed /\ QueuesDrain
=============================================================================
