----------------------------- MODULE Connections -----------------------------
(***************************************************************************)
(* The life of a connection and what is read from it (list.c, s_bsd.c,     *)
(* packet.c, dbuf.c, ssl.c, m_starttls.c).  A Connection outlives its      *)
(* Client until the engine has destroyed its socket and its timer; lines   *)
(* that come too fast wait in the receive queue for the timer.             *)
(*                                                                         *)
(* A stream of text is cut into chunks: text of a message, or its end.     *)
(* What a line does when it is parsed is an outcome.  One operator of this *)
(* module handles one Connection, the record s.                            *)
(***************************************************************************)
EXTENDS Integers, Sequences, SequencesExt, FiniteSets, FiniteSetsExt, Loops

CONSTANTS
  Slots,      \* the Connection structures
  Stream,     \* what every peer sends: a sequence of [m, eol]
  Segment,    \* bound on the chunks of one read
  MAXLINE,    \* the chunks that fit in a line of 510 bytes
  RECVQ,      \* get_recvq
  MAXLAG      \* the "10" seconds that commands may be ahead of the clock

ASSUME ConnConstants ==
  /\ Stream \in Seq([m : Nat, eol : BOOLEAN])
  /\ {Segment, MAXLINE, RECVQ, MAXLAG} \subseteq Nat \ {0}

VARIABLES
  con,        \* con[k]: a Connection, and its Client if there is one
  pos         \* pos[k]: how much of the stream its peer has sent
connVars == <<con, pos>>

\* client: the Client is allocated; local: it is in LocalClientArray; ref: an event of the
\* socket is being handled; timer: cli_proc; flags: con_freeflag; buffer: cli_buffer of
\* servers; lag: cli_since - CurrentTime; lost: refused, and forgotten without being freed;
\* line, last: the last line that was parsed, and the message before it; bad: an
\* assertion of list.c failed, or the engine still had the socket of what was freed.
Free == [used |-> FALSE, client |-> FALSE, local |-> FALSE, stat |-> "none", fd |-> FALSE,
         sock |-> "off", ref |-> FALSE, timer |-> "off", flags |-> {}, listener |-> FALSE,
         ssl |-> FALSE, accept |-> FALSE, dead |-> FALSE, trusted |-> FALSE, nonl |-> FALSE,
         recvQ |-> <<>>, buffer |-> <<>>, lag |-> 0, lost |-> FALSE, line |-> <<>>, last |-> 0, bad |-> FALSE]

ConnInit ==
  /\ con = [k \in Slots |-> Free]
  /\ pos = [k \in Slots |-> 0]

-----------------------------------------------------------------------------
\* list.c

make_client(stat) == [Free EXCEPT !.used = TRUE, !.client = TRUE, !.stat = stat]

dealloc_connection(s) ==
  [Free EXCEPT !.bad = s.bad \/ ~s.used \/ s.timer # "off" \/ s.sock # "off"]

free_connection(s) == dealloc_connection([s EXCEPT !.bad = @ \/ s.client])

\* ET_DESTROY of the socket.
SockDestroyed(s) ==
  LET t == [s EXCEPT !.flags = @ \ {"socket"}, !.sock = "off", !.ssl = FALSE]
  IN  IF t.flags = {} /\ ~t.client THEN free_connection(t) ELSE t

socket_del(s) == IF s.ref THEN [s EXCEPT !.sock = "dying"] ELSE SockDestroyed(s)


\* ET_DESTROY of the timer.
TimerDestroyed(s) ==
  LET t == [s EXCEPT !.flags = @ \ {"timer"}, !.timer = "off"]
  IN  IF t.flags = {} /\ ~t.client THEN free_connection(t) ELSE t

timer_del(s) == IF s.timer \in {"marked", "readd"} THEN [s EXCEPT !.timer = "marked"]
                                                   ELSE TimerDestroyed(s)

free_client(s) ==
  LET c == [s EXCEPT !.client = FALSE]
      d == IF c.fd /\ "socket" \in c.flags THEN socket_del(c) ELSE c
  IN  IF c.flags = {} /\ c.timer = "off" THEN dealloc_connection(c)
      ELSE IF "timer" \in d.flags THEN timer_del(d) ELSE d

-----------------------------------------------------------------------------
\* s_bsd.c

close_connection(s) ==
  LET t == IF s.fd THEN socket_del([s EXCEPT !.local = FALSE, !.fd = FALSE]) ELSE s
  IN  [t EXCEPT !.dead = TRUE, !.recvQ = <<>>, !.listener = FALSE]

\* With remove_client_from_list, what exit_client does to a connection.
exit_client(s) == free_client(close_connection(s))

\* A connection is accepted; it may be refused at several points, by then with a Client
\* that nobody has.
add_connection(tls, server, how) ==
  LET s == make_client("unknown")
      on == [s EXCEPT !.fd = TRUE, !.sock = "on", !.ssl = tls, !.accept = tls]
      lost == [s EXCEPT !.lost = TRUE]
  IN  CASE how = "throttled" -> Free
        [] how \in {"banned", "socket_add failed"} -> lost
        [] how = "accept failed" -> [socket_del([on EXCEPT !.fd = FALSE]) EXCEPT !.lost = TRUE]
        [] how \in {"accepted", "wait"} ->
             [on EXCEPT !.accept = tls /\ how = "wait", !.flags = {"socket"},
                        !.listener = TRUE, !.local = TRUE]

\* ssl_accept with what SSL_accept says: 1 to be called again, 0 for failure, -1 when the
\* handshake is over or none is needed.
ssl_accept(s, says) ==
  CASE ~s.accept -> [s |-> s, r |-> -1]
    [] s.accept /\ says = "wait" -> [s |-> s, r |-> 1]
    [] s.accept /\ says = "fail" -> [s |-> [s EXCEPT !.ssl = FALSE], r |-> 0]
    [] s.accept /\ says = "done" -> [s |-> [s EXCEPT !.accept = FALSE], r |-> -1]

\* The state of a connection to a server after connect(): 0 if it failed.
completed_connection(s, says) ==
  CASE says = "fail" -> [s |-> s, r |-> 0]
    [] says = "wait" -> [s |-> [s EXCEPT !.ssl = TRUE], r |-> 1]
    [] says = "done" -> [s |-> [s EXCEPT !.stat = "handshake"], r |-> 1]

\* A server is connected to; connect_inet may fail, or no Connect block be found.
connect_server(how) ==
  LET s == make_client("connecting")
  IN  IF how = "fail" THEN free_client(s)
      ELSE [s EXCEPT !.fd = TRUE, !.sock = "on", !.flags = {"socket"}, !.local = TRUE]

-----------------------------------------------------------------------------
\* dbuf.c and packet.c

dbuf_flush(q) == LET text == {i \in DOMAIN q : ~q[i].eol}
                 IN  IF text = {} THEN <<>> ELSE SubSeq(q, Min(text), Len(q))

\* The next line if one ends within a line's length, and what remains.
dbuf_getmsg(q) ==
  LET f == dbuf_flush(q)
      ends == {i \in 1 .. Min({MAXLINE + 1, Len(f)}) : f[i].eol}
  IN  IF ends = {} THEN [line |-> <<>>, q |-> f]
      ELSE [line |-> SubSeq(f, 1, Min(ends) - 1),
            q |-> dbuf_flush(SubSeq(f, Min(ends), Len(f)))]

\* A line is parsed: it may end the connection, register the client, or start TLS.
Parsed(s, line) == [s EXCEPT !.last = IF s.line = <<>> THEN 0 ELSE Last(s.line).m, !.line = line]

parse_client(s, line, o) ==
  LET t == Parsed(s, line)
  IN  CASE o = "killed" -> exit_client(t)
        [] o = "dead" -> [t EXCEPT !.dead = TRUE]
        [] o \in {"user", "trusted"} /\ s.stat = "unknown" ->
             [t EXCEPT !.stat = "user", !.trusted = (o = "trusted")]
        [] o = "server" /\ s.stat \in {"unknown", "handshake"} -> [t EXCEPT !.stat = "server"]
        [] o \in {"starttls", "starttls wait"} /\ s.stat = "unknown" /\ ~s.ssl ->
             [t EXCEPT !.recvQ = <<>>, !.ssl = TRUE, !.accept = (o = "starttls wait")]
        [] OTHER -> t

ExitDead(s) == IF s.client /\ s.dead THEN exit_client(s) ELSE s

client_dopacket(s, line, o) == ExitDead(parse_client(s, line, o))

\* server_dopacket and connect_dopacket: chunk after chunk into a buffer of the client,
\* which keeps what fits.
DoChunk(x, chunk) ==
  LET s == x.s
      d == client_dopacket([s EXCEPT !.buffer = <<>>], s.buffer, x.o)
  IN  IF ~s.client THEN x
      ELSE IF chunk.eol
      THEN IF s.buffer = <<>> THEN x ELSE [s |-> d, o |-> "ok"]
      ELSE IF Len(s.buffer) < MAXLINE THEN [x EXCEPT !.s.buffer = Append(@, chunk)] ELSE x

connect_dopacket(s, chunks, o) == FoldLeft(DoChunk, [s |-> s, o |-> o], chunks).s

\* One turn of the loop of read_packet: what a client became that is a server now goes on
\* with the rest.
AsServer(s) ==
  IF s.client /\ s.stat \in {"handshake", "server"}
  THEN connect_dopacket([s EXCEPT !.recvQ = <<>>], s.recvQ, "ok") ELSE s

GotLine(s, got, o) ==
  IF got.line # <<>>
  THEN [s |-> AsServer(client_dopacket([s EXCEPT !.recvQ = got.q, !.lag = @ + 1], got.line, o)),
        o |-> "ok"]
  ELSE [s |-> AsServer(IF Len(got.q) < MAXLINE THEN [s EXCEPT !.recvQ = got.q, !.nonl = TRUE]
                                               ELSE [s EXCEPT !.recvQ = <<>>]),
        o |-> o]

ReadLine(x) ==
  IF \/ ~x.s.client \/ x.s.recvQ = <<>> \/ x.s.nonl
     \/ x.s.lag >= MAXLAG /\ ~x.s.trusted
  THEN x ELSE GotLine(x.s, dbuf_getmsg(x.s.recvQ), x.o)

\* "If there's still data to process, wait 2 seconds first"
WaitTwo(s) ==
  IF s.client /\ s.recvQ # <<>> /\ ~s.nonl /\ s.timer # "queued"
  THEN [s EXCEPT !.flags = @ \cup {"timer"}, !.timer = IF @ = "marked" THEN "readd" ELSE "queued"]
  ELSE s

\* chunks were read (none if only the queue is to be processed); o: what a line does.
read_packet(s, chunks, o) ==
  LET r == IF chunks = <<>> THEN s ELSE [s EXCEPT !.nonl = FALSE]
      q == [r EXCEPT !.recvQ = @ \o chunks]
  IN  IF chunks # <<>> /\ s.stat \in {"server", "handshake", "connecting"}
      THEN connect_dopacket(r, chunks, o)
      ELSE IF Len(q.recvQ) > RECVQ THEN exit_client(q)
      ELSE WaitTwo(Repeat(ReadLine, [s |-> q, o |-> o], Len(q.recvQ) + 1).s)

-----------------------------------------------------------------------------
\* Events

\* client_sock_callback is called with an event of the socket; a socket that was deleted
\* meanwhile is destroyed afterwards.
Handled(k, s) ==
  con' = [con EXCEPT ![k] = IF s.sock = "dying" THEN SockDestroyed([s EXCEPT !.ref = FALSE])
                                                ELSE [s EXCEPT !.ref = FALSE]]
Event(k) == [con[k] EXCEPT !.ref = TRUE]
Live(k) == con[k].client /\ con[k].sock = "on"
Sent(k, n) == SubSeq(Stream, pos[k] + 1, pos[k] + n)

\* Where a peer that starts TLS goes on: what it said in plain text is forgotten.
Boundary(n) == Min({i \in n .. Len(Stream) : i \in {0, Len(Stream)} \/ Stream[i].eol})

Outcomes == {"ok", "killed", "dead", "user", "trusted", "server", "starttls", "starttls wait"}
Says == {"wait", "fail", "done"}

ET_READ(k) ==
  /\ Live(k) /\ ~con[k].dead
  /\ \E says \in Says, n \in 0 .. Segment, o \in Outcomes :
       LET a == ssl_accept(Event(k), says)
           c == IF a.s.stat = "connecting" THEN completed_connection(a.s, says).s ELSE a.s
           full == c.stat = "user" /\ Len(c.recvQ) > RECVQ
           m == IF full THEN 0 ELSE n
       IN  /\ pos[k] + n <= Len(Stream)
           /\ \/ a.r = 1 /\ Handled(k, a.s) /\ UNCHANGED pos
              \/ a.r = 0 /\ Handled(k, exit_client([a.s EXCEPT !.dead = TRUE])) /\ UNCHANGED pos
              \/ /\ a.r = -1
                 /\ \E r \in {read_packet(c, Sent(k, m), o)} :
                      /\ Handled(k, r)
                      /\ pos' = [pos EXCEPT ![k] = IF r.ssl /\ ~c.ssl THEN Boundary(@ + m) ELSE @ + m]

\* The socket cannot be read: end of file, an error, or a failing ssl_recv.
ET_EOF(k) ==
  /\ Live(k)
  /\ Handled(k, exit_client([Event(k) EXCEPT !.dead = TRUE, !.ssl = FALSE]))
  /\ UNCHANGED pos

ET_WRITE(k) ==
  /\ Live(k)
  /\ \E says \in Says :
       LET a == ssl_accept(Event(k), says)
           c == IF a.s.stat = "connecting" THEN completed_connection(a.s, says).s ELSE a.s
       IN  \/ a.r = 1 /\ Handled(k, a.s)
           \/ a.r = 0 /\ Handled(k, exit_client([a.s EXCEPT !.dead = TRUE]))
           \/ a.r = -1 /\ Handled(k, c)
  /\ UNCHANGED pos

ET_CONNECT(k) ==
  /\ Live(k) /\ con[k].stat = "connecting"
  /\ \E says \in Says :
       LET c == completed_connection(Event(k), says)
       IN  Handled(k, IF c.r = 0 \/ c.s.dead THEN exit_client(c.s) ELSE c.s)
  /\ UNCHANGED pos

\* client_timer_callback; two seconds have passed.
ET_EXPIRE(k) ==
  /\ con[k].timer = "queued"
  /\ \E o \in Outcomes :
       \E t \in {read_packet([con[k] EXCEPT !.timer = "marked", !.lag = Max({0, @ - 2})], <<>>, o)} :
         /\ con' = [con EXCEPT ![k] = IF t.timer = "readd" THEN [t EXCEPT !.timer = "queued"]
                                                           ELSE TimerDestroyed(t)]
         /\ pos' = [pos EXCEPT ![k] = IF t.ssl /\ ~con[k].ssl THEN Boundary(@) ELSE @]

\* A connection comes in, or is made.
Connect(k) ==
  /\ ~con[k].used
  /\ \/ \E tls \in BOOLEAN, how \in {"throttled", "banned", "socket_add failed", "accept failed",
                                     "accepted", "wait"} :
          con' = [con EXCEPT ![k] = add_connection(tls, FALSE, how)]
     \/ \E how \in {"fail", "done"} : con' = [con EXCEPT ![k] = connect_server(how)]
  /\ pos' = [pos EXCEPT ![k] = 0]

\* Somebody else's command or check_pings ends the connection, or sees that it is dead.
Exit(k) ==
  /\ Live(k) /\ con[k].local
  /\ con' = [con EXCEPT ![k] = exit_client(@)]
  /\ UNCHANGED pos

\* CLOSE, by an operator.
net_close_unregistered_connections ==
  /\ con' = [k \in Slots |-> IF con[k].local /\ con[k].stat \in {"unknown", "connecting", "handshake"}
                             THEN exit_client(con[k]) ELSE con[k]]
  /\ con' # con
  /\ UNCHANGED pos

ConnNext ==
  \/ \E k \in Slots : \/ ET_READ(k) \/ ET_EOF(k) \/ ET_WRITE(k) \/ ET_CONNECT(k) \/ ET_EXPIRE(k)
                      \/ Connect(k) \/ Exit(k)
  \/ net_close_unregistered_connections

\* Weak fairness of ET_EXPIRE, with what enables it spelled out: timer_run expires what is
\* queued.
ConnFair == \A k \in Slots : []<>(con[k].timer # "queued") \/ []<><<ET_EXPIRE(k)>>_connVars

-----------------------------------------------------------------------------
\* Properties

\* Chunks of a message in the stream.
Text(m) == SelectSeq(Stream, LAMBDA c : c.m = m /\ ~c.eol)

\* Between events a Connection is allocated exactly as long as its Client, however the
\* client went: in a callback of its own socket, in its timer or by somebody else.  It was
\* never freed twice, or with its timer or its Client still there (the assertions of
\* list.c), no timer of a free one is queued, and a live one is found in LocalClientArray.
ConnConsistent ==
  \A k \in Slots :
    LET s == con[k]
    IN  /\ ~s.bad /\ ~s.ref
        /\ s.used <=> s.client
        /\ s.sock # "dying" /\ s.timer \in {"off", "queued"}
        /\ "timer" \in s.flags <=> s.timer = "queued"
        /\ s.used /\ ~s.lost => s.local /\ s.fd /\ s.sock = "on" /\ "socket" \in s.flags
        /\ Len(s.recvQ) <= RECVQ

\* A line that is parsed is one message as it was sent, none glued to another and none out
\* of order, however the text was cut into reads; only of messages that are too long a
\* part is parsed.
LinesWhole ==
  \A k \in Slots :
    LET line == con[k].line
    IN  line # <<>> => /\ \A i \in DOMAIN line : line[i].m = line[1].m
                       /\ con[k].last < line[1].m \/ Len(Text(line[1].m)) > MAXLINE
                       /\ line = Text(line[1].m) \/ Len(Text(line[1].m)) > MAXLINE

\* A complete line in the receive queue is eventually parsed, or the client is gone.
Waiting(k) == con[k].client /\ ~con[k].nonl /\ con[k].recvQ # <<>>
LinesParsed == \A k \in Slots : Waiting(k) ~> ~Waiting(k)
=============================================================================
