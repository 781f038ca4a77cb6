----------------------------- MODULE SendQueues -----------------------------
(***************************************************************************)
(* What is queued for connections (msgq.c, and send_buffer, send_queued    *)
(* and their helpers of send.c, s_bsd.c, client.c, ssl.c).  A message is   *)
(* formatted once, into a buffer of the largest size, copied to one that   *)
(* fits and shared by the queues of all its recipients; the last queue     *)
(* that has written it frees it.                                           *)
(*                                                                         *)
(* Sizes are counted in blocks.  What the peer's kernel still takes is     *)
(* `room'; a broken connection takes that and then fails.  No operator     *)
(* listens to the notices that dead_link sends about servers.              *)
(***************************************************************************)
EXTENDS Integers, Sequences, SequencesExt, FiniteSets, FiniteSetsExt, Loops

CONSTANTS
  Fds,          \* connections, by file descriptor
  ServerFds,    \* those to servers
  TlsFds,       \* those that use TLS
  Audiences,    \* the sets of connections that messages are sent to
  Buffers,      \* struct MsgBuf
  NoBuf,
  BUFSIZE,      \* the size in which messages are formatted
  BUFFERPOOL,   \* FEAT_BUFFERPOOL
  HAS_FERGUSON_FLUSHER,
  MAXSENDQ,     \* get_sendq
  BLOCK,        \* the "1024" after which a queue is flushed
  IOV_MAX,
  MaxRoom,
  MaxMessages   \* bound on the messages sent

ASSUME SendqConstants ==
  /\ Fds \subseteq Nat /\ ServerFds \subseteq Fds /\ TlsFds \subseteq Fds
  /\ Audiences \subseteq SUBSET Fds
  /\ NoBuf \notin Buffers
  /\ {BUFSIZE, BUFFERPOOL, BLOCK, IOV_MAX} \subseteq Nat \ {0}
  /\ {MAXSENDQ, MaxRoom, MaxMessages} \subseteq Nat
  /\ HAS_FERGUSON_FLUSHER \in BOOLEAN

VARIABLES
  bufs,         \* bufs[b]: a MsgBuf that is in use, free or not allocated
  sendQ,        \* sendQ[c]: struct MsgQ
  conn,         \* conn[c]: flags of the connection and what its peer takes
  send_queues,  \* the connections that have something queued
  due,          \* due[c]: the blocks said to c and not yet written to it, in order
  said,         \* number of messages
  panic         \* server_panic was called

sendqVars == <<bufs, sendQ, conn, send_queues, due, said, panic>>

Sizes == 1 .. BUFSIZE
MsgBuf == [state : {"none", "free", "used"}, size : Sizes, ref : Nat, length : 0 .. BUFSIZE,
           real : Buffers \cup {NoBuf}, text : 0 .. MaxMessages]
Msg == [buf : Buffers, sent : 0 .. BUFSIZE]
Blank == [state |-> "none", size |-> 1, ref |-> 0, length |-> 0, real |-> NoBuf, text |-> 0]
Closed == [open |-> FALSE, dead |-> TRUE, blocked |-> FALSE, want |-> FALSE, lastsq |-> 0,
           room |-> 0, broken |-> FALSE, retry |-> <<>>]

SendqInit ==
  /\ bufs = [b \in Buffers |-> Blank]
  /\ sendQ = [c \in Fds |-> [queue |-> <<>>, prio |-> <<>>, length |-> 0]]
  /\ \E n \in {0, MaxRoom} :
       conn = [c \in Fds |-> [Closed EXCEPT !.open = TRUE, !.dead = FALSE, !.room = n]]
  /\ send_queues = <<>>
  /\ due = [c \in Fds |-> <<>>]
  /\ said = 0 /\ panic = FALSE

-----------------------------------------------------------------------------
\* The state while a handler runs.
SendqNow == [bufs |-> bufs, q |-> sendQ, conn |-> conn, list |-> send_queues, due |-> due,
             panic |-> FALSE]

SendqThen(w) ==
  /\ bufs' = w.bufs /\ sendQ' = w.q /\ conn' = w.conn
  /\ send_queues' = w.list /\ due' = w.due /\ panic' = w.panic

-----------------------------------------------------------------------------
\* msgq.c

Fitting(length) == Min({s \in Sizes : s >= length})

tot_bufsize(w) == MapThenSumSet(LAMBDA b : w.bufs[b].size,
                                {b \in Buffers : w.bufs[b].state # "none"})

\* A buffer for length blocks, which `in' is then copied to: from the free ones of that
\* size, or a new one if the pool allows it, or else `in' itself.
msgq_alloc(w, in, length) ==
  LET size == Fitting(length)
      free == {b \in Buffers : w.bufs[b].state = "free" /\ w.bufs[b].size = size}
      new == IF tot_bufsize(w) < BUFFERPOOL THEN {b \in Buffers : w.bufs[b].state = "none"} ELSE {}
      from == IF free # {} THEN free ELSE new
      b == CHOOSE x \in from : TRUE
      got == [w.bufs EXCEPT ![b] = [Blank EXCEPT !.state = "used", !.size = size, !.ref = 1]]
  IN  IF in # NoBuf /\ (w.bufs[in].size = size \/ from = {})
      THEN [w |-> [w EXCEPT !.bufs[in].real = in], mb |-> in]
      ELSE IF from = {} THEN [w |-> w, mb |-> NoBuf]
      ELSE [w |-> [w EXCEPT !.bufs = IF in = NoBuf THEN got ELSE [got EXCEPT ![in].real = b]],
            mb |-> b]

msgq_clear_freembs(w) ==
  [w EXCEPT !.bufs = [b \in Buffers |-> IF @[b].state = "free" THEN Blank ELSE @[b]]]

\* Drops one reference; the last one frees the buffer, and with the buffer a message was
\* formatted in goes its reference to the copy.
Unref(bs, b) ==
  IF bs[b].ref = 1 THEN [bs EXCEPT ![b] = [Blank EXCEPT !.state = "free", !.size = bs[b].size]]
                   ELSE [bs EXCEPT ![b].ref = @ - 1]

msgq_clean(w, mb) ==
  LET real == w.bufs[mb].real
      bs == Unref(w.bufs, mb)
  IN  [w EXCEPT !.bufs = IF w.bufs[mb].ref = 1 /\ real \notin {NoBuf, mb} THEN Unref(bs, real)
                                                                          ELSE bs]

\* One more reference to the buffer that mb is copied to, on a list of the queue.
Enqueue(w, c, mb, list) ==
  LET real == w.bufs[mb].real
      b == [w.bufs[real] EXCEPT !.ref = @ + 1, !.length = w.bufs[mb].length,
                                !.text = w.bufs[mb].text]
  IN  [w EXCEPT !.bufs[real] = b,
                !.q[c][list] = Append(@, [buf |-> real, sent |-> 0]),
                !.q[c].length = @ + b.length]

Copied(w, mb) ==
  IF w.bufs[mb].real # NoBuf THEN w ELSE msgq_alloc(w, mb, w.bufs[mb].length).w

\* mutant: short messages are urgent
msgq_add_prio(w, c, mb) ==
  Enqueue(Copied(w, mb), c, mb, IF w.bufs[mb].length = 1 THEN "prio" ELSE "queue")

\* prio is cleared: "Priority queue breaks SSL."
msgq_add(w, c, mb) == Enqueue(Copied(w, mb), c, mb, "queue")

\* n more blocks of the first message are written: of a message that was begun, or else of
\* one that is urgent.
msgq_delmsg(w, c, n) ==
  LET mq == w.q[c]
      l == IF (mq.queue # <<>> /\ mq.queue[1].sent > 0) \/ mq.prio = <<>> THEN "queue" ELSE "prio"
      m == mq[l][1]
      left == w.bufs[m.buf].length - m.sent
  IN  IF n >= left
      THEN [w |-> msgq_clean([w EXCEPT !.q[c].length = @ - left, !.q[c][l] = Tail(@)], m.buf),
            n |-> n - left]
      ELSE [w |-> [w EXCEPT !.q[c].length = @ - n, !.q[c][l][1].sent = @ + n], n |-> 0]

msgq_delete(w, c, n) ==
  LET Step(x) == IF x.n = 0 \/ x.w.q[c].queue \o x.w.q[c].prio = <<>> THEN x
                 ELSE msgq_delmsg(x.w, c, x.n)
  IN  Repeat(Step, [w |-> w, n |-> n], Len(w.q[c].queue \o w.q[c].prio)).w

MsgQClear(w, c) == msgq_delete(w, c, w.q[c].length)

\* The messages in the order in which they are written, as many as one call takes.
Order(mq) ==
  IF mq.queue # <<>> /\ mq.queue[1].sent > 0
  THEN <<mq.queue[1]>> \o mq.prio \o Tail(mq.queue)
  ELSE mq.prio \o mq.queue

msgq_mapiov(mq) == SubSeq(Order(mq), 1, Min({IOV_MAX, Len(Order(mq))}))

Left(w, m) == w.bufs[m.buf].length - m.sent
Total(w, ms) == FoldLeft(LAMBDA n, m : n + Left(w, m), 0, ms)

-----------------------------------------------------------------------------
\* send.c

client_drop_sendq(w, c) == [w EXCEPT !.list = Remove(@, c)]
client_add_sendq(w, c) == IF Contains(w.list, c) THEN w ELSE [w EXCEPT !.list = <<c>> \o @]

\* mutant: a queue of less than a block is not waited for
update_write_blocks(w, c) == [w EXCEPT !.conn[c].want = w.q[c].length \div BLOCK > 0]

update_write(w, c) == [w EXCEPT !.conn[c].want = w.q[c].length > 0]

can_send(w, c) == ~w.conn[c].dead /\ w.conn[c].open

dead_link(w, c) ==
  [client_drop_sendq(MsgQClear(w, c), c) EXCEPT !.conn[c].dead = TRUE, !.due[c] = <<>>]

\* Blocks the kernel takes, and what it says.
os_sendv_nonb(w, c) ==
  LET count == Total(w, msgq_mapiov(w.q[c]))
      n == Min({count, w.conn[c].room})
  IN  [count |-> count, n |-> n, retry |-> <<>>,
       result |-> IF n > 0 THEN "success" ELSE IF w.conn[c].broken THEN "failure" ELSE "blocked"]

\* Message after message, each whole or not at all; what was not taken must be retried
\* "with the same write buffer".
ssl_sendv(w, c) ==
  LET ms == msgq_mapiov(w.q[c])
      k == Max({i \in 0 .. Len(ms) : Total(w, SubSeq(ms, 1, i)) <= w.conn[c].room})
      n == Total(w, SubSeq(ms, 1, k))
  IN  [count |-> Total(w, ms), n |-> n,
       retry |-> IF k < Len(ms) THEN <<ms[k + 1]>> ELSE <<>>,
       result |-> IF k < Len(ms) /\ w.conn[c].broken THEN "failure"
                  ELSE IF k > 0 THEN "success" ELSE "blocked"]

Written(w, c, r) ==
  [n |-> r.n,
   w |-> [w EXCEPT !.conn[c].room = @ - r.n, !.conn[c].retry = r.retry,
                   !.conn[c].blocked = CASE r.result = "blocked" -> TRUE
                                         [] r.result = "success" -> r.n < r.count
                                         [] OTHER -> @,
                   !.conn[c].dead = @ \/ r.result = "failure",
                   !.due[c] = SubSeq(@, r.n + 1, Len(@))]]

deliver_it(w, c) == Written(w, c, IF c \in TlsFds THEN ssl_sendv(w, c) ELSE os_sendv_nonb(w, c))

\* One turn of the loop of send_queued, once d was delivered, and the queue is shorter.
Shorter(w, c) ==
  LET lsq == [w EXCEPT !.conn[c].lastsq = w.q[c].length \div BLOCK]
  IN  IF w.conn[c].blocked THEN [w |-> update_write(lsq, c), done |-> TRUE]
                           ELSE [w |-> lsq, done |-> FALSE]

Delivered(d, c) ==
  IF d.n > 0 THEN Shorter(msgq_delete(d.w, c, d.n), c)
  ELSE [w |-> IF d.w.conn[c].dead THEN dead_link(d.w, c) ELSE d.w, done |-> TRUE]

SendSome(x, c) ==
  IF x.done \/ x.w.q[c].length = 0 THEN x ELSE Delivered(deliver_it(x.w, c), c)

SentAll(x, c) == IF x.done THEN x.w ELSE update_write(client_drop_sendq(x.w, c), c)

send_queued(w, c) ==
  LET Step(x) == SendSome(x, c)
  IN  IF w.conn[c].blocked \/ ~can_send(w, c) THEN w
      ELSE SentAll(Repeat(Step, [w |-> w, done |-> FALSE], Len(Order(w.q[c])) + 1), c)

\* All queues, along the list; a connection that is done with has left the list, and where
\* it pointed to is forgotten.
flush_connections(w) ==
  LET After(v, i, c) == [w |-> v, i |-> IF Contains(v.list, c) THEN i + 1 ELSE Cardinality(Fds) + 1]
      Step(x) == IF x.i > Len(x.w.list) THEN x
                 ELSE After(send_queued(x.w, x.w.list[x.i]), x.i, x.w.list[x.i])
  IN  Repeat(Step, [w |-> w, i |-> 1], Len(w.list)).w

\* The longest queue, of connections that are not to servers if any is to be spared.
kill_highest_sendq(w, servers_too) ==
  LET cs == {c \in Fds : w.conn[c].open /\ w.q[c].length > 0 /\ (servers_too \/ c \notin ServerFds)}
      c == Max({x \in cs : \A y \in cs : w.q[y].length <= w.q[x].length})
  IN  IF cs = {} THEN w ELSE dead_link(w, c)

\* A buffer for a new message; the server goes to lengths to get one.
OrElse(x, Room(_)) == IF x.mb # NoBuf THEN x ELSE msgq_alloc(Room(x.w), NoBuf, BUFSIZE)

Filled(x, length, text) ==
  IF x.mb = NoBuf THEN [x EXCEPT !.w.panic = TRUE]
  ELSE [x EXCEPT !.w.bufs[x.mb].length = length, !.w.bufs[x.mb].text = text]

Formatted(w, length, text) ==
  LET Flush(v) == IF HAS_FERGUSON_FLUSHER THEN flush_connections(v) ELSE v
      KillClient(v) == msgq_clear_freembs(kill_highest_sendq(v, FALSE))
      KillAny(v) == msgq_clear_freembs(kill_highest_sendq(v, TRUE))
  IN  Filled(OrElse(OrElse(OrElse(OrElse(msgq_alloc(w, NoBuf, BUFSIZE), Flush), msgq_clear_freembs),
                           KillClient), KillAny), length, text)

msgq_vmake(w, length, text) == Formatted(w, length, text)

\* A connection that has too much queued is given up, else the message is queued; every
\* now and then the queue is flushed.
FlushLong(w, c) == IF w.q[c].length \div BLOCK > w.conn[c].lastsq THEN send_queued(w, c) ELSE w

send_buffer(w, c, mb) ==
  LET said_c == [i \in 1 .. w.bufs[mb].length |-> <<w.bufs[mb].text, i>>]
  IN  IF ~can_send(w, c) THEN w
      ELSE IF w.q[c].length > MAXSENDQ THEN dead_link(w, c)
      ELSE FlushLong(update_write(client_add_sendq(
             msgq_add([w EXCEPT !.due[c] = @ \o said_c], c, mb), c), c), c)

-----------------------------------------------------------------------------
\* Actions

\* One of the functions of send.c makes a message and sends it to some connections.
sendcmdto(to, length) ==
  /\ ~panic /\ said < MaxMessages /\ said' = said + 1
  /\ \E made \in {msgq_vmake(SendqNow, length, said + 1)} :
       SendqThen(IF made.w.panic THEN made.w
                 ELSE msgq_clean(FoldLeft(LAMBDA w, c : send_buffer(w, c, made.mb), made.w,
                                          SetToSortSeq(to, LAMBDA a, b : a < b)), made.mb))

\* ET_WRITE: the socket takes data again.
Writable(c) ==
  /\ ~panic /\ conn[c].open /\ conn[c].want /\ (conn[c].room > 0 \/ conn[c].broken)
  /\ SendqThen(send_queued([SendqNow EXCEPT !.conn[c].blocked = FALSE], c))
  /\ UNCHANGED said

\* The connection ends: it is dead, or the client leaves.
CloseConnection(c) ==
  /\ ~panic /\ conn[c].open
  /\ SendqThen([client_drop_sendq(MsgQClear(send_queued(SendqNow, c), c), c) EXCEPT
                  !.conn[c] = Closed, !.due[c] = <<>>])
  /\ UNCHANGED said

\* The peer reads, or breaks.
Drain(c) ==
  /\ conn[c].open /\ ~conn[c].broken
  /\ conn[c].room < MaxRoom /\ conn' = [conn EXCEPT ![c].room = @ + 1]
  /\ UNCHANGED <<bufs, sendQ, send_queues, due, said, panic>>

Break(c) ==
  /\ conn[c].open /\ ~conn[c].broken
  /\ conn' = [conn EXCEPT ![c].broken = TRUE]
  /\ UNCHANGED <<bufs, sendQ, send_queues, due, said, panic>>

SendqNext ==
  \/ \E to \in Audiences, n \in Sizes : sendcmdto(to, n)
  \/ \E c \in Fds : Writable(c) \/ CloseConnection(c) \/ Drain(c) \/ Break(c)

\* Weak fairness of Writable and Drain, with what enables them spelled out: the event loop
\* reports a socket that can be written to, and peers go on reading.
CanWrite(c) == ~panic /\ conn[c].want /\ can_send(SendqNow, c) /\ (conn[c].room > 0 \/ conn[c].broken)
CanDrain(c) == conn[c].open /\ ~conn[c].broken /\ conn[c].room < MaxRoom

SendqFair ==
  \A c \in Fds : /\ []<>~CanWrite(c) \/ []<><<Writable(c)>>_sendqVars
                 /\ []<>~CanDrain(c) \/ []<><<Drain(c)>>_sendqVars

SendqSpec == SendqInit /\ [][SendqNext]_sendqVars

-----------------------------------------------------------------------------
\* Properties

\* The places in queues where a buffer is.
Uses(b) == {<<c, l, i>> \in Fds \X {"queue", "prio"} \X (1 .. MaxMessages) :
              i <= Len(sendQ[c][l]) /\ sendQ[c][l][i].buf = b}

\* A buffer that several queues share is in use exactly as long as one of them has it: none
\* is freed early, counted twice or lost, whoever breaks or is given up in the middle of a
\* message.  The length of a queue is what is left to write, and a connection is on the
\* list of those with queued data exactly when it has some (asserted in flush_connections).
SendqConsistent ==
  /\ bufs \in [Buffers -> MsgBuf]
  /\ \A b \in Buffers :
       /\ bufs[b].state = "used" <=> bufs[b].ref > 0
       /\ bufs[b].ref = Cardinality(Uses(b))
  /\ \A c \in Fds :
       /\ sendQ[c].length = Total(SendqNow, Order(sendQ[c]))
       /\ Contains(send_queues, c) <=> sendQ[c].length > 0
  /\ IsInjective(send_queues)

\* What the queue of a connection holds is what was said to it and not yet written, in the
\* order it was said, no message torn or mixed with another; and a TLS write that was not
\* taken is retried with the same buffer ("Incomplete SSL writes must be retried with the
\* same write buffer", ssl.c).
WireIntact ==
  \A c \in Fds :
    /\ due[c] = FlattenSeq([i \in DOMAIN Order(sendQ[c]) |->
                  LET m == Order(sendQ[c])[i]
                  IN  [j \in 1 .. Left(SendqNow, m) |-> <<bufs[m.buf].text, m.sent + j>>]])
    /\ conn[c].retry # <<>> /\ can_send(SendqNow, c) => Order(sendQ[c])[1] = conn[c].retry[1]

\* As long as its peer reads, everything that is queued for a connection is written, or
\* the connection is given up: somebody always waits for the socket.
QueuesDrain == \A c \in Fds : (sendQ[c].length > 0) ~> (sendQ[c].length = 0 \/ panic)
=============================================================================
