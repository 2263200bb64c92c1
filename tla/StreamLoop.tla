----------------------------- MODULE StreamLoop -----------------------------
(***************************************************************************)
(* One event loop of net/stream_loop.cpp: connections, their in-flight     *)
(* io_uring operations, the pool of read buffers with its two lanes per    *)
(* GET, requests parked on an exhausted pool, the stall sweep and the      *)
(* graceful drain.                                                         *)
(*                                                                         *)
(* The loop is one thread, so a handler runs to its end in one step.  A    *)
(* handler is a set of successor states: its calls are composed as         *)
(* operators from a loop state t to the set of states t can become, and    *)
(* the step takes one of them.  What the protocol parser finds in the      *)
(* input is left open; values are counted in lane-sized pieces.            *)
(***************************************************************************)
EXTENDS Integers, FiniteSets, SequencesExt

CONSTANTS
    Conns,       \* slots for connections
    Buffers,     \* buffers of the loop's IoBufferPool
    NoConn,      \* an unused slot
    NoBuf,       \* a lane without a buffer
    StageBufs,   \* staging buffers for writes
    Pieces,      \* bound: pieces of a value's disk tail
    Segments,    \* bound: disk reads one piece needs
    Requests,    \* bound: commands each connection sends
    Protocols,   \* the subclasses: "memcache", "http" and "https"
    Events       \* which of the rarer events this instance has

ASSUME LoopConfig ==
    /\ NoConn \notin Conns /\ NoBuf \notin Buffers
    /\ Buffers # {}   \* config validation: io_buffers >= 1
    /\ StageBufs \in Nat \ {0}
    /\ Pieces \in Nat /\ Segments \in Nat \ {0} /\ Requests \in Nat
    /\ Protocols \subseteq {"memcache", "http", "https"}
    /\ Events \subseteq {"quit", "drain", "sweep", "read_error", "sq_full"}

VARIABLES
    loop,     \* [protocol, conns, iobufs, stage, setWaiters, getWaiters]
    phase,    \* where run_once is: dispatching, draining waiters, sweeping
    draining

vars == <<loop, phase, draining>>

Lane == {0, 1}

EmptyLane == [buf |-> NoBuf, ready |-> FALSE, err |-> FALSE, reads |-> 0, piece |-> 0]

\* A new connection.  recvs, polls, sends and disk count the operations the
\* kernel holds, sending and reading are the lane buffers they use; half is set when
\* drain() shut the socket down; stalled: no byte moved for io_timeout_ms;
\* idled: none since the transfer got its buffer either; misrouted: a send
\* completion found no sending lane.  The other fields are Conn's.
FreshConn ==
    [state |-> "idle", closing |-> FALSE, quit |-> FALSE, out |-> FALSE,
     requests |-> Requests, half |-> FALSE, stalled |-> FALSE, idled |-> FALSE,
     handshaking |-> FALSE,
     recvs |-> 0, polls |-> 0, sends |-> 0, disk |-> 0, sending |-> NoBuf, reading |-> NoBuf,
     lane |-> [i \in Lane |-> EmptyLane], n_lanes |-> 0,
     read_lane |-> -1, send_lane |-> -1, fill_i |-> 0, send_i |-> 0,
     plan_pos |-> 0, send_pos |-> 0, get_size |-> 0,
     head_pin |-> FALSE, sh |-> FALSE, misrouted |-> FALSE]

inflight(x) == x.recvs + x.polls + x.sends + x.disk

Live(t) == {c \in Conns : t.conns[c] # NoConn}

Init ==
    /\ \E p \in Protocols :
          loop = [protocol |-> p, conns |-> [c \in Conns |-> NoConn], iobufs |-> Buffers,
                  stage |-> StageBufs, setWaiters |-> <<>>, getWaiters |-> <<>>]
    /\ phase = "dispatch"
    /\ draining = FALSE

----------------------------------------------------------------------------
(* Submitting operations.  A full submission queue closes the connection.  *)

close_conn(t, c) == [t EXCEPT !.conns[c].closing = TRUE]

Submit(t, c, submitted) ==
    IF t.conns[c].closing THEN {t}
    ELSE {submitted} \cup (IF "sq_full" \in Events THEN {close_conn(t, c)} ELSE {})

submit_recv(t, c) == Submit(t, c, [t EXCEPT !.conns[c].recvs = @ + 1])

arm_poll(t, c) == Submit(t, c, [t EXCEPT !.conns[c].polls = @ + 1])

start_send(t, c) == Submit(t, c, [t EXCEPT !.conns[c].sends = @ + 1])

start_send_head(t, c) == start_send(t, c)

start_lane_send(t, c) ==
    LET x == t.conns[c]
    IN Submit(t, c, [t EXCEPT !.conns[c].sends = @ + 1,
                              !.conns[c].sending = x.lane[x.send_lane].buf])

----------------------------------------------------------------------------
(* Releasing what a GET holds.                                             *)

Bufs(x) == {x.lane[i].buf : i \in Lane} \ {NoBuf}

ClearLanes(x) ==
    [x EXCEPT !.lane = [i \in Lane |-> EmptyLane], !.n_lanes = 0,
              !.read_lane = -1, !.send_lane = -1, !.fill_i = 0, !.send_i = 0]

release_lanes_keeping_buffers(t, c) == [t EXCEPT !.conns[c] = ClearLanes(@)]

release_lanes(t, c) ==
    [t EXCEPT !.iobufs = @ \cup Bufs(t.conns[c]), !.conns[c] = ClearLanes(@)]

unpin_if_held(t, c) == [t EXCEPT !.conns[c].head_pin = FALSE]

abort_get(t, c) == close_conn(unpin_if_held(release_lanes(t, c), c), c)

\* Destroying the handle of a write returns its staging buffer.
ResetStore(t, c) ==
    [t EXCEPT !.conns[c].sh = FALSE, !.stage = IF t.conns[c].sh THEN @ + 1 ELSE @]

retire_releasing_early(t, c) ==
    IF ~t.conns[c].closing THEN t
    ELSE IF inflight(t.conns[c]) > 0 THEN release_lanes(t, c)
    ELSE [ResetStore(release_lanes(t, c), c) EXCEPT !.conns[c] = NoConn]

retire(t, c) ==
    IF t.conns[c].closing /\ inflight(t.conns[c]) = 0
    THEN [ResetStore(unpin_if_held(release_lanes(t, c), c), c) EXCEPT !.conns[c] = NoConn]
    ELSE t

----------------------------------------------------------------------------
(* Starting requests: begin_get and the protocol seam process().           *)

\* A hit on a value with a disk tail holds one or two lane buffers, bufs; one
\* served from the head holds none.  The header is framed into out.
Hit(t, c, bufs, pinned, pieces) ==
    [t EXCEPT !.iobufs = @ \ Range(bufs),
              !.conns[c] = [ClearLanes(@) EXCEPT
                  !.lane = [i \in Lane |-> IF i < Len(bufs)
                                            THEN [EmptyLane EXCEPT !.buf = bufs[i + 1]]
                                            ELSE EmptyLane],
                  !.n_lanes = Len(bufs), !.head_pin = pinned, !.get_size = pieces,
                  !.idled = FALSE, !.out = TRUE, !.state = "get_header"]]

\* The buffers a GET with a disk tail acquires: two when the pool has two.
Acquired(t) ==
    IF Cardinality(t.iobufs) >= 2
    THEN {<<a, b>> : a \in t.iobufs, b \in t.iobufs} \ {<<a, a>> : a \in t.iobufs}
    ELSE {<<a>> : a \in t.iobufs}

\* A range, a 304 or a 416 can leave an HTTP reply with nothing to stream.
TailPieces(t) == IF t.protocol = "memcache" THEN 1..Pieces ELSE 0..Pieces

Hits(t, c) ==
    {Hit(t, c, <<>>, pinned, 0) : pinned \in BOOLEAN}
    \cup {Hit(t, c, bufs, pinned, pieces) :
             bufs \in Acquired(t), pinned \in BOOLEAN, pieces \in TailPieces(t)}

Parked(t, c) == [t EXCEPT !.conns[c].state = "get_wait", !.getWaiters = Append(@, c)]

ParkReceiving(t, c) ==
    IF t.iobufs = {} THEN submit_recv(Parked(t, c), c) ELSE {}

Park(t, c) == IF t.iobufs = {} THEN {Parked(t, c)} ELSE {}

RECURSIVE start_recv(_, _)

\* The end of process(): flush replies, close after quit, or read more.
Resume(t, c) ==
    IF t.conns[c].out THEN start_send(t, c)
    ELSE IF t.conns[c].quit THEN {close_conn(t, c)}
    ELSE start_recv(t, c)

\* t after a command that queues a reply or, being noreply or quiet, does not.
Replied(t, c) == {t, [t EXCEPT !.conns[c].out = TRUE]}

\* A miss queues END, EN (unless quiet) or a 404.
frame_get_miss(t, c) ==
    LET missed == [t EXCEPT !.conns[c].state = "idle"]
    IN IF t.protocol = "memcache" THEN Replied(missed, c) ELSE {[missed EXCEPT !.conns[c].out = TRUE]}

Quits == IF "quit" \in Events THEN BOOLEAN ELSE {FALSE}

GetOutcomes(t, c) == UNION {Resume(u, c) : u \in Hits(t, c)} \cup Park(t, c)

begin_store(t, c) == [t EXCEPT !.stage = @ - 1, !.conns[c].sh = TRUE, !.conns[c].idled = FALSE]

\* The memcache commands in the input.  Complete ones only queue replies; the
\* loop ends when the input does, at a quit, at an overlong line, at a GET that
\* hits or parks, or at a SET that parks or whose body is not there yet.  A
\* rejected SET drains its body without a handle.
MemcacheCommands(t, c) ==
    LET used == {[u EXCEPT !.conns[c].requests = @ - 1] :
                    u \in {v \in Replied(t, c) : v.conns[c].requests > 0}}
        body == {[u EXCEPT !.conns[c].state = "set_body"] : u \in used}
    IN Resume(t, c)
       \cup UNION {Resume([u EXCEPT !.conns[c].quit = q], c) : u \in used, q \in Quits}
       \cup {close_conn(u, c) : u \in used}
       \cup UNION {GetOutcomes(u, c) : u \in used}
       \cup UNION {Resume(u, c) : u \in body}
       \cup UNION {Resume(begin_store(u, c), c) : u \in {v \in body : v.stage > 0}}
       \cup {[u EXCEPT !.conns[c].state = "set_wait", !.setWaiters = Append(@, c)] :
                u \in {v \in used : v.stage = 0}}

\* The HTTP requests in the input: each sets quit_after anew, and all but a GET
\* that hits or parks queue a reply.
WholeRequests(t, c) ==
    LET used == {[t EXCEPT !.conns[c].requests = @ - 1, !.conns[c].quit = q, !.conns[c].out = o] :
                    q \in Quits, o \in {t.conns[c].out, TRUE}}
    IN IF t.conns[c].requests = 0 THEN {}
       ELSE UNION {Resume(u, c) : u \in {v \in used : v.conns[c].out}}
            \cup UNION {GetOutcomes(u, c) : u \in used}

HttpRequests(t, c) == Resume(t, c) \cup WholeRequests(t, c)

\* SSL_read until it wants more, fails, or the input has a whole request.
ssl_read_step(t, c) ==
    IF t.conns[c].closing THEN {t}
    ELSE arm_poll(t, c) \cup {close_conn(t, c)} \cup WholeRequests(t, c)

start_recv(t, c) ==
    IF t.protocol = "https" THEN ssl_read_step(t, c) ELSE submit_recv(t, c)

\* Only an idle connection parses; a SET first drains its body and commits.
process(t, c) ==
    LET commands(u) == IF t.protocol = "memcache" THEN MemcacheCommands(u, c) ELSE HttpRequests(u, c)
    IN CASE t.conns[c].state = "idle" -> commands(t)
         [] t.conns[c].state = "set_body" ->
               Resume(t, c)
               \cup UNION {commands(u) :
                       u \in Replied([ResetStore(t, c) EXCEPT !.conns[c].state = "idle"], c)}
         [] OTHER -> {t}

finish_get(t, c) ==
    process([unpin_if_held(release_lanes(t, c), c) EXCEPT !.conns[c].state = "idle"], c)

----------------------------------------------------------------------------
(* Streaming the disk tail through the lanes.                              *)

\* on_value_sent: memcache queues a trailer, HTTP is done.
on_value_sent(t, c) ==
    IF t.protocol = "memcache"
    THEN start_send([t EXCEPT !.conns[c].out = TRUE, !.conns[c].state = "get_trailer"], c)
    ELSE finish_get(t, c)

\* plan_lane_read: plan the next piece into lane i and submit its n reads; no
\* read is needed when the plan copied the whole piece from a RAM head.  A
\* full submission queue leaves the reads already submitted in flight.
Planned(t, c, i, n) ==
    LET x == t.conns[c]
    IN [t EXCEPT !.conns[c].lane[i] =
                    [@ EXCEPT !.piece = x.plan_pos, !.reads = n, !.err = FALSE, !.ready = (n = 0)],
                 !.conns[c].plan_pos = @ + 1,
                 !.conns[c].fill_i = (@ + 1) % x.n_lanes,
                 !.conns[c].disk = @ + n,
                 !.conns[c].reading = IF n = 0 THEN @ ELSE x.lane[i].buf,
                 !.conns[c].read_lane = IF n = 0 THEN @ ELSE i]

ReadLaneFreeUnchecked(x) ==
    /\ x.read_lane < 0 /\ x.plan_pos < x.get_size
    /\ x.lane[x.fill_i].buf # NoBuf

\* The next lane to fill is free, and tail remains to be read.
ReadLaneFree(x) ==
    /\ x.read_lane < 0 /\ x.plan_pos < x.get_size
    /\ x.lane[x.fill_i].buf # NoBuf /\ ~x.lane[x.fill_i].ready
    /\ x.fill_i # x.send_lane

SendLaneReady(x) == x.send_lane < 0 /\ x.send_pos < x.get_size /\ x.lane[x.send_i].ready

TailSent(x) == x.send_lane < 0 /\ x.read_lane < 0 /\ x.send_pos >= x.get_size

\* Each round starts the next ordered send and the next read-ahead if it can,
\* and goes round again while something was started.  A send that cannot be
\* submitted, or a piece that cannot be read, ends it.
RECURSIVE pump_stream(_, _)
pump_stream(t, c) ==
    LET sent == start_lane_send([t EXCEPT !.conns[c].send_lane = t.conns[c].send_i], c)
        failed(u) ==
            IF "sq_full" \in Events
            THEN {abort_get(Planned(u, c, u.conns[c].fill_i, n), c) : n \in 0..(Segments - 1)}
            ELSE {}
        end(u) == IF TailSent(u.conns[c]) THEN on_value_sent(u, c)
                  ELSE IF u = t THEN {u}
                  ELSE pump_stream(u, c)
        read(u) ==
            IF ReadLaneFree(u.conns[c])
            THEN UNION {end(Planned(u, c, u.conns[c].fill_i, n)) : n \in 0..Segments} \cup failed(u)
            ELSE end(u)
    IN IF SendLaneReady(t.conns[c])
       THEN UNION {IF u.conns[c].closing THEN {u} ELSE read(u) : u \in sent}
       ELSE read(t)

enter_stream(t, c) ==
    pump_stream([t EXCEPT !.conns[c].send_pos = 0, !.conns[c].plan_pos = 0,
                          !.conns[c].state = "get_stream"], c)

----------------------------------------------------------------------------
(* Completion handlers.                                                    *)

\* SSL_accept is done, wants a readable or writable socket, or fails.
drive_handshake(t, c) ==
    IF t.conns[c].closing THEN {t}
    ELSE start_recv([t EXCEPT !.conns[c].handshaking = FALSE], c)
         \cup arm_poll(t, c) \cup {close_conn(t, c)}

on_connection(t, c) ==
    IF t.protocol = "https" THEN drive_handshake([t EXCEPT !.conns[c].handshaking = TRUE], c)
    ELSE start_recv(t, c)

on_poll(t, c) == IF t.conns[c].handshaking THEN drive_handshake(t, c) ELSE ssl_read_step(t, c)

on_recv(t, c, ok) == IF ok THEN process(t, c) ELSE {close_conn(t, c)}

\* The piece in the sending lane is out: the lane is free again.
PieceSent(t, c) ==
    LET x == t.conns[c]
    IN [t EXCEPT !.conns[c].lane[x.send_lane] = [EmptyLane EXCEPT !.buf = x.lane[x.send_lane].buf],
                 !.conns[c].send_pos = @ + 1,
                 !.conns[c].send_lane = -1,
                 !.conns[c].send_i = (@ + 1) % x.n_lanes]

\* A send completes in full, short, with EAGAIN, or it fails.  One that finds
\* no sending lane updates lane[-1] and then divides by n_lanes = 0, or stops
\* before that, as the memory before the lanes has it.
on_send(t, c, res) ==
    LET x == t.conns[c]
        done == [t EXCEPT !.conns[c].out = FALSE]
        again == IF x.state = "get_stream" THEN start_lane_send(t, c)
                 ELSE IF x.state = "get_send_head" THEN start_send_head(t, c)
                 ELSE start_send(t, c)
        sent ==
            CASE x.state = "get_stream" -> pump_stream(PieceSent(t, c), c)
              [] x.state = "get_send_head" -> enter_stream(unpin_if_held(t, c), c)
              [] x.state = "get_header" ->
                    (IF x.head_pin
                     THEN start_send_head([done EXCEPT !.conns[c].state = "get_send_head"], c)
                     ELSE {})
                    \cup (IF x.head_pin /\ t.protocol = "memcache" THEN {}
                          ELSE enter_stream(unpin_if_held(done, c), c))
              [] x.state = "get_trailer" -> finish_get(done, c)
              [] OTHER -> IF x.quit THEN {close_conn(done, c)} ELSE start_recv(done, c)
    IN CASE res = "failed" -> {close_conn(t, c)}
         [] res = "again" -> again
         [] res \in {"short", "full"} /\ x.state = "get_stream" /\ x.send_lane < 0 ->
               {[t EXCEPT !.conns[c].misrouted = TRUE]}
         [] OTHER -> IF res = "short" THEN again ELSE sent

on_read(t, c, ok) ==
    LET x == t.conns[c]
        i == x.read_lane
        left == x.lane[i].reads - 1
        bad == x.lane[i].err \/ ~ok
        done == [t EXCEPT !.conns[c].read_lane = -1, !.conns[c].lane[i].reads = 0,
                          !.conns[c].lane[i].err = bad]
    IN IF i < 0 THEN {t}
       ELSE IF left > 0
       THEN {[t EXCEPT !.conns[c].lane[i].reads = left, !.conns[c].lane[i].err = bad]}
       ELSE IF x.closing THEN {done}
       ELSE IF bad THEN {abort_get(done, c)}
       ELSE pump_stream([done EXCEPT !.conns[c].lane[i].ready = TRUE], c)

----------------------------------------------------------------------------
(* run_once.                                                               *)

on_accept(c) ==
    /\ phase = "dispatch" /\ ~draining
    /\ loop.conns[c] = NoConn
    /\ loop' \in on_connection([loop EXCEPT !.conns[c] = FreshConn], c)
    /\ UNCHANGED <<phase, draining>>

Progressed(t, c, ok) ==
    IF ok THEN [t EXCEPT !.conns[c].stalled = FALSE, !.conns[c].idled = FALSE] ELSE t

CompleteRecv(c, ok) ==
    /\ phase = "dispatch"
    /\ loop.conns[c] # NoConn /\ loop.conns[c].recvs > 0
    /\ LET t == [Progressed(loop, c, ok) EXCEPT !.conns[c].recvs = @ - 1]
       IN \E u \in on_recv(t, c, ok) : loop' = retire(u, c)
    /\ UNCHANGED <<phase, draining>>

CompletePoll(c) ==
    /\ phase = "dispatch"
    /\ loop.conns[c] # NoConn /\ loop.conns[c].polls > 0
    /\ LET t == [Progressed(loop, c, TRUE) EXCEPT !.conns[c].polls = @ - 1]
       IN \E u \in on_poll(t, c) : loop' = retire(u, c)
    /\ UNCHANGED <<phase, draining>>

\* Once shut down, a socket sends nothing more.
CompleteSend(c, res) ==
    /\ phase = "dispatch"
    /\ loop.conns[c] # NoConn /\ loop.conns[c].sends > 0
    /\ loop.conns[c].half => res = "failed"
    /\ LET t == [Progressed(loop, c, res \in {"short", "full"}) EXCEPT
                     !.conns[c].sends = @ - 1, !.conns[c].sending = NoBuf]
       IN \E u \in on_send(t, c, res) : loop' = retire(u, c)
    /\ UNCHANGED <<phase, draining>>

CompleteRead(c, ok) ==
    /\ phase = "dispatch"
    /\ loop.conns[c] # NoConn /\ loop.conns[c].disk > 0
    /\ ok \/ "read_error" \in Events
    /\ LET x == loop.conns[c]
           t == [Progressed(loop, c, ok) EXCEPT !.conns[c].disk = @ - 1,
                    !.conns[c].reading = IF x.disk = 1 THEN NoBuf ELSE @]
       IN \E u \in on_read(t, c, ok) : loop' = retire(u, c)
    /\ UNCHANGED <<phase, draining>>

EndDispatch ==
    /\ phase = "dispatch"
    /\ phase' = "set_waiters"
    /\ UNCHANGED <<loop, draining>>

\* A waiter that is closing, or gone, is dropped from its queue.
Dropped(c) == loop.conns[c] # NoConn => loop.conns[c].closing

\* One round of drain_set_waiters, or its end.  begin_store takes a staging
\* buffer, finds none, or fails for a reason of its own.
drain_set_waiters ==
    /\ phase = "set_waiters"
    /\ IF loop.setWaiters = <<>>
       THEN phase' = "get_waiters" /\ loop' = loop
       ELSE LET c == Head(loop.setWaiters)
                popped == [loop EXCEPT !.setWaiters = Tail(@)]
                t == [popped EXCEPT !.conns[c].state = "set_body"]
            IN \/ /\ Dropped(c)
                  /\ loop' = popped /\ phase' = phase
               \/ /\ ~Dropped(c) /\ loop.stage = 0
                  /\ phase' = "get_waiters" /\ loop' = loop
               \/ /\ ~Dropped(c) /\ loop.stage > 0
                  /\ loop' \in process(begin_store(t, c), c) /\ phase' = phase
               \/ /\ ~Dropped(c)
                  /\ loop' \in process(t, c) /\ phase' = phase
    /\ UNCHANGED draining

\* One round of drain_get_waiters, or its end: begin_get parks again at the
\* back, hits, or misses.
drain_get_waiters ==
    /\ phase = "get_waiters"
    /\ IF loop.getWaiters = <<>>
       THEN phase' = "sweep" /\ loop' = loop
       ELSE LET c == Head(loop.getWaiters)
                t == [loop EXCEPT !.getWaiters = Tail(@)]
            IN \/ /\ Dropped(c)
                  /\ loop' = t /\ phase' = phase
               \/ /\ ~Dropped(c)
                  /\ loop' \in Park(t, c) /\ phase' = "sweep"
               \/ /\ ~Dropped(c)
                  /\ \E u \in Hits(t, c) : loop' \in start_send(u, c)
                  /\ phase' = phase
               \/ /\ ~Dropped(c)
                  /\ \E u \in frame_get_miss(t, c) : loop' \in process(u, c)
                  /\ phase' = phase
    /\ UNCHANGED draining

HoldsBuffer(x) == x.n_lanes > 0 \/ x.head_pin \/ x.sh

Swept(x) == x # NoConn /\ HoldsBuffer(x) /\ x.stalled

Idle(x) == x # NoConn /\ ~x.closing /\ x.state = "idle" /\ ~x.out

\* drain() shuts down the connections that are idle between requests.
HalfCloseNone(t) == t

HalfClose(t) ==
    [t EXCEPT !.conns = [c \in Conns |-> IF Idle(@[c]) THEN [@[c] EXCEPT !.half = TRUE] ELSE @[c]]]

\* The end of a tick: the stall sweep and, while draining, the next half-close.
sweep_stalled ==
    /\ phase = "sweep"
    /\ phase' = "dispatch"
    /\ LET t == [loop EXCEPT !.conns = [c \in Conns |->
                    IF Swept(@[c]) THEN [@[c] EXCEPT !.closing = TRUE] ELSE @[c]]]
       IN loop' = IF draining THEN HalfClose(t) ELSE t
    /\ UNCHANGED draining

\* io_timeout_ms passes without a byte moving on c.
Stall(c) ==
    /\ "sweep" \in Events
    /\ phase = "dispatch"
    /\ loop.conns[c] # NoConn
    /\ loop' = [loop EXCEPT !.conns[c].stalled = TRUE, !.conns[c].idled = TRUE]
    /\ UNCHANGED <<phase, draining>>

\* The shutdown flag is seen between two ticks.
drain ==
    /\ "drain" \in Events
    /\ phase = "dispatch" /\ ~draining
    /\ draining' = TRUE
    /\ loop' = HalfClose(loop)
    /\ UNCHANGED phase

Sent(c) == \E res \in {"full", "short", "again", "failed"} : CompleteSend(c, res)

Received(c) == \E ok \in BOOLEAN : CompleteRecv(c, ok)

DiskRead(c) == \E ok \in BOOLEAN : CompleteRead(c, ok)

\* The receive of a socket that drain() shut down ends.
ShutRecv(c) ==
    loop.conns[c] # NoConn /\ loop.conns[c].half /\ CompleteRecv(c, FALSE)

Tick == EndDispatch \/ drain_set_waiters \/ drain_get_waiters \/ sweep_stalled

Next ==
    \/ \E c \in Conns :
          \/ on_accept(c) \/ Received(c) \/ CompletePoll(c) \/ Sent(c) \/ DiskRead(c)
          \/ Stall(c)
    \/ Tick \/ drain

Spec == Init /\ [][Next]_vars

\* The kernel completes every send and read (the stall sweep resets a peer that
\* takes nothing), ends the receive of a socket that was shut down, and the
\* loop goes round.  What a client sends next is not promised.
FairSpec ==
    /\ Spec
    /\ WF_vars(Tick)
    /\ \A c \in Conns :
          /\ SF_vars(Sent(c))
          /\ SF_vars(DiskRead(c))
          /\ SF_vars(ShutRecv(c))

----------------------------------------------------------------------------
(* Properties.                                                             *)

\* No read buffer and no staging buffer is lost or held twice, whatever
\* path a request ends on: release_lanes and the store handle return them.
BuffersConserved ==
    /\ \A b \in Buffers :
          (IF b \in loop.iobufs THEN 1 ELSE 0)
          + Cardinality({<<c, i>> \in Live(loop) \X Lane : loop.conns[c].lane[i].buf = b}) = 1
    /\ loop.stage + Cardinality({c \in Live(loop) : loop.conns[c].sh}) = StageBufs

\* Read-ahead never changes what is sent: the piece being sent is the next one
\* of the value, and the lane it is in is not the one being filled.
SentInOrder ==
    \A c \in Live(loop) :
        LET x == loop.conns[c]
        IN x.send_lane >= 0 =>
              /\ x.lane[x.send_lane].piece = x.send_pos
              /\ x.read_lane # x.send_lane

\* At most one read batch and one send are in flight, so completions route by
\* read_lane and send_lane (the comment on Conn's lanes).
CompletionsRouted ==
    \A c \in Live(loop) :
        LET x == loop.conns[c]
        IN /\ ~x.misrouted
           /\ x.state = "get_stream" /\ x.sends > 0 => x.send_lane >= 0
           /\ x.disk > 0 => x.read_lane >= 0 /\ x.lane[x.read_lane].reads = x.disk

\* A buffer the kernel sends from or reads into stays with its connection
\* until the completion: it is not in the pool, where another GET could take it.
KernelBuffersHeld ==
    \A c \in Live(loop) :
        LET x == loop.conns[c] IN {x.sending, x.reading} \ {NoBuf} \subseteq Bufs(x)

\* A connection has one socket operation at a time, and none while it is
\* parked, so the peer is held back by TCP and nothing else wakes it.  Before
\* the handshake is over nothing is sent to it, and it holds no buffer.
OneSocketOp ==
    \A c \in Live(loop) :
        LET x == loop.conns[c]
        IN /\ x.recvs + x.polls + x.sends <= 1
           /\ x.recvs > 0 => x.state \in {"idle", "set_body"}
           /\ x.state \in {"set_wait", "get_wait"} => inflight(x) = 0
           /\ x.handshaking => x.sends = 0 /\ ~HoldsBuffer(x) /\ x.requests = Requests

\* The wait queues hold exactly the parked connections, each once: no pointer
\* in them outlives its Conn and no parked request is forgotten.
WaitersAreParked ==
    /\ IsInjective(loop.setWaiters) /\ IsInjective(loop.getWaiters)
    /\ Range(loop.setWaiters) = {c \in Live(loop) : loop.conns[c].state = "set_wait"}
    /\ Range(loop.getWaiters) = {c \in Live(loop) : loop.conns[c].state = "get_wait"}

\* "freed once inflight hits 0": between ticks no closing connection is left
\* without an operation whose completion would retire it.
ClosedRetires ==
    phase = "dispatch" =>
        \A c \in Live(loop) : loop.conns[c].closing => inflight(loop.conns[c]) > 0

\* The sweep drops a connection only if its transfer has been idle for
\* io_timeout_ms while it held its buffer.
SweepsIdleTransfers ==
    [][phase = "sweep" =>
         \A c \in Live(loop) :
             loop'.conns[c].closing => loop.conns[c].closing \/ loop.conns[c].idled]_vars

GetParked(c) == loop.conns[c] # NoConn /\ loop.conns[c].state = "get_wait"

\* "queue, never shed": a GET parked on an empty pool is taken up again, since
\* "a buffer freed by a finishing GET on this loop is always observed here".
ParkedGetResumes == \A c \in Conns : GetParked(c) ~> ~GetParked(c)

\* The graceful drain lets the GETs that are parked when it starts go on: once
\* the loop accepts no more connections, no wake-up of a parked GET is lost.
DrainResumesGets == \A c \in Conns : (draining /\ GetParked(c)) ~> ~GetParked(c)

\* The graceful drain retires every connection that is idle between requests,
\* or finds it busy with a request that came in before.
DrainEndsIdle ==
    \A c \in Conns : (draining /\ Idle(loop.conns[c])) ~> ~Idle(loop.conns[c])
=============================================================================
