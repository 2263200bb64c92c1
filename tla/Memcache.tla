------------------------------ MODULE Memcache ------------------------------
(***************************************************************************)
(* Memcache connections: EventLoop::process (protocol/memcache/            *)
(* event_loop.cpp) and handle_conn (protocol/memcache/server.cpp), from    *)
(* the bytes a client sends to the replies it gets.                        *)
(*                                                                         *)
(* Each connection is served by a thread of its own: an event loop that    *)
(* multiplexes several only orders their steps more.  A step ends where    *)
(* the thread lets go of the store's lock, so other connections act        *)
(* between a lookup and what follows from it.  The store is module Cache,  *)
(* which TierManager implements; a content's number is its CAS.  A client  *)
(* sends its whole script at once, and a recv returns any part of it.      *)
(* Waiting for a read buffer only delays a GET (module StreamLoop).        *)
(***************************************************************************)
EXTENDS MemcacheText, SequencesExt

CONSTANTS
    Keys, None,
    Clients,     \* connections
    Scripts,     \* what each client may send: sequences of [line, data]
    Probed,      \* bound: the clients whose input arrives in pieces and whose
                 \* operations may fail
    Nets,        \* the ways to serve connections: "async", "blocking"
    StageBufs,   \* staging buffers in the store's write_pool_
    RamHead,     \* cells of a value that may be resident in RAM
    MaxLine,     \* cells an event loop keeps without a line end (kMaxLine)
    MaxTime,     \* bound: clock ticks
    Faults       \* what may go wrong: "open", "write", "publish", "peer", "lose"

ASSUME ConnectionConfig ==
    /\ Nets \subseteq {"async", "blocking"}
    /\ StageBufs \in Nat \ {0} /\ RamHead \in Nat
    /\ MaxLine \in Nat /\ MaxTime \in Nat
    /\ Faults \subseteq {"open", "write", "publish", "peer", "lose"}

VARIABLES
    net, client,     \* the server and the clients, chosen at the start
    content, last,   \* the store: see Cache
    expiry,          \* the expiry of each key's content; 0 = never
    deadline,        \* the same as the client asked for it, in unbounded numbers
    now,
    stage,           \* staging buffers left
    pub,             \* who published each content, and what
    sock,            \* cells sent and not yet received
    conn,            \* the connections
    wire             \* the replies sent on each

vars == <<net, client, content, last, expiry, deadline, now, stage, pub, sock, conn, wire>>
storeVars == <<content, last, expiry, deadline, pub>>

Store == INSTANCE Cache

\* nth counts the lines taken from the input and cmd is the last of them; body
\* is what the store handle was given, since when its line was parsed, item the
\* content a GET found, pinned whether it pinned a resident head, and remaining
\* what of a body or a value is to come.
FreshConn ==
    [state |-> "idle", in |-> <<>>, out |-> <<>>, nth |-> 0, cmd |-> NoCommand, quit |-> FALSE,
     remaining |-> 0, sh |-> FALSE, body |-> <<>>, set_cas |-> 0, set_reject |-> FALSE,
     set_reply |-> "", set_failed |-> FALSE, meta_expiry |-> 0, since |-> 0, item |-> 0,
     pinned |-> FALSE]

Parse(server, line) ==
    IF server = "async" /\ IsMeta(line) THEN parse_meta(line) ELSE parse_command(line)

Async == net = "async"

Encode(r) == <<r.line>> \o CRLF \o r.data

Stream(script) == FlattenSeq([i \in 1..Len(script) |-> Encode(script[i])])

\* A request a client gets right: a line the server takes, followed by the
\* number of bytes it announces and a line end.
WellFormed(cmd, data) ==
    IF cmd.verb \in {"store", "ms"}
    THEN Len(data) = cmd.bytes + 2 /\ SubSeq(data, Len(data) - 1, Len(data)) = CRLF
    ELSE data = <<>>

\* What a client means: its commands with their data, where each starts in the
\* stream, and how many come before the first that is malformed.
Client(server, script) ==
    LET cmds == [i \in 1..Len(script) |-> Parse(server, script[i].line)]
        wrong == {i \in 1..Len(script) : ~WellFormed(cmds[i], script[i].data)}
    IN [cmds |-> cmds,
        data |-> [i \in 1..Len(script) |-> script[i].data],
        start |-> [i \in 1..(Len(script) + 1) |-> 1 + Len(Stream(SubSeq(script, 1, i - 1)))],
        sound |-> IF wrong = {} THEN Len(script) ELSE Min(wrong) - 1,
        stream |-> Stream(script)]

Init ==
    /\ Store!Init
    /\ net \in Nets
    /\ \E script \in [Clients -> UNION {Scripts[c] : c \in Clients}] :
          /\ \A c \in Clients : script[c] \in Scripts[c]
          /\ client = [c \in Clients |-> Client(net, script[c])]
    /\ expiry = [k \in Keys |-> 0]
    /\ deadline = [k \in Keys |-> 0]
    /\ now = 1
    /\ stage = StageBufs
    /\ pub = <<>>
    /\ sock = [c \in Clients |-> client[c].stream]
    /\ conn = [c \in Clients |-> FreshConn]
    /\ wire = [c \in Clients |-> <<>>]

----------------------------------------------------------------------------
(* Looking at the store, and answering.                                    *)

is_expired(k) == expiry[k] # 0 /\ expiry[k] <= now

Present(k) == content[k] # None /\ ~is_expired(k)

IsMetaStore(cmd) == cmd.verb = "ms"
NotStored(cmd) == IF IsMetaStore(cmd) THEN "NS" ELSE "NOT_STORED"
Exists(cmd) == IF IsMetaStore(cmd) THEN "EX" ELSE "EXISTS"

\* A reply to line nth; item is the content it shows or the CAS it names, data
\* the value, and done is set when nothing more of the reply is to come.
Reply(x, kind, item) ==
    [nth |-> x.nth, kind |-> kind, item |-> item, data |-> <<>>, done |-> kind \notin {"VALUE", "VA"}]

Say(x, kind) == [x EXCEPT !.out = Append(@, Reply(x, kind, 0))]

SayItem(x, kind, item) == [x EXCEPT !.out = Append(@, Reply(x, kind, item))]

SayUnless(quiet, x, kind) == IF quiet THEN x ELSE Say(x, kind)

\* Closing drops the store handle, and with it its staging buffer.
Closed(x) == [x EXCEPT !.state = "closed", !.sh = FALSE, !.out = <<>>]

Fails(c, fault) == c \in Probed /\ fault \in Faults

Step(c, x) == conn' = [conn EXCEPT ![c] = x] /\ UNCHANGED <<net, client, now>>

\* A step that changes nothing but the connection.
Local(c, x) == Step(c, x) /\ UNCHANGED <<storeVars, stage, sock, wire>>

----------------------------------------------------------------------------
(* Taking the next command from the input.                                 *)

Ends(in) == {i \in 1..(Len(in) - 1) : in[i] = CR /\ in[i + 1] = LF}

\* The first line; bytes that are not one command line run together are a word
\* no command has.
FirstEnd(in) == CHOOSE i \in Ends(in) : \A j \in Ends(in) : i <= j

Line(in) == CASE FirstEnd(in) = 1 -> <<>>
              [] FirstEnd(in) = 2 -> in[1]
              [] OTHER -> <<"garbled">>

\* Blocking replies go out at once; an event loop's are flushed when process()
\* has no more to do.
CanStep(x) == Async \/ x.out = <<>>

Parsing(x) == x.state = "idle" /\ ~x.quit /\ CanStep(x)

HasLine(c) == Parsing(conn[c]) /\ Ends(conn[c].in) # {}

Taken(c) ==
    LET x == conn[c]
    IN [x EXCEPT !.in = SubSeq(@, FirstEnd(@) + 2, Len(@)), !.nth = @ + 1,
                 !.cmd = Parse(net, Line(x.in))]

Overlong(x) == Async /\ x.state = "idle" /\ Len(x.in) > MaxLine /\ (x.quit \/ Ends(x.in) = {})

\* Commands that do not touch the store.  handle_conn answers stats as unknown.
Answer(c) ==
    LET x == Taken(c)
        reply == [bad |-> "ERROR", badmeta |-> "CLIENT_ERROR", mn |-> "MN", version |-> "VERSION",
                  stats |-> IF Async THEN "STATS" ELSE "ERROR"]
    IN /\ HasLine(c)
       /\ \/ x.cmd.verb \in DOMAIN reply /\ Local(c, Say(x, reply[x.cmd.verb]))
          \/ x.cmd.verb = "quit" /\ Local(c, IF Async THEN [x EXCEPT !.quit = TRUE] ELSE Closed(x))

----------------------------------------------------------------------------
(* Storage commands.                                                       *)

\* What the conditions of a store say about the key as it is now: "" to admit
\* it, or the reply that refuses it.
Refusal(cmd) ==
    CASE cmd.has_cas /\ ~Present(cmd.key) -> IF IsMetaStore(cmd) THEN "NF" ELSE "NOT_FOUND"
      [] cmd.has_cas /\ content[cmd.key] # cmd.cas -> Exists(cmd)
      [] cmd.mode = "add" /\ Present(cmd.key) -> NotStored(cmd)
      [] cmd.mode = "replace" /\ ~Present(cmd.key) -> NotStored(cmd)
      [] cmd.mode = "other" -> NotStored(cmd)
      [] OTHER -> ""

SkipBody == "idle"

\* Where a refused store goes on: its body still has to be drained.
AfterRefusal == "set_body"

\* The command line: the key is looked up and the store admitted or refused.
Admit(c) ==
    LET x == Taken(c)
        refusal == Refusal(x.cmd)
    IN /\ HasLine(c)
       /\ x.cmd.verb \in {"store", "ms"}
       /\ Local(c, [x EXCEPT
             !.state = IF refusal = "" THEN "begin" ELSE AfterRefusal,
             !.remaining = x.cmd.bytes, !.body = <<>>, !.set_failed = FALSE,
             !.set_reject = (refusal # ""), !.set_reply = refusal,
             !.set_cas = IF x.cmd.has_cas /\ refusal = "" THEN x.cmd.cas ELSE 0,
             !.meta_expiry = MetaExpiry(x.cmd.expires, now), !.since = now])

\* begin_store.  While there is no staging buffer the event loop parks the
\* connection and handle_conn spins; any other failure leaves no handle.
begin_store(c) ==
    LET x == conn[c]
    IN /\ x.state = "begin"
       /\ \/ /\ stage > 0
             /\ stage' = stage - 1
             /\ Step(c, [x EXCEPT !.state = "set_body", !.sh = TRUE])
          \/ /\ Fails(c, "open")
             /\ stage' = stage
             /\ Step(c, [x EXCEPT !.state = "set_body", !.set_reject = Async,
                                  !.set_reply = NotStored(x.cmd)])
       /\ UNCHANGED <<storeVars, sock, wire>>

\* The part of the body that has arrived is written to the handle, or drained.
Body(c) ==
    LET x == conn[c]
        take == IF Len(x.in) < x.remaining THEN Len(x.in) ELSE x.remaining
        kept == x.sh /\ ~x.set_failed
    IN /\ x.state = "set_body" /\ take > 0
       /\ \E ok \in BOOLEAN :
             /\ ok \/ (kept /\ Fails(c, "write"))
             /\ Local(c, [x EXCEPT !.in = SubSeq(@, take + 1, Len(@)), !.remaining = @ - take,
                            !.body = IF kept /\ ok THEN @ \o SubSeq(x.in, 1, take) ELSE @,
                            !.set_failed = @ \/ ~ok])

FailureOfWritesForgotten(x) ==
    LET crlf == SubSeq(x.in, 1, 2) = CRLF
    IN CASE Async /\ ~crlf -> "BAD_CHUNK"
         [] x.set_reject -> x.set_reply
         [] ~crlf -> "BAD_CHUNK"
         [] OTHER -> ""

BodyDone(x) == x.state = "set_body" /\ x.remaining = 0 /\ Len(x.in) >= 2

\* The reply to a store that is not committed, or "" to commit it.  The two
\* servers look at the body's line end in a different order.
Failure(x) ==
    LET crlf == SubSeq(x.in, 1, 2) = CRLF
    IN CASE Async /\ ~crlf -> "BAD_CHUNK"
         [] x.set_reject -> x.set_reply
         [] ~crlf -> "BAD_CHUNK"
         [] x.set_failed \/ ~x.sh -> NotStored(x.cmd)
         [] OTHER -> ""

\* commit's own check of the CAS, under the lock that publishes.
CasUnchecked(x) == TRUE

CasHolds(x) == x.set_cas = 0 \/ (Present(x.cmd.key) /\ content[x.cmd.key] = x.set_cas)

\* The handle is gone and the next command may be parsed.
Ended(x) == [x EXCEPT !.in = SubSeq(@, 3, Len(@)), !.state = "idle", !.sh = FALSE]

AlwaysQuiet(cmd) == cmd.quiet

\* noreply silences a failure; the flag q of a meta store does not.
QuietFailure(cmd) == cmd.verb = "store" /\ cmd.quiet

Refused(c, kind) ==
    LET x == conn[c]
    IN /\ stage' = IF x.sh THEN stage + 1 ELSE stage
       /\ Step(c, SayUnless(QuietFailure(x.cmd), Ended(x), kind))
       /\ UNCHANGED <<storeVars, sock, wire>>

Refuse(c) ==
    LET x == conn[c]
        failure == Failure(x)
    IN /\ BodyDone(x) /\ CanStep(x)
       /\ \/ failure # "" /\ Refused(c, failure)
          \/ failure = "" /\ ~CasHolds(x) /\ Refused(c, Exists(x.cmd))
          \/ failure = "" /\ CasHolds(x) /\ Fails(c, "publish") /\ Refused(c, NotStored(x.cmd))

\* The point in time a command's TTL asks for, had expiries no width.
Asked(cmd, from) ==
    LET e == cmd.expires
    IN IF ~e.given \/ e.ttl = 0 THEN 0
       ELSE IF e.ttl < 0 THEN 1
       ELSE IF e.ttl > RelativeMax THEN e.ttl ELSE from + e.ttl

\* commit publishes the body.  A classic exptime counts from now, a meta one
\* from the command line.  A meta reply with the CAS looks the key up again.
Commit(c) ==
    LET x == conn[c]
        k == x.cmd.key
        meta == IsMetaStore(x.cmd)
        said == IF ~meta THEN SayUnless(x.cmd.quiet, Ended(x), "STORED")
                ELSE IF x.cmd.quiet THEN Ended(x)
                ELSE IF x.cmd.rf_cas THEN [Ended(x) EXCEPT !.state = "newcas"]
                ELSE Say(Ended(x), "HD")
    IN /\ BodyDone(x) /\ CanStep(x)
       /\ Failure(x) = "" /\ CasHolds(x)
       /\ Store!Publish(k)
       /\ expiry' = [expiry EXCEPT ![k] = IF meta THEN x.meta_expiry
                                          ELSE exptime_to_expiry(x.cmd.expires.ttl, now)]
       /\ deadline' = [deadline EXCEPT ![k] = Asked(x.cmd, IF meta THEN x.since ELSE now)]
       /\ pub' = Append(pub, [client |-> c, nth |-> x.nth, key |-> k, body |-> x.body,
                              cas |-> x.set_cas])
       /\ stage' = stage + 1
       /\ Step(c, said)
       /\ UNCHANGED <<sock, wire>>

NewCas(c) ==
    LET x == conn[c]
        item == content[x.cmd.key]
    IN /\ x.state = "newcas"
       /\ Local(c, SayItem([x EXCEPT !.state = "idle"], "HD", IF item = None THEN 0 ELSE item))

----------------------------------------------------------------------------
(* Deleting and reading.                                                   *)

Forget(k) ==
    /\ content' = Store!Without(content, {k})
    /\ UNCHANGED <<last, expiry, deadline, pub, stage, sock, wire>>

Delete(c) ==
    LET x == Taken(c)
        found == content[x.cmd.key] # None
    IN /\ HasLine(c) /\ x.cmd.verb = "delete"
       /\ Forget(x.cmd.key)
       /\ Step(c, SayUnless(x.cmd.quiet, x, IF found THEN "DELETED" ELSE "NOT_FOUND"))

\* A meta delete looks the key up, and removes it in a second step.
MetaDelete(c) ==
    LET x == Taken(c)
        k == x.cmd.key
    IN /\ HasLine(c) /\ x.cmd.verb = "md"
       /\ Local(c, IF ~Present(k) THEN SayUnless(x.cmd.quiet, x, "NF")
                   ELSE IF x.cmd.has_cas /\ content[k] # x.cmd.cas
                   THEN SayUnless(x.cmd.quiet, x, "EX")
                   ELSE [x EXCEPT !.state = "remove"])

RemoveFound(c) ==
    LET x == conn[c]
    IN /\ x.state = "remove"
       /\ Forget(x.cmd.key)
       /\ Step(c, SayUnless(x.cmd.quiet, [x EXCEPT !.state = "idle"], "HD"))

\* mg with T: touch_ttl sets the expiry of whatever is in the index.
MetaTouch(c) ==
    LET x == Taken(c)
        found == {k \in {x.cmd.key} : content[k] # None}
        set(f, at) == [k \in Keys |-> IF k \in found THEN at ELSE f[k]]
    IN /\ HasLine(c) /\ x.cmd.verb = "mg" /\ x.cmd.expires.given
       /\ expiry' = set(expiry, MetaExpiry(x.cmd.expires, now))
       /\ deadline' = set(deadline, Asked(x.cmd, now))
       /\ Step(c, [x EXCEPT !.state = "lookup"])
       /\ UNCHANGED <<content, last, pub, stage, sock, wire>>

OnDisk(item) == Len(pub[item].body) > RamHead

\* Whether an event loop's snapshot pins the head: a value that is in RAM alone
\* has one, of others it may have been evicted.
Pins(item) == IF ~Async THEN {FALSE} ELSE IF OnDisk(item) THEN BOOLEAN ELSE {TRUE}

\* A hit on a value frames its header; the value follows before anything else.
\* A snapshot whose files cannot be opened is a miss.
Lookup(c, x) ==
    LET item == content[x.cmd.key]
        meta == x.cmd.verb = "mg"
        idle == [x EXCEPT !.state = "idle"]
        miss == SayUnless(meta /\ x.cmd.quiet, idle, IF meta THEN "EN" ELSE "END")
        hit == [x EXCEPT !.state = "get", !.item = item, !.remaining = Len(pub[item].body)]
    IN \/ ~Present(x.cmd.key) /\ Local(c, miss)
       \/ /\ Present(x.cmd.key) /\ x.cmd.value
          /\ \/ \E p \in Pins(item) :
                   Local(c, SayItem([hit EXCEPT !.pinned = p], IF meta THEN "VA" ELSE "VALUE", item))
             \/ Async /\ OnDisk(item) /\ Fails(c, "open") /\ Local(c, miss)
       \/ Present(x.cmd.key) /\ ~x.cmd.value /\ Local(c, SayItem(idle, "HD", item))

Get(c) ==
    LET x == Taken(c)
    IN \/ /\ HasLine(c)
          /\ x.cmd.verb = "get" \/ (x.cmd.verb = "mg" /\ ~x.cmd.expires.given)
          /\ Lookup(c, x)
       \/ conn[c].state = "lookup" /\ Lookup(c, conn[c])

Readable(from, pos) == from # None /\ pos <= Len(pub[from].body)

\* The contents the next byte may come from.  stream_value looks the key up for
\* every chunk.  An event loop sends a pinned head, and streams the rest from
\* the files of its snapshot; but where it has no pin, plan takes what is in
\* reach of a head from the head the key has by then, if one is resident.
Sources(x, pos) ==
    LET current == content[x.cmd.key]
    IN IF ~Async THEN {current}
       ELSE IF ~x.pinned /\ pos <= RamHead /\ Readable(current, pos) THEN {x.item, current}
       ELSE {x.item}

\* What a chunk held before.
OldChunk == <<"old">>

PiecesUnchecked(x, pos) ==
    {IF Readable(n, pos) THEN pub[n].body[pos] ELSE OldChunk : n \in Sources(x, pos)}

\* The next byte; there is none if the object is gone, or too short by now.
Pieces(x, pos) == {pub[n].body[pos] : n \in {m \in Sources(x, pos) : Readable(m, pos)}}

\* One piece of a value is sent, or the reply is complete.  A piece that cannot
\* be read in full ends a blocking connection.
SendValue(c) ==
    LET x == conn[c]
        at == Len(wire[c])
        pieces == Pieces(x, Len(wire[c][at].data) + 1)
    IN /\ x.state = "get" /\ x.out = <<>>
       /\ \/ /\ x.remaining = 0
             /\ wire' = [wire EXCEPT ![c][at].done = TRUE]
             /\ Step(c, [x EXCEPT !.state = "idle", !.item = 0, !.pinned = FALSE])
          \/ /\ x.remaining > 0
             /\ \E piece \in pieces : wire' = [wire EXCEPT ![c][at].data = Append(@, piece)]
             /\ Step(c, [x EXCEPT !.remaining = @ - 1])
          \/ /\ x.remaining > 0 /\ pieces = {}
             /\ wire' = wire
             /\ Step(c, Closed(x))
       /\ UNCHANGED <<storeVars, stage, sock>>

----------------------------------------------------------------------------
(* Input, output and the environment.                                      *)

\* Nothing more can be done before more input arrives.
Starved(x) ==
    \/ x.state = "idle" /\ ~x.quit /\ Ends(x.in) = {}
    \/ x.state = "set_body" /\ (IF x.remaining > 0 THEN x.in = <<>> ELSE Len(x.in) < 2)

Recv(c) ==
    /\ Starved(conn[c]) /\ conn[c].out = <<>> /\ ~Overlong(conn[c])
    /\ \E n \in 1..Len(sock[c]) :
          /\ c \in Probed \/ n = Len(sock[c])
          /\ Step(c, [conn[c] EXCEPT !.in = @ \o SubSeq(sock[c], 1, n)])
          /\ sock' = [sock EXCEPT ![c] = SubSeq(@, n + 1, Len(@))]
    /\ UNCHANGED <<storeVars, stage, wire>>

\* The end of process() closes an overlong line before it flushes.
CloseOverlong(c) == Overlong(conn[c]) /\ Local(c, Closed(conn[c]))

FlushPoint(x) ==
    ~Async \/ ((Starved(x) \/ x.quit \/ x.state = "get") /\ ~Overlong(x))

Flush(c) ==
    LET x == conn[c]
    IN /\ x.state # "closed" /\ FlushPoint(x)
       /\ x.out # <<>> \/ x.quit
       /\ wire' = [wire EXCEPT ![c] = @ \o x.out]
       /\ Step(c, IF x.quit THEN Closed(x) ELSE [x EXCEPT !.out = <<>>])
       /\ UNCHANGED <<storeVars, stage, sock>>

\* The peer closes, resets or stalls while the server waits to receive or to
\* send.  Waiting for a staging buffer, it has no operation that would notice.
PeerGone(c) ==
    LET x == conn[c]
    IN /\ Fails(c, "peer")
       /\ Starved(x) \/ x.state = "get" \/ (x.out # <<>> /\ FlushPoint(x))
       /\ stage' = IF x.sh THEN stage + 1 ELSE stage
       /\ Step(c, Closed(x))
       /\ UNCHANGED <<storeVars, sock, wire>>

\* The store evicts.
Lose ==
    /\ "lose" \in Faults
    /\ Store!Lose /\ content' # content
    /\ UNCHANGED <<net, client, expiry, deadline, now, stage, pub, sock, conn, wire>>

\* Time passes; a client that never names a TTL could not tell.
Tick ==
    /\ now < MaxTime
    /\ \E c \in Clients : \E i \in DOMAIN client[c].cmds : client[c].cmds[i].expires.ttl # 0
    /\ now' = now + 1
    /\ UNCHANGED <<net, client, storeVars, stage, sock, conn, wire>>

Serve(c) ==
    \/ Answer(c) \/ Admit(c) \/ begin_store(c) \/ Body(c) \/ Refuse(c) \/ Commit(c) \/ NewCas(c)
    \/ Delete(c) \/ MetaDelete(c) \/ RemoveFound(c) \/ MetaTouch(c) \/ Get(c) \/ SendValue(c)
    \/ Recv(c) \/ CloseOverlong(c) \/ Flush(c)

\* Every request is served.
Rest ==
    /\ \A c \in Clients : conn[c].state = "closed" \/ (Starved(conn[c]) /\ sock[c] = <<>>)
    /\ UNCHANGED vars

Next == (\E c \in Clients : Serve(c) \/ PeerGone(c)) \/ Lose \/ Tick \/ Rest

Spec == Init /\ [][Next]_vars

----------------------------------------------------------------------------
(* Properties.                                                             *)

\* The first n lines of c are well-formed requests.
Sound(c, n) == n <= client[c].sound

\* Between two commands the unread input is exactly the requests that have not
\* been served, however the stream was cut into segments and whatever became of
\* the stores before: a refused body is drained, and no body is run as commands.
Framed ==
    \A c \in Clients :
        LET x == conn[c]
            stream == client[c].stream
        IN x.state = "idle" /\ Sound(c, x.nth) =>
              x.in \o sock[c] = SubSeq(stream, client[c].start[x.nth + 1], Len(stream))

Answers(cmd) ==
    CASE cmd.verb = "store" -> {"STORED", "NOT_STORED", "EXISTS", "NOT_FOUND", "BAD_CHUNK"}
      [] cmd.verb = "ms" -> {"HD", "NS", "EX", "NF", "BAD_CHUNK"}
      [] cmd.verb = "get" -> {"VALUE", "END"}
      [] cmd.verb = "mg" -> {"VA", "HD", "EN"}
      [] cmd.verb = "md" -> {"HD", "NF", "EX"}
      [] cmd.verb = "delete" -> {"DELETED", "NOT_FOUND"}
      [] cmd.verb = "bad" -> {"ERROR"}
      [] cmd.verb = "badmeta" -> {"CLIENT_ERROR"}
      [] cmd.verb = "stats" -> {"STATS", "ERROR"}
      [] OTHER -> {"MN", "VERSION"}

Replies(c) == wire[c] \o conn[c].out

\* The lines of c that have been served: all but the one in progress.
Served(c) == IF conn[c].state = "idle" THEN conn[c].nth ELSE conn[c].nth - 1

Published(c, n) == \E m \in 1..Len(pub) : pub[m].client = c /\ pub[m].nth = n

\* Replies come in the order of the requests, at most one each and of a kind the
\* request can have, and none is owed: only a quit or a quiet request goes
\* without, and a quiet meta store only if it was stored.  So a client that
\* pipelines can tell its replies apart.
RepliesInOrder ==
    \A c \in Clients :
        LET r == Replies(c)
        IN /\ \A i \in 1..(Len(r) - 1) : r[i].nth < r[i + 1].nth /\ r[i].done
           /\ \A i \in 1..Len(r) : Sound(c, r[i].nth) =>
                 r[i].kind \in Answers(client[c].cmds[r[i].nth])
           /\ conn[c].state # "closed" /\ Sound(c, Served(c)) =>
                 \A n \in 1..Served(c) :
                    LET cmd == client[c].cmds[n]
                    IN \/ \E i \in 1..Len(r) : r[i].nth = n
                       \/ cmd.verb = "quit"
                       \/ cmd.quiet /\ (cmd.verb = "ms" => Published(c, n))

\* What is published is what one client sent: each content is the body of one
\* well-formed request, under its key, and no request publishes twice.  The
\* reply tells: success means that it was published, anything else that not.
StoredAsSent ==
    /\ \A n, m \in 1..Len(pub) :
          n # m => <<pub[n].client, pub[n].nth>> # <<pub[m].client, pub[m].nth>>
    /\ \A n \in 1..Len(pub) :
          Sound(pub[n].client, pub[n].nth) =>
              LET sent == client[pub[n].client]
              IN /\ pub[n].key = sent.cmds[pub[n].nth].key
                 /\ pub[n].body \o CRLF = sent.data[pub[n].nth]
    /\ \A c \in Clients : \A i \in 1..Len(Replies(c)) :
          LET r == Replies(c)[i]
              stored == Published(c, r.nth)
          IN /\ r.kind = "STORED" => stored
             /\ r.kind \in {"NOT_STORED", "NS", "EXISTS", "BAD_CHUNK"} => ~stored

\* A store with a CAS publishes only over the content that has it, also when
\* other connections stored or the content expired while its body came in.
CasProtects ==
    [][\A c \in Clients :
         /\ last' # last /\ pub'[last'].client = c /\ conn[c].cmd.has_cas
         => content[conn[c].cmd.key] = conn[c].cmd.cas /\ Present(conn[c].cmd.key)]_vars

\* A value is never older than its header, nor anything but the key's: each byte
\* stands in its place in the content the header names or in one the key got
\* later, whether an event loop streams it or a blocking worker reads it in
\* chunks while others store, delete and evict.  And it is as long as its header
\* says, so that the next reply begins where the client looks for it; a worker
\* that cannot deliver that hangs up.
ValueFromItsTime ==
    \A c \in Clients : \A i \in 1..Len(wire[c]) :
        LET r == wire[c][i]
            key == pub[r.item].key
            since == {n \in r.item..Len(pub) : pub[n].key = key}
        IN r.kind \in {"VALUE", "VA"} =>
              /\ \A p \in 1..Len(r.data) :
                    \E n \in since : Readable(n, p) /\ r.data[p] = pub[n].body[p]
              /\ r.done => Len(r.data) = Len(pub[r.item].body)

\* An object expires exactly when its TTL says: 0 is never, a negative one is
\* at once, one of up to 30 days counts from the store and a longer one is a
\* point in time.  For TTLs that fit the width of an expiry; see MetaExpiry for
\* the others.
ExpiresAsAsked ==
    \A k \in Keys :
        content[k] # None => (is_expired(k) <=> deadline[k] # 0 /\ deadline[k] <= now)

\* "add: only if absent".
AddOnlyIfAbsent ==
    [][\A c \in Clients :
         /\ last' # last /\ pub'[last'].client = c /\ conn[c].cmd.mode = "add"
         => ~Present(conn[c].cmd.key)]_vars

\* "HD + return flags (c = new CAS via lookup ...)": the CAS a store returns is
\* the one its own content was published with.
ReturnsOwnCas ==
    \A c \in Clients : \A i \in 1..Len(Replies(c)) :
        LET r == Replies(c)[i]
        IN r.kind = "HD" /\ r.item # 0 /\ client[c].cmds[r.nth].verb = "ms" =>
              pub[r.item].client = c /\ pub[r.item].nth = r.nth

\* A value is one content published under its key.
ValueIsWhole ==
    \A c \in Clients : \A i \in 1..Len(wire[c]) :
        LET r == wire[c][i]
        IN r.kind \in {"VALUE", "VA"} /\ r.done =>
              \E n \in 1..Len(pub) : pub[n].key = pub[r.item].key /\ r.data = pub[n].body
=============================================================================
