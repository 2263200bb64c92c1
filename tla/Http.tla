-------------------------------- MODULE Http --------------------------------
(***************************************************************************)
(* HttpLoop (http/http_loop.cpp) serving one client over plaintext or TLS, *)
(* in a process that starts, preloads, is stored into, stops and starts    *)
(* again (module Process).                                                 *)
(*                                                                         *)
(* A request arrives whole; the loop handles each before it parses the     *)
(* next, and other threads may store between two lookups.  A body is a     *)
(* function from the numbers of its bytes to the contents they come from;  *)
(* how it goes through the buffers is module StreamLoop's, and how bytes   *)
(* come from the drives is module DataPath's.  No object here expires.     *)
(***************************************************************************)
EXTENDS Process

CONSTANT CertHosts   \* the hosts the TLS certificates are for

VARIABLES
    client,  \* the requests sent so far, and the last whole object received
    conn,    \* the client's connection
    wire     \* the replies, in the order they were sent

vars == <<setup, dirs, prep, proc, shutdown, thread, index, etagSeq, loaded, store, client, conn, wire>>

NoConnection ==
    [state |-> "none", sni |-> <<>>, in |-> <<>>, quit |-> FALSE, req |-> Nothing, obj |-> Nothing,
     pos |-> 0, end |-> 0]

\* The worker the client connects to.
FrontEnd == IF setup.tls THEN "https" ELSE "http"

HttpInit ==
    /\ Init
    /\ client = [sent |-> 0, cache |-> Nothing]
    /\ conn = NoConnection
    /\ wire = <<>>

----------------------------------------------------------------------------
(* Requests and replies.                                                   *)

\* The address of a source file: how a client escapes it.
Escape(s) == FlattenSeq([i \in DOMAIN s |->
                IF s[i] \in {"%", "?"} THEN <<"%">> \o Code[s[i]] ELSE <<s[i]>>])

\* Request n of the script as it is sent: a file is asked for by its address,
\* and a conditional request names the tag of the object the client holds.
Sent(n) ==
    LET r == setup.script[n]
        f == r.file
        vhost == setup.opt.vhost
        target == IF f = Nothing THEN r.target
                  ELSE IF vhost THEN Escape(From(f, "/"))
                  ELSE <<"/">> \o Escape(f)
        holds == r.inm = "held" /\ client.cache # Nothing /\ client.cache.target = target
    IN [n |-> n, method |-> r.method, file |-> f, close |-> r.close,
        range |-> parse_range(r.range),
        host |-> IF f # Nothing /\ vhost THEN Before(f, "/") ELSE r.host,
        target |-> target,
        any |-> r.inm = "*",
        held |-> IF holds THEN client.cache ELSE Nothing]

etag_of_size(obj) == <<SizeOf[obj.content], 0>>

make_etag(obj) == <<SizeOf[obj.content], obj.etag>>

inm_matches(req, obj) == req.any \/ (req.held # Nothing /\ req.held.tag = make_etag(obj))

\* A reply: its head, what the index held for the request, the files loaded
\* by then, and the bytes of the body once they are out.
Reply(req, status, length, obj) ==
    [req |-> req, status |-> status, length |-> length, tag |-> <<>>, span |-> <<>>,
     keep |-> ~req.close, found |-> obj, loaded |-> loaded, body |-> Nothing]

LastByte(r) == r.off + r.len - 1

\* frame_get_hit: the head, and the bytes [pos, end) to stream.
frame_get_hit(req, obj) ==
    LET size == SizeOf[obj.content]
        r == resolve_range(req.range, size)
        whole == [Reply(req, 200, size, obj) EXCEPT !.tag = make_etag(obj)]
    IN IF inm_matches(req, obj)
       THEN [head |-> [whole EXCEPT !.status = 304, !.length = 0], pos |-> 0, end |-> 0]
       ELSE IF req.range = Nothing THEN [head |-> whole, pos |-> 0, end |-> size]
       ELSE IF r = Nothing
       THEN [head |-> Reply(req, 416, 0, obj), pos |-> 0, end |-> 0]
       ELSE [head |-> [whole EXCEPT !.status = 206, !.length = r.len,
                                    !.span = <<r.off, LastByte(r)>>],
             pos |-> r.off, end |-> r.off + r.len]

----------------------------------------------------------------------------
(* The connection.                                                         *)

\* The handshake refuses a name that no certificate is for, and the client
\* goes away.
sni_select(name) == lower(name) \in CertHosts

Connect ==
    /\ thread[FrontEnd] = "run"
    /\ conn = NoConnection /\ client.sent < Len(setup.script)
    /\ IF setup.tls /\ ~sni_select(setup.sni)
       THEN client' = [client EXCEPT !.sent = Len(setup.script)] /\ UNCHANGED conn
       ELSE /\ conn' = [conn EXCEPT !.state = "recv",
                                    !.sni = IF setup.tls THEN lower(setup.sni) ELSE <<>>]
            /\ UNCHANGED client
    /\ UNCHANGED wire /\ UNCHANGED processVars

\* The next n requests arrive together.
on_recv(n) ==
    /\ conn.state = "recv"
    /\ client.sent + n <= Len(setup.script)
    /\ conn' = [conn EXCEPT !.state = "idle", !.in = [i \in 1..n |-> Sent(client.sent + i)]]
    /\ client' = [client EXCEPT !.sent = @ + n]
    /\ UNCHANGED wire /\ UNCHANGED processVars

Serve(state, req) ==
    conn' = [conn EXCEPT !.state = state, !.in = Tail(@), !.quit = req.close]

\* An error reply; what else has arrived is not looked at.
Refuse(req, status) ==
    /\ wire' = Append(wire, [Reply(req, status, 0, Nothing) EXCEPT !.keep = FALSE])
    /\ Serve("quit", req)

Lookup(key) == IF key \in DOMAIN index THEN index[key] ELSE Nothing

\* begin_get: a miss, or the head of a hit; the body follows.
begin_get(req) ==
    LET obj == Lookup(derive_key(req.host, req.target, setup.opt))
        hit == frame_get_hit(req, obj)
        at == [conn EXCEPT !.req = req, !.quit = req.close,
                           !.in = IF conn.state = "idle" THEN Tail(@) ELSE @]
    IN IF obj = Nothing
       THEN /\ wire' = Append(wire, Reply(req, 404, 0, Nothing))
            /\ conn' = [at EXCEPT !.state = "idle"]
       ELSE \/ /\ wire' = Append(wire, hit.head)
               /\ conn' = [at EXCEPT !.state = "stream", !.obj = obj,
                                     !.pos = hit.pos, !.end = hit.end]
            \/ /\ Event("park")   \* no read buffer is free
               /\ conn' = [at EXCEPT !.state = "get_wait"]
               /\ UNCHANGED wire

HeadReply(req, obj) ==
    IF obj = Nothing THEN Reply(req, 404, 0, Nothing)
    ELSE frame_get_hit([req EXCEPT !.range = Nothing], obj).head

\* Over TLS the Host must be the name of the handshake.
HostMatches(req) == conn.sni = <<>> \/ normalize_host(req.host) = conn.sni

\* One round of process(): the next request that has arrived.
process ==
    /\ conn.state = "idle" /\ conn.in # <<>>
    /\ LET req == Head(conn.in)
           key == derive_key(req.host, req.target, setup.opt)
       IN IF req.method = "bad" THEN Refuse(req, 400)
          ELSE IF ~HostMatches(req) THEN Refuse(req, 421)
          ELSE IF req.method = "other" THEN Refuse(req, 405)
          ELSE IF key = Nothing THEN Refuse(req, 400)
          ELSE IF req.method = "get" THEN begin_get(req)
          ELSE /\ wire' = Append(wire, HeadReply(req, Lookup(key)))
               /\ Serve("idle", req)
    /\ UNCHANGED client /\ UNCHANGED processVars

\* The request is taken up again when a buffer is free: drain_get_waiters.
Retry ==
    /\ conn.state = "get_wait"
    /\ begin_get(conn.req)
    /\ UNCHANGED client /\ UNCHANGED processVars

\* The loop ends when the input does: close, or receive more.
EndOfInput ==
    /\ conn.state = "idle" /\ conn.in = <<>>
    /\ conn' = IF conn.quit THEN NoConnection ELSE [conn EXCEPT !.state = "recv"]
    /\ UNCHANGED <<client, wire>> /\ UNCHANGED processVars

\* The contents the bytes within a head may come from: those of the object that
\* was found, or, if its head had been evicted by then, those the key has now.
HeadSources ==
    LET found == conn.obj.content
        current == Lookup(derive_key(conn.req.host, conn.req.target, setup.opt))
    IN {found} \cup (IF OnDisk(found) /\ current # Nothing THEN {current.content} ELSE {})

\* The body is out: finish_get goes on with the requests behind it.  A client
\* keeps the object it got whole, as it got it.
SendBody ==
    /\ conn.state = "stream"
    /\ \E head \in HeadSources :
          LET body == [b \in conn.pos..(conn.end - 1) |->
                         IF b < RamHead /\ b < SizeOf[head] THEN head ELSE conn.obj.content]
              r == Last(wire)
          IN /\ wire' = [wire EXCEPT ![Len(wire)].body = body]
             /\ client' = IF r.status = 200
                          THEN [client EXCEPT !.cache = [target |-> r.req.target, tag |-> r.tag,
                                                         body |-> body]]
                          ELSE client
    /\ conn' = [conn EXCEPT !.state = "idle", !.obj = Nothing]
    /\ UNCHANGED processVars

\* The connection closes: after an error reply, when a disk read fails, when
\* the loop drains, and when the client leaves.
Close ==
    /\ \/ conn.state = "quit"
       \/ conn.state = "stream" /\ Event("read")
       \/ conn.state = "recv" /\ (thread[FrontEnd] = "drain" \/ client.sent = Len(setup.script))
    /\ conn' = NoConnection
    /\ UNCHANGED <<client, wire>> /\ UNCHANGED processVars

HttpNext ==
    \/ Connect \/ \E n \in 1..2 : on_recv(n)
    \/ process \/ Retry \/ EndOfInput \/ SendBody \/ Close

\* A connection ends with its worker.
Next ==
    \/ HttpNext
    \/ /\ ProcessNext
       /\ conn' = IF thread'[FrontEnd] \in {"run", "drain"} THEN conn ELSE NoConnection
       /\ UNCHANGED <<client, wire>>

Spec == HttpInit /\ [][Next]_vars /\ ProcessFairness

----------------------------------------------------------------------------
(* Properties.                                                             *)

\* The bytes of an object of that size that the request's Range asks for.
Asked(req, size) ==
    {b \in 0..(size - 1) :
        \/ req.range = Nothing
        \/ req.range.kind = "closed" /\ b \in req.range.a..req.range.b
        \/ req.range.kind = "from" /\ b >= req.range.a
        \/ req.range.kind = "suffix" /\ b >= size - req.range.a}

\* Requests are answered in order, each with the bytes it asks for of the
\* object the index held: 200, 206 or 416 as the range has it, a length and a
\* Content-Range that are exact, and a body of just those bytes, so that a
\* client of a kept-alive connection finds the next reply where it begins.
\* What the bytes are is not part of it.
AnswersExact ==
    \A i \in DOMAIN wire :
        LET w == wire[i]
            bytes == IF w.status = 304 THEN {} ELSE Asked(w.req, SizeOf[w.found.content])
        IN /\ i > 1 => wire[i - 1].req.n < w.req.n
           /\ w.found = Nothing => w.length = 0 /\ w.body = Nothing
           /\ w.found # Nothing /\ w.req.method = "get" =>
                 /\ w.status \in IF w.req.range = Nothing THEN {200, 304}
                                 ELSE IF bytes = {} THEN {304, 416}
                                 ELSE {206}
                 /\ w.length = Cardinality(bytes)
                 /\ w.status = 206 => w.span = <<Min(bytes), Max(bytes)>>
                 /\ w.body # Nothing => DOMAIN w.body = bytes

\* A 304 is true: the object the client holds under the tag it sent is, byte for
\* byte, the one the store has ("differs whenever it changes",
\* http/http_loop.cpp), even if it came with a head of another version.
NotModifiedIsTrue ==
    \A i \in DOMAIN wire :
        LET w == wire[i]
        IN w.status = 304 /\ ~w.req.any =>
              w.req.held.body = [b \in 0..(SizeOf[w.found.content] - 1) |-> w.found.content]

\* A file that the process preloaded and did not drop is found at its address:
\* the loader and the front end derive the same key, whatever the key options.
FilesServed ==
    \A i \in DOMAIN wire :
        wire[i].req.file \in wire[i].loaded => wire[i].status # 404

BlankExcept(some) ==
    proc.pc \in {"source", "listen", "tls", "join"} =>
        \A d \in Range(Dirs) \ some : \A f \in dirs[d].files : f = Foreign \/ f.start = proc.start

\* "Every start is a blank slate; old object files and partials are erased"
\* (docs/adr/0013): once the wipe is over no directory has a file of an earlier
\* process, live, scratch or stray, wherever that process crashed and whatever
\* it left behind; but for a directory whose walk broke off.
BlankSlate == BlankExcept(proc.cut)

\* The same without exception.
EveryStartIsBlank == BlankExcept({})

\* "a mis-typed --ssd-dir can never erase /var" (storage/pool_dir.hpp): what
\* another program keeps in a directory without marker is never removed, and
\* path-prep does not mark the directory either.
ForeignFilesKept ==
    [][\A d \in Range(Dirs) :
          Foreign \in dirs[d].files /\ ~dirs[d].marked =>
              Foreign \in dirs'[d].files /\ ~dirs'[d].marked]_vars

\* SIGTERM ends the process, whenever it comes, unless a blocking worker is
\* with a client.
ShutdownCompletes ==
    shutdown ~> (proc.pc = "off" \/ thread["memcache"] \in {"client", "command"})

\* "graceful shutdown: drain in-flight transfers, then exit" (main.cpp).
ShutdownAlwaysCompletes == shutdown ~> proc.pc = "off"
=============================================================================
