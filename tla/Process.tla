------------------------------ MODULE Process ------------------------------
(***************************************************************************)
(* The life of the server process: main.cpp, the pool directories of       *)
(* storage/pool_dir.cpp with the goblin-store-path-prep tool, the source   *)
(* loader of http/source_loader.cpp, and serve() with its threads in       *)
(* protocol/memcache/server.cpp.                                           *)
(*                                                                         *)
(* The pool directories outlive a process; the index and the threads do    *)
(* not.  A stored object is one file in every directory unless it fits the *)
(* RAM head; what a store does in detail is module TierManager's.  There   *)
(* is one worker of each kind, and one store in progress at a time.        *)
(***************************************************************************)
EXTENDS HttpRequest, FiniteSets

CONSTANTS
    Dirs,       \* the pool directories in the order of the wipe, SSD first
    Sources,    \* the --source trees in order: a set of relative paths each
    ContentOf,  \* relative path -> content of the file
    SizeOf,     \* content -> size
    RamHead,    \* tiers.ram_head
    Setups,     \* the configurations and environments of this instance
    MaxStores   \* bound: stores of one process

\* A setup: the network mode, the key options, what may fail or happen, the
\* bound on starts of the process, the keys and contents memcache clients
\* store, and module Http's client.
ASSUME ProcessConfig ==
    /\ \A s \in Setups :
          /\ s.net \in {"async", "blocking"}
          /\ s.events \subseteq {"remove", "walk", "open", "source", "scratch", "drop", "listen",
                                  "tls", "worker", "accept", "signal", "crash", "user",
                                  "user_during_prep", "read", "park"}
    /\ RamHead \in Nat /\ MaxStores \in Nat

VARIABLES
    setup,
    dirs,      \* directory -> whether it exists, has the marker, and its files
    prep,      \* the directory path-prep found empty and is about to mark
    proc,      \* the main thread: where it is, what is left to do there, and the
               \* directories whose wipe broke off
    shutdown,  \* g_shutdown
    thread,    \* the threads of serve()
    index,     \* the published objects: key -> etag and content
    etagSeq,   \* etags handed out
    loaded,    \* the source files this process has stored and not dropped
    store      \* the store in progress: key, content, and the source file if any

processVars == <<setup, dirs, prep, proc, shutdown, thread, index, etagSeq, loaded, store>>

Thread == {"memcache", "http", "https", "reaper"}

\* A file of another owner, and the files of a key: which process wrote them,
\* and whether under the key's name or that of a scratch file, which may have
\* been left by a store that is over.
Foreign == [start |-> 0, key |-> <<>>, name |-> "other"]

File(key, name) == [start |-> proc.start, key |-> key, name |-> name]

Down == [t \in Thread |-> "none"]

Event(e) == e \in setup.events

Init ==
    /\ setup \in Setups
    /\ dirs \in [Range(Dirs) -> {[there |-> FALSE, marked |-> FALSE, files |-> {}],
                                 [there |-> TRUE, marked |-> FALSE, files |-> {Foreign}]}]
    /\ prep = Nothing
    /\ proc = [pc |-> "off", at |-> 1, todo |-> {}, cut |-> {}, start |-> 0]
    /\ shutdown = FALSE
    /\ thread = Down
    /\ index = <<>> /\ etagSeq = 0 /\ loaded = {} /\ store = Nothing

\* What ends the process leaves the directories as they are.
Exit ==
    /\ proc' = [proc EXCEPT !.pc = "off", !.at = 1, !.todo = {}, !.cut = {}]
    /\ shutdown' = FALSE
    /\ thread' = Down
    /\ index' = <<>> /\ etagSeq' = 0 /\ loaded' = {} /\ store' = Nothing

Goto(pc, at, todo) == proc' = [proc EXCEPT !.pc = pc, !.at = at, !.todo = todo]

memory == <<shutdown, thread, index, etagSeq, loaded, store>>

----------------------------------------------------------------------------
(* The directories.                                                        *)

\* prepare_pool_dir makes the directory and requires it to be empty ...
prepare_pool_dir(d) ==
    /\ prep = Nothing
    /\ dirs' = [dirs EXCEPT ![d].there = TRUE]
    /\ prep' = IF dirs[d].files = {} /\ ~dirs[d].marked THEN d ELSE Nothing
    /\ UNCHANGED <<setup, proc>> /\ UNCHANGED memory

\* ... and then writes the marker.
WriteMarker ==
    /\ prep # Nothing
    /\ dirs' = [dirs EXCEPT ![prep].marked = TRUE]
    /\ prep' = Nothing
    /\ UNCHANGED <<setup, proc>> /\ UNCHANGED memory

\* Somebody else keeps a file in a directory.
UserWrites(d) ==
    /\ Event("user") /\ dirs[d].there
    /\ Event("user_during_prep") \/ prep # d
    /\ dirs' = [dirs EXCEPT ![d].files = @ \cup {Foreign}]
    /\ UNCHANGED <<setup, prep, proc>> /\ UNCHANGED memory

has_any(d) == dirs[d].there

has_marker(d) == dirs[d].marked

----------------------------------------------------------------------------
(* Start-up: wipe every directory, open the store, preload, serve.         *)

Start ==
    /\ proc.pc = "off" /\ proc.start < setup.starts
    /\ proc' = [proc EXCEPT !.pc = "marker", !.start = @ + 1]
    /\ UNCHANGED <<setup, dirs, prep>> /\ UNCHANGED memory

Here == Dirs[proc.at]

\* wipe_pool_dir refuses a directory without marker, and so does main.
wipe_pool_dir ==
    /\ proc.pc = "marker"
    /\ IF has_marker(Here)
       THEN Goto("wipe", proc.at, dirs[Here].files) /\ UNCHANGED memory
       ELSE Exit
    /\ UNCHANGED <<setup, dirs, prep>>

\* The walk removes entry after entry.  An entry that cannot be removed ends
\* the start.
RemoveEntry ==
    /\ proc.pc = "wipe"
    /\ \E f \in proc.todo :
          \/ /\ dirs' = [dirs EXCEPT ![Here].files = @ \ {f}]
             /\ Goto("wipe", proc.at, proc.todo \ {f})
             /\ UNCHANGED memory
          \/ /\ Event("remove")
             /\ Exit
             /\ UNCHANGED dirs
    /\ UNCHANGED <<setup, prep>>

\* An error on the way to the next entry makes the iterator the end iterator:
\* the loop ends as if the walk were complete, and its own check is not reached.
WalkBreaksOff ==
    /\ Event("walk")
    /\ proc.pc = "wipe" /\ proc.todo # {}
    /\ proc' = [proc EXCEPT !.todo = {}, !.cut = @ \cup {Here}]
    /\ UNCHANGED <<setup, dirs, prep>> /\ UNCHANGED memory

FirstOnly == FALSE

MoreDirs == proc.at < Len(Dirs)

NextDir ==
    /\ proc.pc = "wipe" /\ proc.todo = {}
    /\ IF MoreDirs THEN Goto("marker", proc.at + 1, {}) ELSE Goto("open", 1, {})
    /\ UNCHANGED <<setup, dirs, prep>> /\ UNCHANGED memory

\* TierManager::open, and the check that io_uring is there.
open ==
    /\ proc.pc = "open"
    /\ \/ Goto("source", 1, {}) /\ UNCHANGED memory
       \/ Event("open") /\ Exit
    /\ UNCHANGED <<setup, dirs, prep>>

\* preload_sources goes on to the next tree; one that is no directory is
\* skipped, and after the last the process serves.
NextSource ==
    /\ proc.pc = "source" /\ proc.todo = {} /\ store = Nothing
    /\ IF proc.at > Len(Sources)
       THEN Goto("listen", 1, {})
       ELSE \/ Goto("source", proc.at + 1, Sources[proc.at])
            \/ Event("source") /\ Goto("source", proc.at + 1, {})
    /\ UNCHANGED <<setup, dirs, prep>> /\ UNCHANGED memory

OnDisk(content) == SizeOf[content] > RamHead

\* begin_store opens the scratch files; when one cannot be opened, those opened
\* before it stay.
BeginStore(key, content, file) ==
    \/ /\ store' = [key |-> key, content |-> content, file |-> file]
       /\ dirs' = [d \in Range(Dirs) |->
             [dirs[d] EXCEPT !.files = IF OnDisk(content) THEN @ \cup {File(key, "tmp")} ELSE @]]
    \/ /\ Event("scratch") /\ OnDisk(content)
       /\ dirs' = [dirs EXCEPT ![Dirs[1]].files = @ \cup {File(key, "left")}]
       /\ UNCHANGED store

\* commit renames the scratch files over those of the key, and publishes.  A
\* value in RAM alone has none, and the files of a larger one stay.
CommitStore ==
    /\ store # Nothing
    /\ LET k == store.key
       IN /\ etagSeq' = etagSeq + 1
          /\ index' = [j \in DOMAIN index \cup {k} |->
                IF j = k THEN [etag |-> etagSeq + 1, content |-> store.content] ELSE index[j]]
          /\ dirs' = [d \in Range(Dirs) |->
                [dirs[d] EXCEPT !.files = IF OnDisk(store.content)
                                          THEN (@ \ {File(k, "tmp")}) \cup {File(k, "live")}
                                          ELSE @]]
    /\ loaded' = loaded \cup ({store.file} \ {Nothing})
    /\ store' = Nothing
    /\ UNCHANGED <<setup, prep, proc, shutdown, thread>>

\* abort_uncommitted removes the scratch files of a store, if there is one.
DiscardStore ==
    /\ dirs' = [d \in Range(Dirs) |->
          [dirs[d] EXCEPT !.files = IF store = Nothing THEN @ ELSE @ \ {File(store.key, "tmp")}]]
    /\ store' = Nothing

\* A source file cannot be read to its end, or a client leaves or is closed.
AbandonStore ==
    /\ store # Nothing
    /\ store.file # Nothing => Event("source")
    /\ DiscardStore
    /\ UNCHANGED <<setup, prep, proc, shutdown, thread, index, etagSeq, loaded>>

SourceKeys ==
    [f \in UNION Range(Sources) |->
        [opt \in {s.opt : s \in Setups} |-> derive_key_from_relpath(f, opt)]]

\* load_file stores a file under the key of its path; one that is not regular
\* or has no size is skipped.
load_file ==
    /\ proc.pc = "source" /\ store = Nothing
    /\ \E f \in proc.todo :
          /\ Goto("source", proc.at, proc.todo \ {f})
          /\ \/ BeginStore(SourceKeys[f][setup.opt], ContentOf[f], f)
             \/ Event("source") /\ UNCHANGED <<dirs, store>>
    /\ UNCHANGED <<setup, prep, shutdown, thread, index, etagSeq, loaded>>

\* serve() starts the memcache and HTTP workers.  The blocking server's
\* listener is opened before them and can fail.
serve ==
    /\ proc.pc = "listen"
    /\ \/ /\ thread' = [thread EXCEPT !["memcache"] = "start", !["http"] = "start"]
          /\ Goto("tls", 1, {})
          /\ UNCHANGED <<shutdown, index, etagSeq, loaded, store>>
       \/ Event("listen") /\ setup.net = "blocking" /\ Exit
    /\ UNCHANGED <<setup, dirs, prep>>

\* It reads the certificates and starts the HTTPS workers and the reaper.  An
\* error returns past the running threads, and the process is terminated.
ServeTls ==
    /\ proc.pc = "tls"
    /\ \/ /\ thread' = [thread EXCEPT !["https"] = "start", !["reaper"] = "run"]
          /\ Goto("join", 1, {})
          /\ UNCHANGED <<shutdown, index, etagSeq, loaded, store>>
       \/ Event("tls") /\ Exit
    /\ UNCHANGED <<setup, dirs, prep>>

----------------------------------------------------------------------------
(* The threads.                                                            *)

Step(t, from, to) ==
    /\ thread[t] = from
    /\ thread' = [thread EXCEPT ![t] = to]
    /\ UNCHANGED <<setup, dirs, prep, proc, shutdown, index, etagSeq, loaded, store>>

\* A worker gets its ring, its buffers and its listener, or is gone.
StartWorker(t) == Step(t, "start", "run") \/ (Event("worker") /\ Step(t, "start", "done"))

Blocking(t) == t = "memcache" /\ setup.net = "blocking"

ShutdownMissed(t) == Blocking(t) /\ shutdown

ShutdownSeen(t) == shutdown

\* A worker or the reaper sees the flag.  A loop first drains its connections,
\* for no longer than shutdown_grace_ms.
SeeShutdown(t) ==
    /\ ShutdownSeen(t)
    /\ Step(t, "run", IF Blocking(t) \/ t = "reaper" THEN "done" ELSE "drain")

\* Connections that outlast the drain are destroyed, and their stores with them.
Drained(t) ==
    /\ thread[t] = "drain"
    /\ thread' = [thread EXCEPT ![t] = "done"]
    /\ IF t = "memcache" THEN DiscardStore ELSE UNCHANGED <<dirs, store>>
    /\ UNCHANGED <<setup, prep, proc, shutdown, index, etagSeq, loaded>>

\* worker_loop tests the flag, waits for a client for 200 ms and accepts one;
\* an error other than EINTR ends the worker.
Poll == Blocking("memcache") /\ ~shutdown /\ Step("memcache", "run", "poll")

PollTimeout == Step("memcache", "poll", "run")

Accept ==
    \/ Step("memcache", "poll", "client")
    \/ Event("accept") /\ Step("memcache", "poll", "done")

\* handle_conn executes the client's commands until the client leaves or a
\* socket operation times out.  It does not look at the flag.
Command == Step("memcache", "client", "command")

CommandDone == store = Nothing /\ Step("memcache", "command", "client")

ClientGone == Step("memcache", "client", "run")

Serving ==
    \/ thread["memcache"] \in {"drain", "command"}
    \/ thread["memcache"] = "run" /\ setup.net = "async"

\* A memcache client stores an object under a literal key.
Put ==
    /\ Serving /\ store = Nothing
    /\ etagSeq < MaxStores
    /\ \E p \in setup.puts : BeginStore(p.key, p.content, Nothing)
    /\ UNCHANGED <<setup, prep, proc, shutdown, thread, index, etagSeq, loaded>>

\* An object is deleted or evicted, with the files it has by its size.
drop_object ==
    /\ Event("drop") /\ (Serving \/ proc.pc = "source")
    /\ \E k \in DOMAIN index :
          /\ index' = [j \in DOMAIN index \ {k} |-> index[j]]
          /\ dirs' = [d \in Range(Dirs) |->
                [dirs[d] EXCEPT !.files = IF OnDisk(index[k].content) THEN @ \ {File(k, "live")}
                                          ELSE @]]
          /\ loaded' = {f \in loaded : SourceKeys[f][setup.opt] # k}
    /\ UNCHANGED <<setup, prep, proc, shutdown, thread, etagSeq, store>>

Join ==
    /\ proc.pc = "join"
    /\ \A t \in Thread : thread[t] = "done"
    /\ Exit
    /\ UNCHANGED <<setup, dirs, prep>>

\* SIGTERM or SIGINT.
on_term ==
    /\ Event("signal") /\ proc.pc # "off" /\ ~shutdown
    /\ shutdown' = TRUE
    /\ UNCHANGED <<setup, dirs, prep, proc, thread, index, etagSeq, loaded, store>>

Crash ==
    /\ Event("crash") /\ proc.pc # "off"
    /\ Exit
    /\ UNCHANGED <<setup, dirs, prep>>

----------------------------------------------------------------------------
Main == \/ wipe_pool_dir \/ RemoveEntry \/ WalkBreaksOff \/ NextDir \/ open \/ NextSource
        \/ load_file \/ serve \/ ServeTls \/ Join

Threads == \E t \in Thread : StartWorker(t) \/ SeeShutdown(t) \/ Drained(t)

FinishStore == CommitStore \/ AbandonStore

ProcessNext ==
    \/ \E d \in Range(Dirs) : prepare_pool_dir(d) \/ UserWrites(d)
    \/ WriteMarker \/ Start \/ Main \/ Threads \/ FinishStore
    \/ Poll \/ PollTimeout \/ Accept \/ Command \/ CommandDone \/ ClientGone \/ Put \/ drop_object
    \/ on_term \/ Crash

\* The scheduler runs every thread, a command ends, and so does the store of a
\* source file, which waits for no client.
ProcessFairness ==
    /\ WF_processVars(Main)
    /\ \A t \in Thread : WF_processVars(StartWorker(t) \/ SeeShutdown(t) \/ Drained(t))
    /\ WF_processVars(PollTimeout)
    /\ WF_processVars(CommandDone)
    /\ WF_processVars(proc.pc = "source" /\ FinishStore)
=============================================================================
