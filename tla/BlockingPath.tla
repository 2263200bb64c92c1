---------------------------- MODULE BlockingPath ----------------------------
(***************************************************************************)
(* The second way of DataPath's bytes to a client: stream_value of the     *)
(* blocking server (protocol/memcache/server.cpp) calls TierManager::read  *)
(* chunk by chunk, which copies the head and waits in striped_read         *)
(* (storage/striped_io.cpp) for the reads of one tier and then the other.  *)
(*                                                                         *)
(* A worker keeps its ring (core/reactor.cpp) and its buffer from one      *)
(* client to the next.  striped_read takes completions as they come: they  *)
(* carry no identity.                                                      *)
(***************************************************************************)
EXTENDS DataPath, SequencesExt

CONSTANTS
    Faults,   \* "read": a read may fail; "signal": a wait may be interrupted
    MaxGets   \* bound: values the worker streams

ASSUME BlockingConfig == Faults \subseteq {"read", "signal"} /\ MaxGets \in Nat

\* The worker: values streamed, reads the kernel holds and which value they
\* are for, the completion queue, striped_read's n and got, and how many
\* completions it waits for.
VARIABLE worker

BlockingInit ==
    /\ Init
    /\ worker = [gets |-> 0, reads |-> {}, cq |-> <<>>, n |-> 0, got |-> 0, wait |-> 0]

stream_value ==
    /\ phase = "stored" /\ worker.gets < MaxGets
    /\ phase' = "chunk"
    /\ pos' = 0 /\ end' = obj.size
    /\ sent' = <<>>
    /\ worker' = [worker EXCEPT !.gets = @ + 1]
    /\ UNCHANGED <<obj, off, flushed, disk, buf, reads>>

\* The part of the chunk that a tier has: from begin to stop, rounded up to
\* device blocks as far as the buffer goes.
Part(tier, begin, stop) ==
    LET room == Lesser(align_up(stop - begin, Block), Want - (begin - pos))
    IN IF begin >= stop THEN {}
       ELSE Segs(tier, IF tier = "ssd" THEN begin ELSE begin - layout.ssd_bytes, room, begin - pos)

Larger(a, b) == IF a >= b THEN a ELSE b

SsdPart == Part("ssd", Larger(pos, HeadEnd), Lesser(pos + Want, layout.ssd_bytes))

HddPart == IF layout.hdd_bytes = 0 THEN {}
           ELSE Part("hdd", Larger(pos, layout.ssd_bytes), pos + Want)

\* striped_read queues its reads and waits for all of them.
Submit(segs) ==
    worker' = [worker EXCEPT !.reads = @ \cup {[seg |-> s, get |-> worker.gets] : s \in segs},
                             !.n = Cardinality(segs), !.got = 0, !.wait = Cardinality(segs)]

\* TierManager::read of the next chunk: the head, then the SSD part ...
read ==
    /\ phase = "chunk" /\ pos < end
    /\ buf' = [i \in 0..(Chunk - 1) |-> IF i < Want /\ pos + i < HeadEnd THEN pos + i ELSE buf[i]]
    /\ Submit(SsdPart)
    /\ phase' = "ssd"
    /\ UNCHANGED <<obj, off, flushed, disk, pos, end, reads, sent>>

AllReaped == worker.got >= worker.n

\* ... then the HDD part.
ReadHdd ==
    /\ phase = "ssd" /\ AllReaped
    /\ Submit(HddPart)
    /\ phase' = "hdd"
    /\ UNCHANGED <<obj, off, flushed, disk, pos, end, buf, reads, sent>>

\* The kernel completes a read, or fails it; a drive without a file fails.
Complete(r) ==
    LET s == r.seg
        At(i) == <<s.tier, s.drive, s.file_off + (i - s.out_off)>>
        InSlice(i) == i \in s.out_off..(s.out_off + s.len - 1)
        done(ok) == worker' = [worker EXCEPT !.reads = @ \ {r}, !.cq = Append(@, ok)]
    IN /\ \/ /\ s.drive \in fds(s.tier)
             /\ buf' = [i \in 0..(Chunk - 1) |->
                           IF InSlice(i) /\ At(i) \in DOMAIN disk THEN disk[At(i)] ELSE buf[i]]
             /\ done(TRUE)
          \/ /\ "read" \in Faults \/ s.drive \notin fds(s.tier)
             /\ done(FALSE)
             /\ UNCHANGED buf
       /\ UNCHANGED <<obj, phase, off, flushed, disk, pos, end, reads, sent>>

\* reap takes what is there after the wait, n at most.  A failure ends the value
\* and the connection at once; the worker goes on with the next client.
reap ==
    /\ phase \in {"ssd", "hdd"} /\ ~AllReaped
    /\ worker.cq # <<>>
    /\ Len(worker.cq) >= worker.wait \/ "signal" \in Faults
    /\ LET r == Lesser(Len(worker.cq), worker.n)
       IN /\ worker' = [worker EXCEPT !.cq = SubSeq(@, r + 1, Len(@)), !.got = @ + r, !.wait = 1]
          /\ phase' = IF Contains(SubSeq(worker.cq, 1, r), FALSE) THEN "stored" ELSE phase
    /\ UNCHANGED <<obj, off, flushed, disk, pos, end, buf, reads, sent>>

\* send_all of the chunk.
SendChunk ==
    /\ phase = "hdd" /\ AllReaped
    /\ sent' = [b \in DOMAIN sent \cup pos..(pos + Want - 1) |->
                    IF b >= pos THEN buf[b - pos] ELSE sent[b]]
    /\ pos' = pos + Want
    /\ phase' = "chunk"
    /\ UNCHANGED <<obj, off, flushed, disk, end, buf, reads, worker>>

\* The value is out; the client sends its next command.
ValueSent ==
    /\ phase = "chunk" /\ pos >= end
    /\ phase' = "stored"
    /\ UNCHANGED <<obj, off, flushed, disk, pos, end, buf, reads, sent, worker>>

Served == phase = "stored" /\ worker.gets = MaxGets /\ UNCHANGED <<vars, worker>>

\* A process has this server or the event loops.
BlockingNext ==
    \/ stream_value \/ read \/ ReadHdd \/ reap \/ SendChunk \/ ValueSent
    \/ \E r \in worker.reads : Complete(r)
    \/ Served
    \/ worker.gets = 0 /\ Next /\ UNCHANGED worker

BlockingSpec == BlockingInit /\ [][BlockingNext]_<<vars, worker>>
=============================================================================
