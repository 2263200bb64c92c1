------------------------------ MODULE DataPath ------------------------------
(***************************************************************************)
(* The bytes of one object on their way to the drives and back: the staged *)
(* writes of StoreHandle (storage/tier_manager.cpp), the striped files     *)
(* (storage/striped_io.cpp) and the pieces that ReadStream::plan and       *)
(* plan_lane_read (net/stream_loop.cpp) read concurrently into one buffer. *)
(*                                                                         *)
(* Offsets count bytes, with a device block of a few bytes.  The byte at   *)
(* offset b of the object has value b.  The object's head stays as the     *)
(* snapshot found it; module TierManager lets it change.  Files are read   *)
(* through the page cache: Pool's move operations drop direct_io_.         *)
(***************************************************************************)
EXTENDS Layout, DrivePool, Integers, FiniteSets

CONSTANTS
    Block,      \* kDeviceBlock
    Stripe,     \* stripe_unit of both pools
    Drives,     \* drives in each pool
    Chunk,      \* io_chunk: size of a staging buffer and of a read buffer
    ObjectSizes,
    KeyHashes,  \* Digest::bucket()
    Starts      \* where a read may start: 0, or the first byte of an HTTP range

\* validate() of common/config.cpp.
ASSUME PathConfig ==
    /\ Block \in Nat \ {0}
    /\ RamHead % Block = 0 /\ SsdPrefix % Block = 0
    /\ Stripe \in Nat \ {0} /\ Stripe % Block = 0
    /\ Chunk \in Nat \ {0} /\ Chunk % Block = 0
    /\ Drives \in Nat \ {0}
    /\ ObjectSizes \subseteq Nat /\ KeyHashes \subseteq Nat /\ Starts \subseteq Nat

VARIABLES
    obj,      \* the object: size, key hash, and whether its head is resident
    phase,    \* writing, stored, reading, piece (reads submitted), failed
    off,      \* bytes the client has sent
    flushed,  \* bytes flushed to disk; [flushed, off) is in the staging buffer
    disk,     \* what the files hold: tier, drive, file offset -> byte
    pos, end, \* the bytes still to be read
    buf,      \* the read buffer
    reads,    \* submitted reads of the current piece
    sent      \* bytes sent to the client: object offset -> byte

vars == <<obj, phase, off, flushed, disk, pos, end, buf, reads, sent>>

Pad == -1   \* zero padding of the last block

Junk == -2  \* whatever the buffer held before

align_up(v, a) == ((v + a - 1) \div a) * a

layout == compute_layout(obj.size)

TierBytes(tier) == IF tier = "ssd" THEN layout.ssd_bytes ELSE layout.hdd_bytes

fds_rounding_down(tier) ==
    {drive_of(Drives, Stripe, obj.hash, c * Stripe) :
        c \in {i \in 0..(Drives - 1) : i < TierBytes(tier) \div Stripe}}

\* The drives open_object opened a file on.
fds(tier) ==
    {drive_of(Drives, Stripe, obj.hash, c * Stripe) :
        c \in {i \in 0..(Drives - 1) : i < files_used(Drives, Stripe, TierBytes(tier))}}

----------------------------------------------------------------------------
Init ==
    /\ obj \in [size: ObjectSizes, hash: KeyHashes, resident: BOOLEAN]
    /\ phase = "writing"
    /\ off = 0 /\ flushed = 0
    /\ disk = <<>>
    /\ pos = 0 /\ end = 0
    /\ buf = [i \in 0..(Chunk - 1) |-> Junk]
    /\ reads = {}
    /\ sent = <<>>

\* The extents of striped_pwrite: bytes [o, o+len) of a tier, the first of
\* them being byte b of the object, as file positions and object bytes.
Extents(tier, o, len, b) ==
    LET segs == plan_reads(Drives, Stripe, obj.hash, o, len)
    IN UNION {{[at |-> <<tier, segs[i].drive, segs[i].file_offset + j>>,
                byte |-> b + (SegStart(Stripe, o, i - 1) - o) + j] :
                    j \in 0..(segs[i].length - 1)} : i \in DOMAIN segs}

\* flush_block of the n staged bytes at disk offset flushed, the last of them
\* padding: the SSD part up to its extent, the rest on the HDD pool.
flush_block(n) ==
    LET o == flushed
        ssd_extent == IF layout.hdd_bytes > 0 THEN layout.ssd_bytes
                      ELSE align_up(layout.ssd_bytes, Block)
        ssd_stop == Lesser(o + n, ssd_extent)
        begin == IF o < layout.ssd_bytes THEN layout.ssd_bytes ELSE o
    IN (IF o < ssd_stop THEN Extents("ssd", o, ssd_stop - o, o) ELSE {})
       \cup
       (IF o + n > layout.ssd_bytes /\ layout.hdd_bytes > 0
        THEN Extents("hdd", begin - layout.ssd_bytes, o + n - begin, begin) ELSE {})

Written(X) ==
    [p \in DOMAIN disk \cup {x.at : x \in X} |->
        IF \E x \in X : x.at = p
        THEN LET x == CHOOSE y \in X : y.at = p
             IN IF x.byte < obj.size THEN x.byte ELSE Pad
        ELSE disk[p]]

\* A write through a drive that open_object did not open fails.
Flush(n) ==
    LET X == flush_block(n)
    IN IF \A x \in X : x.at[2] \in fds(x.at[1])
       THEN disk' = Written(X) /\ flushed' = flushed + n
       ELSE UNCHANGED <<disk, flushed>>

Fails(n) == \E x \in flush_block(n) : x.at[2] \notin fds(x.at[1])

\* Whether n more bytes fill the staging buffer.
Full(n) == off + n - flushed >= Chunk

\* write appends n bytes, at most a buffer full, and flushes a full buffer.  A
\* RAM-only object stages nothing.
write(n) ==
    /\ phase = "writing"
    /\ off + n <= obj.size
    /\ off' = off + n
    /\ IF RamOnly(obj.size)
       THEN flushed' = flushed + n /\ UNCHANGED <<disk, phase>>
       ELSE IF Full(n)
       THEN Flush(Chunk) /\ phase' = IF Fails(Chunk) THEN "failed" ELSE phase
       ELSE UNCHANGED <<flushed, disk, phase>>
    /\ UNCHANGED <<obj, pos, end, buf, reads, sent>>

\* commit flushes the last, padded block and publishes.
commit ==
    /\ phase = "writing"
    /\ off = obj.size
    /\ LET padded == align_up(off - flushed, Block)
       IN IF off > flushed
          THEN Flush(padded) /\ phase' = IF Fails(padded) THEN "failed" ELSE "stored"
          ELSE phase' = "stored" /\ UNCHANGED <<disk, flushed>>
    /\ UNCHANGED <<obj, off, pos, end, buf, reads, sent>>

----------------------------------------------------------------------------
HeadEnd == IF obj.resident \/ RamOnly(obj.size) THEN layout.ram_head_bytes ELSE 0

\* A request for [start, stop): the head part is sent from RAM, the rest is
\* read from disk.
begin_get(start, stop) ==
    /\ phase = "stored"
    /\ phase' = "reading"
    /\ pos' = IF start < HeadEnd THEN Lesser(HeadEnd, stop) ELSE start
    /\ end' = stop
    /\ sent' = [b \in start..(pos' - 1) |-> b]
    /\ UNCHANGED <<obj, off, flushed, disk, buf, reads>>

\* add_drive_segs: the reads of tier bytes [o, o+len) into the buffer at base.
Segs(tier, o, len, base) ==
    LET segs == plan_reads(Drives, Stripe, obj.hash, o, len)
    IN {[tier |-> tier, drive |-> segs[i].drive, file_off |-> segs[i].file_offset,
         len |-> segs[i].length, out_off |-> base + SegStart(Stripe, o, i - 1) - o] :
            i \in DOMAIN segs}

plan_from_zero(o, want) ==
    LET stop == Lesser(o + want, layout.ssd_bytes)
        begin == IF o < layout.ssd_bytes THEN layout.ssd_bytes ELSE o
    IN (IF o < stop THEN Segs("ssd", o, stop - o, 0) ELSE {})
       \cup
       (IF layout.hdd_bytes > 0 /\ o + want > layout.ssd_bytes
        THEN Segs("hdd", begin - layout.ssd_bytes, o + want - begin, 0) ELSE {})

\* ReadStream::plan beyond the resident head.
plan(o, want) ==
    LET stop == Lesser(o + want, layout.ssd_bytes)
        begin == IF o < layout.ssd_bytes THEN layout.ssd_bytes ELSE o
    IN (IF o < stop THEN Segs("ssd", o, stop - o, 0) ELSE {})
       \cup
       (IF layout.hdd_bytes > 0 /\ o + want > layout.ssd_bytes
        THEN Segs("hdd", begin - layout.ssd_bytes, o + want - begin, begin - o) ELSE {})

Want == Lesser(Chunk, end - pos)

\* plan_lane_read submits the reads of the next piece, their lengths rounded
\* up to device blocks.
plan_lane_read ==
    /\ phase = "reading"
    /\ reads = {} /\ pos < end
    /\ reads' = {[s EXCEPT !.len = Lesser(align_up(s.len, Block), Chunk - s.out_off)] :
                    s \in plan(pos, Want)}
    /\ phase' = "piece"
    /\ UNCHANGED <<obj, off, flushed, disk, pos, end, buf, sent>>

\* The kernel completes one of the submitted reads, in any order.  Past the
\* end of the file it delivers nothing; an empty read aborts the value.
on_read(s) ==
    /\ phase = "piece"
    /\ s \in reads
    /\ reads' = reads \ {s}
    /\ LET At(j) == <<s.tier, s.drive, s.file_off + j>>
       IN /\ buf' = [i \in 0..(Chunk - 1) |->
                        IF i \in s.out_off..(s.out_off + s.len - 1)
                           /\ At(i - s.out_off) \in DOMAIN disk
                        THEN disk[At(i - s.out_off)] ELSE buf[i]]
          /\ phase' = IF At(0) \in DOMAIN disk THEN phase ELSE "failed"
    /\ UNCHANGED <<obj, off, flushed, disk, pos, end, sent>>

\* The piece is complete and goes out.
SendPiece ==
    /\ phase = "piece" /\ reads = {}
    /\ sent' = [b \in DOMAIN sent \cup pos..(pos + Want - 1) |->
                    IF b >= pos THEN buf[b - pos] ELSE sent[b]]
    /\ pos' = pos + Want
    /\ phase' = "reading"
    /\ UNCHANGED <<obj, off, flushed, disk, end, buf, reads>>

Finished == phase = "reading" /\ pos >= end /\ UNCHANGED vars

Next ==
    \/ \E n \in 1..Chunk : write(n)
    \/ commit
    \/ \E start \in Starts, stop \in 0..obj.size : start <= stop /\ begin_get(start, stop)
    \/ plan_lane_read
    \/ \E s \in reads : on_read(s)
    \/ SendPiece
    \/ Finished

Spec == Init /\ [][Next]_vars

----------------------------------------------------------------------------
\* The bytes sent for a request are the object's, in whatever pieces it was
\* written, over however many drives it is striped, and in whatever order the
\* kernel completes the reads of a piece.
ServedExact == \A b \in DOMAIN sent : sent[b] = b

\* No write or read goes to a drive on which the object has no file, and no
\* read starts past the end of a file.
FilesSuffice == phase # "failed"

\* "consecutive chunks -> consecutive drives" (storage/drive_pool.hpp).
ConsecutiveDrives ==
    \A c \in 0..(obj.size \div Stripe) :
        drive_of(Drives, Stripe, obj.hash, (c + 1) * Stripe)
            = (drive_of(Drives, Stripe, obj.hash, c * Stripe) + 1) % Drives
=============================================================================
