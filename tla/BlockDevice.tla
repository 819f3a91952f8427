----------------------------- MODULE BlockDevice -----------------------------
(***************************************************************************)
(* device.rs and probe.rs together: one FileSource, opened read-only or    *)
(* read-write, whose handle is used by threads that read (the reads of     *)
(* DeviceRead, the probe's among them), threads that write, and flushes.   *)
(*                                                                         *)
(* A byte that was written is the pair of its writer and its place in the  *)
(* writer's buffer, so that the medium shows who put what where.  Windows  *)
(* is the model; the Unix versions are one library call each.              *)
(***************************************************************************)
EXTENDS DeviceRead

CONSTANTS
    Media,          \* what may be opened; see Medium
    Writers,        \* threads that write
    WriteRequests,  \* the writes asked for: [offset, len]
    Probes,         \* the probes: [offset, wanted], where wanted is PROBE_BYTES
    PROBE_SECTOR,
    DefaultSector,  \* 512
    Formatted,      \* where on the media a filesystem of the backend starts
    None            \* an ioctl that failed

\* A file has a length in its metadata; a raw device has none and answers the
\* two ioctls instead.  unit is what the medium demands of a transfer, whatever
\* it answers.
Medium == [len : Nat, device_len : Nat \cup {None}, bps : Nat \cup {None},
           unit : Nat \ {0}]

VARIABLES
    medium,     \* the one that is open
    writable,   \* opened by open_rw
    wpc,        \* [Writers -> "idle", "write" (the loop), "done", "flushed" or an error]
    wreq,       \* the request a writer is at work on
    total,      \* how many bytes of it are written
    content,    \* [positions -> Blank, or <<writer, index in its buffer>>]
    durable     \* what the medium held when it was last synced

writing == <<wpc, wreq, total, content, durable>>
reading == <<device, pc, req, start, need, got, buf>>
blockVars == <<vars, medium, writable, writing>>

Blank == <<>>

-----------------------------------------------------------------------------
(* Opening.                                                                *)

compute_size(m) == IF m.len > 0 THEN m.len ELSE m.device_len

IsPowerOfTwo(n) == \E k \in 0..n : n = 2^k

detect_sector_alignment_without_default(m) ==
    IF m.bps = None \/ m.bps = 0 THEN 1 ELSE m.bps
detect_sector_alignment(m) ==
    CASE m.bps = None                        -> 1
      [] m.bps # None /\ IsPowerOfTwo(m.bps)  -> m.bps
      [] m.bps # None /\ ~IsPowerOfTwo(m.bps) -> DefaultSector

\* The FileSources that open and open_rw return; an empty file is a failure.
Opened(m) == [size |-> compute_size(m), sector |-> detect_sector_alignment(m),
              unit |-> m.unit]
OpenedSources == {Opened(m) : m \in {n \in Media : compute_size(n) # None}}

\* DeviceRead reads what is opened here.
ASSUME BlockDeviceAssumption ==
    /\ Media \subseteq Medium /\ None \notin Nat
    /\ Devices = OpenedSources
    /\ PROBE_SECTOR \in Nat \ {0} /\ DefaultSector \in Nat \ {0}
    /\ \A q \in WriteRequests : q.offset \in Nat /\ q.len \in Nat
    /\ \A p \in Probes : p.offset \in Nat /\ p.wanted \in Nat \ {0}

-----------------------------------------------------------------------------
(* Probing.                                                                *)

\* wanted rounded up to whole sectors, and never less than one.
probe_len_rounded_down(wanted) ==
    IF wanted <= PROBE_SECTOR THEN PROBE_SECTOR
    ELSE (wanted \div PROBE_SECTOR) * PROBE_SECTOR
probe_len(wanted) ==
    IF wanted <= PROBE_SECTOR THEN PROBE_SECTOR
    ELSE ((wanted + PROBE_SECTOR - 1) \div PROBE_SECTOR) * PROBE_SECTOR

\* The read that detect_at makes.
Window(p) == [offset |-> p.offset, len |-> probe_len(p.wanted)]

\* A backend needs the bytes it asked for, from the start of the partition.
detect(b, wanted) == Len(b) >= wanted /\ b[1] \in Formatted

\* A read that failed is "not ours".
detect_at(r, p) == pc[r] = "done" /\ detect(buf[r], p.wanted)

-----------------------------------------------------------------------------
(* Writing.                                                                *)

\* Driver writes stay inside an image file, which therefore never grows.
BlockInit ==
    /\ Init
    /\ medium \in Media /\ compute_size(medium) # None /\ device = Opened(medium)
    /\ writable \in BOOLEAN
    /\ wpc = [w \in Writers |-> "idle"]
    /\ wreq \in [Writers -> WriteRequests]
    /\ \A w \in Writers : medium.unit = 1 => wreq[w].offset + wreq[w].len <= device.size
    /\ total = [w \in Writers |-> 0]
    /\ content = [p \in 0..device.size - 1 |-> Blank] /\ durable = content

\* write_at: a source opened read-only refuses.
WriteAt(w) ==
    /\ wpc[w] = "idle"
    /\ wpc' = [wpc EXCEPT ![w] = IF writable THEN "write" ELSE "denied"]
    /\ UNCHANGED <<vars, medium, writable, wreq, total, content, durable>>

InLoop(w) == wpc[w] = "write" /\ total[w] < wreq[w].len

\* Where the next seek_write writes, and how much it is given.
next_write_offset_from_cursor(w) == IF total[w] = 0 THEN wreq[w].offset ELSE cursor
next_write_offset(w) == wreq[w].offset + total[w]
left_all(w) == wreq[w].len
left(w) == wreq[w].len - total[w]

\* A call that is not made of whole sectors is refused.  Otherwise some of
\* the bytes are transferred, unless the device is at its end.
Accepts(w) == next_write_offset(w) % medium.unit = 0 /\ left(w) % medium.unit = 0
Room(w) == {k \in 1..left(w) : /\ next_write_offset(w) + k <= device.size
                               /\ k % medium.unit = 0}

\* One turn of the loop.
SeekWrite(w) ==
    /\ InLoop(w) /\ Accepts(w)
    /\ LET at == next_write_offset(w)
       IN  \E k \in Room(w) :
             /\ total' = [total EXCEPT ![w] = @ + k]
             /\ content' = [p \in DOMAIN content |->
                              IF p \in at..at + k - 1 THEN <<w, total[w] + p - at>>
                              ELSE content[p]]
             /\ cursor' = at + k
    /\ UNCHANGED <<reading, medium, writable, wpc, wreq, durable>>

\* seek_write returned 0 bytes.
WriteZero_ignored(w) == FALSE
WriteZero(w) ==
    /\ InLoop(w) /\ Accepts(w) /\ Room(w) = {}
    /\ wpc' = [wpc EXCEPT ![w] = "short"]
    /\ UNCHANGED <<vars, medium, writable, wreq, total, content, durable>>

\* seek_write failed: it was refused, or the medium failed.
Refused(w) ==
    /\ InLoop(w) /\ ~Accepts(w)
    /\ wpc' = [wpc EXCEPT ![w] = "error"]
    /\ UNCHANGED <<vars, medium, writable, wreq, total, content, durable>>
WriteFails(w) ==
    /\ "io" \in Faults
    /\ InLoop(w)
    /\ wpc' = [wpc EXCEPT ![w] = "error"]
    /\ UNCHANGED <<vars, medium, writable, wreq, total, content, durable>>

WriteDone(w) ==
    /\ wpc[w] = "write" /\ total[w] >= wreq[w].len
    /\ wpc' = [wpc EXCEPT ![w] = "done"]
    /\ UNCHANGED <<vars, medium, writable, wreq, total, content, durable>>

\* flush: nothing to do on a read-only source.
Flush_only_read_only(w) ==
    /\ wpc[w] \in {"done", "denied"}
    /\ wpc' = [wpc EXCEPT ![w] = "flushed"]
    /\ durable' = IF writable THEN durable ELSE content
    /\ UNCHANGED <<vars, medium, writable, wreq, total, content>>
Flush(w) ==
    /\ wpc[w] \in {"done", "denied"}
    /\ wpc' = [wpc EXCEPT ![w] = "flushed"]
    /\ durable' = IF writable THEN content ELSE durable
    /\ UNCHANGED <<vars, medium, writable, wreq, total, content>>
FlushFails(w) ==
    /\ "io" \in Faults
    /\ wpc[w] = "done"
    /\ wpc' = [wpc EXCEPT ![w] = "error"]
    /\ UNCHANGED <<vars, medium, writable, wreq, total, content, durable>>

WriterStep(w) ==
    \/ WriteAt(w) \/ SeekWrite(w) \/ WriteZero(w) \/ Refused(w)
    \/ WriteDone(w) \/ Flush(w)

BlockNext ==
    \/ Next /\ UNCHANGED <<medium, writable, writing>>
    \/ \E w \in Writers : WriterStep(w) \/ WriteFails(w) \/ FlushFails(w)

BlockSpec == BlockInit /\ [][BlockNext]_blockVars
FairBlockSpec ==
    /\ BlockSpec
    /\ \A r \in Readers : WF_blockVars(Step(r) /\ UNCHANGED <<medium, writable, writing>>)
    /\ \A w \in Writers : WF_blockVars(WriterStep(w))

-----------------------------------------------------------------------------
(* Properties.                                                             *)

\* Writers never write more than they were given, and the medium keeps its
\* size.
BlockTypeOK ==
    /\ medium \in Media /\ device = Opened(medium) /\ writable \in BOOLEAN
    /\ wpc \in [Writers -> {"idle", "write", "done", "flushed", "denied", "short", "error"}]
    /\ wreq \in [Writers -> WriteRequests]
    /\ total \in [Writers -> Nat]
    /\ \A w \in Writers : total[w] <= wreq[w].len
    /\ DOMAIN content = 0..device.size - 1 /\ DOMAIN durable = 0..device.size - 1

\* Where a writer's bytes belong.
Span(w) == wreq[w].offset .. wreq[w].offset + wreq[w].len - 1

\* A write puts every byte at its place and none elsewhere, however the
\* device cuts the transfers and whoever moves the handle's pointer between
\* them: what a medium holds is its writer's byte for that very position and
\* among those it has counted, and a write that succeeded left no gap.
WritePlacesBytes ==
    /\ \A p \in DOMAIN content : content[p] # Blank =>
          \E w \in Writers : \E i \in 0..total[w] - 1 :
              content[p] = <<w, i>> /\ p = wreq[w].offset + i
    /\ \A w \in Writers : \A i \in 0..total[w] - 1 :
          wreq[w].offset + i \in DOMAIN content /\ content[wreq[w].offset + i] # Blank
    /\ \A w \in Writers : wpc[w] = "done" => total[w] = wreq[w].len

\* A flush that succeeds after a write that succeeded has made it durable.
FlushedIsDurable ==
    \A w \in Writers : wpc[w] = "flushed" /\ writable =>
        \A p \in Span(w) : durable[p] # Blank

\* Media that read_at can serve: a file; a device that tells a sector size it
\* can be read in; and one whose answer is no sector size at all (0, or no
\* power of two), if it can be read in sectors of the default size.
Served(m) ==
    \/ m.unit = 1
    \/ m.bps # None /\ IsPowerOfTwo(m.bps) /\ m.bps % m.unit = 0
    \/ m.bps # None /\ ~IsPowerOfTwo(m.bps) /\ DefaultSector % m.unit = 0

\* Of such a medium, neither an unaligned request nor a geometry answer that
\* is no sector size makes a read fail: it accepts every call of the read
\* loop, those after a transfer that was cut short among them.
MediumAcceptsReads ==
    Served(medium) =>
        \A r \in Readers : (pc[r] = "read" /\ remaining(r) > 0) => Accepted(r)

\* A probe that the medium does not fail finds the filesystem that starts at
\* its partition, unless the window leaves the device, and finds no other.
ProbeAnswers ==
    \A r \in Readers, p \in Probes :
        (req[r] = Window(p) /\ pc[r] \in {"done", "short"}) =>
            (detect_at(r, p) <=> /\ p.offset \in Formatted
                                 /\ p.offset + probe_len(p.wanted) <= device.size)

\* Every write ends.
WriteEnds == \A w \in Writers : <>(wpc[w] \in {"flushed", "short", "error"})
=============================================================================
