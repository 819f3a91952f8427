----------------------------- MODULE DeviceRead -----------------------------
(***************************************************************************)
(* device.rs: FileSource::read_at on Windows, called by several threads on *)
(* one handle.  A raw device accepts only whole sectors, so a read that is *)
(* not aligned goes through a scratch buffer over the enclosing window.    *)
(* The byte at position p of the device is p itself, so that what a buffer *)
(* holds says where it was read.                                           *)
(***************************************************************************)
EXTENDS Integers, Sequences

CONSTANTS
    Readers,    \* threads that share the FileSource
    Devices,    \* the files and devices considered: [size, sector, unit]
    Requests,   \* the reads asked for: [offset, len]
    Faults      \* {"io"} if the device may fail a call

\* sector is what reads are rounded to, unit what the device demands of a
\* transfer; a file has 1 for both.  A raw device is a whole number of either.
\* Offsets stay clear of 2^64.
ASSUME DeviceReadAssumption ==
    /\ \A d \in Devices : /\ d.size \in Nat /\ d.sector \in Nat \ {0} /\ d.unit \in Nat \ {0}
                          /\ d.size % d.sector = 0 /\ d.size % d.unit = 0
    /\ \A r \in Requests : r.offset \in Nat /\ r.len \in Nat

VARIABLES
    device,     \* size, sector and unit of the open file or device
    pc,         \* [Readers -> "idle", "read" (the loop), "done" or an error]
    req,        \* the request a reader is at work on
    start,      \* where the window starts: offset, or aligned_offset
    need,       \* how many bytes the window has
    got,        \* what the buffer, or the scratch buffer, holds so far
    buf,        \* what the caller was given
    cursor      \* the handle's file pointer: seek_read leaves it behind

vars == <<device, pc, req, start, need, got, buf, cursor>>

-----------------------------------------------------------------------------

\* x & !(sector - 1), for a sector size that is a power of two.
align_down(x) == x - (x % device.sector)

align_up_past(x) == align_down(x + device.sector)
align_up(x) == align_down(x + device.sector - 1)

\* Is the request made of whole sectors as it stands?
fast_path(q) ==
    \/ device.sector = 1
    \/ align_down(q.offset) = q.offset
         /\ align_up(q.offset + q.len) - align_down(q.offset) = q.len

Init ==
    /\ device \in Devices
    /\ pc = [r \in Readers |-> "idle"]
    /\ req \in [Readers -> Requests]
    /\ start = [r \in Readers |-> 0] /\ need = [r \in Readers |-> 0]
    /\ got = [r \in Readers |-> <<>>] /\ buf = [r \in Readers |-> <<>>]
    /\ cursor = 0

\* read_at: choose the path and the window.
ReadAt(r) ==
    /\ pc[r] = "idle"
    /\ pc' = [pc EXCEPT ![r] = "read"]
    /\ LET q == req[r]
       IN  IF fast_path(q)
           THEN start' = [start EXCEPT ![r] = q.offset] /\ need' = [need EXCEPT ![r] = q.len]
           ELSE /\ start' = [start EXCEPT ![r] = align_down(q.offset)]
                /\ need' = [need EXCEPT ![r] = align_up(q.offset + q.len) - align_down(q.offset)]
    /\ UNCHANGED <<device, req, got, buf, cursor>>

\* Where the next seek_read reads.
next_offset_from_cursor(r) == IF got[r] = <<>> THEN start[r] ELSE cursor
next_offset(r) == start[r] + Len(got[r])

\* How many bytes it asks for.
remaining_all(r) == need[r]
remaining(r) == need[r] - Len(got[r])

\* A call that is not made of whole units is refused.  Otherwise the device
\* transfers some of the bytes asked for: whole units, at least one unless it
\* is at its end.
Accepted(r) == next_offset(r) % device.unit = 0 /\ remaining(r) % device.unit = 0
Available(at, n) ==
    {k \in 1..n : at + k <= device.size /\ k % device.unit = 0}

\* One turn of the loop.
SeekRead(r) ==
    /\ pc[r] = "read" /\ Len(got[r]) < need[r] /\ Accepted(r)
    /\ \E k \in Available(next_offset(r), remaining(r)) :
        /\ got' = [got EXCEPT ![r] = @ \o [i \in 1..k |-> next_offset(r) + i - 1]]
        /\ cursor' = next_offset(r) + k
    /\ UNCHANGED <<device, pc, req, start, need, buf>>

\* seek_read returned 0 bytes.
EndOfDevice_retried(r) == FALSE
EndOfDevice(r) ==
    /\ pc[r] = "read" /\ Len(got[r]) < need[r] /\ Accepted(r)
    /\ Available(next_offset(r), remaining(r)) = {}
    /\ pc' = [pc EXCEPT ![r] = "short"]
    /\ UNCHANGED <<device, req, start, need, got, buf, cursor>>

\* seek_read failed: it was refused, or the device failed.
ReadRefused(r) ==
    /\ pc[r] = "read" /\ Len(got[r]) < need[r] /\ ~Accepted(r)
    /\ pc' = [pc EXCEPT ![r] = "error"]
    /\ UNCHANGED <<device, req, start, need, got, buf, cursor>>
ReadFails(r) ==
    /\ "io" \in Faults
    /\ pc[r] = "read" /\ Len(got[r]) < need[r]
    /\ pc' = [pc EXCEPT ![r] = "error"]
    /\ UNCHANGED <<device, req, start, need, got, buf, cursor>>

\* The loop is over: the range asked for is copied out of the window.
CopyOut(r) ==
    /\ pc[r] = "read" /\ Len(got[r]) >= need[r]
    /\ pc' = [pc EXCEPT ![r] = "done"]
    /\ LET skip == req[r].offset - start[r]
       IN  buf' = [buf EXCEPT ![r] = [i \in 1..req[r].len |-> got[r][skip + i]]]
    /\ UNCHANGED <<device, req, start, need, got, cursor>>

Step(r) ==
    ReadAt(r) \/ SeekRead(r) \/ EndOfDevice(r) \/ ReadRefused(r) \/ CopyOut(r)
Next == \E r \in Readers : Step(r) \/ ReadFails(r)

Spec == Init /\ [][Next]_vars
\* Threads run on; nothing makes a call fail.
FairSpec == Spec /\ \A r \in Readers : WF_vars(Step(r))

-----------------------------------------------------------------------------
(* Properties.                                                             *)

\* The readers' state is well typed, and no loop reads past its window.
TypeOK ==
    /\ device \in Devices
    /\ pc \in [Readers -> {"idle", "read", "short", "error", "done"}]
    /\ req \in [Readers -> Requests]
    /\ start \in [Readers -> Nat] /\ need \in [Readers -> Nat]
    /\ got \in [Readers -> Seq(Nat)]
    /\ \A r \in Readers : Len(got[r]) <= need[r]
    /\ buf \in [Readers -> Seq(Nat)]

\* A read that succeeds returns the bytes that were asked for, whichever path
\* it took, however the device cut its transfers and whatever other threads
\* read through the same handle meanwhile.
ReadReturnsRange ==
    \A r \in Readers : pc[r] = "done" =>
        buf[r] = [i \in 1..req[r].len |-> req[r].offset + i - 1]

\* Only a request that leaves the device fails for want of bytes: rounding it
\* to sectors never pushes a good one past the end.
ShortOnlyOutside ==
    \A r \in Readers : pc[r] = "short" => req[r].offset + req[r].len > device.size

\* Every read is answered.
ReadEnds == \A r \in Readers : <>(pc[r] \in {"done", "short", "error"})
=============================================================================
