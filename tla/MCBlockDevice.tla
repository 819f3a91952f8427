---------------------------- MODULE MCBlockDevice ----------------------------
(* An image file of four bytes, an empty file, which does not open, and raw *)
(* devices: one that tells its sector size; one that answers 0 and one that *)
(* answers an odd size, both of sectors of the default size; and two that   *)
(* cannot be read whatever they are asked: one of odd sectors, and one that *)
(* answers the ioctl for its length and not the one for its geometry.       *)
EXTENDS BlockDevice

CONSTANTS r1, w1, w2

TestMedia == {[len |-> 4, device_len |-> None, bps |-> None, unit |-> 1],
              [len |-> 0, device_len |-> None, bps |-> None, unit |-> 1],
              [len |-> 0, device_len |-> 4, bps |-> 0, unit |-> 2],
              [len |-> 0, device_len |-> 6, bps |-> 3, unit |-> 2],
              [len |-> 0, device_len |-> 6, bps |-> 3, unit |-> 3],
              [len |-> 0, device_len |-> 4, bps |-> None, unit |-> 2],
              [len |-> 0, device_len |-> 8, bps |-> 4, unit |-> 4]}

\* Probes inside the device and beyond its end, of backends that ask for less
\* than a unit and for a little more than one.
TestProbes == {[offset |-> 0, wanted |-> 1], [offset |-> 4, wanted |-> 1],
               [offset |-> 0, wanted |-> 5]}

\* Requests that begin and end inside sectors, at their edges, at the end of
\* the device and beyond it.
TestRequests == [offset : {0, 1, 3}, len : {1, 3}]
                  \cup {Window(p) : p \in TestProbes}

\* Writes that overlap, that are not aligned, and that leave a raw device.
TestWrites == {[offset |-> 0, len |-> 4], [offset |-> 1, len |-> 2],
               [offset |-> 4, len |-> 8]}
=============================================================================
