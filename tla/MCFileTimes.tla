----------------------------- MODULE MCFileTimes -----------------------------
(***************************************************************************)
(* A calendar of 32 ticks, four to the second and two nanoseconds each,    *)
(* with 1970 three seconds after 1601, so that times before 1601, before   *)
(* 1970, in the last second and beyond the last tick are all there.        *)
(***************************************************************************)
EXTENDS FileTimes

CONSTANTS ext, erofs

TestKind == [v \in Volumes |-> IF v = ext THEN "File" ELSE "Dir"]

TestStamps == {[secs |-> -9, nsec |-> 7], [secs |-> -3, nsec |-> 1], [secs |-> -1, nsec |-> 7],
               [secs |-> 5, nsec |-> 0], [secs |-> 8, nsec |-> 7]}
MinusNine == -9
=============================================================================
