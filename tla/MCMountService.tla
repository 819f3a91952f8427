--------------------------- MODULE MCMountService ---------------------------
(***************************************************************************)
(* Small machines for TLC: a card reader whose card holds our filesystem   *)
(* on the whole device and a stick with a table.                           *)
(***************************************************************************)
EXTENDS MountService

CONSTANTS card, stick

\* One filesystem on each disk; the stick's second partition is foreign.
OneEachCount == [d \in Disks |-> IF d = stick THEN 2 ELSE 0]
OneEachFs    == [d \in Disks |-> IF d = card THEN {0} ELSE {1}]

\* The stick holds two filesystems.
TwoOnStickFs == [d \in Disks |-> IF d = card THEN {0} ELSE {1, 2}]
=============================================================================
