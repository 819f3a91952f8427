------------------------------ MODULE MCWatcher ------------------------------
(***************************************************************************)
(* Small machines for TLC: a card that is all filesystem and a stick with  *)
(* a table, whose second partition holds our filesystem or does not.       *)
(***************************************************************************)
EXTENDS Watcher

CONSTANTS card, stick

Count        == [d \in Disks |-> IF d = stick THEN 2 ELSE 0]
OneEachFs    == [d \in Disks |-> IF d = card THEN {0} ELSE {1}]
TwoOnStickFs == [d \in Disks |-> IF d = card THEN {0} ELSE {1, 2}]
=============================================================================
