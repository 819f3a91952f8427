------------------------------- MODULE DiskBus -------------------------------
(***************************************************************************)
(* What both watchers (service.rs and watch.rs) see of the machine: disks  *)
(* with the interface paths Windows reports for them, the partitions their *)
(* tables list, the queue of arrival and removal notifications, and the    *)
(* drive letters.  The pure decisions of scan.rs and probe.rs, which the   *)
(* watchers share, are defined here as well.                               *)
(***************************************************************************)
EXTENDS Naturals, Sequences, FiniteSets

CONSTANTS
    Disks,          \* disk devices that may be attached
    LowerCase,      \* those whose driver spells the interface path in lower case
    Unpartitioned,  \* those without an MBR signature
    PartCount,      \* [Disks -> Nat]: how many partitions the table lists
    FsParts,        \* [Disks -> SUBSET Nat]: which of them hold our filesystem
    NLetters        \* drive letters the watcher may use: E: is 1, F: is 2, ...

ASSUME DiskBusAssumption ==
    /\ Disks # {}
    /\ LowerCase \subseteq Disks
    /\ Unpartitioned \subseteq Disks
    /\ PartCount \in [Disks -> Nat]
    /\ FsParts \in [Disks -> SUBSET Nat]
    /\ NLetters \in Nat

VARIABLES
    present,  \* disks attached to the machine
    devq      \* device notifications sent to the window, not yet dispatched

-----------------------------------------------------------------------------
(* Interface paths.  The arrival notification keeps the driver's mixed     *)
(* case, the set-up API lowers it: two strings unless the driver's own     *)
(* spelling has no upper-case letter.                                      *)

Paths == [device : Disks, spelling : {"mixed", "lower"}]

SetupPath(d)   == [device |-> d, spelling |-> "lower"]
ArrivalPath(d) == [device |-> d,
                   spelling |-> IF d \in LowerCase THEN "lower" ELSE "mixed"]

same_device_bytewise(a, b) == a = b
same_device(a, b) == a.device = b.device

\* The disks to probe among those the set-up API lists.  Its order is
\* arbitrary, so the list is a set and the watcher takes any member next.
disks_to_probe_unfiltered(listed, tracked) == listed
disks_to_probe(listed, tracked) ==
    {p \in listed : ~ \E t \in tracked : same_device(t, p)}

-----------------------------------------------------------------------------
(* Partition numbers handed to the mount: 0 means the whole disk.          *)

FirstPart(d) == IF d \in Unpartitioned THEN 0 ELSE 1
LastPart(d)  == IF d \in Unpartitioned THEN 0 ELSE PartCount[d]
FsOn(d)      == FsParts[d] \cap (FirstPart(d)..LastPart(d))

-----------------------------------------------------------------------------
(* Drive letters.                                                          *)

Letters == 1..NLetters

\* The lowest letter not in use: a singleton, or empty when none is free.
pick_drive_letter_past_Z(inUse) ==
    {l \in 1..NLetters + 1 : l \notin inUse /\ 1..l-1 \subseteq inUse}
pick_drive_letter(inUse) ==
    {l \in Letters : l \notin inUse /\ 1..l-1 \subseteq inUse}

-----------------------------------------------------------------------------
(* Disks come and go.  A notification is queued only while the watcher's   *)
(* window is registered for them.                                          *)

Notifications == [event : {"arrival", "removal"}, disk : Disks]

Notify(event, d, registered) ==
    devq' = IF registered THEN Append(devq, [event |-> event, disk |-> d]) ELSE devq

PlugIn(d, registered) ==
    /\ d \notin present
    /\ present' = present \cup {d}
    /\ Notify("arrival", d, registered)

Unplug(d, registered) ==
    /\ d \in present
    /\ present' = present \ {d}
    /\ Notify("removal", d, registered)

RemovalQueued(d) == \E i \in 1..Len(devq) : devq[i] = [event |-> "removal", disk |-> d]

DiskBusTypeOK ==
    /\ present \subseteq Disks
    /\ devq \in Seq(Notifications)
=============================================================================
