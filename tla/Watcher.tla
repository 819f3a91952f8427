------------------------------- MODULE Watcher -------------------------------
(***************************************************************************)
(* The foreground watcher of watch.rs.  It probes disks as the service     *)
(* does, but mounts are its own child processes, there is no console       *)
(* session to wait for, and it is ended by Ctrl-C: a handler thread sets   *)
(* the flag under the mutex and posts WM_QUIT to the pump thread, which    *)
(* has a message queue only once it has made its first window call.        *)
(***************************************************************************)
EXTENDS DiskBus

CONSTANTS
    Env,        \* what the environment may do: see the last section
    Faults,     \* which calls of the watcher may fail
    MaxEvents   \* bound on the number of environment events

ASSUME WatcherAssumption == MaxEvents \in Nat

VARIABLES
    pc,             \* where the pump thread is
    mounts,         \* State.mounts, each entry with the id of its child
    shutting_down,  \* State.shutting_down
    tracked,        \* rescan: the paths that held a mount at its snapshot
    todo,           \* paths handle_arrival is still to be called with
    path,           \* disk_path of the arrival or removal at work
    part,           \* the partition number reached
    letter,         \* the drive letter picked
    stops,          \* entries taken out of the map, still to be killed
    signals,        \* Ctrl-C events the handler has not begun with
    handler,        \* where the Ctrl-C handler is
    quits,          \* WM_QUIT messages in the pump thread's queue
    children,       \* mount processes that run
    ready,          \* ids of those whose drive has appeared
    foreign,        \* letters held by other programs
    events          \* environment events so far (bounded by MaxEvents)

locals  == <<tracked, todo, part, letter>>
ctrlc   == <<signals, handler, quits>>
machine == <<present, devq, foreign, events>>
run     == <<children, ready>>
vars    == <<pc, mounts, shutting_down, stops, locals, path, ctrlc, machine, run>>

-----------------------------------------------------------------------------

Entry == [path : Paths, part : Nat, letter : Letters, child : Nat]
Child == [id : Nat, disk : Disks, part : Nat, letter : Letters]

\* HashMap::insert: an entry with the same key is replaced, and its Child
\* dropped, which neither kills the process nor waits for it.
Insert(ms, e) == {m \in ms : <<m.path, m.part>> # <<e.path, e.part>>} \cup {e}

EntriesOf(p) == {m \in mounts : same_device(m.path, p)}

\* Letters GetLogicalDrives reports.
InUse == foreign \cup {c.letter : c \in {k \in children : k.id \in ready}}

\* The id of a new child: one no process and no handle has.
NewId == LET used == {c.id : c \in children} \cup {m.child : m \in mounts \cup stops}
         IN  CHOOSE n \in 0..Cardinality(used) : n \notin used

Registered_after_scan ==
    /\ pc \notin {"open", "register", "snapshot", "enumerate", "drain", "stopped"}
    /\ \A p \in todo : p.spelling = "mixed"
Registered == pc \notin {"open", "register", "drain", "stopped"}

\* The mutex is held while handle_removal kills and waits; the other places
\* that lock it hold it for the step that reads or writes the state.
LockHeld_over_the_pump == Registered
LockHeld == pc = "unmount"

Init ==
    /\ pc = "open"
    /\ mounts = {} /\ shutting_down = FALSE /\ stops = {}
    /\ tracked = {} /\ todo = {} /\ path = (CHOOSE p \in Paths : TRUE)
    /\ part = 0 /\ letter = 0
    /\ signals = 0 /\ handler = "idle" /\ quits = 0
    /\ present \in SUBSET Disks /\ devq = <<>>
    /\ children = {} /\ ready = {} /\ foreign = {}
    /\ events = 0

-----------------------------------------------------------------------------
(* Start-up.  The Ctrl-C handler is already installed.                     *)

\* Registering the window class is the thread's first window call: from here
\* on it has a message queue.
OpenWindow ==
    /\ pc = "open"
    /\ \/ pc' = "register"
       \/ "open" \in Faults /\ pc' = "stopped"
    /\ UNCHANGED <<mounts, shutting_down, stops, locals, path, ctrlc, machine, run>>

RegisterNotifications ==
    /\ pc = "register"
    /\ \/ pc' = "snapshot"
       \/ "open" \in Faults /\ pc' = "stopped"
    /\ UNCHANGED <<mounts, shutting_down, stops, locals, path, ctrlc, machine, run>>

-----------------------------------------------------------------------------
(* rescan (once, at start) and handle_arrival.                             *)

RescanSnapshot ==
    /\ pc = "snapshot"
    /\ IF shutting_down
       THEN pc' = "get" /\ UNCHANGED tracked
       ELSE pc' = "enumerate" /\ tracked' = {m.path : m \in mounts}
    /\ UNCHANGED <<mounts, shutting_down, stops, todo, path, part, letter,
                   ctrlc, machine, run>>

Listings ==
    LET all == {SetupPath(d) : d \in present}
    IN  IF "detail" \in Faults THEN SUBSET all ELSE {all}

RescanEnumerate ==
    /\ pc = "enumerate"
    /\ \/ \E listed \in Listings :
            pc' = "next" /\ todo' = disks_to_probe(listed, tracked)
       \/ "enumerate" \in Faults /\ pc' = "get" /\ UNCHANGED todo
    /\ tracked' = {}
    /\ UNCHANGED <<mounts, shutting_down, stops, path, part, letter, ctrlc, machine, run>>

ArrivalGate ==
    /\ pc = "next"
    /\ \E p \in todo :
        /\ todo' = todo \ {p}
        /\ IF shutting_down
           THEN UNCHANGED <<pc, path>>
           ELSE pc' = "list" /\ path' = p
    /\ UNCHANGED <<mounts, shutting_down, stops, tracked, part, letter, ctrlc, machine, run>>

ArrivalsDone ==
    /\ pc = "next" /\ todo = {}
    /\ pc' = "get"
    /\ UNCHANGED <<mounts, shutting_down, stops, locals, path, ctrlc, machine, run>>

ListPartitions ==
    /\ pc = "list"
    /\ \/ /\ path.device \in present
          /\ pc' = "probe" /\ part' = FirstPart(path.device)
       \/ /\ path.device \notin present \/ "list" \in Faults
          /\ pc' = "next" /\ UNCHANGED part
    /\ UNCHANGED <<mounts, shutting_down, stops, tracked, todo, path, letter,
                   ctrlc, machine, run>>

ProbePartition ==
    /\ pc = "probe" /\ part <= LastPart(path.device)
    /\ \/ /\ path.device \in present /\ part \in FsOn(path.device)
          /\ pc' = "pick" /\ UNCHANGED part
       \/ /\ \/ path.device \notin present
             \/ part \notin FsOn(path.device)
             \/ "probe" \in Faults
          /\ part' = part + 1 /\ UNCHANGED pc
    /\ UNCHANGED <<mounts, shutting_down, stops, tracked, todo, path, letter,
                   ctrlc, machine, run>>

PartitionsDone ==
    /\ pc = "probe" /\ part > LastPart(path.device)
    /\ pc' = "next"
    /\ UNCHANGED <<mounts, shutting_down, stops, locals, path, ctrlc, machine, run>>

-----------------------------------------------------------------------------
(* spawn_partition_mount.                                                  *)

PickLetter ==
    /\ pc = "pick"
    /\ LET free == pick_drive_letter(InUse)
       IN  \/ letter' \in free /\ pc' = "spawn" /\ UNCHANGED part
           \/ /\ free = {} \/ "exe" \in Faults
              /\ pc' = "probe" /\ part' = part + 1 /\ UNCHANGED letter
    /\ UNCHANGED <<mounts, shutting_down, stops, tracked, todo, path, ctrlc, machine, run>>

\* spawn returns when the process exists; under "slow" its drive appears
\* later.
SpawnMount ==
    /\ pc = "spawn"
    /\ \/ /\ children' = children \cup
                 {[id |-> NewId, disk |-> path.device, part |-> part, letter |-> letter]}
          /\ ready' = IF "slow" \in Env \/ letter \in InUse THEN ready ELSE ready \cup {NewId}
          /\ mounts' = Insert(mounts, [path |-> path, part |-> part,
                                       letter |-> letter, child |-> NewId])
       \/ "spawn" \in Faults /\ UNCHANGED <<mounts, run>>
    /\ pc' = "probe" /\ part' = part + 1
    /\ UNCHANGED <<shutting_down, stops, tracked, todo, path, letter, ctrlc, machine>>

-----------------------------------------------------------------------------
(* Messages.                                                               *)

HandleArrival ==
    /\ pc = "get" /\ devq # <<>> /\ Head(devq).event = "arrival"
    /\ devq' = Tail(devq)
    /\ pc' = "next" /\ todo' = {ArrivalPath(Head(devq).disk)}
    /\ UNCHANGED <<mounts, shutting_down, stops, tracked, path, part, letter, ctrlc,
                   present, foreign, events, run>>

HandleRemoval ==
    /\ pc = "get" /\ devq # <<>> /\ Head(devq).event = "removal"
    /\ devq' = Tail(devq)
    /\ path' = ArrivalPath(Head(devq).disk)
    /\ stops' = EntriesOf(path') /\ mounts' = mounts \ EntriesOf(path')
    /\ pc' = "unmount"
    /\ UNCHANGED <<shutting_down, locals, ctrlc, present, foreign, events, run>>

HandleQuit ==
    /\ pc = "get"
    /\ \/ quits > 0 /\ quits' = quits - 1
       \/ "getmessage" \in Faults /\ UNCHANGED quits
    /\ pc' = "teardown"
    /\ UNCHANGED <<mounts, shutting_down, stops, locals, path, signals, handler,
                   machine, run>>

-----------------------------------------------------------------------------
(* Killing children, after a removal and at the end.                       *)

\* kill, then wait: the process is gone.
KillChild ==
    /\ pc \in {"unmount", "drain"}
    /\ \E s \in stops :
        /\ stops' = stops \ {s}
        /\ children' = {c \in children : c.id # s.child}
        /\ ready' = ready \ {s.child}
    /\ UNCHANGED <<pc, mounts, shutting_down, locals, path, ctrlc, machine>>

RemovalDone ==
    /\ pc = "unmount" /\ stops = {}
    /\ pc' = "get"
    /\ UNCHANGED <<mounts, shutting_down, stops, locals, path, ctrlc, machine, run>>

TearDown_without_drain ==
    /\ pc = "teardown"
    /\ devq' = <<>>
    /\ shutting_down' = TRUE
    /\ stops' = {} /\ mounts' = {}
    /\ pc' = "drain"
    /\ UNCHANGED <<locals, path, ctrlc, present, foreign, events, run>>
TearDown ==
    /\ pc = "teardown"
    /\ devq' = <<>>
    /\ shutting_down' = TRUE
    /\ stops' = mounts /\ mounts' = {}
    /\ pc' = "drain"
    /\ UNCHANGED <<locals, path, ctrlc, present, foreign, events, run>>

Exit ==
    /\ pc = "drain" /\ stops = {}
    /\ pc' = "stopped"
    /\ UNCHANGED <<mounts, shutting_down, stops, locals, path, ctrlc, machine, run>>

-----------------------------------------------------------------------------
(* The Ctrl-C handler's thread.                                            *)

SetFlag ==
    /\ handler = "idle" /\ signals > 0 /\ ~LockHeld
    /\ signals' = signals - 1
    /\ shutting_down' = TRUE /\ handler' = "post"
    /\ UNCHANGED <<pc, mounts, stops, locals, path, quits, machine, run>>

\* PostThreadMessage fails, unnoticed, while the thread has no queue.
PostQuit ==
    /\ handler = "post"
    /\ handler' = "idle"
    /\ quits' = IF pc # "open" THEN quits + 1 ELSE quits
    /\ UNCHANGED <<pc, mounts, shutting_down, stops, locals, path, signals, machine, run>>

-----------------------------------------------------------------------------
(* The machine.                                                            *)

Event(kind) == kind \in Env /\ events < MaxEvents /\ events' = events + 1

DiskEvent ==
    /\ Event("disk")
    /\ \E d \in Disks : PlugIn(d, Registered) \/ Unplug(d, Registered)
    /\ UNCHANGED <<pc, mounts, shutting_down, stops, locals, path, ctrlc, foreign, run>>

CtrlC ==
    /\ Event("ctrlc")
    /\ pc # "stopped" /\ signals' = signals + 1
    /\ UNCHANGED <<pc, mounts, shutting_down, stops, locals, path, handler, quits,
                   present, devq, foreign, run>>

\* A mount's drive appears ...
ChildReady ==
    /\ \E c \in children :
        /\ c.disk \in present /\ c.id \notin ready /\ c.letter \notin InUse
        /\ ready' = ready \cup {c.id}
    /\ UNCHANGED <<pc, mounts, shutting_down, stops, locals, path, ctrlc, machine, children>>

\* ... or cannot, its letter being taken, and the process ends ...
ChildFails ==
    /\ \E c \in children :
        /\ c.id \notin ready /\ c.letter \in InUse
        /\ children' = children \ {c}
    /\ UNCHANGED <<pc, mounts, shutting_down, stops, locals, path, ctrlc, machine, ready>>

\* ... or it ends by itself later on.
ChildExits ==
    /\ Event("exit")
    /\ \E c \in children : children' = children \ {c} /\ ready' = ready \ {c.id}
    /\ UNCHANGED <<pc, mounts, shutting_down, stops, locals, path, ctrlc,
                   present, devq, foreign>>

OtherProgramLetter ==
    /\ Event("letter")
    /\ \E l \in Letters :
        \/ l \notin InUse /\ foreign' = foreign \cup {l}
        \/ l \in foreign /\ foreign' = foreign \ {l}
    /\ UNCHANGED <<pc, mounts, shutting_down, stops, locals, path, ctrlc,
                   present, devq, run>>

-----------------------------------------------------------------------------

PumpThread ==
    \/ OpenWindow \/ RegisterNotifications
    \/ RescanSnapshot \/ RescanEnumerate \/ ArrivalGate \/ ArrivalsDone
    \/ ListPartitions \/ ProbePartition \/ PartitionsDone
    \/ PickLetter \/ SpawnMount
    \/ HandleArrival \/ HandleRemoval \/ HandleQuit
    \/ KillChild \/ RemovalDone \/ TearDown \/ Exit

CtrlCHandler == SetFlag \/ PostQuit

Environment ==
    \/ DiskEvent \/ CtrlC
    \/ ChildReady \/ ChildFails \/ ChildExits \/ OtherProgramLetter

Next == PumpThread \/ CtrlCHandler \/ Environment

Spec == Init /\ [][Next]_vars

\* Both threads keep running, and so do the mounts.
FairSpec == Spec /\ WF_vars(PumpThread) /\ WF_vars(CtrlCHandler)
                 /\ WF_vars(ChildReady \/ ChildFails)

-----------------------------------------------------------------------------
(* Properties.                                                             *)

\* The state of both threads and of the machine is well typed.
TypeOK ==
    /\ DiskBusTypeOK
    /\ pc \in {"open", "register", "snapshot", "enumerate", "next", "list", "probe",
               "pick", "spawn", "get", "unmount", "teardown", "drain", "stopped"}
    /\ mounts \subseteq Entry /\ stops \subseteq Entry
    /\ shutting_down \in BOOLEAN
    /\ tracked \subseteq Paths /\ todo \subseteq Paths /\ path \in Paths
    /\ part \in Nat /\ letter \in Letters \cup {0}
    /\ signals \in Nat /\ handler \in {"idle", "post"} /\ quits \in Nat
    /\ children \subseteq Child /\ ready \subseteq {c.id : c \in children}
    /\ foreign \subseteq Letters /\ events \in Nat

\* No mount outlives its disk unnoticed: while notifications are on, a disk
\* the map holds an entry of is attached, or its removal is still queued.
RemovalPending ==
    Registered => \A m \in mounts : m.path.device \in present \/ RemovalQueued(m.path.device)

\* Every mount process is held by a handle the watcher will kill: Ctrl-C in
\* the middle of a scan, or a removal in the middle of a mount, leaves no
\* process behind.  Claimed for disks spelled in mixed case.
NoOrphanChild ==
    \A c \in children : c.disk \notin LowerCase =>
        \E m \in mounts \cup stops : m.child = c.id

\* When both threads are idle and nothing is queued, every filesystem on
\* every attached disk is in the map: registration, the start-up scan and
\* the arrivals between them lose no disk.
Idle == pc = "get" /\ devq = <<>> /\ quits = 0 /\ signals = 0 /\ handler = "idle"
EveryDiskServed ==
    (Idle /\ ~shutting_down) =>
        \A d \in present : \A n \in FsOn(d) :
            \E m \in mounts : m.path.device = d /\ m.part = n

\* The watcher does what Automount says, as the service does; a mount may
\* also end by itself.  Seen on disks spelled in mixed case.
PhaseBar   == IF pc = "drain" THEN "stopping" ELSE IF pc = "stopped" THEN "down" ELSE "up"
LeavingBar == IF pc \in {"drain", "stopped"} THEN {}
              ELSE {d \in Disks \ LowerCase :
                      RemovalQueued(d) \/ \E s \in stops : s.path.device = d}
RunningBar == {c \in children : c.disk \notin LowerCase}
Automounter == INSTANCE Automount WITH
    Disks <- Disks \ LowerCase, SelfExits <- Env \cap {"exit", "slow", "letter"} # {},
    phase <- PhaseBar, attached <- present \ LowerCase,
    leaving <- LeavingBar, running <- RunningBar
ImplementsAutomount == Automounter!Spec

\* The mount processes of a disk that is gone are killed, wherever the pump
\* thread was when it went.
RemovalSettles ==
    \A d \in Disks \ LowerCase :
        LET Mounted == \E c \in children : c.disk = d
        IN  (d \notin present /\ Mounted) ~> (d \in present \/ ~Mounted)

\* A Ctrl-C that comes once the pump thread has its message queue ends the
\* watcher, even when it falls into a scan or its handler has to wait for the
\* mutex a removal holds.
CtrlCEnds == (signals > 0 /\ pc # "open") ~> pc = "stopped"

-----------------------------------------------------------------------------
(* What a comment of watch.rs says, and the code does not keep.            *)

\* "Ctrl-C handler posts WM_QUIT to wake the message pump, which then
\* unwinds".  After a Ctrl-C the watcher ends.
CtrlCWakesPump == signals > 0 ~> pc = "stopped"
=============================================================================
