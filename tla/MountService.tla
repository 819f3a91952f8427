---------------------------- MODULE MountService ----------------------------
(***************************************************************************)
(* The Windows service of service.rs.  Two threads of the service run      *)
(* against each other and against the machine:                             *)
(*   - the pump thread opens the window, scans the disks already attached, *)
(*     then dispatches messages; it alone mounts and unmounts;             *)
(*   - the service control manager calls the control handler on a thread   *)
(*     of its own (stop, shutdown, session change).                        *)
(* Mounts are processes WinFsp.Launcher runs, one instance per name; the   *)
(* service only keeps a map of what it asked for.  Every point where the   *)
(* pump thread looks at the machine or changes something outside itself is *)
(* a step of its own.  The service may crash between any two steps and be  *)
(* started again: the map is lost, the launcher's instances run on.        *)
(***************************************************************************)
EXTENDS DiskBus

CONSTANTS
    Env,        \* what the environment may do: see the last section
    Faults,     \* which calls of the service may fail
    MaxEvents   \* bound on the number of environment events

ASSUME MountServiceAssumption == MaxEvents \in Nat

VARIABLES
    pc,             \* where the pump thread is
    status,         \* what the service last reported to the SCM
    mounts,         \* State.mounts: what the service believes is mounted
    shutting_down,  \* State.shutting_down
    tracked,        \* rescan: the paths that held a mount at its snapshot
    todo,           \* paths handle_arrival is still to be called with
    path,           \* handle_arrival's disk_path
    part,           \* the partition number it has reached
    letter,         \* the drive letter spawn_partition_mount picked
    stops,          \* entries taken out of the map, still to be stopped
    controls,       \* controls the SCM has accepted and not yet delivered
    handler,        \* where the control handler is
    postq,          \* thread messages posted to the pump thread
    console,        \* is there an active console session
    instances,      \* the launcher's running instances
    visible,        \* letters of instances whose drive has appeared
    survivors,      \* instances that outlived a crash of the service
    foreign,        \* letters held by other programs
    events          \* environment events so far (bounded by MaxEvents)

locals  == <<tracked, todo, path, part, letter>>
queues  == <<controls, handler, postq>>
machine == <<present, devq, console, foreign, events>>
run     == <<instances, visible, survivors>>
vars    == <<pc, status, mounts, shutting_down, stops, locals, queues, machine, run>>

-----------------------------------------------------------------------------

\* One entry of the map: key (path, part), value letter.
Entry    == [path : Paths, part : Nat, letter : Letters]
Instance == [name : Letters, disk : Disks, part : Nat]

\* HashMap::insert: an entry with the same key is replaced.
Insert(ms, e) == {m \in ms : <<m.path, m.part>> # <<e.path, e.part>>} \cup {e}

EntriesOf(p) == {m \in mounts : same_device(m.path, p)}

\* Names the launcher refuses because an instance already runs under them.
Taken == {i.name : i \in instances}

\* Notifications arrive from Pump::open to the pump's drop.
Registered_after_scan ==
    /\ pc \notin {"open", "announce", "snapshot", "enumerate", "drain", "stopped"}
    /\ \A p \in todo : p.spelling = "mixed"
Registered == pc \notin {"open", "drain", "stopped"}

\* Controls are accepted once the status is Running.
Accepting == status = "Running"

Init ==
    /\ pc = "open" /\ status = "StartPending"
    /\ mounts = {} /\ shutting_down = FALSE
    /\ tracked = {} /\ todo = {} /\ path = (CHOOSE p \in Paths : TRUE)
    /\ part = 0 /\ letter = 0
    /\ stops = {}
    /\ controls = <<>> /\ handler = "idle" /\ postq = <<>>
    /\ present \in SUBSET Disks /\ devq = <<>>
    /\ console \in BOOLEAN
    /\ instances = {} /\ visible = {} /\ survivors = {} /\ foreign = {}
    /\ events = 0

-----------------------------------------------------------------------------
(* Pump thread: start-up.                                                  *)

\* Pump::open: window, message queue and notification registration, or an
\* error that ends the service.
OpenPump ==
    /\ pc = "open"
    /\ \/ pc' = "announce" /\ UNCHANGED status
       \/ "open" \in Faults /\ pc' = "stopped" /\ status' = "Failed"
    /\ UNCHANGED <<mounts, shutting_down, stops, locals, queues, machine, run>>

\* When the SCM refuses the status, the pump is dropped and service_main
\* reports the failure.
AnnounceRunning ==
    /\ pc = "announce"
    /\ \/ pc' = "snapshot" /\ status' = "Running" /\ UNCHANGED devq
       \/ "status" \in Faults /\ pc' = "stopped" /\ status' = "Failed" /\ devq' = <<>>
    /\ UNCHANGED <<mounts, shutting_down, stops, locals, queues,
                   present, console, foreign, events, run>>

-----------------------------------------------------------------------------
(* Pump thread: rescan and handle_arrival.                                 *)

RescanSnapshot ==
    /\ pc = "snapshot"
    /\ IF shutting_down
       THEN pc' = "get" /\ UNCHANGED tracked
       ELSE pc' = "enumerate" /\ tracked' = {m.path : m \in mounts}
    /\ UNCHANGED <<status, mounts, shutting_down, stops, todo, path, part, letter,
                   queues, machine, run>>

\* What the set-up API lists: every present disk, less those whose detail
\* call fails (PresentDisks skips them).
Listings ==
    LET all == {SetupPath(d) : d \in present}
    IN  IF "detail" \in Faults THEN SUBSET all ELSE {all}

RescanEnumerate ==
    /\ pc = "enumerate"
    /\ \/ \E listed \in Listings :
            pc' = "next" /\ todo' = disks_to_probe(listed, tracked)
       \/ "enumerate" \in Faults /\ pc' = "get" /\ UNCHANGED todo
    /\ tracked' = {}
    /\ UNCHANGED <<status, mounts, shutting_down, stops, path, part, letter,
                   queues, machine, run>>

\* handle_arrival's early returns, for the next of its callers' paths.
ArrivalGate ==
    /\ pc = "next"
    /\ \E p \in todo :
        /\ todo' = todo \ {p}
        /\ IF shutting_down \/ ~console
           THEN UNCHANGED <<pc, path>>
           ELSE pc' = "list" /\ path' = p
    /\ UNCHANGED <<status, mounts, shutting_down, stops, tracked, part, letter,
                   queues, machine, run>>

ArrivalsDone ==
    /\ pc = "next" /\ todo = {}
    /\ pc' = "get"
    /\ UNCHANGED <<status, mounts, shutting_down, stops, locals, queues, machine, run>>

\* partition::list: a table (or none at all, which stands for the whole disk).
ListPartitions ==
    /\ pc = "list"
    /\ \/ /\ path.device \in present
          /\ pc' = "probe" /\ part' = FirstPart(path.device)
       \/ /\ path.device \notin present \/ "list" \in Faults
          /\ pc' = "next" /\ UNCHANGED part
    /\ UNCHANGED <<status, mounts, shutting_down, stops, tracked, todo, path, letter,
                   queues, machine, run>>

\* One probe; a read that fails is "not ours".
ProbePartition ==
    /\ pc = "probe" /\ part <= LastPart(path.device)
    /\ \/ /\ path.device \in present /\ part \in FsOn(path.device)
          /\ pc' = "pick" /\ UNCHANGED part
       \/ /\ \/ path.device \notin present
             \/ part \notin FsOn(path.device)
             \/ "probe" \in Faults
          /\ part' = part + 1 /\ UNCHANGED pc
    /\ UNCHANGED <<status, mounts, shutting_down, stops, tracked, todo, path, letter,
                   queues, machine, run>>

PartitionsDone ==
    /\ pc = "probe" /\ part > LastPart(path.device)
    /\ pc' = "next"
    /\ UNCHANGED <<status, mounts, shutting_down, stops, locals, queues, machine, run>>

-----------------------------------------------------------------------------
(* Pump thread: spawn_partition_mount.                                     *)

\* pick_drive_letter sees the letters that have appeared, then the launcher
\* is located.
PickLetter ==
    /\ pc = "pick"
    /\ LET free == pick_drive_letter(visible \cup foreign)
       IN  \/ letter' \in free /\ pc' = "start" /\ UNCHANGED part
           \/ /\ free = {} \/ "locate" \in Faults
              /\ pc' = "probe" /\ part' = part + 1 /\ UNCHANGED letter
    /\ UNCHANGED <<status, mounts, shutting_down, stops, tracked, todo, path,
                   queues, machine, run>>

Track_unless_stopping(e) == mounts' = IF shutting_down THEN mounts ELSE Insert(mounts, e)
Track(e) == mounts' = Insert(mounts, e)

\* launchctl start succeeds when the launcher has created the process;
\* under "slow" its drive appears later.
StartSucceeds ==
    /\ letter \notin Taken
    /\ instances' = instances \cup {[name |-> letter, disk |-> path.device, part |-> part]}
    /\ visible' = IF "slow" \in Env THEN visible ELSE visible \cup ({letter} \ foreign)
    /\ Track([path |-> path, part |-> part, letter |-> letter])
    /\ UNCHANGED survivors

StartFails_tracked ==
    /\ letter \in Taken \/ "start" \in Faults
    /\ Track([path |-> path, part |-> part, letter |-> letter])
    /\ UNCHANGED run
StartFails ==
    /\ letter \in Taken \/ "start" \in Faults
    /\ UNCHANGED <<mounts, run>>

StartMount ==
    /\ pc = "start"
    /\ StartSucceeds \/ StartFails
    /\ pc' = "probe" /\ part' = part + 1
    /\ UNCHANGED <<status, shutting_down, stops, tracked, todo, path, letter,
                   queues, machine>>

-----------------------------------------------------------------------------
(* Pump thread: messages.                                                  *)

HandleArrival ==
    /\ pc = "get" /\ devq # <<>> /\ Head(devq).event = "arrival"
    /\ devq' = Tail(devq)
    /\ pc' = "next" /\ todo' = {ArrivalPath(Head(devq).disk)}
    /\ UNCHANGED <<status, mounts, shutting_down, stops, tracked, path, part, letter,
                   queues, present, console, foreign, events, run>>

\* The entries leave the map before the launcher is located: when that
\* fails they are forgotten with their mounts running.
HandleRemoval ==
    /\ pc = "get" /\ devq # <<>> /\ Head(devq).event = "removal"
    /\ devq' = Tail(devq)
    /\ LET gone == EntriesOf(ArrivalPath(Head(devq).disk))
       IN  /\ mounts' = mounts \ gone
           /\ \/ pc' = "unmount" /\ stops' = gone
              \/ "locate" \in Faults /\ UNCHANGED <<pc, stops>>
    /\ UNCHANGED <<status, shutting_down, locals, queues,
                   present, console, foreign, events, run>>

HandleRescan ==
    /\ pc = "get" /\ postq # <<>> /\ Head(postq) = "rescan"
    /\ postq' = Tail(postq)
    /\ pc' = "snapshot"
    /\ UNCHANGED <<status, mounts, shutting_down, stops, locals, controls, handler,
                   machine, run>>

\* GetMessage returns 0 on WM_QUIT, and -1 on an error: both end the loop.
HandleQuit ==
    /\ pc = "get"
    /\ \/ postq # <<>> /\ Head(postq) = "quit" /\ postq' = Tail(postq)
       \/ "getmessage" \in Faults /\ UNCHANGED postq
    /\ pc' = "teardown"
    /\ UNCHANGED <<status, mounts, shutting_down, stops, locals, controls, handler,
                   machine, run>>

-----------------------------------------------------------------------------
(* Pump thread: stopping mounts, after a removal and at shutdown.          *)

\* launchctl stop.  An instance that is gone makes it fail like any other
\* error: logged, nothing else.
StopMount ==
    /\ pc \in {"unmount", "drain"}
    /\ \E s \in stops :
        /\ stops' = stops \ {s}
        /\ \/ /\ instances' = {i \in instances : i.name # s.letter}
              /\ visible' = visible \ {s.letter}
              /\ survivors' = survivors \cap instances'
           \/ "stop" \in Faults /\ UNCHANGED run
    /\ UNCHANGED <<pc, status, mounts, shutting_down, locals, queues, machine>>

RemovalDone ==
    /\ pc = "unmount" /\ stops = {}
    /\ pc' = "get"
    /\ UNCHANGED <<status, mounts, shutting_down, stops, locals, queues, machine, run>>

\* drop(pump), then the drain of the map.
TearDown ==
    /\ pc = "teardown"
    /\ devq' = <<>>
    /\ shutting_down' = TRUE
    /\ mounts' = {}
    /\ \/ stops' = mounts
       \/ "locate" \in Faults /\ stops' = {}
    /\ pc' = "drain"
    /\ UNCHANGED <<status, locals, queues, present, console, foreign, events, run>>

ReportStopped_undrained ==
    /\ pc = "drain"
    /\ pc' = "stopped" /\ status' = "Stopped"
    /\ UNCHANGED <<mounts, shutting_down, stops, locals, queues, machine, run>>
ReportStopped ==
    /\ pc = "drain" /\ stops = {}
    /\ pc' = "stopped"
    /\ status' \in IF "status" \in Faults THEN {"Stopped", "Failed"} ELSE {"Stopped"}
    /\ UNCHANGED <<mounts, shutting_down, stops, locals, queues, machine, run>>

-----------------------------------------------------------------------------
(* The control handler, on the SCM's thread.                               *)

ControlStop ==
    /\ handler = "idle" /\ controls # <<>> /\ Head(controls) = "stop"
    /\ controls' = Tail(controls)
    /\ shutting_down' = TRUE /\ handler' = "post"
    /\ UNCHANGED <<pc, status, mounts, stops, locals, postq, machine, run>>

PostQuit_omitted ==
    /\ handler = "post"
    /\ handler' = "idle" /\ UNCHANGED postq
    /\ UNCHANGED <<pc, status, mounts, shutting_down, stops, locals, controls, machine, run>>
PostQuit ==
    /\ handler = "post"
    /\ handler' = "idle" /\ postq' = Append(postq, "quit")
    /\ UNCHANGED <<pc, status, mounts, shutting_down, stops, locals, controls, machine, run>>

\* SessionLogon and ConsoleConnect post a rescan.
ControlSession_ignored ==
    /\ handler = "idle" /\ controls # <<>> /\ Head(controls) = "session"
    /\ controls' = Tail(controls) /\ UNCHANGED postq
    /\ UNCHANGED <<pc, status, mounts, shutting_down, stops, locals, handler, machine, run>>
ControlSession ==
    /\ handler = "idle" /\ controls # <<>> /\ Head(controls) = "session"
    /\ controls' = Tail(controls) /\ postq' = Append(postq, "rescan")
    /\ UNCHANGED <<pc, status, mounts, shutting_down, stops, locals, handler, machine, run>>

-----------------------------------------------------------------------------
(* The machine: disks, sessions, the SCM's requests, the launcher's        *)
(* processes and other programs' drive letters.                            *)

Event(kind) == kind \in Env /\ events < MaxEvents /\ events' = events + 1

DiskEvent ==
    /\ Event("disk")
    /\ \E d \in Disks : PlugIn(d, Registered) \/ Unplug(d, Registered)
    /\ UNCHANGED <<pc, status, mounts, shutting_down, stops, locals, queues,
                   console, foreign, run>>

AttachConsole ==
    /\ Event("session")
    /\ ~console /\ console' = TRUE
    /\ controls' = IF Accepting THEN Append(controls, "session") ELSE controls
    /\ UNCHANGED <<pc, status, mounts, shutting_down, stops, locals, handler, postq,
                   present, devq, foreign, run>>

DetachConsole ==
    /\ Event("session")
    /\ console /\ console' = FALSE
    /\ UNCHANGED <<pc, status, mounts, shutting_down, stops, locals, queues,
                   present, devq, foreign, run>>

RequestStop ==
    /\ Event("stop")
    /\ Accepting /\ controls' = Append(controls, "stop")
    /\ UNCHANGED <<pc, status, mounts, shutting_down, stops, locals, handler, postq,
                   present, devq, console, foreign, run>>

\* A started mount's drive appears ...
InstanceReady ==
    /\ \E i \in instances :
        /\ i.disk \in present /\ i.name \notin visible \cup foreign
        /\ visible' = visible \cup {i.name}
    /\ UNCHANGED <<pc, status, mounts, shutting_down, stops, locals, queues, machine,
                   instances, survivors>>

\* ... or its process exits by itself.
InstanceExits ==
    /\ Event("exit")
    /\ \E i \in instances :
        /\ instances' = instances \ {i}
        /\ visible' = visible \ {i.name}
        /\ survivors' = survivors \ {i}
    /\ UNCHANGED <<pc, status, mounts, shutting_down, stops, locals, queues,
                   present, devq, console, foreign>>

OtherProgramLetter ==
    /\ Event("letter")
    /\ \E l \in Letters :
        \/ l \notin visible \cup foreign /\ foreign' = foreign \cup {l}
        \/ l \in foreign /\ foreign' = foreign \ {l}
    /\ UNCHANGED <<pc, status, mounts, shutting_down, stops, locals, queues,
                   present, devq, console, run>>

-----------------------------------------------------------------------------
(* The service's own process: it may die between any two steps of its      *)
(* threads, and the SCM starts it again after that or after a stop.        *)

\* What lives in the process: State, the messages and the threads.
MemoryLost ==
    /\ mounts' = {} /\ shutting_down' = FALSE /\ stops' = {}
    /\ tracked' = {} /\ todo' = {}
    /\ controls' = <<>> /\ handler' = "idle" /\ postq' = <<>> /\ devq' = <<>>

Crash ==
    /\ Event("crash")
    /\ pc # "stopped" /\ pc' = "stopped" /\ status' = "Stopped"
    /\ MemoryLost
    /\ survivors' = instances
    /\ UNCHANGED <<path, part, letter, present, console, foreign, instances, visible>>

Restart ==
    /\ Event("restart")
    /\ pc = "stopped" /\ pc' = "open" /\ status' = "StartPending"
    /\ MemoryLost
    /\ UNCHANGED <<path, part, letter, present, console, foreign, run>>

-----------------------------------------------------------------------------

PumpThread ==
    \/ OpenPump \/ AnnounceRunning
    \/ RescanSnapshot \/ RescanEnumerate \/ ArrivalGate \/ ArrivalsDone
    \/ ListPartitions \/ ProbePartition \/ PartitionsDone
    \/ PickLetter \/ StartMount
    \/ HandleArrival \/ HandleRemoval \/ HandleRescan \/ HandleQuit
    \/ StopMount \/ RemovalDone \/ TearDown \/ ReportStopped

ControlHandler == ControlStop \/ PostQuit \/ ControlSession

Environment ==
    \/ DiskEvent \/ AttachConsole \/ DetachConsole \/ RequestStop
    \/ InstanceReady \/ InstanceExits \/ OtherProgramLetter
    \/ Crash \/ Restart

Next == PumpThread \/ ControlHandler \/ Environment

Spec == Init /\ [][Next]_vars

\* Both threads keep running, and so do the processes the launcher starts.
FairSpec == Spec /\ WF_vars(PumpThread) /\ WF_vars(ControlHandler) /\ WF_vars(InstanceReady)

-----------------------------------------------------------------------------
(* Properties.                                                             *)

\* The state of both threads and of the machine is well typed.
TypeOK ==
    /\ DiskBusTypeOK
    /\ pc \in {"open", "announce", "snapshot", "enumerate", "next", "list", "probe",
               "pick", "start", "get", "unmount", "teardown", "drain", "stopped"}
    /\ status \in {"StartPending", "Running", "Stopped", "Failed"}
    /\ mounts \subseteq Entry /\ stops \subseteq Entry
    /\ shutting_down \in BOOLEAN /\ console \in BOOLEAN
    /\ tracked \subseteq Paths /\ todo \subseteq Paths /\ path \in Paths
    /\ part \in Nat /\ letter \in Letters \cup {0} /\ (pc = "start" => letter \in Letters)
    /\ controls \in Seq({"stop", "session"}) /\ postq \in Seq({"quit", "rescan"})
    /\ handler \in {"idle", "post"}
    /\ instances \subseteq Instance /\ survivors \subseteq instances
    /\ visible \subseteq Letters /\ foreign \subseteq Letters
    /\ events \in Nat

\* No mount outlives its disk unnoticed: while notifications are on, a disk
\* the map holds an entry of is attached, or its removal is still queued.
\* The scan, a queued arrival and an unplug in the middle of a probe all
\* have to agree for this, under either spelling of the path.
RemovalPending ==
    Registered => \A m \in mounts : m.path.device \in present \/ RemovalQueued(m.path.device)

\* Every mount the launcher runs is one the service will stop: it is in the
\* map, or already taken out to be stopped.  A stop request that overtakes a
\* start must not leave a mount behind the service.  It is claimed for disks
\* whose notification is spelled in mixed case, while the launcher can be
\* found and stops what it is told to, and not for what a crash left running.
NoOrphanMount ==
    Faults \cap {"locate", "stop"} = {} =>
        \A i \in instances \ survivors : i.disk \notin LowerCase =>
            \E m \in mounts \cup stops :
                m.path.device = i.disk /\ m.part = i.part /\ m.letter = i.name

\* A rescan does not mount a volume a second time (rescan's snapshot, taken
\* before the set-up API is asked and long before the mount is started,
\* is still good enough when it is), what a crash left running aside.
\* Rescan paths are the lower-case ones.
RescanNeverRemounts ==
    (Faults \cap {"locate", "stop"} = {} /\ pc = "start"
        /\ path.spelling = "lower" /\ path.device \notin LowerCase) =>
        \A i \in instances \ survivors : <<i.disk, i.part>> # <<path.device, part>>

\* When both threads are idle, nothing is queued and a session is active,
\* every filesystem on every attached disk is in the map: no order of
\* registration, start-up scan, arrivals, logons and rescans loses a disk,
\* nor does a crash, for the service that is started after it.
Idle == /\ pc = "get" /\ devq = <<>> /\ postq = <<>>
        /\ controls = <<>> /\ handler = "idle"
EveryDiskServed ==
    (Idle /\ console /\ ~shutting_down) =>
        \A d \in present : \A n \in FsOn(d) :
            \E m \in mounts : m.path.device = d /\ m.part = n

\* launchctl stop names a letter only: the mount it ends is still the one
\* the entry was made for, never one another disk got in the meantime or one
\* left running by a crash.
StopsOnlyItsOwn ==
    [][\A s \in stops \ stops' : \A i \in instances :
          i.name = s.letter => i.disk = s.path.device /\ i.part = s.part]_vars

\* The service does what Automount says: it starts mounts only for disks it
\* will notice leaving, ends no other mount than those of a disk that has
\* left, forgets no disk before its mounts are gone, and stops with nothing
\* left running.  Seen on disks spelled in mixed case.
PhaseBar   == IF pc = "drain" THEN "stopping" ELSE IF pc = "stopped" THEN "down" ELSE "up"
LeavingBar == IF pc \in {"drain", "stopped"} THEN {}
              ELSE {d \in Disks \ LowerCase :
                      RemovalQueued(d) \/ \E s \in stops : s.path.device = d}
RunningBar == {i \in instances \ survivors : i.disk \notin LowerCase}
Automounter == INSTANCE Automount WITH
    Disks <- Disks \ LowerCase, SelfExits <- FALSE, phase <- PhaseBar,
    attached <- present \ LowerCase, leaving <- LeavingBar, running <- RunningBar
ImplementsAutomount == Automounter!Spec

\* Once a stop is requested the service reports Stopped, whatever the pump
\* thread was doing.
StopCompletes == (\E k \in 1..Len(controls) : controls[k] = "stop") ~> status = "Stopped"

\* The mounts of a disk that is gone are ended, wherever the pump thread was
\* when it went.
RemovalSettles ==
    \A d \in Disks \ LowerCase :
        LET Mounted == \E i \in instances \ survivors : i.disk = d
        IN  (d \notin present /\ Mounted) ~> (d \in present \/ ~Mounted)

\* A disk whose mount was put off because nobody was logged on is mounted
\* once somebody is, and as long as they stay; so is one whose mount a crash
\* has left behind, by the next service.
LogonServesDisks ==
    \A d \in Disks : \A n \in FsOn(d) :
        (d \in present /\ console /\ status = "Running") ~>
            \/ \E m \in mounts : m.path.device = d /\ m.part = n
            \/ d \notin present \/ ~console \/ shutting_down \/ status # "Running"

-----------------------------------------------------------------------------
(* What the comments of service.rs and scan.rs say, and the code does not  *)
(* keep.                                                                   *)

\* service.rs, on the instance name given to the launcher: it "must be
\* unique per concurrent mount".  The letter picked for a mount is not the
\* name of a running instance.
InstanceNameUnique == pc = "start" => letter \notin Taken

\* scan.rs, on same_device: a byte comparison "would treat one disk as two
\* -- mounting it twice on a rescan".  The map holds one entry per volume.
OneEntryPerVolume ==
    \A m, n \in mounts : same_device(m.path, n.path) /\ m.part = n.part => m = n

\* service.rs, on rescan: "Probe every present disk that holds no mount
\* yet".  A disk the snapshot leaves out holds a mount.
SkippedDiskHoldsMount ==
    [][RescanSnapshot =>
         \A p \in tracked' : \E i \in instances : i.disk = p.device]_vars
=============================================================================
