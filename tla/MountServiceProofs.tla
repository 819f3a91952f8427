------------------------- MODULE MountServiceProofs -------------------------
(***************************************************************************)
(* Theorems of MountService, for every number of disks, letters, events    *)
(* and every choice of faults: TypeOK, RemovalPending, NoOrphanMount and   *)
(* RescanNeverRemounts.                                                    *)
(*                                                                         *)
(* NoOrphanMount is the one that takes an argument.  A live mount loses    *)
(* its map entry in two ways: the entry is taken out to be stopped, which  *)
(* is what should happen, or a second start for the same key replaces it.  *)
(* The second needs handle_arrival to be called with a path the map        *)
(* already holds.  A rescan leaves out the paths its snapshot holds, and   *)
(* nobody else adds entries meanwhile.  An arrival notification checks     *)
(* nothing: it is the order of the notifications themselves that protects  *)
(* the map, because between two arrivals of a disk there is a removal, and *)
(* dispatching it clears the disk's entries.  OrphanInv says so of the     *)
(* queue.  A crash empties both the map and the claim.                     *)
(***************************************************************************)
EXTENDS MountService, DiskBusProofs

\* Every path the set-up API lists, hence every path to probe, is a path.
LEMMA ListingsType ==
    ASSUME TypeOK, NEW listed \in Listings PROVE listed \subseteq Paths
  BY DEF Listings, SetupPath, Paths, TypeOK, DiskBusTypeOK

\* Inserting an entry keeps the map a set of entries.
LEMMA InsertType ==
    ASSUME NEW ms \in SUBSET Entry, NEW e \in Entry PROVE Insert(ms, e) \subseteq Entry
  BY DEF Insert

\* Every step of either thread and of the machine preserves the types.
LEMMA TypeStep == TypeOK /\ [Next]_vars => TypeOK'
<1> SUFFICES ASSUME TypeOK, [Next]_vars PROVE TypeOK'
  OBVIOUS
<1> USE DEF TypeOK, DiskBusTypeOK, locals, queues, machine, run
<1>1. CASE OpenPump BY <1>1 DEF OpenPump
<1>2. CASE AnnounceRunning BY <1>2, EmptyQueue DEF AnnounceRunning
<1>3. CASE RescanSnapshot BY <1>3 DEF RescanSnapshot, Entry
<1>4. CASE RescanEnumerate
  BY <1>4, ListingsType DEF RescanEnumerate, disks_to_probe
<1>5. CASE ArrivalGate BY <1>5 DEF ArrivalGate
<1>6. CASE ArrivalsDone BY <1>6 DEF ArrivalsDone
<1>7. CASE ListPartitions BY <1>7, PartNumbers DEF ListPartitions, Paths
<1>8. CASE ProbePartition BY <1>8 DEF ProbePartition
<1>9. CASE PartitionsDone BY <1>9 DEF PartitionsDone
<1>10. CASE PickLetter BY <1>10, PickType DEF PickLetter
<1>11. CASE StartMount
  <2>1. [path |-> path, part |-> part, letter |-> letter] \in Entry
    BY <1>11 DEF StartMount, Entry
  <2>2. [name |-> letter, disk |-> path.device, part |-> part] \in Instance
    BY <1>11 DEF StartMount, Instance, Paths
  <2>3. mounts' \subseteq Entry
    BY <1>11, <2>1, InsertType DEF StartMount, StartSucceeds, StartFails, Track
  <2>4. instances' \subseteq Instance /\ visible' \subseteq Letters
    BY <1>11, <2>2 DEF StartMount, StartSucceeds, StartFails
  <2>5. survivors' \subseteq instances'
    BY <1>11 DEF StartMount, StartSucceeds, StartFails
  <2> QED BY <1>11, <2>3, <2>4, <2>5 DEF StartMount
<1>12. CASE HandleArrival
  <2>1. Head(devq) \in Notifications /\ Tail(devq) \in Seq(Notifications)
    BY <1>12 DEF HandleArrival
  <2>2. Head(devq).disk \in Disks BY <2>1 DEF Notifications
  <2> QED BY <1>12, <2>1, <2>2, ArrivalPathType DEF HandleArrival
<1>13. CASE HandleRemoval
  <2>1. Tail(devq) \in Seq(Notifications) BY <1>13 DEF HandleRemoval
  <2> QED BY <1>13, <2>1 DEF HandleRemoval, EntriesOf
<1>14. CASE HandleRescan BY <1>14 DEF HandleRescan
<1>15. CASE HandleQuit
  <2>1. postq' = postq \/ (postq # <<>> /\ postq' = Tail(postq))
    BY <1>15 DEF HandleQuit
  <2>2. postq # <<>> => Tail(postq) \in Seq({"quit", "rescan"}) OBVIOUS
  <2> QED BY <1>15, <2>1, <2>2 DEF HandleQuit
<1>16. CASE StopMount BY <1>16 DEF StopMount
<1>17. CASE RemovalDone BY <1>17 DEF RemovalDone
<1>18. CASE TearDown BY <1>18 DEF TearDown
<1>19. CASE ReportStopped BY <1>19 DEF ReportStopped
<1>20. CASE ControlStop BY <1>20 DEF ControlStop
<1>21. CASE PostQuit BY <1>21 DEF PostQuit
<1>22. CASE ControlSession BY <1>22 DEF ControlSession
<1>23. CASE DiskEvent
  <2>1. present' \subseteq Disks BY <1>23 DEF DiskEvent, PlugIn, Unplug
  <2>2. PICK e \in {"arrival", "removal"}, d \in Disks : Notify(e, d, Registered)
    BY <1>23 DEF DiskEvent, PlugIn, Unplug
  <2>3. [event |-> e, disk |-> d] \in Notifications BY DEF Notifications
  <2>4. devq' \in Seq(Notifications) BY <2>2, <2>3 DEF Notify
  <2> QED BY <1>23, <2>1, <2>4 DEF DiskEvent, Event
<1>24. CASE AttachConsole BY <1>24 DEF AttachConsole, Event
<1>25. CASE DetachConsole
  <2>1. console' = FALSE BY <1>25, Zenon DEF DetachConsole
  <2>2. UNCHANGED <<pc, status, mounts, shutting_down, stops, locals, queues,
                    present, devq, foreign, run>>
    BY <1>25, Zenon DEF DetachConsole
  <2>3. events' \in Nat BY <1>25 DEF DetachConsole, Event
  <2> QED BY <2>1, <2>2, <2>3
<1>26. CASE RequestStop BY <1>26 DEF RequestStop, Event
<1>27. CASE InstanceReady BY <1>27 DEF InstanceReady, Instance
<1>28. CASE InstanceExits BY <1>28 DEF InstanceExits, Event
<1>29. CASE OtherProgramLetter BY <1>29 DEF OtherProgramLetter, Event
<1>m. ASSUME MemoryLost
      PROVE  /\ mounts' = {} /\ stops' = {} /\ shutting_down' \in BOOLEAN
             /\ tracked' = {} /\ todo' = {} /\ handler' = "idle"
             /\ devq' \in Seq(Notifications)
             /\ controls' \in Seq({"stop", "session"}) /\ postq' \in Seq({"quit", "rescan"})
  <2>1. shutting_down' \in BOOLEAN BY <1>m, Zenon DEF MemoryLost
  <2>2. devq' = <<>> /\ controls' = <<>> /\ postq' = <<>> BY <1>m DEF MemoryLost
  <2> QED BY <1>m, <2>1, <2>2, EmptyQueue DEF MemoryLost
<1>30. CASE Crash BY <1>30, <1>m DEF Crash, Event
<1>31. CASE Restart BY <1>31, <1>m DEF Restart, Event
<1>32. CASE UNCHANGED vars BY <1>32 DEF vars
<1> QED
  BY <1>1, <1>2, <1>3, <1>4, <1>5, <1>6, <1>7, <1>8, <1>9, <1>10, <1>11, <1>12, <1>13,
     <1>14, <1>15, <1>16, <1>17, <1>18, <1>19, <1>20, <1>21, <1>22, <1>23, <1>24, <1>25,
     <1>26, <1>27, <1>28, <1>29, <1>30, <1>31, <1>32
  DEF Next, PumpThread, ControlHandler, Environment

\* The service starts well typed.
LEMMA TypeInit == Init => TypeOK
<1> SUFFICES ASSUME Init PROVE TypeOK
  OBVIOUS
<1>1. PICK d \in Disks : TRUE BY DiskBusAssumption
<1>2. SetupPath(d) \in Paths BY <1>1 DEF SetupPath, Paths
<1>3. path \in Paths BY <1>2 DEF Init
<1> QED BY <1>3, EmptyQueue DEF Init, TypeOK, DiskBusTypeOK

\* The service's state is well typed in every reachable state.
THEOREM TypeCorrect == Spec => []TypeOK
BY TypeInit, TypeStep, PTL DEF Spec

-----------------------------------------------------------------------------
(* RemovalPending.  It is not inductive by itself: a mount enters the map  *)
(* when its start returns, long after the probe that saw the disk, so the  *)
(* disk being mounted must satisfy the same condition; and registration    *)
(* only ever begins with an empty map.                                     *)

RemovalInv ==
    /\ pc = "open" => mounts = {}
    /\ Registered => \A m \in mounts : Noticed(m.path.device)
    /\ pc \in {"pick", "start"} => Noticed(path.device)

\* While notifications are on, a disk event is queued.
LEMMA DiskEventMoves ==
    ASSUME DiskEvent, Registered PROVE \E c \in Disks : Moves(c)
  BY DEF DiskEvent, PlugIn, Unplug, Notify, Moves, Arr, Rem

\* It leaves nobody's removal unnoticed.
LEMMA NoticedAfterDiskEvent ==
    ASSUME TypeOK, DiskEvent, Registered, NEW d, Noticed(d)
    PROVE  Noticed(d)'
  BY DiskEventMoves, NoticedAfterMove DEF TypeOK

\* Every step preserves the strengthened invariant.
LEMMA RemovalStep == TypeOK /\ RemovalInv /\ [Next]_vars => RemovalInv'
<1> SUFFICES ASSUME TypeOK, RemovalInv, [Next]_vars PROVE RemovalInv'
  OBVIOUS
<1> USE DEF locals, queues, machine, run
\* Most steps change neither the map, the disks nor the queue, and do not
\* enter the part of handle_arrival the third conjunct speaks of.
<1>a. ASSUME UNCHANGED <<mounts, present, devq, path>>, pc' # "open",
             Registered' => Registered, pc' \in {"pick", "start"} => pc \in {"pick", "start"}
      PROVE  RemovalInv'
  BY <1>a, NoticedStable DEF RemovalInv
<1>1. CASE OpenPump BY <1>1, NoticedStable DEF OpenPump, RemovalInv, Registered
<1>2. CASE AnnounceRunning
  BY <1>2, NoticedStable DEF AnnounceRunning, RemovalInv, Registered
<1>3. CASE RescanSnapshot BY <1>3, <1>a DEF RescanSnapshot, Registered
<1>4. CASE RescanEnumerate BY <1>4, <1>a DEF RescanEnumerate, Registered
<1>5. CASE ArrivalGate
  BY <1>5, NoticedStable DEF ArrivalGate, RemovalInv, Registered
<1>6. CASE ArrivalsDone BY <1>6, <1>a DEF ArrivalsDone, Registered
<1>7. CASE ListPartitions BY <1>7, <1>a DEF ListPartitions, Registered
<1>8. CASE ProbePartition
  <2>1. pc' = "pick" => Noticed(path.device)' BY <1>8 DEF ProbePartition, Noticed
  <2> QED BY <1>8, <2>1, NoticedStable DEF ProbePartition, RemovalInv, Registered
<1>9. CASE PartitionsDone BY <1>9, <1>a DEF PartitionsDone, Registered
<1>10. CASE PickLetter BY <1>10, <1>a DEF PickLetter, Registered
<1>11. CASE StartMount
  <2>1. Noticed(path.device) BY <1>11 DEF StartMount, RemovalInv
  <2>2. \A m \in mounts' : m \in mounts \/ m.path = path
    BY <1>11 DEF StartMount, StartSucceeds, StartFails, Track, Insert
  <2> QED BY <1>11, <2>1, <2>2, NoticedStable DEF StartMount, RemovalInv, Registered
<1>12. CASE HandleArrival
  <2>1. \A d : Noticed(d) => Noticed(d)'
    <3>1. TAKE d
    <3>2. Head(devq).event = "arrival" /\ devq # <<>> /\ devq' = Tail(devq) /\ UNCHANGED present
      BY <1>12 DEF HandleArrival
    <3> QED BY <3>2, RemovalAfterDispatch DEF TypeOK
  <2> QED BY <1>12, <2>1 DEF HandleArrival, RemovalInv, Registered
<1>13. CASE HandleRemoval
  <2>1. \A m \in mounts' : m \in mounts /\ m.path.device # Head(devq).disk
    BY <1>13 DEF HandleRemoval, EntriesOf, same_device, ArrivalPath
  <2>2. \A d : d # Head(devq).disk /\ Noticed(d) => Noticed(d)'
    <3>1. TAKE d
    <3>2. devq # <<>> /\ devq' = Tail(devq) /\ UNCHANGED present
      BY <1>13 DEF HandleRemoval
    <3> QED BY <3>2, RemovalAfterDispatch DEF TypeOK
  <2> QED BY <1>13, <2>1, <2>2 DEF HandleRemoval, RemovalInv, Registered
<1>14. CASE HandleRescan BY <1>14, <1>a DEF HandleRescan, Registered
<1>15. CASE HandleQuit BY <1>15, <1>a DEF HandleQuit, Registered
<1>16. CASE StopMount BY <1>16, <1>a DEF StopMount, Registered
<1>17. CASE RemovalDone BY <1>17, <1>a DEF RemovalDone, Registered
<1>18. CASE TearDown BY <1>18 DEF TearDown, RemovalInv, Registered
<1>19. CASE ReportStopped BY <1>19, <1>a DEF ReportStopped, Registered
<1>23. CASE DiskEvent
  <2>1. Registered => \A d : Noticed(d) => Noticed(d)'
    BY <1>23, NoticedAfterDiskEvent
  <2>2. pc \in {"pick", "start"} => Registered BY DEF Registered
  <2> QED BY <1>23, <2>1, <2>2 DEF DiskEvent, RemovalInv, Registered
<1>24. ASSUME UNCHANGED <<pc, mounts, present, devq, path>> PROVE RemovalInv'
  BY <1>24, NoticedStable DEF RemovalInv, Registered
<1>25. CASE ControlHandler
  BY <1>25, <1>24 DEF ControlHandler, ControlStop, PostQuit, ControlSession
<1>26. CASE AttachConsole \/ DetachConsole \/ RequestStop
  BY <1>26, <1>24 DEF AttachConsole, DetachConsole, RequestStop
<1>27. CASE InstanceReady \/ InstanceExits \/ OtherProgramLetter
  BY <1>27, <1>24 DEF InstanceReady, InstanceExits, OtherProgramLetter
<1>28. CASE Crash \/ Restart
  BY <1>28 DEF Crash, Restart, MemoryLost, RemovalInv, Registered
<1>29. CASE UNCHANGED vars BY <1>29, <1>24 DEF vars
<1> QED
  BY <1>1, <1>2, <1>3, <1>4, <1>5, <1>6, <1>7, <1>8, <1>9, <1>10, <1>11, <1>12, <1>13,
     <1>14, <1>15, <1>16, <1>17, <1>18, <1>19, <1>23, <1>25, <1>26, <1>27, <1>28, <1>29
  DEF Next, PumpThread, Environment

\* No mount outlives its disk unnoticed, whatever fails and however the
\* notifications interleave with the pump thread's work.
THEOREM RemovalNeverMissed == Spec => []RemovalPending
<1>1. Init => RemovalInv BY DEF Init, RemovalInv
<1>2. RemovalInv => RemovalPending BY DEF RemovalInv, RemovalPending, Noticed
<1> QED BY <1>1, <1>2, TypeCorrect, RemovalStep, PTL DEF Spec

-----------------------------------------------------------------------------
(* No live mount is without its map entry.                                 *)


InArrival == pc \in {"list", "probe", "pick", "start"}

\* The map holds p, or handle_arrival is or will be at work on it.
Active(p) == \/ \E m \in mounts : m.path = p
             \/ p \in todo
             \/ InArrival /\ path = p

QueueInv(d) ==
    /\ Alternating(devq, d)
    /\ d \notin present => ArrivalsUndone(devq, d)
    /\ Active(ArrivalPath(d)) => RemovalFirst(devq, d) /\ Noticed(d)

\* Paths handle_arrival is called with hold no entry; the one at work holds
\* entries for the partitions already done only.
FreshInv ==
    /\ todo # {} => pc = "next" \/ InArrival
    /\ pc = "enumerate" => tracked = {m.path : m \in mounts}
    /\ \A p \in todo : p.device \notin LowerCase => \A m \in mounts : m.path # p
    /\ InArrival => path \notin todo
    /\ (InArrival /\ path.device \notin LowerCase) =>
         \A m \in mounts : m.path = path => pc # "list" /\ m.part < part

OrphanInv ==
    /\ pc = "open" => todo = {} /\ devq = <<>>
    /\ pc \in {"open", "announce", "drain", "stopped"} => mounts = {}
    /\ stops # {} => pc \in {"unmount", "drain"}
    /\ Registered => \A d \in Disks \ LowerCase : QueueInv(d)
    /\ FreshInv
    /\ NoOrphanMount

-----------------------------------------------------------------------------
(* The map and handle_arrival.                                             *)

\* Paths still to be handled hold no entry, after any step.
LEMMA FreshStep == TypeOK /\ OrphanInv /\ [Next]_vars => FreshInv'
<1> SUFFICES ASSUME TypeOK, OrphanInv, [Next]_vars PROVE FreshInv'
  OBVIOUS
<1> USE DEF locals, queues, machine, run
<1>i. FreshInv /\ (pc = "open" => todo = {}) BY DEF OrphanInv
<1>t. part \in Nat BY DEF TypeOK
\* Entering or staying out of handle_arrival with nothing left to do.
<1>a. ASSUME todo = {}, todo' = todo, pc' \notin {"enumerate", "list", "probe", "pick", "start"}
      PROVE  FreshInv'
  BY <1>a DEF FreshInv, InArrival
<1>1. CASE OpenPump BY <1>1, <1>a, <1>i DEF OpenPump
<1>2. CASE AnnounceRunning BY <1>2, <1>a, <1>i DEF AnnounceRunning, FreshInv, InArrival
<1>3. CASE RescanSnapshot BY <1>3, <1>i DEF RescanSnapshot, FreshInv, InArrival
<1>4. CASE RescanEnumerate
  <2>1. ASSUME NEW p \in todo', pc' = "next" PROVE \A m \in mounts : m.path # p
    BY <1>4, <1>i, <2>1 DEF RescanEnumerate, disks_to_probe, same_device, FreshInv, InArrival
  <2>2. CASE pc' = "next"
    BY <1>4, <2>1, <2>2 DEF RescanEnumerate, FreshInv, InArrival
  <2>3. CASE pc' = "get" /\ UNCHANGED todo
    BY <1>4, <1>a, <1>i, <2>3 DEF RescanEnumerate, FreshInv, InArrival
  <2> QED BY <1>4, <2>2, <2>3 DEF RescanEnumerate
<1>5. CASE ArrivalGate BY <1>5, <1>i DEF ArrivalGate, FreshInv, InArrival
<1>6. CASE ArrivalsDone BY <1>6, <1>a DEF ArrivalsDone
<1>7. CASE ListPartitions BY <1>7, <1>i DEF ListPartitions, FreshInv, InArrival
<1>8. CASE ProbePartition
  <2>1. part' \in {part, part + 1} BY <1>8 DEF ProbePartition
  <2>2. \A m \in mounts : m.part < part => m.part < part'
    BY <1>t, <2>1 DEF TypeOK, Entry
  <2> QED BY <1>8, <1>i, <2>2 DEF ProbePartition, FreshInv, InArrival
<1>9. CASE PartitionsDone BY <1>9, <1>i DEF PartitionsDone, FreshInv, InArrival
<1>10. CASE PickLetter
  <2>1. part' \in {part, part + 1} BY <1>10 DEF PickLetter
  <2>2. \A m \in mounts : m.part < part => m.part < part'
    BY <1>t, <2>1 DEF TypeOK, Entry
  <2> QED BY <1>10, <1>i, <2>2 DEF PickLetter, FreshInv, InArrival
<1>11. CASE StartMount
  <2>1. \A m \in mounts' : m \in mounts \/ (m.path = path /\ m.part = part)
    BY <1>11 DEF StartMount, StartSucceeds, StartFails, Track, Insert
  <2>2. \A m \in mounts : m.part < part => m.part < part + 1
    BY <1>t DEF TypeOK, Entry
  <2> QED BY <1>11, <1>i, <1>t, <2>1, <2>2 DEF StartMount, FreshInv, InArrival
<1>12. CASE HandleArrival
  <2>1. Head(devq).disk \in Disks /\ Head(devq) = Arr(Head(devq).disk)
    <3>1. Head(devq) \in Notifications BY <1>12 DEF HandleArrival, TypeOK, DiskBusTypeOK
    <3> QED BY <1>12, <3>1 DEF HandleArrival, Notifications, Arr
  <2> DEFINE d == Head(devq).disk
  <2>2. ASSUME d \notin LowerCase, NEW m \in mounts PROVE m.path # ArrivalPath(d)
    <3> SUFFICES ASSUME m.path = ArrivalPath(d) PROVE FALSE
      OBVIOUS
    <3>1. QueueInv(d) BY <1>12, <2>1, <2>2 DEF OrphanInv, HandleArrival, Registered
    <3>2. RemovalFirst(devq, d) BY <3>1 DEF QueueInv, Active
    <3>3. 1 \in 1..Len(devq) /\ devq[1] = Arr(d) /\ Len(devq) \in Nat
      BY <1>12, <2>1 DEF HandleArrival, TypeOK, DiskBusTypeOK
    <3> QED BY <3>2, <3>3 DEF RemovalFirst
  <2>3. todo' = {ArrivalPath(d)} /\ pc' = "next" /\ UNCHANGED mounts
    BY <1>12 DEF HandleArrival
  <2>4. ArrivalPath(d).device = d BY DEF ArrivalPath
  <2> QED BY <2>2, <2>3, <2>4 DEF FreshInv, InArrival
<1>13. CASE HandleRemoval
  BY <1>13, <1>a, <1>i DEF HandleRemoval, FreshInv, InArrival
<1>14. CASE HandleRescan BY <1>14, <1>a, <1>i DEF HandleRescan, FreshInv, InArrival
<1>15. CASE HandleQuit BY <1>15, <1>a, <1>i DEF HandleQuit, FreshInv, InArrival
<1>16. CASE StopMount BY <1>16, <1>a, <1>i DEF StopMount, FreshInv, InArrival
<1>17. CASE RemovalDone BY <1>17, <1>a, <1>i DEF RemovalDone, FreshInv, InArrival
<1>18. CASE TearDown BY <1>18, <1>a, <1>i DEF TearDown, FreshInv, InArrival
<1>19. CASE ReportStopped BY <1>19, <1>a, <1>i DEF ReportStopped, FreshInv, InArrival
<1>b. ASSUME UNCHANGED <<pc, mounts, tracked, todo, path, part>> PROVE FreshInv'
  BY <1>b, <1>i DEF FreshInv, InArrival
<1>20. CASE ControlHandler
  BY <1>20, <1>b DEF ControlHandler, ControlStop, PostQuit, ControlSession
<1>21. CASE DiskEvent \/ AttachConsole \/ DetachConsole \/ RequestStop
  BY <1>21, <1>b DEF DiskEvent, AttachConsole, DetachConsole, RequestStop
<1>22. CASE InstanceReady \/ InstanceExits \/ OtherProgramLetter
  BY <1>22, <1>b DEF InstanceReady, InstanceExits, OtherProgramLetter
<1>23. CASE Crash \/ Restart
  BY <1>23 DEF Crash, Restart, MemoryLost, FreshInv, InArrival
<1>24. CASE UNCHANGED vars BY <1>24, <1>b DEF vars
<1> QED
  BY <1>1, <1>2, <1>3, <1>4, <1>5, <1>6, <1>7, <1>8, <1>9, <1>10, <1>11, <1>12, <1>13,
     <1>14, <1>15, <1>16, <1>17, <1>18, <1>19, <1>20, <1>21, <1>22, <1>23, <1>24
  DEF Next, PumpThread, Environment

-----------------------------------------------------------------------------
(* The queue of notifications.                                             *)

\* The order of the notifications still protects the map, after any step.
LEMMA QueueStep ==
    ASSUME TypeOK, RemovalInv, OrphanInv, [Next]_vars, NEW d \in Disks \ LowerCase, Registered'
    PROVE  QueueInv(d)'
<1> DEFINE p == ArrivalPath(d)
<1> USE DEF locals, queues, machine, run
<1>p. p \in Paths /\ p.device = d /\ p.spelling = "mixed"
  BY DEF ArrivalPath, Paths
<1> HIDE DEF p
<1>q. Registered => QueueInv(d) BY DEF OrphanInv
\* Steps that leave the disks and their notifications alone, and give the
\* path no new place in the map or in handle_arrival.
<1>a. ASSUME Registered, UNCHANGED <<present, devq>>, Active(p)' => Active(p)
      PROVE  QueueInv(d)'
  BY <1>a, <1>q, NoticedStable DEF QueueInv, p
<1>1. CASE OpenPump
  <2>1. devq' = <<>> /\ mounts' = {} /\ todo' = {} /\ pc' \in {"announce", "stopped"}
    BY <1>1 DEF OpenPump, OrphanInv
  <2>2. ~Active(p)' BY <2>1 DEF Active, InArrival
  <2>3. Len(devq') = 0 BY <2>1
  <2> QED BY <2>2, <2>3 DEF QueueInv, Alternating, ArrivalsUndone, p
<1>2. CASE AnnounceRunning
  BY <1>2, <1>a DEF AnnounceRunning, Registered, Active, InArrival
<1>3. CASE RescanSnapshot BY <1>3, <1>a DEF RescanSnapshot, Registered, Active, InArrival
<1>4. CASE RescanEnumerate
  <2>1. ASSUME NEW listed \in Listings PROVE p \notin listed
    BY <1>p, <2>1 DEF Listings, SetupPath
  <2>2. p \in todo' => p \in todo
    BY <1>4, <2>1 DEF RescanEnumerate, disks_to_probe
  <2> QED BY <1>4, <1>a, <2>2 DEF RescanEnumerate, Registered, Active, InArrival
<1>5. CASE ArrivalGate BY <1>5, <1>a DEF ArrivalGate, Registered, Active, InArrival
<1>6. CASE ArrivalsDone BY <1>6, <1>a DEF ArrivalsDone, Registered, Active, InArrival
<1>7. CASE ListPartitions BY <1>7, <1>a DEF ListPartitions, Registered, Active, InArrival
<1>8. CASE ProbePartition BY <1>8, <1>a DEF ProbePartition, Registered, Active, InArrival
<1>9. CASE PartitionsDone BY <1>9, <1>a DEF PartitionsDone, Registered, Active, InArrival
<1>10. CASE PickLetter BY <1>10, <1>a DEF PickLetter, Registered, Active, InArrival
<1>11. CASE StartMount
  <2>1. \A m \in mounts' : m \in mounts \/ m.path = path
    BY <1>11 DEF StartMount, StartSucceeds, StartFails, Track, Insert
  <2> QED BY <1>11, <2>1, <1>a DEF StartMount, Registered, Active, InArrival
<1>12. CASE HandleArrival
  <2>1. /\ devq # <<>> /\ devq' = Tail(devq) /\ devq \in Seq(Notifications)
        /\ UNCHANGED <<present, mounts>> /\ Registered /\ pc' = "next"
        /\ todo' = {ArrivalPath(Head(devq).disk)}
        /\ Head(devq) = Arr(Head(devq).disk)
    <3>1. Head(devq) \in Notifications BY <1>12 DEF HandleArrival, TypeOK, DiskBusTypeOK
    <3> QED BY <1>12, <3>1 DEF HandleArrival, Registered, TypeOK, DiskBusTypeOK,
                               Notifications, Arr
  <2>2. Head(devq) # Rem(d) BY <2>1 DEF Arr, Rem
  <2>3. /\ Alternating(devq', d)
        /\ d \notin present' => ArrivalsUndone(devq', d)
    BY <2>1, <1>q, DispatchQueue DEF QueueInv
  <2>4. CASE Head(devq).disk = d
    <3>1. RemovalFirst(devq', d) BY <2>1, <2>4, <1>q, DispatchQueue DEF QueueInv
    <3>2. Noticed(d)'
      <4>1. CASE d \in present BY <2>1, <4>1 DEF Noticed
      <4>2. CASE d \notin present
        <5>1. ArrivalsUndone(devq, d) BY <2>1, <4>2, <1>q DEF QueueInv
        <5>2. 1 \in 1..Len(devq) /\ devq[1] = Arr(d) BY <2>1, <2>4
        <5>3. RemovalQueued(d) BY <5>1, <5>2 DEF ArrivalsUndone, RemovalQueued, Rem
        <5>4. Noticed(d) /\ Head(devq).event = "arrival"
          BY <1>12, <5>3 DEF Noticed, HandleArrival
        <5> QED BY <2>1, <5>4, RemovalAfterDispatch DEF TypeOK
      <4> QED BY <4>1, <4>2
    <3> QED BY <2>3, <3>1, <3>2 DEF QueueInv
  <2>5. CASE Head(devq).disk # d
    <3>1. Active(p)' => Active(p)
      BY <2>1, <2>5, <1>p DEF Active, InArrival, ArrivalPath
    <3>2. Active(p) => RemovalFirst(devq', d)
      BY <2>1, <2>2, <1>q, DispatchQueue DEF QueueInv, p
    <3>3. Active(p) => Noticed(d)'
      <4>1. Active(p) => Noticed(d) BY <2>1, <1>q DEF QueueInv, p
      <4> QED BY <2>1, <2>5, <4>1, RemovalAfterDispatch DEF TypeOK
    <3> QED BY <2>3, <3>1, <3>2, <3>3 DEF QueueInv, p
  <2> QED BY <2>4, <2>5
<1>13. CASE HandleRemoval
  <2>1. /\ devq # <<>> /\ devq' = Tail(devq) /\ devq \in Seq(Notifications)
        /\ UNCHANGED <<present, todo, path>> /\ Registered /\ pc' \in {"unmount", "get"}
        /\ mounts' = mounts \ EntriesOf(ArrivalPath(Head(devq).disk))
        /\ todo = {}
        /\ Head(devq) = Rem(Head(devq).disk)
    <3>1. Head(devq) \in Notifications BY <1>13 DEF HandleRemoval, TypeOK, DiskBusTypeOK
    <3> QED BY <1>13, <3>1 DEF HandleRemoval, Registered, TypeOK, DiskBusTypeOK,
                               Notifications, Rem, OrphanInv, FreshInv, InArrival
  <2>3. /\ Alternating(devq', d)
        /\ d \notin present' => ArrivalsUndone(devq', d)
    BY <2>1, <1>q, DispatchQueue DEF QueueInv
  <2>4. CASE Head(devq).disk = d
    <3>1. ~Active(p)'
      BY <2>1, <2>4, <1>p DEF Active, InArrival, EntriesOf, same_device, ArrivalPath
    <3> QED BY <2>3, <3>1 DEF QueueInv, p
  <2>5. CASE Head(devq).disk # d
    <3>1. Active(p)' => Active(p) BY <2>1 DEF Active, InArrival
    <3>2. Head(devq) # Rem(d) BY <2>1, <2>5 DEF Rem
    <3>3. Active(p) => RemovalFirst(devq', d)
      BY <2>1, <3>2, <1>q, DispatchQueue DEF QueueInv, p
    <3>4. Active(p) => Noticed(d)'
      <4>1. Active(p) => Noticed(d) BY <2>1, <1>q DEF QueueInv, p
      <4> QED BY <2>1, <2>5, <4>1, RemovalAfterDispatch DEF TypeOK
    <3> QED BY <2>3, <3>1, <3>3, <3>4 DEF QueueInv, p
  <2> QED BY <2>4, <2>5
<1>14. CASE HandleRescan BY <1>14, <1>a DEF HandleRescan, Registered, Active, InArrival
<1>15. CASE HandleQuit BY <1>15, <1>a DEF HandleQuit, Registered, Active, InArrival
<1>16. CASE StopMount BY <1>16, <1>a DEF StopMount, Registered, Active, InArrival
<1>17. CASE RemovalDone BY <1>17, <1>a DEF RemovalDone, Registered, Active, InArrival
<1>18. CASE TearDown BY <1>18 DEF TearDown, Registered
<1>19. CASE ReportStopped BY <1>19 DEF ReportStopped, Registered
<1>20. CASE DiskEvent
  <2>1. Registered /\ devq \in Seq(Notifications)
    BY <1>20 DEF DiskEvent, Registered, TypeOK, DiskBusTypeOK
  <2>2. Active(p)' => Active(p) BY <1>20 DEF DiskEvent, Active, InArrival
  <2>3. Active(p) => Noticed(d) /\ Noticed(d)'
    BY <1>20, <2>1, <1>q, NoticedAfterDiskEvent DEF QueueInv, p
  <2>4. PICK e \in {"arrival", "removal"}, c \in Disks :
          /\ devq' = Append(devq, [event |-> e, disk |-> c])
          /\ \/ e = "arrival" /\ c \notin present /\ present' = present \cup {c}
             \/ e = "removal" /\ c \in present /\ present' = present \ {c}
    BY <1>20, <2>1 DEF DiskEvent, PlugIn, Unplug, Notify
  <2> DEFINE n == [event |-> e, disk |-> c]
  <2>5. n \in Notifications BY DEF Notifications
  <2>6. CASE n = Arr(d)
    <3>1. e = "arrival" /\ c = d BY <2>6 DEF Arr
    <3>2. ArrivalsUndone(devq, d) BY <2>1, <2>4, <3>1, <1>q DEF QueueInv
    <3>3. Alternating(devq', d) BY <2>1, <2>4, <2>5, <3>2, <1>q, NotifyQueue DEF QueueInv
    <3>4. Active(p) => RemovalFirst(devq, d) /\ RemovalQueued(d)
      BY <2>1, <2>3, <2>4, <3>1, <1>q DEF QueueInv, Noticed, p
    <3>5. Active(p) => RemovalFirst(devq', d)
      BY <2>1, <2>4, <2>5, <3>4, NotifyQueue DEF RemovalQueued, Rem
    <3> QED BY <2>2, <2>3, <2>4, <3>1, <3>3, <3>5 DEF QueueInv, p
  <2>7. CASE n # Arr(d)
    <3>1. Alternating(devq', d) BY <2>1, <2>4, <2>5, <2>7, <1>q, NotifyQueue DEF QueueInv
    <3>2. Active(p) => RemovalFirst(devq', d)
      BY <2>1, <2>4, <2>5, <2>7, <1>q, NotifyQueue DEF QueueInv, p
    <3>3. d \notin present' => ArrivalsUndone(devq', d)
      <4>1. CASE d \notin present
        BY <2>1, <2>4, <2>5, <2>7, <4>1, <1>q, NotifyQueue DEF QueueInv
      <4>2. CASE d \in present /\ d \notin present'
        <5>1. n = Rem(d) BY <2>4, <4>2 DEF Rem
        <5> QED BY <2>1, <2>4, <2>5, <5>1, NotifyQueue
      <4> QED BY <4>1, <4>2
    <3> QED BY <2>2, <2>3, <3>1, <3>2, <3>3 DEF QueueInv, p
  <2> QED BY <2>6, <2>7
<1>b. ASSUME UNCHANGED <<pc, mounts, todo, path, present, devq>> PROVE QueueInv(d)'
  BY <1>b, <1>a DEF Registered, Active, InArrival
<1>21. CASE ControlHandler
  BY <1>21, <1>b DEF ControlHandler, ControlStop, PostQuit, ControlSession
<1>22. CASE AttachConsole \/ DetachConsole \/ RequestStop
  BY <1>22, <1>b DEF AttachConsole, DetachConsole, RequestStop
<1>23. CASE InstanceReady \/ InstanceExits \/ OtherProgramLetter
  BY <1>23, <1>b DEF InstanceReady, InstanceExits, OtherProgramLetter
<1>24. CASE Crash \/ Restart BY <1>24 DEF Crash, Restart, Registered
<1>25. CASE UNCHANGED vars BY <1>25, <1>b DEF vars
<1> QED
  BY <1>1, <1>2, <1>3, <1>4, <1>5, <1>6, <1>7, <1>8, <1>9, <1>10, <1>11, <1>12, <1>13,
     <1>14, <1>15, <1>16, <1>17, <1>18, <1>19, <1>20, <1>21, <1>22, <1>23, <1>24, <1>25
  DEF Next, PumpThread, Environment

-----------------------------------------------------------------------------
(* The mounts themselves.                                                  *)

Owns(m, i) == m.path.device = i.disk /\ m.part = i.part /\ m.letter = i.name

\* A step that ends or replaces an entry leaves no running mount behind.
LEMMA OrphanStep == TypeOK /\ OrphanInv /\ [Next]_vars => NoOrphanMount'
<1> SUFFICES ASSUME TypeOK, OrphanInv, [Next]_vars, Faults \cap {"locate", "stop"} = {},
                    NEW i \in (instances \ survivors)', i.disk \notin LowerCase
             PROVE  \E m \in (mounts \cup stops)' : Owns(m, i)
  BY DEF NoOrphanMount, Owns
<1> USE DEF locals, queues, machine, run
<1>f. "locate" \notin Faults /\ "stop" \notin Faults OBVIOUS
<1>i. i \in instances \ survivors => \E m \in mounts \cup stops : Owns(m, i)
  BY DEF OrphanInv, NoOrphanMount, Owns
<1>a. ASSUME UNCHANGED <<mounts, stops>>, i \in instances \ survivors
      PROVE  \E m \in (mounts \cup stops)' : Owns(m, i)
  BY <1>a, <1>i
<1>1. CASE OpenPump \/ AnnounceRunning BY <1>1, <1>a DEF OpenPump, AnnounceRunning
<1>2. CASE RescanSnapshot \/ RescanEnumerate \/ ArrivalGate \/ ArrivalsDone
  BY <1>2, <1>a DEF RescanSnapshot, RescanEnumerate, ArrivalGate, ArrivalsDone
<1>3. CASE ListPartitions \/ ProbePartition \/ PartitionsDone \/ PickLetter
  BY <1>3, <1>a DEF ListPartitions, ProbePartition, PartitionsDone, PickLetter
<1>4. CASE StartMount
  <2>1. CASE StartFails BY <1>4, <2>1, <1>a DEF StartMount, StartFails
  <2>2. CASE StartSucceeds
    <3> DEFINE e == [path |-> path, part |-> part, letter |-> letter]
               j == [name |-> letter, disk |-> path.device, part |-> part]
    <3>1. mounts' = Insert(mounts, e) /\ instances' = instances \cup {j} /\ UNCHANGED <<stops, survivors>>
      BY <1>4, <2>2 DEF StartMount, StartSucceeds, Track
    <3>2. e \in mounts' BY <3>1 DEF Insert
    <3>3. CASE i = j BY <3>2, <3>3 DEF Owns
    <3>4. CASE i \in instances
      <4>1. PICK m \in mounts \cup stops : Owns(m, i) BY <1>i, <3>1, <3>4
      <4>2. CASE m \in stops BY <3>1, <4>1, <4>2
      <4>3. CASE m \in mounts
        <5>1. <<m.path, m.part>> # <<path, part>>
          <6> SUFFICES ASSUME m.path = path, m.part = part PROVE FALSE
            OBVIOUS
          <6>1. path.device \notin LowerCase BY <4>1 DEF Owns
          <6>2. m.part < part BY <1>4, <4>3, <6>1 DEF StartMount, OrphanInv, FreshInv, InArrival
          <6> QED BY <6>2 DEF TypeOK
        <5>2. m \in mounts' BY <3>1, <4>3, <5>1 DEF Insert
        <5> QED BY <4>1, <5>2
      <4> QED BY <4>2, <4>3
    <3> QED BY <3>1, <3>3, <3>4
  <2> QED BY <1>4, <2>1, <2>2 DEF StartMount
<1>5. CASE HandleArrival \/ HandleRescan \/ HandleQuit
  BY <1>5, <1>a DEF HandleArrival, HandleRescan, HandleQuit
<1>6. CASE HandleRemoval
  <2>1. stops = {} BY <1>6 DEF HandleRemoval, OrphanInv
  <2>2. (mounts \cup stops)' = mounts
    BY <1>6, <1>f, <2>1 DEF HandleRemoval, EntriesOf
  <2> QED BY <1>6, <1>i, <2>1, <2>2 DEF HandleRemoval
<1>7. CASE StopMount
  <2>1. PICK s \in stops : /\ stops' = stops \ {s}
                           /\ instances' = {k \in instances : k.name # s.letter}
                           /\ survivors' = survivors \cap instances'
    BY <1>7, <1>f DEF StopMount
  <2>2. PICK m \in mounts \cup stops : Owns(m, i) BY <1>i, <2>1
  <2>3. m # s BY <2>1, <2>2 DEF Owns
  <2> QED BY <1>7, <2>1, <2>2, <2>3 DEF StopMount
<1>8. CASE RemovalDone \/ ReportStopped BY <1>8, <1>a DEF RemovalDone, ReportStopped
<1>9. CASE TearDown
  <2>1. stops = {} BY <1>9 DEF TearDown, OrphanInv
  <2> QED BY <1>9, <1>f, <1>i, <2>1 DEF TearDown
<1>10. CASE ControlHandler
  BY <1>10, <1>a DEF ControlHandler, ControlStop, PostQuit, ControlSession
<1>11. CASE DiskEvent \/ AttachConsole \/ DetachConsole \/ RequestStop
  BY <1>11, <1>a DEF DiskEvent, AttachConsole, DetachConsole, RequestStop
<1>12. CASE InstanceReady \/ InstanceExits \/ OtherProgramLetter
  BY <1>12, <1>a DEF InstanceReady, InstanceExits, OtherProgramLetter
<1>13. CASE Crash BY <1>13 DEF Crash
<1>14. CASE Restart
  <2>1. pc = "stopped" /\ UNCHANGED run BY <1>14 DEF Restart
  <2> QED BY <2>1, <1>i DEF OrphanInv
<1>15. CASE UNCHANGED vars BY <1>15, <1>a DEF vars
<1> QED
  BY <1>1, <1>2, <1>3, <1>4, <1>5, <1>6, <1>7, <1>8, <1>9, <1>10, <1>11, <1>12, <1>13,
     <1>14, <1>15
  DEF Next, PumpThread, Environment

\* The bookkeeping conjuncts: what holds before registration, that the map
\* is empty before the scan and after the drain, and that entries wait to be
\* stopped only while they are being stopped.
LEMMA PhaseStep ==
    TypeOK /\ OrphanInv /\ [Next]_vars =>
        /\ (pc = "open" => todo = {} /\ devq = <<>>)'
        /\ (pc \in {"open", "announce", "drain", "stopped"} => mounts = {})'
        /\ (stops # {} => pc \in {"unmount", "drain"})'
<1> SUFFICES ASSUME TypeOK, OrphanInv, [Next]_vars
             PROVE  /\ pc' = "open" => todo' = {} /\ devq' = <<>>
                    /\ pc' \in {"open", "announce", "drain", "stopped"} => mounts' = {}
                    /\ stops' # {} => pc' \in {"unmount", "drain"}
  OBVIOUS
<1> USE DEF OrphanInv, locals, queues, machine, run
<1>1. CASE OpenPump \/ AnnounceRunning BY <1>1 DEF OpenPump, AnnounceRunning
<1>2. CASE RescanSnapshot \/ RescanEnumerate \/ ArrivalGate \/ ArrivalsDone
  BY <1>2 DEF RescanSnapshot, RescanEnumerate, ArrivalGate, ArrivalsDone
<1>3. CASE ListPartitions \/ ProbePartition \/ PartitionsDone \/ PickLetter \/ StartMount
  BY <1>3 DEF ListPartitions, ProbePartition, PartitionsDone, PickLetter, StartMount
<1>4. CASE HandleArrival \/ HandleRemoval \/ HandleRescan \/ HandleQuit
  BY <1>4 DEF HandleArrival, HandleRemoval, HandleRescan, HandleQuit
<1>5. CASE StopMount \/ RemovalDone \/ TearDown \/ ReportStopped
  BY <1>5 DEF StopMount, RemovalDone, TearDown, ReportStopped
<1>6. CASE ControlHandler
  BY <1>6 DEF ControlHandler, ControlStop, PostQuit, ControlSession
<1>7. CASE DiskEvent
  BY <1>7 DEF DiskEvent, PlugIn, Unplug, Notify, Registered
<1>8. CASE AttachConsole \/ DetachConsole \/ RequestStop
  BY <1>8 DEF AttachConsole, DetachConsole, RequestStop
<1>9. CASE InstanceReady \/ InstanceExits \/ OtherProgramLetter
  BY <1>9 DEF InstanceReady, InstanceExits, OtherProgramLetter
<1>10. CASE Crash \/ Restart BY <1>10 DEF Crash, Restart, MemoryLost
<1>11. CASE UNCHANGED vars BY <1>11 DEF vars
<1> QED
  BY <1>1, <1>2, <1>3, <1>4, <1>5, <1>6, <1>7, <1>8, <1>9, <1>10, <1>11
  DEF Next, PumpThread, Environment

\* The invariants hold in every reachable state.
LEMMA InvCorrect == Spec => [](TypeOK /\ RemovalInv /\ OrphanInv)
<1>1. Init => TypeOK /\ RemovalInv /\ OrphanInv
  BY DiskBusAssumption, TypeInit
  DEF Init, RemovalInv, OrphanInv, FreshInv, InArrival, NoOrphanMount, Registered
<1>2. TypeOK /\ RemovalInv /\ OrphanInv /\ [Next]_vars => OrphanInv'
  BY QueueStep, FreshStep, OrphanStep, PhaseStep DEF OrphanInv
<1> QED BY <1>1, <1>2, TypeStep, RemovalStep, PTL DEF Spec

\* No mount is ever left behind by the service: not by a stop request that
\* overtakes a start, not by removals and arrivals in any order, not by a
\* rescan between them.
THEOREM NothingOrphaned == Spec => []NoOrphanMount
<1>1. OrphanInv => NoOrphanMount BY DEF OrphanInv
<1> QED BY <1>1, InvCorrect, PTL

-----------------------------------------------------------------------------
(* A rescan works on one path per device, and on devices without entries   *)
(* under either spelling.                                                  *)

RescanInv ==
    /\ \A p, q \in todo : same_device(p, q) => p = q
    /\ \A p \in todo : (p.spelling = "lower" /\ p.device \notin LowerCase) =>
         \A m \in mounts : ~same_device(m.path, p)
    /\ InArrival => \A p \in todo : ~same_device(p, path)
    /\ (InArrival /\ path.spelling = "lower" /\ path.device \notin LowerCase) =>
         \A m \in mounts : same_device(m.path, path) => m.path = path

\* A rescan path goes on holding no running mount, after any step.
LEMMA RescanStep == TypeOK /\ OrphanInv /\ RescanInv /\ [Next]_vars => RescanInv'
<1> SUFFICES ASSUME TypeOK, OrphanInv, RescanInv, [Next]_vars PROVE RescanInv'
  OBVIOUS
<1> USE DEF locals, queues, machine, run, same_device
<1>i. /\ todo # {} => pc = "next" \/ InArrival
      /\ pc = "enumerate" => tracked = {m.path : m \in mounts}
  BY DEF OrphanInv, FreshInv
<1>a. ASSUME mounts' \subseteq mounts, todo' \subseteq todo, path' = path,
             InArrival' => InArrival
      PROVE  RescanInv'
  BY <1>a DEF RescanInv
<1>1. CASE OpenPump \/ AnnounceRunning
  BY <1>1, <1>a DEF OpenPump, AnnounceRunning, InArrival
<1>2. CASE RescanSnapshot \/ ArrivalsDone \/ ListPartitions \/ ProbePartition
             \/ PartitionsDone \/ PickLetter
  BY <1>2, <1>a DEF RescanSnapshot, ArrivalsDone, ListPartitions, ProbePartition,
                    PartitionsDone, PickLetter, InArrival
<1>3. CASE RescanEnumerate
  <2>1. CASE pc' = "get" /\ UNCHANGED todo
    BY <1>3, <1>a, <2>1 DEF RescanEnumerate, InArrival
  <2>2. CASE pc' = "next"
    <3>1. PICK listed \in Listings : todo' = disks_to_probe(listed, tracked)
      BY <1>3, <2>2 DEF RescanEnumerate
    <3>2. \A p \in listed : \E d \in Disks : p = SetupPath(d)
      BY DEF Listings, TypeOK, DiskBusTypeOK
    <3>3. \A p, q \in todo' : p.device = q.device => p = q
      BY <3>1, <3>2 DEF disks_to_probe, SetupPath
    <3>4. \A p \in todo', m \in mounts : m.path.device # p.device
      BY <1>3, <1>i, <3>1 DEF disks_to_probe, RescanEnumerate
    <3> QED BY <1>3, <2>2, <3>3, <3>4 DEF RescanEnumerate, RescanInv, InArrival
  <2> QED BY <1>3, <2>1, <2>2 DEF RescanEnumerate
<1>4. CASE ArrivalGate BY <1>4 DEF ArrivalGate, RescanInv, InArrival
<1>5. CASE StartMount
  <2>1. \A m \in mounts' : m \in mounts \/ m.path = path
    BY <1>5 DEF StartMount, StartSucceeds, StartFails, Track, Insert
  <2> QED BY <1>5, <2>1 DEF StartMount, RescanInv, InArrival
<1>6. CASE HandleArrival
  <2> DEFINE p == ArrivalPath(Head(devq).disk)
  <2>1. todo' = {p} /\ ~InArrival' /\ UNCHANGED <<mounts, path>>
    BY <1>6 DEF HandleArrival, InArrival
  <2>2. p.spelling = "lower" => p.device \in LowerCase BY DEF ArrivalPath
  <2> QED BY <2>1, <2>2 DEF RescanInv
<1>7. CASE HandleRemoval \/ HandleRescan \/ HandleQuit
  BY <1>7, <1>a DEF HandleRemoval, HandleRescan, HandleQuit, EntriesOf, InArrival
<1>8. CASE StopMount \/ RemovalDone \/ TearDown \/ ReportStopped
  BY <1>8, <1>a DEF StopMount, RemovalDone, TearDown, ReportStopped, InArrival
<1>9. CASE ControlHandler
  BY <1>9, <1>a DEF ControlHandler, ControlStop, PostQuit, ControlSession, InArrival
<1>10. CASE DiskEvent \/ AttachConsole \/ DetachConsole \/ RequestStop
  BY <1>10, <1>a DEF DiskEvent, AttachConsole, DetachConsole, RequestStop, InArrival
<1>11. CASE InstanceReady \/ InstanceExits \/ OtherProgramLetter
  BY <1>11, <1>a DEF InstanceReady, InstanceExits, OtherProgramLetter, InArrival
<1>12. CASE Crash \/ Restart
  BY <1>12, <1>a DEF Crash, Restart, MemoryLost, InArrival
<1>13. CASE UNCHANGED vars BY <1>13, <1>a DEF vars, InArrival
<1> QED
  BY <1>1, <1>2, <1>3, <1>4, <1>5, <1>6, <1>7, <1>8, <1>9, <1>10, <1>11, <1>12, <1>13
  DEF Next, PumpThread, Environment

\* A rescan never mounts a volume that is mounted already: the snapshot it
\* took of the map is never stale where it matters.
THEOREM RescanSafe == Spec => []RescanNeverRemounts
<1>1. Init => RescanInv BY DEF Init, RescanInv, InArrival
<1>2. TypeOK /\ OrphanInv /\ RescanInv => RescanNeverRemounts
  <2> SUFFICES ASSUME TypeOK, OrphanInv, RescanInv,
                      Faults \cap {"locate", "stop"} = {}, pc = "start",
                      path.spelling = "lower", path.device \notin LowerCase,
                      NEW i \in instances \ survivors, i.disk = path.device, i.part = part
               PROVE  FALSE
    BY DEF RescanNeverRemounts
  <2>1. PICK m \in mounts \cup stops : m.path.device = i.disk /\ m.part = i.part
    BY DEF OrphanInv, NoOrphanMount
  <2>2. m \in mounts BY <2>1 DEF OrphanInv
  <2>3. m.path = path BY <2>1, <2>2 DEF RescanInv, InArrival, same_device
  <2>4. m.part < part BY <2>2, <2>3 DEF OrphanInv, FreshInv, InArrival
  <2> QED BY <2>1, <2>4 DEF TypeOK
<1> QED BY <1>1, <1>2, InvCorrect, RescanStep, PTL DEF Spec
=============================================================================
