---------------------------- MODULE WatcherProofs ----------------------------
(***************************************************************************)
(* Theorems of Watcher, for every number of disks, letters, events and     *)
(* every choice of faults.  The watcher's arguments are the service's;     *)
(* what is new are the handles: a mount is known by its process and not by *)
(* its letter, so nothing has to be assumed of letters or of mounts that   *)
(* end by themselves.                                                      *)
(***************************************************************************)
EXTENDS Watcher, DiskBusProofs, FiniteSetTheorems

-----------------------------------------------------------------------------
(* TypeOK.  A new process gets an id nobody has, which there always is     *)
(* because there are finitely many processes and handles.                  *)

TypeInv ==
    /\ TypeOK
    /\ pc = "spawn" => letter \in Letters
    /\ IsFiniteSet(children) /\ IsFiniteSet(mounts \cup stops)

\* The id of a new process is no running process's and no handle's.
LEMMA NewIdFresh ==
    ASSUME IsFiniteSet(children), IsFiniteSet(mounts \cup stops)
    PROVE  /\ NewId \in Nat
           /\ \A c \in children : c.id # NewId
           /\ \A m \in mounts \cup stops : m.child # NewId
<1> DEFINE procs == {c.id : c \in children}
           handles == {m.child : m \in mounts \cup stops}
           used == procs \cup handles
<1>1. IsFiniteSet(procs)
  <2>1. [c \in children |-> c.id] \in Surjection(children, procs) BY DEF Surjection
  <2> QED BY <2>1, FS_Surjection
<1>2. IsFiniteSet(handles)
  <2>1. [m \in mounts \cup stops |-> m.child] \in Surjection(mounts \cup stops, handles)
    BY DEF Surjection
  <2> QED BY <2>1, FS_Surjection
<1>3. IsFiniteSet(used) BY <1>1, <1>2, FS_Union
<1>4. Cardinality(used) \in Nat BY <1>3, FS_CardinalityType
<1>5. \E n \in 0..Cardinality(used) : n \notin used
  <2> DEFINE k == Cardinality(used)
  <2>1. k \in Nat BY <1>4
  <2> HIDE DEF k
  <2>2. Cardinality(0..k) = k + 1 BY <2>1, FS_Interval
  <2>3. 0..k \in SUBSET used => Cardinality(0..k) <= k BY <1>3, FS_Subset DEF k
  <2>4. ~(0..k \subseteq used) BY <2>1, <2>2, <2>3
  <2> QED BY <2>4 DEF k
<1>6. NewId \in 0..Cardinality(used) /\ NewId \notin used BY <1>5 DEF NewId
<1> QED BY <1>4, <1>6

\* Every path the set-up API lists is a path.
LEMMA ListingsType ==
    ASSUME TypeOK, NEW listed \in Listings PROVE listed \subseteq Paths
  BY DEF Listings, SetupPath, Paths, TypeOK, DiskBusTypeOK

\* Processes and handles come one at a time.
LEMMA FiniteStep ==
    ASSUME TypeInv, [Next]_vars
    PROVE  IsFiniteSet(children') /\ IsFiniteSet((mounts \cup stops)')
<1> USE DEF locals, ctrlc, machine, run
<1>i. IsFiniteSet(children) /\ IsFiniteSet(mounts \cup stops) BY DEF TypeInv
<1>a. ASSUME children' \subseteq children, (mounts \cup stops)' \subseteq mounts \cup stops
      PROVE  IsFiniteSet(children') /\ IsFiniteSet((mounts \cup stops)')
  BY <1>a, <1>i, FS_Subset
<1>1. CASE SpawnMount
  <2> DEFINE e == [path |-> path, part |-> part, letter |-> letter, child |-> NewId]
             c == [id |-> NewId, disk |-> path.device, part |-> part, letter |-> letter]
  <2>1. CASE mounts' = Insert(mounts, e) /\ children' = children \cup {c} /\ stops' = stops
    <3>1. (mounts \cup stops)' \subseteq (mounts \cup stops) \cup {e}
      BY <2>1 DEF Insert
    <3> HIDE DEF c, e
    <3>2. IsFiniteSet((mounts \cup stops) \cup {e}) BY <1>i, FS_AddElement
    <3>3. IsFiniteSet((mounts \cup stops)') BY <3>1, <3>2, FS_Subset
    <3>4. IsFiniteSet(children \cup {c}) BY <1>i, FS_AddElement
    <3> QED BY <2>1, <3>3, <3>4
  <2>2. CASE UNCHANGED <<mounts, children, stops>> BY <1>i, <2>2
  <2> QED BY <1>1, <2>1, <2>2 DEF SpawnMount
<1>2. CASE OpenWindow \/ RegisterNotifications \/ RescanSnapshot \/ RescanEnumerate
  BY <1>2, <1>a DEF OpenWindow, RegisterNotifications, RescanSnapshot, RescanEnumerate
<1>3. CASE ArrivalGate \/ ArrivalsDone \/ ListPartitions \/ ProbePartition
             \/ PartitionsDone \/ PickLetter
  BY <1>3, <1>a DEF ArrivalGate, ArrivalsDone, ListPartitions, ProbePartition,
     PartitionsDone, PickLetter
<1>4. CASE HandleArrival \/ HandleRemoval \/ HandleQuit
  BY <1>4, <1>a DEF HandleArrival, HandleRemoval, HandleQuit, EntriesOf
<1>5. CASE KillChild \/ RemovalDone \/ TearDown \/ Exit
  BY <1>5, <1>a DEF KillChild, RemovalDone, TearDown, Exit
<1>6. CASE CtrlCHandler BY <1>6, <1>a DEF CtrlCHandler, SetFlag, PostQuit
<1>7. CASE DiskEvent \/ CtrlC \/ OtherProgramLetter
  BY <1>7, <1>a DEF DiskEvent, CtrlC, OtherProgramLetter
<1>8. CASE ChildReady \/ ChildFails \/ ChildExits
  BY <1>8, <1>a DEF ChildReady, ChildFails, ChildExits
<1>9. CASE UNCHANGED vars BY <1>9, <1>i DEF vars
<1> QED
  BY <1>1, <1>2, <1>3, <1>4, <1>5, <1>6, <1>7, <1>8, <1>9
  DEF Next, PumpThread, Environment

\* Every step of either thread and of the machine preserves the types.
LEMMA TypeStep == TypeInv /\ [Next]_vars => TypeInv'
<1> SUFFICES ASSUME TypeInv, [Next]_vars PROVE TypeOK' /\ (pc = "spawn" => letter \in Letters)'
  BY FiniteStep DEF TypeInv
<1> USE DEF TypeOK, DiskBusTypeOK, locals, ctrlc, machine, run
<1>i. TypeOK /\ (pc = "spawn" => letter \in Letters) BY DEF TypeInv
<1>1. CASE OpenWindow \/ RegisterNotifications
  BY <1>1, <1>i DEF OpenWindow, RegisterNotifications
<1>2. CASE RescanSnapshot BY <1>2, <1>i DEF RescanSnapshot, Entry
<1>3. CASE RescanEnumerate
  BY <1>3, <1>i, ListingsType DEF RescanEnumerate, disks_to_probe
<1>4. CASE ArrivalGate \/ ArrivalsDone BY <1>4, <1>i DEF ArrivalGate, ArrivalsDone
<1>5. CASE ListPartitions BY <1>5, <1>i, PartNumbers DEF ListPartitions, Paths
<1>6. CASE ProbePartition \/ PartitionsDone
  BY <1>6, <1>i DEF ProbePartition, PartitionsDone
<1>7. CASE PickLetter BY <1>7, <1>i, PickType DEF PickLetter
<1>8. CASE SpawnMount
  <2> DEFINE e == [path |-> path, part |-> part, letter |-> letter, child |-> NewId]
             c == [id |-> NewId, disk |-> path.device, part |-> part, letter |-> letter]
  <2>1. NewId \in Nat BY NewIdFresh DEF TypeInv
  <2>2. e \in Entry /\ c \in Child
    BY <1>8, <1>i, <2>1 DEF SpawnMount, Entry, Child, Paths
  <2>3. c.id = NewId OBVIOUS
  <2>4. CASE /\ mounts' = Insert(mounts, e) /\ children' = children \cup {c}
             /\ ready' \subseteq ready \cup {NewId}
    <3> HIDE DEF c, e
    <3>1. mounts' \subseteq Entry /\ children' \subseteq Child
      BY <1>i, <2>2, <2>4 DEF Insert
    <3>2. ready' \subseteq {k.id : k \in children'} BY <1>i, <2>3, <2>4
    <3> QED BY <1>8, <1>i, <3>1, <3>2 DEF SpawnMount
  <2>5. CASE UNCHANGED <<mounts, run>> BY <1>8, <1>i, <2>5 DEF SpawnMount
  <2> QED BY <1>8, <2>4, <2>5 DEF SpawnMount
<1>9. CASE HandleArrival
  <2>1. Head(devq).disk \in Disks /\ Tail(devq) \in Seq(Notifications)
    BY <1>9, <1>i, HeadNotice, TailFacts DEF HandleArrival
  <2> QED BY <1>9, <1>i, <2>1, ArrivalPathType DEF HandleArrival
<1>10. CASE HandleRemoval
  <2>1. Head(devq).disk \in Disks /\ Tail(devq) \in Seq(Notifications)
    BY <1>10, <1>i, HeadNotice, TailFacts DEF HandleRemoval
  <2> QED BY <1>10, <1>i, <2>1, ArrivalPathType DEF HandleRemoval, EntriesOf
<1>11. CASE HandleQuit BY <1>11, <1>i DEF HandleQuit
<1>12. CASE KillChild BY <1>12, <1>i DEF KillChild
<1>13. CASE RemovalDone \/ Exit BY <1>13, <1>i DEF RemovalDone, Exit
<1>14. CASE TearDown BY <1>14, <1>i, EmptyQueue DEF TearDown
<1>15. CASE SetFlag BY <1>15, <1>i DEF SetFlag
<1>16. CASE PostQuit BY <1>16, <1>i DEF PostQuit
<1>17. CASE DiskEvent
  <2>1. present' \subseteq Disks BY <1>17, <1>i DEF DiskEvent, PlugIn, Unplug
  <2>2. PICK e \in {"arrival", "removal"}, d \in Disks : Notify(e, d, Registered)
    BY <1>17 DEF DiskEvent, PlugIn, Unplug
  <2>3. [event |-> e, disk |-> d] \in Notifications BY DEF Notifications
  <2>4. devq' \in Seq(Notifications) BY <1>i, <2>2, <2>3 DEF Notify
  <2> QED BY <1>17, <1>i, <2>1, <2>4 DEF DiskEvent, Event
<1>18. CASE CtrlC BY <1>18, <1>i DEF CtrlC, Event
<1>19. CASE ChildReady BY <1>19, <1>i DEF ChildReady
<1>20. CASE ChildFails BY <1>20, <1>i DEF ChildFails
<1>21. CASE ChildExits BY <1>21, <1>i DEF ChildExits, Event
<1>22. CASE OtherProgramLetter BY <1>22, <1>i DEF OtherProgramLetter, Event
<1>23. CASE UNCHANGED vars BY <1>23, <1>i DEF vars
<1> QED
  BY <1>1, <1>2, <1>3, <1>4, <1>5, <1>6, <1>7, <1>8, <1>9, <1>10, <1>11, <1>12, <1>13,
     <1>14, <1>15, <1>16, <1>17, <1>18, <1>19, <1>20, <1>21, <1>22, <1>23
  DEF Next, PumpThread, CtrlCHandler, Environment

\* The watcher starts well typed.
LEMMA TypeInit == Init => TypeInv
<1> SUFFICES ASSUME Init PROVE TypeInv
  OBVIOUS
<1>1. PICK d \in Disks : TRUE BY DiskBusAssumption
<1>2. SetupPath(d) \in Paths BY <1>1 DEF SetupPath, Paths
<1>3. path \in Paths BY <1>2 DEF Init
<1>4. IsFiniteSet(children) /\ IsFiniteSet(mounts \cup stops)
  BY FS_EmptySet DEF Init
<1> QED BY <1>3, <1>4, EmptyQueue DEF Init, TypeInv, TypeOK, DiskBusTypeOK

\* TypeInv holds in every reachable state.
LEMMA TypeInvCorrect == Spec => []TypeInv
  BY TypeInit, TypeStep, PTL DEF Spec

\* The watcher's state is well typed in every reachable state.
THEOREM TypeCorrect == Spec => []TypeOK
<1>1. TypeInv => TypeOK BY DEF TypeInv
<1> QED BY <1>1, TypeInvCorrect, PTL

-----------------------------------------------------------------------------
(* RemovalPending.  The notifications of a disk alternate as it comes and  *)
(* goes, so that whatever the pump thread has begun with a disk, the disk  *)
(* is there or the removal that undoes it is still to come.                *)

InArrival == pc \in {"list", "probe", "pick", "spawn"}

\* What the pump thread holds in hand, by where it is.
PhaseInv ==
    /\ pc \in {"open", "register"} => devq = <<>>
    /\ pc \in {"open", "register", "snapshot", "enumerate", "drain", "stopped"} => mounts = {}
    /\ todo # {} => pc = "next" \/ InArrival
    /\ stops # {} => pc \in {"unmount", "drain"}

OrderInv ==
    Registered =>
        /\ \A d \in Disks : Ordered(devq, present, d)
        /\ \A p \in todo : Noticed(p.device)
        /\ InArrival => Noticed(path.device)
        /\ \A m \in mounts : Noticed(m.path.device)

\* Every step keeps to its phase.
LEMMA PhaseStep == TypeInv /\ PhaseInv /\ [Next]_vars => PhaseInv'
<1> SUFFICES ASSUME TypeInv, PhaseInv, [Next]_vars PROVE PhaseInv'
  OBVIOUS
<1> USE DEF PhaseInv, InArrival, locals, ctrlc, machine, run
<1>1. CASE OpenWindow \/ RegisterNotifications
  BY <1>1 DEF OpenWindow, RegisterNotifications
<1>2. CASE RescanSnapshot \/ RescanEnumerate
  BY <1>2 DEF RescanSnapshot, RescanEnumerate
<1>3. CASE ArrivalGate \/ ArrivalsDone \/ ListPartitions \/ ProbePartition \/ PartitionsDone
  BY <1>3 DEF ArrivalGate, ArrivalsDone, ListPartitions, ProbePartition, PartitionsDone
<1>4. CASE PickLetter \/ SpawnMount BY <1>4 DEF PickLetter, SpawnMount
<1>5. CASE HandleArrival \/ HandleRemoval \/ HandleQuit
  BY <1>5 DEF HandleArrival, HandleRemoval, HandleQuit, EntriesOf
<1>6. CASE KillChild \/ RemovalDone \/ TearDown \/ Exit
  BY <1>6 DEF KillChild, RemovalDone, TearDown, Exit
<1>7. CASE CtrlCHandler BY <1>7 DEF CtrlCHandler, SetFlag, PostQuit
<1>8. CASE DiskEvent
  BY <1>8 DEF DiskEvent, PlugIn, Unplug, Notify, Registered
<1>9. CASE CtrlC \/ ChildReady \/ ChildFails \/ ChildExits \/ OtherProgramLetter
  BY <1>9 DEF CtrlC, ChildReady, ChildFails, ChildExits, OtherProgramLetter
<1>10. CASE UNCHANGED vars BY <1>10 DEF vars
<1> QED
  BY <1>1, <1>2, <1>3, <1>4, <1>5, <1>6, <1>7, <1>8, <1>9, <1>10
  DEF Next, PumpThread, Environment

\* Steps that leave the disks and the queue alone.
Quiet ==
    \/ OpenWindow \/ RegisterNotifications \/ RescanSnapshot \/ RescanEnumerate
    \/ ArrivalGate \/ ArrivalsDone \/ ListPartitions \/ ProbePartition \/ PartitionsDone
    \/ PickLetter \/ SpawnMount \/ HandleQuit \/ KillChild \/ RemovalDone \/ Exit
    \/ CtrlCHandler \/ CtrlC \/ ChildReady \/ ChildFails \/ ChildExits
    \/ OtherProgramLetter \/ UNCHANGED vars

\* What a step does to the disks and to the queue.
LEMMA BusStep ==
    ASSUME [Next]_vars
    PROVE  \/ Quiet /\ UNCHANGED <<present, devq>>
           \/ HandleArrival \/ HandleRemoval \/ TearDown \/ DiskEvent
<1> USE DEF locals, ctrlc, machine, run
<1>1. ASSUME Quiet PROVE UNCHANGED <<present, devq>>
  <2>1. CASE OpenWindow \/ RegisterNotifications \/ RescanSnapshot \/ RescanEnumerate
               \/ ArrivalGate \/ ArrivalsDone
    BY <2>1 DEF OpenWindow, RegisterNotifications, RescanSnapshot, RescanEnumerate,
       ArrivalGate, ArrivalsDone
  <2>2. CASE ListPartitions \/ ProbePartition \/ PartitionsDone \/ PickLetter \/ SpawnMount
    BY <2>2 DEF ListPartitions, ProbePartition, PartitionsDone, PickLetter, SpawnMount
  <2>3. CASE HandleQuit \/ KillChild \/ RemovalDone \/ Exit \/ CtrlCHandler
    BY <2>3 DEF HandleQuit, KillChild, RemovalDone, Exit, CtrlCHandler, SetFlag, PostQuit
  <2>4. CASE CtrlC \/ ChildReady \/ ChildFails \/ ChildExits \/ OtherProgramLetter
               \/ UNCHANGED vars
    BY <2>4 DEF CtrlC, ChildReady, ChildFails, ChildExits, OtherProgramLetter, vars
  <2> QED BY <1>1, <2>1, <2>2, <2>3, <2>4 DEF Quiet
<1> QED BY <1>1 DEF Next, PumpThread, Environment, Quiet

\* A disk that comes or goes while notifications are on is queued.
LEMMA DiskEventMoves ==
    ASSUME DiskEvent
    PROVE  /\ Registered => \E c \in Disks : Moves(c)
           /\ UNCHANGED <<pc, mounts, shutting_down, stops, locals, path, ctrlc, foreign, run>>
  BY DEF DiskEvent, PlugIn, Unplug, Notify, Moves, Arr, Rem

\* What is noticed stays so until its removal is dispatched.
LEMMA NoticedNext ==
    ASSUME TypeInv, Registered, Registered', [Next]_vars, NEW d, Noticed(d),
           ~(HandleRemoval /\ Head(devq).disk = d)
    PROVE  Noticed(d)'
<1>t. DiskBusTypeOK BY DEF TypeInv, TypeOK
<1>1. CASE UNCHANGED <<present, devq>> BY <1>1, NoticedStable
<1>2. CASE HandleArrival BY <1>2, <1>t, RemovalAfterDispatch DEF HandleArrival
<1>3. CASE HandleRemoval BY <1>3, <1>t, RemovalAfterDispatch DEF HandleRemoval
<1>4. CASE TearDown BY <1>4 DEF TearDown, Registered
<1>5. CASE DiskEvent BY <1>5, <1>t, DiskEventMoves, NoticedAfterMove
<1> QED BY <1>1, <1>2, <1>3, <1>4, <1>5, BusStep

\* The queue stays in order.
LEMMA OrderedNext ==
    ASSUME TypeInv, Registered, Registered', [Next]_vars, NEW d \in Disks,
           Ordered(devq, present, d)
    PROVE  Ordered(devq, present, d)'
<1>t. DiskBusTypeOK BY DEF TypeInv, TypeOK
<1> SUFFICES Ordered(devq', present', d)
  BY DEF Ordered, Alternating, ArrivalsUndone, RemovalsUndone
<1>1. CASE UNCHANGED <<present, devq>> BY <1>1
<1>2. CASE HandleArrival \/ HandleRemoval
  BY <1>2, <1>t, OrderedKept DEF HandleArrival, HandleRemoval
<1>3. CASE TearDown BY <1>3 DEF TearDown, Registered
<1>4. CASE DiskEvent BY <1>4, <1>t, DiskEventMoves, OrderedKept
<1> QED BY <1>1, <1>2, <1>3, <1>4, BusStep

\* Every step preserves the strengthened invariant.
LEMMA OrderStep == TypeInv /\ PhaseInv /\ OrderInv /\ [Next]_vars => OrderInv'
<1> SUFFICES ASSUME TypeInv, PhaseInv, OrderInv, [Next]_vars, Registered' PROVE OrderInv'
  BY DEF OrderInv
<1> USE DEF locals, ctrlc, machine, run
<1>t. TypeOK BY DEF TypeInv
<1>1. CASE RegisterNotifications
  <2>1. devq' = <<>> /\ mounts' = {} /\ todo' = {} /\ pc' = "snapshot"
    BY <1>1 DEF RegisterNotifications, PhaseInv, InArrival, Registered
  <2>2. Len(devq') = 0 BY <2>1
  <2> QED
    BY <2>1, <2>2 DEF OrderInv, InArrival, Ordered, Alternating, ArrivalsUndone, RemovalsUndone
<1>2. CASE OpenWindow BY <1>2 DEF OpenWindow, Registered
<1>r. CASE ~RegisterNotifications /\ ~OpenWindow
  <2>r. Registered
    <3>1. SUFFICES ASSUME pc \in {"open", "register", "drain", "stopped"} PROVE pc' = pc
      BY <3>1 DEF Registered
    <3>2. CASE PumpThread
      BY <1>r, <3>1, <3>2 DEF PumpThread, RescanSnapshot, RescanEnumerate, ArrivalGate,
         ArrivalsDone, ListPartitions, ProbePartition, PartitionsDone, PickLetter, SpawnMount,
         HandleArrival, HandleRemoval, HandleQuit, KillChild, RemovalDone, TearDown, Exit,
         Registered
    <3>3. CASE CtrlCHandler BY <3>3 DEF CtrlCHandler, SetFlag, PostQuit
    <3>4. CASE Environment
      BY <3>4 DEF Environment, DiskEvent, CtrlC, ChildReady, ChildFails, ChildExits,
         OtherProgramLetter
    <3> QED BY <3>2, <3>3, <3>4 DEF Next, vars
  <2>o. \A d \in Disks : Ordered(devq, present, d)' BY <2>r, OrderedNext DEF OrderInv
  <2>n. ASSUME NEW d, Noticed(d), ~(HandleRemoval /\ Head(devq).disk = d) PROVE Noticed(d)'
    BY <2>r, <2>n, NoticedNext
  \* Most steps give no disk a new place in the map or in handle_arrival.
  <2>a. ASSUME ~HandleRemoval, mounts' \subseteq mounts, todo' \subseteq todo,
               InArrival' => InArrival /\ path' = path
        PROVE  OrderInv'
    <3>1. \A m \in mounts' : Noticed(m.path.device)' BY <2>r, <2>n, <2>a DEF OrderInv
    <3>2. \A p \in todo' : Noticed(p.device)' BY <2>r, <2>n, <2>a DEF OrderInv
    <3>3. InArrival' => Noticed(path.device)'
      BY <2>r, <2>n, <2>a DEF OrderInv, Noticed, RemovalQueued
    <3> QED BY <2>o, <3>1, <3>2, <3>3 DEF OrderInv
  <2>1. CASE RescanSnapshot \/ ArrivalsDone \/ ListPartitions \/ ProbePartition
               \/ PartitionsDone \/ PickLetter
    <3>1. ~HandleRemoval
      BY <2>1 DEF RescanSnapshot, ArrivalsDone, ListPartitions, ProbePartition,
         PartitionsDone, PickLetter, HandleRemoval
    <3> QED
      BY <2>1, <3>1, <2>a DEF RescanSnapshot, ArrivalsDone, ListPartitions, ProbePartition,
         PartitionsDone, PickLetter, InArrival
  <2>2. CASE RescanEnumerate
    <3>1. \A listed \in Listings : \A p \in listed : Noticed(p.device)
      BY DEF Listings, SetupPath, Noticed
    <3>2. \A p \in todo' : Noticed(p.device)
      BY <2>2, <2>r, <3>1 DEF RescanEnumerate, disks_to_probe, OrderInv
    <3>3. ~HandleRemoval /\ ~InArrival' /\ mounts' = mounts
      BY <2>2 DEF RescanEnumerate, HandleRemoval, InArrival
    <3>4. \A p \in todo' : Noticed(p.device)' BY <3>2, <3>3, <2>n
    <3>5. \A m \in mounts' : Noticed(m.path.device)' BY <2>r, <2>n, <3>3 DEF OrderInv
    <3> QED BY <2>o, <3>3, <3>4, <3>5 DEF OrderInv
  <2>3. CASE ArrivalGate
    <3>1. /\ ~HandleRemoval /\ mounts' = mounts /\ todo' \subseteq todo
          /\ InArrival' => path' \in todo
      BY <2>3 DEF ArrivalGate, HandleRemoval, InArrival
    <3>2. \A m \in mounts' : Noticed(m.path.device)' BY <2>r, <2>n, <3>1 DEF OrderInv
    <3>3. \A p \in todo : Noticed(p.device)' BY <2>r, <2>n, <3>1 DEF OrderInv
    <3>4. InArrival' => Noticed(path.device)'
      BY <3>1, <3>3 DEF Noticed, RemovalQueued
    <3> QED BY <2>o, <3>1, <3>2, <3>3, <3>4 DEF OrderInv
  <2>4. CASE SpawnMount
    <3>1. /\ ~HandleRemoval /\ UNCHANGED <<todo, path>> /\ InArrival
          /\ \A m \in mounts' : m \in mounts \/ m.path = path
      BY <2>4 DEF SpawnMount, HandleRemoval, InArrival, Insert
    <3>2. \A p \in todo : Noticed(p.device)' BY <2>r, <2>n, <3>1 DEF OrderInv
    <3>3. Noticed(path.device)' BY <2>r, <2>n, <3>1 DEF OrderInv, Noticed, RemovalQueued
    <3>4. \A m \in mounts : Noticed(m.path.device)' BY <2>r, <2>n, <3>1 DEF OrderInv
    <3>5. \A m \in mounts' : Noticed(m.path.device)'
      BY <3>1, <3>3, <3>4 DEF Noticed, RemovalQueued
    <3> QED BY <2>o, <3>1, <3>2, <3>3, <3>5 DEF OrderInv
  <2>5. CASE HandleArrival
    <3> DEFINE d == Head(devq).disk
    <3>1. /\ ~HandleRemoval /\ ~InArrival' /\ mounts' = mounts
          /\ todo' = {ArrivalPath(d)} /\ ArrivalPath(d).device = d
          /\ devq # <<>> /\ devq' = Tail(devq) /\ UNCHANGED present
      BY <2>5 DEF HandleArrival, HandleRemoval, InArrival, ArrivalPath
    <3>2. d \in Disks /\ Head(devq) = Arr(d)
      BY <2>5, <1>t, HeadNotice DEF HandleArrival, TypeOK
    <3> HIDE DEF d
    <3>3. ASSUME NEW c, c = d PROVE Noticed(c)'
      BY <3>1, <3>2, <3>3, <2>r, <1>t, NoticedAfterArrival DEF OrderInv, TypeOK
    <3>4. \A p \in todo' : Noticed(p.device)' BY <3>1, <3>3
    <3>5. \A m \in mounts' : Noticed(m.path.device)' BY <2>r, <2>n, <3>1 DEF OrderInv
    <3> QED BY <2>o, <3>1, <3>4, <3>5 DEF OrderInv
  <2>6. CASE HandleRemoval
    <3>1. /\ todo' = {} /\ ~InArrival' /\ mounts' \subseteq mounts
          /\ \A m \in mounts' : m.path.device # Head(devq).disk
      BY <2>6 DEF HandleRemoval, PhaseInv, InArrival, EntriesOf, same_device, ArrivalPath
    <3>2. \A m \in mounts' : Noticed(m.path.device)' BY <2>r, <2>n, <3>1 DEF OrderInv
    <3> QED BY <2>o, <3>1, <3>2 DEF OrderInv
  <2>7. CASE HandleQuit \/ RemovalDone \/ KillChild
    <3>1. ~HandleRemoval BY <2>7 DEF HandleQuit, RemovalDone, KillChild, HandleRemoval
    <3> QED BY <2>7, <3>1, <2>a DEF HandleQuit, RemovalDone, KillChild, InArrival
  <2>8. CASE TearDown \/ Exit BY <2>8 DEF TearDown, Exit, Registered
  <2>9. CASE CtrlCHandler \/ DiskEvent \/ CtrlC \/ ChildReady \/ ChildFails \/ ChildExits
               \/ OtherProgramLetter \/ UNCHANGED vars
    <3>1. UNCHANGED <<pc, mounts, todo, path>>
      BY <2>9 DEF CtrlCHandler, SetFlag, PostQuit, DiskEvent, CtrlC, ChildReady, ChildFails,
         ChildExits, OtherProgramLetter, vars
    <3>2. ~HandleRemoval BY <3>1 DEF HandleRemoval
    <3> QED BY <3>1, <3>2, <2>a DEF InArrival
  <2> QED
    BY <1>r, <2>1, <2>2, <2>3, <2>4, <2>5, <2>6, <2>7, <2>8, <2>9
    DEF Next, PumpThread, Environment
<1> QED BY <1>1, <1>2, <1>r

\* No mount outlives its disk unnoticed: not when the disk goes during the
\* start-up scan, during a mount, or between an arrival and its dispatch.
THEOREM RemovalNeverMissed == Spec => []RemovalPending
<1>1. Init => PhaseInv /\ OrderInv
  BY DEF Init, PhaseInv, OrderInv, InArrival, Registered
<1>2. OrderInv => RemovalPending BY DEF OrderInv, RemovalPending, Noticed
<1> QED BY <1>1, <1>2, TypeInvCorrect, PhaseStep, OrderStep, PTL DEF Spec

-----------------------------------------------------------------------------
(* NoOrphanChild.  A handle is lost only when a second mount of the same   *)
(* path and partition replaces its entry.  The start-up scan begins with   *)
(* an empty map; an arrival is handled only after the removal before it,   *)
(* which clears the disk's entries.                                        *)

\* The map holds p, or handle_arrival is or will be at work on it.
Active(p) == \/ \E m \in mounts : m.path = p
             \/ p \in todo
             \/ InArrival /\ path = p

FirstInv(d) == Registered /\ Active(ArrivalPath(d)) => RemovalFirst(devq, d)

\* Paths handle_arrival is called with hold no entry; the one at work holds
\* entries of the partitions already done only.
FreshInv ==
    /\ \A p \in todo : p.device \notin LowerCase => \A m \in mounts : m.path # p
    /\ InArrival => path \notin todo
    /\ (InArrival /\ path.device \notin LowerCase) =>
         \A m \in mounts : m.path = path => pc # "list" /\ m.part < part

\* A handle is the handle of a mount of its entry's partition.
HandleInv ==
    \A m \in mounts \cup stops, c \in children :
        m.child = c.id => m.path.device = c.disk /\ m.part = c.part /\ m.letter = c.letter

ScanInv == PhaseInv /\ OrderInv /\ (\A d \in Disks \ LowerCase : FirstInv(d)) /\ FreshInv

\* What handle_arrival is at work on is attached or will be noticed to go.
LEMMA ActiveNoticed ==
    ASSUME OrderInv, Registered, NEW p, Active(p) PROVE Noticed(p.device)
  BY DEF OrderInv, Active

\* Paths still to be handled hold no entry, after any step.
LEMMA FreshStep == TypeInv /\ ScanInv /\ [Next]_vars => FreshInv'
<1> SUFFICES ASSUME TypeInv, ScanInv, [Next]_vars PROVE FreshInv'
  OBVIOUS
<1> USE DEF locals, ctrlc, machine, run
<1>i. FreshInv /\ PhaseInv BY DEF ScanInv
<1>t. part \in Nat /\ mounts \subseteq Entry BY DEF TypeInv, TypeOK
<1>a. ASSUME todo' = {}, ~InArrival' PROVE FreshInv'
  BY <1>a DEF FreshInv
<1>b. ASSUME UNCHANGED <<pc, mounts, todo, path, part>> PROVE FreshInv'
  BY <1>b, <1>i DEF FreshInv, InArrival
<1>1. CASE OpenWindow \/ RegisterNotifications \/ RescanSnapshot \/ ArrivalsDone
  BY <1>1, <1>a, <1>i DEF OpenWindow, RegisterNotifications, RescanSnapshot, ArrivalsDone,
     PhaseInv, InArrival
<1>2. CASE RescanEnumerate
  <2>1. mounts' = {} /\ ~InArrival' BY <1>2, <1>i DEF RescanEnumerate, PhaseInv, InArrival
  <2> QED BY <2>1 DEF FreshInv
<1>3. CASE ArrivalGate BY <1>3, <1>i DEF ArrivalGate, FreshInv, InArrival
<1>4. CASE ListPartitions BY <1>4, <1>i DEF ListPartitions, FreshInv, InArrival
<1>5. CASE ProbePartition \/ PickLetter
  <2>1. part' \in {part, part + 1} /\ UNCHANGED <<mounts, todo, path>>
        /\ pc \in {"probe", "pick"} /\ pc' # "list"
    BY <1>5 DEF ProbePartition, PickLetter
  <2>2. \A m \in mounts : m.part < part => m.part < part'
    BY <1>t, <2>1 DEF Entry
  <2> QED BY <1>i, <2>1, <2>2 DEF FreshInv, InArrival
<1>6. CASE PartitionsDone BY <1>6, <1>i DEF PartitionsDone, FreshInv, InArrival
<1>7. CASE SpawnMount
  <2>1. \A m \in mounts' : m \in mounts \/ (m.path = path /\ m.part = part)
    BY <1>7 DEF SpawnMount, Insert
  <2>2. part < part + 1 /\ \A m \in mounts : m.part < part => m.part < part + 1
    BY <1>t DEF Entry
  <2> QED BY <1>7, <1>i, <2>1, <2>2 DEF SpawnMount, FreshInv, InArrival
<1>8. CASE HandleArrival
  <2> DEFINE d == Head(devq).disk
  <2>1. /\ todo' = {ArrivalPath(d)} /\ ArrivalPath(d).device = d /\ ~InArrival'
        /\ mounts' = mounts /\ Registered /\ devq # <<>>
    BY <1>8 DEF HandleArrival, ArrivalPath, InArrival, Registered
  <2>2. d \in Disks /\ Head(devq) = Arr(d) /\ DiskBusTypeOK
    BY <1>8, HeadNotice DEF HandleArrival, TypeInv, TypeOK
  <2>3. ~RemovalFirst(devq, d) BY <2>1, <2>2, FirstOfDisk
  <2>4. d \notin LowerCase => \A m \in mounts : m.path # ArrivalPath(d)
    BY <2>1, <2>2, <2>3 DEF ScanInv, FirstInv, Active
  <2> QED BY <2>1, <2>4 DEF FreshInv
<1>9. CASE HandleRemoval \/ HandleQuit
  BY <1>9, <1>a, <1>i DEF HandleRemoval, HandleQuit, PhaseInv, InArrival
<1>10. CASE KillChild
  BY <1>10, <1>b DEF KillChild
<1>11. CASE RemovalDone \/ TearDown \/ Exit
  BY <1>11, <1>a, <1>i DEF RemovalDone, TearDown, Exit, PhaseInv, InArrival
<1>12. CASE CtrlCHandler BY <1>12, <1>b DEF CtrlCHandler, SetFlag, PostQuit
<1>13. CASE Environment
  BY <1>13, <1>b DEF Environment, DiskEvent, CtrlC, ChildReady, ChildFails, ChildExits,
     OtherProgramLetter
<1>14. CASE UNCHANGED vars BY <1>14, <1>b DEF vars
<1> QED
  BY <1>1, <1>2, <1>3, <1>4, <1>5, <1>6, <1>7, <1>8, <1>9, <1>10, <1>11, <1>12, <1>13, <1>14
  DEF Next, PumpThread

\* The order of the notifications still protects the map, after any step.
LEMMA FirstStep ==
    ASSUME TypeInv, ScanInv, [Next]_vars, NEW d \in Disks \ LowerCase
    PROVE  FirstInv(d)'
<1> DEFINE p == ArrivalPath(d)
<1> USE DEF locals, ctrlc, machine, run
<1>p. p.device = d /\ p.spelling = "mixed" BY DEF ArrivalPath
<1>i. /\ PhaseInv /\ OrderInv
      /\ Registered /\ Active(p) => RemovalFirst(devq, d)
      /\ Registered => Ordered(devq, present, d)
  BY DEF ScanInv, FirstInv, OrderInv
<1>t. DiskBusTypeOK /\ devq \in Seq(Notifications) BY DEF TypeInv, TypeOK, DiskBusTypeOK
<1>s. ASSUME Registered', Active(p)' => RemovalFirst(devq', d) PROVE FirstInv(d)'
  BY <1>s DEF FirstInv, RemovalFirst
<1> HIDE DEF p
\* Steps that leave the queue alone and give the path no new place.
<1>a. ASSUME devq' = devq, Registered' => Registered, Active(p)' => Active(p)
      PROVE  FirstInv(d)'
  BY <1>a, <1>i DEF FirstInv, RemovalFirst, p
<1>1. CASE OpenWindow BY <1>1 DEF OpenWindow, FirstInv, Registered
<1>2. CASE RegisterNotifications
  BY <1>2, <1>i DEF RegisterNotifications, PhaseInv, FirstInv, Active, InArrival
<1>3. CASE RescanEnumerate
  <2>1. \A listed \in Listings : p \notin listed BY <1>p DEF Listings, SetupPath
  <2>2. p \in todo' => p \in todo BY <1>3, <2>1 DEF RescanEnumerate, disks_to_probe
  <2> QED BY <1>3, <1>a, <2>2 DEF RescanEnumerate, Registered, Active, InArrival
<1>4. CASE RescanSnapshot \/ ArrivalGate \/ ArrivalsDone \/ ListPartitions
  BY <1>4, <1>a DEF RescanSnapshot, ArrivalGate, ArrivalsDone, ListPartitions, Registered,
     Active, InArrival
<1>5. CASE ProbePartition \/ PartitionsDone \/ PickLetter
  BY <1>5, <1>a DEF ProbePartition, PartitionsDone, PickLetter, Registered, Active, InArrival
<1>6. CASE SpawnMount
  <2>1. \A m \in mounts' : m \in mounts \/ m.path = path BY <1>6 DEF SpawnMount, Insert
  <2> QED BY <1>6, <1>a, <2>1 DEF SpawnMount, Registered, Active, InArrival
<1>7. CASE HandleArrival
  <2>1. /\ devq # <<>> /\ devq' = Tail(devq) /\ mounts' = mounts /\ ~InArrival'
        /\ todo' = {ArrivalPath(Head(devq).disk)} /\ Registered /\ Registered'
    BY <1>7 DEF HandleArrival, Registered, InArrival
  <2>2. Head(devq) = Arr(Head(devq).disk) BY <1>7, <1>t, HeadNotice DEF HandleArrival
  <2>3. Head(devq) # Rem(d) BY <2>2 DEF Arr, Rem
  <2>4. CASE Head(devq).disk = d
    <3>1. RemovalFirst(devq', d)
      BY <1>i, <1>t, <2>1, <2>2, <2>4, DispatchQueue DEF Ordered
    <3> QED BY <1>s, <2>1, <3>1
  <2>5. CASE Head(devq).disk # d
    <3>1. Active(p)' => Active(p)
      BY <1>p, <2>1, <2>5 DEF Active, ArrivalPath
    <3>2. Active(p) => RemovalFirst(devq', d) BY <1>i, <1>t, <2>1, <2>3, DispatchQueue
    <3> QED BY <1>s, <2>1, <3>1, <3>2
  <2> QED BY <2>4, <2>5
<1>8. CASE HandleRemoval
  <2>1. /\ devq # <<>> /\ devq' = Tail(devq) /\ ~InArrival' /\ todo' = {}
        /\ mounts' = mounts \ {m \in mounts : m.path.device = Head(devq).disk}
        /\ Registered /\ Registered'
    BY <1>8, <1>i DEF HandleRemoval, Registered, InArrival, PhaseInv, EntriesOf, same_device,
       ArrivalPath
  <2>2. CASE Head(devq).disk = d
    <3>1. ~Active(p)' BY <1>p, <2>1, <2>2 DEF Active
    <3> QED BY <1>s, <2>1, <3>1
  <2>3. CASE Head(devq).disk # d
    <3>1. Active(p)' => Active(p) BY <2>1 DEF Active
    <3>2. Head(devq) # Rem(d) BY <2>3 DEF Rem
    <3>3. Active(p) => RemovalFirst(devq', d) BY <1>i, <1>t, <2>1, <3>2, DispatchQueue
    <3> QED BY <1>s, <2>1, <3>1, <3>3
  <2> QED BY <2>2, <2>3
<1>9. CASE HandleQuit \/ KillChild \/ RemovalDone
  BY <1>9, <1>a DEF HandleQuit, KillChild, RemovalDone, Registered, Active, InArrival
<1>10. CASE TearDown \/ Exit BY <1>10 DEF TearDown, Exit, FirstInv, Registered
<1>b. ASSUME UNCHANGED <<pc, mounts, todo, path, devq>> PROVE FirstInv(d)'
  BY <1>b, <1>a DEF Registered, Active, InArrival
<1>11. CASE DiskEvent
  <2>1. UNCHANGED <<pc, mounts, todo, path>> BY <1>11, DiskEventMoves
  <2>2. CASE ~Registered BY <2>1, <2>2 DEF FirstInv, Registered
  <2>3. CASE Registered
    <3>1. Registered' /\ (Active(p)' => Active(p))
      BY <2>1, <2>3 DEF Registered, Active, InArrival
    <3>2. PICK c \in Disks : Moves(c) BY <1>11, <2>3, DiskEventMoves
    <3>3. Arr(c) \in Notifications /\ Rem(c) \in Notifications /\ Rem(c) # Arr(d)
      BY DEF Notifications, Arr, Rem
    <3>4. CASE c = d /\ devq' = Append(devq, Arr(c)) /\ c \notin present
      <4>1. Active(p) => RemovalQueued(d)
        BY <1>i, <1>p, <2>3, <3>4, ActiveNoticed DEF Noticed
      <4>2. Active(p) => RemovalFirst(devq', d)
        BY <1>i, <1>t, <2>3, <3>3, <3>4, <4>1, NotifyQueue DEF RemovalQueued, Rem
      <4> QED BY <1>s, <3>1, <4>2
    <3>5. CASE \E n \in Notifications : n # Arr(d) /\ devq' = Append(devq, n)
      <4>1. Active(p) => RemovalFirst(devq', d)
        BY <1>i, <1>t, <2>3, <3>5, NotifyQueue
      <4> QED BY <1>s, <3>1, <4>1
    <3>6. c # d => Arr(c) # Arr(d) BY DEF Arr
    <3> QED BY <3>2, <3>3, <3>4, <3>5, <3>6 DEF Moves
  <2> QED BY <2>2, <2>3
<1>12. CASE CtrlCHandler BY <1>12, <1>b DEF CtrlCHandler, SetFlag, PostQuit
<1>13. CASE CtrlC \/ ChildReady \/ ChildFails \/ ChildExits \/ OtherProgramLetter
  BY <1>13, <1>b DEF CtrlC, ChildReady, ChildFails, ChildExits, OtherProgramLetter
<1>14. CASE UNCHANGED vars BY <1>14, <1>b DEF vars
<1> QED
  BY <1>1, <1>2, <1>3, <1>4, <1>5, <1>6, <1>7, <1>8, <1>9, <1>10, <1>11, <1>12, <1>13, <1>14
  DEF Next, PumpThread, Environment

\* The scan's part of the invariant, after any step.
LEMMA ScanStep == TypeInv /\ ScanInv /\ [Next]_vars => ScanInv'
  BY PhaseStep, OrderStep, FirstStep, FreshStep DEF ScanInv

-----------------------------------------------------------------------------
(* Handles and processes.                                                  *)

\* What a step does to handles and processes: most leave both alone or end
\* processes; a removal and the end of the watcher only move handles.
Spawned ==
    LET e == [path |-> path, part |-> part, letter |-> letter, child |-> NewId]
        c == [id |-> NewId, disk |-> path.device, part |-> part, letter |-> letter]
    IN  mounts' = Insert(mounts, e) /\ stops' = stops /\ children' = children \cup {c}
Killed ==
    \E s \in stops : /\ mounts' = mounts /\ stops' = stops \ {s}
                     /\ children' = {c \in children : c.id # s.child}
LEMMA HandleMoves ==
    ASSUME PhaseInv, [Next]_vars
    PROVE  \/ SpawnMount /\ Spawned
           \/ KillChild /\ Killed
           \/ (mounts \cup stops)' = mounts \cup stops /\ children' \subseteq children
<1> USE DEF locals, ctrlc, machine, run
<1>1. CASE SpawnMount BY <1>1 DEF SpawnMount, Spawned
<1>2. CASE KillChild BY <1>2 DEF KillChild, Killed
<1>3. CASE OpenWindow \/ RegisterNotifications \/ RescanSnapshot \/ RescanEnumerate
             \/ ArrivalGate \/ ArrivalsDone
  BY <1>3 DEF OpenWindow, RegisterNotifications, RescanSnapshot, RescanEnumerate,
     ArrivalGate, ArrivalsDone
<1>4. CASE ListPartitions \/ ProbePartition \/ PartitionsDone \/ PickLetter
  BY <1>4 DEF ListPartitions, ProbePartition, PartitionsDone, PickLetter
<1>5. CASE HandleArrival \/ HandleQuit BY <1>5 DEF HandleArrival, HandleQuit
<1>6. CASE HandleRemoval \/ TearDown
  <2>1. stops = {} BY <1>6 DEF HandleRemoval, TearDown, PhaseInv
  <2> QED BY <1>6, <2>1 DEF HandleRemoval, TearDown, EntriesOf
<1>7. CASE RemovalDone \/ Exit BY <1>7 DEF RemovalDone, Exit
<1>8. CASE CtrlCHandler BY <1>8 DEF CtrlCHandler, SetFlag, PostQuit
<1>9. CASE Environment
  BY <1>9 DEF Environment, DiskEvent, CtrlC, ChildReady, ChildFails, ChildExits,
     OtherProgramLetter
<1>10. CASE UNCHANGED vars BY <1>10 DEF vars
<1> QED
  BY <1>1, <1>2, <1>3, <1>4, <1>5, <1>6, <1>7, <1>8, <1>9, <1>10 DEF Next, PumpThread

\* A handle goes on being the handle of a mount of its partition.
LEMMA HandleStep == TypeInv /\ ScanInv /\ HandleInv /\ [Next]_vars => HandleInv'
<1> SUFFICES ASSUME TypeInv, ScanInv, HandleInv, [Next]_vars PROVE HandleInv'
  OBVIOUS
<1>1. CASE Spawned
  <2>1. /\ \A c \in children : c.id # NewId
        /\ \A m \in mounts \cup stops : m.child # NewId
    BY NewIdFresh DEF TypeInv
  <2> QED BY <1>1, <2>1 DEF Spawned, Insert, HandleInv
<1>2. CASE Killed BY <1>2 DEF Killed, HandleInv
<1>3. CASE (mounts \cup stops)' = mounts \cup stops /\ children' \subseteq children
  BY <1>3 DEF HandleInv
<1> QED BY <1>1, <1>2, <1>3, HandleMoves DEF ScanInv

\* A step that ends or replaces an entry leaves no process behind.
LEMMA OrphanStep ==
    TypeInv /\ ScanInv /\ HandleInv /\ NoOrphanChild /\ [Next]_vars => NoOrphanChild'
<1> SUFFICES ASSUME TypeInv, ScanInv, HandleInv, NoOrphanChild, [Next]_vars,
                    NEW c \in children', c.disk \notin LowerCase
             PROVE  \E m \in (mounts \cup stops)' : m.child = c.id
  BY DEF NoOrphanChild
<1>i. c \in children => \E m \in mounts \cup stops : m.child = c.id BY DEF NoOrphanChild
<1>1. CASE SpawnMount /\ Spawned
  <2> DEFINE e == [path |-> path, part |-> part, letter |-> letter, child |-> NewId]
  <2>1. e \in mounts' /\ e.child = NewId BY <1>1 DEF Spawned, Insert
  <2>2. c \in children \/ c.id = NewId BY <1>1 DEF Spawned
  <2>3. ASSUME c \in children PROVE \E m \in (mounts \cup stops)' : m.child = c.id
    <3>1. PICK m \in mounts \cup stops : m.child = c.id BY <1>i, <2>3
    <3>2. m.path.device = c.disk BY <2>3, <3>1 DEF HandleInv
    <3>3. ASSUME m \in mounts PROVE <<m.path, m.part>> # <<path, part>>
      <4> SUFFICES ASSUME m.path = path, m.part = part PROVE FALSE
        OBVIOUS
      <4>1. m.part < part
        BY <1>1, <3>2, <3>3 DEF SpawnMount, ScanInv, FreshInv, InArrival
      <4> QED BY <4>1 DEF TypeInv, TypeOK
    <3>4. m \in mounts' \cup stops' BY <1>1, <3>1, <3>3 DEF Spawned, Insert
    <3> QED BY <3>1, <3>4
  <2> QED BY <2>1, <2>2, <2>3
<1>2. CASE Killed BY <1>2, <1>i DEF Killed
<1>3. CASE (mounts \cup stops)' = mounts \cup stops /\ children' \subseteq children
  BY <1>3, <1>i
<1> QED BY <1>1, <1>2, <1>3, HandleMoves DEF ScanInv

\* All of it holds in every reachable state.
OrphanInv == ScanInv /\ HandleInv /\ NoOrphanChild
LEMMA OrphanInvCorrect == Spec => [](TypeInv /\ OrphanInv)
<1>1. Init => OrphanInv
  BY DEF Init, OrphanInv, ScanInv, PhaseInv, OrderInv, FirstInv, FreshInv, Active, InArrival,
     Registered, HandleInv, NoOrphanChild
<1>2. TypeInv /\ OrphanInv /\ [Next]_vars => OrphanInv'
  BY ScanStep, HandleStep, OrphanStep DEF OrphanInv
<1> QED BY <1>1, <1>2, TypeInit, TypeStep, PTL DEF Spec

\* Every mount process is held by a handle the watcher will kill, whatever
\* Ctrl-C, a removal or an arrival interrupts.
THEOREM NothingOrphaned == Spec => []NoOrphanChild
<1>1. OrphanInv => NoOrphanChild BY DEF OrphanInv
<1> QED BY <1>1, OrphanInvCorrect, PTL

-----------------------------------------------------------------------------
(* EveryDiskServed.  Nothing retries a disk; it is served because, at      *)
(* every step on the way, somebody still has to come to it: the start-up   *)
(* scan, an arrival that is queued, or a path that is to be handled.       *)

Mounted(d, n) == \E m \in mounts : m.path.device = d /\ m.part = n
Full(d) == \A n \in FsOn(d) : Mounted(d, n)

\* handle_arrival is at work on d, and has mounted what it has passed.
AtWork(d) ==
    /\ InArrival /\ path.device = d
    /\ pc = "list" \/ \A n \in FsOn(d) : n < part => Mounted(d, n)

ToCome(d) ==
    \/ Queued(Arr(d), devq)
    \/ \E p \in todo : p.device = d
    \/ AtWork(d)
    \/ pc \in {"snapshot", "enumerate"}

Working == pc \notin {"open", "register", "teardown", "drain", "stopped"}

ServedInv ==
    /\ pc = "enumerate" => tracked = {}
    /\ (Working /\ ~shutting_down) => \A d \in present : Full(d) \/ ToCome(d)

\* Nothing on the way to a mount fails.
Undisturbed == Faults \cap {"detail", "enumerate", "list", "probe", "exe", "spawn"} = {}

\* Whenever a letter is needed one is free.
LetterFree == pc = "pick" => pick_drive_letter(InUse) # {}

\* An entry that enters the map mounts its own partition, and takes no
\* other's place.
LEMMA MountedAfterInsert ==
    ASSUME NEW e, mounts' = Insert(mounts, e)
    PROVE  \A d, n : Mounted(d, n)' <=> Mounted(d, n) \/ (d = e.path.device /\ n = e.part)
  BY DEF Mounted, Insert

\* The snapshot of the start-up scan is of an empty map.
LEMMA TrackedStep ==
    ASSUME PhaseInv, ServedInv, [Next]_vars, pc' = "enumerate" PROVE tracked' = {}
<1> USE DEF locals, ctrlc, machine, run
<1>1. CASE RescanSnapshot BY <1>1 DEF RescanSnapshot, PhaseInv
<1>2. CASE PumpThread /\ ~RescanSnapshot
  BY <1>2 DEF PumpThread, OpenWindow, RegisterNotifications, RescanEnumerate, ArrivalGate,
     ArrivalsDone, ListPartitions, ProbePartition, PartitionsDone, PickLetter, SpawnMount,
     HandleArrival, HandleRemoval, HandleQuit, KillChild, RemovalDone, TearDown, Exit
<1>3. CASE CtrlCHandler BY <1>3 DEF CtrlCHandler, SetFlag, PostQuit, ServedInv
<1>4. CASE Environment
  BY <1>4 DEF Environment, DiskEvent, CtrlC, ChildReady, ChildFails, ChildExits,
     OtherProgramLetter, ServedInv
<1>5. CASE UNCHANGED vars BY <1>5 DEF vars, ServedInv
<1> QED BY <1>1, <1>2, <1>3, <1>4, <1>5 DEF Next

\* A disk that waits for its mounts goes on being waited for, after any
\* step; so does one that comes back.
LEMMA ComingStep ==
    ASSUME TypeInv, PhaseInv, OrderInv, ServedInv, Undisturbed, LetterFree, [Next]_vars,
           Working', ~shutting_down', NEW d \in present'
    PROVE  Full(d)' \/ ToCome(d)'
<1> USE DEF locals, ctrlc, machine, run
<1>p. path.device \in Disks /\ part \in Nat /\ devq \in Seq(Notifications) /\ DiskBusTypeOK
  BY DEF TypeInv, TypeOK, DiskBusTypeOK, Paths
\* A removal in the queue has an arrival behind it.
<1>q. ASSUME Registered, d \in present, RemovalQueued(d) PROVE Queued(Arr(d), devq)
  <2>1. d \in Disks /\ RemovalsUndone(devq, d)
    BY <1>q, <1>p DEF OrderInv, Ordered, DiskBusTypeOK
  <2> QED BY <1>q, <2>1 DEF RemovalQueued, RemovalsUndone, Queued, Rem
\* The watcher was working already, and was to come to the disk.
<1>i. ASSUME Working, ~shutting_down, d \in present PROVE Full(d) \/ ToCome(d)
  BY <1>i DEF ServedInv
\* Steps that go on coming to the disk.
<1>a. ASSUME Working, UNCHANGED <<present, devq, shutting_down>>, Full(d) => Full(d)',
             \/ UNCHANGED <<pc, mounts, todo, path, part>>
             \/ /\ (\E p \in todo : p.device = d) => (\E p \in todo' : p.device = d) \/ AtWork(d)'
                /\ AtWork(d) => AtWork(d)' \/ Full(d)'
                /\ pc \notin {"snapshot", "enumerate"}
      PROVE  Full(d)' \/ ToCome(d)'
  <2>1. Full(d) \/ ToCome(d) BY <1>a, <1>i
  <2>2. Queued(Arr(d), devq)' <=> Queued(Arr(d), devq) BY <1>a DEF Queued
  <2>3. CASE UNCHANGED <<pc, mounts, todo, path, part>>
    <3>1. AtWork(d)' <=> AtWork(d) BY <2>3 DEF AtWork, InArrival, Mounted
    <3> QED BY <1>a, <2>1, <2>2, <2>3, <3>1 DEF ToCome
  <2> QED BY <1>a, <2>1, <2>2, <2>3 DEF ToCome
\* Steps within handle_arrival that add no entry.
<1>b. ASSUME InArrival, UNCHANGED <<mounts, present, devq, shutting_down, todo, path>>,
             AtWork(d) => AtWork(d)' \/ Full(d)
      PROVE  Full(d)' \/ ToCome(d)'
  <2>1. Working /\ pc \notin {"snapshot", "enumerate"} BY <1>b DEF InArrival, Working
  <2>2. Full(d)' <=> Full(d) BY <1>b DEF Full, Mounted
  <2> QED BY <1>a, <1>b, <2>1, <2>2
<1>1. CASE OpenWindow BY <1>1 DEF OpenWindow, Working
<1>2. CASE RegisterNotifications BY <1>2 DEF RegisterNotifications, Working, ToCome
<1>3. CASE RescanSnapshot BY <1>3 DEF RescanSnapshot, ToCome
<1>4. CASE RescanEnumerate
  <2>1. todo' = disks_to_probe({SetupPath(c) : c \in present}, {}) /\ present' = present
    BY <1>4 DEF RescanEnumerate, Undisturbed, Listings, ServedInv
  <2>2. SetupPath(d) \in todo' /\ SetupPath(d).device = d
    BY <2>1 DEF disks_to_probe, SetupPath
  <2> QED BY <2>2 DEF ToCome
<1>5. CASE ArrivalGate
  <2>1. PICK p \in todo :
           /\ pc = "next" /\ pc' = "list" /\ todo' = todo \ {p} /\ path' = p
           /\ UNCHANGED <<mounts, present, devq, shutting_down>>
    BY <1>5 DEF ArrivalGate
  <2>2. p.device = d => AtWork(d)' BY <2>1 DEF AtWork, InArrival
  <2>3. Working /\ ~AtWork(d) /\ (Full(d) => Full(d)')
    BY <2>1 DEF Working, AtWork, InArrival, Full, Mounted
  <2> QED BY <1>a, <2>1, <2>2, <2>3
<1>6. CASE ArrivalsDone
  <2>1. Working /\ ~AtWork(d) /\ (Full(d) => Full(d)')
    BY <1>6 DEF ArrivalsDone, Working, AtWork, InArrival, Full, Mounted
  <2> QED BY <1>6, <1>a, <2>1 DEF ArrivalsDone
<1>7. CASE ListPartitions
  <2>1. /\ pc = "list" /\ UNCHANGED <<mounts, present, devq, path>>
        /\ \/ pc' = "probe" /\ part' = FirstPart(path.device)
           \/ pc' = "next" /\ path.device \notin present
    BY <1>7 DEF ListPartitions, Undisturbed
  <2>2. \A n \in FsOn(path.device) : ~(n < FirstPart(path.device))
    BY <1>p, FsBounds, PartNumbers
  <2>3. path.device = d => AtWork(d)' BY <2>1, <2>2 DEF AtWork, InArrival
  <2>4. InArrival /\ (AtWork(d) => AtWork(d)') BY <2>1, <2>3 DEF InArrival, AtWork
  <2> QED BY <1>7, <1>b, <2>4 DEF ListPartitions
<1>8. CASE ProbePartition
  <2>1. /\ pc = "probe" /\ UNCHANGED <<mounts, present, devq, path>>
        /\ \/ pc' = "pick" /\ part' = part
           \/ /\ pc' = "probe" /\ part' = part + 1
              /\ path.device \in present => part \notin FsOn(path.device)
    BY <1>8 DEF ProbePartition, Undisturbed
  <2>2. InArrival /\ (AtWork(d) => AtWork(d)')
    BY <1>p, <2>1, FsBounds DEF AtWork, InArrival, Mounted
  <2> QED BY <1>8, <1>b, <2>2 DEF ProbePartition
<1>9. CASE PartitionsDone
  <2>1. pc = "probe" /\ part > LastPart(path.device) BY <1>9 DEF PartitionsDone
  <2>2. \A n \in FsOn(path.device) : n < part BY <1>p, <2>1, FsBounds, PartNumbers
  <2>3. InArrival /\ (AtWork(d) => Full(d)) BY <2>1, <2>2 DEF AtWork, Full, InArrival
  <2> QED BY <1>9, <1>b, <2>3 DEF PartitionsDone
<1>10. CASE PickLetter
  <2>1. pc = "pick" /\ pc' = "spawn" /\ UNCHANGED <<part, mounts, path>>
    BY <1>10 DEF PickLetter, LetterFree, Undisturbed
  <2>2. InArrival /\ (AtWork(d) => AtWork(d)') BY <2>1 DEF AtWork, InArrival, Mounted
  <2> QED BY <1>10, <1>b, <2>2 DEF PickLetter
<1>11. CASE SpawnMount
  <2> DEFINE e == [path |-> path, part |-> part, letter |-> letter, child |-> NewId]
  <2>1. /\ pc = "spawn" /\ pc' = "probe" /\ part' = part + 1 /\ mounts' = Insert(mounts, e)
        /\ UNCHANGED <<present, devq, path, todo, shutting_down>>
    BY <1>11 DEF SpawnMount, Undisturbed
  <2>2. e.path = path /\ e.part = part OBVIOUS
  <2> HIDE DEF e
  <2>3. \A c, n : Mounted(c, n)' <=> Mounted(c, n) \/ (c = path.device /\ n = part)
    BY <2>1, <2>2, MountedAfterInsert
  <2>4. AtWork(d) => AtWork(d)'
    BY <1>p, <2>1, <2>3, FsBounds DEF AtWork, InArrival
  <2>5. Full(d) => Full(d)' BY <2>3 DEF Full
  <2> QED BY <1>a, <2>1, <2>4, <2>5 DEF Working
<1>12. CASE HandleArrival
  <2>1. /\ devq # <<>> /\ devq' = Tail(devq)
        /\ todo' = {ArrivalPath(Head(devq).disk)} /\ pc = "get" /\ Working
        /\ UNCHANGED <<present, mounts, shutting_down>>
    BY <1>12 DEF HandleArrival, Working
  <2>2. todo = {} /\ ~AtWork(d) BY <2>1 DEF PhaseInv, InArrival, AtWork
  <2>3. CASE Head(devq) = Arr(d)
    <3>1. \E p \in todo' : p.device = d BY <2>1, <2>3 DEF Arr, ArrivalPath
    <3> QED BY <3>1 DEF ToCome
  <2>4. CASE Head(devq) # Arr(d)
    <3>1. Queued(Arr(d), devq) => Queued(Arr(d), devq)' BY <1>p, <2>1, <2>4, QueuedFacts
    <3>2. Full(d)' <=> Full(d) BY <2>1 DEF Full, Mounted
    <3> QED BY <1>i, <2>1, <2>2, <3>1, <3>2 DEF ToCome
  <2> QED BY <2>3, <2>4
<1>13. CASE HandleRemoval
  <2>1. /\ devq # <<>> /\ devq' = Tail(devq) /\ Head(devq).event = "removal"
        /\ mounts' = mounts \ EntriesOf(ArrivalPath(Head(devq).disk))
        /\ pc = "get" /\ Working /\ Registered /\ UNCHANGED <<present, shutting_down>>
    BY <1>13 DEF HandleRemoval, Working, Registered
  <2>2. todo = {} /\ ~AtWork(d) BY <2>1 DEF PhaseInv, InArrival, AtWork
  <2>3. Head(devq) # Arr(d) BY <2>1 DEF Arr
  <2>4. Queued(Arr(d), devq) => Queued(Arr(d), devq)' BY <1>p, <2>1, <2>3, QueuedFacts
  <2>5. CASE Head(devq) = Rem(d)
    <3>1. 1 \in 1..Len(devq) /\ devq[1] = Rem(d) BY <1>p, <2>1, <2>5
    <3>2. RemovalQueued(d) BY <3>1 DEF RemovalQueued, Rem
    <3> QED BY <1>q, <2>1, <2>4, <3>2 DEF ToCome
  <2>6. CASE Head(devq) # Rem(d)
    <3>1. \A m \in mounts : m.path.device = d => m \in mounts'
      BY <1>p, <2>1, <2>6, HeadNotice DEF EntriesOf, same_device, ArrivalPath
    <3>2. Full(d) => Full(d)' BY <3>1 DEF Full, Mounted
    <3> QED BY <1>i, <2>1, <2>2, <2>4, <3>2 DEF ToCome
  <2> QED BY <2>5, <2>6
<1>14. CASE HandleQuit \/ TearDown \/ Exit
  BY <1>14 DEF HandleQuit, TearDown, Exit, Working
<1>15. CASE KillChild \/ RemovalDone
  <2>1. /\ pc \in {"unmount", "drain"} /\ pc' \in {pc, "get"}
        /\ UNCHANGED <<mounts, present, devq, shutting_down, todo, path>>
    BY <1>15 DEF KillChild, RemovalDone
  <2>2. Working /\ ~AtWork(d) /\ pc \notin {"snapshot", "enumerate"} /\ (Full(d) => Full(d)')
    BY <1>15, <2>1 DEF KillChild, RemovalDone, Working, AtWork, InArrival, Full, Mounted
  <2> QED BY <1>a, <2>1, <2>2
\* Steps that leave the pump thread where it is.
<1>c. ASSUME UNCHANGED <<pc, mounts, todo, path, part, present, devq, shutting_down>>
      PROVE  Full(d)' \/ ToCome(d)'
  <2>1. Working /\ (Full(d) => Full(d)') BY <1>c DEF Working, Full, Mounted
  <2> QED BY <1>a, <1>c, <2>1
<1>16. CASE DiskEvent
  <2>1. UNCHANGED <<pc, mounts, todo, path, part, shutting_down>> BY <1>16, DiskEventMoves
  <2>2. Registered BY <2>1 DEF Working, Registered
  <2>3. PICK c \in Disks : Moves(c) BY <1>16, <2>2, DiskEventMoves
  <2>q. \A y : Queued(Arr(d), Append(devq, y)) <=> Queued(Arr(d), devq) \/ Arr(d) = y
    BY <1>p, QueuedFacts
  <2>4. Queued(Arr(d), devq) => Queued(Arr(d), devq)' BY <2>3, <2>q DEF Queued, Moves
  <2>5. CASE d \in present
    <3>1. Full(d) \/ ToCome(d) BY <1>i, <2>1, <2>5 DEF Working
    <3>2. (Full(d) => Full(d)') /\ (AtWork(d) => AtWork(d)')
      BY <2>1 DEF Full, AtWork, InArrival, Mounted
    <3> QED BY <2>1, <2>4, <3>1, <3>2 DEF ToCome
  <2>6. CASE d \notin present
    <3>1. devq' = Append(devq, Arr(d)) BY <2>3, <2>6 DEF Moves
    <3>2. Queued(Arr(d), devq)' BY <2>q, <3>1 DEF Queued
    <3> QED BY <3>2 DEF ToCome
  <2> QED BY <2>5, <2>6
<1>17. CASE SetFlag BY <1>17 DEF SetFlag
<1>18. CASE PostQuit \/ CtrlC BY <1>18, <1>c DEF PostQuit, CtrlC
<1>19. CASE ChildReady \/ ChildFails \/ ChildExits \/ OtherProgramLetter
  BY <1>19, <1>c DEF ChildReady, ChildFails, ChildExits, OtherProgramLetter
<1>20. CASE UNCHANGED vars BY <1>20, <1>c DEF vars
<1> QED
  BY <1>1, <1>2, <1>3, <1>4, <1>5, <1>6, <1>7, <1>8, <1>9, <1>10, <1>11, <1>12, <1>13,
     <1>14, <1>15, <1>16, <1>17, <1>18, <1>19, <1>20
  DEF Next, PumpThread, CtrlCHandler, Environment

\* Whenever both threads have nothing left to do, every filesystem of every
\* attached disk is in the map, whatever order registration, the start-up
\* scan, arrivals and removals came in: as long as nothing on the way to a
\* mount fails and a letter is free when one is picked.
THEOREM DisksServed ==
    ASSUME Undisturbed
    PROVE  Spec /\ []LetterFree => []EveryDiskServed
<1>1. Init => ServedInv BY DEF Init, ServedInv, Working
<1>2. TypeInv /\ OrphanInv /\ ServedInv /\ LetterFree /\ [Next]_vars => ServedInv'
  BY TrackedStep, ComingStep DEF ServedInv, OrphanInv, ScanInv
<1>3. OrphanInv /\ ServedInv => EveryDiskServed
  <2> SUFFICES ASSUME OrphanInv, ServedInv, Idle, ~shutting_down, NEW d \in present
               PROVE  Full(d)
    BY DEF EveryDiskServed, Full, Mounted
  <2>1. pc = "get" /\ Len(devq) = 0 /\ todo = {} /\ Working
    BY DEF Idle, OrphanInv, ScanInv, PhaseInv, InArrival, Working
  <2>2. Full(d) \/ ToCome(d) BY <2>1 DEF ServedInv
  <2> QED BY <2>1, <2>2 DEF ToCome, AtWork, Queued, InArrival
<1> QED BY <1>1, <1>2, <1>3, OrphanInvCorrect, PTL DEF Spec

-----------------------------------------------------------------------------
(* ImplementsAutomount.  The promise is about processes, the watcher has   *)
(* handles: what the proof needs is that a process has one id, that a      *)
(* removal has taken every handle of its disk, and that a process fails to *)
(* become ready only where the environment is slow or takes letters.       *)

IdInv == \A b, c \in children : b.id = c.id => b = c

UnmountInv ==
    pc = "unmount" =>
        /\ \A s \in stops : s.path.device = path.device
        /\ \A m \in mounts : m.path.device # path.device

Unhurried == Env \cap {"slow", "letter"} = {}
ReadyInv ==
    Unhurried =>
        /\ foreign = {} /\ \A c \in children : c.id \in ready
        /\ pc = "spawn" => letter \notin InUse

AutomountInv == TypeInv /\ OrphanInv /\ IdInv /\ UnmountInv /\ ReadyInv

\* A new process gets a new id, the others keep theirs.
LEMMA IdStep == ASSUME TypeInv, OrphanInv, IdInv, [Next]_vars PROVE IdInv'
<1>1. CASE Spawned
  <2>1. \A c \in children : c.id # NewId BY NewIdFresh DEF TypeInv
  <2> QED BY <1>1, <2>1 DEF Spawned, IdInv
<1>2. CASE Killed BY <1>2 DEF Killed, IdInv
<1>3. CASE children' \subseteq children BY <1>3 DEF IdInv
<1> QED BY <1>1, <1>2, <1>3, HandleMoves DEF OrphanInv, ScanInv

\* A removal takes every entry of its disk out of the map.
LEMMA UnmountStep == ASSUME UnmountInv, [Next]_vars PROVE UnmountInv'
<1> USE DEF locals, ctrlc, machine, run
<1>1. CASE HandleRemoval
  BY <1>1 DEF HandleRemoval, UnmountInv, EntriesOf, same_device
<1>2. CASE KillChild BY <1>2 DEF KillChild, UnmountInv
<1>3. CASE pc' # "unmount" BY <1>3 DEF UnmountInv
<1>4. CASE UNCHANGED <<pc, mounts, stops, path>> BY <1>4 DEF UnmountInv
<1>5. CASE PumpThread /\ ~HandleRemoval /\ ~KillChild
  <2>1. pc' # "unmount"
    BY <1>5 DEF PumpThread, OpenWindow, RegisterNotifications, RescanSnapshot,
       RescanEnumerate, ArrivalGate, ArrivalsDone, ListPartitions, ProbePartition,
       PartitionsDone, PickLetter, SpawnMount, HandleArrival, HandleQuit, RemovalDone,
       TearDown, Exit
  <2> QED BY <1>3, <2>1
<1>6. CASE CtrlCHandler BY <1>6, <1>4 DEF CtrlCHandler, SetFlag, PostQuit
<1>7. CASE Environment
  BY <1>7, <1>4 DEF Environment, DiskEvent, CtrlC, ChildReady, ChildFails, ChildExits,
     OtherProgramLetter
<1>8. CASE UNCHANGED vars BY <1>8, <1>4 DEF vars
<1> QED BY <1>1, <1>2, <1>5, <1>6, <1>7, <1>8 DEF Next

\* Where drives appear at once and nobody else takes letters, the letter
\* that was picked is still free when the process starts.
LEMMA ReadyStep == ASSUME TypeInv, IdInv, ReadyInv, [Next]_vars PROVE ReadyInv'
<1> SUFFICES ASSUME Unhurried PROVE ReadyInv'
  BY DEF ReadyInv
<1> USE DEF locals, ctrlc, machine, run
<1>i. /\ foreign = {} /\ \A c \in children : c.id \in ready
      /\ pc = "spawn" => letter \notin InUse
  BY DEF ReadyInv
<1>a. ASSUME UNCHANGED <<run, foreign, letter>>, pc' = "spawn" => pc = "spawn"
      PROVE  ReadyInv'
  BY <1>a, <1>i DEF ReadyInv, InUse
<1>1. CASE OpenWindow \/ RegisterNotifications \/ RescanSnapshot \/ RescanEnumerate
             \/ ArrivalGate \/ ArrivalsDone
  BY <1>1, <1>a DEF OpenWindow, RegisterNotifications, RescanSnapshot, RescanEnumerate,
     ArrivalGate, ArrivalsDone
<1>2. CASE ListPartitions \/ ProbePartition \/ PartitionsDone
  BY <1>2, <1>a DEF ListPartitions, ProbePartition, PartitionsDone
<1>3. CASE PickLetter
  <2>1. UNCHANGED <<run, foreign>> /\ (pc' = "spawn" => letter' \notin InUse)
    BY <1>3 DEF PickLetter, pick_drive_letter
  <2> QED BY <1>i, <2>1 DEF ReadyInv, InUse
<1>4. CASE SpawnMount
  <2>1. pc' = "probe" /\ foreign' = foreign BY <1>4 DEF SpawnMount
  <2>2. \A c \in children' : c.id \in ready'
    BY <1>4, <1>i DEF SpawnMount, Unhurried
  <2> QED BY <1>i, <2>1, <2>2 DEF ReadyInv
<1>5. CASE HandleArrival \/ HandleRemoval \/ HandleQuit
  BY <1>5, <1>a DEF HandleArrival, HandleRemoval, HandleQuit
<1>6. CASE KillChild
  <2>1. pc' # "spawn" /\ foreign' = foreign /\ \A c \in children' : c.id \in ready'
    BY <1>6, <1>i DEF KillChild
  <2> QED BY <1>i, <2>1 DEF ReadyInv
<1>7. CASE RemovalDone \/ TearDown \/ Exit
  BY <1>7, <1>a DEF RemovalDone, TearDown, Exit
<1>8. CASE CtrlCHandler BY <1>8, <1>a DEF CtrlCHandler, SetFlag, PostQuit
<1>9. CASE DiskEvent \/ CtrlC BY <1>9, <1>a DEF DiskEvent, CtrlC
<1>10. CASE ChildReady BY <1>10, <1>i DEF ChildReady
<1>11. CASE ChildFails BY <1>11, <1>i DEF ChildFails
<1>12. CASE ChildExits
  <2>1. PICK c \in children : children' = children \ {c} /\ ready' = ready \ {c.id}
    BY <1>12 DEF ChildExits
  <2>2. UNCHANGED <<pc, letter, foreign>> BY <1>12 DEF ChildExits
  <2>3. \A b \in children' : b.id \in ready' BY <1>i, <2>1 DEF IdInv
  <2>4. InUse' \subseteq InUse BY <2>1, <2>2 DEF InUse
  <2> QED BY <1>i, <2>2, <2>3, <2>4 DEF ReadyInv
<1>13. CASE OtherProgramLetter BY <1>13 DEF OtherProgramLetter, Event, Unhurried
<1>14. CASE UNCHANGED vars BY <1>14, <1>a DEF vars
<1> QED
  BY <1>1, <1>2, <1>3, <1>4, <1>5, <1>6, <1>7, <1>8, <1>9, <1>10, <1>11, <1>12, <1>13, <1>14
  DEF Next, PumpThread, Environment

\* What Automount sees running has a handle, in an entry of its disk.
LEMMA RunningHeld ==
    ASSUME AutomountInv, NEW c \in RunningBar
    PROVE  /\ c \in children /\ c.disk \in Disks \ LowerCase
           /\ \E m \in mounts \cup stops : m.child = c.id /\ m.path.device = c.disk
<1>1. c \in children /\ c.disk \in Disks \ LowerCase
  BY DEF RunningBar, AutomountInv, TypeInv, TypeOK, Child
<1> QED BY <1>1 DEF AutomountInv, OrphanInv, NoOrphanChild, HandleInv

\* spawn is Start: somebody still has to notice the disk leaving.
LEMMA SpawnRefines ==
    ASSUME AutomountInv, SpawnMount
    PROVE  [Automounter!Start]_(Automounter!vars)
<1> USE DEF locals, ctrlc, machine, run
<1> DEFINE c == [id |-> NewId, disk |-> path.device, part |-> part, letter |-> letter]
<1>1. /\ pc = "spawn" /\ pc' = "probe" /\ UNCHANGED <<present, devq, stops>>
      /\ children' = children \cup {c} \/ children' = children
  BY DEF SpawnMount
<1>2. UNCHANGED <<PhaseBar, LeavingBar>> BY <1>1 DEF PhaseBar, LeavingBar, RemovalQueued
<1>3. \A b \in children : b.id # NewId BY NewIdFresh DEF AutomountInv, TypeInv
<1>4. c \notin children /\ c.disk = path.device /\ path.device \in Disks
  BY <1>3 DEF AutomountInv, TypeInv, TypeOK, Paths
<1> HIDE DEF c
<1>5. CASE path.device \in LowerCase \/ children' = children
  BY <1>1, <1>2, <1>4, <1>5 DEF RunningBar, Automounter!vars
<1>6. CASE path.device \notin LowerCase /\ children' = children \cup {c}
  <2>1. RunningBar' = RunningBar \cup {c} /\ c \in RunningBar' \ RunningBar
    BY <1>4, <1>6 DEF RunningBar
  <2>2. c.disk \in present \/ RemovalQueued(c.disk)
    BY <1>1, <1>4 DEF AutomountInv, OrphanInv, ScanInv, OrderInv, Registered, InArrival, Noticed
  <2>3. c.disk \in (present \ LowerCase) \cup LeavingBar
    BY <1>1, <1>4, <1>6, <2>2 DEF LeavingBar
  <2>4. PhaseBar = "up" BY <1>1 DEF PhaseBar
  <2> QED BY <1>1, <1>2, <2>1, <2>3, <2>4 DEF Automounter!Start
<1> QED BY <1>1, <1>5, <1>6

\* The notification of a removal is Forget when the disk has no entries and
\* no other removal is queued; otherwise the disk goes on leaving.
LEMMA RemovalRefines ==
    ASSUME AutomountInv, HandleRemoval
    PROVE  \/ UNCHANGED Automounter!vars
           \/ \E d \in Disks \ LowerCase : Automounter!Forget(d)
<1> USE DEF locals, ctrlc, machine, run
<1> DEFINE d == Head(devq).disk
<1>t. DiskBusTypeOK BY DEF AutomountInv, TypeInv, TypeOK
<1>1. /\ pc = "get" /\ devq # <<>> /\ devq' = Tail(devq) /\ Head(devq).event = "removal"
      /\ stops' = EntriesOf(ArrivalPath(d)) /\ pc' = "unmount"
      /\ UNCHANGED <<present, children>>
  BY DEF HandleRemoval
<1>2. stops = {} BY <1>1 DEF AutomountInv, OrphanInv, ScanInv, PhaseInv
<1>3. d \in Disks /\ Head(devq) = Rem(d) /\ devq \in Seq(Notifications)
  BY <1>1, <1>t, HeadNotice
<1>4. stops' = {m \in mounts : m.path.device = d}
  BY <1>1 DEF EntriesOf, same_device, ArrivalPath
<1>5. \A c : /\ RemovalQueued(c)' => RemovalQueued(c)
             /\ RemovalQueued(c) => RemovalQueued(c)' \/ c = d
  BY <1>1, <1>3, <1>t, RemovalsAfterDispatch DEF Rem
<1>6. RemovalQueued(d) BY <1>1, <1>3 DEF RemovalQueued, Rem
<1> HIDE DEF d
<1>7. UNCHANGED <<PhaseBar, RunningBar>> BY <1>1 DEF PhaseBar, RunningBar
<1>8. \A c \in Disks \ LowerCase : c # d => (c \in LeavingBar' <=> c \in LeavingBar)
  BY <1>1, <1>2, <1>4, <1>5 DEF LeavingBar
<1>9. LeavingBar \subseteq Disks \ LowerCase /\ LeavingBar' \subseteq Disks \ LowerCase
  BY DEF LeavingBar
<1>10. d \notin LowerCase => d \in LeavingBar BY <1>1, <1>3, <1>6 DEF LeavingBar
<1>11. CASE d \in LowerCase \/ d \in LeavingBar'
  <2>1. LeavingBar' = LeavingBar BY <1>8, <1>9, <1>10, <1>11
  <2> QED BY <1>1, <1>7, <2>1 DEF Automounter!vars
<1>12. CASE d \notin LowerCase /\ d \notin LeavingBar'
  <2>1. LeavingBar' = LeavingBar \ {d} BY <1>8, <1>9, <1>10, <1>12
  <2>2. {m \in mounts : m.path.device = d} = {} BY <1>1, <1>3, <1>4, <1>12 DEF LeavingBar
  <2>3. \A c \in RunningBar : c.disk # d BY <1>2, <2>2, RunningHeld
  <2>4. Automounter!MountsOf(d) = {} BY <2>3 DEF Automounter!MountsOf
  <2> QED BY <1>1, <1>3, <1>7, <1>10, <1>12, <2>1, <2>4 DEF Automounter!Forget
<1> QED BY <1>11, <1>12

\* kill is EndLeaving after a removal and EndStopping in the drain; killing
\* a process that has ended is Forget when it was the last of its disk.
LEMMA KillRefines ==
    ASSUME AutomountInv, KillChild
    PROVE  \/ UNCHANGED Automounter!vars
           \/ \E d \in Disks \ LowerCase : Automounter!Forget(d)
           \/ \E c \in RunningBar : Automounter!EndLeaving(c) \/ Automounter!EndStopping(c)
<1> USE DEF locals, ctrlc, machine, run
<1>1. PICK s \in stops :
        /\ stops' = stops \ {s} /\ children' = {c \in children : c.id # s.child}
        /\ pc \in {"unmount", "drain"} /\ UNCHANGED <<pc, present, devq>>
  BY DEF KillChild
<1> DEFINE d == s.path.device
           ended == {c \in RunningBar : c.id = s.child}
<1>2. d \in Disks BY <1>1 DEF AutomountInv, TypeInv, TypeOK, Entry, Paths
<1>3. \A c \in ended : c.disk = d /\ ended = {c}
  <2> SUFFICES ASSUME NEW c \in ended PROVE c.disk = d /\ \A b \in ended : b = c
    OBVIOUS
  <2>1. c \in children /\ \A b \in ended : b \in children BY DEF RunningBar
  <2> QED BY <1>1, <2>1 DEF AutomountInv, OrphanInv, HandleInv, IdInv
<1>4. RunningBar' = RunningBar \ ended BY <1>1 DEF RunningBar
<1>5. \A c \in RunningBar : c.disk \notin LowerCase BY DEF RunningBar
<1>6. UNCHANGED PhaseBar BY <1>1 DEF PhaseBar
<1>7. \A c : RemovalQueued(c)' <=> RemovalQueued(c) BY <1>1 DEF RemovalQueued
<1>8. \A c \in Disks \ LowerCase : c # d => (c \in LeavingBar' <=> c \in LeavingBar)
  BY <1>1, <1>7 DEF LeavingBar
<1>9. LeavingBar \subseteq Disks \ LowerCase /\ LeavingBar' \subseteq Disks \ LowerCase
  BY DEF LeavingBar
<1>10. CASE pc = "drain"
  <2>1. PhaseBar = "stopping" /\ UNCHANGED LeavingBar
    BY <1>1, <1>10 DEF PhaseBar, LeavingBar
  <2>2. CASE ended = {} BY <1>1, <1>4, <1>6, <2>1, <2>2 DEF Automounter!vars
  <2>3. CASE ended # {}
    <3>1. PICK c \in RunningBar : ended = {c} BY <1>3, <2>3
    <3> QED BY <1>1, <1>4, <1>6, <2>1, <3>1 DEF Automounter!EndStopping
  <2> QED BY <2>2, <2>3
<1>11. CASE pc = "unmount" /\ d \in LowerCase
  <2>1. ended = {} BY <1>3, <1>5, <1>11
  <2>2. LeavingBar' = LeavingBar BY <1>8, <1>9, <1>11
  <2> QED BY <1>1, <1>4, <1>6, <2>1, <2>2 DEF Automounter!vars
<1>12. CASE pc = "unmount" /\ d \notin LowerCase
  <2>1. d \in LeavingBar BY <1>1, <1>2, <1>12 DEF LeavingBar
  <2>2. CASE d \in LeavingBar'
    <3>1. LeavingBar' = LeavingBar BY <1>8, <1>9, <2>1, <2>2
    <3>2. CASE ended = {} BY <1>1, <1>4, <1>6, <3>1, <3>2 DEF Automounter!vars
    <3>3. CASE ended # {}
      <4>1. PICK c \in RunningBar : ended = {c} /\ c.disk = d BY <1>3, <3>3
      <4> QED BY <1>1, <1>4, <1>6, <2>1, <3>1, <4>1 DEF Automounter!EndLeaving
    <3> QED BY <3>2, <3>3
  <2>3. CASE d \notin LeavingBar'
    <3>1. LeavingBar' = LeavingBar \ {d} BY <1>8, <1>9, <2>1, <2>3
    <3>2. \A t \in stops : t.path.device = d => t = s
      BY <1>1, <1>2, <1>12, <2>3 DEF LeavingBar
    <3>3. \A m \in mounts : m.path.device # d
      BY <1>1, <1>12 DEF AutomountInv, UnmountInv
    <3>4. \A c \in RunningBar : c.disk = d => c \in ended
      BY <3>2, <3>3, RunningHeld
    <3>5. Automounter!MountsOf(d) = ended
      BY <1>3, <3>4 DEF Automounter!MountsOf
    <3> HIDE DEF d, ended
    <3>6. CASE ended = {}
      BY <1>1, <1>2, <1>4, <1>6, <1>12, <2>1, <3>1, <3>5, <3>6 DEF Automounter!Forget
    <3>7. CASE ended # {}
      <4>1. PICK c \in RunningBar : ended = {c} /\ c.disk = d BY <1>3, <3>7 DEF ended
      <4> QED BY <1>1, <1>4, <1>6, <2>1, <3>1, <3>5, <4>1 DEF Automounter!EndLeaving
    <3> QED BY <3>6, <3>7
  <2> QED BY <2>2, <2>3
<1> QED BY <1>1, <1>10, <1>11, <1>12

\* A disk event is Attach or Detach; while notifications are off there is
\* nothing mounted that would have to leave with the disk.
LEMMA DiskEventRefines ==
    ASSUME AutomountInv, DiskEvent
    PROVE  \/ UNCHANGED Automounter!vars
           \/ \E d \in Disks \ LowerCase : Automounter!Attach(d) \/ Automounter!Detach(d)
<1> USE DEF locals, ctrlc, machine, run
<1>1. PICK e \in {"arrival", "removal"}, d \in Disks :
        /\ Notify(e, d, Registered)
        /\ \/ e = "arrival" /\ d \notin present /\ present' = present \cup {d}
           \/ e = "removal" /\ d \in present /\ present' = present \ {d}
  BY DEF DiskEvent, PlugIn, Unplug
<1>2. UNCHANGED <<pc, mounts, stops, children>> BY DEF DiskEvent
<1>3. UNCHANGED <<PhaseBar, RunningBar>> BY <1>2 DEF PhaseBar, RunningBar
<1> DEFINE n == [event |-> e, disk |-> d]
<1>4. n \in Notifications /\ (\A c : n = Rem(c) <=> e = "removal" /\ c = d)
  BY DEF Notifications, Rem
<1>5. \A c : RemovalQueued(c)'
                <=> RemovalQueued(c) \/ (Registered /\ e = "removal" /\ c = d)
  <2>1. CASE Registered
    <3>1. devq' = Append(devq, n) BY <1>1, <2>1 DEF Notify
    <3> QED BY <1>4, <2>1, <3>1, RemovalsAfterNotify DEF AutomountInv, TypeInv, TypeOK
  <2>2. CASE ~Registered
    BY <1>1, <2>2 DEF Notify, RemovalQueued
  <2> QED BY <2>1, <2>2
<1> HIDE DEF n
<1>6. LeavingBar' = IF Registered /\ e = "removal" /\ d \notin LowerCase
                    THEN LeavingBar \cup {d} ELSE LeavingBar
  BY <1>2, <1>5 DEF LeavingBar, Registered
<1>7. CASE d \in LowerCase
  BY <1>1, <1>3, <1>6, <1>7 DEF Automounter!vars
<1>8. CASE d \notin LowerCase /\ e = "arrival"
  BY <1>1, <1>3, <1>6, <1>8 DEF Automounter!Attach
<1>9. CASE d \notin LowerCase /\ e = "removal"
  <2>1. d \in present \ LowerCase /\ (present \ LowerCase)' = (present \ LowerCase) \ {d}
    BY <1>1, <1>9
  <2>2. Registered => PhaseBar = "up" BY DEF Registered, PhaseBar
  <2>3. ~Registered => PhaseBar # "up" \/ Automounter!MountsOf(d) = {}
    <3>1. pc \in {"open", "register"} => mounts = {} /\ stops = {}
      BY DEF AutomountInv, OrphanInv, ScanInv, PhaseInv
    <3>2. pc \in {"open", "register"} => RunningBar = {} BY <3>1, RunningHeld
    <3> QED BY <3>2 DEF Registered, PhaseBar, Automounter!MountsOf
  <2> QED BY <1>1, <1>3, <1>6, <1>9, <2>1, <2>2, <2>3 DEF Automounter!Detach
<1> QED BY <1>1, <1>7, <1>8, <1>9

\* Whatever ends the watcher is Down: no process is running any more.
LEMMA DownRefines ==
    ASSUME AutomountInv, mounts = {}, stops = {}, pc # "stopped", pc' = "stopped",
           UNCHANGED <<present, children>>
    PROVE  Automounter!Down
<1>1. RunningBar = {} BY RunningHeld
<1>2. RunningBar' = {} BY <1>1 DEF RunningBar
<1> QED BY <1>1, <1>2 DEF PhaseBar, LeavingBar, Automounter!Down

\* Start-up is invisible unless it fails; the drain begins with TearDown and
\* ends with Exit.
LEMMA StartUpRefines ==
    ASSUME AutomountInv, OpenWindow \/ RegisterNotifications
    PROVE  UNCHANGED Automounter!vars \/ Automounter!Down
<1> USE DEF locals, ctrlc, machine, run
<1>1. /\ pc \in {"open", "register"} /\ pc' \in {"register", "snapshot", "stopped"}
      /\ UNCHANGED <<present, devq, stops, children>>
  BY DEF OpenWindow, RegisterNotifications
<1>2. mounts = {} /\ stops = {} BY <1>1 DEF AutomountInv, OrphanInv, ScanInv, PhaseInv
<1>3. CASE pc' = "stopped" BY <1>1, <1>2, <1>3, DownRefines
<1>4. CASE pc' # "stopped"
  BY <1>1, <1>4 DEF PhaseBar, LeavingBar, RunningBar, RemovalQueued, Automounter!vars
<1> QED BY <1>3, <1>4
LEMMA ShutdownRefines ==
    ASSUME AutomountInv, TearDown \/ Exit
    PROVE  Automounter!BeginStop \/ Automounter!Down
<1> USE DEF locals, ctrlc, machine, run
<1>1. CASE TearDown
  BY <1>1 DEF TearDown, PhaseBar, LeavingBar, RunningBar, Automounter!BeginStop
<1>2. CASE Exit
  BY <1>2, DownRefines DEF Exit, AutomountInv, OrphanInv, ScanInv, PhaseInv
<1> QED BY <1>1, <1>2

\* A process ends by itself only where the environment lets it.
LEMMA EndRefines ==
    ASSUME AutomountInv, ChildFails \/ ChildExits
    PROVE  UNCHANGED Automounter!vars \/ \E c \in RunningBar : Automounter!Exit(c)
<1> USE DEF locals, ctrlc, machine, run
<1>1. PICK c \in children : children' = children \ {c}
  BY DEF ChildFails, ChildExits
<1>2. UNCHANGED <<pc, present, devq, stops>> BY DEF ChildFails, ChildExits
<1>3. UNCHANGED <<PhaseBar, LeavingBar>>
  BY <1>2 DEF PhaseBar, LeavingBar, RemovalQueued
<1>4. RunningBar' = RunningBar \ {c} BY <1>1 DEF RunningBar
<1>5. Env \cap {"exit", "slow", "letter"} # {}
  <2>1. CASE ChildExits BY <2>1 DEF ChildExits, Event
  <2>2. CASE ChildFails
    <3>1. ~Unhurried BY <2>2 DEF ChildFails, AutomountInv, ReadyInv
    <3> QED BY <3>1 DEF Unhurried
  <2> QED BY <2>1, <2>2
<1>6. CASE c \in RunningBar BY <1>2, <1>3, <1>4, <1>5, <1>6 DEF Automounter!Exit
<1>7. CASE c \notin RunningBar BY <1>2, <1>3, <1>4, <1>7 DEF Automounter!vars
<1> QED BY <1>6, <1>7

\* The dispatch of an arrival takes no removal from the queue.
LEMMA ArrivalRefines ==
    ASSUME AutomountInv, HandleArrival PROVE UNCHANGED Automounter!vars
<1> USE DEF locals, ctrlc, machine, run
<1>1. /\ pc = "get" /\ pc' = "next" /\ devq # <<>> /\ devq' = Tail(devq)
      /\ Head(devq).event = "arrival" /\ UNCHANGED <<present, stops, children>>
  BY DEF HandleArrival
<1>2. \A d : RemovalQueued(d)' <=> RemovalQueued(d)
  BY <1>1, RemovalsAfterDispatch DEF AutomountInv, TypeInv, TypeOK, Rem
<1> QED BY <1>1, <1>2 DEF PhaseBar, LeavingBar, RunningBar, Automounter!vars

\* Every other step is one the promise says nothing of.
LEMMA Stutters ==
    ASSUME UNCHANGED <<present, devq, stops, children>>,
           pc' = pc \/ {pc, pc'} \cap {"drain", "stopped"} = {}
    PROVE  UNCHANGED Automounter!vars
  BY DEF PhaseBar, LeavingBar, RunningBar, RemovalQueued, Automounter!vars

\* The watcher starts as one that is up, with nothing mounted.
LEMMA RefineInit == Init => Automounter!Init
  BY DEF Init, PhaseBar, LeavingBar, RunningBar, RemovalQueued, Automounter!Init

\* Every step of the watcher is a step of Automount, or one it does not see.
LEMMA RefineStep ==
    ASSUME AutomountInv, [Next]_vars
    PROVE  [Automounter!Next]_(Automounter!vars)
<1> USE DEF locals, ctrlc, machine, run
<1>1. CASE OpenWindow \/ RegisterNotifications
  BY <1>1, StartUpRefines DEF Automounter!Next
<1>2. CASE SpawnMount BY <1>2, SpawnRefines DEF Automounter!Next
<1>3. CASE HandleArrival BY <1>3, ArrivalRefines
<1>4. CASE HandleRemoval BY <1>4, RemovalRefines DEF Automounter!Next
<1>5. CASE KillChild BY <1>5, KillRefines DEF Automounter!Next
<1>6. CASE TearDown \/ Exit BY <1>6, ShutdownRefines DEF Automounter!Next
<1>7. CASE DiskEvent BY <1>7, DiskEventRefines DEF Automounter!Next
<1>8. CASE ChildFails \/ ChildExits BY <1>8, EndRefines DEF Automounter!Next
<1>9. CASE RescanSnapshot \/ RescanEnumerate \/ ArrivalGate \/ ArrivalsDone
  BY <1>9, Stutters DEF RescanSnapshot, RescanEnumerate, ArrivalGate, ArrivalsDone
<1>10. CASE ListPartitions \/ ProbePartition \/ PartitionsDone \/ PickLetter
  BY <1>10, Stutters DEF ListPartitions, ProbePartition, PartitionsDone, PickLetter
<1>11. CASE HandleQuit \/ RemovalDone BY <1>11, Stutters DEF HandleQuit, RemovalDone
<1>12. CASE CtrlCHandler BY <1>12, Stutters DEF CtrlCHandler, SetFlag, PostQuit
<1>13. CASE CtrlC \/ ChildReady \/ OtherProgramLetter
  BY <1>13, Stutters DEF CtrlC, ChildReady, OtherProgramLetter
<1>14. CASE UNCHANGED vars BY <1>14, Stutters DEF vars
<1> QED
  BY <1>1, <1>2, <1>3, <1>4, <1>5, <1>6, <1>7, <1>8, <1>9, <1>10, <1>11, <1>12, <1>13, <1>14
  DEF Next, PumpThread, Environment

\* Threads, queues, handles and failing processes included, the watcher does
\* nothing Automount does not allow: it mounts only what it will see leaving,
\* kills only what leaves, forgets a disk only when nothing of it is mounted,
\* and exits only with nothing left running.  Nothing is assumed of what
\* fails or of the letters.
THEOREM WatcherImplementsAutomount == Spec => ImplementsAutomount
<1>1. Init => IdInv /\ UnmountInv /\ ReadyInv
  BY DEF Init, IdInv, UnmountInv, ReadyInv
<1>2. TypeInv /\ OrphanInv /\ IdInv /\ UnmountInv /\ ReadyInv /\ [Next]_vars
        => IdInv' /\ UnmountInv' /\ ReadyInv'
  BY IdStep, UnmountStep, ReadyStep
<1>3. TypeInv /\ OrphanInv /\ IdInv /\ UnmountInv /\ ReadyInv /\ [Next]_vars
        => [Automounter!Next]_(Automounter!vars)
  BY RefineStep DEF AutomountInv
<1> QED
  BY <1>1, <1>2, <1>3, RefineInit, OrphanInvCorrect, PTL
  DEF Spec, ImplementsAutomount, Automounter!Spec
=============================================================================
