--------------------- MODULE MountServiceAutomountProofs ---------------------
(***************************************************************************)
(* What the service promises, for every value of the constants: that a     *)
(* letter handed to launchctl stop is still the mount's own, that the      *)
(* service implements Automount, and that no attached disk is forgotten.   *)
(* The first two fail when mounts exit by themselves (an entry then        *)
(* outlives its mount), so those theorems are about machines without the   *)
(* event "exit"; the third is about a service whose calls succeed.         *)
(***************************************************************************)
EXTENDS MountServiceProofs

-----------------------------------------------------------------------------
(* Letters.  The map knows a mount by its letter, the launcher by its name *)
(* which is that letter; LetterInv says that the two agree.                *)

LetterInv ==
    /\ \A i, j \in instances : i.name = j.name => i = j
    /\ \A m, n \in mounts \cup stops : m.letter = n.letter => m = n
    /\ \A m \in mounts \cup stops : \E i \in instances \ survivors : Owns(m, i)
    /\ mounts \cap stops = {}

\* A start takes a name nobody has, hence a letter no entry has; a stop takes
\* the one instance of its letter; nothing else moves instances or letters.
LEMMA LetterStep ==
    ASSUME "exit" \notin Env PROVE TypeOK /\ LetterInv /\ [Next]_vars => LetterInv'
<1> SUFFICES ASSUME TypeOK, LetterInv, [Next]_vars PROVE LetterInv'
  OBVIOUS
<1> USE DEF locals, queues, machine, run
<1>d. mounts \cap stops = {} BY DEF LetterInv
\* Entries only leave, or move from the map to those to be stopped.
<1>a. ASSUME (mounts \cup stops)' \subseteq mounts \cup stops, (mounts \cap stops)' = {},
             UNCHANGED <<instances, survivors>>
      PROVE  LetterInv'
  BY <1>a, <1>d DEF LetterInv
<1>1. CASE OpenPump \/ AnnounceRunning BY <1>1, <1>a, <1>d DEF OpenPump, AnnounceRunning
<1>2. CASE RescanSnapshot \/ RescanEnumerate \/ ArrivalGate \/ ArrivalsDone
  BY <1>2, <1>a, <1>d DEF RescanSnapshot, RescanEnumerate, ArrivalGate, ArrivalsDone
<1>3. CASE ListPartitions \/ ProbePartition \/ PartitionsDone \/ PickLetter
  BY <1>3, <1>a, <1>d DEF ListPartitions, ProbePartition, PartitionsDone, PickLetter
<1>4. CASE StartMount
  <2>1. CASE StartFails BY <1>4, <2>1, <1>a, <1>d DEF StartMount, StartFails
  <2>2. CASE StartSucceeds
    <3> DEFINE e == [path |-> path, part |-> part, letter |-> letter]
               j == [name |-> letter, disk |-> path.device, part |-> part]
    <3>1. /\ mounts' = Insert(mounts, e) /\ instances' = instances \cup {j}
          /\ UNCHANGED <<stops, survivors>>
          /\ \A i \in instances : i.name # letter
      BY <1>4, <2>2 DEF StartMount, StartSucceeds, Track, Taken
    <3>2. j \in instances' \ survivors' /\ Owns(e, j)
      BY <3>1 DEF Owns, TypeOK
    <3>3. \A m \in (mounts \cup stops)' : m \in mounts \cup stops \/ m = e
      BY <3>1 DEF Insert
    <3>4. \A m \in mounts \cup stops : m.letter # letter
      BY <3>1 DEF LetterInv, Owns
    <3>5. e.letter = letter /\ j.name = letter OBVIOUS
    <3> HIDE DEF e, j
    <3>6. \A k, l \in instances' : k.name = l.name => k = l
      BY <3>1, <3>5 DEF LetterInv
    <3>7. \A m, n \in (mounts \cup stops)' : m.letter = n.letter => m = n
      BY <3>3, <3>4, <3>5 DEF LetterInv
    <3>8. ASSUME NEW m \in (mounts \cup stops)'
          PROVE  \E i \in (instances \ survivors)' : Owns(m, i)
      BY <3>1, <3>2, <3>3, <3>8 DEF LetterInv
    <3>9. (mounts \cap stops)' = {} BY <3>1, <3>4, <3>5 DEF LetterInv, Insert
    <3> QED BY <3>6, <3>7, <3>8, <3>9 DEF LetterInv
  <2> QED BY <1>4, <2>1, <2>2 DEF StartMount
<1>5. CASE HandleArrival \/ HandleRescan \/ HandleQuit
  BY <1>5, <1>a, <1>d DEF HandleArrival, HandleRescan, HandleQuit
<1>6. CASE HandleRemoval BY <1>6, <1>a, <1>d DEF HandleRemoval, EntriesOf
<1>7. CASE StopMount
  <2>1. CASE UNCHANGED run BY <1>7, <2>1, <1>a, <1>d DEF StopMount
  <2>2. CASE ~UNCHANGED run
    <3>1. PICK s \in stops : /\ stops' = stops \ {s}
                             /\ instances' = {i \in instances : i.name # s.letter}
                             /\ survivors' = survivors \cap instances'
      BY <1>7, <2>2 DEF StopMount
    <3>2. UNCHANGED mounts BY <1>7 DEF StopMount
    <3>3. s \notin (mounts \cup stops)' BY <3>1, <3>2 DEF LetterInv
    <3>4. \A m \in (mounts \cup stops)' : m \in mounts \cup stops /\ m.letter # s.letter
      BY <3>1, <3>2, <3>3 DEF LetterInv
    <3> QED BY <3>1, <3>2, <3>4 DEF LetterInv, Owns
  <2> QED BY <2>1, <2>2
<1>8. CASE RemovalDone \/ ReportStopped BY <1>8, <1>a, <1>d DEF RemovalDone, ReportStopped
<1>9. CASE TearDown BY <1>9, <1>a, <1>d DEF TearDown
<1>10. CASE ControlHandler
  BY <1>10, <1>a, <1>d DEF ControlHandler, ControlStop, PostQuit, ControlSession
<1>11. CASE DiskEvent \/ AttachConsole \/ DetachConsole \/ RequestStop
  BY <1>11, <1>a, <1>d DEF DiskEvent, AttachConsole, DetachConsole, RequestStop
<1>12. CASE InstanceReady \/ OtherProgramLetter
  BY <1>12, <1>a, <1>d DEF InstanceReady, OtherProgramLetter
<1>13. CASE InstanceExits BY <1>13 DEF InstanceExits, Event
<1>14. CASE Crash BY <1>14 DEF Crash, MemoryLost, LetterInv
<1>15. CASE Restart BY <1>15 DEF Restart, MemoryLost, LetterInv
<1>16. CASE UNCHANGED vars BY <1>16, <1>a, <1>d DEF vars
<1> QED
  BY <1>1, <1>2, <1>3, <1>4, <1>5, <1>6, <1>7, <1>8, <1>9, <1>10, <1>11, <1>12, <1>13,
     <1>14, <1>15, <1>16
  DEF Next, PumpThread, Environment

\* The service starts with no mounts and no entries.
LEMMA LetterInit == Init => LetterInv
  BY DEF Init, LetterInv

\* launchctl stop names a letter, and the mount that ends is the one the
\* entry was made for, however stops, removals, rescans, crashes and restarts
\* interleave, whatever fails and whoever takes a letter: as long as a mount
\* runs until it is stopped.
THEOREM StopsAreOwn == ASSUME "exit" \notin Env PROVE Spec => StopsOnlyItsOwn
<1>1. LetterInv => [\A s \in stops \ stops' : \A i \in instances :
                      i.name = s.letter => i.disk = s.path.device /\ i.part = s.part]_vars
  BY DEF LetterInv, Owns
<1>2. TypeOK /\ LetterInv /\ [Next]_vars => LetterInv' BY LetterStep
<1> QED BY <1>1, <1>2, LetterInit, TypeCorrect, PTL DEF Spec, StopsOnlyItsOwn

-----------------------------------------------------------------------------
(* The service implements Automount.                                       *)

\* While the entries of a removed disk are being stopped, the map has no
\* others of it.
UnmountInv ==
    pc = "unmount" => \A s \in stops, m \in mounts : ~same_device(s.path, m.path)

\* handle_removal takes the entries of both spellings, and mounts nothing
\* before it has stopped them.
LEMMA UnmountStep == TypeOK /\ UnmountInv /\ [Next]_vars => UnmountInv'
<1> SUFFICES ASSUME TypeOK, UnmountInv, [Next]_vars, pc' = "unmount"
             PROVE  \A s \in stops', m \in mounts' : ~same_device(s.path, m.path)
  BY DEF UnmountInv, same_device
<1> USE DEF locals, queues, machine, run
<1>1. CASE HandleRemoval BY <1>1 DEF HandleRemoval, EntriesOf, same_device, UnmountInv
<1>2. CASE StopMount BY <1>2 DEF StopMount, UnmountInv
<1>3. CASE ControlHandler
  BY <1>3 DEF ControlHandler, ControlStop, PostQuit, ControlSession, UnmountInv
<1>4. CASE DiskEvent \/ AttachConsole \/ DetachConsole \/ RequestStop
  BY <1>4 DEF DiskEvent, AttachConsole, DetachConsole, RequestStop, UnmountInv
<1>5. CASE InstanceReady \/ InstanceExits \/ OtherProgramLetter
  BY <1>5 DEF InstanceReady, InstanceExits, OtherProgramLetter, UnmountInv
<1>6. CASE UNCHANGED vars BY <1>6 DEF vars, UnmountInv
<1>7. CASE \/ OpenPump \/ AnnounceRunning \/ RescanSnapshot \/ RescanEnumerate
           \/ ArrivalGate \/ ArrivalsDone \/ ListPartitions \/ ProbePartition
           \/ PartitionsDone \/ PickLetter \/ StartMount
  BY <1>7 DEF OpenPump, AnnounceRunning, RescanSnapshot, RescanEnumerate, ArrivalGate,
     ArrivalsDone, ListPartitions, ProbePartition, PartitionsDone, PickLetter, StartMount
<1>8. CASE HandleArrival \/ HandleRescan \/ HandleQuit \/ RemovalDone \/ TearDown
             \/ ReportStopped \/ Crash \/ Restart
  BY <1>8 DEF HandleArrival, HandleRescan, HandleQuit, RemovalDone, TearDown,
     ReportStopped, Crash, Restart
<1> QED
  BY <1>1, <1>2, <1>3, <1>4, <1>5, <1>6, <1>7, <1>8 DEF Next, PumpThread, Environment

\* The launcher is found and does what it is told, and mounts run until then.
Reliable == "exit" \notin Env /\ Faults \cap {"locate", "stop"} = {}

AutomountInv == TypeOK /\ RemovalInv /\ OrphanInv /\ LetterInv /\ UnmountInv

\* What Automount sees running has an entry, and is what the entry names.
LEMMA RunningOwned ==
    ASSUME Reliable, AutomountInv, NEW i \in RunningBar
    PROVE  /\ i \in instances \ survivors /\ i.disk \in Disks \ LowerCase
           /\ \E m \in mounts \cup stops : Owns(m, i)
  BY DEF Reliable, AutomountInv, RunningBar, OrphanInv, NoOrphanMount, Owns, TypeOK, Instance

\* A disk with entries waiting to be stopped, or with a removal in the queue,
\* is leaving as long as notifications matter.
LEMMA LeavingMeans ==
    ASSUME pc \notin {"drain", "stopped"}, NEW d \in Disks \ LowerCase
    PROVE  d \in LeavingBar <=> RemovalQueued(d) \/ \E s \in stops : s.path.device = d
  BY DEF LeavingBar

\* launchctl start is Start: somebody still has to notice the disk leaving.
LEMMA StartRefines ==
    ASSUME Reliable, AutomountInv, StartMount
    PROVE  [Automounter!Start]_(Automounter!vars)
<1> USE DEF locals, queues, machine, run
<1>1. /\ pc = "start" /\ pc' = "probe" /\ UNCHANGED <<present, devq, stops, survivors>>
  BY DEF StartMount, StartSucceeds, StartFails
<1>2. UNCHANGED <<PhaseBar, LeavingBar>>
  BY <1>1 DEF PhaseBar, LeavingBar, RemovalQueued
<1>3. CASE StartFails
  BY <1>1, <1>2, <1>3 DEF StartFails, RunningBar, Automounter!vars
<1>4. CASE StartSucceeds
  <2> DEFINE j == [name |-> letter, disk |-> path.device, part |-> part]
  <2>1. instances' = instances \cup {j} /\ \A i \in instances : i.name # letter
    BY <1>4 DEF StartSucceeds, Taken
  <2>2. j \notin instances /\ j \notin survivors /\ j.disk = path.device /\ path.device \in Disks
    BY <2>1 DEF AutomountInv, TypeOK, Paths
  <2> HIDE DEF j
  <2>3. CASE path.device \in LowerCase
    BY <1>1, <1>2, <2>1, <2>2, <2>3 DEF RunningBar, Automounter!vars
  <2>4. CASE path.device \notin LowerCase
    <3>1. RunningBar' = RunningBar \cup {j} /\ j \in RunningBar' \ RunningBar
      BY <1>1, <2>1, <2>2, <2>4 DEF RunningBar
    <3>2. j.disk \in present \/ RemovalQueued(j.disk)
      BY <1>1, <2>2 DEF AutomountInv, RemovalInv, Noticed
    <3>3. j.disk \in (present \ LowerCase) \cup LeavingBar
      BY <1>1, <2>2, <2>4, <3>2, LeavingMeans
    <3>4. PhaseBar = "up" BY <1>1 DEF PhaseBar
    <3> QED BY <1>1, <1>2, <3>1, <3>3, <3>4 DEF Automounter!Start
  <2> QED BY <2>3, <2>4
<1> QED BY <1>3, <1>4 DEF StartMount

\* The notification of a removal is Forget when the disk has no entries and
\* no other removal is queued; otherwise the disk goes on leaving.
LEMMA RemovalRefines ==
    ASSUME Reliable, AutomountInv, HandleRemoval
    PROVE  \/ UNCHANGED Automounter!vars
           \/ \E d \in Disks \ LowerCase : Automounter!Forget(d)
<1> USE DEF locals, queues, machine, run
<1> DEFINE d == Head(devq).disk
<1>1. /\ pc = "get" /\ devq # <<>> /\ devq' = Tail(devq) /\ Head(devq).event = "removal"
      /\ stops' = EntriesOf(ArrivalPath(d)) /\ pc' = "unmount"
      /\ UNCHANGED <<present, instances, survivors>>
  BY DEF HandleRemoval, Reliable
<1>2. stops = {} BY <1>1 DEF AutomountInv, OrphanInv
<1>3. Head(devq) \in Notifications /\ devq \in Seq(Notifications)
  BY <1>1 DEF AutomountInv, TypeOK, DiskBusTypeOK
<1>4. d \in Disks /\ Head(devq) = Rem(d) BY <1>1, <1>3 DEF Notifications, Rem
<1>5. \A s \in stops' : s.path.device = d
  BY <1>1 DEF EntriesOf, same_device, ArrivalPath
<1>6. \A c : /\ RemovalQueued(c)' => RemovalQueued(c)
             /\ RemovalQueued(c) => RemovalQueued(c)' \/ c = d
  BY <1>1, <1>4, RemovalsAfterDispatch DEF TypeOK, AutomountInv, Rem
<1>7. RemovalQueued(d)
  BY <1>1, <1>3, <1>4 DEF RemovalQueued, Rem
<1> HIDE DEF d
<1>8. UNCHANGED <<PhaseBar, RunningBar>> BY <1>1 DEF PhaseBar, RunningBar
<1>9. \A c \in Disks \ LowerCase : c # d => (c \in LeavingBar' <=> c \in LeavingBar)
  BY <1>1, <1>2, <1>5, <1>6 DEF LeavingBar
<1>10. LeavingBar \subseteq Disks \ LowerCase /\ LeavingBar' \subseteq Disks \ LowerCase
  BY DEF LeavingBar
<1>11. d \notin LowerCase => d \in LeavingBar BY <1>1, <1>4, <1>7 DEF LeavingBar
<1>12. CASE d \in LowerCase \/ d \in LeavingBar'
  <2>1. LeavingBar' = LeavingBar BY <1>9, <1>10, <1>11, <1>12
  <2> QED BY <1>1, <1>8, <2>1 DEF Automounter!vars
<1>13. CASE d \notin LowerCase /\ d \notin LeavingBar'
  <2>1. LeavingBar' = LeavingBar \ {d} BY <1>9, <1>10, <1>11, <1>13
  <2>2. stops' = {} BY <1>1, <1>4, <1>5, <1>13 DEF LeavingBar
  <2>3. \A i \in RunningBar : i.disk # d
    <3> SUFFICES ASSUME NEW i \in RunningBar, i.disk = d PROVE FALSE
      OBVIOUS
    <3>1. PICK m \in mounts : Owns(m, i) BY <1>2, RunningOwned
    <3>2. m \in EntriesOf(ArrivalPath(d))
      BY <3>1 DEF EntriesOf, same_device, ArrivalPath, Owns
    <3> QED BY <1>1, <2>2, <3>2 DEF d
  <2>4. Automounter!MountsOf(d) = {} BY <2>3 DEF Automounter!MountsOf
  <2> QED BY <1>1, <1>4, <1>8, <1>11, <1>13, <2>1, <2>4 DEF Automounter!Forget
<1> QED BY <1>12, <1>13

\* launchctl stop is EndLeaving after a removal, EndStopping in the drain.
LEMMA StopRefines ==
    ASSUME Reliable, AutomountInv, StopMount
    PROVE  \/ UNCHANGED Automounter!vars
           \/ \E i \in RunningBar : Automounter!EndLeaving(i) \/ Automounter!EndStopping(i)
<1> USE DEF locals, queues, machine, run
<1>1. PICK s \in stops :
        /\ stops' = stops \ {s} /\ instances' = {i \in instances : i.name # s.letter}
        /\ survivors' = survivors \cap instances' /\ pc \in {"unmount", "drain"}
        /\ UNCHANGED <<pc, present, devq>>
  BY DEF StopMount, Reliable
<1>2. PICK i \in instances \ survivors : Owns(s, i)
  BY <1>1 DEF AutomountInv, LetterInv
<1>3. instances' = instances \ {i}
  BY <1>1, <1>2 DEF AutomountInv, LetterInv, Owns
<1>4. RunningBar' = RunningBar \ {i}
  BY <1>1, <1>2, <1>3 DEF RunningBar
<1>5. UNCHANGED PhaseBar BY <1>1 DEF PhaseBar
<1>6. i.disk = s.path.device /\ i.disk \in Disks
  BY <1>2 DEF Owns, AutomountInv, TypeOK, Instance
<1>7. \A d : RemovalQueued(d)' <=> RemovalQueued(d) BY <1>1 DEF RemovalQueued
<1>8. \A d \in Disks \ LowerCase : d # i.disk => (d \in LeavingBar' <=> d \in LeavingBar)
  BY <1>1, <1>6, <1>7 DEF LeavingBar
<1>9. LeavingBar \subseteq Disks \ LowerCase /\ LeavingBar' \subseteq Disks \ LowerCase
  BY DEF LeavingBar
<1>10. CASE i.disk \in LowerCase
  <2>1. LeavingBar' = LeavingBar BY <1>8, <1>9, <1>10
  <2>2. RunningBar' = RunningBar BY <1>4, <1>10 DEF RunningBar
  <2> QED BY <1>1, <1>5, <2>1, <2>2 DEF Automounter!vars
<1>11. CASE i.disk \notin LowerCase /\ pc = "drain"
  <2>1. i \in RunningBar BY <1>2, <1>11 DEF RunningBar
  <2>2. UNCHANGED LeavingBar BY <1>1, <1>11 DEF LeavingBar
  <2>3. PhaseBar = "stopping" BY <1>11 DEF PhaseBar
  <2> QED BY <1>1, <1>4, <1>5, <2>1, <2>2, <2>3 DEF Automounter!EndStopping
<1>12. CASE i.disk \notin LowerCase /\ pc = "unmount"
  <2>1. i \in RunningBar BY <1>2, <1>12 DEF RunningBar
  <2>2. i.disk \in LeavingBar BY <1>1, <1>6, <1>12 DEF LeavingBar
  <2>3. CASE i.disk \in LeavingBar'
    <3>1. LeavingBar' = LeavingBar BY <1>8, <1>9, <2>2, <2>3
    <3> QED BY <1>1, <1>4, <1>5, <2>1, <2>2, <3>1 DEF Automounter!EndLeaving
  <2>4. CASE i.disk \notin LeavingBar'
    <3>1. LeavingBar' = LeavingBar \ {i.disk} BY <1>8, <1>9, <2>2, <2>4
    <3>2. \A t \in stops : t.path.device = i.disk => t = s
      BY <1>1, <1>6, <1>12, <2>4 DEF LeavingBar
    <3>3. \A k \in RunningBar : k.disk = i.disk => k = i
      <4> SUFFICES ASSUME NEW k \in RunningBar, k.disk = i.disk PROVE k = i
        OBVIOUS
      <4>1. PICK m \in mounts \cup stops : Owns(m, k) BY RunningOwned
      <4>2. m \notin mounts
        BY <1>1, <1>6, <1>12, <4>1 DEF Owns, AutomountInv, UnmountInv, same_device
      <4>3. m = s BY <3>2, <4>1, <4>2 DEF Owns
      <4>4. k.name = i.name BY <1>2, <4>1, <4>3 DEF Owns
      <4> QED BY <1>2, <4>4, RunningOwned DEF AutomountInv, LetterInv
    <3>4. Automounter!MountsOf(i.disk) = {i} BY <2>1, <3>3 DEF Automounter!MountsOf
    <3> QED BY <1>1, <1>4, <1>5, <2>1, <2>2, <3>1, <3>4 DEF Automounter!EndLeaving
  <2> QED BY <2>3, <2>4
<1> QED BY <1>1, <1>10, <1>11, <1>12

\* A disk event is Attach or Detach; while notifications are off there is
\* nothing mounted that would have to leave with the disk.
LEMMA DiskEventRefines ==
    ASSUME Reliable, AutomountInv, DiskEvent
    PROVE  \/ UNCHANGED Automounter!vars
           \/ \E d \in Disks \ LowerCase : Automounter!Attach(d) \/ Automounter!Detach(d)
<1> USE DEF locals, queues, machine, run
<1>1. PICK e \in {"arrival", "removal"}, d \in Disks :
        /\ Notify(e, d, Registered)
        /\ \/ e = "arrival" /\ d \notin present /\ present' = present \cup {d}
           \/ e = "removal" /\ d \in present /\ present' = present \ {d}
  BY DEF DiskEvent, PlugIn, Unplug
<1>2. UNCHANGED <<pc, mounts, stops, instances, survivors>> BY DEF DiskEvent
<1>3. UNCHANGED <<PhaseBar, RunningBar>> BY <1>2 DEF PhaseBar, RunningBar
<1> DEFINE n == [event |-> e, disk |-> d]
<1>4. n \in Notifications /\ (\A c : n = Rem(c) <=> e = "removal" /\ c = d)
  BY DEF Notifications, Rem
<1>5. \A c : RemovalQueued(c)'
                <=> RemovalQueued(c) \/ (Registered /\ e = "removal" /\ c = d)
  <2>1. CASE Registered
    <3>1. devq' = Append(devq, n) BY <1>1, <2>1 DEF Notify
    <3> QED BY <1>4, <2>1, <3>1, RemovalsAfterNotify DEF TypeOK, AutomountInv
  <2>2. CASE ~Registered
    BY <1>1, <2>2 DEF Notify, RemovalQueued
  <2> QED BY <2>1, <2>2
<1> HIDE DEF n
<1>6. LeavingBar' = IF Registered /\ e = "removal" /\ d \notin LowerCase
                    THEN LeavingBar \cup {d} ELSE LeavingBar
  BY <1>2, <1>5 DEF LeavingBar, Registered
<1>7. CASE d \in LowerCase
  BY <1>1, <1>3, <1>6, <1>7 DEF Automounter!vars
<1>8. CASE d \notin LowerCase /\ e = "arrival"
  BY <1>1, <1>3, <1>6, <1>8 DEF Automounter!Attach
<1>9. CASE d \notin LowerCase /\ e = "removal"
  <2>1. d \in present \ LowerCase /\ (present \ LowerCase)' = (present \ LowerCase) \ {d}
    BY <1>1, <1>9
  <2>2. Registered => PhaseBar = "up" BY DEF Registered, PhaseBar
  <2>3. ~Registered => PhaseBar # "up" \/ Automounter!MountsOf(d) = {}
    <3>1. pc = "open" => mounts = {} /\ stops = {} BY DEF AutomountInv, OrphanInv
    <3>2. pc = "open" => RunningBar = {} BY <3>1, RunningOwned
    <3> QED BY <3>2 DEF Registered, PhaseBar, Automounter!MountsOf
  <2> QED BY <1>1, <1>3, <1>6, <1>9, <2>1, <2>2, <2>3 DEF Automounter!Detach
<1> QED BY <1>1, <1>7, <1>8, <1>9

\* Whatever ends the service in order is Down: nothing is running any more.
LEMMA DownRefines ==
    ASSUME Reliable, AutomountInv, mounts = {}, stops = {}, pc # "stopped", pc' = "stopped",
           UNCHANGED <<present, instances, survivors>>
    PROVE  Automounter!Down
<1>1. RunningBar = {} BY RunningOwned
<1>2. RunningBar' = {} BY <1>1 DEF RunningBar
<1> QED BY <1>1, <1>2 DEF PhaseBar, LeavingBar, Automounter!Down

\* Start-up is invisible, unless it fails.
LEMMA StartUpRefines ==
    ASSUME Reliable, AutomountInv, OpenPump \/ AnnounceRunning
    PROVE  UNCHANGED Automounter!vars \/ Automounter!Down
<1> USE DEF locals, queues, machine, run
<1>1. /\ pc \in {"open", "announce"} /\ pc' \in {"announce", "snapshot", "stopped"}
      /\ UNCHANGED <<present, stops, instances, survivors>>
      /\ pc' = "stopped" \/ UNCHANGED devq
  BY DEF OpenPump, AnnounceRunning
<1>2. mounts = {} /\ stops = {} BY <1>1 DEF AutomountInv, OrphanInv
<1>3. CASE pc' = "stopped" BY <1>1, <1>2, <1>3, DownRefines
<1>4. CASE pc' # "stopped"
  BY <1>1, <1>4 DEF PhaseBar, LeavingBar, RunningBar, RemovalQueued, Automounter!vars
<1> QED BY <1>3, <1>4

\* The drain begins with TearDown and ends with ReportStopped.
LEMMA ShutdownRefines ==
    ASSUME Reliable, AutomountInv, TearDown \/ ReportStopped
    PROVE  Automounter!BeginStop \/ Automounter!Down
<1> USE DEF locals, queues, machine, run
<1>1. CASE TearDown
  BY <1>1 DEF TearDown, PhaseBar, LeavingBar, RunningBar, Automounter!BeginStop
<1>2. CASE ReportStopped
  BY <1>2, DownRefines DEF ReportStopped, AutomountInv, OrphanInv
<1> QED BY <1>1, <1>2

\* A crash is Crash, and the next start Restart.
LEMMA CrashRefines ==
    ASSUME Reliable, AutomountInv, Crash \/ Restart
    PROVE  Automounter!Crash \/ Automounter!Restart
<1> USE DEF locals, queues, machine, run
<1>1. CASE Crash
  <2>1. RunningBar' = {} BY <1>1 DEF Crash, RunningBar
  <2> QED BY <1>1, <2>1 DEF Crash, PhaseBar, LeavingBar, Automounter!Crash
<1>2. CASE Restart
  <2>1. LeavingBar' = {}
    BY <1>2 DEF Restart, MemoryLost, LeavingBar, RemovalQueued
  <2> QED BY <1>2, <2>1 DEF Restart, PhaseBar, LeavingBar, RunningBar, Automounter!Restart
<1> QED BY <1>1, <1>2

\* The dispatch of an arrival takes no removal from the queue.
LEMMA ArrivalRefines ==
    ASSUME Reliable, AutomountInv, HandleArrival
    PROVE  UNCHANGED Automounter!vars
<1> USE DEF locals, queues, machine, run
<1>1. /\ pc = "get" /\ pc' = "next" /\ devq # <<>> /\ devq' = Tail(devq)
      /\ Head(devq).event = "arrival"
      /\ UNCHANGED <<present, stops, instances, survivors>>
  BY DEF HandleArrival
<1>2. \A d : RemovalQueued(d)' <=> RemovalQueued(d)
  BY <1>1, RemovalsAfterDispatch DEF TypeOK, AutomountInv, Rem
<1> QED BY <1>1, <1>2 DEF PhaseBar, LeavingBar, RunningBar, Automounter!vars

\* Every other step is one the promise says nothing of.
LEMMA Stutters ==
    ASSUME UNCHANGED <<present, devq, stops, instances, survivors>>,
           pc' = pc \/ {pc, pc'} \cap {"drain", "stopped"} = {}
    PROVE  UNCHANGED Automounter!vars
  BY DEF PhaseBar, LeavingBar, RunningBar, RemovalQueued, Automounter!vars

\* The service starts as a watcher that is up, with nothing mounted.
LEMMA RefineInit == Init => Automounter!Init
  BY DEF Init, PhaseBar, LeavingBar, RunningBar, RemovalQueued, Automounter!Init

\* Every step of the service is a step of Automount, or one it does not see.
LEMMA RefineStep ==
    ASSUME Reliable, AutomountInv, [Next]_vars
    PROVE  [Automounter!Next]_(Automounter!vars)
<1> USE DEF locals, queues, machine, run
<1>1. CASE OpenPump \/ AnnounceRunning
  BY <1>1, StartUpRefines DEF Automounter!Next
<1>2. CASE StartMount BY <1>2, StartRefines DEF Automounter!Next
<1>3. CASE HandleArrival BY <1>3, ArrivalRefines
<1>4. CASE HandleRemoval BY <1>4, RemovalRefines DEF Automounter!Next
<1>5. CASE StopMount BY <1>5, StopRefines DEF Automounter!Next
<1>6. CASE TearDown \/ ReportStopped BY <1>6, ShutdownRefines DEF Automounter!Next
<1>7. CASE DiskEvent BY <1>7, DiskEventRefines DEF Automounter!Next
<1>8. CASE Crash \/ Restart BY <1>8, CrashRefines DEF Automounter!Next
<1>9. CASE RescanSnapshot \/ RescanEnumerate \/ ArrivalGate \/ ArrivalsDone
  BY <1>9, Stutters DEF RescanSnapshot, RescanEnumerate, ArrivalGate, ArrivalsDone
<1>10. CASE ListPartitions \/ ProbePartition \/ PartitionsDone \/ PickLetter
  BY <1>10, Stutters DEF ListPartitions, ProbePartition, PartitionsDone, PickLetter
<1>11. CASE HandleRescan \/ HandleQuit \/ RemovalDone
  BY <1>11, Stutters DEF HandleRescan, HandleQuit, RemovalDone
<1>12. CASE ControlHandler
  BY <1>12, Stutters DEF ControlHandler, ControlStop, PostQuit, ControlSession
<1>13. CASE AttachConsole \/ DetachConsole \/ RequestStop
  BY <1>13, Stutters DEF AttachConsole, DetachConsole, RequestStop
<1>14. CASE InstanceReady \/ OtherProgramLetter
  BY <1>14, Stutters DEF InstanceReady, OtherProgramLetter
<1>15. CASE InstanceExits BY <1>15 DEF InstanceExits, Event, Reliable
<1>16. CASE UNCHANGED vars BY <1>16, Stutters DEF vars
<1> QED
  BY <1>1, <1>2, <1>3, <1>4, <1>5, <1>6, <1>7, <1>8, <1>9, <1>10, <1>11, <1>12, <1>13,
     <1>14, <1>15, <1>16
  DEF Next, PumpThread, Environment

\* Threads, queues, launcher and crashes included, the service does nothing
\* Automount does not allow: it mounts only what it will see leaving, ends
\* only what leaves, forgets a disk only when nothing of it is mounted, and
\* reports itself stopped only with nothing left running.
THEOREM ServiceImplementsAutomount == ASSUME Reliable PROVE Spec => ImplementsAutomount
<1>1. TypeOK /\ LetterInv /\ [Next]_vars => LetterInv' BY LetterStep DEF Reliable
<1>2. TypeOK /\ UnmountInv /\ [Next]_vars => UnmountInv' BY UnmountStep
<1>3. Init => UnmountInv BY DEF Init, UnmountInv
<1>4. TypeOK /\ RemovalInv /\ OrphanInv /\ LetterInv /\ UnmountInv /\ [Next]_vars
        => [Automounter!Next]_(Automounter!vars)
  BY RefineStep DEF AutomountInv
<1> QED
  BY <1>1, <1>2, <1>3, <1>4, LetterInit, RefineInit, InvCorrect, PTL
  DEF Spec, ImplementsAutomount, Automounter!Spec

-----------------------------------------------------------------------------
(* EveryDiskServed.  Nothing in the service retries a disk; it is served    *)
(* because, at every step on the way, somebody still has to come to it: an  *)
(* arrival that is queued, a path that is to be handled, a rescan that is   *)
(* due, posted or asked for by a logon.  A rescan skips the disks that hold *)
(* a mount, so it must also be shown that a disk never holds some of its    *)
(* mounts only, unless handle_arrival is at work on it or it has been gone  *)
(* in the meantime.                                                         *)

Mounted(d, n) == \E m \in mounts : m.path.device = d /\ m.part = n
Full(d) == \A n \in FsOn(d) : Mounted(d, n)
Bare(d) == \A m \in mounts : m.path.device # d

\* handle_arrival is at work on d, and has mounted what it has passed.
AtWork(d) ==
    /\ InArrival /\ path.device = d
    /\ pc = "list" \/ \A n \in FsOn(d) : n < part => Mounted(d, n)

\* A rescan that will come to d.
RescanDue(d) ==
    \/ pc \in {"announce", "snapshot"}
    \/ pc = "enumerate" /\ \A p \in tracked : p.device # d
    \/ Queued("rescan", postq) \/ Queued("session", controls)

ToCome(d) ==
    \/ Queued(Arr(d), devq)
    \/ \E p \in todo : p.device = d
    \/ AtWork(d)
    \/ RescanDue(d)

\* The queue tells whether a disk is attached once it has been dispatched,
\* and what is to be handled is attached or will be noticed as leaving.
OrderInv ==
    Registered =>
        /\ \A d \in Disks : IF d \in present THEN RemovalsUndone(devq, d)
                                             ELSE ArrivalsUndone(devq, d)
        /\ \A p \in todo : Noticed(p.device)
        /\ InArrival => Noticed(path.device)

WholeInv ==
    Registered => \A d \in present :
        /\ Full(d) \/ Bare(d) \/ AtWork(d) \/ RemovalQueued(d)
        /\ InArrival /\ path.device = d => AtWork(d) \/ RemovalQueued(d)

Working == pc \notin {"open", "teardown", "drain", "stopped"}

ComingInv ==
    (Working /\ console /\ ~shutting_down) =>
        \A d \in present : Full(d) \/ ToCome(d)

StatusInv == pc \notin {"open", "announce", "stopped"} => status = "Running"

ServedInv == OrderInv /\ WholeInv /\ ComingInv /\ StatusInv

\* Nothing on the way to a mount fails.
Undisturbed == Faults \cap {"detail", "enumerate", "list", "probe", "locate", "start"} = {}

\* Whenever a letter is needed one is free.
LetterFree == pc = "pick" => pick_drive_letter(visible \cup foreign) # {}

\* The queue goes on telling whether a disk is attached, after any step.
LEMMA OrderStep ==
    ASSUME TypeOK, OrphanInv, OrderInv, [Next]_vars PROVE OrderInv'
<1> USE DEF locals, queues, machine, run
<1> DEFINE Order(d, q, ps) == IF d \in ps THEN RemovalsUndone(q, d) ELSE ArrivalsUndone(q, d)
<1>a. ASSUME Registered' => Registered, UNCHANGED <<present, devq>>,
             Registered => \A p \in todo' : p \in todo \/ Noticed(p.device),
             Registered /\ InArrival' =>
                \/ UNCHANGED path /\ InArrival
                \/ path' \in todo
      PROVE  OrderInv'
  <2>1. \A d : Noticed(d)' <=> Noticed(d) BY <1>a DEF Noticed, RemovalQueued
  <2> QED BY <1>a, <2>1 DEF OrderInv
<1>1. CASE OpenPump
  <2>1. /\ Registered' => pc' = "announce"
        /\ pc = "open" /\ devq' = <<>> /\ todo' = {}
    BY <1>1 DEF OpenPump, OrphanInv, Registered
  <2>2. Len(devq') = 0 BY <2>1
  <2> QED BY <2>1, <2>2 DEF OrderInv, RemovalsUndone, ArrivalsUndone, InArrival
<1>2. CASE AnnounceRunning
  BY <1>2, <1>a DEF AnnounceRunning, Registered, OrderInv, InArrival
<1>3. CASE RescanSnapshot BY <1>3, <1>a DEF RescanSnapshot, Registered, InArrival
<1>4. CASE RescanEnumerate
  <2>1. \A p \in todo' : p \in todo \/ Noticed(p.device)
    BY <1>4 DEF RescanEnumerate, Listings, disks_to_probe, SetupPath, Noticed
  <2> QED BY <1>4, <1>a, <2>1 DEF RescanEnumerate, Registered, InArrival
<1>5. CASE ArrivalGate BY <1>5, <1>a DEF ArrivalGate, Registered, InArrival
<1>6. CASE ArrivalsDone BY <1>6, <1>a DEF ArrivalsDone, Registered, InArrival
<1>7. CASE ListPartitions \/ ProbePartition \/ PartitionsDone \/ PickLetter \/ StartMount
  BY <1>7, <1>a DEF ListPartitions, ProbePartition, PartitionsDone, PickLetter, StartMount,
     Registered, InArrival
<1>8. CASE HandleArrival \/ HandleRemoval
  <2>1. /\ devq # <<>> /\ devq' = Tail(devq) /\ UNCHANGED present
        /\ pc = "get" /\ Registered /\ ~InArrival'
        /\ \/ todo' = todo
           \/ Head(devq).event = "arrival" /\ todo' = {ArrivalPath(Head(devq).disk)}
    BY <1>8 DEF HandleArrival, HandleRemoval, Registered, InArrival
  <2>2. todo = {} BY <2>1 DEF OrphanInv, FreshInv, InArrival
  <2>3. ASSUME NEW d \in Disks PROVE Order(d, devq, present)'
    BY <2>1, <2>3, HeadNotice, RemovalsUndoneKept, DispatchQueue DEF TypeOK, OrderInv
  <2>4. ASSUME NEW d \in Disks, Head(devq) = Arr(d) PROVE Noticed(d)'
    <3>1. CASE d \in present BY <2>1, <3>1 DEF Noticed
    <3>2. CASE d \notin present
      <4>1. ArrivalsUndone(devq, d) BY <2>1, <3>2 DEF OrderInv
      <4>2. 1 \in 1..Len(devq) /\ devq[1] = Arr(d) /\ Len(devq) \in Nat
        BY <2>1, <2>4, HeadNotice
      <4>3. RemovalQueued(d) BY <4>1, <4>2 DEF ArrivalsUndone, RemovalQueued, Rem
      <4>4. Head(devq) # Rem(d) BY <2>4 DEF Arr, Rem
      <4>5. RemovalQueued(d)' BY <2>1, <4>3, <4>4, RemovalsAfterDispatch DEF TypeOK
      <4> QED BY <4>5 DEF Noticed
    <3> QED BY <3>1, <3>2
  <2>5. ASSUME NEW p \in todo' PROVE Noticed(p.device)'
    <3>1. p = ArrivalPath(Head(devq).disk) /\ Head(devq).event = "arrival"
      BY <2>1, <2>2
    <3>2. p.device = Head(devq).disk BY <3>1 DEF ArrivalPath
    <3>3. PICK d \in Disks : d = p.device /\ Head(devq) = Arr(d)
      BY <2>1, <3>1, <3>2, HeadNotice DEF TypeOK
    <3> QED BY <2>4, <3>3
  <2> QED BY <2>1, <2>3, <2>5 DEF OrderInv
<1>9. CASE HandleRescan \/ HandleQuit \/ RemovalDone \/ StopMount
  BY <1>9, <1>a DEF HandleRescan, HandleQuit, RemovalDone, StopMount, Registered, InArrival
<1>10. CASE TearDown \/ ReportStopped \/ Crash \/ Restart
  BY <1>10 DEF TearDown, ReportStopped, Crash, Restart, Registered, OrderInv
<1>11. CASE DiskEvent
  <2>1. UNCHANGED <<pc, todo, path>> BY <1>11 DEF DiskEvent
  <2>2. CASE ~Registered BY <2>1, <2>2 DEF Registered, OrderInv
  <2>3. CASE Registered
    <3>1. PICK c \in Disks :
             \/ /\ c \notin present /\ present' = present \cup {c}
                /\ devq' = Append(devq, Arr(c))
             \/ /\ c \in present /\ present' = present \ {c}
                /\ devq' = Append(devq, Rem(c))
      BY <1>11, <2>3, DiskEventMoves DEF Moves
    <3>2. devq \in Seq(Notifications) /\ Arr(c) \in Notifications /\ Rem(c) \in Notifications
          /\ \A d : Arr(c) # Rem(d) /\ Rem(c) # Arr(d) /\ (Arr(c) = Arr(d) => c = d)
                    /\ (Rem(c) = Rem(d) => c = d)
      BY DEF TypeOK, DiskBusTypeOK, Notifications, Arr, Rem
    <3>3. ASSUME NEW d \in Disks PROVE Order(d, devq, present)'
      <4>1. CASE devq' = Append(devq, Arr(c)) /\ c \notin present /\ present' = present \cup {c}
        <5>1. RemovalsUndone(devq, d) \/ d = c => RemovalsUndone(devq, d)'
          BY <3>2, <4>1, RemovalsUndoneKept
        <5>2. ArrivalsUndone(devq, d) /\ d # c => ArrivalsUndone(devq, d)'
          BY <3>2, <4>1, NotifyQueue
        <5> QED BY <2>3, <4>1, <5>1, <5>2 DEF OrderInv
      <4>2. CASE devq' = Append(devq, Rem(c)) /\ c \in present /\ present' = present \ {c}
        <5>1. RemovalsUndone(devq, d) /\ d # c => RemovalsUndone(devq, d)'
          BY <3>2, <4>2, RemovalsUndoneKept
        <5>2. ArrivalsUndone(devq, d) \/ d = c => ArrivalsUndone(devq, d)'
          BY <3>2, <4>2, NotifyQueue
        <5> QED BY <2>3, <4>2, <5>1, <5>2 DEF OrderInv
      <4> QED BY <3>1, <4>1, <4>2
    <3>4. \A d : Noticed(d) => Noticed(d)' BY <1>11, <2>3, NoticedAfterDiskEvent
    <3> QED BY <2>1, <2>3, <3>3, <3>4 DEF OrderInv, InArrival
  <2> QED BY <2>2, <2>3
<1>12. CASE ControlHandler
  BY <1>12, <1>a DEF ControlHandler, ControlStop, PostQuit, ControlSession, Registered, InArrival
<1>13. CASE AttachConsole \/ DetachConsole \/ RequestStop
  BY <1>13, <1>a DEF AttachConsole, DetachConsole, RequestStop, Registered, InArrival
<1>14. CASE InstanceReady \/ InstanceExits \/ OtherProgramLetter
  BY <1>14, <1>a DEF InstanceReady, InstanceExits, OtherProgramLetter, Registered, InArrival
<1>15. CASE UNCHANGED vars BY <1>15, <1>a DEF vars, Registered, InArrival
<1> QED
  BY <1>1, <1>2, <1>3, <1>4, <1>5, <1>6, <1>7, <1>8, <1>9, <1>10, <1>11, <1>12, <1>13,
     <1>14, <1>15
  DEF Next, PumpThread, Environment

\* While nothing on the way fails, a letter is found and the mount started.
LEMMA Mounts ==
    ASSUME TypeOK, Undisturbed
    PROVE  /\ LetterFree /\ PickLetter => pc' = "start" /\ UNCHANGED part
           /\ InstanceNameUnique /\ StartMount =>
                mounts' = Insert(mounts, [path |-> path, part |-> part, letter |-> letter])
  BY DEF Undisturbed, LetterFree, PickLetter, InstanceNameUnique, StartMount,
         StartSucceeds, StartFails, Track

\* An entry that enters the map mounts its own partition, and takes no
\* other's place.
LEMMA MountedAfterInsert ==
    ASSUME NEW e, mounts' = Insert(mounts, e)
    PROVE  \A d, n : Mounted(d, n)' <=> Mounted(d, n) \/ (d = e.path.device /\ n = e.part)
  BY DEF Mounted, Insert

\* No disk is left half mounted, after any step.
LEMMA WholeStep ==
    ASSUME TypeOK, RemovalInv, OrphanInv, OrderInv, WholeInv,
           Undisturbed, LetterFree, InstanceNameUnique, [Next]_vars
    PROVE  WholeInv'
<1> USE DEF locals, queues, machine, run
\* Steps that leave the map, the disks and the queue alone, and go on with
\* handle_arrival's disk or are done with it.
<1>a. ASSUME Registered' => Registered, UNCHANGED <<mounts, present, devq>>,
             \A d \in present : InArrival' /\ path'.device = d =>
                                    AtWork(d)' \/ RemovalQueued(d),
             \A d \in present : AtWork(d) => AtWork(d)' \/ Full(d)
      PROVE  WholeInv'
  <2>1. \A d : /\ RemovalQueued(d)' <=> RemovalQueued(d)
               /\ Full(d)' <=> Full(d)
               /\ Bare(d)' <=> Bare(d)
    BY <1>a DEF RemovalQueued, Full, Bare, Mounted
  <2> QED BY <1>a, <2>1 DEF WholeInv
\* Steps outside handle_arrival.
<1>b. ASSUME Registered' => Registered, UNCHANGED <<mounts, present, devq>>,
             ~InArrival, ~InArrival'
      PROVE  WholeInv'
  BY <1>a, <1>b DEF AtWork
\* Steps that do not concern handle_arrival.
<1>c. ASSUME UNCHANGED <<pc, mounts, present, devq, path, part>> PROVE WholeInv'
  <2>1. \A d : AtWork(d)' <=> AtWork(d) BY <1>c DEF AtWork, InArrival, Mounted
  <2> QED BY <1>a, <1>c, <2>1 DEF WholeInv, Registered, InArrival
<1>p. path.device \in Disks /\ part \in Nat BY DEF TypeOK, Paths
<1>1. CASE OpenPump
  <2>1. mounts' = {} /\ (Registered' => ~InArrival')
    BY <1>1 DEF OpenPump, OrphanInv, Registered, InArrival
  <2> QED BY <2>1 DEF WholeInv, Bare
<1>2. CASE AnnounceRunning
  <2>1. Registered' => UNCHANGED <<mounts, present, devq>> /\ Registered
    BY <1>2 DEF AnnounceRunning, Registered
  <2>2. ~InArrival /\ ~InArrival' BY <1>2 DEF AnnounceRunning, InArrival
  <2> QED BY <1>b, <2>1, <2>2 DEF WholeInv
<1>3. CASE RescanSnapshot \/ RescanEnumerate \/ ArrivalsDone
  BY <1>3, <1>b DEF RescanSnapshot, RescanEnumerate, ArrivalsDone, Registered, InArrival
<1>4. CASE ArrivalGate
  <2>1. pc = "next" /\ pc' \in {"next", "list"} /\ UNCHANGED <<mounts, present, devq>>
    BY <1>4 DEF ArrivalGate
  <2> QED BY <1>a, <2>1 DEF Registered, InArrival, AtWork
<1>5. CASE ListPartitions
  <2>1. /\ pc = "list" /\ UNCHANGED <<mounts, present, devq, path>>
        /\ \/ pc' = "probe" /\ part' = FirstPart(path.device)
           \/ pc' = "next" /\ path.device \notin present
    BY <1>5 DEF ListPartitions, Undisturbed
  <2>2. \A n \in FsOn(path.device) : ~(n < FirstPart(path.device))
    BY <1>p, FsBounds, PartNumbers
  <2>3. pc' = "probe" => AtWork(path.device)'
    BY <2>1, <2>2 DEF AtWork, InArrival
  <2> QED BY <1>a, <2>1, <2>3 DEF Registered, InArrival, AtWork
<1>6. CASE ProbePartition
  <2>1. /\ pc = "probe" /\ UNCHANGED <<mounts, present, devq, path>>
        /\ \/ pc' = "pick" /\ part' = part
           \/ /\ pc' = "probe" /\ part' = part + 1
              /\ path.device \in present => part \notin FsOn(path.device)
    BY <1>6 DEF ProbePartition, Undisturbed
  <2>2. AtWork(path.device) /\ path.device \in present => AtWork(path.device)'
    BY <1>p, <2>1, FsBounds DEF AtWork, InArrival, Mounted
  <2>3. path.device \in present => AtWork(path.device) \/ RemovalQueued(path.device)
    BY <2>1 DEF WholeInv, Registered, InArrival
  <2> QED BY <1>a, <2>1, <2>2, <2>3 DEF Registered, InArrival, AtWork
<1>7. CASE PartitionsDone
  <2>1. /\ pc = "probe" /\ pc' = "next" /\ UNCHANGED <<mounts, present, devq, path>>
        /\ part > LastPart(path.device)
    BY <1>7 DEF PartitionsDone
  <2>2. \A n \in FsOn(path.device) : n < part BY <1>p, <2>1, FsBounds, PartNumbers
  <2>3. AtWork(path.device) => Full(path.device) BY <2>1, <2>2 DEF AtWork, Full
  <2> QED BY <1>a, <2>1, <2>3 DEF Registered, InArrival, AtWork
<1>8. CASE PickLetter
  <2>1. pc = "pick" /\ pc' = "start" /\ UNCHANGED <<part, mounts, present, devq, path>>
    BY <1>8, Mounts DEF PickLetter
  <2>2. \A d : AtWork(d)' <=> AtWork(d) BY <2>1 DEF AtWork, InArrival, Mounted
  <2> QED BY <1>a, <2>1, <2>2 DEF WholeInv, Registered, InArrival
<1>9. CASE StartMount
  <2> DEFINE e == [path |-> path, part |-> part, letter |-> letter]
  <2>1. /\ pc = "start" /\ pc' = "probe" /\ part' = part + 1 /\ mounts' = Insert(mounts, e)
        /\ UNCHANGED <<present, devq, path>>
    BY <1>9, Mounts DEF StartMount
  <2>2. e.path = path /\ e.part = part OBVIOUS
  <2> HIDE DEF e
  <2>3. \A d, n : Mounted(d, n)' <=> Mounted(d, n) \/ (d = path.device /\ n = part)
    BY <2>1, <2>2, MountedAfterInsert
  <2>4. AtWork(path.device) => AtWork(path.device)'
    BY <1>p, <2>1, <2>3, FsBounds DEF AtWork, InArrival
  <2>5. \A d : /\ RemovalQueued(d)' <=> RemovalQueued(d)
               /\ Full(d) => Full(d)'
    BY <2>1, <2>3 DEF RemovalQueued, Full
  <2>6. \A d : Bare(d) /\ d # path.device => Bare(d)'
    BY <2>1, <2>2 DEF Bare, Insert
  <2>7. Registered /\ InArrival BY <2>1 DEF Registered, InArrival
  <2> QED BY <2>1, <2>4, <2>5, <2>6, <2>7 DEF WholeInv, AtWork
<1>10. CASE HandleArrival \/ HandleRemoval
  <2>1. /\ devq # <<>> /\ devq' = Tail(devq) /\ UNCHANGED present
        /\ pc = "get" /\ Registered /\ ~InArrival /\ ~InArrival'
        /\ \/ mounts' = mounts /\ Head(devq).event = "arrival"
           \/ /\ mounts' = mounts \ EntriesOf(ArrivalPath(Head(devq).disk))
              /\ Head(devq).event = "removal"
    BY <1>10 DEF HandleArrival, HandleRemoval, Registered, InArrival
  <2>2. ASSUME NEW d \in present PROVE Full(d)' \/ Bare(d)' \/ RemovalQueued(d)'
    <3>1. CASE Head(devq) # Rem(d)
      <4>1. RemovalQueued(d) => RemovalQueued(d)' BY <2>1, <3>1, RemovalsAfterDispatch DEF TypeOK
      <4>2. \A m \in mounts : m.path.device = d => m \in mounts'
        BY <2>1, <3>1, HeadNotice DEF TypeOK, EntriesOf, same_device, ArrivalPath
      <4>3. Full(d) => Full(d)' BY <4>2 DEF Full, Mounted
      <4>4. Bare(d) => Bare(d)' BY <2>1 DEF Bare
      <4> QED BY <2>1, <4>1, <4>3, <4>4 DEF WholeInv, AtWork
    <3>2. CASE Head(devq) = Rem(d)
      <4>1. mounts' = mounts \ EntriesOf(ArrivalPath(d)) BY <2>1, <3>2 DEF Rem
      <4>2. Bare(d)' BY <4>1 DEF Bare, EntriesOf, same_device, ArrivalPath
      <4> QED BY <4>2
    <3> QED BY <3>1, <3>2
  <2> QED BY <2>1, <2>2 DEF WholeInv
<1>11. CASE HandleRescan \/ HandleQuit \/ RemovalDone \/ StopMount
  BY <1>11, <1>b DEF HandleRescan, HandleQuit, RemovalDone, StopMount, Registered, InArrival
<1>12. CASE TearDown \/ ReportStopped \/ Crash \/ Restart
  BY <1>12 DEF TearDown, ReportStopped, Crash, Restart, Registered, WholeInv
<1>13. CASE DiskEvent
  <2>1. UNCHANGED <<pc, mounts, path, part>> BY <1>13 DEF DiskEvent
  <2>2. \A d : /\ Full(d)' <=> Full(d)
               /\ Bare(d)' <=> Bare(d)
               /\ AtWork(d)' <=> AtWork(d)
    BY <2>1 DEF Full, Bare, AtWork, InArrival, Mounted
  <2>3. CASE ~Registered BY <2>1, <2>3 DEF Registered, WholeInv
  <2>4. CASE Registered
    <3>1. PICK c \in Disks :
             \/ /\ c \notin present /\ present' = present \cup {c}
                /\ devq' = Append(devq, Arr(c))
             \/ /\ c \in present /\ present' = present \ {c}
                /\ devq' = Append(devq, Rem(c))
      BY <1>13, <2>4, DiskEventMoves DEF Moves
    <3>2. Arr(c) \in Notifications /\ Rem(c) \in Notifications
      BY DEF Notifications, Arr, Rem
    <3>3. \A d : RemovalQueued(d) => RemovalQueued(d)'
      BY <3>1, <3>2, RemovalsAfterNotify DEF TypeOK
    <3>4. ASSUME NEW d \in present', d \notin present
          PROVE  /\ Bare(d) \/ RemovalQueued(d)
                 /\ InArrival /\ path.device = d => RemovalQueued(d)
      BY <2>4, <3>4 DEF RemovalInv, Bare, Noticed, OrderInv
    <3> QED BY <2>1, <2>2, <2>4, <3>3, <3>4 DEF WholeInv, InArrival
  <2> QED BY <2>3, <2>4
<1>14. CASE ControlHandler
  BY <1>14, <1>c DEF ControlHandler, ControlStop, PostQuit, ControlSession
<1>15. CASE AttachConsole \/ DetachConsole \/ RequestStop
  BY <1>15, <1>c DEF AttachConsole, DetachConsole, RequestStop
<1>16. CASE InstanceReady \/ InstanceExits \/ OtherProgramLetter
  BY <1>16, <1>c DEF InstanceReady, InstanceExits, OtherProgramLetter
<1>17. CASE UNCHANGED vars BY <1>17, <1>c DEF vars
<1> QED
  BY <1>1, <1>2, <1>3, <1>4, <1>5, <1>6, <1>7, <1>8, <1>9, <1>10, <1>11, <1>12, <1>13,
     <1>14, <1>15, <1>16, <1>17
  DEF Next, PumpThread, Environment

\* A service that has opened its pump and announced itself says Running.
LEMMA StatusStep == ASSUME StatusInv, [Next]_vars PROVE StatusInv'
<1> USE DEF locals, queues, machine, run, StatusInv
<1>1. CASE OpenPump \/ AnnounceRunning BY <1>1 DEF OpenPump, AnnounceRunning
<1>2. CASE RescanSnapshot \/ RescanEnumerate \/ ArrivalGate \/ ArrivalsDone
  BY <1>2 DEF RescanSnapshot, RescanEnumerate, ArrivalGate, ArrivalsDone
<1>3. CASE ListPartitions \/ ProbePartition \/ PartitionsDone \/ PickLetter \/ StartMount
  BY <1>3 DEF ListPartitions, ProbePartition, PartitionsDone, PickLetter, StartMount
<1>4. CASE HandleArrival \/ HandleRemoval \/ HandleRescan \/ HandleQuit
  BY <1>4 DEF HandleArrival, HandleRemoval, HandleRescan, HandleQuit
<1>5. CASE StopMount \/ RemovalDone \/ TearDown \/ ReportStopped
  BY <1>5 DEF StopMount, RemovalDone, TearDown, ReportStopped
<1>6. CASE ControlHandler
  BY <1>6 DEF ControlHandler, ControlStop, PostQuit, ControlSession
<1>7. CASE DiskEvent \/ AttachConsole \/ DetachConsole \/ RequestStop
  BY <1>7 DEF DiskEvent, AttachConsole, DetachConsole, RequestStop
<1>8. CASE InstanceReady \/ InstanceExits \/ OtherProgramLetter
  BY <1>8 DEF InstanceReady, InstanceExits, OtherProgramLetter
<1>9. CASE Crash \/ Restart BY <1>9 DEF Crash, Restart
<1>10. CASE UNCHANGED vars BY <1>10 DEF vars
<1> QED
  BY <1>1, <1>2, <1>3, <1>4, <1>5, <1>6, <1>7, <1>8, <1>9, <1>10
  DEF Next, PumpThread, Environment

\* A disk that waits for its mounts goes on being waited for, after any
\* step; so does one that logs on, asks for a rescan or comes back.
LEMMA ComingStep ==
    ASSUME TypeOK, RemovalInv, OrphanInv, ServedInv,
           Undisturbed, LetterFree, InstanceNameUnique, [Next]_vars
    PROVE  ComingInv'
<1> SUFFICES ASSUME Working', console', ~shutting_down', NEW d \in present'
             PROVE  Full(d)' \/ ToCome(d)'
  BY DEF ComingInv
<1> USE DEF locals, queues, machine, run
<1>s. ServedInv = (OrderInv /\ WholeInv /\ ComingInv /\ StatusInv) BY DEF ServedInv
<1>p. /\ path.device \in Disks /\ part \in Nat
      /\ postq \in Seq({"quit", "rescan"}) /\ controls \in Seq({"stop", "session"})
      /\ devq \in Seq(Notifications)
  BY DEF TypeOK, DiskBusTypeOK, Paths
\* A removal in the queue has an arrival behind it.
<1>q. ASSUME Registered, d \in present, RemovalQueued(d) PROVE Queued(Arr(d), devq)
  <2>1. d \in Disks /\ RemovalsUndone(devq, d)
    BY <1>s, <1>q DEF OrderInv, TypeOK, DiskBusTypeOK
  <2> QED BY <1>q, <2>1 DEF RemovalQueued, RemovalsUndone, Queued, Rem
\* The service was working already, and waiting for the disk.
<1>i. ASSUME Working, console, ~shutting_down, d \in present
      PROVE  Full(d) \/ ToCome(d)
  BY <1>s, <1>i DEF ComingInv
\* Steps that keep what the service waits for.
<1>a. ASSUME Working, UNCHANGED <<mounts, present, devq, console, shutting_down,
                                  postq, controls>>,
             \/ UNCHANGED <<pc, tracked, todo, path, part>>
             \/ /\ (\E p \in todo : p.device = d) => (\E p \in todo' : p.device = d) \/ AtWork(d)'
                /\ AtWork(d) => AtWork(d)' \/ Full(d) \/ RemovalQueued(d)
                /\ pc \notin {"announce", "snapshot", "enumerate"}
      PROVE  Full(d)' \/ ToCome(d)'
  <2>1. Full(d)' <=> Full(d) BY <1>a DEF Full, Mounted
  <2>2. /\ Queued(Arr(d), devq)' <=> Queued(Arr(d), devq)
        /\ Queued("rescan", postq)' <=> Queued("rescan", postq)
        /\ Queued("session", controls)' <=> Queued("session", controls)
    BY <1>a DEF Queued
  <2>3. Registered BY <1>a DEF Working, Registered
  <2>4. CASE UNCHANGED <<pc, tracked, todo, path, part>>
    <3>1. AtWork(d)' <=> AtWork(d) BY <1>a, <2>4 DEF AtWork, InArrival, Mounted
    <3> QED BY <1>a, <1>i, <2>1, <2>2, <2>4, <3>1 DEF ToCome, RescanDue
  <2> QED BY <1>a, <1>i, <1>q, <2>1, <2>2, <2>3, <2>4 DEF ToCome, RescanDue
<1>1. CASE OpenPump BY <1>1 DEF OpenPump, Working, ToCome, RescanDue
<1>2. CASE AnnounceRunning BY <1>2 DEF AnnounceRunning, Working, ToCome, RescanDue
<1>3. CASE RescanSnapshot
  <2>1. /\ pc' = "enumerate" /\ tracked' = {m.path : m \in mounts}
        /\ UNCHANGED <<mounts, present, devq, postq, controls, todo, path, part, console,
                       shutting_down>>
    BY <1>3 DEF RescanSnapshot
  <2>2. CASE Bare(d)
    <3>1. \A p \in tracked' : p.device # d BY <2>1, <2>2 DEF Bare
    <3> QED BY <2>1, <3>1 DEF ToCome, RescanDue
  <2>3. CASE ~Bare(d)
    <3>1. Registered /\ ~InArrival BY <1>3 DEF RescanSnapshot, Registered, InArrival
    <3>2. Full(d) \/ RemovalQueued(d) BY <1>s, <2>1, <2>3, <3>1 DEF WholeInv, AtWork
    <3>3. Full(d)' \/ Queued(Arr(d), devq)'
      BY <1>q, <2>1, <3>1, <3>2 DEF Full, Mounted, Queued
    <3> QED BY <3>3 DEF ToCome
  <2> QED BY <2>2, <2>3
<1>4. CASE RescanEnumerate
  <2>1. /\ pc = "enumerate" /\ Working /\ ~InArrival
        /\ todo' = disks_to_probe({SetupPath(c) : c \in present}, tracked)
        /\ UNCHANGED <<mounts, present, devq, postq, controls, console, shutting_down>>
    BY <1>4 DEF RescanEnumerate, Undisturbed, Listings, Working, InArrival
  <2>2. todo = {} BY <2>1 DEF OrphanInv, FreshInv, InArrival
  <2>3. CASE \A p \in tracked : p.device # d
    <3>1. SetupPath(d) \in todo' /\ SetupPath(d).device = d
      BY <2>1, <2>3 DEF disks_to_probe, same_device, SetupPath
    <3> QED BY <3>1 DEF ToCome
  <2>4. CASE ~ \A p \in tracked : p.device # d
    <3>1. \/ Full(d) \/ Queued(Arr(d), devq)
          \/ Queued("rescan", postq) \/ Queued("session", controls)
      BY <1>i, <2>1, <2>2, <2>4 DEF ToCome, RescanDue, AtWork
    <3>2. \/ Full(d)' \/ Queued(Arr(d), devq)'
          \/ Queued("rescan", postq)' \/ Queued("session", controls)'
      BY <2>1, <3>1 DEF Full, Mounted, Queued
    <3> QED BY <3>2 DEF ToCome, RescanDue
  <2> QED BY <2>3, <2>4
<1>5. CASE ArrivalGate
  <2>1. PICK p \in todo :
           /\ pc = "next" /\ pc' = "list" /\ todo' = todo \ {p} /\ path' = p
           /\ UNCHANGED <<mounts, present, devq, postq, controls, console, shutting_down>>
    BY <1>5 DEF ArrivalGate
  <2>2. p.device = d => AtWork(d)' BY <2>1 DEF AtWork, InArrival
  <2>3. Working /\ ~AtWork(d) BY <2>1 DEF Working, AtWork, InArrival
  <2> QED BY <1>a, <2>1, <2>2, <2>3
<1>6. CASE ArrivalsDone
  <2>1. Working /\ ~AtWork(d) BY <1>6 DEF ArrivalsDone, Working, AtWork, InArrival
  <2> QED BY <1>6, <1>a, <2>1 DEF ArrivalsDone
\* Within handle_arrival, WholeInv says what becomes of AtWork.
<1>b. ASSUME InArrival, UNCHANGED <<mounts, present, devq, postq, controls, console,
                                    shutting_down, todo, path>>,
             AtWork(d) => AtWork(d)' \/ Full(d)
      PROVE  Full(d)' \/ ToCome(d)'
  <2>1. Working /\ pc \notin {"announce", "snapshot", "enumerate"}
    BY <1>b DEF InArrival, Working
  <2> QED BY <1>a, <1>b, <2>1
<1>7. CASE ListPartitions
  <2>1. /\ pc = "list" /\ UNCHANGED <<mounts, present, devq, path>>
        /\ \/ pc' = "probe" /\ part' = FirstPart(path.device)
           \/ pc' = "next" /\ path.device \notin present
    BY <1>7 DEF ListPartitions, Undisturbed
  <2>2. \A n \in FsOn(path.device) : ~(n < FirstPart(path.device))
    BY <1>p, FsBounds, PartNumbers
  <2>3. path.device = d => AtWork(d)' BY <2>1, <2>2 DEF AtWork, InArrival
  <2>4. InArrival /\ (AtWork(d) => AtWork(d)') BY <2>1, <2>3 DEF InArrival, AtWork
  <2> QED BY <1>7, <1>b, <2>4 DEF ListPartitions
<1>8. CASE ProbePartition
  <2>1. /\ pc = "probe" /\ UNCHANGED <<mounts, present, devq, path>>
        /\ \/ pc' = "pick" /\ part' = part
           \/ /\ pc' = "probe" /\ part' = part + 1
              /\ path.device \in present => part \notin FsOn(path.device)
    BY <1>8 DEF ProbePartition, Undisturbed
  <2>2. InArrival /\ (AtWork(d) => AtWork(d)')
    BY <1>p, <2>1, FsBounds DEF AtWork, InArrival, Mounted
  <2> QED BY <1>8, <1>b, <2>2 DEF ProbePartition
<1>9. CASE PartitionsDone
  <2>1. pc = "probe" /\ part > LastPart(path.device) BY <1>9 DEF PartitionsDone
  <2>2. \A n \in FsOn(path.device) : n < part BY <1>p, <2>1, FsBounds, PartNumbers
  <2>3. InArrival /\ (AtWork(d) => Full(d)) BY <2>1, <2>2 DEF AtWork, Full, InArrival
  <2> QED BY <1>9, <1>b, <2>3 DEF PartitionsDone
<1>10. CASE PickLetter
  <2>1. pc = "pick" /\ pc' = "start" /\ UNCHANGED <<part, mounts, path>>
    BY <1>10, Mounts DEF PickLetter
  <2>2. InArrival /\ (AtWork(d) => AtWork(d)') BY <2>1 DEF AtWork, InArrival, Mounted
  <2> QED BY <1>10, <1>b, <2>2 DEF PickLetter
<1>11. CASE StartMount
  <2> DEFINE e == [path |-> path, part |-> part, letter |-> letter]
  <2>1. /\ pc = "start" /\ pc' = "probe" /\ part' = part + 1 /\ mounts' = Insert(mounts, e)
        /\ UNCHANGED <<present, devq, path, todo, postq, controls, console, shutting_down>>
    BY <1>11, Mounts DEF StartMount
  <2>2. e.path = path /\ e.part = part OBVIOUS
  <2> HIDE DEF e
  <2>3. \A c, n : Mounted(c, n)' <=> Mounted(c, n) \/ (c = path.device /\ n = part)
    BY <2>1, <2>2, MountedAfterInsert
  <2>4. AtWork(d) => AtWork(d)'
    BY <1>p, <2>1, <2>3, FsBounds DEF AtWork, InArrival
  <2>5. Full(d) => Full(d)' BY <2>3 DEF Full
  <2>6. /\ Queued(Arr(d), devq)' <=> Queued(Arr(d), devq)
        /\ Queued("rescan", postq)' <=> Queued("rescan", postq)
        /\ Queued("session", controls)' <=> Queued("session", controls)
    BY <2>1 DEF Queued
  <2>7. Full(d) \/ ToCome(d) BY <1>i, <2>1 DEF Working
  <2> QED BY <2>1, <2>4, <2>5, <2>6, <2>7 DEF ToCome, RescanDue
<1>12. CASE HandleArrival
  <2>1. /\ devq # <<>> /\ devq' = Tail(devq) /\ Head(devq).event = "arrival"
        /\ todo' = {ArrivalPath(Head(devq).disk)} /\ pc = "get" /\ Working /\ ~InArrival
        /\ UNCHANGED <<present, mounts, postq, controls, console, shutting_down>>
    BY <1>12 DEF HandleArrival, InArrival, Working
  <2>2. todo = {} BY <2>1 DEF OrphanInv, FreshInv, InArrival
  <2>3. CASE Head(devq) = Arr(d)
    <3>1. \E p \in todo' : p.device = d BY <2>1, <2>3 DEF Arr, ArrivalPath
    <3> QED BY <3>1 DEF ToCome
  <2>4. CASE Head(devq) # Arr(d)
    <3>1. Queued(Arr(d), devq) => Queued(Arr(d), devq)' BY <1>p, <2>1, <2>4, QueuedFacts
    <3>2. Full(d)' <=> Full(d) BY <2>1 DEF Full, Mounted
    <3>3. /\ Queued("rescan", postq)' <=> Queued("rescan", postq)
          /\ Queued("session", controls)' <=> Queued("session", controls)
      BY <2>1 DEF Queued
    <3> QED BY <1>i, <2>1, <2>2, <3>1, <3>2, <3>3 DEF ToCome, RescanDue, AtWork
  <2> QED BY <2>3, <2>4
<1>13. CASE HandleRemoval
  <2>1. /\ devq # <<>> /\ devq' = Tail(devq) /\ Head(devq).event = "removal"
        /\ mounts' = mounts \ EntriesOf(ArrivalPath(Head(devq).disk))
        /\ pc = "get" /\ Working /\ ~InArrival
        /\ UNCHANGED <<present, todo, postq, controls, console, shutting_down>>
    BY <1>13 DEF HandleRemoval, InArrival, Working
  <2>2. todo = {} /\ Registered
    BY <2>1 DEF OrphanInv, FreshInv, InArrival, Registered
  <2>3. Head(devq) # Arr(d) BY <2>1 DEF Arr
  <2>4. Queued(Arr(d), devq) => Queued(Arr(d), devq)' BY <1>p, <2>1, <2>3, QueuedFacts
  <2>5. CASE Head(devq) = Rem(d)
    <3>1. 1 \in 1..Len(devq) /\ devq[1] = Rem(d) BY <1>p, <2>1, <2>5
    <3>2. RemovalQueued(d) BY <3>1 DEF RemovalQueued, Rem
    <3> QED BY <1>q, <2>1, <2>2, <2>4, <3>2 DEF ToCome
  <2>6. CASE Head(devq) # Rem(d)
    <3>1. \A m \in mounts : m.path.device = d => m \in mounts'
      BY <2>1, <2>6, HeadNotice DEF TypeOK, EntriesOf, same_device, ArrivalPath
    <3>2. Full(d) => Full(d)' BY <3>1 DEF Full, Mounted
    <3>3. /\ Queued("rescan", postq)' <=> Queued("rescan", postq)
          /\ Queued("session", controls)' <=> Queued("session", controls)
      BY <2>1 DEF Queued
    <3> QED BY <1>i, <2>1, <2>2, <2>4, <3>2, <3>3 DEF ToCome, RescanDue, AtWork
  <2> QED BY <2>5, <2>6
<1>14. CASE HandleRescan BY <1>14 DEF HandleRescan, ToCome, RescanDue
<1>15. CASE HandleQuit \/ TearDown \/ ReportStopped \/ Crash \/ Restart
  BY <1>15 DEF HandleQuit, TearDown, ReportStopped, Crash, Restart, Working
<1>16. CASE RemovalDone \/ StopMount
  <2>1. Working /\ pc \in {"get", "unmount"} /\ pc' \in {"get", "unmount"}
    BY <1>16 DEF RemovalDone, StopMount, Working
  <2>2. ~AtWork(d) BY <2>1 DEF AtWork, InArrival
  <2> QED BY <1>16, <1>a, <2>1, <2>2 DEF RemovalDone, StopMount
\* Steps of the others that add to what is queued.
<1>c. ASSUME UNCHANGED <<pc, mounts, tracked, todo, path, part, console, shutting_down>>,
             d \in present,
             Queued(Arr(d), devq) => Queued(Arr(d), devq)',
             Queued("rescan", postq) => Queued("rescan", postq)',
             Queued("session", controls) => Queued("session", controls)' \/ Queued("rescan", postq)'
      PROVE  Full(d)' \/ ToCome(d)'
  <2>1. Full(d)' <=> Full(d) BY <1>c DEF Full, Mounted
  <2>2. AtWork(d)' <=> AtWork(d) BY <1>c DEF AtWork, InArrival, Mounted
  <2>3. Full(d) \/ ToCome(d) BY <1>c, <1>i DEF Working
  <2> QED BY <1>c, <2>1, <2>2, <2>3 DEF ToCome, RescanDue
<1>17. CASE ControlHandler
  <2>1. CASE ControlStop BY <2>1 DEF ControlStop
  <2>2. CASE PostQuit
    <3>1. postq' = Append(postq, "quit") /\ UNCHANGED <<controls, devq, present>>
      BY <2>2 DEF PostQuit
    <3>2. Queued("rescan", postq) => Queued("rescan", postq)' BY <1>p, <3>1, QueuedFacts
    <3> QED BY <2>2, <1>c, <3>1, <3>2 DEF PostQuit, Queued
  <2>3. CASE ControlSession
    <3>1. postq' = Append(postq, "rescan") BY <2>3 DEF ControlSession
    <3>2. Queued("rescan", postq)' BY <1>p, <3>1, QueuedFacts
    <3> QED BY <3>2 DEF ToCome, RescanDue
  <2> QED BY <1>17, <2>1, <2>2, <2>3 DEF ControlHandler
<1>18. CASE DiskEvent
  <2>1. UNCHANGED <<pc, mounts, tracked, todo, path, part, console, shutting_down, postq,
                    controls>>
    BY <1>18 DEF DiskEvent
  <2>2. Registered BY <2>1 DEF Working, Registered
  <2>3. PICK c \in Disks :
           \/ /\ c \notin present /\ present' = present \cup {c}
              /\ devq' = Append(devq, Arr(c))
           \/ /\ c \in present /\ present' = present \ {c}
              /\ devq' = Append(devq, Rem(c))
    BY <1>18, <2>2, DiskEventMoves DEF Moves
  <2>q. \A y : Queued(Arr(d), Append(devq, y)) <=> Queued(Arr(d), devq) \/ Arr(d) = y
    BY <1>p, QueuedFacts
  <2>4. Queued(Arr(d), devq) => Queued(Arr(d), devq)' BY <2>3, <2>q DEF Queued
  <2>5. CASE d \in present BY <1>c, <2>1, <2>4, <2>5 DEF Queued
  <2>6. CASE d \notin present
    <3>1. devq' = Append(devq, Arr(d)) BY <2>3, <2>6
    <3>2. Queued(Arr(d), devq)' BY <2>q, <3>1 DEF Queued
    <3> QED BY <3>2 DEF ToCome
  <2> QED BY <2>5, <2>6
<1>19. CASE AttachConsole
  <2>1. pc' = pc /\ UNCHANGED status
        /\ controls' = IF Accepting THEN Append(controls, "session") ELSE controls
    BY <1>19 DEF AttachConsole
  <2>2. CASE pc = "announce" BY <2>1, <2>2 DEF ToCome, RescanDue
  <2>3. CASE pc # "announce"
    <3>1. Accepting BY <1>s, <2>1, <2>3 DEF StatusInv, Accepting, Working
    <3>2. Queued("session", controls)' BY <1>p, <2>1, <3>1, QueuedFacts
    <3> QED BY <3>2 DEF ToCome, RescanDue
  <2> QED BY <2>2, <2>3
<1>20. CASE DetachConsole BY <1>20 DEF DetachConsole
<1>21. CASE RequestStop
  <2>1. controls' = Append(controls, "stop") BY <1>21 DEF RequestStop
  <2>2. Queued("session", controls) => Queued("session", controls)'
    BY <1>p, <2>1, QueuedFacts
  <2> QED BY <1>21, <1>c, <2>2 DEF RequestStop, Queued
<1>22. CASE InstanceReady \/ InstanceExits \/ OtherProgramLetter
  BY <1>22, <1>c DEF InstanceReady, InstanceExits, OtherProgramLetter, Queued
<1>23. CASE UNCHANGED vars BY <1>23, <1>c DEF vars, Queued
<1> QED
  BY <1>1, <1>2, <1>3, <1>4, <1>5, <1>6, <1>7, <1>8, <1>9, <1>10, <1>11, <1>12, <1>13,
     <1>14, <1>15, <1>16, <1>17, <1>18, <1>19, <1>20, <1>21, <1>22, <1>23
  DEF Next, PumpThread, Environment

\* Whenever the service has nothing left to do, every filesystem of every
\* attached disk has its mount, whatever order the notifications, logons and
\* rescans came in: as long as nothing on the way to a mount fails, a letter
\* is free when one is picked, and is no instance's name when it is used.
THEOREM DisksServed ==
    ASSUME Undisturbed
    PROVE  Spec /\ []LetterFree /\ []InstanceNameUnique => []EveryDiskServed
<1>1. Init => ServedInv
  BY DEF Init, ServedInv, OrderInv, WholeInv, ComingInv, StatusInv, Registered, Working
<1>2. TypeOK /\ RemovalInv /\ OrphanInv /\ ServedInv
        /\ LetterFree /\ InstanceNameUnique /\ [Next]_vars => ServedInv'
  <2> SUFFICES ASSUME TypeOK, RemovalInv, OrphanInv, ServedInv,
                      LetterFree, InstanceNameUnique, [Next]_vars
               PROVE  ServedInv'
    OBVIOUS
  <2>1. OrderInv /\ WholeInv /\ StatusInv BY DEF ServedInv
  <2>2. OrderInv' BY <2>1, OrderStep
  <2>3. WholeInv' BY <2>1, WholeStep
  <2>4. ComingInv' BY ComingStep
  <2>5. StatusInv' BY <2>1, StatusStep
  <2> QED BY <2>2, <2>3, <2>4, <2>5 DEF ServedInv
<1>3. OrphanInv /\ ServedInv => EveryDiskServed
  <2> SUFFICES ASSUME OrphanInv, ServedInv, Idle, console, ~shutting_down, NEW d \in present
               PROVE  Full(d)
    BY DEF EveryDiskServed, Full, Mounted
  <2>1. /\ pc = "get" /\ Len(devq) = 0 /\ Len(postq) = 0 /\ Len(controls) = 0
    BY DEF Idle
  <2>2. Full(d) \/ ToCome(d) BY <2>1 DEF ServedInv, ComingInv, Working
  <2>3. todo = {} BY <2>1 DEF OrphanInv, FreshInv, InArrival
  <2> QED BY <2>1, <2>2, <2>3 DEF ToCome, AtWork, RescanDue, Queued, InArrival
<1> QED BY <1>1, <1>2, <1>3, InvCorrect, PTL DEF Spec

\* Where drives appear at once and nobody else uses letters, the letters in
\* use are the names of the running instances.
NamesInv ==
    /\ foreign = {} /\ Taken \subseteq visible
    /\ \A i, j \in instances : i.name = j.name => i = j
    /\ pc = "start" => letter \notin Taken

\* A stop frees the name and the letter together, a start takes both.
LEMMA NamesStep ==
    ASSUME "slow" \notin Env, "letter" \notin Env
    PROVE  TypeOK /\ NamesInv /\ [Next]_vars => NamesInv'
<1> SUFFICES ASSUME TypeOK, NamesInv, [Next]_vars PROVE NamesInv'
  OBVIOUS
<1> USE DEF locals, queues, machine, run
<1>a. ASSUME UNCHANGED <<instances, visible, foreign, letter>>, pc' = "start" => pc = "start"
      PROVE  NamesInv'
  BY <1>a DEF NamesInv, Taken
<1>1. CASE OpenPump \/ AnnounceRunning BY <1>1, <1>a DEF OpenPump, AnnounceRunning
<1>2. CASE RescanSnapshot \/ RescanEnumerate \/ ArrivalGate \/ ArrivalsDone
  BY <1>2, <1>a DEF RescanSnapshot, RescanEnumerate, ArrivalGate, ArrivalsDone
<1>3. CASE ListPartitions \/ ProbePartition \/ PartitionsDone
  BY <1>3, <1>a DEF ListPartitions, ProbePartition, PartitionsDone
<1>4. CASE PickLetter
  BY <1>4 DEF PickLetter, pick_drive_letter, NamesInv, Taken
<1>5. CASE StartMount BY <1>5 DEF StartMount, StartSucceeds, StartFails, NamesInv, Taken
<1>6. CASE HandleArrival \/ HandleRemoval \/ HandleRescan \/ HandleQuit
  BY <1>6, <1>a DEF HandleArrival, HandleRemoval, HandleRescan, HandleQuit
<1>7. CASE StopMount BY <1>7 DEF StopMount, NamesInv, Taken
<1>8. CASE RemovalDone \/ TearDown \/ ReportStopped
  BY <1>8, <1>a DEF RemovalDone, TearDown, ReportStopped
<1>9. CASE ControlHandler
  BY <1>9, <1>a DEF ControlHandler, ControlStop, PostQuit, ControlSession
<1>10. CASE DiskEvent \/ AttachConsole \/ DetachConsole \/ RequestStop
  BY <1>10, <1>a DEF DiskEvent, AttachConsole, DetachConsole, RequestStop
<1>11. CASE InstanceReady BY <1>11 DEF InstanceReady, NamesInv, Taken
<1>12. CASE InstanceExits BY <1>12 DEF InstanceExits, NamesInv, Taken
<1>13. CASE OtherProgramLetter BY <1>13 DEF OtherProgramLetter, Event
<1>14. CASE Crash \/ Restart BY <1>14, <1>a DEF Crash, Restart
<1>15. CASE UNCHANGED vars BY <1>15, <1>a DEF vars
<1> QED
  BY <1>1, <1>2, <1>3, <1>4, <1>5, <1>6, <1>7, <1>8, <1>9, <1>10, <1>11, <1>12, <1>13,
     <1>14, <1>15
  DEF Next, PumpThread, Environment

\* The comment of service.rs on instance names, "must be unique per
\* concurrent mount", is true of machines on which drives appear at once and
\* no other program takes a letter: it is the gap between the two that the
\* run service_name_clash falls into.
THEOREM NamesUnique ==
    ASSUME "slow" \notin Env, "letter" \notin Env PROVE Spec => []InstanceNameUnique
<1>1. Init => NamesInv BY DEF Init, NamesInv, Taken
<1>2. NamesInv => InstanceNameUnique BY DEF NamesInv, InstanceNameUnique
<1> QED BY <1>1, <1>2, NamesStep, TypeCorrect, PTL DEF Spec
=============================================================================
