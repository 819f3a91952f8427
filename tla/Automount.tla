------------------------------ MODULE Automount ------------------------------
(***************************************************************************)
(* What both watchers promise, whatever threads, queues and launchers they *)
(* are made of.  A mount is started only for a disk that is attached, or   *)
(* was and is still to be noticed as leaving; it is ended only because its *)
(* disk leaves or the watcher stops; a disk that has left is forgotten     *)
(* only once nothing of it is mounted; and a watcher that has stopped has  *)
(* left nothing mounted, unless it crashed.                                *)
(***************************************************************************)

CONSTANTS
    Disks,      \* disks that may be attached
    SelfExits   \* may a mount end by itself

VARIABLES
    phase,     \* "up", "stopping" once mounts are being ended, or "down"
    attached,  \* disks attached to the machine
    leaving,   \* disks whose removal is not finished
    running    \* mounts the watcher has started, each of some disk

vars == <<phase, attached, leaving, running>>

MountsOf(d) == {m \in running : m.disk = d}

Init ==
    /\ phase = "up" /\ attached \subseteq Disks
    /\ leaving = {} /\ running = {}

Attach(d) ==
    /\ d \notin attached /\ attached' = attached \cup {d}
    /\ UNCHANGED <<phase, leaving, running>>

\* Nothing needs doing for a disk without mounts.
Detach(d) ==
    /\ d \in attached /\ attached' = attached \ {d}
    /\ \/ phase = "up" /\ leaving' = leaving \cup {d}
       \/ (phase # "up" \/ MountsOf(d) = {}) /\ UNCHANGED leaving
    /\ UNCHANGED <<phase, running>>

Start ==
    /\ phase = "up"
    /\ \E m \in running' \ running :
          m.disk \in attached \cup leaving /\ running' = running \cup {m}
    /\ UNCHANGED <<phase, attached, leaving>>

\* With the last mount of a disk that leaves, its removal may be finished.
EndLeaving(m) ==
    /\ m.disk \in leaving /\ running' = running \ {m}
    /\ \/ UNCHANGED leaving
       \/ MountsOf(m.disk) = {m} /\ leaving' = leaving \ {m.disk}
    /\ UNCHANGED <<phase, attached>>

Forget(d) ==
    /\ d \in leaving /\ MountsOf(d) = {} /\ leaving' = leaving \ {d}
    /\ UNCHANGED <<phase, attached, running>>

BeginStop ==
    /\ phase = "up" /\ phase' = "stopping" /\ leaving' = {}
    /\ UNCHANGED <<attached, running>>

EndStopping(m) ==
    /\ phase = "stopping" /\ running' = running \ {m}
    /\ UNCHANGED <<phase, attached, leaving>>

Down ==
    /\ phase # "down" /\ running = {}
    /\ phase' = "down" /\ leaving' = {}
    /\ UNCHANGED <<attached, running>>

\* What a crash leaves mounted is no longer the watcher's.
Crash ==
    /\ phase # "down" /\ phase' = "down" /\ leaving' = {} /\ running' = {}
    /\ UNCHANGED attached

Restart ==
    /\ phase = "down" /\ phase' = "up"
    /\ UNCHANGED <<attached, leaving, running>>

Exit(m) ==
    /\ SelfExits /\ running' = running \ {m}
    /\ UNCHANGED <<phase, attached, leaving>>

Next ==
    \/ \E d \in Disks : Attach(d) \/ Detach(d) \/ Forget(d)
    \/ Start
    \/ \E m \in running : EndLeaving(m) \/ EndStopping(m) \/ Exit(m)
    \/ BeginStop \/ Down \/ Crash \/ Restart

Spec == Init /\ [][Next]_vars
=============================================================================
