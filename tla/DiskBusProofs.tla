---------------------------- MODULE DiskBusProofs ----------------------------
(***************************************************************************)
(* Lemmas about DiskBus that the proofs of both watchers need: what a      *)
(* dispatched or a new notification does to the queue, and the types of    *)
(* letters, paths and partition numbers.                                   *)
(***************************************************************************)
EXTENDS DiskBus, TLAPS

\* The lowest free letter is a letter.
LEMMA PickType == ASSUME NEW inUse PROVE pick_drive_letter(inUse) \subseteq Letters
  BY DEF pick_drive_letter

\* The path of an arrival notification is a path.
LEMMA ArrivalPathType == ASSUME NEW d \in Disks PROVE ArrivalPath(d) \in Paths
  BY DEF ArrivalPath, Paths

\* handle_arrival counts partitions with natural numbers.
LEMMA PartNumbers == \A d \in Disks : FirstPart(d) \in Nat /\ LastPart(d) \in Nat
  BY DiskBusAssumption DEF FirstPart, LastPart

\* Every filesystem of a disk is between the first and the last partition.
LEMMA FsBounds ==
    ASSUME NEW d \in Disks, NEW n \in FsOn(d)
    PROVE  n \in Nat /\ FirstPart(d) <= n /\ n <= LastPart(d)
<1>1. FirstPart(d) \in Nat /\ LastPart(d) \in Nat BY PartNumbers
<1> QED BY <1>1 DEF FsOn

\* The empty queue is a queue of anything.
LEMMA EmptyQueue == \A S : <<>> \in Seq(S)
  OBVIOUS

-----------------------------------------------------------------------------
(* A disk that is attached, or is still to be noticed as leaving.          *)

Arr(d) == [event |-> "arrival", disk |-> d]
Rem(d) == [event |-> "removal", disk |-> d]

Noticed(d) == d \in present \/ RemovalQueued(d)

\* The notification at the head of the queue.
LEMMA HeadNotice ==
    ASSUME DiskBusTypeOK, devq # <<>>
    PROVE  /\ Head(devq).disk \in Disks /\ devq \in Seq(Notifications)
           /\ Head(devq).event = "arrival" => Head(devq) = Arr(Head(devq).disk)
           /\ Head(devq).event = "removal" => Head(devq) = Rem(Head(devq).disk)
<1>1. Head(devq) \in Notifications /\ devq \in Seq(Notifications)
  BY DEF DiskBusTypeOK
<1> QED BY <1>1 DEF Notifications, Arr, Rem

\* Dispatching takes the first notification and shifts the others.
LEMMA TailFacts ==
    ASSUME NEW q \in Seq(Notifications), q # <<>>
    PROVE  /\ Tail(q) \in Seq(Notifications) /\ Len(Tail(q)) = Len(q) - 1
           /\ Len(q) \in Nat \ {0} /\ Head(q) = q[1]
           /\ \A i \in 1..Len(Tail(q)) : Tail(q)[i] = q[i + 1]
  OBVIOUS

\* Dispatching a notification takes at most that one removal from the queue.
LEMMA RemovalsAfterDispatch ==
    ASSUME DiskBusTypeOK, devq # <<>>, devq' = Tail(devq), NEW d
    PROVE  /\ RemovalQueued(d)' => RemovalQueued(d)
           /\ RemovalQueued(d) => RemovalQueued(d)' \/ Head(devq) = Rem(d)
<1>1. /\ Len(devq') = Len(devq) - 1 /\ Len(devq) \in Nat \ {0} /\ Head(devq) = devq[1]
      /\ \A i \in 1..Len(devq') : i + 1 \in 1..Len(devq) /\ devq'[i] = devq[i + 1]
  BY TailFacts DEF DiskBusTypeOK
<1>2. \A k \in 1..Len(devq) : k # 1 => k - 1 \in 1..Len(devq') /\ devq'[k - 1] = devq[k]
  BY <1>1
<1>3. RemovalQueued(d)' => RemovalQueued(d) BY <1>1 DEF RemovalQueued
<1>4. RemovalQueued(d) => RemovalQueued(d)' \/ Head(devq) = Rem(d)
  <2> SUFFICES ASSUME NEW k \in 1..Len(devq), devq[k] = Rem(d)
               PROVE  RemovalQueued(d)' \/ Head(devq) = Rem(d)
    BY <1>1 DEF RemovalQueued, Rem
  <2>1. CASE k = 1 BY <1>1, <2>1
  <2>2. CASE k # 1
    <3>1. k - 1 \in 1..Len(devq') /\ devq'[k - 1] = Rem(d) BY <1>2, <2>2
    <3> QED BY <1>1, <3>1 DEF RemovalQueued, Rem
  <2> QED BY <2>1, <2>2
<1> QED BY <1>3, <1>4

\* What happens to a disk while notifications are on adds a removal of it,
\* and no other, when it goes.
LEMMA RemovalsAfterNotify ==
    ASSUME DiskBusTypeOK, NEW n \in Notifications, devq' = Append(devq, n), NEW d
    PROVE  RemovalQueued(d)' <=> RemovalQueued(d) \/ n = Rem(d)
<1>1. /\ Len(devq') = Len(devq) + 1 /\ Len(devq) \in Nat
      /\ \A i \in 1..Len(devq) : devq'[i] = devq[i]
      /\ devq'[Len(devq) + 1] = n
  BY DEF DiskBusTypeOK
<1>2. \A i \in 1..Len(devq') : i \in 1..Len(devq) \/ i = Len(devq) + 1
  BY <1>1
<1> QED BY <1>1, <1>2 DEF RemovalQueued, Rem

\* A queued removal survives the dispatch of another notification ...
LEMMA RemovalAfterDispatch ==
    ASSUME DiskBusTypeOK, devq # <<>>, devq' = Tail(devq), UNCHANGED present, NEW d, Noticed(d),
           ~(Head(devq).event = "removal" /\ Head(devq).disk = d)
    PROVE  Noticed(d)'
<1>1. CASE d \in present BY <1>1 DEF Noticed
<1>2. CASE RemovalQueued(d)
  <2>1. PICK i \in 1..Len(devq) : devq[i] = [event |-> "removal", disk |-> d]
    BY <1>2 DEF RemovalQueued
  <2>2. i # 1 BY <2>1 DEF DiskBusTypeOK
  <2>3. i - 1 \in 1..Len(Tail(devq)) /\ Tail(devq)[i - 1] = devq[i]
    BY <2>1, <2>2 DEF DiskBusTypeOK
  <2>4. RemovalQueued(d)' BY <2>1, <2>3 DEF RemovalQueued
  <2> QED BY <2>4 DEF Noticed
<1> QED BY <1>1, <1>2 DEF Noticed

\* Steps that touch neither the disks nor the queue leave Noticed alone.
LEMMA NoticedStable ==
    ASSUME UNCHANGED <<present, devq>>, NEW d, Noticed(d) PROVE Noticed(d)'
  BY DEF Noticed, RemovalQueued

\* What happens to a disk while notifications are on.
Moves(c) ==
    \/ c \notin present /\ present' = present \cup {c} /\ devq' = Append(devq, Arr(c))
    \/ c \in present /\ present' = present \ {c} /\ devq' = Append(devq, Rem(c))

\* A disk that is plugged in or unplugged is still to be noticed.
LEMMA NoticedAfterMove ==
    ASSUME DiskBusTypeOK, NEW c \in Disks, Moves(c), NEW d, Noticed(d) PROVE Noticed(d)'
<1>1. /\ Arr(c) \in Notifications /\ Rem(c) \in Notifications
      /\ Rem(c) = Rem(d) \/ c # d
  BY DEF Notifications, Arr, Rem
<1>2. RemovalQueued(d) => RemovalQueued(d)' BY <1>1, RemovalsAfterNotify DEF Moves
<1>3. devq' = Append(devq, Rem(c)) => RemovalQueued(d)' \/ c # d
  BY <1>1, RemovalsAfterNotify
<1> QED BY <1>2, <1>3 DEF Moves, Noticed

-----------------------------------------------------------------------------
(* The order of the notifications of one disk.                             *)

Queued(x, q) == \E i \in 1..Len(q) : q[i] = x

\* What is queued stays queued until it is dispatched.
LEMMA QueuedFacts ==
    ASSUME NEW S, NEW q \in Seq(S), NEW x
    PROVE  /\ \A y : Queued(x, Append(q, y)) <=> Queued(x, q) \/ x = y
           /\ q # <<>> /\ Queued(x, q) => x = Head(q) \/ Queued(x, Tail(q))
<1>1. ASSUME NEW y PROVE Queued(x, Append(q, y)) <=> Queued(x, q) \/ x = y
  <2> DEFINE r == Append(q, y)
  <2>1. /\ Len(q) \in Nat /\ Len(r) = Len(q) + 1 /\ r[Len(q) + 1] = y
        /\ \A i \in 1..Len(q) : r[i] = q[i]
    OBVIOUS
  <2> HIDE DEF r
  <2>2. \A i \in 1..Len(r) : i \in 1..Len(q) \/ i = Len(q) + 1 BY <2>1
  <2>3. Queued(x, r) <=> Queued(x, q) \/ x = y BY <2>1, <2>2 DEF Queued
  <2> QED BY <2>3 DEF r
<1>2. ASSUME q # <<>>, Queued(x, q) PROVE x = Head(q) \/ Queued(x, Tail(q))
  <2>1. PICK k \in 1..Len(q) : q[k] = x BY <1>2 DEF Queued
  <2>2. CASE k = 1 BY <1>2, <2>1, <2>2
  <2>3. CASE k # 1
    <3>1. k - 1 \in 1..Len(Tail(q)) /\ Tail(q)[k - 1] = x BY <1>2, <2>1, <2>3
    <3> QED BY <3>1 DEF Queued
  <2> QED BY <2>2, <2>3
<1> QED BY <1>1, <1>2

\* Between two arrivals of d there is a removal.
Alternating(q, d) ==
    \A i, j \in 1..Len(q) : i < j /\ q[i] = Arr(d) /\ q[j] = Arr(d) =>
        \E k \in 1..Len(q) : i < k /\ k < j /\ q[k] = Rem(d)
\* Every arrival of d is followed by a removal.
ArrivalsUndone(q, d) ==
    \A i \in 1..Len(q) : q[i] = Arr(d) =>
        \E k \in 1..Len(q) : i < k /\ q[k] = Rem(d)
\* Every removal of d is followed by an arrival.
RemovalsUndone(q, d) ==
    \A i \in 1..Len(q) : q[i] = Rem(d) =>
        \E k \in 1..Len(q) : i < k /\ q[k] = Arr(d)
\* Every arrival of d is preceded by a removal.
RemovalFirst(q, d) ==
    \A i \in 1..Len(q) : q[i] = Arr(d) =>
        \E k \in 1..Len(q) : k < i /\ q[k] = Rem(d)

\* Dispatching keeps the order of what is left; the arrival dispatched
\* leaves no other of its disk before a removal.
LEMMA DispatchQueue ==
    ASSUME NEW q \in Seq(Notifications), q # <<>>, NEW d
    PROVE  /\ Alternating(q, d) => Alternating(Tail(q), d)
           /\ ArrivalsUndone(q, d) => ArrivalsUndone(Tail(q), d)
           /\ RemovalFirst(q, d) /\ Head(q) # Rem(d) => RemovalFirst(Tail(q), d)
           /\ Alternating(q, d) /\ Head(q) = Arr(d) => RemovalFirst(Tail(q), d)
<1> DEFINE t == Tail(q)
<1>1. /\ Len(t) = Len(q) - 1 /\ Len(q) \in Nat \ {0} /\ Head(q) = q[1]
      /\ \A i \in 1..Len(t) : i + 1 \in 1..Len(q) /\ t[i] = q[i + 1]
  BY TailFacts
<1>2. \A k \in 1..Len(q) : k > 1 => k - 1 \in 1..Len(t) /\ t[k - 1] = q[k]
  BY <1>1
<1> HIDE DEF t
<1>3. Alternating(q, d) => Alternating(t, d)
  <2> SUFFICES ASSUME Alternating(q, d), NEW i \in 1..Len(t), NEW j \in 1..Len(t),
                      i < j, t[i] = Arr(d), t[j] = Arr(d)
               PROVE  \E k \in 1..Len(t) : i < k /\ k < j /\ t[k] = Rem(d)
    BY DEF Alternating
  <2>1. PICK k \in 1..Len(q) : i + 1 < k /\ k < j + 1 /\ q[k] = Rem(d)
    BY <1>1 DEF Alternating
  <2> QED BY <1>1, <1>2, <2>1
<1>4. ArrivalsUndone(q, d) => ArrivalsUndone(t, d)
  <2> SUFFICES ASSUME ArrivalsUndone(q, d), NEW i \in 1..Len(t), t[i] = Arr(d)
               PROVE  \E k \in 1..Len(t) : i < k /\ t[k] = Rem(d)
    BY DEF ArrivalsUndone
  <2>1. PICK k \in 1..Len(q) : i + 1 < k /\ q[k] = Rem(d)
    BY <1>1 DEF ArrivalsUndone
  <2> QED BY <1>1, <1>2, <2>1
<1>5. RemovalFirst(q, d) /\ Head(q) # Rem(d) => RemovalFirst(t, d)
  <2> SUFFICES ASSUME RemovalFirst(q, d), Head(q) # Rem(d), NEW i \in 1..Len(t), t[i] = Arr(d)
               PROVE  \E k \in 1..Len(t) : k < i /\ t[k] = Rem(d)
    BY DEF RemovalFirst
  <2>1. PICK k \in 1..Len(q) : k < i + 1 /\ q[k] = Rem(d)
    BY <1>1 DEF RemovalFirst
  <2>2. k > 1 BY <1>1, <2>1
  <2> QED BY <1>1, <1>2, <2>1, <2>2
<1>6. Alternating(q, d) /\ Head(q) = Arr(d) => RemovalFirst(t, d)
  <2> SUFFICES ASSUME Alternating(q, d), Head(q) = Arr(d), NEW i \in 1..Len(t), t[i] = Arr(d)
               PROVE  \E k \in 1..Len(t) : k < i /\ t[k] = Rem(d)
    BY DEF RemovalFirst
  <2>1. PICK k \in 1..Len(q) : 1 < k /\ k < i + 1 /\ q[k] = Rem(d)
    BY <1>1 DEF Alternating
  <2> QED BY <1>1, <1>2, <2>1
<1> QED BY <1>3, <1>4, <1>5, <1>6 DEF t

\* Queueing an arrival or a removal keeps the notifications of a disk
\* alternating, as its presence does.
LEMMA NotifyQueue ==
    ASSUME NEW q \in Seq(Notifications), NEW n \in Notifications, NEW d
    PROVE  LET r == Append(q, n)
           IN  /\ Alternating(q, d) /\ n # Arr(d) => Alternating(r, d)
               /\ Alternating(q, d) /\ ArrivalsUndone(q, d) => Alternating(r, d)
               /\ ArrivalsUndone(q, d) /\ n # Arr(d) => ArrivalsUndone(r, d)
               /\ n = Rem(d) => ArrivalsUndone(r, d)
               /\ RemovalFirst(q, d) /\ n # Arr(d) => RemovalFirst(r, d)
               /\ RemovalFirst(q, d) /\ (\E k \in 1..Len(q) : q[k] = Rem(d))
                    => RemovalFirst(r, d)
<1> DEFINE r == Append(q, n)
<1>1. /\ Len(q) \in Nat /\ Len(r) = Len(q) + 1 /\ r[Len(q) + 1] = n
      /\ \A i \in 1..Len(q) : r[i] = q[i]
  OBVIOUS
<1>2. \A i \in 1..Len(r) : i \in 1..Len(q) \/ i = Len(q) + 1
  BY <1>1
<1>3. Rem(d) # Arr(d) BY DEF Rem, Arr
<1> HIDE DEF r
<1>4. Alternating(q, d) /\ n # Arr(d) => Alternating(r, d)
  BY <1>1, <1>2 DEF Alternating
<1>5. Alternating(q, d) /\ ArrivalsUndone(q, d) => Alternating(r, d)
  <2> SUFFICES ASSUME Alternating(q, d), ArrivalsUndone(q, d),
                      NEW i \in 1..Len(r), NEW j \in 1..Len(r),
                      i < j, r[i] = Arr(d), r[j] = Arr(d)
               PROVE  \E k \in 1..Len(r) : i < k /\ k < j /\ r[k] = Rem(d)
    BY DEF Alternating
  <2>1. i \in 1..Len(q) /\ q[i] = Arr(d) BY <1>1, <1>2
  <2>2. CASE j = Len(q) + 1 BY <1>1, <2>1, <2>2 DEF ArrivalsUndone
  <2>3. CASE j \in 1..Len(q) BY <1>1, <2>1, <2>3 DEF Alternating
  <2> QED BY <1>2, <2>2, <2>3
<1>6. ArrivalsUndone(q, d) /\ n # Arr(d) => ArrivalsUndone(r, d)
  BY <1>1, <1>2 DEF ArrivalsUndone
<1>7. n = Rem(d) => ArrivalsUndone(r, d)
  BY <1>1, <1>2, <1>3 DEF ArrivalsUndone
<1>8. RemovalFirst(q, d) /\ n # Arr(d) => RemovalFirst(r, d)
  BY <1>1, <1>2 DEF RemovalFirst
<1>9. RemovalFirst(q, d) /\ (\E k \in 1..Len(q) : q[k] = Rem(d)) => RemovalFirst(r, d)
  BY <1>1, <1>2 DEF RemovalFirst
<1> QED BY <1>4, <1>5, <1>6, <1>7, <1>8, <1>9 DEF r

\* Dispatching keeps a removal's arrival behind it; queueing the arrival, or
\* anything but another removal, does too.
LEMMA RemovalsUndoneKept ==
    ASSUME NEW q \in Seq(Notifications), NEW d
    PROVE  /\ q # <<>> /\ RemovalsUndone(q, d) => RemovalsUndone(Tail(q), d)
           /\ \A n \in Notifications :
                n = Arr(d) \/ (RemovalsUndone(q, d) /\ n # Rem(d))
                  => RemovalsUndone(Append(q, n), d)
<1>1. ASSUME q # <<>>, RemovalsUndone(q, d) PROVE RemovalsUndone(Tail(q), d)
  <2> DEFINE t == Tail(q)
  <2>1. /\ Len(t) = Len(q) - 1 /\ Len(q) \in Nat \ {0}
        /\ \A i \in 1..Len(t) : i + 1 \in 1..Len(q) /\ t[i] = q[i + 1]
    BY <1>1, TailFacts
  <2>2. \A k \in 1..Len(q) : k > 1 => k - 1 \in 1..Len(t) /\ t[k - 1] = q[k]
    BY <2>1
  <2> HIDE DEF t
  <2> SUFFICES ASSUME NEW i \in 1..Len(t), t[i] = Rem(d)
               PROVE  \E k \in 1..Len(t) : i < k /\ t[k] = Arr(d)
    BY DEF RemovalsUndone, t
  <2>3. PICK k \in 1..Len(q) : i + 1 < k /\ q[k] = Arr(d)
    BY <1>1, <2>1 DEF RemovalsUndone
  <2> QED BY <2>1, <2>2, <2>3
<1>2. ASSUME NEW n \in Notifications, n = Arr(d) \/ (RemovalsUndone(q, d) /\ n # Rem(d))
      PROVE  RemovalsUndone(Append(q, n), d)
  <2> DEFINE r == Append(q, n)
  <2>1. /\ Len(q) \in Nat /\ Len(r) = Len(q) + 1 /\ r[Len(q) + 1] = n
        /\ \A i \in 1..Len(q) : r[i] = q[i]
    OBVIOUS
  <2>2. \A i \in 1..Len(r) : i \in 1..Len(q) \/ i = Len(q) + 1
    BY <2>1
  <2>3. Rem(d) # Arr(d) BY DEF Rem, Arr
  <2> HIDE DEF r
  <2>4. RemovalsUndone(r, d) BY <1>2, <2>1, <2>2, <2>3 DEF RemovalsUndone
  <2> QED BY <2>4 DEF r
<1> QED BY <1>1, <1>2

\* The queue tells whether d is attached once it has been dispatched.
Ordered(q, ps, d) ==
    /\ Alternating(q, d)
    /\ IF d \in ps THEN RemovalsUndone(q, d) ELSE ArrivalsUndone(q, d)

\* It goes on telling, whatever is dispatched and whoever comes and goes.
LEMMA OrderedKept ==
    ASSUME DiskBusTypeOK, NEW d \in Disks, Ordered(devq, present, d)
    PROVE  /\ devq # <<>> => Ordered(Tail(devq), present, d)
           /\ \A c \in Disks : Moves(c) => Ordered(devq', present', d)
<1>1. devq \in Seq(Notifications) BY DEF DiskBusTypeOK
<1>2. devq # <<>> => Ordered(Tail(devq), present, d)
  BY <1>1, DispatchQueue, RemovalsUndoneKept DEF Ordered
<1>3. ASSUME NEW c \in Disks, Moves(c) PROVE Ordered(devq', present', d)
  <2>1. /\ Arr(c) \in Notifications /\ Rem(c) \in Notifications
        /\ Arr(c) # Rem(d) /\ Rem(c) # Arr(d)
        /\ c # d => Arr(c) # Arr(d) /\ Rem(c) # Rem(d)
    BY DEF Notifications, Arr, Rem
  <2>2. CASE c \notin present /\ present' = present \cup {c} /\ devq' = Append(devq, Arr(c))
    <3>1. Alternating(devq', d) BY <1>1, <2>1, <2>2, NotifyQueue DEF Ordered
    <3>2. d # c /\ ArrivalsUndone(devq, d) => ArrivalsUndone(devq', d)
      BY <1>1, <2>1, <2>2, NotifyQueue
    <3>3. d = c \/ RemovalsUndone(devq, d) => RemovalsUndone(devq', d)
      BY <1>1, <2>1, <2>2, RemovalsUndoneKept
    <3> QED BY <2>2, <3>1, <3>2, <3>3 DEF Ordered
  <2>3. CASE c \in present /\ present' = present \ {c} /\ devq' = Append(devq, Rem(c))
    <3>1. Alternating(devq', d) BY <1>1, <2>1, <2>3, NotifyQueue DEF Ordered
    <3>2. d = c \/ ArrivalsUndone(devq, d) => ArrivalsUndone(devq', d)
      BY <1>1, <2>1, <2>3, NotifyQueue
    <3>3. d # c /\ RemovalsUndone(devq, d) => RemovalsUndone(devq', d)
      BY <1>1, <2>1, <2>3, RemovalsUndoneKept
    <3> QED BY <2>3, <3>1, <3>2, <3>3 DEF Ordered
  <2> QED BY <1>3, <2>2, <2>3 DEF Moves
<1> QED BY <1>2, <1>3

\* A disk whose arrival is dispatched is attached, or its removal is queued.
LEMMA NoticedAfterArrival ==
    ASSUME DiskBusTypeOK, NEW d, Ordered(devq, present, d),
           devq # <<>>, Head(devq) = Arr(d), devq' = Tail(devq), UNCHANGED present
    PROVE  Noticed(d)'
<1>1. CASE d \in present BY <1>1 DEF Noticed
<1>2. CASE d \notin present
  <2>1. ArrivalsUndone(devq, d) BY <1>2 DEF Ordered
  <2>2. 1 \in 1..Len(devq) /\ devq[1] = Arr(d) /\ Len(devq) \in Nat
    BY TailFacts DEF DiskBusTypeOK
  <2>3. RemovalQueued(d) BY <2>1, <2>2 DEF ArrivalsUndone, RemovalQueued, Rem
  <2>4. Head(devq) # Rem(d) BY DEF Arr, Rem
  <2>5. RemovalQueued(d)' BY <2>3, <2>4, RemovalsAfterDispatch
  <2> QED BY <2>5 DEF Noticed
<1> QED BY <1>1, <1>2

\* The arrival that is dispatched is the first of its disk, which is the
\* only arrival of it before a removal.
LEMMA FirstOfDisk ==
    ASSUME DiskBusTypeOK, NEW d, devq # <<>>, Head(devq) = Arr(d)
    PROVE  ~RemovalFirst(devq, d)
<1>1. 1 \in 1..Len(devq) /\ devq[1] = Arr(d) /\ Len(devq) \in Nat
  BY TailFacts DEF DiskBusTypeOK
<1> QED BY <1>1 DEF RemovalFirst
=============================================================================
