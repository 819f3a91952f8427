--------------------------- MODULE FileTimesProofs ---------------------------
(***************************************************************************)
(* TypeOK and TimesKept of FileTimes for every calendar: any epoch, tick   *)
(* and width that satisfies FileTimesAssumption, the code's among them.    *)
(* The conversions are compared with exact arithmetic on one side and      *)
(* inverted on the other; the invariant then follows step by step.         *)
(***************************************************************************)
EXTENDS FileTimes, TLAPS

-----------------------------------------------------------------------------
(* Arithmetic.                                                             *)

\* Multiplying by a positive number keeps the order.
LEMMA TimesMonotone ==
    ASSUME NEW i \in Int, NEW j \in Int, NEW k \in Nat \ {0}, i <= j
    PROVE  i * k <= j * k
<1>1. (j - i) * k >= 0 OBVIOUS
<1>2. (j - i) * k = j * k - i * k OBVIOUS
<1> QED BY <1>1, <1>2

\* A number is its quotient and its remainder.
LEMMA QuotientRemainder ==
    ASSUME NEW a \in Nat, NEW b \in Nat \ {0}
    PROVE  /\ a \div b \in Nat /\ a % b \in 0..b-1
           /\ a = (a \div b) * b + (a % b)
<1>1. a \div b \in Nat OBVIOUS
<1>2. a % b \in 0..b-1 OBVIOUS
<1>3. a - (a \div b) * b = a % b OBVIOUS
<1>4. (a \div b) * b \in Int BY <1>1
<1> QED BY <1>1, <1>2, <1>3, <1>4

\* Quotient and remainder are the only such numbers.
LEMMA QuotientUnique ==
    ASSUME NEW q \in Nat, NEW b \in Nat \ {0}, NEW r \in 0..b-1
    PROVE  (q * b + r) \div b = q
  OBVIOUS

\* A quotient is below a bound the number is below b times.
LEMMA QuotientBound ==
    ASSUME NEW a \in Nat, NEW b \in Nat \ {0}, NEW c \in Nat \ {0}, a < c * b
    PROVE  a \div b \in 0..c-1
<1> DEFINE q == a \div b
<1>1. q \in Nat /\ q * b <= a BY QuotientRemainder
<1> HIDE DEF q
<1>2. q < c
  <2> SUFFICES ASSUME c <= q PROVE FALSE
    BY <1>1
  <2>1. c * b <= q * b BY <1>1, TimesMonotone
  <2>2. c * b \in Int /\ q * b \in Int BY <1>1
  <2> QED BY <1>1, <2>1, <2>2
<1> QED BY <1>1, <1>2 DEF q

-----------------------------------------------------------------------------
(* The conversions.                                                        *)

\* The ticks within a second are fewer than a second has.
LEMMA TicksWithinSecond ==
    ASSUME NEW t \in Timestamp
    PROVE  /\ t.secs \in Int
           /\ t.nsec \div NS_PER_TICK \in 0..FILETIME_TICKS_PER_SEC - 1
<1>1. t.secs \in Int /\ t.nsec \in 0..NsPerSec - 1
  BY FileTimesAssumption DEF Timestamp
<1>2. t.nsec \in Nat /\ t.nsec < FILETIME_TICKS_PER_SEC * NS_PER_TICK
  BY <1>1, FileTimesAssumption DEF NsPerSec
<1> QED BY <1>1, <1>2, QuotientBound, FileTimesAssumption

\* unix_to_filetime saturates where exact arithmetic leaves the range, and
\* agrees with it everywhere else.
LEMMA ConversionIsExact ==
    ASSUME NEW t \in Timestamp
    PROVE  /\ unix_to_filetime(t) = Representable(TicksSince1601(t))
           /\ unix_to_filetime(t) \in 0..MaxTicks
<1> DEFINE T == FILETIME_TICKS_PER_SEC
           s == t.secs + FILETIME_EPOCH_OFFSET_SEC
           k == t.nsec \div NS_PER_TICK
           since == SaturatingAt(MaxSecs, s)
           p == since * T
           x == s * T + k
<1>1. /\ T \in Nat \ {0} /\ s \in Int /\ k \in 0..T-1
      /\ MaxSecs \in Nat /\ MaxTicks \in Nat /\ MaxTicks <= MaxSecs * T
  BY TicksWithinSecond, FileTimesAssumption
<1>2. TicksSince1601(t) = x
  BY DEF TicksSince1601
<1>3. unix_to_filetime(t) =
        IF since < 0 THEN 0 ELSE SaturatingAt(MaxTicks, SaturatingAt(MaxTicks, p) + k)
  BY DEF unix_to_filetime
<1>4. since \in Int /\ p \in Int /\ s * T \in Int /\ MaxSecs * T \in Int
  BY <1>1 DEF SaturatingAt
<1> HIDE DEF T, s, k
<1>5. CASE s < 0
  <2>1. since = s
    BY <1>1, <1>5 DEF SaturatingAt
  <2>2. s * T <= (0 - 1) * T
    BY <1>1, <1>5, TimesMonotone
  <2>3. x < 0
    BY <1>1, <1>4, <2>2
  <2> QED BY <1>1, <1>2, <1>3, <1>5, <2>1, <2>3 DEF Representable
<1>6. CASE 0 <= s /\ s <= MaxSecs
  <2>1. since = s /\ p = s * T
    BY <1>1, <1>6 DEF SaturatingAt
  <2>2. 0 * T <= s * T
    BY <1>1, <1>6, TimesMonotone
  <2> HIDE DEF since, p
  <2> QED BY <1>1, <1>2, <1>3, <1>4, <1>6, <2>1, <2>2 DEF Representable, SaturatingAt
<1>7. CASE MaxSecs < s
  <2>1. since = MaxSecs /\ p = MaxSecs * T
    BY <1>1, <1>7 DEF SaturatingAt
  <2>2. MaxSecs * T <= s * T
    BY <1>1, <1>7, TimesMonotone
  <2> HIDE DEF since, p
  <2> QED BY <1>1, <1>2, <1>3, <1>4, <1>7, <2>1, <2>2 DEF Representable, SaturatingAt
<1> QED BY <1>1, <1>5, <1>6, <1>7

\* filetime_to_unix yields a time a file may have, and converting that back
\* gives the same FILETIME: nothing is lost on the way, to the tick.
LEMMA RoundTrip ==
    ASSUME NEW ft \in 1..MaxTicks
    PROVE  /\ filetime_to_unix(ft) \in Timestamp
           /\ filetime_to_unix(ft) # None
           /\ unix_to_filetime(filetime_to_unix(ft)) = ft
<1> DEFINE T == FILETIME_TICKS_PER_SEC
           E == FILETIME_EPOCH_OFFSET_SEC
           q == ft \div T
           r == ft % T
           t == filetime_to_unix(ft)
<1>1. /\ T \in Nat \ {0} /\ NS_PER_TICK \in Nat \ {0} /\ E \in Nat
      /\ MinSecs \in Int /\ MinSecs <= 0 - E
      /\ MaxSecs \in Nat /\ MaxTicks \in Nat /\ MaxTicks <= MaxSecs * T
  BY FileTimesAssumption
<1>2. ft \in Nat /\ 0 < ft /\ ft <= MaxTicks
  BY <1>1
<1>3. t = [secs |-> q - E, nsec |-> r * NS_PER_TICK]
  BY <1>2 DEF filetime_to_unix
<1> HIDE DEF T, E, t
<1>4. q \in Nat /\ r \in 0..T-1 /\ ft = q * T + r
  BY <1>1, <1>2, QuotientRemainder
<1>5. q <= MaxSecs
  <2>1. (MaxSecs + 1) * T = MaxSecs * T + T /\ MaxSecs * T \in Int
    BY <1>1
  <2>2. ft < (MaxSecs + 1) * T
    BY <1>1, <1>2, <2>1
  <2>3. MaxSecs + 1 \in Nat \ {0}
    BY <1>1
  <2>4. q \in 0..(MaxSecs + 1) - 1
    BY <1>1, <1>2, <2>2, <2>3, QuotientBound
  <2> QED BY <1>1, <2>4
<1> HIDE DEF q, r
<1>6. r * NS_PER_TICK \in 0..T * NS_PER_TICK - 1
  <2>1. 0 * NS_PER_TICK <= r * NS_PER_TICK /\ r * NS_PER_TICK <= (T - 1) * NS_PER_TICK
    BY <1>1, <1>4, TimesMonotone
  <2>2. (T - 1) * NS_PER_TICK = T * NS_PER_TICK - NS_PER_TICK
    BY <1>1
  <2>3. r * NS_PER_TICK \in Int /\ T * NS_PER_TICK \in Int
    BY <1>1, <1>4
  <2> QED BY <1>1, <2>1, <2>2, <2>3
<1>7. t \in Timestamp
  <2>1. q - E \in MinSecs..MaxSecs
    BY <1>1, <1>4, <1>5
  <2> QED BY <1>3, <1>6, <2>1 DEF Timestamp, NsPerSec, T
<1>8. t # None
  BY <1>7, FileTimesAssumption
<1>9. TicksSince1601(t) = ft
  <2>1. (r * NS_PER_TICK) \div NS_PER_TICK = r
    <3>1. (r * NS_PER_TICK + 0) \div NS_PER_TICK = r
      BY <1>1, <1>4, QuotientUnique
    <3> QED BY <1>1, <1>4, <3>1
  <2>2. (t.secs + E) * T = q * T
    BY <1>1, <1>3, <1>4
  <2>3. TicksSince1601(t) = (t.secs + E) * T + (t.nsec \div NS_PER_TICK)
    BY DEF TicksSince1601, T, E
  <2> QED BY <1>3, <1>4, <2>1, <2>2, <2>3
<1>10. unix_to_filetime(t) = ft
  BY <1>1, <1>2, <1>7, <1>9, ConversionIsExact DEF Representable, SaturatingAt
<1> QED BY <1>7, <1>8, <1>10 DEF t

-----------------------------------------------------------------------------
(* The invariant.                                                          *)

Inv == TypeOK /\ TimesKept

\* What a file shows is what it is due to show, and a program can read it.
LEMMA ShownIsDue ==
    ASSUME NEW v \in Volumes, NEW n \in Node(v)
    PROVE  /\ Shown(n) = DueOf(n)
           /\ Shown(n) \in [mtime : 0..MaxTicks, atime : 0..MaxTicks]
<1>1. n.mtime \in Timestamp /\ (n.atime = None \/ n.atime \in Timestamp)
  BY DEF Node
<1>2. atime_or_mtime(n) \in Timestamp
  BY <1>1 DEF atime_or_mtime
<1> QED BY <1>1, <1>2, ConversionIsExact DEF Shown, DueOf

\* What it is for the files to show their times after a step.
LEMMA ShownNext == (\A v \in Volumes : Shown(node'[v]) = due'[v]) => TimesKept'
  BY Zenon DEF TimesKept, Shown, atime_or_mtime, unix_to_filetime, SaturatingAt

\* A step that leaves the files alone leaves what they show alone.
LEMMA UnchangedTimes == TimesKept /\ UNCHANGED <<node, due>> => TimesKept'
<1> SUFFICES ASSUME TimesKept, UNCHANGED <<node, due>>
             PROVE  \A v \in Volumes : Shown(node'[v]) = due'[v]
  BY ShownNext
<1> QED BY DEF TimesKept

\* A change whose outcome shows what it says keeps the invariant, allowed or
\* refused.
LEMMA GuardedKeeps ==
    ASSUME Inv, NEW v \in Volumes, NEW n \in Node(v),
           Guarded(v, n, Shown(n)), UNCHANGED <<rw, info>>
    PROVE  Inv'
<1>1. Shown(n) \in [mtime : 0..MaxTicks, atime : 0..MaxTicks]
  BY ShownIsDue
<1>2. CASE is_writable(v)
  <2>1. /\ node' = [node EXCEPT ![v] = n] /\ due' = [due EXCEPT ![v] = Shown(n)]
        /\ UNCHANGED refused
    BY <1>2 DEF Guarded
  <2>2. TypeOK'
    BY <1>1, <2>1 DEF Inv, TypeOK, Node
  <2>3. TimesKept'
    <3> SUFFICES ASSUME NEW w \in Volumes PROVE Shown(node'[w]) = due'[w]
      BY ShownNext
    <3>1. CASE w = v BY <2>1, <3>1 DEF Inv, TypeOK
    <3>2. CASE w # v
      <4>1. node'[w] = node[w] /\ due'[w] = due[w] BY <2>1, <3>2 DEF Inv, TypeOK
      <4> QED BY <4>1 DEF Inv, TimesKept
    <3> QED BY <3>1, <3>2, Zenon
  <2> QED BY <2>2, <2>3 DEF Inv
<1>3. CASE ~is_writable(v)
  <2>1. /\ UNCHANGED <<node, due>>
        /\ refused' = (IF info # None /\ info.from = v THEN info.attributes ELSE refused)
    BY <1>3 DEF Guarded
  <2>2. TypeOK'
    BY <2>1 DEF Inv, TypeOK, Node
  <2>3. TimesKept'
    BY <2>1, UnchangedTimes DEF Inv
  <2> QED BY <2>2, <2>3 DEF Inv
<1> QED BY <1>2, <1>3

\* The initial files have times of their own and show them.
LEMMA InvInit == Init => Inv
<1> SUFFICES ASSUME Init PROVE Inv
  OBVIOUS
<1>1. \A v \in Volumes : node[v] \in Node(v)
  <2> SUFFICES ASSUME NEW v \in Volumes PROVE node[v] \in Node(v)
    OBVIOUS
  <2>1. /\ node[v] \in [mtime : Stamps, atime : Stamps \cup {None}, bits : BOOLEAN]
        /\ node[v].atime = None <=> v \in MtimeOnly
    BY DEF Init
  <2> QED BY <2>1, FileTimesAssumption DEF Node
<1>2. TypeOK
  BY <1>1, ShownIsDue DEF Init, TypeOK
<1>3. TimesKept
  BY <1>1, ShownIsDue DEF Init, TimesKept
<1> QED BY <1>2, <1>3 DEF Inv

\* A query changes no file, and tells what it finds.
LEMMA GetInfoKeeps ==
    ASSUME Inv, NEW v \in Volumes, GetInfo(v)
    PROVE  Inv'
<1>1. Shown(node[v]) \in [mtime : 0..MaxTicks, atime : 0..MaxTicks]
  BY ShownIsDue DEF Inv, TypeOK
<1>2. attributes_for(Kind[v], node[v].bits, ~is_writable(v)) \in SUBSET Attributes
  BY DEF attributes_for, Attributes
<1>3. info' \in [from : Volumes, mtime : 0..MaxTicks, atime : 0..MaxTicks,
                 attributes : SUBSET Attributes]
  BY <1>1, <1>2 DEF GetInfo
<1>4. UNCHANGED <<rw, node, refused, due>>
  BY DEF GetInfo
<1>5. TypeOK'
  BY <1>3, <1>4 DEF Inv, TypeOK, Node
<1>6. TimesKept'
  BY <1>4, UnchangedTimes DEF Inv
<1> QED BY <1>5, <1>6 DEF Inv

\* A FILETIME of 0 gives no time, any other the one it converts to.
LEMMA GivenTime ==
    ASSUME NEW ft \in 0..MaxTicks
    PROVE  IF ft = 0 THEN filetime_to_unix(ft) = None
           ELSE /\ filetime_to_unix(ft) \in Timestamp /\ filetime_to_unix(ft) # None
                /\ unix_to_filetime(filetime_to_unix(ft)) = ft
<1>1. CASE ft = 0
  BY <1>1 DEF filetime_to_unix
<1>2. CASE ft # 0
  <2>1. ft \in 1..MaxTicks
    BY <1>2, FileTimesAssumption
  <2> QED BY <1>2, <2>1, RoundTrip
<1> QED BY <1>1, <1>2

\* Setting times: a time that is given is shown as it was given, the other
\* stays.
LEMMA SetTimesKeeps ==
    ASSUME Inv, NEW v \in Volumes, NEW m \in 0..MaxTicks, NEW a \in 0..MaxTicks,
           SetTimes(v, m, a), UNCHANGED <<rw, info>>
    PROVE  Inv'
<1> DEFINE newm == filetime_to_unix(m)
           newa == filetime_to_unix(a)
           n == [node[v] EXCEPT
                   !.mtime = IF newm = None THEN @ ELSE newm,
                   !.atime = IF newa = None \/ v \in MtimeOnly THEN @ ELSE newa]
           dm == IF m = 0 THEN due[v].mtime ELSE m
           da == IF v \in MtimeOnly THEN dm
                 ELSE IF a = 0 THEN due[v].atime ELSE a
<1>1. Guarded(v, n, [mtime |-> dm, atime |-> da])
  BY DEF SetTimes
<1>2. /\ IF m = 0 THEN newm = None
         ELSE newm \in Timestamp /\ newm # None /\ unix_to_filetime(newm) = m
      /\ IF a = 0 THEN newa = None
         ELSE newa \in Timestamp /\ newa # None /\ unix_to_filetime(newa) = a
  BY GivenTime
<1> HIDE DEF newm, newa
<1>3. /\ node[v] \in Node(v) /\ Shown(node[v]) = due[v]
      /\ due[v] \in [mtime : 0..MaxTicks, atime : 0..MaxTicks]
  BY DEF Inv, TypeOK, TimesKept
<1>4. n \in Node(v)
  BY <1>2, <1>3 DEF Node
<1>5. n.mtime = (IF m = 0 THEN node[v].mtime ELSE newm)
  BY <1>2, <1>3 DEF Node
<1>6. n.atime = (IF a = 0 \/ v \in MtimeOnly THEN node[v].atime ELSE newa)
  BY <1>2, <1>3 DEF Node
<1> HIDE DEF n
<1>7. unix_to_filetime(n.mtime) = dm
  BY <1>2, <1>3, <1>5 DEF Shown
<1>8. unix_to_filetime(atime_or_mtime(n)) = da
  <2>1. CASE v \in MtimeOnly
    <3>1. n.atime = None
      BY <1>4, <2>1 DEF Node
    <3>2. atime_or_mtime(n) = n.mtime
      BY <3>1 DEF atime_or_mtime
    <3>3. da = dm
      BY <2>1
    <3> QED BY <1>7, <3>2, <3>3
  <2>2. CASE v \notin MtimeOnly /\ a = 0
    <3>1. n.atime = node[v].atime /\ node[v].atime \in Timestamp
      BY <1>3, <1>6, <2>2 DEF Node
    <3>2. atime_or_mtime(n) = atime_or_mtime(node[v])
      BY <3>1, FileTimesAssumption DEF atime_or_mtime
    <3> QED BY <1>3, <2>2, <3>2 DEF Shown
  <2>3. CASE v \notin MtimeOnly /\ a # 0
    BY <1>2, <1>6, <2>3 DEF atime_or_mtime
  <2> QED BY <2>1, <2>2, <2>3
<1>9. Shown(n) = [mtime |-> dm, atime |-> da]
  BY <1>7, <1>8 DEF Shown
<1> QED BY <1>1, <1>4, <1>9, GuardedKeeps

\* Every step keeps the invariant.
LEMMA InvStep == Inv /\ [Next]_vars => Inv'
<1> SUFFICES ASSUME Inv, [Next]_vars PROVE Inv'
  OBVIOUS
<1>1. ASSUME NEW v \in Volumes, GetInfo(v) PROVE Inv'
  BY <1>1, GetInfoKeeps
<1>2. ASSUME NEW v \in Volumes, SetInfo(v) PROVE Inv'
  <2>1. PICK m, a \in Asked \cup (IF info = None THEN {} ELSE {info.mtime, info.atime}) :
          SetTimes(v, m, a)
    BY <1>2 DEF SetInfo
  <2>2. m \in 0..MaxTicks /\ a \in 0..MaxTicks
    BY FileTimesAssumption DEF Inv, TypeOK
  <2>3. UNCHANGED <<rw, info>>
    BY <1>2 DEF SetInfo
  <2> QED BY <2>1, <2>2, <2>3, SetTimesKeeps
<1>3. ASSUME NEW v \in Volumes, WriteFile(v) PROVE Inv'
  <2>1. PICK t \in Stamps : LET n == [node[v] EXCEPT !.mtime = t]
                            IN  Guarded(v, n, DueOf(n))
    BY <1>3 DEF WriteFile
  <2> DEFINE n == [node[v] EXCEPT !.mtime = t]
  <2>2. n \in Node(v)
    BY FileTimesAssumption DEF Inv, TypeOK, Node
  <2>3. Guarded(v, n, Shown(n))
    BY <2>1, <2>2, ShownIsDue
  <2>4. UNCHANGED <<rw, info>>
    BY <1>3 DEF WriteFile
  <2> QED BY <2>2, <2>3, <2>4, GuardedKeeps
<1>4. ASSUME NEW v \in Volumes, SetPerms(v) PROVE Inv'
  <2>1. PICK b \in BOOLEAN : Guarded(v, [node[v] EXCEPT !.bits = b], due[v])
    BY <1>4 DEF SetPerms
  <2> DEFINE n == [node[v] EXCEPT !.bits = b]
  <2>2. n \in Node(v) /\ n.mtime = node[v].mtime /\ n.atime = node[v].atime
    BY DEF Inv, TypeOK, Node
  <2>3. Shown(n) = due[v]
    BY <2>2 DEF Inv, TimesKept, Shown, atime_or_mtime
  <2>4. Guarded(v, n, Shown(n))
    BY <2>1, <2>3
  <2>5. UNCHANGED <<rw, info>>
    BY <1>4 DEF SetPerms
  <2> QED BY <2>2, <2>4, <2>5, GuardedKeeps
<1>5. CASE UNCHANGED vars
  <2>1. TypeOK'
    BY <1>5 DEF Inv, TypeOK, Node, vars
  <2>2. TimesKept'
    BY <1>5, UnchangedTimes DEF Inv, vars
  <2> QED BY <2>1, <2>2 DEF Inv
<1> QED BY <1>1, <1>2, <1>3, <1>4, <1>5 DEF Next

\* Files keep times the filesystem can store and programs are shown FILETIMEs
\* that fit, through any sequence of queries and changes.
THEOREM TypeCorrect == Spec => []TypeOK
<1>1. Inv => TypeOK
  BY DEF Inv
<1> QED BY InvInit, InvStep, <1>1, PTL DEF Spec

\* translate.rs's conversions lose and invent no time: a file shows the
\* FILETIME it was given last, or its own time rounded down and saturated,
\* however often times are read and given back across volumes.
THEOREM TimesNeverLost == Spec => []TimesKept
<1>1. Inv => TimesKept
  BY DEF Inv
<1> QED BY InvInit, InvStep, <1>1, PTL DEF Spec

-----------------------------------------------------------------------------
(* Refusals.                                                               *)

\* What a program was last told of a file on a mount that refuses changes
\* says so: the mount does not turn writable afterwards.
ToldReadOnly ==
    info # None /\ info.from \notin rw => "READONLY" \in info.attributes

\* Init has told and refused nothing; each step tells the truth and refuses
\* only on a mount that is not writable.
LEMMA RefusalStep ==
    ToldReadOnly /\ RefusedWasReadOnly /\ [Next]_vars
      => ToldReadOnly' /\ RefusedWasReadOnly'
<1> SUFFICES ASSUME ToldReadOnly, RefusedWasReadOnly, [Next]_vars
             PROVE  ToldReadOnly' /\ RefusedWasReadOnly'
  OBVIOUS
<1>1. ASSUME NEW v \in Volumes, GetInfo(v) PROVE ToldReadOnly' /\ RefusedWasReadOnly'
  <2>1. info'.from = v
        /\ info'.attributes = attributes_for(Kind[v], node[v].bits, v \notin rw)
    BY <1>1 DEF GetInfo, is_writable
  <2>2. v \notin rw => "READONLY" \in info'.attributes
    BY <2>1 DEF attributes_for
  <2>3. rw' = rw /\ refused' = refused
    BY <1>1 DEF GetInfo
  <2> QED BY <2>1, <2>2, <2>3 DEF ToldReadOnly, RefusedWasReadOnly
<1>2. ASSUME NEW v \in Volumes, NEW n, NEW s, Guarded(v, n, s), UNCHANGED <<rw, info>>
      PROVE  ToldReadOnly' /\ RefusedWasReadOnly'
  <2>1. ToldReadOnly'
    BY <1>2 DEF ToldReadOnly
  <2>2. CASE v \in rw
    <3>1. refused' = refused
      BY <1>2, <2>2 DEF Guarded, is_writable
    <3> QED BY <2>1, <3>1 DEF RefusedWasReadOnly
  <2>3. CASE v \notin rw
    <3>1. refused' = (IF info # None /\ info.from = v THEN info.attributes ELSE refused)
      BY <1>2, <2>3 DEF Guarded, is_writable
    <3> QED BY <2>1, <2>3, <3>1 DEF RefusedWasReadOnly, ToldReadOnly
  <2> QED BY <2>2, <2>3
<1>3. ASSUME NEW v \in Volumes, SetInfo(v) PROVE ToldReadOnly' /\ RefusedWasReadOnly'
  BY <1>2, <1>3 DEF SetInfo, SetTimes
<1>4. ASSUME NEW v \in Volumes, WriteFile(v) PROVE ToldReadOnly' /\ RefusedWasReadOnly'
  BY <1>2, <1>4 DEF WriteFile
<1>5. ASSUME NEW v \in Volumes, SetPerms(v) PROVE ToldReadOnly' /\ RefusedWasReadOnly'
  BY <1>2, <1>5 DEF SetPerms
<1>6. CASE UNCHANGED vars
  BY <1>6 DEF vars, ToldReadOnly, RefusedWasReadOnly
<1> QED BY <1>1, <1>3, <1>4, <1>5, <1>6 DEF Next

\* The READONLY attribute and the guard of reader.rs agree: a change is
\* refused only on a file whose attributes, as last read, said read-only.
THEOREM RefusalsAnnounced == Spec => []RefusedWasReadOnly
<1>1. Init => ToldReadOnly /\ RefusedWasReadOnly
  BY DEF Init, ToldReadOnly, RefusedWasReadOnly
<1> QED BY <1>1, RefusalStep, PTL DEF Spec
=============================================================================
