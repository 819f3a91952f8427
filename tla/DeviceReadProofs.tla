-------------------------- MODULE DeviceReadProofs --------------------------
(***************************************************************************)
(* Theorems of DeviceRead, for every number of readers, every device, every *)
(* sector size and every way the device cuts its transfers.                *)
(***************************************************************************)
EXTENDS DeviceRead, TLAPS

\* The window that read_at rounds a request to: it covers the request, and
\* less than a sector more at either end, and is made of whole sectors.
LEMMA WindowCovers ==
    ASSUME TypeOK, NEW q \in Requests
    PROVE  LET a == align_down(q.offset)
               b == align_up(q.offset + q.len)
           IN  /\ a \in Nat /\ b \in Nat /\ b - a \in Nat
               /\ a <= q.offset /\ q.offset - a < device.sector
               /\ q.offset + q.len <= b /\ b - (q.offset + q.len) < device.sector
<1>1. device.sector \in Nat \ {0} /\ q.offset \in Nat /\ q.len \in Nat
  BY DeviceReadAssumption DEF TypeOK
<1>2. \A n \in Nat : n % device.sector \in 0..device.sector-1 /\ n % device.sector <= n
  BY <1>1
<1>3. PICK i \in 0..device.sector-1 : i <= q.offset /\ align_down(q.offset) = q.offset - i
  BY <1>1, <1>2 DEF align_down
<1>4. q.offset + q.len + device.sector - 1 \in Nat BY <1>1
<1>5. (q.offset + q.len + device.sector - 1) % device.sector \in 0..device.sector-1
  BY <1>2, <1>4
<1>6. align_up(q.offset + q.len) = (q.offset + q.len + device.sector - 1)
          - ((q.offset + q.len + device.sector - 1) % device.sector)
  BY DEF align_up, align_down
<1>7. PICK j \in 0..device.sector-1 :
         align_up(q.offset + q.len) = (q.offset + q.len + device.sector - 1) - j
  BY <1>1, <1>4, <1>5, <1>6
<1> QED BY <1>1, <1>3, <1>7

\* The window a reader works in, what it holds so far, and what came of it.
ReaderHolds(r) ==
    /\ pc[r] = "idle" => got[r] = <<>>
    /\ pc[r] = "read" => /\ start[r] <= req[r].offset
                         /\ req[r].offset + req[r].len <= start[r] + need[r]
    /\ \A i \in 1..Len(got[r]) : got[r][i] = start[r] + i - 1
    /\ pc[r] = "done" => buf[r] = [i \in 1..req[r].len |-> req[r].offset + i - 1]

ReadInv == \A r \in Readers : ReaderHolds(r)

\* The readers start well typed.
LEMMA ReadInit == Init => TypeOK /\ ReadInv
<1> SUFFICES ASSUME Init PROVE TypeOK /\ ReadInv
  OBVIOUS
<1>1. <<>> \in Seq(Nat) /\ Len(<<>>) = 0
  OBVIOUS
<1>2. TypeOK BY <1>1, DeviceReadAssumption DEF Init, TypeOK
<1>3. ASSUME NEW r \in Readers PROVE pc[r] = "idle" /\ got[r] = <<>>
  BY DEF Init
<1>4. ASSUME NEW r \in Readers PROVE pc[r] # "read" /\ pc[r] # "done" /\ 1..Len(got[r]) = {}
  BY <1>1, <1>3
<1>5. ReadInv BY <1>3, <1>4, Zenon DEF ReadInv, ReaderHolds
<1> QED BY <1>2, <1>5

\* What a transfer adds to a buffer are the bytes at the place it was read.
LEMMA Transfer ==
    ASSUME NEW g \in Seq(Nat), NEW a \in Nat, NEW k \in Nat
    PROVE  LET h == g \o [i \in 1..k |-> a + Len(g) + i - 1]
           IN  /\ h \in Seq(Nat) /\ Len(h) = Len(g) + k
               /\ (\A i \in 1..Len(g) : g[i] = a + i - 1)
                    => \A i \in 1..Len(h) : h[i] = a + i - 1
<1> DEFINE t == [i \in 1..k |-> a + Len(g) + i - 1]
           h == g \o t
<1>1. t \in Seq(Nat) /\ Len(t) = k
  <2>1. \A i \in 1..k : a + Len(g) + i - 1 \in Nat
    OBVIOUS
  <2> QED BY <2>1
<1>2. \A i \in 1..k : t[i] = a + Len(g) + i - 1
  OBVIOUS
<1> HIDE DEF t
<1>3. h \in Seq(Nat) /\ Len(h) = Len(g) + k
  <2>1. \A u \in Seq(Nat) : g \o u \in Seq(Nat) /\ Len(g \o u) = Len(g) + Len(u)
    OBVIOUS
  <2> QED BY <1>1, <2>1
<1>4. \A i \in 1..Len(h) : h[i] = IF i <= Len(g) THEN g[i] ELSE t[i - Len(g)]
  BY <1>1, <1>3
<1>5. \A i \in 1..Len(h) : i > Len(g) => h[i] = a + i - 1
  BY <1>1, <1>2, <1>3, <1>4
<1> QED BY <1>3, <1>4, <1>5 DEF t

\* Every step of a reader keeps its types and what its buffers hold.
LEMMA ReadStep == TypeOK /\ ReadInv /\ [Next]_vars => TypeOK' /\ ReadInv'
<1> SUFFICES ASSUME TypeOK, ReadInv, [Next]_vars PROVE TypeOK' /\ ReadInv'
  OBVIOUS
<1>1. CASE UNCHANGED vars
  BY <1>1 DEF vars, TypeOK, ReadInv, ReaderHolds
<1>2. ASSUME NEW r \in Readers, ReadAt(r) PROVE TypeOK' /\ ReadInv'
  <2> DEFINE q == req[r]
  <2>1. q \in Requests /\ q.offset \in Nat /\ q.len \in Nat
    BY DeviceReadAssumption DEF TypeOK
  <2>2. /\ start'[r] \in Nat /\ need'[r] \in Nat
        /\ start'[r] <= q.offset /\ q.offset + q.len <= start'[r] + need'[r]
    <3> DEFINE a == align_down(q.offset)
               b == align_up(q.offset + q.len)
    <3>1. a \in Nat /\ b - a \in Nat /\ b \in Nat /\ a <= q.offset /\ q.offset + q.len <= b
      BY <2>1, WindowCovers
    <3>2. \/ start'[r] = q.offset /\ need'[r] = q.len
          \/ start'[r] = a /\ need'[r] = b - a
      BY <1>2 DEF ReadAt, TypeOK
    <3> HIDE DEF a, b, q
    <3> QED BY <2>1, <3>1, <3>2
  <2>3. /\ \A k \in Readers \ {r} : start'[k] = start[k] /\ need'[k] = need[k] /\ pc'[k] = pc[k]
        /\ start' \in [Readers -> Nat] /\ need' \in [Readers -> Nat]
        /\ pc'[r] = "read" /\ got[r] = <<>>
        /\ pc' \in [Readers -> {"idle", "read", "short", "error", "done"}]
        /\ UNCHANGED <<device, req, got, buf>>
    BY <1>2, <2>2 DEF ReadAt, TypeOK, ReadInv, ReaderHolds
  <2>4. TypeOK'
    <3>1. /\ device \in Devices /\ req \in [Readers -> Requests]
          /\ got \in [Readers -> Seq(Nat)] /\ buf \in [Readers -> Seq(Nat)]
          /\ \A k \in Readers : Len(got[k]) <= need[k]
      BY DEF TypeOK
    <3>2. Len(got[r]) = 0 BY <2>3
    <3>3. Len(got[r]) <= need'[r] BY <2>2, <3>2
    <3>4. \A k \in Readers \ {r} : Len(got[k]) <= need'[k]
      BY <2>3, <3>1, Zenon
    <3>5. \A k \in Readers : Len(got[k]) <= need'[k] BY <3>3, <3>4, Zenon
    <3> QED BY <2>3, <3>1, <3>5, Zenon DEF TypeOK
  <2>5. ASSUME NEW k \in Readers PROVE ReaderHolds(k)'
    <3>1. ReaderHolds(k) BY DEF ReadInv
    <3>2. CASE k = r
      <4>1. 1..Len(got[r]) = {} BY <2>3
      <4>2. pc'[r] # "idle" /\ pc'[r] # "done" BY <2>3
      <4> QED BY <2>2, <2>3, <3>2, <4>1, <4>2, Zenon DEF ReaderHolds
    <3>3. CASE k # r BY <2>3, <3>1, <3>3, Zenon DEF ReaderHolds
    <3> QED BY <3>2, <3>3
  <2>6. ReadInv' BY <2>5 DEF ReadInv
  <2> QED BY <2>4, <2>6
<1>3. ASSUME NEW r \in Readers, SeekRead(r) PROVE TypeOK' /\ ReadInv'
  <2>1. PICK k \in Available(next_offset(r), remaining(r)) :
           got' = [got EXCEPT ![r] = @ \o [i \in 1..k |-> next_offset(r) + i - 1]]
    BY <1>3 DEF SeekRead
  <2>2. /\ got[r] \in Seq(Nat) /\ Len(got[r]) \in Nat
        /\ start[r] \in Nat /\ need[r] \in Nat
    BY DEF TypeOK
  <2>3. k \in Nat /\ Len(got[r]) + k <= need[r]
    BY <2>2 DEF Available, remaining
  <2> DEFINE h == got[r] \o [i \in 1..k |-> start[r] + Len(got[r]) + i - 1]
  <2>4. /\ h \in Seq(Nat) /\ Len(h) = Len(got[r]) + k
        /\ \A i \in 1..Len(h) : h[i] = start[r] + i - 1
    <3>1. \A i \in 1..Len(got[r]) : got[r][i] = start[r] + i - 1
      BY DEF ReadInv, ReaderHolds
    <3> QED BY <2>2, <2>3, <3>1, Transfer, ZenonT(30)
  <2>5. got' = [got EXCEPT ![r] = h] BY <2>1 DEF next_offset
  <2> HIDE DEF h
  <2>6. TypeOK' BY <1>3, <2>3, <2>4, <2>5 DEF SeekRead, TypeOK
  <2>7. /\ got'[r] = h /\ \A k2 \in Readers \ {r} : got'[k2] = got[k2]
        /\ pc[r] = "read" /\ UNCHANGED <<pc, req, start, need, buf>>
    BY <1>3, <2>5 DEF SeekRead, TypeOK
  <2>8. ASSUME NEW k2 \in Readers PROVE ReaderHolds(k2)'
    <3>1. ReaderHolds(k2) BY DEF ReadInv
    <3>2. CASE k2 = r
      <4>1. pc[r] # "idle" BY <2>7
      <4> QED BY <2>4, <2>7, <3>1, <3>2, <4>1, Zenon DEF ReaderHolds
    <3>3. CASE k2 # r BY <2>7, <3>1, <3>3, Zenon DEF ReaderHolds
    <3> QED BY <3>2, <3>3
  <2>9. ReadInv' BY <2>8 DEF ReadInv
  <2> QED BY <2>6, <2>9
<1>4. ASSUME NEW r \in Readers, EndOfDevice(r) \/ ReadRefused(r) \/ ReadFails(r)
      PROVE  TypeOK' /\ ReadInv'
  <2>1. /\ pc' \in [Readers -> {"idle", "read", "short", "error", "done"}]
        /\ pc'[r] \in {"short", "error"} /\ \A k \in Readers \ {r} : pc'[k] = pc[k]
        /\ UNCHANGED <<device, req, start, need, got, buf>>
    BY <1>4 DEF EndOfDevice, ReadRefused, ReadFails, TypeOK
  <2>2. TypeOK' BY <2>1 DEF TypeOK
  <2>3. ASSUME NEW k \in Readers PROVE ReaderHolds(k)'
    <3>1. ReaderHolds(k) BY DEF ReadInv
    <3>2. pc'[k] = pc[k] \/ pc'[k] \notin {"idle", "read", "done"} BY <2>1
    <3> QED BY <2>1, <3>1, <3>2 DEF ReaderHolds
  <2> QED BY <2>2, <2>3 DEF ReadInv
<1>5. ASSUME NEW r \in Readers, CopyOut(r) PROVE TypeOK' /\ ReadInv'
  <2> DEFINE n == req[r].len
             skip == req[r].offset - start[r]
             b == [i \in 1..n |-> got[r][skip + i]]
  <2>1. /\ req[r].offset \in Nat /\ n \in Nat /\ start[r] \in Nat /\ need[r] \in Nat
        /\ Len(got[r]) = need[r] /\ got[r] \in Seq(Nat)
    BY <1>5, DeviceReadAssumption DEF CopyOut, TypeOK
  <2>2. \A i \in 1..n : skip + i \in 1..Len(got[r])
    <3>1. pc[r] = "read" BY <1>5 DEF CopyOut
    <3>2. start[r] <= req[r].offset /\ req[r].offset + n <= start[r] + Len(got[r])
      BY <2>1, <3>1 DEF ReadInv, ReaderHolds
    <3>3. /\ req[r].offset - start[r] \in Nat /\ Len(got[r]) \in Nat
          /\ req[r].offset - start[r] + n <= Len(got[r])
      BY <2>1, <3>2, SMTT(20)
    <3> HIDE DEF n
    <3> QED BY <2>1, <3>3, SMTT(20)
  <2>3. \A i \in 1..n : got[r][skip + i] = start[r] + (skip + i) - 1
    BY <2>2 DEF ReadInv, ReaderHolds
  <2>4. ASSUME NEW i \in 1..n PROVE got[r][skip + i] = req[r].offset + i - 1
    <3>1. got[r][skip + i] = start[r] + (skip + i) - 1 BY <2>3
    <3>2. start[r] + (skip + i) - 1 = req[r].offset + i - 1 BY <2>1
    <3> QED BY <3>1, <3>2
  <2>5. b = [i \in 1..n |-> req[r].offset + i - 1] BY <2>4
  <2>6. b \in Seq(Nat)
    <3>1. \A i \in 1..n : req[r].offset + i - 1 \in Nat BY <2>1
    <3> DEFINE c == [i \in 1..n |-> req[r].offset + i - 1]
    <3>2. c \in [1..n -> Nat] BY <3>1
    <3>3. b \in [1..n -> Nat] BY <2>5, <3>2
    <3> HIDE DEF b, n
    <3> QED BY <2>1, <3>3
  <2>7. buf' = [buf EXCEPT ![r] = b] /\ pc' = [pc EXCEPT ![r] = "done"]
    BY <1>5 DEF CopyOut
  <2> HIDE DEF b, n
  <2>8. TypeOK'
    <3>1. UNCHANGED <<device, req, start, need, got>> BY <1>5 DEF CopyOut
    <3>2. /\ buf' \in [Readers -> Seq(Nat)]
          /\ pc' \in [Readers -> {"idle", "read", "short", "error", "done"}]
      BY <2>6, <2>7 DEF TypeOK
    <3> QED BY <3>1, <3>2 DEF TypeOK
  <2>9. /\ buf'[r] = b /\ pc'[r] = "done"
        /\ \A k \in Readers \ {r} : buf'[k] = buf[k] /\ pc'[k] = pc[k]
        /\ UNCHANGED <<req, start, need, got>>
    BY <1>5, <2>7 DEF CopyOut, TypeOK
  <2>10. ASSUME NEW k \in Readers PROVE ReaderHolds(k)'
    <3>1. ReaderHolds(k) BY DEF ReadInv
    <3>2. CASE k = r
      <4>1. pc'[r] # "idle" /\ pc'[r] # "read" BY <2>9
      <4> QED BY <2>5, <2>9, <3>1, <3>2, <4>1, Zenon DEF ReaderHolds, n
    <3>3. CASE k # r BY <2>9, <3>1, <3>3, Zenon DEF ReaderHolds
    <3> QED BY <3>2, <3>3
  <2>11. ReadInv' BY <2>10 DEF ReadInv
  <2> QED BY <2>8, <2>11
<1> QED BY <1>1, <1>2, <1>3, <1>4, <1>5 DEF Next, Step

\* The readers' state is well typed, and no loop reads past its window.
THEOREM ReadersTyped == Spec => []TypeOK
<1> QED BY ReadInit, ReadStep, PTL DEF Spec

\* Whatever path a read takes, however its transfers are cut and whoever else
\* reads through the handle, a read that succeeds returns what was asked for.
THEOREM ReadsExact == Spec => []ReadReturnsRange
<1>1. ReadInv => ReadReturnsRange BY DEF ReadInv, ReaderHolds, ReadReturnsRange
<1> QED BY <1>1, ReadInit, ReadStep, PTL DEF Spec

-----------------------------------------------------------------------------
(* Whole sectors.                                                          *)

\* What % s = 0 means, without a remainder.
LEMMA MultipleIs ==
    ASSUME NEW s \in Nat \ {0}, NEW a \in Nat
    PROVE  a % s = 0 <=> \E k \in Nat : a = k * s
<1>1. ASSUME a % s = 0 PROVE \E k \in Nat : a = k * s
  <2>1. a \div s \in Nat /\ a - (a \div s) * s = a % s
    OBVIOUS
  <2>2. a = (a \div s) * s
    BY <1>1, <2>1
  <2> QED BY <2>1, <2>2
<1>2. ASSUME NEW k \in Nat, a = k * s PROVE a % s = 0
  BY <1>2
<1> QED BY <1>1, <1>2

\* Whole sectors next to each other are whole sectors.
LEMMA MultipleSum ==
    ASSUME NEW s \in Nat \ {0}, NEW a \in Nat, NEW b \in Nat, a % s = 0, b % s = 0
    PROVE  (a + b) % s = 0
<1>1. PICK j \in Nat, k \in Nat : a = j * s /\ b = k * s
  BY MultipleIs
<1> DEFINE n == j + k
<1>2. n \in Nat /\ a + b \in Nat /\ a + b = n * s
  BY <1>1
<1> HIDE DEF n
<1> QED BY <1>2, MultipleIs

\* So is what is left when whole sectors are taken away, and it is none or at
\* least one.
LEMMA MultipleRest ==
    ASSUME NEW s \in Nat \ {0}, NEW a \in Nat, NEW b \in Nat, a % s = 0, b % s = 0, b < a
    PROVE  (a - b) % s = 0 /\ b + s <= a
<1>1. PICK j \in Nat, k \in Nat : a = j * s /\ b = k * s
  BY MultipleIs
<1>2. a - b = (j - k) * s
  BY <1>1
<1>3. j - k \in Nat \ {0}
  BY <1>1, <1>2
<1> DEFINE n == j - k
<1>4. n \in Nat \ {0} /\ a - b = n * s
  BY <1>2, <1>3
<1> HIDE DEF n
<1>5. (n - 1) * s >= 0 /\ n * s = (n - 1) * s + s
  BY <1>4
<1>6. (n - 1) * s \in Int
  BY <1>4
<1>7. a - b >= s
  BY <1>4, <1>5, <1>6
<1> QED BY <1>4, <1>7, MultipleIs

\* What is made of whole sectors is made of whatever the sectors are made of.
LEMMA MultipleOf ==
    ASSUME NEW s \in Nat \ {0}, NEW u \in Nat \ {0}, NEW a \in Nat, a % s = 0, s % u = 0
    PROVE  a % u = 0
<1>1. PICK j \in Nat, k \in Nat : a = j * s /\ s = k * u
  BY MultipleIs
<1> DEFINE n == j * k
<1>2. n \in Nat /\ a = n * u
  BY <1>1
<1> HIDE DEF n
<1> QED BY <1>2, MultipleIs

\* Rounding to sectors yields whole sectors.
LEMMA AlignedWhole ==
    ASSUME TypeOK, NEW x \in Nat
    PROVE  align_down(x) \in Nat /\ align_down(x) % device.sector = 0
<1> DEFINE s == device.sector
<1>1. s \in Nat \ {0}
  BY DeviceReadAssumption DEF TypeOK
<1> HIDE DEF s
<1>2. x \div s \in Nat /\ x - (x % s) = (x \div s) * s
  BY <1>1
<1>3. (x \div s) * s \in Nat
  BY <1>1, <1>2
<1> QED BY <1>1, <1>2, <1>3, MultipleIs DEF align_down, s

-----------------------------------------------------------------------------
(* The window and the end of the device.                                   *)

\* Where a request ends.
ReqEnd(r) == req[r].offset + req[r].len

\* A reader in the loop works in the sectors around its request and holds
\* whole units of the device; a request that came back short leaves the
\* device, and one that came back with any byte does not.
WindowHolds(r) ==
    /\ pc[r] = "read" => /\ start[r] = align_down(req[r].offset)
                         /\ start[r] + need[r] = align_up(ReqEnd(r))
                         /\ Len(got[r]) % device.unit = 0
                         /\ Len(got[r]) > 0 => start[r] + Len(got[r]) <= device.size
    /\ pc[r] = "short" => ReqEnd(r) > device.size
    /\ pc[r] = "done" /\ req[r].len > 0 => ReqEnd(r) <= device.size

WindowInv == \A r \in Readers : WindowHolds(r)

\* In the loop, the window is made of whole sectors and ends less than a sector
\* past the request, and what is read so far is whole units.
LEMMA WholeWindow ==
    ASSUME TypeOK, WindowInv, NEW r \in Readers, pc[r] = "read"
    PROVE  /\ start[r] \in Nat /\ need[r] \in Nat /\ Len(got[r]) \in Nat
           /\ Len(got[r]) <= need[r] /\ got[r] \in Seq(Nat)
           /\ ReqEnd(r) \in Nat /\ req[r].offset \in Nat /\ req[r].len \in Nat
           /\ start[r] <= req[r].offset
           /\ next_offset(r) \in Nat /\ remaining(r) \in Nat
           /\ next_offset(r) = start[r] + Len(got[r])
           /\ remaining(r) = (start[r] + need[r]) - next_offset(r)
           /\ Len(got[r]) % device.unit = 0
           /\ start[r] % device.sector = 0
           /\ (start[r] + need[r]) % device.sector = 0
           /\ ReqEnd(r) <= start[r] + need[r]
           /\ start[r] + need[r] < ReqEnd(r) + device.sector
<1>1. /\ start[r] \in Nat /\ need[r] \in Nat /\ Len(got[r]) \in Nat
      /\ Len(got[r]) <= need[r] /\ got[r] \in Seq(Nat)
      /\ req[r] \in Requests
      /\ req[r].offset \in Nat /\ req[r].len \in Nat /\ ReqEnd(r) \in Nat
      /\ device.sector \in Nat \ {0}
  BY DeviceReadAssumption DEF TypeOK, ReqEnd
<1>2. /\ start[r] = align_down(req[r].offset)
      /\ start[r] + need[r] = align_up(ReqEnd(r))
      /\ Len(got[r]) % device.unit = 0
  BY DEF WindowInv, WindowHolds
<1>3. /\ start[r] <= req[r].offset
      /\ ReqEnd(r) <= start[r] + need[r]
      /\ start[r] + need[r] < ReqEnd(r) + device.sector
  BY <1>1, <1>2, WindowCovers DEF ReqEnd
<1>4. start[r] % device.sector = 0
  BY <1>1, <1>2, AlignedWhole
<1>5. (start[r] + need[r]) % device.sector = 0
  <2>1. ReqEnd(r) + device.sector - 1 \in Nat
    BY <1>1
  <2> QED BY <1>2, <2>1, AlignedWhole DEF align_up
<1>6. /\ next_offset(r) \in Nat /\ next_offset(r) = start[r] + Len(got[r])
      /\ remaining(r) \in Nat /\ remaining(r) = (start[r] + need[r]) - next_offset(r)
  BY <1>1 DEF remaining, next_offset
<1> QED BY <1>1, <1>2, <1>3, <1>4, <1>5, <1>6

\* If sectors are made of whole units, the device accepts every call of the
\* loop, wherever in the window the transfers were cut.
LEMMA WholeUnits ==
    ASSUME TypeOK, WindowInv, NEW r \in Readers, pc[r] = "read",
           device.sector % device.unit = 0
    PROVE  Accepted(r)
<1> DEFINE s == device.sector
           u == device.unit
           a == start[r]
           e == start[r] + need[r]
           g == Len(got[r])
           at == next_offset(r)
           n == remaining(r)
<1>1. s \in Nat \ {0} /\ u \in Nat \ {0} /\ s % u = 0
  BY DeviceReadAssumption DEF TypeOK
<1>2. /\ a \in Nat /\ e \in Nat /\ g \in Nat /\ at \in Nat /\ n \in Nat
      /\ a % s = 0 /\ e % s = 0 /\ g % u = 0
      /\ at = a + g /\ n = e - at
  BY WholeWindow
<1> SUFFICES at % u = 0 /\ n % u = 0
  BY DEF Accepted
<1> HIDE DEF s, u, a, e, g, at, n
<1>3. a % u = 0 /\ e % u = 0
  BY <1>1, <1>2, MultipleOf
<1>4. at % u = 0
  BY <1>1, <1>2, <1>3, MultipleSum
<1>5. n % u = 0
  <2>1. CASE at < e
    BY <1>1, <1>2, <1>3, <1>4, <2>1, MultipleRest
  <2>2. CASE ~(at < e)
    <3>1. n = 0
      BY <1>2, <2>2
    <3> QED BY <1>1, <3>1
  <2> QED BY <2>1, <2>2
<1> QED BY <1>4, <1>5

\* On either path read_at reads the sectors around the request: the fast one
\* is taken only when they are the request itself.
LEMMA WindowChosen ==
    ASSUME TypeOK, NEW r \in Readers, ReadAt(r)
    PROVE  start'[r] = align_down(req[r].offset)
           /\ start'[r] + need'[r] = align_up(ReqEnd(r))
<1> DEFINE q == req[r]
           a == align_down(q.offset)
           b == align_up(ReqEnd(r))
<1>1. /\ q \in Requests /\ q.offset \in Nat /\ q.len \in Nat /\ ReqEnd(r) \in Nat
      /\ ReqEnd(r) = q.offset + q.len
      /\ device.sector \in Nat \ {0}
  BY DeviceReadAssumption DEF TypeOK, ReqEnd
<1>2. a \in Nat /\ b \in Nat /\ b - a \in Nat
  BY <1>1, WindowCovers
<1>3. CASE fast_path(q)
  <2>1. start'[r] = q.offset /\ need'[r] = q.len
    BY <1>3 DEF ReadAt, TypeOK
  <2>2. CASE device.sector = 1
    <3>1. a = q.offset
      BY <1>1, <2>2 DEF align_down
    <3>2. b = ReqEnd(r)
      BY <1>1, <2>2 DEF align_up, align_down
    <3> QED BY <1>1, <2>1, <3>1, <3>2
  <2>3. CASE a = q.offset /\ b - a = q.len
    <3> HIDE DEF b
    <3>1. q.offset + q.len = b
      BY <1>1, <1>2, <2>3
    <3> QED BY <2>1, <2>3, <3>1 DEF b
  <2> QED BY <1>1, <1>3, <2>2, <2>3 DEF fast_path
<1>4. CASE ~fast_path(q)
  <2>1. start'[r] = a /\ need'[r] = b - a
    BY <1>1, <1>4 DEF ReadAt, TypeOK
  <2> HIDE DEF a, b
  <2>2. a + (b - a) = b
    BY <1>2
  <2> QED BY <2>1, <2>2 DEF a, b
<1> QED BY <1>3, <1>4

\* A read that finds the device at its end was asked for bytes it does not
\* have: the window ends at most at the sector the request ends in.
LEMMA ShortLeaves ==
    ASSUME TypeOK, WindowInv, NEW r \in Readers, EndOfDevice(r)
    PROVE  ReqEnd(r) > device.size
<1> DEFINE s == device.sector
           u == device.unit
           z == device.size
           e == start[r] + need[r]
           at == next_offset(r)
           n == remaining(r)
<1>1. /\ pc[r] = "read" /\ Len(got[r]) < need[r]
      /\ at % u = 0 /\ n % u = 0
      /\ \A k \in 1..n : k % u = 0 => ~(at + k <= z)
  BY DEF EndOfDevice, Accepted, Available
<1>2. s \in Nat \ {0} /\ u \in Nat \ {0} /\ z \in Nat /\ z % s = 0 /\ z % u = 0
  BY DeviceReadAssumption DEF TypeOK
<1>3. /\ at \in Nat /\ n \in Nat /\ e \in Nat /\ e % s = 0
      /\ n = e - at /\ at < e
      /\ ReqEnd(r) \in Nat /\ e < ReqEnd(r) + s
  BY <1>1, WholeWindow
<1> HIDE DEF s, u, z, e, at, n
<1>4. 0 % u = 0 /\ u % u = 0
  BY <1>2
<1>5. u \in 1..n
  <2>1. 0 \in Nat /\ 0 < n
    BY <1>3
  <2>2. 0 + u <= n
    BY <1>1, <1>2, <1>3, <1>4, <2>1, MultipleRest
  <2> QED BY <1>2, <1>3, <2>2
<1>6. ~(at + u <= z)
  BY <1>1, <1>4, <1>5
<1>7. z <= at
  <2> SUFFICES ASSUME at < z PROVE FALSE
    BY <1>2, <1>3
  <2> QED BY <1>1, <1>2, <1>3, <1>6, MultipleRest
<1>8. z < e
  BY <1>2, <1>3, <1>7
<1>9. z + s <= e
  BY <1>2, <1>3, <1>8, MultipleRest
<1>10. ReqEnd(r) > z
  BY <1>2, <1>3, <1>9
<1> QED BY <1>10 DEF z

\* At first no reader is in its loop.
LEMMA WindowInit == Init => WindowInv
BY DEF Init, WindowInv, WindowHolds

\* What a reader's own step does to its window, its buffer and its outcome.
LEMMA WindowMoves ==
    ASSUME TypeOK, ReadInv, WindowInv, NEW r \in Readers, Step(r) \/ ReadFails(r)
    PROVE  WindowHolds(r)'
<1>0. UNCHANGED <<device, req>>
  BY DEF Step, ReadAt, SeekRead, EndOfDevice, ReadRefused, ReadFails, CopyOut
<1>1. ASSUME ReadAt(r) PROVE WindowHolds(r)'
  <2>1. pc'[r] = "read" /\ got'[r] = <<>>
    BY <1>1 DEF ReadAt, TypeOK, ReadInv, ReaderHolds
  <2>2. device.unit \in Nat \ {0} /\ Len(got'[r]) = 0
    BY <2>1, DeviceReadAssumption DEF TypeOK
  <2>3. Len(got'[r]) % device.unit = 0 /\ ~(Len(got'[r]) > 0)
    BY <2>2
  <2>4. start'[r] = align_down(req[r].offset)
        /\ start'[r] + need'[r] = align_up(ReqEnd(r))
    BY <1>1, WindowChosen
  <2> QED BY <1>0, <2>1, <2>3, <2>4 DEF WindowHolds, ReqEnd, align_down, align_up
<1>2. ASSUME SeekRead(r) PROVE WindowHolds(r)'
  <2> DEFINE at == next_offset(r)
             g == got[r]
             u == device.unit
  <2>1. PICK k \in Available(at, remaining(r)) :
           got' = [got EXCEPT ![r] = @ \o [i \in 1..k |-> at + i - 1]]
    BY <1>2 DEF SeekRead
  <2>2. pc[r] = "read" /\ UNCHANGED <<pc, start, need>>
    BY <1>2 DEF SeekRead
  <2>3. /\ g \in Seq(Nat) /\ Len(g) \in Nat /\ start[r] \in Nat /\ at = start[r] + Len(g)
        /\ Len(g) % u = 0 /\ u \in Nat \ {0} /\ remaining(r) \in Nat
    BY <2>2, WholeWindow, DeviceReadAssumption
       DEF WindowInv, WindowHolds, next_offset, TypeOK
  <2>4. k \in Nat /\ k % u = 0 /\ at + k <= device.size
    BY <2>3 DEF Available
  <2> DEFINE h == g \o [i \in 1..k |-> start[r] + Len(g) + i - 1]
  <2>5. h \in Seq(Nat) /\ Len(h) = Len(g) + k
    BY <2>3, <2>4, Transfer
  <2>6. got'[r] = h
    BY <2>1, <2>3 DEF TypeOK, next_offset
  <2> DEFINE n == Len(g)
  <2>7. n \in Nat /\ n % u = 0 /\ Len(got'[r]) = n + k /\ start[r] + (n + k) <= device.size
    BY <2>3, <2>4, <2>5, <2>6
  <2> HIDE DEF n, g, u, h, at
  <2>8. (n + k) % u = 0
    BY <2>3, <2>4, <2>7, MultipleSum
  <2>9. start[r] = align_down(req[r].offset) /\ start[r] + need[r] = align_up(ReqEnd(r))
    BY <2>2 DEF WindowInv, WindowHolds
  <2> QED BY <1>0, <2>2, <2>7, <2>8, <2>9 DEF WindowHolds, ReqEnd, align_down, align_up, u
<1>3. ASSUME EndOfDevice(r) PROVE WindowHolds(r)'
  <2>1. pc'[r] = "short"
    BY <1>3 DEF EndOfDevice, TypeOK
  <2> QED BY <1>0, <1>3, <2>1, ShortLeaves DEF WindowHolds, ReqEnd
<1>4. ASSUME ReadRefused(r) \/ ReadFails(r) PROVE WindowHolds(r)'
  BY <1>4 DEF ReadRefused, ReadFails, TypeOK, WindowHolds
<1>5. ASSUME CopyOut(r) PROVE WindowHolds(r)'
  <2>1. pc[r] = "read" /\ Len(got[r]) >= need[r] /\ pc'[r] = "done"
    BY <1>5 DEF CopyOut, TypeOK
  <2>2. /\ start[r] \in Nat /\ need[r] \in Nat /\ Len(got[r]) \in Nat
        /\ Len(got[r]) <= need[r] /\ start[r] <= req[r].offset
        /\ req[r].offset \in Nat /\ req[r].len \in Nat /\ ReqEnd(r) \in Nat
        /\ ReqEnd(r) <= start[r] + need[r]
    BY <2>1, WholeWindow
  <2>3. Len(got[r]) > 0 => start[r] + Len(got[r]) <= device.size
    BY <2>1 DEF WindowInv, WindowHolds
  <2>4. device.size \in Nat
    BY DeviceReadAssumption DEF TypeOK
  <2>5. req[r].len > 0 => ReqEnd(r) <= device.size
    BY <2>1, <2>2, <2>3, <2>4, SMTT(20) DEF ReqEnd
  <2> QED BY <1>0, <2>1, <2>5 DEF WindowHolds, ReqEnd
<1> QED BY <1>1, <1>2, <1>3, <1>4, <1>5 DEF Step

\* Every step keeps the windows.
LEMMA WindowStep == TypeOK /\ ReadInv /\ WindowInv /\ [Next]_vars => WindowInv'
<1> SUFFICES ASSUME TypeOK, ReadInv, WindowInv, [Next]_vars, NEW k \in Readers
             PROVE  WindowHolds(k)'
  BY DEF WindowInv
<1>1. CASE UNCHANGED vars
  BY <1>1 DEF vars, WindowInv, WindowHolds, ReqEnd, align_down, align_up
<1>2. ASSUME NEW r \in Readers, Step(r) \/ ReadFails(r) PROVE WindowHolds(k)'
  <2>1. CASE k = r
    BY <1>2, <2>1, WindowMoves
  <2>2. CASE k # r
    <3>1. /\ UNCHANGED <<device, req>>
          /\ pc'[k] = pc[k] /\ start'[k] = start[k] /\ need'[k] = need[k]
          /\ got'[k] = got[k]
      BY <1>2, <2>2 DEF Step, ReadAt, SeekRead, EndOfDevice, ReadRefused, ReadFails, CopyOut,
                        TypeOK
    <3> QED BY <3>1 DEF WindowInv, WindowHolds, ReqEnd, align_down, align_up
  <2> QED BY <2>1, <2>2
<1> QED BY <1>1, <1>2 DEF Next

\* The window invariant says how a short read came about.
LEMMA WindowShort == WindowInv => ShortOnlyOutside
BY DEF WindowInv, WindowHolds, ReqEnd, ShortOnlyOutside

\* Only a request that leaves the device fails for want of bytes: rounding it
\* to whole sectors never pushes a good one past the end.
THEOREM ShortReadsLeave == Spec => []ShortOnlyOutside
<1> QED BY WindowShort, ReadInit, ReadStep, WindowInit, WindowStep, PTL DEF Spec
=============================================================================
