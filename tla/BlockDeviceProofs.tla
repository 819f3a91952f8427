-------------------------- MODULE BlockDeviceProofs --------------------------
(***************************************************************************)
(* Theorems of BlockDevice, for every medium, every sector size, every     *)
(* number of readers and writers and every way the device cuts transfers.  *)
(* What DeviceReadProofs shows of the reads holds next to writers too,     *)
(* since nothing the reads rest on is the writers' to change.              *)
(***************************************************************************)
EXTENDS BlockDevice, DeviceReadProofs

BlockInv == TypeOK /\ ReadInv /\ BlockTypeOK /\ WritePlacesBytes

\* A byte that was written is not a blank one.
LEMMA NotBlank == \A w, i : <<w, i>> # Blank
  BY DEF Blank

\* At first nothing is written.
LEMMA BlockInitInv == BlockInit => BlockInv
<1> SUFFICES ASSUME BlockInit PROVE BlockInv
  OBVIOUS
<1>1. TypeOK /\ ReadInv
  BY ReadInit DEF BlockInit
<1>2. BlockTypeOK
  BY BlockDeviceAssumption DEF BlockInit, BlockTypeOK
<1>3. WritePlacesBytes
  BY DEF BlockInit, WritePlacesBytes
<1> QED BY <1>1, <1>2, <1>3 DEF BlockInv

\* What a reader does leaves the writers' state and the medium alone.
LEMMA ReaderStepInv ==
    BlockInv /\ [Next]_vars /\ UNCHANGED <<medium, writable, writing>> => BlockInv'
<1> SUFFICES ASSUME BlockInv, [Next]_vars, UNCHANGED <<medium, writable, writing>>
             PROVE  BlockInv'
  OBVIOUS
<1>1. TypeOK' /\ ReadInv'
  BY ReadStep DEF BlockInv
<1>2. device' = device
  BY DEF Next, Step, ReadAt, SeekRead, EndOfDevice, ReadRefused, ReadFails, CopyOut, vars
<1>3. BlockTypeOK'
  BY <1>2 DEF BlockInv, BlockTypeOK, writing
<1>4. WritePlacesBytes'
  BY DEF BlockInv, WritePlacesBytes, writing
<1> QED BY <1>1, <1>3, <1>4 DEF BlockInv

\* What a writer does leaves the readers' state alone, the handle's pointer
\* excepted, which their invariant does not mention.
LEMMA ReadersUnmoved ==
    TypeOK /\ ReadInv /\ UNCHANGED reading => TypeOK' /\ ReadInv'
BY DEF TypeOK, ReadInv, ReaderHolds, reading

\* A step of a writer that writes nothing.
LEMMA NothingWritten ==
    ASSUME BlockInv, NEW w \in Writers, UNCHANGED <<medium, writable, wreq, total, content>>,
           UNCHANGED reading,
           NEW s \in {"write", "done", "flushed", "denied", "short", "error"},
           wpc' = [wpc EXCEPT ![w] = s], s = "done" => total[w] = wreq[w].len,
           durable' = durable \/ durable' = content
    PROVE  BlockInv'
<1>1. TypeOK' /\ ReadInv'
  BY ReadersUnmoved DEF BlockInv
<1>2. BlockTypeOK'
  BY DEF BlockInv, BlockTypeOK, reading
<1>3. WritePlacesBytes'
  BY DEF BlockInv, BlockTypeOK, WritePlacesBytes
<1> QED BY <1>1, <1>2, <1>3 DEF BlockInv

\* A turn of the write loop puts the next bytes of the request, and only
\* those, where they belong.
LEMMA SeekWriteInv ==
    ASSUME BlockInv, NEW w \in Writers, SeekWrite(w)
    PROVE  BlockInv'
<1> DEFINE at == next_write_offset(w)
<1>1. PICK k \in Room(w) :
        /\ total' = [total EXCEPT ![w] = @ + k]
        /\ content' = [p \in DOMAIN content |->
                         IF p \in at..at + k - 1 THEN <<w, total[w] + p - at>>
                         ELSE content[p]]
  BY DEF SeekWrite
<1>2. /\ UNCHANGED reading /\ UNCHANGED <<medium, writable, wpc, wreq, durable>>
      /\ wpc[w] = "write"
  BY DEF SeekWrite, InLoop
<1>3. /\ \A v \in Writers : /\ total[v] \in Nat /\ total[v] <= wreq[v].len
                            /\ wreq[v].offset \in Nat /\ wreq[v].len \in Nat
      /\ DOMAIN content = 0..device.size - 1 /\ device.size \in Nat
  BY BlockDeviceAssumption, DeviceReadAssumption DEF BlockInv, BlockTypeOK, TypeOK
<1>4. /\ at = wreq[w].offset + total[w] /\ at \in Nat
      /\ k \in Nat \ {0} /\ total[w] + k <= wreq[w].len /\ at + k <= device.size
  BY <1>3 DEF next_write_offset, Room, left
<1>5. /\ total'[w] = total[w] + k
      /\ \A v \in Writers \ {w} : total'[v] = total[v]
      /\ \A v \in Writers : total'[v] \in Nat /\ total[v] <= total'[v]
  BY <1>1, <1>3, <1>4 DEF BlockInv, BlockTypeOK
<1>6. /\ wreq[w].offset \in Nat /\ wreq[w].len \in Nat /\ total[w] \in Nat
      /\ \A p \in at..at + k - 1 : p \in Int /\ at <= p /\ p <= at + k - 1
      /\ \A p \in Nat : at <= p /\ p <= at + k - 1 => p \in at..at + k - 1
  BY <1>3, <1>4
<1> HIDE DEF at
<1>7. TypeOK' /\ ReadInv'
  BY <1>2, ReadersUnmoved DEF BlockInv
<1>8. BlockTypeOK'
  <2>1. total' \in [Writers -> Nat] /\ \A v \in Writers : total'[v] <= wreq[v].len
    BY <1>1, <1>3, <1>4, <1>5 DEF BlockInv, BlockTypeOK
  <2>2. DOMAIN content' = DOMAIN content
    BY <1>1
  <2> QED BY <1>2, <2>1, <2>2 DEF BlockInv, BlockTypeOK, reading
<1>9. WritePlacesBytes'
  <2>1. ASSUME NEW p \in DOMAIN content, content'[p] # Blank
        PROVE  \E v \in Writers : \E i \in 0..total'[v] - 1 :
                  content'[p] = <<v, i>> /\ p = wreq[v].offset + i
    <3>1. p \in Nat
      BY <1>3
    <3>2. CASE p \in at..at + k - 1
      <4>1. content'[p] = <<w, total[w] + p - at>>
        BY <1>1, <3>2
      <4>2. total[w] + p - at \in 0..total'[w] - 1
            /\ p = wreq[w].offset + (total[w] + p - at)
        BY <1>6, <1>4, <1>5, <3>1, <3>2
      <4> QED BY <4>1, <4>2
    <3>3. CASE p \notin at..at + k - 1
      <4>1. content'[p] = content[p]
        BY <1>1, <3>3
      <4>2. PICK v \in Writers : \E i \in 0..total[v] - 1 :
              content[p] = <<v, i>> /\ p = wreq[v].offset + i
        BY <2>1, <4>1 DEF BlockInv, WritePlacesBytes
      <4>3. PICK i \in 0..total[v] - 1 : content[p] = <<v, i>> /\ p = wreq[v].offset + i
        BY <4>2
      <4>4. i \in 0..total'[v] - 1
        BY <1>3, <1>5
      <4> QED BY <4>1, <4>3, <4>4
    <3> QED BY <3>2, <3>3
  <2>2. ASSUME NEW v \in Writers, NEW i \in 0..total'[v] - 1
        PROVE  wreq[v].offset + i \in DOMAIN content /\ content'[wreq[v].offset + i] # Blank
    <3> DEFINE p == wreq[v].offset + i
    <3>1. i \in Nat /\ p \in Nat
      BY <1>3, <1>5
    <3>2. CASE i < total[v]
      <4>1. p \in DOMAIN content /\ content[p] # Blank
        BY <1>3, <3>1, <3>2 DEF BlockInv, WritePlacesBytes
      <4>2. content'[p] = <<w, total[w] + p - at>> \/ content'[p] = content[p]
        BY <1>1, <4>1
      <4> QED BY <4>1, <4>2, NotBlank
    <3>3. CASE total[v] <= i
      <4>1. v = w
        BY <1>3, <1>5, <3>1, <3>3
      <4>2. p \in at..at + k - 1
        BY <1>6, <1>4, <1>5, <3>1, <3>3, <4>1
      <4>3. p \in DOMAIN content
        <5> HIDE DEF p
        <5>1. p <= at + k - 1
          BY <1>6, <4>2
        <5>2. p \in 0..device.size - 1
          BY <1>3, <1>4, <3>1, <5>1
        <5> QED BY <1>3, <5>2
      <4>4. content'[p] = <<w, total[w] + p - at>>
        BY <1>1, <4>2, <4>3
      <4> QED BY <4>3, <4>4, NotBlank
    <3> QED BY <1>3, <3>1, <3>2, <3>3
  <2>3. ASSUME NEW v \in Writers, wpc[v] = "done" PROVE total'[v] = wreq[v].len
    <3>1. v # w
      BY <1>2, <2>3
    <3> QED BY <1>5, <2>3, <3>1 DEF BlockInv, WritePlacesBytes
  <2>4. DOMAIN content' = DOMAIN content
    BY <1>1
  <2> QED BY <1>2, <2>1, <2>2, <2>3, <2>4 DEF WritePlacesBytes
<1> QED BY <1>7, <1>8, <1>9 DEF BlockInv

\* Every step keeps the invariant.
LEMMA BlockStepInv == BlockInv /\ [BlockNext]_blockVars => BlockInv'
<1> SUFFICES ASSUME BlockInv, [BlockNext]_blockVars PROVE BlockInv'
  OBVIOUS
<1>1. CASE Next /\ UNCHANGED <<medium, writable, writing>>
  BY <1>1, ReaderStepInv
<1>2. ASSUME NEW w \in Writers, SeekWrite(w) PROVE BlockInv'
  BY <1>2, SeekWriteInv
<1>3. ASSUME NEW w \in Writers,
             WriteAt(w) \/ WriteZero(w) \/ Refused(w) \/ WriteFails(w) \/ FlushFails(w)
      PROVE  BlockInv'
  <2>1. /\ UNCHANGED <<medium, writable, wreq, total, content, durable>>
        /\ UNCHANGED reading
        /\ \E s \in {"write", "denied", "short", "error"} : wpc' = [wpc EXCEPT ![w] = s]
    BY <1>3 DEF WriteAt, WriteZero, Refused, WriteFails, FlushFails, vars, reading
  <2> QED BY <2>1, NothingWritten
<1>4. ASSUME NEW w \in Writers, WriteDone(w) PROVE BlockInv'
  <2>1. /\ UNCHANGED <<medium, writable, wreq, total, content, durable>>
        /\ UNCHANGED reading /\ wpc' = [wpc EXCEPT ![w] = "done"]
        /\ total[w] >= wreq[w].len
    BY <1>4 DEF WriteDone, vars, reading
  <2>2. total[w] = wreq[w].len
    BY <2>1, BlockDeviceAssumption DEF BlockInv, BlockTypeOK
  <2> QED BY <2>1, <2>2, NothingWritten
<1>5. ASSUME NEW w \in Writers, Flush(w) PROVE BlockInv'
  <2>1. /\ UNCHANGED <<medium, writable, wreq, total, content>>
        /\ UNCHANGED reading /\ wpc' = [wpc EXCEPT ![w] = "flushed"]
        /\ durable' = durable \/ durable' = content
    BY <1>5 DEF Flush, vars, reading
  <2> QED BY <2>1, NothingWritten
<1>6. CASE UNCHANGED blockVars
  BY <1>6, ReaderStepInv DEF blockVars
<1> QED BY <1>1, <1>2, <1>3, <1>4, <1>5, <1>6 DEF BlockNext, WriterStep

\* The writers' state is well typed: no write loop writes more than it was
\* given, and the medium keeps its size.
THEOREM BlockTyped == BlockSpec => []BlockTypeOK
<1>1. BlockInv => BlockTypeOK BY DEF BlockInv
<1> QED BY <1>1, BlockInitInv, BlockStepInv, PTL DEF BlockSpec

\* Reads are exact next to any number of writers, which move the handle's
\* pointer between a reader's transfers.
THEOREM SharedReadsExact == BlockSpec => []ReadReturnsRange
<1>1. BlockInv => ReadReturnsRange
  BY DEF BlockInv, ReadInv, ReaderHolds, ReadReturnsRange
<1> QED BY <1>1, BlockInitInv, BlockStepInv, PTL DEF BlockSpec

\* The readers' state stays well typed next to writers.
THEOREM SharedReadersTyped == BlockSpec => []TypeOK
<1>1. BlockInv => TypeOK BY DEF BlockInv
<1> QED BY <1>1, BlockInitInv, BlockStepInv, PTL DEF BlockSpec

\* A write puts each byte at its place and none elsewhere, and one that
\* succeeds puts them all, whoever writes and reads at the same time.
THEOREM WritesExact == BlockSpec => []WritePlacesBytes
<1>1. BlockInv => WritePlacesBytes BY DEF BlockInv
<1> QED BY <1>1, BlockInitInv, BlockStepInv, PTL DEF BlockSpec

-----------------------------------------------------------------------------
(* Flushing.                                                               *)

\* A writer that was refused has a read-only source, and one that flushed a
\* writable source had written everything.
Durability ==
    \A w \in Writers :
        /\ wpc[w] = "denied" => ~writable
        /\ wpc[w] = "flushed" /\ writable =>
              /\ total[w] = wreq[w].len
              /\ \A p \in Span(w) : durable[p] # Blank

\* Once a write is complete the medium has none of its positions blank.
LEMMA CompleteIsWritten ==
    ASSUME BlockInv, NEW w \in Writers, total[w] = wreq[w].len
    PROVE  \A p \in Span(w) : content[p] # Blank
<1> SUFFICES ASSUME NEW p \in Span(w) PROVE content[p] # Blank
  OBVIOUS
<1>1. wreq[w].offset \in Nat /\ wreq[w].len \in Nat
  BY BlockDeviceAssumption DEF BlockInv, BlockTypeOK
<1> DEFINE i == p - wreq[w].offset
<1>2. i \in 0..total[w] - 1 /\ p = wreq[w].offset + i
  BY <1>1 DEF Span
<1> HIDE DEF i
<1> QED BY <1>2 DEF BlockInv, WritePlacesBytes

\* A flush copies what the medium holds by then, the complete writes of all
\* writers among it.
LEMMA DurabilityStep ==
    BlockInv /\ Durability /\ [BlockNext]_blockVars => Durability'
<1> SUFFICES ASSUME BlockInv, Durability, [BlockNext]_blockVars,
                    NEW w \in Writers
             PROVE  /\ wpc'[w] = "denied" => ~writable'
                    /\ wpc'[w] = "flushed" /\ writable' =>
                          /\ total'[w] = wreq'[w].len
                          /\ \A p \in Span(w)' : durable'[p] # Blank
  BY DEF Durability
<1>1. CASE UNCHANGED <<medium, writable, writing>>
  BY <1>1 DEF Durability, writing, Span
<1>2. ASSUME NEW v \in Writers, SeekWrite(v)
      PROVE  /\ wpc'[w] = "denied" => ~writable'
             /\ wpc'[w] = "flushed" /\ writable' =>
                   /\ total'[w] = wreq'[w].len
                   /\ \A p \in Span(w)' : durable'[p] # Blank
  <2>1. /\ wpc[v] = "write" /\ UNCHANGED <<writable, wpc, wreq, durable>>
        /\ w # v => total'[w] = total[w]
    BY <1>2 DEF SeekWrite, InLoop, BlockInv, BlockTypeOK
  <2> QED BY <2>1 DEF Durability, Span
<1>3. ASSUME NEW v \in Writers,
             \/ WriteAt(v) \/ WriteZero(v) \/ Refused(v) \/ WriteFails(v)
             \/ FlushFails(v) \/ WriteDone(v)
      PROVE  /\ wpc'[w] = "denied" => ~writable'
             /\ wpc'[w] = "flushed" /\ writable' =>
                   /\ total'[w] = wreq'[w].len
                   /\ \A p \in Span(w)' : durable'[p] # Blank
  <2>1. UNCHANGED <<writable, wreq, total, durable>>
    BY <1>3 DEF WriteAt, WriteZero, Refused, WriteFails, FlushFails, WriteDone
  <2>2. \/ wpc'[w] = wpc[w]
        \/ wpc'[w] \in {"write", "short", "error", "done"}
        \/ wpc'[w] = "denied" /\ ~writable
    BY <1>3 DEF WriteAt, WriteZero, Refused, WriteFails, FlushFails, WriteDone,
                BlockInv, BlockTypeOK
  <2> QED BY <2>1, <2>2 DEF Durability, Span
<1>4. ASSUME NEW v \in Writers, Flush(v)
      PROVE  /\ wpc'[w] = "denied" => ~writable'
             /\ wpc'[w] = "flushed" /\ writable' =>
                   /\ total'[w] = wreq'[w].len
                   /\ \A p \in Span(w)' : durable'[p] # Blank
  <2>1. /\ UNCHANGED <<writable, wreq, total, content>> /\ wpc[v] \in {"done", "denied"}
        /\ wpc' = [wpc EXCEPT ![v] = "flushed"]
        /\ durable' = IF writable THEN content ELSE durable
    BY <1>4 DEF Flush
  <2>2. wpc'[v] = "flushed" /\ (w # v => wpc'[w] = wpc[w])
    BY <2>1 DEF BlockInv, BlockTypeOK
  <2>3. ASSUME wpc'[w] = "flushed", writable
        PROVE  total[w] = wreq[w].len
    <3>1. CASE w = v
      <4>1. wpc[w] = "done"
        BY <2>1, <2>3, <3>1 DEF Durability
      <4> QED BY <4>1 DEF BlockInv, WritePlacesBytes
    <3>2. CASE w # v
      BY <2>2, <2>3, <3>2 DEF Durability
    <3> QED BY <3>1, <3>2
  <2>4. ASSUME wpc'[w] = "flushed", writable
        PROVE  \A p \in Span(w)' : durable'[p] # Blank
    <3>1. \A p \in Span(w) : content[p] # Blank
      BY <2>3, <2>4, CompleteIsWritten
    <3> QED BY <2>1, <2>4, <3>1 DEF Span
  <2>5. wpc'[w] = "denied" => ~writable'
    BY <2>1, <2>2 DEF Durability
  <2> QED BY <2>1, <2>3, <2>4, <2>5
<1>5. CASE UNCHANGED blockVars
  BY <1>1, <1>5 DEF blockVars
<1> QED BY <1>1, <1>2, <1>3, <1>4, <1>5 DEF BlockNext, WriterStep

\* A flush that succeeds after a write that succeeded has made it durable,
\* whoever writes over it or flushes afterwards.
THEOREM FlushesHold == BlockSpec => []FlushedIsDurable
<1>1. BlockInit => Durability
  BY DEF BlockInit, Durability
<1>2. Durability => FlushedIsDurable
  BY DEF Durability, FlushedIsDurable
<1> QED BY <1>1, <1>2, BlockInitInv, BlockStepInv, DurabilityStep, PTL DEF BlockSpec

-----------------------------------------------------------------------------
(* What the medium is asked and what a probe concludes.                    *)

\* The sectors that the reads of a served medium are rounded to are made of
\* whole units of it.
LEMMA SectorsServe ==
    ASSUME TypeOK, BlockTypeOK, Served(medium)
    PROVE  device.sector % device.unit = 0
<1>1. /\ device.sector = detect_sector_alignment(medium) /\ device.sector \in Nat \ {0}
      /\ device.unit = medium.unit
  BY DeviceReadAssumption DEF TypeOK, BlockTypeOK, Opened
<1>2. CASE medium.unit = 1
  BY <1>1, <1>2
<1>3. CASE medium.bps # None /\ IsPowerOfTwo(medium.bps) /\ medium.bps % medium.unit = 0
  <2>1. device.sector = medium.bps
    BY <1>1, <1>3, Zenon DEF detect_sector_alignment
  <2> QED BY <1>1, <1>3, <2>1
<1>4. CASE /\ medium.bps # None /\ ~IsPowerOfTwo(medium.bps)
           /\ DefaultSector % medium.unit = 0
  <2>1. device.sector = DefaultSector
    BY <1>1, <1>4, Zenon DEF detect_sector_alignment
  <2> QED BY <1>1, <1>4, <2>1
<1> QED BY <1>2, <1>3, <1>4 DEF Served

\* The readers' windows stand whatever the writers do.
LEMMA WindowKept == BlockInv /\ WindowInv /\ [BlockNext]_blockVars => WindowInv'
<1> SUFFICES ASSUME BlockInv, WindowInv, [BlockNext]_blockVars PROVE WindowInv'
  OBVIOUS
<1>1. CASE [Next]_vars
  BY <1>1, WindowStep DEF BlockInv
<1>2. CASE UNCHANGED reading
  BY <1>2 DEF reading, WindowInv, WindowHolds, ReqEnd, align_down, align_up
<1>3. ASSUME NEW w \in Writers, WriterStep(w) \/ WriteFails(w) \/ FlushFails(w)
      PROVE  UNCHANGED reading
  BY <1>3 DEF WriterStep, WriteAt, SeekWrite, WriteZero, Refused, WriteDone, Flush,
              WriteFails, FlushFails, vars, reading
<1> QED BY <1>1, <1>2, <1>3 DEF BlockNext, blockVars

\* Every reachable state has both invariants.
LEMMA BlockReads == BlockSpec => [](BlockInv /\ WindowInv)
<1>1. BlockInit => WindowInv
  BY WindowInit DEF BlockInit
<1> QED BY <1>1, BlockInitInv, BlockStepInv, WindowKept, PTL DEF BlockSpec

\* Of a medium that read_at can serve, neither an unaligned request nor a
\* geometry answer that is no sector size makes a read fail: it accepts every
\* call of the read loop.
THEOREM ReadsAccepted == BlockSpec => []MediumAcceptsReads
<1>1. BlockInv /\ WindowInv => MediumAcceptsReads
  <2> SUFFICES ASSUME BlockInv, WindowInv, Served(medium), NEW r \in Readers, pc[r] = "read"
               PROVE  Accepted(r)
    BY DEF MediumAcceptsReads
  <2>1. device.sector % device.unit = 0
    BY SectorsServe DEF BlockInv
  <2> QED BY <2>1, WholeUnits DEF BlockInv
<1> QED BY <1>1, BlockReads, PTL

\* A request that leaves the device is the only one that fails for want of
\* bytes, next to writers too.
THEOREM SharedShortReadsLeave == BlockSpec => []ShortOnlyOutside
<1> QED BY WindowShort, BlockReads, PTL

\* The window a probe reads is a whole number of sectors, holds the bytes its
\* backend needs, and so is never empty.
LEMMA ProbeLength ==
    ASSUME NEW n \in Nat \ {0}
    PROVE  /\ probe_len(n) \in Nat \ {0} /\ n <= probe_len(n)
<1> DEFINE s == PROBE_SECTOR
           m == n + s - 1
<1>1. s \in Nat \ {0}
  BY BlockDeviceAssumption
<1>2. m \in Nat /\ m = n + s - 1
  BY <1>1
<1> HIDE DEF s, m
<1>3. m \div s \in Nat /\ m % s \in 0..s - 1 /\ m - (m \div s) * s = m % s
  BY <1>1, <1>2
<1>4. (m \div s) * s \in Nat
  BY <1>1, <1>3
<1>5. n <= (m \div s) * s
  BY <1>1, <1>2, <1>3, <1>4
<1>6. probe_len(n) = IF n <= s THEN s ELSE (m \div s) * s
  BY <1>2 DEF probe_len, s, m
<1> QED BY <1>1, <1>4, <1>5, <1>6

\* A probe that the medium does not fail finds the filesystem that starts at
\* its partition, unless the window leaves the device, and finds no other.
THEOREM ProbesAnswer == BlockSpec => []ProbeAnswers
<1>1. BlockInv /\ WindowInv => ProbeAnswers
  <2> SUFFICES ASSUME BlockInv, WindowInv, NEW r \in Readers, NEW p \in Probes,
                      req[r] = Window(p), pc[r] \in {"done", "short"}
               PROVE  detect_at(r, p) <=> /\ p.offset \in Formatted
                                          /\ p.offset + probe_len(p.wanted) <= device.size
    BY DEF ProbeAnswers
  <2> DEFINE n == probe_len(p.wanted)
             end == p.offset + n
  <2>1. /\ p.offset \in Nat /\ p.wanted \in Nat \ {0}
        /\ n \in Nat \ {0} /\ p.wanted <= n /\ end \in Nat
    BY BlockDeviceAssumption, ProbeLength
  <2>2. req[r].offset = p.offset /\ req[r].len = n /\ ReqEnd(r) = end
    BY DEF Window, ReqEnd
  <2>3. device.size \in Nat
    BY DeviceReadAssumption DEF BlockInv, TypeOK
  <2> HIDE DEF n
  <2>4. CASE pc[r] = "short"
    <3>1. ~(end <= device.size)
      BY <2>1, <2>2, <2>3, <2>4 DEF WindowInv, WindowHolds
    <3> QED BY <2>4, <3>1 DEF detect_at, n
  <2>5. CASE pc[r] = "done"
    <3>1. end <= device.size
      BY <2>1, <2>2, <2>5 DEF WindowInv, WindowHolds
    <3>2. buf[r] = [i \in 1..n |-> p.offset + i - 1]
      BY <2>2, <2>5 DEF BlockInv, ReadInv, ReaderHolds
    <3>3. buf[r] \in Seq(Nat)
      BY DEF BlockInv, TypeOK
    <3>4. Len(buf[r]) = n /\ buf[r][1] = p.offset
      BY <2>1, <3>2, <3>3
    <3>5. detect_at(r, p) <=> p.offset \in Formatted
      BY <2>1, <2>5, <3>4 DEF detect_at, detect
    <3> QED BY <3>1, <3>5 DEF n
  <2> QED BY <2>4, <2>5
<1> QED BY <1>1, BlockReads, PTL
=============================================================================
