------------------------------ MODULE FileTimes ------------------------------
(***************************************************************************)
(* What a program sees of a file through a mount, and what it can change:  *)
(* the conversions of translate.rs and the guard of reader.rs, between a   *)
(* driver's WinFsp callbacks and its filesystem reader (both outside the   *)
(* repository).  A program asks for a file's times and attributes and may  *)
(* later give times back, to that file or to one of another volume, as     *)
(* copying and archiving tools do over and over.                           *)
(*                                                                         *)
(* The units and the widths are constants: seconds are i64, FILETIMEs u64. *)
(***************************************************************************)
EXTENDS Integers

CONSTANTS
    Volumes,    \* mounted volumes; one file of each is looked at
    MtimeOnly,  \* those whose format records the modification time only
    Kind,       \* [Volumes -> Kinds]: what the file is
    Stamps,     \* times a file may have on disk
    Asked,      \* FILETIMEs a program may set of its own accord, and 0
    MinSecs, MaxSecs,           \* i64::MIN, i64::MAX
    MaxTicks,                   \* u64::MAX
    FILETIME_EPOCH_OFFSET_SEC,  \* seconds from 1601 to 1970
    FILETIME_TICKS_PER_SEC,
    NS_PER_TICK,                \* 100
    None        \* an Option that holds nothing

Kinds == {"File", "Dir", "Symlink", "Other"}
NsPerSec == FILETIME_TICKS_PER_SEC * NS_PER_TICK

\* secs is an i64; nsec is less than a second.
Timestamp == [secs : MinSecs..MaxSecs, nsec : 0..NsPerSec - 1]

\* In the code 1601 is an i64 second, the last FILETIME too, and the last
\* second is past the last FILETIME.
ASSUME FileTimesAssumption ==
    /\ MtimeOnly \subseteq Volumes
    /\ Kind \in [Volumes -> Kinds]
    /\ MinSecs \in Int /\ MaxSecs \in Nat /\ MaxTicks \in Nat
    /\ FILETIME_EPOCH_OFFSET_SEC \in Nat
    /\ FILETIME_TICKS_PER_SEC \in Nat \ {0} /\ NS_PER_TICK \in Nat \ {0}
    /\ MinSecs <= 0 - FILETIME_EPOCH_OFFSET_SEC
    /\ MaxTicks \div FILETIME_TICKS_PER_SEC <= MaxSecs
    /\ MaxTicks <= MaxSecs * FILETIME_TICKS_PER_SEC
    /\ Stamps \subseteq Timestamp /\ Asked \subseteq 0..MaxTicks
    /\ None \notin Timestamp

VARIABLES
    rw,       \* the volumes mounted for writing
    node,     \* [Volumes -> the file's FileAttr: mtime, atime, writable bits]
    info,     \* what the program read last: [from, mtime, atime, attributes]
    refused,  \* the attributes it had read when it was last refused a change
    due       \* [Volumes -> the FILETIMEs the file is to show]

vars == <<rw, node, info, refused, due>>

-----------------------------------------------------------------------------
(* Conversions.                                                            *)

SaturatingAt(max, x) == IF x > max THEN max ELSE x

unix_to_filetime_unclamped(t) ==
    LET since == SaturatingAt(MaxSecs, t.secs + FILETIME_EPOCH_OFFSET_SEC)
    IN  SaturatingAt(MaxTicks, since * FILETIME_TICKS_PER_SEC + t.nsec \div NS_PER_TICK)
unix_to_filetime(t) ==
    LET since == SaturatingAt(MaxSecs, t.secs + FILETIME_EPOCH_OFFSET_SEC)
    IN  IF since < 0 THEN 0
        ELSE SaturatingAt(MaxTicks,
               SaturatingAt(MaxTicks, since * FILETIME_TICKS_PER_SEC)
                 + t.nsec \div NS_PER_TICK)

\* None for 0, which asks to leave the time alone.
filetime_to_unix_since_1970(ft) ==
    IF ft <= FILETIME_EPOCH_OFFSET_SEC * FILETIME_TICKS_PER_SEC THEN None
    ELSE [secs |-> ft \div FILETIME_TICKS_PER_SEC - FILETIME_EPOCH_OFFSET_SEC,
          nsec |-> (ft % FILETIME_TICKS_PER_SEC) * NS_PER_TICK]
filetime_to_unix(ft) ==
    IF ft = 0 THEN None
    ELSE [secs |-> ft \div FILETIME_TICKS_PER_SEC - FILETIME_EPOCH_OFFSET_SEC,
          nsec |-> (ft % FILETIME_TICKS_PER_SEC) * NS_PER_TICK]

atime_or_mtime(n) == IF n.atime = None THEN n.mtime ELSE n.atime

Attributes == {"DIRECTORY", "REPARSE_POINT", "ARCHIVE", "READONLY"}

attributes_for_bits_only(kind, bits, volume_read_only) ==
    (CASE kind = "Dir"     -> {"DIRECTORY"}
       [] kind = "Symlink" -> {"REPARSE_POINT"}
       [] OTHER            -> {"ARCHIVE"})
    \cup IF bits THEN {} ELSE {"READONLY"}
attributes_for(kind, bits, volume_read_only) ==
    (CASE kind = "Dir"     -> {"DIRECTORY"}
       [] kind = "Symlink" -> {"REPARSE_POINT"}
       [] OTHER            -> {"ARCHIVE"})
    \cup IF volume_read_only \/ ~bits THEN {"READONLY"} ELSE {}

-----------------------------------------------------------------------------
(* The mounts.                                                             *)

\* FsReader::is_writable: how the volume was mounted, and not whether its
\* reader could write.
is_writable(v) == v \in rw

Shown(n) == [mtime |-> unix_to_filetime(n.mtime),
             atime |-> unix_to_filetime(atime_or_mtime(n))]

\* A time in exact arithmetic, in ticks since 1601, and the FILETIME nearest
\* to it that is not later -- the reference the conversions are held against.
TicksSince1601(t) == (t.secs + FILETIME_EPOCH_OFFSET_SEC) * FILETIME_TICKS_PER_SEC
                       + t.nsec \div NS_PER_TICK
Representable(x) == IF x < 0 THEN 0 ELSE SaturatingAt(MaxTicks, x)
DueOf(n) == [mtime |-> Representable(TicksSince1601(n.mtime)),
             atime |-> Representable(TicksSince1601(atime_or_mtime(n)))]

Node(v) == [mtime : Timestamp,
            atime : IF v \in MtimeOnly THEN {None} ELSE Timestamp,
            bits  : BOOLEAN]

Init ==
    /\ rw \in SUBSET Volumes
    /\ node \in [Volumes -> [mtime : Stamps, atime : Stamps \cup {None},
                             bits : BOOLEAN]]
    /\ \A v \in Volumes : node[v].atime = None <=> v \in MtimeOnly
    /\ info = None /\ refused = None
    /\ due = [v \in Volumes |-> DueOf(node[v])]

\* A query for the file's information.
GetInfo(v) ==
    /\ info' = [from |-> v, mtime |-> Shown(node[v]).mtime, atime |-> Shown(node[v]).atime,
                attributes |-> attributes_for(Kind[v], node[v].bits, ~is_writable(v))]
    /\ UNCHANGED <<rw, node, refused, due>>

\* writable(fs)?: an operation that changes the file is refused on a mount
\* that may not be written to.
Guarded(v, changed, shows) ==
    IF is_writable(v)
    THEN node' = [node EXCEPT ![v] = changed] /\ due' = [due EXCEPT ![v] = shows]
         /\ UNCHANGED refused
    ELSE refused' = (IF info # None /\ info.from = v THEN info.attributes ELSE refused)
         /\ UNCHANGED <<node, due>>

\* set_attr applies the times that are given and leaves the rest alone; a
\* format without access times stores none.
SetTimes(v, m, a) ==
    LET new == [mtime |-> filetime_to_unix(m), atime |-> filetime_to_unix(a)]
        n   == [node[v] EXCEPT
                  !.mtime = IF new.mtime = None THEN @ ELSE new.mtime,
                  !.atime = IF new.atime = None \/ v \in MtimeOnly
                            THEN @ ELSE new.atime]
        dm  == IF m = 0 THEN due[v].mtime ELSE m
    IN  Guarded(v, n, [mtime |-> dm,
                       atime |-> IF v \in MtimeOnly THEN dm
                                 ELSE IF a = 0 THEN due[v].atime ELSE a])

\* A program gives back what it read, to any file, or times of its own.
SetInfo(v) ==
    /\ \E m, a \in Asked \cup (IF info = None THEN {} ELSE {info.mtime, info.atime}) :
          SetTimes(v, m, a)
    /\ UNCHANGED <<rw, info>>

\* The file is written to, which gives it a new modification time.
WriteFile(v) ==
    /\ \E t \in Stamps :
          LET n == [node[v] EXCEPT !.mtime = t]
          IN  Guarded(v, n, DueOf(n))
    /\ UNCHANGED <<rw, info>>

\* Its permissions change.
SetPerms(v) ==
    /\ \E b \in BOOLEAN : Guarded(v, [node[v] EXCEPT !.bits = b], due[v])
    /\ UNCHANGED <<rw, info>>

Next == \E v \in Volumes : GetInfo(v) \/ SetInfo(v) \/ WriteFile(v) \/ SetPerms(v)

Spec == Init /\ [][Next]_vars

-----------------------------------------------------------------------------
(* Properties.                                                             *)

\* Files have times the filesystem can store, and programs are shown
\* FILETIMEs and sets of attributes.
TypeOK ==
    /\ \A v \in Volumes : node[v] \in Node(v)
    /\ DOMAIN node = Volumes
    /\ due \in [Volumes -> [mtime : 0..MaxTicks, atime : 0..MaxTicks]]
    /\ rw \subseteq Volumes
    /\ info # None => info \in [from : Volumes, mtime : 0..MaxTicks, atime : 0..MaxTicks,
                                attributes : SUBSET Attributes]
    /\ refused # None => refused \subseteq Attributes

\* Times are neither lost nor invented, however often they are read and given
\* back: a file shows the time it was given last to the tick, and otherwise
\* its own, rounded down to a tick, 1601 if earlier than that and the end of
\* time if too late, never a wrapped one.
TimesKept == \A v \in Volumes : Shown(node[v]) = due[v]

\* A change is refused only on a file Windows was told is read-only, so that
\* Explorer offers no edit that then fails.
RefusedWasReadOnly == refused # None => "READONLY" \in refused
=============================================================================
