--------------------------- MODULE PartitionTable ---------------------------
(***************************************************************************)
(* partition.rs: list_from_source.  It classifies sector 0, parses a GPT   *)
(* or the four MBR slots, and follows the chain of EBRs inside every       *)
(* extended partition, one sector per step.  The disk may hold anything:   *)
(* its sectors are chosen by the initial state and never change.           *)
(***************************************************************************)
EXTENDS Integers, Sequences, FiniteSets, SequencesExt

CONSTANTS
    Images,         \* the disks considered: functions from LBA to Sector
    Gpts,           \* the GPT headers and entries considered
    MaxLogicals,    \* MAX_LOGICALS
    Width           \* 2^64: u64 arithmetic wraps in a release build

Kinds == {"none", "data", "extended", "protective"}
Slots == [kind : Kinds, start_lba : Nat, num_sectors : Nat]
Entries == [zero : BOOLEAN, first : 0..Width - 1, last : 0..Width - 1]

\* Any sector may hold any bytes; a kind is a class of MBR type bytes.
ASSUME PartitionTableAssumption ==
    /\ MaxLogicals \in Nat \ {0} /\ Width \in Nat \ {0}
    /\ \A i \in Images : /\ DOMAIN i \subseteq Nat
                         /\ \A l \in DOMAIN i : i[l] \in [signature : BOOLEAN, slots : Seq(Slots)]
    /\ Gpts \subseteq [plausible : BOOLEAN, entries : Seq(Entries)]

VARIABLES
    image,      \* the disk: LBA -> [signature, slots]; other LBAs do not read
    gpt,        \* what LBA 1 and the entry array hold
    result,     \* "pending", "unpartitioned", "error" or "listed"
    out,        \* the partitions listed so far
    extended,   \* extended partitions whose chain is still to be walked
    visited,    \* EBRs read in the chain at work
    ebr_lba     \* the EBR to read next, or -1 between chains

vars == <<image, gpt, result, out, extended, visited, ebr_lba>>

-----------------------------------------------------------------------------

\* What a loop over s that skips the elements outside keep collects, in order
\* (SelectSeq, in a form that can be proved about).
Picked(s, keep) ==
    LET picked[i \in 0..Len(s)] ==
            IF i = 0 THEN <<>>
            ELSE IF s[i] \in keep THEN Append(picked[i - 1], s[i])
            ELSE picked[i - 1]
    IN  picked[Len(s)]

\* The slots of a sector that describe something.
parse_mbr(sector) ==
    Picked(sector.slots, {s \in Slots : s.kind # "none" /\ s.num_sectors # 0})

is_extended(p) == p.kind = "extended"
Extended == {s \in Slots : is_extended(s)}

has_gpt_protective(sector) == \E i \in DOMAIN sector.slots : sector.slots[i].kind = "protective"

Readable(lba) == lba \in DOMAIN image /\ image[lba].signature

\* The two slots of an EBR that count.
EbrSlots(lba) ==
    LET slots == parse_mbr(image[lba])
    IN  SubSeq(slots, 1, IF Len(slots) < 2 THEN Len(slots) ELSE 2)

\* Logical partitions of an EBR: relative to the EBR itself.
Logicals_relative_to_extended(lba, ext) ==
    LET own == Picked(EbrSlots(lba), {s \in Slots \ Extended : s.start_lba # 0})
    IN  [i \in DOMAIN own |-> [own[i] EXCEPT !.start_lba = ext.start_lba + @]]
Logicals(lba, ext) ==
    LET own == Picked(EbrSlots(lba), {s \in Slots \ Extended : s.start_lba # 0})
    IN  [i \in DOMAIN own |-> [own[i] EXCEPT !.start_lba = lba + @]]

\* The next EBR: relative to the extended partition, and inside it.  A set
\* of at most one LBA; empty at the end of the chain.
NextEbr_unbounded(lba, ext) ==
    LET links == Picked(EbrSlots(lba), Extended)
    IN  {ext.start_lba + links[i].start_lba : i \in DOMAIN links \cap {1}}
NextEbr(lba, ext) ==
    LET links == Picked(EbrSlots(lba), Extended)
    IN  {n \in {ext.start_lba + links[i].start_lba : i \in DOMAIN links \cap {1}} :
            n > ext.start_lba /\ n < ext.start_lba + ext.num_sectors}

\* The entries of a GPT that describe something.
GptEntries_from_end(g) ==
    LET used == Picked(g.entries, {e \in Entries : ~e.zero /\ e.last + 1 >= e.first})
    IN  [i \in DOMAIN used |->
            [kind |-> "data", start_lba |-> used[i].first,
             num_sectors |-> (used[i].last - used[i].first + 1) % Width]]
GptEntries(g) ==
    LET used == Picked(g.entries, {e \in Entries : ~e.zero /\ e.last >= e.first})
    IN  [i \in DOMAIN used |->
            [kind |-> "data", start_lba |-> used[i].first,
             num_sectors |-> (used[i].last - used[i].first + 1) % Width]]

-----------------------------------------------------------------------------

Init ==
    /\ image \in Images /\ gpt \in Gpts
    /\ result = "pending" /\ out = <<>>
    /\ extended = <<>> /\ visited = <<>> /\ ebr_lba = -1

\* Sector 0 decides which table this is.
ReadSectorZero ==
    /\ result = "pending" /\ ebr_lba = -1
    /\ \/ /\ 0 \notin DOMAIN image
          /\ result' = "error" /\ UNCHANGED <<out, extended, ebr_lba>>
       \/ /\ 0 \in DOMAIN image /\ ~image[0].signature
          /\ result' = "unpartitioned" /\ UNCHANGED <<out, extended, ebr_lba>>
       \/ /\ Readable(0) /\ has_gpt_protective(image[0])
          /\ IF gpt.plausible
             THEN result' = "listed" /\ out' = GptEntries(gpt)
             ELSE result' = "error" /\ UNCHANGED out
          /\ UNCHANGED <<extended, ebr_lba>>
       \/ /\ Readable(0) /\ ~has_gpt_protective(image[0])
          /\ out' = Picked(parse_mbr(image[0]), Slots \ Extended)
          /\ extended' = Picked(parse_mbr(image[0]), Extended)
          /\ IF extended' = <<>>
             THEN result' = "listed" /\ UNCHANGED ebr_lba
             ELSE UNCHANGED result /\ ebr_lba' = Head(extended').start_lba
    /\ UNCHANGED <<image, gpt, visited>>

\* The walk of one chain is over: on to the next extended partition.
EndChain ==
    /\ extended' = Tail(extended) /\ visited' = <<>>
    /\ IF extended' = <<>>
       THEN result' = "listed" /\ ebr_lba' = -1
       ELSE UNCHANGED result /\ ebr_lba' = Head(extended').start_lba

\* The loop of walk_ebr_chain goes on while the chain is short and new, and
\* the EBR can be read and carries a signature.
WalkOn == Len(visited) < MaxLogicals /\ ebr_lba \notin ToSet(visited) /\ Readable(ebr_lba)

Visit_not_recorded == UNCHANGED visited
Visit == visited' = Append(visited, ebr_lba)

\* One turn of walk_ebr_chain's loop.
FollowEbr ==
    /\ result = "pending" /\ ebr_lba # -1
    /\ LET ext == Head(extended)
           next == NextEbr(ebr_lba, ext)
       IN  \/ ~WalkOn /\ EndChain /\ UNCHANGED out
           \/ /\ WalkOn
              /\ out' = out \o Logicals(ebr_lba, ext)
              /\ \/ next = {} /\ EndChain
                 \/ ebr_lba' \in next /\ Visit /\ UNCHANGED <<result, extended>>
    /\ UNCHANGED <<image, gpt>>

Next == ReadSectorZero \/ FollowEbr

Spec == Init /\ [][Next]_vars
FairSpec == Spec /\ WF_vars(Next)

-----------------------------------------------------------------------------
(* Properties.                                                             *)

\* The parser's state is well typed, and the EBR about to be read lies inside
\* the extended partition at work.
TypeOK ==
    /\ result \in {"pending", "unpartitioned", "error", "listed"}
    /\ \A i \in DOMAIN out : out[i].kind \in Kinds /\ out[i].start_lba \in Nat
    /\ \A i \in DOMAIN extended : is_extended(extended[i])
    /\ ToSet(visited) \subseteq DOMAIN image
    /\ ebr_lba \in Nat \cup {-1}
    /\ ebr_lba # -1 =>
          /\ extended # <<>> /\ result = "pending"
          /\ ebr_lba >= Head(extended).start_lba
          /\ ebr_lba < Head(extended).start_lba + Head(extended).num_sectors

\* What a disk says, read off its sectors: the slots s of a sector that describe
\* something, those of them that link, the first two, which count in an EBR,
\* and those that hold a logical partition.
Described(s) == {j \in DOMAIN s : s[j].kind # "none" /\ s[j].num_sectors > 0}
Links(s) == {j \in Described(s) : is_extended(s[j])}
Counted(s) == {j \in Described(s) : \A i, k \in Described(s) : i < k => j <= k}
LogicalSlots(s) == {j \in Counted(s) \ Links(s) : s[j].start_lba > 0}

\* The EBR at b is next after one with slots s: its first link names it.
Linked(s, b, ext) ==
    /\ b > ext.start_lba /\ b < ext.start_lba + ext.num_sectors
    /\ \E j \in Counted(s) \cap Links(s) :
          /\ b = ext.start_lba + s[j].start_lba
          /\ \A i \in Counted(s) \cap Links(s) : j <= i

\* The EBRs at most n links from an extended partition's first sector.
ChainWithin(n, disk, ext) ==
    LET ebrs == {l \in DOMAIN disk : disk[l].signature}
        within[k \in 0..n] ==
            IF k = 0 THEN ebrs \cap {ext.start_lba}
            ELSE within[k-1] \cup
                    {b \in ebrs : \E a \in within[k-1] : Linked(disk[a].slots, b, ext)}
    IN  within[n]

\* The EBRs of every chain, with the extended slot the chain belongs to, the
\* slots of such EBRs that hold a logical partition, and the partition one
\* holds, at its absolute LBA.
ChainedEbrs(disk) ==
    {c \in Links(disk[0].slots) \X DOMAIN disk :
        c[2] \in ChainWithin(MaxLogicals - 1, disk, disk[0].slots[c[1]])}
Held(disk, ebrs) == UNION {{c} \X LogicalSlots(disk[c[2]].slots) : c \in ebrs}
Placed(disk, h) ==
    LET ebr == h[1][2] IN [disk[ebr].slots[h[2]] EXCEPT !.start_lba = ebr + @]

\* On a disk with an MBR the listing is exactly the primaries, in slot order,
\* and after them the logical partitions of every EBR its extended partitions
\* chain together, once each, at their absolute LBAs -- however the links loop,
\* leave the extended partition or reach an unreadable sector, and whatever
\* chain came before.
LogicalsListed ==
    (result = "listed" /\ ~has_gpt_protective(image[0])) =>
        LET table == image[0].slots
            primaries == Described(table) \ Links(table)
            n == Cardinality(primaries)
            logicals == SubSeq(out, n + 1, Len(out))
            held == Held(image, ChainedEbrs(image))
        IN  /\ n <= Len(out)
            /\ \A j \in primaries : out[Cardinality({i \in primaries : i <= j})] = table[j]
            /\ \A p \in ToSet(logicals) \cup {Placed(image, h) : h \in held} :
                  Cardinality({i \in DOMAIN logicals : logicals[i] = p})
                      = Cardinality({h \in held : Placed(image, h) = p})

\* No partition is listed with no sectors: empty MBR slots are skipped and a
\* GPT entry's last LBA is inclusive.  Only an entry that claims all of the
\* 2^64 sectors has a length that wraps to 0.
NoEmptyPartition ==
    \A i \in DOMAIN out :
        \/ out[i].num_sectors > 0
        \/ \E j \in DOMAIN gpt.entries :
              gpt.entries[j].first = 0 /\ gpt.entries[j].last = Width - 1

\* Whatever the sectors hold, the parser comes to an answer.
ListingEnds == <>(result # "pending")
=============================================================================
