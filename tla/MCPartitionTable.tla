------------------------- MODULE MCPartitionTable -------------------------
(* Disks of six sectors: a table in sector 0 and EBRs in sectors 2 to 5.  *)
EXTENDS PartitionTable

Slot(k, lba, len) == [kind |-> k, start_lba |-> lba, num_sectors |-> len]
Empty == Slot("none", 0, 0)
Sector(sig, slots) == [signature |-> sig, slots |-> slots]

\* Every link an EBR may hold: back to the start, forward, in a circle, and
\* out of the extended partition.
Ebrs == {Sector(FALSE, <<Empty, Empty>>)}
        \cup {Sector(TRUE, <<d, e>>) :
                d \in {Empty, Slot("data", 1, 1)},
                e \in {Empty} \cup {Slot("extended", n, 1) : n \in 0..4}}

\* EBRs no formatter writes: gaps, three described slots, two links, and types
\* that mean something only in sector 0.
OddEbrs == {Sector(TRUE, s) : s \in {
    <<Empty, Slot("data", 1, 1), Empty, Slot("extended", 2, 1)>>,
    <<Slot("extended", 1, 1), Slot("extended", 2, 1), Slot("data", 1, 1)>>,
    <<Slot("data", 1, 1), Slot("data", 1, 1), Slot("extended", 1, 1)>>,
    <<Slot("protective", 2, 1), Slot("data", 0, 1), Slot("data", 1, 1)>>,
    <<Slot("data", 1, 0), Slot("extended", 1, 1), Slot("protective", 3, 2)>>}}

ExtendedTables == {
    <<Slot("data", 1, 1), Slot("extended", 2, 4)>>,
    <<Slot("extended", 2, 4), Slot("data", 1, 1)>>,
    <<Slot("extended", 4, 2), Slot("extended", 2, 2)>>}

PlainTables == {
    <<Empty, Slot("data", 1, 1)>>, <<Slot("data", 1, 0), Empty>>,
    <<Slot("protective", 1, 5), Empty>>, <<Slot("data", 1, 1), Slot("protective", 0, 0)>>}

Disk(zero, ebrs) == [l \in {0} \cup DOMAIN ebrs |-> IF l = 0 THEN zero ELSE ebrs[l]]
NoEbrs == [l \in {} |-> Empty]

TestImages ==
    {Disk(Sector(TRUE, t), e) : t \in ExtendedTables, e \in [2..4 -> Ebrs]}
    \cup {Disk(Sector(TRUE, t), e) : t \in ExtendedTables,
             e \in [2..5 -> {s \in Ebrs : s.slots[1].kind = "data" /\ s.slots[2].start_lba # 0}]}
    \cup {Disk(Sector(TRUE, t), e) : t \in ExtendedTables, e \in [2..4 -> OddEbrs]}
    \cup {Disk(Sector(TRUE, t), NoEbrs) : t \in PlainTables}
    \cup {Disk(Sector(FALSE, <<Empty, Empty>>), NoEbrs), NoEbrs}

Entry(z, f, l) == [zero |-> z, first |-> f, last |-> l]
TestGpts == {
    [plausible |-> FALSE, entries |-> <<>>],
    [plausible |-> TRUE, entries |-> <<Entry(FALSE, 3, 3), Entry(FALSE, 4, 3), Entry(TRUE, 0, 0)>>],
    [plausible |-> TRUE, entries |-> <<Entry(TRUE, 5, 4), Entry(FALSE, 0, 6), Entry(FALSE, 1, 7)>>],
    [plausible |-> TRUE, entries |-> <<Entry(FALSE, 0, 7)>>]}
=============================================================================
