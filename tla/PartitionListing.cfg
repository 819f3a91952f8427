SPECIFICATION FairSpec
CONSTANTS
    Images <- TestImages
    Gpts <- TestGpts
    MaxLogicals = 3
    Width = 8
INVARIANTS TypeOK LogicalsListed NoEmptyPartition
PROPERTY ListingEnds
CHECK_DEADLOCK FALSE
