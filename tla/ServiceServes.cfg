SPECIFICATION FairSpec
CONSTANTS
    card = card
    stick = stick
    Disks = {card, stick}
    LowerCase = {card}
    Unpartitioned = {card}
    PartCount <- OneEachCount
    FsParts <- OneEachFs
    NLetters = 8
    Env = {"disk", "session", "stop", "crash", "restart"}
    Faults = {}
    MaxEvents = 4
INVARIANT EveryDiskServed
PROPERTIES StopCompletes LogonServesDisks RemovalSettles
CHECK_DEADLOCK FALSE
