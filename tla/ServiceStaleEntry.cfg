SPECIFICATION Spec
CONSTANTS
    card = card
    stick = stick
    Disks = {card}
    LowerCase = {}
    Unpartitioned = {card}
    PartCount <- OneEachCount
    FsParts <- OneEachFs
    NLetters = 4
    Env = {"exit", "session"}
    Faults = {}
    MaxEvents = 3
PROPERTY SkippedDiskHoldsMount
CHECK_DEADLOCK FALSE
