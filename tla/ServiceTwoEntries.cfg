SPECIFICATION Spec
CONSTANTS
    card = card
    stick = stick
    Disks = {card}
    LowerCase = {}
    Unpartitioned = {card}
    PartCount <- OneEachCount
    FsParts <- OneEachFs
    NLetters = 4
    Env = {"disk"}
    Faults = {}
    MaxEvents = 1
INVARIANT OneEntryPerVolume
CHECK_DEADLOCK FALSE
