SPECIFICATION FairSpec
CONSTANTS
    card = card
    stick = stick
    Disks = {card}
    LowerCase = {}
    Unpartitioned = {card}
    PartCount <- Count
    FsParts <- OneEachFs
    NLetters = 4
    Env = {"ctrlc"}
    Faults = {}
    MaxEvents = 1
PROPERTY CtrlCWakesPump
CHECK_DEADLOCK FALSE
