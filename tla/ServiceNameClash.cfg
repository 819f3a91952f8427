SPECIFICATION Spec
CONSTANTS
    card = card
    stick = stick
    Disks = {card, stick}
    LowerCase = {}
    Unpartitioned = {card}
    PartCount <- OneEachCount
    FsParts <- TwoOnStickFs
    NLetters = 4
    Env = {"slow"}
    Faults = {}
    MaxEvents = 0
INVARIANT InstanceNameUnique
CHECK_DEADLOCK FALSE
