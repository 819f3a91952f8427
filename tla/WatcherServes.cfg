SPECIFICATION FairSpec
CONSTANTS
    card = card
    stick = stick
    Disks = {card, stick}
    LowerCase = {card}
    Unpartitioned = {card}
    PartCount <- Count
    FsParts <- TwoOnStickFs
    NLetters = 6
    Env = {"disk", "ctrlc"}
    Faults = {}
    MaxEvents = 4
INVARIANT EveryDiskServed
PROPERTIES CtrlCEnds RemovalSettles ImplementsAutomount
CHECK_DEADLOCK FALSE
