SPECIFICATION Spec
CONSTANTS
    card = card
    stick = stick
    Disks = {card, stick}
    LowerCase = {}
    Unpartitioned = {card}
    PartCount <- OneEachCount
    FsParts <- TwoOnStickFs
    NLetters = 3
    Env = {"disk", "session", "stop", "slow", "crash", "restart"}
    Faults = {"detail", "list", "probe", "start", "getmessage"}
    MaxEvents = 4
INVARIANTS NoOrphanMount RescanNeverRemounts
PROPERTIES StopsOnlyItsOwn ImplementsAutomount
CHECK_DEADLOCK FALSE
