SPECIFICATION Spec
CONSTANTS
    card = card
    stick = stick
    Disks = {card, stick}
    LowerCase = {card}
    Unpartitioned = {card}
    PartCount <- OneEachCount
    FsParts <- OneEachFs
    NLetters = 2
    Env = {"disk", "session", "stop", "exit", "letter", "slow", "crash", "restart"}
    Faults = {"open", "status", "detail", "enumerate", "list", "probe", "locate", "start", "stop", "getmessage"}
    MaxEvents = 3
INVARIANTS TypeOK RemovalPending
CHECK_DEADLOCK FALSE
