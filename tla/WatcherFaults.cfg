SPECIFICATION Spec
CONSTANTS
    card = card
    stick = stick
    Disks = {card, stick}
    LowerCase = {card}
    Unpartitioned = {card}
    PartCount <- Count
    FsParts <- OneEachFs
    NLetters = 2
    Env = {"disk", "ctrlc", "exit", "letter", "slow"}
    Faults = {"open", "detail", "enumerate", "list", "probe", "exe", "spawn", "getmessage"}
    MaxEvents = 3
INVARIANTS TypeOK RemovalPending NoOrphanChild
CHECK_DEADLOCK FALSE
