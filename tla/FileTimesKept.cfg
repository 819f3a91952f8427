SPECIFICATION Spec
CONSTANTS
    ext = ext
    erofs = erofs
    Volumes = {ext, erofs}
    MtimeOnly = {erofs}
    Kind <- TestKind
    Stamps <- TestStamps
    Asked = {0, 31}
    MinSecs <- MinusNine
    MaxSecs = 8
    MaxTicks = 31
    FILETIME_EPOCH_OFFSET_SEC = 3
    FILETIME_TICKS_PER_SEC = 4
    NS_PER_TICK = 2
    None = None
INVARIANTS TypeOK TimesKept RefusedWasReadOnly
CHECK_DEADLOCK FALSE
