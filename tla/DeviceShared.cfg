SPECIFICATION FairBlockSpec
CONSTANTS
    r1 = r1
    w1 = w1
    w2 = w2
    Readers = {r1}
    Writers = {w1, w2}
    Media <- TestMedia
    Devices <- OpenedSources
    Requests <- TestRequests
    WriteRequests <- TestWrites
    Probes <- TestProbes
    PROBE_SECTOR = 4
    DefaultSector = 2
    Formatted = {0, 4}
    Faults = {"io"}
    None = None
INVARIANTS BlockTypeOK TypeOK ReadReturnsRange ShortOnlyOutside MediumAcceptsReads WritePlacesBytes FlushedIsDurable ProbeAnswers
PROPERTIES ReadEnds WriteEnds
CHECK_DEADLOCK FALSE
