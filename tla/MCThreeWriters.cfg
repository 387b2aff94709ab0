SPECIFICATION Spec
CONSTANTS
    Proc = {p1, p2, p3}
    NoProc = NoProc
    NoBox = NoBox
    Absent = Absent
    good1 = good1
    good2 = good2
    bad = bad
    junk = junk
    Config <- MCConfig
    WellFormed <- MCWellFormed
    Valid <- MCValid
    Bootable <- MCBootable
    Merged <- MCMerged
    Synced <- MCSynced
    Kinds = {"update", "sync", "restart"}
    MaxFaults = 0
    MaxCrashes = 0
SYMMETRY Symmetry
INVARIANTS
    AnsweredSaveIsRunning
    NoDrift
    NoBlackout
