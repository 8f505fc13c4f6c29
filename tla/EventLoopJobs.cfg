SPECIFICATION FairSpec
CONSTANTS
    Loop = Loop
    None = None
    CloseJob = CloseJob
    Timer = Timer
    Others = {t1, t2}
    Jobs = {j1, j2, j3}
    Handlers = {}
    BusyType = {}
    Raisable = {}
    MaxStarts = 1
    MaxCloses = 1
    MaxInstr = 0
INVARIANTS
    TypeOK
    OtherJobsInOrder
    SameJobsInOrder
PROPERTIES
    JobRuns
    CloseStops
