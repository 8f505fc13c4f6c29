SPECIFICATION Spec
CONSTANTS
    Loop = Loop
    None = None
    CloseJob = CloseJob
    Timer = Timer
    Others = {t1}
    Jobs = {j1}
    Handlers = {}
    BusyType = {}
    Raisable = {}
    MaxStarts = 1
    MaxCloses = 0
    MaxInstr = 0
INVARIANTS
    JobWakesDispatch
