SPECIFICATION Spec
CONSTANTS
    Loop = Loop
    None = None
    CloseJob = CloseJob
    Timer = Timer
    Others = {t1}
    Jobs = {}
    Handlers = {h1, h2}
    BusyType = {h2}
    Raisable = {h1}
    MaxStarts = 2
    MaxCloses = 1
    MaxInstr = 4
INVARIANTS
    RegistrationsAgree
    NoCallbackAfterStop
