SPECIFICATION FairSpec
CONSTANTS
    Requests <- SingleRequests
    Keys = {"python"}
    Procs = {p1, p2}
    Runs = {}
    KeyOf <- SingleKeyOf
    MethodOf <- SingleMethodOf
    RunOf <- NoRunOf
    JobOf <- SingleJobOf
    Scoped = {"up"}
    MaxProcesses = 1
    MaxProcessesPerEngine = 1
    MaxQueuedRequests = 2
    MaxIdlePerKey = 2
    NoProc = NoProc
    NoKey = "nokey"
    NoRun = "none"
CHECK_DEADLOCK FALSE
INVARIANTS
    TypeOK
PROPERTY
    EveryCallEnds
