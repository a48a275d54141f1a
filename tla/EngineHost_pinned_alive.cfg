SPECIFICATION Spec
CONSTANTS
    Requests <- BenchRequests
    Keys = {"python"}
    Procs = {p1, p2, p3}
    Runs = {"run1"}
    KeyOf <- BenchKeyOf
    MethodOf <- BenchMethodOf
    RunOf <- BenchRunOf
    JobOf <- OwnJobOf
    Scoped = {}
    MaxProcesses = 2
    MaxProcessesPerEngine = 1
    MaxQueuedRequests = 2
    MaxIdlePerKey = 2
    NoProc = NoProc
    NoKey = "nokey"
    NoRun = "none"
SYMMETRY Symmetry
CHECK_DEADLOCK FALSE
INVARIANT
    PinnedAlive
