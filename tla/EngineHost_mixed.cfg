SPECIFICATION Spec
CONSTANTS
    Requests <- MixedRequests
    Keys = {"python", "go", "rust"}
    Procs = {p1, p2, p3, p4}
    Runs = {}
    KeyOf <- MixedKeyOf
    MethodOf <- MixedMethodOf
    RunOf <- NoRunOf
    JobOf <- OwnJobOf
    Scoped <- MixedScoped
    MaxProcesses = 2
    MaxProcessesPerEngine = 1
    MaxQueuedRequests = 2
    MaxIdlePerKey = 2
    NoProc = NoProc
    NoKey = "nokey"
    NoRun = "none"
SYMMETRY Symmetry
CHECK_DEADLOCK FALSE
INVARIANTS
    PermitsAccounted
    NoStrandedWaiter
    ExclusiveProcess
    ProcessesBounded
PROPERTIES
    ListingCancelSparesOthers
    CancellationWins
