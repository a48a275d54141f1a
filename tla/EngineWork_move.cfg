SPECIFICATION EngineSpec
CONSTANTS
    Works = {"copy"}
    Workers = {"worker1", "worker2"}
    Budget = 2
    MaxBatch = 2
    Resumes = {"resumeA", "resumeB"}
    MaxOwners = 2
    MaxOps = 1
    MaxCrashes = 1
    MaxLost = 1
    KeyCount = 2
    RangesOf <- MCRangesOf
    MaxSlots = 2
    Forms = {"a", "A"}
    FormOf <- MCFormOf
    MaxIndex = 1
    MaxEdits = 1
    MaxOthers = 1
    EntryCount = 2
    BatchSizes = {1, 2}
    DeleteWorkers = 1
    Attempts = 2
    MaxRewrites = 1
    PartCount = 3
    MaxPolls = 2
    MaxVersions = 2
    EntryTotal = 4
    MaxForeign = 2
    MaxKills = 2
CHECK_DEADLOCK FALSE
INVARIANT DeletedOnlyWhenCopied
