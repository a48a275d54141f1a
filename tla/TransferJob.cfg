SPECIFICATION TransfersSpec
CONSTANTS
    FileCount = 2
    PartsOf <- MCPartsOf
    MaxWorkers = 2
    Transfers = {"transfer1", "transfer2"}
    Controls = {"pause1", "resume1", "cancel2"}
    Threads = {"thread1"}
    Nobody = "nobody"
CHECK_DEADLOCK FALSE
INVARIANTS
    TransfersTypeOK
    PartsIntoOpenUpload
    CompletedIsWhole
    NoOrphanUpload
PROPERTIES
    CancellationStops
    CancelledJobEnds
    UploadEnds
    ControlsAnswered
