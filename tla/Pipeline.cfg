SPECIFICATION Spec
CONSTANTS
    Compiled <- BothBackends
    Requests = {"zlib", "gzip", "zstd"}
    Source = 3
    Chunk = 2
    PushSizes = {1, 2}
    FlushSizes = {3}
    FinishSizes <- Ample
    SwellSizes = {1, 2}
    MaxSpan = 9
    MaxFrame = 20
    UINT = 16
    AllocFails = FALSE
    IdleMax = 2
    Spread = {2}
INVARIANTS TypeOK NothingRefused FlushedIsThere ConsumedIsRestored
PROPERTIES ImplementsContract Restored FlushedArrives
