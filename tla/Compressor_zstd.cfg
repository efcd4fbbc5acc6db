\* zstd, whose context can fail to allocate its buffers.
SPECIFICATION Spec
CONSTANTS
    Compiled <- BothBackends
    Requests <- ZstdOnly
    Levels = {3}
    UINT = 16
    AllocFails = TRUE
    Spread = {2}
    MaxIn = 2
    MaxOut = 3
    MaxSource = 4
    MaxFrame = 8
INVARIANTS NoLossNoDuplication FlushCovers FinishCloses PushProgress
