\* zlib, gzip and raw deflate, with zstd not compiled in.
SPECIFICATION Spec
CONSTANTS
    Compiled <- ZlibOnly
    Requests <- ZlibAndMissing
    Levels = {6, 10}
    UINT = 16
    AllocFails = FALSE
    Spread = {1}
    MaxIn = 2
    MaxOut = 3
    MaxSource = 3
    MaxFrame = 8
INVARIANT DoneMeansComplete
