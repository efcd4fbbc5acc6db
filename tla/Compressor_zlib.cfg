\* zlib, gzip and raw deflate, with zstd not compiled in.  uInt is four values
\* wide: spans of 4 and 5 stand for spans of 2^32 bytes and more.
SPECIFICATION Spec
CONSTANTS
    Compiled <- ZlibOnly
    Requests <- ZlibAndMissing
    Levels = {6, 10}
    UINT = 4
    AllocFails = FALSE
    Spread = {2}
    MaxIn = 4
    MaxOut = 5
    MaxSource = 4
    MaxFrame = 7
INVARIANTS TypeOK NoLossNoDuplication FlushCovers FinishCloses PushProgress MissingBackendFails
PROPERTIES ImplementsContract
