\* Streams of each format, read as each format.  uInt is three values
\* wide: spans of 3 and 4 stand for spans of 2^32 bytes and more.
SPECIFICATION Spec
CONSTANTS
    Compiled <- BothBackends
    Readers = {"zlib", "gzip", "raw_deflate", "zstd"}
    Arriving = {"zlib", "gzip", "raw_deflate", "zstd"}
    UINT = 3
    IdleMax = 2
    Spread = {1}
    MaxSource = 3
    MaxIn = 4
    MaxOut = 4
INVARIANTS TypeOK DeliversWhatItConsumed DoneMeansDelivered EndIsTold PushProgress
PROPERTIES EndsAndErrorsStay SoundBytesAccepted
