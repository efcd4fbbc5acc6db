\* Every format asked of a build with both backends; none serves lz4_frame.
SPECIFICATION Spec
CONSTANTS
    Compiled <- BothBackends
    Requests <- Formats
    Readers <- Formats
    Levels = {6, 10}
    UINT = 16
    Spread = {1, 2, 3}
    MaxSource = 3
    MaxRoom = 9
    MaxOut = 7
INVARIANTS TypeOK RoundTrip BoundIsHonest ShortOutputNamedByTrailer TrailingRejected TruncationNamedByFrame SuccessIsExact
