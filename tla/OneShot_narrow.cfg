\* uInt four values wide: spans of 4 and more stand for spans of 2^32 bytes and more.
SPECIFICATION Spec
CONSTANTS
    Compiled <- ZlibOnly
    Requests <- Zlib
    Readers <- Zlib
    Levels = {6}
    UINT = 4
    Spread = {1, 2, 3}
    MaxSource = 4
    MaxRoom = 9
    MaxOut = 4
INVARIANTS RoundTrip
