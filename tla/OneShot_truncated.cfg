\* zlib streams cut short.
SPECIFICATION Spec
CONSTANTS
    Compiled <- ZlibOnly
    Requests <- Zlib
    Readers <- Zlib
    Levels = {6}
    UINT = 16
    Spread = {1, 2, 3}
    MaxSource = 3
    MaxRoom = 9
    MaxOut = 3
INVARIANTS TruncationNamed
