------------------------------ MODULE MCOneShot ------------------------------
(***************************************************************************)
(* Small instances of the one-shot layer for TLC.                          *)
(***************************************************************************)
EXTENDS OneShot

ZlibOnly == {"zlib"}
BothBackends == {"zlib", "zstd"}

Zlib == {"zlib"}
Gzip == {"gzip"}
==============================================================================
