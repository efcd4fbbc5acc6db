--------------------------- MODULE MCDecompressor ---------------------------
(***************************************************************************)
(* Small instances of the streaming decompressor for TLC.                  *)
(***************************************************************************)
EXTENDS Decompressor

BothBackends == {"zlib", "zstd"}
=============================================================================
