---------------------------- MODULE MCCompressor ----------------------------
(***************************************************************************)
(* Small instances of the streaming compressor for TLC.                    *)
(***************************************************************************)
EXTENDS Compressor

ZlibOnly == {"zlib"}
ZstdOnly == {"zstd"}
BothBackends == {"zlib", "zstd"}

ZlibAndMissing == ZlibFormats \cup {"zstd"}
=============================================================================
