----------------------------- MODULE MCPipeline -----------------------------
(***************************************************************************)
(* Small instances of the pipeline for TLC.                                *)
(***************************************************************************)
EXTENDS Pipeline

BothBackends == {"zlib", "zstd"}

\* A zstd stream is finished into a span that holds the rest of it.
Ample == [f \in Formats |-> IF f = "zstd" THEN {9} ELSE {1, 2}]

\* Or into spans of any size.
Tight == [f \in Formats |-> {1, 2}]
=============================================================================
