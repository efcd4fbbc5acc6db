----------------------------- MODULE MCHandles -----------------------------
(***************************************************************************)
(* Small instances of the handles for TLC.                                 *)
(***************************************************************************)
EXTENDS Handles

\* The classes that free what an assignment replaces.
Freeing == ZstdClasses \cup Objects
=============================================================================
