--------------------------- MODULE StreamContract ---------------------------
(***************************************************************************)
(* What a streaming compressor promises its two ends, whatever the engine, *)
(* the container, the buffers and the order of the calls: how many symbols *)
(* the sender has handed over (src), how many of them a receiver of        *)
(* everything collected so far can decode (out), and whether the stream    *)
(* has ended.  The receiver never runs ahead of the sender and never goes  *)
(* back; the stream ends in a step that takes no input, with everything    *)
(* decodable; after that neither end moves.                                *)
(***************************************************************************)
EXTENDS Naturals

VARIABLES src, out, phase

cvars == <<src, out, phase>>

CInit == src = 0 /\ out = 0 /\ phase = "none"

Open == phase = "none" /\ phase' = "open" /\ src' = 0 /\ out' = 0

Transfer ==
    /\ phase = "open" /\ phase' = "open"
    /\ src' \in Nat /\ src' >= src
    /\ out' \in out .. src'

End ==
    /\ phase = "open" /\ phase' = "ended"
    /\ src' = src /\ out' = src

Close == phase \in {"open", "ended"} /\ phase' = "none" /\ src' = 0 /\ out' = 0

CNext == Open \/ Transfer \/ End \/ Close

CSpec == CInit /\ [][CNext]_cvars
=============================================================================
