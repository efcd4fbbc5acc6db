----------------------------- MODULE ZstdSweller -----------------------------
(***************************************************************************)
(* detail::zstd_sweller (src/detail/zstd.cpp), streaming: the              *)
(* decompressing handle over a ZSTD_DCtx.                                  *)
(***************************************************************************)
EXTENDS ZstdDCtx

Sweep_DoneAtInputEnd(d, n) ==    \* mutant: all input read is taken for the end
    IF d.error \/ (d.remaining = 0 /\ d.pos < n) THEN Unexpected("stream_corrupt")
    ELSE Progress(d.pos, d.outpos, d.pos = n)

\* push_more: what a call reports of d, given n units of input.  The frame is
\* done when nothing remains of it; input past its end is refused, with what
\* the call had decoded unreported.
Sweep(d, n) ==
    IF d.error \/ (d.remaining = 0 /\ d.pos < n) THEN Unexpected("stream_corrupt")
    ELSE Progress(d.pos, d.outpos, d.remaining = 0)

zstd_sweller_push_more_NoInput(x, c, w, out) ==    \* mutant: the input buffer is left empty
    {[x |-> d.x, r |-> Sweep(d, Len(w))] : d \in decompressStream(x, c, <<>>, out.size)}

zstd_sweller_push_more(x, c, w, out) ==
    {[x |-> d.x, r |-> Sweep(d, Len(w))] : d \in decompressStream(x, c, w, out.size)}
==============================================================================
