----------------------------- MODULE ZstdOneShot -----------------------------
(***************************************************************************)
(* The one-shot push of detail::zstd_squeezer and detail::zstd_sweller     *)
(* (src/detail/zstd.cpp).  Both use zstd's simple API, which keeps nothing *)
(* between calls: a push is its result and what it wrote.                  *)
(***************************************************************************)
EXTENDS Wire

\* ZSTD_compress of n symbols: one complete frame, its data in at most a unit
\* for each symbol, its end packed into the last block or in one of its own.
ZSTD_compress(n) ==
    LET hdr == Grow(<<>>, "hdr")
    IN  {GrowBlock(hdr, n, u, "last") : u \in {v \in BlockSizes(hdr, n) : n > 0}}
        \cup {Grow(GrowBlock(hdr, n, u, "blk"), "last") : u \in BlockSizes(hdr, n)}

\* ZSTD_decompress: whole frames, one after the other, into m units; an input
\* of no bytes is no frame at all and succeeds.
ZSTD_decompress_ok(c, w, m) ==
    /\ w # <<>> => c = "zstd" /\ w[Len(w)].kind = "last"
    /\ Upto(w) <= m

zstd_push(n, out) ==
    {IF Len(w) <= out.size THEN [wire |-> w, r |-> Progress(n, Len(w), TRUE)]
     ELSE [wire |-> <<>>, r |-> Unexpected("backend_failure")] : w \in ZSTD_compress(n)}

zstd_sweller_push_Swapped(c, w, out) ==    \* mutant: in and out swapped
    IF ZSTD_decompress_ok(c, w, out.size) THEN Progress(Upto(w), Len(w), TRUE)
    ELSE Unexpected("stream_corrupt")

zstd_sweller_push_TooSmall(c, w, out) ==    \* mutant: every failure is the output's
    IF ZSTD_decompress_ok(c, w, out.size) THEN Progress(Len(w), Upto(w), TRUE)
    ELSE Unexpected("buffer_too_small")

zstd_sweller_push(c, w, out) ==
    IF ZSTD_decompress_ok(c, w, out.size) THEN Progress(Len(w), Upto(w), TRUE)
    ELSE Unexpected("stream_corrupt")
==============================================================================
