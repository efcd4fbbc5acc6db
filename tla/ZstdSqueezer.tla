---------------------------- MODULE ZstdSqueezer ----------------------------
(***************************************************************************)
(* detail::zstd_squeezer (src/detail/zstd.cpp), streaming: the compressing *)
(* handle over a ZSTD_CCtx.  Each method is the set of its outcomes, each  *)
(* the new context and the std::expected<progress, error> it returns.      *)
(***************************************************************************)
EXTENDS ZstdCCtx

Outcome(s, done) ==
    [x |-> s.x, r |-> IF s.error THEN Unexpected("backend_failure")
                      ELSE Progress(s.pos, s.outpos, done)]

zstd_push_more_NoInput(x, n, out) ==    \* mutant: the input buffer is left empty
    {Outcome(s, FALSE) : s \in compressStream2(x, "continue", 0, out.size)}

zstd_push_more(x, n, out) ==
    {Outcome(s, FALSE) : s \in compressStream2(x, "continue", n, out.size)}

zstd_flush_Continues(x, out) ==    \* mutant: ZSTD_e_continue
    {Outcome(s, FALSE) : s \in compressStream2(x, "continue", 0, out.size)}

zstd_flush(x, out) ==
    {Outcome(s, FALSE) : s \in compressStream2(x, "flush", 0, out.size)}

\* The loop over ZSTD_e_end runs until nothing remains or the output is full.
\* The engine stops short of the end only when the output is full, so the
\* first round is the last; `done' is false when something remains.
zstd_finish_Flushes(x, out) ==    \* mutant: flushes where it must end
    {Outcome(s, s.remaining = 0) : s \in compressStream2(x, "flush", 0, out.size)}

zstd_finish_RemainsFails(x, out) ==    \* mutant: a full output is a failure
    {Outcome([s EXCEPT !.error = @ \/ s.remaining > 0], TRUE) :
        s \in compressStream2(x, "end", 0, out.size)}

zstd_finish(x, out) ==
    {Outcome(s, s.remaining = 0) : s \in compressStream2(x, "end", 0, out.size)}
=============================================================================
