----------------------------- MODULE ZlibSweller -----------------------------
(***************************************************************************)
(* detail::zlib_sweller (src/detail/zlib.cpp): the decompressing handle    *)
(* over a z_stream.  Each method is the set of its outcomes, each the new  *)
(* stream and the std::expected<progress, error> it returns.               *)
(***************************************************************************)
EXTENDS ZlibSqueezer, Inflate

zlib_sweller(f) == inflateInit(window_bits_for(f))

Swelling_Swapped(z, d, done) ==    \* mutant: before minus after
    Progress(Len(z.seen) - Len(d.z.seen), z.total_out - d.z.total_out, done)

Swelling_SinceConstruction(z, d, done) ==    \* mutant: the totals, not what the call added
    Progress(Len(d.z.seen), d.z.total_out, done)

\* What inflate d consumed and produced, by total_in and total_out.
Swelling(z, d, done) ==
    Progress(Len(d.z.seen) - Len(z.seen), d.z.total_out - z.total_out, done)

\* push: one inflate to the end of the stream; input that was not consumed
\* tells an output that was filled from data after the end.
Judged_OffByOne(z, d, n) ==    \* mutant: consumed <= in.size()
    IF d.ret = "STREAM_END" THEN Unexpected("stream_corrupt")
    ELSE IF d.ret \in {"OK", "BUF_ERROR"} THEN Unexpected("buffer_too_small")
    ELSE Unexpected("stream_corrupt")

Judged(z, d, n) ==
    LET rest == Len(d.z.seen) - Len(z.seen) < n
    IN  CASE d.ret = "STREAM_END" ->
               IF rest THEN Unexpected("stream_corrupt") ELSE Swelling(z, d, TRUE)
          [] d.ret \in {"OK", "BUF_ERROR"} ->
               IF rest THEN Unexpected("buffer_too_small") ELSE Swelling(z, d, FALSE)
          [] OTHER -> Unexpected("stream_corrupt")

zlib_sweller_push_IgnoresRest(z, c, w, out) ==    \* mutant: leftover input is not looked at
    {[z |-> d.z, r |-> Judged(z, d, 0)] :
        d \in inflate(z, "finish", c, SubSeq(w, 1, uInt(Len(w))), out.data, uInt(out.size))}

zlib_sweller_push(z, c, w, out) ==
    {[z |-> d.z, r |-> Judged(z, d, Len(w))] :
        d \in inflate(z, "finish", c, SubSeq(w, 1, uInt(Len(w))), out.data, uInt(out.size))}

\* push_more: a part of the stream; the end is reported however much input is
\* left, and input that cannot be used yet is no error.
Delivered(z, d) ==
    CASE d.ret = "STREAM_END" -> Swelling(z, d, TRUE)
      [] d.ret \in {"OK", "BUF_ERROR"} -> Swelling(z, d, FALSE)
      [] OTHER -> Unexpected("stream_corrupt")

zlib_sweller_push_more_Resets(z, c, w, out) ==    \* mutant: ready for a next stream
    {[z |-> IF d.ret = "STREAM_END" THEN inflateInit(z.fmt) ELSE d.z, r |-> Delivered(z, d)] :
        d \in inflate(z, "no", c, SubSeq(w, 1, uInt(Len(w))), out.data, uInt(out.size))}

zlib_sweller_push_more_OneShot(z, c, w, out) ==    \* mutant: what is left is an error
    {[z |-> d.z, r |-> Judged(z, d, Len(w))] :
        d \in inflate(z, "no", c, SubSeq(w, 1, uInt(Len(w))), out.data, uInt(out.size))}

zlib_sweller_push_more(z, c, w, out) ==
    {[z |-> d.z, r |-> Delivered(z, d)] :
        d \in inflate(z, "no", c, SubSeq(w, 1, uInt(Len(w))), out.data, uInt(out.size))}
==============================================================================
