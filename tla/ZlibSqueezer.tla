---------------------------- MODULE ZlibSqueezer ----------------------------
(***************************************************************************)
(* detail::zlib_squeezer (src/detail/zlib.cpp): the compressing handle     *)
(* over a z_stream.  Each method is the set of its outcomes, each the new  *)
(* stream and the std::expected<progress, error> it returns.               *)
(***************************************************************************)
EXTENDS Deflate

\* The range of uInt, zlib's width for avail_in and avail_out: 2^32.
CONSTANT UINT
ASSUME UINTAssumption == UINT \in Nat \ {0}

\* static_cast<uInt>(span.size())
uInt(size) == size % UINT

\* The container deflateInit2 is asked for.
window_bits_for(f) == IF f \in {"gzip", "raw_deflate"} THEN f ELSE "zlib"

zlib_squeezer(f) == deflateInit(window_bits_for(f))

\* Report what deflate consumed and produced, or that it failed.  total_in and
\* total_out are read before and after the call.
Report_Swapped(z, d, good, done) ==    \* mutant: before minus after
    [z |-> d.z,
     r |-> IF d.ret \in good
           THEN Progress(z.total_in - d.z.total_in, z.total_out - d.z.total_out, done)
           ELSE Unexpected("backend_failure")]

Report(z, d, good, done) ==
    [z |-> d.z,
     r |-> IF d.ret \in good
           THEN Progress(d.z.total_in - z.total_in, d.z.total_out - z.total_out, done)
           ELSE Unexpected("backend_failure")]

\* push: the one-shot form, also used by finish.
zlib_push_EndOnly(z, n, out) ==    \* mutant: a partial finish is a failure
    {Report(z, d, {"STREAM_END"}, d.ret = "STREAM_END") :
        d \in deflate(z, "finish", uInt(n), out.data, uInt(out.size))}

zlib_push_Flushes(z, n, out) ==    \* mutant: flushes where it must finish
    {Report(z, d, {"STREAM_END", "OK"}, TRUE) :
        d \in deflate(z, "sync", uInt(n), out.data, uInt(out.size))}

zlib_push(z, n, out) ==
    {Report(z, d, {"STREAM_END", "OK"}, d.ret = "STREAM_END") :
        d \in deflate(z, "finish", uInt(n), out.data, uInt(out.size))}

zlib_push_more_ClaimsAll(z, n, out) ==    \* mutant: reports in.size() as consumed
    {[z |-> d.z, r |-> IF d.ret \in {"OK", "BUF_ERROR"}
                       THEN Progress(n, d.z.total_out - z.total_out, FALSE)
                       ELSE Unexpected("backend_failure")] :
        d \in deflate(z, "no", uInt(n), out.data, uInt(out.size))}

zlib_push_more_NoInput(z, n, out) ==    \* mutant: avail_in is not set
    {Report(z, d, {"OK", "BUF_ERROR"}, FALSE) :
        d \in deflate(z, "no", 0, out.data, uInt(out.size))}

zlib_push_more(z, n, out) ==
    {Report(z, d, {"OK", "BUF_ERROR"}, FALSE) :
        d \in deflate(z, "no", uInt(n), out.data, uInt(out.size))}

zlib_flush_NoFlush(z, out) ==    \* mutant: Z_NO_FLUSH
    {Report(z, d, {"OK", "BUF_ERROR"}, FALSE) :
        d \in deflate(z, "no", 0, out.data, uInt(out.size))}

zlib_flush(z, out) ==
    {Report(z, d, {"OK", "BUF_ERROR"}, FALSE) :
        d \in deflate(z, "sync", 0, out.data, uInt(out.size))}

zlib_finish(z, out) == zlib_push(z, 0, out)
=============================================================================
