------------------------------- MODULE OneShot -------------------------------
(***************************************************************************)
(* polliwog::bound, squeeze and swell (src/squeeze.cpp): the one-shot      *)
(* layer, and a caller who squeezes a buffer, stores or sends the bytes,   *)
(* and swells what came back.  The functions keep no state; the state is   *)
(* the caller's buffer and the last call.                                  *)
(***************************************************************************)
EXTENDS ZlibSweller, ZstdOneShot

CONSTANTS
    Compiled,    \* the backends compiled in: POLLIWOG_HAS_ZLIB, POLLIWOG_HAS_ZSTD
    Requests,    \* the formats callers squeeze to
    Readers,     \* the formats callers swell from
    Levels,      \* the zlib_level values they pass
    MaxSource,   \* bound: symbols squeezed by one call
    MaxRoom,     \* bound: units of the span squeezed into
    MaxOut       \* bound: symbols of the span swelled into

ASSUME OneShotAssumption ==
    /\ Compiled \subseteq {"zlib", "zstd"}
    /\ Requests \subseteq Formats /\ Readers \subseteq Formats
    /\ Levels \subseteq Int
    /\ MaxSource \in Nat /\ MaxRoom \in Nat /\ MaxOut \in Nat

VARIABLES
    buf,     \* the caller's compressed bytes
    last     \* the last call: its arguments and its result

vars == <<buf, last>>

Served == (IF "zlib" \in Compiled THEN ZlibFormats ELSE {})
          \cup (IF "zstd" \in Compiled THEN ZstdFormats ELSE {})

(***************************************************************************)
(* compressBound and ZSTD_compressBound, of n symbols that take a unit     *)
(* each: zlib's allows for its own header, an end of data and its own      *)
(* trailer; zstd's for the frame header and an end of data.                *)
(*                                                                         *)
(* The build modelled is one whose uLong is as wide as size_t (LP64).  The *)
(* cast of the size to uLong then changes nothing, and the branches that   *)
(* turn an error of either engine into size_t's maximum need a size within *)
(* a few bytes (zstd: a 256th) of 2^64, which no span has.                 *)
(***************************************************************************)
compressBound(n) == HdrLen("zlib") + n + 1 + TailLen("zlib")
ZSTD_compressBound(n) == n + 2

bound_NoTrailer(f, n) ==    \* mutant: the trailer is forgotten
    IF f \notin Served THEN 0
    ELSE IF f = "zstd" THEN ZSTD_compressBound(n) - 1
    ELSE compressBound(n) - TailLen("zlib")

bound(f, n) ==
    IF f \notin Served THEN 0
    ELSE IF f = "zstd" THEN ZSTD_compressBound(n)
    ELSE compressBound(n)

(***************************************************************************)
(* squeeze: the set of its outcomes.  The gzip header's OS byte, which the *)
(* code overwrites afterwards, is a part of a header unit either way.      *)
(***************************************************************************)
Refused(k) == {[wire |-> <<>>, r |-> Unexpected(k)]}

Squeezed(f, n, out) ==
    IF f = "zstd" THEN zstd_push(n, out)
    ELSE {[wire |-> SubSeq(o.z.frame, 1, o.z.total_out), r |-> o.r] :
             o \in zlib_push(zlib_squeezer(f), n, out)}

squeeze(f, lvl, n, out) ==
    IF f \notin Served THEN Refused("format_mismatch")
    ELSE IF f \in ZlibFormats /\ lvl \notin 0 .. 9 THEN Refused("level_unsupported")
    ELSE IF bound(f, n) = 0 THEN Refused("format_mismatch")
    ELSE IF out.size < bound(f, n) THEN Refused("buffer_too_small")
    ELSE Squeezed(f, n, out)

\* swell(g, in, out) of the units w of container c: the set of its results.
swell(g, c, w, out) ==
    IF g \notin Served THEN {Unexpected("format_mismatch")}
    ELSE IF g = "zstd" THEN {zstd_sweller_push(c, w, out)}
    ELSE {o.r : o \in zlib_sweller_push(zlib_sweller(g), c, w, out)}
-----------------------------------------------------------------------------
(***************************************************************************)
(* The caller.  The bytes squeezed are kept with how many symbols they     *)
(* stand for and the span they were squeezed into; on the way back they    *)
(* may have lost their end, gained a stray unit, or been followed by a     *)
(* second stream.                                                          *)
(***************************************************************************)
NoBuffer == [fmt |-> "none", source |-> 0, room |-> 0, wire |-> <<>>, how |-> "none"]
NoCall == [op |-> "none", fmt |-> "none", lvl |-> 0, out |-> [size |-> 0, data |-> "null"],
           r |-> Progress(0, 0, FALSE)]

Init == buf = NoBuffer /\ last = NoCall

Squeeze(f, lvl, n, out) ==
    /\ buf = NoBuffer
    /\ \E o \in squeeze(f, lvl, n, out) :
        /\ last' = [op |-> "squeeze", fmt |-> f, lvl |-> lvl, out |-> out, r |-> o.r]
        /\ buf' = IF o.r.kind = "ok"
                  THEN [fmt |-> f, source |-> n, room |-> out.size, wire |-> o.wire,
                        how |-> "exact"]
                  ELSE NoBuffer

Cut(k) ==
    /\ buf.how = "exact" /\ k < Len(buf.wire)
    /\ buf' = [buf EXCEPT !.wire = SubSeq(@, 1, k), !.how = "cut"]
    /\ last' = NoCall

\* A byte after the end that starts no stream.
Trail ==
    /\ buf.how = "exact" /\ Complete(buf.fmt, buf.wire)
    /\ buf' = [buf EXCEPT !.wire = Grow(@, "tail"), !.how = "trailed"]
    /\ last' = NoCall

\* A second stream of the same symbols after the first.
Shifted(w, k) == [i \in DOMAIN w |-> [w[i] EXCEPT !.upto = @ + k]]

Repeat ==
    /\ buf.how = "exact" /\ Complete(buf.fmt, buf.wire)
    /\ buf' = [buf EXCEPT !.wire = @ \o Shifted(@, buf.source), !.how = "repeated"]
    /\ last' = NoCall

\* The bytes of another container are the whole stream: squeezed bytes cut
\* short before their second byte could be the start of any header.  A zlib
\* stream is not read as raw deflate: its header could be that of a stored
\* block.
Swell(g, out) ==
    /\ buf.how # "none"
    /\ g # buf.fmt => buf.how = "exact" /\ ~(buf.fmt = "zlib" /\ g = "raw_deflate")
    /\ \E r \in swell(g, buf.fmt, buf.wire, out) :
           last' = [op |-> "swell", fmt |-> g, lvl |-> 0, out |-> out, r |-> r]
    /\ UNCHANGED buf

Discard == buf # NoBuffer /\ buf' = NoBuffer /\ last' = NoCall

Next ==
    \/ \E f \in Requests, lvl \in Levels, n \in 0 .. MaxSource, out \in Spans(MaxRoom) :
           Squeeze(f, lvl, n, out)
    \/ \E k \in 0 .. MaxRoom : Cut(k)
    \/ Trail
    \/ Repeat
    \/ Discard
    \/ \E g \in Readers, out \in Spans(MaxOut) : Swell(g, out)

Spec == Init /\ [][Next]_vars
-----------------------------------------------------------------------------
(***************************************************************************)
(* Properties.                                                             *)
(***************************************************************************)

\* The type invariant of the caller's buffer and of the last call.
TypeOK ==
    /\ buf \in [fmt : Formats \cup {"none"}, source : Nat, room : Nat, wire : Seq(Unit),
                how : {"none", "exact", "cut", "trailed", "repeated"}]
    /\ last \in [op : {"none", "squeeze", "swell"}, fmt : Formats \cup {"none"}, lvl : Int,
                 out : AnySpan, r : Result]

\* A stream of n symbols in container f takes at most this much.
Room(f, n) == HdrLen(f) + n + 1 + TailLen(f)

\* What was squeezed is swelled from its own format.
Swelled(how) == last.op = "swell" /\ last.fmt = buf.fmt /\ buf.how \in how
Restored == last.r.kind = "ok" /\ last.r.out = buf.source

(***************************************************************************)
(* "round-trip: swell(squeeze(x)) == x, always" (src/README.md): what      *)
(* squeeze reported to have written, given back to swell with an output    *)
(* span that holds the original, is the original, wherever blocks end in   *)
(* the stream; provided the span squeezed into had room for the container, *)
(* and the one swelled into has an address.                                *)
(***************************************************************************)
RoundTrip ==
    /\ Swelled({"exact"}) /\ buf.room >= Room(buf.fmt, buf.source)
    /\ last.out.size >= buf.source /\ last.out.data = "buffer"
    => Restored

(***************************************************************************)
(* bound is honest for zlib, raw deflate and zstd: a squeeze into at least *)
(* that much does not fail in the backend, and has written the whole       *)
(* stream, trailer included, although squeeze looks at nothing but the     *)
(* error and drops the backend's `done'.                                   *)
(***************************************************************************)
CompleteFor(fs) ==
    last.op = "squeeze" /\ last.fmt \in fs /\ last.r.kind \in {"ok", "backend_failure"}
    => /\ last.r.kind = "ok"
       /\ Complete(buf.fmt, buf.wire) /\ Upto(buf.wire) = buf.source

BoundIsHonest == CompleteFor(Formats \ {"gzip"})

(***************************************************************************)
(* A swell of a zlib or gzip stream into a span too small for the original *)
(* is named buffer_too_small: wherever the output fills, the trailer is    *)
(* still unread, which is what the code goes by.                           *)
(***************************************************************************)
ShortOutputNamedByTrailer ==
    /\ Swelled({"exact"}) /\ TailLen(buf.fmt) > 0 /\ Complete(buf.fmt, buf.wire)
    /\ last.out.size < buf.source /\ last.out.data = "buffer"
    => last.r.kind = "buffer_too_small"

(***************************************************************************)
(* Bytes after the end of the stream, a second stream among them, are      *)
(* never swelled silently, whatever the size of the output span            *)
(* (src/src/detail/zlib.cpp: "extra data after end of stream").  Only a    *)
(* second zstd frame is: ZSTD_decompress takes both.                       *)
(***************************************************************************)
TrailingRejected ==
    Swelled({"trailed", "repeated"}) => last.r.kind # "ok" \/ (buf.fmt = "zstd" /\ buf.how = "repeated")

(***************************************************************************)
(* A swell that succeeds is truthful, whatever became of the bytes on the  *)
(* way: what it reports to have written is all that the bytes given hold,  *)
(* or as much as the span takes, as the engine sees its size; nothing of   *)
(* them was left unread.  swell drops the backend's `done', so that is all *)
(* its caller can rely on of a stream that may lack its end or be followed *)
(* by another.                                                             *)
(***************************************************************************)
RoomFor(f, out) == IF f \in ZstdFormats THEN out.size ELSE uInt(out.size)

SuccessIsExact ==
    /\ Swelled({"exact", "cut", "trailed", "repeated"}) /\ last.r.kind = "ok"
    => /\ last.r.in = Len(buf.wire)
       /\ last.r.out = IF Upto(buf.wire) <= RoomFor(buf.fmt, last.out) THEN Upto(buf.wire)
                       ELSE RoomFor(buf.fmt, last.out)

(***************************************************************************)
(* The beginning of a zstd frame, swelled into a span that holds the       *)
(* original, is stream_corrupt wherever the bytes end, with one exception: *)
(* of a frame that lost everything ZSTD_decompress (zstd.cpp) finds no     *)
(* frame and returns 0, and swell succeeds, although error.hpp says of     *)
(* truncation that it is stream_corrupt.                                   *)
(***************************************************************************)
Beginning(fs) ==
    /\ Swelled({"cut"}) /\ buf.fmt \in fs
    /\ last.out.size >= buf.source /\ last.out.data = "buffer"

TruncationNamedByFrame ==
    Beginning(ZstdFormats) =>
        last.r.kind = IF buf.wire = <<>> THEN "ok" ELSE "stream_corrupt"

(***************************************************************************)
(* "stream_corrupt  bad bytes: ..., truncation."                           *)
(* (src/include/polliwog/error.hpp), for every container, of a stream that *)
(* lost its end and not everything.                                        *)
(***************************************************************************)
TruncationNamed == Beginning(Formats) /\ buf.wire # <<>> => last.r.kind = "stream_corrupt"

(***************************************************************************)
(* "bound() gives the honest upper size for the output span"               *)
(* (src/include/polliwog/squeeze.hpp), for every container.                *)
(***************************************************************************)
SqueezeIsComplete == CompleteFor(Formats)
=============================================================================
