----------------------------- MODULE Compressor -----------------------------
(***************************************************************************)
(* polliwog::compressor (src/stream.cpp): the streaming compressor and the *)
(* caller's view of it.                                                    *)
(*                                                                         *)
(* The object is the requested format and the handle its pimpl holds, one  *)
(* alternative of squeezer_variant.  The caller keeps what the calls       *)
(* reported: how many symbols were accepted, the units it collected from   *)
(* its output buffers, and the last call with its result.                  *)
(***************************************************************************)
EXTENDS ZlibSqueezer, ZstdSqueezer

CONSTANTS
    Compiled,    \* the backends compiled in: POLLIWOG_HAS_ZLIB, POLLIWOG_HAS_ZSTD
    Requests,    \* the formats callers construct a compressor for
    Levels,      \* the zlib_level values they pass
    MaxIn,       \* bound: symbols offered by one push
    MaxOut,      \* bound: units of an output span
    MaxSource,   \* bound: symbols accepted by one compressor
    MaxFrame     \* bound: a compressor is called while its engine has
                 \* generated at most this many units

ASSUME CompressorAssumption ==
    /\ Compiled \subseteq {"zlib", "zstd"}
    /\ Requests \subseteq Formats
    /\ Levels \subseteq Int
    /\ MaxIn \in Nat /\ MaxOut \in Nat /\ MaxSource \in Nat /\ MaxFrame \in Nat

VARIABLES
    fmt,        \* the format the compressor was constructed for
    handle,     \* impl::handle
    accepted,   \* symbols the caller was told were consumed
    wire,       \* units the caller was told were produced
    last        \* the last call: its name, its arguments, its result

vars == <<fmt, handle, accepted, wire, last>>

(***************************************************************************)
(* squeezer_variant and make_squeezer.                                     *)
(***************************************************************************)
NoHandle == [alt |-> "none"]
ZlibHandle(z) == [alt |-> "zlib_squeezer", z |-> z]
ZstdHandle(x) == [alt |-> "zstd_squeezer", x |-> x]
StubHandle == [alt |-> "stub"]

make_squeezer_NoStub(f) ==    \* mutant: a missing zstd takes the default
    IF f = "zstd" /\ "zstd" \in Compiled THEN ZstdHandle(createCCtx)
    ELSE IF "zlib" \in Compiled THEN ZlibHandle(zlib_squeezer(f)) ELSE StubHandle

make_squeezer(f) ==
    IF f = "zstd"
    THEN IF "zstd" \in Compiled THEN ZstdHandle(createCCtx) ELSE StubHandle
    ELSE IF "zlib" \in Compiled THEN ZlibHandle(zlib_squeezer(f)) ELSE StubHandle

\* What a visit leaves: the handle and the result.
OnZlib(outcomes) == {[h |-> ZlibHandle(o.z), r |-> o.r] : o \in outcomes}
OnZstd(outcomes) == {[h |-> ZstdHandle(o.x), r |-> o.r] : o \in outcomes}
OnStub(h) == {[h |-> h, r |-> Unexpected("format_mismatch")]}

\* A visitor passes a success on with its own `done'.
WithDone(outcomes, done) ==
    {[h |-> o.h, r |-> IF o.r.kind = "ok" THEN Progress(o.r.in, o.r.out, done) ELSE o.r] :
        o \in outcomes}

push_visitor(h, n, out) == WithDone(
    CASE h.alt = "zlib_squeezer" -> OnZlib(zlib_push_more(h.z, n, out))
      [] h.alt = "zstd_squeezer" -> OnZstd(zstd_push_more(h.x, n, out))
      [] OTHER -> OnStub(h), FALSE)

flush_visitor(h, out) == WithDone(
    CASE h.alt = "zlib_squeezer" -> OnZlib(zlib_flush(h.z, out))
      [] h.alt = "zstd_squeezer" -> OnZstd(zstd_flush(h.x, out))
      [] OTHER -> OnStub(h), FALSE)

finish_visitor(h, out) == WithDone(
    CASE h.alt = "zlib_squeezer" -> OnZlib(zlib_finish(h.z, out))
      [] h.alt = "zstd_squeezer" -> OnZstd(zstd_finish(h.x, out))
      [] OTHER -> OnStub(h), TRUE)

(***************************************************************************)
(* The caller.  A span of `size' units was filled from its start with the  *)
(* engine's next units; the caller keeps as many as it was told of.        *)
(***************************************************************************)
Frame(h) == CASE h.alt = "zlib_squeezer" -> h.z.frame
              [] h.alt = "zstd_squeezer" -> h.x.frame
              [] OTHER -> <<>>
Written(h) == CASE h.alt = "zlib_squeezer" -> h.z.total_out
                [] h.alt = "zstd_squeezer" -> h.x.flushed
                [] OTHER -> 0
Taken(h) == CASE h.alt = "zlib_squeezer" -> h.z.total_in
              [] h.alt = "zstd_squeezer" -> h.x.consumed
              [] OTHER -> 0

NoCall == [op |-> "none", n |-> 0, out |-> [size |-> 0, data |-> "null"],
           r |-> Progress(0, 0, FALSE)]

Init ==
    /\ fmt = "none"
    /\ handle = NoHandle
    /\ accepted = 0
    /\ wire = <<>>
    /\ last = NoCall

\* compressor::compressor: a level outside 0-9 throws, except for zstd.
Construct(f, lvl) ==
    /\ handle = NoHandle
    /\ IF f # "zstd" /\ lvl \notin 0 .. 9
       THEN /\ last' = [NoCall EXCEPT !.op = "construct", !.r = Unexpected("throws")]
            /\ UNCHANGED <<fmt, handle, accepted, wire>>
       ELSE /\ fmt' = f
            /\ handle' = make_squeezer(f)
            /\ accepted' = 0
            /\ wire' = <<>>
            /\ last' = [NoCall EXCEPT !.op = "construct"]

\* A call returned outcome o: handle and result.
Return(op, n, out, o) ==
    /\ handle' = o.h
    /\ accepted' = accepted + o.r.in
    /\ wire' = wire \o SubSeq(Frame(o.h), Written(handle) + 1, Written(handle) + o.r.out)
    /\ last' = [op |-> op, n |-> n, out |-> out, r |-> o.r]
    /\ UNCHANGED fmt

Live == handle # NoHandle /\ Len(Frame(handle)) <= MaxFrame

push(n, out) ==
    /\ Live /\ accepted + n <= MaxSource
    /\ \E o \in push_visitor(handle, n, out) : Return("push", n, out, o)

flush(out) ==
    /\ Live
    /\ \E o \in flush_visitor(handle, out) : Return("flush", 0, out, o)

finish(out) ==
    /\ Live
    /\ \E o \in finish_visitor(handle, out) : Return("finish", 0, out, o)

\* ~compressor: the handle and the engine's state go.
Destroy ==
    /\ handle # NoHandle
    /\ fmt' = "none" /\ handle' = NoHandle /\ accepted' = 0
    /\ wire' = <<>> /\ last' = NoCall

Next ==
    \/ \E f \in Requests, lvl \in Levels : Construct(f, lvl)
    \/ \E n \in 0 .. MaxIn, out \in Spans(MaxOut) : push(n, out)
    \/ \E out \in Spans(MaxOut) : flush(out)
    \/ \E out \in Spans(MaxOut) : finish(out)
    \/ Destroy

Spec == Init /\ [][Next]_vars
-----------------------------------------------------------------------------
(***************************************************************************)
(* Properties.                                                             *)
(***************************************************************************)
AnyHandle ==
    {NoHandle, StubHandle}
    \cup [alt : {"zlib_squeezer"}, z : ZStream] \cup [alt : {"zstd_squeezer"}, x : CCtx]

Call == [op : {"none", "construct", "push", "flush", "finish"}, n : Nat,
         out : AnySpan, r : Result]

\* The type invariant of the object and of the caller's records.
TypeOK ==
    /\ fmt \in Formats \cup {"none"}
    /\ handle \in AnyHandle
    /\ accepted \in Nat
    /\ wire \in Seq(Unit)
    /\ last \in Call

\* The container on the wire, whatever the caller asked for.
Container == CASE handle.alt = "zlib_squeezer" -> handle.z.fmt
               [] handle.alt = "zstd_squeezer" -> "zstd"
               [] OTHER -> "none"

Ok(op) == last.op = op /\ last.r.kind = "ok"

\* The last call reported fewer units than the output span had, in the width
\* the backend passes on.
RoomLeft == last.r.out < last.out.size /\ last.r.out < uInt(last.out.size)

(***************************************************************************)
(* Nothing is lost, duplicated or reordered between the engine and the     *)
(* caller: the bytes_consumed and bytes_produced of every push, flush and  *)
(* finish, failed ones included, add up to what the engine read and to the *)
(* stream it wrote.  A call that moved data and then reports an error, or  *)
(* a count since construction in place of one since the call, breaks it.   *)
(***************************************************************************)
NoLossNoDuplication ==
    /\ accepted = Taken(handle)
    /\ wire = SubSeq(Frame(handle), 1, Written(handle))

(***************************************************************************)
(* After a flush that left room in its output span the receiver can decode *)
(* everything that was accepted, whatever was pending in the engine from   *)
(* earlier calls; on a zlib stream the wire then ends with the sync marker *)
(* (src/include/polliwog/stream.hpp, "flush emits a zlib sync marker").    *)
(***************************************************************************)
FlushCovers ==
    Ok("flush") /\ RoomLeft =>
        /\ Upto(wire) = accepted
        /\ handle.alt = "zlib_squeezer" => wire[Len(wire)].kind = "sync"

(***************************************************************************)
(* After a finish that left room in its output span the wire is a complete *)
(* stream of everything accepted, trailer included, however many earlier   *)
(* calls to push, flush and finish ran out of output in the middle.        *)
(***************************************************************************)
FinishCloses ==
    Ok("finish") /\ RoomLeft => Complete(Container, wire) /\ Upto(wire) = accepted

(***************************************************************************)
(* A caller that pushes a non-empty span into a non-empty output span and  *)
(* gets no error gets somewhere: a chunk loop around push cannot spin.     *)
(* zlib sees the sizes modulo 2^32: a multiple of it is as good as empty.  *)
(***************************************************************************)
PushProgress ==
    Ok("push") /\ uInt(last.n) > 0 /\ uInt(last.out.size) > 0
    => last.r.in + last.r.out > 0

(***************************************************************************)
(* For the zlib family the compressor implements StreamContract: the       *)
(* receiver's view only grows, never beyond what the reports add up to,    *)
(* the stream ends with everything decodable, and once it is complete on   *)
(* the wire no sequence of further calls adds to it or takes more input    *)
(* (finish can be repeated, push and flush are refused).                   *)
(***************************************************************************)
Contract == INSTANCE StreamContract WITH
    src <- accepted, out <- Upto(wire),
    phase <- IF handle = NoHandle THEN "none"
             ELSE IF Complete(Container, wire) THEN "ended" ELSE "open"

ImplementsContract == Contract!CSpec

(***************************************************************************)
(* "a format whose backend is not compiled in fails at the call with       *)
(* format_mismatch rather than pretending the option exists"               *)
(* (src/include/polliwog/format.hpp), for every streaming call.            *)
(***************************************************************************)
Served == (IF "zlib" \in Compiled THEN ZlibFormats ELSE {})
          \cup (IF "zstd" \in Compiled THEN ZstdFormats ELSE {})

MissingBackendFails ==
    fmt \notin Served /\ last.op \in {"push", "flush", "finish"}
    => last.r.kind = "format_mismatch"

(***************************************************************************)
(* "finish ends the stream and emits the trailer"                          *)
(* (src/include/detail/backend.hpp): a finish that reports done has ended  *)
(* the stream.                                                             *)
(***************************************************************************)
DoneMeansComplete ==
    Ok("finish") /\ last.r.done => Complete(Container, wire)
=============================================================================
