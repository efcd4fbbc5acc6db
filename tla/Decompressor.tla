---------------------------- MODULE Decompressor ----------------------------
(***************************************************************************)
(* polliwog::decompressor (src/stream.cpp): the streaming decompressor and *)
(* the caller's view of it.                                                *)
(*                                                                         *)
(* The caller has compressed bytes from somewhere, gives a part of them to *)
(* each push, and gives again what was not consumed.  It keeps what the    *)
(* calls reported: the units consumed, the symbols produced, whether the   *)
(* end or an error was reported, and the last call with its result.        *)
(***************************************************************************)
EXTENDS ZlibSweller, ZstdSweller

CONSTANTS
    Compiled,    \* the backends compiled in: POLLIWOG_HAS_ZLIB, POLLIWOG_HAS_ZSTD
    Readers,     \* the formats callers construct a decompressor for
    Arriving,    \* the containers of the bytes they have
    MaxSource,   \* bound: symbols in a stream
    MaxIn,       \* bound: units offered by one push
    MaxOut       \* bound: symbols of an output span

ASSUME DecompressorAssumption ==
    /\ Compiled \subseteq {"zlib", "zstd"}
    /\ Readers \subseteq Formats /\ Arriving \subseteq Formats
    /\ MaxSource \in Nat /\ MaxIn \in Nat /\ MaxOut \in Nat

VARIABLES
    fmt,       \* the format the decompressor was constructed for
    handle,    \* impl::handle
    stream,    \* the caller's bytes: their container and their units
    fed,       \* units the caller was told were consumed
    got,       \* symbols the caller was told were produced
    told,      \* what the caller was told of the stream: "done", "corrupt"
    last       \* the last call: its name, its arguments, its result

vars == <<fmt, handle, stream, fed, got, told, last>>

(***************************************************************************)
(* sweller_variant and make_sweller.                                       *)
(***************************************************************************)
NoHandle == [alt |-> "none"]
ZlibHandle(z) == [alt |-> "zlib_sweller", z |-> z]
ZstdHandle(x) == [alt |-> "zstd_sweller", x |-> x]
StubHandle == [alt |-> "stub"]

make_sweller(f) ==
    IF f = "zstd"
    THEN IF "zstd" \in Compiled THEN ZstdHandle(createDCtx) ELSE StubHandle
    ELSE IF "zlib" \in Compiled THEN ZlibHandle(zlib_sweller(f)) ELSE StubHandle

push_visitor_NeverDone(h, c, w, out) ==    \* mutant: done is dropped, as for squeezers
    CASE h.alt = "zlib_sweller" ->
            {[h |-> ZlibHandle(o.z), r |-> [o.r EXCEPT !.done = FALSE]] :
                o \in zlib_sweller_push_more(h.z, c, w, out)}
      [] h.alt = "zstd_sweller" ->
            {[h |-> ZstdHandle(o.x), r |-> [o.r EXCEPT !.done = FALSE]] :
                o \in zstd_sweller_push_more(h.x, c, w, out)}
      [] OTHER -> {[h |-> h, r |-> Unexpected("format_mismatch")]}

push_visitor(h, c, w, out) ==
    CASE h.alt = "zlib_sweller" ->
            {[h |-> ZlibHandle(o.z), r |-> o.r] : o \in zlib_sweller_push_more(h.z, c, w, out)}
      [] h.alt = "zstd_sweller" ->
            {[h |-> ZstdHandle(o.x), r |-> o.r] : o \in zstd_sweller_push_more(h.x, c, w, out)}
      [] OTHER -> {[h |-> h, r |-> Unexpected("format_mismatch")]}
-----------------------------------------------------------------------------
(***************************************************************************)
(* The bytes.  A stream of n symbols has blocks that end anywhere and its  *)
(* end packed into the last of them or alone.  On the way a unit can be    *)
(* damaged; after it there can be stray bytes or a second stream.  A       *)
(* stream that is cut short is one whose rest is never pushed.             *)
(***************************************************************************)
BlockEnds(n) ==
    {e \in UNION {[1 .. k -> 1 .. n] : k \in 1 .. n} :
        e[Len(e)] = n /\ \A i, j \in DOMAIN e : i < j => e[i] < e[j]}

Units(k, ends) == [i \in DOMAIN ends |-> [kind |-> k, upto |-> ends[i]]]

Bodies(n) ==
    IF n = 0 THEN {Units("last", <<0>>)}
    ELSE {Units("blk", e) \o Units("last", <<n>>) : e \in BlockEnds(n)}
         \cup {[Units("blk", e) EXCEPT ![Len(e)].kind = "last"] : e \in BlockEnds(n)}

Compressed(c, n) ==
    {Units("hdr", [i \in 1 .. HdrLen(c) |-> 0]) \o b \o Units("tail", [i \in 1 .. TailLen(c) |-> n]) :
        b \in Bodies(n)}

Damaged(w) == {[w EXCEPT ![i] = [kind |-> "bad", upto |-> Upto(SubSeq(w, 1, i - 1))]] : i \in DOMAIN w}

Shifted(w) == [i \in DOMAIN w |-> [w[i] EXCEPT !.upto = @ + Upto(w)]]

OnTheWay(w) == {w, Grow(w, "bad"), w \o Shifted(w)} \cup Damaged(w)
-----------------------------------------------------------------------------
NoStream == [c |-> "none", w |-> <<>>]
NoCall == [op |-> "none", n |-> 0, out |-> [size |-> 0, data |-> "null"],
           r |-> Progress(0, 0, FALSE)]

Init ==
    /\ fmt = "none" /\ handle = NoHandle /\ stream = NoStream
    /\ fed = 0 /\ got = 0 /\ told = {} /\ last = NoCall

\* decompressor::decompressor, for bytes of container c.  A zlib stream is not
\* read as raw deflate: its header could be that of a stored block.
Construct(f, c) ==
    /\ handle = NoHandle
    /\ ~(c = "zlib" /\ f = "raw_deflate")
    /\ fmt' = f /\ handle' = make_sweller(f)
    /\ \E n \in 0 .. MaxSource : \E w \in Compressed(c, n) :
           \E v \in OnTheWay(w) : stream' = [c |-> c, w |-> v]
    /\ last' = [NoCall EXCEPT !.op = "construct"]
    /\ UNCHANGED <<fed, got, told>>

\* zlib refuses an output span without an address, without a look at the stream.
Refusable(out) == out.data = "null" /\ handle.alt = "zlib_sweller"

\* The caller's record of what a push told it of the stream; that a span has no
\* address is no news of it.
News(out, r) ==
    (IF r.kind = "ok" /\ r.done THEN {"done"} ELSE {})
    \cup (IF r.kind = "stream_corrupt" /\ ~Refusable(out) THEN {"corrupt"} ELSE {})

\* decompressor::push of the next n units.  zstd leaves open what a context does
\* after an error, so no more is asked of it.
push(n, out) ==
    /\ handle # NoHandle
    /\ handle.alt = "zstd_sweller" => handle.x.stage # "bad"
    /\ n <= Len(stream.w) - fed
    /\ \E o \in push_visitor(handle, stream.c, SubSeq(stream.w, fed + 1, fed + n), out) :
        /\ handle' = o.h
        /\ fed' = fed + o.r.in
        /\ got' = got + o.r.out
        /\ told' = told \cup News(out, o.r)
        /\ last' = [op |-> "push", n |-> n, out |-> out, r |-> o.r]
    /\ UNCHANGED <<fmt, stream>>

\* ~decompressor: the handle and the engine's state go.
Destroy ==
    /\ handle # NoHandle
    /\ fmt' = "none" /\ handle' = NoHandle /\ stream' = NoStream
    /\ fed' = 0 /\ got' = 0 /\ told' = {} /\ last' = NoCall

Next ==
    \/ \E f \in Readers, c \in Arriving : Construct(f, c)
    \/ \E n \in 0 .. MaxIn, out \in Spans(MaxOut) : push(n, out)
    \/ Destroy

Spec == Init /\ [][Next]_vars
-----------------------------------------------------------------------------
(***************************************************************************)
(* Properties.                                                             *)
(***************************************************************************)
AnyHandle ==
    {NoHandle, StubHandle}
    \cup [alt : {"zlib_sweller"}, z : InflateStream] \cup [alt : {"zstd_sweller"}, x : DCtx]

\* The type invariant of the object and of the caller's records.
TypeOK ==
    /\ fmt \in Formats \cup {"none"}
    /\ handle \in AnyHandle
    /\ stream \in [c : Formats \cup {"none"}, w : Seq(Unit)]
    /\ fed \in Nat /\ got \in Nat
    /\ told \subseteq {"done", "corrupt"}
    /\ last \in [op : {"none", "construct", "push"}, n : Nat, out : AnySpan, r : Result]

Zlib == handle.alt = "zlib_sweller"
Zstd == handle.alt = "zstd_sweller"

\* The symbols in the first k units, and where a stream in the bytes ends.
Content(k) == Upto(SubSeq(stream.w, 1, k))
StreamEnds == Ends(stream.c, stream.w)

Ok == last.op = "push" /\ last.r.kind = "ok"

\* The last call had room in its output span after what it reported.
RoomLeft == last.r.out < last.out.size /\ last.r.out < uInt(last.out.size)

(***************************************************************************)
(* What was delivered is the content of what was consumed, and no more is  *)
(* consumed than there was.  While no error has been reported the symbols  *)
(* never run ahead of the units, except those of a zstd frame's last unit, *)
(* which is consumed when they are all out; and a zlib push that leaves    *)
(* room has delivered everything that is in the units consumed, however    *)
(* little room the pushes before it had.                                   *)
(***************************************************************************)
DeliversWhatItConsumed ==
    "corrupt" \notin told =>
        /\ fed <= Len(stream.w)
        /\ got <= Content(IF Zstd /\ fed < Len(stream.w) THEN fed + 1 ELSE fed)
        /\ Zlib /\ Ok /\ RoomLeft => got = Content(fed)

(***************************************************************************)
(* done is never early: a push that reports it has consumed the bytes to   *)
(* exactly the end of a stream, and all of its symbols have been produced, *)
(* whatever was pending in the engine (bytes_produced and done of          *)
(* stream_result, from ret == 0 and Z_STREAM_END).                         *)
(***************************************************************************)
DoneMeansDelivered ==
    Ok /\ last.r.done => fed \in StreamEnds /\ got = Content(fed)

(***************************************************************************)
(* done is never missed: a caller that has consumed a stream to its end    *)
(* and holds all of its symbols was told so, in a push that had to be made *)
(* for it.  A loop that ends on done then ends.                            *)
(***************************************************************************)
EndIsTold ==
    /\ fed \in StreamEnds /\ got = Content(fed)
    /\ "corrupt" \notin told
    => "done" \in told

(***************************************************************************)
(* Nothing follows the end of a zlib, gzip or raw deflate stream, nor an   *)
(* error in it: no sequence of pushes consumes or produces more, and after *)
(* an error none succeeds.  (zstd decodes a next frame.)                   *)
(***************************************************************************)
EndsAndErrorsStay ==
    [][Zlib /\ told # {} /\ last'.op = "push" =>
        /\ fed' = fed /\ got' = got
        /\ "corrupt" \in told => last'.r.kind = "stream_corrupt"]_vars

(***************************************************************************)
(* Sound bytes are not refused: a push of undamaged units of the expected  *)
(* container into a span with an address succeeds, in whatever portions    *)
(* the bytes come and the symbols go; except that zstd gives up on a       *)
(* stream after IdleMax pushes in a row that moved nothing, of which the   *)
(* last had no input or no room.                                           *)
(***************************************************************************)
Sound(k, n) ==
    /\ handle.alt \in {"zlib_sweller", "zstd_sweller"}
    /\ stream.c = (IF Zlib THEN handle.z.fmt ELSE "zstd")
    /\ \A i \in 1 .. k + n : stream.w[i].kind # "bad" /\ (i \in StreamEnds => i = k + n)

SoundBytesAccepted ==
    [][/\ last'.op = "push" /\ last'.r.kind # "ok" /\ ~Refusable(last'.out)
       /\ "corrupt" \notin told /\ Sound(fed, last'.n)
       => Zstd /\ handle'.x.idle = IdleMax /\ (last'.n = 0 \/ last'.out.size = 0)]_vars

(***************************************************************************)
(* A push of some bytes into some room that reports neither an error nor   *)
(* the end gets somewhere, also when an engine has to be given its last    *)
(* byte again, and when zlib sees the sizes of the spans modulo 2^32 but   *)
(* not as 0: a loop around push cannot spin.                               *)
(***************************************************************************)
PushProgress ==
    Ok /\ uInt(last.n) > 0 /\ uInt(last.out.size) > 0 /\ ~last.r.done
    => last.r.in + last.r.out > 0
=============================================================================
