------------------------------ MODULE ZstdDCtx ------------------------------
(***************************************************************************)
(* ZSTD_decompressStream(), external to the repository, as                 *)
(* src/detail/zstd.cpp uses it.  A context x records the units it has read *)
(* of the current frame (`seen'), and up to which symbol of the stream it  *)
(* has decoded and written (total_out): a block is decoded, into a buffer  *)
(* of the context, when its last unit is there, and written as the output  *)
(* allows.  When a frame is decoded but not all written, its last unit is  *)
(* handed back (stage "hostage") and taken once everything is out.  After  *)
(* a frame the context waits for the next one.                             *)
(***************************************************************************)
EXTENDS Wire

\* Calls in a row that may move nothing: ZSTD_NO_FORWARD_PROGRESS_MAX.
CONSTANT IdleMax
ASSUME IdleMaxAssumption == IdleMax \in Nat \ {0}

DCtx == [stage : {"start", "frame", "hostage", "bad"}, seen : Seq(Unit),
         decoded : Nat, total_out : Nat, idle : 0 .. IdleMax]

createDCtx == [stage |-> "start", seen |-> <<>>, decoded |-> 0, total_out |-> 0, idle |-> 0]

\* No more than the output of m units can take.
Fitting(x, e, m) == IF e <= x.total_out + m THEN e ELSE x.total_out + m

\* Reading goes no further than the end of a frame or the first damage.
Stop(s, k) == k = Len(s) \/ s[k].kind \in {"last", "bad"}

Readable(s, from) ==
    {k \in from .. Len(s) : \A i \in from + 1 .. k - 1 : s[i].kind \notin {"last", "bad"}}

\* What a call can do with the units w and m units of output: read up to unit
\* k of s and have e symbols decoded.  It stops earlier than it must only
\* when the output is full.
Decodings(x, s, m) ==
    LET from == Len(x.seen)
    IN  {c \in [k : Readable(s, from), e : x.decoded .. Upto(s)] :
            /\ c.e <= Upto(SubSeq(s, 1, c.k))
            /\ c.k = from => c.e = x.decoded
            /\ x.decoded > x.total_out + m => c.k = from
            /\ (c.k = from \/ ~Stop(s, c.k)) /\ c.k < Len(s) => c.e > x.total_out + m
            /\ c.k > from /\ s[c.k].kind = "last" => c.e = s[c.k].upto}

\* The context after a call, or between two frames when nothing remains of one.
After(y, remaining, idle) ==
    IF remaining = 0 THEN createDCtx ELSE [y EXCEPT !.idle = idle]

\* A call that read pos units and left the context y; `remaining' is 0 when the
\* frame is complete.  Too many calls that move nothing are an error when they
\* had no input or no room.
Step(x, y, pos, remaining, poor) ==
    LET out == y.total_out - x.total_out
        moved == Len(y.seen) > Len(x.seen) \/ out > 0
        idle == IF moved THEN 0 ELSE IF x.idle < IdleMax THEN x.idle + 1 ELSE IdleMax
    IN  IF idle = IdleMax /\ poor
        THEN [error |-> TRUE, pos |-> 0, outpos |-> 0, remaining |-> 1,
              x |-> [x EXCEPT !.idle = idle]]
        ELSE [error |-> FALSE, pos |-> pos, outpos |-> out, remaining |-> remaining,
              x |-> After(y, remaining, idle)]

Failed(x) == [error |-> TRUE, pos |-> 0, outpos |-> 0, remaining |-> 1,
              x |-> [x EXCEPT !.stage = "bad"]]

\* The frame is decoded: write on, and take the last unit when nothing is left.
Release(x, w, m) ==
    LET out == Fitting(x, x.decoded, m)
        free == IF out = x.decoded /\ w # <<>> THEN 1 ELSE 0
    IN  Step(x, [x EXCEPT !.total_out = out], free, 1 - free, w = <<>> \/ m = 0)

Read(x, s, w, m, c) ==
    LET out == Fitting(x, c.e, m)
        read == c.k - Len(x.seen)
        ended == read > 0 /\ s[c.k].kind = "last"
        hostage == ended /\ out < c.e
        y == [x EXCEPT !.stage = IF hostage THEN "hostage" ELSE "frame",
                       !.seen = SubSeq(s, 1, c.k), !.decoded = c.e, !.total_out = out]
    IN  IF read > 0 /\ s[c.k].kind = "bad" THEN Failed(x)
        ELSE Step(x, y, IF hostage THEN read - 1 ELSE read,
                  IF ended /\ ~hostage THEN 0 ELSE 1, w = <<>> \/ m = 0)

\* A frame begins with its header, at the symbol the ones before it end at.
Begin(w) == [createDCtx EXCEPT !.decoded = w[1].upto, !.total_out = w[1].upto]

Reads(x, w, m) == {Read(x, x.seen \o w, w, m, d) : d \in Decodings(x, x.seen \o w, m)}

\* The set of outcomes of ZSTD_decompressStream(x, m units of output, the units
\* w of container c).
decompressStream(x, c, w, m) ==
    CASE x.stage = "bad" -> {Failed(x)}
      [] x.stage = "hostage" -> {Release(x, w, m)}
      [] x.stage = "frame" -> Reads(x, w, m)
      [] OTHER -> IF w = <<>>
                  THEN {[error |-> FALSE, pos |-> 0, outpos |-> 0, remaining |-> 1, x |-> x]}
                  ELSE IF c # "zstd" \/ w[1].kind # "hdr" THEN {Failed(x)}
                  ELSE Reads(Begin(w), w, m)
=============================================================================
