------------------------------ MODULE ZstdCCtx ------------------------------
(***************************************************************************)
(* ZSTD_compressStream2(), external to the repository, as                  *)
(* src/detail/zstd.cpp uses it.  A context x records the units generated   *)
(* so far, over all its frames (`frame'; those beyond flushed are pending  *)
(* in its output buffer), and how many symbols it consumed.  A frame ends  *)
(* with its "last" unit; once that is flushed the session is reset and the *)
(* next operation opens a new frame.                                       *)
(***************************************************************************)
EXTENDS Wire

\* Whether the allocation of the context's buffers, on first use, can fail.
CONSTANT AllocFails
ASSUME AllocFailsAssumption == AllocFails \in BOOLEAN

CCtx == [frame : Seq(Unit), consumed : Nat, flushed : Nat]

createCCtx == [frame |-> <<>>, consumed |-> 0, flushed |-> 0]

ToFlush(x) == Len(x.frame) - x.flushed

Ended(f) == f = <<>> \/ f[Len(f)].kind = "last"

\* Write the frame header, before the first block of a frame.
Opened(f) == IF Ended(f) THEN Grow(f, "hdr") ELSE f

\* Copy up to m units out; input.pos, output.pos and the return value:
\* what remains to be flushed.
Drain(x, f, t, m) ==
    LET out == IF Len(f) <= x.flushed + m THEN Len(f) ELSE x.flushed + m
    IN  [error |-> FALSE, pos |-> t, outpos |-> out - x.flushed,
         remaining |-> Len(f) - out,
         x |-> [frame |-> f, consumed |-> x.consumed + t, flushed |-> out]]

\* Compress the buffered symbols up to e, as blocks of u units of the frame.
Blocks(x, e, u) ==
    IF e > Upto(x.frame) THEN GrowBlock(Opened(x.frame), e, u, "blk") ELSE x.frame

\* What a call is free to choose: to buffer t of n symbols, and to have e
\* encoded in u units.  A flush or an end encodes everything, and "continue"
\* stops before the end of its input only once the output is full.
Bufferings(x, op, n, m) ==
    {c \in [t : 0 .. n, e : Upto(x.frame) .. x.consumed + n, u : Spread \cup {1}] :
        /\ c.e <= x.consumed + c.t
        /\ c.u \in BlockSizes(x.frame, c.e)
        /\ n > 0 => c.t > 0
        /\ op # "continue" => c.t = n /\ c.e = x.consumed + c.t
        /\ Len(Blocks(x, c.e, c.u)) < x.flushed + m => c.t = n}

Encoded(x, op, c) ==
    IF op = "end" THEN Grow(Opened(Blocks(x, c.e, c.u)), "last") ELSE Blocks(x, c.e, c.u)

\* The set of outcomes of ZSTD_compressStream2(x, out of m units, n symbols, op).
compressStream2(x, op, n, m) ==
    (IF AllocFails /\ x.frame = <<>> /\ x.consumed = 0
     THEN {[error |-> TRUE, pos |-> 0, outpos |-> 0, remaining |-> 0, x |-> x]}
     ELSE {})
    \cup
    (IF ToFlush(x) > m \/ (ToFlush(x) > 0 /\ Ended(x.frame))
     THEN {Drain(x, x.frame, 0, m)}
     ELSE {Drain(x, Encoded(x, op, c), c.t, m) : c \in Bufferings(x, op, n, m)})
=============================================================================
