-------------------------- MODULE CompressorProofs --------------------------
(***************************************************************************)
(* Machine-checked theorems about the streaming compressor, for every      *)
(* value of its constants: what is counted, what flush, finish and push    *)
(* achieve, and the contract the zlib family implements.                   *)
(***************************************************************************)
EXTENDS Compressor, DeflateProofs
-----------------------------------------------------------------------------
(***************************************************************************)
(* What a call of ZSTD_compressStream2 preserves.                          *)
(***************************************************************************)
XShape(x) == x.flushed <= Len(x.frame)

XStep(x, s) ==
    /\ s.x \in CCtx /\ XShape(s.x)
    /\ s.error => s.x = x
    /\ ~s.error => /\ s.pos \in Nat /\ s.x.consumed = x.consumed + s.pos
                   /\ s.outpos \in Nat /\ s.x.flushed = x.flushed + s.outpos
    /\ Extends(s.x.frame, x.frame)

LEMMA DrainStep ==
    ASSUME NEW x \in CCtx, XShape(x), NEW f \in Seq(Unit), Extends(f, x.frame),
           NEW t \in Nat, NEW m \in Nat
    PROVE  XStep(x, Drain(x, f, t, m))
<1> DEFINE out == IF Len(f) <= x.flushed + m THEN Len(f) ELSE x.flushed + m
           y == [frame |-> f, consumed |-> x.consumed + t, flushed |-> out]
<1>1. x.flushed \in Nat /\ x.consumed \in Nat
    BY DEF CCtx
<1>2. out \in Nat /\ out - x.flushed \in Nat /\ out <= Len(f)
    BY <1>1 DEF XShape, Extends
<1>3. Drain(x, f, t, m) = [error |-> FALSE, pos |-> t, outpos |-> out - x.flushed,
                           remaining |-> Len(f) - out, x |-> y]
    BY DEF Drain
<1> HIDE DEF out
<1>4. y \in CCtx /\ XShape(y)
    BY <1>1, <1>2 DEF CCtx, XShape
<1>5. x.flushed + (out - x.flushed) = out
    BY <1>1, <1>2
<1> QED BY <1>2, <1>3, <1>4, <1>5 DEF XStep

LEMMA EncodedType ==
    ASSUME NEW x \in CCtx, NEW op, NEW c, c.e \in Nat, c.u \in Nat \ {0}
    PROVE  Encoded(x, op, c) \in Seq(Unit) /\ Extends(Encoded(x, op, c), x.frame)
<1>1. x.frame \in Seq(Unit)
    BY DEF CCtx
<1>2. ASSUME NEW f \in Seq(Unit)
      PROVE  Opened(f) \in Seq(Unit) /\ Extends(Opened(f), f)
    BY <1>2, GrowType, ExtendsReflexive DEF Opened
<1>3. Blocks(x, c.e, c.u) \in Seq(Unit) /\ Extends(Blocks(x, c.e, c.u), x.frame)
    <2>1. CASE c.e > Upto(x.frame)
        <3>1. Opened(x.frame) \in Seq(Unit) /\ Extends(Opened(x.frame), x.frame)
            BY <1>1, <1>2
        <3>2. /\ GrowBlock(Opened(x.frame), c.e, c.u, "blk") \in Seq(Unit)
              /\ Extends(GrowBlock(Opened(x.frame), c.e, c.u, "blk"), Opened(x.frame))
            BY <3>1, GrowBlockType
        <3>3. Extends(GrowBlock(Opened(x.frame), c.e, c.u, "blk"), x.frame)
            BY <3>1, <3>2, <1>1, ExtendsTransitive
        <3> QED BY <2>1, <3>2, <3>3 DEF Blocks
    <2>2. CASE ~(c.e > Upto(x.frame))
        BY <2>2, <1>1, ExtendsReflexive DEF Blocks
    <2> QED BY <2>1, <2>2
<1>4. CASE op = "end"
    <2>1. Opened(Blocks(x, c.e, c.u)) \in Seq(Unit) /\ Extends(Opened(Blocks(x, c.e, c.u)), x.frame)
        BY <1>1, <1>2, <1>3, ExtendsTransitive
    <2> DEFINE b == Opened(Blocks(x, c.e, c.u))
    <2> HIDE DEF b
    <2>2. Grow(b, "last") \in Seq(Unit) /\ Extends(Grow(b, "last"), b)
        BY <2>1, GrowType DEF b
    <2>3. Extends(Grow(b, "last"), x.frame)
        BY <2>1, <2>2, <1>1, ExtendsTransitive DEF b
    <2> QED BY <1>4, <2>2, <2>3 DEF Encoded, b
<1>5. CASE op # "end"
    BY <1>5, <1>3 DEF Encoded
<1> QED BY <1>4, <1>5

LEMMA CompressStep ==
    ASSUME NEW x \in CCtx, XShape(x), NEW op, NEW n \in Nat, NEW m \in Nat,
           NEW s \in compressStream2(x, op, n, m)
    PROVE  XStep(x, s)
<1>1. x.frame \in Seq(Unit) /\ x.consumed \in Nat /\ Upto(x.frame) \in Nat
    BY UptoType DEF CCtx
<1>2. CASE s = [error |-> TRUE, pos |-> 0, outpos |-> 0, remaining |-> 0, x |-> x]
    BY <1>1, <1>2, ExtendsReflexive DEF XStep
<1>3. CASE s = Drain(x, x.frame, 0, m)
    BY <1>1, <1>3, DrainStep, ExtendsReflexive
<1>4. CASE \E c \in Bufferings(x, op, n, m) : s = Drain(x, Encoded(x, op, c), c.t, m)
    <2>1. PICK c \in Bufferings(x, op, n, m) : s = Drain(x, Encoded(x, op, c), c.t, m)
        BY <1>4
    <2>2. c.t \in 0 .. n /\ c.e \in Upto(x.frame) .. x.consumed + n
          /\ c.u \in Spread \cup {1}
        BY DEF Bufferings
    <2>3. c.t \in Nat /\ c.e \in Nat /\ c.u \in Nat \ {0}
        <3>1. c.t \in Nat
            BY <2>2
        <3>2. c.e \in Nat
            BY <1>1, <2>2
        <3>3. c.u \in Nat \ {0}
            BY <2>2, SpreadType
        <3> QED BY <3>1, <3>2, <3>3
    <2> QED BY <2>1, <2>3, DrainStep, EncodedType
<1>5. \/ s = [error |-> TRUE, pos |-> 0, outpos |-> 0, remaining |-> 0, x |-> x]
      \/ s = Drain(x, x.frame, 0, m)
      \/ \E c \in Bufferings(x, op, n, m) : s = Drain(x, Encoded(x, op, c), c.t, m)
    BY <1>1 DEF compressStream2
<1> QED BY <1>2, <1>3, <1>4, <1>5

-----------------------------------------------------------------------------
(***************************************************************************)
(* What a call of push, flush or finish does to the handle, and what it    *)
(* reports: every method of both squeezers makes an honest report.         *)
(***************************************************************************)
Shape(h) ==
    /\ h \in AnyHandle
    /\ h.alt = "zlib_squeezer" => ZShape(h.z)
    /\ h.alt = "zstd_squeezer" => XShape(h.x)

Honest(h, o) ==
    /\ Shape(o.h) /\ o.h.alt = h.alt
    /\ o.r \in Result
    /\ Taken(o.h) = Taken(h) + o.r.in
    /\ Written(o.h) = Written(h) + o.r.out
    /\ Extends(Frame(o.h), Frame(h))

LEMMA ResultTypes ==
    /\ \A i, o \in Nat, d \in BOOLEAN : Progress(i, o, d) \in Result
    /\ \A k \in Kinds \cup {"throws"} : Unexpected(k) \in Result
BY DEF Progress, Unexpected, Result, Kinds

LEMMA ReportHonest ==
    ASSUME NEW z \in ZStream, ZShape(z), NEW fl, NEW n \in Nat, NEW next_out,
           NEW m \in Nat, NEW d \in deflate(z, fl, n, next_out, m),
           NEW good, "OK" \in good, fl = "finish" => "STREAM_END" \in good,
           NEW done \in BOOLEAN
    PROVE  Honest(ZlibHandle(z), [h |-> ZlibHandle(Report(z, d, good, done).z),
                                  r |-> Report(z, d, good, done).r])
<1> DEFINE rep == Report(z, d, good, done)
           i == d.z.total_in - z.total_in
           o == d.z.total_out - z.total_out
<1>1. /\ ZStep(z, d.z)
      /\ d.ret \notin {"OK", "STREAM_END"} => d.z = z
      /\ d.ret = "STREAM_END" => fl = "finish"
    BY DeflateStep
<1>2. /\ i \in Nat /\ z.total_in + i = d.z.total_in
      /\ o \in Nat /\ z.total_out + o = d.z.total_out
    BY <1>1 DEF ZStep, ZStream
<1>3. rep.z = d.z
    BY DEF Report
<1>4. /\ rep.r \in Result
      /\ z.total_in + rep.r.in = d.z.total_in
      /\ z.total_out + rep.r.out = d.z.total_out
    <2>1. CASE d.ret \in good
        <3>1. rep.r = Progress(i, o, done)
            BY <2>1 DEF Report
        <3>2. rep.r.in = i /\ rep.r.out = o
            BY <3>1 DEF Progress
        <3> QED BY <1>2, <3>1, <3>2, ResultTypes
    <2>2. CASE d.ret \notin good
        <3>1. d.z = z
            BY <2>2, <1>1
        <3>2. rep.r = Unexpected("backend_failure")
            BY <2>2 DEF Report
        <3>3. rep.r.in = 0 /\ rep.r.out = 0
            BY <3>2 DEF Unexpected
        <3> QED BY <3>1, <3>2, <3>3, ResultTypes DEF Kinds, ZStream
    <2> QED BY <2>1, <2>2
<1> HIDE DEF rep, i, o
<1>5. Shape(ZlibHandle(rep.z))
    BY <1>1, <1>3 DEF ZStep, Shape, ZlibHandle, AnyHandle
<1> QED BY <1>1, <1>3, <1>4, <1>5
        DEF Honest, ZlibHandle, Taken, Written, Frame, ZStep, rep

LEMMA OutcomeHonest ==
    ASSUME NEW x \in CCtx, XShape(x), NEW op, NEW n \in Nat, NEW m \in Nat,
           NEW s \in compressStream2(x, op, n, m), NEW done \in BOOLEAN
    PROVE  Honest(ZstdHandle(x), [h |-> ZstdHandle(Outcome(s, done).x),
                                  r |-> Outcome(s, done).r])
<1> DEFINE rep == Outcome(s, done)
<1>1. XStep(x, s)
    BY CompressStep
<1>2. rep.x = s.x
    BY DEF Outcome
<1>3. /\ rep.r \in Result
      /\ x.consumed + rep.r.in = s.x.consumed
      /\ x.flushed + rep.r.out = s.x.flushed
    <2>1. CASE ~s.error
        <3>1. rep.r = Progress(s.pos, s.outpos, done)
            BY <2>1 DEF Outcome
        <3>2. rep.r.in = s.pos /\ rep.r.out = s.outpos
            BY <3>1 DEF Progress
        <3> QED BY <2>1, <1>1, <3>1, <3>2, ResultTypes DEF XStep
    <2>2. CASE s.error
        <3>1. rep.r = Unexpected("backend_failure") /\ s.x = x
            BY <2>2, <1>1 DEF Outcome, XStep
        <3>2. rep.r.in = 0 /\ rep.r.out = 0
            BY <3>1 DEF Unexpected
        <3> QED BY <3>1, <3>2, ResultTypes DEF Kinds, CCtx
    <2> QED BY <2>1, <2>2
<1> HIDE DEF rep
<1>4. Shape(ZstdHandle(rep.x))
    BY <1>1, <1>2 DEF XStep, Shape, ZstdHandle, AnyHandle
<1> QED BY <1>1, <1>2, <1>3, <1>4
        DEF Honest, ZstdHandle, Taken, Written, Frame, XStep, rep

\* The methods of the two squeezers.
LEMMA ZlibMethods ==
    ASSUME NEW z \in ZStream, ZShape(z), NEW n \in Nat, NEW out \in AnySpan,
           NEW o \in zlib_push_more(z, n, out) \cup zlib_flush(z, out) \cup zlib_finish(z, out)
    PROVE  Honest(ZlibHandle(z), [h |-> ZlibHandle(o.z), r |-> o.r])
<1>1. out.size \in Nat /\ uInt(out.size) \in Nat /\ uInt(n) \in Nat /\ uInt(0) \in Nat
    BY uIntType DEF AnySpan
<1>2. CASE o \in zlib_push_more(z, n, out)
    <2>1. PICK d \in deflate(z, "no", uInt(n), out.data, uInt(out.size)) :
              o = Report(z, d, {"OK", "BUF_ERROR"}, FALSE)
        BY <1>2 DEF zlib_push_more
    <2> DEFINE good == {"OK", "BUF_ERROR"}
               done == FALSE
    <2>2. "OK" \in good /\ "no" # "finish" /\ done \in BOOLEAN
        OBVIOUS
    <2> HIDE DEF good, done
    <2>3. Honest(ZlibHandle(z), [h |-> ZlibHandle(Report(z, d, good, done).z),
                                 r |-> Report(z, d, good, done).r])
        BY <1>1, <2>2, ReportHonest
    <2> QED BY <2>1, <2>3 DEF good, done
<1>3. CASE o \in zlib_flush(z, out)
    <2>1. PICK d \in deflate(z, "sync", 0, out.data, uInt(out.size)) :
              o = Report(z, d, {"OK", "BUF_ERROR"}, FALSE)
        BY <1>3 DEF zlib_flush
    <2> DEFINE good == {"OK", "BUF_ERROR"}
               done == FALSE
    <2>2. "OK" \in good /\ "sync" # "finish" /\ done \in BOOLEAN
        OBVIOUS
    <2> HIDE DEF good, done
    <2>3. Honest(ZlibHandle(z), [h |-> ZlibHandle(Report(z, d, good, done).z),
                                 r |-> Report(z, d, good, done).r])
        BY <1>1, <2>2, ReportHonest
    <2> QED BY <2>1, <2>3 DEF good, done
<1>4. CASE o \in zlib_finish(z, out)
    <2>1. PICK d \in deflate(z, "finish", uInt(0), out.data, uInt(out.size)) :
              o = Report(z, d, {"STREAM_END", "OK"}, d.ret = "STREAM_END")
        BY <1>4 DEF zlib_finish, zlib_push
    <2>2. (d.ret = "STREAM_END") \in BOOLEAN
        OBVIOUS
    <2> QED BY <1>1, <2>1, <2>2, ReportHonest
<1> QED BY <1>2, <1>3, <1>4

LEMMA ZstdMethods ==
    ASSUME NEW x \in CCtx, XShape(x), NEW n \in Nat, NEW out \in AnySpan,
           NEW o \in zstd_push_more(x, n, out) \cup zstd_flush(x, out) \cup zstd_finish(x, out)
    PROVE  Honest(ZstdHandle(x), [h |-> ZstdHandle(o.x), r |-> o.r])
<1>1. out.size \in Nat
    BY DEF AnySpan
<1>2. CASE o \in zstd_push_more(x, n, out)
    <2>1. PICK s \in compressStream2(x, "continue", n, out.size) : o = Outcome(s, FALSE)
        BY <1>2 DEF zstd_push_more
    <2> QED BY <1>1, <2>1, OutcomeHonest
<1>3. CASE o \in zstd_flush(x, out)
    <2>1. PICK s \in compressStream2(x, "flush", 0, out.size) : o = Outcome(s, FALSE)
        BY <1>3 DEF zstd_flush
    <2> QED BY <1>1, <2>1, OutcomeHonest
<1>4. CASE o \in zstd_finish(x, out)
    <2>1. PICK s \in compressStream2(x, "end", 0, out.size) : o = Outcome(s, s.remaining = 0)
        BY <1>4 DEF zstd_finish
    <2>2. (s.remaining = 0) \in BOOLEAN
        OBVIOUS
    <2> QED BY <1>1, <2>1, <2>2, OutcomeHonest
<1> QED BY <1>2, <1>3, <1>4

\* A visitor changes nothing but `done' of what the handle reports.
LEMMA WithDoneHonest ==
    ASSUME NEW h, NEW done \in BOOLEAN, NEW outcomes,
           \A o \in outcomes : Honest(h, o)
    PROVE  \A o \in WithDone(outcomes, done) : Honest(h, o)
<1> SUFFICES ASSUME NEW o \in outcomes
             PROVE  Honest(h, [h |-> o.h, r |-> IF o.r.kind = "ok"
                                                THEN Progress(o.r.in, o.r.out, done) ELSE o.r])
    BY DEF WithDone
<1>1. o.r \in Result
    BY DEF Honest
<1>2. CASE o.r.kind = "ok"
    <2>1. Progress(o.r.in, o.r.out, done) \in Result
        BY <1>1, ResultTypes DEF Result
    <2>2. /\ Progress(o.r.in, o.r.out, done).in = o.r.in
          /\ Progress(o.r.in, o.r.out, done).out = o.r.out
        BY DEF Progress
    <2> QED BY <1>2, <2>1, <2>2 DEF Honest
<1>3. CASE o.r.kind # "ok"
    BY <1>3 DEF Honest
<1> QED BY <1>2, <1>3

LEMMA StubHonest ==
    ASSUME Shape(StubHandle), NEW o \in OnStub(StubHandle)
    PROVE  Honest(StubHandle, o)
<1>1. o.h = StubHandle /\ o.r = Unexpected("format_mismatch")
    BY DEF OnStub
<1>2. o.r \in Result /\ o.r.in = 0 /\ o.r.out = 0
    BY <1>1, ResultTypes DEF Kinds, Unexpected
<1>3. Taken(StubHandle) = 0 /\ Written(StubHandle) = 0 /\ Frame(StubHandle) = <<>>
    BY DEF StubHandle, Taken, Written, Frame
<1> QED BY <1>1, <1>2, <1>3 DEF Honest, Extends

LEMMA VisitHonest ==
    ASSUME NEW h, Shape(h), h # NoHandle, NEW n \in Nat, NEW out \in AnySpan,
           NEW o \in push_visitor(h, n, out) \cup flush_visitor(h, out)
                     \cup finish_visitor(h, out)
    PROVE  Honest(h, o)
<1>1. CASE h.alt = "zlib_squeezer"
    <2>1. h = ZlibHandle(h.z) /\ h.z \in ZStream /\ ZShape(h.z)
        BY <1>1 DEF Shape, AnyHandle, ZlibHandle, NoHandle, StubHandle
    <2>2. \A p \in OnZlib(zlib_push_more(h.z, n, out)) \cup OnZlib(zlib_flush(h.z, out))
                   \cup OnZlib(zlib_finish(h.z, out)) : Honest(h, p)
        BY <2>1, ZlibMethods DEF OnZlib
    <2> QED BY <1>1, <2>2, WithDoneHonest DEF push_visitor, flush_visitor, finish_visitor
<1>2. CASE h.alt = "zstd_squeezer"
    <2>1. h = ZstdHandle(h.x) /\ h.x \in CCtx /\ XShape(h.x)
        BY <1>2 DEF Shape, AnyHandle, ZstdHandle, NoHandle, StubHandle
    <2>2. \A p \in OnZstd(zstd_push_more(h.x, n, out)) \cup OnZstd(zstd_flush(h.x, out))
                   \cup OnZstd(zstd_finish(h.x, out)) : Honest(h, p)
        BY <2>1, ZstdMethods DEF OnZstd
    <2> QED BY <1>2, <2>2, WithDoneHonest DEF push_visitor, flush_visitor, finish_visitor
<1>3. CASE h.alt \notin {"zlib_squeezer", "zstd_squeezer"}
    <2>1. h = StubHandle
        BY <1>3 DEF Shape, AnyHandle
    <2>2. \A p \in OnStub(h) : Honest(h, p)
        BY <2>1, StubHonest
    <2> QED BY <1>3, <2>2, WithDoneHonest DEF push_visitor, flush_visitor, finish_visitor
<1> QED BY <1>1, <1>2, <1>3

-----------------------------------------------------------------------------
(***************************************************************************)
(* The inductive invariant: the handle is well shaped, and the caller's    *)
(* records agree with it.                                                  *)
(***************************************************************************)
IInv == TypeOK /\ Shape(handle) /\ NoLossNoDuplication

LEMMA SubSeqExtends ==
    ASSUME NEW f \in Seq(Unit), NEW g \in Seq(Unit), Extends(f, g),
           NEW w \in Nat, w <= Len(g), NEW k \in Nat, w + k <= Len(f)
    PROVE  /\ SubSeq(g, 1, w) \o SubSeq(f, w + 1, w + k) = SubSeq(f, 1, w + k)
           /\ SubSeq(f, 1, w + k) \in Seq(Unit)
<1> DEFINE a == SubSeq(g, 1, w)
           b == SubSeq(f, w + 1, w + k)
           c == SubSeq(f, 1, w + k)
<1>1. a \in Seq(Unit) /\ Len(a) = w /\ \A i \in 1 .. w : a[i] = g[i]
    OBVIOUS
<1>2. b \in Seq(Unit) /\ Len(b) = k /\ \A i \in 1 .. k : b[i] = f[w + i]
    OBVIOUS
<1>3. c \in Seq(Unit) /\ Len(c) = w + k /\ \A i \in 1 .. w + k : c[i] = f[i]
    OBVIOUS
<1> HIDE DEF a, b, c
<1>4. a \o b \in Seq(Unit) /\ Len(a \o b) = w + k
    BY <1>1, <1>2, ConcatExtends
<1>5. \A i \in 1 .. w + k : (a \o b)[i] = IF i <= w THEN a[i] ELSE b[i - w]
    BY <1>1, <1>2, ConcatProperties
<1>6. ASSUME NEW i \in 1 .. w + k PROVE (a \o b)[i] = c[i]
    <2>1. CASE i <= w
        <3>1. i \in 1 .. w /\ i \in 1 .. Len(g)
            BY <2>1
        <3> QED BY <1>1, <1>3, <1>5, <2>1, <3>1 DEF Extends
    <2>2. CASE ~(i <= w)
        <3>1. i - w \in 1 .. k /\ w + (i - w) = i
            BY <2>2
        <3> QED BY <1>2, <1>3, <1>5, <2>2, <3>1
    <2> QED BY <2>1, <2>2
<1>7. a \o b = c
    BY <1>3, <1>4, <1>6, SeqEqual
<1> QED BY <1>3, <1>7 DEF a, b, c

LEMMA HandleParts ==
    ASSUME NEW h, Shape(h)
    PROVE  /\ Frame(h) \in Seq(Unit) /\ Taken(h) \in Nat /\ Written(h) \in Nat
           /\ Written(h) <= Len(Frame(h))
<1>1. CASE h.alt = "zlib_squeezer"
    <2>1. h.z \in ZStream /\ ZShape(h.z)
        BY <1>1 DEF Shape, AnyHandle, NoHandle, StubHandle
    <2> QED BY <1>1, <2>1 DEF Frame, Taken, Written, ZStream, ZShape
<1>2. CASE h.alt = "zstd_squeezer"
    <2>1. h.x \in CCtx /\ XShape(h.x)
        BY <1>2 DEF Shape, AnyHandle, NoHandle, StubHandle
    <2> QED BY <1>2, <2>1 DEF Frame, Taken, Written, CCtx, XShape
<1>3. CASE h.alt \notin {"zlib_squeezer", "zstd_squeezer"}
    BY <1>3 DEF Frame, Taken, Written
<1> QED BY <1>1, <1>2, <1>3

LEMMA ReturnPreserves ==
    ASSUME IInv, NEW op \in {"push", "flush", "finish"}, NEW n \in Nat,
           NEW out \in AnySpan, NEW o, Honest(handle, o), Return(op, n, out, o)
    PROVE  IInv'
<1> USE DEF IInv
<1>1. Shape(handle')
    BY DEF Honest, Return
<1>2. o.r \in Result /\ o.r.in \in Nat /\ o.r.out \in Nat
    BY DEF Honest, Result
<1>3. accepted' = Taken(handle')
    BY DEF Honest, Return, NoLossNoDuplication
<1>4. wire' = SubSeq(Frame(handle'), 1, Written(handle')) /\ wire' \in Seq(Unit)
    <2>1. /\ Frame(handle) \in Seq(Unit) /\ Written(handle) \in Nat
          /\ Written(handle) <= Len(Frame(handle))
        BY HandleParts
    <2>2. /\ Frame(o.h) \in Seq(Unit) /\ Written(o.h) <= Len(Frame(o.h))
          /\ Written(o.h) = Written(handle) + o.r.out
          /\ Extends(Frame(o.h), Frame(handle))
        BY HandleParts DEF Honest
    <2>3. wire' = SubSeq(Frame(handle), 1, Written(handle))
                  \o SubSeq(Frame(o.h), Written(handle) + 1, Written(handle) + o.r.out)
        BY DEF Return, NoLossNoDuplication
    <2>4. handle' = o.h
        BY DEF Return
    <2> DEFINE w == Written(handle)
               k == o.r.out
    <2>5. /\ SubSeq(Frame(handle), 1, w) \o SubSeq(Frame(o.h), w + 1, w + k)
                = SubSeq(Frame(o.h), 1, w + k)
          /\ SubSeq(Frame(o.h), 1, w + k) \in Seq(Unit)
        <3>1. w + k <= Len(Frame(o.h))
            BY <2>2
        <3> HIDE DEF w, k
        <3>2. w \in Nat /\ k \in Nat /\ w <= Len(Frame(handle))
            BY <2>1, <1>2 DEF w, k
        <3> QED BY <2>1, <2>2, <3>1, <3>2, SubSeqExtends
    <2> QED BY <2>2, <2>3, <2>4, <2>5
<1>5. TypeOK'
    <2>1. fmt' = fmt /\ last' = [op |-> op, n |-> n, out |-> out, r |-> o.r]
        BY DEF Return
    <2>2. last' \in Call
        BY <1>2, <2>1 DEF Call
    <2>3. handle' \in AnyHandle
        BY <1>1 DEF Shape
    <2>4. accepted' \in Nat
        BY <1>1, <1>3, HandleParts
    <2> QED BY <1>4, <2>1, <2>2, <2>3, <2>4 DEF TypeOK
<1> QED BY <1>1, <1>3, <1>4, <1>5 DEF NoLossNoDuplication

LEMMA NoHandleParts ==
    /\ Shape(NoHandle) /\ Taken(NoHandle) = 0 /\ Written(NoHandle) = 0
    /\ Frame(NoHandle) = <<>> /\ NoCall \in Call
    /\ SubSeq(<<>>, 1, 0) = <<>>
<1>1. Shape(NoHandle) /\ Taken(NoHandle) = 0 /\ Written(NoHandle) = 0
      /\ Frame(NoHandle) = <<>>
    BY DEF Shape, AnyHandle, NoHandle, Taken, Written, Frame
<1>2. NoCall \in Call
    <2>1. Progress(0, 0, FALSE) \in Result
        BY DEF Progress, Result, Kinds
    <2> QED BY <2>1 DEF NoCall, Call, AnySpan
<1> QED BY <1>1, <1>2

LEMMA MadeHandle ==
    ASSUME NEW f \in Formats
    PROVE  /\ Shape(make_squeezer(f))
           /\ Taken(make_squeezer(f)) = 0 /\ Written(make_squeezer(f)) = 0
           /\ Frame(make_squeezer(f)) = <<>>
<1>1. zlib_squeezer(f) \in ZStream /\ ZShape(zlib_squeezer(f))
    BY DEF zlib_squeezer, window_bits_for, deflateInit, ZStream, ZShape, ZlibFormats
<1>2. createCCtx \in CCtx /\ XShape(createCCtx)
    BY DEF createCCtx, CCtx, XShape
<1>3. CASE make_squeezer(f) = StubHandle
    BY <1>3 DEF Shape, AnyHandle, StubHandle, Taken, Written, Frame
<1>4. CASE make_squeezer(f) = ZlibHandle(zlib_squeezer(f))
    <2>1. /\ zlib_squeezer(f).total_in = 0 /\ zlib_squeezer(f).total_out = 0
          /\ zlib_squeezer(f).frame = <<>>
        BY DEF zlib_squeezer, deflateInit
    <2> QED BY <1>1, <1>4, <2>1 DEF Shape, AnyHandle, ZlibHandle, Taken, Written, Frame
<1>5. CASE make_squeezer(f) = ZstdHandle(createCCtx)
    BY <1>2, <1>5 DEF Shape, AnyHandle, ZstdHandle, Taken, Written, Frame, createCCtx
<1> QED BY <1>3, <1>4, <1>5 DEF make_squeezer

LEMMA SpanType ==
    ASSUME NEW max \in Nat, NEW out \in Spans(max)
    PROVE  out \in AnySpan
BY DEF Spans, AnySpan

LEMMA InitIInv == Init => IInv
BY NoHandleParts DEF Init, IInv, TypeOK, NoLossNoDuplication, Shape

LEMMA NextIInv == IInv /\ [Next]_vars => IInv'
<1> SUFFICES ASSUME IInv, [Next]_vars
             PROVE  IInv'
    OBVIOUS
<1>1. ASSUME NEW f \in Requests, NEW lvl \in Levels, Construct(f, lvl)
      PROVE  IInv'
    <2>1. CASE f # "zstd" /\ lvl \notin 0 .. 9
        <3>1. last' = [NoCall EXCEPT !.op = "construct", !.r = Unexpected("throws")]
              /\ UNCHANGED <<fmt, handle, accepted, wire>>
            BY <1>1, <2>1 DEF Construct
        <3>2. Unexpected("throws") \in Result
            BY ResultTypes DEF Kinds
        <3>3. last' \in Call
            BY <3>1, <3>2 DEF NoCall, Call, AnySpan
        <3> QED BY <3>1, <3>3 DEF IInv, TypeOK, NoLossNoDuplication
    <2>2. CASE ~(f # "zstd" /\ lvl \notin 0 .. 9)
        <3>1. /\ fmt' = f /\ handle' = make_squeezer(f) /\ accepted' = 0
              /\ wire' = <<>> /\ last' = [NoCall EXCEPT !.op = "construct"]
            BY <1>1, <2>2 DEF Construct
        <3>2. f \in Formats
            BY CompressorAssumption
        <3>3. last' \in Call
            BY <3>1, NoHandleParts DEF NoCall, Call
        <3>4. Shape(handle') /\ accepted' = Taken(handle')
              /\ wire' = SubSeq(Frame(handle'), 1, Written(handle'))
            BY <3>1, <3>2, MadeHandle, NoHandleParts
        <3> QED BY <3>1, <3>2, <3>3, <3>4
                DEF IInv, TypeOK, NoLossNoDuplication, Shape
    <2> QED BY <2>1, <2>2
<1>2. ASSUME NEW n \in 0 .. MaxIn, NEW out \in Spans(MaxOut), push(n, out)
      PROVE  IInv'
    <2>1. PICK o \in push_visitor(handle, n, out) : Return("push", n, out, o)
        BY <1>2 DEF push
    <2>2. out \in AnySpan /\ n \in Nat /\ handle # NoHandle
        BY <1>2, CompressorAssumption, SpanType DEF push, Live
    <2>3. Honest(handle, o)
        BY <2>1, <2>2, VisitHonest DEF IInv
    <2> QED BY <2>1, <2>2, <2>3, ReturnPreserves
<1>3. ASSUME NEW out \in Spans(MaxOut), flush(out)
      PROVE  IInv'
    <2>1. PICK o \in flush_visitor(handle, out) : Return("flush", 0, out, o)
        BY <1>3 DEF flush
    <2>2. out \in AnySpan /\ handle # NoHandle
        BY <1>3, CompressorAssumption, SpanType DEF flush, Live
    <2>3. Honest(handle, o)
        BY <2>1, <2>2, VisitHonest DEF IInv
    <2> QED BY <2>1, <2>2, <2>3, ReturnPreserves
<1>4. ASSUME NEW out \in Spans(MaxOut), finish(out)
      PROVE  IInv'
    <2>1. PICK o \in finish_visitor(handle, out) : Return("finish", 0, out, o)
        BY <1>4 DEF finish
    <2>2. out \in AnySpan /\ handle # NoHandle
        BY <1>4, CompressorAssumption, SpanType DEF finish, Live
    <2>3. Honest(handle, o)
        BY <2>1, <2>2, VisitHonest DEF IInv
    <2> QED BY <2>1, <2>2, <2>3, ReturnPreserves
<1>5. CASE Destroy
    BY <1>5, NoHandleParts DEF Destroy, IInv, TypeOK, NoLossNoDuplication, Shape
<1>6. CASE UNCHANGED vars
    BY <1>6 DEF vars, IInv, TypeOK, NoLossNoDuplication
<1> QED BY <1>1, <1>2, <1>3, <1>4, <1>5, <1>6 DEF Next

(***************************************************************************)
(* The object and the caller's records keep their types.                   *)
(***************************************************************************)
THEOREM TypeCorrect == Spec => []TypeOK
<1>1. IInv => TypeOK
    BY DEF IInv
<1> QED BY InitIInv, NextIInv, <1>1, PTL DEF Spec

(***************************************************************************)
(* What push, flush and finish report, summed over any sequence of calls   *)
(* on any format and backend, is what the engine read and the stream it    *)
(* wrote, unit for unit.                                                   *)
(***************************************************************************)
THEOREM ReportsAreComplete == Spec => []NoLossNoDuplication
<1>1. IInv => NoLossNoDuplication
    BY DEF IInv
<1> QED BY InitIInv, NextIInv, <1>1, PTL DEF Spec
-----------------------------------------------------------------------------
(***************************************************************************)
(* The zstd engine: what it has generated carries the symbols it has       *)
(* consumed, in order and none too many.  While the end of a frame is not  *)
(* flushed nothing new is consumed.                                        *)
(***************************************************************************)
XHeld(x) ==
    x.frame # <<>> /\ Ended(x.frame) /\ x.flushed < Len(x.frame)
        => Upto(x.frame) = x.consumed

XInv(x) == XShape(x) /\ Well(x.frame) /\ Upto(x.frame) <= x.consumed /\ XHeld(x)

\* What the use of the output span says of a call.
XTells(x, op, n, m, s) ==
    /\ n > 0 /\ m > 0 => s.pos + s.outpos > 0
    /\ s.outpos < m =>
        /\ s.x.flushed = Len(s.x.frame)
        /\ op \in {"flush", "end"} => Upto(s.x.frame) = s.x.consumed
        /\ op = "end" => s.x.frame # <<>> /\ s.x.frame[Len(s.x.frame)].kind = "last"

LEMMA OpenedWell ==
    ASSUME NEW f \in Seq(Unit), Well(f)
    PROVE  /\ Opened(f) \in Seq(Unit) /\ Well(Opened(f)) /\ Upto(Opened(f)) = Upto(f)
           /\ Len(f) <= Len(Opened(f))
<1>1. CASE Ended(f)
    <2>1. Opened(f) = Grow(f, "hdr")
        BY <1>1 DEF Opened
    <2>2. /\ Grow(f, "hdr") \in Seq(Unit) /\ Well(Grow(f, "hdr"))
          /\ Upto(Grow(f, "hdr")) = Upto(f) /\ Len(Grow(f, "hdr")) = Len(f) + 1
        BY GrowType, GrowWell
    <2> QED BY <2>1, <2>2
<1>2. CASE ~Ended(f)
    BY <1>2 DEF Opened
<1> QED BY <1>1, <1>2

LEMMA BufferingType ==
    ASSUME NEW x \in CCtx, NEW op, NEW n \in Nat, NEW m \in Nat,
           NEW c \in Bufferings(x, op, n, m)
    PROVE  /\ c.t \in 0 .. n /\ c.e \in Nat /\ c.u \in Nat \ {0}
           /\ Upto(x.frame) <= c.e /\ c.e <= x.consumed + c.t
           /\ c.e > Upto(x.frame) => c.u <= c.e - Upto(x.frame)
           /\ n > 0 => c.t > 0
           /\ op # "continue" => c.t = n /\ c.e = x.consumed + c.t
<1>1. Upto(x.frame) \in Nat /\ x.consumed \in Nat /\ x.frame \in Seq(Unit)
    BY UptoType DEF CCtx
<1>2. /\ c \in [t : 0 .. n, e : Upto(x.frame) .. x.consumed + n, u : Spread \cup {1}]
      /\ c.e <= x.consumed + c.t
      /\ c.u \in BlockSizes(x.frame, c.e)
      /\ n > 0 => c.t > 0
      /\ op # "continue" => c.t = n /\ c.e = x.consumed + c.t
    BY Zenon DEF Bufferings
<1>3. c.t \in 0 .. n /\ c.e \in Upto(x.frame) .. x.consumed + n
    BY <1>2
<1>4. c.e \in Nat /\ Upto(x.frame) <= c.e
    BY <1>1, <1>3
<1>5. c.u \in Nat \ {0} /\ (c.e > Upto(x.frame) => c.u <= c.e - Upto(x.frame))
    BY <1>1, <1>2, <1>4, BlockSizesType
<1> QED BY <1>2, <1>3, <1>4, <1>5

\* The blocks of a call hold the symbols up to e and leave the frame open,
\* unless there are none.
LEMMA BlocksWell ==
    ASSUME NEW x \in CCtx, XInv(x), NEW e \in Nat, Upto(x.frame) <= e, NEW u \in Nat \ {0},
           e > Upto(x.frame) => u <= e - Upto(x.frame)
    PROVE  /\ Blocks(x, e, u) \in Seq(Unit) /\ Well(Blocks(x, e, u))
           /\ Upto(Blocks(x, e, u)) = e
           /\ Len(x.frame) <= Len(Blocks(x, e, u))
           /\ Blocks(x, e, u) = x.frame \/ ~Ended(Blocks(x, e, u))
<1> DEFINE f == Opened(x.frame)
           g == GrowBlock(f, e, u, "blk")
<1>1. x.frame \in Seq(Unit) /\ Well(x.frame) /\ Upto(x.frame) \in Nat
    BY UptoType DEF CCtx, XInv
<1>2. /\ f \in Seq(Unit) /\ Well(f) /\ Upto(f) = Upto(x.frame) /\ Len(x.frame) <= Len(f)
    BY <1>1, OpenedWell
<1>3. CASE e > Upto(x.frame)
    <2>1. Blocks(x, e, u) = g
        BY <1>3 DEF Blocks
    <2> HIDE DEF f
    <2>2. /\ g \in Seq(Unit) /\ Well(g) /\ Upto(g) = e /\ Len(g) = Len(f) + u
          /\ \A i \in Len(f) + 1 .. Len(g) : g[i].kind = IF i = Len(g) THEN "blk" ELSE "blk"
        BY <1>2, <1>3, GrowBlockWell
    <2> HIDE DEF g
    <2>3. Len(x.frame) <= Len(g) /\ Len(g) \in Len(f) + 1 .. Len(g) /\ g # <<>>
        BY <1>1, <1>2, <2>2
    <2>4. ~Ended(g)
        BY <2>2, <2>3 DEF Ended
    <2> QED BY <2>1, <2>2, <2>3, <2>4
<1>4. CASE ~(e > Upto(x.frame))
    <2>1. Blocks(x, e, u) = x.frame /\ Upto(x.frame) = e
        BY <1>1, <1>4 DEF Blocks
    <2> QED BY <1>1, <2>1
<1> QED BY <1>3, <1>4

\* What Drain leaves and reports.
LEMMA DrainParts ==
    ASSUME NEW x \in CCtx, XShape(x), NEW f \in Seq(Unit), Len(x.frame) <= Len(f),
           NEW t \in Nat, NEW m \in Nat, NEW s, s = Drain(x, f, t, m)
    PROVE  /\ ~s.error /\ s.pos = t /\ s.x.frame = f /\ s.x.consumed = x.consumed + t
           /\ s.x.flushed <= Len(f) /\ s.outpos \in Nat
           /\ s.outpos < m => s.x.flushed = Len(f)
           /\ Len(f) <= x.flushed + m => s.x.flushed = Len(f)
           /\ Len(f) > x.flushed /\ m > 0 => s.outpos > 0
<1> DEFINE out == IF Len(f) <= x.flushed + m THEN Len(f) ELSE x.flushed + m
<1>1. x.flushed \in Nat /\ x.consumed \in Nat /\ x.frame \in Seq(Unit)
    BY DEF CCtx
<1>2. /\ out \in Nat /\ out - x.flushed \in Nat /\ out <= Len(f)
      /\ out - x.flushed < m => out = Len(f)
      /\ Len(f) <= x.flushed + m => out = Len(f)
      /\ Len(f) > x.flushed /\ m > 0 => out - x.flushed > 0
    BY <1>1 DEF XShape
<1>3. /\ ~s.error /\ s.pos = t /\ s.outpos = out - x.flushed
      /\ s.x.frame = f /\ s.x.consumed = x.consumed + t /\ s.x.flushed = out
    BY DEF Drain
<1> HIDE DEF out
<1> QED BY <1>2, <1>3

LEMMA CompressKeeps ==
    ASSUME NEW x \in CCtx, XInv(x), NEW op, NEW n \in Nat, NEW m \in Nat,
           NEW s \in compressStream2(x, op, n, m)
    PROVE  XInv(s.x) /\ (s.error \/ XTells(x, op, n, m, s))
<1>1. /\ x.frame \in Seq(Unit) /\ x.consumed \in Nat /\ x.flushed \in Nat
      /\ Upto(x.frame) \in Nat /\ Len(x.frame) \in Nat /\ XShape(x)
    BY UptoType DEF CCtx, XInv
<1>2. CASE s = [error |-> TRUE, pos |-> 0, outpos |-> 0, remaining |-> 0, x |-> x]
    BY <1>2
<1>3. CASE /\ s = Drain(x, x.frame, 0, m)
           /\ ToFlush(x) > m \/ (ToFlush(x) > 0 /\ Ended(x.frame))
    <2>1. /\ ~s.error /\ s.pos = 0 /\ s.x.frame = x.frame /\ s.x.consumed = x.consumed
          /\ s.x.flushed <= Len(x.frame) /\ s.outpos \in Nat
          /\ s.outpos < m => s.x.flushed = Len(x.frame)
          /\ Len(x.frame) <= x.flushed + m => s.x.flushed = Len(x.frame)
          /\ Len(x.frame) > x.flushed /\ m > 0 => s.outpos > 0
        <3>1. /\ x.frame \in Seq(Unit) /\ XShape(x) /\ Len(x.frame) <= Len(x.frame)
              /\ 0 \in Nat /\ s = Drain(x, x.frame, 0, m)
            BY <1>1, <1>3
        <3>2. /\ ~s.error /\ s.pos = 0 /\ s.x.frame = x.frame
              /\ s.x.consumed = x.consumed + 0
              /\ s.x.flushed <= Len(x.frame) /\ s.outpos \in Nat
              /\ s.outpos < m => s.x.flushed = Len(x.frame)
              /\ Len(x.frame) <= x.flushed + m => s.x.flushed = Len(x.frame)
              /\ Len(x.frame) > x.flushed /\ m > 0 => s.outpos > 0
            BY <3>1, DrainParts, SMTT(90)
        <3>3. x.consumed + 0 = x.consumed
            BY <1>1
        <3> QED BY <3>2, <3>3, Zenon
    <2>2. Len(x.frame) > x.flushed
        BY <1>1, <1>3 DEF ToFlush
    <2>3. XInv(s.x)
        BY <1>1, <2>1, <2>2 DEF XInv, XShape, XHeld
    <2>4. s.outpos < m => /\ x.frame # <<>> /\ x.frame[Len(x.frame)].kind = "last"
                          /\ Upto(x.frame) = x.consumed
        <3> SUFFICES ASSUME s.outpos < m
                     PROVE  /\ x.frame # <<>> /\ x.frame[Len(x.frame)].kind = "last"
                            /\ Upto(x.frame) = x.consumed
            OBVIOUS
        <3>1. CASE ToFlush(x) > m
            <4>1. Drain(x, x.frame, 0, m).outpos = m
                BY <1>1, <3>1 DEF Drain, ToFlush
            <4>2. s.outpos = m
                BY <1>3, <4>1
            <4> QED BY <4>2
        <3>2. CASE ToFlush(x) > 0 /\ Ended(x.frame)
            <4>1. x.frame # <<>>
                BY <1>1, <2>2
            <4> QED BY <1>1, <2>2, <3>2, <4>1 DEF Ended, XInv, XHeld
        <3> QED BY <1>3, <3>1, <3>2
    <2>5. XTells(x, op, n, m, s)
        BY <2>1, <2>2, <2>4 DEF XTells
    <2> QED BY <2>3, <2>5
<1>4. CASE /\ ~(ToFlush(x) > m \/ (ToFlush(x) > 0 /\ Ended(x.frame)))
           /\ \E c \in Bufferings(x, op, n, m) : s = Drain(x, Encoded(x, op, c), c.t, m)
    <2>1. PICK c \in Bufferings(x, op, n, m) : s = Drain(x, Encoded(x, op, c), c.t, m)
        BY <1>4
    <2>2. /\ c.t \in 0 .. n /\ c.t \in Nat /\ c.e \in Nat /\ c.u \in Nat \ {0}
          /\ Upto(x.frame) <= c.e /\ c.e <= x.consumed + c.t
          /\ c.e > Upto(x.frame) => c.u <= c.e - Upto(x.frame)
          /\ n > 0 => c.t > 0
          /\ op # "continue" => c.t = n /\ c.e = x.consumed + c.t
        BY BufferingType
    <2> DEFINE b == Blocks(x, c.e, c.u)
               f == Encoded(x, op, c)
    <2>3. /\ b \in Seq(Unit) /\ Well(b) /\ Upto(b) = c.e /\ Len(x.frame) <= Len(b)
          /\ b = x.frame \/ ~Ended(b)
        BY <2>2, BlocksWell
    <2>4. f = IF op = "end" THEN Grow(Opened(b), "last") ELSE b
        BY DEF Encoded
    <2> HIDE DEF b, f
    <2>5. /\ f \in Seq(Unit) /\ Well(f) /\ Upto(f) = c.e /\ Len(x.frame) <= Len(f)
          /\ op = "end" => f # <<>> /\ f[Len(f)].kind = "last"
          /\ op # "end" => f = x.frame \/ ~Ended(f)
        <3>1. CASE op # "end"
            BY <2>3, <2>4, <3>1
        <3>2. CASE op = "end"
            <4> DEFINE o == Opened(b)
            <4>1. o \in Seq(Unit) /\ Well(o) /\ Upto(o) = c.e /\ Len(b) <= Len(o)
                BY <2>3, OpenedWell
            <4>2. f = Grow(o, "last")
                BY <2>4, <3>2
            <4> HIDE DEF o
            <4>3. /\ f \in Seq(Unit) /\ Well(f) /\ Upto(f) = c.e /\ Len(f) = Len(o) + 1
                  /\ f[Len(o) + 1].kind = "last"
                BY <4>1, <4>2, GrowType, GrowWell
            <4>4. Len(x.frame) <= Len(f) /\ f # <<>>
                BY <1>1, <2>3, <4>1, <4>3
            <4> QED BY <3>2, <4>3, <4>4
        <3> QED BY <3>1, <3>2
    <2>6. /\ ~s.error /\ s.pos = c.t /\ s.x.frame = f /\ s.x.consumed = x.consumed + c.t
          /\ s.x.flushed <= Len(f) /\ s.outpos \in Nat
          /\ s.outpos < m => s.x.flushed = Len(f)
          /\ Len(f) <= x.flushed + m => s.x.flushed = Len(f)
        <3>1. s = Drain(x, f, c.t, m)
            BY <2>1 DEF f
        <3>2. XShape(x) /\ f \in Seq(Unit) /\ Len(x.frame) <= Len(f) /\ c.t \in Nat
            BY <1>1, <2>2, <2>5
        <3> QED BY <3>1, <3>2, DrainParts, SMTT(60)
    <2>7. XHeld(s.x)
        <3> SUFFICES ASSUME f # <<>>, Ended(f), s.x.flushed < Len(f)
                     PROVE  Upto(f) = x.consumed + c.t
            BY <2>6 DEF XHeld
        <3>1. CASE op = "end"
            BY <2>2, <2>5, <3>1
        <3>2. CASE op # "end"
            <4>1. f = x.frame
                BY <2>5, <3>2
            <4>2. Len(x.frame) - x.flushed <= 0
                BY <1>1, <1>4, <4>1 DEF ToFlush
            <4>3. Len(f) <= x.flushed + m
                BY <1>1, <4>1, <4>2
            <4>4. s.x.flushed = Len(f) /\ Len(f) \in Nat
                BY <2>5, <2>6, <4>3
            <4> QED BY <4>4
        <3> QED BY <3>1, <3>2
    <2>8. XInv(s.x)
        BY <2>2, <2>5, <2>6, <2>7 DEF XInv, XShape
    <2>9. XTells(x, op, n, m, s)
        BY <2>2, <2>5, <2>6 DEF XTells
    <2> QED BY <2>8, <2>9
<1>5. \/ s = [error |-> TRUE, pos |-> 0, outpos |-> 0, remaining |-> 0, x |-> x]
      \/ /\ s = Drain(x, x.frame, 0, m)
         /\ ToFlush(x) > m \/ (ToFlush(x) > 0 /\ Ended(x.frame))
      \/ /\ ~(ToFlush(x) > m \/ (ToFlush(x) > 0 /\ Ended(x.frame)))
         /\ \E c \in Bufferings(x, op, n, m) : s = Drain(x, Encoded(x, op, c), c.t, m)
    BY DEF compressStream2
<1> QED BY <1>2, <1>3, <1>4, <1>5
-----------------------------------------------------------------------------
(***************************************************************************)
(* What a call on either handle tells of it.                               *)
(***************************************************************************)
EngineInv(h) ==
    /\ h.alt = "zlib_squeezer" => ZInv(h.z)
    /\ h.alt = "zstd_squeezer" => XInv(h.x)

HandleContainer(h) == CASE h.alt = "zlib_squeezer" -> h.z.fmt
                        [] h.alt = "zstd_squeezer" -> "zstd"
                        [] OTHER -> "none"

\* Everything taken is decodable from what was written, and nothing is pending.
Flushed(h) == Written(h) = Len(Frame(h)) /\ Upto(Frame(h)) = Taken(h)

Room(out, r) == r.out < out.size /\ r.out < uInt(out.size)

PushTells(n, out, o) ==
    o.r.kind = "ok" /\ uInt(n) > 0 /\ uInt(out.size) > 0 => o.r.in + o.r.out > 0

FlushTells(out, o) ==
    o.r.kind = "ok" /\ Room(out, o.r) =>
        /\ Flushed(o.h)
        /\ o.h.alt = "zlib_squeezer" =>
              Frame(o.h) # <<>> /\ Frame(o.h)[Len(Frame(o.h))].kind = "sync"

FinishTells(out, o) ==
    o.r.kind = "ok" /\ Room(out, o.r) =>
        Flushed(o.h) /\ Complete(HandleContainer(o.h), Frame(o.h))

\* A zlib stream that is complete stays as it is, and ends in a step that takes nothing.
EndTells(h, o) ==
    o.h.alt = "zlib_squeezer" =>
        /\ ZClosed(h.z) => ZClosed(o.h.z) /\ o.r.in = 0 /\ o.r.out = 0
        /\ ZClosed(o.h.z) /\ ~ZClosed(h.z) => o.r.in = 0

Tells(h, op, n, out, o) ==
    /\ EngineInv(o.h)
    /\ op = "push" => PushTells(n, out, o)
    /\ op = "flush" => FlushTells(out, o)
    /\ op = "finish" => FinishTells(out, o)
    /\ EndTells(h, o)

LEMMA uIntZero == uInt(0) = 0 /\ \A n \in Nat : uInt(n) > 0 => n > 0
<1>1. 0 % UINT = 0
    BY UINTAssumption
<1> QED BY <1>1 DEF uInt

\* A closed data stream is complete in its container.
LEMMA ClosedComplete ==
    ASSUME NEW z \in ZStream, ZInv(z), z.status = "ENDED"
    PROVE  Complete(z.fmt, z.frame)
<1>1. LastAt(z.frame, Len(z.frame) - TailLen(z.fmt))
    BY DEF ZInv, ZEnds, EndsAt
<1>2. Len(z.frame) - TailLen(z.fmt) \in 1 .. Len(z.frame) /\ Len(z.frame) \in Nat
    BY <1>1 DEF LastAt, ZStream
<1> DEFINE i == Len(z.frame) - TailLen(z.fmt)
<1>3. i > 0 /\ z.frame[i].kind = "last"
    <2>1. LastAt(z.frame, i) /\ i \in 1 .. Len(z.frame)
        BY <1>1, <1>2
    <2> HIDE DEF i
    <2> QED BY <1>2, <2>1 DEF LastAt
<1> QED BY <1>3 DEF Complete

\* A report r of outcome d of deflate(z, fl), with n symbols offered into m units.
ReportFacts(z, fl, n, m, d, r) ==
    /\ ZInv(d.z) /\ d.z \in ZStream
    /\ r.kind = "ok" /\ fl = "no" /\ n > 0 /\ m > 0 => r.in + r.out > 0
    /\ r.kind = "ok" /\ fl = "sync" /\ r.out < m => d.z.last_flush = "sync"
    /\ r.kind = "ok" /\ fl = "finish" /\ r.out < m =>
          d.z.status = "ENDED" /\ d.z.total_out = Len(d.z.frame)
    /\ ZClosed(z) => ZClosed(d.z) /\ r.in = 0 /\ r.out = 0
    /\ ZClosed(d.z) /\ ~ZClosed(z) => r.in = 0

LEMMA ReportTells ==
    ASSUME NEW z \in ZStream, ZInv(z), NEW fl \in {"no", "sync", "finish"}, NEW n \in Nat,
           fl = "finish" => n = 0,
           NEW next_out, NEW m \in Nat, NEW d \in deflate(z, fl, n, next_out, m),
           NEW good, good \subseteq {"OK", "STREAM_END", "BUF_ERROR"}, NEW done,
           NEW r, r = Report(z, d, good, done).r
    PROVE  ReportFacts(z, fl, n, m, d, r)
<1> USE DEF ReportFacts
<1>1. /\ d.z \in ZStream /\ d.z.total_in >= z.total_in /\ d.z.total_out >= z.total_out
      /\ d.ret \notin {"OK", "STREAM_END"} => d.z = z
    BY DeflateStep DEF ZInv, ZStep
<1>2. /\ ZInv(d.z)
      /\ d.ret \in {"OK", "STREAM_END"} => m > 0 /\ ZTells(z, fl, n, m, d)
      /\ d.ret = "BUF_ERROR" => m = 0 \/ (fl = "sync" /\ z.last_flush = "sync" /\ n = 0)
      /\ ZClosed(z) => /\ ZClosed(d.z) /\ d.z.total_out = z.total_out
                       /\ d.z.total_in = z.total_in
      /\ ZClosed(d.z) /\ ~ZClosed(z) => fl = "finish"
    BY DeflateKeeps
<1>3. /\ z.total_in \in Nat /\ z.total_out \in Nat /\ d.z.total_in \in Nat
      /\ d.z.total_out \in Nat
    BY <1>1 DEF ZStream
<1>4. CASE d.ret \notin good
    <2>1. r.kind = "backend_failure" /\ r.in = 0 /\ r.out = 0
        BY <1>4 DEF Report, Unexpected
    <2> QED BY <1>1, <1>2, <2>1
<1>5. CASE d.ret \in good
    <2>1. r.in = d.z.total_in - z.total_in /\ r.out = d.z.total_out - z.total_out
        BY <1>5 DEF Report, Progress
    <2>2. ZClosed(z) => ZClosed(d.z) /\ r.in = 0 /\ r.out = 0
        BY <1>2, <1>3, <2>1
    <2>3. CASE d.ret \in {"OK", "STREAM_END"}
        <3>1. /\ n = 0 => d.z.total_in = z.total_in
              /\ d.z.total_out < z.total_out + m =>
                  /\ fl = "no" => d.z.total_in = z.total_in + n
                  /\ fl = "sync" => d.z.last_flush = "sync"
                  /\ fl = "finish" => d.ret = "STREAM_END"
              /\ d.ret = "STREAM_END" => d.z.status = "ENDED" /\ d.z.total_out = Len(d.z.frame)
            BY <1>2, <2>3 DEF ZTells
        <3>2. fl = "no" /\ n > 0 /\ m > 0 => r.in + r.out > 0
            <4>1. CASE d.z.total_out < z.total_out + m
                BY <1>1, <1>3, <2>1, <3>1, <4>1
            <4>2. CASE ~(d.z.total_out < z.total_out + m)
                BY <1>1, <1>3, <2>1, <4>2
            <4> QED BY <4>1, <4>2
        <3>3. r.out < m => d.z.total_out < z.total_out + m
            BY <1>3, <2>1
        <3>4. ZClosed(d.z) /\ ~ZClosed(z) => r.in = 0
            BY <1>2, <1>3, <2>1, <3>1
        <3> QED BY <1>1, <1>2, <2>2, <3>1, <3>2, <3>3, <3>4
    <2>4. CASE d.ret = "BUF_ERROR"
        <3>1. d.z = z /\ r.in = 0 /\ r.out = 0
            BY <1>1, <1>3, <2>1, <2>4
        <3> QED BY <1>1, <1>2, <2>4, <3>1
    <2> QED BY <1>5, <2>3, <2>4
<1> QED BY <1>4, <1>5

\* The methods of the two squeezers.
LEMMA ZlibTells ==
    ASSUME NEW z \in ZStream, ZInv(z), NEW n \in Nat, NEW out \in AnySpan, NEW op, NEW o,
           \/ op = "push" /\ o \in zlib_push_more(z, n, out)
           \/ op = "flush" /\ o \in zlib_flush(z, out)
           \/ op = "finish" /\ o \in zlib_finish(z, out)
    PROVE  Tells(ZlibHandle(z), op, n, out, [h |-> ZlibHandle(o.z), r |-> o.r])
<1> DEFINE h == ZlibHandle(o.z)
           p == [h |-> h, r |-> o.r]
           m == uInt(out.size)
<1>1. out.size \in Nat /\ m \in Nat /\ uInt(n) \in Nat /\ uInt(0) = 0
    BY uIntType, uIntZero DEF AnySpan
<1> HIDE DEF m
<1>2. /\ h.alt = "zlib_squeezer" /\ h.z = o.z
      /\ HandleContainer(h) = o.z.fmt /\ Frame(h) = o.z.frame
      /\ Written(h) = o.z.total_out /\ Taken(h) = o.z.total_in
      /\ ZlibHandle(z).z = z /\ p.h = h /\ p.r = o.r
    BY DEF ZlibHandle, HandleContainer, Frame, Written, Taken
<1> HIDE DEF h, p
<1>3. ZInv(o.z) => EngineInv(h)
    BY <1>2 DEF EngineInv
<1>4. ASSUME op = "push", o \in zlib_push_more(z, n, out)
      PROVE  Tells(ZlibHandle(z), op, n, out, p)
    <2>1. PICK d \in deflate(z, "no", uInt(n), out.data, m) :
              o = Report(z, d, {"OK", "BUF_ERROR"}, FALSE)
        BY <1>4 DEF zlib_push_more, m
    <2>2. o.z = d.z
        BY <2>1 DEF Report
    <2>3. /\ ZInv(d.z)
          /\ o.r.kind = "ok" /\ uInt(n) > 0 /\ m > 0 => o.r.in + o.r.out > 0
          /\ ZClosed(z) => ZClosed(d.z) /\ o.r.in = 0 /\ o.r.out = 0
          /\ ZClosed(d.z) /\ ~ZClosed(z) => o.r.in = 0
        <3>1. PICK fl, k, good, done :
                  /\ fl = "no" /\ k = uInt(n) /\ good = {"OK", "BUF_ERROR"}
                  /\ o = Report(z, d, good, done)
            BY <2>1
        <3>2. /\ good \subseteq {"OK", "STREAM_END", "BUF_ERROR"} /\ m \in Nat
              /\ fl \in {"no", "sync", "finish"} /\ (fl = "finish" => k = 0) /\ k \in Nat
              /\ d \in deflate(z, fl, k, out.data, m)
              /\ o.r = Report(z, d, good, done).r
            BY <1>1, <3>1
        <3>3. ReportFacts(z, fl, k, m, d, o.r)
            BY <3>2, ReportTells
        <3> QED BY <3>1, <3>3 DEF ReportFacts
    <2>4. PushTells(n, out, p) /\ EndTells(ZlibHandle(z), p)
        BY <1>2, <2>2, <2>3 DEF PushTells, EndTells, m
    <2> QED BY <1>2, <1>3, <1>4, <2>2, <2>3, <2>4 DEF Tells
<1>5. ASSUME op = "flush", o \in zlib_flush(z, out)
      PROVE  Tells(ZlibHandle(z), op, n, out, p)
    <2>1. PICK d \in deflate(z, "sync", 0, out.data, m) :
              o = Report(z, d, {"OK", "BUF_ERROR"}, FALSE)
        BY <1>5 DEF zlib_flush, m
    <2>2. o.z = d.z
        BY <2>1 DEF Report
    <2>3. /\ ZInv(d.z)
          /\ o.r.kind = "ok" /\ o.r.out < m => d.z.last_flush = "sync"
          /\ ZClosed(z) => ZClosed(d.z) /\ o.r.in = 0 /\ o.r.out = 0
          /\ ZClosed(d.z) /\ ~ZClosed(z) => o.r.in = 0
        <3>1. PICK fl, k, good, done :
                  /\ fl = "sync" /\ k = 0 /\ good = {"OK", "BUF_ERROR"}
                  /\ o = Report(z, d, good, done)
            BY <2>1
        <3>2. /\ good \subseteq {"OK", "STREAM_END", "BUF_ERROR"} /\ m \in Nat
              /\ fl \in {"no", "sync", "finish"} /\ (fl = "finish" => k = 0) /\ k \in Nat
              /\ d \in deflate(z, fl, k, out.data, m)
              /\ o.r = Report(z, d, good, done).r
            BY <1>1, <3>1
        <3>3. ReportFacts(z, fl, k, m, d, o.r)
            BY <3>2, ReportTells
        <3> QED BY <3>1, <3>3 DEF ReportFacts
    <2>4. FlushTells(out, p) /\ EndTells(ZlibHandle(z), p)
        BY <1>2, <2>2, <2>3 DEF FlushTells, Room, Flushed, EndTells, m, ZInv, ZSynced
    <2> QED BY <1>2, <1>3, <1>5, <2>2, <2>3, <2>4 DEF Tells
<1>6. ASSUME op = "finish", o \in zlib_finish(z, out)
      PROVE  Tells(ZlibHandle(z), op, n, out, p)
    <2>1. PICK d \in deflate(z, "finish", 0, out.data, m) :
              o = Report(z, d, {"STREAM_END", "OK"}, d.ret = "STREAM_END")
        BY <1>1, <1>6 DEF zlib_finish, zlib_push, m
    <2>2. o.z = d.z
        BY <2>1 DEF Report
    <2>3. /\ ZInv(d.z) /\ d.z \in ZStream
          /\ o.r.kind = "ok" /\ o.r.out < m =>
                d.z.status = "ENDED" /\ d.z.total_out = Len(d.z.frame)
          /\ ZClosed(z) => ZClosed(d.z) /\ o.r.in = 0 /\ o.r.out = 0
          /\ ZClosed(d.z) /\ ~ZClosed(z) => o.r.in = 0
        BY <1>1, <2>1, ReportTells DEF ReportFacts
    <2>4. EndTells(ZlibHandle(z), p)
        BY <1>2, <2>2, <2>3 DEF EndTells
    <2>5. ASSUME o.r.kind = "ok", Room(out, o.r)
          PROVE  Flushed(h) /\ Complete(HandleContainer(h), Frame(h))
        <3>1. d.z.status = "ENDED" /\ d.z.total_out = Len(d.z.frame)
            BY <2>3, <2>5 DEF Room, m
        <3>2. Upto(d.z.frame) = d.z.total_in /\ Complete(d.z.fmt, d.z.frame)
            BY <2>3, <3>1, ClosedComplete DEF ZInv, ZEnds
        <3> QED BY <1>2, <2>2, <3>1, <3>2 DEF Flushed
    <2>6. FinishTells(out, p)
        BY <1>2, <2>5 DEF FinishTells
    <2> QED BY <1>2, <1>3, <1>6, <2>2, <2>3, <2>4, <2>6 DEF Tells
<1> QED BY <1>4, <1>5, <1>6 DEF p, h

LEMMA ZstdTells ==
    ASSUME NEW x \in CCtx, XInv(x), NEW n \in Nat, NEW out \in AnySpan, NEW op, NEW o,
           \/ op = "push" /\ o \in zstd_push_more(x, n, out)
           \/ op = "flush" /\ o \in zstd_flush(x, out)
           \/ op = "finish" /\ o \in zstd_finish(x, out)
    PROVE  Tells(ZstdHandle(x), op, n, out, [h |-> ZstdHandle(o.x), r |-> o.r])
<1> DEFINE h == ZstdHandle(o.x)
           p == [h |-> h, r |-> o.r]
<1>1. out.size \in Nat /\ (uInt(n) > 0 => n > 0) /\ (uInt(out.size) > 0 => out.size > 0)
    BY uIntZero DEF AnySpan
<1>2. /\ h.alt = "zstd_squeezer" /\ h.x = o.x
      /\ HandleContainer(h) = "zstd" /\ Frame(h) = o.x.frame
      /\ Written(h) = o.x.flushed /\ Taken(h) = o.x.consumed
      /\ p.h = h /\ p.r = o.r
    BY DEF ZstdHandle, HandleContainer, Frame, Written, Taken
<1> HIDE DEF h, p
<1>3. XInv(o.x) => EngineInv(h)
    BY <1>2 DEF EngineInv
<1>4. EndTells(ZstdHandle(x), p)
    BY <1>2 DEF EndTells
<1>5. ASSUME NEW zop, NEW k \in Nat, NEW s \in compressStream2(x, zop, k, out.size),
             NEW done, o = Outcome(s, done)
      PROVE  XInv(o.x) /\ (o.r.kind = "ok" =>
                 /\ k > 0 /\ out.size > 0 => o.r.in + o.r.out > 0
                 /\ o.r.out < out.size =>
                     /\ o.x.flushed = Len(o.x.frame)
                     /\ zop \in {"flush", "end"} => Upto(o.x.frame) = o.x.consumed
                     /\ zop = "end" => /\ o.x.frame # <<>>
                                       /\ o.x.frame[Len(o.x.frame)].kind = "last")
    <2>1. XInv(s.x) /\ (s.error \/ XTells(x, zop, k, out.size, s))
        BY <1>1, <1>5, CompressKeeps
    <2>2. o.x = s.x
        BY <1>5 DEF Outcome
    <2>3. CASE s.error
        <3>1. o.r.kind = "backend_failure"
            BY <1>5, <2>3 DEF Outcome, Unexpected
        <3> QED BY <2>1, <2>2, <3>1
    <2>4. CASE ~s.error
        <3>1. o.r.in = s.pos /\ o.r.out = s.outpos
            BY <1>5, <2>4 DEF Outcome, Progress
        <3> QED BY <2>1, <2>2, <2>4, <3>1 DEF XTells
    <2> QED BY <2>3, <2>4
<1>6. ASSUME op = "push", o \in zstd_push_more(x, n, out)
      PROVE  Tells(ZstdHandle(x), op, n, out, p)
    <2>1. PICK s \in compressStream2(x, "continue", n, out.size) : o = Outcome(s, FALSE)
        BY <1>6 DEF zstd_push_more
    <2>2. /\ XInv(o.x)
          /\ o.r.kind = "ok" /\ n > 0 /\ out.size > 0 => o.r.in + o.r.out > 0
        BY <1>5, <2>1
    <2>3. PushTells(n, out, p)
        BY <1>1, <1>2, <2>2 DEF PushTells
    <2> QED BY <1>2, <1>3, <1>4, <1>6, <2>2, <2>3 DEF Tells
<1>7. ASSUME op = "flush", o \in zstd_flush(x, out)
      PROVE  Tells(ZstdHandle(x), op, n, out, p)
    <2>1. PICK s \in compressStream2(x, "flush", 0, out.size) : o = Outcome(s, FALSE)
        BY <1>7 DEF zstd_flush
    <2>2. /\ XInv(o.x)
          /\ o.r.kind = "ok" /\ o.r.out < out.size =>
                o.x.flushed = Len(o.x.frame) /\ Upto(o.x.frame) = o.x.consumed
        BY <1>5, <2>1
    <2>3. FlushTells(out, p)
        BY <1>2, <2>2 DEF FlushTells, Room, Flushed
    <2> QED BY <1>2, <1>3, <1>4, <1>7, <2>2, <2>3 DEF Tells
<1>8. ASSUME op = "finish", o \in zstd_finish(x, out)
      PROVE  Tells(ZstdHandle(x), op, n, out, p)
    <2>1. PICK s \in compressStream2(x, "end", 0, out.size) : o = Outcome(s, s.remaining = 0)
        BY <1>8 DEF zstd_finish
    <2>2. /\ XInv(o.x)
          /\ o.r.kind = "ok" /\ o.r.out < out.size =>
                /\ o.x.flushed = Len(o.x.frame) /\ Upto(o.x.frame) = o.x.consumed
                /\ o.x.frame # <<>> /\ o.x.frame[Len(o.x.frame)].kind = "last"
        BY <1>5, <2>1
    <2>3. o.r.kind = "ok" /\ o.r.out < out.size => Complete("zstd", o.x.frame)
        <3>1. TailLen("zstd") = 0
            BY DEF TailLen
        <3>2. o.x.frame # <<>> /\ o.x.frame \in Seq(Unit) => Len(o.x.frame) > 0
            OBVIOUS
        <3>3. o.x.frame \in Seq(Unit)
            BY <1>1, <2>1, CompressStep DEF XInv, XStep, CCtx, Outcome
        <3> QED BY <2>2, <3>1, <3>2, <3>3 DEF Complete
    <2>4. FinishTells(out, p)
        BY <1>2, <2>2, <2>3 DEF FinishTells, Room, Flushed
    <2> QED BY <1>2, <1>3, <1>4, <1>8, <2>2, <2>4 DEF Tells
<1> QED BY <1>6, <1>7, <1>8 DEF p, h

LEMMA WithDoneTells ==
    ASSUME NEW h, NEW op, NEW n, NEW out, NEW done, NEW outcomes,
           \A o \in outcomes : Tells(h, op, n, out, o)
    PROVE  \A o \in WithDone(outcomes, done) : Tells(h, op, n, out, o)
<1> SUFFICES ASSUME NEW o \in outcomes
             PROVE  Tells(h, op, n, out,
                          [h |-> o.h, r |-> IF o.r.kind = "ok"
                                            THEN Progress(o.r.in, o.r.out, done) ELSE o.r])
    BY DEF WithDone
<1> DEFINE r == IF o.r.kind = "ok" THEN Progress(o.r.in, o.r.out, done) ELSE o.r
           p == [h |-> o.h, r |-> r]
<1>1. (r.kind = "ok" <=> o.r.kind = "ok") /\ r.in = o.r.in /\ r.out = o.r.out
    BY DEF Progress
<1> HIDE DEF r
<1>2. p.h = o.h /\ p.r = r
    OBVIOUS
<1> HIDE DEF p
<1>3. Tells(h, op, n, out, o) => Tells(h, op, n, out, p)
    BY <1>1, <1>2 DEF Tells, PushTells, FlushTells, FinishTells, EndTells, Room
<1>4. Tells(h, op, n, out, p)
    BY <1>3
<1> QED BY <1>4 DEF p, r

LEMMA VisitTells ==
    ASSUME NEW h, Shape(h), h # NoHandle, EngineInv(h), NEW n \in Nat, NEW out \in AnySpan,
           NEW op, NEW o,
           \/ op = "push" /\ o \in push_visitor(h, n, out)
           \/ op = "flush" /\ o \in flush_visitor(h, out)
           \/ op = "finish" /\ o \in finish_visitor(h, out)
    PROVE  Tells(h, op, n, out, o)
<1>1. CASE h.alt = "zlib_squeezer"
    <2>1. h = ZlibHandle(h.z) /\ h.z \in ZStream /\ ZInv(h.z)
        BY <1>1 DEF Shape, AnyHandle, ZlibHandle, NoHandle, StubHandle, EngineInv
    <2>2. ASSUME op = "push" PROVE \A p \in OnZlib(zlib_push_more(h.z, n, out)) : Tells(h, op, n, out, p)
        BY <2>1, <2>2, ZlibTells DEF OnZlib
    <2>3. ASSUME op = "flush" PROVE \A p \in OnZlib(zlib_flush(h.z, out)) : Tells(h, op, n, out, p)
        BY <2>1, <2>3, ZlibTells DEF OnZlib
    <2>4. ASSUME op = "finish" PROVE \A p \in OnZlib(zlib_finish(h.z, out)) : Tells(h, op, n, out, p)
        BY <2>1, <2>4, ZlibTells DEF OnZlib
    <2> QED BY <1>1, <2>2, <2>3, <2>4, WithDoneTells DEF push_visitor, flush_visitor, finish_visitor
<1>2. CASE h.alt = "zstd_squeezer"
    <2>1. h = ZstdHandle(h.x) /\ h.x \in CCtx /\ XInv(h.x)
        BY <1>2 DEF Shape, AnyHandle, ZstdHandle, NoHandle, StubHandle, EngineInv
    <2>2. ASSUME op = "push" PROVE \A p \in OnZstd(zstd_push_more(h.x, n, out)) : Tells(h, op, n, out, p)
        BY <2>1, <2>2, ZstdTells DEF OnZstd
    <2>3. ASSUME op = "flush" PROVE \A p \in OnZstd(zstd_flush(h.x, out)) : Tells(h, op, n, out, p)
        BY <2>1, <2>3, ZstdTells DEF OnZstd
    <2>4. ASSUME op = "finish" PROVE \A p \in OnZstd(zstd_finish(h.x, out)) : Tells(h, op, n, out, p)
        BY <2>1, <2>4, ZstdTells DEF OnZstd
    <2> QED BY <1>2, <2>2, <2>3, <2>4, WithDoneTells DEF push_visitor, flush_visitor, finish_visitor
<1>3. CASE h.alt \notin {"zlib_squeezer", "zstd_squeezer"}
    <2>1. h = StubHandle
        BY <1>3 DEF Shape, AnyHandle
    <2>2. \A p \in OnStub(h) : Tells(h, op, n, out, p)
        <3> SUFFICES ASSUME NEW p, p.h = StubHandle, p.r = Unexpected("format_mismatch")
                     PROVE  Tells(h, op, n, out, p)
            BY <2>1 DEF OnStub
        <3>1. p.r.kind = "format_mismatch" /\ p.h.alt = "stub"
            BY DEF Unexpected, StubHandle
        <3> QED BY <3>1 DEF Tells, EngineInv, PushTells, FlushTells, FinishTells, EndTells
    <2> QED BY <1>3, <2>2, WithDoneTells DEF push_visitor, flush_visitor, finish_visitor
<1> QED BY <1>1, <1>2, <1>3

-----------------------------------------------------------------------------
(***************************************************************************)
(* The inductive invariant: the engine is in order, and what the last call *)
(* reported is true of the wire.                                           *)
(***************************************************************************)
CInv ==
    /\ IInv /\ EngineInv(handle)
    /\ FlushCovers /\ FinishCloses /\ PushProgress

LEMMA WholeFrame ==
    ASSUME NEW f \in Seq(Unit), NEW k, k = Len(f)
    PROVE  SubSeq(f, 1, k) = f
OBVIOUS

LEMMA ReturnTells ==
    ASSUME NEW op \in {"push", "flush", "finish"}, NEW n \in Nat, NEW out \in AnySpan, NEW o,
           IInv, IInv', Honest(handle, o), Tells(handle, op, n, out, o), Return(op, n, out, o)
    PROVE  CInv'
<1>1. handle' = o.h /\ last' = [op |-> op, n |-> n, out |-> out, r |-> o.r]
    BY DEF Return
<1>2. last'.op = op /\ last'.n = n /\ last'.out = out /\ last'.r = o.r
    BY <1>1
<1>3. /\ accepted' = Taken(handle')
      /\ wire' = SubSeq(Frame(handle'), 1, Written(handle')) /\ Shape(handle')
    BY DEF IInv, NoLossNoDuplication
<1>4. Flushed(handle') => wire' = Frame(handle') /\ Upto(wire') = accepted'
    BY <1>3, HandleParts, WholeFrame DEF Flushed
<1>5. EngineInv(handle')
    BY <1>1 DEF Tells
<1>6. PushProgress'
    BY <1>2 DEF PushProgress, Ok, Tells, PushTells
<1>7. RoomLeft' <=> Room(out, o.r)
    BY <1>2 DEF RoomLeft, Room, uInt
<1>8. FlushCovers'
    BY <1>1, <1>2, <1>4, <1>7 DEF FlushCovers, Ok, Tells, FlushTells
<1>9. FinishCloses'
    <2>1. Container' = HandleContainer(handle')
        BY DEF Container, HandleContainer
    <2> QED BY <1>1, <1>2, <1>4, <1>7, <2>1 DEF FinishCloses, Ok, Tells, FinishTells
<1> QED BY <1>5, <1>6, <1>8, <1>9 DEF CInv

LEMMA MadeEngine ==
    ASSUME NEW f
    PROVE  EngineInv(make_squeezer(f))
<1>1. Well(<<>>) /\ NoLast(<<>>) /\ Upto(<<>>) = 0 /\ Len(<<>>) = 0
    BY DEF Well, NoLast, Upto
<1>2. ZInv(zlib_squeezer(f))
    BY <1>1 DEF zlib_squeezer, deflateInit, ZInv, ZShape, ZEnds, ZSynced
<1>3. XInv(createCCtx)
    BY <1>1 DEF createCCtx, XInv, XShape, XHeld
<1> QED BY <1>2, <1>3
        DEF make_squeezer, EngineInv, ZlibHandle, ZstdHandle, StubHandle

LEMMA InitCInv == Init => CInv
BY InitIInv DEF Init, CInv, EngineInv, NoHandle, NoCall, FlushCovers, FinishCloses, PushProgress, Ok

LEMMA NextCInv == CInv /\ [Next]_vars => CInv'
<1> SUFFICES ASSUME CInv, [Next]_vars
             PROVE  CInv'
    OBVIOUS
<1>0. IInv /\ IInv' /\ EngineInv(handle) /\ Shape(handle)
    BY NextIInv DEF CInv, IInv
<1>a. last'.op \notin {"push", "flush", "finish"} => FlushCovers' /\ FinishCloses' /\ PushProgress'
    BY DEF FlushCovers, FinishCloses, PushProgress, Ok
<1>1. ASSUME NEW f \in Requests, NEW lvl \in Levels, Construct(f, lvl)
      PROVE  CInv'
    <2>1. handle' = handle \/ handle' = make_squeezer(f)
        BY <1>1 DEF Construct
    <2>2. last'.op = "construct"
        BY <1>1 DEF Construct, NoCall
    <2>3. EngineInv(handle')
        BY <1>0, <2>1, MadeEngine
    <2> QED BY <1>0, <1>a, <2>2, <2>3 DEF CInv
<1>2. ASSUME NEW n \in 0 .. MaxIn, NEW out \in Spans(MaxOut), push(n, out)
      PROVE  CInv'
    <2>1. PICK o \in push_visitor(handle, n, out) : Return("push", n, out, o)
        BY <1>2 DEF push
    <2>2. out \in AnySpan /\ n \in Nat /\ handle # NoHandle
        BY <1>2, CompressorAssumption, SpanType DEF push, Live
    <2>3. Honest(handle, o) /\ Tells(handle, "push", n, out, o)
        BY <1>0, <2>1, <2>2, VisitHonest, VisitTells
    <2> QED BY <1>0, <2>1, <2>2, <2>3, ReturnTells
<1>3. ASSUME NEW out \in Spans(MaxOut), flush(out)
      PROVE  CInv'
    <2>1. PICK o \in flush_visitor(handle, out) : Return("flush", 0, out, o)
        BY <1>3 DEF flush
    <2>2. out \in AnySpan /\ handle # NoHandle
        BY <1>3, CompressorAssumption, SpanType DEF flush, Live
    <2>3. Honest(handle, o) /\ Tells(handle, "flush", 0, out, o)
        BY <1>0, <2>1, <2>2, VisitHonest, VisitTells
    <2> QED BY <1>0, <2>1, <2>2, <2>3, ReturnTells
<1>4. ASSUME NEW out \in Spans(MaxOut), finish(out)
      PROVE  CInv'
    <2>1. PICK o \in finish_visitor(handle, out) : Return("finish", 0, out, o)
        BY <1>4 DEF finish
    <2>2. out \in AnySpan /\ handle # NoHandle
        BY <1>4, CompressorAssumption, SpanType DEF finish, Live
    <2>3. Honest(handle, o) /\ Tells(handle, "finish", 0, out, o)
        BY <1>0, <2>1, <2>2, VisitHonest, VisitTells
    <2> QED BY <1>0, <2>1, <2>2, <2>3, ReturnTells
<1>5. CASE Destroy
    <2>1. handle' = NoHandle /\ last'.op = "none"
        BY <1>5 DEF Destroy, NoCall
    <2>2. EngineInv(handle')
        BY <2>1 DEF EngineInv, NoHandle
    <2> QED BY <1>0, <1>a, <2>1, <2>2 DEF CInv
<1>6. CASE UNCHANGED vars
    BY <1>0, <1>6 DEF vars, CInv, FlushCovers, FinishCloses, PushProgress, Ok, RoomLeft, Container
<1> QED BY <1>1, <1>2, <1>3, <1>4, <1>5, <1>6 DEF Next

(***************************************************************************)
(* After a flush that left room the receiver can decode everything that    *)
(* was accepted, for every engine, container, block size and history of    *)
(* calls, and a zlib stream then ends with the sync marker.                *)
(***************************************************************************)
THEOREM FlushesCover == Spec => []FlushCovers
<1>1. CInv => FlushCovers
    BY DEF CInv
<1> QED BY InitCInv, NextCInv, <1>1, PTL DEF Spec

(***************************************************************************)
(* After a finish that left room the wire is a complete stream, trailer    *)
(* included, of everything accepted, however many calls ran out of output. *)
(***************************************************************************)
THEOREM FinishesClose == Spec => []FinishCloses
<1>1. CInv => FinishCloses
    BY DEF CInv
<1> QED BY InitCInv, NextCInv, <1>1, PTL DEF Spec

(***************************************************************************)
(* A push that is offered symbols and room, and does not fail, moves       *)
(* symbols or units: no chunk loop around it can spin.                     *)
(***************************************************************************)
THEOREM PushesProgress == Spec => []PushProgress
<1>1. CInv => PushProgress
    BY DEF CInv
<1> QED BY InitCInv, NextCInv, <1>1, PTL DEF Spec
-----------------------------------------------------------------------------
(***************************************************************************)
(* A backend that is not compiled in.  The default case of make_squeezer   *)
(* serves lz4_frame with zlib, so the promise is one to callers who do not *)
(* ask for that format, or who have no zlib.                               *)
(***************************************************************************)
NoDefaulted == "lz4_frame" \notin Requests \/ "zlib" \notin Compiled

MInv ==
    /\ fmt \notin Served => handle \in {NoHandle, StubHandle}
    /\ MissingBackendFails

LEMMA StubFails ==
    ASSUME NEW n, NEW out,
           NEW o \in push_visitor(StubHandle, n, out) \cup flush_visitor(StubHandle, out)
                     \cup finish_visitor(StubHandle, out)
    PROVE  o.h = StubHandle /\ o.r.kind = "format_mismatch"
<1>1. StubHandle.alt \notin {"zlib_squeezer", "zstd_squeezer"}
    BY DEF StubHandle
<1>2. \E done : o \in WithDone(OnStub(StubHandle), done)
    <2>1. CASE o \in push_visitor(StubHandle, n, out)
        BY <1>1, <2>1 DEF push_visitor
    <2>2. CASE o \in flush_visitor(StubHandle, out)
        BY <1>1, <2>2 DEF flush_visitor
    <2>3. CASE o \in finish_visitor(StubHandle, out)
        BY <1>1, <2>3 DEF finish_visitor
    <2> QED BY <2>1, <2>2, <2>3
<1>3. o.h = StubHandle /\ o.r = Unexpected("format_mismatch")
    BY <1>2 DEF WithDone, OnStub, Unexpected
<1> QED BY <1>3 DEF Unexpected

LEMMA NextMInv ==
    ASSUME NoDefaulted, MInv, [Next]_vars
    PROVE  MInv'
<1>1. ASSUME NEW f \in Requests, NEW lvl \in Levels, Construct(f, lvl)
      PROVE  MInv'
    <2>1. last'.op = "construct"
        BY <1>1 DEF Construct, NoCall
    <2>2. \/ fmt' = fmt /\ handle' = handle
          \/ fmt' = f /\ handle' = make_squeezer(f)
        BY <1>1 DEF Construct
    <2>3. f \notin Served => make_squeezer(f) = StubHandle
        <3>1. f \in Formats
            BY CompressorAssumption
        <3> QED BY <3>1 DEF NoDefaulted, Served, Formats, ZlibFormats, ZstdFormats, make_squeezer
    <2> QED BY <2>1, <2>2, <2>3 DEF MInv, MissingBackendFails
<1>2. ASSUME handle # NoHandle, NEW op, NEW n, NEW out,
             NEW o \in push_visitor(handle, n, out) \cup flush_visitor(handle, out)
                       \cup finish_visitor(handle, out),
             Return(op, n, out, o)
      PROVE  MInv'
    <2>1. fmt' = fmt /\ handle' = o.h /\ last'.r = o.r
        BY <1>2 DEF Return
    <2>2. fmt \notin Served => o.h = StubHandle /\ o.r.kind = "format_mismatch"
        BY <1>2, StubFails DEF MInv
    <2> QED BY <2>1, <2>2 DEF MInv, MissingBackendFails
<1>3. ASSUME NEW n \in 0 .. MaxIn, NEW out \in Spans(MaxOut), push(n, out)
      PROVE  MInv'
    BY <1>2, <1>3 DEF push, Live
<1>4. ASSUME NEW out \in Spans(MaxOut), flush(out)
      PROVE  MInv'
    BY <1>2, <1>4 DEF flush, Live
<1>5. ASSUME NEW out \in Spans(MaxOut), finish(out)
      PROVE  MInv'
    BY <1>2, <1>5 DEF finish, Live
<1>6. CASE Destroy
    BY <1>6 DEF Destroy, NoCall, MInv, MissingBackendFails
<1>7. CASE UNCHANGED vars
    BY <1>7 DEF vars, MInv, MissingBackendFails
<1> QED BY <1>1, <1>3, <1>4, <1>5, <1>6, <1>7 DEF Next

(***************************************************************************)
(* Every call on a format whose backend is not compiled in fails with      *)
(* format_mismatch, whatever was called before.                            *)
(***************************************************************************)
THEOREM MissingBackendsFail ==
    ASSUME NoDefaulted
    PROVE  Spec => []MissingBackendFails
<1>1. Init => MInv
    BY DEF Init, MInv, NoCall, MissingBackendFails
<1>2. MInv /\ [Next]_vars => MInv'
    BY NextMInv
<1>3. MInv => MissingBackendFails
    BY DEF MInv
<1> QED BY <1>1, <1>2, <1>3, PTL DEF Spec

-----------------------------------------------------------------------------
(***************************************************************************)
(* The contract.  A zstd stream can be continued after its end, in another *)
(* frame, so it is the zlib family's: no caller gets a zstd handle.        *)
(***************************************************************************)
ZlibFamily == "zstd" \notin Compiled \/ "zstd" \notin Requests

RInv == CInv /\ handle.alt # "zstd_squeezer"

\* What was written of a stream that only grows, its receiver keeps.
LEMMA ViewGrows ==
    ASSUME NEW f \in Seq(Unit), NEW g \in Seq(Unit), Well(g), Extends(g, f),
           NEW w \in Nat, w <= Len(f), NEW v \in Nat, v <= Len(g), w <= v
    PROVE  /\ Upto(SubSeq(f, 1, w)) \in Nat /\ Upto(SubSeq(g, 1, v)) \in Nat
           /\ Upto(SubSeq(f, 1, w)) <= Upto(SubSeq(g, 1, v))
           /\ Upto(SubSeq(g, 1, v)) <= Upto(g)
           /\ w = v => Upto(SubSeq(f, 1, w)) = Upto(SubSeq(g, 1, v))
<1>1. /\ w \in 0 .. Len(f) /\ v \in 0 .. Len(g) /\ w \in 0 .. Len(g)
      /\ w > 0 => w \in 1 .. Len(f) /\ w \in 1 .. Len(g)
      /\ v > 0 => v \in 1 .. Len(g)
    OBVIOUS
<1>2. /\ Upto(SubSeq(f, 1, w)) = IF w = 0 THEN 0 ELSE f[w].upto
      /\ Upto(SubSeq(g, 1, v)) = IF v = 0 THEN 0 ELSE g[v].upto
    BY <1>1, PrefixUpto
<1>3. w > 0 => f[w] = g[w]
    BY <1>1 DEF Extends
<1>4. /\ v > 0 => g[v].upto \in Nat /\ g[v].upto <= Upto(g)
      /\ w > 0 => g[w].upto \in Nat
      /\ Upto(g) \in Nat
    BY <1>1, UptoBounds, UptoType
<1>5. w > 0 => g[w].upto <= g[v].upto
    BY <1>1 DEF Well
<1> HIDE DEF Upto
<1> QED BY <1>2, <1>3, <1>4, <1>5

\* What was written is complete when all of it is, and only then.
LEMMA CompleteClosed ==
    ASSUME NEW z \in ZStream, ZInv(z)
    PROVE  Complete(z.fmt, SubSeq(z.frame, 1, z.total_out)) <=> ZClosed(z)
<1> DEFINE w == SubSeq(z.frame, 1, z.total_out)
           t == TailLen(z.fmt)
           i == z.total_out - t
<1>1. /\ z.frame \in Seq(Unit) /\ z.total_out \in Nat /\ z.total_out <= Len(z.frame)
      /\ Len(z.frame) \in Nat /\ t \in Nat
      /\ z.status \in {"INIT", "BUSY", "FINISH", "ENDED"}
    BY TailLenType DEF ZStream, ZInv, ZShape
<1>2. Len(w) = z.total_out /\ \A j \in 1 .. z.total_out : w[j] = z.frame[j]
    BY <1>1, PrefixUpto
<1> HIDE DEF w, t
<1>3. Complete(z.fmt, w) <=> i > 0 /\ z.frame[i].kind = "last"
    <2>1. Complete(z.fmt, w) <=> i > 0 /\ w[i].kind = "last"
        BY <1>2 DEF Complete, t
    <2>2. i > 0 => i \in 1 .. z.total_out
        BY <1>1
    <2> QED BY <1>2, <2>1, <2>2
<1>4. i > 0 => i \in 1 .. Len(z.frame)
    BY <1>1
<1>5. i \in Int /\ i <= z.total_out /\ (i = z.total_out <=> t = 0)
      /\ (i = Len(z.frame) - t <=> z.total_out = Len(z.frame))
    BY <1>1
<1> HIDE DEF i
<1>6. CASE z.status \in {"INIT", "BUSY"}
    BY <1>3, <1>4, <1>6 DEF ZClosed, ZInv, ZEnds, NoLast, w
<1>7. CASE z.status = "FINISH"
    <2>1. Len(z.frame) \in 1 .. Len(z.frame) /\
          \A j \in 1 .. Len(z.frame) : z.frame[j].kind = "last" <=> j = Len(z.frame)
        BY <1>7 DEF ZInv, ZEnds, EndsAt, LastAt
    <2>2. Complete(z.fmt, w) <=> i = Len(z.frame)
        BY <1>3, <1>4, <2>1
    <2>3. i = Len(z.frame) <=> z.total_out = Len(z.frame) /\ t = 0
        BY <1>1, <1>5
    <2> QED BY <1>7, <2>2, <2>3 DEF ZClosed, t, w
<1>8. CASE z.status = "ENDED"
    <2>1. Len(z.frame) - t \in 1 .. Len(z.frame) /\
          \A j \in 1 .. Len(z.frame) : z.frame[j].kind = "last" <=> j = Len(z.frame) - t
        BY <1>8 DEF ZInv, ZEnds, EndsAt, LastAt, t
    <2>2. Complete(z.fmt, w) <=> i = Len(z.frame) - t
        BY <1>3, <1>4, <2>1
    <2> QED BY <1>5, <1>8, <2>2 DEF ZClosed, w
<1> QED BY <1>1, <1>6, <1>7, <1>8 DEF w

\* The phase of the contract.
Phase == IF handle = NoHandle THEN "none"
         ELSE IF Complete(Container, wire) THEN "ended" ELSE "open"

\* The phase of a handle h of which w was written.
PhaseOf(h, w) == IF h = NoHandle THEN "none"
                 ELSE IF Complete(HandleContainer(h), w) THEN "ended" ELSE "open"

LEMMA EmptyIncomplete == \A c : ~Complete(c, <<>>)
BY TailLenType DEF Complete

LEMMA PhaseClosed ==
    ASSUME NEW h, Shape(h), EngineInv(h), h # NoHandle, h.alt # "zstd_squeezer",
           NEW w, w = SubSeq(Frame(h), 1, Written(h))
    PROVE  PhaseOf(h, w) = IF h.alt = "zlib_squeezer" /\ ZClosed(h.z)
                           THEN "ended" ELSE "open"
<1>1. CASE h.alt = "zlib_squeezer"
    <2>1. h.z \in ZStream /\ ZInv(h.z)
        BY <1>1 DEF Shape, AnyHandle, NoHandle, StubHandle, EngineInv
    <2>2. HandleContainer(h) = h.z.fmt /\ w = SubSeq(h.z.frame, 1, h.z.total_out)
        BY <1>1 DEF HandleContainer, Frame, Written
    <2>3. Complete(HandleContainer(h), w) <=> ZClosed(h.z)
        BY <2>1, <2>2, CompleteClosed
    <2> QED BY <1>1, <2>3 DEF PhaseOf
<1>2. CASE h.alt # "zlib_squeezer"
    <2>1. h = StubHandle
        BY <1>2 DEF Shape, AnyHandle
    <2>2. w = <<>>
        BY <2>1, NoHandleParts DEF StubHandle, Frame, Written
    <2>3. ~Complete(HandleContainer(h), w)
        BY <2>2, EmptyIncomplete
    <2> QED BY <1>2, <2>3 DEF PhaseOf
<1> QED BY <1>1, <1>2

LEMMA CallRefines ==
    ASSUME RInv, RInv', handle # NoHandle, handle' # NoHandle, NEW op, NEW n, NEW out, NEW o,
           op = "finish" => n = 0,
           Honest(handle, o), Tells(handle, op, n, out, o), Return(op, n, out, o)
    PROVE  [Contract!CNext]_<<accepted, Upto(wire), Phase>>
<1>1. /\ handle' = o.h /\ handle'.alt = handle.alt
      /\ accepted' = accepted + o.r.in /\ Written(handle') = Written(handle) + o.r.out
      /\ o.r.in \in Nat /\ o.r.out \in Nat /\ Extends(Frame(handle'), Frame(handle))
    BY DEF Return, Honest, Result
<1>2. /\ Shape(handle) /\ wire = SubSeq(Frame(handle), 1, Written(handle))
      /\ accepted = Taken(handle) /\ EngineInv(handle)
      /\ Shape(handle') /\ wire' = SubSeq(Frame(handle'), 1, Written(handle'))
      /\ accepted' = Taken(handle') /\ EngineInv(handle')
    BY DEF RInv, CInv, IInv, NoLossNoDuplication
<1>3. /\ Frame(handle) \in Seq(Unit) /\ Frame(handle') \in Seq(Unit)
      /\ Taken(handle) \in Nat /\ Taken(handle') \in Nat
      /\ Written(handle) \in Nat /\ Written(handle) <= Len(Frame(handle))
      /\ Written(handle') \in Nat /\ Written(handle') <= Len(Frame(handle'))
    BY <1>2, HandleParts
<1>4. /\ Well(Frame(handle')) /\ Upto(Frame(handle')) <= Taken(handle')
    <2>1. CASE handle'.alt = "zlib_squeezer"
        BY <1>2, <2>1 DEF EngineInv, ZInv, Frame, Taken
    <2>2. CASE handle'.alt # "zlib_squeezer"
        <3>1. handle' = StubHandle
            BY <1>2, <2>2 DEF RInv, Shape, AnyHandle
        <3>2. Frame(handle') = <<>> /\ Taken(handle') = 0
            BY <3>1 DEF StubHandle, Frame, Taken
        <3> QED BY <3>2 DEF Well, Upto
    <2> QED BY <2>1, <2>2
<1>5. /\ Upto(wire) \in Nat /\ Upto(wire') \in Nat /\ Upto(wire) <= Upto(wire')
      /\ Upto(wire') <= Upto(Frame(handle'))
      /\ o.r.out = 0 => Upto(wire) = Upto(wire')
    <2>1. Written(handle) <= Written(handle')
          /\ (o.r.out = 0 => Written(handle) = Written(handle'))
        BY <1>1, <1>3
    <2> QED BY <1>1, <1>2, <1>3, <1>4, <2>1, ViewGrows
<1>6. Upto(wire') <= accepted' /\ accepted' >= accepted /\ accepted \in Nat /\ accepted' \in Nat
      /\ Upto(Frame(handle')) \in Nat
    BY <1>1, <1>2, <1>3, <1>4, <1>5, UptoType, SMTT(30)
<1> DEFINE closed == handle.alt = "zlib_squeezer" /\ ZClosed(handle.z)
           closes == handle.alt = "zlib_squeezer" /\ ZClosed(handle'.z)
<1>7. /\ Phase = IF closed THEN "ended" ELSE "open"
      /\ Phase' = IF closes THEN "ended" ELSE "open"
    <2>1. Phase' = IF handle'.alt = "zlib_squeezer" /\ ZClosed(handle'.z) THEN "ended" ELSE "open"
        <3>1. Phase' = PhaseOf(handle', wire')
            BY DEF Phase, PhaseOf, Container, HandleContainer
        <3> QED BY <1>1, <1>2, <3>1, PhaseClosed DEF RInv
    <2>2. Phase = IF closed THEN "ended" ELSE "open"
        <3>1. Phase = PhaseOf(handle, wire)
            BY DEF Phase, PhaseOf, Container, HandleContainer
        <3> QED BY <1>2, <3>1, PhaseClosed DEF RInv
    <2> QED BY <1>1, <2>1, <2>2
<1>8. /\ closed => closes /\ o.r.in = 0 /\ o.r.out = 0
      /\ closes /\ ~closed => o.r.in = 0
    BY <1>1 DEF Tells, EndTells
<1>9. closes => Upto(wire') = accepted'
    <2> SUFFICES ASSUME closes PROVE Upto(wire') = accepted'
        OBVIOUS
    <2>1. /\ handle'.alt = "zlib_squeezer" /\ ZClosed(handle'.z) /\ ZInv(handle'.z)
        BY <1>1, <1>2 DEF EngineInv
    <2>2. Written(handle') = Len(Frame(handle')) /\ Upto(Frame(handle')) = Taken(handle')
        BY <2>1 DEF Written, Frame, Taken, ZClosed, ZInv, ZEnds
    <2>3. wire' = Frame(handle')
        BY <1>2, <1>3, <2>2, WholeFrame
    <2> QED BY <1>2, <2>2, <2>3
<1> HIDE DEF closed, closes
<1>10. CASE closed
    BY <1>1, <1>5, <1>6, <1>7, <1>8, <1>10
<1>11. CASE ~closed /\ ~closes
    <2>1. Contract!Transfer
        BY <1>5, <1>6, <1>7, <1>11 DEF Contract!Transfer, Phase
    <2> QED BY <2>1 DEF Contract!CNext
<1>12. CASE ~closed /\ closes
    <2>1. Contract!End
        BY <1>1, <1>6, <1>7, <1>8, <1>9, <1>12 DEF Contract!End, Phase
    <2> QED BY <2>1 DEF Contract!CNext
<1> QED BY <1>10, <1>11, <1>12

LEMMA NextRefines ==
    ASSUME ZlibFamily, RInv, CInv', [Next]_vars
    PROVE  RInv' /\ [Contract!CNext]_<<accepted, Upto(wire), Phase>>
<1>0. NoHandle.alt # "zstd_squeezer"
    BY DEF NoHandle
<1>1. ASSUME NEW f \in Requests, NEW lvl \in Levels, Construct(f, lvl)
      PROVE  RInv' /\ [Contract!CNext]_<<accepted, Upto(wire), Phase>>
    <2>1. CASE f # "zstd" /\ lvl \notin 0 .. 9
        <3>1. UNCHANGED <<fmt, handle, accepted, wire>>
            BY <1>1, <2>1 DEF Construct
        <3> QED BY <3>1 DEF RInv, Phase, Container
    <2>2. CASE ~(f # "zstd" /\ lvl \notin 0 .. 9)
        <3>1. /\ handle = NoHandle /\ handle' = make_squeezer(f)
              /\ accepted' = 0 /\ wire' = <<>>
            BY <1>1, <2>2 DEF Construct
        <3>2. handle' # NoHandle /\ handle'.alt # "zstd_squeezer"
            BY <3>1 DEF make_squeezer, ZlibFamily, ZlibHandle, ZstdHandle, StubHandle, NoHandle
        <3>3. Phase = "none" /\ Phase' = "open" /\ Upto(wire') = 0
            BY <3>1, <3>2, TailLenType DEF Phase, Complete, Upto
        <3>4. Contract!Open
            BY <3>1, <3>3 DEF Contract!Open, Phase
        <3> QED BY <3>2, <3>4 DEF RInv, Contract!CNext
    <2> QED BY <2>1, <2>2
<1>2. ASSUME NEW op, NEW n \in Nat, NEW out \in AnySpan, NEW o, handle # NoHandle,
             op = "finish" => n = 0, Return(op, n, out, o),
             \/ op = "push" /\ o \in push_visitor(handle, n, out)
             \/ op = "flush" /\ o \in flush_visitor(handle, out)
             \/ op = "finish" /\ o \in finish_visitor(handle, out)
      PROVE  RInv' /\ [Contract!CNext]_<<accepted, Upto(wire), Phase>>
    <2>1. Shape(handle) /\ EngineInv(handle)
        BY DEF RInv, CInv, IInv
    <2>2. Honest(handle, o) /\ Tells(handle, op, n, out, o)
        BY <1>2, <2>1, VisitHonest, VisitTells
    <2>3. handle' = o.h /\ handle'.alt = handle.alt
        BY <1>2, <2>2 DEF Return, Honest
    <2>4. RInv'
        BY <2>3 DEF RInv
    <2>5. handle' # NoHandle
        BY <1>2, <2>1, <2>3 DEF Shape, AnyHandle, NoHandle, StubHandle
    <2> QED BY <1>2, <2>2, <2>4, <2>5, CallRefines
<1>3. ASSUME NEW n \in 0 .. MaxIn, NEW out \in Spans(MaxOut), push(n, out)
      PROVE  RInv' /\ [Contract!CNext]_<<accepted, Upto(wire), Phase>>
    <2>1. PICK o \in push_visitor(handle, n, out) : Return("push", n, out, o)
        BY <1>3 DEF push
    <2>2. out \in AnySpan /\ n \in Nat /\ handle # NoHandle
        BY <1>3, CompressorAssumption, SpanType DEF push, Live
    <2> QED BY <1>2, <2>1, <2>2
<1>4. ASSUME NEW out \in Spans(MaxOut), flush(out)
      PROVE  RInv' /\ [Contract!CNext]_<<accepted, Upto(wire), Phase>>
    <2>1. PICK o \in flush_visitor(handle, out) : Return("flush", 0, out, o)
        BY <1>4 DEF flush
    <2>2. out \in AnySpan /\ handle # NoHandle
        BY <1>4, CompressorAssumption, SpanType DEF flush, Live
    <2> QED BY <1>2, <2>1, <2>2
<1>5. ASSUME NEW out \in Spans(MaxOut), finish(out)
      PROVE  RInv' /\ [Contract!CNext]_<<accepted, Upto(wire), Phase>>
    <2>1. PICK o \in finish_visitor(handle, out) : Return("finish", 0, out, o)
        BY <1>5 DEF finish
    <2>2. out \in AnySpan /\ handle # NoHandle
        BY <1>5, CompressorAssumption, SpanType DEF finish, Live
    <2> QED BY <1>2, <2>1, <2>2
<1>6. CASE Destroy
    <2>1. handle # NoHandle /\ handle' = NoHandle /\ accepted' = 0 /\ wire' = <<>>
        BY <1>6 DEF Destroy
    <2>2. Phase \in {"open", "ended"} /\ Phase' = "none" /\ Upto(wire') = 0
        BY <2>1 DEF Phase, Upto
    <2>3. Contract!Close
        BY <2>1, <2>2 DEF Contract!Close, Phase
    <2> QED BY <1>0, <2>1, <2>3 DEF RInv, Contract!CNext
<1>7. CASE UNCHANGED vars
    BY <1>7 DEF vars, RInv, Phase, Container
<1> QED BY <1>1, <1>3, <1>4, <1>5, <1>6, <1>7 DEF Next

(***************************************************************************)
(* The compressor of the zlib family implements StreamContract: what the   *)
(* receiver can decode only grows and stays within what was accepted, and  *)
(* a stream that is complete on the wire is left alone by push, flush and  *)
(* finish, however they are called.                                        *)
(***************************************************************************)
THEOREM CompressorImplementsContract ==
    ASSUME ZlibFamily
    PROVE  Spec => ImplementsContract
<1>1. Init => RInv /\ Contract!CInit
    BY InitCInv DEF Init, RInv, NoHandle, Contract!CInit, Upto
<1>2. RInv /\ [Next]_vars => RInv' /\ [Contract!CNext]_<<accepted, Upto(wire), Phase>>
    BY NextCInv, NextRefines DEF RInv
<1>3. Spec => Contract!CInit /\ [][Contract!CNext]_<<accepted, Upto(wire), Phase>>
    BY <1>1, <1>2, PTL DEF Spec
<1> QED BY <1>3, PTL DEF ImplementsContract, Contract!CSpec, Contract!cvars, Phase
-----------------------------------------------------------------------------
(***************************************************************************)
(* What the receiver of a stream relies on: that zstd's is framed, that    *)
(* the data does not end before finish, and ends with everything taken.    *)
(***************************************************************************)
\* No more than a header and a unit for each symbol.
Lean(f) == Len(f) <= Upto(f) + 1

\* The data ends with the symbols up to e, wherever it ends.
LastsAt(f, e) == \A i \in 1 .. Len(f) : f[i].kind = "last" => f[i].upto = e

OneFrame(f) == \A i \in 1 .. Len(f) : f[i].kind = "last" => i = Len(f)

LEMMA OpenedSends ==
    ASSUME NEW f \in Seq(Unit), Well(f)
    PROVE  /\ Framed(f) => Framed(Opened(f))
           /\ Extends(Opened(f), f) /\ Opened(f) # <<>>
           /\ \A i \in Len(f) + 1 .. Len(Opened(f)) : Opened(f)[i].kind = "hdr"
           /\ NoLast(f) /\ Lean(f) => Lean(Opened(f))
<1> DEFINE o == Opened(f)
<1>1. CASE Ended(f)
    <2>1. o = Grow(f, "hdr")
        BY <1>1 DEF Opened
    <2>2. /\ Len(o) = Len(f) + 1 /\ Upto(o) = Upto(f) /\ Extends(o, f)
          /\ o[Len(f) + 1].kind = "hdr"
        <3>1. /\ Len(Grow(f, "hdr")) = Len(f) + 1 /\ Upto(Grow(f, "hdr")) = Upto(f)
              /\ Extends(Grow(f, "hdr"), f)
            BY GrowType
        <3>2. Grow(f, "hdr")[Len(f) + 1].kind = "hdr"
            BY GrowWell
        <3> QED BY <2>1, <3>1, <3>2
    <2>3. Framed(f) => Framed(o)
        BY <1>1, <2>1, FramedAgain DEF Ended
    <2> HIDE DEF o
    <2>4. Len(f) \in Nat /\ o # <<>>
        BY <2>2
    <2>5. \A i \in Len(f) + 1 .. Len(o) : o[i].kind = "hdr"
        <3>1. \A i \in Len(f) + 1 .. Len(o) : i = Len(f) + 1
            BY <2>2, <2>4
        <3> QED BY <2>2, <3>1
    <2>6. NoLast(f) => Len(f) = 0
        BY <1>1, <2>4 DEF Ended, NoLast
    <2>7. NoLast(f) => Lean(o)
        <3>1. Upto(f) \in Nat
            BY UptoType
        <3> QED BY <2>2, <2>6, <3>1 DEF Lean
    <2> QED BY <2>2, <2>3, <2>4, <2>5, <2>7 DEF o
<1>2. CASE ~Ended(f)
    <2>1. o = f /\ f # <<>>
        BY <1>2 DEF Opened, Ended
    <2>2. \A i \in Len(f) + 1 .. Len(f) : FALSE
        OBVIOUS
    <2> QED BY <2>1, <2>2, ExtendsReflexive
<1> QED BY <1>1, <1>2

LEMMA BlocksSend ==
    ASSUME NEW x \in CCtx, XInv(x), NEW e \in Nat, Upto(x.frame) <= e, NEW u \in Nat \ {0},
           e > Upto(x.frame) => u <= e - Upto(x.frame)
    PROVE  LET b == Blocks(x, e, u)
           IN  /\ Framed(x.frame) => Framed(b)
               /\ Extends(b, x.frame)
               /\ \A i \in Len(x.frame) + 1 .. Len(b) : b[i].kind # "last"
               /\ NoLast(x.frame) /\ Lean(x.frame) => Lean(b)
<1> DEFINE f == x.frame
           o == Opened(f)
           b == Blocks(x, e, u)
<1>1. f \in Seq(Unit) /\ Well(f) /\ Upto(f) \in Nat /\ Len(f) \in Nat
    BY UptoType DEF CCtx, XInv
<1> HIDE DEF f
<1>2. CASE e > Upto(f)
    <2>1. b = GrowBlock(o, e, u, "blk")
        BY <1>2 DEF Blocks, f
    <2>2. /\ o \in Seq(Unit) /\ Well(o) /\ Upto(o) = Upto(f) /\ Len(f) <= Len(o)
          /\ Framed(f) => Framed(o)
          /\ Extends(o, f) /\ o # <<>>
          /\ \A i \in Len(f) + 1 .. Len(o) : o[i].kind = "hdr"
          /\ NoLast(f) /\ Lean(f) => Lean(o)
        BY <1>1, OpenedWell, OpenedSends
    <2> HIDE DEF o, b
    <2>3. /\ b \in Seq(Unit) /\ Len(b) = Len(o) + u /\ Upto(b) = e
          /\ \A i \in 1 .. Len(o) : b[i] = o[i]
          /\ \A i \in Len(o) + 1 .. Len(b) : b[i].kind = "blk"
        <3>1. u <= e - Upto(o)
            BY <1>2, <2>2 DEF f
        <3>2. /\ b \in Seq(Unit) /\ Len(b) = Len(o) + u /\ Upto(b) = e
              /\ \A i \in 1 .. Len(o) : b[i] = o[i]
              /\ \A i \in Len(o) + 1 .. Len(b) : b[i].kind = IF i = Len(b) THEN "blk" ELSE "blk"
            BY <1>2, <2>1, <2>2, <3>1, GrowBlockWell
        <3> QED BY <3>2
    <2>4. Extends(b, o)
        BY <2>2, <2>3 DEF Extends
    <2>5. Extends(b, f)
        BY <1>1, <2>2, <2>3, <2>4, ExtendsTransitive
    <2>6. Framed(f) => Framed(b)
        BY <2>2, <2>3, <2>4, FramedOn
    <2>7. \A i \in Len(f) + 1 .. Len(b) : b[i].kind # "last"
        <3> TAKE i \in Len(f) + 1 .. Len(b)
        <3>1. CASE i \in Len(f) + 1 .. Len(o)
            BY <1>1, <2>2, <2>3, <3>1
        <3>2. CASE i \in Len(o) + 1 .. Len(b)
            BY <2>3, <3>2
        <3> QED BY <1>1, <2>2, <3>1, <3>2
    <2>8. NoLast(f) /\ Lean(f) => Lean(b)
        <3>1. u <= e - Upto(o) /\ Len(o) \in Nat
            BY <1>2, <2>2 DEF f
        <3> QED BY <1>1, <2>2, <2>3, <3>1 DEF Lean
    <2> QED BY <2>5, <2>6, <2>7, <2>8 DEF f, b
<1>3. CASE ~(e > Upto(f))
    <2>1. b = f
        BY <1>3 DEF Blocks, f
    <2>2. \A i \in Len(f) + 1 .. Len(f) : FALSE
        BY <1>1
    <2> QED BY <1>1, <2>1, <2>2, ExtendsReflexive DEF f
<1> QED BY <1>2, <1>3

\* What a call generates.
EncodedSends(f, op, e, g) ==
    /\ Framed(f) => Framed(g)
    /\ op # "end" /\ NoLast(f) => NoLast(g) /\ (Lean(f) => Lean(g))
    /\ op = "end" /\ LastsAt(f, e) => LastsAt(g, e)
    /\ op = "end" /\ NoLast(f) /\ Lean(f) => Len(g) <= e + 2 /\ OneFrame(g)

LEMMA EncodeSends ==
    ASSUME NEW x \in CCtx, XInv(x), NEW op, NEW n \in Nat, NEW m \in Nat,
           NEW c \in Bufferings(x, op, n, m)
    PROVE  EncodedSends(x.frame, op, c.e, Encoded(x, op, c))
<1> DEFINE f == x.frame
           e == c.e
           b == Blocks(x, e, c.u)
           g == Encoded(x, op, c)
<1>1. f \in Seq(Unit) /\ Well(f) /\ Len(f) \in Nat
    BY DEF CCtx, XInv
<1>2. /\ c.e \in Nat /\ c.u \in Nat \ {0} /\ Upto(x.frame) <= c.e
      /\ c.e > Upto(x.frame) => c.u <= c.e - Upto(x.frame)
    BY BufferingType
<1>3. /\ b \in Seq(Unit) /\ Well(b) /\ Upto(b) = e /\ Len(f) <= Len(b)
      /\ Framed(f) => Framed(b)
      /\ Extends(b, f)
      /\ \A i \in Len(f) + 1 .. Len(b) : b[i].kind # "last"
      /\ NoLast(f) /\ Lean(f) => Lean(b)
    BY <1>2, BlocksWell, BlocksSend
<1>4. g = IF op = "end" THEN Grow(Opened(b), "last") ELSE b
    BY DEF Encoded
<1> HIDE DEF f, e, b, g
<1>5. \A i \in 1 .. Len(b) : b[i].kind = "last" => i \in 1 .. Len(f) /\ b[i] = f[i]
    BY <1>1, <1>3 DEF Extends
<1>6. NoLast(f) => NoLast(b)
    BY <1>5 DEF NoLast
<1>7. CASE op # "end"
    BY <1>3, <1>4, <1>6, <1>7 DEF EncodedSends, f, e, g
<1>8. CASE op = "end"
    <2> DEFINE o == Opened(b)
    <2>1. /\ o \in Seq(Unit) /\ Well(o) /\ Upto(o) = e
          /\ Framed(b) => Framed(o)
          /\ Extends(o, b) /\ o # <<>>
          /\ \A i \in Len(b) + 1 .. Len(o) : o[i].kind = "hdr"
          /\ NoLast(b) /\ Lean(b) => Lean(o)
        BY <1>3, OpenedWell, OpenedSends
    <2>2. g = Grow(o, "last")
        BY <1>4, <1>8
    <2> HIDE DEF o
    <2>3. /\ g \in Seq(Unit) /\ Extends(g, o) /\ Len(g) = Len(o) + 1 /\ Upto(g) = e
          /\ g[Len(o) + 1].kind = "last"
        BY <2>1, <2>2, GrowType, GrowWell
    <2>4. \A i \in Len(o) + 1 .. Len(g) : i = Len(o) + 1
        BY <2>1, <2>3
    <2>5. Framed(f) => Framed(g)
        BY <1>3, <2>1, <2>3, <2>4, FramedOn
    <2>6. \A i \in 1 .. Len(g) : g[i].kind = "last" =>
              i = Len(g) \/ (i \in 1 .. Len(f) /\ g[i] = f[i])
        <3> TAKE i \in 1 .. Len(g)
        <3>1. CASE i \in 1 .. Len(b)
            <4>1. g[i] = b[i]
                BY <1>3, <2>1, <2>3, <3>1 DEF Extends
            <4> QED BY <1>5, <3>1, <4>1
        <3>2. CASE i \in Len(b) + 1 .. Len(o)
            <4>1. g[i] = o[i]
                BY <1>3, <2>1, <2>3, <3>2 DEF Extends
            <4> QED BY <2>1, <3>2, <4>1
        <3>3. CASE i \in Len(o) + 1 .. Len(g)
            BY <2>3, <2>4, <3>3
        <3> QED BY <1>3, <2>1, <3>1, <3>2, <3>3
    <2>7. LastsAt(f, e) => LastsAt(g, e)
        <3>1. Len(g) \in Nat \ {0} /\ g[Len(g)].upto = e
            BY <2>1, <2>3 DEF Upto
        <3> QED BY <2>6, <3>1 DEF LastsAt
    <2>8. NoLast(f) /\ Lean(f) => Len(g) <= e + 2 /\ OneFrame(g)
        <3>1. NoLast(f) => OneFrame(g)
            BY <2>6 DEF NoLast, OneFrame
        <3>2. NoLast(f) /\ Lean(f) => Len(o) <= e + 1
            BY <1>3, <1>6, <2>1 DEF Lean
        <3> QED BY <1>2, <2>1, <2>3, <3>1, <3>2 DEF e
    <2> QED BY <1>8, <2>5, <2>7, <2>8 DEF EncodedSends, f, e, g
<1> QED BY <1>7, <1>8

\* What a call does.  An end that has room for all of the frame needs no other.
XSends(x, op, n, m, s) ==
    /\ s.pos \in 0 .. n /\ (s.error => AllocFails)
    /\ Framed(x.frame) => Framed(s.x.frame)
    /\ op # "end" /\ NoLast(x.frame) =>
          NoLast(s.x.frame) /\ (Lean(x.frame) => Lean(s.x.frame))
    /\ op = "end" /\ n = 0 /\ LastsAt(x.frame, x.consumed) =>
          LastsAt(s.x.frame, s.x.consumed)
    /\ op = "end" /\ n = 0 /\ NoLast(x.frame) /\ Lean(x.frame) /\ x.consumed + 2 < m
          /\ ~s.error => s.outpos <= x.consumed + 2 /\ OneFrame(s.x.frame)

LEMMA CompressSends ==
    ASSUME NEW x \in CCtx, XInv(x), NEW op, NEW n \in Nat, NEW m \in Nat,
           NEW s \in compressStream2(x, op, n, m)
    PROVE  XSends(x, op, n, m, s)
<1>1. /\ x.frame \in Seq(Unit) /\ x.consumed \in Nat /\ x.flushed \in Nat
      /\ Upto(x.frame) \in Nat /\ Len(x.frame) \in Nat /\ XShape(x)
      /\ Upto(x.frame) <= x.consumed /\ x.flushed <= Len(x.frame)
    BY UptoType DEF CCtx, XInv, XShape
<1>2. CASE /\ s = [error |-> TRUE, pos |-> 0, outpos |-> 0, remaining |-> 0, x |-> x]
           /\ AllocFails
    BY <1>2 DEF XSends
<1>3. CASE /\ s = Drain(x, x.frame, 0, m)
           /\ ToFlush(x) > m \/ (ToFlush(x) > 0 /\ Ended(x.frame))
    <2>1. /\ ~s.error /\ s.pos = 0 /\ s.x.frame = x.frame /\ s.x.consumed = x.consumed
        <3>1. s.x.consumed = x.consumed + 0 /\ ~s.error /\ s.pos = 0 /\ s.x.frame = x.frame
            BY <1>3 DEF Drain
        <3> QED BY <1>1, <3>1
    <2>2. ~(NoLast(x.frame) /\ Lean(x.frame) /\ x.consumed + 2 < m)
        <3>1. ~(ToFlush(x) > 0 /\ Ended(x.frame) /\ NoLast(x.frame))
            BY <1>1 DEF ToFlush, Ended, NoLast
        <3>2. ~(ToFlush(x) > m /\ Lean(x.frame) /\ x.consumed + 2 < m)
            BY <1>1 DEF ToFlush, Lean
        <3> QED BY <1>3, <3>1, <3>2
    <2> QED BY <2>1, <2>2 DEF XSends
<1>4. CASE \E c \in Bufferings(x, op, n, m) : s = Drain(x, Encoded(x, op, c), c.t, m)
    <2>1. PICK c \in Bufferings(x, op, n, m) : s = Drain(x, Encoded(x, op, c), c.t, m)
        BY <1>4
    <2> DEFINE f == Encoded(x, op, c)
    <2>2. /\ c.t \in 0 .. n /\ c.t \in Nat /\ c.e \in Nat /\ c.u \in Nat \ {0}
          /\ op # "continue" => c.t = n /\ c.e = x.consumed + c.t
        BY BufferingType
    <2>3. EncodedSends(x.frame, op, c.e, f)
        BY EncodeSends
    <2>4. f \in Seq(Unit) /\ Len(x.frame) <= Len(f)
        BY <2>2, EncodedType DEF Extends
    <2> HIDE DEF f
    <2>5. s = Drain(x, f, c.t, m)
        BY <2>1 DEF f
    <2>6. /\ ~s.error /\ s.pos = c.t /\ s.x.frame = f /\ s.x.consumed = x.consumed + c.t
        BY <2>5 DEF Drain
    <2>7. s.outpos <= Len(f)
        BY <1>1, <2>4, <2>5 DEF Drain
    <2>8. op = "end" /\ n = 0 => c.e = x.consumed /\ s.x.consumed = x.consumed
        <3>1. "end" # "continue"
            OBVIOUS
        <3> QED BY <1>1, <2>2, <2>6, <3>1
    <2>9. op = "end" /\ n = 0 /\ NoLast(x.frame) /\ Lean(x.frame) =>
              s.outpos <= x.consumed + 2 /\ OneFrame(s.x.frame)
        <3>1. op = "end" /\ n = 0 /\ NoLast(x.frame) /\ Lean(x.frame) =>
                  Len(f) <= x.consumed + 2 /\ OneFrame(f)
            BY <2>3, <2>8 DEF EncodedSends
        <3>2. s.outpos \in Int /\ Len(f) \in Nat
            BY <1>1, <2>4, <2>5 DEF Drain
        <3> QED BY <1>1, <2>6, <2>7, <3>1, <3>2
    <2> QED BY <2>2, <2>3, <2>6, <2>8, <2>9 DEF XSends, EncodedSends
<1>5. \/ /\ s = [error |-> TRUE, pos |-> 0, outpos |-> 0, remaining |-> 0, x |-> x]
         /\ AllocFails
      \/ /\ s = Drain(x, x.frame, 0, m)
         /\ ToFlush(x) > m \/ (ToFlush(x) > 0 /\ Ended(x.frame))
      \/ \E c \in Bufferings(x, op, n, m) : s = Drain(x, Encoded(x, op, c), c.t, m)
    BY DEF compressStream2
<1> QED BY <1>2, <1>3, <1>4, <1>5

\* zlib ends the data when it is told to finish, and only then; and into a span
\* with an address it fails only where there is no room to finish.
ZSends(z, fl, n, m, d) ==
    /\ d.z \in ZStream /\ d.z.fmt = z.fmt
    /\ n = 0 => d.z.total_in = z.total_in
    /\ fl # "finish" /\ z.status \in {"INIT", "BUSY"} =>
          d.z.status \in {"INIT", "BUSY"} /\ d.ret \in {"OK", "BUF_ERROR"}
    /\ fl = "finish" /\ m > 0 => d.ret \in {"OK", "STREAM_END"}

LEMMA DeflateSends ==
    ASSUME NEW z \in ZStream, ZInv(z), NEW fl \in {"no", "sync", "finish"}, NEW n \in Nat,
           fl = "finish" => n = 0, NEW m \in Nat, NEW d \in deflate(z, fl, n, "buffer", m)
    PROVE  ZSends(z, fl, n, m, d)
<1>1. /\ ZStep(z, d.z)
      /\ d.ret \notin {"OK", "STREAM_END"} => d.z = z
      /\ d.ret = "STREAM_END" => fl = "finish"
    BY DeflateStep DEF ZInv
<1>2. /\ d.ret \in {"OK", "STREAM_END"} => m > 0 /\ ZTells(z, fl, n, m, d)
      /\ d.ret = "BUF_ERROR" => m = 0 \/ (fl = "sync" /\ z.last_flush = "sync" /\ n = 0)
      /\ d.ret \in {"OK", "STREAM_END", "BUF_ERROR", "STREAM_ERROR"}
    BY DeflateKeeps
<1>3. d.z \in ZStream /\ d.z.fmt = z.fmt /\ (n = 0 => d.z.total_in = z.total_in)
    BY <1>1, <1>2 DEF ZStep, ZTells
<1>4. d.ret = "STREAM_ERROR" => z.status \in {"FINISH", "ENDED"} /\ fl # "finish"
    <2> SUFFICES ASSUME ~(z.status \in {"FINISH", "ENDED"} /\ fl # "finish")
                 PROVE  d.ret # "STREAM_ERROR"
        OBVIOUS
    <2>1. \/ d.ret = "BUF_ERROR" \/ d.ret = "OK"
          \/ \E c \in Choices(z, fl, n, m) : d = Run(z, fl, m, c)
        BY DEF deflate
    <2>2. \A c \in Choices(z, fl, n, m) : Run(z, fl, m, c).ret \in {"OK", "STREAM_END"}
        BY DEF Run
    <2> QED BY <2>1, <2>2
<1>5. fl # "finish" /\ z.status \in {"INIT", "BUSY"} => d.z.status \in {"INIT", "BUSY"}
    <2> SUFFICES ASSUME fl # "finish", z.status \in {"INIT", "BUSY"}
                 PROVE  d.z.status \in {"INIT", "BUSY"}
        OBVIOUS
    <2>1. CASE d.z = z
        BY <2>1
    <2>2. CASE d = [ret |-> "OK", z |-> [z EXCEPT !.total_out = @ + m, !.last_flush = "other"]]
        BY <2>2 DEF ZStream
    <2>3. CASE \E c \in Choices(z, fl, n, m) : d = Run(z, fl, m, c)
        <3>1. PICK c \in Choices(z, fl, n, m) : d = Run(z, fl, m, c)
            BY <2>3
        <3> QED BY <3>1 DEF Run, ZStream
    <2>4. \/ d.z = z
          \/ d = [ret |-> "OK", z |-> [z EXCEPT !.total_out = @ + m, !.last_flush = "other"]]
          \/ \E c \in Choices(z, fl, n, m) : d = Run(z, fl, m, c)
        BY DEF deflate
    <2> QED BY <2>1, <2>2, <2>3, <2>4
<1>6. fl = "finish" /\ m > 0 => d.ret \in {"OK", "STREAM_END"}
    BY <1>2, <1>4
<1>7. fl # "finish" /\ z.status \in {"INIT", "BUSY"} => d.ret \in {"OK", "BUF_ERROR"}
    BY <1>1, <1>2, <1>4
<1> QED BY <1>3, <1>5, <1>6, <1>7 DEF ZSends

\* The data of the stream has not ended.
Unfinished(h) ==
    /\ h.alt = "zlib_squeezer" => h.z.status \in {"INIT", "BUSY"}
    /\ h.alt = "zstd_squeezer" => NoLast(h.x.frame)

\* What a call into a span with an address does to the stream, and when it fails.
ZlibSends(h, op, out, o) ==
    /\ o.h.z.fmt = h.z.fmt
    /\ op # "finish" /\ Unfinished(h) => o.r.kind = "ok"
    /\ op = "finish" /\ uInt(out.size) > 0 => o.r.kind = "ok"

ZstdSends(h, op, out, o) ==
    /\ ~AllocFails => o.r.kind = "ok"
    /\ Framed(h.x.frame) => Framed(o.h.x.frame)
    /\ op # "finish" /\ Unfinished(h) /\ Lean(h.x.frame) => Lean(o.h.x.frame)
    /\ op = "finish" /\ LastsAt(h.x.frame, h.x.consumed) => LastsAt(o.h.x.frame, o.h.x.consumed)
    /\ op = "finish" /\ Unfinished(h) /\ Lean(h.x.frame) /\ h.x.consumed + 2 < out.size
          /\ o.r.kind = "ok" => o.r.out <= h.x.consumed + 2 /\ OneFrame(o.h.x.frame)

Sends(h, op, out, o) ==
    /\ op = "finish" => o.r.in = 0
    /\ op # "finish" /\ Unfinished(h) => Unfinished(o.h)
    /\ h.alt = "zlib_squeezer" => ZlibSends(h, op, out, o)
    /\ h.alt = "zstd_squeezer" => ZstdSends(h, op, out, o)

\* The methods of the two squeezers.
LEMMA ReportSends ==
    ASSUME NEW z \in ZStream, ZInv(z), NEW fl \in {"no", "sync", "finish"}, NEW n \in Nat,
           fl = "finish" => n = 0, NEW m \in Nat, NEW d \in deflate(z, fl, n, "buffer", m),
           NEW good, IF fl = "finish" THEN good = {"STREAM_END", "OK"} ELSE good = {"OK", "BUF_ERROR"},
           NEW done, NEW o, o = Report(z, d, good, done)
    PROVE  /\ ZSends(z, fl, n, m, d) /\ o.z = d.z
           /\ n = 0 => o.r.in = 0
           /\ o.r.kind = "ok" <=> d.ret \in good
<1>1. ZSends(z, fl, n, m, d)
    BY DeflateSends
<1>2. n = 0 => d.z.total_in - z.total_in = 0
    BY <1>1 DEF ZSends, ZStream
<1>3. CASE d.ret \in good
    <2>1. o.z = d.z /\ o.r.in = d.z.total_in - z.total_in /\ o.r.kind = "ok"
        BY <1>3 DEF Report, Progress
    <2> QED BY <1>1, <1>2, <1>3, <2>1
<1>4. CASE d.ret \notin good
    <2>1. o.z = d.z /\ o.r.in = 0 /\ o.r.kind = "backend_failure"
        BY <1>4 DEF Report, Unexpected
    <2> QED BY <1>1, <1>4, <2>1
<1> QED BY <1>3, <1>4

LEMMA ZlibMethodsSend ==
    ASSUME NEW z \in ZStream, ZInv(z), NEW n \in Nat, NEW out \in AnySpan, out.data = "buffer",
           NEW op, NEW o,
           \/ op = "push" /\ o \in zlib_push_more(z, n, out)
           \/ op = "flush" /\ o \in zlib_flush(z, out)
           \/ op = "finish" /\ o \in zlib_finish(z, out)
    PROVE  Sends(ZlibHandle(z), op, out, [h |-> ZlibHandle(o.z), r |-> o.r])
<1> DEFINE m == uInt(out.size)
           fl == IF op = "push" THEN "no" ELSE IF op = "flush" THEN "sync" ELSE "finish"
           k == IF op = "push" THEN uInt(n) ELSE 0
           good == IF op = "finish" THEN {"STREAM_END", "OK"} ELSE {"OK", "BUF_ERROR"}
<1>1. m \in Nat /\ k \in Nat /\ uInt(0) = 0
    BY uIntType, uIntZero DEF AnySpan
<1>2. \E d \in deflate(z, fl, k, "buffer", m) : \E done : o = Report(z, d, good, done)
    <2>1. CASE op = "push"
        BY <2>1 DEF zlib_push_more
    <2>2. CASE op = "flush"
        BY <2>2 DEF zlib_flush
    <2>3. CASE op = "finish"
        BY <1>1, <2>3 DEF zlib_finish, zlib_push
    <2> QED BY <2>1, <2>2, <2>3
<1>0. PICK d \in deflate(z, fl, k, "buffer", m) : \E done : o = Report(z, d, good, done)
    BY <1>2
<1>3. PICK done : o = Report(z, d, good, done)
    BY <1>0
<1>4. /\ op = "finish" => fl = "finish" /\ k = 0 /\ good = {"STREAM_END", "OK"}
      /\ op # "finish" => fl # "finish" /\ good = {"OK", "BUF_ERROR"}
      /\ fl \in {"no", "sync", "finish"} /\ (fl = "finish" => op = "finish")
    OBVIOUS
<1> HIDE DEF fl, k, good
<1>5. /\ ZSends(z, fl, k, m, d) /\ o.z = d.z
      /\ k = 0 => o.r.in = 0
      /\ o.r.kind = "ok" <=> d.ret \in good
    <2>1. IF fl = "finish" THEN good = {"STREAM_END", "OK"} ELSE good = {"OK", "BUF_ERROR"}
        BY <1>4
    <2>2. fl = "finish" => k = 0
        BY <1>4
    <2>3. fl \in {"no", "sync", "finish"}
        BY <1>4
    <2> QED BY <1>1, <1>3, <2>1, <2>2, <2>3, ReportSends, SMTT(60)
<1>6. /\ d.z.fmt = z.fmt
      /\ op # "finish" /\ z.status \in {"INIT", "BUSY"} =>
            d.z.status \in {"INIT", "BUSY"} /\ o.r.kind = "ok"
      /\ op = "finish" => o.r.in = 0 /\ (m > 0 => o.r.kind = "ok")
    BY <1>4, <1>5 DEF ZSends
<1> HIDE DEF m
<1> QED BY <1>5, <1>6 DEF Sends, ZlibSends, Unfinished, ZlibHandle, m

LEMMA ZstdMethodsSend ==
    ASSUME NEW x \in CCtx, XInv(x), NEW n \in Nat, NEW out \in AnySpan, NEW op, NEW o,
           \/ op = "push" /\ o \in zstd_push_more(x, n, out)
           \/ op = "flush" /\ o \in zstd_flush(x, out)
           \/ op = "finish" /\ o \in zstd_finish(x, out)
    PROVE  Sends(ZstdHandle(x), op, out, [h |-> ZstdHandle(o.x), r |-> o.r])
<1> DEFINE m == out.size
           zop == IF op = "push" THEN "continue" ELSE IF op = "flush" THEN "flush" ELSE "end"
           k == IF op = "push" THEN n ELSE 0
<1>1. m \in Nat /\ k \in Nat
    BY DEF AnySpan
<1>2. \E s \in compressStream2(x, zop, k, m) : \E done : o = Outcome(s, done)
    <2>1. CASE op = "push"
        BY <2>1 DEF zstd_push_more
    <2>2. CASE op = "flush"
        BY <2>2 DEF zstd_flush
    <2>3. CASE op = "finish"
        BY <2>3 DEF zstd_finish
    <2> QED BY <2>1, <2>2, <2>3
<1>0. PICK s \in compressStream2(x, zop, k, m) : \E done : o = Outcome(s, done)
    BY <1>2
<1>3. PICK done : o = Outcome(s, done)
    BY <1>0
<1>4. op = "finish" <=> zop = "end"
    OBVIOUS
<1>5. op = "finish" => k = 0
    OBVIOUS
<1> HIDE DEF zop, k
<1>6. XSends(x, zop, k, m, s)
    BY <1>1, CompressSends
<1>7. /\ o.x = s.x /\ (o.r.kind = "ok" <=> ~s.error)
      /\ ~s.error => o.r.in = s.pos /\ o.r.out = s.outpos
      /\ s.error => o.r.in = 0
    BY <1>3 DEF Outcome, Progress, Unexpected
<1>8. k = 0 => o.r.in = 0
    BY <1>6, <1>7 DEF XSends
<1> QED BY <1>4, <1>5, <1>6, <1>7, <1>8
        DEF Sends, ZstdSends, Unfinished, ZstdHandle, XSends

LEMMA WithDoneSends ==
    ASSUME NEW h, NEW op, NEW out, NEW done, NEW outcomes,
           \A o \in outcomes : Sends(h, op, out, o)
    PROVE  \A o \in WithDone(outcomes, done) : Sends(h, op, out, o)
<1> SUFFICES ASSUME NEW o \in outcomes
             PROVE  Sends(h, op, out,
                          [h |-> o.h, r |-> IF o.r.kind = "ok"
                                            THEN Progress(o.r.in, o.r.out, done) ELSE o.r])
    BY DEF WithDone
<1> DEFINE r == IF o.r.kind = "ok" THEN Progress(o.r.in, o.r.out, done) ELSE o.r
           p == [h |-> o.h, r |-> r]
<1>1. (r.kind = "ok" <=> o.r.kind = "ok") /\ r.in = o.r.in /\ r.out = o.r.out
    BY DEF Progress
<1> HIDE DEF r
<1>2. p.h = o.h /\ p.r = r
    OBVIOUS
<1> HIDE DEF p
<1>3. Sends(h, op, out, o) => Sends(h, op, out, p)
    BY <1>1, <1>2 DEF Sends, ZlibSends, ZstdSends
<1>4. Sends(h, op, out, p)
    BY <1>3
<1> QED BY <1>4 DEF p, r

LEMMA VisitSends ==
    ASSUME NEW h, Shape(h), h # NoHandle, EngineInv(h), NEW n \in Nat, NEW out \in AnySpan,
           out.data = "buffer", NEW op, NEW o,
           \/ op = "push" /\ o \in push_visitor(h, n, out)
           \/ op = "flush" /\ o \in flush_visitor(h, out)
           \/ op = "finish" /\ o \in finish_visitor(h, out)
    PROVE  Sends(h, op, out, o)
<1>1. CASE h.alt = "zlib_squeezer"
    <2>1. h = ZlibHandle(h.z) /\ h.z \in ZStream /\ ZInv(h.z)
        BY <1>1 DEF Shape, AnyHandle, ZlibHandle, NoHandle, StubHandle, EngineInv
    <2>2. ASSUME op = "push" PROVE \A p \in OnZlib(zlib_push_more(h.z, n, out)) : Sends(h, op, out, p)
        BY <2>1, <2>2, ZlibMethodsSend DEF OnZlib
    <2>3. ASSUME op = "flush" PROVE \A p \in OnZlib(zlib_flush(h.z, out)) : Sends(h, op, out, p)
        BY <2>1, <2>3, ZlibMethodsSend DEF OnZlib
    <2>4. ASSUME op = "finish" PROVE \A p \in OnZlib(zlib_finish(h.z, out)) : Sends(h, op, out, p)
        BY <2>1, <2>4, ZlibMethodsSend DEF OnZlib
    <2> QED BY <1>1, <2>2, <2>3, <2>4, WithDoneSends DEF push_visitor, flush_visitor, finish_visitor
<1>2. CASE h.alt = "zstd_squeezer"
    <2>1. h = ZstdHandle(h.x) /\ h.x \in CCtx /\ XInv(h.x)
        BY <1>2 DEF Shape, AnyHandle, ZstdHandle, NoHandle, StubHandle, EngineInv
    <2>2. ASSUME op = "push" PROVE \A p \in OnZstd(zstd_push_more(h.x, n, out)) : Sends(h, op, out, p)
        BY <2>1, <2>2, ZstdMethodsSend DEF OnZstd
    <2>3. ASSUME op = "flush" PROVE \A p \in OnZstd(zstd_flush(h.x, out)) : Sends(h, op, out, p)
        BY <2>1, <2>3, ZstdMethodsSend DEF OnZstd
    <2>4. ASSUME op = "finish" PROVE \A p \in OnZstd(zstd_finish(h.x, out)) : Sends(h, op, out, p)
        BY <2>1, <2>4, ZstdMethodsSend DEF OnZstd
    <2> QED BY <1>2, <2>2, <2>3, <2>4, WithDoneSends DEF push_visitor, flush_visitor, finish_visitor
<1>3. CASE h.alt \notin {"zlib_squeezer", "zstd_squeezer"}
    <2>1. h = StubHandle
        BY <1>3 DEF Shape, AnyHandle
    <2>2. \A p \in OnStub(h) : Sends(h, op, out, p)
        <3> SUFFICES ASSUME NEW p, p.h = StubHandle, p.r = Unexpected("format_mismatch")
                     PROVE  Sends(h, op, out, p)
            BY <2>1 DEF OnStub
        <3>1. p.r.in = 0 /\ p.h.alt = "stub"
            BY DEF Unexpected, StubHandle
        <3> QED BY <1>3, <3>1 DEF Sends, Unfinished
    <2> QED BY <1>3, <2>2, WithDoneSends DEF push_visitor, flush_visitor, finish_visitor
<1> QED BY <1>1, <1>2, <1>3

\* A new handle has sent nothing.
LEMMA MadeSends ==
    ASSUME NEW f
    PROVE  LET h == make_squeezer(f)
           IN  /\ Unfinished(h) /\ h # NoHandle
               /\ h.alt = "zlib_squeezer" => f # "zstd" /\ h.z.fmt = window_bits_for(f)
               /\ h.alt = "zstd_squeezer" => Framed(h.x.frame) /\ Lean(h.x.frame)
               /\ f # "zstd" /\ "zlib" \in Compiled => h.alt = "zlib_squeezer"
               /\ f = "zstd" /\ "zstd" \in Compiled => h.alt = "zstd_squeezer"
<1> DEFINE z == zlib_squeezer(f)
           x == createCCtx
<1>1. z.status = "INIT" /\ z.fmt = window_bits_for(f)
    BY DEF zlib_squeezer, deflateInit
<1>2. x.frame = <<>>
    BY DEF createCCtx
<1>3. NoLast(<<>>) /\ Framed(<<>>) /\ Lean(<<>>)
    BY DEF NoLast, Framed, Lean, Upto
<1> HIDE DEF z, x
<1> DEFINE h == make_squeezer(f)
<1>4. CASE f # "zstd" /\ "zlib" \in Compiled
    <2>1. h = ZlibHandle(z)
        BY <1>4 DEF make_squeezer, z
    <2>2. h.alt = "zlib_squeezer" /\ h.z = z /\ h # NoHandle
        BY <2>1 DEF ZlibHandle, NoHandle
    <2> QED BY <1>1, <1>4, <2>2 DEF Unfinished
<1>5. CASE f = "zstd" /\ "zstd" \in Compiled
    <2>1. h = ZstdHandle(x)
        BY <1>5 DEF make_squeezer, x
    <2>2. h.alt = "zstd_squeezer" /\ h.x = x /\ h # NoHandle
        BY <2>1 DEF ZstdHandle, NoHandle
    <2> QED BY <1>2, <1>3, <1>5, <2>2 DEF Unfinished
<1>6. CASE ~(f # "zstd" /\ "zlib" \in Compiled) /\ ~(f = "zstd" /\ "zstd" \in Compiled)
    <2>1. h = StubHandle
        BY <1>6 DEF make_squeezer
    <2>2. h.alt = "stub" /\ h # NoHandle
        BY <2>1 DEF StubHandle, NoHandle
    <2> QED BY <1>6, <2>2 DEF Unfinished
<1> QED BY <1>4, <1>5, <1>6

LEMMA PrefixExtends ==
    ASSUME NEW f \in Seq(Unit), NEW g \in Seq(Unit), Extends(g, f),
           NEW k \in 0 .. Len(f), NEW l \in 0 .. Len(g), k <= l
    PROVE  Extends(SubSeq(g, 1, l), SubSeq(f, 1, k))
<1>1. Len(SubSeq(f, 1, k)) = k /\ \A i \in 1 .. k : SubSeq(f, 1, k)[i] = f[i]
    BY PrefixUpto
<1>2. Len(SubSeq(g, 1, l)) = l /\ \A i \in 1 .. l : SubSeq(g, 1, l)[i] = g[i]
    BY PrefixUpto
<1>3. \A i \in 1 .. k : i \in 1 .. l /\ g[i] = f[i]
    BY DEF Extends
<1> QED BY <1>1, <1>2, <1>3 DEF Extends

\* What the caller has collected only grows.
LEMMA ReturnExtends ==
    ASSUME IInv, IInv', NEW op, NEW n, NEW out, NEW o, Honest(handle, o), Return(op, n, out, o)
    PROVE  Extends(wire', wire)
<1>1. /\ handle' = o.h /\ Written(handle') = Written(handle) + o.r.out /\ o.r.out \in Nat
      /\ Extends(Frame(handle'), Frame(handle))
    BY DEF Return, Honest, Result
<1>2. /\ Shape(handle) /\ wire = SubSeq(Frame(handle), 1, Written(handle))
      /\ Shape(handle') /\ wire' = SubSeq(Frame(handle'), 1, Written(handle'))
    BY DEF IInv, NoLossNoDuplication
<1>3. /\ Frame(handle) \in Seq(Unit) /\ Written(handle) \in 0 .. Len(Frame(handle))
      /\ Frame(handle') \in Seq(Unit) /\ Written(handle') \in 0 .. Len(Frame(handle'))
    <2>1. /\ Frame(handle) \in Seq(Unit) /\ Written(handle) \in Nat
          /\ Written(handle) <= Len(Frame(handle))
        BY <1>2, HandleParts
    <2>2. /\ Frame(handle') \in Seq(Unit) /\ Written(handle') \in Nat
          /\ Written(handle') <= Len(Frame(handle'))
        BY <1>2, HandleParts
    <2> QED BY <2>1, <2>2
<1> QED BY <1>1, <1>2, <1>3, PrefixExtends

\* What a receiver of the wire may count on.
Received(h, w, e) ==
    /\ w \in Seq(Unit) /\ Well(w) /\ e \in Nat /\ Upto(w) \in Nat /\ Upto(w) <= e
    /\ h.alt \notin {"zlib_squeezer", "zstd_squeezer"} => w = <<>>
    /\ h.alt = "zstd_squeezer" =>
          /\ Framed(h.x.frame) => Framed(w)
          /\ LastsAt(h.x.frame, h.x.consumed) => LastsAt(w, e)
          /\ OneFrame(h.x.frame) => OneFrame(w)
    /\ h.alt = "zlib_squeezer" =>
          /\ LastsAt(w, e)
          /\ \A i \in 1 .. Len(w) : w[i].kind = "last" => Len(w) <= i + TailLen(h.z.fmt)
    /\ Unfinished(h) => NoLast(w)

LEMMA SentIsReceived ==
    ASSUME CInv
    PROVE  Received(handle, wire, accepted)
<1> DEFINE g == Frame(handle)
           k == Written(handle)
<1>1. /\ Shape(handle) /\ EngineInv(handle) /\ wire = SubSeq(g, 1, k)
      /\ accepted = Taken(handle)
    BY DEF CInv, IInv, NoLossNoDuplication
<1>2. g \in Seq(Unit) /\ k \in 0 .. Len(g) /\ accepted \in Nat
    BY <1>1, HandleParts
<1>3. Len(wire) = k /\ wire \in Seq(Unit) /\ \A i \in 1 .. k : wire[i] = g[i]
    BY <1>1, <1>2, PrefixUpto
<1>4. /\ handle.alt = "zlib_squeezer" =>
            handle.z \in ZStream /\ ZInv(handle.z) /\ g = handle.z.frame /\ accepted = handle.z.total_in
      /\ handle.alt = "zstd_squeezer" =>
            XInv(handle.x) /\ g = handle.x.frame /\ accepted = handle.x.consumed
      /\ handle.alt \notin {"zlib_squeezer", "zstd_squeezer"} => g = <<>> /\ accepted = 0
    BY <1>1 DEF Shape, AnyHandle, NoHandle, StubHandle, EngineInv, Frame, Taken
<1>5. Well(g) /\ Upto(g) <= accepted
    BY <1>4 DEF ZInv, XInv, Well, Upto
<1> HIDE DEF g, k
<1>6. \A i \in 1 .. Len(wire) : i \in 1 .. Len(g) /\ wire[i] = g[i]
    BY <1>2, <1>3
<1>7. Well(wire) /\ Upto(wire) \in Nat /\ Upto(wire) <= accepted
    <2>1. Well(wire)
        BY <1>3, <1>5, <1>6 DEF Well
    <2>2. Upto(wire) \in Nat /\ Upto(g) \in Nat /\ Upto(wire) <= Upto(g)
        BY <1>1, <1>2, <1>5, UptoType, ViewGrows, ExtendsReflexive
    <2> QED BY <1>2, <1>5, <2>1, <2>2
<1>8. handle.alt \notin {"zlib_squeezer", "zstd_squeezer"} => wire = <<>>
    BY <1>2, <1>3, <1>4
<1>9. ASSUME handle.alt = "zstd_squeezer"
      PROVE  /\ Framed(g) => Framed(wire)
             /\ LastsAt(g, accepted) => LastsAt(wire, accepted)
             /\ OneFrame(g) => OneFrame(wire)
             /\ NoLast(g) => NoLast(wire)
    <2>1. Framed(g) => Framed(wire)
        BY <1>1, <1>2, FramedPrefix
    <2>2. OneFrame(g) => OneFrame(wire)
        BY <1>2, <1>3, <1>6 DEF OneFrame
    <2> QED BY <1>6, <2>1, <2>2 DEF LastsAt, NoLast
<1>10. ASSUME handle.alt = "zlib_squeezer"
       PROVE  /\ LastsAt(wire, accepted)
              /\ \A i \in 1 .. Len(wire) :
                     wire[i].kind = "last" => Len(wire) <= i + TailLen(handle.z.fmt)
              /\ Unfinished(handle) => NoLast(wire)
    <2> DEFINE z == handle.z
               t == TailLen(z.fmt)
    <2>1. z \in ZStream /\ ZEnds(z) /\ g = z.frame /\ accepted = z.total_in
        BY <1>4, <1>10 DEF ZInv
    <2>2. z.status \in {"INIT", "BUSY", "FINISH", "ENDED"} /\ t \in Nat
        BY <2>1, TailLenType DEF ZStream
    <2> HIDE DEF z, t
    <2>3. CASE z.status \in {"INIT", "BUSY"}
        <3>1. \A i \in 1 .. Len(wire) : wire[i].kind # "last"
            BY <1>6, <2>1, <2>3 DEF ZEnds, NoLast
        <3> QED BY <3>1 DEF LastsAt, NoLast
    <2>4. CASE z.status = "FINISH"
        <3>1. /\ Len(g) \in 1 .. Len(g) /\ Upto(g) = accepted
              /\ \A i \in 1 .. Len(g) : g[i].kind = "last" <=> i = Len(g)
            BY <2>1, <2>4 DEF ZEnds, LastAt
        <3>2. g[Len(g)].upto = accepted
            BY <1>2, <3>1 DEF Upto
        <3>3. \A i \in 1 .. Len(wire) : wire[i].kind = "last" => i = Len(g)
            BY <1>6, <3>1
        <3>4. LastsAt(wire, accepted)
            BY <1>6, <3>2, <3>3 DEF LastsAt
        <3>5. \A i \in 1 .. Len(wire) : wire[i].kind = "last" => Len(wire) <= i + t
            BY <1>2, <1>3, <2>2, <3>3
        <3>6. ~Unfinished(handle)
            BY <1>10, <2>4 DEF Unfinished, z
        <3> QED BY <3>4, <3>5, <3>6 DEF t, z
    <2>5. CASE z.status = "ENDED"
        <3>1. /\ Upto(g) = accepted /\ g[Len(g) - t].upto = Upto(g)
              /\ \A i \in 1 .. Len(g) : g[i].kind = "last" <=> i = Len(g) - t
            BY <2>1, <2>5 DEF ZEnds, EndsAt, LastAt, t
        <3>2. \A i \in 1 .. Len(wire) : wire[i].kind = "last" => i = Len(g) - t
            BY <1>6, <3>1
        <3>3. LastsAt(wire, accepted)
            BY <1>6, <3>1, <3>2 DEF LastsAt
        <3>4. \A i \in 1 .. Len(wire) : wire[i].kind = "last" => Len(wire) <= i + t
            BY <1>2, <1>3, <2>2, <3>2
        <3>5. ~Unfinished(handle)
            BY <1>10, <2>5 DEF Unfinished, z
        <3> QED BY <3>3, <3>4, <3>5 DEF t, z
    <2> QED BY <2>2, <2>3, <2>4, <2>5 DEF t, z
<1>11. Unfinished(handle) => NoLast(wire)
    <2>1. CASE handle.alt = "zlib_squeezer"
        BY <1>10, <2>1
    <2>2. CASE handle.alt = "zstd_squeezer"
        BY <1>4, <1>9, <2>2 DEF Unfinished
    <2>3. CASE handle.alt \notin {"zlib_squeezer", "zstd_squeezer"}
        BY <1>8, <2>3 DEF NoLast
    <2> QED BY <2>1, <2>2, <2>3
<1> QED BY <1>2, <1>3, <1>4, <1>7, <1>8, <1>9, <1>10, <1>11 DEF Received
=============================================================================
