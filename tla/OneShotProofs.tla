--------------------------- MODULE OneShotProofs ---------------------------
(***************************************************************************)
(* Machine-checked theorems about the one-shot layer: for every set of     *)
(* formats, levels and backends, every source and span, and every set of   *)
(* block sizes.  Where a size is compared with the width of uInt, the      *)
(* theorem says so.                                                        *)
(***************************************************************************)
EXTENDS OneShot, DeflateProofs, InflateProofs
-----------------------------------------------------------------------------
(***************************************************************************)
(* What squeeze writes: n symbols in container f, into a span of `room'    *)
(* units.  The stream is sound, it ends once, and a whole one holds all    *)
(* the symbols; with room for the container it is whole.                   *)
(***************************************************************************)
Exact(f, n, room, w) ==
    /\ w \in Seq(Unit) /\ Well(w) /\ Len(w) <= room
    /\ Complete(f, w) => EndsAt(w, Len(w) - TailLen(f)) /\ Upto(w) = n
    /\ room >= Room(f, n) => Complete(f, w)

\* A prefix of a sound stream is sound.
LEMMA PrefixWell ==
    ASSUME NEW f \in Seq(Unit), Well(f), NEW k \in 0 .. Len(f)
    PROVE  Well(SubSeq(f, 1, k))
<1> DEFINE g == SubSeq(f, 1, k)
<1>1. g \in Seq(Unit) /\ Len(g) = k /\ \A i \in 1 .. k : g[i] = f[i] /\ i \in 1 .. Len(f)
    BY PrefixUpto
<1> HIDE DEF g
<1>2. Well(g)
    BY <1>1 DEF Well
<1> QED BY <1>2 DEF g

\* A new stream has nothing in it.
LEMMA FreshStream ==
    ASSUME NEW f \in ZlibFormats
    PROVE  LET z == zlib_squeezer(f)
           IN  /\ z \in ZStream /\ ZShape(z) /\ ZInv(z) /\ z.fmt = f /\ z.status = "INIT"
               /\ z.frame = <<>> /\ z.total_in = 0 /\ z.total_out = 0
<1>1. Well(<<>>) /\ NoLast(<<>>) /\ Upto(<<>>) = 0 /\ Len(<<>>) = 0
    BY DEF Well, NoLast, Upto
<1>2. window_bits_for(f) = f
    BY DEF window_bits_for, ZlibFormats
<1> QED BY <1>1, <1>2
        DEF zlib_squeezer, deflateInit, ZStream, ZInv, ZShape, ZEnds, ZSynced

\* With room for the header, a unit for each symbol, the end of the data and
\* the trailer, one deflate writes the whole stream.
LEMMA FinishFits ==
    ASSUME NEW f \in ZlibFormats, NEW z, z = zlib_squeezer(f), NEW n \in Nat, NEW m \in Nat,
           m >= Room(f, n), NEW c \in Choices(z, "finish", n, m)
    PROVE  ZClosed(Run(z, "finish", m, c).z)
<1> DEFINE h == Headed(z)
           all == c.e = z.total_in + c.t /\ ~HeaderStuck(z, m)
           closes == "finish" = "finish" /\ all /\ c.end # "open" /\ z.status \in {"INIT", "BUSY"}
           packed == closes /\ c.end = "packed" /\ c.e > Upto(z.frame)
           k == IF packed THEN "last" ELSE "blk"
           data == GrowBlock(h, c.e, c.u, k)
           marks == "finish" = "sync" /\ all /\ RoomAfter(z, data, m)
           body == IF marks THEN Grow(data, "sync")
                   ELSE IF closes /\ ~packed THEN Grow(data, "last") ELSE data
           closed == closes \/ z.status \in {"FINISH", "ENDED"}
           trailed == closed /\ RoomAfter(z, body, m)
           g == IF trailed /\ z.status # "ENDED" THEN Trailer(z, body) ELSE body
           out == Copied(z, g, m)
           status == IF trailed THEN "ENDED" ELSE IF closed THEN "FINISH" ELSE "BUSY"
           y == [z EXCEPT !.status = status,
                          !.frame = g, !.total_in = @ + c.t, !.total_out = out,
                          !.last_flush = IF "finish" = "sync" /\ RoomAfter(z, g, m)
                                         THEN "sync" ELSE "other"]
<1>1. /\ z \in ZStream /\ ZInv(z) /\ z.fmt = f /\ z.status = "INIT"
      /\ z.frame = <<>> /\ z.total_in = 0 /\ z.total_out = 0 /\ Upto(z.frame) = 0
    BY FreshStream DEF Upto
<1>2. Run(z, "finish", m, c).z = y
    BY DEF Run
<1>3. /\ c.t \in 0 .. n /\ c.e \in Nat /\ c.u \in Nat \ {0} /\ c.e <= c.t
      /\ c.e > 0 => c.u <= c.e
      /\ c.end = "open" <=> c.t < n
      /\ RoomAfter(z, GrowBlock(h, c.e, c.u, "blk"), m) => c.t = n /\ c.e = c.t
    <2>1. /\ c.t \in 0 .. n /\ c.e \in Nat /\ c.u \in Nat \ {0}
          /\ c.e <= z.total_in + c.t
          /\ c.e > Upto(z.frame) => c.u <= c.e - Upto(z.frame)
          /\ c.end = "open" <=> c.t < n
          /\ RoomAfter(z, GrowBlock(h, c.e, c.u, "blk"), m) =>
                c.t = n /\ ("finish" # "no" => c.e = z.total_in + c.t)
        BY <1>1, ChoiceType
    <2> HIDE DEF h
    <2> QED BY <1>1, <2>1
<1>4. /\ h \in Seq(Unit) /\ Well(h) /\ Upto(h) = 0 /\ Len(h) = HdrLen(f)
      /\ HdrLen(f) \in Nat /\ TailLen(f) \in Nat
    <2>1. h \in Seq(Unit) /\ Well(h) /\ Upto(h) = 0
        BY <1>1, HeadedWell
    <2>2. HdrLen(f) \in Nat /\ TailLen(f) \in Nat
        BY HdrLenType, TailLenType
    <2>3. Len(h) = HdrLen(f)
        BY <1>1, <2>2 DEF Headed
    <2> QED BY <2>1, <2>2, <2>3
<1>5. HeaderStuck(z, m) <=> Len(h) > m
    BY <1>1 DEF HeaderStuck
<1> HIDE DEF h
<1>6. /\ \A l \in {"blk", "last"} :
            /\ GrowBlock(h, c.e, c.u, l) \in Seq(Unit)
            /\ Len(GrowBlock(h, c.e, c.u, l)) <= HdrLen(f) + n
    <2> SUFFICES ASSUME NEW l \in {"blk", "last"}
                 PROVE  /\ GrowBlock(h, c.e, c.u, l) \in Seq(Unit)
                        /\ Len(GrowBlock(h, c.e, c.u, l)) <= HdrLen(f) + n
        OBVIOUS
    <2>1. CASE c.e > 0
        <3>1. c.e > Upto(h) /\ c.u <= c.e - Upto(h)
            BY <1>3, <1>4, <2>1
        <3>2. /\ GrowBlock(h, c.e, c.u, l) \in Seq(Unit)
              /\ Len(GrowBlock(h, c.e, c.u, l)) = Len(h) + c.u
            BY <1>3, <1>4, <3>1, GrowBlockWell
        <3> QED BY <1>3, <1>4, <2>1, <3>2
    <2>2. CASE ~(c.e > 0)
        BY <1>3, <1>4, <2>2 DEF GrowBlock
    <2> QED BY <2>1, <2>2
<1>7. m >= HdrLen(f) + n + 1 + TailLen(f)
    BY DEF Room
<1>8. c.t = n /\ c.e = n /\ ~HeaderStuck(z, m) /\ c.end # "open"
    <2>1. RoomAfter(z, GrowBlock(h, c.e, c.u, "blk"), m)
        BY <1>1, <1>4, <1>6, <1>7 DEF RoomAfter
    <2> QED BY <1>3, <1>4, <1>5, <1>7, <2>1
<1>9. closes
    BY <1>1, <1>8
<1>10. data \in Seq(Unit) /\ Len(data) <= HdrLen(f) + n
    BY <1>6
<1> HIDE DEF data, all, packed
<1>11. body \in Seq(Unit) /\ Len(body) <= HdrLen(f) + n + 1
    <2>1. CASE body = data
        <3> HIDE DEF body
        <3> QED BY <1>4, <1>10, <2>1
    <2>2. CASE body # data
        <3>1. body = Grow(data, "last")
            BY <1>9, <2>2
        <3>2. Grow(data, "last") \in Seq(Unit) /\ Len(Grow(data, "last")) = Len(data) + 1
            <4> HIDE DEF body
            <4> QED BY <1>10, GrowType DEF Grow
        <3> HIDE DEF body
        <3> QED BY <1>4, <1>10, <3>1, <3>2
    <2> QED BY <2>1, <2>2
<1>12. closed /\ (trailed <=> Len(body) < m)
    BY <1>1, <1>9 DEF RoomAfter
<1> HIDE DEF body, marks, closes, closed
<1>13. /\ Len(g) <= m /\ Len(g) \in Nat
       /\ ~trailed => TailLen(f) = 0
    <2>1. CASE trailed
        <3>1. g = Trailer(z, body)
            BY <1>1, <2>1
        <3>2. Len(Trailer(z, body)) = Len(body) + TailLen(f)
            BY <1>1, <1>4, <1>11 DEF Trailer
        <3> HIDE DEF g
        <3> QED BY <1>4, <1>7, <1>11, <2>1, <3>1, <3>2
    <2>2. CASE ~trailed
        <3>1. g = body /\ ~(Len(body) < m)
            BY <1>12, <2>2
        <3> HIDE DEF g, trailed
        <3> QED BY <1>4, <1>7, <1>11, <2>2, <3>1
    <2> QED BY <2>1, <2>2
<1> HIDE DEF g
<1>14. out = Len(g)
    BY <1>1, <1>13 DEF Copied
<1>15. status \in {"FINISH", "ENDED"} /\ (status = "FINISH" => ~trailed)
    BY <1>12
<1> HIDE DEF out, status, trailed
<1>16. y.status = status /\ y.frame = g /\ y.total_out = out /\ y.fmt = f
    BY <1>1 DEF ZStream
<1> HIDE DEF y
<1> QED BY <1>2, <1>13, <1>14, <1>15, <1>16 DEF ZClosed
\* What of a stream has been written, when nothing more is to come or not.
LEMMA WrittenExact ==
    ASSUME NEW f \in ZlibFormats, NEW y \in ZStream, ZInv(y), y.fmt = f, NEW n \in Nat,
           y.status \in {"FINISH", "ENDED"} => y.total_in = n, NEW room \in Nat,
           y.total_out <= room, room >= Room(f, n) => ZClosed(y)
    PROVE  Exact(f, n, room, SubSeq(y.frame, 1, y.total_out))
<1> DEFINE w == SubSeq(y.frame, 1, y.total_out)
<1>1. y.frame \in Seq(Unit) /\ y.total_out \in 0 .. Len(y.frame) /\ TailLen(f) \in Nat
    BY TailLenType DEF ZStream, ZInv, ZShape
<1>2. /\ w \in Seq(Unit) /\ Len(w) = y.total_out /\ Well(w)
      /\ \A i \in 1 .. Len(w) : w[i] = y.frame[i]
    BY <1>1, PrefixUpto, PrefixWell DEF ZInv
<1>3. ASSUME y.total_out = Len(y.frame)
      PROVE  w = y.frame
    <2> HIDE DEF w
    <2>1. Len(w) = Len(y.frame) /\ \A i \in 1 .. Len(w) : w[i] = y.frame[i]
        BY <1>2, <1>3
    <2> QED BY <1>1, <1>2, <2>1, SeqEqual
<1> HIDE DEF w
<1>4. Complete(f, w) => y.total_out = Len(y.frame) /\ y.status \in {"FINISH", "ENDED"}
    <2> SUFFICES ASSUME Complete(f, w)
                 PROVE  y.total_out = Len(y.frame) /\ y.status \in {"FINISH", "ENDED"}
        OBVIOUS
    <2> DEFINE i == Len(w) - TailLen(f)
    <2>1. i \in 1 .. Len(w) /\ i \in 1 .. Len(y.frame) /\ w[i].kind = "last"
        BY <1>1, <1>2 DEF Complete
    <2>2. y.frame[i].kind = "last"
        BY <1>2, <2>1
    <2>3. y.status \in {"FINISH", "ENDED"}
        BY <2>1, <2>2 DEF ZInv, ZEnds, NoLast, ZStream
    <2>4. y.status = "FINISH" => i = Len(y.frame)
        BY <2>1, <2>2 DEF ZInv, ZEnds, LastAt
    <2>5. y.status = "ENDED" => i = Len(y.frame) - TailLen(f)
        BY <2>1, <2>2 DEF ZInv, ZEnds, EndsAt, LastAt
    <2> QED BY <1>1, <1>2, <2>3, <2>4, <2>5
<1>5. ASSUME y.status \in {"FINISH", "ENDED"}, y.status = "FINISH" => TailLen(f) = 0
      PROVE  EndsAt(y.frame, Len(y.frame) - TailLen(f)) /\ Upto(y.frame) = n
    <2>1. Upto(y.frame) = n
        BY <1>5 DEF ZInv, ZEnds
    <2>2. CASE y.status = "ENDED"
        BY <2>1, <2>2 DEF ZInv, ZEnds
    <2>3. CASE y.status = "FINISH"
        <3>1. LastAt(y.frame, Len(y.frame)) /\ Len(y.frame) - TailLen(f) = Len(y.frame)
            BY <1>1, <1>5, <2>3 DEF ZInv, ZEnds
        <3>2. y.frame[Len(y.frame)].upto = Upto(y.frame)
            BY <1>1, <3>1 DEF LastAt, Upto
        <3> QED BY <2>1, <3>1, <3>2 DEF EndsAt
    <2> QED BY <1>5, <2>2, <2>3
<1>6. Complete(f, w) => EndsAt(w, Len(w) - TailLen(f)) /\ Upto(w) = n
    <2> SUFFICES ASSUME Complete(f, w)
                 PROVE  EndsAt(w, Len(w) - TailLen(f)) /\ Upto(w) = n
        OBVIOUS
    <2>1. w = y.frame /\ y.status \in {"FINISH", "ENDED"}
        BY <1>3, <1>4
    <2>2. y.status = "FINISH" => TailLen(f) = 0
        <3> SUFFICES ASSUME y.status = "FINISH"
                     PROVE  TailLen(f) = 0
            OBVIOUS
        <3>1. w[Len(w) - TailLen(f)].kind = "last" /\ Len(w) - TailLen(f) \in 1 .. Len(w)
            BY <1>1, <1>2 DEF Complete
        <3>2. LastAt(w, Len(w))
            BY <2>1 DEF ZInv, ZEnds
        <3> QED BY <1>1, <3>1, <3>2 DEF LastAt
    <2> QED BY <1>5, <2>1, <2>2
<1>7. ZClosed(y) => Complete(f, w)
    <2> SUFFICES ASSUME ZClosed(y)
                 PROVE  Complete(f, w)
        OBVIOUS
    <2>1. /\ w = y.frame /\ y.status \in {"FINISH", "ENDED"}
          /\ y.status = "FINISH" => TailLen(f) = 0
        BY <1>3 DEF ZClosed
    <2>2. LastAt(w, Len(w) - TailLen(f))
        BY <1>5, <2>1 DEF EndsAt
    <2> QED BY <1>1, <2>2 DEF LastAt, Complete
<1>8. Exact(f, n, room, w)
    BY <1>2, <1>6, <1>7 DEF Exact
<1> QED BY <1>8 DEF w

(***************************************************************************)
(* The outcomes of squeeze, for sizes that uInt can express and for all.   *)
(***************************************************************************)
Wide(n, out) == n < UINT /\ out.size < UINT

SqueezeTells(f, n, out, o) ==
    /\ o.wire \in Seq(Unit) /\ o.r \in Result
    /\ o.r.kind = "ok" => f \in Served /\ out.size >= bound(f, n)
    /\ o.r.kind = "ok" /\ (f = "zstd" \/ Wide(n, out)) => Exact(f, n, out.size, o.wire)
    /\ f = "zstd" \/ Wide(n, out) => o.r.kind # "backend_failure"

\* Into a span no smaller than the bound, zlib is not refused.
LEMMA SqueezedZlib ==
    ASSUME NEW f \in ZlibFormats, NEW n \in Nat, NEW out \in AnySpan, NEW o \in Squeezed(f, n, out)
    PROVE  /\ o.wire \in Seq(Unit) /\ o.r \in Result
           /\ o.r.kind \in {"ok", "backend_failure"}
           /\ Wide(n, out) /\ out.data = "buffer" /\ out.size > 0 =>
                 o.r.kind = "ok" /\ Exact(f, n, out.size, o.wire)
<1> DEFINE z == zlib_squeezer(f)
           N == uInt(n)
           m == uInt(out.size)
<1>1. /\ z \in ZStream /\ ZShape(z) /\ ZInv(z) /\ z.fmt = f /\ z.status = "INIT"
      /\ z.frame = <<>> /\ z.total_in = 0 /\ z.total_out = 0
    BY FreshStream
<1>2. N \in Nat /\ m \in Nat /\ out.size \in Nat
    BY uIntBelow DEF AnySpan
<1>3. PICK d \in deflate(z, "finish", N, out.data, m) :
          /\ o.wire = SubSeq(d.z.frame, 1, d.z.total_out)
          /\ o.r = IF d.ret \in {"STREAM_END", "OK"}
                   THEN Progress(d.z.total_in - z.total_in, d.z.total_out - z.total_out,
                                 d.ret = "STREAM_END")
                   ELSE Unexpected("backend_failure")
    BY DEF Squeezed, zlib_push, Report, ZlibFormats
<1>w. Wide(n, out) => N = n /\ m = out.size
    BY uIntExact DEF Wide, AnySpan
<1> HIDE DEF z, N, m
<1>4. /\ d.z \in ZStream /\ ZShape(d.z) /\ d.z.fmt = f
    BY <1>1, <1>2, <1>3, DeflateStep DEF ZStep
<1>5. o.wire \in Seq(Unit) /\ d.z.total_in \in Nat /\ d.z.total_out \in Nat
    BY <1>3, <1>4, PrefixUpto DEF ZStream, ZShape
<1>6. o.r \in Result /\ o.r.kind \in {"ok", "backend_failure"}
    BY <1>1, <1>3, <1>5 DEF Progress, Unexpected, Result, Kinds
<1>7. ASSUME Wide(n, out), out.data = "buffer", out.size > 0
      PROVE  o.r.kind = "ok" /\ Exact(f, n, out.size, o.wire)
    <2>1. N = n /\ m = out.size
        BY <1>7, <1>w
    <2>2. PICK c \in Choices(z, "finish", n, m) : d = Run(z, "finish", m, c)
        <3>1. ~(Pending(z) >= m) /\ out.data # "null" /\ m # 0
            BY <1>1, <1>2, <1>7, <2>1 DEF Pending
        <3>2. /\ ~(out.data = "null" \/ (z.status \in {"FINISH", "ENDED"} /\ "finish" # "finish"))
              /\ ~(m = 0 \/ ("finish" = "sync" /\ z.last_flush = "sync" /\ n = 0))
            BY <3>1
        <3>3. deflate(z, "finish", n, out.data, m)
                  = {Run(z, "finish", m, c) : c \in Choices(z, "finish", n, m)}
            BY <3>1, <3>2, Zenon DEF deflate
        <3> QED BY <1>3, <2>1, <3>3
    <2>3. d.ret \in {"STREAM_END", "OK"}
        BY <2>2 DEF Run
    <2>4. ZInv(d.z) /\ ZTells(z, "finish", n, m, d)
        BY <1>1, <1>2, <1>3, <2>1, <2>3, DeflateKeeps
    <2>5. d.z.status \in {"FINISH", "ENDED"} => d.z.total_in = n
        BY <1>1, <2>4 DEF ZTells
    <2>6. m >= Room(f, n) => ZClosed(d.z)
        BY <1>2, <2>2, FinishFits DEF z
    <2>7. d.z.total_out <= m
        <3>1. d.z.total_out = Copied(z, d.z.frame, m)
            BY <1>1, <2>2 DEF Run, ZStream
        <3> QED BY <1>1, <1>2, <1>4, <3>1 DEF Copied, ZStream
    <2>8. Exact(f, n, out.size, o.wire)
        BY <1>2, <1>3, <1>4, <2>1, <2>4, <2>5, <2>6, <2>7, WrittenExact
    <2> QED BY <1>3, <2>3, <2>8 DEF Progress
<1> QED BY <1>5, <1>6, <1>7
\* ZSTD_compress writes one whole frame of all the symbols.
FrameOf(n, w) ==
    /\ w \in Seq(Unit) /\ Well(w) /\ EndsAt(w, Len(w)) /\ Upto(w) = n
    /\ Len(w) <= ZSTD_compressBound(n)

LEMMA CompressedFrame ==
    ASSUME NEW n \in Nat, NEW w \in ZSTD_compress(n)
    PROVE  FrameOf(n, w)
<1> DEFINE hdr == Grow(<<>>, "hdr")
<1>1. <<>> \in Seq(Unit) /\ Well(<<>>) /\ NoLast(<<>>) /\ Upto(<<>>) = 0 /\ Len(<<>>) = 0
    BY DEF Well, NoLast, Upto
<1>2. /\ hdr \in Seq(Unit) /\ Well(hdr) /\ Len(hdr) = 1 /\ Upto(hdr) = 0
      /\ NoLast(hdr)
    <2> DEFINE unit == [kind |-> "hdr", upto |-> 0]
    <2>1. hdr = <<unit>> /\ unit \in Unit
        BY <1>1 DEF Grow, Unit
    <2> QED BY <2>1 DEF Well, NoLast, Upto
<1>3. PICK u \in BlockSizes(hdr, n) :
          \/ n > 0 /\ w = GrowBlock(hdr, n, u, "last")
          \/ w = Grow(GrowBlock(hdr, n, u, "blk"), "last")
    BY Zenon DEF ZSTD_compress
<1>4. u \in Nat \ {0} /\ (n > Upto(hdr) => u <= n - Upto(hdr)) /\ Upto(hdr) <= n
    BY <1>2, BlockSizesType
<1> HIDE DEF hdr
<1>5. CASE n > 0 /\ w = GrowBlock(hdr, n, u, "last")
    <2>0. CodedAs(hdr, n, u, "last", w)
        BY <1>2, <1>4, <1>5, BlockWell
    <2>1. /\ w \in Seq(Unit) /\ Well(w) /\ Len(w) = 1 + u /\ Upto(w) = n
          /\ \A i \in 1 .. Len(hdr) : w[i] = hdr[i]
          /\ \A i \in Len(hdr) + 1 .. Len(w) : w[i].kind = IF i = Len(w) THEN "last" ELSE "blk"
        BY <1>2, <1>5, <2>0 DEF CodedAs
    <2>2. LastAt(w, Len(w))
        BY <1>2, <1>4, <2>1 DEF LastAt, NoLast
    <2>3. w[Len(w)].upto = Upto(w)
        BY <1>4, <2>1 DEF Upto
    <2>4. Len(w) <= n + 2
        BY <1>2, <1>4, <1>5, <2>1
    <2> QED BY <2>1, <2>2, <2>3, <2>4 DEF FrameOf, EndsAt, ZSTD_compressBound
<1>6. CASE w = Grow(GrowBlock(hdr, n, u, "blk"), "last")
    <2> DEFINE g == GrowBlock(hdr, n, u, "blk")
    <2>1. /\ g \in Seq(Unit) /\ Well(g) /\ Upto(g) = n /\ NoLast(g)
          /\ Len(g) <= n + 1 /\ Len(g) \in Nat
        <3>1. CodedAs(hdr, n, u, "blk", g)
            BY <1>2, <1>4, BlockWell
        <3> HIDE DEF g
        <3>2. /\ g \in Seq(Unit) /\ Well(g) /\ Upto(g) = n /\ Len(g) \in Nat
              /\ Len(g) = 1 + (IF n > 0 THEN u ELSE 0)
              /\ \A i \in 1 .. Len(hdr) : g[i] = hdr[i]
              /\ \A i \in Len(hdr) + 1 .. Len(g) : g[i].kind = "blk"
            BY <1>2, <3>1 DEF CodedAs
        <3>3. Len(g) <= n + 1
            BY <1>2, <1>4, <3>2
        <3>4. NoLast(g)
            BY <1>2, <3>2 DEF NoLast
        <3> QED BY <3>2, <3>3, <3>4
    <2>2. w = Grow(g, "last")
        BY <1>6
    <2> HIDE DEF g
    <2>3. /\ w \in Seq(Unit) /\ Well(w) /\ Upto(w) = n /\ Len(w) = Len(g) + 1
          /\ w[Len(g) + 1].kind = "last"
          /\ \A i \in 1 .. Len(g) : w[i] = g[i]
        BY <2>1, <2>2, GrowType, GrowWell
    <2>4. LastAt(w, Len(w))
        BY <2>1, <2>3 DEF LastAt, NoLast
    <2>5. w[Len(w)].upto = Upto(w)
        BY <2>1, <2>3 DEF Upto
    <2> QED BY <2>1, <2>3, <2>4, <2>5 DEF FrameOf, EndsAt, ZSTD_compressBound
<1> QED BY <1>3, <1>5, <1>6

LEMMA SqueezedZstd ==
    ASSUME NEW n \in Nat, NEW out \in AnySpan, out.size >= ZSTD_compressBound(n),
           NEW o \in Squeezed("zstd", n, out)
    PROVE  o.r \in Result /\ o.r.kind = "ok" /\ Exact("zstd", n, out.size, o.wire)
<1>1. PICK w \in ZSTD_compress(n) :
          o = IF Len(w) <= out.size THEN [wire |-> w, r |-> Progress(n, Len(w), TRUE)]
              ELSE [wire |-> <<>>, r |-> Unexpected("backend_failure")]
    BY DEF Squeezed, zstd_push
<1>2. FrameOf(n, w)
    BY CompressedFrame
<1>3. w \in Seq(Unit) /\ Len(w) \in Nat /\ Len(w) <= out.size
    BY <1>2 DEF FrameOf, ZSTD_compressBound, AnySpan
<1>4. o.wire = w /\ o.r = Progress(n, Len(w), TRUE)
    BY <1>1, <1>3
<1>5. TailLen("zstd") = 0 /\ HdrLen("zstd") = 1
    BY DEF TailLen, HdrLen
<1>6. Len(w) - TailLen("zstd") = Len(w) /\ Complete("zstd", w)
    BY <1>2, <1>3, <1>5 DEF FrameOf, EndsAt, LastAt, Complete
<1>7. o.r \in Result /\ o.r.kind = "ok"
    BY <1>3, <1>4 DEF Progress, Result, Kinds
<1> QED BY <1>2, <1>3, <1>4, <1>6, <1>7 DEF Exact, FrameOf

LEMMA SqueezeReports ==
    ASSUME NEW f \in Formats, NEW lvl, NEW n \in Nat, NEW out \in Spans(MaxRoom),
           NEW o \in squeeze(f, lvl, n, out)
    PROVE  SqueezeTells(f, n, out, o)
<1>1. /\ out \in AnySpan /\ out.size \in Nat
      /\ out.size > 0 => out.data = "buffer"
    BY OneShotAssumption DEF Spans, AnySpan
<1>2. /\ compressBound(n) \in Nat /\ compressBound(n) > 0
    BY DEF compressBound, HdrLen, TailLen
<1>3. ASSUME NEW k \in {"format_mismatch", "level_unsupported", "buffer_too_small"},
             o \in Refused(k)
      PROVE  SqueezeTells(f, n, out, o)
    <2>1. o.wire = <<>> /\ o.r = Unexpected(k)
        BY <1>3 DEF Refused
    <2>2. o.r \in Result /\ o.r.kind = k
        BY <2>1 DEF Unexpected, Result, Kinds
    <2> QED BY <1>3, <2>1, <2>2 DEF SqueezeTells
<1>4. ASSUME f \in Served, out.size >= bound(f, n), o \in Squeezed(f, n, out)
      PROVE  SqueezeTells(f, n, out, o)
    <2>1. CASE f = "zstd"
        <3>1. o.r \in Result /\ o.r.kind = "ok" /\ Exact("zstd", n, out.size, o.wire)
            BY <1>1, <1>4, <2>1, SqueezedZstd DEF bound
        <3> QED BY <1>4, <2>1, <3>1 DEF SqueezeTells, Exact
    <2>2. CASE f # "zstd"
        <3>1. f \in ZlibFormats /\ bound(f, n) = compressBound(n)
            BY <1>4, <2>2 DEF Served, ZstdFormats, bound
        <3>2. out.size > 0 /\ out.data = "buffer"
            BY <1>1, <1>2, <1>4, <3>1
        <3>3. /\ o.wire \in Seq(Unit) /\ o.r \in Result
              /\ o.r.kind \in {"ok", "backend_failure"}
              /\ Wide(n, out) => o.r.kind = "ok" /\ Exact(f, n, out.size, o.wire)
            BY <1>1, <1>4, <3>1, <3>2, SqueezedZlib
        <3> QED BY <1>4, <2>2, <3>3 DEF SqueezeTells
    <2> QED BY <2>1, <2>2
<1>5. \/ \E k \in {"format_mismatch", "level_unsupported", "buffer_too_small"} :
            o \in Refused(k)
      \/ f \in Served /\ out.size >= bound(f, n) /\ o \in Squeezed(f, n, out)
    <2>1. CASE f \notin Served
        BY <2>1 DEF squeeze
    <2>2. CASE f \in Served
        <3>1. bound(f, n) \in Nat
            BY <1>2 DEF bound, ZSTD_compressBound
        <3>2. out.size < bound(f, n) \/ out.size >= bound(f, n)
            BY <1>1, <3>1
        <3> QED BY <2>2, <3>2 DEF squeeze
    <2> QED BY <2>1, <2>2
<1> QED BY <1>3, <1>4, <1>5
-----------------------------------------------------------------------------
(***************************************************************************)
(* What swell answers for the units w of its own container: a call of      *)
(* inflate that consumed k of them and left y.                             *)
(***************************************************************************)
Judgement(g, w, out, r, k, y) ==
    /\ InflatedAt(zlib_sweller(g), SubSeq(w, 1, uInt(Len(w))), uInt(out.size), k, y)
    /\ r.kind = "ok" => k = Len(w) /\ r.in = k /\ r.out = y.total_out
    /\ y.status = "OK" /\ k < Len(w) => r.kind = "buffer_too_small"
    /\ y.status = "DONE" /\ k = Len(w) => r.kind = "ok" /\ r.out = y.total_out

LEMMA ResultTypes ==
    /\ \A k \in Kinds \cup {"throws"} : Unexpected(k) \in Result
    /\ \A i, o \in Nat, done \in BOOLEAN : Progress(i, o, done) \in Result
BY DEF Progress, Unexpected, Result, Kinds

LEMMA FreshSweller ==
    ASSUME NEW g \in ZlibFormats
    PROVE  LET z == zlib_sweller(g)
           IN  /\ z \in InflateStream /\ z.fmt = g /\ z.status = "OK"
               /\ z.seen = <<>> /\ z.total_out = 0
<1>1. window_bits_for(g) = g
    BY DEF window_bits_for, ZlibFormats
<1> QED BY <1>1 DEF zlib_sweller, inflateInit, InflateStream

LEMMA SwelledZlib ==
    ASSUME NEW g \in ZlibFormats, NEW c, NEW w \in Seq(Unit), NEW out \in AnySpan,
           NEW r, g \in Served, r \in swell(g, c, w, out)
    PROVE  /\ r \in Result
           /\ out.data = "null" => r.kind = "stream_corrupt"
           /\ c = g /\ out.data = "buffer" =>
                 \E k \in 0 .. uInt(Len(w)), y \in InflateStream : Judgement(g, w, out, r, k, y)
<1> DEFINE z == zlib_sweller(g)
           W == SubSeq(w, 1, uInt(Len(w)))
           m == uInt(out.size)
<1>1. z \in InflateStream /\ z.fmt = g /\ z.status = "OK" /\ z.seen = <<>> /\ z.total_out = 0
    BY FreshSweller
<1>2. /\ Len(w) \in Nat /\ uInt(Len(w)) \in Nat /\ uInt(Len(w)) <= Len(w) /\ m \in Nat
      /\ W \in Seq(Unit) /\ Len(W) = uInt(Len(w))
    <2>1. Len(w) \in Nat /\ out.size \in Nat
        BY DEF AnySpan
    <2>2. uInt(Len(w)) \in Nat /\ uInt(Len(w)) <= Len(w) /\ m \in Nat
        BY <2>1, uIntBelow
    <2> QED BY <2>1, <2>2, PrefixUpto
<1>3. PICK d \in inflate(z, "finish", c, W, out.data, m) : r = Judged(z, d, Len(w))
    <2>1. g # "zstd"
        BY DEF ZlibFormats
    <2>2. swell(g, c, w, out) = {o.r : o \in zlib_sweller_push(zlib_sweller(g), c, w, out)}
        BY <2>1 DEF swell
    <2>3. PICK o \in zlib_sweller_push(zlib_sweller(g), c, w, out) : r = o.r
        BY <2>2
    <2> QED BY <2>3 DEF zlib_sweller_push
<1> HIDE DEF z, W, m
<1>4. /\ d.z \in InflateStream
      /\ out.data = "null" => d.ret = "STREAM_ERROR" /\ d.z = z
      /\ out.data # "null" =>
            /\ d.z \in Decoded(z, c, W, m)
            /\ d.ret = "STREAM_END" <=> d.z.status = "DONE"
            /\ d.ret = "DATA_ERROR" <=> d.z.status = "BAD"
            /\ d.ret \in {"OK", "BUF_ERROR"} <=> d.z.status = "OK"
      /\ d.ret \in {"OK", "BUF_ERROR", "STREAM_END", "DATA_ERROR", "STREAM_ERROR"}
    BY <1>1, <1>2, <1>3, InflateCases
<1>5. Len(z.seen) = 0 /\ Len(d.z.seen) \in Nat /\ d.z.total_out \in Nat /\ z.total_out = 0
    BY <1>1, <1>4 DEF InflateStream
<1>6. /\ d.ret = "STREAM_END" => r = IF Len(d.z.seen) < Len(w) THEN Unexpected("stream_corrupt")
                                     ELSE Progress(Len(d.z.seen), d.z.total_out, TRUE)
      /\ d.ret \in {"OK", "BUF_ERROR"} =>
            r = IF Len(d.z.seen) < Len(w) THEN Unexpected("buffer_too_small")
                ELSE Progress(Len(d.z.seen), d.z.total_out, FALSE)
      /\ d.ret \notin {"STREAM_END", "OK", "BUF_ERROR"} => r = Unexpected("stream_corrupt")
    <2>1. Len(d.z.seen) - Len(z.seen) = Len(d.z.seen) /\ d.z.total_out - z.total_out = d.z.total_out
        BY <1>5
    <2> QED BY <1>3, <2>1 DEF Judged, Swelling
<1>7. r \in Result
    BY <1>4, <1>5, <1>6, ResultTypes DEF Kinds
<1>8. out.data = "null" => r.kind = "stream_corrupt"
    BY <1>4, <1>6 DEF Unexpected
<1>9. ASSUME c = g, out.data = "buffer"
      PROVE  \E k \in 0 .. uInt(Len(w)), y \in InflateStream : Judgement(g, w, out, r, k, y)
    <2>1. z.seen \o W = W
        BY <1>1, <1>2, ConcatEmptySeq
    <2>s. \E k \in 0 .. Len(z.seen \o W) : InflatedAt(z, z.seen \o W, m, k, d.z)
        <3>1. d.z \in Decoded(z, c, W, m) /\ c = z.fmt
            BY <1>1, <1>4, <1>9
        <3> QED BY <1>1, <1>2, <3>1, DecodedCases
    <2>2. PICK k \in 0 .. Len(W) : InflatedAt(z, W, m, k, d.z)
        BY <2>1, <2>s
    <2>3. Len(d.z.seen) = k /\ k \in 0 .. uInt(Len(w))
        BY <1>2, <2>2 DEF InflatedAt
    <2>4. /\ r.kind = "ok" => k = Len(w) /\ r.in = k /\ r.out = d.z.total_out
          /\ d.z.status = "OK" /\ k < Len(w) => r.kind = "buffer_too_small"
          /\ d.z.status = "DONE" /\ k = Len(w) => r.kind = "ok" /\ r.out = d.z.total_out
        BY <1>2, <1>4, <1>6, <1>9, <2>3 DEF Progress, Unexpected
    <2>5. Judgement(g, w, out, r, k, d.z)
        BY <2>2, <2>4 DEF Judgement, z, W, m
    <2> QED BY <1>4, <2>3, <2>5
<1> QED BY <1>7, <1>8, <1>9

\* Every answer is a result.
LEMMA SwellReports ==
    ASSUME NEW g \in Formats, NEW c, NEW w \in Seq(Unit), NEW out \in AnySpan,
           NEW r, r \in swell(g, c, w, out)
    PROVE  r \in Result
<1>1. CASE g \notin Served
    <2>1. r = Unexpected("format_mismatch")
        BY <1>1 DEF swell
    <2> QED BY <2>1, ResultTypes DEF Kinds
<1>2. CASE g \in Served /\ g = "zstd"
    <2>1. r = zstd_sweller_push(c, w, out)
        BY <1>2 DEF swell
    <2>2. Len(w) \in Nat /\ Upto(w) \in Nat
        BY UptoType
    <2> QED BY <1>2, <2>1, <2>2, ResultTypes DEF zstd_sweller_push, Kinds
<1>3. CASE g \in Served /\ g # "zstd"
    <2>1. g \in ZlibFormats
        BY <1>3 DEF Served, ZstdFormats
    <2> QED BY <1>3, <2>1, SwelledZlib
<1> QED BY <1>1, <1>2, <1>3

\* A success has taken all of the bytes, and given what they hold.
LEMMA SuccessGives ==
    ASSUME NEW g \in Served, NEW w \in Seq(Unit), NEW out \in AnySpan,
           NEW r, r \in swell(g, g, w, out), r.kind = "ok"
    PROVE  /\ r.in = Len(w)
           /\ r.out = IF Upto(w) <= RoomFor(g, out) THEN Upto(w) ELSE RoomFor(g, out)
<1>1. CASE g = "zstd"
    <2>1. r = zstd_sweller_push("zstd", w, out)
        BY <1>1 DEF swell
    <2>2. Upto(w) <= out.size /\ r = Progress(Len(w), Upto(w), TRUE)
        BY <2>1 DEF zstd_sweller_push, ZSTD_decompress_ok, Unexpected
    <2> QED BY <1>1, <2>2 DEF Progress, RoomFor, ZstdFormats
<1>2. CASE g # "zstd"
    <2>1. g \in ZlibFormats
        BY <1>2 DEF Served, ZstdFormats
    <2>2. out.data = "buffer"
        BY <2>1, SwelledZlib DEF AnySpan
    <2>3. PICK k \in 0 .. uInt(Len(w)), y \in InflateStream : Judgement(g, w, out, r, k, y)
        BY <2>1, <2>2, SwelledZlib
    <2>4. k = Len(w) /\ r.in = k /\ r.out = y.total_out
        BY <2>3 DEF Judgement
    <2>5. /\ Len(w) \in Nat /\ uInt(Len(w)) \in Nat /\ uInt(Len(w)) <= Len(w)
          /\ uInt(out.size) \in Nat
        BY uIntBelow DEF AnySpan
    <2>6. uInt(Len(w)) = Len(w) /\ SubSeq(w, 1, Len(w)) = w
        BY <2>4, <2>5, SubSeqFull
    <2>7. InflatedAt(zlib_sweller(g), w, uInt(out.size), Len(w), y)
        BY <2>3, <2>4, <2>6 DEF Judgement
    <2>8. Reached(w, Len(w)) = Upto(w)
        BY <2>6 DEF Reached
    <2>9. y.total_out = IF Upto(w) <= uInt(out.size) THEN Upto(w) ELSE uInt(out.size)
        BY <2>1, <2>5, <2>7, <2>8, FreshSweller DEF InflatedAt
    <2>10. RoomFor(g, out) = uInt(out.size)
        BY <1>2 DEF RoomFor, ZstdFormats
    <2> QED BY <2>4, <2>9, <2>10
<1> QED BY <1>1, <1>2

\* The whole of what squeeze wrote, into a span that holds the original.
LEMMA WholeSwells ==
    ASSUME NEW g \in ZlibFormats, g \in Served, NEW n \in Nat, NEW room \in Nat, room < UINT,
           NEW w, Exact(g, n, room, w), Complete(g, w),
           NEW out \in AnySpan, out.data = "buffer", out.size >= n, out.size < UINT,
           NEW r, r \in swell(g, g, w, out)
    PROVE  r.kind = "ok" /\ r.out = n
<1> DEFINE z == zlib_sweller(g)
<1>1. z.fmt = g /\ z.total_out = 0
    BY FreshSweller
<1>2. /\ w \in Seq(Unit) /\ Well(w) /\ Len(w) \in Nat /\ Len(w) <= room /\ TailLen(g) \in Nat
      /\ LastAt(w, Len(w) - TailLen(g)) /\ Upto(w) = n
    BY TailLenType DEF Exact, EndsAt
<1>3. uInt(Len(w)) = Len(w) /\ uInt(out.size) = out.size /\ SubSeq(w, 1, Len(w)) = w
    <2>1. Len(w) < UINT /\ out.size \in Nat
        BY <1>2, UINTAssumption DEF AnySpan
    <2> QED BY <1>2, <2>1, uIntExact, SubSeqFull
<1>4. PICK k \in 0 .. uInt(Len(w)), y \in InflateStream : Judgement(g, w, out, r, k, y)
    BY <1>2, SwelledZlib
<1>5. /\ InflatedAt(z, w, out.size, k, y)
      /\ y.status = "DONE" /\ k = Len(w) => r.kind = "ok" /\ r.out = y.total_out
    BY <1>3, <1>4 DEF Judgement
<1> HIDE DEF z
<1>6. Damages(w) = {}
    BY <1>2 DEF Damages, Well
<1>7. Overflows(z, w, out.size) = {}
    <2>1. \A i \in 1 .. Len(w) : w[i].upto \in Nat /\ w[i].upto <= n
        BY <1>2, UptoBounds
    <2> QED BY <1>1, <1>2, <2>1 DEF Overflows, AnySpan
<1>8. Ends(g, w) = {Len(w)}
    <2>1. {j \in DOMAIN w : w[j].kind = "last"} = {Len(w) - TailLen(g)}
        BY <1>2 DEF LastAt
    <2>2. Len(w) - TailLen(g) + TailLen(g) = Len(w)
        BY <1>2
    <2> QED BY <2>1, <2>2 DEF Ends
<1>9. k = Len(w)
    BY <1>1, <1>5, <1>6, <1>7, <1>8 DEF InflatedAt, Halts
<1>10. Reached(w, k) = n
    BY <1>2, <1>3, <1>9 DEF Reached
<1>11. y.status = "DONE" /\ y.total_out = n
    <2>1. n <= z.total_out + out.size
        BY <1>1 DEF AnySpan
    <2> QED BY <1>1, <1>5, <1>6, <1>8, <1>9, <1>10, <2>1 DEF InflatedAt
<1> QED BY <1>5, <1>9, <1>11

\* The same, into a span too small for it, with a trailer to tell by.
LEMMA ShortSwells ==
    ASSUME NEW g \in ZlibFormats, g \in Served, NEW n \in Nat, NEW room,
           NEW w, Exact(g, n, room, w), Complete(g, w), TailLen(g) > 0,
           NEW out \in AnySpan, out.data = "buffer", out.size < n,
           NEW r, r \in swell(g, g, w, out)
    PROVE  r.kind = "buffer_too_small"
<1> DEFINE z == zlib_sweller(g)
           L == uInt(Len(w))
           W == SubSeq(w, 1, L)
           m == uInt(out.size)
           p == Len(w) - TailLen(g)
<1>1. z.fmt = g /\ z.total_out = 0
    BY FreshSweller
<1>2. /\ w \in Seq(Unit) /\ Well(w) /\ Len(w) \in Nat /\ TailLen(g) \in Nat
      /\ LastAt(w, p) /\ w[p].upto = n
    BY TailLenType DEF Exact, EndsAt
<1>3. /\ L \in Nat /\ L <= Len(w) /\ m \in Nat /\ m <= out.size /\ out.size \in Nat
      /\ p \in 1 .. Len(w) /\ p < Len(w)
    BY <1>2, uIntBelow DEF AnySpan, LastAt
<1>4. PICK k \in 0 .. L, y \in InflateStream : Judgement(g, w, out, r, k, y)
    BY <1>2, SwelledZlib
<1>5. /\ InflatedAt(z, W, m, k, y)
      /\ y.status = "OK" /\ k < Len(w) => r.kind = "buffer_too_small"
    BY <1>4 DEF Judgement
<1>6. W \in Seq(Unit) /\ Len(W) = L /\ \A i \in 1 .. L : W[i] = w[i]
    BY <1>2, <1>3, PrefixUpto
<1>7. LastAt(w, p) /\ p + TailLen(g) = Len(w)
    BY <1>2
<1> HIDE DEF z, L, W, m, p
<1>8. p <= L => k <= p
    <2>1. p <= L => p \in Overflows(z, W, m)
        BY <1>1, <1>2, <1>3, <1>6 DEF Overflows
    <2> QED BY <1>5, <2>1 DEF InflatedAt, Halts
<1>9. k < Len(w)
    BY <1>3, <1>8
<1>10. k \notin Damages(W)
    BY <1>2, <1>3, <1>6 DEF Damages, Well
<1>11. k \notin Ends(g, W)
    <2> SUFFICES ASSUME NEW j \in DOMAIN W, W[j].kind = "last", k = j + TailLen(g)
                 PROVE  FALSE
        BY DEF Ends
    <2>1. j \in 1 .. L /\ w[j].kind = "last" /\ j \in 1 .. Len(w)
        BY <1>3, <1>6
    <2>2. j = p
        BY <1>7, <2>1 DEF LastAt
    <2> QED BY <1>7, <1>9, <2>2
<1>12. y.status = "OK"
    BY <1>1, <1>5, <1>10, <1>11 DEF InflatedAt, InflateStream
<1> QED BY <1>5, <1>9, <1>12

\* Bytes after the end of a stream.
Followed(g, w) == \E i \in 1 .. Len(w) : w[i].kind = "last" /\ i + TailLen(g) < Len(w)

LEMMA FollowedFails ==
    ASSUME NEW g \in ZlibFormats, g \in Served, NEW w \in Seq(Unit), Followed(g, w),
           NEW out \in AnySpan, NEW r, r \in swell(g, g, w, out)
    PROVE  r.kind # "ok"
<1>1. CASE out.data = "null"
    BY <1>1, SwelledZlib
<1>2. CASE out.data = "buffer"
    <2> SUFFICES ASSUME r.kind = "ok"
                 PROVE  FALSE
        OBVIOUS
    <2>1. PICK k \in 0 .. uInt(Len(w)), y \in InflateStream : Judgement(g, w, out, r, k, y)
        BY <1>2, SwelledZlib
    <2>2. /\ Len(w) \in Nat /\ uInt(Len(w)) \in Nat /\ uInt(Len(w)) <= Len(w)
          /\ zlib_sweller(g).fmt = g /\ TailLen(g) \in Nat
        BY uIntBelow, FreshSweller, TailLenType
    <2>3. k = Len(w) /\ uInt(Len(w)) = Len(w)
        BY <2>1, <2>2 DEF Judgement
    <2>4. SubSeq(w, 1, Len(w)) = w
        BY SubSeqFull
    <2>5. InflatedAt(zlib_sweller(g), w, uInt(out.size), k, y)
        BY <2>1, <2>3, <2>4 DEF Judgement
    <2>6. PICK i \in 1 .. Len(w) : w[i].kind = "last" /\ i + TailLen(g) < Len(w)
        BY DEF Followed
    <2>7. i + TailLen(g) \in Ends(g, w)
        BY <2>6 DEF Ends
    <2>8. k <= i + TailLen(g)
        BY <2>2, <2>5, <2>7 DEF InflatedAt, Halts
    <2> QED BY <2>2, <2>3, <2>6, <2>8
<1> QED BY <1>1, <1>2 DEF AnySpan
-----------------------------------------------------------------------------
(***************************************************************************)
(* The inductive invariant: what the caller's bytes are, by what was done  *)
(* to them, and what the last call answered.                               *)
(***************************************************************************)
Narrow(b) == b.fmt = "zstd" \/ (b.source < UINT /\ b.room < UINT)

Kept(b) ==
    /\ b.how # "none" => b.fmt \in Served
    /\ b.how = "exact" =>
          /\ b.source \in 0 .. MaxSource /\ b.room \in 0 .. MaxRoom
          /\ b.room >= bound(b.fmt, b.source)
          /\ Narrow(b) => Exact(b.fmt, b.source, b.room, b.wire)
    /\ b.how = "cut" /\ b.fmt = "zstd" => NoLast(b.wire)
    /\ b.how \in {"trailed", "repeated"} /\ b.fmt # "zstd" => Followed(b.fmt, b.wire)
    /\ b.how = "trailed" /\ b.fmt = "zstd" =>
          b.wire # <<>> /\ b.wire[Len(b.wire)].kind # "last"

\* The sizes callers use are ones that uInt can express.
Fits == MaxSource < UINT /\ MaxRoom < UINT /\ MaxOut < UINT

Answers ==
    /\ TrailingRejected /\ SuccessIsExact /\ TruncationNamedByFrame
    /\ Fits => RoundTrip /\ BoundIsHonest /\ ShortOutputNamedByTrailer

OInv == TypeOK /\ Kept(buf) /\ Answers

\* A step that leaves no call behind has answered nothing.
LEMMA NoAnswer ==
    /\ last.op = "none" => Answers
    /\ last'.op = "none" => Answers'
BY DEF Answers, TrailingRejected, SuccessIsExact, TruncationNamedByFrame, Beginning,
       RoundTrip, BoundIsHonest, CompleteFor, ShortOutputNamedByTrailer, Swelled, Fits

LEMMA NoCallType ==
    /\ NoCall.op = "none"
    /\ NoCall \in [op : {"none", "squeeze", "swell"}, fmt : Formats \cup {"none"}, lvl : Int,
                   out : AnySpan, r : Result]
<1> DEFINE out == [size |-> 0, data |-> "null"]
           r == Progress(0, 0, FALSE)
<1>1. r \in Result
    BY ResultTypes
<1>2. out \in AnySpan
    BY DEF AnySpan
<1>3. NoCall = [op |-> "none", fmt |-> "none", lvl |-> 0, out |-> out, r |-> r]
    BY DEF NoCall
<1> HIDE DEF out, r
<1> QED BY <1>1, <1>2, <1>3

LEMMA NoBufferKept ==
    /\ Kept(NoBuffer) /\ NoBuffer.how = "none"
    /\ NoBuffer \in [fmt : Formats \cup {"none"}, source : Nat, room : Nat, wire : Seq(Unit),
                     how : {"none", "exact", "cut", "trailed", "repeated"}]
BY DEF NoBuffer, Kept

LEMMA InitOInv == Init => OInv
BY NoAnswer, NoCallType, NoBufferKept DEF Init, OInv, TypeOK

LEMMA SqueezeKeepsOInv ==
    ASSUME OInv, NEW f \in Requests, NEW lvl \in Levels, NEW n \in 0 .. MaxSource,
           NEW out \in Spans(MaxRoom), Squeeze(f, lvl, n, out)
    PROVE  OInv'
<1>1. PICK o \in squeeze(f, lvl, n, out) :
          /\ last' = [op |-> "squeeze", fmt |-> f, lvl |-> lvl, out |-> out, r |-> o.r]
          /\ buf' = IF o.r.kind = "ok"
                    THEN [fmt |-> f, source |-> n, room |-> out.size, wire |-> o.wire,
                          how |-> "exact"]
                    ELSE NoBuffer
    BY DEF Squeeze
<1>2. /\ f \in Formats /\ n \in Nat /\ lvl \in Int /\ MaxSource \in Nat /\ MaxRoom \in Nat
      /\ out \in AnySpan /\ out.size \in 0 .. MaxRoom
    BY OneShotAssumption DEF Spans, AnySpan
<1>3. SqueezeTells(f, n, out, o)
    BY <1>2, SqueezeReports
<1>4. TypeOK'
    BY <1>1, <1>2, <1>3, NoBufferKept DEF TypeOK, SqueezeTells
<1>5. Kept(buf')
    <2>1. CASE o.r.kind = "ok"
        <3>1. /\ buf'.fmt = f /\ buf'.source = n /\ buf'.room = out.size
              /\ buf'.wire = o.wire /\ buf'.how = "exact"
            BY <1>1, <2>1
        <3>2. f \in Served /\ out.size >= bound(f, n)
            BY <1>3, <2>1 DEF SqueezeTells
        <3>3. Narrow(buf') => Exact(f, n, out.size, o.wire)
            BY <1>3, <2>1, <3>1 DEF SqueezeTells, Narrow, Wide
        <3> QED BY <1>2, <3>1, <3>2, <3>3 DEF Kept
    <2>2. CASE o.r.kind # "ok"
        BY <1>1, <2>2, NoBufferKept
    <2> QED BY <2>1, <2>2
<1>6. Answers'
    <2>1. last'.op = "squeeze" /\ last'.fmt = f /\ last'.r = o.r
        BY <1>1
    <2>2. SuccessIsExact'
        BY <2>1 DEF SuccessIsExact, Swelled
    <2>3. TrailingRejected' /\ TruncationNamedByFrame' /\ RoundTrip' /\ ShortOutputNamedByTrailer'
        BY <2>1 DEF TrailingRejected, TruncationNamedByFrame, Beginning, RoundTrip,
                    ShortOutputNamedByTrailer, Swelled
    <2>4. Fits => BoundIsHonest'
        <3> SUFFICES ASSUME Fits, f # "gzip", o.r.kind \in {"ok", "backend_failure"}
                     PROVE  /\ o.r.kind = "ok"
                            /\ Complete(buf'.fmt, buf'.wire) /\ Upto(buf'.wire) = buf'.source
            BY <2>1 DEF BoundIsHonest, CompleteFor
        <3>1. Wide(n, out)
            BY <1>2, UINTAssumption DEF Fits, Wide
        <3>2. /\ o.r.kind = "ok" /\ f \in Served /\ out.size >= bound(f, n)
              /\ Exact(f, n, out.size, o.wire)
            BY <1>3, <3>1 DEF SqueezeTells
        <3>3. bound(f, n) >= Room(f, n) /\ bound(f, n) \in Nat /\ Room(f, n) \in Nat
            BY <1>2, <3>2 DEF bound, compressBound, ZSTD_compressBound, Room, HdrLen, TailLen,
                              Served, ZlibFormats, ZstdFormats
        <3>4. out.size >= Room(f, n)
            BY <1>2, <3>2, <3>3
        <3>5. buf'.fmt = f /\ buf'.source = n /\ buf'.wire = o.wire
            BY <1>1, <3>2
        <3> QED BY <3>2, <3>4, <3>5 DEF Exact
    <2> QED BY <2>2, <2>3, <2>4 DEF Answers, Fits
<1> QED BY <1>4, <1>5, <1>6 DEF OInv

\* A zstd stream that squeeze wrote ends with its last unit.
LEMMA FrameEnds ==
    ASSUME OInv, buf.how = "exact", buf.fmt = "zstd"
    PROVE  /\ Exact("zstd", buf.source, buf.room, buf.wire) /\ Complete("zstd", buf.wire)
           /\ LastAt(buf.wire, Len(buf.wire)) /\ Upto(buf.wire) = buf.source
<1>1. /\ Exact("zstd", buf.source, buf.room, buf.wire) /\ "zstd" \in Served
      /\ buf.room >= bound("zstd", buf.source)
    BY DEF OInv, Kept, Narrow
<1>2. bound("zstd", buf.source) = Room("zstd", buf.source)
    BY <1>1, OneShotAssumption
       DEF OInv, Kept, bound, ZSTD_compressBound, Room, HdrLen, TailLen
<1>3. Complete("zstd", buf.wire)
    BY <1>1, <1>2 DEF Exact
<1>4. Len(buf.wire) - TailLen("zstd") = Len(buf.wire)
    BY <1>1 DEF TailLen, Exact
<1> QED BY <1>1, <1>3, <1>4 DEF Exact, EndsAt

\* The caller's bytes become v.
LEMMA Rewired ==
    ASSUME OInv, NEW v \in Seq(Unit), NEW h \in {"cut", "trailed", "repeated"},
           buf' = [buf EXCEPT !.wire = v, !.how = h], last' = NoCall
    PROVE  /\ TypeOK' /\ buf'.how = h /\ buf'.fmt = buf.fmt /\ buf'.wire = v
<1>1. buf \in [fmt : Formats \cup {"none"}, source : Nat, room : Nat, wire : Seq(Unit),
                how : {"none", "exact", "cut", "trailed", "repeated"}]
    BY DEF OInv, TypeOK
<1>2. last' \in [op : {"none", "squeeze", "swell"}, fmt : Formats \cup {"none"}, lvl : Int,
                  out : AnySpan, r : Result]
    BY NoCallType
<1>3. buf'.how = h /\ buf'.fmt = buf.fmt /\ buf'.wire = v
    BY <1>1
<1>4. buf' \in [fmt : Formats \cup {"none"}, source : Nat, room : Nat, wire : Seq(Unit),
                 how : {"none", "exact", "cut", "trailed", "repeated"}]
    BY <1>1
<1> QED BY <1>2, <1>3, <1>4 DEF TypeOK

LEMMA CutKeepsOInv ==
    ASSUME OInv, NEW k \in 0 .. MaxRoom, Cut(k)
    PROVE  OInv'
<1>1. /\ buf.how = "exact" /\ k \in Nat /\ k < Len(buf.wire) /\ buf.wire \in Seq(Unit)
      /\ buf' = [buf EXCEPT !.wire = SubSeq(buf.wire, 1, k), !.how = "cut"]
      /\ last' = NoCall
    BY OneShotAssumption DEF Cut, OInv, TypeOK
<1>2. k \in 0 .. Len(buf.wire) /\ SubSeq(buf.wire, 1, k) \in Seq(Unit)
    BY <1>1
<1>3. buf'.how = "cut" /\ buf'.fmt = buf.fmt /\ buf'.wire = SubSeq(buf.wire, 1, k) /\ TypeOK'
    BY <1>1, <1>2, Rewired
<1>5. buf.fmt = "zstd" => NoLast(buf'.wire)
    <2> SUFFICES ASSUME buf.fmt = "zstd"
                 PROVE  NoLast(buf'.wire)
        OBVIOUS
    <2>1. LastAt(buf.wire, Len(buf.wire))
        BY <1>1, FrameEnds
    <2> QED BY <1>1, <1>3, <2>1 DEF NoLast, LastAt
<1>6. Kept(buf')
    BY <1>1, <1>3, <1>5 DEF OInv, Kept
<1> QED BY <1>1, <1>3, <1>6, NoCallType, NoAnswer DEF OInv

\* What follows a whole stream is told apart from it.
LEMMA TailFollows ==
    ASSUME NEW w \in Seq(Unit), NEW v \in Seq(Unit), Len(v) > Len(w),
           \A i \in 1 .. Len(w) : v[i] = w[i], NEW g, Complete(g, w)
    PROVE  Followed(g, v)
<1> DEFINE i == Len(w) - TailLen(g)
<1>1. TailLen(g) \in Nat /\ i \in 1 .. Len(w) /\ w[i].kind = "last"
    BY TailLenType DEF Complete
<1>2. i \in 1 .. Len(v) /\ v[i].kind = "last" /\ i + TailLen(g) < Len(v)
    BY <1>1
<1> QED BY <1>2 DEF Followed

LEMMA TrailKeepsOInv ==
    ASSUME OInv, Trail
    PROVE  OInv'
<1> DEFINE v == Grow(buf.wire, "tail")
<1>1. /\ buf.how = "exact" /\ Complete(buf.fmt, buf.wire) /\ buf.wire \in Seq(Unit)
      /\ buf' = [buf EXCEPT !.wire = v, !.how = "trailed"]
      /\ last' = NoCall
    BY DEF Trail, OInv, TypeOK
<1>2. /\ v \in Seq(Unit) /\ Len(v) = Len(buf.wire) + 1
      /\ v[Len(v)].kind = "tail"
      /\ \A i \in 1 .. Len(buf.wire) : v[i] = buf.wire[i]
    <2> DEFINE unit == [kind |-> "tail", upto |-> Upto(buf.wire)]
    <2>1. unit \in Unit /\ unit.kind = "tail"
        BY <1>1, UptoType DEF Unit
    <2>2. v = Append(buf.wire, unit)
        BY DEF Grow
    <2> HIDE DEF unit, v
    <2> QED BY <1>1, <2>1, <2>2
<1> HIDE DEF v
<1>3. buf'.how = "trailed" /\ buf'.fmt = buf.fmt /\ buf'.wire = v /\ TypeOK'
    BY <1>1, <1>2, Rewired
<1>5. Followed(buf.fmt, v)
    <2>1. v \in Seq(Unit) /\ Len(v) > Len(buf.wire)
        BY <1>1, <1>2
    <2> QED BY <1>1, <1>2, <2>1, TailFollows
<1>6. Kept(buf')
    BY <1>1, <1>2, <1>3, <1>5 DEF OInv, Kept
<1> QED BY <1>1, <1>3, <1>6, NoCallType, NoAnswer DEF OInv

LEMMA RepeatKeepsOInv ==
    ASSUME OInv, Repeat
    PROVE  OInv'
<1> DEFINE t == Shifted(buf.wire, buf.source)
           v == buf.wire \o t
<1>1. /\ buf.how = "exact" /\ Complete(buf.fmt, buf.wire)
      /\ buf.wire \in Seq(Unit) /\ buf.source \in Nat
      /\ buf' = [buf EXCEPT !.wire = v, !.how = "repeated"]
      /\ last' = NoCall
    BY DEF Repeat, OInv, TypeOK
<1>2. t \in Seq(Unit) /\ Len(t) = Len(buf.wire)
    <2>1. t = [i \in 1 .. Len(buf.wire) |-> [buf.wire[i] EXCEPT !.upto = @ + buf.source]]
        BY <1>1 DEF Shifted
    <2>2. \A i \in 1 .. Len(buf.wire) : [buf.wire[i] EXCEPT !.upto = @ + buf.source] \in Unit
        <3> SUFFICES ASSUME NEW i \in 1 .. Len(buf.wire)
                     PROVE  [buf.wire[i] EXCEPT !.upto = @ + buf.source] \in Unit
            OBVIOUS
        <3>1. buf.wire[i] \in Unit
            BY <1>1
        <3> QED BY <1>1, <3>1 DEF Unit
    <2> HIDE DEF t
    <2>3. t \in [1 .. Len(buf.wire) -> Unit]
        BY <2>1, <2>2
    <2> QED BY <1>1, <2>3
<1> HIDE DEF t
<1>3. Len(buf.wire) > 0
    BY <1>1, TailLenType DEF Complete
<1>4. /\ v \in Seq(Unit) /\ Len(v) = Len(buf.wire) + Len(t)
      /\ \A i \in 1 .. Len(buf.wire) : v[i] = buf.wire[i]
    BY <1>1, <1>2, ConcatProperties
<1> HIDE DEF v
<1>5. buf'.how = "repeated" /\ buf'.fmt = buf.fmt /\ buf'.wire = v /\ TypeOK'
    BY <1>1, <1>4, Rewired
<1>7. Followed(buf.fmt, v)
    <2>1. v \in Seq(Unit) /\ Len(v) > Len(buf.wire)
        BY <1>1, <1>2, <1>3, <1>4
    <2> QED BY <1>1, <1>4, <2>1, TailFollows
<1>8. Kept(buf')
    BY <1>1, <1>5, <1>7 DEF OInv, Kept
<1> QED BY <1>1, <1>5, <1>8, NoCallType, NoAnswer DEF OInv

\* The answers of a swell of the caller's bytes from their own format.
LEMMA OwnAnswers ==
    ASSUME OInv, NEW out \in Spans(MaxOut), NEW r, buf.how # "none",
           r \in swell(buf.fmt, buf.fmt, buf.wire, out)
    PROVE  /\ buf.how \in {"trailed", "repeated"} =>
                 r.kind # "ok" \/ (buf.fmt = "zstd" /\ buf.how = "repeated")
           /\ buf.how = "cut" /\ buf.fmt = "zstd" =>
                 r.kind = IF buf.wire = <<>> THEN "ok" ELSE "stream_corrupt"
           /\ r.kind = "ok" =>
                 /\ r.in = Len(buf.wire)
                 /\ r.out = IF Upto(buf.wire) <= RoomFor(buf.fmt, out) THEN Upto(buf.wire)
                          ELSE RoomFor(buf.fmt, out)
           /\ Fits /\ buf.how = "exact" /\ out.data = "buffer" =>
                 /\ buf.room >= Room(buf.fmt, buf.source) /\ out.size >= buf.source =>
                       r.kind = "ok" /\ r.out = buf.source
                 /\ /\ TailLen(buf.fmt) > 0 /\ Complete(buf.fmt, buf.wire)
                    /\ out.size < buf.source
                    => r.kind = "buffer_too_small"
<1>1. /\ buf.fmt \in Served /\ buf.wire \in Seq(Unit) /\ Kept(buf)
      /\ out \in AnySpan /\ out.size \in 0 .. MaxOut
    BY OneShotAssumption DEF OInv, TypeOK, Kept, Spans, AnySpan
<1>2. ASSUME r.kind = "ok"
      PROVE  /\ r.in = Len(buf.wire)
             /\ r.out = IF Upto(buf.wire) <= RoomFor(buf.fmt, out) THEN Upto(buf.wire)
                        ELSE RoomFor(buf.fmt, out)
    BY <1>1, <1>2, SuccessGives
<1>3. CASE buf.fmt = "zstd"
    <2>1. r = zstd_sweller_push("zstd", buf.wire, out)
        BY <1>1, <1>3 DEF swell
    <2>2. ASSUME buf.wire # <<>>, buf.wire[Len(buf.wire)].kind # "last"
          PROVE  r.kind = "stream_corrupt"
        BY <2>1, <2>2 DEF zstd_sweller_push, ZSTD_decompress_ok, Unexpected
    <2>3. ASSUME buf.how = "cut", buf.wire # <<>>
          PROVE  r.kind = "stream_corrupt"
        <3>1. Len(buf.wire) \in 1 .. Len(buf.wire)
            BY <1>1, <2>3
        <3> QED BY <1>1, <1>3, <2>2, <2>3, <3>1 DEF Kept, NoLast
    <2>4. buf.how = "trailed" => r.kind = "stream_corrupt"
        BY <1>1, <1>3, <2>2 DEF Kept
    <2>5. ASSUME buf.how = "exact", out.size >= buf.source
          PROVE  r.kind = "ok" /\ r.out = buf.source
        <3>1. LastAt(buf.wire, Len(buf.wire)) /\ Upto(buf.wire) = buf.source
            BY <1>3, <2>5, FrameEnds
        <3>2. buf.wire[Len(buf.wire)].kind = "last"
            BY <3>1 DEF LastAt
        <3>3. ZSTD_decompress_ok("zstd", buf.wire, out.size)
            BY <1>1, <2>5, <3>1, <3>2 DEF ZSTD_decompress_ok, Kept
        <3> QED BY <2>1, <3>1, <3>3 DEF zstd_sweller_push, Progress
    <2>6. TailLen(buf.fmt) = 0
        BY <1>3 DEF TailLen
    <2>7. buf.wire = <<>> => r.kind = "ok"
        BY <1>1, <2>1 DEF zstd_sweller_push, ZSTD_decompress_ok, Upto, Progress, AnySpan
    <2> QED BY <1>3, <1>2, <2>3, <2>4, <2>5, <2>6, <2>7
<1>4. CASE buf.fmt # "zstd"
    <2>1. buf.fmt \in ZlibFormats
        BY <1>1, <1>4 DEF Served, ZstdFormats
    <2>2. buf.how \in {"trailed", "repeated"} => r.kind # "ok"
        BY <1>1, <1>4, <2>1, FollowedFails DEF Kept
    <2>3. ASSUME Fits, buf.how = "exact"
          PROVE  /\ Exact(buf.fmt, buf.source, buf.room, buf.wire)
                 /\ buf.source \in Nat /\ buf.room \in Nat /\ buf.room < UINT
                 /\ out.size < UINT
        BY <1>1, <2>3, OneShotAssumption, UINTAssumption DEF Kept, Narrow, Fits
    <2>4. ASSUME Fits, buf.how = "exact", out.data = "buffer",
                 buf.room >= Room(buf.fmt, buf.source), out.size >= buf.source
          PROVE  r.kind = "ok" /\ r.out = buf.source
        <3>1. Complete(buf.fmt, buf.wire)
            BY <2>3, <2>4 DEF Exact
        <3> QED BY <1>1, <2>1, <2>3, <2>4, <3>1, WholeSwells
    <2>5. ASSUME Fits, buf.how = "exact", out.data = "buffer", TailLen(buf.fmt) > 0,
                 Complete(buf.fmt, buf.wire), out.size < buf.source
          PROVE  r.kind = "buffer_too_small"
        BY <1>1, <2>1, <2>3, <2>5, ShortSwells
    <2> QED BY <1>4, <1>2, <2>2, <2>4, <2>5
<1> QED BY <1>3, <1>4

LEMMA SwellKeepsOInv ==
    ASSUME OInv, NEW g \in Readers, NEW out \in Spans(MaxOut), Swell(g, out)
    PROVE  OInv'
<1>1. PICK r \in swell(g, buf.fmt, buf.wire, out) :
          last' = [op |-> "swell", fmt |-> g, lvl |-> 0, out |-> out, r |-> r]
    BY DEF Swell
<1>2. buf' = buf /\ buf.how # "none" /\ buf.wire \in Seq(Unit)
    BY DEF Swell, OInv, TypeOK
<1>3. g \in Formats /\ out \in AnySpan
    BY OneShotAssumption DEF Spans, AnySpan
<1>4. r \in Result
    BY <1>2, <1>3, SwellReports
<1>5. /\ last'.op = "swell" /\ last'.fmt = g /\ last'.r = r /\ last'.out = out
    BY <1>1
<1>6. TypeOK'
    BY <1>1, <1>2, <1>3, <1>4 DEF OInv, TypeOK
<1>7. BoundIsHonest'
    BY <1>5 DEF BoundIsHonest, CompleteFor
<1>8. CASE g # buf.fmt
    <2>1. TrailingRejected' /\ SuccessIsExact' /\ TruncationNamedByFrame' /\ RoundTrip'
          /\ ShortOutputNamedByTrailer'
        BY <1>2, <1>5, <1>8 DEF TrailingRejected, SuccessIsExact, TruncationNamedByFrame,
                                Beginning, RoundTrip, ShortOutputNamedByTrailer, Swelled
    <2> QED BY <1>2, <1>6, <1>7, <2>1 DEF OInv, Answers, Fits
<1>9. CASE g = buf.fmt
    <2>1. r \in swell(buf.fmt, buf.fmt, buf.wire, out)
        BY <1>9
    <2>2. /\ buf.how \in {"trailed", "repeated"} =>
                 r.kind # "ok" \/ (buf.fmt = "zstd" /\ buf.how = "repeated")
          /\ buf.how = "cut" /\ buf.fmt = "zstd" =>
                r.kind = IF buf.wire = <<>> THEN "ok" ELSE "stream_corrupt"
          /\ r.kind = "ok" =>
                /\ r.in = Len(buf.wire)
                /\ r.out = IF Upto(buf.wire) <= RoomFor(buf.fmt, out) THEN Upto(buf.wire)
                         ELSE RoomFor(buf.fmt, out)
          /\ Fits /\ buf.how = "exact" /\ out.data = "buffer" =>
                 /\ buf.room >= Room(buf.fmt, buf.source) /\ out.size >= buf.source =>
                       r.kind = "ok" /\ r.out = buf.source
                 /\ /\ TailLen(buf.fmt) > 0 /\ Complete(buf.fmt, buf.wire)
                    /\ out.size < buf.source
                    => r.kind = "buffer_too_small"
        BY <1>2, <2>1, OwnAnswers
    <2>3. TrailingRejected' /\ SuccessIsExact'
        BY <1>2, <1>5, <2>2 DEF TrailingRejected, SuccessIsExact, Swelled
    <2>4. TruncationNamedByFrame'
        BY <1>2, <1>5, <2>2 DEF TruncationNamedByFrame, Beginning, Swelled, ZstdFormats
    <2>5. Fits => RoundTrip' /\ ShortOutputNamedByTrailer'
        BY <1>2, <1>5, <2>2 DEF RoundTrip, ShortOutputNamedByTrailer, Swelled, Restored
    <2> QED BY <1>2, <1>6, <1>7, <2>3, <2>4, <2>5 DEF OInv, Answers, Fits
<1> QED BY <1>8, <1>9

LEMMA NextKeepsOInv == OInv /\ [Next]_vars => OInv'
<1> SUFFICES ASSUME OInv, [Next]_vars
             PROVE  OInv'
    OBVIOUS
<1>1. ASSUME NEW f \in Requests, NEW lvl \in Levels, NEW n \in 0 .. MaxSource,
             NEW out \in Spans(MaxRoom), Squeeze(f, lvl, n, out)
      PROVE  OInv'
    BY <1>1, SqueezeKeepsOInv
<1>2. ASSUME NEW k \in 0 .. MaxRoom, Cut(k)
      PROVE  OInv'
    BY <1>2, CutKeepsOInv
<1>3. CASE Trail
    BY <1>3, TrailKeepsOInv
<1>4. CASE Repeat
    BY <1>4, RepeatKeepsOInv
<1>5. CASE Discard
    BY <1>5, NoBufferKept, NoCallType, NoAnswer DEF Discard, OInv, TypeOK
<1>6. ASSUME NEW g \in Readers, NEW out \in Spans(MaxOut), Swell(g, out)
      PROVE  OInv'
    BY <1>6, SwellKeepsOInv
<1>7. CASE UNCHANGED vars
    BY <1>7 DEF vars, OInv, TypeOK, Answers, TrailingRejected, SuccessIsExact, Fits,
                TruncationNamedByFrame, Beginning, RoundTrip, BoundIsHonest,
                CompleteFor, ShortOutputNamedByTrailer, Swelled, Restored
<1> QED BY <1>1, <1>2, <1>3, <1>4, <1>5, <1>6, <1>7 DEF Next
-----------------------------------------------------------------------------
\* The caller's bytes and the last call stay in their types: no answer of
\* bound, squeeze or swell is anything but a progress or an error.
THEOREM OneShotTypeCorrect == Spec => []TypeOK
<1>1. OInv => TypeOK
    BY DEF OInv
<1> QED BY <1>1, InitOInv, NextKeepsOInv, PTL DEF Spec

\* A success of swell reports exactly what the bytes it was given hold, or as
\* much as the span takes, whatever became of them on the way and whatever the
\* sizes, uInt's width included (zlib_sweller::push, zstd_sweller::push).
THEOREM SuccessIsAlwaysExact == Spec => []SuccessIsExact
<1>1. OInv => SuccessIsExact
    BY DEF OInv, Answers
<1> QED BY <1>1, InitOInv, NextKeepsOInv, PTL DEF Spec

\* swell never takes bytes after the end of a stream silently, of any length
\* and into any span, uInt's width included: what is given to inflate is never
\* more than there is, and the rest is what the code looks at
\* (zlib_sweller::push, zstd_sweller::push).
THEOREM TrailingAlwaysRejected == Spec => []TrailingRejected
<1>1. OInv => TrailingRejected
    BY DEF OInv, Answers
<1> QED BY <1>1, InitOInv, NextKeepsOInv, PTL DEF Spec

\* The beginning of a zstd frame is named stream_corrupt by zstd_sweller::push,
\* wherever it was cut, unless nothing is left of it: no bytes are a success.
THEOREM CutFramesAreCorrupt == Spec => []TruncationNamedByFrame
<1>1. OInv => TruncationNamedByFrame
    BY DEF OInv, Answers
<1> QED BY <1>1, InitOInv, NextKeepsOInv, PTL DEF Spec

\* What squeeze wrote into a span with room for its container, swell restores,
\* for sources and spans of any size below 2^32.
THEOREM RoundTripHolds ==
    ASSUME Fits
    PROVE  Spec => []RoundTrip
<1>1. OInv => RoundTrip
    BY DEF OInv, Answers
<1> QED BY <1>1, InitOInv, NextKeepsOInv, PTL DEF Spec

\* For zlib, raw deflate and zstd a squeeze into bound() succeeds and its
\* stream is whole, for sources and spans of any size below 2^32, although
\* squeeze does not look at `done'.
THEOREM BoundsAreHonest ==
    ASSUME Fits
    PROVE  Spec => []BoundIsHonest
<1>1. OInv => BoundIsHonest
    BY DEF OInv, Answers
<1> QED BY <1>1, InitOInv, NextKeepsOInv, PTL DEF Spec

\* A zlib or gzip stream whose output span is too small is named
\* buffer_too_small by zlib_sweller::push, not taken for a bad or a whole one.
THEOREM ShortOutputsAreNamed ==
    ASSUME Fits
    PROVE  Spec => []ShortOutputNamedByTrailer
<1>1. OInv => ShortOutputNamedByTrailer
    BY DEF OInv, Answers
<1> QED BY <1>1, InitOInv, NextKeepsOInv, PTL DEF Spec
=============================================================================
