--------------------------- MODULE DeflateProofs ---------------------------
(***************************************************************************)
(* Lemmas about zlib's deflate and the handle over it, for every stream,   *)
(* span, width of uInt and set of block sizes.                             *)
(***************************************************************************)
EXTENDS ZlibSqueezer, WireProofs
-----------------------------------------------------------------------------
(***************************************************************************)
(* What a call of deflate preserves: the stream's type and shape, and that *)
(* what it generated before stays where it is.                             *)
(***************************************************************************)
ZShape(z) ==
    /\ z.total_out <= Len(z.frame)
    /\ z.status = "INIT" => z.frame = <<>>

ZStep(z, y) ==
    /\ y \in ZStream /\ ZShape(y) /\ y.fmt = z.fmt
    /\ y.total_in >= z.total_in /\ y.total_out >= z.total_out
    /\ Extends(y.frame, z.frame)

LEMMA TrailerType ==
    ASSUME NEW z, NEW f \in Seq(Unit)
    PROVE  Trailer(z, f) \in Seq(Unit) /\ Extends(Trailer(z, f), f)
<1> DEFINE t == [i \in 1 .. TailLen(z.fmt) |-> [kind |-> "tail", upto |-> Upto(f)]]
<1>1. t \in Seq(Unit)
    BY UnitsType, TailLenType, UptoType
<1> HIDE DEF t
<1>2. f \o t \in Seq(Unit) /\ Extends(f \o t, f)
    BY <1>1, ConcatExtends
<1> QED BY <1>2 DEF Trailer, t

LEMMA HeadedType ==
    ASSUME NEW z \in ZStream, ZShape(z)
    PROVE  Headed(z) \in Seq(Unit) /\ Extends(Headed(z), z.frame)
<1>1. CASE z.status # "INIT"
    BY <1>1, ExtendsReflexive DEF Headed, ZStream
<1>2. CASE z.status = "INIT"
    <2>1. Headed(z) \in Seq(Unit)
        BY <1>2, UnitsType, HdrLenType DEF Headed
    <2>2. z.frame = <<>>
        BY <1>2 DEF ZShape
    <2> QED BY <2>1, <2>2 DEF Extends
<1> QED BY <1>1, <1>2

LEMMA CopiedType ==
    ASSUME NEW z \in ZStream, ZShape(z), NEW f \in Seq(Unit), Extends(f, z.frame),
           NEW m \in Nat
    PROVE  /\ Copied(z, f, m) \in Nat
           /\ z.total_out <= Copied(z, f, m)
           /\ Copied(z, f, m) <= Len(f)
BY DEF Copied, ZShape, Extends, ZStream

\* Updating fields of a stream.
LEMMA ZStreamExcept ==
    ASSUME NEW z \in ZStream, NEW s \in {"INIT", "BUSY", "FINISH", "ENDED"},
           NEW f \in Seq(Unit), NEW i \in Nat, NEW o \in Nat, NEW l \in {"sync", "other"}
    PROVE  [z EXCEPT !.status = s, !.frame = f, !.total_in = i,
                     !.total_out = o, !.last_flush = l] \in ZStream
BY DEF ZStream

LEMMA ZStreamDrained ==
    ASSUME NEW z \in ZStream, NEW o \in Nat, NEW l \in {"sync", "other"}
    PROVE  [z EXCEPT !.total_out = o, !.last_flush = l] \in ZStream
BY DEF ZStream

LEMMA RunStep ==
    ASSUME NEW z \in ZStream, ZShape(z), NEW fl, NEW m \in Nat,
           NEW c, c.t \in Nat, c.e \in Nat, c.u \in Nat \ {0}
    PROVE  ZStep(z, Run(z, fl, m, c).z)
<1> DEFINE all == c.e = z.total_in + c.t /\ ~HeaderStuck(z, m)
           closes == fl = "finish" /\ all /\ c.end # "open" /\ z.status \in {"INIT", "BUSY"}
           packed == closes /\ c.end = "packed" /\ c.e > Upto(z.frame)
           data == GrowBlock(Headed(z), c.e, c.u, IF packed THEN "last" ELSE "blk")
           marks == fl = "sync" /\ all /\ RoomAfter(z, data, m)
           body == IF marks THEN Grow(data, "sync")
                   ELSE IF closes /\ ~packed THEN Grow(data, "last") ELSE data
           closed == closes \/ z.status \in {"FINISH", "ENDED"}
           trailed == closed /\ RoomAfter(z, body, m)
           f == IF trailed /\ z.status # "ENDED" THEN Trailer(z, body) ELSE body
           out == Copied(z, f, m)
           y == [z EXCEPT !.status = IF trailed THEN "ENDED"
                                     ELSE IF closed THEN "FINISH" ELSE "BUSY",
                          !.frame = f, !.total_in = @ + c.t, !.total_out = out,
                          !.last_flush = IF fl = "sync" /\ RoomAfter(z, f, m)
                                         THEN "sync" ELSE "other"]
<1>1. Run(z, fl, m, c).z = y
    BY DEF Run
<1>2. Headed(z) \in Seq(Unit) /\ Extends(Headed(z), z.frame) /\ z.frame \in Seq(Unit)
    BY HeadedType DEF ZStream
<1>3. data \in Seq(Unit) /\ Extends(data, z.frame)
    <2> DEFINE k == IF packed THEN "last" ELSE "blk"
    <2>1. k \in {"blk", "last"}
        OBVIOUS
    <2> HIDE DEF k
    <2>2. /\ GrowBlock(Headed(z), c.e, c.u, k) \in Seq(Unit)
          /\ Extends(GrowBlock(Headed(z), c.e, c.u, k), Headed(z))
        BY <1>2, <2>1, GrowBlockType
    <2>3. Extends(GrowBlock(Headed(z), c.e, c.u, k), z.frame)
        BY <1>2, <2>2, ExtendsTransitive
    <2> QED BY <2>2, <2>3 DEF k
<1> HIDE DEF data, all, packed
<1>4. body \in Seq(Unit) /\ Extends(body, z.frame)
    <2>1. CASE body = data
        BY <2>1, <1>3
    <2>2. CASE body \in {Grow(data, "sync"), Grow(data, "last")}
        BY <2>2, <1>2, <1>3, GrowType, ExtendsTransitive
    <2> QED BY <2>1, <2>2
<1> HIDE DEF marks, closes, body
<1>5. f \in Seq(Unit) /\ Extends(f, z.frame)
    <2>1. CASE f = body
        BY <2>1, <1>4
    <2>2. CASE f = Trailer(z, body)
        BY <2>2, <1>2, <1>4, TrailerType, ExtendsTransitive
    <2> QED BY <2>1, <2>2
<1> HIDE DEF f
<1>6. out \in Nat /\ z.total_out <= out /\ out <= Len(f)
    BY <1>5, CopiedType
<1> HIDE DEF out, closed, trailed
<1>7. y \in ZStream
    <2>1. z.total_in + c.t \in Nat
        BY DEF ZStream
    <2>2. (IF fl = "sync" /\ RoomAfter(z, f, m) THEN "sync" ELSE "other") \in {"sync", "other"}
        OBVIOUS
    <2>3. (IF trailed THEN "ENDED" ELSE IF closed THEN "FINISH" ELSE "BUSY")
             \in {"INIT", "BUSY", "FINISH", "ENDED"}
        OBVIOUS
    <2> QED BY <2>1, <2>2, <2>3, <1>5, <1>6, ZStreamExcept
<1>8. /\ y.fmt = z.fmt /\ y.frame = f /\ y.total_out = out
      /\ y.total_in = z.total_in + c.t /\ y.status # "INIT"
    BY DEF ZStream
<1> QED BY <1>1, <1>5, <1>6, <1>7, <1>8 DEF ZStep, ZShape, ZStream

\* What a call of deflate can do: refuse, be idle, drain or run.
LEMMA DeflateCases ==
    ASSUME NEW z \in ZStream, NEW fl, NEW n \in Nat,
           NEW next_out, NEW m \in Nat, NEW d \in deflate(z, fl, n, next_out, m)
    PROVE  \/ d = [ret |-> "STREAM_ERROR", z |-> z]
           \/ /\ d = [ret |-> "BUF_ERROR", z |-> z]
              /\ m = 0 \/ (fl = "sync" /\ z.last_flush = "sync" /\ n = 0)
           \/ /\ Pending(z) >= m /\ m > 0
              /\ d = [ret |-> "OK", z |-> [z EXCEPT !.total_out = @ + m, !.last_flush = "other"]]
              /\ z.status \in {"FINISH", "ENDED"} => fl = "finish"
           \/ /\ Pending(z) < m /\ m > 0
              /\ \E c \in Choices(z, fl, n, m) : d = Run(z, fl, m, c)
              /\ z.status \in {"FINISH", "ENDED"} => fl = "finish"
<1> DEFINE refused == next_out = "null" \/ (z.status \in {"FINISH", "ENDED"} /\ fl # "finish")
           idle == m = 0 \/ (fl = "sync" /\ z.last_flush = "sync" /\ n = 0)
           drains == Pending(z) >= m
<1>1. d \in IF refused THEN {[ret |-> "STREAM_ERROR", z |-> z]}
           ELSE IF idle THEN {[ret |-> "BUF_ERROR", z |-> z]}
           ELSE IF drains
           THEN {[ret |-> "OK",
                  z |-> [z EXCEPT !.total_out = @ + m, !.last_flush = "other"]]}
           ELSE {Run(z, fl, m, c) : c \in Choices(z, fl, n, m)}
    BY Zenon DEF deflate
<1>2. ~refused => (z.status \in {"FINISH", "ENDED"} => fl = "finish")
    OBVIOUS
<1>3. (~idle => m > 0) /\ (~drains => Pending(z) < m)
    BY DEF ZStream, Pending
<1> HIDE DEF refused
<1>4. CASE refused
    BY <1>1, <1>4
<1>5. CASE ~refused /\ idle
    BY <1>1, <1>5
<1> HIDE DEF idle
<1>6. CASE ~refused /\ ~idle /\ drains
    BY <1>1, <1>2, <1>3, <1>6
<1>7. CASE ~refused /\ ~idle /\ ~drains
    <2>1. d \in {Run(z, fl, m, c) : c \in Choices(z, fl, n, m)}
        BY <1>1, <1>7
    <2> QED BY <2>1, <1>2, <1>3, <1>7
<1> QED BY <1>4, <1>5, <1>6, <1>7

LEMMA DeflateStep ==
    ASSUME NEW z \in ZStream, ZShape(z), NEW fl, NEW n \in Nat,
           NEW next_out, NEW m \in Nat, NEW d \in deflate(z, fl, n, next_out, m)
    PROVE  /\ ZStep(z, d.z)
           /\ d.ret \notin {"OK", "STREAM_END"} => d.z = z
           /\ d.ret = "STREAM_END" => fl = "finish"
<1>1. ZStep(z, z)
    BY ExtendsReflexive DEF ZStep, ZStream
<1>2. CASE d = [ret |-> "STREAM_ERROR", z |-> z] \/ d = [ret |-> "BUF_ERROR", z |-> z]
    BY <1>1, <1>2
<1>3. CASE /\ Pending(z) >= m
           /\ d = [ret |-> "OK", z |-> [z EXCEPT !.total_out = @ + m, !.last_flush = "other"]]
    <2> DEFINE y == [z EXCEPT !.total_out = @ + m, !.last_flush = "other"]
    <2>1. y \in ZStream
        <3>1. z.total_out + m \in Nat
            BY DEF ZStream
        <3> QED BY <3>1, ZStreamDrained
    <2>2. ZShape(y) /\ y.total_in = z.total_in /\ y.total_out >= z.total_out
          /\ y.frame = z.frame /\ y.fmt = z.fmt
        BY <1>3 DEF Pending, ZShape, ZStream
    <2>3. ZStep(z, y)
        BY <2>1, <2>2, ExtendsReflexive DEF ZStep, ZStream
    <2> QED BY <1>3, <2>3
<1>4. CASE /\ \E c \in Choices(z, fl, n, m) : d = Run(z, fl, m, c)
           /\ z.status \in {"FINISH", "ENDED"} => fl = "finish"
    <2>1. PICK c \in Choices(z, fl, n, m) : d = Run(z, fl, m, c)
        BY <1>4
    <2>2. d.ret \in {"OK", "STREAM_END"} /\ (d.ret = "STREAM_END" => fl = "finish")
        BY <1>4, <2>1 DEF Run
    <2>3. c.t \in Nat /\ c.e \in Nat /\ c.u \in Nat \ {0}
        <3>1. Upto(z.frame) \in Nat /\ z.total_in \in Nat
            BY UptoType DEF ZStream
        <3>2. c \in [t : 0 .. n, e : Upto(z.frame) .. z.total_in + n, u : Spread \cup {1},
                     end : {"packed", "alone", "open"}]
            BY Zenon DEF Choices
        <3>3. /\ c.t \in 0 .. n
              /\ c.e \in Upto(z.frame) .. z.total_in + n
              /\ c.u \in Spread \cup {1}
            BY <3>2
        <3>4. c.t \in Nat
            BY <3>3
        <3>5. \A a, b \in Nat : \A e \in a .. b : e \in Nat
            OBVIOUS
        <3>6. z.total_in + n \in Nat
            BY <3>1
        <3>7. c.e \in Nat
            BY <3>1, <3>3, <3>5, <3>6
        <3>8. Spread \cup {1} \subseteq Nat \ {0}
            BY SpreadAssumption
        <3> QED BY <3>3, <3>4, <3>7, <3>8
    <2> QED BY <2>1, <2>2, <2>3, RunStep
<1>5. \/ d = [ret |-> "STREAM_ERROR", z |-> z]
      \/ /\ d = [ret |-> "BUF_ERROR", z |-> z]
         /\ m = 0 \/ (fl = "sync" /\ z.last_flush = "sync" /\ n = 0)
      \/ /\ Pending(z) >= m /\ m > 0
         /\ d = [ret |-> "OK", z |-> [z EXCEPT !.total_out = @ + m, !.last_flush = "other"]]
         /\ z.status \in {"FINISH", "ENDED"} => fl = "finish"
      \/ /\ Pending(z) < m /\ m > 0
         /\ \E c \in Choices(z, fl, n, m) : d = Run(z, fl, m, c)
         /\ z.status \in {"FINISH", "ENDED"} => fl = "finish"
    BY DeflateCases
<1> QED BY <1>2, <1>3, <1>4, <1>5

LEMMA uIntType ==
    ASSUME NEW size \in Nat
    PROVE  uInt(size) \in Nat
BY UINTAssumption DEF uInt
-----------------------------------------------------------------------------
(***************************************************************************)
(* The engine's inductive invariant: what it has generated carries the     *)
(* symbols it has read, in order and none too many, and ends where the     *)
(* status says it does.                                                    *)
(***************************************************************************)
ZEnds(z) ==
    /\ z.status \in {"INIT", "BUSY"} => NoLast(z.frame)
    /\ z.status = "FINISH" => LastAt(z.frame, Len(z.frame))
    /\ z.status = "ENDED" => EndsAt(z.frame, Len(z.frame) - TailLen(z.fmt))
    /\ z.status \in {"FINISH", "ENDED"} => Upto(z.frame) = z.total_in

\* After a sync flush that left room nothing is pending and nothing is held back.
ZSynced(z) ==
    z.last_flush = "sync" =>
        /\ z.status = "BUSY" /\ z.total_out = Len(z.frame) /\ z.frame # <<>>
        /\ z.frame[Len(z.frame)].kind = "sync" /\ Upto(z.frame) = z.total_in

ZInv(z) ==
    /\ ZShape(z) /\ Well(z.frame) /\ Upto(z.frame) <= z.total_in
    /\ ZEnds(z) /\ ZSynced(z)

\* What the use of the output span says of a call: y after z, with n symbols
\* offered into m units.
ZTells(z, fl, n, m, d) ==
    /\ n = 0 => d.z.total_in = z.total_in
    /\ z.status \in {"INIT", "BUSY"} /\ d.z.status \in {"FINISH", "ENDED"} =>
          d.z.total_in = z.total_in + n
    /\ d.z.total_out < z.total_out + m =>
        /\ fl = "no" => d.z.total_in = z.total_in + n
        /\ fl = "sync" => d.z.last_flush = "sync"
        /\ fl = "finish" => d.ret = "STREAM_END"
    /\ d.ret = "STREAM_END" => d.z.status = "ENDED" /\ d.z.total_out = Len(d.z.frame)

LEMMA ChoiceType ==
    ASSUME NEW z \in ZStream, NEW fl, NEW n \in Nat, NEW m \in Nat,
           NEW c \in Choices(z, fl, n, m)
    PROVE  /\ c.t \in 0 .. n /\ c.e \in Nat /\ c.u \in Nat \ {0}
           /\ Upto(z.frame) <= c.e /\ c.e <= z.total_in + c.t
           /\ c.e > Upto(z.frame) => c.u <= c.e - Upto(z.frame)
           /\ c.end = "open" <=> c.t < n
           /\ HeaderStuck(z, m) => c.t = 0 /\ c.e = Upto(z.frame)
           /\ RoomAfter(z, GrowBlock(Headed(z), c.e, c.u, "blk"), m) =>
                 c.t = n /\ (fl # "no" => c.e = z.total_in + c.t)
<1>1. Upto(z.frame) \in Nat /\ z.total_in \in Nat /\ z.frame \in Seq(Unit)
    BY UptoType DEF ZStream
<1>2. /\ c \in [t : 0 .. n, e : Upto(z.frame) .. z.total_in + n, u : Spread \cup {1},
                end : {"packed", "alone", "open"}]
      /\ c.e <= z.total_in + c.t
      /\ c.end = "open" <=> c.t < n
      /\ c.u \in BlockSizes(z.frame, c.e)
      /\ HeaderStuck(z, m) => c.t = 0 /\ c.e = Upto(z.frame)
      /\ RoomAfter(z, GrowBlock(Headed(z), c.e, c.u, "blk"), m) =>
            c.t = n /\ (fl # "no" => c.e = z.total_in + c.t)
    BY Zenon DEF Choices
<1>3. c.t \in 0 .. n /\ c.e \in Upto(z.frame) .. z.total_in + n
    BY <1>2
<1>4. c.e \in Nat /\ Upto(z.frame) <= c.e
    BY <1>1, <1>3
<1>5. c.u \in Nat \ {0} /\ (c.e > Upto(z.frame) => c.u <= c.e - Upto(z.frame))
    BY <1>1, <1>2, <1>4, BlockSizesType
<1> QED BY <1>2, <1>3, <1>4, <1>5

LEMMA HeadedWell ==
    ASSUME NEW z \in ZStream, ZInv(z)
    PROVE  /\ Headed(z) \in Seq(Unit) /\ Well(Headed(z)) /\ Upto(Headed(z)) = Upto(z.frame)
           /\ z.status # "INIT" => Headed(z) = z.frame
           /\ Len(z.frame) <= Len(Headed(z))
           /\ z.status \in {"INIT", "BUSY"} => NoLast(Headed(z))
<1>1. z.frame \in Seq(Unit)
    BY DEF ZStream
<1>2. CASE z.status # "INIT"
    BY <1>1, <1>2 DEF Headed, ZInv, ZEnds
<1>3. CASE z.status = "INIT"
    <2> DEFINE u == [kind |-> "hdr", upto |-> 0]
               h == [i \in 1 .. HdrLen(z.fmt) |-> u]
    <2>1. h \in Seq(Unit) /\ Len(h) \in Nat
        <3>1. HdrLen(z.fmt) \in Nat /\ u \in Unit
            BY HdrLenType DEF Unit
        <3> HIDE DEF u
        <3> QED BY <3>1
    <2>2. Headed(z) = h
        BY <1>3 DEF Headed
    <2>3. \A i \in 1 .. Len(h) : h[i] = u
        BY HdrLenType
    <2>4. u.kind = "hdr" /\ u.upto = 0
        OBVIOUS
    <2> HIDE DEF u, h
    <2>5. Well(h) /\ NoLast(h)
        BY <2>3, <2>4 DEF Well, NoLast
    <2>6. Upto(h) = 0
        <3>1. h # <<>> => Len(h) \in 1 .. Len(h)
            BY <2>1
        <3> QED BY <2>3, <2>4, <3>1 DEF Upto
    <2>7. z.frame = <<>> /\ Upto(z.frame) = 0 /\ Len(z.frame) = 0
        BY <1>3 DEF ZInv, ZShape, Upto
    <2> QED BY <1>3, <2>1, <2>2, <2>5, <2>6, <2>7
<1> QED BY <1>2, <1>3

LEMMA TrailerWell ==
    ASSUME NEW z, NEW f \in Seq(Unit), Well(f)
    PROVE  /\ Trailer(z, f) \in Seq(Unit) /\ Well(Trailer(z, f))
           /\ Upto(Trailer(z, f)) = Upto(f)
           /\ Len(Trailer(z, f)) = Len(f) + TailLen(z.fmt)
           /\ LastAt(f, Len(f)) => EndsAt(Trailer(z, f), Len(f))
<1> DEFINE g == f \o [i \in 1 .. TailLen(z.fmt) |-> [kind |-> "tail", upto |-> Upto(f)]]
<1>1. TailLen(z.fmt) \in Nat
    BY TailLenType
<1>2. /\ g \in Seq(Unit) /\ Well(g) /\ Len(g) = Len(f) + TailLen(z.fmt) /\ Upto(g) = Upto(f)
      /\ \A i \in 1 .. Len(f) : g[i] = f[i]
      /\ \A i \in Len(f) + 1 .. Len(g) : g[i].kind = "tail"
    <2> DEFINE n == TailLen(z.fmt)
    <2>1. RunAfter(f, "tail", n, f \o [i \in 1 .. n |-> [kind |-> "tail", upto |-> Upto(f)]])
        <3> HIDE DEF n
        <3> SUFFICES n \in Nat
            BY RunOfUnits
        <3> QED BY <1>1 DEF n
    <2>2. RunAfter(f, "tail", n, g)
        BY <2>1
    <2> HIDE DEF g
    <2> QED BY <2>2 DEF RunAfter
<1>3. Trailer(z, f) = g
    BY DEF Trailer
<1> HIDE DEF g
<1>4. LastAt(f, Len(f)) => LastAt(g, Len(f)) /\ g[Len(f)].upto = Upto(g)
    <2> SUFFICES ASSUME LastAt(f, Len(f))
                 PROVE  LastAt(g, Len(f)) /\ g[Len(f)].upto = Upto(g)
        OBVIOUS
    <2>1. Len(f) \in 1 .. Len(f) /\ f # <<>>
        BY DEF LastAt
    <2>2. g[Len(f)].upto = Upto(g)
        BY <1>2, <2>1 DEF Upto
    <2> QED BY <1>1, <1>2, <2>2 DEF LastAt
<1> QED BY <1>2, <1>3, <1>4 DEF EndsAt

\* A call on a stream whose data goes on.
LEMMA RunOpen ==
    ASSUME NEW z \in ZStream, ZInv(z), NEW fl \in {"no", "sync", "finish"}, NEW n \in Nat,
           NEW m \in Nat, NEW c \in Choices(z, fl, n, m), Pending(z) < m,
           z.status \in {"INIT", "BUSY"}
    PROVE  ZInv(Run(z, fl, m, c).z) /\ ZTells(z, fl, n, m, Run(z, fl, m, c))
<1> DEFINE all == c.e = z.total_in + c.t /\ ~HeaderStuck(z, m)
           closes == fl = "finish" /\ all /\ c.end # "open" /\ z.status \in {"INIT", "BUSY"}
           packed == closes /\ c.end = "packed" /\ c.e > Upto(z.frame)
           k == IF packed THEN "last" ELSE "blk"
           h == Headed(z)
           data == GrowBlock(h, c.e, c.u, k)
           marks == fl = "sync" /\ all /\ RoomAfter(z, data, m)
           body == IF marks THEN Grow(data, "sync")
                   ELSE IF closes /\ ~packed THEN Grow(data, "last") ELSE data
           closed == closes \/ z.status \in {"FINISH", "ENDED"}
           trailed == closed /\ RoomAfter(z, body, m)
           f == IF trailed /\ z.status # "ENDED" THEN Trailer(z, body) ELSE body
           out == Copied(z, f, m)
           status == IF trailed THEN "ENDED" ELSE IF closed THEN "FINISH" ELSE "BUSY"
           lf == IF fl = "sync" /\ RoomAfter(z, f, m) THEN "sync" ELSE "other"
           y == [z EXCEPT !.status = status,
                          !.frame = f, !.total_in = @ + c.t, !.total_out = out,
                          !.last_flush = lf]
           d == Run(z, fl, m, c)
<1>1. /\ d.z = y
      /\ d.ret = IF trailed /\ out = Len(f) THEN "STREAM_END" ELSE "OK"
    BY DEF Run
<1>2. /\ z.frame \in Seq(Unit) /\ Upto(z.frame) \in Nat
      /\ z.total_in \in Nat /\ z.total_out \in Nat
    BY UptoType DEF ZStream
<1>3. /\ c.t \in 0 .. n /\ c.e \in Nat /\ c.u \in Nat \ {0}
      /\ Upto(z.frame) <= c.e /\ c.e <= z.total_in + c.t
      /\ c.e > Upto(z.frame) => c.u <= c.e - Upto(z.frame)
      /\ c.end = "open" <=> c.t < n
      /\ HeaderStuck(z, m) => c.t = 0 /\ c.e = Upto(z.frame)
      /\ RoomAfter(z, GrowBlock(h, c.e, c.u, "blk"), m) =>
            c.t = n /\ (fl # "no" => c.e = z.total_in + c.t)
    BY ChoiceType
<1>4. /\ h \in Seq(Unit) /\ Well(h) /\ Upto(h) = Upto(z.frame)
      /\ Len(z.frame) <= Len(h) /\ NoLast(h)
    BY HeadedWell
<1>h. HeaderStuck(z, m) <=> Len(h) > z.total_out + m
    BY DEF HeaderStuck
<1> HIDE DEF h
<1>5. k \in {"blk", "last"} /\ (packed => closes /\ c.e > Upto(h)) /\ (closes => all)
    BY <1>4
<1>a. (closes => fl = "finish") /\ (marks => fl = "sync" /\ all)
    OBVIOUS
<1>b. /\ fl = "finish" /\ all /\ c.t = n => closes
      /\ closes => c.t = n
    BY <1>3
<1>6. /\ data \in Seq(Unit) /\ Well(data) /\ Upto(data) = c.e
      /\ Len(data) = Len(h) + (IF c.e > Upto(h) THEN c.u ELSE 0)
      /\ \A i \in 1 .. Len(h) : data[i] = h[i]
      /\ \A i \in Len(h) + 1 .. Len(data) :
             data[i].kind = IF i = Len(data) THEN k ELSE "blk"
    <2>1. /\ c.e \in Nat /\ Upto(h) <= c.e /\ c.u \in Nat \ {0} /\ k \in {"blk", "last"}
          /\ c.e > Upto(h) => c.u <= c.e - Upto(h)
        BY <1>3, <1>4, <1>5
    <2> HIDE DEF k, packed, closes, all
    <2> DEFINE g == GrowBlock(h, c.e, c.u, k)
    <2>2. /\ g \in Seq(Unit) /\ Well(g) /\ Upto(g) = c.e
          /\ Len(g) = Len(h) + (IF c.e > Upto(h) THEN c.u ELSE 0)
          /\ \A i \in 1 .. Len(h) : g[i] = h[i]
          /\ \A i \in Len(h) + 1 .. Len(g) :
                 g[i].kind = IF i = Len(g) THEN k ELSE "blk"
        <3> HIDE DEF g
        <3>1. CodedAs(h, c.e, c.u, k, GrowBlock(h, c.e, c.u, k))
            BY <1>4, <2>1, BlockWell
        <3> QED BY <3>1 DEF CodedAs, g
    <2>3. data = g
        OBVIOUS
    <2> HIDE DEF g, data
    <2> QED BY <2>2, <2>3
<1>7. Len(GrowBlock(h, c.e, c.u, "blk")) = Len(data)
    <2> HIDE DEF data
    <2>1. CodedAs(h, c.e, c.u, "blk", GrowBlock(h, c.e, c.u, "blk"))
        BY <1>3, <1>4, BlockWell
    <2> QED BY <1>6, <2>1 DEF CodedAs
<1>8. RoomAfter(z, data, m) => c.t = n /\ (all \/ fl = "no")
    <2>1. RoomAfter(z, data, m) => RoomAfter(z, GrowBlock(h, c.e, c.u, "blk"), m)
        BY <1>7 DEF RoomAfter
    <2>2. RoomAfter(z, data, m) => ~(Len(h) > z.total_out + m)
        <3>1. Len(h) <= Len(data) /\ Len(data) \in Nat /\ Len(h) \in Nat
            BY <1>3, <1>4, <1>6
        <3> HIDE DEF data
        <3> QED BY <1>2, <3>1 DEF RoomAfter
    <2> HIDE DEF data
    <2> QED BY <2>1, <2>2, <1>3, <1>h
<1>9. IF packed THEN LastAt(data, Len(data)) ELSE NoLast(data)
    <2>1. CASE packed
        <3>1. Len(data) \in Len(h) + 1 .. Len(data)
            BY <1>3, <1>4, <1>5, <1>6, <2>1
        <3>2. k = "last"
            BY <2>1
        <3> HIDE DEF data, k, packed
        <3> QED BY <1>4, <1>6, <2>1, <3>1, <3>2 DEF LastAt, NoLast
    <2>2. CASE ~packed
        <3>2. k = "blk"
            BY <2>2
        <3> HIDE DEF data, k, packed
        <3> QED BY <1>4, <1>6, <2>2, <3>2 DEF NoLast
    <2> QED BY <2>1, <2>2
<1>e. all => c.e = z.total_in + c.t
    OBVIOUS
<1>m. marks <=> fl = "sync" /\ all /\ RoomAfter(z, data, m)
    OBVIOUS
<1> HIDE DEF data, all, packed, k
<1>10. /\ body \in Seq(Unit) /\ Well(body) /\ Upto(body) = c.e /\ Len(data) <= Len(body)
       /\ IF closes THEN LastAt(body, Len(body)) ELSE NoLast(body)
       /\ marks => body # <<>> /\ body[Len(body)].kind = "sync"
    <2>1. CASE marks
        <3>1. body = Grow(data, "sync") /\ ~closes /\ ~packed
            BY <1>5, <1>a, <2>1
        <3>2. /\ Well(body) /\ body \in Seq(Unit) /\ Upto(body) = c.e
              /\ Len(body) = Len(data) + 1 /\ body[Len(data) + 1].kind = "sync"
              /\ \A i \in 1 .. Len(data) : body[i] = data[i]
            <4> HIDE DEF body
            <4> QED BY <1>6, <3>1, GrowType, GrowWell
        <3> HIDE DEF body, closes, marks
        <3>4. NoLast(data) /\ Len(data) \in Nat
            BY <1>6, <1>9, <3>1
        <3>3. NoLast(body)
            BY <3>2, <3>4 DEF NoLast
        <3> QED BY <1>6, <2>1, <3>1, <3>2, <3>3
    <2>2. CASE ~marks /\ closes /\ ~packed
        <3>1. body = Grow(data, "last")
            BY <2>2
        <3>2. /\ Well(body) /\ body \in Seq(Unit) /\ Upto(body) = c.e
              /\ Len(body) = Len(data) + 1 /\ body[Len(data) + 1].kind = "last"
              /\ \A i \in 1 .. Len(data) : body[i] = data[i]
            <4> HIDE DEF body
            <4> QED BY <1>6, <3>1, GrowType, GrowWell
        <3> HIDE DEF body
        <3>3. LastAt(body, Len(body))
            <4>1. NoLast(data) /\ Len(data) \in Nat
                BY <1>6, <1>9, <2>2
            <4>2. \A i \in 1 .. Len(data) : body[i].kind # "last"
                BY <3>2, <4>1 DEF NoLast
            <4> QED BY <3>2, <4>1, <4>2 DEF LastAt
        <3> QED BY <1>6, <2>2, <3>2, <3>3
    <2>3. CASE ~marks /\ ~(closes /\ ~packed)
        <3>1. body = data
            BY <2>3
        <3> HIDE DEF body
        <3> QED BY <1>5, <1>6, <1>9, <2>3, <3>1
    <2> QED BY <2>1, <2>2, <2>3
<1>11. closed <=> closes
    OBVIOUS
<1> HIDE DEF body, marks, closes, closed
<1>12. /\ f \in Seq(Unit) /\ Well(f) /\ Upto(f) = c.e /\ Len(body) <= Len(f)
       /\ trailed => EndsAt(f, Len(f) - TailLen(z.fmt))
       /\ ~trailed => f = body
    <2>1. CASE trailed
        <3>1. f = Trailer(z, body) /\ closes /\ TailLen(z.fmt) \in Nat
            BY <1>11, <2>1, TailLenType
        <3>2. /\ f \in Seq(Unit) /\ Well(f) /\ Upto(f) = Upto(body)
              /\ Len(f) = Len(body) + TailLen(z.fmt)
              /\ LastAt(body, Len(body)) => EndsAt(f, Len(body))
            <4> HIDE DEF f
            <4> QED BY <1>10, <3>1, TrailerWell
        <3>3. Len(f) - TailLen(z.fmt) = Len(body) /\ Len(body) <= Len(f)
            <4> HIDE DEF f
            <4> QED BY <1>10, <3>1, <3>2
        <3> HIDE DEF f
        <3> QED BY <1>10, <2>1, <3>1, <3>2, <3>3
    <2>2. CASE ~trailed
        <3>1. f = body
            BY <2>2
        <3> HIDE DEF f
        <3> QED BY <1>10, <2>2, <3>1
    <2> QED BY <2>1, <2>2
<1>t. trailed <=> closed /\ RoomAfter(z, body, m)
    OBVIOUS
<1> HIDE DEF f, trailed
<1>13. /\ out \in Nat /\ out <= Len(f)
       /\ out < z.total_out + m => RoomAfter(z, f, m)
       /\ RoomAfter(z, f, m) => out = Len(f)
    BY <1>2, <1>12 DEF Copied, RoomAfter
<1>14. /\ RoomAfter(z, f, m) => RoomAfter(z, body, m)
       /\ RoomAfter(z, body, m) => RoomAfter(z, data, m)
    BY <1>2, <1>6, <1>10, <1>12 DEF RoomAfter
<1>15. /\ status \in {"ENDED", "FINISH", "BUSY"}
       /\ status = "ENDED" <=> trailed
       /\ status = "FINISH" <=> closed /\ ~trailed
       /\ status = "BUSY" <=> ~closed
       /\ lf = "sync" <=> fl = "sync" /\ RoomAfter(z, f, m)
    BY <1>t
<1> HIDE DEF out, status, lf
<1>16. /\ y.status = status /\ y.frame = f /\ y.total_in = z.total_in + c.t
       /\ y.total_out = out /\ y.last_flush = lf /\ y.fmt = z.fmt
    BY DEF ZStream
<1> HIDE DEF y
<1>17. ZShape(y)
    BY <1>13, <1>15, <1>16 DEF ZShape
<1>18. Well(y.frame) /\ Upto(y.frame) <= y.total_in
    BY <1>3, <1>12, <1>16
<1>19. ZEnds(y)
    <2>1. closed => Upto(f) = z.total_in + c.t
        BY <1>5, <1>11, <1>12, <1>e
    <2> QED BY <1>10, <1>11, <1>12, <1>15, <1>16, <1>t, <2>1 DEF ZEnds
<1>20. ZSynced(y)
    <2> SUFFICES ASSUME lf = "sync"
                 PROVE  /\ status = "BUSY" /\ out = Len(f) /\ f # <<>>
                        /\ f[Len(f)].kind = "sync" /\ Upto(f) = z.total_in + c.t
        BY <1>16 DEF ZSynced
    <2>1. fl = "sync" /\ RoomAfter(z, f, m) /\ ~closed /\ ~trailed
        BY <1>11, <1>15, <1>a, <1>t
    <2>2. all /\ marks
        BY <1>8, <1>14, <1>m, <2>1
    <2> QED BY <1>10, <1>12, <1>13, <1>15, <1>e, <2>1, <2>2
<1>21. ZTells(z, fl, n, m, d)
    <2>1. n = 0 => y.total_in = z.total_in
        BY <1>2, <1>3, <1>16
    <2>5. y.status \in {"FINISH", "ENDED"} => y.total_in = z.total_in + n
        BY <1>11, <1>15, <1>16, <1>b, <1>t
    <2>2. d.ret = "STREAM_END" <=> trailed /\ out = Len(f)
        BY <1>1
    <2>3. d.ret = "STREAM_END" => y.status = "ENDED" /\ y.total_out = Len(y.frame)
        BY <1>15, <1>16, <2>2
    <2>4. ASSUME y.total_out < z.total_out + m
          PROVE  /\ fl = "no" => y.total_in = z.total_in + n
                 /\ fl = "sync" => y.last_flush = "sync"
                 /\ fl = "finish" => d.ret = "STREAM_END"
        <3>1. RoomAfter(z, f, m) /\ RoomAfter(z, body, m) /\ RoomAfter(z, data, m) /\ out = Len(f)
            BY <1>13, <1>14, <1>16, <2>4
        <3> QED BY <3>1, <1>8, <1>11, <1>15, <1>16, <1>b, <1>t, <2>2
    <2> QED BY <1>1, <2>1, <2>3, <2>4, <2>5 DEF ZTells
<1> QED BY <1>1, <1>17, <1>18, <1>19, <1>20, <1>21 DEF ZInv

\* The whole stream, trailer included, has been written.
ZClosed(z) ==
    /\ z.status \in {"FINISH", "ENDED"} /\ z.total_out = Len(z.frame)
    /\ z.status = "FINISH" => TailLen(z.fmt) = 0

\* A call on a stream whose data has ended writes what remains of the trailer.
LEMMA RunClosed ==
    ASSUME NEW z \in ZStream, ZInv(z), NEW m \in Nat,
           NEW c \in Choices(z, "finish", 0, m), Pending(z) < m,
           z.status \in {"FINISH", "ENDED"}
    PROVE  LET d == Run(z, "finish", m, c)
           IN  /\ ZInv(d.z) /\ ZTells(z, "finish", 0, m, d)
               /\ ZClosed(z) => ZClosed(d.z) /\ d.z.total_out = z.total_out
<1> DEFINE f == IF z.status # "ENDED" THEN Trailer(z, z.frame) ELSE z.frame
           out == Copied(z, f, m)
           y == [z EXCEPT !.status = "ENDED", !.frame = f, !.total_in = @ + 0,
                          !.total_out = out, !.last_flush = "other"]
           d == Run(z, "finish", m, c)
<1>1. /\ z.frame \in Seq(Unit) /\ Upto(z.frame) = z.total_in
      /\ z.total_in \in Nat /\ z.total_out \in Nat
    BY UptoType DEF ZStream, ZInv, ZEnds
<1>2. c.t = 0 /\ c.e = z.total_in
    <2>1. c.t \in 0 .. 0 /\ c.e \in Nat /\ Upto(z.frame) <= c.e /\ c.e <= z.total_in + c.t
        BY ChoiceType
    <2> QED BY <1>1, <2>1
<1>3. Headed(z) = z.frame /\ ~HeaderStuck(z, m) /\ RoomAfter(z, z.frame, m)
    <2>1. Headed(z) = z.frame
        BY DEF Headed
    <2>2. Len(z.frame) \in Nat
        BY <1>1
    <2> QED BY <1>1, <2>1, <2>2 DEF HeaderStuck, RoomAfter, Pending
<1>4. \A k : GrowBlock(z.frame, c.e, c.u, k) = z.frame
    BY <1>1, <1>2 DEF GrowBlock
<1>5. /\ d.z = y
      /\ d.ret = IF out = Len(f) THEN "STREAM_END" ELSE "OK"
    <2> DEFINE all == c.e = z.total_in + c.t /\ ~HeaderStuck(z, m)
               closes == "finish" = "finish" /\ all /\ c.end # "open" /\ z.status \in {"INIT", "BUSY"}
               packed == closes /\ c.end = "packed" /\ c.e > Upto(z.frame)
               data == GrowBlock(Headed(z), c.e, c.u, IF packed THEN "last" ELSE "blk")
               marks == "finish" = "sync" /\ all /\ RoomAfter(z, data, m)
               body == IF marks THEN Grow(data, "sync")
                       ELSE IF closes /\ ~packed THEN Grow(data, "last") ELSE data
               closed == closes \/ z.status \in {"FINISH", "ENDED"}
               trailed == closed /\ RoomAfter(z, body, m)
               g == IF trailed /\ z.status # "ENDED" THEN Trailer(z, body) ELSE body
               room == Copied(z, g, m)
    <2>1. /\ d.ret = IF trailed /\ room = Len(g) THEN "STREAM_END" ELSE "OK"
          /\ d.z = [z EXCEPT !.status = IF trailed THEN "ENDED"
                                        ELSE IF closed THEN "FINISH" ELSE "BUSY",
                             !.frame = g, !.total_in = @ + c.t, !.total_out = room,
                             !.last_flush = IF "finish" = "sync" /\ RoomAfter(z, g, m)
                                            THEN "sync" ELSE "other"]
        BY DEF Run
    <2>2. ~closes /\ ~marks /\ closed
        OBVIOUS
    <2>3. data = z.frame
        BY <1>3, <1>4
    <2> HIDE DEF data, marks, closes
    <2>4. body = z.frame /\ trailed
        BY <1>3, <2>2, <2>3
    <2> HIDE DEF body, trailed, closed
    <2>5. g = f /\ room = out
        BY <2>4
    <2> HIDE DEF g, room, f, out
    <2> QED BY <1>2, <2>1, <2>4, <2>5
<1>6. TailLen(z.fmt) \in Nat /\ Len(z.frame) \in Nat
    BY <1>1, TailLenType
<1>7. /\ f \in Seq(Unit) /\ Well(f) /\ Upto(f) = z.total_in
      /\ Len(f) = Len(z.frame) + (IF z.status # "ENDED" THEN TailLen(z.fmt) ELSE 0)
      /\ EndsAt(f, Len(f) - TailLen(z.fmt))
    <2>1. CASE z.status = "ENDED"
        BY <1>1, <1>6, <2>1 DEF ZInv, ZEnds
    <2>2. CASE z.status # "ENDED"
        <3>1. f = Trailer(z, z.frame) /\ LastAt(z.frame, Len(z.frame)) /\ Well(z.frame)
            BY <2>2 DEF ZInv, ZEnds
        <3>2. /\ f \in Seq(Unit) /\ Well(f) /\ Upto(f) = z.total_in
              /\ Len(f) = Len(z.frame) + TailLen(z.fmt) /\ EndsAt(f, Len(z.frame))
            <4> HIDE DEF f
            <4> QED BY <1>1, <3>1, TrailerWell
        <3>3. Len(f) - TailLen(z.fmt) = Len(z.frame)
            <4> HIDE DEF f
            <4> QED BY <1>6, <3>2
        <3> HIDE DEF f
        <3> QED BY <2>2, <3>2, <3>3
    <2> QED BY <2>1, <2>2
<1> HIDE DEF f
<1>8. /\ out \in Nat /\ out <= Len(f)
      /\ out < z.total_out + m => out = Len(f)
      /\ ZClosed(z) => Len(f) = Len(z.frame) /\ out = z.total_out
    <2>1. Len(f) \in Nat /\ Len(z.frame) <= Len(f)
        BY <1>6, <1>7
    <2>2. ZClosed(z) => Len(f) = Len(z.frame)
        BY <1>6, <1>7 DEF ZClosed
    <2> QED BY <1>1, <2>1, <2>2 DEF Copied, ZClosed
<1> HIDE DEF out
<1>9. /\ y.status = "ENDED" /\ y.frame = f /\ y.total_in = z.total_in
      /\ y.total_out = out /\ y.last_flush = "other" /\ y.fmt = z.fmt
    BY <1>1 DEF ZStream
<1> HIDE DEF y
<1>10. ZShape(y) /\ ZEnds(y) /\ ZSynced(y) /\ Well(y.frame) /\ Upto(y.frame) <= y.total_in
    BY <1>1, <1>7, <1>8, <1>9 DEF ZShape, ZEnds, ZSynced
<1>11. ZTells(z, "finish", 0, m, d)
    BY <1>5, <1>8, <1>9 DEF ZTells
<1>12. ZClosed(z) => ZClosed(y) /\ y.total_out = z.total_out
    BY <1>8, <1>9 DEF ZClosed
<1> QED BY <1>5, <1>10, <1>11, <1>12 DEF ZInv

\* What a call of deflate tells, when it is neither refused nor idle.
LEMMA DeflateKeeps ==
    ASSUME NEW z \in ZStream, ZInv(z), NEW fl \in {"no", "sync", "finish"}, NEW n \in Nat,
           fl = "finish" /\ z.status \in {"FINISH", "ENDED"} => n = 0,
           NEW next_out, NEW m \in Nat, NEW d \in deflate(z, fl, n, next_out, m)
    PROVE  /\ ZInv(d.z)
           /\ d.ret \in {"OK", "STREAM_END"} => m > 0 /\ ZTells(z, fl, n, m, d)
           /\ d.ret = "BUF_ERROR" => m = 0 \/ (fl = "sync" /\ z.last_flush = "sync" /\ n = 0)
           /\ d.ret \in {"OK", "STREAM_END", "BUF_ERROR", "STREAM_ERROR"}
           /\ ZClosed(z) => /\ ZClosed(d.z) /\ d.z.total_out = z.total_out
                            /\ d.z.total_in = z.total_in
           /\ ZClosed(d.z) /\ ~ZClosed(z) => fl = "finish"
<1> DEFINE tells == d.ret \in {"OK", "STREAM_END"} => m > 0 /\ ZTells(z, fl, n, m, d)
           stays == ZClosed(z) => /\ ZClosed(d.z) /\ d.z.total_out = z.total_out
                                  /\ d.z.total_in = z.total_in
           closes == ZClosed(d.z) /\ ~ZClosed(z) => fl = "finish"
<1>1. CASE \/ d = [ret |-> "STREAM_ERROR", z |-> z]
           \/ /\ d = [ret |-> "BUF_ERROR", z |-> z]
              /\ m = 0 \/ (fl = "sync" /\ z.last_flush = "sync" /\ n = 0)
    <2>1. /\ d.z = z /\ d.ret \in {"STREAM_ERROR", "BUF_ERROR"}
          /\ d.ret = "BUF_ERROR" => m = 0 \/ (fl = "sync" /\ z.last_flush = "sync" /\ n = 0)
        BY <1>1
    <2>2. tells /\ stays /\ closes
        BY <2>1
    <2> QED BY <2>1, <2>2
<1>2. CASE /\ Pending(z) >= m /\ m > 0
           /\ d = [ret |-> "OK", z |-> [z EXCEPT !.total_out = @ + m, !.last_flush = "other"]]
           /\ z.status \in {"FINISH", "ENDED"} => fl = "finish"
    <2>1. d.ret = "OK" /\ z.frame \in Seq(Unit) /\ z.total_out \in Nat
        BY <1>2 DEF ZStream
    <2>2. /\ d.z.fmt = z.fmt /\ d.z.status = z.status /\ d.z.frame = z.frame
          /\ d.z.total_in = z.total_in /\ d.z.total_out = z.total_out + m
          /\ d.z.last_flush = "other"
        BY <1>2 DEF ZStream
    <2>3. z.total_out + m <= Len(z.frame) /\ z.total_out # Len(z.frame)
        BY <1>2, <2>1 DEF Pending
    <2>4. ZInv(d.z)
        BY <2>2, <2>3 DEF ZInv, ZShape, ZEnds, ZSynced
    <2>5. ZTells(z, fl, n, m, d)
        BY <2>1, <2>2 DEF ZTells
    <2>6. ~ZClosed(z)
        BY <2>3 DEF ZClosed
    <2>7. ZClosed(d.z) => fl = "finish"
        BY <1>2, <2>2 DEF ZClosed
    <2> QED BY <1>2, <2>1, <2>4, <2>5, <2>6, <2>7
<1>3. CASE /\ Pending(z) < m /\ m > 0
           /\ \E c \in Choices(z, fl, n, m) : d = Run(z, fl, m, c)
           /\ z.status \in {"FINISH", "ENDED"} => fl = "finish"
    <2>1. PICK c \in Choices(z, fl, n, m) : d = Run(z, fl, m, c)
        BY <1>3
    <2>2. d.ret \in {"OK", "STREAM_END"}
        BY <2>1 DEF Run
    <2>3. CASE z.status \in {"FINISH", "ENDED"}
        <3>1. fl = "finish" /\ n = 0
            BY <1>3, <2>3
        <3>2. /\ ZInv(d.z) /\ ZTells(z, fl, n, m, d)
              /\ ZClosed(z) => ZClosed(d.z) /\ d.z.total_out = z.total_out
            BY <1>3, <2>1, <2>3, <3>1, RunClosed
        <3>3. d.z.total_in = z.total_in
            BY <3>1, <3>2 DEF ZTells
        <3> QED BY <1>3, <2>2, <3>1, <3>2, <3>3
    <2>4. CASE z.status \notin {"FINISH", "ENDED"}
        <3>1. z.status \in {"INIT", "BUSY"} /\ ~ZClosed(z)
            BY <2>4 DEF ZStream, ZClosed
        <3>2. ZInv(d.z) /\ ZTells(z, fl, n, m, d)
            BY <1>3, <2>1, <3>1, RunOpen
        <3>3. ZClosed(d.z) => fl = "finish"
            BY <2>1, <3>1 DEF Run, ZClosed, ZStream
        <3> QED BY <1>3, <2>2, <3>1, <3>2, <3>3
    <2> QED BY <2>3, <2>4
<1>4. \/ d = [ret |-> "STREAM_ERROR", z |-> z]
      \/ /\ d = [ret |-> "BUF_ERROR", z |-> z]
         /\ m = 0 \/ (fl = "sync" /\ z.last_flush = "sync" /\ n = 0)
      \/ /\ Pending(z) >= m /\ m > 0
         /\ d = [ret |-> "OK", z |-> [z EXCEPT !.total_out = @ + m, !.last_flush = "other"]]
         /\ z.status \in {"FINISH", "ENDED"} => fl = "finish"
      \/ /\ Pending(z) < m /\ m > 0
         /\ \E c \in Choices(z, fl, n, m) : d = Run(z, fl, m, c)
         /\ z.status \in {"FINISH", "ENDED"} => fl = "finish"
    BY DeflateCases
<1> QED BY <1>1, <1>2, <1>3, <1>4
=============================================================================
