--------------------------- MODULE InflateProofs ---------------------------
(***************************************************************************)
(* Lemmas about zlib's inflate and the decompressing handle over it, for   *)
(* every stream, span and width of uInt.                                   *)
(***************************************************************************)
EXTENDS ZlibSweller, WireProofs
-----------------------------------------------------------------------------
\* No more is given to zlib than there is.
LEMMA uIntBelow ==
    ASSUME NEW n \in Nat
    PROVE  uInt(n) \in Nat /\ uInt(n) <= n
<1>1. n % UINT \in 0 .. UINT - 1
    BY UINTAssumption
<1>2. CASE n < UINT
    <2>1. n % UINT = n
        BY <1>2, UINTAssumption
    <2> QED BY <2>1 DEF uInt
<1>3. CASE n >= UINT
    BY <1>1, <1>3, UINTAssumption DEF uInt
<1> QED BY <1>2, <1>3, UINTAssumption

\* A size that fits is passed on as it is.
LEMMA uIntExact ==
    ASSUME NEW n \in Nat, n < UINT
    PROVE  uInt(n) = n
BY UINTAssumption DEF uInt

\* Where an inflate of s can halt.
LEMMA HaltsInside ==
    ASSUME NEW z, NEW s \in Seq(Unit), NEW m
    PROVE  /\ Halts(z, s, m) \subseteq Nat /\ Len(s) \in Halts(z, s, m)
           /\ Damages(s) \subseteq 1 .. Len(s) /\ Overflows(z, s, m) \subseteq 1 .. Len(s)
           /\ Ends(z.fmt, s) \subseteq Nat \ {0}
<1>1. TailLen(z.fmt) \in Nat /\ Len(s) \in Nat /\ DOMAIN s = 1 .. Len(s)
    BY DEF TailLen
<1>2. Ends(z.fmt, s) \subseteq Nat \ {0}
    BY <1>1 DEF Ends
<1>3. Damages(s) \subseteq 1 .. Len(s) /\ Overflows(z, s, m) \subseteq 1 .. Len(s)
    BY <1>1 DEF Damages, Overflows
<1> QED BY <1>1, <1>2, <1>3 DEF Halts

(***************************************************************************)
(* An inflate of s, which begins with what was seen before, into m units,  *)
(* that consumes k units of it and leaves y: it goes no further than the   *)
(* end, the damage and the first unit that does not fit, and stops earlier *)
(* only before that unit, with the output full.                            *)
(***************************************************************************)
Reached(s, k) == Upto(SubSeq(s, 1, k))

InflatedAt(z, s, m, k, y) ==
    /\ k \in 0 .. Len(s) /\ y \in InflateStream
    /\ \A j \in Halts(z, s, m) : k <= j
    /\ k \notin Halts(z, s, m) =>
          /\ k + 1 \in Overflows(z, s, m) /\ k >= Len(z.seen)
          /\ Reached(s, k) = z.total_out + m
    /\ y.fmt = z.fmt /\ y.seen = SubSeq(s, 1, k) /\ Len(y.seen) = k
    /\ y.total_out = IF Reached(s, k) <= z.total_out + m THEN Reached(s, k)
                     ELSE z.total_out + m
    /\ y.status = "BAD" <=> k \in Damages(s)
    /\ y.status = "DONE" <=> /\ k \notin Damages(s) /\ k \in Ends(z.fmt, s)
                             /\ Reached(s, k) <= z.total_out + m

LEMMA InflatedStops ==
    ASSUME NEW z \in InflateStream, NEW s \in Seq(Unit), NEW m \in Nat,
           NEW y \in Inflated(z, s, m)
    PROVE  \E k \in 0 .. Len(s) : InflatedAt(z, s, m, k, y)
<1>1. PICK k \in Stops(z, s, m) :
          y = [z EXCEPT !.status = IF k \in Damages(s) THEN "BAD"
                                   ELSE IF /\ Upto(SubSeq(s, 1, k)) <= z.total_out + m
                                           /\ k \in Ends(z.fmt, s)
                                        THEN "DONE" ELSE "OK",
                        !.seen = SubSeq(s, 1, k),
                        !.total_out = IF Upto(SubSeq(s, 1, k)) <= z.total_out + m
                                      THEN Upto(SubSeq(s, 1, k)) ELSE z.total_out + m]
    BY Zenon DEF Inflated
<1> DEFINE first == {i \in Halts(z, s, m) : \A j \in Halts(z, s, m) : i <= j}
<1>2. /\ Halts(z, s, m) \subseteq Nat /\ Len(s) \in Halts(z, s, m) /\ Len(s) \in Nat
      /\ Overflows(z, s, m) \subseteq 1 .. Len(s) /\ Overflows(z, s, m) \subseteq Halts(z, s, m)
    BY HaltsInside DEF Halts
<1>3. k \in first \/ \E i \in first : k = i - 1 /\ Leaves(z, s, m, i)
    BY <1>1 DEF Stops
<1>4. /\ k \in 0 .. Len(s) /\ \A j \in Halts(z, s, m) : k <= j
      /\ k \notin Halts(z, s, m) =>
            /\ k + 1 \in Overflows(z, s, m) /\ k >= Len(z.seen)
            /\ Reached(s, k) = z.total_out + m
    <2>1. CASE k \in first
        BY <1>2, <2>1
    <2>2. ASSUME NEW i \in first, k = i - 1, Leaves(z, s, m, i)
          PROVE  /\ k \in 0 .. Len(s) /\ \A j \in Halts(z, s, m) : k <= j
                 /\ k + 1 \in Overflows(z, s, m) /\ k >= Len(z.seen)
                 /\ Reached(s, k) = z.total_out + m
        <3>1. /\ i \in Overflows(z, s, m) /\ i > Len(z.seen)
              /\ Upto(SubSeq(s, 1, i - 1)) = z.total_out + m
            BY <2>2 DEF Leaves
        <3>2. i \in 1 .. Len(s) /\ k + 1 = i /\ Len(z.seen) \in Nat
            BY <1>2, <2>2, <3>1 DEF InflateStream
        <3>3. \A j \in Halts(z, s, m) : i <= j /\ j \in Nat
            BY <1>2
        <3> QED BY <1>2, <2>2, <3>1, <3>2, <3>3 DEF Reached
    <2> QED BY <1>3, <2>1, <2>2
<1> HIDE DEF first
<1>5. /\ SubSeq(s, 1, k) \in Seq(Unit) /\ Len(SubSeq(s, 1, k)) = k
      /\ Upto(SubSeq(s, 1, k)) \in Nat
    BY <1>4, PrefixUpto, UptoType
<1> DEFINE used == SubSeq(s, 1, k)
           st == IF k \in Damages(s) THEN "BAD"
                 ELSE IF Upto(used) <= z.total_out + m /\ k \in Ends(z.fmt, s)
                      THEN "DONE" ELSE "OK"
           total == IF Upto(used) <= z.total_out + m THEN Upto(used) ELSE z.total_out + m
<1>6. used \in Seq(Unit) /\ Len(used) = k /\ Upto(used) \in Nat /\ Upto(used) = Reached(s, k)
    BY <1>5 DEF Reached
<1>7. y = [z EXCEPT !.status = st, !.seen = used, !.total_out = total]
    BY <1>1, Zenon
<1>8. /\ total \in Nat
      /\ total = IF Reached(s, k) <= z.total_out + m THEN Reached(s, k) ELSE z.total_out + m
    <2>1. z.total_out \in Nat
        BY DEF InflateStream
    <2> HIDE DEF used
    <2> QED BY <1>6, <2>1
<1>9. /\ st \in {"OK", "DONE", "BAD"} /\ (st = "BAD" <=> k \in Damages(s))
      /\ st = "DONE" <=> /\ k \notin Damages(s) /\ k \in Ends(z.fmt, s)
                         /\ Reached(s, k) <= z.total_out + m
    BY <1>6
<1>10. used = SubSeq(s, 1, k)
    OBVIOUS
<1> HIDE DEF used, st, total
<1>11. /\ y \in InflateStream /\ y.fmt = z.fmt /\ y.seen = used /\ y.total_out = total
       /\ y.status = st
    BY <1>6, <1>7, <1>8, <1>9 DEF InflateStream
<1>12. InflatedAt(z, s, m, k, y)
    BY <1>4, <1>6, <1>8, <1>9, <1>10, <1>11 DEF InflatedAt
<1> QED BY <1>4, <1>12

(***************************************************************************)
(* What a call of inflate does: it is refused, the stream had its end or   *)
(* its error before, the bytes are another container's, or it goes on.     *)
(***************************************************************************)
LEMMA DecodedCases ==
    ASSUME NEW z \in InflateStream, NEW c, NEW w \in Seq(Unit), NEW m \in Nat,
           NEW y \in Decoded(z, c, w, m)
    PROVE  /\ y \in InflateStream /\ y.fmt = z.fmt
           /\ z.status # "OK" => y = z
           /\ z.status = "OK" /\ c # z.fmt /\ w # <<>> => y = [z EXCEPT !.status = "BAD"]
           /\ z.status = "OK" /\ (c = z.fmt \/ w = <<>>) =>
                 LET s == z.seen \o w
                 IN  s \in Seq(Unit) /\ \E k \in 0 .. Len(s) : InflatedAt(z, s, m, k, y)
<1>1. CASE z.status # "OK"
    BY <1>1 DEF Decoded
<1>2. CASE z.status = "OK" /\ c # z.fmt /\ w # <<>>
    <2>1. y = [z EXCEPT !.status = "BAD"]
        BY <1>2 DEF Decoded
    <2> QED BY <1>2, <2>1 DEF InflateStream
<1>3. CASE z.status = "OK" /\ (c = z.fmt \/ w = <<>>)
    <2> DEFINE s == z.seen \o w
    <2>1. s \in Seq(Unit) /\ y \in Inflated(z, s, m)
        BY <1>3, ConcatProperties DEF Decoded, InflateStream
    <2> HIDE DEF s
    <2>2. PICK k \in 0 .. Len(s) : InflatedAt(z, s, m, k, y)
        BY <2>1, InflatedStops
    <2> QED BY <1>3, <2>1, <2>2 DEF s, InflatedAt
<1> QED BY <1>1, <1>2, <1>3

\* What its return code says.
LEMMA InflateCases ==
    ASSUME NEW z \in InflateStream, NEW fl, NEW c, NEW w \in Seq(Unit), NEW data, NEW m \in Nat,
           NEW d \in inflate(z, fl, c, w, data, m)
    PROVE  /\ d.z \in InflateStream
           /\ data = "null" => d.ret = "STREAM_ERROR" /\ d.z = z
           /\ data # "null" =>
                 /\ d.z \in Decoded(z, c, w, m)
                 /\ d.ret = "STREAM_END" <=> d.z.status = "DONE"
                 /\ d.ret = "DATA_ERROR" <=> d.z.status = "BAD"
                 /\ d.ret \in {"OK", "BUF_ERROR"} <=> d.z.status = "OK"
           /\ d.ret \in {"OK", "BUF_ERROR", "STREAM_END", "DATA_ERROR", "STREAM_ERROR"}
<1>1. CASE data = "null"
    BY <1>1 DEF inflate
<1>2. CASE data # "null"
    <2>1. PICK y \in Decoded(z, c, w, m) : d = [ret |-> InflateRet(z, fl, y), z |-> y]
        BY <1>2 DEF inflate
    <2>2. y \in InflateStream
        BY DecodedCases
    <2>3. y.status \in {"OK", "DONE", "BAD"} /\ d.z = y /\ d.ret = InflateRet(z, fl, y)
        BY <2>1, <2>2 DEF InflateStream
    <2>4. /\ y.status = "DONE" => d.ret = "STREAM_END"
          /\ y.status = "BAD" => d.ret = "DATA_ERROR"
          /\ y.status = "OK" => d.ret \in {"OK", "BUF_ERROR"}
        BY <2>3 DEF InflateRet
    <2> QED BY <1>2, <2>1, <2>2, <2>3, <2>4
<1> QED BY <1>1, <1>2
=============================================================================
