----------------------------- MODULE WireProofs -----------------------------
(***************************************************************************)
(* Lemmas about the units a compressed stream is made of: what the         *)
(* operators that build streams return, preserve and bound.                *)
(***************************************************************************)
EXTENDS Wire, SequenceTheorems, TLAPS
-----------------------------------------------------------------------------
(***************************************************************************)
(* Streams only grow at their end.                                         *)
(***************************************************************************)
Extends(f, g) == Len(g) <= Len(f) /\ \A i \in 1 .. Len(g) : f[i] = g[i]

LEMMA ExtendsReflexive ==
    ASSUME NEW f \in Seq(Unit)
    PROVE  Extends(f, f)
BY DEF Extends

LEMMA ExtendsTransitive ==
    ASSUME NEW f \in Seq(Unit), NEW g \in Seq(Unit), NEW h \in Seq(Unit),
           Extends(f, g), Extends(g, h)
    PROVE  Extends(f, h)
BY DEF Extends

LEMMA UptoType ==
    ASSUME NEW s \in Seq(Unit)
    PROVE  Upto(s) \in Nat
<1>1. CASE s = <<>>
    BY <1>1 DEF Upto
<1>2. CASE s # <<>>
    <2>1. Len(s) \in 1 .. Len(s)
        BY <1>2
    <2>2. s[Len(s)] \in Unit
        BY <2>1
    <2> QED BY <1>2, <2>2 DEF Upto, Unit
<1> QED BY <1>1, <1>2

LEMMA AppendUnit ==
    ASSUME NEW s \in Seq(Unit), NEW u \in Unit
    PROVE  /\ Append(s, u) \in Seq(Unit)
           /\ Extends(Append(s, u), s)
           /\ Len(Append(s, u)) = Len(s) + 1
           /\ Upto(Append(s, u)) = u.upto
<1>1. Append(s, u) \in Seq(Unit) /\ Len(Append(s, u)) = Len(s) + 1
    OBVIOUS
<1>2. \A i \in 1 .. Len(s) : Append(s, u)[i] = s[i]
    OBVIOUS
<1>3. Append(s, u)[Len(s) + 1] = u
    OBVIOUS
<1> QED BY <1>1, <1>2, <1>3 DEF Extends, Upto

LEMMA GrowType ==
    ASSUME NEW s \in Seq(Unit), NEW k \in {"hdr", "sync", "last"}
    PROVE  /\ Grow(s, k) \in Seq(Unit)
           /\ Extends(Grow(s, k), s)
           /\ Len(Grow(s, k)) = Len(s) + 1
           /\ Upto(Grow(s, k)) = Upto(s)
<1>1. [kind |-> k, upto |-> Upto(s)] \in Unit
    BY UptoType DEF Unit
<1> QED BY <1>1, AppendUnit DEF Grow

LEMMA SpreadType == \A u \in Spread \cup {1} : u \in Nat \ {0}
BY SpreadAssumption

LEMMA UnitsType ==
    ASSUME NEW k \in {"hdr", "tail"}, NEW n \in Nat, NEW e \in Nat
    PROVE  /\ [i \in 1 .. n |-> [kind |-> k, upto |-> e]] \in Seq(Unit)
           /\ Len([i \in 1 .. n |-> [kind |-> k, upto |-> e]]) = n
<1>1. [kind |-> k, upto |-> e] \in Unit
    BY DEF Unit
<1> QED BY <1>1

LEMMA ConcatExtends ==
    ASSUME NEW f \in Seq(Unit), NEW g \in Seq(Unit)
    PROVE  f \o g \in Seq(Unit) /\ Extends(f \o g, f) /\ Len(f \o g) = Len(f) + Len(g)
BY DEF Extends

LEMMA GrowBlockType ==
    ASSUME NEW s \in Seq(Unit), NEW e \in Nat, NEW u \in Nat \ {0},
           NEW k \in {"blk", "last"}
    PROVE  /\ GrowBlock(s, e, u, k) \in Seq(Unit)
           /\ Extends(GrowBlock(s, e, u, k), s)
<1> DEFINE b == [i \in 1 .. u |-> BlockUnit(s, e, u, k, i)]
<1>1. CASE e > Upto(s)
    <2>1. \A i \in 1 .. u : BlockUnit(s, e, u, k, i) \in Unit
        BY UptoType DEF BlockUnit, Unit
    <2>2. b \in Seq(Unit)
        BY <2>1
    <2> HIDE DEF b
    <2>3. s \o b \in Seq(Unit) /\ Extends(s \o b, s)
        BY <2>2, ConcatExtends
    <2> QED BY <1>1, <2>3 DEF GrowBlock, b
<1>2. CASE ~(e > Upto(s))
    BY <1>2, ExtendsReflexive DEF GrowBlock
<1> QED BY <1>1, <1>2

LEMMA TailLenType == ASSUME NEW c PROVE TailLen(c) \in Nat
BY DEF TailLen

LEMMA HdrLenType == ASSUME NEW c PROVE HdrLen(c) \in Nat
BY DEF HdrLen

-----------------------------------------------------------------------------
(***************************************************************************)
(* A compressor's stream: it carries its symbols in order, and none of its *)
(* units is damaged.  Its data ends at most once.                          *)
(***************************************************************************)
Well(f) ==
    /\ \A i, j \in 1 .. Len(f) : i <= j => f[i].upto <= f[j].upto
    /\ \A i \in 1 .. Len(f) : f[i].kind # "bad"

NoLast(f) == \A i \in 1 .. Len(f) : f[i].kind # "last"

LastAt(f, p) == p \in 1 .. Len(f) /\ \A i \in 1 .. Len(f) : f[i].kind = "last" <=> i = p

\* The data ends at p, and nothing but a trailer follows.
EndsAt(f, p) == LastAt(f, p) /\ f[p].upto = Upto(f)

\* No unit has more symbols than the last.
LEMMA UptoBounds ==
    ASSUME NEW f \in Seq(Unit), Well(f)
    PROVE  \A i \in 1 .. Len(f) : f[i].upto \in Nat /\ f[i].upto <= Upto(f)
<1> SUFFICES ASSUME NEW i \in 1 .. Len(f)
             PROVE  f[i].upto \in Nat /\ f[i].upto <= Upto(f)
    OBVIOUS
<1>1. f[i] \in Unit /\ Len(f) \in 1 .. Len(f) /\ f # <<>>
    OBVIOUS
<1> QED BY <1>1 DEF Well, Upto, Unit

\* The content of a prefix is that of its last unit.
LEMMA PrefixUpto ==
    ASSUME NEW f \in Seq(Unit), NEW k \in 0 .. Len(f)
    PROVE  /\ SubSeq(f, 1, k) \in Seq(Unit) /\ Len(SubSeq(f, 1, k)) = k
           /\ \A i \in 1 .. k : SubSeq(f, 1, k)[i] = f[i]
           /\ Upto(SubSeq(f, 1, k)) = IF k = 0 THEN 0 ELSE f[k].upto
<1>1. /\ SubSeq(f, 1, k) \in Seq(Unit) /\ Len(SubSeq(f, 1, k)) = k
      /\ \A i \in 1 .. k : SubSeq(f, 1, k)[i] = f[i]
    OBVIOUS
<1> DEFINE g == SubSeq(f, 1, k)
<1>2. g \in Seq(Unit) /\ Len(g) = k /\ \A i \in 1 .. k : g[i] = f[i]
    BY <1>1
<1> HIDE DEF g
<1>3. Upto(g) = IF k = 0 THEN 0 ELSE f[k].upto
    BY <1>2 DEF Upto
<1> QED BY <1>1, <1>3 DEF g

\* One more unit without symbols.
LEMMA GrowWell ==
    ASSUME NEW f \in Seq(Unit), Well(f), NEW k \in {"hdr", "sync", "last"}
    PROVE  /\ Well(Grow(f, k))
           /\ Grow(f, k)[Len(f) + 1].kind = k
           /\ \A i \in 1 .. Len(f) : Grow(f, k)[i] = f[i]
<1> DEFINE u == [kind |-> k, upto |-> Upto(f)]
           g == Grow(f, k)
<1>1. u \in Unit
    BY UptoType DEF Unit
<1>2. /\ g \in Seq(Unit) /\ Len(g) = Len(f) + 1
      /\ g[Len(f) + 1] = u /\ \A i \in 1 .. Len(f) : g[i] = f[i]
    BY <1>1 DEF Grow
<1> HIDE DEF g
<1>3. Upto(f) \in Nat
    BY UptoType
<1>4. ASSUME NEW i \in 1 .. Len(g)
      PROVE  g[i].kind # "bad" /\ g[i].upto \in Nat /\ g[i].upto <= Upto(f)
    <2>1. CASE i = Len(f) + 1
        BY <1>2, <1>3, <2>1
    <2>2. CASE i # Len(f) + 1
        <3>1. i \in 1 .. Len(f) /\ g[i] = f[i]
            BY <1>2, <2>2
        <3> QED BY <3>1, UptoBounds DEF Well
    <2> QED BY <2>1, <2>2
<1>5. ASSUME NEW i \in 1 .. Len(g), NEW j \in 1 .. Len(g), i <= j
      PROVE  g[i].upto <= g[j].upto
    <2>1. CASE j = Len(f) + 1
        BY <1>2, <1>4, <2>1
    <2>2. CASE j # Len(f) + 1
        <3>1. i \in 1 .. Len(f) /\ j \in 1 .. Len(f) /\ g[i] = f[i] /\ g[j] = f[j]
            BY <1>2, <1>5, <2>2
        <3> QED BY <1>5, <3>1 DEF Well
    <2> QED BY <2>1, <2>2
<1>6. Well(g)
    BY <1>4, <1>5 DEF Well
<1> QED BY <1>2, <1>6 DEF g

\* A block: u units, the last of which has the symbols up to e.
LEMMA GrowBlockWell ==
    ASSUME NEW f \in Seq(Unit), Well(f), NEW e \in Nat, NEW u \in Nat \ {0},
           NEW k \in {"blk", "last"}, e > Upto(f), u <= e - Upto(f)
    PROVE  LET g == GrowBlock(f, e, u, k)
           IN  /\ g \in Seq(Unit) /\ Well(g) /\ Len(g) = Len(f) + u /\ Upto(g) = e
               /\ \A i \in 1 .. Len(f) : g[i] = f[i]
               /\ \A i \in Len(f) + 1 .. Len(g) :
                      g[i].kind = IF i = Len(g) THEN k ELSE "blk"
<1> DEFINE b == [i \in 1 .. u |-> BlockUnit(f, e, u, k, i)]
           g == f \o b
<1>1. Upto(f) \in Nat
    BY UptoType
<1>2. ASSUME NEW i \in 1 .. u
      PROVE  /\ b[i] \in Unit
             /\ b[i].kind = IF i = u THEN k ELSE "blk"
             /\ b[i].upto = IF i = u THEN e ELSE Upto(f) + i
    <2>1. b[i] = [kind |-> IF i = u THEN k ELSE "blk", upto |-> IF i = u THEN e ELSE Upto(f) + i]
        BY DEF BlockUnit
    <2> QED BY <1>1, <2>1 DEF Unit
<1>3. b \in Seq(Unit) /\ Len(b) = u
    BY <1>2
<1> HIDE DEF b
<1>4. /\ g \in Seq(Unit) /\ Len(g) = Len(f) + u
      /\ \A i \in 1 .. Len(f) : g[i] = f[i]
      /\ \A i \in Len(f) + 1 .. Len(g) : g[i] = b[i - Len(f)]
    <2>1. /\ f \o b \in Seq(Unit) /\ Len(f \o b) = Len(f) + u
          /\ \A i \in 1 .. Len(f) + u : (f \o b)[i] = IF i <= Len(f) THEN f[i] ELSE b[i - Len(f)]
        BY <1>3, ConcatProperties
    <2>2. g \in Seq(Unit) /\ Len(g) = Len(f) + u /\ Len(f) \in Nat
        BY <2>1
    <2>3. ASSUME NEW i \in 1 .. Len(f) + u
          PROVE  g[i] = IF i <= Len(f) THEN f[i] ELSE b[i - Len(f)]
        BY <2>1
    <2> HIDE DEF g
    <2> QED BY <2>2, <2>3
<1> HIDE DEF g
<1>5. ASSUME NEW i \in Len(f) + 1 .. Len(g)
      PROVE  /\ g[i].kind = IF i = Len(g) THEN k ELSE "blk"
             /\ g[i].upto = IF i = Len(g) THEN e ELSE Upto(f) + (i - Len(f))
    <2> DEFINE j == i - Len(f)
    <2>1. j \in 1 .. u /\ (j = u <=> i = Len(g)) /\ g[i] = b[j]
        BY <1>4
    <2>2. b[j].kind = (IF j = u THEN k ELSE "blk") /\ b[j].upto = IF j = u THEN e ELSE Upto(f) + j
        BY <1>2, <2>1
    <2> HIDE DEF j
    <2> QED BY <2>1, <2>2 DEF j
<1>6. \A i \in Len(f) + 1 .. Len(g) : Upto(f) <= g[i].upto /\ g[i].upto <= e
    BY <1>1, <1>4, <1>5
<1>7. ASSUME NEW i \in 1 .. Len(f)
      PROVE  g[i].upto \in Nat /\ g[i].upto <= Upto(f)
    <2>1. g[i] = f[i]
        BY <1>4
    <2> QED BY <2>1, UptoBounds
<1>8. Well(g)
    <2>1. ASSUME NEW i \in 1 .. Len(g), NEW j \in 1 .. Len(g), i <= j
          PROVE  g[i].upto <= g[j].upto
        <3>1. CASE j <= Len(f)
            <4>1. g[i] = f[i] /\ g[j] = f[j] /\ i \in 1 .. Len(f) /\ j \in 1 .. Len(f)
                BY <1>4, <2>1, <3>1
            <4> QED BY <2>1, <4>1 DEF Well
        <3>2. CASE i <= Len(f) /\ ~(j <= Len(f))
            <4>1. g[i].upto <= Upto(f) /\ g[i].upto \in Nat
                BY <1>4, <1>7, <3>2
            <4>2. Upto(f) <= g[j].upto /\ g[j].upto \in Int
                BY <1>1, <1>4, <1>5, <1>6, <3>2
            <4> QED BY <1>1, <4>1, <4>2
        <3>3. CASE ~(i <= Len(f))
            <4>1. i \in Len(f) + 1 .. Len(g) /\ j \in Len(f) + 1 .. Len(g)
                BY <1>4, <2>1, <3>3
            <4>2. CASE j = Len(g)
                BY <1>1, <1>4, <1>5, <1>6, <4>1, <4>2
            <4>3. CASE j # Len(g)
                BY <1>1, <1>4, <1>5, <2>1, <4>1, <4>3, SMTT(30)
            <4> QED BY <4>2, <4>3
        <3> QED BY <3>1, <3>2, <3>3
    <2>2. \A i \in 1 .. Len(g) : g[i].kind # "bad"
        BY <1>4, <1>5 DEF Well
    <2> QED BY <2>1, <2>2 DEF Well
<1>9. Upto(g) = e
    BY <1>4, <1>5 DEF Upto
<1>10. GrowBlock(f, e, u, k) = g
    BY DEF GrowBlock, g, b
<1> QED BY <1>4, <1>5, <1>8, <1>9, <1>10

\* The sizes a block of the symbols up to e can have.
LEMMA BlockSizesType ==
    ASSUME NEW f \in Seq(Unit), NEW e \in Nat, NEW u \in BlockSizes(f, e)
    PROVE  /\ u \in Nat \ {0}
           /\ e > Upto(f) => u <= e - Upto(f)
<1>1. Upto(f) \in Nat
    BY UptoType
<1> QED BY <1>1, SpreadAssumption DEF BlockSizes

\* n units of kind k without symbols, at the end of f or of nothing.
RunAfter(f, k, n, g) ==
    /\ g \in Seq(Unit) /\ Well(g) /\ Len(g) = Len(f) + n /\ Upto(g) = Upto(f)
    /\ \A i \in 1 .. Len(f) : g[i] = f[i]
    /\ \A i \in Len(f) + 1 .. Len(g) : g[i].kind = k

LEMMA RunOfUnits ==
    ASSUME NEW f \in Seq(Unit), Well(f), NEW k \in {"hdr", "tail"}, NEW n \in Nat
    PROVE  RunAfter(f, k, n, f \o [i \in 1 .. n |-> [kind |-> k, upto |-> Upto(f)]])
<1> DEFINE u == [kind |-> k, upto |-> Upto(f)]
           t == [i \in 1 .. n |-> u]
           g == f \o t
<1>1. Upto(f) \in Nat /\ u \in Unit /\ u.upto = Upto(f) /\ u.kind = k
    BY UptoType DEF Unit
<1> HIDE DEF u
<1>2. t \in Seq(Unit) /\ Len(t) = n /\ \A i \in 1 .. n : t[i] = u
    BY <1>1
<1> HIDE DEF t
<1>3. /\ g \in Seq(Unit) /\ Len(g) = Len(f) + n
      /\ \A i \in 1 .. Len(f) : g[i] = f[i]
      /\ \A i \in Len(f) + 1 .. Len(g) : g[i] = u
    <2>1. /\ f \o t \in Seq(Unit) /\ Len(f \o t) = Len(f) + n
          /\ \A i \in 1 .. Len(f) + n : (f \o t)[i] = IF i <= Len(f) THEN f[i] ELSE t[i - Len(f)]
        BY <1>2, ConcatProperties
    <2>2. \A i \in Len(f) + 1 .. Len(f) + n : i - Len(f) \in 1 .. n /\ ~(i <= Len(f))
        OBVIOUS
    <2> HIDE DEF g
    <2>3. g = f \o t
        BY DEF g
    <2> QED BY <1>2, <2>1, <2>2, <2>3
<1> HIDE DEF g
<1>4. \A i \in 1 .. Len(f) : g[i].upto \in Nat /\ g[i].upto <= Upto(f)
    BY <1>3, UptoBounds
<1>5. Well(g)
    <2>1. ASSUME NEW i \in 1 .. Len(g), NEW j \in 1 .. Len(g), i <= j
          PROVE  g[i].upto <= g[j].upto
        <3>1. CASE j <= Len(f)
            <4>1. g[i] = f[i] /\ g[j] = f[j] /\ i \in 1 .. Len(f) /\ j \in 1 .. Len(f)
                BY <1>3, <2>1, <3>1
            <4> QED BY <2>1, <4>1 DEF Well
        <3>2. CASE ~(j <= Len(f))
            <4>1. g[j] = u
                BY <1>3, <3>2
            <4>2. i \in 1 .. Len(f) \/ g[i] = u
                BY <1>3
            <4> QED BY <1>1, <1>4, <4>1, <4>2
        <3> QED BY <3>1, <3>2
    <2>2. \A i \in 1 .. Len(g) : g[i].kind # "bad"
        BY <1>1, <1>3 DEF Well
    <2> QED BY <2>1, <2>2 DEF Well
<1>6. Upto(g) = Upto(f)
    <2>1. CASE n = 0
        BY <1>3, <2>1 DEF Upto
    <2>2. CASE n # 0
        <3>1. Len(g) \in Len(f) + 1 .. Len(g) /\ g # <<>>
            BY <1>3, <2>2
        <3> QED BY <1>1, <1>3, <3>1 DEF Upto
    <2> QED BY <2>1, <2>2
<1>7. \A i \in Len(f) + 1 .. Len(g) : g[i].kind = k
    BY <1>1, <1>3
<1>8. RunAfter(f, k, n, g)
    BY <1>3, <1>5, <1>6, <1>7 DEF RunAfter
<1> QED BY <1>8 DEF g, t, u

\* Encoding the symbols up to e, which may be none: what of f becomes g.
CodedAs(f, e, u, k, g) ==
    /\ g \in Seq(Unit) /\ Well(g) /\ Upto(g) = e
    /\ Len(g) = Len(f) + (IF e > Upto(f) THEN u ELSE 0)
    /\ \A i \in 1 .. Len(f) : g[i] = f[i]
    /\ \A i \in Len(f) + 1 .. Len(g) : g[i].kind = IF i = Len(g) THEN k ELSE "blk"

LEMMA BlockWell ==
    ASSUME NEW f \in Seq(Unit), Well(f), NEW e \in Nat, Upto(f) <= e, NEW u \in Nat \ {0},
           e > Upto(f) => u <= e - Upto(f), NEW k \in {"blk", "last"}
    PROVE  CodedAs(f, e, u, k, GrowBlock(f, e, u, k))
<1>1. CASE e > Upto(f)
    BY <1>1, GrowBlockWell DEF CodedAs
<1>2. CASE ~(e > Upto(f))
    <2>1. GrowBlock(f, e, u, k) = f /\ Upto(f) = e
        BY <1>2, UptoType DEF GrowBlock
    <2> QED BY <1>2, <2>1 DEF CodedAs
<1> QED BY <1>1, <1>2
-----------------------------------------------------------------------------
(***************************************************************************)
(* A zstd stream begins with a header; a further one stands only where the *)
(* frame before it ends, and says no more than that frame did.             *)
(***************************************************************************)
Framed(w) ==
    \A i \in 1 .. Len(w) :
        /\ i = 1 => w[i].kind \in {"hdr", "bad"}
        /\ w[i].kind = "hdr" =>
              IF i = 1 THEN w[i].upto = 0
              ELSE w[i - 1].kind = "last" /\ w[i].upto = w[i - 1].upto

LEMMA FramedPrefix ==
    ASSUME NEW f \in Seq(Unit), Framed(f), NEW k \in 0 .. Len(f)
    PROVE  Framed(SubSeq(f, 1, k))
<1> DEFINE g == SubSeq(f, 1, k)
<1>1. Len(g) = k /\ \A i \in 1 .. k : g[i] = f[i]
    BY PrefixUpto
<1> HIDE DEF g
<1>2. SUFFICES ASSUME NEW i \in 1 .. k
               PROVE  /\ i = 1 => g[i].kind \in {"hdr", "bad"}
                      /\ g[i].kind = "hdr" =>
                            IF i = 1 THEN g[i].upto = 0
                            ELSE g[i - 1].kind = "last" /\ g[i].upto = g[i - 1].upto
    BY <1>1 DEF Framed, g
<1>3. i \in 1 .. Len(f) /\ g[i] = f[i] /\ (i # 1 => g[i - 1] = f[i - 1])
    BY <1>1
<1> QED BY <1>3 DEF Framed

\* A frame that is open takes blocks and its end.
LEMMA FramedOn ==
    ASSUME NEW f \in Seq(Unit), Framed(f), f # <<>>, NEW g \in Seq(Unit), Extends(g, f),
           \A i \in Len(f) + 1 .. Len(g) : g[i].kind # "hdr"
    PROVE  Framed(g)
<1>1. Len(f) \in Nat \ {0} /\ Len(g) \in Nat /\ Len(f) <= Len(g)
      /\ \A i \in 1 .. Len(f) : g[i] = f[i]
    BY DEF Extends
<1>2. SUFFICES ASSUME NEW i \in 1 .. Len(g)
               PROVE  /\ i = 1 => g[i].kind \in {"hdr", "bad"}
                      /\ g[i].kind = "hdr" =>
                            IF i = 1 THEN g[i].upto = 0
                            ELSE g[i - 1].kind = "last" /\ g[i].upto = g[i - 1].upto
    BY DEF Framed
<1>3. CASE i \in 1 .. Len(f)
    <2>1. g[i] = f[i] /\ (i # 1 => g[i - 1] = f[i - 1])
        BY <1>1, <1>3
    <2> QED BY <1>3, <2>1 DEF Framed
<1>4. CASE i \notin 1 .. Len(f)
    <2>1. i \in Len(f) + 1 .. Len(g) /\ i # 1
        BY <1>1, <1>4
    <2> QED BY <2>1
<1> QED BY <1>3, <1>4

\* A new frame says what the one before it did.
LEMMA FramedAgain ==
    ASSUME NEW f \in Seq(Unit), Framed(f), f = <<>> \/ f[Len(f)].kind = "last"
    PROVE  Framed(Grow(f, "hdr"))
<1> DEFINE g == Grow(f, "hdr")
<1>1. Len(f) \in Nat /\ Upto(f) = IF f = <<>> THEN 0 ELSE f[Len(f)].upto
    BY DEF Upto
<1>2. /\ Len(g) = Len(f) + 1 /\ g[Len(f) + 1] = [kind |-> "hdr", upto |-> Upto(f)]
      /\ \A i \in 1 .. Len(f) : g[i] = f[i]
    BY UptoType DEF Grow, Unit
<1> HIDE DEF g, Upto
<1>3. SUFFICES ASSUME NEW i \in 1 .. Len(g)
               PROVE  /\ i = 1 => g[i].kind \in {"hdr", "bad"}
                      /\ g[i].kind = "hdr" =>
                            IF i = 1 THEN g[i].upto = 0
                            ELSE g[i - 1].kind = "last" /\ g[i].upto = g[i - 1].upto
    BY DEF Framed, g
<1>4. CASE i \in 1 .. Len(f)
    <2>1. g[i] = f[i] /\ (i # 1 => g[i - 1] = f[i - 1])
        BY <1>1, <1>2, <1>4
    <2> QED BY <1>4, <2>1 DEF Framed
<1>5. CASE i \notin 1 .. Len(f)
    <2>1. i = Len(f) + 1 /\ g[i].kind = "hdr" /\ g[i].upto = Upto(f)
        BY <1>1, <1>2, <1>5
    <2>2. i = 1 <=> f = <<>>
        BY <1>1, <2>1
    <2>3. i # 1 => g[i - 1] = f[Len(f)]
        BY <1>1, <1>2, <2>1
    <2> QED BY <1>1, <2>1, <2>2, <2>3
<1> QED BY <1>4, <1>5
=============================================================================
