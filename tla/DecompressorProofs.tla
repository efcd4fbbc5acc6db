------------------------- MODULE DecompressorProofs -------------------------
(***************************************************************************)
(* Machine-checked theorems about the streaming decompressor: what its     *)
(* pushes report of the bytes and the symbols, when they report the end    *)
(* and when an error, for streams of any length, spans of any size, any    *)
(* portions and every width of uInt.                                       *)
(***************************************************************************)
EXTENDS Decompressor, InflateProofs
-----------------------------------------------------------------------------
(***************************************************************************)
(* The bytes a caller can have carry their symbols in order, and zstd's    *)
(* are framed.                                                             *)
(***************************************************************************)
Sorted(w) == \A i, j \in 1 .. Len(w) : i <= j => w[i].upto <= w[j].upto

Streamed(c, w) == w \in Seq(Unit) /\ Sorted(w) /\ (c = "zstd" => Framed(w))

\* No unit has more symbols than the last.
LEMMA SortedUpto ==
    ASSUME NEW w \in Seq(Unit), Sorted(w)
    PROVE  \A i \in 1 .. Len(w) : w[i].upto \in Nat /\ w[i].upto <= Upto(w)
<1> SUFFICES ASSUME NEW i \in 1 .. Len(w)
             PROVE  w[i].upto \in Nat /\ w[i].upto <= Upto(w)
    OBVIOUS
<1>1. w[i] \in Unit /\ Len(w) \in 1 .. Len(w) /\ w # <<>>
    OBVIOUS
<1> QED BY <1>1 DEF Sorted, Upto, Unit

\* Units one after another, when the later ones have the symbols of the others.
Joined(s, t, w) ==
    /\ w \in Seq(Unit) /\ Sorted(w) /\ Len(w) = Len(s) + Len(t)
    /\ \A i \in 1 .. Len(s) : w[i] = s[i]
    /\ \A i \in 1 .. Len(t) : w[Len(s) + i] = t[i]

LEMMA ConcatSorted ==
    ASSUME NEW s \in Seq(Unit), Sorted(s), NEW t \in Seq(Unit), Sorted(t),
           \A i \in 1 .. Len(t) : Upto(s) <= t[i].upto
    PROVE  Joined(s, t, s \o t)
<1> DEFINE w == s \o t
<1>1. /\ w \in Seq(Unit) /\ Len(w) = Len(s) + Len(t)
      /\ \A i \in 1 .. Len(s) + Len(t) : w[i] = IF i <= Len(s) THEN s[i] ELSE t[i - Len(s)]
    BY ConcatProperties
<1> HIDE DEF w
<1>2. /\ Len(s) \in Nat /\ Len(t) \in Nat
      /\ \A i \in 1 .. Len(s) : w[i] = s[i]
      /\ \A i \in 1 .. Len(t) : w[Len(s) + i] = t[i]
    <2>1. Len(s) \in Nat /\ Len(t) \in Nat
        OBVIOUS
    <2>2. ASSUME NEW i \in 1 .. Len(t)
          PROVE  w[Len(s) + i] = t[i]
        <3>1. Len(s) + i \in 1 .. Len(s) + Len(t) /\ ~(Len(s) + i <= Len(s))
              /\ (Len(s) + i) - Len(s) = i
            BY <2>1
        <3> QED BY <1>1, <3>1
    <2> QED BY <1>1, <2>1, <2>2
<1>3. /\ Upto(s) \in Nat
      /\ \A i \in 1 .. Len(s) : s[i].upto \in Nat /\ s[i].upto <= Upto(s)
      /\ \A i \in 1 .. Len(t) : t[i].upto \in Nat
    BY SortedUpto, UptoType
<1>4. ASSUME NEW i \in 1 .. Len(w), NEW j \in 1 .. Len(w), i <= j
      PROVE  w[i].upto <= w[j].upto
    <2>1. CASE j <= Len(s)
        <3>1. i \in 1 .. Len(s) /\ j \in 1 .. Len(s)
            BY <1>2, <1>4, <2>1
        <3> QED BY <1>2, <1>4, <3>1 DEF Sorted
    <2>2. CASE i > Len(s)
        <3>1. /\ i - Len(s) \in 1 .. Len(t) /\ j - Len(s) \in 1 .. Len(t)
              /\ i - Len(s) <= j - Len(s)
              /\ i = Len(s) + (i - Len(s)) /\ j = Len(s) + (j - Len(s))
            BY <1>1, <1>2, <1>4, <2>2
        <3>2. t[i - Len(s)].upto <= t[j - Len(s)].upto
            BY <3>1 DEF Sorted
        <3> QED BY <1>2, <3>1, <3>2
    <2>3. CASE i <= Len(s) /\ j > Len(s)
        <3>0. i \in Nat \ {0} /\ j \in Nat /\ j <= Len(s) + Len(t)
            BY <1>1, <1>2
        <3>1. i \in 1 .. Len(s) /\ j - Len(s) \in 1 .. Len(t) /\ j = Len(s) + (j - Len(s))
            BY <1>2, <2>3, <3>0
        <3>2. /\ w[i] = s[i] /\ w[j] = t[j - Len(s)]
              /\ s[i].upto <= Upto(s) /\ Upto(s) <= t[j - Len(s)].upto
              /\ s[i].upto \in Nat /\ t[j - Len(s)].upto \in Nat
            BY <1>2, <1>3, <3>1
        <3> QED BY <1>3, <3>2
    <2> QED BY <1>2, <2>1, <2>2, <2>3
<1>5. Joined(s, t, w)
    BY <1>1, <1>2, <1>4 DEF Joined, Sorted
<1> QED BY <1>5 DEF w

\* Units of one kind.
UnitsOf(k, m, ends, w) ==
    /\ w \in Seq(Unit) /\ Len(w) = m
    /\ \A i \in 1 .. m : w[i] = [kind |-> k, upto |-> ends[i]]

LEMMA UnitsShape ==
    ASSUME NEW m \in Nat, NEW ends \in [1 .. m -> Nat],
           NEW k \in {"hdr", "blk", "sync", "last", "tail", "bad"}
    PROVE  UnitsOf(k, m, ends, Units(k, ends))
<1>1. Units(k, ends) = [i \in 1 .. m |-> [kind |-> k, upto |-> ends[i]]]
    BY DEF Units
<1>2. \A i \in 1 .. m : [kind |-> k, upto |-> ends[i]] \in Unit
    BY DEF Unit
<1>3. Units(k, ends) \in [1 .. m -> Unit]
    BY <1>1, <1>2
<1>4. Units(k, ends) \in Seq(Unit) /\ Len(Units(k, ends)) = m
    BY <1>3, SeqDef
<1> QED BY <1>1, <1>4 DEF UnitsOf

\* The blocks of a stream and its end.
Body(n, b) ==
    /\ b \in Seq(Unit) /\ Sorted(b) /\ b # <<>>
    /\ b[Len(b)] = [kind |-> "last", upto |-> n]
    /\ \A i \in 1 .. Len(b) : b[i].kind # "hdr"

LEMMA BodiesShape ==
    ASSUME NEW n \in Nat, NEW b \in Bodies(n)
    PROVE  Body(n, b)
<1> DEFINE l == Units("last", <<n>>)
<1>1. UnitsOf("last", 1, <<n>>, l) /\ <<n>>[1] = n
    <2>1. <<n>> \in [1 .. 1 -> Nat]
        OBVIOUS
    <2> QED BY <2>1, UnitsShape
<1> HIDE DEF l
<1>2. l \in Seq(Unit) /\ Len(l) = 1 /\ l[1] = [kind |-> "last", upto |-> n]
    BY <1>1 DEF UnitsOf
<1>3. CASE b = l
    <2>1. Len(b) = 1 /\ b # <<>> /\ b[1] = [kind |-> "last", upto |-> n]
        <3>0. Len(l) = 1
            BY <1>2
        <3>1. l # <<>>
            BY <3>0
        <3> QED BY <1>2, <1>3, <3>1
    <2>2. \A i \in 1 .. Len(b) : b[i].upto = n /\ b[i].kind # "hdr"
        BY <2>1
    <2>3. Sorted(b)
        BY <2>2 DEF Sorted
    <2> QED BY <1>2, <1>3, <2>1, <2>2, <2>3 DEF Body
<1>4. ASSUME NEW e \in BlockEnds(n),
             b = Units("blk", e) \o l \/ b = [Units("blk", e) EXCEPT ![Len(e)].kind = "last"]
      PROVE  Body(n, b)
    <2>1. PICK m \in 1 .. n : /\ e \in [1 .. m -> 1 .. n]
                              /\ e[m] = n /\ \A i, j \in 1 .. m : i < j => e[i] < e[j]
        <3>1. PICK m \in 1 .. n : e \in [1 .. m -> 1 .. n]
            BY <1>4 DEF BlockEnds
        <3>2. Len(e) = m /\ DOMAIN e = 1 .. m
            BY <3>1
        <3> QED BY <1>4, <3>1, <3>2 DEF BlockEnds
    <2> DEFINE u == Units("blk", e)
    <2>2. m \in Nat \ {0} /\ e \in [1 .. m -> Nat] /\ Len(e) = m
        BY <2>1
    <2>3. UnitsOf("blk", m, e, u)
        BY <2>2, UnitsShape
    <2> HIDE DEF u
    <2>4. u \in Seq(Unit) /\ Len(u) = m /\ \A i \in 1 .. m : u[i] = [kind |-> "blk", upto |-> e[i]]
        BY <2>3 DEF UnitsOf
    <2>5. \A i, j \in 1 .. m : i <= j => e[i] <= e[j]
        BY <2>1, <2>2
    <2>6. Sorted(u)
        BY <2>4, <2>5 DEF Sorted
    <2>7. CASE b = u \o l
        <3>1. Upto(u) = n
            BY <2>1, <2>2, <2>4 DEF Upto
        <3>2. Sorted(l) /\ \A i \in 1 .. Len(l) : Upto(u) <= l[i].upto
            BY <1>2, <3>1 DEF Sorted
        <3>3. Joined(u, l, b)
            BY <1>2, <2>4, <2>6, <2>7, <3>2, ConcatSorted
        <3>4. /\ b \in Seq(Unit) /\ Sorted(b) /\ Len(b) = m + 1 /\ b[m + 1] = l[1]
              /\ \A i \in 1 .. m : b[i] = u[i]
            BY <1>2, <2>4, <3>3 DEF Joined
        <3>5. \A i \in 1 .. m + 1 : b[i].kind # "hdr"
            BY <1>2, <2>2, <2>4, <3>4
        <3> QED BY <1>2, <2>2, <3>4, <3>5 DEF Body
    <2>8. CASE b = [u EXCEPT ![m].kind = "last"]
        <3>1. /\ u \in [1 .. m -> Unit] /\ m \in 1 .. m
              /\ [u[m] EXCEPT !.kind = "last"] = [kind |-> "last", upto |-> n]
            BY <2>1, <2>2, <2>4, SMTT(30)
        <3>2. [kind |-> "last", upto |-> n] \in Unit
            BY DEF Unit
        <3>3. b \in [1 .. m -> Unit] /\ b[m] = [kind |-> "last", upto |-> n]
              /\ \A i \in 1 .. m : i # m => b[i] = u[i]
            BY <2>8, <3>1, <3>2
        <3>4. b \in Seq(Unit) /\ Len(b) = m /\ b # <<>>
            BY <2>2, <3>3, SeqDef
        <3>5. \A i \in 1 .. m : b[i].upto = e[i] /\ b[i].kind # "hdr"
            <4>1. b[m].upto = e[m] /\ b[m].kind = "last"
                BY <2>1, <3>3
            <4>2. \A i \in 1 .. m : i # m => b[i].upto = e[i] /\ b[i].kind = "blk"
                BY <2>4, <3>3
            <4> QED BY <4>1, <4>2
        <3> QED BY <2>5, <3>3, <3>4, <3>5 DEF Body, Sorted
    <2> QED BY <1>4, <2>2, <2>7, <2>8 DEF u
<1> QED BY <1>3, <1>4, Zenon DEF Bodies, l

\* A whole stream, with its header and its trailer.
Frame(w) ==
    /\ w # <<>> /\ w[1] = [kind |-> "hdr", upto |-> 0] /\ w[Len(w)].kind = "last"
    /\ \A i \in 2 .. Len(w) : w[i].kind # "hdr"

LEMMA CompressedShape ==
    ASSUME NEW c, NEW n \in Nat, NEW w \in Compressed(c, n)
    PROVE  w \in Seq(Unit) /\ Sorted(w) /\ (c = "zstd" => Frame(w))
<1> DEFINE h == Units("hdr", [i \in 1 .. HdrLen(c) |-> 0])
           t == Units("tail", [i \in 1 .. TailLen(c) |-> n])
<1>1. PICK b \in Bodies(n) : w = (h \o b) \o t
    BY Zenon DEF Compressed
<1>2. HdrLen(c) \in Nat /\ TailLen(c) \in Nat
    BY HdrLenType, TailLenType
<1>3. /\ h \in Seq(Unit) /\ Len(h) = HdrLen(c)
      /\ \A i \in 1 .. HdrLen(c) : h[i] = [kind |-> "hdr", upto |-> 0]
    <2>1. UnitsOf("hdr", HdrLen(c), [i \in 1 .. HdrLen(c) |-> 0], h)
        BY <1>2, UnitsShape
    <2> QED BY <2>1 DEF UnitsOf
<1>4. /\ t \in Seq(Unit) /\ Len(t) = TailLen(c)
      /\ \A i \in 1 .. TailLen(c) : t[i] = [kind |-> "tail", upto |-> n]
    <2>1. UnitsOf("tail", TailLen(c), [i \in 1 .. TailLen(c) |-> n], t)
        BY <1>2, UnitsShape
    <2> QED BY <2>1 DEF UnitsOf
<1> HIDE DEF h, t
<1>5. Body(n, b)
    BY BodiesShape
<1>6. Joined(h, b, h \o b)
    <2>1. Sorted(h) /\ Upto(h) = 0
        BY <1>2, <1>3 DEF Sorted, Upto
    <2>2. b \in Seq(Unit) /\ Sorted(b)
        BY <1>5 DEF Body
    <2>3. \A i \in 1 .. Len(b) : Upto(h) <= b[i].upto
        BY <2>1, <2>2, SortedUpto
    <2> QED BY <1>3, <2>1, <2>2, <2>3, ConcatSorted
<1> DEFINE f == h \o b
<1>7. /\ f \in Seq(Unit) /\ Sorted(f) /\ Len(f) = HdrLen(c) + Len(b) /\ Len(b) \in Nat \ {0}
      /\ \A i \in 1 .. HdrLen(c) : f[i] = h[i]
      /\ \A i \in 1 .. Len(b) : f[HdrLen(c) + i] = b[i]
    <2>1. Len(b) \in Nat \ {0}
        BY <1>5 DEF Body
    <2> QED BY <1>3, <1>6, <2>1 DEF Joined
<1> HIDE DEF f
<1>8. f[Len(f)] = [kind |-> "last", upto |-> n] /\ Len(f) \in Nat \ {0}
    BY <1>2, <1>5, <1>7 DEF Body
<1>9. Joined(f, t, w)
    <2>1. Upto(f) = n
        BY <1>7, <1>8 DEF Upto
    <2>2. Sorted(t) /\ \A i \in 1 .. Len(t) : Upto(f) <= t[i].upto
        BY <1>4, <2>1 DEF Sorted
    <2> QED BY <1>1, <1>4, <1>7, <2>2, ConcatSorted DEF f
<1>10. ASSUME c = "zstd"
       PROVE  Frame(w)
    <2>1. HdrLen(c) = 1 /\ TailLen(c) = 0
        BY <1>10 DEF HdrLen, TailLen
    <2>2. /\ w \in Seq(Unit) /\ Len(w) = 1 + Len(b) /\ Len(f) = 1 + Len(b)
          /\ \A i \in 1 .. Len(f) : w[i] = f[i]
        BY <1>4, <1>7, <1>9, <2>1 DEF Joined
    <2>3. w[1] = [kind |-> "hdr", upto |-> 0]
        BY <1>3, <1>7, <2>1, <2>2
    <2>4. w[Len(w)].kind = "last" /\ w # <<>>
        BY <1>7, <1>8, <2>2
    <2>5. ASSUME NEW i \in 2 .. Len(w)
          PROVE  w[i].kind # "hdr"
        <3>1. i - 1 \in 1 .. Len(b) /\ i = 1 + (i - 1) /\ i \in 1 .. Len(f)
            BY <1>7, <2>2
        <3>2. w[i] = b[i - 1]
            BY <1>7, <2>1, <2>2, <3>1
        <3> QED BY <1>5, <3>1, <3>2 DEF Body
    <2> QED BY <2>3, <2>4, <2>5 DEF Frame
<1> QED BY <1>9, <1>10 DEF Joined

\* What happens to it on the way.
LEMMA GrowBadShape ==
    ASSUME NEW w \in Seq(Unit), Sorted(w), NEW c, c = "zstd" => Frame(w)
    PROVE  Streamed(c, Grow(w, "bad"))
<1> DEFINE u == [kind |-> "bad", upto |-> Upto(w)]
           v == Grow(w, "bad")
<1>1. u \in Unit
    BY UptoType DEF Unit
<1>2. /\ v \in Seq(Unit) /\ Len(v) = Len(w) + 1
      /\ v[Len(w) + 1] = u /\ \A i \in 1 .. Len(w) : v[i] = w[i]
    BY <1>1 DEF Grow
<1> HIDE DEF v
<1>3. Len(w) \in Nat /\ \A i \in 1 .. Len(w) : w[i].upto \in Nat /\ w[i].upto <= Upto(w)
    BY SortedUpto
<1>4. Sorted(v)
    <2> SUFFICES ASSUME NEW i \in 1 .. Len(v), NEW j \in 1 .. Len(v), i <= j
                 PROVE  v[i].upto <= v[j].upto
        BY DEF Sorted
    <2>1. CASE j \in 1 .. Len(w)
        <3>1. i \in 1 .. Len(w)
            BY <1>3, <2>1
        <3> QED BY <1>2, <2>1, <3>1 DEF Sorted
    <2>2. CASE j = Len(w) + 1 /\ i \in 1 .. Len(w)
        BY <1>2, <1>3, <2>2
    <2>3. CASE j = Len(w) + 1 /\ i = Len(w) + 1
        BY <1>1, <1>2, <2>3 DEF Unit
    <2> QED BY <1>2, <1>3, <2>1, <2>2, <2>3
<1>5. ASSUME Frame(w)
      PROVE  Framed(v)
    <2>1. Len(w) \in Nat \ {0}
        BY <1>5 DEF Frame
    <2>2. \A i \in 2 .. Len(v) : v[i].kind # "hdr"
        <3>1. \A i \in 2 .. Len(v) : i = Len(w) + 1 \/ i \in 2 .. Len(w)
            BY <1>2, <1>3
        <3> QED BY <1>2, <1>3, <1>5, <3>1 DEF Frame
    <2>3. v[1] = [kind |-> "hdr", upto |-> 0]
        BY <1>2, <1>5, <2>1 DEF Frame
    <2> QED BY <1>2, <2>2, <2>3 DEF Framed
<1> QED BY <1>2, <1>4, <1>5 DEF Streamed, v

LEMMA DamagedShape ==
    ASSUME NEW w \in Seq(Unit), Sorted(w), NEW c, c = "zstd" => Frame(w),
           NEW v \in Damaged(w)
    PROVE  Streamed(c, v)
<1>1. PICK d \in DOMAIN w : v = [w EXCEPT ![d] = [kind |-> "bad", upto |-> Upto(SubSeq(w, 1, d - 1))]]
    BY Zenon DEF Damaged
<1> DEFINE e == Upto(SubSeq(w, 1, d - 1))
<1>2. Len(w) \in Nat /\ d \in 1 .. Len(w) /\ \A i \in 1 .. Len(w) : w[i].upto \in Nat
    BY SortedUpto
<1>3. e = IF d = 1 THEN 0 ELSE w[d - 1].upto
    <2>1. d - 1 \in 0 .. Len(w)
        BY <1>2
    <2> QED BY <1>2, <2>1, PrefixUpto
<1> HIDE DEF e
<1>4. e \in Nat /\ \A i \in 1 .. Len(w) : (i < d => w[i].upto <= e) /\ (i >= d => e <= w[i].upto)
    <2>1. CASE d = 1
        BY <1>2, <1>3, <2>1
    <2>2. CASE d # 1
        <3>1. d - 1 \in 1 .. Len(w) /\ e = w[d - 1].upto
            BY <1>2, <1>3, <2>2
        <3> QED BY <1>2, <3>1 DEF Sorted
    <2> QED BY <2>1, <2>2
<1>5. [kind |-> "bad", upto |-> e] \in Unit
    BY <1>4 DEF Unit
<1>6. /\ v \in Seq(Unit) /\ Len(v) = Len(w) /\ v[d] = [kind |-> "bad", upto |-> e]
      /\ \A i \in 1 .. Len(w) : i # d => v[i] = w[i]
    <2>1. v = [w EXCEPT ![d] = [kind |-> "bad", upto |-> e]]
        BY <1>1 DEF e
    <2> QED BY <1>2, <1>5, <2>1, ExceptSeq
<1>7. Sorted(v)
    <2> SUFFICES ASSUME NEW i \in 1 .. Len(w), NEW j \in 1 .. Len(w), i <= j
                 PROVE  v[i].upto <= v[j].upto
        BY <1>6 DEF Sorted
    <2>1. w[i].upto <= w[j].upto
        BY DEF Sorted
    <2> QED BY <1>2, <1>4, <1>6, <2>1
<1>8. ASSUME Frame(w)
      PROVE  Framed(v)
    <2>1. \A i \in 2 .. Len(w) : v[i].kind # "hdr"
        BY <1>6, <1>8 DEF Frame
    <2>2. v[1].kind \in {"hdr", "bad"} /\ (v[1].kind = "hdr" => v[1].upto = 0)
        BY <1>2, <1>6, <1>8 DEF Frame
    <2> QED BY <1>6, <2>1, <2>2 DEF Framed
<1> QED BY <1>6, <1>7, <1>8 DEF Streamed

ShiftedOf(w, t) ==
    /\ t \in Seq(Unit) /\ Len(t) = Len(w)
    /\ \A i \in 1 .. Len(w) : t[i].kind = w[i].kind /\ t[i].upto = w[i].upto + Upto(w)

LEMMA ShiftedShape ==
    ASSUME NEW w \in Seq(Unit)
    PROVE  ShiftedOf(w, Shifted(w))
<1> DEFINE u(i) == [w[i] EXCEPT !.upto = @ + Upto(w)]
           t == [i \in 1 .. Len(w) |-> u(i)]
<1>1. Len(w) \in Nat /\ Upto(w) \in Nat /\ Shifted(w) = t
    BY UptoType DEF Shifted
<1>2. ASSUME NEW i \in 1 .. Len(w)
      PROVE  u(i) \in Unit /\ u(i).kind = w[i].kind /\ u(i).upto = w[i].upto + Upto(w)
    <2>1. w[i] \in Unit
        OBVIOUS
    <2>2. w[i].upto + Upto(w) \in Nat
        BY <1>1, <2>1 DEF Unit
    <2> QED BY <2>1, <2>2 DEF Unit
<1> HIDE DEF u
<1>3. t \in Seq(Unit) /\ Len(t) = Len(w) /\ \A i \in 1 .. Len(w) : t[i] = u(i)
    <2>1. t \in [1 .. Len(w) -> Unit]
        BY <1>2
    <2> QED BY <1>1, <2>1, SeqDef
<1> HIDE DEF t
<1> QED BY <1>1, <1>2, <1>3 DEF ShiftedOf

LEMMA TwiceShape ==
    ASSUME NEW w \in Seq(Unit), Sorted(w), NEW c, c = "zstd" => Frame(w)
    PROVE  Streamed(c, w \o Shifted(w))
<1> DEFINE t == Shifted(w)
           v == w \o t
<1>1. Len(w) \in Nat /\ Upto(w) \in Nat
    BY UptoType
<1>2. /\ t \in Seq(Unit) /\ Len(t) = Len(w)
      /\ \A i \in 1 .. Len(w) : t[i].kind = w[i].kind /\ t[i].upto = w[i].upto + Upto(w)
    BY ShiftedShape DEF ShiftedOf
<1> HIDE DEF t
<1>3. \A i \in 1 .. Len(w) : w[i].upto \in Nat
    BY SortedUpto
<1>4. Sorted(t) /\ \A i \in 1 .. Len(t) : Upto(w) <= t[i].upto
    BY <1>1, <1>2, <1>3, SMTT(30) DEF Sorted
<1>5. Joined(w, t, v)
    BY <1>2, <1>4, ConcatSorted
<1> HIDE DEF v
<1>6. /\ v \in Seq(Unit) /\ Sorted(v) /\ Len(v) = Len(w) + Len(w)
      /\ \A i \in 1 .. Len(w) : v[i] = w[i] /\ v[Len(w) + i] = t[i]
    BY <1>2, <1>5 DEF Joined
<1>7. ASSUME Frame(w), NEW i \in 1 .. Len(v)
      PROVE  /\ i = 1 => v[i].kind \in {"hdr", "bad"}
             /\ v[i].kind = "hdr" =>
                   IF i = 1 THEN v[i].upto = 0
                   ELSE v[i - 1].kind = "last" /\ v[i].upto = v[i - 1].upto
    <2>1. /\ Len(w) \in Nat \ {0} /\ w[1] = [kind |-> "hdr", upto |-> 0]
          /\ w[Len(w)].kind = "last" /\ w[Len(w)].upto = Upto(w)
          /\ \A j \in 2 .. Len(w) : w[j].kind # "hdr"
        BY <1>7 DEF Frame, Upto
    <2>2. CASE i = 1
        BY <1>6, <2>1, <2>2
    <2>3. CASE i \in 2 .. Len(w)
        BY <1>6, <2>1, <2>3, SMTT(30)
    <2>4. CASE i = Len(w) + 1
        <3>1. v[i] = t[1] /\ t[1].upto = Upto(w)
            BY <1>1, <1>2, <1>6, <2>1, <2>4
        <3>2. v[i - 1] = w[Len(w)] /\ i # 1
            BY <1>6, <2>1, <2>4
        <3> QED BY <2>1, <3>1, <3>2
    <2>5. CASE i > Len(w) + 1
        <3>1. PICK j \in 2 .. Len(w) : i = Len(w) + j /\ i # 1
            <4>1. i \in Nat /\ i <= Len(w) + Len(w) /\ i >= 1
                BY <1>1, <1>6, <1>7
            <4>2. i - Len(w) \in 2 .. Len(w) /\ i = Len(w) + (i - Len(w)) /\ i # 1
                BY <1>1, <2>5, <4>1
            <4> QED BY <4>2
        <3>2. j \in 1 .. Len(w)
            OBVIOUS
        <3>3. v[Len(w) + j] = t[j] /\ t[j].kind = w[j].kind
            BY <1>2, <1>6, <3>2
        <3>4. v[i].kind # "hdr"
            BY <2>1, <3>1, <3>3
        <3> QED BY <3>1, <3>4
    <2> QED BY <1>6, <2>1, <2>2, <2>3, <2>4, <2>5
<1>8. Streamed(c, v)
    BY <1>6, <1>7 DEF Streamed, Framed
<1> QED BY <1>8 DEF v, t

LEMMA OnTheWayShape ==
    ASSUME NEW w \in Seq(Unit), Sorted(w), NEW c, c = "zstd" => Frame(w), NEW v \in OnTheWay(w)
    PROVE  Streamed(c, v)
<1>1. Streamed(c, w)
    BY DEF Streamed, Frame, Framed
<1> QED BY <1>1, GrowBadShape, DamagedShape, TwiceShape DEF OnTheWay
-----------------------------------------------------------------------------
(***************************************************************************)
(* How a zlib stream z stands to the caller's bytes s, of which f units    *)
(* are consumed and g symbols produced.  Until it has ended, everything    *)
(* but the unit consumed last is out, and the end is still to come or is   *)
(* waiting for room.                                                       *)
(***************************************************************************)
PartOf(p, w, b) ==
    b \in Nat /\ b + Len(p) <= Len(w) /\ \A i \in 1 .. Len(p) : p[i] = w[b + i]

Unended(s, f, g) ==
    /\ \A i \in 1 .. f - 1 : s.w[i].upto <= g
    /\ \A i \in 1 .. f : s.w[i].kind # "bad"
    /\ \A i \in Ends(s.c, s.w) : i <= f => i = f /\ g # Reached(s.w, f)

Inflating(z, s, f, g) ==
    /\ f = Len(z.seen) /\ g = z.total_out /\ PartOf(z.seen, s.w, 0)
    /\ f > 0 => z.fmt = s.c
    /\ g <= Reached(s.w, f)
    /\ z.status = "DONE" => f \in Ends(s.c, s.w) /\ g = Reached(s.w, f)
    /\ z.status = "OK" => Unended(s, f, g)

\* The content of a prefix.
LEMMA ReachedType ==
    ASSUME NEW w \in Seq(Unit), Sorted(w), NEW k \in 0 .. Len(w)
    PROVE  /\ Reached(w, k) \in Nat /\ Reached(w, k) = IF k = 0 THEN 0 ELSE w[k].upto
           /\ \A i \in 1 .. k : w[i].upto \in Nat /\ w[i].upto <= Reached(w, k)
           /\ \A i \in 0 .. k : Reached(w, i) <= Reached(w, k)
<1>1. \A i \in 0 .. Len(w) : Reached(w, i) = IF i = 0 THEN 0 ELSE w[i].upto
    BY PrefixUpto DEF Reached
<1>2. \A i \in 1 .. Len(w) : w[i].upto \in Nat
    BY SortedUpto
<1>3. \A i \in 1 .. k : w[i].upto <= w[k].upto
    BY DEF Sorted
<1> QED BY <1>1, <1>2, <1>3

\* A part from the beginning has the same content and the same ends.
LEMMA PartReached ==
    ASSUME NEW w \in Seq(Unit), NEW p \in Seq(Unit), PartOf(p, w, 0), NEW k \in 0 .. Len(p)
    PROVE  Reached(p, k) = Reached(w, k)
<1>1. k \in 0 .. Len(w) /\ (k > 0 => p[k] = w[k])
    BY DEF PartOf
<1> QED BY <1>1, PrefixUpto DEF Reached

LEMMA PartEnds ==
    ASSUME NEW w \in Seq(Unit), NEW p \in Seq(Unit), PartOf(p, w, 0), NEW c
    PROVE  /\ Ends(c, p) \subseteq Ends(c, w)
           /\ \A i \in Ends(c, w) : i <= Len(p) => i \in Ends(c, p)
<1>1. TailLen(c) \in Nat /\ DOMAIN w = 1 .. Len(w) /\ DOMAIN p = 1 .. Len(p)
    BY TailLenType
<1>2. Len(p) <= Len(w) /\ \A i \in 1 .. Len(p) : p[i] = w[i]
    BY DEF PartOf
<1> QED BY <1>1, <1>2 DEF Ends

\* What was consumed and what is offered now.
Offered(w, s, f) ==
    /\ w \in Seq(Unit) /\ f + Len(w) <= Len(s.w)
    /\ \A i \in 1 .. Len(w) : w[i] = s.w[f + i]

LEMMA OfferedPart ==
    ASSUME NEW s, s.w \in Seq(Unit), NEW q \in Seq(Unit), NEW b \in Nat, PartOf(q, s.w, b),
           NEW f \in Nat, f = b + Len(q), NEW w, Offered(w, s, f)
    PROVE  q \o w \in Seq(Unit) /\ Len(q \o w) = Len(q) + Len(w) /\ PartOf(q \o w, s.w, b)
<1> DEFINE p == q \o w
<1>1. /\ p \in Seq(Unit) /\ Len(p) = Len(q) + Len(w) /\ Len(q) \in Nat /\ Len(w) \in Nat
      /\ \A i \in 1 .. Len(q) + Len(w) : p[i] = IF i <= Len(q) THEN q[i] ELSE w[i - Len(q)]
    BY ConcatProperties DEF Offered
<1> HIDE DEF p
<1>2. b \in Nat
    OBVIOUS
<1>3. ASSUME NEW i \in 1 .. Len(p)
      PROVE  p[i] = s.w[b + i]
    <2>1. CASE i <= Len(q)
        BY <1>1, <2>1 DEF PartOf
    <2>2. CASE i > Len(q)
        <3>1. i - Len(q) \in 1 .. Len(w) /\ (b + Len(q)) + (i - Len(q)) = b + i /\ ~(i <= Len(q))
            BY <1>1, <1>2, <2>2
        <3> QED BY <1>1, <3>1 DEF Offered
    <2> QED BY <1>1, <2>1, <2>2
<1>4. PartOf(p, s.w, b)
    BY <1>1, <1>2, <1>3 DEF PartOf, Offered
<1> QED BY <1>1, <1>4 DEF p

\* An inflate of the next units, none of which is damaged: no further back,
\* no symbol lost, and something moves or the end is reached.
Advances(s, f, g, n, m, y) ==
    /\ Len(y.seen) \in f .. f + n /\ y.total_out \in g .. g + m
    /\ Inflating(y, s, Len(y.seen), y.total_out)
    /\ y.total_out < g + m => y.total_out = Reached(s.w, Len(y.seen))
    /\ y.status = "OK" /\ n > 0 /\ m > 0 => Len(y.seen) > f \/ y.total_out > g

LEMMA InflateAdvances ==
    ASSUME NEW z \in InflateStream, z.status = "OK", NEW s, Streamed(s.c, s.w),
           NEW f \in Nat, NEW g \in Nat, Inflating(z, s, f, g),
           NEW w, Offered(w, s, f), s.c = z.fmt \/ w = <<>>, NEW m \in Nat,
           NEW p \in Seq(Unit), Len(p) = f + Len(w), PartOf(p, s.w, 0),
           NEW k \in 0 .. Len(p), NEW y, InflatedAt(z, p, m, k, y), y.status # "BAD"
    PROVE  Advances(s, f, g, Len(w), m, y)
<1>1. /\ s.w \in Seq(Unit) /\ Sorted(s.w) /\ w \in Seq(Unit) /\ z.seen \in Seq(Unit)
      /\ f = Len(z.seen) /\ g = z.total_out /\ PartOf(z.seen, s.w, 0) /\ Unended(s, f, g)
      /\ Len(w) \in Nat
    BY DEF Streamed, Offered, Inflating, InflateStream
<1>2. p \in Seq(Unit) /\ Len(p) = f + Len(w) /\ PartOf(p, s.w, 0)
    OBVIOUS
<1>3. /\ Len(p) <= Len(s.w) /\ \A i \in 1 .. Len(p) : p[i] = s.w[i] /\ p[i].upto \in Nat
    BY <1>1, <1>2, SortedUpto, SMTT(30) DEF PartOf
<1>4. /\ Reached(p, k) = Reached(s.w, k) /\ Reached(s.w, k) \in Nat
      /\ \A i \in 1 .. k : s.w[i].upto <= Reached(s.w, k)
      /\ \A i \in 0 .. k : Reached(s.w, i) <= Reached(s.w, k)
    <2>1. k \in 0 .. Len(s.w)
        BY <1>2, <1>3
    <2> QED BY <1>1, <1>2, <2>1, PartReached, ReachedType
<1>5. /\ Halts(z, p, m) \subseteq Nat /\ Len(p) \in Halts(z, p, m)
      /\ Ends(z.fmt, p) \subseteq Halts(z, p, m) /\ Damages(p) \subseteq Halts(z, p, m)
      /\ \A i \in 1 .. Len(p) : p[i].upto > g + m => i \in Halts(z, p, m)
      /\ \A j \in Halts(z, p, m) : k <= j
    <2>1. DOMAIN p = 1 .. Len(p)
        BY <1>2
    <2> QED BY <1>1, <1>2, <2>1, HaltsInside DEF Halts, Overflows, InflatedAt
<1>6. z.fmt = s.c \/ (f = 0 /\ Len(w) = 0)
    BY <1>1 DEF Inflating
<1>7. /\ \A i \in Ends(z.fmt, p) : i \in Ends(s.c, s.w)
      /\ \A i \in Ends(s.c, s.w) : i <= Len(p) => i \in Ends(z.fmt, p) /\ i \in Nat \ {0}
    <2>1. CASE z.fmt = s.c
        <3>1. Ends(z.fmt, p) \subseteq Nat \ {0}
            BY HaltsInside
        <3> QED BY <1>1, <1>2, <2>1, <3>1, PartEnds
    <2>2. CASE f = 0 /\ Len(w) = 0
        <3>1. Len(p) = 0 /\ DOMAIN p = {}
            BY <1>2, <2>2
        <3>2. Ends(z.fmt, p) = {}
            BY <3>1 DEF Ends
        <3>3. Ends(s.c, s.w) \subseteq Nat \ {0}
            BY <1>1, TailLenType DEF Ends
        <3> QED BY <3>1, <3>2, <3>3
    <2> QED BY <1>6, <2>1, <2>2
<1>8. k >= f
    <2>1. ASSUME NEW i \in Halts(z, p, m)
          PROVE  i >= f
        <3>1. CASE i = Len(p)
            BY <1>1, <1>2, <3>1
        <3>2. CASE i \in Ends(z.fmt, p)
            <4>1. i \in Ends(s.c, s.w) /\ i \in Nat
                BY <1>5, <1>7, <3>2
            <4> QED BY <1>1, <4>1 DEF Unended
        <3>3. CASE i \in Damages(p)
            <4>1. i \in 1 .. Len(p) /\ s.w[i].kind = "bad"
                BY <1>2, <1>3, <3>3 DEF Damages
            <4> QED BY <1>1, <4>1 DEF Unended
        <3>4. CASE i \in Overflows(z, p, m)
            <4>1. i \in 1 .. Len(p) /\ s.w[i].upto > g + m
                <5>1. i \in DOMAIN p /\ p[i].upto > z.total_out + m
                    BY <3>4 DEF Overflows
                <5>2. i \in 1 .. Len(p)
                    BY <5>1
                <5> QED BY <1>1, <1>3, <5>1, <5>2
            <4>2. s.w[i].upto \in Nat
                BY <1>3, <4>1
            <4>3. ~(i <= f - 1)
                <5>1. i \in 1 .. f - 1 => s.w[i].upto <= g
                    BY <1>1 DEF Unended
                <5> QED BY <4>1, <4>2, <5>1
            <4> QED BY <4>1, <4>3
        <3> QED BY <3>1, <3>2, <3>3, <3>4 DEF Halts
    <2> QED BY <1>1, <2>1 DEF InflatedAt
<1>9. /\ y.fmt = z.fmt /\ Len(y.seen) = k /\ PartOf(y.seen, s.w, 0) /\ y.status \in {"OK", "DONE"}
      /\ y.total_out = IF Reached(s.w, k) <= g + m THEN Reached(s.w, k) ELSE g + m
    <2>1. y.status \in {"OK", "DONE"}
        BY DEF InflatedAt, InflateStream
    <2>2. /\ y.fmt = z.fmt
          /\ y.total_out = IF Reached(s.w, k) <= g + m THEN Reached(s.w, k) ELSE g + m
        <3>1. /\ y.fmt = z.fmt
              /\ y.total_out = IF Reached(p, k) <= z.total_out + m THEN Reached(p, k)
                               ELSE z.total_out + m
            BY DEF InflatedAt
        <3> QED BY <1>1, <1>4, <3>1
    <2>3. y.seen = SubSeq(p, 1, k)
        BY DEF InflatedAt
    <2>4. Len(SubSeq(p, 1, k)) = k /\ \A i \in 1 .. k : SubSeq(p, 1, k)[i] = p[i]
        BY <1>2, PrefixUpto
    <2>5. Len(y.seen) = k /\ \A i \in 1 .. k : y.seen[i] = p[i]
        BY <2>3, <2>4, Zenon
    <2>6. PartOf(y.seen, s.w, 0)
        BY <1>2, <1>3, <2>5 DEF PartOf
    <2> QED BY <2>1, <2>2, <2>5, <2>6
<1>10. Reached(s.w, f) <= Reached(s.w, k) /\ Reached(s.w, f) \in Nat /\ g <= Reached(s.w, f)
    <2>1. f \in 0 .. k /\ f \in 0 .. Len(s.w)
        BY <1>1, <1>2, <1>3, <1>8
    <2> QED BY <1>1, <1>4, <2>1, ReachedType DEF Inflating
<1>11. y.total_out \in g .. g + m /\ y.total_out <= Reached(s.w, k)
    BY <1>4, <1>9, <1>10
<1>12. y.status = "DONE" => k \in Ends(s.c, s.w) /\ y.total_out = Reached(s.w, k)
    BY <1>1, <1>4, <1>7, <1>9 DEF InflatedAt
<1>13. ASSUME y.status = "OK"
       PROVE  Unended(s, k, y.total_out)
    <2>1. ASSUME NEW i \in 1 .. k - 1
          PROVE  s.w[i].upto <= y.total_out
        <3>1. i \in 1 .. Len(p) /\ i \in 1 .. k /\ i < k
            BY <1>2
        <3>2. s.w[i].upto \in Nat /\ s.w[i].upto <= Reached(s.w, k) /\ p[i].upto = s.w[i].upto
            BY <1>3, <1>4, <3>1
        <3>3. ~(s.w[i].upto > g + m)
            <4>1. i \in Halts(z, p, m) => k <= i
                BY <1>5
            <4> QED BY <1>5, <3>1, <3>2, <4>1
        <3> QED BY <1>4, <1>9, <3>2, <3>3
    <2>2. ASSUME NEW i \in 1 .. k
          PROVE  s.w[i].kind # "bad"
        <3>1. i \in 1 .. Len(p) /\ i <= k /\ DOMAIN p = 1 .. Len(p)
            BY <1>2
        <3>2. i \notin Damages(p)
            <4>1. i \in Damages(p) => i = k
                BY <1>5, <3>1
            <4> QED BY <1>13, <4>1 DEF InflatedAt
        <3> QED BY <1>3, <3>1, <3>2 DEF Damages
    <2>3. ASSUME NEW i \in Ends(s.c, s.w), i <= k
          PROVE  i = k /\ y.total_out # Reached(s.w, k)
        <3>1. i \in Ends(z.fmt, p) /\ i = k
            <4>1. i \in Nat
                BY TailLenType, <1>1 DEF Ends
            <4>2. i <= Len(p)
                BY <1>2, <2>3, <4>1
            <4> QED BY <1>5, <1>7, <2>3, <4>1, <4>2
        <3>2. ~(Reached(s.w, k) <= g + m)
            BY <1>1, <1>4, <1>13, <3>1 DEF InflatedAt
        <3> QED BY <1>4, <1>9, <3>1, <3>2
    <2> QED BY <2>1, <2>2, <2>3 DEF Unended
<1>14. k > 0 => y.fmt = s.c
    BY <1>2, <1>6, <1>9
<1>15. Inflating(y, s, k, y.total_out)
    BY <1>9, <1>11, <1>12, <1>13, <1>14 DEF Inflating
<1>16. ASSUME y.status = "OK", Len(w) > 0, m > 0, k = f, y.total_out = g
       PROVE  FALSE
    <2>1. Reached(s.w, k) = g /\ k # Len(p)
        BY <1>1, <1>2, <1>4, <1>9, <1>10, <1>16
    <2>2. k \in Halts(z, p, m)
        BY <1>1, <1>4, <1>16, <2>1 DEF InflatedAt
    <2>3. k \notin Damages(p) /\ k \notin Ends(z.fmt, p)
        BY <1>1, <1>4, <1>16, <2>1 DEF InflatedAt
    <2>4. k \in 1 .. Len(p) /\ s.w[k].upto > g + m
        <3>1. k \in Overflows(z, p, m)
            BY <2>1, <2>2, <2>3 DEF Halts
        <3>2. k \in DOMAIN p /\ p[k].upto > z.total_out + m
            BY <3>1 DEF Overflows
        <3>3. k \in 1 .. Len(p)
            BY <3>2
        <3> QED BY <1>1, <1>3, <3>2, <3>3
    <2>5. s.w[k].upto <= Reached(s.w, k) /\ s.w[k].upto \in Nat
        BY <1>3, <1>4, <2>4
    <2> QED BY <1>16, <2>1, <2>4, <2>5
<1>17. k \in f .. f + Len(w)
    BY <1>2, <1>8
<1>18. y.total_out < g + m => y.total_out = Reached(s.w, k)
    BY <1>4, <1>9
<1> QED BY <1>9, <1>11, <1>15, <1>16, <1>17, <1>18 DEF Advances

\* An inflate of the next units: it advances unless one of them is damaged or
\* they are of another container.
Spoiled(c, s, k) == s.c # c \/ \E i \in 1 .. k : s.w[i].kind = "bad"

LEMMA DecodedAdvances ==
    ASSUME NEW z \in InflateStream, z.status # "BAD", NEW s, Streamed(s.c, s.w),
           NEW f \in Nat, NEW g \in Nat, Inflating(z, s, f, g),
           NEW w, Offered(w, s, f), NEW m \in Nat, NEW y \in Decoded(z, s.c, w, m)
    PROVE  /\ y \in InflateStream /\ y.fmt = z.fmt
           /\ y.status # "BAD" => Advances(s, f, g, Len(w), m, y)
           /\ y.status = "BAD" => Spoiled(z.fmt, s, f + Len(w))
<1>1. /\ w \in Seq(Unit) /\ Len(w) \in Nat /\ s.w \in Seq(Unit) /\ z.seen \in Seq(Unit)
      /\ f = Len(z.seen) /\ g = z.total_out /\ PartOf(z.seen, s.w, 0)
      /\ z.status \in {"OK", "DONE"}
    BY DEF Offered, Streamed, Inflating, InflateStream
<1>2. /\ y \in InflateStream /\ y.fmt = z.fmt
      /\ z.status # "OK" => y = z
      /\ z.status = "OK" /\ s.c # z.fmt /\ w # <<>> => y = [z EXCEPT !.status = "BAD"]
    BY <1>1, DecodedCases
<1>3. CASE z.status # "OK"
    <2>1. y = z /\ z.status = "DONE"
        BY <1>1, <1>2, <1>3
    <2>2. g = Reached(s.w, f)
        BY <2>1 DEF Inflating
    <2>3. Advances(s, f, g, Len(w), m, z)
        BY <1>1, <2>1, <2>2 DEF Advances
    <2> QED BY <1>2, <2>1, <2>3
<1>4. CASE z.status = "OK" /\ s.c # z.fmt /\ w # <<>>
    <2>1. y.status = "BAD"
        BY <1>2, <1>4 DEF InflateStream
    <2> QED BY <1>2, <1>4, <2>1 DEF Spoiled
<1>5. CASE z.status = "OK" /\ (s.c = z.fmt \/ w = <<>>)
    <2>0. PartOf(z.seen \o w, s.w, 0) /\ Len(z.seen \o w) = Len(z.seen) + Len(w)
        <3>1. f = 0 + Len(z.seen) /\ 0 \in Nat
            BY <1>1
        <3>2. s.w \in Seq(Unit) /\ z.seen \in Seq(Unit) /\ PartOf(z.seen, s.w, 0)
            BY <1>1
        <3> QED BY <3>1, <3>2, OfferedPart
    <2> DEFINE p == z.seen \o w
    <2>1. p \in Seq(Unit) /\ \E k \in 0 .. Len(p) : InflatedAt(z, p, m, k, y)
        BY <1>1, <1>5, DecodedCases
    <2>2. Len(p) = f + Len(w) /\ PartOf(p, s.w, 0)
        BY <1>1, <2>0
    <2> HIDE DEF p
    <2>3. PICK k \in 0 .. Len(p) : InflatedAt(z, p, m, k, y)
        BY <2>1
    <2>4. y.status # "BAD" => Advances(s, f, g, Len(w), m, y)
        BY <1>5, <2>1, <2>2, <2>3, InflateAdvances
    <2>5. ASSUME y.status = "BAD"
          PROVE  Spoiled(z.fmt, s, f + Len(w))
        <3>1. k \in Damages(p)
            BY <2>3, <2>5 DEF InflatedAt
        <3>2. k \in DOMAIN p /\ p[k].kind = "bad"
            BY <3>1 DEF Damages
        <3>3. k \in 1 .. Len(p)
            BY <2>1, <3>2
        <3>4. s.w[k].kind = "bad"
            BY <2>2, <3>2, <3>3 DEF PartOf
        <3> QED BY <2>2, <3>3, <3>4 DEF Spoiled
    <2> QED BY <1>2, <2>4, <2>5
<1> QED BY <1>1, <1>3, <1>4, <1>5
-----------------------------------------------------------------------------
(***************************************************************************)
(* The inductive invariant.  What the caller was told of a zlib stream is  *)
(* the status it is in, and as long as there was no error its counts are   *)
(* the caller's.                                                           *)
(***************************************************************************)
ZlibInv(z, s, f, g, t) ==
    /\ "corrupt" \in t <=> z.status = "BAD"
    /\ z.status # "BAD" => Inflating(z, s, f, g) /\ ("done" \in t <=> z.status = "DONE")

(***************************************************************************)
(* A zstd context reads one frame at a time: what it has read of it is the *)
(* caller's bytes up to what is consumed, and one more when it hands the   *)
(* frame's last unit back.  Between two frames the caller was told of the  *)
(* end; and wherever it stands before a header, also after an error, it    *)
(* holds what the frames before it gave.                                   *)
(***************************************************************************)
Undone(p, n) == \A i \in 1 .. n : p[i].kind \notin {"last", "bad"}

InFrame(x, s, g, b) ==
    /\ s.c = "zstd" /\ PartOf(x.seen, s.w, b)
    /\ g = x.total_out /\ x.total_out <= x.decoded /\ x.decoded <= Upto(x.seen)

Framing(x, s, f, g) ==
    /\ x.seen # <<>> /\ InFrame(x, s, g, f - Len(x.seen)) /\ Undone(x.seen, Len(x.seen))

Holding(x, s, f, g) ==
    /\ Len(x.seen) > 1 /\ InFrame(x, s, g, f + 1 - Len(x.seen))
    /\ Undone(x.seen, Len(x.seen) - 1) /\ x.seen[Len(x.seen)].kind = "last"
    /\ x.decoded = Upto(x.seen)

AtHeader(s, f, g) ==
    s.c = "zstd" /\ f < Len(s.w) /\ s.w[f + 1].kind = "hdr" => g = s.w[f + 1].upto

Between(s, f, g, t) ==
    g = Reached(s.w, f) /\ (f = 0 \/ (f \in Ends(s.c, s.w) /\ "done" \in t))

ZstdInv(x, s, f, g, t) ==
    /\ AtHeader(s, f, g)
    /\ x.stage = "bad" => "corrupt" \in t
    /\ x.stage = "start" /\ "corrupt" \notin t => Between(s, f, g, t)
    /\ x.stage = "frame" => Framing(x, s, f, g)
    /\ x.stage = "hostage" => Holding(x, s, f, g)

Inv ==
    /\ TypeOK /\ Streamed(stream.c, stream.w) /\ fed <= Len(stream.w)
    /\ ~Zlib /\ ~Zstd => fed = 0 /\ got = 0 /\ told = {}
    /\ Zlib => ZlibInv(handle.z, stream, fed, got, told)
    /\ Zstd => ZstdInv(handle.x, stream, fed, got, told)

\* The handles are told apart by their alternative.
LEMMA Alternatives ==
    /\ NoHandle.alt = "none" /\ StubHandle.alt = "stub"
    /\ \A z : ZlibHandle(z).alt = "zlib_sweller" /\ ZlibHandle(z).z = z
    /\ \A x : ZstdHandle(x).alt = "zstd_sweller" /\ ZstdHandle(x).x = x
    /\ NoHandle \in AnyHandle /\ StubHandle \in AnyHandle
    /\ \A z \in InflateStream : ZlibHandle(z) \in AnyHandle
    /\ \A x \in DCtx : ZstdHandle(x) \in AnyHandle
BY DEF NoHandle, StubHandle, ZlibHandle, ZstdHandle, AnyHandle

LEMMA HandleType ==
    ASSUME handle \in AnyHandle
    PROVE  /\ Zlib => handle.z \in InflateStream /\ ~Zstd
           /\ Zstd => handle.x \in DCtx /\ ~Zlib
           /\ ~Zlib /\ ~Zstd => handle = NoHandle \/ handle = StubHandle
BY Alternatives DEF AnyHandle, Zlib, Zstd

LEMMA InitInv == Init => Inv
<1> SUFFICES ASSUME Init
             PROVE  Inv
    OBVIOUS
<1>1. ~Zlib /\ ~Zstd /\ handle \in AnyHandle
    BY Alternatives DEF Init, Zlib, Zstd
<1>2. stream \in [c : Formats \cup {"none"}, w : Seq(Unit)] /\ Streamed(stream.c, stream.w)
      /\ Len(stream.w) = 0
    BY DEF Init, NoStream, Streamed, Sorted, Framed
<1>3. last \in [op : {"none", "construct", "push"}, n : Nat, out : AnySpan, r : Result]
    BY DEF Init, NoCall, Progress, AnySpan, Result, Kinds
<1>4. TypeOK
    BY <1>1, <1>2, <1>3 DEF Init, TypeOK
<1> QED BY <1>1, <1>2, <1>4 DEF Inv, Init

\* A new decompressor stands at the beginning of its bytes.
LEMMA MadeKeepsInv ==
    ASSUME Inv, handle = NoHandle, NEW f \in Formats, fmt' = f, handle' = make_sweller(f),
           stream' \in [c : Formats \cup {"none"}, w : Seq(Unit)],
           Streamed(stream'.c, stream'.w), fed' = fed, got' = got, told' = told,
           last' \in [op : {"none", "construct", "push"}, n : Nat, out : AnySpan, r : Result]
    PROVE  Inv'
<1>1. stream'.w \in Seq(Unit)
    OBVIOUS
<1>2. fed' = 0 /\ got' = 0 /\ told' = {}
    <2>1. ~Zlib /\ ~Zstd
        BY Alternatives DEF Zlib, Zstd
    <2> QED BY <2>1 DEF Inv
<1>4. \/ handle' = StubHandle
      \/ handle' = ZlibHandle(zlib_sweller(f)) \/ handle' = ZstdHandle(createDCtx)
    BY DEF make_sweller
<1>5. zlib_sweller(f) \in InflateStream /\ createDCtx \in DCtx
    <2>1. zlib_sweller(f) \in InflateStream
        BY DEF zlib_sweller, inflateInit, window_bits_for, InflateStream, Formats,
               ZlibFormats, ZstdFormats
    <2> QED BY <2>1, IdleMaxAssumption DEF createDCtx, DCtx
<1>7. handle' \in AnyHandle
    BY <1>4, <1>5, Alternatives
<1>8. TypeOK'
    BY <1>2, <1>7 DEF TypeOK
<1>9. Reached(stream'.w, 0) = 0 /\ Len(stream'.w) \in Nat
    BY <1>1, PrefixUpto DEF Streamed, Reached
<1>10. ASSUME Zlib'
       PROVE  ZlibInv(handle'.z, stream', 0, 0, {})
    <2>1. handle'.z = zlib_sweller(f)
        BY <1>4, <1>10, Alternatives DEF Zlib
    <2>2. handle'.z.status = "OK" /\ handle'.z.seen = <<>> /\ handle'.z.total_out = 0
        BY <2>1 DEF zlib_sweller, inflateInit
    <2>3. Ends(stream'.c, stream'.w) \subseteq Nat \ {0}
        BY TailLenType, <1>1 DEF Ends, Streamed
    <2>4. Unended(stream', 0, 0)
        BY <2>3 DEF Unended
    <2>5. PartOf(handle'.z.seen, stream'.w, 0)
        BY <1>9, <2>2 DEF PartOf
    <2>6. Inflating(handle'.z, stream', 0, 0)
        BY <1>9, <2>2, <2>4, <2>5 DEF Inflating
    <2> QED BY <2>2, <2>6 DEF ZlibInv
<1>11. ASSUME Zstd'
       PROVE  ZstdInv(handle'.x, stream', 0, 0, {})
    <2>1. handle'.x = createDCtx
        BY <1>4, <1>11, Alternatives DEF Zstd
    <2>2. AtHeader(stream', 0, 0)
        BY <1>1 DEF AtHeader, Streamed, Framed
    <2> QED BY <1>9, <2>1, <2>2 DEF ZstdInv, createDCtx, Between
<1> QED BY <1>2, <1>8, <1>9, <1>10, <1>11 DEF Inv

\* Its bytes are a stream of some container, with what happens to it on the way.
LEMMA ConstructStreams ==
    ASSUME NEW f, NEW c, Construct(f, c)
    PROVE  stream'.c = c /\ Streamed(c, stream'.w) /\ stream' = [c |-> c, w |-> stream'.w]
<1>1. PICK n \in 0 .. MaxSource : \E w \in Compressed(c, n) : \E v \in OnTheWay(w) :
          stream' = [c |-> c, w |-> v]
    BY DEF Construct
<1>2. PICK w \in Compressed(c, n) : \E v \in OnTheWay(w) : stream' = [c |-> c, w |-> v]
    BY <1>1
<1>3. PICK v \in OnTheWay(w) : stream' = [c |-> c, w |-> v]
    BY <1>2
<1>4. n \in Nat
    BY DecompressorAssumption
<1>5. w \in Seq(Unit) /\ Sorted(w) /\ (c = "zstd" => Frame(w))
    BY <1>4, CompressedShape
<1>6. Streamed(c, v)
    BY <1>5, OnTheWayShape
<1> QED BY <1>3, <1>6

LEMMA ConstructKeepsInv ==
    ASSUME Inv, NEW f \in Readers, NEW c \in Arriving, Construct(f, c)
    PROVE  Inv'
<1>1. /\ stream'.c = c /\ Streamed(c, stream'.w)
      /\ stream' \in [c : Formats \cup {"none"}, w : Seq(Unit)]
    <2>1. stream'.w \in Seq(Unit) /\ c \in Formats
        BY ConstructStreams, DecompressorAssumption DEF Streamed
    <2> QED BY <2>1, ConstructStreams
<1>2. /\ handle = NoHandle /\ fed' = fed /\ got' = got /\ told' = told /\ fmt' = f
      /\ handle' = make_sweller(f) /\ last' = [NoCall EXCEPT !.op = "construct"]
    BY DEF Construct
<1>3. f \in Formats
    BY DecompressorAssumption
<1>4. last' \in [op : {"none", "construct", "push"}, n : Nat, out : AnySpan, r : Result]
    BY <1>2 DEF NoCall, Progress, AnySpan, Result, Kinds
<1> QED BY <1>1, <1>2, <1>3, <1>4, MadeKeepsInv
-----------------------------------------------------------------------------
(***************************************************************************)
(* A push.  The caller is told r, with the news of the stream in it.       *)
(***************************************************************************)
Pushed(n, out, r) ==
    /\ fed' = fed + r.in /\ got' = got + r.out /\ told' = told \cup News(out, r)
    /\ last' = [op |-> "push", n |-> n, out |-> out, r |-> r]
    /\ fmt' = fmt /\ stream' = stream

Refused(r) == r = Unexpected("stream_corrupt")

\* What is told of a zlib stream z that a call leaves as y: how far it got, that
\* the span has no address, or an error, which sound bytes do not give.
ZlibPushed(n, out, z, y, r) ==
    \/ /\ z.status # "BAD" /\ y.status # "BAD"
       /\ Advances(stream, fed, got, uInt(n), uInt(out.size), y)
       /\ r = Progress(Len(y.seen) - fed, y.total_out - got, y.status = "DONE")
    \/ Refused(r) /\ out.data = "null" /\ y = z
    \/ /\ Refused(r) /\ out.data # "null" /\ y.status = "BAD"
       /\ z.status = "BAD" \/ Spoiled(z.fmt, stream, fed + uInt(n))

LEMMA ZlibPush ==
    ASSUME Inv, Zlib, NEW n \in Nat, NEW out \in Spans(MaxOut), push(n, out)
    PROVE  \E y \in InflateStream : \E r :
               /\ handle' = ZlibHandle(y) /\ Pushed(n, out, r) /\ y.fmt = handle.z.fmt
               /\ handle.z.status # "OK" => y = handle.z
               /\ ZlibPushed(n, out, handle.z, y, r)
<1> DEFINE bytes == SubSeq(stream.w, fed + 1, fed + n)
           w == SubSeq(bytes, 1, uInt(Len(bytes)))
           z == handle.z
           m == uInt(out.size)
<1>1. /\ fed \in Nat /\ got \in Nat /\ stream.w \in Seq(Unit) /\ fed + n <= Len(stream.w)
      /\ Streamed(stream.c, stream.w) /\ z \in InflateStream
      /\ ZlibInv(z, stream, fed, got, told)
    BY HandleType DEF Inv, TypeOK, push, Streamed
<1>2. out.size \in Nat /\ m \in Nat /\ uInt(n) \in Nat /\ uInt(n) <= n
    BY DecompressorAssumption, uIntBelow DEF Spans
<1>3. Offered(w, stream, fed) /\ Len(w) = uInt(n) /\ w \in Seq(Unit)
    <2>1. bytes \in Seq(Unit) /\ Len(bytes) = n /\ \A i \in 1 .. n : bytes[i] = stream.w[fed + i]
        BY <1>1
    <2> HIDE DEF bytes
    <2>2. w \in Seq(Unit) /\ Len(w) = uInt(n) /\ \A i \in 1 .. uInt(n) : w[i] = bytes[i]
        <3>1. uInt(n) \in 0 .. Len(bytes)
            BY <1>2, <2>1
        <3>2. w = SubSeq(bytes, 1, uInt(n))
            BY <2>1
        <3>3. /\ SubSeq(bytes, 1, uInt(n)) \in Seq(Unit) /\ Len(SubSeq(bytes, 1, uInt(n))) = uInt(n)
              /\ \A i \in 1 .. uInt(n) : SubSeq(bytes, 1, uInt(n))[i] = bytes[i]
            BY <2>1, <3>1, PrefixUpto
        <3> HIDE DEF w
        <3> QED BY <3>2, <3>3, Zenon
    <2> HIDE DEF w
    <2>3. fed + uInt(n) <= Len(stream.w) /\ \A i \in 1 .. uInt(n) : i \in 1 .. n
        <3>1. Len(stream.w) \in Nat
            BY <1>1
        <3> QED BY <1>1, <1>2, <3>1
    <2>4. \A i \in 1 .. uInt(n) : w[i] = stream.w[fed + i]
        BY <2>1, <2>2, <2>3
    <2> QED BY <2>2, <2>3, <2>4 DEF Offered
<1>4. PICK o \in push_visitor(handle, stream.c, bytes, out) :
          handle' = o.h /\ Pushed(n, out, o.r)
    BY DEF push, Pushed
<1>5. PICK q \in zlib_sweller_push_more(z, stream.c, bytes, out) :
          o = [h |-> ZlibHandle(q.z), r |-> q.r]
    BY <1>4 DEF push_visitor, Zlib
<1>6. PICK d \in inflate(z, "no", stream.c, w, out.data, m) :
          q = [z |-> d.z, r |-> Delivered(z, d)]
    BY <1>5, Zenon DEF zlib_sweller_push_more
<1> HIDE DEF bytes, w, m, z
<1> DEFINE y == d.z
           r == Delivered(z, d)
<1>7. handle' = ZlibHandle(y) /\ Pushed(n, out, r)
    BY <1>4, <1>5, <1>6
<1>8. /\ y \in InflateStream
      /\ out.data = "null" => d.ret = "STREAM_ERROR" /\ y = z
      /\ out.data # "null" =>
            /\ y \in Decoded(z, stream.c, w, m)
            /\ d.ret = "STREAM_END" <=> y.status = "DONE"
            /\ d.ret = "DATA_ERROR" <=> y.status = "BAD"
            /\ d.ret \in {"OK", "BUF_ERROR"} <=> y.status = "OK"
    BY <1>1, <1>2, <1>3, <1>6, InflateCases
<1>9. y.status \in {"OK", "DONE", "BAD"} /\ y.fmt = z.fmt /\ (z.status # "OK" => y = z)
    <2>1. CASE out.data = "null"
        BY <1>8, <2>1 DEF InflateStream
    <2>2. CASE out.data # "null"
        BY <1>1, <1>2, <1>3, <1>8, <2>2, DecodedCases DEF InflateStream
    <2> QED BY <2>1, <2>2
<1>10. Len(y.seen) \in Nat /\ Len(z.seen) \in Nat
    BY <1>1, <1>8 DEF InflateStream
<1>11. ZlibPushed(n, out, z, y, r)
    <2>1. CASE out.data = "null"
        BY <1>8, <2>1 DEF ZlibPushed, Refused, Delivered
    <2>2. CASE out.data # "null" /\ y.status = "BAD"
        <3>1. Refused(r)
            <4>1. d.ret = "DATA_ERROR"
                BY <1>8, <2>2
            <4> QED BY <4>1 DEF Refused, Delivered
        <3>2. z.status = "BAD" \/ Spoiled(z.fmt, stream, fed + uInt(n))
            <4>1. z.status # "BAD" => Inflating(z, stream, fed, got)
                BY <1>1 DEF ZlibInv
            <4> QED BY <1>1, <1>2, <1>3, <1>8, <2>2, <4>1, DecodedAdvances
        <3> QED BY <2>2, <3>1, <3>2 DEF ZlibPushed
    <2>3. CASE out.data # "null" /\ y.status # "BAD"
        <3>1. z.status # "BAD"
            BY <1>9, <2>3
        <3>2. Inflating(z, stream, fed, got)
            BY <1>1, <3>1 DEF ZlibInv
        <3>3. Advances(stream, fed, got, uInt(n), m, y)
            BY <1>1, <1>2, <1>3, <1>8, <2>3, <3>1, <3>2, DecodedAdvances
        <3>4. r = Swelling(z, d, y.status = "DONE")
            <4>1. \/ d.ret = "STREAM_END" /\ y.status = "DONE"
                  \/ d.ret \in {"OK", "BUF_ERROR"} /\ y.status = "OK"
                BY <1>8, <1>9, <2>3
            <4> QED BY <4>1 DEF Delivered
        <3>5. fed = Len(z.seen) /\ got = z.total_out
            BY <3>2 DEF Inflating
        <3>6. r = Progress(Len(y.seen) - fed, y.total_out - got, y.status = "DONE")
            BY <3>4, <3>5, Zenon DEF Swelling
        <3> QED BY <2>3, <3>1, <3>3, <3>6 DEF ZlibPushed, m
    <2> QED BY <2>1, <2>2, <2>3
<1> HIDE DEF y, r
<1> QED BY <1>7, <1>8, <1>9, <1>11 DEF z

(***************************************************************************)
(* What a push reports, as the properties state it: with room left, zlib   *)
(* has delivered everything; the end is where a stream ends, with all of   *)
(* its symbols; and something moved.                                       *)
(***************************************************************************)
AllOut ==
    Zlib /\ Ok /\ RoomLeft /\ "corrupt" \notin told => got = Reached(stream.w, fed)

DoneAtEnd ==
    Ok /\ last.r.done => fed \in Ends(stream.c, stream.w) /\ got = Reached(stream.w, fed)

Reports == AllOut /\ DoneAtEnd /\ PushProgress

LEMMA ZlibKeepsInv ==
    ASSUME Inv, Zlib, NEW n \in Nat, NEW out \in Spans(MaxOut), push(n, out)
    PROVE  Inv' /\ Reports'
<1> DEFINE z == handle.z
<1>1. PICK y \in InflateStream : \E r :
          /\ handle' = ZlibHandle(y) /\ Pushed(n, out, r) /\ y.fmt = z.fmt
          /\ z.status # "OK" => y = z
          /\ ZlibPushed(n, out, z, y, r)
    BY ZlibPush, Zenon
<1>2. PICK r : /\ handle' = ZlibHandle(y) /\ Pushed(n, out, r) /\ y.fmt = z.fmt
               /\ z.status # "OK" => y = z
               /\ ZlibPushed(n, out, z, y, r)
    BY <1>1
<1>3. /\ TypeOK /\ Streamed(stream.c, stream.w) /\ ZlibInv(z, stream, fed, got, told)
      /\ fed <= Len(stream.w) /\ stream.w \in Seq(Unit)
    BY DEF Inv, Streamed
<1> HIDE DEF z
<1>4. handle'.z = y /\ Zlib' /\ ~Zstd' /\ handle' \in AnyHandle
    BY <1>2, Alternatives DEF Zlib, Zstd
<1>5. out.size \in Nat /\ out \in AnySpan /\ uInt(n) \in Nat /\ uInt(out.size) \in Nat
    BY DecompressorAssumption, uIntBelow DEF Spans, AnySpan
<1>6. fed \in Nat /\ got \in Nat /\ told \subseteq {"done", "corrupt"} /\ Len(y.seen) \in Nat
      /\ fmt \in Formats \cup {"none"} /\ stream \in [c : Formats \cup {"none"}, w : Seq(Unit)]
    BY <1>3 DEF TypeOK, InflateStream
<1>7. /\ fed' = fed + r.in /\ got' = got + r.out /\ told' = told \cup News(out, r)
      /\ last' = [op |-> "push", n |-> n, out |-> out, r |-> r]
      /\ fmt' = fmt /\ stream' = stream
    BY <1>2 DEF Pushed
<1>8. ASSUME r \in Result, fed' \in Nat, fed' <= Len(stream.w), got' \in Nat,
             told' \subseteq {"done", "corrupt"}, ZlibInv(y, stream, fed', got', told')
      PROVE  Inv'
    <2>1. last' \in [op : {"none", "construct", "push"}, n : Nat, out : AnySpan, r : Result]
        BY <1>5, <1>7, <1>8
    <2>2. TypeOK'
        BY <1>4, <1>6, <1>7, <1>8, <2>1 DEF TypeOK
    <2> QED BY <1>3, <1>4, <1>7, <1>8, <2>2 DEF Inv
<1>9. CASE /\ z.status # "BAD" /\ y.status # "BAD"
           /\ Advances(stream, fed, got, uInt(n), uInt(out.size), y)
           /\ r = Progress(Len(y.seen) - fed, y.total_out - got, y.status = "DONE")
    <2>1. /\ Len(y.seen) \in fed .. fed + uInt(n) /\ y.total_out \in got .. got + uInt(out.size)
          /\ Inflating(y, stream, Len(y.seen), y.total_out)
          /\ y.total_out < got + uInt(out.size) => y.total_out = Reached(stream.w, Len(y.seen))
          /\ y.status = "OK" /\ uInt(n) > 0 /\ uInt(out.size) > 0 =>
                Len(y.seen) > fed \/ y.total_out > got
        BY <1>9 DEF Advances
    <2>2. /\ r.kind = "ok" /\ r.in = Len(y.seen) - fed /\ r.out = y.total_out - got
          /\ r.done = (y.status = "DONE")
        BY <1>9 DEF Progress
    <2>3. r.in \in Nat /\ r.out \in Nat /\ fed' = Len(y.seen) /\ got' = y.total_out
        BY <1>5, <1>6, <1>7, <2>1, <2>2
    <2>4. r \in Result
        BY <1>9, <2>2, <2>3 DEF Progress, Result, Kinds
    <2>5. News(out, r) = IF y.status = "DONE" THEN {"done"} ELSE {}
        BY <2>2 DEF News
    <2>6. ZlibInv(y, stream, fed', got', told') /\ told' \subseteq {"done", "corrupt"}
          /\ "corrupt" \notin told'
        BY <1>2, <1>3, <1>6, <1>7, <1>9, <2>1, <2>3, <2>5 DEF ZlibInv
    <2>7. fed' <= Len(stream.w) /\ fed' \in Nat /\ got' \in Nat
        <3>1. Len(y.seen) <= Len(stream.w)
            BY <1>3, <1>6, <2>1 DEF Inflating, PartOf
        <3> QED BY <1>6, <2>1, <2>3, <3>1
    <2>8. Inv'
        BY <1>8, <2>4, <2>6, <2>7
    <2>9. AllOut'
        <3> SUFFICES ASSUME RoomLeft'
                     PROVE  got' = Reached(stream'.w, fed')
            BY DEF AllOut
        <3>1. r.out < uInt(out.size)
            BY <1>7 DEF RoomLeft
        <3>2. y.total_out < got + uInt(out.size)
            BY <1>5, <1>6, <2>1, <2>2, <3>1
        <3> QED BY <1>7, <2>1, <2>3, <3>2
    <2>10. DoneAtEnd'
        BY <1>7, <2>1, <2>2, <2>3 DEF DoneAtEnd, Inflating
    <2>11. PushProgress'
        <3> SUFFICES ASSUME uInt(n) > 0, uInt(out.size) > 0, ~r.done
                     PROVE  r.in + r.out > 0
            BY <1>7 DEF PushProgress, Ok
        <3>1. y.status = "OK"
            BY <1>9, <2>2 DEF InflateStream
        <3> QED BY <1>5, <1>6, <2>1, <2>2, <3>1, SMTT(30)
    <2> QED BY <2>8, <2>9, <2>10, <2>11 DEF Reports
<1>10. ASSUME Refused(r)
       PROVE  /\ r \in Result /\ fed' = fed /\ got' = got /\ Reports'
              /\ told' = told \cup (IF out.data = "null" THEN {} ELSE {"corrupt"})
    <2>1. r.kind = "stream_corrupt" /\ r.in = 0 /\ r.out = 0 /\ r \in Result
        BY <1>10 DEF Refused, Unexpected, Result, Kinds
    <2>2. News(out, r) = IF out.data = "null" THEN {} ELSE {"corrupt"}
        BY <2>1 DEF News, Refusable, Zlib
    <2>3. ~Ok'
        BY <1>7, <2>1 DEF Ok
    <2>4. Reports'
        BY <2>3 DEF Reports, AllOut, DoneAtEnd, PushProgress
    <2> QED BY <1>6, <1>7, <2>1, <2>2, <2>4
<1>11. CASE Refused(r) /\ out.data = "null" /\ y = z
    BY <1>3, <1>6, <1>8, <1>10, <1>11
<1>12. CASE Refused(r) /\ out.data # "null" /\ y.status = "BAD"
    <2>1. told' = told \cup {"corrupt"}
        BY <1>10, <1>12
    <2>2. ZlibInv(y, stream, fed', got', told')
        BY <1>12, <2>1 DEF ZlibInv
    <2> QED BY <1>3, <1>6, <1>8, <1>10, <1>12, <2>1, <2>2
<1> QED BY <1>2, <1>9, <1>11, <1>12 DEF ZlibPushed
-----------------------------------------------------------------------------
(***************************************************************************)
(* What ZSTD_decompressStream does to a context.                           *)
(***************************************************************************)
Idled(x, poor, d) == poor /\ d.error /\ d.x = [x EXCEPT !.idle = IdleMax]

Moved(x, y, pos, remaining, d) ==
    /\ ~d.error /\ d.pos = pos /\ d.remaining = remaining
    /\ d.outpos = y.total_out - x.total_out
    /\ \E idle \in 0 .. IdleMax : d.x = After(y, remaining, idle)

LEMMA StepCases ==
    ASSUME NEW x, x.idle \in 0 .. IdleMax, NEW y, NEW pos, NEW remaining, NEW poor \in BOOLEAN
    PROVE  LET d == Step(x, y, pos, remaining, poor)
           IN  Idled(x, poor, d) \/ Moved(x, y, pos, remaining, d)
<1> DEFINE out == y.total_out - x.total_out
           moved == Len(y.seen) > Len(x.seen) \/ out > 0
           idle == IF moved THEN 0 ELSE IF x.idle < IdleMax THEN x.idle + 1 ELSE IdleMax
           d == Step(x, y, pos, remaining, poor)
<1>1. idle \in 0 .. IdleMax
    <2>1. IdleMax \in Nat /\ x.idle \in Nat /\ x.idle <= IdleMax
        BY IdleMaxAssumption
    <2> HIDE DEF moved
    <2> QED BY <2>1
<1>2. d = IF idle = IdleMax /\ poor
          THEN [error |-> TRUE, pos |-> 0, outpos |-> 0, remaining |-> 1,
                x |-> [x EXCEPT !.idle = idle]]
          ELSE [error |-> FALSE, pos |-> pos, outpos |-> out, remaining |-> remaining,
                x |-> After(y, remaining, idle)]
    BY DEF Step
<1> HIDE DEF idle, d, out
<1>3. Idled(x, poor, d) \/ Moved(x, y, pos, remaining, d)
    BY <1>1, <1>2 DEF Idled, Moved, out
<1> QED BY <1>3 DEF d

\* A context that has read k units of the frame p, decoded e symbols and
\* written out.
Holds(y, stage, p, k, e, out) ==
    /\ y \in DCtx /\ y.stage = stage /\ Len(y.seen) = k
    /\ \A i \in 1 .. k : y.seen[i] = p[i]
    /\ y.decoded = e /\ y.total_out = out

\* How far it can read and decode.
ReadTo(x, p, m, k, e) ==
    /\ k \in Len(x.seen) .. Len(p) /\ e \in Nat /\ x.decoded <= e /\ e <= Reached(p, k)
    /\ \A i \in Len(x.seen) + 1 .. k - 1 : p[i].kind \notin {"last", "bad"}
    /\ k = Len(x.seen) /\ k < Len(p) => e > x.total_out + m
    /\ k > Len(x.seen) /\ p[k].kind = "last" => e = p[k].upto

WritesTo(x, e, m, out) ==
    /\ out \in Nat /\ x.total_out <= out /\ out <= e /\ out <= x.total_out + m
    /\ out < e => out = x.total_out + m

\* A read: the frame's damage, a call too many that moves nothing, a part of the
\* frame, all of it with its symbols still waiting, or all of it.
ReadOutcome(x, p, k, e, out, poor, d) ==
    LET read == k - Len(x.seen)
        on == /\ ~d.error /\ d.outpos = out - x.total_out
    IN  \/ read > 0 /\ p[k].kind = "bad" /\ d = Failed(x)
        \/ Idled(x, poor, d)
        \/ /\ read = 0 \/ p[k].kind \notin {"last", "bad"}
           /\ on /\ d.pos = read /\ d.remaining = 1 /\ Holds(d.x, "frame", p, k, e, out)
        \/ /\ read > 0 /\ p[k].kind = "last" /\ out < e
           /\ on /\ d.pos = read - 1 /\ d.remaining = 1 /\ Holds(d.x, "hostage", p, k, e, out)
        \/ /\ read > 0 /\ p[k].kind = "last" /\ out = e
           /\ on /\ d.pos = read /\ d.remaining = 0 /\ d.x = createDCtx

LEMMA ReadCases ==
    ASSUME NEW x \in DCtx, x.total_out <= x.decoded, NEW w, NEW p \in Seq(Unit),
           Len(x.seen) <= Len(p), NEW m \in Nat, NEW c \in Decodings(x, p, m)
    PROVE  LET out == Fitting(x, c.e, m)
           IN  /\ ReadTo(x, p, m, c.k, c.e) /\ WritesTo(x, c.e, m, out)
               /\ ReadOutcome(x, p, c.k, c.e, out, w = <<>> \/ m = 0, Read(x, p, w, m, c))
<1> DEFINE from == Len(x.seen)
           poor == w = <<>> \/ m = 0
           k == c.k
           e == c.e
           out == Fitting(x, e, m)
           read == k - from
           ended == read > 0 /\ p[k].kind = "last"
           hostage == ended /\ out < e
           y == [x EXCEPT !.stage = IF hostage THEN "hostage" ELSE "frame",
                          !.seen = SubSeq(p, 1, k), !.decoded = e, !.total_out = out]
           d == Read(x, p, w, m, c)
           pos == IF hostage THEN read - 1 ELSE read
           remaining == IF ended /\ ~hostage THEN 0 ELSE 1
<1>1. /\ x.seen \in Seq(Unit) /\ from \in Nat /\ Len(p) \in Nat
      /\ x.decoded \in Nat /\ x.total_out \in Nat /\ x.idle \in 0 .. IdleMax
    BY DEF DCtx
<1>2. /\ k \in Readable(p, from) /\ e \in x.decoded .. Upto(p)
      /\ e <= Upto(SubSeq(p, 1, k))
      /\ (k = from \/ ~Stop(p, k)) /\ k < Len(p) => e > x.total_out + m
      /\ k > from /\ p[k].kind = "last" => e = p[k].upto
    BY DEF Decodings
<1>3. /\ k \in from .. Len(p)
      /\ \A i \in from + 1 .. k - 1 : p[i].kind \notin {"last", "bad"}
    BY <1>2 DEF Readable
<1>4. e \in Nat /\ x.decoded <= e
    BY <1>1, <1>2
<1> HIDE DEF k, e
<1>5. ReadTo(x, p, m, k, e)
    BY <1>2, <1>3, <1>4 DEF ReadTo, Reached
<1>6. WritesTo(x, e, m, out)
    BY <1>1, <1>4 DEF WritesTo, Fitting
<1>7. k \in 0 .. Len(p)
    BY <1>1, <1>3
<1>8. /\ SubSeq(p, 1, k) \in Seq(Unit) /\ Len(SubSeq(p, 1, k)) = k
      /\ \A i \in 1 .. k : SubSeq(p, 1, k)[i] = p[i]
    BY <1>7, PrefixUpto
<1>9. d = IF read > 0 /\ p[k].kind = "bad" THEN Failed(x)
          ELSE Step(x, y, pos, remaining, poor)
    BY Zenon DEF Read, k, e
<1>0. poor \in BOOLEAN
    OBVIOUS
<1> HIDE DEF out, d, y, pos, remaining, poor
<1>10. /\ y.total_out = out
       /\ \A idle \in 0 .. IdleMax :
             Holds([y EXCEPT !.idle = idle], IF hostage THEN "hostage" ELSE "frame", p, k, e, out)
    <2> DEFINE u == SubSeq(p, 1, k)
               st == IF hostage THEN "hostage" ELSE "frame"
    <2>1. u \in Seq(Unit) /\ Len(u) = k /\ \A i \in 1 .. k : u[i] = p[i]
        BY <1>8
    <2>2. y = [x EXCEPT !.stage = st, !.seen = u, !.decoded = e, !.total_out = out]
        BY DEF y
    <2>3. st \in {"frame", "hostage"} /\ out \in Nat
        BY <1>6 DEF WritesTo
    <2> HIDE DEF u, st
    <2>4. y.total_out = out
        BY <2>2 DEF DCtx
    <2>5. ASSUME NEW idle \in 0 .. IdleMax
          PROVE  Holds([y EXCEPT !.idle = idle], st, p, k, e, out)
        <3> DEFINE v == [y EXCEPT !.idle = idle]
        <3>1. /\ v \in DCtx /\ v.stage = st /\ v.seen = u /\ v.decoded = e /\ v.total_out = out
            BY <1>4, <2>1, <2>2, <2>3 DEF DCtx
        <3> HIDE DEF v
        <3>2. Holds(v, st, p, k, e, out)
            BY <2>1, <3>1 DEF Holds
        <3> QED BY <3>2 DEF v
    <2> QED BY <2>4, <2>5 DEF st
<1>11. CASE read > 0 /\ p[k].kind = "bad"
    <2>1. ReadOutcome(x, p, k, e, out, poor, d)
        BY <1>9, <1>11 DEF ReadOutcome
    <2> QED BY <1>5, <1>6, <2>1 DEF k, e, out, d, poor
<1>12. CASE ~(read > 0 /\ p[k].kind = "bad")
    <2>1. Idled(x, poor, d) \/ Moved(x, y, pos, remaining, d)
        BY <1>0, <1>1, <1>9, <1>12, StepCases
    <2>2. ASSUME Moved(x, y, pos, remaining, d)
          PROVE  ReadOutcome(x, p, k, e, out, poor, d)
        <3>1. PICK idle \in 0 .. IdleMax : d.x = After(y, remaining, idle)
            BY <2>2 DEF Moved
        <3>2. ~d.error /\ d.pos = pos /\ d.remaining = remaining /\ d.outpos = out - x.total_out
            BY <1>10, <2>2 DEF Moved
        <3>3. read \in Nat
            BY <1>1, <1>3
        <3>4. CASE hostage
            <4>1. pos = read - 1 /\ remaining = 1
                BY <3>4 DEF pos, remaining
            <4>2. Holds(d.x, "hostage", p, k, e, out)
                BY <1>10, <3>1, <3>4, <4>1 DEF After
            <4> QED BY <3>2, <3>4, <4>1, <4>2 DEF ReadOutcome
        <3>5. CASE ended /\ ~hostage
            <4>1. pos = read /\ remaining = 0
                BY <3>5 DEF pos, remaining
            <4>2. out = e
                BY <1>4, <1>6, <3>5 DEF WritesTo
            <4> QED BY <3>1, <3>2, <3>5, <4>1, <4>2 DEF ReadOutcome, After
        <3>6. CASE ~ended
            <4>1. pos = read /\ remaining = 1
                BY <3>6 DEF pos, remaining
            <4>2. Holds(d.x, "frame", p, k, e, out)
                BY <1>10, <3>1, <3>6, <4>1 DEF After
            <4>3. read = 0 \/ p[k].kind \notin {"last", "bad"}
                BY <1>12, <3>3, <3>6
            <4> QED BY <3>2, <4>1, <4>2, <4>3 DEF ReadOutcome
        <3> QED BY <3>4, <3>5, <3>6
    <2>3. Idled(x, poor, d) => ReadOutcome(x, p, k, e, out, poor, d)
        BY DEF ReadOutcome
    <2> QED BY <1>5, <1>6, <2>1, <2>2, <2>3 DEF k, e, out, d, poor
<1> QED BY <1>11, <1>12

(***************************************************************************)
(* What that means for the caller's bytes s: it has consumed f units of    *)
(* them, holds g symbols, and offers the n units w.                        *)
(***************************************************************************)
Standing(x, s, f, g) ==
    /\ x.stage = "frame" => Framing(x, s, f, g)
    /\ x.stage = "hostage" => Holding(x, s, f, g)

\* A call that reports no error consumes and writes what it says, tells the end
\* of the frame exactly there, and otherwise moves something.
GoesOn(s, f, g, n, m, d) ==
    /\ d.pos \in 0 .. n /\ d.outpos \in Nat /\ d.remaining \in {0, 1}
    /\ AtHeader(s, f + d.pos, g + d.outpos)
    /\ d.remaining = 0 =>
          /\ d.x = createDCtx /\ f + d.pos \in Ends(s.c, s.w)
          /\ g + d.outpos = Reached(s.w, f + d.pos)
    /\ d.remaining = 1 =>
          /\ d.x.stage \in {"frame", "hostage"} /\ Standing(d.x, s, f + d.pos, g + d.outpos)
          /\ n > 0 /\ m > 0 => d.pos + d.outpos > 0

\* One that does, for want of input or room or for damage, leaves the context as
\* it was.
GivesUp(s, f, g, n, m, d) ==
    /\ \/ d.x.idle = IdleMax /\ (n = 0 \/ m = 0)
       \/ d.x.stage = "bad" /\ Spoiled("zstd", s, f + n)
    /\ Standing(d.x, s, f, g)

Decompresses(s, f, g, n, m, d) ==
    d.x \in DCtx /\ IF d.error THEN GivesUp(s, f, g, n, m, d) ELSE GoesOn(s, f, g, n, m, d)

\* Inside a frame there is no header, and after its end one that repeats what
\* the frame gave.
LEMMA HeaderAfter ==
    ASSUME NEW s, Streamed(s.c, s.w), s.c = "zstd", NEW j \in 1 .. Len(s.w), NEW g,
           s.w[j].kind = "last" => g = s.w[j].upto
    PROVE  AtHeader(s, j, g)
<1> SUFFICES ASSUME j < Len(s.w), s.w[j + 1].kind = "hdr"
             PROVE  g = s.w[j + 1].upto
    BY DEF AtHeader
<1>1. Framed(s.w) /\ s.w \in Seq(Unit)
    BY DEF Streamed
<1>2. j + 1 \in 1 .. Len(s.w) /\ j + 1 # 1 /\ (j + 1) - 1 = j
    BY <1>1
<1>3. s.w[j].kind = "last" /\ s.w[j + 1].upto = s.w[j].upto
    BY <1>1, <1>2 DEF Framed
<1> QED BY <1>3

\* A frame ends where its last unit is.
LEMMA ZstdEnds ==
    ASSUME NEW s, s.c = "zstd", s.w \in Seq(Unit)
    PROVE  Ends(s.c, s.w) = {i \in 1 .. Len(s.w) : s.w[i].kind = "last"}
<1>1. TailLen(s.c) = 0 /\ DOMAIN s.w = 1 .. Len(s.w)
    BY DEF TailLen
<1>2. \A i \in 1 .. Len(s.w) : i + 0 = i
    OBVIOUS
<1> QED BY <1>1, <1>2 DEF Ends

\* What a context that is in a frame, or at the header of one, may count on.
Ready(x, s, f, g, w) ==
    /\ x \in DCtx /\ s.c = "zstd" /\ f - Len(x.seen) \in Nat
    /\ PartOf(x.seen, s.w, f - Len(x.seen)) /\ Undone(x.seen, Len(x.seen))
    /\ g = x.total_out /\ x.total_out <= x.decoded
    /\ x.seen = <<>> =>
          x.stage = "start" /\ w # <<>> /\ w[1].kind = "hdr" /\ x.decoded = x.total_out
    /\ x.seen # <<>> => x.stage = "frame" /\ x.decoded <= Upto(x.seen)

LEMMA ReadDecompresses ==
    ASSUME NEW s, Streamed(s.c, s.w), NEW f \in Nat, NEW g \in Nat, AtHeader(s, f, g),
           NEW w, Offered(w, s, f), NEW m \in Nat, NEW x, Ready(x, s, f, g, w),
           NEW d \in Reads(x, w, m)
    PROVE  Decompresses(s, f, g, Len(w), m, d)
<1> DEFINE p == x.seen \o w
           from == Len(x.seen)
           b == f - Len(x.seen)
<1>1. /\ s.w \in Seq(Unit) /\ Sorted(s.w) /\ s.c = "zstd" /\ w \in Seq(Unit) /\ Len(w) \in Nat
      /\ x \in DCtx /\ x.seen \in Seq(Unit) /\ from \in Nat /\ b \in Nat /\ f = b + from
      /\ x.total_out \in Nat /\ x.decoded \in Nat /\ g = x.total_out /\ x.total_out <= x.decoded
      /\ PartOf(x.seen, s.w, b) /\ Undone(x.seen, from)
      /\ f + Len(w) <= Len(s.w) /\ Len(s.w) \in Nat
    BY DEF Streamed, Offered, Ready, DCtx
<1>2. PICK c \in Decodings(x, p, m) : d = Read(x, p, w, m, c)
    BY DEF Reads
<1>3. p \in Seq(Unit) /\ Len(p) = from + Len(w) /\ PartOf(p, s.w, b)
    BY <1>1, OfferedPart
<1>4. \A i \in 1 .. from : p[i] = x.seen[i]
    BY <1>1, <1>3 DEF PartOf
<1> HIDE DEF p, from, b
<1> DEFINE k == c.k
           e == c.e
           out == Fitting(x, c.e, m)
<1>5. ReadTo(x, p, m, k, e) /\ WritesTo(x, e, m, out) /\ ReadOutcome(x, p, k, e, out, w = <<>> \/ m = 0, d)
    BY <1>1, <1>2, <1>3, ReadCases DEF from
<1> HIDE DEF k, e, out
<1>6. /\ k \in from .. Len(p) /\ e \in Nat /\ x.decoded <= e /\ e <= Reached(p, k)
      /\ \A i \in from + 1 .. k - 1 : p[i].kind \notin {"last", "bad"}
      /\ k = from /\ k < Len(p) => e > x.total_out + m
      /\ k > from /\ p[k].kind = "last" => e = p[k].upto
    BY <1>5 DEF ReadTo, from
<1>7. /\ out \in Nat /\ x.total_out <= out /\ out <= e /\ out <= x.total_out + m
      /\ out < e => out = x.total_out + m
    BY <1>5 DEF WritesTo
<1>8. \A i \in 1 .. Len(p) : p[i] = s.w[b + i] /\ b + i \in 1 .. Len(s.w)
    <2>1. b \in Nat /\ Len(p) \in Nat /\ Len(s.w) \in Nat
        BY <1>1, <1>3
    <2>2. b + Len(p) <= Len(s.w) /\ \A i \in 1 .. Len(p) : p[i] = s.w[b + i]
        BY <1>3 DEF PartOf
    <2> QED BY <2>1, <2>2
<1>9. k >= 1 /\ k \in 1 .. Len(p)
    <2>1. CASE from > 0
        BY <1>1, <1>3, <1>6, <2>1
    <2>2. CASE from = 0
        <3>1. Len(w) > 0
            <4>1. x.seen = <<>>
                BY <1>1, <2>2 DEF from
            <4> QED BY <1>1, <4>1 DEF Ready
        <3>2. ASSUME k = 0
              PROVE  FALSE
            <4>1. e > x.total_out + m
                BY <1>1, <1>3, <1>6, <2>2, <3>1, <3>2
            <4>2. Reached(p, 0) = 0
                <5>1. 0 \in 0 .. Len(p)
                    BY <1>3
                <5> QED BY <1>3, <5>1, PrefixUpto DEF Reached
            <4> QED BY <1>1, <1>6, <3>2, <4>1, <4>2
        <3> QED BY <1>1, <1>3, <1>6, <2>2, <3>2
    <2> QED BY <1>1, <2>1, <2>2
<1>10. /\ Reached(p, k) = p[k].upto /\ Reached(s.w, b + k) = p[k].upto
       /\ b + k \in 1 .. Len(s.w) /\ b + k <= f + Len(w) /\ s.w[b + k] = p[k]
    <2>1. k \in 0 .. Len(p) /\ k # 0 /\ b + k \in 1 .. Len(s.w) /\ s.w[b + k] = p[k]
        BY <1>8, <1>9
    <2>2. Reached(p, k) = p[k].upto
        BY <1>3, <2>1, PrefixUpto DEF Reached
    <2>3. b + k \in 0 .. Len(s.w) /\ b + k # 0
        BY <1>1, <2>1
    <2>4. Reached(s.w, b + k) = s.w[b + k].upto
        BY <1>1, <2>3, PrefixUpto DEF Reached
    <2> QED BY <1>1, <1>3, <1>9, <2>1, <2>2, <2>4
<1>11. \A i \in 1 .. k - 1 : p[i].kind \notin {"last", "bad"}
    <2> SUFFICES ASSUME NEW i \in 1 .. k - 1
                 PROVE  p[i].kind \notin {"last", "bad"}
        OBVIOUS
    <2>1. CASE i <= from
        <3>1. i \in 1 .. from
            BY <1>1, <2>1
        <3> QED BY <1>1, <1>4, <3>1 DEF Undone
    <2>2. CASE i > from
        <3>1. i \in from + 1 .. k - 1
            BY <1>1, <1>9, <2>2
        <3> QED BY <1>6, <3>1
    <2> QED BY <1>1, <2>1, <2>2
<1>12. k - from \in 0 .. Len(w) /\ f + (k - from) = b + k
    BY <1>1, <1>3, <1>6, <1>9
<1>20. /\ out - x.total_out \in Nat /\ g + (out - x.total_out) = out
       /\ e > x.total_out + m => out = x.total_out + m
    <2>1. x.total_out \in Nat /\ e \in Nat /\ out \in Nat /\ x.total_out <= out /\ out <= e
        BY <1>1, <1>6, <1>7
    <2>2. out <= x.total_out + m /\ (out < e => out = x.total_out + m) /\ g = x.total_out
        BY <1>1, <1>7
    <2>3. out - x.total_out \in Nat /\ x.total_out + (out - x.total_out) = out
        BY <2>1
    <2>4. e > x.total_out + m => out = x.total_out + m
        BY <2>1, <2>2
    <2> QED BY <2>2, <2>3, <2>4, Zenon
\* The units read so far, whatever becomes of them.
<1>13. ASSUME NEW stage, Holds(d.x, stage, p, k, e, out)
       PROVE  /\ d.x \in DCtx /\ d.x.stage = stage /\ Len(d.x.seen) = k /\ d.x.seen # <<>>
              /\ InFrame(d.x, s, out, b) /\ d.x.decoded = e /\ Upto(d.x.seen) = p[k].upto
              /\ \A i \in 1 .. k : d.x.seen[i] = p[i]
    <2>1. /\ d.x \in DCtx /\ d.x.stage = stage /\ Len(d.x.seen) = k
          /\ \A i \in 1 .. k : d.x.seen[i] = p[i]
          /\ d.x.decoded = e /\ d.x.total_out = out /\ d.x.seen \in Seq(Unit)
        BY <1>13 DEF Holds, DCtx
    <2>2. d.x.seen # <<>> /\ k \in 1 .. k
        BY <1>9, <2>1
    <2>3. Upto(d.x.seen) = p[k].upto
        BY <2>1, <2>2 DEF Upto
    <2>4. PartOf(d.x.seen, s.w, b)
        <3>1. b + k <= Len(s.w) /\ \A i \in 1 .. k : i \in 1 .. Len(p)
            BY <1>1, <1>9, <1>10
        <3> QED BY <1>1, <1>8, <2>1, <3>1 DEF PartOf
    <2>5. InFrame(d.x, s, out, b)
        BY <1>1, <1>6, <1>7, <1>10, <2>1, <2>3, <2>4 DEF InFrame
    <2> QED BY <2>1, <2>2, <2>3, <2>5
<1>14. CASE k - from > 0 /\ p[k].kind = "bad" /\ d = Failed(x)
    <2>1. d.error /\ d.x \in DCtx /\ d.x.stage = "bad"
        BY <1>1, <1>14 DEF Failed, DCtx
    <2>2. Spoiled("zstd", s, f + Len(w))
        <3>1. b + k \in 1 .. f + Len(w)
            BY <1>1, <1>10
        <3> QED BY <1>10, <1>14, <3>1 DEF Spoiled
    <2> QED BY <2>1, <2>2 DEF Decompresses, GivesUp, Standing
<1>15. CASE Idled(x, w = <<>> \/ m = 0, d)
    <2>1. /\ d.error /\ d.x = [x EXCEPT !.idle = IdleMax]
          /\ x.stage = "start" \/ (x.stage = "frame" /\ x.seen # <<>> /\ x.decoded <= Upto(x.seen))
        BY <1>15 DEF Idled, Ready
    <2>2. /\ d.x \in DCtx /\ d.x.idle = IdleMax /\ d.x.stage = x.stage /\ d.x.seen = x.seen
          /\ d.x.decoded = x.decoded /\ d.x.total_out = x.total_out
        BY <1>1, <2>1, IdleMaxAssumption, SMTT(30) DEF DCtx
    <2>3. Standing(d.x, s, f, g)
        BY <1>1, <2>1, <2>2 DEF Standing, Framing, InFrame, b, from
    <2>4. Len(w) = 0 \/ m = 0
        BY <1>1, <1>15 DEF Idled
    <2>5. GivesUp(s, f, g, Len(w), m, d)
        BY <2>2, <2>3, <2>4 DEF GivesUp
    <2> QED BY <2>1, <2>2, <2>5 DEF Decompresses
<1>16. CASE /\ k - from = 0 \/ p[k].kind \notin {"last", "bad"}
            /\ ~d.error /\ d.outpos = out - x.total_out
            /\ d.pos = k - from /\ d.remaining = 1 /\ Holds(d.x, "frame", p, k, e, out)
    <2>1. p[k].kind \notin {"last", "bad"}
        <3>1. ASSUME k - from = 0
              PROVE  p[k].kind \notin {"last", "bad"}
            <4>1. k \in 1 .. from
                BY <1>1, <1>9, <3>1
            <4> QED BY <1>1, <1>4, <4>1 DEF Undone
        <3> QED BY <1>16, <3>1
    <2>2. f + d.pos = b + k /\ g + d.outpos = out /\ d.pos \in 0 .. Len(w) /\ d.outpos \in Nat
        BY <1>12, <1>16, <1>20, Zenon
    <2>3. AtHeader(s, b + k, out)
        BY <1>1, <1>10, <2>1, HeaderAfter
    <2>4. Framing(d.x, s, b + k, out)
        <3>1. \A i \in 1 .. k : p[i].kind \notin {"last", "bad"}
            <4>1. \A i \in 1 .. k : i = k \/ i \in 1 .. k - 1
                BY <1>9
            <4> QED BY <1>11, <2>1, <4>1
        <3>2. (b + k) - k = b
            BY <1>1, <1>9
        <3> QED BY <1>13, <1>16, <3>1, <3>2 DEF Framing, Undone
    <2>5. ASSUME Len(w) > 0, m > 0
          PROVE  d.pos + d.outpos > 0
        <3>1. ASSUME k = from
              PROVE  out = x.total_out + m
            <4>1. e > x.total_out + m
                BY <1>1, <1>3, <1>6, <2>5, <3>1
            <4> QED BY <1>20, <4>1
        <3>2. k - from \in Nat /\ (k - from = 0 => k = from)
            BY <1>1, <1>6, <1>9
        <3>3. CASE k - from = 0
            <4>1. d.outpos = m
                <5>1. out = x.total_out + m /\ x.total_out \in Nat
                    BY <1>1, <3>1, <3>2, <3>3
                <5> QED BY <1>16, <5>1
            <4> QED BY <1>16, <2>5, <3>3, <4>1
        <3>4. CASE k - from # 0
            BY <1>16, <2>2, <3>2, <3>4
        <3> QED BY <3>3, <3>4
    <2>6. d.x \in DCtx /\ d.x.stage = "frame"
        BY <1>13, <1>16
    <2>7. GoesOn(s, f, g, Len(w), m, d)
        BY <1>16, <2>2, <2>3, <2>4, <2>5, <2>6 DEF GoesOn, Standing
    <2> QED BY <1>16, <2>6, <2>7 DEF Decompresses
<1>17. CASE /\ k - from > 0 /\ p[k].kind = "last" /\ out < e
            /\ ~d.error /\ d.outpos = out - x.total_out
            /\ d.pos = k - from - 1 /\ d.remaining = 1 /\ Holds(d.x, "hostage", p, k, e, out)
    <2>1. k > 1
        <3>1. ASSUME k = 1
              PROVE  FALSE
            <4>1. from = 0 /\ x.seen = <<>>
                BY <1>1, <1>17, <3>1 DEF from
            <4>2. w # <<>> /\ w[1].kind = "hdr"
                BY <4>1 DEF Ready
            <4>3. p[1] = w[1]
                <5>1. 1 \in 1 .. Len(w) /\ b + 1 = f + 1
                    BY <1>1, <4>1, <4>2
                <5> QED BY <1>8, <1>9, <3>1, <5>1 DEF Offered
            <4> QED BY <1>17, <3>1, <4>2, <4>3
        <3> QED BY <1>9, <3>1
    <2>2. /\ f + d.pos = b + k - 1 /\ g + d.outpos = out
          /\ d.pos \in 0 .. Len(w) /\ d.outpos \in Nat
        <3>1. k \in Nat /\ from \in Nat /\ b \in Nat /\ Len(w) \in Nat
            BY <1>1, <1>9
        <3>2. f + d.pos = b + k - 1 /\ d.pos \in 0 .. Len(w)
            <4>1. d.pos = (k - from) - 1 /\ k - from > 0 /\ k - from \in 0 .. Len(w)
                BY <1>12, <1>17
            <4>2. f \in Nat /\ f + (k - from) = b + k
                BY <1>12
            <4> QED BY <3>1, <4>1, <4>2
        <3>3. g + d.outpos = out /\ d.outpos \in Nat
            BY <1>17, <1>20, Zenon
        <3> QED BY <3>2, <3>3
    <2>3. AtHeader(s, b + k - 1, out)
        <3>1. (b + k - 1) + 1 = b + k
            BY <1>1, <1>9
        <3> QED BY <1>10, <1>17, <3>1 DEF AtHeader
    <2>4. Holding(d.x, s, b + k - 1, out)
        <3>1. ((b + k - 1) + 1) - k = b
            BY <1>1, <1>9
        <3>2. \A i \in 1 .. k - 1 : d.x.seen[i].kind \notin {"last", "bad"}
            <4>1. \A i \in 1 .. k - 1 : i \in 1 .. k
                BY <1>9
            <4> QED BY <1>11, <1>13, <1>17, <4>1
        <3>3. d.x.seen[k].kind = "last" /\ d.x.decoded = Upto(d.x.seen)
            <4>1. k \in 1 .. k /\ e = p[k].upto
                BY <1>1, <1>6, <1>9, <1>17
            <4>2. d.x.seen[k] = p[k] /\ d.x.decoded = e /\ Upto(d.x.seen) = p[k].upto
                BY <1>13, <1>17, <4>1
            <4> QED BY <1>17, <4>1, <4>2, Zenon
        <3>4. Len(d.x.seen) = k /\ InFrame(d.x, s, out, b)
            BY <1>13, <1>17
        <3> DEFINE h == b + k - 1
        <3>5. InFrame(d.x, s, out, h + 1 - Len(d.x.seen))
            <4>a. b \in Nat /\ k \in Nat
                BY <1>1, <1>9
            <4>0. h + 1 - k = b
                BY <4>a
            <4> HIDE DEF h
            <4>1. h + 1 - Len(d.x.seen) = b
                BY <3>4, <4>0, Zenon
            <4> QED BY <3>4, <4>1, Zenon
        <3>6. Undone(d.x.seen, Len(d.x.seen) - 1)
            BY <3>2, <3>4 DEF Undone
        <3>7. d.x.seen[Len(d.x.seen)].kind = "last" /\ Len(d.x.seen) > 1
            BY <2>1, <3>3, <3>4
        <3> HIDE DEF h
        <3>8. Holding(d.x, s, h, out)
            BY <3>3, <3>5, <3>6, <3>7, Zenon DEF Holding
        <3> QED BY <3>8 DEF h
    <2>5. m > 0 => d.pos + d.outpos > 0
        <3>1. out = x.total_out + m /\ x.total_out \in Nat /\ d.outpos = out - x.total_out
            BY <1>1, <1>7, <1>17, Zenon
        <3> HIDE <1>17
        <3>2. d.outpos = m
            BY <3>1
        <3>3. d.pos \in 0 .. Len(w) /\ Len(w) \in Nat
            BY <1>1, <2>2, Zenon
        <3> QED BY <3>2, <3>3
    <2>6. d.x \in DCtx /\ d.x.stage = "hostage"
        BY <1>13, <1>17
    <2>7. GoesOn(s, f, g, Len(w), m, d)
        BY <1>17, <2>2, <2>3, <2>4, <2>5, <2>6 DEF GoesOn, Standing
    <2> QED BY <1>17, <2>6, <2>7 DEF Decompresses
<1>18. CASE /\ k - from > 0 /\ p[k].kind = "last" /\ out = e
            /\ ~d.error /\ d.outpos = out - x.total_out
            /\ d.pos = k - from /\ d.remaining = 0 /\ d.x = createDCtx
    <2>1. f + d.pos = b + k /\ g + d.outpos = out /\ d.pos \in 0 .. Len(w) /\ d.outpos \in Nat
        <3>1. f + d.pos = b + k /\ d.pos \in 0 .. Len(w)
            BY <1>12, <1>18
        <3>2. g + d.outpos = out /\ d.outpos \in Nat
            BY <1>18, <1>20, Zenon
        <3> QED BY <3>1, <3>2
    <2>2. out = Reached(s.w, b + k) /\ out = s.w[b + k].upto
        BY <1>1, <1>6, <1>9, <1>10, <1>18, SMTT(30)
    <2>3. AtHeader(s, b + k, out)
        BY <1>1, <1>10, <2>2, HeaderAfter
    <2>4. b + k \in Ends(s.c, s.w)
        BY <1>1, <1>10, <1>18, ZstdEnds
    <2>5. createDCtx \in DCtx
        BY IdleMaxAssumption DEF createDCtx, DCtx
    <2>6. GoesOn(s, f, g, Len(w), m, d)
        BY <1>18, <2>1, <2>2, <2>3, <2>4 DEF GoesOn
    <2> QED BY <1>18, <2>5, <2>6 DEF Decompresses
<1> QED BY <1>5, <1>14, <1>15, <1>16, <1>17, <1>18 DEF ReadOutcome, from

\* A call that finds the frame decoded writes on, and takes the last unit when
\* nothing is left.
LEMMA ReleaseDecompresses ==
    ASSUME NEW s, Streamed(s.c, s.w), NEW f \in Nat, NEW g \in Nat,
           NEW w, Offered(w, s, f), NEW m \in Nat,
           NEW x \in DCtx, x.stage = "hostage", Holding(x, s, f, g)
    PROVE  Decompresses(s, f, g, Len(w), m, Release(x, w, m))
<1> DEFINE out == Fitting(x, x.decoded, m)
           free == IF out = x.decoded /\ w # <<>> THEN 1 ELSE 0
           y == [x EXCEPT !.total_out = out]
           d == Release(x, w, m)
           l == Len(x.seen)
           b == f + 1 - Len(x.seen)
<1>1. /\ s.w \in Seq(Unit) /\ Sorted(s.w) /\ w \in Seq(Unit) /\ Len(w) \in Nat /\ l \in Nat
      /\ f + Len(w) <= Len(s.w) /\ Len(s.w) \in Nat
      /\ x.total_out \in Nat /\ x.decoded \in Nat /\ x.idle \in 0 .. IdleMax
    BY DEF Streamed, Offered, DCtx
<1>2. /\ l > 1 /\ s.c = "zstd" /\ PartOf(x.seen, s.w, b) /\ b \in Nat
      /\ g = x.total_out /\ x.total_out <= x.decoded /\ x.decoded = Upto(x.seen)
      /\ Undone(x.seen, l - 1) /\ x.seen[l].kind = "last"
    BY DEF Holding, InFrame, PartOf
<1>3. /\ f + 1 \in 1 .. Len(s.w) /\ s.w[f + 1] = x.seen[l]
      /\ s.w[f + 1].kind = "last" /\ x.decoded = s.w[f + 1].upto
    <2>0. f \in Nat /\ l \in Nat /\ l > 1
        BY <1>1, <1>2
    <2>1. b + l = f + 1 /\ l \in 1 .. l
        BY <2>0
    <2>2. b + l <= Len(s.w) /\ x.seen[l] = s.w[b + l]
        BY <1>2, <2>1 DEF PartOf
    <2>3. x.seen # <<>>
        BY <1>1, <1>2
    <2>4. Upto(x.seen) = x.seen[l].upto
        BY <2>3 DEF Upto
    <2>5. f + 1 \in 1 .. Len(s.w)
        BY <1>1, <2>1, <2>2
    <2> HIDE DEF l, b
    <2> QED BY <1>2, <2>1, <2>2, <2>4, <2>5
<1>4. /\ out \in Nat /\ x.total_out <= out /\ out <= x.decoded
      /\ out < x.decoded => out = x.total_out + m
    BY <1>1, <1>2 DEF Fitting
<1>5. free \in {0, 1} /\ (free = 1 => out = x.decoded /\ Len(w) > 0)
    BY <1>1
<1>6. Idled(x, w = <<>> \/ m = 0, d) \/ Moved(x, y, free, 1 - free, d)
    BY <1>1, StepCases DEF Release
<1>7. /\ y \in DCtx /\ y.stage = "hostage" /\ y.seen = x.seen /\ y.decoded = x.decoded
      /\ y.total_out = out
    BY <1>4 DEF DCtx
<1>8. free = 0 /\ Len(w) > 0 => out < x.decoded
    BY <1>1, <1>4
<1> HIDE DEF out, free, d, y
<1>9. CASE Idled(x, w = <<>> \/ m = 0, d)
    <2>1. /\ d.error /\ d.x \in DCtx /\ d.x.idle = IdleMax /\ d.x.stage = "hostage"
          /\ d.x.seen = x.seen /\ d.x.decoded = x.decoded /\ d.x.total_out = x.total_out
        BY <1>9, IdleMaxAssumption DEF Idled, DCtx
    <2>2. Holding(d.x, s, f, g)
        BY <2>1, Zenon DEF Holding, InFrame
    <2>3. Standing(d.x, s, f, g)
        BY <2>1, <2>2 DEF Standing
    <2>4. Len(w) = 0 \/ m = 0
        BY <1>1, <1>9 DEF Idled
    <2>5. GivesUp(s, f, g, Len(w), m, d)
        BY <2>1, <2>3, <2>4 DEF GivesUp
    <2> QED BY <2>1, <2>5 DEF Decompresses, d
<1>10. CASE Moved(x, y, free, 1 - free, d) /\ free = 0
    <2>1. PICK idle \in 0 .. IdleMax : d.x = [y EXCEPT !.idle = idle]
        BY <1>10 DEF Moved, After
    <2>2. ~d.error /\ d.pos = 0 /\ d.remaining = 1 /\ d.outpos = out - x.total_out
        BY <1>7, <1>10 DEF Moved
    <2>3. /\ d.x \in DCtx /\ d.x.stage = "hostage" /\ d.x.seen = x.seen
          /\ d.x.decoded = x.decoded /\ d.x.total_out = out
        BY <1>7, <2>1 DEF DCtx
    <2>4. f + d.pos = f /\ g + d.outpos = out /\ d.outpos \in Nat
        <3>1. x.total_out + (out - x.total_out) = out /\ out - x.total_out \in Nat
            BY <1>1, <1>4
        <3>2. f + 0 = f
            OBVIOUS
        <3> QED BY <1>2, <2>2, <3>1, <3>2, Zenon
    <2>5. Holding(d.x, s, f, out)
        BY <1>2, <1>4, <2>3 DEF Holding, InFrame
    <2>6. AtHeader(s, f, out)
        BY <1>3 DEF AtHeader
    <2>7. Len(w) > 0 /\ m > 0 => d.pos + d.outpos > 0
        BY <1>1, <1>4, <1>8, <1>10, <2>2
    <2>8. AtHeader(s, f + d.pos, g + d.outpos) /\ Standing(d.x, s, f + d.pos, g + d.outpos)
        <3>1. Standing(d.x, s, f, out)
            BY <2>3, <2>5 DEF Standing
        <3> QED BY <2>4, <2>6, <3>1, Zenon
    <2>9. d.pos \in 0 .. Len(w) /\ d.remaining \in {0, 1} /\ d.remaining # 0
        BY <1>1, <2>2
    <2>10. GoesOn(s, f, g, Len(w), m, d)
        BY <2>3, <2>4, <2>7, <2>8, <2>9, Zenon DEF GoesOn
    <2> QED BY <2>2, <2>3, <2>10 DEF Decompresses, d
<1>11. CASE Moved(x, y, free, 1 - free, d) /\ free = 1
    <2>1. ~d.error /\ d.pos = 1 /\ d.remaining = 0 /\ d.outpos = out - x.total_out
          /\ d.x = createDCtx
        BY <1>7, <1>11 DEF Moved, After
    <2>2. f + d.pos = f + 1 /\ g + d.outpos = out /\ d.outpos \in Nat
          /\ d.pos \in 0 .. Len(w)
        <3>1. x.total_out + (out - x.total_out) = out /\ out - x.total_out \in Nat
            BY <1>1, <1>4
        <3>2. 1 \in 0 .. Len(w)
            BY <1>1, <1>5, <1>11
        <3> QED BY <1>2, <2>1, <3>1, <3>2, Zenon
    <2>3. out = s.w[f + 1].upto /\ Reached(s.w, f + 1) = out
        <3>1. f + 1 \in 0 .. Len(s.w) /\ f + 1 # 0
            BY <1>3
        <3>2. Reached(s.w, f + 1) = s.w[f + 1].upto
            BY <1>1, <3>1, PrefixUpto DEF Reached
        <3> QED BY <1>3, <1>5, <1>11, <3>2
    <2>4. AtHeader(s, f + 1, out)
        BY <1>2, <1>3, <2>3, HeaderAfter
    <2>5. f + 1 \in Ends(s.c, s.w)
        BY <1>1, <1>2, <1>3, ZstdEnds
    <2>6. createDCtx \in DCtx
        BY IdleMaxAssumption DEF createDCtx, DCtx
    <2>7. /\ AtHeader(s, f + d.pos, g + d.outpos) /\ f + d.pos \in Ends(s.c, s.w)
          /\ g + d.outpos = Reached(s.w, f + d.pos)
        BY <2>2, <2>3, <2>4, <2>5, Zenon
    <2>8. d.remaining \in {0, 1} /\ d.remaining # 1
        BY <2>1
    <2>9. GoesOn(s, f, g, Len(w), m, d)
        BY <2>1, <2>2, <2>7, <2>8, Zenon DEF GoesOn
    <2> QED BY <2>1, <2>6, <2>9 DEF Decompresses, d
<1> QED BY <1>5, <1>6, <1>9, <1>10, <1>11


\* Before a frame there is nothing to do without bytes, and only a header will do.
Waits(x, n, d) ==
    /\ n = 0 /\ ~d.error /\ d.pos = 0 /\ d.outpos = 0 /\ d.remaining = 1 /\ d.x = x

Misplaced(x, s, f, n, d) ==
    /\ x.stage = "start" /\ n > 0 /\ (s.c # "zstd" \/ s.w[f + 1].kind # "hdr") /\ d = Failed(x)

ZstdPushed(x, s, f, g, n, m, d) ==
    \/ Decompresses(s, f, g, n, m, d) \/ Waits(x, n, d) \/ Misplaced(x, s, f, n, d)

LEMMA DecompressCases ==
    ASSUME NEW s, Streamed(s.c, s.w), NEW f \in Nat, NEW g \in Nat, AtHeader(s, f, g),
           NEW w, Offered(w, s, f), NEW m \in Nat,
           NEW x \in DCtx, x.stage # "bad", Standing(x, s, f, g),
           NEW d \in decompressStream(x, s.c, w, m)
    PROVE  ZstdPushed(x, s, f, g, Len(w), m, d)
<1>1. /\ s.w \in Seq(Unit) /\ w \in Seq(Unit) /\ Len(w) \in Nat /\ Len(s.w) \in Nat
      /\ f + Len(w) <= Len(s.w) /\ x.stage \in {"start", "frame", "hostage"}
    BY DEF Streamed, Offered, DCtx
<1>2. CASE x.stage = "hostage"
    <2>1. d = Release(x, w, m)
        BY <1>2 DEF decompressStream
    <2>2. Holding(x, s, f, g)
        BY <1>2 DEF Standing
    <2> QED BY <1>2, <2>1, <2>2, ReleaseDecompresses DEF ZstdPushed
<1>3. CASE x.stage = "frame"
    <2>1. d \in Reads(x, w, m)
        BY <1>3 DEF decompressStream
    <2>2. Framing(x, s, f, g)
        BY <1>3 DEF Standing
    <2>3. Ready(x, s, f, g, w)
        BY <1>3, <2>2 DEF Framing, InFrame, PartOf, Ready
    <2> QED BY <2>1, <2>3, ReadDecompresses DEF ZstdPushed
<1>4. CASE x.stage = "start" /\ w = <<>>
    BY <1>4 DEF decompressStream, ZstdPushed, Waits
<1>5. CASE x.stage = "start" /\ w # <<>>
    <2>1. Len(w) > 0 /\ 1 \in 1 .. Len(w) /\ f < Len(s.w) /\ w[1] = s.w[f + 1] /\ w[1] \in Unit
        <3>1. Len(w) > 0 /\ 1 \in 1 .. Len(w)
            BY <1>1, <1>5
        <3>2. w[1] = s.w[f + 1]
            BY <3>1 DEF Offered
        <3> QED BY <1>1, <3>1, <3>2
    <2>2. CASE s.c # "zstd" \/ w[1].kind # "hdr"
        <3>1. d = Failed(x)
            BY <1>5, <2>2 DEF decompressStream
        <3> QED BY <1>5, <2>1, <2>2, <3>1 DEF ZstdPushed, Misplaced
    <2>3. CASE s.c = "zstd" /\ w[1].kind = "hdr"
        <3> DEFINE y == Begin(w)
        <3>1. d \in Reads(y, w, m)
            BY <1>5, <2>3 DEF decompressStream
        <3>2. /\ y \in DCtx /\ y.stage = "start" /\ y.seen = <<>>
              /\ y.decoded = w[1].upto /\ y.total_out = w[1].upto /\ w[1].upto \in Nat
            <4> DEFINE u == w[1].upto
            <4>1. u \in Nat
                BY <2>1 DEF Unit
            <4>2. y = [createDCtx EXCEPT !.decoded = u, !.total_out = u]
                BY DEF Begin
            <4> HIDE DEF u, y
            <4>3. createDCtx \in DCtx
                BY IdleMaxAssumption DEF createDCtx, DCtx
            <4>4. /\ y \in DCtx /\ y.stage = "start" /\ y.seen = <<>>
                  /\ y.decoded = u /\ y.total_out = u
                BY <4>1, <4>2, <4>3 DEF createDCtx, DCtx
            <4> QED BY <4>1, <4>4 DEF u
        <3> HIDE DEF y
        <3>3. Len(y.seen) = 0 /\ f - Len(y.seen) = f
            <4>1. Len(y.seen) = 0 /\ f - 0 = f
                BY <3>2
            <4> QED BY <4>1
        <3>4. PartOf(y.seen, s.w, f)
            BY <1>1, <3>3 DEF PartOf
        <3>5. Undone(y.seen, Len(y.seen))
            BY <3>3 DEF Undone
        <3>6. g = w[1].upto
            BY <2>1, <2>3 DEF AtHeader
        <3>7. Ready(y, s, f, g, w)
            BY <1>5, <2>3, <3>2, <3>3, <3>4, <3>5, <3>6 DEF Ready
        <3> QED BY <3>1, <3>7, ReadDecompresses DEF ZstdPushed
    <2> QED BY <2>2, <2>3
<1> QED BY <1>1, <1>2, <1>3, <1>4, <1>5

LEMMA ZstdPush ==
    ASSUME Inv, Zstd, NEW n \in Nat, NEW out \in Spans(MaxOut), push(n, out)
    PROVE  \E d : /\ handle' = ZstdHandle(d.x) /\ Pushed(n, out, Sweep(d, n))
                  /\ ZstdPushed(handle.x, stream, fed, got, n, out.size, d)
<1> DEFINE w == SubSeq(stream.w, fed + 1, fed + n)
           x == handle.x
<1>1. /\ fed \in Nat /\ got \in Nat /\ stream.w \in Seq(Unit) /\ fed + n <= Len(stream.w)
      /\ Streamed(stream.c, stream.w) /\ x \in DCtx /\ x.stage # "bad"
      /\ ZstdInv(x, stream, fed, got, told) /\ out.size \in Nat
    BY HandleType, DecompressorAssumption DEF Inv, TypeOK, push, Streamed, Zstd, Spans
<1>2. Offered(w, stream, fed) /\ Len(w) = n
    <2>1. w \in Seq(Unit) /\ Len(w) = n /\ \A i \in 1 .. n : w[i] = stream.w[fed + i]
        BY <1>1
    <2> HIDE DEF w
    <2> QED BY <1>1, <2>1 DEF Offered
<1>3. PICK o \in push_visitor(handle, stream.c, w, out) :
          handle' = o.h /\ Pushed(n, out, o.r)
    BY DEF push, Pushed
<1>4. PICK q \in zstd_sweller_push_more(x, stream.c, w, out) :
          o = [h |-> ZstdHandle(q.x), r |-> q.r]
    BY <1>3 DEF push_visitor, Zstd
<1>5. PICK d \in decompressStream(x, stream.c, w, out.size) :
          q = [x |-> d.x, r |-> Sweep(d, Len(w))]
    BY <1>4, Zenon DEF zstd_sweller_push_more
<1> HIDE DEF w, x
<1>6. handle' = ZstdHandle(d.x) /\ Pushed(n, out, Sweep(d, n))
    BY <1>2, <1>3, <1>4, <1>5
<1>7. AtHeader(stream, fed, got) /\ Standing(x, stream, fed, got)
    BY <1>1 DEF ZstdInv, Standing
<1>8. ZstdPushed(x, stream, fed, got, n, out.size, d)
    BY <1>1, <1>2, <1>5, <1>7, DecompressCases
<1> QED BY <1>6, <1>8 DEF x

LEMMA ZstdKeepsInv ==
    ASSUME Inv, Zstd, NEW n \in Nat, NEW out \in Spans(MaxOut), push(n, out)
    PROVE  Inv' /\ Reports'
<1> DEFINE x == handle.x
<1>1. PICK d : /\ handle' = ZstdHandle(d.x) /\ Pushed(n, out, Sweep(d, n))
               /\ ZstdPushed(x, stream, fed, got, n, out.size, d)
    BY ZstdPush, Zenon
<1> DEFINE r == Sweep(d, n)
<1>2. /\ TypeOK /\ Streamed(stream.c, stream.w) /\ ZstdInv(x, stream, fed, got, told)
      /\ fed <= Len(stream.w) /\ stream.w \in Seq(Unit) /\ Len(stream.w) \in Nat
      /\ x \in DCtx /\ x.stage # "bad" /\ fed + n <= Len(stream.w)
    BY HandleType DEF Inv, Streamed, TypeOK, push, Zstd
<1>3. out.size \in Nat /\ out \in AnySpan /\ uInt(n) \in Nat /\ uInt(n) <= n
      /\ uInt(out.size) \in Nat /\ uInt(out.size) <= out.size
    BY DecompressorAssumption, uIntBelow DEF Spans, AnySpan
<1>4. fed \in Nat /\ got \in Nat /\ told \subseteq {"done", "corrupt"}
      /\ fmt \in Formats \cup {"none"} /\ stream \in [c : Formats \cup {"none"}, w : Seq(Unit)]
    BY <1>2 DEF TypeOK
<1>5. /\ fed' = fed + r.in /\ got' = got + r.out /\ told' = told \cup News(out, r)
      /\ last' = [op |-> "push", n |-> n, out |-> out, r |-> r]
      /\ fmt' = fmt /\ stream' = stream
    BY <1>1 DEF Pushed
<1>6. handle'.x = d.x /\ Zstd' /\ ~Zlib' /\ (d.x \in DCtx => handle' \in AnyHandle)
    BY <1>1, Alternatives DEF Zlib, Zstd
<1>7. ASSUME d.x \in DCtx, r \in Result, fed' \in Nat, fed' <= Len(stream.w), got' \in Nat,
             told' \subseteq {"done", "corrupt"}, ZstdInv(d.x, stream, fed', got', told')
      PROVE  Inv'
    <2>1. last' \in [op : {"none", "construct", "push"}, n : Nat, out : AnySpan, r : Result]
        BY <1>3, <1>5, <1>7
    <2>2. TypeOK'
        BY <1>4, <1>5, <1>6, <1>7, <2>1 DEF TypeOK
    <2> QED BY <1>2, <1>5, <1>6, <1>7, <2>2 DEF Inv
<1> HIDE DEF x, r
<1>8. CASE d.error \/ (d.remaining = 0 /\ d.pos < n)
    <2>1. r.kind = "stream_corrupt" /\ r.in = 0 /\ r.out = 0 /\ r \in Result
        BY <1>8 DEF r, Sweep, Unexpected, Result, Kinds
    <2>2. News(out, r) = {"corrupt"}
        BY <2>1 DEF News, Refusable, Zstd
    <2>3. fed' = fed /\ got' = got /\ told' = told \cup {"corrupt"}
        BY <1>4, <1>5, <2>1, <2>2
    <2>4. Reports'
        <3>1. ~Ok'
            BY <1>5, <2>1 DEF Ok
        <3> QED BY <3>1 DEF Reports, AllOut, DoneAtEnd, PushProgress
    <2>5. d.x \in DCtx /\ Standing(d.x, stream, fed, got)
        <3>1. CASE Decompresses(stream, fed, got, n, out.size, d)
            <4>1. CASE d.error
                BY <3>1, <4>1 DEF Decompresses, GivesUp
            <4>2. CASE ~d.error
                <5>1. d.x = createDCtx /\ d.x \in DCtx
                    BY <1>8, <3>1, <4>2 DEF Decompresses, GoesOn
                <5> QED BY <5>1 DEF Standing, createDCtx
            <4> QED BY <4>1, <4>2
        <3>2. CASE Waits(x, n, d)
            BY <1>8, <3>2 DEF Waits
        <3>3. CASE Misplaced(x, stream, fed, n, d)
            <4>1. d.x = [x EXCEPT !.stage = "bad"]
                BY <3>3 DEF Misplaced, Failed
            <4> QED BY <1>2, <4>1 DEF DCtx, Standing
        <3> QED BY <1>1, <3>1, <3>2, <3>3 DEF ZstdPushed
    <2>6. ZstdInv(d.x, stream, fed', got', told')
        BY <1>2, <2>3, <2>5 DEF ZstdInv, Standing
    <2> QED BY <1>2, <1>4, <1>7, <2>1, <2>3, <2>4, <2>5, <2>6
<1>9. CASE ~(d.error \/ (d.remaining = 0 /\ d.pos < n))
    <2>1. r = Progress(d.pos, d.outpos, d.remaining = 0)
        BY <1>9 DEF r, Sweep
    <2>2. /\ r.kind = "ok" /\ r.in = d.pos /\ r.out = d.outpos /\ r.done = (d.remaining = 0)
        BY <2>1 DEF Progress
    <2>3. /\ fed' = fed + d.pos /\ got' = got + d.outpos
          /\ told' = told \cup (IF d.remaining = 0 THEN {"done"} ELSE {})
          /\ told' \subseteq {"done", "corrupt"}
        BY <1>4, <1>5, <2>2 DEF News
    <2>4. AllOut'
        BY <1>6 DEF AllOut
    <2>5. CASE Decompresses(stream, fed, got, n, out.size, d)
        <3>1. /\ d.x \in DCtx /\ d.pos \in 0 .. n /\ d.outpos \in Nat
              /\ AtHeader(stream, fed + d.pos, got + d.outpos) /\ d.remaining \in {0, 1}
              /\ d.remaining = 0 =>
                    /\ d.x = createDCtx /\ fed + d.pos \in Ends(stream.c, stream.w)
                    /\ got + d.outpos = Reached(stream.w, fed + d.pos)
              /\ d.remaining = 1 =>
                    /\ d.x.stage \in {"frame", "hostage"}
                    /\ Standing(d.x, stream, fed + d.pos, got + d.outpos)
                    /\ n > 0 /\ out.size > 0 => d.pos + d.outpos > 0
            BY <1>9, <2>5 DEF Decompresses, GoesOn
        <3>2. r \in Result
            BY <2>1, <3>1 DEF Progress, Result, Kinds
        <3>3. fed' \in Nat /\ got' \in Nat /\ fed' <= Len(stream.w)
            BY <1>2, <1>4, <2>3, <3>1
        <3>4. ZstdInv(d.x, stream, fed', got', told')
            <4>1. AtHeader(stream, fed', got')
                BY <2>3, <3>1
            <4>2. CASE d.remaining = 0
                <5>1. d.x.stage = "start"
                    BY <3>1, <4>2 DEF createDCtx
                <5>2. Between(stream, fed', got', told')
                    BY <2>3, <3>1, <4>2 DEF Between
                <5> QED BY <4>1, <5>1, <5>2 DEF ZstdInv
            <4>3. CASE d.remaining = 1
                <5>1. d.x.stage \in {"frame", "hostage"} /\ Standing(d.x, stream, fed', got')
                    BY <2>3, <3>1, <4>3
                <5> QED BY <4>1, <5>1 DEF ZstdInv, Standing
            <4> QED BY <3>1, <4>2, <4>3
        <3>5. Inv'
            BY <1>7, <2>3, <3>1, <3>2, <3>3, <3>4
        <3>6. DoneAtEnd'
            BY <1>5, <2>2, <2>3, <3>1 DEF DoneAtEnd
        <3>7. PushProgress'
            <4> SUFFICES ASSUME uInt(n) > 0, uInt(out.size) > 0, ~r.done
                         PROVE  r.in + r.out > 0
                BY <1>5 DEF PushProgress, Ok
            <4>1. n > 0 /\ out.size > 0
                <5>1. n \in Nat /\ out.size \in Nat
                    BY <1>3
                <5> QED BY <1>3, <5>1
            <4>2. d.remaining # 0
                BY <2>2, Zenon
            <4>3. d.pos + d.outpos > 0
                BY <3>1, <4>1, <4>2
            <4> QED BY <2>2, <4>3, Zenon
        <3> QED BY <2>4, <3>5, <3>6, <3>7 DEF Reports
    <2>6. CASE Waits(x, n, d)
        <3>1. n = 0 /\ d.pos = 0 /\ d.outpos = 0 /\ d.remaining = 1 /\ d.x = x
            BY <2>6 DEF Waits
        <3>2. r \in Result
            BY <2>1, <3>1 DEF Progress, Result, Kinds
        <3>3. fed' = fed /\ got' = got /\ told' = told
            BY <1>4, <2>3, <3>1
        <3>4. Inv'
            BY <1>2, <1>4, <1>7, <3>1, <3>2, <3>3
        <3>5. ~r.done /\ ~(uInt(n) > 0)
            <4>1. d.remaining # 0
                BY <3>1
            <4>2. ~(uInt(n) > 0)
                <5>1. uInt(n) \in Nat /\ uInt(n) <= 0
                    BY <1>3, <3>1
                <5> QED BY <5>1
            <4> QED BY <2>2, <4>1, <4>2, Zenon
        <3>6. DoneAtEnd' /\ PushProgress'
            BY <1>5, <3>5 DEF DoneAtEnd, PushProgress
        <3> QED BY <2>4, <3>4, <3>6 DEF Reports
    <2>7. CASE Misplaced(x, stream, fed, n, d)
        BY <1>9, <2>7 DEF Misplaced, Failed
    <2> QED BY <1>1, <2>5, <2>6, <2>7 DEF ZstdPushed
<1> QED BY <1>8, <1>9

\* A decompressor of a format that is not compiled in does nothing.
LEMMA StubKeepsInv ==
    ASSUME Inv, ~Zlib, ~Zstd, NEW n \in Nat, NEW out \in Spans(MaxOut), push(n, out)
    PROVE  Inv' /\ Reports' /\ last'.r.kind = "format_mismatch"
<1> DEFINE r == Unexpected("format_mismatch")
<1>1. handle' = handle /\ Pushed(n, out, r)
    <2>1. push_visitor(handle, stream.c, SubSeq(stream.w, fed + 1, fed + n), out)
              = {[h |-> handle, r |-> r]}
        BY DEF push_visitor, Zlib, Zstd
    <2> QED BY <2>1 DEF push, Pushed
<1>2. r.kind = "format_mismatch" /\ r.in = 0 /\ r.out = 0 /\ r \in Result
    BY DEF Unexpected, Result, Kinds
<1> HIDE DEF r
<1>3. /\ last' = [op |-> "push", n |-> n, out |-> out, r |-> r]
      /\ fed' = fed /\ got' = got /\ told' = told /\ fmt' = fmt /\ stream' = stream
    BY <1>1, <1>2 DEF Pushed, News, Inv, TypeOK
<1>4. last' \in [op : {"none", "construct", "push"}, n : Nat, out : AnySpan, r : Result]
    BY <1>2, <1>3, DecompressorAssumption DEF Spans, AnySpan
<1>5. Inv'
    BY <1>1, <1>3, <1>4 DEF Inv, TypeOK, Zlib, Zstd
<1>6. ~Ok'
    BY <1>2, <1>3 DEF Ok
<1> QED BY <1>2, <1>3, <1>5, <1>6 DEF Reports, AllOut, DoneAtEnd, PushProgress

LEMMA DestroyKeepsInv ==
    ASSUME Inv, Destroy
    PROVE  Inv' /\ Reports'
<1>1. Init'
    BY DEF Destroy, Init
<1>2. Inv'
    BY <1>1, InitInv, PTL
<1>3. ~Ok'
    BY DEF Destroy, NoCall, Ok
<1> QED BY <1>2, <1>3 DEF Reports, AllOut, DoneAtEnd, PushProgress

LEMMA InitReports == Init => Reports
BY DEF Init, NoCall, Ok, Reports, AllOut, DoneAtEnd, PushProgress

LEMMA NextKeepsInv == Inv /\ Reports /\ [Next]_vars => Inv' /\ Reports'
<1> SUFFICES ASSUME Inv, Reports, [Next]_vars
             PROVE  Inv' /\ Reports'
    OBVIOUS
<1>1. ASSUME NEW f \in Readers, NEW c \in Arriving, Construct(f, c)
      PROVE  Inv' /\ Reports'
    <2>1. ~Ok'
        BY <1>1 DEF Construct, NoCall, Ok
    <2> QED BY <1>1, <2>1, ConstructKeepsInv DEF Reports, AllOut, DoneAtEnd, PushProgress
<1>2. ASSUME NEW n \in 0 .. MaxIn, NEW out \in Spans(MaxOut), push(n, out)
      PROVE  Inv' /\ Reports'
    <2>1. n \in Nat
        BY DecompressorAssumption
    <2> QED BY <1>2, <2>1, ZlibKeepsInv, ZstdKeepsInv, StubKeepsInv
<1>3. CASE Destroy
    BY <1>3, DestroyKeepsInv
<1>4. CASE UNCHANGED vars
    <2>1. Inv'
        BY <1>4 DEF vars, Inv, TypeOK, Zlib, Zstd
    <2>2. Reports'
        BY <1>4 DEF vars, Reports, AllOut, DoneAtEnd, PushProgress, Zlib, Ok, RoomLeft
    <2> QED BY <2>1, <2>2
<1> QED BY <1>1, <1>2, <1>3, <1>4 DEF Next
-----------------------------------------------------------------------------
\* The symbols that a frame's context has written are in the units it has read.
LEMMA SeenReached ==
    ASSUME NEW x \in DCtx, NEW s, s.w \in Seq(Unit), NEW k \in Nat, NEW g \in Nat,
           x.seen # <<>>, InFrame(x, s, g, k - Len(x.seen))
    PROVE  k <= Len(s.w) /\ g <= Reached(s.w, k)
<1> DEFINE l == Len(x.seen)
           b == k - Len(x.seen)
<1>1. l \in Nat /\ l > 0 /\ b + l = k /\ l \in 1 .. l /\ Len(s.w) \in Nat
    BY DEF DCtx
<1>2. /\ b + l <= Len(s.w) /\ x.seen[l] = s.w[b + l] /\ g <= x.decoded
      /\ x.decoded <= Upto(x.seen) /\ Upto(x.seen) = x.seen[l].upto
      /\ x.decoded \in Nat
    BY <1>1 DEF InFrame, PartOf, Upto, DCtx
<1> HIDE DEF l, b
<1>3. k \in 0 .. Len(s.w) /\ k # 0 /\ k \in 1 .. Len(s.w)
    <2>1. b \in Nat
        BY DEF InFrame, PartOf, b
    <2> QED BY <1>1, <1>2, <2>1
<1>4. Reached(s.w, k) = s.w[k].upto
    BY <1>3, PrefixUpto DEF Reached
<1>5. s.w[k].upto \in Nat /\ Upto(x.seen) = s.w[k].upto
    <2>1. s.w[k] \in Unit
        BY <1>3
    <2>2. Upto(x.seen) = s.w[k].upto
        BY <1>1, <1>2, Zenon
    <2> QED BY <2>1, <2>2 DEF Unit
<1> QED BY <1>2, <1>3, <1>4, <1>5

\* The invariant in the words of the properties.
LEMMA InvDelivers ==
    ASSUME Inv, AllOut
    PROVE  DeliversWhatItConsumed
<1> SUFFICES ASSUME "corrupt" \notin told
             PROVE  /\ fed <= Len(stream.w)
                    /\ got <= Content(IF Zstd /\ fed < Len(stream.w) THEN fed + 1 ELSE fed)
                    /\ Zlib /\ Ok /\ RoomLeft => got = Content(fed)
    BY DEF DeliversWhatItConsumed
<1>1. /\ stream.w \in Seq(Unit) /\ Sorted(stream.w) /\ Len(stream.w) \in Nat
      /\ fed \in Nat /\ got \in Nat /\ fed <= Len(stream.w)
    BY DEF Inv, TypeOK, Streamed
<1>2. \A k : Content(k) = Reached(stream.w, k)
    BY DEF Content, Reached
<1>3. CASE Zlib
    <2>1. Inflating(handle.z, stream, fed, got) /\ ~Zstd
        BY <1>3, HandleType DEF Inv, TypeOK, ZlibInv
    <2>2. got <= Reached(stream.w, fed)
        BY <2>1 DEF Inflating
    <2> QED BY <1>1, <1>2, <1>3, <2>1, <2>2 DEF AllOut
<1>4. CASE Zstd
    <2> DEFINE x == handle.x
               k == IF fed < Len(stream.w) THEN fed + 1 ELSE fed
    <2>1. ~Zlib /\ x \in DCtx /\ ZstdInv(x, stream, fed, got, told) /\ x.stage # "bad"
        BY <1>4, HandleType DEF Inv, TypeOK, ZstdInv
    <2>2. k \in 0 .. Len(stream.w) /\ fed \in 0 .. k /\ fed \in 0 .. Len(stream.w)
        BY <1>1
    <2>3. /\ Reached(stream.w, fed) \in Nat /\ Reached(stream.w, k) \in Nat
          /\ Reached(stream.w, fed) <= Reached(stream.w, k)
        BY <1>1, <2>2, ReachedType
    <2> HIDE DEF x
    <2>4. got <= Reached(stream.w, k)
        <3>1. CASE x.stage = "start"
            BY <1>1, <2>1, <2>3, <3>1 DEF ZstdInv, Between
        <3>2. CASE x.stage = "frame"
            <4>1. Framing(x, stream, fed, got)
                BY <2>1, <3>2 DEF ZstdInv
            <4>2. got <= Reached(stream.w, fed)
                BY <1>1, <2>1, <2>2, <4>1, SeenReached DEF Framing
            <4> QED BY <1>1, <2>3, <4>2
        <3>3. CASE x.stage = "hostage"
            <4>1. Holding(x, stream, fed, got)
                BY <2>1, <3>3 DEF ZstdInv
            <4>2. fed + 1 <= Len(stream.w) /\ got <= Reached(stream.w, fed + 1)
                <5> DEFINE h == fed + 1
                <5>1. h \in Nat /\ x.seen # <<>> /\ InFrame(x, stream, got, h - Len(x.seen))
                    <6>1. InFrame(x, stream, got, h - Len(x.seen))
                        <7>1. InFrame(x, stream, got, fed + 1 - Len(x.seen))
                            BY <4>1 DEF Holding
                        <7>2. h - Len(x.seen) = fed + 1 - Len(x.seen)
                            BY <1>1, <2>1 DEF DCtx
                        <7> HIDE DEF h
                        <7> QED BY <7>1, <7>2, Zenon
                    <6>2. x.seen # <<>>
                        BY <4>1 DEF Holding
                    <6>3. h \in Nat
                        BY <1>1
                    <6> QED BY <6>1, <6>2, <6>3, Zenon
                <5> HIDE DEF h
                <5>2. h <= Len(stream.w) /\ got <= Reached(stream.w, h)
                    BY <1>1, <2>1, <5>1, SeenReached
                <5> QED BY <5>2 DEF h
            <4>3. k = fed + 1
                BY <1>1, <4>2
            <4> QED BY <4>2, <4>3, Zenon
        <3> QED BY <2>1, <3>1, <3>2, <3>3 DEF DCtx
    <2> QED BY <1>1, <1>2, <1>4, <2>1, <2>4
<1>5. CASE ~Zlib /\ ~Zstd
    <2>1. fed = 0 /\ got = 0 /\ Reached(stream.w, 0) = 0
        BY <1>1, <1>5, PrefixUpto DEF Inv, Reached
    <2> QED BY <1>1, <1>2, <1>5, <2>1
<1> QED BY <1>3, <1>4, <1>5

LEMMA InvTells ==
    ASSUME Inv, fed \in StreamEnds, got = Content(fed), "corrupt" \notin told
    PROVE  "done" \in told
<1>1. /\ stream.w \in Seq(Unit) /\ Sorted(stream.w) /\ fed \in Nat /\ fed <= Len(stream.w)
      /\ fed \in Ends(stream.c, stream.w) /\ got = Reached(stream.w, fed)
    BY DEF Inv, TypeOK, Streamed, StreamEnds, Content, Reached
<1>2. fed > 0
    BY <1>1, TailLenType DEF Ends
<1>3. CASE Zlib
    <2>1. /\ Inflating(handle.z, stream, fed, got) /\ handle.z \in InflateStream
          /\ handle.z.status # "BAD" /\ ("done" \in told <=> handle.z.status = "DONE")
        BY <1>3, HandleType DEF Inv, TypeOK, ZlibInv
    <2>2. handle.z.status # "OK"
        BY <1>1, <2>1 DEF Inflating, Unended
    <2> QED BY <2>1, <2>2 DEF InflateStream
<1>4. CASE Zstd
    <2> DEFINE x == handle.x
    <2>1. x \in DCtx /\ ZstdInv(x, stream, fed, got, told) /\ x.stage # "bad"
        BY <1>4, HandleType DEF Inv, TypeOK, ZstdInv
    <2> HIDE DEF x
    <2>2. CASE x.stage = "start"
        BY <1>2, <2>1, <2>2 DEF ZstdInv, Between
    <2>3. stream.c = "zstd" => fed \in 1 .. Len(stream.w) /\ stream.w[fed].kind = "last"
        BY <1>1, ZstdEnds
    <2>4. CASE x.stage = "frame" \/ x.stage = "hostage"
        <3> DEFINE l == Len(x.seen)
                   h == IF x.stage = "frame" THEN fed ELSE fed + 1
                   b == h - Len(x.seen)
                   i == fed - b
        <3>1. /\ stream.c = "zstd" /\ PartOf(x.seen, stream.w, b) /\ l \in Nat /\ l > 0
              /\ x.stage = "hostage" => l > 1 /\ Undone(x.seen, l - 1)
              /\ x.stage = "frame" => Undone(x.seen, l)
            BY <1>1, <2>1, <2>4 DEF ZstdInv, Framing, Holding, InFrame, DCtx
        <3>2. h \in Nat /\ h = (IF x.stage = "frame" THEN fed ELSE fed + 1) /\ b = h - l
            BY <1>1
        <3> HIDE DEF l, h, b
        <3>3. b + i = fed /\ i = (IF x.stage = "frame" THEN l ELSE l - 1)
            BY <1>1, <3>1, <3>2
        <3> HIDE DEF i
        <3>4. i \in 1 .. l /\ x.seen[i].kind # "last"
            BY <2>4, <3>1, <3>3 DEF Undone
        <3>5. x.seen[i] = stream.w[fed]
            BY <3>1, <3>3, <3>4 DEF PartOf, l
        <3> QED BY <2>3, <3>1, <3>4, <3>5
    <2> QED BY <2>1, <2>2, <2>4 DEF DCtx
<1>5. CASE ~Zlib /\ ~Zstd
    BY <1>2, <1>5 DEF Inv
<1> QED BY <1>3, <1>4, <1>5
\* A push after the end or an error of a zlib stream moves nothing, and after
\* an error it fails.
LEMMA NothingAfter ==
    ASSUME Inv, NEW n \in Nat, NEW out \in Spans(MaxOut), push(n, out), Zlib, told # {}
    PROVE  /\ fed' = fed /\ got' = got
           /\ "corrupt" \in told => last'.r.kind = "stream_corrupt"
<1> DEFINE z == handle.z
<1>1. PICK y, r : /\ Pushed(n, out, r) /\ (z.status # "OK" => y = z)
                  /\ ZlibPushed(n, out, z, y, r)
    BY ZlibPush, Zenon
<1>2. /\ fed \in Nat /\ got \in Nat /\ z \in InflateStream /\ told \subseteq {"done", "corrupt"}
      /\ ZlibInv(z, stream, fed, got, told)
    BY HandleType DEF Inv, TypeOK
<1> HIDE DEF z
<1>3. z.status # "OK" /\ y = z /\ ("corrupt" \in told <=> z.status = "BAD")
    BY <1>1, <1>2 DEF ZlibInv
<1>4. fed' = fed + r.in /\ got' = got + r.out /\ last'.r = r
    BY <1>1 DEF Pushed
<1>5. CASE Refused(r)
    <2>1. r.in = 0 /\ r.out = 0 /\ r.kind = "stream_corrupt"
        BY <1>5 DEF Refused, Unexpected
    <2> QED BY <1>2, <1>4, <2>1
<1>6. CASE /\ z.status # "BAD"
           /\ r = Progress(Len(y.seen) - fed, y.total_out - got, y.status = "DONE")
    <2>1. fed = Len(y.seen) /\ got = y.total_out
        BY <1>2, <1>3, <1>6 DEF ZlibInv, Inflating
    <2>2. r.in = 0 /\ r.out = 0
        <3>1. r.in = Len(y.seen) - fed /\ r.out = y.total_out - got
            BY <1>6 DEF Progress
        <3>2. fed - fed = 0 /\ got - got = 0
            BY <1>2
        <3> QED BY <2>1, <3>1, <3>2, Zenon
    <2> QED BY <1>2, <1>3, <1>4, <1>6, <2>2
<1> QED BY <1>1, <1>5, <1>6 DEF ZlibPushed

\* A push that fails while the units up to its last are sound: a zstd context
\* that was given too many calls that move nothing.
LEMMA OnlyIdling ==
    ASSUME Inv, NEW n \in Nat, NEW out \in Spans(MaxOut), push(n, out),
           last'.r.kind # "ok", ~Refusable(last'.out), "corrupt" \notin told, Sound(fed, last'.n)
    PROVE  Zstd /\ handle'.x.idle = IdleMax /\ (n = 0 \/ out.size = 0)
<1>1. /\ fed \in Nat /\ stream.w \in Seq(Unit) /\ Len(stream.w) \in Nat
      /\ Streamed(stream.c, stream.w) /\ (Zlib \/ Zstd)
    BY DEF Inv, TypeOK, Streamed, Sound, Zlib, Zstd
<1>2. last'.n = n /\ last'.out = out
    BY DEF push
<1>3. /\ stream.c = (IF Zlib THEN handle.z.fmt ELSE "zstd")
      /\ \A i \in 1 .. fed + n : stream.w[i].kind # "bad" /\ (i \in StreamEnds => i = fed + n)
    BY <1>2, Zenon DEF Sound
<1>4. CASE Zlib
    <2> DEFINE z == handle.z
    <2>1. PICK y, r : Pushed(n, out, r) /\ ZlibPushed(n, out, z, y, r)
        BY <1>4, ZlibPush, Zenon
    <2>2. r.kind # "ok" /\ out.data # "null"
        BY <1>2, <1>4, <2>1 DEF Pushed, Refusable, Zlib
    <2>3. z.status = "BAD" \/ Spoiled(z.fmt, stream, fed + uInt(n))
        BY <2>1, <2>2 DEF ZlibPushed, Progress
    <2>4. z.status # "BAD"
        BY <1>4 DEF Inv, ZlibInv
    <2>5. \A i \in 1 .. fed + uInt(n) : i \in 1 .. fed + n
        BY <1>1, uIntBelow
    <2> QED BY <1>3, <1>4, <2>3, <2>4, <2>5 DEF Spoiled
<1>5. CASE Zstd /\ ~Zlib
    <2> DEFINE x == handle.x
    <2>1. PICK d : /\ handle' = ZstdHandle(d.x) /\ Pushed(n, out, Sweep(d, n))
                   /\ ZstdPushed(x, stream, fed, got, n, out.size, d)
        BY <1>5, ZstdPush, Zenon
    <2>2. ZstdInv(x, stream, fed, got, told) /\ stream.c = "zstd" /\ fed + n <= Len(stream.w)
        <3>1. fed + n <= Len(stream.w)
            BY <1>1 DEF push
        <3>2. ZstdInv(x, stream, fed, got, told)
            BY <1>5 DEF Inv
        <3>3. stream.c = "zstd"
            BY <1>3, <1>5, Zenon
        <3> QED BY <3>1, <3>2, <3>3
    <2> HIDE DEF x
    <2>3. d.error \/ (d.remaining = 0 /\ d.pos < n)
        <3>1. Sweep(d, n).kind # "ok"
            BY <1>2, <2>1 DEF Pushed
        <3> QED BY <3>1 DEF Sweep, Progress
    <2>4. handle'.x = d.x
        BY <2>1, Alternatives
    <2>5. CASE Decompresses(stream, fed, got, n, out.size, d)
        <3>1. CASE d.error
            <4>1. ~Spoiled("zstd", stream, fed + n)
                BY <1>3, <2>2 DEF Spoiled
            <4> QED BY <1>5, <2>4, <2>5, <3>1, <4>1 DEF Decompresses, GivesUp
        <3>2. CASE ~d.error
            <4>1. d.pos \in Nat /\ d.pos < n /\ fed + d.pos \in Ends(stream.c, stream.w)
                BY <2>3, <2>5, <3>2 DEF Decompresses, GoesOn
            <4>2. fed + d.pos \in 1 .. Len(stream.w)
                BY <1>1, <2>2, <4>1, ZstdEnds
            <4>3. fed + d.pos \in 1 .. fed + n /\ fed + d.pos # fed + n
                BY <1>1, <4>1, <4>2
            <4> QED BY <1>3, <4>1, <4>3 DEF StreamEnds
        <3> QED BY <3>1, <3>2
    <2>6. CASE Waits(x, n, d)
        BY <2>3, <2>6 DEF Waits
    <2>7. CASE Misplaced(x, stream, fed, n, d)
        <3>1. x.stage = "start" /\ n > 0 /\ stream.w[fed + 1].kind # "hdr"
            BY <2>2, <2>7 DEF Misplaced
        <3>2. fed = 0 \/ fed \in Ends(stream.c, stream.w)
            BY <2>2, <3>1 DEF ZstdInv, Between
        <3>3. fed + 1 \in 1 .. fed + n /\ fed + 1 \in 1 .. Len(stream.w)
            BY <1>1, <2>2, <3>1
        <3>4. CASE fed = 0
            <4>1. 1 \in 1 .. Len(stream.w) /\ stream.w[1].kind # "hdr" /\ 1 \in 1 .. fed + n
                BY <3>1, <3>3, <3>4
            <4>2. stream.w[1].kind \in {"hdr", "bad"}
                BY <1>1, <2>2, <4>1 DEF Streamed, Framed
            <4> QED BY <1>3, <4>1, <4>2
        <3>5. CASE fed \in Ends(stream.c, stream.w)
            <4>1. fed \in 1 .. Len(stream.w)
                BY <1>1, <2>2, <3>5, ZstdEnds
            <4>2. fed \in 1 .. fed + n /\ fed # fed + n
                BY <1>1, <3>1, <4>1
            <4> QED BY <1>3, <3>5, <4>2 DEF StreamEnds
        <3> QED BY <3>2, <3>4, <3>5
    <2> QED BY <2>1, <2>5, <2>6, <2>7 DEF ZstdPushed
<1> QED BY <1>1, <1>4, <1>5
-----------------------------------------------------------------------------
LEMMA InvHolds == Spec => [](Inv /\ Reports)
BY InitInv, InitReports, NextKeepsInv, PTL DEF Spec

\* However long the streams and the portions: the object's handle and what the
\* caller was told are what their declarations say (decompressor::push and
\* sweller_variant).
THEOREM DecompressorTypeCorrect == Spec => []TypeOK
<1>1. Inv => TypeOK
    BY DEF Inv
<1> QED BY <1>1, InvHolds, PTL

\* A caller never holds more symbols than the bytes it was told were consumed
\* have, nor was it told of bytes it does not have; and a zlib push that leaves
\* room has delivered all of them (bytes_consumed and bytes_produced of
\* zlib_sweller::push_more and zstd_sweller::push_more).
THEOREM DeliveredIsConsumed == Spec => []DeliversWhatItConsumed
<1>1. Inv /\ Reports => DeliversWhatItConsumed
    BY InvDelivers DEF Reports
<1> QED BY <1>1, InvHolds, PTL

\* done is reported exactly where a stream ends, with all of its symbols out
\* (Z_STREAM_END, and ret == 0 of ZSTD_decompressStream).
THEOREM DoneIsNeverEarly == Spec => []DoneMeansDelivered
<1>1. Inv /\ Reports => DoneMeansDelivered
    BY DEF Reports, DoneAtEnd, DoneMeansDelivered, StreamEnds, Content, Reached
<1> QED BY <1>1, InvHolds, PTL

\* A caller that has consumed a stream and holds its symbols was told of the end
\* (done of stream_result, which ends a caller's loop).
THEOREM DoneIsNeverMissed == Spec => []EndIsTold
<1>1. Inv => EndIsTold
    BY InvTells DEF EndIsTold
<1> QED BY <1>1, InvHolds, PTL

\* No push of some bytes into some room succeeds, short of the end, without
\* moving a byte or a symbol, also where ZSTD_decompressStream hands its last
\* byte back and where z_stream's sizes are 32 bits wide: a caller's loop cannot
\* spin.
THEOREM PushesGetSomewhere == Spec => []PushProgress
<1>1. Reports => PushProgress
    BY DEF Reports
<1> QED BY <1>1, InvHolds, PTL

\* However long the stream and whatever pushes are made: nothing of what
\* follows the end of a zlib, gzip or raw deflate stream is consumed or
\* produced, and a decompressor that has reported the stream corrupt goes on
\* failing (zlib_sweller::push_more).
THEOREM EndsAndErrorsHoldForGood == Spec => EndsAndErrorsStay
<1> DEFINE Stays == Zlib /\ told # {} /\ last'.op = "push" =>
                        /\ fed' = fed /\ got' = got
                        /\ "corrupt" \in told => last'.r.kind = "stream_corrupt"
<1>1. Inv /\ [Next]_vars => [Stays]_vars
    <2> SUFFICES ASSUME Inv, Next, Zlib, told # {}, last'.op = "push"
                 PROVE  /\ fed' = fed /\ got' = got
                        /\ "corrupt" \in told => last'.r.kind = "stream_corrupt"
        OBVIOUS
    <2>1. ASSUME NEW f \in Readers, NEW c \in Arriving, Construct(f, c)
          PROVE  FALSE
        BY <2>1 DEF Construct, NoCall
    <2>2. ASSUME NEW n \in 0 .. MaxIn, NEW out \in Spans(MaxOut), push(n, out)
          PROVE  /\ fed' = fed /\ got' = got
                 /\ "corrupt" \in told => last'.r.kind = "stream_corrupt"
        BY <2>2, NothingAfter, DecompressorAssumption
    <2>3. ASSUME Destroy
          PROVE  FALSE
        BY <2>3 DEF Destroy, NoCall
    <2> QED BY <2>1, <2>2, <2>3 DEF Next
<1> QED BY <1>1, InvHolds, PTL DEF Spec, EndsAndErrorsStay

\* In whatever portions undamaged bytes of the expected container are pushed,
\* and however little room the pushes have, none is refused: a failure is
\* zstd's limit on calls that move nothing, met by a push without input or room
\* (the errors of zlib_sweller::push_more and zstd_sweller::push_more).
THEOREM SoundBytesAreAccepted == Spec => SoundBytesAccepted
<1> DEFINE Fails == /\ last'.op = "push" /\ last'.r.kind # "ok" /\ ~Refusable(last'.out)
                    /\ "corrupt" \notin told /\ Sound(fed, last'.n)
           Idles == Zstd /\ handle'.x.idle = IdleMax /\ (last'.n = 0 \/ last'.out.size = 0)
<1>1. Inv /\ [Next]_vars => [Fails => Idles]_vars
    <2> SUFFICES ASSUME Inv, Next, Fails
                 PROVE  Idles
        OBVIOUS
    <2>1. ASSUME NEW f \in Readers, NEW c \in Arriving, Construct(f, c)
          PROVE  FALSE
        BY <2>1 DEF Construct, NoCall
    <2>2. ASSUME NEW n \in 0 .. MaxIn, NEW out \in Spans(MaxOut), push(n, out)
          PROVE  Idles
        <3>1. last'.n = n /\ last'.out = out
            BY <2>2 DEF push
        <3> QED BY <2>2, <3>1, OnlyIdling, DecompressorAssumption
    <2>3. ASSUME Destroy
          PROVE  FALSE
        BY <2>3 DEF Destroy, NoCall
    <2> QED BY <2>1, <2>2, <2>3 DEF Next
<1> QED BY <1>1, InvHolds, PTL DEF Spec, SoundBytesAccepted
-----------------------------------------------------------------------------
(***************************************************************************)
(* Bytes that are still being sent: between two pushes more may arrive.    *)
(* The invariant does not say what follows the units consumed, except that *)
(* the bytes go on as a stream does; so it holds of the longer bytes.  A   *)
(* zstd context that has failed must not stand at the end of what arrived, *)
(* for the header of a next frame could follow.                            *)
(***************************************************************************)
LongerThan(v, s) ==
    v.c = s.c /\ Streamed(v.c, v.w) /\ Streamed(s.c, s.w) /\ Extends(v.w, s.w)

LEMMA LongerFacts ==
    ASSUME NEW s, NEW v, LongerThan(v, s), NEW f \in 0 .. Len(s.w)
    PROVE  /\ Len(s.w) <= Len(v.w) /\ Len(s.w) \in Nat /\ Len(v.w) \in Nat
           /\ \A i \in 1 .. Len(s.w) : v.w[i] = s.w[i]
           /\ Reached(v.w, f) = Reached(s.w, f)
           /\ Ends(s.c, s.w) \subseteq Ends(v.c, v.w)
           /\ \A i \in Ends(v.c, v.w) : i <= f => i \in Ends(s.c, s.w)
           /\ \A p, b : PartOf(p, s.w, b) /\ Len(p) \in Nat => PartOf(p, v.w, b)
<1>1. /\ s.w \in Seq(Unit) /\ v.w \in Seq(Unit) /\ Len(s.w) <= Len(v.w)
      /\ \A i \in 1 .. Len(s.w) : v.w[i] = s.w[i]
    BY DEF LongerThan, Streamed, Extends
<1>2. PartOf(s.w, v.w, 0)
    BY <1>1 DEF PartOf
<1>3. Reached(v.w, f) = Reached(s.w, f)
    BY <1>1, <1>2, PartReached
<1>4. /\ Ends(s.c, s.w) \subseteq Ends(v.c, v.w)
      /\ \A i \in Ends(v.c, v.w) : i <= Len(s.w) => i \in Ends(s.c, s.w)
    BY <1>1, <1>2, PartEnds DEF LongerThan
<1>5. \A i \in Ends(v.c, v.w) : i <= f => i <= Len(s.w)
    <2>1. Ends(v.c, v.w) \subseteq Nat
        BY <1>1, TailLenType DEF Ends
    <2> QED BY <1>1, <2>1
<1>6. ASSUME NEW p, NEW b, PartOf(p, s.w, b), Len(p) \in Nat
      PROVE  PartOf(p, v.w, b)
    <2>1. b \in Nat /\ b + Len(p) <= Len(s.w) /\ \A i \in 1 .. Len(p) : p[i] = s.w[b + i]
        BY <1>6 DEF PartOf
    <2>2. b + Len(p) <= Len(v.w) /\ \A i \in 1 .. Len(p) : b + i \in 1 .. Len(s.w)
        BY <1>1, <1>6, <2>1
    <2> QED BY <1>1, <2>1, <2>2 DEF PartOf
<1> QED BY <1>1, <1>3, <1>4, <1>5, <1>6

LEMMA ZlibGrows ==
    ASSUME NEW z \in InflateStream, NEW s, NEW v, LongerThan(v, s), NEW f \in 0 .. Len(s.w),
           NEW g, NEW t, ZlibInv(z, s, f, g, t)
    PROVE  ZlibInv(z, v, f, g, t)
<1> SUFFICES ASSUME Inflating(z, s, f, g)
             PROVE  Inflating(z, v, f, g)
    BY DEF ZlibInv
<1>1. v.c = s.c
    BY DEF LongerThan
<1>2. PartOf(z.seen, v.w, 0)
    <2>1. z.seen \in Seq(Unit) /\ PartOf(z.seen, s.w, 0)
        BY DEF Inflating, InflateStream
    <2>2. Len(z.seen) \in Nat
        BY <2>1
    <2> QED BY <2>1, <2>2, LongerFacts, Zenon
<1>3. Reached(v.w, f) = Reached(s.w, f) /\ Ends(s.c, s.w) \subseteq Ends(v.c, v.w)
    BY LongerFacts
<1>4. ASSUME Unended(s, f, g)
      PROVE  Unended(v, f, g)
    <2>1. \A i \in 1 .. f : i \in 1 .. Len(s.w) /\ v.w[i] = s.w[i]
        BY LongerFacts
    <2>2. \A i \in 1 .. f - 1 : i \in 1 .. f
        OBVIOUS
    <2>3. \A i \in Ends(v.c, v.w) : i <= f => i \in Ends(s.c, s.w)
        BY LongerFacts
    <2> QED BY <1>3, <1>4, <2>1, <2>2, <2>3 DEF Unended
<1> QED BY <1>1, <1>2, <1>3, <1>4 DEF Inflating

LEMMA ZstdGrows ==
    ASSUME NEW x \in DCtx, NEW s, NEW v, LongerThan(v, s), NEW f \in 0 .. Len(s.w),
           NEW g, NEW t, ZstdInv(x, s, f, g, t), "corrupt" \in t => f < Len(s.w)
    PROVE  ZstdInv(x, v, f, g, t)
<1>1. /\ v.c = s.c /\ s.w \in Seq(Unit) /\ v.w \in Seq(Unit)
      /\ Len(s.w) <= Len(v.w) /\ Len(s.w) \in Nat /\ Len(v.w) \in Nat
      /\ \A i \in 1 .. Len(s.w) : v.w[i] = s.w[i]
      /\ x.seen \in Seq(Unit) /\ x.stage \in {"start", "frame", "hostage", "bad"}
    BY LongerFacts DEF LongerThan, Streamed, DCtx
<1>2. Reached(v.w, f) = Reached(s.w, f) /\ Ends(s.c, s.w) \subseteq Ends(v.c, v.w)
    BY LongerFacts
<1>3. \A b : InFrame(x, s, g, b) => InFrame(x, v, g, b)
    BY <1>1, LongerFacts DEF InFrame
<1>4. AtHeader(v, f, g)
    <2> SUFFICES ASSUME v.c = "zstd", f < Len(v.w), v.w[f + 1].kind = "hdr"
                 PROVE  g = v.w[f + 1].upto
        BY DEF AtHeader
    <2>1. CASE f < Len(s.w)
        <3>1. f + 1 \in 1 .. Len(s.w)
            BY <1>1, <2>1
        <3> QED BY <1>1, <2>1, <3>1 DEF ZstdInv, AtHeader
    <2>2. CASE f = Len(s.w)
        <3>1. Framed(v.w) /\ f + 1 \in 1 .. Len(v.w)
            BY <1>1 DEF LongerThan, Streamed
        <3>2. IF f + 1 = 1 THEN v.w[f + 1].upto = 0
              ELSE v.w[f + 1 - 1].kind = "last" /\ v.w[f + 1].upto = v.w[f + 1 - 1].upto
            BY <3>1 DEF Framed
        <3>3. f > 0 => v.w[f].kind = "last" /\ v.w[f + 1].upto = v.w[f].upto /\ v.w[f] = s.w[f]
            BY <1>1, <2>2, <3>2
        <3>4. ~(f < Len(s.w)) /\ "corrupt" \notin t
            BY <2>2
        <3>5. Reached(s.w, f) = IF f = 0 THEN 0 ELSE s.w[f].upto
            BY <1>1, PrefixUpto DEF Reached
        <3>6. CASE x.stage = "start"
            BY <3>2, <3>3, <3>4, <3>5, <3>6 DEF ZstdInv, Between
        <3>7. CASE x.stage = "frame"
            <4> DEFINE l == Len(x.seen)
            <4>1. l \in 1 .. l /\ PartOf(x.seen, s.w, f - l) /\ x.seen[l].kind \notin {"last", "bad"}
                <5>1. x.seen # <<>> /\ InFrame(x, s, g, f - l) /\ Undone(x.seen, l)
                    BY <3>7 DEF ZstdInv, Framing
                <5>2. l \in Nat /\ l \in 1 .. l
                    BY <1>1, <5>1
                <5> QED BY <5>1, <5>2 DEF InFrame, Undone
            <4>2. x.seen[l] = s.w[(f - l) + l] /\ f - l \in Nat /\ l \in Nat
                <5>1. x.seen[l] = s.w[(f - l) + l] /\ f - l \in Nat
                    BY <4>1, Zenon DEF PartOf
                <5>2. l \in Nat
                    BY <1>1
                <5> QED BY <5>1, <5>2
            <4>3. (f - l) + l = f /\ f > 0
                <5>1. f \in Nat /\ l \in Nat \ {0}
                    BY <1>1, <4>1, <4>2
                <5> HIDE DEF l
                <5> QED BY <4>2, <5>1
            <4> QED BY <3>3, <4>1, <4>2, <4>3
        <3>8. CASE x.stage = "hostage"
            <4> DEFINE l == Len(x.seen)
            <4>1. l \in Nat /\ PartOf(x.seen, s.w, f + 1 - l)
                <5>1. InFrame(x, s, g, f + 1 - l)
                    BY <3>8 DEF ZstdInv, Holding
                <5>2. l \in Nat
                    BY <1>1
                <5> QED BY <5>1, <5>2 DEF InFrame
            <4> QED BY <2>2, <4>1 DEF PartOf
        <3>9. x.stage # "bad"
            BY <3>4 DEF ZstdInv
        <3> QED BY <1>1, <3>6, <3>7, <3>8, <3>9
    <2> QED BY <1>1, <2>1, <2>2
<1>5. x.stage = "start" /\ "corrupt" \notin t => Between(v, f, g, t)
    BY <1>2 DEF ZstdInv, Between
<1>6. x.stage = "frame" => Framing(x, v, f, g)
    BY <1>3 DEF ZstdInv, Framing
<1>7. x.stage = "hostage" => Holding(x, v, f, g)
    BY <1>3 DEF ZstdInv, Holding
<1> QED BY <1>4, <1>5, <1>6, <1>7 DEF ZstdInv

LEMMA ArrivalKeepsInv ==
    ASSUME Inv, Reports, stream' \in [c : Formats \cup {"none"}, w : Seq(Unit)],
           LongerThan(stream', stream), "corrupt" \in told => fed < Len(stream.w),
           fmt' = fmt, handle' = handle, fed' = fed, got' = got, told' = told, last' = last
    PROVE  Inv' /\ Reports'
<1>1. /\ TypeOK /\ fed \in 0 .. Len(stream.w) /\ stream.w \in Seq(Unit) /\ Len(stream.w) \in Nat
    BY DEF Inv, TypeOK, Streamed
<1>2. /\ Len(stream.w) <= Len(stream'.w) /\ Len(stream'.w) \in Nat
      /\ Reached(stream'.w, fed) = Reached(stream.w, fed)
      /\ Ends(stream.c, stream.w) \subseteq Ends(stream'.c, stream'.w)
    BY <1>1, LongerFacts
<1>3. TypeOK'
    BY <1>1 DEF TypeOK
<1>4. Streamed(stream'.c, stream'.w) /\ fed <= Len(stream'.w)
    BY <1>1, <1>2 DEF LongerThan
<1>5. Zlib => ZlibInv(handle.z, stream', fed, got, told)
    BY <1>1, HandleType, ZlibGrows DEF Inv, TypeOK
<1>6. Zstd => ZstdInv(handle.x, stream', fed, got, told)
    BY <1>1, HandleType, ZstdGrows DEF Inv, TypeOK
<1>7. Inv'
    BY <1>3, <1>4, <1>5, <1>6 DEF Inv, Zlib, Zstd
<1>8. AllOut'
    BY <1>2 DEF Reports, AllOut, Zlib, Ok, RoomLeft
<1>9. DoneAtEnd'
    BY <1>2 DEF Reports, DoneAtEnd, Ok
<1>10. PushProgress'
    BY DEF Reports, PushProgress, Ok
<1> QED BY <1>7, <1>8, <1>9, <1>10 DEF Reports

\* A push keeps the handle's alternative and its container, tells the end only
\* when it reports it, and reports nothing when it fails.
LEMMA PushTells ==
    ASSUME Inv, NEW n \in Nat, NEW out \in Spans(MaxOut), push(n, out)
    PROVE  /\ handle'.alt = handle.alt /\ handle # NoHandle /\ handle' # NoHandle
           /\ Zlib => handle'.z.fmt = handle.z.fmt
           /\ "done" \in told' => "done" \in told \/ (Ok' /\ last'.r.done)
           /\ last'.r.kind # "ok" => fed' = fed /\ got' = got
           /\ "corrupt" \in told' => "corrupt" \in told \/ last'.r.kind # "ok"
           /\ fed <= fed' /\ got <= got' /\ last'.n = n /\ last'.out = out
<1>1. /\ handle \in AnyHandle /\ handle # NoHandle /\ fed \in Nat /\ got \in Nat
      /\ last'.n = n /\ last'.out = out
    BY DEF Inv, TypeOK, push
<1>2. /\ handle'.alt = handle.alt
      /\ Zlib => handle'.z.fmt = handle.z.fmt
      /\ \E r : /\ Pushed(n, out, r) /\ r.in \in Nat /\ r.out \in Nat
                /\ r.kind # "ok" => r.in = 0 /\ r.out = 0
    <2>1. CASE Zlib
        <3>1. PICK y \in InflateStream : \E r :
                  /\ handle' = ZlibHandle(y) /\ Pushed(n, out, r) /\ y.fmt = handle.z.fmt
                  /\ ZlibPushed(n, out, handle.z, y, r)
            BY <2>1, ZlibPush, Zenon
        <3>2. PICK r : handle' = ZlibHandle(y) /\ Pushed(n, out, r) /\ y.fmt = handle.z.fmt
                       /\ ZlibPushed(n, out, handle.z, y, r)
            BY <3>1
        <3>3. handle'.alt = handle.alt /\ handle'.z.fmt = handle.z.fmt
            BY <2>1, <3>2, Alternatives DEF Zlib
        <3>4. r = Unexpected("stream_corrupt") \/
                  /\ r = Progress(Len(y.seen) - fed, y.total_out - got, y.status = "DONE")
                  /\ Advances(stream, fed, got, uInt(n), uInt(out.size), y)
            BY <3>2 DEF ZlibPushed, Refused
        <3>5. r.in \in Nat /\ r.out \in Nat /\ (r.kind # "ok" => r.in = 0 /\ r.out = 0)
            <4>1. CASE r = Unexpected("stream_corrupt")
                BY <4>1 DEF Unexpected
            <4>2. CASE /\ r = Progress(Len(y.seen) - fed, y.total_out - got, y.status = "DONE")
                       /\ Advances(stream, fed, got, uInt(n), uInt(out.size), y)
                <5>1. Len(y.seen) \in Nat /\ Len(y.seen) >= fed /\ y.total_out \in Nat /\ y.total_out >= got
                    BY <1>1, <4>2 DEF Advances, InflateStream
                <5>2. Len(y.seen) - fed \in Nat /\ y.total_out - got \in Nat
                    BY <1>1, <5>1
                <5> QED BY <4>2, <5>2 DEF Progress
            <4> QED BY <3>4, <4>1, <4>2
        <3> QED BY <3>2, <3>3, <3>5
    <2>2. CASE Zstd
        <3>1. PICK d : /\ handle' = ZstdHandle(d.x) /\ Pushed(n, out, Sweep(d, n))
                       /\ ZstdPushed(handle.x, stream, fed, got, n, out.size, d)
            BY <2>2, ZstdPush, Zenon
        <3>2. handle'.alt = handle.alt /\ ~Zlib
            BY <2>2, <3>1, Alternatives DEF Zlib, Zstd
        <3>3. CASE d.error \/ (d.remaining = 0 /\ d.pos < n)
            <4>1. Sweep(d, n) = Unexpected("stream_corrupt")
                BY <3>3 DEF Sweep
            <4> QED BY <3>1, <3>2, <4>1 DEF Unexpected
        <3>4. CASE ~(d.error \/ (d.remaining = 0 /\ d.pos < n))
            <4>1. Sweep(d, n) = Progress(d.pos, d.outpos, d.remaining = 0)
                BY <3>4 DEF Sweep
            <4>2. d.pos \in Nat /\ d.outpos \in Nat
                BY <3>1, <3>4 DEF ZstdPushed, Decompresses, GoesOn, Waits, Misplaced, Failed
            <4> QED BY <3>1, <3>2, <4>1, <4>2 DEF Progress
        <3> QED BY <3>3, <3>4
    <2>3. CASE ~Zlib /\ ~Zstd
        <3>1. push_visitor(handle, stream.c, SubSeq(stream.w, fed + 1, fed + n), out)
                  = {[h |-> handle, r |-> Unexpected("format_mismatch")]}
            BY <2>3 DEF push_visitor, Zlib, Zstd
        <3>2. handle' = handle /\ Pushed(n, out, Unexpected("format_mismatch"))
            BY <3>1 DEF push, Pushed
        <3> QED BY <2>3, <3>2 DEF Unexpected
    <2> QED BY <2>1, <2>2, <2>3
<1>3. PICK r : /\ Pushed(n, out, r) /\ r.in \in Nat /\ r.out \in Nat
               /\ r.kind # "ok" => r.in = 0 /\ r.out = 0
    BY <1>2
<1>4. /\ fed' = fed + r.in /\ got' = got + r.out /\ told' = told \cup News(out, r)
      /\ last' = [op |-> "push", n |-> n, out |-> out, r |-> r]
    BY <1>3 DEF Pushed
<1>5. fed <= fed' /\ got <= got' /\ (last'.r.kind # "ok" => fed' = fed /\ got' = got)
    BY <1>1, <1>3, <1>4
<1>6. /\ "done" \in told' => "done" \in told \/ (Ok' /\ last'.r.done)
      /\ "corrupt" \in told' => "corrupt" \in told \/ last'.r.kind # "ok"
    BY <1>4 DEF News, Ok
<1>7. handle' # NoHandle
    <2>1. handle.alt # "none"
        BY <1>1 DEF AnyHandle, NoHandle, StubHandle
    <2> QED BY <1>2, <2>1, Alternatives
<1> QED BY <1>1, <1>2, <1>5, <1>6, <1>7
=============================================================================
