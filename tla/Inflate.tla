------------------------------- MODULE Inflate -------------------------------
(***************************************************************************)
(* zlib's inflate(), external to the repository, as src/detail/zlib.cpp    *)
(* uses it.  A stream z records the container it expects, its status, the  *)
(* units consumed so far (`seen') and the symbols produced (total_out).    *)
(* It consumes units up to the end of the stream, the end of the input or  *)
(* damage, or up to the first unit whose symbols do not fit the output.    *)
(* That unit is taken too, except that one of which no symbol fits may be  *)
(* left, as a stored block's is: inflate is a SET of outcomes.             *)
(***************************************************************************)
EXTENDS Wire

InflateStream ==
    [fmt : ZlibFormats, status : {"OK", "DONE", "BAD"}, seen : Seq(Unit), total_out : Nat]

inflateInit(c) == [fmt |-> c, status |-> "OK", seen |-> <<>>, total_out |-> 0]

\* Where the first stream in s ends, is damaged, and has symbols past the m-th
\* to come.
Ends(c, s) == {i + TailLen(c) : i \in {j \in DOMAIN s : s[j].kind = "last"}}
Damages(s) == {i \in DOMAIN s : s[i].kind = "bad"}
Overflows(z, s, m) == {i \in DOMAIN s : s[i].upto > z.total_out + m}

\* How much of s is consumed.
Halts(z, s, m) == {Len(s)} \cup Ends(z.fmt, s) \cup Damages(s) \cup Overflows(z, s, m)

Leaves(z, s, m, stop) ==
    /\ stop \in Overflows(z, s, m) /\ stop > Len(z.seen)
    /\ Upto(SubSeq(s, 1, stop - 1)) = z.total_out + m

Stops(z, s, m) ==
    LET first == {i \in Halts(z, s, m) : \A j \in Halts(z, s, m) : i <= j}
    IN  first \cup {i - 1 : i \in {j \in first : Leaves(z, s, m, j)}}

Inflated(z, s, m) ==
    {LET used == SubSeq(s, 1, stop)
         fits == Upto(used) <= z.total_out + m
     IN  [z EXCEPT !.status = IF stop \in Damages(s) THEN "BAD"
                              ELSE IF fits /\ stop \in Ends(z.fmt, s) THEN "DONE" ELSE "OK",
                   !.seen = used,
                   !.total_out = IF fits THEN Upto(used) ELSE z.total_out + m] :
        stop \in Stops(z, s, m)}

\* The bytes of another container fail in its header; an error, like the end,
\* is for good.
Decoded(z, c, w, m) ==
    IF z.status # "OK" THEN {z}
    ELSE IF c # z.fmt /\ w # <<>> THEN {[z EXCEPT !.status = "BAD"]}
    ELSE Inflated(z, z.seen \o w, m)

InflateRet(z, flush, d) ==
    LET still == d.seen = z.seen /\ d.total_out = z.total_out
    IN  CASE d.status = "DONE" -> "STREAM_END"
          [] d.status = "BAD" -> "DATA_ERROR"
          [] d.status = "OK" /\ (flush = "finish" \/ still) -> "BUF_ERROR"
          [] OTHER -> "OK"

\* inflate(z, flush) on the units w of container c with avail_out = m.
inflate(z, flush, c, w, next_out, m) ==
    IF next_out = "null" THEN {[ret |-> "STREAM_ERROR", z |-> z]}
    ELSE {[ret |-> InflateRet(z, flush, d), z |-> d] : d \in Decoded(z, c, w, m)}
==============================================================================
