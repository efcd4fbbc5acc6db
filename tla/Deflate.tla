------------------------------- MODULE Deflate -------------------------------
(***************************************************************************)
(* zlib's deflate(), external to the repository, as src/detail/zlib.cpp    *)
(* uses it.  A stream z records the container, the engine's status, the    *)
(* units generated so far (`frame'; those beyond total_out are pending     *)
(* inside the engine), and the two counters the backend reads, total_in    *)
(* and total_out.  When a block ends and how much input is read once the   *)
(* output is full is the engine's choice: deflate is the SET of outcomes a *)
(* call can have, each a return code and the new stream.                   *)
(***************************************************************************)
EXTENDS Wire

ZStream ==
    [fmt : ZlibFormats, status : {"INIT", "BUSY", "FINISH", "ENDED"},
     frame : Seq(Unit), total_in : Nat, total_out : Nat,
     last_flush : {"sync", "other"}]

deflateInit(c) ==
    [fmt |-> c, status |-> "INIT", frame |-> <<>>, total_in |-> 0,
     total_out |-> 0, last_flush |-> "other"]

Pending(z) == Len(z.frame) - z.total_out

\* Once m units of output have been used, room is left after everything in f.
RoomAfter(z, f, m) == Len(f) < z.total_out + m

\* flush_pending: total_out after copying what fits of f into m units.
Copied(z, f, m) == IF Len(f) <= z.total_out + m THEN Len(f) ELSE z.total_out + m

\* The header is generated by the first call that has output space.
Headed(z) ==
    IF z.status # "INIT" THEN z.frame
    ELSE [i \in 1 .. HdrLen(z.fmt) |-> [kind |-> "hdr", upto |-> 0]]

\* A header that does not fit ends the call before any input is read.
HeaderStuck(z, m) == Len(Headed(z)) > z.total_out + m

\* What a call is free to choose: to read t of n symbols, to have e encoded, to
\* spend u units on them, and to pack the end of the data into the last block.
\* Symbols left unread keep the data open.  With room left it reads everything,
\* and a flush encodes everything.
Choices(z, flush, n, m) ==
    {c \in [t : 0 .. n, e : Upto(z.frame) .. z.total_in + n, u : Spread \cup {1},
            end : {"packed", "alone", "open"}] :
        /\ c.e <= z.total_in + c.t
        /\ c.end = "open" <=> c.t < n
        /\ c.u \in BlockSizes(z.frame, c.e)
        /\ HeaderStuck(z, m) => c.t = 0 /\ c.e = Upto(z.frame)
        /\ RoomAfter(z, GrowBlock(Headed(z), c.e, c.u, "blk"), m) =>
              c.t = n /\ (flush # "no" => c.e = z.total_in + c.t)}

Trailer(z, f) == f \o [i \in 1 .. TailLen(z.fmt) |-> [kind |-> "tail", upto |-> Upto(f)]]

Run(z, flush, m, c) ==
    LET all == c.e = z.total_in + c.t /\ ~HeaderStuck(z, m)
        closes == flush = "finish" /\ all /\ c.end # "open" /\ z.status \in {"INIT", "BUSY"}
        packed == closes /\ c.end = "packed" /\ c.e > Upto(z.frame)
        data == GrowBlock(Headed(z), c.e, c.u, IF packed THEN "last" ELSE "blk")
        marks == flush = "sync" /\ all /\ RoomAfter(z, data, m)
        body == IF marks THEN Grow(data, "sync")
                ELSE IF closes /\ ~packed THEN Grow(data, "last") ELSE data
        closed == closes \/ z.status \in {"FINISH", "ENDED"}
        trailed == closed /\ RoomAfter(z, body, m)
        f == IF trailed /\ z.status # "ENDED" THEN Trailer(z, body) ELSE body
        out == Copied(z, f, m)
    IN  [ret |-> IF trailed /\ out = Len(f) THEN "STREAM_END" ELSE "OK",
         z |-> [z EXCEPT !.status = IF trailed THEN "ENDED"
                                    ELSE IF closed THEN "FINISH" ELSE "BUSY",
                         !.frame = f, !.total_in = @ + c.t, !.total_out = out,
                         !.last_flush = IF flush = "sync" /\ RoomAfter(z, f, m)
                                        THEN "sync" ELSE "other"]]

\* deflate(z, flush) with avail_in = n and avail_out = m.
deflate(z, flush, n, next_out, m) ==
    IF next_out = "null" \/ (z.status \in {"FINISH", "ENDED"} /\ flush # "finish")
    THEN {[ret |-> "STREAM_ERROR", z |-> z]}
    ELSE IF m = 0 \/ (flush = "sync" /\ z.last_flush = "sync" /\ n = 0)
    THEN {[ret |-> "BUF_ERROR", z |-> z]}
    ELSE IF Pending(z) >= m
    THEN {[ret |-> "OK", z |-> [z EXCEPT !.total_out = @ + m, !.last_flush = "other"]]}
    ELSE {Run(z, flush, m, c) : c \in Choices(z, flush, n, m)}
==============================================================================
