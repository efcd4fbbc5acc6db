-------------------------------- MODULE Wire --------------------------------
(***************************************************************************)
(* The vocabulary shared by every module: wire formats, the units a        *)
(* compressed stream is made of, buffers, and the values the handles       *)
(* return.                                                                  *)
(*                                                                         *)
(* Plain text is a run of symbols that is known by its length.  A          *)
(* compressed stream is a sequence of units; each unit is one unit of      *)
(* output space and carries `upto', the number of symbols that a receiver  *)
(* can decode once it holds everything through that unit.  The content of  *)
(* a prefix is therefore the `upto' of its last unit.                      *)
(***************************************************************************)
EXTENDS Integers, Sequences

(***************************************************************************)
(* enum class format, and the containers each engine serves                *)
(* (zlib_backend::formats, zstd_backend::formats).                         *)
(***************************************************************************)
ZlibFormats == {"zlib", "gzip", "raw_deflate"}
ZstdFormats == {"zstd"}
Formats == ZlibFormats \cup ZstdFormats \cup {"lz4_frame"}

(***************************************************************************)
(* Units.  "hdr": the container's header; "blk": compressed symbols;       *)
(* "sync": the marker of a sync flush; "last": the final block, which ends *)
(* the compressed data; "tail": the checksum trailer; "bad": bytes damaged *)
(* on the way, which no decoder accepts in their place.                    *)
(***************************************************************************)
Unit == [kind : {"hdr", "blk", "sync", "last", "tail", "bad"}, upto : Nat]

Upto(s) == IF s = <<>> THEN 0 ELSE s[Len(s)].upto

Grow(s, k) == Append(s, [kind |-> k, upto |-> Upto(s)])

\* A block with the symbols up to e, as u units; the final unit is a "blk", or
\* "last" when the end of the data is packed into it.
BlockUnit(s, e, u, k, i) ==
    [kind |-> IF i = u THEN k ELSE "blk", upto |-> IF i = u THEN e ELSE Upto(s) + i]

GrowBlock(s, e, u, k) ==
    IF e > Upto(s) THEN s \o [i \in 1 .. u |-> BlockUnit(s, e, u, k, i)] ELSE s

\* Compression: a block takes at most one unit for each of its symbols.
CONSTANT Spread    \* the block sizes considered, in units
ASSUME SpreadAssumption == Spread \subseteq Nat \ {0}

BlockSizes(s, e) == {u \in Spread : u <= e - Upto(s)} \cup {1}

(***************************************************************************)
(* Header and trailer sizes: rfc 1950 (2 and 4 bytes), rfc 1952 (10 and 8  *)
(* bytes), rfc 1951 (none).  The gzip ones are two units, so that an       *)
(* output buffer can end inside them.                                      *)
(***************************************************************************)
HdrLen(c)  == CASE c = "gzip" -> 2 [] c = "raw_deflate" -> 0 [] OTHER -> 1
TailLen(c) == CASE c = "gzip" -> 2 [] c = "zlib" -> 1 [] OTHER -> 0

\* The stream s of container c is complete: its final block and the whole
\* trailer are there.
Complete(c, s) ==
    LET i == Len(s) - TailLen(c)
    IN  i > 0 /\ s[i].kind = "last"

(***************************************************************************)
(* std::span<std::byte>: a size, and whether data() is null (an empty      *)
(* vector's span is null, an empty array's is not).                        *)
(***************************************************************************)
Spans(max) == [size : 0 .. max, data : {"buffer"}] \cup {[size |-> 0, data |-> "null"]}
AnySpan == [size : Nat, data : {"buffer", "null"}]

(***************************************************************************)
(* enum class kind, and std::expected<progress, error>: "ok" with what was *)
(* consumed and produced, or the error's kind; "throws" is a constructor   *)
(* that threw instead.                                                     *)
(***************************************************************************)
Kinds == {"stream_corrupt", "buffer_too_small", "level_unsupported", "format_mismatch",
          "backend_failure", "out_of_memory", "internal_contract_violation"}
Result == [kind : Kinds \cup {"ok", "throws"}, in : Nat, out : Nat, done : BOOLEAN]

Progress(i, o, d) == [kind |-> "ok", in |-> i, out |-> o, done |-> d]
Unexpected(k) == [kind |-> k, in |-> 0, out |-> 0, done |-> FALSE]
=============================================================================
