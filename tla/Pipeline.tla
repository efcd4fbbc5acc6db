------------------------------ MODULE Pipeline ------------------------------
(***************************************************************************)
(* A compressor and a decompressor of one format, with what the first      *)
(* wrote between them, and the chunk loops that drive them in              *)
(* src/test/unit/stream_test.cpp: the sender pushes its source in chunks,  *)
(* may flush on the way, and finishes; the receiver pushes what there is   *)
(* of the wire, from where the last push left it, until it is told that    *)
(* the stream is done.  In the tests one loop runs after the other; here   *)
(* each may be anywhere when the other takes a step, as at the two ends of *)
(* a pipe.                                                                 *)
(***************************************************************************)
EXTENDS Wire

CONSTANTS
    Compiled,      \* the backends compiled in
    Requests,      \* the formats of the two objects
    Source,        \* the symbols the sender has
    Chunk,         \* the largest chunk the sender and the receiver push
    PushSizes,     \* the sizes of the spans the sender pushes into
    FlushSizes,    \* the sizes of those it flushes into
    FinishSizes,   \* the sizes of those it finishes into, for each format
    SwellSizes,    \* the sizes of those the receiver pushes into
    MaxSpan,       \* no span is larger (a size_t)
    MaxFrame,      \* bound: see Compressor
    UINT, AllocFails, IdleMax

ASSUME PipelineAssumption ==
    /\ Compiled \subseteq {"zlib", "zstd"} /\ Requests \subseteq Formats
    /\ Source \in Nat /\ Chunk \in Nat \ {0}
    /\ MaxSpan \in Nat /\ MaxFrame \in Nat
    /\ \A f \in Requests : FinishSizes[f] \subseteq 1 .. MaxSpan
    /\ PushSizes \subseteq 1 .. MaxSpan /\ FlushSizes \subseteq 1 .. MaxSpan
    /\ SwellSizes \subseteq 1 .. MaxSpan
    /\ UINT \in Nat \ {0} /\ AllocFails \in BOOLEAN /\ IdleMax \in Nat \ {0}

VARIABLES
    fmt,        \* the format of both objects
    squeezer, accepted, wire, sent,           \* the compressor's state
    sweller, fed, got, told, received,        \* the decompressor's state
    pc,         \* the sender's place: "none", "push", "flush", "idle",
                \* "finish", "closed"
    flushed     \* how many symbols the last complete flush covered

sender == <<squeezer, accepted, wire, sent>>
receiver == <<sweller, fed, got, told, received>>
vars == <<fmt, sender, receiver, pc, flushed>>

\* Compressor and Decompressor, with the facts proved about them.
C == INSTANCE CompressorProofs WITH
    handle <- squeezer, last <- sent,
    Levels <- {6}, MaxIn <- Chunk, MaxOut <- MaxSpan, MaxSource <- Source

D == INSTANCE DecompressorProofs WITH
    handle <- sweller, last <- received, stream <- [c |-> fmt, w |-> wire],
    Readers <- Requests, Arriving <- Requests, MaxSource <- Source,
    MaxIn <- Chunk, MaxOut <- MaxSpan

Span(size) == [size |-> size, data |-> "buffer"]

Init ==
    /\ fmt = "none" /\ pc = "none" /\ flushed = 0
    /\ squeezer = C!NoHandle /\ accepted = 0 /\ wire = <<>> /\ sent = C!NoCall
    /\ sweller = D!NoHandle /\ fed = 0 /\ got = 0 /\ told = {} /\ received = D!NoCall

Open(f) ==
    /\ pc = "none" /\ pc' = "push"
    /\ C!Construct(f, 6)
    /\ sweller' = D!make_sweller(f)
    /\ UNCHANGED <<fed, got, told, received, flushed>>

Push ==
    /\ pc = "push" /\ accepted < Source
    /\ \E n \in 1 .. Chunk, size \in PushSizes :
           n <= Source - accepted /\ C!push(n, Span(size))
    /\ UNCHANGED <<receiver, pc, flushed>>

\* A flush or finish that filled its span is repeated.
Flush ==
    /\ (pc = "push" /\ accepted > flushed) \/ pc = "flush"
    /\ \E size \in FlushSizes : C!flush(Span(size))
    /\ pc' = IF C!RoomLeft' THEN "push" ELSE "flush"
    /\ flushed' = IF C!RoomLeft' THEN accepted ELSE flushed
    /\ UNCHANGED receiver

Finish ==
    /\ (pc = "push" /\ accepted = Source) \/ pc = "finish"
    /\ \E size \in FinishSizes[fmt] : C!finish(Span(size))
    /\ pc' = IF C!RoomLeft' THEN "closed" ELSE "finish"
    /\ UNCHANGED <<receiver, flushed>>

\* The sender waits for more of its source after a flush, perhaps for ever.
Pause ==
    /\ pc = "push" /\ flushed > 0 /\ accepted = flushed /\ pc' = "idle"
    /\ UNCHANGED <<fmt, sender, receiver, flushed>>

Resume ==
    /\ pc = "idle" /\ pc' = "push"
    /\ UNCHANGED <<fmt, sender, receiver, flushed>>

\* while there is something on the wire, up to the end or an error.
Receive ==
    /\ pc # "none" /\ told = {} /\ fed < Len(wire)
    /\ UNCHANGED <<fmt, sender, pc, flushed>>
    /\ \E n \in 1 .. Chunk, size \in SwellSizes :
           (n = Chunk \/ n = Len(wire) - fed) /\ D!push(n, Span(size))

Close ==
    /\ pc = "closed" /\ told # {}
    /\ C!Destroy /\ D!Destroy
    /\ pc' = "none" /\ flushed' = 0

Send == Push \/ (pc = "flush" /\ Flush) \/ Finish

Next ==
    \/ \E f \in Requests : Open(f)
    \/ Push \/ Flush \/ Finish \/ Pause \/ Resume
    \/ Receive
    \/ Close

\* Each loop makes its next call: it is code that runs to its end.  Nothing
\* makes the sender begin a flush or end a pause.
Spec == Init /\ [][Next]_vars /\ WF_vars(Send) /\ WF_vars(Receive)
-----------------------------------------------------------------------------
(***************************************************************************)
(* Properties.                                                             *)
(***************************************************************************)

\* The type invariant: those of the two objects, and the sender's place.
TypeOK ==
    /\ C!TypeOK /\ D!TypeOK
    /\ pc \in {"none", "push", "flush", "idle", "finish", "closed"}
    /\ flushed \in 0 .. accepted

(***************************************************************************)
(* Nothing one object made is refused by the other, and neither fails on   *)
(* the way, whatever the portions, and also when an end that just fits its *)
(* span is finished again ("let the caller call again",                    *)
(* src/src/detail/zstd.cpp, in finish): so it is for the zlib family, and  *)
(* for zstd when each finish has room to spare.                            *)
(***************************************************************************)
NothingRefused == sent.r.kind = "ok" /\ received.r.kind = "ok"

(***************************************************************************)
(* End to end, the two objects and the wire implement the contract of one  *)
(* compressor: what the receiver has never runs ahead of what the sender   *)
(* handed over and never goes back, and it is told of the end when         *)
(* everything has arrived and not before.                                  *)
(***************************************************************************)
Contract == INSTANCE StreamContract WITH
    src <- accepted, out <- got,
    phase <- IF pc = "none" THEN "none" ELSE IF "done" \in told THEN "ended" ELSE "open"

ImplementsContract == Contract!CSpec

(***************************************************************************)
(* Both loops end with the original restored and the end told, whatever    *)
(* the sizes of chunks and spans, unless the sender pauses for ever        *)
(* (src/test/unit/stream_test.cpp, "streaming round-trip in chunks").      *)
(***************************************************************************)
Restored ==
    <>[](pc # "idle") => (pc = "push" ~> "done" \in told /\ got = Source)

(***************************************************************************)
(* "so the receiver can decompress what arrived so far without waiting for *)
(* finish" (src/include/polliwog/stream.hpp): what a flush covers arrives, *)
(* also when the sender then does nothing more.                            *)
(***************************************************************************)
FlushedArrives == (fmt # "zstd" /\ got < flushed) ~> got >= flushed

(***************************************************************************)
(* What that rests on: a receiver that has consumed all there is of the    *)
(* wire, with room to spare in its last span, has everything that was      *)
(* flushed, whatever the sender called before and since, and whatever was  *)
(* pending in either engine.                                               *)
(***************************************************************************)
FlushedIsThere ==
    fmt # "zstd" /\ fed = Len(wire) /\ D!Ok /\ D!RoomLeft => got >= flushed

(***************************************************************************)
(* "while (coff < compressed.size())" (src/test/unit/stream_test.cpp, the  *)
(* round trip in chunks): a loop that stops when all bytes are consumed,   *)
(* after a finish that left room, has been told of the end and has the     *)
(* whole source, also when its last spans had no room.  It is the trailer  *)
(* or, for zstd, the unit handed back that keeps it going: raw deflate has *)
(* neither.                                                                *)
(***************************************************************************)
ConsumedIsRestored ==
    /\ fmt \in {"zlib", "gzip", "zstd"}
    /\ pc = "closed" /\ sent.r.kind = "ok" /\ fed = Len(wire)
    => "done" \in told /\ got = Source
=============================================================================
