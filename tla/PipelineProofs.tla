--------------------------- MODULE PipelineProofs ---------------------------
(***************************************************************************)
(* What holds of the pipeline for every source, chunk, span and format.    *)
(***************************************************************************)
EXTENDS Pipeline, TLAPS
-----------------------------------------------------------------------------
(***************************************************************************)
(* The inductive invariant: that of each object, and what the sender's     *)
(* place and the receiver's news say of them.  The data of the stream does *)
(* not end before the sender finishes, and where it ends it holds          *)
(* everything accepted; and what an error leaves is not consumed.          *)
(***************************************************************************)
Zlib == squeezer.alt = "zlib_squeezer"
Zstd == squeezer.alt = "zstd_squeezer"

Finishing == pc \in {"finish", "closed"}

Placed ==
    /\ pc \in {"none", "push", "flush", "idle", "finish", "closed"}
    /\ flushed \in 0 .. accepted
    /\ squeezer = C!NoHandle <=> pc = "none"
    /\ sweller = D!NoHandle <=> pc = "none"
    /\ IF pc = "none" THEN received = D!NoCall ELSE fmt \in Requests

Sending ==
    /\ Zlib => fmt # "zstd"
    /\ Zstd => C!Framed(squeezer.x.frame)
    /\ pc \in {"push", "flush", "idle"} => C!Unfinished(squeezer)
    /\ Finishing /\ Zstd => C!LastsAt(squeezer.x.frame, squeezer.x.consumed)

Receiving ==
    /\ "corrupt" \in told => fed < Len(wire)
    /\ got <= accepted
    /\ "done" \in told => Finishing /\ got = accepted

PInv == C!CInv /\ D!Inv /\ D!Reports /\ Placed /\ Sending /\ Receiving

\* Instances in which nothing has to fail: each format has a backend, the zstd
\* context its memory, and the span of a finish room, for zstd's the whole rest
\* of the frame (a frame has at most a header, a unit for each symbol and one
\* for its end).
Working ==
    /\ Requests \subseteq C!Served
    /\ "zstd" \in Requests => ~AllocFails
    /\ \A f \in Requests : \A size \in FinishSizes[f] :
           C!uInt(size) > IF f = "zstd" THEN Source + 2 ELSE 0

\* Both objects have the engine of the format, and a zstd frame is ended by one
\* call of finish.
Paired ==
    IF fmt = "zstd"
    THEN /\ Zstd /\ D!Zstd /\ pc # "finish"
         /\ ~Finishing => C!Lean(squeezer.x.frame)
         /\ Finishing => C!OneFrame(squeezer.x.frame)
    ELSE /\ Zlib /\ squeezer.z.fmt = fmt
         /\ D!Zlib /\ sweller.z.fmt = fmt

GInv == PInv /\ NothingRefused /\ (pc # "none" => Paired)
-----------------------------------------------------------------------------
\* The two objects are called as their modules allow.
LEMMA CAssumed ==
    /\ C!CompressorAssumption /\ C!UINTAssumption
    /\ C!AllocFailsAssumption /\ C!SpreadAssumption
BY PipelineAssumption, SpreadAssumption
DEF C!CompressorAssumption, C!UINTAssumption, C!AllocFailsAssumption, C!SpreadAssumption,
    C!Formats, C!ZlibFormats, C!ZstdFormats, Formats, ZlibFormats, ZstdFormats

LEMMA DAssumed ==
    /\ D!DecompressorAssumption /\ D!UINTAssumption
    /\ D!IdleMaxAssumption /\ D!SpreadAssumption
BY PipelineAssumption, SpreadAssumption
DEF D!DecompressorAssumption, D!UINTAssumption, D!IdleMaxAssumption, D!SpreadAssumption,
    D!Formats, D!ZlibFormats, D!ZstdFormats, Formats, ZlibFormats, ZstdFormats

\* A span with an address.
LEMMA SpanFacts ==
    ASSUME NEW size \in 1 .. MaxSpan
    PROVE  /\ Span(size) \in C!Spans(MaxSpan) /\ Span(size) \in D!Spans(MaxSpan)
           /\ Span(size) \in C!AnySpan /\ Span(size).data = "buffer" /\ Span(size).size = size
           /\ size \in Nat
BY PipelineAssumption DEF Span, C!Spans, D!Spans, C!AnySpan

LEMMA InitPInv == Init => PInv
<1> SUFFICES ASSUME Init
             PROVE  PInv
    OBVIOUS
<1>1. C!Init /\ D!Init
    BY DEF Init, C!Init, D!Init, D!NoStream
<1>2. C!CInv
    BY <1>1, CAssumed, C!InitCInv
<1>3. D!Inv /\ D!Reports
    BY <1>1, DAssumed, D!InitInv, D!InitReports
<1>4. squeezer.alt = "none"
    BY DEF Init, C!NoHandle
<1> QED BY <1>2, <1>3, <1>4 DEF Init, PInv, Placed, Sending, Receiving, Zlib, Zstd, Finishing
(***************************************************************************)
(* The sender's calls.                                                     *)
(***************************************************************************)
Outcome == [h |-> squeezer, r |-> sent.r]

\* What a push, flush or finish into out does, whatever it reports.
Called(op, out) ==
    /\ C!CInv' /\ C!Extends(wire', wire) /\ C!Sends(squeezer, op, out, Outcome')
    /\ squeezer # C!NoHandle /\ squeezer'.alt = squeezer.alt /\ squeezer' # C!NoHandle
    /\ accepted \in Nat /\ accepted' \in Nat /\ accepted' >= accepted
    /\ op = "finish" => accepted' = accepted
    /\ fmt' = fmt /\ sent'.out = out

LEMMA CallFacts ==
    ASSUME C!CInv, NEW op \in {"push", "flush", "finish"}, NEW n \in Nat, NEW size \in 1 .. MaxSpan,
           \/ op = "push" /\ C!push(n, Span(size))
           \/ op = "flush" /\ n = 0 /\ C!flush(Span(size))
           \/ op = "finish" /\ n = 0 /\ C!finish(Span(size))
    PROVE  Called(op, Span(size))
<1> DEFINE out == Span(size)
<1>1. out \in C!AnySpan /\ out.data = "buffer"
    BY SpanFacts
<1> HIDE DEF out
<1>2. PICK o : /\ \/ op = "push" /\ o \in C!push_visitor(squeezer, n, out)
                  \/ op = "flush" /\ o \in C!flush_visitor(squeezer, out)
                  \/ op = "finish" /\ o \in C!finish_visitor(squeezer, out)
               /\ C!Return(op, n, out, o)
    <2>1. CASE op = "push"
        BY <2>1 DEF C!push, out
    <2>2. CASE op = "flush"
        BY <2>2 DEF C!flush, out
    <2>3. CASE op = "finish"
        BY <2>3 DEF C!finish, out
    <2> QED BY <2>1, <2>2, <2>3
<1>3. squeezer # C!NoHandle
    BY DEF C!push, C!flush, C!finish, C!Live
<1>4. C!IInv /\ C!Shape(squeezer) /\ C!EngineInv(squeezer) /\ accepted \in Nat
    BY DEF C!CInv, C!IInv, C!TypeOK
<1>5. C!Honest(squeezer, o)
    BY <1>1, <1>2, <1>3, <1>4, CAssumed, C!VisitHonest
<1>6. C!Tells(squeezer, op, n, out, o)
    BY <1>1, <1>2, <1>3, <1>4, CAssumed, C!VisitTells
<1>7. C!Sends(squeezer, op, out, o)
    BY <1>1, <1>2, <1>3, <1>4, CAssumed, C!VisitSends
<1>8. C!IInv'
    BY <1>1, <1>2, <1>4, <1>5, CAssumed, C!ReturnPreserves
<1>9. C!CInv'
    BY <1>1, <1>2, <1>4, <1>5, <1>6, <1>8, CAssumed, C!ReturnTells
<1>10. C!Extends(wire', wire)
    BY <1>2, <1>4, <1>5, <1>8, CAssumed, C!ReturnExtends
<1>11. /\ squeezer' = o.h /\ sent' = [op |-> op, n |-> n, out |-> out, r |-> o.r]
       /\ accepted' = accepted + o.r.in /\ fmt' = fmt
    BY <1>2 DEF C!Return
<1>12. o.h.alt = squeezer.alt /\ o.r.in \in Nat /\ (op = "finish" => o.r.in = 0)
    BY <1>5, <1>7 DEF C!Honest, C!Result, C!Sends
<1>13. squeezer'.alt # "none"
    <2>1. squeezer.alt # "none"
        BY <1>3, <1>4 DEF C!Shape, C!AnyHandle, C!NoHandle, C!StubHandle
    <2> QED BY <1>11, <1>12, <2>1
<1>14. Outcome'.h = o.h /\ Outcome'.r = o.r
    BY <1>11 DEF Outcome
<1>15. C!Sends(squeezer, op, out, Outcome')
    BY <1>7, <1>14 DEF C!Sends, C!ZlibSends, C!ZstdSends
<1>16. squeezer' # C!NoHandle
    BY <1>13 DEF C!NoHandle
<1> QED BY <1>3, <1>4, <1>9, <1>10, <1>11, <1>12, <1>15, <1>16 DEF Called, out
\* What is on the wire is a stream of the format.
Carried == C!Received(squeezer, wire, accepted)

LEMMA WireCarries == C!CInv => Carried
BY CAssumed, C!SentIsReceived DEF Carried

LEMMA UnitsAgree ==
    /\ C!Unit = D!Unit
    /\ \A w : C!Framed(w) <=> D!Framed(w)
    /\ \A v, w : C!Extends(v, w) <=> D!Extends(v, w)
    /\ \A w : C!Upto(w) = D!Upto(w)
    /\ \A c : C!TailLen(c) = D!TailLen(c)
BY DEF C!Unit, D!Unit, C!Framed, D!Framed, C!Extends, D!Extends, C!Upto, D!Upto,
       C!TailLen, D!TailLen

LEMMA WireStreamed ==
    ASSUME NEW h, NEW w, NEW e, NEW c, C!Received(h, w, e),
           h.alt = "zlib_squeezer" => c # "zstd",
           h.alt = "zstd_squeezer" => C!Framed(h.x.frame)
    PROVE  D!Streamed(c, w)
<1>1. w \in Seq(D!Unit)
    BY UnitsAgree DEF C!Received
<1>2. D!Sorted(w)
    BY DEF C!Received, C!Well, D!Sorted
<1>3. ASSUME c = "zstd"
      PROVE  D!Framed(w)
    <2>1. CASE h.alt = "zstd_squeezer"
        BY <2>1, UnitsAgree DEF C!Received
    <2>2. CASE h.alt # "zstd_squeezer"
        <3>1. w = <<>>
            BY <1>3, <2>2 DEF C!Received
        <3> QED BY <3>1 DEF D!Framed
    <2> QED BY <2>1, <2>2
<1> QED BY <1>1, <1>2, <1>3 DEF D!Streamed

\* The sender's place after a call.
Goes(op) ==
    /\ op = "finish" => pc' \in {"finish", "closed"} /\ pc \in {"push", "finish"}
    /\ op # "finish" => pc' \in {"push", "flush"} /\ pc \in {"push", "flush"}

LEMMA CallKeepsSending ==
    ASSUME Placed, Sending, NEW op \in {"push", "flush", "finish"}, NEW out, Called(op, out), Goes(op)
    PROVE  Sending'
<1>1. squeezer'.alt = squeezer.alt /\ fmt' = fmt /\ C!Sends(squeezer, op, out, Outcome')
      /\ Outcome'.h = squeezer'
    BY DEF Called, Outcome
<1>2. Zlib' => fmt' # "zstd"
    BY <1>1 DEF Sending, Zlib
<1>3. Zstd => /\ C!Framed(squeezer.x.frame) => C!Framed(squeezer'.x.frame)
              /\ op = "finish" /\ C!LastsAt(squeezer.x.frame, squeezer.x.consumed)
                    => C!LastsAt(squeezer'.x.frame, squeezer'.x.consumed)
    BY <1>1 DEF C!Sends, C!ZstdSends, Zstd
<1>4. Zstd' => C!Framed(squeezer'.x.frame)
    BY <1>1, <1>3 DEF Sending, Zstd
<1>5. pc' \in {"push", "flush", "idle"} => C!Unfinished(squeezer')
    BY <1>1 DEF Goes, Sending, C!Sends
<1>6. Finishing' /\ Zstd' => C!LastsAt(squeezer'.x.frame, squeezer'.x.consumed)
    <2> SUFFICES ASSUME Finishing', Zstd
                 PROVE  C!LastsAt(squeezer'.x.frame, squeezer'.x.consumed)
        BY <1>1 DEF Zstd
    <2>1. op = "finish" /\ pc \in {"push", "finish"}
        BY DEF Finishing, Goes
    <2>2. C!LastsAt(squeezer.x.frame, squeezer.x.consumed)
        BY <2>1 DEF Sending, Finishing, C!Unfinished, Zstd, C!NoLast, C!LastsAt
    <2> QED BY <1>3, <2>1, <2>2
<1> QED BY <1>2, <1>4, <1>5, <1>6 DEF Sending
\* What has arrived stays as it was when more is sent.
LEMMA WireGrows ==
    ASSUME PInv, C!CInv', Sending', C!Extends(wire', wire), fmt' = fmt
    PROVE  /\ D!LongerThan([c |-> fmt', w |-> wire'], [c |-> fmt, w |-> wire])
           /\ Len(wire) \in Nat /\ Len(wire) <= Len(wire')
           /\ wire' \in Seq(D!Unit)
<1>1. Carried /\ Carried'
    <2>1. C!CInv
        BY DEF PInv
    <2> QED BY <2>1, WireCarries, PTL
<1>2. D!Streamed(fmt, wire)
    BY <1>1, WireStreamed DEF Carried, PInv, Sending, Zlib, Zstd
<1>3. D!Streamed(fmt', wire')
    BY <1>1, WireStreamed DEF Carried, Sending, Zlib, Zstd
<1>4. D!LongerThan([c |-> fmt', w |-> wire'], [c |-> fmt, w |-> wire])
    BY <1>2, <1>3, UnitsAgree DEF D!LongerThan
<1>5. wire \in Seq(D!Unit) /\ wire' \in Seq(D!Unit) /\ Len(wire) <= Len(wire')
    BY <1>2, <1>3 DEF D!Streamed, C!Extends
<1> QED BY <1>4, <1>5

LEMMA ArrivesUnchanged ==
    ASSUME PInv, C!CInv', Sending', C!Extends(wire', wire), fmt' = fmt, UNCHANGED receiver
    PROVE  D!Inv' /\ D!Reports'
<1> DEFINE s == [c |-> fmt, w |-> wire]
           v == [c |-> fmt', w |-> wire']
<1>1. D!LongerThan(v, s) /\ wire' \in Seq(D!Unit)
    BY WireGrows
<1>2. v \in [c : D!Formats \cup {"none"}, w : Seq(D!Unit)]
    <2>1. fmt \in D!Formats \cup {"none"}
        BY DEF PInv, D!Inv, D!TypeOK
    <2> QED BY <1>1, <2>1
<1>3. "corrupt" \in told => fed < Len(s.w)
    BY DEF PInv, Receiving
<1>4. /\ sweller' = sweller /\ fed' = fed /\ got' = got /\ told' = told /\ received' = received
    BY DEF receiver
<1> QED BY <1>1, <1>2, <1>3, <1>4, DAssumed, D!ArrivalKeepsInv DEF PInv

LEMMA CallKeepsPInv ==
    ASSUME PInv, NEW op \in {"push", "flush", "finish"}, NEW out, Called(op, out), Goes(op),
           flushed' \in 0 .. accepted', UNCHANGED receiver
    PROVE  PInv'
<1>1. /\ C!CInv' /\ C!Extends(wire', wire) /\ fmt' = fmt /\ squeezer' # C!NoHandle
      /\ accepted \in Nat /\ accepted' \in Nat /\ accepted' >= accepted
      /\ op = "finish" => accepted' = accepted
    BY DEF Called
<1>2. Placed /\ Sending /\ Receiving
    BY DEF PInv
<1>3. Sending'
    BY <1>2, CallKeepsSending
<1>4. D!Inv' /\ D!Reports'
    BY <1>1, <1>3, ArrivesUnchanged
<1>5. /\ sweller' = sweller /\ fed' = fed /\ got' = got /\ told' = told /\ received' = received
    BY DEF receiver
<1>6. pc # "none" /\ pc' # "none" /\ pc' \in {"push", "flush", "finish", "closed"}
    BY DEF Goes
<1>7. Placed'
    BY <1>1, <1>2, <1>5, <1>6 DEF Placed
<1>8. Receiving'
    <2>1. fed < Len(wire) => fed < Len(wire')
        <3>1. Len(wire) \in Nat /\ Len(wire) <= Len(wire') /\ wire' \in Seq(D!Unit)
            BY <1>1, <1>3, WireGrows
        <3>2. fed \in Nat
            BY DEF PInv, D!Inv, D!TypeOK
        <3> QED BY <3>1, <3>2
    <2>2. got <= accepted'
        <3>1. got \in Nat /\ got <= accepted
            BY DEF PInv, D!Inv, D!TypeOK, Receiving
        <3> QED BY <1>1, <3>1
    <2>3. "done" \in told => Finishing' /\ accepted' = accepted
        BY <1>1, <1>2 DEF Receiving, Finishing, Goes
    <2> QED BY <1>2, <1>5, <2>1, <2>2, <2>3 DEF Receiving
<1> QED BY <1>1, <1>3, <1>4, <1>7, <1>8 DEF PInv
(***************************************************************************)
(* The receiver's pushes: it never holds more than was sent, and what it   *)
(* has where a stream ends is everything.                                  *)
(***************************************************************************)
LEMMA WireReached ==
    ASSUME C!CInv, NEW k \in 0 .. Len(wire)
    PROVE  /\ wire \in Seq(D!Unit) /\ Len(wire) \in Nat /\ accepted \in Nat
           /\ D!Reached(wire, k) = IF k = 0 THEN 0 ELSE wire[k].upto
           /\ D!Reached(wire, k) \in Nat /\ D!Reached(wire, k) <= accepted
           /\ \A i \in 1 .. k : wire[i].upto \in Nat /\ wire[i].upto <= D!Reached(wire, k)
<1>1. /\ wire \in Seq(D!Unit) /\ D!Sorted(wire) /\ accepted \in Nat
      /\ C!Upto(wire) \in Nat /\ C!Upto(wire) <= accepted
    BY WireCarries, UnitsAgree DEF Carried, C!Received, C!Well, D!Sorted
<1>2. \A i \in 1 .. Len(wire) : wire[i].upto \in Nat /\ wire[i].upto <= C!Upto(wire)
    BY <1>1, DAssumed, UnitsAgree, D!SortedUpto
<1>3. /\ D!Reached(wire, k) = IF k = 0 THEN 0 ELSE wire[k].upto
      /\ D!Reached(wire, k) \in Nat
      /\ \A i \in 1 .. k : wire[i].upto \in Nat /\ wire[i].upto <= D!Reached(wire, k)
    BY <1>1, DAssumed, D!ReachedType
<1>4. D!Reached(wire, k) <= accepted
    BY <1>1, <1>2, <1>3
<1> QED BY <1>1, <1>3, <1>4

LEMMA GotBounded ==
    C!CInv /\ D!Inv /\ D!Reports /\ "corrupt" \notin told => got <= accepted
<1> SUFFICES ASSUME C!CInv, D!Inv, D!Reports, "corrupt" \notin told
             PROVE  got <= accepted
    OBVIOUS
<1>1. D!DeliversWhatItConsumed
    BY DAssumed, D!InvDelivers DEF D!Reports
<1> DEFINE k == IF D!Zstd /\ fed < Len(wire) THEN fed + 1 ELSE fed
<1>2. fed <= Len(wire) /\ got <= D!Reached(wire, k)
    BY <1>1 DEF D!DeliversWhatItConsumed, D!Content, D!Reached
<1>3. fed \in Nat /\ got \in Nat /\ Len(wire) \in Nat
    BY WireReached DEF D!Inv, D!TypeOK
<1>4. k \in 0 .. Len(wire)
    BY <1>2, <1>3
<1> HIDE DEF k
<1>5. D!Reached(wire, k) \in Nat /\ D!Reached(wire, k) <= accepted /\ accepted \in Nat
    BY <1>4, WireReached
<1> QED BY <1>2, <1>3, <1>5

LEMMA EndDelivers ==
    C!CInv /\ D!Inv /\ D!Reports /\ Placed /\ Sending /\ pc # "none" /\ D!Ok /\ received.r.done
        => Finishing /\ got = accepted
<1> SUFFICES ASSUME C!CInv, D!Inv, D!Reports, Placed, Sending, pc # "none", D!Ok, received.r.done
             PROVE  Finishing /\ got = accepted
    OBVIOUS
<1>1. fed \in D!Ends(fmt, wire) /\ got = D!Reached(wire, fed)
    BY DEF D!Reports, D!DoneAtEnd
<1>2. Carried
    BY WireCarries
<1>3. fed \in 0 .. Len(wire) /\ wire \in Seq(D!Unit) /\ DOMAIN wire = 1 .. Len(wire)
    BY DEF D!Inv, D!TypeOK
<1>4. PICK j \in 1 .. Len(wire) : wire[j].kind = "last" /\ fed = j + D!TailLen(fmt)
    BY <1>1, <1>3 DEF D!Ends
<1>5. D!TailLen(fmt) \in Nat
    BY DAssumed, D!TailLenType
<1>6. j \in 1 .. fed /\ fed # 0
    BY <1>3, <1>4, <1>5
<1>7. ~C!Unfinished(squeezer)
    BY <1>2, <1>4 DEF Carried, C!Received, C!NoLast
<1>8. Finishing
    BY <1>7 DEF Placed, Sending, Finishing
<1>9. C!LastsAt(wire, accepted)
    <2>1. wire # <<>>
        BY <1>3, <1>4
    <2>2. squeezer.alt \in {"zlib_squeezer", "zstd_squeezer"}
        BY <1>2, <2>1 DEF Carried, C!Received
    <2> QED BY <1>2, <1>8, <2>2 DEF Carried, C!Received, Sending, Zstd
<1>10. wire[j].upto = accepted
    BY <1>4, <1>9 DEF C!LastsAt
<1>11. D!Reached(wire, fed) \in Nat /\ D!Reached(wire, fed) <= accepted
       /\ wire[j].upto <= D!Reached(wire, fed) /\ accepted \in Nat
    BY <1>3, <1>6, WireReached
<1> QED BY <1>1, <1>8, <1>10, <1>11

LEMMA ReceiveKeepsPInv ==
    ASSUME PInv, Receive
    PROVE  PInv' /\ got <= got'
<1>1. PICK n \in 1 .. Chunk, size \in SwellSizes : D!push(n, Span(size))
    BY DEF Receive
<1> DEFINE out == Span(size)
<1>2. n \in 0 .. Chunk /\ n \in Nat /\ out \in D!Spans(MaxSpan)
    BY SpanFacts, PipelineAssumption
<1> HIDE DEF out
<1>3. /\ fmt' = fmt /\ squeezer' = squeezer /\ accepted' = accepted /\ wire' = wire
      /\ sent' = sent /\ pc' = pc /\ flushed' = flushed
      /\ pc # "none" /\ told = {} /\ fed < Len(wire)
    BY DEF Receive, sender
<1>4. C!CInv /\ D!Inv /\ D!Reports /\ Placed /\ Sending /\ Receiving
    BY DEF PInv
<1>5. C!CInv'
    BY <1>3, <1>4, CAssumed, C!NextCInv DEF C!vars
<1>6. D!Next
    BY <1>1, <1>2 DEF D!Next, out
<1>7. D!Inv' /\ D!Reports'
    BY <1>4, <1>6, DAssumed, D!NextKeepsInv
<1>8. /\ sweller' # D!NoHandle
      /\ "done" \in told' => D!Ok' /\ received'.r.done
      /\ received'.r.kind # "ok" => fed' = fed /\ got' = got
      /\ "corrupt" \in told' => received'.r.kind # "ok"
      /\ got <= got'
    <2>1. D!push(n, out)
        BY <1>1 DEF out
    <2> QED BY <1>2, <1>3, <1>4, <2>1, DAssumed, D!PushTells
<1>9. Placed' /\ Sending'
    BY <1>3, <1>4, <1>8 DEF Placed, Sending, Finishing, Zlib, Zstd
<1>10. "corrupt" \notin told' => got' <= accepted'
    <2>1. (C!CInv /\ D!Inv /\ D!Reports /\ "corrupt" \notin told => got <= accepted)'
        BY GotBounded, PTL
    <2> QED BY <1>5, <1>7, <2>1
<1>11. D!Ok' /\ received'.r.done => Finishing' /\ got' = accepted'
    <2>1. (C!CInv /\ D!Inv /\ D!Reports /\ Placed /\ Sending /\ pc # "none" /\ D!Ok
               /\ received.r.done => Finishing /\ got = accepted)'
        BY EndDelivers, PTL
    <2> QED BY <1>3, <1>5, <1>7, <1>9, <2>1
<1>12. Receiving'
    BY <1>3, <1>4, <1>8, <1>10, <1>11 DEF Receiving
<1> QED BY <1>5, <1>7, <1>8, <1>9, <1>12 DEF PInv
(***************************************************************************)
(* The other steps.                                                        *)
(***************************************************************************)
\* Before the objects are made nothing is sent and nothing is there.
LEMMA NothingYet ==
    ASSUME PInv, pc = "none"
    PROVE  /\ squeezer = C!NoHandle /\ sweller = D!NoHandle /\ received = D!NoCall
           /\ accepted = 0 /\ flushed = 0 /\ fed = 0 /\ got = 0 /\ told = {}
<1>1. squeezer = C!NoHandle /\ sweller = D!NoHandle /\ received = D!NoCall /\ flushed \in 0 .. accepted
    BY DEF PInv, Placed
<1>2. accepted = 0
    BY <1>1, CAssumed, C!NoHandleParts DEF PInv, C!CInv, C!IInv, C!NoLossNoDuplication
<1>3. fed = 0 /\ got = 0 /\ told = {}
    BY <1>1 DEF PInv, D!Inv, D!Zlib, D!Zstd, D!NoHandle
<1> QED BY <1>1, <1>2, <1>3

LEMMA OpenKeepsPInv ==
    ASSUME PInv, NEW f \in Requests, Open(f)
    PROVE  PInv' /\ accepted' = 0 /\ got' = 0 /\ told' = {} /\ pc' = "push"
<1>1. /\ pc = "none" /\ pc' = "push" /\ C!Construct(f, 6) /\ sweller' = D!make_sweller(f)
      /\ fed' = fed /\ got' = got /\ told' = told /\ received' = received /\ flushed' = flushed
    BY DEF Open
<1>2. /\ squeezer = C!NoHandle /\ sweller = D!NoHandle /\ received = D!NoCall
      /\ flushed = 0 /\ fed = 0 /\ got = 0 /\ told = {}
    BY <1>1, NothingYet
<1>3. fmt' = f /\ squeezer' = C!make_squeezer(f) /\ accepted' = 0 /\ wire' = <<>>
    BY <1>1 DEF C!Construct
<1>4. C!CInv'
    <2>1. C!Next
        BY <1>1 DEF C!Next
    <2> QED BY <2>1, CAssumed, C!NextCInv DEF PInv
<1>5. f \in D!Formats
    BY PipelineAssumption DEF D!Formats, D!ZlibFormats, D!ZstdFormats, Formats, ZlibFormats, ZstdFormats
<1>6. D!Inv'
    <2>1. D!Streamed(fmt', wire')
        BY <1>3 DEF D!Streamed, D!Sorted, D!Framed
    <2>2. [c |-> fmt', w |-> wire'] \in [c : D!Formats \cup {"none"}, w : Seq(D!Unit)]
        BY <1>3, <1>5
    <2>3. received' \in [op : {"none", "construct", "push"}, n : Nat, out : D!AnySpan, r : D!Result]
        BY <1>1 DEF PInv, D!Inv, D!TypeOK
    <2>4. D!Inv
        BY DEF PInv
    <2> QED BY <1>1, <1>2, <1>3, <1>5, <2>1, <2>2, <2>3, <2>4, DAssumed, D!MadeKeepsInv
<1>7. D!Reports'
    <2>1. ~D!Ok'
        BY <1>1, <1>2 DEF D!Ok, D!NoCall
    <2> QED BY <2>1 DEF D!Reports, D!AllOut, D!DoneAtEnd, D!PushProgress
<1>8. LET h == C!make_squeezer(f)
      IN  /\ C!Unfinished(h) /\ h # C!NoHandle
          /\ h.alt = "zlib_squeezer" => f # "zstd"
          /\ h.alt = "zstd_squeezer" => C!Framed(h.x.frame)
    BY CAssumed, C!MadeSends
<1>9. sweller' # D!NoHandle
    BY <1>1 DEF D!make_sweller, D!ZlibHandle, D!ZstdHandle, D!StubHandle, D!NoHandle
<1>10. Placed' /\ Sending'
    BY <1>1, <1>2, <1>3, <1>8, <1>9 DEF Placed, Sending, Finishing, Zlib, Zstd
<1>11. Receiving'
    BY <1>1, <1>2, <1>3 DEF Receiving
<1> QED BY <1>1, <1>2, <1>3, <1>4, <1>6, <1>7, <1>10, <1>11 DEF PInv

LEMMA CloseKeepsPInv ==
    ASSUME PInv, Close
    PROVE  PInv' /\ accepted' = 0 /\ got' = 0 /\ pc' = "none"
<1>1. C!Destroy /\ D!Destroy /\ pc' = "none" /\ flushed' = 0
    BY DEF Close
<1>2. Init'
    BY <1>1 DEF Init, C!Destroy, D!Destroy
<1>3. PInv'
    BY <1>2, InitPInv, PTL
<1> QED BY <1>2, <1>3 DEF Init

\* A pause, its end, and steps that change nothing.
LEMMA WaitKeepsPInv ==
    ASSUME PInv, UNCHANGED <<fmt, sender, receiver, flushed>>,
           pc' = pc \/ (pc \in {"push", "idle"} /\ pc' \in {"push", "idle"})
    PROVE  PInv'
<1>1. /\ fmt' = fmt /\ squeezer' = squeezer /\ accepted' = accepted /\ wire' = wire
      /\ sent' = sent /\ sweller' = sweller /\ fed' = fed /\ got' = got /\ told' = told
      /\ received' = received /\ flushed' = flushed
    BY DEF sender, receiver
<1>2. C!CInv /\ D!Inv /\ D!Reports /\ Placed /\ Sending /\ Receiving
    BY DEF PInv
<1>3. C!CInv'
    BY <1>1, <1>2, CAssumed, C!NextCInv DEF C!vars
<1>4. D!Inv' /\ D!Reports'
    BY <1>1, <1>2, DAssumed, D!NextKeepsInv DEF D!vars
<1>5. Placed' /\ Sending' /\ Receiving'
    BY <1>1, <1>2 DEF Placed, Sending, Receiving, Finishing, Zlib, Zstd
<1> QED BY <1>3, <1>4, <1>5 DEF PInv
\* The sender's steps are calls.
LEMMA PushCalls ==
    ASSUME PInv, Push
    PROVE  \E size \in PushSizes : Called("push", Span(size)) /\ Goes("push") /\ flushed' = flushed
<1>1. PICK n \in 1 .. Chunk, size \in PushSizes : C!push(n, Span(size))
    BY DEF Push
<1>2. n \in Nat /\ size \in 1 .. MaxSpan
    BY PipelineAssumption
<1>3. Called("push", Span(size))
    BY <1>1, <1>2, CallFacts DEF PInv
<1> QED BY <1>3 DEF Push, Goes

LEMMA FlushCalls ==
    ASSUME PInv, Flush
    PROVE  \E size \in FlushSizes :
               Called("flush", Span(size)) /\ Goes("flush") /\ flushed' \in {flushed, accepted}
<1>1. PICK size \in FlushSizes : C!flush(Span(size))
    BY DEF Flush
<1>2. size \in 1 .. MaxSpan
    BY PipelineAssumption
<1>3. Called("flush", Span(size))
    BY <1>1, <1>2, CallFacts DEF PInv
<1> QED BY <1>3 DEF Flush, Goes

LEMMA FinishCalls ==
    ASSUME PInv, Finish
    PROVE  \E size \in FinishSizes[fmt] :
               Called("finish", Span(size)) /\ Goes("finish") /\ flushed' = flushed
<1>0. fmt \in Requests
    BY DEF PInv, Placed, Finish
<1>1. PICK size \in FinishSizes[fmt] : C!finish(Span(size))
    BY DEF Finish
<1>2. size \in 1 .. MaxSpan
    BY <1>0, PipelineAssumption
<1>3. Called("finish", Span(size))
    BY <1>1, <1>2, CallFacts DEF PInv
<1> QED BY <1>3 DEF Finish, Goes

LEMMA NextKeepsPInv == PInv /\ [Next]_vars => PInv'
<1> SUFFICES ASSUME PInv, [Next]_vars
             PROVE  PInv'
    OBVIOUS
<1>1. ASSUME NEW f \in Requests, Open(f)
      PROVE  PInv'
    BY <1>1, OpenKeepsPInv
<1>2. CASE Push
    <2>1. PICK size \in PushSizes :
              Called("push", Span(size)) /\ Goes("push") /\ flushed' = flushed
        BY <1>2, PushCalls
    <2>2. flushed' \in 0 .. accepted'
        BY <2>1 DEF Called, PInv, Placed
    <2> QED BY <1>2, <2>1, <2>2, CallKeepsPInv DEF Push
<1>3. CASE Flush
    <2>1. PICK size \in FlushSizes :
              Called("flush", Span(size)) /\ Goes("flush") /\ flushed' \in {flushed, accepted}
        BY <1>3, FlushCalls
    <2>2. flushed' \in 0 .. accepted'
        BY <2>1 DEF Called, PInv, Placed
    <2> QED BY <1>3, <2>1, <2>2, CallKeepsPInv DEF Flush
<1>4. CASE Finish
    <2>1. PICK size \in FinishSizes[fmt] :
              Called("finish", Span(size)) /\ Goes("finish") /\ flushed' = flushed
        BY <1>4, FinishCalls
    <2>2. flushed' \in 0 .. accepted'
        BY <2>1 DEF Called, PInv, Placed
    <2> QED BY <1>4, <2>1, <2>2, CallKeepsPInv DEF Finish
<1>5. CASE Pause
    BY <1>5, WaitKeepsPInv DEF Pause
<1>6. CASE Resume
    BY <1>6, WaitKeepsPInv DEF Resume
<1>7. CASE Receive
    BY <1>7, ReceiveKeepsPInv
<1>8. CASE Close
    BY <1>8, CloseKeepsPInv
<1>9. CASE UNCHANGED vars
    BY <1>9, WaitKeepsPInv DEF vars
<1> QED BY <1>1, <1>2, <1>3, <1>4, <1>5, <1>6, <1>7, <1>8, <1>9 DEF Next

\* The invariant of the pipeline holds throughout.
THEOREM PipelineInvariant == Spec => []PInv
<1> QED BY InitPInv, NextKeepsPInv, PTL DEF Spec

(***************************************************************************)
(* The types, for every instance: both objects' invariants, the sender's   *)
(* place, and that no flush is remembered of symbols never accepted        *)
(* (the chunk loops of src/test/unit/stream_test.cpp).                     *)
(***************************************************************************)
THEOREM PipelineTypeCorrect == Spec => []TypeOK
<1>1. PInv => TypeOK
    BY DEF PInv, C!CInv, C!IInv, D!Inv, Placed, TypeOK
<1> QED BY <1>1, PipelineInvariant, PTL
-----------------------------------------------------------------------------
(***************************************************************************)
(* The refinement: each step is one of the contract's or changes neither   *)
(* end.                                                                    *)
(***************************************************************************)
Phase == IF pc = "none" THEN "none" ELSE IF "done" \in told THEN "ended" ELSE "open"

ContractStep == [Contract!CNext]_<<accepted, got, Phase>>

LEMMA CallIsContractStep ==
    ASSUME PInv, NEW op \in {"push", "flush", "finish"}, NEW out, Called(op, out), Goes(op),
           UNCHANGED receiver
    PROVE  ContractStep
<1>1. /\ got' = got /\ told' = told /\ pc # "none" /\ pc' # "none"
      /\ accepted \in Nat /\ accepted' \in Nat /\ accepted' >= accepted
      /\ op = "finish" => accepted' = accepted
    BY DEF receiver, Called, Goes
<1>2. got \in Nat /\ got <= accepted /\ ("done" \in told => Finishing)
    BY DEF PInv, D!Inv, D!TypeOK, Receiving
<1>3. CASE "done" \in told
    <2>1. accepted' = accepted
        BY <1>1, <1>2, <1>3 DEF Finishing, Goes
    <2> QED BY <1>1, <2>1 DEF ContractStep, Phase
<1>4. CASE "done" \notin told
    <2>1. Contract!Transfer
        BY <1>1, <1>2, <1>4 DEF Contract!Transfer, Phase
    <2> QED BY <2>1 DEF ContractStep, Contract!CNext, Phase
<1> QED BY <1>3, <1>4

LEMMA ReceiveIsContractStep ==
    ASSUME PInv, Receive
    PROVE  ContractStep
<1>1. /\ pc # "none" /\ pc' = pc /\ told = {} /\ accepted' = accepted
    BY DEF Receive, sender
<1>2. PInv' /\ got <= got'
    BY ReceiveKeepsPInv
<1>3. /\ got' \in Nat /\ got' <= accepted'
      /\ "done" \in told' => got' = accepted'
    BY <1>2 DEF PInv, D!Inv, D!TypeOK, Receiving
<1>4. got \in Nat /\ accepted \in Nat
    BY DEF PInv, D!Inv, D!TypeOK, C!CInv, C!IInv, C!TypeOK
<1>5. CASE "done" \in told'
    <2>1. Contract!End
        BY <1>1, <1>3, <1>5 DEF Contract!End, Phase
    <2> QED BY <2>1 DEF ContractStep, Contract!CNext, Phase
<1>6. CASE "done" \notin told'
    <2>1. Contract!Transfer
        BY <1>1, <1>2, <1>3, <1>4, <1>6 DEF Contract!Transfer, Phase
    <2> QED BY <2>1 DEF ContractStep, Contract!CNext, Phase
<1> QED BY <1>5, <1>6

LEMMA NextIsContractStep == PInv /\ [Next]_vars => ContractStep
<1> SUFFICES ASSUME PInv, [Next]_vars
             PROVE  ContractStep
    OBVIOUS
<1>1. ASSUME NEW f \in Requests, Open(f)
      PROVE  ContractStep
    <2>1. pc = "none" /\ pc' = "push" /\ accepted' = 0 /\ got' = 0 /\ told' = {}
        BY <1>1, OpenKeepsPInv DEF Open
    <2>2. Contract!Open
        BY <2>1 DEF Contract!Open, Phase
    <2> QED BY <2>2 DEF ContractStep, Contract!CNext, Phase
<1>2. CASE Push
    BY <1>2, PushCalls, CallIsContractStep DEF Push
<1>3. CASE Flush
    BY <1>3, FlushCalls, CallIsContractStep DEF Flush
<1>4. CASE Finish
    BY <1>4, FinishCalls, CallIsContractStep DEF Finish
<1>5. CASE Pause
    BY <1>5 DEF Pause, sender, receiver, ContractStep, Phase
<1>6. CASE Resume
    BY <1>6 DEF Resume, sender, receiver, ContractStep, Phase
<1>7. CASE Receive
    BY <1>7, ReceiveIsContractStep
<1>8. CASE Close
    <2>1. pc = "closed" /\ pc' = "none" /\ accepted' = 0 /\ got' = 0
        BY <1>8, CloseKeepsPInv DEF Close
    <2>2. Contract!Close
        BY <2>1 DEF Contract!Close, Phase
    <2> QED BY <2>2 DEF ContractStep, Contract!CNext, Phase
<1>9. CASE UNCHANGED vars
    BY <1>9 DEF vars, sender, receiver, ContractStep, Phase
<1> QED BY <1>1, <1>2, <1>3, <1>4, <1>5, <1>6, <1>7, <1>8, <1>9 DEF Next

(***************************************************************************)
(* End to end, whatever the format, the backends, the portions, the spans  *)
(* and the order of the two loops' steps, and whatever fails on the way,   *)
(* the two objects and the wire implement StreamContract: the receiver     *)
(* never runs ahead of the sender and never goes back, and it is told      *)
(* done (src/src/stream.cpp, push of decompressor) when everything the     *)
(* sender handed over has arrived, and not before.                         *)
(***************************************************************************)
THEOREM PipelineImplementsContract == Spec => ImplementsContract
<1>1. Init => Contract!CInit
    BY DEF Init, Contract!CInit
<1>2. Spec => Contract!CInit /\ [][Contract!CNext]_<<accepted, got, Phase>>
    BY <1>1, InitPInv, NextKeepsPInv, NextIsContractStep, PTL DEF Spec, ContractStep
<1> QED BY <1>2, PTL DEF ImplementsContract, Contract!CSpec, Contract!cvars, Phase
-----------------------------------------------------------------------------
(***************************************************************************)
(* With a backend for each format, memory, and a span for the end that     *)
(* holds it, nothing is refused: the two objects stay of one format, and   *)
(* a zstd frame is ended once, in one call.                                *)
(***************************************************************************)
LEMMA CallFinds ==
    ASSUME GInv, pc # "none", NEW op, NEW out, Called(op, out)
    PROVE  /\ fmt \in Requests /\ fmt' = fmt /\ sent'.out = out
           /\ Zlib' = Zlib /\ Zstd' = Zstd
           /\ Zlib => C!ZlibSends(squeezer, op, out, Outcome')
           /\ Zstd => C!ZstdSends(squeezer, op, out, Outcome')
           /\ Outcome'.h = squeezer' /\ Outcome'.r = sent'.r
           /\ pc \in {"push", "flush"} => C!Unfinished(squeezer)
           /\ sent.r.kind = "ok" /\ received.r.kind = "ok" /\ Paired
<1>1. fmt \in Requests /\ (pc \in {"push", "flush"} => C!Unfinished(squeezer))
    BY DEF GInv, PInv, Placed, Sending
<1>2. sent.r.kind = "ok" /\ received.r.kind = "ok" /\ Paired
    BY DEF GInv, NothingRefused
<1>3. squeezer'.alt = squeezer.alt /\ C!Sends(squeezer, op, out, Outcome') /\ fmt' = fmt
      /\ sent'.out = out
    BY DEF Called
<1>4. Outcome'.h = squeezer' /\ Outcome'.r = sent'.r
    BY DEF Outcome
<1> QED BY <1>1, <1>2, <1>3, <1>4 DEF C!Sends, Zlib, Zstd

LEMMA MoreSucceeds ==
    ASSUME Working, GInv, NEW op \in {"push", "flush"}, NEW out, Called(op, out), Goes(op),
           UNCHANGED receiver
    PROVE  NothingRefused' /\ Paired'
<1>1. op # "finish" /\ pc \in {"push", "flush"} /\ pc' \in {"push", "flush"}
    BY DEF Goes
<1>2. /\ fmt \in Requests /\ fmt' = fmt
      /\ Zlib' = Zlib /\ Zstd' = Zstd
      /\ Zlib => C!ZlibSends(squeezer, op, out, Outcome')
      /\ Zstd => C!ZstdSends(squeezer, op, out, Outcome')
      /\ Outcome'.h = squeezer' /\ Outcome'.r = sent'.r
      /\ C!Unfinished(squeezer) /\ received.r.kind = "ok" /\ Paired
    BY <1>1, CallFinds
<1>3. received' = received /\ sweller' = sweller
    BY DEF receiver
<1>4. CASE fmt = "zstd"
    <2>1. Zstd /\ D!Zstd /\ C!Lean(squeezer.x.frame)
        BY <1>1, <1>2, <1>4 DEF Paired, Finishing
    <2>2. sent'.r.kind = "ok" /\ C!Lean(squeezer'.x.frame)
        BY <1>1, <1>2, <1>4, <2>1 DEF C!ZstdSends, Working
    <2>3. D!Zstd'
        BY <1>3, <2>1 DEF D!Zstd
    <2> QED BY <1>1, <1>2, <1>3, <1>4, <2>1, <2>2, <2>3 DEF NothingRefused, Paired, Finishing
<1>5. CASE fmt # "zstd"
    <2>1. Zlib /\ D!Zlib /\ squeezer.z.fmt = fmt /\ sweller.z.fmt = fmt
        BY <1>2, <1>5 DEF Paired
    <2>2. sent'.r.kind = "ok" /\ squeezer'.z.fmt = fmt
        BY <1>1, <1>2, <2>1 DEF C!ZlibSends
    <2>3. D!Zlib'
        BY <1>3, <2>1 DEF D!Zlib
    <2> QED BY <1>2, <1>3, <1>5, <2>1, <2>2, <2>3 DEF NothingRefused, Paired
<1> QED BY <1>4, <1>5

LEMMA FinishSucceeds ==
    ASSUME Working, GInv, Finish
    PROVE  NothingRefused' /\ Paired'
<1>1. PICK size \in FinishSizes[fmt] :
          Called("finish", Span(size)) /\ Goes("finish")
    BY FinishCalls DEF GInv
<1> DEFINE out == Span(size)
<1>2. pc \in {"push", "finish"} /\ pc' \in {"finish", "closed"}
    BY <1>1 DEF Goes
<1>3. /\ fmt \in Requests /\ fmt' = fmt /\ sent'.out = out
      /\ Zlib' = Zlib /\ Zstd' = Zstd
      /\ Zlib => C!ZlibSends(squeezer, "finish", out, Outcome')
      /\ Zstd => C!ZstdSends(squeezer, "finish", out, Outcome')
      /\ Outcome'.h = squeezer' /\ Outcome'.r = sent'.r
      /\ pc \in {"push", "flush"} => C!Unfinished(squeezer)
      /\ received.r.kind = "ok" /\ Paired
    BY <1>1, <1>2, CallFinds
<1>4. out.size = size /\ size \in Nat
    BY <1>3, PipelineAssumption DEF Span
<1>5. C!uInt(size) > IF fmt = "zstd" THEN Source + 2 ELSE 0
    BY <1>3 DEF Working
<1> HIDE DEF out
<1>6. received' = received /\ sweller' = sweller
    BY DEF Finish, receiver
<1>7. CASE fmt = "zstd"
    <2>1. Zstd /\ D!Zstd /\ pc = "push"
        BY <1>2, <1>3, <1>7 DEF Paired
    <2>2. C!Lean(squeezer.x.frame) /\ C!Unfinished(squeezer) /\ accepted = Source
        BY <1>3, <1>7, <2>1 DEF Paired, Finishing, Finish
    <2>3. squeezer.x.consumed = Source
        BY <2>1, <2>2 DEF GInv, PInv, C!CInv, C!IInv, C!NoLossNoDuplication, C!Taken, Zstd
    <2>4. C!uInt(size) \in Nat /\ C!uInt(size) <= size /\ Source + 2 < C!uInt(size) /\ Source \in Nat
        <3>1. /\ D!uInt(size) \in Nat /\ D!uInt(size) <= size
              /\ C!uInt(size) = D!uInt(size)
            BY <1>4, DAssumed, D!uIntBelow DEF C!uInt, D!uInt
        <3> QED BY <1>5, <1>7, <3>1, PipelineAssumption
    <2>5. squeezer.x.consumed + 2 < out.size
        BY <1>4, <2>3, <2>4
    <2>6. sent'.r.kind = "ok"
        BY <1>3, <1>7, <2>1 DEF C!ZstdSends, Working
    <2>7. sent'.r.out <= Source + 2 /\ C!OneFrame(squeezer'.x.frame)
        BY <1>3, <2>1, <2>2, <2>3, <2>5, <2>6 DEF C!ZstdSends
    <2>8. sent'.r.out \in Nat
        BY <1>1 DEF Called, C!CInv, C!IInv, C!TypeOK, C!Call, C!Result
    <2>9. C!RoomLeft'
        BY <1>3, <1>4, <2>4, <2>7, <2>8 DEF C!RoomLeft, C!uInt
    <2>10. pc' = "closed"
        BY <2>9 DEF Finish
    <2>11. D!Zstd'
        BY <1>6, <2>1 DEF D!Zstd
    <2> QED BY <1>3, <1>6, <1>7, <2>1, <2>6, <2>7, <2>10, <2>11
            DEF NothingRefused, Paired, Finishing
<1>8. CASE fmt # "zstd"
    <2>1. Zlib /\ D!Zlib /\ squeezer.z.fmt = fmt /\ sweller.z.fmt = fmt
        BY <1>3, <1>8 DEF Paired
    <2>2. sent'.r.kind = "ok" /\ squeezer'.z.fmt = fmt
        BY <1>3, <1>4, <1>5, <1>8, <2>1 DEF C!ZlibSends
    <2>3. D!Zlib'
        BY <1>6, <2>1 DEF D!Zlib
    <2> QED BY <1>3, <1>6, <1>8, <2>1, <2>2, <2>3 DEF NothingRefused, Paired
<1> QED BY <1>7, <1>8
\* Where a stream on the wire ends, the wire ends.
LEMMA WireEndsOnce ==
    ASSUME PInv, Paired, pc # "none", NEW i \in D!Ends(fmt, wire), i <= Len(wire)
    PROVE  i = Len(wire)
<1>1. Carried
    BY WireCarries DEF PInv
<1>2. wire \in Seq(D!Unit)
    BY <1>1, UnitsAgree DEF Carried, C!Received
<1>3. PICK j \in 1 .. Len(wire) : wire[j].kind = "last" /\ i = j + D!TailLen(fmt)
    BY <1>2 DEF D!Ends
<1>4. CASE fmt = "zstd"
    <2>1. Zstd /\ i = j
        BY <1>2, <1>3, <1>4 DEF Paired, D!TailLen
    <2>2. Finishing
        BY <1>1, <1>3 DEF Carried, C!Received, C!NoLast, PInv, Placed, Sending, Finishing
    <2>3. C!OneFrame(wire)
        BY <1>1, <1>4, <2>1, <2>2 DEF Paired, Carried, C!Received, Zstd
    <2> QED BY <1>3, <2>1, <2>3 DEF C!OneFrame
<1>5. CASE fmt # "zstd"
    <2>1. Zlib /\ squeezer.z.fmt = fmt
        BY <1>5 DEF Paired
    <2>2. Len(wire) <= j + C!TailLen(fmt)
        BY <1>1, <1>3, <2>1 DEF Carried, C!Received, Zlib
    <2>3. C!TailLen(fmt) = D!TailLen(fmt) /\ D!TailLen(fmt) \in Nat /\ Len(wire) \in Nat
        BY <1>2, DAssumed, D!TailLenType, UnitsAgree
    <2> QED BY <1>3, <2>2, <2>3
<1> QED BY <1>4, <1>5

LEMMA WireSound ==
    ASSUME PInv, Paired, pc # "none", NEW n \in Nat, fed \in Nat, fed + n <= Len(wire)
    PROVE  D!Sound(fed, n)
<1> DEFINE s == [c |-> fmt, w |-> wire]
<1>1. Carried
    BY WireCarries DEF PInv
<1>2. wire \in Seq(D!Unit) /\ Len(wire) \in Nat /\ \A i \in 1 .. Len(wire) : wire[i].kind # "bad"
    BY <1>1, UnitsAgree DEF Carried, C!Received, C!Well
<1>3. ASSUME NEW i \in 1 .. fed + n
      PROVE  s.w[i].kind # "bad" /\ (i \in D!StreamEnds => i = fed + n)
    <2>1. i \in 1 .. Len(wire)
        BY <1>2
    <2>2. i \in D!StreamEnds => i = Len(wire)
        BY <2>1, WireEndsOnce DEF D!StreamEnds
    <2> QED BY <1>2, <2>1, <2>2
<1>4. /\ sweller.alt \in {"zlib_sweller", "zstd_sweller"}
      /\ s.c = IF D!Zlib THEN sweller.z.fmt ELSE "zstd"
    BY DEF Paired, D!Zlib, D!Zstd
<1> QED BY <1>3, <1>4 DEF D!Sound

LEMMA ReceiveSucceeds ==
    ASSUME GInv, Receive
    PROVE  NothingRefused' /\ Paired'
<1>1. PICK n \in 1 .. Chunk, size \in SwellSizes : D!push(n, Span(size))
    BY DEF Receive
<1>2. /\ fmt' = fmt /\ squeezer' = squeezer /\ sent' = sent /\ pc' = pc
      /\ pc # "none" /\ told = {} /\ PInv /\ Paired
      /\ sent.r.kind = "ok" /\ received.r.kind = "ok"
    BY DEF Receive, sender, GInv, NothingRefused
<1> DEFINE out == Span(size)
<1>3. n \in Nat /\ n # 0 /\ out \in D!Spans(MaxSpan) /\ out.data = "buffer" /\ out.size # 0
    BY SpanFacts, PipelineAssumption
<1>4. D!push(n, out)
    BY <1>1
<1> HIDE DEF out
<1>5. D!Inv /\ fed \in Nat /\ Len(wire) \in Nat
    BY <1>2 DEF PInv, D!Inv, D!TypeOK
<1>6. fed + n <= Len(wire)
    <2>1. n <= Len(wire) - fed
        BY <1>4 DEF D!push
    <2> QED BY <1>3, <1>5, <2>1
<1>7. D!Sound(fed, n)
    BY <1>2, <1>3, <1>5, <1>6, WireSound
<1>8. /\ sweller'.alt = sweller.alt /\ received'.n = n /\ received'.out = out
      /\ D!Zlib => sweller'.z.fmt = sweller.z.fmt
    BY <1>3, <1>4, <1>5, DAssumed, D!PushTells
<1>9. ~D!Refusable(received'.out)
    BY <1>3, <1>8 DEF D!Refusable
<1>10. received'.r.kind = "ok"
    <2> SUFFICES ASSUME received'.r.kind # "ok"
                 PROVE  FALSE
        OBVIOUS
    <2>1. D!Sound(fed, received'.n)
        BY <1>7, <1>8
    <2>2. n = 0 \/ out.size = 0
        BY <1>2, <1>3, <1>4, <1>5, <1>9, <2>1, DAssumed, D!OnlyIdling
    <2> QED BY <1>3, <2>2
<1>11. Paired'
    BY <1>2, <1>8 DEF Paired, Finishing, Zlib, Zstd, D!Zlib, D!Zstd
<1> QED BY <1>2, <1>10, <1>11 DEF NothingRefused

LEMMA OpenPairs ==
    ASSUME Working, GInv, NEW f \in Requests, Open(f)
    PROVE  NothingRefused' /\ Paired'
<1>1. /\ C!Construct(f, 6) /\ sweller' = D!make_sweller(f) /\ received' = received /\ pc' = "push"
      /\ received.r.kind = "ok"
    BY DEF Open, GInv, NothingRefused
<1>2. fmt' = f /\ squeezer' = C!make_squeezer(f) /\ sent'.r.kind = "ok"
    BY <1>1 DEF C!Construct, C!NoCall, C!Progress
<1>3. LET h == C!make_squeezer(f)
      IN  /\ h.alt = "zlib_squeezer" => h.z.fmt = C!window_bits_for(f)
          /\ h.alt = "zstd_squeezer" => C!Lean(h.x.frame)
          /\ f # "zstd" /\ "zlib" \in Compiled => h.alt = "zlib_squeezer"
          /\ f = "zstd" /\ "zstd" \in Compiled => h.alt = "zstd_squeezer"
    BY CAssumed, C!MadeSends
<1>4. f \in C!Served
    BY DEF Working
<1>5. CASE f = "zstd"
    <2>1. "zstd" \in Compiled
        BY <1>4, <1>5 DEF C!Served, C!ZlibFormats, C!ZstdFormats
    <2>2. sweller'.alt = "zstd_sweller"
        BY <1>1, <1>5, <2>1 DEF D!make_sweller, D!ZstdHandle
    <2> QED BY <1>1, <1>2, <1>3, <1>5, <2>1, <2>2
            DEF NothingRefused, Paired, Zstd, D!Zstd, Finishing
<1>6. CASE f # "zstd"
    <2>1. "zlib" \in Compiled /\ f \in C!ZlibFormats
        BY <1>4, <1>6 DEF C!Served, C!ZstdFormats
    <2>2. C!window_bits_for(f) = f /\ D!window_bits_for(f) = f
        BY <2>1 DEF C!window_bits_for, D!window_bits_for, C!ZlibFormats
    <2>3. sweller'.alt = "zlib_sweller" /\ sweller'.z.fmt = f
        BY <1>1, <1>6, <2>1, <2>2 DEF D!make_sweller, D!ZlibHandle, D!zlib_sweller, D!inflateInit
    <2> QED BY <1>1, <1>2, <1>3, <1>6, <2>1, <2>2, <2>3 DEF NothingRefused, Paired, Zlib, D!Zlib
<1> QED BY <1>5, <1>6

LEMMA InitGInv == Init => GInv
BY InitPInv DEF Init, GInv, NothingRefused, C!NoCall, D!NoCall, C!Progress, D!Progress

LEMMA NextKeepsGInv ==
    ASSUME Working
    PROVE  GInv /\ [Next]_vars => GInv'
<1> SUFFICES ASSUME GInv, [Next]_vars
             PROVE  NothingRefused' /\ (pc' # "none" => Paired')
    BY NextKeepsPInv DEF GInv
<1>1. ASSUME NEW f \in Requests, Open(f)
      PROVE  NothingRefused' /\ Paired'
    BY <1>1, OpenPairs
<1>2. CASE Push
    BY <1>2, PushCalls, MoreSucceeds DEF Push, GInv
<1>3. CASE Flush
    BY <1>3, FlushCalls, MoreSucceeds DEF Flush, GInv
<1>4. CASE Finish
    BY <1>4, FinishSucceeds
<1>5. CASE Receive
    BY <1>5, ReceiveSucceeds
<1>6. CASE Close
    <2>1. Init'
        BY <1>6 DEF Close, Init, C!Destroy, D!Destroy
    <2>2. GInv'
        BY <2>1, InitGInv, PTL
    <2> QED BY <2>2 DEF GInv
<1>7. CASE Pause \/ Resume \/ UNCHANGED vars
    <2>1. /\ fmt' = fmt /\ squeezer' = squeezer /\ sent' = sent /\ sweller' = sweller
          /\ received' = received
          /\ pc' = pc \/ (pc \in {"push", "idle"} /\ pc' \in {"push", "idle"})
        BY <1>7 DEF Pause, Resume, vars, sender, receiver
    <2>2. NothingRefused'
        BY <2>1 DEF GInv, NothingRefused
    <2>3. pc' # "none" => Paired
        BY <2>1 DEF GInv
    <2>4. Paired /\ pc' # "none" => Paired'
        BY <2>1 DEF Paired, Finishing, Zlib, Zstd, D!Zlib, D!Zstd
    <2> QED BY <2>2, <2>3, <2>4
<1> QED BY <1>1, <1>2, <1>3, <1>4, <1>5, <1>6, <1>7 DEF Next

(***************************************************************************)
(* Every call of both loops succeeds, whatever the portions: no push or    *)
(* flush comes after the end, no finish without room, and no byte that     *)
(* arrives is refused (push_more, flush and finish of                      *)
(* src/src/detail/zlib.cpp and src/src/detail/zstd.cpp).                   *)
(***************************************************************************)
THEOREM NothingIsRefused ==
    ASSUME Working
    PROVE  Spec => []NothingRefused
<1>1. GInv => NothingRefused
    BY DEF GInv
<1>2. GInv /\ [Next]_vars => GInv'
    BY NextKeepsGInv
<1> QED BY <1>1, <1>2, InitGInv, PTL DEF Spec
-----------------------------------------------------------------------------
(***************************************************************************)
(* What a flush covered is on the wire from then on.                       *)
(***************************************************************************)
Covered == Zlib => flushed <= C!Upto(wire)

\* The two objects have an engine of the same kind.
Alike == fmt # "zstd" => ~Zstd /\ (Zlib <=> D!Zlib)

FInv == PInv /\ Covered /\ Alike

LEMMA UptoGrows ==
    ASSUME PInv, C!CInv', Sending', C!Extends(wire', wire), fmt' = fmt
    PROVE  C!Upto(wire) \in Nat /\ C!Upto(wire') \in Nat /\ C!Upto(wire) <= C!Upto(wire')
<1>1. Carried /\ Carried'
    <2>1. C!CInv
        BY DEF PInv
    <2> QED BY <2>1, WireCarries, PTL
<1>2. /\ wire \in Seq(D!Unit) /\ wire' \in Seq(D!Unit) /\ Len(wire) <= Len(wire')
      /\ Len(wire) \in Nat /\ Len(wire') \in Nat
      /\ C!Upto(wire) \in Nat /\ C!Upto(wire') \in Nat
    BY <1>1, UnitsAgree DEF Carried, C!Received, C!Extends
<1>3. \A i, j \in 1 .. Len(wire') : i <= j => wire'[i].upto <= wire'[j].upto
    BY <1>1 DEF Carried, C!Received, C!Well
<1>4. CASE wire = <<>>
    BY <1>2, <1>4 DEF C!Upto
<1>5. CASE wire # <<>>
    <2>1. Len(wire) \in 1 .. Len(wire') /\ Len(wire') \in 1 .. Len(wire') /\ wire' # <<>>
        BY <1>2, <1>5
    <2>2. wire'[Len(wire)] = wire[Len(wire)]
        BY <1>2, <2>1 DEF C!Extends
    <2>3. C!Upto(wire) = wire'[Len(wire)].upto /\ C!Upto(wire') = wire'[Len(wire')].upto
        BY <1>5, <2>1, <2>2 DEF C!Upto
    <2> QED BY <1>2, <1>3, <2>1, <2>3
<1> QED BY <1>4, <1>5

LEMMA CallKeepsCovered ==
    ASSUME FInv, PInv', NEW op \in {"push", "flush", "finish"}, NEW out, Called(op, out),
           flushed' = flushed \/ (flushed' = accepted /\ C!Upto(wire') = accepted')
    PROVE  Covered'
<1>1. /\ C!CInv' /\ C!Extends(wire', wire) /\ fmt' = fmt /\ squeezer'.alt = squeezer.alt
      /\ accepted \in Nat /\ accepted' \in Nat /\ accepted' >= accepted
    BY DEF Called
<1>2. C!Upto(wire) \in Nat /\ C!Upto(wire') \in Nat /\ C!Upto(wire) <= C!Upto(wire')
    BY <1>1, UptoGrows DEF FInv, PInv
<1>3. flushed \in Nat /\ (Zlib => flushed <= C!Upto(wire))
    BY <1>1 DEF FInv, PInv, Placed, Covered
<1> QED BY <1>1, <1>2, <1>3 DEF Covered, Zlib

LEMMA FlushKeepsCovered ==
    ASSUME FInv, PInv', Flush
    PROVE  Covered'
<1>1. PICK size \in FlushSizes :
          Called("flush", Span(size)) /\ Goes("flush") /\ flushed' \in {flushed, accepted}
    BY FlushCalls DEF FInv
<1>2. CASE ~Zlib
    BY <1>1, <1>2 DEF Called, Covered, Zlib
<1>3. CASE Zlib /\ ~C!RoomLeft'
    <2>1. flushed' = flushed
        BY <1>3 DEF Flush
    <2> QED BY <1>1, <2>1, CallKeepsCovered
<1>4. CASE Zlib /\ C!RoomLeft'
    <2>1. flushed' = accepted
        BY <1>4 DEF Flush
    <2>2. pc \in {"push", "flush"} /\ C!Unfinished(squeezer)
        BY <1>1 DEF Goes, FInv, PInv, Sending
    <2>3. sent'.r.kind = "ok"
        BY <1>1, <1>4, <2>2 DEF Called, C!Sends, C!ZlibSends, Zlib, Outcome
    <2>4. sent'.op = "flush"
        BY DEF Flush, C!flush, C!Return
    <2>5. C!FlushCovers'
        BY DEF PInv, C!CInv
    <2>6. C!Upto(wire') = accepted'
        BY <1>4, <2>3, <2>4, <2>5 DEF C!FlushCovers, C!Ok
    <2> QED BY <1>1, <2>1, <2>6, CallKeepsCovered
<1> QED BY <1>2, <1>3, <1>4

LEMMA CallKeepsAlike ==
    ASSUME Alike, NEW op, NEW out, Called(op, out), UNCHANGED receiver
    PROVE  Alike'
BY DEF Alike, Called, receiver, Zlib, Zstd, D!Zlib

LEMMA NextKeepsAlike == FInv /\ [Next]_vars => Alike'
<1> SUFFICES ASSUME FInv, [Next]_vars
             PROVE  Alike'
    OBVIOUS
<1>0. PInv /\ Alike
    BY DEF FInv
<1>1. ASSUME NEW f \in Requests, Open(f)
      PROVE  Alike'
    <2>1. squeezer' = C!make_squeezer(f) /\ sweller' = D!make_sweller(f) /\ fmt' = f
        BY <1>1 DEF Open, C!Construct
    <2>2. f # "zstd" => /\ C!make_squeezer(f).alt # "zstd_squeezer"
                        /\ C!make_squeezer(f).alt = "zlib_squeezer"
                               <=> D!make_sweller(f).alt = "zlib_sweller"
        BY DEF C!make_squeezer, C!ZlibHandle, C!StubHandle,
               D!make_sweller, D!ZlibHandle, D!StubHandle
    <2> QED BY <2>1, <2>2 DEF Alike, Zlib, Zstd, D!Zlib
<1>2. CASE Push
    BY <1>0, <1>2, PushCalls, CallKeepsAlike DEF Push
<1>3. CASE Flush
    BY <1>0, <1>3, FlushCalls, CallKeepsAlike DEF Flush
<1>4. CASE Finish
    BY <1>0, <1>4, FinishCalls, CallKeepsAlike DEF Finish
<1>5. CASE Receive
    <2>1. PICK n \in 1 .. Chunk, size \in SwellSizes : D!push(n, Span(size))
        BY <1>5 DEF Receive
    <2>2. n \in Nat /\ Span(size) \in D!Spans(MaxSpan)
        BY SpanFacts, PipelineAssumption
    <2>3. sweller'.alt = sweller.alt
        BY <1>0, <2>1, <2>2, DAssumed, D!PushTells DEF PInv
    <2>4. fmt' = fmt /\ squeezer' = squeezer
        BY <1>5 DEF Receive, sender
    <2> QED BY <1>0, <2>3, <2>4 DEF Alike, Zlib, Zstd, D!Zlib
<1>6. CASE Close
    BY <1>6 DEF Close, C!Destroy, D!Destroy, C!NoHandle, D!NoHandle, Alike, Zlib, Zstd, D!Zlib
<1>7. CASE Pause \/ Resume \/ UNCHANGED vars
    <2>1. squeezer' = squeezer /\ sweller' = sweller /\ fmt' = fmt
        BY <1>7 DEF Pause, Resume, vars, sender, receiver
    <2> QED BY <1>0, <2>1 DEF Alike, Zlib, Zstd, D!Zlib
<1> QED BY <1>1, <1>2, <1>3, <1>4, <1>5, <1>6, <1>7 DEF Next

LEMMA NextKeepsFInv == FInv /\ [Next]_vars => FInv'
<1> SUFFICES ASSUME FInv, [Next]_vars
             PROVE  Covered'
    BY NextKeepsPInv, NextKeepsAlike DEF FInv
<1>0. PInv'
    BY NextKeepsPInv DEF FInv
<1>1. ASSUME NEW f \in Requests, Open(f)
      PROVE  Covered'
    <2>1. pc = "none" /\ flushed' = flushed /\ wire' = <<>>
        BY <1>1 DEF Open, C!Construct, PInv, FInv
    <2>2. flushed = 0
        BY <2>1, NothingYet DEF FInv
    <2> QED BY <2>1, <2>2 DEF Covered, C!Upto
<1>2. CASE Push
    BY <1>0, <1>2, PushCalls, CallKeepsCovered DEF FInv
<1>3. CASE Flush
    BY <1>0, <1>3, FlushKeepsCovered
<1>4. CASE Finish
    BY <1>0, <1>4, FinishCalls, CallKeepsCovered DEF FInv
<1>5. CASE Close
    BY <1>5 DEF Close, C!Destroy, Covered, C!Upto
<1>6. CASE Pause \/ Resume \/ Receive \/ UNCHANGED vars
    <2>1. squeezer' = squeezer /\ wire' = wire /\ flushed' = flushed
        BY <1>6 DEF Pause, Resume, Receive, vars, sender
    <2> QED BY <2>1 DEF FInv, Covered, Zlib
<1> QED BY <1>1, <1>2, <1>3, <1>4, <1>5, <1>6 DEF Next

(***************************************************************************)
(* "so the receiver can decompress what arrived so far without waiting for *)
(* finish" (src/include/polliwog/stream.hpp), as far as safety goes:   *)
(* whoever consumed all there is, with room to spare, has it.              *)
(***************************************************************************)
THEOREM FlushedIsReadable == Spec => []FlushedIsThere
<1>1. Init => FInv
    BY InitPInv DEF Init, FInv, Covered, Alike, Zlib, Zstd, D!Zlib, C!Upto, C!NoHandle, D!NoHandle
<1>2. FInv => FlushedIsThere
    <2> SUFFICES ASSUME FInv, fmt # "zstd", fed = Len(wire), D!Ok, D!RoomLeft
                 PROVE  got >= flushed
        BY DEF FlushedIsThere
    <2>1. PInv /\ Covered /\ Alike
        BY DEF FInv
    <2>2. flushed \in 0 .. accepted /\ accepted \in Nat /\ got \in Nat
        BY <2>1 DEF PInv, Placed, D!Inv, D!TypeOK, C!CInv, C!IInv, C!TypeOK
    <2>3. CASE Zlib
        <3>1. "corrupt" \notin told /\ D!Zlib
            BY <2>1, <2>3 DEF PInv, Receiving, Alike, D!Inv, D!TypeOK
        <3>2. got = D!Reached(wire, fed)
            BY <2>1, <3>1 DEF PInv, D!Reports, D!AllOut
        <3>3. wire \in Seq(D!Unit) /\ D!Reached(wire, Len(wire)) = C!Upto(wire)
            <4>1. Len(wire) \in Nat
                BY <2>1 DEF PInv, D!Inv, D!TypeOK
            <4>2. wire \in Seq(D!Unit)
                  /\ D!Reached(wire, Len(wire)) = IF Len(wire) = 0 THEN 0 ELSE wire[Len(wire)].upto
                BY <2>1, <4>1, WireReached DEF PInv
            <4> QED BY <4>2 DEF C!Upto
        <3> QED BY <2>1, <2>2, <2>3, <3>2, <3>3 DEF Covered
    <2>4. CASE ~Zlib
        <3>1. squeezer.alt \notin {"zlib_squeezer", "zstd_squeezer"}
            BY <2>1, <2>4 DEF Alike, Zlib, Zstd
        <3>2. accepted = 0
            BY <2>1, <3>1 DEF PInv, C!CInv, C!IInv, C!NoLossNoDuplication, C!Taken
        <3> QED BY <2>2, <3>2
    <2> QED BY <2>3, <2>4
<1> QED BY <1>1, <1>2, NextKeepsFInv, PTL DEF Spec
-----------------------------------------------------------------------------
(***************************************************************************)
(* What a loop relies on that stops when all bytes are consumed: the two   *)
(* engines are of the format asked for, and the sender stops when its      *)
(* source is handed over and its stream complete.                          *)
(***************************************************************************)
Kept ==
    /\ Zlib => squeezer.z.fmt = C!window_bits_for(fmt)
    /\ Zstd => fmt = "zstd"
    /\ fmt = "zstd" => (Zstd <=> D!Zstd)

Stopped ==
    /\ Finishing => accepted = Source
    /\ pc = "closed" /\ sent.r.kind = "ok" => C!Complete(C!Container, wire)

EInv == FInv /\ Kept /\ Stopped

LEMMA CallKeepsKept ==
    ASSUME Kept, NEW op, NEW out, Called(op, out), UNCHANGED receiver
    PROVE  Kept'
<1>1. /\ squeezer'.alt = squeezer.alt /\ fmt' = fmt /\ sweller' = sweller
      /\ Zlib => Outcome'.h.z.fmt = squeezer.z.fmt
    BY DEF Called, receiver, C!Sends, C!ZlibSends, Zlib
<1>2. Outcome'.h = squeezer'
    BY DEF Outcome
<1> QED BY <1>1, <1>2 DEF Kept, Zlib, Zstd, D!Zstd

LEMMA NextKeepsKept == EInv /\ [Next]_vars => Kept'
<1> SUFFICES ASSUME EInv, [Next]_vars
             PROVE  Kept'
    OBVIOUS
<1>0. PInv /\ Kept
    BY DEF EInv, FInv
<1>1. ASSUME NEW f \in Requests, Open(f)
      PROVE  Kept'
    <2>1. squeezer' = C!make_squeezer(f) /\ sweller' = D!make_sweller(f) /\ fmt' = f
        BY <1>1 DEF Open, C!Construct
    <2>2. LET h == C!make_squeezer(f)
          IN  /\ h.alt = "zlib_squeezer" => f # "zstd" /\ h.z.fmt = C!window_bits_for(f)
              /\ f # "zstd" /\ "zlib" \in Compiled => h.alt = "zlib_squeezer"
              /\ f = "zstd" /\ "zstd" \in Compiled => h.alt = "zstd_squeezer"
        BY CAssumed, C!MadeSends
    <2>3. /\ C!make_squeezer(f).alt = "zstd_squeezer" => f = "zstd" /\ "zstd" \in Compiled
          /\ f = "zstd" => (D!make_sweller(f).alt = "zstd_sweller" <=> "zstd" \in Compiled)
        BY DEF C!make_squeezer, C!ZlibHandle, C!StubHandle,
               D!make_sweller, D!ZstdHandle, D!StubHandle
    <2> QED BY <2>1, <2>2, <2>3 DEF Kept, Zlib, Zstd, D!Zstd
<1>2. CASE Push
    BY <1>0, <1>2, PushCalls, CallKeepsKept DEF Push
<1>3. CASE Flush
    BY <1>0, <1>3, FlushCalls, CallKeepsKept DEF Flush
<1>4. CASE Finish
    BY <1>0, <1>4, FinishCalls, CallKeepsKept DEF Finish
<1>5. CASE Receive
    <2>1. PICK n \in 1 .. Chunk, size \in SwellSizes : D!push(n, Span(size))
        BY <1>5 DEF Receive
    <2>2. n \in Nat /\ Span(size) \in D!Spans(MaxSpan)
        BY SpanFacts, PipelineAssumption
    <2>3. sweller'.alt = sweller.alt
        BY <1>0, <2>1, <2>2, DAssumed, D!PushTells DEF PInv
    <2>4. fmt' = fmt /\ squeezer' = squeezer
        BY <1>5 DEF Receive, sender
    <2> QED BY <1>0, <2>3, <2>4 DEF Kept, Zlib, Zstd, D!Zstd
<1>6. CASE Close
    BY <1>6 DEF Close, C!Destroy, D!Destroy, C!NoHandle, D!NoHandle, Kept, Zlib, Zstd
<1>7. CASE Pause \/ Resume \/ UNCHANGED vars
    <2>1. squeezer' = squeezer /\ sweller' = sweller /\ fmt' = fmt
        BY <1>7 DEF Pause, Resume, vars, sender, receiver
    <2> QED BY <1>0, <2>1 DEF Kept, Zlib, Zstd, D!Zstd
<1> QED BY <1>1, <1>2, <1>3, <1>4, <1>5, <1>6, <1>7 DEF Next

LEMMA FinishStops ==
    ASSUME EInv, Finish
    PROVE  Stopped'
<1>1. PICK size \in FinishSizes[fmt] : Called("finish", Span(size)) /\ Goes("finish")
    BY FinishCalls DEF EInv, FInv
<1>2. accepted = Source
    BY DEF Finish, EInv, Stopped, Finishing
<1>3. accepted' = accepted
    BY <1>1 DEF Called
<1>4. ASSUME pc' = "closed", sent'.r.kind = "ok"
      PROVE  C!Complete(C!Container', wire')
    <2>1. C!RoomLeft'
        BY <1>4 DEF Finish
    <2>2. sent'.op = "finish"
        BY DEF Finish, C!finish, C!Return
    <2>3. C!FinishCloses'
        BY <1>1 DEF Called, C!CInv
    <2> QED BY <1>4, <2>1, <2>2, <2>3 DEF C!FinishCloses, C!Ok
<1> QED BY <1>2, <1>3, <1>4 DEF Stopped

LEMMA NextKeepsStopped == EInv /\ [Next]_vars => Stopped'
<1> SUFFICES ASSUME EInv, [Next]_vars
             PROVE  Stopped'
    OBVIOUS
<1>1. CASE (\E f \in Requests : Open(f)) \/ Push \/ Flush \/ Pause \/ Resume \/ Close
    <2>1. pc' \notin {"finish", "closed"}
        <3>1. CASE Push
            BY <3>1 DEF Push
        <3>2. CASE Flush
            BY <3>2 DEF Flush
        <3> QED BY <1>1, <3>1, <3>2 DEF Open, Pause, Resume, Close
    <2> QED BY <2>1 DEF Stopped, Finishing
<1>2. CASE Finish
    BY <1>2, FinishStops
<1>3. CASE Receive \/ UNCHANGED vars
    <2>1. squeezer' = squeezer /\ wire' = wire /\ sent' = sent /\ accepted' = accepted /\ pc' = pc
        BY <1>3 DEF Receive, vars, sender
    <2> QED BY <2>1 DEF EInv, Stopped, Finishing, C!Container
<1> QED BY <1>1, <1>2, <1>3 DEF Next

LEMMA NextKeepsEInv == EInv /\ [Next]_vars => EInv'
BY NextKeepsFInv, NextKeepsKept, NextKeepsStopped DEF EInv

\* A complete stream that is consumed to its end was told to have ended.
LEMMA WholeIsTold ==
    ASSUME EInv, fmt \in {"zlib", "gzip", "zstd"}, pc = "closed", sent.r.kind = "ok",
           fed = Len(wire)
    PROVE  "done" \in told
<1>1. PInv /\ Alike /\ Kept /\ C!Complete(C!Container, wire)
    BY DEF EInv, FInv, Stopped
<1>2. Carried
    BY <1>1, WireCarries DEF PInv
<1>3. /\ wire \in Seq(D!Unit) /\ Len(wire) \in Nat /\ DOMAIN wire = 1 .. Len(wire)
      /\ accepted \in Nat
    BY <1>2, UnitsAgree DEF Carried, C!Received
<1>4. "corrupt" \notin told
    BY <1>1, <1>3 DEF PInv, Receiving
<1>5. wire # <<>>
    BY DAssumed, <1>1, <1>3 DEF C!Complete, C!TailLen
<1>6. Zlib \/ Zstd
    BY <1>2, <1>5 DEF Carried, C!Received, Zlib, Zstd
<1>7. CASE fmt # "zstd"
    <2>1. Zlib /\ D!Zlib /\ squeezer.z.fmt = fmt
        BY <1>1, <1>6, <1>7 DEF Alike, Kept, C!window_bits_for
    <2>2. C!Complete(fmt, wire)
        BY <1>1, <2>1 DEF C!Container, Zlib
    <2> DEFINE j == Len(wire) - D!TailLen(fmt)
    <2>3. D!TailLen(fmt) \in Nat /\ D!TailLen(fmt) >= 1 /\ C!TailLen(fmt) = D!TailLen(fmt)
        BY <1>7 DEF D!TailLen, C!TailLen
    <2>4. j \in 1 .. Len(wire) /\ wire[j].kind = "last" /\ j < Len(wire)
        BY <1>3, <2>2, <2>3 DEF C!Complete
    <2>5. fed = j + D!TailLen(fmt)
        BY <1>3, <2>3
    <2> HIDE DEF j
    <2>6. fed \in D!Ends(fmt, wire)
        BY <1>3, <2>4, <2>5 DEF D!Ends
    <2>7. wire[j].upto = accepted
        BY <1>2, <2>1, <2>4 DEF Carried, C!Received, C!LastsAt, Zlib
    <2>8. D!ZlibInv(sweller.z, [c |-> fmt, w |-> wire], fed, got, told)
        BY <1>1, <2>1 DEF PInv, D!Inv
    <2>9. sweller.z.status # "BAD" /\ sweller.z.status \in {"OK", "DONE", "BAD"}
        <3>1. sweller.z \in D!InflateStream
            BY <1>1, <2>1, D!HandleType, DAssumed DEF PInv, D!Inv, D!TypeOK
        <3> QED BY <1>4, <2>8, <3>1 DEF D!ZlibInv, D!InflateStream
    <2>10. ASSUME sweller.z.status = "OK"
           PROVE  FALSE
        <3>1. D!Unended([c |-> fmt, w |-> wire], fed, got) /\ got <= D!Reached(wire, fed)
            BY <2>8, <2>9, <2>10 DEF D!ZlibInv, D!Inflating
        <3>2. wire[j].upto <= got
            BY <1>3, <2>4, <3>1 DEF D!Unended
        <3>3. got # D!Reached(wire, fed)
            BY <1>3, <2>6, <3>1 DEF D!Unended
        <3>4. D!Reached(wire, fed) \in Nat /\ D!Reached(wire, fed) <= accepted
            BY <1>1, <1>3, WireReached DEF PInv
        <3>5. got \in Nat
            BY <1>1 DEF PInv, D!Inv, D!TypeOK
        <3> QED BY <1>3, <2>7, <3>1, <3>2, <3>3, <3>4, <3>5
    <2> QED BY <2>8, <2>9, <2>10 DEF D!ZlibInv
<1>8. CASE fmt = "zstd"
    <2>1. Zstd /\ D!Zstd
        BY <1>1, <1>6, <1>8 DEF PInv, Sending, Kept
    <2>2. wire[Len(wire)].kind = "last"
        BY <1>1, <1>3, <2>1 DEF C!Container, C!Complete, C!TailLen, Zstd
    <2>3. D!ZstdInv(sweller.x, [c |-> fmt, w |-> wire], fed, got, told)
        BY <1>1, <2>1 DEF PInv, D!Inv
    <2>4. sweller.x \in D!DCtx
        BY <1>1, <2>1, D!HandleType, DAssumed DEF PInv, D!Inv, D!TypeOK
    <2>5. sweller.x.stage \in {"start", "frame", "hostage", "bad"} /\ sweller.x.seen \in Seq(D!Unit)
        BY <2>4 DEF D!DCtx
    <2> DEFINE p == sweller.x.seen
    <2>6. Len(p) \in Nat
        BY <2>5
    <2>7. ASSUME sweller.x.stage = "frame"
          PROVE  FALSE
        <3>1. D!Framing(sweller.x, [c |-> fmt, w |-> wire], fed, got)
            BY <2>3, <2>7 DEF D!ZstdInv
        <3>2. p # <<>> /\ D!PartOf(p, wire, fed - Len(p)) /\ D!Undone(p, Len(p))
            BY <3>1 DEF D!Framing, D!InFrame
        <3>3. Len(p) \in 1 .. Len(p)
            BY <2>5, <3>2
        <3>4. p[Len(p)] = wire[fed]
            <4>1. (fed - Len(p)) + Len(p) = fed
                BY <1>3, <2>6
            <4>2. p[Len(p)] = wire[(fed - Len(p)) + Len(p)]
                BY <3>2, <3>3, Zenon DEF D!PartOf
            <4> QED BY <4>1, <4>2
        <3> QED BY <2>2, <3>2, <3>3, <3>4 DEF D!Undone
    <2>8. ASSUME sweller.x.stage = "hostage"
          PROVE  FALSE
        <3>1. D!Holding(sweller.x, [c |-> fmt, w |-> wire], fed, got)
            BY <2>3, <2>8 DEF D!ZstdInv
        <3>2. D!PartOf(p, wire, fed + 1 - Len(p))
            BY <3>1 DEF D!Holding, D!InFrame
        <3> QED BY <1>3, <2>6, <3>2 DEF D!PartOf
    <2>9. sweller.x.stage = "start"
        BY <1>4, <2>3, <2>5, <2>7, <2>8 DEF D!ZstdInv
    <2>10. fed # 0
        BY <1>3, <1>5
    <2> QED BY <1>4, <2>3, <2>9, <2>10 DEF D!ZstdInv, D!Between
<1> QED BY <1>7, <1>8

(***************************************************************************)
(* The loop of src/test/unit/stream_test.cpp that stops when all bytes are *)
(* consumed has the whole source then, for zlib, gzip and zstd, whatever   *)
(* the chunks and spans.                                                   *)
(***************************************************************************)
THEOREM ConsumedMeansRestored == Spec => []ConsumedIsRestored
<1>1. Init => EInv
    <2>1. Init => FInv
        BY InitPInv DEF Init, FInv, Covered, Alike, Zlib, Zstd, D!Zlib, C!Upto, C!NoHandle, D!NoHandle
    <2> QED BY <2>1 DEF Init, EInv, Kept, Stopped, Finishing, Zlib, Zstd, C!NoHandle
<1>2. EInv => ConsumedIsRestored
    <2> SUFFICES ASSUME EInv, fmt \in {"zlib", "gzip", "zstd"}, pc = "closed",
                        sent.r.kind = "ok", fed = Len(wire)
                 PROVE  "done" \in told /\ got = Source
        BY DEF ConsumedIsRestored
    <2>1. "done" \in told
        BY WholeIsTold
    <2> QED BY <2>1 DEF EInv, FInv, PInv, Receiving, Stopped, Finishing
<1> QED BY <1>1, <1>2, NextKeepsEInv, PTL DEF Spec
=============================================================================
