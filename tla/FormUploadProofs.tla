-------------------------- MODULE FormUploadProofs --------------------------
(***************************************************************************)
(* The parser implements FieldSequence, for every boundary, set of limits, *)
(* chunking and schedule and every form that can be read in one way only:  *)
(* what the parser has done is determined by how far it has read the form, *)
(* and every step maps to a step of FieldSequence or to none.              *)
(***************************************************************************)
EXTENDS FormUpload, MultipartSafety

-----------------------------------------------------------------------------
(* FieldSequence speaks of forms in its own copy of FormBody.  That copy has *)
(* the same constants, and so means the same.                               *)

LEMMA SameBytes ==
  /\ Abstract!CRLF = CRLF /\ Abstract!BOUNDARY_EXT = BOUNDARY_EXT /\ Abstract!Padding = Padding
  /\ Abstract!BoundaryBytes = BoundaryBytes /\ Abstract!FieldBoundary = FieldBoundary
  /\ Abstract!NoName = NoName /\ Abstract!NotFound = NotFound
BY DEF Abstract!CRLF, CRLF, Abstract!BOUNDARY_EXT, BOUNDARY_EXT, Abstract!Padding, Padding,
       Abstract!BoundaryBytes, BoundaryBytes, Abstract!FieldBoundary, FieldBoundary,
       Abstract!NoName, NoName, Abstract!NotFound, NotFound

LEMMA SameSeq ==
  ASSUME NEW s
  PROVE  Abstract!FlattenSeq(s) = FlattenSeq(s)
  BY DEF Abstract!FlattenSeq, FlattenSeq

LEMMA SameMin ==
  ASSUME NEW s
  PROVE  Abstract!Min(s) = Min(s) /\ Abstract!Max(s) = Max(s)
  BY DEF Abstract!Min, Min, Abstract!Max, Max

LEMMA SameFB ==
  ASSUME NEW s, NEW start, NEW from, NEW to, NEW pat
  PROVE  /\ Abstract!FirstBoundary(s, start, from, to, pat) = FirstBoundary(s, start, from, to, pat)
         /\ Abstract!IsPrefix(s, pat) = IsPrefix(s, pat)
<1>1. Abstract!Occurrences(s, from, to, pat) = Occurrences(s, from, to, pat)
  BY DEF Abstract!Occurrences, Occurrences, Abstract!Matches, Matches
<1>2. \A S : Abstract!FirstOf(S) = FirstOf(S)
  BY SameMin, SameBytes DEF Abstract!FirstOf, FirstOf
<1>3. \A at : Abstract!LineStart(s, start, at) <=> LineStart(s, start, at)
  BY SameBytes DEF Abstract!LineStart, LineStart, Abstract!Matches, Matches
<1> QED BY <1>1, <1>2, <1>3 DEF Abstract!FirstBoundary, FirstBoundary, Abstract!IsPrefix, IsPrefix

LEMMA SameBlock ==
  ASSUME NEW s
  PROVE  Abstract!HeaderBlock(s) = HeaderBlock(s)
  BY SameSeq, SameBytes DEF Abstract!HeaderBlock, HeaderBlock

LEMMA SameParts ==
  ASSUME NEW s
  PROVE  Abstract!EncodeParts(s) = EncodeParts(s) /\ \A k : Abstract!OpenPart(s[k]) = OpenPart(s[k])
<1>1. \A k : Abstract!OpenPart(s[k]) = OpenPart(s[k])
  BY SameBlock, SameBytes DEF Abstract!OpenPart, OpenPart
<1>  QED BY <1>1, SameSeq, SameBytes DEF Abstract!EncodeParts, EncodeParts

LEMMA SameEncoding ==
  ASSUME NEW f
  PROVE  Abstract!BeforeClose(f) = BeforeClose(f) /\ Abstract!Encode(f) = Encode(f)
<1>1. Abstract!BeforeClose(f) = BeforeClose(f)
  BY SameParts, SameBytes DEF Abstract!BeforeClose, BeforeClose
<1>2. Abstract!Complete(f) = Complete(f)
  BY <1>1 DEF Abstract!Complete, Complete
<1> QED BY <1>1, <1>2 DEF Abstract!Encode, Encode

LEMMA SameConditions ==
  ASSUME NEW f
  PROVE  /\ Abstract!PreambleOK(f) <=> PreambleOK(f)
         /\ Abstract!ClosingPad(f) = ClosingPad(f)
         /\ Abstract!ClosingOK(f) <=> ClosingOK(f)
         /\ \A k : /\ Abstract!HeadersUpto(f, k) = HeadersUpto(f, k)
                   /\ Abstract!BoundaryLineUpto(f, k) = BoundaryLineUpto(f, k)
<1>1. Abstract!PreambleOK(f) <=> PreambleOK(f)
  BY SameFB, SameBytes DEF Abstract!PreambleOK, PreambleOK
<1>2. Abstract!ClosingPad(f) = ClosingPad(f)
  BY SameEncoding, SameMin DEF Abstract!ClosingPad, ClosingPad
<1>3. Abstract!ClosingOK(f) <=> ClosingOK(f)
  BY <1>2, SameEncoding, SameFB, SameBytes
     DEF Abstract!ClosingOK, ClosingOK, Abstract!Arrived, Arrived, Abstract!PaddingOnly, PaddingOnly
<1>4. ASSUME NEW k
      PROVE  /\ Abstract!HeadersUpto(f, k) = HeadersUpto(f, k)
             /\ Abstract!BoundaryLineUpto(f, k) = BoundaryLineUpto(f, k)
  <2>1. Abstract!HeadersUpto(f, k) = HeadersUpto(f, k)
    BY SameParts DEF Abstract!HeadersUpto, HeadersUpto
  <2> QED BY <2>1, SameBytes DEF Abstract!BoundaryLineUpto, BoundaryLineUpto
<1> QED BY <1>1, <1>2, <1>3, <1>4

LEMMA SameWords ==
  /\ \A s : Abstract!PaddingOnly(s) <=> PaddingOnly(s)
  /\ \A s : Abstract!LinesOK(s) <=> LinesOK(s)
  /\ \A s : Abstract!NamedBy(s) = NamedBy(s)
  /\ \A n, limit : Abstract!Exceeds(n, limit) <=> Exceeds(n, limit)
<1>1. \A s : Abstract!PaddingOnly(s) <=> PaddingOnly(s)
  BY SameBytes DEF Abstract!PaddingOnly, PaddingOnly
<1>2. \A s : Abstract!LinesOK(s) <=> LinesOK(s)
  BY DEF Abstract!LinesOK, LinesOK
<1>3. \A s : Abstract!NamedBy(s) = NamedBy(s)
  BY SameMin, SameBytes DEF Abstract!NamedBy, NamedBy
<1> QED BY <1>1, <1>2, <1>3 DEF Abstract!Exceeds, Exceeds

-----------------------------------------------------------------------------
(* The conditions of FieldSequence, in terms of the lines of the body *)

\* The name of part k, the limit in force for its data, and the size of its header
\* block: each line is a byte and a CRLF, and a CRLF follows them.
NameOf(f, k)     == NamedBy(f.parts[k].lines)
LimitOf(c, name) == IF name \in DOMAIN c.field_map THEN c.field_map[name] ELSE c.per_field
BlockLen(f, k)   == 3 * LineCount(f.parts[k].lines) + 2

\* The k-th boundary line, the data of part k, its header block and the preamble
\* are within their limits and can be read.
LineAccepted(f, c, k) == LineThere(f, k) /\ ~Exceeds(LineLen(f, k), c.boundary_padding)
DataAccepted(f, c, k) == ~Exceeds(DataLen(f.parts[k]), LimitOf(c, NameOf(f, k)))
PartAccepted(f, c, k) == DataAccepted(f, c, k) /\ LineAccepted(f, c, k + 1)

HeadersAccepted(f, c, k) ==
  /\ k <= c.max_fields
  /\ LinesOK(f.parts[k].lines) /\ LineCount(f.parts[k].lines) <= MaxHeaders
  /\ ~Exceeds(BlockLen(f, k), c.headers)
  /\ DataAt(f, k) <= Len(Encode(f))
  /\ \A allowed \in c.allowed_fields : NameOf(f, k) \in allowed

PreambleFits(f, c) == ~Exceeds(PreambleLen(f), c.preamble)

\* All that a parser has read when it gives out part k, or the end behind the
\* last one, is acceptable.
Accepted(f, c, k) ==
  /\ PreambleFits(f, c)
  /\ \A j \in 1..(k - 1) : PartAccepted(f, c, j)
  /\ LineAccepted(f, c, k)
  /\ ~Closing(f, k) => HeadersAccepted(f, c, k)

LEMMA AbstractNames ==
  ASSUME NEW k
  PROVE  /\ Abstract!PartName(k) = NameOf(form, k)
         /\ \A name : /\ Abstract!FieldLimit(name) = LimitOf(constraints, name)
                      /\ ExtractSizeLimitFor(name) = LimitOf(constraints, name)
         /\ Abstract!DataOK(k) <=> DataAccepted(form, constraints, k)
<1>1. Abstract!PartName(k) = NameOf(form, k)
  BY SameWords DEF Abstract!PartName, NameOf
<1>2. \A name : /\ Abstract!FieldLimit(name) = LimitOf(constraints, name)
                /\ ExtractSizeLimitFor(name) = LimitOf(constraints, name)
  BY DEF Abstract!FieldLimit, LimitOf, ExtractSizeLimitFor
<1>3. Abstract!DataOK(k) <=> DataAccepted(form, constraints, k)
  BY <1>1, <1>2, SameWords DEF Abstract!DataOK, DataAccepted, DataLen
<1> QED BY <1>1, <1>2, <1>3

LEMMA AbstractEnding ==
  ASSUME Unambiguous(form)
  PROVE  Abstract!EndingOK <=> LineAccepted(form, constraints, PartCount(form) + 1)
<1>1. PICK k : k = PartCount(form) + 1
  OBVIOUS
<1>2. /\ ClosingOK(form) <=> LineThere(form, k)
      /\ LineThere(form, k) => Len(ClosingPad(form)) = LineLen(form, k)
  BY <1>1, LastLineThere
<1>3. Abstract!EndingOK <=> /\ ClosingOK(form)
                            /\ ~Exceeds(Len(ClosingPad(form)), constraints.boundary_padding)
  BY SameConditions, SameWords DEF Abstract!EndingOK
<1> QED BY <1>1, <1>2, <1>3 DEF LineAccepted

LEMMA AbstractOpening ==
  ASSUME Unambiguous(form), NEW k \in 1..PartCount(form)
  PROVE  Abstract!OpeningOK(k) <=>
           LineAccepted(form, constraints, k) /\ HeadersAccepted(form, constraints, k)
<1>1. form \in FormType /\ form.parts[k] \in PartType
  BY UnambiguousParts
<1>2. /\ LineLen(form, k) = PadLen(form.parts[k])
      /\ LineThere(form, k) <=>
           PaddingOnly(form.parts[k].pad) /\ HeadersAt(form, k) <= Len(Encode(form))
  BY PartLineThere
<1>3. HeadersUpto(form, k) = DataAt(form, k)
  BY <1>1, Uptos
<1>4. Len(HeaderBlock(form.parts[k].lines)) = BlockLen(form, k)
  <2>1. PICK lines \in Seq(Bytes) : lines = form.parts[k].lines
    BY <1>1 DEF PartType
  <2>2. PICK h \in Seq(Bytes) : h = HeaderBlock(lines) /\ BlockOf(h, lines)
    BY HeaderBlockLayout
  <2> QED BY <2>1, <2>2 DEF BlockOf, BlockLen
<1>5. HeadersAt(form, k) <= DataAt(form, k) /\ HeadersAt(form, k) \in Nat /\ DataAt(form, k) \in Nat
      /\ Len(Encode(form)) \in Nat
  <2>1. DataAt(form, k) - 4 >= HeadersAt(form, k)
    BY HeadersDelimited
  <2>2. HeadersAt(form, k) \in Nat /\ DataAt(form, k) \in Nat
    BY <1>1, PartPositions
  <2>3. Encode(form) \in Seq(Bytes)
    BY UnambiguousParts, EncodedPrefix
  <2> QED BY <2>1, <2>2, <2>3
<1>6. Abstract!OpeningOK(k) <=>
        /\ k <= constraints.max_fields
        /\ PaddingOnly(form.parts[k].pad)
        /\ ~Exceeds(Len(form.parts[k].pad), constraints.boundary_padding)
        /\ LinesOK(form.parts[k].lines) /\ Len(form.parts[k].lines) <= MaxHeaders
        /\ ~Exceeds(Len(HeaderBlock(form.parts[k].lines)), constraints.headers)
        /\ HeadersUpto(form, k) <= Len(Encode(form))
        /\ \A allowed \in constraints.allowed_fields : Abstract!PartName(k) \in allowed
  BY SameWords, SameConditions, SameBlock, SameEncoding DEF Abstract!OpeningOK, Abstract!Arrived
<1>7. DataAt(form, k) <= Len(Encode(form)) => HeadersAt(form, k) <= Len(Encode(form))
  BY <1>5
<1> QED BY <1>2, <1>3, <1>4, <1>6, <1>7, AbstractNames
        DEF LineAccepted, HeadersAccepted, PadLen, LineCount

LEMMA AbstractTerminated ==
  ASSUME Unambiguous(form), NEW k \in 1..PartCount(form)
  PROVE  Abstract!Terminated(k) <=> LineAccepted(form, constraints, k + 1)
<1>1. form \in FormType /\ PartCount(form) \in Nat
  BY UnambiguousParts, BoundariesInOrder
<1>2. CASE k = PartCount(form)
  <2>1. Abstract!Terminated(k) <=> Abstract!EndingOK
    BY <1>2 DEF Abstract!Terminated, PartCount
  <2> QED BY <1>2, <2>1, AbstractEnding
<1>3. CASE k # PartCount(form)
  <2>1. k < PartCount(form) /\ k + 1 \in 1..PartCount(form)
    BY <1>1, <1>3
  <2>2. BoundaryLineUpto(form, k) = HeadersAt(form, k + 1)
    BY <1>1, <2>1, Uptos
  <2>3. /\ LineLen(form, k + 1) = PadLen(form.parts[k + 1])
        /\ LineThere(form, k + 1) <=>
             PaddingOnly(form.parts[k + 1].pad) /\ HeadersAt(form, k + 1) <= Len(Encode(form))
    BY <2>1, PartLineThere
  <2>4. Abstract!Terminated(k) <=>
          /\ BoundaryLineUpto(form, k) <= Len(Encode(form))
          /\ PaddingOnly(form.parts[k + 1].pad)
          /\ ~Exceeds(Len(form.parts[k + 1].pad), constraints.boundary_padding)
    BY <1>3, SameConditions, SameWords, SameEncoding
       DEF Abstract!Terminated, Abstract!Arrived, PartCount
  <2> QED BY <2>2, <2>3, <2>4 DEF LineAccepted, PadLen
<1> QED BY <1>2, <1>3

\* Nothing is wrong up to part k, or up to the end.
LEMMA AbstractAccepted ==
  ASSUME Unambiguous(form), NEW k \in 1..(PartCount(form) + 1)
  PROVE  /\ Abstract!AcceptedUpto(k) <=> Accepted(form, constraints, k)
         /\ Abstract!StreamTooLarge <=> Exceeds(Len(Encode(form)), constraints.whole_stream)
<1>1. form \in FormType /\ PartCount(form) \in Nat /\ PreambleOK(form)
  BY UnambiguousParts, BoundariesInOrder
<1>2. Abstract!PreambleAccepted <=> PreambleFits(form, constraints)
  BY <1>1, SameConditions, SameWords DEF Abstract!PreambleAccepted, PreambleFits, PreambleLen
<1>3. \A j \in 1..(k - 1) :
        Abstract!DataOK(j) /\ Abstract!Terminated(j) <=> PartAccepted(form, constraints, j)
  <2> SUFFICES ASSUME NEW j \in 1..(k - 1)
               PROVE  Abstract!DataOK(j) /\ Abstract!Terminated(j)
                        <=> PartAccepted(form, constraints, j)
    OBVIOUS
  <2>1. j \in 1..PartCount(form)
    BY <1>1
  <2> QED BY <2>1, AbstractNames, AbstractTerminated DEF PartAccepted
<1>4. (IF k > Len(form.parts) THEN Abstract!EndingOK ELSE Abstract!OpeningOK(k)) <=>
        /\ LineAccepted(form, constraints, k)
        /\ ~Closing(form, k) => HeadersAccepted(form, constraints, k)
  <2>1. CASE k = PartCount(form) + 1
    <3>1. k > Len(form.parts) /\ Closing(form, k)
      BY <1>1, <2>1 DEF PartCount, Closing
    <3> QED BY <2>1, <3>1, AbstractEnding
  <2>2. CASE k # PartCount(form) + 1
    <3>1. ~(k > Len(form.parts)) /\ ~Closing(form, k) /\ k \in 1..PartCount(form)
      BY <1>1, <2>2 DEF PartCount, Closing
    <3> QED BY <3>1, AbstractOpening
  <2> QED BY <2>1, <2>2
<1>5. Abstract!AcceptedUpto(k) <=> Accepted(form, constraints, k)
  BY <1>2, <1>3, <1>4 DEF Abstract!AcceptedUpto, Accepted
<1> QED BY <1>5, SameWords, SameEncoding DEF Abstract!StreamTooLarge

-----------------------------------------------------------------------------
(* The invariant: where the parser stands in the form *)

\* Nothing was dropped, and the end comes behind the last byte.
InputFollows ==
  hi = sent /\ stream_size_counter <= sent /\ (eof => hi = Len(body))

\* The k-th entry of out is the k-th part of the form.
GivenFollows(k) ==
  /\ out[k].idx = k - 1 /\ out[k].name = NameOf(form, k) /\ out[k].start = DataAt(form, k)
  /\ out[k].upto \in DataAt(form, k)..DataEnd(form, k)
  /\ out[k].done => out[k].upto = DataEnd(form, k)

\* The fields given out are the first parts of the form.
FieldsFollow ==
  /\ next_field_idx = Len(out) /\ Len(out) <= PartCount(form)
  /\ \A k \in 1..Len(out) : GivenFollows(k)

\* What lies behind the parser was found acceptable: the preamble, and each part
\* with the boundary line that ends it, but for the part being read.
PartsFollow ==
  /\ stage # "FindingFirstBoundary" => PreambleFits(form, constraints)
  /\ \A k \in 1..Len(out) :
       k < Len(out) \/ stage # "ReadingFieldData" => PartAccepted(form, constraints, k)

\* In the padding of the k-th boundary line: what was passed is padding, within its
\* limit, and counted, unless the padding has ended already.
PaddingFollows(k) ==
  LET from == LineFrom(form, k)
  IN  /\ from <= lo /\ \A i \in (from + 1)..lo : body[i] \in Padding
      /\ ~Exceeds(lo - from, constraints.boundary_padding)
      /\ \/ transport_padding_counter = SatAdd(0, lo - from)
         \/ lo < hi /\ body[lo + 1] \notin Padding

\* In the data of part k, all of which was counted against its limit.
DataFollows(k) ==
  /\ lo \in DataAt(form, k)..DataEnd(form, k)
  /\ curr_field_size_limit = LimitOf(constraints, NameOf(form, k))
  /\ curr_field_size_counter = SatAdd(0, lo - DataAt(form, k))
  /\ curr_field_size_counter <= curr_field_size_limit

\* The stage and the number of fields given out say where in the form the buffer
\* begins, exactly or, in padding and in data, between which positions.
PlaceFollows ==
  LET next == Len(out) + 1 IN
  /\ stage = "FindingFirstBoundary" => lo = 0 /\ Len(out) = 0
  /\ stage = "ReadingBoundary" => lo = BoundaryAt(form, next)
  /\ stage = "DeterminingBoundaryType" => lo = PadAt(form, next)
  /\ stage = "ReadingTransportPadding" => ~Closing(form, next) /\ PaddingFollows(next)
  /\ stage = "ReadingClosingTransportPadding" => Closing(form, next) /\ PaddingFollows(next)
  /\ stage \notin {"ReadingTransportPadding", "ReadingClosingTransportPadding", "Eof"} =>
       transport_padding_counter = 0
  /\ stage = "ReadingFieldHeaders" =>
       /\ next <= PartCount(form) /\ lo = HeadersAt(form, next)
       /\ LineAccepted(form, constraints, next)
  /\ stage = "ReadingFieldData" => Len(out) >= 1 /\ DataFollows(Len(out))
  /\ stage = "Eof" => /\ Closing(form, next) /\ LineAccepted(form, constraints, next)
                      /\ field = NoField /\ pc \in {"idle", "parse"}

\* The inductive invariant of the refinement.  Behind an error nothing is promised.
Follows ==
  /\ form \in Forms /\ body = Encode(form)
  /\ errors = 0 => InputFollows /\ FieldsFollow /\ PartsFollow /\ PlaceFollows

-----------------------------------------------------------------------------
(* The steps of FieldSequence *)

\* What the refinement mapping shows of out, one entry at a time.
LEMMA EmittedShape ==
  ASSUME out \in Seq(GivenType)
  PROVE  /\ Len(Emitted) = Len(out) /\ Emitted = [k \in 1..Len(out) |-> Emitted[k]]
         /\ Len(out) \in Nat
         /\ \A k \in 1..Len(out) :
              Emitted[k] = [ idx |-> out[k].idx, name |-> out[k].name, done |-> out[k].done,
                             data |-> SubSeq(body, out[k].start + 1, out[k].upto) ]
<1>1. DOMAIN out = 1..Len(out) /\ Len(out) \in Nat
  OBVIOUS
<1>2. Emitted = [k \in 1..Len(out) |->
                   [ idx |-> out[k].idx, name |-> out[k].name, done |-> out[k].done,
                     data |-> SubSeq(body, out[k].start + 1, out[k].upto) ]]
  BY <1>1 DEF Emitted
<1> QED BY <1>1, <1>2

\* Each lemma on a step of FieldSequence says which change of the parser's state,
\* and what about the form, makes a step of the implementation that step.
LEMMA AbstractStutters ==
  ASSUME UNCHANGED <<form, constraints, body, out>>, Verdict' = Verdict
  PROVE  UNCHANGED Abstract!abstractVars
<1>1. Emitted' = Emitted
  BY DEF Emitted
<1> QED BY <1>1 DEF Abstract!abstractVars

LEMMA AbstractFails ==
  ASSUME Unambiguous(form), out \in Seq(GivenType), Len(out) <= PartCount(form),
         UNCHANGED <<form, constraints, body, out>>,
         errors = 0, errors' = errors + 1, stage # "Eof",
         \/ ~Accepted(form, constraints, Len(out) + 1)
         \/ Exceeds(Len(Encode(form)), constraints.whole_stream)
         \/ SourceMayFail
  PROVE  Abstract!ReportFailure
<1>1. Len(Emitted) = Len(out) /\ Len(out) \in Nat /\ Emitted' = Emitted
  BY EmittedShape DEF Emitted
<1>2. Verdict = "open" /\ Verdict' = "failed"
  BY DEF Verdict
<1>3. PartCount(form) \in Nat
  BY UnambiguousParts, BoundariesInOrder
<1>4. Len(out) + 1 \in 1..(PartCount(form) + 1)
  BY <1>1, <1>3
<1>5. /\ Abstract!AcceptedUpto(Len(out) + 1) <=> Accepted(form, constraints, Len(out) + 1)
      /\ Abstract!StreamTooLarge <=> Exceeds(Len(Encode(form)), constraints.whole_stream)
  BY <1>4, AbstractAccepted
<1> QED BY <1>1, <1>2, <1>5 DEF Abstract!ReportFailure

LEMMA AbstractEnds ==
  ASSUME Unambiguous(form), out \in Seq(GivenType), Len(out) = PartCount(form),
         UNCHANGED <<form, constraints, body, out, errors>>,
         errors = 0, stage # "Eof", stage' = "Eof",
         Accepted(form, constraints, Len(out) + 1)
  PROVE  Abstract!ReportEnd
<1>1. Len(Emitted) = Len(out) /\ Len(out) \in Nat /\ Emitted' = Emitted
  BY EmittedShape DEF Emitted
<1>2. Verdict = "open" /\ Verdict' = "end"
  BY DEF Verdict
<1>3. Len(out) = Len(form.parts) /\ Len(out) + 1 \in 1..(PartCount(form) + 1)
  BY <1>1 DEF PartCount
<1>4. Abstract!AcceptedUpto(Len(out) + 1)
  BY <1>3, AbstractAccepted
<1>5. Len(form.parts) + 1 = Len(out) + 1
  BY <1>3
<1> QED BY <1>1, <1>2, <1>3, <1>4, <1>5 DEF Abstract!ReportEnd

LEMMA AppendShape ==
  ASSUME NEW S, NEW q \in Seq(S), NEW e \in S
  PROVE  Append(q, e) = [j \in 1..(Len(q) + 1) |-> IF j = Len(q) + 1 THEN e ELSE q[j]]
<1>1. PICK n \in Nat : n = Len(q)
  <2>1. Len(q) \in Nat
    BY LenProperties, Zenon
  <2> QED BY <2>1, Zenon
<1>2. /\ Append(q, e) \in Seq(S) /\ Len(Append(q, e)) = Len(q) + 1
      /\ \A j \in 1..Len(q) : Append(q, e)[j] = q[j]
      /\ Append(q, e)[Len(q) + 1] = e
  BY AppendProperties
<1>3. PICK x : /\ x = Append(q, e) /\ x \in [1..(n + 1) -> S]
               /\ \A j \in 1..n : x[j] = q[j]
               /\ x[n + 1] = e
  <2>1. Append(q, e) \in [1..Len(Append(q, e)) -> S]
    BY <1>2, LenProperties, Zenon
  <2>2. Len(Append(q, e)) = n + 1
    BY <1>1, <1>2, Zenon
  <2>3. Append(q, e) \in [1..(n + 1) -> S]
    BY <2>1, <2>2, Zenon
  <2> QED BY <1>1, <1>2, <2>3, Zenon
<1>4. \A j \in 1..(n + 1) : x[j] = IF j = n + 1 THEN e ELSE q[j]
  BY <1>3
<1>5. x = [j \in 1..(n + 1) |-> x[j]]
  BY <1>3
<1>6. x = [j \in 1..(n + 1) |-> IF j = n + 1 THEN e ELSE q[j]]
  BY <1>4, <1>5
<1> QED BY <1>1, <1>3, <1>6, Zenon

LEMMA AppendFunction ==
  ASSUME NEW n \in Nat, NEW q, q = [j \in 1..n |-> q[j]], NEW e
  PROVE  Append(q, e) = [j \in 1..(n + 1) |-> IF j = n + 1 THEN e ELSE q[j]]
<1> DEFINE S == {q[j] : j \in 1..n} \union {e}
<1>1. (\A j \in 1..n : q[j] \in S) /\ e \in S
  OBVIOUS
<1> HIDE DEF S
<1>2. q \in [1..n -> S]
  BY <1>1
<1>3. q \in Seq(S) /\ Len(q) = n
  BY <1>2, SeqDef
<1>4. Append(q, e) = [j \in 1..(Len(q) + 1) |-> IF j = Len(q) + 1 THEN e ELSE q[j]]
  BY <1>1, <1>3, AppendShape
<1> QED BY <1>3, <1>4

LEMMA AbstractOpens ==
  ASSUME Unambiguous(form), out \in Seq(GivenType), body \in Seq(Bytes),
         NEW k, k = Len(out) + 1, k <= PartCount(form),
         UNCHANGED <<form, constraints, body, errors>>,
         errors = 0, stage # "Eof", stage' # "Eof",
         Accepted(form, constraints, k),
         NEW at \in Nat,
         out' = Append(out, [idx |-> k - 1, name |-> NameOf(form, k), done |-> FALSE,
                             start |-> at, upto |-> at])
  PROVE  Abstract!OpenField
<1>1. /\ Len(Emitted) = Len(out) /\ Len(out) \in Nat /\ DOMAIN out = 1..Len(out)
  BY EmittedShape
<1>2. Verdict = "open" /\ Verdict' = "open"
  BY DEF Verdict
<1>3. k \in 1..(PartCount(form) + 1) /\ k <= Len(form.parts)
  BY <1>1, UnambiguousParts, BoundariesInOrder DEF PartCount
<1>4. Abstract!AcceptedUpto(k)
  BY <1>3, AbstractAccepted
<1>5. Emitted' = Append(Emitted, [idx |-> k - 1, name |-> Abstract!PartName(k),
                                  data |-> << >>, done |-> FALSE])
  <2>1. /\ DOMAIN out' = 1..(Len(out) + 1) /\ \A j \in 1..Len(out) : out'[j] = out[j]
        /\ out'[k] = [idx |-> k - 1, name |-> NameOf(form, k), done |-> FALSE,
                      start |-> at, upto |-> at]
    BY <1>1
  <2>2. SubSeq(body, at + 1, at) = << >>
    OBVIOUS
  <2>3. Emitted' = [j \in 1..(Len(out) + 1) |->
                      [ idx |-> out'[j].idx, name |-> out'[j].name, done |-> out'[j].done,
                        data |-> SubSeq(body, out'[j].start + 1, out'[j].upto) ]]
    BY <2>1 DEF Emitted
  <2>4. Emitted = [j \in 1..Len(out) |->
                      [ idx |-> out[j].idx, name |-> out[j].name, done |-> out[j].done,
                        data |-> SubSeq(body, out[j].start + 1, out[j].upto) ]]
    BY <1>1 DEF Emitted
  <2>5. Abstract!PartName(k) = NameOf(form, k)
    BY AbstractNames
  <2>6. PICK e : e = [idx |-> k - 1, name |-> Abstract!PartName(k),
                      data |-> << >>, done |-> FALSE]
    OBVIOUS
  <2>7. Append(Emitted, e)
        = [j \in 1..(Len(out) + 1) |-> IF j = Len(out) + 1 THEN e ELSE Emitted[j]]
    <3>1. PICK n, q : /\ n \in Nat /\ n = Len(out) /\ q = Emitted /\ q = [j \in 1..n |-> q[j]]
      BY EmittedShape
    <3>2. Append(q, e) = [j \in 1..(n + 1) |-> IF j = n + 1 THEN e ELSE q[j]]
      BY <3>1, AppendFunction
    <3> QED BY <3>1, <3>2
  <2>8. ASSUME NEW j \in 1..(Len(out) + 1)
        PROVE  [ idx |-> out'[j].idx, name |-> out'[j].name, done |-> out'[j].done,
                 data |-> SubSeq(body, out'[j].start + 1, out'[j].upto) ]
               = IF j = Len(out) + 1 THEN e ELSE Emitted[j]
    <3>1. CASE j = Len(out) + 1
      <4>1. /\ out'[j].idx = k - 1 /\ out'[j].name = NameOf(form, k) /\ out'[j].done = FALSE
            /\ out'[j].start = at /\ out'[j].upto = at
        BY <2>1, <3>1
      <4> QED BY <2>2, <2>5, <2>6, <3>1, <4>1
    <3>2. CASE j # Len(out) + 1
      <4>1. j \in 1..Len(out)
        BY <1>1, <3>2
      <4>2. out'[j] = out[j]
        BY <2>1, <4>1
      <4> QED BY <2>4, <3>2, <4>1, <4>2
    <3> QED BY <3>1, <3>2
  <2>9. [j \in 1..(Len(out) + 1) |->
           [ idx |-> out'[j].idx, name |-> out'[j].name, done |-> out'[j].done,
             data |-> SubSeq(body, out'[j].start + 1, out'[j].upto) ]]
        = [j \in 1..(Len(out) + 1) |-> IF j = Len(out) + 1 THEN e ELSE Emitted[j]]
    BY <2>8
  <2>10. Emitted' = Append(Emitted, e)
    BY <2>3, <2>7, <2>9, Zenon
  <2> QED BY <2>6, <2>10
<1> QED BY <1>1, <1>2, <1>3, <1>4, <1>5 DEF Abstract!OpenField

LEMMA ShownPart ==
  ASSUME NEW s \in Seq(Bytes), NEW at \in Nat, NEW d \in Seq(Bytes), Shows(s, at, d),
         NEW n \in 0..Len(d), at + n <= Len(s)
  PROVE  /\ SubSeq(s, at + 1, at + n) = SubSeq(d, 1, n) /\ Len(SubSeq(d, 1, n)) = n
<1>1. n \in Nat /\ n <= Len(d) /\ Len(d) \in Nat /\ Len(s) \in Nat
  OBVIOUS
<1>2. /\ SubSeq(s, at + 1, at + n) \in Seq(Bytes) /\ Len(SubSeq(s, at + 1, at + n)) = n
      /\ \A i \in 1..n : SubSeq(s, at + 1, at + n)[i] = s[at + i]
  BY <1>1
<1>3. /\ SubSeq(d, 1, n) \in Seq(Bytes) /\ Len(SubSeq(d, 1, n)) = n
      /\ \A i \in 1..n : SubSeq(d, 1, n)[i] = d[i]
  BY <1>1
<1>4. \A i \in 1..n : s[at + i] = d[i]
  BY <1>1 DEF Shows
<1>5. \A i \in 1..n : SubSeq(s, at + 1, at + n)[i] = SubSeq(d, 1, n)[i]
  BY <1>2, <1>3, <1>4
<1>6. SubSeq(s, at + 1, at + n) = SubSeq(d, 1, n)
  BY <1>2, <1>3, <1>5, SeqEqual
<1> QED BY <1>3, <1>6

LEMMA DataShown ==
  ASSUME NEW f, Unambiguous(f), NEW k \in 1..PartCount(f),
         NEW upto \in DataAt(f, k)..DataEnd(f, k), upto <= Len(Encode(f))
  PROVE  /\ upto - DataAt(f, k) \in 0..Len(f.parts[k].data)
         /\ upto = DataEnd(f, k) => upto - DataAt(f, k) = Len(f.parts[k].data)
         /\ SubSeq(Encode(f), DataAt(f, k) + 1, upto)
              = SubSeq(f.parts[k].data, 1, upto - DataAt(f, k))
         /\ Len(SubSeq(f.parts[k].data, 1, upto - DataAt(f, k))) = upto - DataAt(f, k)
<1>1. f \in FormType /\ f.drop <= Len(Complete(f))
  BY UnambiguousParts
<1>2. Encode(f) \in Seq(Bytes) /\ BodyShown(Encode(f), f)
  BY <1>1, EncodedPrefix, BodyLayout
<1>3. /\ DataAt(f, k) \in Nat /\ DataLen(f.parts[k]) \in Nat /\ f.parts[k] \in PartType
      /\ DataEnd(f, k) = DataAt(f, k) + DataLen(f.parts[k])
  BY <1>1, PartPositions
<1>4. PICK d \in Seq(Bytes) : d = f.parts[k].data
  BY <1>3 DEF PartType
<1>5. PICK at \in Nat : at = DataAt(f, k)
  BY <1>3
<1>6. DataEnd(f, k) = at + Len(d) /\ Shows(Encode(f), at, d)
  <2>1. Shows(Encode(f), DataAt(f, k), f.parts[k].data)
    BY <1>2 DEF BodyShown, PieceShown
  <2> QED BY <1>3, <1>4, <1>5, <2>1, Zenon DEF DataLen
<1>7. PICK n \in Nat : upto = at + n /\ n = upto - at /\ n \in 0..Len(d)
  <2>1. upto \in at..(at + Len(d)) /\ Len(d) \in Nat
    BY <1>4, <1>5, <1>6
  <2>2. upto - at \in Nat /\ upto = at + (upto - at) /\ upto - at \in 0..Len(d)
    BY <2>1
  <2> QED BY <2>2
<1>8. /\ SubSeq(Encode(f), at + 1, at + n) = SubSeq(d, 1, n) /\ Len(SubSeq(d, 1, n)) = n
  <2>1. at + n <= Len(Encode(f))
    BY <1>7
  <2> QED BY <1>2, <1>4, <1>6, <1>7, <2>1, ShownPart
<1>9. upto = at + Len(d) => n = Len(d)
  <2>1. Len(d) \in Nat
    BY <1>4
  <2> QED BY <1>7, <2>1
<1>10. /\ upto - at \in 0..Len(d) /\ (upto = at + Len(d) => upto - at = Len(d))
       /\ SubSeq(Encode(f), at + 1, upto) = SubSeq(d, 1, upto - at)
       /\ Len(SubSeq(d, 1, upto - at)) = upto - at
  BY <1>7, <1>8, <1>9, Zenon
<1> QED BY <1>4, <1>5, <1>6, <1>10, Zenon

\* An entry of the emitted fields, and the entry once more data is delivered
FieldRecord(idx, name, done, data) ==
  [idx |-> idx, name |-> name, done |-> done, data |-> data]

Extended(r, data, done) == [r EXCEPT !.data = data, !.done = done]

LEMMA RecordExtended ==
  ASSUME NEW a, NEW b, NEW c, NEW x, NEW d, NEW done
  PROVE  Extended(FieldRecord(a, b, c, x), d, done) = FieldRecord(a, b, done, d)
<1> DEFINE r == [idx |-> a, name |-> b, done |-> c, data |-> x]
<1>1. [r EXCEPT !.data = d, !.done = done] = [[r EXCEPT !.data = d] EXCEPT !.done = done]
  OBVIOUS
<1>2. [r EXCEPT !.data = d] = [idx |-> a, name |-> b, done |-> c, data |-> d]
  OBVIOUS
<1>3. [[idx |-> a, name |-> b, done |-> c, data |-> d] EXCEPT !.done = done]
      = [idx |-> a, name |-> b, done |-> done, data |-> d]
  OBVIOUS
<1> HIDE DEF r
<1>4. Extended(r, d, done) = [idx |-> a, name |-> b, done |-> done, data |-> d]
  BY <1>1, <1>2, <1>3 DEF Extended
<1>5. r = FieldRecord(a, b, c, x)
  BY DEF r, FieldRecord
<1>6. Extended(r, d, done) = FieldRecord(a, b, done, d)
  BY <1>4 DEF FieldRecord
<1> QED BY <1>5, <1>6

LEMMA RecordFields ==
  ASSUME NEW a, NEW b, NEW c, NEW x, NEW r,
         r = [idx |-> a, name |-> b, done |-> c, data |-> x]
  PROVE  r.idx = a /\ r.name = b /\ r.done = c /\ r.data = x
  OBVIOUS

LEMMA EmittedFields ==
  ASSUME out \in Seq(GivenType), NEW k \in 1..Len(out)
  PROVE  /\ Emitted[k].done = out[k].done /\ Emitted[k].name = out[k].name
         /\ Emitted[k].data = SubSeq(body, out[k].start + 1, out[k].upto)
<1>1. Emitted[k] = [ idx |-> out[k].idx, name |-> out[k].name, done |-> out[k].done,
                     data |-> SubSeq(body, out[k].start + 1, out[k].upto) ]
  BY EmittedShape
<1>2. PICK a, b, c, x, g : /\ a = out[k].idx /\ b = out[k].name /\ c = out[k].done
                            /\ x = SubSeq(body, out[k].start + 1, out[k].upto) /\ g = Emitted[k]
  OBVIOUS
<1>3. g = [idx |-> a, name |-> b, done |-> c, data |-> x]
  BY <1>1, <1>2
<1>4. g.name = b /\ g.done = c /\ g.data = x
  BY <1>3, RecordFields
<1> QED BY <1>2, <1>4, Zenon

LEMMA NatInRange == ASSUME NEW a \in Nat, NEW b, NEW x \in a..b PROVE x \in Nat
  OBVIOUS

LEMMA EmittedAfter ==
  ASSUME out \in Seq(GivenType), NEW k \in 1..Len(out), body' = body, NEW upto, NEW done,
         out' = [out EXCEPT ![k].upto = upto, ![k].done = done]
  PROVE  Emitted' = [Emitted EXCEPT ![k].data = SubSeq(body, out[k].start + 1, upto),
                                    ![k].done = done]
<1>1. PICK n \in Nat : n = Len(out) /\ DOMAIN out = 1..n
  OBVIOUS
<1> DEFINE Shown(g) == FieldRecord(g.idx, g.name, g.done, SubSeq(body, g.start + 1, g.upto))
           new == [out[k] EXCEPT !.upto = upto, !.done = done]
<1>2. Emitted = [j \in 1..n |-> Shown(out[j])]
  BY <1>1 DEF Emitted, FieldRecord
<1>3. DOMAIN out' = 1..n
  BY <1>1
<1>4. Emitted' = [j \in 1..n |-> Shown(out'[j])]
  BY <1>3 DEF Emitted, FieldRecord
<1>5. out'[k] = new /\ \A j \in 1..n : j # k => out'[j] = out[j]
  BY <1>1
<1>6. out[k] \in GivenType
  OBVIOUS
<1>7. /\ new.idx = out[k].idx /\ new.name = out[k].name /\ new.start = out[k].start
      /\ new.upto = upto /\ new.done = done
  BY <1>6 DEF GivenType
<1> HIDE DEF new
<1>8. PICK d : d = SubSeq(body, out[k].start + 1, upto)
  OBVIOUS
<1>9. PICK e : e = Emitted /\ e = [j \in 1..n |-> Shown(out[j])]
  BY <1>2
<1>10. Shown(new) = FieldRecord(out[k].idx, out[k].name, done, d)
  BY <1>7, <1>8
<1>11. Extended(e[k], d, done) = FieldRecord(out[k].idx, out[k].name, done, d)
  <2>1. e[k] = Shown(out[k])
    BY <1>1, <1>9
  <2> QED BY <2>1, RecordExtended
<1>12. [e EXCEPT ![k].data = d, ![k].done = done]
       = [j \in 1..n |-> IF j = k THEN Extended(e[k], d, done) ELSE e[j]]
  <2>1. DOMAIN e = 1..n /\ k \in 1..n
    BY <1>1, <1>9
  <2>2. e = [j \in 1..n |-> e[j]]
    BY <1>9
  <2> HIDE DEF Shown
  <2> QED BY <2>1, <2>2 DEF Extended
<1>13. ASSUME NEW j \in 1..n
       PROVE  Shown(out'[j]) = IF j = k THEN Extended(e[k], d, done) ELSE e[j]
  <2>1. CASE j = k
    <3>1. Shown(out'[k]) = Shown(new)
      BY <1>5, Zenon
    <3> QED BY <1>10, <1>11, <2>1, <3>1, Zenon
  <2>2. CASE j # k
    <3>1. Shown(out'[j]) = Shown(out[j]) /\ e[j] = Shown(out[j])
      BY <1>5, <1>9, <2>2, Zenon
    <3> QED BY <2>2, <3>1, Zenon
  <2> QED BY <2>1, <2>2
<1>14. [j \in 1..n |-> Shown(out'[j])]
       = [j \in 1..n |-> IF j = k THEN Extended(e[k], d, done) ELSE e[j]]
  <2> HIDE DEF Shown
  <2> QED BY <1>13
<1> HIDE DEF Shown
<1>15. Emitted' = [e EXCEPT ![k].data = d, ![k].done = done]
  BY <1>4, <1>12, <1>14, Zenon
<1> QED BY <1>8, <1>9, <1>15, Zenon

\* Data of part k is given out, up to upto and within the limit; if it is done
\* with, it ends there and an acceptable boundary line follows.
Delivering(k, upto, done) ==
  /\ k \in 1..Len(out) /\ k = Len(out) /\ k \in 1..PartCount(form)
  /\ GivenFollows(k) /\ ~out[k].done
  /\ upto \in DataAt(form, k)..DataEnd(form, k) /\ out[k].upto <= upto /\ upto <= Len(body)
  /\ done \in BOOLEAN
  /\ ~Exceeds(upto - DataAt(form, k), LimitOf(constraints, NameOf(form, k)))
  /\ done => upto = DataEnd(form, k) /\ LineAccepted(form, constraints, k + 1)
  /\ out' = [out EXCEPT ![k].upto = upto, ![k].done = done]

LEMMA AbstractDelivers ==
  ASSUME Unambiguous(form), out \in Seq(GivenType), body = Encode(form),
         UNCHANGED <<form, constraints, body, errors>>,
         errors = 0, stage # "Eof", stage' # "Eof",
         NEW k, NEW upto, NEW done, Delivering(k, upto, done)
  PROVE  Abstract!DeliverData
<1>1. Verdict = "open" /\ Verdict' = "open"
  BY DEF Verdict
<1>2. /\ k \in 1..Len(out) /\ k = Len(out) /\ k \in 1..PartCount(form)
      /\ ~out[k].done /\ out[k].start = DataAt(form, k) /\ out[k].name = NameOf(form, k)
      /\ out[k].upto \in DataAt(form, k)..DataEnd(form, k)
  BY Zenon DEF Delivering, GivenFollows
<1>3. /\ upto \in DataAt(form, k)..DataEnd(form, k) /\ out[k].upto <= upto /\ upto <= Len(body)
      /\ done \in BOOLEAN
      /\ ~Exceeds(upto - DataAt(form, k), LimitOf(constraints, NameOf(form, k)))
      /\ done => upto = DataEnd(form, k) /\ LineAccepted(form, constraints, k + 1)
  BY Zenon DEF Delivering
<1>4. PICK at \in Nat : at = DataAt(form, k)
  BY <1>2, UnambiguousParts, PartPositions
<1>5. PICK d, n, old : d = form.parts[k].data /\ n = upto - at /\ old = out[k].upto - at
  OBVIOUS
<1>6. /\ n \in 0..Len(d) /\ (upto = DataEnd(form, k) => n = Len(d))
      /\ SubSeq(body, at + 1, upto) = SubSeq(d, 1, n)
  BY <1>2, <1>3, <1>4, <1>5, DataShown
<1>7. out[k].upto <= Len(Encode(form)) /\ old <= n
  <2>1. Len(Encode(form)) \in Nat
    BY UnambiguousParts, EncodedPrefix
  <2>2. upto \in Nat /\ out[k].upto \in Nat
    BY <1>2, <1>3, <1>4, NatInRange, Zenon
  <2>3. upto <= Len(Encode(form))
    BY <1>3
  <2> QED BY <1>3, <1>4, <1>5, <2>1, <2>2, <2>3
<1>8. /\ old \in 0..Len(d)
      /\ SubSeq(body, at + 1, out[k].upto) = SubSeq(d, 1, old) /\ Len(SubSeq(d, 1, old)) = old
  BY <1>2, <1>4, <1>5, <1>7, DataShown
<1>9. /\ Len(Emitted) = Len(out) /\ DOMAIN Emitted = 1..Len(out)
      /\ Emitted[k].done = out[k].done /\ Emitted[k].name = out[k].name
      /\ Emitted[k].data = SubSeq(body, out[k].start + 1, out[k].upto)
  <2>1. Len(Emitted) = Len(out) /\ DOMAIN Emitted = 1..Len(out)
    BY EmittedShape
  <2> QED BY <1>2, <2>1, EmittedFields, Zenon
<1>10. Emitted[k].data = SubSeq(d, 1, old)
  BY <1>2, <1>4, <1>8, <1>9, Zenon
<1>11. Len(Emitted[k].data) = old
  BY <1>8, <1>10, Zenon
<1>12. ~Abstract!Exceeds(n, Abstract!FieldLimit(Emitted[k].name))
  <2>1. Abstract!FieldLimit(Emitted[k].name) = LimitOf(constraints, NameOf(form, k))
    BY <1>2, <1>9, AbstractNames
  <2>2. ~Exceeds(n, LimitOf(constraints, NameOf(form, k)))
    BY <1>3, <1>4, <1>5, Zenon
  <2> QED BY <2>1, <2>2, SameWords
<1>13. done => n = Len(d) /\ Abstract!Terminated(k)
  BY <1>2, <1>3, <1>6, AbstractTerminated
<1>14. Emitted' = [Emitted EXCEPT ![k].data = SubSeq(d, 1, n), ![k].done = done]
  <2>1. out' = [out EXCEPT ![k].upto = upto, ![k].done = done]
    BY Zenon DEF Delivering
  <2>2. Emitted' = [Emitted EXCEPT ![k].data = SubSeq(body, out[k].start + 1, upto),
                                   ![k].done = done]
    <3>1. k \in 1..Len(out) /\ body' = body
      BY <1>2
    <3> QED BY <2>1, <3>1, EmittedAfter, Zenon
  <2>3. SubSeq(body, out[k].start + 1, upto) = SubSeq(d, 1, n)
    <3>1. out[k].start = at
      BY <1>2, <1>4, Zenon
    <3> QED BY <1>6, <3>1, Zenon
  <2> QED BY <2>2, <2>3, Zenon
<1>15. n \in old..Len(d)
  BY <1>6, <1>7, <1>8
<1>16. Len(Emitted) = k /\ k > 0
  BY <1>2, <1>9
<1>17. /\ Verdict = "open" /\ Len(Emitted) > 0 /\ ~Emitted[Len(Emitted)].done
       /\ n \in Len(Emitted[Len(Emitted)].data)..Len(form.parts[Len(Emitted)].data)
       /\ ~Abstract!Exceeds(n, Abstract!FieldLimit(Emitted[Len(Emitted)].name))
       /\ done \in BOOLEAN
       /\ done => n = Len(form.parts[Len(Emitted)].data) /\ Abstract!Terminated(Len(Emitted))
       /\ Emitted' = [Emitted EXCEPT ![Len(Emitted)].data = SubSeq(form.parts[Len(Emitted)].data, 1, n),
                                     ![Len(Emitted)].done = done]
  BY <1>1, <1>2, <1>3, <1>5, <1>9, <1>11, <1>12, <1>13, <1>14, <1>15, <1>16, Zenon
<1>18. UNCHANGED <<form, constraints, Verdict>>
  BY <1>1
<1> QED BY <1>17, <1>18, Zenon DEF Abstract!DeliverData

-----------------------------------------------------------------------------
(* What holds whenever a step is taken *)

\* The invariants of the parser that are proved of every body, those and where the
\* parser stands, and what a step has to establish
UploadInv == SafeInv /\ Framing /\ Searched

Ready == UploadInv /\ Follows /\ Unambiguous(form) /\ MaxErrors = 0

Implements == Follows' /\ [Abstract!FieldSequenceNext]_(Abstract!abstractVars)

Situation == InputFollows /\ FieldsFollow /\ PartsFollow /\ PlaceFollows

LEMMA ReadyFacts ==
  ASSUME Ready
  PROVE  /\ IInv /\ BufferCounted /\ FieldsOK /\ Framing /\ Searched
         /\ Unambiguous(form) /\ form \in FormType /\ form.drop <= Len(Complete(form))
         /\ form \in Forms /\ body = Encode(form) /\ body \in Seq(Bytes)
         /\ out \in Seq(GivenType)
         /\ errors \in Nat /\ (pc # "idle" => errors = 0)
         /\ (errors = 0 => Situation)
<1>1. IInv /\ BufferCounted /\ FieldsOK /\ Framing /\ Searched /\ Unambiguous(form)
      /\ MaxErrors = 0 /\ Follows
  BY DEF Ready, UploadInv, SafeInv
<1>2. form \in FormType /\ form.drop <= Len(Complete(form)) /\ Encode(form) \in Seq(Bytes)
  BY <1>1, UnambiguousParts, EncodedPrefix
<1>3. form \in Forms /\ body = Encode(form) /\ (errors = 0 => Situation)
  BY <1>1 DEF Follows, Situation
<1>4. out \in Seq(GivenType) /\ errors \in 0..(MaxErrors + 1)
      /\ (pc # "idle" => errors <= MaxErrors)
  BY <1>1 DEF IInv, TypeOK, ErrorsCounted
<1>5. errors \in Nat /\ (pc # "idle" => errors = 0)
  BY <1>1, <1>4
<1> QED BY <1>1, <1>2, <1>3, <1>4, <1>5

\* An error is justified by a part that is not acceptable, a body over the
\* limit, or a source that may fail.
LEMMA StepFails ==
  ASSUME Ready, errors = 0, stage # "Eof",
         UNCHANGED <<form, constraints, body, out>>, errors' = errors + 1,
         \/ ~Accepted(form, constraints, Len(out) + 1)
         \/ Exceeds(Len(Encode(form)), constraints.whole_stream)
         \/ SourceMayFail
  PROVE  Implements
<1>1. Unambiguous(form) /\ out \in Seq(GivenType) /\ form \in Forms /\ body = Encode(form)
      /\ Situation
  BY ReadyFacts
<1>2. Len(out) <= PartCount(form)
  BY <1>1 DEF Situation, FieldsFollow
<1>3. Abstract!ReportFailure
  BY <1>1, <1>2, AbstractFails
<1>4. Follows'
  BY <1>1 DEF Follows
<1> QED BY <1>3, <1>4 DEF Implements, Abstract!FieldSequenceNext

\* A step that gives out nothing only has to keep the place.
LEMMA StepStutters ==
  ASSUME Ready, UNCHANGED <<form, constraints, body, out, errors>>,
         errors = 0 => (stage' = "Eof" <=> stage = "Eof") /\ Situation'
  PROVE  Implements
<1>1. form \in Forms /\ body = Encode(form) /\ errors \in Nat
  BY ReadyFacts
<1>2. Verdict' = Verdict
  BY <1>1 DEF Verdict
<1>3. UNCHANGED Abstract!abstractVars
  BY <1>2, AbstractStutters
<1>4. Follows'
  BY <1>1 DEF Follows, Situation
<1> QED BY <1>3, <1>4 DEF Implements

LEMMA PartsFollowStill ==
  ASSUME PartsFollow, UNCHANGED <<form, constraints, out>>,
         stage' = stage \/ (stage \notin {"FindingFirstBoundary", "ReadingFieldData"}
                            /\ stage' # "ReadingFieldData")
  PROVE  PartsFollow'
  BY DEF PartsFollow

LEMMA FieldsFollowStill ==
  ASSUME FieldsFollow, UNCHANGED <<form, out, next_field_idx>>
  PROVE  FieldsFollow'
<1>1. \A k : GivenFollows(k)' <=> GivenFollows(k)
  BY DEF GivenFollows
<1> QED BY <1>1 DEF FieldsFollow

LEMMA PlaceFollowsStill ==
  ASSUME PlaceFollows, lo \in Nat, hi \in Nat, hi' \in Nat, hi' >= hi,
         UNCHANGED <<rigid, form, out, stage, lo, transport_padding_counter, curr>>,
         stage = "Eof" => field' = NoField /\ pc' \in {"idle", "parse"}
  PROVE  PlaceFollows'
<1>1. UNCHANGED <<body, constraints, form, out, stage, lo, transport_padding_counter,
                  curr_field_size_limit, curr_field_size_counter>>
  BY DEF rigid, curr
<1>2. \A k : PaddingFollows(k) => PaddingFollows(k)'
  BY <1>1 DEF PaddingFollows
<1>3. \A k : DataFollows(k) => DataFollows(k)'
  BY <1>1 DEF DataFollows
<1>4. (Len(out) + 1)' = Len(out) + 1
  BY <1>1
<1>5. PICK next : next = Len(out) + 1
  OBVIOUS
<1> QED BY <1>1, <1>2, <1>3, <1>4, Zenon DEF PlaceFollows

\* A step of the task or of the application that does not touch the parser
LEMMA QuietImplements ==
  ASSUME Ready, form' = form,
         UNCHANGED <<rigid, out, next_field_idx, stage, lo, transport_padding_counter, curr, errors>>,
         hi' \in Nat, hi' >= hi,
         errors = 0 => InputFollows',
         errors = 0 /\ stage = "Eof" => field' = NoField /\ pc' \in {"idle", "parse"}
  PROVE  Implements
<1>1. UNCHANGED <<form, constraints, body, out, errors, stage, next_field_idx>>
  BY DEF rigid
<1>2. ASSUME errors = 0
      PROVE  Situation'
  <2>1. FieldsFollow /\ PartsFollow /\ PlaceFollows
    BY <1>2, ReadyFacts DEF Situation
  <2>2. lo \in Nat /\ hi \in Nat
    BY ReadyFacts, FramingTypes
  <2>3. PlaceFollows'
    BY <1>2, <2>1, <2>2, PlaceFollowsStill
  <2>4. FieldsFollow' /\ PartsFollow'
    BY <1>1, <2>1, FieldsFollowStill, PartsFollowStill
  <2> QED BY <1>2, <2>3, <2>4 DEF Situation
<1>3. (stage' = "Eof" <=> stage = "Eof")
  BY <1>1
<1> QED BY <1>1, <1>2, <1>3, StepStutters

LEMMA OutsideImplements ==
  ASSUME Ready, form' = form,
         Application \/ Repoll \/ SourceWake \/ LockFailure \/ AtEof \/ ReadExhausted
  PROVE  Implements
<1>1. /\ UNCHANGED <<rigid, input, out, next_field_idx, stage, lo, transport_padding_counter,
                     curr, errors>>
  BY DEF Application, CallNextField, CallChunk, DropField, Cancel, Stopped, vars, scan, parser,
         given, caller, Repoll, SourceWake, LockFailure, AtEof, ReadExhausted, Return
<1>2. hi \in Nat
  BY ReadyFacts, FramingTypes
<1>3. hi' = hi
  BY <1>1 DEF input
<1>4. errors = 0 => InputFollows'
  <2>1. InputFollows => InputFollows'
    BY <1>1 DEF InputFollows, input, rigid
  <2> QED BY <2>1, ReadyFacts DEF Situation
<1>5. errors = 0 /\ stage = "Eof" => field' = NoField /\ pc' \in {"idle", "parse"}
  <2>1. SUFFICES ASSUME errors = 0, stage = "Eof"
                 PROVE  field' = NoField /\ pc' \in {"idle", "parse"}
    OBVIOUS
  <2>2. field = NoField /\ pc \in {"idle", "parse"}
    BY <2>1, ReadyFacts DEF Situation, PlaceFollows
  <2>3. NoField.done
    BY DEF NoField
  <2> QED BY <2>2, <2>3 DEF Application, CallNextField, CallChunk, DropField, Cancel, Stopped,
             vars, given, caller, Repoll, SourceWake, LockFailure, AtEof, ReadExhausted, Return,
             BeginPoll, Parsing, At
<1>6. hi' \in Nat /\ hi' >= hi
  BY <1>2, <1>3
<1> QED BY <1>1, <1>4, <1>5, <1>6, QuietImplements

-----------------------------------------------------------------------------
(* poll_stream *)

LEMMA FillFacts ==
  ASSUME Ready, FillNext
  PROVE  /\ errors = 0 /\ InputFollows /\ ~eof /\ stage # "Eof" /\ pc = "fill"
         /\ sent \in Nat /\ hi = sent /\ stream_size_counter \in Nat /\ Len(body) \in Nat
         /\ U64Max \in Nat /\ constraints.whole_stream \in Nat
         /\ constraints.whole_stream <= U64Max
         /\ stream_size_counter <= sent
<1>1. pc = "fill" /\ IInv
  BY FillFrame, ReadyFacts
<1>2. errors = 0 /\ Framing /\ Situation
  BY <1>1, ReadyFacts
<1>3. ~eof
  BY <1>1, <1>2 DEF Framing
<1>4. InputFollows /\ stage # "Eof"
  BY <1>1, <1>2 DEF Situation, PlaceFollows
<1>5. BufferTypeOK /\ constraints \in ConstraintSets
  BY <1>1 DEF IInv, TypeOK, BufferTypeOK
<1>6. sent \in Nat /\ stream_size_counter \in Nat /\ Len(body) \in Nat
  <2>1. body \in Seq(Bytes)
    BY ReadyFacts
  <2> QED BY <1>5, <2>1 DEF BufferTypeOK, U64
<1>7. constraints.whole_stream \in Nat /\ constraints.whole_stream <= U64Max /\ U64Max \in Nat
  BY <1>5, ConstraintTypes, WidthAssumption DEF U64
<1> QED BY <1>1, <1>2, <1>3, <1>4, <1>6, <1>7 DEF InputFollows

LEMMA SatAddLess ==
  ASSUME NEW x \in Nat, NEW n \in Nat, U64Max \in Nat
  PROVE  /\ SatAdd(x, n) <= x + n /\ SatAdd(x, n) \in Nat /\ SatAdd(x, n) <= U64Max
         /\ SatAdd(x, n) = x + n \/ SatAdd(x, n) = U64Max
  BY DEF SatAdd

LEMMA SourceExceeds ==
  ASSUME NEW n \in Nat, NEW x \in Nat, NEW s \in Nat, NEW len \in Nat, NEW limit \in Nat,
         U64Max \in Nat, limit <= U64Max, x <= s, s + n <= len, SatAdd(x, n) > limit
  PROVE  Exceeds(len, limit)
<1>1. PICK c \in Nat : c = SatAdd(x, n) /\ c <= x + n /\ c <= U64Max
  BY SatAddLess
<1>2. limit # U64Max /\ len > limit
  BY <1>1
<1> QED BY <1>2 DEF Exceeds

\* Each answer of the source: only the limit on the stream and an error of the
\* source's own are seen; all others move the end of the buffer.
LEMMA FillTooMuchImplements ==
  ASSUME Ready, form' = form, FillTooMuch
  PROVE  Implements
<1>1. PICK n \in ChunkSizes \union {0} : FillStep(PollTooMuch(n) /\ Fail("StreamSizeExceeded"))
  BY DEF FillTooMuch
<1>2. n \in Nat
  BY SourceAssumption
<1>3. FillNext
  BY DEF FillNext
<1>4. Exceeds(Len(body), constraints.whole_stream)
  <2>1. sent + n <= Len(body) /\ SatAdd(stream_size_counter, n) > constraints.whole_stream
    BY <1>1 DEF FillStep, PollTooMuch, SourceSends, Counted
  <2> QED BY <1>2, <1>3, <2>1, FillFacts, SourceExceeds
<1>5. UNCHANGED <<form, constraints, body, out>> /\ errors' = errors + 1
  BY <1>1 DEF FillStep, rigid, given, Fail
<1>6. errors = 0 /\ stage # "Eof" /\ body = Encode(form)
  BY <1>3, FillFacts, ReadyFacts
<1> QED BY <1>4, <1>5, <1>6, StepFails

LEMMA FillErrorImplements ==
  ASSUME Ready, form' = form, FillError
  PROVE  Implements
<1>1. FillNext
  BY DEF FillNext
<1>2. UNCHANGED <<form, constraints, body, out>> /\ errors' = errors + 1 /\ SourceMayFail
  BY DEF FillError, FillStep, rigid, given, Fail, PollError
<1>3. errors = 0 /\ stage # "Eof"
  BY <1>1, FillFacts
<1> QED BY <1>2, <1>3, StepFails

LEMMA FillImplements ==
  ASSUME Ready, form' = form, FillNext
  PROVE  Implements
<1>1. /\ errors = 0 /\ InputFollows /\ ~eof /\ stage # "Eof" /\ IInv
      /\ sent \in Nat /\ hi = sent /\ stream_size_counter \in Nat /\ Len(body) \in Nat
      /\ stream_size_counter <= sent
  BY FillFacts, ReadyFacts
<1>2. UNCHANGED <<rigid, scan, parser, curr, given>>
  BY FillFrame
<1>3. UNCHANGED <<rigid, out, next_field_idx, stage, lo, transport_padding_counter, curr>>
  BY <1>2 DEF scan, parser, given
<1>4. hi' \in Nat /\ hi' >= hi
  BY <1>1, FillGrows
<1>5. ASSUME NEW n \in Nat, SourceSends(n), hi' = hi + n
      PROVE  InputFollows'
  <2>1. sent' = sent + n /\ stream_size_counter' = SatAdd(stream_size_counter, n) /\ eof' = eof
    BY <1>5 DEF SourceSends, Counted
  <2>2. PICK c \in Nat : c = SatAdd(stream_size_counter, n) /\ c <= stream_size_counter + n
    BY <1>1, WidthAssumption, SatAddLess
  <2>3. stream_size_counter' <= sent'
    BY <1>1, <2>1, <2>2
  <2>4. hi' = sent' /\ ~eof'
    BY <1>1, <1>5, <2>1
  <2> QED BY <2>3, <2>4 DEF InputFollows
<1>6. CASE FillTooMuch
  BY <1>6, FillTooMuchImplements
<1>7. CASE FillError
  BY <1>7, FillErrorImplements
<1>8. CASE FillChunk
  <2>1. PICK n \in ChunkSizes : FillStep(PollChunk(n) /\ StreamPolled)
    BY <1>8 DEF FillChunk
  <2>2. n \in Nat /\ SourceSends(n) /\ hi' = hi + n /\ errors' = errors
    BY <2>1, SourceAssumption DEF FillStep, PollChunk, StreamPolled
  <2> QED BY <1>1, <1>3, <1>4, <1>5, <2>2, QuietImplements
<1>9. CASE FillEmpty
  <2>1. SourceSends(0) /\ hi' = hi /\ errors' = errors
    BY <1>9 DEF FillEmpty, FillStep, PollEmpty, StreamPolled, caller
  <2>2. hi' = hi + 0
    BY <1>1, <2>1
  <2> QED BY <1>1, <1>3, <1>4, <1>5, <2>1, <2>2, QuietImplements
<1>10. CASE FillEnd
  <2>1. sent = Len(body) /\ UNCHANGED <<sent, hi, stream_size_counter>> /\ errors' = errors
    BY <1>10 DEF FillEnd, FillStep, PollEnd, StreamPolled
  <2>2. body' = body
    BY <1>2 DEF rigid
  <2>3. InputFollows'
    BY <1>1, <2>1, <2>2 DEF InputFollows
  <2> QED BY <1>1, <1>3, <1>4, <2>1, <2>3, QuietImplements
<1>11. CASE FillPending
  <2>1. UNCHANGED input /\ errors' = errors
    BY <1>11 DEF FillPending, FillStep, PollPending, StreamPolled
  <2>2. InputFollows'
    BY <1>1, <1>2, <2>1 DEF InputFollows, input, rigid
  <2> QED BY <1>1, <1>3, <1>4, <2>1, <2>2, QuietImplements
<1> QED BY <1>6, <1>7, <1>8, <1>9, <1>10, <1>11 DEF FillNext

-----------------------------------------------------------------------------
(* The parser *)

LEMMA ParserFacts ==
  ASSUME Ready, ParserStep
  PROVE  /\ errors = 0 /\ InputFollows /\ FieldsFollow /\ PartsFollow /\ PlaceFollows
         /\ IInv /\ BufferTypeOK /\ PaddingCacheSound
         /\ lo \in Nat /\ hi \in Nat /\ lo <= hi /\ Len(body) \in Nat /\ hi <= Len(body)
         /\ BufLen = hi - lo /\ hi - lo <= U64Max /\ U64Max \in Nat
         /\ eof \in BOOLEAN /\ (eof => hi = Len(body))
         /\ transport_padding_counter \in Nat
         /\ UNCHANGED <<body, constraints, hi, eof, sent, stream_size_counter>>
         /\ pc \in {"parse", "reparse"}
<1>1. pc \in {"parse", "reparse"} /\ UNCHANGED <<rigid, input, task>>
  BY ParserFrame
<1>2. errors = 0 /\ Situation /\ IInv /\ body \in Seq(Bytes)
  BY <1>1, ReadyFacts
<1>3. BufferTypeOK /\ PaddingCacheSound /\ lo \in Nat /\ hi \in Nat /\ lo <= hi
  BY <1>2, FramingTypes
<1>4. /\ hi <= Len(body) /\ hi - lo <= UsizeMax /\ eof \in BOOLEAN
      /\ transport_padding_counter \in Nat
  BY <1>2, <1>3 DEF BufferTypeOK, BufLen, U64
<1>5. InputFollows /\ FieldsFollow /\ PartsFollow /\ PlaceFollows
  BY <1>2 DEF Situation
<1>6. eof => hi = Len(body)
  BY <1>5 DEF InputFollows
<1>7. hi - lo <= U64Max /\ U64Max \in Nat
  BY <1>3, <1>4, WidthAssumption
<1> QED BY <1>1, <1>2, <1>3, <1>4, <1>5, <1>6, <1>7 DEF rigid, input, BufLen

LEMMA ParserLimits ==
  ASSUME Ready
  PROVE  /\ constraints.preamble \in Nat /\ constraints.preamble <= U64Max
         /\ constraints.headers \in Nat /\ constraints.headers <= U64Max
         /\ constraints.boundary_padding \in Nat /\ constraints.boundary_padding <= U64Max
         /\ constraints.max_fields \in Nat
         /\ \A name : /\ LimitOf(constraints, name) \in Nat
                      /\ LimitOf(constraints, name) <= U64Max
<1>1. constraints \in ConstraintSets
  BY ReadyFacts DEF IInv, TypeOK, BufferTypeOK
<1>2. \A name : ExtractSizeLimitFor(name) = LimitOf(constraints, name)
  BY AbstractNames
<1> QED BY <1>1, <1>2, ConstraintTypes, WidthAssumption DEF U64, Usize

LEMMA NextPart ==
  ASSUME Ready, errors = 0
  PROVE  /\ Len(out) \in Nat /\ PartCount(form) \in Nat /\ Len(out) <= PartCount(form)
         /\ Len(out) + 1 \in 1..(PartCount(form) + 1)
         /\ \A k \in 1..Len(out) : k \in 1..PartCount(form) /\ k + 1 \in 1..(PartCount(form) + 1)
<1>1. out \in Seq(GivenType) /\ form \in FormType /\ FieldsFollow
  BY ReadyFacts DEF Situation
<1>2. Len(out) \in Nat /\ PartCount(form) \in Nat /\ Len(out) <= PartCount(form)
  BY <1>1, BoundariesInOrder DEF FieldsFollow
<1> QED BY <1>2

LEMMA Over ==
  ASSUME NEW limit \in Nat, U64Max \in Nat, limit <= U64Max, NEW n \in Nat, n <= U64Max, n > limit,
         NEW m \in Nat, m >= n
  PROVE  Exceeds(m, limit)
  BY DEF Exceeds

LEMMA FailOrSuspendCases ==
  ASSUME NEW exceeded \in BOOLEAN, NEW error, FailOrSuspend(exceeded, error)
  PROVE  \/ (exceeded \/ eof) /\ \E e : Fail(e)
         \/ ~exceeded /\ ~eof /\ Suspend
  BY DEF FailOrSuspend

\* The two ends of most stages: an error that is justified, or the next place
LEMMA ParserFails ==
  ASSUME Ready, form' = form, ParserStep, out' = out, stage # "Eof",
         NEW error, Fail(error), ~Accepted(form, constraints, Len(out) + 1)
  PROVE  Implements
<1>1. errors = 0 /\ UNCHANGED <<form, constraints, body, out>> /\ errors' = errors + 1
  BY ParserFacts DEF Fail
<1> QED BY <1>1, StepFails

LEMMA ParserMoves ==
  ASSUME Ready, form' = form, ParserStep, UNCHANGED <<out, next_field_idx, errors>>,
         stage # "Eof", stage' # "Eof", PartsFollow', PlaceFollows'
  PROVE  Implements
<1>1. /\ errors = 0 /\ InputFollows /\ FieldsFollow
      /\ UNCHANGED <<body, constraints, hi, eof, sent, stream_size_counter>>
  BY ParserFacts
<1>2. InputFollows' /\ FieldsFollow'
  BY <1>1, FieldsFollowStill DEF InputFollows
<1> QED BY <1>1, <1>2, StepStutters DEF Situation

LEMMA OutcomeKeepsErrors ==
  ASSUME Proceed \/ Suspend
  PROVE  errors' = errors
  BY DEF Proceed, Suspend, caller

LEMMA LineRefuted ==
  ASSUME NEW k, ~LineAccepted(form, constraints, k)
  PROVE  ~Accepted(form, constraints, k)
  BY DEF Accepted

LEMMA LineNeeds ==
  ASSUME NEW f, Unambiguous(f), NEW k \in 1..(PartCount(f) + 1), LineThere(f, k)
  PROVE  PadAt(f, k) + 2 <= Len(Encode(f))
<1>1. /\ LineFrom(f, k) \in Nat /\ LineTo(f, k) \in Nat /\ LineFrom(f, k) <= LineTo(f, k)
      /\ PadAt(f, k) \in Nat
      /\ LineFrom(f, k) = (IF Closing(f, k) THEN PadAt(f, k) + 2 ELSE PadAt(f, k))
  BY BoundaryLines
<1>2. Len(Encode(f)) \in Nat
  BY UnambiguousParts, EncodedPrefix
<1>3. /\ LineFrom(f, k) <= Len(Encode(f))
      /\ ~Closing(f, k) => LineTo(f, k) + 2 <= Len(Encode(f))
  BY DEF LineThere, LineComplete
<1> QED BY <1>1, <1>2, <1>3

\* The search for the first boundary finds the one behind the preamble, as soon as it
\* is there, and until then counts no byte of it as preamble.
LEMMA OpeningSeen ==
  ASSUME Ready, FindFirstBoundary
  PROVE  /\ lo = 0 /\ Len(out) = 0
         /\ BoundaryAt(form, 1) = PreambleLen(form) /\ PreambleLen(form) \in Nat
         /\ PadAt(form, 1) \in Nat /\ BoundaryLen \in Nat /\ BoundaryLen >= 2
         /\ PadAt(form, 1) = BoundaryAt(form, 1) + BoundaryLen
         /\ \/ PadAt(form, 1) <= hi /\ FindFirst = PreambleLen(form)
            \/ /\ PadAt(form, 1) > hi /\ FindFirst = NotFound
               /\ PreambleSeen \in Nat /\ PreambleSeen <= hi /\ PreambleSeen <= PreambleLen(form)
<1>1. ParserStep /\ stage = "FindingFirstBoundary"
  BY DEF FindFirstBoundary, At, ParserStep, NextFieldStep
<1>2. lo = 0 /\ Len(out) = 0
  BY <1>1, ParserFacts DEF PlaceFollows
<1>3. /\ IInv /\ Searched /\ Unambiguous(form) /\ form \in FormType /\ body = Encode(form)
      /\ body \in Seq(Bytes)
  BY ReadyFacts
<1>4. PICK s \in Seq(Bytes) : s = body
  BY <1>3
<1>5. hi \in 0..Len(s) /\ hi \in Nat
  BY <1>1, <1>4, ParserFacts
<1>6. PICK start \in Nat : start = first_boundary_search_start /\ lo + first_boundary_search_start = start
  BY <1>2, <1>3, FramingTypes
<1>7. \A at \in Occurrences(s, 0, hi, BoundaryBytes) : LineStart(s, 0, at) => at >= start
  BY <1>1, <1>2, <1>3, <1>4, <1>6, SearchedIsSound DEF CachedSearchSound, FirstBoundaryCacheSound
<1>8. /\ BoundaryAt(form, 1) = PreambleLen(form)
      /\ Shows(s, BoundaryAt(form, 1), BoundaryBytes)
      /\ \/ PadAt(form, 1) <= hi /\ FirstBoundary(s, 0, start, hi, BoundaryBytes) = BoundaryAt(form, 1)
         \/ PadAt(form, 1) > hi /\ FirstBoundary(s, 0, start, hi, BoundaryBytes) = NotFound
  <2>1. s = Encode(form)
    BY <1>3, <1>4, Zenon
  <2> QED BY <1>3, <1>5, <1>7, <2>1, OpeningBoundary
<1>9. FindFirst = FirstBoundary(s, 0, start, hi, BoundaryBytes)
  BY <1>2, <1>4, <1>6, Zenon DEF FindFirst
<1>10. /\ BoundaryAt(form, 1) \in Nat /\ BoundaryLen \in Nat /\ BoundaryLen >= 2
       /\ PadAt(form, 1) \in Nat /\ PadAt(form, 1) = BoundaryAt(form, 1) + BoundaryLen
  <2>1. 1 \in 1..(PartCount(form) + 1)
    BY <1>3, BoundariesInOrder
  <2> QED BY <1>3, <2>1, BoundaryPositions
<1>11. ASSUME PadAt(form, 1) > hi
       PROVE  PreambleSeen \in Nat /\ PreambleSeen <= hi /\ PreambleSeen <= PreambleLen(form)
  <2>1. PICK till \in Nat : till = BoundaryAt(form, 1)
    BY <1>10
  <2>2. PICK lo0, to0 : lo0 = 0 /\ to0 = hi /\ (lo0 \in 0..till)
    BY <2>1
  <2>3. Shows(s, till, BoundaryBytes)
    BY <1>8, <2>1
  <2>4. CASE hi < till
    <3>1. PICK n : n = PartialSuffixLen(s, 0, hi, BoundaryBytes) /\ n \in Nat /\ n <= hi
      <4>1. Len(BoundaryBytes) \in Nat \ {0}
        BY BoundaryLengths
      <4>2. PartialSuffixLen(s, 0, hi, BoundaryBytes) \in PartialSuffixes(s, 0, hi, BoundaryBytes)
        BY <1>5, <4>1, PartialSuffixIsLongest
      <4> QED BY <1>5, <4>1, <4>2 DEF PartialSuffixes
    <3>2. PreambleSeen = hi - n
      BY <1>2, <1>4, <1>5, <3>1 DEF PreambleSeen, BufLen
    <3> QED BY <1>5, <1>8, <2>1, <2>4, <3>1, <3>2
  <2>5. CASE hi >= till
    <3>1. hi < till + Len(BoundaryBytes)
      BY <1>10, <1>11, <2>1 DEF BoundaryLen
    <3>2. 0 \in 0..till /\ hi \in 0..Len(s) /\ Len(BoundaryBytes) >= 1 /\ BoundaryBytes \in Seq(Bytes)
      BY <1>5, BoundaryLengths
    <3>3. /\ PartialSuffixLen(s, 0, hi, BoundaryBytes) \in Nat
          /\ hi - PartialSuffixLen(s, 0, hi, BoundaryBytes) \in 0..till
      BY <2>3, <3>1, <3>2, VisibleBefore
    <3>4. PICK n \in Nat : n = PartialSuffixLen(s, 0, hi, BoundaryBytes) /\ hi - n \in 0..till
      BY <3>3
    <3>5. PreambleSeen = hi - n
      BY <1>2, <1>4, <1>5, <3>4 DEF PreambleSeen, BufLen
    <3> QED BY <1>5, <1>8, <2>1, <3>4, <3>5
  <2> QED BY <1>5, <2>1, <2>4, <2>5
<1> QED BY <1>2, <1>8, <1>9, <1>10, <1>11

LEMMA FirstBoundaryImplements ==
  ASSUME Ready, form' = form, FindFirstBoundary
  PROVE  Implements
<1>1. ParserStep /\ stage = "FindingFirstBoundary" /\ UNCHANGED <<rigid, next_field_idx, out>>
  BY DEF FindFirstBoundary, At, ParserStep, NextFieldStep, given
<1>2. UNCHANGED <<body, constraints>>
  BY <1>1 DEF rigid
<1>3. /\ lo = 0 /\ Len(out) = 0
      /\ BoundaryAt(form, 1) = PreambleLen(form) /\ PreambleLen(form) \in Nat
      /\ PadAt(form, 1) \in Nat /\ BoundaryLen \in Nat /\ BoundaryLen >= 2
      /\ PadAt(form, 1) = BoundaryAt(form, 1) + BoundaryLen
      /\ \/ PadAt(form, 1) <= hi /\ FindFirst = PreambleLen(form)
         \/ /\ PadAt(form, 1) > hi /\ FindFirst = NotFound
            /\ PreambleSeen \in Nat /\ PreambleSeen <= hi /\ PreambleSeen <= PreambleLen(form)
  BY OpeningSeen
<1>4. /\ PartsFollow /\ PlaceFollows /\ hi \in Nat /\ hi <= U64Max /\ U64Max \in Nat
      /\ (eof => hi = Len(body)) /\ transport_padding_counter = 0
  <2>1. PlaceFollows /\ hi - lo <= U64Max /\ hi \in Nat /\ U64Max \in Nat /\ PartsFollow
        /\ (eof => hi = Len(body))
    BY <1>1, ParserFacts
  <2>2. transport_padding_counter = 0
    BY <1>1, <2>1 DEF PlaceFollows
  <2> QED BY <1>3, <2>1, <2>2
<1>5. constraints.preamble \in Nat /\ constraints.preamble <= U64Max
  BY ParserLimits
<1>6. Len(out) + 1 = 1
  BY <1>3
<1>7. ASSUME NEW n \in Nat, n <= hi, n > constraints.preamble, n <= PreambleLen(form),
             NEW error, Fail(error)
      PROVE  Implements
  <2>1. Exceeds(PreambleLen(form), constraints.preamble)
    BY <1>3, <1>4, <1>5, <1>7, Over
  <2>2. ~Accepted(form, constraints, Len(out) + 1)
    BY <2>1 DEF Accepted, PreambleFits
  <2> QED BY <1>1, <1>7, <2>2, ParserFails
<1>8. CASE FindFirst # NotFound /\ FindFirst - lo > constraints.preamble
           /\ Fail("PreambleSizeExceeded")
  <2>1. PreambleLen(form) <= hi /\ PreambleLen(form) > constraints.preamble
    <3>1. FindFirst = PreambleLen(form) /\ PadAt(form, 1) <= hi
      BY <1>3, <1>8
    <3>2. PreambleLen(form) - 0 > constraints.preamble
      BY <1>3, <1>8, <3>1, Zenon
    <3>3. PreambleLen(form) <= PadAt(form, 1)
      BY <1>3
    <3> QED BY <1>3, <1>4, <3>1, <3>2, <3>3
  <2> QED BY <1>3, <1>7, <1>8, <2>1
<1>9. CASE /\ FindFirst # NotFound /\ FindFirst - lo <= constraints.preamble
           /\ Advance(FindFirst) /\ stage' = "ReadingBoundary" /\ Proceed
           /\ UNCHANGED transport_padding_counter
  <2>1. PreambleLen(form) <= constraints.preamble /\ FindFirst = PreambleLen(form)
    BY <1>3, <1>9
  <2>2. PreambleFits(form, constraints)
    BY <1>3, <1>5, <2>1 DEF PreambleFits, Exceeds
  <2>3. lo' = BoundaryAt(form, 1) /\ errors' = errors /\ transport_padding_counter' = 0
    BY <1>3, <1>4, <1>9, <2>1 DEF Advance, Proceed, caller
  <2>4. Len(out') = 0 /\ Len(out') + 1 = 1
    BY <1>1, <1>3
  <2>5. PartsFollow'
    <3>1. PreambleFits(form, constraints)'
      BY <1>2, <2>2
    <3> QED BY <2>4, <3>1 DEF PartsFollow
  <2>6. PlaceFollows'
    <3>1. BoundaryAt(form, 1)' = BoundaryAt(form, 1)
      OBVIOUS
    <3> QED BY <1>9, <2>3, <2>4, <3>1 DEF PlaceFollows
  <2> QED BY <1>1, <1>9, <2>3, <2>5, <2>6, ParserMoves
<1>10. CASE /\ FindFirst = NotFound
            /\ FailOrSuspend(PreambleSeen > constraints.preamble, "PreambleSizeExceeded")
            /\ UNCHANGED <<lo, transport_padding_counter, stage>>
  <2>1. /\ PreambleSeen \in Nat /\ PreambleSeen <= hi /\ PreambleSeen <= PreambleLen(form)
        /\ PadAt(form, 1) > hi
    BY <1>3, <1>10 DEF NotFound
  <2>2. \/ (PreambleSeen > constraints.preamble \/ eof) /\ \E e : Fail(e)
        \/ ~(PreambleSeen > constraints.preamble) /\ ~eof /\ Suspend
    BY <1>10 DEF FailOrSuspend
  <2>3. CASE PreambleSeen > constraints.preamble /\ \E e : Fail(e)
    BY <1>7, <2>1, <2>3
  <2>4. CASE eof /\ \E e : Fail(e)
    <3>1. PadAt(form, 1) > Len(body)
      BY <1>4, <2>1, <2>4
    <3>2. ~LineThere(form, 1)
      <4>1. 1 \in 1..(PartCount(form) + 1) /\ Unambiguous(form) /\ body = Encode(form)
            /\ Len(body) \in Nat
        BY ReadyFacts, BoundariesInOrder, <1>1, ParserFacts
      <4>2. LineThere(form, 1) => PadAt(form, 1) + 2 <= Len(body)
        BY <4>1, LineNeeds
      <4> QED BY <1>3, <3>1, <4>1, <4>2
    <3>3. ~Accepted(form, constraints, Len(out) + 1)
      BY <1>6, <3>2, LineRefuted DEF LineAccepted
    <3> QED BY <1>1, <2>4, <3>3, ParserFails
  <2>5. CASE Suspend
    <3>1. errors' = errors
      BY <2>5, OutcomeKeepsErrors
    <3>2. Len(out') = 0
      BY <1>1, <1>3
    <3>3. PartsFollow'
      BY <1>1, <1>2, <1>4, <1>10, PartsFollowStill
    <3>4. PlaceFollows'
      BY <1>1, <1>3, <1>4, <1>10, <3>2 DEF PlaceFollows
    <3> QED BY <1>1, <1>10, <3>1, <3>3, <3>4, ParserMoves
  <2> QED BY <2>2, <2>3, <2>4, <2>5
<1>11. \/ /\ FindFirst # NotFound /\ FindFirst - lo > constraints.preamble
          /\ Fail("PreambleSizeExceeded")
       \/ /\ FindFirst # NotFound /\ FindFirst - lo <= constraints.preamble
          /\ Advance(FindFirst) /\ stage' = "ReadingBoundary" /\ Proceed
          /\ UNCHANGED transport_padding_counter
       \/ /\ FindFirst = NotFound
          /\ FailOrSuspend(PreambleSeen > constraints.preamble, "PreambleSizeExceeded")
          /\ UNCHANGED <<lo, transport_padding_counter, stage>>
  BY Zenon DEF FindFirstBoundary
<1> QED BY <1>8, <1>9, <1>10, <1>11, Zenon

LEMMA BoundaryImplements ==
  ASSUME Ready, form' = form, ReadBoundary
  PROVE  Implements
<1>1. /\ ParserStep /\ stage = "ReadingBoundary" /\ UNCHANGED <<rigid, next_field_idx, out>>
  BY DEF ReadBoundary, At, ParserStep, NextFieldStep, given
<1>2. UNCHANGED <<body, constraints>>
  BY <1>1 DEF rigid
<1>3. /\ PartsFollow /\ PlaceFollows /\ hi \in Nat /\ lo \in Nat /\ Framing
  BY <1>1, ParserFacts, ReadyFacts
<1>4. BufLen >= Len(BoundaryBytes) /\ Matches(body, lo, BoundaryBytes)
  BY <1>1, <1>3 DEF Framing, BoundaryLine
<1>5. lo = BoundaryAt(form, Len(out) + 1) /\ transport_padding_counter = 0
  BY <1>1, <1>3 DEF PlaceFollows
<1>6. ~(BufLen < Len(BoundaryBytes))
  BY <1>1, <1>4, ParserFacts, BoundaryLengths
<1>7. /\ lo' = lo + Len(BoundaryBytes) /\ stage' = "DeterminingBoundaryType"
      /\ errors' = errors /\ transport_padding_counter' = transport_padding_counter
  BY <1>4, <1>6 DEF ReadBoundary, Advance, Proceed, caller
<1>8. lo' = PadAt(form, Len(out) + 1)
  BY <1>5, <1>7, Zenon DEF PadAt, BoundaryLen
<1>9. PartsFollow'
  BY <1>1, <1>2, <1>3, <1>7, PartsFollowStill
<1>10. PlaceFollows'
  <2>1. lo' = PadAt(form', Len(out') + 1)
    BY <1>1, <1>8
  <2> QED BY <1>5, <1>7, <2>1 DEF PlaceFollows
<1> QED BY <1>1, <1>7, <1>9, <1>10, ParserMoves

LEMMA PaddingStarts ==
  ASSUME NEW k, LineFrom(form, k) = lo', lo' \in Nat, transport_padding_counter' = 0,
         U64Max \in Nat, constraints.boundary_padding \in Nat,
         UNCHANGED <<form, constraints>>
  PROVE  PaddingFollows(k)'
<1>1. PICK from \in Nat : from = lo' /\ LineFrom(form, k) = from
  OBVIOUS
<1>2. from - from = 0 /\ SatAdd(0, 0) = 0 /\ (from + 1)..from = {}
  BY DEF SatAdd
<1>3. ~Exceeds(0, constraints.boundary_padding)
  BY DEF Exceeds
<1>4. LineFrom(form', k) = from
  BY <1>1
<1>5. /\ from <= lo' /\ \A i \in (from + 1)..lo' : body'[i] \in Padding
      /\ ~Exceeds(lo' - from, constraints'.boundary_padding)
      /\ transport_padding_counter' = SatAdd(0, lo' - from)
  <2>1. from <= from /\ \A i \in (from + 1)..from : body'[i] \in Padding
    BY <1>2
  <2>2. lo' - from = 0
    BY <1>1, <1>2, Zenon
  <2>3. ~Exceeds(lo' - from, constraints'.boundary_padding)
    BY <1>3, <2>2
  <2>4. transport_padding_counter' = SatAdd(0, lo' - from)
    BY <1>2, <2>2, Zenon
  <2> QED BY <1>1, <2>1, <2>3, <2>4, Zenon
<1> QED BY <1>4, <1>5 DEF PaddingFollows

LEMMA BoundaryTypeImplements ==
  ASSUME Ready, form' = form, DetermineBoundaryType
  PROVE  Implements
<1>1. /\ ParserStep /\ stage = "DeterminingBoundaryType" /\ UNCHANGED <<rigid, next_field_idx, out>>
  BY DEF DetermineBoundaryType, At, ParserStep, NextFieldStep, given
<1>2. UNCHANGED <<body, constraints>>
  BY <1>1 DEF rigid
<1>3. /\ PartsFollow /\ PlaceFollows /\ hi \in Nat /\ lo \in Nat /\ Unambiguous(form)
      /\ body = Encode(form) /\ body \in Seq(Bytes) /\ lo <= hi /\ hi <= Len(body)
      /\ Len(body) \in Nat /\ BufLen = hi - lo /\ errors = 0 /\ (eof => hi = Len(body))
      /\ U64Max \in Nat /\ constraints.boundary_padding \in Nat
  BY <1>1, ParserFacts, ReadyFacts, ParserLimits
<1>4. PICK k : k = Len(out) + 1 /\ k \in 1..(PartCount(form) + 1)
  BY <1>3, NextPart
<1>5. lo = PadAt(form, k) /\ transport_padding_counter = 0
  BY <1>1, <1>3, <1>4 DEF PlaceFollows
<1>6. /\ LineFrom(form, k) = (IF Closing(form, k) THEN lo + 2 ELSE lo)
      /\ Closing(form, k) \in BOOLEAN
      /\ Closing(form, k) => Shows(body, lo, BOUNDARY_EXT)
      /\ ~Closing(form, k) /\ lo + 2 <= Len(body) => ~Matches(body, lo, BOUNDARY_EXT)
  BY <1>3, <1>4, <1>5, BoundaryLines
<1>7. Len(BOUNDARY_EXT) = 2 /\ BOUNDARY_EXT \in Seq(Bytes)
  BY BytesOfMarks
<1>8. k = Len(out') + 1
  BY <1>1, <1>4
<1>9. CASE BufLen < Len(BOUNDARY_EXT) /\ FailOrSuspend(FALSE, "") /\ UNCHANGED <<scan, stage>>
  <2>1. (eof /\ \E e : Fail(e)) \/ (~eof /\ Suspend)
    BY <1>9 DEF FailOrSuspend
  <2>2. CASE eof /\ \E e : Fail(e)
    <3>1. lo + 2 > Len(body)
      <4>1. hi - lo < 2 /\ hi = Len(body)
        BY <1>3, <1>7, <1>9, <2>2, Zenon
      <4>2. lo \in Nat /\ hi \in Nat
        BY <1>3
      <4>3. lo + 2 > hi
        BY <4>1, <4>2
      <4> QED BY <4>1, <4>3, Zenon
    <3>2. ~LineThere(form, k)
      <4>1. LineThere(form, k) => PadAt(form, k) + 2 <= Len(Encode(form))
        BY <1>3, <1>4, LineNeeds
      <4>2. LineThere(form, k) => lo + 2 <= Len(body)
        BY <1>3, <1>5, <4>1, Zenon
      <4> QED BY <1>3, <3>1, <4>2
    <3>3. ~Accepted(form, constraints, Len(out) + 1)
      BY <1>4, <3>2, LineRefuted DEF LineAccepted
    <3> QED BY <1>1, <2>2, <3>3, ParserFails
  <2>3. CASE Suspend
    <3>1. errors' = errors /\ UNCHANGED <<lo, transport_padding_counter, stage>>
      BY <1>9, <2>3, OutcomeKeepsErrors DEF scan
    <3>2. PartsFollow'
      BY <1>1, <1>2, <1>3, <3>1, PartsFollowStill
    <3>3. PlaceFollows'
      <4>1. lo' = PadAt(form', Len(out') + 1)
        BY <1>5, <1>8, <3>1, Zenon
      <4> QED BY <1>1, <1>5, <3>1, <4>1 DEF PlaceFollows
    <3> QED BY <1>1, <3>1, <3>2, <3>3, ParserMoves
  <2> QED BY <2>1, <2>2, <2>3
<1>10. CASE /\ BufLen >= Len(BOUNDARY_EXT) /\ Matches(body, lo, BOUNDARY_EXT)
            /\ Advance(lo + Len(BOUNDARY_EXT)) /\ stage' = "ReadingClosingTransportPadding"
            /\ Proceed /\ UNCHANGED transport_padding_counter
  <2>1. lo + 2 <= Len(body)
    BY <1>3, <1>7, <1>10
  <2>2. Closing(form, k) /\ LineFrom(form, k) = lo + 2
    BY <1>6, <1>10, <2>1
  <2>3. lo' = lo + 2 /\ errors' = errors /\ transport_padding_counter' = 0
    BY <1>5, <1>7, <1>10 DEF Advance, Proceed, caller
  <2>4. PaddingFollows(k)'
    <3>1. LineFrom(form, k) = lo' /\ lo' \in Nat
      BY <1>3, <2>2, <2>3
    <3> QED BY <1>2, <1>3, <2>3, <3>1, PaddingStarts
  <2>5. PartsFollow'
    BY <1>1, <1>2, <1>3, <1>10, PartsFollowStill
  <2>6. PlaceFollows'
    <3>1. Closing(form', Len(out') + 1) /\ PaddingFollows(Len(out) + 1)'
      BY <1>4, <1>8, <2>2, <2>4, Zenon
    <3> QED BY <1>1, <1>10, <3>1 DEF PlaceFollows
  <2> QED BY <1>1, <1>10, <2>3, <2>5, <2>6, ParserMoves
<1>11. CASE /\ BufLen >= Len(BOUNDARY_EXT) /\ ~Matches(body, lo, BOUNDARY_EXT)
            /\ stage' = "ReadingTransportPadding" /\ Proceed /\ UNCHANGED scan
  <2>1. lo + 2 <= Len(body)
    BY <1>3, <1>7, <1>11
  <2>2. ~Closing(form, k)
    <3>1. Shows(body, lo, BOUNDARY_EXT) => Matches(body, lo, BOUNDARY_EXT)
      BY <1>3, <1>7, <2>1, ShownMatches
    <3> QED BY <1>6, <1>11, <3>1
  <2>3. LineFrom(form, k) = lo
    BY <1>6, <2>2
  <2>4. lo' = lo /\ errors' = errors /\ transport_padding_counter' = 0
    BY <1>5, <1>11 DEF scan, Proceed, caller
  <2>5. PaddingFollows(k)'
    <3>1. LineFrom(form, k) = lo' /\ lo' \in Nat
      BY <1>3, <2>3, <2>4
    <3> QED BY <1>2, <1>3, <2>4, <3>1, PaddingStarts
  <2>6. PartsFollow'
    BY <1>1, <1>2, <1>3, <1>11, PartsFollowStill
  <2>7. PlaceFollows'
    <3>1. ~Closing(form', Len(out') + 1) /\ PaddingFollows(Len(out) + 1)'
      BY <1>4, <1>8, <2>2, <2>5, Zenon
    <3> QED BY <1>1, <1>11, <3>1 DEF PlaceFollows
  <2> QED BY <1>1, <1>11, <2>4, <2>6, <2>7, ParserMoves
<1>12. \/ BufLen < Len(BOUNDARY_EXT) /\ FailOrSuspend(FALSE, "") /\ UNCHANGED <<scan, stage>>
       \/ /\ BufLen >= Len(BOUNDARY_EXT) /\ Matches(body, lo, BOUNDARY_EXT)
          /\ Advance(lo + Len(BOUNDARY_EXT)) /\ stage' = "ReadingClosingTransportPadding"
          /\ Proceed /\ UNCHANGED transport_padding_counter
       \/ /\ BufLen >= Len(BOUNDARY_EXT) /\ ~Matches(body, lo, BOUNDARY_EXT)
          /\ stage' = "ReadingTransportPadding" /\ Proceed /\ UNCHANGED scan
  BY Zenon DEF DetermineBoundaryType
<1> QED BY <1>9, <1>10, <1>11, <1>12, Zenon

LEMMA SatAddTwice ==
  ASSUME NEW a \in Nat, NEW b \in Nat, NEW c \in Nat, a <= b, b <= c, U64Max \in Nat
  PROVE  SatAdd(SatAdd(0, b - a), c - b) = SatAdd(0, c - a)
  BY DEF SatAdd

LEMMA SatCount ==
  ASSUME NEW n \in Nat, NEW limit \in Nat, limit <= U64Max, U64Max \in Nat
  PROVE  /\ SatAdd(0, n) > limit => Exceeds(n, limit)
         /\ SatAdd(0, n) <= limit => ~Exceeds(n, limit)
  BY DEF SatAdd, Exceeds

LEMMA ExceedsMore ==
  ASSUME NEW n \in Nat, NEW m \in Nat, n <= m, NEW limit \in Nat, Exceeds(n, limit)
  PROVE  Exceeds(m, limit)
  BY DEF Exceeds

\* What the bytes behind the padding, of which there is a CRLF, less or the end
\* of the input, say about the k-th boundary line
PaddingSeen(k, from, end) ==
  /\ end - from <= LineLen(form, k)
  /\ hi - end >= 2 /\ Matches(body, end, CRLF) =>
       /\ end = LineTo(form, k) /\ LineThere(form, k) /\ end - from = LineLen(form, k)
  /\ hi - end >= 2 /\ ~Matches(body, end, CRLF) => ~LineThere(form, k)
  /\ hi - end = 1 /\ hi = Len(body) => ~LineThere(form, k)
  /\ hi = end /\ hi = Len(body) /\ ~Closing(form, k) => ~LineThere(form, k)
  /\ hi = end /\ hi = Len(body) /\ Closing(form, k) =>
       LineThere(form, k) /\ end - from = LineLen(form, k)

\* Counting the padding found now on top of what was counted before gives all of it.
PaddingCounted(from, end) ==
  /\ ~Exceeds(lo - from, constraints.boundary_padding)
  /\ \/ /\ transport_padding_counter = SatAdd(0, lo - from)
        /\ SatAdd(transport_padding_counter, end - lo) = SatAdd(0, end - from)
     \/ lo < hi /\ end = lo

\* The padding of the k-th boundary line begins at from and was found up to end.
PaddingReached(k, from, end) ==
  /\ k = Len(out) + 1 /\ k \in 1..(PartCount(form) + 1)
  /\ (stage = "ReadingClosingTransportPadding") <=> Closing(form, k)
  /\ from = LineFrom(form, k) /\ from \in Nat /\ from <= lo /\ end \in lo..hi /\ end \in Nat
  /\ \A i \in (from + 1)..end : body[i] \in Padding
  /\ end = hi \/ body[end + 1] \notin Padding

LEMMA PaddingRead ==
  ASSUME Ready, ReadTransportPadding, NEW end, end = PaddingEnd(body, lo, hi)
  PROVE  \E k, from : PaddingReached(k, from, end) /\ PaddingCounted(from, end)
                      /\ PaddingSeen(k, from, end)
<1>1. ParserStep /\ stage \in {"ReadingTransportPadding", "ReadingClosingTransportPadding"}
  BY DEF ReadTransportPadding, At, ParserStep, NextFieldStep
<1>2. /\ PlaceFollows /\ hi \in Nat /\ lo \in Nat /\ Unambiguous(form)
      /\ body = Encode(form) /\ body \in Seq(Bytes) /\ lo <= hi /\ hi <= Len(body)
      /\ Len(body) \in Nat /\ errors = 0
      /\ U64Max \in Nat /\ constraints.boundary_padding \in Nat
  BY <1>1, ParserFacts, ReadyFacts, ParserLimits
<1>3. PICK k : k = Len(out) + 1 /\ k \in 1..(PartCount(form) + 1)
  BY <1>2, NextPart
<1>4. /\ PaddingFollows(k)
      /\ (stage = "ReadingClosingTransportPadding") <=> Closing(form, k)
  BY <1>1, <1>2, <1>3 DEF PlaceFollows
<1>5. /\ LineFrom(form, k) \in Nat /\ LineTo(form, k) \in Nat
      /\ LineFrom(form, k) <= LineTo(form, k) /\ Closing(form, k) \in BOOLEAN
      /\ LineKnown(Encode(form), LineFrom(form, k), LineTo(form, k), Closing(form, k))
  BY <1>2, <1>3, BoundaryLines
<1>6. PICK from, till \in Nat : from = LineFrom(form, k) /\ till = LineTo(form, k) /\ from <= till
  BY <1>5
<1>7. PICK s \in Seq(Bytes) : s = body /\ s = Encode(form)
  BY <1>2
<1>8. /\ from <= lo /\ \A i \in (from + 1)..lo : s[i] \in Padding
      /\ ~Exceeds(lo - from, constraints.boundary_padding)
      /\ \/ transport_padding_counter = SatAdd(0, lo - from)
         \/ lo < hi /\ s[lo + 1] \notin Padding
  BY <1>4, <1>6, <1>7, Zenon DEF PaddingFollows
<1>9. /\ end \in lo..hi /\ (end = hi \/ s[end + 1] \notin Padding)
      /\ \A i \in (lo + 1)..end : s[i] \in Padding
  BY <1>2, <1>7, PaddingEndProperties
<1>10. end \in Nat /\ end <= hi /\ lo <= end
  BY <1>2, <1>9
<1>11. \A i \in (from + 1)..end : s[i] \in Padding
  BY <1>2, <1>8, <1>9, <1>10
<1>12. PICK closing \in BOOLEAN : closing = Closing(form, k)
  BY <1>5
<1>13. LineSeen(s, from, till, closing, hi, end)
  <2>1. hi \in from..Len(s) /\ end \in from..hi
    BY <1>2, <1>7, <1>8, <1>10
  <2>2. LineKnown(s, from, till, closing)
    BY <1>5, <1>6, <1>7, <1>12, Zenon
  <2> QED BY <1>6, <1>9, <1>11, <2>1, <2>2, LineVerdict
<1>14. /\ LineThere(form, k) <=> LineComplete(s, from, till, closing)
       /\ LineLen(form, k) = LineWidth(s, from, till, closing)
  BY <1>6, <1>7, <1>12, Zenon DEF LineThere, LineLen
<1>15. PaddingSeen(k, from, end)
  <2>1. /\ end - from <= LineWidth(s, from, till, closing)
        /\ hi - end >= 2 /\ Matches(s, end, CRLF) =>
             /\ end = till /\ LineComplete(s, from, till, closing)
             /\ end - from = LineWidth(s, from, till, closing)
        /\ hi - end >= 2 /\ ~Matches(s, end, CRLF) => ~LineComplete(s, from, till, closing)
        /\ hi - end = 1 /\ hi = Len(s) => ~LineComplete(s, from, till, closing)
        /\ hi = end /\ hi = Len(s) /\ ~closing => ~LineComplete(s, from, till, closing)
        /\ hi = end /\ hi = Len(s) /\ closing =>
             /\ LineComplete(s, from, till, closing)
             /\ end - from = LineWidth(s, from, till, closing)
    BY <1>13, Zenon DEF LineSeen
  <2> QED BY <1>6, <1>7, <1>12, <1>14, <2>1, Zenon DEF PaddingSeen
<1>16. PaddingCounted(from, end)
  <2>1. ASSUME transport_padding_counter = SatAdd(0, lo - from)
        PROVE  SatAdd(transport_padding_counter, end - lo) = SatAdd(0, end - from)
    <3>1. SatAdd(SatAdd(0, lo - from), end - lo) = SatAdd(0, end - from)
      <4>1. /\ from \in Nat /\ lo \in Nat /\ end \in Nat /\ from <= lo /\ lo <= end /\ U64Max \in Nat
        BY <1>2, <1>6, <1>8, <1>10, Zenon
      <4> QED BY <4>1, SatAddTwice, Zenon
    <3> QED BY <2>1, <3>1, Zenon
  <2>2. ASSUME lo < hi, s[lo + 1] \notin Padding
        PROVE  end = lo
    <3>1. ~(lo + 1 \in (lo + 1)..end)
      BY <1>9, <2>2, Zenon
    <3> QED BY <1>2, <1>10, <3>1
  <2> QED BY <1>8, <2>1, <2>2, Zenon DEF PaddingCounted
<1>17. PaddingReached(k, from, end)
  BY <1>3, <1>4, <1>6, <1>7, <1>8, <1>9, <1>10, <1>11, Zenon DEF PaddingReached
<1> QED BY <1>15, <1>16, <1>17

\* The four outcomes of the stages of padding: the end, more input, the headers, or
\* (in PaddingImplements) an error
LEMMA PaddingEnds ==
  ASSUME Ready, form' = form, ReadTransportPadding, NEW k, k = Len(out) + 1,
         k \in 1..(PartCount(form) + 1), Closing(form, k), LineAccepted(form, constraints, k),
         stage' = "Eof", Return("end")
  PROVE  Implements
<1>1. /\ ParserStep /\ stage # "Eof" /\ stage \notin {"FindingFirstBoundary", "ReadingFieldData"}
      /\ UNCHANGED <<next_field_idx, out, field>> /\ field = NoField
  BY DEF ReadTransportPadding, At, ParserStep, NextFieldStep, given
<1>2. /\ errors = 0 /\ InputFollows /\ FieldsFollow /\ PartsFollow
      /\ UNCHANGED <<body, constraints, hi, eof, sent, stream_size_counter>>
  BY <1>1, ParserFacts
<1>3. Unambiguous(form) /\ out \in Seq(GivenType) /\ form \in Forms /\ body = Encode(form)
  BY ReadyFacts
<1>4. Len(out) = PartCount(form) /\ Len(out) \in Nat
  BY <1>2, NextPart DEF Closing
<1>5. Accepted(form, constraints, k)
  <2>1. \A j \in 1..Len(out) : PartAccepted(form, constraints, j)
    BY <1>1, <1>2 DEF PartsFollow
  <2>2. PreambleFits(form, constraints)
    BY <1>1, <1>2 DEF PartsFollow
  <2>3. k - 1 = Len(out)
    BY <1>4
  <2> QED BY <2>1, <2>2, <2>3 DEF Accepted
<1>6. errors' = errors /\ pc' = "idle"
  BY DEF Return
<1>7. Abstract!ReportEnd
  BY <1>1, <1>2, <1>3, <1>4, <1>5, <1>6, AbstractEnds
<1>8. InputFollows' /\ FieldsFollow' /\ PartsFollow'
  BY <1>1, <1>2, FieldsFollowStill, PartsFollowStill DEF InputFollows
<1>9. PlaceFollows'
  <2>1. Len(out') + 1 = k
    BY <1>1
  <2> QED BY <1>1, <1>2, <1>6, <2>1 DEF PlaceFollows
<1>10. Follows'
  BY <1>2, <1>3, <1>8, <1>9 DEF Follows
<1> QED BY <1>7, <1>10 DEF Implements, Abstract!FieldSequenceNext

LEMMA PaddingWaits ==
  ASSUME Ready, form' = form, ReadTransportPadding, NEW k, NEW from, NEW end,
         PaddingReached(k, from, end), ~Exceeds(end - from, constraints.boundary_padding),
         lo' = end, UNCHANGED stage, Suspend,
         \/ transport_padding_counter' = SatAdd(0, end - from)
         \/ end < hi
  PROVE  Implements
<1>1. /\ ParserStep /\ stage # "Eof"
      /\ stage \in {"ReadingTransportPadding", "ReadingClosingTransportPadding"}
      /\ UNCHANGED <<next_field_idx, out>>
  BY DEF ReadTransportPadding, At, ParserStep, NextFieldStep, given
<1>2. /\ PartsFollow /\ hi \in Nat /\ lo \in Nat
      /\ UNCHANGED <<body, constraints, hi, eof, sent, stream_size_counter>>
  BY <1>1, ParserFacts
<1>3. /\ k = Len(out) + 1 /\ k \in 1..(PartCount(form) + 1)
      /\ (stage = "ReadingClosingTransportPadding") <=> Closing(form, k)
      /\ from = LineFrom(form, k) /\ from \in Nat /\ from <= lo /\ end \in lo..hi /\ end \in Nat
      /\ \A i \in (from + 1)..end : body[i] \in Padding
      /\ end = hi \/ body[end + 1] \notin Padding
  BY Zenon DEF PaddingReached
<1>4. PaddingFollows(k)'
  <2>1. from <= end
    BY <1>2, <1>3
  <2>2. end < hi => end < hi /\ body[end + 1] \notin Padding
    BY <1>2, <1>3
  <2>3. LineFrom(form', k) = from
    BY <1>3
  <2> QED BY <1>2, <1>3, <2>1, <2>2, <2>3, Zenon DEF PaddingFollows
<1>5. PartsFollow'
  BY <1>1, <1>2, PartsFollowStill
<1>6. errors' = errors
  BY OutcomeKeepsErrors
<1>7. PlaceFollows'
  <2>1. Len(out') + 1 = k
    BY <1>1, <1>3
  <2>2. Closing(form', k) <=> Closing(form, k)
    OBVIOUS
  <2>3. PaddingFollows(Len(out) + 1)'
    BY <1>4, <2>1, Zenon
  <2> QED BY <1>1, <1>3, <2>1, <2>2, <2>3 DEF PlaceFollows
<1> QED BY <1>1, <1>5, <1>6, <1>7, ParserMoves

LEMMA PaddingPassed ==
  ASSUME Ready, form' = form, ReadTransportPadding, NEW k, k = Len(out) + 1,
         k \in 1..(PartCount(form) + 1), ~Closing(form, k), LineAccepted(form, constraints, k),
         stage' = "ReadingFieldHeaders", Proceed, transport_padding_counter' = 0,
         lo' = LineTo(form, k) + 2
  PROVE  Implements
<1>1. /\ ParserStep /\ stage # "Eof" /\ stage \notin {"FindingFirstBoundary", "ReadingFieldData"}
      /\ UNCHANGED <<next_field_idx, out>>
  BY DEF ReadTransportPadding, At, ParserStep, NextFieldStep, given
<1>2. /\ PartsFollow /\ UNCHANGED <<body, constraints>> /\ errors = 0
  BY <1>1, ParserFacts
<1>3. k \in 1..PartCount(form) /\ k <= PartCount(form)
  BY <1>2, NextPart DEF Closing
<1>4. lo' = HeadersAt(form, k)
  <2>1. Unambiguous(form)
    BY ReadyFacts
  <2>2. LineTo(form, k) = PadAt(form, k) + PadLen(form.parts[k])
    BY <1>3, <2>1, FormLine
  <2> QED BY <2>2, Zenon DEF HeadersAt
<1>5. errors' = errors
  BY OutcomeKeepsErrors
<1>6. PartsFollow'
  BY <1>1, <1>2, PartsFollowStill
<1>7. PlaceFollows'
  <2>1. /\ Len(out') + 1 = k /\ lo' = HeadersAt(form', k) /\ LineAccepted(form', constraints', k)
        /\ k <= PartCount(form')
    BY <1>1, <1>2, <1>3, <1>4
  <2> QED BY <2>1 DEF PlaceFollows
<1> QED BY <1>1, <1>5, <1>6, <1>7, ParserMoves

LEMMA PaddingImplements ==
  ASSUME Ready, form' = form, ReadTransportPadding
  PROVE  Implements
<1>1. /\ ParserStep /\ stage # "Eof" /\ out' = out
  BY DEF ReadTransportPadding, At, ParserStep, NextFieldStep, given
<1>2. PICK end : end = PaddingEnd(body, lo, hi)
  OBVIOUS
<1>3. PICK k, from : /\ PaddingReached(k, from, end) /\ PaddingCounted(from, end)
                     /\ PaddingSeen(k, from, end)
  BY <1>2, PaddingRead
<1>4. /\ lo \in Nat /\ hi \in Nat /\ hi <= Len(body) /\ Len(body) \in Nat
      /\ (eof => hi = Len(body)) /\ U64Max \in Nat /\ eof \in BOOLEAN
  BY <1>1, ParserFacts
<1>5. PICK limit \in Nat : limit = constraints.boundary_padding /\ limit <= U64Max
  BY ParserLimits
<1>6. /\ k = Len(out) + 1 /\ k \in 1..(PartCount(form) + 1)
      /\ (stage = "ReadingClosingTransportPadding") <=> Closing(form, k)
      /\ from \in Nat /\ from <= lo /\ end \in Nat /\ lo <= end /\ end <= hi
      /\ Unambiguous(form)
  <2>1. /\ k = Len(out) + 1 /\ k \in 1..(PartCount(form) + 1)
        /\ (stage = "ReadingClosingTransportPadding") <=> Closing(form, k)
        /\ from \in Nat /\ from <= lo /\ end \in Nat /\ end \in lo..hi
    BY <1>3, Zenon DEF PaddingReached
  <2>2. lo <= end /\ end <= hi
    BY <1>4, <2>1
  <2> QED BY <2>1, <2>2, ReadyFacts
<1>7. PICK read \in Nat : read = end - from
  BY <1>4, <1>6
<1>8. PICK counted : counted = SatAdd(transport_padding_counter, end - lo)
  OBVIOUS
<1>9. /\ ~Exceeds(lo - from, limit)
      /\ \/ transport_padding_counter = SatAdd(0, lo - from) /\ counted = SatAdd(0, read)
         \/ lo < hi /\ end = lo
  BY <1>3, <1>5, <1>7, <1>8, Zenon DEF PaddingCounted
<1>10. LineLen(form, k) \in Nat /\ read <= LineLen(form, k)
  <2>1. read <= LineLen(form, k)
    BY <1>3, <1>7, Zenon DEF PaddingSeen
  <2>2. PICK f, t, n \in Nat : f = LineFrom(form, k) /\ t = LineTo(form, k) /\ n = Len(Encode(form))
    BY <1>6, BoundaryLines, UnambiguousParts, EncodedPrefix
  <2>3. LineLen(form, k) = LineWidth(Encode(form), f, t, Closing(form, k))
    BY <2>2, Zenon DEF LineLen
  <2>4. LineWidth(Encode(form), f, t, Closing(form, k)) \in Int
    BY <2>2 DEF LineWidth
  <2>5. LineLen(form, k) \in Int
    BY <2>3, <2>4, Zenon
  <2> QED BY <2>1, <2>5
<1>11. ASSUME ~LineAccepted(form, constraints, k), NEW error, Fail(error)
       PROVE  Implements
  <2>1. ~Accepted(form, constraints, Len(out) + 1)
    BY <1>6, <1>11, LineRefuted
  <2> QED BY <1>1, <1>11, <2>1, ParserFails
<1>12. ASSUME end = lo \/ counted <= limit
       PROVE  ~Exceeds(read, limit)
  <2>1. CASE end = lo
    BY <1>7, <1>9, <2>1, Zenon
  <2>2. CASE end # lo
    <3>1. SatAdd(0, read) <= limit
      BY <1>9, <1>12, <2>2, Zenon
    <3> QED BY <1>4, <1>5, <3>1, SatCount
  <2> QED BY <2>1, <2>2
<1>13. ASSUME LineThere(form, k), read = LineLen(form, k), ~Exceeds(read, limit)
       PROVE  LineAccepted(form, constraints, k)
  BY <1>5, <1>13, Zenon DEF LineAccepted
<1>14. CASE /\ end > lo /\ counted > limit
            /\ Fail("BoundaryPaddingSizeExceeded")
  <2>1. end # lo
    BY <1>4, <1>6, <1>14
  <2>2. counted = SatAdd(0, read)
    BY <1>9, <2>1, Zenon
  <2>3. Exceeds(read, limit)
    <3>1. SatAdd(0, read) > limit
      BY <1>14, <2>2, Zenon
    <3> QED BY <1>4, <1>5, <3>1, SatCount
  <2>4. Exceeds(LineLen(form, k), constraints.boundary_padding)
    BY <1>5, <1>10, <2>3, ExceedsMore
  <2>5. ~LineAccepted(form, constraints, k)
    BY <2>4 DEF LineAccepted
  <2> QED BY <1>11, <1>14, <2>5
<1>15. CASE /\ end = lo \/ counted <= limit
            /\ end = hi
            /\ lo' = end /\ transport_padding_counter' = counted
            /\ \/ Closing(form, k) /\ eof /\ stage' = "Eof" /\ Return("end")
               \/ ~(Closing(form, k) /\ eof) /\ FailOrSuspend(FALSE, "") /\ UNCHANGED stage
  <2>1. ~Exceeds(read, limit)
    BY <1>12, <1>15
  <2>2. CASE Closing(form, k) /\ eof /\ stage' = "Eof" /\ Return("end")
    <3>1. LineThere(form, k) /\ read = LineLen(form, k)
      BY <1>3, <1>4, <1>7, <1>15, <2>2, Zenon DEF PaddingSeen
    <3>2. LineAccepted(form, constraints, k)
      BY <1>13, <2>1, <3>1
    <3> QED BY <1>6, <2>2, <3>2, PaddingEnds
  <2>3. CASE ~(Closing(form, k) /\ eof) /\ FailOrSuspend(FALSE, "") /\ UNCHANGED stage
    <3>1. (eof /\ \E e : Fail(e)) \/ (~eof /\ Suspend)
      BY <2>3 DEF FailOrSuspend
    <3>2. CASE eof /\ \E e : Fail(e)
      <4>1. ~LineThere(form, k)
        BY <1>3, <1>4, <1>15, <2>3, <3>2, Zenon DEF PaddingSeen
      <4> QED BY <1>11, <3>2, <4>1 DEF LineAccepted
    <3>3. CASE Suspend
      <4>1. counted = SatAdd(0, read)
        <5>1. ~(hi < hi)
          BY <1>4
        <5>2. end = hi
          BY <1>15, Zenon
        <5>3. ~(lo < hi /\ end = lo)
          BY <5>1, <5>2, Zenon
        <5> QED BY <1>9, <5>3, Zenon
      <4>2. transport_padding_counter' = SatAdd(0, end - from)
        BY <1>7, <1>15, <4>1, Zenon
      <4>3. ~Exceeds(end - from, constraints.boundary_padding)
        BY <1>5, <1>7, <2>1, Zenon
      <4> QED BY <1>3, <1>15, <2>3, <3>3, <4>2, <4>3, PaddingWaits
    <3> QED BY <3>1, <3>2, <3>3
  <2> QED BY <1>15, <2>2, <2>3
<1>16. CASE /\ end = lo \/ counted <= limit
            /\ end < hi /\ hi - end < Len(CRLF)
            /\ lo' = end
            /\ FailOrSuspend(FALSE, "") /\ UNCHANGED stage
  <2>1. ~Exceeds(read, limit)
    BY <1>12, <1>16
  <2>2. hi - end = 1
    <3>1. end < hi /\ hi - end < 2
      BY <1>16, BytesOfMarks, Zenon
    <3>2. end \in Nat /\ hi \in Nat
      BY <1>4, <1>6, Zenon
    <3> QED BY <3>1, <3>2
  <2>3. (eof /\ \E e : Fail(e)) \/ (~eof /\ Suspend)
    BY <1>16 DEF FailOrSuspend
  <2>4. CASE eof /\ \E e : Fail(e)
    <3>1. ~LineThere(form, k)
      BY <1>3, <1>4, <2>2, <2>4, Zenon DEF PaddingSeen
    <3> QED BY <1>11, <2>4, <3>1 DEF LineAccepted
  <2>5. CASE Suspend
    <3>1. ~Exceeds(end - from, constraints.boundary_padding)
      BY <1>5, <1>7, <2>1, Zenon
    <3> QED BY <1>3, <1>16, <2>5, <3>1, PaddingWaits
  <2> QED BY <2>3, <2>4, <2>5
<1>17. CASE /\ end = lo \/ counted <= limit
            /\ hi - end >= Len(CRLF)
            /\ lo' = end + Len(CRLF) /\ transport_padding_counter' = 0
            /\ \/ ~Matches(body, end, CRLF) /\ Fail("IncompleteStream")
               \/ /\ Matches(body, end, CRLF) /\ Closing(form, k)
                  /\ stage' = "Eof" /\ Return("end")
               \/ /\ Matches(body, end, CRLF) /\ ~Closing(form, k)
                  /\ stage' = "ReadingFieldHeaders" /\ Proceed
  <2>1. ~Exceeds(read, limit)
    BY <1>12, <1>17
  <2>2. hi - end >= 2 /\ lo' = end + 2
    BY <1>17, BytesOfMarks
  <2>3. CASE ~Matches(body, end, CRLF) /\ Fail("IncompleteStream")
    <3>1. ~LineThere(form, k)
      BY <1>3, <2>2, <2>3, Zenon DEF PaddingSeen
    <3> QED BY <1>11, <2>3, <3>1 DEF LineAccepted
  <2>4. ASSUME Matches(body, end, CRLF)
        PROVE  LineAccepted(form, constraints, k) /\ lo' = LineTo(form, k) + 2
    <3>1. LineThere(form, k) /\ read = LineLen(form, k) /\ end = LineTo(form, k)
      BY <1>3, <1>7, <2>2, <2>4, Zenon DEF PaddingSeen
    <3> QED BY <1>13, <2>1, <2>2, <3>1, Zenon
  <2>5. CASE /\ Matches(body, end, CRLF) /\ Closing(form, k)
             /\ stage' = "Eof" /\ Return("end")
    BY <1>6, <2>4, <2>5, PaddingEnds
  <2>6. CASE /\ Matches(body, end, CRLF) /\ ~Closing(form, k)
             /\ stage' = "ReadingFieldHeaders" /\ Proceed
    BY <1>6, <1>17, <2>4, <2>6, PaddingPassed
  <2> QED BY <1>17, <2>3, <2>5, <2>6
<1>18. \/ /\ end > lo /\ counted > limit
          /\ Fail("BoundaryPaddingSizeExceeded")
       \/ /\ end = lo \/ counted <= limit
          /\ end = hi
          /\ lo' = end /\ transport_padding_counter' = counted
          /\ \/ Closing(form, k) /\ eof /\ stage' = "Eof" /\ Return("end")
             \/ ~(Closing(form, k) /\ eof) /\ FailOrSuspend(FALSE, "") /\ UNCHANGED stage
       \/ /\ end = lo \/ counted <= limit
          /\ end < hi /\ hi - end < Len(CRLF)
          /\ lo' = end
          /\ FailOrSuspend(FALSE, "") /\ UNCHANGED stage
       \/ /\ end = lo \/ counted <= limit
          /\ hi - end >= Len(CRLF)
          /\ lo' = end + Len(CRLF) /\ transport_padding_counter' = 0
          /\ \/ ~Matches(body, end, CRLF) /\ Fail("IncompleteStream")
             \/ /\ Matches(body, end, CRLF) /\ Closing(form, k)
                /\ stage' = "Eof" /\ Return("end")
             \/ /\ Matches(body, end, CRLF) /\ ~Closing(form, k)
                /\ stage' = "ReadingFieldHeaders" /\ Proceed
  BY <1>2, <1>5, <1>6, <1>8 DEF ReadTransportPadding, Advance, EndsHere
<1> QED BY <1>14, <1>15, <1>16, <1>17, <1>18

\* The CRLFCRLF that ends the header block of part k is the first one behind the
\* boundary line: the search finds it as soon as the block is there.
BlockSeen(k, till, n) ==
  /\ k = Len(out) + 1 /\ k \in 1..PartCount(form)
  /\ n = BlockLen(form, k) /\ n \in Nat /\ till \in Nat
  /\ till + 4 = lo + n /\ DataAt(form, k) = lo + n
  /\ \/ lo + n <= hi /\ HeadersEnd = till
     \/ lo + n > hi /\ HeadersEnd = NotFound

LEMMA BlockFound ==
  ASSUME Ready, ReadFieldHeaders
  PROVE  \E k, till, n : BlockSeen(k, till, n)
<1>1. ParserStep /\ stage = "ReadingFieldHeaders"
  BY DEF ReadFieldHeaders, TakeUp, At, ParserStep, NextFieldStep
<1>2. /\ PlaceFollows /\ hi \in Nat /\ lo \in Nat /\ lo <= hi /\ hi <= Len(body) /\ Len(body) \in Nat
      /\ Unambiguous(form) /\ form \in FormType /\ body = Encode(form) /\ body \in Seq(Bytes)
      /\ Searched /\ IInv /\ errors = 0
  BY <1>1, ParserFacts, ReadyFacts
<1>3. PICK k : k = Len(out) + 1 /\ k \in 1..PartCount(form)
  <2>1. Len(out) + 1 <= PartCount(form) /\ Len(out) + 1 \in 1..(PartCount(form) + 1)
    BY <1>1, <1>2, NextPart DEF PlaceFollows
  <2>2. Len(out) + 1 \in 1..PartCount(form)
    BY <1>2, <2>1, NextPart
  <2> QED BY <2>2
<1>4. lo = HeadersAt(form, k)
  BY <1>1, <1>2, <1>3 DEF PlaceFollows
<1>5. PICK n, data \in Nat : /\ n = BlockLen(form, k) /\ data = DataAt(form, k) /\ data = lo + n
  <2>1. /\ DataAt(form, k) \in Nat
        /\ DataAt(form, k) = HeadersAt(form, k) + 3 * LineCount(form.parts[k].lines) + 2
        /\ LineCount(form.parts[k].lines) \in Nat
    BY <1>2, <1>3, PartPositions
  <2>2. PICK m \in Nat : m = 3 * LineCount(form.parts[k].lines)
    BY <2>1
  <2>3. BlockLen(form, k) = m + 2 /\ m + 2 \in Nat
    BY <2>2 DEF BlockLen
  <2>4. DataAt(form, k) = lo + (m + 2)
    <3>1. DataAt(form, k) = (lo + m) + 2
      BY <1>4, <2>1, <2>2, Zenon
    <3>2. (lo + m) + 2 = lo + (m + 2)
      BY <1>2
    <3> QED BY <3>1, <3>2, Zenon
  <2> QED BY <2>1, <2>3, <2>4, Zenon
<1>6. PICK s \in Seq(Bytes) : s = body /\ s = Encode(form)
  BY <1>2
<1>7. data - 4 >= lo /\ DelimitedBy(s, lo, data - 4, CRLF_CRLF)
  <2>1. /\ DataAt(form, k) - 4 >= HeadersAt(form, k)
        /\ DelimitedBy(Encode(form), HeadersAt(form, k), DataAt(form, k) - 4, CRLF_CRLF)
    BY <1>2, <1>3, HeadersDelimited
  <2> QED BY <1>4, <1>5, <1>6, <2>1, Zenon
<1>8. PICK till \in Nat : till = data - 4 /\ till >= lo /\ till + 4 = data
  BY <1>2, <1>7
<1>9. DelimitedBy(s, lo, till, CRLF_CRLF)
  BY <1>7, <1>8, Zenon
<1>10. PICK searched \in Nat : searched = header_search_start
  BY <1>2, SearchTypes
<1>11. Len(CRLF_CRLF) = 4 /\ CRLF_CRLF \in Seq(Bytes)
  BY BytesAssumption DEF CRLF_CRLF
<1>12. lo + searched <= till /\ lo + searched <= hi
  <2>1. CASE searched = 0
    BY <1>2, <1>8, <2>1
  <2>2. CASE searched > 0
    <3>1. /\ header_search_start + HeadersOverlap <= BufLen
          /\ \A at \in lo..(lo + header_search_start - 1) : ~Matches(body, at, CRLF_CRLF)
      BY <1>2, <1>10, <2>2 DEF Searched, HeadersSearched
    <3>2. searched + 3 <= hi - lo
      <4>1. HeadersOverlap = 3 /\ BufLen = hi - lo
        BY <1>2, SearchTypes
      <4> QED BY <1>10, <3>1, <4>1, Zenon
    <3>3. \A at \in lo..(lo + searched - 1) : ~Matches(s, at, CRLF_CRLF)
      BY <1>6, <1>10, <3>1, Zenon
    <3>4. ASSUME till < lo + searched
          PROVE  FALSE
      <4>1. till \in lo..(lo + searched - 1) /\ till + 4 <= hi
        BY <1>2, <1>8, <3>2, <3>4
      <4>2. till + 4 <= Len(s)
        <5>1. hi <= Len(s)
          BY <1>2, <1>6, Zenon
        <5> QED BY <1>2, <4>1, <5>1
      <4>3. Matches(s, till, CRLF_CRLF)
        BY <1>9, <1>11, <4>2, ShownMatches DEF DelimitedBy
      <4> QED BY <3>3, <4>1, <4>3
    <3> QED BY <1>2, <1>8, <3>2, <3>4
  <2> QED BY <2>1, <2>2
<1>13. \/ till + 4 <= hi /\ Find(s, lo + searched, hi, CRLF_CRLF) = till
       \/ till + 4 > hi /\ Find(s, lo + searched, hi, CRLF_CRLF) = NotFound
  <2>1. PICK from \in Nat : from = lo + searched
    BY <1>2
  <2>2. DelimitedBy(s, lo, till, CRLF_CRLF) /\ from \in lo..till /\ hi \in from..Len(s)
    BY <1>2, <1>6, <1>8, <1>9, <1>12, <2>1
  <2>3. \/ till + Len(CRLF_CRLF) <= hi /\ Find(s, from, hi, CRLF_CRLF) = till
        \/ till + Len(CRLF_CRLF) > hi /\ Find(s, from, hi, CRLF_CRLF) = NotFound
    <3>1. lo \in Nat
      BY <1>2
    <3>2. PICK pat \in Seq(Bytes), start, h \in Nat : pat = CRLF_CRLF /\ start = lo /\ h = hi
      BY <1>2, <1>11
    <3>3. DelimitedBy(s, start, till, pat) /\ from \in start..till /\ h \in from..Len(s)
      BY <2>2, <3>2, Zenon
    <3>4. \/ till + Len(pat) <= h /\ Find(s, from, h, pat) = till
          \/ till + Len(pat) > h /\ Find(s, from, h, pat) = NotFound
      BY <3>3, DelimiterFound
    <3> QED BY <3>2, <3>4, Zenon
  <2> QED BY <1>11, <2>1, <2>3, Zenon
<1>14. HeadersEnd = Find(s, lo + searched, hi, CRLF_CRLF)
  BY <1>6, <1>10, Zenon DEF HeadersEnd
<1>15. /\ till + 4 = lo + n /\ DataAt(form, k) = lo + n
       /\ \/ lo + n <= hi /\ HeadersEnd = till
          \/ lo + n > hi /\ HeadersEnd = NotFound
  BY <1>5, <1>8, <1>13, <1>14, Zenon
<1>16. BlockSeen(k, till, n)
  BY <1>3, <1>5, <1>8, <1>15 DEF BlockSeen
<1> QED BY <1>16

\* What httparse makes of the block is what the part's lines say.
LEMMA BlockRead ==
  ASSUME Ready, NEW k \in 1..PartCount(form), NEW n, n = BlockLen(form, k),
         NEW at \in Nat, at = HeadersAt(form, k), at + n <= Len(body)
  PROVE  LET parsed == ParseHeaders(SubSeq(body, at + 1, at + n), MaxHeaders)
         IN  /\ parsed.ok <=> /\ LinesOK(form.parts[k].lines)
                              /\ LineCount(form.parts[k].lines) <= MaxHeaders
             /\ parsed.name = NameOf(form, k)
<1>1. /\ Unambiguous(form) /\ form \in FormType /\ form.drop <= Len(Complete(form))
      /\ body = Encode(form) /\ body \in Seq(Bytes)
  BY ReadyFacts
<1>2. form.parts[k] \in PartType /\ UnambiguousPart(form.parts[k])
  BY <1>1, UnambiguousParts
<1>3. PICK lines \in Seq(Bytes) : /\ lines = form.parts[k].lines
                                  /\ lines # << >> /\ OneLine(lines)
  BY <1>2 DEF PartType, UnambiguousPart
<1>4. PICK h \in Seq(Bytes) : h = HeaderBlock(lines) /\ BlockOf(h, lines)
  BY <1>3, HeaderBlockLayout
<1>5. Shows(body, at, h)
  <2>1. BodyShown(Encode(form), form)
    BY <1>1, BodyLayout
  <2>2. Shows(Encode(form), HeadersAt(form, k), HeaderBlock(form.parts[k].lines))
    BY <2>1 DEF BodyShown, PieceShown
  <2> QED BY <1>1, <1>3, <1>4, <2>2, Zenon
<1>6. Len(h) = n /\ n \in Nat
  <2>1. Len(h) = BlockLen(form, k)
    BY <1>3, <1>4, Zenon DEF BlockOf, BlockLen
  <2> QED BY <1>4, <2>1, LenProperties
<1>7. SubSeq(body, at + 1, at + n) = h
  <2>1. SubSeq(body, at + 1, at + n) = SubSeq(h, 1, n)
    <3>1. n \in 0..Len(h)
      BY <1>6
    <3> QED BY <1>1, <1>4, <1>5, <3>1, ShownPart
  <2>2. SubSeq(h, 1, n) = h
    BY <1>4, <1>6
  <2> QED BY <2>1, <2>2
<1>8. LET parsed == ParseHeaders(h, MaxHeaders)
      IN  /\ parsed.ok <=> LinesOK(lines) /\ Len(lines) <= MaxHeaders
          /\ parsed.name = NamedBy(lines)
  BY <1>3, <1>4, BlockParsed, ErrorsAssumption
<1> QED BY <1>3, <1>7, <1>8, Zenon DEF NameOf, LineCount

LEMMA HeadersRefuted ==
  ASSUME Ready, form' = form, ReadFieldHeaders, out' = out, errors = 0,
         NEW k, k = Len(out) + 1, k \in 1..PartCount(form),
         ~HeadersAccepted(form, constraints, k), NEW error, Fail(error)
  PROVE  Implements
<1>1. ParserStep /\ stage # "Eof"
  BY DEF ReadFieldHeaders, TakeUp, At, ParserStep, NextFieldStep
<1>2. ~Closing(form, k)
  BY NextPart DEF Closing
<1>3. ~Accepted(form, constraints, Len(out) + 1)
  BY <1>2 DEF Accepted
<1> QED BY <1>1, <1>3, ParserFails

\* Part k becomes the field that is read.
FieldMade(k) ==
  /\ stage' = "ReadingFieldData" /\ lo' = DataAt(form, k)
  /\ transport_padding_counter' = transport_padding_counter
  /\ next_field_idx' = k
  /\ curr_field_size_limit' = LimitOf(constraints, NameOf(form, k))
  /\ curr_field_size_counter' = 0
  /\ out' = Append(out, [idx |-> k - 1, name |-> NameOf(form, k), done |-> FALSE,
                         start |-> DataAt(form, k), upto |-> DataAt(form, k)])
  /\ errors' = errors

LEMMA FieldGiven ==
  ASSUME out \in Seq(GivenType), NEW k, k = Len(out) + 1, NEW e, out' = Append(out, e)
  PROVE  /\ Len(out') = k /\ k \in Nat /\ out'[k] = e
         /\ \A j \in 1..Len(out) : out'[j] = out[j] /\ j < k /\ j \in 1..k
         /\ \A j \in 1..k : j = k \/ j \in 1..Len(out)
  OBVIOUS

LEMMA FieldStarts ==
  ASSUME Ready, form' = form, ReadFieldHeaders, NEW k, k = Len(out) + 1,
         k \in 1..PartCount(form), HeadersAccepted(form, constraints, k), FieldMade(k)
  PROVE  Implements
<1>1. ParserStep /\ stage = "ReadingFieldHeaders"
  BY DEF ReadFieldHeaders, TakeUp, At, ParserStep, NextFieldStep
<1>2. /\ errors = 0 /\ InputFollows /\ FieldsFollow /\ PartsFollow /\ PlaceFollows
      /\ UNCHANGED <<body, constraints, hi, eof, sent, stream_size_counter>>
  BY <1>1, ParserFacts
<1>3. /\ Unambiguous(form) /\ out \in Seq(GivenType) /\ form \in Forms /\ body = Encode(form)
      /\ body \in Seq(Bytes) /\ form \in FormType
  BY ReadyFacts
<1>4. LineAccepted(form, constraints, k) /\ transport_padding_counter = 0
  BY <1>1, <1>2 DEF PlaceFollows
<1>5. ~Closing(form, k) /\ k <= PartCount(form)
  BY <1>2, NextPart DEF Closing
<1>6. \A j \in 1..Len(out) : PartAccepted(form, constraints, j)
  BY <1>1, <1>2 DEF PartsFollow
<1>7. PreambleFits(form, constraints)
  BY <1>1, <1>2 DEF PartsFollow
<1>8. Accepted(form, constraints, k)
  <2>1. k - 1 = Len(out)
    BY <1>2, NextPart
  <2> QED BY <1>4, <1>6, <1>7, <2>1 DEF Accepted
<1>9. PICK at, end \in Nat : /\ at = DataAt(form, k) /\ end = DataEnd(form, k) /\ at <= end
  <2>1. /\ DataAt(form, k) \in Nat /\ DataEnd(form, k) \in Nat /\ DataLen(form.parts[k]) \in Nat
        /\ DataEnd(form, k) = DataAt(form, k) + DataLen(form.parts[k])
    BY <1>3, PartPositions
  <2> QED BY <2>1
<1>10. PICK e : /\ e = [idx |-> k - 1, name |-> NameOf(form, k), done |-> FALSE,
                        start |-> at, upto |-> at]
                /\ out' = Append(out, e)
  BY <1>9 DEF FieldMade
<1>11. Abstract!OpenField
  <2>1. stage' # "Eof" /\ errors' = errors
    BY DEF FieldMade
  <2>2. out' = Append(out, [idx |-> k - 1, name |-> NameOf(form, k), done |-> FALSE,
                            start |-> at, upto |-> at])
    BY <1>10, Zenon
  <2> QED BY <1>1, <1>2, <1>3, <1>5, <1>8, <2>1, <2>2, AbstractOpens
<1>12. /\ Len(out') = k /\ k \in Nat /\ out'[k] = e
       /\ \A j \in 1..Len(out) : out'[j] = out[j] /\ j < k /\ j \in 1..k
       /\ \A j \in 1..k : j = k \/ j \in 1..Len(out)
  BY <1>3, <1>10, FieldGiven
<1>13. InputFollows'
  BY <1>2 DEF InputFollows
<1>14. FieldsFollow'
  <2>1. GivenFollows(k)'
    <3>1. /\ out'[k].idx = k - 1 /\ out'[k].name = NameOf(form, k) /\ out'[k].done = FALSE
          /\ out'[k].start = at /\ out'[k].upto = at
      BY <1>10, <1>12
    <3>2. at \in at..end
      BY <1>9
    <3> QED BY <1>9, <3>1, <3>2 DEF GivenFollows
  <2>2. ASSUME NEW j \in 1..Len(out)
        PROVE  GivenFollows(j)'
    <3>1. GivenFollows(j)
      BY <1>2 DEF FieldsFollow
    <3>2. out'[j] = out[j]
      BY <1>12
    <3> QED BY <3>1, <3>2 DEF GivenFollows
  <2>3. \A j \in 1..k : GivenFollows(j)'
    BY <1>12, <2>1, <2>2
  <2>4. next_field_idx' = k
    BY DEF FieldMade
  <2> QED BY <1>5, <1>12, <2>3, <2>4 DEF FieldsFollow
<1>15. PartsFollow'
  <2>1. stage' = "ReadingFieldData"
    BY DEF FieldMade
  <2>2. ASSUME NEW j \in 1..k, j < k
        PROVE  PartAccepted(form, constraints, j)
    BY <1>6, <1>12, <2>2
  <2> QED BY <1>2, <1>7, <1>12, <2>1, <2>2 DEF PartsFollow
<1>16. PlaceFollows'
  <2>1. PICK limit \in Nat : limit = LimitOf(constraints, NameOf(form, k))
    BY ParserLimits
  <2>2. DataFollows(k)'
    <3>1. at \in at..end /\ at - at = 0
      BY <1>9
    <3>2. SatAdd(0, at - at) = 0
      BY <1>1, <3>1, ParserFacts DEF SatAdd
    <3>3. lo' = at /\ curr_field_size_counter' = 0 /\ curr_field_size_limit' = limit
      BY <1>9, <2>1, Zenon DEF FieldMade
    <3>4. LimitOf(constraints', NameOf(form', k)) = limit
      BY <1>2, <2>1
    <3>5. 0 <= limit
      BY <2>1
    <3>6. DataAt(form', k) = at /\ DataEnd(form', k) = end
      BY <1>9
    <3> QED BY <3>1, <3>2, <3>3, <3>4, <3>5, <3>6, Zenon DEF DataFollows
  <2>3. DataFollows(Len(out))'
    BY <1>12, <2>2, Zenon
  <2>4. stage' = "ReadingFieldData" /\ transport_padding_counter' = 0
    BY <1>4 DEF FieldMade
  <2>5. Len(out') >= 1
    BY <1>12
  <2> QED BY <2>3, <2>4, <2>5 DEF PlaceFollows
<1>17. Follows'
  BY <1>2, <1>3, <1>13, <1>14, <1>15, <1>16 DEF Follows
<1> QED BY <1>11, <1>17 DEF Implements, Abstract!FieldSequenceNext

LEMMA FieldHeadersImplements ==
  ASSUME Ready, form' = form, ReadFieldHeaders
  PROVE  Implements
<1>1. /\ ParserStep /\ stage = "ReadingFieldHeaders"
  BY DEF ReadFieldHeaders, TakeUp, At, ParserStep, NextFieldStep
<1>2. /\ errors = 0 /\ PartsFollow /\ PlaceFollows /\ next_field_idx = Len(out) /\ U64Max \in Nat
      /\ UNCHANGED <<body, constraints, hi, eof, sent, stream_size_counter>>
      /\ hi \in Nat /\ lo \in Nat /\ hi <= Len(body) /\ (eof => hi = Len(body)) /\ Len(body) \in Nat
      /\ BufLen = hi - lo /\ hi - lo <= U64Max /\ lo <= hi /\ Len(out) \in Nat
      /\ body = Encode(form)
  BY <1>1, ParserFacts, NextPart, ReadyFacts DEF FieldsFollow
<1>3. PICK k, till, n : BlockSeen(k, till, n)
  BY BlockFound
<1>4. /\ k = Len(out) + 1 /\ k \in 1..PartCount(form)
      /\ n = BlockLen(form, k) /\ n \in Nat /\ till \in Nat
      /\ till + 4 = lo + n /\ DataAt(form, k) = lo + n
      /\ \/ lo + n <= hi /\ HeadersEnd = till
         \/ lo + n > hi /\ HeadersEnd = NotFound
  BY <1>3, Zenon DEF BlockSeen
<1>5. lo = HeadersAt(form, k) /\ transport_padding_counter = 0
  BY <1>1, <1>2, <1>4 DEF PlaceFollows
<1>6. PICK limit, max \in Nat : limit = constraints.headers /\ limit <= U64Max
                                /\ max = constraints.max_fields
  BY ParserLimits
<1>7. PICK parsed : parsed = ParseHeaders(SubSeq(body, lo + 1, lo + n), MaxHeaders)
  OBVIOUS
<1>8. ASSUME ~HeadersAccepted(form, constraints, k), out' = out, NEW error, Fail(error)
      PROVE  Implements
  BY <1>2, <1>4, <1>8, HeadersRefuted
<1>9. ASSUME NEW m \in Nat, m <= hi - lo, m > limit, m <= n
      PROVE  ~HeadersAccepted(form, constraints, k)
  <2>1. m <= U64Max
    BY <1>2, <1>9
  <2>2. Exceeds(n, limit)
    BY <1>2, <1>4, <1>6, <1>9, <2>1, Over
  <2>3. Exceeds(BlockLen(form, k), constraints.headers)
    BY <1>4, <1>6, <2>2, Zenon
  <2> QED BY <2>3 DEF HeadersAccepted
<1>10. CASE FieldCountReached /\ out' = out /\ \E e : Fail(e)
  <2>1. Len(out) >= max
    BY <1>2, <1>6, <1>10, Zenon DEF FieldCountReached
  <2>2. ~(k <= max)
    BY <1>2, <1>4, <2>1
  <2>3. ~HeadersAccepted(form, constraints, k)
    BY <1>6, <2>2 DEF HeadersAccepted
  <2> QED BY <1>8, <1>10, <2>3
<1>11. CASE /\ HeadersEnd = NotFound
            /\ ReadHeaders(NotFound)
            /\ FailOrSuspend(BufLen > limit, "HeadersSizeExceeded")
            /\ UNCHANGED <<parser, curr, given>>
  <2>1. lo + n > hi
    BY <1>4, <1>11 DEF NotFound
  <2>2. \/ BufLen > limit /\ \E e : Fail(e)
        \/ eof /\ \E e : Fail(e)
        \/ Suspend
    BY <1>11 DEF FailOrSuspend
  <2>3. out' = out /\ UNCHANGED <<stage, next_field_idx, lo, transport_padding_counter, curr>>
    BY <1>11 DEF given, parser, ReadHeaders
  <2>4. CASE BufLen > limit /\ \E e : Fail(e)
    <3>1. hi - lo > limit
      BY <1>2, <2>4, Zenon
    <3>2. PICK m : m = hi - lo
      OBVIOUS
    <3>3. m \in Nat /\ m <= hi - lo /\ m > limit /\ m <= n
      BY <1>2, <1>4, <2>1, <3>1, <3>2
    <3>4. ~HeadersAccepted(form, constraints, k)
      BY <1>9, <3>3
    <3> QED BY <1>8, <2>3, <2>4, <3>4
  <2>5. CASE eof /\ \E e : Fail(e)
    <3>1. ~(lo + n <= Len(body))
      BY <1>2, <1>4, <2>1, <2>5
    <3>2. ~(DataAt(form, k) <= Len(Encode(form)))
      BY <1>2, <1>4, <3>1, Zenon
    <3>3. ~HeadersAccepted(form, constraints, k)
      BY <3>2 DEF HeadersAccepted
    <3> QED BY <1>8, <2>3, <2>5, <3>3
  <2>6. CASE Suspend
    <3>1. errors' = errors
      BY <2>6, OutcomeKeepsErrors
    <3>2. PartsFollow'
      BY <1>2, <2>3, PartsFollowStill
    <3>3. PlaceFollows'
      <4>1. /\ stage # "Eof" /\ UNCHANGED rigid /\ hi' = hi
        BY <1>1, <1>2 DEF rigid
      <4> QED BY <1>2, <2>3, <4>1, PlaceFollowsStill
    <3> QED BY <1>1, <2>3, <3>1, <3>2, <3>3, ParserMoves
  <2> QED BY <2>2, <2>4, <2>5, <2>6
<1>12. CASE /\ HeadersEnd # NotFound
            /\ (n > limit \/ ~parsed.ok) /\ out' = out /\ \E e : Fail(e)
  <2>1. lo + n <= hi
    BY <1>4, <1>12
  <2>2. CASE n > limit
    <3>1. n \in Nat /\ n <= hi - lo /\ n <= n
      BY <1>2, <1>4, <2>1
    <3>2. ~HeadersAccepted(form, constraints, k)
      BY <1>9, <2>2, <3>1
    <3> QED BY <1>8, <1>12, <3>2
  <2>3. CASE ~parsed.ok
    <3>1. parsed.ok <=> /\ LinesOK(form.parts[k].lines)
                        /\ LineCount(form.parts[k].lines) <= MaxHeaders
      <4>1. lo + n <= Len(body)
        BY <1>2, <1>4, <2>1
      <4> QED BY <1>2, <1>4, <1>5, <1>7, <4>1, BlockRead
    <3>2. ~HeadersAccepted(form, constraints, k)
      BY <2>3, <3>1 DEF HeadersAccepted
    <3> QED BY <1>8, <1>12, <3>2
  <2> QED BY <1>12, <2>2, <2>3
<1>13. CASE /\ HeadersEnd # NotFound /\ ~FieldCountReached
            /\ n <= limit /\ parsed.ok
            /\ \/ ~IsItAllowed(parsed.name) /\ out' = out /\ \E e : Fail(e)
               \/ /\ IsItAllowed(parsed.name)
                  /\ ReadHeaders(HeadersEnd) /\ stage' = "ReadingFieldData"
                  /\ next_field_idx' = next_field_idx + 1
                  /\ curr_field_size_limit' = ExtractSizeLimitFor(parsed.name)
                  /\ curr_field_size_counter' = 0
                  /\ out' = Append(out, [idx |-> next_field_idx, name |-> parsed.name, done |-> FALSE,
                                         start |-> lo + n, upto |-> lo + n])
                  /\ Return("field")
  <2>1. lo + n <= hi /\ HeadersEnd = till
    BY <1>4, <1>13
  <2>2. /\ parsed.ok <=> /\ LinesOK(form.parts[k].lines)
                         /\ LineCount(form.parts[k].lines) <= MaxHeaders
        /\ parsed.name = NameOf(form, k)
    <3>1. lo + n <= Len(body)
      BY <1>2, <1>4, <2>1
    <3> QED BY <1>2, <1>4, <1>5, <1>7, <3>1, BlockRead
  <2>3. IsItAllowed(parsed.name) <=> \A allowed \in constraints.allowed_fields : NameOf(form, k) \in allowed
    BY <2>2 DEF IsItAllowed
  <2>4. CASE ~IsItAllowed(parsed.name) /\ out' = out /\ \E e : Fail(e)
    <3>1. ~HeadersAccepted(form, constraints, k)
      BY <2>3, <2>4 DEF HeadersAccepted
    <3> QED BY <1>8, <2>4, <3>1
  <2>5. CASE /\ IsItAllowed(parsed.name)
             /\ ReadHeaders(HeadersEnd) /\ stage' = "ReadingFieldData"
             /\ next_field_idx' = next_field_idx + 1
             /\ curr_field_size_limit' = ExtractSizeLimitFor(parsed.name)
             /\ curr_field_size_counter' = 0
             /\ out' = Append(out, [idx |-> next_field_idx, name |-> parsed.name, done |-> FALSE,
                                    start |-> lo + n, upto |-> lo + n])
             /\ Return("field")
    <3>1. k <= max
      <4>1. ~(Len(out) >= max)
        BY <1>2, <1>6, <1>13, Zenon DEF FieldCountReached
      <4> QED BY <1>2, <1>4, <4>1
    <3>2. DataAt(form, k) <= Len(Encode(form))
      <4>1. lo + n <= Len(body)
        BY <1>2, <1>4, <2>1
      <4> QED BY <1>2, <1>4, <4>1, Zenon
    <3>3. ~Exceeds(BlockLen(form, k), constraints.headers)
      <4>1. ~Exceeds(n, limit)
        BY <1>4, <1>6, <1>13 DEF Exceeds
      <4> QED BY <1>4, <1>6, <4>1, Zenon
    <3>4. HeadersAccepted(form, constraints, k)
      BY <1>6, <1>13, <2>2, <2>3, <2>5, <3>1, <3>2, <3>3, Zenon DEF HeadersAccepted
    <3>5. lo' = DataAt(form, k) /\ transport_padding_counter' = transport_padding_counter
      <4>1. HeadersEnd # NotFound
        BY <1>13
      <4>2. lo' = HeadersEnd + Len(CRLF_CRLF)
            /\ transport_padding_counter' = transport_padding_counter
        BY <2>5, <4>1 DEF ReadHeaders, Advance
      <4>3. Len(CRLF_CRLF) = 4
        BY DEF CRLF_CRLF
      <4> QED BY <1>4, <2>1, <4>2, <4>3, Zenon
    <3>6. next_field_idx' = k /\ next_field_idx = k - 1
      BY <1>2, <1>4, <2>5
    <3>7. curr_field_size_limit' = LimitOf(constraints, NameOf(form, k))
      <4>1. ExtractSizeLimitFor(parsed.name) = LimitOf(constraints, parsed.name)
        BY AbstractNames
      <4> QED BY <2>2, <2>5, <4>1, Zenon
    <3>8. out' = Append(out, [idx |-> k - 1, name |-> NameOf(form, k), done |-> FALSE,
                              start |-> DataAt(form, k), upto |-> DataAt(form, k)])
      BY <1>4, <2>2, <2>5, <3>6, Zenon
    <3>9. errors' = errors
      BY <2>5 DEF Return
    <3>10. FieldMade(k)
      BY <2>5, <3>5, <3>6, <3>7, <3>8, <3>9, Zenon DEF FieldMade
    <3> QED BY <1>4, <3>4, <3>10, FieldStarts
  <2> QED BY <1>13, <2>4, <2>5
<1>14. ParseHeaders(SubSeq(body, lo + 1, till + 4), MaxHeaders) = parsed
  BY <1>4, <1>7, Zenon
<1>15. Len(CRLF_CRLF) = 4 /\ lo + n - lo = n
  BY <1>2, <1>4 DEF CRLF_CRLF
<1>16. ASSUME HeadersEnd # NotFound,
              NEW end, end = HeadersEnd + Len(CRLF_CRLF)
       PROVE  /\ end = lo + n /\ end - lo = n
              /\ ParseHeaders(SubSeq(body, lo + 1, end), MaxHeaders) = parsed
  <2>1. HeadersEnd = till
    BY <1>4, <1>16, Zenon
  <2>2. end = till + 4
    <3>1. Len(CRLF_CRLF) = 4
      BY <1>15
    <3>2. HeadersEnd + Len(CRLF_CRLF) = till + 4
      BY <2>1, <3>1, Zenon
    <3> QED BY <1>16, <3>2, Zenon
  <2>3. end = lo + n
    <3>1. till + 4 = lo + n
      BY <1>4
    <3> QED BY <2>2, <3>1, Zenon
  <2>4. end - lo = n
    <3>1. (lo + n) - lo = n
      BY <1>2, <1>4
    <3> QED BY <2>3, <3>1, Zenon
  <2>5. ParseHeaders(SubSeq(body, lo + 1, end), MaxHeaders) = parsed
    BY <1>14, <2>2, Zenon
  <2> QED BY <2>3, <2>4, <2>5, Zenon
<1>17. \/ FieldCountReached /\ out' = out /\ \E e : Fail(e)
       \/ /\ HeadersEnd = NotFound
          /\ ReadHeaders(NotFound)
          /\ FailOrSuspend(BufLen > limit, "HeadersSizeExceeded")
          /\ UNCHANGED <<parser, curr, given>>
       \/ /\ HeadersEnd # NotFound
          /\ (n > limit \/ ~parsed.ok) /\ out' = out /\ \E e : Fail(e)
       \/ /\ HeadersEnd # NotFound /\ ~FieldCountReached
          /\ n <= limit /\ parsed.ok
          /\ \/ ~IsItAllowed(parsed.name) /\ out' = out /\ \E e : Fail(e)
             \/ /\ IsItAllowed(parsed.name)
                /\ ReadHeaders(HeadersEnd) /\ stage' = "ReadingFieldData"
                /\ next_field_idx' = next_field_idx + 1
                /\ curr_field_size_limit' = ExtractSizeLimitFor(parsed.name)
                /\ curr_field_size_counter' = 0
                /\ out' = Append(out, [idx |-> next_field_idx, name |-> parsed.name, done |-> FALSE,
                                       start |-> lo + n, upto |-> lo + n])
                /\ Return("field")
  <2>1. PICK at, end, p : /\ at = HeadersEnd /\ end = at + Len(CRLF_CRLF)
                          /\ p = ParseHeaders(SubSeq(body, lo + 1, end), MaxHeaders)
    OBVIOUS
  <2>2. \/ /\ FieldCountReached /\ Fail("FieldCountExceeded") /\ UNCHANGED given
        \/ /\ ~FieldCountReached /\ at = NotFound
           /\ ReadHeaders(at)
           /\ FailOrSuspend(BufLen > constraints.headers, "HeadersSizeExceeded")
           /\ UNCHANGED <<parser, curr, given>>
        \/ /\ ~FieldCountReached /\ at # NotFound
           /\ end - lo > constraints.headers \/ ~p.ok
           /\ Fail(IF end - lo > constraints.headers THEN "HeadersSizeExceeded"
                   ELSE "ReadHeaderFailed")
           /\ UNCHANGED given
        \/ /\ ~FieldCountReached /\ at # NotFound
           /\ end - lo <= constraints.headers /\ p.ok
           /\ ReadHeaders(at)
           /\ stage' = "ReadingFieldData"
           /\ next_field_idx' = next_field_idx + 1
           /\ curr_field_size_limit' = ExtractSizeLimitFor(p.name)
           /\ curr_field_size_counter' = 0
           /\ \/ ~IsItAllowed(p.name) /\ Fail("UnknownField") /\ UNCHANGED given
              \/ /\ IsItAllowed(p.name)
                 /\ out' = Append(out, [idx |-> next_field_idx, name |-> p.name, done |-> FALSE,
                                        start |-> end, upto |-> end])
                 /\ Return("field")
    BY <2>1, Zenon DEF ReadFieldHeaders, TakeUp
  <2>3. UNCHANGED given => out' = out
    BY DEF given
  <2>4. at # NotFound => end = lo + n /\ end - lo = n /\ p = parsed
    <3> SUFFICES ASSUME at # NotFound PROVE end = lo + n /\ end - lo = n /\ p = parsed
      OBVIOUS
    <3>1. HeadersEnd # NotFound
      BY <2>1, Zenon
    <3>2. end = HeadersEnd + Len(CRLF_CRLF)
      BY <2>1, Zenon
    <3>3. /\ end = lo + n /\ end - lo = n
          /\ ParseHeaders(SubSeq(body, lo + 1, end), MaxHeaders) = parsed
      BY <1>16, <3>1, <3>2, Zenon
    <3> QED BY <2>1, <3>3, Zenon
  <2> QED BY <1>6, <2>1, <2>2, <2>3, <2>4, Zenon
<1> QED BY <1>10, <1>11, <1>12, <1>13, <1>17

\* What ReadFieldData finds at the end of the buffer, in the data of part k,
\* which ends at till.
DataSeen(r, k, till) ==
  /\ k = Len(out) /\ k \in 1..PartCount(form) /\ k + 1 \in 1..(PartCount(form) + 1)
  /\ till = DataEnd(form, k) /\ till \in Nat
  /\ r.upto \in lo..till /\ r.upto <= hi
  /\ r.outcome = "done" => r.upto = till /\ LineAccepted(form, constraints, k + 1)
  /\ r.outcome = "none" => r.upto = lo
  /\ r.outcome \in Errors => ~LineAccepted(form, constraints, k + 1)

\* Where the data of the field that is read ends, and what follows it
DataPlace(k, till, at, width) ==
  /\ k = Len(out) /\ k \in 1..PartCount(form) /\ k + 1 \in 1..(PartCount(form) + 1)
  /\ till = DataEnd(form, k) /\ till \in Nat /\ lo <= till
  /\ width = Len(FieldBoundary) /\ width \in Nat /\ width >= 1
  /\ at = PadAt(form, k + 1) /\ at \in Nat /\ at = till + width
  /\ DelimitedBy(body, DataAt(form, k), till, FieldBoundary)
  /\ DataAt(form, k) \in Nat /\ DataAt(form, k) <= lo

LEMMA DataPlaced ==
  ASSUME Ready, ParserStep, stage = "ReadingFieldData"
  PROVE  \E k, till, at, width : DataPlace(k, till, at, width)
<1>1. /\ errors = 0 /\ PlaceFollows /\ FieldsFollow /\ Len(out) >= 1 /\ DataFollows(Len(out))
      /\ lo \in Nat
  BY ParserFacts DEF PlaceFollows
<1>2. /\ Unambiguous(form) /\ form \in FormType /\ body = Encode(form)
  BY ReadyFacts
<1>3. PICK k : /\ k = Len(out) /\ k \in 1..PartCount(form)
               /\ k + 1 \in 1..(PartCount(form) + 1)
  <2>1. Len(out) \in 1..Len(out)
    BY <1>1, NextPart
  <2> QED BY <1>1, <2>1, NextPart
<1>4. PICK from, till \in Nat : from = DataAt(form, k) /\ till = DataEnd(form, k)
  BY <1>2, <1>3, PartPositions
<1>5. from <= lo /\ lo <= till
  BY <1>1, <1>3, <1>4 DEF DataFollows
<1>6. PICK width \in Nat : width = Len(FieldBoundary) /\ width = BoundaryLen + 2 /\ width >= 1
  BY BytesOfMarks DEF BoundaryLen
<1>7. PICK at \in Nat : at = PadAt(form, k + 1) /\ at = till + width
  <2>1. PICK b, len \in Nat : /\ b = BoundaryAt(form, k + 1) /\ len = BoundaryLen
                              /\ PadAt(form, k + 1) = b + len
    BY <1>2, <1>3, BoundaryPositions
  <2>2. b = till + 2
    BY <1>2, <1>3, <1>4, <2>1, PartPositions
  <2>3. width = len + 2
    BY <1>6, <2>1, Zenon
  <2>4. b + len = till + width /\ b + len \in Nat
    BY <2>2, <2>3
  <2> QED BY <2>1, <2>4
<1>8. DelimitedBy(body, from, till, FieldBoundary)
  BY <1>2, <1>3, <1>4, FieldDelimited
<1>9. DataPlace(k, till, at, width)
  BY <1>3, <1>4, <1>5, <1>6, <1>7, <1>8, Zenon DEF DataPlace
<1> QED BY <1>9

\* The delimiter is found where the part's data ends, as soon as it is there.
LEMMA DelimiterSeen ==
  ASSUME Ready, ParserStep, stage = "ReadingFieldData",
         NEW k, NEW till, NEW at, NEW width, DataPlace(k, till, at, width)
  PROVE  \/ at <= hi /\ Find(body, lo, hi, FieldBoundary) = till
         \/ at > hi /\ Find(body, lo, hi, FieldBoundary) = NotFound
<1>1. lo \in Nat /\ hi \in Nat /\ lo <= hi /\ hi <= Len(body) /\ body \in Seq(Bytes)
  BY ParserFacts, ReadyFacts
<1>2. PICK s \in Seq(Bytes), pat \in Seq(Bytes), from \in Nat, start \in Nat, h \in Nat, t \in Nat :
        /\ s = body /\ pat = FieldBoundary /\ from = DataAt(form, k) /\ start = lo /\ h = hi
        /\ t = till
  BY <1>1, BytesOfMarks DEF DataPlace
<1>3. DelimitedBy(s, from, t, pat) /\ Len(pat) = width /\ at = t + width
  BY <1>2, Zenon DEF DataPlace
<1>4. start \in from..t /\ h \in start..Len(s)
  BY <1>1, <1>2 DEF DataPlace
<1>5. \/ t + Len(pat) <= h /\ Find(s, start, h, pat) = t
      \/ t + Len(pat) > h /\ Find(s, start, h, pat) = NotFound
  BY <1>3, <1>4, DelimiterFound
<1> QED BY <1>2, <1>3, <1>5, Zenon

\* Before that, what may be the start of the delimiter is left in the buffer.
LEMMA DataVisible ==
  ASSUME Ready, ParserStep, stage = "ReadingFieldData",
         NEW k, NEW till, NEW at, NEW width, DataPlace(k, till, at, width), at > hi,
         NEW upto, upto = hi - PartialSuffixLen(body, lo, hi, FieldBoundary)
  PROVE  upto \in lo..till /\ upto <= hi
<1>1. lo \in Nat /\ hi \in Nat /\ lo <= hi /\ hi <= Len(body) /\ body \in Seq(Bytes)
  BY ParserFacts, ReadyFacts
<1>2. PICK s \in Seq(Bytes), pat \in Seq(Bytes), start \in Nat, h \in Nat, t \in Nat :
        s = body /\ pat = FieldBoundary /\ start = lo /\ h = hi /\ t = till
  BY <1>1, BytesOfMarks DEF DataPlace
<1>3. Len(pat) = width /\ at = t + width /\ width >= 1 /\ Shows(s, t, pat)
  BY <1>2, Zenon DEF DataPlace, DelimitedBy
<1>4. start \in 0..t /\ h \in start..Len(s)
  BY <1>1, <1>2 DEF DataPlace
<1>5. h < t + Len(pat)
  BY <1>2, <1>3
<1>6. PICK n \in Nat : n = PartialSuffixLen(s, start, h, pat) /\ h - n \in start..t
  BY <1>3, <1>4, <1>5, VisibleBefore
<1>7. upto = h - n
  BY <1>2, <1>6, Zenon
<1>8. h - n \in start..t /\ h - n <= h
  BY <1>6
<1> QED BY <1>2, <1>7, <1>8, Zenon

\* What the line that follows the data shows once the delimiter is there
SuffixSeen(v, k) ==
  /\ v.verdict \in Verdicts
  /\ v.verdict = "Valid" => LineAccepted(form, constraints, k + 1)
  /\ v.verdict \in {"TooLong", "Invalid"} => ~LineAccepted(form, constraints, k + 1)

LEMMA DataSuffix ==
  ASSUME Ready, ParserStep, stage = "ReadingFieldData",
         NEW k, NEW till, NEW at, NEW width, DataPlace(k, till, at, width), at <= hi,
         Find(body, lo, hi, FieldBoundary) = till,
         NEW v, v = MatchBoundarySuffix(body, till + width, hi, eof, boundary_padding_scanned,
                                        constraints.boundary_padding)
  PROVE  SuffixSeen(v, k)
<1>1. /\ lo \in Nat /\ hi \in Nat /\ hi <= Len(body) /\ body \in Seq(Bytes) /\ Len(body) \in Nat
      /\ Unambiguous(form) /\ body = Encode(form)
      /\ eof \in BOOLEAN /\ (eof => hi = Len(body)) /\ U64Max \in Nat /\ hi - lo <= U64Max
  BY ParserFacts, ReadyFacts
<1>2. /\ at \in Nat /\ at = till + width /\ lo <= till /\ till \in Nat /\ width \in Nat
      /\ k + 1 \in 1..(PartCount(form) + 1) /\ at = PadAt(form, k + 1) /\ width = Len(FieldBoundary)
  BY DEF DataPlace
<1>3. PICK scanned \in Nat : scanned = boundary_padding_scanned
  BY ParserFacts DEF BufferTypeOK
<1>4. PICK limit \in Nat : limit = constraints.boundary_padding /\ limit <= U64Max
  BY ParserLimits
<1>5. PICK s \in Seq(Bytes) : s = body /\ s = Encode(form) /\ Len(s) \in Nat
  BY <1>1
<1>6. scanned > 0 => PaddingScanned(s, at, hi, scanned)
  <2> SUFFICES ASSUME scanned > 0 PROVE PaddingScanned(s, at, hi, scanned)
    OBVIOUS
  <2>1. PaddingCacheSound
    BY ParserFacts
  <2>2. PaddingScanned(body, Find(body, lo, hi, FieldBoundary) + Len(FieldBoundary), hi,
                       boundary_padding_scanned)
    BY <1>3, <2>1 DEF PaddingCacheSound
  <2> QED BY <1>2, <1>3, <1>5, <2>2, Zenon
<1>7. PICK from, to \in Nat : from = LineFrom(form, k + 1) /\ to = LineTo(form, k + 1) /\ from <= to
  BY <1>1, <1>2, BoundaryLines
<1>8. PICK closing \in BOOLEAN : closing = Closing(form, k + 1)
  BY <1>1, <1>2, BoundaryLines
<1>9. /\ from = (IF closing THEN at + 2 ELSE at)
      /\ LineKnown(s, from, to, closing)
      /\ closing => Shows(s, at, BOUNDARY_EXT)
      /\ ~closing /\ at + 2 <= Len(s) => ~Matches(s, at, BOUNDARY_EXT)
  <2>1. /\ LineFrom(form, k + 1)
             = (IF Closing(form, k + 1) THEN PadAt(form, k + 1) + 2 ELSE PadAt(form, k + 1))
        /\ LineKnown(Encode(form), LineFrom(form, k + 1), LineTo(form, k + 1), Closing(form, k + 1))
        /\ Closing(form, k + 1) => Shows(Encode(form), PadAt(form, k + 1), BOUNDARY_EXT)
        /\ ~Closing(form, k + 1) /\ PadAt(form, k + 1) + 2 <= Len(Encode(form)) =>
             ~Matches(Encode(form), PadAt(form, k + 1), BOUNDARY_EXT)
    BY <1>1, <1>2, BoundaryLines
  <2> QED BY <1>2, <1>5, <1>7, <1>8, <2>1, Zenon
<1>10. v = MatchBoundarySuffix(s, at, hi, eof, scanned, limit)
  BY <1>2, <1>3, <1>4, <1>5, Zenon
<1>11. hi \in at..Len(s) /\ (eof => hi = Len(s))
  BY <1>1, <1>2, <1>5
<1>12. /\ v.verdict = "Valid" =>
              LineComplete(s, from, to, closing) /\ LineWidth(s, from, to, closing) <= limit
       /\ v.verdict = "TooLong" =>
              LineWidth(s, from, to, closing) > limit /\ limit < hi - at
       /\ v.verdict = "Invalid" => ~LineComplete(s, from, to, closing)
  <2>1. PICK p \in Nat, h \in Nat, ended \in BOOLEAN : p = at /\ h = hi /\ ended = eof
    BY <1>1, <1>2
  <2>2. /\ LineKnown(s, from, to, closing)
        /\ from = (IF closing THEN p + 2 ELSE p)
        /\ closing => Shows(s, p, BOUNDARY_EXT)
        /\ ~closing /\ p + 2 <= Len(s) => ~Matches(s, p, BOUNDARY_EXT)
        /\ scanned > 0 => PaddingScanned(s, p, h, scanned)
        /\ v = MatchBoundarySuffix(s, p, h, ended, scanned, limit)
        /\ h \in p..Len(s) /\ (ended => h = Len(s))
    BY <1>6, <1>9, <1>10, <1>11, <2>1, Zenon
  <2>3. from <= to
    BY <1>7
  <2>4. /\ v.verdict = "Valid" =>
              LineComplete(s, from, to, closing) /\ LineWidth(s, from, to, closing) <= limit
        /\ v.verdict = "TooLong" =>
              LineWidth(s, from, to, closing) > limit /\ limit < h - p
        /\ v.verdict = "Invalid" => ~LineComplete(s, from, to, closing)
    BY <2>2, <2>3, SuffixVerdict
  <2> QED BY <2>1, <2>4, Zenon
<1>13. v.verdict \in Verdicts
  BY <1>1, <1>2, <1>6, <1>10, <1>11, MatchSuffixProperties
<1>14. /\ LineThere(form, k + 1) <=> LineComplete(s, from, to, closing)
       /\ LineLen(form, k + 1) = LineWidth(s, from, to, closing)
  BY <1>5, <1>7, <1>8, Zenon DEF LineThere, LineLen
<1>15. PICK line : line = LineWidth(s, from, to, closing) /\ line \in Int
  <2>1. LineWidth(s, from, to, closing) \in Int
    BY <1>5, <1>7 DEF LineWidth
  <2> QED BY <2>1
<1>16. LineAccepted(form, constraints, k + 1) <=>
         LineComplete(s, from, to, closing) /\ ~Exceeds(line, limit)
  BY <1>4, <1>14, <1>15, Zenon DEF LineAccepted
<1>17. line <= limit => ~Exceeds(line, limit)
  BY <1>15 DEF Exceeds
<1>18. line > limit /\ limit < hi - at => Exceeds(line, limit)
  <2>1. hi - at <= U64Max
    BY <1>1, <1>2
  <2> QED BY <1>1, <1>2, <1>15, <2>1 DEF Exceeds
<1> QED BY <1>12, <1>13, <1>15, <1>16, <1>17, <1>18, Zenon DEF SuffixSeen

LEMMA DataRead ==
  ASSUME Ready, ParserStep, stage = "ReadingFieldData", NEW r, r = ReadFieldData
  PROVE  \E k, till : DataSeen(r, k, till)
<1>1. PICK k, till, at, width : DataPlace(k, till, at, width)
  BY DataPlaced
<1>2. /\ lo \in Nat /\ hi \in Nat /\ lo <= hi /\ hi <= Len(body) /\ Len(body) \in Nat
      /\ Unambiguous(form) /\ body = Encode(form) /\ (eof => hi = Len(body))
  BY ParserFacts, ReadyFacts
<1>3. /\ at \in Nat /\ at = till + width /\ lo <= till /\ till \in Nat /\ width \in Nat /\ width >= 1
      /\ k = Len(out) /\ k \in 1..PartCount(form) /\ till = DataEnd(form, k)
      /\ k + 1 \in 1..(PartCount(form) + 1) /\ at = PadAt(form, k + 1) /\ width = Len(FieldBoundary)
  BY <1>1 DEF DataPlace
<1>4. ASSUME NEW upto, r.upto = upto, upto \in lo..till, upto <= hi,
             r.outcome = "done" => upto = till /\ LineAccepted(form, constraints, k + 1),
             r.outcome = "none" => upto = lo,
             r.outcome \in Errors => ~LineAccepted(form, constraints, k + 1)
      PROVE  DataSeen(r, k, till)
  BY <1>3, <1>4, Zenon DEF DataSeen
<1>5. PICK found : found = Find(body, lo, hi, FieldBoundary)
  OBVIOUS
<1>6. \/ at <= hi /\ found = till
      \/ at > hi /\ found = NotFound
  BY <1>1, <1>5, DelimiterSeen
<1>7. PICK visible : visible = hi - PartialSuffixLen(body, lo, hi, FieldBoundary)
  OBVIOUS
<1>8. PICK v : v = MatchBoundarySuffix(body, found + width, hi, eof, boundary_padding_scanned,
                                       constraints.boundary_padding)
  OBVIOUS
<1>9. till # NotFound
  BY <1>3 DEF NotFound
<1>10. lo \in lo..till /\ till \in lo..till
  BY <1>2, <1>3
<1>11. DEFINE Result(o, upto, scanned) == [outcome |-> o, upto |-> upto, scanned |-> scanned]
<1>12. r = IF lo = hi \/ (found = NotFound /\ eof)
           THEN Result(IF eof THEN "IncompleteFieldData" ELSE "none", lo, boundary_padding_scanned)
           ELSE IF found = NotFound
           THEN Result(IF visible = lo THEN "none" ELSE "data", visible, boundary_padding_scanned)
           ELSE IF v.verdict \in {"TooLong", "Invalid"}
           THEN Result(IF v.verdict = "TooLong" THEN "BoundaryPaddingSizeExceeded"
                       ELSE "IncompleteStream", lo, v.scanned)
           ELSE IF v.verdict = "Partial"
           THEN Result(IF found = lo THEN "none" ELSE "data", found, v.scanned)
           ELSE Result("done", found, 0)
  BY <1>3, <1>5, <1>7, <1>8, Zenon DEF ReadFieldData
<1>13. "done" \notin Errors /\ "none" \notin Errors /\ "data" \notin Errors
  BY DEF Errors
<1>14. CASE lo = hi \/ (found = NotFound /\ eof)
  <2>1. r.upto = lo /\ r.outcome = IF eof THEN "IncompleteFieldData" ELSE "none"
    BY <1>12, <1>14
  <2>2. ASSUME eof PROVE ~LineAccepted(form, constraints, k + 1)
    <3>1. at > hi
      BY <1>2, <1>3, <1>6, <1>9, <1>14
    <3>2. ~(PadAt(form, k + 1) + 2 <= Len(Encode(form)))
      <4>1. hi = Len(Encode(form))
        BY <1>2, <2>2, Zenon
      <4>2. ~(at + 2 <= hi)
        BY <1>2, <1>3, <3>1
      <4> QED BY <1>3, <4>1, <4>2, Zenon
    <3>3. ~LineThere(form, k + 1)
      BY <1>2, <1>3, <3>2, LineNeeds
    <3> QED BY <3>3 DEF LineAccepted
  <2>3. lo <= hi
    BY <1>2
  <2>4. r.outcome # "done" /\ (r.outcome \in Errors => eof)
    BY <1>13, <2>1
  <2>5. DataSeen(r, k, till)
    BY <1>4, <1>10, <2>1, <2>2, <2>3, <2>4, Zenon
  <2> QED BY <2>5
<1>15. CASE lo # hi /\ found = NotFound /\ ~eof
  <2>1. r.upto = visible /\ r.outcome = IF visible = lo THEN "none" ELSE "data"
    BY <1>12, <1>15
  <2>2. visible \in lo..till /\ visible <= hi
    BY <1>1, <1>6, <1>7, <1>9, <1>15, DataVisible
  <2>3. r.outcome # "done" /\ r.outcome \notin Errors /\ (r.outcome = "none" => visible = lo)
    BY <1>13, <2>1
  <2>4. DataSeen(r, k, till)
    BY <1>4, <2>1, <2>2, <2>3, Zenon
  <2> QED BY <2>4
<1>16. CASE lo # hi /\ found # NotFound
  <2>1. at <= hi /\ found = till
    BY <1>6, <1>16
  <2>2. SuffixSeen(v, k)
    <3>1. v = MatchBoundarySuffix(body, till + width, hi, eof, boundary_padding_scanned,
                                  constraints.boundary_padding)
      BY <1>8, <2>1, Zenon
    <3>2. Find(body, lo, hi, FieldBoundary) = till
      BY <1>5, <2>1, Zenon
    <3> QED BY <1>1, <2>1, <3>1, <3>2, DataSuffix
  <2>3. till <= hi
    BY <1>2, <1>3, <2>1
  <2>4. CASE v.verdict \in {"TooLong", "Invalid"}
    <3>1. r.upto = lo /\ r.outcome \in {"BoundaryPaddingSizeExceeded", "IncompleteStream"}
      BY <1>12, <1>16, <2>4
    <3>2. ~LineAccepted(form, constraints, k + 1)
      BY <2>2, <2>4 DEF SuffixSeen
    <3>3. lo <= hi /\ r.outcome # "done"
      BY <1>2, <3>1
    <3>4. DataSeen(r, k, till)
      BY <1>4, <1>10, <3>1, <3>2, <3>3, Zenon
    <3> QED BY <3>4
  <2>5. CASE v.verdict = "Partial"
    <3>1. r.upto = till /\ r.outcome = IF till = lo THEN "none" ELSE "data"
      BY <1>12, <1>16, <2>1, <2>5
    <3>2. r.outcome # "done" /\ r.outcome \notin Errors /\ (r.outcome = "none" => till = lo)
      BY <1>13, <3>1
    <3>3. DataSeen(r, k, till)
      BY <1>4, <1>10, <2>3, <3>1, <3>2, Zenon
    <3> QED BY <3>3
  <2>6. CASE v.verdict = "Valid"
    <3>1. r.upto = till /\ r.outcome = "done"
      BY <1>12, <1>16, <2>1, <2>6
    <3>2. LineAccepted(form, constraints, k + 1)
      BY <2>2, <2>6 DEF SuffixSeen
    <3>3. r.outcome # "none" /\ r.outcome \notin Errors
      BY <1>13, <3>1
    <3>4. DataSeen(r, k, till)
      BY <1>4, <1>10, <2>3, <3>1, <3>2, <3>3, Zenon
    <3> QED BY <3>4
  <2> QED BY <2>2, <2>4, <2>5, <2>6 DEF SuffixSeen, Verdicts
<1> QED BY <1>14, <1>15, <1>16

\* How much of the field's data r leaves behind, and what that says of the part
DataSized(r, k, from, till) ==
  /\ from = DataAt(form, k) /\ from \in Nat /\ from <= lo
  /\ FieldSize(r) = SatAdd(0, r.upto - from) /\ FieldSize(r) \in Nat
  /\ curr_field_size_limit = LimitOf(constraints, NameOf(form, k))
  /\ r.outcome = "none" => FieldSize(r) = curr_field_size_counter
                           /\ FieldSize(r) <= curr_field_size_limit
  /\ FieldSize(r) > curr_field_size_limit => ~Accepted(form, constraints, Len(out) + 1)
  /\ FieldSize(r) <= curr_field_size_limit =>
       /\ ~Exceeds(r.upto - from, LimitOf(constraints, NameOf(form, k)))
       /\ r.outcome = "done" => PartAccepted(form, constraints, k)

LEMMA DataMeasured ==
  ASSUME Ready, ParserStep, stage = "ReadingFieldData",
         NEW r, NEW k, NEW till, DataSeen(r, k, till)
  PROVE  \E from : DataSized(r, k, from, till)
<1>1. /\ lo \in Nat /\ U64Max \in Nat /\ form \in FormType /\ DataFollows(Len(out))
  BY ParserFacts, ReadyFacts DEF PlaceFollows
<1>2. /\ k = Len(out) /\ k \in 1..PartCount(form) /\ till \in Nat /\ till = DataEnd(form, k)
      /\ r.outcome = "none" => r.upto = lo
      /\ r.outcome = "done" => r.upto = till /\ LineAccepted(form, constraints, k + 1)
  BY Zenon DEF DataSeen
<1>3. PICK upto \in Nat : upto = r.upto /\ upto \in lo..till
  BY <1>1 DEF DataSeen
<1>4. PICK from, len \in Nat : /\ from = DataAt(form, k) /\ len = DataLen(form.parts[k])
                               /\ till = from + len
  BY <1>1, <1>2, PartPositions
<1>5. DataFollows(k)
  BY <1>1, <1>2, Zenon
<1>6. from <= lo
  BY <1>4, <1>5 DEF DataFollows
<1>7. PICK limit \in Nat : /\ limit = LimitOf(constraints, NameOf(form, k)) /\ limit <= U64Max
                           /\ curr_field_size_limit = limit
  BY <1>5, ParserLimits DEF DataFollows
<1>8. PICK counted : /\ counted = curr_field_size_counter /\ counted = SatAdd(0, lo - from)
                     /\ counted <= limit
  BY <1>4, <1>5, <1>7, Zenon DEF DataFollows
<1>9. FieldSize(r) = SatAdd(counted, upto - lo)
  BY <1>3, <1>8, Zenon DEF FieldSize
<1>10. PICK size \in Nat : size = SatAdd(0, upto - from) /\ FieldSize(r) = size
  <2>1. SatAdd(SatAdd(0, lo - from), upto - lo) = SatAdd(0, upto - from)
    <3>1. PICK l \in Nat : l = lo
      BY <1>1
    <3>2. from <= l /\ l <= upto /\ U64Max \in Nat
      BY <1>1, <1>3, <1>6, <3>1
    <3>3. SatAdd(SatAdd(0, l - from), upto - l) = SatAdd(0, upto - from)
      BY <3>2, SatAddTwice
    <3> QED BY <3>1, <3>3, Zenon
  <2>2. upto - from \in Nat
    BY <1>1, <1>3, <1>6
  <2>3. SatAdd(0, upto - from) \in Nat
    BY <1>1, <2>2, SatAddLess
  <2> QED BY <1>8, <1>9, <2>1, <2>3, Zenon
<1>11. PICK n \in Nat : n = upto - from /\ n <= len
  BY <1>1, <1>3, <1>4, <1>6
<1>12. /\ size > limit => Exceeds(n, limit)
       /\ size <= limit => ~Exceeds(n, limit)
  <2>1. size = SatAdd(0, n)
    BY <1>10, <1>11, Zenon
  <2> QED BY <1>1, <1>7, <1>11, <2>1, SatCount
<1>13. DataAccepted(form, constraints, k) <=> ~Exceeds(len, limit)
  BY <1>4, <1>7, Zenon DEF DataAccepted
<1>14. size > limit => ~Accepted(form, constraints, Len(out) + 1)
  <2> SUFFICES ASSUME size > limit PROVE ~Accepted(form, constraints, Len(out) + 1)
    OBVIOUS
  <2>1. Exceeds(len, limit)
    BY <1>11, <1>12, ExceedsMore
  <2>2. ~PartAccepted(form, constraints, k)
    BY <1>13, <2>1 DEF PartAccepted
  <2>3. k \in 1..((Len(out) + 1) - 1)
    BY <1>2
  <2> QED BY <2>2, <2>3 DEF Accepted
<1>15. size <= limit /\ r.outcome = "done" => PartAccepted(form, constraints, k)
  <2> SUFFICES ASSUME size <= limit, r.outcome = "done"
               PROVE  PartAccepted(form, constraints, k)
    OBVIOUS
  <2>1. n = len
    BY <1>2, <1>3, <1>4, <1>11
  <2>2. ~Exceeds(len, limit)
    BY <1>12, <2>1
  <2> QED BY <1>2, <1>13, <2>2 DEF PartAccepted
<1>16. r.outcome = "none" => size = counted
  <2> SUFFICES ASSUME r.outcome = "none" PROVE size = counted
    OBVIOUS
  <2>1. upto = lo
    BY <1>2, <1>3
  <2> QED BY <1>8, <1>10, <2>1, Zenon
<1>17. DataSized(r, k, from, till)
  <2>1. from = DataAt(form, k) /\ from \in Nat /\ from <= lo
    BY <1>4, <1>6
  <2>2. FieldSize(r) = SatAdd(0, r.upto - from) /\ FieldSize(r) \in Nat
    BY <1>3, <1>10, Zenon
  <2>3. r.outcome = "none" => FieldSize(r) = curr_field_size_counter
                              /\ FieldSize(r) <= curr_field_size_limit
    BY <1>7, <1>8, <1>10, <1>16, Zenon
  <2>4. FieldSize(r) > curr_field_size_limit => ~Accepted(form, constraints, Len(out) + 1)
    BY <1>7, <1>10, <1>14, Zenon
  <2>5. FieldSize(r) <= curr_field_size_limit =>
          /\ ~Exceeds(r.upto - from, LimitOf(constraints, NameOf(form, k)))
          /\ r.outcome = "done" => PartAccepted(form, constraints, k)
    BY <1>3, <1>7, <1>10, <1>11, <1>12, <1>15, Zenon
  <2> QED BY <1>7, <2>1, <2>2, <2>3, <2>4, <2>5, Zenon DEF DataSized
<1> QED BY <1>17

\* Where the parser stands once r is counted and taken
LEMMA DataTaken ==
  ASSUME Ready, form' = form, ParserStep, stage = "ReadingFieldData",
         NEW r, NEW k, NEW till, DataSeen(r, k, till), NEW from, DataSized(r, k, from, till),
         TakeFieldData(r), FieldSize(r) <= curr_field_size_limit,
         curr_field_size_counter' = FieldSize(r),
         curr_field_size_limit' = curr_field_size_limit,
         stage' = (IF r.outcome = "done" THEN "ReadingBoundary" ELSE stage),
         Len(out') = Len(out)
  PROVE  PartsFollow' /\ PlaceFollows'
<1>1. /\ lo \in Nat /\ form \in FormType /\ PartsFollow /\ PlaceFollows
      /\ Len(out) >= 1 /\ transport_padding_counter = 0
      /\ UNCHANGED <<body, constraints, hi>>
  BY ParserFacts, ReadyFacts DEF PlaceFollows
<1>2. /\ k = Len(out) /\ k \in 1..PartCount(form) /\ till \in Nat /\ till = DataEnd(form, k)
      /\ r.outcome = "done" => r.upto = till
      /\ r.upto \in lo..till
  BY Zenon DEF DataSeen
<1>3. /\ from = DataAt(form, k) /\ from \in Nat /\ from <= lo
      /\ FieldSize(r) = SatAdd(0, r.upto - from)
      /\ curr_field_size_limit = LimitOf(constraints, NameOf(form, k))
      /\ r.outcome = "done" => PartAccepted(form, constraints, k)
  BY DEF DataSized
<1>4. transport_padding_counter' = 0
  BY <1>1 DEF TakeFieldData
<1>5. Len(out') = k
  BY <1>2
<1>6. \A j \in 1..k : j < k => PartAccepted(form, constraints, j)
  BY <1>1, <1>2 DEF PartsFollow
<1>7. PreambleFits(form, constraints)
  BY <1>1 DEF PartsFollow
<1>8. CASE r.outcome = "done"
  <2>1. stage' = "ReadingBoundary"
    BY <1>8
  <2>2. lo' = BoundaryAt(form, k + 1)
    <3>1. lo' = till + 2
      <4>1. Len(CRLF) = 2
        BY BytesOfMarks
      <4>2. lo' = r.upto + Len(CRLF)
        BY <1>8 DEF TakeFieldData
      <4> QED BY <1>2, <1>8, <4>1, <4>2
    <3> QED BY <1>1, <1>2, <3>1, PartPositions
  <2>3. PartsFollow'
    <3>1. \A j \in 1..k : PartAccepted(form, constraints, j)
      <4>1. \A j \in 1..k : j < k \/ j = k
        BY <1>2
      <4> QED BY <1>3, <1>6, <1>8, <4>1
    <3> QED BY <1>1, <1>5, <1>7, <3>1 DEF PartsFollow
  <2>4. PlaceFollows'
    BY <1>4, <1>5, <2>1, <2>2 DEF PlaceFollows
  <2> QED BY <2>3, <2>4
<1>9. CASE r.outcome # "done"
  <2>1. stage' = "ReadingFieldData" /\ lo' = r.upto
    BY <1>9 DEF TakeFieldData
  <2>2. PartsFollow'
    BY <1>1, <1>5, <1>6, <1>7, <2>1 DEF PartsFollow
  <2>3. DataFollows(k)'
    <3>1. lo' \in from..till
      BY <1>1, <1>2, <1>3, <2>1
    <3>2. curr_field_size_limit' = LimitOf(constraints', NameOf(form', k))
      BY <1>1, <1>3
    <3>3. curr_field_size_counter' = SatAdd(0, lo' - from)
      BY <1>3, <2>1, Zenon
    <3>4. curr_field_size_counter' <= curr_field_size_limit'
      BY Zenon
    <3>5. DataAt(form', k) = from /\ DataEnd(form', k) = till
      BY <1>2, <1>3
    <3> QED BY <3>1, <3>2, <3>3, <3>4, <3>5, Zenon DEF DataFollows
  <2>4. DataFollows(Len(out))'
    BY <1>5, <2>3, Zenon
  <2>5. Len(out') >= 1
    BY <1>1
  <2> QED BY <1>4, <2>1, <2>2, <2>4, <2>5 DEF PlaceFollows
<1> QED BY <1>8, <1>9

\* What is wrong with the data, or with the line behind it, is an error.
LEMMA DataRefused ==
  ASSUME Ready, form' = form, ParserStep, stage = "ReadingFieldData", out' = out,
         NEW r, NEW k, NEW till, DataSeen(r, k, till), NEW from, DataSized(r, k, from, till),
         \/ FieldSize(r) > curr_field_size_limit
         \/ r.outcome \in Errors,
         NEW error, Fail(error)
  PROVE  Implements
<1>1. FieldSize(r) > curr_field_size_limit => ~Accepted(form, constraints, Len(out) + 1)
  BY DEF DataSized
<1>2. r.outcome \in Errors => ~Accepted(form, constraints, Len(out) + 1)
  <2>1. r.outcome \in Errors => ~LineAccepted(form, constraints, Len(out) + 1)
    BY Zenon DEF DataSeen
  <2> QED BY <2>1, LineRefuted
<1> QED BY <1>1, <1>2, ParserFails

LEMMA SkipFieldDataImplements ==
  ASSUME Ready, form' = form, SkipFieldData
  PROVE  Implements
<1>1. /\ ParserStep /\ stage = "ReadingFieldData"
      /\ UNCHANGED <<out, next_field_idx, curr_field_size_limit>>
  BY DEF SkipFieldData, At, ParserStep, NextFieldStep, given
<1>2. PICK r : r = ReadFieldData
  OBVIOUS
<1>3. PICK k, till : DataSeen(r, k, till)
  BY <1>1, <1>2, DataRead
<1>4. PICK from : DataSized(r, k, from, till)
  BY <1>1, <1>3, DataMeasured
<1>5. TakeFieldData(r)
  BY <1>2 DEF SkipFieldData
<1>6. ASSUME FieldSize(r) <= curr_field_size_limit,
             curr_field_size_counter' = FieldSize(r),
             stage' = (IF r.outcome = "done" THEN "ReadingBoundary" ELSE stage),
             Proceed \/ Suspend
      PROVE  Implements
  <2>1. PartsFollow' /\ PlaceFollows'
    <3>1. Len(out') = Len(out)
      BY <1>1
    <3> QED BY <1>1, <1>3, <1>4, <1>5, <1>6, <3>1, DataTaken
  <2>2. errors' = errors
    BY <1>6, OutcomeKeepsErrors
  <2>3. stage' # "Eof" /\ stage # "Eof"
    BY <1>1, <1>6
  <2> QED BY <1>1, <2>1, <2>2, <2>3, ParserMoves
<1>7. \/ /\ FieldSize(r) > curr_field_size_limit
         /\ \E e : Fail(e)
      \/ /\ r.outcome = "done"
         /\ FieldSize(r) <= curr_field_size_limit
         /\ stage' = "ReadingBoundary" /\ curr_field_size_counter' = FieldSize(r) /\ Proceed
      \/ /\ r.outcome = "data"
         /\ FieldSize(r) <= curr_field_size_limit
         /\ stage' = stage /\ curr_field_size_counter' = FieldSize(r) /\ Suspend
      \/ /\ r.outcome = "none"
         /\ stage' = stage /\ curr_field_size_counter' = curr_field_size_counter /\ Suspend
      \/ /\ r.outcome \in Errors
         /\ \E e : Fail(e)
  BY <1>2, Zenon DEF SkipFieldData
<1>8. CASE FieldSize(r) > curr_field_size_limit /\ \E e : Fail(e)
  BY <1>1, <1>3, <1>4, <1>8, DataRefused
<1>9. CASE r.outcome \in Errors /\ \E e : Fail(e)
  BY <1>1, <1>3, <1>4, <1>9, DataRefused
<1>10. CASE /\ r.outcome = "done"
            /\ FieldSize(r) <= curr_field_size_limit
            /\ stage' = "ReadingBoundary" /\ curr_field_size_counter' = FieldSize(r) /\ Proceed
  BY <1>6, <1>10
<1>11. CASE /\ r.outcome = "data"
            /\ FieldSize(r) <= curr_field_size_limit
            /\ stage' = stage /\ curr_field_size_counter' = FieldSize(r) /\ Suspend
  BY <1>6, <1>11
<1>12. CASE /\ r.outcome = "none"
            /\ stage' = stage /\ curr_field_size_counter' = curr_field_size_counter /\ Suspend
  <2>1. FieldSize(r) = curr_field_size_counter /\ FieldSize(r) <= curr_field_size_limit
    BY <1>4, <1>12, Zenon DEF DataSized
  <2>2. r.outcome # "done"
    BY <1>12
  <2> QED BY <1>6, <1>12, <2>1, <2>2
<1> QED BY <1>7, <1>8, <1>9, <1>10, <1>11, <1>12

\* The entry of part k is extended, as ReadChunk does.
Given(k, upto, done) == out' = [out EXCEPT ![k].upto = upto, ![k].done = done]

LEMMA GivenExtended ==
  ASSUME out \in Seq(GivenType), NEW k \in 1..Len(out), NEW upto, NEW done,
         Given(k, upto, done)
  PROVE  /\ Len(out') = Len(out)
         /\ \A j \in 1..Len(out) : j # k => out'[j] = out[j]
         /\ out'[k].idx = out[k].idx /\ out'[k].name = out[k].name /\ out'[k].start = out[k].start
         /\ out'[k].upto = upto /\ out'[k].done = done
<1>1. out[k] \in GivenType /\ k \in DOMAIN out
  OBVIOUS
<1>2. /\ DOMAIN out' = DOMAIN out /\ Len(out') = Len(out)
      /\ \A j \in DOMAIN out : j # k => out'[j] = out[j]
      /\ out'[k] = [out[k] EXCEPT !.upto = upto, !.done = done]
  BY <1>1 DEF Given
<1>3. /\ out'[k].idx = out[k].idx /\ out'[k].name = out[k].name /\ out'[k].start = out[k].start
      /\ out'[k].upto = upto /\ out'[k].done = done
  BY <1>1, <1>2 DEF GivenType
<1> QED BY <1>2, <1>3

\* The data goes to the application as the data of the field that is open.
LEMMA ChunkDelivered ==
  ASSUME Ready, form' = form, ParserStep, stage = "ReadingFieldData", ~field.done,
         UNCHANGED <<errors, next_field_idx, curr_field_size_limit>>,
         NEW r, NEW k, NEW till, DataSeen(r, k, till), NEW from, DataSized(r, k, from, till),
         TakeFieldData(r), FieldSize(r) <= curr_field_size_limit,
         curr_field_size_counter' = FieldSize(r),
         stage' = (IF r.outcome = "done" THEN "ReadingBoundary" ELSE stage),
         NEW done \in BOOLEAN, done = (r.outcome = "done"),
         out' = [out EXCEPT ![Len(out)].upto = r.upto, ![Len(out)].done = done]
  PROVE  Implements
<1>1. /\ errors = 0 /\ InputFollows /\ FieldsFollow /\ PartsFollow /\ PlaceFollows
      /\ UNCHANGED <<body, constraints, hi, eof, sent, stream_size_counter>>
      /\ lo \in Nat /\ hi <= Len(body) /\ hi \in Nat
  BY ParserFacts
<1>2. /\ Unambiguous(form) /\ out \in Seq(GivenType) /\ form \in Forms /\ body = Encode(form)
      /\ FieldsOK
  BY ReadyFacts
<1>3. /\ k = Len(out) /\ k \in 1..PartCount(form) /\ till \in Nat /\ till = DataEnd(form, k)
      /\ r.outcome = "done" => r.upto = till /\ LineAccepted(form, constraints, k + 1)
      /\ r.upto \in lo..till /\ r.upto <= hi
  BY Zenon DEF DataSeen
<1>4. /\ from = DataAt(form, k) /\ from \in Nat /\ from <= lo
      /\ ~Exceeds(r.upto - from, LimitOf(constraints, NameOf(form, k)))
  BY DEF DataSized
<1>5. k \in 1..Len(out)
  BY <1>2, <1>3
<1>6. /\ ~out[k].done /\ lo = out[k].upto
  <2>1. DataFollows(k)
    BY <1>1, <1>3 DEF PlaceFollows
  <2>2. curr_field_size_counter <= curr_field_size_limit
    BY <2>1 DEF DataFollows
  <2> QED BY <1>2, <1>3, <2>2 DEF FieldsOK, OpenField
<1>7. GivenFollows(k)
  BY <1>1, <1>5 DEF FieldsFollow
<1>8. Delivering(k, r.upto, done)
  <2>1. r.upto \in DataAt(form, k)..DataEnd(form, k) /\ out[k].upto <= r.upto
        /\ r.upto <= Len(body)
    BY <1>1, <1>3, <1>4, <1>6
  <2>2. ~Exceeds(r.upto - DataAt(form, k), LimitOf(constraints, NameOf(form, k)))
    BY <1>4, Zenon
  <2>3. done => r.upto = DataEnd(form, k) /\ LineAccepted(form, constraints, k + 1)
    BY <1>3, Zenon
  <2>4. out' = [out EXCEPT ![k].upto = r.upto, ![k].done = done]
    BY <1>3, Zenon
  <2> QED BY <1>3, <1>5, <1>6, <1>7, <2>1, <2>2, <2>3, <2>4, Zenon DEF Delivering
<1>9. Abstract!DeliverData
  <2>1. stage # "Eof" /\ stage' # "Eof"
    OBVIOUS
  <2> QED BY <1>1, <1>2, <1>8, <2>1, AbstractDelivers
<1>10. /\ Len(out') = k /\ k \in Nat
       /\ \A j \in 1..k : j # k => out'[j] = out[j]
       /\ out'[k].idx = out[k].idx /\ out'[k].name = out[k].name /\ out'[k].start = out[k].start
       /\ out'[k].upto = r.upto /\ out'[k].done = done
  <2>1. out' = [out EXCEPT ![k].upto = r.upto, ![k].done = done]
    BY <1>3, Zenon
  <2>2. k \in Nat
    BY <1>5
  <2>3. /\ Len(out') = Len(out)
        /\ \A j \in 1..Len(out) : j # k => out'[j] = out[j]
        /\ out'[k].idx = out[k].idx /\ out'[k].name = out[k].name /\ out'[k].start = out[k].start
        /\ out'[k].upto = r.upto /\ out'[k].done = done
    <3>1. PICK upto, d : upto = r.upto /\ d = done
      OBVIOUS
    <3>2. Given(k, upto, d)
      BY <2>1, <3>1, Zenon DEF Given
    <3>3. out \in Seq(GivenType)
      BY <1>2
    <3>4. /\ Len(out') = Len(out)
          /\ \A j \in 1..Len(out) : j # k => out'[j] = out[j]
          /\ out'[k].idx = out[k].idx /\ out'[k].name = out[k].name
          /\ out'[k].start = out[k].start
          /\ out'[k].upto = upto /\ out'[k].done = d
      BY <1>5, <3>2, <3>3, GivenExtended
    <3> QED BY <3>1, <3>4, Zenon
  <2>4. Len(out) = k
    BY <1>3
  <2> QED BY <2>2, <2>3, <2>4, Zenon
<1>11. PartsFollow' /\ PlaceFollows'
  <2>1. Len(out') = Len(out)
    BY <1>3, <1>10
  <2> QED BY <2>1, DataTaken
<1>12. FieldsFollow'
  <2>1. GivenFollows(k)'
    <3>1. /\ out'[k].upto \in DataAt(form, k)..DataEnd(form, k)
          /\ out'[k].done => out'[k].upto = DataEnd(form, k)
      BY <1>8, <1>10, Zenon DEF Delivering
    <3> QED BY <1>7, <1>10, <3>1 DEF GivenFollows
  <2>2. ASSUME NEW j \in 1..k, j # k
        PROVE  GivenFollows(j)'
    <3>1. GivenFollows(j)
      BY <1>1, <1>3, <2>2 DEF FieldsFollow
    <3>2. out'[j] = out[j]
      BY <1>10, <2>2
    <3> QED BY <3>1, <3>2 DEF GivenFollows
  <2>3. \A j \in 1..k : GivenFollows(j)'
    BY <2>1, <2>2
  <2>4. next_field_idx' = k /\ k <= PartCount(form)
    BY <1>1, <1>3 DEF FieldsFollow
  <2> QED BY <1>10, <2>3, <2>4 DEF FieldsFollow
<1>13. InputFollows'
  BY <1>1 DEF InputFollows
<1>14. Follows'
  BY <1>1, <1>2, <1>11, <1>12, <1>13 DEF Follows
<1> QED BY <1>9, <1>14 DEF Implements, Abstract!FieldSequenceNext

LEMMA ReadChunkImplements ==
  ASSUME Ready, form' = form, ReadChunk
  PROVE  Implements
<1>1. /\ ParserStep /\ ~field.done /\ UNCHANGED <<next_field_idx, curr_field_size_limit>>
  BY DEF ReadChunk, ParserStep, ChunkStep
<1>2. stage = "ReadingFieldData"
  BY <1>1, ReadyFacts DEF IInv, FieldInData
<1>3. PICK r : r = ReadFieldData
  OBVIOUS
<1>4. PICK k, till : DataSeen(r, k, till)
  BY <1>1, <1>2, <1>3, DataRead
<1>5. PICK from : DataSized(r, k, from, till)
  BY <1>1, <1>2, <1>4, DataMeasured
<1>6. TakeFieldData(r)
  BY <1>3 DEF ReadChunk
<1>7. PICK done \in BOOLEAN : done = (r.outcome = "done")
  OBVIOUS
<1>8. \/ /\ FieldSize(r) > curr_field_size_limit /\ UNCHANGED given
         /\ \E e : Fail(e)
      \/ /\ FieldSize(r) <= curr_field_size_limit
         /\ stage' = (IF r.outcome = "done" THEN "ReadingBoundary" ELSE stage)
         /\ out' = [out EXCEPT ![Len(out)].upto = r.upto,
                               ![Len(out)].done = (r.outcome = "done")]
         /\ curr_field_size_counter' = FieldSize(r)
         /\ Return("chunk")
      \/ /\ r.outcome = "none" /\ UNCHANGED given
         /\ stage' = stage /\ curr_field_size_counter' = curr_field_size_counter /\ Suspend
      \/ /\ r.outcome \in Errors /\ UNCHANGED given
         /\ \E e : Fail(e)
  BY <1>3, Zenon DEF ReadChunk
<1>9. UNCHANGED given => out' = out
  BY DEF given
<1>10. CASE FieldSize(r) > curr_field_size_limit /\ UNCHANGED given /\ \E e : Fail(e)
  BY <1>1, <1>2, <1>4, <1>5, <1>9, <1>10, DataRefused
<1>11. CASE r.outcome \in Errors /\ UNCHANGED given /\ \E e : Fail(e)
  BY <1>1, <1>2, <1>4, <1>5, <1>9, <1>11, DataRefused
<1>12. CASE /\ FieldSize(r) <= curr_field_size_limit
            /\ stage' = (IF r.outcome = "done" THEN "ReadingBoundary" ELSE stage)
            /\ out' = [out EXCEPT ![Len(out)].upto = r.upto,
                                  ![Len(out)].done = (r.outcome = "done")]
            /\ curr_field_size_counter' = FieldSize(r)
            /\ Return("chunk")
  <2>1. errors' = errors
    BY <1>12 DEF Return
  <2>2. out' = [out EXCEPT ![Len(out)].upto = r.upto, ![Len(out)].done = done]
    BY <1>7, <1>12, Zenon
  <2> QED BY <1>1, <1>2, <1>4, <1>5, <1>6, <1>7, <1>12, <2>1, <2>2, ChunkDelivered
<1>13. CASE /\ r.outcome = "none" /\ UNCHANGED given
            /\ stage' = stage /\ curr_field_size_counter' = curr_field_size_counter /\ Suspend
  <2>1. FieldSize(r) = curr_field_size_counter /\ FieldSize(r) <= curr_field_size_limit
    BY <1>5, <1>13, Zenon DEF DataSized
  <2>2. r.outcome # "done" /\ Len(out') = Len(out)
    BY <1>9, <1>13
  <2>3. PartsFollow' /\ PlaceFollows'
    BY <1>1, <1>2, <1>4, <1>5, <1>6, <1>13, <2>1, <2>2, DataTaken
  <2>4. errors' = errors
    BY <1>13, OutcomeKeepsErrors
  <2> QED BY <1>1, <1>2, <1>9, <1>13, <2>3, <2>4, ParserMoves
<1> QED BY <1>8, <1>10, <1>11, <1>12, <1>13

-----------------------------------------------------------------------------
(* The whole specification *)

\* At the beginning nothing has been read and nothing been given out.
LEMMA UploadStarts ==
  ASSUME UploadInit, Unambiguous(form)
  PROVE  UploadInv /\ Follows /\ Abstract!Start
<1>1. Init /\ form \in Forms /\ body = Encode(form)
  BY DEF UploadInit
<1>2. UploadInv
  BY <1>1, SafeInit, FramingInit, SearchedInit DEF UploadInv
<1>3. /\ hi = 0 /\ lo = 0 /\ sent = 0 /\ eof = FALSE /\ stream_size_counter = 0
      /\ transport_padding_counter = 0 /\ constraints \in ConstraintSets
      /\ stage = "FindingFirstBoundary" /\ next_field_idx = 0 /\ errors = 0 /\ out = << >>
  BY <1>1 DEF Init, BufferInit
<1>4. InputFollows
  BY <1>3 DEF InputFollows
<1>5. Len(out) = 0 /\ (\A k \in 1..Len(out) : FALSE)
  BY <1>3
<1>6. 0 <= PartCount(form)
  <2>1. form \in FormType
    BY UnambiguousParts
  <2> QED BY <2>1, BoundariesInOrder
<1>7. FieldsFollow
  BY <1>3, <1>5, <1>6 DEF FieldsFollow
<1>8. PartsFollow
  BY <1>3, <1>5 DEF PartsFollow
<1>9. PlaceFollows
  BY <1>3, <1>5 DEF PlaceFollows
<1>10. Follows
  BY <1>1, <1>4, <1>7, <1>8, <1>9 DEF Follows
<1>11. Abstract!Start
  <2>1. Emitted = << >>
    BY <1>3 DEF Emitted
  <2>2. Verdict = "open"
    BY <1>3 DEF Verdict
  <2> QED BY <1>1, <1>3, <2>1, <2>2 DEF Abstract!Start
<1> QED BY <1>2, <1>10, <1>11

LEMMA ParserImplements ==
  ASSUME Ready, form' = form, ParserStep
  PROVE  Implements
<1>1. CASE LockFailure \/ AtEof \/ ReadExhausted
  BY <1>1, OutsideImplements
<1>2. CASE FindFirstBoundary
  BY <1>2, FirstBoundaryImplements
<1>3. CASE SkipFieldData
  BY <1>3, SkipFieldDataImplements
<1>4. CASE ReadBoundary
  BY <1>4, BoundaryImplements
<1>5. CASE DetermineBoundaryType
  BY <1>5, BoundaryTypeImplements
<1>6. CASE ReadTransportPadding
  BY <1>6, PaddingImplements
<1>7. CASE ReadFieldHeaders
  BY <1>7, FieldHeadersImplements
<1>8. CASE ReadChunk
  BY <1>8, ReadChunkImplements
<1> QED BY <1>1, <1>2, <1>3, <1>4, <1>5, <1>6, <1>7, <1>8
        DEF ParserStep, NextFieldStep, ChunkStep

LEMMA StepImplements ==
  ASSUME Ready, form' = form, Next
  PROVE  Implements
<1>1. CASE Application \/ Repoll \/ SourceWake
  BY <1>1, OutsideImplements
<1>2. CASE NextFieldStep \/ ChunkStep
  BY <1>2, ParserImplements DEF ParserStep
<1>3. CASE FillNext
  BY <1>3, FillImplements
<1> QED BY <1>1, <1>2, <1>3 DEF Next

\* A step that changes nothing changes nothing that is promised.
LEMMA StutterImplements ==
  ASSUME Ready, UNCHANGED uploadVars
  PROVE  Implements
<1>1. /\ form' = form
      /\ UNCHANGED <<rigid, out, next_field_idx, stage, lo, transport_padding_counter, curr, errors>>
      /\ UNCHANGED <<sent, hi, eof, stream_size_counter, body>>
      /\ UNCHANGED <<field, pc>>
  BY DEF uploadVars, vars, rigid, input, scan, parser, curr, caller, given
<1>2. hi \in Nat
  BY ReadyFacts, FramingTypes
<1>3. errors = 0 => Situation
  BY ReadyFacts
<1>4. errors = 0 => InputFollows'
  BY <1>1, <1>3 DEF Situation, InputFollows
<1>5. errors = 0 /\ stage = "Eof" => field' = NoField /\ pc' \in {"idle", "parse"}
  BY <1>1, <1>3 DEF Situation, PlaceFollows
<1>6. hi' \in Nat /\ hi' >= hi
  BY <1>1, <1>2
<1> QED BY <1>1, <1>4, <1>5, <1>6, QuietImplements

\* Both together are kept by every step, and every step is one of FieldSequence
\* or none.
LEMMA UploadStep ==
  ASSUME MaxErrors = 0, \A f \in Forms : Unambiguous(f),
         UploadInv, Follows, [UploadNext]_uploadVars
  PROVE  UploadInv' /\ Follows' /\ [Abstract!FieldSequenceNext]_(Abstract!abstractVars)
<1>1. Ready
  <2>1. Unambiguous(form)
    BY DEF Follows
  <2> QED BY <2>1 DEF Ready
<1>2. [Next]_vars
  BY DEF UploadNext, uploadVars
<1>3. UploadInv'
  BY <1>2, SafeStep, FramingStep, SearchedStep DEF UploadInv, SafeInv
<1>4. CASE UploadNext
  BY <1>1, <1>3, <1>4, StepImplements DEF UploadNext, Implements
<1>5. CASE UNCHANGED uploadVars
  BY <1>1, <1>3, <1>5, StutterImplements DEF Implements
<1> QED BY <1>4, <1>5

LEMMA UploadFollows ==
  ASSUME MaxErrors = 0, \A f \in Forms : Unambiguous(f)
  PROVE  UploadSpec => [](UploadInv /\ Follows)
<1>1. UploadInit => UploadInv /\ Follows
  BY UploadStarts DEF UploadInit
<1> QED BY <1>1, UploadStep, PTL DEF UploadSpec

\* The parser gives an application the fields of the form it is sent, each
\* with its name and the data the form has for it, and nothing else; it reports
\* the end when the whole of the form has been given out, and an error when the
\* form, or what has arrived of it, breaks a limit or a rule of the encoding,
\* but not before all that precedes the flaw.  How the body is cut into chunks,
\* what is read of a field and what is skipped, and when a call is repeated or
\* given up have no part in it.  This holds for every form that can be read in
\* one way only, for all limits and for an application that stops at an error.
THEOREM ParserImplementsFieldSequence ==
  ASSUME MaxErrors = 0, \A f \in Forms : Unambiguous(f)
  PROVE  UploadSpec => ImplementsFieldSequence
<1>1. UploadInit => UploadInv /\ Follows /\ Abstract!Start
  BY UploadStarts DEF UploadInit
<1> QED BY <1>1, UploadStep, PTL
        DEF UploadSpec, ImplementsFieldSequence, Abstract!FieldSequenceSpec

-----------------------------------------------------------------------------
(* What follows from the refinement *)

\* A body that is reported complete had no more parts than max_fields allows,
\* as README.md says.  The form of the run upload_headerless, which breaks this,
\* has a part without header lines and can be read in two ways; among the forms
\* that can be read in one way only there is none.
THEOREM FieldCountHolds ==
  ASSUME MaxErrors = 0, \A f \in Forms : Unambiguous(f)
  PROVE  UploadSpec => []FieldCountEnforced
<1>1. UploadInv /\ Follows => FieldCountEnforced
  <2> SUFFICES ASSUME UploadInv, Follows, Verdict = "end"
               PROVE  PartCount(form) <= constraints.max_fields
    BY DEF FieldCountEnforced, PartCount
  <2>1. errors \in Nat /\ stage = "Eof"
    BY DEF UploadInv, SafeInv, IInv, TypeOK, Verdict
  <2>2. errors = 0
    BY <2>1 DEF Verdict
  <2>3. next_field_idx = Len(out) /\ Closing(form, Len(out) + 1)
    BY <2>1, <2>2 DEF Follows, FieldsFollow, PlaceFollows
  <2>4. Len(out) \in Nat /\ PartCount(form) \in Nat
    <3>1. form \in FormType
      BY UnambiguousParts DEF Follows
    <3> QED BY <3>1 DEF FormType, PartCount, UploadInv, SafeInv, IInv, TypeOK
  <2>5. Len(out) = PartCount(form)
    BY <2>3, <2>4 DEF Closing
  <2> QED BY <2>3, <2>5 DEF UploadInv, SafeInv, FieldsOK, LimitsHold
<1> QED BY <1>1, UploadFollows, PTL

\* What has been given out is the beginning of the form, and the data of a field
\* that is complete is the data of its part, also after an error.
GivenAsSent ==
  /\ Len(Emitted) <= PartCount(form)
  /\ \A k \in 1..Len(Emitted) :
       /\ Emitted[k].idx = k - 1 /\ Emitted[k].name = NamedBy(form.parts[k].lines)
       /\ Emitted[k].done => Emitted[k].data = form.parts[k].data

LEMMA FollowsAsSent ==
  ASSUME UploadInv, Follows, Unambiguous(form), errors = 0
  PROVE  GivenAsSent
<1>1. /\ out \in Seq(GivenType) /\ body = Encode(form) /\ FieldsFollow
      /\ Len(Encode(form)) \in Nat
  <2>1. body \in Seq(Bytes) /\ out \in Seq(GivenType)
    BY BodiesAssumption DEF UploadInv, SafeInv, IInv, TypeOK, BufferTypeOK
  <2> QED BY <2>1 DEF Follows
<1>2. /\ Len(Emitted) = Len(out) /\ Len(out) \in Nat
      /\ \A k \in 1..Len(out) :
           Emitted[k] = [ idx |-> out[k].idx, name |-> out[k].name, done |-> out[k].done,
                          data |-> SubSeq(body, out[k].start + 1, out[k].upto) ]
  BY <1>1, EmittedShape
<1>3. ASSUME NEW k \in 1..Len(out)
      PROVE  /\ Emitted[k].idx = k - 1 /\ Emitted[k].name = NamedBy(form.parts[k].lines)
             /\ Emitted[k].done => Emitted[k].data = form.parts[k].data
  <2>1. GivenFollows(k) /\ Len(out) <= PartCount(form)
    BY <1>1, Zenon DEF FieldsFollow
  <2>2. k \in 1..PartCount(form)
    <3>1. PartCount(form) \in Nat
      BY UnambiguousParts DEF FormType, PartCount
    <3> QED BY <1>2, <2>1, <3>1
  <2>3. Emitted[k].idx = k - 1 /\ Emitted[k].name = NamedBy(form.parts[k].lines)
    <3>1. Emitted[k] = [ idx |-> out[k].idx, name |-> out[k].name, done |-> out[k].done,
                         data |-> SubSeq(body, out[k].start + 1, out[k].upto) ]
      BY <1>2, Zenon
    <3>2. Emitted[k].idx = out[k].idx /\ Emitted[k].name = out[k].name
      BY <3>1, SMT
    <3> QED BY <2>1, <3>2, Zenon DEF GivenFollows, NameOf
  <2>4. ASSUME Emitted[k].done
        PROVE  Emitted[k].data = form.parts[k].data
    <3>1. Emitted[k].done = out[k].done
          /\ Emitted[k].data = SubSeq(body, out[k].start + 1, out[k].upto)
      BY <1>1, EmittedFields
    <3>2. PICK upto : upto = out[k].upto
      OBVIOUS
    <3>3. /\ out[k].start = DataAt(form, k) /\ upto = DataEnd(form, k)
          /\ upto \in DataAt(form, k)..DataEnd(form, k)
      BY <2>1, <2>4, <3>1, <3>2 DEF GivenFollows
    <3>4. upto <= Len(Encode(form))
      <4>1. out[k] \in GivenType
        BY <1>1
      <4> QED BY <1>1, <3>2, <4>1 DEF GivenType, Positions
    <3>5. SubSeq(Encode(form), DataAt(form, k) + 1, upto)
            = SubSeq(form.parts[k].data, 1, Len(form.parts[k].data))
      BY <2>2, <3>3, <3>4, DataShown
    <3>6. form.parts[k].data \in Seq(Bytes)
      <4>1. form.parts[k] \in PartType
        BY <2>2, UnambiguousParts
      <4> QED BY <4>1 DEF PartType
    <3>7. SubSeq(form.parts[k].data, 1, Len(form.parts[k].data)) = form.parts[k].data
      BY <3>6, SubSeqFull
    <3> QED BY <1>1, <3>1, <3>2, <3>3, <3>5, <3>7
  <2> QED BY <2>3, <2>4
<1> QED BY <1>1, <1>2, <1>3 DEF GivenAsSent, FieldsFollow

\* An application that reads a field to its end has got the data of the part,
\* byte for byte, and its name; no part is left out and none invented.
THEOREM FieldsArriveAsSent ==
  ASSUME MaxErrors = 0, \A f \in Forms : Unambiguous(f)
  PROVE  UploadSpec => []GivenAsSent
<1> DEFINE I == UploadInv /\ Follows
<1>1. UploadInit => I /\ errors = 0
  BY UploadStarts DEF UploadInit, Init
<1>2. I /\ errors = 0 => GivenAsSent
  BY FollowsAsSent DEF Follows
<1>3. I /\ GivenAsSent /\ [UploadNext]_uploadVars => I' /\ (GivenAsSent' \/ (errors = 0)')
  <2> SUFFICES ASSUME I, GivenAsSent, [UploadNext]_uploadVars
               PROVE  I' /\ (GivenAsSent' \/ errors' = 0)
    OBVIOUS
  <2>1. UploadInv' /\ Follows' /\ [Abstract!FieldSequenceNext]_(Abstract!abstractVars)
    BY UploadStep
  <2>2. ASSUME errors' # 0
        PROVE  GivenAsSent'
    <3>1. Verdict' = "failed"
      <4>1. errors' \in Nat
        BY <2>1 DEF UploadInv, SafeInv, IInv, TypeOK
      <4> QED BY <2>2, <4>1 DEF Verdict
    <3>2. Emitted' = Emitted /\ form' = form
      BY <2>1, <3>1 DEF Abstract!FieldSequenceNext, Abstract!OpenField, Abstract!DeliverData,
                        Abstract!ReportEnd, Abstract!ReportFailure, Abstract!abstractVars
    <3> QED BY <3>2 DEF GivenAsSent, PartCount
  <2> QED BY <2>1, <2>2
<1> QED BY <1>1, <1>2, <1>3, PTL DEF UploadSpec
=============================================================================
