--------------------------- MODULE MultipartProofs ---------------------------
(***************************************************************************)
(* What holds of the parser for every boundary, body, set of limits,       *)
(* chunking and schedule, and for an application that goes on after any    *)
(* number of errors.                                                       *)
(***************************************************************************)
EXTENDS Multipart, FormBodyProofs

LEMMA BoundaryLengths ==
  /\ FieldBoundary \in Seq(Bytes) /\ BoundaryBytes \in Seq(Bytes)
  /\ Len(FieldBoundary) \in Nat /\ Len(BoundaryBytes) \in Nat
  /\ Len(BoundaryBytes) >= 2 /\ Len(FieldBoundary) = Len(BoundaryBytes) + 2
  /\ Len(CRLF) = 2 /\ Len(BOUNDARY_EXT) = 2 /\ Len(CRLF_CRLF) = 4
<1>1. /\ CRLF \in Seq(Bytes) /\ BOUNDARY_EXT \in Seq(Bytes)
      /\ Len(CRLF) = 2 /\ Len(BOUNDARY_EXT) = 2 /\ Len(CRLF_CRLF) = 4
  BY BytesAssumption DEF CRLF, BOUNDARY_EXT, CRLF_CRLF
<1>2. /\ BoundaryBytes \in Seq(Bytes)
      /\ Len(BoundaryBytes) = Len(BOUNDARY_EXT) + Len(Boundary)
  BY <1>1, BoundaryAssumption, ConcatProperties DEF BoundaryBytes
<1>3. /\ FieldBoundary \in Seq(Bytes)
      /\ Len(FieldBoundary) = Len(CRLF) + Len(BoundaryBytes)
  BY <1>1, <1>2, ConcatProperties DEF FieldBoundary
<1> QED BY <1>1, <1>2, <1>3, BoundaryAssumption

LEMMA ConstraintTypes ==
  ASSUME constraints \in ConstraintSets
  PROVE  /\ constraints.whole_stream \in U64 /\ constraints.preamble \in U64
         /\ constraints.per_field \in U64 /\ constraints.headers \in U64
         /\ constraints.boundary_padding \in U64
         /\ constraints.max_fields \in Usize
         /\ \A name : ExtractSizeLimitFor(name) \in U64
<1>1. constraints \in ConstraintType
  BY ConstraintsAssumption
<1>2. PICK N \in SUBSET Names : constraints.field_map \in [N -> U64]
  BY <1>1 DEF ConstraintType
<1>3. constraints.per_field \in U64
  BY <1>1 DEF ConstraintType
<1>4. \A name : ExtractSizeLimitFor(name) \in U64
  BY <1>2, <1>3 DEF ExtractSizeLimitFor
<1> QED BY <1>1, <1>4 DEF ConstraintType

-----------------------------------------------------------------------------
(* Reading field data *)

RfdErrors == {"IncompleteFieldData", "IncompleteStream", "BoundaryPaddingSizeExceeded"}

\* read_field_data returns data that holds no boundary, ends it exactly at one
\* when it says so, keeps what it remembers of the padding in the buffer, and
\* never waits once the input has ended.
LEMMA ReadFieldDataProperties ==
  ASSUME BufferTypeOK, PaddingCacheSound,
         NEW r, r = ReadFieldData
  PROVE  /\ r.outcome \in {"data", "done", "none"} \union RfdErrors
         /\ r.upto \in lo..hi
         /\ r.scanned \in Nat
         /\ r.outcome = "done" => /\ r.scanned = 0
                                  /\ r.upto + Len(FieldBoundary) <= hi
                                  /\ Matches(body, r.upto, FieldBoundary)
         /\ r.outcome \notin {"data", "done"} => r.upto = lo
         /\ r.outcome # "done" /\ r.scanned > 0 =>
              LET at == Find(body, r.upto, hi, FieldBoundary)
              IN  /\ at # NotFound
                  /\ PaddingScanned(body, at + Len(FieldBoundary), hi, r.scanned)
         /\ r.outcome \in {"data", "done"} =>
              \A at \in lo..(r.upto - 1) :
                at + Len(FieldBoundary) <= Len(body) => ~Matches(body, at, FieldBoundary)
         /\ eof => r.outcome \notin {"none", "data"}
<1> DEFINE at      == Find(body, lo, hi, FieldBoundary)
           p       == PartialSuffixLen(body, lo, hi, FieldBoundary)
           scanned == boundary_padding_scanned
<1> USE BoundaryLengths
<1>1. /\ lo \in Nat /\ hi \in Nat /\ lo <= hi /\ hi <= Len(body) /\ Len(body) \in Nat
      /\ eof \in BOOLEAN /\ scanned \in Nat /\ constraints.boundary_padding \in Nat
  <2>1. Len(body) \in Nat
    BY BodiesAssumption DEF BufferTypeOK
  <2> QED BY <2>1, ConstraintTypes, WidthAssumption DEF BufferTypeOK, U64
<1>2. \/ at = NotFound /\ Occurrences(body, lo, hi, FieldBoundary) = {}
      \/ /\ at # NotFound /\ at \in Occurrences(body, lo, hi, FieldBoundary)
         /\ \A j \in Occurrences(body, lo, hi, FieldBoundary) : at <= j
  BY <1>1, FindIsFirst
<1>3. CASE lo = hi \/ (at = NotFound /\ eof)
  <2>1. r = [outcome |-> IF eof THEN "IncompleteFieldData" ELSE "none",
             upto |-> lo, scanned |-> scanned]
    BY <1>3 DEF ReadFieldData
  <2>2. at = NotFound
    BY <1>1, <1>2, <1>3 DEF Occurrences
  <2>3. scanned = 0
    BY <1>1, <2>2 DEF PaddingCacheSound
  <2> QED BY <1>1, <2>1, <2>3 DEF RfdErrors
<1>4. CASE lo < hi /\ at = NotFound /\ ~eof
  <2>1. /\ p \in PartialSuffixes(body, lo, hi, FieldBoundary)
        /\ \A m \in PartialSuffixes(body, lo, hi, FieldBoundary) : m <= p
    BY <1>1, PartialSuffixIsLongest
  <2>2. p \in 0..(hi - lo)
    BY <1>1, <2>1 DEF PartialSuffixes
  <2>3. r = [outcome |-> IF hi - p = lo THEN "none" ELSE "data",
             upto |-> hi - p, scanned |-> scanned]
    BY <1>1, <1>4 DEF ReadFieldData
  <2>4. scanned = 0
    BY <1>1, <1>4 DEF PaddingCacheSound
  <2>5. ASSUME NEW j \in lo..(hi - p - 1), j + Len(FieldBoundary) <= Len(body),
               Matches(body, j, FieldBoundary)
        PROVE  FALSE
    <3>1. CASE j + Len(FieldBoundary) <= hi
      <4>1. j \in lo..(hi - Len(FieldBoundary))
        BY <1>1, <2>2, <3>1
      <4>2. j \in Occurrences(body, lo, hi, FieldBoundary)
        BY <2>5, <4>1 DEF Occurrences
      <4> QED BY <1>2, <1>4, <4>2
    <3>2. CASE j + Len(FieldBoundary) > hi
      <4> DEFINE m == hi - j
      <4>1. m \in 1..(Len(FieldBoundary) - 1) /\ m <= hi - lo /\ m > p /\ hi - m = j
        BY <1>1, <2>2, <3>2
      <4>2. /\ Len(SubSeq(FieldBoundary, 1, m)) = m
            /\ \A k \in 1..m : SubSeq(FieldBoundary, 1, m)[k] = FieldBoundary[k]
        BY <4>1
      <4>3. Matches(body, j, SubSeq(FieldBoundary, 1, m))
        BY <2>5, <4>1, <4>2 DEF Matches
      <4>4. m \in PartialSuffixes(body, lo, hi, FieldBoundary)
        BY <4>1, <4>3 DEF PartialSuffixes
      <4> QED BY <2>1, <2>2, <4>1, <4>4
    <3> QED BY <1>1, <3>1, <3>2
  <2> QED BY <1>1, <1>4, <2>2, <2>3, <2>4, <2>5 DEF RfdErrors
<1>5. CASE lo < hi /\ at # NotFound
  <2> DEFINE from == at + Len(FieldBoundary)
  <2>1. PICK m : m = MatchBoundarySuffix(body, from, hi, eof, scanned,
                                         constraints.boundary_padding)
    OBVIOUS
  <2>2. /\ at \in lo..hi /\ from \in Nat /\ from <= hi
        /\ Matches(body, at, FieldBoundary)
    BY <1>1, <1>2, <1>5 DEF Occurrences
  <2>3. scanned > 0 => PaddingScanned(body, from, hi, scanned)
    BY <1>5 DEF PaddingCacheSound
  <2>4. /\ m.verdict \in Verdicts
        /\ m.scanned \in Nat
        /\ m.scanned > 0 => PaddingScanned(body, from, hi, m.scanned)
        /\ eof => m.verdict # "Partial"
    <3> HIDE DEF from, scanned
    <3> QED BY <1>1, <2>1, <2>2, <2>3, MatchSuffixProperties
  <2>5. Find(body, at, hi, FieldBoundary) = at
    <3>1. at \in Occurrences(body, at, hi, FieldBoundary)
      BY <1>2, <1>5, <2>2 DEF Occurrences
    <3>2. \A j \in Occurrences(body, at, hi, FieldBoundary) : at <= j
      BY <1>1, <2>2 DEF Occurrences
    <3>3. PICK f : f = Find(body, at, hi, FieldBoundary)
      OBVIOUS
    <3>4. f \in Occurrences(body, at, hi, FieldBoundary) /\ f <= at
      <4> HIDE DEF at
      <4> QED BY <1>1, <2>2, <3>1, <3>3, FindIsFirst
    <3>5. f \in Int
      BY <3>4 DEF Occurrences
    <3> QED BY <2>2, <3>2, <3>3, <3>4, <3>5
  <2>6. \A j \in lo..(at - 1) : j + Len(FieldBoundary) <= Len(body) =>
                                  ~Matches(body, j, FieldBoundary)
    BY <1>1, <1>2, <1>5, <2>2 DEF Occurrences
  <2>7. CASE m.verdict = "TooLong"
    <3>1. r = [outcome |-> "BoundaryPaddingSizeExceeded", upto |-> lo, scanned |-> m.scanned]
      BY <1>1, <1>5, <2>1, <2>7 DEF ReadFieldData
    <3> QED BY <1>1, <1>5, <2>4, <3>1 DEF RfdErrors
  <2>8. CASE m.verdict = "Invalid"
    <3>1. r = [outcome |-> "IncompleteStream", upto |-> lo, scanned |-> m.scanned]
      BY <1>1, <1>5, <2>1, <2>8 DEF ReadFieldData
    <3> QED BY <1>1, <1>5, <2>4, <3>1 DEF RfdErrors
  <2>9. CASE m.verdict = "Partial"
    <3>1. r = [outcome |-> IF at = lo THEN "none" ELSE "data", upto |-> at,
               scanned |-> m.scanned]
      BY <1>1, <1>5, <2>1, <2>9 DEF ReadFieldData
    <3> QED BY <1>1, <1>5, <2>2, <2>4, <2>5, <2>6, <2>9, <3>1
  <2>10. CASE m.verdict = "Valid"
    <3>1. r = [outcome |-> "done", upto |-> at, scanned |-> 0]
      BY <1>1, <1>5, <2>1, <2>10 DEF ReadFieldData
    <3> QED BY <1>1, <1>5, <2>2, <2>6, <3>1
  <2> QED BY <2>4, <2>7, <2>8, <2>9, <2>10 DEF Verdicts
<1> QED BY <1>1, <1>3, <1>4, <1>5

-----------------------------------------------------------------------------
(* The inductive invariant.  The types alone are not inductive: errors are  *)
(* bounded because no call starts after too many of them, the budget is not *)
(* used up while the source is polled, and what is remembered of the        *)
(* padding belongs to the boundary the field data ends at.                  *)

ErrorsCounted == pc # "idle" => errors <= MaxErrors

BudgetLeft == pc \in {"parse", "fill"} => budget >= 1

FieldInData == ~field.done => stage = "ReadingFieldData"

PaddingRemembered == boundary_padding_scanned > 0 => stage = "ReadingFieldData"

IInv == /\ TypeOK /\ ErrorsCounted /\ BudgetLeft /\ FieldInData
        /\ PaddingRemembered /\ PaddingCacheSound

\* The buffer's part of the invariant reads the buffer's variables only.
LEMMA BufferUnchanged ==
  ASSUME BufferTypeOK, UNCHANGED <<rigid, input, scan, task>>
  PROVE  BufferTypeOK'
BY DEF BufferTypeOK, rigid, input, scan, task, BufLen

LEMMA PaddingUnchanged ==
  ASSUME PaddingCacheSound, UNCHANGED <<body, lo, hi, boundary_padding_scanned>>
  PROVE  PaddingCacheSound'
BY DEF PaddingCacheSound

LEMMA NoFieldType == NoField \in FieldType
BY DEF NoField, FieldType

LEMMA TypeInit == Init => IInv
<1> SUFFICES ASSUME Init PROVE IInv
  OBVIOUS
<1>1. BufferTypeOK
  <2>1. Len(body) \in Nat
    BY BodiesAssumption DEF Init, BufferInit
  <2>2. /\ body \in Bodies /\ constraints \in ConstraintSets
        /\ eof \in BOOLEAN /\ waker \in BOOLEAN /\ woken \in BOOLEAN
    BY Zenon DEF Init, BufferInit
  <2>3. budget \in 0..PollBudget
    BY SourceAssumption DEF Init, BufferInit
  <2> QED BY <2>1, <2>2, <2>3, WidthAssumption
          DEF Init, BufferInit, BufferTypeOK, BufLen, U64
<1>2. TypeOK
  <2>1. curr_field_size_limit \in U64
    BY ConstraintTypes DEF Init, BufferInit
  <2>2. field \in FieldType /\ out \in Seq(GivenType) /\ ret \in Results
    BY NoFieldType DEF Init, Results
  <2> QED BY <1>1, <2>1, <2>2, WidthAssumption, ErrorsAssumption
          DEF Init, TypeOK, Stages, Usize, U64
<1> QED BY <1>2, ErrorsAssumption
        DEF IInv, Init, BufferInit, ErrorsCounted, BudgetLeft, FieldInData, NoField,
            PaddingRemembered, PaddingCacheSound

-----------------------------------------------------------------------------
(* The application and the task: nothing of the buffer or the parser moves  *)

LEMMA TaskSteps ==
  ASSUME IInv,
         CallNextField \/ CallChunk \/ DropField \/ Cancel \/ Stopped \/ Repoll
           \/ LockFailure \/ AtEof \/ ReadExhausted \/ SourceWake
  PROVE  IInv'
<1> USE DEF IInv
<1>1. UNCHANGED <<rigid, input, scan, parser, curr, out>>
  BY DEF CallNextField, CallChunk, DropField, Cancel, Stopped, Repoll, LockFailure, AtEof,
         ReadExhausted, SourceWake, vars, given
<1>2. BufferTypeOK'
  <2>1. budget' \in {budget, PollBudget}
    BY DEF CallNextField, CallChunk, DropField, Cancel, Stopped, Repoll, LockFailure, AtEof,
           ReadExhausted, SourceWake, BeginPoll, vars, task
  <2>2. waker' \in {waker, FALSE} /\ woken' \in {woken, TRUE, FALSE}
    BY DEF CallNextField, CallChunk, DropField, Cancel, Stopped, Repoll, LockFailure, AtEof,
           ReadExhausted, SourceWake, BeginPoll, vars, task
  <2>3. waker' \in BOOLEAN /\ woken' \in BOOLEAN
    BY <2>2, Zenon DEF TypeOK, BufferTypeOK
  <2>4. budget' \in 0..PollBudget
    BY <2>1, SourceAssumption DEF TypeOK, BufferTypeOK
  <2> QED BY <1>1, <2>3, <2>4 DEF TypeOK, BufferTypeOK, BufLen, rigid, input, scan
<1>3. field' = field \/ field' = NoField
  BY DEF CallNextField, CallChunk, DropField, Cancel, Stopped, Repoll, LockFailure, AtEof,
         ReadExhausted, SourceWake, vars, given
<1>4. /\ call' \in {"none", "next_field", "chunk"}
      /\ pc' \in {"idle", "parse", "fill", "reparse", "asleep"}
      /\ ret' \in Results
      /\ errors' = errors
  BY DEF TypeOK, CallNextField, CallChunk, DropField, Cancel, Stopped, Repoll, LockFailure,
         AtEof, ReadExhausted, SourceWake, BeginPoll, Return, Results, vars, caller
<1>5. TypeOK'
  <2>1. field' \in FieldType
    BY <1>3, NoFieldType DEF TypeOK
  <2>2. out' \in Seq(GivenType)'
    BY <1>1 DEF TypeOK, GivenType, Positions, rigid
  <2> QED BY <1>1, <1>2, <1>4, <2>1, <2>2 DEF TypeOK, parser, curr
<1>6. ErrorsCounted' /\ BudgetLeft'
  <2>1. \/ pc' \in {pc, "idle"} /\ budget' = budget
        \/ pc' = "parse" /\ budget' = PollBudget
    BY DEF CallNextField, CallChunk, DropField, Cancel, Stopped, Repoll, LockFailure, AtEof,
           ReadExhausted, SourceWake, BeginPoll, Return, vars, caller, task
  <2>2. pc' # "idle" => pc # "idle" \/ MayContinue
    BY DEF CallNextField, CallChunk, DropField, Cancel, Stopped, Repoll, LockFailure, AtEof,
           ReadExhausted, SourceWake, BeginPoll, Return, vars, caller
  <2> QED BY <1>4, <2>1, <2>2, SourceAssumption DEF ErrorsCounted, BudgetLeft, MayContinue
<1>7. FieldInData' /\ PaddingRemembered'
  BY <1>1, <1>3 DEF FieldInData, PaddingRemembered, parser, scan, NoField
<1>8. PaddingCacheSound'
  BY <1>1, PaddingUnchanged DEF rigid, input, scan
<1> QED BY <1>5, <1>6, <1>7, <1>8

-----------------------------------------------------------------------------
(* The parser's steps *)

CallerOK == /\ call \in {"none", "next_field", "chunk"}
            /\ pc \in {"idle", "parse", "fill", "reparse", "asleep"}
            /\ ret \in Results
            /\ errors \in 0..(MaxErrors + 1)
            /\ ErrorsCounted /\ BudgetLeft

Outcome == \/ Proceed \/ Suspend
           \/ \E result \in Results : Return(result)
           \/ \E error \in Errors : Fail(error)

\* However a step ends, the call stays well-typed and errors stay counted.
LEMMA CallerTypes ==
  ASSUME IInv, pc \in {"parse", "reparse"}, Outcome, UNCHANGED budget
  PROVE  CallerOK'
<1> USE DEF IInv, TypeOK, ErrorsCounted, BudgetLeft, CallerOK
<1>1. CASE Proceed
  BY <1>1 DEF Proceed, caller
<1>2. CASE Suspend
  <2>1. \/ pc' \in {"asleep", "reparse"}
        \/ pc = "parse" /\ pc' = "fill"
    BY <1>2 DEF Suspend
  <2>2. UNCHANGED <<call, ret, errors>>
    BY <1>2 DEF Suspend
  <2> QED BY <2>1, <2>2
<1>3. CASE \E result \in Results : Return(result)
  BY <1>3, ErrorsAssumption DEF Return
<1>4. CASE \E error \in Errors : Fail(error)
  <2>1. PICK error \in Errors : Fail(error)
    BY <1>4
  <2>2. ret' \in Results
    BY <2>1 DEF Fail, Results
  <2> QED BY <2>1, <2>2, ErrorsAssumption DEF Fail
<1> QED BY <1>1, <1>2, <1>3, <1>4 DEF Outcome

LEMMA FailOrSuspendOutcome ==
  ASSUME NEW exceeded, NEW error, exceeded => error \in Errors,
         FailOrSuspend(exceeded, error)
  PROVE  Outcome
BY DEF FailOrSuspend, Outcome, Errors

\* The invariant holds again when each part of it has been looked at.
LEMMA Reassembled ==
  ASSUME CallerOK', BufferTypeOK', UNCHANGED rigid,
         stage' \in Stages, next_field_idx' \in Usize,
         curr_field_name' \in Names \union {NoName},
         curr_field_size_limit' \in U64, curr_field_size_counter' \in U64,
         field' \in FieldType, out' \in Seq(GivenType),
         FieldInData', PaddingRemembered', PaddingCacheSound'
  PROVE  IInv'
<1>1. out' \in Seq(GivenType)'
  BY DEF GivenType, Positions, rigid
<1> QED BY <1>1 DEF IInv, TypeOK, CallerOK

\* A stage that moves on in the buffer leaves its types in order.
LEMMA AdvanceTypes ==
  ASSUME BufferTypeOK, NEW to \in lo..hi, Advance(to), transport_padding_counter' \in U64,
         UNCHANGED <<rigid, input, task>>
  PROVE  BufferTypeOK'
<1>1. Len(body) \in Nat
  BY BodiesAssumption DEF BufferTypeOK
<1> QED BY <1>1, WidthAssumption DEF BufferTypeOK, Advance, BufLen, rigid, input, task

LEMMA FindFirstBoundaryStep ==
  ASSUME IInv, FindFirstBoundary
  PROVE  IInv'
<1> USE DEF IInv
<1>1. /\ pc \in {"parse", "reparse"} /\ stage = "FindingFirstBoundary" /\ field = NoField
      /\ UNCHANGED <<rigid, input, task, next_field_idx, curr, given>>
  BY DEF FindFirstBoundary, At, Parsing
<1>2. boundary_padding_scanned = 0 /\ boundary_padding_scanned' = 0
  BY <1>1 DEF PaddingRemembered, FindFirstBoundary, Advance, TypeOK, BufferTypeOK, scan
<1>3. Outcome
  <2>1. "PreambleSizeExceeded" \in Errors
    BY DEF Errors
  <2>2. CASE FindFirst # NotFound
    BY <2>1, <2>2 DEF FindFirstBoundary, Outcome
  <2>3. CASE FindFirst = NotFound
    <3>1. FailOrSuspend(PreambleSeen > constraints.preamble, "PreambleSizeExceeded")
      BY <2>3 DEF FindFirstBoundary
    <3> QED BY <2>1, <3>1, FailOrSuspendOutcome
  <2> QED BY <2>2, <2>3
<1>4. BufferTypeOK'
  <2>0. /\ BufferTypeOK /\ lo \in Nat /\ hi \in Nat /\ lo <= hi
        /\ first_boundary_search_start \in Nat /\ Len(BoundaryBytes) \in Nat
        /\ Len(BoundaryBytes) >= 2
    <3>1. Len(body) \in Nat
      BY BodiesAssumption DEF TypeOK, BufferTypeOK
    <3> QED BY <3>1, BoundaryLengths DEF TypeOK, BufferTypeOK
  <2>1. CASE FindFirst # NotFound /\ UNCHANGED scan
    BY <1>1, <2>0, <2>1, BufferUnchanged
  <2>2. CASE FindFirst # NotFound /\ Advance(FindFirst) /\ UNCHANGED transport_padding_counter
    <3>1. PICK from \in Nat : from = lo + first_boundary_search_start
      BY <2>0
    <3>2. PICK to : to = FindFirst
      OBVIOUS
    <3>3. to \in Occurrences(body, from, hi, BoundaryBytes)
      BY <2>0, <2>2, <3>1, <3>2, FirstBoundaryInWindow DEF FindFirst
    <3>4. to \in lo..hi
      BY <2>0, <3>1, <3>3 DEF Occurrences
    <3>5. transport_padding_counter' \in U64
      BY <2>0, <2>2 DEF BufferTypeOK
    <3> QED BY <1>1, <2>0, <2>2, <3>2, <3>4, <3>5, AdvanceTypes
  <2>3. CASE FindFirst = NotFound
    <3>1. first_boundary_search_start' \in Nat
      BY <2>0, <2>3 DEF FindFirstBoundary, FirstBoundaryOverlap, Monus, BufLen
    <3>2. UNCHANGED <<lo, boundary_padding_scanned, transport_padding_counter,
                      header_search_start>>
      BY <2>3 DEF FindFirstBoundary
    <3> QED BY <1>1, <2>0, <3>1, <3>2 DEF BufferTypeOK, BufLen, rigid, input, task
  <2> QED BY <2>1, <2>2, <2>3 DEF FindFirstBoundary
<1>5. CallerOK'
  BY <1>1, <1>3, CallerTypes DEF task
<1>6. stage' \in Stages
  BY <1>1 DEF FindFirstBoundary, Stages
<1>7. FieldInData' /\ PaddingRemembered' /\ PaddingCacheSound'
  BY <1>1, <1>2 DEF FieldInData, PaddingRemembered, PaddingCacheSound, NoField, given
<1> QED BY <1>1, <1>4, <1>5, <1>6, <1>7, Reassembled DEF TypeOK, curr, given

\* What the steps of the stages between the fields have in common.
LEMMA BetweenFields ==
  ASSUME IInv, NEW s \in Stages \ {"ReadingFieldData"}, At(s)
  PROVE  /\ pc \in {"parse", "reparse"} /\ stage = s /\ field = NoField
         /\ boundary_padding_scanned = 0
         /\ BufferTypeOK /\ lo \in Nat /\ hi \in Nat /\ lo <= hi
         /\ transport_padding_counter \in U64
<1>1. Len(body) \in Nat
  BY BodiesAssumption DEF IInv, TypeOK, BufferTypeOK
<1> QED BY <1>1 DEF At, Parsing, IInv, TypeOK, BufferTypeOK, PaddingRemembered

LEMMA BetweenFieldsStep ==
  ASSUME IInv, NEW s \in Stages \ {"ReadingFieldData"}, At(s), Outcome,
         UNCHANGED <<rigid, input, task, next_field_idx, curr, given,
                     boundary_padding_scanned>>,
         BufferTypeOK', stage' \in Stages
  PROVE  IInv'
<1>1. pc \in {"parse", "reparse"} /\ field = NoField /\ boundary_padding_scanned = 0
  BY BetweenFields
<1>2. CallerOK'
  BY <1>1, CallerTypes DEF task
<1>3. FieldInData' /\ PaddingRemembered' /\ PaddingCacheSound'
  BY <1>1 DEF FieldInData, PaddingRemembered, PaddingCacheSound, NoField, given
<1> QED BY <1>1, <1>2, <1>3, Reassembled, NoFieldType DEF IInv, TypeOK, curr, given

LEMMA ReadBoundaryStep ==
  ASSUME IInv, ReadBoundary
  PROVE  IInv'
<1> DEFINE s == "ReadingBoundary"
<1>1. s \in Stages \ {"ReadingFieldData"} /\ At(s)
  BY DEF ReadBoundary, Stages
<1>2. UNCHANGED <<rigid, input, task, next_field_idx, curr, given>>
  BY DEF ReadBoundary
<1>3. stage' \in Stages
  BY <1>1 DEF ReadBoundary, Stages, At
<1>4. CASE BufLen < Len(BoundaryBytes)
  <2>1. FailOrSuspend(FALSE, "") /\ UNCHANGED scan
    BY <1>4 DEF ReadBoundary
  <2>2. Outcome
    BY <2>1, FailOrSuspendOutcome
  <2>3. BufferTypeOK'
    BY <1>1, <1>2, <2>1, BetweenFields, BufferUnchanged
  <2> HIDE DEF s
  <2> QED BY <1>1, <1>2, <1>3, <2>1, <2>2, <2>3, BetweenFieldsStep DEF scan
<1>5. CASE ~(BufLen < Len(BoundaryBytes))
  <2>1. PICK to : to = lo + Len(BoundaryBytes)
    OBVIOUS
  <2>2. Advance(to) /\ UNCHANGED transport_padding_counter
    BY <1>5, <2>1 DEF ReadBoundary
  <2>3. to \in lo..hi
    BY <1>1, <1>5, <2>1, BetweenFields, BoundaryLengths DEF BufLen
  <2>4. BufferTypeOK'
    BY <1>1, <1>2, <2>2, <2>3, BetweenFields, AdvanceTypes
  <2>5. Outcome
    <3>1. "IncompleteStream" \in Errors
      BY DEF Errors
    <3> QED BY <1>5, <3>1 DEF ReadBoundary, Outcome
  <2> HIDE DEF s
  <2> QED BY <1>1, <1>2, <1>3, <2>2, <2>4, <2>5, BetweenFieldsStep DEF Advance
<1> QED BY <1>4, <1>5

LEMMA DetermineBoundaryTypeStep ==
  ASSUME IInv, DetermineBoundaryType
  PROVE  IInv'
<1> DEFINE s == "DeterminingBoundaryType"
<1>1. s \in Stages \ {"ReadingFieldData"} /\ At(s)
  BY DEF DetermineBoundaryType, Stages
<1>2. UNCHANGED <<rigid, input, task, next_field_idx, curr, given>>
  BY DEF DetermineBoundaryType
<1>3. stage' \in Stages
  BY <1>1 DEF DetermineBoundaryType, Stages, At
<1>4. Outcome
  <2>1. CASE FailOrSuspend(FALSE, "")
    BY <2>1, FailOrSuspendOutcome
  <2>2. CASE Proceed
    BY <2>2 DEF Outcome
  <2> QED BY <2>1, <2>2 DEF DetermineBoundaryType
<1>5. CASE UNCHANGED scan
  <2>1. BufferTypeOK'
    BY <1>1, <1>2, <1>5, BetweenFields, BufferUnchanged
  <2> HIDE DEF s
  <2> QED BY <1>1, <1>2, <1>3, <1>4, <1>5, <2>1, BetweenFieldsStep DEF scan
<1>6. CASE /\ BufLen >= Len(BOUNDARY_EXT)
           /\ Advance(lo + Len(BOUNDARY_EXT)) /\ UNCHANGED transport_padding_counter
  <2>1. PICK to : to = lo + Len(BOUNDARY_EXT)
    OBVIOUS
  <2>2. to \in lo..hi
    BY <1>1, <1>6, <2>1, BetweenFields, BoundaryLengths DEF BufLen
  <2>3. BufferTypeOK'
    BY <1>1, <1>2, <1>6, <2>1, <2>2, BetweenFields, AdvanceTypes
  <2> HIDE DEF s
  <2> QED BY <1>1, <1>2, <1>3, <1>4, <1>6, <2>3, BetweenFieldsStep DEF Advance
<1> QED BY <1>5, <1>6 DEF DetermineBoundaryType

LEMMA ReadTransportPaddingStep ==
  ASSUME IInv, ReadTransportPadding
  PROVE  IInv'
<1>1. PICK s \in Stages \ {"ReadingFieldData"} : At(s)
  BY DEF ReadTransportPadding, Stages
<1>2. UNCHANGED <<rigid, input, task, next_field_idx, curr, given>>
  BY DEF ReadTransportPadding
<1>3. stage' \in Stages
  BY <1>1, BetweenFields DEF ReadTransportPadding, Stages
<1> DEFINE end     == PaddingEnd(body, lo, hi)
           limit   == constraints.boundary_padding
           counted == SatAdd(transport_padding_counter, end - lo)
<1>4. /\ end \in lo..hi /\ limit \in U64 /\ counted \in U64
      /\ SatAdd(transport_padding_counter, 1) \in U64
  <2>1. end \in lo..hi
    BY <1>1, BetweenFields, PaddingEndProperties
  <2>2. limit \in U64
    BY <1>1, BetweenFields, ConstraintTypes DEF BufferTypeOK
  <2> HIDE DEF end
  <2> QED BY <1>1, <2>1, <2>2, BetweenFields, WidthAssumption DEF SatAdd, U64
<1>5. /\ boundary_padding_scanned' = boundary_padding_scanned
      /\ \/ UNCHANGED <<lo, header_search_start, first_boundary_search_start>>
         \/ Advance(end)
         \/ hi - end >= Len(CRLF) /\ Advance(end + Len(CRLF))
  BY DEF ReadTransportPadding, Advance
<1>6. transport_padding_counter' \in U64
  <2>1. \/ transport_padding_counter' \in {0, counted, SatAdd(transport_padding_counter, 1)}
        \/ counted > limit /\ transport_padding_counter' = limit + 1
    BY DEF ReadTransportPadding
  <2> HIDE DEF end, counted, limit
  <2> QED BY <1>4, <2>1, WidthAssumption DEF U64
<1>7. Outcome
  <2>1. \A x : x \in {"BoundaryPaddingSizeExceeded", "IncompleteStream"} => x \in Errors
    BY DEF Errors
  <2>2. "end" \in Results
    BY DEF Results
  <2>3. \/ FailOrSuspend(FALSE, "") \/ Proceed \/ Return("end")
        \/ Fail("BoundaryPaddingSizeExceeded") \/ Fail("IncompleteStream")
    BY DEF ReadTransportPadding
  <2>4. CASE FailOrSuspend(FALSE, "")
    BY <2>4, FailOrSuspendOutcome
  <2> QED BY <2>1, <2>2, <2>3, <2>4 DEF Outcome
<1>8. BufferTypeOK'
  <2> HIDE DEF end
  <2>1. CASE UNCHANGED <<lo, header_search_start, first_boundary_search_start>>
    BY <1>1, <1>2, <1>5, <1>6, <2>1, BetweenFields
       DEF BufferTypeOK, BufLen, rigid, input, task
  <2>2. CASE Advance(end)
    BY <1>1, <1>2, <1>4, <1>6, <2>2, BetweenFields, AdvanceTypes
  <2>3. CASE hi - end >= Len(CRLF) /\ Advance(end + Len(CRLF))
    <3>1. PICK to : to = end + Len(CRLF)
      OBVIOUS
    <3>2. to \in lo..hi
      BY <1>1, <1>4, <2>3, <3>1, BetweenFields, BoundaryLengths
    <3> QED BY <1>1, <1>2, <1>6, <2>3, <3>1, <3>2, BetweenFields, AdvanceTypes
  <2> QED BY <1>5, <2>1, <2>2, <2>3
<1> QED BY <1>1, <1>2, <1>3, <1>5, <1>7, <1>8, BetweenFieldsStep

\* Where the header block ends, when its end is in the buffer.
LEMMA HeadersEndInWindow ==
  ASSUME BufferTypeOK, HeadersEnd # NotFound
  PROVE  HeadersEnd \in Nat /\ HeadersEnd >= lo /\ HeadersEnd + Len(CRLF_CRLF) \in lo..hi
<1>1. lo \in Nat /\ hi \in Nat /\ header_search_start \in Nat
  <2>1. Len(body) \in Nat
    BY BodiesAssumption DEF BufferTypeOK
  <2> QED BY <2>1 DEF BufferTypeOK
<1>2. PICK from \in Nat : from = lo + header_search_start
  BY <1>1
<1>3. HeadersEnd \in Occurrences(body, from, hi, CRLF_CRLF)
  BY <1>1, <1>2, FindIsFirst, BoundaryLengths DEF HeadersEnd
<1> QED BY <1>1, <1>2, <1>3, BoundaryLengths DEF Occurrences

LEMMA ReadHeadersTypes ==
  ASSUME BufferTypeOK, NEW at, at = HeadersEnd, ReadHeaders(at),
         UNCHANGED <<rigid, input, task>>
  PROVE  BufferTypeOK' /\ UNCHANGED boundary_padding_scanned
<1>1. /\ Len(body) \in Nat /\ lo \in Nat /\ hi \in Nat
      /\ transport_padding_counter \in U64
  <2>1. Len(body) \in Nat
    BY BodiesAssumption DEF BufferTypeOK
  <2> QED BY <2>1 DEF BufferTypeOK
<1>2. CASE at = NotFound
  <2>1. header_search_start' \in Nat
    BY <1>1, <1>2, BoundaryLengths DEF ReadHeaders, Monus, BufLen, HeadersOverlap, BufferTypeOK
  <2>2. UNCHANGED <<lo, boundary_padding_scanned, first_boundary_search_start,
                    transport_padding_counter>>
    BY <1>2 DEF ReadHeaders
  <2> QED BY <2>1, <2>2 DEF BufferTypeOK, BufLen, rigid, input, task
<1>3. CASE at # NotFound
  <2>1. PICK to : to = at + Len(CRLF_CRLF)
    OBVIOUS
  <2>2. to \in lo..hi
    BY <1>3, <2>1, HeadersEndInWindow
  <2>3. Advance(to) /\ UNCHANGED transport_padding_counter
    BY <1>3, <2>1 DEF ReadHeaders
  <2> QED BY <1>1, <2>2, <2>3, AdvanceTypes DEF Advance
<1> QED BY <1>2, <1>3

LEMMA ReadFieldHeadersStep ==
  ASSUME IInv, ReadFieldHeaders
  PROVE  IInv'
<1> DEFINE s      == "ReadingFieldHeaders"
           at     == HeadersEnd
           end    == at + Len(CRLF_CRLF)
           parsed == ParseHeaders(SubSeq(body, lo + 1, end), MaxHeaders)
           name   == parsed.name
<1>1. s \in Stages \ {"ReadingFieldData"} /\ At(s)
  BY DEF ReadFieldHeaders, TakeUp, Stages
<1>2. UNCHANGED <<rigid, input, task>>
  BY DEF ReadFieldHeaders, TakeUp
<1>3. /\ pc \in {"parse", "reparse"} /\ stage = s /\ field = NoField
      /\ boundary_padding_scanned = 0
      /\ BufferTypeOK /\ lo \in Nat /\ hi \in Nat /\ lo <= hi
  BY <1>1, BetweenFields
<1>4. CASE UNCHANGED <<parser, curr, given>> /\ Outcome
  <2>1. BufferTypeOK' /\ UNCHANGED boundary_padding_scanned
    <3>1. CASE UNCHANGED scan
      BY <1>2, <1>3, <3>1, BufferUnchanged DEF scan
    <3>2. CASE ReadHeaders(at)
      BY <1>2, <1>3, <3>2, ReadHeadersTypes
    <3> QED BY <3>1, <3>2 DEF ReadFieldHeaders, TakeUp
  <2>2. stage' \in Stages /\ UNCHANGED next_field_idx
    BY <1>4 DEF parser, IInv, TypeOK
  <2> HIDE DEF s
  <2> QED BY <1>1, <1>2, <1>4, <2>1, <2>2, BetweenFieldsStep
<1>5. CASE FieldCountReached
  <2>1. Fail("FieldCountExceeded") /\ UNCHANGED <<parser, curr, given>>
    BY <1>5 DEF ReadFieldHeaders, TakeUp
  <2> QED BY <1>4, <2>1 DEF Outcome, Errors
<1>6. CASE ~FieldCountReached /\ at = NotFound
  <2>1. /\ FailOrSuspend(BufLen > constraints.headers, "HeadersSizeExceeded")
        /\ UNCHANGED <<parser, curr, given>>
    BY <1>6 DEF ReadFieldHeaders, TakeUp
  <2>2. "HeadersSizeExceeded" \in Errors
    BY DEF Errors
  <2> QED BY <1>4, <2>1, <2>2, FailOrSuspendOutcome
<1>7. CASE ~FieldCountReached /\ at # NotFound /\ ~(end - lo <= constraints.headers /\ parsed.ok)
  <2>1. UNCHANGED <<parser, curr, given>> /\ \E e \in Errors : Fail(e)
    <3>1. "HeadersSizeExceeded" \in Errors /\ "ReadHeaderFailed" \in Errors
      BY DEF Errors
    <3> QED BY <1>7, <3>1 DEF ReadFieldHeaders, TakeUp
  <2> QED BY <1>4, <2>1 DEF Outcome
<1>8. CASE ~FieldCountReached /\ at # NotFound /\ end - lo <= constraints.headers /\ parsed.ok
  <2>1. /\ ReadHeaders(at)
        /\ stage' = "ReadingFieldData"
        /\ next_field_idx' = next_field_idx + 1
        /\ curr_field_name' = name
        /\ curr_field_size_limit' = ExtractSizeLimitFor(name)
        /\ curr_field_size_counter' = 0
        /\ \/ Fail("UnknownField") /\ UNCHANGED given
           \/ /\ field' = [idx |-> next_field_idx, name |-> name, done |-> FALSE]
              /\ out' = Append(out, [idx |-> next_field_idx, name |-> name, done |-> FALSE,
                                     start |-> end, upto |-> end])
              /\ Return("field")
    <3>1. end - lo \in Int /\ constraints.headers \in Int
      BY <1>3, <1>8, HeadersEndInWindow, ConstraintTypes, WidthAssumption
         DEF BufferTypeOK, U64
    <3>2. ~(end - lo > constraints.headers)
      BY <1>8, <3>1
    <3> HIDE DEF at, name
    <3> QED BY <1>8, <3>2 DEF ReadFieldHeaders, TakeUp, at, name
  <2>2. BufferTypeOK' /\ boundary_padding_scanned' = 0
    BY <1>2, <1>3, <2>1, ReadHeadersTypes
  <2>3. name \in Names \union {NoName}
    <3>1. PICK stop \in lo..hi : stop = end
      BY <1>3, <1>8, HeadersEndInWindow
    <3>2. hi <= Len(body) /\ body \in Seq(Bytes)
      BY <1>3, BodiesAssumption DEF BufferTypeOK
    <3>3. Len(SubSeq(body, lo + 1, stop)) \in Nat
      BY <1>3, <3>1, <3>2
    <3> QED BY <3>1, <3>3, ParsedName
  <2>4. next_field_idx \in Usize /\ next_field_idx' \in Usize
    BY <1>3, <1>8, <2>1, ConstraintTypes, WidthAssumption
       DEF FieldCountReached, Usize, IInv, TypeOK, BufferTypeOK
  <2>5. curr_field_size_limit' \in U64 /\ curr_field_size_counter' \in U64
    <3>1. ExtractSizeLimitFor(name) \in U64
      BY <1>3, ConstraintTypes DEF BufferTypeOK
    <3> QED BY <2>1, <3>1, WidthAssumption DEF U64
  <2>6. Outcome
    <3>1. "UnknownField" \in Errors /\ "field" \in Results
      BY DEF Errors, Results
    <3> QED BY <2>1, <3>1 DEF Outcome
  <2>7. CallerOK'
    BY <1>2, <1>3, <2>6, CallerTypes DEF task
  <2>8. field' \in FieldType /\ out' \in Seq(GivenType)
    <3>1. CASE UNCHANGED given
      BY <1>3, <3>1, NoFieldType DEF given, IInv, TypeOK
    <3>2. CASE /\ field' = [idx |-> next_field_idx, name |-> name, done |-> FALSE]
               /\ out' = Append(out, [idx |-> next_field_idx, name |-> name, done |-> FALSE,
                                      start |-> end, upto |-> end])
      <4> HIDE DEF name
      <4>1. field' \in FieldType
        BY <2>3, <2>4, <3>2 DEF FieldType
      <4>2. end \in Positions
        BY <1>3, <1>8, HeadersEndInWindow DEF Positions, BufferTypeOK
      <4>3. [idx |-> next_field_idx, name |-> name, done |-> FALSE,
             start |-> end, upto |-> end] \in GivenType
        BY <2>3, <2>4, <4>2 DEF GivenType
      <4>4. out \in Seq(GivenType)
        BY DEF IInv, TypeOK
      <4> QED BY <3>2, <4>1, <4>3, <4>4, AppendProperties
    <3> QED BY <2>1, <3>1, <3>2
  <2>9. FieldInData' /\ PaddingRemembered' /\ PaddingCacheSound'
    BY <2>1, <2>2 DEF FieldInData, PaddingRemembered, PaddingCacheSound
  <2>10. stage' \in Stages
    BY <2>1 DEF Stages
  <2> HIDE DEF name, at, end, parsed
  <2> QED BY <1>2, <2>1, <2>2, <2>3, <2>4, <2>5, <2>7, <2>8, <2>9, <2>10, Reassembled
<1> QED BY <1>5, <1>6, <1>7, <1>8

-----------------------------------------------------------------------------
(* The two readers of field data *)

LEMMA FieldDataTaken ==
  ASSUME IInv, NEW r, r = ReadFieldData, TakeFieldData(r), UNCHANGED <<rigid, input, task>>
  PROVE  /\ BufferTypeOK' /\ PaddingCacheSound'
         /\ r.outcome \in {"data", "done", "none"} \union RfdErrors
         /\ r.upto \in lo..hi /\ r.upto \in Positions
         /\ r.outcome = "done" => boundary_padding_scanned' = 0
         /\ FieldSize(r) \in U64
         /\ eof => r.outcome \notin {"none", "data"}
<1>1. /\ BufferTypeOK /\ PaddingCacheSound /\ Len(body) \in Nat
      /\ lo \in Nat /\ hi \in Nat /\ lo <= hi /\ hi <= Len(body)
      /\ curr_field_size_counter \in U64
  BY BodiesAssumption DEF IInv, TypeOK, BufferTypeOK
<1>2. /\ r.outcome \in {"data", "done", "none"} \union RfdErrors
      /\ r.upto \in lo..hi
      /\ r.scanned \in Nat
      /\ r.outcome = "done" => r.scanned = 0 /\ r.upto + Len(FieldBoundary) <= hi
      /\ r.outcome # "done" /\ r.scanned > 0 =>
           LET at == Find(body, r.upto, hi, FieldBoundary)
           IN  /\ at # NotFound
               /\ PaddingScanned(body, at + Len(FieldBoundary), hi, r.scanned)
      /\ eof => r.outcome \notin {"none", "data"}
  BY <1>1, ReadFieldDataProperties
<1>3. BufferTypeOK'
  <2>1. lo' \in lo..hi
    BY <1>1, <1>2, BoundaryLengths DEF TakeFieldData
  <2>2. boundary_padding_scanned' \in Nat
    BY <1>2 DEF TakeFieldData
  <2>3. UNCHANGED <<transport_padding_counter, first_boundary_search_start,
                    header_search_start>>
    BY DEF TakeFieldData
  <2>4. hi' = hi /\ body' = body
    BY DEF rigid, input
  <2>5. /\ hi' - lo' <= UsizeMax /\ lo' <= hi'
        /\ lo' \in 0..Len(body)
    <3>1. hi - lo <= UsizeMax
      BY <1>1 DEF BufferTypeOK, BufLen
    <3>2. UsizeMax \in Nat
      BY WidthAssumption
    <3>3. PICK now \in lo..hi : now = lo'
      BY <2>1
    <3>4. hi - now <= UsizeMax /\ now <= hi /\ now \in 0..Len(body)
      BY <1>1, <3>1, <3>2
    <3> QED BY <2>4, <3>3, <3>4
  <2> QED BY <1>1, <2>2, <2>3, <2>4, <2>5 DEF BufferTypeOK, BufLen, rigid, input, task
<1>4. PaddingCacheSound'
  <2>1. CASE r.outcome = "done"
    BY <1>2, <2>1 DEF TakeFieldData, PaddingCacheSound
  <2>2. CASE r.outcome # "done"
    <3>1. /\ lo' = r.upto /\ hi' = hi /\ body' = body
          /\ boundary_padding_scanned' = r.scanned
      BY <2>2 DEF TakeFieldData, rigid, input
    <3> QED BY <1>2, <2>2, <3>1 DEF PaddingCacheSound
  <2> QED BY <2>1, <2>2
<1>5. FieldSize(r) \in U64
  BY <1>1, <1>2, WidthAssumption DEF FieldSize, SatAdd, U64
<1>6. r.upto \in Positions
  BY <1>1, <1>2 DEF Positions
<1> QED BY <1>2, <1>3, <1>4, <1>5, <1>6 DEF TakeFieldData

\* Replacing an element keeps the type of a sequence.
LEMMA ReplacedElement ==
  ASSUME NEW S, NEW q \in Seq(S), NEW i, NEW x, i \in DOMAIN q => x \in S
  PROVE  [q EXCEPT ![i] = x] \in Seq(S)
<1> DEFINE D == 1..Len(q)
<1>1. q \in [D -> S] /\ DOMAIN q = D /\ Len(q) \in Nat
  OBVIOUS
<1>2. [q EXCEPT ![i] = x] \in [D -> S]
  <2> HIDE DEF D
  <2>1. CASE i \in D
    BY <1>1, <2>1
  <2>2. CASE i \notin D
    BY <1>1, <2>2
  <2> QED BY <2>1, <2>2
<1> QED BY <1>1, <1>2, SeqDef

LEMMA SkipFieldDataStep ==
  ASSUME IInv, SkipFieldData
  PROVE  IInv'
<1>1. PICK r : r = ReadFieldData
  OBVIOUS
<1>2. /\ pc \in {"parse", "reparse"} /\ stage = "ReadingFieldData" /\ field = NoField
      /\ UNCHANGED <<rigid, input, task, next_field_idx, curr_field_name,
                     curr_field_size_limit, given>>
  BY DEF SkipFieldData, At, Parsing
<1>3. TakeFieldData(r)
  BY <1>1 DEF SkipFieldData
<1>4. /\ BufferTypeOK' /\ PaddingCacheSound'
      /\ r.outcome = "done" => boundary_padding_scanned' = 0
      /\ FieldSize(r) \in U64
  BY <1>1, <1>2, <1>3, FieldDataTaken
<1>5. /\ curr_field_size_counter' \in {curr_field_size_counter, FieldSize(r)}
      /\ stage' = stage \/ (r.outcome = "done" /\ stage' = "ReadingBoundary")
  BY <1>1 DEF SkipFieldData
<1>6. Outcome
  <2>1. Proceed \/ Suspend \/ Fail("FieldSizeExceeded") \/ \E e \in Errors : Fail(e)
    BY <1>1 DEF SkipFieldData
  <2>2. "FieldSizeExceeded" \in Errors
    BY DEF Errors
  <2> QED BY <2>1, <2>2 DEF Outcome
<1>7. CallerOK'
  BY <1>2, <1>6, CallerTypes DEF task
<1>8. stage' \in Stages /\ FieldInData' /\ PaddingRemembered'
  BY <1>2, <1>4, <1>5 DEF Stages, FieldInData, PaddingRemembered, NoField, given
<1>9. curr_field_size_counter' \in U64
  BY <1>4, <1>5 DEF IInv, TypeOK
<1> QED BY <1>2, <1>4, <1>7, <1>8, <1>9, Reassembled DEF IInv, TypeOK, given

LEMMA ReadChunkStep ==
  ASSUME IInv, ReadChunk
  PROVE  IInv'
<1>1. PICK r : r = ReadFieldData
  OBVIOUS
<1>2. /\ pc \in {"parse", "reparse"} /\ stage = "ReadingFieldData"
      /\ UNCHANGED <<rigid, input, task, next_field_idx, curr_field_name,
                     curr_field_size_limit>>
  BY DEF ReadChunk, Parsing, IInv, FieldInData
<1>3. TakeFieldData(r)
  BY <1>1 DEF ReadChunk
<1>4. /\ BufferTypeOK' /\ PaddingCacheSound'
      /\ r.outcome = "done" => boundary_padding_scanned' = 0
      /\ FieldSize(r) \in U64
      /\ r.upto \in Positions
  BY <1>1, <1>2, <1>3, FieldDataTaken
<1>5. /\ curr_field_size_counter' \in {curr_field_size_counter, FieldSize(r)}
      /\ \/ UNCHANGED <<stage, given>>
         \/ /\ stage' = IF r.outcome = "done" THEN "ReadingBoundary" ELSE stage
            /\ field' = [field EXCEPT !.done = (r.outcome = "done")]
            /\ out' = [out EXCEPT ![Len(out)].upto = r.upto,
                                  ![Len(out)].done = (r.outcome = "done")]
  BY <1>1 DEF ReadChunk
<1>6. Outcome
  <2>1. Return("chunk") \/ Suspend \/ Fail("FieldSizeExceeded") \/ \E e \in Errors : Fail(e)
    BY <1>1 DEF ReadChunk
  <2>2. "FieldSizeExceeded" \in Errors /\ "chunk" \in Results
    BY DEF Errors, Results
  <2> QED BY <2>1, <2>2 DEF Outcome
<1>7. CallerOK'
  BY <1>2, <1>6, CallerTypes DEF task
<1>8. field' \in FieldType /\ (field'.done = field.done \/ field'.done = (r.outcome = "done"))
  <2>1. CASE field' = field
    BY <2>1 DEF IInv, TypeOK
  <2>2. CASE field' = [field EXCEPT !.done = (r.outcome = "done")]
    BY <2>2 DEF IInv, TypeOK, FieldType
  <2> QED BY <1>5, <2>1, <2>2 DEF given
<1>9. out' \in Seq(GivenType)
  <2>1. CASE out' = out
    BY <2>1 DEF IInv, TypeOK
  <2>2. CASE out' = [out EXCEPT ![Len(out)].upto = r.upto,
                                ![Len(out)].done = (r.outcome = "done")]
    <3>1. out \in Seq(GivenType)
      BY DEF IInv, TypeOK
    <3>2. PICK last : last = [out[Len(out)] EXCEPT !.upto = r.upto,
                                                   !.done = (r.outcome = "done")]
      OBVIOUS
    <3>3. out' = [out EXCEPT ![Len(out)] = last]
      BY <2>2, <3>1, <3>2
    <3>4. ASSUME Len(out) \in DOMAIN out PROVE last \in GivenType
      <4>1. out[Len(out)] \in GivenType
        BY <3>1, <3>4
      <4> QED BY <1>4, <3>2, <4>1 DEF GivenType
    <3> QED BY <3>1, <3>3, <3>4, ReplacedElement
  <2> QED BY <1>5, <2>1, <2>2 DEF given
<1>10. stage' \in Stages /\ FieldInData' /\ PaddingRemembered'
  <2>1. stage' \in {stage, "ReadingBoundary"} /\ stage' \in Stages
    BY <1>2, <1>5 DEF Stages
  <2>2. CASE UNCHANGED <<stage, given>>
    BY <1>2, <2>1, <2>2 DEF FieldInData, PaddingRemembered, given
  <2>3. CASE /\ stage' = IF r.outcome = "done" THEN "ReadingBoundary" ELSE stage
             /\ field' = [field EXCEPT !.done = (r.outcome = "done")]
    <3>1. field'.done = (r.outcome = "done")
      BY <2>3 DEF IInv, TypeOK, FieldType
    <3>2. CASE r.outcome = "done"
      <4>1. FieldInData'
        BY <3>1, <3>2, Zenon DEF FieldInData
      <4>2. PaddingRemembered'
        BY <1>4, <3>2 DEF PaddingRemembered
      <4> QED BY <2>1, <4>1, <4>2
    <3>3. CASE r.outcome # "done"
      BY <1>2, <2>1, <2>3, <3>3 DEF FieldInData, PaddingRemembered
    <3> QED BY <3>2, <3>3
  <2> QED BY <1>5, <2>2, <2>3
<1>11. curr_field_size_counter' \in U64
  BY <1>4, <1>5 DEF IInv, TypeOK
<1> QED BY <1>2, <1>4, <1>7, <1>8, <1>9, <1>10, <1>11, Reassembled DEF IInv, TypeOK

-----------------------------------------------------------------------------
(* poll_stream *)

\* More bytes do not move the boundary that was found.
LEMMA PaddingStaysSound ==
  ASSUME BufferTypeOK, PaddingCacheSound, hi' >= hi, hi' \in Nat,
         UNCHANGED <<body, lo, boundary_padding_scanned>>
  PROVE  PaddingCacheSound'
<1> SUFFICES ASSUME boundary_padding_scanned > 0
             PROVE  PaddingCacheSound'
  BY DEF PaddingCacheSound
<1> DEFINE at == Find(body, lo, hi, FieldBoundary)
<1>1. /\ lo \in Nat /\ hi \in Nat /\ Len(FieldBoundary) \in Nat
      /\ boundary_padding_scanned \in Nat
  BY BodiesAssumption, BoundaryLengths DEF BufferTypeOK
<1>2. /\ at # NotFound
      /\ PaddingScanned(body, at + Len(FieldBoundary), hi, boundary_padding_scanned)
  BY DEF PaddingCacheSound
<1>3. /\ at \in Occurrences(body, lo, hi, FieldBoundary)
      /\ \A j \in Occurrences(body, lo, hi, FieldBoundary) : at <= j
  BY <1>1, <1>2, FindIsFirst
<1>4. PICK later : later = Find(body, lo, hi', FieldBoundary)
  OBVIOUS
<1>5. at \in Occurrences(body, lo, hi', FieldBoundary) /\ at \in Nat
  BY <1>1, <1>3 DEF Occurrences
<1>6. /\ later # NotFound
      /\ later \in Occurrences(body, lo, hi', FieldBoundary)
      /\ \A j \in Occurrences(body, lo, hi', FieldBoundary) : later <= j
  BY <1>1, <1>4, <1>5, FindIsFirst
<1>7. later = at
  <2>1. later <= at /\ later \in Nat
    BY <1>1, <1>5, <1>6 DEF Occurrences
  <2>2. later \in Occurrences(body, lo, hi, FieldBoundary)
    BY <1>1, <1>3, <1>5, <1>6, <2>1 DEF Occurrences
  <2> QED BY <1>3, <1>5, <2>1, <2>2
<1>8. PaddingScanned(body, at + Len(FieldBoundary), hi', boundary_padding_scanned)
  <2> HIDE DEF at
  <2> QED BY <1>1, <1>2, <1>5 DEF PaddingScanned, BOUNDARY_EXT
<1> QED BY <1>2, <1>4, <1>7, <1>8 DEF PaddingCacheSound

LEMMA FillStepTypes ==
  ASSUME IInv, FillNext
  PROVE  IInv'
<1> USE DEF IInv
<1>1. /\ pc = "fill" /\ budget >= 1
      /\ UNCHANGED <<rigid, scan, parser, curr, given>>
  BY DEF FillNext, FillStep, FillTooMuch, FillChunk, FillEmpty, FillEnd, FillError,
         FillPending, BudgetLeft
<1>2. /\ Len(body) \in Nat /\ lo \in Nat /\ hi \in Nat /\ sent \in Nat
      /\ budget \in Nat /\ budget <= PollBudget
  BY BodiesAssumption, SourceAssumption DEF TypeOK, BufferTypeOK
<1>3. BufferTypeOK' /\ hi' >= hi /\ budget' \in Nat
  <2>1. ASSUME NEW n \in Nat, SourceSends(n), hi' \in {hi, hi + n}
        PROVE  /\ sent' \in 0..Len(body) /\ hi' \in 0..Len(body)
               /\ lo <= hi' /\ hi' <= sent' /\ hi' - lo <= UsizeMax /\ hi' >= hi
               /\ stream_size_counter' \in U64 /\ eof' = eof
    <3>1. UsizeMax \in Nat /\ U64Max \in Nat
      BY WidthAssumption
    <3>2. stream_size_counter' = SatAdd(stream_size_counter, n) /\ sent' = sent + n
          /\ sent + n <= Len(body) /\ hi - lo + n <= UsizeMax /\ eof' = eof
      BY <2>1 DEF SourceSends, Counted, BufLen
    <3>3. stream_size_counter' \in U64
      BY <3>1, <3>2 DEF SatAdd, TypeOK, BufferTypeOK, U64
    <3>4. hi <= sent /\ lo <= hi
      BY DEF TypeOK, BufferTypeOK
    <3>5. PICK now \in {hi, hi + n} : now = hi'
      BY <2>1
    <3>6. now \in 0..Len(body) /\ lo <= now /\ now <= sent + n /\ now - lo <= UsizeMax
          /\ now >= hi
      <4>1. CASE now = hi
        BY <1>2, <2>1, <3>1, <3>2, <3>4, <4>1
      <4>2. CASE now = hi + n
        BY <1>2, <2>1, <3>1, <3>2, <3>4, <4>2
      <4> QED BY <3>5, <4>1, <4>2
    <3>7. sent + n \in 0..Len(body)
      BY <1>2, <2>1, <3>2
    <3> QED BY <3>2, <3>3, <3>5, <3>6, <3>7
  <2>2. /\ lo' = lo /\ body' = body /\ boundary_padding_scanned' \in Nat
        /\ transport_padding_counter' \in U64 /\ first_boundary_search_start' \in Nat
        /\ header_search_start' \in Nat
        /\ body' \in Bodies /\ constraints' \in ConstraintSets
        /\ lo' \in 0..Len(body)
    BY <1>1 DEF TypeOK, BufferTypeOK, rigid, scan
  <2>3. ASSUME NEW n \in Nat, SourceSends(n), hi' \in {hi, hi + n},
               waker' \in BOOLEAN, woken' \in BOOLEAN, budget' \in 0..PollBudget
        PROVE  BufferTypeOK' /\ hi' >= hi /\ budget' \in Nat
    <3>1. eof' \in BOOLEAN
      BY <2>1, <2>3 DEF TypeOK, BufferTypeOK
    <3> QED BY <2>1, <2>2, <2>3, <3>1, SourceAssumption DEF BufferTypeOK, BufLen
  <2>4. ASSUME UNCHANGED <<sent, hi, stream_size_counter>>,
               eof' \in BOOLEAN, waker' \in BOOLEAN, woken' \in BOOLEAN, budget' = budget
        PROVE  BufferTypeOK' /\ hi' >= hi /\ budget' \in Nat
    BY <1>2, <2>2, <2>4 DEF TypeOK, BufferTypeOK, BufLen
  <2>5. /\ waker \in BOOLEAN /\ woken \in BOOLEAN /\ eof \in BOOLEAN
        /\ budget \in 0..PollBudget /\ ChunkSizes \subseteq Nat /\ 0 \in Nat
    BY SourceAssumption DEF TypeOK, BufferTypeOK
  <2>6. CASE FillTooMuch
    <3>1. PICK n \in ChunkSizes \union {0} : PollTooMuch(n)
      BY <2>6 DEF FillTooMuch, FillStep
    <3> QED BY <2>3, <2>5, <3>1 DEF PollTooMuch, task
  <2>7. CASE FillChunk
    <3>1. PICK n \in ChunkSizes : PollChunk(n)
      BY <2>7 DEF FillChunk, FillStep
    <3> QED BY <2>3, <2>5, <3>1 DEF PollChunk
  <2>8. CASE FillEmpty
    <3>1. PollEmpty
      BY <2>8 DEF FillEmpty, FillStep
    <3>2. SourceSends(0) /\ hi' = hi /\ waker' = waker /\ budget' = budget - 1
      BY <3>1 DEF PollEmpty
    <3>3. woken' \in BOOLEAN
      BY <2>5, <3>1 DEF PollEmpty
    <3>4. budget' \in 0..PollBudget
      BY <1>1, <1>2, <3>2, SourceAssumption
    <3> QED BY <2>3, <2>5, <3>2, <3>3, <3>4
  <2>9. CASE FillEnd
    BY <2>4, <2>5, <2>9 DEF FillEnd, FillStep, PollEnd, task
  <2>10. CASE FillError
    BY <2>4, <2>5, <2>10 DEF FillError, FillStep, PollError, task, input
  <2>11. CASE FillPending
    BY <2>4, <2>5, <2>11 DEF FillPending, FillStep, PollPending, input
  <2> QED BY <2>6, <2>7, <2>8, <2>9, <2>10, <2>11 DEF FillNext
<1>4. \/ StreamPolled \/ Fail("StreamSizeExceeded") \/ Fail("StreamReadFailed")
      \/ UNCHANGED caller
  BY DEF FillNext, FillStep, FillTooMuch, FillChunk, FillEmpty, FillEnd, FillError,
         FillPending
<1>5. UNCHANGED caller => budget' >= 1
  <2>1. UNCHANGED caller => pc' = "fill"
    BY <1>1 DEF caller
  <2>2. StreamPolled \/ Fail("StreamSizeExceeded") \/ Fail("StreamReadFailed") => pc' # "fill"
    BY DEF StreamPolled, Fail
  <2>3. UNCHANGED caller => PollEmpty /\ budget # 1
    BY <2>1, <2>2 DEF FillNext, FillStep, FillTooMuch, FillChunk, FillEmpty, FillEnd,
                      FillError, FillPending
  <2>4. PollEmpty => budget' = budget - 1
    BY DEF PollEmpty
  <2> QED BY <1>1, <1>2, <2>3, <2>4
<1>6. CallerOK'
  <2>0. errors <= MaxErrors /\ errors \in 0..(MaxErrors + 1) /\ MaxErrors \in Nat
    BY <1>1, ErrorsAssumption DEF ErrorsCounted, TypeOK
  <2>1. CASE StreamPolled
    BY <2>0, <2>1 DEF StreamPolled, CallerOK, TypeOK, ErrorsCounted, BudgetLeft
  <2>2. CASE Fail("StreamSizeExceeded") \/ Fail("StreamReadFailed")
    BY <2>0, <2>2 DEF Fail, CallerOK, ErrorsCounted, BudgetLeft, Results, Errors
  <2>3. CASE UNCHANGED caller
    BY <1>5, <2>0, <2>3 DEF caller, CallerOK, TypeOK, ErrorsCounted, BudgetLeft
  <2> QED BY <1>4, <2>1, <2>2, <2>3
<1>7. PaddingCacheSound'
  <2>1. hi' \in Nat
    BY <1>2, <1>3 DEF BufferTypeOK
  <2> QED BY <1>1, <1>3, <2>1, PaddingStaysSound DEF TypeOK, rigid, scan
<1>8. FieldInData' /\ PaddingRemembered'
  BY <1>1 DEF FieldInData, PaddingRemembered, given, parser, scan
<1> QED BY <1>1, <1>3, <1>6, <1>7, <1>8, Reassembled DEF TypeOK, parser, curr, given

-----------------------------------------------------------------------------
\* Every step of the specification preserves the invariant.
LEMMA IInvStep ==
  ASSUME IInv, [Next]_vars
  PROVE  IInv'
<1>1. CASE Application \/ Repoll \/ SourceWake
  BY <1>1, TaskSteps DEF Application
<1>2. CASE NextFieldStep
  BY <1>2, TaskSteps, FindFirstBoundaryStep, SkipFieldDataStep, ReadBoundaryStep,
     DetermineBoundaryTypeStep, ReadTransportPaddingStep, ReadFieldHeadersStep
     DEF NextFieldStep
<1>3. CASE ChunkStep
  BY <1>3, TaskSteps, ReadChunkStep DEF ChunkStep
<1>4. CASE FillNext
  BY <1>4, FillStepTypes
<1>5. CASE UNCHANGED vars
  <2>1. BufferTypeOK' /\ PaddingCacheSound'
    BY <1>5, BufferUnchanged, PaddingUnchanged
       DEF IInv, TypeOK, vars, rigid, input, scan
  <2>2. CallerOK' /\ FieldInData' /\ PaddingRemembered'
    BY <1>5 DEF IInv, TypeOK, CallerOK, ErrorsCounted, BudgetLeft, FieldInData,
                PaddingRemembered, vars, caller, task, given, parser, scan
  <2> QED BY <1>5, <2>1, <2>2, Reassembled DEF IInv, TypeOK, vars, parser, curr, given
<1> QED BY <1>1, <1>2, <1>3, <1>4, <1>5 DEF Next

\* The values every variable of the parser can take: in particular no counter
\* leaves its width, and the window of the buffer stays in order.
THEOREM TypeCorrect == Spec => []TypeOK
<1>1. Init => IInv
  BY TypeInit
<1>2. IInv /\ [Next]_vars => IInv'
  BY IInvStep
<1>3. IInv => TypeOK
  BY DEF IInv
<1> QED BY <1>1, <1>2, <1>3, PTL DEF Spec
=============================================================================
