------------------------------ MODULE Multipart ------------------------------
(***************************************************************************)
(* The parser of multra: Multipart::poll_next_field (src/multipart.rs) and *)
(* the field stream Field::poll_next (src/field.rs) over one StreamBuffer, *)
(* with the task that polls them and the application that calls them.      *)
(*                                                                         *)
(* A call (next_field or chunk) is polled by a task.  One poll is          *)
(*    parse   what the buffer holds, then, if that is Pending,             *)
(*    fill    poll_stream once, then                                       *)
(*    reparse what the buffer holds now;                                   *)
(* it returns the call's result, or Pending, and the task sleeps until it  *)
(* is woken.  Each stage of the parser is an action; they run inside one   *)
(* poll, which only the source's wake-up can interleave with, since a      *)
(* Multipart and its one live Field are never polled at the same time.     *)
(***************************************************************************)
EXTENDS StreamBuffer

CONSTANTS
  MaxHeaders,        \* header lines httparse accepts: 32 in the code
  MaxErrors          \* errors after which the application still goes on

ASSUME ErrorsAssumption == MaxErrors \in Nat /\ MaxHeaders \in Nat

VARIABLES
  stage, next_field_idx,
  curr_field_name, curr_field_size_limit, curr_field_size_counter,
  field,             \* the live Field, or NoField
  call, pc,          \* the call in progress and where its poll is
  ret,               \* what the last call returned
  errors,            \* errors returned so far, LockFailure apart
  out                \* the fields given out and the data delivered for each

parser == <<stage, next_field_idx>>
curr   == <<curr_field_name, curr_field_size_limit, curr_field_size_counter>>
caller == <<call, pc, ret, errors>>
given  == <<field, out>>
vars   == <<rigid, input, scan, task, parser, curr, caller, given>>

Stages == { "FindingFirstBoundary", "ReadingBoundary", "DeterminingBoundaryType",
            "ReadingTransportPadding", "ReadingClosingTransportPadding",
            "ReadingFieldHeaders", "ReadingFieldData", "Eof" }

Errors == { "StreamSizeExceeded", "StreamReadFailed", "PreambleSizeExceeded",
            "IncompleteStream", "IncompleteFieldData", "BoundaryPaddingSizeExceeded",
            "FieldSizeExceeded", "FieldCountExceeded", "HeadersSizeExceeded",
            "ReadHeaderFailed", "UnknownField" }

NoField == [idx |-> -1, name |-> NoName, done |-> TRUE]

-----------------------------------------------------------------------------
(* Limits *)

ExtractSizeLimitFor(name) ==
  IF name \in DOMAIN constraints.field_map THEN constraints.field_map[name]
  ELSE constraints.per_field

IsItAllowed(name) == \A allowed \in constraints.allowed_fields : name \in allowed

\* Mutant: only the last piece of data is compared with the limit.
PieceSize(r) == r.upto - lo

\* curr_field_size_counter once r's data is counted
FieldSize(r) == SatAdd(curr_field_size_counter, r.upto - lo)

-----------------------------------------------------------------------------
(* The outcome of a step: the poll goes on, returns, or is Pending *)

Parsing(c) == call = c /\ pc \in {"parse", "reparse"}

Proceed == UNCHANGED caller

Return(result) ==
  /\ call' = "none" /\ pc' = "idle" /\ ret' = result
  /\ UNCHANGED errors

Fail(error) ==
  /\ call' = "none" /\ pc' = "idle" /\ ret' = error
  /\ errors' = errors + 1

\* Poll::Pending.  The first parse of a poll goes on to poll_stream, which
\* returns at once when the stream has ended.
Suspend ==
  /\ pc' = IF pc = "reparse" THEN "asleep" ELSE IF eof THEN "reparse" ELSE "fill"
  /\ UNCHANGED <<call, ret, errors>>

FailOrSuspend(exceeded, error) ==
  IF exceeded THEN Fail(error) ELSE IF eof THEN Fail("IncompleteStream") ELSE Suspend

-----------------------------------------------------------------------------
(* The application and the task *)

MayContinue == errors <= MaxErrors

\* A new poll: its waker is not registered yet.  A waker of an earlier poll
\* may still be known to the source, but the source need not use it.
BeginPoll ==
  /\ pc' = "parse"
  /\ waker' = FALSE /\ woken' = FALSE /\ budget' = PollBudget

CallNextField ==
  /\ pc = "idle" /\ MayContinue
  /\ call' = "next_field"
  /\ BeginPoll
  /\ UNCHANGED <<rigid, input, scan, parser, curr, ret, errors, given>>

CallChunk ==
  /\ pc = "idle" /\ MayContinue /\ field # NoField
  /\ call' = "chunk"
  /\ BeginPoll
  /\ UNCHANGED <<rigid, input, scan, parser, curr, ret, errors, given>>

DropField ==
  /\ pc = "idle" /\ field # NoField
  /\ field' = NoField
  /\ UNCHANGED <<rigid, input, scan, task, parser, curr, caller, out>>

\* The executor polls a task that has been woken.
Repoll ==
  /\ pc = "asleep" /\ woken
  /\ BeginPoll
  /\ UNCHANGED <<rigid, input, scan, parser, curr, call, ret, errors, given>>

\* The application drops the future of a pending call.
Cancel ==
  /\ pc = "asleep"
  /\ Return("cancelled")
  /\ UNCHANGED <<rigid, input, scan, task, parser, curr, given>>

\* The application stops after an error.
Stopped == pc = "idle" /\ ~MayContinue /\ UNCHANGED vars

-----------------------------------------------------------------------------
(* next_field *)

\* A live Field holds the other reference to the parser's state.
LockFailure ==
  /\ Parsing("next_field") /\ field # NoField
  /\ Return("LockFailure")
  /\ UNCHANGED <<rigid, input, scan, task, parser, curr, given>>

\* Mutant: next_field goes on although a Field is alive.
AtUnguarded(s) == Parsing("next_field") /\ stage = s

At(s) == Parsing("next_field") /\ field = NoField /\ stage = s

AtEof ==
  /\ At("Eof")
  /\ Return("end")
  /\ UNCHANGED <<rigid, input, scan, task, parser, curr, given>>

FindFirstBoundary ==
  /\ At("FindingFirstBoundary")
  /\ \/ /\ FindFirst # NotFound
        /\ FindFirst - lo > constraints.preamble
        /\ Fail("PreambleSizeExceeded")
        /\ UNCHANGED <<scan, stage>>
     \/ /\ FindFirst # NotFound
        /\ FindFirst - lo <= constraints.preamble
        /\ Advance(FindFirst)
        /\ stage' = "ReadingBoundary"
        /\ Proceed
        /\ UNCHANGED transport_padding_counter
     \/ /\ FindFirst = NotFound
        /\ first_boundary_search_start' = Monus(BufLen, FirstBoundaryOverlap)
        /\ FailOrSuspend(PreambleSeen > constraints.preamble, "PreambleSizeExceeded")
        /\ UNCHANGED <<lo, boundary_padding_scanned, transport_padding_counter,
                       header_search_start, stage>>
  /\ UNCHANGED <<rigid, input, task, next_field_idx, curr, given>>

\* The data the application has not read of the previous field.
SkipFieldData ==
  /\ At("ReadingFieldData")
  /\ LET r == ReadFieldData IN
     /\ TakeFieldData(r)
     /\ \/ /\ r.outcome \in {"data", "done"}
           /\ FieldSize(r) > curr_field_size_limit
           /\ Fail("FieldSizeExceeded")
           /\ curr_field_size_counter' = FieldSize(r)
           /\ UNCHANGED stage
        \/ /\ r.outcome = "done"
           /\ FieldSize(r) <= curr_field_size_limit
           /\ stage' = "ReadingBoundary"
           /\ curr_field_size_counter' = FieldSize(r)
           /\ Proceed
        \/ /\ r.outcome = "data"
           /\ FieldSize(r) <= curr_field_size_limit
           /\ Suspend
           /\ curr_field_size_counter' = FieldSize(r)
           /\ UNCHANGED stage
        \/ /\ r.outcome = "none"
           /\ Suspend
           /\ UNCHANGED <<stage, curr_field_size_counter>>
        \/ /\ r.outcome \in Errors
           /\ Fail(r.outcome)
           /\ UNCHANGED <<stage, curr_field_size_counter>>
  /\ UNCHANGED <<rigid, input, task, next_field_idx, curr_field_name,
                 curr_field_size_limit, given>>

ReadBoundary ==
  /\ At("ReadingBoundary")
  /\ IF BufLen < Len(BoundaryBytes)
     THEN FailOrSuspend(FALSE, "") /\ UNCHANGED <<scan, stage>>
     ELSE /\ Advance(lo + Len(BoundaryBytes))
          /\ IF Matches(body, lo, BoundaryBytes)
             THEN stage' = "DeterminingBoundaryType" /\ Proceed
             ELSE Fail("IncompleteStream") /\ UNCHANGED stage
          /\ UNCHANGED transport_padding_counter
  /\ UNCHANGED <<rigid, input, task, next_field_idx, curr, given>>

DetermineBoundaryType ==
  /\ At("DeterminingBoundaryType")
  /\ \/ /\ BufLen < Len(BOUNDARY_EXT)
        /\ FailOrSuspend(FALSE, "")
        /\ UNCHANGED <<scan, stage>>
     \/ /\ BufLen >= Len(BOUNDARY_EXT) /\ Matches(body, lo, BOUNDARY_EXT)
        /\ Advance(lo + Len(BOUNDARY_EXT))
        /\ stage' = "ReadingClosingTransportPadding"
        /\ Proceed
        /\ UNCHANGED transport_padding_counter
     \/ /\ BufLen >= Len(BOUNDARY_EXT) /\ ~Matches(body, lo, BOUNDARY_EXT)
        /\ stage' = "ReadingTransportPadding"
        /\ Proceed
        /\ UNCHANGED scan
  /\ UNCHANGED <<rigid, input, task, next_field_idx, curr, given>>

\* Mutant: any boundary may end the input.
EndsAtAnyBoundary(closing) == eof

\* The body may end right behind the closing boundary and its padding.
EndsHere(closing) == closing /\ eof

\* The padding between a boundary and its CRLF, then the CRLF.  Padding is
\* counted over the calls until a byte that is not padding is in sight.
ReadTransportPadding ==
  /\ At("ReadingTransportPadding") \/ At("ReadingClosingTransportPadding")
  /\ LET closing == stage = "ReadingClosingTransportPadding"
         end     == PaddingEnd(body, lo, hi)
         counted == SatAdd(transport_padding_counter, end - lo)
         limit   == constraints.boundary_padding
     IN
     \/ /\ end > lo /\ counted > limit
        /\ transport_padding_counter' =
             IF transport_padding_counter > limit
             THEN SatAdd(transport_padding_counter, 1) ELSE limit + 1
        /\ Fail("BoundaryPaddingSizeExceeded")
        /\ UNCHANGED <<lo, boundary_padding_scanned, first_boundary_search_start,
                       header_search_start, stage>>
     \/ /\ end = lo \/ counted <= limit
        /\ end = hi
        /\ Advance(end) /\ transport_padding_counter' = counted
        /\ IF EndsHere(closing)
           THEN stage' = "Eof" /\ Return("end")
           ELSE FailOrSuspend(FALSE, "") /\ UNCHANGED stage
     \/ /\ end = lo \/ counted <= limit
        /\ end < hi /\ hi - end < Len(CRLF)
        /\ Advance(end) /\ transport_padding_counter' = 0
        /\ FailOrSuspend(FALSE, "")
        /\ UNCHANGED stage
     \/ /\ end = lo \/ counted <= limit
        /\ hi - end >= Len(CRLF)
        /\ Advance(end + Len(CRLF)) /\ transport_padding_counter' = 0
        /\ IF ~Matches(body, end, CRLF) THEN Fail("IncompleteStream") /\ UNCHANGED stage
           ELSE IF closing THEN stage' = "Eof" /\ Return("end")
           ELSE stage' = "ReadingFieldHeaders" /\ Proceed
  /\ UNCHANGED <<rigid, input, task, next_field_idx, curr, given>>

\* Mutant: one part too many.
FieldCountPassed == next_field_idx > constraints.max_fields

FieldCountReached == next_field_idx >= constraints.max_fields

\* Mutant: parts that are refused have no index.
TakeUpUncounted(name) ==
  /\ stage' = "ReadingFieldData"
  /\ next_field_idx' = next_field_idx + (IF IsItAllowed(name) THEN 1 ELSE 0)
  /\ curr_field_name' = name
  /\ curr_field_size_limit' = ExtractSizeLimitFor(name)
  /\ curr_field_size_counter' = 0

\* Mutant: the name, the limit and the count are those of an allowed part.
TakeUpLate(name) ==
  /\ stage' = "ReadingFieldData"
  /\ next_field_idx' = next_field_idx + 1
  /\ IF ~IsItAllowed(name) THEN UNCHANGED curr
     ELSE /\ curr_field_name' = name
          /\ curr_field_size_limit' = ExtractSizeLimitFor(name)
          /\ curr_field_size_counter' = 0

\* The parser enters the data of the next part, whether or not it is allowed.
TakeUp(name) ==
  /\ stage' = "ReadingFieldData"
  /\ next_field_idx' = next_field_idx + 1
  /\ curr_field_name' = name
  /\ curr_field_size_limit' = ExtractSizeLimitFor(name)
  /\ curr_field_size_counter' = 0

\* The header block of the next part, and the Field made from it.
ReadFieldHeaders ==
  /\ At("ReadingFieldHeaders")
  /\ LET at    == HeadersEnd
         end   == at + Len(CRLF_CRLF)
         parsed == ParseHeaders(SubSeq(body, lo + 1, end), MaxHeaders)
         name  == parsed.name
     IN
     \/ /\ FieldCountReached
        /\ Fail("FieldCountExceeded")
        /\ UNCHANGED <<scan, parser, curr, given>>
     \/ /\ ~FieldCountReached /\ at = NotFound
        /\ ReadHeaders(at)
        /\ FailOrSuspend(BufLen > constraints.headers, "HeadersSizeExceeded")
        /\ UNCHANGED <<parser, curr, given>>
     \/ /\ ~FieldCountReached /\ at # NotFound
        /\ end - lo > constraints.headers \/ ~parsed.ok
        /\ ReadHeaders(at)
        /\ Fail(IF end - lo > constraints.headers THEN "HeadersSizeExceeded"
                ELSE "ReadHeaderFailed")
        /\ UNCHANGED <<parser, curr, given>>
     \/ /\ ~FieldCountReached /\ at # NotFound
        /\ end - lo <= constraints.headers /\ parsed.ok
        /\ ReadHeaders(at)
        /\ TakeUp(name)
        /\ \/ /\ ~IsItAllowed(name)
              /\ Fail("UnknownField")
              /\ UNCHANGED given
           \/ /\ IsItAllowed(name)
              /\ field' = [idx |-> next_field_idx, name |-> name, done |-> FALSE]
              /\ out' = Append(out, [idx |-> next_field_idx, name |-> name, done |-> FALSE,
                                     start |-> end, upto |-> end])
              /\ Return("field")
  /\ UNCHANGED <<rigid, input, task>>

-----------------------------------------------------------------------------
(* chunk *)

ReadExhausted ==
  /\ Parsing("chunk") /\ field.done
  /\ Return("exhausted")
  /\ UNCHANGED <<rigid, input, scan, task, parser, curr, given>>

ReadChunk ==
  /\ Parsing("chunk") /\ ~field.done
  /\ LET r == ReadFieldData IN
     /\ TakeFieldData(r)
     /\ \/ /\ r.outcome \in {"data", "done"}
           /\ FieldSize(r) > curr_field_size_limit
           /\ Fail("FieldSizeExceeded")
           /\ curr_field_size_counter' = FieldSize(r)
           /\ UNCHANGED <<stage, given>>
        \/ /\ r.outcome \in {"data", "done"}
           /\ FieldSize(r) <= curr_field_size_limit
           /\ stage' = IF r.outcome = "done" THEN "ReadingBoundary" ELSE stage
           /\ field' = [field EXCEPT !.done = (r.outcome = "done")]
           /\ out' = [out EXCEPT ![Len(out)].upto = r.upto,
                                 ![Len(out)].done = (r.outcome = "done")]
           /\ curr_field_size_counter' = FieldSize(r)
           /\ Return("chunk")
        \/ /\ r.outcome = "none"
           /\ Suspend
           /\ UNCHANGED <<stage, curr_field_size_counter, given>>
        \/ /\ r.outcome \in Errors
           /\ Fail(r.outcome)
           /\ UNCHANGED <<stage, curr_field_size_counter, given>>
  /\ UNCHANGED <<rigid, input, task, next_field_idx, curr_field_name, curr_field_size_limit>>

-----------------------------------------------------------------------------
(* poll_stream *)

\* Mutant: the end of the input is not taken for something new.
HasMoreBytes == hi' # hi

\* next_field parses again only if there is something new, chunk always.
HasNewInput == eof' \/ hi' # hi

StreamPolled ==
  /\ pc' = IF call = "chunk" \/ HasNewInput THEN "reparse" ELSE "asleep"
  /\ UNCHANGED <<call, ret, errors>>

FillStep(A) == pc = "fill" /\ A /\ UNCHANGED <<rigid, scan, parser, curr, given>>

FillTooMuch == \E n \in ChunkSizes \union {0} :
                 FillStep(PollTooMuch(n) /\ Fail("StreamSizeExceeded"))
FillChunk   == \E n \in ChunkSizes : FillStep(PollChunk(n) /\ StreamPolled)
FillEmpty   == FillStep(/\ PollEmpty
                        /\ IF budget = 1 THEN StreamPolled ELSE UNCHANGED caller)
FillEnd     == FillStep(PollEnd /\ StreamPolled)
FillError   == FillStep(PollError /\ Fail("StreamReadFailed"))
FillPending == FillStep(PollPending /\ StreamPolled)

\* The source has something to say, and wakes the task it has the waker of.
SourceWake ==
  /\ waker
  /\ waker' = FALSE /\ woken' = TRUE
  /\ UNCHANGED <<rigid, input, scan, budget, parser, curr, caller, given>>

-----------------------------------------------------------------------------
Init ==
  /\ BufferInit
  /\ stage = "FindingFirstBoundary"
  /\ next_field_idx = 0
  /\ curr_field_name = NoName
  /\ curr_field_size_limit = constraints.per_field
  /\ curr_field_size_counter = 0
  /\ field = NoField
  /\ call = "none" /\ pc = "idle" /\ ret = "none" /\ errors = 0
  /\ out = << >>

Application == CallNextField \/ CallChunk \/ DropField \/ Cancel \/ Stopped

NextFieldStep == \/ LockFailure \/ AtEof \/ FindFirstBoundary \/ SkipFieldData
                 \/ ReadBoundary \/ DetermineBoundaryType \/ ReadTransportPadding
                 \/ ReadFieldHeaders

ChunkStep == ReadExhausted \/ ReadChunk

FillNext == FillTooMuch \/ FillChunk \/ FillEmpty \/ FillEnd \/ FillError \/ FillPending

Next == Application \/ Repoll \/ NextFieldStep \/ ChunkStep \/ FillNext \/ SourceWake

Spec == Init /\ [][Next]_vars

-----------------------------------------------------------------------------
FieldType == [idx : {-1} \union Usize, name : Names \union {NoName}, done : BOOLEAN]

Positions == 0..Len(body)

GivenType == [idx : Usize, name : Names \union {NoName}, done : BOOLEAN,
              start : Positions, upto : Positions]

Results == Errors \union {"none", "field", "chunk", "exhausted", "end", "cancelled",
                         "LockFailure"}

TypeOK ==
  /\ BufferTypeOK
  /\ stage \in Stages
  /\ next_field_idx \in Usize
  /\ curr_field_name \in Names \union {NoName}
  /\ curr_field_size_limit \in U64 /\ curr_field_size_counter \in U64
  /\ field \in FieldType
  /\ call \in {"none", "next_field", "chunk"}
  /\ pc \in {"idle", "parse", "fill", "reparse", "asleep"}
  /\ ret \in Results
  /\ errors \in 0..(MaxErrors + 1)
  /\ out \in Seq(GivenType)

\* A limit that the largest u64 turns off, since the counters saturate there.
Exceeds(n, limit) == limit # U64Max /\ n > limit

\* A task that sleeps has been woken or will be: poll_stream wakes it after a
\* chunk and after its budget of empty chunks, a pending source keeps its
\* waker, and the end of the source is parsed in the same poll.
NoLostWakeup == pc = "asleep" => waker \/ woken

\* More input is asked for only when the buffer holds nothing that could be
\* consumed: what a peer can make the parser keep is bounded by the limits in
\* force, whatever the stage and the chunking.
Backlog ==
  CASE stage = "FindingFirstBoundary" -> constraints.preamble + Len(BoundaryBytes) - 1
    [] stage = "ReadingBoundary" -> Len(BoundaryBytes) - 1
    [] stage = "ReadingFieldHeaders" -> constraints.headers
    [] stage = "ReadingFieldData" ->
         Len(FieldBoundary) + Len(BOUNDARY_EXT) + constraints.boundary_padding + 1
    [] OTHER -> 1

BacklogBounded == pc = "fill" => BufLen <= Backlog

\* What the cached search positions skip holds nothing to be found: no end of
\* the headers, no opening boundary, nothing but padding after the boundary.
\* And no cache points outside the buffer, where slicing would panic.
HeadersCacheSound ==
  /\ header_search_start <= BufLen
  /\ \A at \in Occurrences(body, lo, hi, CRLF_CRLF) : at >= lo + header_search_start

FirstBoundaryCacheSound ==
  stage = "FindingFirstBoundary" =>
    /\ first_boundary_search_start <= BufLen
    /\ \A at \in Occurrences(body, lo, hi, BoundaryBytes) :
          LineStart(body, lo, at) => at >= lo + first_boundary_search_start

PaddingCacheSound ==
  boundary_padding_scanned > 0 =>
    LET at == Find(body, lo, hi, FieldBoundary)
    IN  /\ at # NotFound
        /\ PaddingScanned(body, at + Len(FieldBoundary), hi, boundary_padding_scanned)

CachedSearchSound == HeadersCacheSound /\ FirstBoundaryCacheSound /\ PaddingCacheSound

\* The data delivered for a field holds no boundary, not even one that a chunk
\* border cut in two, and a field is complete exactly where a boundary starts.
FieldDataExact ==
  \A k \in DOMAIN out :
    /\ \A at \in out[k].start..(out[k].upto - 1) :
          at + Len(FieldBoundary) <= Len(body) => ~Matches(body, at, FieldBoundary)
    /\ out[k].done =>
          /\ out[k].upto + Len(FieldBoundary) <= Len(body)
          /\ Matches(body, out[k].upto, FieldBoundary)

\* A live field reads its own data: the parser stands inside it, and the name
\* and limit the parser reads with are the field's.
FieldReadsItsOwnData ==
  field # NoField /\ ~field.done =>
    /\ stage = "ReadingFieldData"
    /\ curr_field_name = field.name
    /\ curr_field_size_limit = ExtractSizeLimitFor(field.name)
    /\ out[Len(out)].idx = field.idx
    /\ lo = out[Len(out)].upto \/ curr_field_size_counter > curr_field_size_limit

\* The boundary that ended the field data is in the buffer when it is read:
\* ReadingBoundary neither waits nor fails.
BoundaryReached ==
  stage = "ReadingBoundary" =>
    BufLen >= Len(BoundaryBytes) /\ Matches(body, lo, BoundaryBytes)

\* The body up to `upto` ends in a closing boundary, at the start of a line,
\* and padding.
PaddedClosing(upto) ==
  \E at \in 0..upto, n \in 0..upto :
    /\ at + Len(BoundaryBytes) + Len(BOUNDARY_EXT) + n = upto
    /\ LineStart(body, 0, at) /\ Matches(body, at, BoundaryBytes \o BOUNDARY_EXT)
    /\ \A i \in 1..n : body[upto - n + i] \in Padding

\* Without an error before, the end is reported only behind a closing boundary
\* line.  (An application that goes on after the error for what follows a
\* closing boundary gets the end without one.)
ClosingSeen ==
  stage = "Eof" /\ errors = 0 =>
    \/ PaddedClosing(lo) /\ eof /\ lo = hi
    \/ /\ lo >= Len(CRLF) /\ Matches(body, lo - Len(CRLF), CRLF)
       /\ PaddedClosing(lo - Len(CRLF))

\* No limit can be got round, not even by going on after errors: neither the
\* field size, the stream size and the field count, nor the allowed names.
LimitsHold ==
  /\ ~Exceeds(hi, constraints.whole_stream)
  /\ next_field_idx <= constraints.max_fields
  /\ \A k \in DOMAIN out :
       /\ ~Exceeds(out[k].upto - out[k].start, ExtractSizeLimitFor(out[k].name))
       /\ IsItAllowed(out[k].name)
       /\ out[k].idx < next_field_idx
       /\ k > 1 => out[k - 1].idx < out[k].idx

\* Nothing is appended to the buffer after a chunk has been dropped: the buffer
\* always holds consecutive bytes of the body.
BufferIsPrefix == stream_size_counter <= constraints.whole_stream => hi = sent
=============================================================================
