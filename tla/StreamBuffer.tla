---------------------------- MODULE StreamBuffer ----------------------------
(***************************************************************************)
(* The input buffer of the parser, src/buffer.rs: the bytes received and   *)
(* not consumed yet, what is remembered of the searches made in them, the  *)
(* counters the size limits are checked against, and poll_stream, which    *)
(* moves one chunk from the source into the buffer.                        *)
(*                                                                         *)
(* The source hands out `body`, in chunks it chooses; `sent` of its bytes  *)
(* have been handed out.  The buffer is the window of body after position  *)
(* lo up to position hi: split_to and advance move lo, extend_from_slice   *)
(* moves hi.  A chunk that exceeds the stream limit is dropped, and then   *)
(* sent and hi differ; the representation needs that nothing is appended   *)
(* after that, which is the invariant BufferIsPrefix of Multipart.         *)
(*                                                                         *)
(* The operations are parts of the actions of Multipart, which owns the    *)
(* buffer and calls it.                                                    *)
(***************************************************************************)
EXTENDS ByteSearch

CONSTANTS
  Bodies,            \* what the source may be going to send
  ConstraintSets,    \* the Constraints the parser may be created with
  ChunkSizes,        \* the sizes of the chunks the source makes, 0 apart
  PollBudget,        \* chunks taken in one poll: 32 in the code
  SourceMayFail,     \* whether the source may return an error
  U64Max,            \* the largest u64
  UsizeMax           \* the largest usize

VARIABLES
  body,              \* what the source sends, fixed
  constraints,       \* the limits in force, fixed
  sent,              \* how much of body the source has handed out
  lo, hi,            \* the buffer: body[lo + 1] .. body[hi]
  eof,
  stream_size_counter,
  boundary_padding_scanned,
  transport_padding_counter,
  first_boundary_search_start,
  header_search_start,
  waker,             \* the source holds the waker of the current poll
  woken,             \* the task has been woken since it was last polled
  budget             \* polls of the source left in this poll_stream

rigid   == <<body, constraints>>
input   == <<sent, hi, eof, stream_size_counter>>
scan    == <<lo, boundary_padding_scanned, transport_padding_counter,
             first_boundary_search_start, header_search_start>>
task    == <<waker, woken, budget>>

ASSUME BodiesAssumption   == Bodies \subseteq Seq(Bytes)
ASSUME WidthAssumption    == UsizeMax \in Nat \ {0} /\ U64Max \in Nat /\ UsizeMax <= U64Max
ASSUME SourceAssumption   == /\ ChunkSizes \subseteq Nat \ {0}
                             /\ PollBudget \in Nat \ {0}
                             /\ SourceMayFail \in BOOLEAN

U64   == 0..U64Max
Usize == 0..UsizeMax

ConstraintType ==
  [ whole_stream : U64, preamble : U64, per_field : U64, headers : U64,
    boundary_padding : U64,
    field_map : UNION { [N -> U64] : N \in SUBSET Names },
    allowed_fields : { {} } \union { {S} : S \in SUBSET Names },  \* None or Some(S)
    max_fields : Usize ]                                          \* None is UsizeMax

ASSUME ConstraintsAssumption == ConstraintSets \subseteq ConstraintType

\* Mutants: the counters overflow, into a wider type or around to zero.
WideAdd(x, n) == x + n
WrappingAdd(x, n) == (x + n) % (U64Max + 1)

SatAdd(x, n) == IF x + n > U64Max THEN U64Max ELSE x + n    \* u64::saturating_add
Monus(x, n)  == IF x < n THEN 0 ELSE x - n                  \* usize::saturating_sub

BufLen == hi - lo

-----------------------------------------------------------------------------
(* Reading from the buffer *)

\* Some bytes of field data, up to the next boundary when that is in sight.
\* A record: the outcome or the error, where the data ends, and how much of
\* the padding after the boundary has been scanned.
ReadFieldData ==
  LET at      == Find(body, lo, hi, FieldBoundary)
      suffix  == MatchBoundarySuffix(body, at + Len(FieldBoundary), hi, eof,
                   boundary_padding_scanned, constraints.boundary_padding)
      visible == hi - PartialSuffixLen(body, lo, hi, FieldBoundary)
      Result(o, upto, scanned) == [outcome |-> o, upto |-> upto, scanned |-> scanned]
  IN  IF lo = hi \/ (at = NotFound /\ eof)
      THEN Result(IF eof THEN "IncompleteFieldData" ELSE "none", lo, boundary_padding_scanned)
      ELSE IF at = NotFound
      THEN Result(IF visible = lo THEN "none" ELSE "data", visible, boundary_padding_scanned)
      ELSE IF suffix.verdict \in {"TooLong", "Invalid"}
      THEN Result(IF suffix.verdict = "TooLong" THEN "BoundaryPaddingSizeExceeded"
                  ELSE "IncompleteStream", lo, suffix.scanned)
      ELSE IF suffix.verdict = "Partial"
      THEN Result(IF at = lo THEN "none" ELSE "data", at, suffix.scanned)
      ELSE Result("done", at, 0)

\* Mutant: the CRLF before the boundary is left in the buffer.
TakeOnlyData(r) ==
  /\ lo' = r.upto
  /\ boundary_padding_scanned' = r.scanned
  /\ UNCHANGED <<transport_padding_counter, first_boundary_search_start, header_search_start>>

\* The data of r leaves the buffer, with the CRLF of the boundary it ends at.
TakeFieldData(r) ==
  /\ lo' = IF r.outcome = "done" THEN r.upto + Len(CRLF) ELSE r.upto
  /\ boundary_padding_scanned' = r.scanned
  /\ UNCHANGED <<transport_padding_counter, first_boundary_search_start, header_search_start>>

\* Mutant: the position from which headers are searched survives.
AdvanceOnly(to) ==
  /\ lo' = to
  /\ UNCHANGED <<boundary_padding_scanned, first_boundary_search_start, header_search_start>>

\* advance, read_exact
Advance(to) ==
  /\ lo' = to
  /\ header_search_start' = 0
  /\ UNCHANGED <<boundary_padding_scanned, first_boundary_search_start>>

HeadersEnd == Find(body, lo + header_search_start, hi, CRLF_CRLF)

\* Mutant: an overlap one byte too short.
ShortHeadersOverlap == Len(CRLF_CRLF) - 2

HeadersOverlap == Len(CRLF_CRLF) - 1

ReadHeaders(at) ==
  IF at = NotFound
  THEN /\ header_search_start' = Monus(BufLen, HeadersOverlap)
       /\ UNCHANGED <<lo, boundary_padding_scanned, first_boundary_search_start,
                      transport_padding_counter>>
  ELSE Advance(at + Len(CRLF_CRLF)) /\ UNCHANGED transport_padding_counter

\* Mutant: a marker in the middle of a line opens the body.
FindAnywhere == Find(body, lo + first_boundary_search_start, hi, BoundaryBytes)

FindFirst == FirstBoundary(body, lo, lo + first_boundary_search_start, hi, BoundaryBytes)

\* Mutant: a preamble is measured only once its end has been found.
NoPreambleSeen == 0

PreambleSeen == BufLen - PartialSuffixLen(body, lo, hi, BoundaryBytes)

FirstBoundaryOverlap == Len(BoundaryBytes) - 1

-----------------------------------------------------------------------------
(* poll_stream: one disjunct of the source's answer per operator.  What     *)
(* the caller does next is left to it, but that an error is returned.       *)

Counted(n) == SatAdd(stream_size_counter, n)

\* Mutant: a chunk over the limit is not counted.
SourceSendsUncounted(n) ==
  /\ sent + n <= Len(body)
  /\ BufLen + n <= UsizeMax
  /\ sent' = sent + n
  /\ stream_size_counter' = IF Counted(n) > constraints.whole_stream
                            THEN stream_size_counter ELSE Counted(n)
  /\ UNCHANGED eof

SourceSends(n) ==
  /\ sent + n <= Len(body)
  /\ BufLen + n <= UsizeMax            \* no allocation is larger
  /\ sent' = sent + n
  /\ stream_size_counter' = Counted(n)
  /\ UNCHANGED eof

\* Poll::Ready(Some(Ok(data))), over the limit: the chunk is lost.
PollTooMuch(n) ==
  /\ SourceSends(n)
  /\ Counted(n) > constraints.whole_stream
  /\ UNCHANGED <<hi, task>>

\* Mutant: the task is not rescheduled after a chunk.
PollChunkSilently(n) ==
  /\ SourceSends(n)
  /\ Counted(n) <= constraints.whole_stream
  /\ hi' = hi + n
  /\ UNCHANGED task

PollChunk(n) ==
  /\ SourceSends(n)
  /\ Counted(n) <= constraints.whole_stream
  /\ hi' = hi + n
  /\ woken' = TRUE
  /\ UNCHANGED <<waker, budget>>

\* An empty chunk; the last one of the budget reschedules the task.
PollEmpty ==
  /\ SourceSends(0)
  /\ Counted(0) <= constraints.whole_stream
  /\ budget' = budget - 1
  /\ woken' = (woken \/ budget = 1)
  /\ UNCHANGED <<hi, waker>>

\* Poll::Ready(Some(Err(err)))
PollError ==
  /\ SourceMayFail
  /\ UNCHANGED <<input, task>>

\* Poll::Ready(None)
PollEnd ==
  /\ sent = Len(body)
  /\ eof' = TRUE
  /\ UNCHANGED <<sent, hi, stream_size_counter, task>>

\* Poll::Pending: the source keeps the waker.
PollPending ==
  /\ waker' = TRUE
  /\ UNCHANGED <<input, woken, budget>>

-----------------------------------------------------------------------------
BufferInit ==
  /\ body \in Bodies
  /\ constraints \in ConstraintSets
  /\ sent = 0 /\ lo = 0 /\ hi = 0 /\ eof = FALSE
  /\ stream_size_counter = 0
  /\ boundary_padding_scanned = 0
  /\ transport_padding_counter = 0
  /\ first_boundary_search_start = 0
  /\ header_search_start = 0
  /\ waker = FALSE /\ woken = FALSE /\ budget = PollBudget

BufferTypeOK ==
  /\ body \in Bodies /\ constraints \in ConstraintSets
  /\ sent \in 0..Len(body) /\ lo \in 0..Len(body) /\ hi \in 0..Len(body)
  /\ lo <= hi /\ hi <= sent /\ BufLen <= UsizeMax
  /\ eof \in BOOLEAN
  /\ stream_size_counter \in U64
  /\ boundary_padding_scanned \in Nat
  /\ transport_padding_counter \in U64
  /\ first_boundary_search_start \in Nat
  /\ header_search_start \in Nat
  /\ waker \in BOOLEAN /\ woken \in BOOLEAN /\ budget \in 0..PollBudget
=============================================================================
