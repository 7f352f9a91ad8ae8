-------------------------- MODULE MultipartSafety ---------------------------
(***************************************************************************)
(* The safety of the parser, for every boundary, body, set of limits,      *)
(* chunking and schedule: no lost wake-up, no hole in the buffer, exact    *)
(* field data, and limits that hold; then the lines of the body: where     *)
(* each stage stands when it is entered, what is remembered of the         *)
(* searches for the next line, and how much is kept.                       *)
(***************************************************************************)
EXTENDS MultipartProofs

ParserStep == NextFieldStep \/ ChunkStep

\* What the steps of a poll never touch.
LEMMA ParserFrame ==
  ASSUME ParserStep
  PROVE  UNCHANGED <<rigid, input, task>> /\ pc \in {"parse", "reparse"}
BY DEF ParserStep, NextFieldStep, ChunkStep, LockFailure, AtEof, FindFirstBoundary,
       SkipFieldData, ReadBoundary, DetermineBoundaryType, ReadTransportPadding,
       ReadFieldHeaders, TakeUp, ReadExhausted, ReadChunk, At, Parsing

\* Steps of the application, the executor and the source's wake-up.
LEMMA OutsideFrame ==
  ASSUME Application \/ Repoll \/ SourceWake
  PROVE  UNCHANGED <<rigid, input, scan, parser, curr, out>> /\ field' \in {field, NoField}
BY DEF Application, CallNextField, CallChunk, DropField, Cancel, Stopped, Repoll, SourceWake,
       vars, given

LEMMA FillFrame ==
  ASSUME FillNext
  PROVE  pc = "fill" /\ UNCHANGED <<rigid, scan, parser, curr, given>>
BY DEF FillNext, FillStep, FillTooMuch, FillChunk, FillEmpty, FillEnd, FillError, FillPending

-----------------------------------------------------------------------------
(* Wake-ups *)

\* A poll that has been to the source is either sure to be woken, or at the end
\* of the input, where no stage waits any more.
WakeupDue ==
  /\ pc = "asleep" => waker \/ woken
  /\ pc = "reparse" => waker \/ woken \/ eof

\* At the end of the input every stage comes to a result.
LEMMA NoSuspendAtEnd ==
  ASSUME IInv, ParserStep
  PROVE  pc' = "asleep" => pc = "reparse" /\ ~eof
<1> SUFFICES ASSUME pc' = "asleep"
             PROVE  pc = "reparse" /\ ~eof
  OBVIOUS
<1>1. Suspend => pc = "reparse"
  BY DEF Suspend
<1>2. ~Proceed
  BY ParserFrame DEF Proceed, caller
<1>3. /\ \A result : ~Return(result)
      /\ \A error : ~Fail(error)
  BY DEF Return, Fail
<1>4. \A exceeded, error : FailOrSuspend(exceeded, error) => Suspend /\ ~eof
  BY <1>3 DEF FailOrSuspend
<1>5. CASE SkipFieldData \/ ReadChunk
  <2>1. PICK r : r = ReadFieldData
    OBVIOUS
  <2>2. Suspend /\ r.outcome \in {"data", "none"}
    BY <1>2, <1>3, <1>5, <2>1 DEF SkipFieldData, ReadChunk
  <2>3. BufferTypeOK /\ PaddingCacheSound
    BY DEF IInv, TypeOK
  <2> QED BY <1>1, <2>1, <2>2, <2>3, ReadFieldDataProperties
<1>6. CASE ReadTransportPadding
  <2>1. ~(\E result : Return(result))
    BY <1>3
  <2>2. \E exceeded, error : FailOrSuspend(exceeded, error)
    BY <1>2, <1>3, <1>6, Zenon DEF ReadTransportPadding
  <2> QED BY <1>1, <1>4, <2>2
<1>7. CASE FindFirstBoundary \/ ReadBoundary \/ DetermineBoundaryType
  BY <1>1, <1>2, <1>3, <1>4, <1>7 DEF FindFirstBoundary, ReadBoundary, DetermineBoundaryType
<1>8. CASE ReadFieldHeaders
  BY <1>1, <1>3, <1>4, <1>8 DEF ReadFieldHeaders, TakeUp
<1>9. CASE LockFailure \/ AtEof \/ ReadExhausted
  BY <1>3, <1>9 DEF LockFailure, AtEof, ReadExhausted
<1> QED BY <1>5, <1>6, <1>7, <1>8, <1>9 DEF ParserStep, NextFieldStep, ChunkStep

LEMMA NoReparseBeforeEnd ==
  ASSUME ParserStep, pc' = "reparse"
  PROVE  pc = "reparse" \/ eof
<1>1. \A exceeded, error : FailOrSuspend(exceeded, error) => pc = "reparse" \/ eof
  BY DEF FailOrSuspend, Suspend, Fail
<1>2. /\ Suspend => pc = "reparse" \/ eof
      /\ Proceed => pc = "reparse"
      /\ \A result : ~Return(result)
      /\ \A error : ~Fail(error)
  BY DEF Suspend, Proceed, Return, Fail, caller
<1>3. CASE ReadTransportPadding
  BY <1>1, <1>2, <1>3, Zenon DEF ReadTransportPadding
<1>4. CASE ~ReadTransportPadding
  BY <1>1, <1>2, <1>4 DEF ParserStep, NextFieldStep, ChunkStep, LockFailure, AtEof,
     FindFirstBoundary, SkipFieldData, ReadBoundary, DetermineBoundaryType,
     ReadFieldHeaders, TakeUp, ReadExhausted, ReadChunk
<1> QED BY <1>3, <1>4

LEMMA WakeupStep ==
  ASSUME IInv, WakeupDue, [Next]_vars
  PROVE  WakeupDue'
<1>1. CASE ParserStep
  <2>1. UNCHANGED <<waker, woken, eof>>
    BY <1>1, ParserFrame DEF task, input
  <2> QED BY <1>1, <2>1, NoSuspendAtEnd, NoReparseBeforeEnd DEF WakeupDue
<1>2. CASE Application \/ Repoll
  <2>1. pc' \in {"parse", "idle"} \/ UNCHANGED <<pc, waker, woken, eof>>
    BY <1>2 DEF Application, CallNextField, CallChunk, DropField, Cancel, Stopped, Repoll,
                BeginPoll, Return, vars, caller, task, input
  <2> QED BY <2>1 DEF WakeupDue
<1>3. CASE SourceWake
  BY <1>3 DEF SourceWake, WakeupDue, caller, input
<1>4. CASE FillNext
  <2>1. pc' \in {"asleep", "reparse"} => waker' \/ woken' \/ (pc' = "reparse" /\ eof')
    <3> SUFFICES ASSUME pc' \in {"asleep", "reparse"}
                 PROVE  waker' \/ woken' \/ (pc' = "reparse" /\ eof')
      OBVIOUS
    <3>1. ~(\E error : Fail(error)) /\ ~(UNCHANGED caller)
      BY <1>4, FillFrame DEF Fail, caller
    <3>2. CASE FillChunk
      BY <3>2 DEF FillChunk, FillStep, PollChunk
    <3>3. CASE FillEmpty
      BY <3>1, <3>3 DEF FillEmpty, FillStep, PollEmpty
    <3>4. CASE FillEnd
      BY <3>4 DEF FillEnd, FillStep, PollEnd, StreamPolled, HasNewInput
    <3>5. CASE FillPending
      BY <3>5 DEF FillPending, FillStep, PollPending
    <3>6. CASE FillTooMuch \/ FillError
      BY <3>1, <3>6 DEF FillTooMuch, FillError, FillStep
    <3> QED BY <1>4, <3>2, <3>3, <3>4, <3>5, <3>6 DEF FillNext
  <2> QED BY <2>1 DEF WakeupDue
<1>5. CASE UNCHANGED vars
  BY <1>5 DEF WakeupDue, vars, caller, task, input
<1> QED BY <1>1, <1>2, <1>3, <1>4, <1>5 DEF Next, ParserStep

\* Whatever the source does, a task that returned Pending has been woken or the
\* source keeps its waker.
THEOREM NoWakeupLost == Spec => []NoLostWakeup
<1>1. Init => IInv /\ WakeupDue
  BY TypeInit DEF Init, WakeupDue
<1>2. (IInv /\ WakeupDue) /\ [Next]_vars => (IInv /\ WakeupDue)'
  BY IInvStep, WakeupStep
<1>3. IInv /\ WakeupDue => NoLostWakeup
  BY DEF WakeupDue, NoLostWakeup
<1> QED BY <1>1, <1>2, <1>3, PTL DEF Spec

-----------------------------------------------------------------------------
(* The buffer *)

\* What is in the buffer has been counted, unless the counter is full, and is
\* within the limit; and the buffer has no hole.
BufferCounted ==
  /\ hi <= stream_size_counter \/ stream_size_counter = U64Max
  /\ ~Exceeds(hi, constraints.whole_stream)
  /\ BufferIsPrefix

LEMMA SatAddBounds ==
  ASSUME NEW x \in U64, NEW n \in Nat
  PROVE  /\ SatAdd(x, n) \in U64 /\ SatAdd(x, n) >= x
         /\ SatAdd(x, n) = x + n \/ SatAdd(x, n) = U64Max
BY WidthAssumption DEF SatAdd, U64

LEMMA BufferCountedStep ==
  ASSUME IInv, BufferCounted, [Next]_vars
  PROVE  BufferCounted'
<1>0. /\ hi \in Nat /\ sent \in Nat /\ stream_size_counter \in U64 /\ U64Max \in Nat
      /\ constraints.whole_stream \in U64 /\ ChunkSizes \subseteq Nat
  <2>1. Len(body) \in Nat
    BY BodiesAssumption DEF IInv, TypeOK, BufferTypeOK
  <2> QED BY <2>1, ConstraintTypes, WidthAssumption, SourceAssumption
          DEF IInv, TypeOK, BufferTypeOK
<1>1. CASE UNCHANGED <<rigid, input>>
  BY <1>1 DEF BufferCounted, BufferIsPrefix, Exceeds, rigid, input
<1>2. CASE FillNext
  <2>1. UNCHANGED rigid
    BY <1>2, FillFrame
  <2>2. ASSUME NEW n \in Nat, SourceSends(n)
        PROVE  /\ stream_size_counter' = Counted(n) /\ Counted(n) \in U64
               /\ Counted(n) >= stream_size_counter
               /\ Counted(n) = stream_size_counter + n \/ Counted(n) = U64Max
               /\ sent' = sent + n
    BY <1>0, <2>2, SatAddBounds DEF SourceSends, Counted
  <2>3. ASSUME NEW n \in Nat, PollTooMuch(n)
        PROVE  BufferCounted'
    <3>1. SourceSends(n) /\ Counted(n) > constraints.whole_stream /\ hi' = hi
      BY <2>3 DEF PollTooMuch
    <3>2. hi <= stream_size_counter' \/ stream_size_counter' = U64Max
      BY <1>0, <2>2, <3>1 DEF BufferCounted, U64
    <3> QED BY <1>0, <2>1, <2>2, <3>1, <3>2
            DEF BufferCounted, BufferIsPrefix, Exceeds, rigid, U64
  <2>4. ASSUME NEW n \in Nat, SourceSends(n), Counted(n) <= constraints.whole_stream,
               hi' = hi + n
        PROVE  BufferCounted'
    <3>1. hi = sent
      BY <1>0, <2>2, <2>4 DEF BufferCounted, BufferIsPrefix, U64
    <3>2. hi + n <= Counted(n) \/ Counted(n) = U64Max
      BY <1>0, <2>2, <2>4 DEF BufferCounted, U64
    <3>3. ~Exceeds(hi + n, constraints.whole_stream)
      BY <1>0, <2>2, <2>4, <3>2 DEF Exceeds, U64
    <3> QED BY <2>1, <2>2, <2>4, <3>1, <3>2, <3>3
            DEF BufferCounted, BufferIsPrefix, Exceeds, rigid
  <2>5. CASE FillTooMuch
    BY <1>0, <2>3, <2>5 DEF FillTooMuch, FillStep
  <2>6. CASE FillChunk
    BY <1>0, <2>4, <2>6 DEF FillChunk, FillStep, PollChunk
  <2>7. CASE FillEmpty
    <3>1. SourceSends(0) /\ Counted(0) <= constraints.whole_stream /\ hi' = hi + 0
      BY <1>0, <2>7 DEF FillEmpty, FillStep, PollEmpty
    <3> QED BY <2>4, <3>1
  <2>8. CASE FillEnd
    <3>1. UNCHANGED <<sent, hi, stream_size_counter>>
      BY <2>8 DEF FillEnd, FillStep, PollEnd
    <3> QED BY <2>1, <3>1 DEF BufferCounted, BufferIsPrefix, Exceeds, rigid
  <2>9. CASE FillError \/ FillPending
    <3>1. UNCHANGED input
      BY <2>9 DEF FillError, FillPending, FillStep, PollError, PollPending
    <3> QED BY <1>1, <2>1, <3>1
  <2> QED BY <1>2, <2>5, <2>6, <2>7, <2>8, <2>9 DEF FillNext
<1>3. Application \/ Repoll \/ SourceWake \/ ParserStep \/ UNCHANGED vars
        => UNCHANGED <<rigid, input>>
  BY ParserFrame, OutsideFrame DEF vars
<1> QED BY <1>1, <1>2, <1>3 DEF Next, ParserStep

LEMMA BufferCountedInit == Init => BufferCounted
<1> SUFFICES ASSUME Init PROVE BufferCounted
  OBVIOUS
<1>1. constraints.whole_stream \in U64
  BY ConstraintTypes DEF Init, BufferInit
<1> QED BY <1>1 DEF Init, BufferInit, BufferCounted, BufferIsPrefix, Exceeds, U64

\* Nothing is appended behind a chunk that was dropped.
THEOREM BufferHasNoHole == Spec => []BufferIsPrefix
<1>1. Init => IInv /\ BufferCounted
  BY TypeInit, BufferCountedInit
<1>2. (IInv /\ BufferCounted) /\ [Next]_vars => (IInv /\ BufferCounted)'
  BY IInvStep, BufferCountedStep
<1>3. IInv /\ BufferCounted => BufferIsPrefix
  BY DEF BufferCounted
<1> QED BY <1>1, <1>2, <1>3, PTL DEF Spec

-----------------------------------------------------------------------------
(* The fields given out *)

\* The last field given out is the one being read, the parser's name and limit
\* are its own, and until the limit is passed the parser stands right behind
\* what has been delivered, all of which is counted.
OpenField ==
  ~field.done =>
    /\ Len(out) > 0
    /\ curr_field_name = field.name
    /\ curr_field_size_limit = ExtractSizeLimitFor(field.name)
    /\ out[Len(out)].idx = field.idx /\ out[Len(out)].name = field.name
    /\ ~out[Len(out)].done
    /\ curr_field_size_counter <= curr_field_size_limit =>
         /\ lo = out[Len(out)].upto
         /\ \/ out[Len(out)].upto - out[Len(out)].start <= curr_field_size_counter
            \/ curr_field_size_counter = U64Max

FieldsOK == OpenField /\ LimitsHold /\ FieldDataExact

\* While a field is being read, no step but its own moves the parser.
LEMMA QuietStep ==
  ASSUME IInv, [Next]_vars, ~ReadFieldHeaders, ~ReadChunk
  PROVE  /\ UNCHANGED <<rigid, out, next_field_idx>>
         /\ ~field'.done => field' = field /\ UNCHANGED <<lo, curr>>
<1>0. NoField.done
  BY DEF NoField
<1>1. CASE Application \/ Repoll \/ SourceWake
  BY <1>0, <1>1, OutsideFrame DEF scan, parser
<1>2. CASE FillNext
  BY <1>2, FillFrame DEF scan, parser, given
<1>3. CASE LockFailure \/ AtEof \/ ReadExhausted
  BY <1>3 DEF LockFailure, AtEof, ReadExhausted, scan, parser, given
<1>4. CASE FindFirstBoundary \/ SkipFieldData \/ ReadBoundary \/ DetermineBoundaryType
             \/ ReadTransportPadding
  <2>1. UNCHANGED <<rigid, next_field_idx, given>> /\ field = NoField
    BY <1>4 DEF FindFirstBoundary, SkipFieldData, ReadBoundary, DetermineBoundaryType,
                ReadTransportPadding, At
  <2> QED BY <1>0, <2>1 DEF given
<1>5. CASE UNCHANGED vars
  BY <1>5 DEF vars, scan, parser, given
<1> QED BY <1>1, <1>2, <1>3, <1>4, <1>5 DEF Next, NextFieldStep, ChunkStep

LEMMA QuietFieldsStep ==
  ASSUME IInv, FieldsOK, BufferCounted', [Next]_vars, ~ReadFieldHeaders, ~ReadChunk
  PROVE  FieldsOK'
<1>1. /\ UNCHANGED <<rigid, out, next_field_idx>>
      /\ ~field'.done => field' = field /\ UNCHANGED <<lo, curr>>
  BY QuietStep
<1>2. OpenField'
  BY <1>1 DEF FieldsOK, OpenField, ExtractSizeLimitFor, curr, rigid
<1>3. FieldDataExact'
  BY <1>1 DEF FieldsOK, FieldDataExact, rigid
<1>4. LimitsHold'
  BY <1>1 DEF FieldsOK, LimitsHold, BufferCounted, Exceeds, ExtractSizeLimitFor, IsItAllowed,
              rigid
<1> QED BY <1>2, <1>3, <1>4 DEF FieldsOK

\* A header block makes a field, is refused for its name, or changes nothing
\* that has been given out.
LEMMA FieldOpened ==
  ASSUME IInv, ReadFieldHeaders
  PROVE  /\ UNCHANGED rigid
         /\ field = NoField
         /\ \/ UNCHANGED <<next_field_idx, given>>
            \/ /\ next_field_idx < constraints.max_fields
               /\ next_field_idx' = next_field_idx + 1
               /\ \/ UNCHANGED given
                  \/ \E name : \E end \in lo..hi :
                       /\ IsItAllowed(name)
                       /\ field' = [idx |-> next_field_idx, name |-> name, done |-> FALSE]
                       /\ out' = Append(out, [idx |-> next_field_idx, name |-> name,
                                              done |-> FALSE, start |-> end, upto |-> end])
                       /\ lo' = end
                       /\ curr_field_name' = name
                       /\ curr_field_size_limit' = ExtractSizeLimitFor(name)
                       /\ curr_field_size_counter' = 0
<1> DEFINE at   == HeadersEnd
           end  == at + Len(CRLF_CRLF)
           name == ParseHeaders(SubSeq(body, lo + 1, end), MaxHeaders).name
<1>1. UNCHANGED rigid /\ field = NoField
  BY DEF ReadFieldHeaders, TakeUp, At
<1>2. CASE UNCHANGED <<parser, given>>
  BY <1>1, <1>2 DEF parser
<1>3. CASE ~UNCHANGED <<parser, given>>
  <2>1. /\ ~FieldCountReached /\ at # NotFound
        /\ next_field_idx' = next_field_idx + 1
        /\ ReadHeaders(at)
        /\ \/ UNCHANGED given
           \/ /\ IsItAllowed(name)
              /\ field' = [idx |-> next_field_idx, name |-> name, done |-> FALSE]
              /\ out' = Append(out, [idx |-> next_field_idx, name |-> name, done |-> FALSE,
                                     start |-> end, upto |-> end])
              /\ curr_field_name' = name
              /\ curr_field_size_limit' = ExtractSizeLimitFor(name)
              /\ curr_field_size_counter' = 0
    <3> HIDE DEF at, name
    <3> QED BY <1>3 DEF ReadFieldHeaders, TakeUp, at, name
  <2>2. end \in lo..hi
    BY <2>1, HeadersEndInWindow DEF IInv, TypeOK
  <2>3. lo' = end
    BY <2>1 DEF ReadHeaders, Advance
  <2>4. next_field_idx < constraints.max_fields
    <3>1. constraints.max_fields \in Nat /\ next_field_idx \in Nat
      BY ConstraintTypes, WidthAssumption DEF IInv, TypeOK, BufferTypeOK, Usize
    <3> QED BY <2>1, <3>1 DEF FieldCountReached
  <2> HIDE DEF at, end, name
  <2>5. CASE UNCHANGED given
    BY <1>1, <2>1, <2>4, <2>5
  <2>6. CASE ~UNCHANGED given
    <3>1. PICK stop \in lo..hi : stop = end
      BY <2>2
    <3>2. PICK called : called = name
      OBVIOUS
    <3>3. /\ IsItAllowed(called)
          /\ field' = [idx |-> next_field_idx, name |-> called, done |-> FALSE]
          /\ out' = Append(out, [idx |-> next_field_idx, name |-> called,
                                 done |-> FALSE, start |-> stop, upto |-> stop])
          /\ lo' = stop
          /\ curr_field_name' = called
          /\ curr_field_size_limit' = ExtractSizeLimitFor(called)
          /\ curr_field_size_counter' = 0
      BY <2>1, <2>3, <2>6, <3>1, <3>2
    <3> QED BY <1>1, <2>1, <2>4, <3>3
  <2> QED BY <2>5, <2>6
<1> QED BY <1>2, <1>3

LEMMA GivenTypes ==
  ASSUME IInv
  PROVE  \A k \in DOMAIN out : /\ out[k].idx \in Nat /\ out[k].idx <= UsizeMax
                              /\ out[k].start \in 0..Len(body)
                              /\ out[k].upto \in 0..Len(body)
<1> SUFFICES ASSUME NEW k \in DOMAIN out
             PROVE  /\ out[k].idx \in Nat /\ out[k].idx <= UsizeMax
                    /\ out[k].start \in 0..Len(body)
                    /\ out[k].upto \in 0..Len(body)
  OBVIOUS
<1>1. out[k] \in GivenType
  BY DEF IInv, TypeOK
<1> QED BY <1>1, WidthAssumption DEF GivenType, Usize, Positions

LEMMA HeadersFieldsStep ==
  ASSUME IInv, FieldsOK, BufferCounted', ReadFieldHeaders
  PROVE  FieldsOK'
<1>1. /\ out \in Seq(GivenType) /\ Len(out) \in Nat
      /\ next_field_idx \in Nat /\ constraints.max_fields \in Nat
      /\ UNCHANGED <<body, constraints>> /\ NoField.done
  BY FieldOpened, ConstraintTypes, WidthAssumption
     DEF IInv, TypeOK, BufferTypeOK, Usize, rigid, NoField
<1>2. ~Exceeds(hi, constraints.whole_stream)'
  BY DEF BufferCounted
<1>3. CASE /\ UNCHANGED given
           /\ \/ UNCHANGED next_field_idx
              \/ /\ next_field_idx < constraints.max_fields
                 /\ next_field_idx' = next_field_idx + 1
  <2>1. OpenField'
    BY <1>1, <1>3, FieldOpened DEF OpenField, given
  <2>2. FieldDataExact'
    BY <1>1, <1>3 DEF FieldsOK, FieldDataExact, given
  <2>3. \A k \in DOMAIN out : out[k].idx \in Nat
    BY GivenTypes
  <2>4. LimitsHold'
    BY <1>1, <1>2, <1>3, <2>3
       DEF FieldsOK, LimitsHold, Exceeds, ExtractSizeLimitFor, IsItAllowed, given
  <2> QED BY <2>1, <2>2, <2>4 DEF FieldsOK
<1>4. ASSUME NEW name, NEW end \in lo..hi,
             next_field_idx < constraints.max_fields,
             next_field_idx' = next_field_idx + 1,
             IsItAllowed(name),
             field' = [idx |-> next_field_idx, name |-> name, done |-> FALSE],
             out' = Append(out, [idx |-> next_field_idx, name |-> name,
                                 done |-> FALSE, start |-> end, upto |-> end]),
             lo' = end, curr_field_name' = name,
             curr_field_size_limit' = ExtractSizeLimitFor(name),
             curr_field_size_counter' = 0
      PROVE  FieldsOK'
  <2>1. end \in Nat
    <3>1. Len(body) \in Nat
      BY BodiesAssumption DEF IInv, TypeOK, BufferTypeOK
    <3> QED BY <1>4, <3>1 DEF IInv, TypeOK, BufferTypeOK
  <2> DEFINE g == [idx |-> next_field_idx, name |-> name, done |-> FALSE,
                   start |-> end, upto |-> end]
  <2>2. /\ Len(out') = Len(out) + 1 /\ DOMAIN out' = 1..(Len(out) + 1)
        /\ DOMAIN out = 1..Len(out)
        /\ out'[Len(out) + 1] = g
        /\ \A k \in 1..Len(out) : out'[k] = out[k]
    BY <1>1, <1>4
  <2>3. ExtractSizeLimitFor(name) \in U64 /\ U64Max \in Nat
    BY ConstraintTypes, WidthAssumption DEF IInv, TypeOK, BufferTypeOK
  <2>4. OpenField'
    BY <1>1, <1>4, <2>1, <2>2, <2>3 DEF OpenField, ExtractSizeLimitFor, U64
  <2>5. FieldDataExact'
    <3>1. ASSUME NEW k \in DOMAIN out'
          PROVE  \/ k \in DOMAIN out /\ out'[k] = out[k]
                 \/ out'[k].start..(out'[k].upto - 1) = {} /\ ~out'[k].done
      BY <1>1, <2>1, <2>2
    <3> QED BY <1>1, <3>1 DEF FieldsOK, FieldDataExact
  <2>6. LimitsHold'
    <3>1. \A k \in DOMAIN out : out[k].idx \in Nat /\ out[k].idx < next_field_idx
      BY GivenTypes DEF FieldsOK, LimitsHold
    <3>2. ASSUME NEW k \in DOMAIN out'
          PROVE  /\ ~Exceeds(out'[k].upto - out'[k].start, ExtractSizeLimitFor(out'[k].name))
                 /\ IsItAllowed(out'[k].name)
                 /\ out'[k].idx < next_field_idx'
                 /\ k > 1 => out'[k - 1].idx < out'[k].idx
      <4>1. CASE k \in DOMAIN out
        <5>1. out'[k] = out[k]
          BY <2>2, <4>1
        <5>2. k > 1 => out'[k - 1] = out[k - 1]
          BY <1>1, <2>2, <4>1
        <5> QED BY <1>1, <1>4, <3>1, <4>1, <5>1, <5>2 DEF FieldsOK, LimitsHold
      <4>2. CASE k = Len(out) + 1
        <5>1. out'[k] = g
          BY <2>2, <4>2
        <5>2. k > 1 => out'[k - 1] = out[Len(out)] /\ Len(out) \in DOMAIN out
          BY <1>1, <2>2, <4>2
        <5> QED BY <1>1, <1>4, <2>1, <2>3, <3>1, <5>1, <5>2 DEF Exceeds, U64
      <4> QED BY <1>1, <2>2, <4>1, <4>2
    <3>3. next_field_idx' <= constraints'.max_fields
      BY <1>1, <1>4
    <3> QED BY <1>1, <1>2, <3>2, <3>3
            DEF LimitsHold, Exceeds, ExtractSizeLimitFor, IsItAllowed
  <2> QED BY <2>4, <2>5, <2>6 DEF FieldsOK
<1> QED BY <1>3, <1>4, FieldOpened

\* Data delivered: it follows what was delivered before, it is within the
\* limit, and it contains no boundary.
LEMMA ChunkFieldsStep ==
  ASSUME IInv, FieldsOK, BufferCounted', ReadChunk
  PROVE  FieldsOK'
<1>1. PICK r : r = ReadFieldData
  OBVIOUS
<1>2. /\ ~field.done
      /\ UNCHANGED <<body, constraints, next_field_idx, curr_field_name,
                     curr_field_size_limit>>
      /\ TakeFieldData(r)
  BY <1>1 DEF ReadChunk, rigid
<1>3. /\ r.outcome \in {"data", "done", "none"} \union RfdErrors
      /\ r.upto \in lo..hi
      /\ r.outcome = "done" => /\ r.upto + Len(FieldBoundary) <= hi
                               /\ Matches(body, r.upto, FieldBoundary)
      /\ r.outcome \notin {"data", "done"} => r.upto = lo
      /\ r.outcome \in {"data", "done"} =>
           \A at \in lo..(r.upto - 1) :
             at + Len(FieldBoundary) <= Len(body) => ~Matches(body, at, FieldBoundary)
  BY <1>1, ReadFieldDataProperties DEF IInv, TypeOK
<1>4. /\ lo \in Nat /\ hi \in Nat /\ hi <= Len(body) /\ Len(body) \in Nat /\ r.upto \in Nat
      /\ curr_field_size_counter \in U64 /\ curr_field_size_limit \in U64
      /\ U64Max \in Nat
  <2>1. Len(body) \in Nat
    BY BodiesAssumption DEF IInv, TypeOK, BufferTypeOK
  <2>2. lo \in Nat /\ hi \in Nat /\ hi <= Len(body)
    BY <2>1 DEF IInv, TypeOK, BufferTypeOK
  <2> QED BY <1>3, <2>1, <2>2, WidthAssumption DEF IInv, TypeOK
<1>5. /\ FieldSize(r) \in U64 /\ FieldSize(r) >= curr_field_size_counter
      /\ \/ FieldSize(r) = curr_field_size_counter + (r.upto - lo)
         \/ FieldSize(r) = U64Max
  <2>1. r.upto - lo \in Nat
    BY <1>3, <1>4
  <2> QED BY <1>4, <2>1, SatAddBounds DEF FieldSize
<1>6. ~Exceeds(hi, constraints.whole_stream)'
  BY DEF BufferCounted
<1>7. CASE r.outcome \in {"data", "done"} => FieldSize(r) > curr_field_size_limit
  <2>0. UNCHANGED given
    <3>1. FieldSize(r) > curr_field_size_limit => ~(FieldSize(r) <= curr_field_size_limit)
      BY <1>4, <1>5 DEF U64
    <3> QED BY <1>1, <1>7, <3>1 DEF ReadChunk
  <2>1. OpenField'
    <3>1. \/ ~(curr_field_size_counter' <= curr_field_size_limit)
          \/ curr_field_size_counter' = curr_field_size_counter /\ lo' = lo
      <4>1. CASE r.outcome \in {"data", "done"}
        <5>1. curr_field_size_counter' = FieldSize(r)
          BY <1>1, <1>2, <4>1 DEF ReadChunk, Errors
        <5> QED BY <1>4, <1>5, <1>7, <4>1, <5>1 DEF U64
      <4>2. CASE r.outcome \notin {"data", "done"}
        <5>1. curr_field_size_counter' = curr_field_size_counter
          BY <1>1, <4>2 DEF ReadChunk
        <5>2. lo' = r.upto
          BY <1>2, <4>2 DEF TakeFieldData
        <5> QED BY <1>3, <4>2, <5>1, <5>2
      <4> QED BY <4>1, <4>2
    <3> QED BY <1>2, <2>0, <3>1 DEF FieldsOK, OpenField, ExtractSizeLimitFor, given
  <2>2. FieldDataExact'
    BY <1>2, <2>0 DEF FieldsOK, FieldDataExact, given
  <2>3. LimitsHold'
    BY <1>2, <1>6, <2>0 DEF FieldsOK, LimitsHold, Exceeds, ExtractSizeLimitFor, IsItAllowed,
                            given
  <2> QED BY <2>1, <2>2, <2>3 DEF FieldsOK
<1>8. CASE r.outcome \in {"data", "done"} /\ ~(FieldSize(r) > curr_field_size_limit)
  <2> DEFINE last == Len(out)
  <2>1. /\ r.outcome \in {"data", "done"}
        /\ ~(FieldSize(r) > curr_field_size_limit)
        /\ field' = [field EXCEPT !.done = (r.outcome = "done")]
        /\ out' = [out EXCEPT ![last].upto = r.upto, ![last].done = (r.outcome = "done")]
        /\ curr_field_size_counter' = FieldSize(r)
    BY <1>1, <1>8 DEF ReadChunk, Errors
  <2>2. FieldSize(r) <= curr_field_size_limit
        /\ curr_field_size_counter <= curr_field_size_limit
    BY <1>4, <1>5, <2>1 DEF U64
  <2>3. /\ out \in Seq(GivenType) /\ last \in Nat /\ last > 0
        /\ last \in DOMAIN out /\ out[last] \in GivenType
    <3>1. out \in Seq(GivenType) /\ last > 0
      BY <1>2 DEF IInv, TypeOK, FieldsOK, OpenField
    <3> QED BY <3>1
  <2>4. /\ DOMAIN out' = DOMAIN out /\ Len(out') = last
        /\ \A k \in DOMAIN out : k # last => out'[k] = out[k]
        /\ out'[last] = [out[last] EXCEPT !.upto = r.upto, !.done = (r.outcome = "done")]
    BY <2>1, <2>3
  <2>5. /\ out'[last].upto = r.upto /\ out'[last].done = (r.outcome = "done")
        /\ out'[last].idx = out[last].idx /\ out'[last].name = out[last].name
        /\ out'[last].start = out[last].start
    BY <2>3, <2>4 DEF GivenType
  <2>6. /\ curr_field_name = field.name
        /\ curr_field_size_limit = ExtractSizeLimitFor(field.name)
        /\ out[last].idx = field.idx /\ out[last].name = field.name
        /\ lo = out[last].upto
        /\ \/ out[last].upto - out[last].start <= curr_field_size_counter
           \/ curr_field_size_counter = U64Max
    BY <1>2, <2>2 DEF FieldsOK, OpenField
  <2>7. /\ out[last].start \in Nat /\ out[last].upto \in Nat
    BY <1>4, <2>3, GivenTypes
  <2>8. r.upto - out[last].start <= FieldSize(r) \/ FieldSize(r) = U64Max
    <3> HIDE DEF last
    <3>1. CASE curr_field_size_counter = U64Max
      BY <1>4, <1>5, <3>1 DEF U64
    <3>2. CASE out[last].upto - out[last].start <= curr_field_size_counter
      <4>1. PICK start \in Nat : start = out[last].start
        BY <2>7
      <4>2. lo - start <= curr_field_size_counter
        BY <2>6, <3>2, <4>1
      <4>3. PICK upto \in Nat : upto = r.upto /\ upto >= lo
        BY <1>3, <1>4
      <4>4. PICK size \in Nat : /\ size = FieldSize(r)
                                /\ \/ size = curr_field_size_counter + (upto - lo)
                                   \/ size = U64Max
        BY <1>5, <4>3 DEF U64
      <4>5. upto - start <= size \/ size = U64Max
        BY <1>4, <4>1, <4>2, <4>3, <4>4 DEF U64
      <4> QED BY <4>1, <4>3, <4>4, <4>5
    <3> QED BY <2>6, <3>1, <3>2
  <2>9. OpenField'
    <3>1. field'.name = field.name /\ field'.idx = field.idx
          /\ field'.done = (r.outcome = "done")
      BY <2>1 DEF IInv, TypeOK, FieldType
    <3>2. r.outcome # "done" => lo' = r.upto
      BY <1>2 DEF TakeFieldData
    <3> QED BY <1>2, <2>1, <2>3, <2>4, <2>5, <2>6, <2>8, <3>1, <3>2
            DEF OpenField, ExtractSizeLimitFor
  <2>10. FieldDataExact'
    <3>1. ASSUME NEW k \in DOMAIN out, k # last
          PROVE  out'[k] = out[k]
      BY <2>4, <3>1
    <3>2. ASSUME NEW at \in out[last].start..(r.upto - 1),
                 at + Len(FieldBoundary) <= Len(body)
          PROVE  ~Matches(body, at, FieldBoundary)
      <4>1. CASE at < lo
        <5>1. at \in out[last].start..(out[last].upto - 1)
          BY <1>4, <2>6, <2>7, <4>1
        <5> QED BY <2>3, <3>2, <5>1 DEF FieldsOK, FieldDataExact
      <4>2. CASE at >= lo
        <5>1. at \in lo..(r.upto - 1)
          BY <1>4, <2>7, <4>2
        <5> QED BY <1>3, <2>1, <3>2, <5>1
      <4> QED BY <1>4, <2>7, <4>1, <4>2
    <3>3. r.outcome = "done" => /\ r.upto + Len(FieldBoundary) <= Len(body)
                                /\ Matches(body, r.upto, FieldBoundary)
      BY <1>3, <1>4, BoundaryLengths
    <3> QED BY <1>2, <2>3, <2>4, <2>5, <3>1, <3>2, <3>3 DEF FieldsOK, FieldDataExact
  <2>11. LimitsHold'
    <3>1. ASSUME NEW k \in DOMAIN out'
          PROVE  /\ ~Exceeds(out'[k].upto - out'[k].start, ExtractSizeLimitFor(out'[k].name))
                 /\ IsItAllowed(out'[k].name)
                 /\ out'[k].idx < next_field_idx
                 /\ k > 1 => out'[k - 1].idx < out'[k].idx
      <4>1. /\ ~Exceeds(out[k].upto - out[k].start, ExtractSizeLimitFor(out[k].name))
            /\ IsItAllowed(out[k].name)
            /\ out[k].idx < next_field_idx
            /\ k > 1 => out[k - 1].idx < out[k].idx
        BY <2>4 DEF FieldsOK, LimitsHold
      <4>2. out'[k].idx = out[k].idx /\ out'[k].name = out[k].name
        BY <2>4, <2>5
      <4>3. k > 1 => out'[k - 1].idx = out[k - 1].idx
        <5>1. k > 1 => k - 1 \in DOMAIN out
          BY <2>3, <2>4
        <5> QED BY <2>4, <2>5, <5>1
      <4>4. k = last => ~Exceeds(r.upto - out[last].start, curr_field_size_limit)
        <5>1. CASE FieldSize(r) = U64Max
          BY <1>4, <2>2, <5>1 DEF Exceeds, U64
        <5>2. CASE FieldSize(r) # U64Max
          BY <1>4, <1>5, <2>2, <2>7, <2>8, <5>2 DEF Exceeds, U64
        <5> QED BY <5>1, <5>2
      <4>5. ~Exceeds(out'[k].upto - out'[k].start, ExtractSizeLimitFor(out'[k].name))
        BY <2>4, <2>5, <2>6, <4>1, <4>2, <4>4
      <4> QED BY <4>1, <4>2, <4>3, <4>5
    <3>2. next_field_idx' <= constraints'.max_fields
      BY <1>2 DEF FieldsOK, LimitsHold
    <3> QED BY <1>2, <1>6, <3>1, <3>2
            DEF LimitsHold, Exceeds, ExtractSizeLimitFor, IsItAllowed
  <2> QED BY <2>9, <2>10, <2>11 DEF FieldsOK
<1> QED BY <1>7, <1>8

-----------------------------------------------------------------------------
SafeInv == IInv /\ BufferCounted /\ FieldsOK

LEMMA SafeInit == Init => SafeInv
<1> SUFFICES ASSUME Init PROVE SafeInv
  OBVIOUS
<1>1. IInv /\ BufferCounted
  BY TypeInit, BufferCountedInit
<1>2. FieldDataExact /\ OpenField
  BY DEF Init, FieldDataExact, OpenField, NoField
<1>3. LimitsHold
  <2>1. constraints.max_fields \in Nat
    BY <1>1, ConstraintTypes, WidthAssumption DEF IInv, TypeOK, BufferTypeOK, Usize
  <2> QED BY <1>1, <2>1 DEF Init, LimitsHold, BufferCounted
<1> QED BY <1>1, <1>2, <1>3 DEF SafeInv, FieldsOK

LEMMA SafeStep ==
  ASSUME SafeInv, [Next]_vars
  PROVE  SafeInv'
<1>1. IInv' /\ BufferCounted'
  BY IInvStep, BufferCountedStep DEF SafeInv
<1>2. FieldsOK'
  BY <1>1, QuietFieldsStep, HeadersFieldsStep, ChunkFieldsStep DEF SafeInv
<1> QED BY <1>1, <1>2 DEF SafeInv

\* No limit of the constraints can be passed, by any chunking and by going on
\* after any number of errors.
THEOREM LimitsAlwaysHold == Spec => []LimitsHold
<1>1. SafeInv => LimitsHold
  BY DEF SafeInv, FieldsOK
<1> QED BY <1>1, SafeInit, SafeStep, PTL DEF Spec

\* The data delivered for a field never contains a boundary or the beginning
\* of one that ends it, wherever the chunks are cut, and a complete field ends
\* where one starts.
THEOREM FieldDataIsExact == Spec => []FieldDataExact
<1>1. SafeInv => FieldDataExact
  BY DEF SafeInv, FieldsOK
<1> QED BY <1>1, SafeInit, SafeStep, PTL DEF Spec

\* A live field reads its own data under its own limit.
THEOREM FieldOwnsData == Spec => []FieldReadsItsOwnData
<1>1. SafeInv => FieldReadsItsOwnData
  <2> SUFFICES ASSUME SafeInv, ~field.done
               PROVE  /\ stage = "ReadingFieldData"
                      /\ curr_field_name = field.name
                      /\ curr_field_size_limit = ExtractSizeLimitFor(field.name)
                      /\ out[Len(out)].idx = field.idx
                      /\ \/ lo = out[Len(out)].upto
                         \/ curr_field_size_counter > curr_field_size_limit
    BY DEF FieldReadsItsOwnData
  <2>1. curr_field_size_counter \in Int /\ curr_field_size_limit \in Int
    BY WidthAssumption DEF SafeInv, IInv, TypeOK, U64
  <2> QED BY <2>1 DEF SafeInv, IInv, FieldInData, FieldsOK, OpenField
<1> QED BY <1>1, SafeInit, SafeStep, PTL DEF Spec

-----------------------------------------------------------------------------
(* Lines, searches and the backlog *)

BoundaryLine(at) == LineStart(body, 0, at) /\ Matches(body, at, BoundaryBytes)

\* Where the stages stand.  The stage after a field relies on what the end of
\* the field data left in the buffer, the next one on what that consumed.
Framing ==
  /\ stage = "FindingFirstBoundary" => lo = 0
  /\ stage = "ReadingBoundary" => BufLen >= Len(BoundaryBytes) /\ BoundaryLine(lo)
  /\ stage = "DeterminingBoundaryType" =>
       \E at \in 0..lo : at + Len(BoundaryBytes) = lo /\ BoundaryLine(at)
  /\ stage = "ReadingClosingTransportPadding" /\ errors = 0 => PaddedClosing(lo)
  /\ ClosingSeen
  /\ pc = "fill" => ~eof

\* The boundary that ends field data begins a line.
LEMMA DelimiterIsLine ==
  ASSUME NEW at \in Nat, Matches(body, at, FieldBoundary)
  PROVE  BoundaryLine(at + Len(CRLF))
<1>1. CRLF \in Seq(Bytes)
  BY BytesAssumption DEF CRLF
<1>2. Matches(body, at, CRLF) /\ Matches(body, at + Len(CRLF), BoundaryBytes)
  BY <1>1, BoundaryLengths, MatchesConcat DEF FieldBoundary
<1>3. Len(CRLF) = 2 /\ at + 2 >= 0 + 2 /\ (at + 2) - 2 = at
  BY BoundaryLengths
<1> QED BY <1>2, <1>3 DEF BoundaryLine, LineStart

\* Padding found behind a closing boundary belongs to it.
LEMMA PaddedFurther ==
  ASSUME NEW from \in Nat, NEW to \in Nat, from <= to, PaddedClosing(from),
         NEW end, end = PaddingEnd(body, from, to)
  PROVE  PaddedClosing(end)
<1>1. PICK at \in 0..from, n \in 0..from :
        /\ at + Len(BoundaryBytes) + Len(BOUNDARY_EXT) + n = from
        /\ LineStart(body, 0, at) /\ Matches(body, at, BoundaryBytes \o BOUNDARY_EXT)
        /\ \A i \in 1..n : body[from - n + i] \in Padding
  BY DEF PaddedClosing
<1>2. end \in from..to /\ \A i \in (from + 1)..end : body[i] \in Padding
  BY PaddingEndProperties
<1>3. PICK m \in 0..end : m = n + (end - from)
  BY <1>2
<1>4. ASSUME NEW i \in 1..m PROVE body[end - m + i] \in Padding
  <2>1. end - m + i = from - n + i
    BY <1>2, <1>3
  <2>2. CASE i <= n
    <3>1. i \in 1..n
      BY <1>3, <2>2
    <3> QED BY <1>1, <2>1, <3>1
  <2>3. CASE ~(i <= n)
    <3>1. from - n + i \in (from + 1)..end
      BY <1>2, <1>3, <2>3
    <3> QED BY <1>2, <2>1, <3>1
  <2> QED BY <2>2, <2>3
<1>5. at \in 0..end /\ at + Len(BoundaryBytes) + Len(BOUNDARY_EXT) + m = end
  <2>1. Len(BoundaryBytes) \in Nat /\ Len(BOUNDARY_EXT) = 2
    BY BoundaryLengths
  <2>2. PICK len \in Nat : len = Len(BoundaryBytes)
    BY <2>1
  <2>3. at \in 0..from /\ n \in 0..from /\ at + len + 2 + n = from
    BY <1>1, <2>1, <2>2
  <2> QED BY <1>2, <1>3, <2>1, <2>2, <2>3
<1>6. /\ LineStart(body, 0, at)
      /\ Matches(body, at, BoundaryBytes \o BOUNDARY_EXT)
      /\ m \in 0..end
  BY <1>1, <1>3
<1> QED BY <1>4, <1>5, <1>6, Zenon DEF PaddedClosing

-----------------------------------------------------------------------------
LEMMA FramingTypes ==
  ASSUME IInv
  PROVE  /\ lo \in Nat /\ hi \in Nat /\ lo <= hi /\ errors \in Nat
         /\ Len(BoundaryBytes) \in Nat /\ first_boundary_search_start \in Nat
         /\ BufferTypeOK /\ PaddingCacheSound
<1>1. Len(body) \in Nat
  BY BodiesAssumption DEF IInv, TypeOK, BufferTypeOK
<1> QED BY <1>1, BoundaryLengths, ErrorsAssumption DEF IInv, TypeOK, BufferTypeOK

\* How a step of a poll ends.
LEMMA ParserOutcome ==
  ASSUME IInv, ParserStep
  PROVE  /\ pc' = "fill" => ~eof
         /\ \/ errors' = errors
            \/ errors' > 0 /\ \E error : Fail(error)
<1>1. errors \in Nat /\ pc \in {"parse", "reparse"}
  BY FramingTypes, ParserFrame
<1>2. \A error : Fail(error) => errors' > 0 /\ pc' # "fill"
  BY <1>1 DEF Fail
<1>3. /\ Suspend => errors' = errors /\ (pc' = "fill" => ~eof)
      /\ Proceed => errors' = errors /\ pc' # "fill"
      /\ \A result : Return(result) => errors' = errors /\ pc' # "fill"
  BY <1>1 DEF Suspend, Proceed, Return, caller
<1>4. \A exceeded, error : FailOrSuspend(exceeded, error) => Suspend \/ \E e : Fail(e)
  BY DEF FailOrSuspend
<1>5. Suspend \/ Proceed \/ (\E result : Return(result)) \/ (\E error : Fail(error))
  <2>1. CASE ReadTransportPadding
    BY <1>4, <2>1, Zenon DEF ReadTransportPadding
  <2>2. CASE FindFirstBoundary \/ ReadBoundary \/ DetermineBoundaryType \/ ReadFieldHeaders
    BY <1>4, <2>2 DEF FindFirstBoundary, ReadBoundary, DetermineBoundaryType, ReadFieldHeaders, TakeUp
  <2>3. CASE SkipFieldData \/ ReadChunk
    BY <2>3 DEF SkipFieldData, ReadChunk
  <2>4. CASE LockFailure \/ AtEof \/ ReadExhausted
    BY <2>4 DEF LockFailure, AtEof, ReadExhausted
  <2> QED BY <2>1, <2>2, <2>3, <2>4 DEF ParserStep, NextFieldStep, ChunkStep
<1> QED BY <1>2, <1>3, <1>5

\* The buffer only grows while the source is polled.
LEMMA FillGrows ==
  ASSUME IInv, FillNext
  PROVE  hi' \in Nat /\ hi' >= hi
<1>1. hi \in Nat /\ ChunkSizes \subseteq Nat
  BY FramingTypes, SourceAssumption
<1>2. hi' = hi \/ \E n \in ChunkSizes : hi' = hi + n
  BY DEF FillNext, FillStep, FillTooMuch, FillChunk, FillEmpty, FillEnd, FillError, FillPending,
         PollTooMuch, PollChunk, PollEmpty, PollEnd, PollError, PollPending, input
<1> QED BY <1>1, <1>2

\* A step that moves neither the stage nor the parser's place in the body.
LEMMA FramingStays ==
  ASSUME IInv, Framing, UNCHANGED <<body, stage, lo>>, hi' \in Nat, hi' >= hi,
         eof => eof' /\ hi' = hi, errors' = 0 => errors = 0, pc' = "fill" => ~eof'
  PROVE  Framing'
<1>1. BufLen >= Len(BoundaryBytes) => BufLen' >= Len(BoundaryBytes)
  BY FramingTypes DEF BufLen
<1>2. ClosingSeen'
  BY DEF Framing, ClosingSeen, PaddedClosing
<1> QED BY <1>1, <1>2 DEF Framing, BoundaryLine, PaddedClosing

\* A step of a poll that enters another stage has that stage's part to show.
LEMMA FramingMoves ==
  ASSUME IInv, ParserStep,
         stage' = "FindingFirstBoundary" => lo' = 0,
         stage' = "ReadingBoundary" =>
           BufLen' >= Len(BoundaryBytes) /\ BoundaryLine(lo'),
         stage' = "DeterminingBoundaryType" =>
           \E at \in 0..lo' : at + Len(BoundaryBytes) = lo' /\ BoundaryLine(at),
         stage' = "ReadingClosingTransportPadding" /\ errors' = 0 => PaddedClosing(lo'),
         stage' = "Eof" /\ errors' = 0 =>
           \/ PaddedClosing(lo') /\ eof /\ lo' = hi
           \/ /\ lo' >= Len(CRLF) /\ Matches(body, lo' - Len(CRLF), CRLF)
              /\ PaddedClosing(lo' - Len(CRLF))
  PROVE  Framing'
<1>1. UNCHANGED <<body, hi, eof>> /\ (pc' = "fill" => ~eof)
  BY ParserFrame, ParserOutcome DEF rigid, input
<1>2. ClosingSeen'
  BY <1>1 DEF ClosingSeen, PaddedClosing
<1> QED BY <1>1, <1>2 DEF Framing, BoundaryLine, PaddedClosing

\* ... and one that does not stays where it is.
LEMMA ParserStays ==
  ASSUME IInv, Framing, ParserStep, UNCHANGED <<stage, lo>>
  PROVE  Framing'
<1>1. UNCHANGED <<body, hi, eof>>
  BY ParserFrame DEF rigid, input
<1>2. (errors' = 0 => errors = 0) /\ (pc' = "fill" => ~eof')
  BY <1>1, ParserOutcome
<1> QED BY <1>1, <1>2, FramingStays, FramingTypes

LEMMA FirstBoundaryFraming ==
  ASSUME IInv, Framing, FindFirstBoundary
  PROVE  Framing'
<1>1. ParserStep /\ stage = "FindingFirstBoundary" /\ lo = 0
  BY DEF ParserStep, NextFieldStep, FindFirstBoundary, At, Framing
<1>2. CASE UNCHANGED <<stage, lo>>
  BY <1>1, <1>2, ParserStays
<1>3. CASE ~UNCHANGED <<stage, lo>>
  <2>1. FindFirst # NotFound /\ Advance(FindFirst) /\ stage' = "ReadingBoundary"
    BY <1>3 DEF FindFirstBoundary, scan
  <2>2. PICK from \in Nat : from = lo + first_boundary_search_start
    BY FramingTypes
  <2>3. PICK at : at = FindFirst
    OBVIOUS
  <2>4. at \in Occurrences(body, from, hi, BoundaryBytes) /\ LineStart(body, lo, at)
    BY <2>1, <2>2, <2>3, FirstBoundaryInWindow, FramingTypes DEF FindFirst
  <2>5. lo' = at /\ hi' = hi
    BY <1>1, <2>1, <2>3, ParserFrame DEF Advance, input
  <2>6. BufLen' >= Len(BoundaryBytes) /\ BoundaryLine(at)
    BY <1>1, <2>2, <2>4, <2>5, FramingTypes DEF Occurrences, BufLen, BoundaryLine
  <2> QED BY <1>1, <2>1, <2>5, <2>6, FramingMoves
<1> QED BY <1>2, <1>3

\* The end of a field's data leaves its boundary line in front.
LEMMA FieldDataFraming ==
  ASSUME IInv, Framing, SkipFieldData \/ ReadChunk
  PROVE  Framing'
<1>1. ParserStep /\ stage = "ReadingFieldData"
  BY DEF ParserStep, NextFieldStep, ChunkStep, SkipFieldData, ReadChunk, At, IInv, FieldInData
<1>2. stage' = stage \/ stage' = "ReadingBoundary"
  BY DEF SkipFieldData, ReadChunk
<1>3. PICK r : r = ReadFieldData
  OBVIOUS
<1>4. TakeFieldData(r) /\ (stage' # stage => r.outcome = "done")
  BY <1>3 DEF SkipFieldData, ReadChunk
<1>5. CASE stage' = stage
  BY <1>1, <1>5, FramingMoves
<1>6. CASE stage' # stage
  <2>1. r.outcome = "done" /\ lo' = r.upto + Len(CRLF) /\ hi' = hi
    BY <1>1, <1>4, <1>6, ParserFrame DEF TakeFieldData, input
  <2>2. /\ r.upto \in lo..hi /\ r.upto + Len(FieldBoundary) <= hi
        /\ Matches(body, r.upto, FieldBoundary)
    BY <1>3, <2>1, ReadFieldDataProperties, FramingTypes
  <2>3. PICK upto \in Nat : upto = r.upto
    BY <2>2, FramingTypes
  <2>4. BoundaryLine(upto + Len(CRLF))
    BY <2>2, <2>3, DelimiterIsLine
  <2>5. hi - (upto + Len(CRLF)) >= Len(BoundaryBytes)
    BY <2>2, <2>3, BoundaryLengths, FramingTypes
  <2>6. lo' = upto + Len(CRLF)
    BY <2>1, <2>3
  <2>7. BufLen' >= Len(BoundaryBytes) /\ BoundaryLine(lo')
    BY <2>1, <2>4, <2>5, <2>6 DEF BufLen
  <2> QED BY <1>1, <1>2, <1>6, <2>7, FramingMoves
<1> QED BY <1>5, <1>6

LEMMA BoundaryFraming ==
  ASSUME IInv, Framing, ReadBoundary
  PROVE  Framing'
<1>1. ParserStep /\ BufLen >= Len(BoundaryBytes) /\ BoundaryLine(lo)
  BY DEF ParserStep, NextFieldStep, ReadBoundary, At, Framing
<1>2. ~(BufLen < Len(BoundaryBytes)) /\ Matches(body, lo, BoundaryBytes)
  BY <1>1, FramingTypes DEF BufLen, BoundaryLine
<1>3. stage' = "DeterminingBoundaryType" /\ lo' = lo + Len(BoundaryBytes)
  BY <1>2 DEF ReadBoundary, Advance
<1>4. lo \in 0..(lo + Len(BoundaryBytes))
  BY FramingTypes
<1>5. \E at \in 0..lo' : at + Len(BoundaryBytes) = lo' /\ BoundaryLine(at)
  BY <1>1, <1>3, <1>4
<1> QED BY <1>1, <1>3, <1>5, FramingMoves

LEMMA BoundaryTypeFraming ==
  ASSUME IInv, Framing, DetermineBoundaryType
  PROVE  Framing'
<1>1. ParserStep /\ stage = "DeterminingBoundaryType"
  BY DEF ParserStep, NextFieldStep, DetermineBoundaryType, At
<1>2. CASE UNCHANGED <<stage, lo>>
  BY <1>1, <1>2, ParserStays
<1>3. CASE stage' = "ReadingTransportPadding"
  BY <1>1, <1>3, FramingMoves
<1>4. CASE /\ Matches(body, lo, BOUNDARY_EXT) /\ Advance(lo + Len(BOUNDARY_EXT))
           /\ stage' = "ReadingClosingTransportPadding"
  <2>1. PICK at \in 0..lo : at + Len(BoundaryBytes) = lo /\ BoundaryLine(at)
    BY <1>1 DEF Framing
  <2>2. PICK to \in Nat : to = lo + Len(BOUNDARY_EXT) /\ lo' = to
    BY <1>4, FramingTypes, BoundaryLengths DEF Advance
  <2>3. BOUNDARY_EXT \in Seq(Bytes) /\ at \in Nat
    BY <2>1, BytesAssumption, FramingTypes DEF BOUNDARY_EXT
  <2>4. Matches(body, at, BoundaryBytes \o BOUNDARY_EXT)
    BY <1>4, <2>1, <2>3, MatchesConcat, BoundaryLengths DEF BoundaryLine
  <2>5. /\ at \in 0..to /\ 0 \in 0..to
        /\ at + Len(BoundaryBytes) + Len(BOUNDARY_EXT) + 0 = to
    BY <2>1, <2>2, FramingTypes, BoundaryLengths
  <2>6. PaddedClosing(to)
    <3>1. \A i \in 1..0 : body[to - 0 + i] \in Padding
      OBVIOUS
    <3>2. LineStart(body, 0, at)
      BY <2>1 DEF BoundaryLine
    <3> QED BY <2>4, <2>5, <3>1, <3>2, Zenon DEF PaddedClosing
  <2> QED BY <1>1, <1>4, <2>2, <2>6, FramingMoves
<1> QED BY <1>2, <1>3, <1>4 DEF DetermineBoundaryType, scan

LEMMA TransportPaddingFraming ==
  ASSUME IInv, Framing, ReadTransportPadding
  PROVE  Framing'
<1> DEFINE end == PaddingEnd(body, lo, hi)
           closing == stage = "ReadingClosingTransportPadding"
<1>1. ParserStep
  BY DEF ParserStep, NextFieldStep
<1>2. PICK stop : stop = end
  OBVIOUS
<1>3. stop \in lo..hi
  BY <1>2, FramingTypes, PaddingEndProperties
<1>4. closing /\ errors = 0 => PaddedClosing(stop)
  BY <1>2, FramingTypes, PaddedFurther DEF Framing
<1>5. errors' = 0 => errors = 0 /\ ~(\E error : Fail(error) /\ errors' = errors + 1)
  BY <1>1, ParserOutcome, FramingTypes
<1>6. \/ UNCHANGED <<stage, lo>>
      \/ /\ lo' = stop
         /\ stage' = stage \/ (closing /\ eof /\ stop = hi /\ stage' = "Eof")
      \/ /\ hi - stop >= Len(CRLF) /\ lo' = stop + Len(CRLF)
         /\ \/ stage' = stage /\ Fail("IncompleteStream")
            \/ Matches(body, stop, CRLF) /\ closing /\ stage' = "Eof"
            \/ stage' = "ReadingFieldHeaders"
  <2> HIDE DEF end
  <2> QED BY <1>2 DEF ReadTransportPadding, Advance, EndsHere, end
<1>7. stage \in {"ReadingTransportPadding", "ReadingClosingTransportPadding"}
  BY DEF ReadTransportPadding, At
<1>8. CASE UNCHANGED <<stage, lo>>
  BY <1>1, <1>8, ParserStays
<1>9. CASE /\ lo' = stop
           /\ stage' = stage \/ (closing /\ eof /\ stop = hi /\ stage' = "Eof")
  <2> HIDE DEF end
  <2> QED BY <1>1, <1>4, <1>5, <1>7, <1>9, FramingMoves
<1>10. CASE /\ hi - stop >= Len(CRLF) /\ lo' = stop + Len(CRLF)
            /\ stage' = stage /\ Fail("IncompleteStream")
  <2>1. errors' # 0
    BY <1>5, <1>10 DEF Fail
  <2> QED BY <1>1, <1>7, <1>10, <2>1, FramingMoves
<1>11. CASE /\ hi - stop >= Len(CRLF) /\ lo' = stop + Len(CRLF)
            /\ Matches(body, stop, CRLF) /\ closing /\ stage' = "Eof"
  <2>1. PICK to \in Nat : /\ to = stop + Len(CRLF) /\ to >= Len(CRLF)
                          /\ to - Len(CRLF) = stop
    BY <1>3, BoundaryLengths, FramingTypes
  <2>2. lo' = to
    BY <1>11, <2>1
  <2> HIDE DEF end
  <2> QED BY <1>1, <1>4, <1>5, <1>11, <2>1, <2>2, FramingMoves
<1>12. CASE stage' = "ReadingFieldHeaders"
  BY <1>1, <1>12, FramingMoves
<1> QED BY <1>6, <1>8, <1>9, <1>10, <1>11, <1>12

LEMMA FramingStep ==
  ASSUME IInv, Framing, [Next]_vars
  PROVE  Framing'
<1>1. CASE Application \/ Repoll \/ SourceWake \/ UNCHANGED vars
  <2>1. UNCHANGED <<body, stage, lo, hi, eof>>
    BY <1>1, OutsideFrame DEF vars, rigid, input, scan, parser
  <2>2. errors' = errors /\ (pc' = "fill" => pc = "fill")
    BY <1>1 DEF Application, CallNextField, CallChunk, DropField, Cancel, Stopped, Repoll,
                SourceWake, BeginPoll, Return, vars, caller
  <2> QED BY <2>1, <2>2, FramingStays, FramingTypes DEF Framing
<1>2. CASE FillNext
  <2>1. UNCHANGED <<body, stage, lo>> /\ ~eof
    BY <1>2, FillFrame DEF Framing, rigid, scan, parser
  <2>2. hi' \in Nat /\ hi' >= hi
    BY <1>2, FillGrows
  <2>3. (errors' = 0 => errors = 0) /\ (pc' = "fill" => ~eof')
    <3>1. StreamPolled => errors' = errors /\ pc' # "fill"
      BY DEF StreamPolled
    <3>2. \A error : Fail(error) => errors' = errors + 1 /\ pc' # "fill"
      BY DEF Fail
    <3>3. PollEmpty => eof' = eof
      BY DEF PollEmpty, SourceSends
    <3>4. errors + 1 # 0
      BY FramingTypes
    <3> QED BY <1>2, <2>1, <3>1, <3>2, <3>3, <3>4
            DEF FillNext, FillStep, FillTooMuch, FillChunk, FillEmpty, FillEnd, FillError,
                FillPending, caller
  <2> QED BY <2>1, <2>2, <2>3, FramingStays
<1>3. CASE LockFailure \/ AtEof \/ ReadExhausted
  <2>1. UNCHANGED <<stage, lo>> /\ ParserStep
    BY <1>3 DEF LockFailure, AtEof, ReadExhausted, parser, scan, ParserStep, NextFieldStep,
                ChunkStep
  <2> QED BY <2>1, ParserStays
<1>4. CASE ReadFieldHeaders
  <2>1. ParserStep /\ stage' \in {"ReadingFieldHeaders", "ReadingFieldData"}
    BY <1>4 DEF ParserStep, NextFieldStep, ReadFieldHeaders, TakeUp, At, parser
  <2> QED BY <2>1, FramingMoves
<1> QED BY <1>1, <1>2, <1>3, <1>4, FirstBoundaryFraming, FieldDataFraming, BoundaryFraming,
           BoundaryTypeFraming, TransportPaddingFraming DEF Next, NextFieldStep, ChunkStep

LEMMA FramingInit == Init => Framing
BY DEF Init, BufferInit, Framing, ClosingSeen

\* When the stage ReadingBoundary is entered, by whichever poll, the boundary is
\* in the buffer and in front: the stage neither waits nor fails.
THEOREM BoundaryIsReached == Spec => []BoundaryReached
<1>1. IInv /\ Framing => BoundaryReached
  BY DEF Framing, BoundaryReached, BoundaryLine
<1>2. (IInv /\ Framing) /\ [Next]_vars => (IInv /\ Framing)'
  BY IInvStep, FramingStep
<1> QED BY <1>1, <1>2, TypeInit, FramingInit, PTL DEF Spec

\* Until the first error, the end of the form is reported only when a closing
\* boundary line has been read: a body cut short is never taken for complete.
THEOREM EndIsClosed == Spec => []ClosingSeen
<1>1. IInv /\ Framing => ClosingSeen
  BY DEF Framing
<1>2. (IInv /\ Framing) /\ [Next]_vars => (IInv /\ Framing)'
  BY IInvStep, FramingStep
<1> QED BY <1>1, <1>2, TypeInit, FramingInit, PTL DEF Spec

-----------------------------------------------------------------------------
(* What the parser remembers of its searches, and how much it keeps *)

\* A cached position says that a pattern does not start in front of it, and
\* leaves so much behind it that more input cannot change that.
HeadersSearched ==
  header_search_start > 0 =>
    /\ stage = "ReadingFieldHeaders"
    /\ header_search_start + HeadersOverlap <= BufLen
    /\ \A at \in lo..(lo + header_search_start - 1) : ~Matches(body, at, CRLF_CRLF)

FirstBoundarySearched ==
  stage = "FindingFirstBoundary" /\ first_boundary_search_start > 0 =>
    /\ first_boundary_search_start + FirstBoundaryOverlap <= BufLen
    /\ \A at \in lo..(lo + first_boundary_search_start - 1) :
         LineStart(body, lo, at) => ~Matches(body, at, BoundaryBytes)

Searched == HeadersSearched /\ FirstBoundarySearched

LEMMA SearchTypes ==
  ASSUME IInv
  PROVE  /\ lo \in Nat /\ hi \in Nat /\ lo <= hi
         /\ header_search_start \in Nat /\ first_boundary_search_start \in Nat
         /\ BufLen \in Nat /\ BufLen = hi - lo
         /\ HeadersOverlap = 3 /\ Len(CRLF_CRLF) = 4
         /\ Len(BoundaryBytes) \in Nat /\ Len(BoundaryBytes) >= 2
         /\ FirstBoundaryOverlap = Len(BoundaryBytes) - 1
<1>1. header_search_start \in Nat
  BY DEF IInv, TypeOK, BufferTypeOK
<1> QED BY <1>1, FramingTypes, BoundaryLengths
        DEF BufLen, HeadersOverlap, FirstBoundaryOverlap

\* The strengthened form implies the one the runs check.
LEMMA SearchedIsSound ==
  ASSUME IInv, Searched
  PROVE  CachedSearchSound
<1> USE SearchTypes
<1>1. HeadersCacheSound
  <2>1. header_search_start <= BufLen
    BY DEF Searched, HeadersSearched
  <2>2. ASSUME NEW at \in Occurrences(body, lo, hi, CRLF_CRLF)
        PROVE  at >= lo + header_search_start
    BY <2>2 DEF Occurrences, Searched, HeadersSearched
  <2> QED BY <2>1, <2>2 DEF HeadersCacheSound
<1>2. FirstBoundaryCacheSound
  <2> SUFFICES ASSUME stage = "FindingFirstBoundary"
               PROVE  /\ first_boundary_search_start <= BufLen
                      /\ \A at \in Occurrences(body, lo, hi, BoundaryBytes) :
                           LineStart(body, lo, at) => at >= lo + first_boundary_search_start
    BY DEF FirstBoundaryCacheSound
  <2>1. first_boundary_search_start <= BufLen
    BY DEF Searched, FirstBoundarySearched
  <2>2. ASSUME NEW at \in Occurrences(body, lo, hi, BoundaryBytes), LineStart(body, lo, at)
        PROVE  at >= lo + first_boundary_search_start
    BY <2>2 DEF Occurrences, Searched, FirstBoundarySearched
  <2> QED BY <2>1, <2>2
<1> QED BY <1>1, <1>2 DEF CachedSearchSound, IInv

-----------------------------------------------------------------------------
\* More input, or none: nothing of the searches is lost.
LEMMA SearchedStays ==
  ASSUME IInv, Searched, hi' \in Nat, hi' >= hi,
         UNCHANGED <<body, stage, lo, header_search_start, first_boundary_search_start>>
  PROVE  Searched'
<1>1. BufLen' >= BufLen /\ BufLen' \in Int
  BY SearchTypes DEF BufLen
<1>2. HeadersSearched'
  BY <1>1, SearchTypes DEF Searched, HeadersSearched, HeadersOverlap
<1>3. FirstBoundarySearched'
  BY <1>1, SearchTypes DEF Searched, FirstBoundarySearched, FirstBoundaryOverlap
<1> QED BY <1>2, <1>3 DEF Searched

\* A step that leaves the searches behind.
LEMMA SearchedElsewhere ==
  ASSUME header_search_start' = 0, stage' # "FindingFirstBoundary"
  PROVE  Searched'
BY DEF Searched, HeadersSearched, FirstBoundarySearched

LEMMA HeadersSearchStep ==
  ASSUME IInv, Searched, ReadFieldHeaders
  PROVE  Searched'
<1>1. stage = "ReadingFieldHeaders" /\ stage' # "FindingFirstBoundary"
  BY DEF ReadFieldHeaders, TakeUp, At, parser
<1>2. UNCHANGED <<body, hi>>
  BY ParserFrame DEF ParserStep, NextFieldStep, rigid, input
<1>3. PICK at : at = HeadersEnd
  OBVIOUS
<1>4. \/ UNCHANGED <<scan, parser>>
      \/ at = NotFound /\ ReadHeaders(at) /\ UNCHANGED parser
      \/ at # NotFound /\ ReadHeaders(at)
  BY <1>3 DEF ReadFieldHeaders, TakeUp
<1>5. CASE UNCHANGED <<scan, parser>>
  BY <1>2, <1>5, SearchedStays, SearchTypes DEF scan, parser
<1>6. CASE at = NotFound /\ ReadHeaders(at) /\ UNCHANGED parser
  <2>1. UNCHANGED <<stage, lo>> /\ header_search_start' = Monus(BufLen, HeadersOverlap)
    BY <1>6 DEF ReadHeaders, parser
  <2>2. PICK from \in Nat : from = lo + header_search_start
    BY SearchTypes
  <2>3. Occurrences(body, from, hi, CRLF_CRLF) = {}
    <3>1. Find(body, from, hi, CRLF_CRLF) = NotFound
      BY <1>3, <1>6, <2>2 DEF HeadersEnd
    <3>2. hi \in Int /\ Len(CRLF_CRLF) \in Nat
      BY SearchTypes
    <3> QED BY <3>1, <3>2, FindIsFirst
  <2>4. PICK start \in Nat : /\ start = header_search_start'
                             /\ start > 0 => start + 3 = hi - lo
    BY <2>1, SearchTypes DEF Monus
  <2>5. ASSUME start > 0, NEW p \in lo..(lo + start - 1)
        PROVE  ~Matches(body, p, CRLF_CRLF)
    <3>1. lo \in Nat /\ hi \in Nat /\ start + 3 = hi - lo /\ header_search_start \in Nat
      BY <2>4, <2>5, SearchTypes
    <3> p \in Int /\ lo <= p /\ p <= hi - 4
      BY ONLY <2>5, <3>1
    <3>2. CASE p < from
      <4>1. header_search_start > 0 /\ p \in lo..(lo + header_search_start - 1)
        BY ONLY <2>2, <3>1, <3>2, p \in Int /\ lo <= p
      <4> QED BY <4>1 DEF Searched, HeadersSearched
    <3>3. CASE ~(p < from)
      <4>1. p \in from..(hi - 4)
        BY ONLY <2>2, <3>1, <3>3, p \in Int /\ p <= hi - 4
      <4>2. Len(CRLF_CRLF) = 4
        BY SearchTypes
      <4> QED BY <2>3, <4>1, <4>2 DEF Occurrences
    <3> QED BY <3>2, <3>3
  <2>6. HeadersSearched'
    <3>1. lo \in Nat /\ hi \in Nat /\ HeadersOverlap = 3
      BY SearchTypes
    <3>2. BufLen' = hi - lo /\ HeadersOverlap' = 3
      BY <1>2, <2>1, <3>1 DEF BufLen, HeadersOverlap
    <3>3. ASSUME start > 0 PROVE start + 3 <= hi - lo
      <4>1. start + 3 = hi - lo
        BY <2>4, <3>3
      <4> QED BY ONLY <3>1, <4>1, start \in Nat
    <3> QED BY <1>1, <1>2, <2>1, <2>4, <2>5, <3>2, <3>3 DEF HeadersSearched
  <2> QED BY <1>1, <2>6 DEF Searched, FirstBoundarySearched
<1>7. CASE at # NotFound /\ ReadHeaders(at)
  <2>1. header_search_start' = 0
    BY <1>7 DEF ReadHeaders, Advance
  <2> QED BY <1>1, <2>1, SearchedElsewhere
<1> QED BY <1>4, <1>5, <1>6, <1>7

LEMMA FirstBoundarySearchStep ==
  ASSUME IInv, Searched, FindFirstBoundary
  PROVE  Searched'
<1> USE SearchTypes
<1>1. stage = "FindingFirstBoundary" /\ header_search_start = 0
  BY DEF FindFirstBoundary, At, Searched, HeadersSearched
<1>2. UNCHANGED <<body, hi>>
  BY ParserFrame DEF ParserStep, NextFieldStep, rigid, input
<1>3. CASE UNCHANGED <<scan, stage>>
  BY <1>2, <1>3, SearchedStays DEF scan
<1>4. CASE Advance(FindFirst) /\ stage' = "ReadingBoundary"
  BY <1>4, SearchedElsewhere DEF Advance
<1>5. CASE /\ FindFirst = NotFound
           /\ first_boundary_search_start' = Monus(BufLen, FirstBoundaryOverlap)
           /\ UNCHANGED <<lo, header_search_start, stage>>
  <2> DEFINE from == lo + first_boundary_search_start
  <2>1. ASSUME NEW at \in Occurrences(body, from, hi, BoundaryBytes)
        PROVE  ~LineStart(body, lo, at)
    <3> DEFINE found == { p \in Occurrences(body, from, hi, BoundaryBytes) :
                            LineStart(body, lo, p) }
    <3>1. from \in Int /\ found \in SUBSET Int /\ \A p \in found : from <= p
      BY DEF Occurrences
    <3>2. found # {} => Min(found) \in found
      <4> HIDE DEF found, from
      <4> QED BY <3>1, MinIsLeast, Zenon
    <3>3. found # {} => FindFirst = Min(found)
      BY DEF FindFirst, FirstBoundary, FirstOf
    <3>4. NotFound \notin found
      BY DEF NotFound, Occurrences
    <3> QED BY <1>5, <2>1, <3>2, <3>3, <3>4
  <2>2. ASSUME first_boundary_search_start' > 0
        PROVE  first_boundary_search_start' + FirstBoundaryOverlap = BufLen
    BY <1>5, <2>2 DEF Monus
  <2>3. ASSUME first_boundary_search_start' > 0,
               NEW at \in lo..(lo + first_boundary_search_start' - 1),
               LineStart(body, lo, at)
        PROVE  ~Matches(body, at, BoundaryBytes)
    <3>1. at \in lo..(hi - Len(BoundaryBytes))
      <4>1. PICK start \in Nat, len \in Nat :
              /\ start = first_boundary_search_start' /\ len = Len(BoundaryBytes)
        BY <1>5 DEF Monus
      <4>2. start > 0 /\ start + (len - 1) = hi - lo /\ lo \in Nat /\ hi \in Nat
        BY <2>2, <2>3, <4>1
      <4>3. at \in lo..(lo + start - 1)
        BY <2>3, <4>1
      <4>4. at \in lo..(hi - len)
        BY ONLY <4>2, <4>3, start \in Nat, len \in Nat
      <4> QED BY <4>1, <4>4
    <3>2. CASE at < from
      <4>1. /\ lo \in Nat /\ first_boundary_search_start \in Nat /\ lo <= at /\ at \in Int
            /\ at < lo + first_boundary_search_start
        BY <3>1, <3>2
      <4>2. /\ first_boundary_search_start > 0
            /\ at \in lo..(lo + first_boundary_search_start - 1)
        BY ONLY <4>1
      <4> QED BY <1>1, <2>3, <4>2 DEF Searched, FirstBoundarySearched
    <3>3. CASE ~(at < from)
      <4>1. at \in from..(hi - Len(BoundaryBytes))
        BY <3>1, <3>3
      <4> QED BY <2>1, <2>3, <4>1 DEF Occurrences
    <3> QED BY <3>2, <3>3
  <2>4. HeadersSearched'
    BY <1>1, <1>5 DEF HeadersSearched
  <2> HIDE DEF from
  <2>5. FirstBoundarySearched'
    BY <1>2, <1>5, <2>2, <2>3 DEF FirstBoundarySearched, BufLen, FirstBoundaryOverlap
  <2> QED BY <2>4, <2>5 DEF Searched
<1> QED BY <1>3, <1>4, <1>5 DEF FindFirstBoundary

LEMMA SearchedStep ==
  ASSUME IInv, Searched, [Next]_vars
  PROVE  Searched'
<1>1. CASE Application \/ Repoll \/ SourceWake \/ UNCHANGED vars
  <2>1. UNCHANGED <<body, stage, lo, hi, header_search_start, first_boundary_search_start>>
    BY <1>1, OutsideFrame DEF vars, rigid, input, scan, parser
  <2> QED BY <2>1, SearchedStays, SearchTypes
<1>2. CASE FillNext
  BY <1>2, FillFrame, FillGrows, SearchedStays DEF rigid, scan, parser
<1>3. CASE LockFailure \/ AtEof \/ ReadExhausted
  <2>1. UNCHANGED <<body, stage, lo, hi, header_search_start, first_boundary_search_start>>
    BY <1>3 DEF LockFailure, AtEof, ReadExhausted, rigid, input, scan, parser
  <2> QED BY <2>1, SearchedStays, SearchTypes
<1>4. CASE SkipFieldData \/ ReadChunk
  <2>1. stage = "ReadingFieldData"
    BY <1>4 DEF SkipFieldData, ReadChunk, At, IInv, FieldInData
  <2>2. header_search_start = 0
    BY <2>1, SearchTypes DEF Searched, HeadersSearched
  <2>3. header_search_start' = 0 /\ stage' # "FindingFirstBoundary"
    BY <1>4, <2>1, <2>2 DEF SkipFieldData, ReadChunk, TakeFieldData
  <2> QED BY <2>3, SearchedElsewhere
<1>5. CASE ReadBoundary \/ DetermineBoundaryType \/ ReadTransportPadding
  <2>1. /\ stage \in {"ReadingBoundary", "DeterminingBoundaryType", "ReadingTransportPadding",
                      "ReadingClosingTransportPadding"}
        /\ stage' # "FindingFirstBoundary"
    BY <1>5 DEF ReadBoundary, DetermineBoundaryType, ReadTransportPadding, At
  <2>2. header_search_start = 0
    BY <2>1, SearchTypes DEF Searched, HeadersSearched
  <2>3. header_search_start' \in {header_search_start, 0}
    BY <1>5 DEF ReadBoundary, DetermineBoundaryType, ReadTransportPadding, Advance, scan
  <2> QED BY <2>1, <2>2, <2>3, SearchedElsewhere
<1> QED BY <1>1, <1>2, <1>3, <1>4, <1>5, HeadersSearchStep, FirstBoundarySearchStep
        DEF Next, NextFieldStep, ChunkStep

LEMMA SearchedInit == Init => Searched
BY DEF Init, BufferInit, Searched, HeadersSearched, FirstBoundarySearched

\* No search starts behind what it looks for, and none outside the buffer,
\* whatever was consumed or received since the position was remembered.
THEOREM SearchesAreSound == Spec => []CachedSearchSound
<1>1. (IInv /\ Searched) /\ [Next]_vars => (IInv /\ Searched)'
  BY IInvStep, SearchedStep
<1> QED BY <1>1, TypeInit, SearchedInit, SearchedIsSound, PTL DEF Spec

-----------------------------------------------------------------------------
(* How much is kept *)

\* Field data that asks for more input leaves no more than a delimiter that has
\* not been decided: its marker, the hyphens, the padding and half a CRLF.
LEMMA FieldDataKept ==
  ASSUME IInv, ~eof, NEW r, r = ReadFieldData, r.outcome \in {"none", "data"}
  PROVE  hi - r.upto <= Len(FieldBoundary) + Len(BOUNDARY_EXT) + constraints.boundary_padding + 1
<1> DEFINE at    == Find(body, lo, hi, FieldBoundary)
           p     == PartialSuffixLen(body, lo, hi, FieldBoundary)
           limit == constraints.boundary_padding
<1>1. /\ lo \in Nat /\ hi \in Nat /\ lo <= hi /\ boundary_padding_scanned \in Nat
      /\ limit \in Nat /\ PaddingCacheSound /\ eof \in BOOLEAN
  BY FramingTypes, ConstraintTypes, WidthAssumption DEF BufferTypeOK, U64
<1>2. PICK len \in Nat : len = Len(FieldBoundary) /\ len >= 4 /\ Len(BOUNDARY_EXT) = 2
  BY BoundaryLengths
<1>3. CASE lo = hi
  <2>1. r.upto = lo
    BY <1>3 DEF ReadFieldData
  <2> QED BY <1>1, <1>2, <1>3, <2>1
<1>4. CASE lo < hi /\ at = NotFound
  <2>1. p \in 0..(len - 1)
    <3>1. p \in PartialSuffixes(body, lo, hi, FieldBoundary)
      BY <1>1, <1>2, PartialSuffixIsLongest
    <3> QED BY <1>2, <3>1 DEF PartialSuffixes
  <2>2. r.upto = hi - p
    BY <1>1, <1>4 DEF ReadFieldData
  <2> HIDE DEF p
  <2>3. hi - r.upto = p
    BY <1>1, <2>1, <2>2
  <2> QED BY <1>1, <1>2, <2>1, <2>3
<1>5. CASE lo < hi /\ at # NotFound
  <2>1. PICK pos : pos = at
    OBVIOUS
  <2>2. pos \in Occurrences(body, lo, hi, FieldBoundary)
    BY <1>1, <1>2, <1>5, <2>1, FindIsFirst
  <2>3. pos \in Nat /\ pos + len <= hi
    BY <1>1, <1>2, <2>2 DEF Occurrences
  <2>4. PICK from \in Nat : from = pos + Len(FieldBoundary) /\ from = pos + len
    BY <1>2, <2>3
  <2>5. PICK m : m = MatchBoundarySuffix(body, from, hi, eof, boundary_padding_scanned, limit)
    OBVIOUS
  <2>6. boundary_padding_scanned > 0 => PaddingScanned(body, from, hi, boundary_padding_scanned)
    BY <1>1, <2>1, <2>4 DEF PaddingCacheSound
  <2>7. m.verdict \in Verdicts /\ (m.verdict = "Partial" => hi - from <= 2 + limit + 1)
    <3> HIDE DEF limit
    <3>1. from <= hi
      BY <1>1, <2>3, <2>4
    <3> QED BY <1>1, <2>5, <2>6, <3>1, MatchSuffixProperties
  <2>8. m.verdict = "Partial" /\ r.upto = pos
    BY <1>1, <1>5, <2>1, <2>4, <2>5, <2>7 DEF ReadFieldData, Verdicts
  <2> HIDE DEF limit
  <2>9. hi - pos <= len + 2 + limit + 1
    BY <1>1, <2>3, <2>4, <2>7, <2>8
  <2> QED BY <1>2, <2>8, <2>9 DEF limit
<1> QED BY <1>1, <1>3, <1>4, <1>5

\* Only a parse that suspends goes on to the source.
LEMMA FillsOnlySuspended ==
  ASSUME pc \in {"parse", "reparse"}, pc' = "fill"
  PROVE  /\ ~Proceed /\ \A result : ~Return(result)
         /\ \A error : ~Fail(error)
         /\ Suspend => ~eof
         /\ \A exceeded, error : FailOrSuspend(exceeded, error) => ~exceeded /\ ~eof
<1>1. ~Proceed /\ (\A result : ~Return(result)) /\ (\A error : ~Fail(error))
  BY DEF Proceed, caller, Return, Fail
<1> QED BY <1>1 DEF FailOrSuspend, Suspend

\* Each stage, when it suspends, leaves what it cannot decide yet.
LEMMA ParserBacklog ==
  ASSUME IInv, ParserStep, pc' = "fill"
  PROVE  BufLen' <= Backlog'
<1>1. /\ UNCHANGED <<body, constraints, hi>> /\ pc \in {"parse", "reparse"}
      /\ lo \in Nat /\ hi \in Nat /\ lo <= hi
  BY ParserFrame, FramingTypes DEF rigid, input
<1>2. PICK len \in Nat : len = Len(BoundaryBytes) /\ len >= 2
  BY BoundaryLengths
<1>3. Len(CRLF) = 2 /\ Len(BOUNDARY_EXT) = 2
  BY BoundaryLengths
<1>4. CASE FindFirstBoundary
  <2>1. /\ UNCHANGED <<lo, stage>> /\ stage = "FindingFirstBoundary"
        /\ FailOrSuspend(PreambleSeen > constraints.preamble, "PreambleSizeExceeded")
    BY <1>1, <1>4, FillsOnlySuspended DEF FindFirstBoundary, At
  <2>2. ~(PreambleSeen > constraints.preamble)
    BY <1>1, <2>1, FillsOnlySuspended
  <2>3. PICK n : n = PartialSuffixLen(body, lo, hi, BoundaryBytes)
    OBVIOUS
  <2>4. n \in 0..(len - 1)
    <3>1. n \in PartialSuffixes(body, lo, hi, BoundaryBytes)
      BY <1>1, <1>2, <2>3, PartialSuffixIsLongest
    <3> QED BY <1>2, <3>1 DEF PartialSuffixes
  <2>5. PreambleSeen = hi - lo - n
    BY <2>3 DEF PreambleSeen, BufLen
  <2>6. constraints.preamble \in Nat
    BY ConstraintTypes, WidthAssumption DEF IInv, TypeOK, BufferTypeOK, U64
  <2>7. hi - lo <= constraints.preamble + len - 1
    BY <1>1, <2>2, <2>4, <2>5, <2>6
  <2> QED BY <1>1, <1>2, <2>1, <2>7 DEF Backlog, BufLen
<1>5. CASE ReadBoundary
  <2>1. stage = "ReadingBoundary" /\ (~(BufLen < Len(BoundaryBytes)) => FALSE)
    BY <1>1, <1>5, FillsOnlySuspended DEF ReadBoundary, At
  <2>2. UNCHANGED <<lo, stage>>
    BY <1>5, <2>1 DEF ReadBoundary, scan
  <2>3. hi - lo <= len - 1
    BY <1>1, <1>2, <2>1 DEF BufLen
  <2> QED BY <1>1, <1>2, <2>1, <2>2, <2>3 DEF Backlog, BufLen
<1>6. CASE DetermineBoundaryType
  <2>1. /\ stage = "DeterminingBoundaryType" /\ BufLen < Len(BOUNDARY_EXT)
        /\ UNCHANGED <<lo, stage>>
    BY <1>1, <1>6, FillsOnlySuspended DEF DetermineBoundaryType, At, scan
  <2>2. hi - lo <= 1
    BY <1>1, <1>3, <2>1 DEF BufLen
  <2> QED BY <1>1, <2>1, <2>2 DEF Backlog, BufLen
<1>7. CASE ReadTransportPadding
  <2>1. PICK end : end = PaddingEnd(body, lo, hi)
    OBVIOUS
  <2>2. end \in lo..hi
    BY <1>1, <2>1, PaddingEndProperties
  <2>3. /\ stage \in {"ReadingTransportPadding", "ReadingClosingTransportPadding"}
        /\ stage' = stage
        /\ Advance(end) /\ (end = hi \/ hi - end < Len(CRLF))
    BY <1>1, <1>7, <2>1, FillsOnlySuspended DEF ReadTransportPadding, At
  <2>4. hi - lo' <= 1
    BY <1>1, <1>3, <2>2, <2>3 DEF Advance
  <2> QED BY <1>1, <2>3, <2>4 DEF Backlog, BufLen
<1>8. CASE ReadFieldHeaders
  <2>1. PICK at : at = HeadersEnd
    OBVIOUS
  <2>2. /\ stage = "ReadingFieldHeaders" /\ at = NotFound /\ ReadHeaders(at)
        /\ FailOrSuspend(BufLen > constraints.headers, "HeadersSizeExceeded")
        /\ UNCHANGED parser
    BY <1>1, <1>8, <2>1, FillsOnlySuspended DEF ReadFieldHeaders, TakeUp, At
  <2>3. ~(BufLen > constraints.headers) /\ UNCHANGED <<lo, stage>>
    BY <1>1, <2>2, FillsOnlySuspended DEF ReadHeaders, parser
  <2>4. constraints.headers \in Nat
    BY ConstraintTypes, WidthAssumption DEF IInv, TypeOK, BufferTypeOK, U64
  <2>5. hi - lo <= constraints.headers
    BY <1>1, <2>3, <2>4 DEF BufLen
  <2> QED BY <1>1, <2>2, <2>3, <2>5 DEF Backlog, BufLen
<1>9. CASE SkipFieldData \/ ReadChunk
  <2>1. PICK r : r = ReadFieldData
    OBVIOUS
  <2>2. /\ stage = "ReadingFieldData" /\ r.outcome \in {"none", "data"}
        /\ TakeFieldData(r) /\ Suspend /\ stage' = stage
    BY <1>1, <1>9, <2>1, FillsOnlySuspended
       DEF SkipFieldData, ReadChunk, At, IInv, FieldInData
  <2>3. ~eof /\ lo' = r.upto
    BY <1>1, <2>2, FillsOnlySuspended DEF TakeFieldData
  <2>4. hi - r.upto <= Len(FieldBoundary) + Len(BOUNDARY_EXT) + constraints.boundary_padding + 1
    BY <2>1, <2>2, <2>3, FieldDataKept
  <2> QED BY <1>1, <2>2, <2>3, <2>4 DEF Backlog, BufLen
<1>10. CASE LockFailure \/ AtEof \/ ReadExhausted
  BY <1>1, <1>10, FillsOnlySuspended DEF LockFailure, AtEof, ReadExhausted
<1> QED BY <1>4, <1>5, <1>6, <1>7, <1>8, <1>9, <1>10 DEF ParserStep, NextFieldStep, ChunkStep

LEMMA BacklogStep ==
  ASSUME IInv, BacklogBounded, [Next]_vars
  PROVE  BacklogBounded'
<1>1. CASE ParserStep
  BY <1>1, ParserBacklog DEF BacklogBounded
<1>2. CASE ~ParserStep
  <2> SUFFICES ASSUME pc' = "fill"
               PROVE  BufLen' <= Backlog'
    BY DEF BacklogBounded
  <2>1. pc = "fill" /\ UNCHANGED <<constraints, stage, lo, hi>>
    <3>1. CASE Application \/ Repoll \/ SourceWake \/ UNCHANGED vars
      BY <3>1 DEF Application, CallNextField, CallChunk, DropField, Cancel, Stopped, Repoll,
                  SourceWake, BeginPoll, Return, vars, caller, rigid, input, scan, parser
    <3>2. CASE FillNext
      <4>1. (\A error : ~Fail(error)) /\ ~StreamPolled
        BY DEF Fail, StreamPolled
      <4>2. FillEmpty /\ pc = "fill"
        BY <3>2, <4>1, FillFrame
           DEF FillNext, FillStep, FillTooMuch, FillChunk, FillEnd, FillError, FillPending
      <4> QED BY <4>2 DEF FillEmpty, FillStep, PollEmpty, rigid, scan, parser
    <3> QED BY <1>2, <3>1, <3>2 DEF Next, ParserStep
  <2> QED BY <2>1 DEF BacklogBounded, Backlog, BufLen
<1> QED BY <1>1, <1>2

\* A peer cannot make the parser keep more than the limits say: whenever more
\* input is asked for, what is held is what the stage may have to look at again.
THEOREM BacklogIsBounded == Spec => []BacklogBounded
<1>1. (IInv /\ BacklogBounded) /\ [Next]_vars => (IInv /\ BacklogBounded)'
  BY IInvStep, BacklogStep
<1>2. Init => BacklogBounded
  BY DEF Init, BacklogBounded
<1> QED BY <1>1, <1>2, TypeInit, PTL DEF Spec
=============================================================================
