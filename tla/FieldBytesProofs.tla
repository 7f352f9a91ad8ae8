--------------------------- MODULE FieldBytesProofs ---------------------------
(***************************************************************************)
(* The methods that read all of a field return all of it, for every form,  *)
(* set of limits, chunking and schedule, every encoding, and wherever the  *)
(* application called them and cancelled them.                             *)
(***************************************************************************)
EXTENDS FieldBytes, FormUploadProofs

\* The methods are an application of the parser: they call chunk and drop the
\* Field, and what holds of every upload holds of one that uses them.
LEMMA StepIsUploads ==
  ASSUME [BytesNext]_bytesVars
  PROVE  [UploadNext]_uploadVars /\ [Next]_vars /\ UNCHANGED form
BY DEF BytesNext, bytesVars, uploadVars, Elsewhere, LoopStep, CallMethod, Collect, Finish, Abandon,
       Leave, UploadNext, Next, Application

THEOREM MethodsAreUploads == BytesSpec => UploadSpec
BY StepIsUploads, PTL DEF BytesSpec, UploadSpec, BytesInit

-----------------------------------------------------------------------------
Returned ==
  [ field : Nat, method : Methods, from : Nat, pieces : Nat, copied : BOOLEAN,
    value : { Converted(x.method, x.named, x.bytes) :
                x \in [method : Methods, named : {{}, {Charset}}, bytes : Seq(Bytes)] } ]

\* The Field that is alive is the last one given out, and data is read forward.
Tracked ==
  /\ field # NoField => Len(out) > 0 /\ out[Len(out)].done = field.done
  /\ \A k \in DOMAIN out : out[k].start <= out[k].upto

\* A running method holds all the data from where it was called to what the
\* last chunk it was given reached; and it holds it as one chunk if it was one.
Collected ==
  /\ from \in Nat /\ taken \in Nat /\ from <= taken /\ taken <= out[Current].upto
  /\ out[Current].start <= from
  /\ first_chunk \in Seq(Bytes) /\ buf \in Seq(Bytes) /\ pieces \in Nat
  /\ buf \o first_chunk = SubSeq(body, from + 1, taken)
  /\ first_chunk # << >> => buf = << >> /\ pieces = 1
  /\ first_chunk = << >> /\ buf = << >> => pieces = 0
  /\ buf # << >> => pieces > 1

Waiting ==
  /\ pc # "idle" => call = "chunk"
  /\ ~(pc = "idle" /\ ret = "chunk") => taken = out[Current].upto
  /\ pc = "idle" /\ ret = "exhausted" => field.done

MethodOK == Reading => method \in Methods /\ field # NoField /\ Collected /\ Waiting

GotOK ==
  /\ got \in Seq(Returned)
  /\ \A i \in DOMAIN got :
       /\ got[i].field \in DOMAIN out /\ out[got[i].field].done
       /\ out[got[i].field].start <= got[i].from /\ got[i].from <= out[got[i].field].upto
       /\ got[i].value = Converted(got[i].method, CharsetOf(got[i].field),
                                   SubSeq(body, got[i].from + 1, out[got[i].field].upto))
       /\ got[i].copied => got[i].pieces > 1

BytesInv == SafeInv /\ Tracked /\ MethodOK /\ GotOK

-----------------------------------------------------------------------------
(* The steps of the upload *)

LEMMA OutTypes ==
  ASSUME SafeInv
  PROVE  /\ out \in Seq(GivenType) /\ Len(out) \in Nat /\ DOMAIN out = 1..Len(out)
         /\ body \in Seq(Bytes) /\ Len(body) \in Nat
         /\ \A k \in DOMAIN out : out[k].upto \in 0..Len(body) /\ out[k].start \in 0..Len(body)
<1>1. out \in Seq(GivenType) /\ body \in Seq(Bytes)
  BY BodiesAssumption DEF SafeInv, IInv, TypeOK, BufferTypeOK
<1> QED BY <1>1, GivenTypes DEF SafeInv

\* A chunk is returned, or nothing is given out.
LEMMA ChunkOutcome ==
  ASSUME ReadChunk, NEW r, r = ReadFieldData
  PROVE  \/ /\ UNCHANGED given
            /\ pc' = "idle" => ret' \in Errors
            /\ pc' # "idle" => call' = call
         \/ /\ FieldSize(r) <= curr_field_size_limit
            /\ field' = [field EXCEPT !.done = (r.outcome = "done")]
            /\ out' = [out EXCEPT ![Len(out)].upto = r.upto,
                                  ![Len(out)].done = (r.outcome = "done")]
            /\ pc' = "idle" /\ ret' = "chunk"
<1>1. /\ Suspend => pc' # "idle" /\ call' = call
      /\ \A error : Fail(error) => pc' = "idle" /\ ret' = error
      /\ Return("chunk") => pc' = "idle" /\ ret' = "chunk"
  BY DEF Suspend, Fail, Return
<1>2. "FieldSizeExceeded" \in Errors
  BY DEF Errors
<1> QED BY <1>1, <1>2 DEF ReadChunk

\* Data read by chunk follows the data read before.
LEMMA ChunkFollows ==
  ASSUME SafeInv, ReadChunk, ~(UNCHANGED given /\ (pc' = "idle" => ret' \in Errors))
  PROVE  /\ pc' = "idle" /\ ret' = "chunk" /\ UNCHANGED body
         /\ Len(out) \in DOMAIN out /\ ~out[Len(out)].done
         /\ Len(out') = Len(out) /\ DOMAIN out' = DOMAIN out
         /\ \A k \in DOMAIN out : k # Len(out) => out'[k] = out[k]
         /\ out'[Len(out)].upto \in Nat /\ out'[Len(out)].upto >= out[Len(out)].upto
         /\ out'[Len(out)].start = out[Len(out)].start
         /\ out'[Len(out)].done = field'.done /\ field' # NoField
<1>1. PICK r : r = ReadFieldData
  OBVIOUS
<1>2. ~field.done /\ UNCHANGED body
  BY DEF ReadChunk, rigid
<1>3. /\ Len(out) > 0 /\ ~out[Len(out)].done
      /\ curr_field_size_counter <= curr_field_size_limit => lo = out[Len(out)].upto
  BY <1>2 DEF SafeInv, FieldsOK, OpenField
<1>4. /\ out \in Seq(GivenType) /\ field \in FieldType
      /\ Len(out) \in DOMAIN out /\ out[Len(out)] \in GivenType
  <2>1. out \in Seq(GivenType) /\ field \in FieldType
    BY DEF SafeInv, IInv, TypeOK
  <2> QED BY <1>3, <2>1
<1>5. /\ FieldSize(r) <= curr_field_size_limit
      /\ field' = [field EXCEPT !.done = (r.outcome = "done")]
      /\ out' = [out EXCEPT ![Len(out)].upto = r.upto, ![Len(out)].done = (r.outcome = "done")]
      /\ pc' = "idle" /\ ret' = "chunk"
  BY <1>1, ChunkOutcome
<1>6. /\ r.upto >= lo /\ r.upto \in Nat /\ lo \in Nat
      /\ curr_field_size_counter \in U64 /\ curr_field_size_limit \in U64 /\ U64Max \in Nat
  <2>1. r.upto \in lo..hi /\ Len(body) \in Nat
    BY <1>1, ReadFieldDataProperties, BodiesAssumption
       DEF SafeInv, IInv, TypeOK, BufferTypeOK
  <2>2. lo \in Nat /\ hi \in Nat
    BY <2>1 DEF SafeInv, IInv, TypeOK, BufferTypeOK
  <2> QED BY <2>1, <2>2, WidthAssumption DEF SafeInv, IInv, TypeOK
<1>7. curr_field_size_counter <= curr_field_size_limit
  <2>1. FieldSize(r) \in U64 /\ FieldSize(r) >= curr_field_size_counter
    <3>1. r.upto - lo \in Nat
      BY <1>6
    <3> QED BY <1>6, <3>1, SatAddBounds DEF FieldSize
  <2> QED BY <1>5, <1>6, <2>1 DEF U64
<1>8. /\ Len(out') = Len(out) /\ DOMAIN out' = DOMAIN out
      /\ \A k \in DOMAIN out : k # Len(out) => out'[k] = out[k]
      /\ out'[Len(out)] = [out[Len(out)] EXCEPT !.upto = r.upto, !.done = (r.outcome = "done")]
  BY <1>4, <1>5
<1>9. /\ out'[Len(out)].upto = r.upto /\ out'[Len(out)].done = (r.outcome = "done")
      /\ out'[Len(out)].start = out[Len(out)].start
      /\ field'.done = (r.outcome = "done")
  BY <1>4, <1>5, <1>8 DEF GivenType, FieldType
<1>10. field' # NoField
  <2>1. field.idx = out[Len(out)].idx /\ out[Len(out)].idx \in Nat
    BY <1>2, <1>4, GivenTypes DEF SafeInv, FieldsOK, OpenField
  <2>2. field'.idx = field.idx
    BY <1>4, <1>5 DEF FieldType
  <2> QED BY <2>1, <2>2 DEF NoField
<1> QED BY <1>2, <1>3, <1>4, <1>5, <1>6, <1>7, <1>8, <1>9, <1>10

\* The other steps, but for the one that opens a field.
LEMMA GivenStays ==
  ASSUME [Next]_vars, ~ReadChunk, ~ReadFieldHeaders
  PROVE  UNCHANGED out /\ field' \in {field, NoField}
<1>1. CASE Application \/ Repoll \/ SourceWake
  BY <1>1, OutsideFrame
<1>2. CASE FillNext
  BY <1>2, FillFrame DEF given
<1>3. CASE UNCHANGED vars
  BY <1>3 DEF vars, given
<1>4. CASE NextFieldStep \/ ReadExhausted
  BY <1>4 DEF NextFieldStep, LockFailure, AtEof, FindFirstBoundary, SkipFieldData, ReadBoundary,
              DetermineBoundaryType, ReadTransportPadding, ReadExhausted, given
<1> QED BY <1>1, <1>2, <1>3, <1>4 DEF Next, ChunkStep

\* A complete field stays as it is.
LEMMA CompleteStays ==
  ASSUME SafeInv, Tracked, [Next]_vars
  PROVE  /\ Tracked' /\ UNCHANGED body
         /\ \A k \in DOMAIN out : k \in DOMAIN out' /\ (out[k].done => out'[k] = out[k])
<1>1. UNCHANGED body
  BY DEF Next, Application, CallNextField, CallChunk, DropField, Cancel, Stopped, Repoll,
         SourceWake, NextFieldStep, ChunkStep, LockFailure, AtEof, FindFirstBoundary,
         SkipFieldData, ReadBoundary, DetermineBoundaryType, ReadTransportPadding,
         ReadFieldHeaders, TakeUp, ReadExhausted, ReadChunk, FillNext, FillTooMuch, FillChunk, FillEmpty,
         FillEnd, FillError, FillPending, FillStep, vars, rigid
<1>2. CASE UNCHANGED out /\ field' \in {field, NoField}
  BY <1>1, <1>2 DEF Tracked
<1>3. CASE ReadChunk /\ ~UNCHANGED given
  <2>1. /\ Len(out) \in DOMAIN out /\ ~out[Len(out)].done
        /\ Len(out') = Len(out) /\ DOMAIN out' = DOMAIN out
        /\ \A k \in DOMAIN out : k # Len(out) => out'[k] = out[k]
        /\ out'[Len(out)].done = field'.done
    BY <1>3, ChunkFollows
  <2>2. out'[Len(out)].start <= out'[Len(out)].upto
    <3>1. /\ out[Len(out)].start \in Nat /\ out[Len(out)].upto \in Nat
          /\ out[Len(out)].start <= out[Len(out)].upto
      BY <2>1, OutTypes DEF Tracked
    <3> QED BY <1>3, <3>1, ChunkFollows
  <2>3. Tracked'
    <3>1. Len(out') > 0
      BY <2>1, OutTypes
    <3>2. \A k \in DOMAIN out' : out'[k].start <= out'[k].upto
      BY <2>1, <2>2 DEF Tracked
    <3> QED BY <2>1, <3>1, <3>2 DEF Tracked
  <2> QED BY <1>1, <2>1, <2>3
<1>4. CASE ReadFieldHeaders /\ ~UNCHANGED given
  <2>1. PICK name, end : /\ out' = Append(out, [idx |-> next_field_idx, name |-> name,
                                                done |-> FALSE, start |-> end, upto |-> end])
                         /\ field' = [idx |-> next_field_idx, name |-> name, done |-> FALSE]
                         /\ end \in Nat
    <3>1. lo \in Nat
      BY BodiesAssumption DEF SafeInv, IInv, TypeOK, BufferTypeOK
    <3>2. \A end \in lo..hi : end \in Nat
      BY <3>1
    <3> QED BY <1>4, <3>2, FieldOpened DEF SafeInv
  <2>2. out \in Seq(GivenType) /\ Len(out) \in Nat /\ DOMAIN out = 1..Len(out)
    BY OutTypes
  <2>3. /\ Len(out') = Len(out) + 1 /\ DOMAIN out' = 1..(Len(out) + 1)
        /\ out'[Len(out) + 1].done = FALSE
        /\ out'[Len(out) + 1].start = out'[Len(out) + 1].upto
        /\ \A k \in 1..Len(out) : out'[k] = out[k]
    BY <2>1, <2>2
  <2>4. field'.done = FALSE
    BY <2>1
  <2>5. Tracked'
    <3>1. Len(out') > 0 /\ out'[Len(out')].done = FALSE
      BY <2>2, <2>3
    <3>2. ASSUME NEW k \in DOMAIN out'
          PROVE  out'[k].start <= out'[k].upto
      <4>1. CASE k \in 1..Len(out)
        BY <2>2, <2>3, <4>1 DEF Tracked
      <4>2. CASE k = Len(out) + 1
        <5>1. PICK at \in Nat : at = out'[k].start /\ at = out'[k].upto
          BY <2>1, <2>2, <2>3, <4>2
        <5> QED BY <5>1
      <4> QED BY <2>2, <2>3, <3>2, <4>1, <4>2
    <3> QED BY <2>4, <3>1, <3>2 DEF Tracked
  <2>6. \A k \in DOMAIN out : k \in DOMAIN out' /\ out'[k] = out[k]
    BY <2>2, <2>3
  <2> QED BY <1>1, <2>5, <2>6
<1> QED BY <1>2, <1>3, <1>4, GivenStays DEF given

\* While a call of chunk is in progress, only its own result changes what is
\* given out.
LEMMA ChunkCall ==
  ASSUME [Next]_vars, pc # "idle", call = "chunk"
  PROVE  /\ pc' # "idle" => call' = "chunk"
         /\ \/ /\ UNCHANGED <<out, field>>
               /\ pc' = "idle" => ret' # "chunk"
               /\ pc' = "idle" /\ ret' = "exhausted" => field.done
            \/ ReadChunk /\ ~(UNCHANGED given /\ (pc' = "idle" => ret' \in Errors))
<1>1. CASE Repoll \/ SourceWake \/ UNCHANGED vars
  BY <1>1 DEF Repoll, BeginPoll, SourceWake, vars, caller, given
<1>2. CASE Application
  BY <1>2 DEF Application, CallNextField, CallChunk, DropField, Cancel, Stopped, Return, given
<1>3. CASE ReadExhausted
  BY <1>3 DEF ReadExhausted, Return, given
<1>4. CASE ReadChunk
  <2>1. "chunk" \notin Errors /\ "exhausted" \notin Errors
    BY DEF Errors
  <2> QED BY <1>4, <2>1, ChunkOutcome DEF given
<1>5. CASE FillNext
  <2>1. /\ StreamPolled => pc' # "idle" /\ call' = call
        /\ \A error : Fail(error) => pc' = "idle" /\ ret' = error
    BY DEF StreamPolled, Fail
  <2>2. \/ pc' # "idle" /\ call' = call
        \/ pc' = "idle" /\ ret' \in {"StreamSizeExceeded", "StreamReadFailed"}
    BY <1>5, <2>1 DEF FillNext, FillStep, FillTooMuch, FillChunk, FillEmpty, FillEnd, FillError,
                      FillPending, caller
  <2> QED BY <1>5, <2>2, FillFrame DEF given
<1>6. ~NextFieldStep
  BY DEF NextFieldStep, LockFailure, AtEof, FindFirstBoundary, SkipFieldData, ReadBoundary,
         DetermineBoundaryType, ReadTransportPadding, ReadFieldHeaders, TakeUp, At, Parsing
<1> QED BY <1>1, <1>2, <1>3, <1>4, <1>5, <1>6 DEF Next, ChunkStep

-----------------------------------------------------------------------------
(* The methods *)

LEMMA SliceJoins ==
  ASSUME NEW s \in Seq(Bytes), NEW a \in Nat, NEW b \in Nat, NEW c \in Nat,
         a <= b, b <= c, c <= Len(s)
  PROVE  SubSeq(s, a + 1, b) \o SubSeq(s, b + 1, c) = SubSeq(s, a + 1, c)
<1>1. a + 1 \in 1..(Len(s) + 1) /\ b \in ((a + 1) - 1)..Len(s) /\ c \in b..Len(s)
  OBVIOUS
<1> QED BY <1>1, ConcatAdjacentSubSeq

LEMMA SliceType ==
  ASSUME NEW s \in Seq(Bytes), NEW a \in Nat, NEW b \in Nat, b <= Len(s)
  PROVE  SubSeq(s, a + 1, b) \in Seq(Bytes)
<1>1. \A i \in (a + 1)..b : s[i] \in Bytes
  OBVIOUS
<1> QED BY <1>1, SubSeqProperties

\* The method starts where the field has been read to.
LEMMA CalledOK ==
  ASSUME BytesInv, NEW m \in Methods, CallMethod(m)
  PROVE  MethodOK'
<1>1. field # NoField /\ pc' = "parse" /\ call' = "chunk" /\ UNCHANGED <<field, out, body>>
  BY DEF CallMethod, CallChunk, BeginPoll, given, rigid
<1>2. /\ Len(out) \in DOMAIN out /\ out[Len(out)].upto \in 0..Len(body)
      /\ body \in Seq(Bytes) /\ Len(body) \in Nat
      /\ out[Len(out)].start <= out[Len(out)].upto
  BY <1>1, OutTypes DEF BytesInv, Tracked
<1>3. PICK upto \in Nat : upto = out[Len(out)].upto
  BY <1>2
<1>4. SubSeq(body, upto + 1, upto) = << >>
  BY <1>3, SubSeqEmpty
<1>5. /\ method' = m /\ first_chunk' = << >> /\ buf' = << >> /\ pieces' = 0
      /\ from' = upto /\ taken' = upto /\ out'[Current'].upto = upto
      /\ out'[Current'].start <= upto
  BY <1>1, <1>2, <1>3 DEF CallMethod, Current
<1>6. Collected'
  <2>1. << >> \o << >> = << >> /\ << >> \in Seq(Bytes)
    OBVIOUS
  <2> QED BY <1>1, <1>3, <1>4, <1>5, <2>1 DEF Collected
<1>7. Waiting'
  BY <1>1, <1>5 DEF Waiting
<1> QED BY <1>1, <1>5, <1>6, <1>7 DEF MethodOK

\* The loop takes a chunk in.
LEMMA CollectedOK ==
  ASSUME BytesInv, Collect
  PROVE  MethodOK'
<1>1. /\ Reading /\ field # NoField /\ pc' = "parse" /\ call' = "chunk"
      /\ UNCHANGED <<field, out, body, from, method>>
  BY DEF Collect, CallChunk, BeginPoll, given, rigid
<1>2. Collected /\ method \in Methods
  BY <1>1 DEF BytesInv, MethodOK
<1>3. /\ Len(out) \in DOMAIN out /\ out[Len(out)].upto \in 0..Len(body)
      /\ body \in Seq(Bytes) /\ Len(body) \in Nat
  BY <1>1, OutTypes DEF BytesInv, Tracked
<1>4. PICK upto \in Nat : upto = out[Current].upto /\ upto <= Len(body)
  BY <1>3 DEF Current
<1>5. PICK chunk : chunk = Chunk
  OBVIOUS
<1>6. /\ from \in Nat /\ taken \in Nat /\ from <= taken /\ taken <= upto
      /\ chunk = SubSeq(body, taken + 1, upto)
  BY <1>2, <1>4, <1>5 DEF Collected, Chunk
<1>7. chunk \in Seq(Bytes) /\ first_chunk \in Seq(Bytes) /\ buf \in Seq(Bytes)
  BY <1>2, <1>3, <1>4, <1>6, SliceType DEF Collected
<1>8. (buf \o first_chunk) \o chunk = SubSeq(body, from + 1, upto)
  <2>1. SubSeq(body, from + 1, taken) \o SubSeq(body, taken + 1, upto)
          = SubSeq(body, from + 1, upto)
    BY <1>3, <1>4, <1>6, SliceJoins
  <2> QED BY <1>2, <1>6, <2>1 DEF Collected
<1>9. /\ taken' = upto /\ out'[Current'].upto = upto
      /\ pieces' = IF chunk = << >> THEN pieces ELSE pieces + 1
      /\ IF chunk # << >> THEN Gather(chunk) ELSE UNCHANGED <<first_chunk, buf>>
  BY <1>1, <1>4, <1>5 DEF Collect, Current, IsData
<1>10. /\ first_chunk' \in Seq(Bytes) /\ buf' \in Seq(Bytes) /\ pieces' \in Nat
       /\ buf' \o first_chunk' = (buf \o first_chunk) \o chunk
       /\ first_chunk' # << >> => buf' = << >> /\ pieces' = 1
       /\ first_chunk' = << >> /\ buf' = << >> => pieces' = 0
       /\ buf' # << >> => pieces' > 1
  <2>1. CASE chunk = << >>
    <3>1. buf \o first_chunk \in Seq(Bytes)
      BY <1>7, ConcatProperties
    <3>2. (buf \o first_chunk) \o chunk = buf \o first_chunk
      BY <2>1, <3>1, ConcatEmptySeq
    <3> QED BY <1>2, <1>9, <2>1, <3>2 DEF Collected
  <2>2. CASE chunk # << >> /\ first_chunk = << >> /\ buf = << >>
    <3>1. first_chunk' = chunk /\ buf' = << >> /\ pieces' = 1
      BY <1>2, <1>9, <2>2 DEF Collected, Gather
    <3>2. << >> \o << >> = << >> /\ << >> \o chunk = chunk
      BY <1>7, ConcatEmptySeq
    <3> QED BY <1>7, <2>2, <3>1, <3>2
  <2>3. CASE chunk # << >> /\ ~(first_chunk = << >> /\ buf = << >>)
    <3>1. first_chunk' = << >> /\ buf' = (buf \o first_chunk) \o chunk /\ pieces' = pieces + 1
      BY <1>9, <2>3 DEF Gather
    <3>2. pieces \in Nat /\ pieces >= 1
      BY <1>2, <2>3 DEF Collected
    <3>3. buf' \in Seq(Bytes) /\ buf' # << >>
      <4>1. buf \o first_chunk \in Seq(Bytes)
        BY <1>7, ConcatProperties
      <4> QED BY <1>7, <2>3, <3>1, <4>1, ConcatProperties, ConcatEqualIffEmpty
    <3>4. buf' \o << >> = buf'
      BY <3>3, ConcatEmptySeq
    <3> QED BY <3>1, <3>2, <3>3, <3>4
  <2> QED BY <2>1, <2>2, <2>3
<1>11. Collected'
  <2>1. from' = from /\ taken' = upto /\ body' = body /\ out'[Current'].upto = upto
    BY <1>1, <1>9
  <2>2. from <= upto
    BY <1>4, <1>6
  <2>3. /\ from' \in Nat /\ taken' \in Nat /\ from' <= taken' /\ taken' <= out'[Current'].upto
    BY <1>6, <2>1, <2>2
  <2>4. buf' \o first_chunk' = SubSeq(body', from' + 1, taken')
    BY <1>8, <1>10, <2>1
  <2>5. out'[Current'].start <= from'
    BY <1>1, <1>2, <2>1 DEF Collected, Current
  <2> QED BY <1>10, <2>3, <2>4, <2>5 DEF Collected
<1>12. Waiting'
  BY <1>1, <1>9 DEF Waiting
<1> QED BY <1>1, <1>2, <1>11, <1>12 DEF MethodOK, Reading

\* While the loop waits for a chunk, what it holds stays, and the chunk it gets
\* follows it.
LEMMA WaitedOK ==
  ASSUME BytesInv, [Next]_vars, Elsewhere
  PROVE  MethodOK'
<1> SUFFICES ASSUME Reading'
             PROVE  method' \in Methods /\ field' # NoField /\ Collected' /\ Waiting'
  BY DEF MethodOK
<1>1. Reading /\ UNCHANGED <<method, first_chunk, buf, from, taken, pieces>>
  BY DEF Elsewhere, collecting, loop, Reading
<1>2. method \in Methods /\ field # NoField /\ Collected /\ Waiting
  BY <1>1 DEF BytesInv, MethodOK
<1>3. UNCHANGED body
  BY CompleteStays DEF BytesInv
<1>4. CASE pc = "idle"
  <2>1. UNCHANGED <<out, field, pc, ret, call>>
    BY <1>1, <1>4 DEF Elsewhere, SourceWake, caller, given
  <2> QED BY <1>1, <1>2, <1>3, <2>1 DEF Collected, Waiting, Current
<1>5. CASE pc # "idle" /\ UNCHANGED <<out, field>> /\ (pc' = "idle" => ret' # "chunk")
  <2>1. out'[Current'] = out[Current]
    BY <1>5 DEF Current
  <2>2. Collected'
    BY <1>1, <1>2, <1>3, <2>1 DEF Collected
  <2>3. Waiting'
    <3>1. call = "chunk" /\ taken = out[Current].upto
      BY <1>2, <1>5 DEF Waiting
    <3>2. /\ pc' # "idle" => call' = "chunk"
          /\ pc' = "idle" => ret' # "chunk"
          /\ pc' = "idle" /\ ret' = "exhausted" => field.done
      BY <1>5, <3>1, ChunkCall, ChunkFollows DEF given, BytesInv
    <3> QED BY <1>1, <1>5, <2>1, <3>1, <3>2 DEF Waiting
  <2> QED BY <1>1, <1>2, <1>5, <2>2, <2>3
<1>6. CASE /\ pc # "idle" /\ ReadChunk
           /\ ~(UNCHANGED given /\ (pc' = "idle" => ret' \in Errors))
  <2>1. /\ pc' = "idle" /\ ret' = "chunk" /\ Len(out') = Len(out)
        /\ out'[Len(out)].upto >= out[Len(out)].upto /\ Len(out) \in DOMAIN out
    BY <1>6, ChunkFollows DEF BytesInv
  <2>2. /\ taken \in Nat /\ taken <= out[Len(out)].upto
        /\ out[Len(out)].upto \in Nat /\ out'[Len(out)].upto \in Nat
    BY <1>2, <1>6, <2>1, OutTypes, ChunkFollows DEF Collected, Current, BytesInv
  <2>3. taken' <= out'[Current'].upto /\ out'[Current'].start = out[Current].start
    BY <1>1, <1>6, <2>1, <2>2, ChunkFollows DEF Current, BytesInv
  <2>4. Collected'
    BY <1>1, <1>2, <1>3, <2>3 DEF Collected
  <2>5. field' # NoField
    BY <1>6, ChunkFollows DEF BytesInv
  <2> QED BY <1>1, <1>2, <2>1, <2>4, <2>5 DEF Waiting
<1> QED BY <1>2, <1>4, <1>5, <1>6, ChunkCall DEF Waiting

\* What the methods returned stays true.
LEMMA ReturnedStays ==
  ASSUME BytesInv, [Next]_vars, UNCHANGED <<form, got>>
  PROVE  GotOK'
<1>1. \A i \in DOMAIN got : /\ got[i].field \in DOMAIN out'
                            /\ out'[got[i].field] = out[got[i].field]
  BY CompleteStays DEF BytesInv, GotOK
<1>2. UNCHANGED body
  BY CompleteStays DEF BytesInv
<1>3. \A k : CharsetOf(k)' = CharsetOf(k)
  BY DEF CharsetOf
<1> QED BY <1>1, <1>2, <1>3 DEF BytesInv, GotOK

\* A method returns all that it holds, when its field is complete.
LEMMA FinishedOK ==
  ASSUME BytesInv, Finish
  PROVE  GotOK'
<1> DEFINE all == IF first_chunk # << >> THEN first_chunk ELSE buf
           r   == [ field |-> Current, method |-> method, from |-> from,
                    value |-> Converted(method, CharsetOf(Current), all),
                    copied |-> buf # << >>, pieces |-> pieces ]
<1>1. /\ Reading /\ got' = Append(got, r) /\ UNCHANGED <<body, out, form>>
      /\ pc = "idle" /\ ret = "exhausted"
  BY DEF Finish, Leave, DropField, rigid
<1>2. /\ method \in Methods /\ field # NoField /\ Collected /\ field.done
      /\ taken = out[Current].upto
  BY <1>1 DEF BytesInv, MethodOK, Waiting
<1>3. Current \in DOMAIN out /\ out[Current].done /\ Current \in Nat
  <2>1. Len(out) > 0 /\ out[Len(out)].done = field.done
    BY <1>2 DEF BytesInv, Tracked
  <2>2. out[Len(out)].done
    BY <1>2, <2>1
  <2> QED BY <2>1, <2>2, OutTypes DEF BytesInv, Current
<1>4. all = buf \o first_chunk /\ all \in Seq(Bytes)
  BY <1>2, ConcatEmptySeq DEF Collected
<1>5. /\ all = SubSeq(body, from + 1, out[Current].upto)
      /\ out[Current].start <= from /\ from <= out[Current].upto
  BY <1>2, <1>4 DEF Collected
<1>6. CharsetOf(Current) \in {{}, {Charset}}
  BY DEF CharsetOf
<1> HIDE DEF all
<1>7. r \in Returned
  <2>1. PICK v : v = Converted(method, CharsetOf(Current), all)
    OBVIOUS
  <2>2. PICK x \in [method : Methods, named : {{}, {Charset}}, bytes : Seq(Bytes)] :
          v = Converted(x.method, x.named, x.bytes)
    <3>1. PICK x \in [method : Methods, named : {{}, {Charset}}, bytes : Seq(Bytes)] :
            x = [method |-> method, named |-> CharsetOf(Current), bytes |-> all]
      BY <1>2, <1>4, <1>6
    <3> QED BY <2>1, <3>1
  <2>3. v \in { Converted(y.method, y.named, y.bytes) :
                y \in [method : Methods, named : {{}, {Charset}}, bytes : Seq(Bytes)] }
    BY <2>2
  <2>4. (buf # << >>) \in BOOLEAN /\ from \in Nat /\ pieces \in Nat
    BY <1>2 DEF Collected
  <2> QED BY <1>2, <1>3, <2>1, <2>3, <2>4 DEF Returned
<1>8. r.copied => r.pieces > 1
  BY <1>2 DEF Collected
<1> DEFINE Good(g) == /\ g.field \in DOMAIN out /\ out[g.field].done
                      /\ out[g.field].start <= g.from /\ g.from <= out[g.field].upto
                      /\ g.value = Converted(g.method, CharsetOf(g.field),
                                             SubSeq(body, g.from + 1, out[g.field].upto))
                      /\ g.copied => g.pieces > 1
<1>9. Good(r)
  BY <1>3, <1>5, <1>8
<1>10. got \in Seq(Returned) /\ \A i \in DOMAIN got : Good(got[i])
  BY DEF BytesInv, GotOK
<1> HIDE DEF r, Good
<1>11. got' \in Seq(Returned) /\ \A i \in DOMAIN got' : Good(got'[i])
  BY <1>1, <1>7, <1>9, <1>10, AppendProperties
<1>12. \A k : CharsetOf(k)' = CharsetOf(k)
  BY <1>1 DEF CharsetOf
<1> QED BY <1>1, <1>11, <1>12 DEF GotOK, Good

LEMMA BytesInvInit == BytesInit => BytesInv
<1> SUFFICES ASSUME BytesInit
             PROVE  BytesInv
  OBVIOUS
<1>1. Init /\ ~Reading /\ got = << >>
  BY DEF BytesInit, UploadInit, Reading
<1>2. Tracked
  BY <1>1 DEF Init, Tracked
<1>3. GotOK
  BY <1>1 DEF GotOK
<1> QED BY <1>1, <1>2, <1>3, SafeInit DEF BytesInv, MethodOK

LEMMA BytesInvStep ==
  ASSUME BytesInv, [BytesNext]_bytesVars
  PROVE  BytesInv'
<1>1. [Next]_vars /\ UNCHANGED form
  BY StepIsUploads
<1>2. SafeInv' /\ Tracked'
  BY <1>1, SafeStep, CompleteStays DEF BytesInv
<1>3. CASE Elsewhere
  <2>1. UNCHANGED got
    BY <1>3 DEF Elsewhere, collecting
  <2> QED BY <1>1, <1>2, <1>3, <2>1, WaitedOK, ReturnedStays DEF BytesInv
<1>4. ASSUME NEW m \in Methods, CallMethod(m)
      PROVE  BytesInv'
  <2>1. UNCHANGED got
    BY <1>4 DEF CallMethod
  <2> QED BY <1>1, <1>2, <1>4, <2>1, CalledOK, ReturnedStays DEF BytesInv
<1>5. CASE Collect
  <2>1. UNCHANGED got
    BY <1>5 DEF Collect
  <2> QED BY <1>1, <1>2, <1>5, <2>1, CollectedOK, ReturnedStays DEF BytesInv
<1>6. CASE Finish \/ Abandon
  <2>1. MethodOK'
    BY <1>6 DEF Finish, Abandon, Leave, MethodOK, Reading
  <2>2. CASE Finish
    BY <1>2, <2>1, <2>2, FinishedOK DEF BytesInv
  <2>3. CASE Abandon
    <3>1. UNCHANGED got
      BY <2>3 DEF Abandon
    <3> QED BY <1>1, <1>2, <2>1, <3>1, ReturnedStays DEF BytesInv
  <2> QED BY <1>6, <2>2, <2>3
<1>7. CASE UNCHANGED bytesVars
  <2>1. UNCHANGED <<vars, collecting, form>>
    BY <1>7 DEF bytesVars, uploadVars
  <2>2. MethodOK'
    BY <2>1 DEF BytesInv, MethodOK, Reading, Collected, Waiting, Current, vars, collecting, loop,
                caller, given, rigid
  <2>3. UNCHANGED got
    BY <2>1 DEF collecting
  <2> QED BY <1>1, <1>2, <2>2, <2>3, ReturnedStays DEF BytesInv
<1> QED BY <1>3, <1>4, <1>5, <1>6, <1>7 DEF BytesNext, LoopStep

\* A method returns exactly the rest of its field, converted once and as a
\* whole, for every conversion.
THEOREM MethodsReturnAll == BytesSpec => []ReturnsRestOfField
<1>1. BytesInv => ReturnsRestOfField
  BY DEF BytesInv, GotOK, ReturnsRestOfField
<1> QED BY <1>1, BytesInvInit, BytesInvStep, PTL DEF BytesSpec

\* A slice of a slice, as far as the end of both.
LEMMA SliceOfSlice ==
  ASSUME NEW s \in Seq(Bytes), NEW a \in Nat, NEW b \in Nat, NEW c \in Nat,
         a <= b, b <= c, c <= Len(s),
         NEW d, d = SubSeq(s, a + 1, c)
  PROVE  SubSeq(s, b + 1, c) = SubSeq(d, b - a + 1, Len(d))
<1>1. /\ Len(d) = c - a /\ Len(d) \in Nat
      /\ \A i \in 1..(c - a) : d[i] = s[a + i]
  OBVIOUS
<1> QED BY <1>1

\* What a client puts into a part is what bytes, json and text make their result
\* of, for every form that can be read in one way only, every boundary, limits,
\* chunking, schedule and conversion: the parser and the methods together.
THEOREM MethodsReturnWhatWasSent ==
  ASSUME MaxErrors = 0, \A f \in Forms : Unambiguous(f)
  PROVE  BytesSpec => []ReturnsWhatWasSent
<1>1. BytesInv /\ GivenAsSent => ReturnsWhatWasSent
  <2> SUFFICES ASSUME BytesInv, GivenAsSent, NEW i \in DOMAIN got
               PROVE  LET r    == got[i]
                          data == form.parts[r.field].data
                          read == r.from - out[r.field].start
                      IN  r.value = Converted(r.method, CharsetOf(r.field),
                                              SubSeq(data, read + 1, Len(data)))
    BY DEF ReturnsWhatWasSent
  <2>1. PICK k, from_, start, upto : /\ k = got[i].field /\ from_ = got[i].from
                                     /\ start = out[k].start /\ upto = out[k].upto
    OBVIOUS
  <2>2. /\ k \in DOMAIN out /\ out[k].done /\ start <= from_ /\ from_ <= upto
        /\ got[i].value = Converted(got[i].method, CharsetOf(k), SubSeq(body, from_ + 1, upto))
    BY <2>1 DEF BytesInv, GotOK
  <2>3. from_ \in Nat
    <3>1. got[i] \in Returned
      BY DEF BytesInv, GotOK
    <3>2. \A g \in Returned : g.from \in Nat
      BY DEF Returned
    <3> QED BY <2>1, <3>1, <3>2
  <2>4. /\ out \in Seq(GivenType) /\ DOMAIN out = 1..Len(out) /\ Len(out) \in Nat
        /\ body \in Seq(Bytes) /\ start \in Nat /\ upto \in Nat /\ upto <= Len(body)
    <3>1. /\ out \in Seq(GivenType) /\ DOMAIN out = 1..Len(out) /\ Len(out) \in Nat
          /\ body \in Seq(Bytes) /\ Len(body) \in Nat
          /\ start \in 0..Len(body) /\ upto \in 0..Len(body)
      BY <2>1, <2>2, OutTypes DEF BytesInv
    <3> QED BY <3>1
  <2>5. form.parts[k].data = SubSeq(body, start + 1, upto)
    <3>1. k \in 1..Len(out) /\ Len(Emitted) = Len(out)
      BY <2>2, <2>4, EmittedShape
    <3>2. Emitted[k].done /\ Emitted[k].data = SubSeq(body, start + 1, upto)
      BY <2>1, <2>2, <2>4, <3>1, EmittedFields
    <3> QED BY <3>1, <3>2 DEF GivenAsSent
  <2>6. PICK data : data = form.parts[k].data
    OBVIOUS
  <2>7. SubSeq(body, from_ + 1, upto) = SubSeq(data, from_ - start + 1, Len(data))
    BY <2>2, <2>3, <2>4, <2>5, <2>6, SliceOfSlice
  <2> QED BY <2>1, <2>2, <2>6, <2>7
<1>2. BytesSpec => []GivenAsSent
  BY MethodsAreUploads, FieldsArriveAsSent, PTL
<1> QED BY <1>1, <1>2, BytesInvInit, BytesInvStep, PTL DEF BytesSpec

\* Data that arrives as one chunk is never copied, wherever an empty chunk
\* comes with it.
THEOREM OneChunkIsNotCopied == BytesSpec => []SingleChunkNotCopied
<1>1. BytesInv => SingleChunkNotCopied
  BY DEF BytesInv, GotOK, SingleChunkNotCopied
<1> QED BY <1>1, BytesInvInit, BytesInvStep, PTL DEF BytesSpec
===============================================================================
