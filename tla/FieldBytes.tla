------------------------------ MODULE FieldBytes ------------------------------
(***************************************************************************)
(* The methods of a Field that read all of it: bytes, and json, text and   *)
(* text_with_charset on top of it (src/field.rs).  Each is a future that   *)
(* owns the Field and awaits chunk in a loop, so that it can be suspended  *)
(* or dropped in the middle of the field, and may be called when part of   *)
(* the field has been read by chunk.                                       *)
(*                                                                         *)
(* Between two chunks the loop does not return to the executor: while pc   *)
(* is "idle" and a method runs, the next step is the method's, or the      *)
(* source's wake-up.                                                       *)
(***************************************************************************)
EXTENDS FairUpload

CONSTANTS
  Labels,            \* what may be asked for as an encoding
  Encodings,         \* the labels encoding_rs knows
  Charset,           \* the charset a Content-Type line, "h" here, names
  Decode(_, _),      \* what an encoding makes of bytes
  Deserialize(_)     \* what serde_json makes of bytes

ASSUME EncodingsAssumption == "utf-8" \in Encodings

VARIABLES
  method,            \* the method that runs, or NoMethod
  first_chunk, buf,  \* an empty first_chunk is None
  from, taken,       \* the data collected so far: body[from + 1] .. body[taken]
  pieces,            \* how many chunks that were not empty
  got                \* what the methods returned

loop        == <<first_chunk, buf, from, taken, pieces>>
collecting  == <<method, loop, got>>
bytesVars   == <<uploadVars, collecting>>

NoMethod == [name |-> "none", label |-> "utf-8"]
Methods  == [name : {"bytes", "json"}, label : {"utf-8"}] \union [name : {"text"}, label : Labels]

Reading == method # NoMethod

Current == Len(out)

\* helpers::parse_content_type and mime's charset parameter, of the field read
CharsetOf(k) == IF \E j \in DOMAIN form.parts[k].lines : form.parts[k].lines[j] = "h"
                THEN {Charset} ELSE {}

TextEncoding(default, named) ==
  LET label == IF named = {} THEN default ELSE CHOOSE c \in named : TRUE
  IN  IF label \in Encodings THEN label ELSE "utf-8"

Converted(m, named, bytes) ==
  CASE m.name = "bytes" -> bytes
    [] m.name = "json"  -> Deserialize(bytes)
    [] m.name = "text"  -> Decode(TextEncoding(m.label, named), bytes)

-----------------------------------------------------------------------------
\* The method is called: its loop calls chunk.
CallMethod(m) ==
  /\ ~Reading
  /\ CallChunk
  /\ method' = m
  /\ first_chunk' = << >> /\ buf' = << >>
  /\ from' = out[Current].upto /\ taken' = out[Current].upto
  /\ pieces' = 0
  /\ UNCHANGED <<form, got>>

Chunk == SubSeq(body, taken + 1, out[Current].upto)

\* Mutant: an empty chunk counts as data.
AlwaysData(chunk) == TRUE

IsData(chunk) == chunk # << >>

\* Mutant: the chunk kept back is forgotten when a second one arrives.
GatherLatest(chunk) ==
  IF first_chunk = << >> /\ buf = << >>
  THEN first_chunk' = chunk /\ UNCHANGED buf
  ELSE first_chunk' = << >> /\ buf' = buf \o chunk

\* The first chunk is kept as it is; it is copied when there is a second one.
Gather(chunk) ==
  IF first_chunk = << >> /\ buf = << >>
  THEN first_chunk' = chunk /\ UNCHANGED buf
  ELSE first_chunk' = << >> /\ buf' = (buf \o first_chunk) \o chunk

\* chunk returned Some: the loop goes on.
Collect ==
  /\ Reading /\ pc = "idle" /\ ret = "chunk"
  /\ IF IsData(Chunk) THEN Gather(Chunk) ELSE UNCHANGED <<first_chunk, buf>>
  /\ pieces' = IF Chunk = << >> THEN pieces ELSE pieces + 1
  /\ taken' = out[Current].upto
  /\ CallChunk
  /\ UNCHANGED <<form, method, from, got>>

Leave == DropField /\ method' = NoMethod /\ UNCHANGED <<form, loop>>

\* chunk returned None.
Finish ==
  /\ Reading /\ pc = "idle" /\ ret = "exhausted"
  /\ LET all == IF first_chunk # << >> THEN first_chunk ELSE buf IN
     got' = Append(got, [ field |-> Current, method |-> method, from |-> from,
                          value |-> Converted(method, CharsetOf(Current), all),
                          copied |-> buf # << >>, pieces |-> pieces ])
  /\ Leave

\* chunk returned an error, or the future was dropped: the Field goes with it.
Abandon ==
  /\ Reading /\ pc = "idle" /\ ret \notin {"chunk", "exhausted"}
  /\ UNCHANGED got
  /\ Leave

LoopStep == Collect \/ Finish \/ Abandon

Elsewhere ==
  /\ IF Reading /\ pc = "idle" THEN SourceWake /\ UNCHANGED form ELSE UploadNext
  /\ UNCHANGED collecting

BytesInit ==
  /\ UploadInit
  /\ method = NoMethod
  /\ first_chunk = << >> /\ buf = << >> /\ from = 0 /\ taken = 0 /\ pieces = 0
  /\ got = << >>

BytesNext == Elsewhere \/ LoopStep \/ \E m \in Methods : CallMethod(m)

BytesSpec == BytesInit /\ [][BytesNext]_bytesVars

\* The executor polls the loop as it polls a chunk.
FairBytesSpec == BytesSpec /\ ExecutorFair /\ SourceFair /\ WF_bytesVars(LoopStep)

-----------------------------------------------------------------------------
\* What a method returns is made of all the data from where the field was read
\* to up to the boundary that ends it, converted only when it is complete,
\* however it arrived: no chunk is lost, doubled or decoded by itself.
ReturnsRestOfField ==
  \A i \in DOMAIN got :
    LET r == got[i] IN
    /\ out[r.field].done
    /\ r.value = Converted(r.method, CharsetOf(r.field),
                           SubSeq(body, r.from + 1, out[r.field].upto))

\* What a method returns is what the client put into the part, but for what the
\* application had read of it by chunk before: nothing of the encoding around it
\* and nothing that looks like a boundary is lost or added on the way.
ReturnsWhatWasSent ==
  \A i \in DOMAIN got :
    LET r    == got[i]
        data == form.parts[r.field].data
        read == r.from - out[r.field].start
    IN  r.value = Converted(r.method, CharsetOf(r.field), SubSeq(data, read + 1, Len(data)))

\* src/field.rs: a single data chunk is returned without copying.  The empty
\* chunk that may end the data, when its boundary is found only later, does not
\* make it two.
SingleChunkNotCopied == \A i \in DOMAIN got : got[i].copied => got[i].pieces > 1

\* A method that is called returns, with a value or an error, or is cancelled.
MethodReturns == Reading ~> ~Reading
=============================================================================
