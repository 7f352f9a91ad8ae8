---------------------------- MODULE FieldSequence ----------------------------
(***************************************************************************)
(* What the parser promises an application, with no buffer, no chunk and   *)
(* no task: the fields of the form, in order, each with its name and its   *)
(* data in segments of any size; then the end, when the form is            *)
(* well-formed and within its limits; an error only when it is not, and    *)
(* not before what precedes the flaw has been given out.                   *)
(***************************************************************************)
EXTENDS FormBody

CONSTANTS Forms, ConstraintSets, MaxHeaders, SourceMayFail, U64Max

VARIABLES form, constraints,
          emitted,        \* the fields given out: index, name, data so far, done
          verdict         \* "open", "end" or "failed"

abstractVars == <<form, constraints, emitted, verdict>>

\* The largest u64 is no limit at all: the counters saturate there.
Exceeds(n, limit) == limit # U64Max /\ n > limit

PartName(k) == NamedBy(form.parts[k].lines)

FieldLimit(name) ==
  IF name \in DOMAIN constraints.field_map THEN constraints.field_map[name]
  ELSE constraints.per_field

OpeningOK(k) ==
  LET part == form.parts[k] IN
  /\ k <= constraints.max_fields
  /\ PaddingOnly(part.pad) /\ ~Exceeds(Len(part.pad), constraints.boundary_padding)
  /\ LinesOK(part.lines) /\ Len(part.lines) <= MaxHeaders
  /\ ~Exceeds(Len(HeaderBlock(part.lines)), constraints.headers)
  /\ Arrived(form, HeadersUpto(form, k))
  /\ \A allowed \in constraints.allowed_fields : PartName(k) \in allowed

EndingOK == /\ ClosingOK(form)
            /\ ~Exceeds(Len(ClosingPad(form)), constraints.boundary_padding)

\* The boundary line that ends part k is there and is one.
Terminated(k) ==
  IF k = Len(form.parts) THEN EndingOK
  ELSE /\ Arrived(form, BoundaryLineUpto(form, k))
       /\ PaddingOnly(form.parts[k + 1].pad)
       /\ ~Exceeds(Len(form.parts[k + 1].pad), constraints.boundary_padding)

DataOK(k) == ~Exceeds(Len(form.parts[k].data), FieldLimit(PartName(k)))

PreambleAccepted ==
  /\ PreambleOK(form) /\ ~Exceeds(Len(form.preamble), constraints.preamble)

\* Nothing is wrong with the body up to the headers of part k, or up to its
\* end when there is no such part.
AcceptedUpto(k) ==
  /\ PreambleAccepted
  /\ \A j \in 1..(k - 1) : DataOK(j) /\ Terminated(j)
  /\ IF k > Len(form.parts) THEN EndingOK ELSE OpeningOK(k)

StreamTooLarge == Exceeds(Len(Encode(form)), constraints.whole_stream)

-----------------------------------------------------------------------------
Start ==
  /\ form \in Forms /\ constraints \in ConstraintSets
  /\ emitted = << >> /\ verdict = "open"

OpenField ==
  LET k == Len(emitted) + 1 IN
  /\ verdict = "open" /\ k <= Len(form.parts)
  /\ AcceptedUpto(k)
  /\ emitted' = Append(emitted, [idx |-> k - 1, name |-> PartName(k),
                                 data |-> << >>, done |-> FALSE])
  /\ UNCHANGED <<form, constraints, verdict>>

DeliverData ==
  LET k == Len(emitted) IN
  /\ verdict = "open" /\ k > 0 /\ ~emitted[k].done
  /\ \E n \in Len(emitted[k].data)..Len(form.parts[k].data), done \in BOOLEAN :
       /\ ~Exceeds(n, FieldLimit(emitted[k].name))
       /\ done => n = Len(form.parts[k].data) /\ Terminated(k)
       /\ emitted' = [emitted EXCEPT ![k].data = SubSeq(form.parts[k].data, 1, n),
                                     ![k].done = done]
  /\ UNCHANGED <<form, constraints, verdict>>

ReportEnd ==
  /\ verdict = "open" /\ Len(emitted) = Len(form.parts)
  /\ AcceptedUpto(Len(form.parts) + 1)
  /\ verdict' = "end"
  /\ UNCHANGED <<form, constraints, emitted>>

ReportFailure ==
  /\ verdict = "open"
  /\ ~AcceptedUpto(Len(emitted) + 1) \/ StreamTooLarge \/ SourceMayFail
  /\ verdict' = "failed"
  /\ UNCHANGED <<form, constraints, emitted>>

FieldSequenceNext == OpenField \/ DeliverData \/ ReportEnd \/ ReportFailure

FieldSequenceSpec == Start /\ [][FieldSequenceNext]_abstractVars
=============================================================================
