----------------------------- MODULE FormUpload -----------------------------
(***************************************************************************)
(* The parser reading the encoding of a form, and the refinement mapping   *)
(* under which it implements FieldSequence.                                *)
(***************************************************************************)
EXTENDS Multipart, FormBody

CONSTANT Forms

VARIABLE form

ASSUME FormsAssumption == Bodies = { Encode(f) : f \in Forms }

uploadVars == <<vars, form>>

UploadInit == Init /\ form \in Forms /\ body = Encode(form)

UploadNext == Next /\ UNCHANGED form

UploadSpec == UploadInit /\ [][UploadNext]_uploadVars

-----------------------------------------------------------------------------
Emitted ==
  [ k \in DOMAIN out |->
      [ idx |-> out[k].idx, name |-> out[k].name, done |-> out[k].done,
        data |-> SubSeq(body, out[k].start + 1, out[k].upto) ] ]

Verdict == IF errors > 0 THEN "failed" ELSE IF stage = "Eof" THEN "end" ELSE "open"

Abstract == INSTANCE FieldSequence WITH emitted <- Emitted, verdict <- Verdict

\* The fields the application gets, their indices, names and data, do not
\* depend on how the body is cut into chunks, on empty chunks, pending polls
\* and cancelled calls, nor on what the application reads or skips; a form is
\* refused exactly when something is wrong with it, and no later part is given
\* out then.
ImplementsFieldSequence == Abstract!FieldSequenceSpec

\* The parser reads each part as what it is, whether its field is being read,
\* was dropped, or was refused with UnknownField: it stands inside the data of
\* the part it counted last, has counted what it read of that data, and holds
\* it to the limit of that part's name.  (Of forms whose lines are all in order,
\* as after an error in a line the parser may stand anywhere.)
DataHeldToItsPart ==
  stage = "ReadingFieldData" /\ curr_field_size_counter <= curr_field_size_limit =>
    /\ next_field_idx \in DOMAIN form.parts
    /\ curr_field_name = Abstract!PartName(next_field_idx)
    /\ curr_field_size_limit = Abstract!FieldLimit(curr_field_name)
    /\ LET read == lo - HeadersUpto(form, next_field_idx) IN
       /\ read \in 0..Len(form.parts[next_field_idx].data)
       /\ curr_field_size_counter = SatAdd(0, read)

\* A refused part costs the application nothing but that part, and keeps its
\* index: what is given out are parts of the form, under their own index and
\* name and with their own data, at the end none is missing that is allowed, and
\* what follows a refused part of a well-formed form is not called malformed.
RefusedPartsSkipped ==
  /\ \A k \in DOMAIN out :
       LET part == out[k].idx + 1 IN
       /\ part \in DOMAIN form.parts
       /\ out[k].name = Abstract!PartName(part)
       /\ IsPrefix(Emitted[k].data, form.parts[part].data)
       /\ out[k].done => Emitted[k].data = form.parts[part].data
  /\ stage = "Eof" =>
       { out[k].idx + 1 : k \in DOMAIN out }
         = { part \in DOMAIN form.parts : IsItAllowed(Abstract!PartName(part)) }
  /\ ret \notin {"ReadHeaderFailed", "IncompleteStream", "IncompleteFieldData"}

\* README.md, lines 89 to 97: max_fields rejects bodies containing too many
\* parts; the next part beyond the limit is an error.
FieldCountEnforced == Verdict = "end" => Len(form.parts) <= constraints.max_fields
=============================================================================
