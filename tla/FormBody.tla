------------------------------ MODULE FormBody ------------------------------
(***************************************************************************)
(* Forms and the bodies that carry them: the encoding a client produces,   *)
(* written without looking at how the parser works.  It is what the        *)
(* results of the parser are compared with.                                *)
(*                                                                         *)
(* A form is a record                                                      *)
(*    preamble  what precedes the first boundary                           *)
(*    parts     a sequence of parts: the padding after the boundary that   *)
(*              opens it, its header lines, its data                       *)
(*    close_pad the padding after the closing boundary                     *)
(*    tail      what follows that                                          *)
(*    drop      how many bytes are missing at the end of the body          *)
(***************************************************************************)
EXTENDS ByteSearch, SequencesExt

HeaderBlock(lines) == FlattenSeq([j \in DOMAIN lines |-> <<lines[j]>> \o CRLF]) \o CRLF

OpenPart(part) == BoundaryBytes \o part.pad \o CRLF \o HeaderBlock(part.lines)

EncodeParts(parts) ==
  FlattenSeq([k \in DOMAIN parts |-> OpenPart(parts[k]) \o parts[k].data \o CRLF])

BeforeClose(f) == f.preamble \o EncodeParts(f.parts) \o BoundaryBytes \o BOUNDARY_EXT

Complete(f) == BeforeClose(f) \o f.close_pad \o f.tail

Encode(f) == SubSeq(Complete(f), 1, Len(Complete(f)) - f.drop)

-----------------------------------------------------------------------------
(* How much of the body has to arrive for each thing to be known *)

Arrived(f, n) == n <= Len(Encode(f))

\* through the header block of part k
HeadersUpto(f, k) ==
  Len(f.preamble) + Len(EncodeParts(SubSeq(f.parts, 1, k - 1))) + Len(OpenPart(f.parts[k]))

\* through the CRLF of the boundary line that ends part k, but the last
BoundaryLineUpto(f, k) ==
  HeadersUpto(f, k) + Len(f.parts[k].data) + Len(FieldBoundary)
    + Len(f.parts[k + 1].pad) + Len(CRLF)

-----------------------------------------------------------------------------
(* Well-formed parts of a form *)

PaddingOnly(s) == \A i \in DOMAIN s : s[i] \in Padding

\* No line of the preamble starts with the boundary, and the first boundary
\* starts a line.
PreambleOK(f) ==
  LET s == f.preamble \o BoundaryBytes
  IN  FirstBoundary(s, 0, 0, Len(s), BoundaryBytes) = Len(f.preamble)

\* The data does not contain its own delimiter.
Clean(data) ==
  LET s == data \o FieldBoundary
  IN  Find(s, 0, Len(s), FieldBoundary) = Len(data)

LinesOK(lines) == Len(lines) > 0 /\ \A j \in DOMAIN lines : lines[j] \in Names \union {"h"}

NamedBy(lines) ==
  LET naming == { j \in DOMAIN lines : lines[j] \in Names }
  IN  IF naming = {} THEN NoName ELSE lines[Max(naming)]

\* The padding after the closing boundary, as far as it arrives
ClosingPad(f) ==
  SubSeq(f.close_pad, 1, Min({Len(f.close_pad), Len(Encode(f)) - Len(BeforeClose(f))}))

\* The closing boundary has arrived, and a line end or nothing follows it.
ClosingOK(f) ==
  LET padded == Len(BeforeClose(f)) + Len(f.close_pad)
  IN  /\ Arrived(f, Len(BeforeClose(f)))
      /\ PaddingOnly(ClosingPad(f))
      /\ Arrived(f, padded + 1) => /\ Arrived(f, padded + Len(CRLF))
                                   /\ IsPrefix(CRLF, f.tail)

-----------------------------------------------------------------------------
(* Forms that can be read in one way only: the encoding of none of their    *)
(* pieces runs into the next one.  A padding that goes on as a closing      *)
(* boundary or a line end, a header block without a line, data that holds   *)
(* its own delimiter would be another form's piece.                         *)

FormType ==
  [ preamble : Seq(Bytes), close_pad : Seq(Bytes), tail : Seq(Bytes), drop : Nat,
    parts : Seq([pad : Seq(Bytes), lines : Seq(Bytes), data : Seq(Bytes)]) ]

OneLine(s) == {"CR", "LF"} \intersect Range(s) = {}

UnambiguousPart(part) ==
  /\ "LF" \notin Range(part.pad) /\ ~IsPrefix(BOUNDARY_EXT, part.pad)
  /\ part.lines # << >> /\ OneLine(part.lines)
  /\ Clean(part.data)

Unambiguous(f) ==
  /\ f \in FormType /\ f.drop <= Len(Complete(f))
  /\ PreambleOK(f)
  /\ \A k \in DOMAIN f.parts : UnambiguousPart(f.parts[k])
  /\ OneLine(f.close_pad) /\ (f.tail # << >> => f.tail[1] \notin Padding)
=============================================================================
