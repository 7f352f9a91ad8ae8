----------------------------- MODULE ByteSearch -----------------------------
(***************************************************************************)
(* The pure byte searches of src/buffer.rs.                                *)
(*                                                                         *)
(* A buffer is the window of s that starts after position `from` and ends  *)
(* at position `to`: its i-th byte (counted from 0, as in the code) is     *)
(* s[from + i + 1].  Every position below is a position in s; an index of  *)
(* the code is the distance from the start of its slice.                   *)
(*                                                                         *)
(* A byte is a class of bytes the parser tells apart: CR, LF, a hyphen,    *)
(* padding (space, tab), and everything else.  One class stands for a      *)
(* whole header line (HeaderBlock below).                                  *)
(***************************************************************************)
EXTENDS Integers, Sequences, FiniteSetsExt

CONSTANTS
  Bytes,             \* the byte classes
  Names,             \* those that stand for a header line naming a field
  Boundary           \* the boundary, a sequence of byte classes

ASSUME BytesAssumption    == {"CR", "LF", "-", "SP", "TAB"} \subseteq Bytes
ASSUME NamesAssumption    == Names \subseteq Bytes \ {"none"}
ASSUME BoundaryAssumption == Boundary \in Seq(Bytes)

CRLF         == <<"CR", "LF">>
CRLF_CRLF    == <<"CR", "LF", "CR", "LF">>
BOUNDARY_EXT == <<"-", "-">>
Padding      == {"SP", "TAB"}

BoundaryBytes == BOUNDARY_EXT \o Boundary
FieldBoundary == CRLF \o BoundaryBytes

NotFound == -1
NoName   == "none"

-----------------------------------------------------------------------------
(* Searching a pattern *)

Matches(s, at, pat) == \A k \in 1..Len(pat) : s[at + k] = pat[k]

\* Where pat starts in the window: what memchr::memmem::find looks for.
Occurrences(s, from, to, pat) ==
  { at \in from..(to - Len(pat)) : Matches(s, at, pat) }

FirstOf(positions) == IF positions = {} THEN NotFound ELSE Min(positions)

Find(s, from, to, pat) == FirstOf(Occurrences(s, from, to, pat))

\* The first boundary marker from `from` on that starts a line of the buffer,
\* which itself starts at `start`.
LineStart(s, start, at) ==
  at = start \/ (at >= start + 2 /\ Matches(s, at - 2, CRLF))

FirstBoundary(s, start, from, to, pat) ==
  FirstOf({ at \in Occurrences(s, from, to, pat) : LineStart(s, start, at) })

\* The longest end of the buffer that is a proper prefix of the pattern.
PartialSuffixes(s, from, to, pat) ==
  { n \in 0..(Len(pat) - 1) : n <= to - from /\ Matches(s, to - n, SubSeq(pat, 1, n)) }

\* Mutant: a boundary cut by the end of the buffer goes unnoticed.
NoPartialSuffix(s, from, to, pat) == 0

PartialSuffixLen(s, from, to, pat) == Max(PartialSuffixes(s, from, to, pat))

-----------------------------------------------------------------------------
(* What follows a field boundary *)

PaddingEnd(s, from, to) ==
  Min({ at \in from..to : at = to \/ s[at + 1] \notin Padding })

\* scanned is how much of the padding earlier calls have been through already.
MatchPaddingAndCrlf(s, from, to, eof, allow_eof, scanned, limit) ==
  LET end == PaddingEnd(s, from + scanned, to)
      now == end - from
      rest == to - end
  IN  IF scanned > limit THEN [verdict |-> "TooLong", scanned |-> scanned]
      ELSE IF now > limit THEN [verdict |-> "TooLong", scanned |-> limit + 1]
      ELSE [ verdict |->
               IF rest = 0
               THEN IF ~eof THEN "Partial" ELSE IF allow_eof THEN "Valid" ELSE "Invalid"
               ELSE IF rest >= 2 /\ Matches(s, end, CRLF) THEN "Valid"
               ELSE IF rest = 1 /\ s[to] = "CR" /\ ~eof THEN "Partial"
               ELSE "Invalid",
             scanned |-> now ]

\* Mutant: a lone hyphen is taken for a byte that cannot follow a boundary.
EmptySuffix(len, dash) == len = 0

\* What has arrived of the suffix may still become the closing hyphens.
MayStillClose(len, dash) == len = 0 \/ (len = 1 /\ dash)

MatchBoundarySuffix(s, from, to, eof, scanned, limit) ==
  LET len == to - from
      dash == len >= 1 /\ s[from + 1] = "-"
      closing == len >= 2 /\ Matches(s, from, BOUNDARY_EXT)
  IN  IF ~eof /\ MayStillClose(len, dash)
      THEN [verdict |-> "Partial", scanned |-> scanned]
      ELSE IF closing THEN MatchPaddingAndCrlf(s, from + 2, to, eof, TRUE, scanned, limit)
      ELSE IF len = 0 \/ dash THEN [verdict |-> "Invalid", scanned |-> scanned]
      ELSE MatchPaddingAndCrlf(s, from, to, eof, FALSE, scanned, limit)

\* What is remembered of a scan: n bytes after the boundary, or after the
\* hyphens that close the body, are padding.
PaddingScanned(s, from, to, n) ==
  LET start == IF s[from + 1] = "-" THEN from + Len(BOUNDARY_EXT) ELSE from
  IN  start + n <= to /\ \A i \in 1..n : s[start + i] \in Padding

-----------------------------------------------------------------------------
(* A header block is a sequence of header lines and an empty line.  A line  *)
(* is one byte class and its CRLF: a member of Names for a Content-         *)
(* Disposition that names the field, "h" for any other header.  The parser  *)
(* httparse stops at the first empty line, and refuses what is not a line.  *)

IsLineOf(block, j) ==
  /\ block[3 * j - 2] \in Names \union {"h"}
  /\ block[3 * j - 1] = "CR"
  /\ block[3 * j] = "LF"

Lines(block) == (Len(block) - 2) \div 3

ParseHeaders(block, max_headers) ==
  LET naming == { j \in 1..Lines(block) : block[3 * j - 2] \in Names }
      named  == IF naming = {} THEN NoName ELSE block[3 * Max(naming) - 2]
  IN  IF Matches(block, 0, CRLF) THEN [ok |-> TRUE, name |-> NoName]
      ELSE [ ok |-> /\ Len(block) % 3 = 2
                    /\ \A j \in 1..Lines(block) : IsLineOf(block, j)
                    /\ Lines(block) <= max_headers,
             name |-> named ]
=============================================================================
