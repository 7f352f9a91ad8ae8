------------------------- MODULE ContentDisposition -------------------------
(***************************************************************************)
(* From the header lines of a part to the name and the file name of its    *)
(* field: src/helpers.rs, src/content_disposition.rs and the parameter     *)
(* parser of src/constants.rs.                                             *)
(*                                                                         *)
(* A header value is a sequence of byte classes: ";", "=", "%", "DQ" (a    *)
(* double quote), "SQ" (a single one), "BS" (a backslash), "SP" (white     *)
(* space), hexadecimal digits, and words that stand for themselves.  An    *)
(* Option is a set of at most one element.                                 *)
(***************************************************************************)
EXTENDS Integers, SequencesExt

CONSTANTS
  PartHeaders,       \* the header lines a part may have, as httparse returns them
  Spellings,         \* the spellings of each key, upper case and lower
  HexPairs,          \* what u8::from_str_radix(_, 16) makes of two bytes
  NotUtf8,           \* bytes that are no UTF-8 by themselves
  Undecodable        \* for each charset label, the bytes it has no character for

VARIABLES
  lines,             \* the header lines of the part
  attr,              \* the attribute being extracted
  sought,            \* the key looked for
  remaining,         \* what is left of the parameters
  value,             \* the attributes found
  pc                 \* "scan" or "done"

vars == <<lines, attr, sought, remaining, value, pc>>

Attrs == {"Name", "FileName"}
Keys  == {"name", "filename", "filename*"}

\* A key is a word, however it is spelt; a header line is a record whose value
\* is a sequence of byte classes.
ASSUME SpellingsAssumption ==
  DOMAIN Spellings = Keys /\ \A key \in Keys : "DQ" \notin Spellings[key]
ASSUME HeadersAssumption ==
  \A h \in PartHeaders : h \in Seq(Range(h)) /\ \A i \in DOMAIN h : h[i].value \in Seq(STRING)

-----------------------------------------------------------------------------
(* Slices *)

FirstAt(s, bytes) == Min({ i \in DOMAIN s : s[i] \in bytes } \union {Len(s) + 1})

Before(s, i) == SubSeq(s, 1, i - 1)
From(s, i)   == SubSeq(s, i, Len(s))

NotSpace(s) == { i \in DOMAIN s : s[i] # "SP" }

TrimStart(s) == From(s, Min(NotSpace(s) \union {Len(s) + 1}))
TrimEnd(s)   == SubSeq(s, 1, Max(NotSpace(s) \union {0}))

TrimThen(s, byte) ==
  LET t == TrimStart(s) IN IF t # << >> /\ t[1] = byte THEN {Tail(t)} ELSE {}

-----------------------------------------------------------------------------
(* The parameters of a Content-Disposition *)

\* Mutant: a backslash escapes nothing.
QuoteToggles(state, byte) ==
  IF byte # "DQ" THEN state ELSE IF state = "plain" THEN "quoted" ELSE "plain"

\* The scanner that splits parameters, after one more byte.
Scanned(state, byte) ==
  CASE state = "escaped"                  -> "quoted"
    [] state = "quoted" /\ byte = "BS"    -> "escaped"
    [] state = "quoted" /\ byte = "DQ"    -> "plain"
    [] state = "plain"  /\ byte = "DQ"    -> "quoted"
    [] OTHER                              -> state

\* Its state behind each byte of s.
Quoting(s) ==
  LET at[i \in 0..Len(s)] == IF i = 0 THEN "plain" ELSE Scanned(at[i - 1], s[i])
  IN  at

\* Mutant: a semicolon always ends a parameter.
AnySemicolon(s) == FirstAt(s, {";"})

ParameterEnd(s) ==
  Min({ i \in DOMAIN s : s[i] = ";" /\ Quoting(s)[i - 1] = "plain" } \union {Len(s) + 1})

AfterType(header) == From(header, FirstAt(header, {";"}) + 1)

Parameter == TrimStart(Before(remaining, ParameterEnd(remaining)))

KeyOf(p)   == Before(p, FirstAt(p, {"SP", "="}))
RestOf(p)  == TrimThen(From(p, FirstAt(p, {"SP", "="})), "=")

\* Mutant: a key is compared byte by byte.
ExactKey(key, name) == key = <<name>>

SameKey(key, name) == \E word \in Spellings[name] : key = <<word>>

-----------------------------------------------------------------------------
(* Values *)

Backslashes(s, i) == i - 1 - Max({ j \in 1..(i - 1) : s[j] # "BS" } \union {0})

\* The quotes that end the string s, which starts behind its opening quote.
ClosingQuotes(s) == { i \in DOMAIN s : s[i] = "DQ" /\ Backslashes(s, i) % 2 = 0 }

QuotedValue(rest) ==
  { [ bytes |-> Before(s, Min(ClosingQuotes(s))),
      escaped |-> \E i \in 1..(Min(ClosingQuotes(s)) - 1) : s[i] = "DQ" ] :
      s \in { t \in TrimThen(rest, "DQ") : ClosingQuotes(t) # {} } }

UnquotedValue(rest) ==
  LET v == TrimStart(rest) IN TrimEnd(Before(v, FirstAt(v, {";"})))

\* Mutant: a malformed percent sequence spoils the whole value.
StrictPercent(s) ==
  IF \A i \in DOMAIN s : s[i] = "%" => i + 2 <= Len(s) /\ <<s[i + 1], s[i + 2]>> \in DOMAIN HexPairs
  THEN {s} ELSE {}

\* Percent-decoding from each position on, if all of it can be decoded.
DecodePercent(s) ==
  LET from[i \in 1..(Len(s) + 1)] ==
        IF i = Len(s) + 1 THEN { << >> }
        ELSE IF s[i] # "%" THEN { <<s[i]>> \o d : d \in from[i + 1] }
        ELSE IF i + 2 <= Len(s) /\ <<s[i + 1], s[i + 2]>> \in DOMAIN HexPairs
        THEN { <<HexPairs[<<s[i + 1], s[i + 2]>>]>> \o d : d \in from[i + 3] }
        ELSE {}
  IN  from[1]

Utf8(s) == \A i \in DOMAIN s : s[i] \notin NotUtf8

\* value.replace(r#"\""#, "\"")
Unescape(s) ==
  FlattenSeq([ i \in DOMAIN s |-> IF s[i] = "BS" /\ i < Len(s) /\ s[i + 1] = "DQ"
                                  THEN << >> ELSE <<s[i]>> ])

DecodeValue(v, percent) ==
  LET decoded == IF percent THEN DecodePercent(v.bytes) ELSE {}
      text    == IF decoded = {} THEN v.bytes ELSE CHOOSE d \in decoded : TRUE
  IN  { IF v.escaped THEN Unescape(t) ELSE t : t \in { u \in {text} : Utf8(u) } }

\* charset'language'percent-encoded
DecodeExtended(s) ==
  LET label == Before(s, FirstAt(s, {"SQ"}))
      rest  == From(s, FirstAt(s, {"SQ"}) + 1)
      text  == From(rest, FirstAt(rest, {"SQ"}) + 1)
  IN  IF Utf8(s) /\ FirstAt(rest, {"SQ"}) <= Len(rest) /\ label \in DOMAIN Undecodable
      THEN { d \in DecodePercent(text) : \A i \in DOMAIN d : d[i] \notin Undecodable[label] }
      ELSE {}

Decoded(rest) ==
  IF sought = "filename*" THEN DecodeExtended(UnquotedValue(rest))
  ELSE IF QuotedValue(rest) # {}
  THEN UNION { DecodeValue(v, attr = "FileName") : v \in QuotedValue(rest) }
  ELSE DecodeValue([bytes |-> UnquotedValue(rest), escaped |-> FALSE], attr = "FileName")

-----------------------------------------------------------------------------
(* The header map: of several lines of one name the last one stays. *)

\* Mutant: the first one stays.
FirstLine(name) ==
  LET at == { i \in DOMAIN lines : lines[i].name = name }
  IN  IF at = {} THEN {} ELSE {lines[Min(at)].value}

HeaderMap(name) ==
  LET at == { i \in DOMAIN lines : lines[i].name = name }
  IN  IF at = {} THEN {} ELSE {lines[Max(at)].value}

\* ContentDisposition::parse extracts the name, then the file name.  Without
\* the header both are absent.
Header == UNION { {AfterType(h)} : h \in HeaderMap("content-disposition") }

Parameters == IF Header = {} THEN << >> ELSE CHOOSE h \in Header : TRUE

Restart(a, key) ==
  attr' = a /\ sought' = key /\ remaining' = Parameters /\ pc' = "scan"

\* Mutant: an extended file name that cannot be decoded ends the search.
NoFallback(v) == FALSE

FallsBack(v) == sought = "filename*" /\ v = {}

Found(v) ==
  /\ value' = [value EXCEPT ![attr] = v]
  /\ IF FallsBack(v) THEN Restart(attr, "filename")
     ELSE IF attr = "Name" THEN Restart("FileName", "filename*")
     ELSE pc' = "done" /\ UNCHANGED <<attr, sought, remaining>>
  /\ UNCHANGED lines

IsSought == RestOf(Parameter) # {} /\ SameKey(KeyOf(Parameter), sought)

SkipParameter ==
  /\ pc = "scan" /\ remaining # << >> /\ ~IsSought
  /\ remaining' = From(remaining, ParameterEnd(remaining) + 1)
  /\ UNCHANGED <<lines, attr, sought, value, pc>>

ReadParameter ==
  /\ pc = "scan" /\ remaining # << >> /\ IsSought
  /\ Found(UNION { Decoded(rest) : rest \in RestOf(Parameter) })

NoParameterLeft == pc = "scan" /\ remaining = << >> /\ Found({})

Init ==
  /\ lines \in PartHeaders
  /\ attr = "Name" /\ sought = "name" /\ remaining = Parameters
  /\ value = [a \in Attrs |-> {}]
  /\ pc = "scan"

Next == SkipParameter \/ ReadParameter \/ NoParameterLeft

Spec == Init /\ [][Next]_vars

-----------------------------------------------------------------------------
\* The two scanners agree: where the splitter leaves the string that a value
\* starts with is where the reader of quoted values finds its end, and the one
\* finds no end when the other finds none.
ScannersAgree ==
  pc = "scan" /\ remaining # << >> /\ IsSought =>
    \A rest \in RestOf(Parameter) : \A s \in TrimThen(rest, "DQ") :
      LET open == Len(Parameter) - Len(s)
          left == { i \in DOMAIN s : Quoting(Parameter)[open + i] = "plain" }
      IN  IF left = {} THEN ClosingQuotes(s) = {}
          ELSE Min(left) \in ClosingQuotes(s) /\ \A i \in ClosingQuotes(s) : i >= Min(left)

=============================================================================
