------------------------- MODULE WrittenDisposition -------------------------
(***************************************************************************)
(* Content-Disposition headers as clients write them, and what they mean   *)
(* by them: a grammar written without looking at how the parser works,     *)
(* with which its results are compared.  A line that a client has written  *)
(* carries the parameters it stands for.  A parameter is a record          *)
(*    key      what it is: a key, or anything else                         *)
(*    written  its name, in one of the spellings of the key                *)
(*    form     how its value is written                                    *)
(*    text     the value                                                   *)
(*    charset  the charset of an extended value                            *)
(*    pad      the white space around name and value                       *)
(***************************************************************************)
EXTENDS ContentDisposition

\* RFC 2616: a quote in a quoted string is escaped.
Escape(text) == FlattenSeq([ i \in DOMAIN text |->
                  IF text[i] = "DQ" THEN <<"BS", "DQ">> ELSE <<text[i]>> ])

HexOf(byte) == { pair \in DOMAIN HexPairs : HexPairs[pair] = byte }

\* WHATWG forms and RFC 5987.
PercentEncode(text) == FlattenSeq([ i \in DOMAIN text |->
  IF HexOf(text[i]) # {} THEN <<"%">> \o CHOOSE pair \in HexOf(text[i]) : TRUE
  ELSE <<text[i]>> ])

Quote(bytes) == <<"DQ">> \o bytes \o <<"DQ">>

\* A client that takes a text for encoded already writes it bare.
ExtendedText(p) == IF p.form = "bare" THEN p.text ELSE PercentEncode(p.text)

Wire(p) ==
  CASE p.form = "token"    -> p.text
    [] p.form = "quoted"   -> Quote(Escape(p.text))
    [] p.form = "percent"  -> Quote(PercentEncode(p.text))
    [] p.form \in {"extended", "bare"} ->
         <<p.charset, "SQ", "en", "SQ">> \o ExtendedText(p)

Spaced(p, bytes) == p.pad \o bytes \o p.pad

ParameterOf(p) == <<";">> \o Spaced(p, <<p.written>>) \o <<"=">> \o Spaced(p, Wire(p))

Disposition(params) ==
  [ name   |-> "content-disposition",
    value  |-> <<"form-data">> \o FlattenSeq([ i \in DOMAIN params |-> ParameterOf(params[i]) ]),
    params |-> params ]

-----------------------------------------------------------------------------
(* What clients mean *)

First(params, key) ==
  LET at == { i \in DOMAIN params : params[i].key = key }
  IN  IF at = {} THEN {} ELSE {params[Min(at)]}

TextOf(ps) == { p.text : p \in ps }

\* The charset is known and has all of the text; a percent sign is encoded.
Decodable(p) ==
  /\ <<p.charset>> \in DOMAIN Undecodable
  /\ \A i \in DOMAIN p.text : p.text[i] \notin Undecodable[<<p.charset>>]
  /\ p.form = "bare" => \A i \in DOMAIN p.text : p.text[i] # "%"

MeantBy(params) ==
  LET extended == { p \in First(params, "filename*") : Decodable(p) }
  IN  [ Name     |-> TextOf(First(params, "name")),
        FileName |-> TextOf(IF extended # {} THEN extended ELSE First(params, "filename")) ]

\* The parameters that count: those of the last line there is.
Governing ==
  LET at == { i \in DOMAIN lines : lines[i].name = "content-disposition" }
  IN  IF at = {} THEN << >> ELSE lines[Max(at)].params

Meant == MeantBy(Governing)

\* The parts that a client has written
Written == \A i \in DOMAIN lines : "params" \in DOMAIN lines[i]

\* The name and the file name of a field are the ones its client wrote: the
\* first parameter of that key, whatever another parameter's string holds and
\* in whatever form it is given; a file name in the extended form, if its
\* charset is known and decodes it and no percent sequence in it is malformed,
\* before one in the plain form; and of two Content-Disposition lines the last.
ReadsWhatWasWritten == pc = "done" /\ Written => value = Meant

-----------------------------------------------------------------------------
(* What a client has to keep to, if it is to be understood *)

Delimiters == {";", "=", "SP", "DQ"}

\* No client escapes a backslash: one that stands before a quote, or at the
\* end, would be taken for an escape, but for every second one.
Quotable(text) ==
  \A i \in 1..(Len(text) + 1) :
    (i <= Len(text) => text[i] = "DQ") => Backslashes(text, i) % 2 = 0

\* Nothing in it could be taken for a percent sequence, or not all of it could.
NotEncoded(bytes) ==
  (\E i \in DOMAIN bytes : bytes[i] = "%") =>
    \E i \in DOMAIN bytes :
      bytes[i] = "%" /\ ~(i + 2 <= Len(bytes) /\ <<bytes[i + 1], bytes[i + 2]>> \in DOMAIN HexPairs)

Encodes(bytes, text) == \A i \in DOMAIN text : text[i] \in bytes => HexOf(text[i]) # {}

WellFormed(p) ==
  CASE p.form = "token" ->
         /\ \A i \in DOMAIN p.text : p.text[i] \notin {";", "DQ"}
         /\ p.text # << >> => p.text[1] # "SP" /\ p.text[Len(p.text)] # "SP"
    [] p.form = "quoted"   -> Quotable(p.text)
    [] p.form = "percent"  ->
         /\ Encodes({"%", "DQ"}, p.text)
         /\ p.text # << >> /\ p.text[Len(p.text)] = "BS" => HexOf("BS") # {}
    [] p.form = "extended" ->
         /\ p.charset \in STRING \ (Delimiters \union NotUtf8 \union {"SQ"})
         /\ Encodes({"%"} \union Delimiters \union NotUtf8, p.text)
    [] p.form = "bare" ->
         /\ p.charset \in STRING \ (Delimiters \union NotUtf8 \union {"SQ"})
         /\ \A i \in DOMAIN p.text : p.text[i] \notin Delimiters
         /\ NotEncoded(p.text)

WellWritten(p) ==
  /\ p.form \in {"token", "quoted", "percent", "extended", "bare"}
  /\ p.text \in Seq(STRING) /\ p.pad \in Seq({"SP"}) /\ p.written \in STRING \ Delimiters
  /\ \A key \in Keys : p.written \in Spellings[key] <=> p.key = key
  /\ p.key = "filename*" => p.form \in {"extended", "bare"}
  /\ p.form \in {"extended", "bare"} => p.key \notin {"name", "filename"}
  /\ p.form = "percent" => p.key # "name"
  /\ p.form # "extended" => Utf8(p.text)
  /\ p.key = "filename" /\ p.form # "percent" => NotEncoded(Escape(p.text))
  /\ WellFormed(p)

\* Two hexadecimal digits, or a sign and one; none of them means anything else.
ASSUME HexAssumption ==
  \A pair \in DOMAIN HexPairs :
    /\ pair \in Seq(STRING) /\ Len(pair) = 2 /\ HexPairs[pair] \in STRING
    /\ \A i \in {1, 2} : pair[i] \notin {"%", "BS", "SQ"} \union Delimiters \union NotUtf8
ASSUME AsciiAssumption == {"%", "BS", "DQ", "SQ", "en"} \intersect NotUtf8 = {}
ASSUME ClientsAssumption ==
  \A h \in PartHeaders : (\A i \in DOMAIN h : "params" \in DOMAIN h[i]) =>
    \A i \in DOMAIN h : h[i].name = "content-disposition" =>
      LET params == h[i].params IN
      /\ params \in Seq(Range(params)) /\ \A k \in DOMAIN params : WellWritten(params[k])
      /\ h[i].value = Disposition(params).value
=============================================================================
