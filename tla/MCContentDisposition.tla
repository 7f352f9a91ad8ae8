------------------------ MODULE MCContentDisposition ------------------------
(***************************************************************************)
(* Headers for ContentDisposition.  Some are what clients write, of each   *)
(* kind that WrittenDisposition has.  The others are all short mixes of    *)
(* the bytes that quoting gives a meaning to.                              *)
(***************************************************************************)
EXTENDS WrittenDisposition

MCSpellings == [ name |-> {"name", "NAME"}, filename |-> {"filename", "FileName"} ]
               @@ ("filename*" :> {"filename*"})

\* from_str_radix accepts a sign: "%+2" is a control byte.
MCHexPairs == (<<"2", "2">> :> "DQ") @@ (<<"2", "5">> :> "%") @@ (<<"3", "B">> :> ";")
              @@ (<<"8", "2">> :> "hi") @@ (<<"+", "2">> :> "stx")

MCNotUtf8     == {"hi"}
MCUndecodable == (<<"utf-8">> :> {"hi"}) @@ (<<"cp1252">> :> {})

-----------------------------------------------------------------------------
(* What clients write *)

OtherLine == [ name |-> "content-type", value |-> <<"text", ";", "name", "=", "x">>, params |-> << >> ]

Given(key, form, texts) ==
  [ key : {key}, written : MCSpellings[key], form : {form}, text : texts,
    charset : {"utf-8"}, pad : { << >> } ]

Texts == { <<"x">>, << >>, <<"x", ";", "name", "=", "y">>, <<"DQ", ";">>, <<"x", "DQ", "DQ">>,
           <<"BS", "x", "SP">>, <<"%", "x">>, <<"%", "2", "2", "%", "x">> }

NameParams ==
  Given("name", "quoted", Texts \union { <<"%", "2", "2">> }) \union Given("name", "token", { <<"x">> })

FileParams ==
  Given("filename", "quoted", Texts) \union Given("filename", "token", { <<"x">> })
  \union Given("filename", "percent", { <<"x", "DQ">>, <<"%", ";">>, <<"%", "2", "2">> })

\* The byte that is no UTF-8 makes the second text undecodable, an unknown
\* charset both, and a malformed percent sequence beside a good one the last.
ExtendedParams ==
  { [p EXCEPT !.charset = c] :
      p \in Given("filename*", "extended", { <<"x", ";", "DQ">>, <<"hi">> }),
      c \in {"utf-8", "cp1252", "x-none"} }
  \union Given("filename*", "bare", { <<"x">>, <<"%", "2", "2", "%", "x">> })

OtherParams ==
  { [ key |-> "size", written |-> "size", form |-> "quoted", text |-> text,
      charset |-> "utf-8", pad |-> << >> ] : text \in { <<"x">>, <<";", "DQ", "filename", "=", "x">> } }

AnyParams == NameParams \union FileParams \union ExtendedParams \union OtherParams

Padded(params) == [ i \in DOMAIN params |-> [params[i] EXCEPT !.pad = <<"SP">>] ]

Dispositions ==
  LET some == { <<p>> : p \in AnyParams } \union (AnyParams \X AnyParams)
              \union (NameParams \X ExtendedParams \X FileParams)
              \union (FileParams \X OtherParams \X ExtendedParams)
  IN  { Disposition(params) : params \in {<< >>} \union some \union { Padded(params) : params \in some } }

\* A part has one Content-Disposition, or none, or by mistake two.
FormParts ==
  { << >>, <<OtherLine>> }
  \union { <<d>> : d \in Dispositions }
  \union { <<Disposition(<<p>>), OtherLine, Disposition(<<q>>)>> : p, q \in NameParams \union FileParams }

-----------------------------------------------------------------------------
(* Any mix of quotes, backslashes and semicolons *)

StringBytes   == {";", "DQ", "BS", "name"}
QuotingBytes  == StringBytes \union {"=", "SP"}
QuotingLength == 5

QuotingParts ==
  { << [ name |-> "content-disposition", value |-> <<"form-data", ";">> \o bytes ] >> :
      bytes \in SeqOf(QuotingBytes, QuotingLength)
                \union { <<"name", "=", "DQ">> \o s : s \in SeqOf(StringBytes, QuotingLength) } }

MCPartHeaders == FormParts \union QuotingParts
=============================================================================
