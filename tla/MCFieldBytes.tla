----------------------------- MODULE MCFieldBytes -----------------------------
(***************************************************************************)
(* Fields whose data holds a character of two bytes, "c1" and "c2", or     *)
(* looks like a boundary; parts with and without a charset.                *)
(***************************************************************************)
EXTENDS FieldBytes, MCFormUpload

CharBytes == MCBytes \union {"c1", "c2"}

MCLabels    == {"utf-8", "unknown"}
MCEncodings == {"utf-8", "cp1252"}
MCCharset   == "cp1252"

\* cp1252 has a character for every byte.
MCDecode(encoding, bytes) ==
  LET Starts(i) == bytes[i] = "c1" /\ i < Len(bytes) /\ bytes[i + 1] = "c2"
      Ends(i)   == bytes[i] = "c2" /\ i > 1 /\ bytes[i - 1] = "c1"
  IN  IF encoding = "cp1252" THEN [ i \in DOMAIN bytes |-> <<bytes[i]>> ]
      ELSE FlattenSeq([ i \in DOMAIN bytes |->
             IF Starts(i) THEN <<"char">> ELSE IF Ends(i) THEN << >>
             ELSE IF bytes[i] \in {"c1", "c2"} THEN <<"replacement">> ELSE <<bytes[i]>> ])

MCDeserialize(bytes) == IF bytes = << >> THEN "DecodeJson" ELSE <<bytes>>

CharForms ==
  { Form(<< >>, <<Part(<< >>, <<"a">>, <<"c1", "c2", "x">>), Part(<< >>, <<"h", "b">>, <<"c1">>)>>,
         << >>, << >>),
    Form(<< >>, <<Part(<< >>, <<"h", "a">>, <<"x", "CR", "LF", "-", "c2">>)>>, << >>, << >>),
    Form(<< >>, <<Part(<< >>, <<"b">>, << >>), Part(<< >>, <<"a">>, <<"x", "c1", "c2">>)>>,
         << >>, CRLF) }

CutForms == { [Form(<< >>, <<Part(<< >>, <<"a">>, <<"c1", "c2", "x">>)>>, << >>, << >>)
                 EXCEPT !.drop = 3] }

CharFormsBodies == { Encode(f) : f \in CharForms \union CutForms }

AllCharForms == CharForms \union CutForms
OneOrThree   == {1, 3}
=============================================================================
