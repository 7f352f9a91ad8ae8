---------------------------- MODULE MCFormUpload ----------------------------
(***************************************************************************)
(* Forms, limits and chunk sizes for the runs of FormUpload.               *)
(***************************************************************************)
EXTENDS FairUpload

MCBytes == {"CR", "LF", "-", "SP", "TAB", "B", "x", "a", "b", "h", "!"}
MCNames == {"a", "b"}
Letter  == <<"B">>
Hyphen  == <<"-">>

Part(pad, lines, data) == [pad |-> pad, lines |-> lines, data |-> data]

Form(preamble, parts, close_pad, tail) ==
  [preamble |-> preamble, parts |-> parts, close_pad |-> close_pad, tail |-> tail,
   drop |-> 0]

Truncations(f, n) == { [f EXCEPT !.drop = d] : d \in 0..n }

Marker == BOUNDARY_EXT \o Boundary

NoLimits ==
  [ whole_stream |-> U64Max, preamble |-> U64Max, per_field |-> U64Max,
    headers |-> U64Max, boundary_padding |-> U64Max, field_map |-> << >>,
    allowed_fields |-> {}, max_fields |-> UsizeMax ]

Unlimited == {NoLimits}

SmallAndLarge == {1, 2, 7}
OneOrMany     == {1, 9}

-----------------------------------------------------------------------------
(* Data that looks like the boundary that ends it, in the first and in the  *)
(* last part.                                                              *)

LookAlikes ==
  { << >>, <<"x">>, <<"CR", "LF", "-">>, <<"CR", "CR", "LF", "-", "-", "x">>, Marker,
    CRLF_CRLF, <<"CR", "LF", "-", "-", "CR">> }

DataForms ==
  { Form(<< >>, <<Part(<< >>, <<"a">>, d), Part(<< >>, <<"h", "b">>, e)>>, << >>, << >>) :
      d \in LookAlikes, e \in {<< >>, <<"CR">>} }
  \union { Form(<< >>, <<Part(<<"SP">>, <<"b", "a">>, d)>>, << >>, CRLF) : d \in LookAlikes }

HyphenForms ==
  { Form(<< >>, <<Part(<< >>, <<"a">>, d), Part(<< >>, <<"b">>, <<"-">>)>>, << >>, CRLF) :
      d \in { << >>, <<"-">>, <<"CR", "LF", "-", "-">>, <<"CR", "LF", "-", "-", "CR">>, Marker } }
  \union { Form(<<"-", "-", "CR", "LF">>, << >>, << >>, << >>) }

-----------------------------------------------------------------------------
(* The lines around the parts: preambles, padding, headers, endings, and    *)
(* bodies that stop too early.                                             *)

First  == Part(<< >>, <<"a">>, <<"x">>)
Second == Part(<<"SP">>, <<"h", "b">>, << >>)

Preambles == { << >>, CRLF, <<"x", "CR", "LF">>, <<"-", "-", "CR", "LF">>, <<"x">>,
               <<"x">> \o Marker \o CRLF, Marker \o <<"x", "CR", "LF">> }
Tails     == { << >>, CRLF, <<"CR">>, <<"x">>, <<"CR", "x">>, CRLF \o Marker \o CRLF }
Pads      == { << >>, <<"TAB", "SP">>, <<"x">>, <<"SP", "x">>, <<"-">>, <<"CR">> }
HeaderLines == { <<"h">>, <<"a", "b">>, <<"b", "h">>, <<"!">>, <<"a", "!">>, <<"h", "h", "a">> }

FramingForms ==
  { Form(p, <<First>>, << >>, << >>) : p \in Preambles \ {<<"x">>} }
  \union { Form(p, << >>, << >>, << >>) : p \in Preambles }
  \union { Form(<< >>, << >>, p, t) : p \in {<< >>, <<"SP">>, <<"x">>}, t \in Tails }
  \union { Form(<< >>, <<First>>, p, t) : p \in {<< >>, <<"SP">>, <<"x">>}, t \in Tails }
  \union { Form(<< >>, <<[First EXCEPT !.pad = p]>>, << >>, << >>) : p \in Pads }
  \union { Form(<< >>, <<First, [Second EXCEPT !.pad = p]>>, << >>, << >>) : p \in Pads }
  \union { Form(<< >>, <<First, [Second EXCEPT !.lines = l]>>, << >>, << >>) : l \in HeaderLines }

Whole == Form(<<"x", "CR", "LF">>, <<[First EXCEPT !.pad = <<"SP", "TAB">>], Second>>, <<"SP">>,
              CRLF)

TruncatedForms == Truncations(Whole, Len(Complete(Whole)))

-----------------------------------------------------------------------------
(* Every limit at the size of the form and one below.                      *)

Large == Part(<<"SP", "TAB">>, <<"a">>, <<"x", "CR", "x">>)
Empty == Part(<<"SP">>, <<"h", "b">>, << >>)

Bounded == Form(<<"x", "CR", "LF">>, <<Large, Empty>>, <<"SP">>, CRLF)

LimitForms == { Bounded }

With(limit, values) == { [NoLimits EXCEPT ![limit] = v] : v \in values }

Limits ==
  LET total == Len(Encode(Bounded)) IN
  With("whole_stream", {0, 9, total - 3, total - 1, total})
  \union With("preamble", {0, 2, 3})
  \union With("boundary_padding", {0, 1, 2})
  \union With("headers", {4, 5, 7, 8})
  \union With("per_field", {0, 2, 3})
  \union With("max_fields", {0, 1, 2})
  \union With("allowed_fields", { {{}}, {{"a"}}, {{"b"}}, {{"a", "b"}} })
  \union { [NoLimits EXCEPT !.per_field = 0, !.field_map = m] :
             m \in { ("a" :> 3), ("a" :> 2), ("a" :> 3 @@ "b" :> 0), ("b" :> 3) } }

-----------------------------------------------------------------------------
(* The edges: a boundary that overlaps the marker and the closing hyphens,  *)
(* and counters at the largest u64, which is 14 here: data and padding that *)
(* are longer, under limits that are as large and one below.               *)

Times(n, s) == FlattenSeq([i \in 1..n |-> s])

LongForms ==
  { Form(<< >>, <<Part(<< >>, <<"a">>, Times(n, <<"x">>))>>, << >>, << >>) : n \in {13, 14, 17} }
  \union { Form(<< >>, << >>, Times(n, <<"SP">>), << >>) : n \in {13, 14, 17} }

EdgeForms == HyphenForms \union LongForms

LargeLimits ==
  Unlimited \union With("per_field", {U64Max - 1}) \union With("boundary_padding", {U64Max - 1})
    \union With("whole_stream", {U64Max - 1})

-----------------------------------------------------------------------------
(* Parts that are refused for their name, before, between and behind parts  *)
(* that are not, and an application that asks for the next one.             *)

RefusedForms ==
  { Form(<< >>, <<Part(<< >>, <<p[1]>>, d), Part(<< >>, <<p[2]>>, e), Part(<< >>, <<p[3]>>, <<"x">>)>>,
         << >>, CRLF) :
      p \in { <<"a", "b", "a">>, <<"b", "a", "h">>, <<"h", "a", "b">> },
      d \in { <<"x", "x">>, <<"CR", "LF", "-", "-", "CR">> }, e \in { << >>, <<"x", "CR">> } }

SomeAllowed ==
  LET names == { {{"a"}}, {{"b"}}, {{"a", "b"}}, {{}} }
  IN  { [NoLimits EXCEPT !.allowed_fields = n, !.per_field = 2, !.field_map = m, !.max_fields = f] :
          n \in names, m \in { ("b" :> 5), ("a" :> 1 @@ "b" :> 0) }, f \in {2, 3} }

-----------------------------------------------------------------------------
(* Uploads that have to come to an end *)

FairForms == { Form(CRLF, <<Part(<< >>, <<"a">>, <<"CR", "x">>), Second>>, << >>, <<"x">>) }
               \union Truncations(Form(<< >>, <<First>>, << >>, CRLF), 7)

FairLimits == Unlimited \union With("per_field", {1})

-----------------------------------------------------------------------------
(* A part without a header line, before one that has some *)

HeaderlessForms == { Form(<< >>, <<Part(<< >>, << >>, <<"x">>), First>>, << >>, << >>) }

OneField == With("max_fields", {1})

-----------------------------------------------------------------------------
AllForms == DataForms \union FramingForms \union TruncatedForms

FairFormsBodies       == { Encode(f) : f \in FairForms }
RefusedFormsBodies    == { Encode(f) : f \in RefusedForms }
HeaderlessFormsBodies == { Encode(f) : f \in HeaderlessForms }
AllFormsBodies       == { Encode(f) : f \in AllForms }
EdgeFormsBodies      == { Encode(f) : f \in EdgeForms }
LimitFormsBodies     == { Encode(f) : f \in LimitForms }

\* The forms of each run are of the kind that ParserImplementsFieldSequence is
\* about, but for those with a preamble that holds a boundary line or does not end
\* its last line, and those with a part that has no header line.
ASSUME UnambiguousForms ==
  \A f \in Forms : ~PreambleOK(f) \/ f \in HeaderlessForms \/ Unambiguous(f)
=============================================================================
