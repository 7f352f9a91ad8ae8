---------------------------- MODULE MCMultipart ----------------------------
(***************************************************************************)
(* Bodies no client would encode, sources that fail, and an application    *)
(* that goes on after errors.                                              *)
(***************************************************************************)
EXTENDS Multipart, TLC

MCBytes == {"CR", "LF", "-", "SP", "TAB", "B", "x", "a", "b", "h", "!"}
MCNames      == {"a", "b"}
MCBoundary   == <<"B">>
MCChunkSizes == {1, 4}

Marker == BOUNDARY_EXT \o Boundary
Close  == CRLF \o Marker \o BOUNDARY_EXT

PartOf(lines, data) == Marker \o CRLF \o lines \o CRLF_CRLF \o data

\* Two parts without any header line, then one with.
Headerless ==
  Marker \o CRLF_CRLF \o <<"x">> \o CRLF \o PartOf(<<"a">>, <<"x", "x">>) \o Close

\* Padding over the limit, and junk after a boundary, with parts behind them.
Padded ==
  PartOf(<<"a">>, <<"x">>) \o CRLF \o Marker \o <<"SP", "SP">> \o CRLF \o <<"b">>
    \o CRLF_CRLF \o Close \o <<"TAB", "SP">> \o CRLF

Junk ==
  <<"x", "x">> \o CRLF \o Marker \o <<"x", "x">> \o CRLF \o <<"a">> \o CRLF_CRLF
    \o <<"x">> \o CRLF \o Marker \o <<"-", "x">> \o Close \o <<"x">>

\* Fields, header blocks and counts over the limit, one after the other.
Oversized ==
  PartOf(<<"a">>, <<"x", "x", "x">>) \o CRLF \o PartOf(<<"h", "CR", "LF", "b">>, << >>)
    \o CRLF \o PartOf(<<"!">>, <<"x">>) \o CRLF \o PartOf(<<"b">>, <<"x">>) \o Close

MCBodies == { Headerless, Padded, Junk, Oversized, << >> }

NoLimits ==
  [ whole_stream |-> U64Max, preamble |-> U64Max, per_field |-> U64Max,
    headers |-> U64Max, boundary_padding |-> U64Max, field_map |-> << >>,
    allowed_fields |-> {}, max_fields |-> UsizeMax ]

MCConstraintSets ==
  { NoLimits,
    [NoLimits EXCEPT !.per_field = 2, !.field_map = ("b" :> 0), !.boundary_padding = 1],
    [NoLimits EXCEPT !.max_fields = 1, !.preamble = 1],
    [NoLimits EXCEPT !.allowed_fields = {{"b"}}, !.headers = 6],
    [NoLimits EXCEPT !.whole_stream = 17] }
=============================================================================
