-------------------------- MODULE MCMultipartBuilder --------------------------
(***************************************************************************)
(* Boundaries and calls to the builders for the runs of MultipartBuilder.  *)
(***************************************************************************)
EXTENDS MultipartBuilder

MCBytes        == {"CR", "LF", "SP", "TAB", "-", "B", "@"}
MCAlphanumeric == {"B"}

Long(n) == [i \in 1..n |-> "B"]

MCBoundaries == SeqOf(MCBytes, 3) \union {Long(70), Long(71)}
                \union { <<"B">> \o CRLF \o BOUNDARY_EXT \o <<"B">> }
MCPaddings   == SeqOf({"SP", "TAB"}, 1)

ContentType(type, subtype, params) ==
  [valid |-> TRUE, type |-> type, subtype |-> subtype, params |-> params]

BoundaryParams(b) ==
  { <<[name |-> "boundary", value |-> b]>>,
    <<[name |-> "charset", value |-> <<"B">>], [name |-> "boundary", value |-> b],
      [name |-> "boundary", value |-> <<"-">>]>> }

MCContentTypes ==
  { [ContentType("x", "x", << >>) EXCEPT !.valid = FALSE],
    ContentType("multipart", "form-data", << >>) }
  \union { ContentType(type, subtype, params) :
             type \in {"multipart", "text"}, subtype \in {"form-data", "mixed"},
             params \in UNION { BoundaryParams(b) : b \in {<<"B", "SP", "-">>, <<"B", "SP">>,
                                                           <<"@">>, Long(70), Long(71)} } }

OneBoundary    == { <<"B">> }
NoContentTypes == {}
MCFieldNames   == {"a", "b"}
MCSizes        == {0, 1}
=============================================================================
