--------------------------- MODULE MultipartBuilder ---------------------------
(***************************************************************************)
(* What an application does before it reads: it takes the boundary from a  *)
(* Content-Type or makes one up (src/lib.rs), sets limits on a SizeLimit   *)
(* and on Constraints (src/size_limit.rs, src/constraints.rs), and makes a *)
(* Multipart of them with one of eight constructors (src/multipart.rs).    *)
(*                                                                         *)
(* A content type is what mime parses it to: whether it is one, its type   *)
(* and its parameters, in order.  A boundary is a sequence of bytes.       *)
(***************************************************************************)
EXTENDS Integers, SequencesExt

CONSTANTS
  Bytes,
  ContentTypes,      \* content types that may be parsed
  Boundaries,        \* boundaries the application may come up with itself
  Alphanumeric,      \* the ASCII letters and digits
  FieldNames,
  Paddings,          \* transport padding
  Sizes,             \* limits that may be set
  U64Max, UsizeMax,
  MaxCalls           \* bound on the calls to the builders

VARIABLES
  boundary,          \* the boundary the application has
  parsed,            \* it comes from parse_boundary
  size_limit,        \* the SizeLimit being built
  constraints,       \* the Constraints being built
  limit_calls,       \* the calls that made each, in order
  constraint_calls,
  multipart,         \* the Multipart, or {}
  result             \* of the last call

vars == <<boundary, parsed, size_limit, constraints, limit_calls, constraint_calls,
          multipart, result>>

builders == <<size_limit, constraints, limit_calls, constraint_calls>>

NoName == "none"

ContentTypeType ==
  [ valid : BOOLEAN, type : STRING, subtype : STRING,
    params : Seq([name : STRING, value : Seq(Bytes)]) ]

ASSUME AlphanumericAssumption == Alphanumeric \intersect {"SP", "TAB", "CR", "LF"} = {}
ASSUME BoundariesAssumption   == Boundaries \subseteq Seq(Bytes)
ASSUME ContentTypesAssumption == ContentTypes \subseteq ContentTypeType
ASSUME PaddingsAssumption     == Paddings \subseteq Seq({"SP", "TAB"})
ASSUME FieldNamesAssumption   == NoName \notin FieldNames

CRLF         == <<"CR", "LF">>
BOUNDARY_EXT == <<"-", "-">>

-----------------------------------------------------------------------------
(* The boundary *)

Punctuation == {"'", "(", ")", "+", "_", ",", "-", ".", "/", ":", "=", "?"}

\* Mutant: any byte may be in a boundary but white space at its end.
AnyByte(byte) == TRUE

IsBoundaryCharNoSpace(byte) == byte \in Alphanumeric \union Punctuation

IsBoundaryChar(byte) == byte = "SP" \/ IsBoundaryCharNoSpace(byte)

MaxBoundary == 70

\* Mutant: the last byte is checked like the others.
AllAlike(b) ==
  /\ b # << >> /\ Len(b) <= MaxBoundary
  /\ \A i \in 1..Len(b) : IsBoundaryChar(b[i])

ValidateBoundary(b) ==
  /\ b # << >> /\ Len(b) <= MaxBoundary
  /\ \A i \in 1..(Len(b) - 1) : IsBoundaryChar(b[i])
  /\ IsBoundaryCharNoSpace(b[Len(b)])

\* Mime::get_param(BOUNDARY): the first parameter of that name
Named(c, i) == c.params[i].name = "boundary"

BoundaryParam(c) ==
  { c.params[i].value : i \in { j \in DOMAIN c.params :
                                 Named(c, j) /\ \A k \in 1..(j - 1) : ~Named(c, k) } }

ParseBoundary(c) ==
  /\ multipart = {} /\ ~parsed
  /\ \/ /\ ~c.valid
        /\ result' = "DecodeContentType"
        /\ UNCHANGED <<boundary, parsed>>
     \/ /\ c.valid /\ ~(c.type = "multipart" /\ c.subtype = "form-data")
        /\ result' = "NoMultipart"
        /\ UNCHANGED <<boundary, parsed>>
     \/ /\ c.valid /\ c.type = "multipart" /\ c.subtype = "form-data"
        /\ BoundaryParam(c) = {}
        /\ result' = "NoBoundary"
        /\ UNCHANGED <<boundary, parsed>>
     \/ /\ c.valid /\ c.type = "multipart" /\ c.subtype = "form-data"
        /\ \E b \in BoundaryParam(c) :
             IF ValidateBoundary(b)
             THEN result' = "ok" /\ boundary' = b /\ parsed' = TRUE
             ELSE result' = "InvalidBoundary" /\ UNCHANGED <<boundary, parsed>>
  /\ UNCHANGED <<builders, multipart>>

-----------------------------------------------------------------------------
(* The limits *)

DEFAULT_HEADERS_SIZE_LIMIT          == 64 * 1024
DEFAULT_BOUNDARY_PADDING_SIZE_LIMIT == 8 * 1024
DEFAULT_PREAMBLE_SIZE_LIMIT         == 32 * 1024

NoFieldLimits == [name \in {} |-> 0]

DefaultSizeLimit ==
  [ whole_stream |-> U64Max, per_field |-> U64Max,
    preamble |-> DEFAULT_PREAMBLE_SIZE_LIMIT, headers |-> DEFAULT_HEADERS_SIZE_LIMIT,
    boundary_padding |-> DEFAULT_BOUNDARY_PADDING_SIZE_LIMIT,
    field_map |-> NoFieldLimits ]

Knobs == {"whole_stream", "preamble", "per_field", "headers", "boundary_padding"}

\* An option is a set of at most one element.
DefaultConstraints ==
  [ size_limit |-> DefaultSizeLimit, allowed_fields |-> {}, max_fields |-> {} ]

\* What the properties remember of a call
Call(name, field, arg) == [name |-> name, field |-> field, arg |-> arg]

MayCall == multipart = {} /\ Len(limit_calls) + Len(constraint_calls) < MaxCalls

SetLimit(knob, limit) ==
  /\ MayCall
  /\ size_limit' = [size_limit EXCEPT ![knob] = limit]
  /\ limit_calls' = Append(limit_calls, Call(knob, NoName, limit))
  /\ UNCHANGED <<boundary, parsed, constraints, constraint_calls, multipart, result>>

\* Mutant: a limit for a field removes the ones given before.
OnlyForField(name, limit) == [f \in {name} |-> limit]

WithForField(name, limit) ==
  [ f \in DOMAIN size_limit.field_map \union {name} |->
      IF f = name THEN limit ELSE size_limit.field_map[f] ]

ForField(name, limit) ==
  /\ MayCall
  /\ size_limit' = [size_limit EXCEPT !.field_map = WithForField(name, limit)]
  /\ limit_calls' = Append(limit_calls, Call("for_field", name, limit))
  /\ UNCHANGED <<boundary, parsed, constraints, constraint_calls, multipart, result>>

\* Mutant: the other constraints are back at their defaults.
FromDefault == [DefaultConstraints EXCEPT !.size_limit = size_limit]

WithSizeLimit == [constraints EXCEPT !.size_limit = size_limit]

\* Constraints::size_limit consumes the SizeLimit; the next one starts anew.
PassSizeLimit ==
  /\ MayCall
  /\ constraints' = WithSizeLimit
  /\ constraint_calls' = Append(constraint_calls, Call("size_limit", NoName, limit_calls))
  /\ size_limit' = DefaultSizeLimit
  /\ limit_calls' = << >>
  /\ UNCHANGED <<boundary, parsed, multipart, result>>

MaxFields(limit) ==
  /\ MayCall
  /\ constraints' = [constraints EXCEPT !.max_fields = {limit}]
  /\ constraint_calls' = Append(constraint_calls, Call("max_fields", NoName, limit))
  /\ UNCHANGED <<boundary, parsed, size_limit, limit_calls, multipart, result>>

AllowedFields(allowed) ==
  /\ MayCall
  /\ constraints' = [constraints EXCEPT !.allowed_fields = {allowed}]
  /\ constraint_calls' = Append(constraint_calls, Call("allowed_fields", NoName, allowed))
  /\ UNCHANGED <<boundary, parsed, size_limit, limit_calls, multipart, result>>

-----------------------------------------------------------------------------
(* The constructors; `validated` remembers for the properties whether the   *)
(* boundary has been checked, `configured` whether the limits are given.    *)

Build(source, limits, validated) ==
  /\ multipart = {}
  /\ multipart' = {
       [ boundary_bytes |-> BOUNDARY_EXT \o boundary,
         field_boundary_bytes |-> CRLF \o BOUNDARY_EXT \o boundary,
         stream |-> source,
         whole_stream |-> limits.size_limit.whole_stream,
         boundary_padding |-> limits.size_limit.boundary_padding,
         curr_field_size_limit |-> limits.size_limit.per_field,
         constraints |-> limits,
         validated |-> validated, configured |-> limits = constraints ] }
  /\ result' = "ok"
  /\ UNCHANGED <<boundary, parsed, builders>>

TryBuild(source, limits) ==
  \/ ValidateBoundary(boundary) /\ Build(source, limits, TRUE)
  \/ /\ ~ValidateBoundary(boundary)
     /\ multipart = {}
     /\ result' = "InvalidBoundary"
     /\ UNCHANGED <<boundary, parsed, builders, multipart>>

WithConstraints    == Build("stream", constraints, parsed)
New                == Build("stream", DefaultConstraints, parsed)
TryWithConstraints == TryBuild("stream", constraints)
TryNew             == TryBuild("stream", DefaultConstraints)

WithReader                  == Build("reader", DefaultConstraints, parsed)
TryWithReader               == TryBuild("reader", DefaultConstraints)
WithReaderAndConstraints    == Build("reader", constraints, parsed)
TryWithReaderAndConstraints == TryBuild("reader", constraints)

Init ==
  /\ boundary \in Boundaries /\ parsed = FALSE
  /\ size_limit = DefaultSizeLimit /\ constraints = DefaultConstraints
  /\ limit_calls = << >> /\ constraint_calls = << >>
  /\ multipart = {} /\ result = "none"

SetLimits ==
  \/ \E limit \in Sizes :
       \/ \E knob \in Knobs : SetLimit(knob, limit)
       \/ \E name \in FieldNames : ForField(name, limit)
       \/ MaxFields(limit)
  \/ PassSizeLimit
  \/ \E allowed \in SUBSET FieldNames : AllowedFields(allowed)

Construct ==
  \/ WithConstraints \/ New \/ TryWithConstraints \/ TryNew
  \/ WithReader \/ TryWithReader \/ WithReaderAndConstraints \/ TryWithReaderAndConstraints

Next == (\E c \in ContentTypes : ParseBoundary(c)) \/ SetLimits \/ Construct

Spec == Init /\ [][Next]_vars

-----------------------------------------------------------------------------
Prefix(s, n) == SubSeq(s, 1, n)
Suffix(s, n) == SubSeq(s, Len(s) - n + 1, Len(s))

Unbordered(s) == \A n \in 1..(Len(s) - 1) : Prefix(s, n) # Suffix(s, n)

\* A checked boundary gives delimiters no two of which overlap in a body, so
\* that the search for one, and the bytes held back at the end of the buffer
\* because they may begin one, leave no choice where the data ends.
DelimitersDisjoint ==
  \A m \in multipart : m.validated => Unbordered(m.field_boundary_bytes)

\* A boundary line belongs to one boundary only, whatever its transport
\* padding: white space at the end of it is never a part of the boundary.
PaddingNeverBoundary ==
  \A m \in multipart : m.validated =>
    \A other \in Boundaries, p, q \in Paddings :
      /\ ValidateBoundary(other)
      /\ m.boundary_bytes \o p = BOUNDARY_EXT \o other \o q
      => m.boundary_bytes = BOUNDARY_EXT \o other

UnwrapOr(option, default) == IF option = {} THEN default ELSE CHOOSE x \in option : TRUE

Calls(calls, name, field) == { i \in DOMAIN calls : calls[i].name = name /\ calls[i].field = field }

LastCall(calls, name, field, default) ==
  LET at == Calls(calls, name, field)
  IN  UnwrapOr({ calls[i].arg : i \in { j \in at : \A k \in at : k <= j } }, default)

ExtractSizeLimitFor(limits, name) ==
  IF name \in DOMAIN limits.field_map THEN limits.field_map[name] ELSE limits.per_field

IsItAllowed(limits, name) == \A allowed \in limits.allowed_fields : name \in allowed

AnyName == FieldNames \union {NoName}

\* The last call of each kind counts, in whatever order the calls are made, a
\* limit for a field goes before the one for all fields, and what a call does
\* not name is as it was.  The limits passed with size_limit replace all of the
\* limits passed before, and nothing else.
LimitsAsConfigured ==
  \A m \in multipart : m.configured =>
    LET limits == m.constraints
        LastConstraint(name, default) == LastCall(constraint_calls, name, NoName, default)
        passed == LastConstraint("size_limit", << >>)
        Given(knob) == LastCall(passed, knob, NoName, DefaultSizeLimit[knob])
    IN  /\ m.whole_stream = Given("whole_stream")
        /\ m.boundary_padding = Given("boundary_padding")
        /\ m.curr_field_size_limit = Given("per_field")
        /\ limits.size_limit.preamble = Given("preamble")
        /\ limits.size_limit.headers = Given("headers")
        /\ \A name \in AnyName :
             /\ ExtractSizeLimitFor(limits.size_limit, name) =
                  LastCall(passed, "for_field", name, Given("per_field"))
             /\ IsItAllowed(limits, name) <=> name \in LastConstraint("allowed_fields", AnyName)
        /\ UnwrapOr(limits.max_fields, UsizeMax) = LastConstraint("max_fields", UsizeMax)
=============================================================================
