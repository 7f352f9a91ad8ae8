------------------------ MODULE MultipartBuilderProofs ------------------------
(***************************************************************************)
(* A checked boundary delimits: for every alphabet, every boundary the     *)
(* application comes up with and every content type it parses.             *)
(***************************************************************************)
EXTENDS MultipartBuilder, SequenceTheorems, TLAPS

Checked(b) == b \in Seq(Bytes) /\ ValidateBoundary(b)

\* What is known of a boundary is known of the parser built with it.
BuilderInv ==
  /\ boundary \in Seq(Bytes)
  /\ parsed => ValidateBoundary(boundary)
  /\ \A m \in multipart :
       /\ m.boundary_bytes = BOUNDARY_EXT \o boundary
       /\ m.field_boundary_bytes = CRLF \o BOUNDARY_EXT \o boundary
       /\ m.validated => ValidateBoundary(boundary)

LEMMA ParamType ==
  ASSUME NEW c \in ContentTypes, NEW b \in BoundaryParam(c)
  PROVE  b \in Seq(Bytes)
<1>1. c.params \in Seq([name : STRING, value : Seq(Bytes)])
  BY ContentTypesAssumption DEF ContentTypeType
<1>2. PICK i \in DOMAIN c.params : b = c.params[i].value
  BY DEF BoundaryParam
<1>3. c.params[i] \in [name : STRING, value : Seq(Bytes)]
  <2>1. PICK S : S = [name : STRING, value : Seq(Bytes)]
    OBVIOUS
  <2>2. c.params \in Seq(S)
    BY <1>1, <2>1
  <2>3. c.params[i] \in S
    BY <1>2, <2>2
  <2> QED BY <2>1, <2>3
<1> QED BY <1>2, <1>3

LEMMA BuildStep ==
  ASSUME BuilderInv, NEW source, NEW limits, NEW validated, Build(source, limits, validated),
         validated => ValidateBoundary(boundary)
  PROVE  BuilderInv'
BY DEF BuilderInv, Build

LEMMA BuilderStep ==
  ASSUME BuilderInv, [Next]_vars
  PROVE  BuilderInv'
<1>1. ASSUME NEW c \in ContentTypes, ParseBoundary(c)
      PROVE  BuilderInv'
  <2>1. multipart' = {}
    BY <1>1 DEF ParseBoundary
  <2>2. \/ UNCHANGED <<boundary, parsed>>
        \/ \E b \in BoundaryParam(c) : boundary' = b /\ ValidateBoundary(b)
    BY <1>1 DEF ParseBoundary
  <2> QED BY <2>1, <2>2, ParamType DEF BuilderInv
<1>2. CASE SetLimits
  <2>1. UNCHANGED <<boundary, parsed, multipart>>
    BY <1>2 DEF SetLimits, SetLimit, ForField, MaxFields, PassSizeLimit, AllowedFields
  <2> QED BY <2>1 DEF BuilderInv
<1>3. CASE Construct
  <2>1. \/ \E source, limits, validated : /\ Build(source, limits, validated)
                                          /\ validated => ValidateBoundary(boundary)
        \/ UNCHANGED <<boundary, parsed, multipart>>
    BY <1>3 DEF Construct, WithConstraints, New, TryWithConstraints, TryNew, WithReader,
                TryWithReader, WithReaderAndConstraints, TryWithReaderAndConstraints, TryBuild,
                BuilderInv
  <2>2. ASSUME NEW source, NEW limits, NEW validated, Build(source, limits, validated),
               validated => ValidateBoundary(boundary)
        PROVE  BuilderInv'
    BY <2>2, BuildStep
  <2>3. CASE UNCHANGED <<boundary, parsed, multipart>>
    BY <2>3 DEF BuilderInv
  <2> QED BY <2>1, <2>2, <2>3
<1>4. CASE UNCHANGED vars
  BY <1>4 DEF BuilderInv, vars
<1> QED BY <1>1, <1>2, <1>3, <1>4 DEF Next

LEMMA BuilderInit == Init => BuilderInv
BY BoundariesAssumption DEF Init, BuilderInv

-----------------------------------------------------------------------------
\* The bytes a checked boundary is made of.
LEMMA BoundaryBytesKnown ==
  ASSUME NEW b, Checked(b)
  PROVE  /\ Len(b) \in Nat \ {0}
         /\ \A i \in 1..Len(b) : b[i] \notin {"CR", "LF", "TAB"}
         /\ b[Len(b)] # "SP"
<1>1. Len(b) \in Nat \ {0}
  BY DEF Checked, ValidateBoundary
<1>2. \A byte : IsBoundaryCharNoSpace(byte) => byte \notin {"SP", "TAB", "CR", "LF"}
  BY AlphanumericAssumption DEF IsBoundaryCharNoSpace, Punctuation
<1>3. \A i \in 1..(Len(b) - 1) : b[i] \notin {"CR", "LF", "TAB"}
  BY <1>2 DEF Checked, ValidateBoundary, IsBoundaryChar
<1>4. b[Len(b)] \notin {"SP", "TAB", "CR", "LF"}
  BY <1>2 DEF Checked, ValidateBoundary
<1> QED BY <1>1, <1>3, <1>4

\* Only its first byte is a CR, so no proper end of a delimiter begins one.
LEMMA CheckedIsUnbordered ==
  ASSUME NEW b, Checked(b)
  PROVE  Unbordered(CRLF \o BOUNDARY_EXT \o b)
<1>1. PICK s : s = CRLF \o BOUNDARY_EXT \o b
  OBVIOUS
<1> DEFINE start == <<"CR", "LF", "-", "-">>
<1>2. s = start \o b
  BY <1>1 DEF CRLF, BOUNDARY_EXT
<1>3. /\ Len(s) = 4 + Len(b) /\ Len(b) \in Nat
      /\ \A i \in 1..4 : s[i] = start[i]
      /\ \A i \in 1..Len(b) : s[4 + i] = b[i]
  <2>1. PICK S : S = Bytes \union {"CR", "LF", "-"}
    OBVIOUS
  <2>2. start \in Seq(S) /\ Len(start) = 4
    BY <2>1
  <2>3. b \in Seq(S) /\ Len(b) \in Nat
    BY <2>1, SeqMonotonic DEF Checked
  <2>4. PICK t : t = start
    OBVIOUS
  <2>5. /\ Len(t \o b) = Len(t) + Len(b)
        /\ \A i \in 1..(Len(t) + Len(b)) :
             (t \o b)[i] = IF i <= Len(t) THEN t[i] ELSE b[i - Len(t)]
    BY <2>2, <2>3, <2>4, ConcatProperties
  <2>6. Len(s) = 4 + Len(b)
    BY <1>2, <2>2, <2>4, <2>5
  <2>7. ASSUME NEW i \in 1..4 PROVE s[i] = start[i]
    BY <1>2, <2>2, <2>3, <2>4, <2>5, <2>7
  <2>8. ASSUME NEW i \in 1..Len(b) PROVE s[4 + i] = b[i]
    <3>1. 4 + i \in 1..(4 + Len(b)) /\ ~(4 + i <= 4) /\ (4 + i) - 4 = i
      BY <2>3
    <3> HIDE DEF start
    <3> QED BY <1>2, <2>2, <2>4, <2>5, <3>1
  <2> QED BY <2>3, <2>6, <2>7, <2>8
<1>4. s[1] = "CR" /\ \A i \in 2..Len(s) : s[i] # "CR"
  <2>1. s[1] = "CR" /\ s[2] # "CR" /\ s[3] # "CR" /\ s[4] # "CR"
    BY <1>3
  <2>2. ASSUME NEW i \in 5..Len(s) PROVE s[i] # "CR"
    <3>1. i - 4 \in 1..Len(b) /\ 4 + (i - 4) = i
      BY <1>3
    <3>2. s[i] = b[i - 4]
      <4>1. PICK j \in 1..Len(b) : j = i - 4 /\ 4 + j = i
        BY <3>1
      <4> QED BY <1>3, <4>1
    <3>3. b[i - 4] # "CR"
      BY <3>1, BoundaryBytesKnown
    <3> QED BY <3>2, <3>3
  <2>3. ASSUME NEW i \in 2..Len(s) PROVE s[i] # "CR"
    <3>1. i \in 2..4 \/ i \in 5..Len(s)
      BY <1>3
    <3> QED BY <2>1, <2>2, <3>1
  <2> QED BY <2>1, <2>3
<1>5. ASSUME NEW n \in 1..(Len(s) - 1), Prefix(s, n) = Suffix(s, n)
      PROVE  FALSE
  <2>1. Prefix(s, n)[1] = s[1]
    BY <1>3, <1>5 DEF Prefix
  <2>2. Suffix(s, n)[1] = s[Len(s) - n + 1] /\ Len(s) - n + 1 \in 2..Len(s)
    BY <1>3, <1>5 DEF Suffix
  <2> QED BY <1>4, <1>5, <2>1, <2>2
<1> QED BY <1>1, <1>5 DEF Unbordered

\* Sequences that do not end in white space are as long as each other when
\* white space makes them the same ...
LEMMA PaddingCannotFill ==
  ASSUME NEW S, NEW x \in Seq(S), NEW y \in Seq(S), NEW p \in Seq({"SP", "TAB"}),
         NEW q \in Seq({"SP", "TAB"}), x \o p = y \o q,
         Len(y) > 0, y[Len(y)] \notin {"SP", "TAB"}
  PROVE  Len(y) <= Len(x)
<1> SUFFICES ASSUME Len(x) < Len(y)
             PROVE  FALSE
  OBVIOUS
<1>1. PICK T : T = S \union {"SP", "TAB"}
  OBVIOUS
<1>2. x \in Seq(T) /\ y \in Seq(T) /\ p \in Seq(T) /\ q \in Seq(T)
  BY <1>1, SeqMonotonic
<1>3. PICK l \in Nat, k \in Nat, m \in Nat, n \in Nat :
        l = Len(y) /\ k = Len(x) /\ m = Len(p) /\ n = Len(q)
  BY <1>2
<1>4. k + m = l + n
  BY <1>2, <1>3, ConcatProperties
<1>5. l \in 1..(l + n) /\ l \in 1..(k + m) /\ ~(l <= k) /\ l - k \in 1..m
  BY <1>3, <1>4
<1>6. (y \o q)[l] = y[l]
  BY <1>2, <1>3, <1>5, ConcatProperties
<1>7. (x \o p)[l] = p[l - k]
  BY <1>2, <1>3, <1>5, ConcatProperties
<1>8. p[l - k] \in {"SP", "TAB"}
  BY <1>3, <1>5
<1> QED BY <1>3, <1>6, <1>7, <1>8

\* ... and then they are the same.
LEMMA PaddingIsNoPart ==
  ASSUME NEW S, NEW x \in Seq(S), NEW y \in Seq(S), NEW p \in Seq({"SP", "TAB"}),
         NEW q \in Seq({"SP", "TAB"}), x \o p = y \o q,
         Len(x) > 0, x[Len(x)] \notin {"SP", "TAB"},
         Len(y) > 0, y[Len(y)] \notin {"SP", "TAB"}
  PROVE  x = y
<1>1. Len(x) = Len(y) /\ Len(x) \in Nat /\ Len(p) \in Nat /\ Len(q) \in Nat
  <2>1. Len(y) <= Len(x)
    BY PaddingCannotFill
  <2>2. Len(x) <= Len(y)
    BY PaddingCannotFill
  <2> QED BY <2>1, <2>2
<1>2. PICK T : T = S \union {"SP", "TAB"}
  OBVIOUS
<1>3. x \in Seq(T) /\ y \in Seq(T) /\ p \in Seq(T) /\ q \in Seq(T)
  BY <1>2, SeqMonotonic
<1>4. ASSUME NEW i \in 1..Len(x) PROVE x[i] = y[i]
  <2>1. i \in 1..(Len(x) + Len(p)) /\ i \in 1..(Len(y) + Len(q)) /\ i <= Len(x) /\ i <= Len(y)
    BY <1>1
  <2>2. (x \o p)[i] = x[i] /\ (y \o q)[i] = y[i]
    BY <1>3, <2>1, ConcatProperties
  <2> QED BY <2>2
<1> QED BY <1>1, <1>3, <1>4, SeqEqual

\* A boundary line ends in the last byte of its boundary, which is not padding.
LEMMA LineEndsInBoundary ==
  ASSUME NEW b, Checked(b)
  PROVE  /\ BOUNDARY_EXT \o b \in Seq(Bytes \union {"-"})
         /\ Len(BOUNDARY_EXT \o b) > 0
         /\ (BOUNDARY_EXT \o b)[Len(BOUNDARY_EXT \o b)] \notin {"SP", "TAB"}
<1>1. PICK S : S = Bytes \union {"-"}
  OBVIOUS
<1>2. BOUNDARY_EXT \in Seq(S) /\ Len(BOUNDARY_EXT) = 2
  BY <1>1 DEF BOUNDARY_EXT
<1>3. b \in Seq(S)
  BY <1>1, SeqMonotonic DEF Checked
<1>4. PICK n \in Nat \ {0} : n = Len(b)
  BY BoundaryBytesKnown
<1>5. /\ BOUNDARY_EXT \o b \in Seq(S) /\ Len(BOUNDARY_EXT \o b) = 2 + n
      /\ (BOUNDARY_EXT \o b)[2 + n] = b[n]
  <2>1. 2 + n \in 1..(2 + n) /\ ~(2 + n <= 2) /\ (2 + n) - 2 = n
    OBVIOUS
  <2>2. PICK t : t = BOUNDARY_EXT
    OBVIOUS
  <2>3. /\ t \o b \in Seq(S) /\ Len(t \o b) = 2 + n
        /\ \A i \in 1..(2 + n) : (t \o b)[i] = IF i <= 2 THEN t[i] ELSE b[i - 2]
    <3>1. t \in Seq(S) /\ Len(t) = 2
      BY <1>2, <2>2
    <3>2. /\ t \o b \in Seq(S) /\ Len(t \o b) = Len(t) + Len(b)
          /\ \A i \in 1..(Len(t) + Len(b)) :
               (t \o b)[i] = IF i <= Len(t) THEN t[i] ELSE b[i - Len(t)]
      BY <1>3, <3>1, ConcatProperties
    <3>3. Len(t) + Len(b) = 2 + n
      BY <1>4, <3>1
    <3> QED BY <3>1, <3>2, <3>3
  <2> QED BY <2>1, <2>2, <2>3
<1>6. b[n] \notin {"SP", "TAB"}
  BY <1>4, BoundaryBytesKnown
<1> QED BY <1>1, <1>4, <1>5, <1>6

-----------------------------------------------------------------------------
\* The delimiter of a checked boundary cannot overlap another one of its own:
\* where the data of a field ends does not depend on which is found first.
THEOREM DelimitersNeverOverlap == Spec => []DelimitersDisjoint
<1>1. BuilderInv => DelimitersDisjoint
  BY CheckedIsUnbordered DEF BuilderInv, DelimitersDisjoint, Checked
<1> QED BY <1>1, BuilderInit, BuilderStep, PTL DEF Spec

\* Whatever the padding, one boundary line cannot be taken for another's.
THEOREM PaddingNeverABoundary == Spec => []PaddingNeverBoundary
<1>1. BuilderInv => PaddingNeverBoundary
  <2> SUFFICES ASSUME BuilderInv, NEW m \in multipart, m.validated,
                      NEW other \in Boundaries, NEW p \in Paddings, NEW q \in Paddings,
                      ValidateBoundary(other),
                      m.boundary_bytes \o p = BOUNDARY_EXT \o other \o q
               PROVE  m.boundary_bytes = BOUNDARY_EXT \o other
    BY DEF PaddingNeverBoundary
  <2>1. Checked(boundary) /\ Checked(other) /\ m.boundary_bytes = BOUNDARY_EXT \o boundary
    BY BoundariesAssumption DEF BuilderInv, Checked
  <2>2. p \in Seq({"SP", "TAB"}) /\ q \in Seq({"SP", "TAB"})
    BY PaddingsAssumption
  <2>3. PICK x, y : x = BOUNDARY_EXT \o boundary /\ y = BOUNDARY_EXT \o other
    OBVIOUS
  <2>4. x \o p = y \o q
    BY <2>1, <2>3
  <2>5. PICK S : S = Bytes \union {"-"}
    OBVIOUS
  <2>6. /\ x \in Seq(S) /\ Len(x) > 0 /\ x[Len(x)] \notin {"SP", "TAB"}
        /\ y \in Seq(S) /\ Len(y) > 0 /\ y[Len(y)] \notin {"SP", "TAB"}
    BY <2>1, <2>3, <2>5, LineEndsInBoundary
  <2>7. x = y
    BY <2>2, <2>4, <2>6, PaddingIsNoPart
  <2> QED BY <2>1, <2>3, <2>7
<1> QED BY <1>1, BuilderInit, BuilderStep, PTL DEF Spec

-----------------------------------------------------------------------------
(* The limits: what the builders hold is what their calls asked for. *)

LimitCalls == [name : Knobs \union {"for_field"}, field : AnyName, arg : Sizes]

ConstraintCalls ==
  [name : {"size_limit", "max_fields", "allowed_fields"}, field : {NoName},
   arg : Seq(LimitCalls) \union Sizes \union SUBSET FieldNames]

FieldMaps == UNION { [names -> Sizes] : names \in SUBSET FieldNames }

Limits == Sizes \union { DefaultSizeLimit[knob] : knob \in Knobs }

SizeLimits ==
  [ whole_stream : Limits, per_field : Limits, preamble : Limits, headers : Limits,
    boundary_padding : Limits, field_map : FieldMaps ]

\* A limit for a field is kept beside the one for all fields, which may still
\* be set later: it goes before any default.
Reflects(limits, calls) ==
  /\ \A knob \in Knobs : limits[knob] = LastCall(calls, knob, NoName, DefaultSizeLimit[knob])
  /\ \A name \in AnyName : \A default :
       LastCall(calls, "for_field", name, default) =
         IF name \in DOMAIN limits.field_map THEN limits.field_map[name] ELSE default

LastConstraint(name, default) == LastCall(constraint_calls, name, NoName, default)

ConstraintsType ==
  [ size_limit : SizeLimits, allowed_fields : SUBSET SUBSET FieldNames,
    max_fields : SUBSET Sizes ]

\* Once a Multipart is made the builders are used up.
LimitInv ==
  /\ limit_calls \in Seq(LimitCalls) /\ constraint_calls \in Seq(ConstraintCalls)
  /\ size_limit \in SizeLimits /\ constraints \in ConstraintsType
  /\ Reflects(size_limit, limit_calls)
  /\ Reflects(constraints.size_limit, LastConstraint("size_limit", << >>))
  /\ \A name \in AnyName :
       IsItAllowed(constraints, name) <=> name \in LastConstraint("allowed_fields", AnyName)
  /\ UnwrapOr(constraints.max_fields, UsizeMax) = LastConstraint("max_fields", UsizeMax)
  /\ \A m \in multipart : m.configured =>
       /\ m.constraints = constraints
       /\ m.whole_stream = constraints.size_limit.whole_stream
       /\ m.boundary_padding = constraints.size_limit.boundary_padding
       /\ m.curr_field_size_limit = constraints.size_limit.per_field

LEMMA UnwrapOne == \A x, default : UnwrapOr({x}, default) = x
BY DEF UnwrapOr

LEMMA NoCallYet ==
  \A name, field, default : LastCall(<< >>, name, field, default) = default
BY DEF LastCall, Calls, UnwrapOr

\* One more call is the last of its kind, and of no other.
LEMMA LastAfterAppend ==
  ASSUME NEW S, NEW calls \in Seq(S), NEW c \in S, NEW name, NEW field, NEW default
  PROVE  LastCall(Append(calls, c), name, field, default) =
           IF c.name = name /\ c.field = field THEN c.arg
           ELSE LastCall(calls, name, field, default)
<1> DEFINE more == Append(calls, c)
           at   == Calls(calls, name, field)
           at2  == Calls(more, name, field)
           last(A) == { j \in A : \A k \in A : k <= j }
<1>1. PICK n \in Nat : n = Len(calls)
  OBVIOUS
<1>2. /\ DOMAIN calls = 1..n /\ DOMAIN more = 1..(n + 1)
      /\ more[n + 1] = c
      /\ \A i \in 1..n : more[i] = calls[i]
  BY <1>1
<1>3. at \subseteq 1..n
  BY <1>2 DEF Calls
<1> HIDE DEF more
<1>4. CASE c.name = name /\ c.field = field
  <2>1. at2 = at \union {n + 1}
    BY <1>2, <1>4 DEF Calls
  <2>2. last(at2) = {n + 1}
    <3>1. \A j \in at2 : j <= n + 1 /\ (n + 1 <= j => j = n + 1)
      BY <1>3, <2>1
    <3>2. n + 1 \in at2
      BY <2>1
    <3> HIDE DEF at2
    <3> QED BY <3>1, <3>2
  <2>3. { more[i].arg : i \in last(at2) } = {c.arg}
    BY <1>2, <2>2
  <2>4. LastCall(more, name, field, default) = UnwrapOr({ more[i].arg : i \in last(at2) }, default)
    BY DEF LastCall
  <2> HIDE DEF at2, last
  <2> QED BY <1>4, <2>3, <2>4, UnwrapOne DEF more
<1>5. CASE ~(c.name = name /\ c.field = field)
  <2>1. at2 = at
    BY <1>2, <1>5 DEF Calls
  <2>2. last(at) \subseteq 1..n
    BY <1>3
  <2>3. { more[i].arg : i \in last(at2) } = { calls[i].arg : i \in last(at) }
    BY <1>2, <2>1, <2>2
  <2>4. LastCall(more, name, field, default) = UnwrapOr({ more[i].arg : i \in last(at2) }, default)
    BY DEF LastCall
  <2>5. LastCall(calls, name, field, default) = UnwrapOr({ calls[i].arg : i \in last(at) }, default)
    BY DEF LastCall
  <2> HIDE DEF at, at2, last
  <2> QED BY <1>5, <2>3, <2>4, <2>5 DEF more
<1> QED BY <1>4, <1>5

LEMMA DefaultsAreLimits == DefaultSizeLimit \in SizeLimits
<1>1. NoFieldLimits \in FieldMaps
  <2>1. NoFieldLimits \in [{} -> Sizes]
    BY DEF NoFieldLimits
  <2> QED BY <2>1 DEF FieldMaps
<1>2. \A knob \in Knobs : DefaultSizeLimit[knob] \in Limits
  BY DEF Limits
<1> QED BY <1>1, <1>2 DEF SizeLimits, DefaultSizeLimit, Knobs

LEMMA LimitInit == Init => LimitInv
<1> SUFFICES ASSUME Init PROVE LimitInv
  OBVIOUS
<1>1. limit_calls = << >> /\ constraint_calls = << >> /\ multipart = {}
  BY DEF Init
<1>d. DefaultSizeLimit \in SizeLimits
  BY DefaultsAreLimits
<1>2. Reflects(DefaultSizeLimit, << >>)
  <2>1. DOMAIN DefaultSizeLimit.field_map = {}
    BY DEF DefaultSizeLimit, NoFieldLimits
  <2> QED BY <2>1, NoCallYet DEF Reflects
<1>3. size_limit = DefaultSizeLimit /\ constraints = DefaultConstraints
  BY DEF Init
<1>4. LastConstraint("size_limit", << >>) = << >> /\ LastConstraint("allowed_fields", AnyName) = AnyName
      /\ LastConstraint("max_fields", UsizeMax) = UsizeMax
  BY <1>1, NoCallYet DEF LastConstraint
<1>5. constraints.size_limit = DefaultSizeLimit /\ constraints.allowed_fields = {}
      /\ constraints.max_fields = {}
  BY <1>3 DEF DefaultConstraints
<1>6. constraints \in ConstraintsType
  BY <1>3, <1>d DEF ConstraintsType, DefaultConstraints
<1> QED BY <1>1, <1>2, <1>3, <1>4, <1>5, <1>6, <1>d DEF LimitInv, IsItAllowed, UnwrapOr

\* The constraints are as they were, and no Multipart is made.
LEMMA LimitsOnly ==
  ASSUME LimitInv, limit_calls' \in Seq(LimitCalls), size_limit' \in SizeLimits,
         Reflects(size_limit, limit_calls)',
         UNCHANGED <<constraints, constraint_calls, multipart>>
  PROVE  LimitInv'
BY DEF LimitInv, Reflects, LastConstraint

LEMMA SetLimitStep ==
  ASSUME LimitInv, NEW knob \in Knobs, NEW limit \in Sizes, SetLimit(knob, limit)
  PROVE  LimitInv'
<1> DEFINE c == Call(knob, NoName, limit)
<1>1. c \in LimitCalls /\ c.name = knob /\ c.field = NoName /\ c.arg = limit
  BY DEF Call, LimitCalls, AnyName
<1>2. limit_calls' = Append(limit_calls, c) /\ limit_calls' \in Seq(LimitCalls)
  BY <1>1 DEF SetLimit, LimitInv
<1>3. /\ size_limit' \in SizeLimits
      /\ size_limit'[knob] = limit
      /\ \A other \in Knobs \ {knob} : size_limit'[other] = size_limit[other]
      /\ size_limit'.field_map = size_limit.field_map
  <2>1. size_limit' = [size_limit EXCEPT ![knob] = limit] /\ limit \in Limits
    BY DEF SetLimit, Limits
  <2>2. size_limit \in SizeLimits
    BY DEF LimitInv
  <2> HIDE DEF Limits
  <2>3. CASE knob = "whole_stream"
    BY <2>1, <2>2, <2>3 DEF SizeLimits, Knobs
  <2>4. CASE knob = "preamble"
    BY <2>1, <2>2, <2>4 DEF SizeLimits, Knobs
  <2>5. CASE knob = "per_field"
    BY <2>1, <2>2, <2>5 DEF SizeLimits, Knobs
  <2>6. CASE knob = "headers"
    BY <2>1, <2>2, <2>6 DEF SizeLimits, Knobs
  <2>7. CASE knob = "boundary_padding"
    BY <2>1, <2>2, <2>7 DEF SizeLimits, Knobs
  <2> QED BY <2>3, <2>4, <2>5, <2>6, <2>7 DEF Knobs
<1>4. \A k \in Knobs : size_limit'[k] = LastCall(limit_calls', k, NoName, DefaultSizeLimit[k])
  BY <1>1, <1>2, <1>3, LastAfterAppend DEF LimitInv, Reflects
<1>5. \A name, default :
        LastCall(limit_calls', "for_field", name, default) =
          LastCall(limit_calls, "for_field", name, default)
  <2>1. c.name # "for_field"
    BY <1>1 DEF Knobs
  <2> QED BY <1>1, <1>2, <2>1, LastAfterAppend DEF LimitInv
<1>6. Reflects(size_limit, limit_calls)'
  BY <1>3, <1>4, <1>5 DEF LimitInv, Reflects
<1>7. UNCHANGED <<constraints, constraint_calls, multipart>>
  BY DEF SetLimit
<1> QED BY <1>2, <1>3, <1>6, <1>7, LimitsOnly

LEMMA ForFieldStep ==
  ASSUME LimitInv, NEW name \in FieldNames, NEW limit \in Sizes, ForField(name, limit)
  PROVE  LimitInv'
<1> DEFINE c == Call("for_field", name, limit)
<1>1. c \in LimitCalls /\ c.name = "for_field" /\ c.field = name /\ c.arg = limit
  BY DEF Call, LimitCalls, AnyName
<1>2. limit_calls' = Append(limit_calls, c) /\ limit_calls' \in Seq(LimitCalls)
  BY <1>1 DEF ForField, LimitInv
<1>3. /\ size_limit' = [size_limit EXCEPT !.field_map = WithForField(name, limit)]
      /\ size_limit \in SizeLimits
  BY DEF ForField, LimitInv
<1>4. WithForField(name, limit) \in FieldMaps
  <2>1. PICK names \in SUBSET FieldNames : size_limit.field_map \in [names -> Sizes]
    BY <1>3 DEF SizeLimits, FieldMaps
  <2>2. WithForField(name, limit) \in [names \union {name} -> Sizes]
    BY <2>1 DEF WithForField
  <2> QED BY <2>2 DEF FieldMaps
<1>5. /\ size_limit' \in SizeLimits
      /\ \A k \in Knobs : size_limit'[k] = size_limit[k]
      /\ size_limit'.field_map = WithForField(name, limit)
  BY <1>3, <1>4 DEF SizeLimits, Knobs
<1>6. \A k \in Knobs : size_limit'[k] = LastCall(limit_calls', k, NoName, DefaultSizeLimit[k])
  <2>1. \A k \in Knobs : c.name # k
    BY <1>1 DEF Knobs
  <2> QED BY <1>1, <1>2, <1>5, <2>1, LastAfterAppend DEF LimitInv, Reflects
<1>7. ASSUME NEW other \in AnyName, NEW default
      PROVE  LastCall(limit_calls', "for_field", other, default) =
               IF other \in DOMAIN size_limit'.field_map THEN size_limit'.field_map[other] ELSE default
  <2>1. LastCall(limit_calls', "for_field", other, default) =
          IF other = name THEN limit ELSE LastCall(limit_calls, "for_field", other, default)
    BY <1>1, <1>2, LastAfterAppend DEF LimitInv
  <2>2. LastCall(limit_calls, "for_field", other, default) =
          IF other \in DOMAIN size_limit.field_map THEN size_limit.field_map[other] ELSE default
    BY DEF LimitInv, Reflects
  <2> QED BY <1>5, <2>1, <2>2 DEF WithForField
<1>8. Reflects(size_limit, limit_calls)'
  BY <1>6, <1>7 DEF Reflects
<1>9. UNCHANGED <<constraints, constraint_calls, multipart>>
  BY DEF ForField
<1> QED BY <1>2, <1>5, <1>8, <1>9, LimitsOnly

-----------------------------------------------------------------------------
\* A call to the builder of the constraints: it comes last of its kind, and is
\* what the constraints now hold.
LEMMA ConstraintCall ==
  ASSUME LimitInv, NEW name \in {"size_limit", "max_fields", "allowed_fields"},
         NEW arg, Call(name, NoName, arg) \in ConstraintCalls,
         constraint_calls' = Append(constraint_calls, Call(name, NoName, arg))
  PROVE  /\ constraint_calls' \in Seq(ConstraintCalls)
         /\ \A other, default :
              LastConstraint(other, default)' =
                IF other = name THEN arg ELSE LastConstraint(other, default)
<1> DEFINE c == Call(name, NoName, arg)
<1>1. c.name = name /\ c.field = NoName /\ c.arg = arg
  BY DEF Call
<1>2. constraint_calls \in Seq(ConstraintCalls)
  BY DEF LimitInv
<1>3. constraint_calls' \in Seq(ConstraintCalls)
  BY <1>2
<1> HIDE DEF c
<1>4. ASSUME NEW other, NEW default
      PROVE  LastCall(constraint_calls', other, NoName, default) =
               IF other = name THEN arg
               ELSE LastCall(constraint_calls, other, NoName, default)
  <2>1. constraint_calls' = Append(constraint_calls, c) /\ c \in ConstraintCalls
    BY DEF c
  <2> QED BY <1>1, <1>2, <2>1, LastAfterAppend
<1> QED BY <1>3, <1>4 DEF LastConstraint

LEMMA PassStep ==
  ASSUME LimitInv, PassSizeLimit
  PROVE  LimitInv'
<1> DEFINE c == Call("size_limit", NoName, limit_calls)
<1>1. c \in ConstraintCalls
  BY DEF Call, ConstraintCalls, LimitInv
<1>2. constraint_calls' = Append(constraint_calls, c) /\ multipart' = {}
  BY DEF PassSizeLimit, MayCall
<1> HIDE DEF c
<1>3. /\ constraint_calls' \in Seq(ConstraintCalls)
      /\ LastConstraint("size_limit", << >>)' = limit_calls
      /\ LastConstraint("allowed_fields", AnyName)' = LastConstraint("allowed_fields", AnyName)
      /\ LastConstraint("max_fields", UsizeMax)' = LastConstraint("max_fields", UsizeMax)
  BY <1>1, <1>2, ConstraintCall DEF c
<1>4. /\ constraints' \in ConstraintsType
      /\ constraints'.size_limit = size_limit
      /\ constraints'.allowed_fields = constraints.allowed_fields
      /\ constraints'.max_fields = constraints.max_fields
  <2>1. constraints \in ConstraintsType /\ size_limit \in SizeLimits
    BY DEF LimitInv
  <2>2. constraints' = [constraints EXCEPT !.size_limit = size_limit]
    BY DEF PassSizeLimit, WithSizeLimit
  <2> QED BY <2>1, <2>2 DEF ConstraintsType
<1>5. size_limit' = DefaultSizeLimit /\ limit_calls' = << >>
  BY DEF PassSizeLimit
<1>6. Reflects(DefaultSizeLimit, << >>)
  <2>1. DOMAIN DefaultSizeLimit.field_map = {}
    BY DEF DefaultSizeLimit, NoFieldLimits
  <2> QED BY <2>1, NoCallYet DEF Reflects
<1>7. Reflects(size_limit, limit_calls)' /\ size_limit' \in SizeLimits
      /\ limit_calls' \in Seq(LimitCalls)
  BY <1>5, <1>6, DefaultsAreLimits DEF Reflects
<1>8. Reflects(constraints.size_limit, LastConstraint("size_limit", << >>))'
  BY <1>3, <1>4 DEF LimitInv, Reflects
<1>9. \A name \in AnyName :
        IsItAllowed(constraints', name) <=> name \in LastConstraint("allowed_fields", AnyName)'
  BY <1>3, <1>4 DEF LimitInv, IsItAllowed
<1>10. UnwrapOr(constraints'.max_fields, UsizeMax) = LastConstraint("max_fields", UsizeMax)'
  BY <1>3, <1>4 DEF LimitInv
<1> QED BY <1>2, <1>3, <1>4, <1>7, <1>8, <1>9, <1>10 DEF LimitInv, IsItAllowed

LEMMA MaxFieldsStep ==
  ASSUME LimitInv, NEW limit \in Sizes, MaxFields(limit)
  PROVE  LimitInv'
<1> DEFINE c == Call("max_fields", NoName, limit)
<1>1. c \in ConstraintCalls
  BY DEF Call, ConstraintCalls
<1>2. /\ constraint_calls' = Append(constraint_calls, c) /\ multipart' = {}
      /\ size_limit' = size_limit /\ limit_calls' = limit_calls
  BY DEF MaxFields, MayCall
<1> HIDE DEF c
<1>3. /\ constraint_calls' \in Seq(ConstraintCalls)
      /\ LastConstraint("size_limit", << >>)' = LastConstraint("size_limit", << >>)
      /\ LastConstraint("allowed_fields", AnyName)' = LastConstraint("allowed_fields", AnyName)
      /\ LastConstraint("max_fields", UsizeMax)' = limit
  BY <1>1, <1>2, ConstraintCall DEF c
<1>4. /\ constraints' \in ConstraintsType
      /\ constraints'.size_limit = constraints.size_limit
      /\ constraints'.allowed_fields = constraints.allowed_fields
      /\ constraints'.max_fields = {limit}
  <2>1. constraints \in ConstraintsType
    BY DEF LimitInv
  <2>2. constraints' = [constraints EXCEPT !.max_fields = {limit}]
    BY DEF MaxFields
  <2> QED BY <2>1, <2>2 DEF ConstraintsType
<1>5. Reflects(size_limit, limit_calls)'
  BY <1>2 DEF LimitInv, Reflects
<1>6. Reflects(constraints.size_limit, LastConstraint("size_limit", << >>))'
  BY <1>3, <1>4 DEF LimitInv, Reflects
<1>7. \A name \in AnyName :
        IsItAllowed(constraints', name) <=> name \in LastConstraint("allowed_fields", AnyName)'
  BY <1>3, <1>4 DEF LimitInv, IsItAllowed
<1>8. UnwrapOr(constraints'.max_fields, UsizeMax) = LastConstraint("max_fields", UsizeMax)'
  BY <1>3, <1>4, UnwrapOne
<1> QED BY <1>2, <1>3, <1>4, <1>5, <1>6, <1>7, <1>8 DEF LimitInv, IsItAllowed

LEMMA AllowedFieldsStep ==
  ASSUME LimitInv, NEW allowed \in SUBSET FieldNames, AllowedFields(allowed)
  PROVE  LimitInv'
<1> DEFINE c == Call("allowed_fields", NoName, allowed)
<1>1. c \in ConstraintCalls
  BY DEF Call, ConstraintCalls
<1>2. /\ constraint_calls' = Append(constraint_calls, c) /\ multipart' = {}
      /\ size_limit' = size_limit /\ limit_calls' = limit_calls
  BY DEF AllowedFields, MayCall
<1> HIDE DEF c
<1>3. /\ constraint_calls' \in Seq(ConstraintCalls)
      /\ LastConstraint("size_limit", << >>)' = LastConstraint("size_limit", << >>)
      /\ LastConstraint("allowed_fields", AnyName)' = allowed
      /\ LastConstraint("max_fields", UsizeMax)' = LastConstraint("max_fields", UsizeMax)
  BY <1>1, <1>2, ConstraintCall DEF c
<1>4. /\ constraints' \in ConstraintsType
      /\ constraints'.size_limit = constraints.size_limit
      /\ constraints'.allowed_fields = {allowed}
      /\ constraints'.max_fields = constraints.max_fields
  <2>1. constraints \in ConstraintsType
    BY DEF LimitInv
  <2>2. constraints' = [constraints EXCEPT !.allowed_fields = {allowed}]
    BY DEF AllowedFields
  <2> QED BY <2>1, <2>2 DEF ConstraintsType
<1>5. Reflects(size_limit, limit_calls)'
  BY <1>2 DEF LimitInv, Reflects
<1>6. Reflects(constraints.size_limit, LastConstraint("size_limit", << >>))'
  BY <1>3, <1>4 DEF LimitInv, Reflects
<1>7. \A name \in AnyName :
        IsItAllowed(constraints', name) <=> name \in LastConstraint("allowed_fields", AnyName)'
  BY <1>3, <1>4 DEF IsItAllowed
<1>8. UnwrapOr(constraints'.max_fields, UsizeMax) = LastConstraint("max_fields", UsizeMax)'
  BY <1>3, <1>4 DEF LimitInv
<1> QED BY <1>2, <1>3, <1>4, <1>5, <1>6, <1>7, <1>8 DEF LimitInv, IsItAllowed

\* The builders are as they were, whatever Multipart is made or not.
LEMMA BuildersOnly ==
  ASSUME LimitInv, UNCHANGED builders,
         \A m \in multipart' : m.configured =>
           /\ m.constraints = constraints
           /\ m.whole_stream = constraints.size_limit.whole_stream
           /\ m.boundary_padding = constraints.size_limit.boundary_padding
           /\ m.curr_field_size_limit = constraints.size_limit.per_field
  PROVE  LimitInv'
BY DEF LimitInv, Reflects, LastConstraint, builders

\* A Multipart has the limits it was given; those count that were configured.
LEMMA BuildLimits ==
  ASSUME LimitInv, NEW source, NEW limits, NEW validated, Build(source, limits, validated)
  PROVE  LimitInv'
<1>1. UNCHANGED builders
  BY DEF Build
<1> DEFINE same == limits = constraints
<1>2. ASSUME NEW m \in multipart'
      PROVE  /\ m.configured = same
             /\ m.constraints = limits
             /\ m.whole_stream = limits.size_limit.whole_stream
             /\ m.boundary_padding = limits.size_limit.boundary_padding
             /\ m.curr_field_size_limit = limits.size_limit.per_field
  <2>1. m \in { [ boundary_bytes |-> BOUNDARY_EXT \o boundary,
                  field_boundary_bytes |-> CRLF \o BOUNDARY_EXT \o boundary,
                  stream |-> source,
                  whole_stream |-> limits.size_limit.whole_stream,
                  boundary_padding |-> limits.size_limit.boundary_padding,
                  curr_field_size_limit |-> limits.size_limit.per_field,
                  constraints |-> limits,
                  validated |-> validated, configured |-> same ] }
    BY <1>2 DEF Build
  <2> HIDE DEF same
  <2> QED BY <2>1
<1> QED BY <1>1, <1>2, BuildersOnly

LEMMA KeepsMultipart ==
  ASSUME LimitInv, UNCHANGED builders, multipart' = multipart
  PROVE  LimitInv'
BY BuildersOnly DEF LimitInv

LEMMA TryBuildLimits ==
  ASSUME LimitInv, NEW source, NEW limits, TryBuild(source, limits)
  PROVE  LimitInv'
<1>1. CASE Build(source, limits, TRUE)
  BY <1>1, BuildLimits
<1>2. CASE UNCHANGED <<boundary, parsed, builders, multipart>>
  BY <1>2, KeepsMultipart
<1> QED BY <1>1, <1>2 DEF TryBuild

LEMMA LimitStep == LimitInv /\ [Next]_vars => LimitInv'
<1> SUFFICES ASSUME LimitInv, [Next]_vars PROVE LimitInv'
  OBVIOUS
<1>1. ASSUME NEW c \in ContentTypes, ParseBoundary(c) PROVE LimitInv'
  <2>1. UNCHANGED builders /\ multipart' = multipart
    BY <1>1 DEF ParseBoundary
  <2> QED BY <2>1, KeepsMultipart
<1>2. CASE SetLimits
  BY <1>2, SetLimitStep, ForFieldStep, MaxFieldsStep, AllowedFieldsStep, PassStep DEF SetLimits
<1>3. CASE Construct
  <2>1. CASE WithConstraints \/ New \/ WithReader \/ WithReaderAndConstraints
    BY <2>1, BuildLimits DEF WithConstraints, New, WithReader, WithReaderAndConstraints
  <2>2. CASE TryWithConstraints \/ TryNew \/ TryWithReader \/ TryWithReaderAndConstraints
    BY <2>2, TryBuildLimits
    DEF TryWithConstraints, TryNew, TryWithReader, TryWithReaderAndConstraints
  <2> QED BY <1>3, <2>1, <2>2 DEF Construct
<1>4. CASE UNCHANGED vars
  <2>1. UNCHANGED builders /\ multipart' = multipart
    BY <1>4 DEF vars, builders
  <2> QED BY <2>1, KeepsMultipart
<1> QED BY <1>1, <1>2, <1>3, <1>4 DEF Next

\* src/constraints.rs:64 and src/size_limit.rs:42: a Multipart made from the
\* builders has, for every knob and every field, the limit the last call set for
\* it, and the default where none did, in whatever order the calls came.
THEOREM LimitsAreAsConfigured == Spec => []LimitsAsConfigured
<1>1. ASSUME LimitInv PROVE LimitsAsConfigured
  <2> SUFFICES ASSUME NEW m \in multipart, m.configured
      PROVE  LET limits == constraints
                 passed == LastConstraint("size_limit", << >>)
                 Given(knob) == LastCall(passed, knob, NoName, DefaultSizeLimit[knob])
             IN  /\ limits.size_limit.whole_stream = Given("whole_stream")
                 /\ limits.size_limit.boundary_padding = Given("boundary_padding")
                 /\ limits.size_limit.per_field = Given("per_field")
                 /\ limits.size_limit.preamble = Given("preamble")
                 /\ limits.size_limit.headers = Given("headers")
                 /\ \A name \in AnyName :
                      /\ ExtractSizeLimitFor(limits.size_limit, name) =
                           LastCall(passed, "for_field", name, Given("per_field"))
                      /\ IsItAllowed(limits, name) <=>
                           name \in LastConstraint("allowed_fields", AnyName)
                 /\ UnwrapOr(limits.max_fields, UsizeMax) = LastConstraint("max_fields", UsizeMax)
    BY <1>1 DEF LimitsAsConfigured, LimitInv, LastConstraint
  <2> DEFINE passed == LastConstraint("size_limit", << >>)
             Given(knob) == LastCall(passed, knob, NoName, DefaultSizeLimit[knob])
  <2>1. \A knob \in Knobs : constraints.size_limit[knob] = Given(knob)
    BY <1>1 DEF LimitInv, Reflects
  <2>2. /\ constraints.size_limit.whole_stream = Given("whole_stream")
        /\ constraints.size_limit.boundary_padding = Given("boundary_padding")
        /\ constraints.size_limit.per_field = Given("per_field")
        /\ constraints.size_limit.preamble = Given("preamble")
        /\ constraints.size_limit.headers = Given("headers")
    BY <2>1 DEF Knobs
  <2>3. \A name \in AnyName :
          ExtractSizeLimitFor(constraints.size_limit, name) =
            LastCall(passed, "for_field", name, Given("per_field"))
    BY <1>1, <2>2 DEF LimitInv, Reflects, ExtractSizeLimitFor
  <2> QED BY <1>1, <2>2, <2>3 DEF LimitInv
<1> QED BY <1>1, LimitInit, LimitStep, PTL DEF Spec
=============================================================================
