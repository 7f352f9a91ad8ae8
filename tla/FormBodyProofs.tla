--------------------------- MODULE FormBodyProofs ---------------------------
(***************************************************************************)
(* What the searches of ByteSearch return, for every sequence, window and  *)
(* pattern, and where they find the pieces of a form in the body that      *)
(* encodes it.                                                             *)
(***************************************************************************)
EXTENDS FormBody, SequenceTheorems, WellFoundedInduction, TLAPS

\* A set of integers bounded below has its Min as least member.
LEMMA MinIsLeast ==
  ASSUME NEW S \in SUBSET Int, NEW b \in Int, \A x \in S : b <= x, S # {}
  PROVE  Min(S) \in S /\ \A x \in S : Min(S) <= x
<1> DEFINE T == { n \in Nat : n + b \in S }
<1>1. T \subseteq Nat /\ T # {}
  <2>1. PICK x \in S : TRUE
    OBVIOUS
  <2>2. x - b \in Nat /\ (x - b) + b = x
    BY <2>1
  <2> QED BY <2>1, <2>2
<1>2. PICK t \in T : \A y \in T : ~(<<y, t>> \in OpToRel(<, Nat))
  <2> HIDE DEF T
  <2> QED BY <1>1, WFMin, NatLessThanWellFounded
<1>3. ASSUME NEW y \in T PROVE t <= y
  <2>1. ~(<<y, t>> \in OpToRel(<, Nat))
    BY <1>2
  <2>2. ~(y < t)
    BY <2>1, <1>1 DEF OpToRel
  <2> QED BY <2>2, <1>1
<1>4. \E m \in S : \A x \in S : m <= x
  <2>1. t + b \in S
    BY <1>1
  <2>2. ASSUME NEW x \in S PROVE t + b <= x
    <3>1. x - b \in T
      OBVIOUS
    <3> QED BY <1>3, <1>1, <3>1
  <2> QED BY <2>1, <2>2
<1> QED BY <1>4, Zenon DEF Min

\* A set of integers bounded above has its Max as greatest member.
LEMMA MaxIsGreatest ==
  ASSUME NEW S \in SUBSET Int, NEW b \in Int, \A x \in S : x <= b, S # {}
  PROVE  Max(S) \in S /\ \A x \in S : x <= Max(S)
<1> DEFINE T == { y \in Int : -y \in S }
<1>1. T \in SUBSET Int /\ -b \in Int
  OBVIOUS
<1>2. \A y \in T : -b <= y
  OBVIOUS
<1>3. T # {}
  <2>1. PICK x \in S : TRUE
    OBVIOUS
  <2>2. -x \in Int /\ -(-x) = x
    BY <2>1
  <2> QED BY <2>1, <2>2
<1>4. Min(T) \in T /\ \A y \in T : Min(T) <= y
  <2> HIDE DEF T
  <2> QED BY <1>1, <1>2, <1>3, MinIsLeast, Zenon
<1> DEFINE m == -Min(T)
<1>5. m \in S /\ \A x \in S : m >= x
  <2>1. m \in S /\ m \in Int /\ Min(T) \in Int
    BY <1>4
  <2>2. ASSUME NEW x \in S PROVE m >= x
    <3>1. x \in Int /\ -x \in Int /\ -(-x) = x
      OBVIOUS
    <3>2. Min(T) <= -x
      BY <1>4, <3>1
    <3> QED BY <3>1, <3>2, <2>1
  <2> QED BY <2>1, <2>2
<1>6. Max(S) \in S /\ \A x \in S : Max(S) >= x
  BY <1>5, Zenon DEF Max
<1> QED BY <1>6

-----------------------------------------------------------------------------
\* Find returns the first occurrence, and NotFound only when there is none.
LEMMA FindIsFirst ==
  ASSUME NEW s, NEW from \in Nat, NEW to \in Int, NEW pat, Len(pat) \in Nat
  PROVE  LET occ == Occurrences(s, from, to, pat)
             at  == Find(s, from, to, pat)
         IN  \/ at = NotFound /\ occ = {}
             \/ at # NotFound /\ at \in occ /\ \A j \in occ : at <= j
<1> DEFINE occ == Occurrences(s, from, to, pat)
<1>1. occ \in SUBSET Int /\ from \in Int /\ \A x \in occ : from <= x
  BY DEF Occurrences
<1>2. CASE occ = {}
  BY <1>2 DEF Find, FirstOf
<1>3. CASE occ # {}
  <2>1. Min(occ) \in occ /\ \A j \in occ : Min(occ) <= j
    <3> HIDE DEF occ
    <3> QED BY <1>1, <1>3, MinIsLeast, Zenon
  <2>2. Min(occ) # NotFound
    BY <2>1, <1>1 DEF NotFound
  <2> QED BY <2>1, <2>2, <1>3 DEF Find, FirstOf
<1> QED BY <1>2, <1>3

\* The first boundary is an occurrence, at the start of a line.
LEMMA FirstBoundaryInWindow ==
  ASSUME NEW s, NEW start, NEW from \in Nat, NEW to \in Int, NEW pat, Len(pat) \in Nat,
         FirstBoundary(s, start, from, to, pat) # NotFound
  PROVE  /\ FirstBoundary(s, start, from, to, pat) \in Occurrences(s, from, to, pat)
         /\ LineStart(s, start, FirstBoundary(s, start, from, to, pat))
<1> DEFINE occ == { at \in Occurrences(s, from, to, pat) : LineStart(s, start, at) }
<1>1. occ \in SUBSET Int /\ from \in Int /\ \A x \in occ : from <= x
  BY DEF Occurrences
<1>2. occ # {}
  BY DEF FirstBoundary, FirstOf
<1>3. Min(occ) \in occ
  <2> HIDE DEF occ
  <2> QED BY <1>1, <1>2, MinIsLeast, Zenon
<1> QED BY <1>2, <1>3 DEF FirstBoundary, FirstOf

\* The partial suffix is one, and none is longer.
LEMMA PartialSuffixIsLongest ==
  ASSUME NEW s, NEW from \in Nat, NEW to \in Nat, from <= to, NEW pat, Len(pat) \in Nat \ {0}
  PROVE  LET n == PartialSuffixLen(s, from, to, pat)
         IN  /\ n \in PartialSuffixes(s, from, to, pat)
             /\ \A m \in PartialSuffixes(s, from, to, pat) : m <= n
<1> DEFINE S == PartialSuffixes(s, from, to, pat)
<1>1. S \in SUBSET Int /\ Len(pat) \in Int /\ \A x \in S : x <= Len(pat)
  BY DEF PartialSuffixes
<1>2. 0 \in S
  <2>1. Len(SubSeq(pat, 1, 0)) = 0
    OBVIOUS
  <2> QED BY <2>1 DEF PartialSuffixes, Matches
<1>3. Max(S) \in S /\ \A m \in S : m <= Max(S)
  <2> HIDE DEF S
  <2> QED BY <1>1, <1>2, MaxIsGreatest, Zenon
<1> QED BY <1>3 DEF PartialSuffixLen

\* A pattern in two pieces.
LEMMA MatchesConcat ==
  ASSUME NEW s, NEW at \in Nat, NEW p \in Seq(Bytes), NEW q \in Seq(Bytes)
  PROVE  Matches(s, at, p \o q) <=> Matches(s, at, p) /\ Matches(s, at + Len(p), q)
<1>1. /\ Len(p) \in Nat /\ Len(q) \in Nat /\ Len(p \o q) = Len(p) + Len(q)
      /\ \A k \in 1..Len(p) : (p \o q)[k] = p[k]
      /\ \A k \in 1..Len(q) : (p \o q)[Len(p) + k] = q[k]
  BY ConcatProperties
<1>2. ASSUME Matches(s, at, p \o q)
      PROVE  Matches(s, at, p) /\ Matches(s, at + Len(p), q)
  <2>1. ASSUME NEW k \in 1..Len(p) PROVE s[at + k] = p[k]
    BY <1>1, <1>2 DEF Matches
  <2>2. ASSUME NEW k \in 1..Len(q) PROVE s[at + Len(p) + k] = q[k]
    <3>1. Len(p) + k \in 1..Len(p \o q) /\ at + (Len(p) + k) = at + Len(p) + k
      BY <1>1
    <3> QED BY <1>1, <1>2, <3>1 DEF Matches
  <2> QED BY <2>1, <2>2 DEF Matches
<1>3. ASSUME Matches(s, at, p), Matches(s, at + Len(p), q)
      PROVE  Matches(s, at, p \o q)
  <2> SUFFICES ASSUME NEW k \in 1..Len(p \o q)
               PROVE  s[at + k] = (p \o q)[k]
    BY DEF Matches
  <2>1. CASE k \in 1..Len(p)
    BY <1>1, <1>3, <2>1 DEF Matches
  <2>2. CASE k \notin 1..Len(p)
    <3>1. k - Len(p) \in 1..Len(q) /\ Len(p) + (k - Len(p)) = k
          /\ at + Len(p) + (k - Len(p)) = at + k
      BY <1>1, <2>2
    <3> QED BY <1>1, <1>3, <3>1 DEF Matches
  <2> QED BY <2>1, <2>2
<1> QED BY <1>2, <1>3

-----------------------------------------------------------------------------
\* PaddingEnd stops at the first byte that is not padding.
LEMMA PaddingEndProperties ==
  ASSUME NEW s, NEW from \in Nat, NEW to \in Nat, from <= to,
         NEW end, end = PaddingEnd(s, from, to)
  PROVE  /\ end \in from..to
         /\ end = to \/ s[end + 1] \notin Padding
         /\ \A i \in (from + 1)..end : s[i] \in Padding
<1> DEFINE S == { at \in from..to : at = to \/ s[at + 1] \notin Padding }
<1>1. S \in SUBSET Int /\ from \in Int /\ \A x \in S : from <= x
  OBVIOUS
<1>2. to \in S
  OBVIOUS
<1>3. Min(S) \in S /\ \A x \in S : Min(S) <= x
  <2> HIDE DEF S
  <2> QED BY <1>1, <1>2, MinIsLeast, Zenon
<1>4. end = Min(S)
  BY DEF PaddingEnd
<1>5. ASSUME NEW i \in (from + 1)..end PROVE s[i] \in Padding
  <2>1. i - 1 \in from..to /\ i - 1 < Min(S) /\ (i - 1) + 1 = i
    BY <1>3, <1>4
  <2>2. i - 1 \notin S
    BY <2>1, <1>3
  <2> QED BY <2>1, <2>2
<1> QED BY <1>3, <1>4, <1>5

Verdicts == {"Valid", "Partial", "Invalid", "TooLong"}

\* The scan of the padding after a boundary stays in the window and passes
\* over padding only, and at the end of the input it always decides.
LEMMA MatchPaddingProperties ==
  ASSUME NEW s, NEW from \in Nat, NEW to \in Nat, NEW scanned \in Nat, NEW limit \in Nat,
         NEW eof \in BOOLEAN, NEW allow_eof \in BOOLEAN,
         from + scanned <= to, \A i \in 1..scanned : s[from + i] \in Padding,
         NEW m, m = MatchPaddingAndCrlf(s, from, to, eof, allow_eof, scanned, limit)
  PROVE  /\ m.verdict \in Verdicts
         /\ m.scanned \in Nat
         /\ from + m.scanned <= to
         /\ \A i \in 1..m.scanned : s[from + i] \in Padding
         /\ eof => m.verdict # "Partial"
         /\ m.verdict = "Partial" => to - from <= limit + 1
<1>1. PICK end : end = PaddingEnd(s, from + scanned, to)
  OBVIOUS
<1>2. /\ end \in (from + scanned)..to
      /\ \A i \in (from + scanned + 1)..end : s[i] \in Padding
  <2>1. PICK start \in Nat : start = from + scanned
    OBVIOUS
  <2>2. start <= to /\ end = PaddingEnd(s, start, to)
    BY <1>1, <2>1
  <2>3. /\ end \in start..to
        /\ \A i \in (start + 1)..end : s[i] \in Padding
    BY <2>2, PaddingEndProperties
  <2> QED BY <2>1, <2>3
<1>3. ASSUME NEW i \in 1..(end - from) PROVE s[from + i] \in Padding
  <2>1. CASE i \in 1..scanned
    BY <2>1
  <2>2. CASE i \notin 1..scanned
    BY <2>2, <1>2
  <2> QED BY <2>1, <2>2
<1>4. CASE scanned > limit
  <2>1. m = [verdict |-> "TooLong", scanned |-> scanned]
    BY <1>4 DEF MatchPaddingAndCrlf
  <2> QED BY <2>1 DEF Verdicts
<1>5. CASE scanned <= limit /\ end - from > limit
  <2>1. m = [verdict |-> "TooLong", scanned |-> limit + 1]
    BY <1>1, <1>5 DEF MatchPaddingAndCrlf
  <2> QED BY <2>1, <1>2, <1>3, <1>5 DEF Verdicts
<1>6. CASE scanned <= limit /\ end - from <= limit
  <2>1. /\ m.verdict \in Verdicts
        /\ m.scanned = end - from
        /\ m.verdict = "Partial" => ~eof /\ to - end <= 1
    BY <1>1, <1>2, <1>6 DEF MatchPaddingAndCrlf, Verdicts
  <2> QED BY <2>1, <1>2, <1>3, <1>6
<1> QED BY <1>2, <1>4, <1>5, <1>6

\* The same of all that follows a boundary marker.
LEMMA MatchSuffixProperties ==
  ASSUME NEW s, NEW from \in Nat, NEW to \in Nat, NEW scanned \in Nat, NEW limit \in Nat,
         NEW eof \in BOOLEAN, from <= to,
         scanned > 0 => PaddingScanned(s, from, to, scanned),
         NEW m, m = MatchBoundarySuffix(s, from, to, eof, scanned, limit)
  PROVE  /\ m.verdict \in Verdicts
         /\ m.scanned \in Nat
         /\ m.scanned > 0 => PaddingScanned(s, from, to, m.scanned)
         /\ eof => m.verdict # "Partial"
         /\ m.verdict = "Partial" => to - from <= 2 + limit + 1
<1> DEFINE dash    == to - from >= 1 /\ s[from + 1] = "-"
           closing == to - from >= 2 /\ Matches(s, from, BOUNDARY_EXT)
           early   == ~eof /\ (to - from = 0 \/ (to - from = 1 /\ dash))
<1>1. Len(BOUNDARY_EXT) = 2 /\ BOUNDARY_EXT[1] = "-"
  BY DEF BOUNDARY_EXT
<1>2. closing => dash
  BY <1>1 DEF Matches
<1>3. CASE early
  <2>1. m = [verdict |-> "Partial", scanned |-> scanned]
    BY <1>3 DEF MatchBoundarySuffix, MayStillClose
  <2> QED BY <2>1, <1>3 DEF Verdicts
<1>4. CASE ~early /\ closing
  <2>1. m = MatchPaddingAndCrlf(s, from + 2, to, eof, TRUE, scanned, limit)
    BY <1>4 DEF MatchBoundarySuffix, MayStillClose
  <2>2. /\ from + 2 \in Nat /\ from + 2 + scanned <= to
        /\ \A i \in 1..scanned : s[from + 2 + i] \in Padding
    BY <1>1, <1>2, <1>4 DEF PaddingScanned
  <2>3. /\ m.verdict \in Verdicts
        /\ m.scanned \in Nat
        /\ from + 2 + m.scanned <= to
        /\ \A i \in 1..m.scanned : s[from + 2 + i] \in Padding
        /\ eof => m.verdict # "Partial"
        /\ m.verdict = "Partial" => to - (from + 2) <= limit + 1
    BY <2>1, <2>2, MatchPaddingProperties
  <2> QED BY <2>3, <1>1, <1>2, <1>4 DEF PaddingScanned
<1>5. CASE ~early /\ ~closing /\ (to - from = 0 \/ dash)
  <2>1. m = [verdict |-> "Invalid", scanned |-> scanned]
    BY <1>5 DEF MatchBoundarySuffix, MayStillClose
  <2> QED BY <2>1 DEF Verdicts
<1>6. CASE ~closing /\ ~(to - from = 0 \/ dash)
  <2>1. m = MatchPaddingAndCrlf(s, from, to, eof, FALSE, scanned, limit)
    BY <1>6 DEF MatchBoundarySuffix, MayStillClose
  <2>2. /\ from + scanned <= to
        /\ \A i \in 1..scanned : s[from + i] \in Padding
    BY <1>1, <1>6 DEF PaddingScanned
  <2>3. /\ m.verdict \in Verdicts
        /\ m.scanned \in Nat
        /\ from + m.scanned <= to
        /\ \A i \in 1..m.scanned : s[from + i] \in Padding
        /\ eof => m.verdict # "Partial"
        /\ m.verdict = "Partial" => to - from <= limit + 1
    BY <2>1, <2>2, MatchPaddingProperties
  <2> QED BY <2>3, <1>1, <1>6 DEF PaddingScanned
<1> QED BY <1>3, <1>4, <1>5, <1>6

-----------------------------------------------------------------------------
\* The name of a part is one of those the header lines stand for, or none.
LEMMA ParsedName ==
  ASSUME NEW block, Len(block) \in Nat, NEW max_headers
  PROVE  ParseHeaders(block, max_headers).name \in Names \union {NoName}
<1> DEFINE naming == { j \in 1..Lines(block) : block[3 * j - 2] \in Names }
<1>1. Lines(block) \in Int
  BY DEF Lines
<1>2. ASSUME naming # {} PROVE block[3 * Max(naming) - 2] \in Names
  <2>1. naming \in SUBSET Int /\ \A j \in naming : j <= Lines(block)
    BY <1>1
  <2>2. Max(naming) \in naming
    <3> HIDE DEF naming
    <3> QED BY <1>1, <1>2, <2>1, MaxIsGreatest, Zenon
  <2> QED BY <2>2
<1> HIDE DEF naming
<1> QED BY <1>2 DEF ParseHeaders, naming

-----------------------------------------------------------------------------
(* Forms *)

\* Induction up to n, on a set instead of a predicate.
LEMMA UptoInduction ==
  ASSUME NEW n \in Nat, NEW T, 0 \in T, \A i \in 1..n : i - 1 \in T => i \in T
  PROVE  0..n \subseteq T
<1> DEFINE missing == (0..n) \ T
<1>1. SUFFICES ASSUME missing # {} PROVE FALSE
  OBVIOUS
<1>2. PICK m \in missing : \A k \in missing : m <= k
  <2>1. missing \in SUBSET Int /\ 0 \in Int /\ \A x \in missing : 0 <= x
    OBVIOUS
  <2> HIDE DEF missing
  <2>2. Min(missing) \in missing /\ \A x \in missing : Min(missing) <= x
    BY <1>1, <2>1, MinIsLeast, Zenon
  <2> QED BY <2>2
<1>3. m \in 1..n /\ m - 1 \in 0..n
  OBVIOUS
<1>4. m - 1 \in T
  BY <1>2, <1>3
<1> QED BY <1>3, <1>4

-----------------------------------------------------------------------------
(* Prefixes *)

LEMMA PrefixByElements ==
  ASSUME NEW s \in Seq(Bytes), NEW t \in Seq(Bytes)
  PROVE  IsPrefix(s, t) <=> Len(s) <= Len(t) /\ \A i \in 1..Len(s) : t[i] = s[i]
<1>1. Len(s) \in Nat /\ Len(t) \in Nat /\ DOMAIN s = 1..Len(s) /\ DOMAIN t = 1..Len(t)
  OBVIOUS
<1>2. ASSUME IsPrefix(s, t)
      PROVE  Len(s) <= Len(t) /\ \A i \in 1..Len(s) : t[i] = s[i]
  BY <1>1, <1>2 DEF IsPrefix
<1>3. ASSUME Len(s) <= Len(t), \A i \in 1..Len(s) : t[i] = s[i]
      PROVE  IsPrefix(s, t)
  <2>1. DOMAIN s \subseteq DOMAIN t
    BY <1>1, <1>3
  <2> QED BY <1>1, <1>3, <2>1 DEF IsPrefix
<1> QED BY <1>2, <1>3

LEMMA PrefixReflexive == ASSUME NEW s \in Seq(Bytes) PROVE IsPrefix(s, s)
BY PrefixByElements

LEMMA PrefixOfConcat ==
  ASSUME NEW s \in Seq(Bytes), NEW a \in Seq(Bytes), NEW b \in Seq(Bytes), IsPrefix(s, a)
  PROVE  IsPrefix(s, a \o b)
<1>1. PICK c \in Seq(Bytes) : c = a \o b
  BY ConcatProperties
<1>2. Len(c) = Len(a) + Len(b) /\ \A i \in 1..Len(a) : c[i] = a[i]
  BY <1>1, ConcatProperties
<1>3. Len(s) <= Len(a) /\ \A i \in 1..Len(s) : a[i] = s[i]
  BY PrefixByElements
<1>4. Len(s) <= Len(c) /\ \A i \in 1..Len(s) : c[i] = s[i]
  BY <1>2, <1>3
<1> QED BY <1>1, <1>4, PrefixByElements

-----------------------------------------------------------------------------
(* Sequences put together *)

Concatenates(g, q, n) ==
  /\ g[0] = << >>
  /\ \A i \in 1..n : g[i] = g[i - 1] \o q[i]

LEMMA ConcatenationTypes ==
  ASSUME NEW q, NEW n \in Nat, \A i \in 1..n : q[i] \in Seq(Bytes), NEW g, Concatenates(g, q, n)
  PROVE  \A i \in 0..n : g[i] \in Seq(Bytes)
<1> DEFINE T == { i \in 0..n : g[i] \in Seq(Bytes) }
<1>1. 0 \in T
  <2>1. g[0] \in Seq(Bytes)
    BY EmptySeq DEF Concatenates
  <2> QED BY <2>1
<1>2. ASSUME NEW i \in 1..n, i - 1 \in T PROVE i \in T
  <2>0. i \in 0..n
    OBVIOUS
  <2>1. q[i] \in Seq(Bytes) /\ g[i] = g[i - 1] \o q[i] /\ g[i - 1] \in Seq(Bytes)
    BY <1>2, <2>0 DEF Concatenates
  <2>2. g[i] \in Seq(Bytes)
    BY <2>1, ConcatProperties
  <2> QED BY <2>2
<1>3. 0..n \subseteq T
  <2>1. n \in Nat
    OBVIOUS
  <2> HIDE DEF T
  <2> QED BY <1>1, <1>2, <2>1, UptoInduction
<1> QED BY <1>3

LEMMA ConcatenationUnique ==
  ASSUME NEW q, NEW r, NEW n \in Nat, \A i \in 1..n : q[i] = r[i],
         NEW g, NEW h, Concatenates(g, q, n), Concatenates(h, r, n)
  PROVE  g[n] = h[n]
<1> DEFINE T == { i \in 0..n : g[i] = h[i] }
<1>1. 0 \in T
  BY DEF Concatenates
<1>2. ASSUME NEW i \in 1..n, i - 1 \in T PROVE i \in T
  <2>1. g[i] = g[i - 1] \o q[i] /\ h[i] = h[i - 1] \o r[i] /\ q[i] = r[i]
    BY DEF Concatenates
  <2>2. g[i - 1] = h[i - 1]
    BY <1>2
  <2>3. g[i] = h[i]
    BY <2>1, <2>2
  <2> QED BY <2>3
<1>3. 0..n \subseteq T
  <2> HIDE DEF T
  <2> QED BY <1>1, <1>2, UptoInduction
<1> QED BY <1>3

\* The recursion by which FlattenSeq is defined has a solution.
LEMMA ConcatenationExists ==
  ASSUME NEW q, NEW n \in Nat
  PROVE  \E g : Concatenates(g, q, n)
<1> DEFINE T == { m \in 0..n : \E g : Concatenates(g, q, m) }
<1>1. 0 \in T
  <2>1. Concatenates([i \in {0} |-> << >>], q, 0)
    BY DEF Concatenates
  <2> QED BY <2>1
<1>2. ASSUME NEW m \in 1..n, m - 1 \in T PROVE m \in T
  <2>1. PICK g : Concatenates(g, q, m - 1)
    BY <1>2
  <2> DEFINE h == [i \in 0..m |-> IF i = m THEN g[m - 1] \o q[m] ELSE g[i]]
  <2>2. h[0] = << >>
    BY <2>1 DEF Concatenates
  <2>3. ASSUME NEW i \in 1..m PROVE h[i] = h[i - 1] \o q[i]
    <3>1. h[i - 1] = g[i - 1]
      OBVIOUS
    <3>2. CASE i = m
      BY <3>1, <3>2
    <3>3. CASE i # m
      <4>1. i \in 1..(m - 1) /\ h[i] = g[i]
        BY <3>3
      <4> QED BY <4>1, <3>1, <2>1 DEF Concatenates
    <3> QED BY <3>2, <3>3
  <2> HIDE DEF h
  <2>4. Concatenates(h, q, m)
    BY <2>2, <2>3 DEF Concatenates
  <2> QED BY <2>4
<1>3. n \in T
  <2> HIDE DEF T
  <2> QED BY <1>1, <1>2, UptoInduction
<1> QED BY <1>3

LEMMA FlattenConcatenates ==
  ASSUME NEW q, q \in Seq(Seq(Bytes)), NEW n \in Nat, n = Len(q), NEW g, Concatenates(g, q, n)
  PROVE  FlattenSeq(q) = g[n]
<1>0. n \in Nat
  OBVIOUS
<1>1. CASE n = 0
  <2>1. q = << >>
    BY <1>1, EmptySeq
  <2>1a. FlattenSeq(q) = q
    BY <1>1 DEF FlattenSeq
  <2> QED BY <1>1, <2>1, <2>1a DEF Concatenates
<1>2. CASE n # 0
  <2> DEFINE F(f) == [i \in 1..Len(q) |-> IF i = 1 THEN q[i] ELSE f[i - 1] \o q[i]]
             flatten == CHOOSE f : f = F(f)
             h == [i \in 1..n |-> g[i]]
  <2>1. h = F(h)
    <3>1. ASSUME NEW i \in 1..n PROVE h[i] = IF i = 1 THEN q[i] ELSE h[i - 1] \o q[i]
      <4>0. q[i] \in Seq(Bytes) /\ << >> \o q[i] = q[i]
        BY ConcatEmptySeq
      <4>1. h[i] = g[i - 1] \o q[i]
        BY DEF Concatenates
      <4>2. CASE i = 1
        <5>1. h[i] = << >> \o q[i]
          <6>1. g[i - 1] = << >>
            BY <4>2 DEF Concatenates
          <6> QED BY <4>1, <6>1
        <5> QED BY <4>0, <4>2, <5>1
      <4>3. CASE i # 1
        <5>1. i - 1 \in 1..n
          BY <1>0, <4>3
        <5>2. h[i - 1] = g[i - 1]
          BY <5>1
        <5> HIDE DEF h
        <5> QED BY <4>1, <4>3, <5>2
      <4> QED BY <4>2, <4>3
    <3> QED BY <3>1
  <2>2. flatten = F(flatten)
    <3> HIDE DEF h, F
    <3> QED BY <2>1
  <2>3. FlattenSeq(q) = flatten[n]
    BY <1>2 DEF FlattenSeq
  <2> HIDE DEF flatten
  <2> DEFINE k == [i \in 0..n |-> IF i = 0 THEN << >> ELSE flatten[i]]
  <2>4. Concatenates(k, q, n)
    <3>1. ASSUME NEW i \in 1..n PROVE k[i] = k[i - 1] \o q[i]
      <4>1. q[i] \in Seq(Bytes) /\ << >> \o q[i] = q[i]
        BY ConcatEmptySeq
      <4>2. flatten[i] = IF i = 1 THEN q[i] ELSE flatten[i - 1] \o q[i]
        BY <2>2
      <4>3. CASE i = 1
        <5>1. k[i - 1] = << >> /\ k[i] = flatten[i]
          BY <4>3
        <5> QED BY <4>1, <4>2, <4>3, <5>1
      <4>4. CASE i # 1
        <5>1. i - 1 \in 1..n
          BY <4>4
        <5>2. k[i - 1] = flatten[i - 1] /\ k[i] = flatten[i]
          BY <5>1
        <5> QED BY <4>2, <4>4, <5>2
      <4> QED BY <4>3, <4>4
    <3>2. k[0] = << >>
      OBVIOUS
    <3> HIDE DEF k
    <3> QED BY <3>1, <3>2 DEF Concatenates
  <2>5. k[n] = flatten[n]
    BY <1>0, <1>2
  <2> HIDE DEF k
  <2>6. k[n] = g[n]
    BY <1>0, <2>4, ConcatenationUnique
  <2> QED BY <2>3, <2>5, <2>6
<1> QED BY <1>1, <1>2

LEMMA ConcatenationStep ==
  ASSUME NEW q, NEW n \in Nat, \A i \in 1..n : q[i] \in Seq(Bytes), NEW g, Concatenates(g, q, n),
         NEW i \in 1..n
  PROVE  /\ g[i - 1] \in Seq(Bytes) /\ q[i] \in Seq(Bytes) /\ g[i] \in Seq(Bytes)
         /\ g[i] = g[i - 1] \o q[i]
<1>1. i \in 0..n /\ i - 1 \in 0..n
  OBVIOUS
<1>2. g[i] = g[i - 1] \o q[i]
  BY DEF Concatenates
<1>3. g[i - 1] \in Seq(Bytes) /\ g[i] \in Seq(Bytes)
  BY <1>1, ConcatenationTypes
<1> QED BY <1>2, <1>3

\* z stands behind x at the beginning of w, and ends at the end of y.
Stands(x, z, y, w) ==
  x \in Seq(Bytes) /\ z \in Seq(Bytes) /\ y \in Seq(Bytes) /\ w \in Seq(Bytes)
  /\ y = x \o z /\ IsPrefix(y, w)

\* The pieces of a sequence put together: each stands behind those before it.
LEMMA PiecesConcatenated ==
  ASSUME NEW q, NEW n \in Nat, \A i \in 1..n : q[i] \in Seq(Bytes), NEW g, Concatenates(g, q, n),
         NEW k \in 1..n
  PROVE  Stands(g[k - 1], q[k], g[k], g[n])
<1>0. n \in 0..n
  OBVIOUS
<1>1. PICK w \in Seq(Bytes) : w = g[n]
  BY <1>0, ConcatenationTypes
<1>2. PICK x, z, y \in Seq(Bytes) : x = g[k - 1] /\ z = q[k] /\ y = g[k] /\ y = x \o z
  <2>1. /\ g[k - 1] \in Seq(Bytes) /\ q[k] \in Seq(Bytes) /\ g[k] \in Seq(Bytes)
        /\ g[k] = g[k - 1] \o q[k]
    BY ConcatenationStep
  <2> QED BY <2>1, Zenon
<1> DEFINE T == { m \in 0..n : m >= k => \E c \in Seq(Bytes) : c = g[m] /\ IsPrefix(y, c) }
<1>4. 0 \in T
  BY <1>0
<1>5. ASSUME NEW m \in 1..n, m - 1 \in T PROVE m \in T
  <2>1. m \in 0..n /\ m - 1 \in 0..n
    OBVIOUS
  <2>2. PICK a, b, c \in Seq(Bytes) : a = g[m - 1] /\ b = q[m] /\ c = g[m] /\ c = a \o b
    <3>1. /\ g[m - 1] \in Seq(Bytes) /\ q[m] \in Seq(Bytes) /\ g[m] \in Seq(Bytes)
          /\ g[m] = g[m - 1] \o q[m]
      BY ConcatenationStep
    <3> QED BY <3>1, Zenon
  <2>3. CASE m = k
    <3>1. c = y
      BY <1>2, <2>2, <2>3
    <3>2. IsPrefix(y, y)
      BY PrefixReflexive
    <3> QED BY <2>1, <2>2, <3>1, <3>2
  <2>4. CASE m < k
    BY <2>1, <2>4
  <2>5. CASE m > k
    <3>0. m - 1 >= k
      BY <2>5
    <3>1. IsPrefix(y, a)
      BY <1>5, <2>2, <3>0
    <3>2. c = a \o b
      BY <2>2
    <3>3. IsPrefix(y, c)
      BY <3>1, <3>2, PrefixOfConcat
    <3> QED BY <2>1, <2>2, <3>3
  <2> QED BY <2>1, <2>3, <2>4, <2>5
<1> HIDE DEF T
<1>6. n \in T
  <2>1. 0..n \subseteq T
    BY <1>0, <1>4, <1>5, UptoInduction
  <2> QED BY <1>0, <2>1
<1>8. IsPrefix(y, w)
  <2>1. n >= k
    BY <1>0
  <2> QED BY <1>1, <1>6, <2>1 DEF T
<1>9. Stands(x, z, y, w)
  BY <1>2, <1>8 DEF Stands
<1> QED BY <1>1, <1>2, <1>9, Zenon

-----------------------------------------------------------------------------
(* Header blocks *)

HeaderLine(line) == <<line>> \o CRLF

\* Two sequences joined.
LEMMA Joined ==
  ASSUME NEW a \in Seq(Bytes), NEW b \in Seq(Bytes)
  PROVE  \E c \in Seq(Bytes) :
           /\ c = a \o b /\ Len(c) = Len(a) + Len(b)
           /\ \A i \in 1..Len(a) : c[i] = a[i]
           /\ \A i \in 1..Len(b) : c[Len(a) + i] = b[i]
<1>1. PICK c \in Seq(Bytes) : c = a \o b
  BY ConcatProperties
<1>2. /\ Len(c) = Len(a) + Len(b)
      /\ \A i \in 1..Len(a) : c[i] = a[i]
      /\ \A i \in 1..Len(b) : c[Len(a) + i] = b[i]
  BY <1>1, ConcatProperties
<1> QED BY <1>1, <1>2

LEMMA BytesOfMarks ==
  /\ CRLF \in Seq(Bytes) /\ Len(CRLF) = 2 /\ CRLF[1] = "CR" /\ CRLF[2] = "LF"
  /\ BOUNDARY_EXT \in Seq(Bytes) /\ Len(BOUNDARY_EXT) = 2
  /\ BOUNDARY_EXT[1] = "-" /\ BOUNDARY_EXT[2] = "-"
  /\ BoundaryBytes \in Seq(Bytes) /\ Len(BoundaryBytes) = Len(Boundary) + 2
  /\ BoundaryBytes[1] = "-" /\ BoundaryBytes[2] = "-"
  /\ FieldBoundary \in Seq(Bytes) /\ Len(FieldBoundary) = Len(Boundary) + 4
  /\ Len(Boundary) \in Nat
<1>1. /\ CRLF \in Seq(Bytes) /\ Len(CRLF) = 2 /\ CRLF[1] = "CR" /\ CRLF[2] = "LF"
      /\ BOUNDARY_EXT \in Seq(Bytes) /\ Len(BOUNDARY_EXT) = 2
      /\ BOUNDARY_EXT[1] = "-" /\ BOUNDARY_EXT[2] = "-"
  BY BytesAssumption DEF CRLF, BOUNDARY_EXT
<1>2. Boundary \in Seq(Bytes) /\ Len(Boundary) \in Nat
  BY BoundaryAssumption
<1>3. PICK c \in Seq(Bytes) :
        /\ c = BOUNDARY_EXT \o Boundary /\ Len(c) = Len(BOUNDARY_EXT) + Len(Boundary)
        /\ \A i \in 1..Len(BOUNDARY_EXT) : c[i] = BOUNDARY_EXT[i]
        /\ \A i \in 1..Len(Boundary) : c[Len(BOUNDARY_EXT) + i] = Boundary[i]
  BY <1>1, <1>2, Joined
<1>4. Len(c) = Len(Boundary) + 2 /\ c[1] = "-" /\ c[2] = "-"
  BY <1>1, <1>2, <1>3
<1>5. c = BoundaryBytes
  BY <1>3 DEF BoundaryBytes
<1>6. PICK d \in Seq(Bytes) : d = CRLF \o c /\ Len(d) = Len(CRLF) + Len(c)
  BY <1>1, Joined
<1>7. d = FieldBoundary /\ Len(d) = Len(Boundary) + 4
  <2>1. d = FieldBoundary
    BY <1>5, <1>6 DEF FieldBoundary
  <2>2. Len(d) = Len(Boundary) + 4
    BY <1>1, <1>2, <1>4, <1>6
  <2> QED BY <2>1, <2>2
<1> QED BY <1>1, <1>2, <1>4, <1>5, <1>7

LEMMA HeaderLineBytes ==
  ASSUME NEW line \in Bytes
  PROVE  \E c \in Seq(Bytes) : /\ c = HeaderLine(line) /\ Len(c) = 3
                               /\ c[1] = line /\ c[2] = "CR" /\ c[3] = "LF"
<1>1. PICK a \in Seq(Bytes) : a = <<line>> /\ Len(a) = 1 /\ a[1] = line
  <2>1. <<line>> \in Seq(Bytes) /\ Len(<<line>>) = 1 /\ <<line>>[1] = line
    OBVIOUS
  <2> QED BY <2>1, Zenon
<1>2. PICK c \in Seq(Bytes) :
        /\ c = a \o CRLF /\ Len(c) = Len(a) + Len(CRLF)
        /\ \A i \in 1..Len(a) : c[i] = a[i]
        /\ \A i \in 1..Len(CRLF) : c[Len(a) + i] = CRLF[i]
  BY BytesOfMarks, Joined
<1>3. Len(c) = 3 /\ c[1] = line /\ c[2] = "CR" /\ c[3] = "LF"
  BY <1>1, <1>2, BytesOfMarks
<1>4. c = HeaderLine(line)
  BY <1>1, <1>2 DEF HeaderLine
<1> QED BY <1>3, <1>4

LinesAt(block, lines, n) ==
  /\ Len(block) = 3 * n
  /\ \A j \in 1..n : /\ block[3 * j - 2] = lines[j] /\ block[3 * j - 1] = "CR"
                      /\ block[3 * j] = "LF"

LEMMA LinesConcatenated ==
  ASSUME NEW lines \in Seq(Bytes), NEW n \in 0..Len(lines), NEW g,
         NEW q, \A i \in 1..n : q[i] = HeaderLine(lines[i]), Concatenates(g, q, n)
  PROVE  \E b \in Seq(Bytes) : b = g[n] /\ LinesAt(b, lines, n)
<1>0. n \in Nat /\ \A i \in 1..n : lines[i] \in Bytes
  OBVIOUS
<1>1. \A i \in 1..n : q[i] \in Seq(Bytes)
  <2>1. ASSUME NEW i \in 1..n PROVE q[i] \in Seq(Bytes)
    <3>1. lines[i] \in Bytes /\ q[i] = HeaderLine(lines[i])
      BY <1>0
    <3> QED BY <3>1, HeaderLineBytes
  <2> QED BY <2>1
<1> DEFINE T == { m \in 0..n : \E b \in Seq(Bytes) : b = g[m] /\ LinesAt(b, lines, m) }
<1>2. 0 \in T
  <2>1. g[0] = << >> /\ << >> \in Seq(Bytes)
    BY EmptySeq DEF Concatenates
  <2>2. LinesAt(<< >>, lines, 0)
    BY EmptySeq DEF LinesAt
  <2>3. 0 \in 0..n
    BY <1>0
  <2>4. \E b \in Seq(Bytes) : b = g[0] /\ LinesAt(b, lines, 0)
    BY <2>1, <2>2, Zenon
  <2> QED BY <2>3, <2>4, Zenon
<1>3. ASSUME NEW m \in 1..n, m - 1 \in T PROVE m \in T
  <2>1. PICK a \in Seq(Bytes) : a = g[m - 1] /\ LinesAt(a, lines, m - 1)
    BY <1>3
  <2>2. PICK d \in Seq(Bytes) : /\ d = q[m] /\ Len(d) = 3 /\ d[1] = lines[m]
                                /\ d[2] = "CR" /\ d[3] = "LF"
    <3>1. lines[m] \in Bytes /\ q[m] = HeaderLine(lines[m])
      BY <1>0
    <3> QED BY <3>1, HeaderLineBytes
  <2>3. g[m] = g[m - 1] \o q[m]
    BY <1>0, <1>1, ConcatenationStep
  <2>4. PICK b \in Seq(Bytes) : b = a \o d
    BY ConcatProperties
  <2>5. b = g[m]
    BY <2>1, <2>2, <2>3, <2>4
  <2> HIDE DEF T
  <2>6. LinesAt(b, lines, m)
    <3>1. /\ Len(b) = Len(a) + 3
          /\ \A i \in 1..Len(a) : b[i] = a[i]
          /\ b[Len(a) + 1] = lines[m] /\ b[Len(a) + 2] = "CR" /\ b[Len(a) + 3] = "LF"
      <4>1. /\ Len(b) = Len(a) + Len(d)
            /\ \A i \in 1..Len(a) : b[i] = a[i]
            /\ \A i \in 1..Len(d) : b[Len(a) + i] = d[i]
        BY <2>4, ConcatProperties
      <4> QED BY <2>2, <4>1
    <3>2. /\ Len(a) = 3 * (m - 1)
          /\ \A j \in 1..(m - 1) : /\ a[3 * j - 2] = lines[j] /\ a[3 * j - 1] = "CR"
                                    /\ a[3 * j] = "LF"
      BY <2>1 DEF LinesAt
    <3>3. Len(b) = 3 * m
      BY <1>0, <3>1, <3>2
    <3>4. ASSUME NEW j \in 1..m
          PROVE  b[3 * j - 2] = lines[j] /\ b[3 * j - 1] = "CR" /\ b[3 * j] = "LF"
      <4>1. CASE j = m
        <5>1. 3 * j - 2 = Len(a) + 1 /\ 3 * j - 1 = Len(a) + 2 /\ 3 * j = Len(a) + 3
          BY <1>0, <3>2, <4>1
        <5> QED BY <3>1, <4>1, <5>1
      <4>2. CASE j # m
        <5>1. /\ j \in 1..(m - 1) /\ 3 * j - 2 \in 1..Len(a) /\ 3 * j - 1 \in 1..Len(a)
              /\ 3 * j \in 1..Len(a)
          BY <1>0, <3>2, <4>2
        <5> QED BY <3>1, <3>2, <5>1
      <4> QED BY <4>1, <4>2
    <3> QED BY <3>3, <3>4 DEF LinesAt
  <2> USE DEF T
  <2> QED BY <1>0, <2>5, <2>6
<1>4. n \in T
  <2> HIDE DEF T
  <2>1. n \in Nat
    BY <1>0
  <2>2. 0..n \subseteq T
    BY <2>1, <1>2, <1>3, UptoInduction
  <2> QED BY <2>1, <2>2
<1> QED BY <1>4

LineCount(lines) == Len(lines)

\* A header block: its lines, each with its CRLF, and an empty line.
BlockOf(block, lines) ==
  /\ Len(block) = 3 * LineCount(lines) + 2
  /\ \A j \in 1..LineCount(lines) : /\ block[3 * j - 2] = lines[j] /\ block[3 * j - 1] = "CR"
                                     /\ block[3 * j] = "LF"
  /\ block[3 * LineCount(lines) + 1] = "CR" /\ block[3 * LineCount(lines) + 2] = "LF"

LEMMA HeaderBlockLayout ==
  ASSUME NEW lines \in Seq(Bytes)
  PROVE  \E h \in Seq(Bytes) : h = HeaderBlock(lines) /\ BlockOf(h, lines)
<1> DEFINE q == [j \in DOMAIN lines |-> <<lines[j]>> \o CRLF]
<1>1. PICK n \in Nat : n = LineCount(lines) /\ n \in 0..Len(lines) /\ DOMAIN lines = 1..n
  BY DEF LineCount
<1>2. \A i \in 1..n : q[i] = HeaderLine(lines[i])
  BY <1>1 DEF HeaderLine
<1>3. q \in Seq(Seq(Bytes)) /\ Len(q) = n
  <2>1. ASSUME NEW i \in 1..n PROVE q[i] \in Seq(Bytes)
    <3>1. lines[i] \in Bytes
      BY <1>1
    <3>2. q[i] = HeaderLine(lines[i])
      BY <1>2
    <3> HIDE DEF q
    <3> QED BY <3>1, <3>2, HeaderLineBytes
  <2>2. q = [j \in 1..n |-> q[j]]
    BY <1>1
  <2> HIDE DEF q
  <2> QED BY <2>1, <2>2
<1>4. HeaderBlock(lines) = FlattenSeq(q) \o CRLF
  BY DEF HeaderBlock
<1> HIDE DEF q
<1>5. PICK g : Concatenates(g, q, n)
  BY ConcatenationExists
<1>6. FlattenSeq(q) = g[n]
  BY <1>3, <1>5, FlattenConcatenates
<1>7. PICK b \in Seq(Bytes) : b = g[n] /\ LinesAt(b, lines, n)
  BY <1>1, <1>2, <1>5, LinesConcatenated
<1>8. PICK h \in Seq(Bytes) :
        /\ h = b \o CRLF /\ Len(h) = Len(b) + Len(CRLF)
        /\ \A i \in 1..Len(b) : h[i] = b[i]
        /\ \A i \in 1..Len(CRLF) : h[Len(b) + i] = CRLF[i]
  BY BytesOfMarks, Joined
<1>9. h = HeaderBlock(lines)
  BY <1>4, <1>6, <1>7, <1>8
<1>10. Len(b) = 3 * n /\ Len(h) = 3 * n + 2 /\ h[3 * n + 1] = "CR" /\ h[3 * n + 2] = "LF"
  <2>1. Len(b) = 3 * n
    BY <1>7 DEF LinesAt
  <2>2. h[Len(b) + 1] = CRLF[1] /\ h[Len(b) + 2] = CRLF[2]
    BY <1>8, BytesOfMarks
  <2> QED BY <1>8, <2>1, <2>2, BytesOfMarks
<1>11. ASSUME NEW j \in 1..n
       PROVE  h[3 * j - 2] = lines[j] /\ h[3 * j - 1] = "CR" /\ h[3 * j] = "LF"
  <2>1. b[3 * j - 2] = lines[j] /\ b[3 * j - 1] = "CR" /\ b[3 * j] = "LF"
    BY <1>7 DEF LinesAt
  <2>2. 3 * j - 2 \in 1..Len(b) /\ 3 * j - 1 \in 1..Len(b) /\ 3 * j \in 1..Len(b)
    BY <1>10
  <2> QED BY <1>8, <2>1, <2>2
<1>12. BlockOf(h, lines)
  BY <1>1, <1>10, <1>11 DEF BlockOf
<1> QED BY <1>9, <1>12

-----------------------------------------------------------------------------
(* Parts *)

PartType == [pad : Seq(Bytes), lines : Seq(Bytes), data : Seq(Bytes)]

Piece(part) == OpenPart(part) \o part.data \o CRLF

BoundaryLen == Len(BoundaryBytes)

PadLen(part)  == Len(part.pad)
DataLen(part) == Len(part.data)
OpenLen(part) == BoundaryLen + PadLen(part) + 2 + 3 * LineCount(part.lines) + 2

\* What stands at position at of s, piece by piece.
PieceAt(s, at, part) ==
  /\ Matches(s, at, BoundaryBytes)
  /\ Matches(s, at + BoundaryLen, part.pad)
  /\ Matches(s, at + BoundaryLen + PadLen(part), CRLF)
  /\ Matches(s, at + BoundaryLen + PadLen(part) + 2, HeaderBlock(part.lines))
  /\ Matches(s, at + OpenLen(part), part.data)
  /\ Matches(s, at + OpenLen(part) + DataLen(part), CRLF)

LEMMA PieceLayout ==
  ASSUME NEW part \in PartType
  PROVE  \E z \in Seq(Bytes) :
           /\ z = Piece(part) /\ Len(z) = OpenLen(part) + DataLen(part) + 2
           /\ Len(OpenPart(part)) = OpenLen(part)
           /\ PadLen(part) \in Nat /\ DataLen(part) \in Nat /\ LineCount(part.lines) \in Nat
           /\ \A s : \A at \in Nat : Matches(s, at, z) => PieceAt(s, at, part)
<1>1. PICK pad, lines, data \in Seq(Bytes) :
        pad = part.pad /\ lines = part.lines /\ data = part.data
  BY DEF PartType
<1>2. PICK p \in Nat, d \in Nat, m \in Nat, c \in Nat :
        p = Len(pad) /\ d = Len(data) /\ m = LineCount(lines) /\ c = Len(BoundaryBytes)
  BY BytesOfMarks DEF LineCount
<1>3. PICK h \in Seq(Bytes) : h = HeaderBlock(lines) /\ Len(h) = 3 * m + 2
  BY <1>2, HeaderBlockLayout DEF BlockOf
<1>4. PICK a \in Seq(Bytes) : a = BoundaryBytes \o pad /\ Len(a) = c + p
  <2>0. PICK mark \in Seq(Bytes) : mark = BoundaryBytes
    BY BytesOfMarks
  <2>1. PICK opening \in Seq(Bytes) : opening = mark \o pad /\ Len(opening) = Len(mark) + Len(pad)
    BY Joined
  <2>2. Len(opening) = c + p
    BY <2>0, <2>1, <1>2
  <2> QED BY <2>0, <2>1, <2>2
<1>5. PICK b \in Seq(Bytes) : b = a \o CRLF /\ Len(b) = c + p + 2
  <2>1. PICK line \in Seq(Bytes) : line = a \o CRLF /\ Len(line) = Len(a) + Len(CRLF)
    BY BytesOfMarks, Joined
  <2>2. Len(line) = c + p + 2
    BY <2>1, <1>2, <1>4, BytesOfMarks
  <2> QED BY <2>1, <2>2
<1>6. PICK o \in Seq(Bytes) : o = b \o h /\ Len(o) = c + p + 2 + 3 * m + 2
  <2>1. PICK opened \in Seq(Bytes) : opened = b \o h /\ Len(opened) = Len(b) + Len(h)
    BY BytesOfMarks, Joined
  <2>2. Len(opened) = c + p + 2 + 3 * m + 2
    BY <2>1, <1>2, <1>3, <1>5
  <2> QED BY <2>1, <2>2
<1>7. PICK e \in Seq(Bytes) : e = o \o data /\ Len(e) = c + p + 2 + 3 * m + 2 + d
  <2>1. PICK upto \in Seq(Bytes) : upto = o \o data /\ Len(upto) = Len(o) + Len(data)
    BY BytesOfMarks, Joined
  <2>2. Len(upto) = c + p + 2 + 3 * m + 2 + d
    BY <2>1, <1>2, <1>6
  <2> QED BY <2>1, <2>2
<1>8. PICK z \in Seq(Bytes) : z = e \o CRLF /\ Len(z) = c + p + 2 + 3 * m + 2 + d + 2
  <2>1. PICK all \in Seq(Bytes) : all = e \o CRLF /\ Len(all) = Len(e) + Len(CRLF)
    BY BytesOfMarks, Joined
  <2>2. Len(all) = c + p + 2 + 3 * m + 2 + d + 2
    BY <2>1, <1>2, <1>7, BytesOfMarks
  <2> QED BY <2>1, <2>2
<1>9. o = OpenPart(part)
  BY <1>1, <1>3, <1>4, <1>5, <1>6 DEF OpenPart
<1>10. z = Piece(part)
  BY <1>1, <1>7, <1>8, <1>9 DEF Piece
<1>11. /\ p = PadLen(part) /\ d = DataLen(part) /\ m = LineCount(part.lines) /\ c = BoundaryLen
       /\ OpenLen(part) = c + p + 2 + 3 * m + 2
  BY <1>1, <1>2 DEF PadLen, DataLen, BoundaryLen, OpenLen
<1>12. ASSUME NEW s, NEW at \in Nat, Matches(s, at, z)
       PROVE  PieceAt(s, at, part)
  <2>1. Matches(s, at, e) /\ Matches(s, at + Len(e), CRLF)
    BY <1>8, <1>12, BytesOfMarks, MatchesConcat
  <2>2. Matches(s, at, o) /\ Matches(s, at + Len(o), data)
    BY <1>7, <2>1, MatchesConcat
  <2>3. Matches(s, at, b) /\ Matches(s, at + Len(b), h)
    BY <1>6, <2>2, MatchesConcat
  <2>4. Matches(s, at, a) /\ Matches(s, at + Len(a), CRLF)
    BY <1>5, <2>3, BytesOfMarks, MatchesConcat
  <2>5. Matches(s, at, BoundaryBytes) /\ Matches(s, at + c, pad)
    BY <1>2, <1>4, <2>4, BytesOfMarks, MatchesConcat
  <2>6. /\ at + Len(a) = at + c + p /\ at + Len(b) = at + c + p + 2
        /\ at + Len(o) = at + (c + p + 2 + 3 * m + 2)
        /\ at + Len(e) = at + (c + p + 2 + 3 * m + 2) + d
    BY <1>4, <1>5, <1>6, <1>7
  <2>7. /\ Matches(s, at + c + p, CRLF) /\ Matches(s, at + c + p + 2, h)
        /\ Matches(s, at + OpenLen(part), data)
        /\ Matches(s, at + OpenLen(part) + d, CRLF)
    BY <1>11, <2>1, <2>2, <2>3, <2>4, <2>6
  <2>8. h = HeaderBlock(part.lines)
    BY <1>1, <1>3
  <2> QED BY <1>1, <1>11, <2>5, <2>7, <2>8 DEF PieceAt
<1>13. Len(z) = OpenLen(part) + DataLen(part) + 2 /\ Len(OpenPart(part)) = OpenLen(part)
  BY <1>6, <1>8, <1>9, <1>11
<1>14. PadLen(part) \in Nat /\ DataLen(part) \in Nat /\ LineCount(part.lines) \in Nat
  BY <1>11
<1> QED BY <1>10, <1>12, <1>13, <1>14

LEMMA SequenceOf ==
  ASSUME NEW i \in Nat, NEW r, r = [k \in 1..i |-> r[k]], \A k \in 1..i : r[k] \in Seq(Bytes)
  PROVE  r \in Seq(Seq(Bytes)) /\ Len(r) = i
OBVIOUS

Pieces(parts, n) == [k \in 1..n |-> Piece(parts[k])]

PiecesOf(parts, D) == [k \in D |-> OpenPart(parts[k]) \o parts[k].data \o CRLF]

LEMMA PartsEncoded ==
  ASSUME NEW parts \in Seq(PartType), NEW n \in Nat, n = Len(parts),
         NEW g, Concatenates(g, Pieces(parts, n), n),
         NEW i \in 0..n
  PROVE  EncodeParts(SubSeq(parts, 1, i)) = g[i]
<1>0. PICK m \in Nat : m = n /\ m = Len(parts) /\ i \in 0..m /\ i \in Nat
  OBVIOUS
<1>1. PICK some \in Seq(PartType) : some = SubSeq(parts, 1, i) /\ Len(some) = i
                                    /\ \A k \in 1..i : some[k] = parts[k]
                                    /\ DOMAIN some = 1..i
  <2>1. /\ SubSeq(parts, 1, i) \in Seq(PartType) /\ Len(SubSeq(parts, 1, i)) = i
        /\ \A k \in 1..i : SubSeq(parts, 1, i)[k] = parts[k]
        /\ DOMAIN SubSeq(parts, 1, i) = 1..i
    BY <1>0
  <2> QED BY <2>1, Zenon
<1> DEFINE q == Pieces(parts, n)
           r == [k \in 1..i |-> OpenPart(some[k]) \o some[k].data \o CRLF]
<1>2. \A k \in 1..i : r[k] = Piece(parts[k]) /\ r[k] = q[k]
  <2>1. ASSUME NEW k \in 1..i PROVE r[k] = Piece(parts[k]) /\ r[k] = q[k]
    <3>1. k \in DOMAIN some /\ k \in 1..n /\ some[k] = parts[k]
      BY <1>0, <1>1
    <3> QED BY <3>1 DEF Piece, Pieces
  <2> QED BY <2>1
<1>3. EncodeParts(some) = FlattenSeq(r)
  <2>1. EncodeParts(some) = FlattenSeq(PiecesOf(some, DOMAIN some))
    BY DEF EncodeParts, PiecesOf
  <2>2. PiecesOf(some, DOMAIN some) = PiecesOf(some, 1..i)
    BY <1>1
  <2>3. r = PiecesOf(some, 1..i)
    BY DEF PiecesOf
  <2> HIDE DEF r
  <2> QED BY <2>1, <2>2, <2>3
<1>4. r = [k \in 1..i |-> r[k]]
  OBVIOUS
<1>5. \A k \in 1..i : r[k] \in Seq(Bytes)
  <2>1. ASSUME NEW k \in 1..i PROVE r[k] \in Seq(Bytes)
    <3>1. parts[k] \in PartType
      BY <1>0
    <3>2. r[k] = Piece(parts[k])
      BY <1>2
    <3> HIDE DEF r
    <3> QED BY <3>1, <3>2, PieceLayout
  <2> QED BY <2>1
<1>6. Concatenates(g, r, i)
  <2>1. g[0] = << >> /\ \A k \in 1..n : g[k] = g[k - 1] \o q[k]
    BY DEF Concatenates
  <2>2. ASSUME NEW k \in 1..i PROVE g[k] = g[k - 1] \o r[k]
    <3> HIDE DEF q, r
    <3>1. k \in 1..n /\ r[k] = q[k]
      BY <1>0, <1>2
    <3> QED BY <2>1, <3>1
  <2> HIDE DEF q, r
  <2> QED BY <2>1, <2>2 DEF Concatenates
<1> HIDE DEF q, r
<1>7. r \in Seq(Seq(Bytes)) /\ Len(r) = i
  BY <1>0, <1>4, <1>5, SequenceOf, Zenon
<1>8. FlattenSeq(r) = g[i]
  BY <1>0, <1>6, <1>7, FlattenConcatenates
<1> QED BY <1>1, <1>3, <1>8

LEMMA PrefixMatches ==
  ASSUME NEW y \in Seq(Bytes), NEW w \in Seq(Bytes), IsPrefix(y, w),
         NEW s, NEW at \in Nat, Matches(s, at, w)
  PROVE  Matches(s, at, y)
<1>1. Len(y) <= Len(w) /\ \A i \in 1..Len(y) : w[i] = y[i]
  BY PrefixByElements
<1>2. ASSUME NEW i \in 1..Len(y) PROVE s[at + i] = y[i]
  <2>1. i \in 1..Len(w)
    BY <1>1
  <2> QED BY <1>1, <2>1 DEF Matches
<1> QED BY <1>2 DEF Matches

-----------------------------------------------------------------------------
(* The whole body *)

PartCount(f)   == Len(f.parts)
PreambleLen(f) == Len(f.preamble)
ClosePadLen(f) == Len(f.close_pad)
TailLen(f)     == Len(f.tail)

\* Where the boundary that opens part k stands, or the closing boundary.
BoundaryAt(f, k) == Len(f.preamble) + Len(EncodeParts(SubSeq(f.parts, 1, k - 1)))

\* The part of a form that starts at each boundary.
BoundariesFollow(f) ==
  /\ BoundaryAt(f, 1) = PreambleLen(f)
  /\ \A k \in 1..(PartCount(f) + 1) : BoundaryAt(f, k) \in Nat
  /\ \A k \in 1..PartCount(f) :
       /\ f.parts[k] \in PartType
       /\ BoundaryAt(f, k + 1) = BoundaryAt(f, k) + OpenLen(f.parts[k]) + DataLen(f.parts[k]) + 2

LEMMA PiecesTyped ==
  ASSUME NEW parts \in Seq(PartType), NEW n \in Nat, n = Len(parts)
  PROVE  \A k \in 1..n : /\ Pieces(parts, n)[k] = Piece(parts[k])
                         /\ Pieces(parts, n)[k] \in Seq(Bytes)
<1> SUFFICES ASSUME NEW k \in 1..n
             PROVE  Pieces(parts, n)[k] = Piece(parts[k]) /\ Pieces(parts, n)[k] \in Seq(Bytes)
  OBVIOUS
<1>1. Pieces(parts, n)[k] = Piece(parts[k]) /\ parts[k] \in PartType
  BY DEF Pieces
<1>2. Piece(parts[k]) \in Seq(Bytes)
  BY <1>1, PieceLayout
<1> QED BY <1>1, <1>2

LEMMA BoundariesPlaced ==
  ASSUME NEW f \in FormType
  PROVE  \E g, gn :
           /\ Concatenates(g, Pieces(f.parts, PartCount(f)), PartCount(f))
           /\ gn \in Seq(Bytes) /\ gn = g[PartCount(f)] /\ gn = EncodeParts(f.parts)
           /\ \A k \in 1..(PartCount(f) + 1) : /\ g[k - 1] \in Seq(Bytes)
                                               /\ BoundaryAt(f, k) = PreambleLen(f) + Len(g[k - 1])
<1>1. PICK parts \in Seq(PartType), n \in Nat, pre \in Seq(Bytes) :
        parts = f.parts /\ n = Len(parts) /\ n = PartCount(f) /\ pre = f.preamble
  <2>1. f.parts \in Seq(PartType) /\ Len(f.parts) \in Nat /\ f.preamble \in Seq(Bytes)
    BY DEF FormType, PartType
  <2> QED BY <2>1 DEF PartCount
<1>2. \A k \in 1..n : Pieces(parts, n)[k] \in Seq(Bytes)
  BY <1>1, PiecesTyped
<1>3. PICK g : Concatenates(g, Pieces(parts, n), n)
  BY ConcatenationExists
<1>4. \A i \in 0..n : g[i] \in Seq(Bytes)
  BY <1>2, <1>3, ConcatenationTypes
<1>5. \A i \in 0..n : EncodeParts(SubSeq(parts, 1, i)) = g[i]
  BY <1>1, <1>3, PartsEncoded
<1>6. SubSeq(parts, 1, n) = parts /\ n \in 0..n
  <2>1. SubSeq(parts, 1, Len(parts)) = parts
    BY SubSeqFull
  <2> QED BY <1>1, <2>1
<1>7. g[n] = EncodeParts(parts) /\ g[n] \in Seq(Bytes)
  BY <1>4, <1>5, <1>6
<1>8. ASSUME NEW k \in 1..(n + 1)
      PROVE  g[k - 1] \in Seq(Bytes) /\ BoundaryAt(f, k) = PreambleLen(f) + Len(g[k - 1])
  <2>1. k - 1 \in 0..n
    OBVIOUS
  <2>2. EncodeParts(SubSeq(parts, 1, k - 1)) = g[k - 1] /\ g[k - 1] \in Seq(Bytes)
    BY <1>4, <1>5, <2>1
  <2> QED BY <1>1, <2>2 DEF BoundaryAt, PreambleLen
<1> QED BY <1>1, <1>3, <1>7, <1>8

\* A piece of the encoded parts behind those before it.
LEMMA PiecePlaced ==
  ASSUME NEW parts \in Seq(PartType), NEW n \in Nat, n = Len(parts), NEW k \in 1..n,
         NEW g, Concatenates(g, Pieces(parts, n), n)
  PROVE  parts[k] \in PartType /\ Stands(g[k - 1], Piece(parts[k]), g[k], g[n])
<1>2. PICK q : /\ q = Pieces(parts, n) /\ Concatenates(g, q, n)
               /\ \A i \in 1..n : q[i] = Piece(parts[i]) /\ q[i] \in Seq(Bytes)
  BY PiecesTyped
<1>3. Stands(g[k - 1], q[k], g[k], g[n])
  <2>1. Concatenates(g, q, n) /\ \A i \in 1..n : q[i] \in Seq(Bytes)
    BY <1>2
  <2> QED BY <2>1, PiecesConcatenated
<1>4. q[k] = Piece(parts[k])
  BY <1>2
<1>5. parts[k] \in PartType
  OBVIOUS
<1> QED BY <1>3, <1>4, <1>5

LEMMA BoundariesInOrder ==
  ASSUME NEW f \in FormType
  PROVE  PartCount(f) \in Nat /\ BoundariesFollow(f)
<1>0. PartCount(f) \in Nat /\ PreambleLen(f) \in Nat
  BY DEF FormType, PartCount, PreambleLen
<1>1. PICK g, gn :
           /\ Concatenates(g, Pieces(f.parts, PartCount(f)), PartCount(f))
           /\ gn \in Seq(Bytes) /\ gn = g[PartCount(f)] /\ gn = EncodeParts(f.parts)
           /\ \A k \in 1..(PartCount(f) + 1) : /\ g[k - 1] \in Seq(Bytes)
                                               /\ BoundaryAt(f, k) = PreambleLen(f) + Len(g[k - 1])
  BY BoundariesPlaced
<1>2. PICK n \in Nat, p \in Nat : n = PartCount(f) /\ p = PreambleLen(f)
  BY <1>0
<1>3. \A k \in 1..(n + 1) : g[k - 1] \in Seq(Bytes) /\ BoundaryAt(f, k) = p + Len(g[k - 1])
  BY <1>1, <1>2
<1>4. BoundaryAt(f, 1) = p
  <2>1. 1 \in 1..(n + 1) /\ 1 - 1 = 0
    OBVIOUS
  <2>2. BoundaryAt(f, 1) = p + Len(g[0])
    BY <1>3, <2>1
  <2>3. g[0] = << >>
    BY <1>1 DEF Concatenates
  <2>4. BoundaryAt(f, 1) = p + Len(<< >>)
    BY <2>2, <2>3, Zenon
  <2> QED BY <2>4
<1>5. ASSUME NEW k \in 1..(n + 1) PROVE BoundaryAt(f, k) \in Nat
  <2>1. PICK x \in Seq(Bytes) : x = g[k - 1] /\ BoundaryAt(f, k) = p + Len(x)
    BY <1>3
  <2>2. p + Len(x) \in Nat
    OBVIOUS
  <2> QED BY <2>1, <2>2
<1>6. ASSUME NEW k \in 1..n
      PROVE  /\ f.parts[k] \in PartType
             /\ BoundaryAt(f, k + 1)
                  = BoundaryAt(f, k) + OpenLen(f.parts[k]) + DataLen(f.parts[k]) + 2
  <2>1. k \in 1..PartCount(f) /\ k \in 1..(n + 1) /\ k + 1 \in 1..(n + 1) /\ (k + 1) - 1 = k
    BY <1>2
  <2>2. PICK part \in PartType, x, y \in Seq(Bytes) :
          part = f.parts[k] /\ x = g[k - 1] /\ y = g[k] /\ y = x \o Piece(part)
    <3>0. f.parts \in Seq(PartType) /\ PartCount(f) = Len(f.parts)
      BY DEF FormType, PartType, PartCount
    <3>1. f.parts[k] \in PartType /\ Stands(g[k - 1], Piece(f.parts[k]), g[k], g[n])
      BY <1>1, <1>2, <2>1, <3>0, PiecePlaced
    <3> QED BY <3>1 DEF Stands
  <2>3. PICK z \in Seq(Bytes) : z = Piece(part) /\ Len(z) = OpenLen(part) + DataLen(part) + 2
                                /\ y = x \o z
    BY <2>2, PieceLayout
  <2>4. Len(y) = Len(x) + Len(z) /\ Len(x) \in Nat
    BY <2>3, ConcatProperties
  <2>5. BoundaryAt(f, k) = p + Len(x) /\ BoundaryAt(f, k + 1) = p + Len(y)
    BY <1>3, <2>1, <2>2
  <2>6. PICK o \in Nat, d \in Nat : o = OpenLen(part) /\ d = DataLen(part)
    <3>1. /\ PadLen(part) \in Nat /\ DataLen(part) \in Nat /\ LineCount(part.lines) \in Nat
          /\ BoundaryLen \in Nat
      BY PieceLayout, BytesOfMarks DEF BoundaryLen
    <3>2. OpenLen(part) \in Nat
      BY <3>1 DEF OpenLen
    <3> QED BY <3>1, <3>2
  <2>7. p + Len(y) = p + Len(x) + o + d + 2
    <3>1. Len(z) = o + d + 2
      BY <2>3, <2>6
    <3> QED BY <2>4, <3>1
  <2> QED BY <2>2, <2>5, <2>6, <2>7
<1> QED BY <1>0, <1>2, <1>4, <1>5, <1>6 DEF BoundariesFollow

\* Where the hyphens of the closing boundary stand.
CloseAt(f) == BoundaryAt(f, PartCount(f) + 1) + BoundaryLen

\* What stands where in the body of f.
Laid(s, f) ==
  /\ Matches(s, 0, f.preamble)
  /\ \A k \in 1..PartCount(f) : PieceAt(s, BoundaryAt(f, k), f.parts[k])
  /\ Matches(s, BoundaryAt(f, PartCount(f) + 1), BoundaryBytes)
  /\ Matches(s, CloseAt(f), BOUNDARY_EXT)
  /\ Matches(s, CloseAt(f) + 2, f.close_pad)
  /\ Matches(s, CloseAt(f) + 2 + ClosePadLen(f), f.tail)

LEMMA MatchesItself == ASSUME NEW s \in Seq(Bytes) PROVE Matches(s, 0, s)
BY DEF Matches

\* A sequence in pieces holds each of them.
Joins(a, b, c) ==
  /\ a \in Seq(Bytes) /\ b \in Seq(Bytes) /\ c \in Seq(Bytes)
  /\ c = a \o b /\ Len(c) = Len(a) + Len(b)

LEMMA JoinedPieces ==
  ASSUME NEW a \in Seq(Bytes), NEW b \in Seq(Bytes)
  PROVE  \E c : Joins(a, b, c)
<1>1. Joins(a, b, a \o b)
  BY ConcatProperties DEF Joins
<1> QED BY <1>1

LEMMA JoinedLengths ==
  ASSUME NEW a, NEW b, NEW c, Joins(a, b, c)
  PROVE  /\ a \in Seq(Bytes) /\ b \in Seq(Bytes) /\ c \in Seq(Bytes)
         /\ Len(c) = Len(a) + Len(b) /\ Len(a) \in Nat /\ Len(b) \in Nat
  BY DEF Joins

LEMMA SplitMatch ==
  ASSUME NEW s, NEW at \in Nat, NEW a, NEW b, NEW c, Joins(a, b, c), Matches(s, at, c)
  PROVE  Len(c) = Len(a) + Len(b) /\ Matches(s, at, a) /\ Matches(s, at + Len(a), b)
<1>1. a \in Seq(Bytes) /\ b \in Seq(Bytes) /\ Len(c) = Len(a) + Len(b)
  BY DEF Joins
<1>2. Matches(s, at, a \o b)
  BY DEF Joins
<1>3. Matches(s, at, a) /\ Matches(s, at + Len(a), b)
  BY <1>1, <1>2, MatchesConcat
<1> QED BY <1>1, <1>3

LEMMA WholeLayout ==
  ASSUME NEW f \in FormType
  PROVE  /\ Complete(f) \in Seq(Bytes) /\ Laid(Complete(f), f)
         /\ CloseAt(f) \in Nat /\ ClosePadLen(f) \in Nat /\ TailLen(f) \in Nat
         /\ Len(BeforeClose(f)) = CloseAt(f) + 2
         /\ Len(Complete(f)) = CloseAt(f) + 2 + ClosePadLen(f) + TailLen(f)
<1>1. PICK pre, pad, tail \in Seq(Bytes) :
        pre = f.preamble /\ pad = f.close_pad /\ tail = f.tail
  BY DEF FormType
<1>2. PICK p, c, t, n, e \in Nat :
        /\ p = Len(pre) /\ p = PreambleLen(f) /\ c = Len(pad) /\ c = ClosePadLen(f)
        /\ t = Len(tail) /\ t = TailLen(f) /\ n = PartCount(f)
        /\ e = Len(BoundaryBytes) /\ e = BoundaryLen
  <2>1. Len(pre) \in Nat /\ Len(pad) \in Nat /\ Len(tail) \in Nat
    OBVIOUS
  <2>2. Len(pre) = PreambleLen(f) /\ Len(pad) = ClosePadLen(f) /\ Len(tail) = TailLen(f)
    BY <1>1 DEF PreambleLen, ClosePadLen, TailLen
  <2>3. PartCount(f) \in Nat /\ Len(BoundaryBytes) \in Nat /\ Len(BoundaryBytes) = BoundaryLen
    BY BytesOfMarks, BoundariesInOrder DEF BoundaryLen
  <2> QED BY <2>1, <2>2, <2>3, Zenon
<1>3. PICK g, gn : /\ Concatenates(g, Pieces(f.parts, n), n)
                   /\ gn \in Seq(Bytes) /\ gn = g[n] /\ gn = EncodeParts(f.parts)
                   /\ \A k \in 1..(n + 1) : /\ g[k - 1] \in Seq(Bytes)
                                            /\ BoundaryAt(f, k) = p + Len(g[k - 1])
  BY <1>2, BoundariesPlaced
<1>4. PICK close \in Nat : close = p + Len(gn) + e /\ close = CloseAt(f)
                           /\ BoundaryAt(f, n + 1) = p + Len(gn)
  <2>1. n + 1 \in 1..(n + 1) /\ (n + 1) - 1 = n
    OBVIOUS
  <2>2. BoundaryAt(f, n + 1) = p + Len(gn)
    BY <1>3, <2>1
  <2>3. p + Len(gn) + e \in Nat
    BY <1>3
  <2> QED BY <1>2, <2>2, <2>3 DEF CloseAt
<1>5. PICK w1, w2, w3, w4, w :
        /\ Joins(pre, gn, w1) /\ Joins(w1, BoundaryBytes, w2) /\ Joins(w2, BOUNDARY_EXT, w3)
        /\ Joins(w3, pad, w4) /\ Joins(w4, tail, w)
  <2>1. PICK w1 : Joins(pre, gn, w1)
    BY <1>3, JoinedPieces
  <2>2. PICK w2 : Joins(w1, BoundaryBytes, w2)
    BY <2>1, BytesOfMarks, JoinedPieces, JoinedLengths
  <2>3. PICK w3 : Joins(w2, BOUNDARY_EXT, w3)
    BY <2>2, BytesOfMarks, JoinedPieces, JoinedLengths
  <2>4. PICK w4 : Joins(w3, pad, w4)
    BY <2>3, JoinedPieces, JoinedLengths
  <2>5. PICK w : Joins(w4, tail, w)
    BY <2>4, JoinedPieces, JoinedLengths
  <2> QED BY <2>1, <2>2, <2>3, <2>4, <2>5
<1>10. w3 = BeforeClose(f) /\ w = Complete(f) /\ w \in Seq(Bytes)
  BY <1>1, <1>3, <1>5 DEF BeforeClose, Complete, Joins
<1>11. Len(w1) \in Nat /\ Len(w1) + e = close /\ Len(w2) = close /\ Len(w3) = close + 2
       /\ Len(w4) = close + 2 + c /\ Len(w) = close + 2 + c + t /\ Len(w1) = p + Len(gn)
  <2>1. Len(w1) = Len(pre) + Len(gn) /\ Len(gn) \in Nat
    BY <1>5, JoinedLengths
  <2>2. Len(w2) = Len(w1) + Len(BoundaryBytes)
    BY <1>5, JoinedLengths
  <2>3. Len(w3) = Len(w2) + Len(BOUNDARY_EXT)
    BY <1>5, JoinedLengths
  <2>4. Len(w4) = Len(w3) + Len(pad)
    BY <1>5, JoinedLengths
  <2>5. Len(w) = Len(w4) + Len(tail)
    BY <1>5, JoinedLengths
  <2>6. Len(w1) = p + Len(gn) /\ Len(w1) \in Nat
    <3>1. Len(w1) = p + Len(gn)
      BY <1>2, <2>1, Zenon
    <3>2. Len(w1) \in Nat
      BY <1>5, JoinedLengths
    <3> QED BY <3>1, <3>2
  <2>7. Len(w1) + e = close
    BY <1>4, <2>6
  <2>8. Len(w2) = close
    BY <1>2, <2>2, <2>7
  <2>9. Len(w3) = close + 2
    BY <2>3, <2>8, BytesOfMarks
  <2>10. Len(w4) = close + 2 + c
    BY <1>2, <2>4, <2>9
  <2>11. Len(w) = close + 2 + c + t
    BY <1>2, <2>5, <2>10
  <2> QED BY <2>6, <2>7, <2>8, <2>9, <2>10, <2>11
<1>12. Matches(w, 0, w4) /\ Matches(w, close + 2 + c, tail)
  <2>1. Matches(w, 0, w)
    BY <1>10, MatchesItself
  <2>2. Matches(w, 0, w4) /\ Matches(w, 0 + Len(w4), tail)
    BY <1>5, <2>1, SplitMatch
  <2>3. 0 + Len(w4) = close + 2 + c
    BY <1>11
  <2> QED BY <2>2, <2>3
<1>13. Matches(w, 0, w3) /\ Matches(w, close + 2, pad)
  <2>1. Matches(w, 0, w3) /\ Matches(w, 0 + Len(w3), pad)
    BY <1>5, <1>12, SplitMatch
  <2>2. 0 + Len(w3) = close + 2
    BY <1>11
  <2> QED BY <2>1, <2>2
<1>14. Matches(w, 0, w2) /\ Matches(w, close, BOUNDARY_EXT)
  <2>1. Matches(w, 0, w2) /\ Matches(w, 0 + Len(w2), BOUNDARY_EXT)
    BY <1>5, <1>13, SplitMatch
  <2>2. 0 + Len(w2) = close
    BY <1>11
  <2> QED BY <2>1, <2>2
<1>15. Matches(w, 0, w1) /\ Matches(w, Len(w1), BoundaryBytes)
  <2>1. Matches(w, 0, w1) /\ Matches(w, 0 + Len(w1), BoundaryBytes)
    BY <1>5, <1>14, SplitMatch
  <2>2. 0 + Len(w1) = Len(w1)
    BY <1>11
  <2> QED BY <2>1, <2>2
<1>16. Matches(w, 0, pre) /\ Matches(w, p, gn)
  <2>1. Matches(w, 0, pre) /\ Matches(w, 0 + Len(pre), gn)
    BY <1>5, <1>15, SplitMatch
  <2>2. 0 + Len(pre) = p
    BY <1>2
  <2> QED BY <2>1, <2>2
<1>17. ASSUME NEW k \in 1..n
       PROVE  PieceAt(w, BoundaryAt(f, k), f.parts[k])
  <2>1. f.parts \in Seq(PartType) /\ Len(f.parts) = n
    BY <1>2 DEF FormType, PartType, PartCount
  <2>2. f.parts[k] \in PartType /\ Stands(g[k - 1], Piece(f.parts[k]), g[k], g[n])
    BY <1>3, <2>1, PiecePlaced
  <2>3. PICK part \in PartType, x, y, z \in Seq(Bytes) :
          /\ part = f.parts[k] /\ x = g[k - 1] /\ y = g[k] /\ z = Piece(part)
          /\ y = x \o z /\ IsPrefix(y, gn)
    BY <1>3, <2>2 DEF Stands
  <2>4. Matches(w, p, y)
    BY <1>3, <1>16, <2>3, PrefixMatches
  <2>5. Matches(w, p + Len(x), z) /\ p + Len(x) \in Nat
    <3>1. Joins(x, z, y)
      BY <2>3, ConcatProperties DEF Joins
    <3>2. p + Len(x) \in Nat
      OBVIOUS
    <3> QED BY <2>4, <3>1, <3>2, SplitMatch
  <2>6. PieceAt(w, p + Len(x), part)
    BY <2>3, <2>5, PieceLayout
  <2>7. k \in 1..(n + 1)
    OBVIOUS
  <2>8. BoundaryAt(f, k) = p + Len(x)
    BY <1>3, <2>3, <2>7
  <2> QED BY <2>3, <2>6, <2>8
<1>18. Len(w1) = BoundaryAt(f, n + 1)
  BY <1>4, <1>11
<1>19. Laid(w, f)
  BY <1>1, <1>2, <1>4, <1>12, <1>13, <1>14, <1>15, <1>16, <1>17, <1>18 DEF Laid
<1> QED BY <1>2, <1>4, <1>10, <1>11, <1>19

-----------------------------------------------------------------------------
(* What arrives of the body *)

PadAt(f, k)     == BoundaryAt(f, k) + BoundaryLen
HeadersAt(f, k) == PadAt(f, k) + PadLen(f.parts[k]) + 2
DataAt(f, k)    == BoundaryAt(f, k) + OpenLen(f.parts[k])
DataEnd(f, k)   == DataAt(f, k) + DataLen(f.parts[k])

LEMMA BoundaryPositions ==
  ASSUME NEW f \in FormType, NEW k \in 1..(PartCount(f) + 1)
  PROVE  /\ BoundaryAt(f, k) \in Nat /\ BoundaryLen \in Nat /\ PadAt(f, k) \in Nat
         /\ BoundaryLen >= 2 /\ PadAt(f, k) = BoundaryAt(f, k) + BoundaryLen
         /\ k = PartCount(f) + 1 => CloseAt(f) = PadAt(f, k)
<1>1. BoundaryAt(f, k) \in Nat
  BY BoundariesInOrder DEF BoundariesFollow
<1>2. BoundaryLen \in Nat /\ BoundaryLen >= 2
  BY BytesOfMarks DEF BoundaryLen
<1> QED BY <1>1, <1>2 DEF PadAt, CloseAt

LEMMA PartPositions ==
  ASSUME NEW f \in FormType, NEW k \in 1..PartCount(f)
  PROVE  /\ f.parts[k] \in PartType
         /\ PadLen(f.parts[k]) \in Nat /\ DataLen(f.parts[k]) \in Nat
         /\ LineCount(f.parts[k].lines) \in Nat
         /\ HeadersAt(f, k) \in Nat /\ DataAt(f, k) \in Nat /\ DataEnd(f, k) \in Nat
         /\ HeadersAt(f, k) = PadAt(f, k) + PadLen(f.parts[k]) + 2
         /\ DataAt(f, k) = HeadersAt(f, k) + 3 * LineCount(f.parts[k].lines) + 2
         /\ DataAt(f, k) = BoundaryAt(f, k) + OpenLen(f.parts[k])
         /\ DataEnd(f, k) = DataAt(f, k) + DataLen(f.parts[k])
         /\ BoundaryAt(f, k + 1) = DataEnd(f, k) + 2
<1>1. PartCount(f) \in Nat /\ BoundariesFollow(f)
  BY BoundariesInOrder
<1>2. k \in 1..(PartCount(f) + 1)
  BY <1>1
<1>3. PICK part \in PartType :
        /\ part = f.parts[k]
        /\ BoundaryAt(f, k + 1) = BoundaryAt(f, k) + OpenLen(part) + DataLen(part) + 2
  BY <1>1 DEF BoundariesFollow
<1>4. PICK p, d, m, at, c \in Nat :
        /\ p = PadLen(part) /\ d = DataLen(part) /\ m = LineCount(part.lines)
        /\ at = BoundaryAt(f, k) /\ c = BoundaryLen
  <2>1. PadLen(part) \in Nat /\ DataLen(part) \in Nat /\ LineCount(part.lines) \in Nat
    BY PieceLayout
  <2>2. BoundaryAt(f, k) \in Nat /\ BoundaryLen \in Nat
    BY <1>2, BoundaryPositions
  <2> QED BY <2>1, <2>2, Zenon
<1>5. OpenLen(part) = c + p + 2 + 3 * m + 2
  BY <1>4 DEF OpenLen
<1>6. /\ PadAt(f, k) = at + c /\ HeadersAt(f, k) = at + c + p + 2
      /\ DataAt(f, k) = at + (c + p + 2 + 3 * m + 2)
      /\ DataEnd(f, k) = at + (c + p + 2 + 3 * m + 2) + d
  BY <1>3, <1>4, <1>5 DEF PadAt, HeadersAt, DataAt, DataEnd
<1>7. BoundaryAt(f, k + 1) = at + (c + p + 2 + 3 * m + 2) + d + 2
  BY <1>3, <1>4, <1>5
<1> QED BY <1>3, <1>4, <1>5, <1>6, <1>7

\* The bytes of pat stand at position at, as far as s goes.
Shows(s, at, pat) == \A i \in 1..Len(pat) : at + i <= Len(s) => s[at + i] = pat[i]

PieceShown(s, f, k) ==
  /\ Shows(s, PadAt(f, k), f.parts[k].pad)
  /\ Shows(s, PadAt(f, k) + PadLen(f.parts[k]), CRLF)
  /\ Shows(s, HeadersAt(f, k), HeaderBlock(f.parts[k].lines))
  /\ Shows(s, DataAt(f, k), f.parts[k].data)
  /\ Shows(s, DataEnd(f, k), CRLF)

BodyShown(s, f) ==
  /\ Shows(s, 0, f.preamble)
  /\ \A k \in 1..PartCount(f) : PieceShown(s, f, k)
  /\ \A k \in 1..(PartCount(f) + 1) : Shows(s, BoundaryAt(f, k), BoundaryBytes)
  /\ Shows(s, CloseAt(f), BOUNDARY_EXT)
  /\ Shows(s, CloseAt(f) + 2, f.close_pad)
  /\ Shows(s, CloseAt(f) + 2 + ClosePadLen(f), f.tail)

LEMMA EncodedPrefix ==
  ASSUME NEW f \in FormType, f.drop <= Len(Complete(f))
  PROVE  /\ Encode(f) \in Seq(Bytes) /\ Len(Encode(f)) <= Len(Complete(f))
         /\ \A i \in 1..Len(Encode(f)) : Encode(f)[i] = Complete(f)[i]
<1>1. PICK w \in Seq(Bytes), d \in Nat : w = Complete(f) /\ d = f.drop /\ d <= Len(w)
  BY WholeLayout DEF FormType
<1>2. PICK n \in 0..Len(w) : n = Len(w) - d
  BY <1>1
<1>3. /\ SubSeq(w, 1, n) \in Seq(Bytes) /\ Len(SubSeq(w, 1, n)) = n
      /\ \A i \in 1..n : SubSeq(w, 1, n)[i] = w[i]
  BY <1>2
<1>4. Encode(f) = SubSeq(w, 1, n)
  BY <1>1, <1>2 DEF Encode
<1> QED BY <1>1, <1>2, <1>3, <1>4

LEMMA BodyLayout ==
  ASSUME NEW f \in FormType, f.drop <= Len(Complete(f))
  PROVE  BodyShown(Encode(f), f)
<1>1. PICK s, w \in Seq(Bytes) :
        /\ s = Encode(f) /\ w = Complete(f) /\ Len(s) <= Len(w)
        /\ \A i \in 1..Len(s) : s[i] = w[i]
  BY EncodedPrefix, WholeLayout
<1>2. ASSUME NEW at \in Nat, NEW pat, Matches(w, at, pat)
      PROVE  Shows(s, at, pat)
  BY <1>1, <1>2 DEF Shows, Matches
<1>3. Laid(w, f) /\ CloseAt(f) \in Nat /\ ClosePadLen(f) \in Nat /\ PartCount(f) \in Nat
  BY <1>1, WholeLayout, BoundariesInOrder
<1>4. ASSUME NEW k \in 1..PartCount(f)
      PROVE  PieceShown(s, f, k) /\ Shows(s, BoundaryAt(f, k), BoundaryBytes)
  <2>1. PieceAt(w, BoundaryAt(f, k), f.parts[k])
    BY <1>3 DEF Laid
  <2>2. k \in 1..(PartCount(f) + 1)
    BY <1>3
  <2>3. /\ BoundaryAt(f, k) \in Nat /\ PadAt(f, k) \in Nat
        /\ PadAt(f, k) = BoundaryAt(f, k) + BoundaryLen
    BY <2>2, BoundaryPositions
  <2>4. /\ PadLen(f.parts[k]) \in Nat /\ HeadersAt(f, k) \in Nat /\ DataAt(f, k) \in Nat
        /\ DataEnd(f, k) \in Nat
        /\ HeadersAt(f, k) = PadAt(f, k) + PadLen(f.parts[k]) + 2
        /\ DataAt(f, k) = BoundaryAt(f, k) + OpenLen(f.parts[k])
        /\ DataEnd(f, k) = DataAt(f, k) + DataLen(f.parts[k])
    BY PartPositions
  <2>5. /\ Matches(w, BoundaryAt(f, k), BoundaryBytes)
        /\ Matches(w, PadAt(f, k), f.parts[k].pad)
        /\ Matches(w, PadAt(f, k) + PadLen(f.parts[k]), CRLF)
        /\ Matches(w, HeadersAt(f, k), HeaderBlock(f.parts[k].lines))
        /\ Matches(w, DataAt(f, k), f.parts[k].data)
        /\ Matches(w, DataEnd(f, k), CRLF)
    BY <2>1, <2>3, <2>4 DEF PieceAt
  <2>6. PadAt(f, k) + PadLen(f.parts[k]) \in Nat
    BY <2>3, <2>4
  <2> QED BY <1>2, <2>3, <2>4, <2>5, <2>6 DEF PieceShown
<1>5. Shows(s, BoundaryAt(f, PartCount(f) + 1), BoundaryBytes)
  <2>1. PartCount(f) + 1 \in 1..(PartCount(f) + 1)
    BY <1>3
  <2>2. BoundaryAt(f, PartCount(f) + 1) \in Nat
    BY <2>1, BoundaryPositions
  <2> QED BY <1>2, <1>3, <2>2 DEF Laid
<1>6. \A k \in 1..(PartCount(f) + 1) : Shows(s, BoundaryAt(f, k), BoundaryBytes)
  <2>1. \A k \in 1..(PartCount(f) + 1) : k \in 1..PartCount(f) \/ k = PartCount(f) + 1
    BY <1>3
  <2> QED BY <1>4, <1>5, <2>1
<1>7. /\ Shows(s, 0, f.preamble) /\ Shows(s, CloseAt(f), BOUNDARY_EXT)
      /\ Shows(s, CloseAt(f) + 2, f.close_pad)
      /\ Shows(s, CloseAt(f) + 2 + ClosePadLen(f), f.tail)
  <2>1. CloseAt(f) + 2 \in Nat /\ CloseAt(f) + 2 + ClosePadLen(f) \in Nat
    BY <1>3
  <2> QED BY <1>2, <1>3, <2>1 DEF Laid
<1> QED BY <1>1, <1>4, <1>6, <1>7 DEF BodyShown

-----------------------------------------------------------------------------
(* Searching the body *)

\* pat stands at position till of s, as far as s goes, and nowhere before it.
DelimitedBy(s, from, till, pat) ==
  /\ Shows(s, till, pat)
  /\ \A at \in from..(till - 1) : at + Len(pat) <= Len(s) => ~Matches(s, at, pat)

LEMMA ShownMatches ==
  ASSUME NEW s \in Seq(Bytes), NEW at \in Nat, NEW pat \in Seq(Bytes), Shows(s, at, pat),
         at + Len(pat) <= Len(s)
  PROVE  Matches(s, at, pat)
  BY DEF Shows, Matches

LEMMA DelimiterFound ==
  ASSUME NEW s \in Seq(Bytes), NEW from \in Nat, NEW till \in Nat, NEW pat \in Seq(Bytes),
         DelimitedBy(s, from, till, pat),
         NEW lo \in from..till, NEW hi \in lo..Len(s)
  PROVE  \/ till + Len(pat) <= hi /\ Find(s, lo, hi, pat) = till
         \/ till + Len(pat) > hi /\ Find(s, lo, hi, pat) = NotFound
<1>1. Len(pat) \in Nat /\ Len(s) \in Nat /\ lo \in Nat /\ hi \in Int /\ hi <= Len(s)
  OBVIOUS
<1>2. PICK at : at = Find(s, lo, hi, pat)
  OBVIOUS
<1>3. \/ at = NotFound /\ Occurrences(s, lo, hi, pat) = {}
      \/ /\ at \in Occurrences(s, lo, hi, pat)
         /\ \A j \in Occurrences(s, lo, hi, pat) : at <= j
  BY <1>1, <1>2, FindIsFirst
<1>4. ASSUME NEW j \in Occurrences(s, lo, hi, pat)
      PROVE  j \in Int /\ j >= till /\ j + Len(pat) <= hi
  <2>1. j \in lo..(hi - Len(pat)) /\ Matches(s, j, pat)
    BY DEF Occurrences
  <2>2. j \in Nat /\ j >= from /\ j + Len(pat) <= hi
    BY <1>1, <2>1
  <2>3. j + Len(pat) <= Len(s)
    BY <1>1, <2>2
  <2>4. j \notin from..(till - 1)
    BY <2>1, <2>3 DEF DelimitedBy
  <2> QED BY <2>2, <2>4
<1>5. CASE till + Len(pat) <= hi
  <2>1. Matches(s, till, pat)
    BY <1>1, <1>5, ShownMatches DEF DelimitedBy
  <2>2. till \in Occurrences(s, lo, hi, pat)
    BY <1>1, <1>5, <2>1 DEF Occurrences
  <2>3. at <= till /\ at >= till /\ at \in Int
    BY <1>3, <1>4, <2>2
  <2> QED BY <1>2, <1>5, <2>3
<1>6. CASE till + Len(pat) > hi
  <2>1. at \notin Occurrences(s, lo, hi, pat)
    BY <1>1, <1>4, <1>6
  <2> QED BY <1>2, <1>3, <1>6, <2>1
<1> QED BY <1>1, <1>5, <1>6

\* What is held back before the delimiter is all there is no data.
LEMMA VisibleBefore ==
  ASSUME NEW s \in Seq(Bytes), NEW till \in Nat, NEW pat \in Seq(Bytes), Len(pat) >= 1,
         Shows(s, till, pat),
         NEW lo \in 0..till, NEW hi \in lo..Len(s), hi < till + Len(pat)
  PROVE  /\ PartialSuffixLen(s, lo, hi, pat) \in Nat
         /\ hi - PartialSuffixLen(s, lo, hi, pat) \in lo..till
<1>1. Len(pat) \in Nat \ {0} /\ Len(s) \in Nat /\ lo \in Nat /\ hi \in Nat /\ lo <= hi /\ hi <= Len(s)
  OBVIOUS
<1>2. PICK n : n = PartialSuffixLen(s, lo, hi, pat)
  OBVIOUS
<1>3. /\ n \in PartialSuffixes(s, lo, hi, pat)
      /\ \A m \in PartialSuffixes(s, lo, hi, pat) : m <= n
  BY <1>1, <1>2, PartialSuffixIsLongest
<1>4. n \in Nat /\ n <= hi - lo
  BY <1>1, <1>3 DEF PartialSuffixes
<1>5. CASE hi <= till
  BY <1>1, <1>2, <1>4, <1>5
<1>6. CASE hi > till
  <2>1. PICK m \in Nat : m = hi - till /\ m \in 0..(Len(pat) - 1) /\ hi - m = till
                         /\ m <= hi - lo /\ m <= Len(pat)
    BY <1>1, <1>6
  <2>2. /\ Len(SubSeq(pat, 1, m)) = m
        /\ \A i \in 1..m : SubSeq(pat, 1, m)[i] = pat[i]
    BY <2>1
  <2>3. \A i \in 1..m : s[till + i] = pat[i]
    BY <1>1, <2>1 DEF Shows
  <2>4. Matches(s, hi - m, SubSeq(pat, 1, m))
    BY <2>1, <2>2, <2>3 DEF Matches
  <2>5. m \in PartialSuffixes(s, lo, hi, pat)
    BY <2>1, <2>4 DEF PartialSuffixes
  <2>6. m <= n
    BY <1>3, <2>5
  <2> QED BY <1>1, <1>2, <1>4, <2>1, <2>6
<1> QED BY <1>1, <1>5, <1>6

LEMMA ShowsConcat ==
  ASSUME NEW s, NEW at \in Nat, NEW p \in Seq(Bytes), NEW q \in Seq(Bytes),
         Shows(s, at, p), Shows(s, at + Len(p), q)
  PROVE  Shows(s, at, p \o q)
<1>1. PICK c \in Seq(Bytes) :
        /\ c = p \o q /\ Len(c) = Len(p) + Len(q)
        /\ \A i \in 1..Len(p) : c[i] = p[i]
        /\ \A i \in 1..Len(q) : c[Len(p) + i] = q[i]
  BY Joined
<1>2. ASSUME NEW i \in 1..Len(c), at + i <= Len(s)
      PROVE  s[at + i] = c[i]
  <2>1. CASE i <= Len(p)
    BY <1>1, <1>2, <2>1 DEF Shows
  <2>2. CASE i > Len(p)
    <3>1. PICK j \in 1..Len(q) : i = Len(p) + j
      <4>1. i - Len(p) \in 1..Len(q) /\ i = Len(p) + (i - Len(p))
        BY <1>1, <2>2
      <4> QED BY <4>1
    <3>2. at + i = at + Len(p) + j
      BY <3>1
    <3> QED BY <1>1, <1>2, <3>1, <3>2 DEF Shows
  <2> QED BY <1>1, <2>1, <2>2
<1>3. Shows(s, at, c)
  BY <1>2 DEF Shows
<1> QED BY <1>1, <1>3

\* Data that does not hold the delimiter behind it, nor a part of both.
LEMMA DataDelimited ==
  ASSUME NEW s \in Seq(Bytes), NEW from \in Nat, NEW data \in Seq(Bytes), NEW pat \in Seq(Bytes),
         Shows(s, from, data), Shows(s, from + Len(data), pat),
         NEW t, t = data \o pat, Find(t, 0, Len(t), pat) = Len(data)
  PROVE  DelimitedBy(s, from, from + Len(data), pat)
<1>1. PICK c \in Seq(Bytes), d \in Nat, p \in Nat :
        c = t /\ d = Len(data) /\ p = Len(pat) /\ Len(c) = d + p /\ Shows(s, from, c)
  <2>1. data \o pat \in Seq(Bytes) /\ Len(data \o pat) = Len(data) + Len(pat)
    BY ConcatProperties
  <2>2. Shows(s, from, data \o pat)
    BY ShowsConcat
  <2>3. Len(data) \in Nat /\ Len(pat) \in Nat
    OBVIOUS
  <2> QED BY <2>1, <2>2, <2>3
<1>2. ASSUME NEW at \in from..(from + d - 1), at + p <= Len(s), Matches(s, at, pat)
      PROVE  FALSE
  <2>1. PICK o \in 0..(d - 1) : at = from + o
    <3>1. at - from \in 0..(d - 1) /\ at = from + (at - from)
      BY <1>1
    <3> QED BY <3>1
  <2>2. ASSUME NEW i \in 1..p PROVE c[o + i] = pat[i]
    <3>1. o + i \in 1..Len(c) /\ from + (o + i) = at + i /\ at + i <= Len(s)
      BY <1>1, <1>2, <2>1
    <3>2. s[at + i] = pat[i]
      BY <1>1, <1>2 DEF Matches
    <3> QED BY <1>1, <3>1, <3>2 DEF Shows
  <2>3. Matches(c, o, pat)
    BY <1>1, <2>2 DEF Matches
  <2>4. o \in Occurrences(c, 0, Len(c), pat)
    BY <1>1, <2>1, <2>3 DEF Occurrences
  <2>5. Find(c, 0, Len(c), pat) <= o
    <3>1. Len(c) \in Int /\ Len(pat) \in Nat
      OBVIOUS
    <3> QED BY <2>4, <3>1, FindIsFirst
  <2> QED BY <1>1, <2>1, <2>5
<1> QED BY <1>1, <1>2 DEF DelimitedBy

-----------------------------------------------------------------------------
(* What a search finds in the body of a form *)

LEMMA FieldDelimited ==
  ASSUME NEW f, Unambiguous(f), NEW k \in 1..PartCount(f)
  PROVE  DelimitedBy(Encode(f), DataAt(f, k), DataEnd(f, k), FieldBoundary)
<1>1. f \in FormType /\ f.drop <= Len(Complete(f)) /\ Clean(f.parts[k].data)
  <2>1. DOMAIN f.parts = 1..PartCount(f)
    BY DEF Unambiguous, FormType, PartCount
  <2> QED BY <2>1 DEF Unambiguous, UnambiguousPart
<1>2. PICK s \in Seq(Bytes) : s = Encode(f) /\ BodyShown(s, f)
  BY <1>1, EncodedPrefix, BodyLayout
<1>3. PICK data \in Seq(Bytes), from, till \in Nat :
        /\ data = f.parts[k].data /\ from = DataAt(f, k) /\ till = DataEnd(f, k)
        /\ till = from + Len(data) /\ BoundaryAt(f, k + 1) = till + Len(CRLF)
  <2>1. f.parts[k].data \in Seq(Bytes) /\ DataLen(f.parts[k]) = Len(f.parts[k].data)
    BY <1>1, PartPositions DEF PartType, DataLen
  <2>2. /\ DataAt(f, k) \in Nat /\ DataEnd(f, k) \in Nat
        /\ DataEnd(f, k) = DataAt(f, k) + DataLen(f.parts[k])
        /\ BoundaryAt(f, k + 1) = DataEnd(f, k) + 2
    BY <1>1, PartPositions
  <2>3. DataEnd(f, k) = DataAt(f, k) + Len(f.parts[k].data)
    BY <2>1, <2>2, Zenon
  <2>4. BoundaryAt(f, k + 1) = DataEnd(f, k) + Len(CRLF)
    BY <2>2, BytesOfMarks, Zenon
  <2> QED BY <2>1, <2>2, <2>3, <2>4, Zenon
<1>4. Shows(s, from, data) /\ Shows(s, till, CRLF) /\ Shows(s, till + Len(CRLF), BoundaryBytes)
  <2>1. PieceShown(s, f, k)
    BY <1>2 DEF BodyShown
  <2>2. k + 1 \in 1..(PartCount(f) + 1)
    BY <1>1, BoundariesInOrder
  <2>3. Shows(s, BoundaryAt(f, k + 1), BoundaryBytes)
    BY <1>2, <2>2 DEF BodyShown
  <2> QED BY <1>3, <2>1, <2>3 DEF PieceShown
<1>5. Shows(s, till, FieldBoundary)
  <2>1. Shows(s, till, CRLF \o BoundaryBytes)
    BY <1>4, BytesOfMarks, ShowsConcat
  <2> QED BY <2>1 DEF FieldBoundary
<1>6. PICK t : t = data \o FieldBoundary /\ Find(t, 0, Len(t), FieldBoundary) = Len(data)
  BY <1>1, <1>3 DEF Clean
<1>7. DelimitedBy(s, from, from + Len(data), FieldBoundary)
  <2>1. Shows(s, from + Len(data), FieldBoundary)
    BY <1>3, <1>5
  <2> QED BY <1>4, <1>6, <2>1, BytesOfMarks, DataDelimited
<1> QED BY <1>2, <1>3, <1>7

LEMMA BlankLineFirst ==
  ASSUME NEW s, NEW at \in Nat, NEW lines \in Seq(Bytes), lines # << >>, OneLine(lines),
         NEW h \in Seq(Bytes), BlockOf(h, lines), Shows(s, at, h)
  PROVE  /\ LineCount(lines) >= 1
         /\ DelimitedBy(s, at, at + 3 * LineCount(lines) - 2, CRLF_CRLF)
<1>0. PICK m \in Nat : m = LineCount(lines)
  BY DEF LineCount
<1>1. m >= 1 /\ \A j \in 1..m : lines[j] # "CR" /\ lines[j] # "LF"
  <2>1. m = Len(lines) /\ DOMAIN lines = 1..m
    BY <1>0 DEF LineCount
  <2>2. m >= 1
    BY <2>1, EmptySeq
  <2> QED BY <2>1, <2>2 DEF OneLine, Range
<1>2. /\ Len(h) = 3 * m + 2 /\ h[3 * m + 1] = "CR" /\ h[3 * m + 2] = "LF"
      /\ \A j \in 1..m : h[3 * j - 2] = lines[j] /\ h[3 * j - 1] = "CR" /\ h[3 * j] = "LF"
  BY <1>0 DEF BlockOf
<1>3. Len(CRLF_CRLF) = 4 /\ CRLF_CRLF[1] = "CR" /\ CRLF_CRLF[2] = "LF" /\ CRLF_CRLF[3] = "CR"
      /\ CRLF_CRLF[4] = "LF"
  BY DEF CRLF_CRLF
<1>4. Shows(s, at + 3 * m - 2, CRLF_CRLF)
  <2>1. ASSUME NEW i \in 1..4, at + 3 * m - 2 + i <= Len(s)
        PROVE  s[at + 3 * m - 2 + i] = CRLF_CRLF[i]
    <3>1. PICK o \in 1..Len(h) : o = 3 * m - 2 + i /\ at + o = at + 3 * m - 2 + i
      <4>1. 3 * m - 2 + i \in 1..Len(h) /\ at + (3 * m - 2 + i) = at + 3 * m - 2 + i
        BY <1>1, <1>2
      <4> QED BY <4>1, Zenon
    <3>2. s[at + o] = h[o]
      BY <2>1, <3>1 DEF Shows
    <3>3. h[3 * m - 1] = "CR" /\ h[3 * m] = "LF"
      <4>1. m \in 1..m
        BY <1>1
      <4> QED BY <1>2, <4>1
    <3>4. h[o] = CRLF_CRLF[i]
      <4>1. CASE i = 1
        BY <1>3, <3>1, <3>3, <4>1
      <4>2. CASE i = 2
        BY <1>3, <3>1, <3>3, <4>2
      <4>3. CASE i = 3
        BY <1>2, <1>3, <3>1, <4>3
      <4>4. CASE i = 4
        BY <1>2, <1>3, <3>1, <4>4
      <4> QED BY <4>1, <4>2, <4>3, <4>4
    <3> QED BY <3>1, <3>2, <3>4
  <2> QED BY <1>3, <2>1 DEF Shows
<1>5. ASSUME NEW o \in 0..(3 * m - 3), at + o + 4 <= Len(s), Matches(s, at + o, CRLF_CRLF)
      PROVE  FALSE
  <2>1. s[at + o + 1] = "CR" /\ s[at + o + 3] = "CR"
    BY <1>3, <1>5 DEF Matches
  <2>2. /\ o + 1 \in 1..Len(h) /\ o + 3 \in 1..Len(h) /\ at + (o + 1) = at + o + 1
        /\ at + (o + 3) = at + o + 3 /\ at + o + 1 <= Len(s) /\ at + o + 3 <= Len(s)
    BY <1>2, <1>5
  <2>3. h[o + 1] = "CR" /\ h[o + 3] = "CR"
    BY <2>1, <2>2 DEF Shows
  <2>4. PICK j \in 1..m : o + 1 = 3 * j - 2 \/ o + 1 = 3 * j - 1 \/ o + 1 = 3 * j
    <3>1. (o \div 3) + 1 \in 1..m
      OBVIOUS
    <3>2. \/ o + 1 = 3 * ((o \div 3) + 1) - 2 \/ o + 1 = 3 * ((o \div 3) + 1) - 1
          \/ o + 1 = 3 * ((o \div 3) + 1)
      OBVIOUS
    <3> QED BY <3>1, <3>2
  <2>5. CASE o + 1 = 3 * j - 2
    BY <1>1, <1>2, <2>3, <2>5
  <2>6. CASE o + 1 = 3 * j - 1
    <3>1. j + 1 \in 1..m /\ o + 3 = 3 * (j + 1) - 2
      BY <2>6
    <3>2. h[o + 3] = lines[j + 1] /\ lines[j + 1] # "CR"
      BY <1>1, <1>2, <3>1
    <3> QED BY <2>3, <3>2
  <2>7. CASE o + 1 = 3 * j
    BY <1>2, <2>3, <2>7
  <2> QED BY <2>4, <2>5, <2>6, <2>7
<1>6. ASSUME NEW x \in at..(at + 3 * m - 2 - 1), x + Len(CRLF_CRLF) <= Len(s)
      PROVE  ~Matches(s, x, CRLF_CRLF)
  <2>1. PICK o \in 0..(3 * m - 3) : x = at + o
    <3>1. x - at \in 0..(3 * m - 3) /\ x = at + (x - at)
      BY <1>1
    <3> QED BY <3>1
  <2> QED BY <1>3, <1>5, <1>6, <2>1
<1>7. m >= 1 /\ DelimitedBy(s, at, at + 3 * m - 2, CRLF_CRLF)
  BY <1>1, <1>4, <1>6 DEF DelimitedBy
<1> QED BY <1>0, <1>7

LEMMA UnambiguousParts ==
  ASSUME NEW f, Unambiguous(f)
  PROVE  /\ f \in FormType /\ f.drop <= Len(Complete(f)) /\ PreambleOK(f)
         /\ OneLine(f.close_pad) /\ (f.tail # << >> => f.tail[1] \notin Padding)
         /\ \A k \in 1..PartCount(f) : UnambiguousPart(f.parts[k]) /\ f.parts[k] \in PartType
<1>1. f \in FormType
  BY DEF Unambiguous
<1>2. DOMAIN f.parts = 1..PartCount(f)
  BY <1>1 DEF FormType, PartCount
<1>3. \A k \in 1..PartCount(f) : f.parts[k] \in PartType
  BY <1>1, PartPositions
<1> QED BY <1>1, <1>2, <1>3 DEF Unambiguous

LEMMA HeadersDelimited ==
  ASSUME NEW f, Unambiguous(f), NEW k \in 1..PartCount(f)
  PROVE  /\ DataAt(f, k) - 4 >= HeadersAt(f, k)
         /\ DelimitedBy(Encode(f), HeadersAt(f, k), DataAt(f, k) - 4, CRLF_CRLF)
<1>1. /\ f \in FormType /\ f.drop <= Len(Complete(f))
      /\ UnambiguousPart(f.parts[k]) /\ f.parts[k] \in PartType
  BY UnambiguousParts
<1>2. PICK s \in Seq(Bytes) : s = Encode(f) /\ BodyShown(s, f)
  BY <1>1, EncodedPrefix, BodyLayout
<1>3. PICK lines \in Seq(Bytes) : lines = f.parts[k].lines /\ lines # << >> /\ OneLine(lines)
  BY <1>1 DEF PartType, UnambiguousPart
<1>4. PICK h \in Seq(Bytes) : h = HeaderBlock(lines) /\ BlockOf(h, lines)
  BY HeaderBlockLayout
<1>5. PICK at, till, m \in Nat :
        at = HeadersAt(f, k) /\ till = DataAt(f, k) /\ m = LineCount(lines) /\ till = at + 3 * m + 2
  <2>1. LineCount(lines) = LineCount(f.parts[k].lines)
    BY <1>3
  <2> QED BY <1>1, <2>1, PartPositions
<1>6. Shows(s, at, h)
  BY <1>2, <1>3, <1>4, <1>5 DEF BodyShown, PieceShown
<1>7. m >= 1 /\ DelimitedBy(s, at, at + 3 * m - 2, CRLF_CRLF)
  BY <1>3, <1>4, <1>5, <1>6, BlankLineFirst
<1>8. at + 3 * m - 2 = till - 4 /\ till - 4 >= at
  <2>1. till = at + 3 * m + 2 /\ m >= 1
    BY <1>5, <1>7
  <2> QED BY <2>1
<1> QED BY <1>2, <1>5, <1>7, <1>8

\* What the parser makes of a header block.
LEMMA BlockParsed ==
  ASSUME NEW lines \in Seq(Bytes), lines # << >>, OneLine(lines), NEW max_headers \in Nat
  PROVE  LET parsed == ParseHeaders(HeaderBlock(lines), max_headers)
         IN  /\ parsed.ok <=> LinesOK(lines) /\ Len(lines) <= max_headers
             /\ parsed.name = NamedBy(lines)
<1>1. PICK m \in Nat : m = LineCount(lines) /\ m = Len(lines) /\ DOMAIN lines = 1..m /\ m >= 1
  <2>1. Len(lines) \in Nat /\ DOMAIN lines = 1..Len(lines) /\ Len(lines) >= 1
    BY EmptySeq
  <2> QED BY <2>1 DEF LineCount
<1>2. PICK h \in Seq(Bytes) : h = HeaderBlock(lines) /\ BlockOf(h, lines)
  BY HeaderBlockLayout
<1>3. /\ Len(h) = 3 * m + 2
      /\ \A j \in 1..m : h[3 * j - 2] = lines[j] /\ h[3 * j - 1] = "CR" /\ h[3 * j] = "LF"
  BY <1>1, <1>2 DEF BlockOf
<1>4. Lines(h) = m /\ Len(h) % 3 = 2
  BY <1>3 DEF Lines
<1>5. ~Matches(h, 0, CRLF)
  <2>1. 1 \in 1..m /\ 3 * 1 - 2 = 1
    BY <1>1
  <2>2. h[1] = lines[1] /\ lines[1] # "CR"
    BY <1>1, <1>3, <2>1 DEF OneLine, Range
  <2>3. 1 \in 1..Len(CRLF) /\ CRLF[1] = "CR" /\ 0 + 1 = 1
    BY DEF CRLF
  <2> QED BY <2>2, <2>3 DEF Matches
<1>6. \A j \in 1..m : IsLineOf(h, j) <=> lines[j] \in Names \union {"h"}
  BY <1>3 DEF IsLineOf
<1> DEFINE naming == { j \in 1..m : lines[j] \in Names }
<1>7. { j \in 1..m : h[3 * j - 2] \in Names } = naming
  BY <1>3
<1>8. naming # {} => Max(naming) \in naming
  <2>1. naming \in SUBSET Int /\ m \in Int /\ \A x \in naming : x <= m
    OBVIOUS
  <2> HIDE DEF naming
  <2> QED BY <2>1, MaxIsGreatest, Zenon
<1>9. naming # {} => h[3 * Max(naming) - 2] = lines[Max(naming)]
  <2>1. naming # {} => Max(naming) \in 1..m
    BY <1>8
  <2> HIDE DEF naming
  <2> QED BY <1>3, <2>1
<1>10. NamedBy(lines) = IF naming = {} THEN NoName ELSE lines[Max(naming)]
  BY <1>1 DEF NamedBy
<1> HIDE DEF naming
<1>11. ParseHeaders(h, max_headers)
         = [ ok |-> (\A j \in 1..m : IsLineOf(h, j)) /\ m <= max_headers,
             name |-> IF naming = {} THEN NoName ELSE h[3 * Max(naming) - 2] ]
  BY <1>4, <1>5, <1>7 DEF ParseHeaders
<1>12. LinesOK(lines) <=> \A j \in 1..m : lines[j] \in Names \union {"h"}
  BY <1>1 DEF LinesOK
<1>13. ParseHeaders(h, max_headers).ok <=> (\A j \in 1..m : IsLineOf(h, j)) /\ m <= max_headers
  <2> DEFINE ok == (\A j \in 1..m : IsLineOf(h, j)) /\ m <= max_headers
  <2>1. ok \in BOOLEAN
    OBVIOUS
  <2>2. PICK name : ParseHeaders(h, max_headers) = [ok |-> ok, name |-> name]
    BY <1>11
  <2> HIDE DEF ok
  <2>3. ParseHeaders(h, max_headers).ok = ok
    BY <2>2
  <2> QED BY <2>3 DEF ok
<1>14. ParseHeaders(h, max_headers).name = NamedBy(lines)
  BY <1>9, <1>10, <1>11
<1>15. ParseHeaders(h, max_headers).ok <=> LinesOK(lines) /\ m <= max_headers
  BY <1>6, <1>12, <1>13
<1> QED BY <1>1, <1>2, <1>14, <1>15

-----------------------------------------------------------------------------
(* The first boundary *)

LEMMA OpeningBoundary ==
  ASSUME NEW f, Unambiguous(f), NEW s, s = Encode(f), NEW hi \in 0..Len(s), NEW start \in Nat,
         \A at \in Occurrences(s, 0, hi, BoundaryBytes) : LineStart(s, 0, at) => at >= start
  PROVE  /\ BoundaryAt(f, 1) = PreambleLen(f)
         /\ Shows(s, BoundaryAt(f, 1), BoundaryBytes)
         /\ \/ /\ PadAt(f, 1) <= hi
               /\ FirstBoundary(s, 0, start, hi, BoundaryBytes) = BoundaryAt(f, 1)
            \/ /\ PadAt(f, 1) > hi
               /\ FirstBoundary(s, 0, start, hi, BoundaryBytes) = NotFound
<1>1. /\ f \in FormType /\ f.drop <= Len(Complete(f)) /\ PreambleOK(f)
      /\ PartCount(f) \in Nat /\ BoundariesFollow(f)
  BY UnambiguousParts, BoundariesInOrder
<1>2. s \in Seq(Bytes) /\ Len(s) \in Nat /\ hi \in Nat /\ hi <= Len(s) /\ BodyShown(s, f)
  BY <1>1, EncodedPrefix, BodyLayout
<1>3. PICK pre \in Seq(Bytes), t \in Seq(Bytes), p, c \in Nat :
        /\ pre = f.preamble /\ t = pre \o BoundaryBytes /\ p = Len(pre) /\ c = BoundaryLen
        /\ c = Len(BoundaryBytes) /\ p = PreambleLen(f) /\ p = BoundaryAt(f, 1)
        /\ Len(t) = p + c /\ PadAt(f, 1) = p + c
  <2>1. f.preamble \in Seq(Bytes)
    BY <1>1 DEF FormType
  <2>2. /\ f.preamble \o BoundaryBytes \in Seq(Bytes)
        /\ Len(f.preamble \o BoundaryBytes) = Len(f.preamble) + Len(BoundaryBytes)
    BY <2>1, BytesOfMarks, ConcatProperties
  <2>3. /\ Len(f.preamble) = PreambleLen(f) /\ PreambleLen(f) = BoundaryAt(f, 1)
        /\ Len(BoundaryBytes) = BoundaryLen /\ BoundaryLen \in Nat /\ Len(f.preamble) \in Nat
    BY <1>1, <2>1, BytesOfMarks DEF PreambleLen, BoundaryLen, BoundariesFollow
  <2>4. PadAt(f, 1) = BoundaryAt(f, 1) + BoundaryLen
    BY DEF PadAt
  <2> QED BY <2>1, <2>2, <2>3, <2>4, Zenon
<1>4. Shows(s, 0, t) /\ Shows(s, p, BoundaryBytes)
  <2>1. 1 \in 1..(PartCount(f) + 1)
    BY <1>1
  <2>2. Shows(s, 0, pre) /\ Shows(s, p, BoundaryBytes)
    BY <1>2, <1>3, <2>1 DEF BodyShown
  <2>3. 0 + Len(pre) = p
    BY <1>3
  <2>4. Shows(s, 0, pre \o BoundaryBytes)
    BY <2>2, <2>3, BytesOfMarks, ShowsConcat
  <2> QED BY <1>3, <2>2, <2>4
<1>5. \A i \in 1..(p + c) : i <= Len(s) => s[i] = t[i]
  BY <1>3, <1>4 DEF Shows
<1> DEFINE S == { at \in Occurrences(s, start, hi, BoundaryBytes) : LineStart(s, 0, at) }
           T == { at \in Occurrences(t, 0, Len(t), BoundaryBytes) : LineStart(t, 0, at) }
<1>6. p \in T /\ \A x \in T : p <= x
  <2>1. FirstOf(T) = p
    BY <1>1, <1>3 DEF PreambleOK, FirstBoundary
  <2>2. T # {} /\ Min(T) = p
    BY <1>3, <2>1 DEF FirstOf, NotFound
  <2>3. T \in SUBSET Int /\ 0 \in Int /\ \A x \in T : 0 <= x
    BY DEF Occurrences
  <2> HIDE DEF T
  <2> QED BY <2>2, <2>3, MinIsLeast, Zenon
<1>7. \A x \in Nat : x + c <= p + c /\ x + c <= Len(s) =>
        /\ Matches(s, x, BoundaryBytes) <=> Matches(t, x, BoundaryBytes)
        /\ LineStart(s, 0, x) <=> LineStart(t, 0, x)
  <2> SUFFICES ASSUME NEW x \in Nat, x + c <= p + c, x + c <= Len(s)
               PROVE  /\ Matches(s, x, BoundaryBytes) <=> Matches(t, x, BoundaryBytes)
                      /\ LineStart(s, 0, x) <=> LineStart(t, 0, x)
    OBVIOUS
  <2>1. ASSUME NEW i \in 1..c PROVE s[x + i] = t[x + i]
    <3>1. x + i \in 1..(p + c) /\ x + i <= Len(s)
      BY <1>2
    <3> QED BY <1>5, <3>1
  <2>2. Matches(s, x, BoundaryBytes) <=> Matches(t, x, BoundaryBytes)
    BY <1>3, <2>1 DEF Matches
  <2>3. x >= 2 => s[(x - 2) + 1] = t[(x - 2) + 1] /\ s[(x - 2) + 2] = t[(x - 2) + 2]
    <3> SUFFICES ASSUME x >= 2
                 PROVE  s[(x - 2) + 1] = t[(x - 2) + 1] /\ s[(x - 2) + 2] = t[(x - 2) + 2]
      OBVIOUS
    <3>1. \A i \in {1, 2} : (x - 2) + i \in 1..(p + c) /\ (x - 2) + i <= Len(s)
      BY <1>2
    <3> QED BY <1>5, <3>1
  <2>4. x >= 2 => (Matches(s, x - 2, CRLF) <=> Matches(t, x - 2, CRLF))
    BY <2>3, BytesOfMarks DEF Matches
  <2>5. LineStart(s, 0, x) <=> LineStart(t, 0, x)
    BY <2>4 DEF LineStart
  <2> QED BY <2>2, <2>5
<1>8. ASSUME NEW x \in S PROVE x \in Nat /\ x >= p /\ x + c <= hi
  <2>1. x \in Nat /\ x + c <= hi /\ Matches(s, x, BoundaryBytes) /\ LineStart(s, 0, x)
    BY <1>2, <1>3 DEF Occurrences
  <2>2. CASE x < p
    <3>1. x + c <= p + c /\ x + c <= Len(s)
      BY <1>2, <1>3, <2>1, <2>2
    <3>2. Matches(t, x, BoundaryBytes) /\ LineStart(t, 0, x)
      BY <1>7, <2>1, <3>1
    <3>3. x \in 0..(Len(t) - Len(BoundaryBytes))
      BY <1>3, <2>1, <2>2
    <3>4. x \in T
      BY <3>2, <3>3 DEF Occurrences
    <3> QED BY <1>3, <1>6, <2>1, <2>2, <3>4
  <2> QED BY <1>3, <2>1, <2>2
<1>9. CASE p + c <= hi
  <2>1. Matches(t, p, BoundaryBytes) /\ LineStart(t, 0, p)
    BY <1>6 DEF Occurrences
  <2>2. Matches(s, p, BoundaryBytes) /\ LineStart(s, 0, p)
    BY <1>2, <1>3, <1>7, <1>9, <2>1
  <2>3. p \in Occurrences(s, 0, hi, BoundaryBytes)
    BY <1>2, <1>3, <1>9, <2>2 DEF Occurrences
  <2>4. p >= start
    BY <2>2, <2>3
  <2>5. p \in S
    BY <1>2, <1>3, <1>9, <2>2, <2>4 DEF Occurrences
  <2>6. S \in SUBSET Int /\ 0 \in Int /\ \A x \in S : 0 <= x
    BY <1>8
  <2>7. Min(S) \in S /\ Min(S) <= p
    <3> HIDE DEF S
    <3> QED BY <2>5, <2>6, MinIsLeast, Zenon
  <2>8. Min(S) = p
    BY <1>3, <1>8, <2>7
  <2>9. FirstBoundary(s, 0, start, hi, BoundaryBytes) = p
    BY <2>5, <2>8 DEF FirstBoundary, FirstOf
  <2> QED BY <1>3, <1>4, <1>9, <2>9
<1>10. CASE p + c > hi
  <2>1. S = {}
    BY <1>2, <1>3, <1>8, <1>10
  <2>2. FirstBoundary(s, 0, start, hi, BoundaryBytes) = NotFound
    BY <2>1 DEF FirstBoundary, FirstOf
  <2> QED BY <1>3, <1>4, <1>10, <2>2
<1> QED BY <1>2, <1>3, <1>9, <1>10

-----------------------------------------------------------------------------
(* The rest of a boundary line: padding from position from to position till *)
(* and a line end, which may be missing behind the closing boundary.        *)

LineKnown(s, from, till, closing) ==
  /\ \A at \in from..(till - 1) : at + 2 <= Len(s) => ~Matches(s, at, CRLF)
  /\ till + 1 <= Len(s) => s[till + 1] \notin Padding
  /\ ~closing => Shows(s, till, CRLF)

LineComplete(s, from, till, closing) ==
  /\ from <= Len(s)
  /\ \A i \in (from + 1)..till : i <= Len(s) => s[i] \in Padding
  /\ ~closing => till + 2 <= Len(s)
  /\ closing /\ till + 1 <= Len(s) => till + 2 <= Len(s) /\ Matches(s, till, CRLF)

\* How much padding arrives.
LineWidth(s, from, till, closing) ==
  IF closing /\ Len(s) < till THEN Len(s) - from ELSE till - from

\* What the first byte that is not padding, at end, says of the line.
LineSeen(s, from, till, closing, hi, end) ==
  /\ end <= till /\ end - from <= LineWidth(s, from, till, closing)
  /\ hi - end >= 2 /\ Matches(s, end, CRLF) =>
       /\ end = till /\ LineComplete(s, from, till, closing)
       /\ end - from = LineWidth(s, from, till, closing)
  /\ hi - end >= 2 /\ ~Matches(s, end, CRLF) => ~LineComplete(s, from, till, closing)
  /\ hi - end = 1 /\ (hi = Len(s) \/ s[hi] # "CR") => ~LineComplete(s, from, till, closing)
  /\ hi = end /\ hi = Len(s) /\ ~closing => ~LineComplete(s, from, till, closing)
  /\ hi = end /\ hi = Len(s) /\ closing =>
       /\ LineComplete(s, from, till, closing)
       /\ end - from = LineWidth(s, from, till, closing)

LEMMA LineVerdict ==
  ASSUME NEW s \in Seq(Bytes), NEW from \in Nat, NEW till \in Nat, from <= till,
         NEW closing \in BOOLEAN, LineKnown(s, from, till, closing),
         NEW hi \in from..Len(s), NEW end \in from..hi,
         \A i \in (from + 1)..end : s[i] \in Padding,
         end = hi \/ s[end + 1] \notin Padding
  PROVE  LineSeen(s, from, till, closing, hi, end)
<1>1. PICK n \in Nat : n = Len(s) /\ hi \in Nat /\ end \in Nat /\ from <= end /\ end <= hi /\ hi <= n
  OBVIOUS
<1>2. end <= till
  <2>1. CASE end > till
    <3>1. till + 1 \in (from + 1)..end /\ till + 1 <= Len(s)
      BY <1>1, <2>1
    <3> QED BY <3>1 DEF LineKnown
  <2> QED BY <1>1, <2>1
<1>3. end - from <= LineWidth(s, from, till, closing)
  BY <1>1, <1>2 DEF LineWidth
<1>4. ASSUME end < till, end < hi
      PROVE  ~LineComplete(s, from, till, closing)
  <2>1. end + 1 \in (from + 1)..till /\ end + 1 <= Len(s) /\ s[end + 1] \notin Padding
    BY <1>1, <1>4
  <2> QED BY <2>1 DEF LineComplete
<1>5. Len(CRLF) = 2 /\ CRLF[1] = "CR" /\ CRLF[2] = "LF" /\ CRLF \in Seq(Bytes)
  BY BytesOfMarks
<1>6. ASSUME hi - end >= 2, Matches(s, end, CRLF)
      PROVE  /\ end = till /\ LineComplete(s, from, till, closing)
             /\ end - from = LineWidth(s, from, till, closing)
  <2>1. ~(end < till)
    <3>1. CASE end < till
      <4>1. end \in from..(till - 1) /\ end + 2 <= Len(s)
        BY <1>1, <1>6, <3>1
      <4> QED BY <1>6, <4>1 DEF LineKnown
    <3> QED BY <3>1
  <2>2. end = till /\ till + 2 <= Len(s) /\ Matches(s, till, CRLF)
    BY <1>1, <1>2, <1>6, <2>1
  <2>3. LineComplete(s, from, till, closing)
    BY <1>1, <2>2 DEF LineComplete
  <2> QED BY <1>1, <2>2, <2>3 DEF LineWidth
<1>7. ASSUME hi - end >= 2, ~Matches(s, end, CRLF)
      PROVE  ~LineComplete(s, from, till, closing)
  <2>1. CASE end = till
    <3>1. till + 2 <= Len(s) /\ till + 1 <= Len(s)
      BY <1>1, <1>7, <2>1
    <3>2. CASE closing
      BY <1>7, <2>1, <3>1, <3>2 DEF LineComplete
    <3>3. CASE ~closing
      <4>1. Matches(s, till, CRLF)
        BY <1>5, <3>1, <3>3, ShownMatches DEF LineKnown
      <4> QED BY <1>7, <2>1, <4>1
    <3> QED BY <3>2, <3>3
  <2> QED BY <1>1, <1>2, <1>4, <1>7, <2>1
<1>8. ASSUME hi - end = 1, hi = Len(s) \/ s[hi] # "CR"
      PROVE  ~LineComplete(s, from, till, closing)
  <2>1. CASE end = till
    <3>1. till + 1 = hi /\ till + 1 <= Len(s)
      BY <1>1, <1>8, <2>1
    <3>2. CASE hi = Len(s)
      BY <1>1, <3>1, <3>2 DEF LineComplete
    <3>3. CASE s[hi] # "CR"
      <4>1. CASE closing
        BY <1>5, <3>1, <3>3, <4>1 DEF LineComplete, Matches
      <4>2. CASE ~closing
        BY <1>5, <3>1, <3>3, <4>2 DEF LineKnown, Shows
      <4> QED BY <4>1, <4>2
    <3> QED BY <1>8, <3>2, <3>3
  <2> QED BY <1>1, <1>2, <1>4, <1>8, <2>1
<1>9. ASSUME hi = end, hi = Len(s), ~closing
      PROVE  ~LineComplete(s, from, till, closing)
  BY <1>1, <1>2, <1>9 DEF LineComplete
<1>10. ASSUME hi = end, hi = Len(s), closing
       PROVE  /\ LineComplete(s, from, till, closing)
              /\ end - from = LineWidth(s, from, till, closing)
  <2>1. \A i \in (from + 1)..till : i <= Len(s) => s[i] \in Padding
    BY <1>1, <1>10
  <2>2. ~(till + 1 <= Len(s)) /\ from <= Len(s)
    BY <1>1, <1>2, <1>10
  <2> QED BY <1>1, <1>2, <1>10, <2>1, <2>2 DEF LineComplete, LineWidth
<1> QED BY <1>2, <1>3, <1>6, <1>7, <1>8, <1>9, <1>10 DEF LineSeen

\* What the look ahead behind the data of a field says of the boundary line.
LEMMA SuffixVerdict ==
  ASSUME NEW s \in Seq(Bytes), NEW at \in Nat, NEW from \in Nat, NEW till \in Nat, from <= till,
         NEW closing \in BOOLEAN, LineKnown(s, from, till, closing),
         from = (IF closing THEN at + 2 ELSE at),
         closing => Shows(s, at, BOUNDARY_EXT),
         ~closing /\ at + 2 <= Len(s) => ~Matches(s, at, BOUNDARY_EXT),
         NEW hi \in at..Len(s), NEW eof \in BOOLEAN, eof => hi = Len(s),
         NEW scanned \in Nat, scanned > 0 => PaddingScanned(s, at, hi, scanned),
         NEW limit \in Nat,
         NEW v, v = MatchBoundarySuffix(s, at, hi, eof, scanned, limit)
  PROVE  /\ v.verdict = "Valid" =>
              LineComplete(s, from, till, closing) /\ LineWidth(s, from, till, closing) <= limit
         /\ v.verdict = "TooLong" =>
              LineWidth(s, from, till, closing) > limit /\ limit < hi - at
         /\ v.verdict = "Invalid" => ~LineComplete(s, from, till, closing)
<1>1. PICK n \in Nat : n = Len(s) /\ hi \in Nat /\ at <= hi /\ hi <= n
  OBVIOUS
<1>2. Len(BOUNDARY_EXT) = 2 /\ BOUNDARY_EXT[1] = "-" /\ BOUNDARY_EXT[2] = "-"
      /\ BOUNDARY_EXT \in Seq(Bytes)
  BY BytesOfMarks
<1>3. Len(CRLF) = 2 /\ CRLF[1] = "CR" /\ CRLF[2] = "LF"
  BY BytesOfMarks
<1> DEFINE dash  == hi - at >= 1 /\ s[at + 1] = "-"
           shut  == hi - at >= 2 /\ Matches(s, at, BOUNDARY_EXT)
           early == ~eof /\ (hi - at = 0 \/ (hi - at = 1 /\ dash))
<1>4. closing /\ hi - at >= 1 => dash
  BY <1>1, <1>2 DEF Shows
<1>5. closing /\ hi - at >= 2 => shut
  <2>1. closing /\ at + 2 <= Len(s) => Matches(s, at, BOUNDARY_EXT)
    BY <1>2, ShownMatches
  <2> QED BY <1>1, <2>1
<1>6. shut => closing
  BY <1>1
<1>7. ~closing /\ dash => ~LineComplete(s, from, till, closing)
  <2> SUFFICES ASSUME ~closing, dash PROVE ~LineComplete(s, from, till, closing)
    OBVIOUS
  <2>1. from = at /\ at + 1 <= Len(s)
    BY <1>1
  <2>2. CASE till = at
    <3>1. s[at + 1] = "CR"
      BY <1>3, <2>1, <2>2 DEF LineKnown, Shows
    <3> QED BY <3>1
  <2>3. CASE till > at
    <3>1. at + 1 \in (from + 1)..till /\ "-" \notin Padding
      BY <2>1, <2>3 DEF Padding
    <3> QED BY <2>1, <3>1 DEF LineComplete
  <2> QED BY <2>1, <2>2, <2>3
<1>8. CASE early
  <2>1. v.verdict = "Partial"
    BY <1>8 DEF MatchBoundarySuffix, MayStillClose
  <2> QED BY <2>1
<1>9. CASE ~early /\ ~shut /\ (hi - at = 0 \/ dash)
  <2>1. v = [verdict |-> "Invalid", scanned |-> scanned]
    BY <1>9 DEF MatchBoundarySuffix, MayStillClose
  <2>2. ~LineComplete(s, from, till, closing)
    <3>1. CASE dash /\ ~closing
      BY <1>7, <3>1
    <3>2. CASE closing
      <4>1. eof /\ hi = Len(s) /\ Len(s) < from
        BY <1>1, <1>4, <1>5, <1>9, <3>2
      <4> QED BY <1>1, <4>1 DEF LineComplete
    <3>3. CASE ~closing /\ ~dash
      <4>1. hi = at /\ eof /\ hi = Len(s) /\ from = at
        BY <1>1, <1>9, <3>3
      <4> QED BY <1>1, <3>3, <4>1 DEF LineComplete
    <3> QED BY <3>1, <3>2, <3>3
  <2> QED BY <2>1, <2>2
<1>10. CASE ~early /\ (shut \/ ~(hi - at = 0 \/ dash))
  <2>1. v = MatchPaddingAndCrlf(s, from, hi, eof, closing, scanned, limit)
        /\ (closing <=> shut) /\ from <= hi
    <3>1. CASE shut
      <4>1. closing /\ from = at + 2 /\ from <= hi
        BY <1>1, <1>6, <3>1
      <4>2. v = MatchPaddingAndCrlf(s, at + 2, hi, eof, TRUE, scanned, limit)
        BY <1>10, <3>1 DEF MatchBoundarySuffix, MayStillClose
      <4>3. closing = TRUE
        BY <4>1
      <4> QED BY <3>1, <4>1, <4>2, <4>3
    <3>2. CASE ~shut
      <4>1. ~closing
        BY <1>1, <1>4, <1>10, <3>2
      <4>2. from = at /\ closing = FALSE
        BY <4>1
      <4>3. v = MatchPaddingAndCrlf(s, at, hi, eof, FALSE, scanned, limit)
        BY <1>1, <1>10, <3>2 DEF MatchBoundarySuffix, MayStillClose
      <4> QED BY <1>1, <3>2, <4>1, <4>2, <4>3
    <3> QED BY <3>1, <3>2
  <2>2. from + scanned <= hi /\ \A i \in 1..scanned : s[from + i] \in Padding
    <3>1. CASE scanned = 0
      BY <2>1, <3>1
    <3>2. CASE scanned > 0
      <4>1. from = IF s[at + 1] = "-" THEN at + Len(BOUNDARY_EXT) ELSE at
        BY <1>1, <1>2, <1>4, <1>10, <2>1
      <4> QED BY <3>2, <4>1 DEF PaddingScanned
    <3> QED BY <3>1, <3>2
  <2>3. PICK start, end : /\ start \in Nat /\ start = from + scanned /\ start <= hi
                          /\ end = PaddingEnd(s, start, hi)
    BY <2>2
  <2>4. /\ end \in start..hi /\ (end = hi \/ s[end + 1] \notin Padding)
        /\ \A i \in (start + 1)..end : s[i] \in Padding
    BY <1>1, <2>3, PaddingEndProperties
  <2>5. /\ hi \in from..Len(s) /\ end \in from..hi
        /\ \A i \in (from + 1)..end : s[i] \in Padding
    <3>1. ASSUME NEW i \in (from + 1)..end PROVE s[i] \in Padding
      <4>1. CASE i > start
        BY <2>3, <2>4, <4>1
      <4>2. CASE i <= start
        <5>1. i - from \in 1..scanned /\ from + (i - from) = i
          BY <2>3, <4>2
        <5> QED BY <2>2, <5>1
      <4> QED BY <2>3, <4>1, <4>2
    <3> QED BY <1>1, <2>1, <2>3, <2>4, <3>1
  <2>61. LineSeen(s, from, till, closing, hi, end)
    BY <2>4, <2>5, LineVerdict
  <2>6. /\ end - from <= LineWidth(s, from, till, closing)
        /\ hi - end >= 2 /\ Matches(s, end, CRLF) =>
              /\ LineComplete(s, from, till, closing)
              /\ end - from = LineWidth(s, from, till, closing)
        /\ hi - end >= 2 /\ ~Matches(s, end, CRLF) => ~LineComplete(s, from, till, closing)
        /\ hi - end = 1 /\ (hi = Len(s) \/ s[hi] # "CR") => ~LineComplete(s, from, till, closing)
        /\ hi = end /\ hi = Len(s) /\ ~closing => ~LineComplete(s, from, till, closing)
        /\ hi = end /\ hi = Len(s) /\ closing =>
              /\ LineComplete(s, from, till, closing)
              /\ end - from = LineWidth(s, from, till, closing)
    BY <2>61 DEF LineSeen
  <2>7. LineWidth(s, from, till, closing) \in Int
    BY <1>1 DEF LineWidth
  <2>8. CASE scanned > limit
    <3>1. v.verdict = "TooLong"
      BY <2>1, <2>8 DEF MatchPaddingAndCrlf
    <3>2. end - from >= scanned
      BY <2>3, <2>4
    <3>3. LineWidth(s, from, till, closing) > limit /\ limit < hi - at
      BY <2>2, <2>3, <2>4, <2>6, <2>7, <2>8, <3>2
    <3> QED BY <3>1, <3>3
  <2>9. CASE scanned <= limit /\ end - from > limit
    <3>1. v.verdict = "TooLong"
      BY <2>1, <2>3, <2>9 DEF MatchPaddingAndCrlf
    <3>2. LineWidth(s, from, till, closing) > limit /\ limit < hi - at
      BY <2>3, <2>4, <2>6, <2>7, <2>9
    <3> QED BY <3>1, <3>2
  <2>10. CASE scanned <= limit /\ end - from <= limit
    <3>1. v.verdict =
               IF hi - end = 0
               THEN IF ~eof THEN "Partial" ELSE IF closing THEN "Valid" ELSE "Invalid"
               ELSE IF hi - end >= 2 /\ Matches(s, end, CRLF) THEN "Valid"
               ELSE IF hi - end = 1 /\ s[hi] = "CR" /\ ~eof THEN "Partial"
               ELSE "Invalid"
      BY <2>1, <2>3, <2>4, <2>10 DEF MatchPaddingAndCrlf
    <3>2. hi - end \in Nat
      BY <2>3, <2>4
    <3>3. ASSUME v.verdict = "Valid"
          PROVE  LineComplete(s, from, till, closing) /\ LineWidth(s, from, till, closing) <= limit
      <4>1. \/ hi = end /\ hi = Len(s) /\ closing
            \/ hi - end >= 2 /\ Matches(s, end, CRLF)
        BY <2>4, <3>1, <3>2, <3>3
      <4> QED BY <2>6, <2>10, <4>1
    <3>4. ASSUME v.verdict = "Invalid" PROVE ~LineComplete(s, from, till, closing)
      <4>1. \/ hi = end /\ hi = Len(s) /\ ~closing
            \/ hi - end >= 2 /\ ~Matches(s, end, CRLF)
            \/ hi - end = 1 /\ (hi = Len(s) \/ s[hi] # "CR")
        BY <2>4, <3>1, <3>2, <3>4
      <4> QED BY <2>6, <4>1
    <3>5. v.verdict # "TooLong"
      BY <3>1
    <3> QED BY <3>3, <3>4, <3>5
  <2> QED BY <2>3, <2>4, <2>8, <2>9, <2>10
<1> QED BY <1>8, <1>9, <1>10

-----------------------------------------------------------------------------
(* The boundary lines of a form *)

LEMMA PartLine ==
  ASSUME NEW s \in Seq(Bytes), NEW at \in Nat, NEW pad \in Seq(Bytes),
         "LF" \notin Range(pad), ~IsPrefix(BOUNDARY_EXT, pad),
         Shows(s, at, pad), Shows(s, at + Len(pad), CRLF)
  PROVE  /\ LineKnown(s, at, at + Len(pad), FALSE)
         /\ at + 2 <= Len(s) => ~Matches(s, at, BOUNDARY_EXT)
<1>1. PICK m \in Nat, till \in Nat : m = Len(pad) /\ till = at + m
  OBVIOUS
<1>2. Len(CRLF) = 2 /\ CRLF[1] = "CR" /\ CRLF[2] = "LF"
      /\ Len(BOUNDARY_EXT) = 2 /\ BOUNDARY_EXT[1] = "-" /\ BOUNDARY_EXT[2] = "-"
      /\ BOUNDARY_EXT \in Seq(Bytes)
  BY BytesOfMarks
<1>3. \A i \in 1..m : at + i <= Len(s) => s[at + i] = pad[i]
  BY <1>1 DEF Shows
<1>4. till + 1 <= Len(s) => s[till + 1] = "CR"
  BY <1>1, <1>2 DEF Shows
<1>5. \A i \in 1..m : pad[i] # "LF"
  BY <1>1 DEF Range
<1>6. ASSUME NEW a \in at..(till - 1), a + 2 <= Len(s)
      PROVE  ~Matches(s, a, CRLF)
  <2>1. s[a + 2] # "LF"
    <3>1. CASE a + 2 <= till
      <4>1. (a + 2) - at \in 1..m /\ at + ((a + 2) - at) = a + 2
        BY <1>1, <3>1
      <4> QED BY <1>3, <1>5, <1>6, <4>1
    <3>2. CASE a + 2 > till
      <4>1. a + 2 = till + 1
        BY <1>1, <3>2
      <4> QED BY <1>4, <1>6, <4>1
    <3> QED BY <1>1, <3>1, <3>2
  <2> QED BY <1>2, <2>1 DEF Matches
<1>7. LineKnown(s, at, till, FALSE)
  <2>1. Shows(s, till, CRLF)
    BY <1>1
  <2>2. till + 1 <= Len(s) => s[till + 1] \notin Padding
    BY <1>4 DEF Padding
  <2> QED BY <1>6, <2>1, <2>2 DEF LineKnown
<1>8. ASSUME at + 2 <= Len(s), Matches(s, at, BOUNDARY_EXT)
      PROVE  FALSE
  <2>1. s[at + 1] = "-" /\ s[at + 2] = "-"
    BY <1>2, <1>8 DEF Matches
  <2>2. m # 0
    BY <1>1, <1>4, <1>8, <2>1
  <2>3. m # 1
    <3>1. m = 1 => till + 1 = at + 2
      BY <1>1
    <3> QED BY <1>4, <1>8, <2>1, <3>1
  <2>4. pad[1] = "-" /\ pad[2] = "-"
    <3>1. 1 \in 1..m /\ 2 \in 1..m /\ at + 1 <= Len(s)
      BY <1>8, <2>2, <2>3
    <3> QED BY <1>3, <1>8, <2>1, <3>1
  <2>5. \A i \in 1..2 : pad[i] = BOUNDARY_EXT[i]
    BY <1>2, <2>4
  <2>6. Len(BOUNDARY_EXT) <= Len(pad)
    BY <1>1, <1>2, <2>2, <2>3
  <2> QED BY <1>2, <2>5, <2>6, PrefixByElements
<1> QED BY <1>1, <1>7, <1>8

LEMMA LastLine ==
  ASSUME NEW s \in Seq(Bytes), NEW at \in Nat, NEW pad \in Seq(Bytes), NEW tail \in Seq(Bytes),
         OneLine(pad), tail # << >> => tail[1] \notin Padding,
         Shows(s, at, pad), Shows(s, at + Len(pad), tail),
         Len(s) <= at + Len(pad) + Len(tail)
  PROVE  LineKnown(s, at, at + Len(pad), TRUE)
<1>1. PICK m \in Nat, till \in Nat : m = Len(pad) /\ till = at + m
  OBVIOUS
<1>2. Len(CRLF) = 2 /\ CRLF[1] = "CR" /\ CRLF[2] = "LF"
  BY BytesOfMarks
<1>3. \A i \in 1..m : pad[i] # "CR"
  <2>1. \A i \in 1..m : pad[i] \in Range(pad)
    BY <1>1 DEF Range
  <2>2. "CR" \notin Range(pad)
    BY DEF OneLine
  <2> QED BY <2>1, <2>2
<1>4. ASSUME NEW a \in at..(till - 1), a + 2 <= Len(s)
      PROVE  ~Matches(s, a, CRLF)
  <2>1. (a + 1) - at \in 1..m /\ at + ((a + 1) - at) = a + 1 /\ a + 1 <= Len(s)
    BY <1>1, <1>4
  <2>2. s[a + 1] # "CR"
    BY <1>1, <1>3, <2>1 DEF Shows
  <2> QED BY <1>2, <2>2 DEF Matches
<1>5. ASSUME till + 1 <= Len(s)
      PROVE  s[till + 1] \notin Padding
  <2>1. Len(tail) >= 1 /\ tail # << >>
    BY <1>1, <1>5
  <2>2. s[till + 1] = tail[1]
    BY <1>1, <1>5, <2>1 DEF Shows
  <2> QED BY <2>1, <2>2
<1> QED BY <1>1, <1>4, <1>5 DEF LineKnown

\* The part of the padding pad behind position at that s holds.
HeldOf(s, at, pad) == SubSeq(pad, 1, Min({Len(pad), Len(s) - at}))

EndsWith(s, at, pad, tail, held) ==
  /\ at <= Len(s) => Len(held) = LineWidth(s, at, at + Len(pad), TRUE)
  /\ LineComplete(s, at, at + Len(pad), TRUE) <=>
       /\ at <= Len(s) /\ PaddingOnly(held)
       /\ at + Len(pad) + 1 <= Len(s) =>
            at + Len(pad) + 2 <= Len(s) /\ IsPrefix(CRLF, tail)

LEMMA LastLineComplete ==
  ASSUME NEW s \in Seq(Bytes), NEW at \in Nat, NEW pad \in Seq(Bytes), NEW tail \in Seq(Bytes),
         Shows(s, at, pad), Shows(s, at + Len(pad), tail),
         Len(s) <= at + Len(pad) + Len(tail),
         NEW arrived, arrived = HeldOf(s, at, pad)
  PROVE  EndsWith(s, at, pad, tail, arrived)
<1>1. PICK m \in Nat, till \in Nat, n \in Nat : m = Len(pad) /\ till = at + m /\ n = Len(s)
  <2>1. Len(pad) \in Nat /\ at + Len(pad) \in Nat /\ Len(s) \in Nat
    OBVIOUS
  <2> QED BY <2>1, Zenon
<1>2. Len(CRLF) = 2 /\ CRLF[1] = "CR" /\ CRLF[2] = "LF" /\ CRLF \in Seq(Bytes)
  BY BytesOfMarks
<1>3. CASE at <= n
  <2>1. PICK w \in 0..m : /\ w = Min({Len(pad), Len(s) - at})
                          /\ w = (IF n < till THEN n - at ELSE till - at)
    <3> DEFINE S == {Len(pad), Len(s) - at}
    <3>1. S \in SUBSET Int /\ S # {} /\ 0 \in Int /\ \A x \in S : 0 <= x
      BY <1>1, <1>3
    <3>2. m \in S /\ n - at \in S /\ \A x \in S : x = m \/ x = n - at
      BY <1>1
    <3>3. PICK w : w = Min(S) /\ w \in S /\ \A x \in S : w <= x
      <4> HIDE DEF S
      <4> QED BY <3>1, MinIsLeast, Zenon
    <3>4. w \in {m, n - at} /\ w <= m /\ w <= n - at
      <4> HIDE DEF S
      <4> QED BY <3>2, <3>3
    <3>5. w \in 0..m /\ w = (IF n < till THEN n - at ELSE till - at)
      BY <1>1, <1>3, <3>4
    <3> QED BY <3>3, <3>5
  <2>2. Len(arrived) = w /\ DOMAIN arrived = 1..w /\ \A i \in 1..w : arrived[i] = pad[i]
    <3>1. arrived = SubSeq(pad, 1, w)
      BY <2>1 DEF HeldOf
    <3>2. /\ Len(SubSeq(pad, 1, w)) = w /\ DOMAIN SubSeq(pad, 1, w) = 1..w
          /\ \A i \in 1..w : SubSeq(pad, 1, w)[i] = pad[i]
      BY <1>1
    <3> QED BY <3>1, <3>2, Zenon
  <2>3. Len(arrived) = LineWidth(s, at, till, TRUE)
    BY <1>1, <2>1, <2>2 DEF LineWidth
  <2>4. \A i \in 1..w : s[at + i] = pad[i] /\ at + i <= n
    BY <1>1, <1>3, <2>1 DEF Shows
  <2>5. PaddingOnly(arrived) <=> \A i \in (at + 1)..till : i <= n => s[i] \in Padding
    <3>1. ASSUME PaddingOnly(arrived), NEW i \in (at + 1)..till, i <= n
          PROVE  s[i] \in Padding
      <4>1. i - at \in 1..w /\ at + (i - at) = i
        BY <1>1, <1>3, <2>1, <3>1
      <4>2. arrived[i - at] \in Padding
        BY <2>2, <3>1, <4>1 DEF PaddingOnly
      <4> QED BY <2>2, <2>4, <4>1, <4>2
    <3>2. ASSUME \A i \in (at + 1)..till : i <= n => s[i] \in Padding, NEW i \in 1..w
          PROVE  arrived[i] \in Padding
      <4>1. at + i \in (at + 1)..till /\ at + i <= n
        BY <1>1, <2>1, <2>4
      <4> QED BY <2>2, <2>4, <3>2, <4>1
    <3> QED BY <2>2, <3>1, <3>2 DEF PaddingOnly
  <2>6. ASSUME till + 2 <= n
        PROVE  Matches(s, till, CRLF) <=> IsPrefix(CRLF, tail)
    <3>1. Len(tail) >= 2 /\ s[till + 1] = tail[1] /\ s[till + 2] = tail[2]
      BY <1>1, <2>6 DEF Shows
    <3>2. Matches(s, till, CRLF) <=> tail[1] = "CR" /\ tail[2] = "LF"
      BY <1>2, <3>1 DEF Matches
    <3>3. IsPrefix(CRLF, tail) <=> \A i \in 1..2 : tail[i] = CRLF[i]
      BY <1>2, <3>1, PrefixByElements
    <3>4. (\A i \in 1..2 : tail[i] = CRLF[i]) <=> tail[1] = "CR" /\ tail[2] = "LF"
      BY <1>2
    <3> QED BY <3>2, <3>3, <3>4
  <2>7. LineComplete(s, at, till, TRUE) <=>
          /\ at <= Len(s) /\ PaddingOnly(arrived)
          /\ till + 1 <= Len(s) => till + 2 <= Len(s) /\ IsPrefix(CRLF, tail)
    BY <1>1, <1>3, <2>5, <2>6 DEF LineComplete
  <2> QED BY <1>1, <2>3, <2>7 DEF EndsWith
<1>4. CASE ~(at <= n)
  BY <1>1, <1>4 DEF LineComplete, EndsWith
<1> QED BY <1>3, <1>4

\* The line behind the boundary of part k, or behind the closing boundary.
Closing(f, k)  == k = PartCount(f) + 1
LineFrom(f, k) == IF Closing(f, k) THEN CloseAt(f) + 2 ELSE PadAt(f, k)
LineTo(f, k)   == LineFrom(f, k) + IF Closing(f, k) THEN ClosePadLen(f) ELSE PadLen(f.parts[k])

LineThere(f, k) == LineComplete(Encode(f), LineFrom(f, k), LineTo(f, k), Closing(f, k))
LineLen(f, k)   == LineWidth(Encode(f), LineFrom(f, k), LineTo(f, k), Closing(f, k))

LEMMA FormLine ==
  ASSUME NEW f, Unambiguous(f), NEW k \in 1..PartCount(f)
  PROVE  /\ ~Closing(f, k) /\ LineFrom(f, k) = PadAt(f, k)
         /\ LineTo(f, k) = PadAt(f, k) + PadLen(f.parts[k]) /\ PadAt(f, k) \in Nat
         /\ PadLen(f.parts[k]) \in Nat
         /\ LineKnown(Encode(f), LineFrom(f, k), LineTo(f, k), FALSE)
         /\ PadAt(f, k) + 2 <= Len(Encode(f)) => ~Matches(Encode(f), PadAt(f, k), BOUNDARY_EXT)
<1>1. /\ f \in FormType /\ f.drop <= Len(Complete(f)) /\ UnambiguousPart(f.parts[k])
      /\ f.parts[k] \in PartType
  BY UnambiguousParts
<1>2. PICK s \in Seq(Bytes) : s = Encode(f) /\ BodyShown(s, f)
  BY <1>1, EncodedPrefix, BodyLayout
<1>3. PartCount(f) \in Nat
  BY <1>1, BoundariesInOrder
<1>4. k \in 1..(PartCount(f) + 1) /\ ~Closing(f, k)
  BY <1>3 DEF Closing
<1>5. PICK at \in Nat, pad \in Seq(Bytes) :
        at = PadAt(f, k) /\ pad = f.parts[k].pad /\ Len(pad) = PadLen(f.parts[k])
  <2>1. PadAt(f, k) \in Nat
    BY <1>1, <1>4, BoundaryPositions
  <2>2. f.parts[k].pad \in Seq(Bytes) /\ Len(f.parts[k].pad) = PadLen(f.parts[k])
    BY <1>1 DEF PartType, PadLen
  <2> QED BY <2>1, <2>2, Zenon
<1>6. Shows(s, at, pad) /\ Shows(s, at + Len(pad), CRLF)
  BY <1>2, <1>5 DEF BodyShown, PieceShown
<1>7. "LF" \notin Range(pad) /\ ~IsPrefix(BOUNDARY_EXT, pad)
  BY <1>1, <1>5 DEF UnambiguousPart
<1>8. /\ LineKnown(s, at, at + Len(pad), FALSE)
      /\ at + 2 <= Len(s) => ~Matches(s, at, BOUNDARY_EXT)
  BY <1>6, <1>7, PartLine
<1>9. LineFrom(f, k) = at /\ LineTo(f, k) = at + Len(pad) /\ Len(pad) \in Nat
  BY <1>4, <1>5 DEF LineFrom, LineTo
<1> QED BY <1>2, <1>4, <1>5, <1>8, <1>9, Zenon

LEMMA FormLastLine ==
  ASSUME NEW f, Unambiguous(f), NEW k, k = PartCount(f) + 1
  PROVE  /\ Closing(f, k) /\ LineFrom(f, k) = PadAt(f, k) + 2
         /\ LineFrom(f, k) = Len(BeforeClose(f))
         /\ LineTo(f, k) = LineFrom(f, k) + Len(f.close_pad) /\ LineFrom(f, k) \in Nat
         /\ f.close_pad \in Seq(Bytes) /\ f.tail \in Seq(Bytes)
         /\ LineKnown(Encode(f), LineFrom(f, k), LineTo(f, k), TRUE)
         /\ Shows(Encode(f), PadAt(f, k), BOUNDARY_EXT)
         /\ Shows(Encode(f), LineFrom(f, k), f.close_pad)
         /\ Shows(Encode(f), LineFrom(f, k) + Len(f.close_pad), f.tail)
         /\ Len(Encode(f)) <= LineFrom(f, k) + Len(f.close_pad) + Len(f.tail)
<1>1. /\ f \in FormType /\ f.drop <= Len(Complete(f)) /\ OneLine(f.close_pad)
      /\ f.tail # << >> => f.tail[1] \notin Padding
  BY UnambiguousParts
<1>2. PICK s \in Seq(Bytes) : s = Encode(f) /\ BodyShown(s, f) /\ Len(s) <= Len(Complete(f))
  BY <1>1, EncodedPrefix, BodyLayout
<1>3. PartCount(f) \in Nat
  BY <1>1, BoundariesInOrder
<1>4. k \in 1..(PartCount(f) + 1) /\ Closing(f, k)
  BY <1>3 DEF Closing
<1>5. PICK pad \in Seq(Bytes), tail \in Seq(Bytes) : pad = f.close_pad /\ tail = f.tail
  BY <1>1 DEF FormType
<1>6. PICK at \in Nat, from \in Nat :
        /\ at = CloseAt(f) /\ from = at + 2 /\ Len(BeforeClose(f)) = from
        /\ ClosePadLen(f) = Len(pad) /\ TailLen(f) = Len(tail)
        /\ Len(Complete(f)) = from + Len(pad) + Len(tail)
  <2>1. /\ CloseAt(f) \in Nat /\ CloseAt(f) + 2 \in Nat /\ Len(BeforeClose(f)) = CloseAt(f) + 2
        /\ Len(Complete(f)) = CloseAt(f) + 2 + ClosePadLen(f) + TailLen(f)
    BY <1>1, WholeLayout
  <2>2. ClosePadLen(f) = Len(pad) /\ TailLen(f) = Len(tail)
    BY <1>5 DEF ClosePadLen, TailLen
  <2> QED BY <2>1, <2>2, Zenon
<1>7. PadAt(f, k) = at
  BY <1>1, <1>4, <1>6, BoundaryPositions
<1>8. /\ Shows(s, at, BOUNDARY_EXT) /\ Shows(s, from, pad) /\ Shows(s, from + Len(pad), tail)
  BY <1>2, <1>5, <1>6 DEF BodyShown
<1>9. LineFrom(f, k) = from /\ LineTo(f, k) = from + Len(pad)
  BY <1>4, <1>6 DEF LineFrom, LineTo
<1>10. OneLine(pad) /\ (tail # << >> => tail[1] \notin Padding)
       /\ Len(s) <= from + Len(pad) + Len(tail)
  BY <1>1, <1>2, <1>5, <1>6
<1>11. LineKnown(s, from, from + Len(pad), TRUE)
  BY <1>8, <1>10, LastLine
<1> QED BY <1>2, <1>4, <1>5, <1>6, <1>7, <1>8, <1>9, <1>10, <1>11, Zenon

\* What a look ahead may rely on, whatever part the line opens.
LEMMA BoundaryLines ==
  ASSUME NEW f, Unambiguous(f), NEW k \in 1..(PartCount(f) + 1)
  PROVE  /\ LineFrom(f, k) \in Nat /\ LineTo(f, k) \in Nat /\ LineFrom(f, k) <= LineTo(f, k)
         /\ PadAt(f, k) \in Nat /\ Closing(f, k) \in BOOLEAN
         /\ LineFrom(f, k) = (IF Closing(f, k) THEN PadAt(f, k) + 2 ELSE PadAt(f, k))
         /\ LineKnown(Encode(f), LineFrom(f, k), LineTo(f, k), Closing(f, k))
         /\ Closing(f, k) => Shows(Encode(f), PadAt(f, k), BOUNDARY_EXT)
         /\ ~Closing(f, k) /\ PadAt(f, k) + 2 <= Len(Encode(f)) =>
              ~Matches(Encode(f), PadAt(f, k), BOUNDARY_EXT)
<1>1. f \in FormType /\ PartCount(f) \in Nat
  BY UnambiguousParts, BoundariesInOrder
<1>2. PadAt(f, k) \in Nat
  BY <1>1, BoundaryPositions
<1>3. CASE k = PartCount(f) + 1
  <2>1. Closing(f, k) = TRUE
    BY <1>3 DEF Closing
  <2>2. /\ LineFrom(f, k) = PadAt(f, k) + 2 /\ Shows(Encode(f), PadAt(f, k), BOUNDARY_EXT)
        /\ LineTo(f, k) = LineFrom(f, k) + Len(f.close_pad) /\ LineFrom(f, k) \in Nat
        /\ f.close_pad \in Seq(Bytes)
        /\ LineKnown(Encode(f), LineFrom(f, k), LineTo(f, k), TRUE)
    BY <1>3, FormLastLine
  <2>3. LineKnown(Encode(f), LineFrom(f, k), LineTo(f, k), Closing(f, k))
    BY <2>1, <2>2
  <2>4. LineTo(f, k) \in Nat /\ LineFrom(f, k) <= LineTo(f, k)
    BY <2>2
  <2> QED BY <1>2, <2>1, <2>2, <2>3, <2>4
<1>4. CASE k # PartCount(f) + 1
  <2>1. k \in 1..PartCount(f)
    BY <1>1, <1>4
  <2>2. Closing(f, k) = FALSE
    BY <1>4 DEF Closing
  <2>3. /\ LineFrom(f, k) = PadAt(f, k) /\ LineTo(f, k) = PadAt(f, k) + PadLen(f.parts[k])
        /\ PadLen(f.parts[k]) \in Nat
        /\ LineKnown(Encode(f), LineFrom(f, k), LineTo(f, k), FALSE)
        /\ PadAt(f, k) + 2 <= Len(Encode(f)) => ~Matches(Encode(f), PadAt(f, k), BOUNDARY_EXT)
    BY <2>1, FormLine
  <2>4. LineKnown(Encode(f), LineFrom(f, k), LineTo(f, k), Closing(f, k))
    BY <2>2, <2>3
  <2>5. LineTo(f, k) \in Nat /\ LineFrom(f, k) <= LineTo(f, k) /\ LineFrom(f, k) \in Nat
    BY <1>2, <2>3
  <2> QED BY <1>2, <2>2, <2>3, <2>4, <2>5
<1> QED BY <1>3, <1>4

LEMMA PartLineThere ==
  ASSUME NEW f, Unambiguous(f), NEW k \in 1..PartCount(f)
  PROVE  /\ LineLen(f, k) = PadLen(f.parts[k])
         /\ LineThere(f, k) <=>
              PaddingOnly(f.parts[k].pad) /\ HeadersAt(f, k) <= Len(Encode(f))
<1>1. /\ f \in FormType /\ f.drop <= Len(Complete(f)) /\ f.parts[k] \in PartType
  BY UnambiguousParts
<1>2. PICK s \in Seq(Bytes) : s = Encode(f) /\ BodyShown(s, f)
  BY <1>1, EncodedPrefix, BodyLayout
<1>3. PICK at \in Nat, pad \in Seq(Bytes), m \in Nat :
        /\ at = PadAt(f, k) /\ pad = f.parts[k].pad /\ m = Len(pad) /\ m = PadLen(f.parts[k])
  <2>1. PadAt(f, k) \in Nat
    BY FormLine
  <2>2. f.parts[k].pad \in Seq(Bytes) /\ Len(f.parts[k].pad) = PadLen(f.parts[k])
        /\ Len(f.parts[k].pad) \in Nat
    BY <1>1 DEF PartType, PadLen
  <2> QED BY <2>1, <2>2, Zenon
<1>4. Shows(s, at, pad) /\ HeadersAt(f, k) = at + m + 2
  <2>1. HeadersAt(f, k) = PadAt(f, k) + PadLen(f.parts[k]) + 2
    BY DEF HeadersAt
  <2> QED BY <1>2, <1>3, <2>1 DEF BodyShown, PieceShown
<1>5. ~Closing(f, k) /\ LineFrom(f, k) = at /\ LineTo(f, k) = at + m
  BY <1>3, FormLine
<1>6. LineLen(f, k) = m
  BY <1>2, <1>3, <1>5 DEF LineLen, LineWidth
<1>7. LineThere(f, k) <=>
        /\ at <= Len(s) /\ at + m + 2 <= Len(s)
        /\ \A i \in (at + 1)..(at + m) : i <= Len(s) => s[i] \in Padding
  BY <1>2, <1>5 DEF LineThere, LineComplete
<1>8. ASSUME at + m + 2 <= Len(s)
      PROVE  PaddingOnly(pad) <=> \A i \in (at + 1)..(at + m) : i <= Len(s) => s[i] \in Padding
  <2>1. \A i \in 1..m : s[at + i] = pad[i] /\ at + i <= Len(s)
    BY <1>3, <1>4, <1>8 DEF Shows
  <2>2. DOMAIN pad = 1..m
    <3>1. DOMAIN pad = 1..Len(pad)
      OBVIOUS
    <3> QED BY <1>3, <3>1, Zenon
  <2>3. ASSUME PaddingOnly(pad), NEW i \in (at + 1)..(at + m)
        PROVE  s[i] \in Padding
    <3>1. i - at \in 1..m /\ at + (i - at) = i
      BY <1>3, <2>3
    <3>2. pad[i - at] \in Padding
      BY <2>2, <2>3, <3>1 DEF PaddingOnly
    <3> QED BY <2>1, <3>1, <3>2
  <2>4. ASSUME \A i \in (at + 1)..(at + m) : i <= Len(s) => s[i] \in Padding, NEW i \in 1..m
        PROVE  pad[i] \in Padding
    <3>1. at + i \in (at + 1)..(at + m)
      BY <1>3
    <3> QED BY <2>1, <2>4, <3>1
  <2> QED BY <2>2, <2>3, <2>4 DEF PaddingOnly
<1>9. LineThere(f, k) <=> PaddingOnly(pad) /\ at + m + 2 <= Len(s)
  <2>1. at + m + 2 <= Len(s) => at <= Len(s)
    OBVIOUS
  <2> QED BY <1>7, <1>8, <2>1
<1> QED BY <1>2, <1>3, <1>4, <1>6, <1>9, Zenon

LEMMA LastLineThere ==
  ASSUME NEW f, Unambiguous(f), NEW k, k = PartCount(f) + 1
  PROVE  /\ ClosingOK(f) <=> LineThere(f, k)
         /\ LineThere(f, k) => Len(ClosingPad(f)) = LineLen(f, k)
<1>1. f \in FormType /\ f.drop <= Len(Complete(f))
  BY UnambiguousParts
<1>2. PICK s \in Seq(Bytes) : s = Encode(f)
  BY <1>1, EncodedPrefix
<1>3. PICK at \in Nat, pad \in Seq(Bytes), tail \in Seq(Bytes) :
        /\ at = LineFrom(f, k) /\ at = Len(BeforeClose(f)) /\ pad = f.close_pad /\ tail = f.tail
        /\ Shows(s, at, pad) /\ Shows(s, at + Len(pad), tail)
        /\ Len(s) <= at + Len(pad) + Len(tail)
        /\ LineTo(f, k) = at + Len(pad)
  BY <1>2, FormLastLine, Zenon
<1>4. Closing(f, k) = TRUE
  BY FormLastLine
<1>5. PICK arrived : arrived = HeldOf(s, at, pad) /\ arrived = ClosingPad(f)
  BY <1>2, <1>3 DEF ClosingPad, HeldOf
<1>6. /\ at <= Len(s) => Len(arrived) = LineWidth(s, at, at + Len(pad), TRUE)
      /\ LineComplete(s, at, at + Len(pad), TRUE) <=>
           /\ at <= Len(s) /\ PaddingOnly(arrived)
           /\ at + Len(pad) + 1 <= Len(s) =>
                at + Len(pad) + 2 <= Len(s) /\ IsPrefix(CRLF, tail)
  <2>1. /\ Shows(s, at, pad) /\ Shows(s, at + Len(pad), tail)
        /\ Len(s) <= at + Len(pad) + Len(tail) /\ arrived = HeldOf(s, at, pad)
    BY <1>3, <1>5, Zenon
  <2>2. EndsWith(s, at, pad, tail, arrived)
    BY <2>1, LastLineComplete
  <2> QED BY <2>2 DEF EndsWith
<1>7. /\ LineThere(f, k) <=> LineComplete(s, at, at + Len(pad), TRUE)
      /\ LineLen(f, k) = LineWidth(s, at, at + Len(pad), TRUE)
  BY <1>2, <1>3, <1>4 DEF LineThere, LineLen
<1>8. ClosingOK(f) <=> /\ at <= Len(s) /\ PaddingOnly(arrived)
                       /\ at + Len(pad) + 1 <= Len(s) =>
                            at + Len(pad) + 2 <= Len(s) /\ IsPrefix(CRLF, tail)
  <2>1. Len(CRLF) = 2
    BY BytesOfMarks
  <2> QED BY <1>2, <1>3, <1>5, <2>1 DEF ClosingOK, Arrived
<1> QED BY <1>5, <1>6, <1>7, <1>8

\* How much of the body the headers of a part and a boundary line need.
LEMMA Uptos ==
  ASSUME NEW f \in FormType, NEW k \in 1..PartCount(f)
  PROVE  /\ HeadersUpto(f, k) = DataAt(f, k)
         /\ k < PartCount(f) => BoundaryLineUpto(f, k) = HeadersAt(f, k + 1)
<1>1. PartCount(f) \in Nat /\ f.parts[k] \in PartType
  BY BoundariesInOrder, PartPositions
<1>2. HeadersUpto(f, k) = DataAt(f, k)
  <2>1. Len(OpenPart(f.parts[k])) = OpenLen(f.parts[k])
    BY <1>1, PieceLayout
  <2>2. HeadersUpto(f, k) = BoundaryAt(f, k) + Len(OpenPart(f.parts[k]))
    BY DEF HeadersUpto, BoundaryAt
  <2> QED BY <2>1, <2>2 DEF DataAt
<1>3. ASSUME k < PartCount(f)
      PROVE  BoundaryLineUpto(f, k) = HeadersAt(f, k + 1)
  <2>1. k + 1 \in 1..PartCount(f) /\ k + 1 \in 1..(PartCount(f) + 1)
    BY <1>1, <1>3
  <2>2. /\ DataEnd(f, k) \in Nat /\ BoundaryAt(f, k + 1) = DataEnd(f, k) + 2
        /\ DataEnd(f, k) = DataAt(f, k) + DataLen(f.parts[k])
        /\ HeadersAt(f, k + 1) = PadAt(f, k + 1) + PadLen(f.parts[k + 1]) + 2
        /\ PadLen(f.parts[k + 1]) \in Nat
    BY <2>1, PartPositions
  <2>3. /\ PadAt(f, k + 1) = BoundaryAt(f, k + 1) + BoundaryLen
        /\ BoundaryLen = Len(Boundary) + 2 /\ Len(FieldBoundary) = Len(Boundary) + 4
        /\ Len(Boundary) \in Nat /\ Len(CRLF) = 2
    BY <2>1, BoundaryPositions, BytesOfMarks DEF BoundaryLen
  <2>4. BoundaryLineUpto(f, k) = DataAt(f, k) + DataLen(f.parts[k]) + Len(FieldBoundary)
                                   + PadLen(f.parts[k + 1]) + Len(CRLF)
    BY <1>2 DEF BoundaryLineUpto, DataLen, PadLen
  <2>5. BoundaryLineUpto(f, k) = DataEnd(f, k) + Len(FieldBoundary)
                                   + PadLen(f.parts[k + 1]) + Len(CRLF)
    BY <2>2, <2>4
  <2>6. PICK e, p, b, x \in Nat :
          /\ e = DataEnd(f, k) /\ p = PadLen(f.parts[k + 1]) /\ b = Len(Boundary)
          /\ x = BoundaryAt(f, k + 1)
    <3>1. Len(Boundary) \in Nat /\ BoundaryAt(f, k + 1) \in Nat
      BY <2>1, <1>1, BytesOfMarks, BoundaryPositions
    <3> QED BY <2>2, <3>1, Zenon
  <2>7. BoundaryLineUpto(f, k) = e + (b + 4) + p + 2
    BY <2>3, <2>5, <2>6
  <2>8. HeadersAt(f, k + 1) = (x + (b + 2)) + p + 2 /\ x = e + 2
    BY <2>2, <2>3, <2>6
  <2>9. e + (b + 4) + p + 2 = (x + (b + 2)) + p + 2
    BY <2>8
  <2> QED BY <2>7, <2>8, <2>9
<1> QED BY <1>2, <1>3
=============================================================================
