---------------------- MODULE ContentDispositionProofs ----------------------
(***************************************************************************)
(* For any header: where the splitter of parameters leaves a quoted string *)
(* is where the reader of quoted values finds its end.  For the headers of *)
(* WrittenDisposition: the name and the file name that are read are those  *)
(* that were written.  The proof follows the parser through a header: where*)
(* a parameter ends, its key and where its value is found, what the value  *)
(* decodes to, and the search for a key along the parameters.              *)
(***************************************************************************)
EXTENDS WrittenDisposition, SequenceTheorems, WellFoundedInduction, TLAPS

\* A set of naturals has its Min as least member.
LEMMA MinIsLeast ==
  ASSUME NEW S \in SUBSET Nat, S # {}
  PROVE  Min(S) \in S /\ \A x \in S : Min(S) <= x
<1>1. PICK t \in S : \A y \in S : ~(<<y, t>> \in OpToRel(<, Nat))
  BY WFMin, NatLessThanWellFounded
<1>2. ASSUME NEW y \in S PROVE t <= y
  <2>1. ~(<<y, t>> \in OpToRel(<, Nat))
    BY <1>1
  <2>2. ~(y < t)
    BY <2>1 DEF OpToRel
  <2> QED BY <2>2
<1>3. t \in S /\ \A y \in S : t <= y
  BY <1>2
<1> QED BY <1>3, Zenon DEF Min

\* Induction up to n, on a set instead of a predicate.
LEMMA UptoInduction ==
  ASSUME NEW n \in Nat, NEW T, 0 \in T, \A i \in 1..n : i - 1 \in T => i \in T
  PROVE  0..n \subseteq T
<1> DEFINE missing == (0..n) \ T
<1>1. SUFFICES ASSUME missing # {} PROVE FALSE
  OBVIOUS
<1>2. PICK m \in missing : \A k \in missing : m <= k
  <2>1. missing \in SUBSET Nat
    OBVIOUS
  <2> HIDE DEF missing
  <2> QED BY <1>1, <2>1, MinIsLeast
<1>3. m \in 1..n /\ m - 1 \in 0..n
  OBVIOUS
<1>4. m - 1 \in T
  BY <1>2, <1>3
<1> QED BY <1>3, <1>4

\* A bounded set of naturals has its Max as greatest member.
LEMMA MaxIsGreatest ==
  ASSUME NEW n \in Nat, NEW S \in SUBSET (0..n), S # {}
  PROVE  Max(S) \in S /\ \A x \in S : x <= Max(S)
<1> DEFINE T == { n - x : x \in S }
<1>1. T \in SUBSET Nat /\ T # {}
  <2>1. PICK x \in S : TRUE
    OBVIOUS
  <2>2. n - x \in T
    BY <2>1
  <2> QED BY <2>2
<1>2. Min(T) \in T /\ \A y \in T : Min(T) <= y
  <2> HIDE DEF T
  <2> QED BY <1>1, MinIsLeast
<1>3. PICK m \in S : Min(T) = n - m
  BY <1>2
<1>4. ASSUME NEW x \in S PROVE m >= x
  <2>1. n - m <= n - x
    BY <1>2, <1>3
  <2>2. n - x \in Int /\ x \in Int /\ m \in Int
    OBVIOUS
  <2> QED BY <2>1, <2>2
<1>5. m \in S /\ \A x \in S : m >= x
  BY <1>4
<1> QED BY <1>5, Zenon DEF Max

-----------------------------------------------------------------------------
(* The splitter's state *)

IsQuoting(g, s, n) ==
  /\ g[0] = "plain"
  /\ \A i \in 1..n : g[i] = Scanned(g[i - 1], s[i])

\* The recursion that defines Quoting has a solution.
LEMMA QuotingExists ==
  ASSUME NEW s, NEW n \in Nat
  PROVE  \E g : g = [i \in 0..n |-> IF i = 0 THEN "plain" ELSE Scanned(g[i - 1], s[i])]
<1> DEFINE Solved == { m \in 0..n : \E g : IsQuoting(g, s, m) }
<1>1. 0 \in Solved
  <2>1. IsQuoting([i \in {0} |-> "plain"], s, 0)
    BY DEF IsQuoting
  <2> QED BY <2>1
<1>2. ASSUME NEW m \in 1..n, m - 1 \in Solved PROVE m \in Solved
  <2>1. PICK g : IsQuoting(g, s, m - 1)
    BY <1>2
  <2> DEFINE h == [i \in 0..m |-> IF i = m THEN Scanned(g[m - 1], s[m]) ELSE g[i]]
  <2>2. h[0] = "plain"
    BY <2>1 DEF IsQuoting
  <2>3. ASSUME NEW i \in 1..m PROVE h[i] = Scanned(h[i - 1], s[i])
    <3>1. h[i - 1] = g[i - 1]
      OBVIOUS
    <3>2. CASE i = m
      BY <3>1, <3>2
    <3>3. CASE i # m
      <4>1. i \in 1..(m - 1) /\ h[i] = g[i]
        BY <3>3
      <4> QED BY <4>1, <3>1, <2>1 DEF IsQuoting
    <3> QED BY <3>2, <3>3
  <2> HIDE DEF h
  <2>4. IsQuoting(h, s, m)
    BY <2>2, <2>3 DEF IsQuoting
  <2> QED BY <2>4
<1>3. n \in Solved
  <2> HIDE DEF Solved
  <2>1. 0..n \subseteq Solved
    BY <1>1, <1>2, UptoInduction
  <2> QED BY <2>1
<1>4. PICK g : IsQuoting(g, s, n)
  BY <1>3
<1> DEFINE h == [i \in 0..n |-> g[i]]
<1>5. h = [i \in 0..n |-> IF i = 0 THEN "plain" ELSE Scanned(h[i - 1], s[i])]
  <2>1. ASSUME NEW i \in 0..n
        PROVE  h[i] = IF i = 0 THEN "plain" ELSE Scanned(h[i - 1], s[i])
    BY <1>4 DEF IsQuoting
  <2> QED BY <2>1
<1> HIDE DEF h
<1> QED BY <1>5

\* The splitter starts in plain text and takes one byte after the other.
LEMMA QuotingStep ==
  ASSUME NEW S, NEW s \in Seq(S)
  PROVE  IsQuoting(Quoting(s), s, Len(s))
<1> DEFINE at == CHOOSE g : g = [i \in 0..Len(s) |-> IF i = 0 THEN "plain"
                                                    ELSE Scanned(g[i - 1], s[i])]
<1>1. at = [i \in 0..Len(s) |-> IF i = 0 THEN "plain" ELSE Scanned(at[i - 1], s[i])]
  <2>1. Len(s) \in Nat
    OBVIOUS
  <2>2. \E g : g = [i \in 0..Len(s) |-> IF i = 0 THEN "plain" ELSE Scanned(g[i - 1], s[i])]
    BY <2>1, QuotingExists
  <2> QED BY <2>2
<1>2. Quoting(s) = at
  BY DEF Quoting
<1> HIDE DEF at
<1>3. at[0] = "plain"
  BY <1>1
<1>4. ASSUME NEW i \in 1..Len(s) PROVE at[i] = Scanned(at[i - 1], s[i])
  BY <1>1
<1> QED BY <1>2, <1>3, <1>4 DEF IsQuoting
-----------------------------------------------------------------------------
(* Slices *)

LEMMA FromProperties ==
  ASSUME NEW S, NEW s \in Seq(S), NEW i \in 1..(Len(s) + 1)
  PROVE  /\ From(s, i) \in Seq(S) /\ Len(From(s, i)) = Len(s) - i + 1
         /\ \A j \in 1..(Len(s) - i + 1) : From(s, i)[j] = s[i + j - 1]
  BY SubSeqProperties DEF From

LEMMA BeforeProperties ==
  ASSUME NEW S, NEW s \in Seq(S), NEW i \in 1..(Len(s) + 1)
  PROVE  /\ Before(s, i) \in Seq(S) /\ Len(Before(s, i)) = i - 1
         /\ \A j \in 1..(i - 1) : Before(s, i)[j] = s[j]
  BY SubSeqProperties DEF Before

LEMMA FirstAtProperties ==
  ASSUME NEW S, NEW s \in Seq(S), NEW bytes
  PROVE  /\ FirstAt(s, bytes) \in 1..(Len(s) + 1)
         /\ FirstAt(s, bytes) <= Len(s) => s[FirstAt(s, bytes)] \in bytes
         /\ \A j \in 1..(FirstAt(s, bytes) - 1) : s[j] \notin bytes
<1> DEFINE T == { i \in DOMAIN s : s[i] \in bytes } \union {Len(s) + 1}
<1>1. T \in SUBSET Nat /\ T # {}
  OBVIOUS
<1>2. PICK m \in T : m = FirstAt(s, bytes) /\ \A x \in T : m <= x
  <2>1. FirstAt(s, bytes) = Min(T)
    BY DEF FirstAt
  <2> HIDE DEF T
  <2> QED BY <1>1, <2>1, MinIsLeast
<1>3. m \in 1..(Len(s) + 1) /\ (m <= Len(s) => s[m] \in bytes)
  OBVIOUS
<1>4. ASSUME NEW j \in 1..(m - 1) PROVE s[j] \notin bytes
  <2>1. j \in DOMAIN s /\ ~(m <= j)
    BY <1>3
  <2>2. j \notin T
    BY <1>2, <2>1
  <2> QED BY <2>1, <2>2
<1> QED BY <1>2, <1>3, <1>4

\* White space is all that is left out before the byte TrimThen stops behind.
LEMMA TrimThenFrom ==
  ASSUME NEW S, NEW s \in Seq(S), NEW i \in 1..(Len(s) + 1), NEW byte,
         NEW t \in TrimThen(From(s, i), byte)
  PROVE  \E q \in i..Len(s) : /\ s[q] = byte /\ \A j \in i..(q - 1) : s[j] = "SP"
                              /\ t = From(s, q + 1)
<1> DEFINE u == From(s, i)
           T == NotSpace(u) \union {Len(u) + 1}
<1>1. /\ u \in Seq(S) /\ Len(u) = Len(s) - i + 1
      /\ \A j \in 1..Len(u) : u[j] = s[i + j - 1]
  BY FromProperties
<1> HIDE DEF u
<1>2. T \in SUBSET Nat /\ T # {} /\ T \subseteq 1..(Len(u) + 1)
  BY <1>1 DEF NotSpace
<1>3. PICK m \in T : m = Min(T) /\ \A x \in T : m <= x
  <2> HIDE DEF T
  <2> QED BY <1>2, MinIsLeast
<1>4. m \in 1..(Len(u) + 1)
  BY <1>2
<1>5. ASSUME NEW j \in 1..(m - 1) PROVE u[j] = "SP"
  <2>1. j \in DOMAIN u /\ ~(m <= j)
    BY <1>1, <1>4
  <2>2. j \notin T
    BY <1>3, <2>1
  <2> QED BY <2>1, <2>2 DEF NotSpace
<1> DEFINE v == From(u, m)
<1>6. TrimStart(u) = v
  BY <1>3 DEF TrimStart
<1> HIDE DEF T
<1>7. v \in Seq(S) /\ Len(v) = Len(u) - m + 1 /\ \A j \in 1..Len(v) : v[j] = u[m + j - 1]
  <2>1. /\ From(u, m) \in Seq(S) /\ Len(From(u, m)) = Len(u) - m + 1
        /\ \A j \in 1..(Len(u) - m + 1) : From(u, m)[j] = u[m + j - 1]
    BY <1>1, <1>4, FromProperties
  <2> QED BY <2>1
<1> HIDE DEF v
<1>8. v # << >> /\ v[1] = byte /\ t = Tail(v)
  BY <1>6 DEF TrimThen, u
<1>9. Len(v) >= 1 /\ m \in 1..Len(u)
  BY <1>1, <1>4, <1>7, <1>8
<1>10. PICK q \in i..Len(s) : q = i + m - 1
  BY <1>1, <1>9
<1>11. s[q] = byte
  <2>1. v[1] = u[m] /\ u[m] = s[i + m - 1]
    BY <1>1, <1>7, <1>9
  <2> QED BY <2>1, <1>8, <1>10
<1>12. ASSUME NEW j \in i..(q - 1) PROVE s[j] = "SP"
  <2>1. PICK k \in 1..(m - 1) : k = j - i + 1
    BY <1>4, <1>10
  <2>2. k \in 1..Len(u) /\ i + k - 1 = j
    BY <1>4, <2>1
  <2> QED BY <2>2, <1>1, <1>5
<1>13. t = From(s, q + 1)
  <2>1. t \in Seq(S) /\ Len(t) = Len(v) - 1 /\ \A j \in 1..Len(t) : t[j] = v[j + 1]
    BY <1>7, <1>8, HeadTailProperties
  <2>2. q + 1 \in 1..(Len(s) + 1)
    BY <1>10
  <2>3. PICK w : w = From(s, q + 1)
    OBVIOUS
  <2>4. /\ w \in Seq(S) /\ Len(w) = Len(s) - (q + 1) + 1
        /\ \A j \in 1..(Len(s) - (q + 1) + 1) : w[j] = s[q + 1 + j - 1]
    BY <2>2, <2>3, FromProperties
  <2>5. Len(t) = Len(w)
    BY <2>1, <2>4, <1>1, <1>4, <1>7, <1>10
  <2>6. ASSUME NEW j \in 1..Len(t) PROVE t[j] = w[j]
    <3>1. PICK k \in 1..Len(u) : k = m + j
      BY <2>1, <1>1, <1>4, <1>7
    <3>2. j + 1 \in 1..Len(v) /\ t[j] = u[k]
      BY <2>1, <3>1, <1>7
    <3>3. u[k] = s[i + k - 1]
      BY <1>1
    <3>4. i + k - 1 = q + 1 + j - 1
      BY <3>1, <1>4, <1>10
    <3>5. w[j] = s[q + 1 + j - 1]
      BY <2>4, <2>5
    <3> QED BY <3>2, <3>3, <3>4, <3>5
  <2> QED BY <2>1, <2>3, <2>4, <2>5, <2>6, SeqEqual
<1> QED BY <1>11, <1>12, <1>13
-----------------------------------------------------------------------------
(* Inside a quoted string *)

LEMMA Parity == \A k \in Nat : (k + 1) % 2 = 0 <=> k % 2 # 0
  OBVIOUS

\* The backslashes right before a position, counted byte by byte.
LEMMA BackslashesStep ==
  ASSUME NEW S, NEW s \in Seq(S), NEW i \in 1..Len(s)
  PROVE  /\ Backslashes(s, 1) = 0
         /\ Backslashes(s, i) \in Nat
         /\ Backslashes(s, i + 1) = IF s[i] = "BS" THEN Backslashes(s, i) + 1 ELSE 0
<1> DEFINE T(k) == { j \in 1..(k - 1) : s[j] # "BS" } \union {0}
<1>1. ASSUME NEW k \in 1..(Len(s) + 1)
      PROVE  \E m \in T(k) : Backslashes(s, k) = k - 1 - m /\ \A x \in T(k) : x <= m
  <2>1. k - 1 \in Nat /\ T(k) \in SUBSET (0..(k - 1)) /\ T(k) # {}
    OBVIOUS
  <2>2. Max(T(k)) \in T(k) /\ \A x \in T(k) : x <= Max(T(k))
    <3> HIDE DEF T
    <3> QED BY <2>1, MaxIsGreatest
  <2> QED BY <2>2 DEF Backslashes
<1>2. Backslashes(s, 1) = 0
  <2>1. T(1) = {0}
    OBVIOUS
  <2>2. PICK m \in T(1) : Backslashes(s, 1) = 1 - 1 - m
    BY <1>1
  <2> QED BY <2>1, <2>2
<1>3. PICK m1 \in T(i) : Backslashes(s, i) = i - 1 - m1 /\ \A x \in T(i) : x <= m1
  BY <1>1
<1>4. PICK m2 \in T(i + 1) : Backslashes(s, i + 1) = i - m2 /\ \A x \in T(i + 1) : x <= m2
  <2>1. i + 1 \in 1..(Len(s) + 1) /\ (i + 1) - 1 = i
    OBVIOUS
  <2>2. PICK m2 \in T(i + 1) :
          Backslashes(s, i + 1) = (i + 1) - 1 - m2 /\ \A x \in T(i + 1) : x <= m2
    BY <2>1, <1>1
  <2> QED BY <2>1, <2>2
<1>5. CASE s[i] = "BS"
  <2>1. T(i + 1) = T(i)
    BY <1>5
  <2>2. m1 = m2
    BY <2>1, <1>3, <1>4
  <2> QED BY <2>2, <1>2, <1>3, <1>4, <1>5
<1>6. CASE s[i] # "BS"
  <2>1. i \in T(i + 1)
    BY <1>6
  <2>2. m2 = i
    BY <2>1, <1>4
  <2> QED BY <2>2, <1>2, <1>3, <1>4, <1>6
<1> QED BY <1>5, <1>6
\* Outside quotes nothing but a quote changes the state.
LEMMA PlainUpto ==
  ASSUME NEW s, NEW n \in Nat, NEW g, IsQuoting(g, s, n), \A i \in 1..n : s[i] # "DQ"
  PROVE  g[n] = "plain"
<1> DEFINE T == { i \in 0..n : g[i] = "plain" }
<1>1. 0 \in T
  BY DEF IsQuoting
<1>2. ASSUME NEW i \in 1..n, i - 1 \in T PROVE i \in T
  <2>1. g[i] = Scanned("plain", s[i]) /\ s[i] # "DQ"
    BY <1>2 DEF IsQuoting
  <2>2. g[i] = "plain"
    BY <2>1 DEF Scanned
  <2> QED BY <2>2
<1>3. n \in T
  <2> HIDE DEF T
  <2>1. 0..n \subseteq T
    BY <1>1, <1>2, UptoInduction
  <2> QED BY <2>1
<1> QED BY <1>3

\* Behind an opening quote and up to the closing one, the splitter is past a
\* backslash that escapes the next byte exactly when the reader of the value
\* counts an odd number of them.
LEMMA QuotedUpto ==
  ASSUME NEW S, NEW p \in Seq(S), NEW q \in 1..Len(p), p[q] = "DQ",
         NEW g, IsQuoting(g, p, Len(p)), g[q - 1] = "plain",
         NEW s \in Seq(S), Len(s) = Len(p) - q, \A i \in 1..Len(s) : s[i] = p[q + i],
         NEW n \in 0..Len(s), \A i \in 1..n : i \notin ClosingQuotes(s)
  PROVE  g[q + n] = IF Backslashes(s, n + 1) % 2 = 0 THEN "quoted" ELSE "escaped"
<1> DEFINE T == { i \in 0..n : g[q + i] = IF Backslashes(s, i + 1) % 2 = 0
                                          THEN "quoted" ELSE "escaped" }
<1>1. 0 \in T
  <2>1. g[q] = "quoted"
    BY DEF IsQuoting, Scanned
  <2>2. Backslashes(s, 1) = 0
    <3>1. { j \in 1..(1 - 1) : s[j] # "BS" } \union {0} = {0} /\ {0} \in SUBSET (0..0)
      OBVIOUS
    <3>2. Max({0}) = 0
      BY <3>1, MaxIsGreatest
    <3> QED BY <3>1, <3>2 DEF Backslashes
  <2> QED BY <2>1, <2>2
<1>2. ASSUME NEW i \in 1..n, i - 1 \in T PROVE i \in T
  <2>1. g[q + i] = Scanned(g[q + i - 1], s[i])
    <3>1. PICK k \in 1..Len(p) : k = q + i
      OBVIOUS
    <3>2. g[k] = Scanned(g[k - 1], p[k])
      BY <3>1 DEF IsQuoting
    <3> QED BY <3>1, <3>2
  <2>2. PICK b \in Nat : b = Backslashes(s, i)
    <3>1. i \in 1..Len(s)
      OBVIOUS
    <3> QED BY <3>1, BackslashesStep
  <2>3. g[q + i - 1] = IF b % 2 = 0 THEN "quoted" ELSE "escaped"
    BY <1>2, <2>2
  <2>4. PICK c \in Nat : c = Backslashes(s, i + 1) /\ c = IF s[i] = "BS" THEN b + 1 ELSE 0
    <3>1. i \in 1..Len(s)
      OBVIOUS
    <3>2. Backslashes(s, i + 1) = IF s[i] = "BS" THEN b + 1 ELSE 0
      BY <3>1, <2>2, BackslashesStep
    <3> QED BY <3>2
  <2>5. s[i] = "DQ" => b % 2 # 0
    BY <2>2 DEF ClosingQuotes
  <2>6. (c % 2 = 0) <=> IF s[i] = "BS" THEN b % 2 # 0 ELSE TRUE
    BY <2>4, Parity
  <2>7. g[q + i] = IF c % 2 = 0 THEN "quoted" ELSE "escaped"
    BY <2>1, <2>3, <2>5, <2>6, Zenon DEF Scanned
  <2> QED BY <2>4, <2>7
<1>3. n \in T
  <2> HIDE DEF T
  <2>1. 0..n \subseteq T
    <3>1. n \in Nat
      OBVIOUS
    <3> QED BY <1>1, <1>2, <3>1, UptoInduction
  <2> QED BY <2>1
<1> QED BY <1>3
-----------------------------------------------------------------------------
\* The two scanners agree on any parameter: a word, white space, an equals sign,
\* white space and a quote, and then any bytes.
LEMMA ScannersMeet ==
  ASSUME NEW S, NEW p \in Seq(S), NEW q \in 1..Len(p), p[q] = "DQ",
         \A i \in 1..(q - 1) : p[i] # "DQ",
         NEW s, s = From(p, q + 1),
         NEW left, left = { i \in DOMAIN s : Quoting(p)[q + i] = "plain" }
  PROVE  IF left = {} THEN ClosingQuotes(s) = {}
         ELSE Min(left) \in ClosingQuotes(s) /\ \A i \in ClosingQuotes(s) : i >= Min(left)
<1>0. /\ s \in Seq(S) /\ Len(s) = Len(p) - q
      /\ \A i \in 1..Len(s) : s[i] = p[q + i]
  <2>1. q + 1 \in 1..(Len(p) + 1)
    OBVIOUS
  <2>2. /\ s \in Seq(S) /\ Len(s) = Len(p) - (q + 1) + 1
        /\ \A j \in 1..(Len(p) - (q + 1) + 1) : s[j] = p[(q + 1) + j - 1]
    BY <2>1, FromProperties
  <2>3. \A j \in Int : (q + 1) + j - 1 = q + j
    OBVIOUS
  <2> QED BY <2>2, <2>3
<1>1. PICK g : g = Quoting(p)
  OBVIOUS
<1>2. IsQuoting(g, p, Len(p))
  BY <1>1, QuotingStep
<1>3. g[q - 1] = "plain"
  <2>1. IsQuoting(g, p, q - 1) /\ q - 1 \in Nat
    BY <1>2 DEF IsQuoting
  <2> QED BY <2>1, PlainUpto
<1>4. ASSUME NEW n \in 0..Len(s), \A i \in 1..n : i \notin ClosingQuotes(s)
      PROVE  g[q + n] = IF Backslashes(s, n + 1) % 2 = 0 THEN "quoted" ELSE "escaped"
  BY <1>0, <1>2, <1>3, <1>4, QuotedUpto
<1>5. ClosingQuotes(s) \subseteq 1..Len(s) /\ left \subseteq 1..Len(s)
  BY <1>0 DEF ClosingQuotes
<1>6. CASE ClosingQuotes(s) = {}
  <2>1. ASSUME NEW i \in left PROVE FALSE
    <3>1. i \in 0..Len(s) /\ \A j \in 1..i : j \notin ClosingQuotes(s)
      BY <1>0, <1>5, <1>6
    <3>2. g[q + i] # "plain"
      BY <1>0, <3>1, <1>4
    <3> QED BY <3>2, <1>1
  <2>2. left = {}
    BY <2>1
  <2> QED BY <2>2, <1>6
<1>7. CASE ClosingQuotes(s) # {}
  <2>1. PICK m \in ClosingQuotes(s) : \A i \in ClosingQuotes(s) : m <= i
    <3>1. ClosingQuotes(s) \in SUBSET Nat
      BY <1>5
    <3> QED BY <3>1, <1>7, MinIsLeast
  <2>2. m \in 1..Len(s)
    BY <1>5
  <2>3. ASSUME NEW i \in 1..(m - 1) PROVE i \notin left
    <3>1. i \in 0..Len(s) /\ \A j \in 1..i : j \notin ClosingQuotes(s)
      BY <1>0, <2>1, <2>2
    <3>2. g[q + i] # "plain"
      BY <1>0, <3>1, <1>4
    <3> QED BY <3>2, <1>1
  <2>4. g[q + m] = "plain"
    <3>1. m - 1 \in 0..Len(s) /\ \A j \in 1..(m - 1) : j \notin ClosingQuotes(s)
      BY <1>0, <2>1, <2>2
    <3>2. s[m] = "DQ" /\ Backslashes(s, m) % 2 = 0
      BY DEF ClosingQuotes
    <3>3. PICK n \in 0..Len(s) : n = m - 1 /\ n + 1 = m
      BY <1>0, <3>1, <2>2
    <3>4. g[q + n] = "quoted"
      BY <1>0, <3>1, <3>2, <3>3, <1>4
    <3>5. PICK k \in 1..Len(p) : k = q + m /\ k - 1 = q + n
      BY <1>0, <2>2, <3>3
    <3>6. g[k] = Scanned(g[k - 1], p[k])
      BY <1>2 DEF IsQuoting
    <3>7. p[k] = "DQ"
      BY <1>0, <3>2, <3>5, <2>2
    <3> QED BY <3>4, <3>5, <3>6, <3>7 DEF Scanned
  <2>5. m \in left
    BY <1>0, <2>2, <2>4, <1>1
  <2>6. Min(left) = m
    <3>1. left \in SUBSET Nat /\ left # {}
      BY <1>5, <2>5
    <3>2. Min(left) \in left /\ Min(left) <= m
      BY <3>1, <2>5, MinIsLeast
    <3>3. Min(left) \in 1..Len(s) /\ Min(left) \notin 1..(m - 1)
      BY <3>2, <2>3, <1>5
    <3> QED BY <3>2, <3>3, <2>2
  <2> QED BY <2>1, <2>2, <2>5, <2>6, <1>5
<1> QED BY <1>6, <1>7

-----------------------------------------------------------------------------
(* The header that is being read *)

Types ==
  /\ lines \in PartHeaders
  /\ remaining \in Seq(STRING)
  /\ sought \in Keys
  /\ attr \in Attrs

LEMMA ParametersType ==
  ASSUME lines \in PartHeaders
  PROVE  Parameters \in Seq(STRING)
<1>1. ASSUME NEW h \in HeaderMap("content-disposition") PROVE h \in Seq(STRING)
  <2> DEFINE at == { i \in DOMAIN lines : lines[i].name = "content-disposition" }
  <2>1. lines \in Seq(Range(lines)) /\ Len(lines) \in Nat /\ DOMAIN lines = 1..Len(lines)
    BY HeadersAssumption, LenProperties
  <2>2. at # {} /\ h = lines[Max(at)].value
    BY DEF HeaderMap
  <2>3. at \in SUBSET (0..Len(lines))
    BY <2>1
  <2>4. Max(at) \in at
    <3> HIDE DEF at
    <3> QED BY <2>1, <2>2, <2>3, MaxIsGreatest
  <2> QED BY <2>2, <2>4, HeadersAssumption
<1>2. ASSUME NEW h \in Header PROVE h \in Seq(STRING)
  <2>1. PICK v \in HeaderMap("content-disposition") : h = AfterType(v)
    BY DEF Header
  <2>2. v \in Seq(STRING)
    BY <1>1
  <2>3. PICK i \in 1..(Len(v) + 1) : i = FirstAt(v, {";"})
    BY <2>2, FirstAtProperties
  <2>4. h = SubSeq(v, i + 1, Len(v))
    BY <2>1, <2>3 DEF AfterType, From
  <2>5. \A j \in (i + 1)..Len(v) : v[j] \in STRING
    BY <2>2
  <2>6. i + 1 \in Int /\ Len(v) \in Int
    BY <2>2
  <2> QED BY <2>4, <2>5, <2>6, SubSeqProperties
<1>3. CASE Header = {}
  BY <1>3 DEF Parameters
<1>4. CASE Header # {}
  BY <1>2, <1>4, Zenon DEF Parameters
<1> QED BY <1>3, <1>4

LEMMA TypesInit == Init => Types
  BY ParametersType DEF Init, Types, Keys, Attrs

LEMMA ParameterEndType ==
  ASSUME remaining \in Seq(STRING)
  PROVE  ParameterEnd(remaining) \in 1..(Len(remaining) + 1)
<1> DEFINE T == { i \in DOMAIN remaining : remaining[i] = ";" /\ Quoting(remaining)[i - 1] = "plain" }
                \union {Len(remaining) + 1}
<1>1. T \in SUBSET Nat /\ T # {} /\ T \subseteq 1..(Len(remaining) + 1)
  <2>1. Len(remaining) \in Nat /\ DOMAIN remaining = 1..Len(remaining)
    BY LenProperties
  <2>2. ASSUME NEW x \in T PROVE x \in 1..(Len(remaining) + 1)
    <3>1. x \in DOMAIN remaining \/ x = Len(remaining) + 1
      BY Zenon
    <3> HIDE DEF T
    <3> QED BY <2>1, <3>1
  <2>3. Len(remaining) + 1 \in T
    BY Zenon
  <2> HIDE DEF T
  <2> QED BY <2>1, <2>2, <2>3
<1>2. Min(T) \in T
  <2> HIDE DEF T
  <2> QED BY <1>1, MinIsLeast
<1>3. ParameterEnd(remaining) = Min(T)
  BY DEF ParameterEnd
<1> HIDE DEF T
<1> QED BY <1>1, <1>2, <1>3

LEMMA ParameterType ==
  ASSUME Types
  PROVE  Parameter \in Seq(STRING)
<1> USE DEF Types
<1>1. PICK u \in Seq(STRING) : u = Before(remaining, ParameterEnd(remaining))
  BY ParameterEndType, BeforeProperties
<1> DEFINE T == NotSpace(u) \union {Len(u) + 1}
<1>2. T \in SUBSET Nat /\ T # {} /\ T \subseteq 1..(Len(u) + 1)
  BY DEF NotSpace
<1>3. PICK m \in 1..(Len(u) + 1) : m = Min(T)
  <2> HIDE DEF T
  <2> QED BY <1>2, MinIsLeast
<1>4. Parameter = From(u, m)
  BY <1>1, <1>3 DEF Parameter, TrimStart
<1> QED BY <1>4, FromProperties

LEMMA TypesStep == Types /\ [Next]_vars => Types'
<1> SUFFICES ASSUME Types, [Next]_vars PROVE Types'
  OBVIOUS
<1> USE DEF Types
<1>1. Parameters \in Seq(STRING)
  BY ParametersType
<1>2. ASSUME NEW v, Found(v) PROVE Types'
  <2>1. CASE FallsBack(v)
    BY <1>1, <1>2, <2>1 DEF Found, Restart, Keys, Attrs
  <2>2. CASE ~FallsBack(v) /\ attr = "Name"
    BY <1>1, <1>2, <2>2 DEF Found, Restart, Keys, Attrs
  <2>3. CASE ~FallsBack(v) /\ attr # "Name"
    BY <1>2, <2>3 DEF Found
  <2> QED BY <2>1, <2>2, <2>3
<1>3. CASE SkipParameter
  <2>1. PICK to \in Int : to = ParameterEnd(remaining)
    BY ParameterEndType
  <2>2. remaining' = SubSeq(remaining, to + 1, Len(remaining))
    BY <1>3, <2>1 DEF SkipParameter, From
  <2>3. to \in 1..(Len(remaining) + 1)
    BY <2>1, ParameterEndType
  <2>4. remaining' \in Seq(STRING)
    BY <2>2, <2>3, SubSeqProperties
  <2> QED BY <1>3, <2>4 DEF SkipParameter
<1>4. CASE ReadParameter
  BY <1>2, <1>4 DEF ReadParameter
<1>5. CASE NoParameterLeft
  BY <1>2, <1>5 DEF NoParameterLeft
<1>6. CASE UNCHANGED vars
  BY <1>6 DEF vars
<1> QED BY <1>3, <1>4, <1>5, <1>6 DEF Next

\* In the state in which a parameter is read, its key is one of the words looked
\* for, and the rest has the form that ScannersMeet is about.
LEMMA Agreement == Types => ScannersAgree
<1> SUFFICES ASSUME Types, IsSought,
                    NEW rest \in RestOf(Parameter), NEW s \in TrimThen(rest, "DQ")
             PROVE  LET open == Len(Parameter) - Len(s)
                        left == { i \in DOMAIN s : Quoting(Parameter)[open + i] = "plain" }
                    IN  IF left = {} THEN ClosingQuotes(s) = {}
                        ELSE /\ Min(left) \in ClosingQuotes(s)
                             /\ \A i \in ClosingQuotes(s) : i >= Min(left)
  BY DEF ScannersAgree
<1>1. PICK p \in Seq(STRING) : p = Parameter
  BY ParameterType
<1>2. PICK a \in 1..(Len(p) + 1) : a = FirstAt(p, {"SP", "="})
  BY FirstAtProperties
<1>3. a = 2 /\ Len(p) >= 1 /\ p[1] # "DQ"
  <2>1. PICK word \in Spellings[sought] : KeyOf(p) = <<word>>
    BY <1>1 DEF IsSought, SameKey
  <2>2. /\ Before(p, a) \in Seq(STRING) /\ Len(Before(p, a)) = a - 1
        /\ \A j \in 1..(a - 1) : Before(p, a)[j] = p[j]
    BY BeforeProperties
  <2>3. Before(p, a) = <<word>>
    BY <2>1, <1>2 DEF KeyOf
  <2>4. a - 1 = 1 /\ p[1] = word
    BY <2>2, <2>3
  <2> QED BY <2>4, SpellingsAssumption DEF Types
<1>4. PICK m \in 2..Len(p) : /\ p[m] = "=" /\ \A j \in 2..(m - 1) : p[j] = "SP"
                             /\ rest = From(p, m + 1)
  <2>1. 2 \in 1..(Len(p) + 1) /\ rest \in TrimThen(From(p, 2), "=")
    BY <1>1, <1>2, <1>3 DEF RestOf
  <2> QED BY <2>1, TrimThenFrom
<1>5. PICK q \in (m + 1)..Len(p) : /\ p[q] = "DQ" /\ \A j \in (m + 1)..(q - 1) : p[j] = "SP"
                                   /\ s = From(p, q + 1)
  <2>1. m + 1 \in 1..(Len(p) + 1) /\ s \in TrimThen(From(p, m + 1), "DQ")
    BY <1>4
  <2> QED BY <2>1, TrimThenFrom
<1>6. \A i \in 1..(q - 1) : p[i] # "DQ"
  BY <1>3, <1>4, <1>5
<1>7. Len(s) = Len(p) - q
  <2>1. q + 1 \in 1..(Len(p) + 1)
    BY <1>4, <1>5
  <2>2. Len(s) = Len(p) - (q + 1) + 1
    BY <2>1, <1>5, FromProperties
  <2> QED BY <2>2, <1>4, <1>5
<1>8. Len(Parameter) - Len(s) = q
  BY <1>1, <1>7, <1>4, <1>5
<1>9. q \in 1..Len(p)
  BY <1>4, <1>5
<1>10. PICK left : left = { i \in DOMAIN s : Quoting(p)[q + i] = "plain" }
  OBVIOUS
<1>11. IF left = {} THEN ClosingQuotes(s) = {}
       ELSE Min(left) \in ClosingQuotes(s) /\ \A i \in ClosingQuotes(s) : i >= Min(left)
  BY <1>5, <1>6, <1>9, <1>10, ScannersMeet
<1>12. left = { i \in DOMAIN s : Quoting(Parameter)[Len(Parameter) - Len(s) + i] = "plain" }
  BY <1>1, <1>8, <1>10, Zenon
<1> QED BY <1>11, <1>12, Zenon

\* Whatever the header: where the splitter leaves the string that a value
\* starts with is where the reader of quoted values finds its end
\* (split_parameters and parse_quoted in src/constants.rs).
THEOREM TheScannersAgree == Spec => []ScannersAgree
<1>1. Spec => []Types
  BY TypesInit, TypesStep, PTL DEF Spec
<1> QED BY <1>1, Agreement, PTL

-----------------------------------------------------------------------------
(* Bytes *)

\* The byte that ends a parameter.  (Its literal is a comment to the SMT solver.)
Semi == ";"

Marks == {Semi, "=", "SP", "DQ", "BS", "SQ", "%", "en", "form-data"}

\* To the provers a literal is in no set but those that name it.
Bytes == STRING \union Marks

\* Every string is a byte, and so is each of the marks.
LEMMA BytesAre ==
  /\ Semi \in Bytes /\ "=" \in Bytes /\ "SP" \in Bytes /\ "DQ" \in Bytes /\ "BS" \in Bytes
  /\ "SQ" \in Bytes /\ "%" \in Bytes /\ "en" \in Bytes /\ "form-data" \in Bytes
  /\ \A x \in STRING : x \in Bytes
  BY DEF Bytes, Marks

LEMMA SemiIsApart ==
  /\ Semi # "=" /\ Semi # "SP" /\ Semi # "DQ" /\ Semi # "BS" /\ Semi # "SQ"
  /\ Semi # "%" /\ Semi # "en" /\ Semi # "form-data"
  BY Zenon DEF Semi

\* What is made of strings is made of bytes.
LEMMA BytesSeq ==
  ASSUME NEW s \in Seq(STRING)
  PROVE  s \in Seq(Bytes)
<1>1. STRING \subseteq Bytes
  BY DEF Bytes
<1> QED BY <1>1, SeqMonotonic

-----------------------------------------------------------------------------
(* Sequences put together, and taken apart again *)

\* Two sequences, one behind the other.
LEMMA Joined ==
  ASSUME NEW a \in Seq(Bytes), NEW b \in Seq(Bytes)
  PROVE  \E c \in Seq(Bytes) :
           /\ c = a \o b /\ Len(c) = Len(a) + Len(b)
           /\ \A i \in 1..Len(a) : c[i] = a[i]
           /\ \A i \in 1..Len(b) : c[Len(a) + i] = b[i]
<1>1. PICK c \in Seq(Bytes) : c = a \o b
  BY ConcatProperties
<1>2. /\ Len(c) = Len(a) + Len(b)
      /\ \A i \in 1..Len(a) : c[i] = a[i]
      /\ \A i \in 1..Len(b) : c[Len(a) + i] = b[i]
  BY <1>1, ConcatProperties
<1> QED BY <1>1, <1>2

\* Cut where they were joined, they are what they were.
LEMMA SlicesOfJoined ==
  ASSUME NEW a \in Seq(Bytes), NEW b \in Seq(Bytes)
  PROVE  /\ Before(a \o b, Len(a) + 1) = a
         /\ From(a \o b, Len(a) + 1) = b
         /\ b # << >> => From(a \o b, Len(a) + 2) = Tail(b)
<1>1. PICK c \in Seq(Bytes) :
        /\ c = a \o b /\ Len(c) = Len(a) + Len(b)
        /\ \A i \in 1..Len(a) : c[i] = a[i]
        /\ \A i \in 1..Len(b) : c[Len(a) + i] = b[i]
  BY Joined
<1>2. Before(c, Len(a) + 1) = a
  <2>1. PICK d \in Seq(Bytes) : d = Before(c, Len(a) + 1) /\ Len(d) = Len(a)
                            /\ \A j \in 1..Len(a) : d[j] = c[j]
    <3>1. PICK k \in 1..(Len(c) + 1) : k = Len(a) + 1
      BY <1>1
    <3>2. /\ Before(c, k) \in Seq(Bytes) /\ Len(Before(c, k)) = k - 1
          /\ \A j \in 1..(k - 1) : Before(c, k)[j] = c[j]
      BY BeforeProperties
    <3>3. k - 1 = Len(a)
      BY <3>1
    <3> QED BY <3>1, <3>2, <3>3
  <2>2. \A j \in 1..Len(d) : d[j] = a[j]
    BY <1>1, <2>1
  <2> QED BY <2>1, <2>2, SeqEqual
<1>3. From(c, Len(a) + 1) = b
  <2>1. PICK d \in Seq(Bytes) : d = From(c, Len(a) + 1) /\ Len(d) = Len(b)
                            /\ \A j \in 1..Len(b) : d[j] = c[Len(a) + j]
    <3>1. PICK k \in 1..(Len(c) + 1) : k = Len(a) + 1
      BY <1>1
    <3>2. /\ From(c, k) \in Seq(Bytes) /\ Len(From(c, k)) = Len(c) - k + 1
          /\ \A j \in 1..(Len(c) - k + 1) : From(c, k)[j] = c[k + j - 1]
      BY FromProperties
    <3>3. Len(c) - k + 1 = Len(b)
      BY <3>1, <1>1
    <3>4. ASSUME NEW j \in 1..Len(b) PROVE From(c, k)[j] = c[Len(a) + j]
      <4>1. k + j - 1 = Len(a) + j
        BY <3>1
      <4> QED BY <3>2, <3>3, <4>1
    <3> QED BY <3>1, <3>2, <3>3, <3>4
  <2>2. \A j \in 1..Len(d) : d[j] = b[j]
    BY <1>1, <2>1
  <2> QED BY <2>1, <2>2, SeqEqual
<1>4. ASSUME b # << >> PROVE From(c, Len(a) + 2) = Tail(b)
  <2>0. Tail(b) \in Seq(Bytes) /\ Len(Tail(b)) = Len(b) - 1
        /\ \A j \in 1..(Len(b) - 1) : Tail(b)[j] = b[j + 1]
    BY <1>4, HeadTailProperties
  <2>1. PICK d \in Seq(Bytes) : d = From(c, Len(a) + 2) /\ Len(d) = Len(b) - 1
                            /\ \A j \in 1..(Len(b) - 1) : d[j] = c[Len(a) + (j + 1)]
    <3>0. Len(b) >= 1
      BY <1>4, EmptySeq
    <3>1. PICK k \in 1..(Len(c) + 1) : k = Len(a) + 2
      BY <1>1, <3>0
    <3>2. /\ From(c, k) \in Seq(Bytes) /\ Len(From(c, k)) = Len(c) - k + 1
          /\ \A j \in 1..(Len(c) - k + 1) : From(c, k)[j] = c[k + j - 1]
      BY FromProperties
    <3>3. Len(c) - k + 1 = Len(b) - 1
      BY <3>1, <1>1
    <3>4. ASSUME NEW j \in 1..(Len(b) - 1) PROVE From(c, k)[j] = c[Len(a) + (j + 1)]
      <4>1. k + j - 1 = Len(a) + (j + 1)
        BY <3>1
      <4> QED BY <3>2, <3>3, <4>1
    <3> QED BY <3>1, <3>2, <3>3, <3>4
  <2>2. ASSUME NEW j \in 1..Len(d) PROVE d[j] = Tail(b)[j]
    <3>1. j + 1 \in 1..Len(b)
      BY <2>1
    <3> QED BY <3>1, <1>1, <2>0, <2>1
  <2> QED BY <2>0, <2>1, <2>2, SeqEqual
<1> QED BY <1>1, <1>2, <1>3, <1>4

\* A search for bytes that a does not hold passes a.
LEMMA FirstBehind ==
  ASSUME NEW a \in Seq(Bytes), NEW b \in Seq(Bytes), NEW bytes,
         \A i \in 1..Len(a) : a[i] \notin bytes, b = << >> \/ b[1] \in bytes
  PROVE  FirstAt(a \o b, bytes) = Len(a) + 1
<1>1. PICK c \in Seq(Bytes) :
        /\ c = a \o b /\ Len(c) = Len(a) + Len(b)
        /\ \A i \in 1..Len(a) : c[i] = a[i]
        /\ \A i \in 1..Len(b) : c[Len(a) + i] = b[i]
  BY Joined
<1>2. PICK m \in 1..(Len(c) + 1) :
        /\ m = FirstAt(c, bytes) /\ (m <= Len(c) => c[m] \in bytes)
        /\ \A j \in 1..(m - 1) : c[j] \notin bytes
  BY FirstAtProperties
<1>3. m >= Len(a) + 1
  <2>1. SUFFICES ASSUME m \in 1..Len(a) PROVE FALSE
    BY <1>1, <1>2
  <2> QED BY <2>1, <1>1, <1>2
<1>4. CASE b = << >>
  BY <1>1, <1>2, <1>3, <1>4
<1>5. CASE b # << >> /\ b[1] \in bytes
  <2>1. Len(b) >= 1
    BY <1>5, EmptySeq
  <2>2. c[Len(a) + 1] \in bytes
    BY <1>1, <1>5, <2>1
  <2>3. SUFFICES ASSUME m > Len(a) + 1 PROVE FALSE
    BY <1>1, <1>2, <1>3
  <2>4. Len(a) + 1 \in 1..(m - 1)
    BY <2>3
  <2> QED BY <2>2, <2>4, <1>2
<1> QED BY <1>4, <1>5

LEMMA OneByte ==
  ASSUME NEW S, NEW x \in S
  PROVE  <<x>> \in Seq(S)
  OBVIOUS

LEMMA Prepended ==
  ASSUME NEW x \in Bytes, NEW s \in Seq(Bytes)
  PROVE  /\ <<x>> \in Seq(Bytes)
         /\ \E c \in Seq(Bytes) :
              /\ c = <<x>> \o s /\ Len(c) = Len(s) + 1
              /\ c # << >> /\ c[1] = x /\ Tail(c) = s
              /\ \A i \in 1..Len(s) : c[i + 1] = s[i]
<1>1. PICK o \in Seq(Bytes) : o = <<x>> /\ Len(o) = 1 /\ o[1] = x
  <2>1. <<x>> \in Seq(Bytes)
    BY OneByte
  <2>2. Len(<<x>>) = 1
    OBVIOUS
  <2>3. <<x>>[1] = x
    OBVIOUS
  <2> QED BY <2>1, <2>2, <2>3
<1>2. PICK c \in Seq(Bytes) :
        /\ c = o \o s /\ Len(c) = Len(o) + Len(s)
        /\ \A i \in 1..Len(o) : c[i] = o[i]
        /\ \A i \in 1..Len(s) : c[Len(o) + i] = s[i]
  BY Joined
<1>3. c # << >> /\ c[1] = x /\ Len(c) = Len(s) + 1
  <2>1. Len(c) >= 1 /\ 1 \in 1..Len(o)
    BY <1>1, <1>2
  <2>2. c # << >>
    BY <2>1, EmptySeq
  <2>3. c[1] = o[1]
    BY <1>2, <2>1
  <2> QED BY <1>1, <1>2, <2>2, <2>3
<1>4. \A i \in 1..Len(s) : c[i + 1] = s[i]
  BY <1>1, <1>2
<1>5. PICK t \in Seq(Bytes) : t = Tail(c) /\ Len(t) = Len(c) - 1
                               /\ \A j \in 1..Len(t) : t[j] = c[j + 1]
  <2>1. /\ Tail(c) \in Seq(Bytes) /\ Len(Tail(c)) = Len(c) - 1
        /\ \A j \in 1..Len(Tail(c)) : Tail(c)[j] = c[j + 1]
    BY <1>3, HeadTailProperties
  <2> QED BY <2>1, Zenon
<1>6. t = s
  <2>1. Len(t) = Len(s)
    BY <1>3, <1>5
  <2>2. \A j \in 1..Len(t) : t[j] = s[j]
    BY <1>4, <1>5, <2>1
  <2> QED BY <2>1, <2>2, SeqEqual
<1>7. c = <<x>> \o s
  BY <1>1, <1>2
<1>8. c # << >> /\ c[1] = x /\ Tail(c) = s /\ Len(c) = Len(s) + 1
  BY <1>3, <1>5, <1>6
<1>9. <<x>> \in Seq(Bytes)
  BY <1>1
<1> QED BY <1>4, <1>7, <1>8, <1>9, Zenon

LEMMA Associative ==
  ASSUME NEW a \in Seq(Bytes), NEW b \in Seq(Bytes), NEW c \in Seq(Bytes)
  PROVE  (a \o b) \o c = a \o (b \o c)
  BY ConcatAssociative

\* White space around a sequence
LEMMA SpacesTrimmed ==
  ASSUME NEW a \in Seq(Bytes), NEW w \in Seq(Bytes), \A i \in 1..Len(a) : a[i] = "SP"
  PROVE  /\ w = << >> \/ w[1] # "SP" => TrimStart(a \o w) = w
         /\ w = << >> \/ w[Len(w)] # "SP" => TrimEnd(w \o a) = w
<1>1. ASSUME w = << >> \/ w[1] # "SP" PROVE TrimStart(a \o w) = w
  <2>1. PICK c \in Seq(Bytes) :
          /\ c = a \o w /\ Len(c) = Len(a) + Len(w)
          /\ \A i \in 1..Len(a) : c[i] = a[i]
          /\ \A i \in 1..Len(w) : c[Len(a) + i] = w[i]
    BY Joined
  <2> DEFINE T == NotSpace(c) \union {Len(c) + 1}
  <2>2. T \in SUBSET Nat /\ T # {}
    BY DEF NotSpace
  <2>3. Min(T) \in T /\ \A x \in T : Min(T) <= x
    <3> HIDE DEF T
    <3> QED BY <2>2, MinIsLeast
  <2>4. PICK m \in Nat : m = Min(T)
    BY <2>2, <2>3
  <2>5. m >= Len(a) + 1
    <3>1. m = Len(c) + 1 \/ (m \in 1..Len(c) /\ c[m] # "SP")
      BY <2>3, <2>4 DEF NotSpace
    <3> QED BY <2>1, <3>1
  <2>6. m = Len(a) + 1
    <3>1. CASE w = << >>
      <4>1. Len(a) + 1 \in T
        BY <3>1, <2>1
      <4> HIDE DEF T
      <4> QED BY <4>1, <2>3, <2>4, <2>5
    <3>2. CASE w # << >>
      <4>1. Len(w) >= 1
        BY <3>2, EmptySeq
      <4>2. Len(a) + 1 \in 1..Len(c) /\ c[Len(a) + 1] = w[1]
        BY <2>1, <4>1
      <4>3. Len(a) + 1 \in T
        BY <4>2, <1>1, <3>2 DEF NotSpace
      <4> HIDE DEF T
      <4> QED BY <4>3, <2>3, <2>4, <2>5
    <3> QED BY <3>1, <3>2
  <2>7. TrimStart(c) = From(c, m)
    BY <2>4 DEF TrimStart
  <2>8. From(c, Len(a) + 1) = w
    BY <2>1, SlicesOfJoined
  <2> QED BY <2>1, <2>6, <2>7, <2>8
<1>2. ASSUME w = << >> \/ w[Len(w)] # "SP" PROVE TrimEnd(w \o a) = w
  <2>1. PICK c \in Seq(Bytes) :
          /\ c = w \o a /\ Len(c) = Len(w) + Len(a)
          /\ \A i \in 1..Len(w) : c[i] = w[i]
          /\ \A i \in 1..Len(a) : c[Len(w) + i] = a[i]
    BY Joined
  <2> DEFINE T == NotSpace(c) \union {0}
  <2>2. Len(c) \in Nat /\ T \in SUBSET (0..Len(c)) /\ T # {}
    BY DEF NotSpace
  <2>3. Max(T) \in T /\ \A x \in T : x <= Max(T)
    <3> HIDE DEF T
    <3> QED BY <2>2, MaxIsGreatest
  <2>4. PICK m \in Nat : m = Max(T)
    BY <2>2, <2>3
  <2>5. m <= Len(w)
    <3>1. SUFFICES ASSUME m > Len(w) PROVE FALSE
      BY <2>4
    <3>2. m \in 1..Len(c) /\ c[m] # "SP"
      BY <3>1, <2>3, <2>4 DEF NotSpace
    <3>3. PICK k \in 1..Len(a) : m = Len(w) + k
      <4>1. m - Len(w) \in 1..Len(a) /\ m = Len(w) + (m - Len(w))
        BY <3>1, <3>2, <2>1
      <4> QED BY <4>1
    <3> QED BY <3>2, <3>3, <2>1
  <2>6. m = Len(w)
    <3>1. CASE w = << >>
      BY <3>1, <2>5
    <3>2. CASE w # << >>
      <4>1. Len(w) >= 1
        BY <3>2, EmptySeq
      <4>2. Len(w) \in 1..Len(c) /\ c[Len(w)] = w[Len(w)]
        BY <2>1, <4>1
      <4>3. Len(w) \in T
        BY <4>2, <1>2, <3>2 DEF NotSpace
      <4> HIDE DEF T
      <4> QED BY <4>3, <2>3, <2>4, <2>5
    <3> QED BY <3>1, <3>2
  <2>7. TrimEnd(c) = Before(c, Len(w) + 1)
    <3>1. Len(w) + 1 - 1 = Len(w)
      OBVIOUS
    <3>2. TrimEnd(c) = SubSeq(c, 1, m)
      BY <2>4 DEF TrimEnd
    <3> QED BY <3>1, <3>2, <2>6 DEF Before
  <2>8. Before(c, Len(w) + 1) = w
    BY <2>1, SlicesOfJoined
  <2> QED BY <2>1, <2>7, <2>8
<1> QED BY <1>1, <1>2

-----------------------------------------------------------------------------
(* Where a parameter ends *)

\* A string that no quote inside it closes, and that a quote behind it does.
Closed(e) ==
  /\ \A i \in 1..Len(e) : e[i] = "DQ" => Backslashes(e, i) % 2 # 0
  /\ Backslashes(e, Len(e) + 1) % 2 = 0

\* None of these bytes occurs.
Free(s, bytes) == \A i \in 1..Len(s) : s[i] \notin bytes

\* The backslashes before a byte do not depend on what is behind it.
LEMMA BackslashesBefore ==
  ASSUME NEW a \in Seq(Bytes), NEW c \in Seq(Bytes), NEW i \in 1..(Len(a) + 1),
         \A j \in 1..Len(a) : c[j] = a[j]
  PROVE  Backslashes(c, i) = Backslashes(a, i)
<1>1. { j \in 1..(i - 1) : c[j] # "BS" } = { j \in 1..(i - 1) : a[j] # "BS" }
  <2>1. \A j \in 1..(i - 1) : j \in 1..Len(a)
    OBVIOUS
  <2> QED BY <2>1
<1> QED BY <1>1 DEF Backslashes

\* The reader of a quoted value stops where the string it was written from stops.
LEMMA ClosesBehind ==
  ASSUME NEW e \in Seq(Bytes), Closed(e), NEW v \in Seq(Bytes)
  PROVE  \E s \in Seq(Bytes) :
           /\ s = e \o (<<"DQ">> \o v)
           /\ \A i \in 1..Len(e) : s[i] = e[i]
           /\ s[Len(e) + 1] = "DQ"
           /\ \A i \in 1..Len(v) : s[Len(e) + 1 + i] = v[i]
           /\ Len(s) = Len(e) + 1 + Len(v)
           /\ \A i \in 1..Len(e) : i \notin ClosingQuotes(s)
           /\ Backslashes(s, Len(e) + 1) % 2 = 0
           /\ Len(e) + 1 \in ClosingQuotes(s)
           /\ Min(ClosingQuotes(s)) = Len(e) + 1
<1>1. PICK w \in Seq(Bytes) :
        /\ w = <<"DQ">> \o v /\ Len(w) = Len(v) + 1
        /\ w # << >> /\ w[1] = "DQ" /\ Tail(w) = v
        /\ \A i \in 1..Len(v) : w[i + 1] = v[i]
  <2>1. "DQ" \in Bytes
    BY BytesAre
  <2> QED BY <2>1, Prepended
<1>2. PICK c \in Seq(Bytes) :
        /\ c = e \o w /\ Len(c) = Len(e) + Len(w)
        /\ \A i \in 1..Len(e) : c[i] = e[i]
        /\ \A i \in 1..Len(w) : c[Len(e) + i] = w[i]
  BY Joined
<1>3. c[Len(e) + 1] = "DQ" /\ Len(c) = Len(e) + 1 + Len(v)
  BY <1>1, <1>2
<1>4. ASSUME NEW i \in 1..Len(v) PROVE c[Len(e) + 1 + i] = v[i]
  <2>1. i + 1 \in 1..Len(w) /\ Len(e) + (i + 1) = Len(e) + 1 + i
    BY <1>1
  <2>2. c[Len(e) + (i + 1)] = w[i + 1]
    BY <1>2, <2>1
  <2> QED BY <1>1, <2>1, <2>2
<1>5. ASSUME NEW i \in 1..Len(e) PROVE i \notin ClosingQuotes(c)
  <2>1. i \in 1..(Len(e) + 1)
    OBVIOUS
  <2>2. Backslashes(c, i) = Backslashes(e, i)
    BY <1>2, <2>1, BackslashesBefore
  <2>3. c[i] = e[i]
    BY <1>2
  <2>4. ~(c[i] = "DQ" /\ Backslashes(c, i) % 2 = 0)
    BY <2>2, <2>3 DEF Closed
  <2> QED BY <2>4 DEF ClosingQuotes
<1>6. Backslashes(c, Len(e) + 1) % 2 = 0
  <2>1. PICK k \in 1..(Len(e) + 1) : k = Len(e) + 1
    OBVIOUS
  <2>2. Backslashes(c, k) = Backslashes(e, k)
    BY <1>2, BackslashesBefore
  <2> QED BY <2>1, <2>2 DEF Closed
<1>7. Len(e) + 1 \in ClosingQuotes(c)
  BY <1>2, <1>3, <1>6 DEF ClosingQuotes
<1>8. Min(ClosingQuotes(c)) = Len(e) + 1
  <2>1. ClosingQuotes(c) \in SUBSET (1..Len(c))
    BY DEF ClosingQuotes
  <2>2. ClosingQuotes(c) \in SUBSET Nat
    BY <2>1
  <2>3. PICK m \in Nat : /\ m = Min(ClosingQuotes(c)) /\ m \in ClosingQuotes(c)
                         /\ \A x \in ClosingQuotes(c) : m <= x
    BY <1>7, <2>2, MinIsLeast
  <2>4. m \in 1..Len(c) /\ m <= Len(e) + 1
    BY <1>7, <2>1, <2>3
  <2>5. m \notin 1..Len(e)
    BY <1>5, <2>3
  <2> QED BY <2>3, <2>4, <2>5
<1>9. c = e \o (<<"DQ">> \o v) /\ \A i \in 1..Len(e) : c[i] = e[i]
  BY <1>1, <1>2
<1> QED BY <1>3, <1>4, <1>5, <1>6, <1>7, <1>8, <1>9, Zenon

\* Behind the last quote nothing is quoted.
LEMMA PlainFrom ==
  ASSUME NEW s, NEW n \in Nat, NEW g, IsQuoting(g, s, n), NEW m \in 0..n, g[m] = "plain",
         \A i \in (m + 1)..n : s[i] # "DQ"
  PROVE  g[n] = "plain"
<1> DEFINE h == [i \in 0..(n - m) |-> g[m + i]]
           r == [i \in 1..(n - m) |-> s[m + i]]
<1>1. IsQuoting(h, r, n - m)
  <2>1. h[0] = "plain"
    OBVIOUS
  <2>2. ASSUME NEW i \in 1..(n - m) PROVE h[i] = Scanned(h[i - 1], r[i])
    <3>1. PICK k \in 1..n : k = m + i
      OBVIOUS
    <3>2. g[k] = Scanned(g[k - 1], s[k])
      BY DEF IsQuoting
    <3>3. h[i] = g[k] /\ h[i - 1] = g[k - 1] /\ r[i] = s[k]
      BY <3>1
    <3> QED BY <3>2, <3>3
  <2> HIDE DEF h, r
  <2> QED BY <2>1, <2>2 DEF IsQuoting
<1>2. ASSUME NEW i \in 1..(n - m) PROVE r[i] # "DQ"
  OBVIOUS
<1>3. n - m \in Nat /\ h[n - m] = g[n]
  OBVIOUS
<1> HIDE DEF h, r
<1>4. h[n - m] = "plain"
  BY <1>1, <1>2, <1>3, PlainUpto
<1> QED BY <1>3, <1>4

LEMMA ParameterEndIs ==
  ASSUME NEW c, NEW g, g = Quoting(c)
  PROVE  ParameterEnd(c) =
           Min({ i \in DOMAIN c : c[i] = Semi /\ g[i - 1] = "plain" } \union {Len(c) + 1})
  BY Zenon DEF ParameterEnd, Semi

\* A parameter ends at the first semicolon outside of strings.
LEMMA EndsAt ==
  ASSUME NEW c \in Seq(Bytes), NEW g, g = Quoting(c), NEW n \in 0..Len(c), g[n] = "plain",
         n < Len(c) => c[n + 1] = Semi,
         \A i \in 1..n : c[i] = Semi => g[i - 1] # "plain"
  PROVE  ParameterEnd(c) = n + 1
<1> DEFINE T == { i \in DOMAIN c : c[i] = Semi /\ g[i - 1] = "plain" } \union {Len(c) + 1}
<1>1. T \in SUBSET Nat /\ T # {} /\ T \subseteq 1..(Len(c) + 1)
  OBVIOUS
<1>2. n + 1 \in T
  <2>1. CASE n = Len(c)
    BY <2>1
  <2>2. CASE n < Len(c)
    <3>1. n + 1 \in DOMAIN c /\ (n + 1) - 1 = n
      BY <2>2
    <3> QED BY <2>2, <3>1
  <2> QED BY <2>1, <2>2
<1>3. \A i \in 1..n : i \notin T
  OBVIOUS
<1>4. ParameterEnd(c) = Min(T)
  BY ParameterEndIs
<1> HIDE DEF T
<1>5. PICK m \in Nat : m = Min(T) /\ m \in T /\ \A x \in T : m <= x
  BY <1>1, MinIsLeast
<1>6. m <= n + 1 /\ m \in 1..(Len(c) + 1) /\ m \notin 1..n
  BY <1>1, <1>2, <1>3, <1>5
<1>7. Min(T) = n + 1
  BY <1>5, <1>6
<1> QED BY <1>4, <1>7, Zenon

\* Up to the quote that closes it, a string's bytes are quoted or escaped.
LEMMA InString ==
  ASSUME NEW p \in Seq(Bytes), NEW q \in 1..Len(p), p[q] = "DQ",
         NEW g, IsQuoting(g, p, Len(p)), g[q - 1] = "plain",
         NEW s \in Seq(Bytes), Len(s) = Len(p) - q, \A i \in 1..Len(s) : s[i] = p[q + i],
         NEW n \in 0..Len(s), \A i \in 1..n : i \notin ClosingQuotes(s)
  PROVE  g[q + n] = IF Backslashes(s, n + 1) % 2 = 0 THEN "quoted" ELSE "escaped"
  BY QuotedUpto

InQuotes(u, e, v) == u \o (<<"DQ">> \o (e \o (<<"DQ">> \o v)))

Behind(tail) == tail = << >> \/ tail[1] = Semi

\* The splitter takes b for a parameter when tail follows it.
EndsBefore(b, tail) == ParameterEnd(b \o tail) = Len(b) + 1

\* What has no quote ends at its first semicolon.
LEMMA PlainEnds ==
  ASSUME NEW b \in Seq(Bytes), Free(b, {Semi, "DQ"}), NEW tail \in Seq(Bytes), Behind(tail)
  PROVE  EndsBefore(b, tail)
<1>1. PICK c \in Seq(Bytes) :
        /\ c = b \o tail /\ Len(c) = Len(b) + Len(tail)
        /\ \A i \in 1..Len(b) : c[i] = b[i]
        /\ \A i \in 1..Len(tail) : c[Len(b) + i] = tail[i]
  BY Joined
<1>2. PICK n \in 0..Len(c) : n = Len(b)
  BY <1>1
<1>0. PICK g : g = Quoting(c)
  OBVIOUS
<1>3. n \in Nat /\ IsQuoting(g, c, n)
  <2>1. IsQuoting(g, c, Len(c))
    BY <1>0, QuotingStep
  <2> QED BY <2>1 DEF IsQuoting
<1>4. \A i \in 1..n : c[i] \notin {Semi, "DQ"}
  BY <1>1, <1>2 DEF Free
<1>5. g[n] = "plain"
  BY <1>3, <1>4, PlainUpto
<1>6. n < Len(c) => c[n + 1] = Semi
  <2>1. ASSUME n < Len(c) PROVE tail # << >> /\ 1 \in 1..Len(tail)
    BY <1>1, <1>2, <2>1
  <2> QED BY <1>1, <1>2, <2>1 DEF Behind
<1>7. ParameterEnd(c) = n + 1
  BY <1>0, <1>4, <1>5, <1>6, EndsAt
<1> QED BY <1>1, <1>2, <1>7 DEF EndsBefore

LEMMA QuoteBetween ==
  ASSUME NEW a \in Seq(Bytes), NEW b \in Seq(Bytes), NEW c \in Seq(Bytes)
  PROVE  (a \o (<<"DQ">> \o b)) \o c = a \o (<<"DQ">> \o (b \o c))
<1>1. <<"DQ">> \in Seq(Bytes)
  BY OneByte, BytesAre
<1>2. <<"DQ">> \o b \in Seq(Bytes)
  BY <1>1, ConcatProperties
<1>3. (a \o (<<"DQ">> \o b)) \o c = a \o ((<<"DQ">> \o b) \o c)
  BY <1>2, Associative, Zenon
<1>4. (<<"DQ">> \o b) \o c = <<"DQ">> \o (b \o c)
  BY <1>1, Associative, Zenon
<1> QED BY <1>3, <1>4, Zenon

Regroups(u, e, v, tail) == InQuotes(u, e, v) \o tail = InQuotes(u, e, v \o tail)

LEMMA Regrouped ==
  ASSUME NEW u \in Seq(Bytes), NEW e \in Seq(Bytes), NEW v \in Seq(Bytes), NEW tail \in Seq(Bytes)
  PROVE  Regroups(u, e, v, tail)
<1>1. e \o (<<"DQ">> \o v) \in Seq(Bytes)
  BY ClosesBehind, ConcatProperties, OneByte, BytesAre
<1>2. (u \o (<<"DQ">> \o (e \o (<<"DQ">> \o v)))) \o tail
      = u \o (<<"DQ">> \o ((e \o (<<"DQ">> \o v)) \o tail))
  <2>1. PICK f \in Seq(Bytes) : f = e \o (<<"DQ">> \o v)
    BY <1>1, Zenon
  <2>2. (u \o (<<"DQ">> \o f)) \o tail = u \o (<<"DQ">> \o (f \o tail))
    BY ZenonT(40), QuoteBetween
  <2> QED BY <2>1, <2>2, Zenon
<1>3. (e \o (<<"DQ">> \o v)) \o tail = e \o (<<"DQ">> \o (v \o tail))
  BY QuoteBetween, Zenon
<1> QED BY <1>2, <1>3, Zenon DEF InQuotes, Regroups

\* What has one closed string ends behind it, whatever the string holds.
LEMMA QuotedEnds ==
  ASSUME NEW u \in Seq(Bytes), Free(u, {Semi, "DQ"}), NEW e \in Seq(Bytes), Closed(e),
         NEW v \in Seq(Bytes), Free(v, {Semi, "DQ"}), NEW tail \in Seq(Bytes), Behind(tail),
         NEW b \in Seq(Bytes), b = InQuotes(u, e, v)
  PROVE  EndsBefore(b, tail)
<1>0. Regroups(u, e, v, tail)
  BY Regrouped
<1>1. PICK w \in Seq(Bytes) :
        /\ w = v \o tail /\ Len(w) = Len(v) + Len(tail)
        /\ \A i \in 1..Len(v) : w[i] = v[i]
        /\ \A i \in 1..Len(tail) : w[Len(v) + i] = tail[i]
  BY Joined
<1>2. PICK s \in Seq(Bytes) :
         /\ s = e \o (<<"DQ">> \o w)
         /\ \A i \in 1..Len(e) : s[i] = e[i]
         /\ s[Len(e) + 1] = "DQ"
         /\ \A i \in 1..Len(w) : s[Len(e) + 1 + i] = w[i]
         /\ Len(s) = Len(e) + 1 + Len(w)
         /\ \A i \in 1..Len(e) : i \notin ClosingQuotes(s)
         /\ Backslashes(s, Len(e) + 1) % 2 = 0
         /\ Len(e) + 1 \in ClosingQuotes(s)
         /\ Min(ClosingQuotes(s)) = Len(e) + 1
  BY ClosesBehind
<1>3. PICK d \in Seq(Bytes) :
        /\ d = <<"DQ">> \o s /\ Len(d) = Len(s) + 1
        /\ d # << >> /\ d[1] = "DQ" /\ Tail(d) = s
        /\ \A i \in 1..Len(s) : d[i + 1] = s[i]
  <2>1. "DQ" \in Bytes
    BY BytesAre
  <2> QED BY <2>1, Prepended
<1>4. PICK c \in Seq(Bytes) :
        /\ c = u \o d /\ Len(c) = Len(u) + Len(d)
        /\ \A i \in 1..Len(u) : c[i] = u[i]
        /\ \A i \in 1..Len(d) : c[Len(u) + i] = d[i]
  BY ZenonT(40), Joined
<1>5. c = b \o tail
  <2>1. c = InQuotes(u, e, w) /\ w = v \o tail
    BY <1>1, <1>2, <1>3, <1>4, Zenon DEF InQuotes
  <2> QED BY <2>1, <1>0, Zenon DEF Regroups
<1>6. PICK g : g = Quoting(c)
  OBVIOUS
<1>7. IsQuoting(g, c, Len(c))
  BY <1>6, QuotingStep
<1>8. PICK q \in 1..Len(c) : q = Len(u) + 1
  BY <1>3, <1>4
<1>9. c[q] = "DQ" /\ \A i \in 1..Len(s) : s[i] = c[q + i]
  <2>1. 1 \in 1..Len(d)
    BY <1>3
  <2>2. c[q] = "DQ"
    BY <1>3, <1>4, <1>8, <2>1
  <2>3. ASSUME NEW i \in 1..Len(s) PROVE s[i] = c[q + i]
    <3>1. i + 1 \in 1..Len(d) /\ Len(u) + (i + 1) = q + i
      BY <1>3, <1>8
    <3>2. c[Len(u) + (i + 1)] = d[i + 1]
      BY <3>1, <1>4
    <3> QED BY <3>1, <3>2, <1>3
  <2> QED BY <2>2, <2>3
<1>10. Len(s) = Len(c) - q
  BY <1>3, <1>4, <1>8
<1>11. g[q - 1] = "plain"
  <2>1. q - 1 \in Nat /\ IsQuoting(g, c, q - 1)
    BY <1>7, <1>8 DEF IsQuoting
  <2>2. \A i \in 1..(q - 1) : c[i] # "DQ"
    BY <1>4, <1>8 DEF Free
  <2> QED BY <2>1, <2>2, PlainUpto
<1>12. ASSUME NEW n \in 0..Len(e)
       PROVE  g[q + n] = IF Backslashes(s, n + 1) % 2 = 0 THEN "quoted" ELSE "escaped"
  <2>1. n \in 0..Len(s) /\ \A i \in 1..n : i \notin ClosingQuotes(s)
    BY <1>2
  <2> QED BY <1>7, <1>9, <1>10, <1>11, <2>1, InString
<1>13. PICK close \in 1..Len(c) : close = q + Len(e) + 1
  BY <1>2, <1>10, <1>8
<1>14. g[close] = "plain"
  <2>1. Len(e) \in 0..Len(e)
    OBVIOUS
  <2>2. g[q + Len(e)] = "quoted"
    BY <1>2, <1>12, <2>1
  <2>3. c[close] = "DQ"
    <3>1. PICK k \in 1..Len(s) : k = Len(e) + 1
      BY <1>2
    <3>2. s[k] = c[q + k] /\ q + k = close
      BY <1>9, <1>13, <3>1
    <3> QED BY <1>2, <3>1, <3>2
  <2>4. g[close] = Scanned(g[close - 1], c[close])
    BY <1>7 DEF IsQuoting
  <2>5. close - 1 = q + Len(e)
    BY <1>13
  <2>6. g[close] = Scanned("quoted", "DQ")
    BY <2>2, <2>3, <2>4, <2>5
  <2>7. Scanned("quoted", "DQ") = "plain"
    BY DEF Scanned
  <2> QED BY <2>6, <2>7, Zenon
<1>15. PICK n \in 0..Len(c) : n = close + Len(v) /\ n = Len(b)
  <2>1. Len(c) = Len(b) + Len(tail)
    BY <1>5, ConcatProperties
  <2>2. Len(c) = close + Len(w)
    BY <1>2, <1>10, <1>13
  <2> QED BY <1>1, <2>1, <2>2, <1>13
<1>16. ASSUME NEW i \in (close + 1)..n PROVE c[i] \notin {Semi, "DQ"}
  <2>1. PICK k \in 1..Len(v) : i = close + k
    <3>1. i - close \in 1..Len(v) /\ i = close + (i - close)
      BY <1>15
    <3> QED BY <3>1
  <2>2. w[k] = v[k] /\ k \in 1..Len(w)
    BY <1>1
  <2>0. Len(s) = Len(e) + 1 + Len(w) /\ Len(w) \in Nat /\ k \in 1..Len(w)
    BY <1>2, <2>2
  <2>3. PICK j \in 1..Len(s) : j = Len(e) + 1 + k
    BY <2>0
  <2>4. s[j] = w[k]
    BY <1>2, <2>2, <2>3
  <2>5. c[i] = s[j]
    <3>1. q + j = i
      BY <1>13, <2>1, <2>3
    <3> QED BY <1>9, <3>1
  <2> QED BY <2>2, <2>4, <2>5 DEF Free
<1>17. g[n] = "plain"
  <2>0. n \in Nat /\ close \in 0..n
    BY <1>15
  <2>1. IsQuoting(g, c, n)
    BY <1>7 DEF IsQuoting
  <2>2. \A i \in (close + 1)..n : c[i] # "DQ"
    BY <1>16
  <2> QED BY <2>0, <2>1, <2>2, <1>14, PlainFrom
<1>18. ASSUME NEW i \in 1..n, c[i] = Semi PROVE g[i - 1] # "plain"
  <2>1. ~(i > close)
    BY <1>16, <1>18
  <2>2. ~(i < q)
    <3>1. ASSUME i < q PROVE FALSE
      <4>1. i \in 1..Len(u)
        BY <3>1, <1>8
      <4> QED BY <4>1, <1>4, <1>18 DEF Free
    <3> QED BY <3>1
  <2>3. i # q /\ i # close
    <3>1. c[close] = "DQ"
      <4>1. PICK k \in 1..Len(s) : k = Len(e) + 1
        BY <1>2
      <4>2. s[k] = c[q + k] /\ q + k = close
        BY <1>9, <1>13, <4>1
      <4> QED BY <1>2, <4>1, <4>2
    <3> QED BY <3>1, <1>9, <1>18, SemiIsApart
  <2>4. PICK k \in 0..Len(e) : q + k = i - 1
    <3>1. (i - 1) - q \in 0..Len(e) /\ q + ((i - 1) - q) = i - 1
      BY <2>1, <2>2, <2>3, <1>13, <1>8
    <3> QED BY <3>1
  <2>5. g[q + k] \in {"quoted", "escaped"}
    BY <1>12
  <2> QED BY <2>4, <2>5
<1>19. n < Len(c) => c[n + 1] = Semi
  <2>1. SUFFICES ASSUME n < Len(c) PROVE c[n + 1] = Semi
    OBVIOUS
  <2>2. PICK c2 \in Seq(Bytes) :
        /\ c2 = b \o tail /\ Len(c2) = Len(b) + Len(tail)
        /\ \A i \in 1..Len(b) : c2[i] = b[i]
        /\ \A i \in 1..Len(tail) : c2[Len(b) + i] = tail[i]
    BY Joined
  <2>3. tail # << >> /\ 1 \in 1..Len(tail)
    BY <1>5, <1>15, <2>1, <2>2
  <2>4. c2[Len(b) + 1] = Semi
    BY <2>2, <2>3 DEF Behind
  <2> QED BY <2>2, <2>4, <1>5, <1>15
<1>20. ParameterEnd(c) = n + 1
  BY <1>6, <1>17, <1>18, <1>19, EndsAt
<1> QED BY <1>5, <1>15, <1>20, Zenon DEF EndsBefore

-----------------------------------------------------------------------------
(* What FlattenSeq puts together *)

Concatenates(g, q, n) ==
  /\ g[0] = << >>
  /\ \A i \in 1..n : g[i] = g[i - 1] \o q[i]

LEMMA ConcatenationTypes ==
  ASSUME NEW q, NEW n \in Nat, \A i \in 1..n : q[i] \in Seq(Bytes), NEW g, Concatenates(g, q, n)
  PROVE  \A i \in 0..n : g[i] \in Seq(Bytes)
<1> DEFINE T == { i \in 0..n : g[i] \in Seq(Bytes) }
<1>1. 0 \in T
  <2>1. g[0] \in Seq(Bytes)
    BY EmptySeq DEF Concatenates
  <2> QED BY <2>1
<1>2. ASSUME NEW i \in 1..n, i - 1 \in T PROVE i \in T
  <2>0. i \in 0..n
    OBVIOUS
  <2>1. q[i] \in Seq(Bytes) /\ g[i] = g[i - 1] \o q[i] /\ g[i - 1] \in Seq(Bytes)
    BY <1>2, <2>0 DEF Concatenates
  <2>2. g[i] \in Seq(Bytes)
    BY <2>1, ConcatProperties
  <2> QED BY <2>2
<1>3. 0..n \subseteq T
  <2>1. n \in Nat
    OBVIOUS
  <2> HIDE DEF T
  <2> QED BY <1>1, <1>2, <2>1, UptoInduction
<1> QED BY <1>3

\* Two concatenations of the same pieces are equal.
LEMMA ConcatenationUnique ==
  ASSUME NEW q, NEW r, NEW n \in Nat, \A i \in 1..n : q[i] = r[i],
         NEW g, NEW h, Concatenates(g, q, n), Concatenates(h, r, n)
  PROVE  g[n] = h[n]
<1> DEFINE T == { i \in 0..n : g[i] = h[i] }
<1>1. 0 \in T
  BY DEF Concatenates
<1>2. ASSUME NEW i \in 1..n, i - 1 \in T PROVE i \in T
  <2>1. g[i] = g[i - 1] \o q[i] /\ h[i] = h[i - 1] \o r[i] /\ q[i] = r[i]
    BY DEF Concatenates
  <2>2. g[i - 1] = h[i - 1]
    BY <1>2
  <2>3. g[i] = h[i]
    BY <2>1, <2>2
  <2> QED BY <2>3
<1>3. 0..n \subseteq T
  <2> HIDE DEF T
  <2> QED BY <1>1, <1>2, UptoInduction
<1> QED BY <1>3

\* The recursion by which FlattenSeq is defined has a solution.
LEMMA ConcatenationExists ==
  ASSUME NEW q, NEW n \in Nat
  PROVE  \E g : Concatenates(g, q, n)
<1> DEFINE T == { m \in 0..n : \E g : Concatenates(g, q, m) }
<1>1. 0 \in T
  <2>1. Concatenates([i \in {0} |-> << >>], q, 0)
    BY DEF Concatenates
  <2> QED BY <2>1
<1>2. ASSUME NEW m \in 1..n, m - 1 \in T PROVE m \in T
  <2>1. PICK g : Concatenates(g, q, m - 1)
    BY <1>2
  <2> DEFINE h == [i \in 0..m |-> IF i = m THEN g[m - 1] \o q[m] ELSE g[i]]
  <2>2. h[0] = << >>
    BY <2>1 DEF Concatenates
  <2>3. ASSUME NEW i \in 1..m PROVE h[i] = h[i - 1] \o q[i]
    <3>1. h[i - 1] = g[i - 1]
      OBVIOUS
    <3>2. CASE i = m
      BY <3>1, <3>2
    <3>3. CASE i # m
      <4>1. i \in 1..(m - 1) /\ h[i] = g[i]
        BY <3>3
      <4> QED BY <4>1, <3>1, <2>1 DEF Concatenates
    <3> QED BY <3>2, <3>3
  <2> HIDE DEF h
  <2>4. Concatenates(h, q, m)
    BY <2>2, <2>3 DEF Concatenates
  <2> QED BY <2>4
<1>3. n \in T
  <2> HIDE DEF T
  <2> QED BY <1>1, <1>2, UptoInduction
<1> QED BY <1>3

\* FlattenSeq is a concatenation, piece after piece.
LEMMA FlattenConcatenates ==
  ASSUME NEW q, q \in Seq(Seq(Bytes)), NEW n \in Nat, n = Len(q), NEW g, Concatenates(g, q, n)
  PROVE  FlattenSeq(q) = g[n]
<1>0. n \in Nat
  OBVIOUS
<1>1. CASE n = 0
  <2>1. q = << >>
    BY <1>1, EmptySeq
  <2>1a. FlattenSeq(q) = q
    BY <1>1 DEF FlattenSeq
  <2> QED BY <1>1, <2>1, <2>1a DEF Concatenates
<1>2. CASE n # 0
  <2> DEFINE F(f) == [i \in 1..Len(q) |-> IF i = 1 THEN q[i] ELSE f[i - 1] \o q[i]]
             flatten == CHOOSE f : f = F(f)
             h == [i \in 1..n |-> g[i]]
  <2>1. h = F(h)
    <3>1. ASSUME NEW i \in 1..n PROVE h[i] = IF i = 1 THEN q[i] ELSE h[i - 1] \o q[i]
      <4>0. q[i] \in Seq(Bytes) /\ << >> \o q[i] = q[i]
        BY ConcatEmptySeq
      <4>1. h[i] = g[i - 1] \o q[i]
        BY DEF Concatenates
      <4>2. CASE i = 1
        <5>1. h[i] = << >> \o q[i]
          <6>1. g[i - 1] = << >>
            BY <4>2 DEF Concatenates
          <6> QED BY <4>1, <6>1
        <5> QED BY <4>0, <4>2, <5>1
      <4>3. CASE i # 1
        <5>1. i - 1 \in 1..n
          BY <1>0, <4>3
        <5>2. h[i - 1] = g[i - 1]
          BY <5>1
        <5> HIDE DEF h
        <5> QED BY <4>1, <4>3, <5>2
      <4> QED BY <4>2, <4>3
    <3> QED BY <3>1
  <2>2. flatten = F(flatten)
    <3> HIDE DEF h, F
    <3> QED BY <2>1
  <2>3. FlattenSeq(q) = flatten[n]
    BY <1>2 DEF FlattenSeq
  <2> HIDE DEF flatten
  <2> DEFINE k == [i \in 0..n |-> IF i = 0 THEN << >> ELSE flatten[i]]
  <2>4. Concatenates(k, q, n)
    <3>1. ASSUME NEW i \in 1..n PROVE k[i] = k[i - 1] \o q[i]
      <4>1. q[i] \in Seq(Bytes) /\ << >> \o q[i] = q[i]
        BY ConcatEmptySeq
      <4>2. flatten[i] = IF i = 1 THEN q[i] ELSE flatten[i - 1] \o q[i]
        BY <2>2
      <4>3. CASE i = 1
        <5>1. k[i - 1] = << >> /\ k[i] = flatten[i]
          BY <4>3
        <5> QED BY <4>1, <4>2, <4>3, <5>1
      <4>4. CASE i # 1
        <5>1. i - 1 \in 1..n
          BY <4>4
        <5>2. k[i - 1] = flatten[i - 1] /\ k[i] = flatten[i]
          BY <5>1
        <5> QED BY <4>2, <4>4, <5>2
      <4> QED BY <4>3, <4>4
    <3>2. k[0] = << >>
      OBVIOUS
    <3> HIDE DEF k
    <3> QED BY <3>1, <3>2 DEF Concatenates
  <2>5. k[n] = flatten[n]
    BY <1>0, <1>2
  <2> HIDE DEF k
  <2>6. k[n] = g[n]
    BY <1>0, <2>4, ConcatenationUnique
  <2> QED BY <2>3, <2>5, <2>6
<1> QED BY <1>1, <1>2

\* What follows each piece.
Follows(h, q, n) ==
  /\ h[n + 1] = << >>
  /\ \A i \in 1..n : h[i] = q[i] \o h[i + 1]

\* The rest of a concatenation from each of its pieces on.
LEMMA SuffixesExist ==
  ASSUME NEW q, NEW n \in Nat, \A i \in 1..n : q[i] \in Seq(Bytes)
  PROVE  \E h : Follows(h, q, n) /\ \A i \in 1..(n + 1) : h[i] \in Seq(Bytes)
<1> DEFINE Good(h, k) == /\ h[n + 1] = << >> /\ h[n + 1] \in Seq(Bytes)
                         /\ \A i \in (n - k + 1)..n : h[i] = q[i] \o h[i + 1] /\ h[i] \in Seq(Bytes)
           T == { k \in 0..n : \E h : Good(h, k) }
<1>1. 0 \in T
  <2> DEFINE h == [i \in {n + 1} |-> << >>]
  <2>1. h[n + 1] = << >>
    OBVIOUS
  <2>2. << >> \in Seq(Bytes)
    BY EmptySeq
  <2> HIDE DEF h
  <2>3. \A i \in (n - 0 + 1)..n : FALSE
    OBVIOUS
  <2>4. Good(h, 0)
    BY <2>1, <2>2, <2>3
  <2> HIDE DEF Good
  <2> QED BY <2>4
<1>2. ASSUME NEW k \in 1..n, k - 1 \in T PROVE k \in T
  <2>1. PICK h : Good(h, k - 1)
    BY <1>2
  <2>2. PICK m \in 1..n : m = n - k + 1
    OBVIOUS
  <2>3. h[n + 1] = << >> /\ h[n + 1] \in Seq(Bytes)
    BY <2>1
  <2>4. \A i \in (m + 1)..n : h[i] = q[i] \o h[i + 1] /\ h[i] \in Seq(Bytes)
    <3>1. n - (k - 1) + 1 = m + 1
      BY <2>2
    <3> QED BY <2>1, <3>1
  <2>5. PICK z \in Seq(Bytes) : z = q[m] \o h[m + 1]
    <3>1. h[m + 1] \in Seq(Bytes)
      <4>1. CASE m = n
        BY <4>1, <2>3
      <4>2. CASE m < n
        <5>1. m + 1 \in (m + 1)..n
          BY <4>2
        <5> QED BY <5>1, <2>4
      <4> QED BY <4>1, <4>2
    <3> QED BY <3>1, ConcatProperties
  <2> DEFINE f == [i \in m..(n + 1) |-> IF i = m THEN z ELSE h[i]]
  <2>6. f[m] = z /\ \A i \in (m + 1)..(n + 1) : f[i] = h[i]
    OBVIOUS
  <2> HIDE DEF f
  <2>7. f[n + 1] = << >> /\ f[n + 1] \in Seq(Bytes)
    <3>1. n + 1 \in (m + 1)..(n + 1)
      OBVIOUS
    <3>2. f[n + 1] = h[n + 1]
      BY <2>6, <3>1
    <3> QED BY <2>3, <3>2
  <2>8. ASSUME NEW i \in m..n PROVE f[i] = q[i] \o f[i + 1] /\ f[i] \in Seq(Bytes)
    <3>1. f[i + 1] = h[i + 1]
      BY <2>6
    <3>2. CASE i = m
      BY <3>1, <3>2, <2>5, <2>6
    <3>3. CASE i # m
      <4>1. i \in (m + 1)..n /\ i \in (m + 1)..(n + 1)
        BY <3>3
      <4> QED BY <3>1, <4>1, <2>4, <2>6
    <3> QED BY <3>2, <3>3
  <2>9. Good(f, k)
    BY <2>2, <2>7, <2>8
  <2> HIDE DEF Good
  <2> QED BY <2>9
<1>3. n \in T
  <2> HIDE DEF T
  <2>1. 0..n \subseteq T
    BY <1>1, <1>2, UptoInduction
  <2>2. n \in 0..n
    OBVIOUS
  <2> QED BY <2>1, <2>2
<1>4. PICK h : Good(h, n)
  BY <1>3
<1>5. h[n + 1] = << >> /\ h[n + 1] \in Seq(Bytes)
  BY <1>4
<1>6. \A i \in 1..n : h[i] = q[i] \o h[i + 1] /\ h[i] \in Seq(Bytes)
  <2>1. n - n + 1 = 1
    OBVIOUS
  <2> QED BY <1>4, <2>1
<1>7. ASSUME NEW i \in 1..(n + 1) PROVE h[i] \in Seq(Bytes)
  <2>1. CASE i = n + 1
    BY <2>1, <1>5
  <2>2. CASE i # n + 1
    <3>1. i \in 1..n
      BY <2>2
    <3> QED BY <3>1, <1>6
  <2> QED BY <2>1, <2>2
<1>8. Follows(h, q, n)
  BY <1>5, <1>6 DEF Follows
<1> QED BY <1>7, <1>8

\* s is the pieces of q, put together; up to a piece it is g, behind it h.
Splits(g, h, q, n, s) ==
  /\ g[0] = << >> /\ h[n + 1] = << >> /\ s = g[n] /\ s \in Seq(Bytes)
  /\ \A i \in 1..n : q[i] \in Seq(Bytes)
  /\ \A i \in 0..n : g[i] \in Seq(Bytes) /\ h[i + 1] \in Seq(Bytes) /\ s = g[i] \o h[i + 1]
  /\ \A i \in 1..n : g[i] = g[i - 1] \o q[i] /\ h[i] = q[i] \o h[i + 1]

LEMMA Regroup ==
  ASSUME NEW a \in Seq(Bytes), NEW b \in Seq(Bytes), NEW c \in Seq(Bytes),
         NEW ab, ab = a \o b, NEW bc, bc = b \o c
  PROVE  ab \o c = a \o bc
<1>1. (a \o b) \o c = a \o (b \o c)
  BY Associative
<1> QED BY <1>1, Zenon

LEMMA PiecesSplit ==
  ASSUME NEW q, NEW n \in Nat, \A i \in 1..n : q[i] \in Seq(Bytes)
  PROVE  \E g, h : Concatenates(g, q, n) /\ Splits(g, h, q, n, g[n])
<1>1. \A i \in 1..n : q[i] \in Seq(Bytes)
  OBVIOUS
<1>2. PICK g : Concatenates(g, q, n)
  BY ConcatenationExists
<1>3. \A i \in 0..n : g[i] \in Seq(Bytes)
  BY <1>1, <1>2, ConcatenationTypes
<1>4. PICK h : Follows(h, q, n) /\ \A i \in 1..(n + 1) : h[i] \in Seq(Bytes)
  BY <1>1, SuffixesExist
<1>6. PICK s \in Seq(Bytes) : s = g[n]
  BY <1>3
<1> DEFINE Whole(k) == g[n - k] \o h[n - k + 1] = s
           T == { k \in 0..n : Whole(k) }
<1>7. 0 \in T
  <2>1. h[n - 0 + 1] = << >> /\ n - 0 = n
    BY <1>4 DEF Follows
  <2>2. s \o << >> = s
    BY ConcatEmptySeq
  <2>3. Whole(0)
    BY <1>6, <2>1, <2>2
  <2> HIDE DEF Whole
  <2> QED BY <2>3
<1>8. ASSUME NEW k \in 1..n, k - 1 \in T PROVE k \in T
  <2>1. PICK i \in 1..n : i = n - k + 1
    OBVIOUS
  <2>2. i - 1 = n - k /\ i = n - (k - 1) /\ i + 1 = n - (k - 1) + 1 /\ i = n - k + 1
    BY <2>1
  <2>3. g[i] \o h[i + 1] = s
    <3>1. Whole(k - 1)
      BY <1>8
    <3> QED BY <2>2, <3>1
  <2>4. g[i - 1] \in Seq(Bytes) /\ q[i] \in Seq(Bytes) /\ h[i + 1] \in Seq(Bytes)
    BY <1>1, <1>3, <1>4
  <2>5. g[i] = g[i - 1] \o q[i] /\ h[i] = q[i] \o h[i + 1]
    BY <1>2, <1>4 DEF Concatenates, Follows
  <2>6. g[i] \o h[i + 1] = g[i - 1] \o h[i]
    <3>1. PICK a, b, c \in Seq(Bytes) : a = g[i - 1] /\ b = q[i] /\ c = h[i + 1]
      BY <2>4
    <3>2. PICK ab, bc : ab = g[i] /\ bc = h[i] /\ ab = a \o b /\ bc = b \o c
      BY <2>5, <3>1
    <3>3. ab \o c = a \o bc
      BY <3>2, Regroup
    <3> QED BY <3>1, <3>2, <3>3, Zenon
  <2>7. Whole(k)
    BY <2>2, <2>3, <2>6
  <2> HIDE DEF Whole
  <2> QED BY <2>7
<1>9. 0..n \subseteq T
  <2> HIDE DEF T
  <2> QED BY <1>7, <1>8, UptoInduction
<1>10. ASSUME NEW i \in 0..n
       PROVE  g[i] \in Seq(Bytes) /\ h[i + 1] \in Seq(Bytes) /\ s = g[i] \o h[i + 1]
  <2>1. PICK k \in 0..n : k = n - i
    OBVIOUS
  <2>2. n - k = i /\ n - k + 1 = i + 1
    BY <2>1
  <2>3. Whole(k)
    BY <1>9
  <2>4. i + 1 \in 1..(n + 1)
    OBVIOUS
  <2> QED BY <1>3, <1>4, <2>2, <2>3, <2>4
<1>11. \A i \in 1..n : g[i] = g[i - 1] \o q[i] /\ h[i] = q[i] \o h[i + 1]
  BY <1>2, <1>4 DEF Concatenates, Follows
<1>12. g[0] = << >> /\ h[n + 1] = << >>
  BY <1>2, <1>4 DEF Concatenates, Follows
<1>13. Splits(g, h, q, n, s)
  BY <1>1, <1>6, <1>10, <1>11, <1>12 DEF Splits
<1> QED BY <1>2, <1>6, <1>13

\* FlattenSeq, seen from either end.
LEMMA FlattenSplits ==
  ASSUME NEW q \in Seq(Seq(Bytes)), NEW n \in Nat, n = Len(q)
  PROVE  \E g, h : Splits(g, h, q, n, FlattenSeq(q))
<1>1. \A i \in 1..n : q[i] \in Seq(Bytes)
  OBVIOUS
<1>2. PICK g, h : Concatenates(g, q, n) /\ Splits(g, h, q, n, g[n])
  BY <1>1, PiecesSplit
<1>3. FlattenSeq(q) = g[n]
  BY <1>2, FlattenConcatenates
<1> QED BY <1>2, <1>3

-----------------------------------------------------------------------------
(* Pieces *)

\* What holds of the bytes of each piece holds of all bytes.
LEMMA PiecesHold ==
  ASSUME NEW g, NEW h, NEW q, NEW n \in Nat, NEW s, Splits(g, h, q, n, s), NEW good,
         \A i \in 1..n : \A j \in 1..Len(q[i]) : q[i][j] \in good
  PROVE  \A j \in 1..Len(s) : s[j] \in good
<1> DEFINE T == { i \in 0..n : \A j \in 1..Len(g[i]) : g[i][j] \in good }
<1>1. 0 \in T
  BY DEF Splits
<1>2. ASSUME NEW i \in 1..n, i - 1 \in T PROVE i \in T
  <2>1. i - 1 \in 0..n /\ i \in 0..n
    OBVIOUS
  <2>2. PICK a, b \in Seq(Bytes) : a = g[i - 1] /\ b = q[i] /\ g[i] = a \o b
    BY <2>1 DEF Splits
  <2>3. PICK c \in Seq(Bytes) :
          /\ c = a \o b /\ Len(c) = Len(a) + Len(b)
          /\ \A j \in 1..Len(a) : c[j] = a[j]
          /\ \A j \in 1..Len(b) : c[Len(a) + j] = b[j]
    BY Joined
  <2>4. \A j \in 1..Len(a) : a[j] \in good
    BY <1>2, <2>2
  <2>5. \A j \in 1..Len(b) : b[j] \in good
    BY <2>2
  <2>6. ASSUME NEW j \in 1..Len(c) PROVE c[j] \in good
    <3>1. CASE j <= Len(a)
      BY <3>1, <2>3, <2>4
    <3>2. CASE j > Len(a)
      <4>1. PICK k \in 1..Len(b) : j = Len(a) + k
        <5>1. j - Len(a) \in 1..Len(b) /\ j = Len(a) + (j - Len(a))
          BY <3>2, <2>3
        <5> QED BY <5>1
      <4> QED BY <4>1, <2>3, <2>5
    <3> QED BY <3>1, <3>2
  <2>7. g[i] = c
    BY <2>2, <2>3
  <2> QED BY <2>1, <2>6, <2>7
<1>3. n \in T
  <2> HIDE DEF T
  <2>1. 0..n \subseteq T
    BY <1>1, <1>2, UptoInduction
  <2>2. n \in 0..n
    OBVIOUS
  <2> QED BY <2>1, <2>2
<1>4. s = g[n]
  BY DEF Splits
<1> QED BY <1>3, <1>4

\* Where the pieces stand.
Placed(g, h, q, n, s) ==
  \A i \in 1..n :
    /\ g[i - 1] \in Seq(Bytes) /\ q[i] \in Seq(Bytes) /\ g[i] \in Seq(Bytes)
    /\ h[i] \in Seq(Bytes) /\ h[i + 1] \in Seq(Bytes) /\ s \in Seq(Bytes)
    /\ Len(g[i]) = Len(g[i - 1]) + Len(q[i])
    /\ Len(s) = Len(g[i]) + Len(h[i + 1])
    /\ \A j \in 1..Len(q[i]) : s[Len(g[i - 1]) + j] = q[i][j]
    /\ \A j \in 1..Len(h[i + 1]) : s[Len(g[i]) + j] = h[i + 1][j]

\* Where the bytes of each piece stand in the whole.
LEMMA PiecesPlaced ==
  ASSUME NEW g, NEW h, NEW q, NEW n \in Nat, NEW s, Splits(g, h, q, n, s)
  PROVE  Placed(g, h, q, n, s)
<1>1. ASSUME NEW i \in 1..n
      PROVE  /\ g[i - 1] \in Seq(Bytes) /\ q[i] \in Seq(Bytes) /\ g[i] \in Seq(Bytes)
             /\ h[i] \in Seq(Bytes) /\ h[i + 1] \in Seq(Bytes) /\ s \in Seq(Bytes)
             /\ Len(g[i]) = Len(g[i - 1]) + Len(q[i])
             /\ Len(s) = Len(g[i]) + Len(h[i + 1])
             /\ \A j \in 1..Len(q[i]) : s[Len(g[i - 1]) + j] = q[i][j]
             /\ \A j \in 1..Len(h[i + 1]) : s[Len(g[i]) + j] = h[i + 1][j]
  <2>1. i - 1 \in 0..n /\ i \in 0..n /\ (i - 1) + 1 = i
    OBVIOUS
  <2>2. PICK a, b, c, d \in Seq(Bytes) : a = g[i - 1] /\ b = q[i] /\ c = g[i] /\ d = h[i + 1]
    BY <2>1 DEF Splits
  <2>3. c = a \o b
    BY <2>2 DEF Splits
  <2>4. s = c \o d
    BY <2>1, <2>2 DEF Splits
  <2>5. h[i] \in Seq(Bytes)
    <3>1. h[(i - 1) + 1] \in Seq(Bytes)
      BY <2>1 DEF Splits
    <3> QED BY <3>1, <2>1
  <2>6. PICK x \in Seq(Bytes) :
          /\ x = a \o b /\ Len(x) = Len(a) + Len(b)
          /\ \A j \in 1..Len(a) : x[j] = a[j]
          /\ \A j \in 1..Len(b) : x[Len(a) + j] = b[j]
    BY Joined
  <2>7. PICK y \in Seq(Bytes) :
          /\ y = c \o d /\ Len(y) = Len(c) + Len(d)
          /\ \A j \in 1..Len(c) : y[j] = c[j]
          /\ \A j \in 1..Len(d) : y[Len(c) + j] = d[j]
    BY Joined
  <2>8. x = c /\ y = s
    BY <2>3, <2>4, <2>6, <2>7
  <2>9. ASSUME NEW j \in 1..Len(b) PROVE s[Len(a) + j] = b[j]
    <3>1. Len(a) + j \in 1..Len(c)
      BY <2>6, <2>8
    <3> QED BY <3>1, <2>6, <2>7, <2>8
  <2>10. Len(c) = Len(a) + Len(b) /\ Len(s) = Len(c) + Len(d) /\ s \in Seq(Bytes)
    BY <2>6, <2>7, <2>8
  <2>11. \A j \in 1..Len(d) : s[Len(c) + j] = d[j]
    BY <2>7, <2>8
  <2> QED BY <2>2, <2>5, <2>9, <2>10, <2>11, Zenon
<1> QED BY <1>1 DEF Placed

-----------------------------------------------------------------------------
(* Escaped quotes *)

Escaping(s) == \A j \in 1..Len(s) : s[j] = "DQ" => Backslashes(s, j) % 2 # 0
Ending(s)   == Backslashes(s, Len(s) + 1)

\* The number of backslashes before a byte is a natural one.
LEMMA BackslashesNat ==
  ASSUME NEW s \in Seq(Bytes), NEW i \in 1..(Len(s) + 1)
  PROVE  Backslashes(s, i) \in Nat
<1>1. i - 1 \in Nat
  OBVIOUS
<1>2. PICK T : T = { j \in 1..(i - 1) : s[j] # "BS" } \union {0}
  OBVIOUS
<1>3. T \in SUBSET (0..(i - 1)) /\ T # {}
  BY <1>2
<1>4. Max(T) \in T
  BY <1>1, <1>3, MaxIsGreatest
<1>5. Max(T) \in 0..(i - 1)
  BY <1>3, <1>4
<1>6. Backslashes(s, i) = i - 1 - Max(T)
  BY <1>2 DEF Backslashes
<1> QED BY <1>5, <1>6

LEMMA NoBackslashes ==
  ASSUME NEW s \in Seq(Bytes)
  PROVE  Backslashes(s, 1) = 0
<1>1. { j \in 1..(1 - 1) : s[j] # "BS" } \union {0} = {0} /\ {0} \in SUBSET (0..0)
  OBVIOUS
<1>2. Max({0}) = 0
  BY <1>1, MaxIsGreatest
<1> QED BY <1>1, <1>2 DEF Backslashes

\* One more byte: which quotes are escaped, and what the end would do to the next.
LEMMA ByteBehind ==
  ASSUME NEW a \in Seq(Bytes), Escaping(a), NEW x \in Bytes, x = "DQ" => Ending(a) % 2 # 0,
         NEW c \in Seq(Bytes), Len(c) = Len(a) + 1, \A j \in 1..Len(a) : c[j] = a[j],
         c[Len(a) + 1] = x
  PROVE  /\ Escaping(c) /\ Ending(a) \in Nat
         /\ Ending(c) = IF x = "BS" THEN Ending(a) + 1 ELSE 0
<1>1. PICK m \in 1..Len(c) : m = Len(a) + 1 /\ Len(c) = m /\ c[m] = x
  OBVIOUS
<1>2. ASSUME NEW j \in 1..(Len(a) + 1) PROVE Backslashes(c, j) = Backslashes(a, j)
  BY BackslashesBefore
<1>3. Backslashes(c, m) = Ending(a) /\ Ending(a) \in Nat
  <2>1. m \in 1..(Len(a) + 1)
    BY <1>1
  <2> QED BY <2>1, <1>1, <1>2, BackslashesNat DEF Ending
<1>4. Backslashes(c, m + 1) = IF x = "BS" THEN Ending(a) + 1 ELSE 0
  BY <1>1, <1>3, BackslashesStep
<1>5. ASSUME NEW j \in 1..Len(c), c[j] = "DQ" PROVE Backslashes(c, j) % 2 # 0
  <2>1. CASE j = m
    BY <2>1, <1>1, <1>3, <1>5
  <2>2. CASE j # m
    <3>1. j \in 1..Len(a)
      BY <2>2, <1>1
    <3>2. a[j] = "DQ" /\ Backslashes(c, j) = Backslashes(a, j)
      BY <3>1, <1>2, <1>5
    <3> QED BY <3>1, <3>2 DEF Escaping
  <2> QED BY <2>1, <2>2
<1> QED BY <1>1, <1>3, <1>4, <1>5 DEF Escaping, Ending

LEMMA ByteAppended ==
  ASSUME NEW a \in Seq(Bytes), Escaping(a), NEW x \in Bytes, x = "DQ" => Ending(a) % 2 # 0,
         NEW c, c = a \o <<x>>
  PROVE  /\ c \in Seq(Bytes) /\ Escaping(c) /\ Ending(a) \in Nat
         /\ Ending(c) = IF x = "BS" THEN Ending(a) + 1 ELSE 0
<1>1. c \in Seq(Bytes) /\ Len(c) = Len(a) + 1 /\ (\A j \in 1..Len(a) : c[j] = a[j]) /\ c[Len(a) + 1] = x
  <2>1. PICK o \in Seq(Bytes) : o = <<x>>
    BY OneByte
  <2>2. Len(o) = 1 /\ o[1] = x
    BY <2>1
  <2>3. PICK d \in Seq(Bytes) :
          /\ d = a \o o /\ Len(d) = Len(a) + Len(o)
          /\ \A j \in 1..Len(a) : d[j] = a[j]
          /\ \A j \in 1..Len(o) : d[Len(a) + j] = o[j]
    BY Joined
  <2>4. c = d
    BY <2>1, <2>3
  <2>5. d[Len(a) + 1] = o[1]
    BY <2>2, <2>3
  <2> QED BY <2>2, <2>3, <2>4, <2>5
<1> QED BY <1>1, ByteBehind

LEMMA Pair ==
  ASSUME NEW x \in Bytes, NEW y \in Bytes
  PROVE  /\ <<x, y>> \in Seq(Bytes) /\ Len(<<x, y>>) = 2
         /\ <<x, y>>[1] = x /\ <<x, y>>[2] = y
  OBVIOUS

LEMMA PairAppended ==
  ASSUME NEW a \in Seq(Bytes), NEW x \in Bytes, NEW y \in Bytes
  PROVE  /\ a \o <<x>> \in Seq(Bytes)
         /\ a \o <<x, y>> = (a \o <<x>>) \o <<y>>
<1>1. PICK o, p \in Seq(Bytes) : o = <<x>> /\ p = <<y>>
  BY OneByte
<1>2. <<x, y>> = o \o p
  <2>1. Len(o) = 1 /\ o[1] = x /\ Len(p) = 1 /\ p[1] = y
    BY <1>1
  <2>2. PICK c \in Seq(Bytes) :
          /\ c = o \o p /\ Len(c) = Len(o) + Len(p)
          /\ \A i \in 1..Len(o) : c[i] = o[i]
          /\ \A i \in 1..Len(p) : c[Len(o) + i] = p[i]
    BY Joined
  <2>3. Len(c) = 2 /\ c[1] = x /\ c[2] = y
    BY <2>1, <2>2
  <2>4. c = <<x, y>>
    BY <2>3
  <2> QED BY <2>2, <2>4
<1>3. (a \o o) \o p = a \o (o \o p)
  BY Associative
<1>4. a \o o \in Seq(Bytes)
  BY ConcatProperties
<1> QED BY <1>1, <1>2, <1>3, <1>4, Zenon

EscapePieces(q, t) ==
  \A i \in 1..Len(t) : q[i] = IF t[i] = "DQ" THEN <<"BS", "DQ">> ELSE <<t[i]>>

LEMMA EscapePiece ==
  ASSUME NEW q, NEW t, EscapePieces(q, t), NEW i \in 1..Len(t)
  PROVE  /\ t[i] # "DQ" => q[i] = <<t[i]>> /\ Len(q[i]) = 1 /\ q[i][1] = t[i]
         /\ t[i] = "DQ" => q[i] = <<"BS", "DQ">> /\ Len(q[i]) = 2 /\ q[i][1] = "BS" /\ q[i][2] = "DQ"
<1>1. ASSUME t[i] # "DQ" PROVE q[i] = <<t[i]>>
  BY <1>1 DEF EscapePieces
<1>2. ASSUME t[i] = "DQ" PROVE q[i] = <<"BS", "DQ">>
  BY <1>2 DEF EscapePieces
<1>3. Len(<<t[i]>>) = 1 /\ <<t[i]>>[1] = t[i]
  OBVIOUS
<1>4. Len(<<"BS", "DQ">>) = 2 /\ <<"BS", "DQ">>[1] = "BS" /\ <<"BS", "DQ">>[2] = "DQ"
  OBVIOUS
<1> QED BY <1>1, <1>2, <1>3, <1>4, Zenon

\* Escape goes byte by byte.
LEMMA EscapeSplits ==
  ASSUME NEW t \in Seq(Bytes)
  PROVE  \E q, g, h : EscapePieces(q, t) /\ Splits(g, h, q, Len(t), Escape(t))
<1>1. PICK n \in Nat : n = Len(t) /\ DOMAIN t = 1..n
  OBVIOUS
<1>2. PICK q : q = [ i \in 1..n |-> IF t[i] = "DQ" THEN <<"BS", "DQ">> ELSE <<t[i]>> ]
  OBVIOUS
<1>3. <<"BS", "DQ">> \in Seq(Bytes) /\ \A x \in Bytes : <<x>> \in Seq(Bytes)
  <2>1. "BS" \in Bytes /\ "DQ" \in Bytes
    BY BytesAre
  <2> QED BY <2>1, Pair, OneByte
<1>4. ASSUME NEW i \in 1..n PROVE q[i] \in Seq(Bytes)
  <2>1. t[i] \in Bytes
    BY <1>1
  <2> QED BY <2>1, <1>2, <1>3
<1>5. q \in Seq(Seq(Bytes)) /\ Len(q) = n
  <2> HIDE <1>3
  <2>1. q \in [1..n -> Seq(Bytes)]
    BY <1>2, <1>4
  <2> QED BY <2>1, SeqDef
<1>6. PICK g, h : Splits(g, h, q, n, FlattenSeq(q))
  BY <1>5, FlattenSplits
<1>7. Escape(t) = FlattenSeq(q)
  BY <1>1, <1>2, Zenon DEF Escape
<1>8. EscapePieces(q, t)
  BY <1>1, <1>2 DEF EscapePieces
<1> QED BY <1>1, <1>6, <1>7, <1>8, Zenon

\* A quote in an escaped text stands behind an odd number of backslashes.
LEMMA EscapeCloses ==
  ASSUME NEW t \in Seq(Bytes), Quotable(t)
  PROVE  Escape(t) \in Seq(Bytes) /\ Closed(Escape(t))
<1>1. PICK q, g, h : EscapePieces(q, t) /\ Splits(g, h, q, Len(t), Escape(t))
  BY EscapeSplits
<1>2. PICK n \in Nat : n = Len(t)
  OBVIOUS
<1>3. PICK e \in Seq(Bytes) : e = Escape(t)
  BY <1>1 DEF Splits
<1>4. Splits(g, h, q, n, e)
  BY <1>1, <1>2, <1>3
<1>5. ASSUME NEW i \in 1..(n + 1), i <= n => t[i] = "DQ" PROVE Backslashes(t, i) % 2 = 0
  BY <1>2, <1>5 DEF Quotable
<1> DEFINE Kept(i) == Escaping(g[i]) /\ Ending(g[i]) = Backslashes(t, i + 1)
           T == { i \in 0..n : Kept(i) }
<1>6. 0 \in T
  <2>1. g[0] = << >> /\ << >> \in Seq(Bytes)
    BY <1>4, EmptySeq DEF Splits
  <2>2. Escaping(<< >>)
    BY DEF Escaping
  <2>3. Ending(<< >>) = 0
    <3>1. Backslashes(<< >>, 1) = 0
      BY <2>1, NoBackslashes
    <3>2. Len(<< >>) + 1 = 1
      OBVIOUS
    <3> QED BY <3>1, <3>2 DEF Ending
  <2>4. Backslashes(t, 1) = 0
    BY NoBackslashes
  <2>5. Kept(0)
    <3>1. 0 + 1 = 1
      OBVIOUS
    <3> QED BY <2>1, <2>2, <2>3, <2>4, <3>1
  <2> HIDE DEF Kept
  <2> QED BY <2>5
<1>7. ASSUME NEW i \in 1..n, i - 1 \in T PROVE i \in T
  <2>1. Kept(i - 1) /\ (i - 1) + 1 = i /\ i - 1 \in 0..n /\ i \in 0..n
    BY <1>7
  <2>2. PICK a, c \in Seq(Bytes) : a = g[i - 1] /\ c = g[i] /\ c = a \o q[i]
    BY <1>4, <2>1 DEF Splits
  <2>3. Escaping(a) /\ Ending(a) = Backslashes(t, i)
    BY <2>1, <2>2
  <2>4. PICK x \in Bytes : x = t[i]
    BY <1>2
  <2>5. Backslashes(t, i) \in Nat /\ Backslashes(t, i + 1) = IF x = "BS" THEN Backslashes(t, i) + 1 ELSE 0
    <3>1. i \in 1..Len(t)
      BY <1>2
    <3> QED BY <3>1, <2>4, BackslashesStep
  <2>6. Escaping(c) /\ Ending(c) = Backslashes(t, i + 1)
    <3>1. CASE x # "DQ"
      <4>1. q[i] = <<x>>
        BY <3>1, <1>1, <1>2, <2>4 DEF EscapePieces
      <4>2. c = a \o <<x>>
        BY <4>1, <2>2
      <4> QED BY <4>2, <3>1, <2>3, <2>5, ByteAppended
    <3>2. CASE x = "DQ"
      <4>1. q[i] = <<"BS", "DQ">>
        BY <3>2, <1>1, <1>2, <2>4 DEF EscapePieces
      <4>2. "BS" \in Bytes /\ "DQ" \in Bytes
        BY BytesAre
      <4>3. PICK d \in Seq(Bytes) : d = a \o <<"BS">> /\ c = d \o <<"DQ">>
        <5>1. a \o <<"BS">> \in Seq(Bytes) /\ a \o <<"BS", "DQ">> = (a \o <<"BS">>) \o <<"DQ">>
          BY <4>2, PairAppended
        <5>2. c = a \o <<"BS", "DQ">>
          BY <4>1, <2>2
        <5> QED BY <5>1, <5>2, Zenon
      <4>4. Escaping(d) /\ Ending(a) \in Nat /\ Ending(d) = Ending(a) + 1
        BY <4>2, <4>3, <2>3, ByteAppended
      <4>5. Ending(a) % 2 = 0
        <5>1. i \in 1..(n + 1) /\ t[i] = "DQ"
          BY <2>4, <3>2
        <5> QED BY <5>1, <1>5, <2>3
      <4>6. Ending(d) % 2 # 0
        BY <4>4, <4>5, Parity
      <4>7. Escaping(c) /\ Ending(c) = 0
        BY <4>2, <4>3, <4>4, <4>6, ByteAppended
      <4> QED BY <4>7, <2>5, <3>2
    <3> QED BY <3>1, <3>2
  <2>7. Kept(i)
    BY <2>2, <2>6
  <2> HIDE DEF Kept
  <2> QED BY <2>1, <2>7
<1>8. Kept(n)
  <2>1. 0..n \subseteq T
    <3> HIDE DEF T
    <3> QED BY <1>6, <1>7, UptoInduction
  <2>2. n \in 0..n
    OBVIOUS
  <2> QED BY <2>1, <2>2
<1>9. Escaping(e) /\ Ending(e) = Backslashes(t, n + 1)
  BY <1>4, <1>8 DEF Splits
<1>10. Backslashes(t, n + 1) % 2 = 0
  <2>1. n + 1 \in 1..(n + 1) /\ ~(n + 1 <= n)
    OBVIOUS
  <2> QED BY <2>1, <1>5
<1>11. Closed(e)
  BY <1>9, <1>10 DEF Closed, Escaping, Ending
<1> QED BY <1>3, <1>11

-----------------------------------------------------------------------------
(* Byte by byte *)

\* A beginning and the byte behind it make the next beginning.
LEMMA OneMore ==
  ASSUME NEW t \in Seq(Bytes), NEW i \in 1..Len(t)
  PROVE  Before(t, i + 1) = Before(t, i) \o <<t[i]>>
<1>1. PICK a \in Seq(Bytes) : a = Before(t, i) /\ Len(a) = i - 1 /\ \A j \in 1..(i - 1) : a[j] = t[j]
  BY BeforeProperties
<1>2. PICK b \in Seq(Bytes) : b = Before(t, i + 1) /\ Len(b) = i /\ \A j \in 1..i : b[j] = t[j]
  <2>1. PICK k \in 1..(Len(t) + 1) : k = i + 1 /\ k - 1 = i
    OBVIOUS
  <2>2. /\ Before(t, k) \in Seq(Bytes) /\ Len(Before(t, k)) = k - 1
        /\ \A j \in 1..(k - 1) : Before(t, k)[j] = t[j]
    BY BeforeProperties
  <2> QED BY <2>1, <2>2
<1>3. PICK o \in Seq(Bytes) : o = <<t[i]>> /\ Len(o) = 1 /\ o[1] = t[i]
  <2>1. t[i] \in Bytes
    OBVIOUS
  <2>2. <<t[i]>> \in Seq(Bytes)
    BY <2>1, OneByte
  <2> QED BY <2>2
<1>4. PICK c \in Seq(Bytes) :
        /\ c = a \o o /\ Len(c) = Len(a) + Len(o)
        /\ \A j \in 1..Len(a) : c[j] = a[j]
        /\ \A j \in 1..Len(o) : c[Len(a) + j] = o[j]
  BY Joined
<1>5. Len(c) = i /\ c[i] = t[i] /\ \A j \in 1..(i - 1) : c[j] = t[j]
  <2>1. c[Len(a) + 1] = o[1] /\ Len(a) + 1 = i
    BY <1>1, <1>3, <1>4
  <2> QED BY <2>1, <1>1, <1>3, <1>4
<1>6. Len(b) = Len(c) /\ \A j \in 1..Len(b) : b[j] = c[j]
  BY <1>2, <1>5
<1>7. b = c
  BY <1>6, SeqEqual
<1> QED BY <1>1, <1>2, <1>3, <1>4, <1>7

LEMMA OneLess ==
  ASSUME NEW t \in Seq(Bytes), NEW i \in 1..Len(t)
  PROVE  From(t, i) = <<t[i]>> \o From(t, i + 1)
<1>1. PICK a \in Seq(Bytes) : a = From(t, i) /\ Len(a) = Len(t) - i + 1
                              /\ \A j \in 1..(Len(t) - i + 1) : a[j] = t[i + j - 1]
  <2>1. /\ From(t, i) \in Seq(Bytes) /\ Len(From(t, i)) = Len(t) - i + 1
        /\ \A j \in 1..(Len(t) - i + 1) : From(t, i)[j] = t[i + j - 1]
    BY FromProperties
  <2> QED BY <2>1
<1>2. PICK b \in Seq(Bytes) : b = From(t, i + 1) /\ Len(b) = Len(t) - i
                              /\ \A j \in 1..(Len(t) - i) : b[j] = t[i + j]
  <2>1. PICK k \in 1..(Len(t) + 1) : k = i + 1 /\ k - 1 = i
    OBVIOUS
  <2>2. /\ From(t, k) \in Seq(Bytes) /\ Len(From(t, k)) = Len(t) - k + 1
        /\ \A j \in 1..(Len(t) - k + 1) : From(t, k)[j] = t[k + j - 1]
    BY FromProperties
  <2>3. Len(t) - k + 1 = Len(t) - i /\ \A j \in 1..(Len(t) - i) : k + j - 1 = i + j
    BY <2>1
  <2> QED BY <2>1, <2>2, <2>3
<1>3. PICK o \in Seq(Bytes) : o = <<t[i]>> /\ Len(o) = 1 /\ o[1] = t[i]
  <2>1. t[i] \in Bytes
    OBVIOUS
  <2>2. <<t[i]>> \in Seq(Bytes)
    BY <2>1, OneByte
  <2> QED BY <2>2
<1>4. PICK c \in Seq(Bytes) :
        /\ c = o \o b /\ Len(c) = Len(o) + Len(b)
        /\ \A j \in 1..Len(o) : c[j] = o[j]
        /\ \A j \in 1..Len(b) : c[Len(o) + j] = b[j]
  BY Joined
<1>5. Len(c) = Len(a) /\ \A j \in 1..Len(c) : c[j] = a[j]
  <2>1. Len(c) = Len(a)
    <3>1. Len(c) = 1 + (Len(t) - i)
      BY <1>2, <1>3, <1>4, Zenon
    <3> QED BY <3>1, <1>1
  <2>2. ASSUME NEW j \in 1..Len(c) PROVE c[j] = a[j]
    <3>1. CASE j = 1
      <4>1. a[1] = t[i]
        BY <1>1
      <4> QED BY <4>1, <3>1, <1>3, <1>4
    <3>2. CASE j # 1
      <4>1. PICK m \in 1..Len(b) : j = 1 + m
        <5>1. j - 1 \in 1..Len(b) /\ j = 1 + (j - 1)
          BY <3>2, <1>3, <1>4
        <5> QED BY <5>1
      <4>2. c[j] = b[m] /\ b[m] = t[i + m]
        BY <4>1, <1>2, <1>3, <1>4
      <4>3. a[j] = t[i + m]
        <5>1. j \in 1..(Len(t) - i + 1) /\ i + j - 1 = i + m
          BY <4>1, <1>2
        <5> QED BY <5>1, <1>1
      <4> QED BY <4>2, <4>3
    <3> QED BY <3>1, <3>2
  <2> QED BY <2>1, <2>2
<1>6. c = a
  BY <1>5, SeqEqual
<1> QED BY <1>1, <1>2, <1>3, <1>4, <1>6

LEMMA Wholes ==
  ASSUME NEW t \in Seq(Bytes)
  PROVE  /\ Before(t, Len(t) + 1) = t /\ From(t, 1) = t
         /\ Before(t, 1) = << >> /\ From(t, Len(t) + 1) = << >>
<1>1. PICK n \in Nat : n = Len(t)
  OBVIOUS
<1>2. 1 \in 1..(n + 1) /\ n + 1 \in 1..(n + 1)
  BY <1>1
<1>3. PICK a \in Seq(Bytes) : a = Before(t, n + 1) /\ Len(a) = n /\ \A j \in 1..n : a[j] = t[j]
  <2>1. PICK i \in 1..(Len(t) + 1) : i = n + 1 /\ i - 1 = n
    BY <1>1
  <2>2. /\ Before(t, i) \in Seq(Bytes) /\ Len(Before(t, i)) = i - 1
        /\ \A j \in 1..(i - 1) : Before(t, i)[j] = t[j]
    BY BeforeProperties
  <2> QED BY <2>1, <2>2
<1>4. a = t
  <2>1. Len(a) = Len(t) /\ \A j \in 1..Len(a) : a[j] = t[j]
    BY <1>1, <1>3
  <2> QED BY <2>1, SeqEqual
<1>5. PICK b \in Seq(Bytes) : b = From(t, 1) /\ Len(b) = n /\ \A j \in 1..n : b[j] = t[j]
  <2>1. PICK i \in 1..(Len(t) + 1) : i = 1
    BY <1>1
  <2>2. /\ From(t, i) \in Seq(Bytes) /\ Len(From(t, i)) = Len(t) - i + 1
        /\ \A j \in 1..(Len(t) - i + 1) : From(t, i)[j] = t[i + j - 1]
    BY FromProperties
  <2>3. Len(t) - i + 1 = n /\ \A j \in 1..n : i + j - 1 = j
    BY <2>1, <1>1
  <2> QED BY <2>1, <2>2, <2>3
<1>6. b = t
  <2>1. Len(b) = Len(t) /\ \A j \in 1..Len(b) : b[j] = t[j]
    BY <1>1, <1>5
  <2> QED BY <2>1, SeqEqual
<1>7. PICK c \in Seq(Bytes) : c = Before(t, 1) /\ Len(c) = 0
  <2>1. Before(t, 1) \in Seq(Bytes) /\ Len(Before(t, 1)) = 1 - 1
    BY <1>1, <1>2, BeforeProperties
  <2> QED BY <2>1
<1>8. PICK d \in Seq(Bytes) : d = From(t, n + 1) /\ Len(d) = 0
  <2>1. From(t, n + 1) \in Seq(Bytes) /\ Len(From(t, n + 1)) = n - (n + 1) + 1
    BY <1>1, <1>2, FromProperties
  <2> QED BY <2>1
<1>9. c = << >> /\ d = << >>
  BY <1>7, <1>8, EmptySeq
<1> QED BY <1>1, <1>3, <1>4, <1>5, <1>6, <1>7, <1>8, <1>9

\* Pieces of one byte each make up the sequence of those bytes.
LEMMA Singles ==
  ASSUME NEW g, NEW h, NEW q, NEW n \in Nat, NEW s, Splits(g, h, q, n, s),
         NEW t \in Seq(Bytes), n = Len(t), \A i \in 1..n : q[i] = <<t[i]>>
  PROVE  s = t
<1> DEFINE T == { i \in 0..n : g[i] = Before(t, i + 1) }
<1>1. 0 \in T
  <2>1. g[0] = << >> /\ Before(t, 1) = << >> /\ 0 + 1 = 1
    BY Wholes DEF Splits
  <2> QED BY <2>1
<1>2. ASSUME NEW i \in 1..n, i - 1 \in T PROVE i \in T
  <2>1. g[i - 1] = Before(t, i)
    <3>1. (i - 1) + 1 = i
      OBVIOUS
    <3> QED BY <3>1, <1>2
  <2>2. g[i] = g[i - 1] \o q[i]
    BY DEF Splits
  <2>3. Before(t, i + 1) = Before(t, i) \o <<t[i]>>
    BY OneMore
  <2>4. g[i] = Before(t, i + 1)
    BY <2>1, <2>2, <2>3, Zenon
  <2> QED BY <2>4
<1>3. n \in T
  <2> HIDE DEF T
  <2>1. 0..n \subseteq T
    BY <1>1, <1>2, UptoInduction
  <2>2. n \in 0..n
    OBVIOUS
  <2> QED BY <2>1, <2>2
<1>4. g[n] = Before(t, n + 1) /\ Before(t, n + 1) = t
  BY <1>3, Wholes
<1> QED BY <1>4 DEF Splits

-----------------------------------------------------------------------------
(* Unescaping *)

UnescapePieces(u, s) ==
  \A i \in 1..Len(s) : u[i] = IF s[i] = "BS" /\ i < Len(s) /\ s[i + 1] = "DQ" THEN << >> ELSE <<s[i]>>

\* Unescape goes byte by byte.
LEMMA UnescapeSplits ==
  ASSUME NEW s \in Seq(Bytes)
  PROVE  \E u, k, l : UnescapePieces(u, s) /\ Splits(k, l, u, Len(s), Unescape(s))
<1>1. PICK n \in Nat : n = Len(s) /\ DOMAIN s = 1..n
  OBVIOUS
<1>2. PICK u : u = [ i \in 1..n |-> IF s[i] = "BS" /\ i < n /\ s[i + 1] = "DQ" THEN << >> ELSE <<s[i]>> ]
  OBVIOUS
<1>3. << >> \in Seq(Bytes) /\ \A x \in Bytes : <<x>> \in Seq(Bytes)
  BY OneByte
<1>4. ASSUME NEW i \in 1..n PROVE u[i] \in Seq(Bytes)
  <2>1. s[i] \in Bytes
    BY <1>1
  <2> QED BY <2>1, <1>2, <1>3
<1>5. u \in Seq(Seq(Bytes)) /\ Len(u) = n
  <2> HIDE <1>3
  <2>1. u \in [1..n -> Seq(Bytes)]
    BY <1>2, <1>4
  <2> QED BY <2>1, SeqDef
<1>6. PICK k, l : Splits(k, l, u, n, FlattenSeq(u))
  BY <1>5, FlattenSplits
<1>7. Unescape(s) = FlattenSeq(u)
  BY <1>1, <1>2, Zenon DEF Unescape
<1>8. UnescapePieces(u, s)
  BY <1>1, <1>2 DEF UnescapePieces
<1> QED BY <1>1, <1>6, <1>7, <1>8, Zenon

\* Without a quote there is nothing to unescape, or to escape.
LEMMA NoQuoteNoEscape ==
  ASSUME NEW s \in Seq(Bytes), Free(s, {"DQ"})
  PROVE  Unescape(s) = s /\ Escape(s) = s
<1>1. PICK u, k, l : UnescapePieces(u, s) /\ Splits(k, l, u, Len(s), Unescape(s))
  BY UnescapeSplits
<1>2. PICK q, g, h : EscapePieces(q, s) /\ Splits(g, h, q, Len(s), Escape(s))
  BY EscapeSplits
<1>3. \A i \in 1..Len(s) : s[i] # "DQ"
  BY DEF Free
<1>4. ASSUME NEW i \in 1..Len(s) PROVE u[i] = <<s[i]>> /\ q[i] = <<s[i]>>
  <2>1. q[i] = <<s[i]>>
    BY <1>2, <1>3 DEF EscapePieces
  <2>2. i < Len(s) => s[i + 1] # "DQ"
    <3>1. i < Len(s) => i + 1 \in 1..Len(s)
      OBVIOUS
    <3> QED BY <3>1, <1>3
  <2>3. u[i] = <<s[i]>>
    BY <1>1, <2>2 DEF UnescapePieces
  <2> QED BY <2>1, <2>3
<1>5. Len(s) \in Nat
  OBVIOUS
<1>6. Unescape(s) = s
  BY <1>1, <1>4, <1>5, Singles
<1>7. Escape(s) = s
  BY <1>2, <1>4, <1>5, Singles
<1> QED BY <1>6, <1>7

\* What escaping adds, unescaping takes away: of an escaped text no other
\* backslash stands before a quote.
LEMMA EscapeReversed ==
  ASSUME NEW t \in Seq(Bytes)
  PROVE  Unescape(Escape(t)) = t
<1>1. PICK q, g, h : EscapePieces(q, t) /\ Splits(g, h, q, Len(t), Escape(t))
  BY EscapeSplits
<1>2. PICK e \in Seq(Bytes) : e = Escape(t)
  BY <1>1 DEF Splits
<1>3. PICK n \in Nat : n = Len(t)
  OBVIOUS
<1>4. Splits(g, h, q, n, e) /\ Placed(g, h, q, n, e)
  <2>1. Splits(g, h, q, n, e)
    BY <1>1, <1>2, <1>3
  <2> QED BY <2>1, PiecesPlaced
<1>5. PICK u, k, l : UnescapePieces(u, e) /\ Splits(k, l, u, Len(e), Unescape(e))
  BY UnescapeSplits
<1>6. PICK m \in Nat : m = Len(e)
  OBVIOUS
<1>7. /\ k[0] = << >> /\ k[m] = Unescape(e) /\ \A j \in 1..m : k[j] = k[j - 1] \o u[j]
      /\ \A j \in 0..m : k[j] \in Seq(Bytes)
  BY <1>5, <1>6 DEF Splits
<1>8. \A j \in 1..m : u[j] = IF e[j] = "BS" /\ j < m /\ e[j + 1] = "DQ" THEN << >> ELSE <<e[j]>>
  BY <1>5, <1>6 DEF UnescapePieces
<1>9. g[0] = << >> /\ g[n] = e
  BY <1>4 DEF Splits
<1>10. ASSUME NEW i \in 1..n, t[i] # "DQ"
       PROVE  Len(q[i]) = 1 /\ q[i][1] = t[i]
  BY <1>1, <1>3, <1>10, EscapePiece
<1>11. ASSUME NEW i \in 1..n, t[i] = "DQ"
       PROVE  Len(q[i]) = 2 /\ q[i][1] = "BS" /\ q[i][2] = "DQ"
  BY <1>1, <1>3, <1>11, EscapePiece
<1> DEFINE T == { i \in 0..n : k[Len(g[i])] = Before(t, i + 1) }
<1>12. 0 \in T
  <2>1. Len(g[0]) = 0 /\ Before(t, 1) = << >> /\ 0 + 1 = 1
    BY <1>9, Wholes
  <2> QED BY <2>1, <1>7
<1>13. ASSUME NEW i \in 1..n, i - 1 \in T PROVE i \in T
  <2>1. PICK a \in Nat : a = Len(g[i - 1])
    <3>1. g[i - 1] \in Seq(Bytes)
      BY <1>4 DEF Placed
    <3> QED BY <3>1
  <2>2. k[a] = Before(t, i)
    <3>1. (i - 1) + 1 = i
      OBVIOUS
    <3> QED BY <3>1, <2>1, <1>13
  <2>3. /\ Len(g[i]) = a + Len(q[i]) /\ Len(g[i]) <= m
        /\ \A j \in 1..Len(q[i]) : e[a + j] = q[i][j]
    <3>1. /\ g[i] \in Seq(Bytes) /\ h[i + 1] \in Seq(Bytes)
          /\ Len(g[i]) = Len(g[i - 1]) + Len(q[i]) /\ Len(e) = Len(g[i]) + Len(h[i + 1])
          /\ \A j \in 1..Len(q[i]) : e[Len(g[i - 1]) + j] = q[i][j]
      BY <1>4 DEF Placed
    <3>2. PICK b, c \in Seq(Bytes) : b = g[i] /\ c = h[i + 1]
      BY <3>1
    <3>3. Len(b) = a + Len(q[i]) /\ m = Len(b) + Len(c)
      BY <3>1, <3>2, <2>1, <1>6, Zenon
    <3>4. Len(b) <= m
      BY <3>3
    <3>5. Len(g[i]) = a + Len(q[i]) /\ Len(g[i]) <= m
      BY <3>2, <3>3, <3>4
    <3>6. \A j \in 1..Len(q[i]) : e[a + j] = q[i][j]
      BY <3>1, <2>1
    <3> QED BY <3>5, <3>6
  <2>4. Before(t, i + 1) = Before(t, i) \o <<t[i]>>
    BY <1>3, OneMore
  <2>5. k[Len(g[i])] = Before(t, i + 1)
    <3>1. CASE t[i] # "DQ"
      <4>1. Len(g[i]) = a + 1 /\ e[a + 1] = t[i] /\ a + 1 \in 1..m
        <5>1. Len(q[i]) = 1 /\ q[i][1] = t[i]
          BY <3>1, <1>10
        <5>2. e[a + 1] = q[i][1]
          BY <5>1, <2>3
        <5> QED BY <5>1, <5>2, <2>3
      <4>2. a + 1 < m => e[(a + 1) + 1] # "DQ"
        <5>1. SUFFICES ASSUME a + 1 < m PROVE e[(a + 1) + 1] # "DQ"
          OBVIOUS
        <5>2. i # n
          BY <5>1, <4>1, <1>6, <1>9
        <5>3. PICK b \in 1..n : b = i + 1 /\ b - 1 = i
          BY <5>2
        <5>4. \A j \in 1..Len(q[b]) : e[Len(g[i]) + j] = q[b][j]
          <6>1. \A j \in 1..Len(q[b]) : e[Len(g[b - 1]) + j] = q[b][j]
            BY <1>4 DEF Placed
          <6> QED BY <6>1, <5>3
        <5>5. Len(q[b]) >= 1 /\ q[b][1] # "DQ" /\ Len(q[b]) \in Nat
          <6>1. CASE t[b] # "DQ"
            BY <6>1, <1>10
          <6>2. CASE t[b] = "DQ"
            BY <6>2, <1>11
          <6> QED BY <6>1, <6>2
        <5>6. e[Len(g[i]) + 1] = q[b][1]
          BY <5>4, <5>5
        <5> QED BY <5>5, <5>6, <4>1
      <4>3. u[a + 1] = <<t[i]>>
        BY <4>1, <4>2, <1>8
      <4>4. k[a + 1] = k[a] \o u[a + 1]
        <5>1. (a + 1) - 1 = a
          OBVIOUS
        <5> QED BY <4>1, <5>1, <1>7
      <4> QED BY <4>1, <4>3, <4>4, <2>2, <2>4, Zenon
    <3>2. CASE t[i] = "DQ"
      <4>1. Len(g[i]) = a + 2 /\ e[a + 1] = "BS" /\ e[a + 2] = "DQ" /\ a + 1 \in 1..m /\ a + 2 \in 1..m
        <5>1. Len(q[i]) = 2 /\ q[i][1] = "BS" /\ q[i][2] = "DQ"
          BY <3>2, <1>11
        <5>2. e[a + 1] = q[i][1] /\ e[a + 2] = q[i][2]
          BY <5>1, <2>3
        <5> QED BY <5>1, <5>2, <2>3
      <4>2. u[a + 1] = << >> /\ u[a + 2] = <<"DQ">>
        <5>1. (a + 1) + 1 = a + 2 /\ a + 1 < m
          BY <4>1
        <5> QED BY <4>1, <5>1, <1>8
      <4>3. k[a + 1] = k[a] \o u[a + 1] /\ k[a + 2] = k[a + 1] \o u[a + 2]
        <5>1. (a + 1) - 1 = a /\ (a + 2) - 1 = a + 1
          OBVIOUS
        <5> QED BY <4>1, <5>1, <1>7
      <4>4. k[a] \in Seq(Bytes)
        BY <4>1, <1>7
      <4>5. k[a] \o << >> = k[a]
        BY <4>4
      <4>6. k[a + 1] = k[a]
        BY <4>2, <4>3, <4>5, Zenon
      <4> QED BY <4>1, <4>2, <4>3, <4>6, <2>2, <2>4, <3>2, Zenon
    <3> QED BY <3>1, <3>2
  <2> QED BY <2>5
<1>14. n \in T
  <2> HIDE DEF T
  <2>1. 0..n \subseteq T
    BY <1>12, <1>13, UptoInduction
  <2>2. n \in 0..n
    OBVIOUS
  <2> QED BY <2>1, <2>2
<1>15. k[Len(g[n])] = Before(t, n + 1) /\ Before(t, n + 1) = t
  BY <1>14, <1>3, Wholes
<1> QED BY <1>2, <1>6, <1>7, <1>9, <1>15

\* Escaping adds no byte that is no UTF-8.
LEMMA EscapeUtf8 ==
  ASSUME NEW t \in Seq(Bytes), Utf8(t)
  PROVE  Utf8(Escape(t))
<1>1. PICK q, g, h : EscapePieces(q, t) /\ Splits(g, h, q, Len(t), Escape(t))
  BY EscapeSplits
<1>2. PICK n \in Nat : n = Len(t) /\ DOMAIN t = 1..n
  OBVIOUS
<1>3. PICK good : good = Bytes \ NotUtf8
  OBVIOUS
<1>4. "BS" \in good /\ "DQ" \in good
  BY <1>3, BytesAre, AsciiAssumption
<1>5. ASSUME NEW i \in 1..n PROVE \A j \in 1..Len(q[i]) : q[i][j] \in good
  <2>1. t[i] \in good
    BY <1>2, <1>3 DEF Utf8
  <2>2. CASE t[i] # "DQ"
    <3>1. Len(q[i]) = 1 /\ q[i][1] = t[i]
      BY <2>2, <1>1, <1>2, EscapePiece
    <3> QED BY <3>1, <2>1
  <2>3. CASE t[i] = "DQ"
    <3>1. Len(q[i]) = 2 /\ q[i][1] = "BS" /\ q[i][2] = "DQ"
      BY <2>3, <1>1, <1>2, EscapePiece
    <3> QED BY <3>1, <1>4
  <2> QED BY <2>2, <2>3
<1>6. \A j \in 1..Len(Escape(t)) : Escape(t)[j] \in good
  BY <1>1, <1>2, <1>5, PiecesHold
<1>7. Escape(t) \in Seq(Bytes)
  BY <1>1 DEF Splits
<1> QED BY <1>3, <1>6, <1>7 DEF Utf8

-----------------------------------------------------------------------------
(* Percent-decoding *)

HexAt(s, i) == i + 2 <= Len(s) /\ <<s[i + 1], s[i + 2]>> \in DOMAIN HexPairs

DecodedFrom(from, s, i) ==
  IF i = Len(s) + 1 THEN { << >> }
  ELSE IF s[i] # "%" THEN { <<s[i]>> \o d : d \in from[i + 1] }
  ELSE IF HexAt(s, i) THEN { <<HexPairs[<<s[i + 1], s[i + 2]>>]>> \o d : d \in from[i + 3] }
  ELSE {}

Decodes(from, s, n) == \A i \in 1..(n + 1) : from[i] = DecodedFrom(from, s, i)

LEMMA DecodedFromDepends ==
  ASSUME NEW s, NEW i, NEW f, NEW g,
         i # Len(s) + 1 => f[i + 1] = g[i + 1],
         i # Len(s) + 1 /\ HexAt(s, i) => f[i + 3] = g[i + 3]
  PROVE  DecodedFrom(f, s, i) = DecodedFrom(g, s, i)
<1>1. CASE i = Len(s) + 1
  BY <1>1, Zenon DEF DecodedFrom
<1>2. CASE i # Len(s) + 1 /\ s[i] # "%"
  <2>1. f[i + 1] = g[i + 1]
    BY <1>2
  <2> QED BY <1>2, <2>1, Zenon DEF DecodedFrom
<1>3. CASE i # Len(s) + 1 /\ s[i] = "%" /\ HexAt(s, i)
  <2>1. f[i + 3] = g[i + 3]
    BY <1>3
  <2> QED BY <1>3, <2>1, Zenon DEF DecodedFrom
<1>4. CASE i # Len(s) + 1 /\ s[i] = "%" /\ ~HexAt(s, i)
  BY <1>4, Zenon DEF DecodedFrom
<1> QED BY <1>1, <1>2, <1>3, <1>4, Zenon

\* The function that decodes from each position on is what its recursion says.
LEMMA DecodingExists ==
  ASSUME NEW s, NEW n \in Nat, n = Len(s)
  PROVE  \E f : f = [ i \in 1..(n + 1) |-> DecodedFrom(f, s, i) ]
<1> DEFINE Part(f, m) == \A i \in (n + 1 - m)..(n + 1) : f[i] = DecodedFrom(f, s, i)
           Solved == { m \in 0..n : \E f : Part(f, m) }
<1>1. 0 \in Solved
  <2>1. PICK f : f = [ i \in {n + 1} |-> { << >> } ]
    OBVIOUS
  <2>2. f[n + 1] = { << >> }
    BY <2>1
  <2>3. DecodedFrom(f, s, n + 1) = { << >> }
    BY Zenon DEF DecodedFrom
  <2>4. \A i \in (n + 1 - 0)..(n + 1) : i = n + 1
    OBVIOUS
  <2>5. Part(f, 0)
    BY <2>2, <2>3, <2>4
  <2> HIDE DEF Part
  <2> QED BY <2>5
<1>2. ASSUME NEW m \in 1..n, m - 1 \in Solved PROVE m \in Solved
  <2>1. PICK f : Part(f, m - 1)
    BY <1>2
  <2>2. PICK k \in 1..n : k = n + 1 - m /\ k + 1 = n + 1 - (m - 1)
    <3>1. n + 1 - m \in 1..n /\ (n + 1 - m) + 1 = n + 1 - (m - 1)
      OBVIOUS
    <3> QED BY <3>1
  <2>3. \A i \in (k + 1)..(n + 1) : f[i] = DecodedFrom(f, s, i)
    BY <2>1, <2>2
  <2>4. PICK h : h = [ i \in k..(n + 1) |-> IF i = k THEN DecodedFrom(f, s, k) ELSE f[i] ]
    OBVIOUS
  <2>5. h[k] = DecodedFrom(f, s, k) /\ \A i \in (k + 1)..(n + 1) : h[i] = f[i]
    <3>1. k \in k..(n + 1) /\ \A i \in (k + 1)..(n + 1) : i \in k..(n + 1) /\ i # k
      OBVIOUS
    <3> QED BY <2>4, <3>1, Zenon
  <2>6. ASSUME NEW i \in k..(n + 1) PROVE h[i] = DecodedFrom(h, s, i)
    <3>1. i # Len(s) + 1 => h[i + 1] = f[i + 1]
      <4>1. i # n + 1 => i + 1 \in (k + 1)..(n + 1)
        OBVIOUS
      <4> QED BY <4>1, <2>5
    <3>2. i # Len(s) + 1 /\ HexAt(s, i) => h[i + 3] = f[i + 3]
      <4>1. HexAt(s, i) => i + 2 <= n
        BY DEF HexAt
      <4>2. i + 2 <= n => i + 3 \in (k + 1)..(n + 1)
        OBVIOUS
      <4> QED BY <4>1, <4>2, <2>5
    <3>3. DecodedFrom(h, s, i) = DecodedFrom(f, s, i)
      BY <3>1, <3>2, DecodedFromDepends
    <3>4. h[i] = DecodedFrom(f, s, i)
      <4>1. CASE i = k
        BY <4>1, <2>5
      <4>2. CASE i # k
        <5>1. i \in (k + 1)..(n + 1)
          BY <4>2
        <5> QED BY <5>1, <2>3, <2>5
      <4> QED BY <4>1, <4>2
    <3> QED BY <3>3, <3>4
  <2>7. Part(h, m)
    BY <2>2, <2>6
  <2> HIDE DEF Part
  <2> QED BY <2>7
<1>3. \E f : Part(f, n)
  <2>1. n \in Solved
    <3> HIDE DEF Solved
    <3>1. 0..n \subseteq Solved
      BY <1>1, <1>2, UptoInduction
    <3>2. n \in 0..n
      OBVIOUS
    <3> QED BY <3>1, <3>2
  <2> HIDE DEF Part
  <2> QED BY <2>1
<1>4. PICK f : Part(f, n)
  <2> HIDE DEF Part
  <2> QED BY <1>3
<1>5. \A i \in 1..(n + 1) : f[i] = DecodedFrom(f, s, i)
  <2>1. n + 1 - n = 1
    OBVIOUS
  <2> QED BY <1>4, <2>1
<1>6. PICK h : h = [ i \in 1..(n + 1) |-> f[i] ]
  OBVIOUS
<1>7. ASSUME NEW i \in 1..(n + 1) PROVE h[i] = DecodedFrom(h, s, i)
  <2>1. i # Len(s) + 1 => h[i + 1] = f[i + 1]
    <3>1. i # n + 1 => i + 1 \in 1..(n + 1)
      OBVIOUS
    <3> QED BY <3>1, <1>6
  <2>2. i # Len(s) + 1 /\ HexAt(s, i) => h[i + 3] = f[i + 3]
    <3>1. HexAt(s, i) => i + 2 <= n
      BY DEF HexAt
    <3>2. i + 2 <= n => i + 3 \in 1..(n + 1)
      OBVIOUS
    <3> QED BY <3>1, <3>2, <1>6
  <2>3. DecodedFrom(h, s, i) = DecodedFrom(f, s, i)
    BY <2>1, <2>2, DecodedFromDepends
  <2> QED BY <2>3, <1>5, <1>6
<1>8. h = [ i \in 1..(n + 1) |-> DecodedFrom(h, s, i) ]
  BY <1>6, <1>7
<1> QED BY <1>8

\* Decoding proceeds from each position by one byte, or by three.
LEMMA DecodingSteps ==
  ASSUME NEW s \in Seq(Bytes), NEW n \in Nat, n = Len(s)
  PROVE  \E f : Decodes(f, s, n) /\ DecodePercent(s) = f[1]
<1> DEFINE from == CHOOSE f : f = [ i \in 1..(Len(s) + 1) |-> DecodedFrom(f, s, i) ]
<1>1. from = [ i \in 1..(Len(s) + 1) |-> DecodedFrom(from, s, i) ]
  <2>1. \E f : f = [ i \in 1..(Len(s) + 1) |-> DecodedFrom(f, s, i) ]
    BY DecodingExists
  <2> QED BY <2>1
<1>2. DecodePercent(s) = from[1]
  BY Zenon DEF DecodePercent, DecodedFrom, HexAt
<1> HIDE DEF from
<1>3. \A i \in 1..(n + 1) : from[i] = DecodedFrom(from, s, i)
  BY <1>1
<1> QED BY <1>2, <1>3 DEF Decodes

\* Induction from the end to the beginning, on a set.
LEMMA DowntoInduction ==
  ASSUME NEW n \in Nat, NEW T, n + 1 \in T, \A i \in 1..n : i + 1 \in T => i \in T
  PROVE  1 \in T
<1> DEFINE S == { m \in 0..n : n + 1 - m \in T }
<1>1. 0 \in S
  <2>1. n + 1 - 0 = n + 1
    OBVIOUS
  <2> QED BY <2>1
<1>2. ASSUME NEW m \in 1..n, m - 1 \in S PROVE m \in S
  <2>1. PICK k \in 1..n : k = n + 1 - m /\ k + 1 = n + 1 - (m - 1)
    <3>1. n + 1 - m \in 1..n /\ (n + 1 - m) + 1 = n + 1 - (m - 1)
      OBVIOUS
    <3> QED BY <3>1
  <2>2. k + 1 \in T
    BY <1>2, <2>1
  <2>3. k \in T
    BY <2>2
  <2> QED BY <2>1, <2>3
<1>3. n \in S
  <2> HIDE DEF S
  <2>1. 0..n \subseteq S
    BY <1>1, <1>2, UptoInduction
  <2>2. n \in 0..n
    OBVIOUS
  <2> QED BY <2>1, <2>2
<1>4. n + 1 - n = 1
  OBVIOUS
<1> QED BY <1>3, <1>4

\* Without a percent sign there is nothing to decode.
LEMMA NothingToDecode ==
  ASSUME NEW s \in Seq(Bytes), Free(s, {"%"})
  PROVE  DecodePercent(s) = {s}
<1>1. PICK n \in Nat : n = Len(s)
  OBVIOUS
<1>2. PICK f : Decodes(f, s, n) /\ DecodePercent(s) = f[1]
  BY <1>1, DecodingSteps
<1> DEFINE T == { i \in 1..(n + 1) : f[i] = {From(s, i)} }
<1>3. n + 1 \in T
  <2>1. f[n + 1] = DecodedFrom(f, s, n + 1)
    BY <1>2 DEF Decodes
  <2>2. DecodedFrom(f, s, n + 1) = { << >> }
    BY <1>1, Zenon DEF DecodedFrom
  <2>3. From(s, n + 1) = << >>
    BY <1>1, Wholes
  <2> QED BY <2>1, <2>2, <2>3
<1>4. ASSUME NEW i \in 1..n, i + 1 \in T PROVE i \in T
  <2>1. i \in 1..(n + 1) /\ i # n + 1
    OBVIOUS
  <2>2. f[i] = DecodedFrom(f, s, i)
    BY <1>2, <2>1 DEF Decodes
  <2>3. s[i] # "%"
    BY <1>1 DEF Free
  <2>4. DecodedFrom(f, s, i) = { <<s[i]>> \o d : d \in f[i + 1] }
    BY <1>1, <2>1, <2>3, Zenon DEF DecodedFrom
  <2>5. f[i + 1] = {From(s, i + 1)}
    BY <1>4
  <2>6. { <<s[i]>> \o d : d \in {From(s, i + 1)} } = { <<s[i]>> \o From(s, i + 1) }
    BY Zenon
  <2>7. <<s[i]>> \o From(s, i + 1) = From(s, i)
    BY <1>1, OneLess
  <2>8. f[i] = {From(s, i)}
    BY <2>2, <2>4, <2>5, <2>6, <2>7, Zenon
  <2> QED BY <2>1, <2>8
<1>5. 1 \in T
  <2> HIDE DEF T
  <2> QED BY <1>3, <1>4, DowntoInduction
<1>6. From(s, 1) = s
  BY Wholes
<1> QED BY <1>2, <1>5, <1>6

\* A percent sequence that means nothing spoils all that stands before it.
LEMMA MalformedSpoils ==
  ASSUME NEW s \in Seq(Bytes), NEW m \in 1..Len(s), s[m] = "%", ~HexAt(s, m)
  PROVE  DecodePercent(s) = {}
<1>1. PICK n \in Nat : n = Len(s)
  OBVIOUS
<1>2. PICK f : Decodes(f, s, n) /\ DecodePercent(s) = f[1]
  BY <1>1, DecodingSteps
<1>3. ASSUME NEW i \in 1..m PROVE f[i] = DecodedFrom(f, s, i) /\ i # Len(s) + 1
  <2>1. i \in 1..(n + 1) /\ i # n + 1
    BY <1>1
  <2> QED BY <1>1, <1>2, <2>1 DEF Decodes
<1>4. \A i \in 1..n : HexAt(s, i) => s[i + 1] # "%" /\ s[i + 2] # "%"
  <2>1. SUFFICES ASSUME NEW i \in 1..n, HexAt(s, i) PROVE s[i + 1] # "%" /\ s[i + 2] # "%"
    OBVIOUS
  <2>2. PICK pair : pair = <<s[i + 1], s[i + 2]>> /\ pair \in DOMAIN HexPairs
    BY <2>1 DEF HexAt
  <2>3. \A k \in {1, 2} : pair[k] # "%"
    BY <2>2, Zenon, HexAssumption
  <2>4. pair[1] = s[i + 1] /\ pair[2] = s[i + 2]
    BY <2>2
  <2> QED BY <2>3, <2>4
<1> DEFINE T == { i \in 1..m : \A j \in i..m : f[j] = {} }
<1>5. m \in T
  <2>1. f[m] = DecodedFrom(f, s, m) /\ m # Len(s) + 1
    BY <1>3
  <2>2. DecodedFrom(f, s, m) = {}
    BY <2>1, Zenon DEF DecodedFrom
  <2>3. f[m] = {}
    BY <2>1, <2>2
  <2> QED BY <2>3
<1>6. ASSUME NEW i \in 1..(m - 1), i + 1 \in T PROVE i \in T
  <2>1. i \in 1..m /\ i \in 1..n /\ \A j \in (i + 1)..m : f[j] = {}
    BY <1>1, <1>6
  <2>2. f[i] = {}
    <3>1. f[i] = DecodedFrom(f, s, i) /\ i # Len(s) + 1
      BY <1>3, <2>1
    <3>2. CASE s[i] # "%"
      <4>1. f[i + 1] = {}
        BY <2>1
      <4>2. DecodedFrom(f, s, i) = { <<s[i]>> \o d : d \in f[i + 1] }
        BY <3>1, <3>2, Zenon DEF DecodedFrom
      <4>3. { <<s[i]>> \o d : d \in {} } = {}
        BY Zenon
      <4> QED BY <3>1, <4>1, <4>2, <4>3, Zenon
    <3>3. CASE s[i] = "%" /\ HexAt(s, i)
      <4>1. i + 3 \in (i + 1)..m
        <5>1. i + 1 # m /\ i + 2 # m
          BY <3>3, <1>4, <2>1
        <5> QED BY <5>1
      <4>2. f[i + 3] = {}
        BY <4>1, <2>1
      <4>3. DecodedFrom(f, s, i) = { <<HexPairs[<<s[i + 1], s[i + 2]>>]>> \o d : d \in f[i + 3] }
        BY <3>1, <3>3, Zenon DEF DecodedFrom
      <4>4. { <<HexPairs[<<s[i + 1], s[i + 2]>>]>> \o d : d \in {} } = {}
        BY Zenon
      <4> QED BY <3>1, <4>2, <4>3, <4>4, Zenon
    <3>4. CASE s[i] = "%" /\ ~HexAt(s, i)
      BY <3>1, <3>4, Zenon DEF DecodedFrom
    <3> QED BY <3>2, <3>3, <3>4, Zenon
  <2>3. ASSUME NEW j \in i..m PROVE f[j] = {}
    <3>1. CASE j = i
      BY <3>1, <2>2
    <3>2. CASE j # i
      BY <3>2, <2>1
    <3> QED BY <3>1, <3>2
  <2> QED BY <2>1, <2>3
<1>7. 1 \in T
  <2> HIDE DEF T
  <2>1. PICK k \in Nat : k = m - 1 /\ k + 1 = m
    OBVIOUS
  <2>2. k + 1 \in T /\ \A i \in 1..k : i + 1 \in T => i \in T
    BY <2>1, <1>5, <1>6
  <2> QED BY <2>2, DowntoInduction
<1> QED BY <1>2, <1>7

LEMMA DelimitersAre == \A x : x \in Delimiters <=> x \in {Semi, "=", "SP", "DQ"}
  BY Zenon DEF Delimiters, Semi

EncodePieces(q, t) ==
  \A i \in 1..Len(t) :
    q[i] = IF HexOf(t[i]) # {} THEN <<"%">> \o CHOOSE pair \in HexOf(t[i]) : TRUE ELSE <<t[i]>>

\* A percent sequence takes the place of a byte that has one.
IsHexOf(pair, byte) ==
  /\ pair \in DOMAIN HexPairs /\ HexPairs[pair] = byte
  /\ pair \in Seq(Bytes) /\ Len(pair) = 2 /\ <<pair[1], pair[2]>> = pair
  /\ pair[1] \in Bytes /\ pair[2] \in Bytes

LEMMA HexPairOf ==
  ASSUME NEW byte, HexOf(byte) # {}
  PROVE  IsHexOf(CHOOSE pair \in HexOf(byte) : TRUE, byte)
<1>1. PICK pair : pair = CHOOSE x \in HexOf(byte) : TRUE
  OBVIOUS
<1>2. pair \in HexOf(byte)
  BY <1>1, Zenon
<1>3. pair \in DOMAIN HexPairs /\ HexPairs[pair] = byte
  BY <1>2 DEF HexOf
<1>4. pair \in Seq(STRING) /\ Len(pair) = 2
  BY <1>3, Zenon, HexAssumption
<1>5. pair \in Seq(Bytes)
  BY <1>4, BytesSeq
<1>6. <<pair[1], pair[2]>> = pair
  BY <1>4
<1>7. PICK c \in Seq(Bytes) : c = pair /\ Len(c) = 2
  BY <1>4, <1>5
<1>8. c[1] \in Bytes /\ c[2] \in Bytes
  BY <1>7
<1> QED BY <1>1, <1>3, <1>4, <1>5, <1>6, <1>7, <1>8, Zenon DEF IsHexOf

Encoded(piece, byte) ==
  /\ piece \in Seq(Bytes)
  /\ HexOf(byte) = {} => Len(piece) = 1 /\ piece[1] = byte
  /\ HexOf(byte) # {} =>
       \E pair : /\ IsHexOf(pair, byte) /\ Len(piece) = 3
                 /\ piece[1] = "%" /\ piece[2] = pair[1] /\ piece[3] = pair[2]

\* A byte is encoded as a percent sequence that decodes to it, or stays.
LEMMA EncodePiece ==
  ASSUME NEW t \in Seq(Bytes), NEW q, EncodePieces(q, t), NEW i \in 1..Len(t)
  PROVE  Encoded(q[i], t[i])
<1>1. PICK x \in Bytes : x = t[i]
  OBVIOUS
<1>2. CASE HexOf(x) = {}
  <2>1. q[i] = <<x>>
    BY <1>1, <1>2 DEF EncodePieces
  <2>2. <<x>> \in Seq(Bytes)
    BY OneByte
  <2>3. Len(<<x>>) = 1 /\ <<x>>[1] = x
    OBVIOUS
  <2> QED BY <1>1, <1>2, <2>1, <2>2, <2>3, Zenon DEF Encoded
<1>3. CASE HexOf(x) # {}
  <2>1. PICK pair : IsHexOf(pair, x) /\ q[i] = <<"%">> \o pair
    <3>1. q[i] = <<"%">> \o CHOOSE pair \in HexOf(x) : TRUE
      BY <1>1, <1>3, Zenon DEF EncodePieces
    <3> QED BY <1>3, <3>1, HexPairOf, Zenon
  <2>2. pair \in Seq(Bytes) /\ Len(pair) = 2
    BY <2>1 DEF IsHexOf
  <2>3. "%" \in Bytes
    BY BytesAre
  <2>4. PICK c \in Seq(Bytes) :
          /\ c = <<"%">> \o pair /\ Len(c) = Len(pair) + 1
          /\ c # << >> /\ c[1] = "%" /\ Tail(c) = pair
          /\ \A j \in 1..Len(pair) : c[j + 1] = pair[j]
    BY <2>2, <2>3, Prepended
  <2>5. Len(c) = 3 /\ c[2] = pair[1] /\ c[3] = pair[2]
    BY <2>2, <2>4
  <2>6. q[i] = c
    BY <2>1, <2>4
  <2> QED BY <1>1, <1>3, <2>1, <2>4, <2>5, <2>6, Zenon DEF Encoded
<1> QED BY <1>2, <1>3, Zenon

\* PercentEncode goes byte by byte.
LEMMA EncodeSplits ==
  ASSUME NEW t \in Seq(Bytes)
  PROVE  \E q, g, h : EncodePieces(q, t) /\ Splits(g, h, q, Len(t), PercentEncode(t))
<1>1. PICK n \in Nat : n = Len(t) /\ DOMAIN t = 1..n
  OBVIOUS
<1> DEFINE piece(i) == IF HexOf(t[i]) # {} THEN <<"%">> \o CHOOSE pair \in HexOf(t[i]) : TRUE
                       ELSE <<t[i]>>
<1>2. PICK q : q = [ i \in 1..n |-> piece(i) ]
  OBVIOUS
<1>3. EncodePieces(q, t)
  BY <1>1, <1>2, Zenon DEF EncodePieces
<1>4. ASSUME NEW i \in 1..n PROVE q[i] \in Seq(Bytes)
  <2> HIDE DEF piece
  <2>1. Encoded(q[i], t[i])
    BY <1>1, <1>3, EncodePiece
  <2> QED BY <2>1 DEF Encoded
<1>5. q \in Seq(Seq(Bytes)) /\ Len(q) = n
  <2> HIDE DEF piece
  <2>1. q \in [1..n -> Seq(Bytes)]
    BY <1>2, <1>4
  <2> QED BY <2>1, SeqDef
<1>6. PICK g, h : Splits(g, h, q, n, FlattenSeq(q))
  BY <1>5, FlattenSplits
<1>7. PercentEncode(t) = FlattenSeq(q)
  BY <1>1, <1>2, Zenon DEF PercentEncode
<1> QED BY <1>1, <1>3, <1>6, <1>7, Zenon

\* Bytes that are all encoded do not stand in what is written.
LEMMA EncodeAvoids ==
  ASSUME NEW t \in Seq(Bytes), NEW bytes, Encodes(bytes, t), "%" \notin bytes,
         \A x \in bytes : x \in {"%", "BS", "SQ"} \union Delimiters \union NotUtf8
  PROVE  PercentEncode(t) \in Seq(Bytes) /\ Free(PercentEncode(t), bytes)
<1>1. PICK q, g, h : EncodePieces(q, t) /\ Splits(g, h, q, Len(t), PercentEncode(t))
  BY EncodeSplits
<1>2. PICK n \in Nat : n = Len(t) /\ DOMAIN t = 1..n
  OBVIOUS
<1>3. PICK good : good = Bytes \ bytes
  OBVIOUS
<1>4. ASSUME NEW i \in 1..n PROVE \A j \in 1..Len(q[i]) : q[i][j] \in good
  <2>1. t[i] \in Bytes /\ Encoded(q[i], t[i])
    BY <1>1, <1>2, EncodePiece
  <2>2. CASE HexOf(t[i]) = {}
    <3>1. Len(q[i]) = 1 /\ q[i][1] = t[i]
      BY <2>2, <2>1 DEF Encoded
    <3>2. t[i] \notin bytes
      BY <2>2, <1>2 DEF Encodes
    <3> QED BY <3>1, <3>2, <2>1, <1>3
  <2>3. CASE HexOf(t[i]) # {}
    <3>1. PICK pair : /\ IsHexOf(pair, t[i]) /\ Len(q[i]) = 3
                      /\ q[i][1] = "%" /\ q[i][2] = pair[1] /\ q[i][3] = pair[2]
      BY <2>3, <2>1 DEF Encoded
    <3>2. pair \in DOMAIN HexPairs /\ pair[1] \in Bytes /\ pair[2] \in Bytes
      BY <3>1, Zenon DEF IsHexOf
    <3>3. \A k \in {1, 2} : pair[k] \notin {"%", "BS", "SQ"} \union Delimiters \union NotUtf8
      BY <3>2, Zenon, HexAssumption
    <3>4. pair[1] \in good /\ pair[2] \in good
      BY <3>2, <3>3, <1>3
    <3>5. "%" \in good
      BY <1>3, BytesAre
    <3> QED BY <3>1, <3>4, <3>5
  <2> QED BY <2>2, <2>3
<1>5. \A j \in 1..Len(PercentEncode(t)) : PercentEncode(t)[j] \in good
  BY <1>1, <1>2, <1>4, PiecesHold
<1>6. PercentEncode(t) \in Seq(Bytes)
  BY <1>1 DEF Splits
<1> QED BY <1>3, <1>5, <1>6 DEF Free

\* What is encoded ends in a backslash only if the text does, and that one is
\* not encoded.
LEMMA EncodeEnds ==
  ASSUME NEW t \in Seq(Bytes), t # << >> /\ t[Len(t)] = "BS" => HexOf("BS") # {},
         NEW s, s = PercentEncode(t), s # << >>
  PROVE  s[Len(s)] # "BS"
<1>1. PICK q, g, h : EncodePieces(q, t) /\ Splits(g, h, q, Len(t), s)
  BY EncodeSplits
<1>2. PICK n \in Nat : n = Len(t)
  OBVIOUS
<1>3. Splits(g, h, q, n, s) /\ Placed(g, h, q, n, s)
  BY <1>1, <1>2, PiecesPlaced
<1>4. n # 0
  BY <1>3 DEF Splits
<1>5. n \in 1..n
  BY <1>4
<1>6. PICK a, b \in Seq(Bytes) : a = g[n - 1] /\ b = q[n]
  BY <1>3, <1>5 DEF Placed
<1>7. Len(s) = Len(a) + Len(b) /\ \A j \in 1..Len(b) : s[Len(a) + j] = b[j]
  <2>1. s = g[n]
    BY <1>3 DEF Splits
  <2>2. Len(g[n]) = Len(a) + Len(b)
    BY <1>3, <1>5, <1>6 DEF Placed
  <2>3. \A j \in 1..Len(b) : s[Len(a) + j] = b[j]
    BY <1>3, <1>5, <1>6 DEF Placed
  <2> QED BY <2>1, <2>2, <2>3
<1>8. Len(b) >= 1 /\ b[Len(b)] # "BS"
  <2>0. Encoded(q[n], t[n])
    BY <1>1, <1>2, <1>5, EncodePiece
  <2>1. CASE HexOf(t[n]) = {}
    <3>1. Len(q[n]) = 1 /\ q[n][1] = t[n]
      BY <2>1, <2>0 DEF Encoded
    <3>2. t # << >>
      BY <1>2, <1>4
    <3>3. t[n] # "BS"
      BY <3>2, <2>1, <1>2
    <3> QED BY <3>1, <3>3, <1>6
  <2>2. CASE HexOf(t[n]) # {}
    <3>1. PICK pair : /\ IsHexOf(pair, t[n]) /\ Len(q[n]) = 3
                      /\ q[n][1] = "%" /\ q[n][2] = pair[1] /\ q[n][3] = pair[2]
      BY <2>2, <2>0 DEF Encoded
    <3>2. pair \in DOMAIN HexPairs
      BY <3>1 DEF IsHexOf
    <3>3. \A k \in {1, 2} : pair[k] \notin {"%", "BS", "SQ"} \union Delimiters \union NotUtf8
      BY <3>2, Zenon, HexAssumption
    <3>4. pair[2] # "BS"
      BY <3>3
    <3> QED BY <3>1, <3>4, <1>6
  <2> QED BY <2>1, <2>2
<1>9. s[Len(a) + Len(b)] = b[Len(b)]
  BY <1>7, <1>8
<1> QED BY <1>7, <1>8, <1>9

\* An encoded text has no quote to end it early.
LEMMA EncodeCloses ==
  ASSUME NEW t \in Seq(Bytes), Encodes({"%", "DQ"}, t),
         t # << >> /\ t[Len(t)] = "BS" => HexOf("BS") # {}
  PROVE  /\ PercentEncode(t) \in Seq(Bytes) /\ Free(PercentEncode(t), {"DQ"})
         /\ Closed(PercentEncode(t))
<1>1. PICK s : s = PercentEncode(t)
  OBVIOUS
<1>2. s \in Seq(Bytes) /\ Free(s, {"DQ"})
  <2>1. Encodes({"DQ"}, t)
    BY DEF Encodes
  <2>2. "%" \notin {"DQ"} /\ \A x \in {"DQ"} : x \in {"%", "BS", "SQ"} \union Delimiters \union NotUtf8
    BY DelimitersAre
  <2> QED BY <1>1, <2>1, <2>2, EncodeAvoids
<1>3. \A i \in 1..Len(s) : s[i] # "DQ"
  BY <1>2 DEF Free
<1>4. Backslashes(s, Len(s) + 1) = 0
  <2>1. CASE s = << >>
    <3>1. Len(s) + 1 = 1
      BY <2>1
    <3> QED BY <3>1, <1>2, NoBackslashes
  <2>2. CASE s # << >>
    <3>1. s[Len(s)] # "BS"
      BY <1>1, <2>2, EncodeEnds
    <3>2. PICK i \in 1..Len(s) : i = Len(s)
      BY <2>2, <1>2, EmptySeq
    <3>3. Backslashes(s, i + 1) = 0
      BY <1>2, <3>1, <3>2, BackslashesStep
    <3> QED BY <3>2, <3>3
  <2> QED BY <2>1, <2>2
<1>5. 0 % 2 = 0
  OBVIOUS
<1>6. Closed(s)
  BY <1>3, <1>4, <1>5 DEF Closed
<1> QED BY <1>1, <1>2, <1>6

\* What has been percent-encoded decodes to what it was.
LEMMA EncodeReversed ==
  ASSUME NEW t \in Seq(Bytes), Encodes({"%"}, t)
  PROVE  DecodePercent(PercentEncode(t)) = {t}
<1>1. PICK q, g, h : EncodePieces(q, t) /\ Splits(g, h, q, Len(t), PercentEncode(t))
  BY EncodeSplits
<1>2. PICK n \in Nat : n = Len(t) /\ DOMAIN t = 1..n
  OBVIOUS
<1>3. PICK s \in Seq(Bytes) : s = PercentEncode(t)
  BY <1>1 DEF Splits
<1>4. Splits(g, h, q, n, s) /\ Placed(g, h, q, n, s)
  <2>1. Splits(g, h, q, n, s)
    BY <1>1, <1>2, <1>3
  <2> QED BY <2>1, PiecesPlaced
<1>5. PICK m \in Nat : m = Len(s)
  OBVIOUS
<1>6. PICK f : Decodes(f, s, m) /\ DecodePercent(s) = f[1]
  BY <1>5, DecodingSteps
<1>7. g[0] = << >> /\ g[n] = s
  BY <1>4 DEF Splits
<1> DEFINE T == { i \in 1..(n + 1) : f[Len(g[i - 1]) + 1] = {From(t, i)} }
<1>8. n + 1 \in T
  <2>1. Len(g[(n + 1) - 1]) + 1 = m + 1
    BY <1>5, <1>7
  <2>2. f[m + 1] = DecodedFrom(f, s, m + 1)
    BY <1>6 DEF Decodes
  <2>3. DecodedFrom(f, s, m + 1) = { << >> }
    BY <1>5, Zenon DEF DecodedFrom
  <2>4. From(t, n + 1) = << >>
    BY <1>2, Wholes
  <2> QED BY <2>1, <2>2, <2>3, <2>4
<1>9. ASSUME NEW i \in 1..n, i + 1 \in T PROVE i \in T
  <2>1. PICK a, b, c, d \in Seq(Bytes) : a = g[i - 1] /\ b = q[i] /\ c = g[i] /\ d = h[i + 1]
    BY <1>4 DEF Placed
  <2>2. Len(c) = Len(a) + Len(b) /\ m = Len(c) + Len(d) /\ \A j \in 1..Len(b) : s[Len(a) + j] = b[j]
    <3>1. /\ Len(g[i]) = Len(g[i - 1]) + Len(q[i]) /\ Len(s) = Len(g[i]) + Len(h[i + 1])
          /\ \A j \in 1..Len(q[i]) : s[Len(g[i - 1]) + j] = q[i][j]
      BY <1>4 DEF Placed
    <3> QED BY <3>1, <2>1, <1>5, Zenon
  <2>3. PICK p \in Nat : p = Len(a) + 1
    BY <2>1
  <2>4. f[Len(c) + 1] = {From(t, i + 1)}
    <3>1. (i + 1) - 1 = i
      OBVIOUS
    <3> QED BY <3>1, <1>9, <2>1
  <2>5. <<t[i]>> \o From(t, i + 1) = From(t, i)
    BY <1>2, OneLess
  <2>0. Encoded(q[i], t[i])
    BY <1>1, <1>2, EncodePiece
  <2>6. f[p] = {From(t, i)}
    <3>1. CASE HexOf(t[i]) = {}
      <4>1. Len(b) = 1 /\ b[1] = t[i]
        BY <3>1, <2>0, <2>1 DEF Encoded
      <4>2. s[p] = t[i] /\ p + 1 = Len(c) + 1 /\ p \in 1..(m + 1) /\ p # m + 1
        <5>1. s[Len(a) + 1] = b[1]
          BY <4>1, <2>2
        <5> QED BY <5>1, <4>1, <2>2, <2>3
      <4>3. f[p] = DecodedFrom(f, s, p)
        BY <1>6, <4>2 DEF Decodes
      <4>4. t[i] # "%"
        BY <3>1, <1>2 DEF Encodes
      <4>5. DecodedFrom(f, s, p) = { <<t[i]>> \o x : x \in f[p + 1] }
        BY <1>5, <4>2, <4>4, Zenon DEF DecodedFrom
      <4>6. { <<t[i]>> \o x : x \in {From(t, i + 1)} } = { <<t[i]>> \o From(t, i + 1) }
        BY Zenon
      <4> QED BY <4>2, <4>3, <4>5, <4>6, <2>4, <2>5, Zenon
    <3>2. CASE HexOf(t[i]) # {}
      <4>1. PICK pair : /\ IsHexOf(pair, t[i]) /\ Len(q[i]) = 3
                        /\ q[i][1] = "%" /\ q[i][2] = pair[1] /\ q[i][3] = pair[2]
        BY <3>2, <2>0 DEF Encoded
      <4>2. /\ s[p] = "%" /\ s[p + 1] = pair[1] /\ s[p + 2] = pair[2]
            /\ p + 3 = Len(c) + 1 /\ p \in 1..(m + 1) /\ p # m + 1 /\ p + 2 <= m
        <5>1. Len(b) = 3 /\ b[1] = "%" /\ b[2] = pair[1] /\ b[3] = pair[2]
          BY <4>1, <2>1
        <5>2. s[Len(a) + 1] = b[1] /\ s[Len(a) + 2] = b[2] /\ s[Len(a) + 3] = b[3]
          BY <5>1, <2>2
        <5>3. p + 1 = Len(a) + 2 /\ p + 2 = Len(a) + 3
          BY <2>3
        <5> QED BY <5>1, <5>2, <5>3, <2>2, <2>3
      <4>3. pair \in DOMAIN HexPairs /\ HexPairs[pair] = t[i] /\ <<s[p + 1], s[p + 2]>> = pair
        BY <4>1, <4>2 DEF IsHexOf
      <4>4. HexAt(s, p)
        BY <4>2, <4>3, <1>5 DEF HexAt
      <4>5. f[p] = DecodedFrom(f, s, p)
        BY <1>6, <4>2 DEF Decodes
      <4>6. DecodedFrom(f, s, p) = { <<t[i]>> \o x : x \in f[p + 3] }
        BY <1>5, <4>2, <4>3, <4>4, Zenon DEF DecodedFrom
      <4>7. { <<t[i]>> \o x : x \in {From(t, i + 1)} } = { <<t[i]>> \o From(t, i + 1) }
        BY Zenon
      <4> QED BY <4>2, <4>5, <4>6, <4>7, <2>4, <2>5, Zenon
    <3> QED BY <3>1, <3>2
  <2>7. i \in 1..(n + 1)
    OBVIOUS
  <2> QED BY <2>1, <2>3, <2>6, <2>7
<1>10. 1 \in T
  <2> HIDE DEF T
  <2> QED BY <1>8, <1>9, DowntoInduction
<1>11. f[1] = {From(t, 1)} /\ From(t, 1) = t
  <2>1. 1 - 1 = 0 /\ Len(g[0]) + 1 = 1
    BY <1>7
  <2> QED BY <1>10, <2>1, Wholes
<1> QED BY <1>3, <1>6, <1>11

-----------------------------------------------------------------------------
(* One parameter *)

AllSpace(pad) == pad \in Seq(Bytes) /\ \A i \in 1..Len(pad) : pad[i] = "SP"

LEMMA FreeJoined ==
  ASSUME NEW a \in Seq(Bytes), NEW b \in Seq(Bytes), NEW bytes, Free(a, bytes), Free(b, bytes)
  PROVE  a \o b \in Seq(Bytes) /\ Free(a \o b, bytes)
<1>1. PICK c \in Seq(Bytes) :
        /\ c = a \o b /\ Len(c) = Len(a) + Len(b)
        /\ \A i \in 1..Len(a) : c[i] = a[i]
        /\ \A i \in 1..Len(b) : c[Len(a) + i] = b[i]
  BY Joined
<1>2. ASSUME NEW j \in 1..Len(c) PROVE c[j] \notin bytes
  <2>1. CASE j <= Len(a)
    BY <2>1, <1>1 DEF Free
  <2>2. CASE j > Len(a)
    <3>1. PICK k \in 1..Len(b) : j = Len(a) + k
      <4>1. j - Len(a) \in 1..Len(b) /\ j = Len(a) + (j - Len(a))
        BY <2>2, <1>1
      <4> QED BY <4>1
    <3> QED BY <3>1, <1>1 DEF Free
  <2> QED BY <2>1, <2>2
<1>3. Free(c, bytes)
  BY <1>2 DEF Free
<1> QED BY <1>1, <1>3

LEMMA FreeByte ==
  ASSUME NEW x \in Bytes, NEW bytes, x \notin bytes
  PROVE  <<x>> \in Seq(Bytes) /\ Free(<<x>>, bytes)
<1>1. <<x>> \in Seq(Bytes)
  BY OneByte
<1>2. Len(<<x>>) = 1 /\ <<x>>[1] = x
  OBVIOUS
<1> QED BY <1>1, <1>2 DEF Free

Associates(a, b, c) == a \o b \in Seq(Bytes) /\ (a \o b) \o c = a \o (b \o c)

LEMMA AnyAssociate ==
  ASSUME NEW a \in Seq(Bytes), NEW b \in Seq(Bytes), NEW c \in Seq(Bytes)
  PROVE  Associates(a, b, c)
<1>1. a \o b \in Seq(Bytes)
  BY ConcatProperties
<1> QED BY <1>1, Associative DEF Associates

TrimsThen(pad, byte, r) == TrimThen(pad \o (<<byte>> \o r), byte) = {r}

LEMMA TrimThenBehind ==
  ASSUME NEW pad, AllSpace(pad), NEW byte \in Bytes, byte # "SP", NEW r \in Seq(Bytes)
  PROVE  TrimsThen(pad, byte, r)
<1>1. PICK c \in Seq(Bytes) : c = <<byte>> \o r /\ c # << >> /\ c[1] = byte /\ Tail(c) = r
  BY Prepended
<1>2. TrimStart(pad \o c) = c
  BY <1>1, SpacesTrimmed DEF AllSpace
<1>3. TrimThen(pad \o c, byte) = {Tail(c)}
  BY <1>1, <1>2, Zenon DEF TrimThen
<1> QED BY <1>1, <1>3, Zenon DEF TrimsThen

Keyed(k, pad, r) ==
  LET p == <<k>> \o (pad \o (<<"=">> \o r)) IN KeyOf(p) = <<k>> /\ RestOf(p) = {r}

\* A key is the word before the equals sign, with white space around or without.
LEMMA KeyAndRest ==
  ASSUME NEW k \in Bytes, k # "SP", k # "=", NEW pad, AllSpace(pad), NEW r \in Seq(Bytes)
  PROVE  Keyed(k, pad, r)
<1>0. PICK p : p = <<k>> \o (pad \o (<<"=">> \o r))
  OBVIOUS
<1>1. "=" \in Bytes /\ "=" # "SP"
  BY BytesAre
<1>2. PICK c \in Seq(Bytes) : c = <<"=">> \o r /\ c # << >> /\ c[1] = "="
  BY <1>1, Prepended
<1>3. PICK a \in Seq(Bytes) : a = pad /\ \A i \in 1..Len(a) : a[i] = "SP"
  BY DEF AllSpace
<1>4. PICK b \in Seq(Bytes) :
        /\ b = a \o c /\ Len(b) = Len(a) + Len(c)
        /\ \A i \in 1..Len(a) : b[i] = a[i]
        /\ \A i \in 1..Len(c) : b[Len(a) + i] = c[i]
  BY Joined
<1>5. b[1] \in {"SP", "="}
  <2>1. Len(c) >= 1
    BY <1>2, EmptySeq
  <2>2. CASE Len(a) = 0
    <3>1. b[Len(a) + 1] = c[1]
      BY <2>1, <1>4
    <3> QED BY <3>1, <2>2, <1>2
  <2>3. CASE Len(a) # 0
    <3>1. b[1] = a[1] /\ a[1] = "SP"
      BY <2>3, <1>3, <1>4
    <3> QED BY <3>1
  <2> QED BY <2>2, <2>3
<1>6. PICK o \in Seq(Bytes) : o = <<k>> /\ Len(o) = 1 /\ o[1] = k
  <2>1. <<k>> \in Seq(Bytes)
    BY OneByte
  <2> QED BY <2>1
<1>7. \A i \in 1..Len(o) : o[i] \notin {"SP", "="}
  BY <1>6
<1>8. p = o \o b
  BY <1>0, <1>2, <1>3, <1>4, <1>6, Zenon
<1>9. FirstAt(o \o b, {"SP", "="}) = Len(o) + 1
  BY <1>5, <1>7, FirstBehind
<1>10. Before(o \o b, Len(o) + 1) = o /\ From(o \o b, Len(o) + 1) = b
  BY SlicesOfJoined
<1>11. TrimThen(pad \o (<<"=">> \o r), "=") = {r}
  <2>1. TrimsThen(pad, "=", r)
    BY <1>1, TrimThenBehind
  <2> QED BY <2>1, Zenon DEF TrimsThen
<1>12. KeyOf(p) = o
  BY <1>8, <1>9, <1>10, Zenon DEF KeyOf
<1>13. RestOf(p) = {r}
  BY <1>2, <1>3, <1>4, <1>8, <1>9, <1>10, <1>11, Zenon DEF RestOf
<1> QED BY <1>0, <1>6, <1>12, <1>13, Zenon DEF Keyed

Headed(k, pad, y) == pad \o (<<k>> \o (pad \o (<<"=">> \o (pad \o y))))

LEMMA HeadedType ==
  ASSUME NEW k \in Bytes, NEW pad, AllSpace(pad), NEW y \in Seq(Bytes)
  PROVE  /\ Headed(k, pad, y) \in Seq(Bytes) /\ Headed(k, pad, y) # << >>
         /\ \A bytes : k \notin bytes /\ "SP" \notin bytes /\ "=" \notin bytes /\ Free(y, bytes)
                         => Free(Headed(k, pad, y), bytes)
<1>1. pad \in Seq(Bytes) /\ "=" \in Bytes
  BY BytesAre DEF AllSpace
<1>2. PICK a \in Seq(Bytes) : a = pad \o y
  BY <1>1, ConcatProperties
<1>3. PICK b \in Seq(Bytes) : b = <<"=">> \o a
  BY <1>1, Prepended
<1>4. PICK c \in Seq(Bytes) : c = pad \o b
  BY <1>1, ConcatProperties
<1>5. PICK d \in Seq(Bytes) : d = <<k>> \o c /\ d # << >>
  BY Prepended
<1>6. PICK e \in Seq(Bytes) : e = pad \o d /\ Len(e) = Len(pad) + Len(d)
  BY <1>1, ConcatProperties
<1>7. Headed(k, pad, y) = e
  BY <1>2, <1>3, <1>4, <1>5, <1>6, Zenon DEF Headed
<1>8. e # << >>
  <2>1. Len(d) >= 1 /\ Len(pad) \in Nat
    BY <1>1, <1>5, EmptySeq
  <2> QED BY <2>1, <1>6
<1>9. ASSUME NEW bytes, k \notin bytes, "SP" \notin bytes, "=" \notin bytes, Free(y, bytes)
      PROVE  Free(e, bytes)
  <2>1. Free(pad, bytes)
    BY <1>9 DEF Free, AllSpace
  <2>2. Free(a, bytes)
    BY <2>1, <1>1, <1>2, <1>9, FreeJoined
  <2>3. <<"=">> \in Seq(Bytes) /\ Free(<<"=">>, bytes)
    BY <1>1, <1>9, FreeByte
  <2>4. Free(b, bytes)
    BY <2>2, <2>3, <1>3, FreeJoined
  <2>5. Free(c, bytes)
    BY <2>1, <2>4, <1>1, <1>4, FreeJoined
  <2>6. <<k>> \in Seq(Bytes) /\ Free(<<k>>, bytes)
    BY <1>9, FreeByte
  <2>7. Free(d, bytes)
    BY <2>5, <2>6, <1>5, FreeJoined
  <2> QED BY <2>1, <2>7, <1>1, <1>6, FreeJoined
<1> QED BY <1>7, <1>8, <1>9

LEMMA HeadedJoined ==
  ASSUME NEW k \in Bytes, NEW pad, AllSpace(pad), NEW y \in Seq(Bytes)
  PROVE  Headed(k, pad, << >>) \o y = Headed(k, pad, y)
<1>1. pad \in Seq(Bytes) /\ <<"=">> \in Seq(Bytes) /\ <<k>> \in Seq(Bytes)
  BY BytesAre, OneByte DEF AllSpace
<1>2. PICK e, o, w \in Seq(Bytes) : e = <<"=">> /\ o = <<k>> /\ w = pad
  BY <1>1
<1>3. w \o << >> = w
  OBVIOUS
<1>4. PICK a \in Seq(Bytes) : a = e \o w /\ a \o y = e \o (w \o y)
  <2>1. Associates(e, w, y)
    BY AnyAssociate
  <2> QED BY <2>1, Zenon DEF Associates
<1>5. PICK b \in Seq(Bytes) : b = w \o a /\ b \o y = w \o (a \o y)
  <2>1. Associates(w, a, y)
    BY AnyAssociate
  <2> QED BY <2>1, Zenon DEF Associates
<1>6. PICK c \in Seq(Bytes) : c = o \o b /\ c \o y = o \o (b \o y)
  <2>1. Associates(o, b, y)
    BY AnyAssociate
  <2> QED BY <2>1, Zenon DEF Associates
<1>7. (w \o c) \o y = w \o (c \o y)
  <2>1. Associates(w, c, y)
    BY AnyAssociate
  <2> QED BY <2>1, Zenon DEF Associates
<1>8. Headed(k, pad, << >>) = w \o c
  BY <1>2, <1>3, <1>4, <1>5, <1>6, Zenon DEF Headed
<1>9. Headed(k, pad, y) = w \o (c \o y)
  BY <1>2, <1>4, <1>5, <1>6, Zenon DEF Headed
<1> QED BY <1>7, <1>8, <1>9, Zenon

\* White space before a parameter is skipped.
LEMMA HeadedTrimmed ==
  ASSUME NEW k \in Bytes, k # "SP", NEW pad, AllSpace(pad), NEW y \in Seq(Bytes)
  PROVE  TrimStart(Headed(k, pad, y)) = <<k>> \o (pad \o (<<"=">> \o (pad \o y)))
<1>1. pad \in Seq(Bytes) /\ "=" \in Bytes
  BY BytesAre DEF AllSpace
<1>2. PICK a \in Seq(Bytes) : a = pad \o y
  BY <1>1, ConcatProperties
<1>3. PICK b \in Seq(Bytes) : b = <<"=">> \o a
  BY <1>1, Prepended
<1>4. PICK c \in Seq(Bytes) : c = pad \o b
  BY <1>1, ConcatProperties
<1>5. PICK d \in Seq(Bytes) : d = <<k>> \o c /\ d # << >> /\ d[1] = k
  BY Prepended
<1>6. TrimStart(pad \o d) = d
  BY <1>5, SpacesTrimmed DEF AllSpace
<1> QED BY <1>2, <1>3, <1>4, <1>5, <1>6, Zenon DEF Headed

-----------------------------------------------------------------------------
(* Where the value of a parameter is found *)

PlainWire(w) ==
  /\ w \in Seq(Bytes) /\ Free(w, {Semi, "DQ"})
  /\ w # << >> => w[1] # "SP" /\ w[Len(w)] # "SP"

Padding(pad, w) == pad \o (w \o pad)

LEMMA UnquotedIs ==
  ASSUME NEW rest, NEW v, v = TrimStart(rest)
  PROVE  UnquotedValue(rest) = TrimEnd(Before(v, FirstAt(v, {Semi})))
  BY Zenon DEF UnquotedValue, Semi

\* An unquoted value is found without the white space around it.
LEMMA PlainRest ==
  ASSUME NEW pad, AllSpace(pad), NEW w, PlainWire(w), NEW rest, rest = Padding(pad, w)
  PROVE  QuotedValue(rest) = {} /\ UnquotedValue(rest) = w
<1>1. PICK p, x \in Seq(Bytes) : p = pad /\ x = w
  BY DEF AllSpace, PlainWire
<1>2. /\ \A i \in 1..Len(p) : p[i] = "SP"
      /\ \A i \in 1..Len(x) : x[i] # Semi /\ x[i] # "DQ"
      /\ x # << >> => x[1] # "SP" /\ x[Len(x)] # "SP"
  BY <1>1 DEF AllSpace, PlainWire, Free
<1>3. PICK y \in Seq(Bytes) :
        /\ y = x \o p /\ Len(y) = Len(x) + Len(p)
        /\ \A i \in 1..Len(x) : y[i] = x[i]
        /\ \A i \in 1..Len(p) : y[Len(x) + i] = p[i]
  BY Joined
<1>4. rest = p \o y
  BY <1>1, <1>3, Zenon DEF Padding
<1>5. << >> \in Seq(Bytes) /\ Len(<< >>) = 0
  OBVIOUS
<1>6. PICK v \in Seq(Bytes) :
        /\ v = TrimStart(rest) /\ (v # << >> => v[1] # "DQ")
        /\ TrimEnd(v) = x
        /\ Free(v, {Semi})
  <2>1. CASE x = << >>
    <3>1. y = p
      <4>1. << >> \o p = p
        OBVIOUS
      <4> QED BY <4>1, <2>1, <1>3
    <3>2. PICK a \in Seq(Bytes) :
            /\ a = p \o y /\ Len(a) = Len(p) + Len(y)
            /\ \A i \in 1..Len(p) : a[i] = p[i]
            /\ \A i \in 1..Len(y) : a[Len(p) + i] = y[i]
      BY Joined
    <3>4. \A i \in 1..Len(a) : a[i] = "SP"
      <4>1. SUFFICES ASSUME NEW i \in 1..Len(a) PROVE a[i] = "SP"
        OBVIOUS
      <4>2. CASE i <= Len(p)
        BY <4>2, <1>2, <3>2
      <4>3. CASE i > Len(p)
        <5>1. PICK k \in 1..Len(y) : i = Len(p) + k
          <6>1. i - Len(p) \in 1..Len(y) /\ i = Len(p) + (i - Len(p))
            BY <4>3, <3>2
          <6> QED BY <6>1
        <5> QED BY <5>1, <1>2, <3>1, <3>2
      <4> QED BY <4>2, <4>3
    <3>5. TrimStart(a \o << >>) = << >>
      BY <3>4, <1>5, SpacesTrimmed
    <3>6. a \o << >> = a
      OBVIOUS
    <3>7. TrimStart(rest) = << >>
      BY <3>2, <3>5, <3>6, <1>4
    <3>8. TrimEnd(<< >>) = << >>
      <4>1. TrimEnd(<< >> \o << >>) = << >>
        <5>1. PICK z \in Seq(Bytes) : z = << >> /\ Len(z) = 0
          BY EmptySeq
        <5>2. \A i \in 1..Len(z) : z[i] = "SP"
          BY <5>1
        <5> QED BY <5>1, <5>2, SpacesTrimmed
      <4>2. << >> \o << >> = << >>
        OBVIOUS
      <4> QED BY <4>1, <4>2
    <3>9. Free(<< >>, {Semi})
      BY DEF Free
    <3> QED BY <3>7, <3>8, <3>9, <2>1, <1>5
  <2>2. CASE x # << >>
    <3>1. Len(x) >= 1
      BY <2>2, EmptySeq
    <3>2. y[1] = x[1] /\ y # << >> /\ x[1] # "SP" /\ x[1] # "DQ"
      BY <3>1, <2>2, <1>2, <1>3
    <3>3. TrimStart(p \o y) = y
      BY <3>2, <1>2, SpacesTrimmed
    <3>4. TrimEnd(x \o p) = x
      BY <2>2, <1>2, SpacesTrimmed
    <3>5. Free(y, {Semi})
      <4>1. Free(x, {Semi})
        BY <1>2 DEF Free
      <4>2. Free(p, {Semi})
        BY <1>2, SemiIsApart DEF Free
      <4> QED BY <4>1, <4>2, <1>3, FreeJoined
    <3> QED BY <3>2, <3>3, <3>4, <3>5, <1>3, <1>4
  <2> QED BY <2>1, <2>2
<1>7. TrimThen(rest, "DQ") = {}
  BY <1>6, Zenon DEF TrimThen
<1>8. QuotedValue(rest) = {}
  BY <1>7, Zenon DEF QuotedValue
<1>9. FirstAt(v, {Semi}) = Len(v) + 1
  <2>1. FirstAt(v \o << >>, {Semi}) = Len(v) + 1
    <3>1. PICK z \in Seq(Bytes) : z = << >>
      BY <1>5, Zenon
    <3>2. Free(v, {Semi})
      BY <1>6 DEF Free
    <3> QED BY <3>1, <3>2, FirstBehind DEF Free
  <2>2. v \o << >> = v
    OBVIOUS
  <2> QED BY <2>1, <2>2
<1>10. Before(v, Len(v) + 1) = v
  BY Wholes
<1>11. UnquotedValue(rest) = TrimEnd(Before(v, FirstAt(v, {Semi})))
  BY <1>6, UnquotedIs
<1> QED BY <1>1, <1>6, <1>8, <1>9, <1>10, <1>11

LEMMA QuoteIs ==
  ASSUME NEW e \in Seq(Bytes), NEW y \in Seq(Bytes)
  PROVE  /\ Quote(e) \in Seq(Bytes)
         /\ Quote(e) \o y = <<"DQ">> \o (e \o (<<"DQ">> \o y))
<1>1. <<"DQ">> \in Seq(Bytes)
  BY BytesAre, OneByte
<1>2. PICK d \in Seq(Bytes) : d = <<"DQ">>
  BY <1>1
<1>3. PICK a \in Seq(Bytes) : a = d \o e /\ a \o d = d \o (e \o d)
  <2>1. Associates(d, e, d)
    BY AnyAssociate
  <2> QED BY <2>1, Zenon DEF Associates
<1>4. PICK b \in Seq(Bytes) : b = a \o d /\ b \o y = a \o (d \o y)
  <2>1. Associates(a, d, y)
    BY AnyAssociate
  <2> QED BY <2>1, Zenon DEF Associates
<1>5. PICK c \in Seq(Bytes) : c = d \o y
  BY ConcatProperties
<1>6. a \o c = d \o (e \o c)
  <2>1. Associates(d, e, c)
    BY AnyAssociate
  <2> QED BY <2>1, <1>3, Zenon DEF Associates
<1>7. Quote(e) = b
  BY <1>2, <1>3, <1>4, Zenon DEF Quote
<1> QED BY <1>2, <1>4, <1>5, <1>6, <1>7, Zenon

\* A quoted value is found between its quotes.
LEMMA StringRest ==
  ASSUME NEW pad, AllSpace(pad), NEW e \in Seq(Bytes), Closed(e),
         NEW rest, rest = Padding(pad, Quote(e))
  PROVE  \E v : /\ QuotedValue(rest) = {v} /\ v.bytes = e
                /\ v.escaped <=> \E i \in 1..Len(e) : e[i] = "DQ"
<1>1. PICK p \in Seq(Bytes) : p = pad
  BY DEF AllSpace
<1>2. PICK s \in Seq(Bytes) :
        /\ s = e \o (<<"DQ">> \o p)
        /\ \A i \in 1..Len(e) : s[i] = e[i]
        /\ s[Len(e) + 1] = "DQ"
        /\ \A i \in 1..Len(p) : s[Len(e) + 1 + i] = p[i]
        /\ Len(s) = Len(e) + 1 + Len(p)
        /\ \A i \in 1..Len(e) : i \notin ClosingQuotes(s)
        /\ Backslashes(s, Len(e) + 1) % 2 = 0
        /\ Len(e) + 1 \in ClosingQuotes(s)
        /\ Min(ClosingQuotes(s)) = Len(e) + 1
  BY ClosesBehind
<1>3. Quote(e) \o p = <<"DQ">> \o s
  BY <1>2, QuoteIs
<1>4. rest = pad \o (<<"DQ">> \o s)
  BY <1>1, <1>3, Zenon DEF Padding
<1>5. TrimThen(rest, "DQ") = {s}
  <2>1. TrimsThen(pad, "DQ", s)
    BY BytesAre, TrimThenBehind
  <2> QED BY <2>1, <1>4, Zenon DEF TrimsThen
<1>6. PICK n \in Nat : n = Len(e) /\ Min(ClosingQuotes(s)) = n + 1 /\ n + 1 \in ClosingQuotes(s)
  BY <1>2
<1>7. Before(s, n + 1) = e
  <2>1. PICK i \in 1..(Len(s) + 1) : i = n + 1 /\ i - 1 = n
    BY <1>2, <1>6
  <2>2. /\ Before(s, i) \in Seq(Bytes) /\ Len(Before(s, i)) = i - 1
        /\ \A j \in 1..(i - 1) : Before(s, i)[j] = s[j]
    BY BeforeProperties
  <2>3. PICK b \in Seq(Bytes) : b = Before(s, i) /\ Len(b) = n /\ \A j \in 1..n : b[j] = s[j]
    BY <2>1, <2>2
  <2>4. \A j \in 1..n : s[j] = e[j]
    BY <1>2, <1>6
  <2>5. Len(b) = Len(e) /\ \A j \in 1..Len(b) : b[j] = e[j]
    BY <2>3, <2>4, <1>6
  <2>6. b = e
    BY <2>5, SeqEqual
  <2> QED BY <2>1, <2>3, <2>6
<1>8. (\E i \in 1..(n + 1 - 1) : s[i] = "DQ") <=> \E i \in 1..Len(e) : e[i] = "DQ"
  BY <1>2, <1>6
<1>9. ClosingQuotes(s) # {}
  BY <1>6
<1> DEFINE found(t, m) == [ bytes |-> Before(t, m), escaped |-> \E i \in 1..(m - 1) : t[i] = "DQ" ]
<1>10. QuotedValue(rest) = { found(t, Min(ClosingQuotes(t))) : t \in {s} }
  <2>1. { t \in {s} : ClosingQuotes(t) # {} } = {s}
    BY <1>9, Zenon
  <2> QED BY <1>5, <2>1, Zenon DEF QuotedValue
<1>11. QuotedValue(rest) = { found(s, n + 1) }
  <2> HIDE DEF found
  <2> QED BY <1>6, <1>10, Zenon
<1>12. found(s, n + 1).bytes = Before(s, n + 1)
  OBVIOUS
<1>13. found(s, n + 1).escaped <=> \E i \in 1..(n + 1 - 1) : s[i] = "DQ"
  OBVIOUS
<1> HIDE DEF found
<1> QED BY <1>7, <1>8, <1>11, <1>12, <1>13, Zenon

-----------------------------------------------------------------------------
(* What the value decodes to *)

\* A value that is UTF-8 decodes to one text.
LEMMA ValueDecodes ==
  ASSUME NEW v, NEW percent \in BOOLEAN, NEW text, Utf8(text),
         percent => DecodePercent(v.bytes) = {text} \/ (DecodePercent(v.bytes) = {} /\ v.bytes = text),
         ~percent => v.bytes = text
  PROVE  DecodeValue(v, percent) = { IF v.escaped THEN Unescape(text) ELSE text }
<1> DEFINE decoded == IF percent THEN DecodePercent(v.bytes) ELSE {}
<1>1. (IF decoded = {} THEN v.bytes ELSE CHOOSE d \in decoded : TRUE) = text
  <2>1. CASE decoded = {text}
    <3>1. (CHOOSE d \in {text} : TRUE) = text
      BY Zenon
    <3>2. decoded # {}
      BY <2>1
    <3> HIDE DEF decoded
    <3> QED BY <2>1, <3>1, <3>2, Zenon
  <2>2. CASE decoded = {} /\ v.bytes = text
    BY <2>2, Zenon
  <2>3. decoded = {text} \/ (decoded = {} /\ v.bytes = text)
    BY Zenon
  <2> QED BY <2>1, <2>2, <2>3, Zenon
<1>2. { u \in {text} : Utf8(u) } = {text}
  BY Zenon
<1>3. { IF v.escaped THEN Unescape(t) ELSE t : t \in {text} } = { IF v.escaped THEN Unescape(text) ELSE text }
  BY Zenon
<1> QED BY <1>1, <1>2, <1>3, Zenon DEF DecodeValue

\* A text that is not encoded is not taken for one that is.
LEMMA NotEncodedStays ==
  ASSUME NEW s \in Seq(Bytes), NotEncoded(s)
  PROVE  DecodePercent(s) = {s} \/ DecodePercent(s) = {}
<1>1. PICK n \in Nat : n = Len(s) /\ DOMAIN s = 1..n
  OBVIOUS
<1>2. CASE \A i \in 1..n : s[i] # "%"
  <2>1. Free(s, {"%"})
    BY <1>1, <1>2 DEF Free
  <2> QED BY <2>1, NothingToDecode
<1>3. CASE \E i \in 1..n : s[i] = "%"
  <2>1. PICK m \in 1..n : s[m] = "%" /\ ~(m + 2 <= Len(s) /\ <<s[m + 1], s[m + 2]>> \in DOMAIN HexPairs)
    BY <1>1, <1>3, Zenon DEF NotEncoded
  <2>2. m \in 1..Len(s) /\ ~HexAt(s, m)
    BY <1>1, <2>1 DEF HexAt
  <2> QED BY <2>1, <2>2, MalformedSpoils
<1> QED BY <1>2, <1>3

\* With a percent sign in it, such a text decodes to nothing.
LEMMA NotEncodedFails ==
  ASSUME NEW s \in Seq(Bytes), NotEncoded(s), ~Free(s, {"%"})
  PROVE  DecodePercent(s) = {}
<1>1. PICK n \in Nat : n = Len(s) /\ DOMAIN s = 1..n
  OBVIOUS
<1>2. \E i \in 1..n : s[i] = "%"
  BY <1>1 DEF Free
<1>3. PICK m \in 1..n : s[m] = "%" /\ ~(m + 2 <= Len(s) /\ <<s[m + 1], s[m + 2]>> \in DOMAIN HexPairs)
  BY <1>1, <1>2, Zenon DEF NotEncoded
<1>4. m \in 1..Len(s) /\ ~HexAt(s, m)
  BY <1>1, <1>3 DEF HexAt
<1> QED BY <1>3, <1>4, MalformedSpoils

LEMMA FromThird ==
  ASSUME NEW s \in Seq(Bytes), NEW m \in Nat, Len(s) = 2 + m
  PROVE  \E b \in Seq(Bytes) : b = From(s, 2 + 1) /\ Len(b) = m /\ \A j \in 1..m : b[j] = s[2 + j]
<1>1. PICK k \in 1..(Len(s) + 1) : k = 3
  OBVIOUS
<1>2. /\ From(s, k) \in Seq(Bytes) /\ Len(From(s, k)) = Len(s) - k + 1
      /\ \A j \in 1..(Len(s) - k + 1) : From(s, k)[j] = s[k + j - 1]
  BY FromProperties
<1>3. Len(s) - k + 1 = m
  BY <1>1
<1>4. ASSUME NEW j \in 1..m PROVE From(s, k)[j] = s[2 + j]
  <2>1. k + j - 1 = 2 + j
    BY <1>1
  <2> QED BY <2>1, <1>2, <1>3
<1>5. 2 + 1 = k
  BY <1>1
<1>6. PICK b \in Seq(Bytes) : b = From(s, k)
  BY <1>2
<1> QED BY <1>2, <1>3, <1>4, <1>5, <1>6

HasParts(w, c, e) ==
  /\ w \in Seq(Bytes) /\ w # << >> /\ w[1] = c
  /\ w[Len(w)] = "SQ" \/ (e # << >> /\ w[Len(w)] = e[Len(e)])
  /\ \A bytes : c \notin bytes /\ "SQ" \notin bytes /\ "en" \notin bytes /\ Free(e, bytes)
                  => Free(w, bytes)
  /\ FirstAt(w, {"SQ"}) = 2 /\ Before(w, 2) = <<c>>
  /\ \E r \in Seq(Bytes) : /\ r = From(w, 2 + 1) /\ FirstAt(r, {"SQ"}) = 2 /\ 2 <= Len(r)
                           /\ From(r, 2 + 1) = e

\* Charset, language and text of an extended value are told apart.
LEMMA ExtendedParts ==
  ASSUME NEW c \in Bytes, c # "SQ", NEW e \in Seq(Bytes)
  PROVE  HasParts(<<c, "SQ", "en", "SQ">> \o e, c, e)
<1>1. PICK d \in Seq(Bytes) :
        /\ d = <<c, "SQ", "en", "SQ">> /\ Len(d) = 4
        /\ d[1] = c /\ d[2] = "SQ" /\ d[3] = "en" /\ d[4] = "SQ"
  <2>1. PICK x, y \in Bytes : x = "SQ" /\ y = "en"
    BY BytesAre
  <2>2. <<c, x, y, x>> \in Seq(Bytes)
    OBVIOUS
  <2>3. Len(<<c, x, y, x>>) = 4
    OBVIOUS
  <2>4. <<c, x, y, x>>[1] = c /\ <<c, x, y, x>>[2] = x /\ <<c, x, y, x>>[3] = y /\ <<c, x, y, x>>[4] = x
    OBVIOUS
  <2> QED BY <2>1, <2>2, <2>3, <2>4, Zenon
<1>2. PICK s \in Seq(Bytes) :
        /\ s = d \o e /\ Len(s) = Len(d) + Len(e)
        /\ \A i \in 1..Len(d) : s[i] = d[i]
        /\ \A i \in 1..Len(e) : s[Len(d) + i] = e[i]
  BY Joined
<1>3. s = <<c, "SQ", "en", "SQ">> \o e
  BY <1>1, <1>2
<1>4. PICK n \in Nat : n = Len(e)
  OBVIOUS
<1>5. /\ Len(s) = 4 + n /\ s[1] = c /\ s[2] = "SQ" /\ s[3] = "en" /\ s[4] = "SQ"
      /\ \A i \in 1..n : s[4 + i] = e[i]
  <2>1. Len(s) = 4 + n
    BY <1>1, <1>2, <1>4
  <2>2. s[1] = d[1] /\ s[2] = d[2] /\ s[3] = d[3] /\ s[4] = d[4]
    BY <1>1, <1>2
  <2>3. \A i \in 1..n : s[4 + i] = e[i]
    BY <1>1, <1>2, <1>4
  <2> QED BY <2>1, <2>2, <2>3, <1>1
<1>6. s # << >> /\ (s[Len(s)] = "SQ" \/ (e # << >> /\ s[Len(s)] = e[Len(e)]))
  <2>1. s # << >>
    BY <1>5
  <2>2. CASE n = 0
    BY <2>1, <2>2, <1>5
  <2>3. CASE n # 0
    <3>1. n \in 1..n /\ e # << >>
      BY <2>3, <1>4
    <3>2. s[4 + n] = e[n]
      BY <3>1, <1>5
    <3> QED BY <2>1, <3>1, <3>2, <1>4, <1>5
  <2> QED BY <2>2, <2>3
<1>7. ASSUME NEW bytes, c \notin bytes, "SQ" \notin bytes, "en" \notin bytes, Free(e, bytes)
      PROVE  Free(s, bytes)
  <2>1. SUFFICES ASSUME NEW j \in 1..(4 + n) PROVE s[j] \notin bytes
    BY <1>5 DEF Free
  <2>2. CASE j \in {1, 2, 3, 4}
    BY <2>2, <1>5, <1>7
  <2>3. CASE j \notin {1, 2, 3, 4}
    <3>1. PICK i \in 1..n : j = 4 + i
      <4>1. j - 4 \in 1..n /\ j = 4 + (j - 4)
        BY <2>3
      <4> QED BY <4>1
    <3> QED BY <3>1, <1>4, <1>5, <1>7 DEF Free
  <2> QED BY <2>2, <2>3
<1>8. FirstAt(s, {"SQ"}) = 2
  <2>1. PICK k \in 1..(Len(s) + 1) : /\ k = FirstAt(s, {"SQ"}) /\ (k <= Len(s) => s[k] \in {"SQ"})
                                     /\ \A j \in 1..(k - 1) : s[j] \notin {"SQ"}
    BY FirstAtProperties
  <2>2. k # 1
    BY <2>1, <1>5
  <2>3. k <= 2
    <3>1. k > 2 => 2 \in 1..(k - 1)
      OBVIOUS
    <3> QED BY <3>1, <2>1, <1>5
  <2> QED BY <2>1, <2>2, <2>3
<1>9. Before(s, 2) = <<c>>
  <2>1. PICK k \in 1..(Len(s) + 1) : k = 2
    BY <1>5
  <2>2. /\ Before(s, k) \in Seq(Bytes) /\ Len(Before(s, k)) = k - 1
        /\ \A j \in 1..(k - 1) : Before(s, k)[j] = s[j]
    BY BeforeProperties
  <2>3. PICK b \in Seq(Bytes) : b = Before(s, 2) /\ Len(b) = 1 /\ b[1] = c
    BY <2>1, <2>2, <1>5
  <2>4. b = <<c>>
    BY <2>3
  <2> QED BY <2>3, <2>4
<1>10. PICK r \in Seq(Bytes) :
         /\ r = From(s, 2 + 1) /\ Len(r) = 2 + n /\ r[1] = "en" /\ r[2] = "SQ"
         /\ \A i \in 1..n : r[2 + i] = e[i]
  <2>1. PICK m \in Nat : m = 2 + n /\ Len(s) = 2 + m
    BY <1>5
  <2>2. PICK r \in Seq(Bytes) : r = From(s, 2 + 1) /\ Len(r) = m /\ \A j \in 1..m : r[j] = s[2 + j]
    BY <2>1, FromThird
  <2>3. r[1] = s[3] /\ r[2] = s[4]
    BY <2>1, <2>2
  <2>4. ASSUME NEW i \in 1..n PROVE r[2 + i] = e[i]
    <3>1. 2 + i \in 1..m /\ 2 + (2 + i) = 4 + i
      BY <2>1
    <3> QED BY <3>1, <2>2, <1>5
  <2> QED BY <2>1, <2>2, <2>3, <2>4, <1>5
<1>11. FirstAt(r, {"SQ"}) = 2
  <2>1. PICK k \in 1..(Len(r) + 1) : /\ k = FirstAt(r, {"SQ"}) /\ (k <= Len(r) => r[k] \in {"SQ"})
                                     /\ \A j \in 1..(k - 1) : r[j] \notin {"SQ"}
    BY FirstAtProperties
  <2>2. k # 1
    BY <2>1, <1>10
  <2>3. k <= 2
    <3>1. k > 2 => 2 \in 1..(k - 1)
      OBVIOUS
    <3> QED BY <3>1, <2>1, <1>10
  <2> QED BY <2>1, <2>2, <2>3
<1>12. From(r, 2 + 1) = e
  <2>1. PICK b \in Seq(Bytes) : b = From(r, 2 + 1) /\ Len(b) = n /\ \A j \in 1..n : b[j] = r[2 + j]
    BY <1>10, FromThird
  <2>2. Len(b) = Len(e) /\ \A j \in 1..Len(b) : b[j] = e[j]
    BY <2>1, <1>4, <1>10
  <2>3. b = e
    BY <2>2, SeqEqual
  <2> QED BY <2>1, <2>3
<1>13. 2 <= Len(r)
  BY <1>10
<1>14. HasParts(s, c, e)
  BY <1>5, <1>6, <1>7, <1>8, <1>9, <1>10, <1>11, <1>12, <1>13 DEF HasParts
<1> QED BY <1>3, <1>14, Zenon

-----------------------------------------------------------------------------
(* What a client writes, form by form *)

LEMMA WrittenTypes ==
  ASSUME NEW p, WellWritten(p)
  PROVE  /\ p.text \in Seq(Bytes) /\ AllSpace(p.pad)
         /\ p.written \in Bytes /\ p.written \notin {Semi, "=", "SP", "DQ"}
<1>1. p.text \in Seq(STRING) /\ p.pad \in Seq({"SP"}) /\ p.written \in STRING /\ p.written \notin Delimiters
  BY Zenon DEF WellWritten
<1>2. PICK a \in Seq({"SP"}) : a = p.pad
  BY <1>1
<1>3. \A i \in 1..Len(a) : a[i] = "SP"
  OBVIOUS
<1>4. a \in Seq(Bytes)
  <2>1. a \in [1..Len(a) -> {"SP"}] /\ Len(a) \in Nat
    OBVIOUS
  <2>2. a \in [1..Len(a) -> Bytes]
    BY <2>1, BytesAre
  <2> QED BY <2>1, <2>2, SeqDef
<1>5. p.text \in Seq(Bytes) /\ p.written \in Bytes
  BY <1>1, BytesSeq, BytesAre
<1> QED BY <1>1, <1>2, <1>3, <1>4, <1>5, DelimitersAre DEF AllSpace

\* A token as it stands in the header.
LEMMA TokenWritten ==
  ASSUME NEW p, WellWritten(p), p.form = "token"
  PROVE  Wire(p) = p.text /\ PlainWire(p.text)
<1>1. Wire(p) = p.text
  BY DEF Wire
<1>2. WellFormed(p)
  BY Zenon DEF WellWritten
<1>3. /\ \A i \in DOMAIN p.text : p.text[i] \notin {Semi, "DQ"}
      /\ p.text # << >> => p.text[1] # "SP" /\ p.text[Len(p.text)] # "SP"
  BY <1>2, Zenon DEF WellFormed, Semi
<1>4. p.text \in Seq(Bytes)
  BY WrittenTypes
<1>5. Free(p.text, {Semi, "DQ"})
  BY <1>3, <1>4 DEF Free
<1> QED BY <1>1, <1>3, <1>4, <1>5, Zenon DEF PlainWire

\* A quoted value as it stands in the header.
LEMMA QuotedWritten ==
  ASSUME NEW p, WellWritten(p), p.form = "quoted"
  PROVE  /\ Wire(p) = Quote(Escape(p.text))
         /\ Escape(p.text) \in Seq(Bytes) /\ Closed(Escape(p.text))
<1>1. Wire(p) = Quote(Escape(p.text))
  BY DEF Wire
<1>2. WellFormed(p)
  BY Zenon DEF WellWritten
<1>3. Quotable(p.text)
  BY <1>2, Zenon DEF WellFormed
<1>4. p.text \in Seq(Bytes)
  BY WrittenTypes
<1> QED BY <1>1, <1>3, <1>4, EscapeCloses

\* A percent-encoded value as it stands in the header.
LEMMA PercentWritten ==
  ASSUME NEW p, WellWritten(p), p.form = "percent"
  PROVE  /\ Wire(p) = Quote(PercentEncode(p.text))
         /\ PercentEncode(p.text) \in Seq(Bytes) /\ Closed(PercentEncode(p.text))
         /\ Free(PercentEncode(p.text), {"DQ"})
         /\ DecodePercent(PercentEncode(p.text)) = {p.text}
<1>1. Wire(p) = Quote(PercentEncode(p.text))
  BY DEF Wire
<1>2. WellFormed(p)
  BY Zenon DEF WellWritten
<1>3. /\ Encodes({"%", "DQ"}, p.text)
      /\ p.text # << >> /\ p.text[Len(p.text)] = "BS" => HexOf("BS") # {}
  BY <1>2, Zenon DEF WellFormed
<1>4. PICK t \in Seq(Bytes) : t = p.text
  BY WrittenTypes
<1>5. Encodes({"%"}, t)
  BY <1>3, <1>4 DEF Encodes
<1>6. DecodePercent(PercentEncode(t)) = {t}
  BY <1>5, EncodeReversed
<1>7. PercentEncode(t) \in Seq(Bytes) /\ Free(PercentEncode(t), {"DQ"}) /\ Closed(PercentEncode(t))
  BY <1>3, <1>4, EncodeCloses
<1> QED BY <1>1, <1>4, <1>6, <1>7

\* A value in the extended form, whatever its last part decodes to.
LEMMA ExtendedFound ==
  ASSUME NEW c \in Bytes, c \notin Delimiters, c \notin NotUtf8, c # "SQ",
         NEW e \in Seq(Bytes), Free(e, Delimiters \union NotUtf8),
         NEW w, HasParts(w, c, e)
  PROVE  /\ PlainWire(w)
         /\ DecodeExtended(w) =
              IF <<c>> \in DOMAIN Undecodable
              THEN { d \in DecodePercent(e) : \A i \in DOMAIN d : d[i] \notin Undecodable[<<c>>] }
              ELSE {}
<1>1. /\ w \in Seq(Bytes) /\ w # << >> /\ w[1] = c
      /\ w[Len(w)] = "SQ" \/ (e # << >> /\ w[Len(w)] = e[Len(e)])
      /\ \A bytes : c \notin bytes /\ "SQ" \notin bytes /\ "en" \notin bytes /\ Free(e, bytes)
                      => Free(w, bytes)
      /\ FirstAt(w, {"SQ"}) = 2 /\ Before(w, 2) = <<c>>
      /\ \E r \in Seq(Bytes) : /\ r = From(w, 2 + 1) /\ FirstAt(r, {"SQ"}) = 2 /\ 2 <= Len(r)
                               /\ From(r, 2 + 1) = e
  BY Zenon DEF HasParts
<1>2. PlainWire(w)
  <2>1. Free(w, {Semi, "DQ"})
    <3>1. Free(e, {Semi, "DQ"})
      BY DelimitersAre DEF Free
    <3>2. c \notin {Semi, "DQ"} /\ "SQ" \notin {Semi, "DQ"} /\ "en" \notin {Semi, "DQ"}
      BY DelimitersAre, SemiIsApart
    <3> QED BY <3>1, <3>2, <1>1
  <2>2. w[1] # "SP"
    BY <1>1, DelimitersAre
  <2>3. w[Len(w)] # "SP"
    <3>1. CASE w[Len(w)] = "SQ"
      BY <3>1
    <3>2. CASE e # << >> /\ w[Len(w)] = e[Len(e)]
      <4>1. Len(e) \in 1..Len(e)
        BY <3>2, EmptySeq
      <4>2. e[Len(e)] \notin Delimiters
        BY <4>1 DEF Free
      <4> QED BY <3>2, <4>2, DelimitersAre
    <3> QED BY <3>1, <3>2, <1>1
  <2> QED BY <2>1, <2>2, <2>3, <1>1 DEF PlainWire
<1>3. Utf8(w)
  <2>1. Free(e, NotUtf8)
    BY DEF Free
  <2>2. "SQ" \notin NotUtf8 /\ "en" \notin NotUtf8
    BY AsciiAssumption
  <2>3. Free(w, NotUtf8)
    BY <2>1, <2>2, <1>1
  <2> QED BY <2>3, <1>1 DEF Free, Utf8
<1>4. PICK r \in Seq(Bytes) : /\ r = From(w, 2 + 1) /\ FirstAt(r, {"SQ"}) = 2 /\ 2 <= Len(r)
                              /\ From(r, 2 + 1) = e
  BY <1>1
<1> QED BY <1>1, <1>2, <1>3, <1>4, Zenon DEF DecodeExtended

\* An extended value as it stands in the header.
LEMMA ExtendedWritten ==
  ASSUME NEW p, WellWritten(p), p.form \in {"extended", "bare"}
  PROVE  /\ PlainWire(Wire(p))
         /\ DecodeExtended(Wire(p)) = IF Decodable(p) THEN {p.text} ELSE {}
<1>1. Wire(p) = <<p.charset, "SQ", "en", "SQ">> \o ExtendedText(p)
  BY DEF Wire
<1>2. WellFormed(p)
  BY Zenon DEF WellWritten
<1>3. p.charset \in STRING \ (Delimiters \union NotUtf8 \union {"SQ"})
  BY <1>2, Zenon DEF WellFormed
<1>4. PICK t \in Seq(Bytes) : t = p.text
  BY WrittenTypes
<1>5. PICK c \in Bytes : c = p.charset /\ c \notin Delimiters /\ c \notin NotUtf8 /\ c # "SQ"
  BY <1>3, BytesAre
<1>6. PICK e \in Seq(Bytes) : e = ExtendedText(p) /\ Free(e, Delimiters \union NotUtf8)
  <2>1. CASE p.form = "extended"
    <3>1. Encodes({"%"} \union Delimiters \union NotUtf8, t)
      BY <1>2, <1>4, <2>1, Zenon DEF WellFormed
    <3>2. Encodes(Delimiters \union NotUtf8, t)
      BY <3>1 DEF Encodes
    <3>3. "%" \notin Delimiters \union NotUtf8
      BY DelimitersAre, SemiIsApart, AsciiAssumption
    <3>4. ExtendedText(p) = PercentEncode(t)
      BY <1>4, <2>1 DEF ExtendedText
    <3> QED BY <3>2, <3>3, <3>4, EncodeAvoids
  <2>2. CASE p.form = "bare"
    <3>1. \A i \in DOMAIN t : t[i] \notin Delimiters
      BY <1>2, <1>4, <2>2, Zenon DEF WellFormed
    <3>2. Utf8(t)
      BY <1>4, <2>2, Zenon DEF WellWritten
    <3>3. ExtendedText(p) = t
      BY <1>4, <2>2 DEF ExtendedText
    <3> QED BY <3>1, <3>2, <3>3 DEF Free, Utf8
  <2> QED BY <2>1, <2>2
<1>7. p.form = "extended" => DecodePercent(e) = {t}
  <2>1. SUFFICES ASSUME p.form = "extended" PROVE DecodePercent(e) = {t}
    OBVIOUS
  <2>2. Encodes({"%"} \union Delimiters \union NotUtf8, t)
    BY <1>2, <1>4, <2>1, Zenon DEF WellFormed
  <2>3. Encodes({"%"}, t)
    BY <2>2 DEF Encodes
  <2>4. e = PercentEncode(t)
    BY <1>4, <1>6, <2>1 DEF ExtendedText
  <2> QED BY <2>3, <2>4, EncodeReversed
<1>8. p.form = "bare" => DecodePercent(e) = IF Free(t, {"%"}) THEN {t} ELSE {}
  <2>1. SUFFICES ASSUME p.form = "bare" PROVE DecodePercent(e) = IF Free(t, {"%"}) THEN {t} ELSE {}
    OBVIOUS
  <2>2. NotEncoded(t)
    BY <1>2, <1>4, <2>1, Zenon DEF WellFormed
  <2>3. e = t
    BY <1>4, <1>6, <2>1 DEF ExtendedText
  <2> QED BY <2>2, <2>3, NothingToDecode, NotEncodedFails
<1>9. PICK w : w = <<c, "SQ", "en", "SQ">> \o e
  OBVIOUS
<1>10. Wire(p) = w
  BY <1>1, <1>5, <1>6, <1>9
<1>11. /\ PlainWire(w)
       /\ DecodeExtended(w) =
            IF <<c>> \in DOMAIN Undecodable
            THEN { d \in DecodePercent(e) : \A i \in DOMAIN d : d[i] \notin Undecodable[<<c>>] }
            ELSE {}
  <2>1. HasParts(<<c, "SQ", "en", "SQ">> \o e, c, e)
    BY <1>5, <1>6, ExtendedParts
  <2>2. HasParts(w, c, e)
    BY <2>1, <1>9, Zenon
  <2> QED BY <2>2, <1>5, <1>6, ExtendedFound
<1>12. Decodable(p) <=> /\ <<c>> \in DOMAIN Undecodable
                        /\ \A i \in DOMAIN t : t[i] \notin Undecodable[<<c>>]
                        /\ p.form = "bare" => Free(t, {"%"})
  <2>1. Free(t, {"%"}) <=> \A i \in DOMAIN t : t[i] # "%"
    BY DEF Free
  <2> QED BY <2>1, <1>4, <1>5, Zenon DEF Decodable
<1>13. DecodePercent(e) = IF p.form = "bare" => Free(t, {"%"}) THEN {t} ELSE {}
  BY <1>7, <1>8
<1>14. DecodeExtended(w) = IF Decodable(p) THEN {t} ELSE {}
  <2>1. CASE Decodable(p)
    <3>1. { d \in {t} : \A i \in DOMAIN d : d[i] \notin Undecodable[<<c>>] } = {t}
      BY <2>1, <1>12, Zenon
    <3> QED BY <2>1, <3>1, <1>11, <1>12, <1>13, Zenon
  <2>2. CASE ~Decodable(p)
    <3>1. ASSUME <<c>> \in DOMAIN Undecodable
          PROVE  { d \in DecodePercent(e) : \A i \in DOMAIN d : d[i] \notin Undecodable[<<c>>] } = {}
      BY <2>2, <3>1, <1>12, <1>13, Zenon
    <3> QED BY <2>2, <3>1, <1>11, Zenon
  <2> QED BY <2>1, <2>2
<1> QED BY <1>4, <1>10, <1>11, <1>14

-----------------------------------------------------------------------------
(* A parameter as it is written and as it is found *)

LEMMA WireType ==
  ASSUME NEW p, WellWritten(p)
  PROVE  Wire(p) \in Seq(Bytes)
<1>1. p.form \in {"token", "quoted", "percent", "extended", "bare"}
  BY Zenon DEF WellWritten
<1>2. CASE p.form = "token"
  BY <1>2, TokenWritten DEF PlainWire
<1>3. CASE p.form = "quoted"
  BY <1>3, QuotedWritten, QuoteIs
<1>4. CASE p.form = "percent"
  BY <1>4, PercentWritten, QuoteIs
<1>5. CASE p.form \in {"extended", "bare"}
  BY <1>5, ExtendedWritten DEF PlainWire
<1> QED BY <1>1, <1>2, <1>3, <1>4, <1>5

BodyOf(p) == Headed(p.written, p.pad, Wire(p) \o p.pad)

Surrounds(p, b) ==
  /\ Spaced(p, b) \in Seq(Bytes) /\ Spaced(p, b) = p.pad \o (b \o p.pad)
  /\ \A x \in Seq(Bytes) : Spaced(p, b) \o x = p.pad \o (b \o (p.pad \o x))

LEMMA SpacedIs ==
  ASSUME NEW p, p.pad \in Seq(Bytes), NEW b \in Seq(Bytes)
  PROVE  Surrounds(p, b)
<1>1. PICK w \in Seq(Bytes) : w = p.pad
  OBVIOUS
<1>2. PICK a \in Seq(Bytes) : a = w \o b /\ a \o w = w \o (b \o w)
  <2>1. Associates(w, b, w)
    BY AnyAssociate
  <2> QED BY <2>1, Zenon DEF Associates
<1>3. PICK c \in Seq(Bytes) : c = a \o w
  BY ConcatProperties
<1>4. Spaced(p, b) = c
  BY <1>1, <1>2, <1>3, Zenon DEF Spaced
<1>5. ASSUME NEW x \in Seq(Bytes) PROVE c \o x = w \o (b \o (w \o x))
  <2>1. PICK y \in Seq(Bytes) : y = w \o x
    BY ConcatProperties
  <2>2. Associates(a, w, x) /\ Associates(w, b, y)
    BY AnyAssociate
  <2>3. c \o x = a \o y
    BY <2>1, <2>2, <1>3, Zenon DEF Associates
  <2>4. a \o y = w \o (b \o y)
    BY <2>2, <1>2, Zenon DEF Associates
  <2> QED BY <2>1, <2>3, <2>4, Zenon
<1> QED BY <1>1, <1>2, <1>3, <1>4, <1>5, Zenon DEF Surrounds

LEMMA BodyType ==
  ASSUME NEW p, WellWritten(p)
  PROVE  BodyOf(p) \in Seq(Bytes) /\ BodyOf(p) # << >>
<1>1. Wire(p) \in Seq(Bytes) /\ p.pad \in Seq(Bytes) /\ AllSpace(p.pad) /\ p.written \in Bytes
  BY WireType, WrittenTypes DEF AllSpace
<1>2. Wire(p) \o p.pad \in Seq(Bytes)
  BY <1>1, ConcatProperties
<1> QED BY <1>1, <1>2, HeadedType DEF BodyOf

\* A written parameter is a semicolon, white space, the word, the equals sign, the value.
LEMMA ParameterShape ==
  ASSUME NEW p, WellWritten(p)
  PROVE  ParameterOf(p) = <<Semi>> \o BodyOf(p)
<1>1. Wire(p) \in Seq(Bytes) /\ p.pad \in Seq(Bytes) /\ AllSpace(p.pad) /\ p.written \in Bytes
  BY WireType, WrittenTypes DEF AllSpace
<1>2. <<Semi>> \in Seq(Bytes) /\ <<"=">> \in Seq(Bytes) /\ <<p.written>> \in Seq(Bytes)
  BY <1>1, BytesAre, OneByte
<1>3. PICK o, e, k, y \in Seq(Bytes) :
        o = <<Semi>> /\ e = <<"=">> /\ k = <<p.written>> /\ y = Wire(p)
  BY <1>1, <1>2
<1>4. PICK s1 \in Seq(Bytes) : s1 = Spaced(p, k) /\ \A x \in Seq(Bytes) : s1 \o x = p.pad \o (k \o (p.pad \o x))
  <2>1. Surrounds(p, k)
    BY <1>1, SpacedIs
  <2> QED BY <2>1, Zenon DEF Surrounds
<1>5. PICK s2 \in Seq(Bytes) : s2 = Spaced(p, y) /\ s2 = p.pad \o (y \o p.pad)
  <2>1. Surrounds(p, y)
    BY <1>1, SpacedIs
  <2> QED BY <2>1, Zenon DEF Surrounds
<1>6. PICK x \in Seq(Bytes) : x = e \o s2
  BY ConcatProperties
<1>7. PICK u \in Seq(Bytes) : u = o \o s1 /\ u \o x = o \o (s1 \o x)
  <2>1. Associates(o, s1, x)
    BY AnyAssociate
  <2> QED BY <2>1, Zenon DEF Associates
<1>8. (u \o e) \o s2 = u \o x
  <2>1. Associates(u, e, s2)
    BY AnyAssociate
  <2> QED BY <2>1, <1>6, Zenon DEF Associates
<1>9. ParameterOf(p) = (u \o e) \o s2
  BY <1>3, <1>4, <1>5, <1>7, Zenon DEF ParameterOf, Semi
<1>10. s1 \o x = BodyOf(p)
  BY <1>3, <1>4, <1>5, <1>6, Zenon DEF BodyOf, Headed
<1> QED BY <1>3, <1>7, <1>8, <1>9, <1>10, Zenon

LEMMA PlainBodyEnds ==
  ASSUME NEW p, WellWritten(p), PlainWire(Wire(p)), NEW tail \in Seq(Bytes), Behind(tail)
  PROVE  EndsBefore(BodyOf(p), tail)
<1>1. /\ p.pad \in Seq(Bytes) /\ AllSpace(p.pad) /\ p.written \in Bytes
      /\ p.written \notin {Semi, "=", "SP", "DQ"}
  BY WrittenTypes DEF AllSpace
<1>2. PICK bytes : bytes = {Semi, "DQ"}
  OBVIOUS
<1>3. Free(p.pad, bytes)
  BY <1>1, <1>2, SemiIsApart DEF AllSpace, Free
<1>4. Wire(p) \in Seq(Bytes) /\ Free(Wire(p), bytes)
  BY <1>2 DEF PlainWire
<1>5. PICK y \in Seq(Bytes) : y = Wire(p) \o p.pad /\ Free(y, bytes)
  BY <1>1, <1>3, <1>4, FreeJoined
<1>6. p.written \notin bytes /\ "SP" \notin bytes /\ "=" \notin bytes
  BY <1>1, <1>2, SemiIsApart
<1>7. Free(Headed(p.written, p.pad, y), bytes)
  BY <1>1, <1>5, <1>6, HeadedType
<1>8. Free(BodyOf(p), {Semi, "DQ"}) /\ BodyOf(p) \in Seq(Bytes)
  BY <1>2, <1>5, <1>7, BodyType DEF BodyOf
<1> QED BY <1>8, PlainEnds

LEMMA StringBodyEnds ==
  ASSUME NEW p, WellWritten(p), NEW e \in Seq(Bytes), Closed(e), Wire(p) = Quote(e),
         NEW tail \in Seq(Bytes), Behind(tail)
  PROVE  EndsBefore(BodyOf(p), tail)
<1>1. /\ p.pad \in Seq(Bytes) /\ AllSpace(p.pad) /\ p.written \in Bytes
      /\ p.written \notin {Semi, "=", "SP", "DQ"}
  BY WrittenTypes DEF AllSpace
<1>2. PICK v \in Seq(Bytes) : v = p.pad
  BY <1>1
<1>3. Free(v, {Semi, "DQ"})
  BY <1>1, <1>2, SemiIsApart DEF AllSpace, Free
<1>4. Wire(p) \o v = <<"DQ">> \o (e \o (<<"DQ">> \o v))
  BY QuoteIs
<1>5. << >> \in Seq(Bytes) /\ Free(<< >>, {Semi, "DQ"})
  BY DEF Free
<1>6. PICK u \in Seq(Bytes) : u = Headed(p.written, p.pad, << >>) /\ Free(u, {Semi, "DQ"})
  <2>1. p.written \notin {Semi, "DQ"} /\ "SP" \notin {Semi, "DQ"} /\ "=" \notin {Semi, "DQ"}
    BY <1>1, SemiIsApart
  <2> QED BY <2>1, <1>1, <1>5, HeadedType
<1>7. PICK y \in Seq(Bytes) : y = Wire(p) \o v
  BY WireType, ConcatProperties
<1>8. u \o y = Headed(p.written, p.pad, y)
  BY <1>1, <1>6, <1>7, HeadedJoined
<1>9. BodyOf(p) = InQuotes(u, e, v)
  BY <1>2, <1>4, <1>7, <1>8, Zenon DEF BodyOf, InQuotes
<1>10. BodyOf(p) \in Seq(Bytes)
  BY BodyType
<1> QED BY <1>3, <1>6, <1>9, <1>10, QuotedEnds

\* A written parameter ends where the next begins, in each of the forms.
LEMMA BodyEnds ==
  ASSUME NEW p, WellWritten(p), NEW tail \in Seq(Bytes), Behind(tail)
  PROVE  EndsBefore(BodyOf(p), tail)
<1>1. p.form \in {"token", "quoted", "percent", "extended", "bare"}
  BY Zenon DEF WellWritten
<1>2. CASE p.form = "token"
  BY <1>2, TokenWritten, PlainBodyEnds
<1>3. CASE p.form = "quoted"
  BY <1>3, QuotedWritten, StringBodyEnds
<1>4. CASE p.form = "percent"
  BY <1>4, PercentWritten, StringBodyEnds
<1>5. CASE p.form \in {"extended", "bare"}
  BY <1>5, ExtendedWritten, PlainBodyEnds
<1> QED BY <1>1, <1>2, <1>3, <1>4, <1>5

\* The key and the value that the parameter is split into.
LEMMA BodySplit ==
  ASSUME NEW p, WellWritten(p)
  PROVE  /\ KeyOf(TrimStart(BodyOf(p))) = <<p.written>>
         /\ RestOf(TrimStart(BodyOf(p))) = {Padding(p.pad, Wire(p))}
<1>1. /\ p.pad \in Seq(Bytes) /\ AllSpace(p.pad) /\ p.written \in Bytes
      /\ p.written # "SP" /\ p.written # "="
  BY WrittenTypes DEF AllSpace
<1>2. PICK y \in Seq(Bytes) : y = Wire(p) \o p.pad
  BY <1>1, WireType, ConcatProperties
<1>3. PICK r \in Seq(Bytes) : r = p.pad \o y
  BY <1>1, ConcatProperties
<1>4. TrimStart(Headed(p.written, p.pad, y)) = <<p.written>> \o (p.pad \o (<<"=">> \o (p.pad \o y)))
  BY <1>1, HeadedTrimmed
<1>5. PICK t : t = TrimStart(BodyOf(p))
  OBVIOUS
<1>6. t = <<p.written>> \o (p.pad \o (<<"=">> \o r))
  BY <1>2, <1>3, <1>4, <1>5, Zenon DEF BodyOf
<1>7. KeyOf(t) = <<p.written>> /\ RestOf(t) = {r}
  <2>1. Keyed(p.written, p.pad, r)
    BY <1>1, KeyAndRest
  <2> QED BY <2>1, <1>6, Zenon DEF Keyed
<1>8. r = Padding(p.pad, Wire(p))
  BY <1>2, <1>3, Zenon DEF Padding
<1> QED BY <1>5, <1>7, <1>8, Zenon

-----------------------------------------------------------------------------
(* What the value is read as *)

\* A token is read as its text.
LEMMA TokenRead ==
  ASSUME NEW p, WellWritten(p), p.form = "token", sought # "filename*",
         attr = "FileName" => p.key = "filename", NEW rest, rest = Padding(p.pad, Wire(p))
  PROVE  Decoded(rest) = {p.text}
<1>1. Wire(p) = p.text /\ PlainWire(p.text) /\ AllSpace(p.pad)
  BY TokenWritten, WrittenTypes
<1>2. QuotedValue(rest) = {} /\ UnquotedValue(rest) = p.text
  BY <1>1, PlainRest
<1>3. PICK t \in Seq(Bytes) : t = p.text /\ Free(t, {"DQ"})
  BY <1>1 DEF PlainWire, Free
<1>4. Utf8(t) /\ (attr = "FileName" => NotEncoded(Escape(t)))
  BY <1>3, Zenon DEF WellWritten
<1>5. attr = "FileName" => DecodePercent(t) = {t} \/ DecodePercent(t) = {}
  <2>1. Escape(t) = t
    BY <1>3, NoQuoteNoEscape
  <2> QED BY <2>1, <1>4, NotEncodedStays
<1>6. PICK v : v = [ bytes |-> t, escaped |-> FALSE ]
  OBVIOUS
<1>7. v.bytes = t /\ ~v.escaped
  BY <1>6
<1>8. DecodeValue(v, attr = "FileName") = { IF v.escaped THEN Unescape(t) ELSE t }
  <2>1. (attr = "FileName") \in BOOLEAN
    OBVIOUS
  <2> QED BY <2>1, <1>4, <1>5, <1>7, ValueDecodes
<1>9. DecodeValue(v, attr = "FileName") = {t}
  BY <1>7, <1>8, Zenon
<1> QED BY <1>2, <1>3, <1>6, <1>9, Zenon DEF Decoded

LEMMA StringDecoded ==
  ASSUME NEW rest, NEW v, QuotedValue(rest) = {v}, sought # "filename*"
  PROVE  Decoded(rest) = DecodeValue(v, attr = "FileName")
<1>1. QuotedValue(rest) # {}
  OBVIOUS
<1>2. UNION { DecodeValue(x, attr = "FileName") : x \in {v} } = DecodeValue(v, attr = "FileName")
  BY Zenon
<1> QED BY <1>1, <1>2, Zenon DEF Decoded

\* A quoted value is read as its text.
LEMMA QuotedRead ==
  ASSUME NEW p, WellWritten(p), p.form = "quoted", sought # "filename*",
         attr = "FileName" => p.key = "filename", NEW rest, rest = Padding(p.pad, Wire(p))
  PROVE  Decoded(rest) = {p.text}
<1>1. PICK e \in Seq(Bytes) : e = Escape(p.text) /\ Closed(e) /\ Wire(p) = Quote(e)
  BY QuotedWritten
<1>2. PICK v : /\ QuotedValue(rest) = {v} /\ v.bytes = e
               /\ v.escaped <=> \E i \in 1..Len(e) : e[i] = "DQ"
  BY <1>1, WrittenTypes, StringRest
<1>3. PICK t \in Seq(Bytes) : t = p.text
  BY WrittenTypes
<1>4. Utf8(t) /\ (attr = "FileName" => NotEncoded(e))
  BY <1>1, <1>3, Zenon DEF WellWritten
<1>5. Utf8(e)
  BY <1>1, <1>3, <1>4, EscapeUtf8
<1>6. attr = "FileName" => DecodePercent(e) = {e} \/ DecodePercent(e) = {}
  BY <1>4, NotEncodedStays
<1>7. DecodeValue(v, attr = "FileName") = { IF v.escaped THEN Unescape(e) ELSE e }
  <2>1. (attr = "FileName") \in BOOLEAN
    OBVIOUS
  <2> QED BY <2>1, <1>2, <1>5, <1>6, ValueDecodes
<1>8. Unescape(e) = t
  BY <1>1, <1>3, EscapeReversed
<1>9. ~v.escaped => e = t
  <2>1. SUFFICES ASSUME ~v.escaped PROVE e = t
    OBVIOUS
  <2>2. Free(e, {"DQ"})
    BY <2>1, <1>2 DEF Free
  <2> QED BY <2>2, <1>8, NoQuoteNoEscape
<1>10. (IF v.escaped THEN Unescape(e) ELSE e) = t
  BY <1>8, <1>9, Zenon
<1>11. Decoded(rest) = DecodeValue(v, attr = "FileName")
  BY <1>2, StringDecoded
<1> QED BY <1>3, <1>7, <1>10, <1>11, Zenon

\* A percent-encoded value is read as its text.
LEMMA PercentRead ==
  ASSUME NEW p, WellWritten(p), p.form = "percent", sought # "filename*", attr = "FileName",
         NEW rest, rest = Padding(p.pad, Wire(p))
  PROVE  Decoded(rest) = {p.text}
<1>1. PICK e \in Seq(Bytes) : /\ e = PercentEncode(p.text) /\ Closed(e) /\ Wire(p) = Quote(e)
                              /\ Free(e, {"DQ"}) /\ DecodePercent(e) = {p.text}
  BY PercentWritten
<1>2. PICK v : /\ QuotedValue(rest) = {v} /\ v.bytes = e
               /\ v.escaped <=> \E i \in 1..Len(e) : e[i] = "DQ"
  BY <1>1, WrittenTypes, StringRest
<1>3. ~v.escaped
  BY <1>1, <1>2 DEF Free
<1>4. Utf8(p.text)
  BY Zenon DEF WellWritten
<1>5. DecodeValue(v, TRUE) = { IF v.escaped THEN Unescape(p.text) ELSE p.text }
  BY <1>1, <1>2, <1>4, ValueDecodes
<1>6. (attr = "FileName") = TRUE
  OBVIOUS
<1>7. Decoded(rest) = DecodeValue(v, attr = "FileName")
  BY <1>2, StringDecoded
<1> QED BY <1>3, <1>5, <1>6, <1>7, Zenon

\* An extended value is read as its text, or not at all if its charset lacks it.
LEMMA ExtendedRead ==
  ASSUME NEW p, WellWritten(p), p.form \in {"extended", "bare"}, sought = "filename*",
         NEW rest, rest = Padding(p.pad, Wire(p))
  PROVE  Decoded(rest) = IF Decodable(p) THEN {p.text} ELSE {}
<1>1. PlainWire(Wire(p)) /\ DecodeExtended(Wire(p)) = IF Decodable(p) THEN {p.text} ELSE {}
  BY ExtendedWritten
<1>2. UnquotedValue(rest) = Wire(p)
  BY <1>1, WrittenTypes, PlainRest
<1> QED BY <1>1, <1>2, Zenon DEF Decoded

-----------------------------------------------------------------------------
(* The parameters of a header, one behind the other *)

Chain(h, params, n) ==
  /\ h[n + 1] = << >>
  /\ \A i \in 1..n : /\ h[i + 1] \in Seq(Bytes) /\ WellWritten(params[i])
                     /\ h[i] = <<Semi>> \o (BodyOf(params[i]) \o h[i + 1])

\* What the parser has still to read when i - 1 parameters are passed.
Left(h, i) == IF h[i] = << >> THEN << >> ELSE Tail(h[i])

\* A header can be taken apart into its parameters.
LEMMA ChainExists ==
  ASSUME NEW params, NEW n \in Nat, DOMAIN params = 1..n, \A i \in 1..n : WellWritten(params[i])
  PROVE  \E h : /\ Chain(h, params, n) /\ h[1] \in Seq(Bytes)
                /\ h[1] = FlattenSeq([ i \in DOMAIN params |-> ParameterOf(params[i]) ])
<1>1. PICK q : q = [ i \in 1..n |-> ParameterOf(params[i]) ]
  OBVIOUS
<1>2. ASSUME NEW i \in 1..n
      PROVE  q[i] \in Seq(Bytes) /\ q[i] = <<Semi>> \o BodyOf(params[i]) /\ BodyOf(params[i]) \in Seq(Bytes)
  <2>1. q[i] = <<Semi>> \o BodyOf(params[i])
    BY <1>1, ParameterShape
  <2>2. BodyOf(params[i]) \in Seq(Bytes)
    BY BodyType
  <2>3. <<Semi>> \o BodyOf(params[i]) \in Seq(Bytes)
    BY <2>2, BytesAre, Prepended
  <2> QED BY <2>1, <2>2, <2>3
<1>3. q \in Seq(Seq(Bytes)) /\ Len(q) = n
  <2>1. \A i \in 1..n : q[i] \in Seq(Bytes)
    BY <1>2
  <2>2. q \in [1..n -> Seq(Bytes)]
    BY <1>1, <2>1
  <2> QED BY <2>2, SeqDef
<1>4. PICK g, h : Splits(g, h, q, n, FlattenSeq(q))
  BY <1>3, FlattenSplits
<1>5. ASSUME NEW i \in 1..n
      PROVE  /\ h[i + 1] \in Seq(Bytes)
             /\ h[i] = <<Semi>> \o (BodyOf(params[i]) \o h[i + 1])
  <2>1. h[i + 1] \in Seq(Bytes)
    <3>1. i \in 0..n
      OBVIOUS
    <3> QED BY <3>1, <1>4 DEF Splits
  <2>2. PICK b, c \in Seq(Bytes) : b = BodyOf(params[i]) /\ c = h[i + 1]
    BY <1>2, <2>1
  <2>3. PICK o \in Seq(Bytes) : o = <<Semi>>
    BY BytesAre, OneByte
  <2>4. h[i] = (o \o b) \o c
    <3>1. h[i] = q[i] \o h[i + 1]
      BY <1>4 DEF Splits
    <3> QED BY <3>1, <1>2, <2>2, <2>3
  <2>5. Associates(o, b, c)
    BY AnyAssociate
  <2>6. h[i] = o \o (b \o c)
    BY <2>4, <2>5, Zenon DEF Associates
  <2> QED BY <2>1, <2>2, <2>3, <2>6
<1>6. Chain(h, params, n)
  <2>1. h[n + 1] = << >>
    BY <1>4 DEF Splits
  <2> QED BY <2>1, <1>5, Zenon DEF Chain
<1>7. h[1] \in Seq(Bytes) /\ h[1] = FlattenSeq(q)
  <2>1. 0 \in 0..n /\ 0 + 1 = 1
    OBVIOUS
  <2>2. g[0] = << >> /\ h[1] \in Seq(Bytes) /\ FlattenSeq(q) = g[0] \o h[1]
    BY <1>4, <2>1 DEF Splits
  <2>3. PICK c \in Seq(Bytes) : c = h[1]
    BY <2>2
  <2>4. << >> \o c = c
    OBVIOUS
  <2> QED BY <2>2, <2>3, <2>4
<1>8. FlattenSeq(q) = FlattenSeq([ i \in DOMAIN params |-> ParameterOf(params[i]) ])
  BY <1>1, Zenon
<1> QED BY <1>6, <1>7, <1>8

LEMMA AfterTypeIs ==
  ASSUME NEW x
  PROVE  AfterType(x) = From(x, FirstAt(x, {Semi}) + 1)
  BY Zenon DEF AfterType, Semi

\* Behind the type of the header its first parameter begins.
LEMMA BehindTheType ==
  ASSUME NEW f \in Seq(Bytes), f = << >> \/ f[1] = Semi
  PROVE  AfterType(<<"form-data">> \o f) = IF f = << >> THEN << >> ELSE Tail(f)
<1>1. PICK o \in Seq(Bytes) : o = <<"form-data">> /\ Len(o) = 1 /\ o[1] = "form-data"
  <2>1. PICK x \in Bytes : x = "form-data"
    BY BytesAre
  <2>2. <<x>> \in Seq(Bytes) /\ Len(<<x>>) = 1 /\ <<x>>[1] = x
    <3>1. <<x>> \in Seq(Bytes)
      BY OneByte
    <3>2. Len(<<x>>) = 1 /\ <<x>>[1] = x
      OBVIOUS
    <3> QED BY <3>1, <3>2
  <2> QED BY <2>1, <2>2
<1>2. FirstAt(o \o f, {Semi}) = Len(o) + 1
  <2>1. \A i \in 1..Len(o) : o[i] \notin {Semi}
    BY <1>1, SemiIsApart
  <2>2. f = << >> \/ f[1] \in {Semi}
    OBVIOUS
  <2> QED BY <2>1, <2>2, FirstBehind
<1>3. Len(o) + 1 + 1 = Len(o) + 2
  BY <1>1
<1>4. AfterType(o \o f) = From(o \o f, Len(o) + 2)
  BY <1>2, <1>3, AfterTypeIs, Zenon
<1>5. CASE f # << >>
  <2>1. From(o \o f, Len(o) + 2) = Tail(f)
    BY <1>5, SlicesOfJoined
  <2> QED BY <2>1, <1>1, <1>4, <1>5, Zenon
<1>6. CASE f = << >>
  <2>1. o \o << >> = o
    OBVIOUS
  <2>2. From(o, Len(o) + 2) = << >>
    BY <1>1 DEF From
  <2> QED BY <2>1, <2>2, <1>1, <1>4, <1>6, Zenon
<1> QED BY <1>5, <1>6

\* The text behind one parameter is the text of the next.
LEMMA ChainStep ==
  ASSUME NEW h, NEW params, NEW n \in Nat, Chain(h, params, n), NEW i \in 1..n
  PROVE  /\ Behind(h[i + 1]) /\ h[i] # << >> /\ Tail(h[i]) = BodyOf(params[i]) \o h[i + 1]
         /\ h[i] \in Seq(Bytes) /\ h[i][1] = Semi
<1>1. /\ h[i + 1] \in Seq(Bytes) /\ WellWritten(params[i])
      /\ h[i] = <<Semi>> \o (BodyOf(params[i]) \o h[i + 1])
  BY Zenon DEF Chain
<1>2. PICK b, c \in Seq(Bytes) : b = BodyOf(params[i]) /\ c = h[i + 1]
  BY <1>1, BodyType
<1>3. PICK d \in Seq(Bytes) : d = b \o c
  BY ConcatProperties
<1>4. PICK e \in Seq(Bytes) : e = <<Semi>> \o d /\ e # << >> /\ e[1] = Semi /\ Tail(e) = d
  BY BytesAre, Prepended
<1>5. h[i] = e
  BY <1>1, <1>2, <1>3, <1>4, Zenon
<1>6. Behind(h[i + 1])
  <2>1. CASE i = n
    BY <2>1, Zenon DEF Chain, Behind
  <2>2. CASE i # n
    <3>1. PICK j \in 1..n : j = i + 1
      BY <2>2
    <3>2. /\ h[j + 1] \in Seq(Bytes) /\ WellWritten(params[j])
          /\ h[j] = <<Semi>> \o (BodyOf(params[j]) \o h[j + 1])
      BY Zenon DEF Chain
    <3>3. PICK x \in Seq(Bytes) : x = BodyOf(params[j]) \o h[j + 1]
      BY <3>2, BodyType, ConcatProperties
    <3>4. PICK y \in Seq(Bytes) : y = <<Semi>> \o x /\ y[1] = Semi
      <4>1. Semi \in Bytes
        BY BytesAre
      <4>2. PICK y \in Seq(Bytes) :
              /\ y = <<Semi>> \o x /\ Len(y) = Len(x) + 1
              /\ y # << >> /\ y[1] = Semi /\ Tail(y) = x
              /\ \A k \in 1..Len(x) : y[k + 1] = x[k]
        BY <4>1, Prepended
      <4> QED BY <4>2, Zenon
    <3>5. h[j] = y
      BY <3>2, <3>3, <3>4, Zenon
    <3> QED BY <3>1, <3>4, <3>5 DEF Behind
  <2> QED BY <2>1, <2>2
<1> QED BY <1>2, <1>3, <1>4, <1>5, <1>6, Zenon

-----------------------------------------------------------------------------
(* The header of a part that a client has written *)

Chained(h) ==
  /\ Len(Governing) \in Nat /\ DOMAIN Governing = 1..Len(Governing)
  /\ Chain(h, Governing, Len(Governing)) /\ Parameters = Left(h, 1)

\* A header that a client has written is a chain of well-written parameters.
LEMMA Grammar ==
  ASSUME lines \in PartHeaders, Written
  PROVE  \E h : Chained(h)
<1>1. PICK at : at = { i \in DOMAIN lines : lines[i].name = "content-disposition" }
  OBVIOUS
<1>2. PICK l \in Nat : DOMAIN lines = 1..l
  <2>1. lines \in Seq(Range(lines))
    BY HeadersAssumption
  <2> QED BY <2>1
<1>3. CASE at = {}
  <2>1. Governing = << >>
    BY <1>1, <1>3, Zenon DEF Governing
  <2>2. HeaderMap("content-disposition") = {}
    BY <1>1, <1>3, Zenon DEF HeaderMap
  <2>3. Header = {}
    BY <2>2, Zenon DEF Header
  <2>4. Parameters = << >>
    BY <2>3, Zenon DEF Parameters
  <2>5. PICK h : h = [ i \in {1} |-> << >> ]
    OBVIOUS
  <2>6. h[1] = << >>
    BY <2>5
  <2>7. Len(<< >>) = 0 /\ DOMAIN << >> = 1..0 /\ 0 \in Nat /\ 0 + 1 = 1 /\ 1..0 = {}
    OBVIOUS
  <2>8. Chain(h, << >>, 0)
    BY <2>6, <2>7 DEF Chain
  <2>9. Chained(h)
    BY <2>1, <2>4, <2>6, <2>7, <2>8, Zenon DEF Chained, Left
  <2> QED BY <2>9
<1>4. CASE at # {}
  <2>1. PICK m : m = Max(at) /\ m \in at
    <3>1. at \in SUBSET (0..l)
      BY <1>1, <1>2
    <3> QED BY <3>1, <1>4, MaxIsGreatest
  <2>2. m \in DOMAIN lines /\ lines[m].name = "content-disposition"
    BY <1>1, <2>1
  <2>3. PICK params : params = lines[m].params
    OBVIOUS
  <2>4. Governing = params
    BY <1>1, <1>4, <2>1, <2>3, Zenon DEF Governing
  <2>5. /\ params \in Seq(Range(params)) /\ \A k \in DOMAIN params : WellWritten(params[k])
        /\ lines[m].value = Disposition(params).value
    <3>1. \A i \in DOMAIN lines : "params" \in DOMAIN lines[i]
      BY Zenon DEF Written
    <3> QED BY <3>1, <2>2, <2>3, ClientsAssumption, Zenon
  <2>6. PICK n \in Nat : n = Len(params) /\ DOMAIN params = 1..n
    BY <2>5
  <2>7. PICK f : f = FlattenSeq([ i \in DOMAIN params |-> ParameterOf(params[i]) ])
    OBVIOUS
  <2>8. PICK h : Chain(h, params, n) /\ h[1] \in Seq(Bytes) /\ h[1] = f
    BY <2>5, <2>6, <2>7, ChainExists
  <2>9. lines[m].value = <<"form-data">> \o f
    <3>1. Disposition(params).value = <<"form-data">> \o FlattenSeq([ i \in DOMAIN params |-> ParameterOf(params[i]) ])
      BY DEF Disposition
    <3> QED BY <3>1, <2>5, <2>7, Zenon
  <2>10. f = << >> \/ f[1] = Semi
    <3>1. CASE n = 0
      <4>1. h[1] = << >>
        BY <3>1, <2>8 DEF Chain
      <4> QED BY <4>1, <2>8
    <3>2. CASE n # 0
      <4>1. 1 \in 1..n
        BY <3>2
      <4>2. h[1][1] = Semi
        BY <4>1, <2>8, ChainStep
      <4> QED BY <4>2, <2>8
    <3> QED BY <3>1, <3>2
  <2>11. AfterType(lines[m].value) = Left(h, 1)
    <3>1. AfterType(<<"form-data">> \o f) = IF f = << >> THEN << >> ELSE Tail(f)
      BY <2>8, <2>10, BehindTheType
    <3> QED BY <3>1, <2>8, <2>9, Zenon DEF Left
  <2>12. HeaderMap("content-disposition") = {lines[m].value}
    BY <1>1, <1>4, <2>1, Zenon DEF HeaderMap
  <2>13. Header = {AfterType(lines[m].value)}
    BY <2>12, Zenon DEF Header
  <2>14. Parameters = AfterType(lines[m].value)
    <3>1. (CHOOSE x \in {AfterType(lines[m].value)} : TRUE) = AfterType(lines[m].value)
      BY Zenon
    <3>2. {AfterType(lines[m].value)} # {}
      BY Zenon
    <3> QED BY <3>1, <3>2, <2>13, Zenon DEF Parameters
  <2>15. Chained(h)
    BY <2>4, <2>6, <2>8, <2>11, <2>14, Zenon DEF Chained
  <2> QED BY <2>15
<1> QED BY <1>3, <1>4

-----------------------------------------------------------------------------
(* One step of the search *)

\* A parameter of the chain, as the search sees it.
LEMMA AtParameter ==
  ASSUME NEW h, Chained(h), NEW i \in 1..Len(Governing), remaining = Left(h, i), sought \in Keys,
         NEW p, p = Governing[i]
  PROVE  /\ WellWritten(p) /\ remaining # << >>
         /\ RestOf(Parameter) = {Padding(p.pad, Wire(p))}
         /\ IsSought <=> p.key = sought
         /\ From(remaining, ParameterEnd(remaining) + 1) = Left(h, i + 1)
<1>1. PICK n \in Nat : n = Len(Governing) /\ Chain(h, Governing, n)
  BY DEF Chained
<1>2. WellWritten(p) /\ h[i + 1] \in Seq(Bytes)
  BY <1>1, Zenon DEF Chain
<1>3. /\ Behind(h[i + 1]) /\ h[i] # << >> /\ Tail(h[i]) = BodyOf(p) \o h[i + 1]
  BY <1>1, ChainStep
<1>4. PICK b, c \in Seq(Bytes) : b = BodyOf(p) /\ c = h[i + 1] /\ b # << >>
  BY <1>2, BodyType
<1>5. remaining = b \o c
  BY <1>3, <1>4, Zenon DEF Left
<1>6. ParameterEnd(b \o c) = Len(b) + 1
  <2>1. EndsBefore(b, c)
    BY <1>2, <1>3, <1>4, BodyEnds
  <2> QED BY <2>1, Zenon DEF EndsBefore
<1>7. /\ Before(b \o c, Len(b) + 1) = b
      /\ c # << >> => From(b \o c, Len(b) + 2) = Tail(c)
  BY SlicesOfJoined
<1>8. remaining # << >>
  <2>1. Len(b \o c) = Len(b) + Len(c) /\ Len(b) >= 1 /\ Len(c) >= 0
    BY <1>4, ConcatProperties, EmptySeq
  <2>2. Len(<< >>) = 0
    OBVIOUS
  <2>3. Len(b \o c) # 0
    BY <2>1
  <2> QED BY <2>2, <2>3, <1>5, Zenon
<1>9. Parameter = TrimStart(BodyOf(p))
  BY <1>4, <1>5, <1>6, <1>7, Zenon DEF Parameter
<1>10. KeyOf(Parameter) = <<p.written>> /\ RestOf(Parameter) = {Padding(p.pad, Wire(p))}
  BY <1>2, <1>9, BodySplit
<1>11. IsSought <=> p.key = sought
  <2>1. p.written \in Spellings[sought] <=> p.key = sought
    BY <1>2, Zenon DEF WellWritten
  <2>2. SameKey(<<p.written>>, sought) <=> p.written \in Spellings[sought]
    <3>1. \A word : <<p.written>> = <<word>> <=> p.written = word
      OBVIOUS
    <3> QED BY <3>1, Zenon DEF SameKey
  <2>3. RestOf(Parameter) # {}
    BY <1>10, Zenon
  <2> QED BY <2>1, <2>2, <2>3, <1>10, Zenon DEF IsSought
<1>12. From(remaining, ParameterEnd(remaining) + 1) = Left(h, i + 1)
  <2>1. Len(b) + 1 + 1 = Len(b) + 2
    BY <1>4
  <2>2. From(remaining, ParameterEnd(remaining) + 1) = From(b \o c, Len(b) + 2)
    BY <2>1, <1>5, <1>6, Zenon
  <2>3. CASE c # << >>
    BY <2>2, <2>3, <1>4, <1>7, Zenon DEF Left
  <2>4. CASE c = << >>
    <3>1. b \o << >> = b
      OBVIOUS
    <3>2. From(b, Len(b) + 2) = << >>
      <4>1. Len(b) \in Nat
        OBVIOUS
      <4> QED BY <4>1 DEF From
    <3> QED BY <3>1, <3>2, <2>2, <2>4, <1>4, Zenon DEF Left
  <2> QED BY <2>3, <2>4
<1> QED BY <1>2, <1>8, <1>10, <1>11, <1>12

\* The first parameter of a key.
LEMMA FirstHere ==
  ASSUME NEW params, NEW n \in Nat, DOMAIN params = 1..n, NEW key, NEW i \in 1..n,
         params[i].key = key, \A j \in 1..(i - 1) : params[j].key # key
  PROVE  First(params, key) = {params[i]}
<1>1. PICK at : at = { j \in DOMAIN params : params[j].key = key }
  OBVIOUS
<1>2. at \in SUBSET Nat /\ i \in at /\ at # {}
  BY <1>1
<1>3. Min(at) \in at /\ Min(at) <= i
  BY <1>2, MinIsLeast
<1>4. Min(at) = i
  BY <1>1, <1>3
<1> QED BY <1>1, <1>2, <1>4, Zenon DEF First

LEMMA FirstNone ==
  ASSUME NEW params, NEW key, \A j \in DOMAIN params : params[j].key # key
  PROVE  First(params, key) = {}
<1>1. { j \in DOMAIN params : params[j].key = key } = {}
  OBVIOUS
<1> QED BY <1>1, Zenon DEF First

\* What a search for the key is to find.
Sought(key) ==
  IF key = "filename*" THEN TextOf({ p \in First(Governing, "filename*") : Decodable(p) })
  ELSE TextOf(First(Governing, key))

LEMMA TextOfOne == \A p : TextOf({p}) = {p.text}
  BY Zenon DEF TextOf

LEMMA TextOfNone == TextOf({}) = {}
  BY Zenon DEF TextOf

\* The search stands at the i-th parameter, and none before it was the one sought.
Reached(h, i) ==
  /\ Chained(h) /\ i \in 1..(Len(Governing) + 1) /\ remaining = Left(h, i)
  /\ \A j \in 1..(i - 1) : Governing[j].key # sought

\* The value of the parameter that is sought is read as it was meant.
LEMMA ParameterRead ==
  ASSUME NEW h, NEW i, Reached(h, i), sought \in Keys, i <= Len(Governing), IsSought,
         attr = "Name" <=> sought = "name", attr \in Attrs
  PROVE  UNION { Decoded(rest) : rest \in RestOf(Parameter) } = Sought(sought)
<1>1. PICK n \in Nat : n = Len(Governing) /\ DOMAIN Governing = 1..n /\ i \in 1..n
  <2>1. Len(Governing) \in Nat /\ DOMAIN Governing = 1..Len(Governing) /\ i \in 1..(Len(Governing) + 1)
    BY Zenon DEF Reached, Chained
  <2>2. i \in 1..Len(Governing)
    BY <2>1
  <2> QED BY <2>1, <2>2, Zenon
<1>2. PICK p : p = Governing[i]
  OBVIOUS
<1>3. /\ WellWritten(p) /\ RestOf(Parameter) = {Padding(p.pad, Wire(p))}
      /\ p.key = sought
  BY <1>1, <1>2, AtParameter DEF Reached
<1>4. PICK rest : rest = Padding(p.pad, Wire(p))
  OBVIOUS
<1>5. UNION { Decoded(r) : r \in RestOf(Parameter) } = Decoded(rest)
  <2>1. UNION { Decoded(r) : r \in {rest} } = Decoded(rest)
    BY Zenon
  <2> QED BY <2>1, <1>3, <1>4, Zenon
<1>6. First(Governing, sought) = {p}
  <2>1. \A j \in 1..(i - 1) : Governing[j].key # sought
    BY Zenon DEF Reached
  <2>2. PICK params, key : params = Governing /\ key = sought
    OBVIOUS
  <2>3. DOMAIN params = 1..n /\ i \in 1..n /\ params[i].key = key /\ \A j \in 1..(i - 1) : params[j].key # key
    BY <2>1, <2>2, <1>1, <1>2, <1>3
  <2>4. First(params, key) = {params[i]}
    BY <2>3, FirstHere
  <2> QED BY <2>2, <2>4, <1>2, Zenon
<1>7. /\ p.form \in {"token", "quoted", "percent", "extended", "bare"}
      /\ p.key = "filename*" => p.form \in {"extended", "bare"}
      /\ p.form \in {"extended", "bare"} => p.key \notin {"name", "filename"}
      /\ p.form = "percent" => p.key # "name"
  BY <1>3, Zenon DEF WellWritten
<1>8. CASE sought = "filename*"
  <2>1. Decoded(rest) = IF Decodable(p) THEN {p.text} ELSE {}
    BY <1>3, <1>4, <1>7, <1>8, ExtendedRead
  <2>2. CASE Decodable(p)
    <3>1. { x \in {p} : Decodable(x) } = {p}
      BY <2>2, Zenon
    <3>2. Sought(sought) = TextOf({p})
      BY <3>1, <1>6, <1>8, Zenon DEF Sought
    <3> QED BY <3>2, <2>1, <2>2, <1>5, TextOfOne, Zenon
  <2>3. CASE ~Decodable(p)
    <3>1. { x \in {p} : Decodable(x) } = {}
      BY <2>3, Zenon
    <3>2. Sought(sought) = TextOf({})
      BY <3>1, <1>6, <1>8, Zenon DEF Sought
    <3> QED BY <3>2, <2>1, <2>3, <1>5, TextOfNone, Zenon
  <2> QED BY <2>2, <2>3
<1>9. CASE sought # "filename*"
  <2>1. sought \in {"name", "filename"} /\ p.form \in {"token", "quoted", "percent"}
    BY <1>3, <1>7, <1>9 DEF Keys
  <2>2. attr = "FileName" => p.key = "filename"
    BY <2>1, <1>3
  <2>3. Decoded(rest) = {p.text}
    <3>1. CASE p.form = "token"
      BY <3>1, <2>2, <1>3, <1>4, <1>9, TokenRead
    <3>2. CASE p.form = "quoted"
      BY <3>2, <2>2, <1>3, <1>4, <1>9, QuotedRead
    <3>3. CASE p.form = "percent"
      <4>1. attr = "FileName"
        BY <3>3, <1>3, <1>7 DEF Attrs
      <4> QED BY <3>3, <4>1, <1>3, <1>4, <1>9, PercentRead
    <3> QED BY <3>1, <3>2, <3>3, <2>1
  <2>4. Sought(sought) = TextOf({p})
    BY <1>6, <1>9, Zenon DEF Sought
  <2> QED BY <2>3, <2>4, <1>5, TextOfOne, Zenon
<1> QED BY <1>8, <1>9

\* No parameter is left only if none has the key.
LEMMA NoneLeft ==
  ASSUME NEW h, NEW i, Reached(h, i), sought \in Keys
  PROVE  /\ remaining = << >> <=> i = Len(Governing) + 1
         /\ remaining = << >> => Sought(sought) = {}
<1>1. PICK n \in Nat : n = Len(Governing) /\ DOMAIN Governing = 1..n /\ i \in 1..(n + 1) /\ Chain(h, Governing, n)
  BY DEF Reached, Chained
<1>2. CASE i = n + 1
  <2>1. remaining = << >>
    BY <1>1, <1>2, Zenon DEF Reached, Chain, Left
  <2>2. \A j \in DOMAIN Governing : Governing[j].key # sought
    BY <1>1, <1>2 DEF Reached
  <2>3. First(Governing, sought) = {}
    BY <2>2, FirstNone
  <2>4. { p \in {} : Decodable(p) } = {}
    BY Zenon
  <2>5. Sought(sought) = TextOf({})
    BY <2>3, <2>4, Zenon DEF Sought
  <2> QED BY <2>1, <2>5, <1>1, <1>2, TextOfNone
<1>3. CASE i # n + 1
  <2>1. i \in 1..Len(Governing)
    BY <1>1, <1>3
  <2>2. remaining # << >>
    BY <2>1, AtParameter DEF Reached
  <2> QED BY <2>2, <1>1, <1>3
<1> QED BY <1>2, <1>3

-----------------------------------------------------------------------------
(* The whole search *)

\* What an extraction under way has established.
Searching ==
  /\ attr = "Name" <=> sought = "name"
  /\ attr = "FileName" => value["Name"] = Sought("name")
  /\ sought = "filename" => Sought("filename*") = {}
  /\ \E h, i : Reached(h, i)

SearchInv ==
  /\ Types /\ DOMAIN value = Attrs /\ value = [ a \in Attrs |-> value[a] ]
  /\ pc = "scan" /\ Written => Searching
  /\ ReadsWhatWasWritten

\* The two texts sought make what the client meant.
LEMMA MeantIs ==
  ASSUME NEW f, DOMAIN f = Attrs, f = [ a \in Attrs |-> f[a] ],
         f["Name"] = Sought("name"),
         f["FileName"] = IF Sought("filename*") # {} THEN Sought("filename*") ELSE Sought("filename")
  PROVE  f = Meant
<1>1. PICK e : e = { p \in First(Governing, "filename*") : Decodable(p) }
  OBVIOUS
<1>2. Sought("filename*") = TextOf(e)
  BY <1>1, Zenon DEF Sought
<1>3. TextOf(e) # {} <=> e # {}
  BY Zenon DEF TextOf
<1>4. Sought("name") = TextOf(First(Governing, "name")) /\ Sought("filename") = TextOf(First(Governing, "filename"))
  BY DEF Sought
<1>5. Meant = [ Name |-> f["Name"], FileName |-> TextOf(IF e # {} THEN e ELSE First(Governing, "filename")) ]
  BY <1>1, <1>4, Zenon DEF Meant, MeantBy
<1>6. f["FileName"] = TextOf(IF e # {} THEN e ELSE First(Governing, "filename"))
  BY <1>2, <1>3, <1>4, Zenon
<1>7. f = [ Name |-> f["Name"], FileName |-> f["FileName"] ]
  BY DEF Attrs
<1> QED BY <1>5, <1>6, <1>7, Zenon

LEMMA SearchInit == Init => SearchInv
<1> SUFFICES ASSUME Init PROVE SearchInv
  OBVIOUS
<1>1. Types
  BY TypesInit
<1>2. /\ lines \in PartHeaders /\ attr = "Name" /\ sought = "name" /\ remaining = Parameters
      /\ value = [a \in Attrs |-> {}] /\ pc = "scan"
  BY Zenon DEF Init
<1>3. DOMAIN value = Attrs /\ value = [ a \in Attrs |-> value[a] ]
  BY <1>2
<1>4. ASSUME Written PROVE \E h, i : Reached(h, i)
  <2>1. PICK h : Chained(h)
    BY <1>2, <1>4, Grammar
  <2>2. Reached(h, 1)
    <3>1. Len(Governing) \in Nat /\ Parameters = Left(h, 1)
      BY <2>1, Zenon DEF Chained
    <3>2. 1 \in 1..(Len(Governing) + 1) /\ 1..(1 - 1) = {}
      BY <3>1
    <3> QED BY <2>1, <3>1, <3>2, <1>2, Zenon DEF Reached
  <2> QED BY <2>2
<1>5. pc = "scan" /\ Written => Searching
  BY <1>2, <1>4 DEF Searching
<1>6. ReadsWhatWasWritten
  BY <1>2 DEF ReadsWhatWasWritten
<1> QED BY <1>1, <1>3, <1>5, <1>6, Zenon DEF SearchInv

\* What the header says stays what it is.
LEMMA HeaderStays ==
  ASSUME UNCHANGED lines
  PROVE  /\ Written' = Written /\ Governing' = Governing /\ Meant' = Meant /\ Parameters' = Parameters
         /\ \A h : Chained(h)' = Chained(h)
         /\ \A key : Sought(key)' = Sought(key)
<1>1. Written' = Written
  BY DEF Written
<1>2. Governing' = Governing
  BY DEF Governing
<1>3. Meant' = Meant
  BY <1>2 DEF Meant
<1>4. Parameters' = Parameters
  BY DEF Parameters, Header, HeaderMap
<1>5. \A h : Chained(h)' = Chained(h)
  BY <1>2, <1>4 DEF Chained
<1>6. \A key : Sought(key)' = Sought(key)
  BY <1>2 DEF Sought
<1> QED BY <1>1, <1>2, <1>3, <1>4, <1>5, <1>6

\* From the start of the header a new search begins.
LEMMA Restarted ==
  ASSUME UNCHANGED lines, NEW h, NEW i, Reached(h, i), remaining' = Parameters
  PROVE  Reached(h, 1)'
<1>1. Chained(h) /\ Len(Governing) \in Nat /\ Parameters = Left(h, 1)
  BY Zenon DEF Reached, Chained
<1>2. 1 \in 1..(Len(Governing) + 1) /\ 1..(1 - 1) = {}
  BY <1>1
<1>3. Chained(h)' /\ Governing' = Governing
  BY <1>1, HeaderStays
<1> QED BY <1>1, <1>2, <1>3 DEF Reached

\* What is found is put where it belongs, and nothing else is touched.
LEMMA Stored ==
  ASSUME NEW v, Found(v), DOMAIN value = Attrs, attr \in Attrs
  PROVE  /\ DOMAIN value' = Attrs /\ value' = [ a \in Attrs |-> value'[a] ]
         /\ value'[attr] = v
         /\ \A a \in Attrs \ {attr} : value'[a] = value[a]
         /\ UNCHANGED lines
<1>1. value' = [value EXCEPT ![attr] = v] /\ UNCHANGED lines
  BY DEF Found
<1> QED BY <1>1

\* Another search begins, or the extraction is over.
LEMMA SearchGoesOn ==
  ASSUME NEW v, Found(v)
  PROVE  \/ FallsBack(v) /\ Restart(attr, "filename")
         \/ ~FallsBack(v) /\ attr = "Name" /\ Restart("FileName", "filename*")
         \/ ~FallsBack(v) /\ attr # "Name" /\ pc' = "done"
  BY DEF Found

\* The outcome of a search is stored, and what follows goes on with it.
LEMMA FoundRight ==
  ASSUME SearchInv, pc = "scan", Written, NEW v, v = Sought(sought), Found(v), attr \in Attrs, sought \in Keys, Types'
  PROVE  SearchInv'
<1>1. /\ DOMAIN value = Attrs
      /\ attr = "Name" <=> sought = "name"
      /\ attr = "FileName" => value["Name"] = Sought("name")
      /\ sought = "filename" => Sought("filename*") = {}
      /\ \E h, i : Reached(h, i)
  BY Zenon DEF SearchInv, Searching
<1>2. /\ DOMAIN value' = Attrs /\ value' = [ a \in Attrs |-> value'[a] ]
      /\ value'[attr] = v
      /\ \A a \in Attrs \ {attr} : value'[a] = value[a]
      /\ UNCHANGED lines
  BY <1>1, Stored
<1>3. Meant' = Meant /\ \A key : Sought(key)' = Sought(key)
  BY <1>2, HeaderStays
<1>a. "Name" \in Attrs /\ "FileName" \in Attrs /\ \A a \in Attrs : a # "Name" => a = "FileName"
  BY DEF Attrs
<1>4. \A a, key : Restart(a, key) => \E h, i : Reached(h, i)'
  <2> SUFFICES ASSUME NEW a, NEW key, Restart(a, key) PROVE \E h, i : Reached(h, i)'
    OBVIOUS
  <2>1. remaining' = Parameters
    BY Zenon DEF Restart
  <2>2. PICK h, i : Reached(h, i)
    BY <1>1, Zenon
  <2>3. Reached(h, 1)'
    BY <1>2, <2>1, <2>2, Restarted
  <2> QED BY <2>3, Zenon
<1>5. CASE FallsBack(v) /\ Restart(attr, "filename")
  <2>1. attr' = attr /\ sought' = "filename" /\ pc' = "scan"
    BY <1>5, Zenon DEF Restart
  <2>2. sought = "filename*" /\ Sought("filename*") = {}
    BY <1>5, Zenon DEF FallsBack
  <2>3. attr = "FileName"
    BY <1>1, <1>a, <2>2
  <2>4. value'["Name"] = Sought("name")
    BY <1>1, <1>2, <1>a, <2>3
  <2>5. Searching'
    BY <1>3, <1>4, <1>5, <2>1, <2>2, <2>3, <2>4 DEF Searching
  <2>6. ReadsWhatWasWritten'
    BY <2>1 DEF ReadsWhatWasWritten
  <2> QED BY <1>2, <2>5, <2>6, Zenon DEF SearchInv
<1>6. CASE ~FallsBack(v) /\ attr = "Name" /\ Restart("FileName", "filename*")
  <2>1. attr' = "FileName" /\ sought' = "filename*" /\ pc' = "scan"
    BY <1>6, Zenon DEF Restart
  <2>2. value'["Name"] = Sought("name")
    BY <1>1, <1>2, <1>6
  <2>3. Searching'
    BY <1>3, <1>4, <1>6, <2>1, <2>2 DEF Searching
  <2>4. ReadsWhatWasWritten'
    BY <2>1 DEF ReadsWhatWasWritten
  <2> QED BY <1>2, <2>3, <2>4, Zenon DEF SearchInv
<1>7. CASE ~FallsBack(v) /\ attr # "Name" /\ pc' = "done"
  <2>1. attr = "FileName" /\ sought \in {"filename", "filename*"}
    BY <1>1, <1>7, <1>a DEF Keys
  <2>2. value'["Name"] = Sought("name") /\ value'["FileName"] = Sought(sought)
    BY <1>1, <1>2, <1>a, <2>1
  <2>3. Sought(sought) = IF Sought("filename*") # {} THEN Sought("filename*") ELSE Sought("filename")
    <3>1. CASE sought = "filename*"
      <4>1. Sought("filename*") # {}
        BY <1>7, <3>1, Zenon DEF FallsBack
      <4> QED BY <3>1, <4>1, Zenon
    <3>2. CASE sought = "filename"
      BY <1>1, <3>2, Zenon
    <3> QED BY <2>1, <3>1, <3>2
  <2>4. PICK f : f = value'
    OBVIOUS
  <2>5. f = Meant
    <3>1. DOMAIN f = Attrs /\ f = [ a \in Attrs |-> f[a] ]
      BY <1>2, <2>4
    <3>2. f["Name"] = Sought("name") /\ f["FileName"] = Sought(sought)
      BY <2>2, <2>4
    <3>3. f["FileName"] = IF Sought("filename*") # {} THEN Sought("filename*") ELSE Sought("filename")
      BY <2>3, <3>2, Zenon
    <3> QED BY <3>1, <3>2, <3>3, MeantIs
  <2>6. ReadsWhatWasWritten'
    BY <1>3, <2>4, <2>5 DEF ReadsWhatWasWritten
  <2>7. pc' = "scan" /\ Written' => Searching'
    BY <1>7
  <2> QED BY <1>2, <2>6, <2>7, Zenon DEF SearchInv
<1> QED BY <1>5, <1>6, <1>7, SearchGoesOn

\* In a part that no client wrote nothing is to be shown.
LEMMA NotWritten ==
  ASSUME ~Written, UNCHANGED lines, Types', DOMAIN value' = Attrs, value' = [ a \in Attrs |-> value'[a] ]
  PROVE  SearchInv'
<1>1. ~Written'
  BY HeaderStays
<1> QED BY <1>1, Zenon DEF SearchInv, ReadsWhatWasWritten

\* A parameter that is not the one sought is passed.
LEMMA SkippedRight ==
  ASSUME SearchInv, SkipParameter, Written, sought \in Keys, Types'
  PROVE  SearchInv'
<1>1. /\ pc = "scan" /\ remaining # << >> /\ ~IsSought
      /\ remaining' = From(remaining, ParameterEnd(remaining) + 1)
      /\ UNCHANGED <<lines, attr, sought, value, pc>>
  BY Zenon DEF SkipParameter
<1>2. /\ DOMAIN value = Attrs /\ value = [ a \in Attrs |-> value[a] ]
      /\ attr = "Name" <=> sought = "name"
      /\ attr = "FileName" => value["Name"] = Sought("name")
      /\ sought = "filename" => Sought("filename*") = {}
      /\ \E h, i : Reached(h, i)
  BY <1>1, Zenon DEF SearchInv, Searching
<1>3. PICK h, i : Reached(h, i)
  BY <1>2, Zenon
<1>4. /\ Chained(h) /\ i \in 1..(Len(Governing) + 1) /\ remaining = Left(h, i)
      /\ \A j \in 1..(i - 1) : Governing[j].key # sought
  BY <1>3, Zenon DEF Reached
<1>5. Len(Governing) \in Nat
  BY <1>4, Zenon DEF Chained
<1>6. i # Len(Governing) + 1
  BY <1>1, <1>3, NoneLeft
<1>7. i \in 1..Len(Governing) /\ i + 1 \in 1..(Len(Governing) + 1) /\ (i + 1) - 1 = i
  BY <1>4, <1>5, <1>6
<1>8. /\ Governing[i].key # sought
      /\ remaining' = Left(h, i + 1)
  BY <1>1, <1>4, <1>7, AtParameter
<1>9. \A j \in 1..((i + 1) - 1) : Governing[j].key # sought
  BY <1>4, <1>7, <1>8
<1>10. /\ Governing' = Governing /\ Chained(h)' = Chained(h) /\ Written' = Written
       /\ \A key : Sought(key)' = Sought(key)
  BY <1>1, HeaderStays
<1>11. Left(h, i + 1)' = Left(h, i + 1)
  BY <1>10 DEF Left
<1>12. Reached(h, i + 1)'
  BY <1>1, <1>4, <1>7, <1>8, <1>9, <1>10, <1>11, Zenon DEF Reached
<1>13. Searching'
  BY <1>1, <1>2, <1>10, <1>12 DEF Searching
<1>14. ReadsWhatWasWritten'
  BY <1>1 DEF ReadsWhatWasWritten
<1> QED BY <1>1, <1>2, <1>13, <1>14, Zenon DEF SearchInv

LEMMA SearchStep == SearchInv /\ [Next]_vars => SearchInv'
<1> SUFFICES ASSUME SearchInv, [Next]_vars PROVE SearchInv'
  OBVIOUS
<1>1. /\ Types /\ DOMAIN value = Attrs /\ value = [ a \in Attrs |-> value[a] ]
      /\ pc = "scan" /\ Written => Searching
  BY Zenon DEF SearchInv
<1>2. Types' /\ attr \in Attrs /\ sought \in Keys
  <2>1. Types'
    BY <1>1, TypesStep
  <2> QED BY <1>1, <2>1, Zenon DEF Types
<1>3. CASE SkipParameter
  <2>1. CASE Written
    BY <1>2, <1>3, <2>1, SkippedRight
  <2>2. CASE ~Written
    <3>1. UNCHANGED lines /\ value' = value
      BY <1>3, Zenon DEF SkipParameter
    <3> QED BY <1>1, <1>2, <2>2, <3>1, NotWritten
  <2> QED BY <2>1, <2>2
<1>4. ASSUME NEW v, Found(v), pc = "scan", Written => v = Sought(sought) PROVE SearchInv'
  <2>1. CASE Written
    BY <1>2, <1>4, <2>1, FoundRight
  <2>2. CASE ~Written
    BY <1>1, <1>2, <1>4, <2>2, Stored, NotWritten
  <2> QED BY <2>1, <2>2
<1>5. ASSUME pc = "scan", Written
      PROVE  \E h, i : /\ Reached(h, i) /\ i \in Int /\ i <= Len(Governing) + 1 /\ Len(Governing) \in Nat
                       /\ attr = "Name" <=> sought = "name"
  <2>1. (attr = "Name" <=> sought = "name") /\ \E h, i : Reached(h, i)
    BY <1>1, <1>5, Zenon DEF Searching
  <2>2. PICK h, i : Reached(h, i)
    BY <2>1, Zenon
  <2>3. Chained(h) /\ i \in 1..(Len(Governing) + 1)
    BY <2>2, Zenon DEF Reached
  <2>4. Len(Governing) \in Nat
    BY <2>3, Zenon DEF Chained
  <2>5. i \in Int /\ i <= Len(Governing) + 1
    BY <2>3, <2>4
  <2> QED BY <2>1, <2>2, <2>4, <2>5, Zenon
<1>6. CASE ReadParameter
  <2>1. pc = "scan" /\ remaining # << >> /\ IsSought /\ Found(UNION { Decoded(rest) : rest \in RestOf(Parameter) })
    BY <1>6, Zenon DEF ReadParameter
  <2>2. ASSUME Written PROVE UNION { Decoded(rest) : rest \in RestOf(Parameter) } = Sought(sought)
    <3>1. PICK h, i : /\ Reached(h, i) /\ i \in Int /\ i <= Len(Governing) + 1 /\ Len(Governing) \in Nat
                      /\ attr = "Name" <=> sought = "name"
      BY <1>5, <2>1, <2>2, Zenon
    <3>2. i # Len(Governing) + 1
      BY <1>2, <2>1, <3>1, NoneLeft
    <3>3. i <= Len(Governing)
      BY <3>1, <3>2
    <3> QED BY <1>2, <2>1, <3>1, <3>3, ParameterRead
  <2> QED BY <1>4, <2>1, <2>2, Zenon
<1>7. CASE NoParameterLeft
  <2>1. pc = "scan" /\ remaining = << >> /\ Found({})
    BY <1>7, Zenon DEF NoParameterLeft
  <2>2. ASSUME Written PROVE {} = Sought(sought)
    <3>1. PICK h, i : Reached(h, i)
      BY <1>5, <2>1, <2>2, Zenon
    <3> QED BY <1>2, <2>1, <3>1, NoneLeft
  <2> QED BY <1>4, <2>1, <2>2, Zenon
<1>8. CASE UNCHANGED vars
  <2>1. UNCHANGED <<lines, attr, sought, remaining, value, pc>>
    BY <1>8, Zenon DEF vars
  <2>2. CASE ~Written
    BY <1>1, <1>2, <2>1, <2>2, NotWritten
  <2>3. CASE Written
    <3>1. /\ Governing' = Governing /\ Meant' = Meant /\ Written' = Written
          /\ \A h : Chained(h)' = Chained(h)
          /\ \A key : Sought(key)' = Sought(key)
      BY <2>1, HeaderStays
    <3>2. ASSUME NEW h, NEW i, Reached(h, i) PROVE Reached(h, i)'
      BY <2>1, <3>1, <3>2 DEF Reached, Left
    <3>3. pc' = "scan" /\ Written' => Searching'
      BY <1>1, <2>1, <3>1, <3>2 DEF Searching
    <3>4. ReadsWhatWasWritten'
      <4>1. ReadsWhatWasWritten
        BY Zenon DEF SearchInv
      <4> QED BY <2>1, <3>1, <4>1, Zenon DEF ReadsWhatWasWritten
    <3> QED BY <1>1, <1>2, <2>1, <3>3, <3>4, Zenon DEF SearchInv
  <2> QED BY <2>2, <2>3
<1> QED BY <1>3, <1>6, <1>7, <1>8, Zenon DEF Next

\* Whatever a client writes, in any of the forms: the name and the file name of
\* its field are the ones it wrote (ContentDisposition::parse in
\* src/content_disposition.rs, extract_from in src/constants.rs).
THEOREM ValuesAreTheOnesWritten == Spec => []ReadsWhatWasWritten
<1>1. Init => SearchInv
  BY SearchInit
<1>2. SearchInv /\ [Next]_vars => SearchInv'
  BY SearchStep
<1>3. SearchInv => ReadsWhatWasWritten
  BY Zenon DEF SearchInv
<1> QED BY <1>1, <1>2, <1>3, PTL DEF Spec
=============================================================================
