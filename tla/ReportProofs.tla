---------------------------- MODULE ReportProofs ----------------------------
(***************************************************************************)
(* Two parts a report is made of.  For every list of texts: a CPU list     *)
(* that is written wrongly is refused, and one that is not is reported as  *)
(* the CPUs it names.  For every list of bucket bounds and any samples and *)
(* resets: the quantiles of a summary are the bounds that enough of the    *)
(* samples do not exceed, and a summary is consistent.                     *)
(*                                                                         *)
(* The formatter's loop needs an invariant of its own (ListInv: the ranges *)
(* written so far name the CPUs before the index, and the range being read *)
(* is a run of consecutive ones), and the histogram's counters are the     *)
(* sizes of sets of samples (HistInv).  What cum computes, by recursion    *)
(* over the buckets, is proved by induction over a set (SetInduction): the *)
(* numbers for which it is right, as every set of numbers that is not      *)
(* empty has a least element.                                              *)
(***************************************************************************)
EXTENDS CpuList, LatencyHistogram, FiniteSetTheorems, WellFoundedInduction, TLAPS

-----------------------------------------------------------------------------
(* Numbers and sequences of numbers.                                       *)

(* A set of naturals that is not empty has a least element.                *)
LEMMA LeastElement ==
  ASSUME NEW S, S \subseteq Nat, S # {}
  PROVE  \E m \in S : \A x \in S : m <= x
<1> DEFINE R == OpToRel(<, Nat)
<1>1. IsWellFoundedOn(R, Nat)
  BY NatLessThanWellFounded
<1>2. \A x, y \in Nat : <<x, y>> \in R <=> x < y
  BY DEF OpToRel
<1> HIDE DEF R
<1>3. PICK m \in S : \A x \in S : ~(<<x, m>> \in R)
  BY <1>1, WFMin
<1>4. ASSUME NEW x \in S PROVE m <= x
  <2>1. x \in Nat /\ m \in Nat
    OBVIOUS
  <2>2. ~(x < m)
    BY <1>2, <1>3, <2>1, Zenon
  <2> QED BY <2>1, <2>2
<1> QED BY <1>4

(* Induction, for a set instead of a predicate.                            *)
LEMMA SetInduction ==
  ASSUME NEW S, 0 \in S, \A n \in Nat : n \in S => n + 1 \in S
  PROVE  Nat \subseteq S
<1> DEFINE Rest == {n \in Nat : n \notin S}
<1> SUFFICES ASSUME Rest # {} PROVE FALSE
  OBVIOUS
<1>1. PICK m \in Rest : \A x \in Rest : m <= x
  <2>1. Rest \subseteq Nat
    OBVIOUS
  <2> QED BY <2>1, LeastElement
<1>2. m \in Nat /\ m # 0 /\ m - 1 \in Nat /\ ~(m <= m - 1) /\ (m - 1) + 1 = m
  OBVIOUS
<1>3. m - 1 \notin Rest
  BY <1>1, <1>2
<1> QED BY <1>2, <1>3

(* In how many elements of a finite set of naturals precede one of them:   *)
(* each number from 0 is that of one element.                              *)
LEMMA RanksAreAll ==
  ASSUME NEW S, S \subseteq Nat, IsFiniteSet(S), NEW r \in 0 .. Cardinality(S) - 1
  PROVE  \E c \in S : Cardinality({d \in S : d < c}) = r
<1> DEFINE n == Cardinality(S)
           Below(c) == {d \in S : d < c}
           f == [c \in S |-> Cardinality(Below(c))]
<1>1. n \in Nat
  BY FS_CardinalityType
<1>2. ASSUME NEW c \in S PROVE IsFiniteSet(Below(c)) /\ Cardinality(Below(c)) \in 0 .. n - 1
  <2>1. Below(c) \in SUBSET S /\ Below(c) # S
    BY <1>2
  <2>2. IsFiniteSet(Below(c)) /\ Cardinality(Below(c)) <= n /\ Cardinality(Below(c)) # n
    BY <2>1, FS_Subset
  <2>3. Cardinality(Below(c)) \in Nat
    BY <2>2, FS_CardinalityType
  <2> QED BY <1>1, <2>2, <2>3
<1>3. ASSUME NEW c \in S, NEW d \in S, c < d PROVE Cardinality(Below(c)) # Cardinality(Below(d))
  <2>0. ~(c < c) /\ \A e \in S : e < c => e < d
    <3>1. c \in Nat /\ d \in Nat /\ \A e \in S : e \in Nat
      OBVIOUS
    <3> QED BY <1>3, <3>1
  <2>1. Below(c) \in SUBSET Below(d) /\ c \in Below(d) /\ c \notin Below(c)
    BY <1>3, <2>0
  <2>2. Below(c) # Below(d)
    BY <2>1
  <2> QED BY <1>2, <2>1, <2>2, FS_Subset
<1>4. f \in Injection(S, 0 .. n - 1)
  <2>1. f \in [S -> 0 .. n - 1]
    BY <1>2
  <2>2. \A c, d \in S : c # d => c < d \/ d < c
    OBVIOUS
  <2>3. IsInjective(f)
    BY <1>3, <2>2 DEF IsInjective
  <2> QED BY <2>1, <2>3 DEF Injection
<1>5. IsFiniteSet(0 .. n - 1) /\ Cardinality(0 .. n - 1) = n
  <2>1. 0 \in Int /\ n - 1 \in Int /\ (IF 0 > n - 1 THEN 0 ELSE (n - 1) - 0 + 1) = n
    BY <1>1
  <2> QED BY <2>1, FS_Interval
<1>6. f \in Surjection(S, 0 .. n - 1)
  BY <1>4, <1>5, FS_Injection
<1> QED BY <1>6 DEF Surjection
(* As many numbers in ascending order as a set has: all of them.           *)
LEMMA AscendingIsAll ==
  ASSUME NEW S, S \subseteq Nat, IsFiniteSet(S),
         NEW s \in [1 .. Cardinality(S) -> S], Ascending(s)
  PROVE  s \in Seq(Nat) /\ Elems(s) = S
<1> DEFINE n == Cardinality(S)
<1>1. n \in Nat
  BY FS_CardinalityType
<1>2. IsFiniteSet(1 .. n) /\ Cardinality(1 .. n) = n
  <2>1. 1 \in Int /\ n \in Int /\ (IF 1 > n THEN 0 ELSE n - 1 + 1) = n
    BY <1>1
  <2> QED BY <2>1, FS_Interval
<1>3. s \in Injection(1 .. n, S)
  <2>1. ASSUME NEW a \in 1 .. n, NEW b \in 1 .. n, a < b PROVE s[a] # s[b]
    <3>1. s[a] < s[b] /\ s[a] \in Nat
      BY <2>1 DEF Ascending
    <3> QED BY <3>1
  <2>2. \A a, b \in 1 .. n : a # b => a < b \/ b < a
    BY <1>1
  <2>3. IsInjective(s)
    BY <2>1, <2>2 DEF IsInjective
  <2> QED BY <2>3 DEF Injection
<1>4. s \in Surjection(1 .. n, S)
  BY <1>2, <1>3, FS_Injection
<1>5. Elems(s) = S
  BY <1>4 DEF Surjection, Elems
<1>6. s \in [1 .. n -> Nat]
  OBVIOUS
<1> QED BY <1>1, <1>5, <1>6

(* A finite set of naturals can be listed in ascending order.              *)
LEMMA AscendingExists ==
  ASSUME NEW S, S \subseteq Nat, IsFiniteSet(S)
  PROVE  \E s \in [1 .. Cardinality(S) -> S] : Ascending(s)
<1> DEFINE n == Cardinality(S)
           Below(c) == {d \in S : d < c}
           s == [a \in 1 .. n |-> CHOOSE c \in S : Cardinality(Below(c)) = a - 1]
<1>1. n \in Nat
  BY FS_CardinalityType
<1>2. ASSUME NEW a \in 1 .. n PROVE s[a] \in S /\ Cardinality(Below(s[a])) = a - 1
  <2>1. a - 1 \in 0 .. n - 1
    BY <1>1
  <2>2. \E c \in S : Cardinality(Below(c)) = a - 1
    BY <2>1, RanksAreAll
  <2> QED BY <2>2
<1>3. DOMAIN s = 1 .. n /\ s \in [1 .. n -> S]
  BY <1>2
<1> HIDE DEF s
<1>4. ASSUME NEW a \in 1 .. n, NEW b \in 1 .. n, a < b PROVE s[a] < s[b]
  <2> SUFFICES ASSUME ~(s[a] < s[b]) PROVE FALSE
    OBVIOUS
  <2>1. PICK c \in Nat, d \in Nat : c = s[a] /\ d = s[b] /\ c \in S /\ d \in S
    BY <1>2
  <2>2. d <= c
    BY <2>1
  <2>3. Below(d) \subseteq Below(c)
    <3>1. ASSUME NEW e \in S, e < d PROVE e < c
      <4>1. e \in Nat
        OBVIOUS
      <4> QED BY <2>2, <3>1, <4>1
    <3> QED BY <3>1
  <2>4. IsFiniteSet(Below(c)) /\ Below(d) \in SUBSET Below(c)
    <3>1. Below(c) \in SUBSET S
      OBVIOUS
    <3> QED BY <2>3, <3>1, FS_Subset
  <2>5. Cardinality(Below(d)) <= Cardinality(Below(c))
    BY <2>4, FS_Subset
  <2>6. Cardinality(Below(c)) = a - 1 /\ Cardinality(Below(d)) = b - 1
    BY <1>2, <2>1
  <2>7. b - 1 <= a - 1
    BY <2>5, <2>6
  <2> QED BY <1>1, <1>4, <2>7
<1> QED BY <1>3, <1>4 DEF Ascending

(* The elements of a sequence of numbers are finitely many.                *)
LEMMA ElemsFinite ==
  ASSUME NEW q \in Seq(Nat)
  PROVE  Elems(q) \subseteq Nat /\ IsFiniteSet(Elems(q))
<1>1. Len(q) \in Nat /\ DOMAIN q = 1 .. Len(q)
  OBVIOUS
<1>2. IsFiniteSet(1 .. Len(q))
  <2>1. 1 \in Int /\ Len(q) \in Int
    BY <1>1
  <2> QED BY <2>1, FS_Interval
<1>3. q \in Surjection(1 .. Len(q), Elems(q))
  BY <1>1 DEF Surjection, Elems
<1>4. IsFiniteSet(Elems(q))
  BY <1>2, <1>3, FS_Surjection
<1>5. Elems(q) \subseteq Nat
  BY DEF Elems
<1> QED BY <1>4, <1>5

(* sort_unstable and dedup: the same CPUs, ascending, each once.           *)
LEMMA SortDedupIs ==
  ASSUME NEW q \in Seq(Nat)
  PROVE  /\ SortDedup(q) \in Seq(Nat) /\ Ascending(SortDedup(q))
         /\ Elems(SortDedup(q)) = Elems(q)
<1> DEFINE S == Elems(q)
<1>1. S \subseteq Nat /\ IsFiniteSet(S)
  BY ElemsFinite
<1>2. \E s \in [1 .. Cardinality(S) -> S] : \A a, b \in DOMAIN s : a < b => s[a] < s[b]
  BY <1>1, AscendingExists DEF Ascending
<1>3. SortDedup(q) \in [1 .. Cardinality(S) -> S] /\ Ascending(SortDedup(q))
  BY <1>2 DEF SortDedup, Ascending
<1> QED BY <1>1, <1>3, AscendingIsAll

(* Two ascending sequences of the same numbers are one.                    *)
LEMMA AscendingIsUnique ==
  ASSUME NEW s \in Seq(Nat), NEW t \in Seq(Nat), Ascending(s), Ascending(t),
         Elems(s) = Elems(t)
  PROVE  s = t
<1>1. ASSUME NEW u \in Seq(Nat), NEW v \in Seq(Nat), Ascending(u), Ascending(v),
             Elems(u) = Elems(v), NEW m \in DOMAIN u,
             \A n \in DOMAIN u : n < m => n \in DOMAIN v /\ u[n] = v[n],
             m \in DOMAIN v => v[m] >= u[m]
      PROVE  m \in DOMAIN v /\ u[m] = v[m]
  <2>1. \A n \in DOMAIN u : u[n] \in Nat /\ n \in Nat
    OBVIOUS
  <2>2. \A n \in DOMAIN v : v[n] \in Nat /\ n \in Nat
    OBVIOUS
  <2>3. PICK p \in DOMAIN v : v[p] = u[m]
    BY <1>1 DEF Elems
  <2>4. ~(p < m)
    <3> SUFFICES ASSUME p < m PROVE FALSE
      OBVIOUS
    <3>1. p \in DOMAIN u
      BY <2>1, <2>2
    <3>2. u[p] = v[p] /\ u[p] < u[m]
      BY <1>1, <3>1 DEF Ascending
    <3> QED BY <2>1, <2>3, <3>1, <3>2
  <2>5. m \in DOMAIN v
    BY <2>1, <2>2, <2>4
  <2>6. ~(m < p)
    <3> SUFFICES ASSUME m < p PROVE FALSE
      OBVIOUS
    <3>1. v[m] < v[p]
      BY <1>1, <2>5 DEF Ascending
    <3> QED BY <1>1, <2>1, <2>2, <2>3, <2>5, <3>1
  <2>7. p = m
    BY <2>1, <2>2, <2>4, <2>6
  <2> QED BY <2>3, <2>5, <2>7
<1>2. ASSUME NEW u \in Seq(Nat), NEW v \in Seq(Nat), Ascending(u), Ascending(v),
             Elems(u) = Elems(v)
      PROVE  \A n \in DOMAIN u : n \in DOMAIN v /\ u[n] = v[n]
  <2> DEFINE Differ == {n \in DOMAIN u : ~(n \in DOMAIN v /\ u[n] = v[n])}
  <2> SUFFICES ASSUME Differ # {} PROVE FALSE
    OBVIOUS
  <2>1. Differ \subseteq Nat
    OBVIOUS
  <2>2. PICK m \in Differ : \A n \in Differ : m <= n
    BY <2>1, LeastElement
  <2>3. m \in Nat /\ \A n \in DOMAIN u : n \in Nat /\ (n < m => ~(m <= n))
    BY <2>1, SMTT(30)
  <2>4. \A n \in DOMAIN u : n < m => n \in DOMAIN v /\ u[n] = v[n]
    BY <2>2, <2>3
  <2>5. m \in DOMAIN v /\ ~(v[m] >= u[m])
    BY <1>1, <1>2, <2>4
  <2>6. u[m] \in Nat /\ v[m] \in Nat /\ u[m] >= v[m]
    BY <2>5, SMTT(30)
  <2>7. m \in DOMAIN u /\ \A n \in DOMAIN v : n < m => n \in DOMAIN u /\ v[n] = u[n]
    <3>1. \A n \in DOMAIN v : n < m => n \in DOMAIN u
      OBVIOUS
    <3> QED BY <2>4, <3>1
  <2>8. v[m] = u[m]
    BY <1>1, <1>2, <2>5, <2>6, <2>7
  <2> QED BY <2>2, <2>5, <2>8
<1>3. \A n : n \in DOMAIN s <=> n \in DOMAIN t
  BY <1>2
<1>4. Len(s) = Len(t)
  <2>1. PICK m \in Nat : m = Len(s)
    OBVIOUS
  <2>2. PICK n \in Nat : n = Len(t)
    OBVIOUS
  <2>3. \A x \in Nat : x \in 1 .. m <=> x \in 1 .. n
    BY <1>3, <2>1, <2>2
  <2>4. m > 0 => m \in 1 .. n
    BY <2>3
  <2>5. n > 0 => n \in 1 .. m
    BY <2>3
  <2> QED BY <2>1, <2>2, <2>4, <2>5
<1> QED BY <1>2, <1>4
-----------------------------------------------------------------------------
(* CPU lists: the invariant.                                               *)

(* The CPUs a report has to name.                                          *)
Meant == IF Wrong(given) THEN {} ELSE Denoted(given)

(* The CPUs the first n parts of a text name.                              *)
NamedBy(t, n) == UNION {Names(t[m]) : m \in 1 .. n}

(* Where parse_cpu_list and format_cpu_list are called, and how far.       *)
Callers ==
  /\ caller \in {"arg", "sys"} /\ given \in Texts
  /\ pc \in {"parse", "format", "runs", "again", "done", "refused"}

(* parse_cpu_list has the CPUs of the parts it went through.               *)
Parsing ==
  pc \in {"parse", "again"} =>
    /\ text \in Seq(Part) /\ k \in 1 .. Len(text) + 1 /\ out \in Seq(Nat)
    /\ \A n \in 1 .. k - 1 : ~Invalid(text[n])
    /\ Elems(out) = NamedBy(text, k - 1)

(* The text of the first parse is the caller's; its result is that text's. *)
FirstText == pc = "parse" => text = given
Parsed == pc = "format" => out \in Seq(Nat) /\ Elems(out) = Meant

(* What format_cpu_list writes: parts it accepts itself, ascending.        *)
RunOf(p) == p \in Seq(Nat) /\ Len(p) \in {1, 2} /\ ~Invalid(p)
Writing ==
  /\ written \in Seq(Part) /\ \A n \in DOMAIN written : RunOf(written[n])
  /\ Canonical(written)

(* The vector it writes, how far it is, and that the parts written are     *)
(* those of the CPUs before the current run, with a gap after them.        *)
Sorted ==
  /\ sorted \in Seq(Nat) /\ Ascending(sorted) /\ Elems(sorted) = Meant
  /\ cpus \in Seq(Nat) /\ Elems(cpus) = Meant
Run ==
  /\ i \in 1 .. Len(sorted) + 1 /\ j \in i .. Len(sorted) + 1
  /\ i <= Len(sorted) => j <= Len(sorted)
  /\ \A n \in i .. j : n <= Len(sorted) => sorted[n] = sorted[i] + (n - i)
  /\ Denoted(written) = {sorted[n] : n \in 1 .. i - 1}
  /\ i <= Len(sorted) =>
       \A n \in DOMAIN written : written[n][Len(written[n])] + 1 < sorted[i]
Formatting ==
  /\ pc \in {"runs", "again", "done"} => Sorted /\ Run
  /\ pc \in {"again", "done"} => i = Len(sorted) + 1

(* Parsing that text again appends each CPU behind the smaller ones.       *)
Again ==
  /\ pc = "again" => text = written /\ Ascending(out)
  /\ pc = "again" /\ k <= Len(text) => \A x \in Elems(out) : x < text[k][1]
  /\ pc = "done" => out = sorted

(* The inductive invariant of the CPU lists.                               *)
ListInv ==
  /\ Callers /\ Parsing /\ FirstText /\ Parsed /\ Writing /\ Formatting /\ Again
  /\ RefusedIfWrong

-----------------------------------------------------------------------------
(* Parts and vectors.                                                      *)

(* What a part that parses is expanded to: the CPUs it names, ascending.   *)
LEMMA ExpandIs ==
  ASSUME NEW p \in Part, ~Invalid(p), p # <<>>
  PROVE  /\ Expand(p) \in Seq(Nat) /\ Ascending(Expand(p)) /\ Elems(Expand(p)) = Names(p)
         /\ Names(p) # {} /\ \A x \in Names(p) : p[1] <= x /\ x <= p[Len(p)]
<1>1. p \in Seq(Nat) /\ Len(p) \in {1, 2}
  BY DEF Part, Invalid
<1>2. CASE Len(p) = 1
  <2>1. p[1] \in Nat /\ DOMAIN p = {1}
    BY <1>1, <1>2
  <2>2. Expand(p) = p /\ Names(p) = {p[1]}
    BY <1>2 DEF Expand, Names
  <2>3. Elems(p) = {p[1]}
    BY <2>1 DEF Elems
  <2>4. Ascending(p)
    BY <2>1 DEF Ascending
  <2> QED BY <1>1, <1>2, <2>1, <2>2, <2>3, <2>4
<1>3. CASE Len(p) = 2
  <2>0. PICK lo \in Nat, hi \in Nat : lo = p[1] /\ hi = p[2]
    BY <1>1, <1>3
  <2>1. lo = p[1] /\ hi = p[2] /\ lo <= hi
    BY <1>3, <2>0 DEF Invalid
  <2> DEFINE n == (hi - lo) + 1
             s == Span(lo, hi)
  <2>2. n \in Nat
    BY <2>1
  <2>3. Expand(p) = s /\ Names(p) = lo .. hi
    BY <1>3, <2>1 DEF Expand, Names
  <2>4. s = [m \in 1 .. n |-> (lo + m) - 1]
    BY DEF Span
  <2> HIDE DEF n, s
  <2>5. \A m \in 1 .. n : (lo + m) - 1 \in Nat /\ (lo + m) - 1 \in lo .. hi
    BY <2>2 DEF n
  <2>6. s \in [1 .. n -> Nat] /\ DOMAIN s = 1 .. n
    BY <2>4, <2>5
  <2>7. s \in Seq(Nat)
    BY <2>2, <2>6
  <2>8. Elems(s) = lo .. hi
    <3>1. ASSUME NEW x \in lo .. hi PROVE x \in Elems(s)
      <4>1. (x - lo) + 1 \in 1 .. n /\ (lo + ((x - lo) + 1)) - 1 = x
        BY DEF n
      <4>2. s[(x - lo) + 1] = x
        BY <2>4, <4>1
      <4> QED BY <2>6, <4>1, <4>2 DEF Elems
    <3>2. \A m \in 1 .. n : s[m] \in lo .. hi
      BY <2>4, <2>5
    <3> QED BY <2>6, <3>1, <3>2 DEF Elems
  <2>9. Ascending(s)
    <3>1. \A a, b \in 1 .. n : a < b => (lo + a) - 1 < (lo + b) - 1
      BY <2>2
    <3> QED BY <2>4, <2>6, <3>1 DEF Ascending
  <2> QED BY <1>3, <2>1, <2>3, <2>7, <2>8, <2>9
<1> QED BY <1>1, <1>2, <1>3

(* What a vector holds after extend.                                       *)
LEMMA ConcatIs ==
  ASSUME NEW s \in Seq(Nat), NEW t \in Seq(Nat)
  PROVE  /\ s \o t \in Seq(Nat) /\ Elems(s \o t) = Elems(s) \cup Elems(t)
         /\ (Ascending(s) /\ Ascending(t) /\ (\A x \in Elems(s), y \in Elems(t) : x < y))
            => Ascending(s \o t)
<1>1. PICK m \in Nat, n \in Nat : m = Len(s) /\ n = Len(t)
  OBVIOUS
<1>2. DOMAIN s = 1 .. m /\ DOMAIN t = 1 .. n
  BY <1>1
<1>3. /\ s \o t \in Seq(Nat) /\ DOMAIN (s \o t) = 1 .. m + n
      /\ \A a \in 1 .. m + n : (s \o t)[a] = IF a <= m THEN s[a] ELSE t[a - m]
  BY <1>1
<1> DEFINE u == s \o t
<1> HIDE DEF u
<1>4. Elems(u) \subseteq Elems(s) \cup Elems(t)
  <2>1. ASSUME NEW a \in 1 .. m + n PROVE u[a] \in Elems(s) \cup Elems(t)
    <3>1. CASE a <= m
      <4>1. a \in 1 .. m /\ u[a] = s[a]
        BY <1>3, <3>1 DEF u
      <4> QED BY <1>2, <4>1 DEF Elems
    <3>2. CASE ~(a <= m)
      <4>1. a - m \in 1 .. n /\ u[a] = t[a - m]
        BY <1>3, <3>2 DEF u
      <4> QED BY <1>2, <4>1 DEF Elems
    <3> QED BY <3>1, <3>2
  <2> QED BY <1>3, <2>1 DEF Elems, u
<1>5. ASSUME NEW a \in 1 .. m PROVE a \in 1 .. m + n /\ u[a] = s[a]
  <2>1. a \in 1 .. m + n /\ a <= m
    OBVIOUS
  <2> QED BY <1>3, <2>1 DEF u
<1>6. ASSUME NEW a \in 1 .. n PROVE a + m \in 1 .. m + n /\ u[a + m] = t[a]
  <2>1. a + m \in 1 .. m + n /\ ~(a + m <= m) /\ (a + m) - m = a
    OBVIOUS
  <2> QED BY <1>3, <2>1 DEF u
<1>7. Elems(s) \cup Elems(t) \subseteq Elems(u)
  <2>1. \A a \in 1 .. m : s[a] \in Elems(u)
    BY <1>3, <1>5 DEF Elems, u
  <2>2. \A a \in 1 .. n : t[a] \in Elems(u)
    BY <1>3, <1>6 DEF Elems, u
  <2> QED BY <1>2, <2>1, <2>2 DEF Elems
<1>8. ASSUME Ascending(s), Ascending(t), \A x \in Elems(s), y \in Elems(t) : x < y
      PROVE  Ascending(u)
  <2> SUFFICES ASSUME NEW a \in 1 .. m + n, NEW b \in 1 .. m + n, a < b PROVE u[a] < u[b]
    BY <1>3 DEF Ascending, u
  <2>1. CASE b <= m
    <3>1. a \in 1 .. m /\ b \in 1 .. m
      BY <2>1
    <3> QED BY <1>2, <1>5, <1>8, <3>1 DEF Ascending
  <2>2. CASE a <= m /\ ~(b <= m)
    <3>1. a \in 1 .. m /\ b - m \in 1 .. n /\ (b - m) + m = b
      BY <2>2
    <3>2. u[a] = s[a] /\ u[b] = t[b - m]
      BY <1>5, <1>6, <3>1
    <3>3. s[a] \in Elems(s) /\ t[b - m] \in Elems(t)
      BY <1>2, <3>1 DEF Elems
    <3> QED BY <1>8, <3>2, <3>3
  <2>3. CASE ~(a <= m)
    <3>1. /\ a - m \in 1 .. n /\ b - m \in 1 .. n /\ a - m < b - m
          /\ (a - m) + m = a /\ (b - m) + m = b
      BY <2>3
    <3> QED BY <1>2, <1>6, <1>8, <3>1 DEF Ascending
  <2> QED BY <2>1, <2>2, <2>3
<1> QED BY <1>3, <1>4, <1>7, <1>8 DEF u
(* The numbers of a part that was written.                                 *)
LEMMA RunIs ==
  ASSUME NEW p, RunOf(p)
  PROVE  p \in Seq(Nat) /\ p # <<>> /\ Len(p) \in {1, 2} /\ p[1] \in Nat /\ p[Len(p)] \in Nat
<1>1. p \in Seq(Nat) /\ Len(p) \in {1, 2}
  BY DEF RunOf
<1>2. p # <<>>
  <2>1. Len(<<>>) = 0 /\ 0 \notin {1, 2}
    OBVIOUS
  <2> QED BY <1>1, <2>1, Zenon
<1>3. ASSUME NEW n \in 1 .. Len(p) PROVE p[n] \in Nat
  BY <1>1
<1>4. PICK l \in Nat : l = Len(p) /\ l \in {1, 2}
  BY <1>1
<1>5. 1 \in 1 .. Len(p) /\ Len(p) \in 1 .. Len(p)
  <2>1. 1 \in 1 .. l /\ l \in 1 .. l
    BY <1>4
  <2> QED BY <1>4, <2>1
<1> QED BY <1>1, <1>2, <1>3, <1>5

(* One part more.                                                          *)
LEMMA NamedByNext ==
  ASSUME NEW t, NEW n \in Nat
  PROVE  NamedBy(t, n + 1) = NamedBy(t, n) \cup Names(t[n + 1])
<1>1. \A m : m \in 1 .. n + 1 <=> m \in 1 .. n \/ m = n + 1
  OBVIOUS
<1> QED BY <1>1 DEF NamedBy

(* The parts of a text, all of them.                                       *)
LEMMA NamedByAll ==
  ASSUME NEW t \in Seq(Part)
  PROVE  NamedBy(t, Len(t)) = Denoted(t)
BY DEF NamedBy, Denoted

-----------------------------------------------------------------------------
(* CPU lists: the steps.                                                   *)

(* While one text is parsed, what was written stays.                       *)
LEMMA KeepWritten ==
  ASSUME Writing, Formatting, UNCHANGED <<given, cpus, sorted, i, j, written>>,
         pc' \in {"runs", "again", "done"} => pc \in {"runs", "again", "done"},
         pc' \in {"again", "done"} => pc \in {"again", "done"}
  PROVE  Writing' /\ Formatting'
<1>1. Writing'
  BY DEF Writing
<1>2. Sorted => Sorted'
  BY DEF Sorted, Meant
<1>3. Run => Run'
  BY DEF Run
<1>4. Formatting'
  BY <1>2, <1>3 DEF Formatting
<1> QED BY <1>1, <1>4

(* parse_cpu_list takes a part: the vector gets the CPUs it names, in the  *)
(* text of a report behind those there are.                                *)
LEMMA ParsePartStep == ListInv /\ ParsePart => ListInv'
<1> SUFFICES ASSUME ListInv, ParsePart PROVE ListInv'
  OBVIOUS
<1> DEFINE p == text[k]
<1>1. /\ pc \in {"parse", "again"} /\ k <= Len(text) /\ ~Invalid(p)
      /\ out' = IF p = <<>> THEN out ELSE out \o Expand(p)
      /\ k' = k + 1
      /\ UNCHANGED <<caller, given, pc, text, cpus, sorted, i, j, written>>
  BY DEF ParsePart
<1>2. /\ text \in Seq(Part) /\ k \in 1 .. Len(text) + 1 /\ out \in Seq(Nat)
      /\ \A n \in 1 .. k - 1 : ~Invalid(text[n])
      /\ Elems(out) = NamedBy(text, k - 1)
  BY <1>1 DEF ListInv, Parsing
<1>3. PICK m \in Nat, l \in Nat : m + 1 = k /\ l = Len(text) /\ m + 1 <= l
  <2>1. k - 1 \in Nat /\ (k - 1) + 1 = k /\ Len(text) \in Nat
    BY <1>2
  <2> QED BY <1>1, <2>1
<1>4. p \in Part
  BY <1>2, <1>3
<1>5. out' \in Seq(Nat) /\ Elems(out') = Elems(out) \cup Names(p)
  <2>1. CASE p = <<>>
    <3>1. Names(p) = {}
      BY <2>1 DEF Names
    <3> QED BY <1>1, <1>2, <2>1, <3>1
  <2>2. CASE p # <<>>
    <3>1. Expand(p) \in Seq(Nat) /\ Elems(Expand(p)) = Names(p)
      BY <1>1, <1>4, <2>2, ExpandIs
    <3> QED BY <1>1, <1>2, <2>2, <3>1, ConcatIs
  <2> QED BY <2>1, <2>2
<1>6. Parsing'
  <2>1. k' - 1 = m + 1 /\ k - 1 = m /\ k' \in 1 .. l + 1
    BY <1>1, <1>3
  <2>2. Elems(out') = NamedBy(text, k' - 1)
    BY <1>2, <1>3, <1>5, <2>1, NamedByNext
  <2>3. \A n \in 1 .. m + 1 : n \in 1 .. m \/ n = m + 1
    OBVIOUS
  <2>4. \A n \in 1 .. k' - 1 : ~Invalid(text[n])
    BY <1>1, <1>2, <1>3, <2>1, <2>3
  <2> QED BY <1>1, <1>2, <1>3, <1>5, <2>1, <2>2, <2>4 DEF Parsing
<1>7. Again'
  <2> SUFFICES ASSUME pc = "again"
               PROVE  /\ Ascending(out')
                      /\ k' <= Len(text) => \A x \in Elems(out') : x < text[k'][1]
    BY <1>1 DEF ListInv, Again
  <2>1. /\ text = written /\ Ascending(out) /\ RunOf(p) /\ Canonical(text)
        /\ \A x \in Elems(out) : x < p[1]
    <3>1. k \in DOMAIN text
      BY <1>2, <1>3
    <3> QED BY <1>1, <3>1 DEF ListInv, Again, Writing
  <2>2. p # <<>> /\ p \in Seq(Nat) /\ Len(p) \in {1, 2}
    BY <2>1, RunIs
  <2>3. /\ Expand(p) \in Seq(Nat) /\ Ascending(Expand(p)) /\ Elems(Expand(p)) = Names(p)
        /\ \A x \in Names(p) : p[1] <= x /\ x <= p[Len(p)]
        /\ Names(p) # {}
    BY <1>1, <1>4, <2>2, ExpandIs
  <2>4. Elems(out) \subseteq Nat /\ Names(p) \subseteq Nat
    BY <1>2, <2>3, ElemsFinite
  <2>5. PICK lo \in Nat, hi \in Nat : lo = p[1] /\ hi = p[Len(p)]
    BY <2>2
  <2>6. \A x \in Elems(out), y \in Names(p) : x < y
    <3> SUFFICES ASSUME NEW x \in Elems(out), NEW y \in Names(p) PROVE x < y
      OBVIOUS
    <3>1. x \in Nat /\ y \in Nat /\ x < lo /\ lo <= y
      BY <2>1, <2>3, <2>4, <2>5
    <3> QED BY <3>1
  <2>7. Ascending(out')
    BY <1>1, <1>2, <2>1, <2>2, <2>3, <2>6, ConcatIs
  <2>8. ASSUME k' <= Len(text), NEW x \in Elems(out') PROVE x < text[k'][1]
    <3>1. k' = m + 2 /\ m + 2 \in DOMAIN text /\ m + 2 > 1 /\ (m + 2) - 1 = k
      BY <1>1, <1>2, <1>3, <2>8
    <3>2. hi + 1 < text[m + 2][1]
      BY <2>1, <2>5, <3>1 DEF Canonical
    <3>3. text[m + 2] \in Seq(Nat) /\ Len(text[m + 2]) \in {1, 2}
      BY <2>1, <3>1, RunIs DEF ListInv, Writing
    <3>4. PICK b \in Nat : b = text[m + 2][1]
      BY <3>3
    <3>5. x \in Nat /\ x <= hi
      <4>1. CASE x \in Names(p)
        BY <2>3, <2>4, <2>5, <4>1
      <4>2. CASE x \in Elems(out)
        <5>1. PICK y \in Names(p) : x < y /\ y <= hi
          BY <2>3, <2>5, <2>6, <4>2
        <5> QED BY <2>4, <4>2, <5>1
      <4> QED BY <1>5, <4>1, <4>2
    <3> QED BY <3>1, <3>2, <3>4, <3>5
  <2> QED BY <2>7, <2>8
<1>8. Writing' /\ Formatting'
  BY <1>1, KeepWritten DEF ListInv
<1>9. Callers' /\ FirstText' /\ Parsed' /\ RefusedIfWrong'
  BY <1>1 DEF ListInv, Callers, FirstText, Parsed, RefusedIfWrong
<1> QED BY <1>6, <1>7, <1>8, <1>9 DEF ListInv

(* A part that does not parse: never one that format_cpu_list wrote.       *)
LEMMA ParseErrorStep == ListInv /\ ParseError => ListInv'
<1> SUFFICES ASSUME ListInv, ParseError PROVE ListInv'
  OBVIOUS
<1>1. /\ pc \in {"parse", "again"} /\ k <= Len(text) /\ Invalid(text[k])
      /\ pc' = OnError /\ out' = <<>>
      /\ UNCHANGED <<caller, given, text, k, cpus, sorted, i, j, written>>
  BY DEF ParseError
<1>2. text \in Seq(Part) /\ k \in DOMAIN text
  <2>1. text \in Seq(Part) /\ k \in 1 .. Len(text) + 1
    BY <1>1 DEF ListInv, Parsing
  <2> QED BY <1>1, <2>1
<1>3. pc = "parse"
  BY <1>1, <1>2 DEF ListInv, Again, Writing, RunOf
<1>4. Wrong(given)
  BY <1>1, <1>2, <1>3 DEF ListInv, FirstText, Wrong, Invalid
<1>5. pc' = IF caller = "sys" THEN "format" ELSE "refused"
  BY <1>1, <1>3 DEF OnError
<1>6. Parsed'
  <2>1. Elems(<<>>) = {} /\ <<>> \in Seq(Nat)
    BY DEF Elems
  <2> QED BY <1>1, <1>4, <2>1 DEF Parsed, Meant
<1>7. Writing' /\ Formatting'
  BY <1>1, <1>5, KeepWritten DEF ListInv
<1>8. Callers' /\ RefusedIfWrong'
  BY <1>1, <1>4, <1>5 DEF ListInv, Callers, RefusedIfWrong
<1>9. Parsing' /\ FirstText' /\ Again'
  BY <1>5 DEF Parsing, FirstText, Again
<1> QED BY <1>6, <1>7, <1>8, <1>9 DEF ListInv

(* The end of the text: the vector is what the list means.                 *)
LEMMA ParseEndStep == ListInv /\ ParseEnd => ListInv'
<1> SUFFICES ASSUME ListInv, ParseEnd PROVE ListInv'
  OBVIOUS
<1>1. /\ pc = "parse" /\ k > Len(text) /\ pc' = "format"
      /\ UNCHANGED <<caller, given, text, k, out, cpus, sorted, i, j, written>>
  BY DEF ParseEnd
<1>2. /\ text \in Seq(Part) /\ k \in 1 .. Len(text) + 1 /\ out \in Seq(Nat)
      /\ \A n \in 1 .. k - 1 : ~Invalid(text[n])
      /\ Elems(out) = NamedBy(text, k - 1) /\ text = given
  BY <1>1 DEF ListInv, Parsing, FirstText
<1>3. k - 1 = Len(text)
  <2>1. PICK l \in Nat : l = Len(text)
    BY <1>2
  <2> QED BY <1>1, <1>2, <2>1
<1>4. ~Wrong(given)
  BY <1>2, <1>3 DEF Wrong, Invalid
<1>5. Parsed'
  BY <1>1, <1>2, <1>3, <1>4, NamedByAll DEF Parsed, Meant
<1>6. Writing' /\ Formatting'
  BY <1>1, KeepWritten DEF ListInv
<1>7. Callers' /\ RefusedIfWrong' /\ Parsing' /\ FirstText' /\ Again'
  BY <1>1, <1>4 DEF ListInv, Callers, RefusedIfWrong, Parsing, FirstText, Again
<1> QED BY <1>5, <1>6, <1>7 DEF ListInv
(* format_cpu_list begins with the vector sorted and without duplicates.   *)
LEMMA FormatBeginStep == ListInv /\ FormatBegin => ListInv'
<1> SUFFICES ASSUME ListInv, FormatBegin PROVE ListInv'
  OBVIOUS
<1>1. /\ pc = "format" /\ pc' = "runs"
      /\ cpus' = out /\ sorted' = SortDedup(out) /\ i' = 1 /\ j' = 1 /\ written' = <<>>
      /\ UNCHANGED <<caller, given, text, k, out>>
  BY DEF FormatBegin
<1>2. Sorted'
  <2>1. out \in Seq(Nat) /\ Elems(out) = Meant
    BY <1>1 DEF ListInv, Parsed
  <2> QED BY <1>1, <2>1, SortDedupIs DEF Sorted, Meant
<1>3. Run'
  <2>1. PICK l \in Nat : l = Len(sorted')
    BY <1>2 DEF Sorted
  <2>2. \A n \in 1 .. 1 : n <= l => sorted'[n] = sorted'[1] + (n - 1)
    <3>1. \A n \in 1 .. 1 : n <= l => n = 1 /\ n - 1 = 0 /\ 1 \in 1 .. l
      OBVIOUS
    <3>2. 1 \in 1 .. l => sorted'[1] + 0 = sorted'[1]
      BY <1>2, <2>1 DEF Sorted
    <3> QED BY <3>1, <3>2
  <2>3. Denoted(<<>>) = {} /\ DOMAIN <<>> = {}
    BY DEF Denoted
  <2>4. 1 \in 1 .. l + 1 /\ (1 <= l => 1 <= l) /\ 1 .. 1 - 1 = {}
    BY <2>1
  <2> QED BY <1>1, <2>1, <2>2, <2>3, <2>4 DEF Run
<1>4. Writing' /\ Formatting'
  <2>1. <<>> \in Seq(Part) /\ DOMAIN <<>> = {}
    OBVIOUS
  <2> QED BY <1>1, <1>2, <1>3, <2>1 DEF Writing, Formatting, Canonical
<1>5. Callers' /\ RefusedIfWrong' /\ Parsing' /\ FirstText' /\ Parsed' /\ Again'
  BY <1>1 DEF ListInv, Callers, RefusedIfWrong, Parsing, FirstText, Parsed, Again
<1> QED BY <1>4, <1>5 DEF ListInv

(* What a step of the loop leaves alone.                                   *)
LEMMA LoopFrame ==
  ASSUME ListInv, pc = "runs", pc' = "runs", UNCHANGED <<caller, given, text, k, out, cpus, sorted>>
  PROVE  /\ Callers' /\ RefusedIfWrong' /\ Parsing' /\ FirstText' /\ Parsed' /\ Again' /\ Sorted'
         /\ Run' /\ Writing' => ListInv'
<1>1. Callers' /\ RefusedIfWrong' /\ Parsing' /\ FirstText' /\ Parsed' /\ Again'
  BY DEF ListInv, Callers, RefusedIfWrong, Parsing, FirstText, Parsed, Again
<1>2. Sorted'
  BY DEF ListInv, Formatting, Sorted, Meant
<1> QED BY <1>1, <1>2 DEF ListInv, Formatting

(* The inner loop: the next CPU belongs to the run.                        *)
LEMMA ExtendRunStep == ListInv /\ ExtendRun => ListInv'
<1> SUFFICES ASSUME ListInv, ExtendRun PROVE ListInv'
  OBVIOUS
<1>1. /\ pc = "runs" /\ pc' = "runs" /\ j < Len(sorted) /\ sorted[j + 1] = sorted[j] + 1
      /\ j' = j + 1 /\ UNCHANGED <<caller, given, text, k, out, cpus, sorted, i, written>>
  BY DEF ExtendRun, Adjacent
<1>2. Sorted /\ Run /\ Writing
  BY <1>1 DEF ListInv, Formatting
<1>3. PICK l \in Nat, a \in Nat, b \in Nat :
             l = Len(sorted) /\ a = i /\ b = j /\ a <= b /\ b < l /\ a > 0
  <2>1. Len(sorted) \in Nat /\ i \in 1 .. Len(sorted) + 1 /\ j \in i .. Len(sorted) + 1
    BY <1>2 DEF Sorted, Run
  <2>2. i \in Nat /\ j \in Nat /\ i <= j /\ i > 0
    BY <2>1
  <2> QED BY <1>1, <2>1, <2>2
<1>4. \A n \in a .. b + 1 : n <= l => sorted[n] = sorted[a] + (n - a)
  <2> SUFFICES ASSUME NEW n \in a .. b + 1, n <= l PROVE sorted[n] = sorted[a] + (n - a)
    OBVIOUS
  <2>1. ASSUME NEW m \in a .. b PROVE sorted[m] = sorted[a] + (m - a)
    <3>1. m <= l
      BY <1>3
    <3> QED BY <1>2, <1>3, <3>1 DEF Run
  <2>2. CASE n = b + 1
    <3>1. sorted[a] \in Nat /\ sorted[b] = sorted[a] + (b - a)
      <4>1. a \in 1 .. l /\ b \in a .. b
        BY <1>3
      <4> QED BY <1>2, <1>3, <2>1, <4>1 DEF Sorted
    <3>2. sorted[b + 1] = sorted[b] + 1
      BY <1>1, <1>3
    <3>3. PICK x \in Nat : x = sorted[a]
      BY <3>1
    <3>4. sorted[b + 1] = (x + (b - a)) + 1
      BY <3>1, <3>2, <3>3
    <3>5. (x + (b - a)) + 1 = x + ((b + 1) - a)
      BY <1>3
    <3> QED BY <2>2, <3>3, <3>4, <3>5
  <2>3. CASE n # b + 1
    <3>1. n \in a .. b
      BY <2>3
    <3> QED BY <2>1, <3>1
  <2> QED BY <2>2, <2>3
<1>5. Run'
  <2>1. b + 1 \in a .. l + 1 /\ b + 1 <= l
    BY <1>3
  <2> QED BY <1>1, <1>2, <1>3, <1>4, <2>1 DEF Run
<1>6. Writing'
  BY <1>1, <1>2 DEF Writing
<1> QED BY <1>1, <1>5, <1>6, LoopFrame

(* The outer loop: the part written names the run, and the run could not   *)
(* have been longer.                                                       *)
LEMMA WriteRunStep == ListInv /\ WriteRun => ListInv'
<1> SUFFICES ASSUME ListInv, WriteRun PROVE ListInv'
  OBVIOUS
<1>1. /\ pc = "runs" /\ pc' = "runs" /\ i <= Len(sorted)
      /\ ~(j < Len(sorted) /\ sorted[j + 1] = sorted[j] + 1)
      /\ written' = Append(written, RunText) /\ i' = j + 1 /\ j' = j + 1
      /\ UNCHANGED <<caller, given, text, k, out, cpus, sorted>>
  BY DEF WriteRun, Adjacent
<1>2. Sorted /\ Run /\ Writing
  BY <1>1 DEF ListInv, Formatting
<1>3. PICK l \in Nat, a \in Nat, b \in Nat :
             l = Len(sorted) /\ a = i /\ b = j /\ a <= b /\ b <= l /\ a > 0
  <2>1. Len(sorted) \in Nat /\ i \in 1 .. Len(sorted) + 1 /\ j \in i .. Len(sorted) + 1
        /\ j <= Len(sorted)
    BY <1>1, <1>2 DEF Sorted, Run
  <2>2. i \in Nat /\ j \in Nat /\ i <= j /\ i > 0
    BY <2>1
  <2> QED BY <2>1, <2>2
<1>4. PICK lo \in Nat, hi \in Nat : lo = sorted[a] /\ hi = sorted[b] /\ hi = lo + (b - a)
  <2>1. a \in 1 .. l /\ b \in 1 .. l /\ b \in a .. b
    BY <1>3
  <2>2. sorted[a] \in Nat /\ sorted[b] \in Nat
    BY <1>2, <1>3, <2>1 DEF Sorted
  <2>3. sorted[b] = sorted[a] + (b - a)
    BY <1>2, <1>3, <2>1 DEF Run
  <2> QED BY <2>2, <2>3
<1>5. ASSUME NEW n \in a .. b PROVE n \in 1 .. l /\ sorted[n] = lo + (n - a)
  <2>1. n \in 1 .. l /\ n <= l
    BY <1>3
  <2> QED BY <1>2, <1>3, <1>4, <2>1 DEF Run
<1> DEFINE r == RunText
<1>6. r = IF a = b THEN <<lo>> ELSE <<lo, hi>>
  BY <1>3, <1>4 DEF RunText
<1>7. RunOf(r) /\ r[1] = lo /\ r[Len(r)] = hi /\ (Len(r) = 2 => r[1] < r[2]) /\ Names(r) = lo .. hi
  <2>1. CASE a = b
    <3>1. r = <<lo>> /\ hi = lo
      BY <1>4, <1>6, <2>1
    <3>2. r \in Seq(Nat) /\ Len(r) = 1 /\ r[1] = lo /\ lo # -1 /\ {lo} = lo .. lo
      BY <3>1
    <3>3. ~Invalid(r)
      BY <3>1, <3>2 DEF Invalid, Garbage
    <3> QED BY <3>1, <3>2, <3>3 DEF RunOf, Names
  <2>2. CASE a # b
    <3>1. r = <<lo, hi>> /\ lo < hi
      BY <1>3, <1>4, <1>6, <2>2
    <3>2. r \in Seq(Nat) /\ Len(r) = 2 /\ r[1] = lo /\ r[2] = hi /\ ~(hi < lo)
      BY <3>1
    <3>3. ~Invalid(r)
      BY <3>1, <3>2 DEF Invalid, Garbage
    <3> QED BY <3>1, <3>2, <3>3 DEF RunOf, Names
  <2> QED BY <2>1, <2>2
<1> HIDE DEF r
<1>8. lo .. hi = {sorted[n] : n \in a .. b}
  <2>1. ASSUME NEW x \in lo .. hi PROVE \E n \in a .. b : x = sorted[n]
    <3>1. a + (x - lo) \in a .. b /\ lo + ((a + (x - lo)) - a) = x
      BY <1>3, <1>4
    <3> QED BY <1>5, <3>1
  <2>2. ASSUME NEW n \in a .. b PROVE sorted[n] \in lo .. hi
    <3>1. lo + (n - a) \in lo .. hi
      BY <1>3, <1>4
    <3> QED BY <1>5, <3>1
  <2> QED BY <2>1, <2>2
<1>9. PICK w \in Nat : w = Len(written)
  BY <1>2 DEF Writing
<1>10. /\ written' \in Seq(Part) /\ DOMAIN written' = 1 .. w + 1 /\ DOMAIN written = 1 .. w
       /\ \A n \in 1 .. w : written'[n] = written[n]
       /\ written'[w + 1] = r
  <2>1. r \in Part /\ written \in Seq(Part)
    BY <1>2, <1>7 DEF RunOf, Part, Writing
  <2> QED BY <1>1, <1>9, <2>1 DEF r
<1>11. ASSUME NEW n \in 1 .. w + 1 PROVE n \in 1 .. w \/ n = w + 1
  OBVIOUS
<1>12. ASSUME NEW n \in 1 .. w
       PROVE  /\ RunOf(written[n]) /\ written[n][Len(written[n])] \in Nat
              /\ written[n][Len(written[n])] + 1 < lo
  <2>1. RunOf(written[n])
    BY <1>2, <1>10 DEF Writing
  <2>2. written[n][Len(written[n])] \in Nat
    BY <2>1, RunIs
  <2>3. written[n][Len(written[n])] + 1 < lo
    BY <1>1, <1>2, <1>3, <1>4, <1>10 DEF Run
  <2> QED BY <2>1, <2>2, <2>3
<1>13. Writing'
  <2>1. \A n \in DOMAIN written' : RunOf(written'[n])
    BY <1>7, <1>10, <1>11, <1>12
  <2>2. ASSUME NEW n \in 1 .. w + 1
        PROVE  /\ Len(written'[n]) = 2 => written'[n][1] < written'[n][2]
               /\ n > 1 => written'[n - 1][Len(written'[n - 1])] + 1 < written'[n][1]
    <3>1. CASE n = w + 1
      <4>1. n > 1 => n - 1 \in 1 .. w
        BY <3>1
      <4> QED BY <1>7, <1>10, <1>12, <3>1, <4>1
    <3>2. CASE n \in 1 .. w
      <4>1. n > 1 => n - 1 \in 1 .. w
        BY <3>2
      <4> QED BY <1>2, <1>10, <3>2, <4>1 DEF Writing, Canonical
    <3> QED BY <1>11, <3>1, <3>2
  <2> QED BY <1>10, <2>1, <2>2 DEF Writing, Canonical
<1>14. Denoted(written') = {sorted[n] : n \in 1 .. b}
  <2>1. Denoted(written') = Denoted(written) \cup Names(r)
    BY <1>10, <1>11 DEF Denoted
  <2>2. Denoted(written) = {sorted[n] : n \in 1 .. a - 1}
    BY <1>2, <1>3 DEF Run
  <2>3. \A n : n \in 1 .. b <=> n \in 1 .. a - 1 \/ n \in a .. b
    BY <1>3
  <2> QED BY <1>7, <1>8, <2>1, <2>2, <2>3, SMTT(30)
<1>15. ASSUME b + 1 <= l, NEW n \in 1 .. w + 1
       PROVE  written'[n][Len(written'[n])] + 1 < sorted[b + 1]
  <2>1. b \in 1 .. l /\ b + 1 \in 1 .. l /\ b < b + 1 /\ b < l
    BY <1>3, <1>15
  <2>2. PICK x \in Nat : x = sorted[b + 1]
    BY <1>2, <1>3, <2>1 DEF Sorted
  <2>3. hi < x
    <3>1. DOMAIN sorted = 1 .. l
      BY <1>2, <1>3 DEF Sorted
    <3>2. sorted[b] < sorted[b + 1]
      BY <1>2, <2>1, <3>1 DEF Sorted, Ascending
    <3> QED BY <1>4, <2>2, <3>2
  <2>4. x # hi + 1
    BY <1>1, <1>3, <1>4, <2>1, <2>2
  <2>5. hi + 1 < x /\ lo <= hi
    BY <1>3, <1>4, <2>2, <2>3, <2>4
  <2>6. CASE n = w + 1
    BY <1>7, <1>10, <2>2, <2>5, <2>6
  <2>7. CASE n \in 1 .. w
    <3>1. PICK y \in Nat : y = written[n][Len(written[n])] /\ y + 1 < lo
      BY <1>12, <2>7
    <3>2. y + 1 < x
      BY <2>5, <3>1
    <3> QED BY <1>10, <2>2, <2>7, <3>1, <3>2
  <2> QED BY <1>11, <2>6, <2>7
<1>16. Run'
  <2>1. /\ b + 1 \in 1 .. l + 1 /\ b + 1 \in b + 1 .. l + 1 /\ (b + 1) - 1 = b
        /\ \A n \in b + 1 .. b + 1 : n = b + 1 /\ n - (b + 1) = 0
    BY <1>3
  <2>2. b + 1 <= l => sorted[b + 1] + 0 = sorted[b + 1]
    <3>1. b + 1 <= l => b + 1 \in 1 .. l
      BY <1>3
    <3>2. b + 1 <= l => sorted[b + 1] \in Nat
      BY <1>2, <1>3, <3>1 DEF Sorted
    <3> QED BY <3>2
  <2>3. \A n \in b + 1 .. b + 1 : n <= l => sorted[n] = sorted[b + 1] + (n - (b + 1))
    BY <2>1, <2>2
  <2>4. i' = b + 1 /\ j' = b + 1 /\ Len(sorted') = l /\ sorted' = sorted
    BY <1>1, <1>3
  <2> QED BY <1>10, <1>14, <1>15, <2>1, <2>3, <2>4 DEF Run
<1> QED BY <1>1, <1>13, <1>16, LoopFrame

(* The text is complete: it names all CPUs of the vector.                  *)
LEMMA FormatEndStep == ListInv /\ FormatEnd => ListInv'
<1> SUFFICES ASSUME ListInv, FormatEnd PROVE ListInv'
  OBVIOUS
<1>1. /\ pc = "runs" /\ i > Len(sorted) /\ pc' = "again" /\ text' = written /\ k' = 1
      /\ out' = <<>> /\ UNCHANGED <<caller, given, cpus, sorted, i, j, written>>
  BY DEF FormatEnd
<1>2. Sorted /\ Run /\ Writing
  BY <1>1 DEF ListInv, Formatting
<1>3. i = Len(sorted) + 1
  <2>1. PICK l \in Nat : l = Len(sorted)
    BY <1>2 DEF Sorted
  <2>2. i \in 1 .. l + 1
    BY <1>2, <2>1 DEF Run
  <2> QED BY <1>1, <2>1, <2>2
<1>4. Writing'
  BY <1>1, <1>2 DEF Writing
<1>5. Formatting'
  <2>1. Sorted'
    BY <1>1, <1>2 DEF Sorted, Meant
  <2>2. Run'
    BY <1>1, <1>2 DEF Run
  <2> QED BY <1>1, <1>3, <2>1, <2>2 DEF Formatting
<1>6. Elems(<<>>) = {} /\ <<>> \in Seq(Nat) /\ Ascending(<<>>)
  BY DEF Elems, Ascending
<1>7. Parsing'
  <2>1. written \in Seq(Part) /\ Len(written) \in Nat
    BY <1>2 DEF Writing
  <2>2. 1 \in 1 .. Len(written) + 1 /\ 1 - 1 = 0 /\ 1 .. 0 = {}
    BY <2>1
  <2>3. NamedBy(written, 0) = {}
    BY <2>2 DEF NamedBy
  <2> QED BY <1>1, <1>6, <2>1, <2>2, <2>3 DEF Parsing
<1>8. Again'
  BY <1>1, <1>6 DEF Again
<1>9. Callers' /\ RefusedIfWrong' /\ FirstText' /\ Parsed'
  BY <1>1 DEF ListInv, Callers, RefusedIfWrong, FirstText, Parsed
<1> QED BY <1>4, <1>5, <1>7, <1>8, <1>9 DEF ListInv

(* A complete text names the CPUs the report has to name.                  *)
LEMMA WrittenMeans ==
  ASSUME ListInv, pc \in {"again", "done"}
  PROVE  Denoted(written) = Elems(sorted) /\ Elems(sorted) = Meant
<1>1. Sorted /\ Run /\ i = Len(sorted) + 1
  BY DEF ListInv, Formatting
<1>2. i - 1 = Len(sorted) /\ DOMAIN sorted = 1 .. Len(sorted)
  BY <1>1 DEF Sorted
<1> QED BY <1>1, <1>2 DEF Sorted, Run, Elems

(* The text parsed again gives the vector it was written from.             *)
LEMMA AgainEndStep == ListInv /\ AgainEnd => ListInv'
<1> SUFFICES ASSUME ListInv, AgainEnd PROVE ListInv'
  OBVIOUS
<1>1. /\ pc = "again" /\ k > Len(text) /\ pc' = "done"
      /\ UNCHANGED <<caller, given, text, k, out, cpus, sorted, i, j, written>>
  BY DEF AgainEnd
<1>2. /\ text \in Seq(Part) /\ k \in 1 .. Len(text) + 1 /\ out \in Seq(Nat)
      /\ Elems(out) = NamedBy(text, k - 1) /\ text = written /\ Ascending(out) /\ Sorted
  BY <1>1 DEF ListInv, Parsing, Again, Formatting
<1>3. k - 1 = Len(text)
  <2>1. PICK l \in Nat : l = Len(text)
    BY <1>2
  <2> QED BY <1>1, <1>2, <2>1
<1>4. Elems(out) = Elems(sorted)
  BY <1>1, <1>2, <1>3, NamedByAll, WrittenMeans
<1>5. out = sorted
  BY <1>2, <1>4, AscendingIsUnique DEF Sorted
<1>6. Writing' /\ Formatting'
  BY <1>1, KeepWritten DEF ListInv
<1>7. Callers' /\ RefusedIfWrong' /\ FirstText' /\ Parsed' /\ Parsing' /\ Again'
  BY <1>1, <1>5 DEF ListInv, Callers, RefusedIfWrong, FirstText, Parsed, Parsing, Again
<1> QED BY <1>6, <1>7 DEF ListInv

-----------------------------------------------------------------------------
(* CPU lists: the theorems.                                                *)

(* The inductive invariant, for every text an option or a file can hold:   *)
(* what parse_cpu_list and format_cpu_list have done so far.               *)
THEOREM ListInvariant == Spec => []ListInv
<1>1. Init => ListInv
  <2> SUFFICES ASSUME Init PROVE ListInv
    OBVIOUS
  <2>1. /\ pc = "parse" /\ text = given /\ k = 1 /\ out = <<>> /\ written = <<>>
        /\ given \in Seq(Part) /\ given \in Texts /\ caller \in {"arg", "sys"}
    BY TextsAssumption DEF Init
  <2>2. 1 \in 1 .. Len(given) + 1 /\ 1 - 1 = 0 /\ 1 .. 0 = {}
    <3>1. Len(given) \in Nat
      BY <2>1
    <3> QED BY <3>1
  <2>3. NamedBy(given, 0) = {} /\ Elems(<<>>) = {} /\ <<>> \in Seq(Nat) /\ <<>> \in Seq(Part)
    BY <2>2 DEF NamedBy, Elems
  <2>4. Parsing
    BY <2>1, <2>2, <2>3 DEF Parsing
  <2>5. Writing
    BY <2>1, <2>3 DEF Writing, Canonical
  <2> QED BY <2>1, <2>4, <2>5
          DEF ListInv, Callers, FirstText, Parsed, Formatting, Again, RefusedIfWrong
<1>2. ListInv /\ [Next]_vars => ListInv'
  <2>1. ListInv /\ UNCHANGED vars => ListInv'
    <3> SUFFICES ASSUME ListInv, UNCHANGED vars PROVE ListInv'
      OBVIOUS
    <3>1. UNCHANGED <<caller, given, pc, text, k, out, cpus, sorted, i, j, written>>
      BY DEF vars
    <3>2. Writing' /\ Formatting'
      BY <3>1, KeepWritten DEF ListInv
    <3> QED BY <3>1, <3>2
            DEF ListInv, Callers, Parsing, FirstText, Parsed, Meant, Again, RefusedIfWrong
  <2> QED BY <2>1, ParsePartStep, ParseErrorStep, ParseEndStep, FormatBeginStep, ExtendRunStep,
             WriteRunStep, FormatEndStep, AgainEndStep DEF Next
<1> QED BY <1>1, <1>2, PTL DEF Spec

(* A list is refused exactly when a part of it is wrong and a user gave    *)
(* it, and no text that format_cpu_list wrote is refused (cpu.rs:6).       *)
THEOREM WrongIsRefused == Spec => []RefusedIfWrong
<1>1. ListInv => RefusedIfWrong
  BY DEF ListInv
<1> QED BY <1>1, ListInvariant, PTL

(***************************************************************************)
(* For every text: what format_cpu_list writes is canonical, names the     *)
(* CPUs the run was given (cpu.rs:64), and parsing it gives these again,   *)
(* a list in ascending order without duplicates as it was.                 *)
(***************************************************************************)
THEOREM ReportsNameTheCpus == Spec => []ReportNamesTheCpus
<1>1. ListInv => ReportNamesTheCpus
  <2> SUFFICES ASSUME ListInv PROVE ReportNamesTheCpus
    OBVIOUS
  <2>1. Canonical(written)
    BY DEF ListInv, Writing
  <2>2. pc \in {"again", "done"} => Denoted(written) = Meant
    BY WrittenMeans
  <2>3. ASSUME pc = "done" PROVE Elems(out) = Elems(cpus) /\ (Ascending(cpus) => out = cpus)
    <3>1. out = sorted /\ Sorted
      BY <2>3 DEF ListInv, Again, Formatting
    <3> QED BY <3>1, AscendingIsUnique DEF Sorted
  <2> QED BY <2>1, <2>2, <2>3 DEF ReportNamesTheCpus, Meant
<1> QED BY <1>1, ListInvariant, PTL
-----------------------------------------------------------------------------
(* The histogram: its invariant.                                           *)

(* The counters are numbers; no value was recorded more often than all.    *)
HistTypes ==
  /\ buckets \in [Buckets -> Nat] /\ samples \in [Latencies -> Nat]
  /\ min_ns \in Nat /\ max_ns \in Nat /\ sum_ns \in Nat /\ count \in Nat
  /\ count <= MaxCount /\ \A x \in Latencies : samples[x] <= count

(* The samples of one bucket, and of the buckets up to one.                *)
InBucket(b) == {s \in Samples : BucketOf(s[1]) = b}
UpTo(b) == {s \in Samples : BucketOf(s[1]) <= b}

(* Every sample is counted once, in its bucket.                            *)
Counted ==
  /\ IsFiniteSet(Samples) /\ count = Cardinality(Samples)
  /\ \A b \in Buckets : buckets[b] = Cardinality(InBucket(b))

(* The extremes are samples, and the sum lies between multiples of them.   *)
Extremes ==
  /\ count > 0 => /\ min_ns \in Latencies /\ samples[min_ns] > 0
                  /\ max_ns \in Latencies /\ samples[max_ns] > 0
  /\ count = 0 => min_ns = Bounds[LastBucket] /\ max_ns = 0 /\ sum_ns = 0
  /\ \A x \in Latencies : samples[x] > 0 => min_ns <= x /\ x <= max_ns
  /\ count * min_ns <= sum_ns \/ count = 0
  /\ sum_ns <= count * max_ns

(* The inductive invariant of the histogram.                               *)
HistInv == HistTypes /\ Counted /\ Extremes

-----------------------------------------------------------------------------
(* Buckets and samples.                                                    *)

(* The bounds, as numbers.                                                 *)
LEMMA BoundsAre ==
  /\ LastBucket \in Nat \ {0} /\ Buckets = 1 .. LastBucket /\ LastBucket \in Buckets
  /\ \A b \in Buckets : Bounds[b] \in Nat
  /\ \A b, c \in Buckets : b <= c => Bounds[b] <= Bounds[c]
  /\ \A x \in Latencies : x \in Nat /\ x <= Bounds[LastBucket]
<1>1. Bounds \in Seq(Nat) /\ LastBucket = Len(Bounds) /\ Len(Bounds) > 0
  BY BoundsAssumption DEF LastBucket
<1>2. LastBucket \in Nat \ {0} /\ Buckets = 1 .. LastBucket
  BY <1>1 DEF Buckets
<1>3. LastBucket \in Buckets
  BY <1>2
<1>4. \A b \in Buckets : Bounds[b] \in Nat
  BY <1>1 DEF Buckets
<1>5. ASSUME NEW b \in Buckets, NEW c \in Buckets, b <= c PROVE Bounds[b] <= Bounds[c]
  <2>1. CASE b = c
    BY <1>4, <2>1
  <2>2. CASE b # c
    <3>1. b < c
      BY <1>2, <1>5, <2>2
    <3>2. Bounds[b] < Bounds[c]
      BY <3>1, BoundsAssumption
    <3> QED BY <1>4, <3>2
  <2> QED BY <2>1, <2>2
<1>6. ASSUME NEW x \in Latencies PROVE x \in Nat /\ x <= Bounds[LastBucket]
  <2>1. PICK u \in Nat : u = Bounds[LastBucket]
    BY <1>3, <1>4
  <2>2. x \in 0 .. u
    BY <2>1, BoundsAssumption
  <2> QED BY <2>1, <2>2
<1> QED BY <1>2, <1>3, <1>4, <1>5, <1>6

(* The bucket of a sample: the buckets from there on have bounds that are  *)
(* not below it.                                                           *)
LEMMA BucketOfIs ==
  ASSUME NEW x \in Latencies
  PROVE  /\ BucketOf(x) \in Buckets
         /\ \A b \in Buckets : BucketOf(x) <= b <=> x <= Bounds[b]
<1> DEFINE S == {b \in Buckets : x <= Bounds[b]}
           Is(b) == x <= Bounds[b] /\ \A c \in Buckets : c < b => Bounds[c] < x
<1>0. \A b \in Buckets : b \in Nat
  BY BoundsAre
<1>1. S # {} /\ S \subseteq Nat
  BY <1>0, BoundsAre
<1>2. PICK m \in S : \A b \in S : m <= b
  BY <1>1, LeastElement
<1>3. m \in Buckets /\ Is(m)
  <2>1. ASSUME NEW c \in Buckets, c < m PROVE Bounds[c] < x
    <3>1. c \notin S
      BY <1>0, <1>2, <2>1
    <3>2. ~(x <= Bounds[c]) /\ x \in Nat /\ Bounds[c] \in Nat
      BY <3>1, BoundsAre
    <3> QED BY <3>2
  <2> QED BY <2>1
<1>4. \E b \in Buckets : Is(b)
  BY <1>3
<1>5. BucketOf(x) \in Buckets /\ Is(BucketOf(x))
  <2> HIDE DEF Is
  <2>1. BucketOf(x) = CHOOSE b \in Buckets : Is(b)
    BY DEF BucketOf, Is
  <2> QED BY <1>4, <2>1
<1>6. ASSUME NEW b \in Buckets PROVE BucketOf(x) <= b <=> x <= Bounds[b]
  <2>1. PICK u \in Nat, v \in Nat, d \in Nat :
             u = Bounds[BucketOf(x)] /\ v = Bounds[b] /\ d = BucketOf(x)
    BY <1>0, <1>5, BoundsAre
  <2>2. x \in Nat /\ b \in Nat /\ x <= u
    BY <1>0, <1>5, <2>1, BoundsAre
  <2>3. d <= b => u <= v
    BY <1>5, <2>1, BoundsAre
  <2>4. b < d => v < x
    BY <1>5, <2>1
  <2>5. d <= b <=> x <= v
    BY <2>2, <2>3, <2>4
  <2> QED BY <2>1, <2>5
<1> QED BY <1>5, <1>6

(* One more sample in a set of them.                                       *)
LEMMA SamplesGrow ==
  ASSUME HistTypes, NEW x \in Latencies, record(x)
  PROVE  /\ samples[x] + 1 \in 1 .. MaxCount /\ <<x, samples[x] + 1>> \notin Samples
         /\ Samples' = Samples \cup {<<x, samples[x] + 1>>}
         /\ samples' \in [Latencies -> Nat] /\ samples'[x] = samples[x] + 1
         /\ \A y \in Latencies : y # x => samples'[y] = samples[y]
<1>1. PICK n \in Nat : n = samples[x] /\ n <= count
  BY DEF HistTypes
<1>2. /\ count < MaxCount /\ samples' = [samples EXCEPT ![x] = @ + 1]
      /\ count \in Nat /\ MaxCount \in Nat
  BY BoundsAssumption DEF record, HistTypes
<1>3. n + 1 \in 1 .. MaxCount /\ ~(n + 1 <= n)
  BY <1>1, <1>2
<1>4. samples' \in [Latencies -> Nat] /\ samples'[x] = n + 1
  BY <1>1, <1>2 DEF HistTypes
<1>5. \A y \in Latencies : y # x => samples'[y] = samples[y]
  BY <1>2 DEF HistTypes
<1>6. <<x, n + 1>> \notin Samples
  BY <1>1, <1>3 DEF Samples
<1>7. ASSUME NEW y \in Latencies, NEW m \in 1 .. MaxCount
      PROVE  m <= samples'[y] <=> m <= samples[y] \/ (y = x /\ m = n + 1)
  <2>1. CASE y = x
    <3>1. m <= n + 1 <=> m <= n \/ m = n + 1
      OBVIOUS
    <3> QED BY <1>1, <1>4, <2>1, <3>1
  <2>2. CASE y # x
    BY <1>5, <2>2
  <2> QED BY <2>1, <2>2
<1>8. Samples' = Samples \cup {<<x, n + 1>>}
  BY <1>3, <1>7 DEF Samples
<1> QED BY <1>1, <1>3, <1>4, <1>5, <1>6, <1>8

(* A larger factor, a larger product.                                      *)
LEMMA Multiples ==
  ASSUME NEW n \in Nat, NEW a \in Nat, NEW b \in Nat, a <= b
  PROVE  n * a <= n * b /\ (n + 1) * a = n * a + a /\ n * a \in Nat
<1>1. PICK d \in Nat : b = a + d
  <2>1. b - a \in Nat /\ b = a + (b - a)
    OBVIOUS
  <2> QED BY <2>1
<1>2. n * b = n * a + n * d /\ n * d \in Nat /\ n * a \in Nat
  BY <1>1
<1> QED BY <1>2

(* A mean lies between the bounds of what it is a mean of.                 *)
LEMMA MeanBetween ==
  ASSUME NEW n \in Nat, n > 0, NEW total \in Nat, NEW lo \in Nat, NEW hi \in Nat,
         n * lo <= total, total <= n * hi
  PROVE  lo <= total \div n /\ total \div n <= hi
<1> DEFINE mean == total \div n
<1>1. mean \in Nat /\ n * mean <= total /\ total < n * mean + n
  OBVIOUS
<1> HIDE DEF mean
<1>2. lo <= mean
  <2> SUFFICES ASSUME mean + 1 <= lo PROVE FALSE
    BY <1>1
  <2>1. n * (mean + 1) <= n * lo /\ n * (mean + 1) = n * mean + n
    BY <1>1, Multiples
  <2>2. n * mean \in Nat /\ n * lo \in Nat
    BY <1>1
  <2> QED BY <1>1, <2>1, <2>2
<1>3. mean <= hi
  <2> SUFFICES ASSUME hi + 1 <= mean PROVE FALSE
    BY <1>1
  <2>1. n * (hi + 1) <= n * mean /\ n * (hi + 1) = n * hi + n
    BY <1>1, Multiples
  <2>2. n * mean \in Nat /\ n * hi \in Nat
    BY <1>1
  <2> QED BY <1>1, <2>1, <2>2
<1> QED BY <1>2, <1>3 DEF mean
-----------------------------------------------------------------------------
(* The histogram: its steps.                                               *)

(* A histogram that is new or has been reset.                              *)
LEMMA EmptyInv == HistInit => HistInv
<1> SUFFICES ASSUME HistInit PROVE HistInv
  OBVIOUS
<1> USE DEF HistInit
<1>1. HistTypes
  BY BoundsAre, BoundsAssumption DEF HistTypes
<1>2. Samples = {}
  <2>1. \A m \in 1 .. MaxCount : ~(m <= 0)
    BY BoundsAssumption
  <2> QED BY <2>1 DEF Samples
<1>3. Counted
  <2>1. \A b \in Buckets : InBucket(b) = {}
    BY <1>2 DEF InBucket
  <2> QED BY <1>2, <2>1, FS_EmptySet DEF Counted
<1>4. Extremes
  <2>1. count * min_ns = 0 /\ count * max_ns = 0
    BY <1>1 DEF HistTypes
  <2> QED BY <2>1 DEF Extremes
<1> QED BY <1>1, <1>3, <1>4 DEF HistInv

(* record: the sample is one more in its bucket, in count and in sum, and  *)
(* moves the extremes.                                                     *)
LEMMA RecordStep ==
  ASSUME HistInv, NEW x \in Latencies, record(x)
  PROVE  HistInv'
<1>1. HistTypes /\ Counted /\ Extremes /\ x \in Nat
  BY BoundsAre DEF HistInv
<1>2. /\ samples[x] + 1 \in 1 .. MaxCount /\ <<x, samples[x] + 1>> \notin Samples
      /\ Samples' = Samples \cup {<<x, samples[x] + 1>>}
      /\ samples' \in [Latencies -> Nat] /\ samples'[x] = samples[x] + 1
      /\ \A y \in Latencies : y # x => samples'[y] = samples[y]
  BY <1>1, SamplesGrow
<1>3. /\ count < MaxCount /\ buckets' = [buckets EXCEPT ![BucketOf(x)] = @ + 1]
      /\ min_ns' = (IF x < min_ns THEN x ELSE min_ns)
      /\ max_ns' = (IF x > max_ns THEN x ELSE max_ns)
      /\ sum_ns' = sum_ns + x /\ count' = count + 1
  BY DEF record
<1>4. PICK n \in Nat, lo \in Nat, hi \in Nat, total \in Nat :
           n = count /\ lo = min_ns /\ hi = max_ns /\ total = sum_ns
  BY <1>1 DEF HistTypes
<1>5. HistTypes'
  <2>1. buckets' \in [Buckets -> Nat]
    BY <1>1, <1>3, BucketOfIs DEF HistTypes
  <2>2. ASSUME NEW y \in Latencies PROVE samples'[y] <= n + 1
    <3>1. PICK m \in Nat : m = samples[y] /\ m <= n
      BY <1>1, <1>4 DEF HistTypes
    <3>2. m + 1 <= n + 1 /\ m <= n + 1
      BY <3>1
    <3> QED BY <1>2, <3>1, <3>2
  <2>3. n + 1 \in Nat /\ n + 1 <= MaxCount /\ total + x \in Nat
    BY <1>1, <1>3, <1>4, BoundsAssumption
  <2> QED BY <1>1, <1>2, <1>3, <1>4, <2>1, <2>2, <2>3 DEF HistTypes
<1>6. Counted'
  <2> DEFINE new == <<x, samples[x] + 1>>
  <2>1. IsFiniteSet(Samples') /\ count' = Cardinality(Samples')
    BY <1>1, <1>2, <1>3, FS_AddElement DEF Counted
  <2>2. ASSUME NEW b \in Buckets PROVE buckets'[b] = Cardinality(InBucket(b)')
    <3>1. InBucket(b) \in SUBSET Samples
      BY DEF InBucket
    <3>2. IsFiniteSet(InBucket(b)) /\ buckets[b] = Cardinality(InBucket(b))
      BY <1>1, <3>1, FS_Subset DEF Counted
    <3>3. CASE b = BucketOf(x)
      <4>1. InBucket(b)' = InBucket(b) \cup {new} /\ new \notin InBucket(b)
        BY <1>2, <3>3 DEF InBucket
      <4>2. buckets'[b] = buckets[b] + 1
        BY <1>1, <1>3, <3>3 DEF HistTypes
      <4> QED BY <3>2, <4>1, <4>2, FS_AddElement
    <3>4. CASE b # BucketOf(x)
      <4>1. InBucket(b)' = InBucket(b)
        BY <1>2, <3>4 DEF InBucket
      <4>2. buckets'[b] = buckets[b]
        BY <1>1, <1>3, <3>4 DEF HistTypes
      <4> QED BY <3>2, <4>1, <4>2
    <3> QED BY <3>3, <3>4
  <2> QED BY <2>1, <2>2 DEF Counted
<1>7. Extremes'
  <2>1. PICK lo2 \in Nat, hi2 \in Nat : lo2 = min_ns' /\ hi2 = max_ns'
    BY <1>5 DEF HistTypes
  <2>2. lo2 = (IF x < lo THEN x ELSE lo) /\ hi2 = (IF x > hi THEN x ELSE hi)
    BY <1>3, <1>4, <2>1
  <2>3. lo2 <= x /\ lo2 <= lo /\ x <= hi2 /\ hi <= hi2 /\ lo2 \in {x, lo} /\ hi2 \in {x, hi}
    BY <1>1, <2>2
  <2>4. n = 0 => lo2 = x /\ hi2 = x
    <3>1. n = 0 => x <= lo /\ hi = 0
      BY <1>1, <1>4, BoundsAre DEF Extremes
    <3> QED BY <1>1, <2>2, <3>1
  <2>5. samples'[x] > 0 /\ \A y \in Latencies : samples[y] > 0 => samples'[y] > 0
    <3>1. samples[x] \in Nat
      BY <1>1 DEF HistTypes
    <3>2. samples[x] + 1 > 0
      BY <3>1
    <3> QED BY <1>2, <3>2
  <2>6. /\ min_ns' \in Latencies /\ samples'[min_ns'] > 0
        /\ max_ns' \in Latencies /\ samples'[max_ns'] > 0
    <3>1. n > 0 => lo \in Latencies /\ samples[lo] > 0 /\ hi \in Latencies /\ samples[hi] > 0
      BY <1>1, <1>4 DEF Extremes
    <3> QED BY <2>1, <2>3, <2>4, <2>5, <3>1
  <2>7. ASSUME NEW y \in Latencies, samples'[y] > 0 PROVE lo2 <= y /\ y <= hi2
    <3>1. CASE y = x
      BY <2>3, <3>1
    <3>2. CASE y # x
      <4>1. lo <= y /\ y <= hi
        BY <1>1, <1>2, <1>4, <2>7, <3>2 DEF Extremes
      <4>2. y \in Nat
        BY BoundsAre
      <4> QED BY <2>3, <4>1, <4>2
    <3> QED BY <3>1, <3>2
  <2>8. (n + 1) * lo2 <= total + x
    <3>1. n * lo2 <= total
      <4>1. CASE n = 0
        BY <4>1
      <4>2. CASE n # 0
        <5>1. n * lo <= total
          BY <1>1, <1>4, <4>2 DEF Extremes
        <5>2. n * lo2 <= n * lo /\ n * lo2 \in Nat /\ n * lo \in Nat
          BY <2>3, Multiples
        <5> QED BY <5>1, <5>2
      <4> QED BY <4>1, <4>2
    <3>2. (n + 1) * lo2 = n * lo2 + lo2 /\ n * lo2 \in Nat
      BY Multiples
    <3> QED BY <1>1, <2>3, <3>1, <3>2
  <2>9. total + x <= (n + 1) * hi2
    <3>1. total <= n * hi
      BY <1>1, <1>4 DEF Extremes
    <3>2. n * hi <= n * hi2 /\ (n + 1) * hi2 = n * hi2 + hi2 /\ n * hi \in Nat /\ n * hi2 \in Nat
      BY <2>3, Multiples
    <3> QED BY <1>1, <2>3, <3>1, <3>2
  <2>10. count' = n + 1 /\ sum_ns' = total + x /\ n + 1 # 0
    BY <1>3, <1>4
  <2> QED BY <2>1, <2>6, <2>7, <2>8, <2>9, <2>10 DEF Extremes
<1> QED BY <1>5, <1>6, <1>7 DEF HistInv

(***************************************************************************)
(* The inductive invariant of the histogram, for every list of bounds and  *)
(* number of samples: each sample is counted once, in the bucket of its    *)
(* value, the extremes are samples and bound the sum.                      *)
(***************************************************************************)
THEOREM HistInvariant == HistSpec => []HistInv
<1>1. HistInit' => HistInv'
  BY EmptyInv, PTL
<1>2. HistInv /\ [HistNext]_histVars => HistInv'
  <2> SUFFICES ASSUME HistInv, [HistNext]_histVars PROVE HistInv'
    OBVIOUS
  <2>1. CASE reset
    BY <1>1, <2>1 DEF reset, HistInit
  <2>2. ASSUME NEW x \in Latencies, record(x) PROVE HistInv'
    BY <2>2, RecordStep
  <2>3. CASE UNCHANGED histVars
    BY <2>3 DEF histVars, HistInv, HistTypes, Counted, Extremes, InBucket, Samples
  <2> QED BY <2>1, <2>2, <2>3 DEF HistNext
<1> QED BY <1>2, EmptyInv, PTL DEF HistSpec
-----------------------------------------------------------------------------
(* The histogram: what quantile and summary return.                        *)

(* The samples up to a bucket are those up to its bound.                   *)
LEMMA UpToIs ==
  ASSUME HistInv
  PROVE  /\ \A b \in Buckets : UpTo(b) = {s \in Samples : s[1] <= Bounds[b]}
         /\ UpTo(0) = {} /\ UpTo(LastBucket) = Samples
         /\ \A n \in Nat : IsFiniteSet(UpTo(n)) /\ Cardinality(UpTo(n)) \in Nat
         /\ \A n \in 0 .. LastBucket - 1 :
               Cardinality(UpTo(n + 1)) = Cardinality(UpTo(n)) + buckets[n + 1]
<1>1. \A s \in Samples : s[1] \in Latencies /\ BucketOf(s[1]) \in Buckets
  BY BucketOfIs DEF Samples
<1>2. \A b \in Buckets : UpTo(b) = {s \in Samples : s[1] <= Bounds[b]}
  BY <1>1, BucketOfIs DEF UpTo
<1>3. LastBucket \in Nat /\ Buckets = 1 .. LastBucket
  BY BoundsAre
<1>4. UpTo(0) = {} /\ UpTo(LastBucket) = Samples
  <2>1. \A b \in Buckets : ~(b <= 0) /\ b <= LastBucket
    BY <1>3
  <2> QED BY <1>1, <2>1 DEF UpTo
<1>5. ASSUME NEW n \in Nat PROVE IsFiniteSet(UpTo(n)) /\ Cardinality(UpTo(n)) \in Nat
  <2>1. IsFiniteSet(Samples) /\ UpTo(n) \in SUBSET Samples
    BY DEF HistInv, Counted, UpTo
  <2>2. IsFiniteSet(UpTo(n))
    BY <2>1, FS_Subset
  <2> QED BY <2>2, FS_CardinalityType
<1>6. ASSUME NEW n \in 0 .. LastBucket - 1
      PROVE  Cardinality(UpTo(n + 1)) = Cardinality(UpTo(n)) + buckets[n + 1]
  <2>1. n \in Nat /\ n + 1 \in Buckets
    BY <1>3
  <2>2. IsFiniteSet(InBucket(n + 1)) /\ buckets[n + 1] = Cardinality(InBucket(n + 1))
    <3>1. IsFiniteSet(Samples) /\ InBucket(n + 1) \in SUBSET Samples
      BY DEF HistInv, Counted, InBucket
    <3> QED BY <2>1, <3>1, FS_Subset DEF HistInv, Counted
  <2>3. \A b \in Buckets : b <= n + 1 <=> b <= n \/ b = n + 1
    BY <1>3, <2>1
  <2>4. ~(n + 1 <= n)
    BY <2>1
  <2>5. UpTo(n + 1) = UpTo(n) \cup InBucket(n + 1)
    BY <1>1, <2>3 DEF UpTo, InBucket
  <2>6. UpTo(n) \cap InBucket(n + 1) = {}
    BY <2>4 DEF UpTo, InBucket
  <2>7. Cardinality(UpTo(n)) \in Nat /\ Cardinality(InBucket(n + 1)) \in Nat
    BY <1>5, <2>1, <2>2, FS_CardinalityType
  <2>8. Cardinality(UpTo(n + 1)) = Cardinality(UpTo(n)) + Cardinality(InBucket(n + 1)) - 0
    BY <1>5, <2>1, <2>2, <2>5, <2>6, FS_Union, FS_EmptySet
  <2> QED BY <2>2, <2>7, <2>8
<1> QED BY <1>2, <1>4, <1>5, <1>6

(* The running total after a bucket is the number of samples up to its     *)
(* bound.                                                                  *)
LEMMA CumIs ==
  ASSUME HistInv
  PROVE  \A n \in 0 .. LastBucket : cum[n] = Cardinality(UpTo(n))
<1> DEFINE Step(g, n) == IF n = 0 THEN 0 ELSE g[n - 1] + buckets[n]
           f == [n \in 0 .. LastBucket |-> Cardinality(UpTo(n))]
           S == {n \in Nat : n \in 0 .. LastBucket => cum[n] = f[n]}
<1>1. LastBucket \in Nat
  BY BoundsAre
<1>2. \A n \in 0 .. LastBucket : f[n] = Step(f, n)
  <2> SUFFICES ASSUME NEW n \in 0 .. LastBucket PROVE f[n] = Step(f, n)
    OBVIOUS
  <2>1. CASE n = 0
    BY <2>1, UpToIs, FS_EmptySet
  <2>2. CASE n # 0
    <3>1. n - 1 \in 0 .. LastBucket - 1 /\ n - 1 \in 0 .. LastBucket /\ (n - 1) + 1 = n
      BY <1>1, <2>2
    <3>2. Cardinality(UpTo(n)) = Cardinality(UpTo(n - 1)) + buckets[n]
      BY <3>1, UpToIs
    <3> QED BY <2>2, <3>1, <3>2
  <2> QED BY <2>1, <2>2
<1>3. DOMAIN f = 0 .. LastBucket
  OBVIOUS
<1>4. f = [n \in 0 .. LastBucket |-> Step(f, n)]
  <2>1. f = [n \in 0 .. LastBucket |-> f[n]]
    OBVIOUS
  <2> HIDE DEF f
  <2> QED BY <1>2, <2>1
<1> HIDE DEF f
<1>5. cum = [n \in 0 .. LastBucket |-> Step(cum, n)]
  BY <1>4 DEF cum
<1>6. \A n \in 0 .. LastBucket : cum[n] = Step(cum, n)
  <2> HIDE DEF Step
  <2> QED BY <1>5
<1>7. 0 \in S
  <2>1. 0 \in 0 .. LastBucket
    BY <1>1
  <2> QED BY <1>2, <1>6, <2>1
<1>8. ASSUME NEW n \in Nat, n \in S PROVE n + 1 \in S
  <2> SUFFICES ASSUME n + 1 \in 0 .. LastBucket PROVE cum[n + 1] = f[n + 1]
    OBVIOUS
  <2>1. n \in 0 .. LastBucket /\ n + 1 # 0 /\ (n + 1) - 1 = n
    BY <1>1
  <2>2. cum[n] = f[n]
    BY <1>8, <2>1
  <2>3. cum[n + 1] = cum[n] + buckets[n + 1]
    BY <1>6, <2>1
  <2>4. f[n + 1] = f[n] + buckets[n + 1]
    BY <1>2, <2>1
  <2> QED BY <2>2, <2>3, <2>4
<1>9. Nat \subseteq S
  <2> HIDE DEF S
  <2> QED BY <1>7, <1>8, SetInduction
<1>10. ASSUME NEW n \in 0 .. LastBucket PROVE cum[n] = Cardinality(UpTo(n))
  <2>1. n \in Nat
    BY <1>1
  <2>2. cum[n] = f[n]
    BY <1>9, <2>1
  <2> QED BY <2>2 DEF f
<1> QED BY <1>10

(* A running total has reached the rank of a quantile when at least that   *)
(* fraction of the samples, and not none, is counted in it.                *)
LEMMA TargetIs ==
  ASSUME NEW q \in Nat, count \in Nat, NEW c \in Nat
  PROVE  c >= Target(q) <=> 1000 * c >= q * count /\ c > 0
<1>1. PICK z \in Nat : z = count * q /\ z = q * count
  OBVIOUS
<1>2. c >= (z + 999) \div 1000 <=> 1000 * c >= z
  OBVIOUS
<1>3. PICK t \in Nat : t = (z + 999) \div 1000
  OBVIOUS
<1>4. Target(q) = IF t < 1 THEN 1 ELSE t
  BY <1>1, <1>3 DEF Target, AtLeastOne
<1>5. c >= Target(q) <=> c >= t /\ c > 0
  BY <1>4
<1> QED BY <1>1, <1>2, <1>3, <1>5

(* The buckets whose bound at least a fraction q/1000 of the samples, and  *)
(* not none, do not exceed.                                                *)
Enough(q) == {b \in Buckets : /\ 1000 * AtMost(Bounds[b]) >= q * Recorded
                              /\ AtMost(Bounds[b]) > 0}

(* quantile returns the least bound that enough of the samples do not      *)
(* exceed.                                                                 *)
Answers(b, q) ==
  b \in Enough(q) /\ quantile(q) = Bounds[b] /\ \A c \in Enough(q) : b <= c

LEMMA QuantileIs ==
  ASSUME HistInv, count > 0, NEW q \in 0 .. 1000
  PROVE  \E b \in Buckets : Answers(b, q)
<1>1. LastBucket \in Nat /\ Buckets = 1 .. LastBucket /\ LastBucket \in Buckets
  BY BoundsAre
<1>2. count \in Nat /\ Recorded = count /\ q \in Nat
  BY DEF HistInv, HistTypes, Counted, Recorded
<1>3. ASSUME NEW b \in Buckets PROVE cum[b] = AtMost(Bounds[b]) /\ cum[b] \in Nat
  <2>1. b \in 0 .. LastBucket /\ b \in Nat
    BY <1>1
  <2>2. cum[b] = Cardinality(UpTo(b)) /\ Cardinality(UpTo(b)) \in Nat
    BY <2>1, CumIs, UpToIs
  <2>3. UpTo(b) = {s \in Samples : s[1] <= Bounds[b]}
    BY UpToIs
  <2> QED BY <2>2, <2>3 DEF AtMost
<1>4. Reached(q) = Enough(q)
  <2>1. ASSUME NEW b \in Buckets
        PROVE  cum[b] >= Target(q)
               <=> 1000 * AtMost(Bounds[b]) >= q * Recorded /\ AtMost(Bounds[b]) > 0
    BY <1>2, <1>3, TargetIs
  <2> QED BY <2>1 DEF Reached, Enough
<1>5. LastBucket \in Reached(q)
  <2>1. cum[LastBucket] = count
    <3>1. LastBucket \in 0 .. LastBucket
      BY <1>1
    <3> QED BY <3>1, CumIs, UpToIs DEF HistInv, Counted
  <2>2. 1000 * count >= q * count
    <3>1. count * q <= count * 1000
      BY <1>2, Multiples
    <3>2. count * q = q * count /\ count * 1000 = 1000 * count
      BY <1>2
    <3> QED BY <3>1, <3>2
  <2>3. count >= Target(q)
    BY <1>2, <2>2, TargetIs
  <2> QED BY <1>1, <2>1, <2>3 DEF Reached
<1> DEFINE S == Reached(q)
<1>6. S \subseteq Nat /\ S # {}
  <2>1. \A b \in Buckets : b \in Nat
    BY <1>1
  <2> QED BY <1>5, <2>1 DEF Reached
<1>7. \E b \in S : \A c \in S : b <= c
  <2> HIDE DEF S
  <2> QED BY <1>6, LeastElement, ZenonT(30)
<1> DEFINE m == CHOOSE b \in S : \A c \in S : b <= c
<1>8. m \in S /\ \A c \in S : m <= c
  BY <1>7
<1>9. quantile(q) = Bounds[m]
  BY <1>2, <1>6 DEF quantile
<1> HIDE DEF m
<1>10. m \in Enough(q) /\ m \in Buckets /\ \A c \in Enough(q) : m <= c
  BY <1>4, <1>8 DEF Enough
<1> QED BY <1>9, <1>10 DEF Answers

(***************************************************************************)
(* "Returns the upper bound of the bucket containing the given quantile"   *)
(* (latency.rs:84): for every list of bounds and after any samples and     *)
(* resets, each quantile of a summary is the least bound that enough of    *)
(* the samples do not exceed.                                              *)
(***************************************************************************)
THEOREM QuantilesAreExact == HistSpec => []QuantilesAreRanks
<1>1. HistInv => QuantilesAreRanks
  <2> SUFFICES ASSUME HistInv PROVE QuantilesAreRanks
    OBVIOUS
  <2>1. Recorded = count /\ count \in Nat
    BY DEF HistInv, HistTypes, Counted, Recorded
  <2>2. CASE Recorded = 0
    BY <2>1, <2>2 DEF QuantilesAreRanks, quantile
  <2>3. ASSUME Recorded # 0, NEW q \in {500, 900, 990, 999} PROVE IsQuantile(quantile(q), q)
    <3>1. count > 0 /\ q \in 0 .. 1000
      BY <2>1, <2>3
    <3>2. PICK b \in Enough(q) : quantile(q) = Bounds[b] /\ \A c \in Enough(q) : b <= c
      <4>1. \E b \in Buckets : Answers(b, q)
        BY <3>1, QuantileIs
      <4> QED BY <4>1 DEF Answers
    <3> QED BY <3>2 DEF IsQuantile, Enough
  <2> QED BY <2>2, <2>3 DEF QuantilesAreRanks
<1> QED BY <1>1, HistInvariant, PTL

(* Of a higher quantile, enough is more.                                   *)
LEMMA QuantilesOrdered ==
  ASSUME HistInv, count > 0, NEW q \in Nat, NEW r \in Nat, q <= r, r <= 1000
  PROVE  quantile(q) <= quantile(r)
<1>0. q \in 0 .. 1000 /\ r \in 0 .. 1000
  OBVIOUS
<1>1. PICK b \in Enough(q) : quantile(q) = Bounds[b] /\ \A c \in Enough(q) : b <= c
  <2>1. \E b \in Buckets : Answers(b, q)
    BY <1>0, QuantileIs, SMTT(30)
  <2> QED BY <2>1 DEF Answers
<1>2. PICK d \in Enough(r) : quantile(r) = Bounds[d] /\ \A c \in Enough(r) : d <= c
  <2>1. \E d \in Buckets : Answers(d, r)
    BY <1>0, QuantileIs, SMTT(30)
  <2> QED BY <2>1 DEF Answers
<1>3. PICK n \in Nat : n = Recorded
  BY DEF HistInv, HistTypes, Counted, Recorded
<1>4. d \in Enough(q)
  <2>1. n * q <= n * r /\ n * q = q * n /\ n * r = r * n /\ n * q \in Nat /\ n * r \in Nat
    BY Multiples
  <2>2. d \in Buckets /\ 1000 * AtMost(Bounds[d]) >= r * n /\ AtMost(Bounds[d]) > 0
    BY <1>2, <1>3 DEF Enough
  <2>3. AtMost(Bounds[d]) \in Nat
    <3>1. d \in Nat /\ UpTo(d) = {s \in Samples : s[1] <= Bounds[d]}
      BY <2>2, BoundsAre, UpToIs
    <3> QED BY <3>1, UpToIs DEF AtMost
  <2>4. 1000 * AtMost(Bounds[d]) >= q * n
    <3>1. PICK a \in Nat : a = AtMost(Bounds[d])
      BY <2>3
    <3>2. PICK x \in Nat, y \in Nat : x = q * n /\ y = r * n
      BY <2>1
    <3>3. x <= y
      BY <2>1, <3>2
    <3>4. 1000 * a >= y
      BY <2>2, <3>1, <3>2
    <3>5. 1000 * a >= x
      BY <3>3, <3>4
    <3> QED BY <3>1, <3>2, <3>5
  <2> QED BY <1>3, <2>2, <2>4 DEF Enough
<1>5. b \in Buckets /\ d \in Buckets /\ b <= d
  BY <1>1, <1>4 DEF Enough
<1> QED BY <1>1, <1>2, <1>5, BoundsAre

(* No quantile lies below the least sample.                                *)
LEMMA QuantileAtLeastMin ==
  ASSUME HistInv, count > 0, NEW q \in 0 .. 1000
  PROVE  min_ns <= quantile(q)
<1>1. PICK b \in Enough(q) : quantile(q) = Bounds[b]
  BY QuantileIs, SMTT(30) DEF Answers
<1>2. b \in Buckets /\ AtMost(Bounds[b]) > 0 /\ Bounds[b] \in Nat
  BY <1>1, BoundsAre DEF Enough
<1>3. {s \in Samples : s[1] <= Bounds[b]} # {}
  BY <1>2, FS_EmptySet DEF AtMost
<1>4. PICK s \in Samples : s[1] <= Bounds[b]
  BY <1>3
<1>5. PICK x \in Latencies, n \in 1 .. MaxCount : s = <<x, n>> /\ n <= samples[x]
  BY DEF Samples
<1>6. samples[x] > 0
  <2>1. samples[x] \in Nat /\ n > 0
    BY DEF HistInv, HistTypes
  <2> QED BY <1>5, <2>1
<1>7. x \in Nat /\ min_ns \in Nat /\ min_ns <= x /\ x <= Bounds[b]
  BY <1>4, <1>5, <1>6, BoundsAre DEF HistInv, HistTypes, Extremes
<1> QED BY <1>1, <1>2, <1>7

(***************************************************************************)
(* Every summary is consistent (latency.rs:102-117): its quantiles are in  *)
(* order and not below the minimum, the mean lies between the extremes,    *)
(* and these are the least and the greatest sample since the last reset.   *)
(***************************************************************************)
THEOREM SummariesAreConsistent == HistSpec => []SummaryConsistent
<1>1. HistInv => SummaryConsistent
  <2> SUFFICES ASSUME HistInv, Recorded > 0 PROVE SummaryConsistent
    BY DEF SummaryConsistent
  <2>1. Recorded = count /\ count \in Nat /\ count > 0
    BY DEF HistInv, HistTypes, Counted, Recorded
  <2>2. /\ summary.min = min_ns /\ summary.max = max_ns /\ summary.mean = sum_ns \div count
        /\ summary.p50 = quantile(500) /\ summary.p90 = quantile(900)
        /\ summary.p99 = quantile(990) /\ summary.p999 = quantile(999)
    BY <2>1 DEF summary
  <2>3. min_ns <= quantile(500)
    BY <2>1, QuantileAtLeastMin
  <2>4. /\ quantile(500) <= quantile(900) /\ quantile(900) <= quantile(990)
        /\ quantile(990) <= quantile(999)
    <3>1. PICK a \in Nat, b \in Nat, c \in Nat, d \in Nat :
            a = 500 /\ b = 900 /\ c = 990 /\ d = 999
      OBVIOUS
    <3>2. a <= b /\ b <= c /\ c <= d /\ d <= 1000
      BY <3>1
    <3>3. quantile(a) <= quantile(b) /\ quantile(b) <= quantile(c) /\ quantile(c) <= quantile(d)
      BY <2>1, <3>2, QuantilesOrdered
    <3> QED BY <3>1, <3>3
  <2>5. min_ns <= sum_ns \div count /\ sum_ns \div count <= max_ns
    <3>1. count * min_ns <= sum_ns /\ sum_ns <= count * max_ns
      BY <2>1 DEF HistInv, Extremes
    <3> QED BY <2>1, <3>1, MeanBetween DEF HistInv, HistTypes
  <2>6. samples[min_ns] > 0 /\ samples[max_ns] > 0
    BY <2>1 DEF HistInv, Extremes
  <2>7. ASSUME NEW x \in Latencies, x < min_ns \/ x > max_ns PROVE samples[x] = 0
    <3>1. x \in Nat /\ samples[x] \in Nat /\ min_ns \in Nat /\ max_ns \in Nat
      BY BoundsAre DEF HistInv, HistTypes
    <3>2. ~(min_ns <= x /\ x <= max_ns)
      BY <2>7, <3>1
    <3>3. ~(samples[x] > 0)
      BY <3>2 DEF HistInv, Extremes
    <3> QED BY <3>1, <3>3
  <2> HIDE DEF summary
  <2> QED BY <2>2, <2>3, <2>4, <2>5, <2>6, <2>7 DEF SummaryConsistent
<1> QED BY <1>1, HistInvariant, PTL
=============================================================================
