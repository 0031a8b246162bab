---------------------- MODULE OfflineEvaluationProofs ----------------------
(***************************************************************************)
(* Proofs about the documents: what the contract of the demo and the       *)
(* rules of hy3_evaluate promise of every request, answer, response, data  *)
(* set, evidence file and review that satisfies the assumptions.           *)
(***************************************************************************)
EXTENDS OfflineEvaluation, FiniteSums, SequenceTheorems, TLAPS

----------------------------------------------------------------------------
(* Positions in their order                                                *)

Rank(S, p) == Cardinality({q \in S : q <= p})

(* Ranks are numbers between 1 and the size of the set, and grow.          *)
LEMMA RanksGrow ==
    ASSUME NEW S \in SUBSET Nat, IsFiniteSet(S)
    PROVE  /\ Cardinality(S) \in Nat
           /\ \A p \in S : Rank(S, p) \in 1..Cardinality(S)
           /\ \A p, q \in S : p < q => Rank(S, p) < Rank(S, q)
<1>0. \A p \in S : p \in Nat
  OBVIOUS
<1>1. ASSUME NEW p \in Nat
      PROVE  IsFiniteSet({q \in S : q <= p}) /\ Rank(S, p) \in 0..Cardinality(S)
  <2>1. {q \in S : q <= p} \in SUBSET S
    OBVIOUS
  <2>2. /\ IsFiniteSet({q \in S : q <= p})
        /\ Cardinality({q \in S : q <= p}) <= Cardinality(S)
    BY <2>1, FS_Subset
  <2> QED BY <2>2, FS_CardinalityType DEF Rank
<1>2. ASSUME NEW p \in S PROVE Rank(S, p) # 0
  <2>1. p \in {q \in S : q <= p}
    OBVIOUS
  <2> QED BY <1>1, <2>1, FS_EmptySet DEF Rank
<1>3. ASSUME NEW p \in S, NEW q \in S, p < q PROVE Rank(S, p) < Rank(S, q)
  <2> DEFINE P == {r \in S : r <= p}
             Q == {r \in S : r <= q}
  <2>0. p \in Nat /\ q \in Nat
    BY <1>0
  <2>1. IsFiniteSet(P) /\ IsFiniteSet(Q)
    BY <1>1, <2>0
  <2>2. q \notin P /\ P \cup {q} \subseteq Q
    <3>1. q \notin P
      BY <1>3, <2>0
    <3>2. \A r \in P : r <= q
      BY <1>0, <1>3, <2>0
    <3>3. q <= q
      BY <2>0
    <3> QED BY <3>1, <3>2, <3>3
  <2> HIDE DEF P, Q
  <2>3. Cardinality(P \cup {q}) = Cardinality(P) + 1 /\ IsFiniteSet(P \cup {q})
    BY <2>1, <2>2, FS_AddElement
  <2>4. Cardinality(P \cup {q}) <= Cardinality(Q)
    BY <2>1, <2>2, FS_Subset
  <2>5. Cardinality(P) \in Nat /\ Cardinality(Q) \in Nat
    BY <2>1, FS_CardinalityType
  <2>6. Cardinality(P) < Cardinality(Q)
    BY <2>3, <2>4, <2>5
  <2> QED BY <2>6 DEF Rank, P, Q
<1>4. Cardinality(S) \in Nat
  BY FS_CardinalityType
<1>5. ASSUME NEW p \in S PROVE Rank(S, p) \in 1..Cardinality(S)
  <2>1. Rank(S, p) \in 0..Cardinality(S) /\ Rank(S, p) # 0
    BY <1>0, <1>1, <1>2
  <2> QED BY <1>4, <2>1
<1> QED BY <1>3, <1>4, <1>5

(* Each rank is taken.                                                     *)
LEMMA RanksAreTaken ==
    ASSUME NEW S \in SUBSET Nat, IsFiniteSet(S), NEW n \in 1..Cardinality(S)
    PROVE  \E p \in S : Rank(S, p) = n
<1> DEFINE c == Cardinality(S)
           P == {m \in Nat : m = 0 \/ m > c \/ \E p \in S : Rank(S, p) = m}
<1>0. c \in Nat
  BY FS_CardinalityType
<1>1. 0 \in P
  OBVIOUS
<1>2. ASSUME NEW m \in Nat, m \in P PROVE m + 1 \in P
  <2> DEFINE Low == {q \in S : \E p \in S : Rank(S, p) = m /\ q <= p}
             High == S \ Low
  <2>0. SUFFICES ASSUME m + 1 <= c PROVE \E p \in S : Rank(S, p) = m + 1
    BY <1>0
  <2>1. m = 0 \/ \E p \in S : Rank(S, p) = m
    BY <1>0, <1>2, <2>0
  <2>2. Cardinality(Low) = m /\ IsFiniteSet(Low)
    <3>1. CASE m = 0
      <4>1. Low = {}
        BY <3>1, RanksGrow
      <4> QED BY <3>1, <4>1, FS_EmptySet
    <3>2. CASE m # 0
      <4>1. PICK p \in S : Rank(S, p) = m
        BY <2>1, <3>2
      <4>2. \A q \in S : Rank(S, q) = m => q = p
        <5> SUFFICES ASSUME NEW q \in S, Rank(S, q) = m, q # p PROVE FALSE
          OBVIOUS
        <5>1. p < q \/ q < p
          OBVIOUS
        <5>2. Rank(S, p) < Rank(S, q) \/ Rank(S, q) < Rank(S, p)
          BY <5>1, RanksGrow
        <5> QED BY <4>1, <5>2
      <4>3. Low = {q \in S : q <= p}
        BY <4>1, <4>2
      <4>4. IsFiniteSet(Low)
        BY FS_Subset
      <4> QED BY <4>1, <4>3, <4>4 DEF Rank
    <3> QED BY <3>1, <3>2
  <2>3. High # {}
    <3>1. High = {} => Low = S
      OBVIOUS
    <3>2. m # c
      BY <1>0, <2>0
    <3> QED BY <2>2, <3>1, <3>2
  <2> DEFINE p == Min(High)
  <2>4. p \in High /\ \A q \in High : p <= q
    <3>1. High \in SUBSET Nat
      OBVIOUS
    <3> HIDE DEF High
    <3> QED BY <2>3, <3>1, NatMin
  <2> HIDE DEF p
  <2>5. {q \in S : q <= p} = Low \cup {p}
    <3>1. \A q \in Low : q <= p
      <4> SUFFICES ASSUME NEW q \in Low, ~(q <= p) PROVE FALSE
        OBVIOUS
      <4>1. p < q /\ p \in S
        BY <2>4
      <4>2. p \in Low
        BY <4>1
      <4> QED BY <2>4, <4>2
    <3>2. \A q \in S : q <= p => q \in Low \/ q = p
      BY <2>4
    <3> QED BY <2>4, <3>1, <3>2
  <2>6. p \notin Low /\ p \in S
    BY <2>4
  <2> HIDE DEF Low
  <2>7. Cardinality(Low \cup {p}) = m + 1
    BY <2>2, <2>6, FS_AddElement
  <2> QED BY <2>5, <2>6, <2>7 DEF Rank
<1> HIDE DEF P
<1>3. n \in P
  BY <1>0, <1>1, <1>2, NumbersByInduction
<1> QED BY <1>0, <1>3 DEF P

(* The n-th position has rank n, and is the only one.                      *)
LEMMA NthHasRank ==
    ASSUME NEW S \in SUBSET Nat, IsFiniteSet(S)
    PROVE  /\ \A n \in 1..Cardinality(S) : Nth(S, n) \in S /\ Rank(S, Nth(S, n)) = n
           /\ \A p \in S : Nth(S, Rank(S, p)) = p
           /\ \A n, m \in 1..Cardinality(S) : n < m => Nth(S, n) < Nth(S, m)
<1>1. ASSUME NEW n \in 1..Cardinality(S) PROVE Nth(S, n) \in S /\ Rank(S, Nth(S, n)) = n
  <2>1. \E p \in S : Cardinality({q \in S : q <= p}) = n
    BY RanksAreTaken DEF Rank
  <2>2. /\ Nth(S, n) \in S
        /\ Cardinality({q \in S : q <= Nth(S, n)}) = n
    BY <2>1 DEF Nth
  <2> QED BY <2>2 DEF Rank
<1>2. ASSUME NEW p \in S, NEW q \in S, Rank(S, p) = Rank(S, q) PROVE p = q
  <2> SUFFICES ASSUME p # q PROVE FALSE
    OBVIOUS
  <2>1. p < q \/ q < p
    OBVIOUS
  <2>2. Rank(S, p) < Rank(S, q) \/ Rank(S, q) < Rank(S, p)
    BY <2>1, RanksGrow
  <2>3. Rank(S, p) \in Nat
    BY RanksGrow
  <2> QED BY <1>2, <2>2, <2>3
<1>3. ASSUME NEW p \in S PROVE Nth(S, Rank(S, p)) = p
  BY <1>1, <1>2, RanksGrow
<1>4. ASSUME NEW n \in 1..Cardinality(S), NEW m \in 1..Cardinality(S), n < m
      PROVE  Nth(S, n) < Nth(S, m)
  <2>1. Nth(S, n) \in S /\ Nth(S, m) \in S /\ Rank(S, Nth(S, n)) < Rank(S, Nth(S, m))
    BY <1>1, <1>4
  <2> DEFINE x == Nth(S, n)
             y == Nth(S, m)
  <2> HIDE DEF x, y
  <2>2. x \in S /\ y \in S /\ Rank(S, x) < Rank(S, y) /\ x \in Nat /\ y \in Nat
    BY <2>1 DEF x, y
  <2>3. Rank(S, x) \in Nat /\ Rank(S, y) \in Nat
    BY <2>2, RanksGrow
  <2>4. y < x => Rank(S, y) < Rank(S, x)
    BY <2>2, RanksGrow
  <2>5. x < y
    BY <2>2, <2>3, <2>4
  <2> QED BY <2>5 DEF x, y
<1> QED BY <1>1, <1>3, <1>4

(* A set that is moved keeps its size.                                     *)
LEMMA MovedSet ==
    ASSUME NEW S \in SUBSET Int, IsFiniteSet(S), NEW k \in Int
    PROVE  Cardinality({p + k : p \in S}) = Cardinality(S)
<1> DEFINE T == {p + k : p \in S}
           f == [p \in S |-> p + k]
<1>1. f \in [S -> T]
  OBVIOUS
<1>2. \A p, q \in S : f[p] = f[q] => p = q
  OBVIOUS
<1>3. \A t \in T : \E p \in S : f[p] = t
  OBVIOUS
<1> HIDE DEF f, T
<1>4. ExistsBijection(S, T)
  BY <1>1, <1>2, <1>3 DEF ExistsBijection, Bijection, Injection, Surjection, IsInjective
<1>5. Cardinality(T) = Cardinality(S)
  BY <1>4, FS_Bijection
<1> QED BY <1>5 DEF T
----------------------------------------------------------------------------
(* The lines of a text                                                     *)

Starts(text) == {p \in 1..Len(text) : p = 1 \/ text[p - 1] = "lf"}
StartOf(text, n) == Nth(Starts(text), n)
EndOf(text, n) == StartOf(text, n) + Len(SourceLines(text)[n]) - 1

(* A text is a sequence of its symbols.                                    *)
LEMMA TextIsSequence ==
    ASSUME NEW text, IsSequence(text)
    PROVE  /\ text \in Seq(ToSet(text)) /\ Len(text) \in Nat /\ DOMAIN text = 1..Len(text)
           /\ \A i \in 1..Len(text) : text[i] \in ToSet(text)
<1>1. Len(text) \in Nat /\ text = [i \in 1..Len(text) |-> text[i]]
  BY DEF IsSequence
<1>2. DOMAIN text = 1..Len(text)
  BY <1>1
<1>3. \A i \in 1..Len(text) : text[i] \in ToSet(text)
  BY <1>2 DEF ToSet
<1>4. text \in [1..Len(text) -> ToSet(text)]
  BY <1>1, <1>3
<1> QED BY <1>1, <1>2, <1>3, <1>4, SeqDef

(* A line ends before the next line feed, or at the end.                   *)
LEMMA LineIs ==
    ASSUME NEW text, IsSequence(text), NEW start \in 1..Len(text)
    PROVE  \E e \in (start - 1)..Len(text) :
               /\ Line(text, start) = SubSeq(text, start, e)
               /\ Len(Line(text, start)) = e - start + 1
               /\ \A i \in start..e : text[i] # "lf"
               /\ e = Len(text) \/ (e < Len(text) /\ text[e + 1] = "lf")
<1> DEFINE ends == {i \in start..Len(text) : text[i] = "lf"}
           e == IF ends = {} THEN Len(text) ELSE Min(ends) - 1
<1>0. Len(text) \in Nat /\ \A i \in 1..Len(text) : text[i] \in ToSet(text)
  BY TextIsSequence
<1>1. Line(text, start) = SubSeq(text, start, e)
  BY DEF Line
<1>2. /\ e \in (start - 1)..Len(text)
      /\ \A i \in start..e : text[i] # "lf"
      /\ e = Len(text) \/ (e < Len(text) /\ text[e + 1] = "lf")
  <2>1. CASE ends = {}
    BY <1>0, <2>1
  <2>2. CASE ends # {}
    <3>1. ends \in SUBSET Nat
      BY <1>0
    <3>2. Min(ends) \in ends /\ \A i \in ends : Min(ends) <= i
      <4> HIDE DEF ends
      <4> QED BY <2>2, <3>1, NatMin
    <3>3. e = Min(ends) - 1
      BY <2>2
    <3> DEFINE m == Min(ends)
    <3> HIDE DEF m, e
    <3>4. /\ m \in start..Len(text) /\ text[m] = "lf" /\ e = m - 1
          /\ \A i \in start..Len(text) : text[i] = "lf" => m <= i
      BY <3>2, <3>3 DEF m
    <3>5. m \in Nat /\ e + 1 = m /\ e \in (start - 1)..Len(text) /\ e < Len(text)
      BY <1>0, <3>4
    <3>6. \A i \in start..e : text[i] # "lf"
      BY <1>0, <3>4
    <3> QED BY <3>4, <3>5, <3>6
  <2> QED BY <2>1, <2>2
<1> HIDE DEF e
<1>3. Len(SubSeq(text, start, e)) = e - start + 1
  <2>1. start \in Int /\ e \in Int /\ \A i \in start..e : text[i] \in ToSet(text)
    BY <1>0, <1>2
  <2>2. Len(SubSeq(text, start, e)) = IF start <= e THEN e - start + 1 ELSE 0
    BY <2>1, SubSeqProperties
  <2> QED BY <1>0, <1>2, <2>2
<1> QED BY <1>1, <1>2, <1>3

(* What there is to know of the lines of a text.                           *)
LinesAre(text) ==
    LET lines == SourceLines(text)
    IN  /\ Len(lines) \in Nat
        /\ \A n \in 1..Len(lines) :
              /\ StartOf(text, n) \in 1..Len(text)
              /\ StartOf(text, n) = 1 \/ text[StartOf(text, n) - 1] = "lf"
              /\ Cardinality({p \in Starts(text) : p <= StartOf(text, n)}) = n
              /\ EndOf(text, n) \in (StartOf(text, n) - 1)..Len(text)
              /\ lines[n] = SubSeq(text, StartOf(text, n), EndOf(text, n))
              /\ \A i \in StartOf(text, n)..EndOf(text, n) : text[i] # "lf"
              /\ \/ EndOf(text, n) = Len(text)
                 \/ EndOf(text, n) < Len(text) /\ text[EndOf(text, n) + 1] = "lf"
              /\ n < Len(lines) => StartOf(text, n + 1) = EndOf(text, n) + 2

LEMMA StartsAreFinite ==
    ASSUME NEW text, IsSequence(text)
    PROVE  Starts(text) \in SUBSET Nat /\ IsFiniteSet(Starts(text))
<1>1. Len(text) \in Nat
  BY TextIsSequence
<1>2. Starts(text) \in SUBSET (1..Len(text))
  BY DEF Starts
<1>3. IsFiniteSet(1..Len(text))
  BY <1>1, FS_Interval
<1>4. IsFiniteSet(Starts(text))
  BY <1>2, <1>3, FS_Subset
<1> QED BY <1>1, <1>2, <1>4

LEMMA TextHasLines ==
    ASSUME NEW text, IsSequence(text)
    PROVE  LinesAre(text)
<1> DEFINE S == Starts(text)
           lines == SourceLines(text)
           B(n) == StartOf(text, n)
           E(n) == EndOf(text, n)
<1>0. /\ S \in SUBSET Nat /\ IsFiniteSet(S) /\ Cardinality(S) \in Nat
      /\ Len(text) \in Nat /\ \A p \in S : p \in 1..Len(text)
  BY StartsAreFinite, TextIsSequence, FS_CardinalityType DEF Starts
<1>1. lines = [n \in 1..Cardinality(S) |-> Line(text, B(n))] /\ Len(lines) = Cardinality(S)
  <2>1. lines = [n \in 1..Cardinality(S) |-> Line(text, B(n))]
    BY DEF SourceLines, Starts, StartOf
  <2> HIDE DEF lines, S
  <2> QED BY <1>0, <2>1
<1>2. ASSUME NEW n \in 1..Len(lines)
      PROVE  /\ B(n) \in S /\ Rank(S, B(n)) = n
             /\ E(n) \in (B(n) - 1)..Len(text)
             /\ lines[n] = SubSeq(text, B(n), E(n))
             /\ \A i \in B(n)..E(n) : text[i] # "lf"
             /\ E(n) = Len(text) \/ (E(n) < Len(text) /\ text[E(n) + 1] = "lf")
  <2>1. B(n) \in S /\ Rank(S, B(n)) = n
    BY <1>0, <1>1, <1>2, NthHasRank DEF StartOf
  <2>2. lines[n] = Line(text, B(n))
    BY <1>1, <1>2
  <2> DEFINE b == B(n)
  <2>3. E(n) = b + Len(lines[n]) - 1
    BY DEF EndOf
  <2> HIDE DEF b, E, lines
  <2>4. PICK e \in (b - 1)..Len(text) :
               /\ Line(text, b) = SubSeq(text, b, e)
               /\ Len(Line(text, b)) = e - b + 1
               /\ \A i \in b..e : text[i] # "lf"
               /\ e = Len(text) \/ (e < Len(text) /\ text[e + 1] = "lf")
    <3>1. b \in 1..Len(text)
      BY <1>0, <2>1 DEF b
    <3> QED BY <3>1, LineIs
  <2>5. b \in Int /\ e \in Int
    BY <1>0, <2>1, <2>4 DEF b
  <2>6. E(n) = e
    BY <2>2, <2>3, <2>4, <2>5 DEF b
  <2> QED BY <2>1, <2>2, <2>4, <2>6 DEF b
<1>3. ASSUME NEW n \in 1..Len(lines), n < Len(lines) PROVE B(n + 1) = E(n) + 2
  <2> DEFINE b == B(n)
             c == B(n + 1)
             e == E(n)
  <2>0. n \in Nat /\ n + 1 \in 1..Len(lines)
    BY <1>0, <1>1, <1>3
  <2>1. /\ b \in S /\ Rank(S, b) = n /\ e \in (b - 1)..Len(text)
        /\ \A i \in b..e : text[i] # "lf"
        /\ e = Len(text) \/ (e < Len(text) /\ text[e + 1] = "lf")
    BY <1>2
  <2>2. c \in S /\ Rank(S, c) = n + 1
    BY <1>2, <2>0
  <2>3. b < c
    BY <1>0, <1>1, <2>0, NthHasRank DEF StartOf
  <2> HIDE DEF b, c, e
  <2>4. b \in 1..Len(text) /\ c \in 1..Len(text) /\ e \in Int
    BY <1>0, <2>1, <2>2
  <2>5. text[c - 1] = "lf"
    BY <2>2, <2>3, <2>4 DEF Starts
  <2>6. e < c - 1
    BY <1>0, <2>1, <2>3, <2>4, <2>5
  <2>7. e + 2 \in S
    <3> DEFINE q == e + 2
    <3>1. q \in 1..Len(text) /\ q - 1 = e + 1 /\ text[e + 1] = "lf"
      BY <1>0, <2>1, <2>4, <2>6
    <3> HIDE DEF q
    <3>2. q \in 1..Len(text) /\ text[q - 1] = "lf"
      BY <3>1
    <3>3. q \in S
      BY <3>2 DEF Starts
    <3> QED BY <3>3 DEF q
  <2>8. b < e + 2 /\ e + 2 <= c
    BY <1>0, <2>1, <2>4, <2>6
  <2> HIDE DEF S
  <2>9. Rank(S, e + 2) \in Nat /\ n < Rank(S, e + 2)
    <3>1. Rank(S, b) < Rank(S, e + 2)
      BY <1>0, <2>1, <2>7, <2>8, RanksGrow
    <3>2. Rank(S, e + 2) \in 1..Cardinality(S)
      BY <1>0, <2>7, RanksGrow
    <3> QED BY <1>0, <2>1, <3>1, <3>2
  <2>10. e + 2 < c => Rank(S, e + 2) < n + 1
    BY <1>0, <2>2, <2>7, RanksGrow
  <2>11. e + 2 = c
    BY <2>0, <2>4, <2>8, <2>9, <2>10
  <2> QED BY <2>11 DEF c, e
<1>4. ASSUME NEW n \in 1..Len(lines)
      PROVE  B(n) \in 1..Len(text) /\ (B(n) = 1 \/ text[B(n) - 1] = "lf")
  BY <1>2, <1>4 DEF Starts
<1>5. ASSUME NEW n \in 1..Len(lines) PROVE Cardinality({p \in S : p <= B(n)}) = n
  BY <1>2, <1>5 DEF Rank
<1>6. Len(lines) \in Nat
  BY <1>0, <1>1
<1> HIDE DEF lines, B, E, S
<1>7. ASSUME NEW n \in 1..Len(lines)
      PROVE  /\ B(n) \in 1..Len(text) /\ (B(n) = 1 \/ text[B(n) - 1] = "lf")
             /\ Cardinality({p \in S : p <= B(n)}) = n
             /\ E(n) \in (B(n) - 1)..Len(text)
             /\ lines[n] = SubSeq(text, B(n), E(n))
             /\ \A i \in B(n)..E(n) : text[i] # "lf"
             /\ E(n) = Len(text) \/ (E(n) < Len(text) /\ text[E(n) + 1] = "lf")
             /\ n < Len(lines) => B(n + 1) = E(n) + 2
  BY <1>2, <1>3, <1>4, <1>5
<1> QED BY <1>6, <1>7 DEF LinesAre, lines, B, E, S
(* Two parts of a text and the symbol between them are a part.             *)
LEMMA PartsMeet ==
    ASSUME NEW T, NEW text \in Seq(T), NEW a \in Nat \ {0}, NEW e \in Nat, NEW f \in Nat,
           a <= e + 1, e + 1 <= f, f <= Len(text)
    PROVE  SubSeq(text, a, e) \o <<text[e + 1]>> \o SubSeq(text, e + 2, f) = SubSeq(text, a, f)
<1> DEFINE x == SubSeq(text, a, e)
           y == <<text[e + 1]>>
           z == SubSeq(text, e + 2, f)
           w == SubSeq(text, a, f)
<1>0. Len(text) \in Nat /\ \A i \in 1..Len(text) : text[i] \in T
  BY LenProperties, ElementOfSeq
<1>1. x \in Seq(T) /\ Len(x) = e - a + 1 /\ \A i \in 1..(e - a + 1) : x[i] = text[a + i - 1]
  <2>1. a \in Int /\ e \in Int /\ \A i \in a..e : text[i] \in T
    BY <1>0
  <2>2. /\ x \in Seq(T) /\ Len(x) = (IF a <= e THEN e - a + 1 ELSE 0)
        /\ \A i \in 1..(e - a + 1) : x[i] = text[a + i - 1]
    BY <2>1, SubSeqProperties
  <2> HIDE DEF x
  <2> QED BY <2>2
<1>2. y \in Seq(T) /\ Len(y) = 1 /\ y[1] = text[e + 1]
  <2>1. text[e + 1] \in T
    BY <1>0
  <2> QED BY <2>1
<1>3. /\ z \in Seq(T) /\ Len(z) = f - e - 1
      /\ \A i \in 1..(f - e - 1) : z[i] = text[e + 2 + i - 1]
  <2>1. e + 2 \in Int /\ f \in Int /\ \A i \in (e + 2)..f : text[i] \in T
    BY <1>0
  <2>2. /\ z \in Seq(T) /\ Len(z) = (IF e + 2 <= f THEN f - (e + 2) + 1 ELSE 0)
        /\ \A i \in 1..(f - (e + 2) + 1) : z[i] = text[e + 2 + i - 1]
    BY <2>1, SubSeqProperties
  <2> HIDE DEF z
  <2> QED BY <2>2
<1>4. w \in Seq(T) /\ Len(w) = f - a + 1 /\ \A i \in 1..(f - a + 1) : w[i] = text[a + i - 1]
  <2>1. a \in Int /\ f \in Int /\ \A i \in a..f : text[i] \in T
    BY <1>0
  <2>2. /\ w \in Seq(T) /\ Len(w) = (IF a <= f THEN f - a + 1 ELSE 0)
        /\ \A i \in 1..(f - a + 1) : w[i] = text[a + i - 1]
    BY <2>1, SubSeqProperties
  <2> HIDE DEF w
  <2> QED BY <2>2
<1> HIDE DEF x, y, z, w
<1>5. /\ x \o y \in Seq(T) /\ Len(x \o y) = e - a + 2
      /\ \A i \in 1..(e - a + 2) : (x \o y)[i] = text[a + i - 1]
  <2>1. /\ x \o y \in Seq(T) /\ Len(x \o y) = Len(x) + Len(y)
        /\ \A i \in 1..(Len(x) + Len(y)) :
              (x \o y)[i] = IF i <= Len(x) THEN x[i] ELSE y[i - Len(x)]
    BY <1>1, <1>2, ConcatProperties
  <2>2. ASSUME NEW i \in 1..(e - a + 2) PROVE (x \o y)[i] = text[a + i - 1]
    <3>1. i \in 1..(Len(x) + Len(y))
      BY <1>1, <1>2
    <3>2. CASE i <= e - a + 1
      BY <1>1, <2>1, <3>1, <3>2
    <3>3. CASE i = e - a + 2
      <4>1. ~(i <= Len(x)) /\ i - Len(x) = 1 /\ a + i - 1 = e + 1
        BY <1>1, <3>3
      <4>2. (x \o y)[i] = y[i - Len(x)]
        BY <2>1, <3>1, <4>1
      <4>3. (x \o y)[i] = y[1] /\ text[a + i - 1] = text[e + 1]
        BY <4>1, <4>2
      <4> QED BY <1>2, <4>3
    <3>4. i <= e - a + 1 \/ i = e - a + 2
      <4>1. i \in Int /\ e - a + 2 \in Int /\ i <= e - a + 2
        OBVIOUS
      <4> QED BY <4>1
    <3> QED BY <3>2, <3>3, <3>4
  <2> QED BY <1>1, <1>2, <2>1, <2>2
<1> DEFINE v == x \o y
<1> HIDE DEF v
<1>6. v \in Seq(T) /\ Len(v) = e - a + 2 /\ \A i \in 1..(e - a + 2) : v[i] = text[a + i - 1]
  BY <1>5 DEF v
<1>7. /\ v \o z \in Seq(T) /\ Len(v \o z) = Len(v) + Len(z)
      /\ \A i \in 1..(Len(v) + Len(z)) :
            (v \o z)[i] = IF i <= Len(v) THEN v[i] ELSE z[i - Len(v)]
  BY <1>3, <1>6, ConcatProperties
<1>8. Len(v \o z) = Len(w) /\ Len(v) + Len(z) = Len(w) /\ Len(w) = f - a + 1
  BY <1>3, <1>4, <1>6, <1>7
<1>9. ASSUME NEW i \in 1..Len(w) PROVE (v \o z)[i] = w[i]
  <2>0. i \in 1..(Len(v) + Len(z)) /\ i \in 1..(f - a + 1) /\ i \in Nat
    BY <1>8
  <2>1. w[i] = text[a + i - 1]
    BY <1>4, <2>0
  <2>2. CASE i <= e - a + 2
    <3>1. (v \o z)[i] = v[i]
      BY <1>6, <1>7, <2>0, <2>2
    <3>2. v[i] = text[a + i - 1]
      BY <1>6, <2>0, <2>2
    <3> QED BY <2>1, <3>1, <3>2
  <2>3. CASE ~(i <= e - a + 2)
    <3>1. (v \o z)[i] = z[i - (e - a + 2)]
      BY <1>6, <1>7, <2>0, <2>3
    <3>2. i - (e - a + 2) \in 1..(f - e - 1)
      BY <2>0, <2>3
    <3>3. z[i - (e - a + 2)] = text[e + 2 + (i - (e - a + 2)) - 1]
      BY <1>3, <3>2
    <3>4. e + 2 + (i - (e - a + 2)) - 1 = a + i - 1
      BY <2>0
    <3> QED BY <2>1, <3>1, <3>3, <3>4
  <2> QED BY <2>2, <2>3
<1>10. v \o z = w
  BY <1>4, <1>7, <1>8, <1>9, SeqEqual
<1> QED BY <1>10 DEF x, y, z, w, v

(* Lines that are joined again are the part of the text they are from.     *)
LEMMA JoinedLines ==
    ASSUME NEW text, IsSequence(text),
           NEW first \in 1..Len(SourceLines(text)), NEW last \in first..Len(SourceLines(text))
    PROVE  Joined(SourceLines(text), first, last)
               = SubSeq(text, StartOf(text, first), EndOf(text, last))
<1> DEFINE lines == SourceLines(text)
           B(n) == StartOf(text, n)
           E(n) == EndOf(text, n)
           V(g, n) == IF n = first THEN lines[n] ELSE g[n - 1] \o <<"lf">> \o lines[n]
           Part == [n \in first..last |-> SubSeq(text, B(first), E(n))]
           F == CHOOSE g : g = [n \in first..last |-> V(g, n)]
<1>0. /\ text \in Seq(ToSet(text)) /\ Len(text) \in Nat /\ Len(lines) \in Nat
      /\ first \in Nat /\ last \in Nat /\ \A n \in first..last : n \in 1..Len(lines)
  BY TextIsSequence, TextHasLines DEF LinesAre
<1>1. /\ \A n \in 1..Len(lines) : B(n) \in 1..Len(text) /\ E(n) \in (B(n) - 1)..Len(text)
      /\ \A n \in 1..Len(lines) : lines[n] = SubSeq(text, B(n), E(n))
      /\ \A n \in 1..Len(lines) : n < Len(lines) =>
            B(n + 1) = E(n) + 2 /\ text[E(n) + 1] = "lf"
  <2>1. LinesAre(text)
    BY TextHasLines
  <2> HIDE DEF B, E, lines
  <2>2. ASSUME NEW n \in 1..Len(lines)
        PROVE  /\ B(n) \in 1..Len(text) /\ E(n) \in (B(n) - 1)..Len(text)
               /\ lines[n] = SubSeq(text, B(n), E(n))
               /\ E(n) = Len(text) \/ (E(n) < Len(text) /\ text[E(n) + 1] = "lf")
               /\ n < Len(lines) => B(n + 1) = E(n) + 2
    BY <2>1 DEF LinesAre, lines, B, E
  <2>3. ASSUME NEW n \in 1..Len(lines), n < Len(lines) PROVE text[E(n) + 1] = "lf"
    <3>1. n + 1 \in 1..Len(lines)
      BY <1>0, <2>3
    <3>2. B(n + 1) \in 1..Len(text) /\ B(n + 1) = E(n) + 2 /\ E(n) \in Int
      BY <1>0, <2>2, <2>3, <3>1
    <3>3. E(n) # Len(text)
      BY <1>0, <3>2
    <3> QED BY <2>2, <3>3
  <2> QED BY <2>2, <2>3
<1> HIDE DEF lines, B, E
<1>2. ASSUME NEW n \in first..last, n # first
      PROVE  SubSeq(text, B(first), E(n - 1)) \o <<"lf">> \o lines[n]
                 = SubSeq(text, B(first), E(n))
  <2>1. /\ n - 1 \in first..last /\ n - 1 \in 1..Len(lines) /\ n \in 1..Len(lines)
        /\ n - 1 < Len(lines) /\ n - 1 + 1 = n
    BY <1>0, <1>2
  <2> DEFINE m == n - 1
  <2> HIDE DEF m
  <2>2. /\ B(n) = E(m) + 2 /\ text[E(m) + 1] = "lf" /\ lines[n] = SubSeq(text, B(n), E(n))
        /\ E(m) \in (B(m) - 1)..Len(text) /\ B(m) \in 1..Len(text)
        /\ B(n) \in 1..Len(text) /\ E(n) \in (B(n) - 1)..Len(text)
    BY <1>1, <2>1 DEF m
  <2>3. B(first) \in 1..Len(text) /\ B(first) <= B(m)
    <3>1. first \in 1..Len(lines) /\ m \in 1..Len(lines) /\ (first = m \/ first < m)
      BY <1>0, <2>1 DEF m
    <3>2. Len(lines) = Cardinality(Starts(text))
      <4> DEFINE c == Cardinality(Starts(text))
      <4>1. c \in Nat
        BY StartsAreFinite, FS_CardinalityType
      <4>2. lines = [k \in 1..c |-> Line(text, Nth(Starts(text), k))]
        BY DEF lines, SourceLines, Starts
      <4> HIDE DEF c
      <4> QED BY <4>1, <4>2 DEF c
    <3>3. first < m => B(first) < B(m)
      BY <3>1, <3>2, StartsAreFinite, NthHasRank DEF B, StartOf
    <3>4. B(first) \in 1..Len(text)
      BY <1>1, <3>1
    <3>5. B(first) \in Int /\ B(m) \in Int
      BY <1>0, <2>2, <3>4
    <3>6. first = m => B(first) = B(m)
      OBVIOUS
    <3> HIDE DEF B
    <3> QED BY <3>1, <3>3, <3>4, <3>5, <3>6
  <2>4. /\ B(first) \in Nat \ {0} /\ E(m) \in Nat /\ E(n) \in Nat
        /\ B(first) <= E(m) + 1 /\ E(m) + 1 <= E(n) /\ E(n) <= Len(text)
    <3> DEFINE a == B(first)
               b == B(m)
               c == B(n)
               d == E(m)
               f == E(n)
               t == Len(text)
    <3> HIDE DEF a, b, c, d, f, t
    <3>1. /\ t \in Nat /\ a \in 1..t /\ a <= b /\ b \in 1..t /\ d \in (b - 1)..t
          /\ c \in 1..t /\ f \in (c - 1)..t /\ c = d + 2
      BY <1>0, <2>2, <2>3 DEF a, b, c, d, f, t
    <3>2. /\ a \in Nat \ {0} /\ d \in Nat /\ f \in Nat
          /\ a <= d + 1 /\ d + 1 <= f /\ f <= t
      BY <3>1
    <3> QED BY <3>2 DEF a, d, f, t
  <2>5. SubSeq(text, B(first), E(m)) \o <<text[E(m) + 1]>> \o SubSeq(text, E(m) + 2, E(n))
            = SubSeq(text, B(first), E(n))
    BY <1>0, <2>4, PartsMeet
  <2> QED BY <2>2, <2>5 DEF m
<1>3. Part = [n \in first..last |-> V(Part, n)]
  <2>1. ASSUME NEW n \in first..last PROVE Part[n] = V(Part, n)
    <3>1. CASE n = first
      BY <1>0, <1>1, <3>1
    <3>2. CASE n # first
      <4>1. n - 1 \in first..last
        BY <1>0, <3>2
      <4> QED BY <1>2, <3>2, <4>1
    <3> QED BY <3>1, <3>2
  <2> QED BY <2>1
<1>4. F = [n \in first..last |-> V(F, n)]
  <2> HIDE DEF V, Part
  <2> QED BY <1>3
<1>5. \A n \in first..last : F[n] = V(F, n) /\ Part[n] = V(Part, n)
  <2> HIDE DEF V, Part, F
  <2> QED BY <1>3, <1>4
<1> HIDE DEF Part, F
<1> DEFINE P == {n \in Nat : n \in first..last => F[n] = Part[n]}
<1>6. 0 \in P
  BY <1>0
<1>7. ASSUME NEW n \in Nat, n \in P PROVE n + 1 \in P
  <2> SUFFICES ASSUME n + 1 \in first..last PROVE F[n + 1] = Part[n + 1]
    OBVIOUS
  <2>1. CASE n + 1 = first
    BY <1>5, <2>1
  <2>2. CASE n + 1 # first
    <3>1. n \in first..last /\ n + 1 - 1 = n
      BY <1>0, <2>2
    <3>2. F[n] = Part[n]
      BY <1>7, <3>1
    <3> QED BY <1>5, <2>2, <3>1, <3>2
  <2> QED BY <2>1, <2>2
<1>8. last \in P /\ last \in first..last
  <2> HIDE DEF P
  <2> QED BY <1>0, <1>6, <1>7, NumbersByInduction
<1>9. F[last] = SubSeq(text, B(first), E(last))
  BY <1>8 DEF Part
<1>10. Joined(lines, first, last) = F[last]
  BY DEF Joined, F
<1> QED BY <1>9, <1>10 DEF lines, B, E
(* A location that the contract lets through is whole lines of the text,   *)
(* counted from 1.                                                         *)
LEMMA LocationStands ==
    ASSUME NEW text, IsSequence(text), NEW location,
           LineOf(location, "start_line") \in Int, LineOf(location, "end_line") \in Int,
           ValidLocation(location, SourceLines(text))
    PROVE  Stands(location, text)
<1> DEFINE lines == SourceLines(text)
           T == ToSet(text)
           snippet == Get(location, "snippet").string
           first == LineOf(location, "start_line")
           last == LineOf(location, "end_line")
           S == Starts(text)
           b == StartOf(text, first)
           c == StartOf(text, last)
           e == EndOf(text, last)
           p == b - 1
           t == Len(text)
           before == SubSeq(text, 1, p)
           after == SubSeq(text, e + 1, t)
<1>1. first \in 1..Len(lines) /\ last \in first..Len(lines) /\ first \in Nat /\ last \in Nat
      /\ snippet = Joined(lines, first, last)
  <2>1. Len(lines) \in Nat
    BY TextHasLines DEF LinesAre
  <2>2. /\ 1 <= first /\ first <= last /\ last <= Len(lines)
        /\ snippet = Joined(lines, first, last)
    BY DEF ValidLocation, LineOf
  <2> HIDE DEF first, last, lines, snippet
  <2>3. first \in Int /\ last \in Int
    BY DEF first, last
  <2> QED BY <2>1, <2>2, <2>3
<1>2. snippet = SubSeq(text, b, e)
  <2> HIDE DEF first, last
  <2> QED BY <1>1, JoinedLines
<1>3. text \in Seq(T) /\ t \in Nat /\ DOMAIN text = 1..t /\ \A i \in 1..t : text[i] \in T
  BY TextIsSequence
<1>4. /\ b \in 1..t /\ (b = 1 \/ text[b - 1] = "lf") /\ Cardinality({q \in S : q <= b}) = first
      /\ c \in 1..t /\ Cardinality({q \in S : q <= c}) = last
      /\ e \in (c - 1)..t /\ (\A i \in c..e : text[i] # "lf")
      /\ e = t \/ (e < t /\ text[e + 1] = "lf")
  <2>1. LinesAre(text) /\ first \in 1..Len(lines) /\ last \in 1..Len(lines)
    BY <1>1, TextHasLines
  <2> HIDE DEF first, last
  <2> QED BY <2>1 DEF LinesAre
<1>5. b <= c
  <2>1. Len(lines) = Cardinality(S)
    <3> DEFINE n == Cardinality(S)
    <3>1. n \in Nat
      BY StartsAreFinite, FS_CardinalityType
    <3>2. lines = [k \in 1..n |-> Line(text, Nth(S, k))]
      BY DEF SourceLines, Starts
    <3> HIDE DEF n, lines
    <3> QED BY <3>1, <3>2 DEF n
  <2> HIDE DEF first, last
  <2>2. first < last => b < c
    BY <1>1, <2>1, StartsAreFinite, NthHasRank DEF StartOf
  <2>3. first < last \/ first = last
    BY <1>1
  <2>4. b \in Int /\ c \in Int
    BY <1>3, <1>4
  <2>5. first = last => b = c
    OBVIOUS
  <2> HIDE DEF b, c
  <2> QED BY <2>2, <2>3, <2>4, <2>5
<1>6. S = {q \in 1..t : q = 1 \/ text[q - 1] = "lf"}
  BY DEF Starts
<1> HIDE DEF b, c, e, S, t, T, first, last, lines, snippet
<1>7. /\ p \in 0..t /\ p \in Nat /\ b \in Nat /\ c \in Nat /\ e \in Nat
      /\ b <= e + 1 /\ p <= e /\ e <= t /\ p = b - 1
  BY <1>3, <1>4, <1>5
<1> HIDE DEF p
<1>8. /\ before \in Seq(T) /\ Len(before) = p /\ \A i \in 1..p : before[i] = text[i]
  <2>1. 1 \in Int /\ p \in Int /\ \A i \in 1..p : text[i] \in T
    BY <1>3, <1>7
  <2>2. /\ before \in Seq(T) /\ Len(before) = (IF 1 <= p THEN p - 1 + 1 ELSE 0)
        /\ \A i \in 1..(p - 1 + 1) : before[i] = text[1 + i - 1]
    BY <2>1, SubSeqProperties
  <2> HIDE DEF before
  <2> QED BY <1>7, <2>2
<1>9. /\ snippet \in Seq(T) /\ Len(snippet) = e - p
      /\ \A i \in 1..(e - p) : snippet[i] = text[p + i]
  <2>1. b \in Int /\ e \in Int /\ \A i \in b..e : text[i] \in T
    BY <1>3, <1>7
  <2>2. /\ snippet \in Seq(T) /\ Len(snippet) = (IF b <= e THEN e - b + 1 ELSE 0)
        /\ \A i \in 1..(e - b + 1) : snippet[i] = text[b + i - 1]
    BY <1>2, <2>1, SubSeqProperties
  <2> QED BY <1>7, <2>2
<1>10. /\ after \in Seq(T) /\ Len(after) = t - e
       /\ \A i \in 1..(t - e) : after[i] = text[e + i]
  <2>1. e + 1 \in Int /\ t \in Int /\ \A i \in (e + 1)..t : text[i] \in T
    BY <1>3, <1>7
  <2>2. /\ after \in Seq(T) /\ Len(after) = (IF e + 1 <= t THEN t - (e + 1) + 1 ELSE 0)
        /\ \A i \in 1..(t - (e + 1) + 1) : after[i] = text[e + 1 + i - 1]
    BY <2>1, SubSeqProperties
  <2> HIDE DEF after
  <2> QED BY <1>3, <1>7, <2>2
<1> HIDE DEF before, after
<1>11. text = before \o snippet \o after
  <2> DEFINE x == before \o snippet
             y == x \o after
  <2>1. /\ x \in Seq(T) /\ Len(x) = e
        /\ \A i \in 1..e : x[i] = IF i <= p THEN before[i] ELSE snippet[i - p]
    <3>1. /\ x \in Seq(T) /\ Len(x) = Len(before) + Len(snippet)
          /\ \A i \in 1..(Len(before) + Len(snippet)) :
                x[i] = IF i <= Len(before) THEN before[i] ELSE snippet[i - Len(before)]
      BY <1>8, <1>9, ConcatProperties
    <3> HIDE DEF x
    <3> QED BY <1>7, <1>8, <1>9, <3>1
  <2>2. ASSUME NEW i \in 1..e PROVE x[i] = text[i]
    <3> HIDE DEF x
    <3>1. CASE i <= p
      BY <1>7, <1>8, <2>1, <3>1
    <3>2. CASE ~(i <= p)
      <4>1. i - p \in 1..(e - p) /\ p + (i - p) = i
        BY <1>7, <3>2
      <4>2. snippet[i - p] = text[p + (i - p)]
        BY <1>9, <4>1
      <4> QED BY <2>1, <3>2, <4>1, <4>2
    <3> QED BY <3>1, <3>2
  <2> HIDE DEF x
  <2>3. /\ y \in Seq(T) /\ Len(y) = t
        /\ \A i \in 1..t : y[i] = IF i <= e THEN x[i] ELSE after[i - e]
    <3>1. /\ y \in Seq(T) /\ Len(y) = Len(x) + Len(after)
          /\ \A i \in 1..(Len(x) + Len(after)) :
                y[i] = IF i <= Len(x) THEN x[i] ELSE after[i - Len(x)]
      BY <1>10, <2>1, ConcatProperties
    <3> HIDE DEF y
    <3> QED BY <1>3, <1>7, <1>10, <2>1, <3>1
  <2>4. ASSUME NEW i \in 1..t PROVE y[i] = text[i]
    <3> HIDE DEF y
    <3>1. CASE i <= e
      BY <1>7, <2>2, <2>3, <3>1
    <3>2. CASE ~(i <= e)
      <4>1. i - e \in 1..(t - e) /\ e + (i - e) = i
        BY <1>3, <1>7, <3>2
      <4>2. after[i - e] = text[e + (i - e)]
        BY <1>10, <4>1
      <4> QED BY <2>3, <3>2, <4>1, <4>2
    <3> QED BY <3>1, <3>2
  <2> HIDE DEF y
  <2>5. y = text
    BY <1>3, <2>3, <2>4, SeqEqual DEF t
  <2> QED BY <2>5 DEF y, x
<1>12. before = <<>> \/ Last(before) = "lf"
  <2>1. CASE p = 0
    <3>1. before = <<>>
      BY <1>8, <2>1, EmptySeq
    <3> QED BY <3>1
  <2>2. CASE p # 0
    <3>1. Last(before) = text[p] /\ b # 1
      BY <1>7, <1>8, <2>2 DEF Last
    <3> QED BY <1>4, <1>7, <3>1
  <2> QED BY <2>1, <2>2
<1>13. after = <<>> \/ Head(after) = "lf"
  <2>1. CASE e = t
    <3>1. after = <<>>
      BY <1>3, <1>10, <2>1, EmptySeq
    <3> QED BY <3>1
  <2>2. CASE e # t
    <3>1. after[1] = text[e + 1] /\ after # <<>>
      <4>1. 1 \in 1..(t - e)
        BY <1>3, <1>7, <2>2
      <4>2. after # <<>>
        BY <1>10, <4>1
      <4> QED BY <1>10, <4>1, <4>2
    <3>2. Head(after) = after[1]
      BY <1>10, <3>1
    <3> QED BY <1>4, <2>2, <3>1, <3>2
  <2> QED BY <2>1, <2>2
<1>14. S \in SUBSET Nat /\ IsFiniteSet(S)
  BY StartsAreFinite DEF S
<1> DEFINE Low == {q \in S : q <= b}
           Lower == {q \in S : q <= c}
<1>18. /\ IsFiniteSet(Low) /\ Cardinality(Low) = first /\ Low \subseteq Lower
       /\ IsFiniteSet(Lower) /\ Cardinality(Lower) = last
  <2>1. Low \in SUBSET S /\ Lower \in SUBSET S
    OBVIOUS
  <2>2. IsFiniteSet(Low) /\ IsFiniteSet(Lower)
    BY <1>14, <2>1, FS_Subset
  <2>3. Low \subseteq Lower
    <3>1. \A q \in S : q \in Nat
      BY <1>14
    <3>2. \A q \in S : q <= b => q <= c
      BY <1>5, <1>7, <3>1
    <3> QED BY <3>2
  <2> QED BY <1>4, <2>2, <2>3
<1>19. LineFeeds(before) = first - 1
  <2> DEFINE D == {i \in DOMAIN before : before[i] = "lf"}
  <2>1. {i + 1 : i \in D} = Low \ {1}
    <3>1. DOMAIN before = 1..p
      BY <1>8, LenProperties
    <3>2. ASSUME NEW i \in D PROVE i + 1 \in Low \ {1}
      <4>1. i \in 1..p /\ text[i] = "lf"
        BY <1>8, <3>1
      <4> DEFINE q == i + 1
      <4>2. q \in 1..t /\ q # 1 /\ q - 1 = i /\ q <= b
        <5>1. b \in 1..t
          BY <1>4
        <5> HIDE DEF D
        <5> QED BY <1>3, <1>7, <4>1, <5>1
      <4> HIDE DEF q
      <4>3. q \in S
        BY <1>6, <4>1, <4>2
      <4> QED BY <4>2, <4>3 DEF q
    <3>3. ASSUME NEW q \in Low \ {1} PROVE q - 1 \in D /\ q - 1 + 1 = q
      <4>1. q \in 1..t /\ text[q - 1] = "lf" /\ q <= b /\ q # 1
        BY <1>6
      <4>2. q - 1 \in 1..p /\ q - 1 + 1 = q
        BY <1>3, <1>7, <4>1
      <4> QED BY <1>8, <3>1, <4>1, <4>2
    <3> HIDE DEF D, Low
    <3> QED BY <3>2, <3>3
  <2>2. D \in SUBSET Int /\ IsFiniteSet(D)
    <3>1. D \in SUBSET (1..p)
      BY <1>8, LenProperties
    <3>2. IsFiniteSet(1..p)
      BY <1>7, FS_Interval
    <3>3. IsFiniteSet(D)
      <4> HIDE DEF D
      <4> QED BY <3>1, <3>2, FS_Subset
    <3> QED BY <1>7, <3>1, <3>3
  <2>3. 1 \in Low
    <3>1. 1 \in 1..t /\ 1 <= b
      BY <1>3, <1>4, <1>7
    <3> QED BY <1>6, <3>1
  <2>4. Cardinality(Low \ {1}) = first - 1
    <3> HIDE DEF Low
    <3> QED BY <1>18, <2>3, FS_RemoveElement
  <2> HIDE DEF D, Low
  <2>5. Cardinality({i + 1 : i \in D}) = Cardinality(D)
    <3>1. 1 \in Int
      OBVIOUS
    <3> QED BY <2>2, <3>1, MovedSet
  <2>6. Cardinality(D) = first - 1
    BY <2>1, <2>4, <2>5
  <2> QED BY <2>6 DEF LineFeeds, D
<1>15. LineFeeds(snippet) = last - first
  <2> DEFINE D == {i \in DOMAIN snippet : snippet[i] = "lf"}
  <2>1. {i + b : i \in D} = Lower \ Low
    <3>1. DOMAIN snippet = 1..(e - p)
      BY <1>9, LenProperties
    <3>2. ASSUME NEW i \in D PROVE i + b \in Lower \ Low
      <4>1. i \in 1..(e - p) /\ text[p + i] = "lf"
        BY <1>9, <3>1
      <4> DEFINE q == i + b
      <4>2. q - 1 = p + i /\ q - 1 <= e /\ q \in Nat /\ ~(q <= b) /\ q # 1
        BY <1>7, <4>1
      <4>3. q <= c
        <5> SUFFICES ASSUME c < q PROVE FALSE
          BY <1>7, <4>2
        <5> HIDE DEF q
        <5>1. q - 1 \in c..e
          BY <1>7, <4>2
        <5> QED BY <1>4, <4>1, <4>2, <5>1
      <4> HIDE DEF q
      <4>4. q \in 1..t
        BY <1>3, <1>4, <4>2, <4>3
      <4>5. q \in S
        BY <1>6, <4>1, <4>2, <4>4
      <4> QED BY <4>2, <4>3, <4>5 DEF q
    <3>3. ASSUME NEW q \in Lower \ Low PROVE q - b \in D /\ q - b + b = q
      <4>1. q \in 1..t /\ (q = 1 \/ text[q - 1] = "lf") /\ q <= c /\ ~(q <= b)
        BY <1>6
      <4>2. q - b \in 1..(e - p) /\ q - b + b = q /\ p + (q - b) = q - 1 /\ q # 1
        <5>1. b \in 1..t /\ e \in (c - 1)..t
          BY <1>4
        <5> QED BY <1>3, <1>7, <4>1, <5>1
      <4>3. snippet[q - b] = text[q - 1]
        BY <1>9, <4>2
      <4> QED BY <3>1, <4>1, <4>2, <4>3
    <3> HIDE DEF D, Lower, Low
    <3> QED BY <3>2, <3>3
  <2>2. D \in SUBSET Int /\ IsFiniteSet(D)
    <3>1. D \in SUBSET (1..(e - p))
      BY <1>9, LenProperties
    <3>2. IsFiniteSet(1..(e - p))
      BY <1>7, FS_Interval
    <3>3. IsFiniteSet(D)
      <4> HIDE DEF D
      <4> QED BY <3>1, <3>2, FS_Subset
    <3> QED BY <1>7, <3>1, <3>3
  <2> HIDE DEF D, Low, Lower
  <2>3. Lower \cap Low = Low
    BY <1>18
  <2>4. Cardinality(Lower \ Low) = last - first
    BY <1>18, <2>3, FS_Difference
  <2>5. Cardinality({i + b : i \in D}) = Cardinality(D)
    <3>1. b \in Int
      BY <1>7
    <3> QED BY <2>2, <3>1, MovedSet
  <2>6. Cardinality(D) = last - first
    BY <2>1, <2>4, <2>5
  <2> QED BY <2>6 DEF LineFeeds, D
<1>16. p \in 0..(Len(text) - Len(snippet))
  BY <1>3, <1>7, <1>9 DEF t
<1>17. p + Len(snippet) + 1 = e + 1
  BY <1>7, <1>9
<1> HIDE DEF Stands
<1> QED BY <1>11, <1>12, <1>13, <1>15, <1>16, <1>17, <1>19
        DEF Stands, snippet, first, last, before, after, t
----------------------------------------------------------------------------
(* Requests as they reach the model                                        *)

LEMMA PickedIsSequence ==
    ASSUME NEW text, NEW S, IsFiniteSet(S)
    PROVE  IsSequence(Picked(text, S))
<1> DEFINE c == Cardinality(S)
           x == Picked(text, S)
<1>1. c \in Nat
  BY FS_CardinalityType
<1>2. x = [n \in 1..c |-> text[Nth(S, n)]]
  BY DEF Picked
<1> HIDE DEF c, x
<1>3. Len(x) = c
  BY <1>1, <1>2
<1> QED BY <1>1, <1>2, <1>3 DEF IsSequence, x

(* normalizeUtf8 of a text is a text.                                      *)
LEMMA NormalizedIsSequence ==
    ASSUME NEW text, IsSequence(text)
    PROVE  IsSequence(Normalized(text))
<1> DEFINE t == IF text # <<>> /\ Head(text) = "bom" THEN Tail(text) ELSE text
           kept == Picked(t, WithoutCr(t))
           x == [n \in DOMAIN kept |-> IF kept[n] = "cr" THEN "lf" ELSE kept[n]]
<1>1. DOMAIN t = 1..Len(t) /\ Len(t) \in Nat
  <2>1. text \in Seq(ToSet(text))
    BY TextIsSequence
  <2>2. t \in Seq(ToSet(text))
    BY <2>1
  <2> HIDE DEF t
  <2> QED BY <2>2, LenProperties
<1> HIDE DEF t
<1>2. IsFiniteSet(WithoutCr(t))
  <2>1. IsFiniteSet(1..Len(t))
    BY <1>1, FS_Interval
  <2>2. WithoutCr(t) \subseteq 1..Len(t)
    BY <1>1 DEF WithoutCr
  <2> QED BY <2>1, <2>2, FS_Subset
<1>3. IsSequence(kept)
  BY <1>2, PickedIsSequence
<1> HIDE DEF kept
<1>4. DOMAIN kept = 1..Len(kept) /\ Len(kept) \in Nat
  BY <1>3, TextIsSequence
<1>5. IsSequence(x)
  <2>1. x = [n \in 1..Len(kept) |-> IF kept[n] = "cr" THEN "lf" ELSE kept[n]]
    BY <1>4
  <2> HIDE DEF x
  <2>2. Len(x) = Len(kept)
    BY <1>4, <2>1
  <2> QED BY <1>4, <2>1, <2>2 DEF IsSequence
<1> QED BY <1>5 DEF Normalized, t, kept, x

Inputs == {"problem_statement", "reasoning", "user_notes"}
WellFormed(asked) ==
    /\ IsText(Get(asked, "cpp_solution"))
    /\ IsSequence(Get(asked, "cpp_solution").string)
    /\ \A k \in Inputs : Get(asked, k) = Null \/ IsText(Get(asked, k))

(* What requestJson makes of a request that was let through.               *)
LEMMA CanonicalIsWellFormed ==
    ASSUME NEW input, IsSequence(Get(input, "cpp_solution").string)
    PROVE  /\ WellFormed(Canonical(input))
           /\ Get(Canonical(input), "cpp_solution").string
                  = Normalized(Get(input, "cpp_solution").string)
<1> DEFINE c == Canonical(input)
           Field(v) == Text(Normalized(v.string))
<1>1. c.object["cpp_solution"] = Field(Get(input, "cpp_solution"))
  BY DEF Canonical, Object, RequestKeys, RequiredKeys
<1>2. \A k \in Inputs : c.object[k] = Null \/ c.object[k] = Field(Get(input, k))
  BY DEF Canonical, Object, RequestKeys, RequiredKeys, OptionalKeys, Inputs
<1>3. \A v : IsText(Field(v)) /\ Field(v).string = Normalized(v.string)
  BY DEF IsText, Text
<1> HIDE DEF c, Field
<1> QED BY <1>1, <1>2, <1>3, NormalizedIsSequence DEF WellFormed, c, Get

----------------------------------------------------------------------------
(* Values within a value, down to the numbers of a location                *)

LEMMA PartsAreValues ==
    ASSUME NEW v, NEW a \in Parts(v)
    PROVE  /\ a \in Values(v)
           /\ \A b \in Parts(a) :
                 /\ b \in Values(v)
                 /\ \A c \in Parts(b) :
                       c \in Values(v) /\ \A e \in Parts(c) : e \in Values(v)
<1> DEFINE Down(S) == S \cup UNION {Parts(u) : u \in S}
           V1 == Down({v})
           V2 == Down(V1)
           V3 == Down(V2)
           V4 == Down(V3)
           V5 == Down(V4)
<1>1. \A S : S \subseteq Down(S) /\ \A u \in S : Parts(u) \subseteq Down(S)
  OBVIOUS
<1>2. Values(v) = Down(V5)
  BY DEF Values
<1> HIDE DEF Down
<1>3. a \in V1
  BY <1>1 DEF V1
<1> HIDE DEF V1
<1>4. V1 \subseteq V2 /\ \A u \in V1 : Parts(u) \subseteq V2
  BY <1>1
<1> HIDE DEF V2
<1>5. V2 \subseteq V3 /\ \A u \in V2 : Parts(u) \subseteq V3
  BY <1>1
<1> HIDE DEF V3
<1>6. V3 \subseteq V4 /\ \A u \in V3 : Parts(u) \subseteq V4
  BY <1>1
<1> HIDE DEF V4
<1>7. V4 \subseteq V5 /\ V5 \subseteq Values(v)
  BY <1>1, <1>2
<1> HIDE DEF V5
<1> QED BY <1>3, <1>4, <1>5, <1>6, <1>7

LEMMA FieldIsPart ==
    ASSUME NEW o, IsObject(o), NEW k \in DOMAIN o.object
    PROVE  Get(o, k) \in Parts(o)
BY DEF Parts, Get

LEMMA ItemIsPart ==
    ASSUME NEW o, IsArray(o), NEW i \in DOMAIN o.array
    PROVE  o.array[i] \in Parts(o)
BY DEF Parts, IsArray, IsObject

----------------------------------------------------------------------------
(* First faults                                                            *)

LEMMA NoFault ==
    ASSUME NEW verdicts, Len(verdicts) \in Nat, FirstFault(verdicts) = "parsed"
    PROVE  \A i \in 1..Len(verdicts) : verdicts[i] = "parsed"
<1> DEFINE I == {i \in 1..Len(verdicts) : verdicts[i] # "parsed"}
           k == SelectInSeq(verdicts, LAMBDA v : v # "parsed")
<1>1. k = IF I # {} THEN Min(I) ELSE 0
  BY DEF SelectInSeq
<1>2. FirstFault(verdicts) = IF k = 0 THEN "parsed" ELSE verdicts[k]
  BY DEF FirstFault
<1> HIDE DEF k
<1>3. SUFFICES ASSUME I # {} PROVE FALSE
  OBVIOUS
<1>4. I \in SUBSET Nat
  OBVIOUS
<1> HIDE DEF I
<1>5. Min(I) \in I
  BY <1>3, <1>4, NatMin
<1> QED BY <1>1, <1>2, <1>3, <1>5 DEF I

(* The position of a step by its id.                                       *)
LEMMA StepOfIsFirst ==
    ASSUME NEW d, NEW key, Len(Get(d, "steps").array) \in Nat
    PROVE  LET steps == Get(d, "steps").array
               k == StepOf(d, key)
           IN  /\ k \in Nat
               /\ k # 0 => k \in 1..Len(steps) /\ Get(steps[k], "id") = key
<1> DEFINE steps == Get(d, "steps").array
           I == {i \in 1..Len(steps) : Get(steps[i], "id") = key}
           k == StepOf(d, key)
<1>1. k = IF I # {} THEN Min(I) ELSE 0
  BY DEF StepOf, SelectInSeq
<1> HIDE DEF k
<1>2. I \in SUBSET Nat
  OBVIOUS
<1>3. I # {} => Min(I) \in I
  <2> HIDE DEF I
  <2> QED BY <1>2, NatMin
<1> HIDE DEF steps
<1>4. CASE I = {}
  BY <1>1, <1>4 DEF k, steps
<1>5. CASE I # {}
  <2> DEFINE m == Min(I)
  <2>1. m \in I
    BY <1>3, <1>5
  <2>2. k = m
    BY <1>1, <1>5
  <2> HIDE DEF m
  <2> QED BY <2>1, <2>2 DEF k, steps
<1> QED BY <1>4, <1>5

----------------------------------------------------------------------------
(* What a diagnosis that passed validateDiagnosis has passed               *)

Code(asked) == Get(asked, "cpp_solution").string
StepsIn(d) == Get(d, "steps").array
Found(d) == Get(d, "findings").array

Passed(d, asked) ==
    LET lines == SourceLines(Code(asked))
    IN  /\ IdentityHolds(d, asked) /\ OverviewHolds(d) /\ StatusHolds(d) /\ CounterexampleHolds(d)
        /\ IsArray(Get(d, "findings"))
        /\ \E s \in {"correct", "incorrect", "undetermined"} : Is(d, "status", s)
        /\ \A i \in 1..Len(StepsIn(d)) : StepVerdict(StepsIn(d), i, lines) = "parsed"
        /\ \A i \in 1..Len(Found(d)) : FindingVerdict(d, i, asked, lines) = "parsed"

LEMMA ValuesAreSequences ==
    ASSUME NEW d, IsValue(d), NEW v \in Values(d), IsArray(v)
    PROVE  Len(v.array) \in Nat /\ DOMAIN v.array = 1..Len(v.array)
<1>1. IsSequence(v.array)
  BY DEF IsValue
<1> QED BY <1>1, TextIsSequence

LEMMA ParsedIsPassed ==
    ASSUME NEW d, IsValue(d), NEW asked, ValidateDiagnosis(d, asked) = "parsed"
    PROVE  /\ Passed(d, asked)
           /\ Len(StepsIn(d)) \in Nat /\ DOMAIN StepsIn(d) = 1..Len(StepsIn(d))
           /\ Len(Found(d)) \in Nat /\ DOMAIN Found(d) = 1..Len(Found(d))
<1> DEFINE lines == SourceLines(Code(asked))
           sv == [i \in DOMAIN StepsIn(d) |-> StepVerdict(StepsIn(d), i, lines)]
           fv == [i \in DOMAIN Found(d) |-> FindingVerdict(d, i, asked, lines)]
<1>1. /\ IdentityHolds(d, asked) /\ OverviewHolds(d) /\ StatusHolds(d) /\ CounterexampleHolds(d)
      /\ IsArray(Get(d, "findings"))
      /\ \E s \in {"correct", "incorrect", "undetermined"} : Is(d, "status", s)
      /\ FirstFault(sv) = "parsed" /\ FirstFault(fv) = "parsed"
  BY Zenon DEF ValidateDiagnosis, Schema, Semantic, Code, StepsIn, Found
<1>2. IsObject(d) /\ {"steps", "findings"} \subseteq DOMAIN d.object
  BY <1>1 DEF IdentityHolds, HasExactly, DiagnosisKeys
<1>3. Get(d, "steps") \in Values(d) /\ Get(d, "findings") \in Values(d)
  BY <1>2, FieldIsPart, PartsAreValues
<1>4. IsArray(Get(d, "steps"))
  BY <1>1 DEF OverviewHolds
<1>5. /\ Len(StepsIn(d)) \in Nat /\ DOMAIN StepsIn(d) = 1..Len(StepsIn(d))
      /\ Len(Found(d)) \in Nat /\ DOMAIN Found(d) = 1..Len(Found(d))
  BY <1>1, <1>3, <1>4, ValuesAreSequences DEF StepsIn, Found
<1>6. \A i \in 1..Len(StepsIn(d)) : StepVerdict(StepsIn(d), i, lines) = "parsed"
  <2> HIDE DEF lines
  <2>1. Len(sv) = Len(StepsIn(d))
    BY <1>5
  <2>2. \A i \in 1..Len(StepsIn(d)) : sv[i] = StepVerdict(StepsIn(d), i, lines)
    BY <1>5
  <2> HIDE DEF sv
  <2> QED BY <1>1, <1>5, <2>1, <2>2, NoFault
<1>7. \A i \in 1..Len(Found(d)) : FindingVerdict(d, i, asked, lines) = "parsed"
  <2> HIDE DEF lines
  <2>1. Len(fv) = Len(Found(d))
    BY <1>5
  <2>2. \A i \in 1..Len(Found(d)) : fv[i] = FindingVerdict(d, i, asked, lines)
    BY <1>5
  <2> HIDE DEF fv
  <2> QED BY <1>1, <1>5, <2>1, <2>2, NoFault
<1> QED BY <1>1, <1>5, <1>6, <1>7 DEF Passed

(* The lines of a location within a value are numbers.                     *)
LEMMA LocatedStands ==
    ASSUME NEW d, IsValue(d), NEW text, IsSequence(text), NEW location,
           Parts(location) \subseteq Values(d), ValidLocation(location, SourceLines(text))
    PROVE  Stands(location, text)
<1>1. /\ IsObject(location) /\ {"start_line", "end_line"} \subseteq DOMAIN location.object
      /\ IsWhole(Get(location, "start_line")) /\ IsWhole(Get(location, "end_line"))
  BY DEF ValidLocation, HasExactly
<1>2. Get(location, "start_line") \in Values(d) /\ Get(location, "end_line") \in Values(d)
  BY <1>1, FieldIsPart
<1>3. LineOf(location, "start_line") \in Int /\ LineOf(location, "end_line") \in Int
  BY <1>1, <1>2 DEF IsValue, LineOf
<1> QED BY <1>3, LocationStands

LEMMA StepsStand ==
    ASSUME NEW d, IsValue(d), NEW asked, IsSequence(Code(asked)),
           ValidateDiagnosis(d, asked) = "parsed", NEW i \in 1..Len(StepsIn(d))
    PROVE  Stands(Get(StepsIn(d)[i], "code_location"), Code(asked))
<1> DEFINE s == StepsIn(d)[i]
           lines == SourceLines(Code(asked))
<1>1. Passed(d, asked) /\ DOMAIN StepsIn(d) = 1..Len(StepsIn(d))
  BY ParsedIsPassed
<1>2. IsObject(d) /\ "steps" \in DOMAIN d.object /\ IsArray(Get(d, "steps"))
  BY <1>1 DEF Passed, IdentityHolds, HasExactly, DiagnosisKeys, OverviewHolds
<1>3. StepVerdict(StepsIn(d), i, lines) = "parsed"
  BY <1>1 DEF Passed
<1>4. /\ HasExactly(s, {"id", "summary", "code_location"})
      /\ ValidLocation(Get(s, "code_location"), lines)
  BY <1>3, Zenon DEF StepVerdict, Schema, Semantic
<1>5. IsObject(s) /\ "code_location" \in DOMAIN s.object
  BY <1>4 DEF HasExactly
<1>6. Get(d, "steps") \in Parts(d) /\ s \in Parts(Get(d, "steps"))
      /\ Get(s, "code_location") \in Parts(s)
  BY <1>1, <1>2, <1>5, FieldIsPart, ItemIsPart DEF StepsIn
<1> HIDE DEF s, lines
<1>7. Parts(Get(s, "code_location")) \subseteq Values(d)
  BY <1>6, PartsAreValues
<1> QED BY <1>4, <1>7, LocatedStands DEF s, lines

(* Part of a sequence.                                                     *)
LEMMA PartOf ==
    ASSUME NEW text, NEW T, NEW t \in Nat, \A i \in 1..t : text[i] \in T,
           NEW p \in Nat, NEW m \in Nat, p + m <= t
    PROVE  LET x == SubSeq(text, p + 1, p + m)
           IN  x \in Seq(T) /\ Len(x) = m /\ \A i \in 1..m : x[i] = text[p + i]
<1> DEFINE low == p + 1
           high == p + m
           x == SubSeq(text, low, high)
<1>1. low \in Int /\ high \in Int /\ \A i \in low..high : text[i] \in T
  OBVIOUS
<1>2. low = p + 1 /\ high = p + m
  OBVIOUS
<1> HIDE DEF low, high
<1>3. /\ x \in Seq(T) /\ Len(x) = (IF low <= high THEN high - low + 1 ELSE 0)
      /\ \A i \in 1..(high - low + 1) : x[i] = text[low + i - 1]
  BY <1>1, SubSeqProperties
<1> HIDE DEF x
<1>4. Len(x) = m
  BY <1>2, <1>3
<1>5. \A i \in 1..m : x[i] = text[p + i]
  BY <1>2, <1>3
<1>6. x \in Seq(T) /\ Len(x) = m /\ \A i \in 1..m : x[i] = text[p + i]
  BY <1>3, <1>4, <1>5
<1> QED BY <1>6 DEF x, low, high

Stretch(text, part) ==
    \E b \in 0..(Len(text) - Len(part)) : \A i \in 1..Len(part) : part[i] = text[b + i]

(* A part of a part is a part.                                             *)
LEMMA QuotesWithin ==
    ASSUME NEW text, IsSequence(text), NEW snippet, IsSequence(snippet), NEW part,
           IsSequence(part), Stretch(text, snippet), Quotes(snippet, part)
    PROVE  Quotes(text, part)
<1> DEFINE t == Len(text)
           n == Len(snippet)
           m == Len(part)
<1>1. t \in Nat /\ n \in Nat /\ m \in Nat
  BY DEF IsSequence
<1>2. PICK b \in 0..(t - n) : \A i \in 1..n : snippet[i] = text[b + i]
  BY DEF Stretch
<1>3. PICK p \in 0..(n - m) : SubSeq(snippet, p + 1, p + m) = part
  BY DEF Quotes
<1> DEFINE T == ToSet(text) \cup ToSet(snippet)
           x == SubSeq(snippet, p + 1, p + m)
           y == SubSeq(text, b + p + 1, b + p + m)
<1>4. /\ \A i \in 1..t : text[i] \in T
      /\ \A i \in 1..n : snippet[i] \in T
  BY TextIsSequence
<1> HIDE DEF t, n, m, T
<1>5. x \in Seq(T) /\ Len(x) = m /\ \A i \in 1..m : x[i] = snippet[p + i]
  <2>1. p \in Nat /\ p + m <= n
    BY <1>1, <1>3
  <2> HIDE DEF x
  <2> QED BY <1>1, <1>4, <2>1, PartOf DEF x
<1>6. b + p \in 0..(t - m) /\ b + p \in Nat /\ b + p + m <= t
  BY <1>1, <1>2, <1>3
<1>7. y \in Seq(T) /\ Len(y) = m /\ \A i \in 1..m : y[i] = text[b + p + i]
  <2> DEFINE q == b + p
  <2> HIDE DEF q
  <2>1. q \in Nat /\ q + m <= t
    BY <1>6 DEF q
  <2>2. /\ SubSeq(text, q + 1, q + m) \in Seq(T) /\ Len(SubSeq(text, q + 1, q + m)) = m
        /\ \A i \in 1..m : SubSeq(text, q + 1, q + m)[i] = text[q + i]
    BY <1>1, <1>4, <2>1, PartOf
  <2> QED BY <2>2 DEF q
<1> HIDE DEF x, y
<1>8. \A i \in 1..m : x[i] = y[i]
  <2> TAKE i \in 1..m
  <2>1. p + i \in 1..n
    BY <1>1, <1>3
  <2>2. snippet[p + i] = text[b + (p + i)]
    BY <1>2, <2>1 DEF n
  <2>3. b + (p + i) = b + p + i
    BY <1>1, <1>2, <1>3
  <2> QED BY <1>5, <1>7, <2>2, <2>3
<1>9. x = y
  BY <1>1, <1>5, <1>7, <1>8, SeqEqual
<1>10. y = part
  BY <1>3, <1>9 DEF x
<1> QED BY <1>6, <1>10 DEF Quotes, y, t, m

(* Whole lines are a part.                                                 *)
LEMMA StandsIsStretch ==
    ASSUME NEW text, IsSequence(text), NEW location,
           IsSequence(Get(location, "snippet").string), Stands(location, text)
    PROVE  Stretch(text, Get(location, "snippet").string)
<1> DEFINE snippet == Get(location, "snippet").string
           t == Len(text)
           n == Len(snippet)
           T == ToSet(text) \cup ToSet(snippet)
<1>1. t \in Nat /\ n \in Nat
  BY DEF IsSequence
<1>2. PICK p \in 0..(t - n) :
          text = SubSeq(text, 1, p) \o snippet \o SubSeq(text, p + n + 1, t)
  BY DEF Stands
<1> DEFINE before == SubSeq(text, 1, p)
           after == SubSeq(text, p + n + 1, t)
           x == before \o snippet
<1>3. /\ \A i \in 1..t : text[i] \in T
      /\ snippet \in Seq(ToSet(snippet))
      /\ ToSet(snippet) \subseteq T
  BY TextIsSequence
<1>4. snippet \in Seq(T)
  <2> HIDE DEF T, snippet
  <2> QED BY <1>3
<1>12. p \in Nat /\ p + n <= t /\ p <= t
  BY <1>1, <1>2
<1> HIDE DEF snippet, t, n, T
<1>5. before \in Seq(T) /\ Len(before) = p
  <2>1. 1 \in Int /\ p \in Int /\ \A i \in 1..p : text[i] \in T
    BY <1>1, <1>3, <1>12
  <2>2. before \in Seq(T) /\ Len(before) = (IF 1 <= p THEN p - 1 + 1 ELSE 0)
    BY <2>1, SubSeqProperties
  <2> HIDE DEF before
  <2> QED BY <1>12, <2>2
<1>6. after \in Seq(T)
  <2> HIDE DEF after
  <2> DEFINE low == p + n + 1
  <2>1. low \in Int /\ t \in Int /\ \A i \in low..t : text[i] \in T
    BY <1>1, <1>3, <1>12
  <2> HIDE DEF low
  <2>2. SubSeq(text, low, t) \in Seq(T)
    BY <2>1, SubSeqProperties
  <2> QED BY <2>2 DEF low, after
<1>7. Len(snippet) = n
  BY DEF n
<1> HIDE DEF before, after
<1>8. /\ x \in Seq(T) /\ Len(x) = p + n
      /\ \A i \in 1..(p + n) : x[i] = IF i <= p THEN before[i] ELSE snippet[i - p]
  BY <1>4, <1>5, <1>7, ConcatProperties
<1> HIDE DEF x
<1>9. \A i \in 1..(p + n) : (x \o after)[i] = x[i]
  <2>1. /\ Len(after) \in Nat
        /\ \A i \in 1..(p + n + Len(after)) :
              (x \o after)[i] = IF i <= p + n THEN x[i] ELSE after[i - (p + n)]
    BY <1>6, <1>8, ConcatProperties
  <2> HIDE DEF x
  <2> TAKE i \in 1..(p + n)
  <2>2. i \in 1..(p + n + Len(after)) /\ i <= p + n
    BY <1>1, <1>12, <2>1
  <2> QED BY <2>1, <2>2
<1>10. text = x \o after
  BY <1>2 DEF x, before, after
<1>11. \A i \in 1..n : snippet[i] = text[p + i]
  <2> TAKE i \in 1..n
  <2>1. p + i \in 1..(p + n) /\ ~(p + i <= p) /\ p + i - p = i
    BY <1>1, <1>2
  <2> QED BY <1>8, <1>9, <1>10, <2>1
<1> QED BY <1>2, <1>11 DEF Stretch, snippet, t, n

(* What each finding has passed.                                           *)
FindingPassed(d, asked, f) ==
    LET step == StepOf(d, Get(f, "step_id"))
        evidence == Get(f, "input_evidence")
    IN  /\ FindingShape(f) /\ Placed(f, SourceLines(Code(asked))) /\ Evident(f, asked)
        /\ HasExactly(evidence, {"source", "excerpt"})
        /\ Bounded(Get(evidence, "excerpt"), Limit.text)
        /\ Get(f, "step_id") # Null =>
              /\ step # 0
              /\ Within(Get(f, "code_location"), Get(StepsIn(d)[step], "code_location"))
        /\ Parts(f) \subseteq Values(d)
        /\ \A a \in Parts(f) : Parts(a) \subseteq Values(d)

LEMMA FindingsPass ==
    ASSUME NEW d, IsValue(d), NEW asked, ValidateDiagnosis(d, asked) = "parsed",
           NEW i \in 1..Len(Found(d))
    PROVE  FindingPassed(d, asked, Found(d)[i])
<1> DEFINE f == Found(d)[i]
           lines == SourceLines(Code(asked))
<1>1. Passed(d, asked) /\ DOMAIN Found(d) = 1..Len(Found(d))
  BY ParsedIsPassed
<1>2. IsObject(d) /\ "findings" \in DOMAIN d.object /\ IsArray(Get(d, "findings"))
  BY <1>1 DEF Passed, IdentityHolds, HasExactly, DiagnosisKeys
<1>3. FindingVerdict(d, i, asked, lines) = "parsed"
  BY <1>1 DEF Passed
<1>4. /\ FindingShape(f) /\ Placed(f, lines) /\ Evident(f, asked)
      /\ HasExactly(Get(f, "input_evidence"), {"source", "excerpt"})
      /\ Bounded(Get(Get(f, "input_evidence"), "excerpt"), Limit.text)
      /\ Get(f, "step_id") # Null =>
            /\ StepOf(d, Get(f, "step_id")) # 0
            /\ Within(Get(f, "code_location"),
                      Get(StepsIn(d)[StepOf(d, Get(f, "step_id"))], "code_location"))
  BY <1>3, ZenonT(30) DEF FindingVerdict, Schema, Semantic, Found, StepsIn
<1>5. Get(d, "findings") \in Parts(d) /\ f \in Parts(Get(d, "findings"))
  BY <1>1, <1>2, FieldIsPart, ItemIsPart DEF Found
<1> HIDE DEF f, lines
<1>6. \A a \in Parts(f) : a \in Values(d) /\ Parts(a) \subseteq Values(d)
  BY <1>5, PartsAreValues
<1> QED BY <1>4, <1>6 DEF FindingPassed, f, lines

(* A located finding lies on whole lines, within its step.                 *)
LEMMA FindingsStand ==
    ASSUME NEW d, IsValue(d), NEW asked, IsSequence(Code(asked)),
           Len(StepsIn(d)) \in Nat, DOMAIN StepsIn(d) = 1..Len(StepsIn(d)),
           NEW f, FindingPassed(d, asked, f), Get(f, "code_location") # Null
    PROVE  /\ Stands(Get(f, "code_location"), Code(asked))
           /\ IsSequence(Get(Get(f, "code_location"), "snippet").string)
           /\ \E i \in {j \in DOMAIN StepsIn(d) : Get(StepsIn(d)[j], "id") = Get(f, "step_id")} :
                  Within(Get(f, "code_location"), Get(StepsIn(d)[i], "code_location"))
<1> DEFINE location == Get(f, "code_location")
           k == StepOf(d, Get(f, "step_id"))
<1>1. /\ FindingShape(f) /\ Placed(f, SourceLines(Code(asked)))
      /\ Get(f, "step_id") # Null =>
            k # 0 /\ Within(location, Get(StepsIn(d)[k], "code_location"))
      /\ \A a \in Parts(f) : Parts(a) \subseteq Values(d)
  BY DEF FindingPassed
<1>2. ValidLocation(location, SourceLines(Code(asked))) /\ Get(f, "step_id") # Null
  BY <1>1 DEF Placed
<1>3. IsObject(f) /\ "code_location" \in DOMAIN f.object
  BY <1>1 DEF FindingShape, HasExactly, FindingKeys
<1>4. location \in Parts(f)
  BY <1>3, FieldIsPart
<1> HIDE DEF location, k
<1>5. Parts(location) \subseteq Values(d)
  BY <1>1, <1>4
<1>6. Stands(location, Code(asked))
  BY <1>2, <1>5, LocatedStands
<1>7. IsSequence(Get(location, "snippet").string)
  <2>1. /\ IsObject(location) /\ "snippet" \in DOMAIN location.object
        /\ IsText(Get(location, "snippet"))
    BY <1>2 DEF ValidLocation, HasExactly, Bounded
  <2>2. Get(location, "snippet") \in Values(d)
    BY <1>5, <2>1, FieldIsPart
  <2> QED BY <2>1, <2>2 DEF IsValue
<1>8. k \in 1..Len(StepsIn(d)) /\ Get(StepsIn(d)[k], "id") = Get(f, "step_id")
  BY <1>1, <1>2, StepOfIsFirst DEF k, StepsIn
<1> QED BY <1>1, <1>2, <1>6, <1>7, <1>8 DEF location, k

(* A finding quotes an input that was given.                               *)
LEMMA FindingsQuote ==
    ASSUME NEW d, IsValue(d), NEW asked, WellFormed(asked),
           Len(StepsIn(d)) \in Nat, DOMAIN StepsIn(d) = 1..Len(StepsIn(d)),
           NEW f, FindingPassed(d, asked, f)
    PROVE  LET evidence == Get(f, "input_evidence")
               source == Get(evidence, "source").string[1]
           IN  /\ IsText(Get(asked, source))
               /\ Quotes(Get(asked, source).string, Get(evidence, "excerpt").string)
               /\ AboutReasoning(f) => source = "reasoning"
<1> DEFINE evidence == Get(f, "input_evidence")
           source == Get(evidence, "source")
           excerpt == Get(evidence, "excerpt").string
           location == Get(f, "code_location")
<1>1. /\ FindingShape(f) /\ Evident(f, asked)
      /\ HasExactly(evidence, {"source", "excerpt"}) /\ IsText(Get(evidence, "excerpt"))
      /\ \A a \in Parts(f) : Parts(a) \subseteq Values(d)
  BY DEF FindingPassed, Bounded
<1>2. IsObject(f) /\ "input_evidence" \in DOMAIN f.object
  BY <1>1 DEF FindingShape, HasExactly, FindingKeys
<1>3. Get(evidence, "excerpt") \in Values(d)
  <2>1. evidence \in Parts(f)
    BY <1>2, FieldIsPart
  <2>2. Get(evidence, "excerpt") \in Parts(evidence)
    BY <1>1, FieldIsPart DEF HasExactly
  <2> QED BY <1>1, <2>1, <2>2
<1>4. IsSequence(excerpt)
  BY <1>1, <1>3 DEF IsValue
<1>5. /\ SourceText(asked, f) # Null
      /\ Quotes(SourceText(asked, f).string, excerpt)
      /\ AboutReasoning(f) => Is(evidence, "source", "reasoning")
  BY <1>1 DEF Evident
<1>6. /\ IsText(Get(asked, "cpp_solution")) /\ IsSequence(Code(asked))
      /\ \A k \in Inputs : Get(asked, k) = Null \/ IsText(Get(asked, k))
  BY DEF WellFormed, Code
<1>7. CASE \E k \in Inputs : source = Word(k)
  <2>1. PICK k \in Inputs : source = Word(k)
    BY <1>7
  <2>2. source.string[1] = k
    BY <2>1 DEF Word, Text
  <2>3. SourceText(asked, f) = Get(asked, k)
    <3>1. source \in {Word("problem_statement"), Word("reasoning"), Word("user_notes")}
      BY <2>1 DEF Inputs
    <3> HIDE DEF evidence
    <3>2. SourceText(asked, f) = Get(asked, source.string[1])
      BY <3>1, Zenon DEF SourceText, evidence
    <3> QED BY <2>2, <3>2
  <2>4. AboutReasoning(f) => source.string[1] = "reasoning"
    <3>1. SUFFICES ASSUME AboutReasoning(f) PROVE source.string[1] = "reasoning"
      OBVIOUS
    <3>2. source = Word("reasoning")
      <4>1. IsObject(evidence) /\ "source" \in DOMAIN evidence.object
        BY <1>1 DEF HasExactly
      <4> QED BY <1>5, <3>1, <4>1 DEF Is, Read, Has
    <3> QED BY <3>2 DEF Word, Text
  <2> HIDE DEF source, excerpt
  <2>5. IsText(Get(asked, k)) /\ Quotes(Get(asked, k).string, excerpt)
    BY <1>5, <1>6, <2>3
  <2> QED BY <2>2, <2>4, <2>5 DEF source, excerpt
<1>8. CASE ~\E k \in Inputs : source = Word(k)
  <2>1. source \notin {Word("problem_statement"), Word("reasoning"), Word("user_notes")}
    BY <1>8 DEF Inputs
  <2>2. source = Word("cpp_solution") /\ location # Null
        /\ SourceText(asked, f) = Get(location, "snippet")
    BY <1>5, <2>1, Zenon DEF SourceText
  <2>3. source.string[1] = "cpp_solution"
    BY <2>2 DEF Word, Text
  <2>4. /\ Stands(location, Code(asked))
        /\ IsSequence(Get(location, "snippet").string)
    BY <1>6, <2>2, FindingsStand
  <2>5. Quotes(Code(asked), excerpt)
    <3>1. Quotes(Get(location, "snippet").string, excerpt)
      BY <1>5, <2>2
    <3> HIDE DEF location, excerpt
    <3> QED BY <1>4, <1>6, <2>4, <3>1, StandsIsStretch, QuotesWithin
  <2>6. ~AboutReasoning(f)
    <3>1. SUFFICES ASSUME AboutReasoning(f) PROVE FALSE
      OBVIOUS
    <3>2. source = Word("reasoning")
      <4>1. IsObject(evidence) /\ "source" \in DOMAIN evidence.object
        BY <1>1 DEF HasExactly
      <4> QED BY <1>5, <3>1, <4>1 DEF Is, Read, Has
    <3> QED BY <2>1, <3>2
  <2> QED BY <1>6, <2>3, <2>5, <2>6 DEF Code
<1> QED BY <1>7, <1>8

(* The status, the first error and the counterexample follow the findings. *)
LEMMA ClaimsFollow ==
    ASSUME NEW d, IsValue(d), NEW asked, ValidateDiagnosis(d, asked) = "parsed"
    PROVE  LET findings == ToSet(Found(d))
           IN  /\ Is(d, "status", "incorrect") <=> findings # {}
               /\ Get(d, "primary_category") # Null <=> findings # {}
               /\ Is(Get(d, "counterexample"), "availability", "provided") => findings # {}
               /\ Get(Get(d, "first_error"), "step_id") # Null =>
                     Is(d, "status", "incorrect") /\ FirstErrorHolds(d)
<1> DEFINE findings == ToSet(Found(d))
           categories == {Get(f, "category") : f \in findings}
           counter == Get(d, "counterexample")
<1>1. Passed(d, asked) /\ DOMAIN Found(d) = 1..Len(Found(d))
  BY ParsedIsPassed
<1>2. \A f \in findings : Get(f, "category") # Null
  <2> TAKE f \in findings
  <2>1. PICK i \in 1..Len(Found(d)) : f = Found(d)[i]
    BY <1>1 DEF ToSet
  <2>2. FindingPassed(d, asked, f)
    BY <2>1, FindingsPass
  <2>3. IsText(Get(f, "category"))
    BY <2>2 DEF FindingPassed, FindingShape, Bounded
  <2> QED BY <2>3 DEF IsText, Null
<1> HIDE DEF findings
<1>3. CASE Is(d, "status", "incorrect")
  <2>1. Get(d, "primary_category") \in categories /\ FirstErrorHolds(d)
    BY <1>1, <1>3 DEF Passed, StatusHolds, Found, findings
  <2>2. findings # {} /\ Get(d, "primary_category") # Null
    BY <1>2, <2>1
  <2> QED BY <1>3, <2>1, <2>2 DEF findings
<1>4. CASE ~Is(d, "status", "incorrect")
  <2>1. /\ Get(d, "primary_category") = Null /\ categories = {}
        /\ Get(Get(d, "first_error"), "step_id") = Null
    BY <1>1, <1>4 DEF Passed, StatusHolds, Found, findings
  <2>2. findings = {}
    BY <2>1
  <2>3. ~Is(counter, "availability", "provided")
    <3>1. Is(counter, "availability", "unavailable")
      BY <1>1, <1>4 DEF Passed, CounterexampleHolds
    <3>2. Word("provided") # Word("unavailable")
      BY DEF Word, Text
    <3> QED BY <3>1, <3>2 DEF Is
  <2> QED BY <1>4, <2>1, <2>2, <2>3 DEF findings
<1> QED BY <1>3, <1>4

(* No finding is about an earlier step than the first error.               *)
LEMMA FirstErrorIsFirst ==
    ASSUME NEW d, Len(StepsIn(d)) \in Nat, DOMAIN StepsIn(d) = 1..Len(StepsIn(d)),
           FirstErrorHolds(d), ToSet(Found(d)) # {},
           Get(Get(d, "first_error"), "step_id") # Null
    PROVE  LET first == Get(Get(d, "first_error"), "step_id")
           IN  /\ StepOf(d, first) \in 1..Len(StepsIn(d))
               /\ Get(StepsIn(d)[StepOf(d, first)], "id") = first
               /\ \E f \in ToSet(Found(d)) : Get(f, "step_id") = first
               /\ \A f \in ToSet(Found(d)) :
                     /\ StepOf(d, Get(f, "step_id")) \in 1..Len(StepsIn(d))
                     /\ StepOf(d, first) <= StepOf(d, Get(f, "step_id"))
                     /\ Get(StepsIn(d)[StepOf(d, Get(f, "step_id"))], "id") = Get(f, "step_id")
<1> DEFINE first == Get(Get(d, "first_error"), "step_id")
           findings == ToSet(Found(d))
           named == {Get(f, "step_id") : f \in findings}
           M == {StepOf(d, s) : s \in named}
           k == StepOf(d, first)
<1>1. k # 0 /\ k = Min(M)
  BY DEF FirstErrorHolds, Found
<1>2. \A s : /\ StepOf(d, s) \in Nat
             /\ StepOf(d, s) # 0 =>
                   /\ StepOf(d, s) \in 1..Len(StepsIn(d))
                   /\ Get(StepsIn(d)[StepOf(d, s)], "id") = s
  BY StepOfIsFirst DEF StepsIn
<1> HIDE DEF first, findings, k
<1>3. M \in SUBSET Nat /\ M # {}
  BY <1>2 DEF findings
<1> HIDE DEF M
<1>4. Min(M) \in M /\ \A m \in M : Min(M) <= m
  BY <1>3, NatMin
<1>5. \A f \in findings : StepOf(d, Get(f, "step_id")) \in M
  BY DEF M
<1>6. k \in 1..Len(StepsIn(d)) /\ Get(StepsIn(d)[k], "id") = first
  BY <1>1, <1>2 DEF k
<1>7. \E f \in findings : Get(f, "step_id") = first
  <2>1. k \in M
    BY <1>1, <1>4
  <2>2. PICK f \in findings : StepOf(d, Get(f, "step_id")) = k
    BY <2>1 DEF M
  <2>3. Get(StepsIn(d)[k], "id") = Get(f, "step_id")
    BY <1>1, <1>2, <2>2
  <2> QED BY <1>6, <2>3
<1>8. ASSUME NEW f \in findings
      PROVE  /\ StepOf(d, Get(f, "step_id")) \in 1..Len(StepsIn(d))
             /\ k <= StepOf(d, Get(f, "step_id"))
             /\ Get(StepsIn(d)[StepOf(d, Get(f, "step_id"))], "id") = Get(f, "step_id")
  <2> DEFINE n == StepOf(d, Get(f, "step_id"))
  <2>1. k <= n /\ n \in Nat
    BY <1>1, <1>2, <1>4, <1>5
  <2> HIDE DEF n
  <2>2. n # 0
    BY <1>6, <2>1
  <2> QED BY <1>2, <2>1, <2>2 DEF n
<1> QED BY <1>6, <1>7, <1>8 DEF k, first, findings

(* A strictly validated diagnosis is grounded.                             *)
LEMMA ParsedIsGrounded ==
    ASSUME NEW d, IsValue(d), NEW asked, WellFormed(asked),
           ValidateDiagnosis(d, asked) = "parsed"
    PROVE  IsGrounded(d, asked)
<1> DEFINE Location(o) == Get(o, "code_location")
           StepsOf(f) == {i \in DOMAIN StepsIn(d) : Get(StepsIn(d)[i], "id") = Get(f, "step_id")}
           Source(f) == Get(Get(f, "input_evidence"), "source").string[1]
           Excerpt(f) == Get(Get(f, "input_evidence"), "excerpt").string
           first == Get(Get(d, "first_error"), "step_id")
           findings == ToSet(Found(d))
<1>1. /\ Passed(d, asked)
      /\ Len(StepsIn(d)) \in Nat /\ DOMAIN StepsIn(d) = 1..Len(StepsIn(d))
      /\ Len(Found(d)) \in Nat /\ DOMAIN Found(d) = 1..Len(Found(d))
  BY ParsedIsPassed
<1>2. IsSequence(Code(asked))
  BY DEF WellFormed, Code
<1>3. Get(d, "request_id") = Get(asked, "request_id")
  BY <1>1 DEF Passed, IdentityHolds
<1>4. \A s \in ToSet(StepsIn(d)) : Stands(Location(s), Code(asked))
  BY <1>1, <1>2, StepsStand DEF ToSet
<1>5. \A f \in findings : FindingPassed(d, asked, f)
  BY <1>1, FindingsPass DEF ToSet
<1>6. \A f \in findings :
         /\ Location(f) # Null =>
               /\ Stands(Location(f), Code(asked))
               /\ \E i \in StepsOf(f) : Within(Location(f), Location(StepsIn(d)[i]))
         /\ IsText(Get(asked, Source(f)))
         /\ Quotes(Get(asked, Source(f)).string, Excerpt(f))
         /\ AboutReasoning(f) => Source(f) = "reasoning"
  <2> TAKE f \in findings
  <2>1. FindingPassed(d, asked, f)
    BY <1>5
  <2>2. Location(f) # Null =>
           /\ Stands(Location(f), Code(asked))
           /\ \E i \in StepsOf(f) : Within(Location(f), Location(StepsIn(d)[i]))
    BY <1>1, <1>2, <2>1, FindingsStand
  <2>3. /\ IsText(Get(asked, Source(f)))
        /\ Quotes(Get(asked, Source(f)).string, Excerpt(f))
        /\ AboutReasoning(f) => Source(f) = "reasoning"
    BY <1>1, <2>1, FindingsQuote
  <2> QED BY <2>2, <2>3
<1>7. /\ Is(d, "status", "incorrect") <=> findings # {}
      /\ Get(d, "primary_category") # Null <=> findings # {}
      /\ Is(Get(d, "counterexample"), "availability", "provided") => findings # {}
      /\ first # Null => findings # {} /\ FirstErrorHolds(d)
  BY ClaimsFollow
<1>8. first # Null =>
         /\ \E f \in findings : Get(f, "step_id") = first
         /\ \A f \in findings : \E i \in StepsOf(f) :
               \E j \in 1..i : Get(StepsIn(d)[j], "id") = first
  <2> SUFFICES ASSUME first # Null
               PROVE  /\ \E f \in findings : Get(f, "step_id") = first
                      /\ \A f \in findings : \E i \in StepsOf(f) :
                            \E j \in 1..i : Get(StepsIn(d)[j], "id") = first
    OBVIOUS
  <2> DEFINE k == StepOf(d, first)
             At(f) == StepOf(d, Get(f, "step_id"))
  <2>1. /\ k \in 1..Len(StepsIn(d)) /\ Get(StepsIn(d)[k], "id") = first
        /\ \E f \in findings : Get(f, "step_id") = first
        /\ \A f \in findings :
              /\ At(f) \in 1..Len(StepsIn(d)) /\ k <= At(f)
              /\ Get(StepsIn(d)[At(f)], "id") = Get(f, "step_id")
    BY <1>1, <1>7, FirstErrorIsFirst
  <2> HIDE DEF k, At, first
  <2>2. ASSUME NEW f \in findings
        PROVE  \E i \in StepsOf(f) : \E j \in 1..i : Get(StepsIn(d)[j], "id") = first
    <3>1. At(f) \in StepsOf(f)
      BY <1>1, <2>1, <2>2
    <3>2. k \in 1..At(f)
      BY <1>1, <2>1, <2>2
    <3> QED BY <2>1, <3>1, <3>2
  <2> QED BY <2>1, <2>2
<1> HIDE DEF findings, first
<1> QED
  BY <1>3, <1>4, <1>6, <1>7, <1>8 DEF IsGrounded, Code, StepsIn, Found, findings, first

----------------------------------------------------------------------------
(* The demo's documents, from the body to the verdict                      *)

(* What is known of the request and the answer at each stage.              *)
DocumentInv ==
    /\ stage = "posted" => post \in Posts
    /\ stage \in {"accepted", "asked", "judged"} => WellFormed(request)
    /\ stage = "judged" => answer \in Answers /\ verdict = ParseStatus(answer, request)

LEMMA BodyIsWellFormed ==
    ASSUME NEW p \in Posts, BodyError(p) = "ok"
    PROVE  WellFormed(Canonical(p.value))
<1>1. p.form = "json" /\ RequestError(p.value) = "ok" /\ IsValue(p.value)
  BY DocumentsAssumption DEF BodyError
<1>2. /\ IsObject(p.value) /\ RequiredKeys \subseteq DOMAIN p.value.object
      /\ FieldOk(Get(p.value, "cpp_solution"), Limit["cpp_solution"], TRUE)
  BY <1>1 DEF RequestError
<1>3. Get(p.value, "cpp_solution") \in Values(p.value)
  BY <1>2, FieldIsPart, PartsAreValues DEF RequiredKeys
<1>4. IsText(Get(p.value, "cpp_solution"))
  BY <1>2 DEF FieldOk
<1>5. IsSequence(Get(p.value, "cpp_solution").string)
  BY <1>1, <1>3, <1>4 DEF IsValue
<1> QED BY <1>5, CanonicalIsWellFormed

LEMMA DocumentStep == ASSUME DocumentInv, PathNext PROVE DocumentInv'
<1>1. ASSUME NEW p \in Posts, Arrive(p) PROVE DocumentInv'
  BY <1>1 DEF Arrive, DocumentInv
<1>2. ASSUME NEW code, Refuse(code) PROVE DocumentInv'
  BY <1>2 DEF Refuse, DocumentInv
<1>3. CASE Check
  <2>1. CASE BodyError(post) # "ok"
    BY <1>2, <1>3, <2>1 DEF Check
  <2>2. CASE BodyError(post) = "ok"
    <3>1. stage' = "accepted" /\ request' = Canonical(post.value) /\ post \in Posts
      BY <1>3, <2>2 DEF Check, DocumentInv
    <3>2. WellFormed(request')
      BY <2>2, <3>1, BodyIsWellFormed
    <3> QED BY <3>1, <3>2 DEF DocumentInv, WellFormed
  <2> QED BY <2>1, <2>2
<1>4. ASSUME NEW t \in Templates, Prepare(t) PROVE DocumentInv'
  <2>1. CASE PromptError(t, request) # "ok"
    BY <1>2, <1>4, <2>1 DEF Prepare
  <2>2. CASE PromptError(t, request) = "ok"
    <3>1. stage' = "asked" /\ request' = Canonical(request) /\ WellFormed(request)
      BY <1>4, <2>2 DEF Prepare, DocumentInv
    <3>2. WellFormed(request')
      BY <3>1, CanonicalIsWellFormed DEF WellFormed
    <3> QED BY <3>1, <3>2 DEF DocumentInv, WellFormed
  <2> QED BY <2>1, <2>2
<1>5. ASSUME NEW a \in Answers, Judge(a) PROVE DocumentInv'
  <2>1. /\ stage' = "judged" /\ answer' = a /\ request' = request
        /\ verdict' = ParseStatus(answer', request') /\ WellFormed(request)
    BY <1>5 DEF Judge, DocumentInv
  <2>2. WellFormed(request')
    BY <2>1
  <2> HIDE DEF WellFormed
  <2> QED BY <1>5, <2>1, <2>2 DEF DocumentInv
<1> QED BY <1>1, <1>3, <1>4, <1>5 DEF PathNext

(* What is shown as a diagnosis is grounded (DiagnosisIsGrounded), for     *)
(* every limit, template, body and answer.                                 *)
THEOREM DiagnosesAreGrounded == EvaluationsSpec => []DiagnosisIsGrounded
<1>1. EvaluationsInit => DocumentInv
  BY DEF EvaluationsInit, DocumentsInit, PathInit, DocumentInv
<1>2. DocumentInv /\ [EvaluationsNext]_<<vars, path, evaluation>> => DocumentInv'
  <2> SUFFICES ASSUME DocumentInv, [EvaluationsNext]_<<vars, path, evaluation>>
               PROVE  DocumentInv'
    OBVIOUS
  <2>1. CASE UNCHANGED path
    BY <2>1 DEF path, DocumentInv, WellFormed
  <2>2. CASE PathNext
    BY <2>2, DocumentStep
  <2> QED BY <2>1, <2>2 DEF EvaluationsNext, DocumentsNext
<1>3. DocumentInv => DiagnosisIsGrounded
  <2> SUFFICES ASSUME DocumentInv, stage = "judged", verdict = "parsed"
               PROVE  IsGrounded(answer.value, request)
    BY DEF DiagnosisIsGrounded
  <2>1. answer \in Answers /\ ParseStatus(answer, request) = "parsed" /\ WellFormed(request)
    BY DEF DocumentInv
  <2>2. answer.form = "json" /\ ValidateDiagnosis(answer.value, request) = "parsed"
    BY <2>1, DocumentsAssumption DEF ParseStatus
  <2>3. IsValue(answer.value)
    BY <2>1, <2>2, DocumentsAssumption
  <2> QED BY <2>1, <2>2, <2>3, ParsedIsGrounded
<1> QED BY <1>1, <1>2, <1>3, PTL DEF EvaluationsSpec

----------------------------------------------------------------------------
(* What the rows of a report stand on                                      *)

(* A sample is found by its id.                                            *)
LEMMA SampleIsFound ==
    ASSUME NEW d, IsSequence(d.samples), OnlyOnce(d.samples, LAMBDA s : s.id),
           NEW i \in DOMAIN d.samples
    PROVE  SampleOf(d, d.samples[i].id) = d.samples[i]
<1> DEFINE samples == d.samples
           key == samples[i].id
           I == {j \in 1..Len(samples) : samples[j].id = key}
           k == SelectInSeq(samples, LAMBDA s : s.id = key)
<1>1. DOMAIN samples = 1..Len(samples) /\ Len(samples) \in Nat
  BY TextIsSequence
<1>2. k = IF I # {} THEN Min(I) ELSE 0
  BY DEF SelectInSeq
<1>3. i \in I /\ I \in SUBSET Nat
  BY <1>1
<1>4. \A j \in I : j = i
  BY <1>1 DEF OnlyOnce
<1>5. SampleOf(d, key) = samples[k]
  BY DEF SampleOf
<1> HIDE DEF I, k, samples, key
<1>6. Min(I) \in I
  BY <1>3, NatMin
<1>7. k = i
  BY <1>2, <1>3, <1>4, <1>6
<1> QED BY <1>5, <1>7 DEF samples, key

(* The key of a solution's run is not that of the candidate's.              *)
LEMMA KeysDiffer ==
    ASSUME NEW key, IsSequence(key)
    PROVE  EvidenceId(key, FALSE) = key /\ EvidenceId(key, TRUE) # key
<1>1. key \in Seq(ToSet(key)) /\ Len(key) \in Nat
  BY TextIsSequence
<1>2. key \o <<>> = key
  BY <1>1
<1>3. Len(key \o <<"_solution">>) = Len(key) + 1
  BY <1>1
<1>4. key \o <<"_solution">> # key
  BY <1>1, <1>3
<1> QED BY <1>2, <1>4 DEF EvidenceId

(* A wrong answer is a run of the sample's own code, on the tests of its   *)
(* problem, that ended well with another output.                           *)
HasRuns(e) == \A x \in ToSet(e.results) : IsSequence(x.tests)
Says(x, outcome) == \E t \in ToSet(x.tests) : t.outcome = outcome
NoneSays(e, outcome) == \A x \in ToSet(e.results) : ~Says(x, outcome)
ShownWrong(e, key, code) ==
    \E x \in ToSet(e.results) :
        /\ x.id = key /\ x.source = code /\ x.compile = "success"
        /\ \E t \in ToSet(x.tests) :
              t.outcome = "success" /\ ~SameOutput(t.stdout, t.expected_output)

(* What a verdict says of the runs, but for one that an outcome claims.    *)
LEMMA VerdictIsShown ==
    ASSUME NEW x, IsSequence(x.tests)
    PROVE  /\ AnswerVerdict(x) = "wrong_answer" /\ ~Says(x, "wrong_answer") =>
                 /\ x.compile = "success"
                 /\ \E t \in ToSet(x.tests) :
                       t.outcome = "success" /\ ~SameOutput(t.stdout, t.expected_output)
           /\ AnswerVerdict(x) = "passed" /\ ~Says(x, "passed") =>
                 /\ x.compile = "success"
                 /\ \A t \in ToSet(x.tests) :
                       t.outcome = "success" /\ SameOutput(t.stdout, t.expected_output)
           /\ /\ x.compile = "success"
              /\ \A t \in ToSet(x.tests) :
                    t.outcome = "success" /\ SameOutput(t.stdout, t.expected_output)
              => AnswerVerdict(x) = "passed"
<1> DEFINE tests == x.tests
           failed == {i \in DOMAIN tests : tests[i].outcome # "success"}
           last == IF failed = {} THEN 0 ELSE Max(failed)
           said == IF failed = {} THEN "passed" ELSE tests[last].outcome
           Differs(t) == ~SameOutput(t.stdout, t.expected_output)
           later == \E i \in DOMAIN tests : i > last /\ Differs(tests[i])
<1>1. AnswerVerdict(x) = IF x.compile # "success" THEN "compile_error"
                         ELSE IF said = "passed" /\ later THEN "wrong_answer" ELSE said
  BY DEF AnswerVerdict
<1>2. DOMAIN tests = 1..Len(tests) /\ Len(tests) \in Nat
  BY TextIsSequence
<1>3. \A i \in DOMAIN tests : tests[i] \in ToSet(tests)
  BY DEF ToSet
<1>4. \A t \in ToSet(tests) : \E i \in DOMAIN tests : t = tests[i]
  BY DEF ToSet
<1>5. failed # {} => last \in failed /\ \A i \in failed : ~(i > last)
  <2>1. failed \in SUBSET (0..Len(tests))
    BY <1>2
  <2> HIDE DEF failed, tests
  <2>2. ASSUME failed # {} PROVE Max(failed) \in failed /\ \A i \in failed : i <= Max(failed)
    BY <1>2, <2>1, <2>2, NatMax
  <2>3. \A i, j \in failed : i <= j => ~(i > j)
    BY <1>2, <2>1
  <2> QED BY <2>2, <2>3
<1>6. \A i \in DOMAIN tests : i \notin failed => tests[i].outcome = "success"
  OBVIOUS
<1>7. \A i \in DOMAIN tests : failed = {} => i > last
  BY <1>2
<1>8. failed # {} => tests[last] \in ToSet(tests) /\ tests[last].outcome # "success"
  <2> HIDE DEF last
  <2> QED BY <1>3, <1>5
<1> HIDE DEF failed, last
<1>9. ASSUME AnswerVerdict(x) = "wrong_answer", ~Says(x, "wrong_answer")
      PROVE  /\ x.compile = "success"
             /\ \E t \in ToSet(tests) : t.outcome = "success" /\ Differs(t)
  <2>1. x.compile = "success"
    BY <1>1, <1>9
  <2>2. said # "wrong_answer"
    BY <1>8, <1>9 DEF Says
  <2>3. later
    <3> HIDE DEF said, later
    <3> QED BY <1>1, <1>9, <2>1, <2>2
  <2>4. PICK i \in DOMAIN tests : i > last /\ Differs(tests[i])
    BY <2>3
  <2>5. i \notin failed
    BY <1>5, <2>4
  <2> QED BY <1>3, <1>6, <2>1, <2>4, <2>5
<1>10. ASSUME AnswerVerdict(x) = "passed", ~Says(x, "passed")
       PROVE  /\ x.compile = "success"
              /\ \A t \in ToSet(tests) : t.outcome = "success" /\ ~Differs(t)
  <2>1. x.compile = "success"
    BY <1>1, <1>10
  <2>2. said = "passed" /\ ~later
    <3> HIDE DEF said, later
    <3> QED BY <1>1, <1>10, <2>1
  <2>3. failed = {}
    BY <1>8, <1>10, <2>2 DEF Says
  <2>4. \A i \in DOMAIN tests : tests[i].outcome = "success" /\ ~Differs(tests[i])
    BY <1>6, <1>7, <2>2, <2>3
  <2> QED BY <1>4, <2>1, <2>4
<1>11. ASSUME x.compile = "success",
              \A t \in ToSet(tests) : t.outcome = "success" /\ ~Differs(t)
       PROVE  AnswerVerdict(x) = "passed"
  <2>1. failed = {}
    BY <1>8, <1>11
  <2>2. ~later
    BY <1>3, <1>11
  <2> HIDE DEF later
  <2> QED BY <1>1, <1>11, <2>1, <2>2
<1> QED BY <1>9, <1>10, <1>11

LEMMA WrongAnswerIsShown ==
    ASSUME NEW d, NEW records, NEW e, EvidenceHolds(d, records, e), HasRuns(e),
           NoneSays(e, "wrong_answer"),
           NEW r \in ToSet(records), IsSequence(r.sample_id),
           AnswerStatus(d, r, FALSE, e) = "wrong_answer"
    PROVE  ShownWrong(e, r.sample_id, SampleOf(d, r.sample_id).code)
<1> DEFINE L == {k \in LookedUp(d, r) : k.key = EvidenceId(r.sample_id, FALSE)}
           found == UNION {ResultFor(e, l.key) : l \in L}
           x == CHOOSE run \in found : TRUE
<1>1. found # {} /\ AnswerVerdict(x) = "wrong_answer"
  BY DEF AnswerStatus
<1>2. x \in found
  <2> HIDE DEF found
  <2> QED BY <1>1
<1> HIDE DEF x
<1>3. PICK l \in L : x \in ResultFor(e, l.key)
  BY <1>2
<1>4. l.key = r.sample_id /\ l.source = SampleOf(d, r.sample_id).code
  <2>1. l.key = EvidenceId(r.sample_id, FALSE) /\ l \in LookedUp(d, r)
    BY <1>3
  <2>2. l.key # EvidenceId(r.sample_id, TRUE)
    BY <2>1, KeysDiffer
  <2>3. l = [key |-> EvidenceId(r.sample_id, FALSE), source |-> SampleOf(d, r.sample_id).code]
    <3> DEFINE own == [key |-> EvidenceId(r.sample_id, FALSE),
                       source |-> SampleOf(d, r.sample_id).code]
               solution == [key |-> EvidenceId(r.sample_id, TRUE), source |-> SourceOf(r)]
    <3>1. l = own \/ l = solution
      BY <2>1 DEF LookedUp
    <3>2. solution.key = EvidenceId(r.sample_id, TRUE)
      OBVIOUS
    <3> HIDE DEF own, solution
    <3>3. l = own
      BY <2>2, <3>1, <3>2
    <3> QED BY <3>3 DEF own
  <2> QED BY <2>3, KeysDiffer
<1>5. ResultHolds(x, l.source, ProblemOf(d, SampleOf(d, r.sample_id)))
  BY <1>3 DEF EvidenceHolds
<1>6. x \in ToSet(e.results) /\ x.id = l.key
  BY <1>3 DEF ResultFor
<1>7. x.source = l.source
  BY <1>5 DEF ResultHolds
<1>8. /\ x.compile = "success"
      /\ \E t \in ToSet(x.tests) :
            t.outcome = "success" /\ ~SameOutput(t.stdout, t.expected_output)
  <2>1. IsSequence(x.tests) /\ ~Says(x, "wrong_answer")
    BY <1>6 DEF HasRuns, NoneSays
  <2> QED BY <1>1, <2>1, VerdictIsShown
<1> QED BY <1>4, <1>6, <1>7, <1>8 DEF ShownWrong

(* A row with a hit is of a record that was parsed, whose diagnosis hits,  *)
(* and whose candidate was shown to be wrong.                              *)
LEMMA HitOfRow ==
    ASSUME NEW d, NEW s, NEW found, NEW e, NEW review,
           "location_hit" \in Row(d, s, found, e, review).counted
    PROVE  LET r == CHOOSE own \in found : TRUE
           IN  /\ found # {} /\ IsParsed(r) /\ Hit(s, Diagnosed(r))
               /\ AnswerStatus(d, r, FALSE, e) = "wrong_answer"
               /\ Row(d, s, found, e, review).counted \cap {"agreement", "failed", "undetermined"}
                      \subseteq {"agreement"}
<1> DEFINE r == CHOOSE own \in found : TRUE
           exists == found # {}
           valid == exists /\ IsParsed(r)
           predicted == IF valid THEN Get(Diagnosed(r), "status").string[1] ELSE "failed"
           solved == IF exists THEN AnswerStatus(d, r, TRUE, e) ELSE "unverified"
           process == IF exists THEN ProcessStatus(r, review) ELSE "unreviewed"
           candidate == IF exists THEN AnswerStatus(d, r, FALSE, e) ELSE "unverified"
           eligible == candidate = "wrong_answer" /\ s.gold.first_error # <<>>
           isCorrect == s.gold.process_status = "correct"
           Counts(name, holds) == IF holds THEN {name} ELSE {}
           hit == eligible /\ predicted = "incorrect" /\ Hit(s, Diagnosed(r))
           counted ==
             {"n"}
             \cup Counts("agreement", predicted = s.gold.process_status)
             \cup Counts("failed", ~valid)
             \cup Counts("undetermined", predicted = "undetermined")
             \cup Counts("process_correct", isCorrect)
             \cup Counts("false_positive", isCorrect /\ predicted = "incorrect")
             \cup Counts("answer_verified", solved # "unverified")
             \cup Counts("answer_passed", solved = "passed")
             \cup Counts("process_reviewed", process # "unreviewed")
             \cup Counts("process_passed", process = "correct")
             \cup Counts("location_eligible", eligible)
             \cup Counts("location_hit", hit)
<1>1. Row(d, s, found, e, review).counted = counted
  BY DEF Row
<1> HIDE DEF r, exists, predicted, solved, process, candidate, isCorrect, hit
<1>2. "location_hit" \in counted => hit
  BY DEF hit
<1>3. /\ "failed" \in counted => ~valid
      /\ "undetermined" \in counted => predicted = "undetermined"
  OBVIOUS
<1> HIDE DEF counted
<1>4. hit
  BY <1>1, <1>2
<1>5. predicted = "incorrect" /\ Hit(s, Diagnosed(r)) /\ candidate = "wrong_answer"
  BY <1>4 DEF hit
<1>6. valid
  BY <1>5 DEF predicted
<1>7. counted \cap {"agreement", "failed", "undetermined"} \subseteq {"agreement"}
  BY <1>3, <1>5, <1>6
<1>8. AnswerStatus(d, r, FALSE, e) = "wrong_answer"
  BY <1>5, <1>6 DEF candidate
<1> QED BY <1>1, <1>5, <1>6, <1>7, <1>8 DEF r, exists

(* The first error's finding is grounded and at the earliest step.         *)
LEMMA HitStands ==
    ASSUME NEW s, IsSequence(s.code), NEW d, IsValue(d), NEW asked, WellFormed(asked),
           Code(asked) = Normalized(s.code), ValidateDiagnosis(d, asked) = "parsed", Hit(s, d)
    PROVE  \E f \in ToSet(Found(d)) :
              LET location == Get(f, "code_location")
              IN  /\ Stands(location, Normalized(s.code))
                  /\ Is(f, "category", s.gold.primary_category)
                  /\ LineOf(location, "start_line") >= s.gold.first_error[1]
                  /\ LineOf(location, "end_line") <= s.gold.first_error[2]
                  /\ \A g \in ToSet(Found(d)) :
                        StepOf(d, Get(f, "step_id")) <= StepOf(d, Get(g, "step_id"))
<1>1. PICK f \in ToSet(Found(d)) :
          /\ Get(f, "step_id") = Get(Get(d, "first_error"), "step_id")
          /\ Get(f, "code_location") # Null
          /\ Is(f, "category", s.gold.primary_category)
          /\ LineOf(Get(f, "code_location"), "start_line") >= s.gold.first_error[1]
          /\ LineOf(Get(f, "code_location"), "end_line") <= s.gold.first_error[2]
  BY DEF Hit, Found
<1>2. /\ Len(StepsIn(d)) \in Nat /\ DOMAIN StepsIn(d) = 1..Len(StepsIn(d))
      /\ DOMAIN Found(d) = 1..Len(Found(d))
  BY ParsedIsPassed
<1>3. FindingPassed(d, asked, f)
  BY <1>1, <1>2, FindingsPass DEF ToSet
<1>4. Stands(Get(f, "code_location"), Normalized(s.code))
  <2>1. IsSequence(Code(asked))
    BY DEF WellFormed, Code
  <2> QED BY <1>1, <1>2, <1>3, <2>1, FindingsStand
<1>5. Get(Get(d, "first_error"), "step_id") # Null
  BY <1>1, <1>3 DEF FindingPassed, Placed
<1>6. ToSet(Found(d)) # {} /\ FirstErrorHolds(d)
  BY <1>1, <1>5, ClaimsFollow
<1>7. \A g \in ToSet(Found(d)) :
         StepOf(d, Get(f, "step_id")) <= StepOf(d, Get(g, "step_id"))
  BY <1>1, <1>2, <1>5, <1>6, FirstErrorIsFirst
<1> QED BY <1>1, <1>4, <1>7

----------------------------------------------------------------------------
(* The evaluation, from the data set to the report                         *)

(* A record's response is one of the given ones.                             *)
ResponseIsRaw(r) == \E given \in Raw : given.form = "json" /\ r.response = given.value
EvaluationInv ==
    /\ bundle \in Seq(ToSet(bundle))
    /\ \A r \in ToSet(bundle) : IsParsed(r) => ResponseIsRaw(r)
    /\ dataset # NoDataset => dataset \in EvaluationSets /\ ValidateDataset(dataset)
    /\ report.made =>
          /\ dataset # NoDataset /\ EvidenceHolds(dataset, bundle, report.evidence)
          /\ \A r \in ToSet(bundle) : Replays(r)
          /\ HasRuns(report.evidence)
          /\ RecordsHold(dataset, bundle) /\ OfOneVersion(report.version)
          /\ report.review # NoReview =>
                report.command = "formal-report" /\ report.review.status = "complete"
          /\ report.summary = ReportOf(dataset, bundle, report.evidence, report.review)

LEMMA NewRecord ==
    ASSUME EvaluationInv, NEW r, IsParsed(r) => ResponseIsRaw(r), AddRecord(r)
    PROVE  EvaluationInv'
<1>1. /\ bundle' = Append(bundle, r) /\ UNCHANGED <<dataset, report>> /\ report = NoReport
      /\ bundle \in Seq(ToSet(bundle))
  BY DEF AddRecord, EvaluationInv
<1>2. ~report.made /\ ~report'.made
  BY <1>1 DEF NoReport
<1>3. bundle' \in Seq(ToSet(bundle')) /\ ToSet(bundle') = ToSet(bundle) \cup {r}
  <2> DEFINE T == ToSet(bundle)
             n == Len(bundle)
             b == Append(bundle, r)
  <2> HIDE DEF T
  <2>1. bundle \in Seq(T \cup {r}) /\ r \in T \cup {r}
    BY <1>1 DEF T
  <2>2. /\ b \in Seq(T \cup {r}) /\ Len(b) = n + 1 /\ n \in Nat
        /\ \A i \in 1..n : b[i] = bundle[i]
        /\ b[n + 1] = r
    BY <2>1, AppendProperties, LenProperties
  <2>3. DOMAIN b = 1..(n + 1) /\ DOMAIN bundle = 1..n
    BY <2>1, <2>2, LenProperties
  <2> HIDE DEF b, n
  <2>4. ToSet(b) = T \cup {r}
    <3>1. \A i \in 1..(n + 1) : i \in 1..n \/ i = n + 1
      BY <2>2
    <3>2. 1..n \subseteq 1..(n + 1) /\ n + 1 \in 1..(n + 1)
      BY <2>2
    <3> QED BY <2>2, <2>3, <3>1, <3>2 DEF ToSet, T
  <2> QED BY <1>1, <2>2, <2>4 DEF b, T
<1>4. \A x \in ToSet(bundle') : IsParsed(x) => ResponseIsRaw(x)
  BY <1>3 DEF EvaluationInv
<1>5. dataset' # NoDataset => dataset' \in EvaluationSets /\ ValidateDataset(dataset')
  BY <1>1 DEF EvaluationInv
<1> QED BY <1>2, <1>3, <1>4, <1>5 DEF EvaluationInv, ResponseIsRaw

LEMMA NewReport ==
    ASSUME EvaluationInv, dataset # NoDataset, NEW e \in EvidenceFor[dataset],
           NEW command, NEW version, NEW review, Publish(command, version, e, review),
           \A r \in ToSet(bundle) : Replays(r), OfOneVersion(version),
           review # NoReview => command = "formal-report" /\ review.status = "complete"
    PROVE  EvaluationInv'
<1>1. /\ EvidenceHolds(dataset, bundle, e) /\ RecordsHold(dataset, bundle)
      /\ report' = [made |-> TRUE, command |-> command, version |-> version, evidence |-> e,
                    review |-> review, summary |-> ReportOf(dataset, bundle, e, review)]
      /\ dataset' = dataset /\ bundle' = bundle
  BY DEF Publish
<1>2. /\ report'.evidence = e /\ report'.review = review
      /\ report'.command = command /\ report'.version = version
      /\ report'.summary = ReportOf(dataset, bundle, e, review)
  BY <1>1
<1>3. HasRuns(e)
  BY EvaluationAssumption DEF EvaluationInv, HasRuns
<1>4. \A r \in ToSet(bundle') : Replays(r)'
  BY <1>1 DEF Replays
<1>5. OfOneVersion(version)'
  BY <1>1 DEF OfOneVersion
<1> QED BY <1>1, <1>2, <1>3, <1>4, <1>5 DEF EvaluationInv, OfOneVersion

LEMMA OfflineStep == ASSUME EvaluationInv, OfflineNext PROVE EvaluationInv'
<1>1. ASSUME NEW d \in EvaluationSets, OpenDataset(d) PROVE EvaluationInv'
  <2>1. /\ dataset = NoDataset /\ ValidateDataset(d) /\ dataset' = d
        /\ bundle' = bundle /\ report' = report
    BY <1>1 DEF OpenDataset
  <2>2. ~report.made
    BY <2>1 DEF EvaluationInv
  <2> QED BY <1>1, <2>1, <2>2 DEF EvaluationInv, ResponseIsRaw
<1>2. ASSUME NEW s \in ToSet(dataset.samples), NEW version \in Versions, NEW given \in Raw,
             Import(s, given, version)
      PROVE  EvaluationInv'
  <2> DEFINE r == RecordOf(dataset, s, given, version)
  <2>1. IsParsed(r) => Parse(given, RequestFor(dataset, s), version) = "parsed"
                       /\ r.response = given.value
    BY DEF RecordOf, IsParsed
  <2>2. Parse(given, RequestFor(dataset, s), version) = "parsed" => given.form = "json"
    BY EvaluationAssumption DEF Parse
  <2>3. IsParsed(r) => ResponseIsRaw(r)
    BY <2>1, <2>2 DEF ResponseIsRaw
  <2> HIDE DEF r
  <2> QED BY <1>2, <2>3, NewRecord DEF Import, r
<1>3. ASSUME NEW s \in ToSet(dataset.samples), NEW version \in Versions,
             CallWithoutAnswer(s, version)
      PROVE  EvaluationInv'
  <2>1. ~IsParsed(CallFailed(s, version))
    BY DEF CallFailed, IsParsed
  <2> QED BY <1>3, <2>1, NewRecord DEF CallWithoutAnswer
<1>4. ASSUME dataset # NoDataset, NEW e \in EvidenceFor[dataset], NEW version \in Versions,
             ReportCommand(version, e)
      PROVE  EvaluationInv'
  BY <1>4, NewReport DEF ReportCommand
<1>5. ASSUME dataset # NoDataset, NEW e \in EvidenceFor[dataset],
             NEW review \in ReviewsFor[dataset], FormalReport(e, review)
      PROVE  EvaluationInv'
  BY <1>5, NewReport DEF FormalReport, FormalBundle, ReviewHolds
<1> QED BY <1>1, <1>2, <1>3, <1>4, <1>5 DEF OfflineNext

(* An evaluated sample's code reaches the model as it is stored, but for   *)
(* its line ends.                                                          *)
LEMMA RequestIsWellFormed ==
    ASSUME NEW d, NEW s, IsSequence(s.code)
    PROVE  LET asked == Canonical(RequestFor(d, s))
           IN  WellFormed(asked) /\ Code(asked) = Normalized(s.code)
<1> DEFINE posed == RequestFor(d, s)
<1>1. Get(posed, "cpp_solution").string = s.code
  BY DEF RequestFor, Object, Text, Get
<1> HIDE DEF posed
<1>2. WellFormed(Canonical(posed)) /\ Code(Canonical(posed)) = Normalized(s.code)
  BY <1>1, CanonicalIsWellFormed DEF Code
<1> QED BY <1>2 DEF posed

(* A replayed record is a diagnosis of its sample.                         *)
LEMMA ReplayIsValid ==
    ASSUME NEW r, IsParsed(r), ResponseIsRaw(r), Replays(r)
    PROVE  /\ IsValue(Diagnosed(r))
           /\ ValidateDiagnosis(Diagnosed(r),
                  Canonical(RequestFor(dataset, SampleOf(dataset, r.sample_id)))) = "parsed"
<1> DEFINE posed == RequestFor(dataset, SampleOf(dataset, r.sample_id))
           v == r.response
<1>1. PICK given \in Raw : given.form = "json" /\ v = given.value
  BY DEF ResponseIsRaw
<1>2. ResponseHolds(v, posed, r.expected_schema_version)
  <2> DEFINE replayed == [form |-> "json", value |-> v]
  <2>1. Parse(replayed, posed, r.expected_schema_version) = "parsed"
    BY DEF Replays
  <2>2. replayed.form = "json" /\ replayed.value = v
    OBVIOUS
  <2> HIDE DEF replayed, v, posed
  <2> QED BY <2>1, <2>2 DEF Parse
<1>3. /\ HasExactly(v, {"schema_version", "diagnosis", "solution_code"})
      /\ ValidateDiagnosis(Get(v, "diagnosis"), Canonical(posed)) = "parsed"
  BY <1>2 DEF ResponseHolds, Structure
<1> HIDE DEF v
<1>4. Get(v, "diagnosis") \in Values(v)
  BY <1>3, FieldIsPart, PartsAreValues DEF HasExactly
<1>5. IsValue(Get(v, "diagnosis"))
  BY <1>1, <1>4, EvaluationAssumption
<1> QED BY <1>3, <1>5 DEF Diagnosed, v

LEMMA ReportedHitsAreGrounded == EvaluationInv => HitsAreGrounded
<1> SUFFICES ASSUME EvaluationInv, report.made, NEW row \in ToSet(report.summary.rows),
                    "location_hit" \in row.counted
             PROVE  LET s == SampleOf(dataset, row.sample_id)
                        d == Diagnosed(CHOOSE r \in RecordsFor(s) : TRUE)
                        Position(f) == StepOf(d, Get(f, "step_id"))
                    IN  /\ ~Claims("wrong_answer") =>
                              \E r \in RunsOf(s.id, s.code) : \E t \in ToSet(r.tests) :
                                 t.outcome = "success" /\ ~SameOutput(t.stdout, t.expected_output)
                        /\ \E f \in ToSet(Get(d, "findings").array) :
                              LET location == Get(f, "code_location")
                              IN  /\ Stands(location, Normalized(s.code))
                                  /\ Is(f, "category", s.gold.primary_category)
                                  /\ LineOf(location, "start_line") >= s.gold.first_error[1]
                                  /\ LineOf(location, "end_line") <= s.gold.first_error[2]
                                  /\ \A g \in ToSet(Get(d, "findings").array) :
                                        Position(f) <= Position(g)
                        /\ row.counted \cap {"agreement", "failed", "undetermined"}
                               \subseteq {"agreement"}
  BY DEF HitsAreGrounded
<1> DEFINE e == report.evidence
           review == report.review
<1>1. /\ dataset \in EvaluationSets /\ ValidateDataset(dataset)
      /\ EvidenceHolds(dataset, bundle, e)
      /\ \A r \in ToSet(bundle) : Replays(r) /\ (IsParsed(r) => ResponseIsRaw(r))
      /\ HasRuns(e)
      /\ report.summary = ReportOf(dataset, bundle, e, review)
  BY DEF EvaluationInv
<1>2. IsSequence(dataset.samples)
      /\ \A s \in ToSet(dataset.samples) : IsSequence(s.id) /\ IsSequence(s.code)
  BY <1>1, EvaluationAssumption
<1> DEFINE Held(s) == {r \in ToSet(bundle) : r.sample_id = s.id}
<1>3. PICK i \in DOMAIN dataset.samples :
          row = Row(dataset, dataset.samples[i], Held(dataset.samples[i]), e, review)
  <2>1. report.summary.rows = RowsOf(dataset, bundle, e, review)
    BY <1>1 DEF ReportOf
  <2> QED BY <2>1 DEF RowsOf, ToSet
<1> DEFINE s == dataset.samples[i]
           r == CHOOSE own \in Held(s) : TRUE
           d == Diagnosed(r)
           asked == Canonical(RequestFor(dataset, s))
<1>4. IsSequence(s.id) /\ IsSequence(s.code)
  BY <1>2, <1>3 DEF ToSet
<1>5. row.sample_id = s.id
  BY <1>3 DEF Row
<1>6. SampleOf(dataset, s.id) = s
  BY <1>1, <1>2, <1>3, SampleIsFound DEF ValidateDataset
<1>15. row = Row(dataset, s, Held(s), e, review)
  BY <1>3
<1> HIDE DEF s
<1>7. /\ Held(s) # {} /\ IsParsed(r) /\ Hit(s, d)
      /\ AnswerStatus(dataset, r, FALSE, e) = "wrong_answer"
      /\ row.counted \cap {"agreement", "failed", "undetermined"} \subseteq {"agreement"}
  <2> HIDE DEF Held, e, review
  <2>1. "location_hit" \in Row(dataset, s, Held(s), e, review).counted
    BY <1>15
  <2>2. /\ Held(s) # {} /\ IsParsed(r) /\ Hit(s, Diagnosed(r))
        /\ AnswerStatus(dataset, r, FALSE, e) = "wrong_answer"
        /\ Row(dataset, s, Held(s), e, review).counted
               \cap {"agreement", "failed", "undetermined"} \subseteq {"agreement"}
    BY <2>1, HitOfRow, Zenon
  <2> QED BY <1>15, <2>2
<1>8. r \in ToSet(bundle) /\ r.sample_id = s.id
  BY <1>7
<1>9. RecordsFor(s) = Held(s)
  BY DEF RecordsFor
<1> HIDE DEF r, Held
<1>10. ASSUME ~Claims("wrong_answer")
       PROVE  \E x \in RunsOf(s.id, s.code) : \E t \in ToSet(x.tests) :
                 t.outcome = "success" /\ ~SameOutput(t.stdout, t.expected_output)
  <2>0. NoneSays(e, "wrong_answer")
    BY <1>10 DEF Claims, NoneSays, Says
  <2> HIDE DEF e
  <2>1. ShownWrong(e, r.sample_id, SampleOf(dataset, r.sample_id).code)
    <3>1. IsSequence(r.sample_id)
      BY <1>4, <1>8
    <3> QED BY <1>1, <1>7, <1>8, <2>0, <3>1, WrongAnswerIsShown, Zenon
  <2>2. ShownWrong(e, s.id, s.code)
    BY <1>6, <1>8, <2>1, Zenon
  <2> QED BY <2>2, Zenon DEF RunsOf, ShownWrong, e
<1>11. IsValue(d) /\ ValidateDiagnosis(d, asked) = "parsed"
  BY <1>1, <1>6, <1>7, <1>8, ReplayIsValid
<1>12. WellFormed(asked) /\ Code(asked) = Normalized(s.code)
  BY <1>4, RequestIsWellFormed
<1> HIDE DEF d, asked
<1>13. \E f \in ToSet(Found(d)) :
           LET location == Get(f, "code_location")
           IN  /\ Stands(location, Normalized(s.code))
               /\ Is(f, "category", s.gold.primary_category)
               /\ LineOf(location, "start_line") >= s.gold.first_error[1]
               /\ LineOf(location, "end_line") <= s.gold.first_error[2]
               /\ \A g \in ToSet(Found(d)) :
                     StepOf(d, Get(f, "step_id")) <= StepOf(d, Get(g, "step_id"))
  BY <1>4, <1>7, <1>11, <1>12, HitStands
<1>14. Diagnosed(CHOOSE own \in RecordsFor(s) : TRUE) = d
  BY <1>9 DEF d, r
<1> QED BY <1>5, <1>6, <1>7, <1>10, <1>13, <1>14 DEF Found

(* What the evaluation has on record is what its commands put there.       *)
LEMMA EvaluationsAreOnRecord == EvaluationsSpec => []EvaluationInv
<1>1. EvaluationsInit => EvaluationInv
  <2> SUFFICES ASSUME EvaluationInit PROVE EvaluationInv
    BY DEF EvaluationsInit
  <2>1. ToSet(bundle) = {} /\ bundle \in Seq(ToSet(bundle))
    BY DEF EvaluationInit, ToSet
  <2> QED BY <2>1 DEF EvaluationInit, EvaluationInv, NoReport
<1>2. EvaluationInv /\ [EvaluationsNext]_<<vars, path, evaluation>> => EvaluationInv'
  <2> SUFFICES ASSUME EvaluationInv, [EvaluationsNext]_<<vars, path, evaluation>>
               PROVE  EvaluationInv'
    OBVIOUS
  <2>1. CASE UNCHANGED evaluation
    BY <2>1 DEF evaluation, EvaluationInv, ResponseIsRaw, Replays, OfOneVersion
  <2>2. CASE OfflineNext
    BY <2>2, OfflineStep
  <2> QED BY <2>1, <2>2 DEF EvaluationsNext
<1> QED BY <1>1, <1>2, PTL DEF EvaluationsSpec

(* A location counts as hit only for a candidate that was shown to be      *)
(* wrong, or of which the evidence reports "wrong_answer" itself, by a     *)
(* grounded finding at the earliest step (HitsAreGrounded), for every data *)
(* set, response, evidence and review.                                     *)
THEOREM CountedHitsAreGrounded == EvaluationsSpec => []HitsAreGrounded
BY EvaluationsAreOnRecord, ReportedHitsAreGrounded, PTL

----------------------------------------------------------------------------
(* What a report gives credit for                                          *)

Distinct(q) == \A i, j \in DOMAIN q : q[i].id = q[j].id => i = j
IsTested(problem) == IsSequence(problem.test_cases) /\ Distinct(problem.test_cases)
RunPasses(x, problem) ==
    /\ x.compile = "success"
    /\ \A c \in ToSet(problem.test_cases) : \E t \in ToSet(x.tests) :
          /\ <<t.test_id, t.input, t.outcome>> = <<c.id, c.input, "success">>
          /\ SameOutput(t.stdout, c.expected_output)
SolvedBy(e, key, source, problem) ==
    \E x \in ToSet(e.results) : x.id = key /\ x.source = source /\ RunPasses(x, problem)

(* As many runs as tests, each of another one: every test was run.         *)
LEMMA AllTestsRan ==
    ASSUME NEW tests, IsSequence(tests), NEW problem, IsTested(problem),
           RanAllTests(tests, problem), NEW c \in ToSet(problem.test_cases)
    PROVE  \E t \in ToSet(tests) : /\ t.test_id = c.id /\ t.input = c.input
                                   /\ t.expected_output = c.expected_output
<1> DEFINE cases == problem.test_cases
           n == Len(tests)
           Match(i, j) == /\ cases[j].id = tests[i].test_id /\ cases[j].input = tests[i].input
                          /\ cases[j].expected_output = tests[i].expected_output
           f == [i \in 1..n |-> CHOOSE j \in 1..n : Match(i, j)]
<1>1. /\ n \in Nat /\ DOMAIN tests = 1..n /\ Len(cases) = n /\ DOMAIN cases = 1..n
      /\ \A i, j \in 1..n : tests[i].test_id = tests[j].test_id => i = j
  <2>1. Len(cases) = n /\ \A i, j \in DOMAIN tests : tests[i].test_id = tests[j].test_id => i = j
    BY DEF RanAllTests, OnlyOnce
  <2>2. DOMAIN tests = 1..n /\ n \in Nat /\ DOMAIN cases = 1..Len(cases)
    BY TextIsSequence DEF IsTested
  <2> HIDE DEF n, cases
  <2> QED BY <2>1, <2>2
<1>2. \A i \in 1..n : \E j \in 1..n : Match(i, j)
  <2> SUFFICES ASSUME NEW i \in 1..n PROVE \E j \in 1..n : Match(i, j)
    OBVIOUS
  <2>1. tests[i] \in ToSet(tests)
    BY <1>1 DEF ToSet
  <2>2. PICK k \in ToSet(cases) : /\ k.id = tests[i].test_id /\ k.input = tests[i].input
                                  /\ k.expected_output = tests[i].expected_output
    BY <2>1 DEF RanAllTests
  <2>3. PICK j \in 1..n : k = cases[j]
    BY <1>1 DEF ToSet
  <2> QED BY <2>2, <2>3
<1>3. \A i \in 1..n : f[i] \in 1..n /\ Match(i, f[i])
  <2> HIDE DEF Match, n
  <2> QED BY <1>2
<1>4. f \in [1..n -> 1..n]
  <2> HIDE DEF Match, n
  <2> QED BY <1>3
<1>5. IsInjective(f)
  <2>1. DOMAIN f = 1..n
    OBVIOUS
  <2> HIDE DEF f, n
  <2>2. ASSUME NEW x \in 1..n, NEW y \in 1..n, f[x] = f[y] PROVE x = y
    <3>1. Match(x, f[x]) /\ Match(y, f[x])
      BY <1>3, <2>2, Zenon
    <3>2. tests[x].test_id = tests[y].test_id
      BY <3>1
    <3> QED BY <1>1, <3>2
  <2> QED BY <2>1, <2>2 DEF IsInjective
<1> HIDE DEF f, n, Match, cases
<1>6. \A z \in 1..n : \E x \in 1..n : f[x] = z
  <2>1. n \in Nat
    BY <1>1
  <2> QED BY <1>4, <1>5, <2>1, AllAreTaken
<1>7. PICK z \in 1..n : c = cases[z]
  BY <1>1 DEF ToSet, cases
<1>8. PICK x \in 1..n : f[x] = z
  BY <1>6
<1>9. tests[x] \in ToSet(tests) /\ Match(x, z)
  BY <1>1, <1>3, <1>8 DEF ToSet
<1> QED BY <1>7, <1>9 DEF Match

(* The verdict of a run whose tests are those of the problem.              *)
LEMMA PassedMeansTested ==
    ASSUME NEW x, IsSequence(x.tests), NEW problem, IsTested(problem),
           x.compile = "success" => RanAllTests(x.tests, problem)
    PROVE  /\ RunPasses(x, problem) => AnswerVerdict(x) = "passed"
           /\ AnswerVerdict(x) = "passed" /\ ~Says(x, "passed") => RunPasses(x, problem)
<1> DEFINE failed == {i \in DOMAIN x.tests : x.tests[i].outcome # "success"}
           same == \A t \in ToSet(x.tests) : SameOutput(t.stdout, t.expected_output)
<1>1. failed = {} <=> \A t \in ToSet(x.tests) : t.outcome = "success"
  BY DEF ToSet
<1>2. /\ x.compile = "success" /\ failed = {} /\ same => AnswerVerdict(x) = "passed"
      /\ AnswerVerdict(x) = "passed" /\ ~Says(x, "passed") =>
            x.compile = "success" /\ failed = {} /\ same
  <2> HIDE DEF failed
  <2> QED BY <1>1, VerdictIsShown, Zenon DEF same
<1> HIDE DEF same
<1>5. ASSUME x.compile = "success", failed = {}, same PROVE RunPasses(x, problem)
  <2> SUFFICES ASSUME NEW c \in ToSet(problem.test_cases)
               PROVE  \E t \in ToSet(x.tests) :
                         /\ <<t.test_id, t.input, t.outcome>> = <<c.id, c.input, "success">>
                         /\ SameOutput(t.stdout, c.expected_output)
    BY <1>5 DEF RunPasses
  <2>1. PICK t \in ToSet(x.tests) : /\ t.test_id = c.id /\ t.input = c.input
                                    /\ t.expected_output = c.expected_output
    BY <1>5, AllTestsRan
  <2>2. t.outcome = "success"
    BY <1>5 DEF ToSet
  <2>3. SameOutput(t.stdout, c.expected_output)
    BY <1>5, <2>1, Zenon DEF same
  <2> QED BY <2>1, <2>2, <2>3
<1>6. ASSUME RunPasses(x, problem) PROVE x.compile = "success" /\ failed = {} /\ same
  <2>1. x.compile = "success" /\ RanAllTests(x.tests, problem)
    BY <1>6 DEF RunPasses
  <2>2. ASSUME NEW i \in DOMAIN x.tests
        PROVE  /\ x.tests[i].outcome = "success"
               /\ SameOutput(x.tests[i].stdout, x.tests[i].expected_output)
    <3> DEFINE u == x.tests[i]
    <3>1. u \in ToSet(x.tests)
      BY DEF ToSet
    <3>2. PICK c \in ToSet(problem.test_cases) :
              c.id = u.test_id /\ c.input = u.input /\ c.expected_output = u.expected_output
      BY <2>1, <3>1 DEF RanAllTests
    <3>3. PICK t \in ToSet(x.tests) :
              /\ <<t.test_id, t.input, t.outcome>> = <<c.id, c.input, "success">>
              /\ SameOutput(t.stdout, c.expected_output)
      BY <1>6 DEF RunPasses
    <3>4. t.test_id = c.id /\ t.outcome = "success"
      BY <3>3
    <3>5. PICK j \in DOMAIN x.tests : t = x.tests[j]
      BY DEF ToSet
    <3>6. j = i
      BY <2>1, <3>2, <3>4, <3>5 DEF RanAllTests, OnlyOnce
    <3>7. t = u
      BY <3>5, <3>6
    <3> HIDE DEF u
    <3>8. u.outcome = "success" /\ SameOutput(u.stdout, u.expected_output)
      BY <3>2, <3>3, <3>4, <3>7, Zenon
    <3> QED BY <3>8 DEF u
  <2>3. failed = {}
    BY <2>2
  <2>4. same
    <3> SUFFICES ASSUME NEW t \in ToSet(x.tests) PROVE SameOutput(t.stdout, t.expected_output)
      BY DEF same
    <3>1. PICK j \in DOMAIN x.tests : t = x.tests[j]
      BY DEF ToSet
    <3> QED BY <2>2, <3>1, Zenon
  <2> QED BY <2>1, <2>3, <2>4
<1> QED BY <1>2, <1>5, <1>6

(* What is looked up under a key has passed if that code solves it.        *)
LEMMA PassedIsSolved ==
    ASSUME NEW e, HasRuns(e), OnlyOnce(e.results, LAMBDA x : x.id),
           NEW key, NEW source, NEW problem, IsTested(problem),
           \A x \in ResultFor(e, key) : ResultHolds(x, source, problem)
    PROVE  LET status == IF ResultFor(e, key) = {} THEN "unverified"
                         ELSE AnswerVerdict(CHOOSE x \in ResultFor(e, key) : TRUE)
           IN  /\ SolvedBy(e, key, source, problem) => status = "passed"
               /\ status = "passed" /\ NoneSays(e, "passed") => SolvedBy(e, key, source, problem)
<1> DEFINE found == ResultFor(e, key)
           run == CHOOSE x \in found : TRUE
<1>1. \A x \in found : x \in ToSet(e.results) /\ x.id = key
  BY DEF ResultFor
<1>2. \A x \in ToSet(e.results) : x.id = key => x \in found
  BY DEF ResultFor
<1>3. \A x, y \in found : x = y
  BY <1>1 DEF ToSet, OnlyOnce
<1>4. \A x \in found : x.source = source
  BY DEF ResultHolds
<1>5. \A x \in found :
         /\ RunPasses(x, problem) => AnswerVerdict(x) = "passed"
         /\ AnswerVerdict(x) = "passed" /\ ~Says(x, "passed") => RunPasses(x, problem)
  <2> SUFFICES ASSUME NEW x \in found
               PROVE  /\ RunPasses(x, problem) => AnswerVerdict(x) = "passed"
                      /\ AnswerVerdict(x) = "passed" /\ ~Says(x, "passed") => RunPasses(x, problem)
    OBVIOUS
  <2>1. IsSequence(x.tests)
    BY <1>1 DEF HasRuns
  <2>2. x.compile = "success" => RanAllTests(x.tests, problem)
    BY DEF ResultHolds
  <2> QED BY <2>1, <2>2, PassedMeansTested
<1>6. found # {} => run \in found
  <2> HIDE DEF found
  <2> QED OBVIOUS
<1> DEFINE status == IF found = {} THEN "unverified" ELSE AnswerVerdict(run)
           solved == SolvedBy(e, key, source, problem)
<1> SUFFICES /\ solved => status = "passed"
             /\ status = "passed" /\ NoneSays(e, "passed") => solved
  OBVIOUS
<1> HIDE DEF run, found, solved
<1>7. CASE found = {}
  BY <1>2, <1>7 DEF SolvedBy, solved
<1>8. CASE found # {}
  <2>1. run \in found
    BY <1>6, <1>8
  <2>2. RunPasses(run, problem) <=> SolvedBy(e, key, source, problem)
    <3>1. RunPasses(run, problem) => SolvedBy(e, key, source, problem)
      BY <1>1, <1>4, <2>1, Zenon DEF SolvedBy
    <3>2. ASSUME SolvedBy(e, key, source, problem) PROVE RunPasses(run, problem)
      <4>1. PICK x \in ToSet(e.results) :
                x.id = key /\ x.source = source /\ RunPasses(x, problem)
        BY <3>2, Zenon DEF SolvedBy
      <4>2. x = run
        BY <1>2, <1>3, <2>1, <4>1
      <4> QED BY <4>1, <4>2
    <3> QED BY <3>1, <3>2
  <2>3. NoneSays(e, "passed") => ~Says(run, "passed")
    BY <1>1, <2>1 DEF NoneSays
  <2> QED BY <1>5, <1>8, <2>1, <2>2, <2>3 DEF solved
<1> QED BY <1>7, <1>8

(* The answer of a record has passed if its own code solves the problem of *)
(* its sample.                                                             *)
LEMMA AnswerIsSolved ==
    ASSUME NEW d, NEW records, NEW e, EvidenceHolds(d, records, e), HasRuns(e),
           NEW r \in ToSet(records), IsSequence(r.sample_id), NEW solution \in BOOLEAN,
           NEW problem, problem = ProblemOf(d, SampleOf(d, r.sample_id)), IsTested(problem)
    PROVE  LET solved == /\ solution => IsProvided(r)
                         /\ SolvedBy(e, EvidenceId(r.sample_id, solution),
                                IF solution THEN SourceOf(r) ELSE SampleOf(d, r.sample_id).code,
                                problem)
               passed == AnswerStatus(d, r, solution, e) = "passed"
           IN  (solved => passed) /\ (passed /\ NoneSays(e, "passed") => solved)
<1> DEFINE key == EvidenceId(r.sample_id, solution)
           source == IF solution THEN SourceOf(r) ELSE SampleOf(d, r.sample_id).code
           L == {k \in LookedUp(d, r) : k.key = key}
           found == UNION {ResultFor(e, l.key) : l \in L}
           candidateOf == [key |-> EvidenceId(r.sample_id, FALSE),
                           source |-> SampleOf(d, r.sample_id).code]
           solutionOf == [key |-> EvidenceId(r.sample_id, TRUE), source |-> SourceOf(r)]
           own == IF solution THEN solutionOf ELSE candidateOf
<1>1. AnswerStatus(d, r, solution, e)
          = IF found = {} THEN "unverified" ELSE AnswerVerdict(CHOOSE x \in found : TRUE)
  BY DEF AnswerStatus
<1>2. candidateOf.key # solutionOf.key
  BY KeysDiffer
<1>3. own.key = key /\ own.source = source
  OBVIOUS
<1>4. LookedUp(d, r) = {candidateOf} \cup IF IsProvided(r) THEN {solutionOf} ELSE {}
  BY DEF LookedUp
<1>5. /\ solution => own = solutionOf
      /\ ~solution => own = candidateOf
  OBVIOUS
<1> HIDE DEF candidateOf, solutionOf, own, key
<1>6. L = IF solution => IsProvided(r) THEN {own} ELSE {}
  <2>1. CASE solution
    BY <1>2, <1>3, <1>4, <1>5, <2>1
  <2>2. CASE ~solution
    BY <1>2, <1>3, <1>4, <1>5, <2>2
  <2> QED BY <2>1, <2>2
<1>7. CASE solution /\ ~IsProvided(r)
  <2>1. found = {}
    BY <1>6, <1>7
  <2> HIDE DEF found
  <2> QED BY <1>1, <1>7, <2>1
<1>8. CASE solution => IsProvided(r)
  <2>1. L = {own} /\ own \in LookedUp(d, r)
    <3>1. L = {own}
      BY <1>6, <1>8
    <3> QED BY <3>1
  <2>2. found = ResultFor(e, key)
    <3> HIDE DEF L
    <3> QED BY <1>3, <2>1
  <2>3. \A x \in ResultFor(e, key) : ResultHolds(x, source, problem)
    BY <1>3, <2>1 DEF EvidenceHolds
  <2>4. OnlyOnce(e.results, LAMBDA x : x.id)
    BY DEF EvidenceHolds
  <2> HIDE DEF found, source
  <2> DEFINE status == IF ResultFor(e, key) = {} THEN "unverified"
                       ELSE AnswerVerdict(CHOOSE x \in ResultFor(e, key) : TRUE)
  <2>5. /\ SolvedBy(e, key, source, problem) => status = "passed"
        /\ status = "passed" /\ NoneSays(e, "passed") => SolvedBy(e, key, source, problem)
    BY <2>3, <2>4, PassedIsSolved
  <2>6. AnswerStatus(d, r, solution, e) = status
    BY <1>1, <2>2, Zenon
  <2> HIDE DEF status
  <2> QED BY <1>8, <2>5, <2>6 DEF key, source
<1> QED BY <1>7, <1>8

(* What a row counts as credit, and what it cannot leave out.              *)
LEMMA RowCredits ==
    ASSUME NEW d, NEW s, NEW found, NEW e, NEW review
    PROVE  LET r == CHOOSE own \in found : TRUE
               row == Row(d, s, found, e, review)
           IN  /\ row.sample_id = s.id /\ "n" \in row.counted
               /\ row.strata = <<ProblemOf(d, s).split, ProblemOf(d, s).difficulty,
                                 s.gold.primary_category>>
               /\ "answer_passed" \in row.counted <=>
                      found # {} /\ AnswerStatus(d, r, TRUE, e) = "passed"
               /\ "process_passed" \in row.counted <=>
                      found # {} /\ ProcessStatus(r, review) = "correct"
               /\ row.candidate_answer_status = "passed" <=>
                      found # {} /\ AnswerStatus(d, r, FALSE, e) = "passed"
               /\ found = {} => "failed" \in row.counted
<1> DEFINE r == CHOOSE own \in found : TRUE
           exists == found # {}
           valid == exists /\ IsParsed(r)
           predicted == IF valid THEN Get(Diagnosed(r), "status").string[1] ELSE "failed"
           solved == IF exists THEN AnswerStatus(d, r, TRUE, e) ELSE "unverified"
           process == IF exists THEN ProcessStatus(r, review) ELSE "unreviewed"
           candidate == IF exists THEN AnswerStatus(d, r, FALSE, e) ELSE "unverified"
           eligible == candidate = "wrong_answer" /\ s.gold.first_error # <<>>
           isCorrect == s.gold.process_status = "correct"
           hit == eligible /\ predicted = "incorrect" /\ Hit(s, Diagnosed(r))
           Counts(name, holds) == IF holds THEN {name} ELSE {}
           counted ==
             {"n"}
             \cup Counts("agreement", predicted = s.gold.process_status)
             \cup Counts("failed", ~valid)
             \cup Counts("undetermined", predicted = "undetermined")
             \cup Counts("process_correct", isCorrect)
             \cup Counts("false_positive", isCorrect /\ predicted = "incorrect")
             \cup Counts("answer_verified", solved # "unverified")
             \cup Counts("answer_passed", solved = "passed")
             \cup Counts("process_reviewed", process # "unreviewed")
             \cup Counts("process_passed", process = "correct")
             \cup Counts("location_eligible", eligible)
             \cup Counts("location_hit", hit)
           row == Row(d, s, found, e, review)
<1>1. /\ row.counted = counted /\ row.sample_id = s.id
      /\ row.strata = <<ProblemOf(d, s).split, ProblemOf(d, s).difficulty,
                        s.gold.primary_category>>
      /\ row.candidate_answer_status = candidate
  BY DEF Row
<1>2. /\ solved = "passed" <=> exists /\ AnswerStatus(d, r, TRUE, e) = "passed"
      /\ process = "correct" <=> exists /\ ProcessStatus(r, review) = "correct"
      /\ candidate = "passed" <=> exists /\ AnswerStatus(d, r, FALSE, e) = "passed"
      /\ ~exists => ~valid
  OBVIOUS
<1> HIDE DEF exists, valid, predicted, solved, process, candidate, isCorrect, hit, row
<1>3. /\ "n" \in counted
      /\ "answer_passed" \in counted <=> solved = "passed"
      /\ "process_passed" \in counted <=> process = "correct"
      /\ ~valid => "failed" \in counted
  OBVIOUS
<1> HIDE DEF counted
<1>4. /\ row.sample_id = s.id /\ "n" \in row.counted
      /\ row.strata = <<ProblemOf(d, s).split, ProblemOf(d, s).difficulty,
                        s.gold.primary_category>>
      /\ "answer_passed" \in row.counted <=>
             exists /\ AnswerStatus(d, r, TRUE, e) = "passed"
      /\ "process_passed" \in row.counted <=>
             exists /\ ProcessStatus(r, review) = "correct"
      /\ row.candidate_answer_status = "passed" <=>
             exists /\ AnswerStatus(d, r, FALSE, e) = "passed"
      /\ ~exists => "failed" \in row.counted
  BY <1>1, <1>2, <1>3
<1> QED BY <1>4 DEF row, exists

(* The problem of a sample of a valid data set, found by its id.           *)
LEMMA ProblemIsFound ==
    ASSUME NEW d, IsSequence(d.problems), \A p \in ToSet(d.problems) : IsSequence(p.test_cases),
           ValidateDataset(d), NEW s \in ToSet(d.samples)
    PROVE  LET problem == ProblemOf(d, s)
           IN  IsTested(problem) /\ problem.split \in Splits /\ problem.difficulty \in Difficulties
<1> DEFINE problems == d.problems
           I == {j \in 1..Len(problems) : problems[j].id = s.problem_id}
           k == SelectInSeq(problems, LAMBDA p : p.id = s.problem_id)
           problem == ProblemOf(d, s)
<1>1. DOMAIN problems = 1..Len(problems) /\ Len(problems) \in Nat
  BY TextIsSequence
<1>2. k = IF I # {} THEN Min(I) ELSE 0
  BY DEF SelectInSeq
<1>3. PICK p \in ToSet(problems) : p.id = s.problem_id
  BY DEF ValidateDataset
<1>4. I # {} /\ I \in SUBSET Nat
  BY <1>1, <1>3 DEF ToSet
<1>5. problem = problems[k]
  BY DEF ProblemOf
<1>6. ProblemHolds(problem) /\ IsSequence(problem.test_cases)
  <2>1. k \in 1..Len(problems)
    <3>1. \A j \in I : j \in 1..Len(problems)
      OBVIOUS
    <3> HIDE DEF I, k, problems
    <3> QED BY <1>2, <1>4, <3>1, NatMin
  <2>2. problem \in ToSet(problems)
    <3> HIDE DEF k, problem
    <3> QED BY <1>1, <1>5, <2>1 DEF ToSet
  <2> HIDE DEF problem
  <2> QED BY <2>2 DEF ValidateDataset
<1> HIDE DEF problem
<1>7. IsTested(problem)
  BY <1>6 DEF ProblemHolds, OnlyOnce, IsTested, Distinct
<1> QED BY <1>6, <1>7 DEF ProblemHolds, problem

----------------------------------------------------------------------------
(* The slices of a report                                                  *)

(* Where the names of a family are the names at one place of every row,    *)
(* and at no other, its slices add up to the totals.                       *)
LEMMA FamilyCounts ==
    ASSUME NEW rows, IsFiniteSet(DOMAIN rows), NEW c \in Counters,
           NEW names, IsFiniteSet(names), NEW place \in 1..3,
           \A i \in DOMAIN rows :
              /\ rows[i].strata[place] \in names
              /\ rows[i].strata[place] \in ToSet(rows[i].strata)
              /\ \A q \in 1..3 : rows[i].strata[q] \in names => q = place
    PROVE  InFamily(Strata(rows), names, c) = Totals(rows)[c]
<1> DEFINE strata == Strata(rows)
           S == names \cap DOMAIN strata
           h == [i \in DOMAIN rows |-> rows[i].strata[place]]
           D == {i \in DOMAIN rows : c \in rows[i].counted}
           f == [n \in S |-> strata[n][c]]
<1>1. IsFiniteSet(S) /\ IsFiniteSet(D)
  <2>1. S \in SUBSET names /\ D \in SUBSET DOMAIN rows
    OBVIOUS
  <2> HIDE DEF S, D
  <2> QED BY <2>1, FS_Subset
<1>2. DOMAIN strata = UNION {ToSet(rows[i].strata) : i \in DOMAIN rows}
  BY DEF Strata
<1>3. \A i \in D : h[i] \in S
  BY <1>2
<1>4. ASSUME NEW n \in S PROVE f[n] = Cardinality(Class(D, h, n))
  <2> DEFINE C == {i \in D : h[i] = n}
             X == {x \in (DOMAIN rows) \X (1..3) :
                      rows[x[1]].strata[x[2]] = n /\ c \in rows[x[1]].counted}
             pair == [i \in C |-> <<i, place>>]
  <2>1. f[n] = Cardinality(X)
    BY DEF Strata
  <2>2. \A i \in C : pair[i] \in X
    OBVIOUS
  <2>3. \A i, j \in C : pair[i] = pair[j] => i = j
    OBVIOUS
  <2>4. \A x \in X : \E i \in C : pair[i] = x
    <3> SUFFICES ASSUME NEW x \in X PROVE \E i \in C : pair[i] = x
      OBVIOUS
    <3>1. x[2] = place
      OBVIOUS
    <3>2. x[1] \in C /\ x = <<x[1], place>>
      BY <3>1
    <3> QED BY <3>2
  <2>5. IsFiniteSet(C)
    <3>1. C \in SUBSET D
      OBVIOUS
    <3> HIDE DEF C
    <3> QED BY <1>1, <3>1, FS_Subset
  <2>6. pair \in [C -> X]
    BY <2>2
  <2> HIDE DEF C, X, pair, f
  <2>7. Cardinality(C) = Cardinality(X)
    BY <2>3, <2>4, <2>5, <2>6, PairedSets
  <2> QED BY <2>1, <2>7 DEF C, Class
<1>5. Totals(rows)[c] = Cardinality(D)
  BY DEF Totals
<1>6. SumOf(f, S) = Cardinality(D)
  <2> HIDE DEF f, h, D, S
  <2> QED BY <1>1, <1>3, <1>4, SumOverClasses
<1> DEFINE F(g) == [s \in SUBSET S |->
                       IF s = {} THEN 0
                       ELSE strata[CHOOSE x \in s : TRUE][c] + g[s \ {CHOOSE x \in s : TRUE}]]
           G == CHOOSE g : g = F(g)
<1>7. InFamily(strata, names, c) = G[S]
  BY DEF InFamily, MapThenSumSet, MapThenFoldSet
<1> HIDE DEF S, strata
<1>8. ASSUME NEW g PROVE g = F(g) <=> IsSum(g, f, S)
  <2>1. \A s \in SUBSET S : s # {} => (CHOOSE x \in s : TRUE) \in S
    OBVIOUS
  <2>2. \A s \in SUBSET S : s # {} =>
            f[CHOOSE x \in s : TRUE] = strata[CHOOSE x \in s : TRUE][c]
    BY <2>1
  <2> HIDE DEF f
  <2> QED BY <2>2 DEF IsSum, Some
<1>9. G = F(G)
  <2>1. PICK g : IsSum(g, f, S)
    BY <1>1, SumExists
  <2>2. g = F(g)
    BY <1>8, <2>1
  <2> HIDE DEF F
  <2> QED BY <2>2
<1>10. SumOf(f, S) = G[S]
  BY <1>1, <1>8, <1>9, SumIsUnique
<1> QED BY <1>5, <1>6, <1>7, <1>10 DEF S, strata

----------------------------------------------------------------------------
(* The report as a whole                                                   *)

PassedSample(s) ==
    Provides(s) /\ \E r \in RecordsFor(s) : Solved(s, EvidenceId(s.id, TRUE), SourceOf(r))
ConfirmedSample(s) == report.command = "formal-report" /\ Provides(s) /\ Confirmed(s)
RowOf(s, row) ==
    /\ row.sample_id = s.id /\ "n" \in row.counted
    /\ row.strata = <<ProblemOf(dataset, s).split, ProblemOf(dataset, s).difficulty,
                      s.gold.primary_category>>
    /\ PassedSample(s) => "answer_passed" \in row.counted
    /\ ~Claims("passed") =>
          /\ "answer_passed" \in row.counted => PassedSample(s)
          /\ row.candidate_answer_status = "passed" => Solved(s, s.id, s.code)
    /\ "process_passed" \in row.counted <=> ConfirmedSample(s)
    /\ RecordsFor(s) = {} => "failed" \in row.counted

LEMMA SolvedIsSolvedBy ==
    ASSUME NEW s, NEW key, NEW source
    PROVE  Solved(s, key, source) <=> SolvedBy(report.evidence, key, source, ProblemOf(dataset, s))
<1> DEFINE problem == ProblemOf(dataset, s)
<1> HIDE DEF problem
<1>1. (\E x \in RunsOf(key, source) : \A c \in ToSet(problem.test_cases) :
          \E t \in ToSet(x.tests) :
             /\ <<t.test_id, t.input, t.outcome>> = <<c.id, c.input, "success">>
             /\ SameOutput(t.stdout, c.expected_output))
          <=> SolvedBy(report.evidence, key, source, problem)
  BY Zenon DEF RunsOf, SolvedBy, RunPasses
<1> QED BY <1>1 DEF Solved, problem

(* Every sample has one row, and the row has the credit of the sample.     *)
LEMMA RowsAreEarned ==
    ASSUME EvaluationInv, report.made, NEW i \in DOMAIN dataset.samples
    PROVE  RowOf(dataset.samples[i], report.summary.rows[i])
<1> DEFINE e == report.evidence
           review == report.review
           s == dataset.samples[i]
           held == {own \in ToSet(bundle) : own.sample_id = s.id}
           r == CHOOSE own \in held : TRUE
           row == Row(dataset, s, held, e, review)
           problem == ProblemOf(dataset, s)
<1>1. /\ dataset \in EvaluationSets /\ ValidateDataset(dataset)
      /\ EvidenceHolds(dataset, bundle, e) /\ HasRuns(e)
      /\ OnlyOnce(bundle, LAMBDA x : x.sample_id)
      /\ review # NoReview => report.command = "formal-report" /\ review.status = "complete"
      /\ report.summary = ReportOf(dataset, bundle, e, review)
  BY DEF EvaluationInv, RecordsHold
<1>2. report.summary.rows[i] = row
  BY <1>1 DEF ReportOf, RowsOf
<1>3. s \in ToSet(dataset.samples)
  BY DEF ToSet
<1>4. IsSequence(s.id) /\ SampleOf(dataset, s.id) = s /\ IsTested(problem)
  <2>1. /\ IsSequence(dataset.samples) /\ IsSequence(dataset.problems) /\ IsSequence(s.id)
        /\ \A p \in ToSet(dataset.problems) : IsSequence(p.test_cases)
    BY <1>1, <1>3, EvaluationAssumption
  <2>2. SampleOf(dataset, s.id) = s
    BY <1>1, <2>1, SampleIsFound DEF ValidateDataset
  <2>3. IsTested(problem)
    BY <1>1, <1>3, <2>1, ProblemIsFound
  <2> QED BY <2>1, <2>2, <2>3
<1>5. \A x, y \in held : x = y
  BY <1>1 DEF ToSet, OnlyOnce
<1>6. RecordsFor(s) = held
  BY DEF RecordsFor
<1>7. \A key, source : Solved(s, key, source) <=> SolvedBy(e, key, source, problem)
  BY SolvedIsSolvedBy
<1>8. held # {} => r \in held /\ r \in ToSet(bundle) /\ r.sample_id = s.id
  <2> DEFINE own == held
  <2>1. \A x \in own : x \in ToSet(bundle) /\ x.sample_id = s.id
    OBVIOUS
  <2>2. own # {} => (CHOOSE x \in own : TRUE) \in own
    <3> HIDE DEF own
    <3> QED OBVIOUS
  <2> QED BY <2>1, <2>2
<1>0. ~Claims("passed") => NoneSays(e, "passed")
  BY DEF Claims, NoneSays, Says
<1> HIDE DEF e, review, s, held, r, problem, row
<1>9. /\ row.sample_id = s.id /\ "n" \in row.counted
      /\ row.strata = <<problem.split, problem.difficulty, s.gold.primary_category>>
      /\ "answer_passed" \in row.counted <=>
             held # {} /\ AnswerStatus(dataset, r, TRUE, e) = "passed"
      /\ "process_passed" \in row.counted <=>
             held # {} /\ ProcessStatus(r, review) = "correct"
      /\ row.candidate_answer_status = "passed" <=>
             held # {} /\ AnswerStatus(dataset, r, FALSE, e) = "passed"
      /\ held = {} => "failed" \in row.counted
  BY RowCredits, Zenon DEF row, r, problem
<1>10. Provides(s) <=> held # {} /\ IsProvided(r)
  BY <1>5, <1>6, <1>8, Zenon DEF Provides
<1>11. /\ PassedSample(s) => "answer_passed" \in row.counted
       /\ "answer_passed" \in row.counted /\ ~Claims("passed") => PassedSample(s)
  <2>1. CASE held = {}
    BY <1>9, <1>10, <2>1 DEF PassedSample
  <2>2. CASE held # {}
    <3>1. LET solved ==
                 IsProvided(r) /\ SolvedBy(e, EvidenceId(s.id, TRUE), SourceOf(r), problem)
              passed == AnswerStatus(dataset, r, TRUE, e) = "passed"
          IN  (solved => passed) /\ (passed /\ NoneSays(e, "passed") => solved)
      BY <1>1, <1>4, <1>8, <2>2, AnswerIsSolved DEF problem
    <3>2. (\E own \in RecordsFor(s) : Solved(s, EvidenceId(s.id, TRUE), SourceOf(own)))
              <=> SolvedBy(e, EvidenceId(s.id, TRUE), SourceOf(r), problem)
      BY <1>5, <1>6, <1>7, <1>8, <2>2, Zenon
    <3> QED BY <1>0, <1>9, <1>10, <2>2, <3>1, <3>2 DEF PassedSample
  <2> QED BY <2>1, <2>2
<1>12. "process_passed" \in row.counted <=> ConfirmedSample(s)
  <2>1. Confirmed(s) <=> \E entry \in ToSet(review.entries) :
            entry.sample_id = s.id /\ entry.solution_process_decision = "confirmed"
    BY DEF Confirmed, review
  <2>2. CASE held = {}
    BY <1>9, <1>10, <2>2 DEF ConfirmedSample
  <2>3. CASE held # {} /\ review = NoReview
    <3>1. ~Confirmed(s)
      BY <2>1, <2>3 DEF NoReview, ToSet
    <3>2. ProcessStatus(r, review) = "unreviewed"
      BY <2>3 DEF NoReview, ProcessStatus
    <3> QED BY <1>9, <3>1, <3>2 DEF ConfirmedSample
  <2>4. CASE held # {} /\ review # NoReview
    <3>1. report.command = "formal-report" /\ review.status # "none" /\ r.sample_id = s.id
      BY <1>1, <1>8, <2>4
    <3>2. ProcessStatus(r, review) = "correct" <=> IsProvided(r) /\ Confirmed(s)
      BY <2>1, <3>1 DEF ProcessStatus
    <3> QED BY <1>9, <1>10, <2>4, <3>1, <3>2 DEF ConfirmedSample
  <2> QED BY <2>2, <2>3, <2>4
<1>13. ~Claims("passed") /\ row.candidate_answer_status = "passed" => Solved(s, s.id, s.code)
  <2> SUFFICES ASSUME ~Claims("passed"), row.candidate_answer_status = "passed"
               PROVE  Solved(s, s.id, s.code)
    OBVIOUS
  <2>1. held # {} /\ AnswerStatus(dataset, r, FALSE, e) = "passed"
    BY <1>9
  <2>2. SolvedBy(e, EvidenceId(s.id, FALSE), s.code, problem)
    BY <1>0, <1>1, <1>4, <1>8, <2>1, AnswerIsSolved DEF problem
  <2>3. EvidenceId(s.id, FALSE) = s.id
    BY <1>4, KeysDiffer
  <2> QED BY <1>7, <2>2, <2>3
<1>14. RowOf(s, row)
  BY <1>6, <1>9, <1>11, <1>12, <1>13 DEF RowOf, problem
<1> QED BY <1>2, <1>14 DEF s

(* As many rows as samples of a kind: a sample has one place.              *)
LEMMA PlacesOfSamples ==
    ASSUME NEW samples, IsSequence(samples), Distinct(samples), NEW Q \in SUBSET ToSet(samples)
    PROVE  Cardinality({i \in DOMAIN samples : samples[i] \in Q}) = Cardinality(Q)
<1> DEFINE I == {i \in DOMAIN samples : samples[i] \in Q}
           f == [i \in I |-> samples[i]]
<1>1. IsFiniteSet(I)
  <2>1. DOMAIN samples = 1..Len(samples) /\ Len(samples) \in Nat
    BY TextIsSequence
  <2>2. IsFiniteSet(DOMAIN samples) /\ I \in SUBSET DOMAIN samples
    BY <2>1, FS_Interval
  <2> HIDE DEF I
  <2> QED BY <2>2, FS_Subset
<1>2. f \in [I -> Q] /\ \A x, y \in I : f[x] = f[y] => x = y
  BY DEF Distinct
<1>3. \A z \in Q : \E x \in I : f[x] = z
  BY DEF ToSet
<1> HIDE DEF I, f
<1>4. Cardinality(I) = Cardinality(Q)
  BY <1>1, <1>2, <1>3, PairedSets
<1> QED BY <1>4 DEF I

LEMMA FamiliesAreFinite == IsFiniteSet(Splits) /\ IsFiniteSet(Difficulties)
<1>1. IsFiniteSet({"development"}) /\ IsFiniteSet({"basic"})
  BY FS_Singleton
<1>2. IsFiniteSet({"development"} \cup {"holdout"})
  BY <1>1, FS_AddElement
<1>3. IsFiniteSet({"basic"} \cup {"medium"})
  BY <1>1, FS_AddElement
<1>4. IsFiniteSet(({"basic"} \cup {"medium"}) \cup {"hard"})
  BY <1>3, FS_AddElement
<1>5. /\ {"development"} \cup {"holdout"} = Splits
      /\ ({"basic"} \cup {"medium"}) \cup {"hard"} = Difficulties
  BY DEF Splits, Difficulties
<1> QED BY <1>2, <1>4, <1>5, Zenon

LEMMA ReportedCreditIsEarned == EvaluationInv => CreditIsEarned
<1> DEFINE list == dataset.samples
           samples == ToSet(list)
           rows == report.summary.rows
           totals == report.summary.totals
           strata == report.summary.strata
           passed == {s \in samples : /\ Provides(s)
                                       /\ \E r \in RecordsFor(s) :
                                             Solved(s, EvidenceId(s.id, TRUE), SourceOf(r))}
           confirmed ==
               {s \in samples : report.command = "formal-report" /\ Provides(s) /\ Confirmed(s)}
<1> SUFFICES ASSUME EvaluationInv, report.made
             PROVE  /\ totals.n = Cardinality(samples)
                    /\ totals.answer_passed >= Cardinality(passed)
                    /\ ~Claims("passed") =>
                          /\ totals.answer_passed = Cardinality(passed)
                          /\ \A s \in samples : RowFor(s).candidate_answer_status = "passed" =>
                                                    Solved(s, s.id, s.code)
                    /\ totals.process_passed = Cardinality(confirmed)
                    /\ \A s \in samples : RecordsFor(s) = {} => "failed" \in RowFor(s).counted
                    /\ \A r \in ToSet(bundle) : r.expected_schema_version = report.version
                    /\ \A c \in Counters : \A family \in {Splits, Difficulties} :
                          (\A s \in samples : s.gold.primary_category \notin family) =>
                              InFamily(strata, family, c) = totals[c]
  BY DEF CreditIsEarned
<1>1. /\ dataset \in EvaluationSets /\ ValidateDataset(dataset)
      /\ report.summary = ReportOf(dataset, bundle, report.evidence, report.review)
      /\ OfOneVersion(report.version)
  BY DEF EvaluationInv
<1>2. IsSequence(list) /\ Distinct(list)
  BY <1>1, EvaluationAssumption DEF ValidateDataset, OnlyOnce, Distinct
<1>3. DOMAIN list = 1..Len(list) /\ Len(list) \in Nat
  BY <1>2, TextIsSequence
<1>4. DOMAIN rows = DOMAIN list /\ totals = Totals(rows) /\ strata = Strata(rows)
  BY <1>1 DEF ReportOf, RowsOf
<1>5. \A i \in DOMAIN list : RowOf(list[i], rows[i])
  BY RowsAreEarned
<1>6. \A i \in DOMAIN list :
         ProblemOf(dataset, list[i]).split \in Splits
         /\ ProblemOf(dataset, list[i]).difficulty \in Difficulties
  <2> TAKE i \in DOMAIN list
  <2>1. list[i] \in samples
    BY DEF ToSet
  <2>2. IsSequence(dataset.problems) /\ \A p \in ToSet(dataset.problems) : IsSequence(p.test_cases)
    BY <1>1, EvaluationAssumption
  <2> QED BY <1>1, <2>1, <2>2, ProblemIsFound
<1> HIDE DEF list, rows, totals, strata
<1>7. \A i \in DOMAIN list : list[i] \in samples
  BY DEF ToSet
<1>8. \A s \in samples : \E i \in DOMAIN list : s = list[i]
  BY DEF ToSet
<1> HIDE DEF samples
<1>9. ASSUME NEW s \in samples PROVE RowOf(s, RowFor(s))
  <2>1. PICK i \in DOMAIN list : s = list[i]
    BY <1>8
  <2>2. \A row \in ToSet(rows) : row.sample_id = s.id => row = rows[i]
    <3> SUFFICES ASSUME NEW j \in DOMAIN rows, rows[j].sample_id = s.id PROVE rows[j] = rows[i]
      BY DEF ToSet
    <3>1. list[j].id = list[i].id
      BY <1>4, <1>5, <2>1 DEF RowOf
    <3> QED BY <1>2, <1>4, <2>1, <3>1 DEF Distinct
  <2>3. rows[i] \in ToSet(rows) /\ rows[i].sample_id = s.id
    BY <1>4, <1>5, <2>1 DEF RowOf, ToSet
  <2>4. RowFor(s) = rows[i]
    BY <2>2, <2>3 DEF RowFor, rows
  <2> QED BY <1>5, <2>1, <2>4
<1>10. \A c \in Counters : totals[c] = Cardinality({i \in DOMAIN list : c \in rows[i].counted})
  BY <1>4 DEF Totals
<1>11. ASSUME NEW Q \in SUBSET samples, NEW c \in Counters,
              \A i \in DOMAIN list : c \in rows[i].counted <=> list[i] \in Q
       PROVE  totals[c] = Cardinality(Q)
  <2>1. {i \in DOMAIN list : c \in rows[i].counted} = {i \in DOMAIN list : list[i] \in Q}
    BY <1>11
  <2>2. Cardinality({i \in DOMAIN list : list[i] \in Q}) = Cardinality(Q)
    BY <1>2, PlacesOfSamples DEF samples
  <2> QED BY <1>10, <2>1, <2>2, Zenon
<1>12. "n" \in Counters /\ "answer_passed" \in Counters /\ "process_passed" \in Counters
  BY DEF Counters
<1>13. totals.n = Cardinality(samples)
  <2>1. \A i \in DOMAIN list : "n" \in rows[i].counted <=> list[i] \in samples
    BY <1>5, <1>7 DEF RowOf
  <2>2. totals["n"] = Cardinality(samples)
    BY <1>11, <1>12, <2>1
  <2> QED BY <2>2
<1>14. /\ totals.answer_passed >= Cardinality(passed)
       /\ ~Claims("passed") => totals.answer_passed = Cardinality(passed)
  <2>1. \A i \in DOMAIN list : list[i] \in passed => "answer_passed" \in rows[i].counted
    BY <1>5, <1>7 DEF RowOf, PassedSample
  <2>2. ~Claims("passed") =>
            \A i \in DOMAIN list : "answer_passed" \in rows[i].counted <=> list[i] \in passed
    BY <1>5, <1>7 DEF RowOf, PassedSample
  <2>3. passed \in SUBSET samples
    OBVIOUS
  <2> HIDE DEF passed
  <2>4. ~Claims("passed") => totals["answer_passed"] = Cardinality(passed)
    BY <1>11, <1>12, <2>2, <2>3
  <2> DEFINE those == {i \in DOMAIN list : list[i] \in passed}
             counted == {i \in DOMAIN list : "answer_passed" \in rows[i].counted}
  <2>5. Cardinality(those) = Cardinality(passed)
    BY <1>2, <2>3, PlacesOfSamples DEF samples
  <2>6. those \in SUBSET counted /\ IsFiniteSet(counted)
    <3>1. IsFiniteSet(DOMAIN list)
      BY <1>3, FS_Interval
    <3>2. counted \in SUBSET DOMAIN list /\ those \in SUBSET counted
      BY <2>1
    <3> HIDE DEF those, counted
    <3> QED BY <3>1, <3>2, FS_Subset
  <2>7. totals["answer_passed"] = Cardinality(counted)
    BY <1>10, <1>12
  <2> HIDE DEF those, counted
  <2>8. /\ Cardinality(those) <= Cardinality(counted)
        /\ Cardinality(those) \in Nat /\ Cardinality(counted) \in Nat
    BY <2>6, FS_Subset, FS_CardinalityType
  <2>9. totals["answer_passed"] >= Cardinality(passed)
    BY <2>5, <2>7, <2>8
  <2> QED BY <2>4, <2>9
<1>15. totals.process_passed = Cardinality(confirmed)
  <2>1. \A i \in DOMAIN list : "process_passed" \in rows[i].counted <=> list[i] \in confirmed
    BY <1>5, <1>7 DEF RowOf, ConfirmedSample
  <2>2. confirmed \in SUBSET samples
    OBVIOUS
  <2> HIDE DEF confirmed
  <2>3. totals["process_passed"] = Cardinality(confirmed)
    BY <1>11, <1>12, <2>1, <2>2
  <2> QED BY <2>3
<1>16. \A s \in samples :
          /\ ~Claims("passed") =>
                (RowFor(s).candidate_answer_status = "passed" => Solved(s, s.id, s.code))
          /\ RecordsFor(s) = {} => "failed" \in RowFor(s).counted
  BY <1>9 DEF RowOf
<1>17. \A r \in ToSet(bundle) : r.expected_schema_version = report.version
  BY <1>1 DEF OfOneVersion
<1>18. ASSUME NEW c \in Counters, NEW family \in {Splits, Difficulties},
              \A s \in samples : s.gold.primary_category \notin family
       PROVE  InFamily(strata, family, c) = totals[c]
  <2> DEFINE place == IF family = Splits THEN 1 ELSE 2
  <2>1. /\ IsFiniteSet(DOMAIN rows) /\ IsFiniteSet(family) /\ place \in 1..3
    <3>1. IsFiniteSet(DOMAIN rows)
      BY <1>3, <1>4, FS_Interval
    <3> QED BY <3>1, FamiliesAreFinite
  <2>2. ASSUME NEW i \in DOMAIN rows
        PROVE  /\ rows[i].strata[place] \in family
               /\ rows[i].strata[place] \in ToSet(rows[i].strata)
               /\ \A q \in 1..3 : rows[i].strata[q] \in family => q = place
    <3> DEFINE split == ProblemOf(dataset, list[i]).split
               difficulty == ProblemOf(dataset, list[i]).difficulty
               category == list[i].gold.primary_category
               names == rows[i].strata
    <3>1. /\ names = <<split, difficulty, category>>
          /\ split \in Splits /\ difficulty \in Difficulties /\ category \notin family
      BY <1>4, <1>5, <1>6, <1>7, <1>18 DEF RowOf
    <3> HIDE DEF split, difficulty, category, names
    <3>2. /\ names[1] = split /\ names[2] = difficulty /\ names[3] = category
          /\ DOMAIN names = 1..3
      BY <3>1
    <3>3. \A name \in Splits : name \notin Difficulties
      BY DEF Splits, Difficulties
    <3>4. names[place] \in family /\ \A q \in 1..3 : names[q] \in family => q = place
      BY <3>1, <3>2, <3>3
    <3>5. names[place] \in ToSet(names)
      BY <2>1, <3>2 DEF ToSet
    <3> QED BY <3>4, <3>5 DEF names
  <2> HIDE DEF place
  <2>3. InFamily(Strata(rows), family, c) = Totals(rows)[c]
    BY <2>1, <2>2, FamilyCounts
  <2> QED BY <1>4, <2>3
<1> HIDE DEF passed, confirmed
<1> QED BY <1>13, <1>14, <1>15, <1>16, <1>17, <1>18

(* A report gives credit for what was run, and, but for evidence that      *)
(* reports "passed" itself, for nothing else; for what a reviewer          *)
(* confirmed; and it leaves no sample out (CreditIsEarned), for every data *)
(* set, response, evidence and review.                                     *)
THEOREM ReportsAreEarned == EvaluationsSpec => []CreditIsEarned
BY EvaluationsAreOnRecord, ReportedCreditIsEarned, PTL

(* The documents and the evaluation leave the disk of the demo as its own  *)
(* steps make it: every theorem of Spec holds of the whole.                *)
THEOREM EvaluationsKeepTheDisk == EvaluationsSpec => Spec
<1>1. EvaluationsInit => Init
  BY DEF EvaluationsInit, DocumentsInit
<1>2. [EvaluationsNext]_<<vars, path, evaluation>> => [Next]_vars
  BY DEF EvaluationsNext, DocumentsNext
<1> QED BY <1>1, <1>2, PTL DEF EvaluationsSpec, Spec
=============================================================================
