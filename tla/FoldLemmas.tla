----------------------------- MODULE FoldLemmas -----------------------------
(***************************************************************************)
(* Induction over numbers and finite sets, and with it what the sums and   *)
(* concatenations of the models are, for data of any size.                 *)
(***************************************************************************)
EXTENDS Integers, FiniteSets, SequencesExt, FiniteSetTheorems, SequenceTheorems,
        WellFoundedInduction, TLAPS

\* Induction over the naturals, for sets: the form that first-order provers
\* can use.  It follows from the least element of Nat \ T.
LEMMA NatInductionOnSet ==
  ASSUME NEW T, 0 \in T, \A n \in Nat : n \in T => n + 1 \in T
  PROVE  Nat \subseteq T
<1> SUFFICES ASSUME Nat \ T # {} PROVE FALSE
  OBVIOUS
<1>1. PICK m \in Nat \ T : \A y \in Nat \ T : ~(<<y, m>> \in OpToRel(<, Nat))
  BY WFMin, NatLessThanWellFounded
<1>2. \A y \in Nat \ T : ~ (y < m)
  BY <1>1, Zenon DEF OpToRel
<1> HIDE <1>1
<1>3. m \in Nat /\ m \notin T /\ m # 0
  OBVIOUS
<1>4. m - 1 \in Nat /\ m - 1 < m /\ (m - 1) + 1 = m
  BY <1>3, SMT
<1> QED BY <1>2, <1>3, <1>4

\* A set of naturals has a least element.
LEMMA LeastElement ==
  ASSUME NEW T \in SUBSET Nat, T # {}
  PROVE  Min(T) \in T /\ \A y \in T : Min(T) <= y
<1>1. PICK m \in T : \A y \in T : ~(<<y, m>> \in OpToRel(<, Nat))
  BY WFMin, NatLessThanWellFounded
<1>2. \A y \in T : ~ (y < m)
  BY <1>1, Zenon DEF OpToRel
<1> HIDE <1>1
<1>3. \A y \in T : m <= y
  BY <1>2
<1> QED BY <1>3 DEF Min

-----------------------------------------------------------------------------
(* Sums.                                                                   *)

ChosenOf(s) == CHOOSE x \in s : TRUE

\* What the library's recursion says of the function it defines.
Sums(g, f, D) ==
  g = [s \in D |-> IF s = {} THEN 0 ELSE f[ChosenOf(s)] + g[s \ {ChosenOf(s)}]]

SumsOver(g, f, S) == Sums(g, f, SUBSET S)

\* The subsets of S with at most n elements.
UpTo(S, n) == {s \in SUBSET S : Cardinality(s) <= n}

LEMMA SumIsChosen ==
  ASSUME NEW f, NEW S
  PROVE  SumFunctionOnSet(f, S) = (CHOOSE g : SumsOver(g, f, S))[S]
BY Zenon DEF SumFunctionOnSet, FoldFunctionOnSet, MapThenFoldSet, SumsOver, Sums, ChosenOf

\* One element less.
LEMMA Smaller ==
  ASSUME NEW S, IsFiniteSet(S), NEW s \in SUBSET S, s # {}
  PROVE  /\ ChosenOf(s) \in s
         /\ \A x \in s : /\ Cardinality(s \ {x}) = Cardinality(s) - 1
                         /\ s \ {x} \in SUBSET S
         /\ Cardinality(s) \in Nat \ {0}
<1>1. IsFiniteSet(s)
  BY FS_Subset
<1>2. \E x : x \in s
  OBVIOUS
<1>3. ChosenOf(s) \in s
  BY <1>2 DEF ChosenOf
<1>4. Cardinality(s) \in Nat \ {0}
  BY <1>1, FS_EmptySet, FS_CardinalityType
<1> QED BY <1>1, <1>3, <1>4, FS_RemoveElement

LEMMA SumsExist ==
  ASSUME NEW f, NEW S, IsFiniteSet(S)
  PROVE  \E g : SumsOver(g, f, S)
<1> DEFINE T == {n \in Nat : \E g : Sums(g, f, UpTo(S, n))}
<1>1. 0 \in T
  <2> DEFINE g == [s \in UpTo(S, 0) |-> 0]
  <2>1. \A s \in UpTo(S, 0) : s = {}
    BY Smaller DEF UpTo
  <2>2. Sums(g, f, UpTo(S, 0))
    BY <2>1 DEF SumsOver, Sums
  <2> QED BY <2>2
<1>2. ASSUME NEW n \in Nat, n \in T PROVE n + 1 \in T
  <2>1. PICK g : Sums(g, f, UpTo(S, n))
    BY <1>2
  <2> DEFINE h == [s \in UpTo(S, n + 1) |->
                     IF s = {} THEN 0 ELSE f[ChosenOf(s)] + g[s \ {ChosenOf(s)}]]
  <2>2. \A s \in UpTo(S, n) : s \in UpTo(S, n + 1) /\ h[s] = g[s]
    <3>1. \A s \in UpTo(S, n) : s \in UpTo(S, n + 1)
      BY FS_Subset, FS_CardinalityType DEF UpTo
    <3> QED BY <2>1, <3>1 DEF SumsOver, Sums
  <2>3. ASSUME NEW s \in UpTo(S, n + 1), s # {} PROVE s \ {ChosenOf(s)} \in UpTo(S, n)
    BY <2>3, Smaller DEF UpTo
  <2>4. h = [s \in UpTo(S, n + 1) |->
               IF s = {} THEN 0 ELSE f[ChosenOf(s)] + h[s \ {ChosenOf(s)}]]
    BY <2>2, <2>3
  <2>5. Sums(h, f, UpTo(S, n + 1))
    BY <2>4 DEF SumsOver, Sums
  <2> QED BY <2>5
<1>3. Nat \subseteq T
  <2> HIDE DEF T
  <2> QED BY <1>1, <1>2, NatInductionOnSet
<1>4. Cardinality(S) \in T
  BY <1>3, FS_CardinalityType
<1>5. UpTo(S, Cardinality(S)) = SUBSET S
  BY FS_Subset DEF UpTo
<1> QED BY <1>4, <1>5 DEF SumsOver

LEMMA SumsUnique ==
  ASSUME NEW f, NEW S, IsFiniteSet(S), NEW g, SumsOver(g, f, S), 
         NEW S2, IsFiniteSet(S2), NEW h, SumsOver(h, f, S2),
         NEW s, s \in SUBSET S, s \in SUBSET S2
  PROVE  g[s] = h[s]
<1> DEFINE T == {n \in Nat : \A r \in SUBSET s : Cardinality(r) <= n => g[r] = h[r]}
<1>0. IsFiniteSet(s)
  BY FS_Subset
<1>1. 0 \in T
  <2>1. \A r \in SUBSET s : Cardinality(r) <= 0 => r = {}
    BY <1>0, Smaller
  <2>2. g[{}] = 0 /\ h[{}] = 0
    BY DEF SumsOver, Sums
  <2> QED BY <2>1, <2>2
<1>2. ASSUME NEW n \in Nat, n \in T PROVE n + 1 \in T
  <2>1. ASSUME NEW r \in SUBSET s, Cardinality(r) <= n + 1, r # {}
        PROVE  g[r] = h[r]
    <3>1. r \ {ChosenOf(r)} \in SUBSET s /\ Cardinality(r \ {ChosenOf(r)}) <= n
      BY <1>0, <2>1, Smaller
    <3>2. g[r \ {ChosenOf(r)}] = h[r \ {ChosenOf(r)}]
      BY <1>2, <3>1
    <3>3. g[r] = f[ChosenOf(r)] + g[r \ {ChosenOf(r)}]
      BY <2>1 DEF SumsOver, Sums
    <3>4. h[r] = f[ChosenOf(r)] + h[r \ {ChosenOf(r)}]
      BY <2>1 DEF SumsOver, Sums
    <3> QED BY <3>2, <3>3, <3>4
  <2>2. g[{}] = 0 /\ h[{}] = 0
    BY DEF SumsOver, Sums
  <2>3. \A r \in SUBSET s : Cardinality(r) <= n + 1 => g[r] = h[r]
    BY <2>1, <2>2
  <2> QED BY <2>3
<1>3. Nat \subseteq T
  <2> HIDE DEF T
  <2> QED BY <1>1, <1>2, NatInductionOnSet
<1>4. Cardinality(s) \in T
  BY <1>0, <1>3, FS_CardinalityType
<1>5. Cardinality(s) <= Cardinality(s)
  BY <1>0, FS_CardinalityType
<1> QED BY <1>4, <1>5

\* The sum over any set, and over a set with one element less.
LEMMA SumValue ==
  ASSUME NEW f, NEW S, IsFiniteSet(S), NEW s \in SUBSET S,
         NEW g, SumsOver(g, f, S)
  PROVE  SumFunctionOnSet(f, s) = g[s]
<1>1. IsFiniteSet(s)
  BY FS_Subset
<1>2. SumsOver(CHOOSE h : SumsOver(h, f, s), f, s)
  BY <1>1, SumsExist
<1>3. s \in SUBSET s
  OBVIOUS
<1>4. ASSUME NEW k, SumsOver(k, f, s) PROVE k[s] = g[s]
  BY <1>1, <1>3, <1>4, SumsUnique
<1> QED BY <1>2, <1>4, SumIsChosen

LEMMA SumOfEmpty == ASSUME NEW f PROVE SumFunctionOnSet(f, {}) = 0
<1>1. PICK g : SumsOver(g, f, {})
  BY SumsExist, FS_EmptySet
<1>2. g[{}] = 0
  BY <1>1 DEF SumsOver, Sums
<1>3. IsFiniteSet({}) /\ {} \in SUBSET {}
  BY FS_EmptySet
<1>4. SumFunctionOnSet(f, {}) = g[{}]
  BY <1>1, <1>3, SumValue
<1> QED BY <1>2, <1>4

LEMMA SumOfChosen ==
  ASSUME NEW f, NEW S, IsFiniteSet(S), S # {}
  PROVE  SumFunctionOnSet(f, S) =
           f[ChosenOf(S)] + SumFunctionOnSet(f, S \ {ChosenOf(S)})
<1>1. PICK g : SumsOver(g, f, S)
  BY SumsExist
<1>2. g[S] = f[ChosenOf(S)] + g[S \ {ChosenOf(S)}]
  BY <1>1 DEF SumsOver, Sums
<1> QED BY <1>1, <1>2, SumValue

\* Any element may be taken out.
LEMMA SumOfInts ==
  ASSUME NEW S, IsFiniteSet(S), NEW f, \A x \in S : f[x] \in Int
  PROVE  /\ SumFunctionOnSet(f, S) \in Int
         /\ \A x \in S : SumFunctionOnSet(f, S) = f[x] + SumFunctionOnSet(f, S \ {x})
<1> DEFINE Sum(s) == SumFunctionOnSet(f, s)
           T == {n \in Nat : \A s \in SUBSET S : Cardinality(s) <= n =>
                   Sum(s) \in Int /\ \A x \in s : Sum(s) = f[x] + Sum(s \ {x})}
<1>1. 0 \in T
  <2>1. \A s \in SUBSET S : Cardinality(s) <= 0 => s = {}
    BY Smaller
  <2>2. Sum({}) \in Int
    BY SumOfEmpty
  <2> HIDE DEF Sum
  <2>3. \A s \in SUBSET S : Cardinality(s) <= 0 =>
          Sum(s) \in Int /\ \A x \in s : Sum(s) = f[x] + Sum(s \ {x})
    BY <2>1, <2>2, Zenon
  <2> QED BY <2>3
<1>2. ASSUME NEW n \in Nat, n \in T PROVE n + 1 \in T
  <2>1. ASSUME NEW s \in SUBSET S, Cardinality(s) <= n + 1, s # {}
        PROVE  Sum(s) \in Int /\ \A x \in s : Sum(s) = f[x] + Sum(s \ {x})
    <3> DEFINE c == ChosenOf(s)
    <3>1. IsFiniteSet(s) /\ c \in s /\ c \in S
      BY <2>1, Smaller, FS_Subset
    <3>2. Sum(s) = f[c] + Sum(s \ {c})
      BY <2>1, <3>1, SumOfChosen
    <3>3. \A x \in s : s \ {x} \in SUBSET S /\ Cardinality(s \ {x}) <= n
      BY <2>1, Smaller
    <3> HIDE DEF Sum, c
    <3>4. \A x \in s : /\ Sum(s \ {x}) \in Int
                      /\ \A y \in s \ {x} : Sum(s \ {x}) = f[y] + Sum((s \ {x}) \ {y})
      BY <1>2, <3>3
    <3>5. Sum(s) \in Int
      BY <3>1, <3>2, <3>4
    <3>6. ASSUME NEW x \in s, x # c PROVE Sum(s) = f[x] + Sum(s \ {x})
      <4>1. Sum(s \ {c}) = f[x] + Sum((s \ {c}) \ {x})
        BY <3>1, <3>4, <3>6
      <4>2. Sum(s \ {x}) = f[c] + Sum((s \ {x}) \ {c})
        BY <3>1, <3>4, <3>6
      <4>3. (s \ {c}) \ {x} = (s \ {x}) \ {c}
        OBVIOUS
      <4>4. Sum((s \ {x}) \ {c}) \in Int
        <5>1. (s \ {x}) \ {c} \in SUBSET S /\ Cardinality((s \ {x}) \ {c}) <= n
          <6>1. s \ {x} \in SUBSET S /\ c \in s \ {x} /\ s \ {x} # {}
            BY <3>1, <3>6
          <6>2. /\ Cardinality((s \ {x}) \ {c}) = Cardinality(s \ {x}) - 1
                /\ Cardinality(s \ {x}) \in Nat
            BY <6>1, Smaller
          <6>3. Cardinality(s \ {x}) <= n
            BY <3>3
          <6> QED BY <6>1, <6>2, <6>3
        <5> QED BY <1>2, <5>1
      <4>5. f[x] \in Int /\ f[c] \in Int
        BY <3>1
      <4> DEFINE r == Sum((s \ {x}) \ {c})
      <4>6. Sum(s) = f[c] + (f[x] + r) /\ Sum(s \ {x}) = f[c] + r /\ r \in Int
        BY <3>2, <4>1, <4>2, <4>3, <4>4
      <4> HIDE DEF r
      <4> QED BY <4>5, <4>6
    <3> QED BY <3>2, <3>5, <3>6
  <2>2. Sum({}) \in Int
    BY SumOfEmpty
  <2> HIDE DEF Sum
  <2> QED BY <2>1, <2>2
<1>3. Nat \subseteq T
  <2> HIDE DEF T
  <2> QED BY <1>1, <1>2, NatInductionOnSet
<1>4. Cardinality(S) \in T /\ Cardinality(S) <= Cardinality(S)
  BY <1>3, FS_CardinalityType
<1> QED BY <1>4
\* Naturals have a natural sum.
LEMMA SumOfNats ==
  ASSUME NEW S, IsFiniteSet(S), NEW f, \A x \in S : f[x] \in Nat
  PROVE  SumFunctionOnSet(f, S) \in Nat
<1> DEFINE T == {n \in Nat : \A s \in SUBSET S :
                   Cardinality(s) <= n => SumFunctionOnSet(f, s) \in Nat}
<1>1. 0 \in T
  <2>1. \A s \in SUBSET S : Cardinality(s) <= 0 => s = {}
    BY Smaller
  <2> QED BY <2>1, SumOfEmpty
<1>2. ASSUME NEW n \in Nat, n \in T PROVE n + 1 \in T
  <2>1. ASSUME NEW s \in SUBSET S, Cardinality(s) <= n + 1, s # {}
        PROVE  SumFunctionOnSet(f, s) \in Nat
    <3>1. /\ ChosenOf(s) \in S /\ s \ {ChosenOf(s)} \in SUBSET S
          /\ Cardinality(s \ {ChosenOf(s)}) <= n
      BY <2>1, Smaller
    <3>2. SumFunctionOnSet(f, s \ {ChosenOf(s)}) \in Nat /\ f[ChosenOf(s)] \in Nat
      BY <1>2, <3>1
    <3>3. IsFiniteSet(s)
      BY FS_Subset
    <3> QED BY <2>1, <3>2, <3>3, SumOfChosen
  <2>2. \A s \in SUBSET S : Cardinality(s) <= n + 1 => SumFunctionOnSet(f, s) \in Nat
    BY <2>1, SumOfEmpty
  <2> QED BY <2>2
<1>3. Nat \subseteq T
  <2> HIDE DEF T
  <2> QED BY <1>1, <1>2, NatInductionOnSet
<1>4. Cardinality(S) \in T /\ Cardinality(S) <= Cardinality(S)
  BY <1>3, FS_CardinalityType
<1> QED BY <1>4

\* Only the values matter.
LEMMA SumOfEquals ==
  ASSUME NEW S, IsFiniteSet(S), NEW f, NEW g, \A x \in S : f[x] = g[x]
  PROVE  SumFunctionOnSet(f, S) = SumFunctionOnSet(g, S)
<1> DEFINE T == {n \in Nat : \A s \in SUBSET S :
                   Cardinality(s) <= n => SumFunctionOnSet(f, s) = SumFunctionOnSet(g, s)}
<1>1. 0 \in T
  <2>1. \A s \in SUBSET S : Cardinality(s) <= 0 => s = {}
    BY Smaller
  <2> QED BY <2>1, SumOfEmpty
<1>2. ASSUME NEW n \in Nat, n \in T PROVE n + 1 \in T
  <2>1. ASSUME NEW s \in SUBSET S, Cardinality(s) <= n + 1, s # {}
        PROVE  SumFunctionOnSet(f, s) = SumFunctionOnSet(g, s)
    <3>1. /\ ChosenOf(s) \in S /\ s \ {ChosenOf(s)} \in SUBSET S
          /\ Cardinality(s \ {ChosenOf(s)}) <= n
      BY <2>1, Smaller
    <3>2. /\ SumFunctionOnSet(f, s \ {ChosenOf(s)}) = SumFunctionOnSet(g, s \ {ChosenOf(s)})
          /\ f[ChosenOf(s)] = g[ChosenOf(s)]
      BY <1>2, <3>1
    <3>3. IsFiniteSet(s)
      BY FS_Subset
    <3> QED BY <2>1, <3>2, <3>3, SumOfChosen
  <2>2. \A s \in SUBSET S : Cardinality(s) <= n + 1 =>
          SumFunctionOnSet(f, s) = SumFunctionOnSet(g, s)
    BY <2>1, SumOfEmpty
  <2> QED BY <2>2
<1>3. Nat \subseteq T
  <2> HIDE DEF T
  <2> QED BY <1>1, <1>2, NatInductionOnSet
<1>4. Cardinality(S) \in T /\ Cardinality(S) <= Cardinality(S)
  BY <1>3, FS_CardinalityType
<1> QED BY <1>4

\* A sum of zeros is zero.
LEMMA SumOfZeros ==
  ASSUME NEW S, IsFiniteSet(S), NEW f, \A x \in S : f[x] = 0
  PROVE  SumFunctionOnSet(f, S) = 0
<1> DEFINE T == {n \in Nat : \A s \in SUBSET S :
                   Cardinality(s) <= n => SumFunctionOnSet(f, s) = 0}
<1>1. 0 \in T
  <2>1. \A s \in SUBSET S : Cardinality(s) <= 0 => s = {}
    BY Smaller
  <2> QED BY <2>1, SumOfEmpty
<1>2. ASSUME NEW n \in Nat, n \in T PROVE n + 1 \in T
  <2>1. ASSUME NEW s \in SUBSET S, Cardinality(s) <= n + 1, s # {}
        PROVE  SumFunctionOnSet(f, s) = 0
    <3>1. /\ ChosenOf(s) \in S /\ s \ {ChosenOf(s)} \in SUBSET S
          /\ Cardinality(s \ {ChosenOf(s)}) <= n
      BY <2>1, Smaller
    <3>2. SumFunctionOnSet(f, s \ {ChosenOf(s)}) = 0 /\ f[ChosenOf(s)] = 0
      BY <1>2, <3>1
    <3>3. IsFiniteSet(s)
      BY FS_Subset
    <3> QED BY <2>1, <3>2, <3>3, SumOfChosen
  <2>2. \A s \in SUBSET S : Cardinality(s) <= n + 1 => SumFunctionOnSet(f, s) = 0
    BY <2>1, SumOfEmpty
  <2> QED BY <2>2
<1>3. Nat \subseteq T
  <2> HIDE DEF T
  <2> QED BY <1>1, <1>2, NatInductionOnSet
<1>4. Cardinality(S) \in T /\ Cardinality(S) <= Cardinality(S)
  BY <1>3, FS_CardinalityType
<1> QED BY <1>4

\* One value changes.
LEMMA SumOfChanged ==
  ASSUME NEW S, IsFiniteSet(S), NEW x \in S, NEW f, NEW g,
         \A y \in S : f[y] \in Int, g[x] \in Int,
         \A y \in S \ {x} : g[y] = f[y]
  PROVE  /\ SumFunctionOnSet(g, S) = SumFunctionOnSet(f, S) + (g[x] - f[x])
         /\ SumFunctionOnSet(f, S) \in Int
<1>1. \A y \in S : g[y] \in Int
  OBVIOUS
<1>2. IsFiniteSet(S \ {x})
  BY FS_Subset
<1>3. SumFunctionOnSet(g, S \ {x}) = SumFunctionOnSet(f, S \ {x})
  BY <1>2, SumOfEquals
<1>4. SumFunctionOnSet(g, S) = g[x] + SumFunctionOnSet(g, S \ {x})
  BY <1>1, SumOfInts
<1>5. /\ SumFunctionOnSet(f, S) = f[x] + SumFunctionOnSet(f, S \ {x})
      /\ SumFunctionOnSet(f, S) \in Int
  BY SumOfInts
<1>6. SumFunctionOnSet(f, S \ {x}) \in Int
  BY <1>2, SumOfInts
<1> QED BY <1>3, <1>4, <1>5, <1>6

-----------------------------------------------------------------------------
(* Concatenations.                                                         *)

\* What FlattenSeq's recursion says of the function it defines.
Flattens(g, seqs, n) ==
  g = [i \in 1 .. n |-> IF i = 1 THEN seqs[i] ELSE g[i - 1] \o seqs[i]]

LEMMA FlattenIsChosen ==
  ASSUME NEW seqs, Len(seqs) # 0
  PROVE  FlattenSeq(seqs) = (CHOOSE g : Flattens(g, seqs, Len(seqs)))[Len(seqs)]
BY Zenon DEF FlattenSeq, Flattens

LEMMA FlattensExist ==
  ASSUME NEW seqs, NEW n \in Nat
  PROVE  \E g : Flattens(g, seqs, n)
<1> DEFINE T == {m \in Nat : \E g : Flattens(g, seqs, m)}
<1>1. 0 \in T
  <2>1. Flattens(<<>>, seqs, 0)
    BY DEF Flattens
  <2> QED BY <2>1
<1>2. ASSUME NEW m \in Nat, m \in T PROVE m + 1 \in T
  <2>1. PICK g : Flattens(g, seqs, m)
    BY <1>2
  <2> DEFINE h == [i \in 1 .. m + 1 |-> IF i = 1 THEN seqs[i] ELSE g[i - 1] \o seqs[i]]
  <2>2. \A i \in 1 .. m : i \in 1 .. m + 1 /\ h[i] = g[i]
    <3>1. \A i \in 1 .. m : g[i] = IF i = 1 THEN seqs[i] ELSE g[i - 1] \o seqs[i]
      BY <2>1 DEF Flattens
    <3>2. \A i \in 1 .. m + 1 : h[i] = IF i = 1 THEN seqs[i] ELSE g[i - 1] \o seqs[i]
      OBVIOUS
    <3> HIDE DEF h
    <3> QED BY <3>1, <3>2
  <2>3. \A i \in 1 .. m + 1 : i # 1 => i - 1 \in 1 .. m
    OBVIOUS
  <2>4. h = [i \in 1 .. m + 1 |-> IF i = 1 THEN seqs[i] ELSE h[i - 1] \o seqs[i]]
    BY <2>2, <2>3
  <2>5. Flattens(h, seqs, m + 1)
    BY <2>4 DEF Flattens
  <2> QED BY <2>5
<1>3. Nat \subseteq T
  <2> HIDE DEF T
  <2> QED BY <1>1, <1>2, NatInductionOnSet
<1> QED BY <1>3

LEMMA FlattenValue ==
  ASSUME NEW seqs, Len(seqs) \in Nat \ {0}
  PROVE  \E g : Flattens(g, seqs, Len(seqs)) /\ FlattenSeq(seqs) = g[Len(seqs)]
<1>1. \E g : Flattens(g, seqs, Len(seqs))
  BY FlattensExist
<1> QED BY <1>1, FlattenIsChosen

AgreeUpTo(p, q, m) == \A i \in 1 .. m : p[i] = q[i]

\* A common beginning is flattened alike.
LEMMA FlattensAgree ==
  ASSUME NEW m \in Nat, NEW p, NEW q, AgreeUpTo(p, q, m),
         NEW n \in Nat, NEW k \in Nat, m <= n, m <= k,
         NEW g, Flattens(g, p, n), NEW h, Flattens(h, q, k)
  PROVE  AgreeUpTo(g, h, m)
<1> DEFINE T == {j \in Nat : j \in 1 .. m => g[j] = h[j]}
<1>1. 0 \in T
  OBVIOUS
<1>2. ASSUME NEW j \in Nat, j \in T PROVE j + 1 \in T
  <2> SUFFICES ASSUME j + 1 \in 1 .. m PROVE g[j + 1] = h[j + 1]
    OBVIOUS
  <2>1. j + 1 \in 1 .. n /\ j + 1 \in 1 .. k /\ (j + 1) - 1 = j
    OBVIOUS
  <2>2. /\ g[j + 1] = IF j + 1 = 1 THEN p[j + 1] ELSE g[j] \o p[j + 1]
        /\ h[j + 1] = IF j + 1 = 1 THEN q[j + 1] ELSE h[j] \o q[j + 1]
    BY <2>1 DEF Flattens
  <2>3. j + 1 # 1 => g[j] = h[j]
    BY <1>2
  <2>4. p[j + 1] = q[j + 1]
    BY DEF AgreeUpTo
  <2> QED BY <2>2, <2>3, <2>4
<1>3. Nat \subseteq T
  <2> HIDE DEF T
  <2> QED BY <1>1, <1>2, NatInductionOnSet
<1> QED BY <1>3 DEF AgreeUpTo

LEMMA FlattenOfEmpty == FlattenSeq(<<>>) = <<>>
BY EmptySeq DEF FlattenSeq

\* FlattenSeq and Append.
LEMMA FlattenOfAppend ==
  ASSUME NEW A, NEW seqs \in Seq(Seq(A)), NEW x \in Seq(A)
  PROVE  FlattenSeq(Append(seqs, x)) = FlattenSeq(seqs) \o x
<1> DEFINE n == Len(seqs)
           all == Append(seqs, x)
<1>1. /\ n \in Nat /\ Len(all) = n + 1 /\ all[n + 1] = x
      /\ \A i \in 1 .. n : all[i] = seqs[i]
  BY LenProperties, AppendProperties
<1>2. PICK h : Flattens(h, all, n + 1) /\ FlattenSeq(all) = h[n + 1]
  <2> HIDE DEF n, all
  <2>1. Len(all) \in Nat \ {0}
    BY <1>1
  <2> QED BY <1>1, <2>1, FlattenValue
<1> HIDE DEF n, all
<1>3. CASE n = 0
  <2>1. seqs = <<>>
    BY <1>3, EmptySeq DEF n
  <2>2. h[n + 1] = x
    BY <1>1, <1>2, <1>3 DEF Flattens
  <2>3. <<>> \o x = x
    BY ConcatEmptySeq
  <2> QED BY <1>2, <2>1, <2>2, <2>3, FlattenOfEmpty DEF all
<1>4. CASE n # 0
  <2>1. PICK g : Flattens(g, seqs, n) /\ FlattenSeq(seqs) = g[n]
    <3>1. Len(seqs) \in Nat \ {0}
      BY <1>1, <1>4 DEF n
    <3> QED BY <3>1, FlattenValue DEF n
  <2>2. \A i \in 1 .. n : h[i] = g[i]
    <3>1. n <= n + 1 /\ n <= n /\ n + 1 \in Nat
      BY <1>1
    <3>2. Flattens(h, all, n + 1) /\ Flattens(g, seqs, n)
      BY <1>2, <2>1
    <3>3. AgreeUpTo(all, seqs, n)
      BY <1>1 DEF AgreeUpTo
    <3>4. AgreeUpTo(h, g, n)
      BY <1>1, <3>1, <3>2, <3>3, FlattensAgree
    <3> QED BY <3>4 DEF AgreeUpTo
  <2>3. n \in 1 .. n /\ n + 1 \in 1 .. n + 1 /\ (n + 1) - 1 = n /\ n + 1 # 1
    BY <1>1, <1>4
  <2>4. h[n + 1] = h[n] \o all[n + 1]
    BY <1>2, <2>3 DEF Flattens
  <2> QED BY <1>1, <1>2, <2>1, <2>2, <2>3, <2>4 DEF all
<1> QED BY <1>3, <1>4
LEMMA FlattenType ==
  ASSUME NEW A, NEW seqs \in Seq(Seq(A))
  PROVE  FlattenSeq(seqs) \in Seq(A)
<1> DEFINE T == {n \in Nat : \A s \in Seq(Seq(A)) : Len(s) = n => FlattenSeq(s) \in Seq(A)}
<1>1. 0 \in T
  BY EmptySeq, FlattenOfEmpty
<1>2. ASSUME NEW n \in Nat, n \in T PROVE n + 1 \in T
  <2>1. ASSUME NEW s \in Seq(Seq(A)), Len(s) = n + 1
        PROVE  FlattenSeq(s) \in Seq(A)
    <3>1. s # <<>>
      BY <2>1, EmptySeq
    <3>2. PICK r \in Seq(Seq(A)), x \in Seq(A) : s = Append(r, x)
      BY <3>1, SequenceEmptyOrAppend
    <3>3. Len(r) = n
      BY <2>1, <3>2, AppendProperties, LenProperties
    <3>4. FlattenSeq(r) \in Seq(A)
      BY <1>2, <3>3
    <3>5. FlattenSeq(s) = FlattenSeq(r) \o x
      BY <3>2, FlattenOfAppend
    <3> QED BY <3>4, <3>5, ConcatProperties
  <2> QED BY <2>1
<1>3. Nat \subseteq T
  <2> HIDE DEF T
  <2> QED BY <1>1, <1>2, NatInductionOnSet
<1> QED BY <1>3, LenProperties

LEMMA ConcatOfAppend ==
  ASSUME NEW A, NEW p \in Seq(A), NEW r \in Seq(A), NEW x \in A
  PROVE  p \o Append(r, x) = Append(p \o r, x) /\ p \o r \in Seq(A)
<1> DEFINE one == <<x>>
<1>1. one \in Seq(A) /\ Append(r, x) = r \o one
  BY AppendIsConcat
<1>2. p \o r \in Seq(A) /\ Append(p \o r, x) = (p \o r) \o one
  BY AppendIsConcat, ConcatProperties
<1> HIDE DEF one
<1>3. one \in Seq(A)
  BY <1>1
<1>4. p \o (r \o one) = (p \o r) \o one
  BY ONLY p \in Seq(A), r \in Seq(A), <1>3, ConcatAssociative
<1> QED BY <1>1, <1>2, <1>4, Zenon

\* FlattenSeq and \o, when the second sequence grows.
LEMMA FlattenOfLonger ==
  ASSUME NEW A, NEW p \in Seq(Seq(A)), NEW r \in Seq(Seq(A)), NEW x \in Seq(A),
         FlattenSeq(p \o r) = FlattenSeq(p) \o FlattenSeq(r)
  PROVE  FlattenSeq(p \o Append(r, x)) = FlattenSeq(p) \o FlattenSeq(Append(r, x))
<1>1. p \o Append(r, x) = Append(p \o r, x) /\ p \o r \in Seq(Seq(A))
  BY ConcatOfAppend
<1>3. FlattenSeq(p \o Append(r, x)) = FlattenSeq(p \o r) \o x
  BY <1>1, FlattenOfAppend
<1>4. FlattenSeq(Append(r, x)) = FlattenSeq(r) \o x
  BY FlattenOfAppend
<1>5. FlattenSeq(p) \in Seq(A) /\ FlattenSeq(r) \in Seq(A)
  BY FlattenType
<1>6. (FlattenSeq(p) \o FlattenSeq(r)) \o x = FlattenSeq(p) \o (FlattenSeq(r) \o x)
  BY <1>5, ConcatAssociative
<1> QED BY <1>3, <1>4, <1>6

LEMMA FlattenOfConcat ==
  ASSUME NEW A, NEW p \in Seq(Seq(A)), NEW q \in Seq(Seq(A))
  PROVE  FlattenSeq(p \o q) = FlattenSeq(p) \o FlattenSeq(q)
<1> DEFINE Holds(s) == FlattenSeq(p \o s) = FlattenSeq(p) \o FlattenSeq(s)
           T == {n \in Nat : \A s \in Seq(Seq(A)) : Len(s) = n => Holds(s)}
<1>1. 0 \in T
  <2>1. Holds(<<>>)
    BY FlattenType, ConcatEmptySeq, FlattenOfEmpty
  <2> HIDE DEF Holds
  <2> QED BY <2>1, EmptySeq
<1>2. ASSUME NEW n \in Nat, n \in T PROVE n + 1 \in T
  <2>1. ASSUME NEW s \in Seq(Seq(A)), Len(s) = n + 1
        PROVE  Holds(s)
    <3>1. s # <<>>
      BY <2>1, EmptySeq
    <3>2. PICK r \in Seq(Seq(A)), x \in Seq(A) : s = Append(r, x)
      BY <3>1, SequenceEmptyOrAppend
    <3>3. Len(r) = n
      BY <2>1, <3>2, AppendProperties, LenProperties
    <3>4. Holds(r)
      BY <1>2, <3>3
    <3> QED BY <3>2, <3>4, FlattenOfLonger
  <2> HIDE DEF Holds
  <2> QED BY <2>1
<1>3. Nat \subseteq T
  <2> HIDE DEF T
  <2> QED BY <1>1, <1>2, NatInductionOnSet
<1> QED BY <1>3, LenProperties

\* The first of the sequences comes first.
LEMMA FlattenOfFront ==
  ASSUME NEW A, NEW seqs \in Seq(Seq(A)), seqs # <<>>
  PROVE  /\ FlattenSeq(seqs) = seqs[1] \o FlattenSeq(Tail(seqs))
         /\ seqs[1] \in Seq(A) /\ FlattenSeq(Tail(seqs)) \in Seq(A)
<1> DEFINE x == seqs[1]
           rest == Tail(seqs)
<1>1. x \in Seq(A) /\ rest \in Seq(Seq(A)) /\ Len(rest) = Len(seqs) - 1
  BY EmptySeq, ElementOfSeq, HeadTailProperties
<1>2. <<>> \in Seq(Seq(A)) /\ <<x>> \in Seq(Seq(A)) /\ <<x>> = Append(<<>>, x)
  BY <1>1, EmptySeq, AppendProperties
<1>3. seqs = <<x>> \o rest
  <2>1. Len(seqs) \in Nat \ {0} /\ Len(<<x>>) = 1 /\ <<x>>[1] = x
    BY EmptySeq
  <2>2. /\ <<x>> \o rest \in Seq(Seq(A))
        /\ Len(<<x>> \o rest) = Len(seqs)
        /\ \A i \in 1 .. Len(seqs) :
             (<<x>> \o rest)[i] = IF i <= 1 THEN <<x>>[i] ELSE rest[i - 1]
    <3> HIDE DEF x, rest
    <3>1. 1 + (Len(seqs) - 1) = Len(seqs)
      BY <2>1
    <3> QED BY <1>1, <1>2, <2>1, <3>1, ConcatProperties
  <2>3. \A i \in 1 .. Len(rest) : rest[i] = seqs[i + 1]
    BY HeadTailProperties
  <2>4. \A i \in 1 .. Len(seqs) : seqs[i] = (<<x>> \o rest)[i]
    <3> HIDE DEF rest
    <3>1. ASSUME NEW i \in 1 .. Len(seqs), i # 1
          PROVE  i - 1 \in 1 .. Len(rest) /\ (i - 1) + 1 = i /\ ~ (i <= 1)
      BY <1>1, <2>1, <3>1
    <3>2. ASSUME NEW i \in 1 .. Len(seqs), i # 1
          PROVE  seqs[i] = (<<x>> \o rest)[i]
      <4>1. (<<x>> \o rest)[i] = rest[i - 1]
        BY <2>2, <3>1, <3>2
      <4>2. rest[i - 1] = seqs[i]
        BY <2>3, <3>1, <3>2
      <4> QED BY <4>1, <4>2
    <3>3. ASSUME NEW i \in 1 .. Len(seqs), i = 1
          PROVE  seqs[i] = (<<x>> \o rest)[i]
      BY <2>1, <2>2, <3>3
    <3> QED BY <3>2, <3>3
  <2> HIDE DEF x, rest
  <2> QED BY <2>2, <2>4, SeqEqual
<1>4. FlattenSeq(<<x>>) = <<>> \o x
  BY <1>1, <1>2, FlattenOfAppend, FlattenOfEmpty
<1>5. <<>> \o x = x
  BY <1>1, ConcatEmptySeq
<1> QED BY <1>1, <1>2, <1>3, <1>4, <1>5, FlattenOfConcat, FlattenType
-----------------------------------------------------------------------------
(* Concatenation as an operator of its own.  Left unexpanded it is a term   *)
(* to the provers, which otherwise compare \o element by element.           *)

Cat(s, t) == s \o t
One(x) == <<x>>

LEMMA CatType ==
  ASSUME NEW A, NEW s \in Seq(A), NEW t \in Seq(A)
  PROVE  Cat(s, t) \in Seq(A) /\ Len(Cat(s, t)) = Len(s) + Len(t)
BY ConcatProperties DEF Cat

LEMMA CatElements ==
  ASSUME NEW A, NEW s \in Seq(A), NEW t \in Seq(A)
  PROVE  /\ Len(s) \in Nat /\ Len(t) \in Nat
         /\ Len(Cat(s, t)) = Len(s) + Len(t)
         /\ \A i \in 1 .. Len(s) : Cat(s, t)[i] = s[i]
         /\ \A i \in 1 .. Len(t) : Cat(s, t)[Len(s) + i] = t[i]
<1> DEFINE c == s \o t
<1>1. /\ c \in Seq(A) /\ Len(c) = Len(s) + Len(t)
      /\ \A i \in 1 .. Len(s) + Len(t) : c[i] = IF i <= Len(s) THEN s[i] ELSE t[i - Len(s)]
  BY ConcatProperties
<1>2. Len(s) \in Nat /\ Len(t) \in Nat
  BY LenProperties
<1> HIDE DEF c
<1>3. ASSUME NEW i \in 1 .. Len(t) PROVE c[Len(s) + i] = t[i]
  <2>1. /\ Len(s) + i \in 1 .. Len(s) + Len(t) /\ ~ (Len(s) + i <= Len(s))
        /\ (Len(s) + i) - Len(s) = i
    BY <1>2
  <2> QED BY <1>1, <2>1
<1>4. \A i \in 1 .. Len(s) : c[i] = s[i]
  BY <1>1, <1>2
<1> QED BY <1>1, <1>2, <1>3, <1>4 DEF Cat, c

LEMMA OneType ==
  ASSUME NEW A, NEW x \in A
  PROVE  One(x) \in Seq(A) /\ Len(One(x)) = 1 /\ One(x)[1] = x
BY DEF One

LEMMA CatAssociative ==
  ASSUME NEW A, NEW s \in Seq(A), NEW t \in Seq(A), NEW u \in Seq(A)
  PROVE  Cat(Cat(s, t), u) = Cat(s, Cat(t, u))
BY ConcatAssociative DEF Cat

LEMMA CatEmpty ==
  ASSUME NEW A, NEW s \in Seq(A)
  PROVE  Cat(s, <<>>) = s /\ Cat(<<>>, s) = s
BY ConcatEmptySeq DEF Cat

LEMMA CatCancels ==
  ASSUME NEW A, NEW s \in Seq(A), NEW t \in Seq(A), NEW u \in Seq(A)
  PROVE  /\ Cat(s, t) = Cat(s, u) => t = u
         /\ Cat(t, s) = Cat(u, s) => t = u
<1>1. ASSUME Cat(s, t) = Cat(s, u) PROVE t = u
  <2>1. Len(t) = Len(u)
    BY <1>1, CatElements
  <2>2. ASSUME NEW i \in 1 .. Len(t) PROVE t[i] = u[i]
    <3>1. Cat(s, t)[Len(s) + i] = t[i]
      BY CatElements
    <3>2. Cat(s, u)[Len(s) + i] = u[i]
      BY <2>1, CatElements
    <3> QED BY <1>1, <3>1, <3>2
  <2> QED BY <2>1, <2>2, SeqEqual
<1>2. ASSUME Cat(t, s) = Cat(u, s) PROVE t = u
  <2>1. Len(t) = Len(u)
    BY <1>2, CatElements
  <2>2. ASSUME NEW i \in 1 .. Len(t) PROVE t[i] = u[i]
    <3>1. Cat(t, s)[i] = t[i]
      BY CatElements
    <3>2. Cat(u, s)[i] = u[i]
      BY <2>1, CatElements
    <3> QED BY <1>2, <3>1, <3>2
  <2> QED BY <2>1, <2>2, SeqEqual
<1> QED BY <1>1, <1>2

LEMMA AppendIsCat ==
  ASSUME NEW A, NEW s \in Seq(A), NEW x \in A
  PROVE  Append(s, x) = Cat(s, One(x))
BY AppendIsConcat DEF Cat, One

\* A sequence is its first element and the rest.
LEMMA FrontAndRest ==
  ASSUME NEW A, NEW s \in Seq(A), s # <<>>
  PROVE  s = Cat(One(s[1]), Tail(s)) /\ s[1] \in A /\ Tail(s) \in Seq(A)
<1>1. s[1] \in A /\ Tail(s) \in Seq(A) /\ <<s[1]>> \in Seq(A) /\ Len(s) \in Nat \ {0}
  BY EmptySeq, ElementOfSeq, HeadTailProperties
<1>2. SubSeq(s, 1, Len(s)) = <<s[1]>> \o SubSeq(s, 2, Len(s))
  BY <1>1, SubSeqRecursiveFirst
<1>3. SubSeq(s, 1, Len(s)) = s /\ Tail(s) = SubSeq(s, 2, Len(s))
  BY SubSeqFull, TailIsSubSeq
<1> QED BY <1>1, <1>2, <1>3 DEF Cat, One

\* What follows a given first element.
LEMMA RestOfCat ==
  ASSUME NEW A, NEW x \in A, NEW s \in Seq(A)
  PROVE  Tail(Cat(One(x), s)) = s /\ Cat(One(x), s) # <<>> /\ Cat(One(x), s)[1] = x
<1> DEFINE one == One(x)
           c == Cat(one, s)
<1>0. one \in Seq(A) /\ Len(one) = 1 /\ one[1] = x
  BY OneType
<1> HIDE DEF one
<1>1. c \in Seq(A) /\ Len(c) = 1 + Len(s) /\ c[1] = x /\ Len(s) \in Nat
  <2>1. c \in Seq(A)
    BY <1>0, CatType
  <2>2. /\ Len(c) = Len(one) + Len(s) /\ Len(s) \in Nat
        /\ \A i \in 1 .. Len(one) : c[i] = one[i]
    BY <1>0, CatElements
  <2>3. 1 \in 1 .. Len(one)
    BY <1>0
  <2> HIDE DEF c
  <2> QED BY <1>0, <2>1, <2>2, <2>3
<1> HIDE DEF c
<1>2. c # <<>>
  BY <1>1, EmptySeq
<1>3. c = Cat(One(c[1]), Tail(c)) /\ Tail(c) \in Seq(A)
  BY <1>1, <1>2, FrontAndRest
<1>4. Cat(one, Tail(c)) = Cat(one, s)
  BY <1>1, <1>3 DEF c, one
<1>5. Tail(c) = s
  <2> DEFINE rest == Tail(c)
  <2>1. rest \in Seq(A) /\ Cat(one, rest) = Cat(one, s)
    BY <1>3, <1>4
  <2> HIDE DEF rest
  <2>2. rest = s
    BY <1>0, <2>1, CatCancels
  <2> QED BY <2>2 DEF rest
<1> QED BY <1>1, <1>2, <1>5 DEF c, one

\* The first n elements, and the others.
LEMMA SplitAt ==
  ASSUME NEW A, NEW s \in Seq(A), NEW n \in 0 .. Len(s)
  PROVE  /\ s = Cat(SubSeq(s, 1, n), SubSeq(s, n + 1, Len(s)))
         /\ SubSeq(s, 1, n) \in Seq(A) /\ Len(SubSeq(s, 1, n)) = n
         /\ SubSeq(s, n + 1, Len(s)) \in Seq(A)
         /\ Len(SubSeq(s, n + 1, Len(s))) = Len(s) - n
<1>1. Len(s) \in Nat /\ \A i \in 1 .. Len(s) : s[i] \in A
  BY LenProperties, ElementOfSeq
<1>2. SubSeq(s, 1, n) \o SubSeq(s, n + 1, Len(s)) = SubSeq(s, 1, Len(s))
  <2>1. 1 \in 1 .. Len(s) + 1 /\ n \in 1 - 1 .. Len(s) /\ Len(s) \in n .. Len(s)
    BY <1>1
  <2> QED BY ONLY <2>1, s \in Seq(A), Zenon, ConcatAdjacentSubSeq
<1>3. /\ SubSeq(s, 1, n) \in Seq(A) /\ Len(SubSeq(s, 1, n)) = n
      /\ SubSeq(s, n + 1, Len(s)) \in Seq(A)
      /\ Len(SubSeq(s, n + 1, Len(s))) = Len(s) - n
  <2>1. \A i \in 1 .. n : s[i] \in A
    BY <1>1
  <2>2. \A i \in n + 1 .. Len(s) : s[i] \in A
    BY <1>1
  <2> QED BY <1>1, <2>1, <2>2, SubSeqProperties
<1> QED BY <1>2, <1>3, SubSeqFull DEF Cat

\* Two ways to cut a sequence at the same place.
LEMMA SameCut ==
  ASSUME NEW A, NEW a \in Seq(A), NEW b \in Seq(A), NEW c \in Seq(A), NEW d \in Seq(A),
         Cat(a, b) = Cat(c, d), Len(a) = Len(c)
  PROVE  a = c /\ b = d
<1>1. ASSUME NEW i \in 1 .. Len(a) PROVE a[i] = c[i]
  <2>1. Cat(a, b)[i] = a[i]
    BY CatElements
  <2>2. i \in 1 .. Len(c)
    OBVIOUS
  <2>3. Cat(c, d)[i] = c[i]
    BY <2>2, CatElements
  <2> QED BY <2>1, <2>3
<1>2. a = c
  BY <1>1, SeqEqual
<1> QED BY <1>2, CatCancels

\* The first element moves from one sequence to the end of another.
LEMMA FirstMoves ==
  ASSUME NEW A, NEW s \in Seq(A), NEW t \in Seq(A), t # <<>>
  PROVE  /\ Cat(Append(s, t[1]), Tail(t)) = Cat(s, t)
         /\ Append(s, t[1]) \in Seq(A) /\ Tail(t) \in Seq(A)
         /\ t[1] = Cat(s, t)[Len(s) + 1]
<1> DEFINE one == One(t[1])
           rest == Tail(t)
<1>1. t = Cat(one, rest) /\ t[1] \in A /\ rest \in Seq(A)
  BY FrontAndRest
<1>2. one \in Seq(A) /\ Append(s, t[1]) = Cat(s, one)
  BY <1>1, OneType, AppendIsCat
<1>3. Cat(s, one) \in Seq(A)
  BY <1>2, CatType
<1> HIDE DEF one, rest
<1>4. Cat(Cat(s, one), rest) = Cat(s, Cat(one, rest))
  BY <1>1, <1>2, CatAssociative
<1>5. t[1] = Cat(s, t)[Len(s) + 1]
  <2>1. 1 \in 1 .. Len(t)
    BY EmptySeq, LenProperties
  <2> QED BY <2>1, CatElements
<1>6. Cat(s, Cat(one, rest)) = Cat(s, t)
  BY <1>1
<1> QED BY <1>1, <1>2, <1>3, <1>4, <1>5, <1>6 DEF rest


-----------------------------------------------------------------------------
(* A sequence for every element, one after the other.                      *)

Maps(f, S, R) == \A x \in S : f[x] \in R
MapEach(f, q) == [k \in DOMAIN q |-> f[q[k]]]
FlatMap(f, q) == FlattenSeq(MapEach(f, q))

LEMMA MapEachType ==
  ASSUME NEW S, NEW R, NEW q \in Seq(S), NEW f, Maps(f, S, R)
  PROVE  /\ MapEach(f, q) \in Seq(R)
         /\ Len(MapEach(f, q)) = Len(q)
         /\ \A k \in 1 .. Len(q) : MapEach(f, q)[k] = f[q[k]]
<1>1. Len(q) \in Nat /\ DOMAIN q = 1 .. Len(q)
  BY LenProperties
<1>2. \A k \in 1 .. Len(q) : q[k] \in S
  BY ElementOfSeq
<1>3. MapEach(f, q) \in Seq(R) /\ DOMAIN MapEach(f, q) = 1 .. Len(q)
  BY <1>1, <1>2 DEF MapEach, Maps
<1>4. Len(MapEach(f, q)) \in Nat /\ DOMAIN MapEach(f, q) = 1 .. Len(MapEach(f, q))
  BY <1>3, LenProperties
<1>5. Len(MapEach(f, q)) = Len(q)
  BY <1>1, <1>3, <1>4
<1> QED BY <1>1, <1>3, <1>5 DEF MapEach

LEMMA MapEachOfCat ==
  ASSUME NEW S, NEW R, NEW p \in Seq(S), NEW q \in Seq(S), NEW f, Maps(f, S, R)
  PROVE  MapEach(f, Cat(p, q)) = Cat(MapEach(f, p), MapEach(f, q))
<1> DEFINE pq == Cat(p, q)
           mp == MapEach(f, p)
           mq == MapEach(f, q)
           a == MapEach(f, pq)
           b == Cat(mp, mq)
<1>1. /\ pq \in Seq(S) /\ Len(pq) = Len(p) + Len(q)
      /\ \A i \in 1 .. Len(p) : pq[i] = p[i]
      /\ \A i \in 1 .. Len(q) : pq[Len(p) + i] = q[i]
      /\ Len(p) \in Nat /\ Len(q) \in Nat
  <2>1. pq \in Seq(S)
    BY CatType
  <2> QED BY <2>1, CatElements
<1>2. /\ mp \in Seq(R) /\ Len(mp) = Len(p)
      /\ \A k \in 1 .. Len(p) : mp[k] = f[p[k]]
  BY MapEachType
<1>3. /\ mq \in Seq(R) /\ Len(mq) = Len(q)
      /\ \A k \in 1 .. Len(q) : mq[k] = f[q[k]]
  BY MapEachType
<1> HIDE DEF pq, mp, mq
<1>4. /\ a \in Seq(R) /\ Len(a) = Len(p) + Len(q)
      /\ \A k \in 1 .. Len(pq) : a[k] = f[pq[k]]
  <2>1. pq \in Seq(S) /\ Len(pq) = Len(p) + Len(q)
    BY <1>1
  <2>2. /\ a \in Seq(R) /\ Len(a) = Len(pq)
        /\ \A k \in 1 .. Len(pq) : a[k] = f[pq[k]]
    BY <2>1, MapEachType
  <2> QED BY <2>1, <2>2
<1>5. /\ b \in Seq(R) /\ Len(b) = Len(p) + Len(q)
      /\ \A i \in 1 .. Len(p) : b[i] = mp[i]
      /\ \A i \in 1 .. Len(q) : b[Len(p) + i] = mq[i]
  <2>1. mp \in Seq(R) /\ mq \in Seq(R)
    BY <1>2, <1>3
  <2>2. b \in Seq(R)
    BY <2>1, CatType
  <2>3. /\ Len(b) = Len(mp) + Len(mq)
        /\ \A i \in 1 .. Len(mp) : b[i] = mp[i]
        /\ \A i \in 1 .. Len(mq) : b[Len(mp) + i] = mq[i]
    BY <2>1, CatElements
  <2> QED BY <1>2, <1>3, <2>2, <2>3
<1> HIDE DEF a, b
<1>6. ASSUME NEW k \in 1 .. Len(a) PROVE a[k] = b[k]
  <2>1. CASE k \in 1 .. Len(p)
    <3>1. a[k] = f[p[k]]
      BY <1>1, <1>4, <2>1
    <3> QED BY <1>2, <1>5, <2>1, <3>1
  <2>2. CASE k \notin 1 .. Len(p)
    <3>1. PICK i \in 1 .. Len(q) : k = Len(p) + i
      <4>1. k - Len(p) \in 1 .. Len(q) /\ k = Len(p) + (k - Len(p))
        BY <1>1, <1>4, <2>2
      <4> QED BY <4>1
    <3>2. k \in 1 .. Len(pq) /\ pq[k] = q[i]
      BY <1>1, <3>1
    <3>3. a[k] = f[q[i]]
      BY <1>4, <3>2
    <3>4. b[k] = f[q[i]]
      BY <1>3, <1>5, <3>1
    <3> QED BY <3>3, <3>4
  <2> QED BY <2>1, <2>2
<1>7. a = b
  BY <1>4, <1>5, <1>6, SeqEqual
<1> QED BY <1>7 DEF a, b, pq, mp, mq

LEMMA MapEachOfOne ==
  ASSUME NEW S, NEW R, NEW x \in S, NEW f, Maps(f, S, R)
  PROVE  /\ MapEach(f, One(x)) \in Seq(R)
         /\ Len(MapEach(f, One(x))) = 1
         /\ MapEach(f, One(x))[1] = f[x]
<1> DEFINE one == One(x)
           m == MapEach(f, one)
<1>1. one \in Seq(S) /\ Len(one) = 1 /\ one[1] = x
  BY OneType
<1> HIDE DEF one
<1>2. m \in Seq(R) /\ Len(m) = Len(one) /\ \A k \in 1 .. Len(one) : m[k] = f[one[k]]
  BY <1>1, MapEachType
<1> HIDE DEF m
<1>3. m \in Seq(R) /\ Len(m) = 1 /\ m[1] = f[x]
  BY <1>1, <1>2
<1> QED BY <1>3 DEF m, one

LEMMA FlatMapType ==
  ASSUME NEW S, NEW A, NEW q \in Seq(S), NEW f, Maps(f, S, Seq(A))
  PROVE  FlatMap(f, q) \in Seq(A)
BY MapEachType, FlattenType DEF FlatMap

LEMMA FlatMapOfEmpty == ASSUME NEW f PROVE FlatMap(f, <<>>) = <<>>
<1>1. DOMAIN <<>> = {}
  OBVIOUS
<1>2. MapEach(f, <<>>) = <<>>
  BY <1>1 DEF MapEach
<1> QED BY <1>2, FlattenOfEmpty DEF FlatMap

LEMMA FlatMapOfCat ==
  ASSUME NEW S, NEW A, NEW p \in Seq(S), NEW q \in Seq(S), NEW f, Maps(f, S, Seq(A))
  PROVE  FlatMap(f, Cat(p, q)) = Cat(FlatMap(f, p), FlatMap(f, q))
<1>1. MapEach(f, Cat(p, q)) = Cat(MapEach(f, p), MapEach(f, q))
  BY MapEachOfCat
<1> DEFINE a == MapEach(f, p)
           b == MapEach(f, q)
<1>2. a \in Seq(Seq(A)) /\ b \in Seq(Seq(A))
  BY MapEachType
<1> HIDE DEF a, b
<1>3. FlattenSeq(a \o b) = FlattenSeq(a) \o FlattenSeq(b)
  BY <1>2, FlattenOfConcat
<1>4. FlattenSeq(Cat(a, b)) = Cat(FlattenSeq(a), FlattenSeq(b))
  BY <1>3 DEF Cat
<1> QED BY <1>1, <1>4 DEF FlatMap, a, b

LEMMA FlatMapOfOne ==
  ASSUME NEW S, NEW A, NEW x \in S, NEW f, Maps(f, S, Seq(A))
  PROVE  FlatMap(f, One(x)) = f[x]
<1> DEFINE m == MapEach(f, One(x))
<1>2. m \in Seq(Seq(A)) /\ Len(m) = 1 /\ m[1] = f[x]
  BY MapEachOfOne
<1> HIDE DEF m
<1>3. m # <<>>
  BY <1>2, EmptySeq
<1>4. FlattenSeq(m) = m[1] \o FlattenSeq(Tail(m)) /\ m[1] \in Seq(A)
  BY <1>2, <1>3, FlattenOfFront
<1>5. Tail(m) = <<>>
  <2>1. Tail(m) \in Seq(Seq(A)) /\ Len(Tail(m)) = 0
    BY <1>2, <1>3, HeadTailProperties
  <2> QED BY <2>1, EmptySeq
<1>6. m[1] \o <<>> = m[1]
  BY <1>4, ConcatEmptySeq
<1> QED BY <1>2, <1>4, <1>5, <1>6, FlattenOfEmpty DEF FlatMap, m

LEMMA FlatMapOfAppend ==
  ASSUME NEW S, NEW A, NEW q \in Seq(S), NEW x \in S, NEW f, Maps(f, S, Seq(A))
  PROVE  FlatMap(f, Append(q, x)) = Cat(FlatMap(f, q), f[x])
<1>1. One(x) \in Seq(S) /\ Append(q, x) = Cat(q, One(x))
  BY OneType, AppendIsCat
<1> QED BY <1>1, FlatMapOfCat, FlatMapOfOne

LEMMA FlatMapOfFront ==
  ASSUME NEW S, NEW A, NEW q \in Seq(S), q # <<>>, NEW f, Maps(f, S, Seq(A))
  PROVE  FlatMap(f, q) = Cat(f[q[1]], FlatMap(f, Tail(q)))
<1> DEFINE one == One(q[1])
           rest == Tail(q)
<1>1. q = Cat(one, rest) /\ q[1] \in S /\ rest \in Seq(S)
  BY FrontAndRest
<1>2. one \in Seq(S) /\ FlatMap(f, one) = f[q[1]]
  BY <1>1, OneType, FlatMapOfOne
<1> HIDE DEF one, rest
<1>3. FlatMap(f, Cat(one, rest)) = Cat(FlatMap(f, one), FlatMap(f, rest))
  BY <1>1, <1>2, FlatMapOfCat
<1> QED BY <1>1, <1>2, <1>3 DEF rest

-----------------------------------------------------------------------------
(* Where a sequence ends up in a concatenation.                            *)

\* The length of the first n of them.
FlatLen(seqs, n) == Len(FlattenSeq(SubSeq(seqs, 1, n)))

LEMMA FlatLenEnds ==
  ASSUME NEW A, NEW seqs \in Seq(Seq(A))
  PROVE  FlatLen(seqs, 0) = 0 /\ FlatLen(seqs, Len(seqs)) = Len(FlattenSeq(seqs))
<1>1. SubSeq(seqs, 1, 0) = <<>> /\ SubSeq(seqs, 1, Len(seqs)) = seqs
  BY SubSeqEmpty, SubSeqFull
<1>2. Len(FlattenSeq(<<>>)) = 0
  BY FlattenOfEmpty
<1> QED BY <1>1, <1>2 DEF FlatLen

LEMMA FlattenAt ==
  ASSUME NEW A, NEW seqs \in Seq(Seq(A)), NEW n \in 1 .. Len(seqs)
  PROVE  /\ FlatLen(seqs, n - 1) \in Nat
         /\ FlatLen(seqs, n) = FlatLen(seqs, n - 1) + Len(seqs[n])
         /\ FlatLen(seqs, n) <= Len(FlattenSeq(seqs))
         /\ \A k \in 1 .. Len(seqs[n]) :
              FlattenSeq(seqs)[FlatLen(seqs, n - 1) + k] = seqs[n][k]
         /\ FlattenSeq(SubSeq(seqs, 1, n)) = Cat(FlattenSeq(SubSeq(seqs, 1, n - 1)), seqs[n])
<1> DEFINE before == SubSeq(seqs, 1, n - 1)
           upto == SubSeq(seqs, 1, n)
           rest == SubSeq(seqs, n + 1, Len(seqs))
           x == seqs[n]
<1>1. Len(seqs) \in Nat /\ n - 1 \in 0 .. Len(seqs) /\ n \in 0 .. Len(seqs) /\ n \in Nat
  BY LenProperties
<1>2. x \in Seq(A)
  BY ElementOfSeq
<1>3. before \in Seq(Seq(A)) /\ upto \in Seq(Seq(A)) /\ rest \in Seq(Seq(A)) /\ seqs = Cat(upto, rest)
  BY <1>1, SplitAt
<1>4. upto = Append(before, x)
  <2>1. 1 \in 1 .. Len(seqs) /\ n \in 1 .. Len(seqs)
    BY <1>1
  <2>2. upto = before \o <<x>>
    BY <2>1, SubSeqRecursiveSecond
  <2> QED BY <1>2, <1>3, <2>2, AppendIsConcat
<1> HIDE DEF before, upto, rest, x
<1>5. FlattenSeq(upto) = Cat(FlattenSeq(before), x)
  BY <1>2, <1>3, <1>4, FlattenOfAppend DEF Cat
<1>6. FlattenSeq(seqs) = Cat(FlattenSeq(upto), FlattenSeq(rest))
  BY <1>3, FlattenOfConcat DEF Cat
<1>7. FlattenSeq(before) \in Seq(A) /\ FlattenSeq(upto) \in Seq(A) /\ FlattenSeq(rest) \in Seq(A)
  BY <1>3, FlattenType
<1> DEFINE b == Len(FlattenSeq(before))
           u == Len(FlattenSeq(upto))
           l == Len(x)
<1>8. /\ b \in Nat /\ u \in Nat /\ u = b + l /\ l \in Nat
      /\ \A k \in 1 .. l : FlattenSeq(upto)[b + k] = x[k]
  <2> DEFINE fb == FlattenSeq(before)
  <2>1. fb \in Seq(A) /\ FlattenSeq(upto) = Cat(fb, x)
    BY <1>5, <1>7
  <2> HIDE DEF fb
  <2>2. /\ Len(fb) \in Nat /\ Len(x) \in Nat /\ Len(Cat(fb, x)) = Len(fb) + Len(x)
        /\ \A k \in 1 .. Len(x) : Cat(fb, x)[Len(fb) + k] = x[k]
    BY <1>2, <2>1, CatElements
  <2> QED BY <2>1, <2>2 DEF fb
<1>9. /\ Len(FlattenSeq(seqs)) = u + Len(FlattenSeq(rest)) /\ Len(FlattenSeq(rest)) \in Nat
      /\ \A k \in 1 .. u : FlattenSeq(seqs)[k] = FlattenSeq(upto)[k]
  <2> DEFINE fu == FlattenSeq(upto)
             fr == FlattenSeq(rest)
  <2>1. fu \in Seq(A) /\ fr \in Seq(A) /\ FlattenSeq(seqs) = Cat(fu, fr)
    BY <1>6, <1>7
  <2> HIDE DEF fu, fr
  <2>2. /\ Len(fr) \in Nat /\ Len(Cat(fu, fr)) = Len(fu) + Len(fr)
        /\ \A k \in 1 .. Len(fu) : Cat(fu, fr)[k] = fu[k]
    BY <2>1, CatElements
  <2> QED BY <2>1, <2>2 DEF fu, fr
<1>10. b = FlatLen(seqs, n - 1) /\ u = FlatLen(seqs, n)
  BY DEF FlatLen, before, upto
<1> HIDE DEF b, u, l
<1>11. ASSUME NEW k \in 1 .. l PROVE FlattenSeq(seqs)[b + k] = x[k]
  <2>1. b + k \in 1 .. u
    BY <1>8
  <2> QED BY <1>8, <1>9, <2>1
<1>12. /\ FlatLen(seqs, n - 1) \in Nat
       /\ FlatLen(seqs, n) = FlatLen(seqs, n - 1) + Len(x)
  BY <1>8, <1>10, Zenon DEF l
<1>13. FlatLen(seqs, n) <= Len(FlattenSeq(seqs))
  <2>1. u <= Len(FlattenSeq(seqs))
    BY <1>8, <1>9
  <2> QED BY <1>10, <2>1, Zenon
<1>14. \A k \in 1 .. Len(x) : FlattenSeq(seqs)[FlatLen(seqs, n - 1) + k] = x[k]
  BY <1>10, <1>11, Zenon DEF l
<1> QED BY <1>5, <1>12, <1>13, <1>14, Zenon DEF x, before, upto

\* What is as long ends up at the same place.
LEMMA FlatLenAgree ==
  ASSUME NEW A, NEW p \in Seq(Seq(A)), NEW B, NEW q \in Seq(Seq(B)), Len(p) = Len(q),
         \A i \in 1 .. Len(p) : Len(p[i]) = Len(q[i]),
         NEW n \in 0 .. Len(p)
  PROVE  FlatLen(p, n) = FlatLen(q, n)
<1> DEFINE T == {m \in Nat : m <= Len(p) => FlatLen(p, m) = FlatLen(q, m)}
<1>0. Len(p) \in Nat
  BY LenProperties
<1>1. 0 \in T
  BY FlatLenEnds
<1>2. ASSUME NEW m \in Nat, m \in T PROVE m + 1 \in T
  <2> SUFFICES ASSUME m + 1 <= Len(p) PROVE FlatLen(p, m + 1) = FlatLen(q, m + 1)
    OBVIOUS
  <2>1. FlatLen(p, m) = FlatLen(q, m)
    BY <1>0, <1>2
  <2>2. m + 1 \in 1 .. Len(p) /\ m + 1 \in 1 .. Len(q) /\ (m + 1) - 1 = m
    BY <1>0
  <2>3. /\ FlatLen(p, m + 1) = FlatLen(p, (m + 1) - 1) + Len(p[m + 1])
        /\ FlatLen(q, m + 1) = FlatLen(q, (m + 1) - 1) + Len(q[m + 1])
    BY <2>2, FlattenAt
  <2>4. Len(p[m + 1]) = Len(q[m + 1])
    BY <2>2
  <2> QED BY <2>1, <2>2, <2>3, <2>4
<1>3. Nat \subseteq T
  <2> HIDE DEF T
  <2> QED BY <1>1, <1>2, NatInductionOnSet
<1> QED BY <1>0, <1>3

-----------------------------------------------------------------------------
(* What a sequence has, and what it begins with.                           *)

Places(s) == 1 .. Len(s)

Has(q, x) == \E i \in Places(q) : q[i] = x

\* p is the beginning of q.
Begins(p, q) == Len(p) <= Len(q) /\ \A i \in Places(p) : q[i] = p[i]

LEMMA CatHas ==
  ASSUME NEW A, NEW p \in Seq(A), NEW q \in Seq(A), NEW x, Has(p, x) \/ Has(q, x)
  PROVE  Has(Cat(p, q), x)
<1> PICK c : c = Cat(p, q)
  OBVIOUS
<1>1. /\ Len(p) \in Nat /\ Len(q) \in Nat /\ Len(c) = Len(p) + Len(q)
      /\ \A i \in 1 .. Len(p) : c[i] = p[i]
      /\ \A i \in 1 .. Len(q) : c[Len(p) + i] = q[i]
  BY CatElements
<1>2. CASE Has(p, x)
  <2>1. PICK i \in 1 .. Len(p) : p[i] = x
    BY <1>2 DEF Has, Places
  <2>2. i \in 1 .. Len(c) /\ c[i] = x
    BY <1>1, <2>1
  <2> QED BY <2>2 DEF Has, Places
<1>3. CASE Has(q, x)
  <2>1. PICK i \in 1 .. Len(q) : q[i] = x
    BY <1>3 DEF Has, Places
  <2>2. Len(p) + i \in 1 .. Len(c) /\ c[Len(p) + i] = x
    BY <1>1, <2>1
  <2> QED BY <2>2 DEF Has, Places
<1> QED BY <1>2, <1>3

LEMMA CatBegins ==
  ASSUME NEW A, NEW p \in Seq(A), NEW q \in Seq(A)
  PROVE  /\ Begins(p, Cat(p, q))
         /\ q # <<>> => Len(p) + 1 \in Places(Cat(p, q)) /\ Cat(p, q)[Len(p) + 1] = q[1]
<1> PICK c : c = Cat(p, q)
  OBVIOUS
<1>1. /\ Len(p) \in Nat /\ Len(q) \in Nat /\ Len(c) = Len(p) + Len(q)
      /\ \A i \in 1 .. Len(p) : c[i] = p[i]
      /\ \A i \in 1 .. Len(q) : c[Len(p) + i] = q[i]
  BY CatElements
<1>2. q # <<>> => Len(q) # 0
  BY EmptySeq
<1>3. Begins(p, c)
  BY <1>1 DEF Begins, Places
<1>4. ASSUME q # <<>> PROVE Len(p) + 1 \in Places(c) /\ c[Len(p) + 1] = q[1]
  BY <1>1, <1>2, <1>4 DEF Places
<1> QED BY <1>3, <1>4

LEMMA FlatMapHas ==
  ASSUME NEW S, NEW A, NEW f, Maps(f, S, Seq(A)), NEW q \in Seq(S), NEW k \in Places(q),
         NEW x, Has(f[q[k]], x)
  PROVE  Has(FlatMap(f, q), x)
<1>1. Len(q) \in Nat /\ k \in 1 .. Len(q)
  BY LenProperties DEF Places
<1>2. PICK m \in 0 .. Len(q) : m + 1 = k
  <2>1. k - 1 \in 0 .. Len(q) /\ (k - 1) + 1 = k
    BY <1>1
  <2> QED BY <2>1
<1> PICK p : p = SubSeq(q, 1, m)
  OBVIOUS
<1> PICK r : r = SubSeq(q, m + 1, Len(q))
  OBVIOUS
<1>3. q = Cat(p, r) /\ p \in Seq(S) /\ Len(p) = m /\ r \in Seq(S) /\ Len(r) = Len(q) - m
  BY SplitAt
<1>4. r # <<>>
  <2>1. Len(r) # 0
    BY <1>1, <1>2, <1>3
  <2> QED BY ONLY <1>3, <2>1, EmptySeq
<1>5. r[1] = q[k]
  BY <1>2, <1>3, <1>4, CatBegins
<1>6. FlatMap(f, q) = Cat(FlatMap(f, p), FlatMap(f, r))
  BY ONLY Maps(f, S, Seq(A)), <1>3, FlatMapOfCat
<1>7. FlatMap(f, r) = Cat(f[r[1]], FlatMap(f, Tail(r)))
  BY ONLY Maps(f, S, Seq(A)), <1>3, <1>4, FlatMapOfFront
<1>8. r[1] \in S /\ Tail(r) \in Seq(S)
  BY <1>3, <1>4, FrontAndRest
<1>9. /\ f[r[1]] \in Seq(A) /\ FlatMap(f, Tail(r)) \in Seq(A)
      /\ FlatMap(f, p) \in Seq(A) /\ FlatMap(f, r) \in Seq(A)
  BY <1>3, <1>8, FlatMapType DEF Maps
<1>10. Has(FlatMap(f, r), x)
  <2>1. Has(f[r[1]], x)
    BY <1>5
  <2>2. Has(Cat(f[r[1]], FlatMap(f, Tail(r))), x)
    BY <1>9, <2>1, CatHas
  <2> QED BY <1>7, <2>2, Zenon
<1>11. Has(Cat(FlatMap(f, p), FlatMap(f, r)), x)
  BY <1>9, <1>10, CatHas
<1> QED BY <1>6, <1>11, Zenon

-----------------------------------------------------------------------------
(* FlatMap where few elements map to anything, and MapEach of one more.    *)

LEMMA FlatMapOfNothing ==
  ASSUME NEW S, NEW A, NEW f, Maps(f, S, Seq(A)), NEW q \in Seq(S),
         \A k \in 1 .. Len(q) : f[q[k]] = <<>>
  PROVE  FlatMap(f, q) = <<>>
<1> DEFINE Nothing(p) == \A k \in 1 .. Len(p) : f[p[k]] = <<>>
           T == {n \in Nat : \A p \in Seq(S) : Len(p) = n /\ Nothing(p) => FlatMap(f, p) = <<>>}
<1>1. 0 \in T
  <2>1. ASSUME NEW p \in Seq(S), Len(p) = 0 PROVE FlatMap(f, p) = <<>>
    BY <2>1, EmptySeq, FlatMapOfEmpty
  <2> QED BY <2>1
<1>2. ASSUME NEW n \in Nat, n \in T PROVE n + 1 \in T
  <2>1. ASSUME NEW p \in Seq(S), Len(p) = n + 1, Nothing(p) PROVE FlatMap(f, p) = <<>>
    <3>1. p # <<>> /\ 1 \in 1 .. Len(p)
      BY <2>1, EmptySeq
    <3> DEFINE r == Tail(p)
    <3>2. r \in Seq(S) /\ Len(r) = n /\ \A k \in 1 .. Len(r) : r[k] = p[k + 1]
      <4>1. /\ r \in Seq(S) /\ Len(r) = Len(p) - 1
            /\ \A k \in 1 .. Len(r) : r[k] = p[k + 1]
        BY <3>1, HeadTailProperties
      <4> QED BY <2>1, <4>1
    <3>3. FlatMap(f, p) = Cat(f[p[1]], FlatMap(f, r))
      BY <3>1, FlatMapOfFront
    <3> HIDE DEF r
    <3>4. Nothing(r)
      <4>1. ASSUME NEW k \in 1 .. Len(r) PROVE f[r[k]] = <<>>
        <5>1. k + 1 \in 1 .. Len(p)
          BY <2>1, <3>2
        <5> QED BY <2>1, <3>2, <5>1
      <4> QED BY <4>1
    <3>5. FlatMap(f, r) = <<>>
      BY <1>2, <3>2, <3>4
    <3>6. f[p[1]] = <<>>
      BY <2>1, <3>1
    <3>7. Cat(<<>>, <<>>) = <<>>
      <4>1. <<>> \in Seq(A)
        BY EmptySeq
      <4> QED BY <4>1, CatEmpty
    <3> QED BY <3>3, <3>5, <3>6, <3>7, Zenon
  <2> QED BY <2>1
<1>3. Nat \subseteq T
  <2> HIDE DEF T
  <2> QED BY <1>1, <1>2, NatInductionOnSet
<1>4. Len(q) \in Nat
  BY LenProperties
<1>5. Len(q) \in T
  BY <1>3, <1>4
<1> QED BY <1>5

LEMMA FlatMapOfLast ==
  ASSUME NEW S, NEW A, NEW f, Maps(f, S, Seq(A)), NEW q \in Seq(S), q # <<>>,
         \A k \in 1 .. Len(q) - 1 : f[q[k]] = <<>>
  PROVE  FlatMap(f, q) = f[q[Len(q)]]
<1> DEFINE m == Len(q) - 1
           front == SubSeq(q, 1, m)
           last == SubSeq(q, m + 1, Len(q))
<1>1. Len(q) \in Nat \ {0} /\ m \in 0 .. Len(q) /\ m + 1 = Len(q)
  BY EmptySeq, LenProperties
<1>2. /\ q = Cat(front, last) /\ front \in Seq(S) /\ Len(front) = m
      /\ last \in Seq(S) /\ Len(last) = 1
  <2> HIDE DEF m
  <2>1. /\ q = Cat(front, last) /\ front \in Seq(S) /\ Len(front) = m
        /\ last \in Seq(S) /\ Len(last) = Len(q) - m
    BY <1>1, SplitAt
  <2> QED BY <1>1, <2>1
<1> HIDE DEF m, front, last
<1>3. /\ \A k \in 1 .. m : q[k] = front[k]
      /\ q[m + 1] = last[1]
  <2>1. front \in Seq(S) /\ last \in Seq(S)
    BY <1>2
  <2>2. \A k \in 1 .. Len(front) : Cat(front, last)[k] = front[k]
    BY <2>1, CatElements
  <2>3. Cat(front, last)[Len(front) + 1] = last[1]
    <3>1. 1 \in 1 .. Len(last)
      BY <1>2
    <3> QED BY <2>1, <3>1, CatElements
  <2> QED BY <1>1, <1>2, <2>2, <2>3
<1>4. FlatMap(f, front) = <<>>
  <2>1. ASSUME NEW k \in 1 .. Len(front) PROVE f[front[k]] = <<>>
    <3>1. k \in 1 .. Len(q) - 1 /\ front[k] = q[k]
      BY <1>1, <1>2, <1>3
    <3> QED BY <3>1
  <2> QED BY <1>2, <2>1, FlatMapOfNothing
<1>5. last = One(last[1]) /\ last[1] \in S
  <2>1. last # <<>>
    <3>1. last \in Seq(S) /\ Len(last) = 1
      BY <1>2
    <3> QED BY ONLY <3>1, EmptySeq
  <2>2. last = Cat(One(last[1]), Tail(last)) /\ last[1] \in S /\ Tail(last) \in Seq(S)
    BY <1>2, <2>1, FrontAndRest
  <2>3. Len(Tail(last)) = 0
    BY <1>2, <2>1, HeadTailProperties
  <2>4. Tail(last) = <<>>
    BY <2>2, <2>3, EmptySeq
  <2>5. One(last[1]) \in Seq(S)
    BY <2>2, OneType
  <2> QED BY <2>2, <2>4, <2>5, CatEmpty
<1>6. FlatMap(f, last) = f[last[1]] /\ FlatMap(f, last) \in Seq(A)
  BY <1>2, <1>5, FlatMapOfOne, FlatMapType
<1>7. FlatMap(f, q) = Cat(FlatMap(f, front), FlatMap(f, last))
  BY <1>2, FlatMapOfCat
<1>8. Cat(<<>>, FlatMap(f, last)) = FlatMap(f, last)
  BY <1>6, CatEmpty
<1> QED BY <1>1, <1>3, <1>4, <1>6, <1>7, <1>8, Zenon

LEMMA MapEachOfAppend ==
  ASSUME NEW S, NEW R, NEW q \in Seq(S), NEW x \in S, NEW f, Maps(f, S, R)
  PROVE  /\ MapEach(f, Cat(q, One(x))) = Cat(MapEach(f, q), One(f[x]))
         /\ MapEach(f, q) \in Seq(R)
<1> DEFINE p == MapEach(f, q)
           one == MapEach(f, One(x))
<1>1. One(x) \in Seq(S)
  BY OneType
<1>2. MapEach(f, Cat(q, One(x))) = Cat(p, one)
  BY <1>1, MapEachOfCat
<1>3. one \in Seq(R) /\ Len(one) = 1 /\ one[1] = f[x] /\ p \in Seq(R) /\ f[x] \in R
  BY MapEachOfOne, MapEachType DEF Maps
<1> HIDE DEF p, one
<1>4. One(f[x]) \in Seq(R) /\ Len(One(f[x])) = 1 /\ One(f[x])[1] = f[x]
  BY <1>3, OneType
<1>5. one = One(f[x])
  <2> DEFINE o == One(f[x])
  <2>1. o \in Seq(R) /\ Len(o) = 1 /\ o[1] = f[x]
    BY <1>4
  <2> HIDE DEF o
  <2>2. \A i \in 1 .. Len(one) : one[i] = o[i]
    BY <1>3, <2>1
  <2>3. one = o
    BY ONLY <1>3, <2>1, <2>2, SeqEqual
  <2> QED BY <2>3 DEF o
<1> QED BY <1>2, <1>3, <1>5 DEF p
=============================================================================
