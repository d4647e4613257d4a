----------------------------- MODULE Accumulation -----------------------------
(***************************************************************************)
(* What the other proofs need of sums and of concatenations.               *)
(*                                                                         *)
(* SumFunctionOnSet(f, S) adds up f[x] over the elements x of S in an      *)
(* order that CHOOSE fixes; of a finite set, the order makes no            *)
(* difference.  FlattenSeq(ss) joins the sequences ss[1], ss[2] and so on. *)
(*                                                                         *)
(* The provers cannot instantiate the library's induction theorems, which  *)
(* take an operator.  A least counterexample takes their place: the order  *)
(* of the natural numbers is well founded, so a set of them has a least    *)
(* element.                                                                *)
(***************************************************************************)
EXTENDS Integers, SequencesExt, FiniteSetTheorems, SequenceTheorems,
        WellFoundedInduction, TLAPS

\* A set of natural numbers has a least element.
LEMMA LeastNat ==
    ASSUME NEW T \in SUBSET Nat, T # {}
    PROVE  \E x \in T : \A y \in T : x <= y
<1> DEFINE R == {ss \in Nat \X Nat : ss[1] < ss[2]}
<1>1. IsWellFoundedOn(R, Nat)
  BY NatLessThanWellFounded DEF OpToRel
<1> HIDE DEF R
<1>2. PICK x \in T : \A y \in T : ~(<<y, x>> \in R)
  BY <1>1, WFMin
<1>3. ASSUME NEW y \in T, ~(x <= y) PROVE FALSE
  <2>1. x \in Nat /\ y \in Nat /\ y < x BY <1>3
  <2>2. <<y, x>> \in Nat \X Nat /\ <<y, x>>[1] = y /\ <<y, x>>[2] = x BY <2>1
  <2>3. <<y, x>> \in R BY <2>1, <2>2, Zenon DEF R
  <2>4. QED BY <2>3, <1>2
<1>4. QED BY <1>3

\* Of some finite sets, one has no other of them in it.
LEMMA SmallestSet ==
    ASSUME NEW S, IsFiniteSet(S), NEW B \in SUBSET SUBSET S, B # {}
    PROVE  \E s \in B : \A t \in SUBSET s : t # s => t \notin B
<1> DEFINE N == {Cardinality(s) : s \in B}
<1>1. \A s \in B : Cardinality(s) \in Nat BY FS_Subset, FS_CardinalityType
<1>2. N \in SUBSET Nat /\ N # {} BY <1>1
<1> HIDE DEF N
<1>3. PICK n \in N : \A m \in N : n <= m BY <1>2, LeastNat
<1>4. PICK s \in B : Cardinality(s) = n BY DEF N
<1>5. ASSUME NEW t \in SUBSET s, t \in B PROVE t = s
  <2>1. IsFiniteSet(s) BY FS_Subset
  <2>2. Cardinality(t) \in N BY <1>5 DEF N
  <2>3. Cardinality(s) <= Cardinality(t) BY <1>3, <1>4, <2>2
  <2>4. Cardinality(t) <= Cardinality(s) BY <2>1, FS_Subset
  <2>5. Cardinality(s) \in Nat /\ Cardinality(t) \in Nat BY <1>1, <1>5
  <2>6. Cardinality(s) = Cardinality(t) BY <2>3, <2>4, <2>5
  <2>7. QED BY <2>1, <2>6, FS_Subset
<1>6. QED BY <1>4, <1>5

-----------------------------------------------------------------------------
Chosen(s) == CHOOSE x \in s : TRUE

\* One element of a set is added to the sum of the others.
OneMore(f, S, g) ==
    [s \in SUBSET S |-> IF s = {} THEN 0 ELSE f[Chosen(s)] + g[s \ {Chosen(s)}]]

\* g[s] is the sum of f over s, for every subset s of S; for those of up to n elements.
Summing(f, S, g) == g = OneMore(f, S, g)
SummingTo(f, S, n, g) ==
    \A s \in SUBSET S : Cardinality(s) <= n => g[s] = OneMore(f, S, g)[s]

\* There is one element less to be summed.
LEMMA ChosenFacts ==
    ASSUME NEW S, IsFiniteSet(S), NEW s \in SUBSET S, s # {}
    PROVE  /\ Chosen(s) \in s
           /\ s \ {Chosen(s)} \in SUBSET S
           /\ Cardinality(s) \in Nat /\ Cardinality(s \ {Chosen(s)}) = Cardinality(s) - 1
<1>1. Chosen(s) \in s BY DEF Chosen
<1>2. IsFiniteSet(s) BY FS_Subset
<1>3. QED BY <1>1, <1>2, FS_CardinalityType, FS_RemoveElement

\* Such a g exists.
LEMMA SummingExists ==
    ASSUME NEW S, IsFiniteSet(S), NEW f
    PROVE  \E g : Summing(f, S, g)
<1> DEFINE Bad == {n \in Nat : \A g : ~SummingTo(f, S, n, g)}
<1>1. \A n : n \in Bad <=> n \in Nat /\ \A g : ~SummingTo(f, S, n, g) OBVIOUS
<1>2. Bad \in SUBSET Nat OBVIOUS
<1> HIDE DEF Bad
<1>3. Bad = {}
  <2> SUFFICES ASSUME Bad # {} PROVE FALSE OBVIOUS
  <2>1. PICK n \in Bad : \A m \in Bad : n <= m BY <1>2, LeastNat
  <2>2. n \in Nat BY <1>2
  <2>3. CASE n = 0
    <3> DEFINE z == [s \in SUBSET S |-> 0]
    <3>1. ASSUME NEW s \in SUBSET S, Cardinality(s) <= 0 PROVE z[s] = OneMore(f, S, z)[s]
      <4>1. s = {}
        <5>1. IsFiniteSet(s) BY FS_Subset
        <5>2. Cardinality(s) = 0 BY <3>1, <5>1, FS_CardinalityType
        <5>3. QED BY <5>1, <5>2, FS_EmptySet
      <4>2. QED BY <4>1 DEF OneMore
    <3> HIDE DEF z
    <3>2. SummingTo(f, S, 0, z) BY <3>1 DEF SummingTo
    <3>3. QED BY <1>1, <2>1, <2>3, <3>2
  <2>4. CASE n # 0
    <3>1. n - 1 \in Nat /\ ~(n <= n - 1) BY <2>2, <2>4
    <3>2. n - 1 \notin Bad BY <2>1, <3>1
    <3>3. PICK g : SummingTo(f, S, n - 1, g) BY <1>1, <3>1, <3>2
    <3> DEFINE h == OneMore(f, S, g)
    <3>4. ASSUME NEW s \in SUBSET S, Cardinality(s) <= n PROVE h[s] = OneMore(f, S, h)[s]
      <4>1. CASE s = {} BY <4>1 DEF OneMore
      <4>2. CASE s # {}
        <5> DEFINE r == s \ {Chosen(s)}
        <5>1. /\ Cardinality(s) \in Nat /\ Cardinality(r) = Cardinality(s) - 1
              /\ r \in SUBSET S
          BY <4>2, ChosenFacts
        <5>2. Cardinality(r) <= n - 1 BY <2>2, <3>4, <5>1
        <5>3. g[r] = h[r] BY <3>3, <5>1, <5>2 DEF SummingTo
        <5>4. h[s] = f[Chosen(s)] + g[r] BY <4>2 DEF OneMore
        <5>5. OneMore(f, S, h)[s] = f[Chosen(s)] + h[r]
          <6> HIDE DEF h
          <6>1. QED BY <4>2 DEF OneMore
        <5>6. QED BY <5>3, <5>4, <5>5
      <4>3. QED BY <4>1, <4>2
    <3> HIDE DEF h
    <3>5. SummingTo(f, S, n, h) BY <3>4 DEF SummingTo
    <3>6. QED BY <1>1, <2>1, <3>5
  <2>5. QED BY <2>3, <2>4
<1>4. Cardinality(S) \in Nat BY FS_CardinalityType
<1>5. PICK g : SummingTo(f, S, Cardinality(S), g) BY <1>1, <1>3, <1>4
<1>6. \A s \in SUBSET S : g[s] = OneMore(f, S, g)[s] BY <1>5, FS_Subset DEF SummingTo
<1> DEFINE h == OneMore(f, S, g)
<1>7. ASSUME NEW s \in SUBSET S PROVE h[s] = OneMore(f, S, h)[s]
  <2>1. CASE s = {} BY <2>1 DEF OneMore
  <2>2. CASE s # {}
    <3> DEFINE r == s \ {Chosen(s)}
    <3>1. g[r] = h[r] BY <1>6
    <3>2. h[s] = f[Chosen(s)] + g[r] BY <2>2 DEF OneMore
    <3>3. OneMore(f, S, h)[s] = f[Chosen(s)] + h[r]
      <4> HIDE DEF h
      <4>1. QED BY <2>2 DEF OneMore
    <3>4. QED BY <3>1, <3>2, <3>3
  <2>3. QED BY <2>1, <2>2
<1>8. h = OneMore(f, S, h)
  <2>1. h = [s \in SUBSET S |-> h[s]] BY DEF OneMore
  <2>2. OneMore(f, S, h) = [s \in SUBSET S |-> OneMore(f, S, h)[s]] BY DEF OneMore
  <2> HIDE DEF h
  <2>3. QED BY <1>7, <2>1, <2>2
<1>9. QED BY <1>8 DEF Summing

\* SumFunctionOnSet is what such a g assigns to the whole set.
LEMMA SumIsSumming ==
    ASSUME NEW S, IsFiniteSet(S), NEW f
    PROVE  \E g : Summing(f, S, g) /\ SumFunctionOnSet(f, S) = g[S]
<1> DEFINE g == CHOOSE h : Summing(f, S, h)
<1>1. Summing(f, S, g) BY SummingExists
<1>2. SumFunctionOnSet(f, S) = g[S]
  BY DEF SumFunctionOnSet, FoldFunctionOnSet, MapThenFoldSet, Summing, OneMore, Chosen
<1>3. QED BY <1>1, <1>2

\* The element that is added last may be any.
LEMMA AnyIsLast ==
    ASSUME NEW S, IsFiniteSet(S), NEW f, \A x \in S : f[x] \in Int, NEW g, Summing(f, S, g)
    PROVE  \A s \in SUBSET S : g[s] \in Int /\ \A y \in s : g[s] = f[y] + g[s \ {y}]
<1> DEFINE Good(s) == g[s] \in Int /\ \A y \in s : g[s] = f[y] + g[s \ {y}]
<1> DEFINE Bad == {s \in SUBSET S : ~Good(s)}
<1>1. ASSUME NEW s \in SUBSET S, \A t \in SUBSET s : t # s => Good(t)
      PROVE  Good(s)
  <2>1. CASE s = {} BY <2>1 DEF Summing, OneMore
  <2>2. CASE s # {}
    <3> DEFINE x == Chosen(s)
    <3>1. x \in s BY <2>2 DEF Chosen
    <3>2. g[s] = f[x] + g[s \ {x}] BY <2>2 DEF Summing, OneMore
    <3> HIDE DEF x
    <3>3. f[x] \in Int /\ g[s \ {x}] \in Int BY <1>1, <3>1
    <3>4. g[s] \in Int BY <3>2, <3>3
    <3>5. ASSUME NEW y \in s PROVE g[s] = f[y] + g[s \ {y}]
      <4>1. CASE y = x BY <3>2, <4>1
      <4>2. CASE y # x
        <5> DEFINE r == (s \ {x}) \ {y}
        <5>1. y \in s \ {x} /\ x \in s \ {y} /\ (s \ {y}) \ {x} = r BY <3>1, <4>2
        <5>2. Good(s \ {x}) /\ Good(s \ {y}) /\ Good(r) BY <1>1, <3>1
        <5>3. g[s \ {x}] = f[y] + g[r] BY <5>1, <5>2
        <5>4. g[s \ {y}] = f[x] + g[r] BY <5>1, <5>2
        <5>5. g[r] \in Int /\ f[y] \in Int BY <5>2
        <5> HIDE DEF r
        <5>6. QED BY <3>2, <3>3, <5>3, <5>4, <5>5
      <4>3. QED BY <4>1, <4>2
    <3>6. QED BY <3>4, <3>5
  <2>3. QED BY <2>1, <2>2
<1>2. \A s : s \in Bad <=> s \in SUBSET S /\ ~Good(s) OBVIOUS
<1>3. Bad \in SUBSET SUBSET S OBVIOUS
<1> HIDE DEF Bad
<1>4. Bad = {}
  <2> SUFFICES ASSUME Bad # {} PROVE FALSE OBVIOUS
  <2>1. PICK s \in Bad : \A t \in SUBSET s : t # s => t \notin Bad BY <1>3, SmallestSet
  <2> HIDE DEF Good
  <2>2. s \in SUBSET S BY <1>3
  <2>3. \A t \in SUBSET s : t # s => Good(t) BY <1>2, <2>1, <2>2
  <2>4. Good(s) BY <1>1, <2>2, <2>3
  <2>5. QED BY <1>2, <2>4
<1> HIDE DEF Good
<1>5. \A s \in SUBSET S : Good(s) BY <1>2, <1>4
<1>6. QED BY <1>5 DEF Good

\* The sum over a subset depends on the values in it, and not on the whole set.
LEMMA SummingAgrees ==
    ASSUME NEW S, IsFiniteSet(S), NEW T \in SUBSET S, NEW f, NEW e,
           \A x \in T : f[x] = e[x],
           NEW g, Summing(f, S, g), NEW h, Summing(e, T, h)
    PROVE  g[T] = h[T]
<1> DEFINE Bad == {s \in SUBSET T : g[s] # h[s]}
<1>1. \A s : s \in Bad <=> s \in SUBSET T /\ g[s] # h[s] OBVIOUS
<1>2. Bad \in SUBSET SUBSET T /\ IsFiniteSet(T) BY FS_Subset
<1> HIDE DEF Bad
<1>3. Bad = {}
  <2> SUFFICES ASSUME Bad # {} PROVE FALSE OBVIOUS
  <2>1. PICK s \in Bad : \A t \in SUBSET s : t # s => t \notin Bad BY <1>2, SmallestSet
  <2>2. s \in SUBSET T /\ s \in SUBSET S BY <1>2
  <2>3. CASE s = {} BY <1>1, <2>1, <2>2, <2>3 DEF Summing, OneMore
  <2>4. CASE s # {}
    <3> DEFINE x == Chosen(s)
    <3>1. x \in s BY <2>4 DEF Chosen
    <3>2. g[s] = f[x] + g[s \ {x}] /\ h[s] = e[x] + h[s \ {x}]
      BY <2>2, <2>4 DEF Summing, OneMore
    <3> HIDE DEF x
    <3>3. s \ {x} \notin Bad BY <2>1, <3>1
    <3>4. g[s \ {x}] = h[s \ {x}] BY <1>1, <2>2, <3>3
    <3>5. f[x] = e[x] BY <2>2, <3>1
    <3>6. g[s] = h[s] BY <3>2, <3>4, <3>5
    <3>7. QED BY <1>1, <2>1, <3>6
  <2>5. QED BY <2>3, <2>4
<1>4. QED BY <1>1, <1>3

-----------------------------------------------------------------------------
(***************************************************************************)
(* The facts about sums that are used.                                     *)
(***************************************************************************)
\* The sum over no elements.
THEOREM SumOfNone == \A f : SumFunctionOnSet(f, {}) = 0
BY DEF SumFunctionOnSet, FoldFunctionOnSet, MapThenFoldSet

\* The sum is determined by the values in the set.
THEOREM SumAgrees ==
    ASSUME NEW S, IsFiniteSet(S), NEW f, NEW e, \A x \in S : f[x] = e[x]
    PROVE  SumFunctionOnSet(f, S) = SumFunctionOnSet(e, S)
<1>1. PICK g : Summing(f, S, g) /\ SumFunctionOnSet(f, S) = g[S] BY SumIsSumming
<1>2. PICK h : Summing(e, S, h) /\ SumFunctionOnSet(e, S) = h[S] BY SumIsSumming
<1>3. S \in SUBSET S OBVIOUS
<1>4. g[S] = h[S] BY <1>1, <1>2, <1>3, SummingAgrees
<1>5. QED BY <1>1, <1>2, <1>4

\* One element more or less changes the sum by its value.
THEOREM SumWithout ==
    ASSUME NEW S, IsFiniteSet(S), NEW f, \A x \in S : f[x] \in Int, NEW y \in S
    PROVE  /\ SumFunctionOnSet(f, S) \in Int
           /\ SumFunctionOnSet(f, S \ {y}) \in Int
           /\ SumFunctionOnSet(f, S) = f[y] + SumFunctionOnSet(f, S \ {y})
<1> DEFINE T == S \ {y}
<1>1. T \in SUBSET S /\ IsFiniteSet(T) BY FS_RemoveElement
<1>2. PICK g : Summing(f, S, g) /\ SumFunctionOnSet(f, S) = g[S] BY SumIsSumming
<1>3. PICK h : Summing(f, T, h) /\ SumFunctionOnSet(f, T) = h[T]
  <2> HIDE DEF T
  <2>1. QED BY <1>1, SumIsSumming
<1>4. g[T] = h[T]
  <2> HIDE DEF T
  <2>1. QED BY <1>1, <1>2, <1>3, SummingAgrees
<1>5. S \in SUBSET S OBVIOUS
<1>6. g[S] \in Int /\ g[T] \in Int /\ g[S] = f[y] + g[T]
  BY <1>1, <1>2, <1>5, AnyIsLast
<1>7. QED BY <1>2, <1>3, <1>4, <1>6

-----------------------------------------------------------------------------
(***************************************************************************)
(* Concatenations.  FlattenSeq(ss) is f[Len(ss)] of the function f that    *)
(* joins the first i sequences of ss for each i.                           *)
(***************************************************************************)
Joining(ss, n, f) == f = [i \in 1..n |-> IF i = 1 THEN ss[i] ELSE f[i - 1] \o ss[i]]

\* Such an f exists, for any number of sequences.
LEMMA JoiningExists ==
    ASSUME NEW ss, NEW m \in Nat
    PROVE  \E f : Joining(ss, m, f)
<1> DEFINE Bad == {n \in Nat : \A f : ~Joining(ss, n, f)}
<1>1. \A n : n \in Bad <=> n \in Nat /\ \A f : ~Joining(ss, n, f) OBVIOUS
<1>2. Bad \in SUBSET Nat OBVIOUS
<1> HIDE DEF Bad
<1>3. ASSUME Bad # {} PROVE FALSE
  <2>1. PICK n \in Bad : \A k \in Bad : n <= k BY <1>2, <1>3, LeastNat
  <2>2. n \in Nat BY <1>2
  <2>3. CASE n = 0
    <3> DEFINE f == [i \in 1..0 |-> <<>>]
    <3>1. Joining(ss, 0, f) BY DEF Joining
    <3>2. QED BY <1>1, <2>1, <2>3, <3>1
  <2>4. CASE n # 0
    <3>1. n - 1 \in Nat /\ ~(n <= n - 1) BY <2>2, <2>4
    <3>2. n - 1 \notin Bad BY <2>1, <3>1
    <3>3. PICK f : Joining(ss, n - 1, f) BY <1>1, <3>1, <3>2
    <3> DEFINE h == [i \in 1..n |-> IF i = 1 THEN ss[i] ELSE f[i - 1] \o ss[i]]
    <3>4. ASSUME NEW i \in 1..n - 1 PROVE f[i] = h[i]
      <4>1. f[i] = IF i = 1 THEN ss[i] ELSE f[i - 1] \o ss[i] BY <3>3 DEF Joining
      <4>2. i \in 1..n BY <2>2
      <4>3. QED BY <4>1, <4>2
    <3>5. ASSUME NEW i \in 1..n
          PROVE  h[i] = IF i = 1 THEN ss[i] ELSE h[i - 1] \o ss[i]
      <4>1. CASE i = 1 BY <4>1
      <4>2. CASE i # 1
        <5>1. i - 1 \in 1..n - 1 BY <2>2, <4>2
        <5>2. f[i - 1] = h[i - 1] BY <3>4, <5>1
        <5>3. h[i] = f[i - 1] \o ss[i] BY <4>2
        <5>4. QED BY <4>2, <5>2, <5>3
      <4>3. QED BY <4>1, <4>2
    <3>6. h = [i \in 1..n |-> h[i]] OBVIOUS
    <3> HIDE DEF h
    <3>7. Joining(ss, n, h) BY <3>5, <3>6 DEF Joining
    <3>8. QED BY <1>1, <2>1, <3>7
  <2>5. QED BY <2>3, <2>4
<1>4. QED BY <1>1, <1>3

\* FlattenSeq is the last value of such a function.
LEMMA FlattenIsJoining ==
    ASSUME NEW ss, Len(ss) \in Nat
    PROVE  \E f : /\ Joining(ss, Len(ss), f)
                  /\ Len(ss) # 0 => FlattenSeq(ss) = f[Len(ss)]
                  /\ Len(ss) = 0 => FlattenSeq(ss) = ss
<1> DEFINE f == CHOOSE h : Joining(ss, Len(ss), h)
<1>1. Joining(ss, Len(ss), f) BY JoiningExists
<1>2. Len(ss) # 0 => FlattenSeq(ss) = f[Len(ss)] BY DEF FlattenSeq, Joining
<1>3. Len(ss) = 0 => FlattenSeq(ss) = ss BY DEF FlattenSeq
<1>4. QED BY <1>1, <1>2, <1>3

\* It joins sequences of any elements to one of them.
LEMMA JoiningType ==
    ASSUME NEW S, NEW ss \in Seq(Seq(S)), NEW f, Joining(ss, Len(ss), f)
    PROVE  \A i \in 1..Len(ss) : f[i] \in Seq(S)
<1> DEFINE Bad == {i \in 1..Len(ss) : f[i] \notin Seq(S)}
<1>1. \A i : i \in Bad <=> i \in 1..Len(ss) /\ f[i] \notin Seq(S) OBVIOUS
<1>2. Bad \in SUBSET Nat OBVIOUS
<1> HIDE DEF Bad
<1>3. ASSUME Bad # {} PROVE FALSE
  <2>1. PICK i \in Bad : \A j \in Bad : i <= j BY <1>2, <1>3, LeastNat
  <2>2. i \in 1..Len(ss) /\ f[i] \notin Seq(S) BY <1>1, <2>1
  <2>3. f[i] = IF i = 1 THEN ss[i] ELSE f[i - 1] \o ss[i] BY <2>2 DEF Joining
  <2>4. ss[i] \in Seq(S) BY <2>2, ElementOfSeq
  <2>5. i # 1 BY <2>2, <2>3, <2>4
  <2>6. i - 1 \in 1..Len(ss) /\ ~(i <= i - 1) BY <2>2, <2>5, LenProperties
  <2>7. f[i - 1] \in Seq(S) BY <1>1, <2>1, <2>6
  <2>8. f[i - 1] \o ss[i] \in Seq(S) BY <2>4, <2>7, ConcatProperties
  <2>9. QED BY <2>2, <2>3, <2>5, <2>8
<1>4. QED BY <1>1, <1>3

\* Flattening is what it says, by types: nothing is added.
THEOREM FlattenType ==
    ASSUME NEW S, NEW ss \in Seq(Seq(S))
    PROVE  FlattenSeq(ss) \in Seq(S)
<1>1. Len(ss) \in Nat BY LenProperties
<1>2. PICK f : /\ Joining(ss, Len(ss), f)
               /\ Len(ss) # 0 => FlattenSeq(ss) = f[Len(ss)]
               /\ Len(ss) = 0 => FlattenSeq(ss) = ss
  BY <1>1, FlattenIsJoining
<1>3. CASE Len(ss) = 0
  <2>1. ss = <<>> BY <1>3, EmptySeq
  <2>2. QED BY <1>2, <1>3, <2>1, EmptySeq
<1>4. CASE Len(ss) # 0
  <2>1. Len(ss) \in 1..Len(ss) BY <1>1, <1>4
  <2>2. QED BY <1>2, <1>4, <2>1, JoiningType
<1>5. QED BY <1>3, <1>4

\* Of no sequences.
THEOREM FlattenOfNone == FlattenSeq(<<>>) = <<>>
<1>1. Len(<<>>) = 0 /\ Len(<<>>) \in Nat BY EmptySeq
<1>2. QED BY <1>1, FlattenIsJoining

\* A sequence more is joined at the end.
THEOREM FlattenOfAppend ==
    ASSUME NEW S, NEW ss \in Seq(Seq(S)), NEW s \in Seq(S)
    PROVE  FlattenSeq(Append(ss, s)) = FlattenSeq(ss) \o s
<1> DEFINE tt == Append(ss, s)
           n == Len(ss)
<1>1. /\ n \in Nat /\ Len(tt) = n + 1 /\ tt[n + 1] = s
      /\ \A i \in 1..n : tt[i] = ss[i]
  BY AppendProperties, LenProperties
<1> HIDE DEF tt
<1>2. PICK f : /\ Joining(ss, n, f)
               /\ n # 0 => FlattenSeq(ss) = f[n]
               /\ n = 0 => FlattenSeq(ss) = ss
  BY <1>1, FlattenIsJoining
<1>3. PICK h : Joining(tt, n + 1, h) /\ FlattenSeq(tt) = h[n + 1]
  <2>1. Len(tt) \in Nat /\ Len(tt) # 0 BY <1>1
  <2>2. QED BY <1>1, <2>1, FlattenIsJoining
<1> DEFINE Bad == {i \in 1..n : f[i] # h[i]}
<1>4. \A i : i \in Bad <=> i \in 1..n /\ f[i] # h[i] OBVIOUS
<1>5. Bad \in SUBSET Nat OBVIOUS
<1> HIDE DEF Bad, n
<1>6. ASSUME Bad # {} PROVE FALSE
  <2>1. PICK i \in Bad : \A j \in Bad : i <= j BY <1>5, <1>6, LeastNat
  <2>2. i \in 1..n /\ i \in 1..n + 1 /\ f[i] # h[i] BY <1>1, <1>4, <2>1
  <2>3. f[i] = IF i = 1 THEN ss[i] ELSE f[i - 1] \o ss[i] BY <1>2, <2>2 DEF Joining
  <2>4. h[i] = IF i = 1 THEN tt[i] ELSE h[i - 1] \o tt[i] BY <1>3, <2>2 DEF Joining
  <2>5. i # 1 BY <1>1, <2>2, <2>3, <2>4
  <2>6. i - 1 \in 1..n /\ ~(i <= i - 1) BY <1>1, <2>2, <2>5
  <2>7. f[i - 1] = h[i - 1] BY <1>4, <2>1, <2>6
  <2>8. QED BY <1>1, <2>2, <2>3, <2>4, <2>7
<1>7. n + 1 \in 1..n + 1 BY <1>1
<1>8. h[n + 1] = IF n + 1 = 1 THEN s ELSE h[n] \o s
  <2>1. \A i \in 1..n + 1 : h[i] = IF i = 1 THEN tt[i] ELSE h[i - 1] \o tt[i]
    BY <1>3 DEF Joining
  <2>2. PICK k : k = n + 1 OBVIOUS
  <2>3. k \in 1..n + 1 /\ k - 1 = n BY <1>1, <1>7, <2>2
  <2>4. h[k] = IF k = 1 THEN tt[k] ELSE h[k - 1] \o tt[k] BY <2>1, <2>3
  <2>5. h[k] = IF k = 1 THEN s ELSE h[n] \o s BY <1>1, <2>2, <2>3, <2>4
  <2>6. QED BY <2>2, <2>5
<1>9. CASE n = 0
  <2>1. ss = <<>> BY <1>9, EmptySeq DEF n
  <2>2. FlattenSeq(ss) \o s = s BY <1>2, <1>9, <2>1, ConcatEmptySeq
  <2>3. FlattenSeq(tt) = s BY <1>3, <1>8, <1>9
  <2>4. QED BY <2>2, <2>3 DEF tt
<1>10. CASE n # 0
  <2>1. n \in 1..n /\ n + 1 # 1 BY <1>1, <1>10
  <2>2. f[n] = h[n] BY <1>4, <1>6, <2>1
  <2>3. FlattenSeq(tt) = f[n] \o s BY <1>3, <1>8, <2>1, <2>2
  <2>4. QED BY <1>2, <1>10, <2>3 DEF tt
<1>11. QED BY <1>9, <1>10

\* Empty sequences add nothing.
THEOREM FlattenOfEmpties ==
    ASSUME NEW ss \in Seq({<<>>})
    PROVE  FlattenSeq(ss) = <<>>
<1>1. <<>> \in Seq({}) BY EmptySeq
<1>2. ss \in Seq(Seq({})) BY <1>1, SeqMonotonic
<1>3. FlattenSeq(ss) \in Seq({}) BY <1>2, FlattenType
<1>4. ASSUME FlattenSeq(ss) # <<>> PROVE FALSE
  <2>1. Head(FlattenSeq(ss)) \in {} BY <1>3, <1>4, HeadTailProperties
  <2>2. QED BY <2>1
<1>5. QED BY <1>4

\* An element is appended to both sequences, or to the second.
LEMMA ConcatAppend ==
    ASSUME NEW S, NEW r \in Seq(S), NEW s \in Seq(S), NEW e \in S
    PROVE  r \o Append(s, e) = Append(r \o s, e)
<1>1. PICK z : z = <<e>> OBVIOUS
<1>2. z \in Seq(S)
  <2>1. <<e>> = Append(<<>>, e) /\ <<>> \in Seq(S) BY EmptySeq
  <2>2. QED BY <1>1, <2>1, AppendProperties
<1>3. Append(s, e) = s \o z BY <1>1, AppendIsConcat
<1>4. r \o s \in Seq(S) BY ConcatProperties
<1>5. Append(r \o s, e) = (r \o s) \o z BY <1>1, <1>4, AppendIsConcat
<1>6. (r \o s) \o z = r \o (s \o z) BY <1>2, ConcatAssociative
<1>7. QED BY <1>3, <1>5, <1>6

\* One after the other, or together.
THEOREM FlattenOfConcat ==
    ASSUME NEW S, NEW ss \in Seq(Seq(S)), NEW tt \in Seq(Seq(S))
    PROVE  FlattenSeq(ss \o tt) = FlattenSeq(ss) \o FlattenSeq(tt)
<1> DEFINE Good(t) == FlattenSeq(ss \o t) = FlattenSeq(ss) \o FlattenSeq(t)
           Bad == {n \in Nat : \E t \in Seq(Seq(S)) : Len(t) = n /\ ~Good(t)}
<1>1. \A n : n \in Bad <=> n \in Nat /\ \E t \in Seq(Seq(S)) : Len(t) = n /\ ~Good(t) OBVIOUS
<1>2. Bad \in SUBSET Nat OBVIOUS
<1> HIDE DEF Bad
<1>3. ASSUME Bad # {} PROVE FALSE
  <2>1. PICK n \in Bad : \A k \in Bad : n <= k BY <1>2, <1>3, LeastNat
  <2> HIDE DEF Good
  <2>2. PICK t \in Seq(Seq(S)) : Len(t) = n /\ ~Good(t) BY <1>1, <2>1
  <2>3. FlattenSeq(ss) \in Seq(S) BY FlattenType
  <2>4. CASE t = <<>>
    <3>1. ss \o t = ss BY <2>4, ConcatEmptySeq
    <3>2. FlattenSeq(t) = <<>> BY <2>4, FlattenOfNone
    <3>3. FlattenSeq(ss) \o FlattenSeq(t) = FlattenSeq(ss) BY <2>3, <3>2, ConcatEmptySeq
    <3>4. QED BY <2>2, <3>1, <3>3 DEF Good
  <2>5. CASE t # <<>>
    <3>1. PICK u \in Seq(Seq(S)), e \in Seq(S) : t = Append(u, e)
      BY <2>5, SequenceEmptyOrAppend
    <3>2. Len(u) \in Nat /\ n = Len(u) + 1 BY <2>2, <3>1, AppendProperties, LenProperties
    <3>3. Good(u)
      <4>1. ~(n <= Len(u)) BY <3>2
      <4>2. Len(u) \notin Bad BY <2>1, <4>1
      <4>3. QED BY <1>1, <3>2, <4>2
    <3>4. ss \o t = Append(ss \o u, e) BY <3>1, ConcatAppend
    <3>5. FlattenSeq(ss \o t) = FlattenSeq(ss \o u) \o e
      <4>1. ss \o u \in Seq(Seq(S)) BY ConcatProperties
      <4>2. QED BY <3>4, <4>1, FlattenOfAppend
    <3>6. FlattenSeq(t) = FlattenSeq(u) \o e BY <3>1, FlattenOfAppend
    <3>7. FlattenSeq(u) \in Seq(S) BY FlattenType
    <3>8. (FlattenSeq(ss) \o FlattenSeq(u)) \o e = FlattenSeq(ss) \o (FlattenSeq(u) \o e)
      BY <2>3, <3>7, ConcatAssociative
    <3>9. FlattenSeq(ss \o u) = FlattenSeq(ss) \o FlattenSeq(u) BY <3>3 DEF Good
    <3>10. QED BY <2>2, <3>5, <3>6, <3>8, <3>9 DEF Good
  <2>6. QED BY <2>4, <2>5
<1>4. Len(tt) \in Nat BY LenProperties
<1>5. QED BY <1>1, <1>3, <1>4

\* The first sequence comes first.
THEOREM FlattenOfFirst ==
    ASSUME NEW S, NEW ss \in Seq(Seq(S)), ss # <<>>
    PROVE  /\ ss[1] \in Seq(S) /\ Tail(ss) \in Seq(Seq(S))
           /\ FlattenSeq(ss) = ss[1] \o FlattenSeq(Tail(ss))
<1> DEFINE e == ss[1]
<1>1. Len(ss) \in Nat \ {0} BY EmptySeq
<1>2. e \in Seq(S) /\ 1 \in 1..Len(ss) /\ Len(ss) \in 1..Len(ss) BY <1>1, ElementOfSeq
<1>3. Tail(ss) \in Seq(Seq(S)) /\ Tail(ss) = SubSeq(ss, 2, Len(ss))
  BY HeadTailProperties, TailIsSubSeq
<1>4. ss = <<e>> \o Tail(ss)
  <2>1. SubSeq(ss, 1, Len(ss)) = <<ss[1]>> \o SubSeq(ss, 1 + 1, Len(ss))
    BY <1>2, SubSeqRecursiveFirst
  <2>2. SubSeq(ss, 1, Len(ss)) = ss BY SubSeqFull
  <2>3. QED BY <1>3, <2>1, <2>2
<1> HIDE DEF e
<1>5. <<>> \in Seq(Seq(S)) /\ <<>> \in Seq(S) BY EmptySeq
<1>6. <<e>> = Append(<<>>, e) OBVIOUS
<1>7. <<e>> \in Seq(Seq(S)) BY <1>2, <1>5, <1>6, AppendProperties
<1>8. FlattenSeq(<<e>>) = e
  <2>1. FlattenSeq(Append(<<>>, e)) = FlattenSeq(<<>>) \o e BY <1>2, <1>5, FlattenOfAppend
  <2>2. <<>> \o e = e BY <1>2, ConcatEmptySeq
  <2>3. QED BY <1>6, <2>1, <2>2, FlattenOfNone
<1>9. FlattenSeq(<<e>> \o Tail(ss)) = FlattenSeq(<<e>>) \o FlattenSeq(Tail(ss))
  BY <1>3, <1>7, FlattenOfConcat
<1>10. QED BY <1>2, <1>3, <1>4, <1>8, <1>9 DEF e

\* What comes last is the last sequence that is not empty.
LEMMA FlattenUpTo ==
    ASSUME NEW S, NEW ss \in Seq(Seq(S)), NEW t \in 1..Len(ss),
           \A i \in t + 1 .. Len(ss) : ss[i] = <<>>
    PROVE  /\ SubSeq(ss, 1, t - 1) \in Seq(Seq(S)) /\ Len(SubSeq(ss, 1, t - 1)) = t - 1
           /\ \A i \in 1..t - 1 : SubSeq(ss, 1, t - 1)[i] = ss[i]
           /\ FlattenSeq(ss) = FlattenSeq(SubSeq(ss, 1, t - 1)) \o ss[t]
<1> DEFINE n == Len(ss)
           u == SubSeq(ss, 1, t - 1)
           v == SubSeq(ss, 1, t)
           w == SubSeq(ss, t + 1, n)
<1>1. n \in Nat /\ t \in Nat /\ t - 1 \in Int /\ 1 \in Int BY LenProperties
<1>2. \A i \in 1..n : ss[i] \in Seq(S) BY ElementOfSeq
<1>3. /\ u \in Seq(Seq(S)) /\ Len(u) = t - 1 /\ \A i \in 1..t - 1 : u[i] = ss[i]
  <2>1. \A i \in 1..t - 1 : ss[i] \in Seq(S) BY <1>1, <1>2
  <2>2. /\ u \in Seq(Seq(S)) /\ Len(u) = IF 1 <= t - 1 THEN t - 1 - 1 + 1 ELSE 0
        /\ \A i \in 1..t - 1 - 1 + 1 : u[i] = ss[1 + i - 1]
    BY <1>1, <2>1, SubSeqProperties
  <2> HIDE DEF u
  <2>3. QED BY <1>1, <2>2
<1>4. v = Append(u, ss[t]) /\ v \in Seq(Seq(S))
  <2>1. 1 \in 1..n /\ t \in 1..n BY <1>1
  <2>2. v = u \o <<ss[t]>> BY <2>1, SubSeqRecursiveSecond
  <2>3. ss[t] \in Seq(S) BY <1>2
  <2> HIDE DEF u, v
  <2>4. QED BY <1>3, <2>2, <2>3, AppendIsConcat, AppendProperties
<1>5. w \in Seq({<<>>}) /\ w \in Seq(Seq(S))
  <2>1. \A i \in t + 1 .. n : ss[i] \in {<<>>} OBVIOUS
  <2>2. w \in Seq({<<>>}) BY <1>1, <2>1, SubSeqProperties
  <2>3. {<<>>} \subseteq Seq(S) BY EmptySeq
  <2> HIDE DEF w
  <2>4. QED BY <2>2, <2>3, SeqMonotonic
<1>6. ss = v \o w
  <2>1. 1 \in 1..n + 1 /\ t \in 1 - 1 .. n /\ n \in t..n BY <1>1
  <2>2. v \o w = SubSeq(ss, 1, n) BY <2>1, ConcatAdjacentSubSeq
  <2>3. QED BY <2>2, SubSeqFull
<1>7. ss[t] \in Seq(S) BY <1>2
<1> HIDE DEF u, v, w, n
<1>8. FlattenSeq(ss) = FlattenSeq(v) \o FlattenSeq(w) BY <1>4, <1>5, <1>6, FlattenOfConcat
<1>9. FlattenSeq(w) = <<>> BY <1>5, FlattenOfEmpties
<1>10. FlattenSeq(v) \o <<>> = FlattenSeq(v)
  <2>1. FlattenSeq(v) \in Seq(S) BY <1>4, FlattenType
  <2>2. QED BY <2>1, ConcatEmptySeq
<1>11. FlattenSeq(v) = FlattenSeq(u) \o ss[t] BY <1>3, <1>4, <1>7, FlattenOfAppend
<1>12. QED BY <1>3, <1>8, <1>9, <1>10, <1>11 DEF u

\* A sequence behind those flattened gets the element, or the whole does.
LEMMA AppendBehind ==
    ASSUME NEW S, NEW u, FlattenSeq(u) \in Seq(S), NEW s \in Seq(S), NEW e \in S
    PROVE  FlattenSeq(u) \o Append(s, e) = Append(FlattenSeq(u) \o s, e)
<1>1. PICK x \in Seq(S) : x = FlattenSeq(u) OBVIOUS
<1>2. x \o Append(s, e) = Append(x \o s, e) BY ConcatAppend
<1>3. QED BY <1>1, <1>2

\* tt has e behind the last sequence of ss that is not empty.
LastIsLonger(ss, tt, t, e) ==
    /\ \A i \in t + 1 .. Len(ss) : ss[i] = <<>>
    /\ Len(tt) = Len(ss)
    /\ tt[t] = Append(ss[t], e)
    /\ \A i \in 1..Len(ss) : i # t => tt[i] = ss[i]

\* Then the whole has e at its end.
LEMMA FlattenWhenLonger ==
    ASSUME NEW S, NEW ss \in Seq(Seq(S)), NEW tt \in Seq(Seq(S)), NEW t \in 1..Len(ss),
           NEW e \in S, LastIsLonger(ss, tt, t, e)
    PROVE  FlattenSeq(tt) = Append(FlattenSeq(ss), e)
<1> DEFINE u == SubSeq(ss, 1, t - 1)
           v == SubSeq(tt, 1, t - 1)
<1>0. /\ \A i \in t + 1 .. Len(ss) : ss[i] = <<>>
      /\ Len(tt) = Len(ss)
      /\ \A i \in 1..Len(ss) : i # t => tt[i] = ss[i]
  BY DEF LastIsLonger
<1>1. Len(ss) \in Nat BY LenProperties
<1>2. /\ u \in Seq(Seq(S)) /\ Len(u) = t - 1 /\ \A i \in 1..t - 1 : u[i] = ss[i]
      /\ FlattenSeq(ss) = FlattenSeq(u) \o ss[t]
  BY <1>0, FlattenUpTo
<1>3. /\ v \in Seq(Seq(S)) /\ Len(v) = t - 1 /\ \A i \in 1..t - 1 : v[i] = tt[i]
      /\ FlattenSeq(tt) = FlattenSeq(v) \o tt[t]
  <2>1. ASSUME NEW i \in t + 1 .. Len(tt) PROVE tt[i] = <<>>
    <3>1. i \in t + 1 .. Len(ss) BY <1>0
    <3>2. i \in 1..Len(ss) /\ i # t BY <1>1, <3>1
    <3>3. tt[i] = ss[i] BY <1>0, <3>2
    <3>4. ss[i] = <<>> BY <1>0, <3>1
    <3>5. QED BY <3>3, <3>4
  <2>2. /\ SubSeq(tt, 1, t - 1) \in Seq(Seq(S)) /\ Len(SubSeq(tt, 1, t - 1)) = t - 1
        /\ \A i \in 1..t - 1 : SubSeq(tt, 1, t - 1)[i] = tt[i]
        /\ FlattenSeq(tt) = FlattenSeq(SubSeq(tt, 1, t - 1)) \o tt[t]
    BY <1>0, <2>1, FlattenUpTo
  <2>3. QED BY <2>2
<1> HIDE DEF u, v
<1>4. u = v
  <2>1. \A i \in 1..t - 1 : u[i] = v[i] BY <1>0, <1>1, <1>2, <1>3
  <2>2. QED BY <1>2, <1>3, <2>1, SeqEqual
<1>5. ss[t] \in Seq(S) /\ FlattenSeq(u) \in Seq(S) BY <1>2, ElementOfSeq, FlattenType
<1>6. FlattenSeq(u) \o Append(ss[t], e) = Append(FlattenSeq(u) \o ss[t], e)
  BY <1>5, AppendBehind
<1>7. tt[t] = Append(ss[t], e) BY DEF LastIsLonger
<1>8. QED BY <1>2, <1>3, <1>4, <1>6, <1>7

\* The last sequence that is not empty gets one element more.
THEOREM FlattenOfLonger ==
    ASSUME NEW S, NEW ss \in Seq(Seq(S)), NEW tt \in Seq(Seq(S)), NEW t \in 1..Len(ss),
           NEW e \in S, \A i \in t + 1 .. Len(ss) : ss[i] = <<>>,
           Len(tt) = Len(ss), tt[t] = Append(ss[t], e),
           \A i \in 1..Len(ss) : i # t => tt[i] = ss[i]
    PROVE  FlattenSeq(tt) = Append(FlattenSeq(ss), e)
<1>1. LastIsLonger(ss, tt, t, e) BY DEF LastIsLonger
<1>2. QED BY <1>1, FlattenWhenLonger
=============================================================================
