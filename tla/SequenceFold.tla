---------------------------- MODULE SequenceFold ----------------------------
(***************************************************************************)
(* Folds over a sequence, whatever is folded: the values a recursive       *)
(* function takes along a sequence, for sequences of any length.  A module *)
(* that defines such a function instantiates this one with the function's  *)
(* start and step, and has the equations an invariant proof can use: what  *)
(* the fold answers for the empty sequence, what one more element changes, *)
(* and that what holds at the start and is kept by a step holds.           *)
(***************************************************************************)
EXTENDS Integers, Sequences, FiniteSetTheorems, WellFoundedInduction, TLAPS

CONSTANTS Base,        \* the answer for the empty sequence
          Step(_, _),  \* the answer after one more element
          Holds(_, _)  \* a claim about a sequence and an answer

Folded(s) ==
  LET fold[n \in 0..Len(s)] == IF n = 0 THEN Base ELSE Step(fold[n - 1], s[n])
  IN  fold[Len(s)]

(* f holds the answers for the first 0, 1, ... k elements of s.            *)
FoldsTo(f, s, k) ==
  f = [n \in 0..k |-> IF n = 0 THEN Base ELSE Step(f[n - 1], s[n])]

(* Every non-empty set of numbers has a least element; the initial         *)
(* segments of Nat are finite, so their strict inclusion is well-founded.  *)
LEMMA Least ==
  ASSUME NEW T, T \subseteq Nat, T # {}
  PROVE  \E x \in T : \A y \in T : x <= y
<1> DEFINE F == {0..k : k \in T}
<1>1. F \subseteq FiniteSubsetsOf(Nat)
  <2> SUFFICES ASSUME NEW k \in T PROVE 0..k \in FiniteSubsetsOf(Nat)
    OBVIOUS
  <2>1. IsFiniteSet(0..k)
    BY FS_Interval
  <2> QED BY <2>1 DEF FiniteSubsetsOf
<1>2. F # {}
  OBVIOUS
<1>3. \E x \in F : \A y \in F : ~(<<y, x>> \in StrictSubsetOrdering(Nat))
  <2> HIDE DEF F
  <2>1. IsWellFoundedOn(StrictSubsetOrdering(Nat), FiniteSubsetsOf(Nat))
    BY FS_StrictSubsetOrderingWellFounded
  <2> QED BY <1>1, <1>2, <2>1, WFMin
<1>4. PICK k \in T : \A y \in F : ~(<<y, 0..k>> \in StrictSubsetOrdering(Nat))
  BY <1>3
<1>5. ASSUME NEW y \in T, y < k PROVE FALSE
  <2>1. 0..y \in SUBSET Nat /\ 0..k \in SUBSET Nat
    OBVIOUS
  <2>2. 0..y \subseteq 0..k /\ 0..y # 0..k
    BY <1>5
  <2>3. <<0..y, 0..k>> \in StrictSubsetOrdering(Nat)
    BY <2>1, <2>2 DEF StrictSubsetOrdering
  <2> QED BY <2>3, <1>4
<1> QED BY <1>5

(* The recursion is well-founded: answers exist to any depth.              *)
LEMMA FoldExists ==
  ASSUME NEW s, NEW k \in Nat
  PROVE  \E f : FoldsTo(f, s, k)
<1> DEFINE T == {n \in Nat : ~\E f : FoldsTo(f, s, n)}
<1>1. SUFFICES ASSUME T # {} PROVE FALSE
  OBVIOUS
<1>2. PICK n \in T : \A m \in T : n <= m
  BY <1>1, Least
<1>3. CASE n = 0
  <2> DEFINE f == [i \in 0..0 |-> Base]
  <2>1. f = [i \in 0..0 |-> IF i = 0 THEN Base ELSE Step(f[i - 1], s[i])]
    OBVIOUS
  <2>2. FoldsTo(f, s, 0)
    BY <2>1 DEF FoldsTo
  <2> QED BY <2>2, <1>3
<1>4. CASE n # 0
  <2>1. n - 1 \in Nat /\ n - 1 \notin T
    BY <1>2, <1>4
  <2>2. PICK f : FoldsTo(f, s, n - 1)
    BY <2>1
  <2> DEFINE g == [i \in 0..n |-> IF i = n THEN Step(f[n - 1], s[n]) ELSE f[i]]
  <2>3. ASSUME NEW i \in 0..n
        PROVE  g[i] = IF i = 0 THEN Base ELSE Step(g[i - 1], s[i])
    <3>1. CASE i = n
      <4>1. g[i - 1] = f[n - 1]
        BY <3>1, <1>4
      <4> QED BY <3>1, <4>1, <1>4
    <3>2. CASE i # n
      <4>1. i \in 0..(n - 1)
        BY <3>2
      <4>2. f[i] = IF i = 0 THEN Base ELSE Step(f[i - 1], s[i])
        BY <4>1, <2>2 DEF FoldsTo
      <4>3. i # 0 => g[i - 1] = f[i - 1]
        BY <4>1
      <4> QED BY <3>2, <4>2, <4>3
    <3> QED BY <3>1, <3>2
  <2>4. FoldsTo(g, s, n)
    <3> HIDE DEF g
    <3>1. g = [i \in 0..n |-> g[i]]
      BY DEF g
    <3> QED BY <3>1, <2>3 DEF FoldsTo
  <2> QED BY <2>4, <1>2
<1> QED BY <1>3, <1>4

(* An answer depends on the elements so far, not on what follows them.     *)
LEMMA FoldPrefix ==
  ASSUME NEW s, NEW t, NEW k \in Nat, NEW m \in Nat, k <= m,
         \A i \in 1..k : s[i] = t[i],
         NEW f, FoldsTo(f, s, k), NEW g, FoldsTo(g, t, m)
  PROVE  f[k] = g[k]
<1> DEFINE T == {n \in 0..k : f[n] # g[n]}
<1>1. SUFFICES ASSUME T # {} PROVE FALSE
  OBVIOUS
<1>2. PICK n \in T : \A i \in T : n <= i
  <2>1. T \subseteq Nat
    OBVIOUS
  <2> HIDE DEF T
  <2> QED BY <1>1, <2>1, Least
<1>3. n \in 0..k /\ n \in 0..m
  BY <1>2
<1>4. f[n] = IF n = 0 THEN Base ELSE Step(f[n - 1], s[n])
  BY <1>3 DEF FoldsTo
<1>5. g[n] = IF n = 0 THEN Base ELSE Step(g[n - 1], t[n])
  BY <1>3 DEF FoldsTo
<1>6. n # 0 => f[n - 1] = g[n - 1] /\ s[n] = t[n]
  BY <1>2, <1>3
<1> QED BY <1>2, <1>4, <1>5, <1>6

LEMMA FoldedResult ==
  ASSUME NEW X, NEW s \in Seq(X)
  PROVE  \E f : FoldsTo(f, s, Len(s)) /\ Folded(s) = f[Len(s)]
<1> DEFINE f == CHOOSE h : FoldsTo(h, s, Len(s))
<1>1. Len(s) \in Nat
  OBVIOUS
<1>2. FoldsTo(f, s, Len(s))
  BY <1>1, FoldExists
<1>3. Folded(s) = f[Len(s)]
  BY DEF Folded, FoldsTo
<1> QED BY <1>2, <1>3

-----------------------------------------------------------------------------
(* The two equations, and the induction they give. *)

(* The answer for the empty sequence.                                      *)
THEOREM FoldedEmpty == Folded(<<>>) = Base
<1>1. <<>> \in Seq(Nat) /\ Len(<<>>) = 0
  OBVIOUS
<1>2. PICK f : FoldsTo(f, <<>>, 0) /\ Folded(<<>>) = f[0]
  BY <1>1, FoldedResult
<1> QED BY <1>2 DEF FoldsTo

(* What one more element changes.                                          *)
THEOREM FoldedAppend ==
  ASSUME NEW X, NEW s \in Seq(X), NEW x \in X
  PROVE  Folded(Append(s, x)) = Step(Folded(s), x)
<1> DEFINE t == Append(s, x)
           n == Len(s)
<1>1. n \in Nat /\ t \in Seq(X) /\ Len(t) = n + 1 /\ t[n + 1] = x
      /\ \A i \in 1..n : s[i] = t[i]
  OBVIOUS
<1>2. PICK f : FoldsTo(f, s, n) /\ Folded(s) = f[n]
  BY FoldedResult
<1>3. PICK g : FoldsTo(g, t, n + 1) /\ Folded(t) = g[n + 1]
  BY FoldedResult, <1>1
<1> HIDE DEF t, n
<1>4. f[n] = g[n]
  BY <1>1, <1>2, <1>3, FoldPrefix
<1>5. g[n + 1] = Step(g[n], t[n + 1])
  BY <1>1, <1>3 DEF FoldsTo
<1> QED BY <1>1, <1>2, <1>3, <1>4, <1>5 DEF t

(* A claim that holds of the empty sequence and is kept by one more        *)
(* element holds of every sequence and its fold.                           *)
THEOREM FoldedInduction ==
  ASSUME NEW X, Holds(<<>>, Base),
         \A s \in Seq(X), x \in X :
           Holds(s, Folded(s)) => Holds(Append(s, x), Step(Folded(s), x))
  PROVE  \A s \in Seq(X) : Holds(s, Folded(s))
<1> DEFINE T == {Len(s) : s \in {r \in Seq(X) : ~Holds(r, Folded(r))}}
<1>1. SUFFICES ASSUME T # {} PROVE FALSE
  OBVIOUS
<1>2. PICK n \in T : \A m \in T : n <= m
  <2>1. T \subseteq Nat
    OBVIOUS
  <2> HIDE DEF T
  <2> QED BY <1>1, <2>1, Least
<1>3. PICK s \in Seq(X) : Len(s) = n /\ ~Holds(s, Folded(s))
  BY <1>2
<1>4. CASE s = <<>>
  BY <1>3, <1>4, FoldedEmpty
<1>5. CASE s # <<>>
  <2> DEFINE r == SubSeq(s, 1, n - 1)
             x == s[n]
  <2>1. n \in Nat \ {0} /\ r \in Seq(X) /\ x \in X /\ Len(r) = n - 1
    BY <1>3, <1>5
  <2>2. s = Append(r, x)
    BY <1>3, <2>1
  <2>3. Holds(r, Folded(r))
    <3>1. Len(r) \notin T
      BY <1>2, <2>1
    <3> QED BY <2>1, <3>1
  <2> HIDE DEF r, x
  <2>4. Holds(s, Folded(s))
    BY <2>1, <2>2, <2>3, FoldedAppend
  <2> QED BY <1>3, <2>4
<1> QED BY <1>4, <1>5
=============================================================================
