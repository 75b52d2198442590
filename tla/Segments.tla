------------------------------ MODULE Segments ------------------------------
(***************************************************************************)
(* A sequence kept in segments: what FlattenSeq answers when a segment is  *)
(* added at the end or taken from the front, for any number of segments.   *)
(* FlattenSeq is a fold of concatenations, and SequenceFold says the rest. *)
(***************************************************************************)
EXTENDS Integers, Sequences, SequencesExt, SequenceTheorems, TLAPS

AddSegment(flat, segment) == flat \o segment

IsFlat(seqs, flat) == \A E : seqs \in Seq(Seq(E)) => flat \in Seq(E)

FlatStartsWithHead(seqs, flat) ==
  seqs # <<>> => flat = Head(seqs) \o FlattenSeq(Tail(seqs))

Flat == INSTANCE SequenceFold WITH Base <- <<>>, Step <- AddSegment, Holds <- FlatStartsWithHead

LEMMA Associative ==
  ASSUME NEW Element
  PROVE  \A s, t, u \in Seq(Element) : (s \o t) \o u = s \o (t \o u)
BY ConcatAssociative

LEMMA FlattenIsFold ==
  ASSUME NEW Element, NEW s \in Seq(Seq(Element))
  PROVE  FlattenSeq(s) = Flat!Folded(s)
<1> DEFINE n == Len(s)
<1>1. PICK f : Flat!FoldsTo(f, s, n) /\ Flat!Folded(s) = f[n]
  BY Flat!FoldedResult
<1>2. CASE n = 0
  BY <1>1, <1>2 DEF FlattenSeq, Flat!FoldsTo
<1>3. CASE n # 0
  <2>0. n \in Nat \ {0}
    BY <1>3
  <2>1. \A i \in 1..n : f[i] = IF i = 1 THEN s[i] ELSE f[i - 1] \o s[i]
    <3> SUFFICES ASSUME NEW i \in 1..n PROVE f[i] = IF i = 1 THEN s[i] ELSE f[i - 1] \o s[i]
      OBVIOUS
    <3>1. \A k \in 0..n : f[k] = IF k = 0 THEN <<>> ELSE f[k - 1] \o s[k]
      <4>1. f = [k \in 0..n |-> IF k = 0 THEN <<>> ELSE f[k - 1] \o s[k]]
        BY <1>1 DEF Flat!FoldsTo, AddSegment
      <4> QED BY <4>1
    <3>2. i \in 0..n /\ 0 \in 0..n /\ i # 0
      BY <2>0
    <3>3. f[i] = f[i - 1] \o s[i] /\ f[0] = <<>>
      BY <3>1, <3>2
    <3>4. CASE i = 1
      <4>1. i - 1 = 0
        BY <3>4
      <4>2. <<>> \o s[i] = s[i]
        BY <2>0, ConcatEmptySeq
      <4> QED BY <3>3, <3>4, <4>1, <4>2
    <3>5. CASE i # 1
      BY <3>3, <3>5
    <3> QED BY <3>4, <3>5
  <2> DEFINE g == [i \in 1..n |-> f[i]]
  <2>2. g = [i \in 1..n |-> IF i = 1 THEN s[i] ELSE g[i - 1] \o s[i]]
    <3>1. \A i \in 1..n : i # 1 => g[i - 1] = f[i - 1]
      BY <2>0
    <3> QED BY <2>1, <3>1
  <2> DEFINE h == CHOOSE flat : flat = [i \in 1..n |-> IF i = 1 THEN s[i] ELSE flat[i - 1] \o s[i]]
  <2>3. h = [i \in 1..n |-> IF i = 1 THEN s[i] ELSE h[i - 1] \o s[i]]
    <3> HIDE DEF g
    <3> QED BY <2>2
  <2>4. FlattenSeq(s) = h[n]
    BY <1>3 DEF FlattenSeq
  <2> DEFINE T == {i \in 1..n : h[i] # f[i]}
  <2> HIDE DEF g, h
  <2>5. ASSUME T # {} PROVE FALSE
    <3>1. T \subseteq Nat
      OBVIOUS
    <3>2. PICK i \in T : \A j \in T : i <= j
      <4> HIDE DEF T
      <4> QED BY <2>5, <3>1, Flat!Least
    <3>3. i # 1 => h[i - 1] = f[i - 1]
      BY <3>2, <2>0
    <3>4. h[i] = IF i = 1 THEN s[i] ELSE h[i - 1] \o s[i]
      BY <2>3
    <3> QED BY <2>1, <3>2, <3>3, <3>4
  <2>6. n \in 1..n /\ T = {}
    <3> HIDE DEF T
    <3> QED BY <2>0, <2>5
  <2>7. h[n] = f[n]
    BY <2>6
  <2> QED BY <1>1, <2>4, <2>7, Zenon
<1> QED BY <1>2, <1>3

LEMMA FlattenAppend ==
  ASSUME NEW Element, NEW seqs \in Seq(Seq(Element)), NEW s \in Seq(Element)
  PROVE  FlattenSeq(Append(seqs, s)) = FlattenSeq(seqs) \o s
<1>1. Append(seqs, s) \in Seq(Seq(Element))
  OBVIOUS
<1> QED BY <1>1, FlattenIsFold, Flat!FoldedAppend DEF AddSegment

AnyFlat == INSTANCE SequenceFold WITH Base <- <<>>, Step <- AddSegment, Holds <- IsFlat

LEMMA FlattenType ==
  ASSUME NEW Element, NEW seqs \in Seq(Seq(Element))
  PROVE  FlattenSeq(seqs) \in Seq(Element)
<1>1. AnyFlat!Folded(seqs) = Flat!Folded(seqs)
  BY DEF AnyFlat!Folded, Flat!Folded
<1>2. IsFlat(<<>>, <<>>)
  BY DEF IsFlat
<1>3. \A r \in Seq(Seq(Element)), s \in Seq(Element) :
        IsFlat(r, AnyFlat!Folded(r)) => IsFlat(Append(r, s), AddSegment(AnyFlat!Folded(r), s))
  BY DEF IsFlat, AddSegment
<1>4. \A r \in Seq(Seq(Element)) : IsFlat(r, AnyFlat!Folded(r))
  BY <1>2, <1>3, AnyFlat!FoldedInduction
<1> QED BY <1>1, <1>4, FlattenIsFold DEF IsFlat

LEMMA FlattenEmpty == FlattenSeq(<<>>) = <<>>
BY DEF FlattenSeq

LEMMA FlattenHead ==
  ASSUME NEW Element
  PROVE  \A seqs \in Seq(Seq(Element)) : FlatStartsWithHead(seqs, FlattenSeq(seqs))
<1>1. FlatStartsWithHead(<<>>, <<>>)
  BY DEF FlatStartsWithHead
<1>2. ASSUME NEW seqs \in Seq(Seq(Element)), NEW x \in Seq(Element), FlatStartsWithHead(seqs, Flat!Folded(seqs))
      PROVE  FlatStartsWithHead(Append(seqs, x), AddSegment(Flat!Folded(seqs), x))
  <2> DEFINE flat == Flat!Folded(seqs)
  <2>1. flat \in Seq(Element) /\ flat \o x \in Seq(Element)
    BY FlattenType, FlattenIsFold
  <2>2. /\ Head(Append(seqs, x)) = IF seqs = <<>> THEN x ELSE Head(seqs)
        /\ Tail(Append(seqs, x)) = IF seqs = <<>> THEN <<>> ELSE Append(Tail(seqs), x)
    BY HeadTailAppend, Zenon
  <2>3. flat \o x = Head(Append(seqs, x)) \o FlattenSeq(Tail(Append(seqs, x)))
    <3>1. CASE seqs = <<>>
      <4>1. flat = <<>>
        BY <3>1, Flat!FoldedEmpty
      <4>2. <<>> \o x = x /\ x \o <<>> = x
        BY ConcatEmptySeq, Zenon
      <4>3. Head(Append(seqs, x)) = x /\ Tail(Append(seqs, x)) = <<>>
        BY <2>2, <3>1, Zenon
      <4> HIDE DEF flat
      <4> QED BY <4>1, <4>2, <4>3, FlattenEmpty, Zenon
    <3>2. CASE seqs # <<>>
      <4>1. Head(seqs) \in Seq(Element) /\ Tail(seqs) \in Seq(Seq(Element))
        BY <3>2
      <4>2. FlattenSeq(Append(Tail(seqs), x)) = FlattenSeq(Tail(seqs)) \o x
        BY <4>1, FlattenAppend
      <4>3. flat = Head(seqs) \o FlattenSeq(Tail(seqs))
        BY <1>2, <3>2 DEF FlatStartsWithHead
      <4>4. FlattenSeq(Tail(seqs)) \in Seq(Element)
        BY <4>1, FlattenType
      <4>5. (Head(seqs) \o FlattenSeq(Tail(seqs))) \o x = Head(seqs) \o (FlattenSeq(Tail(seqs)) \o x)
        <5>1. \A s, t, u \in Seq(Element) : (s \o t) \o u = s \o (t \o u)
          BY Associative
        <5> QED BY <4>1, <4>4, <5>1, Zenon
      <4>6. Head(Append(seqs, x)) = Head(seqs) /\ Tail(Append(seqs, x)) = Append(Tail(seqs), x)
        BY <2>2, <3>2, Zenon
      <4> HIDE DEF flat
      <4> QED BY <4>2, <4>3, <4>5, <4>6, Zenon
    <3> QED BY <3>1, <3>2
  <2> QED BY <2>1, <2>3 DEF FlatStartsWithHead, AddSegment
<1>3. \A seqs \in Seq(Seq(Element)), x \in Seq(Element) :
        FlatStartsWithHead(seqs, Flat!Folded(seqs))
          => FlatStartsWithHead(Append(seqs, x), AddSegment(Flat!Folded(seqs), x))
  BY <1>2
<1>4. \A seqs \in Seq(Seq(Element)) : FlatStartsWithHead(seqs, Flat!Folded(seqs))
  BY <1>1, <1>3, Flat!FoldedInduction
<1> QED BY <1>4, FlattenIsFold
=============================================================================
