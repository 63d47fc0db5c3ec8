--------------------------- MODULE T81FoldProofs ---------------------------
(***************************************************************************)
(* What a fold from the left computes, for every operator and every         *)
(* sequence: FoldLeft is the value of a function on the subsets of the      *)
(* sequence's indices, which exists and is unique.  The call stack and the   *)
(* words of the stack frames are such folds.                               *)
(***************************************************************************)
EXTENDS Integers, SequencesExt, SequenceTheorems, WellFoundedInduction, TLAPS

CONSTANTS Op(_, _), Base

Folded(s) == FoldLeft(Op, Base, s)

\* The function FoldLeft evaluates: the greatest index is folded in last.
FoldsTo(g, s) ==
  g = [D \in SUBSET DOMAIN s |-> IF D = {} THEN Base ELSE Op(g[D \ {Max(D)}], s[Max(D)])]

\* There is exactly one.
Unfolds(s) == \E g : FoldsTo(g, s) /\ \A h : FoldsTo(h, s) => h = g

-----------------------------------------------------------------------------
(* Induction over the naturals, by a least counterexample.                 *)

LEMMA LeastNat ==
  ASSUME NEW T \in SUBSET Nat, T # {}
  PROVE  \E n \in T : \A m \in T : n <= m
<1>1. PICK x \in T : \A y \in T : <<y, x>> \notin OpToRel(<, Nat)
  BY NatLessThanWellFounded, WFMin
<1>2. ASSUME NEW y \in T
      PROVE  x <= y
  <2>1. <<y, x>> \in Nat \X Nat /\ <<y, x>>[1] = y /\ <<y, x>>[2] = x
    OBVIOUS
  <2>2. ~(y < x)
    BY <1>1, <2>1 DEF OpToRel
  <2> QED
    BY <2>2
<1> QED
  BY <1>2

\* A set of indices has a greatest.
LEMMA MaxInside ==
  ASSUME NEW n \in Nat, NEW D, D \subseteq 1 .. n, D # {}
  PROVE  Max(D) \in D /\ \A d \in D : d <= Max(D)
<1> DEFINE T == {n - d : d \in D}
<1>1. T \subseteq Nat /\ T # {}
  OBVIOUS
<1>2. PICK t \in T : \A m \in T : t <= m
  BY <1>1, LeastNat
<1>3. PICK k \in D : t = n - k
  BY <1>2
<1>4. \A d \in D : k >= d
  <2> SUFFICES ASSUME NEW d \in D PROVE k >= d
    OBVIOUS
  <2>1. n - d \in T
    OBVIOUS
  <2>2. t <= n - d
    BY <1>2, <2>1
  <2> QED
    BY <1>3, <2>2
<1>5. \E x \in D : \A y \in D : x >= y
  BY <1>4
<1>6. Max(D) \in D /\ \A y \in D : Max(D) >= y
  BY <1>5 DEF Max
<1> QED
  BY <1>6

-----------------------------------------------------------------------------
(* Unfolding.                                                              *)

LEMMA FoldIs ==
  ASSUME NEW s, NEW g, FoldsTo(g, s), \A h : FoldsTo(h, s) => h = g
  PROVE  Folded(s) = g[DOMAIN s]
<1>1. (CHOOSE h : h = [D \in SUBSET DOMAIN s |->
                         IF D = {} THEN Base ELSE Op(h[D \ {Max(D)}], s[Max(D)])]) = g
  BY DEF FoldsTo
<1> QED
  BY <1>1 DEF Folded, FoldLeft, MapThenFoldSet

LEMMA EmptyUnfolds == Unfolds(<<>>) /\ Folded(<<>>) = Base
<1> DEFINE g == [D \in SUBSET {} |-> Base]
<1>1. DOMAIN <<>> = {} /\ SUBSET {} = {{}}
  OBVIOUS
<1>2. FoldsTo(g, <<>>)
  BY <1>1 DEF FoldsTo
<1>3. ASSUME NEW h, FoldsTo(h, <<>>)
      PROVE  h = g
  BY <1>1, <1>3 DEF FoldsTo
<1>4. g[DOMAIN <<>>] = Base
  BY <1>1
<1> HIDE DEF g
<1> QED
  BY <1>2, <1>3, <1>4, FoldIs DEF Unfolds

\* The values of the function on the indices of s and of s with one more element.
LEMMA AppendUnfolds ==
  ASSUME NEW S, NEW s \in Seq(S), NEW e \in S, Unfolds(s)
  PROVE  Unfolds(Append(s, e)) /\ Folded(Append(s, e)) = Op(Folded(s), e)
<1> DEFINE t == Append(s, e)
           last == Len(s) + 1
<1>1. /\ Len(s) \in Nat /\ DOMAIN s = 1 .. Len(s) /\ DOMAIN t = 1 .. last
      /\ t[last] = e /\ \A k \in 1 .. Len(s) : t[k] = s[k]
  OBVIOUS
<1>2. PICK g : FoldsTo(g, s) /\ \A h : FoldsTo(h, s) => h = g
  BY DEF Unfolds
<1> HIDE DEF t
<1>3. \A D \in SUBSET DOMAIN s :
        g[D] = IF D = {} THEN Base ELSE Op(g[D \ {Max(D)}], s[Max(D)])
  BY <1>2 DEF FoldsTo
<1>4. ASSUME NEW D \in SUBSET DOMAIN t
      PROVE  /\ D = {} \/ (D # {} /\ D \in SUBSET DOMAIN s) \/ (last \in D /\ D # {})
             /\ D # {} /\ D \in SUBSET DOMAIN s => Max(D) \in DOMAIN s /\ D \ {Max(D)} \in SUBSET DOMAIN s
             /\ last \in D => Max(D) = last /\ D \ {last} \in SUBSET DOMAIN s
  <2>1. D \subseteq DOMAIN s <=> last \notin D
    BY <1>1
  <2>2. D # {} /\ D \in SUBSET DOMAIN s => Max(D) \in D
    BY <1>1, MaxInside
  <2>3. last \in D => Max(D) = last
    <3>1. last \in Nat /\ D \subseteq 1 .. last
      BY <1>1
    <3>2. D # {} => Max(D) \in D /\ \A d \in D : d <= Max(D)
      BY <3>1, MaxInside
    <3> QED
      BY <1>1, <3>2
  <2> QED
    BY <1>1, <2>1, <2>2, <2>3
<1> DEFINE G == [D \in SUBSET DOMAIN t |-> IF last \in D THEN Op(g[D \ {last}], e) ELSE g[D]]
<1>5. FoldsTo(G, t)
  <2>1. ASSUME NEW D \in SUBSET DOMAIN t
        PROVE  G[D] = IF D = {} THEN Base ELSE Op(G[D \ {Max(D)}], t[Max(D)])
    <3>1. CASE D = {}
      <4>1. last \notin D /\ D \in SUBSET DOMAIN s
        BY <3>1
      <4> QED
        BY <1>3, <3>1, <4>1
    <3>2. CASE D # {} /\ D \in SUBSET DOMAIN s
      <4>1. /\ last \notin D /\ Max(D) \in DOMAIN s /\ D \ {Max(D)} \in SUBSET DOMAIN s
            /\ D \ {Max(D)} \in SUBSET DOMAIN t /\ t[Max(D)] = s[Max(D)]
        BY <1>1, <1>4, <2>1, <3>2
      <4>2. last \notin D \ {Max(D)}
        BY <4>1
      <4>3. G[D] = g[D] /\ G[D \ {Max(D)}] = g[D \ {Max(D)}]
        BY <2>1, <4>1, <4>2
      <4>4. g[D] = Op(g[D \ {Max(D)}], s[Max(D)])
        BY <1>3, <3>2
      <4> QED
        BY <3>2, <4>1, <4>3, <4>4
    <3>3. CASE last \in D
      <4>1. Max(D) = last /\ D \ {last} \in SUBSET DOMAIN s
        BY <1>4, <2>1, <3>3
      <4>2. D \ {last} \in SUBSET DOMAIN t /\ last \notin D \ {last}
        BY <2>1
      <4>3. G[D] = Op(g[D \ {last}], e) /\ G[D \ {last}] = g[D \ {last}]
        BY <2>1, <3>3, <4>2
      <4> QED
        BY <1>1, <3>3, <4>1, <4>3
    <3> QED
      BY <1>4, <2>1, <3>1, <3>2, <3>3
  <2>2. DOMAIN G = SUBSET DOMAIN t
    OBVIOUS
  <2>3. G = [D \in SUBSET DOMAIN t |-> G[D]]
    OBVIOUS
  <2> HIDE DEF G
  <2> QED
    BY <2>1, <2>3 DEF FoldsTo
<1>6. ASSUME NEW h, FoldsTo(h, t)
      PROVE  h = G
  <2>1. h = [D \in SUBSET DOMAIN t |-> h[D]] /\ \A D \in SUBSET DOMAIN t :
          h[D] = IF D = {} THEN Base ELSE Op(h[D \ {Max(D)}], t[Max(D)])
    BY <1>6 DEF FoldsTo
  <2> DEFINE low == [D \in SUBSET DOMAIN s |-> h[D]]
  <2>2. ASSUME NEW D \in SUBSET DOMAIN s
        PROVE  low[D] = IF D = {} THEN Base ELSE Op(low[D \ {Max(D)}], s[Max(D)])
    <3>1. D \in SUBSET DOMAIN t
      BY <1>1
    <3>2. CASE D = {}
      BY <2>1, <3>1, <3>2
    <3>3. CASE D # {}
      <4>1. Max(D) \in DOMAIN s /\ D \ {Max(D)} \in SUBSET DOMAIN s /\ t[Max(D)] = s[Max(D)]
        BY <1>1, <1>4, <2>2, <3>1, <3>3
      <4> QED
        BY <2>1, <2>2, <3>1, <3>3, <4>1
    <3> QED
      BY <3>2, <3>3
  <2>3. low = [D \in SUBSET DOMAIN s |-> low[D]]
    OBVIOUS
  <2>4. \A D \in SUBSET DOMAIN s : h[D] = low[D]
    OBVIOUS
  <2> HIDE DEF low
  <2>5. low = g
    <3>1. FoldsTo(low, s)
      BY <2>2, <2>3 DEF FoldsTo
    <3> QED
      BY <1>2, <3>1
  <2>6. ASSUME NEW D \in SUBSET DOMAIN t
        PROVE  h[D] = IF last \in D THEN Op(g[D \ {last}], e) ELSE g[D]
    <3>1. CASE last \in D
      <4>1. Max(D) = last /\ D \ {last} \in SUBSET DOMAIN s /\ D # {}
        BY <1>4, <2>6, <3>1
      <4> QED
        BY <1>1, <2>1, <2>4, <2>5, <2>6, <3>1, <4>1
    <3>2. CASE last \notin D
      <4>1. D \in SUBSET DOMAIN s
        BY <1>1, <3>2
      <4> QED
        BY <2>4, <2>5, <3>2, <4>1
    <3> QED
      BY <3>1, <3>2
  <2> QED
    BY <2>1, <2>6
<1>7. G[DOMAIN t] = Op(g[DOMAIN s], e)
  <2>1. last \in DOMAIN t /\ DOMAIN t \ {last} = DOMAIN s
    BY <1>1
  <2> QED
    BY <2>1
<1>8. Folded(s) = g[DOMAIN s]
  BY <1>2, FoldIs
<1> HIDE DEF G
<1>9. Folded(t) = G[DOMAIN t] /\ Unfolds(t)
  BY <1>5, <1>6, FoldIs DEF Unfolds
<1> QED
  BY <1>7, <1>8, <1>9 DEF t

\* A sequence that is not empty is a shorter one with an element appended.
LEMMA NonEmptyIsAppend ==
  ASSUME NEW S, NEW s \in Seq(S), s # <<>>
  PROVE  \E r \in Seq(S), e \in S : s = Append(r, e) /\ Len(s) = Len(r) + 1
  BY SequenceEmptyOrAppend

LEMMA AllUnfold ==
  ASSUME NEW S, NEW s \in Seq(S)
  PROVE  Unfolds(s)
<1> DEFINE T == {n \in Nat : \E r \in Seq(S) : Len(r) = n /\ ~Unfolds(r)}
<1>1. SUFFICES ASSUME T # {} PROVE FALSE
  <2>1. Len(s) \in Nat
    OBVIOUS
  <2> QED
    BY <1>1, <2>1
<1>2. PICK n \in T : \A m \in T : n <= m
  BY <1>1, LeastNat
<1>3. PICK r \in Seq(S) : Len(r) = n /\ ~Unfolds(r)
  BY <1>2
<1>4. PICK q \in Seq(S), e \in S : r = Append(q, e) /\ Len(r) = Len(q) + 1
  BY <1>3, EmptyUnfolds, NonEmptyIsAppend
<1>5. Unfolds(q)
  <2>1. Len(q) \in Nat /\ Len(q) < n
    BY <1>3, <1>4
  <2>2. Len(q) \notin T
    BY <1>2, <2>1
  <2> QED
    BY <2>1, <2>2
<1> QED
  BY <1>3, <1>4, <1>5, AppendUnfolds

-----------------------------------------------------------------------------
(* The two facts the other modules use.                                    *)

\* Folding a sequence with one more element is one more application.
THEOREM FoldAppend ==
  ASSUME NEW S, NEW s \in Seq(S), NEW e \in S
  PROVE  Folded(Append(s, e)) = Op(Folded(s), e)
  BY AllUnfold, AppendUnfolds

\* A fold stays in every set the operator does not leave.
THEOREM FoldType ==
  ASSUME NEW S, NEW R, Base \in R, \A x \in R : \A e \in S : Op(x, e) \in R, NEW s \in Seq(S)
  PROVE  Folded(s) \in R
<1> DEFINE T == {n \in Nat : \E r \in Seq(S) : Len(r) = n /\ Folded(r) \notin R}
<1>1. SUFFICES ASSUME T # {} PROVE FALSE
  <2>1. Len(s) \in Nat
    OBVIOUS
  <2> QED
    BY <1>1, <2>1
<1>2. PICK n \in T : \A m \in T : n <= m
  BY <1>1, LeastNat
<1>3. PICK r \in Seq(S) : Len(r) = n /\ Folded(r) \notin R
  BY <1>2
<1>4. PICK q \in Seq(S), e \in S : r = Append(q, e) /\ Len(r) = Len(q) + 1
  BY <1>3, EmptyUnfolds, NonEmptyIsAppend
<1>5. Folded(q) \in R
  <2>1. Len(q) \in Nat /\ Len(q) < n
    BY <1>3, <1>4
  <2>2. Len(q) \notin T
    BY <1>2, <2>1
  <2> QED
    BY <2>1, <2>2
<1> QED
  BY <1>3, <1>4, <1>5, FoldAppend

=============================================================================
