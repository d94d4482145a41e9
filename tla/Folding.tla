------------------------------- MODULE Folding -------------------------------
(***************************************************************************)
(* FoldLeft, one element at a time.  The library defines it by a recursive *)
(* function over the subsets of the domain; a proof about a step of the    *)
(* models wants the results after 0, 1, 2, ... elements, each from the one *)
(* before.  A module that needs this for an operator of its own            *)
(* instantiates Op with it.                                                *)
(*                                                                         *)
(* The induction theorems of the library take a predicate as a parameter,  *)
(* which the provers cannot be given.  A set can be given: SetInduction.   *)
(***************************************************************************)
EXTENDS Integers, Sequences, SequencesExt, WellFoundedInduction, TLAPS

CONSTANT Op(_, _)

\* Induction, with the set of the numbers for which the claim holds.
LEMMA SetInduction ==
  ASSUME NEW S, 0 \in S, \A n \in Nat : n \in S => n + 1 \in S
  PROVE  Nat \subseteq S
<1> DEFINE R == {p \in Nat \X Nat : p[1] < p[2]}
           T == Nat \ S
<1>1. SUFFICES ASSUME T # {} PROVE FALSE
  OBVIOUS
<1>2. IsWellFoundedOn(R, Nat)
  BY NatLessThanWellFounded DEF OpToRel
<1>3. \A x, y \in Nat : x < y => <<x, y>> \in R
  OBVIOUS
<1> HIDE DEF R
<1>4. PICK x \in T : \A y \in T : ~ (<<y, x>> \in R)
  BY <1>1, <1>2, WFMin
<1>5. x # 0 /\ x - 1 \in Nat /\ x - 1 < x /\ (x - 1) + 1 = x
  BY <1>4
<1>6. x - 1 \in S
  BY <1>3, <1>4, <1>5
<1> QED
  BY <1>4, <1>5, <1>6

-----------------------------------------------------------------------------
(* The recursive function of the library, on the subsets of 1 .. n. *)

\* g satisfies the equation of that function.
Iter(g, n, base, s) ==
  g = [x \in SUBSET (1 .. n) |->
         IF x = {} THEN base ELSE Op(g[x \ {Max(x)}], s[Max(x)])]

\* The last element is the one that is folded last.
LEMMA MaxOfInterval ==
  ASSUME NEW n \in Nat, NEW x \in SUBSET (1 .. n), n \in x
  PROVE  Max(x) = n
<1>1. \A y \in x : n >= y
  OBVIOUS
<1>2. Max(x) \in x /\ \A y \in x : Max(x) >= y
  BY <1>1 DEF Max
<1> DEFINE m == Max(x)
<1> HIDE DEF m
<1>3. m \in x /\ m >= n
  BY <1>2 DEF m
<1>4. m \in Int /\ n >= m
  BY <1>1, <1>3
<1> QED
  BY <1>3, <1>4 DEF m

\* There is such a function for every n: the one for n + 1 adds, to the one for
\* n, the subsets that n + 1 is in.
LEMMA IterExists ==
  ASSUME NEW base, NEW s
  PROVE  \A n \in Nat : \E g : Iter(g, n, base, s)
<1> DEFINE S == {n \in Nat : \E g : Iter(g, n, base, s)}
<1>1. 0 \in S
  <2> DEFINE g == [x \in SUBSET (1 .. 0) |-> base]
  <2>1. SUBSET (1 .. 0) = {{}}
    OBVIOUS
  <2>2. Iter(g, 0, base, s)
    BY <2>1 DEF Iter
  <2> QED
    BY <2>2
<1>2. ASSUME NEW n \in Nat, n \in S PROVE n + 1 \in S
  <2>1. PICK g : Iter(g, n, base, s)
    BY <1>2
  <2> DEFINE h == [x \in SUBSET (1 .. n + 1) |->
                     IF n + 1 \in x THEN Op(g[x \ {n + 1}], s[n + 1]) ELSE g[x]]
             Rhs(x) == IF x = {} THEN base ELSE Op(h[x \ {Max(x)}], s[Max(x)])
  <2>2. ASSUME NEW x \in SUBSET (1 .. n + 1)
        PROVE  h[x] = Rhs(x)
    <3>1. CASE n + 1 \in x
      <4>1. Max(x) = n + 1
        BY <3>1, MaxOfInterval
      <4>2. x \ {n + 1} \in SUBSET (1 .. n + 1) /\ n + 1 \notin x \ {n + 1}
        OBVIOUS
      <4>3. h[x \ {n + 1}] = g[x \ {n + 1}]
        BY <4>2
      <4> QED
        BY <3>1, <4>1, <4>3
    <3>2. CASE n + 1 \notin x
      <4>1. x \in SUBSET (1 .. n)
        <5> SUFFICES ASSUME NEW y \in x PROVE y \in 1 .. n
          OBVIOUS
        <5>1. y \in 1 .. n + 1 /\ y # n + 1
          BY <3>2
        <5> QED
          BY <5>1
      <4>4. x \ {Max(x)} \in SUBSET (1 .. n + 1) /\ n + 1 \notin x \ {Max(x)}
        BY <3>2
      <4>2. h[x] = g[x] /\ h[x \ {Max(x)}] = g[x \ {Max(x)}]
        BY <3>2, <4>4
      <4>3. g[x] = IF x = {} THEN base ELSE Op(g[x \ {Max(x)}], s[Max(x)])
        BY <2>1, <4>1 DEF Iter
      <4> QED
        BY <4>2, <4>3
    <3> QED
      BY <3>1, <3>2
  <2>3. h = [x \in SUBSET (1 .. n + 1) |-> Rhs(x)]
    BY <2>2
  <2>4. Iter(h, n + 1, base, s)
    BY <2>3 DEF Iter
  <2> QED
    BY <2>4
<1> HIDE DEF S
<1>3. Nat \subseteq S
  BY <1>1, <1>2, SetInduction
<1> QED
  BY <1>3 DEF S

-----------------------------------------------------------------------------
Fold(base, s) == FoldLeft(Op, base, s)

\* st[k] is the result after k elements.
Stepwise(st, base, s) ==
  /\ st[0] = base
  /\ \A k \in 1 .. Len(s) : st[k] = Op(st[k - 1], s[k])

\* A fold over a sequence is the last of its results, and each of them is Op of
\* the one before and of the next element (LiveTail's Render and the totals of
\* Analytics are folds: live-tail.tsx and analytics-dashboard.tsx).
THEOREM FoldIsStepwise ==
  ASSUME NEW T, NEW s \in Seq(T), NEW base
  PROVE  \E st : Stepwise(st, base, s) /\ Fold(base, s) = st[Len(s)]
<1> DEFINE g == CHOOSE f : Iter(f, Len(s), base, s)
           st == [k \in 0 .. Len(s) |-> g[1 .. k]]
<1>1. Len(s) \in Nat /\ DOMAIN s = 1 .. Len(s)
  OBVIOUS
<1>2. Iter(g, Len(s), base, s)
  BY <1>1, IterExists
<1>3. Fold(base, s) = g[1 .. Len(s)]
  BY <1>1 DEF Fold, FoldLeft, MapThenFoldSet, Iter
<1> HIDE DEF g
<1>4. st[0] = base
  <2>1. 1 .. 0 = {}
    OBVIOUS
  <2> QED
    BY <1>1, <1>2, <2>1 DEF Iter
<1>5. ASSUME NEW k \in 1 .. Len(s)
      PROVE  st[k] = Op(st[k - 1], s[k])
  <2>1. k \in Nat /\ k \in 1 .. k
    BY <1>1
  <2>5. 1 .. k \subseteq 1 .. Len(s)
    BY <1>1
  <2>6. 1 .. k # {}
    BY <2>1
  <2>2. Max(1 .. k) = k
    BY <2>1, MaxOfInterval
  <2>3. (1 .. k) \ {k} = 1 .. (k - 1)
    BY <1>1
  <2>4. g[1 .. k] = Op(g[1 .. (k - 1)], s[k])
    BY <1>2, <2>5, <2>6, <2>2, <2>3 DEF Iter
  <2> QED
    BY <1>1, <2>4
<1>6. Stepwise(st, base, s)
  BY <1>4, <1>5 DEF Stepwise
<1> QED
  BY <1>1, <1>3, <1>6
=============================================================================
