------------------------------ MODULE FoldFacts ------------------------------
(***************************************************************************)
(* What FoldList computes, for one operator and every list.  A module that *)
(* needs the facts for an operator of its own instantiates this one with   *)
(* it, so that the theorems it gets are about that operator.               *)
(*                                                                         *)
(* Induction is on a set of numbers, not on a predicate: every statement   *)
(* is then first order, and the least element of a set of numbers (WFMin)  *)
(* gives the principle.                                                    *)
(***************************************************************************)
EXTENDS Lists, WellFoundedInduction, TLAPS

CONSTANT Op(_, _)

Fold(base, list) == FoldList(Op, base, list)

(* The intermediate results of a fold over the first m elements. *)
IsRun(run, base, list, m) ==
  run = [n \in 0..m |-> IF n = 0 THEN base ELSE Op(run[n - 1], list[n])]

(* A nonempty set of natural numbers has a least element. *)
LEMMA LeastNumber ==
  ASSUME NEW T \in SUBSET Nat, T # {}
  PROVE  \E x \in T : \A y \in T : ~(y < x)
<1> DEFINE R == OpToRel(<, Nat)
<1>1. IsWellFoundedOn(R, Nat)
  BY NatLessThanWellFounded
<1>2. \A y, x \in Nat : y < x => <<y, x>> \in R
  BY Zenon DEF OpToRel
<1> HIDE DEF R
<1>3. \E x \in T : \A y \in T : ~ (<<y, x>> \in R)
  BY <1>1, WFMin, Zenon
<1> QED
  BY <1>2, <1>3

(* A set that holds 0, and with every number the next, holds every number. *)
LEMMA SetInduction ==
  ASSUME NEW S, 0 \in S, \A n \in Nat : n \in S => n + 1 \in S
  PROVE  \A n \in Nat : n \in S
<1> DEFINE T == Nat \ S
<1> SUFFICES ASSUME T # {} PROVE FALSE
  OBVIOUS
<1>1. PICK x \in T : \A y \in T : ~(y < x)
  BY LeastNumber
<1>2. x # 0 /\ x - 1 \in Nat /\ x - 1 < x
  OBVIOUS
<1> QED
  BY <1>1, <1>2

(* The intermediate results exist, for every number of elements. *)
LEMMA RunExists ==
  ASSUME NEW base, NEW list, NEW m \in Nat
  PROVE  \E run : IsRun(run, base, list, m)
<1> DEFINE S == {n \in Nat : \E run : IsRun(run, base, list, n)}
<1>1. 0 \in S
  <2>1. IsRun([n \in 0..0 |-> base], base, list, 0)
    BY DEF IsRun
  <2> QED
    BY <2>1
<1>2. ASSUME NEW k \in Nat, k \in S PROVE k + 1 \in S
  <2>1. PICK run : IsRun(run, base, list, k)
    BY <1>2
  <2> DEFINE longer == [n \in 0..(k + 1) |-> IF n = k + 1 THEN Op(run[k], list[k + 1]) ELSE run[n]]
  <2>2. \A n \in 0..k : run[n] = IF n = 0 THEN base ELSE Op(run[n - 1], list[n])
    BY <2>1 DEF IsRun
  <2>3. \A n \in 0..(k + 1) : longer[n] = IF n = 0 THEN base ELSE Op(longer[n - 1], list[n])
    BY <2>2
  <2>4. IsRun(longer, base, list, k + 1)
    BY <2>3 DEF IsRun
  <2> QED
    BY <2>4
<1> HIDE DEF S
<1>3. \A n \in Nat : n \in S
  BY <1>1, <1>2, SetInduction
<1> QED
  BY <1>3 DEF S

(* A fold is the last of its intermediate results. *)
LEMMA FoldRun ==
  ASSUME NEW base, NEW list, Len(list) \in Nat
  PROVE  \E run : /\ run[0] = base
                  /\ \A n \in 1..Len(list) : run[n] = Op(run[n - 1], list[n])
                  /\ Fold(base, list) = run[Len(list)]
<1> DEFINE run == CHOOSE run : IsRun(run, base, list, Len(list))
<1>1. IsRun(run, base, list, Len(list))
  BY RunExists, Zenon
<1>2. Fold(base, list) = run[Len(list)]
  BY Zenon DEF Fold, FoldList, IsRun
<1> HIDE DEF run
<1>3. run[0] = base /\ \A n \in 1..Len(list) : run[n] = Op(run[n - 1], list[n])
  BY <1>1 DEF IsRun
<1> QED
  BY <1>2, <1>3

(* The intermediate results are determined by the operator and the list. *)
LEMMA FoldUnique ==
  ASSUME NEW base, NEW list, Len(list) \in Nat, NEW run, run[0] = base,
         \A n \in 1..Len(list) : run[n] = Op(run[n - 1], list[n])
  PROVE  Fold(base, list) = run[Len(list)]
<1>1. PICK own : /\ own[0] = base
                 /\ \A n \in 1..Len(list) : own[n] = Op(own[n - 1], list[n])
                 /\ Fold(base, list) = own[Len(list)]
  BY FoldRun
<1> DEFINE S == {n \in Nat : n <= Len(list) => own[n] = run[n]}
<1>2. 0 \in S
  BY <1>1
<1>3. ASSUME NEW n \in Nat, n \in S PROVE n + 1 \in S
  <2> SUFFICES ASSUME n + 1 <= Len(list) PROVE own[n + 1] = run[n + 1]
    OBVIOUS
  <2>1. n + 1 \in 1..Len(list) /\ (n + 1) - 1 = n /\ own[n] = run[n]
    BY <1>3
  <2> QED
    BY <2>1, <1>1
<1> HIDE DEF S
<1>4. \A n \in Nat : n \in S
  BY <1>2, <1>3, SetInduction
<1> QED
  BY <1>1, <1>4 DEF S

(* A fold that takes one more element takes one more step. *)
LEMMA FoldAppend ==
  ASSUME NEW S, NEW base, NEW list \in Seq(S), NEW e \in S
  PROVE  Fold(base, Append(list, e)) = Op(Fold(base, list), e)
<1> DEFINE more == Append(list, e)
<1>1. /\ Len(list) \in Nat /\ Len(more) = Len(list) + 1 /\ more[Len(list) + 1] = e
      /\ \A n \in 1..Len(list) : more[n] = list[n]
  OBVIOUS
<1> HIDE DEF more
<1>2. PICK run : /\ run[0] = base
                 /\ \A n \in 1..Len(more) : run[n] = Op(run[n - 1], more[n])
                 /\ Fold(base, more) = run[Len(more)]
  BY <1>1, FoldRun
<1>3. \A n \in 1..Len(list) : run[n] = Op(run[n - 1], list[n])
  BY <1>1, <1>2
<1>4. Fold(base, list) = run[Len(list)]
  BY <1>1, <1>2, <1>3, FoldUnique
<1>5. Len(list) + 1 \in 1..Len(more) /\ (Len(list) + 1) - 1 = Len(list)
  BY <1>1
<1> QED
  BY <1>1, <1>2, <1>4, <1>5 DEF more

(* The fold of no element is the base. *)
LEMMA FoldEmpty == \A base : Fold(base, <<>>) = base
<1> SUFFICES ASSUME NEW base PROVE Fold(base, <<>>) = base
  OBVIOUS
<1>1. Len(<<>>) = 0
  OBVIOUS
<1> QED
  BY <1>1, FoldRun
=============================================================================
