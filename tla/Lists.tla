-------------------------------- MODULE Lists --------------------------------
(***************************************************************************)
(* The two operators on lists that the specifications need beyond those of *)
(* Sequences and Functions.  They are kept apart from SequencesExt so that *)
(* the proofs carry a small context.                                       *)
(***************************************************************************)
EXTENDS Integers, Sequences, Functions

(* Op applied to the elements of a list from the first to the last. *)
FoldList(Op(_, _), base, list) ==
  LET result[n \in 0..Len(list)] ==
        IF n = 0 THEN base ELSE Op(result[n - 1], list[n])
  IN  result[Len(list)]

(* The lists of at most n elements of S. *)
ListsUpTo(S, n) == UNION {[1..m -> S] : m \in 0..n}
=============================================================================
