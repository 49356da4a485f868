------------------------------ MODULE MerkleTree ------------------------------
(***************************************************************************)
(* The append-only commitment tree of noxis-merkle and the note tree of    *)
(* noxis-private-state.  A tree is its depth and the list of its           *)
(* commitments: roots and paths are computed from the list each time.      *)
(* Hashes of distinct domains are tuples with distinct tags.               *)
(***************************************************************************)
EXTENDS Integers, Sequences

CONSTANT MaxCommitments   \* MAX_COMMITMENTS, the limit below 2^depth

MinDepth == 1
MaxDepth == 32
ValidDepth(depth) == depth \in MinDepth..MaxDepth

HashLeaf(c) == <<"leaf", c>>
HashNode(left, right) == <<"node", left, right>>
EmptyHashes(depth) ==
  LET hash[h \in 0..depth] ==
        IF h = 0 THEN <<"empty">> ELSE HashNode(hash[h - 1], hash[h - 1])
  IN  hash

NewTree(depth) == [depth |-> depth, commitments |-> <<>>]

(* maximum_leaf_count *)
Capacity(tree) ==
  IF 2^tree.depth < MaxCommitments THEN 2^tree.depth ELSE MaxCommitments

(* append: refused when the tree is full; the index is the old length. *)
AppendCommitment(tree, c) == [tree EXCEPT !.commitments = Append(@, c)]

(* A level of odd length is filled up with one empty subtree of its height. *)
Padded(level, empty) == IF Len(level) % 2 = 1 THEN Append(level, empty) ELSE level
ParentLevel(children) ==
  [i \in 1..(Len(children) \div 2) |-> HashNode(children[2 * i - 1], children[2 * i])]

(* The levels above the occupied leaves, each padded before it is halved. *)
PaddedLevels(depth, commitments) ==
  LET empty == EmptyHashes(depth)
      level[h \in 0..depth] ==
        IF h = 0 THEN [i \in 1..Len(commitments) |-> HashLeaf(commitments[i])]
        ELSE ParentLevel(Padded(level[h - 1], empty[h - 1]))
  IN  [h \in 0..depth |-> IF h = depth THEN level[h] ELSE Padded(level[h], empty[h])]

(* The last leaf doubled where a level has odd length. *)
FaultyRootFromCommitments(depth, commitments) ==
  LET level[h \in 0..depth] ==
        IF h = 0 THEN [i \in 1..Len(commitments) |-> HashLeaf(commitments[i])]
        ELSE LET l == level[h - 1] IN ParentLevel(Padded(l, l[Len(l)]))
  IN  IF commitments = <<>> THEN EmptyHashes(depth)[depth] ELSE level[depth][1]

RootFromCommitments(depth, commitments) ==
  IF commitments = <<>> THEN EmptyHashes(depth)[depth]
  ELSE PaddedLevels(depth, commitments)[depth][1]

Root(tree) ==
  [digest |-> RootFromCommitments(tree.depth, tree.commitments), depth |-> tree.depth]

(* root_for_commitments of the note tree: the nodes of a level are a map   *)
(* from index to hash, and a missing child is the empty value.             *)
NoteRoot(depth, commitments) ==
  LET empty == EmptyHashes(depth)
      nodes[h \in 0..depth] ==
        IF h = 0
        THEN [i \in 0..(Len(commitments) - 1) |-> HashLeaf(commitments[i + 1])]
        ELSE LET below == nodes[h - 1]
                 child(i) == IF i \in DOMAIN below THEN below[i] ELSE empty[h - 1]
             IN  [i \in {j \div 2 : j \in DOMAIN below} |->
                    HashNode(child(2 * i), child(2 * i + 1))]
  IN  IF commitments = <<>> THEN empty[depth] ELSE nodes[depth][0]

(* prove: defined for an occupied index, counted from zero. *)
Prove(tree, index) ==
  LET levels == PaddedLevels(tree.depth, tree.commitments)
      siblingOf(i) == IF i % 2 = 0 THEN i + 1 ELSE i - 1
  IN  [leafIndex |-> index,
       siblings  |-> [h \in 1..tree.depth |->
                        levels[h - 1][siblingOf(index \div 2^(h - 1)) + 1]]]

(* verify: an invalid depth, or one other than the root's, is an error. *)
Verify(root, c, proof) ==
  LET depth == Len(proof.siblings)
      value[h \in 0..depth] ==
        IF h = 0 THEN HashLeaf(c)
        ELSE IF (proof.leafIndex \div 2^(h - 1)) % 2 = 0
             THEN HashNode(value[h - 1], proof.siblings[h])
             ELSE HashNode(proof.siblings[h], value[h - 1])
  IN  ValidDepth(depth) /\ depth = root.depth /\ value[depth] = root.digest

(***************************************************************************)
(* The reference: the root of the complete binary tree whose leaves are    *)
(* the commitments followed by empty leaves.                               *)
(***************************************************************************)
DenseRoot(depth, commitments) ==
  LET value[h \in 0..depth] ==
        IF h = 0
        THEN [i \in 1..2^depth |-> IF i <= Len(commitments)
                                   THEN HashLeaf(commitments[i]) ELSE <<"empty">>]
        ELSE ParentLevel(value[h - 1])
  IN  value[depth][1]
=============================================================================
