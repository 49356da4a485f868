---------------------------- MODULE NullifierTree ----------------------------
(***************************************************************************)
(* The sparse tree of spent nullifiers: the mutable state of               *)
(* noxis-nullifier-tree-state and the path evaluator of                    *)
(* noxis-nullifier-tree-reference that it is checked against.              *)
(*                                                                         *)
(* A nullifier is the number its key bits write, least significant bit     *)
(* first; the program's 512 levels are Depth levels here.  The Poseidon2   *)
(* hash of a domain and an input is the tuple of the two: it is injective  *)
(* and its three domains never meet.                                       *)
(***************************************************************************)
EXTENDS Integers, Sequences, Functions

CONSTANT Depth   \* levels of the tree, NULLIFIER_SPARSE_TREE_DEPTH_V1

Nullifiers == 0..(2^Depth - 1)

(* hash_bytes in the leaf, node and empty domains *)
SpentLeaf(n) == <<"leaf", n>>
Node(left, right) == <<"node", left, right>>

(* derive_empty_values: an empty subtree of every height. *)
EmptyValues[h \in 0..Depth] ==
  IF h = 0 THEN <<"empty">> ELSE Node(EmptyValues[h - 1], EmptyValues[h - 1])

(* NodePositionV1: the height of a node and the key of its leaves with the *)
(* path bits below that height cleared.                                    *)
LeafPosition(n) == [height |-> 0, key |-> n]
RootPosition == [height |-> Depth, key |-> 0]
PathBit(key, level) == (key \div 2^level) % 2 = 1
ClearBit(key, level) == IF PathBit(key, level) THEN key - 2^level ELSE key
Sibling(p) ==
  [p EXCEPT !.key = IF PathBit(p.key, p.height)
                    THEN p.key - 2^p.height ELSE p.key + 2^p.height]
Parent(p) == [height |-> p.height + 1, key |-> ClearBit(p.key, p.height)]

(* The state: the nodes that are not empty, and how many leaves are spent. *)
NewTree == [nodes |-> <<>>, count |-> 0]

ValueAt(tree, p) ==
  IF p \in DOMAIN tree.nodes THEN tree.nodes[p] ELSE EmptyValues[p.height]
Root(tree) == ValueAt(tree, RootPosition)
IsSpent(tree, n) == LeafPosition(n) \in DOMAIN tree.nodes

(* The position h levels above the leaf of n. *)
Ancestor(n, h) ==
  LET above[i \in 0..h] == IF i = 0 THEN LeafPosition(n) ELSE Parent(above[i - 1])
  IN  above[h]

(* The two children hashed in the order that the path bit asks for. *)
Join(bit, current, sibling) ==
  IF bit THEN Node(sibling, current) ELSE Node(current, sibling)

(* prepare_spend: the leaf of n and every node above it, each hashed with  *)
(* the sibling that the state holds.                                       *)
PrepareSpend(tree, n) ==
  LET value[h \in 0..Depth] ==
        IF h = 0 THEN SpentLeaf(n)
        ELSE LET below == Ancestor(n, h - 1)
             IN  Join(PathBit(below.key, below.height), value[h - 1],
                      ValueAt(tree, Sibling(below)))
  IN  [p \in {Ancestor(n, h) : h \in 0..Depth} |-> value[p.height]]

(* mark_spent of a nullifier that is not spent; a spent one is refused and *)
(* leaves the state alone.                                                 *)
MarkSpent(tree, n) ==
  LET updates == PrepareSpend(tree, n)
  IN  [nodes |-> [p \in DOMAIN tree.nodes \cup DOMAIN updates |->
                    IF p \in DOMAIN updates THEN updates[p] ELSE tree.nodes[p]],
       count |-> tree.count + 1]

(* prove: the siblings of the path of n, from the leaf to the root. *)
Prove(tree, n) ==
  [h \in 1..Depth |-> ValueAt(tree, Sibling(Ancestor(n, h - 1)))]

(* root_from_path: the direction of a level is a bit of the nullifier and  *)
(* never an argument.                                                      *)
RootFromPath(n, leaf, siblings) ==
  LET value[h \in 0..Depth] ==
        IF h = 0 THEN leaf
        ELSE Join(PathBit(n, h - 1), value[h - 1], siblings[h])
  IN  value[Depth]

VerifyInclusion(root, n, siblings) ==
  Len(siblings) = Depth /\ RootFromPath(n, SpentLeaf(n), siblings) = root
FaultyVerifyAbsence(root, n, siblings) ==
  Len(siblings) = Depth /\ RootFromPath(n, SpentLeaf(n), siblings) # root
VerifyAbsence(root, n, siblings) ==
  Len(siblings) = Depth /\ RootFromPath(n, EmptyValues[0], siblings) = root

(***************************************************************************)
(* The reference: the root of the full tree over all leaves, with no       *)
(* sharing of empty subtrees and no stored nodes.                          *)
(***************************************************************************)
DenseRoot(spent) ==
  LET value[h \in 0..Depth] ==
        IF h = 0
        THEN [k \in Nullifiers |-> IF k \in spent THEN SpentLeaf(k) ELSE <<"empty">>]
        ELSE [k \in {ClearBit(j, h - 1) : j \in DOMAIN value[h - 1]} |->
                Node(value[h - 1][k], value[h - 1][k + 2^(h - 1)])]
  IN  value[Depth][0]
=============================================================================
