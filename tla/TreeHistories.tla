----------------------------- MODULE TreeHistories -----------------------------
(***************************************************************************)
(* The lives of the two trees of the private state.  In the sparse         *)
(* nullifier tree nullifiers are spent in any order; to the commitment     *)
(* tree commitments are appended, some of them twice.  Paths that were     *)
(* taken earlier are still in the hands of a wallet or a prover when the   *)
(* tree has moved on.                                                      *)
(***************************************************************************)
EXTENDS Integers, Sequences, FiniteSets

CONSTANTS
  Depth,           \* levels of the nullifier tree
  MaxCommitments,  \* MAX_COMMITMENTS
  Commitments,     \* commitments that may be appended
  Depths,          \* depths a commitment tree may be created with
  MaxHeld          \* bound: paths kept from earlier states

VARIABLES
  sparse,  \* NullifierSparseTreeStateV1
  spent,   \* the nullifiers whose mark_spent was accepted
  paths,   \* NullifierSparseProofV1 values, each with the root of its state
  tree,    \* MerkleTree
  proofs   \* MerkleProof values, each with the root of its state

Sparse == INSTANCE NullifierTree
Merkle == INSTANCE MerkleTree

(***************************************************************************)
(* The nullifier tree                                                      *)
(***************************************************************************)
SpentInit == sparse = Sparse!NewTree /\ spent = {} /\ paths = {}

Spend(n) ==
  /\ ~Sparse!IsSpent(sparse, n)
  /\ sparse' = Sparse!MarkSpent(sparse, n)
  /\ spent' = spent \cup {n}
  /\ UNCHANGED paths

TakePath(n) ==
  /\ Cardinality(paths) < MaxHeld
  /\ paths' = paths \cup {[siblings |-> Sparse!Prove(sparse, n), root |-> Sparse!Root(sparse),
                           spent |-> spent]}
  /\ UNCHANGED <<sparse, spent>>

SpentNext == \E n \in Sparse!Nullifiers : Spend(n) \/ TakePath(n)

(* The root that mark_spent maintains along one path per spend is the root *)
(* of the full tree over the spent set, so it depends on the set and not   *)
(* on the order of the spends, and the count is the size of the set.       *)
RootCommitsToSpentSet ==
  /\ Sparse!Root(sparse) = Sparse!DenseRoot(spent)
  /\ sparse.count = Cardinality(spent)

(* Only nodes above a spent leaf are stored, and each stored node is the   *)
(* hash of its two children as value_at reads them: no stored node is left *)
(* stale by a later spend in the other half of its subtree.                *)
StoredNodesCurrent ==
  /\ DOMAIN sparse.nodes = {Sparse!Ancestor(n, h) : n \in spent, h \in 0..Depth}
  /\ \A p \in DOMAIN sparse.nodes :
       p.height > 0 =>
         LET left == [height |-> p.height - 1, key |-> p.key]
         IN  sparse.nodes[p] = Sparse!Node(Sparse!ValueAt(sparse, left),
                                           Sparse!ValueAt(sparse, Sparse!Sibling(left)))

(* A path taken now proves of its nullifier that it is spent, or that it   *)
(* is not, and never both.                                                 *)
PathsDecide ==
  LET root == Sparse!Root(sparse)
  IN  \A n \in Sparse!Nullifiers :
        LET path == Sparse!Prove(sparse, n)
        IN  /\ Sparse!VerifyInclusion(root, n, path) <=> n \in spent
            /\ Sparse!VerifyAbsence(root, n, path) <=> n \notin spent

(* A path kept from an earlier state, used for any nullifier, never shows  *)
(* a spent nullifier to be absent, or an unspent one to be present, under  *)
(* the current root; under its own root it speaks of the set of that time. *)
HeldPathsSound ==
  LET root == Sparse!Root(sparse)
  IN  \A path \in paths, n \in Sparse!Nullifiers :
        /\ Sparse!VerifyAbsence(root, n, path.siblings) => n \notin spent
        /\ Sparse!VerifyInclusion(root, n, path.siblings) => n \in spent
        /\ Sparse!VerifyAbsence(path.root, n, path.siblings) => n \notin path.spent
        /\ Sparse!VerifyInclusion(path.root, n, path.siblings) => n \in path.spent

(***************************************************************************)
(* The commitment tree                                                     *)
(***************************************************************************)
NotesInit ==
  \E depth \in Depths :
    /\ Merkle!ValidDepth(depth)
    /\ tree = Merkle!NewTree(depth)
    /\ proofs = {}

AppendLeaf(c) ==
  /\ Len(tree.commitments) < Merkle!Capacity(tree)
  /\ tree' = Merkle!AppendCommitment(tree, c)
  /\ UNCHANGED proofs

TakeProof(index) ==
  /\ Cardinality(proofs) < MaxHeld
  /\ proofs' = proofs \cup {[proof |-> Merkle!Prove(tree, index), root |-> Merkle!Root(tree)]}
  /\ UNCHANGED tree

NotesNext ==
  \/ \E c \in Commitments : AppendLeaf(c)
  \/ \E index \in 0..(Len(tree.commitments) - 1) : TakeProof(index)

(* Padding each level by at most one node gives the root of the complete   *)
(* tree, for the SHA-256 tree and for the note tree alike, up to the last  *)
(* leaf that fits.                                                         *)
RootIsDense ==
  LET dense == Merkle!DenseRoot(tree.depth, tree.commitments)
  IN  /\ Merkle!Root(tree).digest = dense
      /\ Merkle!NoteRoot(tree.depth, tree.commitments) = dense

(* A tree never holds a commitment that no path can reach: an append is    *)
(* refused before the index leaves the leaves of the tree.                 *)
EveryLeafProvable ==
  \A index \in 0..(Len(tree.commitments) - 1), c \in Commitments :
    Merkle!Verify(Merkle!Root(tree), c, Merkle!Prove(tree, index))
      <=> c = tree.commitments[index + 1]

(* A proof kept from an earlier state, or one taken at another index,      *)
(* never shows a commitment at a place where it is not, and still shows    *)
(* the commitment under the root it was taken for.                         *)
HeldProofsSound ==
  \A h \in proofs, c \in Commitments :
    LET there == tree.commitments[h.proof.leafIndex + 1] = c
    IN  /\ Merkle!Verify(Merkle!Root(tree), c, h.proof) => there
        /\ Merkle!Verify(h.root, c, h.proof) <=> there

(* The proofs over the spent set are right: the root depends on the set    *)
(* and not on its order, no stored node is stale, a current path decides   *)
(* whether its nullifier is spent, and one taken before other nullifiers   *)
(* were spent never shows what is not so.                                  *)
SpentSetProvable ==
  RootCommitsToSpentSet /\ StoredNodesCurrent /\ PathsDecide /\ HeldPathsSound

(* The proofs over the commitments are right: the padded tree has the root *)
(* of the complete one, every commitment that was accepted can be proved,  *)
(* and an older proof never shows a commitment where it is not.            *)
NotesProvable == RootIsDense /\ EveryLeafProvable /\ HeldProofsSound
=============================================================================
