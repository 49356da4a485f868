----------------------------- MODULE PrivateState -----------------------------
(***************************************************************************)
(* The values of noxis-private-state: the note snapshot, the anchors that  *)
(* identify a state, the transfer intents of noxis-privacy-types, the      *)
(* transparent 2x2 transition, and the NXPR record of a whole state.       *)
(*                                                                         *)
(* Note commitments and nullifiers are numbers, ordered as their canonical *)
(* bytes are.  A SHA-256 identity is the tuple of its domain and of what   *)
(* is hashed.  Context stands for the genesis, the validation context and  *)
(* the tree parameters, which are only compared.                           *)
(***************************************************************************)
EXTENDS Lists, FiniteSets

CONSTANTS
  Depth,      \* levels of the nullifier tree
  NoteDepth,  \* levels of the note tree
  MaxNotes    \* CANDIDATE_PRIVATE_STATE_MAX_NOTES

SpentTree == INSTANCE NullifierTree
NoteTree == INSTANCE MerkleTree WITH MaxCommitments <- MaxNotes

Nullifiers == SpentTree!Nullifiers
NoDuplicate(list) == IsInjective(list)
Ascending(list) == \A i \in 1..(Len(list) - 1) : list[i] < list[i + 1]

(* sort_unstable of a list without duplicates *)
Sorted(S) == CHOOSE list \in [1..Cardinality(S) -> S] : Ascending(list)

(* CandidatePrivateStateSnapshotV1::new, in two steps: what it refuses,    *)
(* and what it builds.  The commitments keep their order.                  *)
IsSnapshot(commitments, nullifiers) ==
  /\ Len(commitments) <= MaxNotes
  /\ NoDuplicate(commitments)
  /\ NoDuplicate(nullifiers)
Snapshot(commitments, nullifiers) ==
  [commitments |-> commitments,
   spent       |-> Sorted(Range(nullifiers)),
   root        |-> NoteTree!NoteRoot(NoteDepth, commitments)]
SnapshotId(s) == <<"PRIVATE-STATE-CANDIDATE-ID", s.root, s.commitments, s.spent>>

SpendAll(tree, list) == FoldList(SpentTree!MarkSpent, tree, list)

(* verify_snapshot_tree: the tree is the one rebuilt from the snapshot. *)
MatchesTree(s, tree) ==
  /\ tree.count = Len(s.spent)
  /\ SpentTree!Root(tree) = SpentTree!Root(SpendAll(SpentTree!NewTree, s.spent))

(* PrivateStateAnchorV2, built only where MatchesTree holds. *)
Anchor(context, s, tree) ==
  [context       |-> context,
   nextLeaf      |-> Len(s.commitments),
   noteRoot      |-> s.root,
   spentCount    |-> tree.count,
   nullifierRoot |-> SpentTree!Root(tree)]
StateId(anchor) == <<"PRIVATE-STATE-ID/V2", anchor>>

(* PrivateStateAnchorV1: the nullifiers bound as a sorted list. *)
AnchorV1(context, s) ==
  [context      |-> context,
   nextLeaf     |-> Len(s.commitments),
   noteRoot     |-> s.root,
   spentCount   |-> Len(s.spent),
   nullifierSet |-> <<"PRIVATE-NULLIFIER-SET", Len(s.spent), s.spent>>]
StateIdV1(anchor) == <<"PRIVATE-STATE-ID/V1", anchor>>

(* PrivateTransferIntentV2::new: two nullifiers and two commitments, each  *)
(* pair strictly ascending, and one ciphertext digest per commitment.      *)
IsIntent(intent) == Ascending(intent.nullifiers) /\ Ascending(intent.outputs)
Intent(anchor, asset, nullifiers, outputs, digests) ==
  [context |-> anchor.context, preState |-> StateId(anchor), preRoot |-> anchor.noteRoot,
   asset |-> asset, nullifiers |-> nullifiers, outputs |-> outputs, digests |-> digests]

(* assert_matches_intent that compares the deployment alone *)
FaultyMatchesIntent(anchor, intent) == intent.context = anchor.context
(* assert_matches_intent: the deployment, the note root and the whole state. *)
MatchesIntent(anchor, intent) ==
  /\ intent.context = anchor.context
  /\ intent.preRoot = anchor.noteRoot
  /\ intent.preState = StateId(anchor)

(***************************************************************************)
(* CandidatePrivateLedgerStateV1 and its two operations                    *)
(***************************************************************************)
(* new: the anchor is rebuilt; no asset is known yet. *)
NewLedger(context, s, tree) ==
  [assets |-> {}, snapshot |-> s, tree |-> tree, anchor |-> Anchor(context, s, tree)]
Identity(ledger) == StateId(ledger.anchor)
RegisterAsset(ledger, asset) == [ledger EXCEPT !.assets = @ \cup {asset}]

(* CandidatePrivateStateTransitionV2::apply: what it refuses.              *)
TransitionAllowed(ledger, intent) ==
  /\ MatchesTree(ledger.snapshot, ledger.tree)
  /\ ledger.anchor = Anchor(ledger.anchor.context, ledger.snapshot, ledger.tree)
  /\ MatchesIntent(ledger.anchor, intent)
  /\ \A i \in 1..2 : ~SpentTree!IsSpent(ledger.tree, intent.nullifiers[i])
  /\ IsSnapshot(ledger.snapshot.commitments \o intent.outputs,
                ledger.snapshot.spent \o intent.nullifiers)

(* The post-state, built on copies. *)
Transition(ledger, intent) ==
  LET tree == SpendAll(ledger.tree, intent.nullifiers)
      s == Snapshot(ledger.snapshot.commitments \o intent.outputs,
                    ledger.snapshot.spent \o intent.nullifiers)
  IN  [snapshot |-> s, tree |-> tree, anchor |-> Anchor(ledger.anchor.context, s, tree)]

(* prepare_transfer: the asset, the transition, the authorizer, and the    *)
(* transition once more against the state it was prepared for.             *)
TransferAllowed(ledger, intent, authorized) ==
  /\ intent.asset \in ledger.assets
  /\ TransitionAllowed(ledger, intent)
  /\ authorized

ApplyTransfer(ledger, intent) ==
  LET post == Transition(ledger, intent)
  IN  [ledger EXCEPT !.snapshot = post.snapshot, !.tree = post.tree, !.anchor = post.anchor]
Receipt(ledger, intent) ==
  [pre |-> Identity(ledger), post |-> StateId(Transition(ledger, intent).anchor),
   asset |-> intent.asset, nullifiers |-> intent.nullifiers, outputs |-> intent.outputs]

(***************************************************************************)
(* The NXPR record                                                         *)
(***************************************************************************)
Encode(ledger) ==
  [context |-> ledger.anchor.context, id |-> Identity(ledger),
   commitments |-> ledger.snapshot.commitments, nullifiers |-> ledger.snapshot.spent,
   assets |-> Sorted(ledger.assets)]

(* What the fields of a record rebuild to, with nothing derived taken from it. *)
Rebuilt(record) ==
  LET s == Snapshot(record.commitments, record.nullifiers)
  IN  [NewLedger(record.context, s, SpendAll(SpentTree!NewTree, s.spent))
         EXCEPT !.assets = Range(record.assets)]

(* The records that decode: canonical order of the assets, a snapshot, the *)
(* rebuilt identity, and the same bytes when encoded again.                *)
Decodes(record) ==
  /\ Ascending(record.assets)
  /\ IsSnapshot(record.commitments, record.nullifiers)
  /\ Identity(Rebuilt(record)) = record.id
  /\ Encode(Rebuilt(record)) = record

(* validate_transition of the submission journal: the receipt of an entry  *)
(* describes the difference of the two states.                             *)
DescribesDelta(pre, post, asset, nullifiers, outputs) ==
  LET oldNotes == pre.snapshot.commitments
      newNotes == post.snapshot.commitments
      oldSpent == Range(pre.snapshot.spent)
      newSpent == Range(post.snapshot.spent)
  IN  /\ asset \in pre.assets
      /\ Ascending(nullifiers) /\ Ascending(outputs)
      /\ Len(newNotes) = Len(oldNotes) + 2
      /\ SubSeq(newNotes, Len(oldNotes) + 1, Len(newNotes)) = outputs
      /\ Len(post.snapshot.spent) = Len(pre.snapshot.spent) + 2
      /\ \A i \in 1..2 : nullifiers[i] \notin oldSpent /\ nullifiers[i] \in newSpent
      /\ Cardinality(newSpent \ oldSpent) = 2
=============================================================================
