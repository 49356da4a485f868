------------------------------- MODULE Ledger -------------------------------
(***************************************************************************)
(* The public ledger of noxis-ledger: the state a transaction is validated *)
(* against and the transition it makes.  A transaction either passes every *)
(* check and is applied completely, or leaves the state alone.             *)
(*                                                                         *)
(* Identifiers are model values.  A StateId is a collision-free hash of    *)
(* the whole state, so the state itself stands for it: the verifier and    *)
(* the mint policy see the transaction and the exact state it applies to.  *)
(***************************************************************************)
EXTENDS Lists

CONSTANTS
  Transaction,          \* the transactions clients may submit
  TransactionId,        \* their caller-chosen identifiers
  Nullifier,            \* identifiers a transfer consumes
  Commitment,           \* identifiers an operation appends to the tree
  Asset,                \* every asset identifier
  RegisteredAsset,      \* the assets in the registry that genesis fixes
  MaxAmount,            \* largest Amount (u128::MAX in the code)
  TreeCapacity,         \* leaves the commitment tree can hold
  VerifyTransfer(_, _), \* the configured ProofVerifier on (transaction, state)
  Authorize(_, _)       \* the configured MintPolicy on (transaction, state)

ASSUME AmountAssumption == MaxAmount \in Nat \ {0}
ASSUME CapacityAssumption == TreeCapacity \in Nat \ {0}
ASSUME AssetAssumption == RegisteredAsset \subseteq Asset

(* An Amount is never zero.  `size' is the length of the canonical bytes;   *)
(* `canonical' says that the bytes decode, re-encode to themselves and name *)
(* the configured cryptographic suite.                                      *)
ASSUME TransactionAssumption ==
  Transaction \subseteq [id : TransactionId, op : {"transfer", "mint"},
                         asset : Asset, amount : 1..MaxAmount,
                         inputs : Seq(Nullifier), outputs : Seq(Commitment),
                         size : Nat, canonical : BOOLEAN]
(* A mint has no inputs. *)
ASSUME MintAssumption == \A tx \in Transaction : tx.op = "mint" => tx.inputs = <<>>

(* The state before any transaction.  An absent supply entry is supply 0.  *)
EmptyLedger ==
  [commitments |-> <<>>,
   spent       |-> {},
   issued      |-> [a \in RegisteredAsset |-> 0],
   accepted    |-> {}]

LedgerState ==
  [commitments : Seq(Commitment),
   spent       : SUBSET Nullifier,
   issued      : [RegisteredAsset -> 0..MaxAmount],
   accepted    : SUBSET TransactionId]

(* What the constructors of a snapshot accept. *)
CanonicalLedger ==
  {s \in LedgerState : IsInjective(s.commitments) /\ Len(s.commitments) <= TreeCapacity}

(***************************************************************************)
(* The checks of one transaction.                                          *)
(***************************************************************************)
EnsureNewTransaction(s, tx) == tx.id \notin s.accepted

EnsureRegisteredAsset(tx) == tx.asset \in RegisteredAsset

(* Faulty: forgets what earlier transactions have spent. *)
FaultyUniqueNullifiers(s, tx) == IsInjective(tx.inputs)

EnsureUniqueNullifiers(s, tx) ==
  /\ IsInjective(tx.inputs)
  /\ Range(tx.inputs) \cap s.spent = {}

EnsureNewCommitments(s, tx) ==
  /\ tx.outputs # <<>>
  /\ IsInjective(tx.outputs)
  /\ Range(tx.outputs) \cap Range(s.commitments) = {}
  /\ Len(s.commitments) + Len(tx.outputs) <= TreeCapacity

ValidateTransfer(s, tx) ==
  /\ EnsureRegisteredAsset(tx)
  /\ tx.inputs # <<>>
  /\ EnsureUniqueNullifiers(s, tx)
  /\ EnsureNewCommitments(s, tx)
  /\ VerifyTransfer(tx, s)

(* The checked addition of the supply is the last check of a mint. *)
ValidateMint(s, tx) ==
  /\ EnsureRegisteredAsset(tx)
  /\ EnsureNewCommitments(s, tx)
  /\ Authorize(tx, s)
  /\ s.issued[tx.asset] + tx.amount <= MaxAmount

PrepareTransition(s, tx) ==
  /\ EnsureNewTransaction(s, tx)
  /\ \/ tx.op = "transfer" /\ ValidateTransfer(s, tx)
     \/ tx.op = "mint" /\ ValidateMint(s, tx)

(* What a validated transaction makes of the state. *)
CommitTransition(s, tx) ==
  [commitments |-> s.commitments \o tx.outputs,
   spent       |-> IF tx.op = "transfer" THEN s.spent \cup Range(tx.inputs)
                                         ELSE s.spent,
   issued      |-> IF tx.op = "mint"
                   THEN [s.issued EXCEPT ![tx.asset] = @ + tx.amount]
                   ELSE s.issued,
   accepted    |-> s.accepted \cup {tx.id}]
=============================================================================
