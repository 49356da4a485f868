--------------------------- MODULE BlockExecution ---------------------------
(***************************************************************************)
(* Deterministic block execution (noxis-execution): a block is a list of   *)
(* transactions and the CometBFT decision that ordered them.  It executes  *)
(* completely from the tip before it, or not at all.                       *)
(*                                                                         *)
(* Hashes are modelled by the data they commit to.                         *)
(***************************************************************************)
EXTENDS Ledger

CONSTANTS
  BlockHash,       \* engine block hashes
  InitialHeight,   \* engine height of the first block
  MaxEngineHeight, \* largest engine height (i64::MAX in the code)
  MaxRecords,      \* maximum_block_records of the consensus configuration
  MaxBlockBytes,   \* maximum_block_transaction_bytes
  MaxTxBytes,      \* MAX_RECORD_TRANSACTION_BYTES
  None

ASSUME HeightAssumption ==
  InitialHeight \in Nat \ {0} /\ MaxEngineHeight \in Nat
ASSUME LimitAssumption == MaxRecords \in Nat /\ MaxBlockBytes \in Nat

Decision == [height : 0..MaxEngineHeight, hash : BlockHash, genuine : BOOLEAN]

(* engine_height_for: Noxis height 1 is the engine's initial height. *)
EngineHeight(height) == InitialHeight + height - 1

(* A decision is for one height of the configured network; `genuine' says  *)
(* that its network id and next-validators hash are the genesis-bound ones.*)
ValidateFor(decision, height) ==
  /\ decision.genuine
  /\ EngineHeight(height) <= MaxEngineHeight
  /\ decision.height = EngineHeight(height)

(***************************************************************************)
(* One transaction on a candidate ledger.                                  *)
(***************************************************************************)
Accepts(s, tx) ==
  /\ tx.size <= MaxTxBytes
  /\ tx.canonical
  /\ PrepareTransition(s, tx)

ApplyTransaction(r, tx) ==
  IF r.ok /\ Accepts(r.ledger, tx)
  THEN [ok |-> TRUE, ledger |-> CommitTransition(r.ledger, tx)]
  ELSE [ok |-> FALSE, ledger |-> r.ledger]

(* All transactions in their order; the first failure fails the list. *)
ApplyAll(s, txs) == FoldList(ApplyTransaction, [ok |-> TRUE, ledger |-> s], txs)

Bytes(txs) == FoldList(LAMBDA n, tx : n + tx.size, 0, txs)

(***************************************************************************)
(* A tip is the CommittedExecutionState with the AppHash of its block.     *)
(***************************************************************************)
GenesisTip ==
  [height |-> 0, ledger |-> EmptyLedger, sequence |-> 0,
   block_id |-> None, app_hash |-> None]

(* The guard of execute_block. *)
Executes(tip, block) ==
  /\ ValidateFor(block.decision, tip.height + 1)
  /\ Len(block.txs) <= MaxRecords
  /\ Bytes(block.txs) <= MaxBlockBytes
  /\ ApplyAll(tip.ledger, block.txs).ok

(* The header commits to its parent, height and records, and the AppHash   *)
(* to the header and the engine decision.                                  *)
HeaderId(tip, block) == [parent |-> tip.block_id, txs |-> block.txs]

ApplicationHash(tip, block) ==
  [header |-> HeaderId(tip, block), decision |-> block.decision]

ExecuteBlock(tip, block) ==
  [height   |-> tip.height + 1,
   ledger   |-> ApplyAll(tip.ledger, block.txs).ledger,
   sequence |-> tip.sequence + Len(block.txs),
   block_id |-> HeaderId(tip, block),
   app_hash |-> ApplicationHash(tip, block)]
=============================================================================
