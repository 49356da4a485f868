# Noxis: TLA+ models, checks and proofs

This directory models Noxis (`src/`): the public ledger and its blocks, the
files a node keeps them in, the ABCI application that a CometBFT engine drives,
finality certificates, private transfers with their stores, trees and circuits,
and the wallet's key store. It is about what a unit test hardly reaches: a node
that loses, repeats or contradicts a block after crashes, two processes in one
directory, late and recombined proofs, messages with two readings.

TLC checks the models on small instances; TLAPS proves the central properties
for every value of the constants. `PROJECT.json` has the list of parts, runs,
mutants, findings, hazards and theorems, and the source lines of every
definition.

## The system and its modules

| Part of `src/crates` | State and operations | Modules |
|---|---|---|
| `noxis-ledger` | commitments, spent nullifiers, supply, accepted ids; transfer, mint | `Ledger` |
| `noxis-execution` | committed tip; execute a block, simulate a transaction | `BlockExecution` |
| `noxis-storage`: journal, persistent execution | the `NXCB` file; append, sync, scan, truncate, replay, commit | `PersistentExecution` |
| `noxis-comet-abci`: core | lifecycle, pending block, mempool overlay; every ABCI request | `CometCore`, abstractly `DurableChain` |
| `noxis-comet-abci`: server | accept loop, permits, connection threads, core mutex, shutdown | `AbciServer` |
| `noxis-comet-abci`: wire | varints, frames, fields, requests, responses | `AbciMessages` |
| `noxis-comet-abci`: genesis | validators, addresses, heights; InitChain's comparison | `CometGenesis`, `CometBootstrap` |
| `noxis-consensus` | validator sets, headers, precommits, certificates | `Consensus`, `Finality` |
| `noxis-runtime`, `noxis-node` | lock, manifest, genesis copy, history; several instances | `NodeDirectory` |
| `noxis-storage`: record log, `noxis-checkpoint`, `noxis-record-chain` | log, checkpoint files, state; open, apply, publish | `RecordLedger` |
| the bytes of the logs | frames cut or damaged anywhere | `FrameLog` |
| `noxis-codec` and the codecs of the other crates | encoders, decoders, identities, checksums | `Formats`, `StateFormats` |
| private state and its ledger | anchors, transitions, records, late intents | `PrivateState`, `PrivateTransfers` |
| private stores, migration | cache, base, journal; apply, recover, migrate | `PrivateStores` |
| private proofs, wallet notes | statements, chunks, bundles, sealing and scanning | `TransferProofs` |
| Merkle and nullifier trees | roots, paths, transitions | `MerkleTree`, `NullifierTree`, `TreeHistories` |
| Poseidon2, STARK circuits | permutation, constraint rows, trace builders | `Poseidon2`, `SpongeAir`, `TreeCircuits`, `ByteCircuits`, `TransferCircuits`, `CircuitTraces`, `NxsmPreflight` |
| wallet key store | lock, header, payload, temporary files, recovery | `Keystore` |

`Ledger` <- `BlockExecution` <- `PersistentExecution` <- `CometCore` is one
chain of EXTENDS: the core runs on the persistent execution, which runs on the
ledger. `CometCore` adds the engine, the decided chain and `network`, the tips
of a correct validator. `RecordLedger` extends `Ledger` for the local node. The
other components stand alone and interact through what they are given: the
server hands requests to a core, the directory hands a history to whoever owns
it. The `MC...` modules give the constants for TLC. `Lists` has the list
operators that a proof needs, because the context of SequencesExt makes every
proof obligation several times larger. Definitions named `Faulty...` are
deliberately wrong variants, to show that each property can fail.

## How states and actions correspond to the code

**Core.** Every ABCI request holds the core's mutex, so a handler is one action.
Commit is split where the process can die: before the write, after it, after
the data sync, and at the directory sync. Opening is split at each replayed
block. A journal is its complete frames plus a tail that is absent, partial or
corrupt; a power loss keeps what was synced and any prefix of the rest. A hash
is the data it commits to; the proof verifier and the mint policy are constant
operators of the transaction and the ledger.

**Server.** A thread per connection reads, takes the mutex, works on the core,
answers, or times out; permits are counted as the code counts them; a panic
under the mutex poisons it.

**Directory.** Each instance walks through
`open_or_initialize_with_storage_mode`, one action per file-system call that
another instance or a crash can see. The directory has the names present and
those at its last sync; a power loss keeps the synced ones and any choice of
the rest. An operator removes a stale lock only when nobody owns the directory.

**Record ledger.** `open` is split at each record, `apply` between the write and
the sync. Checkpoint files reach the device in any order with the log.

**Formats and wire.** Messages are lists of fields (formats) or small digits
(wire, frame logs), never characters. A checksum of a format and SHA-256 are
injective terms; the checksum of a frame log is four bits wide.

**Consensus.** Words are bounded by `MaxWord` and additions are checked as in the
code. A signature is its key and its bytes; that every validator has its own key
is an assumption. Byzantine validators sign anything; that an honest one signs
one block in a round is the engine's rule, which is outside `src/`. The code
sorts with an unstable sort and afterwards refuses neighbours that are equal, so
a stable insertion sort is the same. For the genesis the order is by power and
then address, and the check compares the addresses of neighbours only: a genesis
that lists one key twice can pass it (see Findings), and the model has such ones.

**Private parts.** A proof is the public statement it proves (an ideal proof
system); a nullifier is a number that belongs to a note's position; a
ciphertext opens for its recipient only. The circuits are checked row by row
over a small field (17 elements, state of 3, 3 rounds, bytes of 2 bits) with
honest traces, altered witnesses and free carries. `AcceptedIsTrue` states what
the constraints do bind: bytes are bytes, and a digest in bytes is what they read
as modulo the field. That the bytes are the canonical ones, which the documents
say of commitments and of the nodes of a segment, no constraint demands, nor
that a sum fits its width; `AcceptedAsDocumented` states it and is violated.
Where the encodings are canonical, the relation is the reference's.

**Stores.** The private stores and the key store have one action per system call,
with a fault or a kill possible at each. `publish` of the key store has two good
outcomes: Published, after its own sync and rename, and AlreadyPublished, when it
finds the payload, perhaps in a file that a recovery renamed. The model keeps
them apart (`told`, `confirmed`).

## Runs

Several runs join independent machines: a behaviour of such a run is one of
them, chosen by `part` (or `half`) at the start, and the others stand still.

| Run | Machines | What passes |
|---|---|---|
| `crash` | `CometCore`; private store with and without lasting names; migration | `AcknowledgedIsDurable`, `JournalIsDecidedChain`, `AppHashAgreement`, `DecidedBlockFinalizes`, `SpentStaysSpent`, `HistoriesKept`, and `ImplementsPromise`: the core implements `DurableChain` |
| `live` | core with a mempool, listener, wallet restore | `LedgersSound`, `PreparedProposalAccepted`; eventually: `DecidedIsEventuallyServed`, `EngineServedAgain`, `ShutdownCompletes`, `RestoreCompletes` |
| `history` | record ledger, frame log, stored messages | `AcknowledgedRecordsSurvive`, `LogSpendsOnce`, `RecoveredIsReplayed`, `LogsRecover`, `TruncationKeepsReplayed`, `FormatsExact` |
| | `NodeDirectory`, two instances | `AtMostOneOwner`, `WritersSeeWholeHistory`, `ServedIdentity` |
| | circuits, preflight, hashes | `AcceptedIsTrue`, `HonestIsAccepted`, `PreflightIsAbsence`, `ReferencesAgree` |
| `private` | transfers, both trees, key store, repeated publication | `AppliedOnce`, `SpendsSound`, `HonestServed`, `SpentSetProvable`, `NotesProvable`, `OneHolder`, `WalletKept` |
| `protocol` | listener, socket bytes, request fields, finality, genesis | `PermitsMatchThreads`, `AnswersInOrder`, `CoreSerialized`, `PoisonIsFinal`, `WireUnambiguous`, `FinalitySound`, `GenesisAgrees` |
| `info`, `durable`, `shutdown`, `recovery`, `reported`, `documented`, `genesis` | as above | violations, see Findings |

The comment above each property says it in full. In short: an acknowledged
block, record, transfer or published payload survives crashes and is never
replaced (for records and private stores: while the names of their files last);
what a node serves is what its files replay to; nothing is spent twice; every
message has one reading; a proof that is accepted is about the state it is
applied to; and what an honest party prepares is accepted.

Bounds, and why they are enough to be interesting:

- `crash`: four faults are a failed append, a failed truncation and two crashes
  around the recovery. Three blocks are one before, during and after a fault;
  two conflicting transfers reach the double spend. The private stores have
  histories of three and five faults (three where names may be lost), the
  migration between two paths one fault. In `live`, mints of different sizes
  fill the overlay, the block and the engine's byte limit.
- `history`: three records and four faults lose a record and replace it after its
  checkpoint. Frame logs use digits of four bits, payloads of which none is a
  prefix of another, and one damage anywhere. A stored message has one or two
  changed fields, and its checksum may be computed anew. In the directory a kill,
  an operator's clean-up and a power loss can meet (three outages), between two
  instances with two geneses. The circuits have chosen states, digests and
  preimages with zeros, largest elements, lanes that are no field element and
  wrong lengths; transfers that balance or not, overflow, mix assets or spend a
  stranger's note; paths of depth three.
- `protocol`: two peers, limits of one or two permits, two requests each; streams
  of five small bytes; requests of three fields, of four for InitChain and five
  for PrepareProposal and FinalizeBlock, so that lists of two validators or
  transactions are accepted (writing stops at a field that the decoder refuses);
  three validators with powers 1 or 2, of which one order is enough, words up to
  9, two bodies, one round, four signatures; genesis documents of three entries.
- `private`: nine plans (two honest wallets, wrong contexts, assets, sums and
  seals) with three drafts in flight over trees of depth three; seven
  commitments; a key store with two headers, three payloads and two generations,
  once with two processes and one fault, once with one process and two faults,
  which interrupt a publication and then lose the power after its repetition.

Symmetry is used over values that no definition tells apart: in `crash` the
transfers of a store and the two paths, in `private` two commitments, in
`history` instances and geneses. Deadlock is allowed where a machine may end: a
full tree, a finished message, a log that the code refuses for good, a service
that was shut down. `WalletKept` concerns one caller of an opened store; with one
caller, two branches of the key store's recovery (both header files present, a
temporary file beside the same payload under its final name) do not occur.

Fairness (`live`). The steps of recovery, of an append and of a request the
engine retries are weakly fair: each is a loop of one thread. An operator
restarts a process that refuses writes, which the code never leaves by itself.
The listener polls and its threads run; accepting the engine is strongly fair,
because a permit may be taken and given back in between. The program that
restores a wallet is started again after an interruption. Torn full-length
frames are excluded in `live`: the node then fails closed by design.

## Findings

Where the code does other than a document, comment or error of the repository
says, a run states the document's words and TLC shows the violation. A run whose
property joins several statements stops at the first of them; the others are
violated too, each by a behaviour of its own.

- `info`: `info()` is documented to return only what "completed durability".
  `open()` accepts a complete frame whose sync failed and does not sync it, so
  Info can report a height that a power loss still removes. No Commit
  acknowledged it, so `AcknowledgedIsDurable` holds.
- `durable` (`PromisedDurable`): after a failed sync of the manifest the next open
  accepts both files without syncing them, and calls the manifest durable. And
  `append_record` syncs the log's data and not the directory entry of a new log,
  so a transition that is called durable can vanish with the file's name. The
  block journal syncs its directory.
- `shutdown`: a dropped `CometNodeService` deletes the lock file before its
  connection threads stop appending. The journal's own file lock still keeps a
  second writer out, which is why `WritersSeeWholeHistory` holds.
- `recovery` (`InvalidIsRecognised`): a checkpoint of a lost record, and one of
  the record that takes its sequence, make the two ambiguous: every later open
  fails although the log is intact. And the length of a frame has no checksum: a
  complete record whose length rotted upwards looks like an incomplete tail and is
  cut off, where the documents ask for an error. `LogsRecover` says what does
  hold: only a rotten length does this, and nothing is ever invented.
- `reported` (`ReportedKept`): a process is killed between the write and the sync
  of a payload's temporary file; the next open renames the complete but unsynced
  file, the repeated `publish` answers AlreadyPublished, and a power loss takes
  the bytes. `WalletKept` says what does hold: a payload answered Published
  survives, and one answered AlreadyPublished is kept or torn, never replaced.
- `documented` (`AcceptedAsDocumented`): the commitment inside a nullifier's
  preimage, and the nodes of a path segment, may be non-canonical bytes that read
  as the digest modulo the field; and both sums of a transfer may overflow alike,
  because only differences of carries are constrained.
- `genesis` (`GenesisAddressesDiffer`): one key listed twice with different powers
  passes the check for equal addresses when another validator is sorted between
  them. The engine cannot start such a network: no document for it is accepted
  (`GenesisAgrees`).

## Proofs

Eight modules hold theorems: `CometCoreProofs`, `LedgerProofs`,
`RecordLedgerProofs`, `NodeDirectoryProofs`, `AbciServerProofs`,
`KeystoreProofs`, `FinalityProofs`, and `FoldFacts`, which the others use. They
hold for every value of the constants; the assumptions are the named ASSUMEs
of the modules, which TLC evaluates on its instances, and what a theorem lists
itself. Each inductive invariant was first checked by TLC.

**Core** (`IInv`, `CometCoreProofs`): type correctness, `AcknowledgedIsDurable`,
`JournalIsDecidedChain`, `AppHashAgreement`, `WritableTipMatchesJournal`,
`DecidedBlockFinalizes`, and the refinement of `DurableChain`. The properties
are not inductive alone. `JournalIsDecidedChain` needs to know which block is
being appended; that is the pending block, so `CoreInStep` ties it to the
decided chain; and recovery needs `NetworkHistory`: every decided block
executes from the tip before it.

**Ledger under the core** (`LedgersInv` with `IInv`, `LedgerProofs`):
`LedgersSound`, `PreparedProposalAccepted` and `SpentStaysSpent`, for every list
of transactions, every byte limit and any crashes. What a block does is a fold
of its transactions over the ledger, so these need induction over the list. The
lemmas say what one transaction keeps (canonical state, only more is spent) and
what a run of them keeps. `PreparedProposalAccepted` holds because selection
folds the same transition as execution and counts the same bytes;
`SpentStaysSpent` because the network's ledgers only grow in what is spent, a
block is refused that spends it again, and recovery replays the network's
blocks (`IInv`).

**Finality** (`FinalityInv`, `FinalityProofs`): `FinalitySound`, for any number
of validators, any powers, any lists of validators and votes that the
constructors accept. The powers of a set of validators are a sum over a list:
the lemmas show that it splits over disjoint sets, grows with the set, and is
the total for all; that sorting keeps the elements; and that the votes of a
certificate, each of another validator, add up to at most what their signers
hold. Two quorums then share power beyond the Byzantine share, hence an honest
validator, who signed one block (`SignedOnce`). Assumed: the powers are naturals
and the two limits are; the run `protocol` checks the same property on its
instance.

**Induction over data.** `FoldFacts` takes the folded operator as a constant
`Op`. Its lemma `SetInduction` (a set of naturals with zero and with every
successor is `Nat`) follows from the least element of a set; `FoldRun` gives
every fold as a finite run of partial results, `FoldUnique` says that a run
determines the fold, and `FoldAppend` takes one more element. A module
instantiates it once per operator and argues about the set of indices up to
which its claim holds.

**Directory** (`DirectoryInv`): `AtMostOneOwner`, `WritersSeeWholeHistory`,
`ServedIdentity`, one kind of history, and that acknowledged blocks keep their
identity files. Ownership alone does not exclude two writers, so the invariant
adds `OneJournalHolder`; what a power loss may leave is bounded by `SyncedNames`
and by the stage of each opening.

**Record ledger** (`RecordInv`): `AcknowledgedRecordsSurvive`, `LogSpendsOnce`,
`RecoveredIsReplayed`, and that a writable ledger is what its log replays to. No
double spend needs that the log is a chain of validated transitions
(`LogIsChain`) and that every state remembers what was consumed before it
(`LogRemembers`).

**Server** (`ServerInv`): `PermitsMatchThreads`, `AnswersInOrder`,
`CoreSerialized`, `PoisonIsFinal`, for any number of peers and permits. The
counter is tied to the set of threads by counting those that hold a permit.

**Key store** (`LockInv`, and `WalletInv` with one caller of each opened store):
`OneHolder`, `WalletKept`, and that no file under a final name is replaced or
removed. `CallsFit` ties every step of a call to the temporary and final files
it may find; `ConfirmedInv` adds where the file of a payload is that a retry was
told is already published. That its bytes survive is not provable: `reported`
refutes it.

Only model-checked:

- liveness, and anything with ENABLED: out of the prover's reach;
- `WireUnambiguous`, `GenesisAgrees`, `LogsRecover`, `TruncationKeepsReplayed`,
  `FormatsExact`, `AcceptedIsTrue`, `HonestIsAccepted`, `PreflightIsAbsence`,
  `ReferencesAgree`: their decoders, scans and hashes are recursive operators,
  which the prover does not support;
- `SpentSetProvable`, `NotesProvable`: recursion over trees;
- `AppliedOnce`, `SpendsSound`, `HonestServed`: they go through the same trees
  with every root that a statement names;
- `HistoriesKept`: no proof has been written.

## Not modelled

- The proof system (Plonky3: commitments, FRI, proof bytes), signatures, key
  encapsulation, key derivation and the sealing of the synthetic wallet fixture:
  computation that the models take as ideal. The accumulator circuit is a
  demonstration.
- The frozen parameter files and corpora of `noxis-tree-params` and of the proof
  contract, byte budgets of proofs, thread stacks.
- The byte layouts of addresses and envelopes of the wallet, and its
  `PublicAddressBook`.
- Read-only queries, inclusion proofs served by the local node, command lines,
  textual configuration, demonstrations, fuzz targets, scripts and spikes.
- The limit on the number of checkpoint files (1,024), and checksums that
  collide. The genesis identity of a manifest does not cover its storage mode
  byte, in the code and in the model.
