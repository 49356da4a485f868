------------------------------ MODULE CometCore ------------------------------
(***************************************************************************)
(* NoxisCometCore of noxis-comet-abci, driven by a CometBFT engine, over   *)
(* the durable execution that PersistentExecution models.                  *)
(*                                                                         *)
(* Every request locks the one core for its whole duration, so a handler   *)
(* is one action; only Commit is several, because the process can die      *)
(* between the steps of its append.  The other validators go on deciding   *)
(* blocks while this node is down, and the engine replays to the node what *)
(* it missed.  A request that fails closes the connection, after which the *)
(* engine starts over with a handshake.                                    *)
(***************************************************************************)
EXTENDS PersistentExecution

CONSTANTS
  MaxHeight,     \* bound: blocks the network decides
  MaxFaults,     \* bound: crashes, power losses and I/O failures
  MaxReap,       \* bound: transactions the engine offers for a proposal
  MaxPending,    \* MAX_PENDING_TRANSACTIONS of the mempool overlay
  MaxPendingBytes,  \* MAX_PENDING_TRANSACTION_BYTES
  EngineLimit,   \* byte limits the engine may set for a proposal
  EngineGenuine  \* does the engine announce the configured genesis?

ASSUME BoundAssumption == MaxFaults \in Nat /\ MaxHeight \in Nat
ASSUME EngineAssumption == EngineLimit \subseteq Int /\ MaxReap \in Nat

VARIABLES
  lifecycle,     \* "GenesisUnverified" or "Running"
  pending,       \* the finalized block that waits for its Commit, or None
  mempool,       \* the overlay: its candidate ledger and what it admitted
  proposal,      \* the proposal this node last built for a height, or None
  chain,         \* the blocks the network has decided
  network,       \* network[n + 1]: the tip of a correct validator at height n
  session,       \* the engine's connection and how far it is in a height
  seen,          \* the application height the engine knows in this session
  told,          \* what the last Info or FinalizeBlock answered
  acked,         \* the height of the last Commit that returned success
  faults         \* faults so far

coreVars   == <<lifecycle, pending, mempool, proposal>>
engineVars == <<chain, network, session, seen, told, acked>>
vars == <<journalVars, executionVars, coreVars, engineVars, faults>>

FreshMempool(ledger) == [ledger |-> ledger, txs |-> <<>>]

Init ==
  /\ JournalInit
  /\ ExecutionInit
  /\ lifecycle = "GenesisUnverified"
  /\ pending = None
  /\ mempool = FreshMempool(EmptyLedger)
  /\ proposal = None
  /\ chain = <<>>
  /\ network = <<GenesisTip>>
  /\ session = "offline"
  /\ seen = 0
  /\ told = None
  /\ acked = 0
  /\ faults = 0

(***************************************************************************)
(* Recovery, and the core built around the recovered execution.            *)
(***************************************************************************)
OpenJournal == Open /\ UNCHANGED <<coreVars, engineVars, faults>>

Replay == ReplayFrame /\ UNCHANGED <<coreVars, engineVars, faults>>

RefuseJournal == OpenRefused /\ UNCHANGED <<coreVars, engineVars, faults>>

TruncationFails ==
  /\ faults < MaxFaults
  /\ OpenTailFails
  /\ faults' = faults + 1
  /\ UNCHANGED <<coreVars, engineVars>>

(* Faulty: a recovered node waits for an InitChain it will never get. *)
FaultyStartCore ==
  /\ OpenSucceeds
  /\ lifecycle' = "GenesisUnverified"
  /\ pending' = None
  /\ mempool' = FreshMempool(tip.ledger)
  /\ UNCHANGED <<proposal, engineVars, faults>>

(* try_new *)
StartCore ==
  /\ OpenSucceeds
  /\ lifecycle' = IF tip.height = 0 THEN "GenesisUnverified" ELSE "Running"
  /\ pending' = None
  /\ mempool' = FreshMempool(tip.ledger)
  /\ UNCHANGED <<proposal, engineVars, faults>>

(***************************************************************************)
(* The requests.                                                           *)
(***************************************************************************)
Connected == Idle /\ session # "offline"

Info ==
  /\ Idle
  /\ session = "offline"
  /\ seen' = tip.height
  /\ told' = [height |-> tip.height, app_hash |-> tip.app_hash]
  /\ session' = IF tip.height = 0 THEN "init" ELSE "ready"
  /\ UNCHANGED <<chain, network, acked, coreVars, executionVars, journalVars, faults>>

(* The engine announces its genesis; it may be one of another network. *)
InitChain(genuine) ==
  /\ Connected
  /\ session = "init"
  /\ IF tip.height = 0 /\ genuine
     THEN lifecycle' = "Running" /\ session' = "ready"
     ELSE session' = "offline" /\ UNCHANGED lifecycle
  /\ UNCHANGED <<pending, mempool, proposal, chain, network, seen, told, acked,
                 executionVars, journalVars, faults>>

(* admit *)
Admits(tx) ==
  /\ Len(mempool.txs) < MaxPending
  /\ Bytes(mempool.txs) + tx.size <= MaxPendingBytes
  /\ Accepts(mempool.ledger, tx)

(* A transaction the overlay refuses changes nothing. *)
CheckTx(tx) ==
  /\ Connected
  /\ IF lifecycle = "Running" /\ Admits(tx)
     THEN mempool' = [ledger |-> CommitTransition(mempool.ledger, tx),
                      txs    |-> Append(mempool.txs, tx)]
     ELSE UNCHANGED mempool
  /\ UNCHANGED <<lifecycle, pending, proposal, engineVars, executionVars,
                 journalVars, faults>>

(* Faulty: judges every candidate against the durable tip. *)
FaultySelected(limit, txs) ==
  FoldList(LAMBDA chosen, tx :
             IF /\ Len(chosen) < MaxRecords
                /\ Bytes(chosen) + tx.size <= limit
                /\ Accepts(tip.ledger, tx)
             THEN Append(chosen, tx)
             ELSE chosen,
           <<>>, txs)

(* A candidate is skipped when it does not fit or does not execute, and    *)
(* nothing more is taken once the block is full.                           *)
Consider(chosen, tx) ==
  IF /\ Len(chosen.txs) < MaxRecords
     /\ Bytes(chosen.txs) + tx.size <= chosen.limit
     /\ Accepts(chosen.ledger, tx)
  THEN [limit  |-> chosen.limit,
        ledger |-> CommitTransition(chosen.ledger, tx),
        txs    |-> Append(chosen.txs, tx)]
  ELSE chosen
Selected(limit, txs) ==
  FoldList(Consider, [limit |-> limit, ledger |-> tip.ledger, txs |-> <<>>], txs).txs

SmallerOf(m, n) == IF m < n THEN m ELSE n

(* The engine asks for a proposal when it knows of no decided height that  *)
(* the application lacks.  Building one changes nothing in the core.       *)
PrepareProposal(engineLimit, txs) ==
  /\ Connected
  /\ session = "ready"
  /\ seen = Len(chain)
  /\ IF /\ lifecycle = "Running"
        /\ EngineHeight(tip.height + 1) <= MaxEngineHeight
        /\ engineLimit >= 0
     THEN /\ proposal' = [height |-> tip.height + 1,
                          txs |-> Selected(SmallerOf(engineLimit, MaxBlockBytes), txs)]
          /\ UNCHANGED session
     ELSE session' = "offline" /\ UNCHANGED proposal
  /\ UNCHANGED <<lifecycle, pending, mempool, chain, network, seen, told, acked,
                 executionVars, journalVars, faults>>

(* The verdict on a received proposal, which changes nothing either. *)
ProcessProposal(block) ==
  /\ lifecycle = "Running"
  /\ Executes(tip, block)

(* A cached result answers a repeated request; a different block at the    *)
(* pending height is a conflict.                                           *)
FinalizeAccepts(block) ==
  /\ lifecycle = "Running"
  /\ IF pending = None THEN Executes(tip, block) ELSE pending.block = block

FinalizeBlock ==
  /\ Connected
  /\ session = "ready"
  /\ seen < Len(chain)
  /\ IF FinalizeAccepts(chain[seen + 1])
     THEN /\ pending' = IF pending = None THEN Executed(tip, chain[seen + 1])
                                          ELSE pending
          /\ told' = [height   |-> pending'.result.height,
                      app_hash |-> pending'.result.app_hash]
          /\ session' = "finalized"
     ELSE session' = "offline" /\ UNCHANGED <<pending, told>>
  /\ UNCHANGED <<lifecycle, mempool, proposal, chain, network, seen, acked,
                 executionVars, journalVars, faults>>

(* Faulty: the overlay is not rebuilt on the new tip. *)
FaultyKeepsOverlay(result) ==
  /\ pending' = None
  /\ acked' = result.height
  /\ session' = IF session = "offline" THEN "offline" ELSE "ready"
  /\ seen' = IF session = "offline" THEN seen ELSE seen + 1
  /\ UNCHANGED <<lifecycle, mempool, proposal, chain, network, told, faults>>

(* Faulty: the committed block stays pending. *)
FaultyKeepsPending(result) ==
  /\ mempool' = FreshMempool(result.ledger)
  /\ acked' = result.height
  /\ session' = IF session = "offline" THEN "offline" ELSE "ready"
  /\ seen' = IF session = "offline" THEN seen ELSE seen + 1
  /\ UNCHANGED <<lifecycle, pending, proposal, chain, network, told, faults>>

(* What the core does once the execution has committed. *)
PublishCommit(result) ==
  /\ pending' = None
  /\ mempool' = FreshMempool(result.ledger)
  /\ acked' = result.height
  /\ session' = IF session = "offline" THEN "offline" ELSE "ready"
  /\ seen' = IF session = "offline" THEN seen ELSE seen + 1
  /\ UNCHANGED <<lifecycle, proposal, chain, network, told, faults>>

CommitRequest ==
  /\ Connected
  /\ session = "finalized"
  /\ IF lifecycle # "Running" \/ pending = None \/ CommitRefused(pending)
     THEN /\ session' = "offline"
          /\ UNCHANGED <<coreVars, chain, network, seen, told, acked,
                         executionVars, journalVars, faults>>
     ELSE IF IdempotentReceipt(pending)
     THEN /\ PublishCommit(tip)
          /\ UNCHANGED <<executionVars, journalVars>>
     ELSE /\ CommitBegins(pending)
          /\ session' = "committing"
          /\ UNCHANGED <<coreVars, chain, network, seen, told, acked, faults>>

CommitWrites == AppendWrites /\ UNCHANGED <<coreVars, engineVars, faults>>

CommitSyncs == AppendSyncs /\ UNCHANGED <<coreVars, engineVars, faults>>

CommitReturns == CommitSucceeds /\ PublishCommit(append.stored.result)

(* The pending block stays: only a reopened journal can accept writes. *)
CommitErrs ==
  /\ faults < MaxFaults
  /\ CommitFails
  /\ session' = "offline"
  /\ faults' = faults + 1
  /\ UNCHANGED <<coreVars, chain, network, seen, told, acked>>

(***************************************************************************)
(* The end of the process takes the core with it.                          *)
(***************************************************************************)
CoreLost ==
  /\ lifecycle' = "GenesisUnverified"
  /\ pending' = None
  /\ mempool' = FreshMempool(EmptyLedger)
  /\ session' = "offline"
  /\ UNCHANGED <<proposal, chain, network, seen, told, acked>>

Killed ==
  /\ faults < MaxFaults
  /\ ProcessKilled
  /\ CoreLost
  /\ faults' = faults + 1

PowerFails ==
  /\ faults < MaxFaults
  /\ PowerLoss
  /\ CoreLost
  /\ faults' = faults + 1

(* An operator restarts a process that refuses to write. *)
Restart ==
  /\ Idle
  /\ ~writes
  /\ ProcessEnds
  /\ UNCHANGED journalVars
  /\ CoreLost
  /\ UNCHANGED faults

(***************************************************************************)
(* The engine and the other validators.                                    *)
(***************************************************************************)
EngineStops ==
  /\ faults < MaxFaults
  /\ session # "offline"
  /\ session' = "offline"
  /\ faults' = faults + 1
  /\ UNCHANGED <<chain, network, seen, told, acked, coreVars, executionVars,
                 journalVars>>

(* A decided block has passed ProcessProposal at a correct validator.  The *)
(* decision names the height after the network's tip.                      *)
Decide(txs, hash) ==
  LET block == [txs |-> txs,
                decision |-> [height  |-> EngineHeight(Len(chain) + 1),
                              hash    |-> hash,
                              genuine |-> TRUE]]
      last  == network[Len(network)]
  IN  /\ Len(chain) < MaxHeight
      /\ Executes(last, block)
      /\ chain' = Append(chain, block)
      /\ network' = Append(network, ExecuteBlock(last, block))
      /\ proposal' = None
      /\ UNCHANGED <<session, seen, told, acked, lifecycle, pending, mempool,
                     executionVars, journalVars, faults>>
(***************************************************************************)
(* The specification.                                                      *)
(***************************************************************************)
Recovery ==
  OpenJournal \/ Replay \/ RefuseJournal \/ TruncationFails \/ StartCore

Requests ==
  \/ Info
  \/ \E genuine \in EngineGenuine : InitChain(genuine)
  \/ \E tx \in Transaction : CheckTx(tx)
  \/ \E limit \in EngineLimit, txs \in ListsUpTo(Transaction, MaxReap) :
        PrepareProposal(limit, txs)
  \/ FinalizeBlock
  \/ CommitRequest

CommitSteps == CommitWrites \/ CommitSyncs \/ CommitReturns \/ CommitErrs

Failures == Killed \/ PowerFails \/ Restart \/ EngineStops

Decisions ==
  \E txs \in ListsUpTo(Transaction, MaxRecords), hash \in BlockHash : Decide(txs, hash)

Next == Recovery \/ Requests \/ CommitSteps \/ Failures \/ Decisions

Spec == Init /\ [][Next]_vars

(* The engine retries until it is answered and the operating system runs a *)
(* step that is ready; somebody restarts a process that refuses to write.  *)
Fairness ==
  /\ WF_vars(OpenJournal \/ Replay \/ StartCore)
  /\ WF_vars(Info)
  /\ WF_vars(InitChain(TRUE))
  /\ WF_vars(FinalizeBlock)
  /\ WF_vars(CommitRequest)
  /\ WF_vars(CommitWrites \/ CommitSyncs \/ CommitReturns)
  /\ WF_vars(Restart)

FairSpec == Spec /\ Fairness

(***************************************************************************)
(* Properties.                                                             *)
(***************************************************************************)

(* The counters, flags and phases keep the values the handlers expect; the *)
(* synced part of the journal is a part of it.                             *)
TypeOK ==
  /\ synced \in 0..Len(frames)
  /\ entry \in BOOLEAN
  /\ tail \in {"none", "partial", "corrupt"}
  /\ proc \in {"down", "replaying", "serving"}
  /\ tip.height \in Nat
  /\ writes \in BOOLEAN
  /\ append.phase \in {"idle", "writing", "written", "synced"}
  /\ lifecycle \in {"GenesisUnverified", "Running"}
  /\ session \in {"offline", "init", "ready", "finalized", "committing"}
  /\ seen \in Nat
  /\ acked \in Nat
  /\ faults \in 0..MaxFaults

(* The durable ledger and the overlay are canonical states: no commitment  *)
(* is appended twice, the tree never exceeds its capacity, and no supply   *)
(* passes the largest Amount (what snapshot() asserts of a live state).    *)
LedgersCanonical == {tip.ledger, mempool.ledger} \subseteq CanonicalLedger

(* A Commit is acknowledged only when its frame, and every frame before    *)
(* it, survives any later crash (the barrier order of append_block).       *)
AcknowledgedIsDurable == acked <= DurableCount

(* The journal never holds anything but the blocks the network decided,    *)
(* each at its height and with the result every correct validator reached: *)
(* no crash, retry or recovery skips, repeats or reorders one.             *)
JournalIsDecidedChain ==
  /\ Len(frames) <= Len(chain)
  /\ \A n \in 1..Len(frames) : /\ frames[n].block = chain[n]
                               /\ frames[n].result = network[n + 1]

(* What Info and FinalizeBlock tell the engine is what every correct       *)
(* validator computes for that height, across crashes and replays.         *)
AppHashAgreement ==
  told # None =>
    /\ told.height < Len(network)
    /\ told.app_hash = network[told.height + 1].app_hash

(* Info reports only a height that has completed durability, as the comment*)
(* of info() says.  It does not hold: recovery accepts a complete frame    *)
(* whose sync never succeeded, and does not sync it.                       *)
ReportedIsDurable ==
  told # None /\ session \in {"init", "ready"} => told.height <= DurableCount

(* A process that may write serves exactly the state its journal replays   *)
(* to, and the file has no unfinished frame for an append to run into.     *)
WritableTipMatchesJournal ==
  Idle /\ writes =>
    /\ tip.height = Len(frames)
    /\ tail = "none"
    /\ tip = network[tip.height + 1]

(* The engine's next FinalizeBlock is never refused: the core expects the  *)
(* height the engine was told, holds no conflicting pending block, and the *)
(* decided block executes.                                                 *)
DecidedBlockFinalizes ==
  Connected /\ session = "ready" /\ seen < Len(chain) =>
    /\ seen = tip.height
    /\ FinalizeAccepts(chain[seen + 1])

(* After any restart, what an acknowledged block spent is spent, and no    *)
(* nullifier is consumed by two transactions of the journal.               *)
SpentStaysSpent ==
  /\ proc = "serving" =>
       \A n \in 1..acked : \A i \in DOMAIN chain[n].txs :
         Range(chain[n].txs[i].inputs) \subseteq tip.ledger.spent
  /\ \A n, m \in DOMAIN frames : \A i \in DOMAIN frames[n].block.txs,
                                   j \in DOMAIN frames[m].block.txs :
       <<n, i>> # <<m, j>> =>
         Range(frames[n].block.txs[i].inputs)
           \cap Range(frames[m].block.txs[j].inputs) = {}

(* The overlay is always the durable tip with the admitted transactions    *)
(* applied in order, so admission never judges against a stale tip.        *)
OverlayExtendsTip ==
  proc = "serving" =>
    ApplyAll(tip.ledger, mempool.txs) = [ok |-> TRUE, ledger |-> mempool.ledger]

(* Both ledgers a node works with, the durable one and the overlay, are    *)
(* canonical states, and the overlay is the durable one with the admitted  *)
(* transactions applied: no block, recovery or admission leaves a supply,  *)
(* a tree or an overlay that validation did not pass.                      *)
LedgersSound == LedgersCanonical /\ OverlayExtendsTip

(* A proposal this node prepared for the next height passes its own        *)
(* ProcessProposal, and with it every correct validator's, whichever limit *)
(* the engine set and whatever crashed in between.                         *)
PreparedProposalAccepted ==
  Idle /\ lifecycle = "Running" /\ proposal # None =>
    (proposal.height = tip.height + 1 =>
       \A hash \in BlockHash :
         ProcessProposal([txs |-> proposal.txs,
                          decision |-> [height  |-> EngineHeight(proposal.height),
                                        hash    |-> hash,
                                        genuine |-> TRUE]]))

(* Every decided block is eventually part of the state the node serves:    *)
(* crashes, failed appends and refused commits only delay it.              *)
DecidedIsEventuallyServed ==
  \A n \in 1..MaxHeight :
    Len(chain) >= n ~> (proc = "serving" /\ tip.height >= n)

(***************************************************************************)
(* What the node promises the engine, as a specification of its own.       *)
(***************************************************************************)
DurableBlocks == [n \in 1..DurableCount |-> frames[n].block]

Promise == INSTANCE DurableChain
             WITH decided <- chain, durable <- DurableBlocks, acknowledged <- acked

(* CometCore implements that promise. *)
ImplementsPromise == Promise!Spec

(***************************************************************************)
(* The inductive invariant.  The safety properties are not inductive one   *)
(* by one: what the journal may hold depends on the append in progress,    *)
(* that on the block the core has pending, and that on what the engine was *)
(* told and on what every correct validator executed.                      *)
(***************************************************************************)
IsSeq(s) == s \in Seq(Range(s))

(* The decided blocks execute one after the other from the genesis tip. *)
NetworkHistory ==
  /\ IsSeq(chain) /\ IsSeq(network)
  /\ Len(network) = Len(chain) + 1
  /\ network[1] = GenesisTip
  /\ \A n \in 1..Len(network) : network[n].height = n - 1
  /\ \A n \in 1..Len(chain) : /\ Executes(network[n], chain[n])
                              /\ network[n + 1] = ExecuteBlock(network[n], chain[n])

(* The executed block `e' is the decided one after the current tip. *)
IsNextDecided(e) ==
  /\ tip.height < Len(chain)
  /\ e.block = chain[tip.height + 1]
  /\ e.result = network[tip.height + 2]

(* The tip is a validator's tip that the journal contains.  A process that *)
(* may write has caught up with the whole journal, but for its own append. *)
TipInJournal ==
  /\ tip.height \in 0..Len(frames)
  /\ tip = network[tip.height + 1]
  /\ proc = "down" => tip = GenesisTip
  /\ Idle /\ writes => tip.height = Len(frames) /\ tail = "none"

AppendInOrder ==
  /\ append = [stored |-> append.stored, phase |-> append.phase]
  /\ append.phase # "idle" =>
       /\ proc = "serving" /\ writes /\ lifecycle = "Running"
       /\ tail = "none"
       /\ IsNextDecided(append.stored)
       /\ Len(frames) = IF append.phase = "writing" THEN tip.height
                                                    ELSE tip.height + 1
       /\ append.phase = "synced" => synced = Len(frames)

(* What the core and the engine hold agrees with the tip. *)
CoreInStep ==
  /\ pending # None => proc = "serving" /\ IsNextDecided(pending)
  /\ session # "offline" => proc = "serving" /\ seen = tip.height
  /\ session \in {"ready", "finalized", "committing"} => lifecycle = "Running"
  /\ proc = "serving" /\ tip.height > 0 => lifecycle = "Running"
  /\ told # None => told.height \in Nat

(* Together with the properties they support, an inductive invariant of    *)
(* the crash, retry and recovery steps of the node.                        *)
IInv ==
  /\ TypeOK
  /\ NetworkHistory
  /\ IsSeq(frames)
  /\ JournalIsDecidedChain
  /\ AcknowledgedIsDurable
  /\ AppHashAgreement
  /\ TipInJournal
  /\ AppendInOrder
  /\ CoreInStep

(* The last proposal fits the tip that the network has reached. *)
ProposalFits ==
  proposal # None =>
    /\ proposal.height = Len(chain) + 1
    /\ EngineHeight(proposal.height) <= MaxEngineHeight
    /\ Len(proposal.txs) <= MaxRecords
    /\ Bytes(proposal.txs) <= MaxBlockBytes
    /\ ApplyAll(network[Len(network)].ledger, proposal.txs).ok

(* Inductive with IInv: what the blocks, the overlay and the proposal hold *)
(* are transactions that apply, and a process serves no tip older than     *)
(* what it acknowledged.                                                   *)
LedgersInv ==
  /\ \A n \in 1..Len(chain) : chain[n].txs \in Seq(Transaction)
  /\ mempool.txs \in Seq(Transaction)
  /\ mempool.ledger \in CanonicalLedger
  /\ OverlayExtendsTip
  /\ proc = "serving" => acked <= tip.height
  /\ ProposalFits
=============================================================================
