---------------------------- MODULE RecordLedger ----------------------------
(***************************************************************************)
(* PersistentLedger of noxis-storage, the history of a local node: each    *)
(* accepted transaction is one NXRF frame with an NXRC record, linked to   *)
(* the state before it and the state after it.  Checkpoints of the state   *)
(* are published beside the log and compared with it during recovery.      *)
(*                                                                         *)
(* A StateId is the state, a RecordHash the record.  The directory entry   *)
(* of the log is taken to be durable; NodeDirectory models that it need    *)
(* not be.                                                                 *)
(***************************************************************************)
EXTENDS Ledger, FiniteSets

CONSTANTS
  MaxCandidates,  \* MAX_DISCOVERED_CHECKPOINTS
  TornWrites,     \* can a power loss leave a frame of full length with wrong
                  \* bytes?
  MaxRecords,     \* bound: records of the log
  MaxFaults,      \* bound: kills, power losses and failed I/O
  None

ASSUME RecordAssumption ==
  /\ MaxCandidates \in Nat /\ MaxRecords \in Nat /\ MaxFaults \in Nat
  /\ TornWrites \in BOOLEAN

VARIABLES
  records,      \* the complete frames of the log
  synced,       \* how many of them a successful sync covered
  tail,         \* "none", "partial" or "corrupt", behind the complete frames
  checkpoints,  \* the published checkpoint files
  anchored,     \* those whose directory entry survives a power loss
  phase,        \* "closed", "replaying", "open" or "written" (not yet synced)
  appending,    \* the record apply has written and not yet acknowledged
  state,        \* PersistentLedger::state
  chain,        \* its RecordChain: sequence and state identifier
  terminal,     \* terminal_record_hash
  recovered,    \* recovered_checkpoint_sequence, 0 for none
  writable,     \* writes_available
  acked,        \* the records whose apply returned a receipt
  faults        \* faults so far

diskVars   == <<records, synced, tail, checkpoints, anchored>>
memoryVars == <<state, chain, terminal, recovered, writable>>
vars == <<diskVars, phase, appending, memoryVars, acked, faults>>

(* TransactionRecord and Checkpoint. *)
Record(sequence, previous, tx, result) ==
  [sequence |-> sequence, previous |-> previous, tx |-> tx, result |-> result]

Checkpoint(sequence, record, snapshot) ==
  [sequence |-> sequence, record |-> record, snapshot |-> snapshot]

GenesisChain == [sequence |-> 0, id |-> EmptyLedger]

(* No process has the ledger open. *)
Forgets ==
  /\ phase' = "closed" /\ appending' = None
  /\ state' = EmptyLedger /\ chain' = GenesisChain /\ terminal' = None
  /\ recovered' = 0 /\ writable' = FALSE

Init ==
  /\ records = <<>> /\ synced = 0 /\ tail = "none"
  /\ checkpoints = {} /\ anchored = {}
  /\ phase = "closed" /\ appending = None
  /\ state = EmptyLedger /\ chain = GenesisChain /\ terminal = None
  /\ recovered = 0 /\ writable = FALSE
  /\ acked = {}
  /\ faults = 0

Fault == faults < MaxFaults /\ faults' = faults + 1

(***************************************************************************)
(* PersistentLedger::open_with_checkpoints.                                *)
(***************************************************************************)
(* checkpoint_candidates_by_sequence refuses two different checkpoints of  *)
(* one sequence; load_candidates refuses too many of them.                 *)
Ambiguous ==
  \E c, d \in checkpoints : c.sequence = d.sequence /\ c # d

TooManyCandidates == Cardinality(checkpoints) > MaxCandidates

CandidatesLoad == ~Ambiguous /\ ~TooManyCandidates

(* The scan accepts complete frames and at most one partial frame behind   *)
(* them; an I/O error or any other bytes end the open with nothing done.   *)
BeginOpen ==
  /\ phase = "closed"
  /\ tail # "corrupt"
  /\ CandidatesLoad
  /\ phase' = "replaying"
  /\ UNCHANGED <<diskVars, appending, memoryVars, acked, faults>>

(* RecordChain::apply. *)
Links(c, record) == record.sequence = c.sequence + 1 /\ record.previous = c.id

(* Faulty: the record's own hash is not compared. *)
FaultyVerifies(c, record, replayed) ==
  c.sequence = record.sequence

(* restore_verified_checkpoint_at_record: sequence, record hash, state id  *)
(* and the whole snapshot agree with the replayed record.                  *)
Verifies(c, record, replayed) ==
  /\ c.sequence = record.sequence
  /\ c.record = record
  /\ c.snapshot = record.result
  /\ c.snapshot = replayed

Revalidates(s, record) ==
  /\ record.tx.canonical
  /\ PrepareTransition(s, record.tx)
  /\ record.result = CommitTransition(s, record.tx)

ReplayRecord ==
  /\ phase = "replaying"
  /\ chain.sequence < Len(records)
  /\ LET record == records[chain.sequence + 1]
         candidate == {c \in checkpoints :
                         Verifies(c, record, CommitTransition(state, record.tx))}
     IN  /\ Links(chain, record)
         /\ Revalidates(state, record)
         /\ chain' = [sequence |-> record.sequence, id |-> record.result]
         /\ terminal' = record
         /\ recovered' = IF candidate = {} THEN recovered ELSE record.sequence
         /\ state' = IF candidate = {} THEN record.result
                     ELSE (CHOOSE c \in candidate : TRUE).snapshot
  /\ UNCHANGED <<diskVars, phase, appending, writable, acked, faults>>

(* An error during recovery: nothing was written. *)
OpenFails ==
  /\ phase = "replaying"
  /\ Fault
  /\ Forgets
  /\ UNCHANGED <<diskVars, acked>>

(* truncate_verified_incomplete_tail: set_len and sync_all. *)
TruncateTail ==
  /\ tail' = "none"
  /\ synced' = IF tail = "partial" THEN Len(records) ELSE synced
  /\ UNCHANGED records

FinishOpen ==
  /\ phase = "replaying"
  /\ chain.sequence = Len(records)
  /\ TruncateTail
  /\ phase' = "open"
  /\ writable' = TRUE
  /\ UNCHANGED <<checkpoints, anchored, appending, state, chain, terminal, recovered, acked,
                 faults>>

(* The truncation fails, with the tail gone or not.                        *)
TruncateFails ==
  /\ phase = "replaying"
  /\ chain.sequence = Len(records)
  /\ tail = "partial"
  /\ Fault
  /\ tail' \in {"none", "partial"}
  /\ Forgets
  /\ UNCHANGED <<records, synced, checkpoints, anchored, acked>>

(***************************************************************************)
(* PersistentLedger::apply, reached through LocalNode::submit_canonical.   *)
(* A transaction that fails a check is refused and changes nothing.        *)
(***************************************************************************)
Admits(tx) ==
  /\ phase = "open"
  /\ writable
  /\ tx.canonical
  /\ PrepareTransition(state, tx)

NewRecord(tx) ==
  Record(chain.sequence + 1, chain.id, tx, CommitTransition(state, tx))

(* append_record writes at the end of the file, also behind a partial      *)
(* frame, which then is no frame any more.                                 *)
WriteFrame(record) ==
  /\ records' = IF tail = "none" THEN Append(records, record) ELSE records
  /\ tail' = IF tail = "none" THEN "none" ELSE "corrupt"

ApplyWrites(tx) ==
  /\ Admits(tx)
  /\ Len(records) < MaxRecords
  /\ WriteFrame(NewRecord(tx))
  /\ phase' = "written"
  /\ appending' = NewRecord(tx)
  /\ UNCHANGED <<synced, checkpoints, anchored, memoryVars, acked, faults>>

Publish(record) ==
  /\ state' = record.result
  /\ chain' = [sequence |-> record.sequence, id |-> record.result]
  /\ terminal' = record

(* Faulty: acknowledges what is only in the page cache. *)
FaultyApplySyncs ==
  /\ phase = "written"
  /\ Publish(appending)
  /\ acked' = acked \cup {appending}
  /\ phase' = "open" /\ appending' = None
  /\ UNCHANGED <<diskVars, recovered, writable, faults>>

ApplySyncs ==
  /\ phase = "written"
  /\ synced' = Len(records)
  /\ Publish(appending)
  /\ acked' = acked \cup {appending}
  /\ phase' = "open" /\ appending' = None
  /\ UNCHANGED <<records, tail, checkpoints, anchored, recovered, writable, faults>>

(* Faulty: goes on accepting writes after an append of unknown outcome. *)
FaultyRefuseWrites == UNCHANGED writable

RefuseWrites == writable' = FALSE

(* write_all fails, with nothing or a part of the frame in the file.       *)
ApplyWriteFails(tx) ==
  /\ Admits(tx)
  /\ Fault
  /\ tail' \in {tail, "partial"}
  /\ RefuseWrites
  /\ UNCHANGED <<records, synced, checkpoints, anchored, phase, appending, state, chain,
                 terminal, recovered, acked>>

(* flush or sync_data fails: the frame is in the file.                     *)
ApplySyncFails ==
  /\ phase = "written"
  /\ Fault
  /\ phase' = "open" /\ appending' = None
  /\ RefuseWrites
  /\ UNCHANGED <<diskVars, state, chain, terminal, recovered, acked>>

(***************************************************************************)
(* publish_checkpoint: a complete synced temporary file is linked to the   *)
(* final name, unless that exists.  A failure before the link publishes    *)
(* nothing; one after it leaves the checkpoint published, as does success. *)
(* A crash leaves a temporary file, which discovery ignores.               *)
(***************************************************************************)
Snapshot == Checkpoint(chain.sequence, terminal, state)

PublishCheckpoint ==
  /\ phase = "open"
  /\ terminal # None
  /\ checkpoints' = checkpoints \cup {Snapshot}
  /\ UNCHANGED <<records, synced, tail, anchored, phase, appending, memoryVars, acked, faults>>

(* The system writes the checkpoint directory out on its own. *)
AnchorCheckpoints ==
  /\ anchored # checkpoints
  /\ anchored' = checkpoints
  /\ UNCHANGED <<records, synced, tail, checkpoints, phase, appending, memoryVars, acked, faults>>

(***************************************************************************)
(* Crashes.                                                                *)
(***************************************************************************)
Close ==
  /\ phase \in {"open", "replaying"}
  /\ Forgets
  /\ UNCHANGED <<diskVars, acked, faults>>

(* A kill in the middle of write_all leaves a part of the frame.           *)
Killed ==
  /\ phase # "closed"
  /\ Fault
  /\ Forgets
  /\ \/ UNCHANGED tail
     \/ (\E tx \in Transaction : Admits(tx)) /\ tail' = "partial"
  /\ UNCHANGED <<records, synced, checkpoints, anchored, acked>>

(* Of what was not synced any prefix survives.                             *)
PowerLoss ==
  /\ Fault
  /\ Forgets
  /\ \E n \in synced..Len(records) :
       /\ records' = SubSeq(records, 1, n)
       /\ tail' \in IF tail = "corrupt" THEN {"corrupt"}
                    ELSE IF n = Len(records) /\ tail = "none" THEN {"none"}
                    ELSE {"none", "partial"} \cup (IF TornWrites THEN {"corrupt"} ELSE {})
  /\ \E kept \in SUBSET (checkpoints \ anchored) :
       /\ checkpoints' = anchored \cup kept
       /\ anchored' = anchored \cup kept
  /\ UNCHANGED <<synced, acked>>

Next ==
  \/ BeginOpen \/ ReplayRecord \/ OpenFails \/ FinishOpen \/ TruncateFails
  \/ \E tx \in Transaction : ApplyWrites(tx) \/ ApplyWriteFails(tx)
  \/ ApplySyncs \/ ApplySyncFails
  \/ PublishCheckpoint \/ AnchorCheckpoints
  \/ Close \/ Killed \/ PowerLoss

Spec == Init /\ [][Next]_vars

-----------------------------------------------------------------------------
Records == [sequence : Nat, previous : LedgerState, tx : Transaction, result : LedgerState]
Checkpoints == [sequence : Nat, record : Records, snapshot : LedgerState]

RecordTypeOK ==
  /\ records \in Seq(Records)
  /\ synced \in 0..Len(records)
  /\ tail \in {"none", "partial", "corrupt"}
  /\ \A c \in checkpoints : c \in Checkpoints
  /\ anchored \subseteq checkpoints
  /\ phase \in {"closed", "replaying", "open", "written"}
  /\ appending = None \/ appending \in Records
  /\ state \in LedgerState
  /\ chain \in [sequence : 0..Len(records), id : LedgerState]
  /\ terminal = None \/ terminal \in Records
  /\ recovered \in Nat
  /\ writable \in BOOLEAN
  /\ acked \subseteq Records
  /\ faults \in Nat

(* What apply acknowledged is in the log, in its place and synced, after   *)
(* any kill, power loss, failed append or recovery.                        *)
AcknowledgedRecordsSurvive ==
  \A r \in acked : r.sequence \in 1..synced /\ records[r.sequence] = r

(* A ledger that accepts writes is exactly what its log replays to, with   *)
(* no partial frame in the way of the next append.                         *)
WritableMatchesLog ==
  phase = "open" /\ writable =>
    /\ tail = "none"
    /\ chain = [sequence |-> Len(records), id |-> state]
    /\ IF records = <<>>
       THEN state = EmptyLedger /\ terminal = None
       ELSE terminal = records[Len(records)] /\ state = terminal.result

(* No two records of the log spend one nullifier, create one commitment or *)
(* carry one transaction id, however often the ledger was reopened.        *)
LogSpendsOnce ==
  \A n \in 1..Len(records) : \A m \in 1..(n - 1) :
    LET earlier == records[m].tx
        later == records[n].tx
    IN  /\ earlier.id # later.id
        /\ Range(earlier.outputs) \cap Range(later.outputs) = {}
        /\ earlier.op = "transfer" /\ later.op = "transfer" =>
             Range(earlier.inputs) \cap Range(later.inputs) = {}

(* The checkpoint that status() reports belongs to the replayed history:   *)
(* an orphan of a lost suffix is never taken for it.                       *)
RecoveredIsReplayed ==
  phase # "closed" /\ recovered > 0 =>
    \E c \in checkpoints :
      /\ c.sequence = recovered
      /\ c.record = records[recovered]
      /\ c.snapshot = records[recovered].result

(* Checkpoints are not authoritative: one that does not fit the log is     *)
(* ignored, and never keeps the ledger from opening.                       *)
CheckpointsNeverBlockOpen == ~Ambiguous

-----------------------------------------------------------------------------
(***************************************************************************)
(* The inductive invariant behind the safety properties.                   *)
(***************************************************************************)
StateAfter(n) == IF n = 0 THEN EmptyLedger ELSE records[n].result

(* The log is a chain of validated transitions from the empty ledger. *)
LogIsChain ==
  \A n \in 1..Len(records) :
    /\ records[n].sequence = n
    /\ records[n].previous = StateAfter(n - 1)
    /\ PrepareTransition(records[n].previous, records[n].tx)
    /\ records[n].result = CommitTransition(records[n].previous, records[n].tx)

(* A state remembers what a transaction consumed and created. *)
Remembers(s, tx) ==
  /\ tx.id \in s.accepted
  /\ Range(tx.outputs) \subseteq Range(s.commitments)
  /\ tx.op = "transfer" => Range(tx.inputs) \subseteq s.spent

LogRemembers ==
  \A n \in 1..Len(records) : \A m \in 1..n : Remembers(records[n].result, records[m].tx)

(* The memory of the process is the replay of a prefix of the log: of all  *)
(* of it when it may write, of all but the last record while that record   *)
(* is written and not acknowledged.                                        *)
MemoryIsReplay ==
  /\ chain.id = state
  /\ state = StateAfter(chain.sequence)
  /\ terminal = IF chain.sequence = 0 THEN None ELSE records[chain.sequence]
  /\ phase = "closed" => chain.sequence = 0 /\ recovered = 0
  /\ phase \in {"closed", "replaying"} => ~writable
  /\ phase = "open" /\ writable => tail = "none" /\ chain.sequence = Len(records)
  /\ phase = "written" =>
       /\ tail = "none" /\ writable
       /\ chain.sequence + 1 = Len(records) /\ appending = records[Len(records)]

RecoveredInPrefix == recovered <= chain.sequence

RecordInv ==
  /\ RecordTypeOK
  /\ LogIsChain
  /\ LogRemembers
  /\ MemoryIsReplay
  /\ RecoveredInPrefix
  /\ RecoveredIsReplayed
  /\ AcknowledgedRecordsSurvive
=============================================================================
