------------------------- MODULE RecordLedgerProofs --------------------------
(***************************************************************************)
(* RecordInv is inductive, and implies the safety properties of the local  *)
(* record log.                                                             *)
(***************************************************************************)
EXTENDS RecordLedger, TLAPS

-----------------------------------------------------------------------------
(***************************************************************************)
(* Transitions of the ledger.                                              *)
(***************************************************************************)
(* The empty ledger is a ledger state. *)
LEMMA EmptyTyped == EmptyLedger \in LedgerState
  BY AmountAssumption DEF EmptyLedger, LedgerState

(* A validated transaction leaves a ledger state: no supply overflows. *)
LEMMA TransitionTyped ==
  ASSUME NEW s \in LedgerState, NEW tx \in Transaction, PrepareTransition(s, tx)
  PROVE  CommitTransition(s, tx) \in LedgerState
<1>1. /\ tx.id \in TransactionId /\ tx.amount \in 1..MaxAmount
      /\ tx.inputs \in Seq(Nullifier) /\ tx.outputs \in Seq(Commitment)
  BY TransactionAssumption
<1>2. s.commitments \o tx.outputs \in Seq(Commitment)
  BY <1>1 DEF LedgerState
<1>3. Range(tx.inputs) \subseteq Nullifier
  BY <1>1 DEF Range
<1>4. tx.op = "mint" => [s.issued EXCEPT ![tx.asset] = @ + tx.amount]
                          \in [RegisteredAsset -> 0..MaxAmount]
  <2>1. SUFFICES ASSUME tx.op = "mint"
                 PROVE  [s.issued EXCEPT ![tx.asset] = @ + tx.amount]
                          \in [RegisteredAsset -> 0..MaxAmount]
    OBVIOUS
  <2>2. tx.asset \in RegisteredAsset /\ s.issued[tx.asset] + tx.amount <= MaxAmount
    BY <2>1 DEF PrepareTransition, ValidateMint, EnsureRegisteredAsset
  <2>3. s.issued \in [RegisteredAsset -> 0..MaxAmount] /\ MaxAmount \in Nat
    BY AmountAssumption DEF LedgerState
  <2>. QED
    BY <1>1, <2>2, <2>3
<1>. QED
  BY <1>1, <1>2, <1>3, <1>4 DEF CommitTransition, LedgerState

(* The elements of a concatenation. *)
LEMMA RangeOfConcatenation ==
  ASSUME NEW S, NEW s \in Seq(S), NEW t \in Seq(S)
  PROVE  Range(s) \subseteq Range(s \o t) /\ Range(t) \subseteq Range(s \o t)
<1>1. s \o t \in Seq(S) /\ Len(s \o t) = Len(s) + Len(t)
  OBVIOUS
<1>2. ASSUME NEW n \in 1..Len(s)
      PROVE  s[n] \in Range(s \o t)
  <2>1. n \in 1..Len(s \o t) /\ (s \o t)[n] = s[n]
    BY <1>1
  <2>. QED
    BY <1>1, <2>1 DEF Range
<1>3. ASSUME NEW n \in 1..Len(t)
      PROVE  t[n] \in Range(s \o t)
  <2>1. Len(s) + n \in 1..Len(s \o t) /\ (s \o t)[Len(s) + n] = t[n]
    BY <1>1
  <2>. QED
    BY <1>1, <2>1 DEF Range
<1>4. DOMAIN s = 1..Len(s) /\ DOMAIN t = 1..Len(t)
  OBVIOUS
<1>5. Range(s) \subseteq Range(s \o t)
  <2>1. ASSUME NEW e \in Range(s)
        PROVE  \E n \in 1..Len(s) : e = s[n]
    BY <1>4 DEF Range
  <2>. QED
    BY <1>2, <2>1
<1>6. Range(t) \subseteq Range(s \o t)
  <2>1. ASSUME NEW e \in Range(t)
        PROVE  \E n \in 1..Len(t) : e = t[n]
    BY <1>4 DEF Range
  <2>. QED
    BY <1>3, <2>1
<1>. QED
  BY <1>5, <1>6

(* A transition is remembered, and forgets nothing. *)
LEMMA TransitionRemembers ==
  ASSUME NEW s \in LedgerState, NEW tx \in Transaction
  PROVE  /\ Remembers(CommitTransition(s, tx), tx)
         /\ \A old : Remembers(s, old) => Remembers(CommitTransition(s, tx), old)
<1>1. s.commitments \in Seq(Commitment) /\ tx.outputs \in Seq(Commitment)
  BY TransactionAssumption DEF LedgerState
<1>2. /\ Range(s.commitments) \subseteq Range(s.commitments \o tx.outputs)
      /\ Range(tx.outputs) \subseteq Range(s.commitments \o tx.outputs)
  BY <1>1, RangeOfConcatenation
<1>. QED
  BY <1>2 DEF Remembers, CommitTransition

(* A transaction that validates repeats nothing that the state remembers. *)
LEMMA NothingRepeated ==
  ASSUME NEW s, NEW tx, NEW old, PrepareTransition(s, tx), Remembers(s, old)
  PROVE  /\ old.id # tx.id
         /\ Range(old.outputs) \cap Range(tx.outputs) = {}
         /\ old.op = "transfer" /\ tx.op = "transfer" =>
              Range(old.inputs) \cap Range(tx.inputs) = {}
  BY Zenon DEF Remembers, PrepareTransition, ValidateTransfer, ValidateMint,
         EnsureNewTransaction, EnsureNewCommitments, EnsureUniqueNullifiers

-----------------------------------------------------------------------------
(***************************************************************************)
(* The initial state, and steps that keep the log.                         *)
(***************************************************************************)
(* An empty log and a closed ledger satisfy the invariant. *)
LEMMA InitInv == Init => RecordInv
<1>. SUFFICES ASSUME Init PROVE RecordInv
  OBVIOUS
<1>1. RecordTypeOK
  <2>1. GenesisChain \in [sequence : 0..Len(records), id : LedgerState]
    BY EmptyTyped DEF Init, GenesisChain
  <2>2. records \in Seq(Records) /\ Len(records) = 0
    BY DEF Init
  <2>3. synced \in 0..Len(records)
    BY <2>2 DEF Init
  <2>4. /\ checkpoints = {} /\ anchored = {} /\ acked = {} /\ tail = "none" /\ phase = "closed"
        /\ appending = None /\ terminal = None /\ chain = GenesisChain /\ state = EmptyLedger
        /\ recovered = 0 /\ faults = 0 /\ writable = FALSE
    BY DEF Init
  <2>. QED
    BY Zenon, <2>1, <2>2, <2>3, <2>4, EmptyTyped DEF RecordTypeOK
<1>. QED
  BY <1>1 DEF Init, RecordInv, LogIsChain, LogRemembers, MemoryIsReplay, RecoveredInPrefix,
              RecoveredIsReplayed, AcknowledgedRecordsSurvive, StateAfter, GenesisChain

(* Properties of the log itself depend on the log only. *)
LEMMA LogFrame ==
  ASSUME LogIsChain, LogRemembers, records' = records
  PROVE  LogIsChain' /\ LogRemembers'
  BY DEF LogIsChain, LogRemembers, StateAfter

(* A closed ledger has nothing in memory. *)
LEMMA ForgetsMemory ==
  ASSUME Forgets
  PROVE  MemoryIsReplay' /\ RecoveredInPrefix' /\ RecoveredIsReplayed'
  BY DEF Forgets, MemoryIsReplay, RecoveredInPrefix, RecoveredIsReplayed, StateAfter,
         GenesisChain

(* Opening starts a replay of the records found. *)
LEMMA BeginOpenInv == RecordInv /\ BeginOpen => RecordInv'
<1>. SUFFICES ASSUME RecordInv, BeginOpen PROVE RecordInv'
  OBVIOUS
<1>. USE DEF BeginOpen, diskVars, memoryVars
<1>1. RecordTypeOK'
  BY DEF RecordInv, RecordTypeOK
<1>2. LogIsChain' /\ LogRemembers'
  BY LogFrame DEF RecordInv
<1>3. MemoryIsReplay' /\ RecoveredInPrefix' /\ RecoveredIsReplayed'
  BY DEF RecordInv, MemoryIsReplay, RecoveredInPrefix, RecoveredIsReplayed, StateAfter
<1>4. AcknowledgedRecordsSurvive'
  BY DEF RecordInv, AcknowledgedRecordsSurvive
<1>. QED
  BY <1>1, <1>2, <1>3, <1>4 DEF RecordInv

(* One more record is replayed, with or without its checkpoint. *)
LEMMA ReplayRecordInv == RecordInv /\ ReplayRecord => RecordInv'
<1>. SUFFICES ASSUME RecordInv, ReplayRecord PROVE RecordInv'
  OBVIOUS
<1>. DEFINE k == chain.sequence + 1
            candidate == {c \in checkpoints :
                            Verifies(c, records[k], CommitTransition(state, records[k].tx))}
<1>1. k \in 1..Len(records) /\ records[k] \in Records /\ records[k].sequence = k
  BY DEF RecordInv, RecordTypeOK, LogIsChain, ReplayRecord
<1>2. records[k].result \in LedgerState
  BY <1>1 DEF Records
<1>3. /\ phase = "replaying" /\ phase' = "replaying"
      /\ chain' = [sequence |-> k, id |-> records[k].result]
      /\ terminal' = records[k]
      /\ recovered' = IF candidate = {} THEN recovered ELSE k
      /\ UNCHANGED <<records, synced, tail, checkpoints, anchored, appending, writable, acked, faults>>
  BY <1>1 DEF ReplayRecord, diskVars
<1>4. state' = records[k].result
  BY DEF ReplayRecord, Verifies
<1>5. RecordTypeOK'
  BY <1>1, <1>2, <1>3, <1>4 DEF RecordInv, RecordTypeOK
<1>6. LogIsChain' /\ LogRemembers'
  BY <1>3, LogFrame DEF RecordInv
<1>7. MemoryIsReplay'
  BY <1>1, <1>3, <1>4 DEF RecordInv, MemoryIsReplay, StateAfter
<1>8. RecoveredInPrefix'
  BY <1>1, <1>3 DEF RecordInv, RecordTypeOK, RecoveredInPrefix
<1>9. RecoveredIsReplayed'
  <2>1. CASE candidate = {}
    BY <1>3, <2>1 DEF RecordInv, RecoveredIsReplayed
  <2>2. CASE candidate # {}
    <3>1. PICK c \in checkpoints :
            c.sequence = k /\ c.record = records[k] /\ c.snapshot = records[k].result
      BY <1>1, <2>2 DEF Verifies
    <3>. QED
      BY <1>3, <2>2, <3>1 DEF RecoveredIsReplayed
  <2>. QED
    BY <2>1, <2>2
<1>10. AcknowledgedRecordsSurvive'
  BY <1>3 DEF RecordInv, AcknowledgedRecordsSurvive
<1>. QED
  BY <1>5, <1>6, <1>7, <1>8, <1>9, <1>10 DEF RecordInv

(* An ended process leaves the files as they are, or a shorter tail. *)
LEMMA ProcessEndsInv ==
  ASSUME RecordInv, Forgets, UNCHANGED <<records, synced, checkpoints, anchored, acked>>,
         tail' \in {"none", "partial", "corrupt"}, faults' \in Nat
  PROVE  RecordInv'
<1>1. RecordTypeOK'
  <2>1. GenesisChain \in [sequence : 0..Len(records), id : LedgerState]
    BY EmptyTyped DEF RecordInv, RecordTypeOK, GenesisChain
  <2>. QED
    BY Zenon, <2>1, EmptyTyped DEF RecordInv, RecordTypeOK, Forgets
<1>2. LogIsChain' /\ LogRemembers'
  BY LogFrame DEF RecordInv
<1>3. AcknowledgedRecordsSurvive'
  BY DEF RecordInv, AcknowledgedRecordsSurvive
<1>. QED
  BY <1>1, <1>2, <1>3, ForgetsMemory DEF RecordInv

(* The end of a replay: the partial tail is cut and writes are accepted. *)
LEMMA FinishOpenInv == RecordInv /\ FinishOpen => RecordInv'
<1>. SUFFICES ASSUME RecordInv, FinishOpen PROVE RecordInv'
  OBVIOUS
<1>1. /\ tail' = "none" /\ records' = records
      /\ synced' \in 0..Len(records) /\ synced <= synced'
  BY DEF RecordInv, RecordTypeOK, FinishOpen, TruncateTail
<1>2. /\ phase = "replaying" /\ phase' = "open" /\ writable' = TRUE
      /\ chain.sequence = Len(records)
      /\ UNCHANGED <<checkpoints, anchored, appending, state, chain, terminal, recovered, acked, faults>>
  BY DEF FinishOpen
<1>3. RecordTypeOK'
  BY <1>1, <1>2 DEF RecordInv, RecordTypeOK
<1>4. LogIsChain' /\ LogRemembers'
  BY <1>1, LogFrame DEF RecordInv
<1>5. MemoryIsReplay' /\ RecoveredInPrefix' /\ RecoveredIsReplayed'
  BY <1>1, <1>2 DEF RecordInv, MemoryIsReplay, RecoveredInPrefix, RecoveredIsReplayed, StateAfter
<1>6. AcknowledgedRecordsSurvive'
  BY <1>1, <1>2 DEF RecordInv, RecordTypeOK, AcknowledgedRecordsSurvive, Records
<1>. QED
  BY <1>3, <1>4, <1>5, <1>6 DEF RecordInv

-----------------------------------------------------------------------------
(***************************************************************************)
(* apply.                                                                  *)
(***************************************************************************)
(* What Append does to a log. *)
LEMMA AppendFacts ==
  ASSUME NEW S, NEW log \in Seq(S), NEW r \in S
  PROVE  /\ Append(log, r) \in Seq(S)
         /\ Len(Append(log, r)) = Len(log) + 1
         /\ Append(log, r)[Len(log) + 1] = r
         /\ \A n \in 1..Len(log) : Append(log, r)[n] = log[n]
  OBVIOUS

(* A record on top of the whole log extends the chain and its memory. *)
LEMMA ApplyWritesInv ==
  ASSUME RecordInv, NEW tx \in Transaction, ApplyWrites(tx)
  PROVE  RecordInv'
<1>. DEFINE r == NewRecord(tx)
<1>0. PICK k \in Nat \ {0} : k = Len(records) + 1
  <2>1. Len(records) + 1 \in Nat \ {0}
    BY DEF RecordInv, RecordTypeOK
  <2>. QED
    BY <2>1
<1>1. /\ phase = "open" /\ writable /\ tail = "none" /\ PrepareTransition(state, tx)
      /\ state \in LedgerState /\ chain.id = state /\ chain.sequence = Len(records)
      /\ state = StateAfter(Len(records))
      /\ records \in Seq(Records) /\ Len(records) \in Nat
  BY DEF RecordInv, RecordTypeOK, MemoryIsReplay, ApplyWrites, Admits
<1>2. CommitTransition(state, tx) \in LedgerState
  BY <1>1, TransitionTyped
<1>3. /\ r \in Records /\ r.sequence = k /\ r.previous = state /\ r.tx = tx
      /\ r.result = CommitTransition(state, tx)
  BY <1>0, <1>1, <1>2 DEF NewRecord, Record, Records
<1>4. /\ records' = Append(records, r) /\ tail' = "none"
      /\ phase' = "written" /\ appending' = r
      /\ UNCHANGED <<synced, checkpoints, anchored, state, chain, terminal, recovered, writable, acked, faults>>
  BY <1>1 DEF ApplyWrites, WriteFrame, memoryVars
<1>5. /\ records' \in Seq(Records) /\ Len(records') = k /\ records'[k] = r
      /\ \A n \in 1..Len(records) : records'[n] = records[n]
  BY <1>0, <1>1, <1>3, <1>4, AppendFacts
<1>6. RecordTypeOK'
  BY <1>0, <1>1, <1>3, <1>4, <1>5 DEF RecordInv, RecordTypeOK
<1>7. \A n \in 0..Len(records) : StateAfter(n)' = StateAfter(n)
  BY <1>1, <1>5 DEF StateAfter
<1>8. LogIsChain'
  <2>1. ASSUME NEW n \in 1..Len(records)
        PROVE  /\ records'[n].sequence = n
               /\ records'[n].previous = StateAfter(n - 1)'
               /\ PrepareTransition(records'[n].previous, records'[n].tx)
               /\ records'[n].result = CommitTransition(records'[n].previous, records'[n].tx)
    <3>1. records'[n] = records[n] /\ StateAfter(n - 1)' = StateAfter(n - 1)
      BY <1>1, <1>5, <1>7
    <3>. QED
      BY <3>1 DEF RecordInv, LogIsChain
  <2>2. /\ records'[k].sequence = k
        /\ records'[k].previous = StateAfter(k - 1)'
        /\ PrepareTransition(records'[k].previous, records'[k].tx)
        /\ records'[k].result = CommitTransition(records'[k].previous, records'[k].tx)
    <3>1. k - 1 \in 0..Len(records) /\ k - 1 = Len(records)
      BY <1>0, <1>1
    <3>2. StateAfter(k - 1)' = state
      BY <1>1, <1>7, <3>1
    <3>. QED
      BY <1>1, <1>3, <1>5, <3>2
  <2>3. \A n \in 1..Len(records') : n \in 1..Len(records) \/ n = k
    BY <1>0, <1>1, <1>5
  <2>. QED
    BY <2>1, <2>2, <2>3 DEF LogIsChain
<1>9. LogRemembers'
  <2>1. ASSUME NEW m \in 1..Len(records)
        PROVE  Remembers(state, records[m].tx)
    <3>1. Len(records) # 0 /\ state = records[Len(records)].result
      BY <1>1 DEF StateAfter
    <3>. QED
      BY <1>1, <3>1 DEF RecordInv, LogRemembers
  <2>2. ASSUME NEW m \in 1..k
        PROVE  Remembers(r.result, records'[m].tx)
    <3>1. CASE m = k
      BY <1>1, <1>3, <1>5, <3>1, TransitionRemembers
    <3>2. CASE m # k
      <4>1. m \in 1..Len(records) /\ records'[m] = records[m]
        BY <1>0, <1>1, <1>5, <3>2
      <4>. QED
        BY <1>1, <1>3, <2>1, <4>1, TransitionRemembers
    <3>. QED
      BY <3>1, <3>2
  <2>3. ASSUME NEW n \in 1..Len(records), NEW m \in 1..n
        PROVE  Remembers(records'[n].result, records'[m].tx)
    <3>1. m \in 1..Len(records)
      BY <1>1
    <3>2. records'[n] = records[n] /\ records'[m] = records[m]
      BY <1>5, <3>1
    <3>. QED
      BY <3>2 DEF RecordInv, LogRemembers
  <2>. QED
    BY <1>0, <1>1, <1>3, <1>5, <2>2, <2>3 DEF LogRemembers
<1>10. MemoryIsReplay'
  <2>1. chain.sequence # 0 => records'[chain.sequence] = records[chain.sequence]
    BY <1>1, <1>5
  <2>2. StateAfter(chain.sequence)' = state
    BY <1>1, <1>4, <1>7
  <2>. QED
    BY <1>0, <1>1, <1>4, <1>5, <2>1, <2>2 DEF RecordInv, MemoryIsReplay, StateAfter
<1>11. RecoveredInPrefix' /\ RecoveredIsReplayed'
  <2>1. recovered > 0 => records'[recovered] = records[recovered]
    BY <1>1, <1>5 DEF RecordInv, RecordTypeOK, RecoveredInPrefix
  <2>. QED
    BY Zenon, <1>1, <1>4, <2>1 DEF RecordInv, RecoveredInPrefix, RecoveredIsReplayed
<1>12. AcknowledgedRecordsSurvive'
  <2>1. \A n \in 1..synced : records'[n] = records[n]
    BY <1>1, <1>5 DEF RecordInv, RecordTypeOK
  <2>. QED
    BY Zenon, <1>4, <2>1 DEF RecordInv, AcknowledgedRecordsSurvive
<1>. QED
  BY <1>6, <1>8, <1>9, <1>10, <1>11, <1>12 DEF RecordInv

(* A successful sync publishes and acknowledges the record. *)
LEMMA ApplySyncsInv == RecordInv /\ ApplySyncs => RecordInv'
<1>. SUFFICES ASSUME RecordInv, ApplySyncs PROVE RecordInv'
  OBVIOUS
<1>. DEFINE k == Len(records)
<1>1. /\ phase = "written" /\ tail = "none" /\ writable = TRUE
      /\ k \in 1..Len(records) /\ k \in Nat
      /\ chain.sequence + 1 = k /\ appending = records[k]
  BY DEF RecordInv, RecordTypeOK, MemoryIsReplay, ApplySyncs
<1>2. appending \in Records /\ appending.sequence = k /\ appending.result \in LedgerState
  <2>1. records[k] \in Records
    BY <1>1 DEF RecordInv, RecordTypeOK
  <2>2. records[k].sequence = k
    BY <1>1 DEF RecordInv, LogIsChain
  <2>. QED
    BY <1>1, <2>1, <2>2 DEF Records
<1>3. /\ synced' = k /\ phase' = "open" /\ appending' = None
      /\ state' = appending.result /\ terminal' = appending
      /\ chain' = [sequence |-> k, id |-> appending.result]
      /\ acked' = acked \cup {appending}
      /\ UNCHANGED <<records, tail, checkpoints, anchored, recovered, writable, faults>>
  BY <1>2 DEF ApplySyncs, Publish
<1>4. RecordTypeOK'
  BY <1>1, <1>2, <1>3 DEF RecordInv, RecordTypeOK
<1>5. LogIsChain' /\ LogRemembers'
  BY <1>3, LogFrame DEF RecordInv
<1>6. MemoryIsReplay'
  BY <1>1, <1>3 DEF MemoryIsReplay, StateAfter
<1>7. RecoveredInPrefix' /\ RecoveredIsReplayed'
  BY <1>1, <1>3 DEF RecordInv, RecordTypeOK, RecoveredInPrefix, RecoveredIsReplayed
<1>8. AcknowledgedRecordsSurvive'
  BY <1>1, <1>2, <1>3 DEF RecordInv, RecordTypeOK, AcknowledgedRecordsSurvive
<1>. QED
  BY <1>4, <1>5, <1>6, <1>7, <1>8 DEF RecordInv

(* A failed append refuses every later write, whatever is in the file. *)
LEMMA RefusesInv ==
  ASSUME RecordInv, phase \in {"open", "written"}, phase' = "open", writable' = FALSE,
         tail' \in {"none", "partial", "corrupt"}, appending' = None \/ appending' = appending,
         faults' \in Nat,
         UNCHANGED <<records, synced, checkpoints, anchored, state, chain, terminal, recovered, acked>>
  PROVE  RecordInv'
<1>1. RecordTypeOK'
  BY Zenon DEF RecordInv, RecordTypeOK
<1>2. LogIsChain' /\ LogRemembers'
  BY LogFrame DEF RecordInv
<1>3. MemoryIsReplay' /\ RecoveredInPrefix' /\ RecoveredIsReplayed'
  BY DEF RecordInv, MemoryIsReplay, RecoveredInPrefix, RecoveredIsReplayed, StateAfter
<1>4. AcknowledgedRecordsSurvive'
  BY DEF RecordInv, AcknowledgedRecordsSurvive
<1>. QED
  BY <1>1, <1>2, <1>3, <1>4 DEF RecordInv

-----------------------------------------------------------------------------
(***************************************************************************)
(* Checkpoints and power losses.                                           *)
(***************************************************************************)
(* A new checkpoint is one of the replayed state. *)
LEMMA PublishCheckpointInv == RecordInv /\ PublishCheckpoint => RecordInv'
<1>. SUFFICES ASSUME RecordInv, PublishCheckpoint PROVE RecordInv'
  OBVIOUS
<1>. USE DEF PublishCheckpoint, memoryVars
<1>1. Snapshot \in Checkpoints
  BY DEF RecordInv, RecordTypeOK, Snapshot, Checkpoint, Checkpoints
<1>2. RecordTypeOK'
  BY <1>1 DEF RecordInv, RecordTypeOK
<1>3. LogIsChain' /\ LogRemembers'
  BY LogFrame DEF RecordInv
<1>4. MemoryIsReplay' /\ RecoveredInPrefix' /\ RecoveredIsReplayed'
  BY DEF RecordInv, MemoryIsReplay, RecoveredInPrefix, RecoveredIsReplayed, StateAfter
<1>5. AcknowledgedRecordsSurvive'
  BY DEF RecordInv, AcknowledgedRecordsSurvive
<1>. QED
  BY <1>2, <1>3, <1>4, <1>5 DEF RecordInv

(* The directory of the checkpoints reaches the device. *)
LEMMA AnchorCheckpointsInv == RecordInv /\ AnchorCheckpoints => RecordInv'
<1>. SUFFICES ASSUME RecordInv, AnchorCheckpoints PROVE RecordInv'
  OBVIOUS
<1>. USE DEF AnchorCheckpoints, memoryVars
<1>1. RecordTypeOK'
  BY DEF RecordInv, RecordTypeOK
<1>2. LogIsChain' /\ LogRemembers'
  BY LogFrame DEF RecordInv
<1>3. MemoryIsReplay' /\ RecoveredInPrefix' /\ RecoveredIsReplayed'
  BY DEF RecordInv, MemoryIsReplay, RecoveredInPrefix, RecoveredIsReplayed, StateAfter
<1>4. AcknowledgedRecordsSurvive'
  BY DEF RecordInv, AcknowledgedRecordsSurvive
<1>. QED
  BY <1>1, <1>2, <1>3, <1>4 DEF RecordInv

(* What a prefix of a log is. *)
LEMMA PrefixFacts ==
  ASSUME NEW S, NEW log \in Seq(S), NEW k \in 0..Len(log)
  PROVE  /\ SubSeq(log, 1, k) \in Seq(S)
         /\ Len(SubSeq(log, 1, k)) = k
         /\ \A n \in 1..k : SubSeq(log, 1, k)[n] = log[n]
  OBVIOUS

(* A power loss keeps a prefix with every synced record. *)
LEMMA PowerLossInv == RecordInv /\ PowerLoss => RecordInv'
<1>. SUFFICES ASSUME RecordInv, PowerLoss PROVE RecordInv'
  OBVIOUS
<1>1. PICK k \in synced..Len(records) : records' = SubSeq(records, 1, k)
  BY DEF PowerLoss
<1>2. k \in 0..Len(records) /\ records \in Seq(Records) /\ synced \in 0..k /\ k \in Nat
  BY <1>1 DEF RecordInv, RecordTypeOK
<1>3. /\ records' \in Seq(Records) /\ Len(records') = k
      /\ \A n \in 1..k : records'[n] = records[n]
  BY <1>1, <1>2, PrefixFacts
<1>4. /\ Forgets /\ synced' = synced /\ acked' = acked /\ faults' \in Nat
      /\ anchored' = checkpoints' /\ checkpoints' \subseteq checkpoints
      /\ tail' \in {"none", "partial", "corrupt"}
  <2>1. Forgets /\ synced' = synced /\ acked' = acked /\ faults' \in Nat
    BY DEF PowerLoss, Fault, RecordInv, RecordTypeOK
  <2>2. anchored' = checkpoints' /\ checkpoints' \subseteq checkpoints
    BY DEF PowerLoss, RecordInv, RecordTypeOK
  <2>3. tail' \in {"none", "partial", "corrupt"}
    BY DEF PowerLoss
  <2>. QED
    BY <2>1, <2>2, <2>3
<1>5. RecordTypeOK'
  <2>1. GenesisChain \in [sequence : 0..k, id : LedgerState]
    BY <1>2, EmptyTyped DEF GenesisChain
  <2>. QED
    BY Zenon, <1>2, <1>3, <1>4, <2>1, EmptyTyped DEF RecordInv, RecordTypeOK, Forgets
<1>6. LogIsChain'
  <2>1. \A n \in 0..k : StateAfter(n)' = StateAfter(n)
    BY <1>2, <1>3 DEF StateAfter
  <2>2. ASSUME NEW n \in 1..k
        PROVE  /\ n \in 1..Len(records) /\ records'[n] = records[n]
               /\ StateAfter(n - 1)' = StateAfter(n - 1)
    BY <1>2, <1>3, <2>1
  <2>. QED
    BY <1>3, <2>2 DEF RecordInv, LogIsChain
<1>7. LogRemembers'
  <2>1. ASSUME NEW n \in 1..k, NEW m \in 1..n
        PROVE  n \in 1..Len(records) /\ records'[n] = records[n] /\ records'[m] = records[m]
    BY <1>2, <1>3
  <2>. QED
    BY <1>3, <2>1 DEF RecordInv, LogRemembers
<1>8. AcknowledgedRecordsSurvive'
  BY <1>2, <1>3, <1>4 DEF RecordInv, AcknowledgedRecordsSurvive
<1>. QED
  BY <1>4, <1>5, <1>6, <1>7, <1>8, ForgetsMemory DEF RecordInv

-----------------------------------------------------------------------------
(***************************************************************************)
(* The theorems.                                                           *)
(***************************************************************************)
(* Every step keeps the invariant. *)
LEMMA NextInv == RecordInv /\ [Next]_vars => RecordInv'
<1>. SUFFICES ASSUME RecordInv, [Next]_vars PROVE RecordInv'
  OBVIOUS
<1>t. tail \in {"none", "partial", "corrupt"} /\ faults \in Nat /\ faults + 1 \in Nat
  BY DEF RecordInv, RecordTypeOK
<1>1. CASE OpenFails \/ TruncateFails \/ Close \/ Killed
  <2>1. /\ Forgets /\ UNCHANGED <<records, synced, checkpoints, anchored, acked>>
        /\ tail' \in {"none", "partial", "corrupt"} /\ faults' \in Nat
    BY <1>t, <1>1 DEF OpenFails, TruncateFails, Close, Killed, Fault, diskVars
  <2>. QED
    BY <2>1, ProcessEndsInv
<1>2. ASSUME NEW tx \in Transaction, ApplyWriteFails(tx)
      PROVE  RecordInv'
  <2>1. /\ phase = "open" /\ phase' = "open" /\ writable' = FALSE
        /\ tail' \in {"none", "partial", "corrupt"} /\ appending' = appending /\ faults' \in Nat
        /\ UNCHANGED <<records, synced, checkpoints, anchored, state, chain, terminal, recovered, acked>>
    BY <1>t, <1>2 DEF ApplyWriteFails, Admits, Fault, RefuseWrites
  <2>. QED
    BY Zenon, <2>1, RefusesInv
<1>3. CASE ApplySyncFails
  <2>1. /\ phase = "written" /\ phase' = "open" /\ writable' = FALSE
        /\ tail' \in {"none", "partial", "corrupt"} /\ appending' = None /\ faults' \in Nat
        /\ UNCHANGED <<records, synced, checkpoints, anchored, state, chain, terminal, recovered, acked>>
    BY <1>t, <1>3 DEF ApplySyncFails, Fault, RefuseWrites, diskVars
  <2>. QED
    BY Zenon, <2>1, RefusesInv
<1>4. CASE UNCHANGED vars
  BY Zenon, <1>4 DEF vars, diskVars, memoryVars, RecordInv, RecordTypeOK, LogIsChain, LogRemembers,
              MemoryIsReplay, RecoveredInPrefix, RecoveredIsReplayed,
              AcknowledgedRecordsSurvive, StateAfter
<1>. QED
  BY <1>1, <1>2, <1>3, <1>4, BeginOpenInv, ReplayRecordInv, FinishOpenInv, ApplyWritesInv,
     ApplySyncsInv, PublishCheckpointInv, AnchorCheckpointsInv, PowerLossInv DEF Next

(* The invariant holds in every reachable state of the record log. *)
THEOREM RecordInvariant == Spec => []RecordInv
<1>. QED
  BY InitInv, NextInv, PTL DEF Spec

(* An acknowledged record survives kills, power losses and recoveries. *)
THEOREM AcknowledgedRecordsNeverLost == Spec => []AcknowledgedRecordsSurvive
<1>1. RecordInv => AcknowledgedRecordsSurvive
  BY DEF RecordInv
<1>. QED
  BY <1>1, RecordInvariant, PTL

(* A ledger that accepts writes is what its log replays to. *)
THEOREM WritableIsReplay == Spec => []WritableMatchesLog
<1>1. RecordInv => WritableMatchesLog
  <2>. SUFFICES ASSUME RecordInv, phase = "open", writable PROVE WritableMatchesLog
    BY DEF WritableMatchesLog
  <2>1. tail = "none" /\ chain.sequence = Len(records) /\ chain.id = state
    BY DEF RecordInv, MemoryIsReplay
  <2>2. chain = [sequence |-> Len(records), id |-> state]
    BY <2>1 DEF RecordInv, RecordTypeOK
  <2>3. records = <<>> <=> Len(records) = 0
    BY DEF RecordInv, RecordTypeOK
  <2>. QED
    BY <2>1, <2>2, <2>3 DEF RecordInv, MemoryIsReplay, WritableMatchesLog, StateAfter
<1>. QED
  BY <1>1, RecordInvariant, PTL

(* No record of the log repeats an identifier, a commitment or a           *)
(* nullifier of an earlier one.                                            *)
THEOREM NoDoubleSpend == Spec => []LogSpendsOnce
<1>1. RecordInv => LogSpendsOnce
  <2>. SUFFICES ASSUME RecordInv, NEW n \in 1..Len(records), NEW m \in 1..(n - 1)
                PROVE  /\ records[m].tx.id # records[n].tx.id
                       /\ Range(records[m].tx.outputs) \cap Range(records[n].tx.outputs) = {}
                       /\ records[m].tx.op = "transfer" /\ records[n].tx.op = "transfer" =>
                            Range(records[m].tx.inputs) \cap Range(records[n].tx.inputs) = {}
    BY Zenon DEF LogSpendsOnce
  <2>1. n - 1 \in 1..Len(records) /\ n - 1 # 0 /\ m \in 1..(n - 1)
    BY DEF RecordInv, RecordTypeOK
  <2>2. Remembers(records[n - 1].result, records[m].tx)
    BY <2>1 DEF RecordInv, LogRemembers
  <2>3. /\ records[n].previous = records[n - 1].result
        /\ PrepareTransition(records[n].previous, records[n].tx)
    BY <2>1 DEF RecordInv, LogIsChain, StateAfter
  <2>. QED
    BY Zenon, <2>2, <2>3, NothingRepeated
<1>. QED
  BY <1>1, RecordInvariant, PTL

(* The checkpoint a recovery reports belongs to the replayed history. *)
THEOREM RecoveredCheckpointFits == Spec => []RecoveredIsReplayed
<1>1. RecordInv => RecoveredIsReplayed
  BY DEF RecordInv
<1>. QED
  BY <1>1, RecordInvariant, PTL
=============================================================================
