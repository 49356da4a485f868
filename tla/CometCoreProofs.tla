-------------------------- MODULE CometCoreProofs ---------------------------
(***************************************************************************)
(* The safety of CometCore for every value of its constants: the initial   *)
(* states satisfy IInv, every step of the journal, the engine's requests,  *)
(* the network and the faults keeps it, and it implies the properties the  *)
(* runs check and the refinement of DurableChain.                          *)
(***************************************************************************)
EXTENDS CometCore, TLAPS

(***************************************************************************)
(* Sequences whose elements have no common type: all that is used of them. *)
(***************************************************************************)

(* Every sequence over some set is one over its own elements. *)
LEMMA SeqOverRange ==
  ASSUME NEW S, NEW s \in Seq(S)
  PROVE  IsSeq(s) /\ Len(s) \in Nat /\ DOMAIN s = 1..Len(s)
BY DEF IsSeq, Range

(* Append adds one element at the end and keeps the others. *)
LEMMA AppendFacts ==
  ASSUME NEW s, IsSeq(s), NEW x
  PROVE  /\ IsSeq(Append(s, x))
         /\ Len(Append(s, x)) = Len(s) + 1
         /\ \A n \in 1..Len(s) : Append(s, x)[n] = s[n]
         /\ Append(s, x)[Len(s) + 1] = x
<1> DEFINE S == Range(s) \cup {x}
<1>1. s \in Seq(S)
  BY DEF IsSeq
<1>2. Append(s, x) \in Seq(S)
  BY <1>1
<1>3. IsSeq(Append(s, x))
  BY <1>2, SeqOverRange, Zenon
<1>4. QED
  BY <1>1, <1>3

(* SubSeq keeps the elements of a prefix. *)
LEMMA PrefixFacts ==
  ASSUME NEW s, IsSeq(s), NEW n \in 0..Len(s)
  PROVE  /\ IsSeq(SubSeq(s, 1, n))
         /\ Len(SubSeq(s, 1, n)) = n
         /\ \A i \in 1..n : SubSeq(s, 1, n)[i] = s[i]
<1>1. s \in Seq(Range(s)) /\ Len(s) \in Nat
  BY DEF IsSeq
<1>2. SubSeq(s, 1, n) \in Seq(Range(s))
  BY <1>1
<1>3. IsSeq(SubSeq(s, 1, n))
  BY <1>2, SeqOverRange, Zenon
<1>4. QED
  BY <1>1, <1>3

(***************************************************************************)
(* Facts about the execution, and what survives a step that does not touch *)
(* the variables of a conjunct.                                            *)
(***************************************************************************)

(* Executing a block moves one height up. *)
LEMMA ExecuteBlockHeight ==
  \A base, block : ExecuteBlock(base, block).height = base.height + 1
BY DEF ExecuteBlock

(* The block decided after a validator's tip executes from that tip. *)
LEMMA NextDecided ==
  ASSUME TypeOK, NetworkHistory, TipInJournal, tip.height < Len(chain)
  PROVE  /\ Executes(tip, chain[tip.height + 1])
         /\ ExecuteBlock(tip, chain[tip.height + 1]) = network[tip.height + 2]
         /\ network[tip.height + 2].height = tip.height + 1
<1> DEFINE h == tip.height + 1
<1>1. h \in 1..Len(chain) /\ h + 1 \in 1..Len(network)
  BY DEF TypeOK, NetworkHistory, IsSeq
<1>2. h + 1 = tip.height + 2 /\ h + 1 - 1 = tip.height + 1
  BY DEF TypeOK
<1>3. tip = network[h]
  BY DEF TipInJournal
<1> HIDE DEF h
<1>4. Executes(network[h], chain[h]) /\ network[h + 1] = ExecuteBlock(network[h], chain[h])
  BY <1>1 DEF NetworkHistory
<1>5. network[h + 1].height = h + 1 - 1
  BY <1>1 DEF NetworkHistory
<1>6. QED
  BY <1>2, <1>3, <1>4, <1>5 DEF h

(* How far the journal, the decided chain and the tip are from each other. *)
LEMMA Lengths ==
  ASSUME IInv
  PROVE  /\ Len(frames) \in Nat /\ Len(chain) \in Nat /\ tip.height \in Nat
         /\ Len(network) = Len(chain) + 1
         /\ Len(frames) <= Len(chain) /\ tip.height <= Len(frames)
<1>1. Len(chain) \in Nat
  BY DEF IInv, NetworkHistory, IsSeq
<1>2. Len(frames) \in Nat
  BY DEF IInv, IsSeq
<1>3. Len(network) = Len(chain) + 1 /\ Len(frames) <= Len(chain)
  BY DEF IInv, NetworkHistory, JournalIsDecidedChain
<1>4. tip.height \in 0..Len(frames)
  BY DEF IInv, TipInJournal
<1>5. QED
  BY <1>1, <1>2, <1>3, <1>4

(* What IInv says of the network, in a step that leaves it alone. *)
LEMMA FrameNetwork ==
  NetworkHistory /\ UNCHANGED <<chain, network>> => NetworkHistory'
BY DEF NetworkHistory, IsSeq, Range

(* What IInv says of the journal, in a step that leaves it alone. *)
LEMMA FrameJournal ==
  /\ IsSeq(frames) /\ JournalIsDecidedChain
  /\ UNCHANGED <<frames, chain, network>>
  => IsSeq(frames)' /\ JournalIsDecidedChain'
BY DEF JournalIsDecidedChain, IsSeq, Range

(* What IInv says of acknowledged blocks, in a step that leaves them       *)
(* alone.                                                                  *)
LEMMA FrameAcknowledged ==
  AcknowledgedIsDurable /\ UNCHANGED <<acked, synced, entry>>
  => AcknowledgedIsDurable'
BY DEF AcknowledgedIsDurable, DurableCount

(* What IInv says of what the engine was told, in a step that leaves it    *)
(* alone.                                                                  *)
LEMMA FrameTold ==
  AppHashAgreement /\ UNCHANGED <<told, network>> => AppHashAgreement'
BY DEF AppHashAgreement

(***************************************************************************)
(* IInv holds initially.                                                   *)
(***************************************************************************)
LEMMA InitIInv == Init => IInv
<1> SUFFICES ASSUME Init PROVE IInv
  OBVIOUS
<1> USE DEF Init, JournalInit, ExecutionInit
<1>1. TypeOK
  <2>1. entry \in BOOLEAN /\ writes \in BOOLEAN
    BY Zenon
  <2>2. tip.height = 0 /\ append.phase = "idle" /\ 0 \in 0..MaxFaults
    BY BoundAssumption DEF GenesisTip, NoAppend
  <2>3. QED
    BY <2>1, <2>2 DEF TypeOK
<1>2. IsSeq(chain) /\ IsSeq(frames) /\ IsSeq(network)
  BY DEF IsSeq, Range
<1>3. NetworkHistory
  BY <1>2 DEF NetworkHistory, GenesisTip
<1>4. JournalIsDecidedChain /\ AcknowledgedIsDurable /\ AppHashAgreement
  BY DEF JournalIsDecidedChain, AcknowledgedIsDurable, AppHashAgreement, DurableCount
<1>5. TipInJournal
  BY DEF TipInJournal, Idle, GenesisTip
<1>6. AppendInOrder /\ CoreInStep
  BY DEF AppendInOrder, CoreInStep, NoAppend
<1>7. QED
  BY <1>1, <1>2, <1>3, <1>4, <1>5, <1>6 DEF IInv

(***************************************************************************)
(* Recovery.                                                               *)
(***************************************************************************)

(* Opening the journal starts again from the genesis tip. *)
LEMMA OpenIInv == IInv /\ OpenJournal => IInv'
<1> SUFFICES ASSUME IInv, OpenJournal PROVE IInv'
  OBVIOUS
<1> USE DEF IInv, OpenJournal, Open, journalVars, coreVars, engineVars
<1>1. NetworkHistory' /\ IsSeq(frames)' /\ JournalIsDecidedChain'
  BY FrameNetwork, FrameJournal
<1>2. AcknowledgedIsDurable' /\ AppHashAgreement'
  BY FrameAcknowledged, FrameTold
<1>3. TypeOK'
  BY DEF TypeOK, GenesisTip
<1>4. TipInJournal'
  BY DEF TypeOK, NetworkHistory, TipInJournal, Idle, GenesisTip, IsSeq
<1>5. AppendInOrder' /\ CoreInStep'
  BY DEF AppendInOrder, CoreInStep, IsNextDecided
<1>6. QED
  BY <1>1, <1>2, <1>3, <1>4, <1>5

(* A replayed frame holds the block and the result of the next height. *)
LEMMA ReplayIInv == IInv /\ Replay => IInv'
<1> SUFFICES ASSUME IInv, Replay PROVE IInv'
  OBVIOUS
<1> USE DEF IInv, Replay, ReplayFrame, journalVars, coreVars, engineVars
<1>1. NetworkHistory' /\ IsSeq(frames)' /\ JournalIsDecidedChain'
  BY FrameNetwork, FrameJournal
<1>2. AcknowledgedIsDurable' /\ AppHashAgreement'
  BY FrameAcknowledged, FrameTold
<1>3. tip.height < Len(chain) /\ Len(frames) \in Nat /\ tip.height + 1 \in 1..Len(frames)
  BY DEF TypeOK, NetworkHistory, JournalIsDecidedChain, IsSeq
<1>4. tip' = network[tip.height + 2] /\ tip'.height = tip.height + 1
  <2>1. tip' = network[tip.height + 1 + 1]
    BY <1>3 DEF JournalIsDecidedChain
  <2>2. tip.height + 1 + 1 = tip.height + 2
    BY DEF TypeOK
  <2>3. QED
    BY <1>3, <2>1, <2>2, NextDecided
<1>5. TypeOK'
  BY <1>4 DEF TypeOK
<1>6. TipInJournal'
  BY <1>3, <1>4 DEF TypeOK, TipInJournal, Idle
<1>7. AppendInOrder' /\ CoreInStep'
  BY <1>4 DEF AppendInOrder, CoreInStep
<1>8. QED
  BY <1>1, <1>2, <1>5, <1>6, <1>7

(* An open that fails leaves the file alone. *)
LEMMA RefuseIInv == IInv /\ RefuseJournal => IInv'
<1> SUFFICES ASSUME IInv, RefuseJournal PROVE IInv'
  OBVIOUS
<1> USE DEF IInv, RefuseJournal, OpenRefused, journalVars, coreVars, engineVars
<1>1. NetworkHistory' /\ IsSeq(frames)' /\ JournalIsDecidedChain'
  BY FrameNetwork, FrameJournal
<1>2. AcknowledgedIsDurable' /\ AppHashAgreement'
  BY FrameAcknowledged, FrameTold
<1>3. TypeOK'
  BY DEF TypeOK, GenesisTip
<1>4. TipInJournal'
  BY DEF TypeOK, NetworkHistory, TipInJournal, Idle, GenesisTip, IsSeq
<1>5. AppendInOrder' /\ CoreInStep'
  BY DEF AppendInOrder, CoreInStep, GenesisTip
<1>6. QED
  BY <1>1, <1>2, <1>3, <1>4, <1>5

(* A sync of complete frames can only make more of them durable. *)
LEMMA SyncKeepsAcknowledged ==
  ASSUME TypeOK, IsSeq(frames), AcknowledgedIsDurable, UNCHANGED <<acked, entry>>,
         synced' = synced \/ synced' = Len(frames)
  PROVE  AcknowledgedIsDurable'
BY DEF TypeOK, IsSeq, AcknowledgedIsDurable, DurableCount

(* A truncation that fails ends the open. *)
LEMMA TruncationFailsIInv == IInv /\ TruncationFails => IInv'
<1> SUFFICES ASSUME IInv, TruncationFails PROVE IInv'
  OBVIOUS
<1> USE DEF IInv, TruncationFails, OpenTailFails, TruncateTailFails, coreVars, engineVars
<1>1. NetworkHistory' /\ IsSeq(frames)' /\ JournalIsDecidedChain'
  BY FrameNetwork, FrameJournal
<1>2. AcknowledgedIsDurable' /\ AppHashAgreement'
  BY SyncKeepsAcknowledged, FrameTold
<1>3. TypeOK'
  BY BoundAssumption DEF TypeOK, IsSeq, GenesisTip
<1>4. TipInJournal'
  BY DEF TypeOK, NetworkHistory, TipInJournal, Idle, GenesisTip, IsSeq
<1>5. AppendInOrder' /\ CoreInStep'
  BY DEF AppendInOrder, CoreInStep, GenesisTip
<1>6. QED
  BY <1>1, <1>2, <1>3, <1>4, <1>5

(* A core starts from a tip that is the end of a journal without a tail. *)
LEMMA StartCoreIInv == IInv /\ StartCore => IInv'
<1> SUFFICES ASSUME IInv, StartCore PROVE IInv'
  OBVIOUS
<1> USE DEF IInv, StartCore, OpenSucceeds, TruncateTail, journalVars, engineVars
<1>1. NetworkHistory' /\ IsSeq(frames)' /\ JournalIsDecidedChain'
  BY FrameNetwork, FrameJournal
<1>2. AcknowledgedIsDurable' /\ AppHashAgreement'
  BY SyncKeepsAcknowledged, FrameTold
<1>3. TypeOK'
  BY DEF TypeOK, IsSeq
<1>4. TipInJournal'
  BY DEF TipInJournal, Idle
<1>5. AppendInOrder' /\ CoreInStep'
  BY DEF TypeOK, AppendInOrder, CoreInStep
<1>6. QED
  BY <1>1, <1>2, <1>3, <1>4, <1>5

(***************************************************************************)
(* The requests of the engine, and the append a Commit makes, keep IInv.   *)
(***************************************************************************)
(***************************************************************************)
(* The requests, none of which touches the journal.                        *)
(***************************************************************************)
LEMMA InfoIInv == IInv /\ Info => IInv'
<1> SUFFICES ASSUME IInv, Info PROVE IInv'
  OBVIOUS
<1> USE DEF IInv, Info, Idle, journalVars, executionVars, coreVars
<1>1. NetworkHistory' /\ IsSeq(frames)' /\ JournalIsDecidedChain'
  BY FrameNetwork, FrameJournal
<1>2. AcknowledgedIsDurable'
  BY FrameAcknowledged
<1>3. /\ told' = [height |-> tip.height, app_hash |-> tip.app_hash]
      /\ tip = network[tip.height + 1]
  BY DEF TipInJournal
<1>4. tip.height \in Nat /\ tip.height + 1 \in 1..Len(network)
  BY Lengths
<1>5. AppHashAgreement'
  BY <1>3, <1>4 DEF AppHashAgreement
<1>6. TypeOK'
  BY DEF TypeOK
<1>7. TipInJournal'
  BY DEF TipInJournal
<1>8. AppendInOrder'
  BY DEF AppendInOrder, IsNextDecided
<1>9. CoreInStep'
  BY <1>3, <1>4 DEF CoreInStep, IsNextDecided
<1>10. QED
  BY <1>1, <1>2, <1>5, <1>6, <1>7, <1>8, <1>9

(* InitChain keeps IInv. *)
LEMMA InitChainIInv ==
  ASSUME IInv, NEW genuine, InitChain(genuine)
  PROVE  IInv'
<1> USE DEF IInv, InitChain, Connected, Idle, journalVars, executionVars
<1>1. NetworkHistory' /\ IsSeq(frames)' /\ JournalIsDecidedChain'
  BY FrameNetwork, FrameJournal
<1>2. AcknowledgedIsDurable' /\ AppHashAgreement'
  BY FrameAcknowledged, FrameTold
<1>3. TypeOK'
  BY DEF TypeOK
<1>4. TipInJournal'
  BY DEF TipInJournal
<1>5. AppendInOrder' /\ CoreInStep'
  BY DEF TypeOK, AppendInOrder, CoreInStep, IsNextDecided
<1>6. QED
  BY <1>1, <1>2, <1>3, <1>4, <1>5

(* Admission and proposals change nothing the invariant speaks of, but for *)
(* the connection a failed request closes.                                 *)
LEMMA ConnectionIInv ==
  ASSUME IInv, session' \in {session, "offline"},
         UNCHANGED <<lifecycle, pending, chain, network, seen, told, acked,
                     executionVars, journalVars, faults>>
  PROVE  IInv'
<1> USE DEF IInv, journalVars, executionVars
<1>1. NetworkHistory' /\ IsSeq(frames)' /\ JournalIsDecidedChain'
  BY FrameNetwork, FrameJournal
<1>2. AcknowledgedIsDurable' /\ AppHashAgreement'
  BY FrameAcknowledged, FrameTold
<1>3. TypeOK'
  BY DEF TypeOK
<1>4. TipInJournal'
  BY DEF TipInJournal, Idle
<1>5. AppendInOrder' /\ CoreInStep'
  BY DEF AppendInOrder, CoreInStep, IsNextDecided
<1>6. QED
  BY <1>1, <1>2, <1>3, <1>4, <1>5

(* CheckTx keeps IInv. *)
LEMMA CheckTxIInv ==
  ASSUME IInv, NEW tx, CheckTx(tx)
  PROVE  IInv'
BY ConnectionIInv DEF CheckTx, engineVars

(* PrepareProposal keeps IInv. *)
LEMMA PrepareProposalIInv ==
  ASSUME IInv, NEW limit, NEW txs, PrepareProposal(limit, txs)
  PROVE  IInv'
BY ConnectionIInv DEF PrepareProposal

(* The pending block is the one decided after the tip, with the result of  *)
(* every correct validator.                                                *)
LEMMA FinalizeIInv == IInv /\ FinalizeBlock => IInv'
<1> SUFFICES ASSUME IInv, FinalizeBlock PROVE IInv'
  OBVIOUS
<1> DEFINE block == chain[seen + 1]
<1>1. CASE ~FinalizeAccepts(block)
  BY <1>1, ConnectionIInv DEF FinalizeBlock
<1>2. CASE FinalizeAccepts(block)
  <2>1. /\ pending' = IF pending = None THEN Executed(tip, block) ELSE pending
        /\ told' = [height   |-> pending'.result.height,
                    app_hash |-> pending'.result.app_hash]
        /\ session' = "finalized"
        /\ UNCHANGED <<lifecycle, chain, network, seen, acked, executionVars,
                       journalVars, faults>>
    BY <1>2 DEF FinalizeBlock
  <2>2. session = "ready" /\ seen < Len(chain)
    BY DEF FinalizeBlock
  <2>3. /\ seen = tip.height /\ proc = "serving" /\ lifecycle = "Running"
        /\ pending # None => IsNextDecided(pending)
    BY <2>2 DEF IInv, CoreInStep
  <2>4. /\ ExecuteBlock(tip, block) = network[tip.height + 2]
        /\ network[tip.height + 2].height = tip.height + 1
    BY <2>2, <2>3, NextDecided DEF IInv
  <2>5. IsNextDecided(pending')
    <3>1. CASE pending = None
      BY <3>1, <2>1, <2>2, <2>3, <2>4 DEF IsNextDecided, Executed
    <3>2. CASE pending # None
      BY <3>2, <2>1, <2>3
    <3>3. QED
      BY <3>1, <3>2
  <2>6. told'.height = tip.height + 1 /\ told'.app_hash = network[tip.height + 2].app_hash
    BY <2>1, <2>4, <2>5 DEF IsNextDecided
  <2>7. /\ tip.height \in Nat /\ told'.height < Len(network)
        /\ told'.height + 1 = tip.height + 2
    BY <2>2, <2>3, <2>6, Lengths
  <2> USE DEF journalVars, executionVars
  <2>8. NetworkHistory' /\ IsSeq(frames)' /\ JournalIsDecidedChain'
    BY <2>1, FrameNetwork, FrameJournal DEF IInv
  <2>9. AcknowledgedIsDurable'
    BY <2>1, FrameAcknowledged DEF IInv
  <2>10. AppHashAgreement'
    BY <2>1, <2>6, <2>7 DEF AppHashAgreement
  <2>11. TypeOK'
    BY <2>1 DEF IInv, TypeOK
  <2>12. TipInJournal'
    BY <2>1 DEF IInv, TipInJournal, Idle
  <2>13. AppendInOrder'
    BY <2>1 DEF IInv, AppendInOrder, IsNextDecided
  <2>14. CoreInStep'
    <3>1. IsNextDecided(pending)'
      BY <2>1, <2>5, Zenon DEF IsNextDecided
    <3>2. told'.height \in Nat
      BY <2>6, <2>7
    <3>3. QED
      BY <2>1, <2>3, <3>1, <3>2, Zenon DEF CoreInStep
  <2>15. QED
    BY <2>8, <2>9, <2>10, <2>11, <2>12, <2>13, <2>14 DEF IInv
<1>3. QED
  BY <1>1, <1>2

(***************************************************************************)
(* Commit and its append.                                                  *)
(***************************************************************************)

(* The pending block is never the tip already: only a new append begins. *)
LEMMA PendingIsNew ==
  ASSUME IInv, pending # None
  PROVE  ~IdempotentReceipt(pending)
<1>1. IsNextDecided(pending)
  BY DEF IInv, CoreInStep
<1>2. pending.result.height = tip.height + 1
  BY <1>1, NextDecided DEF IInv, IsNextDecided
<1>3. tip.height \in Nat
  BY Lengths
<1>4. QED
  BY <1>2, <1>3 DEF IdempotentReceipt

(* A Commit request, refused or begun, keeps IInv. *)
LEMMA CommitRequestIInv == IInv /\ CommitRequest => IInv'
<1> SUFFICES ASSUME IInv, CommitRequest PROVE IInv'
  OBVIOUS
<1> DEFINE refused == lifecycle # "Running" \/ pending = None \/ CommitRefused(pending)
<1>1. CASE refused
  BY <1>1, ConnectionIInv DEF CommitRequest, coreVars
<1>2. CASE ~refused
  <2> USE <1>2 DEF IInv, Connected, Idle, journalVars, coreVars
  <2>1. /\ proc = "serving" /\ lifecycle = "Running" /\ append.phase = "idle"
        /\ IsNextDecided(pending) /\ session = "finalized"
    BY DEF CommitRequest, CoreInStep
  <2>2. ~IdempotentReceipt(pending)
    BY PendingIsNew
  <2>3. /\ CommitBegins(pending) /\ session' = "committing"
        /\ UNCHANGED <<coreVars, chain, network, seen, told, acked, faults>>
    BY <2>2 DEF CommitRequest
  <2> USE <2>3 DEF CommitBegins
  <2>4. NetworkHistory' /\ IsSeq(frames)' /\ JournalIsDecidedChain'
    BY FrameNetwork, FrameJournal
  <2>5. AcknowledgedIsDurable' /\ AppHashAgreement'
    BY FrameAcknowledged, FrameTold
  <2>6. TypeOK'
    BY DEF TypeOK
  <2>7. TipInJournal'
    BY DEF TipInJournal
  <2>8. AppendInOrder'
    BY <2>1 DEF AppendInOrder, TipInJournal, IsNextDecided
  <2>9. CoreInStep'
    BY <2>1, Zenon DEF CoreInStep, IsNextDecided
  <2>10. QED
    BY <2>4, <2>5, <2>6, <2>7, <2>8, <2>9
<1>3. QED
  BY <1>1, <1>2

(* The frame that reaches the file is the next decided block. *)
LEMMA CommitWritesIInv == IInv /\ CommitWrites => IInv'
<1> SUFFICES ASSUME IInv, CommitWrites PROVE IInv'
  OBVIOUS
<1> USE DEF IInv, CommitWrites, AppendWrites, WriteFrame, coreVars, engineVars
<1>1. /\ proc = "serving" /\ writes /\ lifecycle = "Running" /\ tail = "none"
      /\ IsNextDecided(append.stored) /\ Len(frames) = tip.height
  BY DEF AppendInOrder
<1>2. frames' = Append(frames, append.stored)
  BY <1>1
<1>3. /\ IsSeq(frames') /\ Len(frames') = Len(frames) + 1
      /\ \A n \in 1..Len(frames) : frames'[n] = frames[n]
      /\ frames'[Len(frames) + 1] = append.stored
  BY <1>2, AppendFacts
<1>4. NetworkHistory'
  BY FrameNetwork
<1>5. JournalIsDecidedChain'
  <2>1. Len(frames') <= Len(chain)
    BY <1>1, <1>3, Lengths DEF IsNextDecided
  <2>2. ASSUME NEW n \in 1..Len(frames')
        PROVE  frames'[n].block = chain[n] /\ frames'[n].result = network[n + 1]
    <3>1. CASE n \in 1..Len(frames)
      BY <3>1, <1>3 DEF JournalIsDecidedChain
    <3>2. CASE n = Len(frames) + 1
      <4>1. n = tip.height + 1 /\ n + 1 = tip.height + 2
        BY <3>2, <1>1, Lengths
      <4>2. QED
        BY <3>2, <4>1, <1>1, <1>3 DEF IsNextDecided
    <3>3. QED
      BY <3>1, <3>2, <1>3, Lengths
  <2>3. QED
    BY <2>1, <2>2 DEF JournalIsDecidedChain
<1>6. AcknowledgedIsDurable' /\ AppHashAgreement'
  BY FrameAcknowledged, FrameTold
<1>7. TypeOK'
  BY <1>1, <1>3 DEF TypeOK, AppendInOrder, IsSeq
<1>8. TipInJournal'
  BY <1>1, <1>3 DEF TypeOK, TipInJournal, AppendInOrder, Idle, IsSeq
<1>9. AppendInOrder'
  BY <1>1, <1>3 DEF AppendInOrder, IsNextDecided
<1>10. CoreInStep'
  BY DEF CoreInStep, IsNextDecided
<1>11. QED
  BY <1>3, <1>4, <1>5, <1>6, <1>7, <1>8, <1>9, <1>10

(* The data sync of a commit keeps IInv. *)
LEMMA CommitSyncsIInv == IInv /\ CommitSyncs => IInv'
<1> SUFFICES ASSUME IInv, CommitSyncs PROVE IInv'
  OBVIOUS
<1> USE DEF IInv, CommitSyncs, AppendSyncs, SyncData, coreVars, engineVars
<1>1. NetworkHistory' /\ IsSeq(frames)' /\ JournalIsDecidedChain'
  BY FrameNetwork, FrameJournal
<1>2. AcknowledgedIsDurable' /\ AppHashAgreement'
  BY SyncKeepsAcknowledged, FrameTold
<1>3. TypeOK'
  BY DEF TypeOK, AppendInOrder, IsSeq
<1>4. TipInJournal'
  BY DEF TipInJournal, AppendInOrder, Idle
<1>5. AppendInOrder' /\ CoreInStep'
  BY DEF AppendInOrder, CoreInStep, IsNextDecided
<1>6. QED
  BY <1>1, <1>2, <1>3, <1>4, <1>5

(* With the directory entry synced too, the new height is durable. *)
LEMMA CommitReturnsIInv == IInv /\ CommitReturns => IInv'
<1> SUFFICES ASSUME IInv, CommitReturns PROVE IInv'
  OBVIOUS
<1>1. /\ proc = "serving" /\ writes /\ lifecycle = "Running" /\ tail = "none"
      /\ IsNextDecided(append.stored)
      /\ Len(frames) = tip.height + 1 /\ synced = Len(frames)
  BY DEF IInv, AppendInOrder, CommitReturns, CommitSucceeds
<1>2. /\ tip' = append.stored.result /\ append' = NoAppend /\ entry' = TRUE
      /\ acked' = append.stored.result.height /\ pending' = None
      /\ session' = IF session = "offline" THEN "offline" ELSE "ready"
      /\ seen' = IF session = "offline" THEN seen ELSE seen + 1
      /\ UNCHANGED <<frames, synced, tail, proc, writes, lifecycle, chain, network,
                     told, faults>>
  BY DEF CommitReturns, CommitSucceeds, SyncParentDirectory, PublishCommit
<1>3. /\ append.stored.result = network[tip.height + 2]
      /\ append.stored.result.height = tip.height + 1
  BY <1>1, NextDecided DEF IInv, IsNextDecided
<1>4. NetworkHistory' /\ IsSeq(frames)' /\ JournalIsDecidedChain'
  BY <1>2, FrameNetwork, FrameJournal DEF IInv
<1>5. AcknowledgedIsDurable'
  <2>1. acked' = synced' /\ synced' \in Nat /\ entry' = TRUE
    BY <1>1, <1>2, <1>3, Lengths
  <2>2. QED
    BY <2>1 DEF AcknowledgedIsDurable, DurableCount
<1>6. AppHashAgreement'
  BY <1>2, FrameTold DEF IInv
<1>7. tip'.height = tip.height + 1 /\ tip.height \in Nat /\ tip'.height = Len(frames')
  BY <1>1, <1>2, <1>3, Lengths
<1>8. TypeOK'
  <2>1. entry' \in BOOLEAN
    BY <1>2
  <2>2. tip'.height \in Nat /\ seen' \in Nat /\ acked' \in Nat /\ append'.phase = "idle"
    BY <1>2, <1>3, <1>7 DEF IInv, TypeOK, NoAppend
  <2>3. QED
    BY <1>2, <2>1, <2>2 DEF IInv, TypeOK
<1>9. TipInJournal'
  <2>1. tip'.height + 1 = tip.height + 2 /\ tip'.height \in 0..Len(frames')
    BY <1>7
  <2>2. tip' = network'[tip'.height + 1]
    BY <2>1, <1>2, <1>3
  <2>3. QED
    BY <2>1, <2>2, <1>1, <1>2, <1>7 DEF TipInJournal
<1>10. AppendInOrder'
  BY <1>2 DEF AppendInOrder, NoAppend
<1>11. CoreInStep'
  BY <1>1, <1>2, <1>7 DEF IInv, CoreInStep
<1>12. QED
  BY <1>4, <1>5, <1>6, <1>8, <1>9, <1>10, <1>11 DEF IInv

(* After a failed append the file may hold more than the tip, but the      *)
(* process no longer writes.                                               *)
LEMMA CommitErrsIInv == IInv /\ CommitErrs => IInv'
<1> SUFFICES ASSUME IInv, CommitErrs PROVE IInv'
  OBVIOUS
<1> USE DEF IInv, CommitErrs, CommitFails, WriteInterrupted, journalVars, coreVars
<1>1. NetworkHistory' /\ IsSeq(frames)' /\ JournalIsDecidedChain'
  BY FrameNetwork, FrameJournal
<1>2. AcknowledgedIsDurable' /\ AppHashAgreement'
  BY FrameAcknowledged, FrameTold
<1>3. TypeOK'
  <2>1. writes' \in BOOLEAN /\ append'.phase = "idle"
    BY Zenon DEF NoAppend
  <2>2. tail' \in {"none", "partial", "corrupt"} /\ faults' \in 0..MaxFaults
    BY BoundAssumption DEF TypeOK
  <2>3. QED
    BY <2>1, <2>2 DEF TypeOK
<1>4. TipInJournal'
  BY DEF TipInJournal, Idle
<1>5. AppendInOrder' /\ CoreInStep'
  BY DEF AppendInOrder, CoreInStep, IsNextDecided, NoAppend
<1>6. QED
  BY <1>1, <1>2, <1>3, <1>4, <1>5


(***************************************************************************)
(* The end of the process.                                                 *)
(***************************************************************************)

(* A lost process leaves nothing but the file, and any file that is a part *)
(* of the decided chain and keeps what was acknowledged will do.           *)
LEMMA ProcessLostIInv ==
  ASSUME IInv, CoreLost,
         proc' = "down", tip' = GenesisTip, writes' \in BOOLEAN,
         append'.phase = "idle",
         append' = [stored |-> append'.stored, phase |-> append'.phase],
         faults' \in 0..MaxFaults,
         IsSeq(frames)', JournalIsDecidedChain', AcknowledgedIsDurable',
         synced' \in 0..Len(frames'), entry' \in BOOLEAN,
         tail' \in {"none", "partial", "corrupt"}
  PROVE  IInv'
<1> USE DEF IInv, CoreLost
<1>1. NetworkHistory' /\ AppHashAgreement'
  BY FrameNetwork, FrameTold
<1>2. TypeOK'
  BY DEF TypeOK, GenesisTip
<1>3. TipInJournal'
  <2>1. Len(frames') \in Nat
    BY DEF IsSeq
  <2>2. GenesisTip.height = 0 /\ network[1] = GenesisTip
    BY DEF GenesisTip, NetworkHistory
  <2>3. QED
    BY <2>1, <2>2 DEF TipInJournal, Idle
<1>4. AppendInOrder' /\ CoreInStep'
  BY DEF AppendInOrder, CoreInStep
<1>5. QED
  BY <1>1, <1>2, <1>3, <1>4

(* The end of the process keeps IInv. *)
LEMMA KilledIInv == IInv /\ Killed => IInv'
<1> SUFFICES ASSUME IInv, Killed PROVE IInv'
  OBVIOUS
<1> USE DEF IInv, Killed, ProcessKilled, ProcessEnds, WriteInterrupted, journalVars, NoAppend
<1>1. UNCHANGED <<frames, synced, entry, chain, network, acked>>
  BY DEF CoreLost
<1>2. IsSeq(frames)' /\ JournalIsDecidedChain' /\ AcknowledgedIsDurable'
  BY <1>1, FrameJournal, FrameAcknowledged
<1>3. faults' \in 0..MaxFaults /\ tail' \in {"none", "partial", "corrupt"}
  BY BoundAssumption DEF TypeOK
<1>4. synced' \in 0..Len(frames') /\ entry' \in BOOLEAN
  BY <1>1 DEF TypeOK
<1>5. QED
  BY <1>2, <1>3, <1>4, ProcessLostIInv, Zenon

(* A restart keeps IInv. *)
LEMMA RestartIInv == IInv /\ Restart => IInv'
<1> SUFFICES ASSUME IInv, Restart PROVE IInv'
  OBVIOUS
<1> USE DEF IInv, Restart, ProcessEnds, journalVars, NoAppend
<1>1. UNCHANGED <<frames, synced, entry, tail, chain, network, acked>>
  BY DEF CoreLost
<1>2. IsSeq(frames)' /\ JournalIsDecidedChain' /\ AcknowledgedIsDurable'
  BY <1>1, FrameJournal, FrameAcknowledged
<1>3. /\ synced' \in 0..Len(frames') /\ entry' \in BOOLEAN /\ faults' \in 0..MaxFaults
      /\ tail' \in {"none", "partial", "corrupt"}
  BY <1>1 DEF TypeOK
<1>4. QED
  BY <1>2, <1>3, ProcessLostIInv, Zenon

(* A power loss keeps a prefix that contains every synced frame. *)
LEMMA PowerFailsIInv == IInv /\ PowerFails => IInv'
<1> SUFFICES ASSUME IInv, PowerFails PROVE IInv'
  OBVIOUS
<1>1. /\ proc' = "down" /\ append'.phase = "idle" /\ writes' \in BOOLEAN
      /\ append' = [stored |-> append'.stored, phase |-> append'.phase]
      /\ faults' \in 0..MaxFaults
  <2>1. faults' \in 0..MaxFaults
    BY BoundAssumption DEF IInv, TypeOK, PowerFails
  <2>2. CASE ProcessEnds
    BY <2>1, <2>2, Zenon DEF ProcessEnds, NoAppend
  <2>3. CASE proc = "down" /\ UNCHANGED executionVars
    <3>1. append.phase = "idle" /\ append = [stored |-> append.stored, phase |-> append.phase]
      BY <2>3 DEF IInv, AppendInOrder
    <3>2. writes' \in BOOLEAN
      BY <2>3 DEF IInv, TypeOK, executionVars
    <3>3. QED
      BY <2>1, <2>3, <3>1, <3>2 DEF executionVars
  <2>4. QED
    BY <2>2, <2>3 DEF PowerFails, PowerLoss
<1>2. tip' = GenesisTip
  BY DEF IInv, TipInJournal, PowerFails, PowerLoss, ProcessEnds, executionVars
<1>3. CoreLost /\ UNCHANGED <<chain, network, acked>>
  BY DEF PowerFails, CoreLost
<1>4. CASE UnsyncedBytesLost
  <2>1. PICK n \in synced..Len(frames) : /\ frames' = SubSeq(frames, 1, n)
                                         /\ tail' \in TailAfterPowerLoss(n)
    BY <1>4 DEF UnsyncedBytesLost
  <2>2. n \in 0..Len(frames) /\ synced <= n
    BY DEF IInv, TypeOK, IsSeq
  <2>3. /\ IsSeq(frames)' /\ Len(frames') = n
        /\ \A i \in 1..n : frames'[i] = frames[i]
    BY <2>1, <2>2, PrefixFacts DEF IInv
  <2>4. JournalIsDecidedChain'
    <3>1. Len(frames') <= Len(chain') /\ 1..n \subseteq 1..Len(frames)
      BY <1>3, <2>2, <2>3, Lengths
    <3>2. QED
      BY <1>3, <2>3, <3>1, Zenon DEF IInv, JournalIsDecidedChain
  <2>5. AcknowledgedIsDurable'
    BY <1>3, <1>4, FrameAcknowledged DEF IInv, UnsyncedBytesLost
  <2>6. synced' \in 0..Len(frames') /\ entry' \in BOOLEAN
    BY <1>4, <2>2, <2>3 DEF IInv, TypeOK, UnsyncedBytesLost
  <2>7. tail' \in {"none", "partial", "corrupt"}
    BY <2>1 DEF TailAfterPowerLoss
  <2>8. QED
    BY <1>1, <1>2, <1>3, <2>3, <2>4, <2>5, <2>6, <2>7, ProcessLostIInv
<1>5. CASE FileLost
  <2> USE <1>5 DEF FileLost
  <2>1. IsSeq(frames)' /\ Len(frames') = 0
    BY DEF IsSeq, Range
  <2>2. JournalIsDecidedChain'
    BY <1>3, <2>1, Lengths DEF JournalIsDecidedChain
  <2>3. AcknowledgedIsDurable'
    BY <1>3 DEF IInv, AcknowledgedIsDurable, DurableCount
  <2>4. /\ synced' \in 0..Len(frames') /\ entry' \in BOOLEAN
        /\ tail' \in {"none", "partial", "corrupt"}
    BY <2>1 DEF IInv, TypeOK
  <2>5. QED
    BY <1>1, <1>2, <1>3, <2>1, <2>2, <2>3, <2>4, ProcessLostIInv
<1>6. QED
  BY <1>4, <1>5 DEF PowerFails, PowerLoss, PowerLossEffect

(* The end of the engine keeps IInv. *)
LEMMA EngineStopsIInv == IInv /\ EngineStops => IInv'
<1> SUFFICES ASSUME IInv, EngineStops PROVE IInv'
  OBVIOUS
<1> USE DEF IInv, EngineStops, journalVars, executionVars, coreVars
<1>1. NetworkHistory' /\ IsSeq(frames)' /\ JournalIsDecidedChain'
  BY FrameNetwork, FrameJournal
<1>2. AcknowledgedIsDurable' /\ AppHashAgreement'
  BY FrameAcknowledged, FrameTold
<1>3. TypeOK'
  BY BoundAssumption DEF TypeOK
<1>4. TipInJournal'
  BY DEF TipInJournal, Idle
<1>5. AppendInOrder' /\ CoreInStep'
  BY DEF AppendInOrder, CoreInStep, IsNextDecided
<1>6. QED
  BY <1>1, <1>2, <1>3, <1>4, <1>5

(***************************************************************************)
(* The network decides a block, whatever this node is doing.               *)
(***************************************************************************)
LEMMA DecideIInv ==
  ASSUME IInv, NEW txs, NEW hash, Decide(txs, hash)
  PROVE  IInv'
<1> DEFINE block == [txs |-> txs,
                     decision |-> [height  |-> EngineHeight(Len(chain) + 1),
                                   hash    |-> hash,
                                   genuine |-> TRUE]]
           last  == network[Len(network)]
<1>1. /\ Executes(last, block)
      /\ chain' = Append(chain, block)
      /\ network' = Append(network, ExecuteBlock(last, block))
      /\ UNCHANGED <<session, seen, told, acked, lifecycle, pending, mempool,
                     executionVars, journalVars, faults>>
  BY DEF Decide
<1> HIDE DEF block
<1> USE DEF IInv
<1>2. /\ IsSeq(chain) /\ IsSeq(network)
      /\ Len(chain) \in Nat /\ Len(network) = Len(chain) + 1 /\ Len(network) \in Nat
  <2>1. IsSeq(chain) /\ IsSeq(network)
    BY DEF NetworkHistory
  <2>2. QED
    BY <2>1, Lengths
<1>3. /\ IsSeq(chain') /\ Len(chain') = Len(chain) + 1
      /\ \A n \in 1..Len(chain) : chain'[n] = chain[n]
      /\ chain'[Len(chain) + 1] = block
  BY <1>1, <1>2, AppendFacts, Zenon
<1>4. /\ IsSeq(network') /\ Len(network') = Len(network) + 1
      /\ \A n \in 1..Len(network) : network'[n] = network[n]
      /\ network'[Len(network) + 1] = ExecuteBlock(last, block)
  BY <1>1, <1>2, AppendFacts
<1>5. NetworkHistory'
  <2>1. network'[1] = GenesisTip
    <3>1. 1 \in 1..Len(network)
      BY <1>2
    <3>2. QED
      BY <3>1, <1>4 DEF NetworkHistory
  <2>2. ASSUME NEW n \in 1..Len(network') PROVE network'[n].height = n - 1
    <3>1. CASE n \in 1..Len(network)
      BY <3>1, <1>4 DEF NetworkHistory
    <3>2. CASE n = Len(network) + 1
      <4>1. Len(network) \in 1..Len(network)
        BY <1>2
      <4>2. last.height = Len(network) - 1
        BY <4>1 DEF NetworkHistory
      <4>3. network'[n].height = Len(network) - 1 + 1
        BY <3>2, <4>2, <1>4, ExecuteBlockHeight
      <4>4. QED
        BY <3>2, <4>3, <1>2
    <3>3. n \in 1..Len(network) + 1
      BY <1>4
    <3>4. QED
      BY <3>1, <3>2, <3>3, <1>2
  <2>3. ASSUME NEW n \in 1..Len(chain')
        PROVE  /\ Executes(network'[n], chain'[n])
               /\ network'[n + 1] = ExecuteBlock(network'[n], chain'[n])
    <3>1. CASE n \in 1..Len(chain)
      <4>1. n \in 1..Len(network) /\ n + 1 \in 1..Len(network)
        BY <3>1, <1>2
      <4>2. network'[n] = network[n] /\ network'[n + 1] = network[n + 1] /\ chain'[n] = chain[n]
        BY <3>1, <4>1, <1>3, <1>4
      <4>3. Executes(network[n], chain[n]) /\ network[n + 1] = ExecuteBlock(network[n], chain[n])
        BY <3>1 DEF NetworkHistory
      <4>4. QED
        BY <4>2, <4>3
    <3>2. CASE n = Len(chain) + 1
      <4>1. n = Len(network) /\ Len(network) \in 1..Len(network)
        BY <3>2, <1>2
      <4>2. network'[n] = last /\ chain'[n] = block /\ network'[n + 1] = ExecuteBlock(last, block)
        BY <3>2, <4>1, <1>3, <1>4
      <4>3. QED
        BY <4>2, <1>1
    <3>3. QED
      BY <3>1, <3>2, <1>2, <1>3
  <2>4. QED
    BY <1>2, <1>3, <1>4, <2>1, <2>2, <2>3 DEF NetworkHistory
<1>6. IsSeq(frames)' /\ JournalIsDecidedChain'
  <2>1. frames' = frames /\ Len(frames) \in Nat /\ Len(frames) <= Len(chain)
    BY <1>1, Lengths DEF journalVars
  <2>2. IsSeq(frames)'
    BY <2>1 DEF IsSeq, Range
  <2>3. ASSUME NEW n \in 1..Len(frames)
        PROVE  frames[n].block = chain'[n] /\ frames[n].result = network'[n + 1]
    <3>1. n \in 1..Len(chain) /\ n + 1 \in 1..Len(network)
      BY <2>1, <1>2
    <3>2. chain'[n] = chain[n] /\ network'[n + 1] = network[n + 1]
      BY <3>1, <1>3, <1>4
    <3>3. QED
      BY <3>2 DEF JournalIsDecidedChain
  <2>4. Len(frames) <= Len(chain')
    BY <1>2, <1>3, <2>1
  <2>5. QED
    BY <2>1, <2>2, <2>3, <2>4 DEF JournalIsDecidedChain
<1>7. AcknowledgedIsDurable'
  BY <1>1, FrameAcknowledged DEF journalVars
<1>8. AppHashAgreement'
  <2> SUFFICES ASSUME told # None
               PROVE  /\ told.height < Len(network')
                      /\ told.app_hash = network'[told.height + 1].app_hash
    BY <1>1, Zenon DEF AppHashAgreement
  <2>1. /\ told.height \in Nat /\ told.height < Len(network)
        /\ told.app_hash = network[told.height + 1].app_hash
    BY DEF AppHashAgreement, CoreInStep
  <2>2. told.height + 1 \in 1..Len(network) /\ told.height < Len(network')
    BY <2>1, <1>2, <1>4
  <2>3. QED
    BY <2>1, <2>2, <1>4
<1>9. TypeOK'
  BY <1>1 DEF TypeOK, executionVars, journalVars
<1>10. TipInJournal'
  <2>1. tip.height + 1 \in 1..Len(network)
    BY <1>2, Lengths
  <2>2. network'[tip.height + 1] = network[tip.height + 1]
    BY <2>1, <1>4
  <2>3. QED
    BY <2>2, <1>1, Zenon DEF TipInJournal, Idle, executionVars, journalVars
<1>11. \A e : IsNextDecided(e) => IsNextDecided(e)'
  <2> SUFFICES ASSUME NEW e, IsNextDecided(e) PROVE IsNextDecided(e)'
    OBVIOUS
  <2>1. /\ tip.height < Len(chain')
        /\ tip.height + 1 \in 1..Len(chain) /\ tip.height + 2 \in 1..Len(network)
    BY <1>2, <1>3, Lengths DEF IsNextDecided
  <2>2. /\ chain'[tip.height + 1] = chain[tip.height + 1]
        /\ network'[tip.height + 2] = network[tip.height + 2]
    BY <2>1, <1>3, <1>4
  <2>3. QED
    BY <2>1, <2>2, <1>1 DEF IsNextDecided, executionVars
<1>12. AppendInOrder' /\ CoreInStep'
  <2>1. AppendInOrder'
    BY <1>1, <1>11 DEF AppendInOrder, executionVars, journalVars
  <2>2. CoreInStep'
    BY <1>1, <1>11 DEF CoreInStep, executionVars
  <2>3. QED
    BY <2>1, <2>2
<1>13. QED
  BY <1>5, <1>6, <1>7, <1>8, <1>9, <1>10, <1>12

(***************************************************************************)
(* The theorems.                                                           *)
(***************************************************************************)

(* Every step of the node, the engine, the network and the failures        *)
(* preserves the invariant.                                                *)
LEMMA NextIInv == IInv /\ [Next]_vars => IInv'
<1> SUFFICES ASSUME IInv, [Next]_vars PROVE IInv'
  OBVIOUS
<1>1. CASE Recovery
  BY <1>1, OpenIInv, ReplayIInv, RefuseIInv, TruncationFailsIInv, StartCoreIInv DEF Recovery
<1>2. CASE Requests
  BY <1>2, InfoIInv, InitChainIInv, CheckTxIInv, PrepareProposalIInv, FinalizeIInv,
     CommitRequestIInv DEF Requests
<1>3. CASE CommitSteps
  BY <1>3, CommitWritesIInv, CommitSyncsIInv, CommitReturnsIInv, CommitErrsIInv DEF CommitSteps
<1>4. CASE Failures
  BY <1>4, KilledIInv, PowerFailsIInv, RestartIInv, EngineStopsIInv DEF Failures
<1>5. CASE Decisions
  BY <1>5, DecideIInv DEF Decisions
<1>6. CASE UNCHANGED vars
  BY <1>6, ConnectionIInv DEF vars, coreVars, engineVars
<1>7. QED
  BY <1>1, <1>2, <1>3, <1>4, <1>5, <1>6 DEF Next

(* IInv is an invariant of CometCore. *)
THEOREM InductiveInvariant == Spec => []IInv
<1>1. Init => IInv
  BY InitIInv
<1>2. IInv /\ [Next]_vars => IInv'
  BY NextIInv
<1>3. QED
  BY <1>1, <1>2, PTL DEF Spec

(* The variables keep their types in every reachable state of the node. *)
THEOREM TypeCorrect == Spec => []TypeOK
<1>1. IInv => TypeOK
  BY DEF IInv
<1>2. QED
  BY <1>1, InductiveInvariant, PTL

(* A Commit that returned success survives every later crash, for any      *)
(* number of crashes, blocks and retries (the barriers of append_block).   *)
THEOREM AcknowledgedNeverLost == Spec => []AcknowledgedIsDurable
<1>1. IInv => AcknowledgedIsDurable
  BY DEF IInv
<1>2. QED
  BY <1>1, InductiveInvariant, PTL

(* The NXCB journal is always a prefix of the decided chain, with the      *)
(* results every correct validator computed.                               *)
THEOREM JournalCorrect == Spec => []JournalIsDecidedChain
<1>1. IInv => JournalIsDecidedChain
  BY DEF IInv
<1>2. QED
  BY <1>1, InductiveInvariant, PTL

(* Info and FinalizeBlock never tell the engine an AppHash that a correct  *)
(* validator would not compute for that height.                            *)
THEOREM AppHashesAgree == Spec => []AppHashAgreement
<1>1. IInv => AppHashAgreement
  BY DEF IInv
<1>2. QED
  BY <1>1, InductiveInvariant, PTL

(* A process that may write serves exactly what its journal replays to,    *)
(* with no unfinished frame at the end of the file.                        *)
THEOREM WritableTipCorrect == Spec => []WritableTipMatchesJournal
<1>1. IInv => WritableTipMatchesJournal
  BY DEF IInv, TipInJournal, WritableTipMatchesJournal
<1>2. QED
  BY <1>1, InductiveInvariant, PTL

(* The core never refuses the block the engine finalizes next: neither     *)
(* for its height, nor for a pending block, nor in its execution.          *)
THEOREM DecidedAlwaysFinalizes == Spec => []DecidedBlockFinalizes
<1>1. IInv => DecidedBlockFinalizes
  <2> SUFFICES ASSUME IInv, Connected, session = "ready", seen < Len(chain)
               PROVE  seen = tip.height /\ FinalizeAccepts(chain[seen + 1])
    BY DEF DecidedBlockFinalizes
  <2>1. seen = tip.height /\ lifecycle = "Running" /\ tip.height < Len(chain)
    BY DEF IInv, CoreInStep
  <2>2. Executes(tip, chain[tip.height + 1])
    BY <2>1, NextDecided DEF IInv
  <2>3. pending # None => pending.block = chain[tip.height + 1]
    BY DEF IInv, CoreInStep, IsNextDecided
  <2>4. QED
    BY <2>1, <2>2, <2>3 DEF FinalizeAccepts
<1>2. QED
  BY <1>1, InductiveInvariant, PTL

(***************************************************************************)
(* CometCore implements DurableChain: each of its steps decides a block,   *)
(* makes blocks durable, acknowledges one, or changes nothing of these.    *)
(***************************************************************************)
(* The durable blocks are the first DurableCount decided ones. *)
DurableIsPrefix ==
  /\ DurableCount \in 0..Len(frames)
  /\ Len(frames) \in Nat
  /\ Len(frames) <= Len(chain)
  /\ Len(chain) \in Nat
  /\ Len(DurableBlocks) = DurableCount
  /\ DurableBlocks = Promise!Prefix(chain, DurableCount)

(* A function on 1..n is a sequence of length n. *)
LEMMA FunctionIsSequence ==
  ASSUME NEW S, NEW n \in Nat, NEW f \in [1..n -> S]
  PROVE  f \in Seq(S) /\ Len(f) = n
<1>1. f \in Seq(S)
  OBVIOUS
<1>2. QED
  BY <1>1

(* The journal's agreement with the chain makes them so. *)
LEMMA DurableBlocksFacts == IInv => DurableIsPrefix
<1> SUFFICES ASSUME IInv PROVE DurableIsPrefix
  OBVIOUS
<1>1. Len(frames) \in Nat /\ Len(chain) \in Nat /\ Len(frames) <= Len(chain)
  BY DEF IInv, NetworkHistory, JournalIsDecidedChain, IsSeq
<1>2. DurableCount \in 0..Len(frames)
  BY <1>1 DEF IInv, TypeOK, DurableCount
<1> DEFINE S == {frames[n].block : n \in 1..DurableCount}
<1>3. DurableBlocks \in [1..DurableCount -> S]
  BY DEF DurableBlocks
<1> HIDE DEF S
<1>4. DurableCount \in Nat
  BY <1>1, <1>2
<1>5. Len(DurableBlocks) = DurableCount
  BY <1>3, <1>4, FunctionIsSequence, Zenon
<1>6. DurableBlocks = Promise!Prefix(chain, DurableCount)
  BY <1>1, <1>2 DEF IInv, JournalIsDecidedChain, DurableBlocks, Promise!Prefix
<1>7. QED
  BY <1>1, <1>2, <1>5, <1>6 DEF DurableIsPrefix

(* The same in the state after a step. *)
LEMMA DurableBlocksFactsNext == IInv' => DurableIsPrefix'
BY DurableBlocksFacts, PTL

(* A step that keeps the durable frames and acknowledges nothing stutters. *)
LEMMA QuietStep ==
  ASSUME IInv, IInv', UNCHANGED <<chain, acked>>, DurableCount' = DurableCount
  PROVE  UNCHANGED Promise!vars
<1>1. DurableBlocks = Promise!Prefix(chain, DurableCount)
  BY DurableBlocksFacts DEF DurableIsPrefix
<1>2. DurableBlocks' = Promise!Prefix(chain', DurableCount')
  BY DurableBlocksFactsNext DEF DurableIsPrefix
<1>3. QED
  BY <1>1, <1>2 DEF Promise!vars

(* A barrier that covers more frames than before makes them durable, and   *)
(* may be the one that lets the last of them be acknowledged.              *)
LEMMA BarrierStep ==
  ASSUME IInv, IInv', UNCHANGED chain, DurableCount' > DurableCount,
         acked' \in {acked, DurableCount'}
  PROVE  Promise!MakeDurable
<1>1. DurableIsPrefix /\ DurableIsPrefix'
  BY DurableBlocksFacts, DurableBlocksFactsNext
<1>2. DurableCount' \in Len(DurableBlocks) + 1 .. Len(chain)
  BY <1>1 DEF DurableIsPrefix
<1>3. DurableBlocks' = Promise!Prefix(chain, DurableCount')
  BY <1>1 DEF DurableIsPrefix
<1>4. QED
  BY <1>2, <1>3 DEF Promise!MakeDurable

(* A sync covers at least what was durable. *)
LEMMA SyncStep ==
  ASSUME IInv, IInv', UNCHANGED <<chain, frames, entry, acked>>,
         synced' = synced \/ synced' = Len(frames)
  PROVE  [Promise!Next]_(Promise!vars)
<1>1. DurableCount' = DurableCount \/ DurableCount' > DurableCount
  BY DEF IInv, TypeOK, DurableCount, IsSeq
<1>2. QED
  BY <1>1, QuietStep, BarrierStep DEF Promise!Next

(* Commit returns with its frame durable: the acknowledgment of a height   *)
(* that this barrier, or the data sync before it, made durable.            *)
LEMMA CommitReturnsStep ==
  ASSUME IInv, IInv', CommitReturns
  PROVE  [Promise!Next]_(Promise!vars)
<1> USE DEF CommitReturns, CommitSucceeds, SyncParentDirectory, PublishCommit
<1>1. /\ IsNextDecided(append.stored) /\ synced = tip.height + 1
      /\ Len(frames) = tip.height + 1
  BY DEF IInv, AppendInOrder
<1>2. acked' = tip.height + 1
  BY <1>1, NextDecided, Zenon DEF IInv, IsNextDecided
<1>3. DurableCount' = tip.height + 1 /\ UNCHANGED chain
  BY <1>1 DEF DurableCount
<1>4. acked <= DurableCount /\ acked \in Nat /\ tip.height \in Nat
  BY Zenon DEF IInv, AcknowledgedIsDurable, TypeOK
<1>5. DurableCount <= tip.height + 1 /\ DurableCount \in Nat
  <2>1. DurableCount = synced \/ DurableCount = 0
    BY Zenon DEF DurableCount
  <2> QED
    BY <2>1, <1>1, <1>4
<1>6. CASE DurableCount < tip.height + 1
  BY <1>2, <1>3, <1>5, <1>6, BarrierStep, Zenon DEF Promise!Next
<1>7. CASE DurableCount = tip.height + 1
  <2>1. DurableIsPrefix /\ DurableIsPrefix'
    BY DurableBlocksFacts, DurableBlocksFactsNext
  <2>2. DurableBlocks' = DurableBlocks /\ Len(DurableBlocks) = tip.height + 1
    BY <1>3, <1>7, <2>1 DEF DurableIsPrefix
  <2>3. CASE acked = tip.height + 1
    BY <1>2, <1>3, <2>2, <2>3 DEF Promise!vars
  <2>4. CASE acked < tip.height + 1
    <3>1. acked' \in acked + 1 .. Len(DurableBlocks)
      BY <1>2, <1>4, <2>2, <2>4
    <3>2. Promise!Acknowledge
      BY <1>3, <2>2, <3>1 DEF Promise!Acknowledge
    <3>3. QED
      BY <3>2 DEF Promise!Next
  <2>5. QED
    BY <1>4, <1>7, <2>3, <2>4
<1>8. QED
  BY <1>4, <1>5, <1>6, <1>7

(* Neither lost bytes nor a lost file take a durable frame. *)
LEMMA PowerFailsStep ==
  ASSUME IInv, IInv', PowerFails
  PROVE  UNCHANGED Promise!vars
<1>1. UNCHANGED <<chain, acked>>
  BY DEF PowerFails, CoreLost
<1>2. DurableCount' = DurableCount
  BY DEF PowerFails, PowerLoss, PowerLossEffect, UnsyncedBytesLost, FileLost, DurableCount
<1>3. QED
  BY <1>1, <1>2, QuietStep

(* A decision is a step of the abstract chain. *)
LEMMA DecideStep ==
  ASSUME IInv, IInv', NEW txs, NEW hash, Decide(txs, hash)
  PROVE  Promise!Decide
<1>1. PICK block : chain' = Append(chain, block)
  BY DEF Decide
<1>2. IsSeq(chain) /\ Len(chain) \in Nat
  BY DEF IInv, NetworkHistory, IsSeq
<1>3. /\ Len(chain') = Len(chain) + 1
      /\ \A n \in 1..Len(chain) : chain'[n] = chain[n]
  BY <1>1, <1>2, AppendFacts
<1>4. chain = [i \in 1..Len(chain) |-> chain[i]]
  BY <1>2 DEF IsSeq
<1>5. Promise!Prefix(chain', Len(chain)) = chain
  BY <1>3, <1>4 DEF Promise!Prefix
<1>6. UNCHANGED <<DurableBlocks, acked>>
  BY DEF Decide, journalVars, DurableBlocks, DurableCount
<1>7. QED
  BY <1>3, <1>5, <1>6 DEF Promise!Decide

(* Every other step leaves the data sync, the directory entry, the chain   *)
(* and the acknowledged height alone, or syncs more frames.                *)
LEMMA NextRefines ==
  ASSUME IInv, IInv', [Next]_vars
  PROVE  [Promise!Next]_(Promise!vars)
<1> USE DEF journalVars, engineVars, coreVars
<1>1. CASE Recovery
  <2>1. CASE OpenJournal \/ Replay \/ RefuseJournal
    BY <2>1, SyncStep DEF OpenJournal, Open, Replay, ReplayFrame, RefuseJournal, OpenRefused
  <2>2. CASE TruncationFails
    BY <2>2, SyncStep DEF TruncationFails, OpenTailFails, TruncateTailFails
  <2>3. CASE StartCore
    BY <2>3, SyncStep DEF StartCore, OpenSucceeds, TruncateTail
  <2>4. QED
    BY <1>1, <2>1, <2>2, <2>3 DEF Recovery
<1>2. CASE Requests
  <2>1. ASSUME NEW genuine, InitChain(genuine) PROVE [Promise!Next]_(Promise!vars)
    BY <2>1, SyncStep DEF InitChain
  <2>2. ASSUME NEW tx, CheckTx(tx) PROVE [Promise!Next]_(Promise!vars)
    BY <2>2, SyncStep DEF CheckTx
  <2>3. ASSUME NEW limit, NEW txs, PrepareProposal(limit, txs)
        PROVE  [Promise!Next]_(Promise!vars)
    BY <2>3, SyncStep DEF PrepareProposal
  <2>4. CASE Info \/ FinalizeBlock
    BY <2>4, SyncStep, Zenon DEF Info, FinalizeBlock
  <2>5. CASE CommitRequest
    <3>1. ASSUME pending # None PROVE ~IdempotentReceipt(pending)
      BY <3>1, PendingIsNew
    <3>2. QED
      BY <2>5, <3>1, SyncStep DEF CommitRequest, CommitBegins
  <2>6. QED
    BY <1>2, <2>1, <2>2, <2>3, <2>4, <2>5 DEF Requests
<1>3. CASE CommitSteps
  <2>1. CASE CommitWrites
    <3>1. DurableCount' = DurableCount /\ UNCHANGED <<chain, acked>>
      BY <2>1 DEF CommitWrites, AppendWrites, WriteFrame, DurableCount
    <3>2. QED
      BY <3>1, QuietStep
  <2>2. CASE CommitSyncs
    BY <2>2, SyncStep DEF CommitSyncs, AppendSyncs, SyncData
  <2>3. CASE CommitErrs
    BY <2>3, SyncStep DEF CommitErrs, CommitFails, WriteInterrupted
  <2>4. QED
    BY <1>3, <2>1, <2>2, <2>3, CommitReturnsStep DEF CommitSteps
<1>4. CASE Failures
  <2>1. CASE Killed
    BY <2>1, SyncStep DEF Killed, ProcessKilled, WriteInterrupted, CoreLost
  <2>2. CASE Restart \/ EngineStops
    BY <2>2, SyncStep DEF Restart, EngineStops, CoreLost
  <2>3. QED
    BY <1>4, <2>1, <2>2, PowerFailsStep DEF Failures
<1>5. CASE Decisions
  BY <1>5, DecideStep DEF Decisions, Promise!Next
<1>6. CASE UNCHANGED vars
  BY <1>6, SyncStep DEF vars
<1>7. QED
  BY <1>1, <1>2, <1>3, <1>4, <1>5, <1>6 DEF Next

(* The node implements DurableChain: under any crashes it takes nothing    *)
(* back, and makes nothing durable but the decided blocks in their order.  *)
THEOREM Refinement == Spec => ImplementsPromise
<1>1. Init => Promise!Init
  BY DEF Init, JournalInit, Promise!Init, DurableBlocks, DurableCount
<1>2. IInv /\ IInv' /\ [Next]_vars => [Promise!Next]_(Promise!vars)
  BY NextRefines
<1>3. QED
  BY <1>1, <1>2, InductiveInvariant, PTL DEF Spec, ImplementsPromise, Promise!Spec
=============================================================================
