------------------------- MODULE NodeDirectoryProofs -------------------------
(***************************************************************************)
(* Proofs about NodeDirectory, for every set of instances and geneses and  *)
(* every bound.  DirectoryInv is inductive: there is one lemma per action, *)
(* with one step per conjunct, and the safety properties are conjuncts of  *)
(* it.                                                                     *)
(***************************************************************************)
EXTENDS NodeDirectory, TLAPS

(* One more entry of the same genesis keeps a history uniform. *)
LEMMA AppendUniform ==
  ASSUME NEW S, NEW g \in S, NEW h \in Seq(S), \A n \in 1..Len(h) : h[n] = g
  PROVE  \A n \in 1..Len(Append(h, g)) : Append(h, g)[n] = g
<1>1. Len(Append(h, g)) = Len(h) + 1 /\ Len(h) \in Nat
  OBVIOUS
<1>2. ASSUME NEW n \in 1..Len(h) + 1
      PROVE  Append(h, g)[n] = g
  <2>1. CASE n = Len(h) + 1
    BY <2>1
  <2>2. CASE n # Len(h) + 1
    <3>1. n \in 1..Len(h)
      BY <1>1, <2>2
    <3>2. Append(h, g)[n] = h[n]
      BY <3>1
    <3>. QED
      BY <3>1, <3>2
  <2>. QED
    BY <2>1, <2>2
<1>. QED
  BY <1>1, <1>2

(* DirectoryLock::acquire makes an owner only where there was none. *)
LEMMA AcquireInv ==
  ASSUME DirectoryInv, NEW i \in Instances, Acquire(i)
  PROVE  DirectoryInv'
<1>1. DirectoryTypeOK'
  BY DEF DirectoryInv, DirectoryTypeOK, Names, Stages, Owners, Opening, Initializing,
         Acquire, Goto
<1>2. AtMostOneOwner'
  BY DEF DirectoryInv, AtMostOneOwner, Owns, Owners, Opening, Initializing, Acquire,
         Goto
<1>3. OneJournalHolder'
  BY DEF DirectoryInv, OneJournalHolder, HoldsJournal, Serves, Acquire, Goto
<1>4. WritersSeeWholeHistory'
  BY DEF DirectoryInv, WritersSeeWholeHistory, MayAppend, Serves, File, Acquire, Goto
<1>5. ServedIdentity'
  BY DEF DirectoryInv, ServedIdentity, Serves, File, Acquire, Goto
<1>6. IdentityStages'
  BY DEF DirectoryInv, IdentityStages, Creates, Serves, Acquire, Goto
<1>7. HistoryStages'
  BY DEF DirectoryInv, DirectoryTypeOK, HistoryStages, NoConflictingHistory, Serves,
         File, Acquire, Goto, Histories
<1>8. NoCompetingHistories'
  BY DEF DirectoryInv, NoCompetingHistories, Histories, Acquire
<1>9. SyncedNames'
  BY DEF DirectoryInv, SyncedNames, Acquire
<1>10. AcknowledgedBlocksKeepIdentity'
  BY DEF DirectoryInv, AcknowledgedBlocksKeepIdentity, Acquire
<1>. QED
  BY <1>1, <1>2, <1>3, <1>4, <1>5, <1>6, <1>7, <1>8, <1>9, <1>10 DEF DirectoryInv

(* No identity file is there, so no instance serves this directory. *)
LEMMA FindsNoIdentityInv ==
  ASSUME DirectoryInv, NEW i \in Instances, FindsNoIdentity(i)
  PROVE  DirectoryInv'
<1>1. DirectoryTypeOK'
  BY DEF DirectoryInv, DirectoryTypeOK, Names, Stages, Owners, Opening, Initializing,
         FindsNoIdentity, Goto, fileVars
<1>2. AtMostOneOwner'
  BY DEF DirectoryInv, AtMostOneOwner, Owns, Owners, Opening, Initializing,
         FindsNoIdentity, Goto, fileVars
<1>3. OneJournalHolder'
  BY DEF DirectoryInv, OneJournalHolder, HoldsJournal, Serves, FindsNoIdentity, Goto,
         fileVars
<1>4. WritersSeeWholeHistory'
  BY DEF DirectoryInv, WritersSeeWholeHistory, MayAppend, Serves, File, FindsNoIdentity,
         Goto, fileVars
<1>5. ServedIdentity'
  BY DEF DirectoryInv, ServedIdentity, Serves, File, FindsNoIdentity, Goto, fileVars
<1>6. IdentityStages'
  BY DEF DirectoryInv, DirectoryTypeOK, IdentityStages, Creates, Serves,
         FindsNoIdentity, Goto, fileVars, IdentityFiles
<1>7. HistoryStages'
  BY DEF DirectoryInv, HistoryStages, NoConflictingHistory, Serves, File,
         FindsNoIdentity, Goto, fileVars
<1>8. NoCompetingHistories'
  BY DEF DirectoryInv, NoCompetingHistories, Histories, FindsNoIdentity, Goto, fileVars
<1>9. SyncedNames'
  BY DEF DirectoryInv, SyncedNames, FindsNoIdentity, Goto, fileVars
<1>10. AcknowledgedBlocksKeepIdentity'
  BY DEF DirectoryInv, AcknowledgedBlocksKeepIdentity, FindsNoIdentity, Goto, fileVars
<1>. QED
  BY <1>1, <1>2, <1>3, <1>4, <1>5, <1>6, <1>7, <1>8, <1>9, <1>10 DEF DirectoryInv

(* The files found are the identity the instance was started with. *)
LEMMA FindsIdentityInv ==
  ASSUME DirectoryInv, NEW i \in Instances, FindsIdentity(i)
  PROVE  DirectoryInv'
<1>1. DirectoryTypeOK'
  BY DEF DirectoryInv, DirectoryTypeOK, Names, Stages, Owners, Opening, Initializing,
         FindsIdentity, IdentityMatches, Goto, fileVars
<1>2. AtMostOneOwner'
  BY DEF DirectoryInv, AtMostOneOwner, Owns, Owners, Opening, Initializing,
         FindsIdentity, IdentityMatches, Goto, fileVars
<1>3. OneJournalHolder'
  BY DEF DirectoryInv, OneJournalHolder, HoldsJournal, Serves, FindsIdentity,
         IdentityMatches, Goto, fileVars
<1>4. WritersSeeWholeHistory'
  BY DEF DirectoryInv, WritersSeeWholeHistory, MayAppend, Serves, File, FindsIdentity,
         IdentityMatches, Goto, fileVars
<1>5. ServedIdentity'
  BY DEF DirectoryInv, ServedIdentity, Serves, File, FindsIdentity, IdentityMatches,
         Goto, fileVars
<1>6. IdentityStages'
  BY DEF DirectoryInv, IdentityStages, Creates, Serves, FindsIdentity, IdentityMatches,
         Goto, fileVars
<1>7. HistoryStages'
  BY DEF DirectoryInv, HistoryStages, NoConflictingHistory, Serves, File, FindsIdentity,
         IdentityMatches, Goto, fileVars
<1>8. NoCompetingHistories'
  BY DEF DirectoryInv, NoCompetingHistories, Histories, FindsIdentity, IdentityMatches,
         Goto, fileVars
<1>9. SyncedNames'
  BY DEF DirectoryInv, SyncedNames, FindsIdentity, IdentityMatches, Goto, fileVars
<1>10. AcknowledgedBlocksKeepIdentity'
  BY DEF DirectoryInv, AcknowledgedBlocksKeepIdentity, FindsIdentity, IdentityMatches,
         Goto, fileVars
<1>. QED
  BY <1>1, <1>2, <1>3, <1>4, <1>5, <1>6, <1>7, <1>8, <1>9, <1>10 DEF DirectoryInv

(* While an instance writes the identity files, it is alone. *)
LEMMA WriteIdentityInv ==
  ASSUME DirectoryInv, NEW i \in Instances, WriteIdentity(i)
  PROVE  DirectoryInv'
<1>a. PICK s \in {"genesis", "genesisDone", "manifest", "ready"} : Creates(i) /\ Goto(i, s)
  BY DEF WriteIdentity, CreateFile, FillFile, Creates
<1>b. /\ present \subseteq present' /\ present' \subseteq present \cup IdentityFiles
      /\ unsynced' \subseteq unsynced \cup IdentityFiles
      /\ UNCHANGED <<durable, history, acknowledged, config, view, mayWrite, outages>>
  BY DEF WriteIdentity, CreateFile, FillFile, IdentityFiles
<1>c. \E f \in IdentityFiles, c \in {Torn, config[i]} : content' = [content EXCEPT ![f] = c]
  BY DEF WriteIdentity, CreateFile, FillFile, IdentityFiles
<1>1. DirectoryTypeOK'
  BY <1>a, <1>b, <1>c DEF DirectoryInv, DirectoryTypeOK, Goto, Names, Stages, Owners,
                          Opening, Initializing
<1>2. AtMostOneOwner'
  BY <1>a, <1>b DEF DirectoryInv, DirectoryTypeOK, AtMostOneOwner, Owns, Owners,
                    Opening, Initializing, Goto, Creates
<1>3. OneJournalHolder'
  BY <1>a, <1>b DEF DirectoryInv, OneJournalHolder, HoldsJournal, Serves, Goto
<1>4. WritersSeeWholeHistory'
  BY <1>a, <1>b DEF DirectoryInv, DirectoryTypeOK, WritersSeeWholeHistory, MayAppend,
                    Serves, File, Goto
<1>5. ServedIdentity'
  BY <1>a, <1>b DEF DirectoryInv, DirectoryTypeOK, ServedIdentity, Serves, File, Goto,
                    IdentityStages, Creates
<1>6. IdentityStages'
  BY DEF DirectoryInv, DirectoryTypeOK, IdentityStages, Creates, Serves,
         WriteIdentity, CreateFile, FillFile, Goto, IdentityFiles, AtMostOneOwner,
         Owns, Owners, Opening, Initializing
<1>7. HistoryStages'
  BY Zenon, <1>a, <1>b DEF DirectoryInv, DirectoryTypeOK, HistoryStages,
                           NoConflictingHistory, Serves, File, Goto, Histories,
                           HistoryFile, IdentityFiles, Creates
<1>8. NoCompetingHistories'
  BY DEF DirectoryInv, NoCompetingHistories, Histories, WriteIdentity, CreateFile,
         FillFile
<1>9. SyncedNames'
  BY DEF DirectoryInv, SyncedNames, WriteIdentity, CreateFile, FillFile
<1>10. AcknowledgedBlocksKeepIdentity'
  BY DEF DirectoryInv, AcknowledgedBlocksKeepIdentity, WriteIdentity, CreateFile,
         FillFile
<1>. QED
  BY <1>1, <1>2, <1>3, <1>4, <1>5, <1>6, <1>7, <1>8, <1>9, <1>10 DEF DirectoryInv

(* A failed open deletes its own lock file only, and no served identity. *)
LEMMA OpenFailsInv ==
  ASSUME DirectoryInv, NEW i \in Instances, InstanceOpenFails(i)
  PROVE  DirectoryInv'
<1>1. DirectoryTypeOK'
  <2>1. content' \in [IdentityFiles -> Identities \cup {Torn}]
    BY Zenon DEF DirectoryInv, DirectoryTypeOK, InstanceOpenFails, AbandonWrite
  <2>2. outages' \in Nat
    BY DEF DirectoryInv, DirectoryTypeOK, InstanceOpenFails
  <2>. QED
    BY <2>1, <2>2 DEF DirectoryInv, DirectoryTypeOK, Stages, InstanceOpenFails, Ends, Goto
<1>2. AtMostOneOwner'
  BY DEF DirectoryInv, DirectoryTypeOK, AtMostOneOwner, Owns, Owners, Opening,
         Initializing, InstanceOpenFails, Ends, Goto
<1>3. OneJournalHolder'
  BY DEF DirectoryInv, OneJournalHolder, HoldsJournal, Serves, InstanceOpenFails, Ends, Goto
<1>4. WritersSeeWholeHistory'
  BY DEF DirectoryInv, DirectoryTypeOK, WritersSeeWholeHistory, MayAppend, Serves,
         File, InstanceOpenFails, AbandonWrite, Ends, Goto
<1>5. ServedIdentity'
  BY Zenon DEF DirectoryInv, DirectoryTypeOK, ServedIdentity, Serves, File, InstanceOpenFails,
               AbandonWrite, Ends, Goto, IdentityStages, Creates, IdentityFiles
<1>6. IdentityStages'
  BY DEF DirectoryInv, DirectoryTypeOK, IdentityStages, Creates, Serves, InstanceOpenFails,
         AbandonWrite, Ends, Goto, IdentityFiles, AtMostOneOwner, Owns, Owners,
         Opening, Initializing
<1>7. HistoryStages'
  BY DEF DirectoryInv, DirectoryTypeOK, HistoryStages, NoConflictingHistory, Serves,
         File, InstanceOpenFails, Ends, Goto, Histories, HistoryFile, Identities, Modes
<1>8. NoCompetingHistories'
  BY DEF DirectoryInv, NoCompetingHistories, Histories, InstanceOpenFails
<1>9. SyncedNames'
  BY DEF DirectoryInv, SyncedNames, InstanceOpenFails
<1>10. AcknowledgedBlocksKeepIdentity'
  BY DEF DirectoryInv, DirectoryTypeOK, AcknowledgedBlocksKeepIdentity, InstanceOpenFails,
         IdentityFiles
<1>. QED
  BY <1>1, <1>2, <1>3, <1>4, <1>5, <1>6, <1>7, <1>8, <1>9, <1>10 DEF DirectoryInv

(* The one owner opens its history and has then seen all of it. *)
LEMMA OpenHistoryInv ==
  ASSUME DirectoryInv, NEW i \in Instances, OpenHistory(i)
  PROVE  DirectoryInv'
<1>1. DirectoryTypeOK'
  BY DEF DirectoryInv, DirectoryTypeOK, Names, Stages, Owners, Opening, Initializing,
         OpenHistory, JournalLockFree, Goto, File, Histories, HistoryFile
<1>2. AtMostOneOwner'
  BY DEF DirectoryInv, AtMostOneOwner, Owns, Owners, Opening, Initializing,
         OpenHistory, Goto
<1>3. OneJournalHolder'
  BY DEF DirectoryInv, OneJournalHolder, HoldsJournal, Serves, OpenHistory,
         JournalLockFree, Goto
<1>4. WritersSeeWholeHistory'
  BY DEF DirectoryInv, DirectoryTypeOK, WritersSeeWholeHistory, MayAppend, Serves,
         File, OpenHistory, JournalLockFree, Goto
<1>5. ServedIdentity'
  BY DEF DirectoryInv, DirectoryTypeOK, ServedIdentity, Serves, File, OpenHistory,
         JournalLockFree, Goto, IdentityStages
<1>6. IdentityStages'
  BY DEF DirectoryInv, DirectoryTypeOK, IdentityStages, Creates, Serves, OpenHistory,
         JournalLockFree, Goto, IdentityFiles, AtMostOneOwner, Owns, Owners, Opening,
         Initializing
<1>7. HistoryStages'
  <2>. SUFFICES ASSUME NEW j \in Instances
                PROVE  /\ pc'[j] \notin {"off", "locked"} =>
                           present' \cap (Histories \ {File(j)}) = {}
                       /\ Serves(j)' => File(j) \in present'
    BY DEF HistoryStages, NoConflictingHistory, File, OpenHistory
  <2>1. CASE j = i
    BY Zenon, <2>1 DEF DirectoryInv, DirectoryTypeOK, HistoryStages,
                       NoConflictingHistory, OpenHistory, Goto, Serves, File,
                       HistoryFile
  <2>2. CASE j # i
    <3>1. pc'[j] = pc[j]
      BY <2>2 DEF DirectoryInv, DirectoryTypeOK, OpenHistory, Goto
    <3>2. pc[j] \in {"off", "lingering"}
      BY <2>2 DEF DirectoryInv, DirectoryTypeOK, AtMostOneOwner, Owns, Owners,
                  Opening, Stages, Initializing, OpenHistory
    <3>3. pc[j] = "lingering" =>
            /\ File(j) \in present /\ File(j) \in Histories
            /\ present \cap (Histories \ {File(j)}) = {}
      BY Zenon DEF DirectoryInv, DirectoryTypeOK, HistoryStages, NoConflictingHistory,
                   Serves, File, HistoryFile, Histories, Identities, Modes
    <3>4. present \cap (Histories \ {File(i)}) = {}
      BY DEF DirectoryInv, HistoryStages, NoConflictingHistory, OpenHistory
    <3>5. "lock" \notin Histories
      BY DEF Histories
    <3>. QED
      BY <3>1, <3>2, <3>3, <3>4, <3>5 DEF OpenHistory, Serves
  <2>. QED
    BY <2>1, <2>2
<1>8. NoCompetingHistories'
  BY Zenon DEF DirectoryInv, DirectoryTypeOK, NoCompetingHistories, Histories,
               OpenHistory, HistoryStages, NoConflictingHistory, File, HistoryFile
<1>9. SyncedNames'
  BY DEF DirectoryInv, SyncedNames, OpenHistory
<1>10. AcknowledgedBlocksKeepIdentity'
  BY DEF DirectoryInv, AcknowledgedBlocksKeepIdentity, OpenHistory
<1>. QED
  BY <1>1, <1>2, <1>3, <1>4, <1>5, <1>6, <1>7, <1>8, <1>9, <1>10 DEF DirectoryInv

(* A failed open of the history leaves at most an empty file of its mode. *)
LEMMA OpenHistoryFailsInv ==
  ASSUME DirectoryInv, NEW i \in Instances, OpenHistoryFails(i)
  PROVE  DirectoryInv'
<1>1. DirectoryTypeOK'
  BY DEF DirectoryInv, DirectoryTypeOK, Names, Stages, Owners, Opening, Initializing,
         OpenHistoryFails, Ends, Goto, File, Histories, HistoryFile
<1>2. AtMostOneOwner'
  BY DEF DirectoryInv, DirectoryTypeOK, AtMostOneOwner, Owns, Owners, Opening,
         Initializing, OpenHistoryFails, Ends, Goto
<1>3. OneJournalHolder'
  BY DEF DirectoryInv, OneJournalHolder, HoldsJournal, Serves, OpenHistoryFails, Ends,
         Goto
<1>4. WritersSeeWholeHistory'
  BY DEF DirectoryInv, WritersSeeWholeHistory, MayAppend, Serves, File,
         OpenHistoryFails, Ends, Goto
<1>5. ServedIdentity'
  BY DEF DirectoryInv, ServedIdentity, Serves, File, OpenHistoryFails, Ends, Goto
<1>6. IdentityStages'
  BY DEF DirectoryInv, DirectoryTypeOK, IdentityStages, Creates, Serves,
         OpenHistoryFails, Ends, Goto, IdentityFiles
<1>7. HistoryStages'
  <2>. SUFFICES ASSUME NEW j \in Instances
                PROVE  /\ pc'[j] \notin {"off", "locked"} =>
                           present' \cap (Histories \ {File(j)}) = {}
                       /\ Serves(j)' => File(j) \in present'
    BY DEF HistoryStages, NoConflictingHistory, File, OpenHistoryFails
  <2>1. CASE j = i
    BY <2>1 DEF DirectoryInv, DirectoryTypeOK, HistoryStages, NoConflictingHistory,
                OpenHistoryFails, Ends, Goto, Serves, File, HistoryFile
  <2>2. CASE j # i
    <3>1. pc'[j] = pc[j]
      BY <2>2 DEF DirectoryInv, DirectoryTypeOK, OpenHistoryFails, Ends, Goto
    <3>2. pc[j] \in {"off", "lingering"}
      BY <2>2 DEF DirectoryInv, DirectoryTypeOK, AtMostOneOwner, Owns, Owners,
                  Opening, Stages, Initializing, OpenHistoryFails
    <3>3. pc[j] = "lingering" =>
            /\ File(j) \in present /\ File(j) \in Histories
            /\ present \cap (Histories \ {File(j)}) = {}
      BY Zenon DEF DirectoryInv, DirectoryTypeOK, HistoryStages, NoConflictingHistory,
                   Serves, File, HistoryFile, Histories, Identities, Modes
    <3>4. present \cap (Histories \ {File(i)}) = {}
      BY DEF DirectoryInv, HistoryStages, NoConflictingHistory, OpenHistoryFails
    <3>5. "lock" \notin Histories
      BY DEF Histories
    <3>. QED
      BY <3>1, <3>2, <3>3, <3>4, <3>5 DEF OpenHistoryFails, Serves
  <2>. QED
    BY <2>1, <2>2
<1>8. NoCompetingHistories'
  BY Zenon DEF DirectoryInv, DirectoryTypeOK, NoCompetingHistories, Histories,
               OpenHistoryFails, HistoryStages, NoConflictingHistory, File,
               HistoryFile
<1>9. SyncedNames'
  BY DEF DirectoryInv, SyncedNames, OpenHistoryFails
<1>10. AcknowledgedBlocksKeepIdentity'
  BY DEF DirectoryInv, DirectoryTypeOK, AcknowledgedBlocksKeepIdentity,
         OpenHistoryFails, IdentityFiles
<1>. QED
  BY <1>1, <1>2, <1>3, <1>4, <1>5, <1>6, <1>7, <1>8, <1>9, <1>10 DEF DirectoryInv

(* The one writer of a history appends, and a block syncs the directory. *)
LEMMA AppendAcknowledgedInv ==
  ASSUME DirectoryInv, NEW i \in Instances, AppendAcknowledged(i)
  PROVE  DirectoryInv'
<1>1. DirectoryTypeOK'
  <2>1. File(i) \in Histories /\ config[i].genesis \in Geneses
    BY DEF DirectoryInv, DirectoryTypeOK, File, HistoryFile, Histories, Identities,
           Modes
  <2>2. history' \in [Histories -> Seq(Geneses)]
    BY <2>1 DEF DirectoryInv, DirectoryTypeOK, AppendAcknowledged, AppendEntry
  <2>3. acknowledged' \in [Histories -> Nat] /\ view' \in [Instances -> Nat]
    BY <2>1 DEF DirectoryInv, DirectoryTypeOK, AppendAcknowledged
  <2>4. durable' \subseteq Names
    BY DEF DirectoryInv, DirectoryTypeOK, AppendAcknowledged, SyncParentDirectory
  <2>. QED
    BY <2>2, <2>3, <2>4 DEF DirectoryInv, DirectoryTypeOK, AppendAcknowledged
<1>2. AtMostOneOwner'
  BY DEF DirectoryInv, AtMostOneOwner, Owns, Owners, Opening, Initializing,
         AppendAcknowledged
<1>3. OneJournalHolder'
  BY DEF DirectoryInv, OneJournalHolder, HoldsJournal, Serves, AppendAcknowledged
<1>4. WritersSeeWholeHistory'
  BY DEF DirectoryInv, DirectoryTypeOK, WritersSeeWholeHistory, MayAppend, Serves,
         File, AppendAcknowledged, AppendEntry, SyncParentDirectory, Histories,
         HistoryFile, Identities, Modes, AtMostOneOwner, Owns, Owners, Opening,
         Initializing, OneJournalHolder, HoldsJournal
<1>5. ServedIdentity'
  <2>. SUFFICES ASSUME NEW j \in Instances, Serves(j)
                PROVE  /\ content["manifest"] = config[j]
                       /\ \A n \in 1..Len(history'[File(j)]) :
                            history'[File(j)][n] = config[j].genesis
    BY DEF ServedIdentity, Serves, File, AppendAcknowledged
  <2>1. content["manifest"] = config[j] /\ config[i] = config[j]
    BY DEF DirectoryInv, ServedIdentity, MayAppend, AppendAcknowledged
  <2>2. File(i) = File(j) /\ File(j) \in Histories /\ config[j].genesis \in Geneses
    BY <2>1 DEF DirectoryInv, DirectoryTypeOK, File, HistoryFile, Histories,
                Identities, Modes
  <2>3. /\ history[File(j)] \in Seq(Geneses)
        /\ \A n \in 1..Len(history[File(j)]) : history[File(j)][n] = config[j].genesis
    BY <2>2 DEF DirectoryInv, DirectoryTypeOK, ServedIdentity
  <2>4. history'[File(j)] \in {history[File(j)], Append(history[File(j)], config[j].genesis)}
    BY <2>1, <2>2 DEF DirectoryInv, DirectoryTypeOK, AppendAcknowledged, AppendEntry
  <2>5. CASE history'[File(j)] = history[File(j)]
    BY <2>1, <2>3, <2>5
  <2>6. CASE history'[File(j)] = Append(history[File(j)], config[j].genesis)
    BY <2>1, <2>2, <2>3, <2>6, AppendUniform
  <2>. QED
    BY <2>4, <2>5, <2>6
<1>6. IdentityStages'
  BY DEF DirectoryInv, IdentityStages, Creates, Serves, AppendAcknowledged,
         AppendEntry, SyncParentDirectory
<1>7. HistoryStages'
  BY DEF DirectoryInv, HistoryStages, NoConflictingHistory, Serves, File,
         AppendAcknowledged
<1>8. NoCompetingHistories'
  BY DEF DirectoryInv, NoCompetingHistories, Histories, AppendAcknowledged
<1>9. SyncedNames'
  BY DEF DirectoryInv, DirectoryTypeOK, SyncedNames, AppendAcknowledged, AppendEntry,
         SyncParentDirectory, File, Histories, HistoryFile, Identities, Modes,
         IdentityFiles, HistoryStages, IdentityStages, Serves, MayAppend
<1>10. AcknowledgedBlocksKeepIdentity'
  BY DEF DirectoryInv, DirectoryTypeOK, AcknowledgedBlocksKeepIdentity,
         AppendAcknowledged, AppendEntry, SyncParentDirectory, File, Histories,
         HistoryFile, Identities, Modes, IdentityFiles, HistoryStages, IdentityStages,
         Serves, MayAppend
<1>. QED
  BY <1>1, <1>2, <1>3, <1>4, <1>5, <1>6, <1>7, <1>8, <1>9, <1>10 DEF DirectoryInv

(* A failed append may leave an entry, but no writer that missed it. *)
LEMMA AppendFailsInv ==
  ASSUME DirectoryInv, NEW i \in Instances, AppendFails(i)
  PROVE  DirectoryInv'
<1>1. DirectoryTypeOK'
  <2>1. File(i) \in Histories /\ config[i].genesis \in Geneses
    BY DEF DirectoryInv, DirectoryTypeOK, File, HistoryFile, Histories, Identities,
           Modes
  <2>2. CASE UNCHANGED history
    BY <2>2 DEF DirectoryInv, DirectoryTypeOK, AppendFails, fileVars
  <2>3. CASE AppendEntry(i)
    <3>1. history' \in [Histories -> Seq(Geneses)]
      BY <2>1, <2>3 DEF DirectoryInv, DirectoryTypeOK, AppendEntry
    <3>. QED
      BY <3>1 DEF DirectoryInv, DirectoryTypeOK, AppendFails, fileVars
  <2>. QED
    BY <2>2, <2>3 DEF AppendFails
<1>2. AtMostOneOwner'
  BY DEF DirectoryInv, AtMostOneOwner, Owns, Owners, Opening, Initializing,
         AppendFails, fileVars
<1>3. OneJournalHolder'
  BY DEF DirectoryInv, OneJournalHolder, HoldsJournal, Serves, AppendFails, fileVars
<1>4. WritersSeeWholeHistory'
  BY DEF DirectoryInv, DirectoryTypeOK, WritersSeeWholeHistory, MayAppend, Serves,
         File, AppendFails, AppendEntry, fileVars, Histories, HistoryFile, Identities,
         Modes, AtMostOneOwner, Owns, Owners, Opening, Initializing, OneJournalHolder,
         HoldsJournal
<1>5. ServedIdentity'
  <2>. SUFFICES ASSUME NEW j \in Instances, Serves(j)
                PROVE  /\ content["manifest"] = config[j]
                       /\ \A n \in 1..Len(history'[File(j)]) :
                            history'[File(j)][n] = config[j].genesis
    BY DEF ServedIdentity, Serves, File, AppendFails, fileVars
  <2>1. content["manifest"] = config[j] /\ config[i] = config[j]
    BY DEF DirectoryInv, ServedIdentity, MayAppend, AppendFails
  <2>2. File(i) = File(j) /\ File(j) \in Histories /\ config[j].genesis \in Geneses
    BY <2>1 DEF DirectoryInv, DirectoryTypeOK, File, HistoryFile, Histories,
                Identities, Modes
  <2>3. /\ history[File(j)] \in Seq(Geneses)
        /\ \A n \in 1..Len(history[File(j)]) : history[File(j)][n] = config[j].genesis
    BY <2>2 DEF DirectoryInv, DirectoryTypeOK, ServedIdentity
  <2>4. history'[File(j)] \in {history[File(j)], Append(history[File(j)], config[j].genesis)}
    BY <2>1, <2>2 DEF DirectoryInv, DirectoryTypeOK, AppendFails, AppendEntry
  <2>5. CASE history'[File(j)] = history[File(j)]
    BY <2>1, <2>3, <2>5
  <2>6. CASE history'[File(j)] = Append(history[File(j)], config[j].genesis)
    BY <2>1, <2>2, <2>3, <2>6, AppendUniform
  <2>. QED
    BY <2>4, <2>5, <2>6
<1>6. IdentityStages'
  BY DEF DirectoryInv, IdentityStages, Creates, Serves, AppendFails, AppendEntry,
         fileVars
<1>7. HistoryStages'
  BY DEF DirectoryInv, HistoryStages, NoConflictingHistory, Serves, File, AppendFails,
         fileVars
<1>8. NoCompetingHistories'
  BY DEF DirectoryInv, NoCompetingHistories, Histories, AppendFails, AppendEntry,
         fileVars
<1>9. SyncedNames'
  BY DEF DirectoryInv, SyncedNames, AppendFails, AppendEntry, fileVars
<1>10. AcknowledgedBlocksKeepIdentity'
  BY DEF DirectoryInv, DirectoryTypeOK, AcknowledgedBlocksKeepIdentity, AppendFails,
         AppendEntry, fileVars, File, Histories, HistoryFile, Identities, Modes
<1>. QED
  BY <1>1, <1>2, <1>3, <1>4, <1>5, <1>6, <1>7, <1>8, <1>9, <1>10 DEF DirectoryInv

(* The owner's lock file goes; its connection threads keep the journal. *)
LEMMA DropServiceInv ==
  ASSUME DirectoryInv, NEW i \in Instances, DropService(i)
  PROVE  DirectoryInv'
<1>a. PICK s \in {"off", "lingering"} :
        /\ pc[i] = "serving" /\ Goto(i, s)
        /\ s = "lingering" => config[i].mode = "CometBlockJournalV1"
  BY DEF DropService, Ends
<1>b. view' \in [Instances -> Nat]
  BY DEF DropService, Ends, DirectoryInv, DirectoryTypeOK
<1>c. mayWrite' \in [Instances -> BOOLEAN]
  BY Zenon DEF DropService, Ends, DirectoryInv, DirectoryTypeOK
<1>d. /\ present' = present \ {"lock"}
      /\ UNCHANGED <<durable, content, unsynced, history, acknowledged, config, outages>>
  BY DEF DropService
<1>1. DirectoryTypeOK'
  BY Zenon, <1>a, <1>b, <1>c, <1>d DEF DirectoryInv, DirectoryTypeOK, Goto, Stages
<1>2. AtMostOneOwner'
  BY <1>a DEF DirectoryInv, DirectoryTypeOK, AtMostOneOwner, Owns, Owners, Opening,
              Initializing, Goto
<1>3. OneJournalHolder'
  BY <1>a DEF DirectoryInv, OneJournalHolder, HoldsJournal, Serves, DropService, Goto
<1>4. WritersSeeWholeHistory'
  BY Zenon DEF DirectoryInv, DirectoryTypeOK, WritersSeeWholeHistory, MayAppend,
               Serves, File, DropService, Ends, Goto
<1>5. ServedIdentity'
  BY <1>a, <1>d DEF DirectoryInv, DirectoryTypeOK, ServedIdentity, Serves, File, Goto
<1>6. IdentityStages'
  BY <1>a, <1>d DEF DirectoryInv, DirectoryTypeOK, IdentityStages, Creates, Serves,
                    Goto, IdentityFiles
<1>7. HistoryStages'
  BY <1>a, <1>d DEF DirectoryInv, DirectoryTypeOK, HistoryStages,
                    NoConflictingHistory, Serves, File, Goto, Histories, HistoryFile
<1>8. NoCompetingHistories'
  BY DEF DirectoryInv, NoCompetingHistories, Histories, DropService
<1>9. SyncedNames'
  BY DEF DirectoryInv, SyncedNames, DropService
<1>10. AcknowledgedBlocksKeepIdentity'
  BY DEF DirectoryInv, DirectoryTypeOK, AcknowledgedBlocksKeepIdentity, DropService,
         IdentityFiles
<1>. QED
  BY <1>1, <1>2, <1>3, <1>4, <1>5, <1>6, <1>7, <1>8, <1>9, <1>10 DEF DirectoryInv

(* The last connection thread of a dropped service ends. *)
LEMMA LastConnectionEndsInv ==
  ASSUME DirectoryInv, NEW i \in Instances, LastConnectionEnds(i)
  PROVE  DirectoryInv'
<1>1. DirectoryTypeOK'
  BY DEF DirectoryInv, DirectoryTypeOK, Names, Stages, Owners, Opening, Initializing,
         LastConnectionEnds, Ends, Goto, fileVars
<1>2. AtMostOneOwner'
  BY DEF DirectoryInv, AtMostOneOwner, Owns, Owners, Opening, Initializing,
         LastConnectionEnds, Ends, Goto, fileVars
<1>3. OneJournalHolder'
  BY DEF DirectoryInv, OneJournalHolder, HoldsJournal, Serves, LastConnectionEnds, Ends,
         Goto, fileVars
<1>4. WritersSeeWholeHistory'
  BY DEF DirectoryInv, DirectoryTypeOK, WritersSeeWholeHistory, MayAppend, Serves, File,
         LastConnectionEnds, Ends, Goto, fileVars
<1>5. ServedIdentity'
  BY DEF DirectoryInv, ServedIdentity, Serves, File, LastConnectionEnds, Ends, Goto,
         fileVars
<1>6. IdentityStages'
  BY DEF DirectoryInv, IdentityStages, Creates, Serves, LastConnectionEnds, Ends, Goto,
         fileVars
<1>7. HistoryStages'
  BY DEF DirectoryInv, HistoryStages, NoConflictingHistory, Serves, File,
         LastConnectionEnds, Ends, Goto, fileVars
<1>8. NoCompetingHistories'
  BY DEF DirectoryInv, NoCompetingHistories, Histories, LastConnectionEnds, Ends, Goto,
         fileVars
<1>9. SyncedNames'
  BY DEF DirectoryInv, SyncedNames, LastConnectionEnds, Ends, Goto, fileVars
<1>10. AcknowledgedBlocksKeepIdentity'
  BY DEF DirectoryInv, AcknowledgedBlocksKeepIdentity, LastConnectionEnds, Ends, Goto,
         fileVars
<1>. QED
  BY <1>1, <1>2, <1>3, <1>4, <1>5, <1>6, <1>7, <1>8, <1>9, <1>10 DEF DirectoryInv

(* A killed instance leaves its lock file and the file it was writing. *)
LEMMA KilledInv ==
  ASSUME DirectoryInv, NEW i \in Instances, InstanceKilled(i)
  PROVE  DirectoryInv'
<1>1. DirectoryTypeOK'
  BY DEF DirectoryInv, DirectoryTypeOK, Names, Stages, Owners, Opening, Initializing,
         InstanceKilled, AbandonWrite, Ends, Goto, IdentityFiles
<1>2. AtMostOneOwner'
  BY DEF DirectoryInv, AtMostOneOwner, Owns, Owners, Opening, Initializing, InstanceKilled,
         Ends, Goto
<1>3. OneJournalHolder'
  BY DEF DirectoryInv, OneJournalHolder, HoldsJournal, Serves, InstanceKilled, Ends, Goto
<1>4. WritersSeeWholeHistory'
  BY DEF DirectoryInv, DirectoryTypeOK, WritersSeeWholeHistory, MayAppend, Serves,
         File, InstanceKilled, AbandonWrite, Ends, Goto
<1>5. ServedIdentity'
  BY DEF DirectoryInv, DirectoryTypeOK, ServedIdentity, Serves, File, InstanceKilled,
         AbandonWrite, Ends, Goto, IdentityStages, Creates, IdentityFiles
<1>6. IdentityStages'
  BY DEF DirectoryInv, DirectoryTypeOK, IdentityStages, Creates, Serves, InstanceKilled,
         AbandonWrite, Ends, Goto, IdentityFiles, AtMostOneOwner, Owns, Owners,
         Opening, Initializing
<1>7. HistoryStages'
  BY DEF DirectoryInv, HistoryStages, NoConflictingHistory, Serves, File, InstanceKilled,
         Ends, Goto
<1>8. NoCompetingHistories'
  BY DEF DirectoryInv, NoCompetingHistories, Histories, InstanceKilled
<1>9. SyncedNames'
  BY DEF DirectoryInv, SyncedNames, InstanceKilled
<1>10. AcknowledgedBlocksKeepIdentity'
  BY DEF DirectoryInv, AcknowledgedBlocksKeepIdentity, InstanceKilled
<1>. QED
  BY <1>1, <1>2, <1>3, <1>4, <1>5, <1>6, <1>7, <1>8, <1>9, <1>10 DEF DirectoryInv

(* An instance that is off may be given another configuration. *)
LEMMA ReconfigureInv ==
  ASSUME DirectoryInv, NEW i \in Instances, Reconfigure(i)
  PROVE  DirectoryInv'
<1>1. DirectoryTypeOK'
  BY DEF DirectoryInv, DirectoryTypeOK, Names, Stages, Owners, Opening, Initializing,
         Reconfigure, fileVars
<1>2. AtMostOneOwner'
  BY DEF DirectoryInv, AtMostOneOwner, Owns, Owners, Opening, Initializing,
         Reconfigure, fileVars
<1>3. OneJournalHolder'
  BY DEF DirectoryInv, OneJournalHolder, HoldsJournal, Serves, Reconfigure, fileVars
<1>4. WritersSeeWholeHistory'
  BY DEF DirectoryInv, WritersSeeWholeHistory, MayAppend, Serves, File, Reconfigure,
         fileVars
<1>5. ServedIdentity'
  BY DEF DirectoryInv, ServedIdentity, Serves, File, Reconfigure, fileVars
<1>6. IdentityStages'
  BY DEF DirectoryInv, IdentityStages, Creates, Serves, Reconfigure, fileVars
<1>7. HistoryStages'
  BY DEF DirectoryInv, HistoryStages, NoConflictingHistory, Serves, File, Reconfigure,
         fileVars
<1>8. NoCompetingHistories'
  BY DEF DirectoryInv, NoCompetingHistories, Histories, Reconfigure, fileVars
<1>9. SyncedNames'
  BY DEF DirectoryInv, SyncedNames, Reconfigure, fileVars
<1>10. AcknowledgedBlocksKeepIdentity'
  BY DEF DirectoryInv, AcknowledgedBlocksKeepIdentity, Reconfigure, fileVars
<1>. QED
  BY <1>1, <1>2, <1>3, <1>4, <1>5, <1>6, <1>7, <1>8, <1>9, <1>10 DEF DirectoryInv

(* A power loss ends all instances and keeps the synced names. *)
LEMMA PowerLossInv ==
  ASSUME DirectoryInv, DirectoryPowerLoss
  PROVE  DirectoryInv'
<1>1. DirectoryTypeOK'
  BY DEF DirectoryInv, DirectoryTypeOK, Names, Stages, Owners, Opening, Initializing,
         DirectoryPowerLoss
<1>2. AtMostOneOwner'
  BY DEF DirectoryInv, AtMostOneOwner, Owns, Owners, Opening, Initializing, DirectoryPowerLoss
<1>3. OneJournalHolder'
  BY DEF DirectoryInv, OneJournalHolder, HoldsJournal, Serves, DirectoryPowerLoss
<1>4. WritersSeeWholeHistory'
  BY DEF DirectoryInv, WritersSeeWholeHistory, MayAppend, Serves, File, DirectoryPowerLoss
<1>5. ServedIdentity'
  BY DEF DirectoryInv, ServedIdentity, Serves, File, DirectoryPowerLoss
<1>6. IdentityStages'
  BY DEF DirectoryInv, IdentityStages, Creates, Serves, DirectoryPowerLoss
<1>7. HistoryStages'
  BY DEF DirectoryInv, HistoryStages, NoConflictingHistory, Serves, File, DirectoryPowerLoss
<1>8. NoCompetingHistories'
  <2>1. present' \subseteq present \cup {"lock"}
    BY DEF DirectoryInv, SyncedNames, DirectoryPowerLoss
  <2>. QED
    BY <2>1 DEF DirectoryInv, NoCompetingHistories, Histories
<1>9. SyncedNames'
  BY DEF DirectoryInv, DirectoryTypeOK, SyncedNames, DirectoryPowerLoss, IdentityFiles,
         Histories
<1>10. AcknowledgedBlocksKeepIdentity'
  BY DEF DirectoryInv, DirectoryTypeOK, AcknowledgedBlocksKeepIdentity, DirectoryPowerLoss,
         IdentityFiles, Histories, SyncedNames
<1>. QED
  BY <1>1, <1>2, <1>3, <1>4, <1>5, <1>6, <1>7, <1>8, <1>9, <1>10 DEF DirectoryInv

(* An operator removes a lock file that no instance owns. *)
LEMMA RemoveStaleLockInv ==
  ASSUME DirectoryInv, RemoveStaleLock
  PROVE  DirectoryInv'
<1>1. DirectoryTypeOK'
  BY DEF DirectoryInv, DirectoryTypeOK, Names, Stages, Owners, Opening, Initializing,
         RemoveStaleLock, instanceVars
<1>2. AtMostOneOwner'
  BY DEF DirectoryInv, AtMostOneOwner, Owns, Owners, Opening, Initializing,
         RemoveStaleLock, instanceVars
<1>3. OneJournalHolder'
  BY DEF DirectoryInv, OneJournalHolder, HoldsJournal, Serves, RemoveStaleLock,
         instanceVars
<1>4. WritersSeeWholeHistory'
  BY DEF DirectoryInv, WritersSeeWholeHistory, MayAppend, Serves, File,
         RemoveStaleLock, instanceVars
<1>5. ServedIdentity'
  BY DEF DirectoryInv, ServedIdentity, Serves, File, RemoveStaleLock, instanceVars
<1>6. IdentityStages'
  BY DEF DirectoryInv, DirectoryTypeOK, IdentityStages, Creates, Serves,
         RemoveStaleLock, instanceVars, IdentityFiles
<1>7. HistoryStages'
  BY DEF DirectoryInv, DirectoryTypeOK, HistoryStages, NoConflictingHistory, Serves,
         File, RemoveStaleLock, instanceVars, Histories, HistoryFile, Identities,
         Modes
<1>8. NoCompetingHistories'
  BY DEF DirectoryInv, NoCompetingHistories, Histories, RemoveStaleLock, instanceVars
<1>9. SyncedNames'
  BY DEF DirectoryInv, SyncedNames, RemoveStaleLock, instanceVars
<1>10. AcknowledgedBlocksKeepIdentity'
  BY DEF DirectoryInv, DirectoryTypeOK, AcknowledgedBlocksKeepIdentity,
         RemoveStaleLock, instanceVars, IdentityFiles
<1>. QED
  BY <1>1, <1>2, <1>3, <1>4, <1>5, <1>6, <1>7, <1>8, <1>9, <1>10 DEF DirectoryInv

(* DirectoryInit establishes the invariant. *)
LEMMA InitInv ==
  ASSUME DirectoryInit
  PROVE  DirectoryInv
<1>1. \A i \in Instances : ~Owns(i) /\ ~Serves(i) /\ pc[i] = "off"
  BY DEF DirectoryInit, Owns, Serves, Owners, Opening, Initializing
<1>2. DirectoryTypeOK
  BY <1>1 DEF DirectoryInit, DirectoryTypeOK, Names, IdentityFiles, Histories, Stages
<1>3. AtMostOneOwner /\ OneJournalHolder /\ WritersSeeWholeHistory /\ ServedIdentity
  BY <1>1 DEF AtMostOneOwner, OneJournalHolder, HoldsJournal,
              WritersSeeWholeHistory, MayAppend, ServedIdentity
<1>4. IdentityStages /\ HistoryStages
  BY <1>1 DEF IdentityStages, HistoryStages, Creates
<1>5. NoCompetingHistories /\ SyncedNames /\ AcknowledgedBlocksKeepIdentity
  BY DEF DirectoryInit, NoCompetingHistories, SyncedNames,
         AcknowledgedBlocksKeepIdentity, Histories
<1>. QED
  BY <1>2, <1>3, <1>4, <1>5 DEF DirectoryInv

(* A step that leaves every variable alone keeps the invariant. *)
LEMMA StutterInv ==
  ASSUME DirectoryInv, UNCHANGED directoryVars
  PROVE  DirectoryInv'
<1>1. UNCHANGED <<present, durable, content, unsynced, history, acknowledged,
                  pc, config, view, mayWrite, outages>>
  BY DEF directoryVars, fileVars, instanceVars
<1>2. DirectoryTypeOK' /\ AtMostOneOwner' /\ OneJournalHolder' /\ WritersSeeWholeHistory'
  BY <1>1 DEF DirectoryInv, DirectoryTypeOK, AtMostOneOwner, OneJournalHolder,
              WritersSeeWholeHistory, Owns, HoldsJournal, Serves, MayAppend, File
<1>3. ServedIdentity' /\ IdentityStages' /\ HistoryStages'
  BY <1>1 DEF DirectoryInv, ServedIdentity, IdentityStages, HistoryStages,
              NoConflictingHistory, Creates, Serves, File
<1>4. NoCompetingHistories' /\ SyncedNames' /\ AcknowledgedBlocksKeepIdentity'
  BY <1>1 DEF DirectoryInv, NoCompetingHistories, SyncedNames,
              AcknowledgedBlocksKeepIdentity
<1>. QED
  BY <1>2, <1>3, <1>4 DEF DirectoryInv

(* Every step of any instance, and every fault, keeps the invariant. *)
LEMMA NextInv ==
  ASSUME DirectoryInv, [DirectoryNext]_directoryVars
  PROVE  DirectoryInv'
<1>1. ASSUME NEW i \in Instances,
             \/ Acquire(i) \/ FindsNoIdentity(i) \/ FindsIdentity(i)
             \/ WriteIdentity(i) \/ InstanceOpenFails(i)
      PROVE  DirectoryInv'
  BY <1>1, AcquireInv, FindsNoIdentityInv, FindsIdentityInv, WriteIdentityInv,
     OpenFailsInv
<1>2. ASSUME NEW i \in Instances,
             \/ OpenHistory(i) \/ OpenHistoryFails(i)
             \/ AppendAcknowledged(i) \/ AppendFails(i)
      PROVE  DirectoryInv'
  BY <1>2, OpenHistoryInv, OpenHistoryFailsInv, AppendAcknowledgedInv,
     AppendFailsInv
<1>3. ASSUME NEW i \in Instances,
             \/ DropService(i) \/ LastConnectionEnds(i)
             \/ InstanceKilled(i) \/ Reconfigure(i)
      PROVE  DirectoryInv'
  BY <1>3, DropServiceInv, LastConnectionEndsInv, KilledInv, ReconfigureInv
<1>4. CASE DirectoryPowerLoss
  BY <1>4, PowerLossInv
<1>5. CASE RemoveStaleLock
  BY <1>5, RemoveStaleLockInv
<1>6. CASE UNCHANGED directoryVars
  BY <1>6, StutterInv
<1>. QED
  BY <1>1, <1>2, <1>3, <1>4, <1>5, <1>6 DEF DirectoryNext

(***************************************************************************)
(* The theorems.                                                           *)
(***************************************************************************)
(* The inductive invariant holds for any number of instances, geneses,     *)
(* entries and faults of a data directory.                                 *)
THEOREM DirectoryInvariant == DirectorySpec => []DirectoryInv
<1>1. DirectoryInit => DirectoryInv
  BY InitInv
<1>2. DirectoryInv /\ [DirectoryNext]_directoryVars => DirectoryInv'
  BY NextInv
<1>. QED
  BY <1>1, <1>2, PTL DEF DirectorySpec

(* DirectoryLock::acquire admits one owner at a time, after any crashes. *)
THEOREM OneOwner == DirectorySpec => []AtMostOneOwner
<1>1. DirectoryInv => AtMostOneOwner
  BY DEF DirectoryInv
<1>. QED
  BY <1>1, DirectoryInvariant, PTL

(* No service appends to a history of which it has not seen every entry,   *)
(* although the lock file is deleted before the connection threads end.    *)
THEOREM NoStaleWriter == DirectorySpec => []WritersSeeWholeHistory
<1>1. DirectoryInv => WritersSeeWholeHistory
  BY DEF DirectoryInv
<1>. QED
  BY <1>1, DirectoryInvariant, PTL

(* A service runs under the identity of the manifest, and the history it   *)
(* serves has entries of that genesis only.                                *)
THEOREM OneGenesis == DirectorySpec => []ServedIdentity
<1>1. DirectoryInv => ServedIdentity
  BY DEF DirectoryInv
<1>. QED
  BY <1>1, DirectoryInvariant, PTL

(* open_or_initialize_with_storage_mode never lets a record log and a      *)
(* block journal stand in one directory.                                   *)
THEOREM OneHistory == DirectorySpec => []NoCompetingHistories
<1>1. DirectoryInv => NoCompetingHistories
  BY DEF DirectoryInv
<1>. QED
  BY <1>1, DirectoryInvariant, PTL

(* After append_block acknowledged a block, the block and the identity     *)
(* files survive every crash and power loss.                               *)
THEOREM BlocksKeepIdentity == DirectorySpec => []AcknowledgedBlocksKeepIdentity
<1>1. DirectoryInv => AcknowledgedBlocksKeepIdentity
  BY DEF DirectoryInv
<1>. QED
  BY <1>1, DirectoryInvariant, PTL
=============================================================================
