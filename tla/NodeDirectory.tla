---------------------------- MODULE NodeDirectory ----------------------------
(***************************************************************************)
(* The data directory of a node: NodeRuntime of noxis-runtime, which       *)
(* creates or checks the identity files under a lock file, composed with   *)
(* the two services of noxis-node that append to a history in it.          *)
(*                                                                         *)
(* Several instances of a service may be started on one directory, in one  *)
(* process or in several.  An instance may be killed at any step, an I/O   *)
(* error may end any open, and a power loss ends all instances and takes   *)
(* back what the file system had not made durable: the bytes of a file     *)
(* that was not synced, and changes of the directory since its last sync.  *)
(***************************************************************************)
EXTENDS Integers, Sequences

CONSTANTS
  Instances,   \* started services
  Geneses,     \* genesis configurations an operator may supply
  Torn,        \* what a file that does not decode holds
  MaxEntries,  \* bound: entries of a history
  MaxOutages   \* bound: kills, power losses and failed writes

(* StorageMode: a record log belongs to LocalNodeRuntime, a block journal  *)
(* to CometNodeService.                                                    *)
Modes == {"LocalRecordLogV1", "CometBlockJournalV1"}
Identities == [genesis : Geneses, mode : Modes]
IdentityFiles == {"genesis", "manifest"}
Histories == {"ledger.nxrf", "blocks.nxcb"}
Names == {"lock"} \cup IdentityFiles \cup Histories

HistoryFile(mode) ==
  IF mode = "LocalRecordLogV1" THEN "ledger.nxrf" ELSE "blocks.nxcb"

ASSUME DirectoryAssumption ==
  /\ Torn \notin Identities
  /\ MaxEntries \in Nat /\ MaxOutages \in Nat

VARIABLES
  present,   \* the names in the directory
  durable,   \* the names in it when the directory was last synced
  content,   \* what each identity file decodes to, Torn where it does not
  unsynced,  \* the identity files whose bytes no sync_all has covered
  history,   \* history[f]: for each entry of f the genesis it belongs to
  acknowledged, \* acknowledged[f]: entries of f up to the last acknowledged one
  pc,        \* where each instance is
  config,    \* the identity each instance was started with
  view,      \* entries of its history each instance has replayed or written
  mayWrite,  \* FALSE once an append of the instance has failed
  outages    \* kills, power losses and failed writes so far

fileVars == <<present, durable, content, unsynced>>
instanceVars == <<pc, config, view, mayWrite>>
directoryVars == <<fileVars, history, acknowledged, instanceVars, outages>>

(* Before NodeRuntime::open returns, and while the runtime is held.        *)
Initializing == {"locked", "create", "genesis", "genesisDone", "manifest"}
Opening == Initializing \cup {"ready"}
Owners == Opening \cup {"serving"}
Stages == Owners \cup {"off", "lingering"}

File(i) == HistoryFile(config[i].mode)
Owns(i) == pc[i] \in Owners
(* A service that was dropped lives on in its connection threads, each of  *)
(* which holds the core and with it the open journal.                      *)
Serves(i) == pc[i] \in {"serving", "lingering"}
MayAppend(i) == Serves(i) /\ mayWrite[i]

DirectoryInit ==
  /\ present = {} /\ durable = {} /\ unsynced = {}
  /\ content = [f \in IdentityFiles |-> Torn]
  /\ history = [f \in Histories |-> <<>>]
  /\ acknowledged = [f \in Histories |-> 0]
  /\ pc = [i \in Instances |-> "off"]
  /\ config \in [Instances -> Identities]
  /\ view = [i \in Instances |-> 0]
  /\ mayWrite = [i \in Instances |-> FALSE]
  /\ outages = 0

Goto(i, state) == pc' = [pc EXCEPT ![i] = state]

(* The instance is gone, and its memory with it. *)
Ends(i) ==
  /\ Goto(i, "off")
  /\ view' = [view EXCEPT ![i] = 0]
  /\ mayWrite' = [mayWrite EXCEPT ![i] = FALSE]

(***************************************************************************)
(* NodeRuntime::open_or_initialize_with_storage_mode.                      *)
(***************************************************************************)
(* Faulty: opens an existing lock file instead of insisting on a new one. *)
FaultyAcquire(i) ==
  /\ pc[i] = "off"
  /\ Goto(i, "locked")
  /\ present' = present \cup {"lock"}
  /\ UNCHANGED <<durable, content, unsynced, history, acknowledged, config, view, mayWrite,
                 outages>>

(* DirectoryLock::acquire: create_new fails on an existing lock file, and  *)
(* the instance then never owned anything.                                 *)
Acquire(i) ==
  /\ pc[i] = "off"
  /\ "lock" \notin present
  /\ Goto(i, "locked")
  /\ present' = present \cup {"lock"}
  /\ UNCHANGED <<durable, content, unsynced, history, acknowledged, config, view, mayWrite,
                 outages>>

NoConflictingHistory(i) == present \cap (Histories \ {File(i)}) = {}

(* Neither identity file exists: this instance creates both. *)
FindsNoIdentity(i) ==
  /\ pc[i] = "locked"
  /\ NoConflictingHistory(i)
  /\ present \cap IdentityFiles = {}
  /\ Goto(i, "create")
  /\ UNCHANGED <<fileVars, history, acknowledged, config, view, mayWrite, outages>>

(* Faulty: compares the two files with each other only. *)
FaultyIdentityMatches(i) ==
  /\ content["manifest"] # Torn
  /\ content["manifest"] = content["genesis"]

(* Both decode, are equal, and are what the instance was started with.     *)
IdentityMatches(i) ==
  /\ content["manifest"] = content["genesis"]
  /\ content["manifest"] = config[i]

FindsIdentity(i) ==
  /\ pc[i] = "locked"
  /\ NoConflictingHistory(i)
  /\ IdentityFiles \subseteq present
  /\ IdentityMatches(i)
  /\ Goto(i, "ready")
  /\ UNCHANGED <<fileVars, history, acknowledged, config, view, mayWrite, outages>>

(* write_new_file: create_new, then write_all and sync_all.  The genesis   *)
(* copy comes first, the manifest second.                                  *)
CreateFile(i, file, before, during) ==
  /\ pc[i] = before
  /\ file \notin present
  /\ Goto(i, during)
  /\ present' = present \cup {file}
  /\ content' = [content EXCEPT ![file] = Torn]
  /\ unsynced' = unsynced \cup {file}
  /\ UNCHANGED <<durable, history, acknowledged, config, view, mayWrite, outages>>

FillFile(i, file, during, after) ==
  /\ pc[i] = during
  /\ Goto(i, after)
  /\ content' = [content EXCEPT ![file] = config[i]]
  /\ unsynced' = unsynced \ {file}
  /\ UNCHANGED <<present, durable, history, acknowledged, config, view, mayWrite, outages>>

WriteIdentity(i) ==
  \/ CreateFile(i, "genesis", "create", "genesis")
  \/ FillFile(i, "genesis", "genesis", "genesisDone")
  \/ CreateFile(i, "manifest", "genesisDone", "manifest")
  \/ FillFile(i, "manifest", "manifest", "ready")

(* What stays of a file that an instance was writing: nothing that         *)
(* decodes, or all of it, in either case without a successful sync_all.    *)
AbandonWrite(i) ==
  IF pc[i] \in IdentityFiles
  THEN \E c \in {Torn, config[i]} : content' = [content EXCEPT ![pc[i]] = c]
  ELSE content' = content

(* An error return from any step of the opening, by a check that failed or *)
(* by an I/O error.  The lock guard is dropped and deletes the lock file.  *)
(* If the deletion fails, the error is ignored: what InstanceKilled leaves.*)
InstanceOpenFails(i) ==
  /\ pc[i] \in Opening
  /\ outages' = IF pc[i] \in IdentityFiles THEN outages + 1 ELSE outages
  /\ outages' <= MaxOutages
  /\ Ends(i)
  /\ present' = present \ {"lock"}
  /\ AbandonWrite(i)
  /\ UNCHANGED <<durable, unsynced, history, acknowledged, config>>

(***************************************************************************)
(* The history.  CometNodeService opens its journal under an operating     *)
(* system lock that lives as long as the open file; LocalNodeRuntime opens *)
(* its record log without one.  Replay refuses entries of another genesis. *)
(***************************************************************************)
HoldsJournal(i) == Serves(i) /\ config[i].mode = "CometBlockJournalV1"

(* Faulty: no try_lock_exclusive on the journal. *)
FaultyJournalLockFree(i) == TRUE

JournalLockFree(i) ==
  config[i].mode = "CometBlockJournalV1" => ~ \E j \in Instances : HoldsJournal(j)

OpenHistory(i) ==
  /\ pc[i] = "ready"
  /\ JournalLockFree(i)
  /\ \A n \in 1..Len(history[File(i)]) : history[File(i)][n] = config[i].genesis
  /\ Goto(i, "serving")
  /\ present' = present \cup {File(i)}
  /\ view' = [view EXCEPT ![i] = Len(history[File(i)])]
  /\ mayWrite' = [mayWrite EXCEPT ![i] = TRUE]
  /\ UNCHANGED <<durable, content, unsynced, history, acknowledged, config, outages>>

(* The open creates the file and fails after it: the file is locked, the   *)
(* replay refuses an entry, or the listener cannot be bound.               *)
OpenHistoryFails(i) ==
  /\ pc[i] = "ready"
  /\ Ends(i)
  /\ present' = (present \cup {File(i)}) \ {"lock"}
  /\ UNCHANGED <<durable, content, unsynced, history, acknowledged, config, outages>>

(* Only append_block syncs the directory that holds the history file.      *)
SyncParentDirectory(i) ==
  durable' = IF config[i].mode = "CometBlockJournalV1" THEN present ELSE durable

AppendEntry(i) ==
  history' = [history EXCEPT ![File(i)] = Append(@, config[i].genesis)]

(* A successful append writes and syncs one entry and is acknowledged.     *)
AppendAcknowledged(i) ==
  /\ MayAppend(i)
  /\ Len(history[File(i)]) < MaxEntries
  /\ AppendEntry(i)
  /\ acknowledged' = [acknowledged EXCEPT ![File(i)] = Len(history[File(i)]) + 1]
  /\ view' = [view EXCEPT ![i] = @ + 1]
  /\ SyncParentDirectory(i)
  /\ UNCHANGED <<present, content, unsynced, pc, config, mayWrite, outages>>

(* A failed one may have written the entry; the instance refuses the rest. *)
AppendFails(i) ==
  /\ MayAppend(i)
  /\ outages < MaxOutages
  /\ outages' = outages + 1
  /\ \/ UNCHANGED history
     \/ Len(history[File(i)]) < MaxEntries /\ AppendEntry(i)
  /\ mayWrite' = [mayWrite EXCEPT ![i] = FALSE]
  /\ UNCHANGED <<fileVars, acknowledged, pc, config, view>>

(* The service value is dropped: the runtime goes first and deletes the    *)
(* lock file, then the server.  Threads of open connections keep the core. *)
DropService(i) ==
  /\ pc[i] = "serving"
  /\ \/ Ends(i)
     \/ /\ config[i].mode = "CometBlockJournalV1"
        /\ Goto(i, "lingering")
        /\ UNCHANGED <<view, mayWrite>>
  /\ present' = present \ {"lock"}
  /\ UNCHANGED <<durable, content, unsynced, history, acknowledged, config, outages>>

LastConnectionEnds(i) ==
  /\ pc[i] = "lingering"
  /\ Ends(i)
  /\ UNCHANGED <<fileVars, history, acknowledged, config, outages>>

(***************************************************************************)
(* What happens to the instances from outside.                             *)
(***************************************************************************)
(* The process of an instance is killed: its lock file stays.  The entry   *)
(* it may have been writing is the one AppendFails leaves.                 *)
InstanceKilled(i) ==
  /\ pc[i] # "off"
  /\ outages < MaxOutages
  /\ outages' = outages + 1
  /\ Ends(i)
  /\ AbandonWrite(i)
  /\ UNCHANGED <<present, durable, unsynced, history, acknowledged, config>>

(* Names created or deleted since the last directory sync may be either    *)
(* way; files that were not synced may no longer decode; entries after the *)
(* last acknowledged one may be gone, and so is a history without a name.  *)
DirectoryPowerLoss ==
  /\ outages < MaxOutages
  /\ outages' = outages + 1
  /\ pc' = [i \in Instances |-> "off"]
  /\ view' = [i \in Instances |-> 0]
  /\ mayWrite' = [i \in Instances |-> FALSE]
  /\ \E names \in SUBSET (present \cup durable) :
       /\ present \cap durable \subseteq names
       /\ present' = names
       /\ durable' = names
       /\ \E torn \in SUBSET unsynced :
            content' = [f \in IdentityFiles |->
                          IF f \in torn \/ f \notin names THEN Torn ELSE content[f]]
       /\ unsynced' = {}
       /\ \E kept \in [Histories -> 0..MaxEntries] :
            /\ \A f \in Histories :
                 IF f \in names
                 THEN kept[f] <= Len(history[f])
                      /\ (kept[f] >= acknowledged[f] \/ kept[f] = Len(history[f]))
                 ELSE kept[f] = 0
            /\ history' = [f \in Histories |-> SubSeq(history[f], 1, kept[f])]
  /\ UNCHANGED <<acknowledged, config>>

(* An operator who has made sure that no instance runs removes a stale     *)
(* lock file, and may start an instance with another configuration.        *)
RemoveStaleLock ==
  /\ "lock" \in present
  /\ \A i \in Instances : ~Owns(i)
  /\ present' = present \ {"lock"}
  /\ UNCHANGED <<durable, content, unsynced, history, acknowledged, instanceVars, outages>>

Reconfigure(i) ==
  /\ pc[i] = "off"
  /\ \E id \in Identities \ {config[i]} : config' = [config EXCEPT ![i] = id]
  /\ UNCHANGED <<fileVars, history, acknowledged, pc, view, mayWrite, outages>>

DirectoryNext ==
  \/ \E i \in Instances :
       \/ Acquire(i) \/ FindsNoIdentity(i) \/ FindsIdentity(i)
       \/ WriteIdentity(i) \/ InstanceOpenFails(i)
       \/ OpenHistory(i) \/ OpenHistoryFails(i)
       \/ AppendAcknowledged(i) \/ AppendFails(i)
       \/ DropService(i) \/ LastConnectionEnds(i)
       \/ InstanceKilled(i) \/ Reconfigure(i)
  \/ DirectoryPowerLoss
  \/ RemoveStaleLock

DirectorySpec == DirectoryInit /\ [][DirectoryNext]_directoryVars

-----------------------------------------------------------------------------
DirectoryTypeOK ==
  /\ present \subseteq Names /\ durable \subseteq Names
  /\ content \in [IdentityFiles -> Identities \cup {Torn}]
  /\ unsynced \subseteq IdentityFiles
  /\ history \in [Histories -> Seq(Geneses)]
  /\ acknowledged \in [Histories -> Nat]
  /\ pc \in [Instances -> Stages]
  /\ config \in [Instances -> Identities]
  /\ view \in [Instances -> Nat]
  /\ mayWrite \in [Instances -> BOOLEAN]
  /\ outages \in Nat

(* The lock file admits one owner: at most one instance is between its     *)
(* DirectoryLock::acquire and the end of its runtime, whatever crashed     *)
(* before, and the lock file is there as long as it is.                    *)
AtMostOneOwner ==
  /\ \A i \in Instances : Owns(i) => "lock" \in present
  /\ \A i, j \in Instances : Owns(i) /\ Owns(j) => i = j

(* An instance that may append has seen every entry of its history, so two *)
(* instances never validate against the same prior state and both append.  *)
(* The lock file alone does not give this: a dropped CometNodeService has  *)
(* deleted it while its connection threads still write.                    *)
WritersSeeWholeHistory ==
  \A i \in Instances : MayAppend(i) => view[i] = Len(history[File(i)])

(* One genesis per directory: who serves it was started with the identity  *)
(* in the manifest, and every entry of the history it serves has that      *)
(* genesis (open_or_initialize "must not create a second genesis").        *)
ServedIdentity ==
  \A i \in Instances : Serves(i) =>
    /\ content["manifest"] = config[i]
    /\ \A n \in 1..Len(history[File(i)]) : history[File(i)][n] = config[i].genesis

(* A record log and a block journal never stand in one directory, also not *)
(* after a power loss took the manifest and left a history.                *)
NoCompetingHistories == ~(Histories \subseteq present)

(* Once append_block acknowledged a block, no power loss removes the block *)
(* or the identity files: the directory cannot be initialised again.       *)
AcknowledgedBlocksKeepIdentity ==
  acknowledged["blocks.nxcb"] > 0 =>
    /\ acknowledged["blocks.nxcb"] <= Len(history["blocks.nxcb"])
    /\ IdentityFiles \cup {"blocks.nxcb"} \subseteq present

(* What submit_canonical calls LocallyDurable is still in the record log   *)
(* after a power loss.                                                     *)
AcknowledgedRecordsKept == acknowledged["ledger.nxrf"] <= Len(history["ledger.nxrf"])

(* The manifest of a runtime is "durable": the identity a service runs     *)
(* under is on the storage device, and no power loss takes it back.        *)
ServedIdentityDurable == (\E i \in Instances : Serves(i)) => unsynced = {}

-----------------------------------------------------------------------------
(***************************************************************************)
(* The inductive invariant behind the safety properties.                   *)
(***************************************************************************)
(* The journal's file lock admits one holder, in connection threads of a   *)
(* dropped service too; only a journal service has such threads.           *)
OneJournalHolder ==
  /\ \A i \in Instances :
       pc[i] = "lingering" => config[i].mode = "CometBlockJournalV1"
  /\ \A i, j \in Instances : HoldsJournal(i) /\ HoldsJournal(j) => i = j

(* Who creates the identity files is alone, and who is past that has them. *)
Creates(i) == pc[i] \in {"create", "genesis", "genesisDone", "manifest"}

IdentityStages ==
  \A i \in Instances :
    /\ Creates(i) => \A j \in Instances : ~Serves(j)
    /\ pc[i] \in {"genesis", "genesisDone", "manifest"} => "genesis" \in present
    /\ pc[i] \in {"manifest", "ready", "serving", "lingering"} => IdentityFiles \subseteq present
    /\ pc[i] = "ready" => content["manifest"] = config[i]

(* An instance past its checks is the only kind with a history here. *)
HistoryStages ==
  \A i \in Instances :
    /\ pc[i] \notin {"off", "locked"} => NoConflictingHistory(i)
    /\ Serves(i) => File(i) \in present

(* Only the lock file is ever deleted, and what was acknowledged has its   *)
(* names in the synced directory.                                          *)
SyncedNames ==
  /\ durable \subseteq present \cup {"lock"}
  /\ acknowledged["blocks.nxcb"] > 0 => IdentityFiles \cup {"blocks.nxcb"} \subseteq durable

DirectoryInv ==
  /\ DirectoryTypeOK
  /\ AtMostOneOwner
  /\ OneJournalHolder
  /\ WritersSeeWholeHistory
  /\ ServedIdentity
  /\ IdentityStages
  /\ HistoryStages
  /\ NoCompetingHistories
  /\ SyncedNames
  /\ AcknowledgedBlocksKeepIdentity

(* What the runtime and the node call durable is: the manifest of a        *)
(* serving runtime, and the records that a submission acknowledged.        *)
PromisedDurable == ServedIdentityDurable /\ AcknowledgedRecordsKept

(* Ownership of the directory lasts as long as an instance may append.     *)
OwnershipCoversWriters == \A i \in Instances : MayAppend(i) => Owns(i)
=============================================================================
