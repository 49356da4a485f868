------------------------- MODULE PersistentExecution ------------------------
(***************************************************************************)
(* The durable execution of noxis-storage.  The NXCB journal file holds    *)
(* complete frames, possibly followed by the remains of an append that did *)
(* not finish; the file an open process sees is the page cache, and what   *)
(* survives a power loss is what has been synchronised, both the file's    *)
(* data and its directory entry.  PersistentExecution is the process that  *)
(* owns the journal and the tip it replayed from it: opening re-executes   *)
(* every complete frame before it touches an incomplete tail, and commit   *)
(* re-executes the candidate, appends one frame, and refuses every later   *)
(* write once an append has failed, until the journal is reopened.         *)
(***************************************************************************)
EXTENDS BlockExecution


CONSTANT TornWrites   \* can a power loss leave a final frame of full length
                      \* but with wrong bytes?

ASSUME TornAssumption == TornWrites \in BOOLEAN

VARIABLES
  frames,   \* the complete frames of the file, in order
  synced,   \* how many of them the last successful data sync covered
  entry,    \* has the parent directory been synced since the file exists?
  tail      \* "none", "partial" (an incomplete final frame) or "corrupt"

journalVars == <<frames, synced, entry, tail>>

JournalInit ==
  /\ frames = <<>>
  /\ synced = 0
  /\ entry = FALSE
  /\ tail = "none"

(* The frames that no crash can remove. *)
DurableCount == IF entry THEN synced ELSE 0

(***************************************************************************)
(* append_block seeks to the end, writes, flushes, syncs the data and then *)
(* the parent directory.  Bytes written after a partial frame do not start *)
(* a frame of their own: the scan would read them as part of it.           *)
(***************************************************************************)
WriteFrame(stored) ==
  /\ frames' = IF tail = "none" THEN Append(frames, stored) ELSE frames
  /\ tail' = IF tail = "none" THEN "none" ELSE "corrupt"
  /\ UNCHANGED <<synced, entry>>

WriteInterrupted ==
  /\ tail' = IF tail = "none" THEN "partial" ELSE "corrupt"
  /\ UNCHANGED <<frames, synced, entry>>

SyncData ==
  /\ synced' = Len(frames)
  /\ UNCHANGED <<frames, entry, tail>>

SyncParentDirectory ==
  /\ entry' = TRUE
  /\ UNCHANGED <<frames, synced, tail>>

(***************************************************************************)
(* truncate_verified_incomplete_tail: set_len, then sync_all.              *)
(***************************************************************************)
TruncateTail ==
  /\ tail = "partial"
  /\ tail' = "none"
  /\ synced' = Len(frames)
  /\ UNCHANGED <<frames, entry>>

(* set_len or sync_all fails, and the tail may or may not be gone; or the  *)
(* check of the shortened file fails after the sync.                       *)
TruncateTailFails ==
  /\ tail = "partial"
  /\ \/ tail' \in {"none", "partial"} /\ synced' = synced
     \/ tail' = "none" /\ synced' = Len(frames)
  /\ UNCHANGED <<frames, entry>>

(***************************************************************************)
(* A power loss.  Of the bytes that were not synchronised any prefix may   *)
(* survive and, where the file length was extended before its blocks were  *)
(* written, a frame with wrong bytes.  A file whose directory entry was    *)
(* never synced may be gone altogether.                                    *)
(***************************************************************************)
TailAfterPowerLoss(n) ==
  IF tail = "corrupt" THEN {"corrupt"}
  ELSE IF n = Len(frames) /\ tail = "none" THEN {"none"}
  ELSE {"none", "partial"} \cup (IF TornWrites THEN {"corrupt"} ELSE {})

UnsyncedBytesLost ==
  /\ \E n \in synced..Len(frames) :
       /\ frames' = SubSeq(frames, 1, n)
       /\ tail' \in TailAfterPowerLoss(n)
  /\ UNCHANGED <<synced, entry>>

FileLost ==
  /\ ~entry
  /\ frames' = <<>>
  /\ synced' = 0
  /\ tail' = "none"
  /\ UNCHANGED entry

PowerLossEffect == UnsyncedBytesLost \/ FileLost


VARIABLES
  proc,     \* "down", "replaying" or "serving"
  tip,      \* the committed state and AppHash in memory
  writes,   \* writes_available
  append    \* the append in progress: its block, and the phase it is in

executionVars == <<proc, tip, writes, append>>

(* An ExecutedBlock: the block and the tip its execution produced. *)
Executed(base, block) == [block |-> block, result |-> ExecuteBlock(base, block)]

NoAppend == [stored |-> None, phase |-> "idle"]

ExecutionInit ==
  /\ proc = "down"
  /\ tip = GenesisTip
  /\ writes = FALSE
  /\ append = NoAppend

(***************************************************************************)
(* open                                                                    *)
(***************************************************************************)
Open ==
  /\ proc = "down"
  /\ proc' = "replaying"
  /\ tip' = GenesisTip
  /\ UNCHANGED <<writes, append, journalVars>>

(* reexecute_stored: the frame executes from this tip and to what it says. *)
Reexecutes(base, stored) ==
  /\ Executes(base, stored.block)
  /\ ExecuteBlock(base, stored.block) = stored.result

(* Faulty: recovery restores the state but not the AppHash. *)
FaultyReplayFrame ==
  /\ proc = "replaying"
  /\ tip.height < Len(frames)
  /\ Reexecutes(tip, frames[tip.height + 1])
  /\ tip' = [frames[tip.height + 1].result EXCEPT !.app_hash = tip.app_hash]
  /\ UNCHANGED <<proc, writes, append, journalVars>>

ReplayFrame ==
  /\ proc = "replaying"
  /\ tip.height < Len(frames)
  /\ Reexecutes(tip, frames[tip.height + 1])
  /\ tip' = frames[tip.height + 1].result
  /\ UNCHANGED <<proc, writes, append, journalVars>>

(* A complete frame that does not re-execute, or bytes that are no frame   *)
(* and no prefix of one, make the open fail and leave the file alone.      *)
OpenRefused ==
  /\ proc = "replaying"
  /\ IF tip.height < Len(frames)
     THEN ~Reexecutes(tip, frames[tip.height + 1])
     ELSE tail = "corrupt"
  /\ proc' = "down"
  /\ tip' = GenesisTip
  /\ UNCHANGED <<writes, append, journalVars>>

OpenTailFails ==
  /\ proc = "replaying"
  /\ tip.height = Len(frames)
  /\ TruncateTailFails
  /\ proc' = "down"
  /\ tip' = GenesisTip
  /\ UNCHANGED <<writes, append>>

OpenSucceeds ==
  /\ proc = "replaying"
  /\ tip.height = Len(frames)
  /\ \/ tail = "none" /\ UNCHANGED journalVars
     \/ TruncateTail
  /\ proc' = "serving"
  /\ writes' = TRUE
  /\ UNCHANGED <<tip, append>>

(***************************************************************************)
(* commit                                                                  *)
(***************************************************************************)
Idle == proc = "serving" /\ append.phase = "idle"

(* A retry of the block that is the tip is answered with its receipt. *)
IdempotentReceipt(executed) ==
  /\ executed.result.height = tip.height
  /\ tip.height > 0
  /\ executed.result.block_id = tip.block_id
  /\ executed.result.app_hash = tip.app_hash

MayAppend(executed) ==
  /\ executed.result.height = tip.height + 1
  /\ Reexecutes(tip, executed)

CommitRefused(executed) ==
  \/ ~writes
  \/ ~IdempotentReceipt(executed) /\ ~MayAppend(executed)

CommitBegins(executed) ==
  /\ Idle
  /\ writes
  /\ MayAppend(executed)
  /\ append' = [stored |-> executed, phase |-> "writing"]
  /\ UNCHANGED <<proc, tip, writes, journalVars>>

AppendWrites ==
  /\ append.phase = "writing"
  /\ WriteFrame(append.stored)
  /\ append' = [append EXCEPT !.phase = "written"]
  /\ UNCHANGED <<proc, tip, writes>>

(* Faulty: goes on without the data sync. *)
FaultyAppendSyncs ==
  /\ append.phase = "written"
  /\ append' = [append EXCEPT !.phase = "synced"]
  /\ UNCHANGED <<proc, tip, writes, journalVars>>

AppendSyncs ==
  /\ append.phase = "written"
  /\ SyncData
  /\ append' = [append EXCEPT !.phase = "synced"]
  /\ UNCHANGED <<proc, tip, writes>>

(* Faulty: leaves out the sync of the parent directory. *)
FaultyCommitSucceeds ==
  /\ append.phase = "synced"
  /\ tip' = append.stored.result
  /\ append' = NoAppend
  /\ UNCHANGED <<proc, writes, journalVars>>

(* The directory sync is the last step that can fail; then the new tip is  *)
(* published.                                                              *)
CommitSucceeds ==
  /\ append.phase = "synced"
  /\ SyncParentDirectory
  /\ tip' = append.stored.result
  /\ append' = NoAppend
  /\ UNCHANGED <<proc, writes>>

(* Faulty: keeps accepting writes after an append with unknown outcome. *)
FaultyCommitFails ==
  /\ append.phase # "idle"
  /\ \/ append.phase = "writing" /\ WriteInterrupted
     \/ UNCHANGED journalVars
  /\ append' = NoAppend
  /\ UNCHANGED <<proc, tip, writes>>

(* Any step of the append may fail.  What the file holds then depends on   *)
(* how far it got, and a failed write may have left part of the frame.     *)
CommitFails ==
  /\ append.phase # "idle"
  /\ \/ append.phase = "writing" /\ WriteInterrupted
     \/ UNCHANGED journalVars
  /\ append' = NoAppend
  /\ writes' = FALSE
  /\ UNCHANGED <<proc, tip>>

(***************************************************************************)
(* The process ends, at any point and without running any code.            *)
(***************************************************************************)
ProcessEnds ==
  /\ proc # "down"
  /\ proc' = "down"
  /\ tip' = GenesisTip
  /\ writes' = FALSE
  /\ append' = NoAppend

ProcessKilled ==
  /\ ProcessEnds
  /\ \/ append.phase = "writing" /\ WriteInterrupted
     \/ UNCHANGED journalVars

PowerLoss ==
  /\ \/ ProcessEnds
     \/ proc = "down" /\ UNCHANGED executionVars
  /\ PowerLossEffect
=============================================================================
