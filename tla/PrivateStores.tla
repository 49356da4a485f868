---------------------------- MODULE PrivateStores ----------------------------
(***************************************************************************)
(* The private stores of noxis-storage: PrivateStateStoreV1, its successor *)
(* PrivateSubmissionStoreV2 with the journals they append to, and the      *)
(* migration from the first to the second.                                 *)
(*                                                                         *)
(* A path stands for four files: a cache that is replaced, an immutable    *)
(* base, an append-only NXPL journal, and a lock file that the operating   *)
(* system frees when its holder ends.  Both versions use the same names,   *)
(* so either may be run on any path.  A ledger state is the list of the    *)
(* transfers that led to it, which is what its identity determines; a      *)
(* transfer is bound to the state it was made for (PrivateTransfers).      *)
(***************************************************************************)
EXTENDS Integers, Sequences

CONSTANTS
  Paths,         \* locations of stores
  Transfers,     \* transfers callers may submit
  None,          \* a file that does not exist
  NamesDurable,  \* TRUE: the file system keeps every name it was given
  MaxHistory,    \* bound: transfers in a state
  MaxFaults      \* bound: kills, power losses and failed writes

Versions == {"v1", "v2"}
States == Seq(Transfers)
Tails == {"none", "short"} \cup Versions

VARIABLES
  disk,       \* disk[p]: the files of a store, as a process sees them
  kept,       \* kept[p]: what each name may show after a power loss
  handle,     \* handle[p]: the open store that holds the lock, if any
  acked,      \* acked[p]: the last state a caller was told of
  migration,  \* the offline copy of one store into another
  faults      \* faults so far

vars == <<disk, kept, handle, acked, migration, faults>>

(* StoredPrivateState and StoredPrivateSubmissionV2: the first version has *)
(* no receipt, here None.  A tail is a frame that was cut before its       *)
(* version field ("short") or after it.                                    *)
StateFrame == [version : {"v1"}, sequence : Nat, previous : States, state : States,
               receipt : {None}]
SubmissionFrame == [version : {"v2"}, sequence : Nat, previous : States, state : States,
                    receipt : Transfers]
Frame == StateFrame \cup SubmissionFrame
NoFiles ==
  [cache |-> None, base |-> None, created |-> FALSE,
   frames |-> <<>>, tail |-> "none", synced |-> 0]
Closed == [pc |-> "closed", version |-> "v1", state |-> None, next |-> None, task |-> "use"]

Init ==
  /\ disk = [p \in Paths |-> NoFiles]
  /\ kept = [p \in Paths |-> [cache |-> {None}, base |-> {None}, created |-> {FALSE}]]
  /\ handle = [p \in Paths |-> Closed]
  /\ acked = [p \in Paths |-> None]
  /\ migration = [phase |-> "none", source |-> None, target |-> None, state |-> None,
                  promised |-> None]
  /\ faults = 0

(* A rename or a new name: a power loss may show what was there before. *)
Renamed(old, new) == IF NamesDurable THEN {new} ELSE old \cup {new}

Fault == faults < MaxFaults /\ faults' = faults + 1

(***************************************************************************)
(* The journal.                                                            *)
(***************************************************************************)
Latest(d) == d.frames[Len(d.frames)].state

(* The state before the i-th frame. *)
Before(d, i) == IF i = 1 THEN d.base ELSE d.frames[i - 1].state

(* scan_frames: a frame of the other version is an error, complete or not; *)
(* a frame that ends early is a tail.                                      *)
ScanFrames(d, v) ==
  /\ \A i \in DOMAIN d.frames :
       /\ d.frames[i].version = v
       /\ d.frames[i].sequence = i
       /\ i > 1 => d.frames[i].previous = d.frames[i - 1].state
  /\ d.tail \in {"none", "short", v}
ScanStates(d) == ScanFrames(d, "v1")
ScanSubmissions(d) == ScanFrames(d, "v2")
ScanAccepts(d, v) == IF v = "v1" THEN ScanStates(d) ELSE ScanSubmissions(d)

(* recover_from of the first version: the first frame follows the base.    *)
RecoverStates(d) == d.frames[1].previous = d.base

(* recover_from of the second: every frame follows its predecessor, and    *)
(* its receipt describes the step.                                         *)
RecoverSubmissions(d) ==
  \A i \in DOMAIN d.frames :
    /\ d.frames[i].previous = Before(d, i)
    /\ d.frames[i].state = Append(Before(d, i), d.frames[i].receipt)

RecoverFrom(d, v) == IF v = "v1" THEN RecoverStates(d) ELSE RecoverSubmissions(d)

(* recover_authoritative_state, and the read of the cache before it. *)
Recoverable(d, v) ==
  /\ ScanAccepts(d, v)
  /\ IF d.frames # <<>>
     THEN d.base # None /\ RecoverFrom(d, v)
     ELSE /\ d.cache # None
          /\ d.tail # "none" => d.base # None
          /\ d.base # None => d.base = d.cache

Recovered(d) == IF d.frames # <<>> THEN Latest(d) ELSE d.cache

(* truncate_verified_incomplete_tail: set_len and sync_all, if there is a  *)
(* tail to remove.                                                         *)
Truncated(d) ==
  IF d.tail = "none" THEN d ELSE [d EXCEPT !.tail = "none", !.synced = Len(d.frames)]

(***************************************************************************)
(* initialize and open.                                                    *)
(***************************************************************************)
(* initialize under the lock: no file of the store exists; the cache is    *)
(* published, and the journal created after that.                          *)
Initialize(p, v, state, task) ==
  /\ handle[p].pc = "closed"
  /\ disk[p].cache = None /\ disk[p].base = None /\ ~disk[p].created
  /\ disk' = [disk EXCEPT ![p].cache = state]
  /\ kept' = [kept EXCEPT ![p].cache = Renamed(@, state)]
  /\ handle' = [handle EXCEPT ![p] =
       [pc |-> "create", version |-> v, state |-> state, next |-> None, task |-> task]]
  /\ UNCHANGED <<acked, faults>>

CreateJournal(p) ==
  /\ handle[p].pc = "create"
  /\ disk' = [disk EXCEPT ![p].created = TRUE]
  /\ kept' = [kept EXCEPT ![p].created = Renamed(@, TRUE)]
  /\ handle' = [handle EXCEPT ![p].pc = IF handle[p].task = "use" THEN "idle" ELSE "base"]
  /\ acked' = [acked EXCEPT ![p] = IF handle[p].task = "use" THEN handle[p].state ELSE @]
  /\ UNCHANGED <<migration, faults>>

(* open: creates the journal if it is missing, and keeps it when it then   *)
(* refuses the store.                                                      *)
Open(p, v, task) ==
  /\ handle[p].pc = "closed"
  /\ disk' = [disk EXCEPT ![p].created = TRUE]
  /\ kept' = [kept EXCEPT ![p].created = IF disk[p].created THEN @ ELSE Renamed(@, TRUE)]
  /\ handle' = IF Recoverable(disk[p], v)
               THEN [handle EXCEPT ![p] =
                 [pc |-> "opening", version |-> v, state |-> Recovered(disk[p]), next |-> None,
                  task |-> task]]
               ELSE handle
  /\ UNCHANGED <<acked, faults>>

(* The tail is removed, and a cache that is missing or stale replaced. *)
FinishOpen(p) ==
  /\ handle[p].pc = "opening"
  /\ disk' = [disk EXCEPT ![p] = [Truncated(@) EXCEPT !.cache = handle[p].state]]
  /\ kept' = [kept EXCEPT ![p].cache =
       IF disk[p].cache = handle[p].state THEN @ ELSE Renamed(@, handle[p].state)]
  /\ handle' = [handle EXCEPT ![p].pc = "idle"]
  /\ UNCHANGED <<acked, migration, faults>>

Close(p) ==
  /\ handle[p].pc = "idle"
  /\ handle' = [handle EXCEPT ![p] = Closed]
  /\ UNCHANGED <<disk, kept, acked, migration, faults>>

OpenStateStore(p) == Open(p, "v1", "use") /\ UNCHANGED migration
OpenSubmissionStore(p) == Open(p, "v2", "use") /\ UNCHANGED migration
InitializeStateStore(p) == Initialize(p, "v1", <<>>, "use") /\ UNCHANGED migration
InitializeSubmissionStore(p) == Initialize(p, "v2", <<>>, "use") /\ UNCHANGED migration

(***************************************************************************)
(* apply_transfer: the base, the frame, its sync, the cache, the memory.   *)
(***************************************************************************)
(* prepare_journal_base: what it checks before an append. *)
BaseReady(d, v, state) ==
  /\ d.tail = "none" /\ ScanAccepts(d, v)
  /\ IF d.frames # <<>>
     THEN d.base # None /\ RecoverFrom(d, v) /\ Latest(d) = state
     ELSE d.base # None => d.base = state

(* prepare_journal_base: the base it writes, once. *)
PublishBase(p) ==
  /\ disk' = [disk EXCEPT ![p].base = IF @ = None THEN handle[p].state ELSE @]
  /\ kept' = [kept EXCEPT ![p].base =
       IF disk[p].base = None THEN Renamed(@, handle[p].state) ELSE @]

(* The transfer is applied to a clone of the state in memory. *)
BeginApply(p, t, v) ==
  /\ handle[p].pc = "idle" /\ handle[p].task = "use" /\ handle[p].version = v
  /\ Len(handle[p].state) < MaxHistory
  /\ BaseReady(disk[p], v, handle[p].state)
  /\ PublishBase(p)
  /\ handle' = [handle EXCEPT ![p].pc = "write", ![p].next = Append(handle[p].state, t)]
  /\ UNCHANGED <<acked, migration, faults>>

ApplyStateTransfer(p, t) == BeginApply(p, t, "v1")
ApplySubmission(p, t) == BeginApply(p, t, "v2")

(* append_post_state and append_submission scan again: no tail, and the    *)
(* last frame is the predecessor.                                          *)
AppendAccepts(d, v, previous) ==
  /\ d.tail = "none" /\ ScanAccepts(d, v)
  /\ d.frames # <<>> => Latest(d) = previous

NewStateFrame(p) ==
  [version |-> "v1", sequence |-> Len(disk[p].frames) + 1,
   previous |-> handle[p].state, state |-> handle[p].next, receipt |-> None]
NewSubmissionFrame(p) ==
  [version |-> "v2", sequence |-> Len(disk[p].frames) + 1,
   previous |-> handle[p].state, state |-> handle[p].next,
   receipt |-> handle[p].next[Len(handle[p].next)]]

WriteFrame(p, v, frame) ==
  /\ handle[p].pc = "write" /\ handle[p].version = v
  /\ AppendAccepts(disk[p], v, handle[p].state)
  /\ disk' = [disk EXCEPT ![p].frames = Append(@, frame)]
  /\ handle' = [handle EXCEPT ![p].pc = "sync"]
  /\ UNCHANGED <<kept, acked, migration, faults>>

WriteState(p) == WriteFrame(p, "v1", NewStateFrame(p))
WriteSubmission(p) == WriteFrame(p, "v2", NewSubmissionFrame(p))

(* Faulty: flushes, which empties a buffer and syncs nothing. *)
FaultySyncFrame(p) ==
  /\ handle[p].pc = "sync"
  /\ handle' = [handle EXCEPT ![p].pc = "publish"]
  /\ UNCHANGED <<disk, kept, acked, migration, faults>>

SyncFrame(p) ==
  /\ handle[p].pc = "sync"
  /\ disk' = [disk EXCEPT ![p].synced = Len(disk[p].frames)]
  /\ handle' = [handle EXCEPT ![p].pc = "publish"]
  /\ UNCHANGED <<kept, acked, migration, faults>>

(* publish_state of the successor; then the state in memory is replaced    *)
(* and the receipt returned.                                               *)
PublishCache(p) ==
  /\ handle[p].pc = "publish"
  /\ disk' = [disk EXCEPT ![p].cache = handle[p].next]
  /\ kept' = [kept EXCEPT ![p].cache = Renamed(@, handle[p].next)]
  /\ handle' = [handle EXCEPT ![p].pc = "idle", ![p].state = handle[p].next, ![p].next = None]
  /\ acked' = [acked EXCEPT ![p] = handle[p].next]
  /\ UNCHANGED <<migration, faults>>

(***************************************************************************)
(* The migration: open the source, copy its state, release it; create the  *)
(* target with a base, release it; open it again and compare.              *)
(***************************************************************************)
Phase(phase) == migration' = [migration EXCEPT !.phase = phase]
Holds(p) == handle[p].pc = "idle" /\ handle[p].task = "migrate"

MigrateOpens(source, target) ==
  /\ migration.phase = "none"
  /\ source # target
  /\ Open(source, "v1", "migrate")
  /\ migration' = [phase |-> IF Recoverable(disk[source], "v1") THEN "source" ELSE "failed",
                   source |-> source, target |-> target, state |-> None, promised |-> None]

MigrateCopies ==
  /\ migration.phase = "source"
  /\ Holds(migration.source)
  /\ migration' = [migration EXCEPT !.phase = "copied", !.state = handle[migration.source].state,
                                    !.promised = acked[migration.source]]
  /\ handle' = [handle EXCEPT ![migration.source] = Closed]
  /\ UNCHANGED <<disk, kept, acked, faults>>

MigrateInitializes ==
  /\ migration.phase = "copied"
  /\ Initialize(migration.target, "v2", migration.state, "migrate")
  /\ Phase("target")

(* prepare_journal_base of initialize_with_authenticated_base. *)
MigrateWritesBase(p) ==
  /\ handle[p].pc = "base"
  /\ BaseReady(disk[p], "v2", handle[p].state)
  /\ PublishBase(p)
  /\ handle' = [handle EXCEPT ![p].pc = "idle"]
  /\ UNCHANGED <<acked, migration, faults>>

MigrateReleases ==
  /\ migration.phase = "target"
  /\ Holds(migration.target)
  /\ handle' = [handle EXCEPT ![migration.target] = Closed]
  /\ Phase("written")
  /\ UNCHANGED <<disk, kept, acked, faults>>

MigrateReopens ==
  /\ migration.phase = "written"
  /\ Open(migration.target, "v2", "migrate")
  /\ Phase(IF Recoverable(disk[migration.target], "v2") THEN "check" ELSE "failed")

(* submissions, which status counts: the frames, if there is no tail and   *)
(* they follow the base.                                                   *)
HasSubmissions(d, list) ==
  /\ d.tail = "none" /\ ScanSubmissions(d)
  /\ d.frames # <<>> => d.base # None /\ RecoverSubmissions(d)
  /\ d.frames = list

(* The receipt is given only for the copied state and no frame. *)
TargetMatches ==
  /\ handle[migration.target].state = migration.state
  /\ HasSubmissions(disk[migration.target], <<>>)

MigrateReturns ==
  /\ migration.phase = "check"
  /\ Holds(migration.target)
  /\ Phase(IF TargetMatches THEN "done" ELSE "failed")
  /\ acked' = IF TargetMatches THEN [acked EXCEPT ![migration.target] = migration.state] ELSE acked
  /\ handle' = [handle EXCEPT ![migration.target] = Closed]
  /\ UNCHANGED <<disk, kept, faults>>

(* A lock that is held, or a target that has files, ends the migration. *)
MigrateRefused ==
  /\ \/ migration.phase = "copied"
        /\ \/ handle[migration.target].pc # "closed"
           \/ disk[migration.target].cache # None
           \/ disk[migration.target].base # None
           \/ disk[migration.target].created
     \/ migration.phase = "written" /\ handle[migration.target].pc # "closed"
  /\ Phase("failed")
  /\ UNCHANGED <<disk, kept, handle, acked, faults>>

(***************************************************************************)
(* Failures.                                                               *)
(***************************************************************************)
(* What the step in progress may leave behind when it does not finish. *)
Interrupted(d, h) ==
  {d} \cup (IF h.pc = "opening" THEN {Truncated(d)} ELSE {})
      \cup (IF h.pc = "write" THEN {[d EXCEPT !.tail = x] : x \in {"short", h.version}} ELSE {})
      \cup (IF h.pc = "publish" THEN {[d EXCEPT !.cache = h.next]} ELSE {})

LeftBehind(p) ==
  \E d \in Interrupted(disk[p], handle[p]) :
    /\ disk' = [disk EXCEPT ![p] = d]
    /\ kept' = [kept EXCEPT ![p].cache = IF d.cache = disk[p].cache THEN @ ELSE Renamed(@, d.cache)]

(* A write, a sync or a publication returns an error: the store stays      *)
(* open, and its state in memory is the old one.                           *)
ApplyFails(p) ==
  /\ handle[p].pc \in {"write", "sync", "publish"}
  /\ Fault
  /\ LeftBehind(p)
  /\ handle' = [handle EXCEPT ![p].pc = "idle", ![p].next = None]
  /\ UNCHANGED <<acked, migration>>

(* The process ends, or open and initialize return an error. *)
Killed(p) ==
  /\ handle[p].pc # "closed"
  /\ Fault
  /\ LeftBehind(p)
  /\ handle' = [handle EXCEPT ![p] = Closed]
  /\ migration' = IF handle[p].task = "migrate" THEN [migration EXCEPT !.phase = "failed"]
                  ELSE migration
  /\ UNCHANGED acked

MigrationKilled ==
  /\ migration.phase \in {"copied", "written"}
  /\ Fault
  /\ Phase("failed")
  /\ UNCHANGED <<disk, kept, handle, acked>>

(* Bytes of the journal that no sync has covered survive up to any length. *)
SurvivingTails(d, k) ==
  {"none"} \cup (IF k < Len(d.frames) THEN {"short", d.frames[k + 1].version}
                 ELSE IF d.tail = "none" THEN {} ELSE {"short", d.tail})
SurvivingJournals(d) ==
  UNION {{[frames |-> SubSeq(d.frames, 1, k), tail |-> x, synced |-> k] :
            x \in SurvivingTails(d, k)} : k \in d.synced..Len(d.frames)}
NoJournal == [frames |-> <<>>, tail |-> "none", synced |-> 0]

(* Each name shows one of the files it may show. *)
Outcomes(p) ==
  {[cache |-> c, base |-> b, created |-> e,
    frames |-> j.frames, tail |-> j.tail, synced |-> j.synced] :
     c \in kept[p].cache, b \in kept[p].base,
     <<e, j>> \in {x \in kept[p].created \X (SurvivingJournals(disk[p]) \cup {NoJournal}) :
                     x[2] \in IF x[1] THEN SurvivingJournals(disk[p]) ELSE {NoJournal}}}

PowerLoss ==
  /\ Fault
  /\ \E outcome \in [Paths -> UNION {Outcomes(p) : p \in Paths}] :
       /\ \A p \in Paths : outcome[p] \in Outcomes(p)
       /\ disk' = outcome
       /\ kept' = [p \in Paths |-> [cache |-> {outcome[p].cache}, base |-> {outcome[p].base},
                                    created |-> {outcome[p].created}]]
  /\ handle' = [p \in Paths |-> Closed]
  /\ migration' = IF migration.phase \in {"none", "done"} THEN migration
                  ELSE [migration EXCEPT !.phase = "failed"]
  /\ UNCHANGED acked

Next ==
  \/ \E p \in Paths : \/ InitializeStateStore(p) \/ InitializeSubmissionStore(p)
                      \/ OpenStateStore(p) \/ OpenSubmissionStore(p)
                      \/ CreateJournal(p) \/ FinishOpen(p) \/ Close(p)
                      \/ WriteState(p) \/ WriteSubmission(p) \/ SyncFrame(p)
                      \/ PublishCache(p) \/ ApplyFails(p) \/ Killed(p)
                      \/ MigrateWritesBase(p)
  \/ \E p \in Paths, t \in Transfers : ApplyStateTransfer(p, t) \/ ApplySubmission(p, t)
  \/ \E source, target \in Paths : MigrateOpens(source, target)
  \/ MigrateCopies \/ MigrateInitializes \/ MigrateReleases \/ MigrateReopens
  \/ MigrateReturns \/ MigrateRefused \/ MigrationKilled
  \/ PowerLoss

Spec == Init /\ [][Next]_vars

(***************************************************************************)
(* Properties                                                              *)
(***************************************************************************)
(* The states that the journal leads through, from its base on. *)
History(d) ==
  IF d.frames = <<>> THEN {d.cache}
  ELSE {d.base} \cup {d.frames[i].state : i \in DOMAIN d.frames}

(* While its base is there, a journal is one chain from that base on, one  *)
(* transfer per frame, written by one version of the store: no failed      *)
(* apply, restart, lost name or second version makes it fork, skip a state *)
(* or mix formats (append_post_state, append_submission, recover_from).    *)
JournalIsChain ==
  \A p \in Paths : \A i \in DOMAIN disk[p].frames :
    LET f == disk[p].frames[i]
    IN  /\ f.version = disk[p].frames[1].version
        /\ f.sequence = i
        /\ \E t \in Transfers : f.state = Append(f.previous, t)
        /\ f.version = "v2" => f.state = Append(f.previous, f.receipt)
        /\ i > 1 => f.previous = disk[p].frames[i - 1].state
        /\ disk[p].base # None => disk[p].frames[1].previous = disk[p].base

(* Where names last, a store that opens at all leads through the last      *)
(* state that initialize, apply_transfer or the migration acknowledged.    *)
AcknowledgedKept ==
  NamesDurable =>
    \A p \in Paths, v \in Versions :
      acked[p] # None /\ Recoverable(disk[p], v) => acked[p] \in History(disk[p])

(* A store that is open and idle has in memory the state of its last       *)
(* acknowledged transfer, or its journal is ahead and refuses every append *)
(* until it is opened again.                                               *)
IdleIsCurrent ==
  \A p \in Paths :
    handle[p].pc = "idle" /\ handle[p].task = "use"
      /\ BaseReady(disk[p], handle[p].version, handle[p].state)
    => /\ handle[p].state = Recovered(disk[p])
       /\ acked[p] # None /\ NamesDurable => acked[p] \in History(disk[p])

(* The receipt of a migration stands for a target that has the copied      *)
(* state for its immutable base, and that state leads through whatever the *)
(* source had acknowledged when it was copied.                             *)
MigrationFaithful ==
  NamesDurable /\ migration.phase = "done" =>
    /\ disk[migration.target].base = migration.state
    /\ migration.promised # None =>
         SubSeq(migration.state, 1, Len(migration.promised)) = migration.promised

(* Failed appends, kills, power losses, both versions of the store and a   *)
(* migration between them leave one history: a journal is one chain, a     *)
(* store that opens leads through what was acknowledged, one that can      *)
(* append has the state of its journal, and a migration that was reported  *)
(* has copied what was acknowledged.                                       *)
HistoriesKept == JournalIsChain /\ AcknowledgedKept /\ IdleIsCurrent /\ MigrationFaithful
=============================================================================
