------------------------------- MODULE Keystore -------------------------------
(***************************************************************************)
(* The candidate keystore of noxis-wallet-keystore: a directory with one   *)
(* immutable public header, immutable payload generations, a process-local *)
(* registry and a file lock, and the recovery bundle that copies a header  *)
(* and one generation from a directory to another.                         *)
(*                                                                         *)
(* A file has a slot: 0 for the header, the generation for a payload.  It  *)
(* is written under a temporary name, synchronized, and renamed.  An       *)
(* opener is a value of CandidateKeystoreHeaderStore; its operations take  *)
(* a shared reference, so the threads that share it (Callers) interleave   *)
(* between the system calls of an operation.  A receipt (NXKA) commits to  *)
(* the header, the generation and the ciphertext of one payload; a         *)
(* ciphertext id is the payload it was computed from.                      *)
(***************************************************************************)
EXTENDS Integers, FiniteSets

CONSTANTS
  Dirs,            \* wallet directories
  Openers,         \* header stores a process may open
  Process,         \* Process[o]: the process that an opener belongs to
  Callers,         \* threads that share one opener
  Headers,         \* public headers
  Payloads,        \* payloads that callers have
  Backups,         \* recovery bundles from earlier captures
  None,            \* no file, no value
  Torn,            \* bytes of a file whose write was interrupted
  MaxGenerations,  \* MAX_SYNTHETIC_PAYLOAD_GENERATIONS
  MaxFaults        \* bound: kills, power losses and failed system calls

Generations == {p.generation : p \in Payloads}
Slots == {0} \cup Generations

(* A file: its bytes, whether they were synchronized, and whether the      *)
(* rename that gave it this name may be undone by a power loss.            *)
File == [data : Headers \cup Payloads \cup {Torn}, synced : BOOLEAN, loose : BOOLEAN]

ASSUME KeystoreAssumptions ==
  /\ Generations \subseteq Nat \ {0}
  /\ None \notin File /\ None \notin Openers
  /\ Backups \subseteq [header : Headers, payload : Payloads]

VARIABLES
  final,     \* final[d][s]: the file under its canonical name
  temp,      \* temp[d][s]: the file under its temporary name
  opener,    \* opener[o]: the lifecycle of one header store
  call,      \* call[o][c]: an operation in progress
  registry,  \* process_lock_registry of every process
  oslock,    \* oslock[d]: the opener that holds the file lock
  told,      \* told[d]: payloads reported as Published
  confirmed, \* confirmed[d]: payloads reported as AlreadyPublished
  bundles,   \* recovery bundles that were captured
  faults     \* faults so far

vars == <<final, temp, opener, call, registry, oslock, told, confirmed, bundles, faults>>
files == <<final, temp>>
locks == <<opener, registry, oslock>>

NoCall == [pc |-> "none", op |-> "none", header |-> None, payload |-> None, todo |-> {},
           slot |-> 0]
Processes == {Process[o] : o \in Openers}

Init ==
  /\ final = [d \in Dirs |-> [s \in Slots |-> None]]
  /\ temp = [d \in Dirs |-> [s \in Slots |-> None]]
  /\ opener = [o \in Openers |-> [pc |-> "closed", dir |-> None, payloads |-> FALSE]]
  /\ call = [o \in Openers |-> [c \in Callers |-> NoCall]]
  /\ registry = [p \in Processes |-> {}]
  /\ oslock = [d \in Dirs |-> None]
  /\ told = [d \in Dirs |-> {}]
  /\ confirmed = [d \in Dirs |-> {}]
  /\ bundles = Backups
  /\ faults = 0

Fault == faults < MaxFaults /\ faults' = faults + 1

(* KeystoreHeaderV2::decode and CandidateKeystorePayloadV1::decode accept  *)
(* complete bytes only.                                                    *)
Decodes(file) == file # None /\ file.data # Torn
HeaderOf(d) == final[d][0].data
HeaderLoads(d) == Decodes(final[d][0])

(* ExternalRollbackAnchorV1::new and verify. *)
Anchor(p) == [header |-> p.header, generation |-> p.generation, ciphertext |-> p]
AnchorVerifies(a, header, p) ==
  /\ a.header = header
  /\ a.generation = p.generation
  /\ a.ciphertext = p

(* verify_payload_for_generation: the path names the payload's generation, *)
(* and the payload is bound to the header.                                 *)
VerifiesFor(p, header, generation) == p.generation = generation /\ p.header = header

(***************************************************************************)
(* CandidateKeystoreHeaderStore::open and its lock.                        *)
(***************************************************************************)
(* HeaderStoreLock::acquire: inserts the directory in the registry of the  *)
(* process, or reports DirectoryAlreadyLocked.                             *)
Register(o, d) ==
  /\ opener[o].pc = "closed"
  /\ d \notin registry[Process[o]]
  /\ registry' = [registry EXCEPT ![Process[o]] = @ \cup {d}]
  /\ opener' = [opener EXCEPT ![o] = [pc |-> "registered", dir |-> d, payloads |-> FALSE]]
  /\ UNCHANGED <<files, call, oslock, told, confirmed, bundles, faults>>

(* Faulty: does not ask the operating system. *)
FaultyTryLock(o) ==
  /\ opener[o].pc = "registered"
  /\ oslock' = [oslock EXCEPT ![opener[o].dir] = o]
  /\ opener' = [opener EXCEPT ![o].pc = "locked"]
  /\ UNCHANGED <<files, call, registry, told, confirmed, bundles, faults>>

(* try_lock_exclusive; on failure the key is removed again. *)
TryLock(o) ==
  LET d == opener[o].dir IN
  /\ opener[o].pc = "registered"
  /\ \/ /\ oslock[d] = None
        /\ oslock' = [oslock EXCEPT ![d] = o]
        /\ opener' = [opener EXCEPT ![o].pc = "locked"]
        /\ UNCHANGED registry
     \/ /\ oslock[d] # None
        /\ registry' = [registry EXCEPT ![Process[o]] = @ \ {d}]
        /\ opener' = [opener EXCEPT ![o].pc = "closed"]
        /\ UNCHANGED oslock
  /\ UNCHANGED <<files, call, told, confirmed, bundles, faults>>

(* Renames the temporary file of a slot to its canonical name. *)
Rename(d, s) ==
  /\ final' = [final EXCEPT ![d][s] = [temp[d][s] EXCEPT !.loose = TRUE]]
  /\ temp' = [temp EXCEPT ![d][s] = None]

(* recover_temporary_header: a superseded temporary file is removed, a     *)
(* complete one becomes the header, any other makes open fail, which drops *)
(* the lock.                                                               *)
RecoverHeader(o) ==
  LET d == opener[o].dir IN
  /\ opener[o].pc = "locked"
  /\ \/ /\ temp[d][0] = None
        /\ opener' = [opener EXCEPT ![o].pc = "open"]
        /\ UNCHANGED files
     \/ /\ temp[d][0] # None /\ final[d][0] # None
        /\ temp' = [temp EXCEPT ![d][0] = None]
        /\ opener' = [opener EXCEPT ![o].pc = "open"]
        /\ UNCHANGED final
     \/ /\ final[d][0] = None /\ Decodes(temp[d][0])
        /\ Rename(d, 0)
        /\ opener' = [opener EXCEPT ![o].pc = "open"]
     \/ /\ final[d][0] = None /\ temp[d][0] # None /\ ~Decodes(temp[d][0])
        /\ opener' = [opener EXCEPT ![o].pc = "dropping"]
        /\ UNCHANGED files
  /\ UNCHANGED <<call, registry, oslock, told, confirmed, bundles, faults>>

(* The store is dropped once no operation borrows it: the file is          *)
(* unlocked, then the key leaves the registry.                             *)
Close(o) ==
  /\ opener[o].pc = "open"
  /\ \A c \in Callers : call[o][c] = NoCall
  /\ opener' = [opener EXCEPT ![o].pc = "dropping"]
  /\ UNCHANGED <<files, call, registry, oslock, told, confirmed, bundles, faults>>

Unlock(o) ==
  /\ opener[o].pc = "dropping"
  /\ oslock' = [oslock EXCEPT ![opener[o].dir] = None]
  /\ opener' = [opener EXCEPT ![o].pc = "unlocked"]
  /\ UNCHANGED <<files, call, registry, told, confirmed, bundles, faults>>

Deregister(o) ==
  /\ opener[o].pc = "unlocked"
  /\ registry' = [registry EXCEPT ![Process[o]] = @ \ {opener[o].dir}]
  /\ opener' = [opener EXCEPT ![o] = [pc |-> "closed", dir |-> None, payloads |-> FALSE]]
  /\ UNCHANGED <<files, call, oslock, told, confirmed, bundles, faults>>

(***************************************************************************)
(* Operations.  A call goes through the stages of its operation: the       *)
(* header first (initialize, restore), then the temporary payloads         *)
(* (open_payloads, restore, capture), then one payload.                    *)
(***************************************************************************)
Idle(o, c) == opener[o].pc = "open" /\ call[o][c] = NoCall
Begin(o, c, entry) == call' = [call EXCEPT ![o][c] = entry]
Return(o, c) == Begin(o, c, NoCall)
Continue(o, c, stage) == Begin(o, c, [call[o][c] EXCEPT !.pc = stage])

(* write_new_header and write_new_payload, for the file of a slot. *)
WriteNew(o, c, s) == Begin(o, c, [call[o][c] EXCEPT !.pc = "create", !.slot = s])

(* What initialize does after the header is there: restore goes on.        *)
AfterHeader(o, c) ==
  IF call[o][c].op = "restore" THEN Continue(o, c, "list") ELSE Return(o, c)

(* initialize is called directly, or by CandidateSyntheticRecoveryBundleV1 *)
(* restore, which verifies the receipt before it.                          *)
Initialize(o, c, h) ==
  /\ Idle(o, c)
  /\ Begin(o, c, [NoCall EXCEPT !.pc = "header", !.op = "initialize", !.header = h])
  /\ UNCHANGED <<files, locks, told, confirmed, bundles, faults>>

Restore(o, c, b, a) ==
  /\ Idle(o, c)
  /\ AnchorVerifies(a, b.header, b.payload)
  /\ Begin(o, c, [NoCall EXCEPT !.pc = "header", !.op = "restore",
                                !.header = b.header, !.payload = b.payload])
  /\ UNCHANGED <<files, locks, told, confirmed, bundles, faults>>

(* initialize: an existing header must be the same; otherwise a new one is *)
(* written.                                                                *)
InitializeChecks(o, c) ==
  LET d == opener[o].dir IN
  /\ call[o][c].pc = "header"
  /\ \/ final[d][0] = None /\ WriteNew(o, c, 0)
     \/ /\ HeaderLoads(d) /\ HeaderOf(d) = call[o][c].header
        /\ AfterHeader(o, c)
     \/ /\ final[d][0] # None
        /\ ~(HeaderLoads(d) /\ HeaderOf(d) = call[o][c].header)
        /\ Return(o, c)
  /\ UNCHANGED <<files, locks, told, confirmed, bundles, faults>>

(* open_payloads, and capture, which calls it, load the header first.      *)
OpenPayloads(o, c) ==
  /\ Idle(o, c)
  /\ Begin(o, c, [NoCall EXCEPT !.pc = "list", !.op = "open"])
  /\ UNCHANGED <<files, locks, told, confirmed, bundles, faults>>
Capture(o, c, p) ==
  /\ Idle(o, c)
  /\ Begin(o, c, [NoCall EXCEPT !.pc = "list", !.op = "capture", !.payload = p])
  /\ UNCHANGED <<files, locks, told, confirmed, bundles, faults>>

(* Faulty: looks at the canonical names only. *)
FaultyTemporaryPayloads(d) == {g \in Generations : final[d][g] # None /\ temp[d][g] # None}
(* payload_paths(true): the temporary files, by generation. *)
TemporaryPayloads(d) == {g \in Generations : temp[d][g] # None}
PublishedPayloads(d) == {g \in Generations : final[d][g] # None}
ListTemporaries(o, c) ==
  LET d == opener[o].dir IN
  /\ call[o][c].pc = "list"
  /\ IF HeaderLoads(d)
     THEN Begin(o, c, [call[o][c] EXCEPT !.pc = "recover", !.header = HeaderOf(d),
                                         !.todo = TemporaryPayloads(d)])
     ELSE Return(o, c)
  /\ UNCHANGED <<files, locks, told, confirmed, bundles, faults>>

(* recover_temporary_payloads, one file: it must decode, name its own      *)
(* generation and be bound to the header.  It is published if the          *)
(* generation is free, removed if the generation holds the same payload,   *)
(* and an error otherwise.                                                 *)
RecoverPayload(o, c) ==
  LET d == opener[o].dir
      Valid(file, g) == Decodes(file) /\ VerifiesFor(file.data, call[o][c].header, g)
      Done(g) == Begin(o, c, [call[o][c] EXCEPT !.todo = @ \ {g}])
  IN
  /\ call[o][c].pc = "recover"
  /\ \E g \in call[o][c].todo :
       /\ \A other \in call[o][c].todo : g <= other
       /\ \/ /\ Valid(temp[d][g], g) /\ final[d][g] = None
             /\ Rename(d, g) /\ Done(g)
          \/ /\ Valid(temp[d][g], g) /\ Valid(final[d][g], g)
             /\ final[d][g].data = temp[d][g].data
             /\ temp' = [temp EXCEPT ![d][g] = None] /\ Done(g)
             /\ UNCHANGED final
          \/ /\ \/ ~Valid(temp[d][g], g)
                \/ Valid(temp[d][g], g) /\ final[d][g] # None
                   /\ ~(Valid(final[d][g], g) /\ final[d][g].data = temp[d][g].data)
             /\ Return(o, c)
             /\ UNCHANGED files
  /\ UNCHANGED <<locks, told, confirmed, bundles, faults>>

(* load_anchored: the generation that the receipt names. *)
LoadAnchored(d, a) ==
  /\ HeaderLoads(d)
  /\ Decodes(final[d][a.generation])
  /\ VerifiesFor(final[d][a.generation].data, HeaderOf(d), a.generation)
  /\ AnchorVerifies(a, HeaderOf(d), final[d][a.generation].data)

(* The payloads are recovered: open_payloads returns the view, restore     *)
(* goes on to publish, capture makes a bundle of what load_anchored finds. *)
PayloadsOpened(o, c) ==
  LET d == opener[o].dir IN
  /\ call[o][c].pc = "recover" /\ call[o][c].todo = {}
  /\ \/ /\ call[o][c].op = "open"
        /\ opener' = [opener EXCEPT ![o].payloads = TRUE]
        /\ Return(o, c)
        /\ UNCHANGED bundles
     \/ /\ call[o][c].op = "restore"
        /\ Continue(o, c, "publish")
        /\ UNCHANGED <<opener, bundles>>
     \/ /\ call[o][c].op = "capture"
        /\ bundles' = IF LoadAnchored(d, Anchor(call[o][c].payload))
                      THEN bundles \cup {[header |-> HeaderOf(d),
                                          payload |-> call[o][c].payload]}
                      ELSE bundles
        /\ Return(o, c)
        /\ UNCHANGED opener
  /\ UNCHANGED <<files, registry, oslock, told, confirmed, faults>>

(* publish on an open view.  Callers hold the receipt of their payload. *)
Publish(o, c, p) ==
  /\ Idle(o, c) /\ opener[o].payloads
  /\ Begin(o, c, [NoCall EXCEPT !.pc = "publish", !.op = "publish", !.payload = p])
  /\ UNCHANGED <<files, locks, told, confirmed, bundles, faults>>

(* publish: every published file is valid, none has the generation or the  *)
(* nonce of the payload, the generation is above all of them, and there is *)
(* room for one more.                                                      *)
MayPublish(d, p) ==
  /\ HeaderLoads(d) /\ VerifiesFor(p, HeaderOf(d), p.generation)
  /\ \A g \in PublishedPayloads(d) :
       /\ Decodes(final[d][g]) /\ VerifiesFor(final[d][g].data, HeaderOf(d), g)
       /\ final[d][g].data.nonce # p.nonce
       /\ g < p.generation
  /\ Cardinality(PublishedPayloads(d)) < MaxGenerations

(* publish finds the same payload under its generation, after the          *)
(* generations below it: the files above are not looked at.                *)
AlreadyPublished(d, p) ==
  /\ HeaderLoads(d) /\ VerifiesFor(p, HeaderOf(d), p.generation)
  /\ Decodes(final[d][p.generation]) /\ final[d][p.generation].data = p
  /\ \A g \in PublishedPayloads(d) : g < p.generation =>
       /\ Decodes(final[d][g]) /\ VerifiesFor(final[d][g].data, HeaderOf(d), g)
       /\ final[d][g].data.nonce # p.nonce

(* A new file is written; or the payload is already there, and the call    *)
(* reports AlreadyPublished; or the call is refused.                       *)
PublishChecks(o, c) ==
  LET d == opener[o].dir  p == call[o][c].payload IN
  /\ call[o][c].pc = "publish"
  /\ \/ /\ MayPublish(d, p)
        /\ WriteNew(o, c, p.generation)
        /\ UNCHANGED confirmed
     \/ /\ AlreadyPublished(d, p)
        /\ confirmed' = [confirmed EXCEPT ![d] = @ \cup {p}]
        /\ Return(o, c)
     \/ /\ ~MayPublish(d, p) /\ ~AlreadyPublished(d, p)
        /\ Return(o, c)
        /\ UNCHANGED confirmed
  /\ UNCHANGED <<files, locks, told, bundles, faults>>

(***************************************************************************)
(* write_new_header and write_new_payload.                                 *)
(***************************************************************************)
(* create_new: fails if a temporary file was left behind. *)
CreateTemporary(o, c) ==
  LET d == opener[o].dir  s == call[o][c].slot IN
  /\ call[o][c].pc = "create"
  /\ IF temp[d][s] = None
     THEN /\ temp' = [temp EXCEPT ![d][s] = [data |-> Torn, synced |-> FALSE, loose |-> FALSE]]
          /\ Continue(o, c, "write")
     ELSE Return(o, c) /\ UNCHANGED temp
  /\ UNCHANGED <<final, locks, told, confirmed, bundles, faults>>

(* write_all: until it returns, the file decodes to nothing and keeps its  *)
(* temporary name.                                                         *)
Written(o, c) == IF call[o][c].slot = 0 THEN call[o][c].header ELSE call[o][c].payload
WriteTemporary(o, c) ==
  LET d == opener[o].dir  s == call[o][c].slot IN
  /\ call[o][c].pc = "write"
  /\ temp' = [temp EXCEPT ![d][s].data = Written(o, c)]
  /\ Continue(o, c, "sync")
  /\ UNCHANGED <<final, locks, told, confirmed, bundles, faults>>

(* Faulty: leaves the bytes to the operating system. *)
FaultySyncTemporary(o, c) ==
  /\ call[o][c].pc = "sync"
  /\ Continue(o, c, "rename")
  /\ UNCHANGED <<files, locks, told, confirmed, bundles, faults>>

(* sync_all synchronizes the open file, under whichever name it has now. *)
SyncTemporary(o, c) ==
  LET d == opener[o].dir  s == call[o][c].slot IN
  /\ call[o][c].pc = "sync"
  /\ IF temp[d][s] # None
     THEN temp' = [temp EXCEPT ![d][s].synced = TRUE] /\ UNCHANGED final
     ELSE final' = [final EXCEPT ![d][s].synced = TRUE] /\ UNCHANGED temp
  /\ Continue(o, c, "rename")
  /\ UNCHANGED <<locks, told, confirmed, bundles, faults>>

(* rename replaces whatever has the canonical name; it fails if the        *)
(* temporary name is gone.                                                 *)
RenameTemporary(o, c) ==
  LET d == opener[o].dir  s == call[o][c].slot IN
  /\ call[o][c].pc = "rename"
  /\ IF temp[d][s] # None
     THEN /\ Rename(d, s)
          /\ IF s = 0 THEN AfterHeader(o, c) /\ UNCHANGED told
             ELSE /\ told' = [told EXCEPT ![d] = @ \cup {call[o][c].payload}]
                  /\ Return(o, c)
     ELSE Return(o, c) /\ UNCHANGED <<files, told>>
  /\ UNCHANGED <<locks, confirmed, bundles, faults>>

(***************************************************************************)
(* Faults.  A system call of an operation fails, a process is killed, or   *)
(* the power is lost.                                                      *)
(***************************************************************************)
(* An operation returns its error and leaves the temporary file as it is. *)
CallFails(o, c) ==
  /\ Fault
  /\ call[o][c].pc \in {"create", "write", "sync", "rename", "recover"}
  /\ Return(o, c)
  /\ UNCHANGED <<files, locks, told, confirmed, bundles>>

(* A process takes its registry, its locks and its calls with it. *)
Forget(gone) ==
  /\ opener' = [o \in Openers |->
       IF o \in gone THEN [pc |-> "closed", dir |-> None, payloads |-> FALSE] ELSE opener[o]]
  /\ call' = [o \in Openers |-> IF o \in gone THEN [c \in Callers |-> NoCall] ELSE call[o]]
  /\ registry' = [p \in Processes |->
       IF \E o \in gone : Process[o] = p THEN {} ELSE registry[p]]
  /\ oslock' = [d \in Dirs |-> IF oslock[d] \in gone THEN None ELSE oslock[d]]

Killed(p) ==
  /\ Fault
  /\ \E o \in Openers : Process[o] = p /\ opener[o].pc # "closed"
  /\ Forget({o \in Openers : Process[o] = p})
  /\ UNCHANGED <<files, told, confirmed, bundles>>

(* Bytes that were not synchronized may be lost.  The name of a            *)
(* synchronized file is kept, but a rename may be undone.                  *)
Settled(file) == [file EXCEPT !.synced = TRUE, !.loose = FALSE]
Survivors(file) ==
  IF file = None THEN {None}
  ELSE {Settled(file)} \cup (IF file.synced THEN {}
                             ELSE {Settled([file EXCEPT !.data = Torn])})
SlotOutcomes(d, s) ==
  {<<f, t>> : f \in Survivors(final[d][s]), t \in Survivors(temp[d][s])}
  \cup (IF final[d][s] # None /\ final[d][s].loose /\ temp[d][s] = None
        THEN {<<None, f>> : f \in Survivors(final[d][s])} ELSE {})
LossOutcomes ==
  LET left == [d \in Dirs |-> [s \in Slots |-> SlotOutcomes(d, s)]] IN
  {r \in [Dirs -> [Slots -> UNION {left[d][s] : d \in Dirs, s \in Slots}]] :
     \A d \in Dirs, s \in Slots : r[d][s] \in left[d][s]}
PowerLoss ==
  /\ Fault
  /\ \E r \in LossOutcomes :
       /\ final' = [d \in Dirs |-> [s \in Slots |-> r[d][s][1]]]
       /\ temp' = [d \in Dirs |-> [s \in Slots |-> r[d][s][2]]]
  /\ Forget(Openers)
  /\ UNCHANGED <<told, confirmed, bundles>>

Lock(o) ==
  \/ \E d \in Dirs : Register(o, d)
  \/ TryLock(o) \/ RecoverHeader(o) \/ Close(o) \/ Unlock(o) \/ Deregister(o)
Start(o, c) ==
  \/ \E h \in Headers : Initialize(o, c, h)
  \/ OpenPayloads(o, c)
  \/ \E p \in Payloads : Publish(o, c, p) \/ Capture(o, c, p)
  \/ \E b \in bundles, p \in Payloads : Restore(o, c, b, Anchor(p))
Step(o, c) ==
  \/ InitializeChecks(o, c) \/ ListTemporaries(o, c) \/ RecoverPayload(o, c)
  \/ PayloadsOpened(o, c) \/ PublishChecks(o, c)
  \/ CreateTemporary(o, c) \/ WriteTemporary(o, c) \/ SyncTemporary(o, c)
  \/ RenameTemporary(o, c)

Next ==
  \/ \E o \in Openers : Lock(o)
  \/ \E o \in Openers, c \in Callers : Start(o, c) \/ Step(o, c) \/ CallFails(o, c)
  \/ \E p \in Processes : Killed(p)
  \/ PowerLoss

Spec == Init /\ [][Next]_vars

(***************************************************************************)
(* Properties.                                                             *)
(***************************************************************************)
(* The exclusive lock: two stores, of one process or of two, never recover *)
(* or use one directory at the same time (HeaderStoreLock).                *)
OneHolder ==
  \A o1, o2 \in Openers :
    /\ opener[o1].pc \in {"locked", "open"} /\ opener[o2].pc \in {"locked", "open"}
    /\ opener[o1].dir = opener[o2].dir
    => o1 = o2

(* "Existing generation files are never overwritten" (publish) and "a      *)
(* different header fails rather than silently replacing wallet identity"  *)
(* (initialize): no step of a store changes or removes a published file.   *)
FilesKept ==
  \A d \in Dirs, s \in Slots :
    final[d][s] # None /\ faults' = faults =>
      final'[d][s] # None /\ final'[d][s].data = final[d][s].data
NeverReplaced == [][FilesKept]_vars

(* A payload whose publication was reported is kept through every kill and *)
(* power loss, under its name or under the temporary name that the next    *)
(* open_payloads recovers.                                                 *)
PublishedKept ==
  \A d \in Dirs : \A p \in told[d] :
    \E file \in {final[d][p.generation], temp[d][p.generation]} :
      file # None /\ file.data = p

(* A retry that was answered AlreadyPublished is never answered falsely    *)
(* later: the payload is kept too, or its bytes were never synchronized    *)
(* and a power loss tore them, which every later load refuses; no other    *)
(* payload takes its generation (publish, recover_temporary_payloads).     *)
ConfirmedKept ==
  \A d \in Dirs : \A p \in confirmed[d] :
    \E file \in {final[d][p.generation], temp[d][p.generation]} :
      file # None /\ file.data \in {p, Torn}

(* The documented retry: a payload that publish reported, as Published or  *)
(* as AlreadyPublished, is in the directory (publish calls its temporary   *)
(* file synchronized, and so does recover_temporary_payloads).             *)
ReportedKept ==
  \A d \in Dirs : \A p \in told[d] \cup confirmed[d] :
    \E file \in {final[d][p.generation], temp[d][p.generation]} :
      file # None /\ file.data = p

(* Every payload of a directory belongs to its header, also when a power   *)
(* loss undoes the rename of the header and the directory is opened again  *)
(* (verify_header, recover_temporary_header).                              *)
PayloadsBindHeader ==
  \A d \in Dirs, g \in Generations :
    HeaderLoads(d) /\ Decodes(final[d][g]) => VerifiesFor(final[d][g].data, HeaderOf(d), g)

(* Kills, power losses and the recovery after them lose no payload that    *)
(* was reported as published, put no other payload in the place of one     *)
(* that was reported as already published, and never leave the payloads of *)
(* one wallet under the header of another.                                 *)
WalletKept == PublishedKept /\ ConfirmedKept /\ PayloadsBindHeader

(* A restore that is repeated after interruptions ends with the payload of *)
(* its bundle in the directory, unless an interrupted write left bytes     *)
(* that the directory refuses (restore, recover_temporary_payloads).       *)
Refuses(d) ==
  \E s \in Slots : \E file \in {final[d][s], temp[d][s]} : file # None /\ file.data = Torn
RestoreCompletes ==
  \A d \in Dirs : \A b \in Backups :
    <>[](LoadAnchored(d, Anchor(b.payload)) \/ Refuses(d))

(***************************************************************************)
(* The inductive invariant, for a store that one thread at a time uses.    *)
(***************************************************************************)
OneCaller == \A c1, c2 \in Callers : c1 = c2

Writes == {"create", "write", "sync", "rename"}
Call ==
  [pc : {"none", "header", "list", "recover", "publish"} \cup Writes,
   op : {"none", "initialize", "restore", "open", "capture", "publish"},
   header : Headers \cup {None}, payload : Payloads \cup {None},
   todo : SUBSET Generations, slot : Slots]
Opener ==
  [pc : {"closed", "registered", "locked", "open", "dropping", "unlocked"},
   dir : Dirs \cup {None}, payloads : BOOLEAN]
KeystoreTypeOK ==
  /\ final \in [Dirs -> [Slots -> File \cup {None}]]
  /\ temp \in [Dirs -> [Slots -> File \cup {None}]]
  /\ opener \in [Openers -> Opener]
  /\ call \in [Openers -> [Callers -> Call]]
  /\ oslock \in [Dirs -> Openers \cup {None}]
  /\ told \in [Dirs -> SUBSET Payloads]
  /\ bundles \subseteq [header : Headers, payload : Payloads]
  /\ faults \in Nat

(* Who works in a directory has its lock. *)
Holding == {"locked", "open", "dropping"}
LocksHeld ==
  \A o \in Openers :
    /\ opener[o].pc # "closed" => opener[o].dir \in Dirs
    /\ opener[o].pc \in Holding => oslock[opener[o].dir] = o

(* The files F and T of a directory, under their canonical and temporary   *)
(* names: a slot has one name at a time, payloads come after a header and  *)
(* belong to it, and what was reported (K) is synchronized.                *)
Bound(header, payload, g) ==
  Decodes(header) /\ Decodes(payload) => VerifiesFor(payload.data, header.data, g)
FilesFit(F, T, K) ==
  /\ \A s \in Slots : F[s] = None \/ T[s] = None
  /\ \A file \in {F[0], T[0]} : Decodes(file) => file.data \in Headers
  /\ \A g \in Generations :
       /\ F[g] # None \/ T[g] # None => F[0] # None \/ T[0] # None
       /\ \A header \in {F[0], T[0]}, payload \in {F[g], T[g]} : Bound(header, payload, g)
  /\ \A p \in K : \E file \in {F[p.generation], T[p.generation]} :
       file # None /\ file.data = p /\ file.synced

(* What a call k knows of the files of its directory: the slot it writes   *)
(* is free, and the temporary file is its own.                             *)
WriteFits(k, F, T) ==
  /\ F[k.slot] = None
  /\ k.slot = 0 => k.header \in Headers
  /\ k.slot # 0 =>
       /\ k.payload \in Payloads /\ k.payload.generation = k.slot
       /\ Decodes(F[0]) /\ k.payload.header = F[0].data
  /\ k.pc # "create" =>
       /\ T[k.slot] # None
       /\ k.slot = 0 => \A g \in Generations : F[g] = None /\ T[g] = None
  /\ k.pc = "write" => ~T[k.slot].synced
  /\ k.pc \in {"sync", "rename"} =>
       T[k.slot].data = IF k.slot = 0 THEN k.header ELSE k.payload
  /\ k.pc = "rename" => T[k.slot].synced
CallFits(k, F, T) ==
  /\ k.pc = "header" => k.header \in Headers
  /\ k.pc = "publish" \/ k.op \in {"restore", "capture"} => k.payload \in Payloads
  /\ k.pc \in Writes => WriteFits(k, F, T)

DirectoriesFit == \A d \in Dirs : FilesFit(final[d], temp[d], told[d])
CallsFit ==
  \A o \in Openers, c \in Callers :
    call[o][c].pc # "none" =>
      /\ opener[o].pc = "open"
      /\ CallFits(call[o][c], final[opener[o].dir], temp[opener[o].dir])
KeystoreInv == KeystoreTypeOK /\ LocksHeld /\ DirectoriesFit /\ CallsFit

(* What was reported as already published is or was under its generation,  *)
(* and no call is about to write there.                                    *)
ConfirmedInv ==
  /\ confirmed \in [Dirs -> SUBSET Payloads]
  /\ ConfirmedKept
  /\ \A o \in Openers, c \in Callers :
       call[o][c].pc = "write" =>
         \A p \in confirmed[opener[o].dir] : p.generation # call[o][c].slot
WalletInv == KeystoreInv /\ ConfirmedInv
===============================================================================
