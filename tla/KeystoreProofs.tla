--------------------------- MODULE KeystoreProofs ---------------------------
(***************************************************************************)
(* Proofs about Keystore, for every number of directories, processes,      *)
(* stores, headers, payloads and faults.  The lock is shown for any number *)
(* of threads per store; what happens to the files is shown for one thread *)
(* per store (OneCaller).  KeystoreInv is inductive: lemmas about the      *)
(* files of one directory say what each system call does to them, and each *)
(* action is one of those calls in the directory that its store has        *)
(* locked.                                                                 *)
(***************************************************************************)
EXTENDS Keystore, TLAPS

(***************************************************************************)
(* Types.                                                                  *)
(***************************************************************************)
FileTable == [Slots -> File \cup {None}]

LEMMA SlotFacts ==
  /\ 0 \in Slots /\ 0 \notin Generations /\ Generations \subseteq Slots
  /\ Generations \subseteq Nat
  /\ \A s \in Slots : s # 0 => s \in Generations
  /\ \A p \in Payloads : p.generation \in Generations
BY KeystoreAssumptions DEF Slots, Generations

LEMMA FileFacts ==
  ASSUME NEW file \in File
  PROVE  /\ file # None
         /\ [file EXCEPT !.loose = TRUE] \in File
         /\ [file EXCEPT !.loose = TRUE].data = file.data
         /\ [file EXCEPT !.loose = TRUE].synced = file.synced
         /\ [file EXCEPT !.synced = TRUE] \in File
         /\ [file EXCEPT !.synced = TRUE].data = file.data
         /\ [file EXCEPT !.synced = TRUE].synced = TRUE
         /\ Settled(file) \in File /\ Settled(file).data = file.data
         /\ Settled(file).synced = TRUE
BY KeystoreAssumptions, Zenon DEF File, Settled

LEMMA WrittenFile ==
  ASSUME NEW file \in File, NEW bytes \in Headers \cup Payloads \cup {Torn}
  PROVE  /\ [file EXCEPT !.data = bytes] \in File
         /\ [file EXCEPT !.data = bytes].data = bytes
         /\ [file EXCEPT !.data = bytes].synced = file.synced
BY DEF File

LEMMA NewFile ==
  /\ [data |-> Torn, synced |-> FALSE, loose |-> FALSE] \in File
  /\ [data |-> Torn, synced |-> FALSE, loose |-> FALSE] # None
<1>. DEFINE new == [data |-> Torn, synced |-> FALSE, loose |-> FALSE]
<1>1. FALSE \in BOOLEAN /\ Torn \in Headers \cup Payloads \cup {Torn}
  OBVIOUS
<1>2. new \in File
  BY <1>1, Zenon DEF File
<1>. HIDE DEF new
<1>3. new # None
  BY <1>2, KeystoreAssumptions
<1>. QED
  BY <1>2, <1>3 DEF new

(* The entries that actions write in the table of calls. *)
LEMMA NoCallIsCall == NoCall \in Call
BY SlotFacts DEF NoCall, Call

LEMMA BeginCall ==
  ASSUME NEW o \in Openers, NEW c \in Callers, NEW entry \in Call,
         call \in [Openers -> [Callers -> Call]], Begin(o, c, entry)
  PROVE  /\ call' \in [Openers -> [Callers -> Call]]
         /\ call'[o][c] = entry
         /\ \A o2 \in Openers, c2 \in Callers :
              o2 # o \/ c2 # c => call'[o2][c2] = call[o2][c2]
BY DEF Begin

(***************************************************************************)
(* The files F and T of one directory.                                     *)
(***************************************************************************)
(* Every file under a new name was there before, and every synchronized    *)
(* file is still there: renames, synchronization and power losses.         *)
SlotFollows(f, t, f2, t2) ==
  /\ f2 = None \/ t2 = None
  /\ f # None \/ t # None <=> f2 # None \/ t2 # None
  /\ \A file2 \in {f2, t2} : Decodes(file2) =>
       \E file \in {f, t} : Decodes(file) /\ file.data = file2.data
  /\ \A file \in {f, t} : file # None /\ file.synced =>
       \E file2 \in {f2, t2} : file2 # None /\ file2.data = file.data /\ file2.synced
Follows(F, T, F2, T2) == \A s \in Slots : SlotFollows(F[s], T[s], F2[s], T2[s])

LEMMA FollowingFits ==
  ASSUME NEW F, NEW T, NEW F2, NEW T2, NEW K \in SUBSET Payloads,
         FilesFit(F, T, K), Follows(F, T, F2, T2)
  PROVE  FilesFit(F2, T2, K)
<1>1. \A s \in Slots : F2[s] = None \/ T2[s] = None
  BY DEF Follows, SlotFollows
<1>2. \A file \in {F2[0], T2[0]} : Decodes(file) => file.data \in Headers
  BY SlotFacts DEF Follows, SlotFollows, FilesFit
<1>3. ASSUME NEW g \in Generations
      PROVE  F2[g] # None \/ T2[g] # None => F2[0] # None \/ T2[0] # None
  <2>1. g \in Slots /\ 0 \in Slots
    BY SlotFacts
  <2>. QED
    BY <2>1, Zenon DEF Follows, SlotFollows, FilesFit
<1>4. ASSUME NEW g \in Generations, NEW header \in {F2[0], T2[0]},
             NEW payload \in {F2[g], T2[g]}, Decodes(header), Decodes(payload)
      PROVE  VerifiesFor(payload.data, header.data, g)
  <2>1. g \in Slots /\ 0 \in Slots
    BY SlotFacts
  <2>2. PICK h \in {F[0], T[0]} : Decodes(h) /\ h.data = header.data
    BY <1>4, <2>1, Zenon DEF Follows, SlotFollows
  <2>3. PICK p \in {F[g], T[g]} : Decodes(p) /\ p.data = payload.data
    BY <1>4, <2>1, Zenon DEF Follows, SlotFollows
  <2>4. VerifiesFor(p.data, h.data, g)
    BY <2>2, <2>3, Zenon DEF FilesFit, Bound
  <2>. QED
    BY <2>2, <2>3, <2>4
<1>5. ASSUME NEW p \in K
      PROVE  \E file \in {F2[p.generation], T2[p.generation]} :
               file # None /\ file.data = p /\ file.synced
  <2>. DEFINE g == p.generation
  <2>1. g \in Slots
    BY SlotFacts, Zenon
  <2>2. PICK old \in {F[g], T[g]} : old # None /\ old.data = p /\ old.synced
    BY Zenon DEF FilesFit
  <2>. HIDE DEF g
  <2>3. PICK file2 \in {F2[g], T2[g]} : file2 # None /\ file2.data = old.data /\ file2.synced
    BY <2>1, <2>2, Zenon DEF Follows, SlotFollows
  <2>4. file2 # None /\ file2.data = p /\ file2.synced
    BY <2>2, <2>3, Zenon
  <2>. QED
    BY <2>4, Zenon DEF g
<1>6. \A g \in Generations :
        /\ F2[g] # None \/ T2[g] # None => F2[0] # None \/ T2[0] # None
        /\ \A header \in {F2[0], T2[0]}, payload \in {F2[g], T2[g]} : Bound(header, payload, g)
  BY <1>3, <1>4, Zenon DEF Bound
<1>7. \A p \in K : \E file \in {F2[p.generation], T2[p.generation]} :
        file # None /\ file.data = p /\ file.synced
  BY <1>5, Zenon
<1>. QED
  BY <1>1, <1>2, <1>6, <1>7, Zenon DEF FilesFit

(* A system call changes the files of one slot. *)
LEMMA OneSlotFits ==
  ASSUME NEW F, NEW T, NEW F2, NEW T2, NEW K \in SUBSET Payloads, NEW s \in Slots,
         FilesFit(F, T, K), SlotFollows(F[s], T[s], F2[s], T2[s]),
         \A t \in Slots : t # s => F2[t] = F[t] /\ T2[t] = T[t]
  PROVE  FilesFit(F2, T2, K)
<1>1. ASSUME NEW t \in Slots, t # s
      PROVE  SlotFollows(F[t], T[t], F2[t], T2[t])
  <2>1. F2[t] = F[t] /\ T2[t] = T[t] /\ (F[t] = None \/ T[t] = None)
    BY <1>1, Zenon DEF FilesFit
  <2>. QED
    BY <2>1, Zenon DEF SlotFollows
<1>2. Follows(F, T, F2, T2)
  BY <1>1, Zenon DEF Follows
<1>. QED
  BY <1>2, FollowingFits

LEMMA SameBytesFollow ==
  ASSUME NEW file, NEW file2, file # None, file2 # None, file2.data = file.data,
         file.synced => file2.synced
  PROVE  SlotFollows(None, file, file2, None) /\ SlotFollows(None, file, None, file2)
BY Zenon DEF SlotFollows, Decodes

(* rename: the file moves from its temporary to its canonical name. *)
LEMMA RenameFits ==
  ASSUME NEW F \in FileTable, NEW T \in FileTable, NEW K \in SUBSET Payloads,
         FilesFit(F, T, K), NEW s \in Slots, T[s] # None
  PROVE  LET F2 == [F EXCEPT ![s] = [T[s] EXCEPT !.loose = TRUE]]
             T2 == [T EXCEPT ![s] = None]
         IN  /\ FilesFit(F2, T2, K) /\ F2 \in FileTable /\ T2 \in FileTable
             /\ F[s] = None /\ F2[s] # None
             /\ F2[s].data = T[s].data /\ F2[s].synced = T[s].synced
             /\ \A t \in Slots : t # s => F2[t] = F[t] /\ T2[t] = T[t]
<1>. DEFINE file == T[s]
            moved == [file EXCEPT !.loose = TRUE]
            F2 == [F EXCEPT ![s] = moved]
            T2 == [T EXCEPT ![s] = None]
<1>1. file \in File /\ F[s] = None
  BY DEF FileTable, FilesFit
<1>2. moved \in File /\ moved # None /\ moved.data = file.data /\ moved.synced = file.synced
  BY <1>1, FileFacts, Zenon
<1>. HIDE DEF moved
<1>3. /\ F2 \in FileTable /\ T2 \in FileTable /\ F2[s] = moved /\ T2[s] = None
      /\ \A t \in Slots : t # s => F2[t] = F[t] /\ T2[t] = T[t]
  BY <1>2 DEF FileTable
<1>. HIDE DEF F2, T2
<1>4. SlotFollows(F[s], T[s], F2[s], T2[s])
  BY <1>1, <1>2, <1>3, SameBytesFollow
<1>5. FilesFit(F2, T2, K)
  BY <1>3, <1>4, OneSlotFits
<1>6. F2[s] # None /\ F2[s].data = T[s].data /\ F2[s].synced = T[s].synced
  BY <1>2, <1>3, Zenon
<1>. QED
  BY <1>1, <1>3, <1>5, <1>6, Zenon DEF F2, T2, moved

(* sync_all. *)
LEMMA SyncFits ==
  ASSUME NEW F \in FileTable, NEW T \in FileTable, NEW K \in SUBSET Payloads,
         FilesFit(F, T, K), NEW s \in Slots, T[s] # None
  PROVE  LET T2 == [T EXCEPT ![s] = [T[s] EXCEPT !.synced = TRUE]]
         IN  /\ FilesFit(F, T2, K) /\ T2 \in FileTable /\ T2[s] # None
             /\ T2[s].data = T[s].data /\ T2[s].synced
             /\ \A t \in Slots : t # s => T2[t] = T[t]
<1>. DEFINE file == T[s]
            synced == [file EXCEPT !.synced = TRUE]
            T2 == [T EXCEPT ![s] = synced]
<1>1. file \in File /\ F[s] = None
  BY DEF FileTable, FilesFit
<1>2. synced \in File /\ synced # None /\ synced.data = file.data /\ synced.synced
  BY <1>1, FileFacts, Zenon
<1>. HIDE DEF synced
<1>3. T2 \in FileTable /\ T2[s] = synced /\ \A t \in Slots : t # s => T2[t] = T[t]
  BY <1>2 DEF FileTable
<1>. HIDE DEF T2
<1>4. SlotFollows(F[s], T[s], F[s], T2[s])
  BY <1>1, <1>2, <1>3, SameBytesFollow
<1>5. FilesFit(F, T2, K)
  BY <1>3, <1>4, OneSlotFits
<1>6. T2[s] # None /\ T2[s].data = T[s].data /\ T2[s].synced
  BY <1>2, <1>3, Zenon
<1>. QED
  BY <1>3, <1>5, <1>6, Zenon DEF T2, synced

(* create_new: an empty file under a free name; a payload only where there *)
(* is a header.                                                            *)
LEMMA CreateFits ==
  ASSUME NEW F \in FileTable, NEW T \in FileTable, NEW K \in SUBSET Payloads,
         FilesFit(F, T, K), NEW s \in Slots, F[s] = None, T[s] = None,
         s # 0 => F[0] # None,
         NEW new \in File, new.data = Torn
  PROVE  LET T2 == [T EXCEPT ![s] = new]
         IN  /\ FilesFit(F, T2, K) /\ T2 \in FileTable /\ T2[s] = new /\ new # None
             /\ \A t \in Slots : t # s => T2[t] = T[t]
<1>. DEFINE T2 == [T EXCEPT ![s] = new]
<1>1. /\ T2 \in FileTable /\ T2[s] = new /\ new # None /\ ~Decodes(new) /\ 0 \in Slots
      /\ \A t \in Slots : t # s => T2[t] = T[t]
  BY FileFacts, SlotFacts, Zenon DEF FileTable, Decodes
<1>. HIDE DEF T2
<1>2. \A t \in Slots : F[t] = None \/ T2[t] = None
  BY <1>1, Zenon DEF FilesFit
<1>3. \A file \in {F[0], T2[0]} : Decodes(file) => file.data \in Headers
  <2>1. T2[0] = T[0] \/ T2[0] = new
    BY <1>1, Zenon
  <2>2. \A file \in {F[0], T[0]} : Decodes(file) => file.data \in Headers
    BY Zenon DEF FilesFit
  <2>. QED
    BY <1>1, <2>1, <2>2, Zenon
<1>4. ASSUME NEW g \in Generations
      PROVE  /\ F[g] # None \/ T2[g] # None => F[0] # None \/ T2[0] # None
             /\ \A header \in {F[0], T2[0]}, payload \in {F[g], T2[g]} : Bound(header, payload, g)
  <2>1. g \in Slots /\ g # 0
    BY SlotFacts
  <2>2. T2[0] = T[0] \/ T2[0] = new
    BY <1>1, Zenon
  <2>3. T2[g] = T[g] \/ T2[g] = new
    BY <1>1, <2>1, Zenon
  <2>4. F[g] # None \/ T2[g] # None => F[0] # None \/ T2[0] # None
    BY <1>1, <2>1, <2>2, Zenon DEF FilesFit
  <2>5. \A header \in {F[0], T2[0]}, payload \in {F[g], T2[g]} : Bound(header, payload, g)
    <3>1. \A header \in {F[0], T[0]}, payload \in {F[g], T[g]} : Bound(header, payload, g)
      BY Zenon DEF FilesFit
    <3>2. \A file : Bound(new, file, g) /\ Bound(file, new, g)
      BY <1>1, Zenon DEF Bound
    <3>. QED
      BY <2>2, <2>3, <3>1, <3>2, Zenon
  <2>. QED
    BY <2>4, <2>5
<1>5. ASSUME NEW p \in K
      PROVE  \E file \in {F[p.generation], T2[p.generation]} :
               file # None /\ file.data = p /\ file.synced
  <2>. DEFINE g == p.generation
  <2>1. g \in Slots
    BY SlotFacts, Zenon
  <2>2. PICK old \in {F[g], T[g]} : old # None /\ old.data = p /\ old.synced
    BY Zenon DEF FilesFit
  <2>. HIDE DEF g
  <2>3. old \in {F[g], T2[g]}
    BY <1>1, <2>1, <2>2
  <2>. QED
    BY <2>2, <2>3, Zenon DEF g
<1>6. FilesFit(F, T2, K)
  BY <1>2, <1>3, <1>4, <1>5, Zenon DEF FilesFit
<1>. QED
  BY <1>1, <1>6, Zenon DEF T2

(* write_all: the bytes of a new header, before any payload, or those of a *)
(* payload that is bound to the header.                                    *)
LEMMA BytesFit ==
  ASSUME NEW F \in FileTable, NEW T \in FileTable, NEW K \in SUBSET Payloads,
         FilesFit(F, T, K), NEW s \in Slots, T[s] # None, ~T[s].synced,
         NEW bytes,
         s = 0 => bytes \in Headers /\ \A g \in Generations : F[g] = None /\ T[g] = None,
         s # 0 => /\ bytes \in Payloads /\ bytes.generation = s
                  /\ Decodes(F[0]) /\ bytes.header = F[0].data
  PROVE  LET T2 == [T EXCEPT ![s] = [T[s] EXCEPT !.data = bytes]]
         IN  /\ FilesFit(F, T2, K) /\ T2 \in FileTable
             /\ T2[s] # None /\ T2[s].data = bytes
             /\ \A t \in Slots : t # s => T2[t] = T[t]
<1>. DEFINE file == T[s]
            written == [file EXCEPT !.data = bytes]
            T2 == [T EXCEPT ![s] = written]
<1>1. file \in File /\ F[s] = None /\ bytes \in Headers \cup Payloads \cup {Torn}
  BY DEF FileTable, FilesFit
<1>2. written \in File /\ written # None /\ written.data = bytes
  <2>1. written \in File /\ written.data = bytes
    BY <1>1, WrittenFile, Zenon
  <2>. HIDE DEF written
  <2>. QED
    BY <2>1, FileFacts, Zenon
<1>. HIDE DEF written
<1>3. /\ T2 \in FileTable /\ T2[s] = written /\ 0 \in Slots
      /\ \A t \in Slots : t # s => T2[t] = T[t]
  BY <1>2, SlotFacts DEF FileTable
<1>. HIDE DEF T2
<1>4. \A t \in Slots : F[t] = None \/ T2[t] = None
  BY <1>1, <1>3, Zenon DEF FilesFit
<1>5. \A header \in {F[0], T2[0]} : Decodes(header) => header.data \in Headers
  <2>1. T2[0] = T[0] \/ (s = 0 /\ T2[0] = written)
    BY <1>3, Zenon
  <2>2. \A header \in {F[0], T[0]} : Decodes(header) => header.data \in Headers
    BY Zenon DEF FilesFit
  <2>. QED
    BY <1>2, <2>1, <2>2, Zenon
<1>6. ASSUME NEW g \in Generations
      PROVE  /\ F[g] # None \/ T2[g] # None => F[0] # None \/ T2[0] # None
             /\ \A header \in {F[0], T2[0]}, payload \in {F[g], T2[g]} : Bound(header, payload, g)
  <2>1. g \in Slots /\ g # 0 /\ None = None
    BY SlotFacts
  <2>2. CASE s = 0
    <3>1. F[g] = None /\ T2[g] = None
      BY <1>3, <2>1, <2>2, Zenon
    <3>. QED
      BY <3>1, Zenon DEF Bound, Decodes
  <2>3. CASE s # 0 /\ s # g
    <3>1. T2[0] = T[0] /\ T2[g] = T[g]
      BY <1>3, <2>1, <2>3, Zenon
    <3>. QED
      BY <3>1, Zenon DEF FilesFit
  <2>4. CASE s = g
    <3>1. F[0] # None /\ T2[0] = None /\ F[g] = None /\ T2[g] = written
      BY <1>1, <1>3, <2>1, <2>4 DEF FilesFit, Decodes
    <3>2. VerifiesFor(written.data, F[0].data, g)
      BY <1>2, <2>1, <2>4 DEF VerifiesFor
    <3>. QED
      BY <3>1, <3>2, Zenon DEF Bound, Decodes
  <2>. QED
    BY <2>2, <2>3, <2>4
<1>7. ASSUME NEW p \in K
      PROVE  \E kept \in {F[p.generation], T2[p.generation]} :
               kept # None /\ kept.data = p /\ kept.synced
  <2>. DEFINE g == p.generation
  <2>1. g \in Slots
    BY SlotFacts, Zenon
  <2>2. PICK old \in {F[g], T[g]} : old # None /\ old.data = p /\ old.synced
    BY Zenon DEF FilesFit
  <2>. HIDE DEF g
  <2>3. g # s
    BY <1>1, <2>2, Zenon
  <2>4. old \in {F[g], T2[g]}
    BY <1>3, <2>1, <2>2, <2>3
  <2>. QED
    BY <2>2, <2>4, Zenon DEF g
<1>8. FilesFit(F, T2, K)
  BY <1>4, <1>5, <1>6, <1>7, Zenon DEF FilesFit
<1>. QED
  BY <1>2, <1>3, <1>8, Zenon DEF T2, written

(* A publication is reported when its file is synchronized. *)
LEMMA ReportFits ==
  ASSUME NEW F, NEW T, NEW K \in SUBSET Payloads, FilesFit(F, T, K),
         NEW p \in Payloads, F[p.generation] # None, F[p.generation].data = p,
         F[p.generation].synced
  PROVE  FilesFit(F, T, K \cup {p})
<1>1. \A q \in K \cup {p} : \E file \in {F[q.generation], T[q.generation]} :
        file # None /\ file.data = q /\ file.synced
  <2>1. \E file \in {F[p.generation], T[p.generation]} :
          file # None /\ file.data = p /\ file.synced
    BY Zenon
  <2>. QED
    BY <2>1, Zenon DEF FilesFit
<1>. QED
  BY <1>1, Zenon DEF FilesFit

(* A power loss keeps synchronized bytes, under one of their two names. *)
LEMMA SurvivorFacts ==
  ASSUME NEW file \in File, NEW left \in Survivors(file)
  PROVE  /\ left \in File /\ left # None /\ left.synced
         /\ Decodes(left) => Decodes(file) /\ left.data = file.data
         /\ file.synced => left.data = file.data
<1>. DEFINE torn == [file EXCEPT !.data = Torn]
<1>1. file # None /\ torn \in File /\ torn.data = Torn
  BY FileFacts, WrittenFile, Zenon
<1>. HIDE DEF torn
<1>2. left = Settled(file) \/ (~file.synced /\ left = Settled(torn))
  BY <1>1 DEF Survivors, torn
<1>3. /\ Settled(file) \in File /\ Settled(file).data = file.data /\ Settled(file).synced
      /\ Settled(torn) \in File /\ Settled(torn).data = Torn /\ Settled(torn).synced
  BY <1>1, FileFacts, Zenon
<1>4. left \in File /\ left # None /\ left.synced
  BY <1>2, <1>3, FileFacts, Zenon
<1>. QED
  BY <1>1, <1>2, <1>3, <1>4, Zenon DEF Decodes

LEMMA LossFollows ==
  ASSUME NEW f \in File \cup {None}, NEW t \in File \cup {None}, f = None \/ t = None,
         NEW f2, NEW t2,
         \/ f2 \in Survivors(f) /\ t2 \in Survivors(t)
         \/ f # None /\ t = None /\ f2 = None /\ t2 \in Survivors(f)
  PROVE  SlotFollows(f, t, f2, t2) /\ f2 \in File \cup {None} /\ t2 \in File \cup {None}
<1>1. \A x \in Survivors(None) : x = None
  BY DEF Survivors
<1>2. CASE f = None /\ t = None
  <2>1. f2 = None /\ t2 = None
    BY <1>1, <1>2
  <2>. QED
    BY <1>2, <2>1, Zenon DEF SlotFollows, Decodes
<1>3. CASE f # None
  <2>1. f \in File /\ t = None
    BY <1>3
  <2>2. CASE f2 \in Survivors(f) /\ t2 = None
    <3>1. /\ f2 \in File /\ f2 # None /\ f2.synced
          /\ Decodes(f2) => Decodes(f) /\ f2.data = f.data
          /\ f.synced => f2.data = f.data
      BY <2>1, <2>2, SurvivorFacts
    <3>. QED
      BY <1>3, <2>1, <2>2, <3>1, Zenon DEF SlotFollows, Decodes
  <2>3. CASE t2 \in Survivors(f) /\ f2 = None
    <3>1. /\ t2 \in File /\ t2 # None /\ t2.synced
          /\ Decodes(t2) => Decodes(f) /\ t2.data = f.data
          /\ f.synced => t2.data = f.data
      BY <2>1, <2>3, SurvivorFacts
    <3>. QED
      BY <1>3, <2>1, <2>3, <3>1, Zenon DEF SlotFollows, Decodes
  <2>. QED
    BY <1>1, <2>1, <2>2, <2>3, Zenon
<1>4. CASE t # None
  <2>1. t \in File /\ f = None /\ f2 = None /\ t2 \in Survivors(t)
    BY <1>1, <1>4
  <2>2. /\ t2 \in File /\ t2 # None /\ t2.synced
        /\ Decodes(t2) => Decodes(t) /\ t2.data = t.data
        /\ t.synced => t2.data = t.data
    BY <2>1, SurvivorFacts
  <2>. QED
    BY <1>4, <2>1, <2>2, Zenon DEF SlotFollows, Decodes
<1>. QED
  BY <1>2, <1>3, <1>4

(***************************************************************************)
(* The lock.                                                               *)
(***************************************************************************)
LockInv ==
  /\ opener \in [Openers -> Opener]
  /\ oslock \in [Dirs -> Openers \cup {None}]
  /\ LocksHeld

(* A step that only changes the state of opener o, with the lock of its    *)
(* directory kept, taken while free, or given up by its holder.            *)
LEMMA OpenerMoves ==
  ASSUME LockInv, NEW o \in Openers, NEW next \in Opener,
         opener' = [opener EXCEPT ![o] = next],
         next.pc # "closed" => next.dir \in Dirs,
         \/ oslock' = oslock /\ (next.pc \in Holding => oslock[next.dir] = o)
         \/ /\ oslock[opener[o].dir] = None /\ next.dir = opener[o].dir
            /\ next.dir \in Dirs
            /\ oslock' = [oslock EXCEPT ![opener[o].dir] = o]
         \/ /\ opener[o].pc \in Holding /\ next.pc \notin Holding
            /\ oslock' = [oslock EXCEPT ![opener[o].dir] = None]
  PROVE  LockInv'
<1>1. opener' \in [Openers -> Opener] /\ opener'[o] = next
  BY DEF LockInv
<1>2. oslock' \in [Dirs -> Openers \cup {None}]
  BY DEF LockInv
<1>3. ASSUME NEW o2 \in Openers
      PROVE  /\ opener'[o2].pc # "closed" => opener'[o2].dir \in Dirs
             /\ opener'[o2].pc \in Holding => oslock'[opener'[o2].dir] = o2
  <2>1. CASE o2 = o
    <3>1. next.pc # "closed" => next.dir \in Dirs
      OBVIOUS
    <3>2. next.pc \in Holding => oslock'[next.dir] = o
      BY DEF LockInv, Holding
    <3>. QED
      BY <1>1, <2>1, <3>1, <3>2
  <2>2. CASE o2 # o
    <3>1. opener'[o2] = opener[o2]
      BY <2>2 DEF LockInv
    <3>2. opener[o2].pc # "closed" => opener[o2].dir \in Dirs
      BY DEF LockInv, LocksHeld
    <3>3. opener[o2].pc \in Holding =>
            oslock[opener[o2].dir] = o2 /\ opener[o2].dir \in Dirs
      BY DEF LockInv, LocksHeld, Holding
    <3>4. opener[o].pc \in Holding => oslock[opener[o].dir] = o
      BY DEF LockInv, LocksHeld
    <3>5. opener[o2].pc \in Holding => oslock'[opener[o2].dir] = o2
      BY <2>2, <3>3, <3>4, KeystoreAssumptions DEF LockInv
    <3>. QED
      BY <3>1, <3>2, <3>5
  <2>. QED
    BY <2>1, <2>2
<1>. QED
  BY <1>1, <1>2, <1>3 DEF LockInv, LocksHeld

(* What a process or a power loss takes with it. *)
LEMMA ForgottenLocks ==
  ASSUME LockInv, NEW gone \in SUBSET Openers, Forget(gone)
  PROVE  LockInv'
<1>. DEFINE none == [pc |-> "closed", dir |-> None, payloads |-> FALSE]
<1>1. none \in Opener /\ none.pc = "closed"
  BY Zenon DEF Opener
<1>. HIDE DEF none
<1>2. \A o \in Openers : opener'[o] = IF o \in gone THEN none ELSE opener[o]
  BY DEF Forget, none
<1>3. opener' \in [Openers -> Opener]
  BY <1>1 DEF Forget, LockInv, none
<1>4. oslock' \in [Dirs -> Openers \cup {None}]
  BY DEF Forget, LockInv
<1>5. ASSUME NEW o \in Openers
      PROVE  /\ opener'[o].pc # "closed" => opener'[o].dir \in Dirs
             /\ opener'[o].pc \in Holding => oslock'[opener'[o].dir] = o
  <2>1. CASE o \in gone
    BY <1>1, <1>2, <2>1 DEF Holding
  <2>2. CASE o \notin gone
    <3>1. opener'[o] = opener[o]
      BY <1>2, <2>2
    <3>2. /\ opener[o].pc # "closed" => opener[o].dir \in Dirs
          /\ opener[o].pc \in Holding => oslock[opener[o].dir] = o
      BY DEF LockInv, LocksHeld
    <3>3. opener[o].pc \in Holding => oslock'[opener[o].dir] = o
      BY <2>2, <3>2 DEF Forget, Holding
    <3>. QED
      BY <3>1, <3>2, <3>3
  <2>. QED
    BY <2>1, <2>2
<1>. QED
  BY <1>3, <1>4, <1>5 DEF LockInv, LocksHeld

LEMMA OpenerStages ==
  ASSUME NEW x \in Opener
  PROVE  /\ \A pc \in {"closed", "registered", "locked", "open", "dropping", "unlocked"} :
              /\ [x EXCEPT !.pc = pc] \in Opener /\ [x EXCEPT !.pc = pc].pc = pc
              /\ [x EXCEPT !.pc = pc].dir = x.dir
         /\ [x EXCEPT !.payloads = TRUE] \in Opener
         /\ [x EXCEPT !.payloads = TRUE].pc = x.pc /\ [x EXCEPT !.payloads = TRUE].dir = x.dir
BY Zenon DEF Opener

LEMMA LocksInit ==
  ASSUME Init PROVE LockInv
<1>1. [pc |-> "closed", dir |-> None, payloads |-> FALSE] \in Opener
  BY Zenon DEF Opener
<1>2. opener \in [Openers -> Opener]
  BY <1>1 DEF Init
<1>. QED
  BY <1>2, Zenon DEF Init, LockInv, LocksHeld, Holding

LEMMA LocksOfStore ==
  ASSUME LockInv, NEW o \in Openers, Lock(o)
  PROVE  LockInv'
<1>. DEFINE x == opener[o]
            At(pc) == [x EXCEPT !.pc = pc]
<1>1. /\ x \in Opener
      /\ x.pc # "closed" => x.dir \in Dirs
      /\ x.pc \in Holding => oslock[x.dir] = o
  BY DEF LockInv, LocksHeld
<1>2. \A pc \in {"closed", "registered", "locked", "open", "dropping", "unlocked"} :
        At(pc) \in Opener /\ At(pc).pc = pc /\ At(pc).dir = x.dir
  BY <1>1, OpenerStages, Zenon
<1>. HIDE DEF At
<1>3. ASSUME NEW d \in Dirs, NEW pc \in {"closed", "registered"}, NEW dir \in Dirs \cup {None}
      PROVE  /\ [pc |-> pc, dir |-> dir, payloads |-> FALSE] \in Opener
             /\ [pc |-> pc, dir |-> dir, payloads |-> FALSE].pc = pc
             /\ [pc |-> pc, dir |-> dir, payloads |-> FALSE].dir = dir
  BY Zenon DEF Opener
<1>4. ASSUME NEW d \in Dirs, Register(o, d)
      PROVE  LockInv'
  <2>. DEFINE next == [pc |-> "registered", dir |-> d, payloads |-> FALSE]
  <2>1. next \in Opener /\ next.pc = "registered" /\ next.dir = d
    BY <1>3
  <2>2. opener' = [opener EXCEPT ![o] = next] /\ oslock' = oslock
    BY <1>4 DEF Register
  <2>. HIDE DEF next
  <2>. QED
    BY <2>1, <2>2, OpenerMoves, Zenon DEF Holding
<1>5. CASE TryLock(o)
  <2>1. CASE /\ oslock[x.dir] = None /\ oslock' = [oslock EXCEPT ![x.dir] = o]
             /\ opener' = [opener EXCEPT ![o] = At("locked")]
    BY <1>1, <1>2, <1>5, <2>1, OpenerMoves, Zenon DEF TryLock
  <2>2. CASE oslock' = oslock /\ opener' = [opener EXCEPT ![o] = At("closed")]
    BY <1>1, <1>2, <2>2, OpenerMoves, Zenon DEF Holding
  <2>. QED
    BY <1>5, <2>1, <2>2 DEF TryLock, At
<1>6. CASE RecoverHeader(o)
  <2>1. /\ x.pc = "locked" /\ oslock' = oslock
        /\ \/ opener' = [opener EXCEPT ![o] = At("open")]
           \/ opener' = [opener EXCEPT ![o] = At("dropping")]
    BY <1>6, Zenon DEF RecoverHeader, At
  <2>. QED
    BY <1>1, <1>2, <2>1, OpenerMoves DEF Holding
<1>7. CASE Close(o)
  <2>1. /\ x.pc = "open" /\ oslock' = oslock
        /\ opener' = [opener EXCEPT ![o] = At("dropping")]
    BY <1>7 DEF Close, At
  <2>. QED
    BY <1>1, <1>2, <2>1, OpenerMoves, Zenon DEF Holding
<1>8. CASE Unlock(o)
  <2>1. /\ x.pc = "dropping" /\ oslock' = [oslock EXCEPT ![x.dir] = None]
        /\ opener' = [opener EXCEPT ![o] = At("unlocked")]
    BY <1>8 DEF Unlock, At
  <2>. QED
    BY <1>1, <1>2, <2>1, OpenerMoves, Zenon DEF Holding
<1>9. CASE Deregister(o)
  <2>. DEFINE next == [pc |-> "closed", dir |-> None, payloads |-> FALSE]
  <2>1. next \in Opener /\ next.pc = "closed"
    BY Zenon DEF Opener
  <2>2. opener' = [opener EXCEPT ![o] = next] /\ oslock' = oslock
    BY <1>9 DEF Deregister
  <2>. HIDE DEF next
  <2>. QED
    BY <2>1, <2>2, OpenerMoves, Zenon DEF Holding
<1>. QED
  BY <1>4, <1>5, <1>6, <1>7, <1>8, <1>9 DEF Lock

(* Operations leave the locks alone; open_payloads notes that it returned. *)
LEMMA LocksOfCall ==
  ASSUME NEW o \in Openers, NEW c \in Callers,
         Start(o, c) \/ Step(o, c) \/ CallFails(o, c)
  PROVE  /\ oslock' = oslock
         /\ \/ opener' = opener
            \/ opener' = [opener EXCEPT ![o] = [opener[o] EXCEPT !.payloads = TRUE]]
<1>1. CASE Start(o, c)
  BY <1>1, Zenon DEF Start, Initialize, OpenPayloads, Publish, Capture, Restore, locks
<1>2. CASE Step(o, c)
  <2>1. CASE PayloadsOpened(o, c)
    BY <2>1 DEF PayloadsOpened
  <2>2. CASE InitializeChecks(o, c) \/ ListTemporaries(o, c) \/ RecoverPayload(o, c)
             \/ PublishChecks(o, c)
    BY <2>2, Zenon DEF InitializeChecks, ListTemporaries, RecoverPayload, PublishChecks, locks
  <2>3. CASE CreateTemporary(o, c) \/ WriteTemporary(o, c) \/ SyncTemporary(o, c)
             \/ RenameTemporary(o, c)
    BY <2>3, Zenon DEF CreateTemporary, WriteTemporary, SyncTemporary, RenameTemporary, locks
  <2>. QED
    BY <1>2, <2>1, <2>2, <2>3 DEF Step
<1>3. CASE CallFails(o, c)
  BY <1>3 DEF CallFails, locks
<1>. QED
  BY <1>1, <1>2, <1>3

LEMMA LocksStep ==
  ASSUME LockInv, [Next]_vars
  PROVE  LockInv'
<1>1. ASSUME NEW o \in Openers, Lock(o) PROVE LockInv'
  BY <1>1, LocksOfStore
<1>2. ASSUME NEW o \in Openers, NEW c \in Callers,
             Start(o, c) \/ Step(o, c) \/ CallFails(o, c)
      PROVE  LockInv'
  <2>1. CASE oslock' = oslock /\ opener' = opener
    BY <2>1 DEF LockInv, LocksHeld
  <2>2. CASE /\ oslock' = oslock
             /\ opener' = [opener EXCEPT ![o] = [opener[o] EXCEPT !.payloads = TRUE]]
    <3>. DEFINE next == [opener[o] EXCEPT !.payloads = TRUE]
    <3>1. next \in Opener /\ next.pc = opener[o].pc /\ next.dir = opener[o].dir
      BY OpenerStages, Zenon DEF LockInv
    <3>2. /\ opener[o].pc # "closed" => opener[o].dir \in Dirs
          /\ opener[o].pc \in Holding => oslock[opener[o].dir] = o
      BY DEF LockInv, LocksHeld
    <3>. HIDE DEF next
    <3>3. opener' = [opener EXCEPT ![o] = next] /\ oslock' = oslock
      BY <2>2 DEF next
    <3>. QED
      BY <3>1, <3>2, <3>3, OpenerMoves, Zenon
  <2>. QED
    BY <1>2, <2>1, <2>2, LocksOfCall
<1>3. ASSUME NEW p \in Processes, Killed(p) PROVE LockInv'
  BY <1>3, ForgottenLocks DEF Killed
<1>4. CASE PowerLoss
  BY <1>4, ForgottenLocks DEF PowerLoss
<1>5. CASE UNCHANGED vars
  BY <1>5 DEF vars, LockInv, LocksHeld
<1>. QED
  BY <1>1, <1>2, <1>3, <1>4, <1>5 DEF Next

(* The lock admits one store per directory, for any number of threads that *)
(* share a store (HeaderStoreLock).                                        *)
THEOREM LockExcludes == Spec => []OneHolder
<1>1. LockInv => OneHolder
  BY DEF LockInv, LocksHeld, OneHolder, Holding
<1>. QED
  BY <1>1, LocksInit, LocksStep, PTL DEF Spec

(***************************************************************************)
(* Work in one directory.                                                  *)
(***************************************************************************)
FilesInv ==
  /\ final \in [Dirs -> FileTable] /\ temp \in [Dirs -> FileTable]
  /\ told \in [Dirs -> SUBSET Payloads]
  /\ DirectoriesFit

(* The other directories are as they were, and so is what has a canonical  *)
(* name.                                                                   *)
WorksIn(d) ==
  /\ final' \in [Dirs -> FileTable] /\ temp' \in [Dirs -> FileTable]
  /\ told' \in [Dirs -> SUBSET Payloads]
  /\ \A d2 \in Dirs : d2 # d =>
       final'[d2] = final[d2] /\ temp'[d2] = temp[d2] /\ told'[d2] = told[d2]
  /\ FilesFit(final'[d], temp'[d], told'[d])
  /\ \A s \in Slots : final[d][s] # None =>
       final'[d][s] # None /\ final'[d][s].data = final[d][s].data

LEMMA WorkKeeps ==
  ASSUME FilesInv, NEW d \in Dirs, WorksIn(d)
  PROVE  FilesInv' /\ FilesKept
<1>1. ASSUME NEW d2 \in Dirs
      PROVE  FilesFit(final'[d2], temp'[d2], told'[d2])
  BY DEF WorksIn, FilesInv, DirectoriesFit
<1>2. ASSUME NEW d2 \in Dirs, NEW s \in Slots, final[d2][s] # None
      PROVE  final'[d2][s] # None /\ final'[d2][s].data = final[d2][s].data
  <2>1. CASE d2 = d
    BY <1>2, <2>1 DEF WorksIn
  <2>2. CASE d2 # d
    BY <1>2, <2>2 DEF WorksIn
  <2>. QED
    BY <2>1, <2>2
<1>3. DirectoriesFit'
  BY <1>1 DEF DirectoriesFit
<1>4. FilesKept
  BY <1>2, Zenon DEF FilesKept
<1>. QED
  BY <1>3, <1>4 DEF FilesInv, WorksIn

LEMMA DirectoryFacts ==
  ASSUME FilesInv, NEW d \in Dirs
  PROVE  /\ final[d] \in FileTable /\ temp[d] \in FileTable /\ told[d] \in SUBSET Payloads
         /\ FilesFit(final[d], temp[d], told[d])
BY DEF FilesInv, DirectoriesFit

LEMMA NoWork ==
  ASSUME FilesInv, NEW d \in Dirs, UNCHANGED <<files, told>>
  PROVE  WorksIn(d)
BY DEF FilesInv, DirectoriesFit, WorksIn, files

(* A step that gives d the files F2 and T2 and the reports K2. *)
LEMMA NewFilesWork ==
  ASSUME FilesInv, NEW d \in Dirs, NEW F2 \in FileTable, NEW T2 \in FileTable,
         NEW K2 \in SUBSET Payloads,
         final' = [final EXCEPT ![d] = F2], temp' = [temp EXCEPT ![d] = T2],
         told' = [told EXCEPT ![d] = K2],
         FilesFit(F2, T2, K2),
         \A s \in Slots : final[d][s] # None => F2[s] # None /\ F2[s].data = final[d][s].data
  PROVE  WorksIn(d)
<1>1. /\ final' \in [Dirs -> FileTable] /\ temp' \in [Dirs -> FileTable]
      /\ told' \in [Dirs -> SUBSET Payloads]
  BY DEF FilesInv
<1>2. final'[d] = F2 /\ temp'[d] = T2 /\ told'[d] = K2
  BY DEF FilesInv
<1>3. \A d2 \in Dirs : d2 # d =>
        final'[d2] = final[d2] /\ temp'[d2] = temp[d2] /\ told'[d2] = told[d2]
  BY DEF FilesInv
<1>. QED
  BY <1>1, <1>2, <1>3, Zenon DEF WorksIn

LEMMA RenameWorks ==
  ASSUME FilesInv, NEW d \in Dirs, NEW s \in Slots, temp[d][s] # None, Rename(d, s)
  PROVE  /\ told' = told => WorksIn(d)
         /\ \A p \in Payloads :
              /\ p.generation = s /\ temp[d][s].data = p /\ temp[d][s].synced
              /\ told' = [told EXCEPT ![d] = @ \cup {p}]
              => WorksIn(d)
<1>. DEFINE F == final[d]
            T == temp[d]
            F2 == [F EXCEPT ![s] = [T[s] EXCEPT !.loose = TRUE]]
            T2 == [T EXCEPT ![s] = None]
<1>1. final' = [final EXCEPT ![d] = F2] /\ temp' = [temp EXCEPT ![d] = T2]
  BY DEF Rename
<1>2. F \in FileTable /\ T \in FileTable /\ told[d] \in SUBSET Payloads /\ FilesFit(F, T, told[d])
  BY DirectoryFacts
<1>. HIDE DEF F, T
<1>3. T[s] # None
  BY DEF T
<1>4. /\ FilesFit(F2, T2, told[d]) /\ F2 \in FileTable /\ T2 \in FileTable
      /\ F[s] = None /\ F2[s] # None /\ F2[s].data = T[s].data /\ F2[s].synced = T[s].synced
      /\ \A t \in Slots : t # s => F2[t] = F[t]
  BY <1>2, <1>3, RenameFits
<1>. HIDE DEF F2, T2
<1>5. \A t \in Slots : final[d][t] # None => F2[t] # None /\ F2[t].data = final[d][t].data
  BY <1>4, Zenon DEF F
<1>6. ASSUME told' = told PROVE WorksIn(d)
  <2>1. told' = [told EXCEPT ![d] = told[d]]
    BY <1>6 DEF FilesInv
  <2>. QED
    BY <1>1, <1>2, <1>4, <1>5, <2>1, NewFilesWork, Zenon
<1>7. ASSUME NEW p \in Payloads, p.generation = s, T[s].data = p, T[s].synced,
             told' = [told EXCEPT ![d] = told[d] \cup {p}]
      PROVE  WorksIn(d)
  <2>1. F2[p.generation] # None /\ F2[p.generation].data = p /\ F2[p.generation].synced
    BY <1>4, <1>7, Zenon
  <2>2. FilesFit(F2, T2, told[d] \cup {p}) /\ told[d] \cup {p} \in SUBSET Payloads
    BY <1>2, <1>4, <2>1, ReportFits, Zenon
  <2>. QED
    BY <1>1, <1>4, <1>5, <1>7, <2>2, NewFilesWork, Zenon
<1>. QED
  BY <1>6, <1>7, Zenon DEF T

LEMMA CreateWorks ==
  ASSUME FilesInv, NEW d \in Dirs, NEW s \in Slots, final[d][s] = None, temp[d][s] = None,
         s # 0 => final[d][0] # None, NEW new \in File, new.data = Torn,
         temp' = [temp EXCEPT ![d][s] = new], UNCHANGED <<final, told>>
  PROVE  /\ WorksIn(d) /\ temp'[d][s] = new /\ new # None
         /\ \A t \in Slots : t # s => temp'[d][t] = temp[d][t]
<1>. DEFINE F == final[d]
            T == temp[d]
            T2 == [T EXCEPT ![s] = new]
<1>1. temp' = [temp EXCEPT ![d] = T2]
  OBVIOUS
<1>2. /\ final' = [final EXCEPT ![d] = F] /\ told' = [told EXCEPT ![d] = told[d]]
  BY DEF FilesInv
<1>3. F \in FileTable /\ T \in FileTable /\ told[d] \in SUBSET Payloads /\ FilesFit(F, T, told[d])
  BY DirectoryFacts
<1>4. F[s] = None /\ T[s] = None /\ (s # 0 => F[0] # None)
  OBVIOUS
<1>. HIDE DEF F, T
<1>5. /\ FilesFit(F, T2, told[d]) /\ T2 \in FileTable /\ T2[s] = new /\ new # None
      /\ \A t \in Slots : t # s => T2[t] = T[t]
  BY <1>3, <1>4, CreateFits
<1>. HIDE DEF T2
<1>6. \A t \in Slots : final[d][t] # None => F[t] # None /\ F[t].data = final[d][t].data
  BY DEF F
<1>7. WorksIn(d)
  BY <1>1, <1>2, <1>3, <1>5, <1>6, NewFilesWork, Zenon
<1>8. temp'[d] = T2
  BY <1>1 DEF FilesInv
<1>. QED
  BY <1>5, <1>7, <1>8, Zenon DEF T

LEMMA WriteWorks ==
  ASSUME FilesInv, NEW d \in Dirs, NEW s \in Slots, temp[d][s] # None, ~temp[d][s].synced,
         NEW bytes,
         s = 0 => /\ bytes \in Headers
                  /\ \A g \in Generations : final[d][g] = None /\ temp[d][g] = None,
         s # 0 => /\ bytes \in Payloads /\ bytes.generation = s
                  /\ Decodes(final[d][0]) /\ bytes.header = final[d][0].data,
         temp' = [temp EXCEPT ![d][s].data = bytes], UNCHANGED <<final, told>>
  PROVE  /\ WorksIn(d) /\ temp'[d][s] # None /\ temp'[d][s].data = bytes
         /\ \A t \in Slots : t # s => temp'[d][t] = temp[d][t]
<1>. DEFINE F == final[d]
            T == temp[d]
            T2 == [T EXCEPT ![s] = [T[s] EXCEPT !.data = bytes]]
<1>1. temp' = [temp EXCEPT ![d] = T2]
  OBVIOUS
<1>2. /\ final' = [final EXCEPT ![d] = F] /\ told' = [told EXCEPT ![d] = told[d]]
  BY DEF FilesInv
<1>3. F \in FileTable /\ T \in FileTable /\ told[d] \in SUBSET Payloads /\ FilesFit(F, T, told[d])
  BY DirectoryFacts
<1>4. /\ T[s] # None /\ ~T[s].synced
      /\ s = 0 => bytes \in Headers /\ \A g \in Generations : F[g] = None /\ T[g] = None
      /\ s # 0 => /\ bytes \in Payloads /\ bytes.generation = s
                  /\ Decodes(F[0]) /\ bytes.header = F[0].data
  BY Zenon
<1>. HIDE DEF F, T
<1>5. /\ FilesFit(F, T2, told[d]) /\ T2 \in FileTable /\ T2[s] # None /\ T2[s].data = bytes
      /\ \A t \in Slots : t # s => T2[t] = T[t]
  BY <1>3, <1>4, BytesFit, SMTT(30)
<1>. HIDE DEF T2
<1>6. \A t \in Slots : final[d][t] # None => F[t] # None /\ F[t].data = final[d][t].data
  BY DEF F
<1>7. WorksIn(d)
  BY <1>1, <1>2, <1>3, <1>5, <1>6, NewFilesWork, Zenon
<1>8. temp'[d] = T2
  BY <1>1 DEF FilesInv
<1>. QED
  BY <1>5, <1>7, <1>8, Zenon DEF T

LEMMA SyncWorks ==
  ASSUME FilesInv, NEW d \in Dirs, NEW s \in Slots, temp[d][s] # None,
         temp' = [temp EXCEPT ![d][s].synced = TRUE], UNCHANGED <<final, told>>
  PROVE  /\ WorksIn(d) /\ temp'[d][s] # None
         /\ temp'[d][s].data = temp[d][s].data /\ temp'[d][s].synced
         /\ \A t \in Slots : t # s => temp'[d][t] = temp[d][t]
<1>. DEFINE F == final[d]
            T == temp[d]
            T2 == [T EXCEPT ![s] = [T[s] EXCEPT !.synced = TRUE]]
<1>1. temp' = [temp EXCEPT ![d] = T2]
  OBVIOUS
<1>2. /\ final' = [final EXCEPT ![d] = F] /\ told' = [told EXCEPT ![d] = told[d]]
  BY DEF FilesInv
<1>3. F \in FileTable /\ T \in FileTable /\ told[d] \in SUBSET Payloads /\ FilesFit(F, T, told[d])
  BY DirectoryFacts, Zenon
<1>4. T[s] # None
  OBVIOUS
<1>. HIDE DEF F, T
<1>5. /\ FilesFit(F, T2, told[d]) /\ T2 \in FileTable /\ T2[s] # None
      /\ T2[s].data = T[s].data /\ T2[s].synced
      /\ \A t \in Slots : t # s => T2[t] = T[t]
  BY <1>3, <1>4, SyncFits
<1>. HIDE DEF T2
<1>6. \A t \in Slots : final[d][t] # None => F[t] # None /\ F[t].data = final[d][t].data
  BY DEF F
<1>7. WorksIn(d)
  BY <1>1, <1>2, <1>3, <1>5, <1>6, NewFilesWork, Zenon
<1>8. temp'[d] = T2
  BY <1>1 DEF FilesInv
<1>. QED
  BY <1>5, <1>7, <1>8, Zenon DEF T

(***************************************************************************)
(* Calls.                                                                  *)
(***************************************************************************)
CallInv ==
  /\ call \in [Openers -> [Callers -> Call]]
  /\ bundles \subseteq [header : Headers, payload : Payloads]
  /\ faults \in Nat
  /\ CallsFit

LEMMA InvParts == KeystoreInv <=> LockInv /\ FilesInv /\ CallInv
BY DEF KeystoreInv, KeystoreTypeOK, LockInv, FilesInv, CallInv, FileTable

(* Work in the directory that o has locked does not disturb the calls of   *)
(* the other stores.                                                       *)
LEMMA OtherCalls ==
  ASSUME LockInv, CallInv, NEW o \in Openers, opener[o].pc \in Holding,
         WorksIn(opener[o].dir),
         NEW o2 \in Openers, o2 # o, NEW c2 \in Callers, call[o2][c2].pc # "none",
         opener'[o2].pc = opener[o2].pc, opener'[o2].dir = opener[o2].dir,
         call'[o2][c2] = call[o2][c2]
  PROVE  /\ opener'[o2].pc = "open"
         /\ CallFits(call'[o2][c2], final'[opener'[o2].dir], temp'[opener'[o2].dir])
<1>1. /\ opener[o2].pc = "open"
      /\ CallFits(call[o2][c2], final[opener[o2].dir], temp[opener[o2].dir])
  BY Zenon DEF CallInv, CallsFit
<1>2. /\ opener[o].dir \in Dirs /\ opener[o2].dir \in Dirs
      /\ oslock[opener[o].dir] = o /\ oslock[opener[o2].dir] = o2
  BY <1>1, Zenon DEF LockInv, LocksHeld, Holding
<1>3. opener[o2].dir # opener[o].dir
  BY <1>2
<1>4. /\ final'[opener[o2].dir] = final[opener[o2].dir]
      /\ temp'[opener[o2].dir] = temp[opener[o2].dir]
  BY <1>2, <1>3, Zenon DEF WorksIn
<1>. QED
  BY <1>1, <1>4, Zenon

(* A step of the call of o, which works in the directory of o. *)
LEMMA CallTurns ==
  ASSUME LockInv, FilesInv, CallInv, OneCaller,
         NEW o \in Openers, NEW c \in Callers, NEW entry \in Call,
         opener[o].pc = "open", Begin(o, c, entry), WorksIn(opener[o].dir),
         \A o2 \in Openers : opener'[o2].pc = opener[o2].pc /\ opener'[o2].dir = opener[o2].dir,
         bundles' \subseteq [header : Headers, payload : Payloads], faults' \in Nat,
         entry.pc # "none" => CallFits(entry, final'[opener[o].dir], temp'[opener[o].dir])
  PROVE  FilesInv' /\ CallInv' /\ FilesKept
<1>1. /\ call' \in [Openers -> [Callers -> Call]] /\ call'[o][c] = entry
      /\ \A o2 \in Openers, c2 \in Callers : o2 # o \/ c2 # c => call'[o2][c2] = call[o2][c2]
  BY BeginCall DEF CallInv
<1>2. opener[o].dir \in Dirs
  BY DEF LockInv, LocksHeld
<1>3. ASSUME NEW o2 \in Openers, NEW c2 \in Callers, call'[o2][c2].pc # "none"
      PROVE  /\ opener'[o2].pc = "open"
             /\ CallFits(call'[o2][c2], final'[opener'[o2].dir], temp'[opener'[o2].dir])
  <2>1. CASE o2 = o
    <3>1. c2 = c
      BY DEF OneCaller
    <3>. QED
      BY <1>1, <1>3, <2>1, <3>1
  <2>2. CASE o2 # o
    <3>1. call'[o2][c2] = call[o2][c2] /\ call[o2][c2].pc # "none"
      BY <1>1, <1>3, <2>2
    <3>. QED
      BY <2>2, <3>1, OtherCalls DEF Holding
  <2>. QED
    BY <2>1, <2>2
<1>4. CallInv'
  BY <1>1, <1>3 DEF CallInv, CallsFit
<1>. QED
  BY <1>2, <1>4, WorkKeeps, Zenon

(* A step of the store o itself, which no call uses. *)
LEMMA StoreTurns ==
  ASSUME LockInv, FilesInv, CallInv, NEW o \in Openers,
         \A c \in Callers : call[o][c].pc = "none", UNCHANGED <<call, bundles, faults>>,
         \A o2 \in Openers : o2 # o => opener'[o2] = opener[o2],
         \/ opener[o].pc \in Holding /\ WorksIn(opener[o].dir)
         \/ UNCHANGED <<files, told>>
  PROVE  FilesInv' /\ CallInv' /\ FilesKept
<1>1. CASE UNCHANGED <<files, told>>
  <2>1. FilesInv'
    BY <1>1 DEF FilesInv, DirectoriesFit, files
  <2>2. FilesKept
    BY <1>1 DEF FilesKept, files
  <2>3. ASSUME NEW o2 \in Openers, NEW c2 \in Callers, call'[o2][c2].pc # "none"
        PROVE  /\ opener'[o2].pc = "open"
               /\ CallFits(call'[o2][c2], final'[opener'[o2].dir], temp'[opener'[o2].dir])
    <3>1. o2 # o /\ opener'[o2] = opener[o2]
      BY <2>3
    <3>. QED
      BY <1>1, <2>3, <3>1 DEF CallInv, CallsFit, files
  <2>. QED
    BY <2>1, <2>2, <2>3 DEF CallInv, CallsFit
<1>2. CASE opener[o].pc \in Holding /\ WorksIn(opener[o].dir)
  <2>1. FilesInv' /\ FilesKept
    BY <1>2, WorkKeeps DEF LockInv, LocksHeld, Holding
  <2>2. ASSUME NEW o2 \in Openers, NEW c2 \in Callers, call'[o2][c2].pc # "none"
        PROVE  /\ opener'[o2].pc = "open"
               /\ CallFits(call'[o2][c2], final'[opener'[o2].dir], temp'[opener'[o2].dir])
    <3>1. o2 # o /\ opener'[o2] = opener[o2] /\ call'[o2][c2] = call[o2][c2]
      BY <2>2
    <3>. QED
      BY <1>2, <2>2, <3>1, OtherCalls
  <2>. QED
    BY <2>1, <2>2 DEF CallInv, CallsFit
<1>. QED
  BY <1>1, <1>2

LEMMA CreateEntry ==
  ASSUME NEW k \in Call, NEW s \in Slots
  PROVE  LET e == [k EXCEPT !.pc = "create", !.slot = s]
         IN  /\ e \in Call /\ e.pc = "create" /\ e.op = k.op /\ e.header = k.header
             /\ e.payload = k.payload /\ e.slot = s
BY Zenon DEF Call, Writes

(* What a call in progress may rely on. *)
LEMMA CallFacts ==
  ASSUME LockInv, CallInv, NEW o \in Openers, NEW c \in Callers, call[o][c].pc # "none"
  PROVE  /\ opener[o].pc = "open" /\ opener[o].dir \in Dirs /\ call[o][c] \in Call
         /\ CallFits(call[o][c], final[opener[o].dir], temp[opener[o].dir])
BY DEF LockInv, LocksHeld, CallInv, CallsFit

(* A step that leaves the files and the openers alone. *)
LEMMA QuietTurns ==
  ASSUME LockInv, FilesInv, CallInv, OneCaller,
         NEW o \in Openers, NEW c \in Callers, NEW entry \in Call,
         opener[o].pc = "open", Begin(o, c, entry),
         UNCHANGED <<files, told, opener, bundles, faults>>,
         entry.pc # "none" => CallFits(entry, final[opener[o].dir], temp[opener[o].dir])
  PROVE  FilesInv' /\ CallInv' /\ FilesKept
<1>1. opener[o].dir \in Dirs
  BY DEF LockInv, LocksHeld
<1>2. WorksIn(opener[o].dir)
  BY <1>1, NoWork
<1>3. /\ bundles' \subseteq [header : Headers, payload : Payloads] /\ faults' \in Nat
      /\ \A o2 \in Openers : opener'[o2].pc = opener[o2].pc /\ opener'[o2].dir = opener[o2].dir
  BY DEF CallInv
<1>4. entry.pc # "none" => CallFits(entry, final'[opener[o].dir], temp'[opener[o].dir])
  BY DEF files
<1>. QED
  BY <1>2, <1>3, <1>4, CallTurns

(* A call that returns. *)
LEMMA ReturnTurns ==
  ASSUME LockInv, FilesInv, CallInv, OneCaller,
         NEW o \in Openers, NEW c \in Callers, opener[o].pc = "open", Return(o, c),
         WorksIn(opener[o].dir),
         \A o2 \in Openers : opener'[o2].pc = opener[o2].pc /\ opener'[o2].dir = opener[o2].dir,
         bundles' \subseteq [header : Headers, payload : Payloads], faults' \in Nat
  PROVE  FilesInv' /\ CallInv' /\ FilesKept
<1>1. NoCall \in Call /\ NoCall.pc = "none" /\ Begin(o, c, NoCall)
  BY NoCallIsCall DEF NoCall, Return
<1>. HIDE DEF NoCall
<1>. QED
  BY <1>1, CallTurns DEF NoCall

LEMMA StartsFit ==
  ASSUME LockInv, FilesInv, CallInv, OneCaller, NEW o \in Openers, NEW c \in Callers, Start(o, c)
  PROVE  FilesInv' /\ CallInv' /\ FilesKept
<1>1. ASSUME NEW e \in Call, opener[o].pc = "open", Begin(o, c, e),
             UNCHANGED <<files, told, opener, bundles, faults>>,
             e.pc \notin Writes,
             e.pc = "header" => e.header \in Headers,
             e.pc = "publish" \/ e.op \in {"restore", "capture"} => e.payload \in Payloads
      PROVE  FilesInv' /\ CallInv' /\ FilesKept
  <2>1. CallFits(e, final[opener[o].dir], temp[opener[o].dir])
    BY <1>1, Zenon DEF CallFits
  <2>. QED
    BY <1>1, <2>1, QuietTurns
<1>2. NoCall \in Call
  BY NoCallIsCall
<1>3. ASSUME NEW h \in Headers, Initialize(o, c, h)
      PROVE  FilesInv' /\ CallInv' /\ FilesKept
  <2>. DEFINE e == [NoCall EXCEPT !.pc = "header", !.op = "initialize", !.header = h]
  <2>1. e \in Call /\ e.pc = "header" /\ e.op = "initialize" /\ e.header = h
    BY <1>2, Zenon DEF Call
  <2>2. Begin(o, c, e)
    BY <1>3 DEF Initialize
  <2>. HIDE DEF e
  <2>3. opener[o].pc = "open" /\ UNCHANGED <<files, told, opener, bundles, faults>>
    BY <1>3 DEF Initialize, Idle, locks
  <2>. QED
    BY <1>1, <2>1, <2>2, <2>3 DEF Writes
<1>4. CASE OpenPayloads(o, c)
  <2>. DEFINE e == [NoCall EXCEPT !.pc = "list", !.op = "open"]
  <2>1. e \in Call /\ e.pc = "list" /\ e.op = "open"
    BY <1>2, Zenon DEF Call
  <2>2. Begin(o, c, e)
    BY <1>4 DEF OpenPayloads
  <2>. HIDE DEF e
  <2>3. opener[o].pc = "open" /\ UNCHANGED <<files, told, opener, bundles, faults>>
    BY <1>4 DEF OpenPayloads, Idle, locks
  <2>. QED
    BY <1>1, <2>1, <2>2, <2>3 DEF Writes
<1>5. ASSUME NEW p \in Payloads, Publish(o, c, p)
      PROVE  FilesInv' /\ CallInv' /\ FilesKept
  <2>. DEFINE e == [NoCall EXCEPT !.pc = "publish", !.op = "publish", !.payload = p]
  <2>1. e \in Call /\ e.pc = "publish" /\ e.payload = p
    BY <1>2, Zenon DEF Call
  <2>2. Begin(o, c, e)
    BY <1>5 DEF Publish
  <2>. HIDE DEF e
  <2>3. opener[o].pc = "open" /\ UNCHANGED <<files, told, opener, bundles, faults>>
    BY <1>5 DEF Publish, Idle, locks
  <2>. QED
    BY <1>1, <2>1, <2>2, <2>3 DEF Writes
<1>6. ASSUME NEW p \in Payloads, Capture(o, c, p)
      PROVE  FilesInv' /\ CallInv' /\ FilesKept
  <2>. DEFINE e == [NoCall EXCEPT !.pc = "list", !.op = "capture", !.payload = p]
  <2>1. e \in Call /\ e.pc = "list" /\ e.op = "capture" /\ e.payload = p
    BY <1>2, Zenon DEF Call
  <2>2. Begin(o, c, e)
    BY <1>6 DEF Capture
  <2>. HIDE DEF e
  <2>3. opener[o].pc = "open" /\ UNCHANGED <<files, told, opener, bundles, faults>>
    BY <1>6 DEF Capture, Idle, locks
  <2>. QED
    BY <1>1, <2>1, <2>2, <2>3 DEF Writes
<1>7. ASSUME NEW b \in bundles, NEW a, Restore(o, c, b, a)
      PROVE  FilesInv' /\ CallInv' /\ FilesKept
  <2>0. b.header \in Headers /\ b.payload \in Payloads
    BY DEF CallInv
  <2>. DEFINE e == [NoCall EXCEPT !.pc = "header", !.op = "restore",
                               !.header = b.header, !.payload = b.payload]
  <2>1. e \in Call /\ e.pc = "header" /\ e.header \in Headers /\ e.payload \in Payloads
    BY <1>2, <2>0, Zenon DEF Call
  <2>2. Begin(o, c, e)
    BY <1>7 DEF Restore
  <2>. HIDE DEF e
  <2>3. opener[o].pc = "open" /\ UNCHANGED <<files, told, opener, bundles, faults>>
    BY <1>7 DEF Restore, Idle, locks
  <2>. QED
    BY <1>1, <2>1, <2>2, <2>3 DEF Writes
<1>. QED
  BY <1>3, <1>4, <1>5, <1>6, <1>7 DEF Start

(* initialize, once the header is there. *)
LEMMA AfterHeaderTurns ==
  ASSUME LockInv, FilesInv, CallInv, OneCaller, NEW o \in Openers, NEW c \in Callers,
         call[o][c].pc # "none", AfterHeader(o, c), WorksIn(opener[o].dir),
         UNCHANGED <<opener, bundles, faults>>
  PROVE  FilesInv' /\ CallInv' /\ FilesKept
<1>. DEFINE k == call[o][c]
            e == [k EXCEPT !.pc = "list"]
<1>1. /\ opener[o].pc = "open" /\ k \in Call
      /\ CallFits(k, final[opener[o].dir], temp[opener[o].dir])
  BY CallFacts
<1>2. /\ bundles' \subseteq [header : Headers, payload : Payloads] /\ faults' \in Nat
      /\ \A o2 \in Openers : opener'[o2].pc = opener[o2].pc /\ opener'[o2].dir = opener[o2].dir
  BY DEF CallInv
<1>. HIDE DEF k
<1>3. CASE k.op = "restore"
  <2>1. e \in Call /\ e.pc = "list" /\ e.op = "restore" /\ e.payload = k.payload
    BY <1>1, <1>3 DEF Call
  <2>2. Begin(o, c, e)
    BY <1>3 DEF AfterHeader, Continue, k
  <2>. HIDE DEF e
  <2>3. CallFits(e, final'[opener[o].dir], temp'[opener[o].dir])
    BY <1>1, <1>3, <2>1 DEF CallFits, Writes
  <2>. QED
    BY <1>1, <1>2, <2>1, <2>2, <2>3, CallTurns
<1>4. CASE k.op # "restore"
  <2>1. Return(o, c)
    BY <1>4 DEF AfterHeader, k
  <2>. QED
    BY <1>1, <1>2, <2>1, ReturnTurns
<1>. QED
  BY <1>3, <1>4

LEMMA ReturnsQuietly ==
  ASSUME LockInv, FilesInv, CallInv, OneCaller, NEW o \in Openers, NEW c \in Callers,
         call[o][c].pc # "none", Return(o, c), UNCHANGED <<files, told, opener, bundles>>,
         faults' \in Nat
  PROVE  FilesInv' /\ CallInv' /\ FilesKept
<1>1. opener[o].pc = "open" /\ opener[o].dir \in Dirs
  BY CallFacts
<1>2. WorksIn(opener[o].dir)
  BY <1>1, NoWork
<1>3. /\ bundles' \subseteq [header : Headers, payload : Payloads]
      /\ \A o2 \in Openers : opener'[o2].pc = opener[o2].pc /\ opener'[o2].dir = opener[o2].dir
  BY DEF CallInv
<1>. QED
  BY <1>1, <1>2, <1>3, ReturnTurns

LEMMA InitializeFits ==
  ASSUME LockInv, FilesInv, CallInv, OneCaller, NEW o \in Openers, NEW c \in Callers,
         InitializeChecks(o, c)
  PROVE  FilesInv' /\ CallInv' /\ FilesKept
<1>. DEFINE k == call[o][c]
            d == opener[o].dir
            e == [k EXCEPT !.pc = "create", !.slot = 0]
<1>1. /\ k.pc = "header" /\ UNCHANGED <<files, told, opener, bundles, faults>>
      /\ (final[d][0] = None /\ WriteNew(o, c, 0)) \/ AfterHeader(o, c) \/ Return(o, c)
  BY DEF InitializeChecks, locks
<1>2. opener[o].pc = "open" /\ d \in Dirs /\ k \in Call /\ CallFits(k, final[d], temp[d])
  BY <1>1, CallFacts
<1>3. faults' \in Nat /\ WorksIn(d)
  BY <1>1, <1>2, NoWork DEF CallInv
<1>4. CASE AfterHeader(o, c)
  BY <1>1, <1>3, <1>4, AfterHeaderTurns
<1>5. CASE Return(o, c)
  BY <1>1, <1>3, <1>5, ReturnsQuietly
<1>6. CASE final[d][0] = None /\ WriteNew(o, c, 0)
  <2>. HIDE DEF k, d
  <2>1. /\ e \in Call /\ e.pc = "create" /\ e.op = k.op /\ e.header = k.header
        /\ e.payload = k.payload /\ e.slot = 0
    <3>1. 0 \in Slots
      BY SlotFacts
    <3>. QED
      BY <1>2, <3>1, CreateEntry, Zenon
  <2>2. Begin(o, c, e)
    BY <1>6, Zenon DEF WriteNew, k
  <2>. HIDE DEF e
  <2>3. CallFits(e, final[d], temp[d])
    BY <1>1, <1>2, <1>6, <2>1 DEF CallFits, WriteFits, Writes
  <2>. QED
    BY <1>1, <1>2, <2>1, <2>2, <2>3, QuietTurns DEF d
<1>. QED
  BY <1>1, <1>4, <1>5, <1>6

LEMMA ListFits ==
  ASSUME LockInv, FilesInv, CallInv, OneCaller, NEW o \in Openers, NEW c \in Callers,
         ListTemporaries(o, c)
  PROVE  FilesInv' /\ CallInv' /\ FilesKept
<1>. DEFINE k == call[o][c]
            d == opener[o].dir
            e == [k EXCEPT !.pc = "recover", !.header = HeaderOf(d),
                           !.todo = TemporaryPayloads(d)]
<1>1. /\ k.pc = "list" /\ UNCHANGED <<files, told, opener, bundles, faults>>
      /\ (HeaderLoads(d) /\ Begin(o, c, e)) \/ Return(o, c)
  BY DEF ListTemporaries, locks
<1>2. opener[o].pc = "open" /\ d \in Dirs /\ k \in Call /\ CallFits(k, final[d], temp[d])
  BY <1>1, CallFacts
<1>3. CASE Return(o, c)
  BY <1>1, <1>3, ReturnsQuietly DEF CallInv
<1>4. CASE HeaderLoads(d) /\ Begin(o, c, e)
  <2>1. HeaderOf(d) \in Headers /\ TemporaryPayloads(d) \in SUBSET Generations
    BY <1>2, <1>4 DEF FilesInv, DirectoriesFit, FilesFit, HeaderLoads, HeaderOf,
                      TemporaryPayloads
  <2>. HIDE DEF k, d
  <2>2. e \in Call /\ e.pc = "recover" /\ e.op = k.op /\ e.payload = k.payload
    BY <1>2, <2>1, Zenon DEF Call
  <2>3. Begin(o, c, e)
    BY <1>4
  <2>. HIDE DEF e
  <2>4. CallFits(e, final[d], temp[d])
    BY <1>1, <1>2, <2>2, Zenon DEF CallFits, Writes
  <2>. QED
    BY <1>1, <1>2, <2>2, <2>3, <2>4, QuietTurns, Zenon DEF d
<1>. QED
  BY <1>1, <1>3, <1>4

(* A temporary payload that is recovered gets its canonical name; the      *)
(* branch for a payload that has both names is not taken.                  *)
LEMMA RecoverFits ==
  ASSUME LockInv, FilesInv, CallInv, OneCaller, NEW o \in Openers, NEW c \in Callers,
         RecoverPayload(o, c)
  PROVE  FilesInv' /\ CallInv' /\ FilesKept
<1>. DEFINE k == call[o][c]
            d == opener[o].dir
            e(g) == [k EXCEPT !.todo = @ \ {g}]
<1>1. k.pc = "recover" /\ UNCHANGED <<told, opener, bundles, faults>>
  BY SMTT(30) DEF RecoverPayload, locks
<1>2. opener[o].pc = "open" /\ d \in Dirs /\ k \in Call /\ CallFits(k, final[d], temp[d])
  BY <1>1, CallFacts
<1>3. PICK g \in k.todo :
        \/ temp[d][g] # None /\ Rename(d, g) /\ Begin(o, c, e(g))
        \/ temp[d][g] # None /\ final[d][g] # None
        \/ Return(o, c) /\ UNCHANGED files
  BY Zenon DEF RecoverPayload, Decodes
<1>4. g \in Slots
  BY <1>2, SlotFacts, Zenon DEF Call
<1>5. CASE Return(o, c) /\ UNCHANGED files
  BY <1>1, <1>5, ReturnsQuietly, Zenon DEF CallInv
<1>6. CASE temp[d][g] # None /\ final[d][g] # None
  BY <1>2, <1>4, <1>6, Zenon DEF FilesInv, DirectoriesFit, FilesFit
<1>7. CASE temp[d][g] # None /\ Rename(d, g) /\ Begin(o, c, e(g))
  <2>1. WorksIn(d)
    BY <1>1, <1>2, <1>4, <1>7, RenameWorks
  <2>. DEFINE new == e(g)
  <2>. HIDE DEF k, d
  <2>2. new \in Call /\ new.pc = k.pc /\ new.op = k.op /\ new.payload = k.payload
    BY <1>2 DEF Call
  <2>3. Begin(o, c, new)
    BY <1>7
  <2>. HIDE DEF new
  <2>4. CallFits(new, final'[d], temp'[d])
    BY <1>1, <1>2, <2>2, Zenon DEF CallFits, Writes
  <2>5. /\ bundles' \subseteq [header : Headers, payload : Payloads] /\ faults' \in Nat
        /\ \A o2 \in Openers : opener'[o2].pc = opener[o2].pc /\ opener'[o2].dir = opener[o2].dir
    BY <1>1 DEF CallInv
  <2>. QED
    BY <1>2, <2>1, <2>2, <2>3, <2>4, <2>5, CallTurns, Zenon DEF d
<1>. QED
  BY <1>3, <1>5, <1>6, <1>7

LEMMA OpenedFits ==
  ASSUME LockInv, FilesInv, CallInv, OneCaller, NEW o \in Openers, NEW c \in Callers,
         PayloadsOpened(o, c)
  PROVE  FilesInv' /\ CallInv' /\ FilesKept
<1>. DEFINE k == call[o][c]
            d == opener[o].dir
            e == [k EXCEPT !.pc = "publish"]
<1>1. k.pc = "recover" /\ UNCHANGED <<files, told, faults>>
  BY DEF PayloadsOpened
<1>2. opener[o].pc = "open" /\ d \in Dirs /\ k \in Call /\ CallFits(k, final[d], temp[d])
  BY <1>1, CallFacts
<1>3. WorksIn(d) /\ faults' \in Nat
  BY <1>1, <1>2, NoWork DEF CallInv
<1>4. \A o2 \in Openers : opener'[o2].pc = opener[o2].pc /\ opener'[o2].dir = opener[o2].dir
  <2>1. CASE opener' = opener
    BY <2>1
  <2>2. CASE opener' = [opener EXCEPT ![o].payloads = TRUE]
    BY <2>2 DEF LockInv, Opener
  <2>. QED
    BY <2>1, <2>2 DEF PayloadsOpened
<1>5. CASE k.op = "restore" /\ Continue(o, c, "publish") /\ UNCHANGED <<opener, bundles>>
  <2>. HIDE DEF k, d
  <2>1. e \in Call /\ e.pc = "publish" /\ e.op = k.op /\ e.payload = k.payload
    BY <1>2 DEF Call
  <2>2. Begin(o, c, e)
    BY <1>5, Zenon DEF Continue, k
  <2>. HIDE DEF e
  <2>3. CallFits(e, final[d], temp[d])
    BY <1>2, <1>5, <2>1 DEF CallFits, Writes
  <2>. QED
    BY <1>1, <1>2, <1>5, <2>1, <2>2, <2>3, QuietTurns DEF d
<1>6. CASE k.op = "open" /\ Return(o, c) /\ UNCHANGED bundles
  BY <1>2, <1>3, <1>4, <1>6, ReturnTurns, SMTT(30) DEF CallInv
<1>7. ASSUME k.op = "capture", Return(o, c),
             bundles' = IF LoadAnchored(d, Anchor(k.payload))
                        THEN bundles \cup {[header |-> HeaderOf(d), payload |-> k.payload]}
                        ELSE bundles
      PROVE  FilesInv' /\ CallInv' /\ FilesKept
  <2>1. CASE ~LoadAnchored(d, Anchor(k.payload))
    BY <1>2, <1>3, <1>4, <1>7, <2>1, ReturnTurns, Zenon DEF CallInv
  <2>2. CASE LoadAnchored(d, Anchor(k.payload))
    <3>1. HeaderLoads(d) /\ k.payload = final[d][Anchor(k.payload).generation].data
      BY <2>2, Zenon DEF LoadAnchored, AnchorVerifies, Anchor
    <3>2. HeaderOf(d) \in Headers
      BY <1>2, <3>1, Zenon DEF FilesInv, DirectoriesFit, FilesFit, HeaderLoads, HeaderOf
    <3>3. k.payload \in Payloads
      BY <1>2, <1>7 DEF CallFits
    <3>4. [header |-> HeaderOf(d), payload |-> k.payload] \in [header : Headers, payload : Payloads]
      BY <3>2, <3>3
    <3>5. bundles' \subseteq [header : Headers, payload : Payloads]
      BY <1>7, <2>2, <3>4 DEF CallInv
    <3>. QED
      BY <1>2, <1>3, <1>4, <1>7, <3>5, ReturnTurns, Zenon
  <2>. QED
    BY <2>1, <2>2
<1>. QED
  BY <1>5, <1>6, <1>7 DEF PayloadsOpened

LEMMA PublishFits ==
  ASSUME LockInv, FilesInv, CallInv, OneCaller, NEW o \in Openers, NEW c \in Callers,
         PublishChecks(o, c)
  PROVE  FilesInv' /\ CallInv' /\ FilesKept
<1>. DEFINE k == call[o][c]
            d == opener[o].dir
            g == k.payload.generation
            e == [k EXCEPT !.pc = "create", !.slot = g]
<1>1. /\ k.pc = "publish" /\ UNCHANGED <<files, told, opener, bundles, faults>>
      /\ (MayPublish(d, k.payload) /\ WriteNew(o, c, g)) \/ Return(o, c)
  BY DEF PublishChecks, locks
<1>2. opener[o].pc = "open" /\ d \in Dirs /\ k \in Call /\ CallFits(k, final[d], temp[d])
  BY <1>1, CallFacts
<1>3. CASE Return(o, c)
  BY <1>1, <1>3, ReturnsQuietly DEF CallInv
<1>4. CASE MayPublish(d, k.payload) /\ WriteNew(o, c, g)
  <2>1. k.payload \in Payloads /\ g \in Generations /\ g \in Slots /\ g # 0 /\ g \in Nat
    BY <1>1, <1>2, SlotFacts, Zenon DEF CallFits
  <2>2. Decodes(final[d][0]) /\ k.payload.header = final[d][0].data
    <3>1. HeaderLoads(d) /\ VerifiesFor(k.payload, HeaderOf(d), g)
      BY <1>4, Zenon DEF MayPublish
    <3>. QED
      BY <3>1, Zenon DEF HeaderLoads, HeaderOf, VerifiesFor
  <2>3. final[d][g] = None
    <3>1. \A h \in PublishedPayloads(d) : h < g
      BY <1>4 DEF MayPublish
    <3>2. g \in PublishedPayloads(d) => g < g
      BY <3>1
    <3>3. g \notin PublishedPayloads(d)
      BY <2>1, <3>2
    <3>. QED
      BY <2>1, <3>3, Zenon DEF PublishedPayloads
  <2>4. Begin(o, c, e)
    BY <1>4, Zenon DEF WriteNew
  <2>. HIDE DEF k, d
  <2>5. /\ e \in Call /\ e.pc = "create" /\ e.op = k.op /\ e.header = k.header
        /\ e.payload = k.payload /\ e.slot = g
    BY <1>2, <2>1, CreateEntry, Zenon
  <2>. HIDE DEF e
  <2>6. WriteFits(e, final[d], temp[d])
    BY <2>1, <2>2, <2>3, <2>5 DEF WriteFits
  <2>7. CallFits(e, final[d], temp[d])
    BY <2>1, <2>5, <2>6 DEF CallFits
  <2>. QED
    BY <1>1, <1>2, <2>4, <2>5, <2>7, QuietTurns, SMTT(30) DEF d
<1>. QED
  BY <1>1, <1>3, <1>4

(***************************************************************************)
(* The system calls of write_new_header and write_new_payload.             *)
(***************************************************************************)
LEMMA StageEntry ==
  ASSUME NEW k \in Call, NEW pc \in {"write", "sync", "rename"}
  PROVE  LET e == [k EXCEPT !.pc = pc]
         IN  /\ e \in Call /\ e.pc = pc /\ e.op = k.op /\ e.header = k.header
             /\ e.payload = k.payload /\ e.slot = k.slot
BY DEF Call, Writes

LEMMA WriteFacts ==
  ASSUME LockInv, CallInv, NEW o \in Openers, NEW c \in Callers, call[o][c].pc \in Writes
  PROVE  /\ opener[o].pc = "open" /\ opener[o].dir \in Dirs /\ call[o][c] \in Call
         /\ call[o][c].slot \in Slots
         /\ CallFits(call[o][c], final[opener[o].dir], temp[opener[o].dir])
         /\ WriteFits(call[o][c], final[opener[o].dir], temp[opener[o].dir])
<1>1. call[o][c].pc # "none"
  BY DEF Writes
<1>2. /\ opener[o].pc = "open" /\ opener[o].dir \in Dirs /\ call[o][c] \in Call
      /\ CallFits(call[o][c], final[opener[o].dir], temp[opener[o].dir])
  BY <1>1, CallFacts
<1>3. call[o][c].slot \in Slots
  BY <1>2 DEF Call
<1>. QED
  BY <1>2, <1>3 DEF CallFits

(* The call goes on to the next system call. *)
LEMMA WritesOn ==
  ASSUME LockInv, FilesInv, CallInv, OneCaller, NEW o \in Openers, NEW c \in Callers,
         call[o][c].pc \in Writes, NEW pc \in {"write", "sync", "rename"},
         Continue(o, c, pc), UNCHANGED <<opener, bundles, faults>>, WorksIn(opener[o].dir),
         \A e \in Call :
           /\ e.pc = pc /\ e.header = call[o][c].header /\ e.payload = call[o][c].payload
           /\ e.slot = call[o][c].slot
           => WriteFits(e, final'[opener[o].dir], temp'[opener[o].dir])
  PROVE  FilesInv' /\ CallInv' /\ FilesKept
<1>. DEFINE k == call[o][c]
            e == [k EXCEPT !.pc = pc]
<1>1. /\ opener[o].pc = "open" /\ k \in Call
      /\ CallFits(k, final[opener[o].dir], temp[opener[o].dir])
  BY WriteFacts, Zenon
<1>2. Begin(o, c, e)
  BY Zenon DEF Continue
<1>3. \A x \in Call :
        x.pc = pc /\ x.header = k.header /\ x.payload = k.payload /\ x.slot = k.slot
        => WriteFits(x, final'[opener[o].dir], temp'[opener[o].dir])
  BY Zenon
<1>. HIDE DEF k
<1>4. /\ e \in Call /\ e.pc = pc /\ e.op = k.op /\ e.header = k.header
      /\ e.payload = k.payload /\ e.slot = k.slot
  BY <1>1, StageEntry, Zenon
<1>. HIDE DEF e
<1>5. WriteFits(e, final'[opener[o].dir], temp'[opener[o].dir])
  BY <1>3, <1>4, Zenon
<1>6. CallFits(e, final'[opener[o].dir], temp'[opener[o].dir])
  BY <1>1, <1>4, <1>5, Zenon DEF CallFits
<1>7. /\ bundles' \subseteq [header : Headers, payload : Payloads] /\ faults' \in Nat
      /\ \A o2 \in Openers : opener'[o2].pc = opener[o2].pc /\ opener'[o2].dir = opener[o2].dir
  BY DEF CallInv
<1>. QED
  BY <1>1, <1>2, <1>4, <1>6, <1>7, CallTurns, Zenon

LEMMA CreateStepFits ==
  ASSUME LockInv, FilesInv, CallInv, OneCaller, NEW o \in Openers, NEW c \in Callers,
         CreateTemporary(o, c)
  PROVE  FilesInv' /\ CallInv' /\ FilesKept
<1>. DEFINE k == call[o][c]
            d == opener[o].dir
            s == k.slot
            new == [data |-> Torn, synced |-> FALSE, loose |-> FALSE]
<1>1. k.pc = "create" /\ UNCHANGED <<final, told, opener, bundles, faults>>
  BY DEF CreateTemporary, locks
<1>2. k.pc \in Writes /\ k.pc # "none"
  BY <1>1 DEF Writes
<1>3. d \in Dirs /\ s \in Slots /\ WriteFits(k, final[d], temp[d])
  BY <1>2, WriteFacts
<1>4. \/ Return(o, c) /\ UNCHANGED temp
      \/ /\ temp[d][s] = None /\ temp' = [temp EXCEPT ![d][s] = new]
         /\ Continue(o, c, "write")
  BY DEF CreateTemporary
<1>5. new \in File /\ new.data = Torn /\ ~new.synced
  BY NewFile
<1>. HIDE DEF new
<1>6. CASE Return(o, c) /\ UNCHANGED temp
  BY <1>1, <1>2, <1>6, ReturnsQuietly DEF files, CallInv
<1>7. CASE /\ temp[d][s] = None /\ temp' = [temp EXCEPT ![d][s] = new]
           /\ Continue(o, c, "write")
  <2>. HIDE DEF k, d, s
  <2>1. final[d][s] = None /\ (s # 0 => final[d][0] # None)
    BY <1>3 DEF WriteFits, Decodes, s
  <2>2. /\ WorksIn(d) /\ temp'[d][s] = new /\ new # None
        /\ \A t \in Slots : t # s => temp'[d][t] = temp[d][t]
    BY <1>1, <1>3, <1>5, <1>7, <2>1, CreateWorks, Zenon
  <2>3. s = 0 => \A g \in Generations : final[d][g] = None /\ temp[d][g] = None
    BY <1>3, <1>7, <2>1, Zenon DEF FilesInv, DirectoriesFit, FilesFit
  <2>4. s = 0 => \A g \in Generations : final'[d][g] = None /\ temp'[d][g] = None
    BY <1>1, <2>2, <2>3, SlotFacts, Zenon
  <2>5. ASSUME NEW e \in Call, e.pc = "write", e.header = k.header, e.payload = k.payload,
               e.slot = s
        PROVE  WriteFits(e, final'[d], temp'[d])
    <3>1. /\ final'[d][s] = None /\ temp'[d][s] # None /\ ~temp'[d][s].synced
      BY <1>1, <1>5, <2>1, <2>2, Zenon
    <3>2. /\ s = 0 => k.header \in Headers
          /\ s # 0 => /\ k.payload \in Payloads /\ k.payload.generation = s
                      /\ Decodes(final'[d][0]) /\ k.payload.header = final'[d][0].data
      BY <1>1, <1>3, Zenon DEF WriteFits, s
    <3>. QED
      BY <2>4, <2>5, <3>1, <3>2, Zenon DEF WriteFits
  <2>. QED
    BY <1>1, <1>2, <1>7, <2>2, <2>5, WritesOn, SMTT(30) DEF k, d, s
<1>. QED
  BY <1>4, <1>6, <1>7

LEMMA WriteStepFits ==
  ASSUME LockInv, FilesInv, CallInv, OneCaller, NEW o \in Openers, NEW c \in Callers,
         WriteTemporary(o, c)
  PROVE  FilesInv' /\ CallInv' /\ FilesKept
<1>. DEFINE k == call[o][c]
            d == opener[o].dir
            s == k.slot
            bytes == IF s = 0 THEN k.header ELSE k.payload
<1>1. /\ k.pc = "write" /\ UNCHANGED <<final, told, opener, bundles, faults>>
      /\ temp' = [temp EXCEPT ![d][s].data = bytes] /\ Continue(o, c, "sync")
  BY Zenon DEF WriteTemporary, Written, locks
<1>2. k.pc \in Writes
  BY <1>1, Zenon DEF Writes
<1>3. d \in Dirs /\ s \in Slots /\ WriteFits(k, final[d], temp[d])
  BY <1>2, WriteFacts, Zenon
<1>. HIDE DEF k, d
<1>4. /\ final[d][s] = None /\ temp[d][s] # None /\ ~temp[d][s].synced
      /\ s = 0 => k.header \in Headers
                  /\ \A g \in Generations : final[d][g] = None /\ temp[d][g] = None
      /\ s # 0 => /\ k.payload \in Payloads /\ k.payload.generation = s
                  /\ Decodes(final[d][0]) /\ k.payload.header = final[d][0].data
  BY <1>1, <1>3 DEF WriteFits
<1>5. /\ s = 0 => bytes \in Headers
      /\ s # 0 => /\ bytes \in Payloads /\ bytes.generation = s
                  /\ Decodes(final[d][0]) /\ bytes.header = final[d][0].data
  BY <1>4, SMTT(30)
<1>. HIDE DEF s, bytes
<1>6. /\ WorksIn(d) /\ temp'[d][s] # None /\ temp'[d][s].data = bytes
      /\ \A t \in Slots : t # s => temp'[d][t] = temp[d][t]
  BY <1>1, <1>3, <1>4, <1>5, WriteWorks, Zenon
<1>7. s = 0 => \A g \in Generations : final'[d][g] = None /\ temp'[d][g] = None
  BY <1>1, <1>4, <1>6, SlotFacts
<1>8. ASSUME NEW e \in Call, e.pc = "sync", e.header = k.header, e.payload = k.payload,
             e.slot = s
      PROVE  WriteFits(e, final'[d], temp'[d])
  <2>1. bytes = IF e.slot = 0 THEN e.header ELSE e.payload
    BY <1>8 DEF bytes
  <2>. QED
    BY <1>1, <1>4, <1>6, <1>7, <1>8, <2>1 DEF WriteFits
<1>. QED
  BY <1>1, <1>2, <1>6, <1>8, WritesOn, Zenon DEF k, d, s

LEMMA SyncStepFits ==
  ASSUME LockInv, FilesInv, CallInv, OneCaller, NEW o \in Openers, NEW c \in Callers,
         SyncTemporary(o, c)
  PROVE  FilesInv' /\ CallInv' /\ FilesKept
<1>. DEFINE k == call[o][c]
            d == opener[o].dir
            s == k.slot
<1>1. /\ k.pc = "sync" /\ UNCHANGED <<told, opener, bundles, faults>>
      /\ Continue(o, c, "rename")
  BY Zenon DEF SyncTemporary, locks
<1>2. k.pc \in Writes
  BY <1>1 DEF Writes
<1>3. d \in Dirs /\ s \in Slots /\ WriteFits(k, final[d], temp[d])
  BY <1>2, WriteFacts
<1>4. temp[d][s] # None /\ final[d][s] = None
  BY <1>1, <1>3, Zenon DEF WriteFits
<1>5. temp' = [temp EXCEPT ![d][s].synced = TRUE] /\ UNCHANGED final
  BY <1>4, Zenon DEF SyncTemporary
<1>. HIDE DEF k, d
<1>6. /\ s = 0 => k.header \in Headers
                  /\ \A g \in Generations : final[d][g] = None /\ temp[d][g] = None
      /\ s # 0 => /\ k.payload \in Payloads /\ k.payload.generation = s
                  /\ Decodes(final[d][0]) /\ k.payload.header = final[d][0].data
      /\ temp[d][s].data = IF s = 0 THEN k.header ELSE k.payload
  BY <1>1, <1>3 DEF WriteFits
<1>. HIDE DEF s
<1>7. /\ WorksIn(d) /\ temp'[d][s] # None
      /\ temp'[d][s].data = temp[d][s].data /\ temp'[d][s].synced
      /\ \A t \in Slots : t # s => temp'[d][t] = temp[d][t]
  BY <1>1, <1>3, <1>4, <1>5, SyncWorks, Zenon
<1>8. s = 0 => \A g \in Generations : final'[d][g] = None /\ temp'[d][g] = None
  BY <1>5, <1>6, <1>7, SlotFacts
<1>9. ASSUME NEW e \in Call, e.pc = "rename", e.header = k.header, e.payload = k.payload,
             e.slot = s
      PROVE  WriteFits(e, final'[d], temp'[d])
  BY <1>4, <1>5, <1>6, <1>7, <1>8, <1>9 DEF WriteFits
<1>. QED
  BY <1>1, <1>2, <1>7, <1>9, WritesOn, Zenon DEF k, d, s

(* The rename publishes synchronized bytes, in a slot that was free. *)
LEMMA RenameStepFits ==
  ASSUME LockInv, FilesInv, CallInv, OneCaller, NEW o \in Openers, NEW c \in Callers,
         RenameTemporary(o, c)
  PROVE  FilesInv' /\ CallInv' /\ FilesKept
<1>. DEFINE k == call[o][c]
            d == opener[o].dir
            s == k.slot
<1>1. k.pc = "rename" /\ UNCHANGED <<opener, bundles, faults>>
  BY DEF RenameTemporary, locks
<1>2. k.pc \in Writes /\ k.pc # "none"
  BY <1>1 DEF Writes
<1>3. /\ d \in Dirs /\ s \in Slots /\ WriteFits(k, final[d], temp[d])
      /\ opener[o].pc = "open"
  BY <1>2, WriteFacts
<1>4. /\ temp[d][s] # None /\ temp[d][s].synced
      /\ s # 0 => /\ k.payload \in Payloads /\ k.payload.generation = s
                  /\ temp[d][s].data = k.payload
  BY <1>1, <1>3, Zenon DEF WriteFits
<1>5. /\ Rename(d, s)
      /\ \/ s = 0 /\ AfterHeader(o, c) /\ UNCHANGED told
         \/ s # 0 /\ told' = [told EXCEPT ![d] = @ \cup {k.payload}] /\ Return(o, c)
  BY <1>4, Zenon DEF RenameTemporary
<1>6. /\ bundles' \subseteq [header : Headers, payload : Payloads] /\ faults' \in Nat
      /\ \A o2 \in Openers : opener'[o2].pc = opener[o2].pc /\ opener'[o2].dir = opener[o2].dir
  BY <1>1 DEF CallInv
<1>7. CASE s = 0 /\ AfterHeader(o, c) /\ UNCHANGED told
  <2>1. WorksIn(d)
    BY <1>3, <1>4, <1>5, <1>7, RenameWorks, Zenon
  <2>. QED
    BY <1>1, <1>2, <1>7, <2>1, AfterHeaderTurns
<1>8. CASE s # 0 /\ told' = [told EXCEPT ![d] = @ \cup {k.payload}] /\ Return(o, c)
  <2>1. WorksIn(d)
    BY <1>3, <1>4, <1>5, <1>8, RenameWorks, Zenon
  <2>. QED
    BY <1>3, <1>6, <1>8, <2>1, ReturnTurns, Zenon
<1>. QED
  BY <1>5, <1>7, <1>8, SMTT(30)

LEMMA CallStepFits ==
  ASSUME LockInv, FilesInv, CallInv, OneCaller, NEW o \in Openers, NEW c \in Callers,
         Start(o, c) \/ Step(o, c) \/ CallFails(o, c)
  PROVE  FilesInv' /\ CallInv' /\ FilesKept
<1>1. CASE Start(o, c)
  BY <1>1, StartsFit
<1>2. CASE Step(o, c)
  BY <1>2, InitializeFits, ListFits, RecoverFits, OpenedFits, PublishFits, CreateStepFits,
     WriteStepFits, SyncStepFits, RenameStepFits DEF Step
<1>3. CASE CallFails(o, c)
  <2>1. /\ call[o][c].pc # "none" /\ Return(o, c)
        /\ UNCHANGED <<files, told, opener, bundles>> /\ faults' \in Nat
    BY <1>3 DEF CallFails, Fault, CallInv, locks
  <2>. QED
    BY <2>1, ReturnsQuietly, SMTT(30)
<1>. QED
  BY <1>1, <1>2, <1>3

(***************************************************************************)
(* Opening, closing and faults.                                            *)
(***************************************************************************)
LEMMA LockStepFits ==
  ASSUME LockInv, FilesInv, CallInv, NEW o \in Openers, Lock(o)
  PROVE  FilesInv' /\ CallInv' /\ FilesKept
<1>. DEFINE d == opener[o].dir
<1>1. \A o2 \in Openers : o2 # o => opener'[o2] = opener[o2]
  BY DEF Lock, Register, TryLock, RecoverHeader, Close, Unlock, Deregister, LockInv
<1>2. opener[o].pc # "open" => \A c \in Callers : call[o][c].pc = "none"
  BY DEF CallInv, CallsFit
<1>3. CASE RecoverHeader(o)
  <2>1. /\ opener[o].pc = "locked" /\ d \in Dirs /\ UNCHANGED <<call, bundles, faults, told>>
    BY <1>3 DEF RecoverHeader, LockInv, LocksHeld
  <2>2. WorksIn(d)
    <3>1. CASE UNCHANGED files
      BY <2>1, <3>1, NoWork
    <3>2. CASE temp[d][0] # None /\ final[d][0] # None
      BY <2>1, <3>2, SlotFacts, SMTT(30) DEF FilesInv, DirectoriesFit, FilesFit
    <3>3. CASE temp[d][0] # None /\ Rename(d, 0)
      BY <2>1, <3>3, SlotFacts, RenameWorks
    <3>. QED
      BY <1>3, <3>1, <3>2, <3>3 DEF RecoverHeader, Decodes
  <2>. QED
    BY <1>1, <1>2, <2>1, <2>2, StoreTurns, Zenon DEF Holding
<1>4. CASE Close(o)
  <2>1. /\ \A c \in Callers : call[o][c].pc = "none"
        /\ UNCHANGED <<call, bundles, faults, files, told>>
    BY <1>4 DEF Close, NoCall
  <2>. QED
    BY <1>1, <2>1, StoreTurns
<1>5. CASE (\E x \in Dirs : Register(o, x)) \/ TryLock(o) \/ Unlock(o) \/ Deregister(o)
  <2>1. opener[o].pc # "open" /\ UNCHANGED <<call, bundles, faults, files, told>>
    BY <1>5 DEF Register, TryLock, Unlock, Deregister
  <2>. QED
    BY <1>1, <1>2, <2>1, StoreTurns
<1>. QED
  BY <1>3, <1>4, <1>5 DEF Lock

LEMMA ForgottenCalls ==
  ASSUME CallInv, NEW gone \in SUBSET Openers, Forget(gone)
  PROVE  /\ call' \in [Openers -> [Callers -> Call]]
         /\ \A o \in Openers, c \in Callers :
              call'[o][c].pc # "none" =>
                o \notin gone /\ call'[o][c] = call[o][c] /\ opener'[o] = opener[o]
<1>1. NoCall \in Call /\ NoCall.pc = "none"
  BY NoCallIsCall DEF NoCall
<1>. HIDE DEF NoCall
<1>2. call' \in [Openers -> [Callers -> Call]]
  BY <1>1 DEF Forget, CallInv
<1>3. ASSUME NEW o \in Openers, NEW c \in Callers, call'[o][c].pc # "none"
      PROVE  o \notin gone /\ call'[o][c] = call[o][c] /\ opener'[o] = opener[o]
  <2>1. o \notin gone
    BY <1>1, <1>3 DEF Forget
  <2>. QED
    BY <2>1 DEF Forget
<1>. QED
  BY <1>2, <1>3

LEMMA KilledFits ==
  ASSUME FilesInv, CallInv, NEW p \in Processes, Killed(p)
  PROVE  FilesInv' /\ CallInv' /\ FilesKept
<1>. DEFINE gone == {o \in Openers : Process[o] = p}
<1>1. Forget(gone) /\ gone \in SUBSET Openers /\ UNCHANGED <<files, told, bundles>>
  BY DEF Killed
<1>2. faults' \in Nat
  BY DEF Killed, Fault, CallInv
<1>3. FilesInv' /\ FilesKept
  BY <1>1 DEF FilesInv, DirectoriesFit, FilesKept, files
<1>. HIDE DEF gone
<1>4. /\ call' \in [Openers -> [Callers -> Call]]
      /\ \A o \in Openers, c \in Callers :
           call'[o][c].pc # "none" => call'[o][c] = call[o][c] /\ opener'[o] = opener[o]
  BY <1>1, ForgottenCalls
<1>5. CallsFit'
  BY <1>1, <1>4 DEF CallInv, CallsFit, files
<1>. QED
  BY <1>1, <1>2, <1>3, <1>4, <1>5 DEF CallInv

LEMMA PowerLossFits ==
  ASSUME FilesInv, CallInv, PowerLoss
  PROVE  FilesInv' /\ CallInv' /\ FilesKept
<1>1. Forget(Openers) /\ UNCHANGED <<told, bundles>> /\ faults' = faults + 1
  BY DEF PowerLoss, Fault
<1>2. PICK r \in LossOutcomes :
        /\ final' = [d \in Dirs |-> [s \in Slots |-> r[d][s][1]]]
        /\ temp' = [d \in Dirs |-> [s \in Slots |-> r[d][s][2]]]
  BY DEF PowerLoss
<1>2a. \A d \in Dirs, s \in Slots : r[d][s] \in SlotOutcomes(d, s)
  BY DEF LossOutcomes
<1>3. ASSUME NEW d \in Dirs, NEW s \in Slots
      PROVE  /\ SlotFollows(final[d][s], temp[d][s], final'[d][s], temp'[d][s])
             /\ final'[d][s] \in File \cup {None} /\ temp'[d][s] \in File \cup {None}
  <2>. DEFINE f == final[d][s]
              t == temp[d][s]
              f2 == final'[d][s]
              t2 == temp'[d][s]
  <2>1. f \in File \cup {None} /\ t \in File \cup {None} /\ (f = None \/ t = None)
    BY DEF FilesInv, FileTable, DirectoriesFit, FilesFit
  <2>2. f2 = r[d][s][1] /\ t2 = r[d][s][2]
    BY <1>2
  <2>3. \/ r[d][s] \in {<<a, b>> : a \in Survivors(f), b \in Survivors(t)}
        \/ /\ f # None /\ t = None
           /\ r[d][s] \in {<<None, b>> : b \in Survivors(f)}
    BY <1>2a DEF SlotOutcomes
  <2>4. \/ r[d][s][1] \in Survivors(f) /\ r[d][s][2] \in Survivors(t)
        \/ f # None /\ t = None /\ r[d][s][1] = None /\ r[d][s][2] \in Survivors(f)
    BY <2>3
  <2>5. \/ f2 \in Survivors(f) /\ t2 \in Survivors(t)
        \/ f # None /\ t = None /\ f2 = None /\ t2 \in Survivors(f)
    BY <2>2, <2>4, SMTT(30)
  <2>. HIDE DEF f, t, f2, t2
  <2>6. SlotFollows(f, t, f2, t2) /\ f2 \in File \cup {None} /\ t2 \in File \cup {None}
    BY <2>1, <2>5, LossFollows
  <2>. QED
    BY <2>6 DEF f, t, f2, t2
<1>4. final' \in [Dirs -> FileTable] /\ temp' \in [Dirs -> FileTable]
  <2>1. /\ final' = [d \in Dirs |-> [s \in Slots |-> final'[d][s]]]
        /\ temp' = [d \in Dirs |-> [s \in Slots |-> temp'[d][s]]]
    BY <1>2
  <2>. QED
    BY <1>3, <2>1 DEF FileTable
<1>5. ASSUME NEW d \in Dirs
      PROVE  FilesFit(final'[d], temp'[d], told'[d])
  <2>1. Follows(final[d], temp[d], final'[d], temp'[d])
    BY <1>3 DEF Follows
  <2>2. FilesFit(final[d], temp[d], told[d]) /\ told[d] \in SUBSET Payloads
    BY DirectoryFacts
  <2>3. FilesFit(final'[d], temp'[d], told[d])
    BY <2>1, <2>2, FollowingFits
  <2>. QED
    BY <1>1, <2>3
<1>6. FilesInv'
  BY <1>1, <1>4, <1>5 DEF FilesInv, DirectoriesFit
<1>7. FilesKept
  <2>1. faults' # faults
    BY <1>1 DEF CallInv
  <2>. QED
    BY <2>1, Zenon DEF FilesKept
<1>8. /\ call' \in [Openers -> [Callers -> Call]]
      /\ \A o \in Openers, c \in Callers : call'[o][c].pc = "none"
  BY <1>1, ForgottenCalls
<1>9. CallInv'
  BY <1>1, <1>8, SMTT(30) DEF CallInv, CallsFit
<1>. QED
  BY <1>6, <1>7, <1>9

(***************************************************************************)
(* What was reported as already published.                                 *)
(***************************************************************************)
SlotHeld(f, t, f2, t2) ==
  \A file \in {f, t} : file # None =>
    \E file2 \in {f2, t2} : file2 # None /\ file2.data \in {file.data, Torn}
Held(d, s) == SlotHeld(final[d][s], temp[d][s], final'[d][s], temp'[d][s])

LEMMA ConfirmedHeld ==
  ASSUME ConfirmedKept, confirmed' = confirmed,
         \A d \in Dirs : \A p \in confirmed[d] : Held(d, p.generation)
  PROVE  ConfirmedKept'
<1>1. ASSUME NEW d \in Dirs, NEW p \in confirmed[d]
      PROVE  \E file2 \in {final'[d][p.generation], temp'[d][p.generation]} :
               file2 # None /\ file2.data \in {p, Torn}
  <2>1. PICK file \in {final[d][p.generation], temp[d][p.generation]} :
          file # None /\ file.data \in {p, Torn}
    BY Zenon DEF ConfirmedKept
  <2>2. PICK file2 \in {final'[d][p.generation], temp'[d][p.generation]} :
          file2 # None /\ file2.data \in {file.data, Torn}
    BY <2>1, Zenon DEF Held, SlotHeld
  <2>3. file2.data \in {p, Torn}
    BY <2>1, <2>2, Zenon
  <2>. QED
    BY <2>2, <2>3, Zenon
<1>. QED
  BY <1>1, Zenon DEF ConfirmedKept

(* No call turns to writing, and no store to another directory. *)
Writers ==
  \A o \in Openers, c \in Callers : call'[o][c].pc = "write" =>
    call'[o][c] = call[o][c] /\ opener'[o].dir = opener[o].dir

LEMMA ConfirmedStays ==
  ASSUME ConfirmedInv, confirmed' = confirmed, Writers,
         \A d \in Dirs : \A p \in confirmed[d] : Held(d, p.generation)
  PROVE  ConfirmedInv'
<1>1. ConfirmedKept'
  BY ConfirmedHeld, Zenon DEF ConfirmedInv
<1>2. ASSUME NEW o \in Openers, NEW c \in Callers, call'[o][c].pc = "write",
             NEW p \in confirmed'[opener'[o].dir]
      PROVE  p.generation # call'[o][c].slot
  <2>1. call'[o][c] = call[o][c] /\ opener'[o].dir = opener[o].dir
    BY <1>2, Zenon DEF Writers
  <2>2. call[o][c].pc = "write" /\ p \in confirmed[opener[o].dir]
    BY <1>2, <2>1
  <2>. QED
    BY <2>1, <2>2 DEF ConfirmedInv
<1>3. confirmed' \in [Dirs -> SUBSET Payloads]
  BY DEF ConfirmedInv
<1>. QED
  BY <1>1, <1>2, <1>3, Zenon DEF ConfirmedInv

LEMMA QuietHeld ==
  ASSUME UNCHANGED files, NEW d, NEW s PROVE Held(d, s)
BY Zenon DEF files, Held, SlotHeld

(* One slot of d changes. *)
LEMMA OthersHeld ==
  ASSUME NEW d \in Dirs, NEW s \in Slots, Held(d, s),
         \A d2 \in Dirs, s2 \in Slots : d2 # d \/ s2 # s =>
           final'[d2][s2] = final[d2][s2] /\ temp'[d2][s2] = temp[d2][s2]
  PROVE  \A d2 \in Dirs, s2 \in Slots : Held(d2, s2)
BY Zenon DEF Held, SlotHeld

LEMMA RenameHolds ==
  ASSUME FilesInv, NEW d \in Dirs, NEW s \in Slots, temp[d][s] # None, Rename(d, s)
  PROVE  \A d2 \in Dirs, s2 \in Slots : Held(d2, s2)
<1>1. temp[d][s] \in File /\ final[d][s] = None
  BY DEF FilesInv, FileTable, DirectoriesFit, FilesFit
<1>2. /\ \A d2 \in Dirs, s2 \in Slots : d2 # d \/ s2 # s =>
           final'[d2][s2] = final[d2][s2] /\ temp'[d2][s2] = temp[d2][s2]
      /\ final'[d][s] = [temp[d][s] EXCEPT !.loose = TRUE]
  BY DEF Rename, FilesInv, FileTable
<1>3. final'[d][s] # None /\ final'[d][s].data = temp[d][s].data
  BY <1>1, <1>2, FileFacts
<1>4. Held(d, s)
  BY <1>1, <1>3, Zenon DEF Held, SlotHeld
<1>. QED
  BY <1>2, <1>4, OthersHeld, Zenon

LEMMA PowerLossHolds ==
  ASSUME FilesInv, PowerLoss
  PROVE  \A d \in Dirs, s \in Slots : Held(d, s)
<1>. SUFFICES ASSUME NEW d \in Dirs, NEW s \in Slots PROVE Held(d, s)
  OBVIOUS
<1>1. PICK r \in LossOutcomes :
        /\ final' = [x \in Dirs |-> [y \in Slots |-> r[x][y][1]]]
        /\ temp' = [x \in Dirs |-> [y \in Slots |-> r[x][y][2]]]
  BY DEF PowerLoss
<1>. DEFINE f == final[d][s]
            t == temp[d][s]
            f2 == final'[d][s]
            t2 == temp'[d][s]
<1>2. f \in File \cup {None} /\ t \in File \cup {None} /\ (f = None \/ t = None)
  BY DEF FilesInv, FileTable, DirectoriesFit, FilesFit
<1>3. f2 = r[d][s][1] /\ t2 = r[d][s][2] /\ r[d][s] \in SlotOutcomes(d, s)
  BY <1>1 DEF LossOutcomes
<1>4. \/ r[d][s] \in {<<a, b>> : a \in Survivors(f), b \in Survivors(t)}
      \/ /\ f # None /\ t = None
         /\ r[d][s] \in {<<None, b>> : b \in Survivors(f)}
  BY <1>3 DEF SlotOutcomes
<1>5. \/ r[d][s][1] \in Survivors(f) /\ r[d][s][2] \in Survivors(t)
      \/ f # None /\ t = None /\ r[d][s][1] = None /\ r[d][s][2] \in Survivors(f)
  BY <1>4
<1>6. \/ f2 \in Survivors(f) /\ t2 \in Survivors(t)
      \/ f # None /\ t = None /\ f2 = None /\ t2 \in Survivors(f)
  BY <1>3, <1>5, SMTT(30)
<1>. HIDE DEF f, t, f2, t2
<1>7. ASSUME NEW file \in File, NEW left \in Survivors(file)
      PROVE  left # None /\ left.data \in {file.data, Torn}
  BY <1>7, SurvivorFacts, Zenon DEF Decodes
<1>8. SlotHeld(f, t, f2, t2)
  <2>1. CASE f # None /\ f2 \in Survivors(f)
    <3>1. f \in File /\ t = None /\ f2 # None /\ f2.data \in {f.data, Torn}
      BY <1>2, <1>7, <2>1
    <3>. QED
      BY <3>1, Zenon DEF SlotHeld
  <2>2. CASE f # None /\ t2 \in Survivors(f)
    <3>1. f \in File /\ t = None /\ t2 # None /\ t2.data \in {f.data, Torn}
      BY <1>2, <1>7, <2>2
    <3>. QED
      BY <3>1, Zenon DEF SlotHeld
  <2>3. CASE t # None
    <3>1. t \in File /\ f = None /\ t2 # None /\ t2.data \in {t.data, Torn}
      BY <1>2, <1>6, <1>7, <2>3
    <3>. QED
      BY <3>1, Zenon DEF SlotHeld
  <2>4. CASE f = None /\ t = None
    BY <2>4, Zenon DEF SlotHeld
  <2>. QED
    BY <1>6, <2>1, <2>2, <2>3, <2>4, Zenon
<1>. QED
  BY <1>8 DEF Held, f, t, f2, t2

LEMMA CallWriters ==
  ASSUME CallInv, NEW o \in Openers, NEW c \in Callers, NEW entry, Begin(o, c, entry),
         entry.pc # "write", \A x \in Openers : opener'[x].dir = opener[x].dir
  PROVE  Writers
BY DEF CallInv, Begin, Writers

LEMMA CallsMove ==
  ASSUME CallInv, LockInv, NEW o \in Openers, NEW c \in Callers,
         \/ Start(o, c) \/ CallFails(o, c)
         \/ InitializeChecks(o, c) \/ ListTemporaries(o, c) \/ RecoverPayload(o, c)
         \/ PayloadsOpened(o, c) \/ PublishChecks(o, c)
         \/ WriteTemporary(o, c) \/ SyncTemporary(o, c) \/ RenameTemporary(o, c)
  PROVE  Writers
<1>. DEFINE k == call[o][c]
<1>1. NoCall.pc = "none"
  BY DEF NoCall
<1>2. k \in Call
  BY DEF CallInv
<1>3. \A x \in Openers : opener'[x].dir = opener[x].dir
  <2>1. CASE PayloadsOpened(o, c)
    BY <2>1 DEF PayloadsOpened, LockInv, Opener
  <2>2. CASE ~PayloadsOpened(o, c)
    <3>1. UNCHANGED opener
      BY <2>2, Zenon DEF Start, Initialize, OpenPayloads, Publish, Capture, Restore,
         CallFails, InitializeChecks, ListTemporaries, RecoverPayload, PublishChecks,
         WriteTemporary, SyncTemporary, RenameTemporary, locks
    <3>. QED
      BY <3>1
  <2>. QED
    BY <2>1, <2>2
<1>4. CASE Start(o, c)
  <2>1. ASSUME NEW h, Initialize(o, c, h) PROVE Writers
    BY <1>3, <2>1, CallWriters DEF Initialize, NoCall
  <2>2. ASSUME OpenPayloads(o, c) PROVE Writers
    BY <1>3, <2>2, CallWriters DEF OpenPayloads, NoCall
  <2>3. ASSUME NEW p, Publish(o, c, p) PROVE Writers
    BY <1>3, <2>3, CallWriters DEF Publish, NoCall
  <2>4. ASSUME NEW p, Capture(o, c, p) PROVE Writers
    BY <1>3, <2>4, CallWriters DEF Capture, NoCall
  <2>5. ASSUME NEW b, NEW a, Restore(o, c, b, a) PROVE Writers
    BY <1>3, <2>5, CallWriters DEF Restore, NoCall
  <2>. QED
    BY <1>4, <2>1, <2>2, <2>3, <2>4, <2>5 DEF Start
<1>5. ASSUME Return(o, c) PROVE Writers
  BY <1>1, <1>3, <1>5, CallWriters DEF Return
<1>6. ASSUME NEW stage \in {"list", "publish", "sync", "rename"}, Continue(o, c, stage)
      PROVE  Writers
  BY <1>2, <1>3, <1>6, CallWriters DEF Continue, Call
<1>7. ASSUME AfterHeader(o, c) PROVE Writers
  BY <1>5, <1>6, <1>7 DEF AfterHeader
<1>8. ASSUME NEW s, WriteNew(o, c, s) PROVE Writers
  BY <1>2, <1>3, <1>8, CallWriters DEF WriteNew, Call
<1>9. CASE InitializeChecks(o, c) \/ PublishChecks(o, c) \/ CallFails(o, c)
  BY <1>5, <1>7, <1>8, <1>9 DEF InitializeChecks, PublishChecks, CallFails
<1>10. CASE ListTemporaries(o, c) \/ RecoverPayload(o, c)
  <2>1. ASSUME NEW header, NEW todo,
               Begin(o, c, [k EXCEPT !.pc = "recover", !.header = header, !.todo = todo])
        PROVE  Writers
    BY <1>2, <1>3, <2>1, CallWriters DEF Call
  <2>2. ASSUME NEW g, k.pc = "recover", Begin(o, c, [k EXCEPT !.todo = @ \ {g}])
        PROVE  Writers
    BY <1>2, <1>3, <2>2, CallWriters DEF Call
  <2>. QED
    BY <1>5, <1>10, <2>1, <2>2 DEF ListTemporaries, RecoverPayload
<1>11. CASE PayloadsOpened(o, c)
  BY <1>5, <1>6, <1>11 DEF PayloadsOpened
<1>12. CASE WriteTemporary(o, c) \/ SyncTemporary(o, c)
  BY <1>6, <1>12 DEF WriteTemporary, SyncTemporary
<1>13. CASE RenameTemporary(o, c)
  BY <1>5, <1>7, <1>13 DEF RenameTemporary
<1>. QED
  BY <1>4, <1>9, <1>10, <1>11, <1>12, <1>13

LEMMA LockMoves ==
  ASSUME CallInv, LockInv, NEW o \in Openers, Lock(o)
  PROVE  Writers
<1>1. UNCHANGED call
  BY DEF Lock, Register, TryLock, RecoverHeader, Close, Unlock, Deregister
<1>2. \A x \in Openers : x # o => opener'[x].dir = opener[x].dir
  BY DEF Lock, Register, TryLock, RecoverHeader, Close, Unlock, Deregister, LockInv
<1>3. opener[o].pc = "open" => opener'[o].dir = opener[o].dir
  BY DEF Lock, Register, TryLock, RecoverHeader, Close, Unlock, Deregister, LockInv, Opener
<1>4. \A x \in Openers, c \in Callers : call[x][c].pc = "write" => opener[x].pc = "open"
  BY DEF CallInv, CallsFit
<1>. QED
  BY <1>1, <1>2, <1>3, <1>4 DEF Writers

(* The steps that hold every file. *)
LEMMA FilesHeld ==
  ASSUME LockInv, FilesInv, CallInv,
         \/ \E o \in Openers : Lock(o)
         \/ \E o \in Openers, c \in Callers :
              \/ Start(o, c) \/ CallFails(o, c)
              \/ InitializeChecks(o, c) \/ ListTemporaries(o, c) \/ RecoverPayload(o, c)
              \/ PayloadsOpened(o, c) \/ SyncTemporary(o, c) \/ RenameTemporary(o, c)
         \/ \E p \in Processes : Killed(p)
         \/ PowerLoss
  PROVE  confirmed' = confirmed /\ \A d \in Dirs, s \in Slots : Held(d, s)
<1>1. CASE PowerLoss
  BY <1>1, PowerLossHolds DEF PowerLoss
<1>2. CASE \E p \in Processes : Killed(p)
  BY <1>2, QuietHeld DEF Killed
<1>3. ASSUME NEW o \in Openers, Lock(o)
      PROVE  confirmed' = confirmed /\ \A d \in Dirs, s \in Slots : Held(d, s)
  <2>1. CASE RecoverHeader(o)
    <3>. DEFINE d == opener[o].dir
    <3>1. d \in Dirs /\ 0 \in Slots
      BY <2>1, SlotFacts DEF RecoverHeader, LockInv, LocksHeld
    <3>2. final[d][0] = None \/ temp[d][0] = None
      BY <3>1 DEF FilesInv, DirectoriesFit, FilesFit
    <3>3. CASE UNCHANGED files
      BY <2>1, <3>3, QuietHeld DEF RecoverHeader
    <3>4. CASE temp[d][0] # None /\ Rename(d, 0)
      BY <2>1, <3>1, <3>4, RenameHolds DEF RecoverHeader
    <3>. QED
      BY <2>1, <3>2, <3>3, <3>4 DEF RecoverHeader, Decodes
  <2>2. CASE ~RecoverHeader(o)
    <3>1. UNCHANGED files /\ confirmed' = confirmed
      BY <1>3, <2>2 DEF Lock, Register, TryLock, Close, Unlock, Deregister
    <3>. QED
      BY <3>1, QuietHeld
  <2>. QED
    BY <2>1, <2>2
<1>4. ASSUME NEW o \in Openers, NEW c \in Callers,
             \/ Start(o, c) \/ CallFails(o, c)
             \/ InitializeChecks(o, c) \/ ListTemporaries(o, c) \/ PayloadsOpened(o, c)
      PROVE  confirmed' = confirmed /\ \A d \in Dirs, s \in Slots : Held(d, s)
  <2>1. UNCHANGED files /\ confirmed' = confirmed
    BY <1>4 DEF Start, Initialize, OpenPayloads, Publish, Capture, Restore, CallFails,
                InitializeChecks, ListTemporaries, PayloadsOpened
  <2>. QED
    BY <2>1, QuietHeld
<1>5. ASSUME NEW o \in Openers, NEW c \in Callers, RecoverPayload(o, c)
      PROVE  confirmed' = confirmed /\ \A d \in Dirs, s \in Slots : Held(d, s)
  <2>. DEFINE d == opener[o].dir
  <2>1. call[o][c].pc # "none" /\ confirmed' = confirmed
    BY <1>5 DEF RecoverPayload
  <2>2. d \in Dirs /\ call[o][c] \in Call
    BY <2>1, CallFacts
  <2>3. PICK g \in call[o][c].todo :
          \/ Decodes(temp[d][g]) /\ Rename(d, g)
          \/ Decodes(temp[d][g]) /\ Decodes(final[d][g])
          \/ UNCHANGED files
    BY <1>5 DEF RecoverPayload
  <2>4. g \in Slots
    BY <2>2, SlotFacts DEF Call
  <2>5. final[d][g] = None \/ temp[d][g] = None
    BY <2>2, <2>4 DEF FilesInv, DirectoriesFit, FilesFit
  <2>6. CASE temp[d][g] # None /\ Rename(d, g)
    BY <2>1, <2>2, <2>4, <2>6, RenameHolds
  <2>7. CASE UNCHANGED files
    BY <2>1, <2>7, QuietHeld
  <2>. QED
    BY <2>3, <2>5, <2>6, <2>7 DEF Decodes
<1>6. ASSUME NEW o \in Openers, NEW c \in Callers, SyncTemporary(o, c)
      PROVE  confirmed' = confirmed /\ \A d \in Dirs, s \in Slots : Held(d, s)
  <2>. DEFINE d == opener[o].dir
              s == call[o][c].slot
  <2>1. call[o][c].pc \in Writes /\ call[o][c].pc = "sync" /\ confirmed' = confirmed
    BY <1>6 DEF SyncTemporary, Writes
  <2>2. d \in Dirs /\ s \in Slots /\ temp[d][s] # None /\ final[d][s] = None
    BY <2>1, WriteFacts, Zenon DEF WriteFits
  <2>3. temp' = [temp EXCEPT ![d][s].synced = TRUE] /\ UNCHANGED final
    BY <1>6, <2>2, Zenon DEF SyncTemporary
  <2>. HIDE DEF d, s
  <2>4. temp[d][s] \in File /\ temp'[d][s] = [temp[d][s] EXCEPT !.synced = TRUE]
    BY <2>2, <2>3 DEF FilesInv, FileTable
  <2>5. \A d2 \in Dirs, s2 \in Slots : d2 # d \/ s2 # s =>
          final'[d2][s2] = final[d2][s2] /\ temp'[d2][s2] = temp[d2][s2]
    BY <2>2, <2>3 DEF FilesInv, FileTable
  <2>6. temp'[d][s] # None /\ temp'[d][s].data = temp[d][s].data
    BY <2>4, FileFacts, Zenon
  <2>7. Held(d, s)
    BY <2>2, <2>6, Zenon DEF Held, SlotHeld
  <2>. QED
    BY <2>1, <2>2, <2>5, <2>7, OthersHeld, Zenon
<1>7. ASSUME NEW o \in Openers, NEW c \in Callers, RenameTemporary(o, c)
      PROVE  confirmed' = confirmed /\ \A d \in Dirs, s \in Slots : Held(d, s)
  <2>. DEFINE d == opener[o].dir
              s == call[o][c].slot
  <2>1. call[o][c].pc \in Writes /\ call[o][c].pc = "rename" /\ confirmed' = confirmed
    BY <1>7 DEF RenameTemporary, Writes
  <2>2. d \in Dirs /\ s \in Slots /\ temp[d][s] # None
    BY <2>1, WriteFacts, Zenon DEF WriteFits
  <2>3. Rename(d, s)
    BY <1>7, <2>2, Zenon DEF RenameTemporary
  <2>. QED
    BY <2>1, <2>2, <2>3, RenameHolds, Zenon
<1>. QED
  BY <1>1, <1>2, <1>3, <1>4, <1>5, <1>6, <1>7

(* A slot that is to be written was free, so nothing was reported there. *)
LEMMA CreateConfirms ==
  ASSUME LockInv, FilesInv, CallInv, ConfirmedInv, NEW o \in Openers, NEW c \in Callers,
         CreateTemporary(o, c)
  PROVE  ConfirmedInv'
<1>. DEFINE k == call[o][c]
            d == opener[o].dir
            s == k.slot
<1>1. k.pc \in Writes /\ k.pc = "create" /\ UNCHANGED <<final, opener, confirmed>>
  BY DEF CreateTemporary, Writes, locks
<1>2. d \in Dirs /\ s \in Slots /\ k \in Call /\ final[d][s] = None
  BY <1>1, WriteFacts, Zenon DEF WriteFits
<1>3. CASE Return(o, c) /\ UNCHANGED temp
  <2>1. Writers
    BY <1>1, <1>3, CallWriters DEF Return, NoCall
  <2>. QED
    BY <1>1, <1>3, <2>1, QuietHeld, ConfirmedStays DEF files
<1>4. CASE /\ temp[d][s] = None /\ Continue(o, c, "write")
           /\ temp' = [temp EXCEPT ![d][s] = [data |-> Torn, synced |-> FALSE, loose |-> FALSE]]
  <2>. HIDE DEF d, s
  <2>1. \A p \in confirmed[d] : p.generation # s
    BY <1>2, <1>4, Zenon DEF ConfirmedInv, ConfirmedKept
  <2>2. \A d2 \in Dirs, s2 \in Slots : d2 # d \/ s2 # s =>
          final'[d2][s2] = final[d2][s2] /\ temp'[d2][s2] = temp[d2][s2]
    BY <1>1, <1>2, <1>4 DEF FilesInv, FileTable
  <2>3. Held(d, s)
    BY <1>2, <1>4, Zenon DEF Held, SlotHeld
  <2>4. \A d2 \in Dirs, s2 \in Slots : Held(d2, s2)
    BY <1>2, <2>2, <2>3, OthersHeld, Zenon
  <2>5. \A d2 \in Dirs : \A p \in confirmed[d2] : Held(d2, p.generation)
    BY <2>4, SlotFacts DEF ConfirmedInv
  <2>6. ConfirmedKept'
    BY <1>1, <2>5, ConfirmedHeld, Zenon DEF ConfirmedInv
  <2>7. /\ call'[o][c] = [k EXCEPT !.pc = "write"] /\ call'[o][c].slot = k.slot
        /\ \A o2 \in Openers, c2 \in Callers :
             o2 # o \/ c2 # c => call'[o2][c2] = call[o2][c2]
    BY <1>2, <1>4 DEF Continue, Begin, CallInv, Call
  <2>8. ASSUME NEW o2 \in Openers, NEW c2 \in Callers, call'[o2][c2].pc = "write",
               NEW p \in confirmed'[opener'[o2].dir]
        PROVE  p.generation # call'[o2][c2].slot
    <3>1. CASE o2 = o /\ c2 = c
      BY <1>1, <2>1, <2>7, <2>8, <3>1 DEF d, s
    <3>2. CASE o2 # o \/ c2 # c
      BY <1>1, <2>7, <2>8, <3>2 DEF ConfirmedInv
    <3>. QED
      BY <3>1, <3>2
  <2>9. confirmed' \in [Dirs -> SUBSET Payloads]
    BY <1>1 DEF ConfirmedInv
  <2>. QED
    BY <2>6, <2>8, <2>9, Zenon DEF ConfirmedInv
<1>. QED
  BY <1>3, <1>4 DEF CreateTemporary

LEMMA WriteConfirms ==
  ASSUME LockInv, FilesInv, CallInv, ConfirmedInv, NEW o \in Openers, NEW c \in Callers,
         WriteTemporary(o, c)
  PROVE  ConfirmedInv'
<1>. DEFINE d == opener[o].dir
            s == call[o][c].slot
<1>1. /\ call[o][c].pc \in Writes /\ call[o][c].pc = "write"
      /\ UNCHANGED <<final, confirmed>> /\ temp' = [temp EXCEPT ![d][s].data = Written(o, c)]
  BY DEF WriteTemporary, Writes
<1>2. d \in Dirs /\ s \in Slots
  BY <1>1, WriteFacts, Zenon
<1>3. \A p \in confirmed[d] : p.generation # s
  BY <1>1 DEF ConfirmedInv
<1>. HIDE DEF d, s
<1>4. \A d2 \in Dirs, s2 \in Slots : d2 # d \/ s2 # s =>
        final'[d2][s2] = final[d2][s2] /\ temp'[d2][s2] = temp[d2][s2]
  BY <1>1, <1>2 DEF FilesInv, FileTable
<1>5. ASSUME NEW d2 \in Dirs, NEW p \in confirmed[d2]
      PROVE  Held(d2, p.generation)
  <2>1. p.generation \in Slots /\ (d2 # d \/ p.generation # s)
    BY <1>3, SlotFacts DEF ConfirmedInv
  <2>2. /\ final'[d2][p.generation] = final[d2][p.generation]
        /\ temp'[d2][p.generation] = temp[d2][p.generation]
    BY <1>4, <2>1, Zenon
  <2>. QED
    BY <2>2, Zenon DEF Held, SlotHeld
<1>6. Writers
  BY CallsMove
<1>. QED
  BY <1>1, <1>5, <1>6, ConfirmedStays, Zenon

(* What is reported has a canonical name, where no call writes. *)
LEMMA PublishConfirms ==
  ASSUME LockInv, FilesInv, CallInv, ConfirmedInv, NEW o \in Openers, NEW c \in Callers,
         PublishChecks(o, c)
  PROVE  ConfirmedInv'
<1>. DEFINE d == opener[o].dir
            p == call[o][c].payload
<1>1. Writers
  BY CallsMove
<1>2. call[o][c].pc = "publish" /\ UNCHANGED <<final, temp, opener>>
  BY DEF PublishChecks, files, locks
<1>3. d \in Dirs /\ p \in Payloads
  BY <1>2, CallFacts, Zenon DEF CallFits
<1>4. CASE confirmed' = confirmed
  BY <1>1, <1>2, <1>4, QuietHeld, ConfirmedStays DEF files
<1>5. CASE AlreadyPublished(d, p) /\ confirmed' = [confirmed EXCEPT ![d] = @ \cup {p}]
  <2>1. final[d][p.generation] # None /\ final[d][p.generation].data = p
    BY <1>5 DEF AlreadyPublished, Decodes
  <2>. HIDE DEF d, p
  <2>2. /\ confirmed' \in [Dirs -> SUBSET Payloads]
        /\ \A d2 \in Dirs : \A x \in confirmed'[d2] : x \in confirmed[d2] \/ (d2 = d /\ x = p)
    BY <1>3, <1>5 DEF ConfirmedInv
  <2>3. ASSUME NEW d2 \in Dirs, NEW x \in confirmed'[d2]
        PROVE  \E file \in {final'[d2][x.generation], temp'[d2][x.generation]} :
                 file # None /\ file.data \in {x, Torn}
    <3>1. CASE d2 = d /\ x = p
      BY <1>2, <2>1, <3>1, Zenon
    <3>2. CASE x \in confirmed[d2]
      BY <1>2, <3>2, Zenon DEF ConfirmedInv, ConfirmedKept
    <3>. QED
      BY <2>2, <3>1, <3>2, Zenon
  <2>4. ASSUME NEW o2 \in Openers, NEW c2 \in Callers, call'[o2][c2].pc = "write",
               NEW x \in confirmed'[opener'[o2].dir]
        PROVE  x.generation # call'[o2][c2].slot
    <3>1. /\ call'[o2][c2] = call[o2][c2] /\ call[o2][c2].pc = "write"
          /\ call[o2][c2].pc \in Writes /\ opener'[o2] = opener[o2]
      BY <1>1, <1>2, <2>4 DEF Writers, Writes
    <3>2. opener[o2].dir \in Dirs /\ final[opener[o2].dir][call[o2][c2].slot] = None
      BY <3>1, WriteFacts, Zenon DEF WriteFits
    <3>3. x \in confirmed[opener[o2].dir] \/ (opener[o2].dir = d /\ x = p)
      BY <2>2, <2>4, <3>1, <3>2
    <3>4. CASE x \in confirmed[opener[o2].dir]
      BY <3>1, <3>4 DEF ConfirmedInv
    <3>5. CASE opener[o2].dir = d /\ x = p
      BY <2>1, <3>1, <3>2, <3>5
    <3>. QED
      BY <3>3, <3>4, <3>5
  <2>. QED
    BY <2>2, <2>3, <2>4, Zenon DEF ConfirmedInv, ConfirmedKept
<1>. QED
  BY <1>4, <1>5 DEF PublishChecks

LEMMA ConfirmedStep ==
  ASSUME KeystoreInv, ConfirmedInv, [Next]_vars
  PROVE  ConfirmedInv'
<1>1. LockInv /\ FilesInv /\ CallInv
  BY InvParts
<1>2. \A d \in Dirs : \A p \in confirmed[d] : p.generation \in Slots
  BY SlotFacts DEF ConfirmedInv
<1>3. CASE UNCHANGED vars
  BY <1>3, Zenon DEF vars, ConfirmedInv, ConfirmedKept
<1>4. CASE \E p \in Processes : Killed(p)
  <2>1. PICK p \in Processes : Killed(p)
    BY <1>4
  <2>2. Writers
    BY <1>1, <2>1, ForgottenCalls DEF Killed, Writers
  <2>. QED
    BY <1>1, <1>2, <1>4, <2>2, FilesHeld, ConfirmedStays
<1>5. CASE PowerLoss
  <2>1. Writers
    BY <1>1, <1>5, ForgottenCalls DEF PowerLoss, Writers
  <2>. QED
    BY <1>1, <1>2, <1>5, <2>1, FilesHeld, ConfirmedStays
<1>6. ASSUME NEW o \in Openers, Lock(o) PROVE ConfirmedInv'
  BY <1>1, <1>2, <1>6, LockMoves, FilesHeld, ConfirmedStays
<1>7. ASSUME NEW o \in Openers, NEW c \in Callers,
             \/ Start(o, c) \/ CallFails(o, c)
             \/ InitializeChecks(o, c) \/ ListTemporaries(o, c) \/ RecoverPayload(o, c)
             \/ PayloadsOpened(o, c) \/ SyncTemporary(o, c) \/ RenameTemporary(o, c)
      PROVE  ConfirmedInv'
  <2>1. Writers
    BY <1>1, <1>7, CallsMove, Zenon
  <2>2. confirmed' = confirmed /\ \A d \in Dirs, s \in Slots : Held(d, s)
    BY <1>1, <1>7, FilesHeld, Zenon
  <2>. QED
    BY <1>2, <2>1, <2>2, ConfirmedStays
<1>8. CASE Next
  BY <1>1, <1>4, <1>5, <1>6, <1>7, <1>8, CreateConfirms, WriteConfirms, PublishConfirms
  DEF Next, Step
<1>. QED
  BY <1>3, <1>8

(***************************************************************************)
(* The theorems.                                                           *)
(***************************************************************************)
LEMMA FilesInit ==
  ASSUME Init PROVE FilesInv /\ CallInv
<1>1. NoCall \in Call /\ NoCall.pc = "none"
  BY NoCallIsCall DEF NoCall
<1>2. final \in [Dirs -> FileTable] /\ temp \in [Dirs -> FileTable]
  BY DEF Init, FileTable
<1>3. ASSUME NEW d \in Dirs PROVE FilesFit(final[d], temp[d], told[d])
  <2>1. /\ \A s \in Slots : final[d][s] = None /\ temp[d][s] = None
        /\ told[d] = {}
    BY Zenon DEF Init
  <2>2. final[d][0] = None /\ temp[d][0] = None
    BY <2>1, SlotFacts
  <2>3. \A g \in Generations : final[d][g] = None /\ temp[d][g] = None
    BY <2>1, SlotFacts
  <2>. QED
    BY <2>1, <2>2, <2>3, Zenon DEF FilesFit, Bound, Decodes
<1>4. FilesInv
  BY <1>2, <1>3 DEF FilesInv, DirectoriesFit, Init
<1>. HIDE DEF NoCall
<1>5. CallInv
  BY <1>1, KeystoreAssumptions DEF CallInv, CallsFit, Init
<1>. QED
  BY <1>4, <1>5

LEMMA KeystoreStep ==
  ASSUME KeystoreInv, OneCaller, [Next]_vars
  PROVE  KeystoreInv' /\ FilesKept
<1>1. LockInv /\ FilesInv /\ CallInv /\ LockInv'
  BY InvParts, LocksStep
<1>2. CASE UNCHANGED vars
  BY <1>1, <1>2 DEF vars, FilesKept, KeystoreInv, KeystoreTypeOK, LocksHeld, DirectoriesFit,
                    CallsFit
<1>3. CASE Next
  <2>1. FilesInv' /\ CallInv' /\ FilesKept
    BY <1>1, <1>3, LockStepFits, CallStepFits, KilledFits, PowerLossFits DEF Next
  <2>2. KeystoreInv' <=> LockInv' /\ FilesInv' /\ CallInv'
    BY InvParts, PTL
  <2>. QED
    BY <1>1, <2>1, <2>2
<1>. QED
  BY <1>2, <1>3

(* The inductive invariant, for stores that one thread at a time uses: the *)
(* lock protects the directory, the files of every directory fit together, *)
(* every interrupted write knows what it left, and nothing is about to be  *)
(* written where a payload was reported as already published.              *)
THEOREM KeystoreInvariant == ASSUME OneCaller PROVE Spec => []WalletInv
<1>1. Init => KeystoreInv
  BY InvParts, LocksInit, FilesInit
<1>2. ASSUME Init PROVE ConfirmedInv
  <2>1. confirmed = [d \in Dirs |-> {}]
    BY <1>2 DEF Init
  <2>2. \A d \in Dirs : confirmed[d] = {}
    BY <2>1, Zenon
  <2>3. \A o \in Openers, c \in Callers : call[o][c].pc # "write"
    BY <1>2 DEF Init, NoCall
  <2>. QED
    BY <2>1, <2>2, <2>3 DEF ConfirmedInv, ConfirmedKept
<1>3. WalletInv /\ [Next]_vars => WalletInv'
  BY KeystoreStep, ConfirmedStep DEF WalletInv
<1>. QED
  BY <1>1, <1>2, <1>3, PTL DEF Spec, WalletInv

(* No kill, power loss or failed system call, and no recovery after them,  *)
(* loses a payload that was reported as Published, puts another one in the *)
(* place of a payload that was reported as AlreadyPublished (which a power *)
(* loss may tear, if it was recovered before it was synchronized), or      *)
(* leaves the payloads of one wallet under the header of another (publish, *)
(* recover_temporary_payloads, verify_header).                             *)
THEOREM WalletIsKept == ASSUME OneCaller PROVE Spec => []WalletKept
<1>1. WalletInv => WalletKept
  <2>. SUFFICES ASSUME KeystoreInv, ConfirmedInv PROVE WalletKept
    BY DEF WalletInv
  <2>1. \A d \in Dirs : FilesFit(final[d], temp[d], told[d])
    BY SMTT(30) DEF KeystoreInv, DirectoriesFit
  <2>2. PublishedKept
    <3>1. ASSUME NEW d \in Dirs, NEW p \in told[d]
          PROVE  \E file \in {final[d][p.generation], temp[d][p.generation]} :
                   file # None /\ file.data = p
      <4>1. PICK file \in {final[d][p.generation], temp[d][p.generation]} :
              file # None /\ file.data = p /\ file.synced
        BY <2>1, Zenon DEF FilesFit
      <4>. QED
        BY <4>1
    <3>. QED
      BY <3>1, Zenon DEF PublishedKept
  <2>3. PayloadsBindHeader
    BY <2>1, Zenon DEF FilesFit, Bound, PayloadsBindHeader, HeaderLoads, HeaderOf
  <2>. QED
    BY <2>2, <2>3 DEF WalletKept, ConfirmedInv
<1>. QED
  BY <1>1, KeystoreInvariant, PTL

(* A published file is never overwritten or removed by an operation of any *)
(* store (publish, initialize).                                            *)
THEOREM PublishedIsFinal == ASSUME OneCaller PROVE Spec => NeverReplaced
<1>1. KeystoreInv /\ [Next]_vars => [FilesKept]_vars
  BY KeystoreStep
<1>. QED
  BY <1>1, KeystoreInvariant, PTL DEF Spec, NeverReplaced, WalletInv
=============================================================================
