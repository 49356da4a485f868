---------------------------- MODULE MCCometCore -----------------------------
(***************************************************************************)
(* What has to survive a crash, for TLC.  A behaviour is one of four       *)
(* machines, chosen at the start: the core over its journal (CometCore),   *)
(* with one asset and two transfers that both spend the same note; a       *)
(* private store on a file system that keeps every name, and on one that   *)
(* does not; and two private stores with a migration between them          *)
(* (PrivateStores).  The variables of the others stay as they are.         *)
(***************************************************************************)
EXTENDS CometCore, TLC

CONSTANTS single, t1, t2, source, target, t

VARIABLES part, disk, kept, handle, stored, migration, storeFaults

storeVars == <<disk, kept, handle, stored, migration, storeFaults>>

Tx(id, op, inputs, outputs, size, canonical) ==
  [id |-> id, op |-> op, asset |-> "NOX", amount |-> 1, inputs |-> inputs,
   outputs |-> outputs, size |-> size, canonical |-> canonical]
PayTx == Tx("pay", "transfer", <<"n1">>, <<"c2">>, 1, TRUE)
SpendAgainTx == Tx("again", "transfer", <<"n1">>, <<"c3">>, 1, TRUE)
SpendsOnly == {PayTx, SpendAgainTx}

AnyProof(tx, s) == TRUE
PolicyAllows(tx, s) == TRUE

Store ==
  INSTANCE PrivateStores WITH Paths <- {single}, Transfers <- {t1, t2}, NamesDurable <- TRUE,
    MaxHistory <- 3, MaxFaults <- 5, acked <- stored, faults <- storeFaults
LooseStore ==
  INSTANCE PrivateStores WITH Paths <- {single}, Transfers <- {t1, t2}, NamesDurable <- FALSE,
    MaxHistory <- 3, MaxFaults <- 3, acked <- stored, faults <- storeFaults
Migrating ==
  INSTANCE PrivateStores WITH Paths <- {source, target}, Transfers <- {t}, NamesDurable <- TRUE,
    MaxHistory <- 2, MaxFaults <- 1, acked <- stored, faults <- storeFaults

(* Interchangeable: the transfers of a store, and the two stores. *)
Interchangeable == Permutations({t1, t2}) \cup Permutations({source, target})

NoStore ==
  disk = 0 /\ kept = 0 /\ handle = 0 /\ stored = 0 /\ migration = 0 /\ storeFaults = 0
CoreInit == part = "core" /\ Init /\ NoStore
CrashInit ==
  \/ CoreInit
  \/ part = "store" /\ Store!Init /\ Init
  \/ part = "loose" /\ LooseStore!Init /\ Init
  \/ part = "migration" /\ Migrating!Init /\ Init
CrashNext ==
  \/ part = "core" /\ Next /\ UNCHANGED <<part, storeVars>>
  \/ part = "store" /\ Store!Next /\ UNCHANGED <<part, vars>>
  \/ part = "loose" /\ LooseStore!Next /\ UNCHANGED <<part, vars>>
  \/ part = "migration" /\ Migrating!Next /\ UNCHANGED <<part, vars>>
CrashSpec == CrashInit /\ [][CrashNext]_<<part, vars, storeVars>>
CoreSpec == CoreInit /\ [][CrashNext]_<<part, vars, storeVars>>

(* Faults and a migration leave one history, with all acknowledged. *)
HistoriesKept ==
  /\ part = "store" => Store!HistoriesKept
  /\ part = "loose" => LooseStore!HistoriesKept
  /\ part = "migration" => Migrating!HistoriesKept
=============================================================================
