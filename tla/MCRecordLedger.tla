--------------------------- MODULE MCRecordLedger ----------------------------
(***************************************************************************)
(* What a node keeps, for TLC.  A behaviour is one of five independent     *)
(* machines, chosen at the start: the record ledger with its checkpoints,  *)
(* the frames of a log byte by byte, a stored or exchanged message that is *)
(* changed after its encoder, a data directory that two instances open,    *)
(* and the circuits, hashes and trees of MCCircuits.  The ledger has one   *)
(* asset, a mint, and two transfers that both spend the same note.         *)
(***************************************************************************)
EXTENDS RecordLedger, NodeDirectory, MCCircuits, TLC

VARIABLES part,
          file, framed, flight, mode, held, damages, outcome,
          name, value, cells, edits, resealed

logVars == <<file, framed, flight, mode, held, damages, outcome>>
formatVars == <<name, value, cells, edits, resealed>>

Tx(id, op, inputs, outputs) ==
  [id |-> id, op |-> op, asset |-> "NOX", amount |-> 1, inputs |-> inputs,
   outputs |-> outputs, size |-> 1, canonical |-> TRUE]
ConflictingTransactions ==
  {Tx("mint", "mint", <<>>, <<"c1">>), Tx("pay", "transfer", <<"n1">>, <<"c2">>),
   Tx("again", "transfer", <<"n1">>, <<"c3">>)}

AnyProof(tx, s) == TRUE
PolicyAllows(tx, s) == TRUE

(* No payload is a prefix of another, as canonical encodings with their    *)
(* length-prefixed fields are, and the longest allowed length exceeds the  *)
(* longest payload by two.                                                 *)
Log ==
  INSTANCE FrameLog WITH MAGIC <- <<5, 10>>, Payloads <- {<<1>>, <<2>>, <<3, 3>>},
    MAX_PAYLOAD_LENGTH <- 4, MaxFrames <- 2, MaxDamage <- 1, acked <- framed

(* Lengths count fields, so the bounds on nested messages are large enough *)
(* for the sample values and small enough to be exceeded by a changed one. *)
AddressOfCell(key) ==
  IF Len(key[1]) = 1 THEN key[1][1] ELSE IF key[1][1] = "id" THEN 50 + key[1][2] ELSE 100
Letters == {<<"char", "A">>, <<"char", "B">>}
Messages ==
  INSTANCE StateFormats WITH WordMax <- 40, MAX_COLLECTION_ITEMS <- 2, MAX_OPAQUE_BYTES <- 2,
    MAX_PRIVATE_ENVELOPE_BYTES <- 2, MAX_PRIVATE_PROOF_BYTES <- 2,
    MAX_RECORD_TRANSACTION_BYTES <- 24, CanonicalElements <- {1, 2}, MaxWord <- 40,
    MAX_VALIDATORS <- 2, MAX_VALIDATOR_PUBLIC_KEY_BYTES <- 2, MAX_BLOCK_RECORDS <- 2,
    MAX_BLOCK_TRANSACTION_BYTES <- 2, MAX_SIGNATURE_BYTES <- 2, MaxSigned64 <- 40,
    MAX_TOTAL_POWER <- 50, KEY_LENGTH <- 1, AddressOf <- AddressOfCell,
    MAX_CHAIN_ID_LENGTH <- 2, MAX_COMPATIBILITY_VERSION_LENGTH <- 2,
    Graphic <- Letters \cup {<<"char", "-">>}, MAX_TICKER_BYTES <- 2, Uppercase <- Letters,
    MAX_TREE_DEPTH <- 2, MAX_GENESIS_CONSENSUS_CONFIG_BYTES <- 20, MAX_IDENTITY_BYTES <- 9,
    MAX_MANIFEST_ASSETS <- 2, MAX_SNAPSHOT_BYTES <- 40, MAX_SNAPSHOT_ASSETS <- 2,
    MAX_SNAPSHOT_IDENTIFIERS <- 3, BLOCK_HEADER_MAXIMUM_LENGTH <- 18,
    MAX_ENCODED_RECORD_LENGTH <- 40, PINNED_VERSION <- <<<<"char", "A">>>>

(***************************************************************************)
(* The five in one run.  A machine that was not chosen stays as it starts. *)
(***************************************************************************)
NoFormat == name = "" /\ value = <<>> /\ cells = <<>> /\ edits = 0 /\ resealed = FALSE

HistoryInit ==
  /\ part \in {"ledger", "log", "format", "directory", "circuits"}
  /\ Init /\ Log!Init /\ DirectoryInit
  /\ part # "directory" => config = CHOOSE c \in [Instances -> Identities] : TRUE
  /\ IF part = "format" THEN Messages!Init ELSE NoFormat
  /\ IF part = "circuits" THEN CircuitsInit ELSE NoCircuits
HistoryNext ==
  \/ /\ part = "ledger" /\ Next
     /\ UNCHANGED <<part, logVars, formatVars, directoryVars, circuitVars>>
  \/ /\ part = "log" /\ Log!Next
     /\ UNCHANGED <<part, vars, formatVars, directoryVars, circuitVars>>
  \/ /\ part = "format" /\ Messages!Next
     /\ UNCHANGED <<part, vars, logVars, directoryVars, circuitVars>>
  \/ /\ part = "directory" /\ DirectoryNext
     /\ UNCHANGED <<part, vars, logVars, formatVars, circuitVars>>
  \/ /\ part = "circuits" /\ CircuitsNext
     /\ UNCHANGED <<part, vars, logVars, formatVars, directoryVars>>
historyVars == <<part, vars, logVars, formatVars, directoryVars, circuitVars>>
HistorySpec == HistoryInit /\ [][HistoryNext]_historyVars
Interchangeable == Permutations(Instances) \cup Permutations(Geneses)
RecoverySpec == part \in {"ledger", "log"} /\ HistoryInit /\ [][HistoryNext]_historyVars

(* Cut logs keep what was acknowledged, damaged ones invent nothing. *)
LogsRecover == part = "log" => Log!LogsRecover
(* "An invalid checkpoint is ignored; an invalid record remains            *)
(* fail-closed": no checkpoint keeps a ledger with a valid log from        *)
(* opening, and no log opens without a record that was acknowledged.       *)
InvalidIsRecognised ==
  /\ part = "ledger" => CheckpointsNeverBlockOpen
  /\ part = "log" => Log!CorruptionFailsClosed
(* Truncating a tail leaves exactly the frames that were replayed. *)
TruncationKeepsReplayed == [][Log!TruncationKeeps]_logVars
(* Every message has one value and every value one message. *)
FormatsExact == part = "format" => Messages!FormatsExact
=============================================================================
