------------------------------ MODULE MCPrivate ------------------------------
(***************************************************************************)
(* The private state and the wallets for TLC.  A behaviour is one of five  *)
(* independent machines, chosen at the start: transfers and their proofs,  *)
(* the nullifier tree, the commitment tree, and the keystore of a wallet,  *)
(* opened twice or interrupted twice.  The variables of the others stay as *)
(* they are.                                                               *)
(***************************************************************************)
EXTENDS Keystore, Sequences, TLC

CONSTANTS alice, bob, home, other, c1, c2, h1, h2, n1, n2

VARIABLES part,
          ledger, drafts, receipts, applied,
          sparse, spent, paths, tree, proofs

transferVars == <<ledger, drafts, receipts, applied>>
spentVars == <<sparse, spent, paths>>
noteVars == <<tree, proofs>>
walletVars == <<final, temp, opener, call, registry, oslock, told, confirmed, bundles>>
privateVars == <<part, transferVars, spentVars, noteVars, walletVars, faults>>

(***************************************************************************)
(* Transfers: eleven notes, two wallets, and what they may try to send.    *)
(***************************************************************************)
Note(recipient, asset, value, random) ==
  [recipient |-> recipient, asset |-> asset, value |-> value, rho |-> random, rcm |-> random]
Opening ==
  <<Note(bob, 1, 4, 1), Note(alice, 1, 2, 2), Note(bob, 1, 5, 3), Note(alice, 1, 5, 4),
    Note(alice, 1, 3, 5), Note(bob, 1, 4, 6), Note(alice, 1, 1, 7), Note(alice, 1, 0, 5),
    Note(bob, 1, 2, 9), Note(alice, 2, 4, 10), Note(alice, 1, 2, 11)>>

(* Nullifiers that do not follow the order of the positions. *)
Nullifying(position) == (3 * position + 2) % 8
Keys == [r \in {alice, bob} |-> IF r = alice THEN 1 ELSE 2]

Sealed(c) == [to |-> Opening[c].recipient, epoch |-> Keys[Opening[c].recipient], note |-> c]
Plan(by, inputs, outputs) ==
  [by |-> by, context |-> home, asset |-> 1, inputs |-> inputs, outputs |-> outputs,
   sealed |-> <<Sealed(outputs[1]), Sealed(outputs[2])>>]
Catalogue ==
  {Plan(alice, {5, 2}, <<1, 7>>),
   Plan(bob, {6, 9}, <<4, 7>>),
   [Plan(alice, {5, 2}, <<1, 7>>) EXCEPT !.context = other],
   [Plan(alice, {5, 2}, <<3, 8>>) EXCEPT !.sealed[1].note = 1],   \* seals another note
   [Plan(alice, {4, 7}, <<1, 11>>) EXCEPT !.sealed[2].to = bob],  \* seals to another wallet
   Plan(alice, {5, 2}, <<4, 7>>),    \* five become six
   Plan(alice, {5, 2}, <<7, 10>>),   \* another asset
   Plan(bob, {6, 3}, <<1, 4>>),      \* nine, which no value can hold
   Plan(bob, {2, 6}, <<4, 7>>)}      \* a note of the other wallet

Payments ==
  INSTANCE PrivateTransfers WITH Depth <- 3, NoteDepth <- 3, MaxNotes <- 8,
    Openings <- Opening, NullifierAt <- Nullifying, Epoch <- Keys, MaxValue <- 8,
    ResearchContext <- home, Assets <- {1, 2}, Contexts <- {home, other},
    InitialNotes <- <<5, 2, 6, 9>>, Plans <- Catalogue, MaxDrafts <- 3

(***************************************************************************)
(* Trees and the wallet.                                                   *)
(***************************************************************************)
Trees ==
  INSTANCE TreeHistories WITH Depth <- 3, MaxCommitments <- 7, Commitments <- {c1, c2},
    Depths <- {1, 2, 3}, MaxHeld <- 1

(* A wallet with two generations, and a payload of another wallet. *)
Payload(header, generation, nonce) ==
  [header |-> header, generation |-> generation, nonce |-> nonce]
WalletPayloads == {Payload(h1, 1, n1), Payload(h1, 2, n2), Payload(h2, 1, n1)}
(* Two processes that use one generation and meet one fault, or a process  *)
(* that uses two and meets up to MaxFaults of them.                        *)
TwoProcesses == [o \in Openers |-> IF o = CHOOSE x \in Openers : TRUE THEN 1 ELSE 2]
Once == INSTANCE Keystore WITH MaxFaults <- 1
Sends(payloads) == \A o \in Openers, c \in Callers : call'[o][c].payload \in payloads \cup {None}
WalletNext == Once!Next /\ Sends({Payload(h1, 1, n1), Payload(h2, 1, n1)})
RetryNext ==
  /\ Next /\ Sends({Payload(h1, 1, n1), Payload(h1, 2, n2)})
  /\ \A o \in Openers : Process[o] = 2 => opener'[o].pc = "closed"

Interchangeable == Permutations({c1, c2})

NoTransfers == ledger = 0 /\ drafts = {} /\ receipts = <<>> /\ applied = <<>>
NoSpent == sparse = 0 /\ spent = {} /\ paths = {}
NoNotes == tree = 0 /\ proofs = {}
PrivateInit ==
  \/ /\ part = "transfers" /\ Payments!Init
     /\ NoSpent /\ NoNotes /\ Init
  \/ /\ part = "nullifiers" /\ Trees!SpentInit
     /\ NoTransfers /\ NoNotes /\ Init
  \/ /\ part = "notes" /\ Trees!NotesInit
     /\ NoTransfers /\ NoSpent /\ Init
  \/ /\ part \in {"wallet", "retry"} /\ Init /\ NoTransfers /\ NoSpent /\ NoNotes

PrivateNext ==
  \/ /\ part = "transfers" /\ Payments!Next
     /\ UNCHANGED <<part, spentVars, noteVars, walletVars, faults>>
  \/ /\ part = "nullifiers" /\ Trees!SpentNext
     /\ UNCHANGED <<part, transferVars, noteVars, walletVars, faults>>
  \/ /\ part = "notes" /\ Trees!NotesNext
     /\ UNCHANGED <<part, transferVars, spentVars, walletVars, faults>>
  \/ /\ part = "wallet" /\ WalletNext
     /\ UNCHANGED <<part, transferVars, spentVars, noteVars>>
  \/ /\ part = "retry" /\ RetryNext
     /\ UNCHANGED <<part, transferVars, spentVars, noteVars>>

PrivateSpec == PrivateInit /\ [][PrivateNext]_privateVars
RetrySpec == (part = "retry" /\ PrivateInit) /\ [][PrivateNext]_privateVars

(***************************************************************************)
(* The properties of the other machines, where they run; those of the      *)
(* wallet are Keystore's own.                                              *)
(***************************************************************************)
(* A transfer is applied once and for one state, and appends its notes. *)
AppliedOnce ==
  /\ [](part = "transfers" => Payments!AppliedOnce)
  /\ [][part = "transfers" => Payments!StepAppends]_privateVars
(* Admitted transfers conserve value and spend what was proved. *)
SpendsSound == part = "transfers" => Payments!SpendsSound
(* What an honest wallet prepares is admitted and reaches its recipients. *)
HonestServed == part = "transfers" => Payments!HonestServed
(* Paths of the nullifier tree, current or held, show what is so. *)
SpentSetProvable == part = "nullifiers" => Trees!SpentSetProvable
(* Proofs of the commitment tree, current or held, show what is so. *)
NotesProvable == part = "notes" => Trees!NotesProvable
=============================================================================
