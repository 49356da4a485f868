--------------------------- MODULE PrivateTransfers ---------------------------
(***************************************************************************)
(* Private transfers from the wallets to the candidate private ledger.     *)
(* Wallets draft transfers for the state they see, correct ones and wrong  *)
(* ones, and make proofs for them.  What reaches the ledger is an intent   *)
(* and an envelope, or a packet of both with the encrypted notes: late,    *)
(* again, after another transfer for the same state, or put together from  *)
(* the parts of several drafts.                                            *)
(***************************************************************************)
EXTENDS TransferProofs

CONSTANTS
  Assets,        \* asset identities, numbers
  Contexts,      \* deployments
  InitialNotes,  \* commitments of the first snapshot
  Plans,         \* the transfers that wallets may draft
  MaxDrafts      \* bound: drafts in the hands of wallets

VARIABLES
  ledger,    \* CandidatePrivateLedgerStateV1
  drafts,    \* drafts that wallets have made proofs for
  receipts,  \* CandidatePrivateTransferAdmissionReceiptV1, in order
  applied    \* the drafts and encrypted notes the receipts were given for

vars == <<ledger, drafts, receipts, applied>>

Init ==
  /\ \E context \in Contexts :
       ledger = NewLedger(context, Snapshot(InitialNotes, <<>>), SpentTree!NewTree)
  /\ drafts = {}
  /\ receipts = <<>>
  /\ applied = <<>>

Register(asset) ==
  /\ asset \notin ledger.assets
  /\ ledger' = RegisterAsset(ledger, asset)
  /\ UNCHANGED <<drafts, receipts, applied>>

(* A wallet orders its inputs by nullifier, encrypts the outputs, and      *)
(* builds the intent for the anchor it sees, in the context it believes in. *)
Nullifier(c) == NullifierAt(PositionOf(ledger.snapshot.commitments, c))
Draft(plan) ==
  /\ Cardinality(drafts) < MaxDrafts
  /\ plan.inputs \subseteq Range(ledger.snapshot.commitments)
  /\ \E inputs \in [Pair -> plan.inputs] :
       /\ Nullifier(inputs[1]) < Nullifier(inputs[2])
       /\ LET intent ==
                [Intent(ledger.anchor, plan.asset, [i \in Pair |-> Nullifier(inputs[i])],
                        plan.outputs, [i \in Pair |-> Digest(i, plan.outputs[i], plan.sealed[i])])
                   EXCEPT !.context = plan.context]
          IN  /\ IsIntent(intent)
              /\ drafts' = drafts \cup
                   {[by |-> plan.by, inputs |-> inputs, sealed |-> plan.sealed, intent |-> intent,
                     anchor |-> ledger.anchor]}
  /\ UNCHANGED <<ledger, receipts, applied>>

(* The notes that the wallet saw, which are still where they were. *)
NotesSeen(d) == SubSeq(ledger.snapshot.commitments, 1, d.anchor.nextLeaf)

(* The proofs there are: of each draft, the value relation for any notes   *)
(* whose opening its author knows, in the tree or not, and the ownership   *)
(* of those that the author holds the key of.                              *)
Known(d) == {c \in DOMAIN Openings : Openings[c].recipient = d.by} \cup Range(d.inputs)
ValueProofs ==
  UNION {{ValueProof(d.intent, inputs, d.intent.outputs) :
            inputs \in {pair \in [Pair -> Known(d)] :
                          ValueHolds(d.intent, pair, d.intent.outputs)}} : d \in drafts}
OwnershipProofs ==
  UNION {{OwnershipProof(NotesSeen(d), d.anchor.noteRoot, c) :
            c \in {known \in Known(d) : OwnershipHolds(NotesSeen(d), d.by, known)}} : d \in drafts}

(* Some envelope put together from these proofs is admitted. *)
SomeEnvelopeAdmitted(d) ==
  /\ ledger.anchor.context = ResearchContext
  /\ StatementHolds(ledger.anchor, ledger.tree, d.intent)
  /\ \E statement \in {Statement(ledger.anchor, ledger.tree, d.intent)} :
     \E value \in ValueProofs, ownership \in [Pair -> OwnershipProofs] :
       AdmitsFor(ledger, statement,
                 [context |-> ResearchContext, id |-> StatementId(statement),
                  notes |-> value.inputs, value |-> value, ownership |-> ownership])

(* The ledger applies the transfer and returns its receipt. *)
Apply(d, sealed) ==
  /\ ledger' = ApplyTransfer(ledger, d.intent)
  /\ receipts' = Append(receipts, Receipt(ledger, d.intent))
  /\ applied' = Append(applied, [intent |-> d.intent, sealed |-> sealed, draft |-> d])
  /\ UNCHANGED drafts

(* admit_candidate_private_proof_bundle_envelope: the intent comes beside  *)
(* the envelope, and nothing is said of the encrypted notes.               *)
AdmitEnvelope(d) ==
  /\ SomeEnvelopeAdmitted(d)
  /\ Apply(d, <<>>)

(* admit_candidate_private_transfer_packet *)
AdmitPacket(d, sealed) ==
  /\ PacketValid(d.intent, sealed)
  /\ SomeEnvelopeAdmitted(d)
  /\ Apply(d, sealed)

Next ==
  \/ \E asset \in Assets : Register(asset)
  \/ \E plan \in Plans : Draft(plan)
  \/ \E d \in drafts : AdmitEnvelope(d)
  \/ \E d, other \in drafts : AdmitPacket(d, other.sealed)

Spec == Init /\ [][Next]_vars

(***************************************************************************)
(* Properties                                                              *)
(***************************************************************************)
(* The snapshot, the tree and the anchor that apply_transfer replaces one  *)
(* after the other always describe one state: the anchor is the one of the *)
(* snapshot, and the tree commits to the nullifiers of the snapshot.       *)
ComponentsAgree ==
  /\ ledger.anchor = Anchor(ledger.anchor.context, ledger.snapshot, ledger.tree)
  /\ SpentTree!Root(ledger.tree) = SpentTree!DenseRoot(Range(ledger.snapshot.spent))
  /\ ledger.snapshot.root = NoteTree!DenseRoot(NoteDepth, ledger.snapshot.commitments)

(* No nullifier is taken by two receipts, and the spent nullifiers are     *)
(* exactly those of the receipts, however often intents are sent again.    *)
SpentOnce ==
  /\ \A i, j \in 1..Len(receipts) :
       i # j => Range(receipts[i].nullifiers) \cap Range(receipts[j].nullifiers) = {}
  /\ Range(ledger.snapshot.spent) = UNION {Range(receipts[i].nullifiers) : i \in 1..Len(receipts)}

(* The receipts form one chain from the first state to the current one:    *)
(* of the intents that were built for one state at most one was applied.   *)
OneSuccessorPerState ==
  /\ \A i \in 1..(Len(receipts) - 1) : receipts[i].post = receipts[i + 1].pre
  /\ receipts # <<>> => receipts[Len(receipts)].post = Identity(ledger)
  /\ \A i, j \in 1..Len(applied) :
       i # j => applied[i].intent.preState # applied[j].intent.preState

(* A step appends two notes or none, so the position of a note, which its  *)
(* owner's path is built from, never changes; and the receipt of a step is *)
(* one that the submission journal accepts as describing the step.         *)
StepAppends ==
  /\ \E tail \in {<<>>} \cup {plan.outputs : plan \in Plans} :
       ledger'.snapshot.commitments = ledger.snapshot.commitments \o tail
  /\ receipts' # receipts =>
       LET r == receipts'[Len(receipts')]
       IN  DescribesDelta(ledger, ledger', r.asset, r.nullifiers, r.outputs)

(* The lists that differ from a list in one place, by two places that are  *)
(* exchanged, or by the last place; and the records that differ so.        *)
Variants(list) ==
  {[list EXCEPT ![i] = list[j]] : i, j \in DOMAIN list}
  \cup {[list EXCEPT ![i] = list[j], ![j] = list[i]] : i, j \in DOMAIN list}
  \cup {SubSeq(list, 1, Len(list) - 1)}
Altered(record) ==
  {[record EXCEPT !.nullifiers = list] : list \in Variants(record.nullifiers)}
  \cup {[record EXCEPT !.commitments = list] : list \in Variants(record.commitments)}
  \cup {[record EXCEPT !.assets = list] : list \in ListsUpTo(Assets, Cardinality(Assets))}
  \cup {[record EXCEPT !.context = context] : context \in Contexts}

(* A record of the current state decodes to that state, and an altered one *)
(* decodes only if it is the record of another state: two records never    *)
(* stand for one state, whatever order their lists have.                   *)
RecordsCanonical ==
  LET record == Encode(ledger)
  IN  /\ Decodes(record) /\ Rebuilt(record) = ledger
      /\ \A other \in Altered(record) :
           Decodes(other) /\ other # record => Rebuilt(other) # ledger

(* The two anchor formats tell the same states apart: the sorted list of   *)
(* NXPS v1 and the sparse root of NXPS v2 agree with every earlier state.  *)
AnchorsAgree ==
  LET context == ledger.anchor.context
      earlier == SUBSET Range(ledger.snapshot.spent)
      s(S) == Snapshot(ledger.snapshot.commitments, Sorted(S))
      v1(S) == StateIdV1(AnchorV1(context, s(S)))
      v2(S) == StateId(Anchor(context, s(S), SpendAll(SpentTree!NewTree, Sorted(S))))
      pairs == {<<v1(S), v2(S)>> : S \in earlier}
  IN  /\ Cardinality({pair[1] : pair \in pairs}) = Cardinality(pairs)
      /\ Cardinality({pair[2] : pair \in pairs}) = Cardinality(pairs)

(* The value of an asset in the notes whose nullifier is not spent. *)
Unspent(notes, spent) == {c \in Range(notes) : NullifierAt(PositionOf(notes, c)) \notin spent}
Total(asset, notes, spent) ==
  LET counted == {c \in Unspent(notes, spent) : Openings[c].asset = asset}
  IN  FoldList(LAMBDA sum, c : sum + Openings[c].value, 0, Sorted(counted))

(* The value of every asset in the notes that can still be spent is what   *)
(* it was at the start, whichever proofs were combined and however late    *)
(* they arrived (verify_candidate_private_transfer_proof_bundle).          *)
ValueConserved ==
  \A asset \in Assets :
    Total(asset, ledger.snapshot.commitments, Range(ledger.snapshot.spent))
      = Total(asset, InitialNotes, {})

(* Each admitted transfer spends two different notes of the state it was   *)
(* admitted in, of its asset and of value, and each belongs to a wallet    *)
(* that made an ownership proof (verify_candidate_anchored_ownership).     *)
SpendsAreProved ==
  \A i \in 1..Len(applied) :
    LET before == Len(InitialNotes) + 2 * (i - 1)
    IN  \E p, q \in 0..(before - 1) :
          /\ p # q
          /\ applied[i].intent.nullifiers = <<NullifierAt(p), NullifierAt(q)>>
          /\ \A position \in {p, q} :
               LET c == ledger.snapshot.commitments[position + 1]
               IN  /\ Openings[c].asset = applied[i].intent.asset /\ Openings[c].value # 0
                   /\ \E d \in drafts : d.by = Openings[c].recipient

(* A transfer whose openings its wallet has validated is admitted as long  *)
(* as the state it was made for lasts, if its notes are unspent, its asset *)
(* is known and its outputs fit: no later check refuses what the wallet    *)
(* accepted (CandidatePrivateTransferWitnessV2, admit_..._envelope).       *)
ValidDraft(d) == OpeningsHold(d.intent, NotesSeen(d), d.by, d.inputs, d.intent.outputs)
HonestAdmitted ==
  \A d \in drafts :
    /\ ValidDraft(d) /\ d.anchor = ledger.anchor /\ d.intent.context = ResearchContext
    /\ ledger.anchor.context = ResearchContext /\ d.intent.asset \in ledger.assets
    /\ IsSnapshot(ledger.snapshot.commitments \o d.intent.outputs,
                  ledger.snapshot.spent \o d.intent.nullifiers)
    => /\ StatementHolds(ledger.anchor, ledger.tree, d.intent)
       /\ LET statement == Statement(ledger.anchor, ledger.tree, d.intent)
          IN  Admits(ledger, d.intent,
                     EncodeEnvelope(ProveBundle(statement, NotesSeen(d), d.inputs,
                                                d.intent.outputs)))

(* The preflight accepts exactly what can be proved, and accepts whatever  *)
(* the stricter validation of the openings accepts                         *)
(* (run_candidate_private_transfer_stark_preflight).                       *)
PreflightAgrees ==
  \A d \in drafts :
    StatementHolds(ledger.anchor, ledger.tree, d.intent) =>
      LET statement == Statement(ledger.anchor, ledger.tree, d.intent)
          accepted == TransferPreflight(statement, NotesSeen(d), d.by, d.inputs, d.intent.outputs)
      IN  /\ accepted <=> BundleProvable(statement, NotesSeen(d), d.by, d.inputs,
                                         d.intent.outputs)
          /\ ValidDraft(d) => accepted

(* From an admitted packet whose sender encrypted every note to its        *)
(* recipient, each recipient reads exactly its own outputs; from any other *)
(* packet nothing that is not an output of the transfer it belongs to.     *)
NotesReachOwners ==
  \A i \in 1..Len(applied) : applied[i].sealed # <<>> =>
    \A r \in Recipients :
      LET a == applied[i]
          own == {c \in Range(a.intent.outputs) : Openings[c].recipient = r}
          read == Scanned(r, Epoch[r], a.intent, a.sealed)
      IN  /\ read \subseteq own
          /\ (\A s \in Pair : a.draft.sealed[s] = SealedToDescriptor(a.intent.outputs[s]))
               => read = own

(* The ledger of private notes admits a transfer once and for one state:   *)
(* its snapshot, tree and anchor describe one state, that state has one    *)
(* record and the same identity in both anchor formats, and neither a      *)
(* nullifier nor a state is used by two transfers (apply_transfer,         *)
(* matches_intent).                                                        *)
AppliedOnce ==
  /\ ComponentsAgree /\ RecordsCanonical /\ AnchorsAgree
  /\ SpentOnce /\ OneSuccessorPerState

(* What is admitted was proved: transfers conserve value, and what they    *)
(* spend was there and belongs to a wallet that proved its ownership,      *)
(* whichever proofs were combined and however late they arrived.           *)
SpendsSound == ValueConserved /\ SpendsAreProved

(* What an honest wallet prepares arrives: its preflight decides what can  *)
(* be proved, the ledger admits what the wallet validated while the state  *)
(* lasts, and the recipients read exactly their notes.                     *)
HonestServed == HonestAdmitted /\ PreflightAgrees /\ NotesReachOwners
=============================================================================
