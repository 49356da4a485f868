---------------------------- MODULE TransferProofs ----------------------------
(***************************************************************************)
(* What a private transfer proves and how it travels: the local openings   *)
(* of noxis-note-opening, the public statement, the preflights, the proof  *)
(* bundle and its envelope of noxis-private-proof-contract, the packet of  *)
(* noxis-private-packet-validation, and the encrypted notes of             *)
(* noxis-wallet-crypto.                                                    *)
(*                                                                         *)
(* H_NOTE is injective, so a commitment names its opening.  A proof is the *)
(* public statement it proves, and exists only where the statement is true *)
(* (the circuits are checked in CircuitTraces).  A note is in a tree at a  *)
(* position exactly if a path shows it there (TreeHistories), and in one   *)
(* history a position holds one note, so the nullifier of a note is a      *)
(* number of its position.  Context also stands for the pinned deployment. *)
(***************************************************************************)
EXTENDS PrivateState

CONSTANTS
  Openings,         \* Openings[c]: recipient, asset, value, rho and rcm of c
  NullifierAt(_),   \* the nullifier of the note at a position
  Epoch,            \* Epoch[r]: the key epoch of the address of a recipient
  MaxValue,         \* the largest u128
  ResearchContext   \* the only validation context that proofs are made for

Recipients == DOMAIN Epoch
Pair == {1, 2}
Opens(list, i) == Openings[list[i]]

(***************************************************************************)
(* The public statement                                                    *)
(***************************************************************************)
(* CandidatePrivateTransferAirPublicInputsV1::from_intent: H_INTENT. *)
IntentHash(intent) == <<"H_INTENT", intent>>

(* CandidateNxsmNullifierTransitionV1::new: what it refuses and builds.   *)
TransitionHolds(anchor, tree, intent) ==
  /\ MatchesIntent(anchor, intent)
  /\ SpentTree!Root(tree) = anchor.nullifierRoot
  /\ tree.count = anchor.spentCount
  /\ \A i \in Pair :
       LET n == intent.nullifiers[i]
       IN  /\ ~SpentTree!IsSpent(tree, n)
           /\ SpentTree!VerifyAbsence(anchor.nullifierRoot, n, SpentTree!Prove(tree, n))
NullifierTransition(anchor, tree, intent) ==
  LET post == SpendAll(tree, intent.nullifiers)
  IN  [preState |-> StateId(anchor), nullifiers |-> intent.nullifiers,
       preRoot |-> anchor.nullifierRoot, preCount |-> anchor.spentCount,
       postRoot |-> SpentTree!Root(post), postCount |-> post.count]

(* CandidateNxsmNullifierTransitionWitnessV1: the second nullifier is      *)
(* absent from the tree that holds the first one.                          *)
NxsmWitnessHolds(tree, transition) ==
  LET first == transition.nullifiers[1]
      second == transition.nullifiers[2]
      between == SpentTree!MarkSpent(tree, first)
  IN  /\ transition.postCount = transition.preCount + 2
      /\ SpentTree!VerifyAbsence(transition.preRoot, first, SpentTree!Prove(tree, first))
      /\ SpentTree!VerifyAbsence(SpentTree!Root(between), second,
                                 SpentTree!Prove(between, second))
      /\ SpentTree!Root(SpentTree!MarkSpent(between, second)) = transition.postRoot

(* CandidatePrivateTransferProofPublicStatementV1 (NXPU): new and          *)
(* revalidate derive every field from the anchor, the tree and the intent. *)
StatementHolds(anchor, tree, intent) ==
  /\ TransitionHolds(anchor, tree, intent)
  /\ NxsmWitnessHolds(tree, NullifierTransition(anchor, tree, intent))
Statement(anchor, tree, intent) ==
  [anchor |-> anchor, intent |-> intent, commitment |-> IntentHash(intent),
   transition |-> NullifierTransition(anchor, tree, intent)]
StatementId(statement) == <<"NXPU", statement>>

(* candidate_inner_relation_receipt_id, and the three of a bundle. *)
ReceiptId(id, kind, index) == <<"RECEIPT", id, kind, index>>
ExpectedReceipts(id) ==
  <<ReceiptId(id, "value", 0), ReceiptId(id, "ownership", 1), ReceiptId(id, "ownership", 2)>>

(***************************************************************************)
(* The relations                                                           *)
(***************************************************************************)
(* checked_add of two 128-bit values, compared with another such sum. *)
Balanced(inputs, outputs) ==
  LET sum(list) == Opens(list, 1).value + Opens(list, 2).value
  IN  sum(inputs) <= MaxValue /\ sum(outputs) <= MaxValue /\ sum(inputs) = sum(outputs)

(* The composed intent and value relation of four openings. *)
ValueHolds(intent, inputs, outputs) ==
  /\ \A i \in Pair : Opens(inputs, i).asset = intent.asset /\ Opens(inputs, i).value # 0
  /\ \A i \in Pair : Opens(outputs, i).asset = intent.asset
  /\ outputs = intent.outputs
  /\ Balanced(inputs, outputs)
ValueProof(intent, inputs, outputs) ==
  [commitment |-> IntentHash(intent), asset |-> intent.asset,
   inputs |-> inputs, outputs |-> outputs]

(* The ownership relation: the key behind the recipient of the note, and   *)
(* its place in the tree.  The note is bound, see                          *)
(* prove_candidate_anchored_ownership_bound_note_commitment.               *)
PositionOf(notes, c) == (CHOOSE i \in DOMAIN notes : notes[i] = c) - 1
OwnershipHolds(notes, key, c) == c \in Range(notes) /\ Openings[c].recipient = key
OwnershipProof(notes, root, c) ==
  [note |-> c, root |-> root, nullifier |-> NullifierAt(PositionOf(notes, c))]

(* validate_public_result: the proof is about the anchor and the slot. *)
OwnershipFits(statement, index, proof) ==
  /\ proof.root = statement.anchor.noteRoot
  /\ proof.nullifier = statement.intent.nullifiers[index]

(***************************************************************************)
(* What a wallet checks before it proves                                   *)
(***************************************************************************)
(* CandidatePrivateTransferWitnessV2: validate over two spending witnesses *)
(* and two outputs.                                                        *)
RandomnessUnique(list) ==
  \A i, j \in DOMAIN list :
    i # j => Opens(list, i).rho # Opens(list, j).rho /\ Opens(list, i).rcm # Opens(list, j).rcm
OpeningsHold(intent, notes, key, inputs, outputs) ==
  /\ \A i \in Pair :
       /\ OwnershipHolds(notes, key, inputs[i])
       /\ Opens(inputs, i).value # 0
       /\ intent.nullifiers[i] = NullifierAt(PositionOf(notes, inputs[i]))
  /\ inputs[1] # inputs[2]
  /\ \A i \in Pair : Opens(inputs, i).asset = intent.asset
  /\ outputs = intent.outputs
  /\ Range(inputs) \cap Range(outputs) = {}
  /\ \A i \in Pair : Opens(outputs, i).asset = intent.asset
  /\ RandomnessUnique(inputs \o outputs)
  /\ Balanced(inputs, outputs)

(* run_candidate_value_conservation_preflight *)
ValuePreflight(statement, inputs, outputs) ==
  /\ \A i \in Pair :
       Opens(inputs, i).asset = statement.intent.asset /\ Opens(inputs, i).value # 0
  /\ \A i \in Pair : Opens(outputs, i).asset = statement.intent.asset
  /\ Balanced(inputs, outputs)
  /\ outputs = statement.intent.outputs
  /\ ValueHolds(statement.intent, inputs, outputs)

(* run_candidate_anchored_ownership_pair_preflight_bound_note_commitments: *)
(* each witness opens the note of its slot, and the nullifiers differ.     *)
OwnershipPreflight(statement, notes, key, inputs) ==
  LET proof(i) == OwnershipProof(notes, statement.anchor.noteRoot, inputs[i])
  IN  /\ \A i \in Pair :
           OwnershipHolds(notes, key, inputs[i]) /\ OwnershipFits(statement, i, proof(i))
      /\ proof(1).nullifier # proof(2).nullifier

(* run_candidate_output_notes_preflight *)
OutputNotesPreflight(statement, outputs) ==
  \A i \in Pair :
    Opens(outputs, i).asset = statement.intent.asset /\ outputs[i] = statement.intent.outputs[i]

(* run_candidate_private_transfer_stark_preflight *)
TransferPreflight(statement, notes, key, inputs, outputs) ==
  /\ ValuePreflight(statement, inputs, outputs)
  /\ OwnershipPreflight(statement, notes, key, inputs)
  /\ OutputNotesPreflight(statement, outputs)
(***************************************************************************)
(* The proof bundle and its NXPP envelope                                  *)
(***************************************************************************)
(* prove_candidate_private_transfer_proof_bundle: what it needs, and what  *)
(* it returns after it has verified it.                                    *)
BundleProvable(statement, notes, key, inputs, outputs) ==
  /\ ValueHolds(statement.intent, inputs, outputs)
  /\ \A i \in Pair :
       /\ OwnershipHolds(notes, key, inputs[i])
       /\ OwnershipFits(statement, i, OwnershipProof(notes, statement.anchor.noteRoot, inputs[i]))
Bundle(statement, value, ownership) ==
  [id |-> StatementId(statement), receipts |-> ExpectedReceipts(StatementId(statement)),
   value |-> value, ownership |-> ownership]
ProveBundle(statement, notes, inputs, outputs) ==
  Bundle(statement, ValueProof(statement.intent, inputs, outputs),
         [i \in Pair |-> OwnershipProof(notes, statement.anchor.noteRoot, inputs[i])])

(* verify_candidate_private_transfer_proof_bundle *)
VerifyBundle(statement, bundle) ==
  /\ bundle.id = StatementId(statement)
  /\ bundle.receipts = ExpectedReceipts(StatementId(statement))
  /\ bundle.value.commitment = statement.commitment
  /\ bundle.value.asset = statement.intent.asset
  /\ bundle.value.outputs = statement.intent.outputs
  /\ \A i \in Pair : OwnershipFits(statement, i, bundle.ownership[i])
  /\ \A i \in Pair : bundle.ownership[i].note = bundle.value.inputs[i]

(* CandidatePrivateProofBundleEnvelopeV1::encode: the notes are those that *)
(* the ownership proofs are bound to.                                      *)
EncodeEnvelope(bundle) ==
  [context |-> ResearchContext, id |-> bundle.id,
   notes |-> [i \in Pair |-> bundle.ownership[i].note],
   value |-> bundle.value, ownership |-> bundle.ownership]

(* decode_pinned_research_transport_parts: the results that the chunks     *)
(* have to prove come from the statement and the two notes.                *)
Decoded(statement, envelope) ==
  Bundle(statement, ValueProof(statement.intent, envelope.notes, statement.intent.outputs),
         [i \in Pair |-> [note |-> envelope.notes[i], root |-> statement.anchor.noteRoot,
                          nullifier |-> statement.intent.nullifiers[i]]])
(* The ownership chunks checked without the note they are bound to. *)
FaultyChunksProve(bundle, envelope) ==
  /\ envelope.value = bundle.value
  /\ \A i \in Pair : envelope.ownership[i].root = bundle.ownership[i].root
                    /\ envelope.ownership[i].nullifier = bundle.ownership[i].nullifier
ChunksProve(bundle, envelope) ==
  envelope.value = bundle.value /\ envelope.ownership = bundle.ownership

(* decode_and_verify, after parse_frame has compared the deployment and    *)
(* the statement.                                                          *)
EnvelopeVerifies(statement, envelope) ==
  LET bundle == Decoded(statement, envelope)
  IN  /\ envelope.context = ResearchContext
      /\ envelope.id = StatementId(statement)
      /\ ChunksProve(bundle, envelope)
      /\ VerifyBundle(statement, bundle)

(* admit_candidate_private_proof_bundle_envelope: the ledger verifies once *)
(* more, through the authorizer, when it applies the transfer.             *)
Authorizes(ledger, intent, bundle) ==
  /\ StatementHolds(ledger.anchor, ledger.tree, intent)
  /\ VerifyBundle(Statement(ledger.anchor, ledger.tree, intent), bundle)
AdmitsFor(ledger, statement, envelope) ==
  /\ EnvelopeVerifies(statement, envelope)
  /\ TransferAllowed(ledger, statement.intent,
                     Authorizes(ledger, statement.intent, Decoded(statement, envelope)))
Admits(ledger, intent, envelope) ==
  /\ ledger.anchor.context = ResearchContext
  /\ StatementHolds(ledger.anchor, ledger.tree, intent)
  /\ AdmitsFor(ledger, Statement(ledger.anchor, ledger.tree, intent), envelope)

(***************************************************************************)
(* The packet and the notes in it                                          *)
(***************************************************************************)
(* encrypt_candidate_private_note to an address of the recipient. *)
Seal(recipient, c) == [to |-> recipient, epoch |-> Epoch[recipient], note |-> c]

(* encrypt_candidate_private_note_to_descriptor: the note names the        *)
(* recipient of the descriptor.                                            *)
SealedToDescriptor(c) == Seal(Openings[c].recipient, c)

(* candidate_ciphertext_digest_v1 *)
Digest(slot, c, sealed) == <<"ENVELOPE-DIGEST", slot, c, sealed>>

(* validate_candidate_private_transfer_packet_envelopes *)
PacketValid(intent, sealed) ==
  \A i \in Pair : intent.digests[i] = Digest(i, intent.outputs[i], sealed[i])

(* decrypt_envelope for a view key: an address of another epoch, recipient *)
(* or context is ignored.                                                  *)
Decrypts(recipient, epoch, sealed) ==
  Epoch[recipient] = epoch /\ sealed.epoch = epoch /\ sealed.to = recipient

(* Decrypted bytes taken for the note of the output. *)
FaultyNoteAccepted(recipient, c, sealed) == Openings[sealed.note].recipient = recipient
(* decrypt_candidate_private_note_for_expected_recipient: the plaintext    *)
(* opens the commitment of the output and names the recipient.             *)
NoteAccepted(recipient, c, sealed) ==
  sealed.note = c /\ Openings[sealed.note].recipient = recipient

(* decode_validate_and_scan_..._for_incoming_view_key: an envelope that    *)
(* decrypts and is not accepted ends the scan with an error.               *)
ScanFails(recipient, epoch, intent, sealed) ==
  \E i \in Pair : /\ Decrypts(recipient, epoch, sealed[i])
                  /\ ~NoteAccepted(recipient, intent.outputs[i], sealed[i])
Scanned(recipient, epoch, intent, sealed) ==
  IF ScanFails(recipient, epoch, intent, sealed) THEN {}
  ELSE {sealed[i].note : i \in {j \in Pair : Decrypts(recipient, epoch, sealed[j])}}
=============================================================================
