-------------------------- MODULE TransferCircuits --------------------------
(***************************************************************************)
(* The ownership circuit of ownership.rs: a private key, note and position *)
(* determine one public nullifier and one public root.                     *)
(*                                                                         *)
(* The columns are the bytes of key, note, position and commitment, the    *)
(* digest lanes of the recipient, the note and the leaf, and the siblings  *)
(* and intermediate nodes of the path.  One state computes the address,    *)
(* the note, the nullifier, the leaf and every node in turn.               *)
(***************************************************************************)
EXTENDS SpongeAir

RecipientOffset == VersionBytes + AssetBytes + ValueBytes
RecipientOf(note) == SubSeq(note, RecipientOffset + 1, RecipientOffset + DigestBytes)
RhoOf(note) == SubSeq(note, RecipientOffset + DigestBytes + 1, RecipientOffset + DigestBytes + RhoBytes)

(* The direction of a level, counted from zero: the bytes of the position  *)
(* are big-endian, so the last one holds the lowest levels.                *)
PositionBit(position, level) ==
  (position[PositionBytes - (level \div BitsPerByte)] \div 2^(level % BitsPerByte)) % 2
WritePosition(n) ==
  [k \in 1..PositionBytes |-> (n \div Base^(PositionBytes - k)) % Base]

NodeDigest(o, i) == IF i = TreeDepth THEN o.root ELSE o.middles[i]
OwnershipHashes(o, side) ==
  <<[iv |-> IV["addr"], input |-> Pack(o.key), digest |-> o.recipient],
    [iv |-> IV["note"], input |-> Pack(o.note), digest |-> o.digest],
    [iv |-> IV["nullifier"], digest |-> o.nullifier,
     input |-> Pack(NullifierPreimage(o.key, RhoOf(o.note), o.commitment, o.position))],
    [iv |-> IV["leaf"], input |-> o.digest, digest |-> o.leaf]>>
  \o [i \in 1..TreeDepth |->
        [iv     |-> IV["node"], digest |-> NodeDigest(o, i),
         input  |-> NodeInputs(side, PositionBit(o.position, i - 1),
                          IF i = 1 THEN o.leaf ELSE o.middles[i - 1], o.siblings[i])]]
OwnershipTrack(o) == Air("compact", OwnershipHashes(o, "circuit"))
(* The trace builder orders the digests of a node itself. *)
OwnershipBuilt(o) == Air("compact", OwnershipHashes(o, "trace"))

(* assert_static_witness, and the commitment when it is bound. *)
OwnershipStatic(o) ==
  /\ ByteColumns(o.key) /\ ByteColumns(o.note)
  /\ ByteColumns(o.position) /\ ByteColumns(o.commitment)
  /\ o.note[1] = 0 /\ o.note[2] = 1
  /\ o.recipient = ReadDigest(RecipientOf(o.note))
  /\ o.digest = ReadDigest(o.commitment)
  /\ o.bound => o.digest = o.expected

(***************************************************************************)
(* prepare_ownership_path32.                                               *)
(***************************************************************************)
PathNodes(leaf, position, siblings) ==
  Iterate(LAMBDA nodes, i :
            Append(nodes, Sponge(IV["node"],
              Ordered(PathBit(position, i), IF i = 1 THEN leaf ELSE nodes[i - 1], siblings[i]))),
          <<>>, 1, TreeDepth)
PreparedWith(key, note, position, siblings, recipient, digest, nodes, nullifier) ==
  [key |-> key, note |-> note, position |-> WritePosition(position),
   commitment |-> WriteDigest(digest), recipient |-> recipient, digest |-> digest,
   leaf |-> Leaf(digest), siblings |-> siblings, middles |-> SubSeq(nodes, 1, TreeDepth - 1),
   nullifier |-> nullifier, root |-> nodes[TreeDepth], bound |-> FALSE, expected |-> <<>>]
Prepared(key, note, position, siblings) ==
  UNION {UNION {{PreparedWith(key, note, position, siblings, recipient, digest,
                              PathNodes(Leaf(digest), position, siblings), nullifier) :
                   nullifier \in HashNullifier(key, RhoOf(note), WriteDigest(digest),
                                               WritePosition(position))} :
                digest \in HashNote(note)} :
         recipient \in IF \A i \in 1..TreeDepth : Canonical(siblings[i]) THEN HashAddr(key) ELSE {}}

(* prove_p24_note_ownership_path32, free or bound to a commitment. *)
ProveOwnership(key, note, position, siblings) == Prepared(key, note, position, siblings)
ProveBoundOwnership(key, note, position, siblings, expected) ==
  {[o EXCEPT !.bound = TRUE, !.expected = expected] :
     o \in {p \in Prepared(key, note, position, siblings) : p.digest = expected}}

(* The prover compares neither the version nor the recipient: the trace of *)
(* another's note does not satisfy the circuit.                            *)
OwnsNote(o) == o.note[1] = 0 /\ o.note[2] = 1 /\ RecipientOf(o.note) = WriteDigest(o.recipient)

(***************************************************************************)
(* What the circuit establishes: the note belongs to the key, it lies at   *)
(* the position in the tree of the root, and the nullifier is the hash of  *)
(* the key, the note's rho, bytes that read as the note's digest, and the  *)
(* position.  Recipient and commitment are compared after reduction, so    *)
(* that a digest has several readings; see CanonicalOwnership.             *)
(***************************************************************************)
OwnershipRelation(o) ==
  /\ AreBytes(o.key) /\ AreBytes(o.note) /\ AreBytes(o.position) /\ AreBytes(o.commitment)
  /\ o.note[1] = 0 /\ o.note[2] = 1
  /\ {ReadDigest(RecipientOf(o.note))} = HashAddr(o.key)
  /\ HashNote(o.note) = {ReadDigest(o.commitment)}
  /\ {o.nullifier} = HashNullifier(o.key, RhoOf(o.note), o.commitment, o.position)
  /\ \A digest \in HashNote(o.note) :
       /\ o.bound => digest = o.expected
       /\ o.root = PathNodes(Leaf(digest), BigEndian(o.position), o.siblings)[TreeDepth]

(* One note, key and position have one nullifier: its bytes are the        *)
(* canonical encoding of the note's digest.                                *)
CanonicalOwnership(o) ==
  \E digest \in HashNote(o.note) :
    {o.nullifier} = HashNullifier(o.key, RhoOf(o.note), WriteDigest(digest), o.position)

(***************************************************************************)
(* The value circuit of value_conservation.rs: four private notes, two     *)
(* inputs and two outputs, whose values are added byte by byte with two    *)
(* carry columns.                                                          *)
(***************************************************************************)
NoteCount == 4
InputNotes == 1..2
OutputNotes == 3..NoteCount

ValueOffset == VersionBytes + AssetBytes
ValueBytesOf(note) == SubSeq(note, ValueOffset + 1, ValueOffset + ValueBytes)
Value(note) == BigEndian(ValueBytesOf(note))
AssetBytesOf(note) == SubSeq(note, VersionBytes + 1, VersionBytes + AssetBytes)

(* assert_note_relation without the state, which is a track of its own. *)
NoteStatic(v, i) ==
  /\ ByteColumns(v.notes[i])
  /\ v.packed[i] = Pack(v.notes[i])
  /\ v.notes[i][1] = 0 /\ v.notes[i][2] = 1
  /\ AssetBytesOf(v.notes[i]) = v.asset
NoteTrack(v, i, input) == Air("long", <<[iv |-> IV["note"], input |-> input, digest |-> v.commitments[i]]>>)

(* The prover's inverse of the byte sum shows that an input is not zero. *)
InputNotZero(note) ==
  LET value == ValueBytesOf(note)
      sum[k \in 0..ValueBytes] == IF k = 0 THEN 0 ELSE (sum[k - 1] + value[k]) % Prime
  IN  \E inverse \in 0..(Prime - 1) : (sum[ValueBytes] * inverse) % Prime = 1

ValueStatic(v) ==
  /\ \A i \in 1..NoteCount : NoteStatic(v, i)
  /\ \A i \in InputNotes : InputNotZero(v.notes[i])
  /\ v.bound => \A i \in OutputNotes : v.commitments[i] = v.outputs[i - 2]

(***************************************************************************)
(* The arithmetic columns: a selector for every byte and the two carries.  *)
(***************************************************************************)
ValueFirst == [selectors |-> [k \in 1..ValueBytes |-> IF k = 1 THEN 1 ELSE 0], input |-> 0, output |-> 0]
NextSelectors(a) == [k \in 1..ValueBytes |-> IF k = 1 THEN 0 ELSE a.selectors[k - 1]]

(* The least significant byte comes first. *)
ByteAt(note, k) == ValueBytesOf(note)[ValueBytes - k + 1]
(* Sums whose last carries are dropped. *)
FaultyCarriesHold(v, a, next) ==
  /\ \A c \in {a.input, a.output, next.input, next.output} : IsBit(c)
  /\ \A k \in 1..ValueBytes :
       a.selectors[k] # 0 =>
         (ByteAt(v.notes[1], k) + ByteAt(v.notes[2], k) + a.input
            - (ByteAt(v.notes[3], k) + ByteAt(v.notes[4], k) + a.output)
            - Base * (next.input - next.output)) % Prime = 0
CarriesHold(v, a, next) ==
  /\ \A c \in {a.input, a.output, next.input, next.output} : IsBit(c)
  /\ \A k \in 1..ValueBytes :
       a.selectors[k] # 0 =>
         (ByteAt(v.notes[1], k) + ByteAt(v.notes[2], k) + a.input
            - (ByteAt(v.notes[3], k) + ByteAt(v.notes[4], k) + a.output)
            - Base * (next.input - next.output)) % Prime = 0
  /\ a.selectors[ValueBytes] # 0 => next.input = 0 /\ next.output = 0

(* The trace builder: row n holds the carries of the first n - 1 bytes. *)
BuiltCarries(v, a, n) ==
  IF n > ValueBytes THEN [input |-> a.input, output |-> a.output]
  ELSE [input  |-> (ByteAt(v.notes[1], n) + ByteAt(v.notes[2], n) + a.input) \div Base,
        output |-> (ByteAt(v.notes[3], n) + ByteAt(v.notes[4], n) + a.output) \div Base]

(***************************************************************************)
(* validate_witness_values: what the prover demands of its notes.          *)
(***************************************************************************)
MaxValue == Base^ValueBytes - 1
WitnessValid(notes, asset) ==
  /\ \A i \in 1..NoteCount :
       /\ notes[i][1] = 0 /\ notes[i][2] = 1
       /\ AssetBytesOf(notes[i]) = asset
       /\ i \in InputNotes => Value(notes[i]) # 0
  /\ Value(notes[1]) + Value(notes[2]) <= MaxValue
  /\ Value(notes[3]) + Value(notes[4]) <= MaxValue
  /\ Value(notes[1]) + Value(notes[2]) = Value(notes[3]) + Value(notes[4])
OutputsMatch(notes, outputs) == \A i \in OutputNotes : HashNote(notes[i]) = {outputs[i - 2]}

ValueOf(notes, asset, commitments, bound, outputs) ==
  [notes |-> notes, asset |-> asset, commitments |-> commitments, bound |-> bound,
   outputs |-> outputs, packed |-> [i \in 1..NoteCount |-> Pack(notes[i])]]
Commitments(notes) == [i \in 1..NoteCount |-> Sponge(IV["note"], Pack(notes[i]))]
ProveValue(notes, asset) ==
  IF WitnessValid(notes, asset) THEN {ValueOf(notes, asset, Commitments(notes), FALSE, <<>>)} ELSE {}
ProveBoundValue(notes, asset, outputs) ==
  IF WitnessValid(notes, asset) /\ OutputsMatch(notes, outputs)
  THEN {ValueOf(notes, asset, Commitments(notes), TRUE, outputs)} ELSE {}

(* Four notes of one asset behind the commitments, and the same sum on     *)
(* both sides as numbers.  Both sums may exceed the width of a value: the  *)
(* constraint bounds the difference of the carries.                        *)
ValueRelation(v) ==
  /\ \A i \in 1..NoteCount :
       /\ AreBytes(v.notes[i]) /\ AssetBytesOf(v.notes[i]) = v.asset
       /\ HashNote(v.notes[i]) = {v.commitments[i]}
  /\ \A i \in InputNotes : Value(v.notes[i]) # 0
  /\ Value(v.notes[1]) + Value(v.notes[2]) = Value(v.notes[3]) + Value(v.notes[4])
  /\ v.bound => \A i \in OutputNotes : HashNote(v.notes[i]) = {v.outputs[i - 2]}

SumsFit(v) ==
  /\ Value(v.notes[1]) + Value(v.notes[2]) <= MaxValue
  /\ Value(v.notes[3]) + Value(v.notes[4]) <= MaxValue

(***************************************************************************)
(* The circuits that place relations side by side: the four notes of       *)
(* value_conservation.rs with its arithmetic columns, the public intent of *)
(* intent_value_conservation.rs, and the first input's ownership of        *)
(* intent_value_first_ownership.rs; and ownership.rs alone.                *)
(*                                                                         *)
(* A claim is [shape, honest, values, intent, ownership], the last three   *)
(* lists of at most one element.  Every relation has its own columns, and  *)
(* the relations share the row number.                                     *)
(***************************************************************************)
CONSTANTS
  Transfers,      \* quadruples of note preimages
  Assets,         \* public assets
  Keys, Siblings, \* owners' keys, and paths
  Positions,
  OutputsOffset   \* INTENT_OUTPUT_COMMITMENTS_OFFSET

(***************************************************************************)
(* The composed circuits.                                                  *)
(***************************************************************************)
AssetOffset == 1
IntentAsset(intent) == SubSeq(intent.bytes, AssetOffset + 1, AssetOffset + AssetBytes)
(* The bytes of an output slot of the intent. *)
OutputSlot(intent, i) ==
  LET first == OutputsOffset + (i - 3) * DigestBytes
  IN  SubSeq(intent.bytes, first + 1, first + DigestBytes)

IntentTrack(intent, input) ==
  Air("long", <<[iv |-> IV["intent"], input |-> input, digest |-> intent.digest]>>)
IntentStatic(intent) == ByteColumns(intent.bytes) /\ intent.elements = Pack(intent.bytes)

(* Every four bytes of a slot recompose a lane of the commitment. *)
OutputsBound(intent, v) == \A i \in OutputNotes : ReadDigest(OutputSlot(intent, i)) = v.commitments[i]
InputBound(o, v) == o.digest = v.commitments[1]

TracksOf(c) ==
  [i \in 1..Len(c.intent) |-> IntentTrack(c.intent[i], c.intent[i].elements)]
    \o (IF c.values = <<>> THEN <<>>
        ELSE [i \in 1..NoteCount |-> NoteTrack(c.values[1], i, c.values[1].packed[i])])
    \o [i \in 1..Len(c.ownership) |-> OwnershipTrack(c.ownership[i])]
(* The trace builders pack the bytes and order the digests. *)
BuiltTracks(c) ==
  [i \in 1..Len(c.intent) |-> IntentTrack(c.intent[i], Pack(c.intent[i].bytes))]
    \o (IF c.values = <<>> THEN <<>>
        ELSE [i \in 1..NoteCount |-> NoteTrack(c.values[1], i, Pack(c.values[1].notes[i]))])
    \o [i \in 1..Len(c.ownership) |-> OwnershipBuilt(c.ownership[i])]

TransferStatic(c) ==
  /\ \A i \in DOMAIN c.values : ValueStatic(c.values[i])
  /\ \A i \in DOMAIN c.intent : IntentStatic(c.intent[i]) /\ OutputsBound(c.intent[i], c.values[1])
  /\ c.intent # <<>> /\ c.ownership # <<>> => InputBound(c.ownership[1], c.values[1])
  /\ \A i \in DOMAIN c.ownership : OwnershipStatic(c.ownership[i])
(* The verifier of an intent takes the asset from it. *)
VerifierAgrees(c) == \A i \in DOMAIN c.intent : c.values[1].asset = IntentAsset(c.intent[i])

(***************************************************************************)
(* The provers.  An honest claim of a note that is another's is not one.   *)
(***************************************************************************)
ClaimOf(shape, values, intent, ownership) ==
  [shape |-> shape, honest |-> \A i \in DOMAIN ownership : OwnsNote(ownership[i]),
   values |-> values, intent |-> intent, ownership |-> ownership]

IntentBytesOf(asset, outputs) == <<0>> \o asset \o WriteDigest(outputs[1]) \o WriteDigest(outputs[2])
IntentOf(bytes) == [bytes |-> bytes, elements |-> Pack(bytes), digest |-> Sponge(IV["intent"], Pack(bytes))]
OutputsOf(v) == <<v.commitments[3], v.commitments[4]>>

ProvenValues == UNION {ProveValue(notes, asset) : notes \in Transfers, asset \in Assets}
ProvenBoundValues(proven) ==
  UNION {ProveBoundValue(v.notes, v.asset, outputs) :
           v \in proven, outputs \in {OutputsOf(w) : w \in proven}}
(* prove_p24_intent_value_conservation takes the asset of the intent; the  *)
(* outputs are compared by the circuit alone.                              *)
ProvenIntentValues(proven) ==
  {[intent |-> IntentOf(IntentBytesOf(v.asset, outputs)), values |-> v,
    honest |-> outputs = OutputsOf(v)] :
     v \in proven, outputs \in {OutputsOf(w) : w \in proven}}
ProvenOwnerships(proven) ==
  UNION {ProveOwnership(key, v.notes[1], position, siblings) :
           key \in Keys, v \in proven, position \in Positions, siblings \in Siblings}
ProvenBoundOwnerships(proven) ==
  UNION {ProveBoundOwnership(key, v.notes[1], position, siblings, v.commitments[1]) :
           key \in Keys, v \in proven, position \in Positions, siblings \in Siblings}

Proved(proven, intents, owned) ==
  {ClaimOf("value", <<v>>, <<>>, <<>>) : v \in proven}
    \cup {ClaimOf("bound_value", <<v>>, <<>>, <<>>) : v \in ProvenBoundValues(proven)}
    \cup {[ClaimOf("intent_value", <<p.values>>, <<p.intent>>, <<>>) EXCEPT !.honest = p.honest] :
            p \in intents}
    \cup {ClaimOf("ownership", <<>>, <<>>, <<o>>) : o \in owned}
    \cup {ClaimOf("bound_ownership", <<>>, <<>>, <<o>>) : o \in ProvenBoundOwnerships(proven)}
    \cup UNION {{ClaimOf("first_ownership", <<p.values>>, <<p.intent>>, <<o>>) :
                   o \in {w \in owned : w.note = p.values.notes[1]}} :
                p \in {q \in intents : q.honest}}

(***************************************************************************)
(* Other claims: notes that the prover would refuse, digests and columns   *)
(* that differ in one place, a note of another owner, and a nullifier or a *)
(* path for other columns.                                                 *)
(***************************************************************************)
UncheckedValues ==
  {ValueOf(notes, asset, Commitments(notes), FALSE, <<>>) : notes \in Transfers, asset \in Assets}
AlteredValues(v) ==
  {[v EXCEPT !.commitments[i] = d] : i \in {1, 4}, d \in UNION {Near(v.commitments[j]) : j \in {1, 4}}}
    \cup {[v EXCEPT !.notes[1] = n] : n \in Shifted(v.notes[1])}
    \cup {[v EXCEPT !.bound = TRUE, !.outputs = <<d, v.commitments[4]>>] : d \in Near(v.commitments[3])}

NullifierFor(o) ==
  Sponge(IV["nullifier"], Pack(NullifierPreimage(o.key, RhoOf(o.note), o.commitment, o.position)))
FitNullifier(o) == [o EXCEPT !.nullifier = NullifierFor(o)]
AlteredOwnership(o) ==
  {[o EXCEPT !.nullifier = d] : d \in Near(o.nullifier)}
    \cup {[o EXCEPT !.root = d] : d \in Near(o.root)}
    \cup {[o EXCEPT !.recipient = d] : d \in Near(o.recipient)}
    \cup {FitNullifier([o EXCEPT !.commitment = b]) :
            b \in Near(o.commitment) \cup PlusPrime(o.commitment)}
    \cup {FitNullifier([o EXCEPT !.position = WritePosition(p)]) : p \in Positions}
    \cup {[o EXCEPT !.bound = TRUE, !.expected = d] : d \in Near(o.digest)}

Dishonest(c) == [c EXCEPT !.honest = FALSE]
Altered(c) ==
  {Dishonest([c EXCEPT !.values[1] = v]) : v \in UNION {AlteredValues(c.values[i]) : i \in DOMAIN c.values}}
    \cup {Dishonest([c EXCEPT !.intent[1].digest = d]) :
            d \in UNION {Near(c.intent[i].digest) : i \in DOMAIN c.intent}}
    \cup {Dishonest([c EXCEPT !.ownership[1] = o]) :
            o \in UNION {AlteredOwnership(c.ownership[i]) : i \in DOMAIN c.ownership}}
ClaimsFrom(proven, intents, owned) ==
  (UNION {{c} \cup Altered(c) : c \in Proved(proven, intents, owned)})
    \cup {Dishonest(ClaimOf("value", <<v>>, <<>>, <<>>)) : v \in UncheckedValues}
    \cup {Dishonest(ClaimOf("first_ownership", <<p.values>>, <<p.intent>>, <<o>>)) :
            p \in intents, o \in owned}
TransferClaims ==
  UNION {ClaimsFrom(proven, ProvenIntentValues(proven), ProvenOwnerships(proven)) :
           proven \in {ProvenValues}}

IntentRelation(intent, v) ==
  /\ HashIntent(intent.bytes) = {intent.digest}
  /\ v.asset = IntentAsset(intent)
  /\ \A i \in OutputNotes : \E d \in HashNote(v.notes[i]) : OutputSlot(intent, i) = WriteDigest(d)

(* The same value goes in and out of notes of one asset, the outputs are   *)
(* those of the intent, the owned note is the first input, and the         *)
(* nullifier and the root are those of that note, at one position.         *)
TransferRelation(c) ==
  /\ \A i \in DOMAIN c.values : ValueRelation(c.values[i])
  /\ \A i \in DOMAIN c.intent : IntentRelation(c.intent[i], c.values[1])
  /\ \A i \in DOMAIN c.ownership :
       /\ OwnershipRelation(c.ownership[i])
       /\ c.intent # <<>> => HashNote(c.ownership[i].note) = {c.values[1].commitments[1]}
TransferDocumented(c) ==
  /\ \A i \in DOMAIN c.values : SumsFit(c.values[i])
  /\ \A i \in DOMAIN c.ownership : CanonicalOwnership(c.ownership[i])
=============================================================================
