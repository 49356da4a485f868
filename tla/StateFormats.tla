---------------------------- MODULE StateFormats ----------------------------
(***************************************************************************)
(* The encodings of noxis-consensus (the configuration NXCG, the block     *)
(* header NXBH, the finality certificate NXFC and the CometBFT network     *)
(* identity), whose messages are given to the constructors of Consensus    *)
(* once they have the right layout; the genesis configuration (noxis-      *)
(* config) and the node manifest NXMF that stores it (noxis-runtime); the  *)
(* checkpoint NXCP with its snapshot (noxis-checkpoint, noxis-ledger); and *)
(* the block payload NXBP of the block journal (noxis-storage).            *)
(***************************************************************************)
EXTENDS Formats, CometGenesis

CONSTANTS MAX_CHAIN_ID_LENGTH, MAX_COMPATIBILITY_VERSION_LENGTH,
          Graphic               \* cells that are ASCII graphic characters

ZeroId == Id(0)

(***************************************************************************)
(* NXCG.                                                                   *)
(***************************************************************************)
ValidatorLayout ==
  <<Ident, Number(Words), Number(Words), Blob(0 .. MAX_VALIDATOR_PUBLIC_KEY_BYTES)>>
ConfigLayout ==
  <<Exact(Magic("NXCG")), Exact(Num(CONSENSUS_FORMAT_VERSION)), Number(Words), Number(Words),
    Number(Words), Number(Words), Many(0 .. MAX_VALIDATORS, ValidatorLayout)>>

EncodeValidator(validator) ==
  <<Id(validator.id), Num(validator.power), Num(validator.key.scheme)>>
    \o Prefixed(validator.key.bytes)

EncodeConsensusConfig(config) ==
  <<Magic("NXCG"), Num(CONSENSUS_FORMAT_VERSION), Num(config.version), Num(config.records),
    Num(config.bytes), Num(config.byzantine), Num(Len(config.set.validators))>>
    \o Joined(EncodeValidator, config.set.validators)

DecodeValidator(v) ==
  UNION {Validator(v[1], v[2], key) : key \in VerificationKey(v[3], v[4])}

(* All of the results, or none when one of them is missing. *)
Every(results) ==
  IF \E i \in DOMAIN results : results[i] = {} THEN {}
  ELSE {[i \in DOMAIN results |-> CHOOSE x \in results[i] : TRUE]}

(* The validators must already be in their order: FromCanonical sorts      *)
(* nothing.                                                                *)
DecodeConsensusConfig(cells) ==
  UNION {UNION {UNION {ConsensusConfig(v[3], v[4], v[5], v[6], set) : set \in FromCanonical(list)} :
                  list \in Every([i \in DOMAIN v[7] |-> DecodeValidator(v[7][i])])} :
           v \in Read(ConfigLayout, cells)}

(***************************************************************************)
(* NXBH.                                                                   *)
(***************************************************************************)
HeaderLayout ==
  <<Exact(Magic("NXBH")), Exact(Num(CONSENSUS_FORMAT_VERSION)), Number(Words), Cell, Cell, Cell,
    Cell, Number(Words), Number(Words), Number(Words), Number({0, 1}), Cell, Cell, Cell,
    Number(Words), Number(Words), Cell>>

EncodeBlockHeader(header) ==
  LET h == header.input IN
  <<Magic("NXBH"), Num(CONSENSUS_FORMAT_VERSION), Num(h.version), h.genesis, h.context, h.config,
    h.set, Num(h.height), Num(h.epoch), Num(h.round)>>
    \o (IF h.parent = {} THEN <<Num(0), ZeroId>> ELSE <<Num(1), CHOOSE p \in h.parent : TRUE>>)
    \o <<h.previous, h.resulting, Num(h.first), Num(h.count), h.records>>

HeaderOf(v) ==
  BlockHeader([version |-> v[3], genesis |-> v[4], context |-> v[5], config |-> v[6],
               set |-> v[7], height |-> v[8], epoch |-> v[9], round |-> v[10],
               parent |-> IF v[11] = 0 THEN {} ELSE {v[12]}, previous |-> v[13],
               resulting |-> v[14], first |-> v[15], count |-> v[16], records |-> v[17]])

(* A header without a parent has zeros in the place of one. *)
DecodeBlockHeader(cells) ==
  UNION {HeaderOf(v) : v \in {v \in Read(HeaderLayout, cells) : v[11] = 0 => v[12] = ZeroId}}

(***************************************************************************)
(* NXFC.                                                                   *)
(***************************************************************************)
TargetLayout == Times(4, Cell) \o Times(3, Number(Words)) \o <<Cell>>
CertificateLayout ==
  <<Exact(Magic("NXFC")), Exact(Num(CONSENSUS_FORMAT_VERSION))>> \o TargetLayout
    \o <<Many(0 .. MAX_VALIDATORS, <<Ident, Blob(0 .. MAX_SIGNATURE_BYTES)>>)>>

EncodeTarget(t) ==
  <<t.genesis, t.context, t.config, t.set, Num(t.height), Num(t.epoch), Num(t.round), t.block>>

EncodeVote(vote) == <<Id(vote.validator)>> \o Prefixed(vote.signature)

EncodeFinalityCertificate(certificate) ==
  <<Magic("NXFC"), Num(CONSENSUS_FORMAT_VERSION)>> \o EncodeTarget(certificate.target)
    \o <<Num(Len(certificate.votes))>> \o Joined(EncodeVote, certificate.votes)

(* FinalityTarget::new refuses height zero. *)
DecodeTarget(v) ==
  Result(v[5] # 0,
         [genesis |-> v[1], context |-> v[2], config |-> v[3], set |-> v[4], height |-> v[5],
          epoch |-> v[6], round |-> v[7], block |-> v[8]])

DecodeFinalityCertificate(cells) ==
  UNION {UNION {UNION {CertificateFromCanonical(target, votes) :
                         target \in DecodeTarget(SubSeq(v, 3, 10))} :
                  votes \in Every([i \in DOMAIN v[11] |->
                                     VoteEvidence(v[11][i][1], v[11][i][2], Len(v[11][i][2]))])} :
           v \in Read(CertificateLayout, cells)}

(***************************************************************************)
(* The network identity.                                                   *)
(***************************************************************************)
IdentityLayout ==
  <<Exact(Num(1)), Blob(1 .. MAX_CHAIN_ID_LENGTH), Number(1 .. MaxSigned64),
    Blob(1 .. MAX_COMPATIBILITY_VERSION_LENGTH), Cell>>

ValidateLabel(label) == Range(label) \subseteq Graphic

EncodeIdentity(identity) ==
  <<Num(1)>> \o Prefixed(identity.chain) \o <<Num(identity.initial)>>
    \o Prefixed(identity.version) \o <<identity.parameters>>

DecodeIdentity(cells) ==
  {identity \in {[chain |-> v[2], initial |-> v[3], version |-> v[4], parameters |-> v[5]] :
                   v \in Read(IdentityLayout, cells)} :
   /\ ValidateLabel(identity.chain)
   /\ ValidateLabel(identity.version)
   /\ EncodeIdentity(identity) = cells}

CONSTANTS MAX_TICKER_BYTES, Uppercase,
          MAX_TREE_DEPTH,
          MAX_GENESIS_CONSENSUS_CONFIG_BYTES,
          MAX_IDENTITY_BYTES,
          MAX_MANIFEST_ASSETS,
          MAX_SNAPSHOT_BYTES, MAX_SNAPSHOT_ASSETS, MAX_SNAPSHOT_IDENTIFIERS,
          BLOCK_HEADER_MAXIMUM_LENGTH, MAX_ENCODED_RECORD_LENGTH,
          PINNED_VERSION                 \* the engine version the node is built for

(***************************************************************************)
(* Assets and the genesis.                                                 *)
(***************************************************************************)
AssetDefinition(id, kind, ticker) ==
  Result(Len(ticker) \in 1 .. MAX_TICKER_BYTES /\ Range(ticker) \subseteq Uppercase,
         [id |-> id, kind |-> kind, ticker |-> ticker])

EncodeAsset(asset) == <<Id(asset.id), Num(asset.kind)>> \o Prefixed(asset.ticker)
AssetLayout(lengths) == <<Ident, Number({1, 2}), Blob(lengths)>>
DecodeAssets(groups) ==
  Every([i \in DOMAIN groups |-> AssetDefinition(groups[i][1], groups[i][2], groups[i][3])])

AssetIds(assets) == {assets[i].id : i \in DOMAIN assets}
SortAssets(assets) == SortSeq(assets, LAMBDA a, b : a.id < b.id)

CometGenesisFor(identity, config) ==
  FromConsensusConfig([compatible |-> identity.version = PINNED_VERSION] @@ identity, config.set)

(* GenesisConfig::new_inner; identity is the set of at most one identity.  *)
GenesisConfig(depth, assets, context, config, identity) ==
  LET comet == UNION {CometGenesisFor(i, config) : i \in identity} IN
  Result(/\ depth \in 1 .. MAX_TREE_DEPTH
         /\ Cardinality(AssetIds(assets)) = Len(assets)
         /\ ValidateSuite(context.suite)
         /\ Len(EncodeConsensusConfig(config)) <= MAX_GENESIS_CONSENSUS_CONFIG_BYTES
         /\ identity # {} => comet # {},
         [depth |-> depth, assets |-> SortAssets(assets), context |-> context,
          config |-> config, identity |-> identity,
          hash |-> {g.hash : g \in comet}])

(* What a genesis identifier commits to. *)
GenesisId(genesis) ==
  Sha256("GENESIS-ID",
    <<Num(5), Num(5)>> \o EncodeContext(genesis.context)
      \o Prefixed(EncodeConsensusConfig(genesis.config))
      \o (IF genesis.identity = {} THEN <<Num(0)>>
          ELSE <<Num(1)>> \o Prefixed(EncodeIdentity(CHOOSE i \in genesis.identity : TRUE))
                 \o <<CHOOSE h \in genesis.hash : TRUE>>)
      \o <<Num(genesis.depth), Num(Len(genesis.assets))>>
      \o Joined(EncodeAsset, genesis.assets))

(***************************************************************************)
(* NXMF.                                                                   *)
(***************************************************************************)
Manifest(genesis, mode) ==
  Result(/\ Len(genesis.assets) <= MAX_MANIFEST_ASSETS
         /\ Len(EncodeConsensusConfig(genesis.config)) <= MAX_GENESIS_CONSENSUS_CONFIG_BYTES,
         [genesis |-> genesis, id |-> GenesisId(genesis), mode |-> mode])

EncodeManifest(manifest) ==
  LET g == manifest.genesis IN
  <<Magic("NXMF"), Num(7), manifest.id, Num(manifest.mode)>> \o EncodeContext(g.context)
    \o Prefixed(EncodeConsensusConfig(g.config))
    \o (IF g.identity = {} THEN <<Num(0)>>
        ELSE <<Num(1)>> \o Prefixed(EncodeIdentity(CHOOSE i \in g.identity : TRUE)))
    \o <<Num(g.depth), Num(Len(g.assets))>> \o Joined(EncodeAsset, g.assets)

ManifestLayout ==
  <<Exact(Magic("NXMF")), Exact(Num(7)), Cell, Number({1, 2})>> \o Times(7, Cell)
    \o <<Blob(0 .. MAX_GENESIS_CONSENSUS_CONFIG_BYTES),
         Choice([tag \in {0, 1} |-> IF tag = 0 THEN <<>> ELSE <<Blob(0 .. MAX_IDENTITY_BYTES)>>]),
         Number(Words), Many(0 .. MAX_MANIFEST_ASSETS, AssetLayout(Words))>>

(* The genesis that the fields of a manifest describe. *)
GenesisOf(v) ==
  LET identities == IF v[13][1] = 0 THEN {{}} ELSE {{i} : i \in DecodeIdentity(v[13][2])} IN
  UNION {GenesisConfig(v[14], assets, context, config, identity) :
           assets \in DecodeAssets(v[15]), context \in DecodeContext(SubSeq(v, 5, 11)),
           config \in DecodeConsensusConfig(v[12]), identity \in identities}

(* The stored identifier is recomputed, and the whole manifest written     *)
(* back: assets in another order give the same genesis and are refused     *)
(* there.                                                                  *)
DecodeManifest(cells) ==
  UNION {{manifest \in {[genesis |-> genesis, id |-> v[3], mode |-> v[4]] :
                          genesis \in {g \in GenesisOf(v) : GenesisId(g) = v[3]}} :
            EncodeManifest(manifest) = cells} :
           v \in Read(ManifestLayout, cells)}

SealManifest(cells) ==
  UNION {{[cells EXCEPT ![3] = GenesisId(g)] : g \in GenesisOf(v)} : v \in Read(ManifestLayout, cells)}

(***************************************************************************)
(* NXCP.                                                                   *)
(***************************************************************************)

(* LedgerSnapshot::from_canonical_parts: sets and maps sorted, commitments *)
(* in tree order, supply only for registered assets.                       *)
Snapshot(depth, assets, commitments, nullifiers, supply, accepted) ==
  Result(/\ Rising([i \in DOMAIN assets |-> assets[i].id])
         /\ depth \in 1 .. MAX_TREE_DEPTH
         /\ Cardinality(Range(commitments)) = Len(commitments)
         /\ Len(commitments) <= 2 ^ depth
         /\ Rising(nullifiers)
         /\ Rising(accepted)
         /\ Rising(Firsts(supply))
         /\ Range(Firsts(supply)) \subseteq AssetIds(assets),
         [depth |-> depth, assets |-> assets, commitments |-> commitments,
          nullifiers |-> nullifiers, supply |-> supply, accepted |-> accepted])

EncodeSupply(entry) == <<Id(entry[1]), Num(entry[2])>>

EncodeSnapshot(s) ==
  <<Num(s.depth), Num(Len(s.assets))>> \o Joined(EncodeAsset, s.assets)
    \o WriteIdentifiers(s.commitments) \o WriteIdentifiers(s.nullifiers)
    \o <<Num(Len(s.supply))>> \o Joined(EncodeSupply, s.supply) \o WriteIdentifiers(s.accepted)

Identifiers == Many(0 .. MAX_SNAPSHOT_IDENTIFIERS, <<Ident>>)
SnapshotLayout ==
  <<Number(Words), Many(0 .. MAX_SNAPSHOT_ASSETS, AssetLayout(0 .. MAX_TICKER_BYTES)),
    Identifiers, Identifiers, Many(0 .. MAX_SNAPSHOT_ASSETS, <<Ident, Number(Words \ {0})>>),
    Identifiers>>

DecodeSnapshot(cells) ==
  UNION {UNION {Snapshot(v[1], assets, Firsts(v[3]), Firsts(v[4]), v[5], Firsts(v[6])) :
                  assets \in DecodeAssets(v[2])} :
           v \in Read(SnapshotLayout, cells)}

(* LedgerState::state_id of the state that a snapshot describes: the root  *)
(* over the commitments stands for the commitments in their order.         *)
StateId(genesis, s) ==
  Sha256("STATE", <<genesis, Num(s.depth), Sha256("ROOT", Ids(s.commitments)), Num(Len(s.assets))>>
    \o Joined(EncodeAsset, s.assets) \o <<Num(Len(s.supply))>> \o Joined(EncodeSupply, s.supply)
    \o WriteIdentifiers(s.nullifiers) \o WriteIdentifiers(s.accepted))

(* Checkpoint::from_snapshot *)
Checkpoint(genesis, context, sequence, record, snapshot) ==
  Result(/\ sequence # 0
         /\ Len(snapshot.accepted) = sequence
         /\ Len(snapshot.assets) <= MAX_SNAPSHOT_ASSETS
         /\ Len(snapshot.supply) <= MAX_SNAPSHOT_ASSETS
         /\ \A list \in {snapshot.commitments, snapshot.nullifiers, snapshot.accepted} :
              Len(list) <= MAX_SNAPSHOT_IDENTIFIERS,
         [genesis |-> genesis, context |-> context, sequence |-> sequence,
          state |-> StateId(genesis, snapshot), record |-> record, snapshot |-> snapshot])

WithTrailingHash(cells) == Append(cells, Sha256("CHECKPOINT", cells))

EncodeCheckpoint(c) ==
  LET bytes == EncodeSnapshot(c.snapshot) IN
  WithTrailingHash(<<Magic("NXCP"), Num(1), Num(1), c.genesis, c.context, Num(c.sequence), c.state,
                     c.record, Num(Len(bytes)), Sha256("SNAPSHOT", bytes)>> \o bytes)

CheckpointHeader ==
  <<Exact(Magic("NXCP")), Exact(Num(1)), Exact(Num(1)), Cell, Cell, Number(Words \ {0}), Cell, Cell,
    Number(0 .. MAX_SNAPSHOT_BYTES), Cell>>

(* The trailing hash first, then the header, the hash and the contents of  *)
(* the snapshot, and the state it describes.                               *)
DecodeCheckpoint(cells) ==
  LET body == SubSeq(cells, 1, Len(cells) - 1)
      candidates ==
        UNION {UNION {{c \in Checkpoint(h.value[4], h.value[5], h.value[6], h.value[8], snapshot) :
                         c.state = h.value[7]} :
                        snapshot \in DecodeSnapshot(h.rest)} :
                 h \in {h \in ReadLayout(CheckpointHeader, body) :
                          /\ Len(h.rest) = h.value[9]
                          /\ h.value[10] = Sha256("SNAPSHOT", h.rest)}}
  IN  IF cells = <<>> \/ cells # WithTrailingHash(body) THEN {}
      ELSE {c \in candidates : EncodeCheckpoint(c) = cells}

(* Another writer digests the snapshot and the whole, over its own fields. *)
SealCheckpoint(cells) ==
  LET body == SubSeq(cells, 1, Len(cells) - 1) IN
  UNION {{WithTrailingHash([body EXCEPT ![7] = StateId(h.value[4], s),
                                        ![10] = Sha256("SNAPSHOT", h.rest)]) :
            s \in DecodeSnapshot(h.rest)} :
           h \in ReadLayout(CheckpointHeader, body)}

(***************************************************************************)
(* NXBP.                                                                   *)
(***************************************************************************)

(* The records of a block agree with its header and with each other. *)
ValidateBlock(header, records) ==
  LET h == header.input
      hashes == [i \in DOMAIN records |-> records[i].hash]
  IN  /\ ValidateRecordHashes(header, hashes)
      /\ records = <<>> => h.previous = h.resulting
      /\ records # <<>> =>
           /\ records[1].sequence = h.first
           /\ records[1].previous = h.previous
           /\ records[Len(records)].resulting = h.resulting
      /\ \A i \in 2 .. Len(records) :
           /\ records[i].sequence = records[i - 1].sequence + 1
           /\ records[i].previous = records[i - 1].resulting

StoredBlock(header, app, decision, records) ==
  Result(ValidateBlock(header, records),
         [header |-> header, app |-> app, decision |-> decision, records |-> records])

FromPersisted(network, height, block, next) ==
  Result(network # ZeroId /\ height > 0 /\ block # ZeroId /\ next # ZeroId,
         [network |-> network, height |-> height, block |-> block, next |-> next])

EncodePayload(b) ==
  LET EncodedRecord(record) == Prefixed(EncodeRecord(record)) IN
  <<Magic("NXBP"), Num(2)>> \o Prefixed(EncodeBlockHeader(b.header))
    \o <<b.app, b.decision.network, Num(b.decision.height), b.decision.block, b.decision.next,
         Num(Len(b.records))>>
    \o Joined(EncodedRecord, b.records)

PayloadLayout ==
  <<Exact(Magic("NXBP")), Exact(Num(2)), Blob(0 .. BLOCK_HEADER_MAXIMUM_LENGTH), Cell, Cell,
    Number(Words), Cell, Cell,
    Many(0 .. MAX_BLOCK_RECORDS, <<Blob(0 .. MAX_ENCODED_RECORD_LENGTH)>>)>>

DecodePayload(cells) ==
  UNION {UNION {StoredBlock(header, v[4], decision, records) :
                  header \in {h \in DecodeBlockHeader(v[3]) : EncodeBlockHeader(h) = v[3]},
                  decision \in FromPersisted(v[5], v[6], v[7], v[8]),
                  records \in Every([i \in DOMAIN v[9] |->
                                {r \in DecodeRecord(v[9][i][1]) : EncodeRecord(r) = v[9][i][1]}])} :
           v \in Read(PayloadLayout, cells)}

(***************************************************************************)
(* What happens to a message between its encoder and a decoder.  A value   *)
(* is encoded; storage or transport then replaces, drops, repeats or swaps *)
(* fields or cuts the message short; and a different implementation may    *)
(* write the fields its own way and put fresh digests and checksums over   *)
(* them.  A decoder is then given the result.  The values are small ones   *)
(* of each public format of a node.                                        *)
(***************************************************************************)
A == <<"char", "A">>
Hash(text) == <<"hash", text>>
StateHash(n) == <<"state", n>>

Names == {"NOXT", "NXPT", "NXRC", "NXCG", "NXBH", "NXFC", "NXMF", "NXCP", "NXBP"}
Sealed == {"NXRC", "NXCP", "NXMF"}

Suite(hash) == [version |-> 1, algorithms |-> <<hash, "mlkem", "mldsa", "proof">>]
TransferOf(nullifiers, commitments) ==
  [id |-> Id(7), suite |-> Suite("sha256"),
   operation |-> [tag |-> OPERATION_TRANSFER, asset |-> Id(1), nullifiers |-> nullifiers,
                  commitments |-> commitments, version |-> 1, envelope |-> <<Num(9)>>]]
MintOf(amount) ==
  [id |-> Id(8), suite |-> Suite("sha3"),
   operation |-> [tag |-> OPERATION_MINT, asset |-> Id(1), amount |-> amount,
                  commitments |-> <<1>>, envelope |-> <<>>]]
Transactions ==
  {TransferOf(<<1>>, <<2>>), TransferOf(<<1, 2>>, <<3>>), TransferOf(<<1>>, <<2, 3>>),
   MintOf(1), MintOf(2)}

Packet ==
  [intent |-> [circuit |-> Hash("c"), genesis |-> Hash("g"), context |-> Hash("x"),
               state |-> Hash("s"), tree |-> Hash("t"), root |-> 1, asset |-> Id(1),
               nullifiers |-> <<1, 2>>, commitments |-> <<1, 2>>, digests |-> <<2, 1>>],
   envelopes |-> <<<<Num(1)>>, <<Num(1), Num(2)>>>>, proof |-> <<Num(2)>>]

RecordsOf(sequence, previous, resulting) ==
  TransactionRecord(sequence, previous, EncodeTransaction(TransferOf(<<sequence>>, <<sequence>>)),
                    resulting)
TheRecord(n) == CHOOSE r \in RecordsOf(n, StateHash(n), StateHash(n + 1)) : TRUE

Key(n) == <<Id(n)>>
TheValidator(n) == [id |-> n, power |-> 1, key |-> [scheme |-> 1, bytes |-> Key(n)]]
Config(n) ==
  UNION {ConsensusConfig(1, 2, 2, 0, set) :
           set \in ValidatorSet([i \in 1 .. n |-> TheValidator(i)])}
TheConfig(n) == CHOOSE c \in Config(n) : TRUE

HeaderWith(height, parent, previous, resulting, records) ==
  CHOOSE h \in BlockHeader(
    [version |-> 1, genesis |-> Hash("g"), context |-> Hash("x"), config |-> Hash("f"),
     set |-> Hash("v"), height |-> height, epoch |-> 0, round |-> 0, parent |-> parent,
     previous |-> previous, resulting |-> resulting, first |-> 1, count |-> Len(records),
     records |-> RecordCommitment([i \in DOMAIN records |-> records[i].hash])]) : TRUE

Certificate ==
  FinalityCertificate(FinalityTarget(HeaderWith(2, {Hash("p")}, StateHash(1), StateHash(1), <<>>)),
                      <<[validator |-> 2, signature |-> <<Num(1)>>],
                        [validator |-> 1, signature |-> <<Num(1), Num(2)>>]>>)

SampleAsset(id) == CHOOSE a \in AssetDefinition(id, id, <<A>>) : TRUE
Context == [suite |-> Suite("sha3"), verifier |-> Hash("v"), policy |-> Hash("p")]
Identity == [chain |-> <<A, <<"char", "-">>>>, initial |-> 1, version |-> <<A>>,
             parameters |-> Hash("q")]
Genesis(assets, identity) == GenesisConfig(2, assets, Context, TheConfig(2), identity)
Manifests ==
  UNION {Manifest(g, 1) : g \in Genesis(<<SampleAsset(2), SampleAsset(1)>>, {})}
    \cup UNION {Manifest(g, 2) : g \in Genesis(<<SampleAsset(1)>>, {Identity})}

Checkpoints ==
  UNION {Checkpoint(Hash("g"), Hash("x"), 2, Hash("r"), s) :
           s \in Snapshot(2, <<SampleAsset(1), SampleAsset(2)>>, <<2, 1>>, <<1, 2>>, <<<<1, 1>>, <<2, 2>>>>,
                          <<1, 2>>)}

BlockOf(records) ==
  StoredBlock(HeaderWith(2, {Hash("p")}, StateHash(1), StateHash(Len(records) + 1), records), Hash("a"),
              [network |-> Hash("n"), height |-> 2, block |-> Hash("b"), next |-> Hash("v")], records)

Values(format) ==
  CASE format = "NOXT" -> Transactions
    [] format = "NXPT" -> {Packet}
    [] format = "NXRC" -> {TheRecord(1)}
    [] format = "NXCG" -> Config(1) \cup Config(2)
    [] format = "NXBH" -> {HeaderWith(1, {}, StateHash(1), StateHash(1), <<>>),
                           HeaderWith(2, {Hash("p")}, StateHash(1), StateHash(2), <<TheRecord(1)>>)}
    [] format = "NXFC" -> Certificate
    [] format = "NXMF" -> Manifests
    [] format = "NXCP" -> Checkpoints
    [] format = "NXBP" -> BlockOf(<<>>) \cup BlockOf(<<TheRecord(1), TheRecord(2)>>)

Encode(format, v) ==
  CASE format = "NOXT" -> EncodeTransaction(v)
    [] format = "NXPT" -> EncodePrivateTransfer(v)
    [] format = "NXRC" -> EncodeRecord(v)
    [] format = "NXCG" -> EncodeConsensusConfig(v)
    [] format = "NXBH" -> EncodeBlockHeader(v)
    [] format = "NXFC" -> EncodeFinalityCertificate(v)
    [] format = "NXMF" -> EncodeManifest(v)
    [] format = "NXCP" -> EncodeCheckpoint(v)
    [] format = "NXBP" -> EncodePayload(v)

Decode(format, message) ==
  CASE format = "NOXT" -> DecodeTransaction(message)
    [] format = "NXPT" -> DecodePrivateTransfer(message)
    [] format = "NXRC" -> DecodeRecord(message)
    [] format = "NXCG" -> DecodeConsensusConfig(message)
    [] format = "NXBH" -> DecodeBlockHeader(message)
    [] format = "NXFC" -> DecodeFinalityCertificate(message)
    [] format = "NXMF" -> DecodeManifest(message)
    [] format = "NXCP" -> DecodeCheckpoint(message)
    [] format = "NXBP" -> DecodePayload(message)

(* A message that no longer has the layout of its format stays as it is. *)
Seal(format, message) ==
  LET rewritten == CASE format = "NXRC" -> SealRecord(message)
                     [] format = "NXCP" -> SealCheckpoint(message)
                     [] format = "NXMF" -> SealManifest(message)
  IN  IF rewritten = {} THEN message ELSE CHOOSE m \in rewritten : TRUE

(* The genesis identifier in a manifest says nothing of the storage mode.  *)
Covered(format, v) == IF format = "NXMF" THEN v.genesis ELSE v

Alphabet == {Num(0), Num(1), Num(2), Num(3), Num(WordMax), Id(0), Id(1), Id(3), Hash("other")}
(* Two edits of the shortest messages, one of the others. *)
MaxEdits(format, v) ==
  IF format = "NOXT" /\ v \in {TransferOf(<<1>>, <<2>>), MintOf(1)} THEN 2 ELSE 1

VARIABLES name, value, cells, edits, resealed
vars == <<name, value, cells, edits, resealed>>

Init ==
  /\ name \in Names
  /\ value \in Values(name)
  /\ cells = Encode(name, value)
  /\ edits = 0
  /\ resealed = FALSE

Edited(result) ==
  /\ edits < MaxEdits(name, value)
  /\ ~ resealed
  /\ result # cells
  /\ cells' = result
  /\ edits' = edits + 1
  /\ UNCHANGED <<name, value, resealed>>

Before(i) == SubSeq(cells, 1, i - 1)
From(i) == SubSeq(cells, i, Len(cells))

Replaced == \E i \in DOMAIN cells, c \in Alphabet : Edited([cells EXCEPT ![i] = c])
Dropped == \E i \in DOMAIN cells : Edited(Before(i) \o From(i + 1))
Repeated == \E i \in DOMAIN cells : Edited(Before(i) \o <<cells[i]>> \o From(i))
Swapped == \E i \in DOMAIN cells : i > 1 /\
             Edited([cells EXCEPT ![i - 1] = cells[i], ![i] = cells[i - 1]])
CutShort == \E i \in DOMAIN cells : Edited(Before(i))
Lengthened == \E c \in Alphabet : Edited(Append(cells, c))

(* Another implementation digests what it wrote. *)
Rewritten ==
  /\ edits > 0
  /\ name \in Sealed
  /\ Seal(name, cells) # cells
  /\ cells' = Seal(name, cells)
  /\ resealed' = TRUE
  /\ UNCHANGED <<name, value, edits>>

Next == Replaced \/ Dropped \/ Repeated \/ Swapped \/ CutShort \/ Lengthened \/ Rewritten

Spec == Init /\ [][Next]_vars

(***************************************************************************)
(* Properties.                                                             *)
(***************************************************************************)

(* What an encoder writes, its decoder reads back as the same value. *)
RoundTrip == edits = 0 => Decode(name, cells) = {value}

(* A decoder accepts one encoding of a value: whatever it accepts, the     *)
(* encoder writes back cell by cell, so two nodes never hold two byte      *)
(* strings, and two hashes, of one value.                                  *)
Canonical == \A n \in Names : \A v \in Decode(n, cells) : Encode(n, v) = cells

(* A format that carries digests of its fields refuses every change of     *)
(* what they cover that does not also replace the digests.                 *)
DamageDetected ==
  name \in Sealed /\ ~ resealed =>
    \A v \in Decode(name, cells) : Covered(name, v) = Covered(name, value)

(* What a transaction does, without its identifier and its envelope. *)
Meaning(transaction) ==
  LET op == transaction.operation IN
  <<transaction.suite, op.tag, op.asset, op.commitments,
    IF op.tag = OPERATION_TRANSFER THEN op.nullifiers ELSE <<op.amount>>>>

(* The intent identifier, which proofs and authorizations sign and the     *)
(* record chain stores, is the same for two transactions exactly when they *)
(* do the same: no field can move from one list to the other unnoticed.    *)
IntentBindsMeaning ==
  \A t \in Decode("NOXT", cells), u \in Transactions :
    TransactionIntentId(t) = TransactionIntentId(u) <=> Meaning(t) = Meaning(u)

(* Every message has one value and every value one message: what an        *)
(* encoder writes is read back, nothing else decodes to it, damage to what *)
(* a digest or checksum covers is refused, and an intent id stands for one *)
(* meaning.                                                                *)
FormatsExact == RoundTrip /\ Canonical /\ DamageDetected /\ IntentBindsMeaning
=============================================================================
