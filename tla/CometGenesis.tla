----------------------------- MODULE CometGenesis -----------------------------
(***************************************************************************)
(* How the validators of a Noxis configuration become the initial          *)
(* validators of CometBFT (engine.rs), and how the ABCI server compares    *)
(* the validators that an InitChain request announces with them            *)
(* (server.rs, app.rs).  An address is the hash of a public key cut to 20  *)
(* bytes; AddressOf stands for it and is injective.                        *)
(***************************************************************************)
EXTENDS Consensus, TLC

CONSTANTS MaxSigned64,          \* i64::MAX, scaled down
          MAX_TOTAL_POWER,      \* COMET_BFT_MAX_TOTAL_VOTING_POWER
          KEY_LENGTH,           \* COMET_BFT_ED25519_PUBLIC_KEY_LENGTH
          AddressOf(_)

COMET_BFT_ED25519_SIGNATURE_SCHEME == 1

FromCometEd25519(id, key, power) ==
  Result(power \in 1 .. MAX_TOTAL_POWER,
         [id |-> id, address |-> AddressOf(key), key |-> key, power |-> power])

FromNoxis(validator) ==
  IF /\ validator.key.scheme = COMET_BFT_ED25519_SIGNATURE_SCHEME
     /\ Len(validator.key.bytes) = KEY_LENGTH
     /\ validator.power <= MaxSigned64
  THEN FromCometEd25519(validator.id, validator.key.bytes, validator.power)
  ELSE {}

(* The order of a CometBFT validator set: power down, then address up. *)
CometOrder(a, b) == a.power > b.power \/ (a.power = b.power /\ a.address < b.address)

(* What ValidatorSet.Hash() commits to of one validator. *)
CometHashBytes(validator) == <<validator.key, validator.power>>

Leaf(bytes) == <<"0", bytes>>

Inner(left, right) == <<"1", left, right>>

(* The largest power of two below n, for n > 1. *)
LargestPowerOfTwoBelow(n) ==
  CHOOSE p \in {2 ^ k : k \in 0 .. n} : p < n /\ 2 * p >= n

RECURSIVE CometMerkleHashes(_)
CometMerkleHashes(hashes) ==
  IF Len(hashes) = 1 THEN hashes[1]
  ELSE LET split == LargestPowerOfTwoBelow(Len(hashes))
       IN  Inner(CometMerkleHashes(SubSeq(hashes, 1, split)),
                 CometMerkleHashes(SubSeq(hashes, split + 1, Len(hashes))))

CometMerkleRoot(values) == CometMerkleHashes([i \in DOMAIN values |-> Leaf(values[i])])

(* The duplicate check looks at neighbours in the sorted list only. *)
NeighboursDiffer(list) == \A i \in 2 .. Len(list) : list[i - 1].address # list[i].address

(* CometBftValidatorSet::from_noxis_validator_set *)
FromNoxisValidatorSet(set) ==
  LET mapped == [i \in DOMAIN set.validators |-> FromNoxis(set.validators[i])]
      list == SortSeq([i \in DOMAIN mapped |-> CHOOSE v \in mapped[i] : TRUE], CometOrder)
  IN  IF \E i \in DOMAIN mapped : mapped[i] = {} THEN {}
      ELSE Result(SumOf(Power, list) <= MAX_TOTAL_POWER /\ NeighboursDiffer(list),
                  [validators |-> list,
                   hash |-> CometMerkleRoot([i \in DOMAIN list |-> CometHashBytes(list[i])])])

(* CometBftGenesis::from_consensus_config, for an identity whose           *)
(* compatibility version is the pinned one.                                *)
FromConsensusConfig(identity, set) ==
  {[identity |-> identity, validators |-> comet.validators, hash |-> comet.hash,
    id |-> <<"GENESIS-ID", identity, comet.hash>>] :
     comet \in IF identity.compatible THEN FromNoxisValidatorSet(set) ELSE {}}

(* Heights: Noxis counts from 1, the engine from its initial height. *)
EngineHeightFor(initial, height) ==
  Result(height # 0 /\ height - 1 <= MaxSigned64 /\ initial + height - 1 <= MaxSigned64,
         initial + height - 1)

NoxisHeight(initial, height) ==
  LET relative == height - initial IN
  Result(relative >= 0 - MaxSigned64 - 1 /\ relative + 1 \in 0 .. MaxSigned64, relative + 1)

(* map_init_validators: every update names a validator of the genesis by   *)
(* its key, with its power; then the list takes the engine's order.        *)
FindByKey(genesis, key) ==
  LET found == {i \in DOMAIN genesis.validators : genesis.validators[i].key = key}
  IN  {genesis.validators[i] : i \in {i \in found : \A j \in found : i <= j}}

MapInitValidator(genesis, update) ==
  UNION {IF v.power = update.power THEN FromCometEd25519(v.id, update.key, update.power) ELSE {} :
           v \in FindByKey(genesis, update.key)}

FaultyMapInitValidators(genesis, updates) ==
  LET known == SelectSeq(updates, LAMBDA u : MapInitValidator(genesis, u) # {})
      mapped == [i \in DOMAIN known |-> CHOOSE v \in MapInitValidator(genesis, known[i]) : TRUE]
  IN  {SortSeq(mapped, CometOrder)}

MapInitValidators(genesis, updates) ==
  LET mapped == [i \in DOMAIN updates |-> MapInitValidator(genesis, updates[i])] IN
  Result(\A i \in DOMAIN mapped : mapped[i] # {},
         SortSeq([i \in DOMAIN mapped |-> CHOOSE v \in mapped[i] : TRUE], CometOrder))

(* InitChain: the server's mapping, then the core's comparison. *)
InitChainAccepts(genesis, request) ==
  \E mapped \in MapInitValidators(genesis, request.validators) :
    /\ request.chain = genesis.identity.chain
    /\ request.initial = genesis.identity.initial
    /\ request.parameters = genesis.identity.parameters
    /\ mapped = genesis.validators
=============================================================================
