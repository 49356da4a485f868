---------------------------- MODULE CometBootstrap ----------------------------
(***************************************************************************)
(* The operators of two systems start one network: a Noxis configuration   *)
(* is written with validators in any order and under any ids, and CometBFT *)
(* announces its own genesis document to the application in InitChain.     *)
(***************************************************************************)
EXTENDS CometGenesis

CONSTANTS Keys,         \* public keys, sequences of bytes
          Powers,
          InitialHeights,
          MaxDocument   \* bound on the validators of the document

VARIABLES config,       \* the validators of the Noxis configuration, as written
          genesis,      \* the set with the CometBftGenesis, empty when refused
          document,     \* the validators of the engine's genesis document
          accepted      \* whether the last InitChain was accepted

vars == <<config, genesis, document, accepted>>

Identity(initial) ==
  [chain |-> "chain", initial |-> initial, parameters |-> "parameters", compatible |-> TRUE]

Init ==
  /\ \E initial \in InitialHeights :
       /\ config = [initial |-> initial, validators |-> <<>>]
       /\ genesis = UNION {FromConsensusConfig(Identity(initial), set) : set \in ValidatorSet(<<>>)}
  /\ document = <<>> /\ accepted = FALSE

(* The Noxis operator adds a validator to the configuration. *)
Configure ==
  /\ Len(config.validators) < MAX_VALIDATORS /\ document = <<>>
  /\ \E key \in Keys, power \in Powers, id \in 1 .. MAX_VALIDATORS :
       \E v \in Validator(id, power, [scheme |-> 1, bytes |-> key]) :
         LET list == Append(config.validators, v) IN
         /\ config' = [config EXCEPT !.validators = list]
         /\ genesis' = UNION {FromConsensusConfig(Identity(config.initial), set) :
                                set \in ValidatorSet(list)}
  /\ UNCHANGED <<document, accepted>>

(* The engine's operator adds one to the genesis document. *)
Document ==
  /\ genesis # {} /\ Len(document) <= Len(config.validators)
  /\ Len(document) < MaxDocument
  /\ \E key \in Keys, power \in Powers : document' = Append(document, [key |-> key, power |-> power])
  /\ \E g \in genesis :
       accepted' = InitChainAccepts(g, [chain |-> "chain", initial |-> config.initial,
                                        parameters |-> "parameters", validators |-> document'])
  /\ UNCHANGED <<config, genesis>>

Next == Configure \/ Document
Spec == Init /\ [][Next]_vars

Pairs(list) == {<<v.key, v.power>> : v \in Range(list)}

Distinct(f) == \A i, j \in DOMAIN f : i # j => f[i] # f[j]

(* InitChain is accepted exactly when the engine's document has the        *)
(* validators of the configuration, each once and with its power, in       *)
(* whatever order either was written.  A genesis that holds one key with   *)
(* two powers is never served: no document is accepted for it.             *)
InitChainExact ==
  \A g \in genesis :
    accepted <=> /\ Len(document) = Len(g.validators)
                 /\ Pairs(document) = Pairs(g.validators)
                 /\ Distinct([i \in DOMAIN g.validators |-> g.validators[i].key])

(* What the error of from_noxis_validator_set says that it rules out: two  *)
(* validators of one CometBFT address.                                     *)
AddressesDiffer ==
  \A g \in genesis : Distinct([i \in DOMAIN g.validators |-> g.validators[i].address])

(* The validator set hash that every decision is compared with is the one  *)
(* that CometBFT computes from its own genesis document: an accepted       *)
(* InitChain means that both sides commit to the same list.                *)
EngineHashAgrees ==
  accepted => \A g \in genesis :
    g.hash = CometMerkleRoot(
      LET engine == SortSeq([i \in DOMAIN document |->
            [key |-> document[i].key, power |-> document[i].power,
             address |-> AddressOf(document[i].key)]],
            LAMBDA a, b : a.power > b.power \/ (a.power = b.power /\ a.address < b.address))
      IN  [i \in DOMAIN engine |-> <<engine[i].key, engine[i].power>>])

(* The Merkle root of a list of validators belongs to that list alone: no  *)
(* inner node can be taken for a leaf, and no list for a longer one.       *)
RootsDetermineLists ==
  \A g \in genesis : \A n \in 1 .. Len(g.validators) :
    LET values == [i \in DOMAIN g.validators |-> CometHashBytes(g.validators[i])] IN
    /\ n < Len(values) => CometMerkleRoot(SubSeq(values, 1, n)) # CometMerkleRoot(values)
    /\ n > 1 => CometMerkleRoot(<<<<CometMerkleRoot(SubSeq(values, 1, n - 1)),
                                    CometMerkleRoot(SubSeq(values, n, Len(values)))>>>>)
                  # CometMerkleRoot(values)

(* The two height conversions are inverse to each other wherever both      *)
(* answer, up to the last height of the engine, and only there they stop.  *)
HeightsInverse ==
  \A height \in 1 .. MaxWord :
    LET engine == EngineHeightFor(config.initial, height) IN
    /\ \A h \in engine : NoxisHeight(config.initial, h) = {height}
    /\ engine = {} => config.initial + height - 1 > MaxSigned64

(* The application and the engine start from one genesis: InitChain        *)
(* accepts exactly the configured validators in any order and none for a   *)
(* key that occurs twice, an accepted one has the validator hash of the    *)
(* engine, a hash belongs to one list, and heights convert back and forth. *)
GenesisAgrees == InitChainExact /\ EngineHashAgrees /\ RootsDetermineLists /\ HeightsInverse
=============================================================================
