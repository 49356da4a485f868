------------------------------ MODULE Consensus ------------------------------
(***************************************************************************)
(* The values of noxis-consensus: weighted validator sets, configurations, *)
(* block headers and finality certificates, with the checks of their       *)
(* constructors.  A constructor returns the set of the value it built,     *)
(* which is empty when it refuses.  An identifier that is a SHA-256 digest *)
(* is the tagged tuple of the data it commits to.                          *)
(***************************************************************************)
EXTENDS Lists, FiniteSets

CONSTANTS MaxWord,                     \* u64::MAX, scaled down
          MAX_VALIDATORS,
          MAX_VALIDATOR_PUBLIC_KEY_BYTES,
          MAX_BLOCK_RECORDS,
          MAX_BLOCK_TRANSACTION_BYTES,
          MAX_SIGNATURE_BYTES

CONSENSUS_FORMAT_VERSION == 3
Digest(domain, data) == <<domain, CONSENSUS_FORMAT_VERSION, data>>

Result(condition, value) == IF condition THEN {value} ELSE {}

SumList(numbers) == FoldList(LAMBDA total, n : total + n, 0, numbers)
SumOf(Value(_), list) == SumList([i \in DOMAIN list |-> Value(list[i])])

(* A sort by key, of pairs of a key and an item.  The order of equal keys  *)
(* does not matter: the checks that follow refuse them.                    *)
Insert(sorted, pair) ==
  LET Stays(i) == i \in DOMAIN sorted /\ sorted[i][1] <= pair[1] IN
  [i \in 1 .. Len(sorted) + 1 |->
     IF Stays(i) THEN sorted[i] ELSE IF i = 1 \/ Stays(i - 1) THEN pair ELSE sorted[i - 1]]
SortedPairs(pairs) == FoldList(Insert, <<>>, pairs)
SortedBy(Key(_), list) ==
  LET pairs == SortedPairs([i \in DOMAIN list |-> <<Key(list[i]), list[i]>>]) IN
  [i \in DOMAIN pairs |-> pairs[i][2]]

VerificationKey(scheme, bytes) ==
  Result(scheme # 0 /\ Len(bytes) \in 1 .. MAX_VALIDATOR_PUBLIC_KEY_BYTES,
         [scheme |-> scheme, bytes |-> bytes])

Validator(id, power, key) ==
  Result(power # 0, [id |-> id, power |-> power, key |-> key])

(* Nonempty, within the bound, every power positive, ids strictly rising. *)
ValidateValidators(list) ==
  /\ Len(list) \in 1 .. MAX_VALIDATORS
  /\ \A i \in DOMAIN list : list[i].power # 0
  /\ \A i \in 2 .. Len(list) : list[i - 1].id < list[i].id

Power(validator) == validator.power
FromCanonical(list) ==
  Result(ValidateValidators(list) /\ SumOf(Power, list) <= MaxWord,
         [validators |-> list, total |-> SumOf(Power, list), id |-> Digest("VALIDATOR-SET", list)])

ValidatorSet(list) == FromCanonical(SortedBy(LAMBDA v : v.id, list))

FaultyQuorumVotingPower(total) == (total \div 3) * 2 + ((total % 3) * 2) \div 3

(* More than two thirds of the total, without 2 * total ever being formed. *)
QuorumVotingPower(total) == (total \div 3) * 2 + ((total % 3) * 2) \div 3 + 1

VotingPowerOf(set, id) ==
  {set.validators[i].power : i \in {i \in DOMAIN set.validators : set.validators[i].id = id}}

(* The largest voting power that a configuration may declare Byzantine. *)
ByzantineLimit(total) == (total - 1) \div 3

ConsensusConfig(version, records, bytes, byzantine, set) ==
  Result(/\ version # 0
         /\ records \in 1 .. MAX_BLOCK_RECORDS
         /\ bytes \in 1 .. MAX_BLOCK_TRANSACTION_BYTES
         /\ byzantine <= ByzantineLimit(set.total),
         [version |-> version, records |-> records, bytes |-> bytes,
          byzantine |-> byzantine, set |-> set,
          id |-> Digest("CONFIG", <<version, records, bytes, byzantine, set>>)])

(* The commitment to the record hashes of a block, in their order. *)
RecordCommitment(hashes) == Digest("RECORDS", <<Len(hashes), hashes>>)

(* A block without a parent has the empty set for its parent. *)
ValidateHeaderInput(input) ==
  /\ input.version # 0
  /\ input.height # 0
  /\ input.height = 1 => input.parent = {}
  /\ input.height > 1 => input.parent # {}
  /\ input.first # 0
  /\ input.count <= MAX_BLOCK_RECORDS
  /\ input.count > 0 => input.first + input.count - 1 <= MaxWord

BlockHeader(input) ==
  Result(ValidateHeaderInput(input), [input |-> input, id |-> Digest("BLOCK", input)])

ValidateRecordHashes(header, hashes) ==
  /\ Len(hashes) = header.input.count
  /\ RecordCommitment(hashes) = header.input.records

ValidateAgainstConfig(header, config) ==
  /\ header.input.version = config.version
  /\ header.input.config = config.id
  /\ header.input.set = config.set.id
  /\ header.input.count <= config.records

ConsensusAnchor(genesis, context, config, state) ==
  [genesis |-> genesis, context |-> context, config |-> config, state |-> state]

ValidateHeader(anchor, header, config) ==
  /\ ValidateAgainstConfig(header, config)
  /\ header.input.genesis = anchor.genesis
  /\ header.input.context = anchor.context
  /\ config.id = anchor.config
  /\ header.input.height = 1 => header.input.previous = anchor.state

FinalityTarget(header) ==
  [genesis |-> header.input.genesis, context |-> header.input.context,
   config |-> header.input.config, set |-> header.input.set,
   height |-> header.input.height, epoch |-> header.input.epoch,
   round |-> header.input.round, block |-> header.id]

(* What a precommit signature covers: the domain and all of the target. *)
SigningBytes(target) ==
  <<"PRECOMMIT", CONSENSUS_FORMAT_VERSION, target.genesis, target.context, target.config,
    target.set, target.height, target.epoch, target.round, target.block>>

VoteEvidence(validator, signature, length) ==
  Result(length \in 1 .. MAX_SIGNATURE_BYTES,
         [validator |-> validator, signature |-> signature])

ValidateVotes(votes) ==
  /\ Len(votes) \in 1 .. MAX_VALIDATORS
  /\ \A i \in 2 .. Len(votes) : votes[i - 1].validator < votes[i].validator

CertificateFromCanonical(target, votes) ==
  Result(ValidateVotes(votes),
         [target |-> target, votes |-> votes,
          id |-> Digest("FINALITY-CERTIFICATE", <<target, votes>>)])

FinalityCertificate(target, votes) ==
  CertificateFromCanonical(target, SortedBy(LAMBDA vote : vote.validator, votes))

(* The target is the header's, every voter is known, and the votes reach   *)
(* the quorum.                                                             *)
ValidateStructure(certificate, header, anchor, config) ==
  LET PowerOfVote(vote) == CHOOSE p \in VotingPowerOf(config.set, vote.validator) : TRUE IN
  /\ ValidateHeader(anchor, header, config)
  /\ certificate.target = FinalityTarget(header)
  /\ certificate.target.set = config.set.id
  /\ \A i \in DOMAIN certificate.votes :
       VotingPowerOf(config.set, certificate.votes[i].validator) # {}
  /\ SumOf(PowerOfVote, certificate.votes) \in
       QuorumVotingPower(config.set.total) .. MaxWord

(* A signature that verifies under a key is one made with that key over    *)
(* exactly those bytes.                                                    *)
VerifyPrecommit(bytes, signature, key) == signature = [key |-> key, bytes |-> bytes]

Verify(certificate, header, anchor, config) ==
  LET bytes == SigningBytes(certificate.target)
      KeyOf(id) == (CHOOSE v \in Range(config.set.validators) : v.id = id).key
  IN  Result(/\ ValidateStructure(certificate, header, anchor, config)
             /\ \A vote \in Range(certificate.votes) :
                  VerifyPrecommit(bytes, vote.signature, KeyOf(vote.validator)),
             [block |-> header.id, height |-> header.input.height, certificate |-> certificate.id])
=============================================================================
