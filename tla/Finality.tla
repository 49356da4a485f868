------------------------------- MODULE Finality -------------------------------
(***************************************************************************)
(* Validators of one network precommit blocks, and observers collect the   *)
(* signatures into finality certificates and verify them.  The consensus   *)
(* engine is external: an honest validator signs at most one block in a    *)
(* round of a height of a network, a Byzantine one signs anything.  The    *)
(* same keys may serve another deployment, whose signatures are public.    *)
(***************************************************************************)
EXTENDS Consensus

CONSTANTS Powers,      \* the voting powers that a configuration may give
          Bodies,      \* the lists of record hashes that may be proposed
          Rounds,
          MaxSigned    \* bound on the signatures made

VARIABLES config,      \* ConsensusConfig of the network
          byzantine,   \* validators that follow no rule
          signed,      \* signatures made so far
          finals       \* what observers have verified, with the records they were given

vars == <<config, byzantine, signed, finals>>

Ids == 1 .. MAX_VALIDATORS
KeyOfId(id) == [scheme |-> 1, bytes |-> <<id>>]
SomeValidators ==
  ListsUpTo(UNION {Validator(id, power, KeyOfId(id)) : id \in Ids, power \in Powers},
            MAX_VALIDATORS)
(* The configurations that the constructors accept, from validators listed *)
(* in any order, with any Byzantine power declared.                        *)
Configs ==
  UNION {UNION {ConsensusConfig(1, MAX_BLOCK_RECORDS, MAX_BLOCK_TRANSACTION_BYTES, power, set) :
                  power \in 0 .. MaxWord} :
         set \in UNION {ValidatorSet(list) : list \in SomeValidators}}
HeldBy(c, ids) ==
  SumOf(LAMBDA v : IF v.id \in ids THEN v.power ELSE 0, c.set.validators)

Here == "noxis"
Anchor(c) == ConsensusAnchor(Here, "context", c.id, "genesis-state")
(* The headers that may be signed: of this network and of another one. *)
HeaderInput(c, genesis, round, body) ==
  [version |-> 1, genesis |-> genesis, context |-> "context",
   config |-> c.id, set |-> c.set.id,
   height |-> 1, epoch |-> 0, round |-> round, parent |-> {},
   previous |-> "genesis-state", result |-> "state", first |-> 1,
   count |-> Len(body), records |-> RecordCommitment(body)]
HeadersOf(c) ==
  UNION {BlockHeader(HeaderInput(c, genesis, round, body)) :
           genesis \in {Here, "elsewhere"}, round \in Rounds, body \in Bodies}

Init ==
  /\ config \in {c \in Configs : Len(c.set.validators) = MAX_VALIDATORS}
  /\ byzantine \in {ids \in SUBSET Ids : HeldBy(config, ids) = config.byzantine}
  /\ signed = {} /\ finals = {}

(* External: the engine of an honest validator signs one block a round. *)
MaySign(id, target) ==
  id \in byzantine \/ \A h \in HeadersOf(config) :
    LET other == FinalityTarget(h) IN
    ([key |-> KeyOfId(id), bytes |-> SigningBytes(other)] \in signed
       /\ other.genesis = target.genesis /\ other.round = target.round)
    => other = target

Precommit(id, header) ==
  LET target == FinalityTarget(header) IN
  /\ Cardinality(signed) < MaxSigned
  /\ MaySign(id, target)
  /\ signed' = signed \cup {[key |-> KeyOfId(id), bytes |-> SigningBytes(target)]}
  /\ UNCHANGED <<config, byzantine, finals>>

(* The votes that can be put together: any signature under the name of the *)
(* validator whose key made it.                                            *)
VotePool ==
  UNION {UNION {VoteEvidence(id, s, 1) : s \in {s \in signed : s.key = KeyOfId(id)}} : id \in Ids}

Observe(header, votes, body) ==
  /\ ValidateRecordHashes(header, body)
  /\ \E certificate \in FinalityCertificate(FinalityTarget(header), votes) :
       Verify(certificate, header, Anchor(config), config) # {}
  /\ finals' = finals \cup {[header |-> header, body |-> body]}
  /\ UNCHANGED <<config, byzantine, signed>>

Next ==
  \/ \E id \in Ids, header \in HeadersOf(config) : Precommit(id, header)
  \/ LET headers == HeadersOf(config)
         lists == ListsUpTo(VotePool, MAX_VALIDATORS)
     IN  \E header \in headers, votes \in lists, body \in Bodies : Observe(header, votes, body)

Spec == Init /\ [][Next]_vars

(* While the Byzantine validators hold no more than the configuration      *)
(* declares, two verified certificates of one round of a height are for    *)
(* one block with one list of records, whatever signatures were made for   *)
(* other rounds and for other networks.                                    *)
NoConflictingFinality ==
  \A f, g \in finals :
    f.header.input.round = g.header.input.round => f = g

(* A block is final only if honest validators that hold more than one      *)
(* third of the voting power signed that very block on this network.       *)
FinalityNeedsHonestThird ==
  \A f \in finals :
    LET signers == {id \in Ids \ byzantine :
          [key |-> KeyOfId(id), bytes |-> SigningBytes(FinalityTarget(f.header))] \in signed}
    IN  f.header.input.genesis = Here /\ 3 * HeldBy(config, signers) > config.set.total

(* The validators that are not Byzantine can always finalize without the   *)
(* others: the quorum asks for no more than they hold, and is itself a     *)
(* voting power.                                                           *)
HonestReachQuorum ==
  /\ QuorumVotingPower(config.set.total) <= HeldBy(config, Ids \ byzantine)
  /\ QuorumVotingPower(config.set.total) \in 1 .. MaxWord

(* Finality is safe and within reach: two certificates of one round are    *)
(* for one block, every final block has the signatures of more than a      *)
(* third of honest power, and the honest validators reach the quorum       *)
(* without the others.                                                     *)
FinalitySound == NoConflictingFinality /\ FinalityNeedsHonestThird /\ HonestReachQuorum
=============================================================================
