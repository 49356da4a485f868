--------------------------- MODULE FinalityProofs ---------------------------
(***************************************************************************)
(* Finality is sound for every validator set, every list of votes and      *)
(* every declared Byzantine power: sums of voting power over lists, the    *)
(* sort of the constructors, the overlap of two quorums.                   *)
(***************************************************************************)
EXTENDS Finality, TLAPS

Totals == INSTANCE FoldFacts WITH Op <- LAMBDA total, n : total + n
Placed == INSTANCE FoldFacts WITH Op <- Insert

(***************************************************************************)
(* Sums.                                                                   *)
(***************************************************************************)

(* The partial sums of a list of numbers. *)
LEMMA SumRun ==
  ASSUME NEW list, Len(list) \in Nat
  PROVE  \E run : /\ run[0] = 0
                  /\ \A n \in 1..Len(list) : run[n] = run[n - 1] + list[n]
                  /\ SumList(list) = run[Len(list)]
<1>1. SumList(list) = Totals!Fold(0, list)
  BY Zenon DEF SumList, Totals!Fold, FoldList, Totals!FoldList
<1> QED
  BY <1>1, Totals!FoldRun

(* A sum bounds its terms. *)
LEMMA SumBounds ==
  ASSUME NEW n \in Nat, NEW list \in [1..n -> Nat]
  PROVE  SumList(list) \in Nat /\ \A i \in 1..n : list[i] <= SumList(list)
<1>1. Len(list) = n
  OBVIOUS
<1>2. PICK run : /\ run[0] = 0
                 /\ \A m \in 1..n : run[m] = run[m - 1] + list[m]
                 /\ SumList(list) = run[n]
  BY <1>1, SumRun, Zenon
<1> DEFINE S == {m \in Nat : m <= n => run[m] \in Nat /\ \A i \in 1..m : list[i] <= run[m]}
<1>3. 0 \in S
  BY <1>2
<1>4. ASSUME NEW m \in Nat, m \in S PROVE m + 1 \in S
  <2> SUFFICES ASSUME m + 1 <= n
               PROVE  run[m + 1] \in Nat /\ \A i \in 1..(m + 1) : list[i] <= run[m + 1]
    OBVIOUS
  <2>1. run[m] \in Nat /\ \A i \in 1..m : list[i] <= run[m]
    BY <1>4
  <2>2. m + 1 \in 1..n /\ (m + 1) - 1 = m /\ run[m + 1] = run[m] + list[m + 1]
    BY <1>2
  <2>3. list[m + 1] \in Nat /\ \A i \in 1..m : list[i] \in Nat
    BY <2>2
  <2> QED
    BY <2>1, <2>2, <2>3
<1> HIDE DEF S
<1>5. \A m \in Nat : m \in S
  BY <1>3, <1>4, Totals!SetInduction, Zenon
<1> QED
  BY <1>2, <1>5 DEF S

(* The sum of two lists, term by term. *)
LEMMA SumAdds ==
  ASSUME NEW n \in Nat, NEW a \in [1..n -> Nat], NEW b \in [1..n -> Nat]
  PROVE  SumList([i \in 1..n |-> a[i] + b[i]]) = SumList(a) + SumList(b)
<1> DEFINE c == [i \in 1..n |-> a[i] + b[i]]
<1>1. Len(a) = n /\ Len(b) = n /\ Len(c) = n
  OBVIOUS
<1>0. \A i \in 1..n : c[i] = a[i] + b[i]
  OBVIOUS
<1> HIDE DEF c
<1>2. PICK ra : /\ ra[0] = 0
                /\ \A m \in 1..n : ra[m] = ra[m - 1] + a[m]
                /\ SumList(a) = ra[n]
  BY <1>1, SumRun, Zenon
<1>3. PICK rb : /\ rb[0] = 0
                /\ \A m \in 1..n : rb[m] = rb[m - 1] + b[m]
                /\ SumList(b) = rb[n]
  BY <1>1, SumRun, Zenon
<1>4. PICK rc : /\ rc[0] = 0
                /\ \A m \in 1..n : rc[m] = rc[m - 1] + c[m]
                /\ SumList(c) = rc[n]
  BY <1>1, SumRun, Zenon
<1> DEFINE S == {m \in Nat : m <= n => ra[m] \in Nat /\ rb[m] \in Nat /\ rc[m] = ra[m] + rb[m]}
<1>5. 0 \in S
  BY <1>2, <1>3, <1>4
<1>6. ASSUME NEW m \in Nat, m \in S PROVE m + 1 \in S
  <2> SUFFICES ASSUME m + 1 <= n
               PROVE  ra[m + 1] \in Nat /\ rb[m + 1] \in Nat /\ rc[m + 1] = ra[m + 1] + rb[m + 1]
    OBVIOUS
  <2>1. ra[m] \in Nat /\ rb[m] \in Nat /\ rc[m] = ra[m] + rb[m]
    BY <1>6
  <2>2. m + 1 \in 1..n /\ (m + 1) - 1 = m
    OBVIOUS
  <2>3. /\ ra[m + 1] = ra[m] + a[m + 1] /\ rb[m + 1] = rb[m] + b[m + 1]
        /\ rc[m + 1] = rc[m] + c[m + 1]
    BY <1>2, <1>3, <1>4, <2>2
  <2>4. a[m + 1] \in Nat /\ b[m + 1] \in Nat /\ c[m + 1] = a[m + 1] + b[m + 1]
    BY <2>2, <1>0
  <2>5. PICK x \in Nat, y \in Nat, u \in Nat, v \in Nat :
          x = a[m + 1] /\ y = b[m + 1] /\ u = ra[m] /\ v = rb[m]
    BY <2>1, <2>4, Zenon
  <2>6. ra[m + 1] = u + x /\ rb[m + 1] = v + y /\ rc[m + 1] = (u + v) + (x + y)
    BY <2>1, <2>3, <2>4, <2>5, Zenon
  <2>7. u + x \in Nat /\ v + y \in Nat /\ (u + v) + (x + y) = (u + x) + (v + y)
    OBVIOUS
  <2> QED
    BY <2>6, <2>7, Zenon
<1> HIDE DEF S
<1>7. \A m \in Nat : m \in S
  BY <1>5, <1>6, Totals!SetInduction, Zenon
<1> QED
  BY <1>2, <1>3, <1>4, <1>7 DEF S, c

(***************************************************************************)
(* The sort of the constructors.                                           *)
(***************************************************************************)

(* An insertion adds the pair and keeps the rest. *)
LEMMA InsertKeeps ==
  ASSUME NEW S, NEW sorted \in Seq(S), NEW pair \in S
  PROVE  Insert(sorted, pair) \in Seq(S)
<1> DEFINE Stays(i) == i \in DOMAIN sorted /\ sorted[i][1] <= pair[1]
           result == [i \in 1..(Len(sorted) + 1) |->
                        IF Stays(i) THEN sorted[i]
                        ELSE IF i = 1 \/ Stays(i - 1) THEN pair ELSE sorted[i - 1]]
<1>1. DOMAIN sorted = 1..Len(sorted) /\ Len(sorted) \in Nat /\ \A i \in 1..Len(sorted) : sorted[i] \in S
  OBVIOUS
<1>2. \A i : Stays(i) => sorted[i] \in S
  BY <1>1
<1> HIDE DEF Stays
<1>3. \A i \in 1..(Len(sorted) + 1) : result[i] \in S
  <2> SUFFICES ASSUME NEW i \in 1..(Len(sorted) + 1) PROVE result[i] \in S
    OBVIOUS
  <2>1. i # 1 => i - 1 \in 1..Len(sorted)
    BY <1>1
  <2> QED
    BY <1>1, <1>2, <2>1
<1>4. result \in Seq(S)
  BY <1>1, <1>3
<1> QED
  BY <1>4, Zenon DEF Insert, Stays

(* A sorted list has the elements of the list and no others. *)
LEMMA SortKeeps ==
  ASSUME NEW S, NEW pairs \in Seq(S)
  PROVE  SortedPairs(pairs) \in Seq(S)
<1>1. SortedPairs(pairs) = Placed!Fold(<<>>, pairs)
  BY Zenon DEF SortedPairs, Placed!Fold, FoldList, Placed!FoldList
<1>2. Len(pairs) \in Nat
  OBVIOUS
<1>3. PICK run : /\ run[0] = <<>>
                 /\ \A n \in 1..Len(pairs) : run[n] = Insert(run[n - 1], pairs[n])
                 /\ SortedPairs(pairs) = run[Len(pairs)]
  BY <1>1, <1>2, Placed!FoldRun
<1> DEFINE N == {n \in Nat : n <= Len(pairs) => run[n] \in Seq(S)}
<1>4. 0 \in N
  <2>1. <<>> \in Seq(S)
    OBVIOUS
  <2> QED
    BY <2>1, <1>3, Zenon
<1>5. ASSUME NEW n \in Nat, n \in N PROVE n + 1 \in N
  <2> SUFFICES ASSUME n + 1 <= Len(pairs) PROVE run[n + 1] \in Seq(S)
    OBVIOUS
  <2>1. n + 1 \in 1..Len(pairs) /\ (n + 1) - 1 = n /\ run[n] \in Seq(S)
    BY <1>5
  <2>2. pairs[n + 1] \in S /\ run[n + 1] = Insert(run[n], pairs[n + 1])
    BY <2>1, <1>3
  <2> QED
    BY <2>1, <2>2, InsertKeeps
<1> HIDE DEF N
<1>6. \A n \in Nat : n \in N
  BY <1>4, <1>5, Placed!SetInduction
<1> QED
  BY <1>2, <1>3, <1>6 DEF N

(***************************************************************************)
(* Voting power.                                                           *)
(***************************************************************************)

(* What the constructors establish of the configuration of a network. *)
SoundConfig(c) ==
  /\ MAX_VALIDATORS \in Nat \ {0} /\ MaxWord \in Nat
  /\ c.set.validators \in [1..MAX_VALIDATORS -> [id : Ids, power : Nat \ {0}, key : {KeyOfId(id) : id \in Ids}]]
  /\ \A i \in 1..MAX_VALIDATORS : c.set.validators[i].key = KeyOfId(c.set.validators[i].id)
  /\ c.set.total = SumOf(Power, c.set.validators)
  /\ c.set.total <= MaxWord
  /\ c.byzantine \in 0..ByzantineLimit(c.set.total)

Weights(c, ids) ==
  [i \in 1..MAX_VALIDATORS |->
     IF c.set.validators[i].id \in ids THEN c.set.validators[i].power ELSE 0]

(* What a group holds is the sum of a list of numbers, one for each        *)
(* validator.                                                              *)
LEMMA HeldIsSum ==
  ASSUME NEW c, SoundConfig(c), NEW ids
  PROVE  /\ Weights(c, ids) \in [1..MAX_VALIDATORS -> Nat]
         /\ HeldBy(c, ids) = SumList(Weights(c, ids))
         /\ HeldBy(c, ids) \in Nat
<1>1. Weights(c, ids) \in [1..MAX_VALIDATORS -> Nat]
  BY DEF SoundConfig, Weights
<1>2. DOMAIN c.set.validators = 1..MAX_VALIDATORS
  BY DEF SoundConfig
<1>3. HeldBy(c, ids) = SumList(Weights(c, ids))
  BY <1>2, Zenon DEF HeldBy, SumOf, Weights
<1>4. MAX_VALIDATORS \in Nat
  BY DEF SoundConfig
<1> QED
  BY <1>1, <1>3, <1>4, SumBounds

(* Two disjoint groups of validators hold the sum of what they hold. *)
LEMMA HeldSplits ==
  ASSUME NEW c, SoundConfig(c), NEW ids, NEW more, ids \cap more = {}
  PROVE  HeldBy(c, ids \cup more) = HeldBy(c, ids) + HeldBy(c, more)
<1> DEFINE n == MAX_VALIDATORS
           a == Weights(c, ids)
           b == Weights(c, more)
<1>1. n \in Nat /\ \A i \in 1..n : c.set.validators[i].power \in Nat
  BY DEF SoundConfig
<1>2. Weights(c, ids \cup more) = [i \in 1..n |-> a[i] + b[i]]
  BY <1>1 DEF Weights
<1>3. a \in [1..n -> Nat] /\ b \in [1..n -> Nat]
  BY HeldIsSum
<1>4. /\ HeldBy(c, ids) = SumList(a) /\ HeldBy(c, more) = SumList(b)
      /\ HeldBy(c, ids \cup more) = SumList(Weights(c, ids \cup more))
  BY HeldIsSum
<1> HIDE DEF a, b
<1>5. SumList([i \in 1..n |-> a[i] + b[i]]) = SumList(a) + SumList(b)
  BY <1>1, <1>3, SumAdds, Zenon
<1> QED
  BY <1>2, <1>4, <1>5

(* A larger group holds no less. *)
LEMMA HeldGrows ==
  ASSUME NEW c, SoundConfig(c), NEW ids, NEW more, ids \subseteq more
  PROVE  HeldBy(c, ids) <= HeldBy(c, more)
<1>1. ids \cup (more \ ids) = more /\ ids \cap (more \ ids) = {}
  OBVIOUS
<1>2. HeldBy(c, more) = HeldBy(c, ids) + HeldBy(c, more \ ids)
  BY <1>1, HeldSplits
<1>3. HeldBy(c, ids) \in Nat /\ HeldBy(c, more \ ids) \in Nat
  BY HeldIsSum
<1> QED
  BY <1>2, <1>3

(* All validators together hold the total, which is not zero               *)
(* (ValidatorSet::new).                                                    *)
LEMMA HeldTotal ==
  ASSUME NEW c, SoundConfig(c)
  PROVE  HeldBy(c, Ids) = c.set.total /\ c.set.total \in Nat \ {0}
<1>1. DOMAIN c.set.validators = 1..MAX_VALIDATORS
  BY DEF SoundConfig
<1>2. \A i \in 1..MAX_VALIDATORS : c.set.validators[i].id \in Ids /\ c.set.validators[i].power \in Nat \ {0}
  BY DEF SoundConfig
<1>3. Weights(c, Ids) = [i \in DOMAIN c.set.validators |-> Power(c.set.validators[i])]
  BY <1>1, <1>2 DEF Weights, Power
<1>4. HeldBy(c, Ids) = c.set.total
  <2>1. c.set.total = SumList([i \in DOMAIN c.set.validators |-> Power(c.set.validators[i])])
    BY Zenon DEF SoundConfig, SumOf
  <2> QED
    BY <2>1, <1>3, HeldIsSum
<1>5. 1 \in 1..MAX_VALIDATORS /\ MAX_VALIDATORS \in Nat
  BY DEF SoundConfig
<1>6. Weights(c, Ids)[1] \in Nat \ {0}
  BY <1>2, <1>5 DEF Weights
<1>7. Weights(c, Ids)[1] <= HeldBy(c, Ids) /\ HeldBy(c, Ids) \in Nat
  BY <1>5, HeldIsSum, SumBounds
<1> QED
  BY <1>4, <1>6, <1>7

(* A validator holds its own power. *)
LEMMA HeldByOne ==
  ASSUME NEW c, SoundConfig(c), NEW i \in 1..MAX_VALIDATORS
  PROVE  c.set.validators[i].power <= HeldBy(c, {c.set.validators[i].id})
<1> DEFINE own == {c.set.validators[i].id}
<1>1. MAX_VALIDATORS \in Nat
  BY DEF SoundConfig
<1>2. Weights(c, own)[i] = c.set.validators[i].power
  BY DEF Weights
<1> HIDE DEF own
<1>3. Weights(c, own) \in [1..MAX_VALIDATORS -> Nat] /\ HeldBy(c, own) = SumList(Weights(c, own))
  BY HeldIsSum
<1>4. Weights(c, own)[i] <= SumList(Weights(c, own))
  BY <1>1, <1>3, SumBounds
<1> QED
  BY <1>2, <1>3, <1>4 DEF own

(* The arithmetic of the quorum. *)
LEMMA QuorumFacts ==
  ASSUME NEW t \in Nat \ {0}, NEW b \in 0..ByzantineLimit(t)
  PROVE  /\ QuorumVotingPower(t) \in 1..t
         /\ 2 * t < 3 * QuorumVotingPower(t)
         /\ 3 * b < t
         /\ QuorumVotingPower(t) <= t - b
<1> DEFINE q == t \div 3
           r == t % 3
<1>1. q \in Nat /\ r \in 0..2 /\ t = 3 * q + r
  OBVIOUS
<1>2. b \in Nat /\ 3 * b <= t - 1
  BY DEF ByzantineLimit
<1>3. QuorumVotingPower(t) = q * 2 + (r * 2) \div 3 + 1
  BY DEF QuorumVotingPower
<1> HIDE DEF q, r
<1>4. (r = 0 \/ r = 1 \/ r = 2) /\ (0 * 2) \div 3 = 0 /\ (1 * 2) \div 3 = 0 /\ (2 * 2) \div 3 = 1
  BY <1>1
<1> QED
  BY <1>1, <1>2, <1>3, <1>4

(***************************************************************************)
(* The votes of a certificate.                                             *)
(***************************************************************************)
Voters(votes, n) == {votes[i].validator : i \in 1..n}
PowersOf(c, votes) ==
  [i \in DOMAIN votes |-> CHOOSE p \in VotingPowerOf(c.set, votes[i].validator) : TRUE]

(* The power a vote counts for is no more than its validator holds         *)
(* (voting_power).                                                         *)
LEMMA VotePower ==
  ASSUME NEW c, SoundConfig(c), NEW id, VotingPowerOf(c.set, id) # {}
  PROVE  LET p == CHOOSE p \in VotingPowerOf(c.set, id) : TRUE
         IN  p \in Nat /\ p <= HeldBy(c, {id})
<1> DEFINE p == CHOOSE p \in VotingPowerOf(c.set, id) : TRUE
<1>1. p \in VotingPowerOf(c.set, id)
  BY Zenon
<1> HIDE DEF p
<1>2. DOMAIN c.set.validators = 1..MAX_VALIDATORS
  BY DEF SoundConfig
<1>3. PICK i \in 1..MAX_VALIDATORS : c.set.validators[i].id = id /\ p = c.set.validators[i].power
  BY <1>1, <1>2 DEF VotingPowerOf
<1>4. p \in Nat
  BY <1>3 DEF SoundConfig
<1>5. p <= HeldBy(c, {id})
  BY <1>3, HeldByOne
<1> QED
  BY <1>4, <1>5 DEF p

(* Voters that rise strictly are counted once each. *)
LEMMA VotesHeld ==
  ASSUME NEW c, SoundConfig(c), NEW n \in Nat, NEW votes, DOMAIN votes = 1..n,
         \A i \in 1..n : votes[i].validator \in Int,
         \A i \in 2..n : votes[i - 1].validator < votes[i].validator,
         \A i \in 1..n : VotingPowerOf(c.set, votes[i].validator) # {}
  PROVE  SumList(PowersOf(c, votes)) <= HeldBy(c, Voters(votes, n))
<1> DEFINE powers == PowersOf(c, votes)
<1>1. \A i \in 1..n : powers[i] \in Nat /\ powers[i] <= HeldBy(c, {votes[i].validator})
  <2> SUFFICES ASSUME NEW i \in 1..n
               PROVE  powers[i] \in Nat /\ powers[i] <= HeldBy(c, {votes[i].validator})
    OBVIOUS
  <2>1. powers[i] = CHOOSE p \in VotingPowerOf(c.set, votes[i].validator) : TRUE
    BY DEF PowersOf
  <2> QED
    BY <2>1, VotePower, Zenon
<1>2. Len(powers) = n
  BY DEF PowersOf
<1> HIDE DEF powers
<1>3. PICK run : /\ run[0] = 0
                 /\ \A m \in 1..n : run[m] = run[m - 1] + powers[m]
                 /\ SumList(powers) = run[n]
  BY <1>2, SumRun, Zenon
<1> DEFINE Good(m) == /\ run[m] \in Nat
                      /\ run[m] <= HeldBy(c, Voters(votes, m))
                      /\ \A i \in 1..m : votes[i].validator <= votes[m].validator
           S == {m \in Nat : m <= n => Good(m)}
<1>4. Good(0)
  <2>1. HeldBy(c, Voters(votes, 0)) \in Nat
    BY HeldIsSum
  <2> QED
    BY <2>1, <1>3
<1>5. ASSUME NEW m \in Nat, m + 1 <= n, Good(m) PROVE Good(m + 1)
  <2> DEFINE new == votes[m + 1].validator
  <2>1. m + 1 \in 1..n /\ (m + 1) - 1 = m /\ run[m + 1] = run[m] + powers[m + 1]
    BY <1>3, <1>5
  <2>2. new \in Int /\ \A i \in 1..m : votes[i].validator \in Int
    BY <2>1
  <2>3. \A i \in 1..m : votes[i].validator < new
    <3>1. CASE m = 0
      BY <3>1
    <3>2. CASE m # 0
      <4>1. m + 1 \in 2..n /\ votes[m].validator \in Int
        BY <3>2, <2>1, <2>2
      <4>2. votes[m].validator < new
        BY <4>1, <2>1
      <4>3. \A i \in 1..m : votes[i].validator <= votes[m].validator
        BY <1>5
      <4> HIDE DEF new
      <4> QED
        BY <4>1, <4>2, <4>3, <2>2
    <3> QED
      BY <3>1, <3>2
  <2>4. Voters(votes, m + 1) = Voters(votes, m) \cup {new} /\ Voters(votes, m) \cap {new} = {}
    <3>1. Voters(votes, m + 1) = Voters(votes, m) \cup {new}
      BY DEF Voters
    <3>2. Voters(votes, m) \cap {new} = {}
      BY <2>2, <2>3 DEF Voters
    <3> QED
      BY <3>1, <3>2
  <2>5. HeldBy(c, Voters(votes, m + 1)) = HeldBy(c, Voters(votes, m)) + HeldBy(c, {new})
    BY <2>4, HeldSplits
  <2>6. HeldBy(c, Voters(votes, m)) \in Nat /\ HeldBy(c, {new}) \in Nat
    BY HeldIsSum
  <2>7. powers[m + 1] \in Nat /\ powers[m + 1] <= HeldBy(c, {new})
    BY <1>1, <2>1, Zenon
  <2>8. run[m] \in Nat /\ run[m] <= HeldBy(c, Voters(votes, m))
    BY <1>5
  <2>9. run[m + 1] \in Nat /\ run[m + 1] <= HeldBy(c, Voters(votes, m + 1))
    <3> HIDE DEF new, Good, S
    <3> QED
      BY <2>1, <2>5, <2>6, <2>7, <2>8
  <2>10. ASSUME NEW i \in 1..(m + 1) PROVE votes[i].validator <= new
    <3>1. CASE i \in 1..m
      BY <3>1, <2>2, <2>3
    <3>2. CASE i = m + 1
      BY <3>2, <2>2
    <3> QED
      BY <3>1, <3>2
  <2> QED
    BY <2>9, <2>10
<1> HIDE DEF Good
<1>6. 0 \in S
  BY <1>4
<1>7. ASSUME NEW m \in Nat, m \in S PROVE m + 1 \in S
  BY <1>5, <1>7
<1> HIDE DEF S
<1>8. \A m \in Nat : m \in S
  BY <1>6, <1>7, Totals!SetInduction
<1>9. Good(n)
  BY <1>8 DEF S
<1> QED
  BY <1>3, <1>9 DEF Good, powers

(***************************************************************************)
(* The configuration.                                                      *)
(***************************************************************************)
ValidatorsOf == UNION {Validator(id, power, KeyOfId(id)) : id \in Ids, power \in Powers}

(* A list of at most n elements is a sequence. *)
LEMMA ListsAreSequences ==
  ASSUME NEW S, NEW n \in Nat, NEW list \in ListsUpTo(S, n)
  PROVE  list \in Seq(S) /\ DOMAIN list = 1..Len(list) /\ Len(list) \in Nat
<1>1. PICK m \in 0..n : list \in [1..m -> S]
  BY DEF ListsUpTo
<1>2. m \in Nat
  OBVIOUS
<1> QED
  BY <1>1, <1>2

(* The items of sorted pairs are items of the pairs. *)
LEMMA ItemsKept ==
  ASSUME NEW S, NEW P, \A p \in P : p[2] \in S, NEW pairs \in Seq(P)
  PROVE  [i \in DOMAIN SortedPairs(pairs) |-> SortedPairs(pairs)[i][2]] \in Seq(S)
<1> DEFINE sorted == SortedPairs(pairs)
<1>1. sorted \in Seq(P)
  BY SortKeeps
<1> HIDE DEF sorted
<1>2. DOMAIN sorted = 1..Len(sorted) /\ Len(sorted) \in Nat /\ \A i \in 1..Len(sorted) : sorted[i] \in P
  BY <1>1
<1>3. [i \in DOMAIN sorted |-> sorted[i][2]] \in Seq(S)
  BY <1>2
<1> QED
  BY <1>3 DEF sorted

(* Sorting validators by id adds none. *)
LEMMA SortedValidators ==
  ASSUME NEW S, NEW list \in Seq(S)
  PROVE  SortedBy(LAMBDA v : v.id, list) \in Seq(S)
<1> DEFINE P == {<<v.id, v>> : v \in S}
           pairs == [i \in DOMAIN list |-> <<list[i].id, list[i]>>]
<1>1. pairs \in Seq(P) /\ \A p \in P : p[2] \in S
  OBVIOUS
<1> HIDE DEF P, pairs
<1>2. [i \in DOMAIN SortedPairs(pairs) |-> SortedPairs(pairs)[i][2]] \in Seq(S)
  BY <1>1, ItemsKept
<1> QED
  BY <1>2, Zenon DEF SortedBy, pairs

(* Sorting votes by validator adds none. *)
LEMMA SortedVotes ==
  ASSUME NEW S, NEW list \in Seq(S)
  PROVE  SortedBy(LAMBDA vote : vote.validator, list) \in Seq(S)
<1> DEFINE P == {<<v.validator, v>> : v \in S}
           pairs == [i \in DOMAIN list |-> <<list[i].validator, list[i]>>]
<1>1. pairs \in Seq(P) /\ \A p \in P : p[2] \in S
  OBVIOUS
<1> HIDE DEF P, pairs
<1>2. [i \in DOMAIN SortedPairs(pairs) |-> SortedPairs(pairs)[i][2]] \in Seq(S)
  BY <1>1, ItemsKept
<1> QED
  BY <1>2, Zenon DEF SortedBy, pairs

(* Every configuration that the constructors accept is sound, however its  *)
(* validators were listed.                                                 *)
LEMMA ConfigsAreSound ==
  ASSUME MAX_VALIDATORS \in Nat, MaxWord \in Nat, Powers \subseteq Nat,
         NEW c \in Configs, Len(c.set.validators) = MAX_VALIDATORS
  PROVE  SoundConfig(c)
<1>1. PICK list \in SomeValidators : \E set \in ValidatorSet(list) : \E power \in 0..MaxWord :
        c \in ConsensusConfig(1, MAX_BLOCK_RECORDS, MAX_BLOCK_TRANSACTION_BYTES, power, set)
  BY DEF Configs
<1>2. PICK set \in ValidatorSet(list) : \E power \in 0..MaxWord :
        c \in ConsensusConfig(1, MAX_BLOCK_RECORDS, MAX_BLOCK_TRANSACTION_BYTES, power, set)
  BY <1>1
<1>3. PICK power \in 0..MaxWord :
        c \in ConsensusConfig(1, MAX_BLOCK_RECORDS, MAX_BLOCK_TRANSACTION_BYTES, power, set)
  BY <1>2
<1>4. c.set = set /\ c.byzantine = power /\ power <= ByzantineLimit(set.total)
  BY <1>3 DEF ConsensusConfig, Result
<1> DEFINE sorted == SortedBy(LAMBDA v : v.id, list)
<1>5. set \in FromCanonical(sorted)
  BY <1>2, Zenon DEF ValidatorSet
<1>6. list \in Seq(ValidatorsOf)
  BY ListsAreSequences DEF SomeValidators, ValidatorsOf
<1>7. sorted \in Seq(ValidatorsOf)
  BY <1>6, SortedValidators
<1> HIDE DEF sorted
<1>8. /\ set.validators = sorted /\ set.total = SumOf(Power, sorted)
      /\ ValidateValidators(sorted) /\ SumOf(Power, sorted) <= MaxWord
  BY <1>5 DEF FromCanonical, Result
<1>9. /\ Len(sorted) = MAX_VALIDATORS /\ MAX_VALIDATORS \in Nat \ {0}
      /\ sorted \in [1..MAX_VALIDATORS -> ValidatorsOf]
  BY <1>4, <1>7, <1>8 DEF ValidateValidators
<1>10. ASSUME NEW v \in ValidatorsOf
       PROVE  /\ v \in [id : Ids, power : Nat \ {0}, key : {KeyOfId(id) : id \in Ids}]
              /\ v.key = KeyOfId(v.id)
  <2>1. PICK id \in Ids, p \in Powers : v \in Validator(id, p, KeyOfId(id))
    BY DEF ValidatorsOf
  <2>2. v = [id |-> id, power |-> p, key |-> KeyOfId(id)] /\ p # 0
    BY <2>1 DEF Validator, Result
  <2> QED
    BY <2>2
<1>11. /\ sorted \in [1..MAX_VALIDATORS -> [id : Ids, power : Nat \ {0}, key : {KeyOfId(id) : id \in Ids}]]
       /\ \A i \in 1..MAX_VALIDATORS : sorted[i].key = KeyOfId(sorted[i].id)
  BY <1>9, <1>10
<1> QED
  BY <1>3, <1>4, <1>8, <1>9, <1>11 DEF SoundConfig

(***************************************************************************)
(* The invariant.                                                          *)
(***************************************************************************)
SignatureOf(id, header) ==
  [key |-> KeyOfId(id), bytes |-> SigningBytes(FinalityTarget(header))]
Signers(header) == {id \in Ids : SignatureOf(id, header) \in signed}

(* An honest validator has signed one target in a round of a network. *)
SignedOnce ==
  \A id \in Ids \ byzantine, g \in HeadersOf(config), h \in HeadersOf(config) :
    /\ SignatureOf(id, g) \in signed /\ SignatureOf(id, h) \in signed
    /\ g.input.genesis = h.input.genesis /\ g.input.round = h.input.round
    => FinalityTarget(g) = FinalityTarget(h)

(* A final block is of this network, with the records its header commits   *)
(* to, and validators that hold a quorum have signed it.                   *)
QuorumSigned(f) ==
  /\ f.header \in HeadersOf(config)
  /\ f = [header |-> f.header, body |-> f.body]
  /\ ValidateRecordHashes(f.header, f.body)
  /\ f.header.input.genesis = Here
  /\ QuorumVotingPower(config.set.total) <= HeldBy(config, Signers(f.header))

FinalityInv ==
  /\ SoundConfig(config)
  /\ byzantine \subseteq Ids /\ HeldBy(config, byzantine) = config.byzantine
  /\ SignedOnce
  /\ \A f \in finals : QuorumSigned(f)

(* What is signed names all of the target. *)
LEMMA SigningInjective ==
  ASSUME NEW g, NEW h, SigningBytes(FinalityTarget(g)) = SigningBytes(FinalityTarget(h))
  PROVE  FinalityTarget(g) = FinalityTarget(h)
BY DEF SigningBytes, FinalityTarget

(* Different validators have different keys. *)
LEMMA KeysDiffer ==
  ASSUME NEW i, NEW j, KeyOfId(i) = KeyOfId(j) PROVE i = j
<1>1. <<i>> = <<j>>
  BY DEF KeyOfId
<1> QED
  BY <1>1

(* A vote carries a signature that was made with the key of its validator. *)
LEMMA PoolFacts ==
  ASSUME NEW vote \in VotePool
  PROVE  vote.validator \in Ids /\ vote.signature \in signed
         /\ vote.signature.key = KeyOfId(vote.validator)
<1>1. PICK id \in Ids : vote \in UNION {VoteEvidence(id, s, 1) : s \in {s \in signed : s.key = KeyOfId(id)}}
  BY DEF VotePool
<1>2. PICK s \in signed : s.key = KeyOfId(id) /\ vote \in VoteEvidence(id, s, 1)
  BY <1>1
<1>3. vote = [validator |-> id, signature |-> s]
  BY <1>2 DEF VoteEvidence, Result
<1> QED
  BY <1>2, <1>3

(* A certificate that verifies is signed by a quorum. *)
LEMMA VerifiedHasQuorum ==
  ASSUME MAX_VALIDATORS \in Nat, SoundConfig(config),
         NEW header, NEW votes \in ListsUpTo(VotePool, MAX_VALIDATORS),
         NEW certificate \in FinalityCertificate(FinalityTarget(header), votes),
         Verify(certificate, header, Anchor(config), config) # {}
  PROVE  /\ header.input.genesis = Here
         /\ QuorumVotingPower(config.set.total) <= HeldBy(config, Signers(header))
<1> DEFINE sorted == SortedBy(LAMBDA vote : vote.validator, votes)
           target == FinalityTarget(header)
<1>1. votes \in Seq(VotePool)
  BY ListsAreSequences
<1>2. sorted \in Seq(VotePool)
  BY <1>1, SortedVotes
<1>3. certificate \in CertificateFromCanonical(target, sorted)
  BY Zenon DEF FinalityCertificate
<1> HIDE DEF sorted, target
<1>4. /\ certificate.target = target /\ certificate.votes = sorted /\ ValidateVotes(sorted)
  BY <1>3 DEF CertificateFromCanonical, Result
<1>5. ValidateStructure(certificate, header, Anchor(config), config)
  BY DEF Verify, Result
<1>6. header.input.genesis = Here
  BY <1>5 DEF ValidateStructure, ValidateHeader, Anchor, ConsensusAnchor
<1> DEFINE n == Len(sorted)
<1>7. /\ n \in Nat /\ DOMAIN sorted = 1..n
      /\ \A i \in 1..n : sorted[i] \in VotePool
  BY <1>2
<1>8. \A i \in 1..n : sorted[i].validator \in Int
  <2>1. Ids \subseteq Int
    BY DEF Ids
  <2> QED
    BY <1>7, <2>1, PoolFacts, Zenon
<1>9. \A i \in 2..n : sorted[i - 1].validator < sorted[i].validator
  BY <1>4 DEF ValidateVotes
<1>10. /\ \A i \in 1..n : VotingPowerOf(config.set, sorted[i].validator) # {}
       /\ SumList(PowersOf(config, sorted)) \in QuorumVotingPower(config.set.total)..MaxWord
  <2>1. \A i \in DOMAIN sorted : VotingPowerOf(config.set, sorted[i].validator) # {}
    BY <1>4, <1>5, Zenon DEF ValidateStructure
  <2>2. SumList(PowersOf(config, certificate.votes)) \in QuorumVotingPower(config.set.total)..MaxWord
    BY <1>5, Zenon DEF ValidateStructure, SumOf, PowersOf
  <2> QED
    BY <2>1, <2>2, <1>4, <1>7, Zenon
<1> HIDE DEF n
<1>11. SumList(PowersOf(config, sorted)) <= HeldBy(config, Voters(sorted, n))
  BY <1>7, <1>8, <1>9, <1>10, VotesHeld, Zenon
<1>12. Voters(sorted, n) \subseteq Signers(header)
  <2> SUFFICES ASSUME NEW i \in 1..n PROVE sorted[i].validator \in Signers(header)
    BY DEF Voters
  <2> DEFINE vote == sorted[i]
  <2>1. vote.validator \in Ids /\ vote.signature \in signed /\ vote.signature.key = KeyOfId(vote.validator)
    BY <1>7, PoolFacts
  <2>2. vote \in Range(sorted)
    BY <1>7 DEF Range
  <2>3. \E key : vote.signature = [key |-> key, bytes |-> SigningBytes(target)]
    BY <1>4, <2>2, Zenon DEF Verify, Result, VerifyPrecommit
  <2> HIDE DEF vote
  <2>4. vote.signature = [key |-> KeyOfId(vote.validator), bytes |-> SigningBytes(target)]
    BY <2>1, <2>3
  <2>5. vote.signature = SignatureOf(vote.validator, header)
    BY <2>4, Zenon DEF SignatureOf, target
  <2> QED
    BY <2>1, <2>5 DEF Signers, vote
<1>13. HeldBy(config, Voters(sorted, n)) <= HeldBy(config, Signers(header))
  BY <1>12, HeldGrows
<1>14. /\ HeldBy(config, Voters(sorted, n)) \in Nat /\ HeldBy(config, Signers(header)) \in Nat
       /\ QuorumVotingPower(config.set.total) \in Nat
  <2>1. config.set.total \in Nat \ {0} /\ config.byzantine \in 0..ByzantineLimit(config.set.total)
    BY HeldTotal DEF SoundConfig
  <2> QED
    BY <2>1, HeldIsSum, QuorumFacts
<1> QED
  BY <1>6, <1>10, <1>11, <1>13, <1>14

(* The invariant holds before anything is signed. *)
LEMMA FinalityInit ==
  ASSUME MAX_VALIDATORS \in Nat, MaxWord \in Nat, Powers \subseteq Nat, Init
  PROVE  FinalityInv
<1>1. SoundConfig(config)
  BY ConfigsAreSound DEF Init
<1> QED
  BY <1>1 DEF Init, FinalityInv, SignedOnce

(* A precommit keeps the invariant: an honest engine signs one target in a *)
(* round.                                                                  *)
LEMMA PrecommitKeeps ==
  ASSUME FinalityInv, NEW id \in Ids, NEW header \in HeadersOf(config), Precommit(id, header)
  PROVE  FinalityInv'
<1>1. /\ config' = config /\ byzantine' = byzantine /\ finals' = finals
      /\ signed' = signed \cup {SignatureOf(id, header)}
      /\ MaySign(id, FinalityTarget(header))
  BY DEF Precommit, SignatureOf
<1>2. SoundConfig(config)' /\ (byzantine \subseteq Ids)' /\ (HeldBy(config, byzantine) = config.byzantine)'
  BY <1>1 DEF FinalityInv
<1>3. SignedOnce'
  <2> SUFFICES ASSUME NEW i \in Ids \ byzantine, NEW g \in HeadersOf(config), NEW h \in HeadersOf(config),
                      SignatureOf(i, g) \in signed', SignatureOf(i, h) \in signed',
                      g.input.genesis = h.input.genesis, g.input.round = h.input.round
               PROVE  FinalityTarget(g) = FinalityTarget(h)
    BY <1>1 DEF SignedOnce
  <2>1. ASSUME NEW k \in HeadersOf(config), SignatureOf(i, k) = SignatureOf(id, header)
        PROVE  i = id /\ FinalityTarget(k) = FinalityTarget(header)
    <3>1. KeyOfId(i) = KeyOfId(id) /\ SigningBytes(FinalityTarget(k)) = SigningBytes(FinalityTarget(header))
      BY <2>1 DEF SignatureOf
    <3> QED
      BY <3>1, KeysDiffer, SigningInjective
  <2>2. ASSUME NEW k \in HeadersOf(config), SignatureOf(i, k) \in signed, i = id,
               k.input.genesis = header.input.genesis, k.input.round = header.input.round
        PROVE  FinalityTarget(k) = FinalityTarget(header)
    BY <1>1, <2>2 DEF MaySign, SignatureOf, FinalityTarget
  <2>3. ASSUME NEW k \in HeadersOf(config), FinalityTarget(k) = FinalityTarget(header)
        PROVE  k.input.genesis = header.input.genesis /\ k.input.round = header.input.round
    BY <2>3 DEF FinalityTarget
  <2>4. CASE SignatureOf(i, g) \in signed /\ SignatureOf(i, h) \in signed
    BY <2>4 DEF FinalityInv, SignedOnce
  <2>5. CASE SignatureOf(i, g) = SignatureOf(id, header) /\ SignatureOf(i, h) = SignatureOf(id, header)
    BY <2>1, <2>5
  <2>6. CASE SignatureOf(i, g) = SignatureOf(id, header) /\ SignatureOf(i, h) \in signed
    BY <2>1, <2>2, <2>3, <2>6
  <2>7. CASE SignatureOf(i, g) \in signed /\ SignatureOf(i, h) = SignatureOf(id, header)
    BY <2>1, <2>2, <2>3, <2>7
  <2> QED
    BY <1>1, <2>4, <2>5, <2>6, <2>7
<1>4. ASSUME NEW f \in finals PROVE QuorumSigned(f)'
  <2>1. QuorumSigned(f) /\ SoundConfig(config)
    BY DEF FinalityInv
  <2>2. Signers(f.header) \subseteq Signers(f.header)'
    BY <1>1 DEF Signers, SignatureOf
  <2>3. HeldBy(config, Signers(f.header)) <= HeldBy(config, Signers(f.header)')
    BY <2>1, <2>2, HeldGrows
  <2>4. /\ HeldBy(config, Signers(f.header)) \in Nat /\ HeldBy(config, Signers(f.header)') \in Nat
        /\ QuorumVotingPower(config.set.total) \in Nat
    <3>1. config.set.total \in Nat \ {0} /\ config.byzantine \in 0..ByzantineLimit(config.set.total)
      BY <2>1, HeldTotal DEF SoundConfig
    <3> QED
      BY <3>1, <2>1, HeldIsSum, QuorumFacts
  <2>5. QuorumVotingPower(config.set.total) <= HeldBy(config, Signers(f.header)')
    BY <2>1, <2>3, <2>4 DEF QuorumSigned
  <2> QED
    BY <1>1, <2>1, <2>5 DEF QuorumSigned
<1> QED
  BY <1>1, <1>2, <1>3, <1>4 DEF FinalityInv

(* A verified certificate keeps the invariant. *)
LEMMA ObserveKeeps ==
  ASSUME MAX_VALIDATORS \in Nat, FinalityInv, NEW header \in HeadersOf(config),
         NEW votes \in ListsUpTo(VotePool, MAX_VALIDATORS), NEW body \in Bodies,
         Observe(header, votes, body)
  PROVE  FinalityInv'
<1> DEFINE new == [header |-> header, body |-> body]
<1>1. /\ config' = config /\ byzantine' = byzantine /\ signed' = signed
      /\ finals' = finals \cup {new} /\ ValidateRecordHashes(header, body)
  BY DEF Observe
<1>2. PICK certificate \in FinalityCertificate(FinalityTarget(header), votes) :
        Verify(certificate, header, Anchor(config), config) # {}
  BY DEF Observe
<1>3. /\ header.input.genesis = Here
      /\ QuorumVotingPower(config.set.total) <= HeldBy(config, Signers(header))
  BY <1>2, VerifiedHasQuorum DEF FinalityInv
<1>4. QuorumSigned(new)
  BY <1>1, <1>3 DEF QuorumSigned
<1>5. \A f \in finals' : QuorumSigned(f)
  BY <1>1, <1>4 DEF FinalityInv
<1>6. ASSUME NEW f, QuorumSigned(f) PROVE QuorumSigned(f)'
  BY <1>1, <1>6 DEF QuorumSigned, Signers
<1> QED
  BY <1>1, <1>5, <1>6 DEF FinalityInv, SignedOnce

(* Two quorums of one round share an honest validator. *)
LEMMA InvIsSound ==
  ASSUME FinalityInv PROVE FinalitySound
<1> DEFINE t == config.set.total
           q == QuorumVotingPower(t)
           Held(ids) == HeldBy(config, ids)
<1>1. /\ SoundConfig(config) /\ byzantine \subseteq Ids /\ Held(byzantine) = config.byzantine
      /\ SignedOnce /\ \A f \in finals : QuorumSigned(f)
  BY DEF FinalityInv
<1>2. t \in Nat \ {0} /\ Held(Ids) = t /\ config.byzantine \in 0..ByzantineLimit(t)
      /\ t <= MaxWord /\ MaxWord \in Nat
  BY <1>1, HeldTotal DEF SoundConfig
<1>3. /\ q \in 1..t /\ 2 * t < 3 * q /\ 3 * Held(byzantine) < t /\ q <= t - Held(byzantine)
  BY <1>1, <1>2, QuorumFacts
<1>4. \A ids : Held(ids) \in Nat
  BY <1>1, HeldIsSum
<1>5. \A ids, more : ids \cap more = {} => Held(ids \cup more) = Held(ids) + Held(more)
  BY <1>1, HeldSplits
<1>6. \A ids, more : ids \subseteq more => Held(ids) <= Held(more)
  BY <1>1, HeldGrows
<1> HIDE DEF t, q, Held
<1>7. HonestReachQuorum
  <2>1. (Ids \ byzantine) \cup byzantine = Ids /\ (Ids \ byzantine) \cap byzantine = {}
    BY <1>1
  <2>2. t = Held(Ids \ byzantine) + Held(byzantine)
    BY <1>2, <1>5, <2>1
  <2>3. q <= Held(Ids \ byzantine)
    BY <1>2, <1>3, <1>4, <2>2
  <2>4. q \in 1..MaxWord
    BY <1>2, <1>3 
  <2> QED
    BY <2>3, <2>4 DEF HonestReachQuorum, q, t, Held
<1>8. FinalityNeedsHonestThird
  <2> SUFFICES ASSUME NEW f \in finals
               PROVE  /\ f.header.input.genesis = Here
                      /\ 3 * Held({id \in Ids \ byzantine : SignatureOf(id, f.header) \in signed}) > t
    BY Zenon DEF FinalityNeedsHonestThird, SignatureOf, Held, t
  <2> DEFINE honest == {id \in Ids \ byzantine : SignatureOf(id, f.header) \in signed}
  <2>1. f.header.input.genesis = Here /\ q <= Held(Signers(f.header))
    BY <1>1 DEF QuorumSigned, q, t, Held
  <2>2. Signers(f.header) \subseteq honest \cup byzantine /\ honest \cap byzantine = {}
    BY DEF Signers
  <2> HIDE DEF honest
  <2>3. Held(Signers(f.header)) <= Held(honest) + Held(byzantine)
    <3>1. Held(honest \cup byzantine) = Held(honest) + Held(byzantine)
      BY <1>5, <2>2
    <3>2. Held(Signers(f.header)) <= Held(honest \cup byzantine)
      BY <1>6, <2>2
    <3> QED
      BY <3>1, <3>2
  <2>4. 3 * Held(honest) > t
    BY <1>2, <1>3, <1>4, <2>1, <2>3
  <2> QED
    BY <2>1, <2>4 DEF honest
<1>9. NoConflictingFinality
  <2> SUFFICES ASSUME NEW f \in finals, NEW g \in finals, f.header.input.round = g.header.input.round
               PROVE  f = g
    BY DEF NoConflictingFinality
  <2> DEFINE a == Signers(f.header)
             b == Signers(g.header)
  <2>1. /\ QuorumSigned(f) /\ QuorumSigned(g)
        /\ q <= Held(a) /\ q <= Held(b)
    BY <1>1 DEF QuorumSigned, q, t, Held
  <2>2. a \subseteq Ids /\ b \subseteq Ids
    BY DEF Signers
  <2>3. ASSUME a \cap b \subseteq byzantine PROVE FALSE
    <3> HIDE DEF a, b
    <3>1. (a \cup b) = a \cup (b \ a) /\ a \cap (b \ a) = {} /\ b = (b \ a) \cup (a \cap b)
          /\ (b \ a) \cap (a \cap b) = {}
      OBVIOUS
    <3>2. Held(a \cup b) = Held(a) + Held(b \ a) /\ Held(b) = Held(b \ a) + Held(a \cap b)
      BY <1>5, <3>1
    <3>3. Held(a \cup b) <= t /\ Held(a \cap b) <= Held(byzantine)
      BY <1>2, <1>6, <2>2, <2>3
    <3> QED
      BY <1>2, <1>3, <1>4, <2>1, <3>2, <3>3
  <2>4. PICK id \in Ids \ byzantine : SignatureOf(id, f.header) \in signed /\ SignatureOf(id, g.header) \in signed
    BY <2>3 DEF Signers
  <2>5. FinalityTarget(f.header) = FinalityTarget(g.header)
    BY <1>1, <2>1, <2>4 DEF SignedOnce, QuorumSigned
  <2>6. f.header.id = g.header.id
    BY <2>5 DEF FinalityTarget
  <2>7. ASSUME NEW h \in HeadersOf(config) PROVE h = [input |-> h.input, id |-> Digest("BLOCK", h.input)]
    <3>1. \E input : h \in BlockHeader(input)
      BY DEF HeadersOf
    <3> QED
      BY <3>1 DEF BlockHeader, Result
  <2>8. f.header = g.header
    <3>1. f.header.input = g.header.input
      BY <2>1, <2>6, <2>7 DEF QuorumSigned, Digest
    <3> QED
      BY <2>1, <2>7, <3>1 DEF QuorumSigned
  <2>9. f.body = g.body
    BY <2>1, <2>8 DEF QuorumSigned, ValidateRecordHashes, RecordCommitment, Digest
  <2> QED
    BY <2>1, <2>8, <2>9 DEF QuorumSigned
<1> QED
  BY <1>7, <1>8, <1>9 DEF FinalitySound

(* For every number of validators, every voting power and every list of    *)
(* votes that observers may put together: two certificates that            *)
(* FinalityCertificate::verify accepts in one round of a height are for    *)
(* one block with one list of records, more than a third of honest power   *)
(* signed it, and the honest validators reach quorum_voting_power without  *)
(* the others.                                                             *)
THEOREM FinalityIsSound ==
  ASSUME MAX_VALIDATORS \in Nat, MaxWord \in Nat, Powers \subseteq Nat
  PROVE  Spec => []FinalitySound
<1>1. Init => FinalityInv
  BY FinalityInit
<1>2. FinalityInv /\ [Next]_vars => FinalityInv'
  <2> SUFFICES ASSUME FinalityInv, [Next]_vars PROVE FinalityInv'
    OBVIOUS
  <2>1. ASSUME NEW id \in Ids, NEW header \in HeadersOf(config), Precommit(id, header) PROVE FinalityInv'
    BY <2>1, PrecommitKeeps
  <2>2. ASSUME NEW header \in HeadersOf(config), NEW votes \in ListsUpTo(VotePool, MAX_VALIDATORS),
               NEW body \in Bodies, Observe(header, votes, body)
        PROVE  FinalityInv'
    BY <2>2, ObserveKeeps
  <2>3. CASE UNCHANGED vars
    BY <2>3 DEF vars, FinalityInv, SignedOnce, QuorumSigned, Signers
  <2> QED
    BY <2>1, <2>2, <2>3 DEF Next
<1>3. FinalityInv => FinalitySound
  BY InvIsSound
<1> QED
  BY <1>1, <1>2, <1>3, PTL DEF Spec
=============================================================================
