------------------------------ MODULE SpongeAir ------------------------------
(***************************************************************************)
(* The constraint systems (AIRs) of noxis-stark-experiment.                *)
(*                                                                         *)
(* The rows of an execution trace form a behaviour: the first-row          *)
(* constraints fix its first row, the transition constraints the next row, *)
(* and the other constraints are conditions on every row.  A circuit is a  *)
(* list of sponge hashes that one state computes in sequence; a hash is    *)
(* [iv, input, digest], where input and digest are the expressions that    *)
(* the circuit forms from its constant witness columns and public values.  *)
(* A phase is one permutation, and a step one round of a phase.            *)
(*                                                                         *)
(* Two selector layouts exist.  The long one has a column for every step.  *)
(* The compact one has a column for every round, one for every phase and   *)
(* one that says that the last phase is over.                              *)
(***************************************************************************)
EXTENDS Poseidon2

(* The absorptions of a hash and the second squeeze. *)
PermutationsOf(hash) == Blocks(hash.input) + 1

(* The phases of a list of hashes: the hash, and the permutation in it. *)
PhasesOf(hashes) ==
  Iterate(LAMBDA phases, h :
            phases \o [k \in 1..PermutationsOf(hashes[h]) |-> [hash |-> h, step |-> k]],
          <<>>, 1, Len(hashes))

Air(layout, hashes) == [layout |-> layout, hashes |-> hashes, phases |-> PhasesOf(hashes)]
Steps(air) == Len(air.phases) * Rounds
(* The number of rows: a power of two that leaves room for the last state. *)
Height(air) == CHOOSE h \in {2^k : k \in 0..10} : Steps(air) < h /\ h <= 2 * Steps(air)

Unit(n, i) == [j \in 1..n |-> IF j = i THEN 1 ELSE 0]

(* v plus, for every selector i, its value times (Target(i) - v). *)
Blend(v, selectors, Target(_)) ==
  LET chosen == SelectSeq([i \in DOMAIN selectors |-> i], LAMBDA i : selectors[i] # 0)
      add(sum, i) == Given(Target(i), LAMBDA t :
                       [l \in Lanes |-> (sum[l] + selectors[i] * (t[l] - v[l])) % Prime])
  IN  Iterate(LAMBDA sum, k : add(sum, chosen[k]), v, 1, Len(chosen))

(***************************************************************************)
(* Expressions that both layouts share.                                    *)
(***************************************************************************)
InitialState(hash) == MatMul(External, Absorb(Fresh(hash.iv), hash.input, 1))

(* Two column groups in the order of a direction, which is a multiplier   *)
(* and not a condition.                                                    *)
NodeInput(direction, current, sibling) ==
  LET n == Len(current)
  IN  [l \in 1..(2 * n) |->
         IF l <= n THEN (current[l] + direction * (sibling[l] - current[l])) % Prime
         ELSE (sibling[l - n] + direction * (current[l - n] - sibling[l - n])) % Prime]

(* The circuit multiplies by the direction; the trace builder, which has a *)
(* bit in hand, takes one order or the other.                              *)
NodeInputs(side, direction, current, sibling) ==
  IF side = "trace" THEN Ordered(direction, current, sibling)
  ELSE NodeInput(direction, current, sibling)

(* The state after the last round of a phase: the next block is absorbed,  *)
(* or the next hash begins, or the state stays.                            *)
PhaseCompletion(air, p, final) ==
  LET at == air.phases[p]
  IN  IF at.step < PermutationsOf(air.hashes[at.hash])
      THEN MatMul(External, Absorb(final, air.hashes[at.hash].input, at.step + 1))
      ELSE IF at.hash < Len(air.hashes) THEN InitialState(air.hashes[at.hash + 1])
      ELSE final

(* The final absorption gives the first lanes of the digest and the second *)
(* squeeze its last one.                                                   *)
HashOutput(air, p, final) ==
  LET at == air.phases[p]
      hash == air.hashes[at.hash]
  IN  /\ at.step = Blocks(hash.input) => \A l \in 1..Rate : final[l] = hash.digest[l]
      /\ at.step = PermutationsOf(hash) => final[1] = hash.digest[Rate + 1]

(***************************************************************************)
(* The long layout.                                                        *)
(***************************************************************************)
LongFirst(air) == [state |-> InitialState(air.hashes[1]), selectors |-> Unit(Steps(air), 1)]
LongNext(air, row) ==
  [selectors |-> [s \in 1..Steps(air) |-> IF s = 1 THEN 0 ELSE row.selectors[s - 1]],
   state     |-> Blend(row.state, row.selectors, LAMBDA s :
                   IF s % Rounds = 0
                   THEN Given(Round(row.state, Rounds - 1), LAMBDA final :
                          PhaseCompletion(air, s \div Rounds, final))
                   ELSE Round(row.state, (s - 1) % Rounds))]
LongHolds(air, row) ==
  \A p \in DOMAIN air.phases :
    row.selectors[Rounds * p] # 0
    => Given(Round(row.state, Rounds - 1), LAMBDA final : HashOutput(air, p, final))

(***************************************************************************)
(* The compact layout.                                                     *)
(***************************************************************************)
CompactFirst(air) ==
  [state |-> InitialState(air.hashes[1]), round |-> Unit(Rounds, 1),
   phase |-> Unit(Len(air.phases), 1), done |-> 0]

NextDone(air, row) ==
  (row.done + row.round[Rounds] * row.phase[Len(air.phases)] * (1 - row.done)) % Prime

(* A last round that starts the phase anew when the last phase is over. *)
FaultyNextRound(air, row) ==
  [r \in 1..Rounds |-> IF r = 1 THEN row.round[Rounds] ELSE row.round[r - 1]]
(* The last round of the last phase stays selected. *)
NextRound(air, row) ==
  LET over == row.phase[Len(air.phases)]
  IN  [r \in 1..Rounds |->
         IF r = 1 THEN (row.round[Rounds] * (1 - over)) % Prime
         ELSE IF r < Rounds THEN row.round[r - 1]
         ELSE (row.round[Rounds - 1] + row.round[Rounds] * over) % Prime]

NextPhase(air, row) ==
  LET last == Len(air.phases)
      turn == row.round[Rounds]
      before(p) == IF p = 1 THEN 0 ELSE row.phase[p - 1]
  IN  [p \in 1..last |->
         IF p < last THEN (row.phase[p] + turn * (before(p) - row.phase[p])) % Prime
         ELSE (row.phase[p] + turn * before(p)) % Prime]

CompactState(air, row) ==
  LET final == Round(row.state, Rounds - 1)
      completed == Given(final, LAMBDA f :
                     Blend(row.state, row.phase, LAMBDA p : PhaseCompletion(air, p, f)))
  IN  Blend(row.state, [r \in 1..Rounds |-> ((1 - row.done) * row.round[r]) % Prime],
            LAMBDA r : IF r = Rounds THEN completed ELSE Round(row.state, r - 1))

CompactNext(air, row) ==
  [state |-> CompactState(air, row), round |-> NextRound(air, row),
   phase |-> NextPhase(air, row), done |-> NextDone(air, row)]
CompactHolds(air, row) ==
  /\ (row.done * (row.done - 1)) % Prime = 0
  /\ \A p \in DOMAIN air.phases :
       ((1 - row.done) * row.round[Rounds] * row.phase[p]) % Prime # 0
       => Given(Round(row.state, Rounds - 1), LAMBDA final : HashOutput(air, p, final))

(***************************************************************************)
(* The permutation alone: its output is the state of the last row.         *)
(***************************************************************************)
PermutationFirst(air) ==
  [state |-> MatMul(External, air.hashes[1].input), selectors |-> Unit(Rounds, 1)]
PermutationNext(row) ==
  [selectors |-> [r \in 1..Rounds |-> IF r = 1 THEN 0 ELSE row.selectors[r - 1]],
   state     |-> Blend(row.state, row.selectors, LAMBDA r : Round(row.state, r - 1))]

(***************************************************************************)
(* The trace builders, which count rows instead of reading selectors.      *)
(***************************************************************************)
BuildState(air, row, n) ==
  IF n > Steps(air) THEN row.state
  ELSE Given(Round(row.state, (n - 1) % Rounds), LAMBDA v :
         IF n % Rounds = 0 THEN PhaseCompletion(air, n \div Rounds, v) ELSE v)
BuildSelectors(air, n) == [s \in 1..Steps(air) |-> IF n = s THEN 1 ELSE 0]
BuildCompact(air, state, n) ==
  LET over == n > Steps(air)
  IN  [state |-> state,
       round |-> Unit(Rounds, IF over THEN Rounds ELSE ((n - 1) % Rounds) + 1),
       phase |-> Unit(Len(air.phases), IF over THEN Len(air.phases) ELSE ((n - 1) \div Rounds) + 1),
       done  |-> IF over THEN 1 ELSE 0]

(***************************************************************************)
(* Constraints on columns that hold bytes.  A column can hold any element  *)
(* of the field; it is a byte when boolean columns recompose it.           *)
(***************************************************************************)
IsBit(x) == (x * (x - 1)) % Prime = 0
Recomposed(bits) ==
  LET sum[k \in 0..Len(bits)] == IF k = 0 THEN 0 ELSE (sum[k - 1] + bits[k] * 2^(k - 1)) % Prime
  IN  sum[Len(bits)]

(* The bit columns are the prover's: some boolean ones recompose the byte. *)
ByteColumns(columns) ==
  \A i \in DOMAIN columns :
    \E bits \in [1..BitsPerByte -> {b \in 0..(Prime - 1) : IsBit(b)}] : columns[i] = Recomposed(bits)

(* The encoding of a digest that its owner would write. *)
IsEncoding(columns) == \A l \in 1..DigestLanes : LittleEndian(Chunk(columns, LaneBytes, l)) < Prime
AreBytes(columns) == \A i \in DOMAIN columns : columns[i] < Base

(***************************************************************************)
(* Column groups a prover might commit to instead: the packing of a pair   *)
(* of columns is unchanged when one gives a unit to the other, and the     *)
(* recomposition of a lane when the modulus is added.                      *)
(***************************************************************************)
Shifted(columns) ==
  {[columns EXCEPT ![i] = (@ + Base) % Prime, ![i + 1] = (@ - 1) % Prime] :
     i \in {j \in 1..(Len(columns) - 1) : j % PackWidth = 1}}
PlusPrime(columns) ==
  LET lane(l) == LittleEndian(Chunk(columns, LaneBytes, l)) + Prime
  IN  {[k \in DOMAIN columns |->
          IF (k - 1) \div LaneBytes = l - 1 THEN (lane(l) \div Base^((k - 1) % LaneBytes)) % Base
          ELSE columns[k]] :
         l \in {m \in 1..DigestLanes : lane(m) < Base^LaneBytes}}
Near(digest) == {[digest EXCEPT ![l] = (@ + 1) % Prime] : l \in DOMAIN digest}
=============================================================================
