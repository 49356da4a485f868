--------------------------- MODULE CircuitTraces ----------------------------
(***************************************************************************)
(* The rows of one trace, from the first to the last, for every circuit.   *)
(*                                                                         *)
(* A claim is what a prover commits to: the public values and the witness  *)
(* columns, which the transition constraints keep constant.  It need not   *)
(* come from the repository's prover.  The selectors and the states have   *)
(* no freedom left: the first row and the transitions determine them.  The *)
(* carry columns are the prover's choice, row by row.  For an honest claim *)
(* the rows that the trace builder writes are followed beside the rows     *)
(* that the constraints demand.                                            *)
(*                                                                         *)
(* The proof system itself is external: a proof verifies exactly when some *)
(* trace of the circuit's height satisfies every constraint.               *)
(***************************************************************************)
EXTENDS TransferCircuits

CONSTANTS
  States, Digests,              \* see TreeCircuits
  Preimages, SegmentNullifiers  \* see ByteCircuits

VARIABLES
  claim,
  tracks,     \* the circuits of the claim, one for every state
  builders,   \* the circuits as the trace builder of an honest claim sees them
  rows,       \* their current rows
  arithmetic, \* the current row of the arithmetic columns
  built,      \* the same rows as the trace builder writes them
  number,     \* the number of the row, from one
  verdict     \* "open" until the last row or the first violated constraint

traceVars == <<claim, tracks, builders, rows, arithmetic, built, number, verdict>>

Tree == INSTANCE TreeCircuits
Byte == INSTANCE ByteCircuits WITH Nullifiers <- SegmentNullifiers

IsTree(c) == c.shape \in Tree!Shapes
IsByte(c) == c.shape \in Byte!Shapes
Claims == Tree!TreeClaims \cup Byte!ByteClaims \cup TransferClaims
CircuitsOf(c) ==
  IF IsTree(c) THEN <<Tree!TreeCircuit(c)>> ELSE IF IsByte(c) THEN <<Byte!ByteCircuit(c)>> ELSE TracksOf(c)
BuildersOf(c) ==
  IF IsTree(c) THEN <<Tree!TreeBuilt(c)>> ELSE IF IsByte(c) THEN <<Byte!ByteBuilt(c)>> ELSE BuiltTracks(c)
Static(c) ==
  IF IsTree(c) THEN Tree!TreeStatic(c) ELSE IF IsByte(c) THEN Byte!ByteStatic(c)
  ELSE TransferStatic(c) /\ VerifierAgrees(c)
Relation(c) ==
  IF IsTree(c) THEN Tree!TreeRelation(c) ELSE IF IsByte(c) THEN Byte!ByteRelation(c)
  ELSE TransferRelation(c)
Documented(c) ==
  IF IsTree(c) THEN TRUE ELSE IF IsByte(c) THEN Byte!ByteDocumented(c) ELSE TransferDocumented(c)
ValuesOf(c) == IF IsTree(c) \/ IsByte(c) THEN <<>> ELSE c.values

(***************************************************************************)
(* The rows of one circuit.                                                *)
(***************************************************************************)
FirstRow(air) ==
  CASE air.layout = "long"        -> LongFirst(air)
    [] air.layout = "compact"     -> CompactFirst(air)
    [] air.layout = "permutation" -> PermutationFirst(air)
FollowingRow(air, row) ==
  CASE air.layout = "long"        -> LongNext(air, row)
    [] air.layout = "compact"     -> CompactNext(air, row)
    [] air.layout = "permutation" -> PermutationNext(row)
RowsOf(air) == IF air.layout = "permutation" THEN 2^2 ELSE Height(air)
Holds(air, row, n) ==
  CASE air.layout = "long"        -> LongHolds(air, row)
    [] air.layout = "compact"     -> CompactHolds(air, row)
    [] air.layout = "permutation" -> n = RowsOf(air) => row.state = air.hashes[1].digest

(* Row n as the trace builder writes it, and the state of the next row. *)
BuiltRow(air, state, n) ==
  CASE air.layout = "compact"     -> BuildCompact(air, state, n)
    [] air.layout = "long"        -> [state |-> state, selectors |-> BuildSelectors(air, n)]
    [] air.layout = "permutation" ->
         [state |-> state, selectors |-> [r \in 1..Rounds |-> IF n = r THEN 1 ELSE 0]]
BuiltState(air, row, n) ==
  IF air.layout = "permutation" THEN IF n > Rounds THEN row.state ELSE Round(row.state, n - 1)
  ELSE BuildState(air, row, n)

(***************************************************************************)
(* The trace: circuits side by side have the height of the longest one.    *)
(***************************************************************************)
Rows ==
  LET heights == {RowsOf(tracks[i]) : i \in DOMAIN tracks}
  IN  CHOOSE h \in heights : \A other \in heights : h >= other
(* The columns of a static condition are the same in every row. *)
RowBroken ==
  \/ number = 1 /\ ~Static(claim)
  \/ \E i \in DOMAIN tracks : ~Holds(tracks[i], rows[i], number)
RowHolds == ~RowBroken

(* The carries of the next row: the builder's, or any.  No condition       *)
(* relates them once the selectors are over.                               *)
NextCarries ==
  IF ValuesOf(claim) = <<>> \/ number > ValueBytes
  THEN {[input |-> arithmetic.input, output |-> arithmetic.output]}
  ELSE {next \in IF claim.honest THEN {BuiltCarries(claim.values[1], arithmetic, number)}
                 ELSE [input : {0, 1}, output : {0, 1}] :
          CarriesHold(claim.values[1], arithmetic, next)}

TraceInit ==
  /\ claim \in Claims
  /\ tracks = CircuitsOf(claim)
  /\ builders = IF claim.honest THEN BuildersOf(claim) ELSE <<>>
  /\ rows = [i \in DOMAIN tracks |-> FirstRow(tracks[i])]
  /\ arithmetic = ValueFirst
  /\ built = IF claim.honest
             THEN [i \in DOMAIN tracks |-> BuiltRow(builders[i], rows[i].state, 1)] ELSE rows
  /\ number = 1
  /\ verdict = "open"

NextRow ==
  /\ verdict = "open" /\ number < Rows /\ RowHolds
  /\ rows' = Tabulated([i \in DOMAIN tracks |-> FollowingRow(tracks[i], rows[i])])
  /\ built' = IF claim.honest
              THEN Tabulated([i \in DOMAIN tracks |->
                     BuiltRow(builders[i], BuiltState(builders[i], built[i], number), number + 1)])
              ELSE rows'
  /\ \E next \in NextCarries :
       arithmetic' = [selectors |-> NextSelectors(arithmetic), input |-> next.input, output |-> next.output]
  /\ number' = number + 1
  /\ UNCHANGED <<claim, tracks, builders, verdict>>

Accept ==
  /\ verdict = "open" /\ number = Rows /\ RowHolds
  /\ verdict' = "accepted"
  /\ UNCHANGED <<claim, tracks, builders, rows, arithmetic, built, number>>

Refuse ==
  /\ verdict = "open" /\ ~(RowHolds /\ (number < Rows => NextCarries # {}))
  /\ verdict' = "refused"
  /\ UNCHANGED <<claim, tracks, builders, rows, arithmetic, built, number>>

TraceNext == NextRow \/ Accept \/ Refuse
TraceSpec == TraceInit /\ [][TraceNext]_traceVars

(***************************************************************************)
(* Soundness of the constraints, whatever the prover puts into the witness *)
(* columns and the carries: an accepted trace shows the relation that the  *)
(* circuit is meant to establish.  See TreeRelation, ByteRelation and      *)
(* TransferRelation.                                                       *)
(***************************************************************************)
AcceptedIsTrue == verdict = "accepted" => Relation(claim)

(***************************************************************************)
(* What the documents say beyond it: "the 64 bytes inside H_NULLIFIER      *)
(* encode exactly the private H_NOTE digest in canonical u32le lane        *)
(* order", "the final carries are zero, so no sum exceeds u128", and the   *)
(* digests of a segment "are serialized as canonical little-endian u32     *)
(* bytes".                                                                 *)
(***************************************************************************)
AcceptedAsDocumented == verdict = "accepted" => Documented(claim)

(***************************************************************************)
(* Completeness: the trace builders write, row for row and side by side,   *)
(* the trace that the constraints demand, selectors and padding rows       *)
(* included, and the proof of an honest claim verifies.                    *)
(***************************************************************************)
HonestIsAccepted == claim.honest => built = rows /\ verdict # "refused"
=============================================================================
