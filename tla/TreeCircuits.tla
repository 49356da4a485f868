---------------------------- MODULE TreeCircuits ----------------------------
(***************************************************************************)
(* The circuits of noxis-stark-experiment/src/lib.rs: the permutation, one *)
(* leaf, one ordered node, one private path step, and the private paths of *)
(* two levels (long layout) and of the whole tree (compact layout).        *)
(*                                                                         *)
(* A claim is [shape, honest, start, siblings, directions, middles,        *)
(* output]: start is the hashed or first digest, middles the digests that  *)
(* a path passes, output the public result.                                *)
(***************************************************************************)
EXTENDS SpongeAir

CONSTANTS
  Digests,        \* digests that occur, canonical or not
  States          \* states of the permutation circuit

Shapes == {"permutation", "leaf", "node", "step", "path2", "path32"}
Levels(shape) == CASE shape = "path2" -> 2 [] shape = "path32" -> TreeDepth [] OTHER -> 1

(* The hashes of a path whose inputs are formed on one side. *)
PathHashes(c, side) ==
  [i \in 1..Levels(c.shape) |->
     [iv     |-> IV["node"],
      input  |-> NodeInputs(side, c.directions[i], IF i = 1 THEN c.start ELSE c.middles[i - 1], c.siblings[i]),
      digest |-> IF i = Levels(c.shape) THEN c.output ELSE c.middles[i]]]
HashesOf(c, side) ==
  CASE c.shape = "permutation" -> <<[iv |-> <<>>, input |-> c.start, digest |-> c.output]>>
    [] c.shape = "leaf" -> <<[iv |-> IV["leaf"], input |-> c.start, digest |-> c.output]>>
    [] c.shape = "node" ->
         <<[iv |-> IV["node"], input |-> c.start \o c.siblings[1], digest |-> c.output]>>
    [] OTHER -> PathHashes(c, side)
LayoutOf(c) ==
  CASE c.shape = "permutation" -> "permutation" [] c.shape = "path32" -> "compact" [] OTHER -> "long"

TreeCircuit(c) == Air(LayoutOf(c), HashesOf(c, "circuit"))
TreeStatic(c) == \A i \in DOMAIN c.directions : (c.directions[i] * (c.directions[i] - 1)) % Prime = 0

(* The trace builders order the two digests themselves. *)
TreeBuilt(c) == Air(LayoutOf(c), HashesOf(c, "trace"))

(***************************************************************************)
(* The provers: the public values come from the reference, which refuses   *)
(* digests that are not canonical.                                         *)
(***************************************************************************)
ClaimOf(shape, start, siblings, directions, values) ==
  [shape |-> shape, honest |-> TRUE, start |-> start, siblings |-> siblings,
   directions |-> directions, middles |-> SubSeq(values, 1, Len(values) - 1),
   output |-> values[Len(values)]]

ProvePermutation(state) ==
  IF Canonical(state) THEN {ClaimOf("permutation", state, <<>>, <<>>, <<Permutation(state)>>)} ELSE {}
ProveLeaf(note) ==
  {ClaimOf("leaf", note, <<>>, <<>>, <<digest>>) : digest \in Hash16("leaf", note)}
ProveNode(left, right) ==
  {ClaimOf("node", left, <<right>>, <<>>, <<digest>>) : digest \in Hash16("node", left \o right)}

(* The digests along a path, each from its predecessor. *)
PathValues(start, siblings, directions, side) ==
  Iterate(LAMBDA values, i :
            Append(values, Sponge(IV["node"],
              NodeInputs(side, directions[i], IF i = 1 THEN start ELSE values[i - 1], siblings[i]))),
          <<>>, 1, Len(siblings))
ProvePath(shape, start, index, siblings) ==
  LET directions == [i \in DOMAIN siblings |-> PathBit(index, i)]
  IN  IF Canonical(start) /\ \A i \in DOMAIN siblings : Canonical(siblings[i])
      THEN {ClaimOf(shape, start, siblings, directions,
                    PathValues(start, siblings, directions, "trace"))}
      ELSE {}

(* One digest beside the first, and one beside those above. *)
SiblingLists(levels) ==
  {[i \in 1..levels |-> IF i = 1 THEN d ELSE e] : d, e \in Digests}
Proved ==
  (UNION {ProvePermutation(state) : state \in States})
    \cup (UNION {ProveLeaf(d) : d \in Digests})
    \cup (UNION {ProveNode(d, e) : d, e \in Digests})
    \cup UNION {UNION {ProvePath(shape, d, index, siblings) :
                         d \in Digests, index \in 0..(2^Levels(shape) - 1),
                         siblings \in SiblingLists(Levels(shape))} :
                shape \in {"step", "path2", "path32"}}

(***************************************************************************)
(* Other claims: one lane of a digest differs, or a direction is not a bit *)
(* and the digests fit it.                                                 *)
(***************************************************************************)
Altered(c) ==
  {[c EXCEPT !.output = d, !.honest = FALSE] : d \in Near(c.output)}
    \cup UNION {{[c EXCEPT !.middles[i] = d, !.honest = FALSE] : d \in Near(c.middles[i])} :
                i \in DOMAIN c.middles}
Turned(c) ==
  {LET directions == [c.directions EXCEPT ![i] = 2]
   IN  [ClaimOf(c.shape, c.start, c.siblings, directions,
                PathValues(c.start, c.siblings, directions, "circuit")) EXCEPT !.honest = FALSE] :
     i \in DOMAIN c.directions}
TreeClaims == UNION {{c} \cup Altered(c) \cup Turned(c) : c \in Proved}

(* The public output is what the reference computes from the witness. *)
TreeRelation(c) ==
  CASE c.shape = "permutation" -> c.output = Permutation(c.start)
    [] c.shape = "leaf" -> c.output = Leaf(c.start)
    [] c.shape = "node" -> c.output = Node(c.start, c.siblings[1])
    [] OTHER ->
         /\ \A i \in DOMAIN c.directions : c.directions[i] \in {0, 1}
         /\ c.output = PathValues(c.start, c.siblings, c.directions, "trace")[Levels(c.shape)]
=============================================================================
