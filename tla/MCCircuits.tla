----------------------------- MODULE MCCircuits -----------------------------
(***************************************************************************)
(* The hashes and circuits over the field of 17 elements, three lanes      *)
(* wide, with bytes of two bits, values of two bytes, note trees of three  *)
(* levels and sparse trees of eighteen.  A behaviour is one of three: the  *)
(* rows of a trace, a sequential preflight, or a growing small tree.       *)
(***************************************************************************)
EXTENDS CircuitTraces

VARIABLES
  exercise, request, current, segment, answer, notes

MCExternal == <<<<2, 1, 1>>, <<1, 2, 1>>, <<1, 1, 3>>>>
MCDiagonal == <<16, 3, 5>>
MCRoundConstants == <<<<3, 14, 7>>, <<9, 0, 0>>, <<16, 5, 11>>>>
MCIV == [leaf |-> <<1>>, node |-> <<2>>, empty |-> <<3>>, addr |-> <<4>>, note |-> <<5>>,
         nullifier |-> <<6>>, intent |-> <<7>>, envelope |-> <<8>>,
         sparse_leaf |-> <<9>>, sparse_node |-> <<10>>, sparse_empty |-> <<11>>]

(* Hash and path circuits, and those over bytes. *)
MCStates == {<<1, 2, 3>>, <<0, 16, 9>>}
MCDigests == {<<16, 1, 16>>, <<5, 12, 8>>, <<3, 17, 2>>}
MCSegmentNullifiers == {<<6, 1, 16>>}
MCStrangerBytes == WriteDigest(<<2, 16, 5>>)
MCPreimages ==
  [addr   |-> {<<0, 0>>, <<3, 3>>, <<2, 1>>, <<1>>},
   note   |-> {<<0, 1, a, 0, v>> \o MCStrangerBytes \o <<1, 2>> : a, v \in {1, 3}},
   intent |-> {[i \in 1..20 |-> (3 * i) % 4], [i \in 1..20 |-> 0]}]

(* Transfers: balanced and not, beyond the width of a value, with an input *)
(* of zero, of two assets, with a stranger's note and one of another       *)
(* version.                                                                *)
MCKeys == {<<1, 2>>}
MCNoteOf(version, asset, amount, recipient) ==
  <<0, version, asset, amount \div Base, amount % Base>> \o recipient \o <<2, 1>>
MCNote(asset, amount) == MCNoteOf(1, asset, amount, WriteDigest(CHOOSE d \in HashAddr(<<1, 2>>) : TRUE))
MCQuad(a, b, c, d) == <<MCNote(1, a), MCNote(1, b), MCNote(1, c), MCNote(1, d)>>
MCTransfers ==
  {MCQuad(1, 3, 4, 0), MCQuad(7, 6, 2, 11), MCQuad(0, 5, 2, 3), MCQuad(5, 5, 5, 6),
   MCQuad(10, 10, 1, 3), MCQuad(15, 14, 14, 15),
   [MCQuad(2, 2, 3, 1) EXCEPT ![3] = MCNote(2, 3)],
   [MCQuad(2, 2, 3, 1) EXCEPT ![1] = MCNoteOf(1, 1, 2, MCStrangerBytes)],
   [MCQuad(2, 2, 3, 1) EXCEPT ![1] = MCNoteOf(2, 1, 2, WriteDigest(CHOOSE d \in HashAddr(<<1, 2>>) : TRUE))]}
MCAssets == {<<1>>, <<2>>}
MCSiblings == {<<<<16, 1, 16>>, <<5, 12, 8>>, <<0, 7, 3>>>>}
MCPositions == {0, 1, 6}

(* Preflights. *)
MCDigest(n) == <<n % 17, (3 * n + 1) % 17, (n * n) % 17>>
Preflight == INSTANCE NxsmPreflight WITH
  Nullifiers <- {<<6, 1, 16>>, <<0, 0, 0>>, <<16, 16, 16>>, <<1, 6, 9>>},
  SiblingLists <- {[i \in 1..18 |-> MCDigest(i)], [i \in 1..18 |-> MCDigest(5 * i + 2)],
                   [i \in 1..18 |-> IF i = 11 THEN <<3, 17, 2>> ELSE MCDigest(i)]},
  Strays <- {<<4, 4, 4>>}

(* Small trees.  The two Poseidon2 evaluators keep no state: the notes are *)
(* the caller's, one more than the reference allows, and some of their     *)
(* elements are not canonical.                                             *)
Notes == {<<0, 0, 0>>, <<16, 1, 16>>, <<3, 17, 2>>}
AppendNote(note) ==
  /\ Len(notes) <= MaxSmallTreeNotes
  /\ notes' = Append(notes, note)

(***************************************************************************)
(* The three in one run.                                                   *)
(***************************************************************************)
preflightVars == <<request, current, segment, answer>>
circuitVars == <<exercise, traceVars, preflightVars, notes>>
NoTrace ==
  /\ claim = [honest |-> FALSE] /\ verdict = "none" /\ number = 0
  /\ tracks = <<>> /\ builders = <<>> /\ rows = <<>> /\ arithmetic = <<>> /\ built = <<>>
NoPreflight == request = <<>> /\ current = <<>> /\ segment = 0 /\ answer = "idle"

NoCircuits == exercise = "" /\ notes = <<>> /\ NoTrace /\ NoPreflight
CircuitsInit ==
  /\ notes = <<>>
  /\ \/ exercise = "trace" /\ TraceInit /\ NoPreflight
     \/ exercise = "preflight" /\ NoTrace /\ Preflight!Init
     \/ exercise = "tree" /\ NoTrace /\ NoPreflight
CircuitsNext ==
  \/ exercise = "trace" /\ TraceNext /\ UNCHANGED <<exercise, preflightVars, notes>>
  \/ exercise = "preflight" /\ Preflight!Next /\ UNCHANGED <<exercise, traceVars, notes>>
  \/ /\ exercise = "tree" /\ \E note \in Notes : AppendNote(note)
     /\ UNCHANGED <<exercise, traceVars, preflightVars>>
CircuitsSpec == CircuitsInit /\ [][CircuitsNext]_circuitVars

(* A receipt of the sequential preflight is an absence; see NxsmPreflight. *)
PreflightIsAbsence == Preflight!PreflightIsAbsence

Indices == 0..(Len(notes) - 1)

(***************************************************************************)
(* The two evaluators compute the same digests and refuse the same inputs, *)
(* in every domain: the kernel's conditional subtraction and its           *)
(* structured internal matrix are the reference's reduction and product.   *)
(***************************************************************************)
KernelMatchesReference ==
  /\ CoreHash16("empty", <<>>) = Hash16("empty", <<>>)
  /\ \A i \in DOMAIN notes :
       /\ CoreHash16("leaf", notes[i]) = Hash16("leaf", notes[i])
       /\ \A j \in DOMAIN notes :
            CoreNode(notes[i], notes[j]) = Hash16("node", notes[i] \o notes[j])

(***************************************************************************)
(* The path that small_tree_path builds for a note leads to the root of    *)
(* small_tree_root, in both evaluators and for every fill of the tree; and *)
(* a list that one of the two refuses has neither root nor path.           *)
(***************************************************************************)
PathsReachTheRoot ==
  \A i \in Indices :
    /\ (SmallTreePath(notes, i) = {}) = (SmallTreeRoot(notes) = {})
    /\ \A path \in SmallTreePath(notes, i) :
         /\ RootFromPath(path.leaf, i, path.siblings) = SmallTreeRoot(notes)
         /\ RootFromNotePath(notes[i + 1], i, path.siblings) = SmallTreeRoot(notes)

(* The two Poseidon2 evaluators and the small trees over them agree on     *)
(* every digest, path and refusal.                                         *)
ReferencesAgree == exercise = "tree" => KernelMatchesReference /\ PathsReachTheRoot
=============================================================================
