------------------------------ MODULE Poseidon2 ------------------------------
(***************************************************************************)
(* The Poseidon2 evaluators of the candidate private domains: the dense    *)
(* reference of noxis-poseidon2-reference, the allocation-free kernel of   *)
(* noxis-poseidon2-core, the byte domains of                               *)
(* noxis-poseidon2-privacy-reference and the sparse-tree domains of        *)
(* noxis-nullifier-tree-reference.                                         *)
(*                                                                         *)
(* The construction is the program's over a small field: Width lanes       *)
(* instead of 24, Rate of them absorbed (15), a digest of Rate + 1 lanes   *)
(* (16) squeezed by two permutations, HalfFull full rounds on each side    *)
(* (4) of Partial partial ones (21).  A byte is a digit below Base,        *)
(* PackWidth of them (3) fit into one element and LaneBytes (4) write a    *)
(* digest lane.  Lanes and levels count from one, rounds from zero.        *)
(* A refused computation is the empty set, a successful one the set of its *)
(* result.                                                                 *)
(***************************************************************************)
EXTENDS Lists

CONSTANTS
  Prime,            \* BABYBEAR_MODULUS
  Width,            \* P24_WIDTH
  Rate,             \* RATE
  HalfFull,         \* P24_HALF_FULL_ROUNDS
  Partial,          \* P24_PARTIAL_ROUNDS
  External,         \* the external matrix of the parameter payload
  Diagonal,         \* the diagonal of the internal matrix
  RoundConstants,   \* one list of lanes for every round
  IV,               \* the capacity lanes of every domain
  Base,             \* 256
  PackWidth,        \* P24_BYTE_PACK_WIDTH
  LaneBytes,        \* four bytes for every lane
  TreeDepth         \* P24_TREE_DEPTH

(* x under the name that Op gives it: TLC evaluates a bound variable once, *)
(* and the comparison makes it tabulate a function.                        *)
Given(x, Op(_)) == CHOOSE y \in {Op(z) : z \in {w \in {x} : w = w}} : TRUE
Tabulated(f) == Given(f, LAMBDA g : g)
(* Op applied to v with each of the numbers from i to n in turn: those of  *)
(* the first half, then the others.                                        *)
RECURSIVE Iterate(_, _, _, _)
Iterate(Op(_, _), v, i, n) ==
  IF i > n THEN v
  ELSE IF i = n THEN Op(v, i)
  ELSE Given(Iterate(Op, v, i, (i + n) \div 2), LAMBDA x : Iterate(Op, x, (i + n) \div 2 + 1, n))

DigestLanes == Rate + 1
Rounds == 2 * HalfFull + Partial
Lanes == 1..Width
IsFullRound(round) == ~(HalfFull <= round /\ round < Rounds - HalfFull)
Canonical(elements) == \A i \in DOMAIN elements : elements[i] < Prime

(***************************************************************************)
(* The dense reference.                                                    *)
(***************************************************************************)
Seventh(x) == x^7 % Prime

MatMul(matrix, v) ==
  [i \in Lanes |->
     LET sum[j \in 0..Width] ==
           IF j = 0 THEN 0 ELSE (sum[j - 1] + matrix[i][j] * v[j]) % Prime
     IN  sum[Width]]

(* validate_internal_matrix: ones everywhere, and the diagonal added. *)
Internal == [i \in Lanes |-> [j \in Lanes |-> IF i = j THEN (Diagonal[i] + 1) % Prime ELSE 1]]

Round(v, round) ==
  LET constant == RoundConstants[round + 1]
      full == [i \in Lanes |-> Seventh((v[i] + constant[i]) % Prime)]
      partial == [v EXCEPT ![1] = Seventh((@ + constant[1]) % Prime)]
  IN  IF IsFullRound(round) THEN Given(full, LAMBDA w : MatMul(External, w))
      ELSE Given(partial, LAMBDA w : MatMul(Internal, w))

Permutation(v) ==
  Given(v, LAMBDA w : Iterate(Round, MatMul(External, w), 0, Rounds - 1))

Blocks(input) == (Len(input) + Rate - 1) \div Rate
(* Block b of the input added to the rate; a short last block leaves the   *)
(* other lanes alone.                                                      *)
Absorb(v, input, b) ==
  [i \in Lanes |-> LET k == (b - 1) * Rate + i
                   IN  IF i <= Rate /\ k <= Len(input) THEN (v[i] + input[k]) % Prime ELSE v[i]]
Fresh(iv) == [i \in Lanes |-> IF i <= Rate THEN 0 ELSE iv[i - Rate]]

(* hash16 and hash_elements: an empty input still takes one permutation. *)
Sponge(iv, input) ==
  LET absorbed(x) ==
        IF x = <<>> THEN Permutation(Fresh(iv))
        ELSE Iterate(LAMBDA v, b : Permutation(Absorb(v, x, b)), Fresh(iv), 1, Blocks(x))
      digest(first) == [i \in 1..DigestLanes |->
                          IF i <= Rate THEN first[i] ELSE Permutation(first)[1]]
  IN  Given(Given(input, absorbed), digest)

TreeArity(domain) ==
  CASE domain = "leaf" -> DigestLanes [] domain = "node" -> 2 * DigestLanes [] domain = "empty" -> 0
Hash16(domain, input) ==
  IF Len(input) = TreeArity(domain) /\ Canonical(input) THEN {Sponge(IV[domain], input)} ELSE {}

Leaf(note) == Sponge(IV["leaf"], note)
Node(left, right) == Sponge(IV["node"], left \o right)
(* empty_values: the empty subtrees of the heights 0 to TreeDepth. *)
EmptyValues ==
  Iterate(LAMBDA values, h : Append(values, Node(values[h], values[h])),
          <<Sponge(IV["empty"], <<>>)>>, 1, TreeDepth)

MaxSmallTreeNotes == 4
PathBit(index, level) == (index \div 2^(level - 1)) % 2
(* The nodes of every height, each level padded before it is halved. *)
SmallTreeLevels(notes) ==
  LET padded(nodes, empty) == IF Len(nodes) % 2 = 1 THEN Append(nodes, empty) ELSE nodes
      parents(nodes) == [i \in 1..(Len(nodes) \div 2) |-> Node(nodes[2 * i - 1], nodes[2 * i])]
      grow(empty, levels, h) == Append(levels, Given(padded(levels[h], empty[h]), parents))
  IN  Given(EmptyValues,
            LAMBDA empty : Iterate(LAMBDA levels, h : grow(empty, levels, h),
                                   <<[i \in DOMAIN notes |-> Leaf(notes[i])]>>, 1, TreeDepth))
SmallTreeRoot(notes) ==
  IF Len(notes) > MaxSmallTreeNotes \/ ~\A i \in DOMAIN notes : Canonical(notes[i]) THEN {}
  ELSE IF notes = <<>> THEN {EmptyValues[TreeDepth + 1]}
  ELSE {SmallTreeLevels(notes)[TreeDepth + 1][1]}

SiblingPlace(index, h) ==
  LET place == index \div 2^(h - 1) IN IF place % 2 = 0 THEN place + 1 ELSE place - 1

(* The siblings from the leaf to the root; a missing one is empty. *)
PathOf(empty, levels, index) ==
  [h \in 1..TreeDepth |->
     LET place == SiblingPlace(index, h)
     IN  IF place < Len(levels[h]) THEN levels[h][place + 1] ELSE empty[h]]

(* small_tree_path of an index counted from zero. *)
SmallTreePath(notes, index) ==
  IF \/ Len(notes) > MaxSmallTreeNotes \/ index >= Len(notes)
     \/ ~\A i \in DOMAIN notes : Canonical(notes[i])
  THEN {}
  ELSE {[leaf     |-> Leaf(notes[index + 1]),
         siblings |-> Given(EmptyValues, LAMBDA empty :
                        Given(SmallTreeLevels(notes), LAMBDA levels :
                          PathOf(empty, levels, index)))]}

Ordered(bit, current, sibling) ==
  IF bit = 1 THEN sibling \o current ELSE current \o sibling
RootFromPath(leaf, index, siblings) ==
  IF Canonical(leaf) /\ \A h \in 1..TreeDepth : Canonical(siblings[h])
  THEN {Iterate(LAMBDA value, h : Sponge(IV["node"], Ordered(PathBit(index, h), value, siblings[h])),
                leaf, 1, TreeDepth)}
  ELSE {}

(***************************************************************************)
(* The allocation-free kernel of noxis-poseidon2-core.  It adds with one   *)
(* conditional subtraction and applies the internal matrix as the sum of   *)
(* all lanes plus a diagonal.                                              *)
(***************************************************************************)
(* The reduction that lets the modulus itself through. *)
FaultyCoreAdd(left, right) == IF left + right > Prime THEN left + right - Prime ELSE left + right
CoreAdd(left, right) == IF left + right >= Prime THEN left + right - Prime ELSE left + right

CoreMatMul(v) ==
  [i \in Lanes |->
     LET sum[j \in 0..Width] ==
           IF j = 0 THEN 0 ELSE CoreAdd(sum[j - 1], (External[i][j] * v[j]) % Prime)
     IN  sum[Width]]
InternalJPlusDiagonal(v) ==
  LET sum == FoldList(CoreAdd, 0, v)
  IN  [i \in Lanes |-> CoreAdd(sum, (Diagonal[i] * v[i]) % Prime)]

CoreRound(v, round) ==
  LET constant == RoundConstants[round + 1]
      full == [i \in Lanes |-> Seventh(CoreAdd(v[i], constant[i]))]
      partial == [v EXCEPT ![1] = Seventh(CoreAdd(@, constant[1]))]
  IN  IF IsFullRound(round) THEN Given(full, CoreMatMul) ELSE Given(partial, InternalJPlusDiagonal)
CorePermutation(v) ==
  Given(v, LAMBDA w : Iterate(CoreRound, CoreMatMul(w), 0, Rounds - 1))

CoreSponge(domain, input) ==
  LET absorb(v, b) ==
        [i \in Lanes |-> LET k == (b - 1) * Rate + i
                         IN  IF i <= Rate /\ k <= Len(input) THEN CoreAdd(v[i], input[k]) ELSE v[i]]
      absorbed == IF input = <<>> THEN CorePermutation(Fresh(IV[domain]))
                  ELSE Iterate(LAMBDA v, b : CorePermutation(absorb(v, b)),
                               Fresh(IV[domain]), 1, Blocks(input))
      digest(first) == [i \in 1..DigestLanes |->
                          IF i <= Rate THEN first[i] ELSE CorePermutation(first)[1]]
  IN  Given(absorbed, digest)
CoreHash16(domain, input) ==
  IF Len(input) = TreeArity(domain) /\ Canonical(input) THEN {CoreSponge(domain, input)} ELSE {}

CoreNode(left, right) == CoreHash16("node", left \o right)

(* root_from_note_path: the leaf is hashed first, and every element is     *)
(* checked when the hash of its level absorbs it.                          *)
RootFromNotePath(note, index, siblings) ==
  LET above(values, h) ==
        UNION {IF PathBit(index, h) = 0 THEN CoreNode(current, siblings[h])
               ELSE CoreNode(siblings[h], current) : current \in values}
  IN  Iterate(above, CoreHash16("leaf", note), 1, TreeDepth)

(***************************************************************************)
(* The byte domains: noxis-poseidon2-privacy-reference (addresses, notes,  *)
(* nullifiers and intents) and noxis-nullifier-tree-reference (the sparse  *)
(* tree of nullifiers).  A byte is a digit below Base.  The fixed parts of *)
(* a preimage keep their order and have small lengths; a digest takes      *)
(* LaneBytes for every lane, the least significant first.                  *)
(***************************************************************************)
CONSTANTS
  KeyBytes, AssetBytes, ValueBytes, RhoBytes, RandomBytes, PositionBytes,
  IntentBytes,      \* P24_INTENT_COMMITMENT_INPUT_BYTES
  BitsPerByte       \* 8, with Base = 2^BitsPerByte

DigestBytes == DigestLanes * LaneBytes
VersionBytes == 2
NoteBytes == VersionBytes + AssetBytes + ValueBytes + DigestBytes + RhoBytes + RandomBytes
InputBytes(domain) ==
  CASE domain = "addr"         -> KeyBytes
    [] domain = "note"         -> NoteBytes
    [] domain = "nullifier"    -> KeyBytes + RhoBytes + DigestBytes + PositionBytes
    [] domain = "intent"       -> IntentBytes
    [] domain = "sparse_leaf"  -> DigestBytes
    [] domain = "sparse_node"  -> 2 * DigestBytes
    [] domain = "sparse_empty" -> 0

(* Digits, the least significant first, as a number. *)
LittleEndian(digits) ==
  LET sum[k \in 0..Len(digits)] ==
        IF k = 0 THEN 0 ELSE sum[k - 1] + digits[k] * Base^(k - 1)
  IN  sum[Len(digits)]
BigEndian(digits) ==
  LET value[k \in 0..Len(digits)] == IF k = 0 THEN 0 ELSE value[k - 1] * Base + digits[k]
  IN  value[Len(digits)]
Chunk(bytes, width, i) ==
  SubSeq(bytes, (i - 1) * width + 1, IF i * width < Len(bytes) THEN i * width ELSE Len(bytes))

(* byte_pack3le: a short last chunk is a smaller number. *)
Pack(bytes) ==
  [i \in 1..((Len(bytes) + PackWidth - 1) \div PackWidth) |->
     LittleEndian(Chunk(bytes, PackWidth, i)) % Prime]

(* write_digest and its inverse, which reduces. *)
WriteDigest(digest) ==
  [k \in 1..(Len(digest) * LaneBytes) |->
     LET lane == (k - 1) \div LaneBytes
     IN  (digest[lane + 1] \div Base^((k - 1) % LaneBytes)) % Base]
ReadDigest(bytes) ==
  [l \in 1..DigestLanes |-> LittleEndian(Chunk(bytes, LaneBytes, l)) % Prime]

HashBytes(domain, bytes) ==
  IF Len(bytes) = InputBytes(domain) THEN {Sponge(IV[domain], Pack(bytes))} ELSE {}

HashAddr(key) == HashBytes("addr", key)
HashNote(note) == HashBytes("note", note)
HashIntent(intent) == HashBytes("intent", intent)
(* hash_nullifier_preimage of key, rho, commitment and position. *)
NullifierPreimage(key, rho, commitment, position) == key \o rho \o commitment \o position
HashNullifier(key, rho, commitment, position) ==
  HashBytes("nullifier", NullifierPreimage(key, rho, commitment, position))

(***************************************************************************)
(* The sparse tree: a node hashes the bytes of its two children.           *)
(***************************************************************************)
SpentLeaf(nullifier) == HashBytes("sparse_leaf", WriteDigest(nullifier))
SparseNode(left, right) ==
  IF Canonical(left) /\ Canonical(right)
  THEN HashBytes("sparse_node", WriteDigest(left) \o WriteDigest(right)) ELSE {}
SparseEmpty == HashBytes("sparse_empty", <<>>)

(* path_bit: level n reads bit n % 8 of byte n / 8, the least significant  *)
(* first; levels count from zero.                                          *)
SparseBit(nullifier, level) ==
  (WriteDigest(nullifier)[(level \div BitsPerByte) + 1] \div 2^(level % BitsPerByte)) % 2
SparseDepth == DigestBytes * BitsPerByte
SparseStep(nullifier, siblings, currents, level) ==
  UNION {IF SparseBit(nullifier, level) = 1 THEN SparseNode(siblings[level + 1], current)
         ELSE SparseNode(current, siblings[level + 1]) : current \in currents}
SparseRootFromPath(nullifier, leaf, siblings) ==
  IF Len(siblings) # SparseDepth \/ ~Canonical(leaf) THEN {}
  ELSE Iterate(LAMBDA currents, level : SparseStep(nullifier, siblings, currents, level),
               {leaf}, 0, SparseDepth - 1)

(***************************************************************************)
(* A segment: the levels of one byte of the nullifier.                     *)
(***************************************************************************)
(* segment_directions: a byte index past the nullifier is refused. *)
SegmentDirections(nullifier, index) ==
  IF index < DigestBytes
  THEN {[i \in 1..BitsPerByte |-> SparseBit(nullifier, index * BitsPerByte + i - 1)]} ELSE {}
(* The nodes above the start, each from its predecessor. *)
SegmentValues(start, siblings, directions) ==
  Iterate(LAMBDA lists, i :
            UNION {LET current == IF i = 1 THEN start ELSE values[i - 1]
                       nodes == IF directions[i] = 1 THEN SparseNode(siblings[i], current)
                                ELSE SparseNode(current, siblings[i])
                   IN  {Append(values, node) : node \in nodes} : values \in lists},
          {<<>>}, 1, BitsPerByte)
=============================================================================
