---------------------------- MODULE ByteCircuits ----------------------------
(***************************************************************************)
(* The circuits over byte columns: addr.rs (a private key), note.rs (a     *)
(* private note, with or without its public asset), intent.rs (a public    *)
(* intent) and nxsm.rs (one byte of an absent nullifier's path).           *)
(*                                                                         *)
(* A claim is [shape, honest, bytes, packed, asset, digest] for the first  *)
(* three, where packed is a witness column group, or the public elements   *)
(* of an intent.  A segment has siblings and middles in bytes, and the     *)
(* start, the directions and the prefix byte in public.                    *)
(***************************************************************************)
EXTENDS SpongeAir

CONSTANTS
  Preimages,      \* [addr |-> ..., note |-> ..., intent |-> ...], sets of byte lists
  Assets,         \* public assets
  Nullifiers,     \* nullifiers whose path segments are proved
  Digests         \* start nodes and siblings of a segment

Shapes == {"addr", "note", "asset_note", "intent", "segment"}
Domain(c) == IF c.shape = "asset_note" THEN "note" ELSE c.shape
AssetOf(note) == SubSeq(note, VersionBytes + 1, VersionBytes + AssetBytes)

(***************************************************************************)
(* Each of the first three circuits is one hash.  The constraints take its *)
(* input from the packed columns, or for an intent from the public         *)
(* elements; the trace builders pack the preimage themselves.              *)
(***************************************************************************)
HashOf(domain, input, c) == <<[iv |-> IV[domain], input |-> input, digest |-> c.digest]>>
AddrAir(c) == Air("long", HashOf("addr", c.packed, c))
NoteAir(c) == Air("long", HashOf("note", c.packed, c))
IntentAir(c) == Air("long", HashOf("intent", c.packed, c))
AddrTrace(c) == Air("long", HashOf("addr", Pack(c.bytes), c))
NoteTrace(c) == Air("long", HashOf("note", Pack(c.bytes), c))
IntentTrace(c) == Air("long", HashOf("intent", Pack(c.bytes), c))

AddrStatic(c) == ByteColumns(c.bytes) /\ c.packed = Pack(c.bytes)
(* A bound asset is compared byte by byte. *)
NoteStatic(c) ==
  /\ ByteColumns(c.bytes) /\ c.packed = Pack(c.bytes)
  /\ c.shape = "asset_note" => AssetOf(c.bytes) = c.asset
IntentStatic(c) == ByteColumns(c.bytes) /\ c.packed = Pack(c.bytes)

(* A segment: level i hashes the ordered bytes of the current node and its *)
(* sibling, and the recomposed bytes of the next node are the digest.      *)
CurrentBytes(c, i) == IF i = 1 THEN WriteDigest(c.start) ELSE c.middles[i - 1]
SegmentHashes(c, side) ==
  [i \in 1..BitsPerByte |->
     [iv     |-> IV["sparse_node"],
      input  |-> Pack(NodeInputs(side, c.directions[i], CurrentBytes(c, i), c.siblings[i])),
      digest |-> IF i = BitsPerByte THEN c.digest ELSE ReadDigest(c.middles[i])]]

SegmentAir(c) == Air("compact", SegmentHashes(c, "circuit"))
SegmentTrace(c) == Air("compact", SegmentHashes(c, "trace"))
SegmentStatic(c) ==
  /\ \A i \in DOMAIN c.siblings : ByteColumns(c.siblings[i])
  /\ \A i \in DOMAIN c.middles : ByteColumns(c.middles[i])
  /\ \A i \in DOMAIN c.directions : IsBit(c.directions[i])
  /\ c.prefix = Recomposed(c.directions)

ByteCircuit(c) ==
  CASE c.shape = "addr"                  -> AddrAir(c)
    [] c.shape \in {"note", "asset_note"} -> NoteAir(c)
    [] c.shape = "intent"                -> IntentAir(c)
    [] c.shape = "segment"               -> SegmentAir(c)
ByteBuilt(c) ==
  CASE c.shape = "addr"                  -> AddrTrace(c)
    [] c.shape \in {"note", "asset_note"} -> NoteTrace(c)
    [] c.shape = "intent"                -> IntentTrace(c)
    [] c.shape = "segment"               -> SegmentTrace(c)
ByteStatic(c) ==
  CASE c.shape = "addr"                  -> AddrStatic(c)
    [] c.shape \in {"note", "asset_note"} -> NoteStatic(c)
    [] c.shape = "intent"                -> IntentStatic(c)
    [] c.shape = "segment"               -> SegmentStatic(c)

(***************************************************************************)
(* The provers.                                                            *)
(***************************************************************************)
Blank ==
  [shape |-> "", honest |-> TRUE, bytes |-> <<>>, packed |-> <<>>, asset |-> <<>>, digest |-> <<>>,
   siblings |-> <<>>, middles |-> <<>>, start |-> <<>>, directions |-> <<>>, prefix |-> 0]
PackedClaim(shape, bytes, asset, digest) ==
  [Blank EXCEPT !.shape = shape, !.bytes = bytes, !.packed = Pack(bytes), !.asset = asset,
                !.digest = digest]
ProveAddr(key) == {PackedClaim("addr", key, <<>>, d) : d \in HashAddr(key)}
ProveNote(note) == {PackedClaim("note", note, <<>>, d) : d \in HashNote(note)}
(* The prover does not compare the assets itself: the trace for another    *)
(* asset does not satisfy the circuit.                                     *)
ProveNoteWithAsset(note, asset) ==
  {[PackedClaim("asset_note", note, asset, d) EXCEPT !.honest = (AssetOf(note) = asset)] :
     d \in HashNote(note)}
ProveIntent(intent) == {PackedClaim("intent", intent, <<>>, d) : d \in HashIntent(intent)}

SegmentClaim(nullifier, index, start, siblings, directions, values) ==
  [Blank EXCEPT !.shape = "segment", !.digest = values[BitsPerByte], !.start = start,
     !.directions = directions,
     !.siblings = [i \in 1..BitsPerByte |-> WriteDigest(siblings[i])],
     !.middles = [i \in 1..(BitsPerByte - 1) |-> WriteDigest(values[i])],
     !.prefix = WriteDigest(nullifier)[index + 1]]
ProveSegment(nullifier, index, start, siblings) ==
  UNION {{SegmentClaim(nullifier, index, start, siblings, directions, values) :
            values \in SegmentValues(start, siblings, directions)} :
         directions \in SegmentDirections(nullifier, index)}

Proved ==
  (UNION {ProveAddr(key) : key \in Preimages["addr"]})
    \cup (UNION {ProveNote(note) \cup UNION {ProveNoteWithAsset(note, asset) : asset \in Assets} :
                 note \in Preimages["note"]})
    \cup (UNION {ProveIntent(intent) : intent \in Preimages["intent"]})
    \cup UNION {ProveSegment(n, index, start, siblings) :
                  n \in Nullifiers, index \in {0, 1, DigestBytes},
                  start \in Digests, siblings \in [1..BitsPerByte -> Digests]}

(***************************************************************************)
(* Other claims.                                                           *)
(***************************************************************************)
Fit(c) == [c EXCEPT !.digest = Sponge(IV[Domain(c)], c.packed), !.honest = FALSE]
AlteredPacked(c) ==
  {[c EXCEPT !.digest = d, !.honest = FALSE] : d \in Near(c.digest)}
    \cup {[c EXCEPT !.bytes = b, !.honest = FALSE] : b \in Shifted(c.bytes) \cup Near(c.bytes)}
    \cup {Fit([c EXCEPT !.packed = p]) : p \in Near(c.packed)}
FitSegment(c) ==
  Given(SegmentHashes(c, "circuit"), LAMBDA hashes :
    [c EXCEPT !.digest = Sponge(IV["sparse_node"], hashes[BitsPerByte].input), !.honest = FALSE])
AlteredSegment(c) ==
  {[c EXCEPT !.digest = d, !.honest = FALSE] : d \in Near(c.digest)}
    \cup {FitSegment([c EXCEPT !.directions = d]) : d \in Near(c.directions)}
    \cup UNION {{FitSegment([c EXCEPT !.middles[i] = m]) :
                   m \in Near(c.middles[i]) \cup Shifted(c.middles[i]) \cup PlusPrime(c.middles[i])} :
                i \in DOMAIN c.middles}
    \cup {FitSegment([c EXCEPT !.siblings[BitsPerByte] = s]) :
            s \in Shifted(c.siblings[BitsPerByte]) \cup PlusPrime(c.siblings[BitsPerByte])}
ByteClaims ==
  UNION {{c} \cup (IF c.shape = "segment" THEN AlteredSegment(c) ELSE AlteredPacked(c)) : c \in Proved}

(* A path of the sparse tree in the order of the nullifier's byte: every   *)
(* level is the hash of two byte lists, and the next level starts from     *)
(* bytes that read as it.                                                  *)
SegmentRelation(c) ==
  /\ \A i \in DOMAIN c.siblings : AreBytes(c.siblings[i])
  /\ \A i \in DOMAIN c.middles : AreBytes(c.middles[i])
  /\ c.prefix = Recomposed(c.directions)
  /\ \A i \in 1..BitsPerByte :
       HashBytes("sparse_node", IF c.directions[i] = 1 THEN c.siblings[i] \o CurrentBytes(c, i)
                                ELSE CurrentBytes(c, i) \o c.siblings[i])
         = {IF i = BitsPerByte THEN c.digest ELSE ReadDigest(c.middles[i])}
(* The path that the reference computes, over canonical encodings. *)
CanonicalSegment(c) ==
  \E values \in SegmentValues(c.start, [i \in 1..BitsPerByte |-> ReadDigest(c.siblings[i])],
                              c.directions) : values[BitsPerByte] = c.digest

(* Bytes that hash to the digest, or a segment; a segment over canonical   *)
(* encodings, which no constraint demands, is the reference's.             *)
ByteRelation(c) ==
  IF c.shape = "segment"
  THEN /\ SegmentRelation(c)
       /\ (/\ \A i \in DOMAIN c.siblings : IsEncoding(c.siblings[i])
           /\ \A i \in DOMAIN c.middles : IsEncoding(c.middles[i])) => CanonicalSegment(c)
  ELSE /\ AreBytes(c.bytes)
       /\ HashBytes(Domain(c), c.bytes) = {c.digest}
       /\ c.shape = "intent" => c.packed = Pack(c.bytes)
       /\ c.shape = "asset_note" => AssetOf(c.bytes) = c.asset
ByteDocumented(c) == c.shape = "segment" => CanonicalSegment(c)
=============================================================================
