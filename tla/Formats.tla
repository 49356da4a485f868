------------------------------ MODULE Formats -------------------------------
(***************************************************************************)
(* The binary formats and their readers, with the transaction wire format  *)
(* NOXT and its intent NXTI (noxis-codec), the cryptographic suite and the *)
(* validation context (noxis-crypto), the private transfer intent (noxis-  *)
(* privacy-types) and its packet NXPT, and the record NXRC that holds one  *)
(* transaction (noxis-record-chain). A message is a sequence of cells, a   *)
(* cell the contents of one field: <<n>> is an integer, <<"id", n>> an     *)
(* identifier or element that is compared as bytes, and every other tuple  *)
(* a digest or a magic. A layout is a sequence of fields, and reading it   *)
(* gives the values it read and the cells that are left, or nothing when   *)
(* the cells end early or do not fit.                                      *)
(***************************************************************************)
EXTENDS Lists, FiniteSets

Num(n) == <<n>>
Id(n) == <<"id", n>>
Magic(text) == <<"magic", text>>
IsNum(cell) == Len(cell) = 1
IsId(cell) == Len(cell) = 2 /\ cell[1] = "id"

Ids(list) == [i \in DOMAIN list |-> Id(list[i])]

(* One expected cell; an integer within a set; an ordered identifier; any  *)
(* cell; a length within a set and that many cells; a count within a set   *)
(* and that many groups; a tag and the fields that follow it.              *)
Exact(cell) == <<"exact", cell>>
Number(S) == <<"number", S>>
Ident == <<"ident">>
Cell == <<"cell">>
Blob(lengths) == <<"blob", lengths>>
Many(counts, layout) == <<"many", counts, layout>>
Choice(layouts) == <<"choice", layouts>>

Times(n, field) == [i \in 1 .. n |-> field]

(* The first cell as an integer of S, and the cells after it. *)
Integer(S, cells) ==
  IF cells # <<>> /\ IsNum(Head(cells)) /\ Head(cells)[1] \in S
    THEN {[value |-> Head(cells)[1], rest |-> Tail(cells)]}
    ELSE {}

RECURSIVE ReadField(_, _), ReadLayout(_, _), ReadGroups(_, _, _)

ReadField(field, cells) ==
  LET kind == field[1]
      Take(accepted) == IF cells # <<>> /\ accepted
                          THEN {[value |-> Head(cells), rest |-> Tail(cells)]} ELSE {}
  IN  CASE kind = "exact"  -> Take(cells # <<>> /\ Head(cells) = field[2])
        [] kind = "cell"   -> Take(TRUE)
        [] kind = "number" -> Integer(field[2], cells)
        [] kind = "ident"  -> {[value |-> r.value[2], rest |-> r.rest] :
                                 r \in Take(cells # <<>> /\ IsId(Head(cells)))}
        [] kind = "blob"   ->
             {[value |-> SubSeq(n.rest, 1, n.value),
               rest |-> SubSeq(n.rest, n.value + 1, Len(n.rest))] :
                n \in {n \in Integer(field[2], cells) : n.value <= Len(n.rest)}}
        [] kind = "many"   ->
             UNION {ReadGroups(n.value, field[3], n.rest) : n \in Integer(field[2], cells)}
        [] kind = "choice" ->
             UNION {{[value |-> <<n.value>> \o r.value, rest |-> r.rest] :
                       r \in ReadLayout(field[2][n.value], n.rest)} :
                      n \in Integer(DOMAIN field[2], cells)}

ReadLayout(layout, cells) ==
  IF layout = <<>>
    THEN {[value |-> <<>>, rest |-> cells]}
    ELSE UNION {{[value |-> <<first.value>> \o others.value, rest |-> others.rest] :
                   others \in ReadLayout(Tail(layout), first.rest)} :
                  first \in ReadField(Head(layout), cells)}

ReadGroups(count, layout, cells) ==
  IF count = 0
    THEN {[value |-> <<>>, rest |-> cells]}
    ELSE UNION {{[value |-> <<first.value>> \o others.value, rest |-> others.rest] :
                   others \in ReadGroups(count - 1, layout, first.rest)} :
                  first \in ReadLayout(layout, cells)}

(* The values of a whole message: trailing cells are refused. *)
Read(layout, cells) == {r.value : r \in {r \in ReadLayout(layout, cells) : r.rest = <<>>}}

(* A length or count, then what it counts. *)
Prefixed(list) == <<Num(Len(list))>> \o list

(* The concatenation of the encodings of the elements of a list. *)
Joined(Encode(_), list) == FoldList(LAMBDA cells, x : cells \o Encode(x), <<>>, list)

(* Strictly rising, so sorted and without duplicates. *)
Rising(list) == \A i \in 2 .. Len(list) : list[i - 1] < list[i]

Firsts(groups) == [i \in DOMAIN groups |-> groups[i][1]]

CONSTANTS WordMax,                      \* the largest integer of a field, scaled down
          MAX_COLLECTION_ITEMS,
          MAX_OPAQUE_BYTES,
          MAX_PRIVATE_ENVELOPE_BYTES,
          MAX_PRIVATE_PROOF_BYTES,
          MAX_RECORD_TRANSACTION_BYTES,
          CanonicalElements             \* field vectors whose elements are below the modulus

Words == 0 .. WordMax

Sha256(domain, data) == <<"sha256", domain, data>>

(***************************************************************************)
(* Suites.  The codec and the validation context number the algorithms     *)
(* differently.                                                            *)
(***************************************************************************)
EncodeAlgorithm(algorithm) ==
  [sha3 |-> 1, x25519 |-> 2, mlkem |-> 3, ed25519 |-> 4, mldsa |-> 5, proof |-> 6,
   sha256 |-> 7][algorithm]
DecodeAlgorithm(code) ==
  <<"sha3", "x25519", "mlkem", "ed25519", "mldsa", "proof", "sha256">>[code]

ProtocolTag(algorithm) ==
  [sha256 |-> 1, sha3 |-> 2, x25519 |-> 3, mlkem |-> 4, ed25519 |-> 5, mldsa |-> 6,
   proof |-> 7][algorithm]
FromProtocolTag(tag) ==
  <<"sha256", "sha3", "x25519", "mlkem", "ed25519", "mldsa", "proof">>[tag]

Roles == <<{"sha256", "sha3"}, {"x25519", "mlkem"}, {"ed25519", "mldsa"}, {"proof"}>>

(* A suite is a version and the algorithms of the four roles. *)
ValidateSuite(suite) ==
  suite.version # 0 /\ \A i \in 1 .. 4 : suite.algorithms[i] \in Roles[i]

SuiteLayout == <<Number(Words)>> \o Times(4, Number(1 .. 7))
WriteSuite(suite) ==
  <<Num(suite.version)>> \o [i \in 1 .. 4 |-> Num(EncodeAlgorithm(suite.algorithms[i]))]
ReadSuite(version, codes) ==
  [version |-> version, algorithms |-> [i \in 1 .. 4 |-> DecodeAlgorithm(codes[i])]]

ContextLayout == SuiteLayout \o <<Cell, Cell>>
EncodeContext(context) ==
  <<Num(context.suite.version)>>
    \o [i \in 1 .. 4 |-> Num(ProtocolTag(context.suite.algorithms[i]))]
    \o <<context.verifier, context.policy>>
DecodeContext(cells) ==
  {context \in
     {[suite |-> [version |-> v[1],
                  algorithms |-> [i \in 1 .. 4 |-> FromProtocolTag(v[i + 1])]],
       verifier |-> v[6], policy |-> v[7]] : v \in Read(ContextLayout, cells)} :
   ValidateSuite(context.suite)}
ContextId(context) == Sha256("VALIDATION-CONTEXT", EncodeContext(context))

(***************************************************************************)
(* Transactions.                                                           *)
(***************************************************************************)
OPERATION_TRANSFER == 1
OPERATION_MINT == 2

Collection == Many(0 .. MAX_COLLECTION_ITEMS, <<Ident>>)
Opaque == Blob(0 .. MAX_OPAQUE_BYTES)
TransferLayout == <<Cell, Collection, Collection, Number(Words), Opaque>>
MintLayout == <<Cell, Number(Words \ {0}), Collection, Opaque>>
TransactionLayout ==
  <<Exact(Magic("NOXT")), Exact(Num(1)), Cell>> \o SuiteLayout
    \o <<Choice(<<TransferLayout, MintLayout>>)>>

(* The nonempty lists, the limits, and the version of the proof's suite. *)
ValidateTransactionShape(transaction) ==
  LET op == transaction.operation IN
  /\ ValidateSuite(transaction.suite)
  /\ Len(op.commitments) \in 1 .. MAX_COLLECTION_ITEMS
  /\ Len(op.envelope) <= MAX_OPAQUE_BYTES
  /\ op.tag = OPERATION_TRANSFER =>
       /\ Len(op.nullifiers) \in 1 .. MAX_COLLECTION_ITEMS
       /\ op.version = transaction.suite.version

WriteIdentifiers(list) == Prefixed(Ids(list))

(* The envelope is the proof of a transfer or the authorization of a mint. *)
EncodeTransaction(transaction) ==
  LET op == transaction.operation IN
  <<Magic("NOXT"), Num(1), transaction.id>> \o WriteSuite(transaction.suite)
    \o <<Num(op.tag), op.asset>>
    \o (IF op.tag = OPERATION_TRANSFER
          THEN WriteIdentifiers(op.nullifiers) \o WriteIdentifiers(op.commitments)
                 \o <<Num(op.version)>>
          ELSE <<Num(op.amount)>> \o WriteIdentifiers(op.commitments))
    \o Prefixed(op.envelope)

ReadOperation(v) ==
  IF v[1] = OPERATION_TRANSFER
    THEN [tag |-> v[1], asset |-> v[2], nullifiers |-> Firsts(v[3]), commitments |-> Firsts(v[4]),
          version |-> v[5], envelope |-> v[6]]
    ELSE [tag |-> v[1], asset |-> v[2], amount |-> v[3], commitments |-> Firsts(v[4]),
          envelope |-> v[5]]

DecodeTransaction(cells) ==
  {transaction \in
     {[id |-> v[3], suite |-> ReadSuite(v[4], SubSeq(v, 5, 8)), operation |-> ReadOperation(v[9])] :
        v \in Read(TransactionLayout, cells)} :
   ValidateTransactionShape(transaction)}

(* The id and the envelope are left out: an envelope may itself bind the   *)
(* intent.                                                                 *)
EncodeTransactionIntent(transaction) ==
  LET op == transaction.operation IN
  <<Magic("NXTI"), Num(1)>> \o WriteSuite(transaction.suite) \o <<Num(op.tag), op.asset>>
    \o (IF op.tag = OPERATION_TRANSFER
          THEN WriteIdentifiers(op.nullifiers) ELSE <<Num(op.amount)>>)
    \o WriteIdentifiers(op.commitments)

TransactionIntentId(transaction) ==
  Sha256("TX-INTENT-ID", Prefixed(EncodeTransactionIntent(transaction)))

(***************************************************************************)
(* Private transfers.                                                      *)
(***************************************************************************)
IntentLayout == Times(5, Cell) \o <<Ident, Cell>> \o Times(6, Ident)

(* Field vectors hold elements below the modulus, and the two nullifiers   *)
(* and the two commitments come in rising order.                           *)
ValidateIntent(intent) ==
  /\ {intent.root} \cup Range(intent.nullifiers) \cup Range(intent.commitments)
       \cup Range(intent.digests) \subseteq CanonicalElements
  /\ Rising(intent.nullifiers)
  /\ Rising(intent.commitments)

EncodeIntent(intent) ==
  <<intent.circuit, intent.genesis, intent.context, intent.state, intent.tree, Id(intent.root),
    intent.asset>>
    \o Ids(intent.nullifiers) \o Ids(intent.commitments) \o Ids(intent.digests)

IntentOf(v) ==
  [circuit |-> v[1], genesis |-> v[2], context |-> v[3], state |-> v[4], tree |-> v[5],
   root |-> v[6], asset |-> v[7], nullifiers |-> SubSeq(v, 8, 9),
   commitments |-> SubSeq(v, 10, 11), digests |-> SubSeq(v, 12, 13)]

DecodeIntent(cells) ==
  {intent \in {IntentOf(v) : v \in Read(IntentLayout, cells)} : ValidateIntent(intent)}

Envelope == Blob(1 .. MAX_PRIVATE_ENVELOPE_BYTES)
PacketLayout ==
  <<Exact(Magic("NXPT")), Exact(Num(1))>> \o Times(13, Cell)
    \o <<Envelope, Envelope, Blob(1 .. MAX_PRIVATE_PROOF_BYTES)>>

EncodePrivateTransfer(packet) ==
  <<Magic("NXPT"), Num(1)>> \o EncodeIntent(packet.intent)
    \o Prefixed(packet.envelopes[1]) \o Prefixed(packet.envelopes[2]) \o Prefixed(packet.proof)

(* The intent has a fixed length, so it is cut out and decoded by itself. *)
DecodePrivateTransfer(cells) ==
  UNION {{[intent |-> intent, envelopes |-> <<v[16], v[17]>>, proof |-> v[18]] :
            intent \in DecodeIntent(SubSeq(v, 3, 15))} :
           v \in Read(PacketLayout, cells)}

(***************************************************************************)
(* Records.                                                                *)
(***************************************************************************)
ValidateTransactionBytes(bytes) ==
  /\ Len(bytes) <= MAX_RECORD_TRANSACTION_BYTES
  /\ \E transaction \in DecodeTransaction(bytes) : EncodeTransaction(transaction) = bytes

HashRecord(sequence, previous, bytes, intent, resulting) ==
  Sha256("RECORD", <<Num(1), Num(sequence), previous>> \o Prefixed(bytes) \o <<intent, resulting>>)

(* TransactionRecord::new *)
TransactionRecord(sequence, previous, bytes, resulting) ==
  {[sequence |-> sequence, previous |-> previous, bytes |-> bytes,
    intent |-> TransactionIntentId(transaction), resulting |-> resulting,
    hash |-> HashRecord(sequence, previous, bytes, TransactionIntentId(transaction), resulting)] :
     transaction \in {t \in DecodeTransaction(bytes) : ValidateTransactionBytes(bytes)}}

EncodeRecord(record) ==
  <<Magic("NXRC"), Num(1), Num(record.sequence), record.previous>> \o Prefixed(record.bytes)
    \o <<record.intent, record.resulting, record.hash>>

RecordLayout ==
  <<Exact(Magic("NXRC")), Exact(Num(1)), Number(Words), Cell,
    Blob(0 .. MAX_RECORD_TRANSACTION_BYTES), Cell, Cell, Cell>>

FaultyDecodeRecord(cells) ==
  {[sequence |-> v[3], previous |-> v[4], bytes |-> v[5], intent |-> v[6], resulting |-> v[7],
    hash |-> v[8]] :
     v \in {v \in Read(RecordLayout, cells) : ValidateTransactionBytes(v[5])}}

(* The transaction, the intent and the hash are all checked again. *)
DecodeRecord(cells) ==
  UNION {{record \in TransactionRecord(v[3], v[4], v[5], v[7]) :
            record.intent = v[6] /\ record.hash = v[8]} :
           v \in Read(RecordLayout, cells)}

(* What another writer of the format would put into the two digests. *)
SealRecord(cells) ==
  UNION {{EncodeRecord(record) : record \in TransactionRecord(v[3], v[4], v[5], v[7])} :
           v \in Read(RecordLayout, cells)}
=============================================================================
