----------------------------- MODULE AbciMessages -----------------------------
(***************************************************************************)
(* The ABCI socket format of noxis-comet-abci/src/wire.rs: canonical       *)
(* unsigned varints, length-delimited frames, protobuf fields, and the     *)
(* request and response messages.                                          *)
(*                                                                         *)
(* A byte is a number below 2 * Radix: a digit, and a bit that says that   *)
(* another digit follows.  In the code Radix is 128 and MaxDigits 10, and  *)
(* the last digit of ten may only be 0 or 1 (64 bits).  A parser returns   *)
(* [ok |-> FALSE] or a record with the value and the position after it;    *)
(* the kind of an error never matters to a caller, who always answers      *)
(* with an exception and closes the connection (AbciServer).               *)
(***************************************************************************)
EXTENDS Integers, Sequences, FiniteSets

CONSTANTS
  Radix,         \* 128: values of a varint digit
  MaxDigits,     \* 10: digits of the longest varint
  MaxFrame,      \* MAX_ABCI_FRAME_BYTES
  MaxNumber,     \* u32::MAX: the largest field number
  HashLength,    \* 32: bytes of a hash or an Ed25519 key
  MaxBlockBytes  \* MAX_COMET_BLOCK_BYTES

Byte == 0 .. 2 * Radix - 1
Digit(byte) == byte % Radix
Continues(byte) == byte >= Radix
Fails == [ok |-> FALSE]

(***************************************************************************)
(* Varints.                                                                *)
(***************************************************************************)
(* write_uvarint: the low digits first. *)
RECURSIVE WriteUvarint(_)
WriteUvarint(value) ==
  IF value < Radix THEN <<value>>
  ELSE <<Radix + (value % Radix)>> \o WriteUvarint(value \div Radix)

(* uvarint_width: the number of digits of a value. *)
UvarintWidth(value) == Len(WriteUvarint(value))

(* read_uvarint and read_stream_uvarint, from the digit index on: the      *)
(* input may end, the last digit may not exceed one bit, and the digits    *)
(* must be as many as the value needs.                                     *)
RECURSIVE ReadDigits(_, _, _, _)
ReadDigits(bytes, at, index, value) ==
  LET byte == bytes[at]
      sum == value + Digit(byte) * Radix^index
  IN  IF index = MaxDigits \/ at > Len(bytes) THEN Fails
      ELSE IF index = MaxDigits - 1 /\ byte > 1 THEN Fails
      ELSE IF Continues(byte) THEN ReadDigits(bytes, at + 1, index + 1, sum)
      ELSE IF UvarintWidth(sum) # index + 1 THEN Fails
      ELSE [ok |-> TRUE, value |-> sum, next |-> at + 1]
ReadUvarint(bytes, at) == ReadDigits(bytes, at, 0, 0)

(***************************************************************************)
(* Frames.                                                                 *)
(***************************************************************************)
(* write_frame refuses what read_frame would. *)
WriteFrame(payload) ==
  IF Len(payload) > MaxFrame THEN Fails
  ELSE [ok |-> TRUE, bytes |-> WriteUvarint(Len(payload)) \o payload]

(* read_frame: the end of the stream before the first byte of a length is  *)
(* a clean end; anywhere else it is an error.                              *)
ReadFrame(stream, at) ==
  LET length == ReadUvarint(stream, at) IN
  IF at > Len(stream) THEN [ok |-> TRUE, eof |-> TRUE]
  ELSE IF ~length.ok \/ length.value > MaxFrame THEN Fails
  ELSE IF length.next + length.value - 1 > Len(stream) THEN Fails
  ELSE [ok |-> TRUE, eof |-> FALSE, next |-> length.next + length.value,
        payload |-> SubSeq(stream, length.next, length.next + length.value - 1)]

(* What serve_socket reads from a stream that ends: the frames, and        *)
(* whether the end was clean.                                              *)
RECURSIVE FramesFrom(_, _)
FramesFrom(stream, at) ==
  LET frame == ReadFrame(stream, at) IN
  IF ~frame.ok THEN [clean |-> FALSE, frames |-> <<>>]
  ELSE IF frame.eof THEN [clean |-> TRUE, frames |-> <<>>]
  ELSE LET rest == FramesFrom(stream, frame.next)
       IN [clean |-> rest.clean, frames |-> <<frame.payload>> \o rest.frames]

(***************************************************************************)
(* Fields.  A field is its number and a varint or a list of bytes.         *)
(***************************************************************************)
Varint(number, value) == [number |-> number, type |-> "varint", value |-> value]
Bytes(number, value) == [number |-> number, type |-> "bytes", value |-> value]

(* write_varint_field and write_bytes_field: the wire types are 0 and 2. *)
WriteField(field) ==
  IF field.type = "varint"
  THEN WriteUvarint(8 * field.number) \o WriteUvarint(field.value)
  ELSE WriteUvarint(8 * field.number + 2) \o WriteUvarint(Len(field.value)) \o field.value
RECURSIVE WriteFields(_)
WriteFields(fields) ==
  IF fields = <<>> THEN <<>> ELSE WriteField(Head(fields)) \o WriteFields(Tail(fields))

(* ProtoReader::next.  A field number is not zero, and only two wire types *)
(* are known.                                                              *)
FieldOf(bytes, key, value) ==
  LET number == key.value \div 8
      end == value.next + value.value - 1
  IN  IF number \notin 1 .. MaxNumber \/ key.value % 8 \notin {0, 2} THEN Fails
      ELSE IF ~value.ok THEN Fails
      ELSE IF key.value % 8 = 0
           THEN [ok |-> TRUE, field |-> Varint(number, value.value), next |-> value.next]
      ELSE IF end > Len(bytes) THEN Fails
      ELSE [ok |-> TRUE, field |-> Bytes(number, SubSeq(bytes, value.next, end)),
            next |-> end + 1]
NextField(bytes, at) ==
  LET key == ReadUvarint(bytes, at)
  IN  IF ~key.ok THEN Fails ELSE FieldOf(bytes, key, ReadUvarint(bytes, key.next))

(* All fields of a message. *)
RECURSIVE FieldsFrom(_, _)
FieldsFrom(bytes, at) ==
  IF at > Len(bytes) THEN [ok |-> TRUE, fields |-> <<>>]
  ELSE LET first == NextField(bytes, at)
           rest == FieldsFrom(bytes, first.next)
       IN  IF ~first.ok \/ ~rest.ok THEN Fails
           ELSE [ok |-> TRUE, fields |-> <<first.field>> \o rest.fields]
Fields(bytes) == FieldsFrom(bytes, 1)

(***************************************************************************)
(* Messages.  A rule says what a field holds and how often it may occur:   *)
(* "one" is required, "optional" may be left out (proto3 omits defaults),  *)
(* "many" is a list, and an "ignored" field is checked but not used.       *)
(***************************************************************************)
Rule(kind, use) == [kind |-> kind, use |-> use]
Ignored(kind, numbers) == [n \in numbers |-> Rule(kind, "ignored")]
Merge(f, g) == [n \in DOMAIN f \cup DOMAIN g |-> IF n \in DOMAIN f THEN f[n] ELSE g[n]]

EchoRules == <<Rule("text", "optional")>>
CheckTxRules == <<Rule("bytes", "optional"), Rule("varint", "ignored")>>
ConsensusParamsRules ==
  Merge(Ignored("bytes", 2 .. 5), <<Rule("BlockParams", "one")>>)
BlockParamsRules == <<Rule("size", "one"), Rule("varint", "ignored")>>
InitChainRules ==
  Merge([n \in {2} |-> Rule("text", "one")],
  Merge([n \in {3} |-> Rule("bytes", "one")],
  Merge([n \in {4} |-> Rule("ValidatorUpdate", "many")],
  Merge([n \in {6} |-> Rule("varint", "optional")], Ignored("bytes", {1, 5})))))
ValidatorUpdateRules == <<Rule("PublicKey", "one"), Rule("varint", "one")>>
PublicKeyRules == <<Rule("hash", "one")>>
PrepareProposalRules ==
  Merge(<<Rule("varint", "one"), Rule("bytes", "many")>>,
  Merge([n \in {5} |-> Rule("varint", "one")],
  Merge([n \in {7} |-> Rule("hash", "one")], Ignored("bytes", {3, 4, 6, 8}))))
DecisionRules ==
  Merge(<<Rule("bytes", "many")>>,
  Merge([n \in {4, 7} |-> Rule("hash", "one")],
  Merge([n \in {5} |-> Rule("varint", "one")], Ignored("bytes", {2, 3, 6, 8}))))

Rules(message) ==
  CASE message = "Echo" -> EchoRules
    [] message = "CheckTx" -> CheckTxRules
    [] message = "ConsensusParams" -> ConsensusParamsRules
    [] message = "BlockParams" -> BlockParamsRules
    [] message = "InitChain" -> InitChainRules
    [] message = "ValidatorUpdate" -> ValidatorUpdateRules
    [] message = "PublicKey" -> PublicKeyRules
    [] message = "PrepareProposal" -> PrepareProposalRules
    [] message \in {"ProcessProposal", "FinalizeBlock"} -> DecisionRules

WireType(kind) == IF kind \in {"varint", "size"} THEN "varint" ELSE "bytes"

(* The cast of a decoded u64 to i64. *)
Limit == 2 * Radix^(MaxDigits - 1)
AsI64(value) == IF value < Limit \div 2 THEN value ELSE value - Limit

(* A text is valid UTF-8: here, every byte is a digit. *)
DecodeUtf8(bytes) == \A i \in DOMAIN bytes : ~Continues(bytes[i])

Absent(message) == [n \in DOMAIN Rules(message) |-> <<>>]

RECURSIVE Decode(_, _), DecodeFrom(_, _, _, _)

(* What a field must hold; a nested message must decode itself. *)
ValidValue(kind, value) ==
  CASE kind \in {"varint", "bytes"} -> TRUE
    [] kind = "text" -> DecodeUtf8(value)
    [] kind = "hash" -> Len(value) = HashLength
    [] kind = "size" -> AsI64(value) \in 1 .. MaxBlockBytes
    [] OTHER -> Decode(kind, value).ok
ValidField(rules, field) ==
  /\ field.number \in DOMAIN rules
  /\ field.type = WireType(rules[field.number].kind)
  /\ ValidValue(rules[field.number].kind, field.value)

(* Faulty: the last occurrence of a single field wins. *)
FaultyTaken(use, values, field) ==
  CASE use = "ignored" -> {values}
    [] use = "many" -> {[values EXCEPT ![field.number] = Append(@, field.value)]}
    [] OTHER -> {[values EXCEPT ![field.number] = <<field.value>>]}

(* The values with one more field, if it may be there: set_once, push. *)
Taken(use, values, field) ==
  CASE use = "ignored" -> {values}
    [] use # "many" /\ values[field.number] # <<>> -> {}
    [] OTHER -> {[values EXCEPT ![field.number] = Append(@, field.value)]}
TakeField(rules, next, values) ==
  IF ~next.ok THEN {}
  ELSE IF ~ValidField(rules, next.field) THEN {}
  ELSE Taken(rules[next.field.number].use, values, next.field)

(* The loop of every decoder, from the position at on. *)
DecodeFrom(message, bytes, at, values) ==
  IF at > Len(bytes) THEN [ok |-> TRUE, values |-> values]
  ELSE LET next == NextField(bytes, at)
           taken == TakeField(Rules(message), next, values)
       IN  IF taken = {} THEN Fails
           ELSE DecodeFrom(message, bytes, next.next, CHOOSE v \in taken : TRUE)
Complete(rules, decoded) ==
  IF ~decoded.ok THEN Fails
  ELSE IF \E n \in DOMAIN rules : rules[n].use = "one" /\ decoded.values[n] = <<>> THEN Fails
  ELSE decoded
Decode(message, bytes) ==
  Complete(Rules(message), DecodeFrom(message, bytes, 1, Absent(message)))

(***************************************************************************)
(* Requests and responses.                                                 *)
(***************************************************************************)
(* The REQUEST_ numbers, and how the content of each is treated.  A        *)
(* response's number is that of its request plus one; an exception is 1.   *)
Requests ==
  Merge([n \in {1} |-> "Echo"], Merge([n \in {5} |-> "InitChain"],
  Merge([n \in {8} |-> "CheckTx"], Merge([n \in {16} |-> "PrepareProposal"],
  Merge([n \in {17} |-> "ProcessProposal"], Merge([n \in {20} |-> "FinalizeBlock"],
  Merge([n \in {2, 11, 12} |-> "empty"], Merge([n \in {3, 6} |-> "fields"],
        [n \in {13, 14, 15, 18, 19} |-> "anything"]))))))))
ResponseNumber(request) == request + 1
RESPONSE_EXCEPTION == 1

(* decode_request: one field, which holds the request's message. *)
ContentValues(content, message) ==
  CASE content = "empty" -> IF message = <<>> THEN [ok |-> TRUE, values |-> <<>>] ELSE Fails
    [] content = "fields" -> [ok |-> Fields(message).ok, values |-> <<>>]
    [] content = "anything" -> [ok |-> TRUE, values |-> <<>>]
    [] OTHER -> Decode(content, message)
RequestOf(number, decoded) ==
  IF ~decoded.ok THEN Fails ELSE [ok |-> TRUE, request |-> number, values |-> decoded.values]
OnlyField(bytes, first) ==
  IF ~first.ok THEN Fails
  ELSE IF first.field.type # "bytes" \/ first.field.number \notin DOMAIN Requests THEN Fails
  ELSE IF first.next <= Len(bytes) THEN Fails
  ELSE RequestOf(first.field.number,
                 ContentValues(Requests[first.field.number], first.field.value))
DecodeRequest(bytes) ==
  IF Len(bytes) = 0 THEN Fails ELSE OnlyField(bytes, NextField(bytes, 1))

(* encode_response and its parts.  Numbers that are zero and hashes that   *)
(* are absent are not written.                                             *)
Nonzero(number, value) == IF value = 0 THEN <<>> ELSE <<Varint(number, value)>>
EncodeInfo(version, height, hash) ==
  WriteFields(<<Bytes(1, version)>> \o Nonzero(4, height)
              \o IF hash = <<>> THEN <<>> ELSE <<Bytes(5, hash)>>)
EncodeCheckTx(result) ==
  WriteFields(IF result.accepted THEN <<>> ELSE <<Varint(1, result.code)>>)
EncodeFinalize(codes, hash) ==
  WriteFields([i \in 1 .. Len(codes) |-> Bytes(2, WriteFields(Nonzero(1, codes[i])))]
              \o <<Bytes(5, hash)>>)
EncodePrepare(transactions) ==
  WriteFields([i \in 1 .. Len(transactions) |-> Bytes(1, transactions[i])])
EncodeStatus(status) == WriteFields(<<Varint(1, status)>>)
EncodeResponse(number, message) == WriteField(Bytes(number, message))

(***************************************************************************)
(* What a peer of the socket sends: any bytes, or the fields of one request *)
(* in any order and number; and the responses the application may give.    *)
(* The engine's own protobuf reader of a response is external.             *)
(***************************************************************************)
CONSTANTS MaxStream,  \* bound on the bytes of one connection
          MaxFields   \* bound on the fields of a message; one with a list may have more

VARIABLES stream,   \* the bytes of a connection that sends anything
          message,  \* the request's content, or "" before it is known
          fields    \* its fields so far

(***************************************************************************)
(* Bytes arrive one by one, in any combination; the reader of wire.rs      *)
(* takes varints, frames and fields from what is there.                    *)
(***************************************************************************)
StreamInit == stream = <<>>
Receive ==
  /\ Len(stream) < MaxStream
  /\ \E byte \in Byte : stream' = Append(stream, byte)
(* The peer closes, and connects again. *)
Reconnect == stream # <<>> /\ stream' = <<>>
StreamNext == Receive \/ Reconnect

Cut(n) == SubSeq(stream, 1, n)
RECURSIVE WriteFrames(_)
WriteFrames(frames) ==
  IF frames = <<>> THEN <<>>
  ELSE WriteFrame(Head(frames)).bytes \o WriteFrames(Tail(frames))

(* A number has one encoding: what read_uvarint accepts is what            *)
(* write_uvarint writes, so no value is read from two byte strings.        *)
VarintsCanonical ==
  LET number == ReadUvarint(stream, 1)
  IN  number.ok => WriteUvarint(number.value) = Cut(number.next - 1)

(* A frame that was read is never read differently when more bytes come,   *)
(* no frame is longer than the limit that write_frame keeps too, and a     *)
(* stream that ends cleanly is exactly the frames that were read: a peer   *)
(* that dies in the middle of a frame never leaves a shorter request.      *)
FramesNeverShift ==
  LET all == FramesFrom(stream, 1) IN
  /\ \A i \in DOMAIN all.frames : WriteFrame(all.frames[i]).ok
  /\ all.clean => WriteFrames(all.frames) = stream
  /\ \A n \in 0 .. Len(stream) :
       LET part == FramesFrom(Cut(n), 1).frames
       IN  Len(part) <= Len(all.frames) /\ part = SubSeq(all.frames, 1, Len(part))

(* ProtoReader loses nothing: the fields it returns are all that the bytes *)
(* hold, in order, so no two byte strings have the same fields.            *)
FieldsDetermineBytes ==
  LET parsed == Fields(stream) IN parsed.ok => WriteFields(parsed.fields) = stream

(* The bytes of a connection have one reading: varints are canonical,      *)
(* fields are all that the bytes hold, and frames are never read           *)
(* differently when more bytes arrive.                                     *)
StreamUnambiguous == VarintsCanonical /\ FieldsDetermineBytes /\ FramesNeverShift

(***************************************************************************)
(* A peer that writes the fields of a request.                             *)
(***************************************************************************)
Hash1 == [i \in 1 .. HashLength |-> 1]
Hash2 == [i \in 1 .. HashLength |-> 0]
Key == WriteFields(<<Bytes(1, Hash1)>>)
Validator(power) == WriteFields(<<Bytes(1, Key), Varint(2, power)>>)
Size(size) == WriteFields(<<Varint(1, size), Varint(2, 0)>>)

(* Fields a peer may write: the ones the message has, repeated ones,       *)
(* ones of a wrong type or length, and one no message has.                 *)
Pool ==
  [m \in {"Echo", "CheckTx", "InitChain", "ConsensusParams", "PrepareProposal", "FinalizeBlock"} |->
     <<Varint(9, 0)>> \o
     CASE m = "Echo" -> <<Bytes(1, <<>>), Bytes(1, <<1>>), Bytes(1, <<Radix>>), Varint(1, 1)>>
       [] m = "CheckTx" -> <<Bytes(1, <<1>>), Bytes(1, <<0>>), Varint(2, 0), Bytes(2, <<>>)>>
       [] m = "InitChain" ->
            <<Bytes(1, <<1>>), Bytes(2, <<1>>), Bytes(2, <<Radix>>), Bytes(3, Size(1)), Bytes(4, Validator(1)),
             Bytes(4, Validator(2)), Bytes(4, Key), Bytes(5, <<>>), Varint(6, 1), Varint(6, 2)>>
       [] m = "ConsensusParams" ->
            <<Bytes(1, Size(0)), Bytes(1, Size(1)), Bytes(1, Size(MaxBlockBytes)),
              Bytes(1, Size(MaxBlockBytes + 1)), Bytes(1, Size(Limit - 1)),
              Bytes(1, <<>>), Bytes(2, <<1>>), Varint(3, 1)>>
       [] m = "PrepareProposal" ->
            <<Varint(1, 1), Varint(1, 2), Bytes(2, <<1>>), Bytes(2, <<0>>), Varint(5, 1),
             Bytes(7, Hash1), Bytes(7, <<1>>)>>
       [] m = "FinalizeBlock" ->
            <<Bytes(1, <<1>>), Bytes(1, <<0>>), Bytes(2, <<>>), Bytes(4, Hash1), Varint(5, 1),
              Varint(5, Limit - 1), Bytes(7, Hash2)>>]

Init == message = "" /\ fields = <<>>
Choose ==
  /\ message = ""
  /\ message' \in DOMAIN Pool
  /\ UNCHANGED fields
(* Two elements of a list fit beside the required fields.  A decoder does  *)
(* not read on after a field that it refuses, which is the last one here.  *)
FieldBound ==
  CASE message \in {"FinalizeBlock", "PrepareProposal"} -> MaxFields + 2
    [] message = "InitChain" -> MaxFields + 1
    [] OTHER -> MaxFields
WriteNext ==
  /\ message # ""
  /\ Len(fields) < FieldBound
  /\ DecodeFrom(message, WriteFields(fields), 1, Absent(message)).ok
  /\ \E i \in DOMAIN Pool[message] : fields' = Append(fields, Pool[message][i])
  /\ UNCHANGED message
Send == message # "" /\ message' = "" /\ fields' = <<>>
Next == Choose \/ WriteNext \/ Send

Decoded(list) == Decode(message, WriteFields(list))
Swapped(i) == [fields EXCEPT ![i] = fields[i + 1], ![i + 1] = fields[i]]
Single(n) == n \in DOMAIN Rules(message) /\ Rules(message)[n].use \in {"one", "optional"}

(* A decoded request says one thing: the order in which a peer writes      *)
(* different fields is irrelevant, a transaction list keeps its order, and *)
(* a single field that occurs twice is refused instead of overwritten      *)
(* (set_once), so the height or hash that was read is the only one sent.   *)
OneMeaning ==
  message # "" =>
    \E decoded \in {Decoded(fields)} :
    /\ \A i \in 1 .. Len(fields) - 1 :
         fields[i].number # fields[i + 1].number => Decoded(Swapped(i)) = decoded
    /\ decoded.ok =>
         \A n \in DOMAIN Rules(message) :
           LET sent == SelectSeq(fields, LAMBDA f : f.number = n)
           IN  /\ Single(n) => Len(sent) <= 1
               /\ Rules(message)[n].use # "ignored" =>
                    decoded.values[n] = [i \in DOMAIN sent |-> sent[i].value]

(* What decode_consensus_parameters accepts, a listener can transport: the *)
(* block size is positive, signed or not, and never above the limit.       *)
BlockSizeTransportable ==
  message = "ConsensusParams" =>
    \A decoded \in {Decoded(fields)} : decoded.ok =>
      \E block \in {Decode("BlockParams", decoded.values[1][1])} :
        block.ok /\ block.values[1][1] \in 1 .. MaxBlockBytes

(* The request envelope: a content under a request's number is the request *)
(* only if it is alone and decodes there.  An empty Flush or Commit never  *)
(* carries data, and nothing follows the message.                          *)
Numbers ==  \* the request's own, one of each kind of the others, and 4, which is none
  {n \in DOMAIN Requests : Requests[n] = message} \cup {2, 3, 4, 13}
EnvelopesAreSingle ==
  message # "" =>
    LET content == WriteFields(fields) IN
    \A n \in Numbers : \E decoded \in {DecodeRequest(WriteField(Bytes(n, content)))} :
      /\ decoded.ok => decoded.request = n /\ (n \in {2, 11, 12} => fields = <<>>)
      /\ ~DecodeRequest(WriteFields(<<Bytes(n, content), Bytes(2, content)>>)).ok
      /\ (n \in DOMAIN Requests /\ Requests[n] = message) =>
           decoded.ok = Decoded(fields).ok

(* A response as the engine reads it: a missing number is 0, a missing     *)
(* hash is empty, and every field 2 of FinalizeBlock is one result.        *)
ReadNumber(list, n) ==
  LET found == SelectSeq(list, LAMBDA f : f.number = n)
  IN  IF found = <<>> THEN 0 ELSE found[Len(found)].value
ReadBytes(list, n) ==
  LET found == SelectSeq(list, LAMBDA f : f.number = n)
  IN  IF found = <<>> THEN <<>> ELSE found[Len(found)].value
ReadMany(list, n) == SelectSeq(list, LAMBDA f : f.number = n)

Results == {[accepted |-> TRUE, code |-> 0], [accepted |-> FALSE, code |-> 1]}
Lists(S) == UNION {[1 .. n -> S] : n \in 0 .. 2}

(* The engine reads back what the application answered, defaults omitted   *)
(* or not: height, hash, verdict, transactions in order, and one result    *)
(* per transaction of a block.                                             *)
ResponsesReadBack ==
  message = "" =>
    /\ \A height \in 0 .. 2, hash \in {<<>>, Hash1} :
         LET read == Fields(EncodeInfo(<<1>>, height, hash)).fields
         IN  ReadNumber(read, 4) = height /\ ReadBytes(read, 5) = hash
    /\ \A result \in Results :
         (ReadNumber(Fields(EncodeCheckTx(result)).fields, 1) = 0) = result.accepted
    /\ \A codes \in Lists({0, 1}), hash \in {Hash1, Hash2} :
         LET read == Fields(EncodeFinalize(codes, hash)).fields
             results == ReadMany(read, 2)
         IN  /\ ReadBytes(read, 5) = hash
             /\ [i \in DOMAIN results |-> ReadNumber(Fields(results[i].value).fields, 1)] = codes
    /\ \A list \in Lists({<<>>, <<0>>, <<1>>}) :
         LET read == ReadMany(Fields(EncodePrepare(list)).fields, 1)
         IN  [i \in DOMAIN read |-> read[i].value] = list

(* A request has one meaning whatever order its fields are written in, it  *)
(* is alone in its envelope, the block size it may set can be transported, *)
(* and the engine reads back what the application answered.                *)
RequestUnambiguous ==
  OneMeaning /\ EnvelopesAreSingle /\ BlockSizeTransportable /\ ResponsesReadBack
=============================================================================
