------------------------------ MODULE FrameLog ------------------------------
(***************************************************************************)
(* The frames of the transaction log (NXLG), the state record log (NXRF)   *)
(* and the block journal (NXCB), which share one layout and one scan: a    *)
(* magic, a version, a payload length, the payload and a checksum of the   *)
(* payload.  Here a byte has four bits, so that a log of a few frames is a *)
(* short sequence of digits, and the checksum is the same bit loop on four *)
(* bits.  Appends stop half way, digits rot, and the log is opened again   *)
(* strictly, by the recovering open of the transaction log, or by the      *)
(* scan, replay and verified truncation of the other two.                  *)
(***************************************************************************)
EXTENDS Integers, Sequences, SequencesExt, Bitwise

CONSTANTS MAGIC,               \* the digits every frame starts with
          Payloads,            \* canonical messages: none is a prefix of another
          MAX_PAYLOAD_LENGTH,
          MaxFrames,           \* bound on appends
          MaxDamage            \* bound on rotten digits

Digits == 0 .. 15
VERSION == 1
POLYNOMIAL == 9
HEADER_LENGTH == Len(MAGIC) + 2
CHECKSUM_LENGTH == 1

VARIABLES file,                \* the digits on disk
          acked,               \* payloads of the appends that returned Ok
          flight,              \* payload of an interrupted append, if any
          mode,                \* "closed", "scanned" or "open"
          held,                \* what the last recovery scan reported
          damages,             \* rotten digits so far
          outcome              \* of the last call: "ok" or "error"

vars == <<file, acked, flight, mode, held, damages, outcome>>

(***************************************************************************)
(* Frames.                                                                 *)
(***************************************************************************)
ShiftBit(value) == IF value % 2 = 1 THEN (value \div 2) ^^ POLYNOMIAL ELSE value \div 2
ShiftDigit(value, digit) == ShiftBit(ShiftBit(ShiftBit(ShiftBit(value ^^ digit))))
FaultyCrc(payload) == Len(payload)
Crc(payload) == 15 - FoldLeft(ShiftDigit, 15, payload)

EncodeFrame(payload) ==
  MAGIC \o <<VERSION, Len(payload)>> \o payload \o <<Crc(payload)>>

Complete(entries, at) == [kind |-> "complete", entries |-> entries, at |-> at, section |-> "none"]
IncompleteTail(entries, at, section) ==
  [kind |-> "tail", entries |-> entries, at |-> at, section |-> section]
Invalid(entries, at) == [kind |-> "error", entries |-> entries, at |-> at, section |-> "none"]

RECURSIVE ScanFrom(_, _, _)
ScanFrom(digits, at, entries) ==
  LET rest == SubSeq(digits, at + 1, Len(digits))
      remaining == Len(rest)
      length == rest[HEADER_LENGTH]
      frame == HEADER_LENGTH + length + CHECKSUM_LENGTH
      payload == SubSeq(rest, HEADER_LENGTH + 1, HEADER_LENGTH + length)
  IN  CASE remaining = 0 -> Complete(entries, at)
        [] remaining \in 1 .. Len(MAGIC) - 1 ->
             IF IsPrefix(rest, MAGIC) THEN IncompleteTail(entries, at, "magic")
                                      ELSE Invalid(entries, at)
        [] OTHER ->
             IF ~ IsPrefix(MAGIC, rest) THEN Invalid(entries, at)
             ELSE IF remaining < HEADER_LENGTH THEN IncompleteTail(entries, at, "header")
             ELSE IF rest[Len(MAGIC) + 1] # VERSION \/ length > MAX_PAYLOAD_LENGTH
               THEN Invalid(entries, at)
             ELSE IF remaining < frame
               THEN IncompleteTail(entries, at,
                      IF remaining < HEADER_LENGTH + length THEN "payload" ELSE "checksum")
             ELSE IF rest[frame] # Crc(payload) \/ payload \notin Payloads
               THEN Invalid(entries, at)
             ELSE ScanFrom(digits, at + frame, Append(entries, payload))

ScanFrames(digits) == ScanFrom(digits, 0, <<>>)

(***************************************************************************)
(* The log and its writer.                                                 *)
(***************************************************************************)
Init ==
  /\ file = <<>>
  /\ acked = <<>>
  /\ flight = <<>>
  /\ mode = "closed"
  /\ held = Complete(<<>>, 0)
  /\ damages = 0
  /\ outcome = "ok"

(* Validates every frame and repairs nothing. *)
Open ==
  /\ mode = "closed"
  /\ ScanFrames(file).kind = "complete"
  /\ mode' = "open"
  /\ acked' = ScanFrames(file).entries
  /\ flight' = <<>>
  /\ outcome' = "ok"
  /\ UNCHANGED <<file, held, damages>>

OpenFails ==
  /\ mode = "closed"
  /\ ScanFrames(file).kind # "complete"
  /\ outcome' = "error"
  /\ UNCHANGED <<file, acked, flight, mode, held, damages>>

(* Cuts the tail that the scan reports, and validates what is left. *)
OpenRecoveringIncompleteTail ==
  LET scan == ScanFrames(file)
      kept == SubSeq(file, 1, scan.at)
  IN  /\ mode = "closed"
      /\ scan.kind = "tail"
      /\ ScanFrames(kept).kind = "complete"
      /\ file' = kept
      /\ mode' = "open"
      /\ acked' = scan.entries
      /\ flight' = <<>>
      /\ outcome' = "ok"
      /\ UNCHANGED <<held, damages>>

(* The journal and the record log report the tail, and let the caller      *)
(* replay the frames before it.                                            *)
ScanRecoverableTail ==
  /\ mode = "closed"
  /\ ScanFrames(file).kind # "error"
  /\ mode' = "scanned"
  /\ held' = ScanFrames(file)
  /\ outcome' = "ok"
  /\ UNCHANGED <<file, acked, flight, damages>>

ScanFails ==
  /\ mode = "closed"
  /\ ScanFrames(file).kind = "error"
  /\ outcome' = "error"
  /\ UNCHANGED <<file, acked, flight, mode, held, damages>>

NothingToTruncate ==
  /\ mode = "scanned"
  /\ held.kind = "complete"
  /\ mode' = "open"
  /\ acked' = held.entries
  /\ flight' = <<>>
  /\ outcome' = "ok"
  /\ UNCHANGED <<file, held, damages>>

FaultyTailUnchanged(actual) == actual.kind = "tail"
TailUnchanged(actual) ==
  actual.kind = "tail" /\ actual.at = held.at /\ actual.section = held.section

TruncateVerifiedIncompleteTail ==
  LET actual == ScanFrames(file) IN
  /\ mode = "scanned"
  /\ held.kind = "tail"
  /\ TailUnchanged(actual)
  /\ file' = SubSeq(file, 1, actual.at)
  /\ mode' = "open"
  /\ acked' = held.entries
  /\ flight' = <<>>
  /\ outcome' = "ok"
  /\ UNCHANGED <<held, damages>>

RecoveryTailChanged ==
  /\ mode = "scanned"
  /\ held.kind = "tail"
  /\ ~ TailUnchanged(ScanFrames(file))
  /\ mode' = "closed"
  /\ outcome' = "error"
  /\ UNCHANGED <<file, acked, flight, held, damages>>

AppendFrame ==
  /\ mode = "open"
  /\ Len(acked) < MaxFrames
  /\ \E payload \in Payloads :
       /\ file' = file \o EncodeFrame(payload)
       /\ acked' = Append(acked, payload)
  /\ outcome' = "ok"
  /\ UNCHANGED <<flight, mode, held, damages>>

(* The process or the machine stops during the append: any number of its   *)
(* digits is on disk, and the writer is gone.                              *)
AppendInterrupted ==
  /\ mode = "open"
  /\ Len(acked) < MaxFrames
  /\ \E payload \in Payloads : \E written \in 0 .. Len(EncodeFrame(payload)) :
       /\ file' = file \o SubSeq(EncodeFrame(payload), 1, written)
       /\ flight' = <<payload>>
  /\ mode' = "closed"
  /\ outcome' = "error"
  /\ UNCHANGED <<acked, held, damages>>

Close ==
  /\ mode = "open"
  /\ mode' = "closed"
  /\ UNCHANGED <<file, acked, flight, held, damages, outcome>>

DigitRots ==
  /\ mode # "open"
  /\ damages < MaxDamage
  /\ \E i \in DOMAIN file : \E digit \in Digits \ {file[i]} :
       file' = [file EXCEPT ![i] = digit]
  /\ damages' = damages + 1
  /\ UNCHANGED <<acked, flight, mode, held, outcome>>

Next ==
  \/ Open \/ OpenFails \/ OpenRecoveringIncompleteTail
  \/ ScanRecoverableTail \/ ScanFails \/ NothingToTruncate
  \/ TruncateVerifiedIncompleteTail \/ RecoveryTailChanged
  \/ AppendFrame \/ AppendInterrupted \/ Close \/ DigitRots

Spec == Init /\ [][Next]_vars

(***************************************************************************)
(* Properties.                                                             *)
(***************************************************************************)

(* However an append is cut off, the scan reports a complete log or an     *)
(* incomplete tail and never an error, and it reports every acknowledged   *)
(* payload and at most the interrupted one after them.                     *)
CutLogsRecover ==
  damages = 0 =>
    LET scan == ScanFrames(file)
    IN  scan.kind # "error" /\ scan.entries \in {acked, acked \o flight}

(* The length digit of the i-th acknowledged frame is not what was         *)
(* written: the one digit whose damage the checksum cannot show, because   *)
(* it says where the checksum is.                                          *)
LengthRotted(i) ==
  LET before == FlattenSeq([j \in 1 .. i - 1 |-> EncodeFrame(acked[j])])
  IN  file[Len(before) + HEADER_LENGTH] # Len(acked[i])

(* The scan never reports a payload that was not appended in that place,   *)
(* and it reports an error when a digit of an acknowledged frame is        *)
(* rotten, unless that is its length digit and the frame now seems to end  *)
(* beyond the log: then the frames before it are reported.                 *)
DamageNeverAlters ==
  LET scan == ScanFrames(file) IN
  scan.kind # "error" =>
    /\ IsPrefix(scan.entries, acked \o flight)
    /\ \/ IsPrefix(acked, scan.entries)
       \/ /\ scan.kind = "tail"
          /\ \E i \in DOMAIN acked : LengthRotted(i) /\ scan.entries = SubSeq(acked, 1, i - 1)

(* Whatever an interrupted append or a rotten digit leaves, the scan of a  *)
(* log reports every acknowledged payload of a log that was only cut,      *)
(* never a payload that was not appended, and no log without one of its    *)
(* acknowledged payloads except after a rotten length.                     *)
LogsRecover == CutLogsRecover /\ DamageNeverAlters

(* "Corruption in a complete frame, or an invalid byte suffix, still       *)
(* causes an error" (open_recovering_incomplete_tail): a scan that reports *)
(* no error reports every acknowledged payload.                            *)
CorruptionFailsClosed ==
  LET scan == ScanFrames(file)
  IN  scan.kind # "error" => IsPrefix(acked, scan.entries)

(* Truncating a tail leaves exactly the frames that the caller replayed,   *)
(* also when the file changed after the scan.                              *)
TruncationKeeps ==
  TruncateVerifiedIncompleteTail =>
    LET scan == ScanFrames(file')
    IN  scan.kind = "complete" /\ scan.entries = held.entries
=============================================================================
