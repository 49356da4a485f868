---------------------------- MODULE DurableChain -----------------------------
(***************************************************************************)
(* What a durable application promises a consensus engine, without the     *)
(* node that keeps the promise: the network decides blocks one after the   *)
(* other, the node makes a growing prefix of them durable, and it          *)
(* acknowledges a height only when that height is durable.  Nothing is     *)
(* ever taken back, and nothing but the decided blocks, in their order, is *)
(* ever made durable.                                                      *)
(***************************************************************************)
EXTENDS Integers, Sequences

VARIABLES
  decided,       \* the decided blocks
  durable,       \* the blocks the node can no longer lose
  acknowledged   \* the height the node has acknowledged

vars == <<decided, durable, acknowledged>>

Prefix(seq, n) == [i \in 1..n |-> seq[i]]

Init ==
  /\ decided = <<>>
  /\ durable = <<>>
  /\ acknowledged = 0

Decide ==
  /\ Len(decided') = Len(decided) + 1
  /\ Prefix(decided', Len(decided)) = decided
  /\ UNCHANGED <<durable, acknowledged>>

(* One barrier may make several blocks durable, and acknowledge the last.  *)
MakeDurable ==
  /\ \E n \in Len(durable) + 1 .. Len(decided) :
       /\ durable' = Prefix(decided, n)
       /\ acknowledged' \in {acknowledged, n}
  /\ UNCHANGED decided

(* The acknowledgment may come later than the barrier. *)
Acknowledge ==
  /\ acknowledged' \in acknowledged + 1 .. Len(durable)
  /\ UNCHANGED <<decided, durable>>

Next == Decide \/ MakeDurable \/ Acknowledge

Spec == Init /\ [][Next]_vars
=============================================================================
