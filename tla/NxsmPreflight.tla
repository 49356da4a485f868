---------------------------- MODULE NxsmPreflight ----------------------------
(***************************************************************************)
(* run_p24_nxsm_absence_path512_sequential_preflight of nxsm.rs: the path  *)
(* of an absent nullifier, proved and verified one byte at a time.  Every  *)
(* segment starts at the boundary that the verification of the previous    *)
(* one returned, the first at the empty leaf.                              *)
(***************************************************************************)
EXTENDS Poseidon2

CONSTANTS
  Nullifiers,
  SiblingLists,   \* paths that callers give
  Strays          \* roots of other trees

VARIABLES
  request,   \* [nullifier, siblings, root]
  current,   \* the boundary that was verified last
  segment,   \* the byte index
  answer

vars == <<request, current, segment, answer>>

(* Callers expect the root of the tree without the nullifier, with it, or  *)
(* another one.                                                            *)
RootsOf(nullifier, siblings) ==
  Strays \cup UNION {SparseRootFromPath(nullifier, leaf, siblings) :
                       leaf \in SparseEmpty \cup SpentLeaf(nullifier)}
Requests ==
  UNION {{[nullifier |-> n, siblings |-> s, root |-> r] : r \in RootsOf(n, s)} :
         n \in Nullifiers, s \in SiblingLists}

Init ==
  /\ request \in Requests
  /\ current \in SparseEmpty
  /\ segment = 0
  /\ answer = "none"

SegmentSiblings == SubSeq(request.siblings, segment * BitsPerByte + 1, (segment + 1) * BitsPerByte)
(* The boundaries of the proofs that prove_p24_nxsm_absence_segment8 makes *)
(* from the current one: none for siblings that are not canonical.         *)
Boundaries ==
  UNION {{values[BitsPerByte] : values \in SegmentValues(current, SegmentSiblings, directions)} :
         directions \in SegmentDirections(request.nullifier, segment)}

FaultyProveSegment ==
  /\ answer = "none" /\ segment < DigestBytes
  /\ current' \in UNION {{values[BitsPerByte] :
                            values \in SegmentValues(current, SegmentSiblings, directions)} :
                         directions \in SegmentDirections(request.nullifier, 0)}
  /\ segment' = segment + 1
  /\ UNCHANGED <<request, answer>>
ProveSegment ==
  /\ answer = "none" /\ segment < DigestBytes
  /\ current' \in Boundaries
  /\ segment' = segment + 1
  /\ UNCHANGED <<request, answer>>

SegmentRefused ==
  /\ answer = "none" /\ segment < DigestBytes /\ Boundaries = {}
  /\ answer' = "refused"
  /\ UNCHANGED <<request, current, segment>>

(* The thread of the prover is not started, or panics. *)
ProverThreadFailed ==
  /\ answer = "none" /\ segment < DigestBytes
  /\ answer' = "prover_thread_failed"
  /\ UNCHANGED <<request, current, segment>>

Finish ==
  /\ answer = "none" /\ segment = DigestBytes
  /\ answer' = IF current = request.root THEN "verified" ELSE "root_mismatch"
  /\ UNCHANGED <<request, current, segment>>

Next == ProveSegment \/ SegmentRefused \/ ProverThreadFailed \/ Finish
Spec == Init /\ [][Next]_vars

(***************************************************************************)
(* A receipt of the sequential preflight exists exactly for a path that    *)
(* the reference tree verifies as an absence: the segments, chained by     *)
(* their boundaries, walk the levels of the whole path in its order.       *)
(***************************************************************************)
PreflightIsAbsence ==
  /\ answer = "verified" =>
       \E leaf \in SparseEmpty :
         SparseRootFromPath(request.nullifier, leaf, request.siblings) = {request.root}
  /\ answer = "root_mismatch" =>
       \E leaf \in SparseEmpty :
         request.root \notin SparseRootFromPath(request.nullifier, leaf, request.siblings)
=============================================================================
