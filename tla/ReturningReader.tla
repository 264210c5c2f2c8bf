---------------------------- MODULE ReturningReader ----------------------------
(***************************************************************************)
(* A reader that verified an artifact when it held the first size1         *)
(* records, kept nothing of it but the Merkle root, and comes back: first  *)
(* the consistency check of merkle.py, which reads no records, and then,   *)
(* with the records, the loop of verify_append_chain.                      *)
(*                                                                         *)
(* The proof and the new root come from two reads of the artifact          *)
(* (records_consistency_proof and records_root), and the artifact may have *)
(* grown or been rewritten between them.                                   *)
(***************************************************************************)
EXTENDS ChainVerifier, MerkleTree

CONSTANT Known      \* sizes of Original a reader may have verified

ASSUME ReaderAssumption == Known \subseteq 0 .. Len(Original)

VARIABLES
    size1, root1,   \* what the reader remembers
    answer,         \* the proof, what it was computed from and for which size
    verdict         \* of verify_consistency_proof

memory == <<size1, root1, answer, verdict>>

OriginalLedger == [i \in DOMAIN Original |-> OriginalRecord(i)]

NoAnswer == [of |-> << >>, size2 |-> 0, proof |-> << >>]

ReaderInit ==
    /\ VerifierInit
    /\ size1 \in Known
    /\ root1 = RootOf(SubSeq(OriginalLedger, 1, size1))
    /\ answer = NoAnswer
    /\ verdict = "none"

(* records_consistency_proof of the artifact as it was or as it is; by     *)
(* default size2 is the number of records.                                 *)
Prove ==
    /\ verdict = "none" /\ answer = NoAnswer
    /\ \E found \in {OriginalLedger, records} :
       \E size2 \in 1 .. Len(found) :
         /\ CanProve(found, size1, size2)
         /\ answer' = [of |-> found, size2 |-> size2,
                       proof |-> ConsistencyProof(found, size1, size2)]
    /\ UNCHANGED <<verifierVars, size1, root1, verdict>>

(* MerkleProofError: there is no proof from an empty tree or to a smaller  *)
(* one.                                                                    *)
RefuseToProve ==
    /\ verdict = "none" /\ answer = NoAnswer
    /\ ~CanProve(records, size1, Len(records))
    /\ verdict' = "refused"
    /\ UNCHANGED <<verifierVars, size1, root1, answer>>

(* verify_consistency_proof against the root of the artifact as it is.     *)
Check ==
    /\ verdict = "none" /\ answer # NoAnswer
    /\ verdict' = IF ProofVerifies(size1, Len(records), answer.proof, root1, RootOf(records))
                    THEN "accepted" ELSE "refused"
    /\ UNCHANGED <<verifierVars, size1, root1, answer>>

Reread ==
    /\ verdict # "none"
    /\ SkipUnchained \/ CheckRecord
    /\ UNCHANGED memory

ReaderNext == Prove \/ RefuseToProve \/ Check \/ Reread

ReaderSpec == ReaderInit /\ [][ReaderNext]_<<verifierVars, memory>>

-----------------------------------------------------------------------------
Remembered == SubSeq(OriginalLedger, 1, size1)

(* What is remembered stays what was verified, and a proof is O(log n).    *)
ReaderTypeOK ==
    /\ size1 \in Known /\ root1 = RootOf(Remembered)
    /\ verdict \in {"none", "accepted", "refused"}
    /\ answer.size2 <= Len(answer.of)
    /\ Len(answer.proof) <= BitLength(answer.size2) + 1

(***************************************************************************)
(* What a root pins down: whatever was done to the artifact, hashes        *)
(* recomputed or not, and whichever of its states the proof comes from, a  *)
(* check that passes means that the records verified earlier are still     *)
(* there, unchanged and in order.                                          *)
(***************************************************************************)
CheckpointHonoured ==
    verdict = "accepted" => IsPrefix(Remembered, records)

(***************************************************************************)
(* And an artifact that only grew is never turned down, as long as the     *)
(* proof was computed for the size the root is of.                         *)
(***************************************************************************)
GrowthAccepted ==
    /\ verdict = "refused" /\ size1 > 0
    /\ answer = NoAnswer \/ (answer.of = records /\ answer.size2 = Len(records))
    => ~IsPrefix(Remembered, records)

=============================================================================
