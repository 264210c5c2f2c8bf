------------------------------ MODULE MerkleTree ------------------------------
(***************************************************************************)
(* The Merkle tree over an artifact's records and its consistency proofs   *)
(* (src/src/signal_growth/merkle.py).  SHA-256 is collision free and its   *)
(* two prefixes keep leaves and nodes apart, so a hash is the term it was  *)
(* computed from.                                                          *)
(***************************************************************************)
EXTENDS Integers, SequencesExt

empty_root == << >>
hash_leaf(entry) == <<"leaf", entry>>
hash_children(left, right) == <<"node", left, right>>

-----------------------------------------------------------------------------
(* The integer operations of the code.                                     *)

BitAt(n, level) == (n \div 2^level) % 2
BitLength(n) == Min({k \in 0 .. n : n < 2^k})
BitCount(n) == Cardinality({k \in 0 .. n : BitAt(n, k) = 1})
TrailingZeros(n) == Max({k \in 0 .. n : n % 2^k = 0})

(* The largest power of two strictly below n, for n >= 2.                  *)
DownToPowerOfTwo(n) == Max({p \in {2^k : k \in 0 .. n} : p < n})

-----------------------------------------------------------------------------
Spans(length) ==
    {span \in (1 .. length) \X (1 .. length) : span[1] + span[2] - 1 <= length}

(* The root of size entries from the place at on.                          *)
RootAt(entries, at, size) ==
    LET root[span \in Spans(Len(entries))] ==
          LET split == DownToPowerOfTwo(span[2])
          IN  IF span[2] = 1 THEN hash_leaf(entries[span[1]])
              ELSE hash_children(root[<<span[1], split>>],
                                 root[<<span[1] + split, span[2] - split>>])
    IN  root[<<at, size>>]

RootOf(entries) ==
    IF entries = << >> THEN empty_root ELSE RootAt(entries, 1, Len(entries))

(* compute_consistency_proof where it does not raise: the proof of the     *)
(* first n1 within a span of entries, without the root of these themselves *)
(* where the verifier has it.                                              *)
ConsistencyProof(entries, size1, size2) ==
    LET Parts == {part \in Spans(size2) \X (1 .. size2) \X BOOLEAN : part[2] <= part[1][2]}
        proof[part \in Parts] ==
          LET at == part[1][1]
              n2 == part[1][2]
              n1 == part[2]
              have_root1 == part[3]
              split == DownToPowerOfTwo(n2)
          IN  IF n1 = n2
                THEN IF have_root1 THEN << >> ELSE <<RootAt(entries, at, n1)>>
              ELSE IF n1 <= split
                THEN Append(proof[<< <<at, split>>, n1, have_root1>>],
                            RootAt(entries, at + split, n2 - split))
              ELSE Append(proof[<< <<at + split, n2 - split>>, n1 - split, FALSE>>],
                          RootAt(entries, at, split))
    IN  proof[<< <<1, size2>>, size1, TRUE>>]

CanProve(entries, size1, size2) ==
    0 < size1 /\ size1 <= size2 /\ size2 <= Len(entries)

-----------------------------------------------------------------------------
(* Fold siblings into a seed, each on its side: all of them, on the side a *)
(* bit of index says; the left ones only; or all of them as left ones.     *)
Folded(seed, siblings, sides) ==
    LET folded[k \in 0 .. Len(siblings)] ==
          IF k = 0 THEN seed
          ELSE CASE sides[k] = "left"  -> hash_children(siblings[k], folded[k - 1])
                 [] sides[k] = "right" -> hash_children(folded[k - 1], siblings[k])
                 [] sides[k] = "none"  -> folded[k - 1]
    IN  folded[Len(siblings)]

ChainInner(seed, siblings, index) ==
    Folded(seed, siblings, [k \in DOMAIN siblings |->
                               IF BitAt(index, k - 1) = 0 THEN "right" ELSE "left"])

ChainInnerRight(seed, siblings, index) ==
    Folded(seed, siblings, [k \in DOMAIN siblings |->
                               IF BitAt(index, k - 1) = 1 THEN "left" ELSE "none"])

ChainBorderRight(seed, siblings) ==
    Folded(seed, siblings, [k \in DOMAIN siblings |-> "left"])

(* The level at which the paths to the last entries of both trees part.    *)
ForkLevel(size1, size2) ==
    Min({k \in 0 .. size2 : (size1 - 1) \div 2^k = (size2 - 1) \div 2^k})

(* Mutant: the nodes above the fork are not counted.                       *)
InnerLength(size1, size2, perfect) ==
    (IF perfect THEN 0 ELSE 1) + ForkLevel(size1, size2) - TrailingZeros(size1)

ProofLength(size1, size2, perfect) ==
    (IF perfect THEN 0 ELSE 1) + ForkLevel(size1, size2) - TrailingZeros(size1)
      + BitCount((size1 - 1) \div 2^ForkLevel(size1, size2))

(* Mutant: root1 is not rebuilt from the proof.                            *)
RebuildsAnything(size1, size2, seed, siblings, root1) == TRUE

(* The nodes of the proof that lie in the smaller tree rebuild its root.   *)
Rebuilds(size1, size2, seed, siblings, root1) ==
    LET shift == TrailingZeros(size1)
        fork == ForkLevel(size1, size2)
        within == (IF BitLength(size1 - 1) < fork THEN BitLength(size1 - 1) ELSE fork) - shift
    IN  ChainBorderRight(
            ChainInnerRight(seed, SubSeq(siblings, 1, within), (size1 - 1) \div 2^shift),
            SubSeq(siblings, fork - shift + 1, Len(siblings))) = root1

(* verify_consistency_proof returns, rather than raises.                   *)
ProofVerifies(size1, size2, proof, root1, root2) ==
    /\ 0 < size1 /\ size1 <= size2
    /\ IF size1 = size2
         THEN proof = << >> /\ root1 = root2
         ELSE LET shift == TrailingZeros(size1)
                  perfect == size1 = 2^shift
                  seed == IF perfect THEN root1 ELSE proof[1]
                  siblings == IF perfect THEN proof ELSE Tail(proof)
                  inner == ForkLevel(size1, size2) - shift
              IN  /\ proof # << >>
                  /\ Len(proof) = ProofLength(size1, size2, perfect)
                  /\ perfect \/ Rebuilds(size1, size2, seed, siblings, root1)
                  /\ root2 = ChainBorderRight(
                                 ChainInner(seed, SubSeq(siblings, 1, inner),
                                            (size1 - 1) \div 2^shift),
                                 SubSeq(siblings, inner + 1, Len(siblings)))
=============================================================================
