--------------------------- MODULE MCReturningReader ---------------------------
(* A ledger of seven records, and what a reader may find in its place:      *)
(* every sequence of up to two records that reuse its hashes, the ledger    *)
(* with one record changed, cut out, repeated or swapped with another, any  *)
(* beginning of it, and every fresh chain of up to MaxPresented records.    *)
EXTENDS ReturningReader

CONSTANTS c1, c2, MaxPresented

MCContent == {c1, c2}
MCOriginal == <<c1, c2, c2, c1, c1, c2, c1>>
MCKnown == 0 .. 7

Places == DOMAIN OriginalLedger
Edited == {ReplaceAt(OriginalLedger, i, r) : i \in Places, r \in Forgery}
CutOut == {RemoveAt(OriginalLedger, i) : i \in Places}
Repeated == {InsertAt(OriginalLedger, i, OriginalLedger[j]) : i, j \in Places}
Swapped == {[OriginalLedger EXCEPT ![i] = OriginalLedger[j], ![j] = OriginalLedger[i]] :
              i, j \in Places}
CutOff == {SubSeq(OriginalLedger, 1, n) : n \in Places}
Relinked == {ChainRecords(contents) : contents \in BoundedSeq(MCContent, MaxPresented)}

MCPresented ==
    BoundedSeq(Forgery, 2) \union Edited \union CutOut \union Repeated
      \union Swapped \union CutOff \union Relinked
=============================================================================
