------------------------------ MODULE HashChain ------------------------------
(***************************************************************************)
(* The hash chain that src/src/signal_growth/append_only.py threads        *)
(* through every append-only artifact.                                     *)
(*                                                                         *)
(* SHA-256 is taken to be collision free, so a hash value can be           *)
(* represented by what it commits to: the contents of the record and of    *)
(* all the records it is chained to, oldest first.  Python's None (a       *)
(* missing record_hash, the prev_hash of the first record) is the empty    *)
(* sequence, which is the hash of no record.                               *)
(***************************************************************************)
EXTENDS Integers, Sequences

CONSTANT Content          \* the payloads a record can carry

HashValue == Seq(Content)
NoHash == << >>

Record == [content : Content, prev : HashValue, hash : HashValue]

(* compute_record_hash: every field but record_hash, prev_hash included.   *)
RecordHash(content, prev) == Append(prev, content)

(* A record as a writer stores it behind the hash prev.                    *)
Linked(content, prev) ==
    [content |-> content, prev |-> prev, hash |-> RecordHash(content, prev)]

(* chain_records: a whole artifact relinked into a fresh chain.            *)
ChainRecords(contents) ==
    LET linked[i \in DOMAIN contents] ==
          Linked(contents[i], IF i = 1 THEN NoHash ELSE linked[i - 1].hash)
    IN  linked
=============================================================================
