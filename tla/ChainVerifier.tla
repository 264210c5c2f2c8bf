---------------------------- MODULE ChainVerifier ----------------------------
(***************************************************************************)
(* verify_append_chain (src/src/signal_growth/append_only.py, lines        *)
(* 75-126) as the loop it is: a reader goes through the records of an      *)
(* artifact and recomputes the chain.  The artifact was written by         *)
(* append_record as the chain over Original, and then somebody may have    *)
(* edited, reordered, duplicated, unchained or removed records, or have    *)
(* written others.  Hashes need no secret, so all of that may include new  *)
(* hashes; what the chain is good for is the case where it does not: a     *)
(* Forgery carries whatever content, but no hash that the chain over       *)
(* Original does not hold.                                                 *)
(***************************************************************************)
EXTENDS HashChain

CONSTANTS
    Original,       \* the contents append_record was given, oldest first
    Presented       \* the record sequences a reader may find

OriginalHash(n) == SubSeq(Original, 1, n)
KnownHashes == {OriginalHash(n) : n \in 0 .. Len(Original)}
Forgery == [content : Content, prev : KnownHashes, hash : KnownHashes]

ASSUME VerifierAssumption ==
    /\ Original \in Seq(Content)
    /\ Presented \subseteq Seq(Record)

VARIABLES
    records,        \* what the reader found
    index,          \* the line it checks next
    previous,       \* record_hash of the line before, None at the first
    verifiable,     \* FALSE while previous is _UNVERIFIABLE
    issues          \* what was reported: <<line, issue>>

verifierVars == <<records, index, previous, verifiable, issues>>

VerifierInit ==
    /\ records \in Presented
    /\ index = 1
    /\ previous = NoHash
    /\ verifiable = TRUE
    /\ issues = {}

(* Mutant: records without a hash are passed over, as before the exemption *)
(* for unchained files was removed.                                        *)
SkipUnchainedSilently ==
    /\ index <= Len(records)
    /\ records[index].hash = NoHash
    /\ verifiable' = FALSE
    /\ index' = index + 1
    /\ UNCHANGED <<records, previous, issues>>

(* record_hash is missing: reported, and the next link cannot be judged.   *)
SkipUnchained ==
    /\ index <= Len(records)
    /\ records[index].hash = NoHash
    /\ issues' = issues \union {<<index, "missing">>}
    /\ verifiable' = FALSE
    /\ index' = index + 1
    /\ UNCHANGED <<records, previous>>

(* Mutant: previous_hash is taken from prev_hash.                          *)
CheckRecordOneLate ==
    /\ index <= Len(records)
    /\ records[index].hash # NoHash
    /\ LET r == records[index]
       IN  issues' = issues
             \union (IF verifiable /\ r.prev # previous
                       THEN {<<index, "link">>} ELSE {})
             \union (IF r.hash # RecordHash(r.content, r.prev)
                       THEN {<<index, "hash">>} ELSE {})
    /\ previous' = records[index].prev
    /\ verifiable' = TRUE
    /\ index' = index + 1
    /\ UNCHANGED records

CheckRecord ==
    /\ index <= Len(records)
    /\ records[index].hash # NoHash
    /\ LET r == records[index]
       IN  issues' = issues
             \union (IF verifiable /\ r.prev # previous
                       THEN {<<index, "link">>} ELSE {})
             \union (IF r.hash # RecordHash(r.content, r.prev)
                       THEN {<<index, "hash">>} ELSE {})
    /\ previous' = records[index].hash
    /\ verifiable' = TRUE
    /\ index' = index + 1
    /\ UNCHANGED records

VerifierNext == SkipUnchained \/ CheckRecord

VerifierSpec == VerifierInit /\ [][VerifierNext]_verifierVars

Done == index > Len(records)

-----------------------------------------------------------------------------
VerifierTypeOK ==
    /\ records \in Seq(Record)
    /\ index \in 1 .. Len(records) + 1
    /\ previous \in HashValue
    /\ verifiable \in BOOLEAN
    /\ issues \subseteq (1 .. Len(records)) \X {"missing", "link", "hash"}

(* The record append_record stored for Original[i].                        *)
OriginalRecord(i) == Linked(Original[i], OriginalHash(i - 1))

(***************************************************************************)
(* As long as nothing has been reported, every record gone through is the  *)
(* one append_record stored at that place: whoever does not recompute      *)
(* hashes can only have cut records off the end without being noticed.     *)
(***************************************************************************)
AcceptedIsPrefix ==
    records \in Seq(Forgery) /\ issues = {} =>
        /\ index - 1 <= Len(Original)
        /\ \A i \in 1 .. index - 1 : records[i] = OriginalRecord(i)

(***************************************************************************)
(* No false alarm: a line is reported only if it, or the line before it,   *)
(* is not what append_record stored there.                                 *)
(***************************************************************************)
ReportedIsTampered ==
    \A issue \in issues :
        LET i == issue[1]
        IN  \E j \in {i - 1, i} \cap (1 .. Len(records)) :
                \/ j > Len(Original)
                \/ records[j] # OriginalRecord(j)

=============================================================================
