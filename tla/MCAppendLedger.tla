---------------------------- MODULE MCAppendLedger ----------------------------
(* Model values and starting files for AppendLedger.                       *)
EXTENDS AppendLedger

CONSTANTS c1, c2

MCContent == {c1, c2}

(* Bounds: calls while writes do not fail, and on a disk where they may.   *)
MCMaxAttempts == [b \in BOOLEAN |-> IF b THEN 2 ELSE 5]

Line0(stage, e) == [stage |-> stage, entry |-> e]
Legacy == [content |-> c1, prev |-> NoHash, hash |-> NoHash]

(***************************************************************************)
(* A new artifact, one whose last line has no newline, and one written     *)
(* before the chain existed.                                               *)
(***************************************************************************)
MCInitialFiles ==
    { << BlankLine >>,
      << Line0("full", Linked(c1, NoHash)) >>,
      << Line0("full", Legacy), BlankLine >> }
=============================================================================
