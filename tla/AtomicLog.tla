------------------------------ MODULE AtomicLog ------------------------------
(***************************************************************************)
(* What append_record promises to its callers: a log that records enter    *)
(* whole and at its end, one at a time, and an answer that tells the       *)
(* caller at which place its record stands.  Which process calls, the      *)
(* file, the lock and the hashes are not visible here.                     *)
(***************************************************************************)
EXTENDS Integers, Sequences

CONSTANT Content

VARIABLES
    log,    \* the records, oldest first
    acks    \* the answers given

Init ==
    /\ log \in Seq(Content)
    /\ acks = {}

Add == \E c \in Content : log' = Append(log, c) /\ UNCHANGED acks

(* The answer need not follow the record at once, but it is true.          *)
Answer ==
    /\ \E i \in DOMAIN log : acks' = acks \union {[content |-> log[i], at |-> i]}
    /\ UNCHANGED log

Next == Add \/ Answer

Spec == Init /\ [][Next]_<<log, acks>>
=============================================================================
