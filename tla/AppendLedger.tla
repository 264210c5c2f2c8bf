----------------------------- MODULE AppendLedger -----------------------------
(***************************************************************************)
(* One append-only artifact and the processes that call append_record on   *)
(* it (src/src/signal_growth/append_only.py, lines 150-212).               *)
(*                                                                         *)
(* The file is a sequence of lines, the last of which is the text behind   *)
(* the final newline: a file that ends in "\n" has a blank last line.  The *)
(* text of one record is written in up to four pieces, each of which a     *)
(* separate write(2) may carry: the newline that ends an unterminated      *)
(* predecessor, the opening part of the JSON object, its closing part, and *)
(* the newline.  A process can die between any two of them.  The file is   *)
(* opened in append mode, so a piece always lands at the end of the file   *)
(* as it is when the piece is written.                                     *)
(***************************************************************************)
EXTENDS HashChain, FiniteSets

CONSTANTS
    Writers,        \* processes that append to this artifact
    Splitting,      \* contents holding a character str.splitlines() splits at
    FlushMayFail,   \* values of flaky
    MaxAttempts,    \* bound: calls in one behaviour, by value of flaky
    InitialFiles,   \* what the artifact may hold before
    NoWriter        \* the holder of a free lock

ASSUME LedgerAssumption ==
    /\ Content # {}
    /\ Splitting \subseteq Content
    /\ FlushMayFail \subseteq BOOLEAN
    /\ MaxAttempts \in [BOOLEAN -> Nat]
    /\ NoWriter \notin Writers

VARIABLES
    file,       \* the lines of the artifact
    lock,       \* holder of the flock on the file
    pc,         \* per writer: where it is in append_record
    failed,     \* writers whose flush raised
    entry,      \* per writer: the record it is appending
    count,      \* per writer: the line count it will return
    acks,       \* what append_record has returned: [content, at]
    attempts,   \* calls so far
    flaky       \* whether a write can fail with an OSError (a full disk)

vars == <<file, lock, pc, failed, entry, count, acks, attempts, flaky>>

Pieces == {"prefix", "open", "close", "newline"}
Line == [stage : {"blank", "part", "full", "garbled"}, entry : Record]

-----------------------------------------------------------------------------
(* Reading the file: existing.splitlines() without the blank lines.        *)

NoEntry == [content |-> CHOOSE c \in Content : TRUE,
            prev |-> NoHash, hash |-> NoHash]

BlankLine == [stage |-> "blank", entry |-> NoEntry]

NonBlank(f) == {i \in DOMAIN f : f[i].stage # "blank"}
Readable(f) == {i \in DOMAIN f : f[i].stage = "full"}

TailLine(f) == CHOOSE i \in NonBlank(f) : \A j \in NonBlank(f) : j <= i

(* Mutant: the decoding error of the last line is swallowed.               *)
TailAlwaysParses(f) == TRUE

(* _tail_record_hash raises unless the last line parses.                   *)
TailParses(f) == NonBlank(f) # {} => f[TailLine(f)].stage = "full"

TailHash(f) ==
    IF NonBlank(f) = {} THEN NoHash ELSE f[TailLine(f)].entry.hash

(* Mutant: the last newline is taken for granted.                          *)
AssumedTerminated(f) == TRUE

EndsWithNewline(f) == f[Len(f)].stage = "blank"

(***************************************************************************)
(* The file after one piece of the text of e is written at its end.  A     *)
(* closing part completes the line only behind its own opening part, and   *)
(* only if nothing in between reads as a line break.                       *)
(***************************************************************************)
Extended(f, piece, e) ==
    LET last == f[Len(f)]
        line(stage) == [f EXCEPT ![Len(f)] = [stage |-> stage, entry |-> e]]
    IN  CASE piece \in {"prefix", "newline"} -> Append(f, BlankLine)
          [] piece = "open" ->
               line(IF last.stage = "blank" THEN "part" ELSE "garbled")
          [] piece = "close" ->
               line(IF /\ last = [stage |-> "part", entry |-> e]
                       /\ e.content \notin Splitting
                      THEN "full" ELSE "garbled")

(***************************************************************************)
(* A reader that parses f and runs verify_append_chain on it: no record    *)
(* that carries a hash is reported for its link or for its contents.       *)
(***************************************************************************)
Chained(f) ==
    \A i \in Readable(f) :
        LET e      == f[i].entry
            before == {j \in Readable(f) : j < i}
        IN  e.hash # NoHash =>
              /\ e.hash = RecordHash(e.content, e.prev)
              /\ before = {} => e.prev = NoHash
              /\ \A j \in before :
                    (\A k \in before : k <= j) => f[j].entry.hash \in {NoHash, e.prev}

(* A line that does not parse has nothing but blank lines behind it.       *)
TornLast(f) == \A i, j \in NonBlank(f) : i < j => i \in Readable(f)

(* Only the text behind the last newline is blank.                         *)
BlankLast(f) == \A i \in DOMAIN f : f[i].stage = "blank" => i = Len(f)

(* An artifact as append_record, or the time before the chain, left it.    *)
ASSUME InitialAssumption ==
    \A f \in InitialFiles :
        /\ f \in Seq(Line) /\ f # << >>
        /\ BlankLast(f) /\ TornLast(f) /\ Chained(f)

-----------------------------------------------------------------------------
Goto(w, label) == pc' = [pc EXCEPT ![w] = label]

Release(w) == lock' = IF lock = w THEN NoWriter ELSE lock

(* The call is over: what the process held in memory is gone.              *)
Leave(w) ==
    /\ Goto(w, "idle")
    /\ failed' = failed \ {w}
    /\ entry' = [entry EXCEPT ![w] = NoEntry]
    /\ count' = [count EXCEPT ![w] = 0]

(* open(path, "a+"): the descriptor exists, the lock is not held yet.      *)
Call(w) ==
    /\ pc[w] = "idle"
    /\ attempts < MaxAttempts[flaky]
    /\ attempts' = attempts + 1
    /\ \E c \in Content :
         entry' = [entry EXCEPT ![w] = Linked(c, NoHash)]
    /\ Goto(w, "waiting")
    /\ UNCHANGED <<file, lock, failed, count, acks, flaky>>

(* Mutant: no flock.                                                       *)
LockNothing(w) ==
    /\ pc[w] = "waiting"
    /\ lock' = w
    /\ Goto(w, "locked")
    /\ UNCHANGED <<file, failed, entry, count, acks, attempts, flaky>>

Lock(w) ==
    /\ pc[w] = "waiting"
    /\ lock = NoWriter
    /\ lock' = w
    /\ Goto(w, "locked")
    /\ UNCHANGED <<file, failed, entry, count, acks, attempts, flaky>>

(* Mutants: the line count before the append, and the index before that.   *)
LinkCounting(w, offset) ==
    /\ pc[w] = "locked"
    /\ TailParses(file)
    /\ entry' = [entry EXCEPT ![w] = Linked(@.content, TailHash(file))]
    /\ count' = [count EXCEPT ![w] = Cardinality(NonBlank(file)) + offset]
    /\ Goto(w, IF EndsWithNewline(file) THEN "open" ELSE "prefix")
    /\ UNCHANGED <<file, lock, failed, acks, attempts, flaky>>
LinkCountingBefore(w) == LinkCounting(w, 0)
LinkCountingIndex(w) == LinkCounting(w, -1)

(* Read everything, link the record to the last line, choose the prefix.   *)
Link(w) ==
    /\ pc[w] = "locked"
    /\ TailParses(file)
    /\ entry' = [entry EXCEPT ![w] = Linked(@.content, TailHash(file))]
    /\ count' = [count EXCEPT ![w] = Cardinality(NonBlank(file)) + 1]
    /\ Goto(w, IF EndsWithNewline(file) THEN "open" ELSE "prefix")
    /\ UNCHANGED <<file, lock, failed, acks, attempts, flaky>>

(* Mutant: no finally clause around the refusal, in a process that stays.  *)
RefuseHoldingLock(w) ==
    /\ pc[w] = "locked"
    /\ ~TailParses(file)
    /\ Leave(w)
    /\ UNCHANGED <<file, lock, acks, attempts, flaky>>

(* AppendOnlyError: the finally clause unlocks and nothing is written.     *)
Refuse(w) ==
    /\ pc[w] = "locked"
    /\ ~TailParses(file)
    /\ Release(w)
    /\ Leave(w)
    /\ UNCHANGED <<file, acks, attempts, flaky>>

NextPiece(piece) ==
    CASE piece = "prefix"  -> "open"
      [] piece = "open"    -> "close"
      [] piece = "close"   -> "newline"
      [] piece = "newline" -> "flushed"

(* One piece reaches the file while flush() runs under the lock.           *)
Write(w) ==
    /\ pc[w] \in Pieces
    /\ w \notin failed
    /\ file' = Extended(file, pc[w], entry[w])
    /\ Goto(w, NextPiece(pc[w]))
    /\ UNCHANGED <<lock, failed, entry, count, acks, attempts, flaky>>

(* return len(lines) + 1, through the finally clause.                      *)
Return(w) ==
    /\ pc[w] = "flushed"
    /\ acks' = acks \union {[content |-> entry[w].content, at |-> count[w]]}
    /\ Release(w)
    /\ Leave(w)
    /\ UNCHANGED <<file, attempts, flaky>>

(***************************************************************************)
(* flush() raises: the finally clause releases the lock while the rest of  *)
(* the text is still in the handle's buffer.                               *)
(***************************************************************************)
FlushFails(w) ==
    /\ flaky
    /\ pc[w] \in Pieces
    /\ w \notin failed
    /\ failed' = failed \union {w}
    /\ Release(w)
    /\ UNCHANGED <<file, pc, entry, count, acks, attempts, flaky>>

(* Leaving the with block closes the handle, and close() flushes again.    *)
CloseWrites(w) ==
    /\ w \in failed
    /\ file' = Extended(file, pc[w], entry[w])
    /\ IF pc[w] = "newline"
         THEN Leave(w)
         ELSE Goto(w, NextPiece(pc[w])) /\ UNCHANGED <<failed, entry, count>>
    /\ UNCHANGED <<lock, acks, attempts, flaky>>

(* The second flush fails as well: the rest of the text is dropped.        *)
CloseFails(w) ==
    /\ w \in failed
    /\ Leave(w)
    /\ UNCHANGED <<file, lock, acks, attempts, flaky>>

(* The process dies: its buffer is gone and the kernel drops its lock.     *)
Crash(w) ==
    /\ pc[w] # "idle"
    /\ Release(w)
    /\ Leave(w)
    /\ UNCHANGED <<file, acks, attempts, flaky>>

Init ==
    /\ file \in InitialFiles
    /\ lock = NoWriter
    /\ pc = [w \in Writers |-> "idle"]
    /\ failed = {}
    /\ entry = [w \in Writers |-> NoEntry]
    /\ count = [w \in Writers |-> 0]
    /\ acks = {}
    /\ attempts = 0
    /\ flaky \in FlushMayFail

Step(w) ==
    \/ Link(w) \/ Refuse(w) \/ Write(w) \/ Return(w)
    \/ FlushFails(w) \/ CloseWrites(w) \/ CloseFails(w)

Next == \E w \in Writers : Call(w) \/ Lock(w) \/ Step(w) \/ Crash(w)

Spec == Init /\ [][Next]_vars

(***************************************************************************)
(* A process that is scheduled goes on, and flock grants a released lock   *)
(* to a waiter sooner or later (Linux queues the waiters).                 *)
(***************************************************************************)
Fairness == \A w \in Writers : WF_vars(Step(w)) /\ SF_vars(Lock(w))
FairSpec == Spec /\ Fairness

-----------------------------------------------------------------------------
TypeOK ==
    /\ file \in Seq(Line) /\ file # << >>
    /\ lock \in Writers \union {NoWriter}
    /\ pc \in [Writers -> {"idle", "waiting", "locked", "flushed"} \union Pieces]
    /\ failed \in SUBSET {w \in Writers : pc[w] \in Pieces}
    /\ entry \in [Writers -> Record]
    /\ count \in [Writers -> Nat]
    /\ acks \in SUBSET [content : Content, at : Nat]
    /\ attempts \in 0 .. MaxAttempts[flaky]
    /\ flaky \in BOOLEAN

(***************************************************************************)
(* A reader that verifies the chain never reports an edit, a reordering or *)
(* a removal when nobody but append_record has touched the artifact: the   *)
(* only issue it can report is a hash missing since before the chain       *)
(* existed.  Contended lock, crashes in the middle of a line and an        *)
(* unterminated last line included (append_record, verify_append_chain).   *)
(* This and what follows up to CallsReturn holds while no write fails.     *)
(***************************************************************************)
ChainIntact == ~flaky => Chained(file)

(***************************************************************************)
(* Fail-stop: a line that does not parse is the last one.  Nothing is ever *)
(* stored behind a torn line, where the chain could not reach it           *)
(* (_tail_record_hash).                                                    *)
(***************************************************************************)
TornOnlyAtTail == ~flaky => TornLast(file)

(***************************************************************************)
(* A record that could once be read is never changed, moved or merged with *)
(* the text of a later append, whatever the last line ended with.          *)
(***************************************************************************)
HistoryKept ==
    [][~flaky => \A i \in Readable(file) :
                     i \in Readable(file') /\ file'[i] = file[i]]_vars

(***************************************************************************)
(* Whoever calls append_record returns: no refusal, failure or crash of    *)
(* one process leaves the lock behind and the others waiting.              *)
(***************************************************************************)
CallsReturn == \A w \in Writers : pc[w] = "waiting" ~> pc[w] = "idle"

(***************************************************************************)
(* What it says of the serialisation: a record that would not serialise to *)
(* a single line is rejected, so every record accepted can be read back.   *)
(***************************************************************************)
AcceptedIsReadable ==
    \A a \in acks :
        \E i \in Readable(file) : file[i].entry.content = a.content

(***************************************************************************)
(* What callers may take append_record for while writes do not fail: one   *)
(* atomic log, in which the line count returned for a record is, for ever  *)
(* after, the place of that record among the lines a reader sees.          *)
(***************************************************************************)
NthReadable(f, n) ==
    CHOOSE i \in Readable(f) : Cardinality({j \in Readable(f) : j <= i}) = n
Contents(f) ==
    [n \in 1 .. Cardinality(Readable(f)) |-> f[NthReadable(f, n)].entry.content]

Atomic == INSTANCE AtomicLog
            WITH log <- IF flaky THEN << >> ELSE Contents(file),
                 acks <- IF flaky THEN {} ELSE acks
ImplementsAtomicLog == Atomic!Spec
=============================================================================
