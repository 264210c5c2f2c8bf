------------------------------ MODULE LedgerProofs ------------------------------
(***************************************************************************)
(* An append-only artifact, for every value of the constants: append_record *)
(* keeps the chain, for any number of processes, contents and starting     *)
(* files, with crashes anywhere, in the behaviours in which writes do not  *)
(* fail (with ~flaky nobody writes without the lock); the verdict of       *)
(* verify_append_chain, for every ledger and everything that may have been *)
(* put in its place; and that the Merkle check of a returning reader takes *)
(* nothing away from it.                                                   *)
(***************************************************************************)
EXTENDS AppendLedger, ReturningReader, SequenceTheorems, FunctionTheorems,
        FiniteSetTheorems, WellFoundedInduction, TLAPS

-----------------------------------------------------------------------------
(* Facts about the data.                                                   *)

(* What stands for no entry, and for no text, is one.                      *)
LEMMA NoEntryType == NoEntry \in Record /\ BlankLine \in Line
  <1>1. (CHOOSE c \in Content : TRUE) \in Content
    BY LedgerAssumption
  <1>2. NoHash \in HashValue
    BY EmptySeq DEF NoHash, HashValue
  <1>3. NoEntry \in Record
    BY <1>1, <1>2 DEF NoEntry, Record
  <1> QED
    BY <1>3 DEF BlankLine, Line

(* append_record stores a well-formed record behind any hash.              *)
LEMMA LinkedType ==
    ASSUME NEW c \in Content, NEW h \in HashValue
    PROVE  /\ Linked(c, h) \in Record
           /\ Linked(c, h).content = c /\ Linked(c, h).prev = h
           /\ Linked(c, h).hash = RecordHash(c, h)
  <1>1. RecordHash(c, h) \in HashValue
    BY AppendProperties DEF HashValue, RecordHash
  <1> QED
    BY <1>1 DEF Linked, Record

(* A newline ends the last line and begins a blank one.                    *)
LEMMA NewlineEffect ==
    ASSUME NEW f \in Seq(Line), f # << >>, NEW e, NEW piece \in {"prefix", "newline"}
    PROVE  LET g == Extended(f, piece, e)
           IN  /\ g \in Seq(Line) /\ g # << >>
               /\ Len(f) \in Nat /\ Len(f) >= 1 /\ Len(g) = Len(f) + 1
               /\ \A i \in 1 .. Len(f) : g[i] = f[i]
               /\ g[Len(g)] = BlankLine
  <1>1. Extended(f, piece, e) = Append(f, BlankLine)
    BY DEF Extended
  <1>2. Len(f) \in Nat /\ Len(f) >= 1
    BY EmptySeq
  <1> QED
    BY <1>1, <1>2, NoEntryType, AppendProperties

(* The stage in which a piece of the text of e leaves the last line.       *)
Result(f, piece, e) ==
    IF piece = "open"
      THEN IF f[Len(f)].stage = "blank" THEN "part" ELSE "garbled"
      ELSE IF /\ f[Len(f)] = [stage |-> "part", entry |-> e]
              /\ e.content \notin Splitting
             THEN "full" ELSE "garbled"

(* Any other piece changes the last line and nothing else.                 *)
LEMMA TextEffect ==
    ASSUME NEW f \in Seq(Line), f # << >>, NEW e \in Record, NEW piece \in {"open", "close"}
    PROVE  LET g == Extended(f, piece, e)
           IN  /\ g \in Seq(Line) /\ g # << >>
               /\ Len(f) \in Nat /\ Len(f) >= 1 /\ Len(g) = Len(f)
               /\ \A i \in 1 .. Len(f) - 1 : g[i] = f[i]
               /\ g[Len(f)] = [stage |-> Result(f, piece, e), entry |-> e]
  <1> DEFINE line == [stage |-> Result(f, piece, e), entry |-> e]
             g == [f EXCEPT ![Len(f)] = line]
  <1>1. Extended(f, piece, e) = g
    BY DEF Extended, Result
  <1>2. line \in Line
    BY DEF Line, Result
  <1>3. Len(f) \in Nat /\ Len(f) >= 1 /\ Len(f) \in 1 .. Len(f)
    BY EmptySeq
  <1>4. /\ g \in Seq(Line)
        /\ Len(g) = Len(f)
        /\ \A i \in 1 .. Len(f) : g[i] = IF i = Len(f) THEN line ELSE f[i]
    <2> HIDE DEF line
    <2> QED
      BY <1>2, <1>3, ExceptSeq
  <1>5. line = [stage |-> Result(f, piece, e), entry |-> e]
    OBVIOUS
  <1> HIDE DEF line, g
  <1>6. g # << >>
    BY <1>3, <1>4, EmptySeq
  <1>7. (\A i \in 1 .. Len(f) - 1 : g[i] = f[i]) /\ g[Len(f)] = line
    BY <1>3, <1>4
  <1> QED
    BY <1>1, <1>3, <1>4, <1>5, <1>6, <1>7

(* Text behind a file leaves a file.                                       *)
LEMMA ExtendedType ==
    ASSUME NEW f \in Seq(Line), f # << >>, NEW e \in Record, NEW piece \in Pieces
    PROVE  Extended(f, piece, e) \in Seq(Line) /\ Extended(f, piece, e) # << >>
  BY NewlineEffect, TextEffect DEF Pieces

(* The hash _tail_record_hash returns is one a record can be linked to.    *)
LEMMA TailHashType ==
    ASSUME NEW f \in Seq(Line), NonBlank(f) # {} => TailLine(f) \in NonBlank(f)
    PROVE  TailHash(f) \in HashValue
  <1>1. NoHash \in HashValue
    BY EmptySeq DEF NoHash, HashValue
  <1>2. ASSUME NonBlank(f) # {} PROVE f[TailLine(f)].entry.hash \in HashValue
    <2>1. TailLine(f) \in 1 .. Len(f)
      BY <1>2, LenProperties DEF NonBlank
    <2>2. f[TailLine(f)] \in Line
      BY <2>1, ElementOfSeq
    <2> QED
      BY <2>2 DEF Line, Record
  <1> QED
    BY <1>1, <1>2 DEF TailHash

(* The last line that is not blank exists whenever there is one.           *)
LEMMA TailLineExists ==
    ASSUME NEW f \in Seq(Line), NonBlank(f) # {}
    PROVE  /\ TailLine(f) \in NonBlank(f)
           /\ \A j \in NonBlank(f) : j <= TailLine(f)
  <1>1. Len(f) \in Nat /\ NonBlank(f) \subseteq 1 .. Len(f)
    BY LenProperties DEF NonBlank
  <1> DEFINE fromEnd == {k \in Nat : Len(f) - k \in NonBlank(f)}
  <1>2. fromEnd \subseteq Nat /\ fromEnd # {}
    <2>1. PICK i \in NonBlank(f) : TRUE
      OBVIOUS
    <2>2. Len(f) - i \in Nat /\ Len(f) - (Len(f) - i) = i
      BY <1>1
    <2> QED
      BY <2>1, <2>2
  <1>3. PICK m \in fromEnd : \A k \in fromEnd : ~(<<k, m>> \in OpToRel(<, Nat))
    BY <1>2, NatLessThanWellFounded, WFMin
  <1>4. PICK i \in NonBlank(f) : i = Len(f) - m
    BY <1>3
  <1>5. \A j \in NonBlank(f) : j <= i
    <2> SUFFICES ASSUME NEW j \in NonBlank(f) PROVE j <= i
      OBVIOUS
    <2>1. Len(f) - j \in Nat /\ Len(f) - (Len(f) - j) = j
      BY <1>1
    <2>2. ~(<<Len(f) - j, m>> \in OpToRel(<, Nat))
      BY <1>3, <2>1
    <2> QED
      BY <1>1, <1>3, <1>4, <2>1, <2>2 DEF OpToRel
  <1> QED
    BY <1>5 DEF TailLine

-----------------------------------------------------------------------------
(* Artifacts start well typed,                                             *)
LEMMA TypeInit == Init => TypeOK
  BY InitialAssumption, LedgerAssumption, NoEntryType DEF Init, TypeOK

(* and stay so.                                                            *)
LEMMA TypeStep == TypeOK /\ [Next]_vars => TypeOK'
  <1> SUFFICES ASSUME TypeOK, [Next]_vars PROVE TypeOK'
    OBVIOUS
  <1>0. \A w \in Writers : entry[w] \in Record
    BY DEF TypeOK
  <1>1. ASSUME NEW w \in Writers, Call(w) PROVE TypeOK'
    <2>1. \A c \in Content : Linked(c, NoHash) \in Record
      BY LinkedType, EmptySeq DEF NoHash, HashValue
    <2>2. entry' \in [Writers -> Record]
      BY <1>1, <2>1 DEF TypeOK, Call
    <2> QED
      BY <1>1, <2>2, LedgerAssumption DEF TypeOK, Call, Goto, Pieces
  <1>2. ASSUME NEW w \in Writers, Lock(w) PROVE TypeOK'
    BY <1>2 DEF TypeOK, Lock, Goto, Pieces
  <1>3. ASSUME NEW w \in Writers, Link(w) PROVE TypeOK'
    <2>1. TailHash(file) \in HashValue
      BY TailLineExists, TailHashType DEF TypeOK
    <2>2. Linked(entry[w].content, TailHash(file)) \in Record
      BY <1>0, <2>1, LinkedType DEF Record
    <2>3. Cardinality(NonBlank(file)) \in Nat
      <3>1. NonBlank(file) \subseteq 1 .. Len(file) /\ Len(file) \in Nat
        BY LenProperties DEF TypeOK, NonBlank
      <3>2. IsFiniteSet(NonBlank(file))
        <4>1. IsFiniteSet(1 .. Len(file))
          BY <3>1, FS_Interval
        <4> QED
          BY <3>1, <4>1, FS_Subset
      <3> QED
        BY <3>2, FS_CardinalityType
    <2> QED
      BY <1>3, <2>2, <2>3 DEF TypeOK, Link, Goto, Pieces
  <1>4. ASSUME NEW w \in Writers, Refuse(w) PROVE TypeOK'
    BY <1>4, NoEntryType DEF TypeOK, Refuse, Release, Leave, Goto
  <1>5. ASSUME NEW w \in Writers, Write(w) PROVE TypeOK'
    <2>1. file' \in Seq(Line) /\ file' # << >>
      BY <1>0, <1>5, ExtendedType DEF TypeOK, Write
    <2>2. NextPiece(pc[w]) \in {"flushed"} \union Pieces
      BY <1>5 DEF Write, Pieces, NextPiece
    <2> QED
      BY <1>5, <2>1, <2>2 DEF TypeOK, Write, Goto
  <1>6. ASSUME NEW w \in Writers, Return(w) PROVE TypeOK'
    <2>1. [content |-> entry[w].content, at |-> count[w]] \in [content : Content, at : Nat]
      BY <1>0 DEF TypeOK, Record
    <2> QED
      BY <1>6, <2>1, NoEntryType DEF TypeOK, Return, Release, Leave, Goto
  <1>7. ASSUME NEW w \in Writers, FlushFails(w) PROVE TypeOK'
    BY <1>7 DEF TypeOK, FlushFails, Release
  <1>8. ASSUME NEW w \in Writers, CloseWrites(w) PROVE TypeOK'
    <2>1. pc[w] \in Pieces
      BY <1>8 DEF TypeOK, CloseWrites
    <2>2. file' \in Seq(Line) /\ file' # << >>
      BY <1>0, <1>8, <2>1, ExtendedType DEF TypeOK, CloseWrites
    <2>3. CASE pc[w] = "newline"
      <3>1. /\ Leave(w)
            /\ UNCHANGED <<lock, acks, attempts, flaky>>
        BY <1>8, <2>3 DEF CloseWrites
      <3> QED
        BY <2>2, <3>1, NoEntryType DEF TypeOK, Leave, Goto
    <2>4. CASE pc[w] # "newline"
      <3>1. NextPiece(pc[w]) \in Pieces
        BY <2>1, <2>4 DEF Pieces, NextPiece
      <3> QED
        BY <1>8, <2>2, <2>4, <3>1 DEF TypeOK, CloseWrites, Goto
    <2> QED
      BY <2>3, <2>4
  <1>9. ASSUME NEW w \in Writers, CloseFails(w) PROVE TypeOK'
    BY <1>9, NoEntryType DEF TypeOK, CloseFails, Leave, Goto
  <1>10. ASSUME NEW w \in Writers, Crash(w) PROVE TypeOK'
    BY <1>10, NoEntryType DEF TypeOK, Crash, Release, Leave, Goto
  <1>11. CASE UNCHANGED vars
    BY <1>11 DEF TypeOK, vars
  <1> QED
    BY <1>1, <1>2, <1>3, <1>4, <1>5, <1>6, <1>7, <1>8, <1>9, <1>10, <1>11
       DEF Next, Step

(***************************************************************************)
(* Type correctness, failing writes included.                              *)
(***************************************************************************)
THEOREM TypeCorrect == Spec => []TypeOK
  BY TypeInit, TypeStep, PTL DEF Spec

-----------------------------------------------------------------------------
(***************************************************************************)
(* The inductive invariant.  Every line parses but the last, which may be  *)
(* blank, torn or in progress; the line before a blank last line may be    *)
(* one that nobody can parse, and then nobody appends any more.            *)
(***************************************************************************)
WellFormed(f) == \A i \in 1 .. Len(f) - 1 :
    \/ f[i].stage = "full"
    \/ i = Len(f) - 1 /\ f[Len(f)].stage = "blank" /\ f[i].stage # "blank"

(* Chained, told line by line: all lines before a line that parses do.     *)
LinkedLines(f) ==
    \A i \in 1 .. Len(f) :
        f[i].stage = "full" /\ f[i].entry.hash # NoHash =>
            /\ f[i].entry.hash = RecordHash(f[i].entry.content, f[i].entry.prev)
            /\ i = 1 => f[i].entry.prev = NoHash
            /\ i > 1 => f[i - 1].entry.hash \in {NoHash, f[i].entry.prev}

Holding == {"locked", "flushed"} \union Pieces

(* Without failing writes, only the holder of the lock reads and writes.   *)
LockDiscipline ==
    /\ failed = {}
    /\ \A w \in Writers : pc[w] \in Holding <=> lock = w

(* The hash a record stored at line n has to be linked to.                 *)
HashBefore(f, n) == IF n = 1 THEN NoHash ELSE f[n - 1].entry.hash

(* What the end of the file looks like to the writer of e at each piece.   *)
View(f, label, e) ==
    LET n == Len(f)
    IN  /\ label \in Pieces => e.hash = RecordHash(e.content, e.prev)
        /\ label = "prefix" => f[n].stage = "full" /\ f[n].entry.hash = e.prev
        /\ label = "open" =>
              /\ f[n].stage = "blank"
              /\ n > 1 => f[n - 1].stage = "full"
              /\ e.prev = HashBefore(f, n)
        /\ label = "close" =>
              /\ f[n] = [stage |-> "part", entry |-> e]
              /\ n > 1 => f[n - 1].stage = "full"
              /\ e.prev = HashBefore(f, n)
        /\ label = "newline" =>
              /\ f[n].stage \in {"full", "garbled"}
              /\ n > 1 => f[n - 1].stage = "full"

IInv ==
    /\ TypeOK
    /\ LockDiscipline
    /\ WellFormed(file)
    /\ LinkedLines(file)
    /\ \A w \in Writers : View(file, pc[w], entry[w])

(* Where the last line that is not blank stands in a well-formed file.     *)
LEMMA TailOfWellFormed ==
    ASSUME NEW f \in Seq(Line), f # << >>, WellFormed(f)
    PROVE  /\ f[Len(f)].stage # "blank" =>
                NonBlank(f) # {} /\ TailLine(f) = Len(f)
           /\ f[Len(f)].stage = "blank" /\ Len(f) > 1 =>
                NonBlank(f) # {} /\ TailLine(f) = Len(f) - 1
           /\ f[Len(f)].stage = "blank" /\ Len(f) = 1 => NonBlank(f) = {}
  <1>1. Len(f) \in Nat /\ Len(f) >= 1 /\ DOMAIN f = 1 .. Len(f)
    BY EmptySeq, LenProperties
  <1>2. ASSUME NEW i \in 1 .. Len(f) - 1 PROVE i \in NonBlank(f)
    <2>1. f[i].stage # "blank"
      BY DEF WellFormed
    <2>2. i \in DOMAIN f
      BY <1>1
    <2> QED
      BY <2>1, <2>2 DEF NonBlank
  <1>3. NonBlank(f) # {} => /\ TailLine(f) \in NonBlank(f)
                            /\ \A j \in NonBlank(f) : j <= TailLine(f)
    BY TailLineExists
  <1>4. NonBlank(f) \subseteq 1 .. Len(f)
    BY <1>1 DEF NonBlank
  <1>5. CASE f[Len(f)].stage # "blank"
    <2>1. Len(f) \in NonBlank(f)
      BY <1>1, <1>5 DEF NonBlank
    <2> QED
      BY <1>1, <1>3, <1>4, <1>5, <2>1
  <1>6. CASE f[Len(f)].stage = "blank"
    <2>1. Len(f) \notin NonBlank(f)
      BY <1>6 DEF NonBlank
    <2>2. Len(f) > 1 => Len(f) - 1 \in NonBlank(f)
      BY <1>1, <1>2
    <2> QED
      BY <1>1, <1>3, <1>4, <1>6, <2>1, <2>2
  <1> QED
    BY <1>5, <1>6

(* What append_record learns from a file whose last line parses.           *)
LEMMA LinkView ==
    ASSUME NEW f \in Seq(Line), f # << >>, WellFormed(f), TailParses(f)
    PROVE  /\ f[Len(f)].stage = "blank" =>
                /\ Len(f) > 1 => f[Len(f) - 1].stage = "full"
                /\ TailHash(f) = HashBefore(f, Len(f))
           /\ f[Len(f)].stage # "blank" =>
                /\ f[Len(f)].stage = "full"
                /\ TailHash(f) = f[Len(f)].entry.hash
  <1>1. Len(f) \in Nat /\ Len(f) >= 1
    BY EmptySeq
  <1>2. CASE f[Len(f)].stage = "blank"
    <2>1. CASE Len(f) = 1
      BY <1>2, <2>1, TailOfWellFormed DEF TailHash, HashBefore
    <2>2. CASE Len(f) > 1
      <3>1. NonBlank(f) # {} /\ TailLine(f) = Len(f) - 1
        BY <1>2, <2>2, TailOfWellFormed
      <3> QED
        BY <1>1, <1>2, <2>2, <3>1 DEF TailParses, TailHash, HashBefore
    <2>3. Len(f) = 1 \/ Len(f) > 1
      BY <1>1
    <2> QED
      BY <2>1, <2>2, <2>3, Zenon
  <1>3. CASE f[Len(f)].stage # "blank"
    <2>1. NonBlank(f) # {} /\ TailLine(f) = Len(f)
      BY <1>3, TailOfWellFormed
    <2> QED
      BY <1>3, <2>1 DEF TailParses, TailHash
  <1> QED
    BY <1>2, <1>3

(***************************************************************************)
(* Writing one piece, seen from the file and from its writer.              *)
(***************************************************************************)
LEMMA PieceKeepsFile ==
    ASSUME NEW f \in Seq(Line), f # << >>, WellFormed(f), LinkedLines(f),
           NEW e \in Record, NEW piece \in Pieces, View(f, piece, e)
    PROVE  LET g == Extended(f, piece, e)
           IN  /\ WellFormed(g) /\ LinkedLines(g)
               /\ View(g, NextPiece(piece), e)
               /\ \A i \in Readable(f) : i \in Readable(g) /\ g[i] = f[i]
  <1> DEFINE g == Extended(f, piece, e)
             n == Len(f)
  <1>0. n \in Nat /\ n >= 1 /\ Readable(f) = {i \in 1 .. n : f[i].stage = "full"}
    BY EmptySeq, LenProperties DEF Readable
  <1>1. CASE piece \in {"prefix", "newline"}
    <2>1. /\ g \in Seq(Line) /\ Len(g) = n + 1
          /\ \A i \in 1 .. n : g[i] = f[i]
          /\ g[n + 1] = BlankLine
      BY <1>1, NewlineEffect
    <2>2. /\ \A i \in 1 .. n - 1 : f[i].stage = "full"
          /\ f[n].stage \in {"full", "garbled"}
          /\ piece = "prefix" => f[n].stage = "full" /\ f[n].entry.hash = e.prev
      BY <1>0, <1>1 DEF View, WellFormed
    <2>3. Readable(g) = {i \in 1 .. n + 1 : g[i].stage = "full"}
      BY <2>1, LenProperties DEF Readable
    <2> HIDE DEF g
    <2>4. WellFormed(g)
      BY <1>0, <2>1, <2>2 DEF WellFormed, BlankLine
    <2>5. LinkedLines(g)
      BY <1>0, <2>1 DEF LinkedLines, BlankLine
    <2>6. View(g, NextPiece(piece), e)
      BY <1>0, <1>1, <2>1, <2>2 DEF View, NextPiece, HashBefore, BlankLine, Pieces
    <2> QED
      BY <1>0, <2>1, <2>3, <2>4, <2>5, <2>6 DEF g
  <1>2. CASE piece \in {"open", "close"}
    <2>1. /\ g \in Seq(Line) /\ Len(g) = n
          /\ \A i \in 1 .. n - 1 : g[i] = f[i]
          /\ g[n] = [stage |-> Result(f, piece, e), entry |-> e]
      BY <1>2, TextEffect
    <2>2. /\ \A i \in 1 .. n - 1 : f[i].stage = "full"
          /\ f[n].stage # "full"
          /\ e.hash = RecordHash(e.content, e.prev)
          /\ e.prev = HashBefore(f, n)
      BY <1>0, <1>2 DEF View, WellFormed, Pieces
    <2>3. Readable(g) = {i \in 1 .. n : g[i].stage = "full"}
      BY <2>1, LenProperties DEF Readable
    <2>4. /\ piece = "open" => Result(f, piece, e) = "part"
          /\ piece = "close" => Result(f, piece, e) \in {"full", "garbled"}
      BY <1>2 DEF Result, View
    <2> HIDE DEF g
    <2>5. WellFormed(g)
      BY <1>0, <2>1, <2>2 DEF WellFormed
    <2>6. LinkedLines(g)
      BY <1>0, <2>1, <2>2 DEF LinkedLines, HashBefore
    <2>7. View(g, NextPiece(piece), e)
      <3>1. n > 1 => g[n - 1] = f[n - 1] /\ f[n - 1].stage = "full"
        BY <1>0, <2>1, <2>2
      <3>2. HashBefore(g, n) = HashBefore(f, n)
        <4>1. ASSUME n # 1 PROVE n > 1
          <5>1. \A k \in Nat : k >= 1 /\ k # 1 => k > 1
            OBVIOUS
          <5> QED
            BY <1>0, <4>1, <5>1, Zenon
        <4> QED
          BY <3>1, <4>1, Zenon DEF HashBefore
      <3>3. g[n].stage = Result(f, piece, e)
        BY <2>1
      <3>4. CASE piece = "open"
        <4>1. NextPiece(piece) = "close"
          BY <3>4 DEF NextPiece
        <4>2. g[n] = [stage |-> "part", entry |-> e]
          BY <2>1, <2>4, <3>4
        <4> QED
          BY <2>1, <2>2, <3>1, <3>2, <4>1, <4>2 DEF View
      <3>5. CASE piece = "close"
        <4>1. NextPiece(piece) = "newline"
          BY <3>5 DEF NextPiece
        <4> QED
          BY <2>1, <2>2, <2>4, <3>1, <3>3, <3>5, <4>1 DEF View
      <3> QED
        BY <1>2, <3>4, <3>5
    <2> QED
      BY <1>0, <2>1, <2>2, <2>3, <2>5, <2>6, <2>7 DEF g
  <1> QED
    BY <1>1, <1>2 DEF Pieces

-----------------------------------------------------------------------------
(* A file the invariant holds of is one a reader accepts, and conversely   *)
(* for the files append_record starts from.                                *)
LEMMA WellFormedIsChained ==
    ASSUME NEW f \in Seq(Line), WellFormed(f), LinkedLines(f)
    PROVE  Chained(f) /\ TornLast(f)
  <1>0. Len(f) \in Nat /\ DOMAIN f = 1 .. Len(f)
    BY LenProperties
  <1>1. PICK n \in Nat : n = Len(f) /\ DOMAIN f = 1 .. n
    BY <1>0
  <1>2. ASSUME NEW i \in NonBlank(f), NEW j \in NonBlank(f), i < j
        PROVE  i \in Readable(f)
    <2>1. i \in 1 .. n - 1 /\ j \in 1 .. n /\ f[j].stage # "blank"
      BY <1>1, <1>2 DEF NonBlank
    <2>2. f[i].stage = "full"
      <3>1. f[n].stage = "blank" => i # n - 1
        BY <1>2, <2>1
      <3> QED
        BY <1>1, <2>1, <3>1 DEF WellFormed
    <2> QED
      BY <1>1, <2>1, <2>2 DEF Readable
  <1>3. TornLast(f)
    BY <1>2 DEF TornLast
  <1>4. ASSUME NEW i \in Readable(f), f[i].entry.hash # NoHash
        PROVE  LET e      == f[i].entry
                   before == {j \in Readable(f) : j < i}
               IN  /\ e.hash = RecordHash(e.content, e.prev)
                   /\ before = {} => e.prev = NoHash
                   /\ \A j \in before :
                         (\A k \in before : k <= j) =>
                             f[j].entry.hash \in {NoHash, e.prev}
    <2> DEFINE e == f[i].entry
               before == {j \in Readable(f) : j < i}
    <2>1. i \in 1 .. n /\ f[i].stage = "full"
      BY <1>1 DEF Readable
    <2>2. /\ e.hash = RecordHash(e.content, e.prev)
          /\ i = 1 => e.prev = NoHash
          /\ i > 1 => f[i - 1].entry.hash \in {NoHash, e.prev}
      BY <1>1, <1>4, <2>1 DEF LinkedLines
    <2>3. CASE i = 1
      <3>1. before = {}
        BY <1>1, <2>3 DEF Readable
      <3> QED
        BY <2>2, <2>3, <3>1
    <2>4. CASE i > 1
      <3>1. i - 1 \in before
        <4>1. i - 1 \in 1 .. n - 1
          BY <1>1, <2>1, <2>4
        <4>2. f[i - 1].stage = "full"
          <5>1. f[n].stage = "blank" => i - 1 # n - 1
            BY <2>1
          <5> QED
            BY <1>1, <4>1, <5>1 DEF WellFormed
        <4> QED
          BY <1>1, <2>1, <4>1, <4>2 DEF Readable
      <3>2. ASSUME NEW j \in before, \A k \in before : k <= j PROVE j = i - 1
        <4>1. i - 1 <= j
          BY <3>1, <3>2
        <4>2. j \in 1 .. n /\ j < i
          BY <1>1 DEF Readable
        <4> QED
          BY <2>1, <4>1, <4>2
      <3> QED
        BY <2>2, <2>4, <3>1, <3>2
    <2>5. i = 1 \/ i > 1
      BY <1>1, <2>1
    <2> QED
      BY <2>3, <2>4, <2>5
  <1>5. Chained(f)
    BY <1>4 DEF Chained
  <1> QED
    BY <1>3, <1>5

(* What the code finds at the start is well formed.                        *)
LEMMA StartIsWellFormed ==
    ASSUME NEW f \in Seq(Line), f # << >>, BlankLast(f), TornLast(f), Chained(f)
    PROVE  WellFormed(f) /\ LinkedLines(f)
  <1>0. Len(f) \in Nat /\ DOMAIN f = 1 .. Len(f)
    BY LenProperties
  <1>1. PICK n \in Nat : n = Len(f) /\ DOMAIN f = 1 .. n
    BY <1>0
  <1>2. ASSUME NEW i \in 1 .. n - 1
        PROVE  /\ f[i].stage # "blank"
               /\ \A j \in i + 1 .. n : f[j].stage # "blank" => f[i].stage = "full"
    <2>1. i \in DOMAIN f /\ i # n
      BY <1>1
    <2>2. f[i].stage # "blank"
      BY <1>1, <2>1 DEF BlankLast
    <2>3. ASSUME NEW j \in i + 1 .. n, f[j].stage # "blank"
          PROVE  f[i].stage = "full"
      <3>1. i \in NonBlank(f) /\ j \in NonBlank(f) /\ i < j
        BY <1>1, <2>1, <2>2, <2>3 DEF NonBlank
      <3> QED
        BY <3>1 DEF TornLast, Readable
    <2> QED
      BY <2>2, <2>3
  <1>3. WellFormed(f)
    <2> SUFFICES ASSUME NEW i \in 1 .. n - 1,
                        ~(i = n - 1 /\ f[n].stage = "blank" /\ f[i].stage # "blank")
                 PROVE  f[i].stage = "full"
      BY <1>1 DEF WellFormed
    <2>1. CASE f[n].stage # "blank"
      <3>1. n \in i + 1 .. n
        BY <1>1
      <3> QED
        BY <1>2, <2>1, <3>1
    <2>2. CASE f[n].stage = "blank"
      <3>1. i # n - 1
        BY <1>2, <2>2
      <3>2. n - 1 \in i + 1 .. n /\ n - 1 \in 1 .. n - 1
        BY <1>1, <3>1
      <3> QED
        BY <1>2, <3>2
    <2> QED
      BY <2>1, <2>2
  <1>4. ASSUME NEW i \in 1 .. n, f[i].stage = "full", f[i].entry.hash # NoHash
        PROVE  /\ f[i].entry.hash = RecordHash(f[i].entry.content, f[i].entry.prev)
               /\ i = 1 => f[i].entry.prev = NoHash
               /\ i > 1 => f[i - 1].entry.hash \in {NoHash, f[i].entry.prev}
    <2> DEFINE before == {j \in Readable(f) : j < i}
    <2>1. i \in Readable(f)
      BY <1>1, <1>4 DEF Readable
    <2>2. /\ f[i].entry.hash = RecordHash(f[i].entry.content, f[i].entry.prev)
          /\ before = {} => f[i].entry.prev = NoHash
          /\ \A j \in before : (\A k \in before : k <= j) =>
                                f[j].entry.hash \in {NoHash, f[i].entry.prev}
      BY <1>4, <2>1 DEF Chained
    <2>3. i = 1 => before = {}
      BY <1>1 DEF Readable
    <2>4. ASSUME i > 1
          PROVE  i - 1 \in before /\ \A k \in before : k <= i - 1
      <3>1. i - 1 \in 1 .. n - 1 /\ i \in (i - 1) + 1 .. n
        BY <1>1, <2>4
      <3>2. f[i - 1].stage = "full"
        BY <1>2, <1>4, <3>1
      <3>3. i - 1 \in before
        BY <1>1, <3>1, <3>2 DEF Readable
      <3>4. \A k \in before : k \in Int /\ k < i
        BY <1>1 DEF Readable
      <3> QED
        BY <3>3, <3>4
    <2> HIDE DEF before
    <2> QED
      BY <2>2, <2>3, <2>4
  <1>5. LinkedLines(f)
    BY <1>1, <1>4 DEF LinkedLines
  <1> QED
    BY <1>3, <1>5

-----------------------------------------------------------------------------
(* The view matters only while the text of the record is being written.    *)
LEMMA NoView ==
    ASSUME NEW f, NEW e, NEW label, label \notin Pieces
    PROVE  View(f, label, e)
  BY DEF View, Pieces

(* The invariant holds of it.                                              *)
LEMMA InvariantInit ==
    ASSUME Init
    PROVE  IInv
  <1>1. TypeOK
    BY TypeInit
  <1>2. WellFormed(file) /\ LinkedLines(file)
    BY InitialAssumption, StartIsWellFormed DEF Init
  <1>3. LockDiscipline
    BY LedgerAssumption DEF Init, LockDiscipline, Holding, Pieces
  <1>4. \A w \in Writers : View(file, pc[w], entry[w])
    <2>1. \A w \in Writers : pc[w] = "idle"
      BY DEF Init
    <2>2. "idle" \notin Pieces
      BY DEF Pieces
    <2> QED
      BY <2>1, <2>2, NoView
  <1> QED
    BY <1>1, <1>2, <1>3, <1>4 DEF IInv

(* A step in which w gives up the lock, or never had it, and leaves.       *)
LEMMA LeavingKeeps ==
    ASSUME IInv, TypeOK', NEW w \in Writers, Leave(w), Release(w), file' = file
    PROVE  IInv'
  <1>1. LockDiscipline'
    BY LedgerAssumption DEF IInv, TypeOK, LockDiscipline, Leave, Goto, Release, Holding, Pieces
  <1>2. ASSUME NEW v \in Writers PROVE View(file, pc[v], entry[v])'
    <2>1. CASE v = w
      <3>1. pc'[v] = "idle" /\ "idle" \notin Pieces
        BY <2>1 DEF IInv, TypeOK, Leave, Goto, Pieces
      <3> QED
        BY <3>1, NoView
    <2>2. CASE v # w
      <3>1. pc'[v] = pc[v] /\ entry'[v] = entry[v]
        BY <2>2 DEF IInv, TypeOK, Leave, Goto
      <3>2. View(file, pc[v], entry[v])
        BY DEF IInv
      <3> QED
        BY <3>1, <3>2
    <2> QED
      BY <2>1, <2>2
  <1> QED
    BY <1>1, <1>2 DEF IInv

(* Every step keeps the invariant, and every record that could be read.    *)
LEMMA InvariantStep ==
    ASSUME ~flaky, IInv, [Next]_vars
    PROVE  /\ IInv'
           /\ \A i \in Readable(file) : i \in Readable(file') /\ file'[i] = file[i]
  <1> USE DEF IInv
  <1>0. TypeOK /\ TypeOK'
    BY TypeStep
  <1> DEFINE Kept == \A i \in Readable(file) :
                       i \in Readable(file') /\ file'[i] = file[i]
  <1>1. ASSUME NEW w \in Writers, Call(w) PROVE IInv' /\ Kept
    <2>1. LockDiscipline'
      BY <1>0, <1>1 DEF TypeOK, LockDiscipline, Call, Goto, Holding, Pieces
    <2>2. ASSUME NEW v \in Writers PROVE View(file, pc[v], entry[v])'
      <3>1. CASE v = w
        <4>1. pc'[v] = "waiting" /\ "waiting" \notin Pieces
          BY <1>0, <1>1, <3>1 DEF TypeOK, Call, Goto, Pieces
        <4> QED
          BY <4>1, NoView
      <3>2. CASE v # w
        <4>1. pc'[v] = pc[v] /\ entry'[v] = entry[v] /\ file' = file
          BY <1>0, <1>1, <3>2 DEF TypeOK, Call, Goto
        <4> QED
          BY <4>1
      <3> QED
        BY <3>1, <3>2
    <2> QED
      BY <1>0, <1>1, <2>1, <2>2 DEF Call
  <1>2. ASSUME NEW w \in Writers, Lock(w) PROVE IInv' /\ Kept
    <2>1. LockDiscipline'
      BY <1>0, <1>2, LedgerAssumption DEF TypeOK, LockDiscipline, Lock, Goto, Holding, Pieces
    <2>2. ASSUME NEW v \in Writers PROVE View(file, pc[v], entry[v])'
      <3>1. CASE v = w
        <4>1. pc'[v] = "locked" /\ "locked" \notin Pieces
          BY <1>0, <1>2, <3>1 DEF TypeOK, Lock, Goto, Pieces
        <4> QED
          BY <4>1, NoView
      <3>2. CASE v # w
        <4>1. pc'[v] = pc[v] /\ entry'[v] = entry[v] /\ file' = file
          BY <1>0, <1>2, <3>2 DEF TypeOK, Lock, Goto
        <4> QED
          BY <4>1
      <3> QED
        BY <3>1, <3>2
    <2> QED
      BY <1>0, <1>2, <2>1, <2>2 DEF Lock
  <1>3. ASSUME NEW w \in Writers, Link(w) PROVE IInv' /\ Kept
    <2>1. LockDiscipline'
      BY <1>0, <1>3 DEF TypeOK, LockDiscipline, Link, Goto, Holding, Pieces
    <2>2. ASSUME NEW v \in Writers PROVE View(file, pc[v], entry[v])'
      <3>1. CASE v = w
        <4> DEFINE h == TailHash(file)
                   e == Linked(entry[w].content, h)
        <4>1. h \in HashValue
          BY <1>0, TailLineExists, TailHashType DEF TypeOK
        <4>2. e.prev = h /\ e.hash = RecordHash(e.content, e.prev)
          <5>1. entry[w].content \in Content
            BY <1>0 DEF TypeOK, Record
          <5> HIDE DEF h
          <5> QED
            BY <4>1, <5>1, LinkedType
        <4>3. /\ entry'[v] = e /\ file' = file
              /\ pc'[v] = IF EndsWithNewline(file) THEN "open" ELSE "prefix"
          BY <1>0, <1>3, <3>1 DEF TypeOK, Link, Goto
        <4>4. /\ file[Len(file)].stage = "blank" =>
                   /\ Len(file) > 1 => file[Len(file) - 1].stage = "full"
                   /\ h = HashBefore(file, Len(file))
              /\ file[Len(file)].stage # "blank" =>
                   /\ file[Len(file)].stage = "full"
                   /\ h = file[Len(file)].entry.hash
          BY <1>0, <1>3, LinkView DEF TypeOK, Link
        <4> HIDE DEF e, h
        <4>5. View(file, IF EndsWithNewline(file) THEN "open" ELSE "prefix", e)
          BY <4>2, <4>4 DEF View, EndsWithNewline, Pieces
        <4> QED
          BY <4>3, <4>5
      <3>2. CASE v # w
        <4>1. pc'[v] = pc[v] /\ entry'[v] = entry[v] /\ file' = file
          BY <1>0, <1>3, <3>2 DEF TypeOK, Link, Goto
        <4> QED
          BY <4>1
      <3> QED
        BY <3>1, <3>2
    <2> QED
      BY <1>0, <1>3, <2>1, <2>2 DEF Link
  <1>4. ASSUME NEW w \in Writers, Refuse(w) PROVE IInv' /\ Kept
    BY <1>0, <1>4, LeavingKeeps DEF Refuse
  <1>5. ASSUME NEW w \in Writers, Write(w) PROVE IInv' /\ Kept
    <2>1. LockDiscipline'
      BY <1>0, <1>5 DEF TypeOK, LockDiscipline, Write, Goto, NextPiece, Holding, Pieces
    <2>2. /\ file \in Seq(Line) /\ file # << >>
          /\ entry[w] \in Record /\ pc[w] \in Pieces
          /\ file' = Extended(file, pc[w], entry[w])
      BY <1>0, <1>5 DEF TypeOK, Write
    <2>3. /\ WellFormed(file') /\ LinkedLines(file')
          /\ View(file', NextPiece(pc[w]), entry[w])
          /\ Kept
      BY <2>2, PieceKeepsFile
    <2>4. ASSUME NEW v \in Writers PROVE View(file, pc[v], entry[v])'
      <3>1. CASE v = w
        <4>1. pc'[v] = NextPiece(pc[w]) /\ entry'[v] = entry[w]
          BY <1>0, <1>5, <3>1 DEF TypeOK, Write, Goto
        <4> QED
          BY <2>3, <4>1
      <3>2. CASE v # w
        <4>1. pc'[v] \notin Pieces
          BY <1>0, <1>5, <3>2 DEF TypeOK, LockDiscipline, Write, Goto, Holding
        <4> QED
          BY <4>1, NoView
      <3> QED
        BY <3>1, <3>2
    <2> QED
      BY <1>0, <2>1, <2>3, <2>4
  <1>6. ASSUME NEW w \in Writers, Return(w) PROVE IInv' /\ Kept
    BY <1>0, <1>6, LeavingKeeps DEF Return
  <1>7. ASSUME NEW w \in Writers, FlushFails(w) \/ CloseWrites(w) \/ CloseFails(w)
        PROVE  FALSE
    BY <1>7 DEF LockDiscipline, FlushFails, CloseWrites, CloseFails
  <1>8. ASSUME NEW w \in Writers, Crash(w) PROVE IInv' /\ Kept
    BY <1>0, <1>8, LeavingKeeps DEF Crash
  <1>9. CASE UNCHANGED vars
    <2>1. \A v \in Writers : View(file, pc[v], entry[v])'
      BY <1>9 DEF vars
    <2> QED
      BY <1>0, <1>9, <2>1 DEF vars, LockDiscipline, Readable
  <1> QED
    BY <1>1, <1>2, <1>3, <1>4, <1>5, <1>6, <1>7, <1>8, <1>9 DEF Next, Step

(* Where writes do not fail, the invariant holds for ever.                 *)
LEMMA FlakyStays ==
    ASSUME [Next]_vars
    PROVE  flaky' = flaky
  BY DEF Next, Step, Call, Lock, Link, Refuse, Write, Return, FlushFails,
         CloseWrites, CloseFails, Crash, vars

(* As long as no write fails, the invariant holds.                         *)
THEOREM LedgerInvariant == Spec => [](~flaky => IInv)
  <1>1. Init => (~flaky => IInv)
    BY InvariantInit
  <1>2. (~flaky => IInv) /\ [Next]_vars => (~flaky => IInv)'
    <2> SUFFICES ASSUME ~flaky => IInv, [Next]_vars, ~flaky'
                 PROVE  IInv'
      OBVIOUS
    <2> QED
      BY FlakyStays, InvariantStep
  <1> QED
    BY <1>1, <1>2, PTL DEF Spec

(***************************************************************************)
(* Readers who verify the chain of an artifact that append_record alone    *)
(* has written never report it while writes do not fail, for any number    *)
(* of processes and records.                                               *)
(***************************************************************************)
THEOREM LedgerChained == Spec => []ChainIntact
  <1>1. (~flaky => IInv) => ChainIntact
    BY WellFormedIsChained DEF IInv, TypeOK, ChainIntact
  <1> QED
    BY <1>1, LedgerInvariant, PTL

(***************************************************************************)
(* Nothing is ever stored behind a line that does not parse.               *)
(***************************************************************************)
THEOREM LedgerFailStop == Spec => []TornOnlyAtTail
  <1>1. (~flaky => IInv) => TornOnlyAtTail
    BY WellFormedIsChained DEF IInv, TypeOK, TornOnlyAtTail
  <1> QED
    BY <1>1, LedgerInvariant, PTL

(***************************************************************************)
(* A record that could once be read is never lost, moved or changed.       *)
(***************************************************************************)
THEOREM LedgerHistory == Spec => HistoryKept
  <1>1. (~flaky => IInv) /\ [Next]_vars =>
          [~flaky => \A i \in Readable(file) :
                         i \in Readable(file') /\ file'[i] = file[i]]_vars
    BY InvariantStep
  <1> QED
    BY <1>1, LedgerInvariant, PTL DEF Spec, HistoryKept

-----------------------------------------------------------------------------
(* The abstract log.  The lines that parse are the first ones of the file, *)
(* so the log the file stands for changes where a line is completed.       *)
LEMMA ReadableFirst ==
    ASSUME NEW f \in Seq(Line), f # << >>, WellFormed(f)
    PROVE  \E n \in Nat : n <= Len(f) /\ Readable(f) = 1 .. n
  <1>1. PICK k \in Nat : k = Len(f) /\ k >= 1
    BY EmptySeq, LenProperties
  <1>2. Readable(f) = {i \in 1 .. k : f[i].stage = "full"}
    BY <1>1, LenProperties DEF Readable
  <1>3. \A i \in 1 .. k - 1 :
           f[i].stage = "full" \/ (i = k - 1 /\ f[k].stage = "blank")
    BY <1>1 DEF WellFormed
  <1>4. CASE f[k].stage = "full"
    <2>1. Readable(f) = 1 .. k
      BY <1>1, <1>2, <1>3, <1>4
    <2> QED
      BY <1>1, <2>1
  <1>5. CASE f[k].stage # "full" /\ \A i \in 1 .. k - 1 : f[i].stage = "full"
    <2>1. Readable(f) = 1 .. k - 1
      BY <1>1, <1>2, <1>5
    <2> QED
      BY <1>1, <2>1
  <1>6. CASE f[k].stage # "full" /\ \E i \in 1 .. k - 1 : f[i].stage # "full"
    <2>1. k > 1 /\ f[k - 1].stage # "full"
      BY <1>1, <1>3, <1>6
    <2>2. Readable(f) = 1 .. k - 2
      BY <1>1, <1>2, <1>3, <1>6, <2>1
    <2>3. k - 2 \in Nat /\ k - 2 <= k
      BY <1>1, <2>1
    <2> QED
      BY <1>1, <2>2, <2>3
  <1> QED
    BY <1>4, <1>5, <1>6

(* What can be read of a file, line by line.                               *)
LEMMA ContentsForm ==
    ASSUME NEW f \in Seq(Line), NEW n \in Nat, n <= Len(f), Readable(f) = 1 .. n
    PROVE  /\ Contents(f) = [i \in 1 .. n |-> f[i].entry.content]
           /\ Contents(f) \in Seq(Content)
  <1>1. Cardinality(Readable(f)) = n
    BY FS_Interval
  <1>2. ASSUME NEW i \in 1 .. n PROVE NthReadable(f, i) = i
    <2>1. \A k \in 1 .. n : {j \in 1 .. n : j <= k} = 1 .. k
      OBVIOUS
    <2>2. \A k \in 1 .. n : Cardinality(1 .. k) = k
      BY FS_Interval
    <2> QED
      BY <2>1, <2>2 DEF NthReadable
  <1>3. \A i \in 1 .. n : f[i].entry.content \in Content
    <2> TAKE i \in 1 .. n
    <2>1. i \in 1 .. Len(f)
      BY LenProperties
    <2>2. f[i] \in Line
      BY <2>1, ElementOfSeq
    <2> QED
      BY <2>2 DEF Line, Record
  <1>4. Contents(f) = [i \in 1 .. n |-> f[i].entry.content]
    BY <1>1, <1>2 DEF Contents
  <1>5. [i \in 1 .. n |-> f[i].entry.content] \in [1 .. n -> Content]
    BY <1>3
  <1> QED
    BY <1>4, <1>5, SeqDef

(* Where the line count that a writer will return points to.               *)
Placed(f, label, e, k) ==
    /\ label = "prefix" => k = Len(f) + 1
    /\ label \in {"open", "close"} => k = Len(f)
    /\ label \in {"newline", "flushed"} => k \in Readable(f) /\ f[k].entry = e

Placement == \A w \in Writers : Placed(file, pc[w], entry[w], count[w])

(* The lines a reader counts, of a file whose last line parses.            *)
LEMMA LinesCounted ==
    ASSUME NEW f \in Seq(Line), f # << >>, WellFormed(f), TailParses(f)
    PROVE  Cardinality(NonBlank(f)) + 1
             = IF EndsWithNewline(f) THEN Len(f) ELSE Len(f) + 1
  <1>1. PICK k \in Nat : k = Len(f) /\ k >= 1
    BY EmptySeq, LenProperties
  <1>2. NonBlank(f) = {i \in 1 .. k : f[i].stage # "blank"}
    BY <1>1, LenProperties DEF NonBlank
  <1>3. \A i \in 1 .. k - 1 : f[i].stage # "blank"
    BY <1>1 DEF WellFormed
  <1>4. CASE f[k].stage = "blank"
    <2>1. NonBlank(f) = 1 .. k - 1
      BY <1>1, <1>2, <1>3, <1>4
    <2>2. Cardinality(NonBlank(f)) = k - 1
      BY <1>1, <2>1, FS_Interval
    <2> QED
      BY <1>1, <1>4, <2>2 DEF EndsWithNewline
  <1>5. CASE f[k].stage # "blank"
    <2>1. NonBlank(f) = 1 .. k
      BY <1>1, <1>2, <1>3, <1>5
    <2>2. Cardinality(1 .. k) = k
      <3>1. Cardinality(1 .. k) = IF 1 > k THEN 0 ELSE k - 1 + 1
        BY <1>1, FS_Interval
      <3> QED
        BY <1>1, <3>1
    <2>3. Cardinality(NonBlank(f)) = k
      BY <2>1, <2>2
    <2> QED
      BY <1>1, <1>5, <2>3 DEF EndsWithNewline
  <1> QED
    BY <1>4, <1>5

(* A piece completes the record in hand or leaves the log as it is.        *)
LEMMA PieceToLog ==
    ASSUME Splitting = {},
           NEW f \in Seq(Line), f # << >>, WellFormed(f), LinkedLines(f),
           NEW e \in Record, NEW piece \in Pieces, View(f, piece, e),
           NEW k, Placed(f, piece, e, k)
    PROVE  LET g == Extended(f, piece, e)
           IN  /\ Placed(g, NextPiece(piece), e, k)
               /\ \/ Contents(g) = Contents(f)
                  \/ Contents(g) = Append(Contents(f), e.content)
  <1> DEFINE g == Extended(f, piece, e)
  <1>1. PICK n \in Nat : n = Len(f) /\ n >= 1
    BY EmptySeq, LenProperties
  <1>2. Readable(f) = {i \in 1 .. n : f[i].stage = "full"}
    BY <1>1, LenProperties DEF Readable
  <1>3. CASE piece \in {"prefix", "newline"}
    <2>1. /\ g \in Seq(Line) /\ Len(g) = n + 1
          /\ \A i \in 1 .. n : g[i] = f[i]
          /\ g[n + 1] = BlankLine
      BY <1>1, <1>3, NewlineEffect
    <2> HIDE DEF g
    <2>2. Readable(g) = {i \in 1 .. n + 1 : g[i].stage = "full"}
      BY <2>1, LenProperties DEF Readable
    <2>3. Readable(g) = Readable(f)
      BY <1>1, <1>2, <2>1, <2>2 DEF BlankLine
    <2>4. Contents(g) = Contents(f)
      <3>1. PICK m \in Nat : m <= n /\ Readable(f) = 1 .. m
        BY <1>1, ReadableFirst
      <3>2. Contents(f) = [i \in 1 .. m |-> f[i].entry.content]
        BY <1>1, <3>1, ContentsForm
      <3>3. m <= Len(g) /\ Readable(g) = 1 .. m
        BY <1>1, <2>1, <2>3, <3>1
      <3>4. Contents(g) = [i \in 1 .. m |-> g[i].entry.content]
        BY <2>1, <3>1, <3>3, ContentsForm
      <3>5. \A i \in 1 .. m : g[i] = f[i]
        BY <1>1, <2>1, <3>1
      <3> QED
        BY <3>2, <3>4, <3>5
    <2>5. Placed(g, NextPiece(piece), e, k)
      <3>1. CASE piece = "prefix"
        BY <1>1, <2>1, <3>1 DEF Placed, NextPiece
      <3>2. CASE piece = "newline"
        <4>1. k \in Readable(f) /\ f[k].entry = e
          BY <3>2 DEF Placed
        <4>2. k \in Readable(g) /\ g[k] = f[k]
          BY <1>2, <2>1, <2>3, <4>1
        <4> QED
          BY <3>2, <4>1, <4>2 DEF Placed, NextPiece
      <3> QED
        BY <1>3, <3>1, <3>2
    <2> QED
      BY <2>4, <2>5 DEF g
  <1>4. CASE piece \in {"open", "close"}
    <2>1. /\ g \in Seq(Line) /\ Len(g) = n
          /\ \A i \in 1 .. n - 1 : g[i] = f[i]
          /\ g[n] = [stage |-> Result(f, piece, e), entry |-> e]
      BY <1>1, <1>4, TextEffect
    <2>2. /\ \A i \in 1 .. n - 1 : f[i].stage = "full"
          /\ f[n].stage # "full" /\ k = n
          /\ piece = "open" => f[n].stage = "blank"
          /\ piece = "close" => f[n] = [stage |-> "part", entry |-> e]
      BY <1>1, <1>4 DEF View, WellFormed, Placed
    <2>3. /\ piece = "open" => Result(f, piece, e) = "part"
          /\ piece = "close" => Result(f, piece, e) = "full"
      BY <1>1, <1>4, <2>2 DEF Result
    <2>4. Readable(f) = 1 .. n - 1
      BY <1>1, <1>2, <2>2
    <2> HIDE DEF g
    <2>5. Readable(g) = {i \in 1 .. n : g[i].stage = "full"}
      BY <2>1, LenProperties DEF Readable
    <2>6. Contents(f) = [i \in 1 .. n - 1 |-> f[i].entry.content] /\ Contents(f) \in Seq(Content)
      <3>1. n - 1 \in Nat /\ n - 1 <= Len(f)
        BY <1>1
      <3> QED
        BY <2>4, <3>1, ContentsForm
    <2>7. CASE piece = "open"
      <3>1. Readable(g) = 1 .. n - 1
        BY <1>1, <2>1, <2>2, <2>3, <2>5, <2>7
      <3>2. n - 1 \in Nat /\ n - 1 <= Len(g)
        BY <1>1, <2>1
      <3>3. Contents(g) = [i \in 1 .. n - 1 |-> g[i].entry.content]
        BY <2>1, <3>1, <3>2, ContentsForm
      <3>4. Contents(g) = Contents(f)
        BY <2>1, <2>6, <3>3
      <3>5. Placed(g, NextPiece(piece), e, k)
        BY <2>1, <2>2, <2>7 DEF Placed, NextPiece
      <3> QED
        BY <3>4, <3>5 DEF g
    <2>8. CASE piece = "close"
      <3>1. g[n].stage = "full" /\ g[n].entry = e
        BY <2>1, <2>3, <2>8
      <3>2. Readable(g) = 1 .. n
        BY <1>1, <2>1, <2>2, <2>5, <3>1
      <3>3. Contents(g) = [i \in 1 .. n |-> g[i].entry.content] /\ Contents(g) \in Seq(Content)
        <4>1. n <= Len(g)
          BY <1>1, <2>1
        <4> QED
          BY <2>1, <3>2, <4>1, ContentsForm
      <3>4. Contents(g) = Append(Contents(f), e.content)
        <4> DEFINE log == Contents(f)
                   longer == Contents(g)
                   c == e.content
        <4>1. /\ log = [i \in 1 .. n - 1 |-> f[i].entry.content] /\ log \in Seq(Content)
              /\ longer = [i \in 1 .. n |-> g[i].entry.content] /\ longer \in Seq(Content)
              /\ c \in Content /\ g[n].entry.content = c
          BY <2>6, <3>1, <3>3 DEF Record
        <4> HIDE DEF log, longer, c
        <4>2. Len(log) = n - 1 /\ Len(longer) = n
          BY <1>1, <4>1, LenProperties
        <4>3. /\ Append(log, c) \in Seq(Content) /\ Len(Append(log, c)) = n
              /\ \A i \in 1 .. n - 1 : Append(log, c)[i] = log[i]
              /\ Append(log, c)[n] = c
          BY <1>1, <4>1, <4>2, AppendProperties
        <4>4. \A i \in 1 .. n : longer[i] = Append(log, c)[i]
          <5> TAKE i \in 1 .. n
          <5>1. CASE i = n
            BY <4>1, <4>3, <5>1
          <5>2. CASE i \in 1 .. n - 1
            <6>1. longer[i] = g[i].entry.content /\ g[i] = f[i]
              BY <2>1, <4>1, <5>2
            <6>2. log[i] = f[i].entry.content /\ Append(log, c)[i] = log[i]
              BY <4>1, <4>3, <5>2
            <6> QED
              BY <6>1, <6>2
          <5>3. i = n \/ i \in 1 .. n - 1
            BY <1>1
          <5> QED
            BY <5>1, <5>2, <5>3
        <4>5. longer = Append(log, c)
          BY <4>1, <4>2, <4>3, <4>4, SeqEqual
        <4> QED
          BY <4>5 DEF log, longer, c
      <3>5. Placed(g, NextPiece(piece), e, k)
        BY <1>1, <2>2, <2>8, <3>1, <3>2 DEF Placed, NextPiece
      <3> QED
        BY <3>4, <3>5 DEF g
    <2> QED
      BY <1>4, <2>7, <2>8
  <1> QED
    BY <1>3, <1>4 DEF Pieces

(* A step of w that neither writes nor takes any other writer on.          *)
LEMMA OthersStayPlaced ==
    ASSUME Placement, NEW w \in Writers, file' = file,
           \A v \in Writers \ {w} :
              pc'[v] = pc[v] /\ entry'[v] = entry[v] /\ count'[v] = count[v],
           Placed(file, pc[w], entry[w], count[w])'
    PROVE  Placement'
  <1> SUFFICES ASSUME NEW v \in Writers
               PROVE  Placed(file, pc[v], entry[v], count[v])'
    BY DEF Placement
  <1>1. CASE v = w
    BY <1>1
  <1>2. CASE v # w
    <2>1. pc'[v] = pc[v] /\ entry'[v] = entry[v] /\ count'[v] = count[v]
      BY <1>2
    <2>2. Placed(file, pc[v], entry[v], count[v])
      BY DEF Placement
    <2> QED
      BY <2>1, <2>2
  <1> QED
    BY <1>1, <1>2

(* Whoever ends its call is placed nowhere.                                *)
LEMMA LeavesPlaced ==
    ASSUME TypeOK, Placement, NEW w \in Writers, Leave(w), file' = file
    PROVE  Placement'
  <1>1. pc'[w] = "idle"
    BY DEF TypeOK, Leave, Goto
  <1>2. Placed(file, pc[w], entry[w], count[w])'
    BY <1>1 DEF Placed
  <1>3. \A v \in Writers \ {w} :
          pc'[v] = pc[v] /\ entry'[v] = entry[v] /\ count'[v] = count[v]
    BY DEF TypeOK, Leave, Goto
  <1> QED
    BY <1>2, <1>3, OthersStayPlaced

LogNext ==
    \/ UNCHANGED <<Contents(file), acks>>
    \/ \E c \in Content : Contents(file)' = Append(Contents(file), c) /\ UNCHANGED acks
    \/ /\ \E i \in DOMAIN Contents(file) :
             acks' = acks \union {[content |-> Contents(file)[i], at |-> i]}
       /\ UNCHANGED Contents(file)

(* Every step keeps the others placed and places its own writer.           *)
LEMMA PlacementStep ==
    ASSUME Splitting = {}, ~flaky, IInv, Placement, [Next]_vars
    PROVE  Placement' /\ LogNext
  <1>0. TypeOK /\ LockDiscipline
    BY DEF IInv
  <1>1. ASSUME NEW w \in Writers, Call(w) PROVE Placement' /\ LogNext
    <2>1. pc'[w] = "waiting"
      BY <1>0, <1>1 DEF TypeOK, Call, Goto
    <2>2. Placed(file, pc[w], entry[w], count[w])'
      BY <2>1 DEF Placed
    <2>3. \A v \in Writers \ {w} :
            pc'[v] = pc[v] /\ entry'[v] = entry[v] /\ count'[v] = count[v]
      BY <1>0, <1>1 DEF TypeOK, Call, Goto
    <2> QED
      BY <1>1, <2>2, <2>3, OthersStayPlaced DEF Call, LogNext
  <1>2. ASSUME NEW w \in Writers, Lock(w) PROVE Placement' /\ LogNext
    <2>1. pc'[w] = "locked"
      BY <1>0, <1>2 DEF TypeOK, Lock, Goto
    <2>2. Placed(file, pc[w], entry[w], count[w])'
      BY <2>1 DEF Placed
    <2>3. \A v \in Writers \ {w} :
            pc'[v] = pc[v] /\ entry'[v] = entry[v] /\ count'[v] = count[v]
      BY <1>0, <1>2 DEF TypeOK, Lock, Goto
    <2> QED
      BY <1>2, <2>2, <2>3, OthersStayPlaced DEF Lock, LogNext
  <1>3. ASSUME NEW w \in Writers, Link(w) PROVE Placement' /\ LogNext
    <2>1. /\ pc'[w] = IF EndsWithNewline(file) THEN "open" ELSE "prefix"
          /\ count'[w] = Cardinality(NonBlank(file)) + 1
      BY <1>0, <1>3 DEF TypeOK, Link, Goto
    <2>2. count'[w] = IF EndsWithNewline(file) THEN Len(file) ELSE Len(file) + 1
      BY <1>0, <1>3, <2>1, LinesCounted DEF IInv, TypeOK, Link
    <2>3. Placed(file, pc[w], entry[w], count[w])'
      BY <1>3, <2>1, <2>2 DEF Placed, Link
    <2>4. \A v \in Writers \ {w} :
            pc'[v] = pc[v] /\ entry'[v] = entry[v] /\ count'[v] = count[v]
      BY <1>0, <1>3 DEF TypeOK, Link, Goto
    <2> QED
      BY <1>3, <2>3, <2>4, OthersStayPlaced DEF Link, LogNext
  <1>4. ASSUME NEW w \in Writers, Refuse(w) \/ Crash(w) PROVE Placement' /\ LogNext
    BY <1>0, <1>4, LeavesPlaced DEF Refuse, Crash, LogNext
  <1>5. ASSUME NEW w \in Writers, Write(w) PROVE Placement' /\ LogNext
    <2>1. /\ file \in Seq(Line) /\ file # << >> /\ WellFormed(file) /\ LinkedLines(file)
          /\ entry[w] \in Record /\ pc[w] \in Pieces /\ View(file, pc[w], entry[w])
          /\ Placed(file, pc[w], entry[w], count[w])
          /\ file' = Extended(file, pc[w], entry[w])
      BY <1>5 DEF IInv, TypeOK, Write, Placement
    <2>2. /\ Placed(file', NextPiece(pc[w]), entry[w], count[w])
          /\ \/ Contents(file') = Contents(file)
             \/ Contents(file') = Append(Contents(file), entry[w].content)
      BY <2>1, PieceToLog
    <2>3. pc'[w] = NextPiece(pc[w]) /\ entry' = entry /\ count' = count
      BY <1>0, <1>5 DEF TypeOK, Write, Goto
    <2>4. ASSUME NEW v \in Writers PROVE Placed(file, pc[v], entry[v], count[v])'
      <3>1. CASE v = w
        BY <2>2, <2>3, <3>1
      <3>2. CASE v # w
        <4>1. pc'[v] = pc[v] /\ pc[v] \notin Holding
          BY <1>0, <1>5, <3>2 DEF TypeOK, LockDiscipline, Write, Goto, Holding
        <4> QED
          BY <4>1 DEF Placed, Holding, Pieces
      <3> QED
        BY <3>1, <3>2
    <2>5. entry[w].content \in Content
      BY <2>1 DEF Record
    <2>6. Contents(file)' = Contents(file')
      BY DEF Contents, NthReadable, Readable
    <2>7. LogNext
      BY <1>5, <2>2, <2>5, <2>6 DEF LogNext, Write
    <2> QED
      BY <2>4, <2>7 DEF Placement
  <1>6. ASSUME NEW w \in Writers, Return(w) PROVE Placement' /\ LogNext
    <2>1. pc[w] = "flushed" /\ Leave(w) /\ file' = file
          /\ acks' = acks \union {[content |-> entry[w].content, at |-> count[w]]}
      BY <1>6 DEF Return
    <2>2. count[w] \in Readable(file) /\ file[count[w]].entry = entry[w]
      BY <2>1 DEF Placement, Placed
    <2>3. PICK n \in Nat : n <= Len(file) /\ Readable(file) = 1 .. n
      BY ReadableFirst DEF IInv, TypeOK
    <2>4. Contents(file) = [i \in 1 .. n |-> file[i].entry.content]
      BY <1>0, <2>3, ContentsForm DEF TypeOK
    <2>5. count[w] \in DOMAIN Contents(file)
      BY <2>2, <2>3, <2>4
    <2>6. Contents(file)[count[w]] = entry[w].content
      BY <2>2, <2>3, <2>4
    <2> QED
      BY <1>0, <2>1, <2>5, <2>6, LeavesPlaced DEF LogNext
  <1>7. ASSUME NEW w \in Writers, FlushFails(w) \/ CloseWrites(w) \/ CloseFails(w)
        PROVE  FALSE
    BY <1>0, <1>7 DEF LockDiscipline, FlushFails, CloseWrites, CloseFails
  <1>8. CASE UNCHANGED vars
    <2>1. \A v \in Writers : Placed(file, pc[v], entry[v], count[v])'
      BY <1>8 DEF vars, Placement
    <2> QED
      BY <1>8, <2>1 DEF vars, Placement, LogNext
  <1> QED
    BY <1>1, <1>2, <1>3, <1>4, <1>5, <1>6, <1>7, <1>8 DEF Next, Step

(***************************************************************************)
(* Callers may take append_record for one atomic log: as long as writes do *)
(* not fail and no record holds a line break, every step of any number of  *)
(* processes, crashes included, adds a whole record at the end, gives an   *)
(* answer that is true, or changes nothing a reader sees.                  *)
(***************************************************************************)
THEOREM LedgerIsAtomic ==
    ASSUME Splitting = {}
    PROVE  Spec => ImplementsAtomicLog
  <1> DEFINE Inv == ~flaky => IInv /\ Placement
  <1>1. Init => Inv
    <2> SUFFICES ASSUME Init PROVE IInv /\ Placement
      OBVIOUS
    <2>1. \A w \in Writers : pc[w] = "idle"
      BY DEF Init
    <2> QED
      BY <2>1, InvariantInit DEF Placement, Placed
  <1>2. Inv /\ [Next]_vars => Inv'
    BY FlakyStays, InvariantStep, PlacementStep
  <1>3. Init => Atomic!Init
    <2> SUFFICES ASSUME Init PROVE Atomic!Init
      OBVIOUS
    <2>1. CASE flaky
      BY <2>1, EmptySeq DEF Atomic!Init
    <2>2. CASE ~flaky
      <3>1. file \in Seq(Line) /\ file # << >> /\ WellFormed(file)
        BY InvariantInit DEF IInv, TypeOK
      <3>2. PICK n \in Nat : n <= Len(file) /\ Readable(file) = 1 .. n
        BY <3>1, ReadableFirst
      <3>3. Contents(file) \in Seq(Content)
        BY <3>1, <3>2, ContentsForm
      <3> QED
        BY <2>2, <3>3 DEF Atomic!Init, Init
    <2> QED
      BY <2>1, <2>2
  <1>4. Inv /\ [Next]_vars
          => [Atomic!Next]_<<IF flaky THEN << >> ELSE Contents(file), IF flaky THEN {} ELSE acks>>
    <2> SUFFICES ASSUME Inv, [Next]_vars
                 PROVE  [Atomic!Next]_<<IF flaky THEN << >> ELSE Contents(file),
                                        IF flaky THEN {} ELSE acks>>
      OBVIOUS
    <2>1. flaky' = flaky
      BY FlakyStays
    <2>2. CASE flaky
      BY <2>1, <2>2
    <2>3. CASE ~flaky
      <3>1. LogNext
        BY <2>3, PlacementStep
      <3> QED
        BY <2>1, <2>3, <3>1 DEF LogNext, Atomic!Next, Atomic!Add, Atomic!Answer
    <2> QED
      BY <2>2, <2>3
  <1> QED
    BY <1>1, <1>2, <1>3, <1>4, PTL DEF Spec, ImplementsAtomicLog, Atomic!Spec

-----------------------------------------------------------------------------
(* The reader: verify_append_chain.                                        *)

(* A hash of the ledger commits to exactly the records up to its own.      *)
LEMMA OriginalHashType ==
    ASSUME NEW n \in 0 .. Len(Original)
    PROVE  /\ OriginalHash(n) \in Seq(Content)
           /\ Len(OriginalHash(n)) = n
           /\ \A i \in 1 .. n : OriginalHash(n)[i] = Original[i]
           /\ OriginalHash(n) \in KnownHashes
  <1>1. Original \in Seq(Content) /\ Len(Original) \in Nat
    BY VerifierAssumption, LenProperties
  <1>2. \A i \in 1 .. n : Original[i] \in Content
    BY <1>1, ElementOfSeq
  <1>3. /\ SubSeq(Original, 1, n) \in Seq(Content)
        /\ Len(SubSeq(Original, 1, n)) = n
        /\ \A i \in 1 .. n : SubSeq(Original, 1, n)[i] = Original[i]
    BY <1>1, <1>2, SubSeqProperties
  <1>4. OriginalHash(n) \in KnownHashes
    BY DEF KnownHashes
  <1> QED
    BY <1>3, <1>4 DEF OriginalHash

(***************************************************************************)
(* Collision freeness, as the argument uses it: a record chained to the    *)
(* first n records whose hash is known is the next record of the ledger.   *)
(***************************************************************************)
LEMMA KnownSuccessor ==
    ASSUME NEW n \in 0 .. Len(Original), NEW c \in Content,
           RecordHash(c, OriginalHash(n)) \in KnownHashes
    PROVE  /\ n + 1 \in 0 .. Len(Original)
           /\ c = Original[n + 1]
           /\ RecordHash(c, OriginalHash(n)) = OriginalHash(n + 1)
  <1>1. Len(Original) \in Nat
    BY VerifierAssumption, LenProperties
  <1>2. PICK k \in 0 .. Len(Original) :
          Append(OriginalHash(n), c) = OriginalHash(k)
    BY DEF KnownHashes, RecordHash
  <1>3. /\ OriginalHash(n) \in Seq(Content)
        /\ Len(OriginalHash(n)) = n
    BY OriginalHashType
  <1>4. /\ Len(OriginalHash(k)) = k
        /\ \A i \in 1 .. k : OriginalHash(k)[i] = Original[i]
    BY OriginalHashType
  <1>5. /\ Len(Append(OriginalHash(n), c)) = n + 1
        /\ Append(OriginalHash(n), c)[n + 1] = c
    BY <1>3, AppendProperties
  <1>6. k = n + 1
    BY <1>2, <1>4, <1>5
  <1> QED
    BY <1>1, <1>2, <1>4, <1>5, <1>6 DEF RecordHash

-----------------------------------------------------------------------------
(* Type correctness of the verification loop.                              *)
THEOREM VerifierTypeCorrect == VerifierSpec => []VerifierTypeOK
  <1>1. VerifierInit => VerifierTypeOK
    <2> SUFFICES ASSUME VerifierInit PROVE VerifierTypeOK
      OBVIOUS
    <2>1. records \in Seq(Record) /\ Len(records) \in Nat
      BY VerifierAssumption, LenProperties DEF VerifierInit
    <2>2. NoHash \in HashValue
      BY EmptySeq DEF NoHash, HashValue
    <2> QED
      BY <2>1, <2>2 DEF VerifierInit, VerifierTypeOK
  <1>2. VerifierTypeOK /\ [VerifierNext]_verifierVars => VerifierTypeOK'
    <2> SUFFICES ASSUME VerifierTypeOK, [VerifierNext]_verifierVars PROVE VerifierTypeOK'
      OBVIOUS
    <2>0. Len(records) \in Nat
      BY LenProperties DEF VerifierTypeOK
    <2>1. CASE SkipUnchained
      <3>1. index \in 1 .. Len(records)
        BY <2>0, <2>1 DEF VerifierTypeOK, SkipUnchained
      <3>2. <<index, "missing">> \in (1 .. Len(records)) \X {"missing", "link", "hash"}
        BY <3>1
      <3>3. issues' \subseteq (1 .. Len(records)) \X {"missing", "link", "hash"}
        BY <2>1, <3>2 DEF VerifierTypeOK, SkipUnchained
      <3>4. /\ records' = records /\ previous' = previous
            /\ index' = index + 1
        BY <2>1 DEF SkipUnchained
      <3>5. verifiable' \in BOOLEAN
        BY <2>1 DEF SkipUnchained
      <3> QED
        BY <2>0, <3>1, <3>3, <3>4, <3>5 DEF VerifierTypeOK
    <2>2. CASE CheckRecord
      <3>1. index \in 1 .. Len(records)
        BY <2>0, <2>2 DEF VerifierTypeOK, CheckRecord
      <3>0. records[index] \in Record
        BY <3>1, ElementOfSeq DEF VerifierTypeOK
      <3>2. records[index].hash \in HashValue
        BY <3>0 DEF Record
      <3>3. issues' \subseteq (1 .. Len(records)) \X {"missing", "link", "hash"}
        BY <2>2, <3>1 DEF VerifierTypeOK, CheckRecord
      <3> QED
        BY <2>0, <2>2, <3>1, <3>2, <3>3 DEF VerifierTypeOK, CheckRecord
    <2>3. CASE UNCHANGED verifierVars
      BY <2>3 DEF VerifierTypeOK, verifierVars
    <2> QED
      BY <2>1, <2>2, <2>3 DEF VerifierNext
  <1> QED
    BY <1>1, <1>2, PTL DEF VerifierSpec

(***************************************************************************)
(* The inductive invariant: while nothing has been reported, the loop's    *)
(* previous_hash is the hash of the ledger up to the last line it read.    *)
(***************************************************************************)
OnTrack ==
    records \in Seq(Forgery) /\ issues = {} =>
        /\ verifiable
        /\ index - 1 \in 0 .. Len(Original)
        /\ previous = OriginalHash(index - 1)
        /\ \A i \in 1 .. index - 1 : records[i] = OriginalRecord(i)

(* The loop stays on track.                                                *)
LEMMA OnTrackInvariant == VerifierSpec => []OnTrack
  <1>0. Len(Original) \in Nat
    BY VerifierAssumption, LenProperties
  <1>1. VerifierInit => OnTrack
    <2>1. OriginalHash(0) = NoHash
      BY SubSeqEmpty DEF OriginalHash, NoHash
    <2> QED
      BY <1>0, <2>1 DEF VerifierInit, OnTrack
  <1>2. VerifierTypeOK /\ OnTrack /\ [VerifierNext]_verifierVars => OnTrack'
    <2> SUFFICES ASSUME VerifierTypeOK, OnTrack, [VerifierNext]_verifierVars,
                        records' \in Seq(Forgery), issues' = {}
                 PROVE  /\ verifiable'
                        /\ (index - 1)' \in 0 .. Len(Original)
                        /\ previous' = OriginalHash(index' - 1)
                        /\ \A i \in 1 .. index' - 1 : records'[i] = OriginalRecord(i)
      BY DEF OnTrack, OriginalHash, OriginalRecord, Forgery, KnownHashes
    <2>1. CASE SkipUnchained
      BY <2>1 DEF SkipUnchained
    <2>2. CASE CheckRecord
      <3> DEFINE r == records[index]
                 n == index - 1
      <3>1. /\ issues = {}
            /\ ~(verifiable /\ r.prev # previous)
            /\ r.hash = RecordHash(r.content, r.prev)
        BY <2>2 DEF CheckRecord
      <3>2. /\ verifiable
            /\ n \in 0 .. Len(Original)
            /\ previous = OriginalHash(n)
            /\ \A i \in 1 .. n : records[i] = OriginalRecord(i)
        BY <2>2, <3>1 DEF OnTrack, CheckRecord
      <3>3. index \in 1 .. Len(records) /\ Len(records) \in Nat
        BY <2>2, LenProperties DEF VerifierTypeOK, CheckRecord
      <3>4. r \in Forgery
        BY <2>2, <3>3, ElementOfSeq DEF CheckRecord
      <3>5. /\ n + 1 \in 0 .. Len(Original)
            /\ r.content = Original[n + 1]
            /\ r.hash = OriginalHash(n + 1)
        BY <3>1, <3>2, <3>4, KnownSuccessor DEF Forgery
      <3>6. r = OriginalRecord(index)
        <4>1. r = [content |-> r.content, prev |-> r.prev, hash |-> r.hash]
          BY <3>4 DEF Forgery
        <4>2. n + 1 = index /\ index - 1 = n
          BY <3>3
        <4>3. r.prev = OriginalHash(n) /\ r.content = Original[index]
          BY <3>1, <3>2, <3>5, <4>2
        <4>4. OriginalRecord(index) =
                [content |-> r.content, prev |-> r.prev, hash |-> RecordHash(r.content, r.prev)]
          BY <4>2, <4>3 DEF OriginalRecord, Linked
        <4> QED
          BY <3>1, <4>1, <4>4
      <3>7. index' = index + 1 /\ records' = records
            /\ previous' = r.hash /\ verifiable'
        BY <2>2 DEF CheckRecord
      <3> QED
        BY <3>2, <3>3, <3>5, <3>6, <3>7
    <2>3. CASE UNCHANGED verifierVars
      BY <2>3 DEF verifierVars, OnTrack
    <2> QED
      BY <2>1, <2>2, <2>3 DEF VerifierNext
  <1> QED
    BY <1>1, <1>2, VerifierTypeCorrect, PTL DEF VerifierSpec

(***************************************************************************)
(* Whatever was done to an artifact short of recomputing hashes, the       *)
(* records verify_append_chain has accepted so far are the first records   *)
(* append_record stored, for a ledger of any length.                       *)
(***************************************************************************)
THEOREM VerifierAccepted == VerifierSpec => []AcceptedIsPrefix
  <1>1. OnTrack => AcceptedIsPrefix
    BY VerifierAssumption, LenProperties DEF OnTrack, AcceptedIsPrefix
  <1> QED
    BY <1>1, OnTrackInvariant, PTL

-----------------------------------------------------------------------------
(* The chain over the ledger links: each of its hashes extends the one     *)
(* before.                                                                 *)
LEMMA OriginalHashesLink ==
    ASSUME NEW n \in 1 .. Len(Original)
    PROVE  /\ OriginalRecord(n).hash = OriginalHash(n)
           /\ OriginalRecord(n).prev = OriginalHash(n - 1)
           /\ OriginalRecord(n).hash = RecordHash(OriginalRecord(n).content, OriginalRecord(n).prev)
           /\ OriginalRecord(n).hash # NoHash
  <1>1. Len(Original) \in Nat /\ n - 1 \in 0 .. Len(Original) /\ n \in 0 .. Len(Original)
    BY VerifierAssumption, LenProperties
  <1>2. Original[n] \in Content
    BY VerifierAssumption, ElementOfSeq
  <1>3. PICK old \in Seq(Content) :
          /\ old = OriginalHash(n - 1) /\ Len(old) = n - 1
          /\ \A i \in 1 .. n - 1 : old[i] = Original[i]
    BY <1>1, OriginalHashType
  <1>4. /\ OriginalHash(n) \in Seq(Content) /\ Len(OriginalHash(n)) = n
        /\ \A i \in 1 .. n : OriginalHash(n)[i] = Original[i]
    BY <1>1, OriginalHashType
  <1>5. /\ Append(old, Original[n]) \in Seq(Content)
        /\ Len(Append(old, Original[n])) = n
        /\ \A i \in 1 .. n : Append(old, Original[n])[i] = Original[i]
    <2>1. /\ Append(old, Original[n]) \in Seq(Content)
          /\ Len(Append(old, Original[n])) = Len(old) + 1
          /\ \A i \in 1 .. Len(old) : Append(old, Original[n])[i] = old[i]
          /\ Append(old, Original[n])[Len(old) + 1] = Original[n]
      BY <1>2, AppendProperties
    <2>2. n \in Nat /\ Len(old) + 1 = n
      BY <1>1, <1>3
    <2>3. ASSUME NEW i \in 1 .. n PROVE Append(old, Original[n])[i] = Original[i]
      BY <1>3, <2>1, <2>2
    <2> QED
      BY <2>1, <2>2, <2>3
  <1>6. Append(old, Original[n]) = OriginalHash(n)
    BY <1>4, <1>5, SeqEqual
  <1>7. OriginalHash(n) # << >>
    BY <1>1, <1>4, EmptySeq
  <1> QED
    BY <1>3, <1>6, <1>7 DEF OriginalRecord, Linked, RecordHash, NoHash

(* The line, or the one before it, is not what append_record stored.       *)
Tampered(i) ==
    \E j \in {i - 1, i} \cap (1 .. Len(records)) :
        j > Len(Original) \/ records[j] # OriginalRecord(j)

(* The loop's previous_hash is that of the line before.                    *)
PreviousRead ==
    /\ index = 1 => previous = NoHash
    /\ index > 1 /\ verifiable => previous = records[index - 1].hash

(* What the loop reports of the line it is at, it reports with reason.     *)
LEMMA ReportIsJust ==
    ASSUME VerifierTypeOK, PreviousRead, index <= Len(records),
           LET r == records[index]
           IN  \/ r.hash = NoHash
               \/ verifiable /\ r.prev # previous
               \/ r.hash # RecordHash(r.content, r.prev)
    PROVE  Tampered(index)
  <1>1. /\ index \in 1 .. Len(records) /\ Len(records) \in Nat /\ index \in Nat \ {0}
        /\ Len(Original) \in Nat
    BY VerifierAssumption, LenProperties DEF VerifierTypeOK
  <1> SUFFICES ASSUME index \in 1 .. Len(Original), records[index] = OriginalRecord(index)
               PROVE  Tampered(index)
    BY <1>1 DEF Tampered
  <1>2. /\ records[index].hash # NoHash
        /\ records[index].prev = OriginalHash(index - 1)
        /\ records[index].hash = RecordHash(records[index].content, records[index].prev)
    BY OriginalHashesLink
  <1>3. verifiable /\ OriginalHash(index - 1) # previous
    BY <1>2
  <1>4. index # 1
    <2>1. OriginalHash(0) = NoHash
      BY SubSeqEmpty DEF OriginalHash, NoHash
    <2> QED
      BY <1>3, <2>1 DEF PreviousRead
  <1>5. previous = records[index - 1].hash /\ index - 1 \in 1 .. Len(records)
        /\ index - 1 \in 1 .. Len(Original)
    BY <1>1, <1>3, <1>4 DEF PreviousRead
  <1>6. records[index - 1] # OriginalRecord(index - 1)
    BY <1>3, <1>5, OriginalHashesLink
  <1> QED
    BY <1>5, <1>6 DEF Tampered

(* What is reported by a step is so.                                       *)
LEMMA ReportedStep ==
    ASSUME VerifierTypeOK, PreviousRead, ReportedIsTampered, [VerifierNext]_verifierVars
    PROVE  PreviousRead' /\ ReportedIsTampered'
  <1>0. index \in Nat \ {0} /\ Len(records) \in Nat
    BY LenProperties DEF VerifierTypeOK
  <1>1. CASE UNCHANGED verifierVars
    BY <1>1 DEF verifierVars, PreviousRead, ReportedIsTampered, OriginalRecord
  <1>2. CASE SkipUnchained \/ CheckRecord
    <2>1. records' = records /\ index' = index + 1 /\ index <= Len(records)
      BY <1>2 DEF SkipUnchained, CheckRecord
    <2>2. PreviousRead'
      <3>1. verifiable' => previous' = records[index].hash
        BY <1>2 DEF SkipUnchained, CheckRecord
      <3>2. index' # 1 /\ index' - 1 = index
        BY <1>0, <2>1
      <3> QED
        BY <2>1, <3>1, <3>2 DEF PreviousRead
    <2>3. ASSUME NEW issue \in issues', issue \notin issues
          PROVE  issue[1] = index /\ Tampered(index)
      <3>1. CASE SkipUnchained
        <4>1. issue[1] = index /\ records[index].hash = NoHash
          BY <2>3, <3>1 DEF SkipUnchained
        <4> QED
          BY <2>1, <4>1, ReportIsJust
      <3>2. CASE CheckRecord
        <4>1. /\ issue[1] = index
              /\ \/ verifiable /\ records[index].prev # previous
                 \/ records[index].hash #
                      RecordHash(records[index].content, records[index].prev)
          BY <2>3, <3>2 DEF CheckRecord
        <4> QED
          BY <2>1, <4>1, ReportIsJust
      <3> QED
        BY <1>2, <3>1, <3>2
    <2>4. ASSUME NEW issue \in issues' PROVE Tampered(issue[1])
      BY <2>3 DEF ReportedIsTampered, Tampered
    <2>5. ReportedIsTampered'
      BY <2>1, <2>4 DEF ReportedIsTampered, Tampered, OriginalRecord
    <2> QED
      BY <2>2, <2>5
  <1> QED
    BY <1>1, <1>2 DEF VerifierNext

(***************************************************************************)
(* No false alarm: of a ledger of any length, whatever was done to it,     *)
(* verify_append_chain reports only lines that are, or that follow, a line *)
(* append_record did not store there.                                      *)
(***************************************************************************)
THEOREM VerifierReportedIsTampered == VerifierSpec => []ReportedIsTampered
  <1>1. VerifierInit => PreviousRead /\ ReportedIsTampered
    BY DEF VerifierInit, PreviousRead, ReportedIsTampered
  <1> QED
    BY <1>1, ReportedStep, VerifierTypeCorrect, PTL DEF VerifierSpec

-----------------------------------------------------------------------------
(* The reader who comes back.                                              *)

(* The check that reads no records leaves the loop's state alone, and the  *)
(* reading that follows takes the loop's steps and no others.              *)
THEOREM ReaderRunsVerifier == ReaderSpec => VerifierSpec
  <1>1. ReaderInit => VerifierInit
    BY DEF ReaderInit
  <1>2. [ReaderNext]_<<verifierVars, memory>> => [VerifierNext]_verifierVars
    BY DEF ReaderNext, Prove, RefuseToProve, Check, Reread, VerifierNext
  <1> QED
    BY <1>1, <1>2, PTL DEF ReaderSpec, VerifierSpec

(* So a reader who comes back still accepts nothing but a prefix of what   *)
(* append_record wrote, of records that reuse its hashes.                  *)
THEOREM ReaderAcceptsPrefix == ReaderSpec => []AcceptedIsPrefix
  BY ReaderRunsVerifier, VerifierAccepted, PTL

(* Nor does it raise a false alarm.                                        *)
THEOREM ReaderReportsTampered == ReaderSpec => []ReportedIsTampered
  BY ReaderRunsVerifier, VerifierReportedIsTampered, PTL

(* The memory of a reader is written once: no step of the check or of the  *)
(* reading moves the size or the root verified before, which the meaning   *)
(* of a later check rests on.                                              *)
MemoryKept ==
    /\ size1 \in Known
    /\ root1 = RootOf(SubSeq(OriginalLedger, 1, size1))
    /\ verdict \in {"none", "accepted", "refused"}

(* And so it is in every behaviour.                                        *)
THEOREM ReaderMemory == ReaderSpec => []MemoryKept
  <1>1. ReaderInit => MemoryKept
    BY DEF ReaderInit, MemoryKept
  <1>2. MemoryKept /\ [ReaderNext]_<<verifierVars, memory>> => MemoryKept'
    <2> SUFFICES ASSUME MemoryKept, [ReaderNext]_<<verifierVars, memory>> PROVE MemoryKept'
      OBVIOUS
    <2>1. size1' = size1 /\ root1' = root1
      BY DEF ReaderNext, Prove, RefuseToProve, Check, Reread, memory
    <2>2. verdict' \in {"none", "accepted", "refused"}
      BY DEF ReaderNext, Prove, RefuseToProve, Check, Reread, memory, MemoryKept
    <2> QED
      BY <2>1, <2>2 DEF MemoryKept
  <1> QED
    BY <1>1, <1>2, PTL DEF ReaderSpec

(* A nonempty set of numbers has a least member.                           *)
LEMMA LeastMember ==
    ASSUME NEW S, S \subseteq Nat, S # {}
    PROVE  \E n \in S : \A m \in S : n <= m
  <1>1. PICK n \in S : \A m \in S : ~(<<m, n>> \in OpToRel(<, Nat))
    BY NatLessThanWellFounded, WFMin
  <1>2. ASSUME NEW m \in S PROVE n <= m
    <2>1. ~(<<m, n>> \in OpToRel(<, Nat))
      BY <1>1
    <2> QED
      BY <2>1 DEF OpToRel
  <1> QED
    BY <1>2

-----------------------------------------------------------------------------
(* Merkle trees: powers of two, and numbers shifted by them.               *)

(* A set has as many subsets with a new element as without it.             *)
LEMMA PowerStep ==
    ASSUME NEW k \in Nat
    PROVE  2^k \in Nat /\ 2^(k + 1) = 2 * 2^k
  <1> DEFINE without == SUBSET (1 .. k)
             with == {T \union {k + 1} : T \in without}
             f == [T \in without |-> T \union {k + 1}]
  <1>1. /\ IsFiniteSet(1 .. k) /\ Cardinality(1 .. k) = k
        /\ IsFiniteSet(1 .. k + 1) /\ Cardinality(1 .. k + 1) = k + 1
    BY FS_Interval
  <1>2. /\ IsFiniteSet(without) /\ Cardinality(without) = 2^k
        /\ Cardinality(SUBSET (1 .. k + 1)) = 2^(k + 1)
    BY <1>1, FS_SUBSET
  <1>3. k + 1 \notin 1 .. k /\ 1 .. k + 1 = 1 .. k \union {k + 1}
    OBVIOUS
  <1>4. SUBSET (1 .. k + 1) = without \union with
    <2>1. ASSUME NEW T \in SUBSET (1 .. k + 1) PROVE T \in without \union with
      <3>1. CASE k + 1 \in T
        <4>1. T \ {k + 1} \in without /\ T = (T \ {k + 1}) \union {k + 1}
          BY <1>3, <3>1
        <4> QED
          BY <4>1
      <3>2. CASE k + 1 \notin T
        BY <1>3, <3>2
      <3> QED
        BY <3>1, <3>2
    <2>2. ASSUME NEW T \in without PROVE T \in SUBSET (1 .. k + 1)
      BY <1>3
    <2>3. ASSUME NEW T \in with PROVE T \in SUBSET (1 .. k + 1)
      BY <1>3
    <2> HIDE DEF without, with
    <2> QED
      BY <2>1, <2>2, <2>3
  <1>5. without \intersect with = {}
    BY <1>3
  <1>6. ExistsBijection(without, with)
    <2>1. f \in [without -> with] /\ \A t \in with : \E T \in without : f[T] = t
      OBVIOUS
    <2>2. ASSUME NEW T \in without, NEW U \in without, f[T] = f[U] PROVE T = U
      <3>1. T \union {k + 1} = U \union {k + 1} /\ k + 1 \notin T /\ k + 1 \notin U
        BY <1>3, <2>2
      <3> QED
        BY <3>1
    <2> HIDE DEF f, without, with
    <2> QED
      BY <2>1, <2>2, Fun_IsBij DEF ExistsBijection
  <1>7. IsFiniteSet(with) /\ Cardinality(with) = Cardinality(without)
    BY <1>2, <1>6, FS_Bijection
  <1>8. Cardinality(without) \in Nat
    BY <1>2, FS_CardinalityType
  <1> HIDE DEF without, with
  <1>9. Cardinality(without \union with)
          = Cardinality(without) + Cardinality(with) - Cardinality(without \intersect with)
    BY <1>2, <1>7, FS_Union
  <1>10. Cardinality(without \intersect with) = 0
    BY <1>5, FS_EmptySet
  <1>11. PICK c \in Nat : c = 2^k
    BY <1>2, <1>8
  <1>12. Cardinality(without) = c /\ Cardinality(with) = c
    BY <1>2, <1>7, <1>11
  <1>13. 2^(k + 1) = c + c - 0
    BY <1>2, <1>4, <1>9, <1>10, <1>12
  <1> QED
    BY <1>11, <1>13

(* Powers of two double, grow, and exceed their exponents.                 *)
LEMMA PowerFacts ==
    /\ 2^0 = 1
    /\ \A k \in Nat : 2^k \in Nat /\ k < 2^k /\ 2^(k + 1) = 2 * 2^k
    /\ \A k, m \in Nat : k <= m => 2^k <= 2^m
  <1>1. 2^0 = 1
    OBVIOUS
  <1>2. \A k \in Nat : 2^k \in Nat /\ 2^(k + 1) = 2 * 2^k
    BY PowerStep
  <1>3. \A k \in Nat : k < 2^k
    <2> DEFINE bad == {k \in Nat : ~(k < 2^k)}
    <2> SUFFICES ASSUME bad # {} PROVE FALSE
      BY DEF bad
    <2>1. PICK k \in bad : \A m \in bad : k <= m
      <3>1. bad \subseteq Nat
        OBVIOUS
      <3> HIDE DEF bad
      <3> QED
        BY <3>1, LeastMember
    <2>2. k \in Nat /\ ~(k < 2^k)
      OBVIOUS
    <2>3. CASE k = 0
      BY <1>1, <2>2, <2>3
    <2>4. CASE k > 0
      <3>1. PICK m \in Nat : k = m + 1
        <4>1. k - 1 \in Nat /\ k = (k - 1) + 1
          BY <2>2, <2>4
        <4> QED
          BY <4>1
      <3>2. m < 2^m
        BY <2>1, <3>1
      <3> QED
        BY <1>2, <2>2, <3>1, <3>2
    <2> QED
      BY <2>2, <2>3, <2>4
  <1>4. ASSUME NEW k \in Nat, NEW m \in Nat, k <= m PROVE 2^k <= 2^m
    <2> DEFINE bad == {n \in Nat : k <= n /\ ~(2^k <= 2^n)}
    <2> SUFFICES ASSUME bad # {} PROVE FALSE
      BY <1>4 DEF bad
    <2>1. PICK n \in bad : \A l \in bad : n <= l
      <3>1. bad \subseteq Nat
        OBVIOUS
      <3> HIDE DEF bad
      <3> QED
        BY <3>1, LeastMember
    <2>2. n \in Nat /\ k <= n /\ ~(2^k <= 2^n)
      OBVIOUS
    <2>3. n # k
      BY <1>2, <2>2
    <2>4. PICK l \in Nat : n = l + 1
      <3>1. n - 1 \in Nat /\ n = (n - 1) + 1
        BY <2>2, <2>3
      <3> QED
        BY <3>1
    <2>5. k <= l /\ l \notin bad
      BY <2>1, <2>2, <2>3, <2>4
    <2>6. 2^k <= 2^l
      BY <2>5
    <2> HIDE DEF bad
    <2> QED
      BY <1>2, <2>2, <2>4, <2>6
  <1> QED
    BY <1>1, <1>2, <1>3, <1>4

(* The ancestor of the leaf at x, l levels up, and where its block begins. *)
Up(x, l) == x \div 2^l
Block(x, l) == Up(x, l) * 2^l

(* A number is twice its half and a bit.                                   *)
LEMMA Halves ==
    ASSUME NEW u \in Nat
    PROVE  u \div 2 \in Nat /\ u % 2 \in {0, 1} /\ u = 2 * (u \div 2) + (u % 2)
  OBVIOUS

(* What a quotient is, and that nothing else is.                           *)
LEMMA Quotient ==
    ASSUME NEW x \in Nat, NEW w \in Nat, w > 0
    PROVE  /\ x \div w \in Nat /\ (x \div w) * w <= x /\ x < (x \div w) * w + w
           /\ \A q \in Nat : q * w <= x /\ x < q * w + w => q = x \div w
  <1>1. x \div w \in Nat /\ x = w * (x \div w) + (x % w) /\ x % w \in Nat /\ x % w < w
    OBVIOUS
  <1>2. PICK d \in Nat, r \in Nat : d = x \div w /\ x = w * d + r /\ r < w
    BY <1>1
  <1>3. d * w <= x /\ x < d * w + w
    BY <1>2
  <1>4. ASSUME NEW q \in Nat, q * w <= x, x < q * w + w PROVE q = d
    <2>1. CASE q < d
      <3>1. PICK e \in Nat : d = q + 1 + e
        <4>1. d - q - 1 \in Nat /\ d = q + 1 + (d - q - 1)
          BY <2>1
        <4> QED
          BY <4>1
      <3>2. d * w = q * w + w + e * w /\ e * w >= 0
        BY <3>1
      <3> QED
        BY <1>3, <1>4, <3>2
    <2>2. CASE d < q
      <3>1. PICK e \in Nat : q = d + 1 + e
        <4>1. q - d - 1 \in Nat /\ q = d + 1 + (q - d - 1)
          BY <2>2
        <4> QED
          BY <4>1
      <3>2. q * w = d * w + w + e * w /\ e * w >= 0
        BY <3>1
      <3> QED
        BY <1>3, <1>4, <3>2
    <2> QED
      BY <2>1, <2>2
  <1> QED
    BY <1>2, <1>3, <1>4

(* A block holds its entry, and is half of the one a level up.             *)
LEMMA UpFacts ==
    ASSUME NEW x \in Nat, NEW l \in Nat
    PROVE  /\ Up(x, l) \in Nat /\ Block(x, l) \in Nat
           /\ Block(x, l) <= x /\ x < Block(x, l) + 2^l
           /\ Up(x, l + 1) = Up(x, l) \div 2
           /\ Up(x, l) % 2 \in {0, 1}
           /\ Up(x, l) % 2 = 0 => Block(x, l + 1) = Block(x, l)
           /\ Up(x, l) % 2 = 1 => Block(x, l + 1) + 2^l = Block(x, l)
  <1>1. PICK w \in Nat : w = 2^l /\ w > 0 /\ 2^(l + 1) = 2 * w
    BY PowerFacts
  <1>2. PICK u \in Nat : u = Up(x, l) /\ u * w <= x /\ x < u * w + w
    BY <1>1, Quotient DEF Up
  <1>3. PICK h \in Nat, b \in {0, 1} : h = u \div 2 /\ b = u % 2 /\ u = 2 * h + b
    BY Halves
  <1>4. /\ b = 0 => u * w = h * (2 * w)
        /\ b = 1 => u * w = h * (2 * w) + w
    BY <1>3
  <1>5. h = Up(x, l + 1)
    <2>1. h * (2 * w) <= x /\ x < h * (2 * w) + 2 * w
      BY <1>2, <1>3, <1>4
    <2>2. 2 * w \in Nat /\ 2 * w > 0
      BY <1>1
    <2> QED
      BY <1>1, <2>1, <2>2, Quotient DEF Up
  <1>6. Block(x, l) = u * w /\ Block(x, l + 1) = h * (2 * w)
    BY <1>1, <1>2, <1>5 DEF Block
  <1>7. u * w \in Nat
    BY <1>2
  <1> QED
    BY <1>1, <1>2, <1>3, <1>4, <1>5, <1>6, <1>7

(* Entries of different blocks, and the block that begins at 0.            *)
LEMMA UpOrder ==
    ASSUME NEW x \in Nat, NEW y \in Nat, NEW l \in Nat
    PROVE  /\ x <= y => Up(x, l) <= Up(y, l)
           /\ Up(x, l) < Up(y, l) <=> Block(x, l) + 2^l <= y /\ x <= y
           /\ x < 2^l <=> Up(x, l) = 0
           /\ Up(x, l) = 0 => Block(x, l) = 0
  <1>1. PICK w \in Nat : w = 2^l /\ w > 0
    BY PowerFacts
  <1>2. PICK u \in Nat : u = Up(x, l) /\ u * w <= x /\ x < u * w + w
    BY <1>1, Quotient DEF Up
  <1>3. PICK v \in Nat : v = Up(y, l) /\ v * w <= y /\ y < v * w + w
    BY <1>1, Quotient DEF Up
  <1>4. ASSUME NEW p \in Nat, NEW q \in Nat, p < q PROVE p * w + w <= q * w
    <2>1. PICK e \in Nat : q = p + 1 + e
      <3>1. q - p - 1 \in Nat /\ q = p + 1 + (q - p - 1)
        BY <1>4
      <3> QED
        BY <3>1
    <2>2. q * w = p * w + w + e * w /\ e * w >= 0
      BY <2>1
    <2>3. p * w \in Nat /\ q * w \in Nat
      OBVIOUS
    <2> QED
      BY <2>2, <2>3
  <1>5. u * w \in Nat /\ v * w \in Nat
    OBVIOUS
  <1>6. x <= y => u <= v
    <2> SUFFICES ASSUME x <= y, v < u PROVE FALSE
      OBVIOUS
    <2>1. v * w + w <= u * w
      BY <1>4
    <2> QED
      BY <1>2, <1>3, <1>5, <2>1
  <1>7. u < v => u * w + w <= y /\ x <= y
    <2> SUFFICES ASSUME u < v PROVE u * w + w <= y /\ x <= y
      OBVIOUS
    <2>1. u * w + w <= v * w
      BY <1>4
    <2> QED
      BY <1>2, <1>3, <1>5, <2>1
  <1>8. u * w + w <= y /\ x <= y => u < v
    <2> SUFFICES ASSUME u * w + w <= y, x <= y, ~(u < v) PROVE FALSE
      OBVIOUS
    <2>1. u = v
      BY <1>6
    <2> QED
      BY <1>3, <1>5, <2>1
  <1>9. x < w <=> u = 0
    <2>1. u = 0 => x < w
      BY <1>2
    <2>2. u # 0 => w <= u * w
      <3> SUFFICES ASSUME u # 0 PROVE w <= u * w
        OBVIOUS
      <3>1. 0 * w + w <= u * w
        BY <1>4
      <3> QED
        BY <3>1
    <2> QED
      BY <1>2, <1>5, <2>1, <2>2
  <1>10. Block(x, l) = u * w
    BY <1>1, <1>2 DEF Block
  <1>11. u = 0 => u * w = 0
    OBVIOUS
  <1> QED
    BY <1>1, <1>2, <1>3, <1>6, <1>7, <1>8, <1>9, <1>10, <1>11

(* Going up in two stages.                                                 *)
LEMMA UpUp ==
    ASSUME NEW x \in Nat, NEW a \in Nat
    PROVE  Up(x, 0) = x /\ \A b \in Nat : Up(Up(x, a), b) = Up(x, a + b)
  <1>1. \A y \in Nat : Up(y, 0) = y
    <2> TAKE y \in Nat
    <2>1. y * 1 <= y /\ y < y * 1 + 1
      OBVIOUS
    <2> QED
      BY <2>1, PowerFacts, Quotient DEF Up
  <1>2. \A l \in Nat : Up(x, l) \in Nat
    BY UpFacts
  <1> DEFINE bad == {b \in Nat : Up(Up(x, a), b) # Up(x, a + b)}
  <1>3. bad = {}
    <2> SUFFICES ASSUME bad # {} PROVE FALSE
      OBVIOUS
    <2>1. PICK b \in bad : \A m \in bad : b <= m
      <3>1. bad \subseteq Nat
        OBVIOUS
      <3> HIDE DEF bad
      <3> QED
        BY <3>1, LeastMember
    <2>2. b \in Nat /\ Up(Up(x, a), b) # Up(x, a + b)
      OBVIOUS
    <2>3. b # 0
      BY <1>1, <1>2, <2>2
    <2>4. PICK c \in Nat : b = c + 1
      <3>1. b - 1 \in Nat /\ b = (b - 1) + 1
        BY <2>2, <2>3
      <3> QED
        BY <3>1
    <2>5. c \notin bad
      BY <2>1, <2>4
    <2>6. Up(Up(x, a), c) = Up(x, a + c)
      BY <2>5
    <2>7. Up(Up(x, a), c + 1) = Up(Up(x, a), c) \div 2
      BY <1>2, UpFacts
    <2>8. a + c \in Nat /\ (a + c) + 1 = a + b
      BY <2>4
    <2>9. Up(x, (a + c) + 1) = Up(x, a + c) \div 2
      BY <2>8, UpFacts
    <2> HIDE DEF bad
    <2> QED
      BY <2>2, <2>4, <2>6, <2>7, <2>8, <2>9
  <1> QED
    BY <1>1, <1>3

(* The least and the greatest of a set of numbers, as the model takes them.*)
LEMMA MinFacts ==
    ASSUME NEW S, S \subseteq Nat, S # {}
    PROVE  Min(S) \in S /\ \A n \in S : Min(S) <= n
  BY LeastMember DEF Min

(* The greatest of a bounded set.                                          *)
LEMMA MaxFacts ==
    ASSUME NEW bound \in Nat, NEW S, S \subseteq 0 .. bound, S # {}
    PROVE  Max(S) \in S /\ \A n \in S : n <= Max(S)
  <1> DEFINE below == {bound - n : n \in S}
  <1>1. below \subseteq Nat /\ below # {}
    <2>1. \A n \in S : n \in Nat /\ n <= bound
      OBVIOUS
    <2>2. \A n \in S : bound - n \in Nat
      BY <2>1
    <2> QED
      BY <2>2
  <1>2. PICK m \in below : \A k \in below : m <= k
    <2> HIDE DEF below
    <2> QED
      BY <1>1, LeastMember
  <1>3. PICK n \in S : m = bound - n
    BY <1>2
  <1>4. \A k \in S : n >= k
    <2> TAKE k \in S
    <2>1. m <= bound - k
      BY <1>2
    <2> QED
      BY <1>3, <2>1
  <1>5. Max(S) \in S /\ \A k \in S : Max(S) >= k
    BY <1>4 DEF Max
  <1> QED
    BY <1>5

(* The largest power of two below a size.                                  *)
LEMMA SplitFacts ==
    ASSUME NEW size \in Nat, size >= 2
    PROVE  /\ DownToPowerOfTwo(size) \in 1 .. size - 1
           /\ \A l \in Nat : 2^l < size /\ size <= 2^(l + 1) => DownToPowerOfTwo(size) = 2^l
  <1> DEFINE P == {2^k : k \in 0 .. size}
             S == {p \in P : p < size}
  <1>1. \A p \in S : p \in Nat /\ p >= 1 /\ p < size
    BY PowerFacts
  <1>2. S \subseteq 0 .. size
    BY <1>1
  <1>3. 1 \in S
    <2>1. 0 \in 0 .. size /\ 1 < size
      OBVIOUS
    <2> QED
      BY <2>1, PowerFacts
  <1>4. DownToPowerOfTwo(size) = Max(S)
    BY DEF DownToPowerOfTwo
  <1>5. Max(S) \in S /\ \A p \in S : p <= Max(S)
    <2> HIDE DEF S
    <2> QED
      BY <1>2, <1>3, MaxFacts
  <1>6. ASSUME NEW l \in Nat, 2^l < size, size <= 2^(l + 1) PROVE Max(S) = 2^l
    <2>1. 2^l \in Nat /\ l < 2^l
      BY PowerFacts
    <2>2. l \in 0 .. size
      BY <1>6, <2>1
    <2>3. 2^l \in S
      BY <1>6, <2>2
    <2>4. PICK k \in 0 .. size : Max(S) = 2^k
      BY <1>5
    <2>5. k <= l
      <3> SUFFICES ASSUME l + 1 <= k PROVE FALSE
        OBVIOUS
      <3>1. 2^(l + 1) <= 2^k
        BY PowerFacts
      <3>2. 2^k < size /\ 2^k \in Nat /\ 2^(l + 1) \in Nat
        BY <1>1, <1>5, <2>4, PowerFacts
      <3> QED
        BY <1>6, <3>1, <3>2
    <2>6. 2^k <= 2^l
      BY <2>5, PowerFacts
    <2>7. 2^l <= Max(S)
      BY <1>5, <2>3
    <2>8. 2^k \in Nat
      BY PowerFacts
    <2> HIDE DEF S
    <2> QED
      BY <2>1, <2>4, <2>6, <2>7, <2>8
  <1> HIDE DEF S
  <1> QED
    BY <1>1, <1>4, <1>5, <1>6

-----------------------------------------------------------------------------
(* The root of a span, by the recursion of the code.                       *)

RootStep(E, g, span) ==
    IF span[2] = 1 THEN hash_leaf(E[span[1]])
    ELSE hash_children(g[<<span[1], DownToPowerOfTwo(span[2])>>],
                       g[<<span[1] + DownToPowerOfTwo(span[2]),
                           span[2] - DownToPowerOfTwo(span[2])>>])

Roots(E) == CHOOSE f : f = [span \in Spans(Len(E)) |-> RootStep(E, f, span)]

(* Both halves of a span lie in it and are shorter.                        *)
LEMMA SpanFacts ==
    ASSUME NEW n \in Nat, NEW span \in Spans(n), span[2] # 1
    PROVE  LET split == DownToPowerOfTwo(span[2])
           IN  /\ <<span[1], split>> \in Spans(n)
               /\ <<span[1] + split, span[2] - split>> \in Spans(n)
               /\ split < span[2] /\ span[2] - split < span[2]
  <1>1. PICK at \in 1 .. n, size \in 1 .. n : span = <<at, size>> /\ at + size - 1 <= n
    BY DEF Spans
  <1>2. PICK split \in 1 .. size - 1 : split = DownToPowerOfTwo(size)
    <2>1. size \in Nat /\ size >= 2
      BY <1>1
    <2> QED
      BY <2>1, SplitFacts
  <1>3. /\ at \in 1 .. n /\ split \in 1 .. n /\ at + split - 1 <= n
        /\ at + split \in 1 .. n /\ size - split \in 1 .. n
        /\ (at + split) + (size - split) - 1 <= n
    BY <1>1, <1>2
  <1>4. <<at, split>> \in Spans(n) /\ <<at + split, size - split>> \in Spans(n)
    BY <1>3 DEF Spans
  <1> QED
    BY <1>1, <1>2, <1>4

(* The recursion over shorter spans has a solution: one for spans of up to *)
(* k entries extends to one for up to k + 1.                               *)
LEMMA RootsExist ==
    ASSUME NEW E, Len(E) \in Nat
    PROVE  Roots(E) = [span \in Spans(Len(E)) |-> RootStep(E, Roots(E), span)]
  <1>1. PICK n \in Nat : n = Len(E)
    OBVIOUS
  <1> DEFINE Short(k) == {span \in Spans(n) : span[2] <= k}
             Solves(g, k) == g = [span \in Short(k) |-> RootStep(E, g, span)]
             bad == {k \in Nat : ~\E g : Solves(g, k)}
  <1>2. \A span \in Spans(n) : span[1] \in 1 .. n /\ span[2] \in 1 .. n
    BY DEF Spans
  <1>3. ASSUME NEW k \in Nat, NEW g, Solves(g, k) PROVE \E f : Solves(f, k + 1)
    <2> DEFINE f == [span \in Short(k + 1) |-> RootStep(E, g, span)]
    <2>1. \A span \in Short(k) : span \in Short(k + 1) /\ f[span] = g[span]
      <3> TAKE span \in Short(k)
      <3>1. span \in Short(k + 1)
        BY <1>2
      <3>2. g[span] = RootStep(E, g, span)
        BY <1>3
      <3> QED
        BY <3>1, <3>2
    <2>2. ASSUME NEW span \in Short(k + 1) PROVE RootStep(E, g, span) = RootStep(E, f, span)
      <3>1. CASE span[2] = 1
        BY <3>1 DEF RootStep
      <3>2. CASE span[2] # 1
        <4> DEFINE left == <<span[1], DownToPowerOfTwo(span[2])>>
                   right == <<span[1] + DownToPowerOfTwo(span[2]),
                              span[2] - DownToPowerOfTwo(span[2])>>
        <4>1. /\ left \in Spans(n) /\ right \in Spans(n)
              /\ left[2] < span[2] /\ right[2] < span[2]
          BY <3>2, SpanFacts
        <4>2. left \in Short(k) /\ right \in Short(k)
          BY <1>2, <4>1
        <4> HIDE DEF left, right
        <4>3. g[left] = f[left] /\ g[right] = f[right]
          BY <2>1, <4>2
        <4> QED
          BY <3>2, <4>3 DEF RootStep, left, right
      <3> QED
        BY <3>1, <3>2
    <2>3. f = [span \in Short(k + 1) |-> RootStep(E, f, span)]
      <3> HIDE DEF Short
      <3>1. [span \in Short(k + 1) |-> RootStep(E, g, span)]
              = [span \in Short(k + 1) |-> RootStep(E, f, span)]
        BY <2>2
      <3> QED
        BY <3>1
    <2> QED
      BY <2>3
  <1>4. \E g : Solves(g, 0)
    <2>1. Short(0) = {}
      BY <1>2
    <2> HIDE DEF Short
    <2> DEFINE g == [span \in Short(0) |-> 0]
    <2>2. g = [span \in Short(0) |-> RootStep(E, g, span)]
      BY <2>1
    <2> QED
      BY <2>2
  <1>5. bad = {}
    <2> SUFFICES ASSUME bad # {} PROVE FALSE
      OBVIOUS
    <2>1. PICK k \in bad : \A m \in bad : k <= m
      <3>1. bad \subseteq Nat
        OBVIOUS
      <3> HIDE DEF bad
      <3> QED
        BY <3>1, LeastMember
    <2>2. k \in Nat /\ ~\E g : Solves(g, k)
      OBVIOUS
    <2> HIDE DEF Solves
    <2>3. k # 0
      BY <1>4, <2>2
    <2>4. PICK m \in Nat : k = m + 1
      <3>1. k - 1 \in Nat /\ k = (k - 1) + 1
        BY <2>2, <2>3
      <3> QED
        BY <3>1
    <2>5. m \notin bad
      BY <2>1, <2>4
    <2>6. PICK g : Solves(g, m)
      BY <2>5
    <2> QED
      BY <1>3, <2>2, <2>4, <2>6
  <1>6. PICK g : Solves(g, n)
    BY <1>5
  <1>7. Short(n) = Spans(n)
    BY <1>2
  <1> HIDE DEF Short
  <1>8. g = [span \in Spans(Len(E)) |-> RootStep(E, g, span)]
    BY <1>1, <1>6, <1>7
  <1> QED
    BY <1>8 DEF Roots

(* So a root is what root_from_entries says it is.                         *)
LEMMA RootEquation ==
    ASSUME NEW E, Len(E) \in Nat, NEW at \in Nat, NEW size \in Nat,
           at >= 1, size >= 1, at + size - 1 <= Len(E)
    PROVE  /\ size = 1 => RootAt(E, at, size) = hash_leaf(E[at])
           /\ size > 1 => RootAt(E, at, size)
                = hash_children(RootAt(E, at, DownToPowerOfTwo(size)),
                                RootAt(E, at + DownToPowerOfTwo(size),
                                       size - DownToPowerOfTwo(size)))
  <1>1. \A p, s : RootAt(E, p, s) = Roots(E)[<<p, s>>]
    BY DEF RootAt, Roots, RootStep
  <1>2. <<at, size>> \in Spans(Len(E))
    BY DEF Spans
  <1>3. Roots(E)[<<at, size>>] = RootStep(E, Roots(E), <<at, size>>)
    BY <1>2, RootsExist
  <1> QED
    BY <1>1, <1>3 DEF RootStep

(* SHA-256 is collision free.                                              *)
LEMMA ChildrenKnown ==
    ASSUME NEW a, NEW b, NEW c, NEW d, hash_children(a, b) = hash_children(c, d)
    PROVE  a = c /\ b = d
  BY DEF hash_children

(* Equal roots of as many records are the roots of the same records.       *)
LEMMA RootInjective ==
    ASSUME NEW A, NEW B, Len(A) \in Nat, Len(B) \in Nat
    PROVE  \A size, at \in Nat :
               /\ at >= 1 /\ size >= 1
               /\ at + size - 1 <= Len(A) /\ at + size - 1 <= Len(B)
               /\ RootAt(A, at, size) = RootAt(B, at, size)
               => \A i \in at .. at + size - 1 : A[i] = B[i]
  <1> DEFINE Same(at, size) == \A i \in at .. at + size - 1 : A[i] = B[i]
             Inside(at, size) == /\ at >= 1 /\ size >= 1
                                 /\ at + size - 1 <= Len(A) /\ at + size - 1 <= Len(B)
             bad == {size \in Nat : \E at \in Nat :
                        /\ Inside(at, size) /\ RootAt(A, at, size) = RootAt(B, at, size)
                        /\ ~Same(at, size)}
  <1>1. bad = {}
    <2> SUFFICES ASSUME bad # {} PROVE FALSE
      OBVIOUS
    <2>1. PICK size \in bad : \A m \in bad : size <= m
      <3>1. bad \subseteq Nat
        OBVIOUS
      <3> HIDE DEF bad
      <3> QED
        BY <3>1, LeastMember
    <2>2. size \in Nat
      OBVIOUS
    <2>3. PICK at \in Nat : /\ Inside(at, size) /\ RootAt(A, at, size) = RootAt(B, at, size)
                            /\ ~Same(at, size)
      OBVIOUS
    <2>4. CASE size = 1
      <3>1. hash_leaf(A[at]) = hash_leaf(B[at])
        BY <2>2, <2>3, <2>4, RootEquation
      <3>2. A[at] = B[at]
        BY <3>1 DEF hash_leaf
      <3> QED
        BY <2>3, <2>4, <3>2
    <2>5. CASE size > 1
      <3>1. PICK split \in 1 .. size - 1 : split = DownToPowerOfTwo(size)
        <4>1. size >= 2
          BY <2>2, <2>5
        <4> QED
          BY <2>2, <4>1, SplitFacts
      <3>2. hash_children(RootAt(A, at, split), RootAt(A, at + split, size - split))
              = hash_children(RootAt(B, at, split), RootAt(B, at + split, size - split))
        <4> HIDE DEF bad, Same
        <4>1. at >= 1 /\ size >= 1 /\ at + size - 1 <= Len(A) /\ at + size - 1 <= Len(B)
          BY <2>3
        <4>2. RootAt(A, at, size)
                = hash_children(RootAt(A, at, split), RootAt(A, at + split, size - split))
          BY <2>2, <2>5, <3>1, <4>1, RootEquation
        <4>3. RootAt(B, at, size)
                = hash_children(RootAt(B, at, split), RootAt(B, at + split, size - split))
          BY <2>2, <2>5, <3>1, <4>1, RootEquation
        <4> QED
          BY <2>3, <4>2, <4>3
      <3>3. /\ RootAt(A, at, split) = RootAt(B, at, split)
            /\ RootAt(A, at + split, size - split) = RootAt(B, at + split, size - split)
        BY <3>2, ChildrenKnown
      <3>4. split \in Nat /\ size - split \in Nat /\ split < size /\ size - split < size
        <4> HIDE DEF bad
        <4>1. split \in Nat /\ 1 <= split /\ split <= size - 1
          BY <2>2, <3>1
        <4> QED
          BY <2>2, <4>1
      <3>5. split \notin bad /\ size - split \notin bad
        <4> HIDE DEF bad
        <4> QED
          BY <2>1, <2>2, <3>4
      <3>6. Inside(at, split) /\ Inside(at + split, size - split) /\ at + split \in Nat
        <4>1. PICK p \in Nat, q \in Nat : p = Len(A) /\ q = Len(B)
          OBVIOUS
        <4> HIDE DEF bad
        <4>2. /\ at \in Nat /\ at >= 1 /\ size >= 1
              /\ at + size - 1 <= p /\ at + size - 1 <= q
          BY <2>3, <4>1
        <4>3. /\ at + split - 1 <= p /\ at + split - 1 <= q
              /\ (at + split) + (size - split) - 1 <= p
              /\ (at + split) + (size - split) - 1 <= q
          BY <2>2, <3>1, <4>2
        <4>4. at + split \in Nat /\ at + split >= 1 /\ size - split >= 1 /\ split >= 1
          <5>1. at \in Nat /\ at >= 1
            BY <4>2
          <5>2. split \in Nat /\ split >= 1 /\ size - split >= 1
            BY <2>2, <3>1
          <5> QED
            BY <5>1, <5>2
        <4> QED
          BY <4>1, <4>2, <4>3, <4>4
      <3>7. Same(at, split) /\ Same(at + split, size - split)
        <4> HIDE DEF Same, Inside
        <4> QED
          BY <3>3, <3>4, <3>5, <3>6
      <3>8. \A i \in at .. at + size - 1 :
                i \in at .. at + split - 1 \/ i \in at + split .. (at + split) + (size - split) - 1
        <4>1. at \in Nat
          BY <2>3
        <4> HIDE DEF bad
        <4> QED
          BY <2>2, <3>1, <4>1
      <3> QED
        BY <2>3, <3>7, <3>8
    <2> QED
      BY <2>2, <2>3, <2>4, <2>5
  <1> QED
    <2> SUFFICES ASSUME NEW size \in Nat, NEW at \in Nat,
                        Inside(at, size), RootAt(A, at, size) = RootAt(B, at, size)
                 PROVE  Same(at, size)
      OBVIOUS
    <2>1. size \notin bad
      BY <1>1
    <2> HIDE DEF Same, Inside
    <2> QED
      BY <2>1

(* The same records have the same root.                                    *)
LEMMA RootSame ==
    ASSUME NEW A, NEW B, Len(A) \in Nat, Len(B) \in Nat
    PROVE  \A size, at \in Nat :
               /\ at >= 1 /\ size >= 1
               /\ at + size - 1 <= Len(A) /\ at + size - 1 <= Len(B)
               /\ \A i \in at .. at + size - 1 : A[i] = B[i]
               => RootAt(A, at, size) = RootAt(B, at, size)
  <1> DEFINE Same(at, size) == \A i \in at .. at + size - 1 : A[i] = B[i]
             Inside(at, size) == /\ at >= 1 /\ size >= 1
                                 /\ at + size - 1 <= Len(A) /\ at + size - 1 <= Len(B)
             bad == {size \in Nat : \E at \in Nat :
                        /\ Inside(at, size) /\ Same(at, size)
                        /\ RootAt(A, at, size) # RootAt(B, at, size)}
  <1>1. bad = {}
    <2> SUFFICES ASSUME bad # {} PROVE FALSE
      OBVIOUS
    <2>1. PICK size \in bad : \A m \in bad : size <= m
      <3>1. bad \subseteq Nat
        OBVIOUS
      <3> HIDE DEF bad
      <3> QED
        BY <3>1, LeastMember
    <2>2. size \in Nat
      OBVIOUS
    <2>3. PICK at \in Nat : /\ Inside(at, size) /\ Same(at, size)
                            /\ RootAt(A, at, size) # RootAt(B, at, size)
      OBVIOUS
    <2> HIDE DEF bad
    <2>4. CASE size = 1
      <3>1. A[at] = B[at]
        BY <2>3, <2>4
      <3>2. RootAt(A, at, size) = hash_leaf(A[at]) /\ RootAt(B, at, size) = hash_leaf(B[at])
        BY <2>2, <2>3, <2>4, RootEquation
      <3> QED
        BY <2>3, <3>1, <3>2
    <2>5. CASE size > 1
      <3>1. PICK split \in 1 .. size - 1 : split = DownToPowerOfTwo(size)
        <4>1. size >= 2
          BY <2>2, <2>5
        <4> QED
          BY <2>2, <4>1, SplitFacts
      <3>2. /\ RootAt(A, at, size)
                 = hash_children(RootAt(A, at, split), RootAt(A, at + split, size - split))
            /\ RootAt(B, at, size)
                 = hash_children(RootAt(B, at, split), RootAt(B, at + split, size - split))
        BY <2>2, <2>3, <2>5, <3>1, RootEquation
      <3>3. split \in Nat /\ size - split \in Nat /\ split < size /\ size - split < size
        BY <2>2, <3>1
      <3>4. split \notin bad /\ size - split \notin bad
        BY <2>1, <2>2, <3>3
      <3>5. Inside(at, split) /\ Inside(at + split, size - split) /\ at + split \in Nat
        <4>1. PICK p \in Nat, q \in Nat : p = Len(A) /\ q = Len(B)
          OBVIOUS
        <4>2. /\ at \in Nat /\ at >= 1 /\ size >= 1
              /\ at + size - 1 <= p /\ at + size - 1 <= q
          BY <2>3, <4>1
        <4>3. /\ at + split - 1 <= p /\ at + split - 1 <= q
              /\ (at + split) + (size - split) - 1 <= p
              /\ (at + split) + (size - split) - 1 <= q
          BY <2>2, <3>1, <4>2
        <4>4. at + split \in Nat /\ at + split >= 1 /\ size - split >= 1 /\ split >= 1
          <5>1. at \in Nat /\ at >= 1
            BY <4>2
          <5>2. split \in Nat /\ split >= 1 /\ size - split >= 1
            BY <2>2, <3>1
          <5> QED
            BY <5>1, <5>2
        <4> QED
          BY <4>1, <4>2, <4>3, <4>4
      <3>6. Same(at, split) /\ Same(at + split, size - split)
        <4>1. at \in Nat
          BY <2>3
        <4>2. \A i : i \in at .. at + split - 1 => i \in at .. at + size - 1
          BY <2>2, <3>1, <4>1
        <4>3. \A i : i \in at + split .. (at + split) + (size - split) - 1
                      => i \in at .. at + size - 1
          BY <2>2, <3>1, <4>1
        <4> QED
          BY <2>3, <4>2, <4>3
      <3>7. /\ RootAt(A, at, split) = RootAt(B, at, split)
            /\ RootAt(A, at + split, size - split) = RootAt(B, at + split, size - split)
        <4> USE DEF bad
        <4> HIDE DEF Same, Inside
        <4> QED
          BY <3>3, <3>4, <3>5, <3>6
      <3> QED
        BY <2>3, <3>2, <3>7
    <2> QED
      BY <2>2, <2>3, <2>4, <2>5
  <1> QED
    <2> SUFFICES ASSUME NEW size \in Nat, NEW at \in Nat, Inside(at, size), Same(at, size)
                 PROVE  RootAt(A, at, size) = RootAt(B, at, size)
      OBVIOUS
    <2>1. size \notin bad
      BY <1>1
    <2> HIDE DEF Same, Inside
    <2> QED
      BY <2>1

-----------------------------------------------------------------------------
(* The path from the entry behind x first ones up to the root: the root of *)
(* its block of 2^l entries, or of as many of these as there are.          *)

Part(E, x, l) == IF Len(E) - Block(x, l) < 2^l THEN Len(E) - Block(x, l) ELSE 2^l
OnPath(E, x, l) == RootAt(E, Block(x, l) + 1, Part(E, x, l))
LeftOf(E, x, l) == RootAt(E, Block(x, l + 1) + 1, 2^l)

(* A block that holds every entry has the root of the tree.                *)
LEMMA PathTop ==
    ASSUME NEW E, Len(E) \in Nat, NEW x \in Nat, x < Len(E),
           NEW l \in Nat, Len(E) <= 2^l
    PROVE  OnPath(E, x, l) = RootAt(E, 1, Len(E))
  <1>1. PICK w \in Nat, n \in Nat : w = 2^l /\ n = Len(E)
    <2>1. 2^l \in Nat /\ Len(E) \in Nat
      BY PowerFacts
    <2> QED
      BY <2>1
  <1>2. Block(x, l) = 0
    <2>1. x < 2^l
      BY <1>1
    <2> QED
      BY <2>1, UpOrder
  <1>3. Part(E, x, l) = n
    BY <1>1, <1>2 DEF Part
  <1> QED
    BY <1>1, <1>2, <1>3 DEF OnPath

(* One level up, the root of the block is hashed with that of the other    *)
(* half, on the side the bit says, or stays what it is where there is no   *)
(* other half.                                                             *)
LEMMA PathStep ==
    ASSUME NEW E, Len(E) \in Nat, NEW x \in Nat, x < Len(E), NEW l \in Nat
    PROVE  /\ Up(x, l) % 2 = 1
                => OnPath(E, x, l + 1) = hash_children(LeftOf(E, x, l), OnPath(E, x, l))
           /\ Up(x, l) % 2 = 0 /\ Block(x, l) + 2^l < Len(E)
                => OnPath(E, x, l + 1)
                     = hash_children(OnPath(E, x, l),
                                     RootAt(E, Block(x, l) + 2^l + 1,
                                            Part(E, x, l + 1) - 2^l))
           /\ Up(x, l) % 2 = 0 /\ Len(E) <= Block(x, l) + 2^l
                => OnPath(E, x, l + 1) = OnPath(E, x, l)
  <1>1. PICK w \in Nat, n \in Nat : w = 2^l /\ n = Len(E) /\ w > 0 /\ 2^(l + 1) = 2 * w
    <2>1. 2^l \in Nat /\ l < 2^l /\ 2^(l + 1) = 2 * 2^l
      BY PowerFacts
    <2>2. 2^l > 0
      BY <2>1
    <2> QED
      BY <2>1, <2>2
  <1>2. PICK b \in Nat, c \in Nat : /\ b = Block(x, l) /\ c = Block(x, l + 1)
                                    /\ b <= x /\ x < b + w
                                    /\ Up(x, l) % 2 = 0 => c = b
                                    /\ Up(x, l) % 2 = 1 => c + w = b
    <2>1. l + 1 \in Nat
      OBVIOUS
    <2>2. Block(x, l) \in Nat /\ Block(x, l + 1) \in Nat
      BY <2>1, UpFacts
    <2>3. /\ Block(x, l) <= x /\ x < Block(x, l) + w
          /\ Up(x, l) % 2 = 0 => Block(x, l + 1) = Block(x, l)
          /\ Up(x, l) % 2 = 1 => Block(x, l + 1) + w = Block(x, l)
      BY <1>1, UpFacts
    <2> QED
      BY <2>2, <2>3
  <1>3. PICK p : p = Part(E, x, l)
    OBVIOUS
  <1>4. PICK q : q = Part(E, x, l + 1)
    OBVIOUS
  <1>5. p = IF n - b < w THEN n - b ELSE w
    BY <1>1, <1>2, <1>3 DEF Part
  <1>6. q = IF n - c < 2 * w THEN n - c ELSE 2 * w
    BY <1>1, <1>2, <1>4 DEF Part
  <1>7. b <= x /\ x < b + w /\ x < n /\ w > 0
    BY <1>1, <1>2
  <1>8. OnPath(E, x, l) = RootAt(E, b + 1, p) /\ OnPath(E, x, l + 1) = RootAt(E, c + 1, q)
    BY <1>2, <1>3, <1>4 DEF OnPath
  <1>9. ASSUME n - c > w
        PROVE  RootAt(E, c + 1, q) = hash_children(RootAt(E, c + 1, w),
                                                   RootAt(E, c + 1 + w, q - w))
    <2>1. q \in Nat /\ q > 1 /\ q >= 2 /\ w < q /\ q <= 2 * w /\ c + 1 + q - 1 <= n
      BY <1>6, <1>7, <1>9
    <2>2. DownToPowerOfTwo(q) = w
      <3>1. 2^l < q /\ q <= 2^(l + 1)
        BY <1>1, <2>1
      <3> QED
        BY <1>1, <2>1, <3>1, SplitFacts
    <2>3. c + 1 \in Nat /\ c + 1 >= 1 /\ q >= 1
      <3>1. c \in Nat
        BY <1>2
      <3>2. q \in Nat /\ q > 1
        BY <2>1
      <3> QED
        BY <3>1, <3>2
    <2>4. c + 1 + q - 1 <= Len(E)
      BY <1>1, <2>1
    <2>5. RootAt(E, c + 1, q)
            = hash_children(RootAt(E, c + 1, DownToPowerOfTwo(q)),
                            RootAt(E, c + 1 + DownToPowerOfTwo(q), q - DownToPowerOfTwo(q)))
      BY <2>1, <2>3, <2>4, RootEquation
    <2> QED
      BY <2>2, <2>5
  <1>10. CASE Up(x, l) % 2 = 1
    <2>1. c + w = b
      BY <1>2, <1>10
    <2>2. n - c > w
      BY <1>1, <1>2, <2>1
    <2>3. c + 1 + w = b + 1 /\ q - w = p
      BY <1>5, <1>6, <1>7, <2>1
    <2>4. LeftOf(E, x, l) = RootAt(E, c + 1, w)
      BY <1>1, <1>2 DEF LeftOf
    <2>5. OnPath(E, x, l + 1) = hash_children(LeftOf(E, x, l), OnPath(E, x, l))
      BY <1>8, <1>9, <2>2, <2>3, <2>4
    <2> QED
      BY <1>10, <2>5
  <1>11. CASE Up(x, l) % 2 = 0
    <2>1. c = b
      BY <1>2, <1>11
    <2>2. CASE b + w < n
      <3>1. n - c > w /\ c + 1 + w = b + w + 1 /\ p = w
        BY <1>1, <1>2, <1>5, <2>1, <2>2
      <3>2. RootAt(E, c + 1, q) = hash_children(RootAt(E, b + 1, p),
                                                RootAt(E, b + w + 1, q - w))
        BY <1>9, <2>1, <3>1
      <3> QED
        BY <1>1, <1>2, <1>4, <1>8, <1>11, <2>2, <3>2
    <2>3. CASE n <= b + w
      <3>1. q = p
        BY <1>1, <1>2, <1>5, <1>6, <2>1, <2>3
      <3> QED
        BY <1>1, <1>2, <1>8, <1>11, <2>1, <2>3, <3>1
    <2> QED
      BY <1>1, <1>2, <2>2, <2>3
  <1> QED
    BY <1>10, <1>11, UpFacts

(* acc climbs from low to high along the path of x, with a sibling from    *)
(* sib wherever the tree has one.                                          *)
Climbs(E, x, low, high, acc, sib) ==
    \A l \in low .. high - 1 :
        /\ Up(x, l) % 2 = 1 => acc[l + 1] = hash_children(sib[l], acc[l])
        /\ Up(x, l) % 2 = 0 /\ Block(x, l) + 2^l < Len(E)
             => acc[l + 1] = hash_children(acc[l], sib[l])
        /\ Up(x, l) % 2 = 0 /\ Len(E) <= Block(x, l) + 2^l => acc[l + 1] = acc[l]

(* What climbs to the root was on the path all along.                      *)
LEMMA Descent ==
    ASSUME NEW E, Len(E) \in Nat, NEW x \in Nat, x < Len(E),
           NEW low \in Nat, NEW high \in Nat, low <= high,
           NEW acc, NEW sib, Climbs(E, x, low, high, acc, sib),
           acc[high] = OnPath(E, x, high)
    PROVE  /\ \A l \in low .. high : acc[l] = OnPath(E, x, l)
           /\ \A l \in low .. high - 1 : Up(x, l) % 2 = 1 => sib[l] = LeftOf(E, x, l)
  <1>1. ASSUME NEW l \in low .. high - 1, acc[l + 1] = OnPath(E, x, l + 1)
        PROVE  /\ acc[l] = OnPath(E, x, l)
               /\ Up(x, l) % 2 = 1 => sib[l] = LeftOf(E, x, l)
    <2>1. l \in Nat
      OBVIOUS
    <2>2. CASE Up(x, l) % 2 = 1
      <3>1. acc[l + 1] = hash_children(sib[l], acc[l])
        BY <2>2 DEF Climbs
      <3>2. OnPath(E, x, l + 1) = hash_children(LeftOf(E, x, l), OnPath(E, x, l))
        BY <2>1, <2>2, PathStep
      <3> QED
        BY <1>1, <3>1, <3>2 DEF hash_children
    <2>3. CASE Up(x, l) % 2 = 0 /\ Block(x, l) + 2^l < Len(E)
      <3>1. acc[l + 1] = hash_children(acc[l], sib[l])
        BY <2>3 DEF Climbs
      <3>2. PICK r : OnPath(E, x, l + 1) = hash_children(OnPath(E, x, l), r)
        BY <2>1, <2>3, PathStep
      <3> QED
        BY <1>1, <2>3, <3>1, <3>2 DEF hash_children
    <2>4. CASE Up(x, l) % 2 = 0 /\ Len(E) <= Block(x, l) + 2^l
      <3>1. acc[l + 1] = acc[l]
        BY <2>4 DEF Climbs
      <3>2. OnPath(E, x, l + 1) = OnPath(E, x, l)
        BY <2>1, <2>4, PathStep
      <3> QED
        BY <1>1, <2>4, <3>1, <3>2
    <2>5. PICK b \in Nat, w \in Nat, n \in Nat : b = Block(x, l) /\ w = 2^l /\ n = Len(E)
      BY <2>1, UpFacts, PowerFacts
    <2>6. b + w < n \/ n <= b + w
      OBVIOUS
    <2>7. Up(x, l) % 2 \in {0, 1}
      BY <2>1, UpFacts
    <2> QED
      BY <2>2, <2>3, <2>4, <2>5, <2>6, <2>7
  <1> DEFINE bad == {d \in Nat : d <= high - low /\ acc[high - d] # OnPath(E, x, high - d)}
  <1>2. bad = {}
    <2> SUFFICES ASSUME bad # {} PROVE FALSE
      OBVIOUS
    <2>1. PICK d \in bad : \A m \in bad : d <= m
      <3>1. bad \subseteq Nat
        OBVIOUS
      <3> HIDE DEF bad
      <3> QED
        BY <3>1, LeastMember
    <2>2. d \in Nat /\ d <= high - low /\ acc[high - d] # OnPath(E, x, high - d)
      OBVIOUS
    <2>3. d # 0
      <3> SUFFICES ASSUME d = 0 PROVE FALSE
        OBVIOUS
      <3>1. high - d = high
        BY <2>2
      <3> QED
        BY <2>2, <3>1
    <2>4. PICK m \in Nat : d = m + 1
      <3>1. d - 1 \in Nat /\ d = (d - 1) + 1
        BY <2>2, <2>3
      <3> QED
        BY <3>1
    <2>5. m \notin bad
      <3> HIDE DEF bad
      <3> QED
        BY <2>1, <2>4
    <2>6. PICK l \in low .. high - 1 : l = high - d /\ l + 1 = high - m
      <3>1. high - d \in low .. high - 1 /\ (high - d) + 1 = high - m
        BY <2>2, <2>4
      <3> QED
        BY <3>1
    <2>7. acc[l + 1] = OnPath(E, x, l + 1)
      <3>1. m <= high - low
        BY <2>2, <2>4
      <3> QED
        BY <2>5, <2>6, <3>1
    <2> HIDE DEF bad
    <2> QED
      BY <1>1, <2>2, <2>6, <2>7
  <1>3. ASSUME NEW l \in low .. high PROVE acc[l] = OnPath(E, x, l)
    <2>1. high - l \in Nat /\ high - l <= high - low /\ high - (high - l) = l
      OBVIOUS
    <2>2. high - l \notin bad
      BY <1>2
    <2>3. acc[high - (high - l)] = OnPath(E, x, high - (high - l))
      BY <2>1, <2>2
    <2> QED
      BY <2>1, <2>3
  <1>4. \A l \in low .. high - 1 : l + 1 \in low .. high
    OBVIOUS
  <1> QED
    BY <1>1, <1>3, <1>4

(* Two trees along whose common path the same values climb to both roots   *)
(* have the same entries up to the end of the first.                       *)
LEMMA Agreement ==
    ASSUME NEW A, NEW B, Len(A) \in Nat, Len(B) \in Nat, NEW x \in Nat,
           x < Len(A), Len(A) <= x + 1, x < Len(B),
           NEW low \in Nat, NEW high \in Nat, low <= high,
           Block(x, low) + 2^low = x + 1, x < 2^high,
           NEW a, NEW b, NEW sib,
           Climbs(A, x, low, high, a, sib), a[high] = OnPath(A, x, high),
           Climbs(B, x, low, high, b, sib), b[high] = OnPath(B, x, high),
           a[low] = b[low]
    PROVE  \A i \in 1 .. Len(A) : A[i] = B[i]
  <1> DEFINE Agree(l) == \A i \in Block(x, l) + 1 .. x + 1 : A[i] = B[i]
  <1>1. PICK m \in Nat : m = Len(B) /\ x < m
    OBVIOUS
  <1>2. PICK n \in Nat : n = Len(A) /\ n = x + 1
    OBVIOUS
  <1>0. ASSUME NEW size \in Nat, NEW at \in Nat, at >= 1, size >= 1,
               at + size - 1 <= x + 1, RootAt(A, at, size) = RootAt(B, at, size)
        PROVE  \A i \in at .. at + size - 1 : A[i] = B[i]
    <2>1. at + size - 1 <= Len(A) /\ at + size - 1 <= Len(B)
      BY <1>0, <1>1
    <2> QED
      BY <1>0, <2>1, RootInjective
  <1>3. /\ \A l \in low .. high : a[l] = OnPath(A, x, l)
        /\ \A l \in low .. high - 1 : Up(x, l) % 2 = 1 => sib[l] = LeftOf(A, x, l)
    BY Descent
  <1>4. /\ \A l \in low .. high : b[l] = OnPath(B, x, l)
        /\ \A l \in low .. high - 1 : Up(x, l) % 2 = 1 => sib[l] = LeftOf(B, x, l)
    BY Descent
  <1>5. Agree(low)
    <2>1. PICK k \in Nat, w \in Nat : k = Block(x, low) /\ w = 2^low /\ w >= 1 /\ k + w = x + 1
      <3>1. Block(x, low) \in Nat /\ 2^low \in Nat /\ low < 2^low
        BY UpFacts, PowerFacts
      <3>2. 2^low >= 1
        BY <3>1
      <3> QED
        BY <3>1, <3>2
    <2>2. OnPath(A, x, low) = OnPath(B, x, low)
      BY <1>3, <1>4
    <2>3. Part(A, x, low) = w
      BY <1>2, <2>1 DEF Part
    <2>4. Part(B, x, low) = w
      <3>1. ~(m - k < w)
        BY <1>1, <2>1
      <3> QED
        BY <1>1, <2>1, <3>1 DEF Part
    <2>5. RootAt(A, k + 1, w) = RootAt(B, k + 1, w)
      BY <2>1, <2>2, <2>3, <2>4 DEF OnPath
    <2>6. PICK at \in Nat : at = k + 1 /\ at >= 1 /\ at + w - 1 = x + 1
      BY <2>1
    <2>7. at + w - 1 <= x + 1
      BY <2>6
    <2>8. RootAt(A, at, w) = RootAt(B, at, w)
      BY <2>5, <2>6
    <2>9. \A i \in at .. at + w - 1 : A[i] = B[i]
      BY <1>0, <2>1, <2>6, <2>7, <2>8
    <2> QED
      BY <2>1, <2>6, <2>9
  <1>6. ASSUME NEW l \in low .. high - 1, Agree(l) PROVE Agree(l + 1)
    <2>1. l \in Nat
      OBVIOUS
    <2>2. PICK k \in Nat, c \in Nat, w \in Nat :
            /\ k = Block(x, l) /\ c = Block(x, l + 1) /\ w = 2^l /\ w >= 1 /\ k <= x
            /\ Up(x, l) % 2 = 0 => c = k
            /\ Up(x, l) % 2 = 1 => c + w = k
      <3>1. Block(x, l) \in Nat /\ Block(x, l + 1) \in Nat /\ 2^l \in Nat /\ l < 2^l
        <4>1. l + 1 \in Nat
          BY <2>1
        <4> QED
          BY <2>1, <4>1, UpFacts, PowerFacts
      <3>2. 2^l >= 1
        BY <2>1, <3>1
      <3>3. /\ Block(x, l) <= x
            /\ Up(x, l) % 2 = 0 => Block(x, l + 1) = Block(x, l)
            /\ Up(x, l) % 2 = 1 => Block(x, l + 1) + 2^l = Block(x, l)
        BY <2>1, UpFacts
      <3> QED
        BY <3>1, <3>2, <3>3
    <2>3. CASE Up(x, l) % 2 = 1
      <3>1. RootAt(A, c + 1, w) = RootAt(B, c + 1, w)
        BY <1>3, <1>4, <2>2, <2>3 DEF LeftOf
      <3>2. PICK at \in Nat : at = c + 1 /\ at >= 1 /\ at + w - 1 = k /\ k <= x + 1 /\ k <= m
        <4>1. c + w = k /\ k <= x
          BY <2>2, <2>3
        <4>2. (c + 1) + w - 1 = k /\ k <= x + 1 /\ k <= m
          BY <1>1, <4>1
        <4> QED
          BY <4>2
      <3>3. at + w - 1 <= x + 1
        BY <3>2
      <3>4. \A i \in at .. at + w - 1 : A[i] = B[i]
        BY <1>0, <2>2, <3>1, <3>2, <3>3
      <3>5. \A i \in c + 1 .. x + 1 : i \in at .. at + w - 1 \/ i \in k + 1 .. x + 1
        BY <2>2, <3>2
      <3> QED
        BY <1>6, <2>2, <3>4, <3>5
    <2>4. CASE Up(x, l) % 2 = 0
      BY <1>6, <2>2, <2>4
    <2> QED
      BY <2>1, <2>3, <2>4, UpFacts
  <1> DEFINE bad == {d \in Nat : d <= high - low /\ ~Agree(low + d)}
  <1>7. bad = {}
    <2> SUFFICES ASSUME bad # {} PROVE FALSE
      OBVIOUS
    <2>1. PICK d \in bad : \A e \in bad : d <= e
      <3>1. bad \subseteq Nat
        OBVIOUS
      <3> HIDE DEF bad
      <3> QED
        BY <3>1, LeastMember
    <2> HIDE DEF Agree
    <2>2. d \in Nat /\ d <= high - low /\ ~Agree(low + d)
      OBVIOUS
    <2>3. d # 0
      <3>1. low + 0 = low
        OBVIOUS
      <3> QED
        BY <1>5, <2>2, <3>1
    <2>4. PICK e \in Nat : d = e + 1
      <3>1. d - 1 \in Nat /\ d = (d - 1) + 1
        BY <2>2, <2>3
      <3> QED
        BY <3>1
    <2>5. e \notin bad /\ e <= high - low
      <3>1. e \notin bad
        <4> HIDE DEF bad
        <4> QED
          BY <2>1, <2>4
      <3>2. e <= high - low
        BY <2>2, <2>4
      <3> QED
        BY <3>1, <3>2
    <2>6. PICK l \in low .. high - 1 : l = low + e /\ l + 1 = low + d
      <3>1. low + e \in low .. high - 1 /\ (low + e) + 1 = low + d
        BY <2>2, <2>4
      <3> QED
        BY <3>1
    <2>7. Agree(l)
      BY <2>5, <2>6
    <2> HIDE DEF bad
    <2> QED
      BY <1>6, <2>2, <2>6, <2>7
  <1>8. Agree(high)
    <2>1. high - low \in Nat /\ high - low <= high - low /\ low + (high - low) = high
      OBVIOUS
    <2> HIDE DEF Agree
    <2> QED
      BY <1>7, <2>1
  <1>9. Block(x, high) = 0
    BY UpOrder
  <1> QED
    BY <1>2, <1>8, <1>9

-----------------------------------------------------------------------------
(* The integer operations.                                                 *)

(* The bits of a shifted number.                                           *)
LEMMA BitFacts ==
    ASSUME NEW x \in Nat, NEW l \in Nat
    PROVE  \A k \in Nat : BitAt(Up(x, l), k) = Up(x, l + k) % 2
  BY UpUp DEF BitAt, Up

(* A number is below two to its bit length.                                *)
LEMMA BitLengthFacts ==
    ASSUME NEW x \in Nat
    PROVE  BitLength(x) \in Nat /\ x < 2^BitLength(x)
  <1> DEFINE S == {k \in 0 .. x : x < 2^k}
  <1>1. S \subseteq Nat /\ S # {}
    <2>1. x \in 0 .. x /\ x < 2^x
      BY PowerFacts
    <2> QED
      BY <2>1
  <1>2. BitLength(x) = Min(S)
    BY DEF BitLength
  <1>3. Min(S) \in S
    <2> HIDE DEF S
    <2> QED
      BY <1>1, MinFacts
  <1> QED
    BY <1>2, <1>3

(* The trailing zeros of n are the level of the largest block ending       *)
(* there.                                                                  *)
LEMMA ShiftFacts ==
    ASSUME NEW n \in Nat, n >= 1
    PROVE  /\ TrailingZeros(n) \in Nat
           /\ Block(n - 1, TrailingZeros(n)) + 2^TrailingZeros(n) = n
           /\ \A k \in Nat : Block(n - 1, k) + 2^k = n => k <= TrailingZeros(n)
  <1> DEFINE S == {k \in 0 .. n : n % 2^k = 0}
  <1>1. 0 \in S
    <2>1. n % 1 = 0
      OBVIOUS
    <2> QED
      BY <2>1, PowerFacts
  <1>2. PICK s \in Nat : s = TrailingZeros(n) /\ n % 2^s = 0 /\ \A k \in S : k <= s
    <2>1. TrailingZeros(n) = Max(S)
      BY DEF TrailingZeros
    <2>2. S \subseteq 0 .. n
      OBVIOUS
    <2>3. Max(S) \in S /\ \A k \in S : k <= Max(S)
      <3> HIDE DEF S
      <3> QED
        BY <1>1, <2>2, MaxFacts
    <2>4. Max(S) \in Nat /\ n % 2^Max(S) = 0
      BY <2>3
    <2> HIDE DEF S
    <2> QED
      BY <2>1, <2>3, <2>4
  <1>9. ASSUME NEW k \in Nat, Block(n - 1, k) + 2^k = n PROVE k <= s
    <2>1. PICK x \in Nat : x = n - 1
      OBVIOUS
    <2>2. PICK v \in Nat, u \in Nat : v = 2^k /\ u = Up(x, k) /\ k < v
      BY UpFacts, PowerFacts
    <2>3. n = u * v + v
      BY <1>9, <2>1, <2>2 DEF Block
    <2>4. PICK q \in Nat : q = u + 1
      OBVIOUS
    <2>5. n = q * v /\ v > 0 /\ q * v <= n /\ n < q * v + v
      BY <2>2, <2>3, <2>4
    <2>6. q = n \div v
      BY <2>5, Quotient
    <2>7. n = v * (n \div v) + (n % v)
      BY <2>5
    <2>8. n % v = 0
      <3>1. PICK r \in Int : r = n % v
        BY <2>5
      <3>2. n = v * q + r
        BY <2>6, <2>7, <3>1
      <3> QED
        BY <2>5, <3>1, <3>2
    <2>9. v <= n
      <3>1. u * v \in Nat
        OBVIOUS
      <3> QED
        BY <2>3, <3>1
    <2>10. k \in S
      BY <2>2, <2>8, <2>9
    <2> HIDE DEF S
    <2> QED
      BY <1>2, <2>10
  <1>3. PICK w \in Nat : w = 2^s /\ w >= 1
    <2>1. 2^s \in Nat /\ s < 2^s
      BY PowerFacts
    <2>2. 2^s >= 1
      BY <2>1
    <2> QED
      BY <2>1, <2>2
  <1>4. PICK q \in Nat : n = q * w
    <2>0. w > 0
      BY <1>3
    <2>1. n \div w \in Nat /\ n = w * (n \div w) + (n % w)
      BY <2>0
    <2>2. n % w = 0
      BY <1>2, <1>3
    <2>3. PICK q \in Nat, r \in Nat : q = n \div w /\ n = w * q + r /\ r = 0
      BY <2>1, <2>2
    <2> QED
      BY <2>3
  <1>5. PICK p \in Nat : q = p + 1
    <2>1. q # 0
      BY <1>4
    <2>2. q - 1 \in Nat /\ q = (q - 1) + 1
      BY <2>1
    <2> QED
      BY <2>2
  <1>6. p * w \in Nat /\ n = p * w + w
    BY <1>4, <1>5
  <1>7. p * w <= n - 1 /\ n - 1 < p * w + w /\ n - 1 \in Nat
    BY <1>3, <1>6
  <1>8. p = (n - 1) \div w
    BY <1>3, <1>7, Quotient
  <1> QED
    <2>1. Block(n - 1, s) + 2^s = n
      BY <1>3, <1>6, <1>8 DEF Up, Block
    <2> HIDE DEF S
    <2> QED
      BY <1>2, <1>9, <2>1

(* Below the fork the last old entry has a right neighbour; from the fork  *)
(* on both last entries are in one block.                                  *)
LEMMA ForkFacts ==
    ASSUME NEW n1 \in Nat, NEW n2 \in Nat, 1 <= n1, n1 < n2
    PROVE  LET fork == ForkLevel(n1, n2)
           IN  /\ fork \in Nat
               /\ \A l \in Nat : l < fork => Block(n1 - 1, l) + 2^l < n2
               /\ \A l \in Nat : fork <= l => n2 <= Block(n1 - 1, l) + 2^l
               /\ \A l \in Nat : fork <= l => Up(n1 - 1, l) = Up(n2 - 1, l)
               /\ TrailingZeros(n1) < fork
  <1>1. PICK x \in Nat, y \in Nat : x = n1 - 1 /\ y = n2 - 1 /\ x < y /\ y < n2
    OBVIOUS
  <1> DEFINE S == {k \in 0 .. n2 : Up(x, k) = Up(y, k)}
  <1>2. ForkLevel(n1, n2) = Min(S)
    BY <1>1 DEF ForkLevel, Up
  <1>3. S \subseteq Nat /\ S # {}
    <2>1. y < 2^n2 /\ x < 2^n2
      <3>1. 2^n2 \in Nat /\ n2 < 2^n2
        BY PowerFacts
      <3> QED
        BY <1>1, <3>1
    <2>2. Up(x, n2) = 0 /\ Up(y, n2) = 0
      BY <1>1, <2>1, UpOrder
    <2> QED
      BY <2>2
  <1>4. PICK fork \in S : fork = Min(S) /\ \A k \in S : fork <= k
    <2> HIDE DEF S
    <2> QED
      BY <1>3, MinFacts
  <1>5. fork \in Nat /\ fork <= n2 /\ Up(x, fork) = Up(y, fork)
    OBVIOUS
  <1>6. \A l \in Nat : l < fork => Up(x, l) # Up(y, l)
    <2> SUFFICES ASSUME NEW l \in Nat, l < fork PROVE Up(x, l) # Up(y, l)
      OBVIOUS
    <2>1. l \in 0 .. n2 /\ l \notin S
      <3>1. l \notin S
        <4> HIDE DEF S
        <4> QED
          BY <1>4, <1>5
      <3> QED
        BY <1>5, <3>1
    <2> QED
      BY <2>1
  <1>7. \A l \in Nat : fork <= l => Up(x, l) = Up(y, l)
    <2> SUFFICES ASSUME NEW l \in Nat, fork <= l PROVE Up(x, l) = Up(y, l)
      OBVIOUS
    <2>1. PICK d \in Nat : fork + d = l
      <3>1. l - fork \in Nat /\ fork + (l - fork) = l
        BY <1>5
      <3> QED
        BY <3>1
    <2>2. /\ Up(Up(x, fork), d) = Up(x, fork + d)
          /\ Up(Up(y, fork), d) = Up(y, fork + d)
      <3>1. fork \in Nat
        BY <1>5
      <3> HIDE DEF S
      <3> QED
        BY <3>1, UpUp
    <2> QED
      BY <1>5, <2>1, <2>2
  <1> HIDE DEF S
  <1>8. ASSUME NEW l \in Nat
        PROVE  /\ Up(x, l) # Up(y, l) <=> Block(x, l) + 2^l < n2
               /\ Up(x, l) = Up(y, l) <=> n2 <= Block(x, l) + 2^l
    <2>1. PICK u \in Nat, v \in Nat : u = Up(x, l) /\ v = Up(y, l) /\ u <= v
      <3>1. Up(x, l) \in Nat /\ Up(y, l) \in Nat
        BY UpFacts
      <3>2. Up(x, l) <= Up(y, l)
        BY <1>1, UpOrder
      <3> QED
        BY <3>1, <3>2
    <2>2. PICK e \in Nat : e = Block(x, l) + 2^l
      <3>1. Block(x, l) \in Nat /\ 2^l \in Nat
        BY UpFacts, PowerFacts
      <3> QED
        BY <3>1
    <2>3. u < v <=> e <= y
      <3>1. Up(x, l) < Up(y, l) <=> Block(x, l) + 2^l <= y /\ x <= y
        BY UpOrder
      <3> QED
        BY <1>1, <2>1, <2>2, <3>1
    <2> QED
      BY <1>1, <2>1, <2>2, <2>3
  <1>9. TrailingZeros(n1) < fork
    <2>1. PICK s \in Nat : s = TrailingZeros(n1) /\ Block(x, s) + 2^s = n1
      BY <1>1, ShiftFacts
    <2>2. Up(x, s) # Up(y, s)
      BY <1>8, <2>1
    <2> QED
      BY <1>5, <1>7, <2>1, <2>2
  <1> QED
    BY <1>1, <1>2, <1>4, <1>5, <1>6, <1>7, <1>8, <1>9

(* How many of the lowest d bits of u are set.                             *)
Ones(u, d) == Cardinality({k \in 0 .. d - 1 : BitAt(u, k) = 1})

(* Counting the set bits below a level.                                    *)
LEMMA OnesFacts ==
    ASSUME NEW u \in Nat
    PROVE  /\ Ones(u, 0) = 0 /\ Ones(u, u + 1) = BitCount(u)
           /\ \A d \in Nat : /\ Ones(u, d) \in Nat
                             /\ BitAt(u, d) = 1 => Ones(u, d + 1) = Ones(u, d) + 1
                             /\ BitAt(u, d) # 1 => Ones(u, d + 1) = Ones(u, d)
           /\ \A d, e \in Nat : d <= e => Ones(u, d) <= Ones(u, e)
  <1> DEFINE S(d) == {k \in 0 .. d - 1 : BitAt(u, k) = 1}
  <1>1. \A d : Ones(u, d) = Cardinality(S(d))
    BY DEF Ones
  <1>2. Ones(u, 0) = 0
    <2>1. S(0) = {}
      OBVIOUS
    <2> HIDE DEF S
    <2> QED
      BY <1>1, <2>1, FS_EmptySet
  <1>3. Ones(u, u + 1) = BitCount(u)
    <2>1. (u + 1) - 1 = u
      OBVIOUS
    <2> QED
      BY <2>1 DEF Ones, BitCount
  <1>4. \A d \in Nat : IsFiniteSet(S(d)) /\ Cardinality(S(d)) \in Nat
    <2> TAKE d \in Nat
    <2>1. IsFiniteSet(0 .. d - 1)
      BY FS_Interval
    <2>2. S(d) \subseteq 0 .. d - 1
      OBVIOUS
    <2> HIDE DEF S
    <2> QED
      BY <2>1, <2>2, FS_Subset, FS_CardinalityType
  <1>5. ASSUME NEW d \in Nat
        PROVE  /\ BitAt(u, d) = 1 => Ones(u, d + 1) = Ones(u, d) + 1
               /\ BitAt(u, d) # 1 => Ones(u, d + 1) = Ones(u, d)
    <2>1. CASE BitAt(u, d) = 1
      <3>1. S(d + 1) = S(d) \union {d}
        <4>1. \A k : k \in 0 .. (d + 1) - 1 <=> k \in 0 .. d - 1 \/ k = d
          OBVIOUS
        <4> QED
          BY <2>1, <4>1
      <3>2. d \notin S(d)
        OBVIOUS
      <3> HIDE DEF S
      <3> QED
        BY <1>1, <1>4, <2>1, <3>1, <3>2, FS_AddElement
    <2>2. CASE BitAt(u, d) # 1
      <3>1. S(d + 1) = S(d)
        <4>1. \A k : k \in 0 .. (d + 1) - 1 <=> k \in 0 .. d - 1 \/ k = d
          OBVIOUS
        <4> QED
          BY <2>2, <4>1
      <3> HIDE DEF S
      <3> QED
        BY <1>1, <2>2, <3>1
    <2> QED
      BY <2>1, <2>2
  <1>6. ASSUME NEW d \in Nat, NEW e \in Nat, d <= e PROVE Ones(u, d) <= Ones(u, e)
    <2>1. S(d) \subseteq S(e)
      BY <1>6
    <2> HIDE DEF S
    <2> QED
      BY <1>1, <1>4, <2>1, FS_Subset
  <1> HIDE DEF S
  <1> QED
    BY <1>1, <1>2, <1>3, <1>4, <1>5, <1>6

-----------------------------------------------------------------------------
(* Folding siblings into a seed, one at a time.                            *)

FoldStep(seed, siblings, sides, acc, k) ==
    IF k = 0 THEN seed
    ELSE CASE sides[k] = "left"  -> hash_children(siblings[k], acc[k - 1])
           [] sides[k] = "right" -> hash_children(acc[k - 1], siblings[k])
           [] sides[k] = "none"  -> acc[k - 1]

Fold(seed, siblings, sides) ==
    CHOOSE acc : acc = [k \in 0 .. Len(siblings) |-> FoldStep(seed, siblings, sides, acc, k)]

(* The recursion of a fold has a solution.                                 *)
LEMMA FoldExists ==
    ASSUME NEW seed, NEW siblings, NEW sides, Len(siblings) \in Nat
    PROVE  Fold(seed, siblings, sides)
             = [k \in 0 .. Len(siblings) |->
                  FoldStep(seed, siblings, sides, Fold(seed, siblings, sides), k)]
  <1>1. PICK n \in Nat : n = Len(siblings)
    OBVIOUS
  <1> DEFINE Solves(acc, m) == acc = [k \in 0 .. m |-> FoldStep(seed, siblings, sides, acc, k)]
             bad == {m \in Nat : ~\E acc : Solves(acc, m)}
  <1>2. ASSUME NEW m \in Nat, NEW acc, Solves(acc, m) PROVE \E f : Solves(f, m + 1)
    <2> DEFINE f == [k \in 0 .. m + 1 |-> FoldStep(seed, siblings, sides, acc, k)]
    <2>1. \A k \in 0 .. m : f[k] = acc[k]
      <3> TAKE k \in 0 .. m
      <3>1. k \in 0 .. m + 1
        OBVIOUS
      <3>2. acc[k] = FoldStep(seed, siblings, sides, acc, k)
        BY <1>2
      <3> QED
        BY <3>1, <3>2
    <2>2. ASSUME NEW k \in 0 .. m + 1
          PROVE  FoldStep(seed, siblings, sides, acc, k) = FoldStep(seed, siblings, sides, f, k)
      <3>1. CASE k = 0
        BY <3>1 DEF FoldStep
      <3>2. CASE k # 0
        <4>1. k - 1 \in 0 .. m
          BY <3>2
        <4> HIDE DEF f
        <4>2. f[k - 1] = acc[k - 1]
          BY <2>1, <4>1
        <4> QED
          BY <3>2, <4>2 DEF FoldStep
      <3> QED
        BY <3>1, <3>2
    <2>3. f = [k \in 0 .. m + 1 |-> FoldStep(seed, siblings, sides, f, k)]
      <3>1. [k \in 0 .. m + 1 |-> FoldStep(seed, siblings, sides, acc, k)]
              = [k \in 0 .. m + 1 |-> FoldStep(seed, siblings, sides, f, k)]
        BY <2>2
      <3> QED
        BY <3>1
    <2> QED
      BY <2>3
  <1>3. \E acc : Solves(acc, 0)
    <2> DEFINE acc == [k \in 0 .. 0 |-> seed]
    <2>1. \A k \in 0 .. 0 : FoldStep(seed, siblings, sides, acc, k) = seed
      BY DEF FoldStep
    <2>2. acc = [k \in 0 .. 0 |-> FoldStep(seed, siblings, sides, acc, k)]
      BY <2>1
    <2> QED
      BY <2>2
  <1>4. bad = {}
    <2> SUFFICES ASSUME bad # {} PROVE FALSE
      OBVIOUS
    <2>1. PICK k \in bad : \A m \in bad : k <= m
      <3>1. bad \subseteq Nat
        OBVIOUS
      <3> HIDE DEF bad
      <3> QED
        BY <3>1, LeastMember
    <2>2. k \in Nat /\ ~\E acc : Solves(acc, k)
      OBVIOUS
    <2> HIDE DEF Solves
    <2>3. k # 0
      BY <1>3, <2>2
    <2>4. PICK m \in Nat : k = m + 1
      <3>1. k - 1 \in Nat /\ k = (k - 1) + 1
        BY <2>2, <2>3
      <3> QED
        BY <3>1
    <2>5. m \notin bad
      BY <2>1, <2>4
    <2>6. PICK acc : Solves(acc, m)
      BY <2>5
    <2> QED
      BY <1>2, <2>2, <2>4, <2>6
  <1>5. PICK acc : Solves(acc, n)
    BY <1>4
  <1>6. acc = [k \in 0 .. Len(siblings) |-> FoldStep(seed, siblings, sides, acc, k)]
    BY <1>1, <1>5
  <1> QED
    BY <1>6 DEF Fold

HasLength(siblings, n) == Len(siblings) = n

Folds(seed, siblings, sides, n, acc) ==
    /\ acc[0] = seed /\ acc[n] = Folded(seed, siblings, sides)
    /\ \A k \in 1 .. n :
         /\ sides[k] = "left"  => acc[k] = hash_children(siblings[k], acc[k - 1])
         /\ sides[k] = "right" => acc[k] = hash_children(acc[k - 1], siblings[k])
         /\ sides[k] = "none"  => acc[k] = acc[k - 1]

(* So folding is what the loops of the code do.                            *)
LEMMA FoldedFacts ==
    ASSUME NEW seed, NEW siblings, NEW sides, NEW n \in Nat, HasLength(siblings, n)
    PROVE  \E acc : Folds(seed, siblings, sides, n, acc)
  <1> DEFINE acc == Fold(seed, siblings, sides)
  <1>1. acc = [k \in 0 .. n |-> FoldStep(seed, siblings, sides, acc, k)]
    BY FoldExists DEF HasLength
  <1>2. Folded(seed, siblings, sides) = acc[n]
    BY DEF Folded, Fold, FoldStep, HasLength
  <1> HIDE DEF acc
  <1>3. \A k \in 0 .. n : acc[k] = FoldStep(seed, siblings, sides, acc, k)
    BY <1>1
  <1>4. acc[0] = seed
    <2>1. 0 \in 0 .. n
      OBVIOUS
    <2> QED
      BY <1>3, <2>1 DEF FoldStep
  <1>5. ASSUME NEW k \in 1 .. n
        PROVE  /\ sides[k] = "left"  => acc[k] = hash_children(siblings[k], acc[k - 1])
               /\ sides[k] = "right" => acc[k] = hash_children(acc[k - 1], siblings[k])
               /\ sides[k] = "none"  => acc[k] = acc[k - 1]
    <2>1. k \in 0 .. n /\ k # 0
      OBVIOUS
    <2>2. acc[k] = CASE sides[k] = "left"  -> hash_children(siblings[k], acc[k - 1])
                     [] sides[k] = "right" -> hash_children(acc[k - 1], siblings[k])
                     [] sides[k] = "none"  -> acc[k - 1]
      BY <1>3, <2>1 DEF FoldStep
    <2> QED
      BY <2>2
  <1> QED
    BY <1>2, <1>4, <1>5 DEF Folds

(* The three folds of the verifier over the first or the last siblings.    *)
InnerFolds(seed, siblings, n, bits, f) ==
    /\ f[0] = seed /\ f[n] = ChainInner(seed, SubSeq(siblings, 1, n), bits)
    /\ \A k \in 0 .. n - 1 :
         /\ BitAt(bits, k) = 0 => f[k + 1] = hash_children(f[k], siblings[k + 1])
         /\ BitAt(bits, k) # 0 => f[k + 1] = hash_children(siblings[k + 1], f[k])

InnerRightFolds(seed, siblings, n, bits, f) ==
    /\ f[0] = seed /\ f[n] = ChainInnerRight(seed, SubSeq(siblings, 1, n), bits)
    /\ \A k \in 0 .. n - 1 :
         /\ BitAt(bits, k) = 1 => f[k + 1] = hash_children(siblings[k + 1], f[k])
         /\ BitAt(bits, k) # 1 => f[k + 1] = f[k]

BorderFolds(seed, siblings, from, n, g) ==
    /\ g[0] = seed
    /\ g[n] = ChainBorderRight(seed, SubSeq(siblings, from + 1, Len(siblings)))
    /\ \A k \in 1 .. n : g[k] = hash_children(siblings[from + k], g[k - 1])

(* The loop of _chain_inner over the first n siblings.                     *)
LEMMA InnerFold ==
    ASSUME NEW S, NEW siblings \in Seq(S), NEW m \in Nat, HasLength(siblings, m),
           NEW n \in Nat, n <= m, NEW seed, NEW bits
    PROVE  \E f : InnerFolds(seed, siblings, n, bits, f)
  <1> DEFINE part == SubSeq(siblings, 1, n)
             sides == [k \in DOMAIN part |-> IF BitAt(bits, k - 1) = 0 THEN "right" ELSE "left"]
  <1>1. n = Len(part) /\ DOMAIN part = 1 .. n /\ \A k \in 1 .. n : part[k] = siblings[k]
    <2>1. Len(siblings) = m
      BY DEF HasLength
    <2> QED
      BY <2>1
  <1>2. ChainInner(seed, part, bits) = Folded(seed, part, sides)
    BY DEF ChainInner
  <1>3. \A k \in 1 .. n : sides[k] = IF BitAt(bits, k - 1) = 0 THEN "right" ELSE "left"
    BY <1>1
  <1> HIDE DEF part, sides
  <1>4. PICK f : Folds(seed, part, sides, n, f)
    <2>1. HasLength(part, n)
      BY <1>1 DEF HasLength
    <2> QED
      BY <2>1, FoldedFacts
  <1>5. ASSUME NEW k \in 0 .. n - 1
        PROVE  /\ BitAt(bits, k) = 0 => f[k + 1] = hash_children(f[k], siblings[k + 1])
               /\ BitAt(bits, k) # 0 => f[k + 1] = hash_children(siblings[k + 1], f[k])
    <2>1. PICK j \in 1 .. n : j = k + 1 /\ j - 1 = k
      <3>1. k + 1 \in 1 .. n /\ (k + 1) - 1 = k
        OBVIOUS
      <3> QED
        BY <3>1
    <2>2. sides[j] = IF BitAt(bits, k) = 0 THEN "right" ELSE "left"
      BY <1>3, <2>1
    <2>3. /\ sides[j] = "left"  => f[j] = hash_children(part[j], f[k])
          /\ sides[j] = "right" => f[j] = hash_children(f[k], part[j])
      BY <1>4, <2>1 DEF Folds
    <2>4. part[j] = siblings[j]
      BY <1>1
    <2> QED
      BY <2>1, <2>2, <2>3, <2>4
  <1> QED
    BY <1>2, <1>4, <1>5 DEF part, Folds, InnerFolds

(* That of _chain_inner_right.                                             *)
LEMMA InnerRightFold ==
    ASSUME NEW S, NEW siblings \in Seq(S), NEW m \in Nat, HasLength(siblings, m),
           NEW n \in Nat, n <= m, NEW seed, NEW bits
    PROVE  \E f : InnerRightFolds(seed, siblings, n, bits, f)
  <1> DEFINE part == SubSeq(siblings, 1, n)
             sides == [k \in DOMAIN part |-> IF BitAt(bits, k - 1) = 1 THEN "left" ELSE "none"]
  <1>1. n = Len(part) /\ DOMAIN part = 1 .. n /\ \A k \in 1 .. n : part[k] = siblings[k]
    <2>1. Len(siblings) = m
      BY DEF HasLength
    <2> QED
      BY <2>1
  <1>2. ChainInnerRight(seed, part, bits) = Folded(seed, part, sides)
    BY DEF ChainInnerRight
  <1>3. \A k \in 1 .. n : sides[k] = IF BitAt(bits, k - 1) = 1 THEN "left" ELSE "none"
    BY <1>1
  <1> HIDE DEF part, sides
  <1>4. PICK f : Folds(seed, part, sides, n, f)
    <2>1. HasLength(part, n)
      BY <1>1 DEF HasLength
    <2> QED
      BY <2>1, FoldedFacts
  <1>5. ASSUME NEW k \in 0 .. n - 1
        PROVE  /\ BitAt(bits, k) = 1 => f[k + 1] = hash_children(siblings[k + 1], f[k])
               /\ BitAt(bits, k) # 1 => f[k + 1] = f[k]
    <2>1. PICK j \in 1 .. n : j = k + 1 /\ j - 1 = k
      <3>1. k + 1 \in 1 .. n /\ (k + 1) - 1 = k
        OBVIOUS
      <3> QED
        BY <3>1
    <2>2. sides[j] = IF BitAt(bits, k) = 1 THEN "left" ELSE "none"
      BY <1>3, <2>1
    <2>3. /\ sides[j] = "left" => f[j] = hash_children(part[j], f[k])
          /\ sides[j] = "none" => f[j] = f[k]
      BY <1>4, <2>1 DEF Folds
    <2>4. part[j] = siblings[j]
      BY <1>1
    <2> QED
      BY <2>1, <2>2, <2>3, <2>4
  <1> QED
    BY <1>2, <1>4, <1>5 DEF part, Folds, InnerRightFolds

(* And that of _chain_border_right over the siblings behind these.         *)
LEMMA BorderFold ==
    ASSUME NEW S, NEW siblings \in Seq(S), NEW from \in Nat, NEW n \in Nat,
           HasLength(siblings, from + n), NEW seed
    PROVE  \E g : BorderFolds(seed, siblings, from, n, g)
  <1> DEFINE part == SubSeq(siblings, from + 1, Len(siblings))
             sides == [k \in DOMAIN part |-> "left"]
  <1>1. n = Len(part) /\ DOMAIN part = 1 .. n /\ \A k \in 1 .. n : part[k] = siblings[from + k]
    <2>1. PICK m \in Nat : m = Len(siblings) /\ m = from + n
      BY DEF HasLength
    <2>2. PICK a \in Nat : a = from + 1 /\ a >= 1
      OBVIOUS
    <2>3. part = SubSeq(siblings, a, m)
      BY <2>1, <2>2
    <2>4. Len(SubSeq(siblings, a, m)) = n /\ DOMAIN SubSeq(siblings, a, m) = 1 .. n
      BY <2>1, <2>2
    <2>5. \A k \in 1 .. n : SubSeq(siblings, a, m)[k] = siblings[a + k - 1]
      BY <2>1, <2>2
    <2>6. \A k \in 1 .. n : a + k - 1 = from + k
      BY <2>2
    <2> HIDE DEF part
    <2> QED
      BY <2>3, <2>4, <2>5, <2>6
  <1>2. ChainBorderRight(seed, part) = Folded(seed, part, sides)
    BY DEF ChainBorderRight
  <1>3. \A k \in 1 .. n : sides[k] = "left"
    BY <1>1
  <1> HIDE DEF part, sides
  <1>4. PICK g : Folds(seed, part, sides, n, g)
    <2>1. HasLength(part, n)
      BY <1>1 DEF HasLength
    <2> QED
      BY <2>1, FoldedFacts
  <1> QED
    BY <1>1, <1>2, <1>3, <1>4 DEF part, Folds, BorderFolds

(* A level above every entry, and the sibling a proof has for a level: one *)
(* per level below the fork, and one per set bit from there on.            *)
TopLevel(x, fork) == fork + Up(x, fork) + 1

SiblingAt(x, low, fork, siblings) ==
    [l \in low .. TopLevel(x, fork) - 1 |->
        IF l < fork THEN siblings[l - low + 1]
        ELSE siblings[fork - low + (Ones(Up(x, fork), l - fork) + 1)]]

(* An inner fold f over the first levels and a border fold g over the rest,*)
(* as one climb over all levels.                                           *)
Borders(x, low, fork, siblings, g) ==
    \A k \in 1 .. BitCount(Up(x, fork)) :
        g[k] = hash_children(siblings[fork - low + k], g[k - 1])

Joins(x, low, fork, within, siblings, f, g, acc) ==
    /\ acc[low] = f[0] /\ acc[TopLevel(x, fork)] = g[BitCount(Up(x, fork))]
    /\ \A l \in low .. fork - 1 :
         /\ l - low < within => acc[l] = f[l - low] /\ acc[l + 1] = f[l - low + 1]
         /\ within <= l - low => acc[l + 1] = acc[l]
    /\ \A l \in fork .. TopLevel(x, fork) - 1 :
         /\ Up(x, l) % 2 = 1
              => acc[l + 1] = hash_children(SiblingAt(x, low, fork, siblings)[l], acc[l])
         /\ Up(x, l) % 2 = 0 => acc[l + 1] = acc[l]

(* Both loops, one after the other, are a climb from level to level.       *)
LEMMA Joined ==
    ASSUME NEW x \in Nat, NEW low \in Nat, NEW fork \in Nat, low <= fork,
           NEW within \in Nat, within <= fork - low, NEW siblings, NEW f, NEW g,
           g[0] = f[within], Borders(x, low, fork, siblings, g)
    PROVE  \E acc : Joins(x, low, fork, within, siblings, f, g, acc)
  <1>1. PICK u \in Nat : u = Up(x, fork)
    BY UpFacts
  <1>2. PICK high \in Nat : high = TopLevel(x, fork) /\ high = fork + u + 1
    BY <1>1 DEF TopLevel
  <1>3. PICK ones \in Nat : ones = BitCount(u) /\ ones = Ones(u, u + 1)
    <2>1. u + 1 \in Nat
      OBVIOUS
    <2> QED
      BY <2>1, OnesFacts
  <1> DEFINE inner(l) == IF l - low < within THEN f[l - low] ELSE f[within]
             acc == [l \in low .. high |->
                        IF l <= fork THEN inner(l) ELSE g[Ones(u, l - fork)]]
  <1>4. \A l \in low .. fork : l \in low .. high /\ l <= fork
    BY <1>2
  <1>5. \A l \in low .. fork : acc[l] = inner(l)
    BY <1>4
  <1>6. \A l \in fork .. high : acc[l] = g[Ones(u, l - fork)]
    <2> TAKE l \in fork .. high
    <2>1. CASE l = fork
      <3>1. acc[l] = inner(fork)
        BY <1>5, <2>1
      <3>2. inner(fork) = f[within]
        OBVIOUS
      <3>3. l - fork = 0
        BY <2>1
      <3> QED
        BY <3>1, <3>2, <3>3, OnesFacts
    <2>2. CASE l # fork
      <3>1. l \in low .. high /\ ~(l <= fork)
        BY <2>2
      <3> QED
        BY <3>1
    <2> QED
      BY <2>1, <2>2
  <1>7. acc[low] = f[0]
    <2>1. acc[low] = inner(low)
      BY <1>5
    <2>2. low - low = 0
      OBVIOUS
    <2>3. within = 0 \/ 0 < within
      OBVIOUS
    <2> QED
      BY <2>1, <2>2, <2>3
  <1>8. acc[high] = g[ones]
    <2>1. high \in fork .. high /\ high - fork = u + 1
      BY <1>2
    <2> HIDE DEF acc
    <2> QED
      BY <1>3, <1>6, <2>1
  <1>9. ASSUME NEW l \in low .. fork - 1
        PROVE  /\ l - low < within => acc[l] = f[l - low] /\ acc[l + 1] = f[l - low + 1]
               /\ within <= l - low => acc[l + 1] = acc[l]
    <2>1. l \in low .. fork /\ l + 1 \in low .. fork
      OBVIOUS
    <2>2. acc[l] = inner(l) /\ acc[l + 1] = inner(l + 1)
      BY <1>5, <2>1
    <2> HIDE DEF acc
    <2>3. PICK d \in Nat : d = l - low /\ (l + 1) - low = d + 1
      <3>1. l - low \in Nat /\ (l + 1) - low = (l - low) + 1
        OBVIOUS
      <3> QED
        BY <3>1
    <2>4. ASSUME d < within PROVE inner(l) = f[d] /\ inner(l + 1) = f[d + 1]
      <3>1. CASE d + 1 < within
        BY <2>3, <2>4, <3>1
      <3>2. CASE ~(d + 1 < within)
        <4>1. within = d + 1
          BY <2>4, <3>2
        <4> QED
          BY <2>3, <2>4, <4>1
      <3> QED
        BY <3>1, <3>2
    <2>5. ASSUME within <= d PROVE inner(l) = inner(l + 1)
      <3>1. ~(d < within) /\ ~(d + 1 < within)
        BY <2>5
      <3> QED
        BY <2>3, <3>1
    <2> HIDE DEF inner
    <2> QED
      BY <2>2, <2>3, <2>4, <2>5
  <1>10. ASSUME NEW l \in fork .. high - 1
         PROVE  /\ Up(x, l) % 2 = 1
                     => acc[l + 1] = hash_children(SiblingAt(x, low, fork, siblings)[l], acc[l])
                /\ Up(x, l) % 2 = 0 => acc[l + 1] = acc[l]
    <2>1. PICK d \in Nat : d = l - fork /\ (l + 1) - fork = d + 1 /\ fork + d = l /\ d <= u
      <3>1. l - fork \in Nat /\ (l + 1) - fork = (l - fork) + 1 /\ fork + (l - fork) = l
        OBVIOUS
      <3>2. l - fork <= u
        BY <1>2
      <3> QED
        BY <3>1, <3>2
    <2>2. acc[l] = g[Ones(u, d)] /\ acc[l + 1] = g[Ones(u, d + 1)]
      <3>1. l \in fork .. high /\ l + 1 \in fork .. high
        OBVIOUS
      <3> HIDE DEF acc
      <3> QED
        BY <1>6, <2>1, <3>1
    <2> HIDE DEF acc
    <2>3. BitAt(u, d) = Up(x, l) % 2
      BY <1>1, <2>1, BitFacts
    <2>4. CASE Up(x, l) % 2 = 1
      <3>1. PICK o \in Nat : o = Ones(u, d) /\ o + 1 = Ones(u, d + 1)
        BY <2>3, <2>4, OnesFacts
      <3>2. o + 1 <= ones
        <4>1. d + 1 \in Nat /\ u + 1 \in Nat /\ d + 1 <= u + 1
          BY <2>1
        <4> QED
          BY <1>3, <3>1, <4>1, OnesFacts
      <3>3. o + 1 \in 1 .. ones /\ (o + 1) - 1 = o
        BY <3>2
      <3>4. g[o + 1] = hash_children(siblings[fork - low + (o + 1)], g[o])
        BY <1>1, <1>3, <3>3 DEF Borders
      <3>5. SiblingAt(x, low, fork, siblings)[l] = siblings[fork - low + (o + 1)]
        <4>1. l \in low .. high - 1 /\ ~(l < fork)
          OBVIOUS
        <4> QED
          BY <1>1, <1>2, <2>1, <3>1, <4>1 DEF SiblingAt
      <3> QED
        BY <2>2, <2>4, <3>1, <3>4, <3>5
    <2>5. CASE Up(x, l) % 2 = 0
      <3>1. Ones(u, d + 1) = Ones(u, d)
        BY <2>3, <2>5, OnesFacts
      <3> QED
        BY <2>2, <2>5, <3>1
    <2>6. Up(x, l) % 2 \in {0, 1}
      <3>1. l \in Nat
        OBVIOUS
      <3> QED
        BY <3>1, UpFacts
    <2> QED
      BY <2>4, <2>5, <2>6
  <1> HIDE DEF acc
  <1>11. Joins(x, low, fork, within, siblings, f, g, acc)
    BY <1>1, <1>2, <1>3, <1>7, <1>8, <1>9, <1>10 DEF Joins
  <1> QED
    BY <1>11

(* The path of a proof: where it starts and where the two trees part.      *)
Levels(n1, n2, x, low, fork) ==
    /\ x \in Nat /\ x < n1 /\ n1 <= x + 1 /\ n1 < n2
    /\ low \in Nat /\ fork \in Nat /\ low < fork
    /\ Up(x, low) \in Nat /\ Up(x, fork) \in Nat
    /\ TopLevel(x, fork) \in Nat /\ fork < TopLevel(x, fork)
    /\ Block(x, low) + 2^low = n1 /\ n1 <= 2^TopLevel(x, fork) /\ n2 <= 2^TopLevel(x, fork)
    /\ \A l \in Nat : Block(x, l) + 2^l = n1 => l <= low
    /\ \A l \in Nat : n1 <= Block(x, l) + 2^l
    /\ \A l \in Nat : l < fork => Block(x, l) + 2^l < n2
    /\ \A l \in Nat : fork <= l => n2 <= Block(x, l) + 2^l
    /\ \A l \in Nat : fork <= l => Up(x, l) = Up(n2 - 1, l)

(* The levels a proof between two sizes has.                               *)
LEMMA LevelFacts ==
    ASSUME NEW n1 \in Nat, NEW n2 \in Nat, 1 <= n1, n1 < n2
    PROVE  Levels(n1, n2, n1 - 1, TrailingZeros(n1), ForkLevel(n1, n2))
  <1>x. PICK x \in Nat : x = n1 - 1
    OBVIOUS
  <1>l. PICK low : low = TrailingZeros(n1)
    OBVIOUS
  <1>f. PICK fork : fork = ForkLevel(n1, n2)
    OBVIOUS
  <1>1. /\ low \in Nat /\ Block(x, low) + 2^low = n1
        /\ \A l \in Nat : Block(x, l) + 2^l = n1 => l <= low
    BY <1>x, <1>l, ShiftFacts
  <1>2. /\ fork \in Nat /\ low < fork
        /\ \A l \in Nat : l < fork => Block(x, l) + 2^l < n2
        /\ \A l \in Nat : fork <= l => n2 <= Block(x, l) + 2^l
        /\ \A l \in Nat : fork <= l => Up(x, l) = Up(n2 - 1, l)
    BY <1>x, <1>f, <1>l, ForkFacts
  <1>3. \A l \in Nat : n1 <= Block(x, l) + 2^l
    <2> TAKE l \in Nat
    <2>1. PICK e \in Nat : e = Block(x, l) + 2^l /\ x < e
      <3>1. Block(x, l) \in Nat /\ 2^l \in Nat /\ x < Block(x, l) + 2^l
        BY UpFacts, PowerFacts
      <3> QED
        BY <3>1
    <2> QED
      BY <1>x, <2>1
  <1>4. PICK u \in Nat : u = Up(x, fork)
    BY <1>2, UpFacts
  <1>5. PICK high \in Nat : high = TopLevel(x, fork) /\ high = fork + (u + 1) /\ fork < high
    BY <1>2, <1>4 DEF TopLevel
  <1>6. PICK y \in Nat : y = n2 - 1
    OBVIOUS
  <1>7. Up(y, high) = 0
    <2>1. Up(u, u + 1) = 0
      <3>1. u + 1 \in Nat /\ u < 2^(u + 1)
        <4>1. u + 1 \in Nat /\ u + 1 < 2^(u + 1) /\ 2^(u + 1) \in Nat
          BY PowerFacts
        <4> QED
          BY <4>1
      <3> QED
        BY <3>1, UpOrder
    <2>2. Up(y, fork) = u
      BY <1>2, <1>4, <1>6
    <2>3. u + 1 \in Nat
      OBVIOUS
    <2>4. Up(Up(y, fork), u + 1) = Up(y, fork + (u + 1))
      BY <1>2, <2>3, UpUp
    <2> QED
      BY <1>5, <2>1, <2>2, <2>4
  <1>8. y < 2^high
    BY <1>7, UpOrder
  <1>9. n1 <= 2^high /\ n2 <= 2^high
    <2>1. 2^high \in Nat
      BY PowerFacts
    <2> QED
      BY <1>x, <1>6, <1>8, <2>1
  <1>10. Up(x, low) \in Nat
    BY <1>1, UpFacts
  <1>11. x < n1 /\ n1 <= x + 1
    BY <1>x
  <1>12. Levels(n1, n2, x, low, fork)
    BY <1>1, <1>2, <1>3, <1>4, <1>5, <1>9, <1>10, <1>11 DEF Levels
  <1> QED
    BY <1>x, <1>l, <1>f, <1>12

(* As many siblings as ProofLength asks for.                               *)
Fits(x, low, fork, siblings) ==
    HasLength(siblings, (fork - low) + BitCount(Up(x, fork)))

(* root2, as the verifier rebuilds it.                                     *)
SecondRoot(x, low, fork, seed, siblings) ==
    ChainBorderRight(ChainInner(seed, SubSeq(siblings, 1, fork - low), Up(x, low)),
                     SubSeq(siblings, fork - low + 1, Len(siblings)))

(* Rebuilding root2 climbs the path of the last old entry in the larger    *)
(* tree.                                                                   *)
LEMMA SecondClimb ==
    ASSUME NEW n1 \in Nat, NEW n2 \in Nat,
           NEW x \in Nat, NEW low \in Nat, NEW fork \in Nat,
           Levels(n1, n2, x, low, fork),
           NEW B, Len(B) \in Nat, n2 <= Len(B), Len(B) <= n2,
           NEW S, NEW siblings \in Seq(S), NEW seed, Fits(x, low, fork, siblings)
    PROVE  \E b :
             /\ b[low] = seed
             /\ b[TopLevel(x, fork)] = SecondRoot(x, low, fork, seed, siblings)
             /\ Climbs(B, x, low, TopLevel(x, fork), b, SiblingAt(x, low, fork, siblings))
  <1>1. /\ x \in Nat /\ low \in Nat /\ fork \in Nat /\ low < fork
        /\ TopLevel(x, fork) \in Nat /\ fork < TopLevel(x, fork)
        /\ Up(x, low) \in Nat /\ Up(x, fork) \in Nat
        /\ \A l \in Nat : l < fork => Block(x, l) + 2^l < n2
        /\ \A l \in Nat : fork <= l => n2 <= Block(x, l) + 2^l
    BY DEF Levels
  <1>2. PICK high \in Nat : high = TopLevel(x, fork) /\ fork < high
    BY <1>1
  <1>3. PICK inner \in Nat : inner = fork - low
    <2>1. fork - low \in Nat
      BY <1>1
    <2> QED
      BY <2>1
  <1>4. PICK ones \in Nat : ones = BitCount(Up(x, fork))
    <2>1. Up(x, fork) + 1 \in Nat
      <3>1. Up(x, fork) \in Nat
        BY DEF Levels
      <3> QED
        BY <3>1
    <2> QED
      BY <1>1, <2>1, OnesFacts
  <1>5. HasLength(siblings, inner + ones) /\ inner + ones \in Nat /\ inner <= inner + ones
    BY <1>3, <1>4 DEF Fits
  <1>6. PICK f : InnerFolds(seed, siblings, inner, Up(x, low), f)
    BY <1>5, InnerFold
  <1>7. PICK g : BorderFolds(f[inner], siblings, inner, ones, g)
    BY <1>5, BorderFold
  <1>8. PICK b : Joins(x, low, fork, inner, siblings, f, g, b)
    <2>1. low <= fork /\ inner <= fork - low
      BY <1>1, <1>3
    <2>2. Borders(x, low, fork, siblings, g)
      BY <1>3, <1>4, <1>7 DEF Borders, BorderFolds
    <2>3. g[0] = f[inner]
      BY <1>7 DEF BorderFolds
    <2> QED
      BY <2>1, <2>2, <2>3, Joined
  <1>9. ASSUME NEW l \in low .. high - 1
        PROVE  /\ Up(x, l) % 2 = 1
                    => b[l + 1] = hash_children(SiblingAt(x, low, fork, siblings)[l], b[l])
               /\ Up(x, l) % 2 = 0 /\ Block(x, l) + 2^l < n2
                    => b[l + 1] = hash_children(b[l], SiblingAt(x, low, fork, siblings)[l])
               /\ Up(x, l) % 2 = 0 /\ n2 <= Block(x, l) + 2^l => b[l + 1] = b[l]
    <2>1. l \in Nat
      BY <1>1
    <2>2. PICK e \in Nat : e = Block(x, l) + 2^l
      <3>1. Block(x, l) \in Nat /\ 2^l \in Nat
        BY <2>1, UpFacts, PowerFacts
      <3> QED
        BY <3>1
    <2>3. CASE l < fork
      <3>1. PICK k \in 0 .. inner - 1 : k = l - low /\ low + k = l
        <4>1. l - low \in 0 .. inner - 1 /\ low + (l - low) = l
          BY <1>1, <1>3, <2>3
        <4> QED
          BY <4>1
      <3>2. b[l] = f[k] /\ b[l + 1] = f[k + 1]
        <4>1. l \in low .. fork - 1 /\ l - low < inner
          BY <1>1, <1>3, <2>3
        <4> QED
          BY <1>8, <3>1, <4>1 DEF Joins
      <3>3. BitAt(Up(x, low), k) = Up(x, l) % 2
        BY <1>1, <3>1, BitFacts
      <3>4. SiblingAt(x, low, fork, siblings)[l] = siblings[k + 1]
        <4>1. l \in low .. high - 1
          OBVIOUS
        <4> QED
          BY <1>2, <2>3, <3>1, <4>1 DEF SiblingAt
      <3>5. ~(n2 <= e)
        <4>1. Block(x, l) + 2^l < n2
          BY <1>1, <2>1, <2>3
        <4> QED
          BY <2>2, <4>1
      <3>6. Up(x, l) % 2 = 1 => b[l + 1] = hash_children(SiblingAt(x, low, fork, siblings)[l], b[l])
        BY <1>6, <3>1, <3>2, <3>3, <3>4 DEF InnerFolds
      <3>7. Up(x, l) % 2 = 0 => b[l + 1] = hash_children(b[l], SiblingAt(x, low, fork, siblings)[l])
        BY <1>6, <3>1, <3>2, <3>3, <3>4 DEF InnerFolds
      <3> QED
        BY <2>2, <3>5, <3>6, <3>7
    <2>4. CASE ~(l < fork)
      <3>1. l \in fork .. high - 1
        BY <1>1, <2>4
      <3>2. ~(e < n2)
        <4>1. n2 <= Block(x, l) + 2^l
          BY <1>1, <2>1, <2>4
        <4> QED
          BY <2>2, <4>1
      <3> QED
        BY <1>2, <1>8, <2>2, <3>1, <3>2 DEF Joins
    <2> QED
      BY <2>3, <2>4
  <1>10. Climbs(B, x, low, high, b, SiblingAt(x, low, fork, siblings))
    <2>1. n2 = Len(B)
      OBVIOUS
    <2> QED
      BY <1>9, <2>1 DEF Climbs
  <1> QED
    BY <1>2, <1>3, <1>4, <1>6, <1>7, <1>8, <1>10 DEF Joins, InnerFolds, BorderFolds, SecondRoot

(* The levels below the fork that the first tree has.                      *)
Within(x, low, fork) == (IF BitLength(x) < fork THEN BitLength(x) ELSE fork) - low

(* root1, as the verifier rebuilds it.                                     *)
FirstRoot(x, low, fork, seed, siblings) ==
    ChainBorderRight(ChainInnerRight(seed, SubSeq(siblings, 1, Within(x, low, fork)), Up(x, low)),
                     SubSeq(siblings, fork - low + 1, Len(siblings)))

(* Rebuilding root1 climbs it in the smaller tree.                         *)
LEMMA FirstClimb ==
    ASSUME NEW n1 \in Nat, NEW n2 \in Nat,
           NEW x \in Nat, NEW low \in Nat, NEW fork \in Nat,
           Levels(n1, n2, x, low, fork), n1 # 2^low,
           NEW A, Len(A) \in Nat, n1 <= Len(A), Len(A) <= n1,
           NEW S, NEW siblings \in Seq(S), NEW seed, Fits(x, low, fork, siblings)
    PROVE  \E a :
             /\ a[low] = seed
             /\ a[TopLevel(x, fork)] = FirstRoot(x, low, fork, seed, siblings)
             /\ Climbs(A, x, low, TopLevel(x, fork), a, SiblingAt(x, low, fork, siblings))
  <1>1. /\ x \in Nat /\ low \in Nat /\ fork \in Nat /\ low < fork
        /\ TopLevel(x, fork) \in Nat /\ fork < TopLevel(x, fork)
        /\ Up(x, low) \in Nat /\ Up(x, fork) \in Nat
        /\ Block(x, low) + 2^low = n1
        /\ \A l \in Nat : n1 <= Block(x, l) + 2^l
    BY DEF Levels
  <1>0. x < n1 /\ n1 <= x + 1 /\ low < fork
    BY DEF Levels
  <1>2. PICK high \in Nat : high = TopLevel(x, fork) /\ fork < high
    BY <1>1
  <1>3. PICK inner \in Nat : inner = fork - low
    <2>1. fork - low \in Nat
      BY <1>1
    <2> QED
      BY <2>1
  <1>4. PICK ones \in Nat : ones = BitCount(Up(x, fork))
    <2>1. Up(x, fork) + 1 \in Nat
      <3>1. Up(x, fork) \in Nat
        BY DEF Levels
      <3> QED
        BY <3>1
    <2> QED
      BY <1>1, <2>1, OnesFacts
  <1>5. PICK h \in Nat : h = BitLength(x) /\ x < 2^h /\ low < h
    <2>1. PICK h \in Nat : h = BitLength(x) /\ x < 2^h
      BY BitLengthFacts
    <2>2. 2^low <= x
      <3>1. PICK k \in Nat, w \in Nat : k = Block(x, low) /\ w = 2^low /\ k + w = n1
        BY <1>1, UpFacts, PowerFacts
      <3>2. k # 0
        BY <3>1
      <3>3. w <= x
        BY <1>0, <3>1, <3>2
      <3> QED
        BY <3>1, <3>3
    <2>3. low < h
      <3> SUFFICES ASSUME h <= low PROVE FALSE
        BY <1>1
      <3>1. 2^h <= 2^low /\ 2^h \in Nat /\ 2^low \in Nat
        BY <1>1, PowerFacts
      <3> QED
        BY <2>1, <2>2, <3>1
    <2> QED
      BY <2>1, <2>3
  <1>6. PICK within \in Nat :
          /\ within = Within(x, low, fork)
          /\ within <= inner /\ (within < inner => within = h - low)
    <2>1. CASE h < fork
      <3>1. h - low \in Nat /\ h - low <= inner
        BY <1>3, <1>5, <2>1
      <3> QED
        BY <1>5, <2>1, <3>1 DEF Within
    <2>2. CASE ~(h < fork)
      BY <1>3, <1>5, <2>2 DEF Within
    <2> QED
      BY <2>1, <2>2
  <1>7. HasLength(siblings, inner + ones) /\ inner + ones \in Nat /\ within <= inner + ones
    BY <1>3, <1>4, <1>6 DEF Fits
  <1>9. PICK f : InnerRightFolds(seed, siblings, within, Up(x, low), f)
    BY <1>7, InnerRightFold
  <1>10. PICK g : BorderFolds(f[within], siblings, inner, ones, g)
    BY <1>7, BorderFold
  <1>11. PICK a : Joins(x, low, fork, within, siblings, f, g, a)
    <2>1. low <= fork /\ within <= fork - low
      BY <1>1, <1>3, <1>6
    <2>2. Borders(x, low, fork, siblings, g)
      BY <1>3, <1>4, <1>10 DEF Borders, BorderFolds
    <2>3. g[0] = f[within]
      BY <1>10 DEF BorderFolds
    <2> QED
      BY <2>1, <2>2, <2>3, Joined
  <1>12. ASSUME NEW l \in low .. high - 1
         PROVE  /\ Up(x, l) % 2 = 1
                     => a[l + 1] = hash_children(SiblingAt(x, low, fork, siblings)[l], a[l])
                /\ Up(x, l) % 2 = 0 => a[l + 1] = a[l]
    <2>1. l \in Nat
      BY <1>1
    <2>2. CASE l < fork
      <3>1. PICK k \in 0 .. inner - 1 : k = l - low /\ low + k = l
        <4>1. l - low \in 0 .. inner - 1 /\ low + (l - low) = l
          BY <1>1, <1>3, <2>2
        <4> QED
          BY <4>1
      <3>2. l \in low .. fork - 1
        BY <1>1, <2>2
      <3>3. CASE k < within
        <4>1. a[l] = f[k] /\ a[l + 1] = f[k + 1]
          BY <1>11, <3>1, <3>2, <3>3 DEF Joins
        <4>2. BitAt(Up(x, low), k) = Up(x, l) % 2
          BY <3>1, BitFacts
        <4>3. SiblingAt(x, low, fork, siblings)[l] = siblings[k + 1]
          <5>1. l \in low .. high - 1
            OBVIOUS
          <5> QED
            BY <1>2, <2>2, <3>1, <5>1 DEF SiblingAt
        <4>4. k \in 0 .. within - 1
          BY <3>3
        <4> QED
          BY <1>9, <4>1, <4>2, <4>3, <4>4 DEF InnerRightFolds
      <3>4. CASE within <= k
        <4>1. a[l + 1] = a[l]
          BY <1>11, <3>1, <3>2, <3>4 DEF Joins
        <4>2. h <= l
          BY <1>5, <1>6, <3>1, <3>4
        <4>3. Up(x, l) = 0
          <5>1. 2^h <= 2^l /\ 2^h \in Nat /\ 2^l \in Nat
            BY <2>1, <4>2, PowerFacts
          <5>2. x < 2^l
            BY <1>5, <5>1
          <5> QED
            BY <2>1, <5>2, UpOrder
        <4> QED
          BY <4>1, <4>3
      <3> QED
        BY <3>3, <3>4
    <2>3. CASE ~(l < fork)
      <3>1. l \in fork .. high - 1
        BY <1>1, <2>3
      <3> QED
        BY <1>2, <1>11, <3>1 DEF Joins
    <2> QED
      BY <2>2, <2>3
  <1>13. Climbs(A, x, low, high, a, SiblingAt(x, low, fork, siblings))
    <2>1. ASSUME NEW l \in low .. high - 1 PROVE ~(Block(x, l) + 2^l < Len(A))
      <3>1. l \in Nat
        BY <1>1
      <3>2. n1 <= Block(x, l) + 2^l /\ Block(x, l) \in Nat /\ 2^l \in Nat
        BY <1>1, <3>1, UpFacts, PowerFacts
      <3> QED
        BY <3>2
    <2> QED
      BY <1>12, <2>1 DEF Climbs
  <1> QED
    BY <1>2, <1>3, <1>4, <1>6, <1>9, <1>10, <1>11, <1>13
       DEF Joins, InnerRightFolds, BorderFolds, FirstRoot

(* The root of a list that is not empty.                                   *)
LEMMA RootOfFacts ==
    ASSUME NEW E, NEW n \in Nat, HasLength(E, n), n >= 1
    PROVE  RootOf(E) = RootAt(E, 1, n)
  <1>1. E # << >>
    <2> SUFFICES ASSUME E = << >> PROVE FALSE
      OBVIOUS
    <2>1. Len(<< >>) = 0
      OBVIOUS
    <2> QED
      BY <2>1 DEF HasLength
  <1> QED
    BY <1>1 DEF RootOf, HasLength

(***************************************************************************)
(* What verify_consistency_proof accepts: whatever nodes the proof is made *)
(* of, and whatever the two lists hold, if it returns for their roots then *)
(* the smaller list is the beginning of the larger one.                    *)
(***************************************************************************)
THEOREM ProofSound ==
    ASSUME NEW A, NEW B, NEW n1 \in Nat, NEW n2 \in Nat, HasLength(A, n1), HasLength(B, n2),
           NEW S, NEW proof \in Seq(S),
           ProofVerifies(n1, n2, proof, RootOf(A), RootOf(B))
    PROVE  n1 <= n2 /\ \A i \in 1 .. n1 : A[i] = B[i]
  <1>1. 1 <= n1 /\ n1 <= n2
    BY DEF ProofVerifies
  <1>2. RootOf(A) = RootAt(A, 1, n1) /\ RootOf(B) = RootAt(B, 1, n2)
    <2>1. n1 >= 1 /\ n2 >= 1
      BY <1>1
    <2> QED
      BY <2>1, RootOfFacts
  <1>3. Len(A) \in Nat /\ Len(B) \in Nat /\ n1 <= Len(A) /\ Len(A) <= n1
        /\ n2 <= Len(B) /\ Len(B) <= n2
    BY DEF HasLength
  <1>4. CASE n1 = n2
    <2>1. RootAt(A, 1, n1) = RootAt(B, 1, n1)
      BY <1>2, <1>4 DEF ProofVerifies
    <2>2. 1 + n1 - 1 <= Len(A) /\ 1 + n1 - 1 <= Len(B) /\ 1 + n1 - 1 = n1
      BY <1>3, <1>4
    <2>3. \A i \in 1 .. 1 + n1 - 1 : A[i] = B[i]
      BY <1>1, <1>3, <2>1, <2>2, RootInjective
    <2> QED
      BY <1>1, <2>2, <2>3
  <1>5. CASE n1 < n2
    <2>1. PICK x \in Nat : x = n1 - 1
      BY <1>1
    <2>2. PICK low, fork : low = TrailingZeros(n1) /\ fork = ForkLevel(n1, n2)
      OBVIOUS
    <2>3. Levels(n1, n2, x, low, fork)
      <3>1. Levels(n1, n2, n1 - 1, TrailingZeros(n1), ForkLevel(n1, n2))
        BY <1>1, <1>5, LevelFacts
      <3> QED
        BY <2>1, <2>2, <3>1
    <2>4. low \in Nat /\ fork \in Nat /\ low < fork
      BY <2>3 DEF Levels
    <2>5. PICK high \in Nat : high = TopLevel(x, fork) /\ low < high
      <3>1. TopLevel(x, fork) \in Nat /\ fork < TopLevel(x, fork)
        BY <2>3 DEF Levels
      <3> QED
        BY <2>4, <3>1
    <2>6. /\ Block(x, low) + 2^low = n1 /\ n1 <= 2^high /\ n2 <= 2^high
          /\ \A l \in Nat : n1 <= Block(x, l) + 2^l
      BY <2>3, <2>5 DEF Levels
    <2> DEFINE perfect == n1 = 2^low
               seed == IF perfect THEN RootOf(A) ELSE proof[1]
               siblings == IF perfect THEN proof ELSE Tail(proof)
               sib == SiblingAt(x, low, fork, siblings)
    <2>7. /\ proof # << >>
          /\ Len(proof) = (IF perfect THEN 0 ELSE 1) + fork - low + BitCount(Up(x, fork))
          /\ perfect \/ Rebuilds(n1, n2, seed, siblings, RootOf(A))
          /\ RootOf(B) = SecondRoot(x, low, fork, seed, siblings)
      BY <1>5, <2>1, <2>2 DEF ProofVerifies, ProofLength, SecondRoot, Up
    <2>8. siblings \in Seq(S) /\ Fits(x, low, fork, siblings)
      <3>1. PICK c \in Nat : c = BitCount(Up(x, fork))
        <4>1. Up(x, fork) \in Nat
          BY <2>3 DEF Levels
        <4>2. Up(x, fork) + 1 \in Nat
          BY <4>1
        <4> QED
          BY <4>1, <4>2, OnesFacts
      <3>2. PICK i \in Nat : i = fork - low
        <4>1. fork - low \in Nat
          BY <2>4
        <4> QED
          BY <4>1
      <3>3. CASE perfect
        <4>1. Len(proof) = i + c
          BY <2>4, <2>7, <3>1, <3>2, <3>3
        <4> QED
          BY <3>1, <3>2, <3>3, <4>1 DEF Fits, HasLength
      <3>4. CASE ~perfect
        <4>1. Len(proof) = 1 + (i + c)
          BY <2>4, <2>7, <3>1, <3>2, <3>4
        <4>2. Tail(proof) \in Seq(S) /\ Len(Tail(proof)) = i + c
          BY <2>7, <4>1
        <4> QED
          BY <3>1, <3>2, <3>4, <4>2 DEF Fits, HasLength
      <3> QED
        BY <3>3, <3>4
    <2>9. PICK b : /\ b[low] = seed /\ b[high] = RootOf(B)
                   /\ Climbs(B, x, low, high, b, sib)
      <3>1. sib = SiblingAt(x, low, fork, siblings)
        OBVIOUS
      <3> HIDE DEF seed, siblings, sib
      <3>2. \E b : /\ b[low] = seed
                   /\ b[TopLevel(x, fork)] = SecondRoot(x, low, fork, seed, siblings)
                   /\ Climbs(B, x, low, TopLevel(x, fork), b, SiblingAt(x, low, fork, siblings))
        BY <1>3, <2>3, <2>4, <2>8, SecondClimb
      <3> QED
        BY <2>5, <2>7, <3>1, <3>2
    <2>10. PICK a : /\ a[low] = seed /\ a[high] = RootOf(A)
                    /\ Climbs(A, x, low, high, a, sib)
      <3>1. CASE ~perfect
        <4>1. Rebuilds(n1, n2, seed, siblings, RootOf(A))
          BY <2>7, <3>1
        <4> HIDE DEF seed, siblings
        <4>2. RootOf(A) = FirstRoot(x, low, fork, seed, siblings)
          BY <2>1, <2>2, <4>1 DEF Rebuilds, FirstRoot, Within, Up
        <4>3. n1 # 2^low
          BY <3>1
        <4>4. \E a : /\ a[low] = seed
                     /\ a[TopLevel(x, fork)] = FirstRoot(x, low, fork, seed, siblings)
                     /\ Climbs(A, x, low, TopLevel(x, fork), a, SiblingAt(x, low, fork, siblings))
          BY <1>3, <2>3, <2>4, <2>8, <4>3, FirstClimb
        <4> QED
          BY <2>5, <4>2, <4>4
      <3>2. CASE perfect
        <4> DEFINE a == [l \in low .. high |-> RootOf(A)]
        <4>1. seed = RootOf(A)
          BY <3>2
        <4>2. low \in low .. high /\ high \in low .. high
          BY <2>4, <2>5
        <4>3. a[low] = seed /\ a[high] = RootOf(A)
          BY <4>1, <4>2
        <4>4. ASSUME NEW l \in low .. high - 1
              PROVE  Up(x, l) % 2 = 0 /\ Len(A) <= Block(x, l) + 2^l /\ a[l + 1] = a[l]
          <5>1. l \in Nat /\ low <= l /\ l \in low .. high /\ l + 1 \in low .. high
            BY <2>4, <2>5
          <5>2. a[l + 1] = a[l]
            BY <5>1
          <5>3. Up(x, l) = 0
            <6>1. 2^low <= 2^l /\ 2^low \in Nat /\ 2^l \in Nat
              BY <2>4, <5>1, PowerFacts
            <6>2. x < 2^l
              BY <2>1, <3>2, <6>1
            <6> QED
              BY <5>1, <6>2, UpOrder
          <5>4. Len(A) <= Block(x, l) + 2^l
            <6>1. n1 <= Block(x, l) + 2^l
              BY <2>6, <5>1
            <6> QED
              BY <6>1 DEF HasLength
          <5> QED
            BY <5>2, <5>3, <5>4
        <4>5. ASSUME NEW l \in low .. high - 1 PROVE ~(Block(x, l) + 2^l < Len(A))
          <5>1. l \in Nat
            BY <2>4
          <5>2. PICK e \in Nat : e = Block(x, l) + 2^l
            <6>1. Block(x, l) \in Nat /\ 2^l \in Nat
              BY <5>1, UpFacts, PowerFacts
            <6> QED
              BY <6>1
          <5> QED
            BY <1>3, <4>4, <5>2
        <4> HIDE DEF a
        <4>6. Climbs(A, x, low, high, a, sib)
          BY <4>4, <4>5 DEF Climbs
        <4> QED
          BY <4>3, <4>6
      <3> QED
        BY <3>1, <3>2
    <2> HIDE DEF seed, siblings, sib, perfect
    <2>11. a[high] = OnPath(A, x, high) /\ b[high] = OnPath(B, x, high)
      <3>1. x < Len(A) /\ x < Len(B) /\ Len(A) <= 2^high /\ Len(B) <= 2^high
        <4>1. Len(A) = n1 /\ Len(B) = n2
          BY DEF HasLength
        <4> QED
          BY <1>1, <1>5, <2>1, <2>6, <4>1
      <3>2. OnPath(A, x, high) = RootAt(A, 1, n1) /\ OnPath(B, x, high) = RootAt(B, 1, n2)
        BY <1>3, <3>1, PathTop DEF HasLength
      <3> QED
        BY <1>2, <2>9, <2>10, <3>2
    <2>12. /\ x < Len(A) /\ Len(A) <= x + 1 /\ x < Len(B) /\ low <= high
           /\ Block(x, low) + 2^low = x + 1 /\ x < 2^high
      <3>1. PICK w \in Nat : w = 2^high
        BY PowerFacts
      <3>2. x < w
        BY <1>1, <2>1, <2>6, <3>1
      <3>3. n1 = x + 1
        BY <1>1, <2>1
      <3>4. x < Len(A) /\ Len(A) <= x + 1 /\ x < Len(B)
        <4>1. Len(A) = n1 /\ Len(B) = n2
          BY DEF HasLength
        <4> QED
          BY <1>5, <3>3, <4>1
      <3>5. low <= high
        BY <2>4, <2>5
      <3> QED
        BY <2>6, <3>1, <3>2, <3>3, <3>4, <3>5
    <2>13. a[low] = b[low]
      BY <2>9, <2>10
    <2>14. \A i \in 1 .. Len(A) : A[i] = B[i]
      BY <1>3, <2>4, <2>9, <2>10, <2>11, <2>12, <2>13, Agreement
    <2> QED
      BY <1>1, <2>14 DEF HasLength
  <1> QED
    BY <1>1, <1>4, <1>5

-----------------------------------------------------------------------------
(* The proof that is sent, by the recursion of the code.                   *)

PartsOf(n) == {part \in Spans(n) \X (1 .. n) \X BOOLEAN : part[2] <= part[1][2]}

Split(part) == DownToPowerOfTwo(part[1][2])
LeftPart(part) == << <<part[1][1], Split(part)>>, part[2], part[3]>>
RightPart(part) ==
    << <<part[1][1] + Split(part), part[1][2] - Split(part)>>, part[2] - Split(part), FALSE>>
LeftRoot(E, part) == RootAt(E, part[1][1], Split(part))
RightRoot(E, part) == RootAt(E, part[1][1] + Split(part), part[1][2] - Split(part))

ProofStep(E, g, part) ==
    IF part[2] = part[1][2]
      THEN IF part[3] THEN << >> ELSE <<RootAt(E, part[1][1], part[2])>>
    ELSE IF part[2] <= Split(part)
      THEN Append(g[LeftPart(part)], RightRoot(E, part))
    ELSE Append(g[RightPart(part)], LeftRoot(E, part))

Proofs(E, n) == CHOOSE g : g = [part \in PartsOf(n) |-> ProofStep(E, g, part)]

(* The calls _consistency_proof makes are for shorter spans.               *)
LEMMA PartFacts ==
    ASSUME NEW n \in Nat, NEW part \in PartsOf(n), part[2] # part[1][2]
    PROVE  /\ part[2] <= Split(part)
                => LeftPart(part) \in PartsOf(n) /\ LeftPart(part)[1][2] < part[1][2]
           /\ ~(part[2] <= Split(part))
                => RightPart(part) \in PartsOf(n) /\ RightPart(part)[1][2] < part[1][2]
  <1>1. PICK span \in Spans(n), m \in 1 .. n, have \in BOOLEAN :
          part = <<span, m, have>> /\ m <= span[2]
    BY DEF PartsOf
  <1>2. PICK at \in 1 .. n, size \in 1 .. n : span = <<at, size>> /\ at + size - 1 <= n
    BY DEF Spans
  <1>3. m < size /\ size >= 2
    BY <1>1, <1>2
  <1>4. PICK split \in 1 .. size - 1 : split = DownToPowerOfTwo(size)
    <2>1. size \in Nat
      OBVIOUS
    <2> QED
      BY <1>3, <2>1, SplitFacts
  <1>5. Split(part) = split
    BY <1>1, <1>2, <1>4 DEF Split
  <1>6. CASE m <= split
    <2>1. <<at, split>> \in Spans(n)
      BY <1>2, <1>4 DEF Spans
    <2>2. << <<at, split>>, m, have>> \in PartsOf(n)
      BY <1>6, <2>1 DEF PartsOf
    <2>3. LeftPart(part) = << <<at, split>>, m, have>>
      BY <1>1, <1>2, <1>5 DEF LeftPart
    <2> QED
      BY <1>1, <1>2, <1>4, <1>5, <1>6, <2>2, <2>3
  <1>7. CASE ~(m <= split)
    <2>1. <<at + split, size - split>> \in Spans(n)
      BY <1>2, <1>4 DEF Spans
    <2>2. m - split \in 1 .. n /\ m - split <= size - split
      BY <1>3, <1>4, <1>7
    <2>3. << <<at + split, size - split>>, m - split, FALSE>> \in PartsOf(n)
      BY <2>1, <2>2 DEF PartsOf
    <2>4. RightPart(part) = << <<at + split, size - split>>, m - split, FALSE>>
      BY <1>1, <1>2, <1>5 DEF RightPart
    <2>5. RightPart(part)[1][2] = size - split /\ size - split < size
      BY <1>4, <2>4
    <2>6. part[1][2] = size /\ part[2] = m
      BY <1>1, <1>2
    <2> QED
      BY <1>5, <1>7, <2>3, <2>4, <2>5, <2>6
  <1> QED
    BY <1>6, <1>7

(* So its recursion has a solution.                                        *)
LEMMA ProofsExist ==
    ASSUME NEW E, NEW n \in Nat
    PROVE  Proofs(E, n) = [part \in PartsOf(n) |-> ProofStep(E, Proofs(E, n), part)]
  <1> DEFINE Short(k) == {part \in PartsOf(n) : part[1][2] <= k}
             Solves(g, k) == g = [part \in Short(k) |-> ProofStep(E, g, part)]
             bad == {k \in Nat : ~\E g : Solves(g, k)}
  <1>1. \A part \in PartsOf(n) : part[1][2] \in 1 .. n
    BY DEF PartsOf, Spans
  <1>2. ASSUME NEW k \in Nat, NEW g, Solves(g, k) PROVE \E f : Solves(f, k + 1)
    <2> DEFINE f == [part \in Short(k + 1) |-> ProofStep(E, g, part)]
    <2>1. \A part \in Short(k) : part \in Short(k + 1) /\ f[part] = g[part]
      <3> TAKE part \in Short(k)
      <3>1. part \in Short(k + 1)
        BY <1>1
      <3>2. g[part] = ProofStep(E, g, part)
        BY <1>2
      <3> QED
        BY <3>1, <3>2
    <2>2. ASSUME NEW part \in Short(k + 1) PROVE ProofStep(E, g, part) = ProofStep(E, f, part)
      <3>1. CASE part[2] = part[1][2]
        BY <3>1 DEF ProofStep
      <3>2. CASE part[2] # part[1][2] /\ part[2] <= Split(part)
        <4>1. LeftPart(part) \in PartsOf(n) /\ LeftPart(part)[1][2] < part[1][2]
          BY <3>2, PartFacts
        <4>2. LeftPart(part) \in Short(k)
          BY <1>1, <4>1
        <4> HIDE DEF f, Short
        <4>3. g[LeftPart(part)] = f[LeftPart(part)]
          BY <2>1, <4>2
        <4> QED
          BY <3>2, <4>3 DEF ProofStep
      <3>3. CASE part[2] # part[1][2] /\ ~(part[2] <= Split(part))
        <4>1. RightPart(part) \in PartsOf(n) /\ RightPart(part)[1][2] < part[1][2]
          BY <3>3, PartFacts
        <4>2. RightPart(part) \in Short(k)
          BY <1>1, <4>1
        <4> HIDE DEF f, Short
        <4>3. g[RightPart(part)] = f[RightPart(part)]
          BY <2>1, <4>2
        <4> QED
          BY <3>3, <4>3 DEF ProofStep
      <3> QED
        BY <3>1, <3>2, <3>3
    <2>3. f = [part \in Short(k + 1) |-> ProofStep(E, f, part)]
      <3> HIDE DEF Short
      <3>1. [part \in Short(k + 1) |-> ProofStep(E, g, part)]
              = [part \in Short(k + 1) |-> ProofStep(E, f, part)]
        BY <2>2
      <3> QED
        BY <3>1
    <2> QED
      BY <2>3
  <1>3. \E g : Solves(g, 0)
    <2>1. Short(0) = {}
      BY <1>1
    <2> HIDE DEF Short
    <2> DEFINE g == [part \in Short(0) |-> 0]
    <2>2. g = [part \in Short(0) |-> ProofStep(E, g, part)]
      BY <2>1
    <2> QED
      BY <2>2
  <1>4. bad = {}
    <2> SUFFICES ASSUME bad # {} PROVE FALSE
      OBVIOUS
    <2>1. PICK k \in bad : \A m \in bad : k <= m
      <3>1. bad \subseteq Nat
        OBVIOUS
      <3> HIDE DEF bad
      <3> QED
        BY <3>1, LeastMember
    <2>2. k \in Nat /\ ~\E g : Solves(g, k)
      OBVIOUS
    <2> HIDE DEF Solves
    <2>3. k # 0
      BY <1>3, <2>2
    <2>4. PICK m \in Nat : k = m + 1
      <3>1. k - 1 \in Nat /\ k = (k - 1) + 1
        BY <2>2, <2>3
      <3> QED
        BY <3>1
    <2>5. m \notin bad
      BY <2>1, <2>4
    <2>6. PICK g : Solves(g, m)
      BY <2>5
    <2> QED
      BY <1>2, <2>2, <2>4, <2>6
  <1>5. PICK g : Solves(g, n)
    BY <1>4
  <1>6. Short(n) = PartsOf(n)
    BY <1>1
  <1> HIDE DEF Short
  <1>7. g = [part \in PartsOf(n) |-> ProofStep(E, g, part)]
    BY <1>5, <1>6
  <1> QED
    BY <1>7 DEF Proofs

RootsIn(E, n) == {RootAt(E, span[1], span[2]) : span \in Spans(n)}

(* A proof is a sequence of roots of spans.                                *)
LEMMA ProofsType ==
    ASSUME NEW E, NEW n \in Nat
    PROVE  \A part \in PartsOf(n) : Proofs(E, n)[part] \in Seq(RootsIn(E, n))
  <1> DEFINE g == Proofs(E, n)
             U == RootsIn(E, n)
             bad == {k \in Nat : \E part \in PartsOf(n) : part[1][2] = k /\ g[part] \notin Seq(U)}
  <1>1. \A part \in PartsOf(n) : part[1] \in Spans(n) /\ part[1][2] \in 1 .. n
    BY DEF PartsOf, Spans
  <1>2. \A span \in Spans(n) : RootAt(E, span[1], span[2]) \in U
    BY DEF RootsIn
  <1>3. \A part \in PartsOf(n) : g[part] = ProofStep(E, g, part)
    BY ProofsExist
  <1> HIDE DEF g, U
  <1>4. bad = {}
    <2> SUFFICES ASSUME bad # {} PROVE FALSE
      OBVIOUS
    <2>1. PICK k \in bad : \A m \in bad : k <= m
      <3>1. bad \subseteq Nat
        OBVIOUS
      <3> HIDE DEF bad
      <3> QED
        BY <3>1, LeastMember
    <2>2. PICK part \in PartsOf(n) : part[1][2] = k /\ g[part] \notin Seq(U)
      OBVIOUS
    <2>3. \A q \in PartsOf(n) : q[1][2] < part[1][2] => g[q] \in Seq(U)
      <3> SUFFICES ASSUME NEW q \in PartsOf(n), q[1][2] < part[1][2] PROVE g[q] \in Seq(U)
        OBVIOUS
      <3>1. q[1][2] \in Nat /\ k \in Nat
        BY <1>1
      <3>2. q[1][2] \notin bad
        <4> HIDE DEF bad
        <4> QED
          BY <2>1, <2>2, <3>1
      <3> QED
        BY <3>1, <3>2
    <2> HIDE DEF bad
    <2>4. g[part] = ProofStep(E, g, part)
      BY <1>3
    <2>5. CASE part[2] = part[1][2]
      <3>1. RootAt(E, part[1][1], part[2]) \in U
        BY <1>1, <1>2, <2>5
      <3> QED
        BY <2>2, <2>4, <2>5, <3>1 DEF ProofStep
    <2>6. CASE part[2] # part[1][2] /\ part[2] <= Split(part)
      <3>1. LeftPart(part) \in PartsOf(n) /\ LeftPart(part)[1][2] < part[1][2]
        BY <2>6, PartFacts
      <3>2. RightRoot(E, part) \in U
        <4>1. part[1][2] # 1
          BY <2>6 DEF PartsOf, Spans
        <4>2. <<part[1][1] + Split(part), part[1][2] - Split(part)>> \in Spans(n)
          BY <1>1, <4>1, SpanFacts DEF Split
        <4> QED
          BY <1>2, <4>2 DEF RightRoot
      <3>3. g[LeftPart(part)] \in Seq(U)
        BY <2>3, <3>1
      <3>4. g[part] = Append(g[LeftPart(part)], RightRoot(E, part))
        BY <2>4, <2>6 DEF ProofStep
      <3> QED
        BY <2>2, <3>2, <3>3, <3>4
    <2>7. CASE part[2] # part[1][2] /\ ~(part[2] <= Split(part))
      <3>1. RightPart(part) \in PartsOf(n) /\ RightPart(part)[1][2] < part[1][2]
        BY <2>7, PartFacts
      <3>2. LeftRoot(E, part) \in U
        <4>1. part[1][2] # 1
          BY <2>7 DEF PartsOf, Spans
        <4>2. <<part[1][1], Split(part)>> \in Spans(n)
          BY <1>1, <4>1, SpanFacts DEF Split
        <4> QED
          BY <1>2, <4>2 DEF LeftRoot
      <3>3. g[RightPart(part)] \in Seq(U)
        BY <2>3, <3>1
      <3>4. g[part] = Append(g[RightPart(part)], LeftRoot(E, part))
        BY <2>4, <2>7 DEF ProofStep
      <3> QED
        BY <2>2, <3>2, <3>3, <3>4
    <2> QED
      BY <2>5, <2>6, <2>7
  <1>5. \A part \in PartsOf(n) : g[part] \in Seq(U)
    BY <1>1, <1>4
  <1> QED
    BY <1>5 DEF g, U

(* And so is what compute_consistency_proof returns.                       *)
LEMMA ProofForm ==
    ASSUME NEW E, NEW n \in Nat, NEW m \in 1 .. n
    PROVE  /\ << <<1, n>>, m, TRUE>> \in PartsOf(n)
           /\ ConsistencyProof(E, m, n) = Proofs(E, n)[<< <<1, n>>, m, TRUE>>]
           /\ ConsistencyProof(E, m, n) \in Seq(RootsIn(E, n))
  <1>1. << <<1, n>>, m, TRUE>> \in PartsOf(n)
    <2>1. 1 \in 1 .. n /\ n \in 1 .. n /\ 1 + n - 1 <= n /\ m <= n
      OBVIOUS
    <2>2. <<1, n>> \in Spans(n)
      BY <2>1 DEF Spans
    <2> QED
      BY <2>1, <2>2 DEF PartsOf
  <1>2. ConsistencyProof(E, m, n) = Proofs(E, n)[<< <<1, n>>, m, TRUE>>]
    BY DEF ConsistencyProof, Proofs, PartsOf, ProofStep, Split, LeftPart, RightPart,
           LeftRoot, RightRoot
  <1> QED
    BY <1>1, <1>2, ProofsType

-----------------------------------------------------------------------------
(* The proof that is sent is what the verifier needs.                      *)

RightOf(E, x, l) == RootAt(E, Block(x, l) + 2^l + 1, Part(E, x, l + 1) - 2^l)

(* The recursion of the proof goes down the path of the last old entry.    *)
PathPart(E, x, l) ==
    << <<Block(x, l) + 1, Part(E, x, l)>>, x + 1 - Block(x, l), Block(x, l) = 0>>

PathProof(E, x, l) == Proofs(E, Len(E))[PathPart(E, x, l)]

(* The span of the path at a level is one the recursion can get to.        *)
LEMMA PathPartFacts ==
    ASSUME NEW E, NEW n \in Nat, HasLength(E, n), NEW x \in Nat, x < n, NEW l \in Nat
    PROVE  /\ Part(E, x, l) \in 1 .. n
           /\ Part(E, x, l) = 2^l <=> Block(x, l) + 2^l <= n
           /\ Block(x, l) + 2^l > n => Part(E, x, l) = n - Block(x, l)
           /\ PathPart(E, x, l) \in PartsOf(n)
  <1>1. PICK b \in Nat, w \in Nat : b = Block(x, l) /\ w = 2^l /\ b <= x /\ x < b + w /\ w >= 1
    <2>1. Block(x, l) \in Nat /\ 2^l \in Nat /\ Block(x, l) <= x /\ x < Block(x, l) + 2^l
      BY UpFacts, PowerFacts
    <2> QED
      BY <2>1
  <1>2. PICK p \in 1 .. n : p = Part(E, x, l) /\ p = IF n - b < w THEN n - b ELSE w
    BY <1>1 DEF Part, HasLength
  <1>3. p = w <=> b + w <= n
    BY <1>1, <1>2
  <1>4. b + w > n => p = n - b
    BY <1>1, <1>2
  <1>5. PICK m \in 1 .. p : m = x + 1 - b
    BY <1>1, <1>2
  <1>6. <<b + 1, p>> \in Spans(n)
    BY <1>1, <1>2 DEF Spans
  <1>7. << <<b + 1, p>>, m, b = 0>> \in PartsOf(n)
    <2>1. PICK have \in BOOLEAN : have = (b = 0)
      OBVIOUS
    <2>2. m \in 1 .. n /\ m <= p
      BY <1>5
    <2>3. << <<b + 1, p>>, m, have>> \in PartsOf(n)
      BY <1>6, <2>2 DEF PartsOf
    <2> QED
      BY <2>1, <2>3
  <1>8. PathPart(E, x, l) = << <<b + 1, p>>, m, b = 0>>
    BY <1>1, <1>2, <1>5 DEF PathPart
  <1> QED
    BY <1>1, <1>2, <1>3, <1>4, <1>7, <1>8

(* One level up, the proof of the level below is followed by the sibling.  *)
LEMMA ProofStepUp ==
    ASSUME NEW E, NEW n \in Nat, HasLength(E, n), NEW x \in Nat, x + 1 < n, NEW l \in Nat,
           Block(x, l + 1) + 2^(l + 1) # x + 1
    PROVE  /\ Up(x, l) % 2 = 1
                => PathProof(E, x, l + 1) = Append(PathProof(E, x, l), LeftOf(E, x, l))
           /\ Up(x, l) % 2 = 0 /\ Block(x, l) + 2^l < n
                => PathProof(E, x, l + 1) = Append(PathProof(E, x, l), RightOf(E, x, l))
           /\ Up(x, l) % 2 = 0 /\ n <= Block(x, l) + 2^l
                => PathProof(E, x, l + 1) = PathProof(E, x, l)
  <1>1. PICK b \in Nat, w \in Nat :
            b = Block(x, l) /\ w = 2^l /\ b <= x /\ x < b + w /\ w >= 1 /\ 2^(l + 1) = 2 * w
    <2>1. Block(x, l) \in Nat /\ 2^l \in Nat /\ Block(x, l) <= x /\ x < Block(x, l) + 2^l
          /\ 2^(l + 1) = 2 * 2^l
      BY UpFacts, PowerFacts
    <2> QED
      BY <2>1
  <1>2. PICK c \in Nat : /\ c = Block(x, l + 1) /\ c <= x /\ x < c + 2 * w
                         /\ Up(x, l) % 2 = 0 => c = b
                         /\ Up(x, l) % 2 = 1 => c + w = b
    <2>1. l + 1 \in Nat
      OBVIOUS
    <2>2. Block(x, l + 1) \in Nat /\ Block(x, l + 1) <= x /\ x < Block(x, l + 1) + 2^(l + 1)
      BY <2>1, UpFacts
    <2>3. /\ Up(x, l) % 2 = 0 => Block(x, l + 1) = Block(x, l)
          /\ Up(x, l) % 2 = 1 => Block(x, l + 1) + 2^l = Block(x, l)
      BY UpFacts
    <2> QED
      BY <1>1, <2>2, <2>3
  <1>3. x < n /\ l + 1 \in Nat
    OBVIOUS
  <1>4. PICK p \in 1 .. n : /\ p = Part(E, x, l) /\ (p = w <=> b + w <= n)
                            /\ (b + w > n => p = n - b)
    BY <1>1, <1>3, PathPartFacts
  <1>5. PICK q \in 1 .. n : /\ q = Part(E, x, l + 1) /\ (q = 2 * w <=> c + 2 * w <= n)
                            /\ (c + 2 * w > n => q = n - c)
    BY <1>1, <1>2, <1>3, PathPartFacts
  <1>6. PathPart(E, x, l + 1) \in PartsOf(n)
    BY <1>3, PathPartFacts
  <1>7. PICK m \in Nat : m = x + 1 - c
    BY <1>2
  <1>8. PathPart(E, x, l + 1) = << <<c + 1, q>>, m, c = 0>>
    BY <1>2, <1>5, <1>7 DEF PathPart
  <1>19. PathPart(E, x, l + 1)[1][2] = q /\ PathPart(E, x, l + 1)[2] = m
    BY <1>8
  <1>9. PathPart(E, x, l) = << <<b + 1, p>>, x + 1 - b, b = 0>>
    BY <1>1, <1>4 DEF PathPart
  <1>10. m < q /\ m >= 1
    <2>1. c + 2 * w # x + 1
      BY <1>1, <1>2
    <2> QED
      BY <1>2, <1>5, <1>7, <2>1
  <1>11. \A part \in PartsOf(n) : Proofs(E, n)[part] = ProofStep(E, Proofs(E, n), part)
    BY ProofsExist
  <1>12. /\ PathProof(E, x, l) = Proofs(E, n)[PathPart(E, x, l)]
         /\ PathProof(E, x, l + 1) = ProofStep(E, Proofs(E, n), PathPart(E, x, l + 1))
    BY <1>6, <1>11 DEF PathProof, HasLength
  <1>13. ASSUME w < q PROVE Split(PathPart(E, x, l + 1)) = w
    <2>1. q <= 2 * w
      BY <1>5
    <2>2. q >= 2 /\ q \in Nat
      BY <1>10
    <2>3. DownToPowerOfTwo(q) = w
      BY <1>1, <1>13, <2>1, <2>2, SplitFacts
    <2> QED
      BY <1>8, <2>3 DEF Split
  <1>14. CASE Up(x, l) % 2 = 1
    <2>1. c + w = b /\ w < q /\ ~(m <= w) /\ q - w = p /\ b # 0
      BY <1>1, <1>2, <1>4, <1>5, <1>7, <1>14
    <2>2. Split(PathPart(E, x, l + 1)) = w
      BY <1>13, <2>1
    <2>3. m - w = x + 1 - b /\ (c + 1) + w = b + 1
      BY <1>7, <2>1
    <2>4. RightPart(PathPart(E, x, l + 1)) = PathPart(E, x, l)
      <3>1. (b = 0) = FALSE
        BY <2>1
      <3>2. PathPart(E, x, l) = << <<b + 1, p>>, x + 1 - b, FALSE>>
        BY <1>9, <3>1
      <3>3. RightPart(PathPart(E, x, l + 1)) = << <<c + 1 + w, q - w>>, m - w, FALSE>>
        BY <1>8, <2>2 DEF RightPart
      <3> QED
        BY <2>1, <2>3, <3>2, <3>3
    <2>5. LeftRoot(E, PathPart(E, x, l + 1)) = LeftOf(E, x, l)
      BY <1>1, <1>2, <1>8, <2>2 DEF LeftRoot, LeftOf
    <2>6. PathProof(E, x, l + 1) = Append(PathProof(E, x, l), LeftOf(E, x, l))
      <3> DEFINE part == PathPart(E, x, l + 1)
      <3>1. part[2] # part[1][2]
        BY <1>10, <1>19
      <3>2. ~(part[2] <= Split(part))
        BY <1>19, <2>1, <2>2
      <3>3. PathProof(E, x, l + 1) = ProofStep(E, Proofs(E, n), part)
        BY <1>12
      <3> HIDE DEF part
      <3> QED
        BY <1>12, <2>4, <2>5, <3>1, <3>2, <3>3 DEF ProofStep, part
    <2> QED
      BY <1>14, <2>6
  <1>15. CASE Up(x, l) % 2 = 0 /\ b + w < n
    <2>1. c = b /\ w < q /\ m <= w /\ p = w
      BY <1>1, <1>2, <1>4, <1>5, <1>7, <1>15
    <2>2. Split(PathPart(E, x, l + 1)) = w
      BY <1>13, <2>1
    <2>3. LeftPart(PathPart(E, x, l + 1)) = PathPart(E, x, l)
      BY <1>7, <1>8, <1>9, <2>1, <2>2 DEF LeftPart
    <2>4. RightRoot(E, PathPart(E, x, l + 1)) = RightOf(E, x, l)
      <3>1. (c + 1) + w = b + w + 1
        BY <2>1
      <3> QED
        BY <1>1, <1>5, <1>8, <2>2, <3>1 DEF RightRoot, RightOf
    <2>5. PathProof(E, x, l + 1) = Append(PathProof(E, x, l), RightOf(E, x, l))
      <3> DEFINE part == PathPart(E, x, l + 1)
      <3>1. part[2] # part[1][2]
        BY <1>10, <1>19
      <3>2. (part[2] <= Split(part))
        BY <1>19, <2>1, <2>2
      <3>3. PathProof(E, x, l + 1) = ProofStep(E, Proofs(E, n), part)
        BY <1>12
      <3> HIDE DEF part
      <3> QED
        BY <1>12, <2>4, <2>3, <3>1, <3>2, <3>3 DEF ProofStep, part
    <2> QED
      BY <1>1, <1>15, <2>5
  <1>16. CASE Up(x, l) % 2 = 0 /\ n <= b + w
    <2>1. c = b /\ p = q
      BY <1>1, <1>2, <1>4, <1>5, <1>16
    <2>2. PathPart(E, x, l + 1) = PathPart(E, x, l)
      BY <1>7, <1>8, <1>9, <2>1
    <2>3. PathProof(E, x, l + 1) = PathProof(E, x, l)
      BY <2>2 DEF PathProof
    <2> QED
      BY <1>1, <1>16, <2>3
  <1>17. Up(x, l) % 2 \in {0, 1}
    BY UpFacts
  <1>18. b + w < n \/ n <= b + w
    OBVIOUS
  <1> QED
    BY <1>1, <1>14, <1>15, <1>16, <1>17, <1>18

(* What climbs from the path with the siblings of the path stays on it.    *)
LEMMA Ascent ==
    ASSUME NEW E, Len(E) \in Nat, NEW x \in Nat, x < Len(E),
           NEW low \in Nat, NEW high \in Nat, low <= high,
           NEW acc, NEW sib, Climbs(E, x, low, high, acc, sib),
           acc[low] = OnPath(E, x, low),
           \A l \in low .. high - 1 :
               /\ Up(x, l) % 2 = 1 => sib[l] = LeftOf(E, x, l)
               /\ Up(x, l) % 2 = 0 /\ Block(x, l) + 2^l < Len(E) => sib[l] = RightOf(E, x, l)
    PROVE  acc[high] = OnPath(E, x, high)
  <1> DEFINE bad == {l \in Nat : l \in low .. high /\ acc[l] # OnPath(E, x, l)}
  <1>1. bad = {}
    <2> SUFFICES ASSUME bad # {} PROVE FALSE
      OBVIOUS
    <2>1. PICK k \in bad : \A j \in bad : k <= j
      <3>1. bad \subseteq Nat
        OBVIOUS
      <3> HIDE DEF bad
      <3> QED
        BY <3>1, LeastMember
    <2>2. k \in low .. high /\ acc[k] # OnPath(E, x, k) /\ k # low
      OBVIOUS
    <2>3. PICK l \in Nat : k = l + 1 /\ l \in low .. high - 1 /\ l \in low .. high
      <3>1. k - 1 \in Nat /\ k = (k - 1) + 1 /\ k - 1 \in low .. high - 1 /\ k - 1 \in low .. high
        BY <2>2
      <3> QED
        BY <3>1
    <2>4. acc[l] = OnPath(E, x, l)
      <3>1. l \notin bad
        <4> HIDE DEF bad
        <4> QED
          BY <2>1, <2>3
      <3> QED
        BY <2>3, <3>1
    <2> HIDE DEF bad
    <2>5. /\ Up(x, l) % 2 = 1 => acc[l + 1] = hash_children(sib[l], acc[l])
          /\ Up(x, l) % 2 = 0 /\ Block(x, l) + 2^l < Len(E)
               => acc[l + 1] = hash_children(acc[l], sib[l])
          /\ Up(x, l) % 2 = 0 /\ Len(E) <= Block(x, l) + 2^l => acc[l + 1] = acc[l]
      BY <2>3 DEF Climbs
    <2>6. /\ Up(x, l) % 2 = 1
               => OnPath(E, x, l + 1) = hash_children(LeftOf(E, x, l), OnPath(E, x, l))
          /\ Up(x, l) % 2 = 0 /\ Block(x, l) + 2^l < Len(E)
               => OnPath(E, x, l + 1) = hash_children(OnPath(E, x, l), RightOf(E, x, l))
          /\ Up(x, l) % 2 = 0 /\ Len(E) <= Block(x, l) + 2^l
               => OnPath(E, x, l + 1) = OnPath(E, x, l)
      BY PathStep DEF RightOf
    <2>7. /\ Up(x, l) % 2 = 1 => sib[l] = LeftOf(E, x, l)
          /\ Up(x, l) % 2 = 0 /\ Block(x, l) + 2^l < Len(E) => sib[l] = RightOf(E, x, l)
      BY <2>3
    <2>8. Up(x, l) % 2 \in {0, 1}
      BY UpFacts
    <2>9. Block(x, l) + 2^l < Len(E) \/ Len(E) <= Block(x, l) + 2^l
      <3>1. Block(x, l) \in Nat /\ 2^l \in Nat
        BY UpFacts, PowerFacts
      <3> QED
        BY <3>1
    <2>10. acc[l + 1] = OnPath(E, x, l + 1)
      BY <2>4, <2>5, <2>6, <2>7, <2>8, <2>9
    <2> QED
      BY <2>2, <2>3, <2>10
  <1> QED
    BY <1>1

(* A sequence P that is appended to at the levels in has: after head first *)
(* ones, at the place rank says, the element s of each.                   *)
Gathers(low, high, head, has, rank, P, s) ==
    /\ rank[low] = 0 /\ Len(P[low]) = head
    /\ \A l \in low .. high - 1 :
         /\ l \in has => rank[l + 1] = rank[l] + 1 /\ P[l + 1] = Append(P[l], s[l])
         /\ l \notin has => rank[l + 1] = rank[l] /\ P[l + 1] = P[l]

Gathered(low, l, head, has, rank, P, s) ==
    /\ rank[l] \in Nat /\ Len(P[l]) = head + rank[l]
    /\ \A i \in 1 .. head : P[l][i] = P[low][i]
    /\ \A j \in low .. l - 1 : j \in has =>
         rank[j] \in Nat /\ rank[j] + 1 <= rank[l] /\ P[l][head + (rank[j] + 1)] = s[j]

(* By induction over the levels.                                           *)
LEMMA Gathering ==
    ASSUME NEW low \in Nat, NEW high \in Nat, low <= high, NEW head \in Nat,
           NEW has, NEW rank, NEW P, NEW s, NEW S,
           \A l \in low .. high : P[l] \in Seq(S),
           \A l \in low .. high : l \in has => s[l] \in S,
           Gathers(low, high, head, has, rank, P, s)
    PROVE  Gathered(low, high, head, has, rank, P, s)
  <1> DEFINE Good(l) == Gathered(low, l, head, has, rank, P, s)
             bad == {l \in Nat : l \in low .. high /\ ~Good(l)}
  <1>1. Good(low)
    BY DEF Gathers, Gathered
  <1>2. ASSUME NEW l \in low .. high - 1, Good(l) PROVE Good(l + 1)
    <2>1. l \in Nat /\ l \in low .. high /\ l + 1 \in low .. high
      OBVIOUS
    <2>2. PICK c \in Nat : c = rank[l] /\ Len(P[l]) = head + c
      BY <1>2 DEF Gathered
    <2>3. /\ \A i \in 1 .. head : P[l][i] = P[low][i]
          /\ \A j \in low .. l - 1 : j \in has =>
               rank[j] \in Nat /\ rank[j] + 1 <= c /\ P[l][head + (rank[j] + 1)] = s[j]
      BY <1>2, <2>2 DEF Gathered
    <2>4. CASE l \in has
      <3>1. rank[l + 1] = c + 1 /\ P[l + 1] = Append(P[l], s[l])
        BY <2>2, <2>4 DEF Gathers
      <3>2. P[l] \in Seq(S) /\ s[l] \in S
        BY <2>1, <2>4
      <3>3. /\ Len(P[l + 1]) = head + (c + 1)
            /\ \A i \in 1 .. head + c : P[l + 1][i] = P[l][i]
            /\ P[l + 1][head + (c + 1)] = s[l]
        <4>1. PICK t \in Seq(S) : t = P[l]
          BY <3>2
        <4>2. PICK e \in S : e = s[l]
          BY <3>2
        <4>3. PICK n \in Nat : n = head + c /\ n = Len(t)
          BY <2>2, <4>1
        <4>4. /\ Len(Append(t, e)) = n + 1
              /\ \A i \in 1 .. n : Append(t, e)[i] = t[i]
              /\ Append(t, e)[n + 1] = e
          BY <4>3, AppendProperties
        <4>5. n + 1 = head + (c + 1)
          BY <4>3
        <4>6. P[l + 1] = Append(t, e)
          BY <3>1, <4>1, <4>2
        <4> QED
          BY <4>1, <4>2, <4>3, <4>4, <4>5, <4>6
      <3>4. \A i \in 1 .. head : P[l + 1][i] = P[low][i]
        BY <2>3, <3>3
      <3>5. ASSUME NEW j \in low .. (l + 1) - 1, j \in has
            PROVE  /\ rank[j] \in Nat /\ rank[j] + 1 <= c + 1
                   /\ P[l + 1][head + (rank[j] + 1)] = s[j]
        <4>1. CASE j = l
          BY <2>2, <3>3, <4>1
        <4>2. CASE j # l
          <5>1. j \in low .. l - 1
            BY <4>2
          <5>2. PICK d \in Nat : d = rank[j] /\ d + 1 <= c /\ P[l][head + (d + 1)] = s[j]
            BY <2>3, <3>5, <5>1
          <5>3. PICK i \in 1 .. head + c : i = head + (d + 1)
            <6>1. head + (d + 1) \in 1 .. head + c
              BY <5>2
            <6> QED
              BY <6>1
          <5>4. P[l + 1][i] = s[j]
            BY <3>3, <5>2, <5>3
          <5>5. d + 1 <= c + 1
            BY <5>2
          <5> QED
            BY <5>2, <5>3, <5>4, <5>5
        <4> QED
          BY <4>1, <4>2
      <3> QED
        <4>1. c + 1 \in Nat
          OBVIOUS
        <4>2. \A j \in low .. (l + 1) - 1 : j \in has =>
                rank[j] \in Nat /\ rank[j] + 1 <= rank[l + 1]
                /\ P[l + 1][head + (rank[j] + 1)] = s[j]
          BY <3>1, <3>5
        <4>3. rank[l + 1] \in Nat /\ Len(P[l + 1]) = head + rank[l + 1]
          BY <3>1, <3>3, <4>1
        <4> QED
          BY <3>4, <4>2, <4>3 DEF Gathered
    <2>5. CASE l \notin has
      <3>1. rank[l + 1] = c /\ P[l + 1] = P[l]
        BY <2>2, <2>5 DEF Gathers
      <3>2. \A j \in low .. (l + 1) - 1 : j \in has => j \in low .. l - 1
        BY <2>5
      <3> QED
        BY <2>2, <2>3, <3>1, <3>2 DEF Gathered
    <2> QED
      BY <2>4, <2>5
  <1> HIDE DEF Good
  <1>3. bad = {}
    <2> SUFFICES ASSUME bad # {} PROVE FALSE
      OBVIOUS
    <2>1. PICK k \in bad : \A j \in bad : k <= j
      <3>1. bad \subseteq Nat
        OBVIOUS
      <3> HIDE DEF bad
      <3> QED
        BY <3>1, LeastMember
    <2>2. k \in low .. high /\ ~Good(k) /\ k # low
      BY <1>1
    <2>3. PICK l \in Nat : k = l + 1 /\ l \in low .. high - 1 /\ l \in low .. high
      <3>1. k - 1 \in Nat /\ k = (k - 1) + 1 /\ k - 1 \in low .. high - 1 /\ k - 1 \in low .. high
        BY <2>2
      <3> QED
        BY <3>1
    <2>4. Good(l)
      <3>1. l \notin bad
        <4> HIDE DEF bad
        <4> QED
          BY <2>1, <2>3
      <3> QED
        BY <2>3, <3>1
    <2> QED
      BY <1>2, <2>2, <2>3, <2>4
  <1> QED
    BY <1>3 DEF Good

(* The levels that have a sibling, and how many of them lie below.         *)
Sided(x, fork) == {l \in Nat : l < fork \/ Up(x, l) % 2 = 1}

Rank(x, low, fork) ==
    [l \in low .. TopLevel(x, fork) |->
        IF l <= fork THEN l - low ELSE (fork - low) + Ones(Up(x, fork), l - fork)]

(* The rank counts the levels with a sibling.                              *)
LEMMA RankFacts ==
    ASSUME NEW x \in Nat, NEW low \in Nat, NEW fork \in Nat, low < fork
    PROVE  /\ Rank(x, low, fork)[low] = 0
           /\ Rank(x, low, fork)[TopLevel(x, fork)] = (fork - low) + BitCount(Up(x, fork))
           /\ \A l \in low .. TopLevel(x, fork) - 1 :
                /\ Rank(x, low, fork)[l] \in Nat
                /\ l \in Sided(x, fork)
                     => Rank(x, low, fork)[l + 1] = Rank(x, low, fork)[l] + 1
                /\ l \notin Sided(x, fork)
                     => Rank(x, low, fork)[l + 1] = Rank(x, low, fork)[l]
           /\ \A siblings : \A l \in low .. TopLevel(x, fork) - 1 :
                SiblingAt(x, low, fork, siblings)[l] = siblings[Rank(x, low, fork)[l] + 1]
  <1>1. PICK u \in Nat : u = Up(x, fork)
    BY UpFacts
  <1>2. PICK high \in Nat : high = TopLevel(x, fork) /\ high = fork + u + 1
    BY <1>1 DEF TopLevel
  <1>3. PICK inner \in Nat : inner = fork - low
    OBVIOUS
  <1>4. /\ Ones(u, 0) = 0 /\ Ones(u, u + 1) = BitCount(u)
        /\ \A d \in Nat : /\ Ones(u, d) \in Nat
                          /\ BitAt(u, d) = 1 => Ones(u, d + 1) = Ones(u, d) + 1
                          /\ BitAt(u, d) # 1 => Ones(u, d + 1) = Ones(u, d)
    BY OnesFacts
  <1> DEFINE rank == Rank(x, low, fork)
  <1>5. \A l \in low .. high : rank[l] = IF l <= fork THEN l - low ELSE inner + Ones(u, l - fork)
    BY <1>1, <1>2, <1>3 DEF Rank
  <1> HIDE DEF rank
  <1>6. \A l \in fork .. high : rank[l] = inner + Ones(u, l - fork)
    <2> TAKE l \in fork .. high
    <2>1. l \in low .. high
      OBVIOUS
    <2>2. CASE l = fork
      <3>1. l - fork = 0 /\ l - low = inner
        BY <1>3, <2>2
      <3> QED
        BY <1>3, <1>4, <1>5, <2>1, <2>2, <3>1
    <2>3. CASE l # fork
      BY <1>5, <2>1, <2>3
    <2> QED
      BY <2>2, <2>3
  <1>7. rank[low] = 0
    <2>1. low \in low .. high /\ low <= fork
      BY <1>2
    <2> QED
      BY <1>5, <2>1
  <1>8. rank[high] = inner + BitCount(u)
    <2>1. high \in fork .. high /\ high - fork = u + 1
      BY <1>2
    <2> QED
      BY <1>4, <1>6, <2>1
  <1>9. ASSUME NEW l \in low .. high - 1
        PROVE  /\ rank[l] \in Nat
               /\ l \in Sided(x, fork) => rank[l + 1] = rank[l] + 1
               /\ l \notin Sided(x, fork) => rank[l + 1] = rank[l]
               /\ \A siblings : SiblingAt(x, low, fork, siblings)[l] = siblings[rank[l] + 1]
    <2>1. l \in Nat /\ l \in low .. high /\ l + 1 \in low .. high
      OBVIOUS
    <2>2. CASE l < fork
      <3>1. rank[l] = l - low /\ rank[l + 1] = (l + 1) - low
        BY <1>5, <2>1, <2>2
      <3>2. l \in Sided(x, fork)
        BY <2>1, <2>2 DEF Sided
      <3>3. ASSUME NEW siblings PROVE SiblingAt(x, low, fork, siblings)[l] = siblings[l - low + 1]
        BY <1>2, <2>2 DEF SiblingAt
      <3>4. (l + 1) - low = (l - low) + 1 /\ l - low \in Nat
        OBVIOUS
      <3> QED
        BY <3>1, <3>2, <3>3, <3>4
    <2>3. CASE ~(l < fork)
      <3>1. PICK d \in Nat : d = l - fork /\ (l + 1) - fork = d + 1 /\ fork + d = l
        <4>1. l - fork \in Nat /\ (l + 1) - fork = (l - fork) + 1 /\ fork + (l - fork) = l
          BY <2>1, <2>3
        <4> QED
          BY <4>1
      <3>2. l \in fork .. high /\ l + 1 \in fork .. high
        BY <2>1, <2>3
      <3>3. rank[l] = inner + Ones(u, d) /\ rank[l + 1] = inner + Ones(u, d + 1)
        BY <1>6, <3>1, <3>2
      <3>4. BitAt(u, d) = Up(x, l) % 2
        BY <1>1, <3>1, BitFacts
      <3>5. l \in Sided(x, fork) <=> BitAt(u, d) = 1
        BY <2>1, <2>3, <3>4 DEF Sided
      <3>6. Ones(u, d) \in Nat /\ (BitAt(u, d) = 1 => Ones(u, d + 1) = Ones(u, d) + 1)
            /\ (BitAt(u, d) # 1 => Ones(u, d + 1) = Ones(u, d))
        BY <1>4
      <3>7. PICK o \in Nat : o = Ones(u, d)
        BY <3>6
      <3>8. ASSUME NEW siblings
            PROVE  SiblingAt(x, low, fork, siblings)[l] = siblings[inner + (o + 1)]
        BY <1>1, <1>2, <1>3, <2>3, <3>1, <3>7 DEF SiblingAt
      <3>9. inner + (o + 1) = (inner + o) + 1
        OBVIOUS
      <3> QED
        BY <3>3, <3>5, <3>6, <3>7, <3>8, <3>9
    <2> QED
      BY <2>2, <2>3
  <1> QED
    BY <1>1, <1>2, <1>3, <1>7, <1>8, <1>9 DEF rank

SiblingOf(E, x, l) == IF Up(x, l) % 2 = 1 THEN LeftOf(E, x, l) ELSE RightOf(E, x, l)

(* A proof begins with the root of the block that x ends, unless that is   *)
(* the whole smaller tree.                                                 *)
HeadOf(x, low) == IF Block(x, low) = 0 THEN 0 ELSE 1

Sent(E, n1, n2, x, low, fork) ==
    LET proof == ConsistencyProof(E, n1, n2)
        rank == Rank(x, low, fork)
    IN  /\ proof \in Seq(RootsIn(E, n2))
        /\ Len(proof) = HeadOf(x, low) + ((fork - low) + BitCount(Up(x, fork)))
        /\ HeadOf(x, low) = 1 => proof[1] = OnPath(E, x, low)
        /\ \A l \in low .. TopLevel(x, fork) - 1 : l \in Sided(x, fork) =>
             /\ rank[l] \in Nat /\ rank[l] + 1 <= (fork - low) + BitCount(Up(x, fork))
             /\ proof[HeadOf(x, low) + (rank[l] + 1)] = SiblingOf(E, x, l)

(* At the level of x itself the recursion ends.                            *)
LEMMA ProofBase ==
    ASSUME NEW E, NEW n \in Nat, HasLength(E, n), NEW x \in Nat, x + 1 < n,
           NEW low \in Nat, Block(x, low) + 2^low = x + 1
    PROVE  PathProof(E, x, low)
             = IF Block(x, low) = 0 THEN << >> ELSE <<OnPath(E, x, low)>>
  <1>1. x < n
    OBVIOUS
  <1>2. PathPart(E, x, low) \in PartsOf(n) /\ Part(E, x, low) = 2^low
    <2>1. Block(x, low) + 2^low <= n
      OBVIOUS
    <2> QED
      BY <1>1, <2>1, PathPartFacts
  <1>3. PICK b \in Nat, w \in Nat : b = Block(x, low) /\ w = 2^low
    BY UpFacts, PowerFacts
  <1>4. x + 1 - b = w
    BY <1>3
  <1>5. PICK have \in BOOLEAN : have = (b = 0)
    OBVIOUS
  <1>6. PathPart(E, x, low) = << <<b + 1, w>>, w, have>>
    BY <1>2, <1>3, <1>4, <1>5 DEF PathPart
  <1>7. PathProof(E, x, low) = ProofStep(E, Proofs(E, n), PathPart(E, x, low))
    BY <1>2, ProofsExist DEF PathProof, HasLength
  <1>8. PathProof(E, x, low) = IF have THEN << >> ELSE <<RootAt(E, b + 1, w)>>
    BY <1>6, <1>7 DEF ProofStep
  <1>9. OnPath(E, x, low) = RootAt(E, b + 1, w)
    BY <1>2, <1>3 DEF OnPath
  <1> QED
    BY <1>3, <1>5, <1>8, <1>9

(* Above every entry it is the proof of the code.                          *)
LEMMA ProofTop ==
    ASSUME NEW E, NEW n \in Nat, HasLength(E, n), NEW x \in Nat, x < n,
           NEW high \in Nat, n <= 2^high
    PROVE  ConsistencyProof(E, x + 1, n) = PathProof(E, x, high)
  <1>1. Up(x, high) = 0 /\ Block(x, high) = 0
    <2>1. 2^high \in Nat
      BY PowerFacts
    <2>2. x < 2^high
      BY <2>1
    <2> QED
      BY <2>2, UpOrder
  <1>2. PICK w \in Nat : w = 2^high
    BY PowerFacts
  <1>3. Part(E, x, high) = n
    <2>1. Part(E, x, high) = IF n - 0 < w THEN n - 0 ELSE w
      BY <1>1, <1>2 DEF Part, HasLength
    <2> QED
      BY <1>2, <2>1
  <1>4. (Block(x, high) = 0) = TRUE
    BY <1>1
  <1>5. PathPart(E, x, high) = << <<1, n>>, x + 1, TRUE>>
    <2>1. 0 + 1 = 1 /\ x + 1 - 0 = x + 1
      OBVIOUS
    <2> QED
      BY <1>1, <1>3, <1>4, <2>1 DEF PathPart
  <1>6. x + 1 \in 1 .. n
    OBVIOUS
  <1> QED
    BY <1>5, <1>6, ProofForm DEF PathProof, HasLength

(* What compute_consistency_proof sends has the siblings of the path in    *)
(* the order of their levels.                                              *)
LEMMA ProofSent ==
    ASSUME NEW E, NEW n1 \in Nat, NEW n2 \in Nat, HasLength(E, n2),
           NEW x \in Nat, NEW low \in Nat, NEW fork \in Nat, Levels(n1, n2, x, low, fork)
    PROVE  Sent(E, n1, n2, x, low, fork)
  <1>1. /\ x < n1 /\ n1 <= x + 1 /\ n1 < n2 /\ low < fork
        /\ TopLevel(x, fork) \in Nat /\ fork < TopLevel(x, fork)
        /\ Block(x, low) + 2^low = n1 /\ n2 <= 2^TopLevel(x, fork)
        /\ \A l \in Nat : Block(x, l) + 2^l = n1 => l <= low
        /\ \A l \in Nat : l < fork => Block(x, l) + 2^l < n2
        /\ \A l \in Nat : fork <= l => n2 <= Block(x, l) + 2^l
    BY DEF Levels
  <1>2. n1 = x + 1 /\ x + 1 < n2 /\ x < n2 /\ low <= fork
    BY <1>1
  <1>3. PICK high \in Nat : high = TopLevel(x, fork) /\ fork < high /\ low <= high
    BY <1>1
  <1>4. PICK head \in {0, 1} : head = HeadOf(x, low)
    BY DEF HeadOf
  <1>5. head \in Nat
    OBVIOUS
  <1> DEFINE P == [l \in low .. high |-> PathProof(E, x, l)]
             s == [l \in low .. high |-> SiblingOf(E, x, l)]
             has == Sided(x, fork)
             rank == Rank(x, low, fork)
             S == RootsIn(E, n2) \union {SiblingOf(E, x, l) : l \in Nat}
  <1>6. \A l \in low .. high : P[l] = PathProof(E, x, l) /\ s[l] = SiblingOf(E, x, l)
    OBVIOUS
  <1>7. \A l \in low .. high : s[l] \in S
    OBVIOUS
  <1>8. \A l \in low .. high : PathProof(E, x, l) \in Seq(RootsIn(E, n2))
    <2> TAKE l \in low .. high
    <2>1. PathPart(E, x, l) \in PartsOf(n2)
      BY <1>2, PathPartFacts
    <2> QED
      BY <2>1, ProofsType DEF PathProof, HasLength
  <1>9. RootsIn(E, n2) \subseteq S
    OBVIOUS
  <1> HIDE DEF P, s, S
  <1>10. \A l \in low .. high : P[l] \in Seq(S)
    BY <1>6, <1>8, <1>9
  <1>11. PathProof(E, x, low) = IF Block(x, low) = 0 THEN << >> ELSE <<OnPath(E, x, low)>>
    <2>1. Block(x, low) + 2^low = x + 1
      BY <1>1, <1>2
    <2> QED
      BY <1>2, <2>1, ProofBase
  <1>12. Len(P[low]) = head /\ (head = 1 => P[low][1] = OnPath(E, x, low))
    <2>1. P[low] = PathProof(E, x, low)
      BY <1>3, <1>6
    <2> QED
      BY <1>4, <1>11, <2>1 DEF HeadOf
  <1>13. ASSUME NEW l \in low .. high - 1
         PROVE  /\ l \in has => P[l + 1] = Append(P[l], s[l])
                /\ l \notin has => P[l + 1] = P[l]
    <2>1. l \in Nat /\ l \in low .. high /\ l + 1 \in low .. high /\ l + 1 \in Nat
      OBVIOUS
    <2>2. P[l] = PathProof(E, x, l) /\ P[l + 1] = PathProof(E, x, l + 1)
          /\ s[l] = SiblingOf(E, x, l)
      BY <1>6, <2>1
    <2>3. Block(x, l + 1) + 2^(l + 1) # x + 1
      <3>1. ~(l + 1 <= low)
        BY <2>1
      <3>2. Block(x, l + 1) + 2^(l + 1) # n1
        BY <1>1, <2>1, <3>1
      <3> QED
        BY <1>2, <3>2
    <2>4. /\ Up(x, l) % 2 = 1
                => PathProof(E, x, l + 1) = Append(PathProof(E, x, l), LeftOf(E, x, l))
          /\ Up(x, l) % 2 = 0 /\ Block(x, l) + 2^l < n2
                => PathProof(E, x, l + 1) = Append(PathProof(E, x, l), RightOf(E, x, l))
          /\ Up(x, l) % 2 = 0 /\ n2 <= Block(x, l) + 2^l
                => PathProof(E, x, l + 1) = PathProof(E, x, l)
      BY <1>2, <2>1, <2>3, ProofStepUp
    <2>5. Up(x, l) % 2 \in {0, 1}
      BY <2>1, UpFacts
    <2>6. l < fork => Block(x, l) + 2^l < n2
      BY <1>1, <2>1
    <2>7. ~(l < fork) => n2 <= Block(x, l) + 2^l
      BY <1>1, <2>1
    <2>8. CASE Up(x, l) % 2 = 1
      BY <2>1, <2>2, <2>4, <2>8 DEF Sided, SiblingOf
    <2>9. CASE Up(x, l) % 2 = 0
      BY <2>1, <2>2, <2>4, <2>6, <2>7, <2>9 DEF Sided, SiblingOf
    <2> QED
      BY <2>5, <2>8, <2>9
  <1>14. /\ rank[low] = 0 /\ rank[high] = (fork - low) + BitCount(Up(x, fork))
         /\ \A l \in low .. high - 1 :
              /\ l \in has => rank[l + 1] = rank[l] + 1
              /\ l \notin has => rank[l + 1] = rank[l]
    <2>1. low < fork
      BY <1>1
    <2>2. /\ Rank(x, low, fork)[low] = 0
          /\ Rank(x, low, fork)[TopLevel(x, fork)] = (fork - low) + BitCount(Up(x, fork))
          /\ \A l \in low .. TopLevel(x, fork) - 1 :
               /\ l \in Sided(x, fork)
                    => Rank(x, low, fork)[l + 1] = Rank(x, low, fork)[l] + 1
               /\ l \notin Sided(x, fork)
                    => Rank(x, low, fork)[l + 1] = Rank(x, low, fork)[l]
      BY <2>1, RankFacts
    <2> QED
      BY <1>3, <2>2
  <1> HIDE DEF has, rank
  <1>15. Gathers(low, high, head, has, rank, P, s)
    BY <1>12, <1>13, <1>14 DEF Gathers
  <1>16. Gathered(low, high, head, has, rank, P, s)
    BY <1>3, <1>5, <1>7, <1>10, <1>15, Gathering
  <1>17. ConsistencyProof(E, n1, n2) = P[high]
    <2>1. n2 <= 2^high
      BY <1>1, <1>3
    <2>2. ConsistencyProof(E, x + 1, n2) = PathProof(E, x, high)
      BY <1>2, <2>1, ProofTop
    <2>3. high \in low .. high
      BY <1>3
    <2> QED
      BY <1>2, <1>6, <2>2, <2>3
  <1>18. P[high] \in Seq(RootsIn(E, n2))
    <2>1. high \in low .. high
      BY <1>3
    <2> QED
      BY <1>6, <1>8, <2>1
  <1>19. \A l \in low .. high - 1 : s[l] = SiblingOf(E, x, l)
    BY <1>6
  <1>20. /\ Len(P[high]) = head + rank[high]
         /\ \A i \in 1 .. head : P[high][i] = P[low][i]
         /\ \A j \in low .. high - 1 : j \in has =>
              /\ rank[j] \in Nat /\ rank[j] + 1 <= rank[high]
              /\ P[high][head + (rank[j] + 1)] = s[j]
    BY <1>16 DEF Gathered
  <1>21. head = 1 => P[high][1] = OnPath(E, x, low)
    BY <1>12, <1>20
  <1> QED
    BY <1>3, <1>4, <1>14, <1>17, <1>18, <1>19, <1>20, <1>21 DEF Sent, has, rank

(* The check climbs to the root of the larger tree.                        *)
LEMMA SecondIsRoot ==
    ASSUME NEW n1 \in Nat, NEW n2 \in Nat, NEW B, HasLength(B, n2),
           NEW x \in Nat, NEW low \in Nat, NEW fork \in Nat, Levels(n1, n2, x, low, fork),
           NEW S, NEW siblings \in Seq(S), Fits(x, low, fork, siblings),
           \A l \in low .. TopLevel(x, fork) - 1 : l \in Sided(x, fork) =>
               SiblingAt(x, low, fork, siblings)[l] = SiblingOf(B, x, l),
           NEW seed, seed = OnPath(B, x, low)
    PROVE  SecondRoot(x, low, fork, seed, siblings) = RootOf(B)
  <1>1. /\ x < n2 /\ low < fork /\ n2 >= 1
        /\ TopLevel(x, fork) \in Nat /\ fork < TopLevel(x, fork) /\ n2 <= 2^TopLevel(x, fork)
        /\ \A l \in Nat : fork <= l => n2 <= Block(x, l) + 2^l
    <2>1. x < n1 /\ n1 < n2
      BY DEF Levels
    <2> QED
      BY <2>1 DEF Levels
  <1>2. Len(B) \in Nat /\ n2 <= Len(B) /\ Len(B) <= n2 /\ x < Len(B)
    BY <1>1 DEF HasLength
  <1>3. PICK high \in Nat : high = TopLevel(x, fork) /\ low <= high /\ low < high
    <2>1. low < TopLevel(x, fork)
      BY <1>1
    <2> QED
      BY <1>1, <2>1
  <1>4. PICK b : /\ b[low] = seed
                 /\ b[TopLevel(x, fork)] = SecondRoot(x, low, fork, seed, siblings)
                 /\ Climbs(B, x, low, TopLevel(x, fork), b, SiblingAt(x, low, fork, siblings))
    BY <1>2, SecondClimb
  <1> DEFINE sib == SiblingAt(x, low, fork, siblings)
  <1>5. ASSUME NEW l \in low .. high - 1
        PROVE  /\ Up(x, l) % 2 = 1 => sib[l] = LeftOf(B, x, l)
               /\ Up(x, l) % 2 = 0 /\ Block(x, l) + 2^l < Len(B) => sib[l] = RightOf(B, x, l)
    <2>1. l \in Nat
      OBVIOUS
    <2>2. l \in Sided(x, fork) => sib[l] = SiblingOf(B, x, l)
      BY <1>3
    <2>3. ASSUME Block(x, l) + 2^l < Len(B) PROVE l < fork
      <3> SUFFICES ASSUME fork <= l PROVE FALSE
        BY <2>1
      <3>1. n2 <= Block(x, l) + 2^l /\ Block(x, l) \in Nat /\ 2^l \in Nat
        BY <1>1, <2>1, UpFacts, PowerFacts
      <3> QED
        BY <1>2, <2>3, <3>1
    <2> HIDE DEF sib
    <2> QED
      BY <2>1, <2>2, <2>3 DEF Sided, SiblingOf
  <1>6. Climbs(B, x, low, high, b, sib) /\ b[low] = OnPath(B, x, low)
    BY <1>3, <1>4
  <1> HIDE DEF sib
  <1>7. b[high] = OnPath(B, x, high)
    BY <1>2, <1>3, <1>5, <1>6, Ascent
  <1>8. OnPath(B, x, high) = RootAt(B, 1, n2)
    <2>1. Len(B) <= 2^high
      BY <1>1, <1>3 DEF HasLength
    <2> QED
      BY <1>2, <2>1, PathTop DEF HasLength
  <1>9. RootOf(B) = RootAt(B, 1, n2)
    BY <1>1, RootOfFacts
  <1> QED
    BY <1>3, <1>4, <1>7, <1>8, <1>9

(* And to that of the smaller one, whose entries are the first of these.   *)
LEMMA FirstIsRoot ==
    ASSUME NEW n1 \in Nat, NEW n2 \in Nat,
           NEW A, HasLength(A, n1), NEW B, HasLength(B, n2), \A i \in 1 .. n1 : A[i] = B[i],
           NEW x \in Nat, NEW low \in Nat, NEW fork \in Nat, Levels(n1, n2, x, low, fork),
           n1 # 2^low,
           NEW S, NEW siblings \in Seq(S), Fits(x, low, fork, siblings),
           \A l \in low .. TopLevel(x, fork) - 1 : l \in Sided(x, fork) =>
               SiblingAt(x, low, fork, siblings)[l] = SiblingOf(B, x, l),
           NEW seed, seed = OnPath(B, x, low)
    PROVE  FirstRoot(x, low, fork, seed, siblings) = RootOf(A)
  <1>1. /\ x < n1 /\ n1 < n2 /\ low < fork /\ n1 >= 1 /\ Block(x, low) + 2^low = n1
        /\ TopLevel(x, fork) \in Nat /\ fork < TopLevel(x, fork) /\ n1 <= 2^TopLevel(x, fork)
        /\ \A l \in Nat : n1 <= Block(x, l) + 2^l
    <2>1. x < n1
      BY DEF Levels
    <2> QED
      BY <2>1 DEF Levels
  <1>2. /\ Len(A) \in Nat /\ n1 <= Len(A) /\ Len(A) <= n1 /\ x < Len(A)
        /\ Len(B) \in Nat /\ n2 <= Len(B) /\ Len(B) <= n2
    BY <1>1 DEF HasLength
  <1>3. PICK high \in Nat : high = TopLevel(x, fork) /\ low <= high /\ low < high
    <2>1. low < TopLevel(x, fork)
      BY <1>1
    <2> QED
      BY <1>1, <2>1
  <1>4. PICK a : /\ a[low] = seed
                 /\ a[TopLevel(x, fork)] = FirstRoot(x, low, fork, seed, siblings)
                 /\ Climbs(A, x, low, TopLevel(x, fork), a, SiblingAt(x, low, fork, siblings))
    BY <1>2, FirstClimb
  <1> DEFINE sib == SiblingAt(x, low, fork, siblings)
  <1>5. ASSUME NEW at \in Nat, NEW size \in Nat, at >= 1, size >= 1, at + size - 1 <= n1
        PROVE  RootAt(A, at, size) = RootAt(B, at, size)
    <2>1. at + size - 1 <= Len(A) /\ at + size - 1 <= Len(B)
      <3>1. at + size - 1 \in Nat /\ at + size - 1 <= n1
        BY <1>5
      <3>2. n1 < n2 /\ Len(A) \in Nat /\ Len(B) \in Nat /\ n1 <= Len(A) /\ n2 <= Len(B)
        BY <1>1, <1>2
      <3> QED
        BY <3>1, <3>2
    <2>2. \A i \in at .. at + size - 1 : A[i] = B[i]
      <3>1. \A i \in at .. at + size - 1 : i \in 1 .. n1
        BY <1>5
      <3> QED
        BY <3>1
    <2> QED
      BY <1>2, <1>5, <2>1, <2>2, RootSame
  <1>6. OnPath(A, x, low) = OnPath(B, x, low)
    <2>1. PICK b \in Nat, w \in Nat : b = Block(x, low) /\ w = 2^low /\ b + w = n1 /\ w >= 1
      <3>1. Block(x, low) \in Nat /\ 2^low \in Nat /\ low < 2^low
        BY UpFacts, PowerFacts
      <3>2. Block(x, low) + 2^low = n1
        BY <1>1
      <3>3. 2^low >= 1
        BY <3>1
      <3> QED
        BY <3>1, <3>2, <3>3
    <2>2. Part(A, x, low) = w
      BY <1>2, <2>1 DEF Part
    <2>3. Part(B, x, low) = w
      <3>1. n1 < n2 /\ Len(B) \in Nat /\ n2 <= Len(B)
        BY <1>1, <1>2
      <3>2. ~(Len(B) - b < w)
        BY <2>1, <3>1
      <3> QED
        BY <2>1, <3>2 DEF Part
    <2>4. b + 1 \in Nat /\ b + 1 >= 1 /\ (b + 1) + w - 1 <= n1
      BY <2>1
    <2>5. RootAt(A, b + 1, w) = RootAt(B, b + 1, w)
      BY <1>5, <2>1, <2>4
    <2> QED
      BY <2>1, <2>2, <2>3, <2>5 DEF OnPath
  <1>7. ASSUME NEW l \in low .. high - 1
        PROVE  /\ Up(x, l) % 2 = 1 => sib[l] = LeftOf(A, x, l)
               /\ Up(x, l) % 2 = 0 /\ Block(x, l) + 2^l < Len(A) => sib[l] = RightOf(A, x, l)
    <2>1. l \in Nat
      OBVIOUS
    <2>2. l \in Sided(x, fork) => sib[l] = SiblingOf(B, x, l)
      BY <1>3
    <2>3. ~(Block(x, l) + 2^l < Len(A))
      <3>1. n1 <= Block(x, l) + 2^l /\ Block(x, l) \in Nat /\ 2^l \in Nat
        BY <1>1, <2>1, UpFacts, PowerFacts
      <3> QED
        BY <1>2, <3>1
    <2>4. ASSUME Up(x, l) % 2 = 1 PROVE LeftOf(A, x, l) = LeftOf(B, x, l)
      <3>1. PICK c \in Nat, w \in Nat : c = Block(x, l + 1) /\ w = 2^l /\ w >= 1 /\ c + w <= x
        <4>1. Block(x, l) \in Nat /\ Block(x, l) <= x
              /\ Block(x, l + 1) + 2^l = Block(x, l) /\ 2^l \in Nat /\ l < 2^l
          BY <2>1, <2>4, UpFacts, PowerFacts
        <4>2. l + 1 \in Nat
          BY <2>1
        <4>3. Block(x, l + 1) \in Nat
          BY <4>2, UpFacts
        <4> QED
          BY <2>1, <4>1, <4>3
      <3>2. c + 1 \in Nat /\ c + 1 >= 1 /\ (c + 1) + w - 1 <= n1
        <4>1. x < n1
          BY <1>1
        <4> QED
          BY <3>1, <4>1
      <3>3. RootAt(A, c + 1, w) = RootAt(B, c + 1, w)
        BY <1>5, <3>1, <3>2
      <3> QED
        BY <3>1, <3>3 DEF LeftOf
    <2> HIDE DEF sib
    <2> QED
      BY <2>1, <2>2, <2>3, <2>4 DEF Sided, SiblingOf
  <1>8. Climbs(A, x, low, high, a, sib) /\ a[low] = OnPath(A, x, low)
    BY <1>3, <1>4, <1>6
  <1> HIDE DEF sib
  <1>9. a[high] = OnPath(A, x, high)
    BY <1>2, <1>3, <1>7, <1>8, Ascent
  <1>10. OnPath(A, x, high) = RootAt(A, 1, n1)
    <2>1. Len(A) <= 2^high
      BY <1>1, <1>3 DEF HasLength
    <2> QED
      BY <1>2, <2>1, PathTop DEF HasLength
  <1>11. RootOf(A) = RootAt(A, 1, n1)
    BY <1>1, RootOfFacts
  <1> QED
    BY <1>3, <1>4, <1>9, <1>10, <1>11

(***************************************************************************)
(* And what it never turns down: for a list that only grew, the proof that *)
(* compute_consistency_proof returns is accepted, whatever the two sizes.  *)
(***************************************************************************)
THEOREM ProofComplete ==
    ASSUME NEW A, NEW B, NEW n1 \in Nat, NEW n2 \in Nat, HasLength(A, n1), HasLength(B, n2),
           1 <= n1, n1 <= n2, \A i \in 1 .. n1 : A[i] = B[i]
    PROVE  ProofVerifies(n1, n2, ConsistencyProof(B, n1, n2), RootOf(A), RootOf(B))
  <1>1. Len(A) \in Nat /\ Len(B) \in Nat /\ Len(A) = n1 /\ Len(B) = n2
    BY DEF HasLength
  <1>2. RootOf(A) = RootAt(A, 1, n1) /\ RootOf(B) = RootAt(B, 1, n2)
    <2>1. n1 >= 1 /\ n2 >= 1
      OBVIOUS
    <2> QED
      BY <2>1, RootOfFacts
  <1>3. RootAt(A, 1, n1) = RootAt(B, 1, n1)
    <2>1. 1 >= 1 /\ n1 >= 1 /\ 1 + n1 - 1 <= Len(A) /\ 1 + n1 - 1 <= Len(B) /\ 1 + n1 - 1 = n1
      BY <1>1
    <2>2. \A i \in 1 .. 1 + n1 - 1 : A[i] = B[i]
      BY <2>1
    <2> QED
      BY <1>1, <2>1, <2>2, RootSame
  <1> DEFINE proof == ConsistencyProof(B, n1, n2)
  <1>4. CASE n1 = n2
    <2>1. << <<1, n2>>, n1, TRUE>> \in PartsOf(n2)
          /\ proof = Proofs(B, n2)[<< <<1, n2>>, n1, TRUE>>]
      <3>1. n1 \in 1 .. n2
        OBVIOUS
      <3> QED
        BY <3>1, ProofForm
    <2>2. proof = ProofStep(B, Proofs(B, n2), << <<1, n2>>, n1, TRUE>>)
      BY <2>1, ProofsExist
    <2>3. proof = << >>
      BY <1>4, <2>2 DEF ProofStep
    <2>4. 0 < n1
      OBVIOUS
    <2> QED
      BY <1>2, <1>3, <1>4, <2>3, <2>4 DEF ProofVerifies
  <1>5. CASE n1 < n2
    <2>1. PICK x \in Nat : x = n1 - 1
      OBVIOUS
    <2>2. PICK low, fork : low = TrailingZeros(n1) /\ fork = ForkLevel(n1, n2)
      OBVIOUS
    <2>3. Levels(n1, n2, x, low, fork)
      BY <1>5, <2>1, <2>2, LevelFacts
    <2>4. low \in Nat /\ fork \in Nat /\ low < fork /\ Block(x, low) + 2^low = n1
          /\ Up(x, fork) \in Nat
      BY <2>3 DEF Levels
    <2>5. PICK c \in Nat : c = BitCount(Up(x, fork))
      <3>1. Up(x, fork) + 1 \in Nat
        BY <2>4
      <3> QED
        BY <2>4, <3>1, OnesFacts
    <2>6. PICK m \in Nat : m = fork - low /\ m >= 1
      <3>1. fork - low \in Nat /\ fork - low >= 1
        BY <2>4
      <3> QED
        BY <3>1
    <2>7. PICK b \in Nat, w \in Nat : b = Block(x, low) /\ w = 2^low /\ b + w = n1
      BY <2>1, <2>4, UpFacts, PowerFacts
    <2> DEFINE perfect == n1 = 2^low
               head == HeadOf(x, low)
               seed == IF perfect THEN RootOf(A) ELSE proof[1]
               siblings == IF perfect THEN proof ELSE Tail(proof)
               S == RootsIn(B, n2)
    <2>8. perfect <=> head = 0
      BY <2>7 DEF HeadOf
    <2>9. ~perfect <=> head = 1
      BY <2>7 DEF HeadOf
    <2>10. Sent(B, n1, n2, x, low, fork)
      BY <2>3, <2>4, ProofSent
    <2>11. /\ proof \in Seq(S) /\ Len(proof) = head + (m + c)
           /\ head = 1 => proof[1] = OnPath(B, x, low)
           /\ \A l \in low .. TopLevel(x, fork) - 1 : l \in Sided(x, fork) =>
                /\ Rank(x, low, fork)[l] \in Nat /\ Rank(x, low, fork)[l] + 1 <= m + c
                /\ proof[head + (Rank(x, low, fork)[l] + 1)] = SiblingOf(B, x, l)
      BY <2>5, <2>6, <2>10 DEF Sent
    <2> HIDE DEF proof, head
    <2>12. /\ siblings \in Seq(S) /\ Len(siblings) = m + c /\ proof # << >>
           /\ \A i \in 1 .. m + c : siblings[i] = proof[head + i]
      <3>1. CASE perfect
        <4>1. Len(proof) = m + c /\ head = 0
          BY <2>8, <2>11, <3>1
        <4>2. \A i \in 1 .. m + c : head + i = i
          BY <4>1
        <4>3. proof # << >>
          BY <2>6, <4>1
        <4> QED
          BY <2>11, <3>1, <4>1, <4>2, <4>3
      <3>2. CASE ~perfect
        <4>1. Len(proof) = 1 + (m + c) /\ head = 1
          BY <2>9, <2>11, <3>2
        <4>2. PICK n \in Nat : n = m + c
          OBVIOUS
        <4>3. proof # << >> /\ Tail(proof) \in Seq(S) /\ Len(Tail(proof)) = n
              /\ \A i \in 1 .. n : Tail(proof)[i] = proof[i + 1]
          BY <2>11, <4>1, <4>2, HeadTailProperties
        <4>4. \A i \in 1 .. n : head + i = i + 1
          BY <4>1
        <4> QED
          BY <3>2, <4>2, <4>3, <4>4
      <3> QED
        BY <3>1, <3>2
    <2>13. seed = OnPath(B, x, low)
      <3>1. CASE perfect
        <4>1. b = 0 /\ w = n1
          BY <2>7, <3>1
        <4>2. Part(B, x, low) = n1
          BY <1>1, <1>5, <2>7, <4>1 DEF Part
        <4>3. OnPath(B, x, low) = RootAt(B, 1, n1)
          BY <2>7, <4>1, <4>2 DEF OnPath
        <4> QED
          BY <1>2, <1>3, <3>1, <4>3
      <3>2. CASE ~perfect
        BY <2>9, <2>11, <3>2
      <3> QED
        BY <3>1, <3>2
    <2>14. Fits(x, low, fork, siblings)
      BY <2>5, <2>6, <2>12 DEF Fits, HasLength
    <2> HIDE DEF siblings, seed
    <2>15. ASSUME NEW l \in low .. TopLevel(x, fork) - 1, l \in Sided(x, fork)
           PROVE  SiblingAt(x, low, fork, siblings)[l] = SiblingOf(B, x, l)
      <3>1. PICK i \in Nat : i = Rank(x, low, fork)[l] /\ i + 1 <= m + c
                             /\ proof[head + (i + 1)] = SiblingOf(B, x, l)
        BY <2>11, <2>15
      <3>2. SiblingAt(x, low, fork, siblings)[l] = siblings[i + 1]
        <4>1. low < fork
          BY <2>4
        <4>2. SiblingAt(x, low, fork, siblings)[l] = siblings[Rank(x, low, fork)[l] + 1]
          BY <2>4, <4>1, RankFacts
        <4> QED
          BY <3>1, <4>2
      <3>3. i + 1 \in 1 .. m + c
        BY <3>1
      <3>4. siblings[i + 1] = proof[head + (i + 1)]
        BY <2>12, <3>3
      <3> QED
        BY <3>1, <3>2, <3>4
    <2>16. SecondRoot(x, low, fork, seed, siblings) = RootOf(B)
      BY <2>3, <2>4, <2>12, <2>13, <2>14, <2>15, SecondIsRoot
    <2>17. ASSUME ~perfect PROVE FirstRoot(x, low, fork, seed, siblings) = RootOf(A)
      <3>1. n1 # 2^low
        BY <2>17
      <3> QED
        BY <2>3, <2>4, <2>12, <2>13, <2>14, <2>15, <3>1, FirstIsRoot
    <2>18. Len(proof) = ProofLength(n1, n2, perfect)
      <3>1. ProofLength(n1, n2, perfect) = (IF perfect THEN 0 ELSE 1) + fork - low + c
        BY <2>1, <2>2, <2>5 DEF ProofLength, Up
      <3>2. (IF perfect THEN 0 ELSE 1) = head
        BY <2>8, <2>9
      <3>3. head \in Nat
        BY DEF head, HeadOf
      <3>4. head + fork - low + c = head + (m + c)
        BY <2>4, <2>6, <3>3
      <3> QED
        BY <2>11, <3>1, <3>2, <3>4
    <2>19. perfect \/ Rebuilds(n1, n2, seed, siblings, RootOf(A))
      BY <2>1, <2>2, <2>17 DEF Rebuilds, FirstRoot, Within, Up
    <2>20. RootOf(B)
             = ChainBorderRight(
                   ChainInner(seed, SubSeq(siblings, 1, ForkLevel(n1, n2) - TrailingZeros(n1)),
                              (n1 - 1) \div 2^TrailingZeros(n1)),
                   SubSeq(siblings, ForkLevel(n1, n2) - TrailingZeros(n1) + 1, Len(siblings)))
      BY <2>1, <2>2, <2>16 DEF SecondRoot, Up
    <2> QED
      BY <1>5, <2>2, <2>12, <2>18, <2>19, <2>20 DEF ProofVerifies, seed, siblings, proof
  <1> QED
    BY <1>4, <1>5

(* From the fork on, no bit is set beyond those of the larger size.        *)
LEMMA BitsAboveFork ==
    ASSUME NEW n1 \in Nat, NEW n2 \in Nat,
           NEW x \in Nat, NEW low \in Nat, NEW fork \in Nat, Levels(n1, n2, x, low, fork)
    PROVE  fork <= BitLength(n2) /\ BitCount(Up(x, fork)) <= BitLength(n2) - fork
  <1>1. PICK top \in Nat : top = BitLength(n2) /\ n2 < 2^top
    BY BitLengthFacts
  <1>2. x < n2 /\ (\A l \in Nat : l < fork => Block(x, l) + 2^l < n2)
    <2>1. x < n1 /\ n1 < n2
      BY DEF Levels
    <2> QED
      BY <2>1 DEF Levels
  <1>3. \A l \in Nat : top <= l => Up(x, l) = 0 /\ Block(x, l) = 0
    <2> TAKE l \in Nat
    <2> HAVE top <= l
    <2>1. 2^top <= 2^l /\ 2^top \in Nat /\ 2^l \in Nat
      BY PowerFacts
    <2>2. x < 2^l
      BY <1>1, <1>2, <2>1
    <2> QED
      BY <2>2, UpOrder
  <1>4. fork <= top
    <2> SUFFICES ASSUME top < fork PROVE FALSE
      OBVIOUS
    <2>1. Block(x, top) + 2^top < n2 /\ Block(x, top) = 0 /\ 2^top \in Nat
      BY <1>2, <1>3, PowerFacts
    <2> QED
      BY <1>1, <2>1
  <1>5. PICK d \in Nat : d = top - fork /\ fork + d = top
    <2>1. top - fork \in Nat /\ fork + (top - fork) = top
      BY <1>4
    <2> QED
      BY <2>1
  <1>6. PICK u \in Nat : u = Up(x, fork)
    BY UpFacts
  <1> DEFINE set == {k \in 0 .. u : BitAt(u, k) = 1}
  <1>7. set \subseteq 0 .. d - 1
    <2> SUFFICES ASSUME NEW k \in 0 .. u, BitAt(u, k) = 1 PROVE k \in 0 .. d - 1
      OBVIOUS
    <2>1. k \in Nat /\ BitAt(u, k) = Up(x, fork + k) % 2
      BY <1>6, BitFacts
    <2>2. k < d
      <3> SUFFICES ASSUME d <= k PROVE FALSE
        BY <2>1
      <3>1. fork + k \in Nat /\ top <= fork + k
        BY <1>5, <2>1
      <3>2. Up(x, fork + k) = 0
        BY <1>3, <3>1
      <3> QED
        BY <2>1, <3>2
    <2> QED
      BY <2>1, <2>2
  <1>8. IsFiniteSet(0 .. d - 1) /\ Cardinality(0 .. d - 1) = d
    <2>1. 0 \in Int /\ d - 1 \in Int
      OBVIOUS
    <2> QED
      BY <2>1, FS_Interval
  <1>9. BitCount(u) = Cardinality(set)
    BY DEF BitCount
  <1> HIDE DEF set
  <1>10. Cardinality(set) <= d
    BY <1>7, <1>8, FS_Subset
  <1> QED
    BY <1>1, <1>4, <1>5, <1>6, <1>9, <1>10

(* How long a proof is depends on the sizes alone.                         *)
LEMMA LengthBySizes ==
    ASSUME NEW E, NEW F, NEW n \in Nat
    PROVE  \A part \in PartsOf(n) : Len(Proofs(E, n)[part]) = Len(Proofs(F, n)[part])
  <1> DEFINE g == Proofs(E, n)
             h == Proofs(F, n)
             Differ(part) == Len(g[part]) # Len(h[part])
             bad == {k \in Nat : \E part \in PartsOf(n) : part[1][2] = k /\ Differ(part)}
  <1>1. \A part \in PartsOf(n) : part[1][2] \in 1 .. n
    BY DEF PartsOf, Spans
  <1>2. \A part \in PartsOf(n) : g[part] = ProofStep(E, g, part) /\ h[part] = ProofStep(F, h, part)
    BY ProofsExist
  <1>3. PICK U, V : \A part \in PartsOf(n) : g[part] \in Seq(U) /\ h[part] \in Seq(V)
    BY ProofsType
  <1> HIDE DEF g, h
  <1>4. bad = {}
    <2> SUFFICES ASSUME bad # {} PROVE FALSE
      OBVIOUS
    <2>1. PICK k \in bad : \A m \in bad : k <= m
      <3>1. bad \subseteq Nat
        OBVIOUS
      <3> HIDE DEF bad
      <3> QED
        BY <3>1, LeastMember
    <2>2. PICK part \in PartsOf(n) : part[1][2] = k /\ Differ(part)
      OBVIOUS
    <2>3. \A q \in PartsOf(n) : q[1][2] < part[1][2] => Len(g[q]) = Len(h[q])
      <3> SUFFICES ASSUME NEW q \in PartsOf(n), q[1][2] < part[1][2] PROVE ~Differ(q)
        OBVIOUS
      <3>1. q[1][2] \in Nat /\ k \in Nat
        BY <1>1
      <3>2. q[1][2] \notin bad
        <4> HIDE DEF bad
        <4> QED
          BY <2>1, <2>2, <3>1
      <3> HIDE DEF Differ
      <3> QED
        BY <3>1, <3>2
    <2> HIDE DEF bad
    <2>4. g[part] = ProofStep(E, g, part) /\ h[part] = ProofStep(F, h, part)
      BY <1>2
    <2>5. CASE part[2] = part[1][2]
      <3>1. \A a, b : Len(<<a>>) = Len(<<b>>)
        OBVIOUS
      <3>2. Len(g[part]) = Len(h[part])
        BY <2>4, <2>5, <3>1 DEF ProofStep
      <3> QED
        BY <2>2, <3>2
    <2>6. ASSUME NEW q \in PartsOf(n), q[1][2] < part[1][2], NEW a, NEW b,
                 g[part] = Append(g[q], a), h[part] = Append(h[q], b)
          PROVE  FALSE
      <3>1. Len(g[q]) = Len(h[q])
        BY <2>3, <2>6
      <3>2. g[q] \in Seq(U \union {a}) /\ h[q] \in Seq(V \union {b})
        BY <1>3
      <3>3. Len(Append(g[q], a)) = Len(g[q]) + 1
        BY <3>2, AppendProperties
      <3>4. Len(Append(h[q], b)) = Len(h[q]) + 1
        BY <3>2, AppendProperties
      <3> QED
        BY <2>2, <2>6, <3>1, <3>3, <3>4
    <2>7. CASE part[2] # part[1][2] /\ part[2] <= Split(part)
      <3>1. LeftPart(part) \in PartsOf(n) /\ LeftPart(part)[1][2] < part[1][2]
        BY <2>7, PartFacts
      <3>2. /\ g[part] = Append(g[LeftPart(part)], RightRoot(E, part))
            /\ h[part] = Append(h[LeftPart(part)], RightRoot(F, part))
        BY <2>4, <2>7 DEF ProofStep
      <3> QED
        BY <2>6, <3>1, <3>2
    <2>8. CASE part[2] # part[1][2] /\ ~(part[2] <= Split(part))
      <3>1. RightPart(part) \in PartsOf(n) /\ RightPart(part)[1][2] < part[1][2]
        BY <2>8, PartFacts
      <3>2. /\ g[part] = Append(g[RightPart(part)], LeftRoot(E, part))
            /\ h[part] = Append(h[RightPart(part)], LeftRoot(F, part))
        BY <2>4, <2>8 DEF ProofStep
      <3> QED
        BY <2>6, <3>1, <3>2
    <2> QED
      BY <2>5, <2>7, <2>8
  <1>5. ASSUME NEW part \in PartsOf(n) PROVE ~Differ(part)
    <2>1. part[1][2] \in Nat
      BY <1>1
    <2> HIDE DEF Differ
    <2> QED
      BY <1>4, <2>1
  <1> QED
    BY <1>5 DEF g, h

(***************************************************************************)
(* A consistency proof is O(log n) hashes, as the module's docstring says: *)
(* at most one more than the larger size has bits.                         *)
(***************************************************************************)
THEOREM ProofIsShort ==
    ASSUME NEW E, NEW n \in Nat, NEW m \in 1 .. n
    PROVE  Len(ConsistencyProof(E, m, n)) <= BitLength(n) + 1
  <1> DEFINE F == [i \in 1 .. n |-> i]
  <1>1. HasLength(F, n)
    <2>1. F \in Seq(Nat) /\ Len(F) = n
      OBVIOUS
    <2> QED
      BY <2>1 DEF HasLength
  <1> HIDE DEF F
  <1>2. Len(ConsistencyProof(E, m, n)) = Len(ConsistencyProof(F, m, n))
    <2>1. << <<1, n>>, m, TRUE>> \in PartsOf(n)
          /\ ConsistencyProof(E, m, n) = Proofs(E, n)[<< <<1, n>>, m, TRUE>>]
          /\ ConsistencyProof(F, m, n) = Proofs(F, n)[<< <<1, n>>, m, TRUE>>]
      BY ProofForm
    <2> QED
      BY <2>1, LengthBySizes
  <1>3. PICK top \in Nat : top = BitLength(n)
    BY BitLengthFacts
  <1>4. CASE m = n
    <2>1. << <<1, n>>, m, TRUE>> \in PartsOf(n)
          /\ ConsistencyProof(F, m, n) = Proofs(F, n)[<< <<1, n>>, m, TRUE>>]
      BY ProofForm
    <2>2. ConsistencyProof(F, m, n) = ProofStep(F, Proofs(F, n), << <<1, n>>, m, TRUE>>)
      BY <2>1, ProofsExist
    <2>3. ConsistencyProof(F, m, n) = << >>
      BY <1>4, <2>2 DEF ProofStep
    <2>4. Len(<< >>) = 0
      OBVIOUS
    <2> QED
      BY <1>2, <1>3, <2>3, <2>4
  <1>5. CASE m # n
    <2>1. m \in Nat /\ 1 <= m /\ m < n
      BY <1>5
    <2>2. PICK x \in Nat : x = m - 1
      BY <2>1
    <2>3. PICK low, fork : low = TrailingZeros(m) /\ fork = ForkLevel(m, n)
      OBVIOUS
    <2>4. Levels(m, n, x, low, fork)
      BY <2>1, <2>2, <2>3, LevelFacts
    <2>5. low \in Nat /\ fork \in Nat /\ low < fork /\ Up(x, fork) \in Nat
      BY <2>4 DEF Levels
    <2>6. PICK c \in Nat : c = BitCount(Up(x, fork))
      <3>1. Up(x, fork) + 1 \in Nat
        BY <2>5
      <3> QED
        BY <2>5, <3>1, OnesFacts
    <2>7. fork <= top /\ c <= top - fork
      BY <1>3, <2>1, <2>4, <2>5, <2>6, BitsAboveFork
    <2>8. Len(ConsistencyProof(F, m, n)) = HeadOf(x, low) + ((fork - low) + c)
      <3>1. Sent(F, m, n, x, low, fork)
        BY <1>1, <2>1, <2>4, <2>5, ProofSent
      <3> QED
        BY <2>6, <3>1 DEF Sent
    <2>9. HeadOf(x, low) \in {0, 1}
      BY DEF HeadOf
    <2>10. HeadOf(x, low) + ((fork - low) + c) <= top + 1
      BY <2>5, <2>7, <2>9
    <2> QED
      BY <1>2, <1>3, <2>8, <2>10
  <1> QED
    BY <1>4, <1>5

-----------------------------------------------------------------------------
(* What the reader makes of an answer.                                     *)

(* An answer is what records_consistency_proof returns for the artifact as *)
(* it was or as it is, and a verdict is that of the code's check of it.    *)
Answered(found) ==
    /\ CanProve(found, size1, answer.size2) /\ answer.size2 \in Nat
    /\ answer.of = found
    /\ answer.proof = ConsistencyProof(found, size1, answer.size2)

Verified == ProofVerifies(size1, Len(records), answer.proof, root1, RootOf(records))

CheckInv ==
    /\ answer # NoAnswer => \E found \in {OriginalLedger, records} : Answered(found)
    /\ verdict = "accepted" => answer # NoAnswer /\ Verified
    /\ verdict = "refused" =>
         \/ answer = NoAnswer /\ ~CanProve(records, size1, Len(records))
         \/ answer # NoAnswer /\ ~Verified

(* Neither is ever taken back.                                             *)
LEMMA CheckStep == CheckInv /\ [ReaderNext]_<<verifierVars, memory>> => CheckInv'
  <1> SUFFICES ASSUME CheckInv, [ReaderNext]_<<verifierVars, memory>> PROVE CheckInv'
    OBVIOUS
  <1>1. records' = records /\ size1' = size1 /\ root1' = root1
    BY DEF ReaderNext, Prove, RefuseToProve, Check, Reread, memory, verifierVars,
           SkipUnchained, CheckRecord
  <1>2. OriginalLedger' = OriginalLedger /\ NoAnswer' = NoAnswer
    BY DEF OriginalLedger, OriginalRecord, NoAnswer
  <1>3. CASE Prove
    <2>0. PICK found \in {OriginalLedger, records} :
             \E size2 \in 1 .. Len(found) :
                 /\ CanProve(found, size1, size2)
                 /\ answer' = [of |-> found, size2 |-> size2,
                               proof |-> ConsistencyProof(found, size1, size2)]
      BY <1>3 DEF Prove
    <2>1. PICK size2 \in 1 .. Len(found) :
             /\ CanProve(found, size1, size2)
             /\ answer' = [of |-> found, size2 |-> size2,
                           proof |-> ConsistencyProof(found, size1, size2)]
      BY <2>0
    <2>2. Answered(found)'
      BY <1>1, <2>1 DEF Answered
    <2>3. verdict' = "none"
      BY <1>3 DEF Prove
    <2> QED
      BY <1>1, <1>2, <2>1, <2>2, <2>3 DEF CheckInv
  <1>4. CASE RefuseToProve
    BY <1>1, <1>2, <1>4 DEF CheckInv, RefuseToProve, CanProve
  <1>5. CASE Check
    <2>1. answer' = answer /\ answer # NoAnswer
      BY <1>5 DEF Check
    <2>2. Verified' <=> Verified
      BY <1>1, <2>1 DEF Verified
    <2>3. verdict' = IF Verified THEN "accepted" ELSE "refused"
      BY <1>5 DEF Check, Verified
    <2>4. \A found : Answered(found)' <=> Answered(found)
      BY <1>1, <2>1 DEF Answered
    <2> QED
      BY <1>1, <1>2, <2>1, <2>2, <2>3, <2>4 DEF CheckInv
  <1>6. CASE answer' = answer /\ verdict' = verdict
    <2>1. Verified' <=> Verified
      BY <1>1, <1>6 DEF Verified
    <2>2. \A found : Answered(found)' <=> Answered(found)
      BY <1>1, <1>6 DEF Answered
    <2> QED
      BY <1>1, <1>2, <1>6, <2>1, <2>2 DEF CheckInv, CanProve
  <1>7. CASE Reread \/ UNCHANGED <<verifierVars, memory>>
    BY <1>6, <1>7 DEF Reread, memory
  <1> QED
    BY <1>3, <1>4, <1>5, <1>7 DEF ReaderNext

(* And so it is in every behaviour of a reader.                            *)
LEMMA CheckInvariant == ReaderSpec => []CheckInv
  <1>1. ReaderInit => CheckInv
    BY DEF ReaderInit, CheckInv
  <1> QED
    BY <1>1, CheckStep, PTL DEF ReaderSpec

(* What a reader remembers, and what it finds.                             *)
LEMMA RememberedLength ==
    ASSUME MemoryKept
    PROVE  /\ size1 \in Nat /\ HasLength(Remembered, size1)
           /\ Remembered \in Seq(Record) /\ root1 = RootOf(Remembered)
  <1>1. Original \in Seq(Content)
    BY VerifierAssumption
  <1>2. PICK n \in Nat : n = Len(Original) /\ DOMAIN Original = 1 .. n
    BY <1>1
  <1>3. size1 \in 0 .. n
    BY <1>2, ReaderAssumption DEF MemoryKept
  <1>4. \A i \in 1 .. n : OriginalRecord(i) \in Record
    <2> TAKE i \in 1 .. n
    <2>1. Original[i] \in Content /\ i - 1 \in 0 .. Len(Original)
      BY <1>1, <1>2
    <2>2. OriginalHash(i - 1) \in HashValue
      BY <2>1, OriginalHashType DEF HashValue
    <2> QED
      BY <2>1, <2>2, LinkedType DEF OriginalRecord
  <1>5. OriginalLedger \in Seq(Record) /\ Len(OriginalLedger) = n
    BY <1>2, <1>4 DEF OriginalLedger
  <1>6. Remembered \in Seq(Record) /\ Len(Remembered) = size1
    BY <1>3, <1>5 DEF Remembered
  <1> QED
    BY <1>3, <1>6 DEF MemoryKept, HasLength, Remembered

(* A prefix, entry by entry.                                               *)
LEMMA PrefixByIndex ==
    ASSUME NEW T, NEW s \in Seq(T), NEW t \in Seq(T)
    PROVE  IsPrefix(s, t) <=> Len(s) <= Len(t) /\ \A i \in 1 .. Len(s) : s[i] = t[i]
  <1>1. CASE ~(Len(s) <= Len(t))
    BY <1>1 DEF IsPrefix
  <1>2. CASE Len(s) <= Len(t)
    <2>1. SubSeq(s, 1, Len(s)) = s
      OBVIOUS
    <2>2. SubSeq(t, 1, Len(s)) \in Seq(T) /\ Len(SubSeq(t, 1, Len(s))) = Len(s)
          /\ \A i \in 1 .. Len(s) : SubSeq(t, 1, Len(s))[i] = t[i]
      BY <1>2
    <2>3. s = SubSeq(t, 1, Len(s)) <=> \A i \in 1 .. Len(s) : s[i] = t[i]
      BY <2>2, SeqEqual
    <2> QED
      BY <1>2, <2>1, <2>3 DEF IsPrefix
  <1> QED
    BY <1>1, <1>2

(* What a reader remembers is the beginning of what it finds exactly when  *)
(* the records agree.                                                      *)
LEMMA RememberedPrefix ==
    ASSUME VerifierTypeOK, MemoryKept
    PROVE  IsPrefix(Remembered, records)
             <=> size1 <= Len(records) /\ \A i \in 1 .. size1 : Remembered[i] = records[i]
  <1>1. Remembered \in Seq(Record) /\ Len(Remembered) = size1
    BY RememberedLength DEF HasLength
  <1>2. records \in Seq(Record)
    BY VerifierAssumption DEF VerifierTypeOK
  <1> QED
    BY <1>1, <1>2, PrefixByIndex

(* What an answer proves with is a sequence of roots.                      *)
LEMMA AnswerType ==
    ASSUME MemoryKept, NEW found, Answered(found)
    PROVE  /\ size1 \in 1 .. answer.size2
           /\ answer.proof \in Seq(RootsIn(found, answer.size2))
  <1>1. size1 \in 1 .. answer.size2
    BY RememberedLength DEF Answered, CanProve
  <1>2. answer.size2 \in Nat /\ answer.proof = ConsistencyProof(found, size1, answer.size2)
    BY DEF Answered
  <1>3. ConsistencyProof(found, size1, answer.size2) \in Seq(RootsIn(found, answer.size2))
    BY <1>1, <1>2, ProofForm
  <1> QED
    BY <1>1, <1>2, <1>3

(***************************************************************************)
(* CheckpointHonoured: a reader whose check passes finds every record it   *)
(* verified earlier, unchanged and in order, for any ledger, anything that *)
(* was put in its place, hashes recomputed or not, and whichever of its    *)
(* states the proof was computed from.                                     *)
(***************************************************************************)
THEOREM ReaderHonoursCheckpoint == ReaderSpec => []CheckpointHonoured
  <1>1. VerifierTypeOK /\ MemoryKept /\ CheckInv => CheckpointHonoured
    <2> SUFFICES ASSUME VerifierTypeOK, MemoryKept, CheckInv, verdict = "accepted"
                 PROVE  IsPrefix(Remembered, records)
      BY DEF CheckpointHonoured
    <2>1. Verified /\ answer # NoAnswer
      BY DEF CheckInv
    <2>2. PICK found : Answered(found)
      BY <2>1 DEF CheckInv
    <2>3. size1 \in Nat /\ HasLength(Remembered, size1) /\ root1 = RootOf(Remembered)
      BY RememberedLength
    <2>4. PICK n2 \in Nat : n2 = Len(records) /\ HasLength(records, n2)
      BY VerifierAssumption, LenProperties DEF VerifierTypeOK, HasLength
    <2>5. ProofVerifies(size1, n2, answer.proof, RootOf(Remembered), RootOf(records))
      BY <2>1, <2>3, <2>4 DEF Verified
    <2>6. answer.proof \in Seq(RootsIn(found, answer.size2))
      BY <2>2, AnswerType
    <2>7. size1 <= n2 /\ \A i \in 1 .. size1 : Remembered[i] = records[i]
      BY <2>3, <2>4, <2>5, <2>6, ProofSound
    <2> QED
      BY <2>4, <2>7, RememberedPrefix
  <1> QED
    BY <1>1, ReaderRunsVerifier, VerifierTypeCorrect, ReaderMemory, CheckInvariant, PTL

(***************************************************************************)
(* GrowthAccepted: and an artifact that only grew is never turned down, as *)
(* long as the proof was computed for the size the root is of.             *)
(***************************************************************************)
THEOREM ReaderAcceptsGrowth == ReaderSpec => []GrowthAccepted
  <1>1. VerifierTypeOK /\ MemoryKept /\ CheckInv => GrowthAccepted
    <2> SUFFICES ASSUME VerifierTypeOK, MemoryKept, CheckInv, verdict = "refused", size1 > 0,
                        answer = NoAnswer \/ (answer.of = records /\ answer.size2 = Len(records)),
                        IsPrefix(Remembered, records)
                 PROVE  FALSE
      BY DEF GrowthAccepted
    <2>1. size1 \in Nat /\ HasLength(Remembered, size1) /\ root1 = RootOf(Remembered)
      BY RememberedLength
    <2>2. PICK n2 \in Nat : n2 = Len(records) /\ HasLength(records, n2)
      BY VerifierAssumption, LenProperties DEF VerifierTypeOK, HasLength
    <2>3. 1 <= size1 /\ size1 <= n2 /\ \A i \in 1 .. size1 : Remembered[i] = records[i]
      BY <2>1, <2>2, RememberedPrefix
    <2>4. CanProve(records, size1, Len(records))
      BY <2>1, <2>2, <2>3 DEF CanProve
    <2>5. answer # NoAnswer /\ ~Verified
      BY <2>4 DEF CheckInv
    <2>6. PICK found : Answered(found)
      BY <2>5 DEF CheckInv
    <2>7. answer.proof = ConsistencyProof(records, size1, n2)
      BY <2>2, <2>5, <2>6 DEF Answered
    <2>8. ProofVerifies(size1, n2, ConsistencyProof(records, size1, n2),
                        RootOf(Remembered), RootOf(records))
      BY <2>1, <2>2, <2>3, ProofComplete
    <2> QED
      BY <2>1, <2>2, <2>5, <2>7, <2>8 DEF Verified
  <1> QED
    BY <1>1, ReaderRunsVerifier, VerifierTypeCorrect, ReaderMemory, CheckInvariant, PTL

(***************************************************************************)
(* What is remembered stays what was verified, and what was answered is a  *)
(* proof for a size that there was, and a short one.                       *)
(***************************************************************************)
THEOREM ReaderTypeCorrect == ReaderSpec => []ReaderTypeOK
  <1>1. MemoryKept /\ CheckInv => ReaderTypeOK
    <2> SUFFICES ASSUME MemoryKept, CheckInv PROVE ReaderTypeOK
      OBVIOUS
    <2>1. CASE answer = NoAnswer
      <3>1. PICK bits \in Nat : bits = BitLength(0)
        BY BitLengthFacts
      <3>2. Len(<< >>) = 0
        OBVIOUS
      <3>3. answer.size2 = 0 /\ answer.of = << >> /\ answer.proof = << >>
        BY <2>1 DEF NoAnswer
      <3>4. Len(answer.proof) <= BitLength(answer.size2) + 1
        BY <3>1, <3>2, <3>3
      <3> QED
        BY <3>2, <3>3, <3>4 DEF ReaderTypeOK, MemoryKept, Remembered
    <2>2. CASE answer # NoAnswer
      <3>1. PICK found : Answered(found)
        BY <2>2 DEF CheckInv
      <3>2. size1 \in 1 .. answer.size2
        BY <3>1, AnswerType
      <3>3. answer.size2 \in Nat /\ answer.proof = ConsistencyProof(found, size1, answer.size2)
            /\ answer.size2 <= Len(answer.of)
        BY <3>1 DEF Answered, CanProve
      <3>4. Len(answer.proof) <= BitLength(answer.size2) + 1
        BY <3>2, <3>3, ProofIsShort
      <3> QED
        BY <3>3, <3>4 DEF ReaderTypeOK, MemoryKept, Remembered
    <2> QED
      BY <2>1, <2>2
  <1> QED
    BY <1>1, ReaderMemory, CheckInvariant, PTL
=============================================================================
