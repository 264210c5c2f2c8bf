---------------------- MODULE IntegrationReferencesProofs ----------------------
(***************************************************************************)
(* integration-references.jsonl, for any number of importers and appenders *)
(* and any sources, fingerprints and exports.                              *)
(***************************************************************************)
EXTENDS IntegrationReferences, SequenceTheorems, FunctionTheorems,
        FiniteSetTheorems, WellFoundedInduction, TLAPS

-----------------------------------------------------------------------------
(* Facts about the data.                                                   *)

(* Every nonempty set of natural numbers has a least member: the form of   *)
(* induction the proofs below use.                                         *)
LEMMA LeastMember ==
    ASSUME NEW S, S \subseteq Nat, S # {}
    PROVE  \E n \in S : \A m \in S : n <= m
  <1>1. PICK n \in S : \A m \in S : ~(<<m, n>> \in OpToRel(<, Nat))
    BY NatLessThanWellFounded, WFMin
  <1>2. ASSUME NEW m \in S PROVE n <= m
    <2>1. ~(<<m, n>> \in OpToRel(<, Nat))
      BY <1>1
    <2> QED
      BY <2>1 DEF OpToRel
  <1> QED
    BY <1>2

LEMMA LinkedFacts ==
    ASSUME NEW c \in Content, NEW h \in HashValue
    PROVE  /\ Linked(c, h) \in Record
           /\ Linked(c, h).content = c /\ Linked(c, h).prev = h
           /\ Linked(c, h).hash = Append(h, c)
  <1>1. Append(h, c) \in HashValue
    BY AppendProperties DEF HashValue
  <1> QED
    BY <1>1 DEF Linked, Record, RecordHash

(* chain_records commits, in each record, to the contents before it.       *)
CommittedBefore(contents, i) ==
    Linked(contents[i], SubSeq(contents, 1, i - 1))

LEMMA CommittedFacts ==
    ASSUME NEW contents \in Seq(Content), NEW i \in 1 .. Len(contents)
    PROVE  /\ CommittedBefore(contents, i) \in Record
           /\ CommittedBefore(contents, i).content = contents[i]
           /\ i = 1 => CommittedBefore(contents, i) = Linked(contents[i], NoHash)
           /\ i # 1 => CommittedBefore(contents, i) =
                         Linked(contents[i], CommittedBefore(contents, i - 1).hash)
  <1>1. Len(contents) \in Nat /\ contents[i] \in Content
    BY LenProperties, ElementOfSeq
  <1>2. \A j \in 1 .. Len(contents) :
          /\ SubSeq(contents, 1, j - 1) \in HashValue
          /\ Len(SubSeq(contents, 1, j - 1)) = j - 1
          /\ \A k \in 1 .. j - 1 : SubSeq(contents, 1, j - 1)[k] = contents[k]
    <2> TAKE j \in 1 .. Len(contents)
    <2>1. 1 \in Int /\ j - 1 \in Int /\ 1 - 1 <= j - 1 /\ j - 1 <= Len(contents)
      BY <1>1
    <2>2. \A k \in 1 .. j - 1 : contents[k] \in Content
      BY <1>1, <2>1, ElementOfSeq
    <2> QED
      BY <1>1, <2>1, <2>2, SubSeqProperties DEF HashValue
  <1>3. /\ CommittedBefore(contents, i) \in Record
        /\ CommittedBefore(contents, i).content = contents[i]
    BY <1>1, <1>2, LinkedFacts DEF CommittedBefore
  <1>4. ASSUME i = 1 PROVE SubSeq(contents, 1, i - 1) = NoHash
    <2>1. Len(SubSeq(contents, 1, i - 1)) = 0
      BY <1>1, <1>2, <1>4
    <2> QED
      BY <1>2, <2>1, EmptySeq DEF NoHash, HashValue
  <1>5. ASSUME i # 1
        PROVE  SubSeq(contents, 1, i - 1) = CommittedBefore(contents, i - 1).hash
    <2>1. i - 1 \in 1 .. Len(contents) /\ contents[i - 1] \in Content
      BY <1>1, <1>5, ElementOfSeq
    <2> DEFINE s == SubSeq(contents, 1, i - 1)
               t == SubSeq(contents, 1, (i - 1) - 1)
    <2>2. /\ s \in Seq(Content) /\ Len(s) = i - 1
          /\ \A k \in 1 .. i - 1 : s[k] = contents[k]
      BY <1>2 DEF HashValue
    <2>3. /\ t \in Seq(Content) /\ Len(t) = (i - 1) - 1
          /\ \A k \in 1 .. (i - 1) - 1 : t[k] = contents[k]
      BY <1>2, <2>1 DEF HashValue
    <2>4. CommittedBefore(contents, i - 1).hash = Append(t, contents[i - 1])
      BY <2>1, <2>3, LinkedFacts DEF CommittedBefore, HashValue
    <2> HIDE DEF s, t
    <2>5. /\ Append(t, contents[i - 1]) \in Seq(Content)
          /\ Len(Append(t, contents[i - 1])) = i - 1
          /\ \A k \in 1 .. i - 1 : Append(t, contents[i - 1])[k] = contents[k]
      BY <1>1, <2>1, <2>3, AppendProperties
    <2>6. s = Append(t, contents[i - 1])
      BY <1>1, <2>2, <2>5, SeqEqual
    <2> QED
      BY <2>4, <2>6 DEF s
  <1> QED
    BY <1>3, <1>4, <1>5 DEF CommittedBefore

LEMMA ChainRecordsForm ==
    ASSUME NEW contents \in Seq(Content)
    PROVE  /\ DOMAIN ChainRecords(contents) = 1 .. Len(contents)
           /\ \A i \in 1 .. Len(contents) :
                ChainRecords(contents)[i] = CommittedBefore(contents, i)
  <1>1. Len(contents) \in Nat /\ DOMAIN contents = 1 .. Len(contents)
    BY LenProperties
  <1> DEFINE Next1(f) == [i \in DOMAIN contents |->
                  Linked(contents[i], IF i = 1 THEN NoHash ELSE f[i - 1].hash)]
             closed == [i \in DOMAIN contents |-> CommittedBefore(contents, i)]
             chain == ChainRecords(contents)
  <1>2. closed = Next1(closed)
    <2>1. ASSUME NEW i \in DOMAIN contents
          PROVE  closed[i] = Linked(contents[i],
                                IF i = 1 THEN NoHash ELSE closed[i - 1].hash)
      <3>1. CASE i = 1
        BY <1>1, <3>1, CommittedFacts
      <3>2. CASE i # 1
        <4>1. i - 1 \in DOMAIN contents
          BY <1>1, <3>2
        <4> QED
          BY <1>1, <3>2, <4>1, CommittedFacts
      <3> QED
        BY <3>1, <3>2
    <2> QED
      BY <2>1
  <1>3. chain = CHOOSE f : f = Next1(f)
    BY DEF ChainRecords
  <1>4. chain = Next1(chain)
    BY <1>2, <1>3
  <1>5. DOMAIN chain = DOMAIN contents
    BY <1>4
  <1>6. \A i \in DOMAIN contents :
          chain[i] = Linked(contents[i], IF i = 1 THEN NoHash ELSE chain[i - 1].hash)
    BY <1>4
  <1> HIDE DEF chain, closed, Next1
  <1> DEFINE bad == {i \in 1 .. Len(contents) : chain[i] # CommittedBefore(contents, i)}
  <1>7. bad = {}
    <2> SUFFICES ASSUME bad # {} PROVE FALSE
      OBVIOUS
    <2>1. bad \subseteq Nat
      BY <1>1
    <2>2. PICK n \in bad : \A m \in bad : n <= m
      <3> HIDE DEF bad
      <3> QED
        BY <2>1, LeastMember
    <2>3. n \in 1 .. Len(contents) /\ chain[n] # CommittedBefore(contents, n)
      OBVIOUS
    <2>4. CASE n = 1
      BY <1>1, <1>6, <2>3, <2>4, CommittedFacts
    <2>5. CASE n # 1
      <3>1. n - 1 \in 1 .. Len(contents) /\ n - 1 \notin bad
        BY <1>1, <2>2, <2>3, <2>5
      <3>2. chain[n - 1] = CommittedBefore(contents, n - 1)
        BY <3>1
      <3> QED
        BY <1>1, <1>6, <2>3, <2>5, <3>2, CommittedFacts
    <2> QED
      BY <2>4, <2>5
  <1> QED
    BY <1>1, <1>5, <1>7 DEF chain

(* SetToSeq lists a finite set.                                            *)
LEMMA SetToSeqFacts ==
    ASSUME NEW S, IsFiniteSet(S)
    PROVE  /\ SetToSeq(S) \in [1 .. Cardinality(S) -> S]
           /\ SetToSeq(S) \in Seq(S)
           /\ DOMAIN SetToSeq(S) = 1 .. Len(SetToSeq(S))
  <1>1. Cardinality(S) \in Nat /\ ExistsBijection(1 .. Cardinality(S), S)
    BY FS_CardinalityType
  <1>2. PICK f \in [1 .. Cardinality(S) -> S] :
               IsInjective(f)
    BY <1>1 DEF ExistsBijection, Bijection, Injection
  <1>4. SetToSeq(S) \in [1 .. Cardinality(S) -> S]
    BY <1>2 DEF SetToSeq
  <1>5. SetToSeq(S) \in Seq(S)
    BY <1>1, <1>4, SeqDef
  <1> QED
    BY <1>4, <1>5, LenProperties

(* What import-pmf-radar writes: a line for each event, in one chain.      *)
LEMMA ImportedLinesFacts ==
    ASSUME NEW x \in Export
    PROVE  LET lines == ImportedLines(x)
           IN  /\ lines \in Seq(Lines)
               /\ \A i \in 1 .. Len(lines) :
                    lines[i].parses /\ \E e \in x : lines[i].entry.content = Imported(e)
               /\ Valid(lines)
  <1> DEFINE order == SetToSeq(x)
             contents == [i \in DOMAIN order |-> Imported(order[i])]
             chain == ChainRecords(contents)
             lines == [i \in DOMAIN chain |-> Stored(chain[i])]
  <1>1. IsFiniteSet(x) /\ \A e \in x : Imported(e) \in Content
    BY ReferenceAssumption
  <1>2. order \in Seq(x) /\ DOMAIN order = 1 .. Len(order) /\ Len(order) \in Nat
    BY <1>1, SetToSeqFacts, LenProperties
  <1>3. /\ contents \in Seq(Content) /\ Len(contents) = Len(order)
        /\ \A i \in 1 .. Len(order) : order[i] \in x /\ contents[i] = Imported(order[i])
    <2> HIDE DEF order
    <2>1. \A i \in 1 .. Len(order) : order[i] \in x
      BY <1>2, ElementOfSeq
    <2>2. contents \in [1 .. Len(order) -> Content]
      BY <1>1, <1>2, <2>1
    <2>3. contents \in Seq(Content)
      BY <1>2, <2>2, SeqDef
    <2>4. Len(contents) = Len(order)
      BY <1>2, <2>2, <2>3, LenProperties
    <2> QED
      BY <1>2, <2>1, <2>3, <2>4
  <1> HIDE DEF order, contents
  <1>4. /\ DOMAIN chain = 1 .. Len(contents)
        /\ \A i \in 1 .. Len(contents) : chain[i] = CommittedBefore(contents, i)
    BY <1>3, ChainRecordsForm
  <1> HIDE DEF chain
  <1>5. \A i \in 1 .. Len(contents) :
          /\ lines[i] = Stored(CommittedBefore(contents, i))
          /\ lines[i].parses /\ lines[i].entry = CommittedBefore(contents, i)
          /\ CommittedBefore(contents, i) \in Record
          /\ CommittedBefore(contents, i).content = contents[i]
    BY <1>3, <1>4, CommittedFacts DEF Stored
  <1>6. lines \in [1 .. Len(contents) -> Lines]
    BY <1>4, <1>5 DEF Stored, Lines
  <1>7. lines \in Seq(Lines) /\ Len(lines) = Len(contents) /\ DOMAIN lines = 1 .. Len(contents)
    BY <1>2, <1>3, <1>6, SeqDef, LenProperties
  <1>8. lines = ImportedLines(x)
    BY DEF ImportedLines, order, contents, chain
  <1> HIDE DEF lines
  <1>9. ASSUME NEW i \in 1 .. Len(lines)
        PROVE  lines[i].parses /\ \E e \in x : lines[i].entry.content = Imported(e)
    BY <1>3, <1>5, <1>7
  <1>10. ASSUME NEW i \in DOMAIN lines
         PROVE  /\ lines[i].parses
                /\ i > 1 => lines[i - 1].parses
                /\ lines[i].entry.prev = HashAt(lines, i - 1)
                /\ lines[i].entry.hash = RecordHash(lines[i].entry.content, lines[i].entry.prev)
    <2>1. i \in 1 .. Len(contents) /\ contents[i] \in Content
      BY <1>3, <1>7, ElementOfSeq
    <2>2. i # 1 => i - 1 \in 1 .. Len(contents)
      BY <1>2, <1>3, <2>1
    <2>3. lines[i].parses /\ (i > 1 => lines[i - 1].parses)
      BY <1>2, <1>3, <1>5, <2>1, <2>2
    <2>4. lines[i].entry = CommittedBefore(contents, i)
      BY <1>5, <2>1
    <2>5. /\ lines[i].entry.prev = SubSeq(contents, 1, i - 1)
          /\ lines[i].entry.hash = RecordHash(lines[i].entry.content, lines[i].entry.prev)
      BY <1>3, <2>1, <2>4 DEF CommittedBefore, Linked
    <2>6. CASE i = 1
      <3>1. HashAt(lines, i - 1) = NoHash
        BY <2>6 DEF HashAt
      <3>2. lines[i].entry.prev = NoHash
        BY <1>3, <2>1, <2>4, <2>6, CommittedFacts DEF Linked
      <3> QED
        BY <2>3, <2>5, <3>1, <3>2
    <2>7. CASE i # 1
      <3>1. HashAt(lines, i - 1) = lines[i - 1].entry.hash
        BY <1>2, <1>3, <2>1, <2>7 DEF HashAt
      <3>2. lines[i - 1].entry = CommittedBefore(contents, i - 1)
        BY <1>5, <2>2, <2>7
      <3>3. lines[i].entry.prev = CommittedBefore(contents, i - 1).hash
        BY <1>3, <2>1, <2>4, <2>7, CommittedFacts DEF Linked
      <3> QED
        BY <2>3, <2>5, <3>1, <3>2, <3>3
    <2> QED
      BY <2>6, <2>7
  <1> QED
    BY <1>7, <1>8, <1>9, <1>10 DEF Valid

(* A line of the ledger after a write is torn, was there or was written.   *)
LEMMA WrittenAtParts ==
    ASSUME NEW S, Garbled \in S, refs \in Seq(S), NEW at \in Nat,
           NEW lines \in Seq(S), at > Len(refs) => lines # << >>,
           NEW new \in WrittenAt(at, lines)
    PROVE  new \in Seq(S)
  <1>1. Len(refs) \in Nat /\ \A i \in 1 .. Len(refs) : refs[i] \in S
    BY LenProperties, ElementOfSeq
  <1>2. <<Garbled>> \in Seq(S)
    <2>1. <<Garbled>> = Append(<< >>, Garbled)
      OBVIOUS
    <2> QED
      BY <2>1, AppendProperties, EmptySeq
  <1>3. CASE at = Len(refs)
    BY <1>3, ConcatProperties DEF WrittenAt
  <1>4. CASE at > Len(refs)
    <2>1. Tail(lines) \in Seq(S)
      BY <1>4, HeadTailProperties
    <2>2. refs \o <<Garbled>> \in Seq(S)
      BY <1>2, ConcatProperties
    <2>3. (refs \o <<Garbled>>) \o Tail(lines) \in Seq(S)
      BY <2>1, <2>2, ConcatProperties
    <2>4. new = (refs \o <<Garbled>>) \o Tail(lines)
      <3>1. at # Len(refs)
        BY <1>1, <1>4
      <3>2. WrittenAt(at, lines) = {refs \o <<Garbled>> \o Tail(lines)}
        BY <1>4, <3>1, Zenon DEF WrittenAt
      <3> QED
        BY <3>2
    <2> QED
      BY <2>3, <2>4
  <1>5. CASE at < Len(refs)
    <2> DEFINE before == SubSeq(refs, 1, at)
               behind(k) == SubSeq(refs, k, Len(refs))
    <2>1. PICK k \in at + 2 .. Len(refs) + 1 :
             new = (before \o lines) \o behind(k)
             \/ new = ((before \o lines) \o <<Garbled>>) \o behind(k)
      <3>1. at # Len(refs) /\ ~(at > Len(refs))
        BY <1>1, <1>5
      <3>2. WrittenAt(at, lines) =
              {(before \o lines) \o behind(k) : k \in at + 2 .. Len(refs) + 1} \union
              {((before \o lines) \o <<Garbled>>) \o behind(k) : k \in at + 2 .. Len(refs) + 1}
        BY <3>1, Zenon DEF WrittenAt
      <3> HIDE DEF before, behind
      <3> QED
        BY <3>2
    <2>2. before \in Seq(S)
      <3>1. \A i \in 1 .. at : refs[i] \in S
        BY <1>1, <1>5
      <3> QED
        BY <3>1, SubSeqProperties
    <2>3. behind(k) \in Seq(S)
      <3>1. k \in Int /\ Len(refs) \in Int /\ \A i \in k .. Len(refs) : refs[i] \in S
        BY <1>1
      <3> QED
        BY <3>1, SubSeqProperties
    <2> HIDE DEF before, behind
    <2>4. before \o lines \in Seq(S)
      BY <2>2, ConcatProperties
    <2>5. (before \o lines) \o <<Garbled>> \in Seq(S)
      BY <1>2, <2>4, ConcatProperties
    <2> QED
      BY <2>1, <2>3, <2>4, <2>5, ConcatProperties
  <1> QED
    BY <1>1, <1>3, <1>4, <1>5

(* The references of a ledger whose lines all come from a set.             *)
LEMMA ReferencesWithin ==
    ASSUME NEW f, NEW C, f \in Seq({l \in Lines : l.parses => l.entry.content \in C})
    PROVE  f \in Seq(Lines) /\ References(f) \subseteq C
  <1> DEFINE within == {l \in Lines : l.parses => l.entry.content \in C}
  <1>1. f \in Seq(Lines)
    BY SeqMonotonic
  <1>2. DOMAIN f = 1 .. Len(f) /\ \A i \in 1 .. Len(f) : f[i] \in within
    <2> HIDE DEF within
    <2>1. f \in Seq(within)
      BY DEF within
    <2> QED
      BY <2>1, LenProperties, ElementOfSeq
  <1> QED
    BY <1>1, <1>2 DEF References

(* A write brings the references of its lines into the ledger and no other. *)
LEMMA WrittenAtReferences ==
    ASSUME refs \in Seq(Lines), NEW at \in Nat,
           NEW lines \in Seq(Lines), at > Len(refs) => lines # << >>,
           NEW C, \A i \in 1 .. Len(lines) : lines[i].parses => lines[i].entry.content \in C,
           NEW new \in WrittenAt(at, lines)
    PROVE  new \in Seq(Lines) /\ References(new) \subseteq References(refs) \union C
  <1> DEFINE all == References(refs) \union C
             within == {l \in Lines : l.parses => l.entry.content \in all}
  <1>1. /\ DOMAIN refs = 1 .. Len(refs) /\ Len(refs) \in Nat
        /\ \A i \in 1 .. Len(refs) : refs[i] \in Lines
    BY LenProperties, ElementOfSeq
  <1>2. \A i \in 1 .. Len(refs) : refs[i] \in within
    BY <1>1 DEF References
  <1>3. Len(lines) \in Nat /\ \A i \in 1 .. Len(lines) : lines[i] \in within
    BY LenProperties, ElementOfSeq
  <1>4. Garbled \in within
    BY DEF Garbled, Lines
  <1>5. refs \in Seq(within) /\ lines \in Seq(within)
    <2> HIDE DEF within
    <2>1. refs \in [1 .. Len(refs) -> within] /\ lines \in [1 .. Len(lines) -> within]
      BY <1>1, <1>2, <1>3, LenProperties
    <2> QED
      BY <1>1, <1>3, <2>1, SeqDef
  <1>6. new \in Seq(within)
    <2> HIDE DEF within
    <2> QED
      BY <1>4, <1>5, WrittenAtParts
  <1> QED
    BY <1>6, ReferencesWithin

-----------------------------------------------------------------------------
(***************************************************************************)
(* Types.  What a process is writing has the fields that the steps behind  *)
(* it have filled in, and the ledger is there from the first of them that  *)
(* opened it.                                                              *)
(***************************************************************************)
Request == [source : Source, fingerprint : Fingerprint]
LinkedRequest == [source : Source, fingerprint : Fingerprint, entry : Record]
PlacedRequest == [source : Source, fingerprint : Fingerprint, entry : Record, at : Nat]
Materialization == [export : Export, force : Forcing, file : {1, 2}]

ImporterTyped(p) ==
    \/ pc[p] = "idle" /\ job[p] = NoJob
    \/ pc[p] = "waiting" /\ job[p] \in Request
    \/ pc[p] = "locked" /\ job[p] \in Request /\ exists
    \/ pc[p] = "linked" /\ job[p] \in LinkedRequest /\ exists
    \/ pc[p] \in {"sought", "written"} /\ job[p] \in PlacedRequest /\ exists

AppenderTyped(p) ==
    \/ pc[p] = "idle" /\ job[p] = NoJob
    \/ pc[p] = "linked" /\ job[p] \in [entry : Record] /\ exists

RadarTyped(p) ==
    \/ pc[p] = "idle" /\ job[p] = NoJob
    \/ /\ pc[p] \in {"check", "truncate", "text"}
       /\ job[p] \in Materialization
       /\ pc[p] = "text" /\ job[p].file = 2 => exists

Typed(p) ==
    /\ p \in Importers => ImporterTyped(p)
    /\ p \in Appenders => AppenderTyped(p)
    /\ p \in Radars => RadarTyped(p)

Jobs ==
    /\ DOMAIN pc = Process /\ DOMAIN job = Process
    /\ \A p \in Process : Typed(p)

LedgerTyped ==
    /\ setting \in Settings
    /\ refs \in Seq(Lines) /\ exists \in BOOLEAN
    /\ refs # << >> => exists
    /\ events = NoFile \/ \E x \in Export : events \subseteq x
    /\ handoffLock \in Importers \union {NoOne}
    /\ ledgerLock \in Appenders \union {NoOne}
    /\ appended \subseteq Content
    /\ reports \subseteq [source : Source, fingerprint : Fingerprint,
                          as : {"written", "duplicate", "refused"}]
    /\ calls \in 0 .. setting.maxCalls

TypeInv == LedgerTyped /\ Jobs

(* A process that is not idle is writing something.                        *)
LEMMA BusyHasJob ==
    ASSUME NEW j
    PROVE  /\ j \in Request \/ j \in LinkedRequest \/ j \in PlacedRequest
                \/ j \in Materialization \/ j \in [entry : Record] => j # NoJob
  <1>1. DOMAIN NoJob = {}
    BY DEF NoJob
  <1>2. ASSUME j \in Request PROVE DOMAIN j # {}
    BY <1>2 DEF Request
  <1>3. ASSUME j \in LinkedRequest PROVE DOMAIN j # {}
    BY <1>3 DEF LinkedRequest
  <1>4. ASSUME j \in PlacedRequest PROVE DOMAIN j # {}
    BY <1>4 DEF PlacedRequest
  <1>5. ASSUME j \in Materialization PROVE DOMAIN j # {}
    BY <1>5 DEF Materialization
  <1>6. ASSUME j \in [entry : Record] PROVE DOMAIN j # {}
    BY <1>6
  <1> QED
    BY <1>1, <1>2, <1>3, <1>4, <1>5, <1>6

LEMMA TypeInvImplies == TypeInv => TypeOK
  <1> SUFFICES ASSUME TypeInv PROVE TypeOK
    OBVIOUS
  <1>1. ASSUME NEW p \in Process PROVE pc[p] = "idle" <=> job[p] = NoJob
    <2>1. CASE p \in Importers
      BY <2>1, BusyHasJob DEF TypeInv, Jobs, Typed, ImporterTyped
    <2>2. CASE p \in Appenders
      BY <2>2, BusyHasJob DEF TypeInv, Jobs, Typed, AppenderTyped
    <2>3. CASE p \in Radars
      BY <2>3, BusyHasJob DEF TypeInv, Jobs, Typed, RadarTyped
    <2> QED
      BY <2>1, <2>2, <2>3 DEF Process
  <1> QED
    BY <1>1 DEF TypeInv, LedgerTyped, TypeOK

LEMMA TypeInit == Init => TypeInv
  <1> SUFFICES ASSUME Init PROVE TypeInv
    OBVIOUS
  <1>0. setting \in Settings /\ setting.maxCalls \in Nat
    BY ReferenceAssumption DEF Init
  <1>1. LedgerTyped
    <2>1. calls \in 0 .. setting.maxCalls
      BY <1>0 DEF Init
    <2> QED
      BY <1>0, <2>1, EmptySeq DEF Init, LedgerTyped
  <1>2. Jobs
    BY DEF Init, Jobs, Typed, ImporterTyped, AppenderTyped, RadarTyped
  <1> QED
    BY <1>1, <1>2 DEF TypeInv

(* A step of one process leaves the other ones where they are.             *)
OthersStay(p) ==
    /\ DOMAIN pc' = Process /\ DOMAIN job' = Process
    /\ \A q \in Process \ {p} : pc'[q] = pc[q] /\ job'[q] = job[q]
    /\ exists => exists'

LEMMA OthersKeepJobs ==
    ASSUME Jobs, NEW p \in Process, OthersStay(p), Typed(p)'
    PROVE  Jobs'
  <1>1. ASSUME NEW q \in Process, q # p PROVE Typed(q)'
    <2>1. pc'[q] = pc[q] /\ job'[q] = job[q] /\ (exists => exists') /\ Typed(q)
      BY <1>1 DEF OthersStay, Jobs
    <2> QED
      BY <2>1 DEF Typed, ImporterTyped, AppenderTyped, RadarTyped
  <1> QED
    BY <1>1 DEF Jobs, OthersStay

LEMMA Moves ==
    ASSUME Jobs, NEW p \in Process, NEW label, NEW what,
           Goto(p, label), Hold(p, what)
    PROVE  /\ DOMAIN pc' = Process /\ DOMAIN job' = Process
           /\ \A q \in Process \ {p} : pc'[q] = pc[q] /\ job'[q] = job[q]
           /\ pc'[p] = label /\ job'[p] = what
  BY DEF Jobs, Goto, Hold

LEMMA MovesOnly ==
    ASSUME Jobs, NEW p \in Process, NEW label, Goto(p, label), UNCHANGED job
    PROVE  /\ DOMAIN pc' = Process /\ DOMAIN job' = Process
           /\ \A q \in Process \ {p} : pc'[q] = pc[q] /\ job'[q] = job[q]
           /\ pc'[p] = label /\ job'[p] = job[p]
  BY DEF Jobs, Goto

(* A process that ends is idle, whatever it was.                           *)
LEMMA EndKeepsTypes ==
    ASSUME TypeInv, NEW p \in Process, End(p), exists => exists'
    PROVE  /\ Jobs' /\ OthersStay(p) /\ pc'[p] = "idle"
           /\ handoffLock' \in Importers \union {NoOne}
           /\ ledgerLock' \in Appenders \union {NoOne}
  <1>1. OthersStay(p) /\ pc'[p] = "idle" /\ job'[p] = NoJob
    BY Moves DEF TypeInv, End, OthersStay
  <1>2. Typed(p)'
    BY <1>1 DEF Typed, ImporterTyped, AppenderTyped, RadarTyped
  <1>3. /\ handoffLock' \in Importers \union {NoOne}
        /\ ledgerLock' \in Appenders \union {NoOne}
    BY DEF TypeInv, LedgerTyped, End
  <1> QED
    BY <1>1, <1>2, <1>3, OthersKeepJobs DEF TypeInv

LEMMA StartTypes ==
    ASSUME TypeInv, NEW p \in Process, Start(p), UNCHANGED setting
    PROVE  pc[p] = "idle" /\ calls' \in 0 .. setting'.maxCalls
  <1>1. setting.maxCalls \in Nat /\ calls \in 0 .. setting.maxCalls
    BY ReferenceAssumption DEF TypeInv, LedgerTyped
  <1> QED
    BY <1>1 DEF Start

(* The hash of the last line of a chain without torn lines.                *)
LEMMA HashAtType ==
    ASSUME NEW f \in Seq(Lines), f # << >> => f[Len(f)].parses
    PROVE  HashAt(f, Len(f)) \in HashValue
  <1>1. CASE Len(f) = 0
    BY <1>1, EmptySeq DEF HashAt, NoHash, HashValue
  <1>2. CASE Len(f) # 0
    <2>1. Len(f) \in 1 .. Len(f) /\ f # << >>
      BY <1>2, LenProperties, EmptySeq
    <2>2. f[Len(f)] \in Lines /\ f[Len(f)].parses
      BY <2>1, ElementOfSeq
    <2>3. f[Len(f)].entry \in Record
      BY <2>2 DEF Lines
    <2> QED
      BY <1>2, <2>3 DEF HashAt, Record
  <1> QED
    BY <1>1, <1>2

LEMMA HandoffContent ==
    ASSUME NEW s \in Source, NEW f \in Fingerprint
    PROVE  Handoff(s, f) \in Content /\ Handoff(s, f).system = "hplan"
           /\ Handoff(s, f).source = s /\ Handoff(s, f).fingerprint = f
  BY ReferenceAssumption DEF Handoff

LEMMA ReportType ==
    ASSUME TypeInv, NEW p \in Process, job[p].source \in Source,
           job[p].fingerprint \in Fingerprint,
           NEW as \in {"written", "duplicate", "refused"}, Report(p, as)
    PROVE  reports' \subseteq [source : Source, fingerprint : Fingerprint,
                               as : {"written", "duplicate", "refused"}]
  <1> DEFINE told == [source |-> job[p].source, fingerprint |-> job[p].fingerprint, as |-> as]
             kind == [source : Source, fingerprint : Fingerprint,
                      as : {"written", "duplicate", "refused"}]
  <1>1. told \in kind
    OBVIOUS
  <1>2. reports \subseteq kind /\ reports' = reports \union {told}
    BY DEF TypeInv, LedgerTyped, Report
  <1> QED
    BY <1>1, <1>2

(* Processes of one kind are not of another.                               *)
LEMMA OneKind ==
    /\ Process = Importers \union Appenders \union Radars
    /\ NoOne \notin Process
    /\ \A p \in Importers : p \in Process /\ p \notin Appenders /\ p \notin Radars
    /\ \A p \in Appenders : p \in Process /\ p \notin Importers /\ p \notin Radars
    /\ \A p \in Radars : p \in Process /\ p \notin Importers /\ p \notin Appenders
  BY ReferenceAssumption DEF Process

LEMMA ImportTypes ==
    ASSUME TypeInv, NEW p \in Importers,
           StartImport(p) \/ LockHandoff(p) \/ Import(p)
    PROVE  TypeInv'
  <1> USE OneKind
  <1>0. p \in Process /\ ImporterTyped(p)
    BY DEF TypeInv, Jobs, Typed
  <1>1. CASE StartImport(p)
    <2>1. PICK s \in Source, f \in Fingerprint :
            Hold(p, [source |-> s, fingerprint |-> f])
      BY <1>1 DEF StartImport
    <2>2. Goto(p, "waiting") /\ exists' = exists
      BY <1>1 DEF StartImport
    <2>3. OthersStay(p) /\ Typed(p)'
      BY <1>0, <2>1, <2>2, Moves
         DEF TypeInv, OthersStay, Typed, ImporterTyped, Request
    <2>4. LedgerTyped'
      BY <1>0, <1>1, StartTypes DEF TypeInv, LedgerTyped, StartImport
    <2> QED
      BY <1>0, <2>3, <2>4, OthersKeepJobs DEF TypeInv
  <1>2. CASE LockHandoff(p)
    <2>1. pc[p] = "waiting" /\ Goto(p, "locked") /\ UNCHANGED job /\ exists'
      BY <1>2 DEF LockHandoff
    <2>2. job[p] \in Request
      BY <1>0, <2>1 DEF ImporterTyped
    <2>3. OthersStay(p) /\ Typed(p)'
      BY <1>0, <2>1, <2>2, MovesOnly DEF TypeInv, OthersStay, Typed, ImporterTyped
    <2>4. LedgerTyped'
      BY <1>2 DEF TypeInv, LedgerTyped, LockHandoff
    <2> QED
      BY <1>0, <2>3, <2>4, OthersKeepJobs DEF TypeInv
  <1>3. ASSUME RefuseImport(p) \/ ReportDuplicate(p) PROVE TypeInv'
    <2>1. job[p].source \in Source /\ job[p].fingerprint \in Fingerprint
      BY <1>0, <1>3 DEF RefuseImport, ReportDuplicate, ImporterTyped, Request
    <2>2. End(p) /\ UNCHANGED <<setting, appended, refs, exists, events, calls>>
      BY <1>3 DEF RefuseImport, ReportDuplicate
    <2>3. reports' \subseteq [source : Source, fingerprint : Fingerprint,
                              as : {"written", "duplicate", "refused"}]
      BY <1>0, <1>3, <2>1, ReportType DEF RefuseImport, ReportDuplicate
    <2>4. Jobs' /\ handoffLock' \in Importers \union {NoOne}
                /\ ledgerLock' \in Appenders \union {NoOne}
      BY <1>0, <2>2, EndKeepsTypes
    <2> QED
      BY <2>2, <2>3, <2>4 DEF TypeInv, LedgerTyped
  <1>4. CASE LinkReference(p)
    <2> DEFINE content == Handoff(job[p].source, job[p].fingerprint)
               e == Linked(content, HashAt(refs, Len(refs)))
    <2>1. job[p] \in Request /\ exists /\ pc[p] = "locked"
      BY <1>0, <1>4 DEF LinkReference, ImporterTyped
    <2>2. e \in Record
      <3>1. content \in Content
        BY <2>1, HandoffContent DEF Request
      <3>2. refs # << >> => refs[Len(refs)].parses
        <4> SUFFICES ASSUME refs # << >> PROVE refs[Len(refs)].parses
          OBVIOUS
        <4>1. Len(refs) \in DOMAIN refs
          BY EmptySeq, LenProperties DEF TypeInv, LedgerTyped
        <4> QED
          BY <1>4, <4>1 DEF LinkReference, Valid
      <3>3. HashAt(refs, Len(refs)) \in HashValue
        BY <3>2, HashAtType DEF TypeInv, LedgerTyped
      <3> QED
        BY <3>1, <3>3, LinkedFacts
    <2>3. /\ Hold(p, [source |-> job[p].source, fingerprint |-> job[p].fingerprint,
                      entry |-> e])
          /\ Goto(p, "linked")
          /\ UNCHANGED <<setting, appended, refs, exists, events, handoffLock, ledgerLock, reports, calls>>
      BY <1>4 DEF LinkReference
    <2> HIDE DEF e
    <2>4. OthersStay(p) /\ Typed(p)'
      <3>1. job'[p] \in LinkedRequest /\ pc'[p] = "linked"
        BY <1>0, <2>1, <2>2, <2>3, Moves DEF TypeInv, Request, LinkedRequest
      <3>2. OthersStay(p)
        BY <1>0, <2>3, Moves DEF TypeInv, OthersStay
      <3> QED
        BY <2>1, <2>3, <3>1, <3>2 DEF Typed, ImporterTyped
    <2>5. LedgerTyped'
      BY <2>3 DEF TypeInv, LedgerTyped
    <2> QED
      BY <1>0, <2>4, <2>5, OthersKeepJobs DEF TypeInv
  <1>5. CASE SeekEnd(p)
    <2>1. job[p] \in LinkedRequest /\ exists
      BY <1>0, <1>5 DEF SeekEnd, ImporterTyped
    <2>2. Len(refs) \in Nat
      BY LenProperties DEF TypeInv, LedgerTyped
    <2>3. /\ Hold(p, [source |-> job[p].source, fingerprint |-> job[p].fingerprint,
                      entry |-> job[p].entry, at |-> Len(refs)])
          /\ Goto(p, "sought")
          /\ UNCHANGED <<setting, appended, refs, exists, events, handoffLock, ledgerLock, reports, calls>>
      BY <1>5 DEF SeekEnd
    <2>4. job'[p] \in PlacedRequest /\ pc'[p] = "sought"
      BY <1>0, <2>1, <2>2, <2>3, Moves DEF TypeInv, LinkedRequest, PlacedRequest
    <2>5. OthersStay(p)
      BY <1>0, <2>3, Moves DEF TypeInv, OthersStay
    <2>6. Typed(p)'
      BY <2>1, <2>3, <2>4 DEF Typed, ImporterTyped
    <2>7. LedgerTyped'
      BY <2>3 DEF TypeInv, LedgerTyped
    <2> QED
      BY <1>0, <2>5, <2>6, <2>7, OthersKeepJobs DEF TypeInv
  <1>6. CASE WriteReference(p)
    <2>1. job[p] \in PlacedRequest /\ exists
      BY <1>0, <1>6 DEF WriteReference, ImporterTyped
    <2>2. PICK line \in Lines : refs' \in WrittenAt(job[p].at, <<line>>)
      <3>1. Stored(job[p].entry) \in Lines /\ Garbled \in Lines
        BY <2>1 DEF PlacedRequest, Stored, Garbled, Lines
      <3> QED
        BY <1>6, <3>1 DEF WriteReference
    <2>3. refs' \in Seq(Lines)
      <3>1. <<line>> \in Seq(Lines) /\ <<line>> # << >>
        <4>1. <<line>> = Append(<< >>, line)
          OBVIOUS
        <4> QED
          BY <4>1, AppendProperties, EmptySeq
      <3>2. Garbled \in Lines /\ job[p].at \in Nat
        BY <2>1 DEF PlacedRequest, Garbled, Lines
      <3> QED
        BY <2>2, <3>1, <3>2, WrittenAtParts DEF TypeInv, LedgerTyped
    <2>4. /\ Goto(p, "written") /\ pc[p] = "sought"
          /\ UNCHANGED <<setting, appended, exists, events, handoffLock, ledgerLock, job, reports, calls>>
      BY <1>6 DEF WriteReference
    <2>5. OthersStay(p) /\ Typed(p)'
      BY <1>0, <2>1, <2>4, MovesOnly DEF TypeInv, OthersStay, Typed, ImporterTyped
    <2>6. LedgerTyped'
      BY <2>1, <2>3, <2>4 DEF TypeInv, LedgerTyped
    <2> QED
      BY <1>0, <2>5, <2>6, OthersKeepJobs DEF TypeInv
  <1>7. CASE SyncReference(p)
    <2>1. job[p].source \in Source /\ job[p].fingerprint \in Fingerprint
      BY <1>0, <1>7 DEF SyncReference, ImporterTyped, PlacedRequest
    <2>2. End(p) /\ UNCHANGED <<setting, appended, refs, exists, events, calls>>
      BY <1>7 DEF SyncReference
    <2>3. reports' \subseteq [source : Source, fingerprint : Fingerprint,
                              as : {"written", "duplicate", "refused"}]
      BY <1>0, <1>7, <2>1, ReportType DEF SyncReference
    <2>4. Jobs' /\ handoffLock' \in Importers \union {NoOne}
                /\ ledgerLock' \in Appenders \union {NoOne}
      BY <1>0, <2>2, EndKeepsTypes
    <2> QED
      BY <2>2, <2>3, <2>4 DEF TypeInv, LedgerTyped
  <1> QED
    BY <1>1, <1>2, <1>3, <1>4, <1>5, <1>6, <1>7 DEF Import

LEMMA AppendTypes ==
    ASSUME TypeInv, NEW p \in Appenders, StartAppend(p) \/ FinishAppend(p)
    PROVE  TypeInv'
  <1> USE OneKind
  <1>0. p \in Process /\ AppenderTyped(p)
    BY DEF TypeInv, Jobs, Typed
  <1>1. CASE StartAppend(p)
    <2>1. HashAt(refs, Len(refs)) \in HashValue
      BY <1>1, HashAtType DEF StartAppend, TypeInv, LedgerTyped
    <2>2. PICK content \in Content :
            /\ Hold(p, [entry |-> Linked(content, HashAt(refs, Len(refs)))])
            /\ appended' = appended \union {content}
      BY <1>1 DEF StartAppend
    <2> DEFINE e == Linked(content, HashAt(refs, Len(refs)))
    <2>3. e \in Record
      BY <2>1, LinkedFacts
    <2>4. /\ Hold(p, [entry |-> e]) /\ Goto(p, "linked") /\ exists' = TRUE /\ ledgerLock' = p
          /\ UNCHANGED <<setting, refs, events, handoffLock, reports>>
      BY <1>1, <2>2 DEF StartAppend
    <2> HIDE DEF e
    <2>5. OthersStay(p) /\ Typed(p)'
      <3>1. job'[p] = [entry |-> e] /\ pc'[p] = "linked" /\ OthersStay(p)
        BY <1>0, <2>4, Moves DEF TypeInv, OthersStay
      <3>2. [entry |-> e] \in [entry : Record]
        BY <2>3
      <3> QED
        BY <2>4, <3>1, <3>2 DEF Typed, AppenderTyped
    <2>6. calls' \in 0 .. setting'.maxCalls
      BY <1>0, <1>1, <2>4, StartTypes DEF StartAppend
    <2>7. LedgerTyped'
      BY <2>2, <2>4, <2>6 DEF TypeInv, LedgerTyped
    <2> QED
      BY <1>0, <2>5, <2>7, OthersKeepJobs DEF TypeInv
  <1>2. CASE FinishAppend(p)
    <2>1. job[p] \in [entry : Record] /\ exists
      BY <1>0, <1>2 DEF FinishAppend, AppenderTyped
    <2>2. /\ refs' = Append(refs, Stored(job[p].entry)) /\ End(p)
          /\ UNCHANGED <<setting, appended, exists, events, reports, calls>>
      BY <1>2 DEF FinishAppend
    <2>3. Stored(job[p].entry) \in Lines
      BY <2>1 DEF Stored, Lines
    <2>4. refs' \in Seq(Lines)
      BY <2>2, <2>3, AppendProperties DEF TypeInv, LedgerTyped
    <2>5. Jobs' /\ handoffLock' \in Importers \union {NoOne}
                /\ ledgerLock' \in Appenders \union {NoOne}
      BY <1>0, <2>2, EndKeepsTypes
    <2> QED
      BY <2>1, <2>2, <2>4, <2>5 DEF TypeInv, LedgerTyped
  <1> QED
    BY <1>1, <1>2

(* The two files an import writes, in the order it writes them.            *)
LEMMA TwoFiles ==
    /\ OutputFiles[1] = "events" /\ OutputFiles[2] = "refs"
    /\ Len(OutputFiles) = 2
  BY DEF OutputFiles

LEMMA RadarTypes ==
    ASSUME TypeInv, NEW p \in Radars, StartRadar(p) \/ Materialize(p)
    PROVE  TypeInv'
  <1> USE OneKind
  <1>0. p \in Process /\ RadarTyped(p)
    BY DEF TypeInv, Jobs, Typed
  <1>1. CASE StartRadar(p)
    <2>1. PICK x \in Export, force \in Forcing :
            Hold(p, [export |-> x, force |-> force, file |-> 1])
      BY <1>1 DEF StartRadar
    <2>2. /\ Goto(p, "check") /\ Start(p)
          /\ UNCHANGED <<setting, appended, refs, exists, events, handoffLock, ledgerLock, reports>>
      BY <1>1 DEF StartRadar
    <2>3. job'[p] \in Materialization /\ pc'[p] = "check"
      BY <1>0, <2>1, <2>2, Moves DEF TypeInv, Materialization
    <2>4. OthersStay(p)
      BY <1>0, <2>1, <2>2, Moves DEF TypeInv, OthersStay
    <2>5. Typed(p)'
      BY <2>3 DEF Typed, RadarTyped
    <2>6. calls' \in 0 .. setting'.maxCalls
      BY <1>0, <2>2, StartTypes
    <2>7. LedgerTyped'
      BY <2>2, <2>6 DEF TypeInv, LedgerTyped
    <2> QED
      BY <1>0, <2>4, <2>5, <2>7, OthersKeepJobs DEF TypeInv
  <1>2. CASE StopRadar(p)
    <2>1. End(p) /\ UNCHANGED <<setting, appended, refs, exists, events, reports, calls>>
      BY <1>2 DEF StopRadar
    <2>2. Jobs' /\ handoffLock' \in Importers \union {NoOne}
                /\ ledgerLock' \in Appenders \union {NoOne}
      BY <1>0, <2>1, EndKeepsTypes
    <2> QED
      BY <2>1, <2>2 DEF TypeInv, LedgerTyped
  <1>3. CASE CheckFile(p)
    <2>1. /\ pc[p] = "check" /\ Goto(p, "truncate")
          /\ UNCHANGED <<setting, appended, refs, exists, events, handoffLock, ledgerLock, job, reports, calls>>
      BY <1>3 DEF CheckFile
    <2>2. OthersStay(p) /\ Typed(p)'
      BY <1>0, <2>1, MovesOnly DEF TypeInv, OthersStay, Typed, RadarTyped
    <2>3. LedgerTyped'
      BY <2>1 DEF TypeInv, LedgerTyped
    <2> QED
      BY <1>0, <2>2, <2>3, OthersKeepJobs DEF TypeInv
  <1>4. CASE TruncateFile(p)
    <2>1. /\ pc[p] = "truncate" /\ Goto(p, "text")
          /\ UNCHANGED <<setting, appended, handoffLock, ledgerLock, job, reports, calls>>
      BY <1>4 DEF TruncateFile
    <2>2. job[p] \in Materialization /\ job[p].export \in Export
      BY <1>0, <2>1 DEF RadarTyped, Materialization
    <2>3. CASE job[p].file = 1
      <3>1. events' = {} /\ UNCHANGED <<refs, exists>>
        BY <1>4, <2>3, TwoFiles DEF TruncateFile
      <3>2. OthersStay(p) /\ Typed(p)'
        BY <1>0, <2>1, <2>2, <2>3, <3>1, MovesOnly
           DEF TypeInv, OthersStay, Typed, RadarTyped
      <3>3. LedgerTyped'
        BY <2>1, <2>2, <3>1 DEF TypeInv, LedgerTyped
      <3> QED
        BY <1>0, <3>2, <3>3, OthersKeepJobs DEF TypeInv
    <2>4. CASE job[p].file = 2
      <3>1. refs' = << >> /\ exists' = TRUE /\ UNCHANGED events
        BY <1>4, <2>4, TwoFiles DEF TruncateFile
      <3>2. OthersStay(p) /\ Typed(p)'
        BY <1>0, <2>1, <2>2, <2>4, <3>1, MovesOnly
           DEF TypeInv, OthersStay, Typed, RadarTyped
      <3>3. LedgerTyped'
        BY <2>1, <3>1, EmptySeq DEF TypeInv, LedgerTyped
      <3> QED
        BY <1>0, <3>2, <3>3, OthersKeepJobs DEF TypeInv
    <2> QED
      BY <2>2, <2>3, <2>4 DEF Materialization
  <1>5. CASE WriteFile(p)
    <2>1. pc[p] = "text" /\ UNCHANGED <<setting, appended, exists, reports, calls>>
      BY <1>5 DEF WriteFile
    <2>2. /\ job[p] \in Materialization /\ job[p].export \in Export
          /\ job[p].file = 2 => exists
      BY <1>0, <2>1 DEF RadarTyped, Materialization
    <2>3. CASE job[p].file = 1
      <3>1. events' = job[p].export /\ UNCHANGED refs
        BY <1>5, <2>3, TwoFiles DEF WriteFile
      <3>2. Goto(p, "check") /\ Hold(p, [job[p] EXCEPT !.file = @ + 1])
            /\ UNCHANGED <<handoffLock, ledgerLock>>
        BY <1>5, <2>3, TwoFiles DEF WriteFile
      <3>3. [job[p] EXCEPT !.file = @ + 1] \in Materialization
        BY <2>2, <2>3 DEF Materialization
      <3>4. job'[p] \in Materialization /\ pc'[p] = "check"
        BY <1>0, <3>2, <3>3, Moves DEF TypeInv
      <3>5. OthersStay(p)
        BY <1>0, <2>1, <3>2, Moves DEF TypeInv, OthersStay
      <3>6. Typed(p)'
        BY <3>4 DEF Typed, RadarTyped
      <3>7. LedgerTyped'
        BY <2>1, <2>2, <3>1, <3>2 DEF TypeInv, LedgerTyped
      <3> QED
        BY <1>0, <3>5, <3>6, <3>7, OthersKeepJobs DEF TypeInv
    <2>4. CASE job[p].file = 2
      <3>1. refs' \in WrittenAt(0, ImportedLines(job[p].export)) /\ UNCHANGED events
        BY <1>5, <2>4, TwoFiles DEF WriteFile
      <3>2. End(p)
        BY <1>5, <2>4, TwoFiles DEF WriteFile
      <3>3. Garbled \in Lines /\ refs \in Seq(Lines) /\ ~(0 > Len(refs))
        BY LenProperties DEF Garbled, Lines, TypeInv, LedgerTyped
      <3>4. refs' \in Seq(Lines)
        BY <2>2, <3>1, <3>3, ImportedLinesFacts, WrittenAtParts
      <3>5. Jobs' /\ handoffLock' \in Importers \union {NoOne}
                  /\ ledgerLock' \in Appenders \union {NoOne}
        BY <1>0, <2>1, <3>2, EndKeepsTypes
      <3> QED
        BY <2>1, <2>2, <2>4, <3>1, <3>4, <3>5 DEF TypeInv, LedgerTyped
    <2> QED
      BY <2>2, <2>3, <2>4 DEF Materialization
  <1> QED
    BY <1>1, <1>2, <1>3, <1>4, <1>5 DEF Materialize

LEMMA CrashTypes ==
    ASSUME TypeInv, NEW p \in Process, Crash(p)
    PROVE  TypeInv'
  <1>1. End(p) /\ UNCHANGED <<setting, appended, refs, exists, events, reports, calls>>
    BY DEF Crash
  <1>2. Jobs' /\ handoffLock' \in Importers \union {NoOne}
              /\ ledgerLock' \in Appenders \union {NoOne}
    BY <1>1, EndKeepsTypes
  <1> QED
    BY <1>1, <1>2 DEF TypeInv, LedgerTyped

LEMMA TypeStep == TypeInv /\ [Next]_vars => TypeInv'
  <1> SUFFICES ASSUME TypeInv, [Next]_vars PROVE TypeInv'
    OBVIOUS
  <1>1. CASE UNCHANGED vars
    BY <1>1 DEF vars, TypeInv, LedgerTyped, Jobs, Typed, ImporterTyped, AppenderTyped, RadarTyped
  <1>2. CASE Next
    BY <1>2, ImportTypes, AppendTypes, RadarTypes, CrashTypes DEF Next
  <1> QED
    BY <1>1, <1>2

(***************************************************************************)
(* Every variable of the three commands keeps its type, and a process is   *)
(* idle exactly when it is writing nothing (End, which every way out of a  *)
(* command goes through).                                                  *)
(***************************************************************************)
THEOREM TypeCorrect == Spec => []TypeOK
  <1>1. Spec => []TypeInv
    BY TypeInit, TypeStep, PTL DEF Spec
  <1> QED
    BY <1>1, TypeInvImplies, PTL

-----------------------------------------------------------------------------
(***************************************************************************)
(* Importers with nobody else at work.  Who is past the lock holds it, and *)
(* what it read of the ledger there is what the ledger still says.         *)
(***************************************************************************)
Handoffs == {Handoff(s, f) : s \in Source, f \in Fingerprint}
PastLock == {"locked", "linked", "sought", "written"}

Guarded(p) ==
    /\ pc[p] \in PastLock => handoffLock = p
    /\ pc[p] \in {"linked", "sought", "written"} =>
         job[p].entry.content = Handoff(job[p].source, job[p].fingerprint)
    /\ pc[p] \in {"linked", "sought"} =>
         \A i \in DOMAIN refs : refs[i].entry.content.source # job[p].source
    /\ pc[p] \in {"linked", "sought"} =>
         job[p].entry = Linked(job[p].entry.content, HashAt(refs, Len(refs)))
    /\ pc[p] = "sought" => job[p].at = Len(refs)
    /\ pc[p] = "written" =>
         Handoff(job[p].source, job[p].fingerprint) \in References(refs)

HandoffLines ==
    \A i \in DOMAIN refs : refs[i].parses /\ refs[i].entry.content \in Handoffs

OneLinePerSource ==
    \A i, j \in DOMAIN refs : i # j =>
        refs[i].entry.content.source # refs[j].entry.content.source

ReportsRecorded ==
    \A r \in Accepted : Handoff(r.source, r.fingerprint) \in References(refs)

Alone ==
    /\ \A p \in Appenders \union Radars : pc[p] = "idle"
    /\ \A p \in Importers : Guarded(p)
    /\ HandoffLines
    /\ OneLinePerSource
    /\ OneChain
    /\ ReportsRecorded

AloneInv == ImportersAlone => Alone

LEMMA AloneInit == Init => AloneInv
  BY OneKind DEF Init, AloneInv, Alone, Guarded, HandoffLines, OneLinePerSource,
     OneChain, Valid, ReportsRecorded, Accepted, PastLock

(* Two lines of one source are one line, of one fingerprint.               *)
LEMMA SameSourceSameProfile ==
    ASSUME Alone, NEW s \in Source, NEW f \in Fingerprint, NEW g \in Fingerprint,
           Handoff(s, f) \in References(refs), Handoff(s, g) \in References(refs)
    PROVE  f = g
  <1>1. PICK i \in DOMAIN refs : refs[i].entry.content = Handoff(s, f)
    BY DEF References
  <1>2. PICK j \in DOMAIN refs : refs[j].entry.content = Handoff(s, g)
    BY DEF References
  <1>3. i = j
    BY <1>1, <1>2, HandoffContent DEF Alone, OneLinePerSource
  <1> QED
    BY <1>1, <1>2, <1>3, HandoffContent

LEMMA AloneImplies ==
    TypeInv /\ AloneInv => OneReferencePerSource /\ ConflictsFailClosed /\ AcceptedIsRecorded
  <1> SUFFICES ASSUME TypeInv, Alone, ImportersAlone
               PROVE  OneReferencePerSource /\ ConflictsFailClosed /\ AcceptedIsRecorded
    BY DEF AloneInv, OneReferencePerSource, ConflictsFailClosed, AcceptedIsRecorded
  <1>1. OneReferencePerSource
    BY DEF Alone, OneLinePerSource, OneReferencePerSource
  <1>2. AcceptedIsRecorded
    BY DEF Alone, ReportsRecorded, AcceptedIsRecorded
  <1>3. ConflictsFailClosed
    <2>1. ASSUME NEW r \in Accepted, NEW q \in Accepted, r.source = q.source
          PROVE  r.fingerprint = q.fingerprint
      <3>1. /\ r.source \in Source /\ r.fingerprint \in Fingerprint
            /\ q.source \in Source /\ q.fingerprint \in Fingerprint
        BY DEF TypeInv, LedgerTyped, Accepted
      <3>2. /\ Handoff(r.source, r.fingerprint) \in References(refs)
            /\ Handoff(r.source, q.fingerprint) \in References(refs)
        BY <2>1 DEF Alone, ReportsRecorded
      <3> QED
        BY <3>1, <3>2, SameSourceSameProfile
    <2> QED
      BY <2>1 DEF ConflictsFailClosed
  <1> QED
    BY <1>1, <1>2, <1>3

(* The lock keeps the others from reading and from writing.                *)
LEMMA OneIsPastLock ==
    ASSUME Alone, NEW p \in Importers, NEW q \in Importers, p # q, pc[p] \in PastLock
    PROVE  pc[q] \notin PastLock
  BY DEF Alone, Guarded

LEMMA OthersStayGuarded ==
    ASSUME Alone, NEW p \in Importers, NEW q \in Importers, q # p, OthersStay(p),
           UNCHANGED refs \/ pc[p] \in PastLock,
           handoffLock \in {p, NoOne} \/ UNCHANGED handoffLock
    PROVE  Guarded(q)'
  <1>1. pc'[q] = pc[q] /\ job'[q] = job[q]
    BY OneKind DEF OthersStay
  <1>2. Guarded(q) /\ q # NoOne
    BY OneKind DEF Alone
  <1>3. CASE pc[q] \in PastLock
    <2>1. handoffLock = q
      BY <1>2, <1>3 DEF Guarded
    <2>2. pc[p] \notin PastLock
      BY <1>3, OneIsPastLock
    <2>3. UNCHANGED <<refs, handoffLock>>
      BY <1>2, <2>1, <2>2
    <2> QED
      BY <1>1, <1>2, <2>3 DEF Guarded, References, HashAt
  <1>4. CASE pc[q] \notin PastLock
    BY <1>1, <1>4 DEF Guarded, PastLock
  <1> QED
    BY <1>3, <1>4

LEMMA AloneFrame ==
    ASSUME Alone, NEW p \in Importers, OthersStay(p), Guarded(p)',
           UNCHANGED refs \/ pc[p] \in PastLock,
           handoffLock \in {p, NoOne} \/ UNCHANGED handoffLock,
           HandoffLines', OneLinePerSource', OneChain', ReportsRecorded'
    PROVE  Alone'
  <1>1. \A q \in Importers : Guarded(q)'
    BY OthersStayGuarded
  <1>2. \A q \in Appenders \union Radars : pc'[q] = "idle"
    BY OneKind DEF Alone, OthersStay
  <1> QED
    BY <1>1, <1>2 DEF Alone

(* While the ledger stays, a process that is idle or waits is guarded, and *)
(* a report that was accepted before stays recorded.                       *)
LEMMA LedgerStays ==
    ASSUME Alone, UNCHANGED refs
    PROVE  /\ HandoffLines' /\ OneLinePerSource' /\ OneChain'
           /\ References(refs)' = References(refs)
           /\ (\A r \in Accepted' \ Accepted :
                 Handoff(r.source, r.fingerprint) \in References(refs)) => ReportsRecorded'
  BY DEF Alone, HandoffLines, OneLinePerSource, OneChain, Valid, HashAt, ReportsRecorded,
     References

(* Whoever ends, crashes included, leaves the lock to nobody.              *)
LEMMA EndKeepsAlone ==
    ASSUME TypeInv, Alone, NEW p \in Importers, End(p), UNCHANGED <<refs, exists>>,
           \A r \in Accepted' \ Accepted :
              Handoff(r.source, r.fingerprint) \in References(refs)
    PROVE  Alone'
  <1>1. OthersStay(p) /\ pc'[p] = "idle"
    BY OneKind, EndKeepsTypes
  <1>2. Guarded(p)'
    BY <1>1 DEF Guarded, PastLock
  <1>3. handoffLock \in {p, NoOne} \/ UNCHANGED handoffLock
    BY DEF End
  <1>4. HandoffLines' /\ OneLinePerSource' /\ OneChain' /\ ReportsRecorded'
    BY LedgerStays
  <1> QED
    BY <1>1, <1>2, <1>3, <1>4, AloneFrame

(* Where nothing is recorded of a source, no line is about it.             *)
LEMMA NothingRecorded ==
    ASSUME Alone, NEW s \in Source, Recorded(refs, s) = {}
    PROVE  \A i \in DOMAIN refs : refs[i].entry.content.source # s
  <1> SUFFICES ASSUME NEW i \in DOMAIN refs, refs[i].entry.content.source = s
               PROVE  FALSE
    OBVIOUS
  <1>1. refs[i].parses /\ refs[i].entry.content \in Handoffs
    BY DEF Alone, HandoffLines
  <1>2. PICK t \in Source, f \in Fingerprint : refs[i].entry.content = Handoff(t, f)
    BY <1>1 DEF Handoffs
  <1>3. t = s
    BY <1>2, HandoffContent
  <1>4. Handoff(s, f) \in References(refs)
    BY <1>1, <1>2, <1>3 DEF References
  <1> QED
    BY <1>4 DEF Recorded

LEMMA WriteKeepsAlone ==
    ASSUME TypeInv, Alone, ImportersAlone, NEW p \in Importers, WriteReference(p)
    PROVE  Alone'
  <1> USE OneKind
  <1> DEFINE line == Stored(job[p].entry)
             content == Handoff(job[p].source, job[p].fingerprint)
  <1>1. /\ pc[p] = "sought" /\ Goto(p, "written")
        /\ refs' \in WrittenAt(job[p].at, <<line>>)
        /\ UNCHANGED <<setting, appended, exists, events, handoffLock, ledgerLock, job, reports, calls>>
    BY DEF WriteReference, ImportersAlone
  <1>2. job[p] \in PlacedRequest
    BY <1>1 DEF TypeInv, Jobs, Typed, ImporterTyped
  <1>3. /\ handoffLock = p /\ job[p].entry.content = content
        /\ job[p].entry = Linked(job[p].entry.content, HashAt(refs, Len(refs)))
        /\ \A i \in DOMAIN refs : refs[i].entry.content.source # job[p].source
        /\ job[p].at = Len(refs)
    BY <1>1 DEF Alone, Guarded, PastLock
  <1>4. line \in Lines /\ line.parses /\ line.entry.content = content
    BY <1>2, <1>3 DEF Stored, Lines, PlacedRequest
  <1>5. content \in Handoffs /\ content.source = job[p].source
    BY <1>2, HandoffContent DEF PlacedRequest, Handoffs
  <1> HIDE DEF line, content
  <1>6. refs' = Append(refs, line)
    <2>1. refs \in Seq(Lines)
      BY DEF TypeInv, LedgerTyped
    <2>2. refs' = refs \o <<line>>
      BY <1>1, <1>3 DEF WrittenAt, line
    <2> QED
      BY <1>4, <2>1, <2>2, AppendIsConcat
  <1>7. /\ refs \in Seq(Lines) /\ Len(refs) \in Nat /\ DOMAIN refs = 1 .. Len(refs)
        /\ Append(refs, line) \in Seq(Lines)
        /\ Len(Append(refs, line)) = Len(refs) + 1
        /\ \A i \in 1 .. Len(refs) : Append(refs, line)[i] = refs[i]
        /\ Append(refs, line)[Len(refs) + 1] = line
    BY <1>4, AppendProperties, LenProperties DEF TypeInv, LedgerTyped
  <1>8. /\ DOMAIN refs' = 1 .. Len(refs) + 1
        /\ \A i \in 1 .. Len(refs) : refs'[i] = refs[i]
        /\ refs'[Len(refs) + 1] = line
    <2>1. DOMAIN Append(refs, line) = 1 .. Len(refs) + 1
      BY <1>7, LenProperties
    <2> QED
      BY <1>6, <1>7, <2>1
  <1>9. References(refs) \subseteq References(refs)' /\ content \in References(refs)'
    <2>1. Len(refs) + 1 \in DOMAIN refs' /\ \A i \in DOMAIN refs : i \in DOMAIN refs' /\ refs'[i] = refs[i]
      BY <1>7, <1>8
    <2> QED
      BY <1>4, <1>8, <2>1 DEF References
  <1>10. OthersStay(p) /\ pc'[p] = "written" /\ job'[p] = job[p]
    BY <1>1, MovesOnly DEF TypeInv, OthersStay
  <1>11. Guarded(p)'
    BY <1>1, <1>3, <1>9, <1>10 DEF Guarded, PastLock, content
  <1>12. HandoffLines'
    <2>1. ASSUME NEW i \in DOMAIN refs' PROVE refs'[i].parses /\ refs'[i].entry.content \in Handoffs
      <3>1. CASE i \in 1 .. Len(refs)
        BY <1>7, <1>8, <3>1 DEF Alone, HandoffLines
      <3>2. CASE i = Len(refs) + 1
        BY <1>4, <1>5, <1>8, <3>2
      <3> QED
        BY <1>7, <1>8, <3>1, <3>2
    <2> QED
      BY <2>1 DEF HandoffLines
  <1>13. OneLinePerSource'
    <2>1. ASSUME NEW i \in DOMAIN refs', NEW j \in DOMAIN refs', i # j
          PROVE  refs'[i].entry.content.source # refs'[j].entry.content.source
      <3>1. CASE i \in 1 .. Len(refs) /\ j \in 1 .. Len(refs)
        BY <1>7, <1>8, <2>1, <3>1 DEF Alone, OneLinePerSource
      <3>2. CASE i \in 1 .. Len(refs) /\ j = Len(refs) + 1
        BY <1>3, <1>4, <1>5, <1>7, <1>8, <3>2
      <3>3. CASE i = Len(refs) + 1 /\ j \in 1 .. Len(refs)
        BY <1>3, <1>4, <1>5, <1>7, <1>8, <3>3
      <3> QED
        BY <1>7, <1>8, <2>1, <3>1, <3>2, <3>3
    <2> QED
      BY <2>1 DEF OneLinePerSource
  <1>14. ReportsRecorded'
    BY <1>1, <1>9 DEF Alone, ReportsRecorded, Accepted
  <1>15. OneChain'
    <2>1. /\ line.entry.prev = HashAt(refs, Len(refs))
          /\ line.entry.hash = RecordHash(line.entry.content, line.entry.prev)
      BY <1>3 DEF Linked, Stored, line
    <2>2. ASSUME NEW i \in 1 .. Len(refs)
          PROVE  /\ refs'[i] = refs[i] /\ HashAt(refs', i - 1) = HashAt(refs, i - 1)
                 /\ i > 1 => refs'[i - 1] = refs[i - 1]
      <3>1. CASE i = 1
        BY <1>7, <1>8, <3>1 DEF HashAt
      <3>2. CASE i # 1
        <4>1. i - 1 \in 1 .. Len(refs)
          BY <1>7, <3>2
        <4> QED
          BY <1>7, <1>8, <3>2, <4>1 DEF HashAt
      <3> QED
        BY <3>1, <3>2
    <2>3. HashAt(refs', Len(refs)) = HashAt(refs, Len(refs))
      <3>1. CASE Len(refs) = 0
        BY <3>1 DEF HashAt
      <3>2. CASE Len(refs) # 0
        <4>1. Len(refs) \in 1 .. Len(refs)
          BY <1>7, <3>2
        <4> QED
          BY <1>8, <3>2, <4>1 DEF HashAt
      <3> QED
        BY <3>1, <3>2
    <2>4. ASSUME NEW i \in DOMAIN refs'
          PROVE  /\ refs'[i].parses
                 /\ i > 1 => refs'[i - 1].parses
                 /\ refs'[i].entry.prev = HashAt(refs', i - 1)
                 /\ refs'[i].entry.hash = RecordHash(refs'[i].entry.content, refs'[i].entry.prev)
      <3>1. CASE i \in 1 .. Len(refs)
        BY <1>7, <2>2, <3>1 DEF Alone, OneChain, Valid
      <3>2. CASE i = Len(refs) + 1
        <4>1. refs'[i] = line /\ i - 1 = Len(refs)
          BY <1>7, <1>8, <3>2
        <4>2. ASSUME i > 1 PROVE refs'[i - 1].parses
          <5>1. Len(refs) \in 1 .. Len(refs)
            BY <1>7, <3>2, <4>2
          <5> QED
            BY <1>7, <1>8, <4>1, <5>1 DEF Alone, OneChain, Valid
        <4> QED
          BY <1>4, <2>1, <2>3, <4>1, <4>2
      <3> QED
        BY <1>7, <1>8, <3>1, <3>2
    <2> QED
      BY <2>4 DEF OneChain, Valid, HashAt
  <1> QED
    BY <1>1, <1>10, <1>11, <1>12, <1>13, <1>14, <1>15, AloneFrame DEF PastLock

LEMMA ImportKeepsAlone ==
    ASSUME TypeInv, Alone, ImportersAlone, NEW p \in Importers,
           StartImport(p) \/ LockHandoff(p) \/ Import(p)
    PROVE  Alone'
  <1> USE OneKind
  <1>0. p \in Process /\ ImporterTyped(p) /\ Guarded(p)
    BY DEF TypeInv, Jobs, Typed, Alone
  <1>1. CASE StartImport(p)
    <2>1. PICK what : Hold(p, what)
      BY <1>1 DEF StartImport
    <2>2. Goto(p, "waiting") /\ UNCHANGED <<refs, exists, handoffLock, reports>>
      BY <1>1 DEF StartImport
    <2>3. OthersStay(p) /\ pc'[p] = "waiting"
      BY <2>1, <2>2, Moves DEF TypeInv, OthersStay
    <2>4. Guarded(p)'
      BY <2>3 DEF Guarded, PastLock
    <2>5. HandoffLines' /\ OneLinePerSource' /\ OneChain' /\ ReportsRecorded'
      BY <2>2, LedgerStays DEF Accepted
    <2> QED
      BY <2>2, <2>3, <2>4, <2>5, AloneFrame
  <1>2. CASE LockHandoff(p)
    <2>1. /\ handoffLock = NoOne /\ handoffLock' = p /\ exists' /\ Goto(p, "locked")
          /\ UNCHANGED <<refs, job, reports>>
      BY <1>2 DEF LockHandoff
    <2>2. OthersStay(p) /\ pc'[p] = "locked"
      BY <2>1, MovesOnly DEF TypeInv, OthersStay
    <2>3. Guarded(p)'
      BY <2>1, <2>2 DEF Guarded, PastLock
    <2>4. HandoffLines' /\ OneLinePerSource' /\ OneChain' /\ ReportsRecorded'
      BY <2>1, LedgerStays DEF Accepted
    <2> QED
      BY <2>1, <2>2, <2>3, <2>4, AloneFrame
  <1>3. CASE RefuseImport(p)
    <2>1. End(p) /\ UNCHANGED <<refs, exists>> /\ Report(p, "refused")
      BY <1>3 DEF RefuseImport
    <2>2. Accepted' \subseteq Accepted
      BY <2>1 DEF Accepted, Report
    <2> QED
      BY <2>1, <2>2, EndKeepsAlone
  <1>4. CASE ReportDuplicate(p)
    <2>1. End(p) /\ UNCHANGED <<refs, exists>> /\ Report(p, "duplicate")
      BY <1>4 DEF ReportDuplicate
    <2>2. Handoff(job[p].source, job[p].fingerprint) \in References(refs)
      BY <1>4 DEF ReportDuplicate, IsReplay, Recorded
    <2>3. \A r \in Accepted' \ Accepted :
             r.source = job[p].source /\ r.fingerprint = job[p].fingerprint
      BY <2>1 DEF Accepted, Report
    <2> QED
      BY <2>1, <2>2, <2>3, EndKeepsAlone
  <1>5. CASE LinkReference(p)
    <2> DEFINE content == Handoff(job[p].source, job[p].fingerprint)
               e == Linked(content, HashAt(refs, Len(refs)))
               what == [source |-> job[p].source, fingerprint |-> job[p].fingerprint,
                        entry |-> e]
    <2>1. /\ pc[p] = "locked" /\ Recorded(refs, job[p].source) = {}
          /\ Hold(p, what) /\ Goto(p, "linked")
          /\ UNCHANGED <<refs, exists, handoffLock, reports>>
      BY <1>5 DEF LinkReference
    <2>2. job[p].source \in Source
      BY <1>0, <2>1 DEF ImporterTyped, Request
    <2>3. e.content = content /\ e = Linked(e.content, HashAt(refs, Len(refs)))
      BY DEF Linked
    <2>4. what.entry = e /\ what.source = job[p].source /\ what.fingerprint = job[p].fingerprint
      BY DEF what
    <2> HIDE DEF e, what
    <2>5. OthersStay(p) /\ pc'[p] = "linked" /\ job'[p] = what
      BY <2>1, Moves DEF TypeInv, OthersStay
    <2>6. Guarded(p)'
      <3>1. handoffLock = p
        BY <1>0, <2>1 DEF Guarded, PastLock
      <3>2. \A i \in DOMAIN refs : refs[i].entry.content.source # job[p].source
        BY <2>1, <2>2, NothingRecorded
      <3> QED
        BY <2>1, <2>3, <2>4, <2>5, <3>1, <3>2 DEF Guarded, PastLock, HashAt
    <2>7. HandoffLines' /\ OneLinePerSource' /\ OneChain' /\ ReportsRecorded'
      BY <2>1, LedgerStays DEF Accepted
    <2> QED
      BY <2>1, <2>5, <2>6, <2>7, AloneFrame
  <1>6. CASE SeekEnd(p)
    <2> DEFINE what == [source |-> job[p].source, fingerprint |-> job[p].fingerprint,
                        entry |-> job[p].entry, at |-> Len(refs)]
    <2>1. /\ pc[p] = "linked" /\ Hold(p, what) /\ Goto(p, "sought")
          /\ UNCHANGED <<refs, exists, handoffLock, reports>>
      BY <1>6 DEF SeekEnd
    <2>2. /\ what.entry = job[p].entry /\ what.source = job[p].source
          /\ what.fingerprint = job[p].fingerprint /\ what.at = Len(refs)
      BY DEF what
    <2> HIDE DEF what
    <2>3. OthersStay(p) /\ pc'[p] = "sought" /\ job'[p] = what
      BY <2>1, Moves DEF TypeInv, OthersStay
    <2>4. Guarded(p)'
      BY <1>0, <2>1, <2>2, <2>3 DEF Guarded, PastLock, HashAt
    <2>5. HandoffLines' /\ OneLinePerSource' /\ OneChain' /\ ReportsRecorded'
      BY <2>1, LedgerStays DEF Accepted
    <2> QED
      BY <2>1, <2>3, <2>4, <2>5, AloneFrame
  <1>7. CASE WriteReference(p)
    BY <1>7, WriteKeepsAlone
  <1>8. CASE SyncReference(p)
    <2>1. End(p) /\ UNCHANGED <<refs, exists>> /\ pc[p] = "written"
      BY <1>8 DEF SyncReference
    <2>2. Handoff(job[p].source, job[p].fingerprint) \in References(refs)
      BY <1>0, <2>1 DEF Guarded
    <2>3. \A r \in Accepted' \ Accepted :
             r.source = job[p].source /\ r.fingerprint = job[p].fingerprint
      <3>1. PICK as \in {"written", "refused"} : Report(p, as)
        BY <1>8 DEF SyncReference
      <3> DEFINE told == [source |-> job[p].source, fingerprint |-> job[p].fingerprint,
                          as |-> as]
      <3>2. reports' = reports \union {told}
        BY <3>1 DEF Report
      <3>3. told.source = job[p].source /\ told.fingerprint = job[p].fingerprint
        OBVIOUS
      <3> HIDE DEF told
      <3> QED
        BY <3>2, <3>3 DEF Accepted
    <2> QED
      BY <2>1, <2>2, <2>3, EndKeepsAlone
  <1> QED
    BY <1>1, <1>2, <1>3, <1>4, <1>5, <1>6, <1>7, <1>8 DEF Import

LEMMA AloneStep == TypeInv /\ AloneInv /\ [Next]_vars => AloneInv'
  <1> SUFFICES ASSUME TypeInv, AloneInv, [Next]_vars, ImportersAlone' PROVE Alone'
    BY DEF AloneInv
  <1>0. UNCHANGED setting
    BY DEF Next, vars, StartImport, LockHandoff, Import, RefuseImport, ReportDuplicate,
       LinkReference, SeekEnd, WriteReference, SyncReference, StartAppend, FinishAppend,
       StartRadar, Materialize, StopRadar, CheckFile, TruncateFile, WriteFile, Crash
  <1>1. ImportersAlone /\ Alone
    BY <1>0 DEF AloneInv, ImportersAlone
  <1>2. ASSUME NEW p \in Importers, StartImport(p) \/ LockHandoff(p) \/ Import(p)
        PROVE  Alone'
    BY <1>1, <1>2, ImportKeepsAlone
  <1>3. \A p \in Appenders \union Radars : pc[p] = "idle" /\ p \notin setting.crew
    BY <1>1, OneKind DEF Alone, ImportersAlone
  <1>4. ASSUME NEW p \in Appenders, StartAppend(p) \/ FinishAppend(p) PROVE Alone'
    BY <1>3, <1>4 DEF StartAppend, FinishAppend, Start
  <1>5. ASSUME NEW p \in Radars, StartRadar(p) \/ Materialize(p) PROVE Alone'
    BY <1>3, <1>5 DEF StartRadar, Start, Materialize, StopRadar, CheckFile,
       TruncateFile, WriteFile
  <1>6. ASSUME NEW p \in Process, Crash(p) PROVE Alone'
    <2>1. p \in Importers
      BY <1>3, <1>6 DEF Crash, Process
    <2>2. End(p) /\ UNCHANGED <<refs, exists>> /\ Accepted' = Accepted
      BY <1>6 DEF Crash, Accepted
    <2> QED
      BY <1>1, <2>1, <2>2, EndKeepsAlone
  <1>7. CASE UNCHANGED vars
    BY <1>1, <1>7 DEF vars, Alone, Guarded, HandoffLines, OneLinePerSource,
       OneChain, Valid, HashAt, ReportsRecorded, Accepted, References
  <1> QED
    BY <1>2, <1>4, <1>5, <1>6, <1>7 DEF Next

LEMMA AloneInvariant ==
    Spec => [](/\ OneReferencePerSource /\ ConflictsFailClosed /\ AcceptedIsRecorded
               /\ (ImportersAlone => OneChain))
  <1>1. Spec => [](TypeInv /\ AloneInv)
    BY TypeInit, AloneInit, TypeStep, AloneStep, PTL DEF Spec
  <1>2. AloneInv => (ImportersAlone => OneChain)
    BY DEF AloneInv, Alone
  <1> QED
    BY <1>1, <1>2, AloneImplies, PTL

(***************************************************************************)
(* However many importers there are, however often they retry and wherever *)
(* they are killed, with nobody else at work a source has one line in      *)
(* integration-references.jsonl (_append_hplan_reference_atomically).      *)
(***************************************************************************)
THEOREM HandoffsOnce == Spec => []OneReferencePerSource
  BY AloneInvariant, PTL

(***************************************************************************)
(* No two imports are told of different profiles behind one source         *)
(* (_matching_hplan_references under the lock).                            *)
(***************************************************************************)
THEOREM ConflictsAreRefused == Spec => []ConflictsFailClosed
  BY AloneInvariant, PTL

(***************************************************************************)
(* What an import reported as written or as a duplicate is in the ledger,  *)
(* and stays there.                                                        *)
(***************************************************************************)
THEOREM ReportsAreTrue == Spec => []AcceptedIsRecorded
  BY AloneInvariant, PTL

(***************************************************************************)
(* With nobody else at work the importers keep the chain of the ledger:    *)
(* what breaks it elsewhere is the second lock, and nothing they do.       *)
(***************************************************************************)
THEOREM ImportersKeepTheChain == Spec => [](ImportersAlone => OneChain)
  BY AloneInvariant, PTL

-----------------------------------------------------------------------------
(***************************************************************************)
(* One PMF Radar import at a time among any number of the other commands,  *)
(* without --force.  The events are materialised before the references,    *)
(* and nothing but the import itself ever touches them; references that    *)
(* append-record was called with are its caller's business.  Two imports   *)
(* could both find no file and truncate what the other has written.        *)
(***************************************************************************)
OneUnforcedRadar == Forcing \subseteq {FALSE} /\ \A p, q \in Radars : p = q

(* Of a handoff, or brought by append-record.                              *)
FromOthers(c) == c.system # "pmf_radar" \/ c \in appended

NoImported == \A c \in References(refs) : FromOthers(c)

(* So is what the other two commands are about to write.                   *)
OthersEntry(p) ==
    pc[p] \in {"linked", "sought"} => FromOthers(job[p].entry.content)

Materialized(p) ==
    /\ pc[p] = "truncate" /\ job[p].file = 1 => events = NoFile
    /\ pc[p] = "text" /\ job[p].file = 1 => events = {} /\ NoImported
    /\ pc[p] # "idle" /\ job[p].file = 2 => events = job[p].export

RadarInv ==
    /\ \A p \in Importers \union Appenders : OthersEntry(p)
    /\ \A p \in Radars : Materialized(p)
    /\ events = NoFile => NoImported
    /\ ReferencesHaveEvents

LEMMA RadarInit == Init => RadarInv
  BY OneKind DEF Init, RadarInv, OthersEntry, FromOthers, Materialized, NoImported, References,
     ReferencesHaveEvents

(* The step of a process that brings nothing else into the ledger and      *)
(* leaves the events alone.                                                *)
LEMMA OthersOnly ==
    ASSUME RadarInv, NEW p \in Process, OthersStay(p), UNCHANGED events,
           appended \subseteq appended',
           \A c \in References(refs)' :
              c \in References(refs) \/ FromOthers(c)',
           p \in Importers \union Appenders => OthersEntry(p)',
           p \in Radars => Materialized(p)'
    PROVE  RadarInv'
  <1>1. (NoImported => NoImported') /\ ReferencesHaveEvents'
    BY DEF RadarInv, NoImported, FromOthers, ReferencesHaveEvents
  <1>2. ASSUME NEW q \in Importers \union Appenders PROVE OthersEntry(q)'
    <2>1. CASE q # p
      BY <2>1 DEF Process, OthersStay, RadarInv, OthersEntry, FromOthers
    <2> QED
      BY <2>1
  <1>3. ASSUME NEW q \in Radars PROVE Materialized(q)'
    <2>1. CASE q # p
      <3>1. pc'[q] = pc[q] /\ job'[q] = job[q] /\ Materialized(q)
        BY <2>1 DEF Process, OthersStay, RadarInv
      <3> QED
        BY <1>1, <3>1 DEF Materialized
    <2> QED
      BY <2>1
  <1>4. (events = NoFile => NoImported)'
    BY <1>1 DEF RadarInv
  <1> QED
    BY <1>1, <1>2, <1>3, <1>4 DEF RadarInv

LEMMA EndKeepsRadar ==
    ASSUME TypeInv, RadarInv, NEW p \in Process, End(p), exists => exists', UNCHANGED events,
           appended \subseteq appended',
           \A c \in References(refs)' :
              c \in References(refs) \/ FromOthers(c)'
    PROVE  RadarInv'
  <1>1. OthersStay(p) /\ pc'[p] = "idle"
    BY EndKeepsTypes
  <1>2. OthersEntry(p)' /\ Materialized(p)'
    BY <1>1 DEF OthersEntry, Materialized
  <1> QED
    BY <1>1, <1>2, OthersOnly

LEMMA ImportKeepsRadar ==
    ASSUME TypeInv, RadarInv, NEW p \in Importers,
           StartImport(p) \/ LockHandoff(p) \/ Import(p)
    PROVE  RadarInv'
  <1> USE OneKind
  <1>0. p \in Process /\ ImporterTyped(p) /\ OthersEntry(p) /\ p \notin Radars
    BY DEF TypeInv, Jobs, Typed, RadarInv
  <1>1. CASE StartImport(p)
    <2>1. PICK what : Hold(p, what)
      BY <1>1 DEF StartImport
    <2>2. Goto(p, "waiting") /\ UNCHANGED <<appended, refs, exists, events>>
      BY <1>1 DEF StartImport
    <2>3. OthersStay(p) /\ OthersEntry(p)'
      <3>1. /\ DOMAIN pc' = Process /\ DOMAIN job' = Process
            /\ \A q \in Process \ {p} : pc'[q] = pc[q] /\ job'[q] = job[q]
            /\ pc'[p] = "waiting"
        BY <1>0, <2>1, <2>2, Moves DEF TypeInv
      <3> QED
        BY <2>2, <3>1 DEF OthersStay, OthersEntry, FromOthers
    <2> QED
      BY <1>0, <2>2, <2>3, OthersOnly DEF References
  <1>2. CASE LockHandoff(p)
    <2>1. exists' /\ Goto(p, "locked") /\ UNCHANGED <<appended, refs, events, job>>
      BY <1>2 DEF LockHandoff
    <2>2. OthersStay(p) /\ OthersEntry(p)'
      BY <2>1, MovesOnly DEF TypeInv, OthersStay, OthersEntry, FromOthers
    <2> QED
      BY <1>0, <2>1, <2>2, OthersOnly DEF References
  <1>3. ASSUME RefuseImport(p) \/ ReportDuplicate(p) \/ SyncReference(p) PROVE RadarInv'
    <2>1. End(p) /\ UNCHANGED <<appended, refs, exists, events>>
      BY <1>3 DEF RefuseImport, ReportDuplicate, SyncReference
    <2> QED
      BY <2>1, EndKeepsRadar DEF References
  <1>4. CASE LinkReference(p)
    <2> DEFINE content == Handoff(job[p].source, job[p].fingerprint)
               e == Linked(content, HashAt(refs, Len(refs)))
               what == [source |-> job[p].source, fingerprint |-> job[p].fingerprint,
                        entry |-> e]
    <2>1. Hold(p, what) /\ Goto(p, "linked") /\ UNCHANGED <<appended, refs, exists, events>>
      BY <1>4 DEF LinkReference
    <2>2. what.entry.content.system # "pmf_radar"
      BY DEF Linked, Handoff
    <2> HIDE DEF e, what
    <2>3. OthersStay(p) /\ OthersEntry(p)'
      <3>1. /\ DOMAIN pc' = Process /\ DOMAIN job' = Process
            /\ \A q \in Process \ {p} : pc'[q] = pc[q] /\ job'[q] = job[q]
            /\ pc'[p] = "linked" /\ job'[p] = what
        <4>1. Jobs /\ p \in Process /\ Goto(p, "linked") /\ Hold(p, what)
          BY <1>0, <2>1 DEF TypeInv
        <4> QED
          BY <4>1 DEF Jobs, Goto, Hold
      <3> QED
        BY <2>1, <2>2, <3>1 DEF OthersStay, OthersEntry, FromOthers
    <2> QED
      BY <1>0, <2>1, <2>3, OthersOnly DEF References
  <1>5. CASE SeekEnd(p)
    <2> DEFINE what == [source |-> job[p].source, fingerprint |-> job[p].fingerprint,
                        entry |-> job[p].entry, at |-> Len(refs)]
    <2>1. pc[p] = "linked" /\ Hold(p, what) /\ Goto(p, "sought") /\ UNCHANGED <<appended, refs, exists, events>>
      BY <1>5 DEF SeekEnd
    <2>2. what.entry.content.system # "pmf_radar" \/ what.entry.content \in appended'
      BY <1>0, <2>1 DEF OthersEntry, FromOthers
    <2> HIDE DEF what
    <2>3. OthersStay(p) /\ OthersEntry(p)'
      <3>1. /\ DOMAIN pc' = Process /\ DOMAIN job' = Process
            /\ \A q \in Process \ {p} : pc'[q] = pc[q] /\ job'[q] = job[q]
            /\ pc'[p] = "sought" /\ job'[p] = what
        BY <1>0, <2>1, Moves DEF TypeInv
      <3> QED
        BY <2>1, <2>2, <3>1 DEF OthersStay, OthersEntry, FromOthers
    <2> QED
      BY <1>0, <2>1, <2>3, OthersOnly DEF References
  <1>6. CASE WriteReference(p)
    <2>1. /\ pc[p] = "sought" /\ Goto(p, "written")
          /\ UNCHANGED <<setting, appended, exists, events, handoffLock, ledgerLock, job, reports, calls>>
      BY <1>6 DEF WriteReference
    <2>2. job[p] \in PlacedRequest /\ FromOthers(job[p].entry.content)
      BY <1>0, <2>1 DEF ImporterTyped, OthersEntry
    <2> DEFINE C == {job[p].entry.content}
    <2>3. PICK line \in Lines : /\ refs' \in WrittenAt(job[p].at, <<line>>)
                                /\ line.parses => line.entry.content \in C
      <3>1. Stored(job[p].entry) \in Lines /\ Garbled \in Lines
        BY <2>2 DEF PlacedRequest, Stored, Garbled, Lines
      <3>2. Stored(job[p].entry).entry = job[p].entry /\ ~Garbled.parses
        BY DEF Stored, Garbled
      <3> QED
        BY <1>6, <3>1, <3>2 DEF WriteReference
    <2>4. References(refs') \subseteq References(refs) \union C
      <3> HIDE DEF C
      <3>1. /\ <<line>> \in Seq(Lines) /\ <<line>> # << >>
            /\ \A i \in 1 .. Len(<<line>>) : <<line>>[i] = line
        <4>1. <<line>> = Append(<< >>, line)
          OBVIOUS
        <4> QED
          BY <4>1, AppendProperties, EmptySeq
      <3>2. refs \in Seq(Lines) /\ job[p].at \in Nat
        BY <2>2 DEF PlacedRequest, TypeInv, LedgerTyped
      <3>3. \A i \in 1 .. Len(<<line>>) : <<line>>[i].parses => <<line>>[i].entry.content \in C
        BY <2>3, <3>1
      <3> QED
        BY <2>3, <3>1, <3>2, <3>3, WrittenAtReferences
    <2>5. OthersStay(p) /\ OthersEntry(p)'
      BY <2>1, MovesOnly DEF TypeInv, OthersStay, OthersEntry, FromOthers
    <2>6. \A c \in References(refs)' : c \in References(refs) \/ FromOthers(c)'
      BY <2>1, <2>2, <2>4 DEF References, FromOthers
    <2> QED
      BY <1>0, <2>1, <2>5, <2>6, OthersOnly
  <1> QED
    BY <1>1, <1>2, <1>3, <1>4, <1>5, <1>6 DEF Import

LEMMA AppendKeepsRadar ==
    ASSUME TypeInv, RadarInv, NEW p \in Appenders, StartAppend(p) \/ FinishAppend(p)
    PROVE  RadarInv'
  <1> USE OneKind
  <1>0. p \in Process /\ AppenderTyped(p) /\ OthersEntry(p) /\ p \notin Radars
    BY DEF TypeInv, Jobs, Typed, RadarInv
  <1>1. CASE StartAppend(p)
    <2>1. PICK content \in Content :
            /\ Hold(p, [entry |-> Linked(content, HashAt(refs, Len(refs)))])
            /\ appended' = appended \union {content}
      BY <1>1 DEF StartAppend
    <2> DEFINE what == [entry |-> Linked(content, HashAt(refs, Len(refs)))]
    <2>2. /\ Hold(p, what) /\ Goto(p, "linked") /\ exists' /\ UNCHANGED <<refs, events>>
          /\ appended \subseteq appended'
      BY <1>1, <2>1 DEF StartAppend
    <2>3. what.entry.content \in appended'
      BY <2>1 DEF Linked
    <2> HIDE DEF what
    <2>4. OthersStay(p) /\ OthersEntry(p)'
      <3>1. /\ DOMAIN pc' = Process /\ DOMAIN job' = Process
            /\ \A q \in Process \ {p} : pc'[q] = pc[q] /\ job'[q] = job[q]
            /\ pc'[p] = "linked" /\ job'[p] = what
        BY <1>0, <2>2, Moves DEF TypeInv
      <3> QED
        BY <2>2, <2>3, <3>1 DEF OthersStay, OthersEntry, FromOthers
    <2> QED
      BY <1>0, <2>2, <2>4, OthersOnly DEF References
  <1>2. CASE FinishAppend(p)
    <2>1. /\ pc[p] = "linked" /\ refs' = Append(refs, Stored(job[p].entry)) /\ End(p)
          /\ UNCHANGED <<appended, exists, events>>
      BY <1>2 DEF FinishAppend
    <2>2. Stored(job[p].entry) \in Lines /\ FromOthers(Stored(job[p].entry).entry.content)
      BY <1>0, <2>1 DEF AppenderTyped, OthersEntry, Stored, Lines
    <2>3. \A c \in References(refs)' : c \in References(refs) \/ FromOthers(c)'
      <3> DEFINE line == Stored(job[p].entry)
      <3> HIDE DEF line
      <3>1. /\ refs \in Seq(Lines) /\ line \in Lines /\ FromOthers(line.entry.content)
            /\ refs' = Append(refs, line)
        BY <2>1, <2>2 DEF TypeInv, LedgerTyped, line
      <3>2. /\ Len(refs) \in Nat /\ DOMAIN refs = 1 .. Len(refs)
            /\ DOMAIN refs' = 1 .. Len(refs) + 1
            /\ \A i \in 1 .. Len(refs) : refs'[i] = refs[i]
            /\ refs'[Len(refs) + 1] = line
        BY <3>1, AppendProperties, LenProperties
      <3>3. \A i \in DOMAIN refs' : (i \in DOMAIN refs /\ refs'[i] = refs[i]) \/ refs'[i] = line
        BY <3>2
      <3> QED
        BY <2>1, <3>1, <3>3 DEF References, FromOthers
    <2> QED
      BY <1>0, <2>1, <2>3, EndKeepsRadar
  <1> QED
    BY <1>1, <1>2

LEMMA TruncateKeepsRadar ==
    ASSUME OneUnforcedRadar, TypeInv, RadarInv, NEW p \in Radars, TruncateFile(p)
    PROVE  RadarInv'
  <1> USE OneKind
  <1>0. p \in Process /\ RadarTyped(p) /\ Materialized(p)
    BY DEF TypeInv, Jobs, Typed, RadarInv
  <1>1. /\ pc[p] = "truncate" /\ Goto(p, "text")
        /\ UNCHANGED <<setting, appended, handoffLock, ledgerLock, job, reports, calls>>
    BY DEF TruncateFile
  <1>2. job[p] \in Materialization
    BY <1>0, <1>1 DEF RadarTyped
  <1>3. /\ \A q \in Process \ {p} : pc'[q] = pc[q] /\ job'[q] = job[q]
        /\ pc'[p] = "text" /\ job'[p] = job[p]
    BY <1>0, <1>1, MovesOnly DEF TypeInv
  <1>4. \A q \in Importers \union Appenders : OthersEntry(q)'
    BY <1>1, <1>3 DEF RadarInv, OthersEntry, FromOthers
  <1>5. NoImported' /\ Materialized(p)'
    <2>1. CASE job[p].file = 1
      <3>1. events' = {} /\ UNCHANGED <<refs, exists>>
        BY <1>1, <2>1, TwoFiles DEF TruncateFile
      <3>2. NoImported
        BY <1>0, <1>1, <2>1 DEF Materialized, RadarInv
      <3>3. NoImported'
        BY <1>1, <3>1, <3>2 DEF NoImported, References, FromOthers
      <3> QED
        BY <1>3, <2>1, <3>1, <3>3 DEF Materialized
    <2>2. CASE job[p].file = 2
      <3>1. refs' = << >> /\ UNCHANGED events
        BY <1>1, <2>2, TwoFiles DEF TruncateFile
      <3>2. DOMAIN refs' = {}
        BY <3>1
      <3>3. NoImported'
        BY <3>2 DEF NoImported, References
      <3> QED
        BY <1>0, <1>1, <1>3, <2>2, <3>1, <3>3 DEF Materialized
    <2> QED
      BY <1>2, <2>1, <2>2 DEF Materialization
  <1>6. \A q \in Radars : Materialized(q)'
    BY <1>5 DEF OneUnforcedRadar
  <1>7. ReferencesHaveEvents'
    BY <1>5 DEF NoImported, FromOthers, ReferencesHaveEvents
  <1> QED
    BY <1>4, <1>5, <1>6, <1>7 DEF RadarInv

LEMMA WriteFileKeepsRadar ==
    ASSUME OneUnforcedRadar, TypeInv, RadarInv, NEW p \in Radars, WriteFile(p)
    PROVE  RadarInv'
  <1> USE OneKind
  <1>0. p \in Process /\ RadarTyped(p) /\ Materialized(p)
    BY DEF TypeInv, Jobs, Typed, RadarInv
  <1>1. pc[p] = "text" /\ UNCHANGED <<setting, appended, exists, reports, calls>>
    BY DEF WriteFile
  <1>2. job[p] \in Materialization /\ job[p].export \in Export /\ job[p].export # NoFile
    BY <1>0, <1>1, ReferenceAssumption DEF RadarTyped, Materialization, NoFile
  <1>3. CASE job[p].file = 1
    <2> DEFINE what == [job[p] EXCEPT !.file = @ + 1]
    <2>1. /\ events' = job[p].export /\ UNCHANGED refs
          /\ Goto(p, "check") /\ Hold(p, what)
      BY <1>3, TwoFiles DEF WriteFile
    <2>2. what.export = job[p].export
      BY <1>2 DEF Materialization
    <2> HIDE DEF what
    <2>3. /\ \A q \in Process \ {p} : pc'[q] = pc[q] /\ job'[q] = job[q]
          /\ pc'[p] = "check" /\ job'[p] = what
      BY <1>0, <2>1, Moves DEF TypeInv
    <2>4. NoImported'
      BY <1>0, <1>1, <1>3, <2>1 DEF Materialized, NoImported, References, FromOthers
    <2>5. \A q \in Importers \union Appenders : OthersEntry(q)'
      BY <1>1, <2>3 DEF RadarInv, OthersEntry, FromOthers
    <2>6. Materialized(p)'
      BY <2>1, <2>2, <2>3 DEF Materialized
    <2>7. \A q \in Radars : Materialized(q)'
      BY <2>6 DEF OneUnforcedRadar
    <2>8. ReferencesHaveEvents'
      BY <2>4 DEF NoImported, FromOthers, ReferencesHaveEvents
    <2> QED
      BY <2>4, <2>5, <2>7, <2>8 DEF RadarInv
  <1>4. CASE job[p].file = 2
    <2> DEFINE lines == ImportedLines(job[p].export)
               C == {Imported(e) : e \in job[p].export}
    <2>1. refs' \in WrittenAt(0, lines) /\ UNCHANGED events /\ End(p)
      BY <1>4, TwoFiles DEF WriteFile
    <2>2. events = job[p].export
      BY <1>0, <1>1, <1>4 DEF Materialized
    <2>3. lines \in Seq(Lines) /\ \A i \in 1 .. Len(lines) : lines[i].entry.content \in C
      BY <1>2, ImportedLinesFacts
    <2>4. References(refs') \subseteq References(refs) \union C
      <3> HIDE DEF lines, C
      <3>1. refs \in Seq(Lines) /\ 0 \in Nat /\ ~(0 > Len(refs))
        BY LenProperties DEF TypeInv, LedgerTyped
      <3> QED
        BY <2>1, <2>3, <3>1, WrittenAtReferences
    <2>5. ReferencesHaveEvents'
      <3>1. \A c \in C : c.event \in events
        BY <2>2 DEF Imported
      <3>2. \A c \in References(refs)' : c \in References(refs) \/ c \in C
        BY <2>4 DEF References
      <3> QED
        BY <1>1, <2>1, <3>1, <3>2 DEF RadarInv, ReferencesHaveEvents
    <2>6. OthersStay(p) /\ pc'[p] = "idle"
      BY <1>0, <1>1, <2>1, EndKeepsTypes
    <2>7. \A q \in Importers \union Appenders : OthersEntry(q)'
      BY <1>1, <2>6 DEF OthersStay, RadarInv, OthersEntry, FromOthers
    <2>8. \A q \in Radars : Materialized(q)'
      BY <2>6 DEF Materialized, OneUnforcedRadar
    <2> QED
      BY <1>2, <2>1, <2>2, <2>5, <2>7, <2>8 DEF RadarInv
  <1> QED
    BY <1>2, <1>3, <1>4 DEF Materialization

LEMMA RadarKeepsRadar ==
    ASSUME OneUnforcedRadar, TypeInv, RadarInv, NEW p \in Radars,
           StartRadar(p) \/ Materialize(p)
    PROVE  RadarInv'
  <1> USE OneKind
  <1>0. /\ p \in Process /\ RadarTyped(p) /\ Materialized(p)
        /\ p \notin Importers \union Appenders
    BY DEF TypeInv, Jobs, Typed, RadarInv
  <1>1. CASE StartRadar(p)
    <2>1. PICK x \in Export, force \in Forcing :
            Hold(p, [export |-> x, force |-> force, file |-> 1])
      BY <1>1 DEF StartRadar
    <2> DEFINE what == [export |-> x, force |-> force, file |-> 1]
    <2>2. Hold(p, what) /\ what.file = 1
      BY <2>1
    <2> HIDE DEF what
    <2>3. Goto(p, "check") /\ UNCHANGED <<appended, refs, exists, events>>
      BY <1>1 DEF StartRadar
    <2>4. OthersStay(p) /\ pc'[p] = "check" /\ job'[p] = what
      BY <1>0, <2>2, <2>3, Moves DEF TypeInv, OthersStay
    <2>5. Materialized(p)'
      BY <2>2, <2>4 DEF Materialized
    <2> QED
      BY <1>0, <2>3, <2>4, <2>5, OthersOnly DEF References
  <1>2. CASE StopRadar(p)
    <2>1. End(p) /\ UNCHANGED <<appended, refs, exists, events>>
      BY <1>2 DEF StopRadar
    <2> QED
      BY <1>0, <2>1, EndKeepsRadar DEF References
  <1>3. CASE CheckFile(p)
    <2>1. /\ pc[p] = "check" /\ Goto(p, "truncate")
          /\ UNCHANGED <<appended, refs, exists, events, job>>
      BY <1>3 DEF CheckFile
    <2>2. ~job[p].force
      BY <1>0, <2>1 DEF RadarTyped, Materialization, OneUnforcedRadar
    <2>3. job[p].file = 1 => events = NoFile
      BY <1>3, <2>2, TwoFiles DEF CheckFile, Present
    <2>4. OthersStay(p) /\ pc'[p] = "truncate" /\ job'[p] = job[p]
      BY <1>0, <2>1, MovesOnly DEF TypeInv, OthersStay
    <2>5. Materialized(p)'
      BY <1>0, <2>1, <2>3, <2>4 DEF Materialized
    <2> QED
      BY <1>0, <2>1, <2>4, <2>5, OthersOnly DEF References
  <1>4. CASE TruncateFile(p)
    BY <1>4, TruncateKeepsRadar
  <1>5. CASE WriteFile(p)
    BY <1>5, WriteFileKeepsRadar
  <1> QED
    BY <1>1, <1>2, <1>3, <1>4, <1>5 DEF Materialize

LEMMA RadarStep ==
    ASSUME OneUnforcedRadar
    PROVE  TypeInv /\ RadarInv /\ [Next]_vars => RadarInv'
  <1> SUFFICES ASSUME TypeInv, RadarInv, [Next]_vars PROVE RadarInv'
    OBVIOUS
  <1>1. ASSUME NEW p \in Process, Crash(p) PROVE RadarInv'
    <2>1. End(p) /\ UNCHANGED <<appended, refs, exists, events>>
      BY <1>1 DEF Crash
    <2> QED
      BY <2>1, EndKeepsRadar DEF References
  <1>2. CASE UNCHANGED vars
    BY <1>2 DEF vars, RadarInv, OthersEntry, FromOthers, Materialized, NoImported, References,
       ReferencesHaveEvents
  <1> QED
    BY <1>1, <1>2, ImportKeepsRadar, AppendKeepsRadar, RadarKeepsRadar DEF Next

(***************************************************************************)
(* A PMF Radar reference that append-record was not called with names an   *)
(* event of cs-events.jsonl, wherever the import is killed and whatever    *)
(* the other commands do meanwhile, as long as import-pmf-radar is run     *)
(* without --force and not twice at once.                                  *)
(***************************************************************************)
THEOREM ImportedHaveEvents ==
    ASSUME OneUnforcedRadar
    PROVE  Spec => []ReferencesHaveEvents
  <1>1. TypeInv /\ RadarInv /\ [Next]_vars => RadarInv'
    BY RadarStep
  <1>2. Spec => [](TypeInv /\ RadarInv)
    BY <1>1, TypeInit, RadarInit, TypeStep, PTL DEF Spec
  <1>3. RadarInv => ReferencesHaveEvents
    BY DEF RadarInv
  <1> QED
    BY <1>2, <1>3, PTL
=============================================================================
