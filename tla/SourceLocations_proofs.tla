----------------------- MODULE SourceLocations_proofs -----------------------
(***************************************************************************)
(* Proofs about the location table, for every set of sizes, every limit of *)
(* the offset space and every number of linear probes.                     *)
(*                                                                         *)
(* TypeOK, AnswerContains and Bracketed are not inductive: that a scan     *)
(* stops, and that the halving never steps over the entry it looks for,    *)
(* rest on the order of the table and on what the probes so far have       *)
(* ruled out.  IInv adds both.                                             *)
(***************************************************************************)
EXTENDS SourceLocations, TLAPS

(* The entries are in the order of their offsets, from 0, below nextOffset. *)
Sorted ==
  /\ Len(table) >= 1
  /\ table[1].offset = 0
  /\ \A a, b \in 1 .. Len(table) : a < b => table[a].offset < table[b].offset
  /\ \A a \in 1 .. Len(table) : table[a].offset < nextOffset

(* The offset looked up is in use. *)
QueryInUse == query < nextOffset /\ (pc # "idle" => query >= 1)

(* Everything from i on starts after the offset. *)
Scanning ==
  /\ pc = "linear" => i >= 2 /\ (i # Len(table) + 1 => query < table[i].offset)
  /\ pc = "binary" => i <= Len(table)

IInv == /\ TypeOK
        /\ Sorted
        /\ QueryInUse
        /\ AnswerContains
        /\ Scanning
        /\ Bracketed

LEMMA DomainOfTable == ASSUME TypeOK
                       PROVE  DOMAIN table = 1 .. Len(table) /\ Len(table) \in Nat
  BY DEF TypeOK

LEMMA OffsetsAreNaturals ==
  ASSUME TypeOK
  PROVE  Len(table) \in Nat /\ \A a \in 1 .. Len(table) : table[a].offset \in Nat
<1>1. table \in Seq(Entry) BY DEF TypeOK
<1>2. \A a \in 1 .. Len(table) : table[a] \in Entry BY <1>1
<1>3. \A x \in Entry : x.offset \in Nat BY DEF Entry
<1> QED BY <1>1, <1>2, <1>3

(* What AppendEntry does to the table and to its order. *)
LEMMA AppendKeepsOrder ==
  ASSUME TypeOK, Sorted, NEW isInst \in BOOLEAN, NEW size \in Nat,
         AppendEntry(isInst, size)
  PROVE  /\ table' \in Seq(Entry)
         /\ nextOffset' \in Nat
         /\ nextOffset < nextOffset'
         /\ Len(table') = Len(table) + 1
         /\ \A a \in 1 .. Len(table) : table'[a] = table[a]
         /\ table'[Len(table) + 1].offset = nextOffset
         /\ Sorted'
<1> DEFINE e == [offset |-> nextOffset, inst |-> isInst]
<1>1. e \in Entry BY DEF Entry, TypeOK
<1>2. table' = Append(table, e) /\ nextOffset' = nextOffset + size + 1 BY DEF AppendEntry
<1> HIDE DEF e
<1>3. /\ table' \in Seq(Entry)
      /\ Len(table') = Len(table) + 1
      /\ \A a \in 1 .. Len(table) : table'[a] = table[a]
      /\ table'[Len(table) + 1] = e
  BY <1>1, <1>2 DEF TypeOK
<1>4. e.offset = nextOffset BY DEF e
<1>5. nextOffset' \in Nat /\ nextOffset < nextOffset' BY <1>2 DEF TypeOK
<1>6. Len(table) \in Nat /\ \A a \in 1 .. Len(table) : table[a].offset \in Nat
  BY OffsetsAreNaturals
<1>7. \A a \in 1 .. Len(table') : table'[a].offset < nextOffset'
  BY <1>3, <1>4, <1>5, <1>6, SMTT(30) DEF Sorted, TypeOK
<1>8. \A a, b \in 1 .. Len(table') : a < b => table'[a].offset < table'[b].offset
  BY <1>3, <1>4, <1>6 DEF Sorted
<1>9. table'[1].offset = 0 /\ Len(table') >= 1 BY <1>3, <1>6 DEF Sorted
<1> QED BY <1>3, <1>4, <1>5, <1>7, <1>8, <1>9 DEF Sorted

(* An entry contains the offset exactly when its start is the last one at  *)
(* or before the offset.                                                   *)
LEMMA ContainsIsStart ==
  ASSUME TypeOK, Sorted, NEW f \in 1 .. Len(table), NEW o \in Nat
  PROVE  IsOffsetInFileID(f, o) <=> Map!StartOf(table[f].offset, o)
<1>1. Len(table) \in Nat /\ \A a \in 1 .. Len(table) : table[a].offset \in Nat
  BY OffsetsAreNaturals
<1>2. DOMAIN table = 1 .. Len(table) BY DomainOfTable
<1>3. ASSUME IsOffsetInFileID(f, o), NEW a \in 1 .. Len(table), table[a].offset <= o
      PROVE  table[a].offset <= table[f].offset
  <2>1. CASE a <= f BY <2>1, <1>1 DEF Sorted
  <2>2. CASE a > f
    <3>1. f # Len(table) /\ f + 1 \in 1 .. Len(table) BY <2>2, <1>1
    <3>2. o < table[f + 1].offset BY <3>1, <1>3 DEF IsOffsetInFileID
    <3>3. table[f + 1].offset <= table[a].offset BY <2>2, <3>1, <1>1 DEF Sorted
    <3> QED BY <3>2, <3>3, <3>1, <1>1, <1>3
  <2> QED BY <2>1, <2>2, <1>1
<1>4. ASSUME Map!StartOf(table[f].offset, o), f # Len(table)
      PROVE  o < table[f + 1].offset
  <2>1. f + 1 \in 1 .. Len(table) BY <1>4, <1>1
  <2>2. table[f].offset < table[f + 1].offset BY <2>1, <1>1 DEF Sorted
  <2>3. table[f + 1].offset \in {table[g].offset : g \in DOMAIN table} BY <2>1, <1>2
  <2>4. table[f + 1].offset <= o => table[f + 1].offset <= table[f].offset
    BY <1>4, <2>3 DEF Map!StartOf
  <2> QED BY <2>1, <2>2, <2>4, <1>1
<1>5. IsOffsetInFileID(f, o) => Map!StartOf(table[f].offset, o)
  BY <1>2, <1>3 DEF Map!StartOf, IsOffsetInFileID
<1>6. Map!StartOf(table[f].offset, o) => IsOffsetInFileID(f, o)
  BY <1>4 DEF Map!StartOf, IsOffsetInFileID
<1> QED BY <1>5, <1>6

THEOREM InitIInv == Init => IInv
<1> SUFFICES ASSUME Init PROVE IInv OBVIOUS
<1> DEFINE e == [offset |-> 0, inst |-> TRUE]
<1>1. e \in Entry /\ e.offset = 0 BY DEF Entry
<1>2. table = <<e>> BY DEF Init
<1> HIDE DEF e
<1>3. table \in Seq(Entry) /\ Len(table) = 1 /\ table[1] = e /\ DOMAIN table = 1 .. 1
  BY <1>1, <1>2
<1>4. TypeOK BY <1>3 DEF TypeOK, Init
<1>5. Sorted BY <1>1, <1>3 DEF Sorted, Init
<1>6. QueryInUse /\ Scanning /\ Bracketed BY DEF QueryInUse, Scanning, Bracketed, Init
<1>7. AnswerContains BY <1>1, <1>3 DEF AnswerContains, IsOffsetInFileID, Init
<1> QED BY <1>4, <1>5, <1>6, <1>7 DEF IInv

(***************************************************************************)
(* One lemma per kind of step.                                             *)
(***************************************************************************)

(* A new entry: the answer given last stays right, even when it was the    *)
(* last entry, because the offset it was asked about was in use.           *)
LEMMA AppendStep ==
  ASSUME IInv, NEW isInst \in BOOLEAN, NEW size \in Nat, AppendEntry(isInst, size),
         lastFileIDLookup' \in 1 .. Len(table) + 1,
         UNCHANGED <<pc, searchVars, found>>
  PROVE  IInv'
<1>1. TypeOK /\ Sorted /\ QueryInUse /\ AnswerContains BY DEF IInv
<1>2. pc = "idle" /\ pc' = "idle" /\ query' = query /\ i' = i /\ probes' = probes
      /\ less' = less /\ greater' = greater /\ found' = found
  BY DEF AppendEntry, searchVars
<1>3. /\ table' \in Seq(Entry)
      /\ nextOffset' \in Nat
      /\ nextOffset < nextOffset'
      /\ Len(table') = Len(table) + 1
      /\ \A a \in 1 .. Len(table) : table'[a] = table[a]
      /\ table'[Len(table) + 1].offset = nextOffset
      /\ Sorted'
  BY <1>1, AppendKeepsOrder
<1>4. Len(table) \in Nat /\ DOMAIN table = 1 .. Len(table) /\ DOMAIN table' = 1 .. Len(table')
  BY <1>1, <1>3, DomainOfTable
<1>5. TypeOK' BY <1>1, <1>2, <1>3, <1>4 DEF TypeOK
<1>6. QueryInUse' BY <1>1, <1>2, <1>3 DEF QueryInUse, TypeOK
<1>7. AnswerContains'
  <2>1. found \in 1 .. Len(table) /\ table'[found] = table[found] BY <1>1, <1>3, <1>4 DEF TypeOK
  <2>2. table[found].offset <= query /\ (found # Len(table) => query < table[found + 1].offset)
    BY <1>1, <1>2 DEF AnswerContains, IsOffsetInFileID
  <2>3. CASE found # Len(table)
    <3>1. table'[found + 1] = table[found + 1] BY <2>1, <2>3, <1>3, <1>4
    <3> QED BY <1>2, <2>1, <2>2, <2>3, <3>1 DEF AnswerContains, IsOffsetInFileID
  <2>4. CASE found = Len(table)
    BY <1>1, <1>2, <1>3, <2>1, <2>2, <2>4 DEF AnswerContains, IsOffsetInFileID, QueryInUse
  <2> QED BY <2>3, <2>4
<1>8. Scanning' /\ Bracketed' BY <1>2 DEF Scanning, Bracketed
<1> QED BY <1>3, <1>5, <1>6, <1>7, <1>8 DEF IInv

(* A lookup that ends with the entry that contains the offset. *)
LEMMA AnswerStep ==
  ASSUME IInv, NEW f \in 1 .. Len(table), IsOffsetInFileID(f, query), Answer(f),
         lastFileIDLookup' \in DOMAIN table, UNCHANGED tableVars
  PROVE  IInv'
<1>1. TypeOK /\ Sorted /\ QueryInUse BY DEF IInv
<1>2. table' = table /\ nextOffset' = nextOffset BY DEF tableVars
<1>3. pc' = "idle" /\ found' = f /\ i' = 1 /\ probes' = 0 /\ less' = 1 /\ greater' = 1
      /\ query' = query
  BY DEF Answer
<1>4. Len(table) \in Nat /\ DOMAIN table = 1 .. Len(table) BY <1>1, DomainOfTable
<1>5. TypeOK' BY <1>1, <1>2, <1>3, <1>4 DEF TypeOK, Sorted
<1>6. Sorted' /\ QueryInUse' BY <1>1, <1>2, <1>3 DEF Sorted, QueryInUse
<1>7. AnswerContains' BY <1>2, <1>3 DEF AnswerContains, IsOffsetInFileID
<1>8. Scanning' /\ Bracketed' BY <1>3 DEF Scanning, Bracketed
<1> QED BY <1>5, <1>6, <1>7, <1>8 DEF IInv

(* Halving looks at an entry of the bracket, never at its upper end. *)
LEMMA MiddleInBracket ==
  ASSUME IInv, pc = "binary"
  PROVE  /\ MiddleIndex \in 1 .. Len(table)
         /\ less <= MiddleIndex /\ MiddleIndex < greater
<1>1. less \in 1 .. Len(table) /\ greater \in 1 .. Len(table) /\ Len(table) \in Nat
  BY DomainOfTable DEF IInv, TypeOK
<1>2. less < greater BY DEF IInv, Bracketed
<1>3. greater - less \in Nat /\ (greater - less) \div 2 \in Nat
      /\ (greater - less) \div 2 < greater - less
  BY <1>1, <1>2
<1> QED BY <1>1, <1>2, <1>3 DEF MiddleIndex

(* A miss of the cache puts the iterator after the entry wanted. *)
LEMMA MissCacheStep == ASSUME IInv, MissCache PROVE IInv'
<1>1. TypeOK /\ Sorted /\ QueryInUse BY DEF IInv
<1>2. table' = table /\ nextOffset' = nextOffset /\ query' = query /\ less' = less
      /\ greater' = greater /\ found' = found /\ lastFileIDLookup' = lastFileIDLookup
      /\ pc = "cache" /\ pc' = "linear" /\ probes' = 0
      /\ i' = IF table[lastFileIDLookup].offset < query THEN Len(table) + 1
                                                        ELSE lastFileIDLookup
  BY DEF MissCache, tableVars
<1>3. Len(table) \in Nat /\ DOMAIN table = 1 .. Len(table)
      /\ lastFileIDLookup \in 1 .. Len(table) /\ query \in Nat
  BY <1>1, DomainOfTable DEF TypeOK
<1>4. \A a \in 1 .. Len(table) : table[a].offset \in Nat BY <1>1, OffsetsAreNaturals
<1>5. i' \in 2 .. Len(table) + 1 /\ (i' # Len(table) + 1 => query < table[i'].offset)
  <2>1. CASE table[lastFileIDLookup].offset < query
    BY <2>1, <1>1, <1>2, <1>3 DEF Sorted
  <2>2. CASE ~ (table[lastFileIDLookup].offset < query)
    <3>1. i' = lastFileIDLookup /\ query <= table[i'].offset BY <2>2, <1>2, <1>3, <1>4
    <3>2. i' # 1 BY <3>1, <1>1, <1>2, <1>3 DEF Sorted, QueryInUse
    <3>3. ASSUME table[i'].offset = query PROVE FALSE
      <4>1. i' # Len(table) /\ ~ (query < table[i' + 1].offset)
        BY <3>1, <3>3, <1>3 DEF MissCache, IsOffsetInFileID
      <4>2. i' + 1 \in 1 .. Len(table) BY <3>1, <4>1, <1>3
      <4>3. table[i'].offset < table[i' + 1].offset BY <4>2, <3>1, <1>1, <1>3 DEF Sorted
      <4> QED BY <4>1, <4>3, <3>3
    <3> QED BY <3>1, <3>2, <3>3, <1>3, <1>4
  <2> QED BY <2>1, <2>2
<1>6. TypeOK' BY <1>1, <1>2, <1>3, <1>5 DEF TypeOK
<1>7. Sorted' /\ QueryInUse' BY <1>1, <1>2 DEF Sorted, QueryInUse
<1>8. Scanning' BY <1>2, <1>3, <1>5 DEF Scanning
<1>9. AnswerContains' /\ Bracketed' BY <1>2 DEF AnswerContains, Bracketed
<1> QED BY <1>6, <1>7, <1>8, <1>9 DEF IInv

(* A probe that fails leaves the entry wanted before the iterator; there   *)
(* is one, because the first entry starts at 0.                            *)
LEMMA LinearProbeStep == ASSUME IInv, LinearProbe PROVE IInv'
<1>1. TypeOK /\ Sorted /\ QueryInUse /\ Scanning BY DEF IInv
<1>2. table' = table /\ nextOffset' = nextOffset /\ query' = query /\ found' = found
      /\ lastFileIDLookup' = lastFileIDLookup /\ pc = "linear"
      /\ table[i - 1].offset > query /\ i' = i - 1 /\ probes' = probes + 1
  BY DEF LinearProbe, tableVars
<1>3. \/ pc' = "binary" /\ less' = 1 /\ greater' = i - 1
      \/ pc' = "linear" /\ less' = less /\ greater' = greater
  BY <1>2 DEF LinearProbe
<1>4. Len(table) \in Nat /\ DOMAIN table = 1 .. Len(table) /\ i \in 2 .. Len(table) + 1
      /\ query \in Nat
  BY <1>1, <1>2, DomainOfTable DEF TypeOK, Scanning
<1>5. i - 1 \in 2 .. Len(table)
  <2>1. i - 1 # 1 BY <1>1, <1>2, <1>4 DEF Sorted
  <2> QED BY <2>1, <1>4
<1>6. TypeOK' BY <1>1, <1>2, <1>3, <1>4, <1>5 DEF TypeOK
<1>7. Sorted' /\ QueryInUse'
  BY <1>1, <1>2, <1>3 DEF Sorted, QueryInUse
<1>8. Scanning' BY <1>2, <1>3, <1>4, <1>5 DEF Scanning
<1>9. Bracketed'
  <2>1. CASE pc' = "binary" BY <2>1, <1>1, <1>2, <1>3, <1>4, <1>5 DEF Bracketed, Sorted
  <2>2. CASE pc' = "linear" BY <2>2 DEF Bracketed
  <2> QED BY <1>3, <2>1, <2>2
<1>10. AnswerContains' BY <1>3 DEF AnswerContains
<1> QED BY <1>6, <1>7, <1>8, <1>9, <1>10 DEF IInv

(* What the rest of a lookup leaves alone when it moves the bracket. *)
LEMMA BracketStep ==
  ASSUME IInv, pc = "binary",
         UNCHANGED <<tableVars, lastFileIDLookup, pc, query, i, probes, found>>,
         less' \in 1 .. Len(table), greater' \in 1 .. Len(table), less' < greater',
         table[less'].offset <= query, query < table[greater'].offset
  PROVE  IInv'
<1>1. TypeOK /\ Sorted /\ QueryInUse /\ Scanning BY DEF IInv
<1>2. table' = table /\ nextOffset' = nextOffset /\ query' = query /\ found' = found
      /\ lastFileIDLookup' = lastFileIDLookup /\ pc' = pc /\ i' = i /\ probes' = probes
  BY DEF tableVars
<1>3. DOMAIN table = 1 .. Len(table) BY <1>1, DomainOfTable
<1>4. TypeOK' BY <1>1, <1>2, <1>3 DEF TypeOK
<1>5. Sorted' /\ QueryInUse' /\ Scanning' BY <1>1, <1>2 DEF Sorted, QueryInUse, Scanning
<1>6. AnswerContains' BY <1>2 DEF AnswerContains
<1>7. Bracketed' BY <1>2 DEF Bracketed
<1> QED BY <1>4, <1>5, <1>6, <1>7 DEF IInv

(* Every step keeps the invariant. *)
THEOREM NextIInv == IInv /\ [Next]_vars => IInv'
<1> SUFFICES ASSUME IInv, [Next]_vars PROVE IInv' OBVIOUS
<1>1. TypeOK /\ Sorted /\ QueryInUse /\ Scanning /\ Bracketed BY DEF IInv
<1>2. Len(table) \in Nat /\ DOMAIN table = 1 .. Len(table) BY <1>1, DomainOfTable
<1>3. ASSUME NEW size \in Sizes, CreateFileID(size) PROVE IInv'
  <2>1. size \in Nat BY SizesAssumption
  <2>2. AppendEntry(FALSE, size) /\ lastFileIDLookup' = Len(table) + 1
        /\ UNCHANGED <<pc, searchVars, found>>
    BY <1>3 DEF CreateFileID
  <2>3. lastFileIDLookup' \in 1 .. Len(table) + 1 /\ FALSE \in BOOLEAN BY <1>2, <2>2
  <2> QED BY <2>1, <2>2, <2>3, AppendStep
<1>4. ASSUME NEW length \in Sizes, CreateInstantiationLoc(length) PROVE IInv'
  <2>1. length \in Nat BY SizesAssumption
  <2>2. AppendEntry(TRUE, length) /\ lastFileIDLookup' = lastFileIDLookup
        /\ UNCHANGED <<pc, searchVars, found>>
    BY <1>4 DEF CreateInstantiationLoc, searchVars
  <2>3. lastFileIDLookup \in 1 .. Len(table) BY <1>1, <1>2 DEF TypeOK
  <2>4. lastFileIDLookup' \in 1 .. Len(table) + 1 /\ TRUE \in BOOLEAN BY <1>2, <2>2, <2>3
  <2> QED BY <2>1, <2>2, <2>4, AppendStep
<1>5. ASSUME NEW o \in 1 .. nextOffset - 1, GetFileID(o) PROVE IInv'
  <2>1. table' = table /\ nextOffset' = nextOffset /\ query' = o /\ found' = found
        /\ lastFileIDLookup' = lastFileIDLookup /\ i' = i /\ probes' = probes
        /\ less' = less /\ greater' = greater /\ pc' = "cache"
    BY <1>5 DEF GetFileID, tableVars
  <2>2. o \in Nat /\ o < nextOffset /\ o >= 1 BY <1>1 DEF TypeOK
  <2>3. TypeOK' BY <1>1, <2>1, <2>2 DEF TypeOK
  <2>4. Sorted' /\ QueryInUse' BY <1>1, <2>1, <2>2 DEF Sorted, QueryInUse
  <2>5. AnswerContains' /\ Scanning' /\ Bracketed' BY <2>1 DEF AnswerContains, Scanning, Bracketed
  <2> QED BY <2>3, <2>4, <2>5 DEF IInv
<1>6. CASE HitCache
  <2>1. lastFileIDLookup \in 1 .. Len(table) BY <1>1, <1>2 DEF TypeOK
  <2>2. IsOffsetInFileID(lastFileIDLookup, query) /\ Answer(lastFileIDLookup)
        /\ lastFileIDLookup' = lastFileIDLookup /\ UNCHANGED tableVars
    BY <1>6 DEF HitCache
  <2> QED BY <2>1, <2>2, <1>2, AnswerStep
<1>7. CASE MissCache BY <1>7, MissCacheStep
<1>8. CASE LinearHit
  <2>1. i \in 2 .. Len(table) + 1 /\ (i # Len(table) + 1 => query < table[i].offset)
    BY <1>1, <1>2, <1>8 DEF LinearHit, TypeOK, Scanning
  <2>2. i - 1 \in 1 .. Len(table) /\ (i - 1) + 1 = i BY <1>2, <2>1
  <2>3. IsOffsetInFileID(i - 1, query)
    BY <1>2, <1>8, <2>1, <2>2 DEF LinearHit, IsOffsetInFileID
  <2>4. lastFileIDLookup' \in DOMAIN table
    BY <1>1, <1>2, <1>8, <2>2 DEF LinearHit, Remember, TypeOK
  <2> QED BY <1>8, <2>2, <2>3, <2>4, AnswerStep DEF LinearHit
<1>9. CASE LinearProbe BY <1>9, LinearProbeStep
<1>10. CASE ChopHighSide
  <2>1. pc = "binary" /\ table[MiddleIndex].offset > query /\ greater' = MiddleIndex
        /\ less' = less
        /\ UNCHANGED <<tableVars, lastFileIDLookup, pc, query, i, probes, found>>
    BY <1>10 DEF ChopHighSide
  <2>2. MiddleIndex \in 1 .. Len(table) /\ less <= MiddleIndex BY <2>1, MiddleInBracket
  <2>3. table[less].offset <= query BY <1>1, <2>1 DEF Bracketed
  <2>4. less \in 1 .. Len(table) /\ query \in Nat BY <1>1, <1>2 DEF TypeOK
  <2>5. table[less].offset \in Nat BY <1>1, <2>4, OffsetsAreNaturals
  <2>6. less < MiddleIndex
    <3>1. less # MiddleIndex BY <2>1, <2>3, <2>4, <2>5
    <3> QED BY <2>2, <2>4, <3>1
  <2>7. table[MiddleIndex].offset \in Nat BY <1>1, <2>2, OffsetsAreNaturals
  <2>8. query < table[greater'].offset BY <2>1, <2>4, <2>7
  <2> QED BY <2>1, <2>2, <2>3, <2>4, <2>6, <2>8, BracketStep
<1>11. CASE BinaryHit
  <2>1. MiddleIndex \in 1 .. Len(table) BY <1>11, MiddleInBracket DEF BinaryHit
  <2>2. lastFileIDLookup' \in DOMAIN table
    BY <1>1, <1>2, <1>11, <2>1 DEF BinaryHit, Remember, TypeOK
  <2> QED BY <1>11, <2>1, <2>2, AnswerStep DEF BinaryHit
<1>12. CASE ChopLowSide
  <2>1. pc = "binary" /\ table[MiddleIndex].offset <= query /\ less' = MiddleIndex
        /\ greater' = greater
        /\ UNCHANGED <<tableVars, lastFileIDLookup, pc, query, i, probes, found>>
    BY <1>12 DEF ChopLowSide
  <2>2. MiddleIndex \in 1 .. Len(table) /\ MiddleIndex < greater BY <2>1, MiddleInBracket
  <2>3. query < table[greater].offset BY <1>1, <2>1 DEF Bracketed
  <2>4. greater \in 1 .. Len(table) BY <1>1, <1>2 DEF TypeOK
  <2> QED BY <2>1, <2>2, <2>3, <2>4, BracketStep
<1>13. CASE UNCHANGED vars
  BY <1>13 DEF vars, IInv, TypeOK, Sorted, QueryInUse, AnswerContains, IsOffsetInFileID,
               Scanning, Bracketed
<1> QED
  BY <1>3, <1>4, <1>5, <1>6, <1>7, <1>8, <1>9, <1>10, <1>11, <1>12, <1>13
  DEF Next, Client, Search

(* The state of SourceManager keeps its type: no search leaves the table. *)
THEOREM TypeCorrect == Spec => []TypeOK
<1>1. IInv => TypeOK BY DEF IInv
<1> QED BY InitIInv, NextIInv, <1>1, PTL DEF Spec

(* getFileID answers with the entry that contains the offset, for every    *)
(* sequence of files, tokens and lookups and every state of the cache.     *)
THEOREM LookupsAreRight == Spec => []AnswerContains
<1>1. IInv => AnswerContains BY DEF IInv
<1> QED BY InitIInv, NextIInv, <1>1, PTL DEF Spec

(* The halving of getFileIDSlow always has the entry wanted between its    *)
(* two indices.                                                            *)
THEOREM HalvingBrackets == Spec => []Bracketed
<1>1. IInv => Bracketed BY DEF IInv
<1> QED BY InitIInv, NextIInv, <1>1, PTL DEF Spec

(***************************************************************************)
(* The table implements the map.                                           *)
(***************************************************************************)
MapStarts == {table[f].offset : f \in DOMAIN table}
MapAsked == IF pc = "idle" THEN 0 ELSE query

THEOREM InitMapsToInit == Init => Map!Init
<1> SUFFICES ASSUME Init PROVE Map!Init OBVIOUS
<1> DEFINE e == [offset |-> 0, inst |-> TRUE]
<1>1. e.offset = 0 OBVIOUS
<1>2. table = <<e>> BY DEF Init
<1> HIDE DEF e
<1>3. table[1] = e /\ DOMAIN table = {1} BY <1>2
<1>4. {table[f].offset : f \in DOMAIN table} = {0} BY <1>1, <1>3
<1> QED BY <1>1, <1>3, <1>4 DEF Map!Init, Init

(* A new entry extends the map. *)
LEMMA AppendExtends ==
  ASSUME IInv, NEW isInst \in BOOLEAN, NEW size \in Sizes, AppendEntry(isInst, size),
         UNCHANGED <<pc, searchVars, found>>
  PROVE  Map!Extend
<1>1. TypeOK /\ Sorted BY DEF IInv
<1>2. size \in Nat BY SizesAssumption
<1>3. /\ table' \in Seq(Entry)
      /\ Len(table') = Len(table) + 1
      /\ \A a \in 1 .. Len(table) : table'[a] = table[a]
      /\ table'[Len(table) + 1].offset = nextOffset
  BY <1>1, <1>2, AppendKeepsOrder
<1>4. Len(table) \in Nat /\ DOMAIN table = 1 .. Len(table) /\ found \in 1 .. Len(table)
      /\ DOMAIN table' = 1 .. Len(table) + 1
  BY <1>1, <1>3, DomainOfTable DEF TypeOK
<1>5. {table'[f].offset : f \in DOMAIN table'}
        = {table[f].offset : f \in DOMAIN table} \cup {nextOffset}
  <2>1. \A f \in DOMAIN table' : f \in DOMAIN table \/ f = Len(table) + 1 BY <1>4
  <2>2. Len(table) + 1 \in DOMAIN table' /\ DOMAIN table \subseteq DOMAIN table' BY <1>4
  <2>3. \A f \in DOMAIN table : table'[f].offset = table[f].offset BY <1>3, <1>4
  <2> QED BY <2>1, <2>2, <2>3, <1>3
<1>6. table'[found'].offset = table[found].offset BY <1>3, <1>4
<1>7. pc = "idle" /\ pc' = "idle" BY DEF AppendEntry
<1>8. nextOffset + size + 1 <= OffsetLimit /\ nextOffset' = nextOffset + size + 1
  BY DEF AppendEntry
<1> QED BY <1>5, <1>6, <1>7, <1>8 DEF Map!Extend

(* The end of a lookup answers the query. *)
LEMMA AnswerAnswers ==
  ASSUME IInv, pc # "idle", NEW f \in 1 .. Len(table), IsOffsetInFileID(f, query),
         Answer(f), UNCHANGED tableVars
  PROVE  Map!Answer
<1>1. TypeOK /\ Sorted /\ QueryInUse BY DEF IInv
<1>2. query \in Nat /\ query # 0 BY <1>1 DEF TypeOK, QueryInUse
<1>3. Map!StartOf(table[f].offset, query) BY <1>1, <1>2, ContainsIsStart
<1>4. f \in DOMAIN table BY <1>1, DomainOfTable
<1>5. table' = table /\ nextOffset' = nextOffset BY DEF tableVars
<1>6. pc' = "idle" /\ found' = f BY DEF Answer
<1>7. MapAsked = query /\ MapAsked' = 0 BY <1>6 DEF MapAsked
<1>8. Map!StartOf(table[f].offset, MapAsked) BY <1>3, <1>7
<1>9. table'[found'].offset = table[f].offset BY <1>5, <1>6
<1>10. table[f].offset \in MapStarts BY <1>4 DEF MapStarts
<1> QED BY <1>2, <1>5, <1>7, <1>8, <1>9, <1>10 DEF Map!Answer, MapStarts, MapAsked

(* A step of the scans between a question and its answer is not seen. *)
LEMMA ProbeStutters ==
  ASSUME pc # "idle", pc' # "idle", UNCHANGED <<tableVars, query, found>>
  PROVE  UNCHANGED Map!mapVars
<1>1. table' = table /\ nextOffset' = nextOffset /\ query' = query /\ found' = found
  BY DEF tableVars
<1> QED BY <1>1 DEF Map!mapVars

(* Every step of the table is a step of the map or is not seen by it. *)
THEOREM StepMapsToStep == IInv /\ [Next]_vars => [Map!Next]_(Map!mapVars)
<1> SUFFICES ASSUME IInv, [Next]_vars PROVE Map!Next \/ UNCHANGED Map!mapVars
  OBVIOUS
<1>1. TypeOK /\ Sorted /\ Scanning BY DEF IInv
<1>2. Len(table) \in Nat /\ DOMAIN table = 1 .. Len(table) BY <1>1, DomainOfTable
<1>3. ASSUME NEW size \in Sizes, CreateFileID(size) PROVE Map!Next
  BY <1>3, AppendExtends DEF CreateFileID, Map!Next
<1>4. ASSUME NEW length \in Sizes, CreateInstantiationLoc(length) PROVE Map!Next
  <2>1. AppendEntry(TRUE, length) /\ UNCHANGED <<pc, searchVars, found>>
    BY <1>4 DEF CreateInstantiationLoc, searchVars
  <2> QED BY <2>1, AppendExtends DEF Map!Next
<1>5. ASSUME NEW o \in 1 .. nextOffset - 1, GetFileID(o) PROVE Map!Next
  <2>1. table' = table /\ nextOffset' = nextOffset /\ query' = o /\ found' = found
        /\ pc = "idle" /\ pc' = "cache"
    BY <1>5 DEF GetFileID, tableVars
  <2>2. Map!Ask BY <2>1 DEF Map!Ask
  <2> QED BY <2>2 DEF Map!Next
<1>6. CASE HitCache
  <2>1. lastFileIDLookup \in 1 .. Len(table) BY <1>1, <1>2 DEF TypeOK
  <2>2. Map!Answer BY <1>6, <2>1, AnswerAnswers DEF HitCache
  <2> QED BY <2>2 DEF Map!Next
<1>7. CASE MissCache
  BY <1>7, ProbeStutters DEF MissCache, tableVars
<1>8. CASE LinearHit
  <2>1. i \in 2 .. Len(table) + 1 /\ (i # Len(table) + 1 => query < table[i].offset)
    BY <1>1, <1>2, <1>8 DEF LinearHit, TypeOK, Scanning
  <2>2. i - 1 \in 1 .. Len(table) /\ (i - 1) + 1 = i BY <1>2, <2>1
  <2>3. IsOffsetInFileID(i - 1, query)
    BY <1>2, <1>8, <2>1, <2>2 DEF LinearHit, IsOffsetInFileID
  <2>4. Map!Answer BY <1>8, <2>2, <2>3, AnswerAnswers DEF LinearHit
  <2> QED BY <2>4 DEF Map!Next
<1>9. CASE LinearProbe
  <2>1. pc = "linear" /\ pc' # "idle" /\ UNCHANGED <<tableVars, query, found>>
    BY <1>9 DEF LinearProbe, tableVars
  <2> QED BY <2>1, ProbeStutters
<1>10. CASE ChopHighSide
  BY <1>10, ProbeStutters DEF ChopHighSide, tableVars
<1>11. CASE BinaryHit
  <2>1. MiddleIndex \in 1 .. Len(table) BY <1>11, MiddleInBracket DEF BinaryHit
  <2>2. Map!Answer BY <1>11, <2>1, AnswerAnswers DEF BinaryHit
  <2> QED BY <2>2 DEF Map!Next
<1>12. CASE ChopLowSide
  BY <1>12, ProbeStutters DEF ChopLowSide, tableVars
<1>13. CASE UNCHANGED vars
  BY <1>13 DEF vars, Map!mapVars
<1> QED
  BY <1>3, <1>4, <1>5, <1>6, <1>7, <1>8, <1>9, <1>10, <1>11, <1>12, <1>13
  DEF Next, Client, Search

(* SourceManager implements the map from offsets to extents: what its      *)
(* clients see of a lookup does not depend on the cache or the searches.   *)
(* (That every lookup is answered is checked by TLC.)                      *)
THEOREM TableImplementsMap == Spec => Map!Init /\ [][Map!Next]_(Map!mapVars)
  BY InitIInv, NextIInv, InitMapsToInit, StepMapsToStep, PTL DEF Spec
=============================================================================
