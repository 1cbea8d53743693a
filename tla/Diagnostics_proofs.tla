-------------------------- MODULE Diagnostics_proofs --------------------------
(***************************************************************************)
(* Proofs about module Diagnostics, for every table of diagnostics and of  *)
(* options, every set of custom levels and any number of calls.            *)
(***************************************************************************)
EXTENDS Diagnostics, SequenceLemmas

LevelSet == {"Ignored", "Note", "Warning", "Error", "Fatal"}
Mapped   == MAP_IGNORE..MAP_WARNING_NO_WERROR

(* What four bits hold: nothing, or a mapping the code has made or been    *)
(* asked for.                                                              *)
HalfBytes == {0} \cup Mapped \cup {map + UserBit : map \in Mapped}
Bytes == {byte \in 0..255 : byte % 16 \in HalfBytes /\ byte \div 16 \in HalfBytes}

TypeOK ==
    /\ mappings \in Seq([Slots -> Bytes]) /\ mappings # <<>>
    /\ flags \in [ignoreAllWarnings: BOOLEAN, warningsAsErrors: BOOLEAN,
                  suppressSystemWarnings: BOOLEAN, ext: {"Ignore", "Warn", "Error"}]
    /\ silenced \in Nat
    /\ custom \in Seq(LevelSet)
    /\ lastLevel \in LevelSet
    /\ errorOccurred \in BOOLEAN /\ fatalErrorOccurred \in BOOLEAN
    /\ numErrors \in Nat /\ numDiagnostics \in Nat
    /\ buffer \in [errors: Nat, warnings: Nat, notes: Nat]
    /\ last \in [id: Int, emitted: BOOLEAN, note: BOOLEAN]
    /\ shown \in BOOLEAN /\ fatal \in BOOLEAN
    /\ wanted \in Seq([Builtin -> {0} \cup Mapped]) /\ Len(wanted) = Len(mappings)
    /\ changes \in Nat /\ reports \in Nat

(* LastDiagLevel and FatalErrorOccurred, which decide about a note, say    *)
(* together whether the diagnostic before it was emitted.                  *)
NotesFollow == shown = (~fatalErrorOccurred /\ lastLevel # "Ignored")

(* A fatal error is remembered, first as the last level and then for good. *)
FatalSeen == fatal => fatalErrorOccurred \/ lastLevel = "Fatal"

CountsAgree ==
    /\ numErrors = buffer.errors
    /\ errorOccurred = (buffer.errors > 0)
    /\ numDiagnostics = buffer.errors + buffer.warnings + buffer.notes

(* The half byte of a diagnostic holds what was asked for, marked as such, *)
(* or else nothing or its default.                                         *)
Remembers(top, mine, id) ==
    IF mine[id] # 0 THEN HalfByte(top, id) = mine[id] + UserBit
    ELSE HalfByte(top, id) \in {0, DefaultMapping(id)}

AllRemembered(top, mine) == \A id \in Builtin : ~IsNote(id) => Remembers(top, mine, id)

(* On every level of the stack, for it may be uncovered by popMappings.    *)
StackRemembers == \A k \in 1..Len(mappings) : AllRemembered(mappings[k], wanted[k])

MemoryOK ==
    /\ mappings \in Seq([Slots -> Bytes]) /\ mappings # <<>>
    /\ wanted \in Seq([Builtin -> {0} \cup Mapped]) /\ Len(wanted) = Len(mappings)
    /\ StackRemembers

IInv == TypeOK /\ NotesFollow /\ FatalSeen /\ CountsAgree /\ StackRemembers

-----------------------------------------------------------------------------
(* Half bytes.                                                             *)

LEMMA Halves ==
    ASSUME NEW low \in HalfBytes, NEW high \in HalfBytes
    PROVE  low + 16 * high \in Bytes
<1>1. low \in 0..15 /\ high \in 0..15
  BY DEF HalfBytes, Mapped, MAP_IGNORE, MAP_WARNING_NO_WERROR, UserBit
<1>2. low + 16 * high \in 0..255
  BY <1>1
<1>3. (low + 16 * high) % 16 = low /\ (low + 16 * high) \div 16 = high
  BY <1>1
<1> QED BY <1>2, <1>3 DEF Bytes

LEMMA WithMappingsTyped ==
    ASSUME NEW top \in [Slots -> Bytes], NEW ids, NEW map \in HalfBytes
    PROVE  WithMappings(top, ids, map) \in [Slots -> Bytes]
<1> DEFINE Half(id, old) == IF id \in ids THEN map ELSE old
<1>1. ASSUME NEW slot \in Slots
      PROVE  Half(2 * slot - 2, top[slot] % 16) + 16 * Half(2 * slot - 1, top[slot] \div 16) \in Bytes
  <2>1. top[slot] % 16 \in HalfBytes /\ top[slot] \div 16 \in HalfBytes
    BY DEF Bytes
  <2> QED BY <2>1, Halves
<1> QED BY <1>1 DEF WithMappings

LEMMA SetMappingsTyped ==
    ASSUME mappings \in Seq([Slots -> Bytes]), mappings # <<>>, NEW ids, NEW map \in HalfBytes
    PROVE  SetMappings(ids, map) \in Seq([Slots -> Bytes]) /\ SetMappings(ids, map) # <<>>
<1> DEFINE n == Len(mappings)
<1>1. n \in 1..Len(mappings) /\ mappings[n] \in [Slots -> Bytes]
  OBVIOUS
<1>2. WithMappings(mappings[n], ids, map) \in [Slots -> Bytes]
  BY <1>1, WithMappingsTyped
<1>3. SetMappings(ids, map) = [mappings EXCEPT ![n] = WithMappings(mappings[n], ids, map)]
  BY DEF SetMappings
<1> QED BY <1>1, <1>2, <1>3

(* To set the half byte of some diagnostics leaves the other half alone.   *)
LEMMA SetHalf ==
    ASSUME NEW top \in [Slots -> Bytes], NEW ids, NEW map \in HalfBytes,
           NEW id \in Builtin, ~IsNote(id)
    PROVE  HalfByte(WithMappings(top, ids, map), id) = IF id \in ids THEN map ELSE HalfByte(top, id)
<1> DEFINE s == Slot(id)
           low == top[s] % 16
           high == top[s] \div 16
           Half(i, old) == IF i \in ids THEN map ELSE old
           l == Half(2 * s - 2, low)
           h == Half(2 * s - 1, high)
<1>1. s \in Slots
  BY SlotAssumption
<1>2. id \in Nat
  BY DEF Builtin
<1>3. IF id % 2 = 0 THEN id = 2 * s - 2 ELSE id = 2 * s - 1
  BY <1>2 DEF Slot
<1>4. low \in HalfBytes /\ high \in HalfBytes
  BY <1>1 DEF Bytes
<1>5. WithMappings(top, ids, map)[s] = l + 16 * h
  BY <1>1 DEF WithMappings
<1>6. l \in 0..15 /\ h \in 0..15
  BY <1>4 DEF HalfBytes, Mapped, MAP_IGNORE, MAP_WARNING_NO_WERROR, UserBit
<1>7. (l + 16 * h) % 16 = l /\ (l + 16 * h) \div 16 = h
  <2> HIDE DEF l, h
  <2> QED BY <1>6
<1>8. HalfByte(WithMappings(top, ids, map), id) = IF id % 2 = 0 THEN l ELSE h
  BY <1>5, <1>7 DEF HalfByte
<1>9. HalfByte(top, id) = IF id % 2 = 0 THEN low ELSE high
  BY DEF HalfByte
<1> HIDE DEF s, low, high
<1> QED BY <1>3, <1>8, <1>9

-----------------------------------------------------------------------------
(* Levels.                                                                 *)

LEMMA LevelsAre == Range(Levels) = LevelSet
<1>1. DOMAIN Levels = 1..5
  BY DEF Levels
<1>2. /\ Levels[1] = "Ignored" /\ Levels[2] = "Note" /\ Levels[3] = "Warning"
      /\ Levels[4] = "Error" /\ Levels[5] = "Fatal"
  BY DEF Levels
<1> QED BY <1>1, <1>2 DEF Range, LevelSet

LEMMA Ranks ==
    /\ Rank("Note") = 2 /\ Rank("Warning") = 3 /\ Rank("Error") = 4 /\ Rank("Fatal") = 5
<1>1. DOMAIN Levels = 1..5
  BY DEF Levels
<1>2. /\ Levels[1] = "Ignored" /\ Levels[2] = "Note" /\ Levels[3] = "Warning"
      /\ Levels[4] = "Error" /\ Levels[5] = "Fatal"
  BY DEF Levels
<1> QED BY <1>1, <1>2 DEF Rank

LEMMA DefaultTyped ==
    ASSUME NEW id \in Builtin
    PROVE  DefaultMapping(id) \in Mapped
<1> DEFINE Infos == [class: {"NOTE", "WARNING", "EXTENSION", "ERROR"}, mapping: Mapped]
<1>1. StaticDiagInfo \in Seq(Infos)
  BY DiagAssumption DEF Mapped
<1>2. id + 1 \in 1..Len(StaticDiagInfo)
  BY <1>1 DEF Builtin, DIAG_UPPER_LIMIT
<1> HIDE DEF Infos
<1>3. StaticDiagInfo[id + 1] \in Infos
  BY <1>1, <1>2
<1> USE DEF Infos
<1> QED BY <1>1, <1>2, <1>3 DEF DefaultMapping

(* The mapping of a builtin diagnostic is one of the five, whether it was  *)
(* asked for or is the default; the switch has a case for it.              *)
LEMMA MappingInfoTyped ==
    ASSUME TypeOK, NEW id \in Builtin, ~IsNote(id)
    PROVE  /\ MappingInfo(id) \in HalfBytes
           /\ MappingInfo(id) % UserBit \in Mapped
<1>1. DefaultMapping(id) \in Mapped
  BY DefaultTyped
<1>2. Slot(id) \in Slots
  BY SlotAssumption
<1>3. Last(mappings) \in [Slots -> Bytes]
  BY DEF TypeOK, Last
<1>4. getDiagnosticMappingInfo(id) \in HalfBytes
  BY <1>2, <1>3 DEF getDiagnosticMappingInfo, HalfByte, Bytes
<1>5. MappingInfo(id) \in HalfBytes /\ MappingInfo(id) # 0
  BY <1>1, <1>4 DEF MappingInfo, HalfBytes, Mapped, MAP_IGNORE
<1>6. ASSUME NEW info \in HalfBytes, info # 0
      PROVE  info % UserBit \in Mapped
  BY <1>6 DEF HalfBytes, Mapped, MAP_IGNORE, MAP_WARNING_NO_WERROR, UserBit
<1> QED BY <1>5, <1>6

LEMMA getDiagnosticLevelTyped ==
    ASSUME TypeOK, NEW id \in Builtin, ~IsNote(id)
    PROVE  getDiagnosticLevel(id) \in LevelSet
<1> DEFINE info == MappingInfo(id)
           map == info % UserBit
<1>1. map \in Mapped
  BY MappingInfoTyped
<1>2. \/ map = MAP_IGNORE \/ map = MAP_ERROR \/ map = MAP_FATAL \/ map = MAP_WARNING
      \/ map = MAP_WARNING_NO_WERROR
  BY <1>1 DEF Mapped, MAP_IGNORE, MAP_ERROR, MAP_FATAL, MAP_WARNING, MAP_WARNING_NO_WERROR
<1>3. LevelIgnore(id, info >= UserBit) \in LevelSet /\ LevelWarning(id, info >= UserBit) \in LevelSet
  BY DEF LevelIgnore, LevelWarning, LevelSet
<1> HIDE DEF info, map
<1> QED
  BY <1>2, <1>3
  DEF getDiagnosticLevel, LevelSet, MAP_IGNORE, MAP_ERROR, MAP_FATAL, MAP_WARNING,
      MAP_WARNING_NO_WERROR, info, map

LEMMA LevelOfTyped ==
    ASSUME TypeOK, NEW id \in Known
    PROVE  LevelOf(id) \in LevelSet
<1>1. CASE id \notin Builtin
  <2>1. id - DIAG_UPPER_LIMIT + 1 \in DOMAIN custom
    <3>1. PICK i \in DOMAIN custom : id = DIAG_UPPER_LIMIT + i - 1
      BY <1>1 DEF Known
    <3>2. DIAG_UPPER_LIMIT \in Nat /\ i \in Nat
      BY DiagAssumption DEF DIAG_UPPER_LIMIT, TypeOK
    <3>3. id - DIAG_UPPER_LIMIT + 1 = i
      BY <3>1, <3>2
    <3> QED BY <3>3
  <2>2. custom[id - DIAG_UPPER_LIMIT + 1] \in LevelSet
    BY <2>1 DEF TypeOK
  <2>3. LevelOf(id) = custom[id - DIAG_UPPER_LIMIT + 1]
    BY <1>1 DEF LevelOf, IsNote
  <2> QED BY <2>2, <2>3
<1>2. CASE id \in Builtin /\ IsNote(id)
  BY <1>2 DEF LevelOf, LevelSet
<1>3. CASE id \in Builtin /\ ~IsNote(id)
  BY <1>3, getDiagnosticLevelTyped DEF LevelOf
<1> QED BY <1>1, <1>2, <1>3

-----------------------------------------------------------------------------
(* The mappings, and what was asked for.                                   *)

(* To change what is on top: it suffices to look there.                    *)
LEMMA TopKeeps ==
    ASSUME MemoryOK, NEW top \in [Slots -> Bytes], NEW mine \in [Builtin -> {0} \cup Mapped],
           mappings' = [mappings EXCEPT ![Len(mappings)] = top],
           wanted' = [wanted EXCEPT ![Len(wanted)] = mine],
           AllRemembered(top, mine)
    PROVE  MemoryOK'
<1> DEFINE n == Len(mappings)
<1>1. n \in 1..n /\ n = Len(wanted)
  BY DEF MemoryOK
<1>2. /\ mappings' \in Seq([Slots -> Bytes]) /\ Len(mappings') = n /\ mappings' # <<>>
      /\ \A k \in 1..n : mappings'[k] = IF k = n THEN top ELSE mappings[k]
  BY <1>1 DEF MemoryOK
<1>3. /\ wanted' \in Seq([Builtin -> {0} \cup Mapped]) /\ Len(wanted') = n
      /\ \A k \in 1..n : wanted'[k] = IF k = n THEN mine ELSE wanted[k]
  BY <1>1 DEF MemoryOK
<1>4. \A k \in 1..n : AllRemembered(mappings[k], wanted[k])
  BY DEF MemoryOK, StackRemembers
<1> HIDE DEF n
<1>5. \A k \in 1..n : AllRemembered(mappings'[k], wanted'[k])
  BY <1>2, <1>3, <1>4
<1>6. StackRemembers'
  BY <1>2, <1>5 DEF StackRemembers, AllRemembered, Remembers, HalfByte
<1> QED BY <1>2, <1>3, <1>6 DEF MemoryOK

LEMMA OnTop ==
    ASSUME MemoryOK
    PROVE  /\ Len(mappings) \in 1..Len(mappings) /\ Len(wanted) = Len(mappings)
           /\ Last(mappings) = mappings[Len(mappings)] /\ Last(wanted) = wanted[Len(mappings)]
           /\ Last(mappings) \in [Slots -> Bytes]
           /\ Last(wanted) \in [Builtin -> {0} \cup Mapped]
           /\ AllRemembered(Last(mappings), Last(wanted))
<1>1. Len(mappings) \in 1..Len(mappings)
  BY DEF MemoryOK
<1> QED BY <1>1 DEF MemoryOK, StackRemembers, Last

LEMMA AskKeeps ==
    ASSUME MemoryOK, NEW ids, NEW map \in Mapped, Ask(ids, map)
    PROVE  MemoryOK'
<1> DEFINE n == Len(mappings)
           top == WithMappings(mappings[n], ids, map + UserBit)
           mine == [id \in Builtin |-> IF id \in ids THEN map ELSE wanted[n][id]]
<1>1. n \in 1..n /\ n = Len(wanted) /\ mappings[n] \in [Slots -> Bytes]
      /\ wanted[n] \in [Builtin -> {0} \cup Mapped]
      /\ AllRemembered(mappings[n], wanted[n])
  BY OnTop
<1>2. map + UserBit \in HalfBytes
  BY DEF HalfBytes
<1>3. top \in [Slots -> Bytes]
  BY <1>1, <1>2, WithMappingsTyped
<1>4. mine \in [Builtin -> {0} \cup Mapped]
  BY <1>1
<1>5. mappings' = [mappings EXCEPT ![n] = top] /\ wanted' = [wanted EXCEPT ![n] = mine]
  BY <1>1 DEF Ask, SetMappings
<1>6. ASSUME NEW id \in Builtin, ~IsNote(id)
      PROVE  Remembers(top, mine, id)
  <2>1. HalfByte(top, id) = IF id \in ids THEN map + UserBit ELSE HalfByte(mappings[n], id)
    BY <1>1, <1>2, <1>6, SetHalf
  <2>2. mine[id] = IF id \in ids THEN map ELSE wanted[n][id]
    OBVIOUS
  <2>3. Remembers(mappings[n], wanted[n], id)
    BY <1>1, <1>6 DEF AllRemembered
  <2>4. map # 0
    BY DEF Mapped, MAP_IGNORE
  <2> HIDE DEF top, mine
  <2> QED BY <2>1, <2>2, <2>3, <2>4 DEF Remembers
<1>7. AllRemembered(top, mine)
  BY <1>6 DEF AllRemembered
<1> HIDE DEF top, mine
<1> QED BY <1>1, <1>3, <1>4, <1>5, <1>7, TopKeeps

(* A mapping that was unset is filled in with its default, one that was    *)
(* asked for is written again.                                             *)
LEMMA MappingsAfterKeeps ==
    ASSUME TypeOK, MemoryOK, NEW id \in Known, mappings' = MappingsAfter(id), wanted' = wanted
    PROVE  MemoryOK'
<1> DEFINE n == Len(mappings)
           info == MappingInfo(id)
           top == WithMappings(mappings[n], {id}, info)
<1>1. n \in 1..n /\ n = Len(wanted) /\ mappings[n] \in [Slots -> Bytes]
      /\ Last(mappings) = mappings[n]
      /\ wanted[n] \in [Builtin -> {0} \cup Mapped]
      /\ AllRemembered(mappings[n], wanted[n])
  BY OnTop
<1>2. CASE id \in Builtin /\ ~IsNote(id)
  <2>1. info \in HalfBytes
    BY <1>2, MappingInfoTyped
  <2>2. top \in [Slots -> Bytes]
    BY <1>1, <2>1, WithMappingsTyped
  <2>3. mappings' = [mappings EXCEPT ![n] = top]
    BY <1>2 DEF MappingsAfter, SetMappings
  <2>4. wanted' = [wanted EXCEPT ![n] = wanted[n]]
    BY <1>1 DEF MemoryOK
  <2>5. ASSUME NEW i \in Builtin, ~IsNote(i)
        PROVE  Remembers(top, wanted[n], i)
    <3>1. HalfByte(top, i) = IF i = id THEN info ELSE HalfByte(mappings[n], i)
      BY <1>1, <2>1, <2>5, SetHalf
    <3>2. Remembers(mappings[n], wanted[n], i)
      BY <1>1, <2>5 DEF AllRemembered
    <3>3. info = IF HalfByte(mappings[n], id) = 0 THEN DefaultMapping(id)
                 ELSE HalfByte(mappings[n], id)
      BY <1>1 DEF MappingInfo, getDiagnosticMappingInfo
    <3>4. wanted[n][i] \in Nat
      BY <1>1 DEF Mapped, MAP_IGNORE, MAP_WARNING_NO_WERROR
    <3> HIDE DEF top, info
    <3> QED BY <3>1, <3>2, <3>3, <3>4 DEF Remembers, UserBit
  <2>6. AllRemembered(top, wanted[n])
    BY <2>5 DEF AllRemembered
  <2> HIDE DEF top, info
  <2> QED BY <1>1, <2>2, <2>3, <2>4, <2>6, TopKeeps
<1>3. CASE ~(id \in Builtin /\ ~IsNote(id))
  <2>1. mappings' = mappings
    BY <1>3 DEF MappingsAfter
  <2> QED BY <2>1 DEF MemoryOK, StackRemembers
<1> QED BY <1>2, <1>3

LEMMA PushKeeps ==
    ASSUME MemoryOK, pushMappings
    PROVE  MemoryOK'
<1> DEFINE n == Len(mappings)
           top == Last(mappings)
           mine == Last(wanted)
<1>1. n \in 1..n /\ n = Len(wanted) /\ top \in [Slots -> Bytes]
      /\ mine \in [Builtin -> {0} \cup Mapped] /\ AllRemembered(top, mine)
  BY OnTop
<1>2. mappings' = Append(mappings, top) /\ wanted' = Append(wanted, mine)
  BY DEF pushMappings
<1> HIDE DEF top, mine
<1>3. /\ mappings' \in Seq([Slots -> Bytes]) /\ Len(mappings') = n + 1 /\ mappings' # <<>>
      /\ \A k \in 1..n + 1 : mappings'[k] = IF k = n + 1 THEN top ELSE mappings[k]
  BY <1>1, <1>2 DEF MemoryOK
<1>4. /\ wanted' \in Seq([Builtin -> {0} \cup Mapped]) /\ Len(wanted') = n + 1
      /\ \A k \in 1..n + 1 : wanted'[k] = IF k = n + 1 THEN mine ELSE wanted[k]
  BY <1>1, <1>2 DEF MemoryOK
<1>5. \A k \in 1..n : AllRemembered(mappings[k], wanted[k])
  BY DEF MemoryOK, StackRemembers
<1>6. \A k \in 1..n + 1 : AllRemembered(mappings'[k], wanted'[k])
  <2> TAKE k \in 1..n + 1
  <2>1. n \in Nat
    BY <1>1
  <2>2. k = n + 1 \/ k \in 1..n
    BY <2>1
  <2> HIDE DEF n
  <2> QED BY <1>1, <1>3, <1>4, <1>5, <2>1, <2>2
<1>7. StackRemembers'
  BY <1>3, <1>6 DEF StackRemembers, AllRemembered, Remembers, HalfByte
<1> QED BY <1>3, <1>4, <1>7 DEF MemoryOK

LEMMA PopKeeps ==
    ASSUME MemoryOK, popMappings
    PROVE  MemoryOK'
<1> DEFINE n == Len(mappings)
<1>1. /\ n \in Nat /\ n > 1 /\ n = Len(wanted)
      /\ mappings' = Front(mappings) /\ wanted' = Front(wanted)
  BY DEF popMappings, MemoryOK
<1>2. /\ mappings' \in Seq([Slots -> Bytes]) /\ Len(mappings') = n - 1 /\ mappings' # <<>>
      /\ \A k \in 1..n - 1 : mappings'[k] = mappings[k]
  <2>1. mappings \in Seq([Slots -> Bytes]) /\ mappings # <<>>
    BY DEF MemoryOK
  <2>2. /\ Front(mappings) \in Seq([Slots -> Bytes]) /\ Len(Front(mappings)) = n - 1
        /\ \A k \in 1..n - 1 : Front(mappings)[k] = mappings[k]
    BY <2>1, FrontLast
  <2>3. mappings' # <<>>
    BY <1>1, <2>2
  <2> QED BY <1>1, <2>2, <2>3
<1>3. /\ wanted' \in Seq([Builtin -> {0} \cup Mapped]) /\ Len(wanted') = n - 1
      /\ \A k \in 1..n - 1 : wanted'[k] = wanted[k]
  <2>1. wanted # <<>>
    BY <1>1
  <2> QED BY <1>1, <2>1, FrontLast DEF MemoryOK
<1>4. \A k \in 1..n : AllRemembered(mappings[k], wanted[k])
  BY DEF MemoryOK, StackRemembers
<1> HIDE DEF n
<1>5. \A k \in 1..n - 1 : AllRemembered(mappings'[k], wanted'[k])
  BY <1>1, <1>2, <1>3, <1>4
<1>6. StackRemembers'
  BY <1>2, <1>5 DEF StackRemembers, AllRemembered, Remembers, HalfByte
<1> QED BY <1>2, <1>3, <1>6 DEF MemoryOK

(* What the half byte says is what the description of the options says.    *)
LEMMA RememberedIsRight ==
    ASSUME TypeOK, MemoryOK
    PROVE  LevelIsRight
<1> SUFFICES ASSUME NEW id \in Builtin, ~IsNote(id),
                    ~(Upgraded(id) /\ (flags.ignoreAllWarnings \/ flags.warningsAsErrors))
             PROVE  getDiagnosticLevel(id) = ReferenceLevel(id)
  BY DEF LevelIsRight
<1> DEFINE half == HalfByte(Last(mappings), id)
           want == Last(wanted)[id]
           info == MappingInfo(id)
           map == IF want # 0 THEN want ELSE DefaultMapping(id)
<1>1. /\ want \in {0} \cup Mapped
      /\ IF want # 0 THEN half = want + UserBit ELSE half \in {0, DefaultMapping(id)}
  BY OnTop DEF AllRemembered, Remembers
<1>2. DefaultMapping(id) \in Mapped
  BY DefaultTyped
<1>3. info = IF half = 0 THEN DefaultMapping(id) ELSE half
  BY DEF MappingInfo, getDiagnosticMappingInfo
<1>4. map \in Mapped
  BY <1>1, <1>2
<1>5. /\ (info >= UserBit) = (want # 0)
      /\ info % UserBit = map
  <2> HIDE DEF info, half, want
  <2>1. Mapped = 1..5 /\ UserBit = 8
    BY DEF Mapped, MAP_IGNORE, MAP_WARNING_NO_WERROR, UserBit
  <2> QED BY <1>1, <1>2, <1>3, <2>1
<1>6. \/ map = MAP_IGNORE \/ map = MAP_ERROR \/ map = MAP_FATAL \/ map = MAP_WARNING
      \/ map = MAP_WARNING_NO_WERROR
  BY <1>4 DEF Mapped, MAP_IGNORE, MAP_ERROR, MAP_FATAL, MAP_WARNING, MAP_WARNING_NO_WERROR
<1>7. flags.ext \in {"Ignore", "Warn", "Error"}
  BY DEF TypeOK
<1> DEFINE asked == want # 0
           user == info >= UserBit
           code == info % UserBit
<1>8. (user <=> asked) /\ code = map
  BY <1>5
<1> HIDE DEF half, info
<1>9. CASE map = MAP_IGNORE
  BY <1>7, <1>8, <1>9
  DEF getDiagnosticLevel, ReferenceLevel, Upgraded, LevelIgnore, info, MAP_IGNORE, MAP_ERROR,
      MAP_FATAL, MAP_WARNING, MAP_WARNING_NO_WERROR
<1>10. CASE map = MAP_ERROR
  BY <1>8, <1>10
  DEF getDiagnosticLevel, ReferenceLevel, info, MAP_IGNORE, MAP_ERROR, MAP_FATAL,
      MAP_WARNING, MAP_WARNING_NO_WERROR
<1>11. CASE map = MAP_FATAL
  BY <1>8, <1>11
  DEF getDiagnosticLevel, ReferenceLevel, info, MAP_IGNORE, MAP_ERROR, MAP_FATAL,
      MAP_WARNING, MAP_WARNING_NO_WERROR
<1>12. CASE map = MAP_WARNING
  BY <1>7, <1>8, <1>12
  DEF getDiagnosticLevel, ReferenceLevel, LevelWarning, info, MAP_IGNORE, MAP_ERROR, MAP_FATAL,
      MAP_WARNING, MAP_WARNING_NO_WERROR
<1>13. CASE map = MAP_WARNING_NO_WERROR
  BY <1>8, <1>13
  DEF getDiagnosticLevel, ReferenceLevel, info, MAP_IGNORE, MAP_ERROR, MAP_FATAL,
      MAP_WARNING, MAP_WARNING_NO_WERROR
<1> QED BY <1>6, <1>9, <1>10, <1>11, <1>12, <1>13

-----------------------------------------------------------------------------
(* The steps.                                                              *)

Unreported == UNCHANGED <<state, shown, fatal, reports>>

LEMMA InitMemory == Init => MemoryOK
<1> SUFFICES ASSUME Init PROVE MemoryOK
  OBVIOUS
<1> DEFINE mine == [id \in Builtin |-> 0]
<1>1. BlankDiags \in [Slots -> Bytes]
  BY DEF BlankDiags, Bytes, HalfBytes
<1>2. mine \in [Builtin -> {0} \cup Mapped]
  OBVIOUS
<1>3. mappings = <<BlankDiags>> /\ wanted = <<mine>>
  BY DEF Init
<1>4. ASSUME NEW id \in Builtin, ~IsNote(id)
      PROVE  Remembers(BlankDiags, mine, id)
  <2>1. Slot(id) \in Slots
    BY <1>4, SlotAssumption
  <2>2. HalfByte(BlankDiags, id) = 0
    BY <2>1 DEF HalfByte, BlankDiags
  <2> QED BY <2>2 DEF Remembers
<1>5. AllRemembered(BlankDiags, mine)
  BY <1>4 DEF AllRemembered
<1> HIDE DEF mine
<1>6. StackRemembers
  BY <1>3, <1>5 DEF StackRemembers
<1> QED BY <1>1, <1>2, <1>3, <1>6 DEF MemoryOK

LEMMA InitIInv == Init => IInv
<1> SUFFICES ASSUME Init PROVE IInv
  OBVIOUS
<1>2. TypeOK
  <2>1. MemoryOK
    BY InitMemory
  <2>2. custom \in Seq(LevelSet)
    BY DEF Init
  <2>3. last \in [id: Int, emitted: BOOLEAN, note: BOOLEAN]
    BY DEF Init, NoCall
  <2> QED BY <2>1, <2>2, <2>3 DEF Init, TypeOK, LevelSet, MemoryOK
<1>3. NotesFollow /\ FatalSeen
  BY DEF Init, NotesFollow, FatalSeen
<1>4. CountsAgree
  <2>1. /\ buffer.errors = 0 /\ buffer.warnings = 0 /\ buffer.notes = 0
        /\ numErrors = 0 /\ numDiagnostics = 0 /\ ~errorOccurred /\ errorOccurred \in BOOLEAN
    BY DEF Init
  <2>2. (buffer.errors > 0) = FALSE
    BY <2>1
  <2> QED BY <2>1, <2>2 DEF CountsAgree
<1>5. StackRemembers
  BY InitMemory DEF MemoryOK
<1> QED BY <1>2, <1>3, <1>4, <1>5 DEF IInv

(* A call of the client changes the configuration and nothing else.        *)
LEMMA ConfigureStep ==
    ASSUME IInv, Change, MemoryOK',
           flags' \in [ignoreAllWarnings: BOOLEAN, warningsAsErrors: BOOLEAN,
                       suppressSystemWarnings: BOOLEAN, ext: {"Ignore", "Warn", "Error"}],
           silenced' \in Nat, custom' \in Seq(LevelSet)
    PROVE  IInv'
<1>1. TypeOK'
  BY DEF IInv, TypeOK, MemoryOK, Change, state, NoCall
<1>2. NotesFollow' /\ FatalSeen' /\ CountsAgree'
  BY DEF IInv, NotesFollow, FatalSeen, CountsAgree, Change, state
<1> QED BY <1>1, <1>2 DEF IInv, MemoryOK

LEMMA MemorySame ==
    ASSUME MemoryOK, mappings' = mappings, wanted' = wanted
    PROVE  MemoryOK'
BY DEF MemoryOK, StackRemembers, AllRemembered, Remembers, HalfByte

LEMMA ConfigurationStep ==
    ASSUME IInv, Next, ~ \E id \in Known, inSystemHeader \in BOOLEAN : ProcessDiag(id, inSystemHeader)
    PROVE  IInv' /\ reports' = reports
<1> USE DEF IInv
<1>0. (Change => reports' = reports) /\ MemoryOK
  BY DEF Change, TypeOK, MemoryOK
<1>1. ASSUME NEW id \in Builtin, NEW map \in Mapped, setDiagnosticMapping(id, map)
      PROVE  IInv' /\ reports' = reports
  <2>1. MemoryOK'
    BY <1>0, <1>1, AskKeeps DEF setDiagnosticMapping
  <2> QED BY <1>0, <1>1, <2>1, ConfigureStep DEF TypeOK, setDiagnosticMapping
<1>2. ASSUME NEW name \in DOMAIN OptionTable, NEW map \in Mapped,
             setDiagnosticGroupMapping(name, map)
      PROVE  IInv' /\ reports' = reports
  <2>1. MemoryOK'
    BY <1>0, <1>2, AskKeeps DEF setDiagnosticGroupMapping
  <2> QED BY <1>0, <1>2, <2>1, ConfigureStep DEF TypeOK, setDiagnosticGroupMapping
<1>3. CASE pushMappings
  <2>1. MemoryOK'
    BY <1>0, <1>3, PushKeeps
  <2> QED BY <1>0, <1>3, <2>1, ConfigureStep DEF TypeOK, pushMappings
<1>4. CASE popMappings
  <2>1. MemoryOK'
    BY <1>0, <1>4, PopKeeps
  <2> QED BY <1>0, <1>4, <2>1, ConfigureStep DEF TypeOK, popMappings
<1>5. CASE setIgnoreAllWarnings \/ setWarningsAsErrors \/ setSuppressSystemWarnings
  BY <1>0, <1>5, MemorySame, ConfigureStep
  DEF TypeOK, setIgnoreAllWarnings, setWarningsAsErrors, setSuppressSystemWarnings
<1>6. ASSUME NEW h \in {"Ignore", "Warn", "Error"}, setExtensionHandlingBehavior(h)
      PROVE  IInv' /\ reports' = reports
  BY <1>0, <1>6, MemorySame, ConfigureStep DEF TypeOK, setExtensionHandlingBehavior
<1>7. CASE IncrementAllExtensionsSilenced \/ DecrementAllExtensionsSilenced
  BY <1>0, <1>7, MemorySame, ConfigureStep
  DEF TypeOK, IncrementAllExtensionsSilenced, DecrementAllExtensionsSilenced
<1>8. ASSUME NEW level \in CustomLevels, getCustomDiagID(level)
      PROVE  IInv' /\ reports' = reports
  <2>1. level \in LevelSet
    BY DiagAssumption, LevelsAre
  <2> QED BY <1>0, <1>8, <2>1, MemorySame, ConfigureStep DEF TypeOK, getCustomDiagID
<1>9. MAP_IGNORE \in Mapped /\ MAP_ERROR \in Mapped
  BY DEF Mapped, MAP_IGNORE, MAP_ERROR, MAP_WARNING_NO_WERROR
<1> QED
  BY <1>1, <1>2, <1>3, <1>4, <1>5, <1>6, <1>7, <1>8, <1>9 DEF Next, Mapped

(* What the three conditions of ProcessDiag come to.                       *)
LEMMA NoteStep ==
    ASSUME IInv, NEW id \in Known, NEW inSystemHeader \in BOOLEAN,
           ProcessDiag(id, inSystemHeader), LevelOf(id) = "Note"
    PROVE  /\ last'.note /\ last'.emitted = shown
           /\ shown' = shown /\ fatal' = fatal
           /\ lastLevel' = lastLevel /\ fatalErrorOccurred' = fatalErrorOccurred
           /\ IF shown THEN Emit("Note") ELSE Drop("Note", FALSE)
<1> DEFINE silent == FatalAfter("Note") \/ NotWanted("Note")
           suppressed == ~silent /\ Suppressed(id, "Note", inSystemHeader)
<1>1. FatalAfter("Note") = fatalErrorOccurred /\ LastAfter("Note") = lastLevel
  BY DEF FatalAfter, LastAfter, IInv, TypeOK
<1>2. NotWanted("Note") = (lastLevel = "Ignored")
  BY <1>1 DEF NotWanted
<1>3. shown = ~silent
  BY <1>1, <1>2 DEF IInv, TypeOK, NotesFollow
<1>4. suppressed = FALSE
  BY <1>1, <1>2 DEF Suppressed
<1>5. /\ fatalErrorOccurred' = FatalAfter("Note")
      /\ IF ~silent /\ ~suppressed THEN Emit("Note") ELSE Drop("Note", suppressed)
      /\ last' = [id |-> id, emitted |-> ~silent /\ ~suppressed, note |-> TRUE]
      /\ shown' = shown
      /\ fatal' = fatal
  BY DEF ProcessDiag, IInv, TypeOK
<1> HIDE DEF silent, suppressed
<1> QED BY <1>1, <1>3, <1>4, <1>5 DEF Emit, Drop, IInv, TypeOK

LEMMA OtherStep ==
    ASSUME IInv, NEW id \in Known, NEW inSystemHeader \in BOOLEAN,
           ProcessDiag(id, inSystemHeader), LevelOf(id) # "Note"
    PROVE  LET level == LevelOf(id)
           IN /\ ~last'.note /\ last'.emitted = shown'
              /\ shown' \in BOOLEAN
              /\ fatal' = (fatal \/ (shown' /\ level = "Fatal"))
              /\ fatalErrorOccurred' = (fatalErrorOccurred \/ lastLevel = "Fatal")
              /\ shown' => ~fatalErrorOccurred' /\ level # "Ignored" /\ Emit(level)
              /\ ~shown' => \/ Drop(level, TRUE)
                            \/ Drop(level, FALSE) /\ (fatalErrorOccurred' \/ level = "Ignored")
<1> DEFINE level == LevelOf(id)
           silent == FatalAfter(level) \/ NotWanted(level)
           suppressed == ~silent /\ Suppressed(id, level, inSystemHeader)
<1>1. FatalAfter(level) = (fatalErrorOccurred \/ lastLevel = "Fatal")
  BY DEF FatalAfter
<1>2. NotWanted(level) = (level = "Ignored")
  BY DEF NotWanted
<1>3. /\ fatalErrorOccurred' = FatalAfter(level)
      /\ IF ~silent /\ ~suppressed THEN Emit(level) ELSE Drop(level, suppressed)
      /\ last' = [id |-> id, emitted |-> ~silent /\ ~suppressed, note |-> level = "Note"]
      /\ shown' = (~silent /\ ~suppressed)
      /\ fatal' = (fatal \/ (~silent /\ ~suppressed /\ level = "Fatal"))
  BY DEF ProcessDiag
<1>4. suppressed \in BOOLEAN /\ silent \in BOOLEAN
  BY <1>1, <1>2
<1>5. CASE suppressed
  BY <1>1, <1>2, <1>3, <1>4, <1>5
<1>6. CASE ~suppressed
  <2>1. suppressed = FALSE
    BY <1>4, <1>6
  <2> QED BY <1>1, <1>2, <1>3, <1>4, <2>1
<1> QED BY <1>5, <1>6

LEMMA EmitTyped ==
    ASSUME IInv, NEW level \in LevelSet, level # "Ignored", Emit(level)
    PROVE  /\ lastLevel' \in LevelSet /\ errorOccurred' \in BOOLEAN
           /\ numErrors' \in Nat /\ numDiagnostics' \in Nat
           /\ buffer' \in [errors: Nat, warnings: Nat, notes: Nat]
           /\ CountsAgree'
<1>1. /\ lastLevel' = LastAfter(level)
      /\ errorOccurred' = (errorOccurred \/ Rank(level) >= 4)
      /\ numErrors' = IF Rank(level) >= 4 THEN numErrors + 1 ELSE numErrors
      /\ numDiagnostics' = numDiagnostics + 1
      /\ buffer' = Count(level)
  BY Ranks DEF Emit
<1>2. lastLevel' \in LevelSet
  BY <1>1 DEF LastAfter, IInv, TypeOK
<1> DEFINE n == buffer.errors
           w == buffer.warnings
           k == buffer.notes
<1>3. /\ n \in Nat /\ w \in Nat /\ k \in Nat /\ buffer = [errors |-> n, warnings |-> w, notes |-> k]
      /\ numErrors = n /\ numDiagnostics = n + w + k
      /\ errorOccurred = (n > 0) /\ errorOccurred \in BOOLEAN
  BY DEF IInv, TypeOK, CountsAgree
<1> HIDE DEF n, w, k
<1>4. CASE level \in {"Note", "Warning"}
  <2>1. ~(Rank(level) >= 4)
    BY <1>4, Ranks
  <2>2. buffer' = [errors |-> n, warnings |-> w + 1, notes |-> k]
        \/ buffer' = [errors |-> n, warnings |-> w, notes |-> k + 1]
    BY <1>1, <1>3, <1>4 DEF Count
  <2>3. numErrors' = n /\ numDiagnostics' = n + w + k + 1 /\ errorOccurred' = errorOccurred
    <3>1. numErrors' = n /\ numDiagnostics' = n + w + k + 1
      BY <1>1, <1>3, <2>1
    <3>2. errorOccurred' = (errorOccurred \/ FALSE)
      BY <1>1, <2>1
    <3> QED BY <1>3, <3>1, <3>2
  <2>4. /\ buffer' \in [errors: Nat, warnings: Nat, notes: Nat] /\ buffer'.errors = n
        /\ numDiagnostics' = buffer'.errors + buffer'.warnings + buffer'.notes
    BY <1>3, <2>2, <2>3
  <2>5. errorOccurred' = (buffer'.errors > 0)
    BY <1>3, <2>3, <2>4, Zenon
  <2> QED BY <1>2, <1>3, <2>3, <2>4, <2>5 DEF CountsAgree
<1>5. CASE level \in {"Error", "Fatal"}
  <2>1. Rank(level) >= 4
    BY <1>5, Ranks
  <2>2. buffer' = [errors |-> n + 1, warnings |-> w, notes |-> k]
    BY <1>1, <1>3, <1>5 DEF Count
  <2>3. numErrors' = n + 1 /\ numDiagnostics' = n + w + k + 1 /\ errorOccurred' = TRUE
    BY <1>1, <1>3, <2>1
  <2>4. /\ buffer' \in [errors: Nat, warnings: Nat, notes: Nat] /\ buffer'.errors = n + 1
        /\ numDiagnostics' = buffer'.errors + buffer'.warnings + buffer'.notes
    BY <1>3, <2>2, <2>3
  <2>5. errorOccurred' = (buffer'.errors > 0)
    <3>1. (buffer'.errors > 0) = TRUE
      BY <1>3, <2>4
    <3> QED BY <2>3, <3>1
  <2> QED BY <1>2, <1>3, <2>3, <2>4, <2>5 DEF CountsAgree
<1> QED BY <1>4, <1>5 DEF LevelSet

LEMMA DropTyped ==
    ASSUME IInv, NEW level \in LevelSet, NEW suppressed \in BOOLEAN, Drop(level, suppressed)
    PROVE  /\ lastLevel' \in LevelSet /\ errorOccurred' \in BOOLEAN
           /\ numErrors' \in Nat /\ numDiagnostics' \in Nat
           /\ buffer' \in [errors: Nat, warnings: Nat, notes: Nat]
           /\ CountsAgree'
<1>1. lastLevel' \in LevelSet
  BY DEF Drop, LastAfter, IInv, TypeOK, LevelSet
<1>2. UNCHANGED <<errorOccurred, numErrors, numDiagnostics, buffer>>
  BY DEF Drop
<1> QED BY <1>1, <1>2 DEF IInv, TypeOK, CountsAgree

LEMMA ReportTyped ==
    ASSUME IInv, NEW id \in Known, NEW inSystemHeader \in BOOLEAN, ProcessDiag(id, inSystemHeader)
    PROVE  TypeOK' /\ CountsAgree' /\ StackRemembers'
<1>1. LevelOf(id) \in LevelSet
  BY LevelOfTyped DEF IInv
<1>2. /\ lastLevel' \in LevelSet /\ errorOccurred' \in BOOLEAN
      /\ numErrors' \in Nat /\ numDiagnostics' \in Nat
      /\ buffer' \in [errors: Nat, warnings: Nat, notes: Nat]
      /\ CountsAgree'
  <2>1. CASE LevelOf(id) = "Note"
    BY <1>1, <2>1, NoteStep, EmitTyped, DropTyped
  <2>2. CASE LevelOf(id) # "Note"
    BY <1>1, <2>2, OtherStep, EmitTyped, DropTyped
  <2> QED BY <2>1, <2>2
<1>3. MemoryOK'
  <2>1. TypeOK /\ MemoryOK
    BY DEF IInv, TypeOK, MemoryOK
  <2>2. mappings' = MappingsAfter(id) /\ wanted' = wanted
    BY DEF ProcessDiag
  <2> QED BY <2>1, <2>2, MappingsAfterKeeps
<1>4. /\ shown' \in BOOLEAN /\ fatal' \in BOOLEAN /\ fatalErrorOccurred' \in BOOLEAN
  BY NoteStep, OtherStep DEF IInv, TypeOK
<1>5. id \in Int
  BY DiagAssumption DEF Known, Builtin, DIAG_UPPER_LIMIT, IInv, TypeOK
<1>6. last' \in [id: Int, emitted: BOOLEAN, note: BOOLEAN] /\ reports' \in Nat
  BY <1>5 DEF ProcessDiag, IInv, TypeOK
<1>7. UNCHANGED <<flags, silenced, custom, changes>>
  BY DEF ProcessDiag
<1> QED BY <1>2, <1>3, <1>4, <1>6, <1>7 DEF IInv, TypeOK, MemoryOK

LEMMA ReportStep ==
    ASSUME IInv, NEW id \in Known, NEW inSystemHeader \in BOOLEAN, ProcessDiag(id, inSystemHeader)
    PROVE  /\ IInv'
           /\ last'.note => last'.emitted = shown
           /\ fatal /\ last'.emitted => last'.note
<1>1. TypeOK' /\ CountsAgree' /\ StackRemembers'
  BY ReportTyped
<1>2. CASE LevelOf(id) = "Note"
  <2>1. NotesFollow' /\ FatalSeen'
    <3>1. /\ shown' = shown /\ fatal' = fatal
          /\ lastLevel' = lastLevel /\ fatalErrorOccurred' = fatalErrorOccurred
      BY <1>2, NoteStep
    <3> QED BY <3>1 DEF IInv, NotesFollow, FatalSeen
  <2> QED BY <1>1, <1>2, <2>1, NoteStep DEF IInv
<1>3. CASE LevelOf(id) # "Note"
  <2> DEFINE level == LevelOf(id)
  <2>1. /\ ~last'.note /\ last'.emitted = shown' /\ shown' \in BOOLEAN
        /\ fatal' = (fatal \/ (shown' /\ level = "Fatal"))
        /\ fatalErrorOccurred' = (fatalErrorOccurred \/ lastLevel = "Fatal")
        /\ shown' => ~fatalErrorOccurred' /\ level # "Ignored" /\ Emit(level)
        /\ ~shown' => \/ Drop(level, TRUE)
                      \/ Drop(level, FALSE) /\ (fatalErrorOccurred' \/ level = "Ignored")
    BY <1>3, OtherStep
  <2>2. shown' => lastLevel' = level
    BY <1>3, <2>1 DEF Emit, LastAfter
  <2>3. ~shown' => lastLevel' = "Ignored" \/ fatalErrorOccurred'
    BY <1>3, <2>1 DEF Drop, LastAfter
  <2> HIDE DEF level
  <2>4. NotesFollow'
    BY <2>1, <2>2, <2>3 DEF NotesFollow
  <2>5. FatalSeen'
    BY <2>1, <2>2 DEF FatalSeen, IInv
  <2>6. fatal => ~shown'
    BY <2>1 DEF FatalSeen, IInv
  <2> QED BY <1>1, <2>1, <2>4, <2>5, <2>6 DEF IInv
<1> QED BY <1>2, <1>3

LEMMA NextStep ==
    ASSUME IInv, [Next]_vars
    PROVE  /\ IInv'
           /\ reports' > reports => /\ last'.note => last'.emitted = shown
                                    /\ fatal /\ last'.emitted => last'.note
<1>1. reports \in Nat
  BY DEF IInv, TypeOK
<1>2. CASE UNCHANGED vars
  <2>1. StackRemembers'
    BY <1>2, MemorySame DEF vars, config, calls, IInv, TypeOK, MemoryOK
  <2> QED BY <1>1, <1>2, <2>1
          DEF vars, config, state, calls, IInv, TypeOK, NotesFollow, FatalSeen, CountsAgree
<1>3. CASE Next /\ ~ \E id \in Known, inSystemHeader \in BOOLEAN : ProcessDiag(id, inSystemHeader)
  BY <1>1, <1>3, ConfigurationStep
<1>4. CASE \E id \in Known, inSystemHeader \in BOOLEAN : ProcessDiag(id, inSystemHeader)
  BY <1>4, ReportStep
<1> QED BY <1>2, <1>3, <1>4

-----------------------------------------------------------------------------
(* Every mapping is one that the switch of getDiagnosticLevel knows, every *)
(* level is one of the five, and the counters agree with the client's.     *)
THEOREM TypeCorrect == Spec => [](TypeOK /\ CountsAgree)
<1>1. IInv /\ [Next]_vars => IInv'
  BY NextStep
<1>2. IInv => TypeOK /\ CountsAgree
  BY DEF IInv
<1> QED BY InitIInv, <1>1, <1>2, PTL DEF Spec

(* The half bytes of the mappings, filled in when first asked for, copied  *)
(* and dropped with the others, always give the level that the client's    *)
(* calls and options ask for.                                              *)
THEOREM LevelCorrect == Spec => []LevelIsRight
<1>1. IInv /\ [Next]_vars => IInv'
  BY NextStep
<1>2. IInv => LevelIsRight
  BY RememberedIsRight DEF IInv, TypeOK, MemoryOK
<1> QED BY InitIInv, <1>1, <1>2, PTL DEF Spec

(* A note is emitted exactly when the diagnostic it belongs to was.        *)
THEOREM NotesCorrect == Spec => NotesShareFate
<1>1. IInv /\ [Next]_vars => IInv'
  BY NextStep
<1>2. IInv /\ [Next]_vars =>
        [(reports' > reports /\ last'.note) => last'.emitted = shown]_vars
  BY NextStep
<1> QED BY InitIInv, <1>1, <1>2, PTL DEF Spec, NotesShareFate

(* After a fatal error only its notes are emitted, and what the engine     *)
(* counts is what the client got.                                          *)
THEOREM FatalCorrect == Spec => SilentAfterFatal
<1> DEFINE Step == reports' > reports =>
             /\ (fatal /\ last'.emitted) => last'.note
             /\ numErrors' = buffer'.errors /\ errorOccurred' = (buffer'.errors > 0)
             /\ numDiagnostics' = buffer'.errors + buffer'.warnings + buffer'.notes
<1>1. IInv /\ [Next]_vars => IInv'
  BY NextStep
<1>2. IInv /\ [Next]_vars => [Step]_vars
  BY NextStep DEF IInv, CountsAgree
<1> QED BY InitIInv, <1>1, <1>2, PTL DEF Spec, SilentAfterFatal
=============================================================================
