----------------------------- MODULE Diagnostics -----------------------------
(***************************************************************************)
(* Basic/Diagnostic: what becomes of a diagnostic on its way to the client *)
(* (Frontend/TextDiagnosticBuffer).  A diagnostic is a number: the builtin *)
(* ones come first, the custom ones follow.                                *)
(***************************************************************************)
EXTENDS Integers, Sequences, SequencesExt, FiniteSets, TLC

CONSTANTS
    StaticDiagInfo,   \* the builtin diagnostics: a sequence of [class, mapping]
    OptionTable,      \* the warning options: name -> [members, subGroups], two sets
    CustomLevels,     \* the levels for which custom diagnostics are asked for
    MaxChanges,       \* bound of the model: calls that change the configuration
    MaxReports,       \* bound of the model: diagnostics reported
    MaxDepth          \* bound of the model: mappings pushed

VARIABLES
    mappings,         \* DiagMappingsStack, of vectors of bytes
    flags,            \* the options of the client
    silenced,         \* AllExtensionsSilenced
    custom,           \* CustomDiagInfo: the levels of the custom diagnostics
    lastLevel,        \* LastDiagLevel
    errorOccurred, fatalErrorOccurred, numErrors, numDiagnostics,
    buffer,           \* what the client got: how many errors, warnings and notes
    last,             \* the last call: what was reported, and whether it was emitted
    shown, fatal,     \* history: whether the last diagnostic that is not a note was
                      \* emitted, and whether a fatal error ever was
    wanted,           \* history: the mappings asked for, a stack of functions
                      \* that are 0 for what was not asked for
    changes, reports  \* the calls so far

config == <<mappings, flags, silenced, custom>>
state  == <<lastLevel, errorOccurred, fatalErrorOccurred, numErrors, numDiagnostics, buffer>>
calls  == <<last, shown, fatal, wanted, changes, reports>>
vars   == <<config, state, calls>>

Levels == <<"Ignored", "Note", "Warning", "Error", "Fatal">>
Rank(level) == CHOOSE i \in DOMAIN Levels : Levels[i] = level

MAP_IGNORE == 1
MAP_WARNING == 2
MAP_ERROR == 3
MAP_FATAL == 4
MAP_WARNING_NO_WERROR == 5
UserBit == 8

DIAG_UPPER_LIMIT == Len(StaticDiagInfo)
Builtin == 0..(DIAG_UPPER_LIMIT - 1)
ClassOf(id) == StaticDiagInfo[id + 1].class
IsExtension(id) == id \in Builtin /\ ClassOf(id) = "EXTENSION"
IsNote(id) == id \in Builtin /\ ClassOf(id) = "NOTE"
DefaultMapping(id) == StaticDiagInfo[id + 1].mapping

ASSUME DiagAssumption ==
    /\ StaticDiagInfo \in Seq([class: {"NOTE", "WARNING", "EXTENSION", "ERROR"},
                              mapping: MAP_IGNORE..MAP_WARNING_NO_WERROR])
    /\ CustomLevels \subseteq Range(Levels)
    /\ MaxChanges \in Nat /\ MaxReports \in Nat /\ MaxDepth \in Nat

-----------------------------------------------------------------------------
(* Two mappings to a byte, the even diagnostic in the low half.            *)

Slot(id) == (id \div 2) + 1
Slots == 1..(DIAG_UPPER_LIMIT \div 2)
BlankDiags == [i \in Slots |-> 0]

(* Of an odd table the last half byte is missing.                          *)
ASSUME SlotAssumption == \A id \in Builtin : ~IsNote(id) => Slot(id) \in Slots

HalfByte(top, id) ==
    LET byte == top[Slot(id)]
    IN IF id % 2 = 0 THEN byte % 16 ELSE byte \div 16

getDiagnosticMappingInfo(id) == HalfByte(Last(mappings), id)

(* The mapping of the other diagnostic in the byte is lost.                *)
WithMappings_WholeByte(top, ids, map) ==
    [slot \in DOMAIN top |->
        IF 2 * slot - 2 \in ids THEN map
        ELSE IF 2 * slot - 1 \in ids THEN map * 16
        ELSE top[slot]]

(* setDiagnosticMappingInternal, for some diagnostics one after another.   *)
WithMappings(top, ids, map) ==
    LET Half(id, old) == IF id \in ids THEN map ELSE old
    IN [slot \in DOMAIN top |-> Half(2 * slot - 2, top[slot] % 16)
                               + 16 * Half(2 * slot - 1, top[slot] \div 16)]

(* They are set in the mappings on top of the stack.                       *)
SetMappings(ids, map) == [mappings EXCEPT ![Len(mappings)] = WithMappings(@, ids, map)]

MappingInfo(id) ==
    IF getDiagnosticMappingInfo(id) = 0 THEN DefaultMapping(id) ELSE getDiagnosticMappingInfo(id)

(* What getDiagnosticLevel leaves: a mapping that was unset is computed.   *)
MappingsAfter(id) ==
    IF id \in Builtin /\ ~IsNote(id) THEN SetMappings({id}, MappingInfo(id)) ELSE mappings

LevelIgnore(id, user) ==
    IF ~IsExtension(id) \/ flags.ext = "Ignore" \/ user THEN "Ignored"
    ELSE IF flags.ext = "Error" THEN "Error" ELSE "Warning"

LevelWarning(id, user) ==
    IF flags.ignoreAllWarnings THEN "Ignored"
    ELSE IF flags.warningsAsErrors \/ (flags.ext = "Error" /\ ~user /\ IsExtension(id))
    THEN "Error" ELSE "Warning"

getDiagnosticLevel(id) ==
    LET info  == MappingInfo(id)
        user  == info >= UserBit
        map   == info % UserBit
        level == CASE map = MAP_IGNORE  -> LevelIgnore(id, user)
                   [] map = MAP_ERROR   -> "Error"
                   [] map = MAP_FATAL   -> "Fatal"
                   [] map = MAP_WARNING -> LevelWarning(id, user)
                   [] map = MAP_WARNING_NO_WERROR ->
                        IF flags.ignoreAllWarnings THEN "Ignored" ELSE "Warning"
    IN IF silenced > 0 /\ IsExtension(id) THEN "Ignored" ELSE level

-----------------------------------------------------------------------------
(* The client's configuration.                                             *)

NoCall == [id |-> -1, emitted |-> FALSE, note |-> FALSE]

Init ==
    /\ mappings = <<BlankDiags>>
    /\ flags = [ignoreAllWarnings |-> FALSE, warningsAsErrors |-> FALSE,
                suppressSystemWarnings |-> FALSE, ext |-> "Ignore"]
    /\ silenced = 0
    /\ custom = <<>>
    /\ lastLevel = "Ignored"
    /\ errorOccurred = FALSE /\ fatalErrorOccurred = FALSE
    /\ numErrors = 0 /\ numDiagnostics = 0
    /\ buffer = [errors |-> 0, warnings |-> 0, notes |-> 0]
    /\ last = NoCall /\ shown = FALSE /\ fatal = FALSE
    /\ wanted = <<[id \in Builtin |-> 0]>>
    /\ changes = 0 /\ reports = 0

Change ==
    /\ changes < MaxChanges
    /\ changes' = changes + 1
    /\ last' = NoCall
    /\ UNCHANGED <<state, shown, fatal, reports>>

(* The client asks for a mapping in the mappings on top; the others are    *)
(* only computed.                                                          *)
Ask(ids, map) ==
    /\ mappings' = SetMappings(ids, map + UserBit)
    /\ wanted' = [wanted EXCEPT ![Len(wanted)] =
                    [id \in Builtin |-> IF id \in ids THEN map ELSE @[id]]]

(* "Notes can never be mapped, errors can only be mapped to fatal."        *)
CanMap(id, map) == ~IsNote(id) /\ (ClassOf(id) = "ERROR" => map = MAP_FATAL)

setDiagnosticMapping(id, map) ==
    /\ Change
    /\ CanMap(id, map)
    /\ Ask({id}, map)
    /\ UNCHANGED <<flags, silenced, custom>>

(* MapGroupMembers: the members, and the subgroups with theirs.            *)
GroupMembers[name \in DOMAIN OptionTable] ==
    OptionTable[name].members
    \cup UNION {GroupMembers[group] : group \in OptionTable[name].subGroups}

setDiagnosticGroupMapping(name, map) ==
    /\ Change
    /\ Ask(GroupMembers[name], map)
    /\ UNCHANGED <<flags, silenced, custom>>

pushMappings ==
    /\ Change
    /\ Len(mappings) < MaxDepth
    /\ mappings' = Append(mappings, Last(mappings))
    /\ wanted' = Append(wanted, Last(wanted))
    /\ UNCHANGED <<flags, silenced, custom>>

(* A single mapping is never popped.                                       *)
popMappings ==
    /\ Change
    /\ Len(mappings) > 1
    /\ mappings' = Front(mappings)
    /\ wanted' = Front(wanted)
    /\ UNCHANGED <<flags, silenced, custom>>

setIgnoreAllWarnings ==
    /\ Change
    /\ flags' = [flags EXCEPT !.ignoreAllWarnings = ~@]
    /\ UNCHANGED <<mappings, wanted, silenced, custom>>

setWarningsAsErrors ==
    /\ Change
    /\ flags' = [flags EXCEPT !.warningsAsErrors = ~@]
    /\ UNCHANGED <<mappings, wanted, silenced, custom>>

setSuppressSystemWarnings ==
    /\ Change
    /\ flags' = [flags EXCEPT !.suppressSystemWarnings = ~@]
    /\ UNCHANGED <<mappings, wanted, silenced, custom>>

setExtensionHandlingBehavior(h) ==
    /\ Change
    /\ flags' = [flags EXCEPT !.ext = h]
    /\ UNCHANGED <<mappings, wanted, silenced, custom>>

IncrementAllExtensionsSilenced ==
    /\ Change
    /\ silenced' = silenced + 1
    /\ UNCHANGED <<mappings, wanted, flags, custom>>

DecrementAllExtensionsSilenced ==
    /\ Change
    /\ silenced > 0
    /\ silenced' = silenced - 1
    /\ UNCHANGED <<mappings, wanted, flags, custom>>

(* A custom diagnostic is its level and its message; one message for each  *)
(* level is enough here.                                                   *)
getCustomDiagID(level) ==
    /\ Change
    /\ custom' = IF Contains(custom, level) THEN custom ELSE Append(custom, level)
    /\ UNCHANGED <<mappings, wanted, flags, silenced>>

-----------------------------------------------------------------------------
(* Report, and ProcessDiag when the DiagnosticBuilder dies.                *)

LevelOf(id) == CASE id \notin Builtin -> custom[id - DIAG_UPPER_LIMIT + 1]
                 [] IsNote(id)        -> "Note"
                 [] OTHER             -> getDiagnosticLevel(id)

ShouldEmitInSystemHeader(id) == id \notin Builtin \/ ClassOf(id) = "ERROR"

(* The diagnostic after a fatal error silences everything, a note too.     *)
FatalAfter_Notes(level) == fatalErrorOccurred \/ lastLevel = "Fatal"

(* What LastDiagLevel and FatalErrorOccurred become first.                 *)
LastAfter(level)  == IF level = "Note" THEN lastLevel ELSE level
FatalAfter(level) == fatalErrorOccurred \/ (level # "Note" /\ lastLevel = "Fatal")

(* A note is wanted whatever it belongs to.                                *)
NotWanted_NotesPass(level) == level = "Ignored"

NotWanted(level) == \/ level = "Ignored"
                    \/ level = "Note" /\ LastAfter(level) = "Ignored"

Suppressed(id, level, inSystemHeader) ==
    /\ flags.suppressSystemWarnings
    /\ ~ShouldEmitInSystemHeader(id)
    /\ inSystemHeader
    /\ level # "Note" \/ LastAfter(level) = "Ignored"

Count(level) ==
    CASE level = "Note"    -> [buffer EXCEPT !.notes = @ + 1]
      [] level = "Warning" -> [buffer EXCEPT !.warnings = @ + 1]
      [] OTHER             -> [buffer EXCEPT !.errors = @ + 1]

Emit(level) ==
    /\ lastLevel' = LastAfter(level)
    /\ errorOccurred' = (errorOccurred \/ Rank(level) >= Rank("Error"))
    /\ numErrors' = IF Rank(level) >= Rank("Error") THEN numErrors + 1 ELSE numErrors
    /\ numDiagnostics' = numDiagnostics + 1
    /\ buffer' = Count(level)

(* What is suppressed is counted, too.                                     *)
Drop_Counts(level, suppressed) ==
    /\ lastLevel' = IF suppressed THEN "Ignored" ELSE LastAfter(level)
    /\ numDiagnostics' = numDiagnostics + 1
    /\ UNCHANGED <<errorOccurred, numErrors, buffer>>

(* After a fatal error nothing is emitted, its notes excepted.             *)
Drop(level, suppressed) ==
    /\ lastLevel' = IF suppressed THEN "Ignored" ELSE LastAfter(level)
    /\ UNCHANGED <<errorOccurred, numErrors, numDiagnostics, buffer>>

ProcessDiag(id, inSystemHeader) ==
    LET level == LevelOf(id)
        silent == FatalAfter(level) \/ NotWanted(level)
        suppressed == ~silent /\ Suppressed(id, level, inSystemHeader)
        emitted == ~silent /\ ~suppressed
    IN /\ reports < MaxReports
       /\ reports' = reports + 1
       /\ mappings' = MappingsAfter(id)
       /\ fatalErrorOccurred' = FatalAfter(level)
       /\ IF emitted THEN Emit(level) ELSE Drop(level, suppressed)
       /\ last' = [id |-> id, emitted |-> emitted, note |-> level = "Note"]
       /\ shown' = IF level = "Note" THEN shown ELSE emitted
       /\ fatal' = (fatal \/ (emitted /\ level = "Fatal"))
       /\ UNCHANGED <<flags, silenced, custom, wanted, changes>>

Known == Builtin \cup {DIAG_UPPER_LIMIT + i - 1 : i \in DOMAIN custom}

Next ==
    \/ \E id \in Builtin, map \in MAP_IGNORE..MAP_WARNING_NO_WERROR : setDiagnosticMapping(id, map)
    \/ \E name \in DOMAIN OptionTable, map \in {MAP_IGNORE, MAP_ERROR} :
          setDiagnosticGroupMapping(name, map)
    \/ pushMappings \/ popMappings
    \/ setIgnoreAllWarnings \/ setWarningsAsErrors \/ setSuppressSystemWarnings
    \/ \E h \in {"Ignore", "Warn", "Error"} : setExtensionHandlingBehavior(h)
    \/ IncrementAllExtensionsSilenced \/ DecrementAllExtensionsSilenced
    \/ \E level \in CustomLevels : getCustomDiagID(level)
    \/ \E id \in Known, inSystemHeader \in BOOLEAN : ProcessDiag(id, inSystemHeader)

Spec == Init /\ [][Next]_vars

-----------------------------------------------------------------------------
(* An extension that is ignored unless -pedantic maps it onto a warning or *)
(* an error, and nothing else was asked for.                               *)
Upgraded(id) ==
    /\ IsExtension(id) /\ Last(wanted)[id] = 0 /\ DefaultMapping(id) = MAP_IGNORE
    /\ flags.ext # "Ignore"

(* The level of a builtin diagnostic under the options, as the options are *)
(* described: a mapping that was asked for in this or an outer pair of     *)
(* pushMappings and popMappings, or the default, then the other options.   *)
(* What -pedantic makes a warning of is a warning to -w and -Werror, which *)
(* Diagnostic.h:238-244 describe for any unmapped warning.                 *)
ReferenceLevel(id) ==
    LET asked == Last(wanted)[id] # 0
        map   == IF asked THEN Last(wanted)[id] ELSE DefaultMapping(id)
        warning == IF flags.ignoreAllWarnings THEN "Ignored"
                   ELSE IF \/ flags.warningsAsErrors
                           \/ IsExtension(id) /\ flags.ext = "Error" /\ ~asked
                   THEN "Error" ELSE "Warning"
    IN IF IsExtension(id) /\ silenced > 0 THEN "Ignored"
       ELSE CASE map = MAP_IGNORE  -> IF Upgraded(id) THEN warning ELSE "Ignored"
              [] map = MAP_WARNING -> warning
              [] map = MAP_WARNING_NO_WERROR ->
                   IF flags.ignoreAllWarnings THEN "Ignored" ELSE "Warning"
              [] map = MAP_ERROR   -> "Error"
              [] map = MAP_FATAL   -> "Fatal"

(* getDiagnosticLevel: the four bits each diagnostic has, filled in when   *)
(* it is first asked for, copied and dropped with the others, always give  *)
(* the level that the client's calls ask for.  Not claimed of an upgraded  *)
(* extension under -w or -Werror, which do not reach it.                   *)
LevelIsRight ==
    \A id \in Builtin :
        ~IsNote(id) /\ ~(Upgraded(id) /\ (flags.ignoreAllWarnings \/ flags.warningsAsErrors))
          => getDiagnosticLevel(id) = ReferenceLevel(id)

(* A note is emitted exactly when the diagnostic it belongs to was, also   *)
(* when that one was fatal, ignored, or in a system header.                *)
NotesShareFate == [][(reports' > reports /\ last'.note) => last'.emitted = shown]_vars

(* After a fatal error has been emitted only its notes are, and the counts *)
(* are those of what the client has got.                                   *)
SilentAfterFatal ==
    [][reports' > reports =>
        /\ (fatal /\ last'.emitted) => last'.note
        /\ numErrors' = buffer'.errors /\ errorOccurred' = (buffer'.errors > 0)
        /\ numDiagnostics' = buffer'.errors + buffer'.warnings + buffer'.notes]_vars

=============================================================================
