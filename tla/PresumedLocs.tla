---------------------------- MODULE PresumedLocs ----------------------------
(***************************************************************************)
(* Presumed locations: what a user is told about a location of a file.     *)
(* SourceManager finds the physical line in a table of line starts, with   *)
(* the answer of the last lookup as a hint, and then applies the line note *)
(* before the location.  #line and the GNU line markers of the             *)
(* preprocessor add the notes; a marker that enters or leaves a presumed   *)
(* file moves a virtual include stack, which is kept only as one offset    *)
(* per note.                                                               *)
(*                                                                         *)
(* The module follows one file while it is lexed.  An offset counts from   *)
(* 0, so character o of the file is text[o + 1].                           *)
(***************************************************************************)
EXTENDS Integers, Sequences, FiniteSets, SequencesExt

CONSTANTS Texts,      \* the texts the file may have: "c" is any character
                      \* but "\n" and "\r"
          Windows,    \* how far the hint is trusted: <<5, 10, 20>> in the code
          LineNos,    \* the line numbers that directives give
          LineModulus,\* line numbers are unsigned: 2^32 in the code
          Names,      \* the file names that directives give
          None,       \* no file name: FilenameID -1
          Flags,      \* the flags a line marker may have, sequences of numbers
          MaxNotes    \* bound of the model: the directives in a file

ASSUME WindowsAssumption ==
  /\ Windows \in Seq(Nat \ {0})
  /\ \A j, k \in DOMAIN Windows : j < k => Windows[j] < Windows[k]
ASSUME LinesAssumption == LineModulus \in Nat \ {0} /\ LineNos \subseteq 1 .. LineModulus - 1
ASSUME NamesAssumption == None \notin Names
ASSUME TextsAssumption == Texts \subseteq Seq({"c", "n", "r"}) /\ Flags \subseteq Seq(Nat)

(* C_ExternCSystem is kept and handed on as C_System is. *)
Kinds == {"user", "system"}

VARIABLES text,         \* the buffer of the file
          fileKind,     \* getFileCharacteristic of its FileInfo
          lexed,        \* how far it has been lexed
          lineStarts,   \* SourceLineCache, <<>> before it is computed
          hint,         \* the LastLineNo... fields; line 0: about another file
          entries,      \* the LineEntries of the file
          climb,        \* the builtin macro that follows the presumed includes
          asked,        \* the last location that was asked about
          answer,       \* what was answered
          directives,   \* history: the directives met, accepted or not
          readers       \* history: what a reader of the directives has known, and since where

file    == <<text, fileKind, lexed>>
history == <<directives, readers>>
vars    == <<file, lineStarts, hint, entries, climb, asked, answer, history>>

IsNewline(ch) == ch \in {"n", "r"}
IsLocation(o) == o \in 0 .. lexed - 1 /\ text[o + 1] = "c"

NoHint == [pos |-> 0, line |-> 0]
NoAnswer == [line |-> 0, column |-> 0, name |-> None, include |-> 0, kind |-> "user"]
NoClimb == [macro |-> "none", at |-> 0, depth |-> 0]

(* The reader before the first directive. *)
Reader == [offset |-> 0, base |-> 0, mark |-> 0, name |-> None, stack |-> <<>>, kind |-> fileKind]

Init == /\ text \in Texts
        /\ fileKind \in Kinds
        /\ lexed = 0
        /\ lineStarts = <<>>
        /\ hint = NoHint
        /\ entries = <<>>
        /\ climb = NoClimb
        /\ asked = 0
        /\ answer = NoAnswer
        /\ directives = <<>>
        /\ readers = <<Reader>>

(***************************************************************************)
(* Physical lines.                                                         *)
(***************************************************************************)

(* The newline at offset o: "\r\n" and "\n\r" end one line. *)
NewlineWidth(t, o) ==
  IF o + 2 <= Len(t) /\ IsNewline(t[o + 2]) /\ t[o + 2] # t[o + 1] THEN 2 ELSE 1

ComputeLineNumbers(t) ==
  LET starts[o \in 0 .. Len(t)] ==
        IF o = Len(t) THEN <<>>
        ELSE IF IsNewline(t[o + 1])
          THEN <<o + NewlineWidth(t, o)>> \o starts[o + NewlineWidth(t, o)]
        ELSE starts[o + 1]
  IN <<0>> \o starts[0]

(* getColumnNumber: back to the newline before the position. *)
ColumnNumber(o) ==
  LET ends == {p \in 1 .. o : IsNewline(text[p])}
  IN o - Max(ends \cup {0}) + 1

(* std::lower_bound over the line starts first .. last - 1, counted from 0:*)
(* the first that is not less than q, or last.                             *)
LowerBound(starts, first, last, q) ==
  Min({p \in first .. last - 1 : starts[p + 1] >= q} \cup {last})

(* The last line start to look at when the query is at or after the hint:  *)
(* the nearest of 5, 10 and 20 lines further that is past the query.       *)
WindowEnd(starts, first, q) ==
  LET past == {k \in DOMAIN Windows : /\ first + Windows[k] < Len(starts)
                                      /\ starts[first + Windows[k] + 1] > q}
  IN IF past = {} THEN Len(starts) ELSE first + Windows[Min(past)]

(* mutant: the hint is trusted for a query before it as well               *)
GetLineNumber_TrustsHint(starts, h, o) ==
  LET q == o + 1
      first == IF h.line # 0 THEN h.line - 1 ELSE 0
      last == IF h.line = 0 THEN Len(starts) ELSE WindowEnd(starts, first, q)
  IN [pos |-> q, line |-> LowerBound(starts, first, last, q)]

(* getLineNumber of offset o, when the fields LastLineNo... are h: their   *)
(* new values, which include the line.                                     *)
GetLineNumber(starts, h, o) ==
  LET q == o + 1
      after == h.line # 0 /\ q >= h.pos
      first == IF after THEN h.line - 1 ELSE 0
      last == IF h.line = 0 THEN Len(starts)
              ELSE IF after THEN WindowEnd(starts, first, q)
              ELSE IF h.line < Len(starts) THEN h.line + 1
              ELSE Len(starts)
  IN [pos |-> q, line |-> LowerBound(starts, first, last, q)]

(* getLocation: back from a line and a column to an offset, -1 where the   *)
(* line has no such column.  In an empty last line the search for the      *)
(* column runs out of the file: "fault".                                   *)
GetLocation(starts, line, column) ==
  LET start == starts[line]
      reached == Min({column - 1, Len(text) - start - 1}
                     \cup {p - start : p \in {q \in start .. Len(text) - 1 : IsNewline(text[q + 1])}})
  IN IF line > Len(starts) THEN -1
     ELSE IF column > 1 /\ start = Len(text) THEN "fault"
     ELSE IF column > 1 /\ reached < column - 1 THEN -1
     ELSE start + column - 1

(***************************************************************************)
(* Line notes.                                                             *)
(***************************************************************************)

(* FindNearestLineEntry: the last of the entries before the offset, or 0.  *)
NearestEntry(o) == Max({0} \cup {k \in DOMAIN entries : entries[k].offset <= o})

(* LineTableInfo::AddLineNote of #line. *)
LineNote(o, line, name) ==
  [offset |-> o, line |-> line,
   name |-> IF name = None /\ entries # <<>> THEN Last(entries).name ELSE name,
   kind |-> IF entries = <<>> THEN "user" ELSE Last(entries).kind,
   include |-> IF entries = <<>> THEN 0 ELSE Last(entries).include]

(* mutant: leaving a presumed file goes back to no include at all          *)
IncludeOffset_Empties(o, op) ==
  CASE op = "none"  -> IF entries = <<>> THEN 0 ELSE Last(entries).include
    [] op = "enter" -> o - 1
    [] op = "exit"  -> 0

(* The IncludeOffset of a marker: leaving a presumed file takes the        *)
(* include offset that was in force where that file was entered.           *)
IncludeOffset(o, op) ==
  CASE op = "none"  -> IF entries = <<>> THEN 0 ELSE Last(entries).include
    [] op = "enter" -> o - 1
    [] op = "exit"  -> LET k == NearestEntry(Last(entries).include)
                       IN IF k = 0 THEN 0 ELSE entries[k].include

(* LineTableInfo::AddLineNote of a GNU line marker. *)
MarkerNote(o, line, name, op, kind) ==
  [offset |-> o, line |-> line, name |-> name, kind |-> kind,
   include |-> IncludeOffset(o, op)]

(***************************************************************************)
(* getPresumedLoc and getFileCharacteristic.                               *)
(***************************************************************************)
Starts == IF lineStarts = <<>> THEN ComputeLineNumbers(text) ELSE lineStarts

(* The hint after getPresumedLoc(o), which looks up the line of the        *)
(* location and then the line of its note.                                 *)
HintAfter(o) ==
  LET h == GetLineNumber(Starts, hint, o)
      k == NearestEntry(o)
  IN IF k = 0 THEN h ELSE GetLineNumber(Starts, h, entries[k].offset)

(* include 0: the place where the file itself was included. *)
PresumedLoc(o) ==
  LET line == GetLineNumber(Starts, hint, o).line
      k == NearestEntry(o)
  IN IF k = 0
       THEN [line |-> line, column |-> ColumnNumber(o), name |-> None,
             include |-> 0, kind |-> fileKind]
       ELSE [line |-> (entries[k].line + line - HintAfter(o).line - 1) % LineModulus,
             column |-> ColumnNumber(o), name |-> entries[k].name,
             include |-> entries[k].include, kind |-> entries[k].kind]

(* What every question about o leaves behind. *)
LookUp(o) == hint' = HintAfter(o) /\ lineStarts' = Starts

Idle == climb = NoClimb

GetPresumedLoc(o) ==
  /\ Idle /\ IsLocation(o)
  /\ asked' = o
  /\ answer' = PresumedLoc(o)
  /\ LookUp(o)
  /\ UNCHANGED <<file, entries, climb, history>>

NoQuestion == asked' = 0 /\ answer' = NoAnswer

(* The last line asked for was one of another file. *)
GetOtherPresumedLoc ==
  /\ Idle
  /\ hint # NoHint
  /\ hint' = NoHint
  /\ NoQuestion
  /\ UNCHANGED <<file, lineStarts, entries, climb, history>>

(***************************************************************************)
(* ExpandBuiltinMacro, for the macros that are presumed locations.         *)
(***************************************************************************)
Builtins == {"__LINE__", "__FILE__", "__BASE_FILE__", "__INCLUDE_LEVEL__"}

Numbers  == {"__LINE__", "__INCLUDE_LEVEL__"}
Climbers == {"__BASE_FILE__", "__INCLUDE_LEVEL__"}

(* The number or the name that the macro becomes: p is the place it has    *)
(* reached, depth includes outwards.                                       *)
MacroAnswer(macro, p, depth) ==
  [macro  |-> macro,
   number |-> CASE macro = "__LINE__" -> PresumedLoc(p).line
                [] macro = "__INCLUDE_LEVEL__" -> depth
                [] OTHER -> 0,
   name   |-> IF macro \in Numbers THEN None ELSE PresumedLoc(p).name]

(* mutant: no macro goes on to the place of the include                    *)
Reach_StaysInside(p, macro, depth) ==
  climb' = NoClimb /\ answer' = MacroAnswer(macro, p, depth)

(* The presumed location p, depth includes outwards, is looked up: the     *)
(* macro goes on to the place of its include, or this is the place it      *)
(* wants.                                                                  *)
Reach(p, macro, depth) ==
  IF macro \in Climbers /\ PresumedLoc(p).include # 0
  THEN /\ climb' = [macro |-> macro, at |-> PresumedLoc(p).include, depth |-> depth + 1]
       /\ answer' = NoAnswer
  ELSE /\ climb' = NoClimb
       /\ answer' = MacroAnswer(macro, p, depth)

(* The macro at o; o is the end of the macro call it came from, which has  *)
(* just been lexed.                                                        *)
ExpandBuiltinMacro(o, macro) ==
  /\ Idle /\ IsLocation(o)
  /\ asked' = o
  /\ Reach(o, macro, 0)
  /\ LookUp(o)
  /\ UNCHANGED <<file, entries, history>>

(* A round of its loops over the presumed includes. *)
ClimbToInclude ==
  /\ ~ Idle
  /\ Reach(climb.at, climb.macro, climb.depth)
  /\ LookUp(climb.at)
  /\ UNCHANGED <<file, entries, asked, history>>

(***************************************************************************)
(* The reader: the directives have for him the meaning they are described  *)
(* to have.  He keeps a stack of the presumed includes and no hint.        *)
(***************************************************************************)
StartsOf(t) == ToSet(ComputeLineNumbers(t))
PhysicalLine(o) == Cardinality({p \in StartsOf(text) : p <= o})

(* "# 42 "file" ('1' | '2')? '3' '4'?", and there is a file to leave.      *)
WellFormed == {<<>>, <<1>>, <<2>>, <<3>>, <<1, 3>>, <<2, 3>>, <<3, 4>>, <<1, 3, 4>>, <<2, 3, 4>>}
Enters(d) == d.flags \in WellFormed /\ Contains(d.flags, 1)
Leaves(d) == Contains(d.flags, 2)
Ignored(s, d) == d.flags \notin WellFormed \/ (Leaves(d) /\ s.stack = <<>>)

Read(s, d) ==
  [offset |-> d.offset,
   base   |-> d.line,
   mark   |-> PhysicalLine(d.offset),
   name   |-> IF d.name = None THEN s.name ELSE d.name,
   stack  |-> IF Enters(d) THEN Append(s.stack, d.offset - 1)
              ELSE IF Leaves(d) THEN Front(s.stack)
              ELSE s.stack,
   kind   |-> IF ~d.marker THEN s.kind
              ELSE IF Contains(d.flags, 3) THEN "system"
              ELSE "user"]

(* A directive is met. *)
Met(d) ==
  /\ directives' = Append(directives, d)
  /\ readers' = IF Ignored(Last(readers), d) THEN readers
                ELSE Append(readers, Read(Last(readers), d))

(***************************************************************************)
(* The lexer and the directives.                                           *)
(***************************************************************************)
Lex ==
  /\ Idle
  /\ lexed < Len(text)
  /\ lexed' = lexed + 1
  /\ NoQuestion
  /\ UNCHANGED <<text, fileKind, lineStarts, hint, entries, climb, history>>

LineEnd(o) == Min({p \in o .. Len(text) - 1 : IsNewline(text[p + 1])} \cup {Len(text)})

(* A line may be a directive whose number is the next character: a "#" at  *)
(* least comes before it.  The line is lexed to its end.                   *)
DirectiveAt(o) ==
  /\ Idle
  /\ o = lexed /\ o > 0 /\ o < Len(text)
  /\ text[o] = "c" /\ text[o + 1] = "c"
  /\ Len(directives) < MaxNotes
  /\ lexed' = LineEnd(o)
  /\ NoQuestion
  /\ UNCHANGED <<text, fileKind, climb>>

(* HandleLineDirective; a GNU marker without a name does the same. *)
HandleLineDirective(o, line, name) ==
  /\ DirectiveAt(o)
  /\ entries' = Append(entries, LineNote(o, line, name))
  /\ Met([offset |-> o, line |-> line, name |-> name, marker |-> FALSE, flags |-> <<>>])
  /\ UNCHANGED <<lineStarts, hint>>

(* ReadLineMarkerFlags: 1 or 2 first, then 3, then 4.                      *)
ReadLineMarkerFlags(flags) ==
  LET op == IF flags # <<>> /\ flags[1] = 1 THEN "enter"
            ELSE IF flags # <<>> /\ flags[1] = 2 THEN "exit"
            ELSE "none"
      rest == IF op = "none" THEN flags ELSE Tail(flags)
  IN [op |-> op, kind |-> IF rest = <<>> THEN "user" ELSE "system",
      hadError |-> /\ rest # <<>>
                   /\ rest[1] # 3 \/ (Len(rest) > 1 /\ rest[2] # 4) \/ Len(rest) > 2]

MetMarker(o, line, name, flags) ==
  Met([offset |-> o, line |-> line, name |-> name, marker |-> TRUE, flags |-> flags])

(* HandleDigitDirective: a marker with a name.                             *)
HandleMarker(o, line, name, flags) ==
  LET f == ReadLineMarkerFlags(flags)
  IN /\ DirectiveAt(o) /\ f.op # "exit"
     /\ entries' = IF f.hadError THEN entries
                   ELSE Append(entries, MarkerNote(o, line, name, f.op, f.kind))
     /\ MetMarker(o, line, name, flags)
     /\ UNCHANGED <<lineStarts, hint>>

(* The flag 2 asks for its own presumed location: there must be a presumed *)
(* file to leave.  Otherwise the marker is dropped.                        *)
HandleExitMarker(o, line, name, flags) ==
  LET f == ReadLineMarkerFlags(flags)
  IN \E flag \in o + 1 .. LineEnd(o) - 1 :
       /\ DirectiveAt(o) /\ f.op = "exit"
       /\ LookUp(flag)
       /\ MetMarker(o, line, name, flags)
       /\ entries' = IF PresumedLoc(flag).include = 0 \/ f.hadError THEN entries
                     ELSE Append(entries, MarkerNote(o, line, name, "exit", f.kind))

Next ==
  \/ Lex
  \/ \E o \in 0 .. lexed - 1 : GetPresumedLoc(o)
  \/ \E macro \in Builtins : ExpandBuiltinMacro(lexed - 1, macro)
  \/ ClimbToInclude
  \/ GetOtherPresumedLoc
  \/ \E line \in LineNos :
       \/ \E name \in Names \cup {None} : HandleLineDirective(lexed, line, name)
       \/ \E name \in Names, flags \in Flags :
            HandleMarker(lexed, line, name, flags) \/ HandleExitMarker(lexed, line, name, flags)

Spec == Init /\ [][Next]_vars

(***************************************************************************)
(* Properties.                                                             *)
(***************************************************************************)
(* What the reader knows at o, and what is to be answered there. *)
ReaderAt(o) == readers[Max({k \in DOMAIN readers : readers[k].offset <= o})]

Reference(o) ==
  LET s == ReaderAt(o)
  IN [line    |-> IF s.mark = 0 THEN PhysicalLine(o)
                  ELSE (s.base + PhysicalLine(o) - s.mark - 1) % LineModulus,
      column  |-> o - Max({p \in StartsOf(text) : p <= o}) + 1,
      name    |-> s.name,
      include |-> IF s.stack = <<>> THEN 0 ELSE Last(s.stack),
      kind    |-> s.kind]

(* What a builtin macro at o stands for: the outermost file is the one in  *)
(* which the first of the presumed includes was.                           *)
MacroReference(o, macro) ==
  LET s == ReaderAt(o)
  IN [macro  |-> macro,
      number |-> CASE macro = "__LINE__" -> Reference(o).line
                   [] macro = "__INCLUDE_LEVEL__" -> Len(s.stack)
                   [] OTHER -> 0,
      name   |-> CASE macro \in Numbers -> None
                   [] macro = "__BASE_FILE__" /\ s.stack # <<>> -> ReaderAt(s.stack[1]).name
                   [] OTHER -> s.name]

IsMacro == "macro" \in DOMAIN answer

(* getLineNumber: whatever was asked before, in whatever order, the line   *)
(* it remembers is the line of the position it remembers; and getLocation  *)
(* finds a position again from its line and column, and nothing where the  *)
(* line has no such column.                                                *)
HintIsRight ==
  /\ hint # NoHint => hint.line = PhysicalLine(hint.pos - 1)
  /\ directives = <<>> /\ answer = NoAnswer =>
       \A line \in 1 .. Len(Starts), column \in 1 .. Len(text) + 1 :
         LET found == GetLocation(Starts, line, column)
         IN IF \E o \in 0 .. Len(text) - 1 :
                 /\ PhysicalLine(o) = line /\ o = Starts[line] + column - 1
                 /\ \A p \in Starts[line] .. o - 1 : ~IsNewline(text[p + 1])
              THEN found = Starts[line] + column - 1
              ELSE Starts[line] < Len(text) => found = -1

(* A marker on the first two characters of the file would have the include *)
(* offset 0, which stands for no include.                                  *)
EntersAtStart == \E k \in DOMAIN directives : Enters(directives[k]) /\ directives[k].offset = 1

(* A #line before any marker of a system header makes it a user file.      *)
LineInSystemHeader ==
  /\ fileKind # "user"
  /\ \E d \in DOMAIN directives :
       /\ ~directives[d].marker
       /\ \A e \in 1 .. d - 1 : Leaves(directives[e]) \/ directives[e].flags \notin WellFormed

(* getPresumedLoc answers as a reader does who keeps a stack of the        *)
(* presumed includes: one offset for each note is enough to leave them in  *)
(* the order in which they were entered, and to count them and to find the *)
(* outermost file for __INCLUDE_LEVEL__ and __BASE_FILE__.                 *)
PresumedIsRight ==
  (answer # NoAnswer /\ ~ EntersAtStart /\ ~ LineInSystemHeader)
    => answer = IF IsMacro THEN MacroReference(asked, answer.macro) ELSE Reference(asked)
=============================================================================
