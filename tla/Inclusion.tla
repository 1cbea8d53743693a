----------------------------- MODULE Inclusion -----------------------------
(***************************************************************************)
(* Conditional and file inclusion: the directive handlers of               *)
(* Lex/PPDirectives.cpp, the include stack of Lex/PPLexerChange.cpp, the   *)
(* end of a buffer in Lex/lexer.cpp and the multiple-include filter of     *)
(* Basic/HeaderSearch.cpp.                                                 *)
(*                                                                         *)
(* A file is a sequence of lines.  A line is a directive or a line of      *)
(* text, reduced to what the handlers look at: its kind, the macro or file *)
(* it names (None when the name is missing or the file cannot be found)    *)
(* and, for #if and #elif, the form of the condition.  One step handles    *)
(* one line; the loop of SkipExcludedConditionalBlock, which lexes in raw  *)
(* mode, is the steps a lexer takes while its flag raw is set.             *)
(***************************************************************************)
EXTENDS Integers, Sequences, FiniteSets, SequencesExt

CONSTANTS
  Macros, None,
  Files,      \* the files and buffers that can be lexed
  Main,       \* the main source file
  Builtin,    \* the "<built-in>" buffer of predefines, which has no FileEntry
  Programs,   \* the assignments of text to files that are explored
  MaxAllowedIncludeStackDepth

ASSUME NoneIsNoMacro == None \notin Macros

ASSUME FilesAssumption ==
  /\ Main \in Files
  /\ Builtin \in Files \ {Main}
  /\ None \notin Files

ASSUME DepthAssumption == MaxAllowedIncludeStackDepth \in Nat \ {0, 1}

Kinds == {"text", "use", "define", "undef", "include", "ifdef", "ifndef",
          "if", "elif", "else", "endif"}

(* "defined(X)", "!defined(X)", a macro that expands to "!defined(X)", and *)
(* an expression the evaluator rejects.                                    *)
Forms == {"defined", "notdefined", "expanded", "bad"}

(* With no macro, "notdefined" stands for a true condition ("#if 1") and   *)
(* "defined" for a false one ("#if 0").                                    *)
Line == [k : {"include"}, arg : Files \cup {None}, form : Forms] \cup
        [k : Kinds \ {"include"}, arg : Macros \cup {None}, form : Forms]

ASSUME ProgramsAssumption == Programs \subseteq [Files -> Seq(Line)]

VARIABLES
  text,    \* the program: what each file contains; never changes
  cur,     \* CurPPLexer, the lexer of the file being read
  inc,     \* IncludeMacroStack, the lexers waiting for it
  eof,     \* the main file has ended and CurPPLexer was reset
  macros,  \* the macros that have a definition
  ctrl,    \* HeaderFileInfo.ControllingMacro of each file
  out      \* tokens and diagnostics, in the order they were produced

vars == <<text, cur, inc, eof, macros, ctrl, out>>

-----------------------------------------------------------------------------
(* Lex/MultipleIncludeOpt.h: every file lexer owns one.  It watches the    *)
(* tokens and the top-level conditionals of its file and, at the end, may  *)
(* name a controlling macro: one such that the whole file stands between   *)
(* "#ifndef macro" and its "#endif".                                       *)

(* any: ReadAnyTokens; did: DidMacroExpansion; macro: TheMacro (0 is None). *)
MIOptState == [any : BOOLEAN, did : BOOLEAN, macro : Macros \cup {None}]

NewMIOpt == [any |-> FALSE, did |-> FALSE, macro |-> None]

Invalidate(mi) == [mi EXCEPT !.any = TRUE, !.macro = None]

ReadToken(mi) == [mi EXCEPT !.any = TRUE]

ExpandedMacro(mi) == [mi EXCEPT !.did = TRUE]

EnterTopLevelIFNDEF(mi, m) ==
  IF mi.macro # None \/ mi.did
  THEN Invalidate(mi)
  ELSE [mi EXCEPT !.any = TRUE, !.macro = m]

(* A mutated form: a later top-level conditional is forgotten. *)
EnterTopLevelConditional_Forgets(mi) == ReadToken(mi)

EnterTopLevelConditional(mi) == Invalidate(mi)

ExitTopLevelConditional(mi) ==
  IF mi.macro = None THEN Invalidate(mi) ELSE [mi EXCEPT !.any = FALSE]

GetControllingMacroAtEndOfFile(mi) == IF mi.any THEN None ELSE mi.macro

-----------------------------------------------------------------------------
(* PPConditionalInfo: WasSkipping, FoundNonSkip, FoundElse. *)
Level == [was : BOOLEAN, found : BOOLEAN, els : BOOLEAN]

LevelOf(was, found, els) == [was |-> was, found |-> found, els |-> els]

(* A file lexer: the lines it has consumed, its ConditionalStack, its      *)
(* multiple-include machine, and LexingRawMode.                            *)
Lexer == [file : Files, pos : Nat, cond : Seq(Level), mi : MIOptState,
          raw : BOOLEAN]

NewLexer(f) ==
  [file |-> f, pos |-> 0, cond |-> <<>>, mi |-> NewMIOpt, raw |-> FALSE]

WithMI(l, mi)  == [l EXCEPT !.mi = mi]
WithCond(l, c) == [l EXCEPT !.cond = c]
WithRaw(l, b)  == [l EXCEPT !.raw = b]
Consume(l)     == [l EXCEPT !.pos = @ + 1]

Token(m) == <<"token", m>>
Diag(d)  == <<"diag", d>>

Diags == {"unterminated", "missing_name", "bad_expression",
          "else_without_if", "elif_without_if", "endif_without_if",
          "else_after_else", "elif_after_else",
          "include_too_deep", "file_not_found"}

Event == ({"token", "expansion"} \X (Macros \cup {None}))
         \cup ({"diag"} \X Diags)

(* One unterminated-conditional diagnostic for each open conditional. *)
Unterminated(cond) == [i \in 1 .. Len(cond) |-> Diag("unterminated")]

-----------------------------------------------------------------------------
(* The line the current lexer is at, and the lexer after reading it: every *)
(* line has tokens, so ReadAnyTokens is set.                               *)
AtEnd == cur.pos = Len(text[cur.file])
Here  == text[cur.file][cur.pos + 1]

Advance(l) == WithMI(Consume(l), ReadToken(l.mi))

AtLine(k)   == ~eof /\ ~cur.raw /\ ~AtEnd /\ Here.k = k
SkipLine(k) == ~eof /\ cur.raw /\ ~AtEnd /\ Here.k = k

(* The value of a condition, and whether evaluating it expands a macro. *)
Holds(ln) ==
  CASE ln.form = "defined"    -> ln.arg \in macros
    [] ln.form = "notdefined" -> ln.arg \notin macros
    [] ln.form = "expanded"   -> ln.arg \notin macros
    [] OTHER                  -> FALSE

Expands(ln) == ln.form = "expanded"

AfterExpanding(l) == WithMI(l, ExpandedMacro(l.mi))

AfterEvaluating(l, ln) == IF Expands(ln) THEN AfterExpanding(l) ELSE l

EvaluationDiag(ln) ==
  IF ln.form = "bad" THEN <<Diag("bad_expression")>> ELSE <<>>

(* Push a conditional whose block is read, or start to skip the block. *)
EnterBlock(l) == WithCond(l, Append(l.cond, LevelOf(FALSE, TRUE, FALSE)))

SkipBlock(l, found, els) ==
  WithRaw(WithCond(l, Append(l.cond, LevelOf(FALSE, found, els))), TRUE)

(* The multiple-include machine at a conditional that opens at top level.  *)
(* before is ReadAnyTokens before the directive, guard the macro of an     *)
(* "#ifndef X" or "#if !defined(X)".                                       *)
AtConditional(l, before, guard) ==
  IF l.cond # <<>> THEN l
  ELSE IF ~before /\ guard # None
       THEN WithMI(l, EnterTopLevelIFNDEF(l.mi, guard))
       ELSE WithMI(l, EnterTopLevelConditional(l.mi))

AtAlternative(l) ==
  IF l.cond # <<>> THEN l ELSE WithMI(l, EnterTopLevelConditional(l.mi))

-----------------------------------------------------------------------------
(* EnterMainSourceFile: the main file, and above it the predefines. *)
Init ==
  /\ text \in Programs
  /\ cur = NewLexer(Builtin)
  /\ inc = <<NewLexer(Main)>>
  /\ eof = FALSE
  /\ macros = {}
  /\ ctrl = [f \in Files |-> None]
  /\ out = <<>>

(* Tokens that are no macro names, returned to the client. *)
LexText ==
  /\ AtLine("text")
  /\ cur' = Advance(cur)
  /\ out' = Append(out, Token(Here.arg))
  /\ UNCHANGED <<text, inc, eof, macros, ctrl>>

(* An identifier that is a macro name expands where the macro is defined. *)
LexIdentifier ==
  /\ AtLine("use")
  /\ IF Here.arg \in macros
     THEN /\ cur' = AfterExpanding(Advance(cur))
          /\ out' = Append(out, <<"expansion", Here.arg>>)
     ELSE /\ cur' = Advance(cur)
          /\ out' = Append(out, Token(Here.arg))
  /\ UNCHANGED <<text, inc, eof, macros, ctrl>>

(* A mutated form: no early return when ReadMacroName finds no name. *)
HandleDefineDirective_Nameless ==
  /\ AtLine("define")
  /\ cur' = Advance(cur)
  /\ macros' = macros \cup {Here.arg}
  /\ UNCHANGED <<text, inc, eof, ctrl, out>>

HandleDefineDirective ==
  /\ AtLine("define")
  /\ cur' = Advance(cur)
  /\ IF Here.arg = None
     THEN out' = Append(out, Diag("missing_name")) /\ UNCHANGED macros
     ELSE macros' = macros \cup {Here.arg} /\ UNCHANGED out
  /\ UNCHANGED <<text, inc, eof, ctrl>>

HandleUndefDirective ==
  /\ AtLine("undef")
  /\ cur' = Advance(cur)
  /\ IF Here.arg = None
     THEN out' = Append(out, Diag("missing_name")) /\ UNCHANGED macros
     ELSE macros' = macros \ {Here.arg} /\ UNCHANGED out
  /\ UNCHANGED <<text, inc, eof, ctrl>>

(* #ifdef and #ifndef.  Without a name the block is skipped and the        *)
(* multiple-include machine is not told.                                   *)
HandleIfdefDirective ==
  \E k \in {"ifdef", "ifndef"} :
    /\ AtLine(k)
    /\ IF Here.arg = None
       THEN /\ cur' = SkipBlock(Advance(cur), FALSE, FALSE)
            /\ out' = Append(out, Diag("missing_name"))
       ELSE LET guard == IF k = "ifndef" THEN Here.arg ELSE None
                l == AtConditional(Advance(cur), cur.mi.any, guard)
            IN /\ cur' = IF (Here.arg \notin macros) = (k = "ifndef")
                         THEN EnterBlock(l)
                         ELSE SkipBlock(l, FALSE, FALSE)
               /\ UNCHANGED out
    /\ UNCHANGED <<text, inc, eof, macros, ctrl>>

HandleIfDirective ==
  /\ AtLine("if")
  /\ LET ln == Here
         guard == IF ln.form \in {"notdefined", "expanded"}
                  THEN ln.arg ELSE None
         l == AtConditional(AfterEvaluating(Advance(cur), ln),
                            cur.mi.any, guard)
     IN /\ cur' = IF Holds(ln) THEN EnterBlock(l)
                  ELSE SkipBlock(l, FALSE, FALSE)
        /\ out' = out \o EvaluationDiag(ln)
  /\ UNCHANGED <<text, inc, eof, macros, ctrl>>

(* #else and #elif met while reading: the block before was read, so the    *)
(* rest of the conditional is skipped.                                     *)
HandleAlternative(k, isElse, missing, repeated) ==
  /\ AtLine(k)
  /\ IF cur.cond = <<>>
     THEN /\ cur' = Advance(cur)
          /\ out' = Append(out, Diag(missing))
     ELSE LET ci == Last(cur.cond)
              l  == WithCond(Advance(cur), Front(cur.cond))
          IN /\ cur' = SkipBlock(AtAlternative(l), TRUE, isElse \/ ci.els)
             /\ out' = IF ci.els THEN Append(out, Diag(repeated)) ELSE out
  /\ UNCHANGED <<text, inc, eof, macros, ctrl>>

HandleElseDirective ==
  HandleAlternative("else", TRUE, "else_without_if", "else_after_else")

HandleElifDirective ==
  HandleAlternative("elif", FALSE, "elif_without_if", "elif_after_else")

HandleEndifDirective ==
  /\ AtLine("endif")
  /\ IF cur.cond = <<>>
     THEN /\ cur' = Advance(cur)
          /\ out' = Append(out, Diag("endif_without_if"))
     ELSE LET l == WithCond(Advance(cur), Front(cur.cond))
          IN /\ cur' = IF l.cond = <<>>
                       THEN WithMI(l, ExitTopLevelConditional(l.mi))
                       ELSE l
             /\ UNCHANGED out
  /\ UNCHANGED <<text, inc, eof, macros, ctrl>>

-----------------------------------------------------------------------------
(* ShouldEnterIncludeFile of an #include: #import is compiled out, so the  *)
(* answer depends on the controlling macro alone.  The mutated form does   *)
(* not ask whether that macro is still defined.                            *)
ShouldEnterIncludeFile_Once(f) == ctrl[f] = None

ShouldEnterIncludeFile(f) == ctrl[f] = None \/ ctrl[f] \notin macros

(* The mutated form is off by one. *)
IncludeTooDeep_OneMore == Len(inc) = MaxAllowedIncludeStackDepth

IncludeTooDeep == Len(inc) = MaxAllowedIncludeStackDepth - 1

HandleIncludeDirective ==
  /\ AtLine("include")
  /\ IF IncludeTooDeep
     THEN /\ cur' = Advance(cur)
          /\ out' = Append(out, Diag("include_too_deep"))
          /\ UNCHANGED inc
     ELSE IF Here.arg = None
     THEN /\ cur' = Advance(cur)
          /\ out' = Append(out, Diag("file_not_found"))
          /\ UNCHANGED inc
     ELSE IF ~ShouldEnterIncludeFile(Here.arg)
     THEN cur' = Advance(cur) /\ UNCHANGED <<inc, out>>
     ELSE /\ inc' = Append(inc, Advance(cur))
          /\ cur' = NewLexer(Here.arg)
          /\ UNCHANGED out
  /\ UNCHANGED <<text, eof, macros, ctrl>>

(* LexEndOfFile and HandleEndOfFile: open conditionals are diagnosed, the  *)
(* controlling macro of the file is remembered, the includer continues.    *)
LexEndOfFile ==
  /\ ~eof /\ ~cur.raw /\ AtEnd
  /\ out' = out \o Unterminated(cur.cond)
  /\ LET m == GetControllingMacroAtEndOfFile(cur.mi)
     IN ctrl' = IF m # None /\ cur.file # Builtin
                THEN [ctrl EXCEPT ![cur.file] = m] ELSE ctrl
  /\ IF inc # <<>>
     THEN cur' = Last(inc) /\ inc' = Front(inc) /\ UNCHANGED eof
     ELSE eof' = TRUE /\ cur' = WithCond(cur, <<>>) /\ UNCHANGED inc
  /\ UNCHANGED <<text, macros>>

-----------------------------------------------------------------------------
(* The iterations of SkipExcludedConditionalBlock. *)
SkipOther ==
  /\ \E k \in {"text", "use", "define", "undef", "include"} : SkipLine(k)
  /\ cur' = Advance(cur)
  /\ UNCHANGED <<text, inc, eof, macros, ctrl, out>>

SkipIf ==
  /\ \E k \in {"ifdef", "ifndef", "if"} : SkipLine(k)
  /\ cur' = WithCond(Advance(cur), Append(cur.cond, LevelOf(TRUE, FALSE, FALSE)))
  /\ UNCHANGED <<text, inc, eof, macros, ctrl, out>>

(* A mutated form: the loop ends at the first #endif, nested or not. *)
SkipEndif_Leaves ==
  /\ SkipLine("endif")
  /\ cur' = WithRaw(WithCond(Advance(cur), Front(cur.cond)), FALSE)
  /\ UNCHANGED <<text, inc, eof, macros, ctrl, out>>

SkipEndif ==
  /\ SkipLine("endif")
  /\ cur' = WithRaw(WithCond(Advance(cur), Front(cur.cond)),
                     Last(cur.cond).was)
  /\ UNCHANGED <<text, inc, eof, macros, ctrl, out>>

SetTop(l, lev) == WithCond(l, [l.cond EXCEPT ![Len(l.cond)] = lev])

SkipElse ==
  /\ SkipLine("else")
  /\ LET ci == Last(cur.cond)
         enter == ~ci.was /\ ~ci.found
     IN /\ cur' = WithRaw(SetTop(Advance(cur),
                                 LevelOf(ci.was, ci.found \/ enter, TRUE)),
                          ~enter)
        /\ out' = IF ci.els THEN Append(out, Diag("else_after_else")) ELSE out
  /\ UNCHANGED <<text, inc, eof, macros, ctrl>>

SkipElif ==
  /\ SkipLine("elif")
  /\ LET ci == Last(cur.cond)
         evaluated == ~ci.was /\ ~ci.found
         enter == evaluated /\ Holds(Here)
         l == IF evaluated THEN AfterEvaluating(Advance(cur), Here)
              ELSE Advance(cur)
     IN /\ cur' = WithRaw(SetTop(l, LevelOf(ci.was, ci.found \/ enter,
                                            ci.els)), ~enter)
        /\ out' = out \o (IF evaluated THEN EvaluationDiag(Here) ELSE <<>>)
                      \o (IF ci.els THEN <<Diag("elif_after_else")>>
                          ELSE <<>>)
  /\ UNCHANGED <<text, inc, eof, macros, ctrl>>

(* A mutated form: LexingRawMode is not cleared after the loop. *)
SkipEndOfFile_StaysRaw ==
  /\ ~eof /\ cur.raw /\ AtEnd
  /\ out' = out \o Unterminated(cur.cond)
  /\ cur' = WithCond(cur, <<>>)
  /\ UNCHANGED <<text, inc, eof, macros, ctrl>>

SkipEndOfFile ==
  /\ ~eof /\ cur.raw /\ AtEnd
  /\ out' = out \o Unterminated(cur.cond)
  /\ cur' = WithRaw(WithCond(cur, <<>>), FALSE)
  /\ UNCHANGED <<text, inc, eof, macros, ctrl>>

-----------------------------------------------------------------------------
(* The client lexes until it sees the end of the main file. *)
ClientDone == eof /\ UNCHANGED vars

Next ==
  \/ LexText \/ LexIdentifier
  \/ HandleDefineDirective \/ HandleUndefDirective
  \/ HandleIfdefDirective \/ HandleIfDirective
  \/ HandleElseDirective \/ HandleElifDirective \/ HandleEndifDirective
  \/ HandleIncludeDirective
  \/ LexEndOfFile
  \/ SkipOther \/ SkipIf \/ SkipEndif \/ SkipElse \/ SkipElif
  \/ SkipEndOfFile
  \/ ClientDone

Spec == Init /\ [][Next]_vars

(* One thread runs the loop "do PP.Lex(Tok) while (Tok.isNot(tok::eof))". *)
FairSpec == Spec /\ WF_vars(Next)

-----------------------------------------------------------------------------
TypeOK ==
  /\ text \in [Files -> Seq(Line)]
  /\ cur \in Lexer
  /\ inc \in Seq(Lexer)
  /\ eof \in BOOLEAN
  /\ macros \subseteq Macros
  /\ ctrl \in [Files -> Macros \cup {None}]
  /\ out \in Seq(Event)

(* Outside SkipExcludedConditionalBlock every open conditional is one      *)
(* whose block is being read; inside it, the conditionals are such ones up *)
(* to the one that started the skipping and skipped ones above it.  It is  *)
(* what the assertions of HandleEndifDirective and of the skipping loop    *)
(* rely on when they pop and peek a level.                                 *)
LevelsOK(l) ==
  IF l.raw
  THEN \E b \in 1 .. Len(l.cond) :
         \A i \in 1 .. Len(l.cond) : l.cond[i].was <=> i > b
  ELSE \A i \in 1 .. Len(l.cond) : ~l.cond[i].was

SkippingOnlyInRawMode ==
  /\ LevelsOK(cur)
  /\ \A i \in 1 .. Len(inc) : LevelsOK(inc[i]) /\ ~inc[i].raw

(* Infinite #include recursion ends at MaxAllowedIncludeStackDepth, which  *)
(* HandleIncludeDirective tests with an equality.                          *)
IncludeStackBounded == Len(inc) < MaxAllowedIncludeStackDepth

-----------------------------------------------------------------------------
(* How deep line i of a file is nested, from the text alone. *)
Opens(ln)  == ln.k \in {"ifdef", "ifndef", "if"}
Closes(ln) == ln.k = "endif"

Depth(t, i) == Cardinality({j \in 1 .. i : Opens(t[j])})
               - Cardinality({j \in 1 .. i : Closes(t[j])})

Guards(ln, m) ==
  /\ ln.arg = m
  /\ ln.k = "ifndef" \/ (ln.k = "if" /\ ln.form = "notdefined")

(* The whole text stands between a guard on m and the matching #endif. *)
Wrapped(t, m) ==
  /\ Len(t) >= 2
  /\ Guards(t[1], m)
  /\ \A i \in 1 .. Len(t) - 1 : Depth(t, i) >= 1
  /\ Depth(t, Len(t)) = 0

(* No #ifdef or #ifndef lacks its macro name, which is an error. *)
AllNamed(t) ==
  \A i \in 1 .. Len(t) : t[i].k \in {"ifdef", "ifndef"} => t[i].arg # None

(* The guard has no #else and no #elif of its own. *)
NoAlternative(t) ==
  \A i \in 1 .. Len(t) : t[i].k \in {"else", "elif"} => Depth(t, i) >= 2

(* A file gets a controlling macro only when nothing in it stands outside  *)
(* the "#ifndef macro ... #endif" (MultipleIncludeOpt.h: tokens before the *)
(* first #ifdef or after the last #endif are detected).                    *)
ControllingMacroWraps ==
  \A f \in Files :
    (ctrl[f] # None /\ AllNamed(text[f])) => Wrapped(text[f], ctrl[f])
-----------------------------------------------------------------------------
(***************************************************************************)
(* The reader: a reference preprocessor.  It reads a file line by line     *)
(* with a stack of groups, never looks at guards, and enters every         *)
(* #include.  A group is seeking (no block read yet), reading, done, or    *)
(* dead (inside a block that is not read).                                 *)
(***************************************************************************)
Group == [st : {"seeking", "reading", "done", "dead"}, els : BOOLEAN]

(* What a reader has before and after a file, and inside one. *)
ReaderState == [macros : SUBSET Macros, out : Seq(Event)]
At(g, ms, o) == [g |-> g, macros |-> ms, out |-> o]

Live(g) == \A i \in DOMAIN g : g[i].st = "reading"

Open(r, st, evs) == At(Append(r.g, [st |-> st, els |-> FALSE]), r.macros, r.out \o evs)
Says(r, evs) == At(r.g, r.macros, r.out \o evs)

RefHolds(ln, ms) ==
  IF ln.form = "defined" THEN ln.arg \in ms
  ELSE ln.form # "bad" /\ ln.arg \notin ms

BadDiag(ln) == IF ln.form = "bad" THEN <<Diag("bad_expression")>> ELSE <<>>

OpensBlock(ln, ms) ==
  CASE ln.k = "ifdef"  -> ln.arg \in ms
    [] ln.k = "ifndef" -> ln.arg \notin ms
    [] ln.k = "if"     -> RefHolds(ln, ms)

ReadOpening(r, ln) ==
  IF ~Live(r.g) THEN Open(r, "dead", <<>>)
  ELSE IF ln.k # "if" /\ ln.arg = None THEN Open(r, "seeking", <<Diag("missing_name")>>)
  ELSE Open(r, IF OpensBlock(ln, r.macros) THEN "reading" ELSE "seeking",
            IF ln.k = "if" THEN BadDiag(ln) ELSE <<>>)

(* The new state of the innermost group at an #else or #elif. *)
Turn(st, ln, ms) ==
  IF st = "seeking" /\ (ln.k = "else" \/ RefHolds(ln, ms)) THEN "reading"
  ELSE IF st = "reading" THEN "done"
  ELSE st

ReadTurning(r, ln) ==
  IF r.g = <<>>
  THEN Says(r, <<Diag(IF ln.k = "else" THEN "else_without_if" ELSE "elif_without_if")>>)
  ELSE LET top == Last(r.g)
       IN At(Append(Front(r.g), [st |-> Turn(top.st, ln, r.macros), els |-> top.els \/ ln.k = "else"]),
             r.macros,
             r.out \o (IF ln.k = "elif" /\ top.st = "seeking" THEN BadDiag(ln) ELSE <<>>)
                   \o (IF ~top.els THEN <<>>
                       ELSE <<Diag(IF ln.k = "else" THEN "else_after_else" ELSE "elif_after_else")>>))

ReadClosing(r) ==
  IF r.g = <<>> THEN Says(r, <<Diag("endif_without_if")>>)
  ELSE At(Front(r.g), r.macros, r.out)

ReadDefinition(r, ln) ==
  IF ln.arg = None THEN Says(r, <<Diag("missing_name")>>)
  ELSE At(r.g, IF ln.k = "define" THEN r.macros \cup {ln.arg} ELSE r.macros \ {ln.arg}, r.out)

(* deeper is the reading of files one level deeper. *)
ReadInclude(deeper, d, r, ln) ==
  IF d = MaxAllowedIncludeStackDepth - 1 THEN Says(r, <<Diag("include_too_deep")>>)
  ELSE IF ln.arg = None THEN Says(r, <<Diag("file_not_found")>>)
  ELSE LET s == deeper[ln.arg][ [macros |-> r.macros, out |-> r.out] ]
       IN At(r.g, s.macros, s.out)

ReadText(r, ln) ==
  Says(r, << <<IF ln.k = "use" /\ ln.arg \in r.macros THEN "expansion" ELSE "token", ln.arg>> >>)

ReadLine(deeper, d, r, ln) ==
  IF Opens(ln) THEN ReadOpening(r, ln)
  ELSE IF ln.k \in {"else", "elif"} THEN ReadTurning(r, ln)
  ELSE IF Closes(ln) THEN ReadClosing(r)
  ELSE IF ~Live(r.g) THEN r
  ELSE IF ln.k \in {"define", "undef"} THEN ReadDefinition(r, ln)
  ELSE IF ln.k = "include" THEN ReadInclude(deeper, d, r, ln)
  ELSE ReadText(r, ln)

(* The reader after each of the lines of t, d includes deep. *)
ReadLines(t, deeper, d, s) ==
  LET after[i \in 0 .. Len(t)] ==
        IF i = 0 THEN At(<<>>, s.macros, s.out) ELSE ReadLine(deeper, d, after[i - 1], t[i])
  IN after

(* The end of a file: a diagnostic for each group that is open. *)
ReadEnd(r) ==
  [macros |-> r.macros, out |-> r.out \o [i \in DOMAIN r.g |-> Diag("unterminated")]]

(* What the reader has after reading a file of program p, d includes deep. *)
Read(p) ==
  LET at[d \in 0 .. MaxAllowedIncludeStackDepth - 1] ==
        LET deeper == IF d = MaxAllowedIncludeStackDepth - 1 THEN <<>> ELSE at[d + 1]
        IN [f \in Files |-> [s \in ReaderState |->
              ReadEnd(ReadLines(p[f], deeper, d, s)[Len(p[f])])]]
  IN at

(* The predefines are read above the main file, before it. *)
Reference(p) ==
  Read(p)[0][Main][ Read(p)[1][Builtin][ [macros |-> {}, out |-> <<>>] ] ]

(* A conditional of t has an #else or #elif after its #else. *)
RepeatsElse(t) ==
  \E i, j \in 1 .. Len(t) :
    /\ i < j /\ t[i].k = "else" /\ t[j].k \in {"else", "elif"}
    /\ Depth(t, j) = Depth(t, i)
    /\ \A k \in i .. j : Depth(t, k) >= Depth(t, i)

(* The files whose guard the multiple-include filter gets wrong, see the   *)
(* README.                                                                 *)
Misjudged(t) ==
  \/ ~AllNamed(t)
  \/ (\E m \in Macros : Wrapped(t, m)) /\ (~NoAlternative(t) \/ RepeatsElse(t))

(* At the end of the main file the tokens, the diagnostics and the macros  *)
(* are those of the reader, although includes were skipped because of      *)
(* their controlling macro and excluded blocks were lexed raw.             *)
OutputMatchesReference ==
  (eof /\ \A f \in Files : ~Misjudged(text[f])) =>
    Reference(text) = [macros |-> macros, out |-> out]
=============================================================================
