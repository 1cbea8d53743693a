---------------------- MODULE PrintPreprocessedOutput ----------------------
(***************************************************************************)
(* Frontend/PrintPreprocessedOutput: the lines of the output.  What the    *)
(* printer is told of comes from a preprocessor that goes through a file,  *)
(* includes others and comes back, and obeys #line and GNU line markers.   *)
(* The output is kept as what a reader has made of it: the file and line   *)
(* it believes to be at, and what it has seen on the line so far.  At the  *)
(* end, what decides about the space between two tokens.                   *)
(***************************************************************************)
EXTENDS Lexer

CONSTANTS
    Jumps,       \* bound of the model: by how many lines a file goes on at a time
    MaxFile,     \* bound of the model: files entered
    MaxLine,     \* bound of the model: lines of a file
    Shifts,      \* bound of the model: by how much markers renumber the lines
    MaxInside    \* bound of the model: presumed files within a file

VARIABLES
    DisableLineMarkers,
    CurLine, EmittedTokensOnThisLine, EmittedMacroOnThisLine,
    CurFilename,
    stack,       \* the files being read: [id, name, line, shift, inside] with the
                 \* presumed name, the physical line, by how much the presumed
                 \* line is more, and how many presumed files are entered
    entered,     \* the number of files entered
    reader,      \* [file, line, row]: what a reader of the output has understood
    last         \* what was printed last, and whether it starts a line

printer == <<CurLine, EmittedTokensOnThisLine, EmittedMacroOnThisLine, CurFilename>>
pvars   == <<DisableLineMarkers, printer, stack, entered, reader, last>>

Here == Last(stack)

-----------------------------------------------------------------------------
(* What the printer writes.  `o` is the printer with its output: cur, toks *)
(* and macro are its variables, r the reader.                              *)

Output == [cur |-> CurLine, toks |-> EmittedTokensOnThisLine, macro |-> EmittedMacroOnThisLine,
           name |-> CurFilename, r |-> reader]

Newlines(o, n) == [o EXCEPT !.r = IF n = 0 THEN @ ELSE [file |-> @.file, line |-> @.line + n, row |-> {}]]

(* Text on the row.  Of what starts no line it is enough that it is there. *)
NotFirst == [file |-> 0, line |-> 0]
Text(o, line, atStart) ==
    [o EXCEPT !.r.row = @ \cup {IF atStart THEN [file |-> Here.id, line |-> line] ELSE NotFirst}]

(* A line marker is one at the start of a line only.                       *)
Marker(o, line) ==
    IF o.r.row = {} THEN [o EXCEPT !.r = [file |-> o.name, line |-> line, row |-> {}]]
    ELSE Newlines(Text(o, line, TRUE), 1)

WriteLineInfo(o, line) ==
    LET fresh == IF o.toks \/ o.macro
                 THEN Newlines([o EXCEPT !.toks = FALSE, !.macro = FALSE], 1) ELSE o
    IN Marker(fresh, line)

MoveWithoutMarkers(o, line) ==
    IF o.toks \/ o.macro
    THEN Newlines([o EXCEPT !.cur = line, !.toks = FALSE, !.macro = FALSE], 1)
    ELSE [o EXCEPT !.cur = line]

(* LineNo - CurLine is unsigned: going back is far, too.                   *)
MoveToLine(o, line) ==
    CASE DisableLineMarkers /\ line # o.cur -> MoveWithoutMarkers(o, line)
      [] line - o.cur \in 0..8 -> [Newlines(o, line - o.cur) EXCEPT !.cur = line]
      [] OTHER -> [WriteLineInfo(o, line) EXCEPT !.cur = line]

(* FileChanged, once the output is at the line of the #include.  The name  *)
(* is the presumed one, the line the physical one.                         *)
FileChanged(o, name, line) ==
    IF DisableLineMarkers THEN [o EXCEPT !.cur = line]
    ELSE WriteLineInfo([o EXCEPT !.cur = line, !.name = name], line)

Commit(o) ==
    /\ CurLine' = o.cur /\ CurFilename' = o.name
    /\ EmittedTokensOnThisLine' = o.toks /\ EmittedMacroOnThisLine' = o.macro
    /\ reader' = o.r
    /\ UNCHANGED DisableLineMarkers

-----------------------------------------------------------------------------
(* PrintPreprocessedTokens and the callbacks.                              *)

Printed(kind, atStart) == [kind |-> kind, atStart |-> atStart]
FileMark == Printed("file", FALSE)

(* Go on in the file; `lines` is 0 for what stays on the line.             *)
Advance(lines) ==
    /\ Here.line + lines <= MaxLine
    /\ stack' = [stack EXCEPT ![Len(stack)].line = @ + lines]
    /\ UNCHANGED entered

(* A directive or a line marker has its line for itself.                   *)
OnLine(lines) == lines > 0 \/ last.kind = "token"

(* A token: HandleFirstTokOnLine when it is flagged as the first of its    *)
(* line.  A macro may have put a flagged token on the line it is on, and   *)
(* what follows a call over several lines, or one that expands to nothing, *)
(* has no flag.                                                            *)
PrintToken(lines, atStart) ==
    LET line == Here.line + lines
        o == IF atStart THEN MoveToLine(Output, line) ELSE Output
    IN /\ OnLine(lines)
       /\ Advance(lines)
       /\ Commit([Text(o, line, atStart) EXCEPT !.toks = TRUE])
       /\ last' = Printed("token", atStart)

(* Newlines in a comment are not counted.                                  *)
PrintComment_Uncounted(lines, inside, atStart) ==
    LET line == Here.line + lines
        o == IF atStart THEN MoveToLine(Output, line) ELSE Output
        n == [Newlines(Text(o, line, atStart), inside) EXCEPT !.toks = TRUE]
    IN /\ OnLine(lines)
       /\ Advance(lines + inside)
       /\ Commit(Text(n, line + inside, FALSE))
       /\ last' = Printed("token", atStart)

(* A comment that was kept, with newlines in it.                           *)
PrintComment(lines, inside, atStart) ==
    LET line == Here.line + lines
        o == IF atStart THEN MoveToLine(Output, line) ELSE Output
        n == [Newlines(Text(o, line, atStart), inside)
                EXCEPT !.cur = @ + inside, !.toks = TRUE]
    IN /\ OnLine(lines)
       /\ Advance(lines + inside)
       /\ Commit(Text(n, line + inside, FALSE))
       /\ last' = Printed("token", atStart)

(* A definition that is not remembered to be on the line.                  *)
MacroDefined_Unflagged(lines) ==
    LET line == Here.line + lines
        o == MoveToLine(Output, line)
    IN /\ lines > 0
       /\ Advance(lines)
       /\ Commit(Text(o, line, TRUE))
       /\ last' = Printed("define", TRUE)

MacroDefined(lines) ==
    LET line == Here.line + lines
        o == MoveToLine(Output, line)
    IN /\ lines > 0
       /\ Advance(lines)
       /\ Commit([Text(o, line, TRUE) EXCEPT !.macro = TRUE])
       /\ last' = Printed("define", TRUE)

File(id) == [id |-> id, name |-> id, line |-> 0, shift |-> 0, inside |-> 0]

EnterFile(lines) ==
    LET o == MoveToLine(Output, Here.line + lines)
    IN /\ lines > 0 /\ entered < MaxFile /\ Here.line + lines <= MaxLine
       /\ entered' = entered + 1
       /\ stack' = Append([stack EXCEPT ![Len(stack)].line = @ + lines], File(entered + 1))
       /\ Commit(FileChanged(o, entered + 1, 1))
       /\ last' = FileMark

(* The lexer of the file that is returned to is behind the directive.      *)
ExitFile ==
    LET back == Front(stack)
    IN /\ Len(stack) > 1
       /\ stack' = back
       /\ Commit(FileChanged(Output, Last(back).name, Last(back).line + 1))
       /\ last' = FileMark
       /\ UNCHANGED entered

(* The presumed files entered after #line or a GNU line marker: flag 1     *)
(* enters one, flag 2 leaves it, and is refused where there is none.       *)
InsideAfter(reason) ==
    CASE reason = "EnterFile" -> Here.inside + 1
      [] reason = "ExitFile" -> Here.inside - 1
      [] reason = "RenameFile" -> Here.inside

(* HandleLineDirective and HandleDigitDirective.  A presumed file has been *)
(* included by the marker itself.                                          *)
LineMarker(lines, reason, name, shift) ==
    LET line == Here.line + lines
        o == IF reason = "EnterFile" THEN MoveToLine(Output, line) ELSE Output
    IN /\ lines > 0 /\ line <= MaxLine /\ InsideAfter(reason) \in 0..MaxInside
       /\ stack' = [stack EXCEPT ![Len(stack)] =
                       [id |-> @.id, name |-> name, line |-> line, shift |-> shift,
                        inside |-> InsideAfter(reason)]]
       /\ Commit(FileChanged(o, name, line))
       /\ last' = FileMark
       /\ UNCHANGED entered

(* The name and the number a marker may give: the file's own, or others;   *)
(* without line markers in the output nobody asks for them.                *)
Renamings == IF DisableLineMarkers THEN {<<Here.name, Here.shift>>}
             ELSE {Here.id, 0} \X Shifts

PInit ==
    /\ DisableLineMarkers \in BOOLEAN
    /\ CurLine = 1 /\ CurFilename = 1
    /\ EmittedTokensOnThisLine = FALSE /\ EmittedMacroOnThisLine = FALSE
    /\ stack = <<File(1)>>
    /\ entered = 1
    /\ reader = [file |-> 1, line |-> 1, row |-> {}]
    /\ last = FileMark

PNext ==
    \/ \E lines \in Jumps :
          \/ \E atStart \in BOOLEAN :
                \/ PrintToken(lines, atStart)
                \/ \E inside \in {1, 2} : PrintComment(lines, inside, atStart)
          \/ MacroDefined(lines)
          \/ EnterFile(lines)
          \/ \E reason \in {"EnterFile", "ExitFile", "RenameFile"}, to \in Renamings :
                LineMarker(lines, reason, to[1], to[2])
    \/ ExitFile

-----------------------------------------------------------------------------
(* Lex/TokenConcatenation: whether two tokens have to be kept apart when   *)
(* they are printed.  A token has its kind and spelling as in Lexer, and   *)
(* the place it was spelled at: file, begin and end, file 0 for a token    *)
(* that a macro has made.                                                  *)

Alnum == Letter \cup Digit
LiteralKinds == {"char_constant", "string_literal"}

(* Tokens that may not be followed by "=": aci_avoid_equal.                *)
AvoidEqual == {"&", "+", "-", "/", "<", ">", "|", "%", "*", "!", "<<", ">=", "^", "="}

(* aci_custom and aci_custom_firstchar: the first character is looked at.  *)
FirstCharJoins(kind, c) ==
    CASE kind = "numeric_constant" -> c \in Alnum \cup {"+", "-", "."}
      [] kind = "." -> c \in Digit \cup {"."}
      [] kind = "&" -> c = "&"
      [] kind = "+" -> c = "+"
      [] kind = "-" -> c \in {"-", ">"}
      [] kind = "/" -> c \in {"*", "/"}
      [] kind = "<" -> c \in {"<", ":", "%"}
      [] kind = ">" -> c = ">"
      [] kind = "|" -> c = "|"
      [] kind = "%" -> c \in {">", ":"}
      [] kind = ":" -> c = ">"
      [] kind = "#" -> c \in {"#", "@", "%"}
      [] OTHER      -> FALSE

StartsWithL(tok)   == tok.spelling[1] = "L"
IsIdentifierL(tok) == tok.spelling = <<"L">>

(* What follows an identifier: the rest of it, or L and a literal.         *)
IdentifierJoins(prev, tok) ==
    CASE tok.kind = "numeric_constant" -> tok.spelling[1] # "."
      [] tok.kind \in {"identifier", "wide_string_literal"} -> TRUE
      [] tok.kind \in LiteralKinds -> StartsWithL(tok) \/ IsIdentifierL(prev)
      [] OTHER -> FALSE

Adjacent(prev, tok) == prev.file # 0 /\ prev.file = tok.file /\ prev.end = tok.begin

(* A dot followed by a dot is not looked at.                               *)
AvoidConcat_Dots(prev, tok) ==
    ~Adjacent(prev, tok) /\
    CASE prev.kind \in AvoidEqual /\ tok.kind \in {"=", "=="} -> TRUE
      [] prev.kind = "identifier" -> IdentifierJoins(prev, tok)
      [] OTHER -> FirstCharJoins(prev.kind, tok.spelling[1]) /\ prev.kind # "."

AvoidConcat(prev, tok) ==
    ~Adjacent(prev, tok) /\
    CASE prev.kind \in AvoidEqual /\ tok.kind \in {"=", "=="} -> TRUE
      [] prev.kind = "identifier" -> IdentifierJoins(prev, tok)
      [] OTHER -> FirstCharJoins(prev.kind, tok.spelling[1]) \/ (prev.kind = "numeric_constant"
                                                               /\ tok.kind = "numeric_constant")

=============================================================================
