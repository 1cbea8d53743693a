------------------------------- MODULE Lexer -------------------------------
(***************************************************************************)
(* Lex/lexer: from characters to tokens.  A buffer is a sequence of        *)
(* characters, each a string of length one; a position is the index of a   *)
(* character, and EndOf the nul behind the last.  The operators take the   *)
(* buffer `t`, so that a buffer can be lexed that is not a file.           *)
(***************************************************************************)
EXTENDS Integers, Sequences, SequencesExt, FiniteSetsExt

CONSTANTS Letter, Digit   \* the letters and digits that texts are made of

Newline    == {"\n", "\r"}
Horizontal == {" ", "\t"}
IdentifierBody == Letter \cup Digit \cup {"_"}
NumberBody     == IdentifierBody \cup {"."}

EndOf(t) == Len(t) + 1

(* Behind the nul the lexer has no business.                               *)
CharAt(t, p) == CASE p <= Len(t) -> t[p] [] p = EndOf(t) -> "nul" [] OTHER -> "beyond"

-----------------------------------------------------------------------------
(* Escaped newlines.                                                       *)

FirstNot(t, p, chars) == CHOOSE i \in p..EndOf(t) :
                            /\ CharAt(t, i) \notin chars
                            /\ \A j \in p..(i - 1) : CharAt(t, j) \in chars

(* The end of a newline at `nl`, of which \r\n and \n\r are one.           *)
NewlineEnd(t, nl) ==
    IF CharAt(t, nl) \notin Newline THEN nl
    ELSE IF CharAt(t, nl + 1) \in Newline \ {CharAt(t, nl)} THEN nl + 2 ELSE nl + 1

(* The size of white space from p to `nl` and a newline there, or 0.       *)
SizeWithNewline(t, p, nl) == IF NewlineEnd(t, nl) = nl THEN 0 ELSE NewlineEnd(t, nl) - p

getEscapedNewLineSize(t, p) ==
    SizeWithNewline(t, p, IF p > EndOf(t) THEN p ELSE FirstNot(t, p, Horizontal))

(* Only the first of several escaped newlines is skipped.                  *)
getCharAndSize_Once(t, p) ==
    LET size == getEscapedNewLineSize(t, p + 1)
        at   == IF CharAt(t, p) = "\\" THEN p + 1 + size ELSE p
    IN IF CharAt(t, p) = "\\" /\ size = 0 THEN [c |-> "\\", next |-> p + 1]
       ELSE [c |-> CharAt(t, at), next |-> at + 1]

(* The character at a position once escaped newlines are skipped, and the  *)
(* position behind it; `size` is that of an escaped newline here.          *)
RECURSIVE getCharAndSize(_, _)
CharBehind(t, p, size) == IF size > 0 THEN getCharAndSize(t, p + 1 + size)
                          ELSE [c |-> CharAt(t, p), next |-> p + 1]

getCharAndSize(t, p) ==
    CharBehind(t, p, IF CharAt(t, p) = "\\" THEN getEscapedNewLineSize(t, p + 1) ELSE 0)

(* Preprocessor::getSpelling: the characters from p up to an end.          *)
RECURSIVE getSpelling(_, _, _)
getSpelling(t, p, end) ==
    LET n == getCharAndSize(t, p)
    IN IF p >= end THEN <<>> ELSE <<n.c>> \o getSpelling(t, n.next, end)

-----------------------------------------------------------------------------
(* The rest of a token whose first character has been read: its end, and   *)
(* its kind where that is not certain.                                     *)

RECURSIVE LexIdentifier(_, _)
LexIdentifier(t, p) ==
    LET n == getCharAndSize(t, p)
    IN IF n.c \in IdentifierBody THEN LexIdentifier(t, n.next) ELSE p

RECURSIVE LexNumericConstant(_, _, _)
LexNumericConstant(t, p, prev) ==
    LET n == getCharAndSize(t, p)
    IN CASE n.c \in NumberBody -> LexNumericConstant(t, n.next, n.c)
         [] n.c \in {"+", "-"} /\ prev \in {"E", "e", "P", "p"} -> LexNumericConstant(t, n.next, "")
         [] OTHER -> p

(* A literal that ends with `close`.  An escaped character is skipped      *)
(* whatever it is, which may be the nul: "fault".                          *)
RECURSIVE LexLiteral(_, _, _, _)
LiteralRest(t, n, close, kind) ==
    CASE n.c = close -> [end |-> n.next, kind |-> kind]
      [] n.c \in Newline \cup {"nul"} -> [end |-> n.next - 1, kind |-> "unknown"]
      [] n.c = "beyond" -> [end |-> EndOf(t), kind |-> "fault"]
      [] OTHER -> LexLiteral(t, IF n.c = "\\" THEN getCharAndSize(t, n.next).next ELSE n.next, close, kind)

LexLiteral(t, p, close, kind) == LiteralRest(t, getCharAndSize(t, p), close, kind)

LexStringLiteral(t, p, wide) ==
    LexLiteral(t, p, "\"", IF wide THEN "wide_string_literal" ELSE "string_literal")

LexAngledStringLiteral(t, p) ==
    LET lit == LexLiteral(t, p, ">", "angle_string_literal")
    IN IF lit.kind = "unknown" THEN [end |-> p, kind |-> "<"] ELSE lit

(* The slow part of a character constant: `n` is the last character read.  *)
RECURSIVE CharConstantRest(_, _)
CharConstantNext(t, next) ==
    CASE next.c = "'"      -> [end |-> next.next, kind |-> "char_constant"]
      [] next.c = "beyond" -> [end |-> EndOf(t), kind |-> "fault"]
      [] OTHER             -> CharConstantRest(t, next)

CharConstantRest(t, n) ==
    IF n.c \in Newline \cup {"nul"} THEN [end |-> n.next - 1, kind |-> "unknown"]
    ELSE CharConstantNext(t, getCharAndSize(t, IF n.c = "\\" THEN getCharAndSize(t, n.next).next ELSE n.next))

(* A constant of one character `n`, or the slow part.                      *)
CharConstantFrom(t, n) ==
    IF n.c \notin Newline \cup {"nul"} /\ CharAt(t, n.next) = "'"
    THEN [end |-> n.next + 1, kind |-> "char_constant"] ELSE CharConstantRest(t, n)

CharConstant(t, first) ==
    IF first.c = "'" THEN [end |-> first.next, kind |-> "unknown"]
    ELSE CharConstantFrom(t, IF first.c = "\\" THEN getCharAndSize(t, first.next) ELSE first)

LexCharConstant(t, p) == CharConstant(t, getCharAndSize(t, p))

(* Punctuators, two and three characters long, that are looked for.        *)
Three == {"...", "<<=", ">>="}
Two   == {"&&", "&=", "*=", "++", "+=", "--", "->", "-=", "!=", "/=", "%=", "<<", "<=",
          ">=", ">>", "^=", "|=", "||", "==", "##"}
One   == {"?", "[", "]", "(", ")", "{", "}", ".", "&", "*", "+", "-", "~", "!", "/", "%",
          "<", ">", "^", "|", ":", ";", "=", ",", "#"}

(* The kind of a punctuator is written as the punctuator.                  *)
LexPunctuator(t, c, p, second, third) ==
    CASE c \o second.c \o third.c \in Three -> [end |-> third.next, kind |-> c \o second.c \o third.c]
      [] c \o second.c \in Two -> [end |-> second.next, kind |-> c \o second.c]
      [] c \in One -> [end |-> p, kind |-> c]
      [] OTHER     -> [end |-> p, kind |-> "unknown"]

-----------------------------------------------------------------------------
(* White space and comments.  `s` is what the lexer knows: its position    *)
(* ptr, ParsingPreprocessorDirective as dir, ParsingFilename as fname, the *)
(* retention of comments as keep, Features.BCPLComment as bcpl,            *)
(* IsAtStartOfLine as atStart, and the flags of the token to come, start   *)
(* and space.  `m` says whether the lexer is raw, whether comments are     *)
(* retained outside of directives, and whether // is to start one.         *)

SkipWhitespace(t, s, p) ==
    LET end == FirstNot(t, p, IF s.dir THEN Horizontal ELSE Horizontal \cup Newline)
        line == \E i \in p..(end - 1) : t[i] \in Newline
        last == CharAt(t, end - 1)
    IN IF s.dir /\ CharAt(t, end) \in Newline THEN [s EXCEPT !.ptr = end]
       ELSE [s EXCEPT !.ptr = end, !.start = @ \/ line,
                      !.space = last \notin Newline \/ (@ /\ ~line)]

RECURSIVE LineCommentEnd(_, _)
LineCommentEnd(t, p) ==
    LET n == getCharAndSize(t, p)
    IN CASE CharAt(t, p) \in Newline -> p
         [] n.c \in Newline          -> LineCommentEnd(t, n.next - 1)
         [] n.next = EndOf(t) + 1    -> EndOf(t)
         [] OTHER                    -> LineCommentEnd(t, n.next)

(* After the first // comment they are enabled, unless it was read raw.    *)
EnableBCPL(m, s) == [s EXCEPT !.bcpl = @ \/ ~m.raw]

(* "It isn't needed for correctness" to eat the newline, but then the next *)
(* token has to be told.                                                   *)
SkipLine(t, s, p) ==
    LET end == LineCommentEnd(t, p)
    IN IF s.dir \/ end = EndOf(t) THEN [s EXCEPT !.ptr = end]
       ELSE [s EXCEPT !.ptr = end + 1, !.start = TRUE, !.space = FALSE]

(* A mutated form: // comments stay as they were.                          *)
SkipBCPLComment_StillOff(t, m, s, p) == SkipLine(t, s, p)

SkipBCPLComment(t, m, s, p) == SkipLine(t, EnableBCPL(m, s), p)

(* A mutated form: an escaped newline ends no comment.                     *)
isEndOfBlockCommentWithEscapedNewLine_Never(t, p) == FALSE

(* A star in the line before is enough, the backslash is not looked at.    *)
isEndOfBlockCommentWithEscapedNewLine_NoSlash(t, p) ==
    \E i \in 1..(p - 1) : t[i] = "*" /\ \A j \in (i + 1)..(p - 1) : t[j] \in Horizontal \cup {"\\"}

(* Whether the newline at p is escaped, and by a backslash behind a star.  *)
isEndOfBlockCommentWithEscapedNewLine(t, p) ==
    LET pair == t[p - 1] \in Newline
        from == IF pair THEN p - 2 ELSE p - 1
        slash == CHOOSE i \in 0..from : /\ i = 0 \/ t[i] \notin Horizontal
                                        /\ \A j \in (i + 1)..from : t[j] \in Horizontal
    IN /\ pair => t[p - 1] # t[p]
       /\ t[slash] = "\\"
       /\ t[slash - 1] = "*"

(* The first slash from p on that ends the comment, or the nul.            *)
BlockCommentEnd(t, p) ==
    Min({EndOf(t)} \cup
        {i \in p..Len(t) : /\ t[i] = "/"
                           /\ \/ t[i - 1] = "*"
                              \/ /\ t[i - 1] \in Newline
                                 /\ isEndOfBlockCommentWithEscapedNewLine(t, i - 1)})

(* The search starts behind the first character, so that "/*/" is open.    *)
BlockCommentSlash(t, p) ==
    LET first == getCharAndSize(t, p)
    IN BlockCommentEnd(t, IF first.c = "/" THEN first.next ELSE first.next - 1)

SkipBlockComment(t, s, p) ==
    LET slash == BlockCommentSlash(t, p)
    IN CASE slash = EndOf(t) -> [s EXCEPT !.ptr = slash]
         [] CharAt(t, slash + 1) \in Horizontal ->
              SkipWhitespace(t, [s EXCEPT !.space = TRUE], slash + 2)
         [] OTHER -> [s EXCEPT !.ptr = slash + 1, !.space = TRUE]

-----------------------------------------------------------------------------
(* LexTokenInternal.                                                       *)

Form(t, s, begin, end, kind) ==
    [tok |-> [kind |-> kind, spelling |-> getSpelling(t, begin, end), start |-> s.start,
              space |-> s.space, begin |-> begin, end |-> end],
     s   |-> [s EXCEPT !.ptr = end]]

LexEndOfFile(t, m, s) ==
    IF s.dir THEN Form(t, [s EXCEPT !.dir = FALSE, !.keep = m.retain], EndOf(t), EndOf(t), "eom")
    ELSE Form(t, s, EndOf(t), EndOf(t), "eof")

EndOfDirective(t, m, s, begin, end) ==
    Form(t, [s EXCEPT !.dir = FALSE, !.keep = m.retain, !.atStart = TRUE], begin, end, "eom")

(* A directive begins: HandleDirective sets the mode.                      *)
BeginDirective(t, s, begin, end) ==
    Form(t, [s EXCEPT !.dir = TRUE, !.keep = FALSE], begin, end, "#")

(* Without // comments, "//*" is a slash and a block comment.              *)
StartsLineComment(t, s, n, second) ==
    /\ n.c = "/" /\ second.c = "/"
    /\ s.bcpl \/ getCharAndSize(t, second.next).c # "*"

(* Every token but # of a directive, by its first two characters.          *)
TokenRest(t, s, n, second) ==
    LET wide  == n.c = "L" /\ second.c \in {"\"", "'"}
        quote == IF wide THEN second ELSE n
    IN
    CASE quote.c = "\"" -> LexStringLiteral(t, quote.next, wide)
      [] quote.c = "'"  -> LexCharConstant(t, quote.next)
      [] n.c \in Letter \cup {"_"} -> [end |-> LexIdentifier(t, n.next), kind |-> "identifier"]
      [] n.c \in Digit \/ (n.c = "." /\ second.c \in Digit) ->
           [end |-> LexNumericConstant(t, n.next, ""), kind |-> "numeric_constant"]
      [] n.c = "<" /\ s.fname -> LexAngledStringLiteral(t, n.next)
      [] OTHER -> LexPunctuator(t, n.c, n.next, second, getCharAndSize(t, second.next))

FormToken(t, s, rest) == Form(t, s, s.ptr, rest.end, rest.kind)

(* What is found at s.ptr: `n` is its first character, `second` the next.  *)
RECURSIVE LexTokenInternal(_, _, _)
LexAt(t, m, s, n, second) ==
    CASE n.c = "nul" -> LexEndOfFile(t, m, s)
      [] n.c \in Newline /\ s.dir -> EndOfDirective(t, m, s, s.ptr, n.next)
      [] n.c \in Newline -> LexTokenInternal(t, m,
             SkipWhitespace(t, [s EXCEPT !.start = TRUE, !.space = FALSE], n.next))
      [] n.c \in Horizontal -> LexTokenInternal(t, m,
             SkipWhitespace(t, [s EXCEPT !.space = TRUE], n.next))
      [] StartsLineComment(t, s, n, second) ->
           IF s.keep THEN Form(t, EnableBCPL(m, s), s.ptr, LineCommentEnd(t, second.next), "comment")
           ELSE LexTokenInternal(t, m, SkipBCPLComment(t, m, s, second.next))
      [] n.c = "/" /\ second.c = "*" ->
           IF s.keep /\ BlockCommentSlash(t, second.next) # EndOf(t)
           THEN Form(t, s, s.ptr, BlockCommentSlash(t, second.next) + 1, "comment")
           ELSE LexTokenInternal(t, m, SkipBlockComment(t, s, second.next))
      [] n.c = "#" /\ second.c # "#" /\ s.start /\ ~m.raw -> BeginDirective(t, s, s.ptr, n.next)
      [] OTHER -> FormToken(t, s, TokenRest(t, s, n, second))

LexFrom(t, m, s, n) == LexAt(t, m, s, n, getCharAndSize(t, n.next))

LexBehindSpace(t, m, s, begin) ==
    LexFrom(t, m, [s EXCEPT !.ptr = begin, !.space = @ \/ begin # s.ptr], getCharAndSize(t, begin))

LexTokenInternal(t, m, s) == LexBehindSpace(t, m, s, FirstNot(t, s.ptr, Horizontal))

(* Lex starts a new token and hands it the flag it is due.                 *)
Lex(t, m, s) == LexTokenInternal(t, m, [s EXCEPT !.start = s.atStart, !.space = FALSE, !.atStart = FALSE])

InitLexer(m) == [ptr |-> 1, dir |-> FALSE, fname |-> FALSE, keep |-> m.retain, bcpl |-> m.bcpl,
                 atStart |-> TRUE, start |-> FALSE, space |-> FALSE]

(* PreprocessorLexer::LexIncludeFilename: one token in another mode.       *)
LexIncludeFilename(t, m, s) ==
    LET r == Lex(t, m, [s EXCEPT !.fname = TRUE])
    IN [r EXCEPT !.s.fname = FALSE]

(* ReadToEndOfLine: the line is not lexed, and ends as a directive.        *)
ReadToEndOfLine(t, m, s) ==
    LET RECURSIVE Read(_)
        Read(p) == LET n == getCharAndSize(t, p)
                   IN IF n.c \in Newline \cup {"nul"} THEN [line |-> <<>>, end |-> n.next - 1]
                      ELSE [Read(n.next) EXCEPT !.line = <<n.c>> \o @]
        read == Read(s.ptr)
    IN [line |-> read.line, lexed |-> Lex(t, m, [s EXCEPT !.ptr = read.end])]

(* All the tokens of a buffer, by a lexer without a preprocessor.          *)
RECURSIVE LexRaw(_, _)
LexRaw(t, s) ==
    LET r == Lex(t, [raw |-> TRUE, retain |-> FALSE, bcpl |-> TRUE], s)
    IN IF r.tok.kind \in {"eof", "fault"} THEN <<>> ELSE <<r.tok>> \o LexRaw(t, r.s)

(* isNextPPTokenLParen: lex one token raw, then restore the position and   *)
(* the mode, but neither atStart nor keep.                                 *)
isNextPPTokenLParen(t, m, s) ==
    LET r == LexTokenInternal(t, [m EXCEPT !.raw = TRUE], [s EXCEPT !.start = FALSE, !.space = FALSE])
    IN [lparen |-> r.tok.kind = "(", s |-> [r.s EXCEPT !.ptr = s.ptr, !.dir = s.dir]]

-----------------------------------------------------------------------------
(* Positions in a token, from numbers of characters.                       *)

isObviouslySimpleCharacter(c) == c \notin {"\\", "?"}

RECURSIVE SkipEscapedNewLines(_, _)
SkipEscapedNewLines(t, p) ==
    LET size == getEscapedNewLineSize(t, p + 1)
    IN IF CharAt(t, p) = "\\" /\ size > 0 THEN SkipEscapedNewLines(t, p + 1 + size) ELSE p

(* The position of character n, from 0, of the token at begin.  At an      *)
(* escaped newline the code forgets how far it has come.                   *)
AdvanceToTokenCharacter(t, begin, n) ==
    LET RECURSIVE Advance(_, _)
        Advance(p, k) == IF k = 0 THEN p ELSE Advance(getCharAndSize(t, p).next, k - 1)
        at == Advance(begin, n)
    IN IF isObviouslySimpleCharacter(CharAt(t, at)) THEN at
       ELSE begin + SkipEscapedNewLines(t, at) - at

(* The length counts the escaped newlines in the token, too.               *)
MeasureTokenLength(t, begin) ==
    LET m == [raw |-> TRUE, retain |-> FALSE, bcpl |-> TRUE]
    IN Lex(t, m, [InitLexer(m) EXCEPT !.ptr = begin]).tok.end - begin

getLocForEndOfToken(t, begin) == AdvanceToTokenCharacter(t, begin, MeasureTokenLength(t, begin))

-----------------------------------------------------------------------------
(* Texts made of the spellings of tokens `ts`.                             *)

Stringify(w) == FlattenSeq([i \in DOMAIN w |-> IF w[i] \in {"\\", "\""} THEN <<"\\", w[i]>> ELSE <<w[i]>>])

LastWithout(w, c) == Max({0} \cup {i \in DOMAIN w : w[i] # c})

(* MacroArgs::StringifyArgument up to the closing quote.                   *)
Stringified(ts) ==
    LET Gap(i) == IF i > 1 /\ (ts[i].space \/ ts[i].start) THEN <<" ">> ELSE <<>>
        Piece(i) == IF ts[i].kind \in {"string_literal", "wide_string_literal", "char_constant"}
                    THEN Stringify(ts[i].spelling) ELSE ts[i].spelling
        all == <<"\"">> \o FlattenSeq([i \in DOMAIN ts |-> Gap(i) \o Piece(i)])
    IN IF (Len(all) - LastWithout(all, "\\")) % 2 = 1 THEN Front(all) ELSE all

(* What # makes of an argument, and #@ with `charify`.                     *)
StringifyArgument(ts, charify) ==
    LET all   == Append(Stringified(ts), "\"")
        chars == <<"'">> \o SubSeq(all, 2, Len(all) - 1) \o <<"'">>
        isBad == IF Len(chars) = 3 THEN chars[2] = "'" ELSE Len(chars) # 4 \/ chars[2] # "\\"
    IN IF ~charify THEN all ELSE IF isBad THEN <<"'", " ", "'">> ELSE chars

(* Tokens up to the first > glued together; without one, nothing.          *)
ConcatenateIncludeName(ts) ==
    LET close == {i \in DOMAIN ts : ts[i].kind = ">"}
        Piece(i) == IF i > 1 /\ ts[i].space THEN <<" ">> \o ts[i].spelling ELSE ts[i].spelling
    IN IF close = {} THEN <<>> ELSE FlattenSeq([i \in 1..Min(close) |-> Piece(i)])

(* The name in the spelling of a header name, empty after an error.        *)
GetIncludeFilenameSpelling(w) ==
    LET isAngled == w[1] = "<"
        ends == IF isAngled THEN {">"} ELSE IF w[1] = "\"" THEN {"\""} ELSE {}
    IN IF Last(w) \in ends /\ Len(w) > 2 THEN [name |-> SubSeq(w, 2, Len(w) - 1), isAngled |-> isAngled]
       ELSE [name |-> <<>>, isAngled |-> TRUE]

(* HandleIncludeDirective: the header name that the tokens of a line give, *)
(* the first of which was lexed as a header name may be.                   *)
IncludeName(ts) ==
    LET glued == ConcatenateIncludeName(ts)
    IN CASE ts[1].kind \in {"angle_string_literal", "string_literal"} -> GetIncludeFilenameSpelling(ts[1].spelling)
         [] ts[1].kind = "<" /\ glued # <<>> -> GetIncludeFilenameSpelling(glued)
         [] OTHER -> [name |-> <<>>, isAngled |-> TRUE]

=============================================================================
