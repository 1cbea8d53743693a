------------------------------- MODULE MCText -------------------------------
(***************************************************************************)
(* From characters to tokens and from tokens to the output.  The lexer     *)
(* reads every short text over several alphabets and is compared with the  *)
(* phases of translation done one after the other: escaped newlines are    *)
(* taken out of the text, comments become white space, and a token is the  *)
(* longest that can be made.  Tokens are printed and lexed again.  The     *)
(* lines of the output are those of PrintPreprocessedOutput.               *)
(***************************************************************************)
EXTENDS PrintPreprocessedOutput, TLC

CONSTANTS MaxText,     \* bound of the model: characters of a text
          MaxComment,  \* bound of the model: characters of a text that begins with a comment
          MaxPeeks,    \* bound of the model: looks ahead for "(" in a text
          MaxWords     \* bound of the model: tokens printed one after the other

VARIABLES
    task,     \* "lex", "concat" or "print"
    text, mode, lexer, toks,
    peeks     \* [at, lparen]: what a look ahead behind a token has found

lvars == <<text, mode, lexer, toks, peeks>>

(* The texts: what can go wrong together is in one alphabet.               *)
Alphabets ==
    { {"\\", " ", "\n", "\r", "a", "*"},
      {"/", "*", "\n", " ", "a", "\\"},
      {"\"", "'", "\\", "a", "L", "\n"},
      {"1", ".", "e", "+", "\\", "\n"},
      {"<", "=", ">", "#", "a", "\n"},
      {"#", "i", "<", ">", "\n", " "},
      {"#", "e", "\\", "a", "\n", " "},
      {"a", "(", "/", "*", "\n", "#"} }

Has(t, chars) == \E i \in DOMAIN t : t[i] \in chars

(* Longer ones that begin with a comment, which may have an escaped        *)
(* newline in its end, and others behind it.                               *)
Openings == {<<"/", "*">>, <<"/", "/">>, <<"#", "/", "/">>}
CommentCharacters == {{"/", "*", "\n", "\\", c} : c \in {" ", "\r"}}

Comments ==
    UNION {{open \o rest : rest \in [1..(MaxComment - Len(open)) -> A]} :
           open \in Openings, A \in CommentCharacters}

Texts == UNION {[1..n -> A] : n \in 1..MaxText, A \in Alphabets} \cup Comments

-----------------------------------------------------------------------------
(* Phase 2: backslash, white space and a newline are taken out.            *)

IsSplice(t, i, k) ==
    LET nl == {j \in (i + 1)..k : t[j] \in Newline}
    IN /\ t[i] = "\\" /\ k \in nl
       /\ \A j \in (i + 1)..k : t[j] \in Horizontal \cup Newline
       /\ \/ nl = {k}
          \/ nl = {k - 1, k} /\ t[k - 1] # t[k]

Spliced(t) ==
    LET Out(j) == \E i \in 1..j, k \in j..Len(t) : IsSplice(t, i, k)
    IN FoldLeft(LAMBDA u, j : IF Out(j) THEN u ELSE Append(u, t[j]), <<>>, [j \in 1..Len(t) |-> j])

-----------------------------------------------------------------------------
(* What is compared: a comment as a whole, and no flags where all ends.    *)
Seen(tok) ==
    [kind     |-> tok.kind,
     spelling |-> IF tok.kind \in {"comment", "eom", "eof"} THEN <<>> ELSE tok.spelling,
     start    |-> tok.kind \notin {"eom", "eof"} /\ tok.start,
     space    |-> tok.kind \notin {"eom", "eof"} /\ tok.space]

Message(line) == [kind |-> "message", spelling |-> line, start |-> FALSE, space |-> FALSE]

-----------------------------------------------------------------------------
(* Phase 3: what is a token of each kind, for a text without splices.      *)

IsIdentifier(w) == w[1] \in Letter \cup {"_"} /\ \A i \in DOMAIN w : w[i] \in IdentifierBody

IsNumber(w) ==
    /\ w[1] \in Digit \/ (Len(w) > 1 /\ w[1] = "." /\ w[2] \in Digit)
    /\ \A i \in 2..Len(w) : \/ w[i] \in NumberBody
                            \/ w[i] \in {"+", "-"} /\ w[i - 1] \in {"e", "E", "p", "P"}

(* A character is escaped by an odd number of backslashes before it.       *)
Escaped(w, i) == \E n \in 1..(i - 1) : /\ n % 2 = 1
                                       /\ \A j \in (i - n)..(i - 1) : w[j] = "\\"
                                       /\ i - n = 1 \/ w[i - n - 1] # "\\"

IsQuoted(w, open, close) ==
    /\ Len(w) > 1 /\ w[1] = open
    /\ \A i \in DOMAIN w : w[i] \notin Newline
    /\ \A i \in 2..Len(w) : (w[i] = close /\ ~Escaped(w, i)) <=> i = Len(w)

IsWide(w, Is(_)) == w[1] = "L" /\ Len(w) > 1 /\ Is(Tail(w))
IsString(w) == IsQuoted(w, "\"", "\"")
IsChar(w)   == IsQuoted(w, "'", "'") /\ Len(w) > 2

Joined(w) == FoldLeft(LAMBDA s, c : s \o c, "", w)

KindOf(w, fname) ==
    CASE IsIdentifier(w) -> "identifier"
      [] IsNumber(w)     -> "numeric_constant"
      [] IsString(w)     -> "string_literal"
      [] IsWide(w, IsString) -> "wide_string_literal"
      [] IsChar(w) \/ IsWide(w, IsChar) -> "char_constant"
      [] fname /\ IsQuoted(w, "<", ">") -> "angle_string_literal"
      [] Len(w) < 4 /\ Joined(w) \in One \cup Two \cup Three -> Joined(w)
      [] OTHER -> "none"

LineEnd(u, i) == FirstNot(u, i, {u[j] : j \in DOMAIN u} \ Newline) - 1

(* The longest token at i.  A literal without an end takes the line, and   *)
(* an empty character constant its two quotes; an open < is less-than.        *)
Longest(u, i, fname) ==
    LET quote == IF u[i] = "L" THEN i + 1 ELSE i
        angle == fname /\ u[i] = "<"
        ends  == {k \in i..LineEnd(u, i) : LET kind == KindOf(SubSeq(u, i, k), fname)
                                           IN kind # "none" /\ (angle => kind \in {"<", "angle_string_literal"})}
        open  == /\ quote <= Len(u) /\ u[quote] \in {"\"", "'"}
                 /\ \A k \in ends : k < quote + 1
        empty == open /\ u[quote] = "'" /\ quote < Len(u) /\ u[quote + 1] = "'"
        end   == CASE empty -> quote + 1 [] open -> LineEnd(u, i) [] ends = {} -> i [] OTHER -> Max(ends)
    IN [kind |-> IF open \/ ends = {} THEN "unknown" ELSE KindOf(SubSeq(u, i, end), fname),
        spelling |-> SubSeq(u, i, end)]

(* The last character of a comment that starts at i, 0 if none does.       *)
CommentEnd(u, i, bcpl) ==
    LET At(j, w) == j + Len(w) - 1 <= Len(u) /\ SubSeq(u, j, j + Len(w) - 1) = w
        ends == {j \in (i + 3)..Len(u) : At(j - 1, <<"*", "/">>)}
    IN CASE At(i, <<"/", "/">>) /\ (bcpl \/ ~At(i, <<"/", "/", "*">>)) -> LineEnd(u, i)
         [] At(i, <<"/", "*">>) -> Min(ends \cup {EndOf(u)})
         [] OTHER -> 0

(* Phase 4 as far as the lexer knows it: a directive ends with its line,   *)
(* and a // comment of a lexer that is not raw enables those that follow.  *)
RECURSIVE RefTokens(_, _, _, _)
RefTokens(u, m, i, c) ==
    LET comment == CommentEnd(u, i, c.bcpl)
        tok     == Longest(u, i, c.dir /\ c.words = <<"#", "i">>)
        isHash  == tok.kind = "#" /\ c.start /\ ~m.raw
        word    == [c EXCEPT !.start = FALSE, !.space = FALSE]
        behind  == [c EXCEPT !.bcpl = @ \/ (u[i + 1] = "/" /\ ~m.raw)]
        Flagged(kind, spelling) == <<Seen([kind |-> kind, spelling |-> spelling, start |-> c.start, space |-> c.space])>>
    IN CASE c.dir /\ c.words = <<"#", "e">> ->
              <<Message(SubSeq(u, i, LineEnd(u, i)))>> \o RefTokens(u, m, LineEnd(u, i) + 1, [c EXCEPT !.words = <<>>])
         [] i > Len(u) -> (IF c.dir THEN Flagged("eom", <<>>) ELSE <<>>) \o Flagged("eof", <<>>)
         [] u[i] \in Newline ->
              (IF c.dir THEN Flagged("eom", <<>>) ELSE <<>>)
                \o RefTokens(u, m, i + 1, [c EXCEPT !.dir = FALSE, !.words = <<>>, !.start = TRUE, !.space = FALSE])
         [] u[i] \in Horizontal -> RefTokens(u, m, i + 1, [c EXCEPT !.space = TRUE])
         [] comment > 0 /\ m.retain /\ ~c.dir /\ (u[i + 1] = "/" \/ comment <= Len(u)) ->
              Flagged("comment", <<>>)
                \o RefTokens(u, m, comment + 1, [behind EXCEPT !.start = FALSE, !.space = FALSE])
         [] comment > 0 -> RefTokens(u, m, comment + 1, [behind EXCEPT !.space = TRUE])
         [] OTHER -> Flagged(tok.kind, tok.spelling)
                \o RefTokens(u, m, i + Len(tok.spelling),
                     IF isHash THEN [word EXCEPT !.dir = TRUE, !.words = <<"#">>]
                     ELSE [word EXCEPT !.words = Append(@, IF Len(tok.spelling) = 1 THEN tok.spelling[1] ELSE "")])

Reference ==
    RefTokens(Spliced(text), mode, 1,
              [dir |-> FALSE, words |-> <<>>, start |-> TRUE, space |-> FALSE, bcpl |-> mode.bcpl])

-----------------------------------------------------------------------------
(* The lexer reads the text.                                               *)

Finished == toks # <<>> /\ Last(toks).kind \in {"eof", "fault"}

(* The directives #i for #include and #e for #error.                       *)
IsDirective(name) ==
    LET n == Len(toks)
    IN lexer.dir /\ n > 1 /\ toks[n].spelling = <<name>> /\ toks[n - 1].kind = "#" /\ toks[n - 1].start

LexToken ==
    LET r == IF IsDirective("i") THEN LexIncludeFilename(text, mode, lexer) ELSE Lex(text, mode, lexer)
    IN /\ task = "lex" /\ ~Finished /\ ~IsDirective("e")
       /\ toks' = Append(toks, Seen(r.tok))
       /\ lexer' = r.s
       /\ UNCHANGED <<task, text, mode, peeks>>

LexMessage ==
    LET r == ReadToEndOfLine(text, mode, lexer)
    IN /\ task = "lex" /\ ~Finished /\ IsDirective("e")
       /\ toks' = toks \o <<Message(r.line), Seen(r.lexed.tok)>>
       /\ lexer' = r.lexed.s
       /\ UNCHANGED <<task, text, mode, peeks>>

Peek ==
    LET r == isNextPPTokenLParen(text, mode, lexer)
    IN /\ task = "lex" /\ ~Finished /\ toks # <<>> /\ Last(toks).kind = "identifier"
       /\ Cardinality(peeks) < MaxPeeks /\ ~mode.retain
       /\ \A p \in peeks : p.at # Len(toks)
       /\ peeks' = peeks \cup {[at |-> Len(toks), lparen |-> r.lparen]}
       /\ lexer' = r.s
       /\ UNCHANGED <<task, text, mode, toks>>

-----------------------------------------------------------------------------
(* Words are printed one after the other, some of them made by macros and  *)
(* some taken from where they stood next to each other.                    *)

Words == {"a", "L", "_", "1", ".", "...", "+", "++", "+=", "-", "->", "&", "|", "/", "*", "<", "<<",
          "<=", ">", ">>", ">=", "=", "==", "!", "%", ":", "#", "##", "^", "1e", ".1", "\"a\"",
          "'a'", "L'a'", "L\"a\"", "("}
Spelled(word) ==
    CASE word = "..." -> <<".", ".", ".">> [] word = "++" -> <<"+", "+">> [] word = "+=" -> <<"+", "=">>
      [] word = "->" -> <<"-", ">">> [] word = "<<" -> <<"<", "<">> [] word = "<=" -> <<"<", "=">>
      [] word = ">>" -> <<">", ">">> [] word = ">=" -> <<">", "=">> [] word = "==" -> <<"=", "=">>
      [] word = "##" -> <<"#", "#">> [] word = "1e" -> <<"1", "e">> [] word = ".1" -> <<".", "1">>
      [] word = "\"a\"" -> <<"\"", "a", "\"">> [] word = "'a'" -> <<"'", "a", "'">>
      [] word = "L'a'" -> <<"L", "'", "a", "'">> [] word = "L\"a\"" -> <<"L", "\"", "a", "\"">>
      [] OTHER -> <<word>>

Plain(ts) == [i \in DOMAIN ts |-> [kind |-> ts[i].kind, spelling |-> ts[i].spelling]]
RawTokens(t) == LexRaw(t, InitLexer([raw |-> TRUE, retain |-> FALSE, bcpl |-> TRUE]))

(* Pairs that AvoidConcat is known to let pass, see the README.            *)
LetsPass(prev, tok) ==
    \/ prev.kind = ">>" /\ tok.spelling[1] = "="
    \/ prev.kind = "numeric_constant" /\ tok.spelling[1] = "_"

Placed(tok, file, begin) == [kind |-> tok.kind, spelling |-> tok.spelling, file |-> file,
                             begin |-> begin, end |-> begin + Len(tok.spelling)]

(* text is what is printed of the tokens so far, lexer the last of them,   *)
(* and mode the tokens that stood with it in the source without a space.   *)
PrintNext(word, adjacent, tok, run) ==
    LET joins == toks # <<>> /\ AvoidConcat(lexer, tok)
    IN /\ adjacent => Plain(RawTokens(FlattenSeq([i \in DOMAIN run |-> run[i].spelling]))) = run
       /\ toks' = Append(toks, Plain(<<tok>>)[1])
       /\ text' = text \o (IF joins THEN <<" ">> ELSE <<>>) \o Spelled(word)
       /\ lexer' = tok
       /\ mode' = run
       /\ UNCHANGED <<task, peeks>>

PrintOne(word, adjacent) ==
    /\ task = "concat" /\ Len(toks) < MaxWords
    /\ adjacent => toks # <<>> /\ lexer.file # 0
    /\ \E raw \in {RawTokens(Spelled(word))[1]} :
         LET place == IF adjacent THEN <<lexer.file, lexer.end>>
                      ELSE IF toks = <<>> THEN <<1, 1>> ELSE <<0, 0>>
             before == IF adjacent THEN mode ELSE <<>>
         IN /\ Len(Spelled(word)) = Len(raw.spelling)
            /\ \E tok \in {Placed(raw, place[1], place[2])} :
                 PrintNext(word, adjacent, tok, before \o Plain(<<tok>>))

-----------------------------------------------------------------------------
Modes == {[raw |-> TRUE,  retain |-> FALSE, bcpl |-> TRUE], [raw |-> FALSE, retain |-> FALSE, bcpl |-> TRUE],
          [raw |-> FALSE, retain |-> FALSE, bcpl |-> FALSE], [raw |-> FALSE, retain |-> TRUE, bcpl |-> TRUE]}

(* Without a slash there are no comments to be told apart.                 *)
LexInit ==
    /\ text \in Texts /\ mode \in Modes /\ lexer = InitLexer(mode)
    /\ Has(text, {"/"}) \/ (mode.bcpl /\ ~mode.retain)
Nothing == text = <<>> /\ mode = <<>> /\ lexer = <<>>

Init == /\ toks = <<>> /\ peeks = {}
        /\ PInit
        /\ \/ task = "lex" /\ LexInit /\ ~DisableLineMarkers
           \/ task = "concat" /\ Nothing /\ ~DisableLineMarkers
           \/ task = "print" /\ Nothing

Next == \/ LexToken /\ UNCHANGED pvars
        \/ LexMessage /\ UNCHANGED pvars
        \/ Peek /\ UNCHANGED pvars
        \/ \E word \in Words, adjacent \in BOOLEAN : PrintOne(word, adjacent) /\ UNCHANGED pvars
        \/ task = "print" /\ PNext /\ UNCHANGED <<task, lvars>>

Spec == Init /\ [][Next]_<<task, lvars, pvars>>

-----------------------------------------------------------------------------
(* Texts the lexer is known to read in another way, see the README: in a   *)
(* literal an escaped newline before a newline, a quote, a backslash or    *)
(* the end; a backslash at the end; three backslashes behind a quote; and  *)
(* two escaped newlines between the star and the slash of a comment's end. *)
OrdinarySplices(t) ==
    \A i \in DOMAIN t : t[i] = "\\" =>
        LET size == getEscapedNewLineSize(t, i + 1)
        IN CharAt(t, i + 1 + size) \notin {"nul"} \cup (IF size > 0 THEN Newline \cup {"'", "\\"} ELSE {})

ThreeBackslashes(t) == \E i \in 1..(Len(t) - 2) : \A j \in i..(i + 2) : t[j] = "\\"

TwiceSplit(t) ==
    \E i \in 1..(Len(t) - 2) :
        LET next == i + 2 + getEscapedNewLineSize(t, i + 2)
        IN /\ t[i] = "*" /\ t[i + 1] = "\\" /\ CharAt(t, next) = "\\"
           /\ getCharAndSize(t, i + 1).c = "/"

Ordinary(t) == /\ Has(t, {"\"", "'", "<"}) => OrdinarySplices(t)
               /\ Has(t, {"'"}) => ~ThreeBackslashes(t)
               /\ Has(t, {"/"}) => ~TwiceSplit(t)

-----------------------------------------------------------------------------
(* What else is made of the tokens of a line, read raw.                    *)

SingleSpaces(t) == /\ ~Has(t, Newline)
                   /\ \A i \in 2..Len(t) : ~(t[i - 1] = " " /\ t[i] = " ")
Raw == task = "lex" /\ toks = <<>> /\ mode.raw

(* A quote that closes nothing can be put into no literal, nor a backslash *)
(* in front of one.                                                        *)
Stringifiable(ts) ==
    \A i \in DOMAIN ts : ts[i].kind = "unknown" =>
        /\ ts[i].spelling = <<"\\">>
        /\ i < Len(ts) => ts[i + 1].spelling[1] \notin {"\"", "L"}

IsOneToken(w, kind) == Plain(RawTokens(w)) = <<[kind |-> kind, spelling |-> w]>>

(* The literals that # and #@ make are read back as one literal each.      *)
LiteralsRelex(ts) ==
    Stringifiable(ts) =>
        \A charify \in BOOLEAN :
            IsOneToken(StringifyArgument(ts, charify), IF charify THEN "char_constant" ELSE "string_literal")

(* A header name is the same in one token and glued out of several, where  *)
(* no token reaches over its end and no space is doubled.                  *)
HeaderNamesAgree(ts, whole) ==
    LET close == {i \in DOMAIN ts : Contains(ts[i].spelling, ">")}
    IN SingleSpaces(text) /\ whole.kind = "angle_string_literal" /\ close # {}
         /\ ts[1].kind = "<" /\ ts[Min(close)].kind = ">"
         => IncludeName(ts) = IncludeName(<<whole>>)

(* A character of a token is found behind the escaped newlines before it,  *)
(* and so is the end of a token without one.  What stands at a backslash   *)
(* is known to be sought at the wrong place.                               *)
CharactersAreFound ==
    Raw /\ Ordinary(text) => \A tok \in ToSet(RawTokens(text)) :
        /\ Contains(SubSeq(text, tok.begin, tok.end - 1) \o <<CharAt(text, tok.end)>>, "\\")
             \/ getLocForEndOfToken(text, tok.begin) = tok.end
        /\ \A n \in 0..(Len(tok.spelling) - 1) :
            LET at == AdvanceToTokenCharacter(text, tok.begin, n)
            IN \/ /\ CharAt(text, at) = tok.spelling[n + 1]
                  /\ getSpelling(text, tok.begin, at + 1) = SubSeq(tok.spelling, 1, n + 1)
               \/ n > 0 /\ \E p \in tok.begin..tok.end : /\ CharAt(text, p) = "\\"
                                                          /\ Len(getSpelling(text, tok.begin, p)) = n

(* A look ahead for "(" is right about the next token.  A lexer that       *)
(* retains comments takes one for the next token.                          *)
PeeksAreRight == \A p \in peeks : p.lparen <=> toks[p.at + 1].kind = "("

(* The tokens of a text are those that the phases of translation give,     *)
(* with the flags of the first token on a line and of white space before,  *)
(* however escaped newlines, comments, literals and directives meet, and   *)
(* however often the lexer has looked ahead; and a character of a token is *)
(* found again where it stands in the text.                                *)
TokensAreRight ==
    /\ task = "lex" /\ Finished /\ Ordinary(text) => toks = Reference /\ PeeksAreRight
    /\ CharactersAreFound

(* What was printed is lexed as the tokens that were printed: AvoidConcat  *)
(* asks for a space wherever two of them would become others.  The         *)
(* literals of # and #@ are read back as one token, too, and a header name *)
(* out of a macro is the one that would have been read in the file.        *)
PrintedTokensRelex ==
    /\ task = "concat" /\ (\A i \in 2..Len(toks) : ~LetsPass(toks[i - 1], toks[i]))
         => Plain(RawTokens(text)) = toks
    /\ Raw => /\ LiteralsRelex(RawTokens(text))
              /\ HeaderNamesAgree(RawTokens(text), LexIncludeFilename(text, mode, lexer).tok)

(* With or without markers, the flagged tokens of a file, its definitions *)
(* and line comments that are on one row of the output are of one line, so *)
(* that directives and line comments of the output end where they did.     *)
RowsOfOneLine ==
    \A x, y \in reader.row : x.file = y.file => x.line = y.line

(* With line markers, a reader of the output is told the right file of     *)
(* every token that is flagged as the first of a line, and of every macro  *)
(* definition, and the right line as long as no marker has renumbered the  *)
(* lines, however files and presumed files are entered and left; and lines *)
(* of a file that the source keeps apart stay apart.                       *)
LinesAreRight ==
    /\ ~DisableLineMarkers /\ last.atStart =>
         /\ reader.file = Here.name
         /\ Here.shift = 0 => reader.line = Here.line
    /\ RowsOfOneLine

=============================================================================
