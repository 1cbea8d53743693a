--------------------------- MODULE MCExpressions ---------------------------
(***************************************************************************)
(* Numbers, strings and conditions of every small shape, written piece by  *)
(* piece; whatever has been written is read by the code and by a reference *)
(* taken from the grammar of C99, and the two are compared.                *)
(***************************************************************************)
EXTENDS PPExpr

CONSTANTS Shapes   \* the pieces that may be written, by the kind of text and the place

VARIABLES
    kind,     \* what is being written
    pieces,   \* how many pieces there are
    text      \* the characters of a literal, or the tokens of a condition

vars == <<kind, pieces, text>>

-----------------------------------------------------------------------------
(* The texts.  A number starts with a digit and goes on as a pp-number.    *)

NumberChars == {"0", "1", "8", "x", "b", ".", "e", "p", "+", "u", "l", "L", "f", "i"}
LongDigits  == {"0", "1", "6", "9", "x", "a", "u"}

MCCodeOf == [c \in HexDigits \cup {"n", "x", "u", "U", "\\", "\"", "'", "?"} |->
                CASE c \in HexDigits -> 48 + HexDigitValue(c) [] c = "n" -> 110
                  [] c = "x" -> 120 [] c = "u" -> 117 [] c = "U" -> 85
                  [] c = "\\" -> 92 [] c = "\"" -> 34 [] c = "'" -> 39 [] OTHER -> 63]

CodePoints == {36, 159, 160, 2047, 2048, 55295, 55296, 57343, 57344, 65535}

HexText(u, len) ==
    LET digit == [d \in 0..15 |-> CHOOSE c \in HexDigits \ {"A", "B", "C", "D", "E", "F"} :
                                    HexDigitValue(c) = d]
    IN [k \in 1..len |-> digit[(u \div 16^(len - k)) % 16]]

LongCodePoints == {65536, 1114111, 1114112}
StringPieces == {<<c>> : c \in {"a", "1", "n", "?"}}
                \cup {<<"\\", c>> : c \in {"n", "\\", "\"", "1", "7", "?", "'"}}
                \cup {<<"\\", "x", c>> : c \in {"0", "f"}}
UCNPieces == {<<"\\", "u">> \o HexText(u, 4) : u \in CodePoints}
             \cup {<<"\\", "U">> \o HexText(u, 8) : u \in CodePoints \cup LongCodePoints}

Tok(k) == [k |-> k, t |-> <<>>]
Num(t) == [k |-> "num", t |-> t]
Id(name) == [k |-> "id", t |-> <<name>>]

One   == <<Num(<<"1">>)>>
Nil   == <<Num(<<"0">>)>>
Two   == <<Num(<<"2">>)>>
Minus1 == <<Tok("-"), Num(<<"1">>)>>
UOne  == <<Num(<<"1", "u">>)>>

(* With Width = 6 the integers are -32 .. 31, and 0 .. 63 unsigned.        *)
Operands == {One, Nil, Two, Minus1, UOne, <<Num(<<"7">>)>>,
             <<Num(<<"3", "1">>)>>, <<Num(<<"3", "2">>)>>, <<Num(<<"6", "4">>)>>,
             <<Num(<<"0", "x", "2", "0">>)>>, <<Id("Y")>>,
             <<Tok("("), Tok("-"), Num(<<"3", "1">>), Tok("-"), Num(<<"1">>), Tok(")")>>,
             <<Tok("~"), Num(<<"3">>)>>, <<Tok("!"), Id("defined"), Id("X")>>}
FewOperands == {Nil, Two, Minus1, UOne}
BinaryOperators == {"*", "/", "%", "+", "-", "<<", ">>", "<", "<=", ">", ">=", "==", "!=",
                    "&", "^", "|", "&&", "||", ","}
AllOperators == {<<Tok(k)>> : k \in BinaryOperators \cup {"?", ":"}}
OnePerLevel  == {<<Tok(k)>> : k \in {"/", "-", "<<", "<", "==", "&", "|", "&&", "||", "?", ":"}}
Soup == {<<Tok(k)>> : k \in {"(", ")", "!", "-", "?", ":", ",", "&&", "/", "#"}}
        \cup {One, Nil, <<Id("X")>>, <<Id("defined")>>}

DefinedX == {<<Id("defined"), Id("X")>>, <<Id("defined"), Tok("("), Id("X"), Tok(")")>>}
DefinedY == <<Id("defined"), Id("Y")>>

MCShapes ==
  [number  |-> <<{<<"0">>, <<"1">>, <<"8">>}>> \o [i \in 1..4 |-> {<<c>> : c \in NumberChars}],
   digits  |-> <<{<<"0">>, <<"1">>, <<"6">>}>> \o [i \in 1..5 |-> {<<c>> : c \in LongDigits}],
   char    |-> <<{<<"a">>, <<"\\", "n">>, <<"\\", "x", "f", "f">>}>>,
   string  |-> [i \in 1..4 |-> StringPieces],
   ucn     |-> <<UCNPieces, {<<"a">>, <<"\\", "x">>, <<"\\", "u", "0">>}>>,
   binary  |-> <<Operands, AllOperators, Operands>>,
   chain   |-> <<FewOperands, AllOperators, FewOperands, AllOperators, FewOperands>>,
   levels  |-> <<{Nil, Two}, OnePerLevel, {Nil, UOne}, OnePerLevel, {Nil, Two}, OnePerLevel,
                 {Minus1}>>,
   parens  |-> <<{Nil, One}, {<<Tok("&&")>>, <<Tok("?")>>, <<Tok("||")>>, <<Tok("-")>>},
                 {<<Tok("(")>>, <<Tok("-"), Tok("(")>>}, {Nil, UOne},
                 {<<Tok(",")>>, <<Tok("/")>>, <<Tok("?")>>}, {Nil, <<Id("Y")>>},
                 {<<Tok(")")>>, <<Tok(":")>>}, {<<Tok(":")>>, <<Tok("-")>>, <<Tok(")")>>},
                 {Two, <<Tok(")")>>}>>,
   guards  |-> <<{<<>>, <<Tok("!")>>, <<Tok("~")>>, <<Tok("-")>>, <<Tok("!"), Tok("!")>>},
                 {<<>>, <<Tok("(")>>}, {<<>>, <<Tok("!")>>, <<Tok("~")>>}, DefinedX,
                 {<<>>} \cup {<<Tok(k)>> : k \in {"&&", "||", "==", ")"}},
                 {<<>>, DefinedY, <<Tok("!")>> \o DefinedY}, {<<>>, <<Tok(")")>>},
                 {<<>>, <<Tok("&&")>> \o DefinedY, <<Tok("?"), Id("Y"), Tok(":")>> \o One}>>,
   soup    |-> [i \in 1..4 |-> Soup]]

Numbers    == {"number", "digits"}
Strings    == {"string", "ucn"}
Conditions == {"binary", "chain", "levels", "parens", "guards", "soup"}

-----------------------------------------------------------------------------
Init == kind = "" /\ pieces = 0 /\ text = <<>>

(* Lexer::isObviouslySimpleCharacter and LexNumericConstant: a sign goes   *)
(* on a number only after an exponent's letter.                            *)
OnePPNumber(t) == \A i \in 2..Len(t) : t[i] = "+" => t[i - 1] \in {"e", "p"}

Begin ==
    /\ kind = ""
    /\ kind' \in DOMAIN Shapes
    /\ UNCHANGED <<pieces, text>>

Write ==
    /\ kind # ""
    /\ pieces < Len(Shapes[kind])
    /\ \E piece \in Shapes[kind][pieces + 1] : text' = text \o piece
    /\ kind \in Numbers => OnePPNumber(text')
    /\ pieces' = pieces + 1
    /\ UNCHANGED kind

Next == Begin \/ Write
Spec == Init /\ [][Next]_vars

-----------------------------------------------------------------------------
(* C99 6.4.4: the constants, as a grammar.                                 *)

IsAll(s, set) == \A i \in DOMAIN s : s[i] \in set
Radices == {[radix |-> 2, prefix |-> {<<"0", "b">>}, digits |-> {"0", "1"}],
            [radix |-> 8, prefix |-> {<<"0">>}, digits |-> OctalDigits],
            [radix |-> 10, prefix |-> {<<>>}, digits |-> Digits],
            [radix |-> 16, prefix |-> {<<"0", "x">>}, digits |-> HexDigits]}

(* Suffixes: some parts, each at most once, in any order.                  *)
Orders(parts) == {FlattenSeq(p) : p \in SetToAllKPermutations(parts)} \cup {<<>>}
IntegerSuffixes == Orders({<<"u">>, <<"l">>, <<"i">>}) \cup Orders({<<"u">>, <<"L">>, <<"i">>})
                   \cup Orders({<<"u">>, <<"l", "l">>, <<"i">>})
                   \cup Orders({<<"u">>, <<"L", "L">>, <<"i">>})
FloatSuffixes   == Orders({<<"f">>, <<"i">>}) \cup Orders({<<"l">>, <<"i">>})
                   \cup Orders({<<"L">>, <<"i">>})

Value(digits, radix) ==
    FoldLeft(LAMBDA acc, c : acc * radix + HexDigitValue(c), 0, digits)

Cut(t, n, m) == <<SubSeq(t, 1, n), SubSeq(t, n + 1, m), SubSeq(t, m + 1, Len(t))>>
Cuts(t) == {Cut(t, n, m) : n \in 0..Min({2, Len(t)}), m \in 0..Len(t)}

(* [radix, value, suffix] of the integer that is spelt, if any.            *)
IntegerReadings(t) ==
    {[radix |-> r.radix, val |-> Value(c[2], r.radix), suffix |-> c[3]] :
        <<r, c>> \in {rc \in Radices \X Cuts(t) :
            LET r == rc[1] c == rc[2]
            IN /\ c[1] \in r.prefix /\ IsAll(c[2], r.digits) /\ c[3] \in IntegerSuffixes
               /\ Len(c[1]) + Len(c[2]) + Len(c[3]) = Len(t)
               /\ r.radix # 8 => Len(c[2]) > 0
               /\ r.radix = 10 => t[1] # "0"}}

Exponent(s, letter) ==
    /\ Len(s) > 1 /\ s[1] = letter
    /\ \/ IsAll(Tail(s), Digits)
       \/ s[2] = "+" /\ Len(s) > 2 /\ IsAll(SubSeq(s, 3, Len(s)), Digits)

Significand(s, digits) == IsAll(SelectSeq(s, LAMBDA c : c # "."), digits)
                          /\ Cardinality({i \in DOMAIN s : s[i] = "."}) <= 1
                          /\ \E i \in DOMAIN s : s[i] # "."

IsFloating(t) ==
    \E n \in 1..Len(t), m \in 1..Len(t) :
        LET parts == Cut(t, n, m)
            hex   == Len(t) > 2 /\ t[1] = "0" /\ t[2] = "x"
            whole == IF hex THEN SubSeq(t, 3, n) ELSE parts[1]
        IN /\ n <= m /\ parts[3] \in FloatSuffixes
           /\ IF hex THEN Significand(whole, HexDigits) /\ Exponent(parts[2], "p")
              ELSE /\ Significand(whole, Digits)
                   /\ \/ Exponent(parts[2], "e")
                      \/ parts[2] = <<>> /\ Contains(whole, ".")

(* Not in the grammar, and read by the code all the same.                  *)
Digitless(t) ==
    \/ Len(t) > 1 /\ t[1] = "0" /\ t[2] = "b" /\ At(t, 3) \notin {"0", "1"}
    \/ Len(t) > 3 /\ SubSeq(t, 1, 3) = <<"0", "x", ".">> /\ t[4] \notin HexDigits

(* A line number that fits is read as it is, and 0 and what is no digit    *)
(* sequence are errors.  Of the larger ones many are let pass, cut off.    *)
LineValueIsRight(t, bits) ==
    LET read == GetLineValue(t, bits)
        val  == Value(t, 10)
    IN IF ~IsAll(t, Digits) THEN read.hadError
       ELSE /\ val \in 1..(2^bits - 1) => ~read.hadError
            /\ ~read.hadError => val > 0 /\ read.val = val % 2^bits

(* NumericLiteralParser accepts what the grammar accepts, as an integer or *)
(* as a floating constant, and GetIntegerValue finds the value and whether *)
(* it fits, on the fast path and digit by digit; GetLineValue reads its    *)
(* own numbers.                                                            *)
NumberIsRight ==
  /\ kind \in Numbers /\ text # <<>> => LineValueIsRight(text, Width)
  /\ (kind \in Numbers /\ text # <<>> /\ ~Digitless(text)) =>
        LET lit      == NumericLiteralParser(text)
            read     == GetIntegerValue(text, lit, Width)
            readings == IntegerReadings(text)
        IN CASE lit.hadError           -> readings = {} /\ ~IsFloating(text)
             [] IsFloatingLiteral(lit) -> readings = {} /\ IsFloating(text)
             [] OTHER -> \E r \in readings :
                           /\ r.radix = lit.radix
                           /\ read = [val |-> r.val % 2^Width, overflow |-> r.val >= 2^Width]
                           /\ lit.isUnsigned = Contains(r.suffix, "u")
                           /\ lit.isImaginary = Contains(r.suffix, "i")
                           /\ lit.isLongLong = \E L \in {"l", "L"} :
                                 Cardinality({i \in DOMAIN r.suffix : r.suffix[i] = L}) = 2

-----------------------------------------------------------------------------
(* C99 6.4.5: a string is cut into characters and escapes, each as long as *)
(* it can be.                                                              *)

Simple == {"'", "\"", "?", "\\", "a", "b", "f", "n", "r", "t", "v", "e"}

IsUnit(s) ==
    \/ Len(s) = 1 /\ s[1] # "\\"
    \/ /\ Len(s) > 1 /\ s[1] = "\\"
       /\ LET rest == SubSeq(s, 3, Len(s))
          IN \/ s[2] \in Simple /\ Len(s) = 2
             \/ s[2] = "x" /\ Len(s) > 2 /\ IsAll(rest, HexDigits)
             \/ s[2] \in OctalDigits /\ Len(s) <= 4 /\ IsAll(rest, OctalDigits)
             \/ s[2] = "u" /\ Len(s) = 6 /\ IsAll(rest, HexDigits)
             \/ s[2] = "U" /\ Len(s) = 10 /\ IsAll(rest, HexDigits)

(* The ends of the characters of a body; <<>> when it has no reading.      *)
RECURSIVE Units(_)
Units(body) ==
    LET heads == {n \in 1..Len(body) : IsUnit(SubSeq(body, 1, n))}
    IN IF body = <<>> \/ heads = {} THEN <<>>
       ELSE <<SubSeq(body, 1, Max(heads))>>
            \o Units(SubSeq(body, Max(heads) + 1, Len(body)))

(* A code point from its bytes, 0 when they are not its shortest form.     *)
CodePointOf(bytes) ==
    LET n     == Len(bytes)
        tails == FoldLeft(LAMBDA acc, b : acc * 64 + (b - 128), 0, Tail(bytes))
        u     == CASE n = 1 -> bytes[1] [] n = 2 -> (bytes[1] - 192) * 64 + tails
                   [] n = 3 -> (bytes[1] - 224) * 4096 + tails
                   [] OTHER -> (bytes[1] - 240) * 262144 + tails
        least == <<0, 128, 2048, 65536>>
    IN IF u >= least[n] /\ \A i \in 2..n : bytes[i] \in 128..191 THEN u ELSE 0

IsUCN(unit) == Len(unit) > 1 /\ unit[2] \in {"u", "U"}
Legal(u) == /\ u >= 160 \/ u \in {36, 64, 96}
            /\ u \notin 55296..57343 /\ u <= 1114111

(* The bytes of one character of the string.                               *)
Means(unit, bytes) ==
    CASE IsUCN(unit) -> CodePointOf(bytes) = Value(SubSeq(unit, 3, Len(unit)), 16)
      [] Len(unit) = 1 -> bytes = <<CodeOf[unit[1]]>>
      [] unit[2] = "x" -> bytes = <<Value(SubSeq(unit, 3, Len(unit)), 16) % 2^CharBits>>
      [] unit[2] \in OctalDigits -> bytes = <<Value(Tail(unit), 8) % 2^CharBits>>
      [] OTHER -> bytes = <<CASE unit[2] = "n" -> 10 [] unit[2] \in Simple -> CodeOf[unit[2]]>>

ByteCount(unit) ==
    IF ~IsUCN(unit) THEN 1
    ELSE LET u == Value(SubSeq(unit, 3, Len(unit)), 16)
         IN CASE u < 128 -> 1 [] u < 2048 -> 2 [] u < 65536 -> 3 [] OTHER -> 4

(* StringLiteralParser: each character of a string has its bytes there, in *)
(* UTF-8 when it is a universal character name, an error is found when and *)
(* only when the string has no reading, and without universal names        *)
(* getOffsetOfStringByte finds the character each byte comes from.         *)
StringIsRight ==
    (kind \in Strings /\ text # <<>>) =>
        LET quoted == <<"\"">> \o text \o <<"\"">>
            units  == Units(text)
            whole  == FlattenSeq(units) = text
            legal  == \A i \in DOMAIN units :
                        IsUCN(units[i]) => Legal(Value(SubSeq(units[i], 3, Len(units[i])), 16))
            lit    == StringLiteralParser(quoted)
            sizes  == [i \in 1..Len(units) |-> ByteCount(units[i])]
            before(i) == FoldLeft(LAMBDA a, b : a + b, 0, SubSeq(sizes, 1, i - 1))
            start(i)  == Len(FlattenSeq(SubSeq(units, 1, i - 1))) + 1
        IN /\ lit.hadError = ~(whole /\ legal)
           /\ ~lit.hadError =>
                /\ Len(lit.bytes) = before(Len(units) + 1)
                /\ \A i \in DOMAIN units :
                     Means(units[i], SubSeq(lit.bytes, before(i) + 1, before(i) + sizes[i]))
                /\ (\A i \in DOMAIN units : ~IsUCN(units[i])) =>
                     \A i \in 1..Len(units) : GetOffsetOfStringByte(quoted, i - 1) = start(i)

(* "If this is a single narrow character, sign extend it (e.g. '\xFF' is  *)
(* "-1")": the value of a character constant is the code of its character. *)
CharConstantIsItsCode ==
    (kind = "char" /\ text # <<>>) =>
        LET byte == StringLiteralParser(<<"\"">> \o text \o <<"\"">>).bytes[1]
        IN CharLiteralParser(<<Quote>> \o text \o <<Quote>>).val
             = IF byte < 2^(CharBits - 1) THEN byte ELSE byte - 2^CharBits

-----------------------------------------------------------------------------
(* C99 6.6 and 6.10.1: a condition is cut at its loosest operator, and     *)
(* computed with integers that do not wrap.  A meaning is [ok, val, uns,   *)
(* warns]: `val` is the integer, in the range of its type.                 *)

MCDefs == {<<"X">>}

InRange(x, uns) == IF uns THEN x \in 0..(2^Width - 1) ELSE x \in (-(2^(Width - 1)))..(2^(Width - 1) - 1)
Wrap(x, uns) == LET m == x % 2^Width
                IN IF uns \/ m < 2^(Width - 1) THEN m ELSE m - 2^Width

None == [ok |-> FALSE, val |-> 0, uns |-> FALSE, warns |-> {}]
Meaning(x, uns, warns, at) ==
    [ok |-> TRUE, val |-> Wrap(x, uns), uns |-> uns,
     warns |-> warns \cup IF uns \/ InRange(x, uns) THEN {} ELSE {<<"overflow", at>>}]

Depth(i, j) == Cardinality({p \in i..j : text[p].k = "("}) - Cardinality({p \in i..j : text[p].k = ")"})
AtTop(i, j) == {p \in i..j : Depth(i, p - 1) = 0}
EndsOperand(p) == text[p].k \in {"num", ")"} \/ text[p].k = "id"

Level(k) == CASE k \in {"*", "/", "%"} -> 10 [] k \in {"+", "-"} -> 9 [] k \in {"<<", ">>"} -> 8
              [] k \in {"<", "<=", ">", ">="} -> 7 [] k \in {"==", "!="} -> 6 [] k = "&" -> 5
              [] k = "^" -> 4 [] k = "|" -> 3 [] k = "&&" -> 2 [] k = "||" -> 1 [] OTHER -> 0

Operators(i, j) == {p \in AtTop(i, j) : p > i /\ Level(text[p].k) > 0 /\ EndsOperand(p - 1)}
Loosest(i, j) ==
    LET ops == Operators(i, j)
        low == Min({Level(text[p].k) : p \in ops})
    IN Max({p \in ops : Level(text[p].k) = low})

(* Division truncates towards zero.                                        *)
Magnitude(x) == IF x < 0 THEN -x ELSE x
Quotient(x, y) == LET q == Magnitude(x) \div Magnitude(y) IN IF (x < 0) # (y < 0) THEN -q ELSE q

Bit(x, b) == ((x % 2^Width) \div 2^b) % 2
Bits(test(_, _), x, y) == MapThenSumSet(LAMBDA b : IF test(Bit(x, b), Bit(y, b)) THEN 2^b ELSE 0,
                                        0..(Width - 1))

Shifted(op, l, n) ==
    IF op = "<<" THEN IF n >= Width THEN l.val * 2^(Width - 1) ELSE l.val * 2^n
    ELSE IF n >= Width THEN l.val \div 2^(Width - 1) ELSE l.val \div 2^n

(* A shift by more than the width is warned of, and done by one less.      *)
Shift(op, l, r, warns, at) ==
    LET exact == Shifted(op, l, r.val)
        lost  == r.val >= Width \/ (~l.uns /\ ~InRange(exact, FALSE))
    IN [ok |-> TRUE, val |-> Wrap(exact, l.uns), uns |-> l.uns,
        warns |-> warns \cup IF lost THEN {<<"overflow", at>>} ELSE {}]

(* The operands after the usual arithmetic conversions.                    *)
Arithmetic(op, l, r, live, warns, at) ==
    LET uns == l.uns \/ r.uns
        x   == Wrap(l.val, uns)
        y   == Wrap(r.val, uns)
        all == warns \cup (IF live /\ x # l.val THEN {<<"convert_lhs", at>>} ELSE {})
                     \cup (IF live /\ y # r.val THEN {<<"convert_rhs", at>>} ELSE {})
        truth(b) == Meaning(IF b THEN 1 ELSE 0, FALSE, all, at)
    IN CASE op \in {"/", "%"} /\ y = 0 -> [None EXCEPT !.ok = ~live, !.uns = uns, !.warns = all]
         [] op = "*"  -> Meaning(x * y, uns, all, at)
         [] op = "/"  -> Meaning(Quotient(x, y), uns, all, at)
         [] op = "%"  -> Meaning(x - y * Quotient(x, y), uns, all, at)
         [] op = "+"  -> Meaning(x + y, uns, all, at)
         [] op = "-"  -> Meaning(x - y, uns, all, at)
         [] op = "<"  -> truth(x < y)
         [] op = "<=" -> truth(x <= y)
         [] op = ">"  -> truth(x > y)
         [] op = ">=" -> truth(x >= y)
         [] op = "==" -> truth(x = y)
         [] op = "!=" -> truth(x # y)
         [] op = "&"  -> Meaning(Wrap(Bits(LAMBDA a, b : a + b = 2, x, y), uns), uns, all, at)
         [] op = "|"  -> Meaning(Wrap(Bits(LAMBDA a, b : a + b > 0, x, y), uns), uns, all, at)
         [] op = "^"  -> Meaning(Wrap(Bits(LAMBDA a, b : a # b, x, y), uns), uns, all, at)

RECURSIVE Comma(_, _, _), Conditional(_, _, _), Operation(_, _, _), Unary(_, _, _)

Quiet(m, live) == IF live THEN m ELSE [m EXCEPT !.warns = {}]

CombineOperands(p, l, r, live) ==
    LET op    == text[p].k
        warns == l.warns \cup r.warns
        truth(b) == Meaning(IF b THEN 1 ELSE 0, FALSE, warns, p)
    IN CASE ~(l.ok /\ r.ok) -> None
         [] op = "&&" -> truth(l.val # 0 /\ r.val # 0)
         [] op = "||" -> truth(l.val # 0 \/ r.val # 0)
         [] op \in {"<<", ">>"} -> Shift(op, l, [r EXCEPT !.val = Wrap(r.val, TRUE)], warns, p)
         [] OTHER -> Arithmetic(op, l, r, live, warns, p)

CombineRight(p, l, j, live) ==
    LET op == text[p].k
        rLive == live /\ ~(op = "&&" /\ l.val = 0) /\ ~(op = "||" /\ l.val # 0)
    IN CombineOperands(p, l, Operation(p + 1, j, rLive), live)

Combine(p, i, j, live) == CombineRight(p, Operation(i, p - 1, live), j, live)

Operation(i, j, live) ==
    Quiet(IF i > j THEN None
          ELSE IF Operators(i, j) = {} THEN Unary(i, j, live)
          ELSE Combine(Loosest(i, j), i, j, live), live)

ReadAs(r, p) ==
    LET uns == Contains(r.suffix, "u")
        wide == r.val >= 2^Width
        signedTooSmall == ~uns /\ ~wide /\ ~InRange(r.val, FALSE)
    IN [ok |-> TRUE, uns |-> uns \/ wide \/ signedTooSmall,
        val |-> Wrap(r.val, uns \/ wide \/ signedTooSmall),
        warns |-> (IF wide THEN {<<"too_large", p>>} ELSE {})
                  \cup IF signedTooSmall /\ r.radix # 16
                       THEN {<<"too_large_for_signed", p>>} ELSE {}]

NumberMeaning(p) ==
    LET readings == {r \in IntegerReadings(text[p].t) : ~Contains(r.suffix, "i")}
    IN IF readings = {} THEN None ELSE ReadAs(CHOOSE r \in readings : TRUE, p)

DefinedForms == {<<"id", "id">>, <<"id", "(", "id", ")">>}

ApplySign(k, inner, i) ==
    CASE ~inner.ok -> None
      [] k = "+" -> inner
      [] k = "-" -> Meaning(-inner.val, inner.uns, inner.warns, i)
      [] k = "~" -> Meaning(-1 - inner.val, inner.uns, inner.warns, i)
      [] k = "!" -> Meaning(IF inner.val = 0 THEN 1 ELSE 0, FALSE, inner.warns, i)

Unary(i, j, live) ==
    LET k == text[i].k
        kinds == [p \in 1..(j - i + 1) |-> text[i + p - 1].k]
        operand == IF Len(kinds) = 2 THEN i + 1 ELSE i + 2
    IN CASE k = "id" /\ text[i].t = <<"defined">> ->
              IF kinds \in DefinedForms
              THEN Meaning(IF text[operand].t \in MCDefs THEN 1 ELSE 0, FALSE, {}, i)
              ELSE None
         [] k = "id" /\ i = j  -> [None EXCEPT !.ok = TRUE, !.warns = {<<"undef_identifier", i>>}]
         [] k = "num" /\ i = j -> NumberMeaning(i)
         [] k = "(" /\ text[j].k = ")" -> Comma(i + 1, j - 1, live)
         [] k \in {"+", "-", "~", "!"} -> ApplySign(k, Operation(i + 1, j, live), i)
         [] OTHER -> None

(* The colon that belongs to a question mark.                              *)
ColonOf(q, j) ==
    LET top == {p \in q..j : Depth(q, p - 1) = 0}
        count(p, k) == Cardinality({x \in top : x <= p /\ text[x].k = k})
    IN {c \in top : text[c].k = ":" /\ count(c, "?") = count(c, ":")
                    /\ \A p \in top : p < c => count(p, "?") > count(p, ":")}

ChosenMeaning(cond, yes, no) ==
    IF ~(cond.ok /\ yes.ok /\ no.ok) THEN None
    ELSE [ok |-> TRUE, uns |-> yes.uns \/ no.uns, warns |-> cond.warns \cup yes.warns \cup no.warns,
          val |-> Wrap(IF cond.val # 0 THEN yes.val ELSE no.val, yes.uns \/ no.uns)]

Choose(q, c, cond, j, live) ==
    ChosenMeaning(cond, Comma(q + 1, c - 1, live /\ cond.val # 0), Conditional(c + 1, j, live /\ cond.val = 0))

ConditionalAt(q, colons, i, j, live) ==
    IF colons = {} THEN None ELSE Choose(q, Min(colons), Operation(i, q - 1, live), j, live)

ConditionalWith(marks, i, j, live) ==
    IF marks = {} THEN Operation(i, j, live)
    ELSE LET q == Min(marks) IN ConditionalAt(q, ColonOf(q, j), i, j, live)

Conditional(i, j, live) == Quiet(ConditionalWith({p \in AtTop(i, j) : text[p].k = "?"}, i, j, live), live)

(* The commas that are no part of a conditional.                           *)
OutsideCommas(i, j) ==
    {p \in AtTop(i, j) : /\ text[p].k = ","
                         /\ \A q \in AtTop(i, p) : text[q].k = "?" => \E c \in ColonOf(q, p) : c < p}

Sequenced(l, r, p) ==
    IF ~(l.ok /\ r.ok) THEN None ELSE [r EXCEPT !.warns = @ \cup l.warns \cup {<<"comma", p>>}]

CommaAt(commas, i, j, live) ==
    IF commas = {} THEN Conditional(i, j, live)
    ELSE LET p == Max(commas)
         IN Sequenced(Comma(i, p - 1, live), Conditional(p + 1, j, live), p)

Comma(i, j, live) == IF i > j THEN None ELSE Quiet(CommaAt(OutsideCommas(i, j), i, j, live), live)

(* What the code cuts to 32 bits: shifts by 2^CastBits or more.            *)
NoHugeShift ==
    \A p \in DOMAIN text : text[p].k \in {"<<", ">>"} =>
        /\ p < Len(text)
        /\ text[p + 1].k = "num" =>
             \A r \in IntegerReadings(text[p + 1].t) : r.val < 2^CastBits
        /\ text[p + 1].k \in {"num", "id"}
        /\ p + 1 < Len(text) => text[p + 2].k \notin {"*", "/", "%", "+", "-"}

Agree(code, ref) ==
    /\ (code.error = "") = ref.ok
    /\ ref.ok => /\ code.val.unsigned = ref.uns
                 /\ code.val.bits = ref.val % 2^Width
                 /\ code.diags = ref.warns
                 /\ code.holds = (ref.val # 0)

(* EvaluateDirectiveExpression accepts the constant expressions and no     *)
(* others, with the value, the signedness and the warnings of exact        *)
(* arithmetic: nothing in an operand that is not evaluated is warned of or *)
(* is an error.                                                            *)
ExpressionIsRight ==
    (kind \in Conditions /\ text # <<>> /\ NoHugeShift) =>
        Agree(EvaluateDirectiveExpression(text, MCDefs), Conditional(1, Len(text), TRUE))

(* The macro given back for a condition of the form !defined(X), on which  *)
(* the multiple-include optimisation relies, is not defined exactly when   *)
(* the condition holds, whatever macros there are.                         *)
GuardMeansUndefined ==
    (kind \in Conditions /\ text # <<>>) =>
        \A defs \in SUBSET {<<"X">>, <<"Y">>} :
            \A code \in {EvaluateDirectiveExpression(text, defs)} :
                code.guard # NoMacro => code.holds = (code.guard \notin defs)

=============================================================================
