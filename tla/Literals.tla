------------------------------ MODULE Literals ------------------------------
(***************************************************************************)
(* Lex/LiteralSupport.cpp: what a numeric, character or string literal     *)
(* means.  A spelling is a sequence of characters, a character a string of *)
(* length one.  The widths of the host's integers are scaled down.         *)
(***************************************************************************)
EXTENDS Integers, Sequences, SequencesExt, FiniteSetsExt

CONSTANTS
    UInt64Bits,    \* bits of uint64_t
    UnsignedBits,  \* bits of unsigned, and of wchar_t
    CharBits,      \* bits of char
    CodeOf         \* the source character set: the code of each character

ASSUME LiteralAssumption ==
    /\ UInt64Bits \in Nat /\ UInt64Bits > 4
    /\ CharBits \in Nat /\ CharBits > 4
    /\ UnsignedBits \in Nat /\ UnsignedBits > CharBits

(* `llvm::APInt LitVal(sizeof(int), 0)`: a width of sizeof(int) bits.      *)
LitBits == 4

OctalDigits  == {"0", "1", "2", "3", "4", "5", "6", "7"}
Digits       == OctalDigits \cup {"8", "9"}
HexDigits    == Digits \cup {"a", "b", "c", "d", "e", "f", "A", "B", "C", "D", "E", "F"}

HexDigitValue(c) ==
    CASE c = "0" -> 0 [] c = "1" -> 1 [] c = "2" -> 2 [] c = "3" -> 3 [] c = "4" -> 4
      [] c = "5" -> 5 [] c = "6" -> 6 [] c = "7" -> 7 [] c = "8" -> 8 [] c = "9" -> 9
      [] c \in {"a", "A"} -> 10 [] c \in {"b", "B"} -> 11 [] c \in {"c", "C"} -> 12
      [] c \in {"d", "D"} -> 13 [] c \in {"e", "E"} -> 14 [] c \in {"f", "F"} -> 15
      [] OTHER -> -1

(* The character at a position; the lexer saw to it that the one after a   *)
(* number continues no number.                                             *)
At(t, i) == IF i \in 1..Len(t) THEN t[i] ELSE " "

(* SkipDigits, SkipHexDigits, SkipOctalDigits, SkipBinaryDigits.           *)
Skip(t, i, set) ==
    CHOOSE j \in i..(Len(t) + 1) :
        /\ At(t, j) \notin set
        /\ \A k \in i..(j - 1) : t[k] \in set

-----------------------------------------------------------------------------
(* NumericLiteralParser.  `s` is its cursor.                               *)

NewLiteral ==
    [s |-> 1, digits |-> 1, suffix |-> 0, radix |-> 10, period |-> FALSE, exponent |-> FALSE,
     hadError |-> FALSE, isUnsigned |-> FALSE, isLong |-> FALSE, isLongLong |-> FALSE,
     isFloat |-> FALSE, isImaginary |-> FALSE]

IsFloatingLiteral(lit) == lit.period \/ lit.exponent

(* The exponent whose letter is at the cursor.                             *)
ParseExponent(t, lit) ==
    LET first == IF At(t, lit.s + 1) \in {"+", "-"} THEN lit.s + 2 ELSE lit.s + 1
        past  == Skip(t, first, Digits)
    IN [lit EXCEPT !.exponent = TRUE, !.s = past, !.hadError = past = first]

ParsePeriod(t, lit, digits) ==
    IF At(t, lit.s) = "."
    THEN [lit EXCEPT !.period = TRUE, !.s = Skip(t, lit.s + 1, digits)]
    ELSE lit

ParseHex(t, lit) ==
    LET whole == [lit EXCEPT !.radix = 16, !.digits = lit.s + 1,
                             !.s = Skip(t, lit.s + 1, HexDigits)]
        body  == ParsePeriod(t, whole, HexDigits)
    IN IF At(t, body.s) \in {"p", "P"} THEN ParseExponent(t, body)
       ELSE [body EXCEPT !.hadError = body.period]

ParseBinary(t, lit) ==
    LET past == Skip(t, lit.s + 1, {"0", "1"})
    IN [lit EXCEPT !.radix = 2, !.digits = lit.s + 1, !.s = past,
                   !.hadError = At(t, past) \in HexDigits]

(* An octal number, unless a period or an exponent makes it a decimal one: *)
(* `octal` and `decimal` are the ends of its digits.                       *)
ExponentOrNot(t, dec) ==
    IF At(t, dec.s) \in {"e", "E"} THEN ParseExponent(t, [dec EXCEPT !.radix = 10]) ELSE dec

PeriodMakesDecimal(body) == IF body.period THEN [body EXCEPT !.radix = 10] ELSE body

OctalDigitsRead(t, whole) ==
    CASE whole.s = Len(t) + 1 -> whole
      [] At(t, whole.s) \in HexDigits \ {"e", "E"} -> [whole EXCEPT !.hadError = TRUE]
      [] OTHER -> ExponentOrNot(t, PeriodMakesDecimal(ParsePeriod(t, whole, Digits)))

DecimalIfMore(t, lit, octal, decimal) ==
    IF At(t, octal) \in Digits /\ At(t, decimal) \in {".", "e", "E"}
    THEN [lit EXCEPT !.digits = lit.s, !.s = decimal]
    ELSE [lit EXCEPT !.digits = lit.s, !.s = octal, !.radix = 8]

ParseOctal(t, lit) ==
    OctalDigitsRead(t, DecimalIfMore(t, lit, Skip(t, lit.s, OctalDigits), Skip(t, lit.s, Digits)))

ParseNumberStartingWithZero(t, lit) ==
    LET after == [lit EXCEPT !.s = lit.s + 1]
    IN CASE /\ At(t, after.s) \in {"x", "X"}
            /\ At(t, after.s + 1) \in HexDigits \cup {"."} -> ParseHex(t, after)
         [] At(t, after.s) \in {"b", "B"} -> ParseBinary(t, after)
         [] OTHER -> ParseOctal(t, after)

ParseDecimal(t, lit) ==
    LET whole == [lit EXCEPT !.s = Skip(t, lit.s, Digits)]
        body  == ParsePeriod(t, whole, Digits)
    IN CASE At(t, whole.s) \in HexDigits \ {"e", "E"} -> [whole EXCEPT !.hadError = TRUE]
         [] At(t, body.s) \in {"e", "E"} -> ParseExponent(t, body)
         [] OTHER -> body

(* One turn of the loop over the suffix; the cursor stays at a character   *)
(* that is no part of one.                                                 *)
SuffixStep(t, lit) ==
    LET c    == t[lit.s]
        fp   == IsFloatingLiteral(lit)
        pair == lit.s < Len(t) /\ t[lit.s + 1] = c
    IN CASE c \in {"f", "F"} /\ fp /\ ~lit.isFloat /\ ~lit.isLong ->
              [lit EXCEPT !.isFloat = TRUE, !.s = lit.s + 1]
         [] c \in {"u", "U"} /\ ~fp /\ ~lit.isUnsigned ->
              [lit EXCEPT !.isUnsigned = TRUE, !.s = lit.s + 1]
         [] /\ c \in {"l", "L"}
            /\ ~lit.isLong /\ ~lit.isLongLong /\ ~lit.isFloat /\ ~(pair /\ fp) ->
              IF pair THEN [lit EXCEPT !.isLongLong = TRUE, !.s = lit.s + 2]
              ELSE [lit EXCEPT !.isLong = TRUE, !.s = lit.s + 1]
         [] c \in {"i", "I", "j", "J"} /\ ~lit.isImaginary ->
              [lit EXCEPT !.isImaginary = TRUE, !.s = lit.s + 1]
         [] OTHER -> lit

RECURSIVE ParseSuffix(_, _)
ParseSuffix(t, lit) ==
    IF lit.s > Len(t) THEN lit
    ELSE LET next == SuffixStep(t, lit)
         IN IF next = lit THEN [lit EXCEPT !.hadError = TRUE] ELSE ParseSuffix(t, next)

NumericLiteralParser(t) ==
    LET body == IF t[1] = "0" THEN ParseNumberStartingWithZero(t, NewLiteral)
                ELSE ParseDecimal(t, NewLiteral)
    IN IF body.hadError THEN body ELSE ParseSuffix(t, [body EXCEPT !.suffix = body.s])

(* GetIntegerValue, of `bits` bits: the fast path when the digits cannot   *)
(* need more than a uint64_t, else digit by digit.                         *)
DigitsOf(t, lit) == [i \in 1..(lit.suffix - lit.digits) |-> HexDigitValue(t[lit.digits + i - 1])]
MaxBitsPerDigit(radix) == Min({b \in 1..4 : 2^b >= radix})

FastValue(digits, radix, bits) ==
    LET n == FoldLeft(LAMBDA acc, d : (acc * radix + d) % 2^UInt64Bits, 0, digits)
    IN [val |-> n % 2^bits, overflow |-> n >= 2^bits]

(* What loses the overflow of the addition.                                *)
SlowValue_IgnoresAdd(digits, radix, bits) ==
    FoldLeft(LAMBDA acc, d :
                LET product == (acc.val * radix) % 2^bits
                IN [val      |-> (product + d) % 2^bits,
                    overflow |-> acc.overflow \/ product \div radix # acc.val],
             [val |-> 0, overflow |-> FALSE], digits)

SlowValue(digits, radix, bits) ==
    FoldLeft(LAMBDA acc, d :
                LET product == (acc.val * radix) % 2^bits
                    sum     == (product + d) % 2^bits
                IN [val      |-> sum,
                    overflow |-> acc.overflow \/ product \div radix # acc.val \/ sum < d],
             [val |-> 0, overflow |-> FALSE], digits)

GetIntegerValue(t, lit, bits) ==
    LET digits == DigitsOf(t, lit)
    IN IF Len(digits) * MaxBitsPerDigit(lit.radix) <= UInt64Bits
       THEN FastValue(digits, lit.radix, bits)
       ELSE SlowValue(digits, lit.radix, bits)

(* GetLineValue of PPDirectives: the number of a #line or a line marker,   *)
(* an unsigned of `bits` bits.  A sum that has become smaller has wrapped. *)
GetLineValue(t, bits) ==
    LET Read(acc, c) ==
          LET next == (acc.val * 10 + HexDigitValue(c)) % 2^bits
          IN IF c \in Digits THEN [val |-> next, hadError |-> acc.hadError \/ next < acc.val]
             ELSE [acc EXCEPT !.hadError = TRUE]
        all == FoldLeft(Read, [val |-> 0, hadError |-> FALSE], t)
    IN [all EXCEPT !.hadError = @ \/ all.val = 0]

-----------------------------------------------------------------------------
(* Escapes.  An operator that reads at a position returns what it read,    *)
(* the next position, and whether there was an error.                      *)

Mapped == "\\" :> 92 @@ "'" :> 39 @@ "\"" :> 34 @@ "?" :> 63 @@ "a" :> 7 @@ "b" :> 8
          @@ "e" :> 27 @@ "E" :> 27 @@ "f" :> 12 @@ "n" :> 10 @@ "r" :> 13 @@ "t" :> 9
          @@ "v" :> 11

(* What fits in the character; the bits above are dropped with a warning.  *)
Fitted(val, wide) == IF wide THEN val ELSE val % 2^CharBits

HexEscape(t, i, wide) ==
    LET past   == Skip(t, i, HexDigits)
        digits == [k \in 1..(past - i) |-> HexDigitValue(t[i + k - 1])]
        val    == FoldLeft(LAMBDA acc, d : ((acc * 16) % 2^UnsignedBits) + d, 0, digits)
    IN [val |-> Fitted(val, wide), next |-> past, hadError |-> past = i]

(* As many octal digits as there are, as in a hex escape.                  *)
OctalEscape_Greedy(t, i, wide) ==
    LET past   == Skip(t, i, OctalDigits)
        digits == [k \in 1..(past - i) |-> HexDigitValue(t[i + k - 1])]
        val    == FoldLeft(LAMBDA acc, d : acc * 8 + d, 0, digits)
    IN [val |-> Fitted(val, wide), next |-> past, hadError |-> FALSE]

OctalEscape(t, i, wide) ==
    LET past   == Min({Skip(t, i, OctalDigits), i + 3})
        digits == [k \in 1..(past - i) |-> HexDigitValue(t[i + k - 1])]
        val    == FoldLeft(LAMBDA acc, d : acc * 8 + d, 0, digits)
    IN [val |-> Fitted(val, wide), next |-> past, hadError |-> FALSE]

(* t[i] is the backslash.                                                  *)
ProcessCharEscape(t, i, wide) ==
    LET c == t[i + 1]
    IN CASE c = "x" -> HexEscape(t, i + 2, wide)
         [] c \in OctalDigits -> OctalEscape(t, i + 1, wide)
         [] c \in DOMAIN Mapped -> [val |-> Mapped[c], next |-> i + 2, hadError |-> FALSE]
         [] OTHER -> [val |-> CodeOf[c], next |-> i + 2, hadError |-> FALSE]

InvalidUCN(u) ==
    \/ u < 160 /\ u \notin {36, 64, 96}
    \/ u \in 55296..57343
    \/ u > 1114111

(* The bytes of a code point in UTF-8: the last ones hold six bits each.   *)
Utf8(u) ==
    LET bytesToWrite  == CASE u < 128 -> 1 [] u < 2048 -> 2 [] u < 65536 -> 3 [] OTHER -> 4
        firstByteMark == <<0, 192, 224, 240>>
    IN [k \in 1..bytesToWrite |->
          LET shifted == u \div 64^(bytesToWrite - k)
          IN IF k = 1 THEN shifted + firstByteMark[bytesToWrite] ELSE 128 + (shifted % 64)]

(* t[i] is the backslash, t[i + 1] is u or U.  The cursor is left after    *)
(* the digits; no error is found in the digits that are there.             *)
ProcessUCNEscape(t, i) ==
    LET len  == IF t[i + 1] = "u" THEN 4 ELSE 8
        past == Min({Skip(t, i + 2, HexDigits), i + 2 + len})
        u    == FoldLeft(LAMBDA acc, k : acc * 16 + HexDigitValue(t[k]), 0,
                         [k \in 1..(past - i - 2) |-> i + 1 + k])
        bad  == past < i + 2 + len \/ InvalidUCN(u)
    IN [bytes |-> IF bad THEN <<>> ELSE Utf8(u), next |-> past, hadError |-> bad]

-----------------------------------------------------------------------------
(* CharLiteralParser.  The literal is given with its quotes.               *)

Quote == "'"

(* LitVal after one more character; `fault` is a failed assertion.         *)
AddChar(acc, val, wide) ==
    CASE acc.count = 0 -> [acc EXCEPT !.val = val % 2^LitBits, !.count = 1]
      [] wide          -> [acc EXCEPT !.val = val % 2^LitBits, !.count = acc.count + 1]
      [] OTHER         -> [acc EXCEPT !.val = (acc.val * 2^CharBits + val) % 2^LitBits,
                                      !.count = acc.count + 1,
                                      !.fault = acc.fault \/ CharBits > LitBits]

(* The next character of a literal, escaped or not.                        *)
NextChar(t, i, wide) ==
    IF t[i] = "\\" THEN ProcessCharEscape(t, i, wide)
    ELSE [val |-> CodeOf[t[i]], next |-> i + 1, hadError |-> FALSE]

RECURSIVE ReadChars(_, _, _, _)
ReadCharsAfter(t, c, wide, acc) ==
    ReadChars(t, c.next, wide, [AddChar(acc, c.val, wide) EXCEPT !.hadError = @ \/ c.hadError])

ReadChars(t, i, wide, acc) ==
    IF At(t, i) = Quote THEN acc ELSE ReadCharsAfter(t, NextChar(t, i, wide), wide, acc)

SignExtended(lit) ==
    IF lit.count = 1 /\ (lit.val \div 2^(CharBits - 1)) % 2 = 1
    THEN [lit EXCEPT !.val = @ - 2^CharBits] ELSE lit

CharLiteralParser(t) ==
    LET start == [val |-> 0, count |-> 0, hadError |-> FALSE, fault |-> FALSE]
    IN IF t[1] = "L" THEN ReadChars(t, 3, TRUE, start) ELSE SignExtended(ReadChars(t, 2, FALSE, start))

-----------------------------------------------------------------------------
(* StringLiteralParser, of narrow strings (the only ones asked for, by     *)
(* #line and line markers): the bytes between the quotes.                  *)

OneByte(c) == [bytes |-> <<c.val>>, next |-> c.next, hadError |-> c.hadError]

RECURSIVE ReadBytes(_, _, _)
ReadBytesAfter(t, c, acc) ==
    ReadBytes(t, c.next, [bytes |-> acc.bytes \o c.bytes, hadError |-> acc.hadError \/ c.hadError])

ReadBytes(t, i, acc) ==
    IF i = Len(t) THEN acc
    ELSE ReadBytesAfter(t, IF t[i] = "\\" /\ t[i + 1] \in {"u", "U"} THEN ProcessUCNEscape(t, i)
                           ELSE OneByte(NextChar(t, i, FALSE)), acc)

StringLiteralParser(t) == ReadBytes(t, 2, [bytes |-> <<>>, hadError |-> FALSE])

(* getOffsetOfStringByte: where in the spelling a byte of the string is.   *)
RECURSIVE OffsetFrom(_, _, _)
OffsetFrom(t, i, byteNo) ==
    CASE byteNo = 0  -> i - 1
      [] t[i] # "\\" -> OffsetFrom(t, i + 1, byteNo - 1)
      [] OTHER       -> OffsetFrom(t, ProcessCharEscape(t, i, FALSE).next, byteNo - 1)

GetOffsetOfStringByte(t, byteNo) == OffsetFrom(t, 2, byteNo)

=============================================================================
