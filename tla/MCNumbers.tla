----------------------------- MODULE MCNumbers -----------------------------
(***************************************************************************)
(* The arithmetic under the numbers and conditions of MCExpressions:       *)
(* operands are written word by word (or digit by digit), and every        *)
(* operation of APInt and of the bare bignums on them is compared with the *)
(* integers.  Words are four bits wide, so that two or three of them carry,*)
(* borrow and divide in every way the 64-bit ones can; for printing they   *)
(* are eight, because the ten of decimal must fit in half a word.          *)
(***************************************************************************)
EXTENDS MCExpressions

Ints == INSTANCE APInt WITH WordBits <- 4, DoubleBits <- 6
Decs == INSTANCE APInt WITH WordBits <- 8, DoubleBits <- 6
Big == INSTANCE Bignum WITH WordBits <- 4, DoubleBits <- 6

EdgeWords == {<<w>> : w \in {0, 1, 7, 8, 15}}
FewWords == {<<w>> : w \in {0, 1, 8, 15}}
AllWords == {<<w>> : w \in 0..15}

MCNumberShapes ==
  MCShapes @@
  [word    |-> <<AllWords, AllWords>>,
   words   |-> <<EdgeWords, EdgeWords, EdgeWords, EdgeWords>>,
   long    |-> <<FewWords, EdgeWords, FewWords, FewWords, EdgeWords, FewWords>>,
   roots   |-> <<AllWords, AllWords>>,
   decimal |-> <<{<<"+">>, <<"-">>}>> \o [i \in 1..5 |-> {<<d>> : d \in {0, 1, 9}}]]

OperandWords == [word |-> 1, words |-> 2, long |-> 3, roots |-> 1]
Operands2(k) == kind = k /\ pieces = 2 * OperandWords[k]

\* Widths whose last word is full, has one bit, or has all but one.
WidthsOf(k) == CASE k = "word" -> {1, 3, 4} [] k = "words" -> {5, 7, 8} [] k = "long" -> {9, 12}

-----------------------------------------------------------------------------
(* The integer an APInt or a bignum stands for, and back.                  *)

ValueOf(words, base) == FoldRight(LAMBDA word, acc : word + base * acc, words, 0)
Sequence(f) == [i \in 1..Cardinality(DOMAIN f) |-> f[i - 1]]
Natural(x) == ValueOf(Sequence(x.pVal), 16)
Of(width, n) == Ints!Make(width, [i \in Ints!Indices(width) |-> ((n % 2^width) \div 16^i) % 16])
SignedOf(width, n) == IF n < 2^(width - 1) THEN n ELSE n - 2^width

First(width, k) == Ints!FromWords(width, SubSeq(text, 1, OperandWords[k]))
Second(width, k) == Ints!FromWords(width, SubSeq(text, OperandWords[k] + 1, 2 * OperandWords[k]))

BitsWhere(test(_, _), x, y, w) ==
  MapThenSumSet(LAMBDA i : IF test((x \div 2^i) % 2, (y \div 2^i) % 2) THEN 2^i ELSE 0, 0..(w - 1))

SumsAreRight(x, y, w) ==
  LET a == Natural(x)
      b == Natural(y)
  IN  /\ Ints!Plus(x, y) = Of(w, a + b)
      /\ Ints!Minus(x, y) = Of(w, a - b)
      /\ Ints!Times(x, y) = Of(w, a * b)
      /\ Ints!Increment(x) = Of(w, a + 1)
      /\ Ints!Decrement(x) = Of(w, a - 1)
      /\ Ints!Complement(x) = Of(w, -1 - a)
      /\ Ints!AndSlowCase(x, y) = Of(w, BitsWhere(LAMBDA p, q : p + q = 2, a, b, w))
      /\ Ints!OrSlowCase(x, y) = Of(w, BitsWhere(LAMBDA p, q : p + q > 0, a, b, w))
      /\ Ints!XorSlowCase(x, y) = Of(w, BitsWhere(LAMBDA p, q : p # q, a, b, w))
      /\ Ints!Equal(x, y) = (a = b)
      /\ Ints!ult(x, y) = (a < b)
      /\ Ints!slt(x, y) = (SignedOf(w, a) < SignedOf(w, b))
      /\ (Ints!Profile(x) = Ints!Profile(y)) = (a = b)
      /\ Ints!AssignSlowCase(Ints!Zero(w + 5), x) = x

\* The signed quotient of two negative numbers from sdivrem, and every
\* quotient for which algorithm D adds back, are not what they should be.
QuotientIsRight(x, y, w, both) ==
  LET a == Natural(x)
      b == Natural(y)
  IN  ~both.addedBack =>
        /\ both.Quotient = Of(w, a \div b) /\ both.Remainder = Of(w, a % b)
        /\ Ints!udiv(x, y) = both.Quotient /\ Ints!urem(x, y) = both.Remainder

SignedQuotientIsRight(x, y, w, signed) ==
  LET sa == SignedOf(w, Natural(x))
      sb == SignedOf(w, Natural(y))
      q == Quotient(sa, sb)
  IN  /\ Ints!sdiv(x, y) = Of(w, q) /\ Ints!srem(x, y) = Of(w, sa - sb * q)
      /\ signed.Remainder = Of(w, sa - sb * q)
      /\ ~(sa < 0 /\ sb < 0) => signed.Quotient = Of(w, q)

AbsoluteOf(x, w) == Of(w, Magnitude(SignedOf(w, Natural(x))))
QuotientsAreRight(x, y, w) ==
  /\ QuotientIsRight(x, y, w, Ints!udivrem(x, y))
  /\ ~Ints!udivrem(AbsoluteOf(x, w), AbsoluteOf(y, w)).addedBack =>
       SignedQuotientIsRight(x, y, w, Ints!sdivrem(x, y))

\* Shifts of x by n, and x cut or widened to n bits.
ShiftsAreRight(x, w, n) ==
  LET a == Natural(x)
      sa == SignedOf(w, a)
  IN  /\ n <= w => /\ Ints!shl(x, n) = Of(w, a * 2^n)
                   /\ Ints!lshr(x, n) = Of(w, a \div 2^n)
                   /\ n = w => Ints!shlBy(x, Of(w, w)) = Of(w, 0)
                   /\ n < w \/ ~Ints!isSingleWord(x) => Ints!ashr(x, n) = Of(w, sa \div 2^n)
                   /\ Ints!getLoBits(x, n) = Of(w, a % 2^n)
                   /\ Ints!getHiBits(x, n) = Of(w, a \div 2^(w - n))
      /\ n > 0 => /\ Ints!zextOrTrunc(x, n) = Of(n, a)
                  /\ Ints!sextOrTrunc(x, n) = Of(n, sa)
                  /\ Ints!isIntN(x, n) = (a < 2^n)
                  /\ (Ints!getMinSignedBits(x) <= n) = (sa \in -(2^(n - 1)) .. 2^(n - 1) - 1)

BitsAreRight(x, w) ==
  LET a == Natural(x)
      bits == {i \in 0..(w - 1) : (a \div 2^i) % 2 = 1}
      clears == 0..(w - 1) \ bits
  IN  /\ Ints!countPopulation(x) = Cardinality(bits)
      /\ Ints!countLeadingZeros(x) = w - 1 - Max(bits \cup {-1})
      /\ Ints!countLeadingOnes(x) = w - 1 - Max(clears \cup {-1})
      /\ Ints!countTrailingZeros(x) = Min(bits \cup {w})
      /\ Ints!countTrailingOnes(x) = Min(clears \cup {w})
      /\ Ints!isPowerOf2(x) = (\E i \in 0..w : a = 2^i)
      /\ a > 0 => 2^Ints!logBase2(x) <= a /\ a < 2^(Ints!logBase2(x) + 1)
      /\ (Ints!isMaxSignedValue(x) = (a = 2^(w - 1) - 1))
      /\ (Ints!isMinSignedValue(x) = (a = 2^(w - 1)))
      /\ \A i \in 0..(w - 1) : Ints!flipBit(x, i) = Of(w, IF i \in bits THEN a - 2^i ELSE a + 2^i)

\* A mask of one word's length is one word of ones only when the width is
\* at least a word.
MasksAreRight(w, lo, hi) ==
  /\ Ints!getLowBitsSet(w, lo) = Of(w, 2^lo - 1)
  /\ Ints!getHighBitsSet(w, hi) = Of(w, 2^w - 2^(w - hi))
  /\ lo < w => Ints!getBitsSet(w, lo, hi) =
                 Of(w, MapThenSumSet(LAMBDA i : 2^i,
                         IF hi < lo THEN 0..(hi - 1) \cup lo..(w - 1) ELSE lo..(hi - 1)))

RECURSIVE Gcd(_, _)
Gcd(a, b) == IF b = 0 THEN a ELSE Gcd(b, a % b)

InverseIsRight(a, b, inverse) ==
  a < b => IF Gcd(a, b) = 1 /\ b > 1 THEN (a * inverse) % b = 1 /\ inverse < b
           ELSE inverse = 0
TheoryIsRight(x, y) ==
  /\ Decs!GreatestCommonDivisor(x, y).pVal[0] = Gcd(x.pVal[0], y.pVal[0])
  /\ InverseIsRight(x.pVal[0], y.pVal[0], Decs!multiplicativeInverse(x, y).pVal[0])

\* The nearest root, except that half a square below is rounded up, where
\* the next square fits the width.
NearestRootIs(a, w, root, direct) ==
  LET k == CHOOSE k \in 0..a : k * k <= a /\ a < (k + 1) * (k + 1)
  IN  (k + 1) * (k + 1) < 2^w =>
        /\ ~root.fails
        /\ ValueOf(Sequence(root.root.pVal), 256) = IF a < k * k + k \/ (direct /\ a = k * k + k) THEN k ELSE k + 1
RootIsRight(a, w) ==
  \A x \in {Decs!FromWords(w, <<a % 256, a \div 256>>)} :
    NearestRootIs(a, w, Decs!sqrt(x), Decs!getActiveBits(x) < 6)

\* Multiplying by the magic number and shifting divides every dividend; the
\* signed one is not made for a power of two.
SignedMagicIsRight(sd, w, m, shift) ==
  LET fix(n) == IF sd > 0 /\ m < 0 THEN n ELSE IF sd < 0 /\ m > 0 THEN -n ELSE 0
      signed(n) == LET q == ((m * n) \div 2^w + fix(n)) \div 2^shift
                   IN  IF q < 0 THEN q + 1 ELSE q
  IN  \A n \in -(2^(w - 1)) .. 2^(w - 1) - 1 : signed(n) = Quotient(n, sd)
UnsignedMagicIsRight(d, w, mu) ==
  LET unsigned(n) == LET high == (mu.m.pVal[0] * n) \div 2^w
                     IN  IF mu.a THEN ((n - high) \div 2 + high) \div 2^(mu.s - 1) ELSE high \div 2^mu.s
  IN  \A n \in 0 .. 2^w - 1 : d > 1 => unsigned(n) = n \div d
MagicIsRight(x, d, w) ==
  LET sd == SignedOf(w, d)
  IN  /\ (\A i \in 0..w : Magnitude(sd) # 2^i) =>
           \A ms \in {Decs!magic(x)} : SignedMagicIsRight(sd, w, SignedOf(w, ms.m.pVal[0]), ms.s)
      /\ UnsignedMagicIsRight(d, w, Decs!magicu(x))

\* Digits read and printed, signed and unsigned, in a width they fit.
ValueIn(radix, digits) == FoldLeft(LAMBDA acc, d : acc * radix + d, 0, digits)
PrintedIsRight(printed, radix, n, minus) ==
  /\ ValueIn(radix, printed.digits) = n /\ printed.minus = (minus /\ n > 0)
  /\ n > 0 => printed.digits[1] # 0
ReadIsRight(x, radix, n, minus) ==
  LET value == IF minus THEN (-n) % 2^x.BitWidth ELSE n
  IN  /\ ValueOf(Sequence(x.pVal), 256) = value
      /\ PrintedIsRight(Decs!toString(x, radix, TRUE), radix, n, minus)
      /\ PrintedIsRight(Decs!toString(x, radix, FALSE), radix, value, FALSE)
DigitsFit(digits, minus, radix, n, needed) ==
  /\ n < 2^needed /\ (minus => n <= 2^(needed - 1))
  /\ \A w \in {needed, 20} : w >= needed /\ n < 2^(w - 1) =>
       ReadIsRight(Decs!fromString(w, digits, minus, radix), radix, n, minus)
DigitsAreRight(digits, minus) ==
  \A radix \in IF \E i \in DOMAIN digits : digits[i] > 1 THEN {10, 16} ELSE {2, 8, 10, 16} :
    DigitsFit(digits, minus, radix, ValueIn(radix, digits), Decs!getBitsNeeded(digits, minus, radix))

-----------------------------------------------------------------------------
(* The same for bare parts.                                                *)

Bare(words) == [i \in 0..(Len(words) - 1) |-> words[i + 1]]
Total(parts) == ValueOf(Sequence(parts), 16)
Room(parts) == 16 ^ Cardinality(DOMAIN parts)

SumIs(sum, m, n) == Total(sum.dst) + m * sum.c = n
ProductIs(product, m, n) == Total(product.dst) = n % m /\ product.overflow = (n >= m)
FullProductIs(full, n) == /\ Total(full.dst) = n
                          /\ \A i \in DOMAIN full.dst : i >= full.used => full.dst[i] = 0
DivisionIs(d, x, a, b) ==
  IF b = 0 THEN d.refused /\ d.lhs = x
  ELSE ~d.refused /\ Total(d.lhs) = a \div b /\ Total(d.remainder) = a % b
PartSumsAre(x, y, a, b, m) ==
  /\ \A c \in {0, 1} : /\ SumIs(Big!tcAdd(x, y, c), m, a + b + c)
                       /\ SumIs(Big!tcSubtract(x, y, c), -m, a - b - c)
  /\ Total(Big!tcNegate(x)) = (-a) % m
  /\ SumIs(Big!tcIncrement(x), m, a + 1)
  /\ Big!tcCompare(x, y) = IF a < b THEN -1 ELSE IF a > b THEN 1 ELSE 0
  /\ ProductIs(Big!tcMultiply(x, y), m, a * b)
  /\ a <= 256 => FullProductIs(Big!tcFullMultiply(x, Bare(<<15>> \o Sequence(y)), 9), a * (15 + 16 * b))
  /\ DivisionIs(Big!tcDivide(x, y), x, a, b)

PartBitsAre(x, a, m, all) ==
  /\ \A bits \in {{i \in 0..(all - 1) : (a \div 2^i) % 2 = 1}} :
       /\ Big!tcMSB(x) = Max(bits \cup {-1})
       /\ Big!tcLSB(x) = IF bits = {} THEN -1 ELSE Min(bits)
       /\ \A i \in 0..(all - 1) : Big!tcExtractBit(x, i) = (i \in bits)
  /\ \A n \in 0..(all + 1) : /\ Total(Big!tcShiftLeft(x, n)) = ((a % 2^(all - Min({n, all}))) * 2^n) % m
                             /\ Total(Big!tcShiftRight(x, n)) = a \div 2^n
  /\ \A n \in 1..all, from \in 0..(all - 1) : from + n <= all =>
       Total(Big!tcExtract(all \div 4, x, n, from)) = (a \div 2^from) % 2^n
  /\ \A n \in 0..all : Total(Big!tcSetLeastSignificantBits(all \div 4, n)) = 2^n - 1

PartsAre(x, y) ==
  /\ PartSumsAre(x, y, Total(x), Total(y), Room(x))
  /\ y = x => PartBitsAre(x, Total(x), Room(x), 4 * Cardinality(DOMAIN x))

-----------------------------------------------------------------------------
(* The tc functions compute the same integers on bare parts, and say       *)
(* exactly when something was carried, borrowed or lost.                   *)
PartsAreRight ==
  \A k \in {"word", "words", "long"} : Operands2(k) =>
    PartsAre(Bare(SubSeq(text, 1, OperandWords[k])),
             Bare(SubSeq(text, OperandWords[k] + 1, 2 * OperandWords[k])))

OperationsAreRight(x, y, w) ==
  /\ SumsAreRight(x, y, w)
  /\ Natural(y) # 0 => QuotientsAreRight(x, y, w)
  /\ y = x => /\ \A n \in 0..(w + 5) : ShiftsAreRight(x, w, n)
              /\ BitsAreRight(x, w)
              /\ \A lo \in 0..w, hi \in 0..w : MasksAreRight(w, lo, hi)

(* Every operation of APInt gives the integer's result modulo its width,   *)
(* with the bits above the width clear, whether the operands are one word  *)
(* or several; except a quotient with a digit that algorithm D adds back.  *)
(* The bare bignums compute the same integers.                             *)
IntegersAreRight ==
  /\ \A k \in {"word", "words", "long"} : Operands2(k) =>
       \A w \in WidthsOf(k) :
         OperationsAreRight(First(w, k), Second(w, k), w)
  /\ Operands2("words") => TheoryIsRight(Decs!FromWord(8, ValueOf(SubSeq(text, 1, 2), 16), FALSE),
                                         Decs!FromWord(8, ValueOf(SubSeq(text, 3, 4), 16), FALSE))
  /\ Operands2("roots") => \A d \in {ValueOf(text, 16)} :
       /\ \A aw \in {<<d, 8>>, <<16 * d + 7, 12>>} : RootIsRight(aw[1], aw[2])
       /\ \A w \in {6, 8} : d % 2^w > 0 => MagicIsRight(Decs!FromWord(w, d, FALSE), d % 2^w, w)
  /\ kind = "decimal" /\ pieces > 1 => DigitsAreRight(Tail(text), text[1] = "-")
  /\ PartsAreRight
=============================================================================
