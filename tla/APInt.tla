------------------------------- MODULE APInt -------------------------------
(***************************************************************************)
(* llvm/APInt: the integers of any width that #if expressions, numbers and *)
(* character constants are computed with.  An APInt is a width and an      *)
(* array of words, least significant first; a width of one word or less    *)
(* keeps its word in place, anything wider allocates them, and every       *)
(* operation has the two branches.  First the representation, arithmetic,  *)
(* comparisons and division; then shifts, changes of width, bit counting,  *)
(* numbers read from and printed as digits, the number theory, and the     *)
(* constants that replace a division by a multiplication.                  *)
(*                                                                         *)
(* The words of the program are 64 bits wide, and the division works on    *)
(* halves of 32.  WordBits stands for the 64, so that carries, borrows and *)
(* the corrections of the division happen in numbers TLC can compute.      *)
(***************************************************************************)
EXTENDS Integers, Sequences, SequencesExt, Bitwise, TLC

CONSTANTS
  WordBits,               \* APINT_BITS_PER_WORD, an even number
  DoubleBits              \* values of fewer bits have their root from a double

HalfBits == WordBits \div 2
W == 2 ^ WordBits                                  \* one more than ~0ULL
B == 2 ^ HalfBits                                  \* the digits of the division

lowHalf(part) == part % B
highHalf(part) == part \div B
ShiftUp(word, n) == (word * 2 ^ n) % W
ShiftDown(word, n) == word \div 2 ^ n
Lesser(a, b) == IF a < b THEN a ELSE b
Bit(condition) == IF condition THEN 1 ELSE 0

\* for (i = from; i <= to; ++i) acc = step(acc, i), and the same downwards.
LoopUp(step(_, _), acc, from, to) ==
  FoldLeft(step, acc, [i \in 1..(to - from + 1) |-> from + i - 1])
LoopDown(step(_, _), acc, from, to) ==
  FoldLeft(step, acc, [i \in 1..(from - to + 1) |-> from - i + 1])

-----------------------------------------------------------------------------
(* The representation. *)

getNumWords(width) == (width + WordBits - 1) \div WordBits
isSingleWord(x) == x.BitWidth <= WordBits
whichWord(bit) == bit \div WordBits
whichBit(bit) == bit % WordBits
maskBit(bit) == 2 ^ whichBit(bit)
Top(x) == getNumWords(x.BitWidth) - 1              \* index of the last word
Make(width, words) == [BitWidth |-> width, pVal |-> words]
Indices(width) == 0 .. getNumWords(width) - 1

clearUnusedBits(x) ==
  LET wordBits == x.BitWidth % WordBits
  IN  IF wordBits = 0 THEN x
      ELSE [x EXCEPT !.pVal[Top(x)] = @ % 2 ^ wordBits]

\* A value of one word; a negative one is extended when isSigned.
FromWord(width, val, isSigned) ==
  LET fill == IF isSigned /\ val >= W \div 2 THEN W - 1 ELSE 0
  IN  clearUnusedBits(Make(width,
        [i \in Indices(width) |-> IF i = 0 THEN val ELSE fill]))

\* A value from an array of words: what does not fit is not copied, what is
\* missing is zero.
FromWords(width, bigVal) ==
  LET words == Lesser(Len(bigVal), getNumWords(width))
  IN  clearUnusedBits(Make(width,
        [i \in Indices(width) |-> IF i < words THEN bigVal[i + 1] ELSE 0]))

Zero(width) == FromWord(width, 0, FALSE)
One(width) == FromWord(width, 1, FALSE)

\* operator=: the copy takes the width of the source, whatever memory the
\* target had.
AssignSlowCase(x, RHS) ==
  IF x.BitWidth = RHS.BitWidth THEN [x EXCEPT !.pVal = RHS.pVal]
  ELSE clearUnusedBits(Make(RHS.BitWidth,
         [i \in Indices(RHS.BitWidth) |-> RHS.pVal[i]]))

bitAt(x, bit) == (x.pVal[whichWord(bit)] \div maskBit(bit)) % 2 = 1
isNegative(x) == bitAt(x, x.BitWidth - 1)

\* What a FoldingSet identifies the value by.
Profile(x) == <<x.BitWidth>> \o [i \in 1..getNumWords(x.BitWidth) |-> x.pVal[i - 1]]

-----------------------------------------------------------------------------
(* Addition and subtraction, one word at a time. *)

\* Adds one digit and stops at the first word without a carry.
add_1(x, y) ==
  LET step(acc, i) ==
        IF acc.y = 0 THEN acc
        ELSE LET d == (acc.y + acc.words[i]) % W
             IN  [words |-> [acc.words EXCEPT ![i] = d], y |-> Bit(d < acc.y)]
  IN  LoopUp(step, [words |-> x.pVal, y |-> y], 0, Top(x))

sub_1(x, y) ==
  LET step(acc, i) ==
        IF acc.y = 0 THEN acc
        ELSE [words |-> [acc.words EXCEPT ![i] = (@ - acc.y) % W],
              y |-> Bit(acc.y > acc.words[i])]
  IN  LoopUp(step, [words |-> x.pVal, y |-> y], 0, Top(x))

Increment(x) == clearUnusedBits(Make(x.BitWidth, add_1(x, 1).words))
Decrement(x) == clearUnusedBits(Make(x.BitWidth, sub_1(x, 1).words))

\* The carry is recognised by the result being below the smaller operand.
add(x, y) ==
  LET step(acc, i) ==
        LET limit == Lesser(x.pVal[i], y.pVal[i])
            d == (x.pVal[i] + y.pVal[i] + acc.carry) % W
        IN  [words |-> [acc.words EXCEPT ![i] = d],
             carry |-> Bit(d < limit \/ (acc.carry = 1 /\ d = limit))]
  IN  LoopUp(step, [words |-> x.pVal, carry |-> 0], 0, Top(x))

sub_Forgets(x, y) ==
  LET step(acc, i) ==
        LET x_tmp == (x.pVal[i] - acc.borrow) % W
        IN  [words |-> [acc.words EXCEPT ![i] = (x_tmp - y.pVal[i]) % W],
             borrow |-> Bit(y.pVal[i] > x_tmp)]
  IN  LoopUp(step, [words |-> x.pVal, borrow |-> 0], 0, Top(x))

sub(x, y) ==
  LET step(acc, i) ==
        LET x_tmp == (x.pVal[i] - acc.borrow) % W
        IN  [words |-> [acc.words EXCEPT ![i] = (x_tmp - y.pVal[i]) % W],
             borrow |-> Bit(y.pVal[i] > x_tmp \/ (acc.borrow = 1 /\ x.pVal[i] = 0))]
  IN  LoopUp(step, [words |-> x.pVal, borrow |-> 0], 0, Top(x))

Plus(x, y) == clearUnusedBits(Make(x.BitWidth, add(x, y).words))
Minus(x, y) == clearUnusedBits(Make(x.BitWidth, sub(x, y).words))
Negate(x) == Minus(Zero(x.BitWidth), x)

Complement(x) ==
  clearUnusedBits([x EXCEPT !.pVal = [i \in DOMAIN @ |-> W - 1 - @[i]]])
AndSlowCase(x, y) == [x EXCEPT !.pVal = [i \in DOMAIN @ |-> @[i] & y.pVal[i]]]
OrSlowCase(x, y) == [x EXCEPT !.pVal = [i \in DOMAIN @ |-> @[i] | y.pVal[i]]]
XorSlowCase(x, y) ==
  clearUnusedBits([x EXCEPT !.pVal = [i \in DOMAIN @ |-> @[i] ^^ y.pVal[i]]])

-----------------------------------------------------------------------------
(* Counting zeros, which says how much of a value is in use. *)

LeadingZeros(word, bits) ==
  CHOOSE n \in 0..bits : word < 2 ^ (bits - n) /\ (n = bits \/ word >= 2 ^ (bits - n - 1))

countLeadingZeros(x) ==
  LET step(acc, i) ==
        IF acc.found THEN acc
        ELSE [found |-> x.pVal[i] # 0, n |-> acc.n + LeadingZeros(x.pVal[i], WordBits)]
      all == LoopDown(step, [found |-> FALSE, n |-> 0], Top(x), 0).n
      remainder == x.BitWidth % WordBits
  IN  Lesser(IF remainder = 0 THEN all ELSE all - (WordBits - remainder), x.BitWidth)

getActiveBits(x) == x.BitWidth - countLeadingZeros(x)

\* The words of a value up to its last one that is not zero.
ActiveWords(x) ==
  LET wordsFor(bits) == IF bits = 0 THEN 0 ELSE whichWord(bits - 1) + 1
  IN  wordsFor(getActiveBits(x))

getZExtValue(x) == x.pVal[0]
getSExtValue(x) ==
  LET bits == Lesser(x.BitWidth, WordBits)
  IN  IF x.pVal[0] >= 2 ^ (bits - 1) THEN x.pVal[0] - 2 ^ bits ELSE x.pVal[0]

\* A shift amount given as an APInt: anything over the limit is the limit.
getLimitedValue(x, Limit) ==
  IF getActiveBits(x) > WordBits \/ getZExtValue(x) > Limit THEN Limit ELSE getZExtValue(x)

-----------------------------------------------------------------------------
(* Comparison. *)

EqualOver(x, y, n) ==
  IF n <= WordBits THEN x.pVal[0] = y.pVal[0]
  ELSE \A i \in 0..whichWord(n - 1) : x.pVal[i] = y.pVal[i]
EqualOfBits(x, y, n1, n2) == n1 = n2 /\ EqualOver(x, y, n1)
Equal(x, y) == EqualOfBits(x, y, getActiveBits(x), getActiveBits(y))

\* The most significant word that differs decides; it is looked for only
\* among the words in use.
LessOver(x, y, n) ==
  LET step(acc, i) == IF acc # 0 THEN acc ELSE x.pVal[i] - y.pVal[i]
  IN  IF n <= WordBits THEN x.pVal[0] < y.pVal[0]
      ELSE LoopDown(step, 0, whichWord(n - 1), 0) < 0
LessOfBits(x, y, n1, n2) == n1 < n2 \/ (n1 = n2 /\ LessOver(x, y, n1))
ult(x, y) == LessOfBits(x, y, getActiveBits(x), getActiveBits(y))
ule(x, y) == ult(x, y) \/ Equal(x, y)
uge(x, y) == ~ult(x, y)

\* Two words of one sign are compared by their magnitudes.
slt(x, y) ==
  LET magnitude(z) == IF isNegative(z) THEN Increment(Complement(z)) ELSE z
  IN  IF isSingleWord(x) THEN getSExtValue(x) < getSExtValue(y)
      ELSE IF isNegative(x)
      THEN isNegative(y) => ~ult(magnitude(x), magnitude(y)) /\ ~Equal(magnitude(x), magnitude(y))
      ELSE ~isNegative(y) /\ ult(x, y)

-----------------------------------------------------------------------------
(* Multiplication. *)

\* The high word and the low one from the sum `mid` of two middle products,
\* without what it carried, and the low half of d.
MultiplyHighWord(x, y, d, carried, mid) ==
  LET over == mid = 0 /\ carried
      none == mid = 0 /\ ~carried
      cross == lowHalf(x) * highHalf(y)
      sum == (mid + lowHalf(cross)) % W
  IN  [low |-> ShiftUp(sum, HalfBits) + lowHalf(d),
       high |-> ((IF (sum = 0 /\ ~none) \/ over THEN B ELSE 0)
                 + highHalf(sum) + highHalf(cross) + highHalf(x) * highHalf(y)) % W]

MultiplyMiddle(x, y, d, carried) ==
  MultiplyHighWord(x, y, d, carried,
    (highHalf(x) * lowHalf(y) + highHalf(d) + IF carried THEN B ELSE 0) % W)

\* x * y + carry of three words, by halves: the low word and the high one.
\* Four partial products, each of which fits a word; the sum of the middle
\* ones may not, which is what hasCarry is for.
MultiplyWord(x, y, carry) ==
  LET d == (carry + lowHalf(x) * lowHalf(y)) % W
  IN  MultiplyMiddle(x, y, d, d < carry)

StoreProduct(acc, i, p) == [dest |-> [acc.dest EXCEPT ![i] = p.low], carry |-> p.high]
StoreCarry(acc, i) == [acc.dest EXCEPT ![i] = acc.carry]

AddProduct(acc, i, p) ==
  LET d == (acc.dest[i] + p.low) % W
  IN  [dest |-> [acc.dest EXCEPT ![i] = d], carry |-> (p.high + Bit(d < p.low)) % W]

\* dest[0 .. xlen] = x[0 .. xlen - 1] * y
mul_1(dest, x, xlen, y) ==
  LET step(acc, i) == StoreProduct(acc, i, MultiplyWord(x[i], y, acc.carry))
  IN  StoreCarry(LoopUp(step, [dest |-> dest, carry |-> 0], 0, xlen - 1), xlen)

\* The first row sets dest, the later ones are added to it.
mul(x, xlen, y, ylen) ==
  LET row(dest, i) ==
        LET step(acc, j) == AddProduct(acc, i + j, MultiplyWord(x[j], y[i], acc.carry))
        IN  StoreCarry(LoopUp(step, [dest |-> dest, carry |-> 0], 0, xlen - 1), i + xlen)
  IN  LoopUp(row, mul_1([i \in 0..(xlen + ylen - 1) |-> 0], x, xlen, y[0]), 1, ylen - 1)

CopyWords(x, words, count) ==
  [x EXCEPT !.pVal = [i \in DOMAIN @ |-> IF i < count THEN words[i] ELSE 0]]

\* operator*=: the words that fit are copied back.  The bits above the width
\* are not cleared when the value has several words.
TimesAssign(x, RHS) ==
  LET lhsWords == ActiveWords(x)
      rhsWords == ActiveWords(RHS)
  IN  IF isSingleWord(x) THEN FromWord(x.BitWidth, (x.pVal[0] * RHS.pVal[0]) % W, FALSE)
      ELSE IF lhsWords = 0 THEN x
      ELSE IF rhsWords = 0 THEN Zero(x.BitWidth)
      ELSE CopyWords(x, mul(x.pVal, lhsWords, RHS.pVal, rhsWords), lhsWords + rhsWords)
Times(x, RHS) == clearUnusedBits(TimesAssign(x, RHS))

-----------------------------------------------------------------------------
(* Division: Knuth's algorithm D over half words. *)

\* Shifts count digits left by shift bits; the digit that falls out is spill.
Normalize(digits, count, shift) ==
  LET step(acc, i) ==
        [digits |-> [acc.digits EXCEPT ![i] = ((@ * 2 ^ shift) % B) + acc.spill],
         spill |-> acc.digits[i] \div 2 ^ (HalfBits - shift)]
  IN  LoopUp(step, [digits |-> digits, spill |-> 0], 0, count - 1)

Unnormalize(digits, count, shift) ==
  LET step(acc, i) ==
        [r |-> [acc.r EXCEPT ![i] = ShiftDown(digits[i], shift) + acc.carry],
         carry |-> (digits[i] * 2 ^ (HalfBits - shift)) % B]
  IN  LoopDown(step, [r |-> [i \in 0..(count - 1) |-> 0], carry |-> 0], count - 1, 0).r

\* D3: the quotient digit guessed from the two leading digits, corrected at
\* most twice with the help of the third.
TrialDigit(u, v, j, n) ==
  LET dividend == u[j + n] * B + u[j + n - 1]
      tooBig(qp, rp) == qp = B \/ qp * v[n - 2] > B * rp + u[j + n - 2]
      qp0 == dividend \div v[n - 1]
      rp0 == dividend % v[n - 1]
      rp1 == rp0 + v[n - 1]
  IN  IF ~tooBig(qp0, rp0) THEN qp0
      ELSE IF rp1 < B /\ tooBig(qp0 - 1, rp1) THEN qp0 - 2
      ELSE qp0 - 1

\* The borrow of D4 runs to the left until a digit can pay for it.
RECURSIVE Borrow(_, _, _)
Borrow(u, k, last) ==
  IF k > last THEN [u |-> u, borrow |-> TRUE]
  ELSE IF u[k] = 0 THEN Borrow([u EXCEPT ![k] = B - 1], k + 1, last)
  ELSE [u |-> [u EXCEPT ![k] = @ - 1], borrow |-> FALSE]

\* D4: u = u - qp * v, digit by digit; negative when a borrow is left over.
MultiplySubtract(u0, v, qp, j, n, last) ==
  LET step(acc, i) ==
        LET u_tmp == acc.u[j + i] + acc.u[j + i + 1] * B
            subtrahend == (qp * v[i]) % W
            result == (u_tmp - subtrahend) % W
            stored == [acc.u EXCEPT ![j + i] = lowHalf(result),
                                    ![j + i + 1] = highHalf(result)]
            paid == Borrow(stored, j + i + 2, last)
        IN  IF subtrahend > u_tmp
            THEN [u |-> paid.u, isNeg |-> acc.isNeg \/ paid.borrow]
            ELSE [acc EXCEPT !.u = stored]
  IN  LoopUp(step, [u |-> u0, isNeg |-> FALSE], 0, n - 1)

\* The b's complement of a negative result.
ComplementDigits(u, last) ==
  LET step(acc, i) ==
        LET d == ((B - 1 - acc.u[i]) + acc.carry) % B
        IN  [u |-> [acc.u EXCEPT ![i] = d], carry |-> Bit(acc.carry = 1 /\ d = 0)]
  IN  LoopUp(step, [u |-> u, carry |-> 1], 0, last).u

\* D6: adds v back to the digits from j.
AddBack(u, v, j, n) ==
  LET step(acc, i) ==
        LET limit == Lesser(acc.u[j + i], v[i])
            d == (acc.u[j + i] + v[i] + acc.carry) % B
        IN  [u |-> [acc.u EXCEPT ![j + i] = d],
             carry |-> Bit(d < limit \/ (acc.carry = 1 /\ d = limit))]
      done == LoopUp(step, [u |-> u, carry |-> 0], 0, n - 1)
  IN  [done.u EXCEPT ![j + n] = (@ + done.carry) % B]

\* One digit of the quotient: the guess qp, subtracted and, if that was too
\* much, added back.  addedBack says whether some digit needed D6, which the
\* program does not record.
StoreDigit(acc, v, m, n, j, q, subtracted) ==
  IF subtracted.isNeg
  THEN [u |-> AddBack(ComplementDigits(subtracted.u, m + n), v, j, n),
        q |-> [acc.q EXCEPT ![j] = (q - 1) % B], addedBack |-> TRUE]
  ELSE [acc EXCEPT !.u = subtracted.u, !.q[j] = q]
TryDigit(acc, v, m, n, j, qp) ==
  StoreDigit(acc, v, m, n, j, lowHalf(qp), MultiplySubtract(acc.u, v, qp, j, n, m + n))

\* The loop over the digits of the quotient, of normalized numbers.
KnuthLoop(normalU, v, m, n) ==
  LET step(acc, j) == TryDigit(acc, v, m, n, j, TrialDigit(acc.u, v, j, n))
  IN  LoopDown(step, [u |-> [normalU.digits EXCEPT ![m + n] = normalU.spill],
                      q |-> [i \in 0..(m + n) |-> 0], addedBack |-> FALSE], m, 0)
WithRemainder(done, n, shift) ==
  [q |-> done.q, addedBack |-> done.addedBack,
   r |-> IF shift = 0 THEN done.u ELSE Unnormalize(done.u, n, shift)]

\* u has m + n + 1 digits, v has n > 1 of them and does not start with zero.
KnuthDiv(u0, v0, m, n) ==
  LET shift == LeadingZeros(v0[n - 1], HalfBits)
  IN  WithRemainder(KnuthLoop(Normalize(u0, m + n, shift), Normalize(v0, n, shift).digits, m, n),
                    n, shift)

\* Short division by a single digit.
ShortDivide(u, divisor, count) ==
  LET step(acc, i) ==
        LET partial == acc.r[0] * B + u[i]
        IN  [acc EXCEPT !.q[i] = (partial \div divisor) % B, !.r[0] = partial % divisor]
  IN  LoopDown(step, [q |-> [i \in 0..(count - 1) |-> 0], r |-> [i \in 0..0 |-> 0],
                     addedBack |-> FALSE], count - 1, 0)

\* The value's first count words as half words.
Digits(x, count) ==
  [i \in 0..(2 * count - 1) |->
     IF i % 2 = 0 THEN lowHalf(x.pVal[i \div 2]) ELSE highHalf(x.pVal[i \div 2])]
\* How many of them are left when leading zeros are dropped.
Significant(digits, count) ==
  CHOOSE k \in 0..count :
    /\ \A i \in k..(count - 1) : digits[i] = 0
    /\ k > 0 => digits[k - 1] # 0
\* The digits put back into words, in a value of the given width.
FromDigits(width, digits) ==
  LET digit(i) == IF i \in DOMAIN digits THEN digits[i] ELSE 0
  IN  Make(width, [i \in Indices(width) |-> digit(2 * i) + digit(2 * i + 1) * B])

\* The quotient gets the dividend's width, the remainder the divisor's.
PutBack(LHS, RHS, n, done) ==
  [Quotient |-> FromDigits(LHS.BitWidth, done.q),
   addedBack |-> done.addedBack,
   Remainder |-> FromDigits(RHS.BitWidth, [i \in 0..(n - 1) |-> done.r[i]])]
DivideDigits(LHS, RHS, U, V, n, m) ==
  PutBack(LHS, RHS, n, IF n = 1 THEN ShortDivide(U, V[0], m + n) ELSE KnuthDiv(U, V, m, n))
DivideSignificant(LHS, lhsWords, RHS, V, n) ==
  LET U == Digits(LHS, lhsWords) @@ (2 * lhsWords :> 0)
  IN  DivideDigits(LHS, RHS, U, V, n, Significant(U, 2 * lhsWords) - n)
DivideBy(LHS, lhsWords, RHS, V, rhsWords) ==
  DivideSignificant(LHS, lhsWords, RHS, V, Significant(V, 2 * rhsWords))
divide(LHS, lhsWords, RHS, rhsWords) == DivideBy(LHS, lhsWords, RHS, Digits(RHS, rhsWords), rhsWords)

\* The cases decided without a division.
DivideWords(LHS, RHS, lhsWords, rhsWords) ==
  LET width == LHS.BitWidth
      easy(q, r) == [Quotient |-> q, Remainder |-> r, addedBack |-> FALSE]
  IN  IF lhsWords = 0 THEN easy(Zero(width), Zero(width))
      ELSE IF lhsWords < rhsWords \/ ult(LHS, RHS) THEN easy(Zero(width), LHS)
      ELSE IF Equal(LHS, RHS) THEN easy(One(width), Zero(width))
      ELSE IF lhsWords = 1 /\ rhsWords = 1
      THEN easy(FromWord(width, LHS.pVal[0] \div RHS.pVal[0], FALSE),
                FromWord(width, LHS.pVal[0] % RHS.pVal[0], FALSE))
      ELSE divide(LHS, lhsWords, RHS, rhsWords)
udivrem(LHS, RHS) == DivideWords(LHS, RHS, ActiveWords(LHS), ActiveWords(RHS))

udiv(x, RHS) ==
  IF isSingleWord(x) THEN FromWord(x.BitWidth, x.pVal[0] \div RHS.pVal[0], FALSE)
  ELSE IF ActiveWords(x) = 0 \/ ult(x, RHS) THEN Zero(x.BitWidth)
  ELSE IF Equal(x, RHS) THEN One(x.BitWidth)
  ELSE IF ActiveWords(x) = 1 THEN FromWord(x.BitWidth, x.pVal[0] \div RHS.pVal[0], FALSE)
  ELSE divide(x, ActiveWords(x), RHS, ActiveWords(RHS)).Quotient

urem(x, RHS) ==
  IF isSingleWord(x) THEN FromWord(x.BitWidth, x.pVal[0] % RHS.pVal[0], FALSE)
  ELSE IF ActiveWords(x) = 0 THEN Zero(x.BitWidth)
  ELSE IF ult(x, RHS) THEN x
  ELSE IF Equal(x, RHS) THEN Zero(x.BitWidth)
  ELSE IF ActiveWords(x) = 1 THEN FromWord(x.BitWidth, x.pVal[0] % RHS.pVal[0], FALSE)
  ELSE divide(x, ActiveWords(x), RHS, ActiveWords(RHS)).Remainder

\* The signed ones divide the magnitudes and fix the signs.
Absolute(x) == IF isNegative(x) THEN Negate(x) ELSE x
NegateIf(negate, x) == IF negate THEN Negate(x) ELSE x

sdiv(x, RHS) == NegateIf(isNegative(x) # isNegative(RHS), udiv(Absolute(x), Absolute(RHS)))
srem(x, RHS) == NegateIf(isNegative(x), urem(Absolute(x), Absolute(RHS)))

\* A negative dividend negates the quotient whatever the divisor's sign.
SignBoth(both, LHS, RHS) ==
  [Quotient |-> NegateIf(isNegative(LHS) \/ isNegative(RHS), both.Quotient),
   Remainder |-> NegateIf(isNegative(LHS), both.Remainder)]
sdivrem(LHS, RHS) == SignBoth(udivrem(Absolute(LHS), Absolute(RHS)), LHS, RHS)

-----------------------------------------------------------------------------
Ones(n) == W - 2 ^ n                     \* ~0ULL << n
AllOnes(width) == Complement(Zero(width))
Word(x, i) == x.pVal[i]
Shifted(x, words) == clearUnusedBits(Make(x.BitWidth, words))
\* A word made of two neighbours, the higher one's low bits on top.
Joined(low, high, shift) == ShiftDown(low, shift) + ShiftUp(high, WordBits - shift)

-----------------------------------------------------------------------------
(* Shifts. *)

lshr(x, shiftAmt) ==
  LET wordShift == shiftAmt % WordBits
      offset == shiftAmt \div WordBits
      breakWord == Top(x) - offset
  IN  IF shiftAmt = x.BitWidth THEN Zero(x.BitWidth)
      ELSE IF isSingleWord(x) THEN FromWord(x.BitWidth, ShiftDown(x.pVal[0], shiftAmt), FALSE)
      ELSE IF shiftAmt = 0 THEN x
      ELSE Shifted(x, [i \in Indices(x.BitWidth) |->
             IF i > breakWord THEN 0
             ELSE IF wordShift = 0 THEN Word(x, i + offset)
             ELSE IF i = breakWord THEN ShiftDown(Word(x, i + offset), wordShift)
             ELSE Joined(Word(x, i + offset), Word(x, i + offset + 1), wordShift)])

\* The sign bits go into the last word that keeps a part of the value, and
\* into the one below it when that part is shorter than the shift.
ashr(x, shiftAmt) ==
  LET wordShift == shiftAmt % WordBits
      offset == shiftAmt \div WordBits
      breakWord == Top(x) - offset
      bitsInWord == IF whichBit(x.BitWidth) = 0 THEN WordBits ELSE whichBit(x.BitWidth)
      negative == isNegative(x)
      moved(i) == IF wordShift = 0 THEN Word(x, i + offset)
                  ELSE IF i = breakWord THEN ShiftDown(Word(x, i + offset), wordShift)
                  ELSE Joined(Word(x, i + offset), Word(x, i + offset + 1), wordShift)
      signs(i) ==
        IF ~negative \/ i \notin {breakWord - 1, breakWord} THEN 0
        ELSE IF wordShift > bitsInWord
        THEN IF i = breakWord THEN W - 1 ELSE Ones(WordBits - (wordShift - bitsInWord))
        ELSE IF i = breakWord /\ bitsInWord - wordShift < WordBits
        THEN Ones(bitsInWord - wordShift) ELSE 0
  IN  IF shiftAmt = 0 THEN x
      ELSE IF isSingleWord(x)
      THEN IF shiftAmt = x.BitWidth THEN Zero(x.BitWidth)
           ELSE FromWord(x.BitWidth, (getSExtValue(x) \div 2 ^ shiftAmt) % W, FALSE)
      ELSE IF shiftAmt = x.BitWidth
      THEN IF negative THEN AllOnes(x.BitWidth) ELSE Zero(x.BitWidth)
      ELSE Shifted(x, [i \in Indices(x.BitWidth) |->
             IF i > breakWord THEN IF negative THEN W - 1 ELSE 0
             ELSE moved(i) | signs(i)])

shl(x, shiftAmt) ==
  LET wordShift == shiftAmt % WordBits
      offset == shiftAmt \div WordBits
  IN  IF shiftAmt = x.BitWidth THEN Zero(x.BitWidth)
      ELSE IF isSingleWord(x) THEN FromWord(x.BitWidth, ShiftUp(x.pVal[0], shiftAmt), FALSE)
      ELSE IF shiftAmt = 0 THEN x
      ELSE Shifted(x, [i \in Indices(x.BitWidth) |->
             IF i < offset THEN 0
             ELSE IF wordShift = 0 THEN Word(x, i - offset)
             ELSE IF i = offset THEN ShiftUp(Word(x, 0), wordShift)
             ELSE ShiftUp(Word(x, i - offset), wordShift)
                  + ShiftDown(Word(x, i - offset - 1), WordBits - wordShift)])

\* Shift amounts that are APInts are cut to the width first.
lshrBy(x, shiftAmt) == lshr(x, getLimitedValue(shiftAmt, x.BitWidth))
ashrBy(x, shiftAmt) == ashr(x, getLimitedValue(shiftAmt, x.BitWidth))
shlBy(x, shiftAmt) == shl(x, getLimitedValue(shiftAmt, x.BitWidth))

\* The shifts return their results and the rotations drop them.
rotl(x, rotateAmt) == IF rotateAmt = 0 THEN x ELSE OrSlowCase(x, x)
rotr(x, rotateAmt) == IF rotateAmt = 0 THEN x ELSE OrSlowCase(x, x)

getHiBits(x, numBits) == lshr(x, x.BitWidth - numBits)
getLoBits(x, numBits) == lshr(shl(x, x.BitWidth - numBits), x.BitWidth - numBits)

-----------------------------------------------------------------------------
(* Changes of width. *)

trunc(x, width) ==
  clearUnusedBits(Make(width, [i \in Indices(width) |-> x.pVal[i]]))

zext(x, width) ==
  Make(width, [i \in Indices(width) |-> IF i <= Top(x) THEN x.pVal[i] ELSE 0])

\* The last word of a negative value is filled from its own width upwards,
\* and the words above it with ones.
sext(x, width) ==
  LET wordBits == x.BitWidth % WordBits
      mask == IF wordBits = 0 THEN 0 ELSE Ones(wordBits)
  IN  IF ~isNegative(x) THEN zext(x, width)
      ELSE clearUnusedBits(Make(width, [i \in Indices(width) |->
             IF i < Top(x) THEN x.pVal[i]
             ELSE IF i = Top(x) THEN x.pVal[i] | mask
             ELSE W - 1]))

zextOrTrunc(x, width) ==
  IF x.BitWidth < width THEN zext(x, width)
  ELSE IF x.BitWidth > width THEN trunc(x, width) ELSE x
sextOrTrunc(x, width) ==
  IF x.BitWidth < width THEN sext(x, width)
  ELSE IF x.BitWidth > width THEN trunc(x, width) ELSE x

-----------------------------------------------------------------------------
(* Single bits and counting. *)

setBit(x, bit) == IF bitAt(x, bit) THEN x ELSE [x EXCEPT !.pVal[whichWord(bit)] = @ + maskBit(bit)]
clearBit(x, bit) == IF bitAt(x, bit) THEN [x EXCEPT !.pVal[whichWord(bit)] = @ - maskBit(bit)] ELSE x
flipBit(x, bit) == IF bitAt(x, bit) THEN clearBit(x, bit) ELSE setBit(x, bit)

LeadingOnes(word, bits) == LeadingZeros(2 ^ bits - 1 - word, bits)
TrailingZeros(word) ==
  CHOOSE n \in 0..WordBits : word % 2 ^ n = 0 /\ (n = WordBits \/ (word \div 2 ^ n) % 2 = 1)
PopulationOf(word) == Cardinality({i \in 0..(WordBits - 1) : (word \div 2 ^ i) % 2 = 1})

\* Whole words are counted while they are all ones; the first that is not
\* ends the count.
countLeadingOnes(x) ==
  LET highWordBits == IF whichBit(x.BitWidth) = 0 THEN WordBits ELSE whichBit(x.BitWidth)
      high == LeadingOnes(x.pVal[Top(x)], highWordBits)
      step(acc, i) ==
        IF acc.stop THEN acc
        ELSE [n |-> acc.n + LeadingOnes(x.pVal[i], WordBits), stop |-> x.pVal[i] # W - 1]
  IN  IF high < highWordBits THEN high
      ELSE LoopDown(step, [n |-> high, stop |-> FALSE], Top(x) - 1, 0).n

countTrailingZeros(x) ==
  LET step(acc, i) ==
        IF acc.stop THEN acc
        ELSE [n |-> acc.n + TrailingZeros(x.pVal[i]), stop |-> x.pVal[i] # 0]
  IN  Lesser(LoopUp(step, [n |-> 0, stop |-> FALSE], 0, Top(x)).n, x.BitWidth)

countTrailingOnes(x) ==
  LET step(acc, i) ==
        IF acc.stop THEN acc
        ELSE [n |-> acc.n + TrailingZeros(W - 1 - x.pVal[i]), stop |-> x.pVal[i] # W - 1]
  IN  Lesser(LoopUp(step, [n |-> 0, stop |-> FALSE], 0, Top(x)).n, x.BitWidth)

countPopulation(x) ==
  LET step(acc, i) == acc + PopulationOf(x.pVal[i]) IN LoopUp(step, 0, 0, Top(x))

isZero(x) == \A i \in DOMAIN x.pVal : x.pVal[i] = 0
isPowerOf2(x) == ~isZero(x) /\ isZero(AndSlowCase(x, Minus(x, One(x.BitWidth))))
logBase2(x) == x.BitWidth - 1 - countLeadingZeros(x)
abs(x) == IF isNegative(x) THEN Negate(x) ELSE x
getMinSignedBits(x) ==
  IF isNegative(x) THEN x.BitWidth - countLeadingOnes(x) + 1 ELSE getActiveBits(x) + 1

isMaxSignedValue(x) ==
  IF x.BitWidth = 1 THEN isZero(x)
  ELSE ~isNegative(x) /\ countPopulation(x) = x.BitWidth - 1
isMinSignedValue(x) == isNegative(x) /\ countPopulation(x) = 1
isIntN(x, N) == N >= x.BitWidth \/ Equal(zext(FromWords(N, [i \in 1..(Top(x) + 1) |-> x.pVal[i - 1]]), x.BitWidth), x)

getSignedMinValue(width) == setBit(Zero(width), width - 1)
getSignedMaxValue(width) == clearBit(AllOnes(width), width - 1)

getHighBitsSet(numBits, hiBitsSet) ==
  IF hiBitsSet = 0 THEN Zero(numBits)
  ELSE IF numBits <= WordBits THEN FromWord(numBits, Ones(numBits - hiBitsSet), FALSE)
  ELSE shl(AllOnes(numBits), numBits - hiBitsSet)

\* A mask of exactly one word is made from -1, whatever the width.
getLowBitsSet(numBits, loBitsSet) ==
  IF loBitsSet = 0 THEN Zero(numBits)
  ELSE IF loBitsSet = WordBits THEN FromWord(numBits, W - 1, FALSE)
  ELSE IF numBits < WordBits THEN FromWord(numBits, 2 ^ loBitsSet - 1, FALSE)
  ELSE lshr(AllOnes(numBits), numBits - loBitsSet)

\* The bits from loBit to hiBit, around the end when hiBit is the lower.
getBitsSet(numBits, loBit, hiBit) ==
  IF hiBit < loBit
  THEN OrSlowCase(getLowBitsSet(numBits, hiBit), getHighBitsSet(numBits, numBits - loBit))
  ELSE shl(getLowBitsSet(numBits, hiBit - loBit), loBit)

-----------------------------------------------------------------------------
(* Numbers as digits, most significant first, with an optional sign. *)

radixShift(radix) == CHOOSE s \in 0..4 : radix = 2 ^ s \/ (radix = 10 /\ s = 0)

\* Shifts or multiplies by the radix and adds the digit, all modulo the width.
fromString(width, digits, isNeg, radix) ==
  LET scale(x) ==
        IF Len(digits) = 1 THEN x
        ELSE IF radix # 10 THEN shl(x, Lesser(radixShift(radix), width))
        ELSE TimesAssign(x, FromWord(width, radix, FALSE))
      addDigit(x, digit) ==
        Plus(scale(x), Make(width, [i \in Indices(width) |-> IF i = 0 THEN digit ELSE 0]))
      value == FoldLeft(addDigit, Zero(width), digits)
  IN  IF isNeg THEN Complement(Decrement(value)) ELSE value

\* The digits of a value, least significant first: by masks and shifts, or by
\* dividing all the words by a four-bit ten.
RECURSIVE DigitsOf(_, _)
DecimalDigits(split) == <<getZExtValue(split.Remainder)>> \o DigitsOf(split.Quotient, 10)
DigitsOf(x, radix) ==
  IF isZero(x) THEN <<>>
  ELSE IF radix = 10 THEN DecimalDigits(divide(x, Top(x) + 1, FromWord(4, 10, FALSE), 1))
  ELSE <<x.pVal[0] % radix>> \o DigitsOf(lshr(x, Lesser(radixShift(radix), x.BitWidth)), radix)

RECURSIVE DigitsOfWord(_, _)
DigitsOfWord(n, radix) ==
  IF n = 0 THEN <<>> ELSE <<n % radix>> \o DigitsOfWord(n \div radix, radix)

toString(x, radix, signed) ==
  LET negative == signed /\ isNegative(x)
      magnitude == IF negative THEN Increment(Complement(x)) ELSE x
      single == IF negative THEN -getSExtValue(x) ELSE getZExtValue(x)
  IN  IF isZero(x) THEN [minus |-> FALSE, digits |-> <<0>>]
      ELSE [minus |-> negative,
            digits |-> Reverse(IF isSingleWord(x) THEN DigitsOfWord(single, radix)
                               ELSE DigitsOf(magnitude, radix))]

\* The width a string needs; only for decimal must the value be computed.
sufficient(slen) == IF slen = 1 THEN 4 ELSE (slen * 64) \div 18
decimalBits(log) == IF log = -1 THEN 1 ELSE log + 1
getBitsNeeded(digits, isNeg, radix) ==
  Bit(isNeg) + (IF radix # 10 THEN Len(digits) * radixShift(radix)
                ELSE decimalBits(logBase2(fromString(sufficient(Len(digits)), digits, FALSE, radix))))

-----------------------------------------------------------------------------
(* Number theory. *)

RECURSIVE GreatestCommonDivisor(_, _)
GreatestCommonDivisor(x, y) ==
  IF isZero(y) THEN x ELSE GreatestCommonDivisor(y, urem(x, y))

\* Euclid's algorithm on remainders r and factors t, in turns.
RECURSIVE Euclid(_, _, _, _)
EuclidTurn(r1, t0, t1, qr) == Euclid(r1, qr.Remainder, t1, Minus(t0, Times(t1, qr.Quotient)))
Euclid(r0, r1, t0, t1) ==
  IF isZero(r1) THEN [r |-> r0, t |-> t0] ELSE EuclidTurn(r1, t0, t1, udivrem(r0, r1))

InverseFrom(end, modulo) ==
  IF ~Equal(end.r, One(modulo.BitWidth)) THEN Zero(modulo.BitWidth)
  ELSE IF isNegative(end.t) THEN Plus(end.t, modulo) ELSE end.t
multiplicativeInverse(x, modulo) ==
  InverseFrom(Euclid(modulo, x, Zero(x.BitWidth), One(x.BitWidth)), modulo)

Half(x) == udiv(x, FromWord(x.BitWidth, 2, FALSE))

\* The Babylonian method, from a power of two at or above the root.
RECURSIVE Babylonian(_, _)
BabylonianTurn(x, x_old, x_new) == IF ule(x_old, x_new) THEN x_old ELSE Babylonian(x, x_new)
Babylonian(x, x_old) == BabylonianTurn(x, x_old, Half(Plus(udiv(x, x_old), x_old)))

RECURSIVE StartingRoot(_, _, _)
StartingRoot(x, i, testy) ==
  IF i >= x.BitWidth \/ ule(x, testy) THEN shl(One(x.BitWidth), i \div 2)
  ELSE StartingRoot(x, i + 2, shl(testy, 2))

\* The root of a small value comes from a table or from a double: the nearest
\* integer.  A larger one is rounded up when its distance from the square is
\* the half of the distance between two squares, or more.  The assertion
\* fails when the next square is beyond the width.
NearestRoot(n) == IF n = 0 THEN 0 ELSE CHOOSE k \in 1..n : k * k - k < n /\ n <= k * k + k
NearerRoot(x, root, next, square, nextSquare) ==
  [fails |-> ~ult(x, square) /\ ult(nextSquare, x),
   root |-> IF ult(x, square) \/ ult(Minus(x, square), Half(Minus(nextSquare, square)))
            THEN root ELSE next]
CompareSquares(x, root, next) == NearerRoot(x, root, next, Times(root, root), Times(next, next))
RootOrNext(x, root) == CompareSquares(x, root, Plus(root, One(x.BitWidth)))
sqrt(x) ==
  IF getActiveBits(x) < DoubleBits
  THEN [fails |-> FALSE, root |-> FromWord(x.BitWidth, NearestRoot(x.pVal[0]), FALSE)]
  ELSE RootOrNext(x, Babylonian(x, StartingRoot(x, 4, FromWord(x.BitWidth, 16, FALSE))))

-----------------------------------------------------------------------------
(* Division by a constant as multiplication: "Hacker's Delight", ch. 10. *)

Double(x) == shl(x, 1)

\* One doubling of the quotient and the remainder of a power of two by d.
CarryDouble(q, r, d) ==
  IF uge(r, d) THEN <<Plus(q, One(d.BitWidth)), Minus(r, d)>> ELSE <<q, r>>
DoubleStep(qr, d) == CarryDouble(Double(qr[1]), Double(qr[2]), d)

\* Whether the quotient is still too small for the error delta.
TooSmall(q, r, delta) == ult(q, delta) \/ (Equal(q, delta) /\ isZero(r))
TooSmallSigned(qr, delta) == ule(qr[1], delta) \/ (Equal(qr[1], delta) /\ isZero(qr[2]))

RECURSIVE MagicLoop(_, _, _, _, _)
MagicTurn(p, one, two, anc, ad) ==
  IF TooSmallSigned(one, Minus(ad, two[2])) THEN MagicLoop(p, one, two, anc, ad)
  ELSE [m |-> Plus(two[1], One(ad.BitWidth)), s |-> p - ad.BitWidth]
MagicLoop(p, qr1, qr2, anc, ad) == MagicTurn(p + 1, DoubleStep(qr1, anc), DoubleStep(qr2, ad), anc, ad)

\* A quotient of the dividend n with its remainder.
WithRest(n, d, q) == <<q, Minus(n, Times(q, d))>>
QuotientAndRest(n, d) == WithRest(n, d, udiv(n, d))

MagicOf(width, signedMin, anc, ad) ==
  MagicLoop(width - 1, QuotientAndRest(signedMin, anc), QuotientAndRest(signedMin, ad), anc, ad)
LargestMultiple(t, ad) == Minus(Minus(t, One(ad.BitWidth)), urem(t, ad))
NegateMagic(negative, mag) == IF negative THEN [mag EXCEPT !.m = Negate(@)] ELSE mag
magic(d) ==
  LET signedMin == getSignedMinValue(d.BitWidth)
      t == Plus(signedMin, lshr(d, d.BitWidth - 1))
  IN  NegateMagic(isNegative(d), MagicOf(d.BitWidth, signedMin, LargestMultiple(t, abs(d)), abs(d)))

\* The doublings of magicu: q1 and r1 of a power of two, q2 and r2 of one
\* less, where the quotient goes `up` by one more or not.
Twice(x) == Plus(x, x)
DoubleLess(qr, nc) ==
  IF uge(qr[2], Minus(nc, qr[2])) THEN <<Plus(Twice(qr[1]), One(nc.BitWidth)), Minus(Twice(qr[2]), nc)>>
  ELSE <<Twice(qr[1]), Twice(qr[2])>>

DoubleUp(qr, d, up) ==
  LET q == Twice(qr[1])
      r == Plus(Twice(qr[2]), One(d.BitWidth))
  IN  IF up THEN <<Plus(q, One(d.BitWidth)), Minus(r, d)>> ELSE <<q, r>>
\* Whether it does, and whether the quotient no longer fits the width.
GoesUp(qr, d) == uge(Plus(qr[2], One(d.BitWidth)), Minus(d, qr[2]))
Wraps(qr, d, up) == uge(qr[1], IF up THEN getSignedMaxValue(d.BitWidth) ELSE getSignedMinValue(d.BitWidth))

RECURSIVE MagicuLoop(_, _, _, _, _, _)
MagicuTurn(p, one, two, a, nc, d) ==
  IF p < 2 * d.BitWidth /\ TooSmall(one[1], one[2], Minus(Minus(d, One(d.BitWidth)), two[2]))
  THEN MagicuLoop(p, one, two, a, nc, d)
  ELSE [m |-> Plus(two[1], One(d.BitWidth)), a |-> a, s |-> p - d.BitWidth]
MagicuLoop(p, qr1, qr2, a, nc, d) ==
  LET up == GoesUp(qr2, d)
  IN  MagicuTurn(p + 1, DoubleLess(qr1, nc), DoubleUp(qr2, d, up), a \/ Wraps(qr2, d, up), nc, d)

MagicuFrom(d, nc) ==
  MagicuLoop(d.BitWidth - 1, QuotientAndRest(getSignedMinValue(d.BitWidth), nc),
             QuotientAndRest(getSignedMaxValue(d.BitWidth), d), FALSE, nc, d)
magicu(d) == MagicuFrom(d, Minus(AllOnes(d.BitWidth), urem(Negate(d), d)))

=============================================================================
