------------------------------- MODULE Bignum -------------------------------
(***************************************************************************)
(* The tc functions of llvm/APInt.cpp: arithmetic on bare arrays of parts, *)
(* which the floating point numbers keep their significands in.  There is  *)
(* no width: the caller says how many parts an array has, and the          *)
(* functions return the carry, the overflow or the parts needed.           *)
(***************************************************************************)
EXTENDS APInt

Parts(dst) == Cardinality(DOMAIN dst)
None == -1                                         \* -1U

lowBitMask(bits) == 2 ^ bits - 1

\* Binary search for the highest and the lowest bit of a part.
RECURSIVE SearchMSB(_, _, _)
SearchMSB(value, n, msb) ==
  IF n = 0 THEN msb
  ELSE IF ShiftDown(value, n) # 0 THEN SearchMSB(ShiftDown(value, n), n \div 2, msb + n)
  ELSE SearchMSB(value, n \div 2, msb)
partMSB(value) == IF value = 0 THEN None ELSE SearchMSB(value, HalfBits, 0)

RECURSIVE SearchLSB(_, _, _)
SearchLSB(value, n, lsb) ==
  IF n = 0 THEN lsb
  ELSE IF ShiftUp(value, n) # 0 THEN SearchLSB(ShiftUp(value, n), n \div 2, lsb - n)
  ELSE SearchLSB(value, n \div 2, lsb)
partLSB(value) == IF value = 0 THEN None ELSE SearchLSB(value, HalfBits, WordBits - 1)

tcSet(part, parts) == [i \in 0..(parts - 1) |-> IF i = 0 THEN part ELSE 0]
tcIsZero(src) == \A i \in DOMAIN src : src[i] = 0
tcExtractBit(parts, bit) == (parts[whichWord(bit)] \div maskBit(bit)) % 2 = 1
tcSetBit(parts, bit) == [parts EXCEPT ![whichWord(bit)] = @ | maskBit(bit)]

tcLSB(parts) ==
  IF tcIsZero(parts) THEN None
  ELSE LET i == CHOOSE i \in DOMAIN parts :
                  parts[i] # 0 /\ \A k \in DOMAIN parts : k < i => parts[k] = 0
       IN  partLSB(parts[i]) + i * WordBits
tcMSB(parts) ==
  IF tcIsZero(parts) THEN None
  ELSE LET i == CHOOSE i \in DOMAIN parts :
                  parts[i] # 0 /\ \A k \in DOMAIN parts : k > i => parts[k] = 0
       IN  partMSB(parts[i]) + i * WordBits

\* Each part is written after the parts it is made of, from the top.
tcShiftLeft(dst, count) ==
  LET jump == count \div WordBits
      shift == count % WordBits
      step(acc, i) ==
        LET high == ShiftUp(acc[i - jump], shift)
            low == IF shift # 0 /\ i >= jump + 1
                   THEN ShiftDown(acc[i - jump - 1], WordBits - shift) ELSE 0
        IN  [acc EXCEPT ![i] = IF i >= jump THEN high + low ELSE 0]
  IN  IF count = 0 THEN dst ELSE LoopDown(step, dst, Parts(dst) - 1, 0)

\* And from the bottom.
tcShiftRight(dst, count) ==
  LET jump == count \div WordBits
      shift == count % WordBits
      parts == Parts(dst)
      step(acc, i) ==
        LET low == ShiftDown(acc[i + jump], shift)
            high == IF shift # 0 /\ i + jump + 1 < parts
                    THEN ShiftUp(acc[i + jump + 1], WordBits - shift) ELSE 0
        IN  [acc EXCEPT ![i] = IF i + jump >= parts THEN 0 ELSE low + high]
  IN  IF count = 0 THEN dst ELSE LoopUp(step, dst, 0, parts - 1)

\* srcBits bits of src from srcLSB, in dstCount parts.  The last part gets
\* what the shift has left out, or loses what it has too much.
tcExtract(dstCount, src, srcBits, srcLSB) ==
  LET dstParts == (srcBits + WordBits - 1) \div WordBits
      first == srcLSB \div WordBits
      shift == srcLSB % WordBits
      moved == tcShiftRight([i \in 0..(dstParts - 1) |-> src[first + i]], shift)
      n == dstParts * WordBits - shift
      last == moved[dstParts - 1]
      fixed == IF n < srcBits
               THEN last | ShiftUp(src[first + dstParts] & lowBitMask(srcBits - n), n % WordBits)
               ELSE IF n > srcBits /\ srcBits % WordBits # 0
               THEN last & lowBitMask(srcBits % WordBits)
               ELSE last
  IN  [i \in 0..(dstCount - 1) |->
         IF i >= dstParts THEN 0 ELSE IF i = dstParts - 1 THEN fixed ELSE moved[i]]

\* With a carry in, an unchanged part has carried.  d is the new part.
AddedPart(acc, i, d) ==
  [dst |-> [acc.dst EXCEPT ![i] = d],
   c |-> Bit(IF acc.c = 1 THEN d <= acc.dst[i] ELSE d < acc.dst[i])]
SubtractedPart(acc, i, d) ==
  [dst |-> [acc.dst EXCEPT ![i] = d],
   c |-> Bit(IF acc.c = 1 THEN d >= acc.dst[i] ELSE d > acc.dst[i])]
tcAdd(dst, rhs, c) ==
  LET step(acc, i) ==
        AddedPart(acc, i, (acc.dst[i] + rhs[i] + acc.c) % W)
  IN  LoopUp(step, [dst |-> dst, c |-> c], 0, Parts(dst) - 1)
tcSubtract(dst, rhs, c) ==
  LET step(acc, i) ==
        SubtractedPart(acc, i, (acc.dst[i] - rhs[i] - acc.c) % W)
  IN  LoopUp(step, [dst |-> dst, c |-> c], 0, Parts(dst) - 1)

tcComplement(dst) == [i \in DOMAIN dst |-> W - 1 - dst[i]]
tcIncrement(dst) ==
  LET step(acc, i) ==
        IF acc.c = 0 THEN acc
        ELSE [dst |-> [acc.dst EXCEPT ![i] = (@ + 1) % W], c |-> Bit(acc.dst[i] = W - 1)]
  IN  LoopUp(step, [dst |-> dst, c |-> 1], 0, Parts(dst) - 1)
tcNegate(dst) == tcIncrement(tcComplement(dst)).dst
tcAnd(dst, rhs) == [i \in DOMAIN dst |-> dst[i] & rhs[i]]
tcOr(dst, rhs) == [i \in DOMAIN dst |-> dst[i] | rhs[i]]
tcXor(dst, rhs) == [i \in DOMAIN dst |-> dst[i] ^^ rhs[i]]

tcCompare(lhs, rhs) ==
  LET step(acc, i) ==
        IF acc # 0 \/ lhs[i] = rhs[i] THEN acc ELSE IF lhs[i] > rhs[i] THEN 1 ELSE -1
  IN  LoopDown(step, 0, Parts(lhs) - 1, 0)

tcSetLeastSignificantBits(parts, bits) ==
  [i \in 0..(parts - 1) |->
     IF (i + 1) * WordBits <= bits THEN W - 1
     ELSE IF i * WordBits < bits THEN lowBitMask(bits - i * WordBits) ELSE 0]

\* low and high of a * b + carry, the middle products added one at a time.
AddedWord(acc, sum) == [low |-> sum, high |-> acc.high + Bit(sum < acc.low)]
AddWord(acc, x) == AddedWord(acc, (acc.low + x) % W)
AddMiddle(acc, mid) == AddWord([acc EXCEPT !.high = @ + highHalf(mid)], ShiftUp(mid, HalfBits))
EndProducts(a, b) == [low |-> lowHalf(a) * lowHalf(b), high |-> highHalf(a) * highHalf(b)]
MultiplyPart(a, b, carry) ==
  IF a = 0 \/ b = 0 THEN [low |-> carry, high |-> 0]
  ELSE AddWord(AddMiddle(AddMiddle(EndProducts(a, b), lowHalf(a) * highHalf(b)),
                         highHalf(a) * lowHalf(b)), carry)

\* dst[at ..] = src * multiplier + carry, plus the old dst when adding; in
\* dstParts parts, with one more than src has when nothing may be lost.
StorePart(acc, i, low, p) ==
  [dst |-> [acc.dst EXCEPT ![i] = low], carry |-> p.high + Bit(low < p.low)]
StoreOrAdd(acc, i, p, adding) ==
  StorePart(acc, i, IF adding THEN (p.low + acc.dst[i]) % W ELSE p.low, p)
CarryOut(done, at, n, src, multiplier, srcParts, dstParts) ==
  IF n < dstParts
  THEN [dst |-> [done.dst EXCEPT ![at + n] = done.carry], overflow |-> FALSE]
  ELSE [dst |-> done.dst,
        overflow |-> \/ done.carry # 0
                     \/ multiplier # 0 /\ \E i \in n..(srcParts - 1) : src[i] # 0]
MultiplyParts(dst, at, n, src, multiplier, carry, adding) ==
  LET step(acc, i) == StoreOrAdd(acc, at + i, MultiplyPart(multiplier, src[i], acc.carry), adding)
  IN  LoopUp(step, [dst |-> dst, carry |-> carry], 0, n - 1)
tcMultiplyPart(dst, at, src, multiplier, carry, srcParts, dstParts, adding) ==
  CarryOut(MultiplyParts(dst, at, Lesser(dstParts, srcParts), src, multiplier, carry, adding),
           at, Lesser(dstParts, srcParts), src, multiplier, srcParts, dstParts)

tcMultiply(lhs, rhs) ==
  LET parts == Parts(lhs)
      also(row, overflow) == [row EXCEPT !.overflow = @ \/ overflow]
      step(acc, i) ==
        also(tcMultiplyPart(acc.dst, i, lhs, rhs[i], 0, parts, parts - i, TRUE), acc.overflow)
  IN  LoopUp(step, [dst |-> tcSet(0, parts), overflow |-> FALSE], 0, parts - 1)

\* Only the parts of the longer operand are cleared first: each row writes
\* the next one before a later row reads it.  fresh is what was there.
UsedParts(dst) == [dst |-> dst, used |-> Parts(dst) - Bit(dst[Parts(dst) - 1] = 0)]
MultiplyRows(lhs, rhs, fresh) ==
  LET rhsParts == Parts(rhs)
      start == [i \in 0..(Parts(lhs) + rhsParts - 1) |-> IF i < rhsParts THEN 0 ELSE fresh]
      row(dst, k) == tcMultiplyPart(dst, k, rhs, lhs[k], 0, rhsParts, rhsParts + 1, TRUE).dst
  IN  LoopUp(row, start, 0, Parts(lhs) - 1)
tcFullMultiply(lhs, rhs, fresh) ==
  UsedParts(IF Parts(lhs) > Parts(rhs) THEN MultiplyRows(rhs, lhs, fresh)
            ELSE MultiplyRows(lhs, rhs, fresh))

\* Shift and subtract, from the position where the divisor's top bit meets
\* the top of the array.
DivideTurn(d, shiftCount) ==
  IF tcCompare(d.remainder, d.srhs) < 0 THEN d
  ELSE [d EXCEPT !.remainder = tcSubtract(@, d.srhs, 0).dst, !.lhs = tcSetBit(@, shiftCount)]
RECURSIVE DivideLoop(_, _)
DivideLoop(d, shiftCount) ==
  IF shiftCount = 0 THEN d
  ELSE DivideLoop(DivideTurn([d EXCEPT !.srhs = tcShiftRight(@, 1)], shiftCount - 1),
                  shiftCount - 1)
DivideFrom(lhs, rhs, zero, shiftCount) ==
  DivideLoop(DivideTurn([refused |-> FALSE, lhs |-> zero, remainder |-> lhs,
                         srhs |-> tcShiftLeft(rhs, shiftCount)], shiftCount), shiftCount)

\* A divisor of zero is refused and changes nothing.
tcDivide(lhs, rhs) ==
  IF tcIsZero(rhs) THEN [refused |-> TRUE, lhs |-> lhs, remainder |-> tcSet(0, Parts(lhs))]
  ELSE DivideFrom(lhs, rhs, tcSet(0, Parts(lhs)), Parts(lhs) * WordBits - (tcMSB(rhs) + 1))
=============================================================================
