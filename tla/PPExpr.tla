------------------------------- MODULE PPExpr -------------------------------
(***************************************************************************)
(* Lex/PPExpressions.cpp: the condition of #if and #elif.  The expression  *)
(* is a sequence of tokens [k, t]: k is the kind, t the characters of a    *)
(* literal or the name of an identifier.  Macros have been expanded, so an *)
(* identifier that is not the operand of `defined` has no definition.      *)
(*                                                                         *)
(* A partial evaluation is a record: `pos` is PeekTok, `val` the PPValue,  *)
(* `form` and `macro` the DefinedTracker, `diags` the warnings given, each *)
(* with the position of its token, `error` the diagnostic that ended it.   *)
(***************************************************************************)
EXTENDS Literals, Bitwise

CONSTANTS
    Width,      \* bits of the integers of a condition
    CastBits    \* bits of the unsigned to which a shift amount is cut

ASSUME WidthAssumption == Width \in Nat \ {0}

-----------------------------------------------------------------------------
(* llvm/APSInt.h and the single-word paths of llvm/APInt: an integer of    *)
(* Width bits that knows whether it is unsigned.                           *)

(* The constructor, with clearUnusedBits; `val` may be any integer.        *)
APInt(val, unsigned) == [bits |-> val % 2^Width, unsigned |-> unsigned]

SetIsUnsigned(a, unsigned) == [a EXCEPT !.unsigned = unsigned]

BoolValue(b) == IF b THEN 1 ELSE 0

IsNegative(a)       == a.bits >= 2^(Width - 1)
IsMinSignedValue(a) == a.bits = 2^(Width - 1)
IsAllOnesValue(a)   == a.bits = 2^Width - 1
SExt(a)             == IF IsNegative(a) THEN a.bits - 2^Width ELSE a.bits

CountLeadingZeros(a) == Max({n \in 0..Width : a.bits < 2^(Width - n)})
CountLeadingOnes(a)  == CountLeadingZeros(APInt(-1 - a.bits, a.unsigned))

Negate(a)     == APInt(0 - a.bits, a.unsigned)
Complement(a) == APInt(-1 - a.bits, a.unsigned)

Add(a, b) == APInt(a.bits + b.bits, a.unsigned)
Sub(a, b) == APInt(a.bits - b.bits, a.unsigned)
Mul(a, b) == APInt(a.bits * b.bits, a.unsigned)
BitAnd(a, b) == APInt(a.bits & b.bits, a.unsigned)
BitOr(a, b)  == APInt(a.bits | b.bits, a.unsigned)
BitXor(a, b) == APInt(a.bits ^^ b.bits, a.unsigned)

UDiv(a, b) == [a EXCEPT !.bits = @ \div b.bits]
URem(a, b) == [a EXCEPT !.bits = @ % b.bits]

Abs(a) == IF IsNegative(a) THEN Negate(a) ELSE a

SDiv(a, b) ==
    LET q == UDiv(Abs(a), Abs(b))
    IN IF IsNegative(a) # IsNegative(b) THEN Negate(q) ELSE q

(* The remainder has the sign of the dividend.                             *)
SRem(a, b) ==
    LET r == URem(Abs(a), Abs(b))
    IN IF IsNegative(a) THEN Negate(r) ELSE r

Div(a, b) == IF a.unsigned THEN UDiv(a, b) ELSE SDiv(a, b)
Rem(a, b) == IF a.unsigned THEN URem(a, b) ELSE SRem(a, b)

(* shiftAmt < Width, as at every call here.                                *)
Shl(a, shiftAmt) == APInt(a.bits * 2^shiftAmt, a.unsigned)
Shr(a, shiftAmt) ==
    APInt((IF a.unsigned THEN a.bits ELSE SExt(a)) \div 2^shiftAmt, a.unsigned)

Lt(a, b) == IF a.unsigned THEN a.bits < b.bits ELSE SExt(a) < SExt(b)
Le(a, b) == Lt(a, b) \/ a.bits = b.bits

-----------------------------------------------------------------------------
(* The state of an evaluation.                                             *)

NoMacro == <<>>

Zero(unsigned) == APInt(0, unsigned)
Eom == [k |-> "eom", t |-> <<>>]
Peek(toks, p) == IF p.pos <= Len(toks) THEN toks[p.pos] ELSE Eom

Eat(p)          == [p EXCEPT !.pos = @ + 1]
Fail(p, what)   == [p EXCEPT !.error = what]
Warn(p, cond, what, at) ==
    IF cond THEN [p EXCEPT !.diags = @ \cup {<<what, at>>}] ELSE p
Failed(p)       == p.error # ""
Give(p, val)    == [p EXCEPT !.val = val, !.pos = @ + 1]
Unknown(p)      == [p EXCEPT !.form = "Unknown", !.macro = NoMacro]

-----------------------------------------------------------------------------
(* EvaluateValue: a primary or unary expression.                           *)

EvaluateIdentifier(p, live) ==
    Give(Warn(p, live, "undef_identifier", p.pos), Zero(FALSE))

(* `p` is at the token after `defined`.                                    *)
EvaluateDefined(toks, defs, p) ==
    LET paren == Peek(toks, p).k = "("
        name  == IF paren THEN Eat(p) ELSE p
        id    == Peek(toks, name)
        val   == APInt(BoolValue(id.t \in defs), FALSE)
        done  == [Give(name, val) EXCEPT !.form = "DefinedMacro", !.macro = id.t]
    IN CASE id.k # "id" -> Fail(name, "defined_requires_identifier")
         [] paren /\ Peek(toks, done).k # ")" -> Fail(done, "missing_rparen")
         [] OTHER -> IF paren THEN Eat(done) ELSE done

(* An integer of type intmax_t, signed if it can be; `read` is its value.  *)
IntegerOperand(p, live, lit, read) ==
    LET val      == APInt(read.val, lit.isUnsigned)
        tooLarge == ~read.overflow /\ ~lit.isUnsigned /\ IsNegative(val)
        warned   == Warn(Warn(p, live /\ read.overflow, "too_large", p.pos),
                         live /\ tooLarge /\ lit.radix # 16, "too_large_for_signed", p.pos)
    IN Give(warned, IF read.overflow \/ tooLarge THEN SetIsUnsigned(val, TRUE) ELSE val)

NumericOperand(t, p, live, lit) ==
    CASE lit.hadError -> Fail(p, "literal")
      [] IsFloatingLiteral(lit) \/ lit.isImaginary -> Fail(p, "floating_literal")
      [] OTHER -> IntegerOperand(p, live, lit, GetIntegerValue(t, lit, Width))

EvaluateNumber(toks, p, live) ==
    LET t == Peek(toks, p).t IN NumericOperand(t, p, live, NumericLiteralParser(t))

(* The constant is signed, of the width of int, wchar_t or char, and is    *)
(* extended to intmax_t; LitVal is narrower than any of them.              *)
CharOperand(p, lit) ==
    CASE lit.fault    -> Fail(p, "assertion")
      [] lit.hadError -> Fail(p, "literal")
      [] OTHER        -> Give(p, APInt(lit.val, FALSE))

EvaluateChar(toks, p) == CharOperand(p, CharLiteralParser(Peek(toks, p).t))

Negated(p, at, live) ==
    LET val == Negate(p.val)
    IN Unknown(Warn([p EXCEPT !.val = val],
                    live /\ ~val.unsigned /\ IsMinSignedValue(val), "overflow", at))

(* ~!defined(X) is taken for !defined(X).                                  *)
Complemented_Keeps(p) == [p EXCEPT !.val = Complement(@)]

Complemented(p) == Unknown([p EXCEPT !.val = Complement(@)])

(* Two negations are taken for one.                                        *)
LogicalNot_Once(p) ==
    [p EXCEPT !.val  = APInt(BoolValue(p.val.bits = 0), FALSE),
              !.form = IF p.form = "DefinedMacro" THEN "NotDefinedMacro" ELSE p.form]

LogicalNot(p) ==
    [p EXCEPT !.val  = APInt(BoolValue(p.val.bits = 0), FALSE),
              !.form = CASE p.form = "DefinedMacro"    -> "NotDefinedMacro"
                         [] p.form = "NotDefinedMacro" -> "DefinedMacro"
                         [] OTHER                      -> p.form]

getPrecedence(k) ==
    CASE k \in {"%", "/", "*"}         -> 14
      [] k \in {"+", "-"}              -> 13
      [] k \in {"<<", ">>"}            -> 12
      [] k \in {"<=", "<", ">=", ">"}  -> 11
      [] k \in {"!=", "=="}            -> 10
      [] k = "&"                       -> 9
      [] k = "^"                       -> 8
      [] k = "|"                       -> 7
      [] k = "&&"                      -> 6
      [] k = "||"                      -> 5
      [] k = "?"                       -> 4
      [] k = ","                       -> 3
      [] k = ":"                       -> 2
      [] k \in {")", "eom"}            -> 0
      [] OTHER                         -> -1     \* ~0U, an invalid token

RECURSIVE EvaluateValue(_, _, _, _), EvaluateDirectiveSubExpr(_, _, _, _, _)

(* (!defined(X) && Y) is taken for (!defined(X)).                          *)
CloseParenthesis_Keeps(toks, rest) ==
    CASE Failed(rest)            -> rest
      [] Peek(toks, rest).k # ")" -> Fail(rest, "expected_rparen")
      [] OTHER                   -> Eat(rest)

CloseParenthesis(toks, rest) ==
    CASE Failed(rest)            -> rest
      [] Peek(toks, rest).k # ")" -> Fail(rest, "expected_rparen")
      [] OTHER                   -> Eat(Unknown(rest))

(* `first` is the first operand in the parentheses.                        *)
InParentheses(toks, defs, first, live) ==
    CASE Failed(first)             -> first
      [] Peek(toks, first).k = ")" -> Eat(first)
      [] OTHER -> CloseParenthesis(toks, EvaluateDirectiveSubExpr(toks, defs, first, 1, live))

ApplyUnary(op, operand, at, live) ==
    CASE Failed(operand) -> operand
      [] op = "+"        -> operand
      [] op = "-"        -> Negated(operand, at, live)
      [] op = "~"        -> Complemented(operand)
      [] OTHER           -> LogicalNot(operand)

EvaluateValue(toks, defs, p0, live) ==
    LET p   == Unknown(p0)
        tok == Peek(toks, p)
    IN CASE tok.k = "id" /\ tok.t = <<"defined">> -> EvaluateDefined(toks, defs, Eat(p))
         [] tok.k = "id"           -> EvaluateIdentifier(p, live)
         [] tok.k = "num"          -> EvaluateNumber(toks, p, live)
         [] tok.k = "char"         -> EvaluateChar(toks, p)
         [] tok.k = "("            ->
              InParentheses(toks, defs, EvaluateValue(toks, defs, Eat(p), live), live)
         [] tok.k \in {"eom", ")"} -> Fail(p, "expected_value_in_expr")
         [] tok.k \notin {"+", "-", "~", "!"} -> Fail(p, "bad_token_start_expr")
         [] OTHER -> ApplyUnary(tok.k, EvaluateValue(toks, defs, Eat(p), live), p.pos, live)

-----------------------------------------------------------------------------
(* The binary operators.  A result is [val, overflow, error].              *)

NoUAC == {"?", "<<", ">>", ",", "||", "&&"}

Result(val, overflow) == [val |-> val, overflow |-> overflow, error |-> ""]
Truth(b) == Result(APInt(BoolValue(b), FALSE), FALSE)

(* Nothing is computed when the divisor is 0 and the operand is dead.      *)
Divide(op, l, r, live) ==
    CASE r.bits # 0 /\ op = "/" ->
           Result(Div(l, r), ~l.unsigned /\ IsMinSignedValue(l) /\ IsAllOnesValue(r))
      [] r.bits # 0 -> Result(Rem(l, r), FALSE)
      [] OTHER -> [Result(Zero(l.unsigned), FALSE) EXCEPT
                     !.error = CASE ~live -> "" [] op = "/" -> "division_by_zero"
                                 [] OTHER -> "remainder_by_zero"]

Multiply(l, r) ==
    LET res == Mul(l, r)
    IN Result(res, /\ ~res.unsigned /\ l.bits # 0 /\ r.bits # 0
                   /\ Div(res, r) # l \/ Div(res, l) # r)

ShiftAmount(r) == r.bits % 2^CastBits

ShiftLeft(l, r) ==
    LET amt == ShiftAmount(r)
    IN IF amt >= Width THEN Result(Shl(l, Width - 1), TRUE)
       ELSE Result(Shl(l, amt),
                   CASE l.unsigned    -> FALSE
                     [] IsNegative(l) -> amt >= CountLeadingOnes(l)
                     [] OTHER         -> amt >= CountLeadingZeros(l))

ShiftRight(l, r) ==
    LET amt == ShiftAmount(r)
    IN IF amt >= Width THEN Result(Shr(l, Width - 1), TRUE) ELSE Result(Shr(l, amt), FALSE)

Plus(l, r) ==
    LET res == Add(l, r)
    IN Result(res, /\ ~l.unsigned /\ IsNegative(l) = IsNegative(r)
                   /\ IsNegative(res) # IsNegative(l))

Minus(l, r) ==
    LET res == Sub(l, r)
    IN Result(res, /\ ~l.unsigned /\ IsNegative(l) # IsNegative(r)
                   /\ IsNegative(res) # IsNegative(l))

Binary(op, l, r, live) ==
    CASE op \in {"/", "%"} -> Divide(op, l, r, live)
      [] op = "*"  -> Multiply(l, r)
      [] op = "<<" -> ShiftLeft(l, r)
      [] op = ">>" -> ShiftRight(l, r)
      [] op = "+"  -> Plus(l, r)
      [] op = "-"  -> Minus(l, r)
      [] op = "<=" -> Truth(Le(l, r))
      [] op = "<"  -> Truth(Lt(l, r))
      [] op = ">=" -> Truth(~Lt(l, r))
      [] op = ">"  -> Truth(~Le(l, r))
      [] op = "!=" -> Truth(l.bits # r.bits)
      [] op = "==" -> Truth(l.bits = r.bits)
      [] op = "&"  -> Result(BitAnd(l, r), FALSE)
      [] op = "^"  -> Result(BitXor(l, r), FALSE)
      [] op = "|"  -> Result(BitOr(l, r), FALSE)
      [] op = "&&" -> Truth(l.bits # 0 /\ r.bits # 0)
      [] op = "||" -> Truth(l.bits # 0 \/ r.bits # 0)
      [] op = ","  -> Result(r, FALSE)
      [] op = ":"  -> [Result(l, FALSE) EXCEPT !.error = "colon_without_question"]

(* Usual arithmetic conversions, and the operator.  `p` is past the right  *)
(* operand, `l` and `r` are the operands, `at` is the operator.            *)
ApplyBinary(p, op, at, l, r, live) ==
    LET unsigned == l.unsigned \/ r.unsigned
        uac      == op \notin NoUAC
        converts == uac /\ unsigned /\ live
        l1       == IF uac THEN SetIsUnsigned(l, unsigned) ELSE l
        r1       == IF uac THEN SetIsUnsigned(r, unsigned) ELSE r
        res      == Binary(op, l1, r1, live)
        p1       == Warn(p, converts /\ ~l.unsigned /\ IsNegative(l), "convert_lhs", at)
        p2       == Warn(p1, converts /\ ~r.unsigned /\ IsNegative(r), "convert_rhs", at)
        p3       == Warn(p2, op = "," /\ live, "comma", at)
    IN IF res.error # "" THEN Fail(p3, res.error)
       ELSE [Warn(p3, res.overflow /\ live, "overflow", at) EXCEPT !.val = res.val]

(* The part of a conditional after its second operand: `first` is the      *)
(* first operand of the third one, `after` all of it.                      *)
Chosen(l, r, after) ==
    IF Failed(after) THEN after
    ELSE [after EXCEPT !.val = SetIsUnsigned(IF l.bits # 0 THEN r ELSE @,
                                             r.unsigned \/ after.val.unsigned)]

ApplyElse(toks, defs, first, l, r, live) ==
    IF Failed(first) THEN first
    ELSE Chosen(l, r, EvaluateDirectiveSubExpr(toks, defs, first, getPrecedence("?"), live))

ApplyQuestion(toks, defs, p, l, r, live) ==
    LET elseLive == live /\ l.bits = 0
    IN IF Peek(toks, p).k # ":" THEN Fail(p, "expected_colon")
       ELSE ApplyElse(toks, defs, EvaluateValue(toks, defs, Eat(p), elseLive), l, r, elseLive)

(* The second operand of a conditional is always evaluated.                *)
RHSIsLive_Question(op, l, live) ==
    /\ live
    /\ ~(op = "&&" /\ l.bits = 0)
    /\ ~(op = "||" /\ l.bits # 0)

RHSIsLive(op, l, live) ==
    /\ live
    /\ ~(op = "&&" /\ l.bits = 0)
    /\ ~(op = "||" /\ l.bits # 0)
    /\ ~(op = "?" /\ l.bits = 0)

(* p.val is LHS.  One turn of the loop reads an operator and its right     *)
(* operand `rhs`, of which `first` is the part before what binds tighter.  *)
ApplyOperator(toks, defs, p, op, rhs, live) ==
    CASE Failed(rhs) -> rhs
      [] op = "?"    -> ApplyQuestion(toks, defs, rhs, p.val, rhs.val, live)
      [] OTHER       -> ApplyBinary(rhs, op, p.pos, p.val, rhs.val, live)

NextTurn(toks, defs, res, minPrec, live) ==
    IF Failed(res) THEN res ELSE EvaluateDirectiveSubExpr(toks, defs, res, minPrec, live)

RestOfRHS(toks, defs, first, rhsPrec, live) ==
    LET nextPrec == getPrecedence(Peek(toks, first).k)
    IN CASE Failed(first)       -> first
         [] nextPrec = -1       -> Fail(first, "bad_token_binop")
         [] nextPrec >= rhsPrec -> EvaluateDirectiveSubExpr(toks, defs, first, rhsPrec, live)
         [] OTHER               -> first

EvaluateRHS(toks, defs, p, rhsPrec, live) ==
    RestOfRHS(toks, defs, EvaluateValue(toks, defs, Eat(p), live), rhsPrec, live)

EvaluateDirectiveSubExpr(toks, defs, p, minPrec, live) ==
    LET op   == Peek(toks, p).k
        prec == getPrecedence(op)
        rhsPrec == IF op = "?" THEN getPrecedence(",") ELSE prec + 1
    IN CASE prec = -1      -> Fail(p, "bad_token_binop")
         [] prec < minPrec -> p
         [] OTHER -> NextTurn(toks, defs,
                              ApplyOperator(toks, defs, p, op,
                                            EvaluateRHS(toks, defs, p, rhsPrec, RHSIsLive(op, p.val, live)),
                                            live),
                              minPrec, live)

(* The value of the condition, the macro of a `!defined(X)` form, and what *)
(* was diagnosed; `last` is where the evaluation ended.                    *)
Condition(toks, first, last) ==
    LET isWhole == Peek(toks, first).k = "eom"
        tail    == ~Failed(last) /\ Peek(toks, last).k # "eom"
    IN [val   |-> last.val,
        holds |-> ~Failed(last) /\ last.val.bits # 0,
        guard |-> IF isWhole /\ ~Failed(first) /\ first.form = "NotDefinedMacro"
                  THEN first.macro ELSE NoMacro,
        diags |-> last.diags,
        error |-> IF tail THEN "expected_eol" ELSE last.error]

ConditionFrom(toks, defs, first) ==
    Condition(toks, first,
              IF Failed(first) \/ Peek(toks, first).k = "eom" THEN first
              ELSE EvaluateDirectiveSubExpr(toks, defs, first, getPrecedence("?"), TRUE))

EvaluateDirectiveExpression(toks, defs) ==
    LET start == [pos |-> 1, val |-> Zero(TRUE), form |-> "Unknown", macro |-> NoMacro,
                  diags |-> {}, error |-> ""]
    IN ConditionFrom(toks, defs, EvaluateValue(toks, defs, start, TRUE))

=============================================================================
