--------------------------- MODULE DiagnosticText ---------------------------
(***************************************************************************)
(* DiagnosticInfo::FormatDiagnostic: a description with its arguments in   *)
(* place.  A description is a sequence of [k, n]: k is "num" for a number, *)
(* n its value, or else k is a character or a run of text.                 *)
(***************************************************************************)
EXTENDS Integers, Sequences, SequencesExt, FiniteSetsExt

(* std::find of a character from a position on, `end` when there is none.  *)
Find(str, start, end, k) ==
    LET found == {i \in start..(end - 1) : str[i].k = k}
    IN IF found = {} THEN end ELSE Min(found)

Piece(str, start, end) == SubSeq(str, start, end - 1)

(* Skip over the first ValNo bars; the value ends at the next.             *)
RECURSIVE HandleSelectModifier(_, _, _, _)
HandleSelectModifier(valNo, str, start, end) ==
    IF valNo = 0 THEN Piece(str, start, Find(str, start, end, "|"))
    ELSE HandleSelectModifier(valNo - 1, str, Find(str, start, end, "|") + 1, end)

HandleIntegerSModifier(valNo) == IF valNo # 1 THEN <<[k |-> "s", n |-> 0]>> ELSE <<>>

(* Whether a value is in the range that starts there, and where it ends.   *)
TestPluralRange(val, str, start) ==
    IF str[start].k # "[" THEN [in |-> str[start].n = val, next |-> start + 1]
    ELSE [in |-> str[start + 1].n <= val /\ val <= str[start + 3].n, next |-> start + 5]

(* An expression that follows a comma is never looked at.                  *)
EvalPluralExpr_First(valNo, str, start, end) ==
    \/ str[start].k = ":"
    \/ /\ str[start].k # "%"
       /\ TestPluralRange(valNo, str, start).in

RECURSIVE EvalPluralExpr(_, _, _, _)
EvalPluralExpr(valNo, str, start, end) ==
    LET modulo == str[start].k = "%"
        test   == IF modulo THEN TestPluralRange(valNo % str[start + 1].n, str, start + 3)
                  ELSE TestPluralRange(valNo, str, start)
        next   == Find(str, test.next, end, ",")
    IN \/ str[start].k = ":"
       \/ test.in
       \/ next # end /\ EvalPluralExpr(valNo, str, next + 1, end)

RECURSIVE HandlePluralModifier(_, _, _, _)
HandlePluralModifier(valNo, str, start, end) ==
    LET exprEnd == Find(str, start, end, ":")
        form    == Piece(str, exprEnd + 1, Find(str, exprEnd + 1, end, "|"))
    IN IF EvalPluralExpr(valNo, str, start, exprEnd) THEN form
       ELSE HandlePluralModifier(valNo, str, Find(str, start, end - 1, "|") + 1, end)

(* An argument of the diagnostic, modified as the placeholder says.  `str` *)
(* is what stands in the braces.                                           *)
HandleArgument(arg, modifier, str) ==
    CASE arg.kind = "string"   -> <<[k |-> arg.val, n |-> 0]>>
      [] arg.kind = "identifier" -> <<[k |-> "'", n |-> 0], [k |-> arg.val, n |-> 0],
                                      [k |-> "'", n |-> 0]>>
      [] modifier = "select" -> HandleSelectModifier(arg.val, str, 1, Len(str) + 1)
      [] modifier = "s"      -> HandleIntegerSModifier(arg.val)
      [] modifier = "plural" -> HandlePluralModifier(arg.val, str, 1, Len(str) + 1)
      [] OTHER               -> <<[k |-> "num", n |-> arg.val]>>

(* From a position on; a placeholder is %, a modifier or none, an argument *)
(* in braces or none, and the number of the argument.                      *)
RECURSIVE FormatFrom(_, _, _)
FormatFrom(str, i, args) ==
    LET named  == str[i + 1].k # "num"
        braced == named /\ str[i + 2].k = "{"
        close  == Find(str, i, Len(str) + 1, "}")
        number == CASE braced -> close + 1 [] named -> i + 2 [] OTHER -> i + 1
        out    == HandleArgument(args[str[number].n + 1], IF named THEN str[i + 1].k ELSE "",
                                 IF braced THEN Piece(str, i + 3, close) ELSE <<>>)
    IN CASE i > Len(str) -> <<>>
         [] str[i].k # "%" -> <<str[i]>> \o FormatFrom(str, i + 1, args)
         [] str[i + 1].k = "%" -> <<str[i]>> \o FormatFrom(str, i + 2, args)
         [] OTHER -> out \o FormatFrom(str, number + 1, args)

FormatDiagnostic(str, args) == FormatFrom(str, 1, args)

=============================================================================
