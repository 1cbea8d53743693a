--------------------------- MODULE MCPresumedLocs ---------------------------
(***************************************************************************)
(* Presumed locations of small files.                                      *)
(***************************************************************************)
EXTENDS PresumedLocs

CONSTANT MaxShort   \* bound of the model: the length of the texts that are all tried

MCWindows == <<1, 2, 3>>
MCFlags == {<<>>, <<1>>, <<2, 3>>, <<1, 3, 4>>, <<2, 4>>}

(* Every text of up to MaxShort characters, texts of many lines, and texts with   *)
(* room for nested markers.                                                *)
ShortTexts == UNION {[1 .. n -> {"c", "n", "r"}] : n \in 0 .. MaxShort}
Lines(n, line) == FlattenSeq([j \in 1 .. n |-> line])
MCTexts == ShortTexts \cup {Lines(6, <<"c", "n">>), Lines(3, <<"c", "c", "c", "n">>) \o <<"c">>}
=============================================================================
