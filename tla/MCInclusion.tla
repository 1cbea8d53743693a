---------------------------- MODULE MCInclusion ----------------------------
(***************************************************************************)
(* Every header of up to MaxHeader lines over each of two small alphabets  *)
(* of lines, of up to MaxOdd lines over a third one, or of up to MaxNested *)
(* lines over a fourth one inside a guard, included by a few main files.   *)
(***************************************************************************)
EXTENDS Inclusion

CONSTANTS X, H, MaxHeader, MaxOdd, MaxNested, MainTexts

Ln(k, arg, form) == [k |-> k, arg |-> arg, form |-> form]
Dir(k)   == Ln(k, None, "defined")
On(k, m) == Ln(k, m, "defined")

IncludeH  == On("include", H)
DefineX   == On("define", X)
UndefX    == On("undef", X)
UseX      == On("use", X)
IfndefX   == On("ifndef", X)
IfdefX    == On("ifdef", X)
IfdefNone == Dir("ifdef")
IfX(form) == Ln("if", X, form)
ElifX(form) == Ln("elif", X, form)

(* The predefines and the main file: the macro undefined, predefined, or   *)
(* changed between two #includes.                                          *)
Mains ==
  { << <<>>, <<IncludeH, IncludeH>> >>,
    << <<DefineX>>, <<IncludeH, IncludeH>> >>,
    << <<DefineX>>, <<IncludeH, UndefX, IncludeH, UseX>> >>,
    << <<>>, <<IncludeH, DefineX, IncludeH, On("text", None)>> >> }

GuardLines ==
  { IfndefX, IfX("notdefined"), IfX("expanded"), Dir("else"), Dir("endif"),
    DefineX, UseX, ElifX("notdefined") }

NestLines ==
  { IfndefX, IfdefX, Dir("else"), ElifX("defined"), Dir("endif"), UseX }

OddLines ==
  { IfndefX, IfdefNone, IfX("bad"), ElifX("bad"), Dir("else"), Dir("endif"), Dir("define"),
    Dir("undef"), Dir("include"), IncludeH, UndefX, On("text", None) }

(* A conditional between the guard and its #endif. *)
NestedLines == { IfdefX, Dir("else"), ElifX("defined"), Dir("endif") }

Texts(A, max) == UNION { [1 .. n -> A] : n \in 0 .. max }

Guarded(t) == <<IfndefX>> \o t \o <<Dir("endif")>>

Headers ==
  Texts(GuardLines, MaxHeader) \cup Texts(NestLines, MaxHeader)
  \cup Texts(OddLines, MaxOdd)
  \cup { Guarded(t) : t \in Texts(NestedLines, MaxNested) }

MCPrograms ==
  { (Main :> m[2]) @@ (H :> h) @@ (Builtin :> m[1]) :
      m \in MainTexts, h \in Headers }

-----------------------------------------------------------------------------
(* Every program is preprocessed to its end, self-inclusion included. *)
Terminates == <>eof
=============================================================================
