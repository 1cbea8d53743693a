--------------------------- MODULE MCDiagnostics ---------------------------
(***************************************************************************)
(* Every configuration a few calls can make, and the diagnostics reported  *)
(* under it; and the plural forms that the comments quote from gettext.    *)
(***************************************************************************)
EXTENDS Diagnostics, DiagnosticText

CONSTANTS
    MaxNumber,      \* bound of the model: the numbers put into a plural form
    MaxCalls        \* bound of the model: changes and reports together

VARIABLE number     \* the number a plural form is made for, or -1

mcvars == <<vars, number>>

(* A warning and an extension that is ignored share a byte, and an         *)
(* extension that is warned of and an error.                               *)
MCStaticDiagInfo == <<[class |-> "WARNING", mapping |-> MAP_WARNING],
                      [class |-> "EXTENSION", mapping |-> MAP_IGNORE],
                      [class |-> "EXTENSION", mapping |-> MAP_WARNING],
                      [class |-> "ERROR", mapping |-> MAP_ERROR],
                      [class |-> "NOTE", mapping |-> MAP_FATAL]>>

MCOptionTable == "extra" :> [members |-> {0}, subGroups |-> {"pedantic"}]
              @@ "pedantic" :> [members |-> {1, 2}, subGroups |-> {}]

-----------------------------------------------------------------------------
MCInit == Init /\ number = -1

Format ==
    /\ changes = 0 /\ reports = 0
    /\ number < MaxNumber
    /\ number' = number + 1
    /\ UNCHANGED vars

Call ==
    /\ number = -1
    /\ changes + reports < MaxCalls
    /\ Next
    /\ UNCHANGED number

MCNext == Format \/ Call

MCSpec == MCInit /\ [][MCNext]_mcvars

-----------------------------------------------------------------------------
(* The examples of the comment on HandlePluralModifier, and the rules of   *)
(* the GNU gettext manual for the same languages.                          *)

C(k) == <<[k |-> k, n |-> 0]>>
N(n) == <<[k |-> "num", n |-> n]>>
Is(n) == N(n)
In(low, high) == C("[") \o N(low) \o C(",") \o N(high) \o C("]")
Mod(m, range) == C("%") \o N(m) \o C("=") \o range
Or(a, b) == a \o C(",") \o b
Case(expr, form) == expr \o C(":") \o C(form)
Cases(cases) == FlattenSeq([i \in DOMAIN cases |-> IF i = 1 THEN cases[i] ELSE C("|") \o cases[i]])
Else(form) == Case(<<>>, form)

Forms ==
  [English    |-> Cases(<<Case(Is(1), "form0"), Else("form1")>>),
   Latvian    |-> Cases(<<Case(Is(0), "form2"),
                          Case(Or(Mod(100, Is(11)), Or(Mod(10, Is(0)), Mod(10, In(2, 9)))), "form1"),
                          Else("form0")>>),
   Romanian   |-> Cases(<<Case(Is(1), "form0"), Case(Or(Is(0), Mod(100, In(1, 19))), "form1"),
                          Else("form2")>>),
   Lithuanian |-> Cases(<<Case(Or(Mod(10, Is(0)), Mod(100, In(10, 19))), "form2"),
                          Case(Mod(10, Is(1)), "form0"), Else("form1")>>),
   Russian    |-> Cases(<<Case(Mod(100, In(11, 14)), "form2"), Case(Mod(10, Is(1)), "form0"),
                          Case(Mod(10, In(2, 4)), "form1"), Else("form2")>>),
   Polish     |-> Cases(<<Case(Is(1), "form0"), Case(Mod(100, In(10, 20)), "form2"),
                          Case(Mod(10, In(2, 4)), "form1"), Else("form2")>>)]

Few(n) == n % 10 \in 2..4 /\ n % 100 \notin 10..19

Gettext(language, n) ==
    CASE language = "English"    -> IF n = 1 THEN 0 ELSE 1
      [] language = "Latvian"    -> IF n % 10 = 1 /\ n % 100 # 11 THEN 0 ELSE IF n # 0 THEN 1 ELSE 2
      [] language = "Romanian"   -> IF n = 1 THEN 0 ELSE IF n = 0 \/ n % 100 \in 1..19 THEN 1 ELSE 2
      [] language = "Lithuanian" ->
           IF n % 10 = 1 /\ n % 100 # 11 THEN 0
           ELSE IF n % 10 >= 2 /\ n % 100 \notin 10..19 THEN 1 ELSE 2
      [] language = "Russian"    ->
           IF n % 10 = 1 /\ n % 100 # 11 THEN 0 ELSE IF Few(n) THEN 1 ELSE 2
      [] language = "Polish"     -> IF n = 1 THEN 0 ELSE IF Few(n) THEN 1 ELSE 2

(* FormatDiagnostic puts the form of the language in place of %plural, and *)
(* the text around it stays.                                               *)
PluralIsRight ==
    number >= 0 =>
        \A language \in DOMAIN Forms :
            FormatDiagnostic(N(number) \o C("%") \o C("plural") \o C("{") \o Forms[language] \o C("}")
                             \o N(1) \o C("%") \o C("%"),
                             <<[kind |-> "string", val |-> "text"], [kind |-> "uint", val |-> number]>>)
              = N(number) \o C(<<"form0", "form1", "form2">>[Gettext(language, number) + 1]) \o C("%")

=============================================================================
