-------------------------- MODULE MCMacroExpansion --------------------------
(* Small main files for the model checker, what C99 makes of them, and the *)
(* comparison.                                                             *)
EXTENDS MacroExpansion

CONSTANT Families    \* the kinds of main files to check

MCNames == {"F", "G", "O", "Q"}
MCSymbols == MCNames \cup Punctuators
             \cup {"eof", "str", "unknown", "p", "q", "x", "xx"}
MCGlue == (<<"x", "x">> :> "xx") @@ (<<"O", "x">> :> "Q")

(* Bodies and texts are given by their spellings. *)
Toks(ss) == [i \in DOMAIN ss |-> Tok(ss[i])]
Text(ss) == [i \in DOMAIN ss |->
              [op |-> "tok", name |-> ss[i], def |-> NoDefinition]]

Define(name, def) == [op |-> "define", name |-> name, def |-> def]
Undef(name) == [op |-> "undef", name |-> name, def |-> NoDefinition]

Object(ss) == [NoDefinition EXCEPT !.body = Toks(ss)]
Function(params, ss) == [fn |-> TRUE, params |-> params, variadic |-> FALSE,
                         body |-> Toks(ss)]
Variadic(params, ss) == [Function(params, ss) EXCEPT !.variadic = TRUE]

UpTo(n, S) == UNION {[1 .. k -> S] : k \in 0 .. n}

Call(f, ss) == <<f, "(">> \o ss \o <<")">>

-----------------------------------------------------------------------------
(* Macros that name each other: one function-like with a parameter, two    *)
(* object-like.                                                            *)
ObjectBodies ==
  UpTo(1, {"F", "O", "Q", "x"}) \cup {<<"O", "x">>, <<"x", "Q">>, <<"Q", "O">>}
  \cup {Call("F", <<s>>) : s \in {"O", "Q"}} \cup {<<"F", "(">>, <<"O", ")">>}

FunctionBodies ==
  UpTo(2, {"p", "O", "F"}) \cup {Call("F", <<"p">>), <<"x", "p", "F">>, <<"O", "(", "p">>}

Texts1 == {Call("F", <<"O">>), Call("F", <<"Q", "x">>), Call("F", Call("F", <<"O">>)),
           <<"O", "Q">>, <<"O", "(", "Q", ")">>, <<"Q", "(", "O", ")", "(", "x", ")">>,
           Call("F", <<"F">>) \o Call("", <<"x">>)}

Recursive ==
  {<<Define("F", Function(<<"p">>, f)), Define("O", Object(o)),
     Define("Q", Object(q))>> \o Text(t) :
     f \in FunctionBodies, o \in ObjectBodies, q \in ObjectBodies,
     t \in {SelectSeq(u, LAMBDA s : s # "") : u \in Texts1}}

(* Two function-like macros, whose arguments may lie beyond the macro that *)
(* names them.                                                             *)
MutualBodies == {<<"p">>, <<"F">>, <<"G">>, <<"O">>, <<"p", "G">>, <<"x", "F">>, <<"p", "O">>,
                 <<"p", "(", "O", ")">>, Call("F", <<"p">>), Call("G", <<"p">>),
                 <<"G", "(", "p">>, <<"p", "(", "F">>}

Mutual ==
  {<<Define("F", Function(<<"p">>, f)), Define("G", Function(<<"p">>, g)),
     Define("O", Object(o))>> \o Text(t) :
     f \in MutualBodies, g \in MutualBodies,
     o \in {<<"x">>, <<"F">>, <<"x", "G">>, Call("G", <<"F">>)},
     t \in {Call("F", <<"x">>) \o <<"(", "O", ")">>,
            Call("F", <<"G">>) \o <<"(", "O", ")", ")">>,
            Call("F", <<"G">>) \o <<"(", "x", ")", "(", "F", ")">>,
            <<"O", "(", "O", ")", "(", "x", ")">>}}

(* The operators # and ##, with empty arguments.                           *)
PasteBodies == {<<"p", "##", "q">>, <<"x", "##", "p", "##", "q">>,
                <<"p", "##", "q", "##", "x">>, <<"p", "q", "##", "x">>,
                <<"#", "p", "q">>, <<"p", "x", "##", "q">>, <<"x", "#", "q", "##", "p">>}
Arguments2 == {<<>>, <<"x">>, <<"O">>, <<"Q", "x">>}

Operators ==
  {<<Define("F", Function(<<"p", "q">>, f)), Define("O", Object(<<"Q">>)),
     Define("Q", Object(o))>> \o Text(Call("F", a \o <<",">> \o b)) :
     f \in PasteBodies, o \in {<<>>, <<"x">>, <<"O", "x">>},
     a \in Arguments2, b \in Arguments2}

(* Argument counts, variadic macros, redefinition, and errors.             *)
Lists == {<<>>, <<"x">>, <<",">>, <<"x", ",", "O">>, <<"(", ",", ")">>,
          <<"x", ",", ",", "O">>}
Signatures == {Function(<<>>, <<"x">>), Function(<<"p">>, <<"p", "O">>),
               Function(<<"p", "q">>, <<"q", "p">>),
               Variadic(<<"p">>, <<"x", ",", "##", "p">>),
               Variadic(<<"p", "q">>, <<"p", ",", "##", "q">>),
               Variadic(<<"p", "q">>, <<"p", ",", "q">>)}

Counted ==
  {<<Define("O", Object(<<"x">>)), Define("G", Object(<<"x">>)),
     Define("F", def)>> \o Text(<<"F", "(">> \o l) \o mid \o Text(rest) :
     def \in Signatures, l \in Lists, rest \in {<<")">>, <<")", "F", "O">>, <<>>},
     mid \in {<<>>, <<Undef("O")>>, <<Undef("G")>>,
              <<Undef("G"), Define("G", Object(<<"##", "x">>)), Undef("G")>>,
              <<Define("O", Object(<<"x", "x">>))>>,
              <<Define("G", Function(<<"p">>, <<"#", "x">>)), Undef("O"),
                Define("Q", Object(<<"F">>))>>}}

(* ## among the arguments.                                                 *)
Pastes ==
  {<<Define("F", Function(<<"p">>, f))>> \o Text(Call("F", a)) :
     f \in {<<"p", "x">>, <<"x", "p">>}, a \in {<<"x">>, <<"x", "##">>, <<"##">>}}

(* An invocation as the operand of a ## whose other operand is empty.      *)
Operands ==
  {<<Define("F", Function(<<"p", "q">>, f))>> \o Text(Call("F", a \o <<",">> \o b)) :
     f \in PasteBodies, a \in {<<>>, <<"x">>}, b \in {<<"x">>, Call("F", <<",", "x">>)}}

MCFiles ==
  (IF "recursive" \in Families THEN Recursive ELSE {})
  \cup (IF "mutual" \in Families THEN Mutual ELSE {})
  \cup (IF "operators" \in Families THEN Operators ELSE {})
  \cup (IF "counted" \in Families THEN Counted ELSE {})
  \cup (IF "pastes" \in Families THEN Pastes ELSE {})
  \cup (IF "operands" \in Families THEN Operands ELSE {})

-----------------------------------------------------------------------------
(***************************************************************************)
(* What macro expansion produces, after the text of C99 6.10.3 and the     *)
(* hide sets of Prosser's algorithm: a token may not be expanded by the    *)
(* macros in its hide set.  Nothing here follows the code; it is what      *)
(* MacroExpansion is compared with.                                        *)
(***************************************************************************)
Hidden(s) == [s |-> s, hs |-> {}]
Placemarker == Hidden("placemarker")
PasteOp == Hidden("paste")

-----------------------------------------------------------------------------
(* The arguments in ts, a name and a list in parentheses.                  *)
Depth(ts, i) == Cardinality({j \in 2 .. i : ts[j].s = "("})
                - Cardinality({j \in 2 .. i : ts[j].s = ")"})

Closings(ts) == {i \in 3 .. Len(ts) : Depth(ts, i) = 0}
Closing(ts) == CHOOSE i \in Closings(ts) : \A j \in Closings(ts) : i <= j

Invokes(def, ts) ==
  def.fn => Len(ts) > 1 /\ ts[2].s = "(" /\ Closings(ts) # {}

Arguments(def, ts) ==
  LET close == Closing(ts)
      all == SetToSortSeq({i \in 3 .. close - 1 : ts[i].s = "," /\ Depth(ts, i) = 1},
                          <)
      seps == IF def.variadic THEN SubSeq(all, 1, Len(def.params) - 1) ELSE all
      cuts == <<2>> \o seps \o <<close>>
  IN [k \in 1 .. Len(cuts) - 1 |-> SubSeq(ts, cuts[k] + 1, cuts[k + 1] - 1)]

-----------------------------------------------------------------------------
(* Pasting, with the rules for placemarkers, from left to right. *)
Join(l, r) == CASE l = Placemarker -> r
                [] r = Placemarker -> l
                [] OTHER -> [s |-> Glue[l.s, r.s], hs |-> l.hs \cap r.hs]

PasteStep(pasted, t) ==
  IF pasted # <<>> /\ Last(pasted) = PasteOp
    THEN SubSeq(pasted, 1, Len(pasted) - 2) \o <<Join(pasted[Len(pasted) - 1], t)>>
    ELSE Append(pasted, t)

PasteAll(ts) ==
  SelectSeq(FoldLeft(PasteStep, <<>>, ts), LAMBDA t : t # Placemarker)

RECURSIVE Expand(_, _)

(* The body of def, its parameters replaced, with hide set hs added. *)
Substitute(defs, def, args, hs) ==
  LET b == def.body
      param(i) == b[i].s \in Range(def.params)
      arg(i) == LET k == CHOOSE k \in DOMAIN def.params : def.params[k] = b[i].s
                IN IF k <= Len(args) THEN args[k] ELSE <<>>
      after(i, op) == i > 1 /\ b[i - 1].s = op
      operand(i) == after(i, "##") \/ (i < Len(b) /\ b[i + 1].s = "##")
      piece(i) ==
        CASE b[i].s = "##" -> <<PasteOp>>
          [] b[i].s = "#" /\ def.fn -> <<Hidden("str")>>
          [] param(i) /\ after(i, "#") -> <<>>
          [] param(i) /\ ~after(i, "#") /\ operand(i) ->
               IF arg(i) = <<>> THEN <<Placemarker>> ELSE arg(i)
          [] param(i) /\ ~after(i, "#") /\ ~operand(i) -> Expand(defs, arg(i))
          [] OTHER -> <<Hidden(b[i].s)>>
      pasted == PasteAll(FlattenSeq([i \in DOMAIN b |-> piece(i)]))
  IN [i \in DOMAIN pasted |-> [pasted[i] EXCEPT !.hs = @ \cup hs]]

(* The tokens ts, macro-expanded. *)
Expand(defs, ts) ==
  IF ts = <<>> THEN <<>> ELSE
  LET t == Head(ts) IN
  IF ~(t.s \in DOMAIN defs /\ t.s \notin t.hs /\ Invokes(defs[t.s], ts))
    THEN <<t>> \o Expand(defs, Tail(ts))
  ELSE
    LET def == defs[t.s]
        end == IF def.fn THEN Closing(ts) ELSE 1
        args == IF def.fn THEN Arguments(def, ts) ELSE <<>>
        hs == (IF def.fn THEN t.hs \cap ts[end].hs ELSE t.hs) \cup {t.s}
    IN Expand(defs, Substitute(defs, def, args, hs)
                    \o SubSeq(ts, end + 1, Len(ts)))

-----------------------------------------------------------------------------
(* A main file, its directives first: the macros it defines, its text, and *)
(* what is to come of it.                                                  *)
Macros(f) ==
  LET defined == {i \in DOMAIN f : f[i].op = "define"}
  IN [n \in {f[i].name : i \in defined} |->
        f[CHOOSE i \in defined :
            f[i].name = n /\ \A j \in defined : f[j].name = n => j <= i].def]

Tokenized(f) == [i \in DOMAIN SelectSeq(f, LAMBDA x : x.op = "tok") |->
                   Hidden(SelectSeq(f, LAMBDA x : x.op = "tok")[i].name)]

Spellings(ts) == [i \in DOMAIN ts |-> ts[i].s]

Reference(f) == Spellings(Expand(Macros(f), Tokenized(f)))

-----------------------------------------------------------------------------
Variable(f) == \E i \in DOMAIN f : f[i].def.variadic
DefinesFirst(f) ==
  \A i, j \in DOMAIN f : f[i].op = "tok" /\ f[j].op # "tok" => j < i

(* What C99 6.10.3 makes of the file.                                      *)
C99Output ==
  done /\ ~errors /\ DefinesFirst(input) /\ ~Variable(input)
    => Spellings(out) = Reference(input)

(* The same, for the files in which no disabled name was delivered without *)
(* its flag.                                                               *)
OutputMatchesReference == ~unpainted => C99Output
=============================================================================
