------------------------ MODULE MacroExpansion_proofs ------------------------
(***************************************************************************)
(* Proofs about macro expansion, for any names, pasted tokens and files.   *)
(*                                                                         *)
(* That macros are disabled and enabled in turn is not inductive by        *)
(* itself.  It rests on where the streams of the arguments under           *)
(* pre-expansion lie among the TokenLexers, and on a macro being absent    *)
(* from the stack below the argument that is expanded for it: it is        *)
(* enabled whenever its own TokenLexer starts.                             *)
(***************************************************************************)
EXTENDS MacroExpansion, SequenceLemmas

Infos == [fn : BOOLEAN, params : Seq(Symbols), variadic : BOOLEAN,
          body : Seq(Tokens), enabled : BOOLEAN]

Lexers == [macro : Nat, toks : Seq(Tokens)]

(* A call of Init has an expansion for each argument, and is expanding one *)
(* of them or, if pre is 0, none.                                          *)
Frames == {f \in [id : Nat \ {0}, args : Seq(Seq(Tokens)), elided : BOOLEAN,
                  body : Seq(Tokens), res : Seq(Tokens), pre : Nat,
                  pres : Seq(Seq(Tokens))] :
             Len(f.pres) = Len(f.args) /\ f.pre <= Len(f.pres)}

Invocations == [id : Nat \ {0}, name : Names, variadic : BOOLEAN, left : Int,
                open : BOOLEAN, parens : Int, args : Seq(Seq(Tokens)),
                cur : Seq(Tokens)]

(* What is left of the file, where directives name what may be a macro,    *)
(* and what was returned.                                                  *)
DataTyped ==
  /\ file \in Seq(Items) /\ out \in Seq(Tokens)
  /\ \A i \in 1 .. Len(file) : file[i].op # "tok" => file[i].name \in Names

(* Every address is one of an object that was made.                        *)
StackTyped ==
  /\ mi \in Seq(Infos) /\ macros \in [Names -> Nat] /\ micache \in Seq(Nat \ {0})
  /\ stk \in Seq(Lexers) /\ subs \in Seq(Frames)
  /\ \A n \in Names : macros[n] <= Len(mi)
  /\ \A i \in 1 .. Len(micache) : micache[i] <= Len(mi)
  /\ \A i \in 1 .. Len(stk) : stk[i].macro <= Len(mi)
  /\ \A i \in 1 .. Len(subs) : subs[i].id <= Len(mi)

InvTyped == inv \in Invocations \cup {NoInv} /\ inv.id <= Len(mi)

(* The types of the variables.                                             *)
TypeOK == DataTyped /\ StackTyped /\ InvTyped

(* The calls whose argument is being expanded: all but the innermost, and  *)
(* that one too while the arguments of another macro are read.             *)
Expanding == {i \in 1 .. Len(subs) : subs[i].pre # 0}

InTheMiddle == \A i \in 1 .. Len(subs) - 1 : subs[i].pre # 0
ReadInTheMiddle == Reading => \A i \in 1 .. Len(subs) : subs[i].pre # 0

(* Where the streams are, and what is not below them.  at[i] is the place  *)
(* of the argument of the i-th call of Init; a call that substitutes       *)
(* tokens has its own macro nowhere on the stack.                          *)
StreamsAt(at) ==
  /\ \A i \in Expanding : stk[at[i]].macro = 0
  /\ \A i, j \in Expanding : i < j => at[i] < at[j]
  /\ \A p \in 1 .. Len(stk) : stk[p].macro = 0 => \E i \in Expanding : at[i] = p
  /\ \A i \in Expanding : \A p \in 1 .. at[i] : stk[p].macro # subs[i].id
  /\ \A i \in 1 .. Len(subs) : i \notin Expanding =>
       \A p \in 1 .. Len(stk) : stk[p].macro # subs[i].id

StreamsInOrder == \E at \in [Expanding -> 1 .. Len(stk)] : StreamsAt(at)

StackOK ==
  StackTyped /\ InTheMiddle /\ StreamsInOrder /\ DisabledWhileLive /\ ReleasedUnreachable

(* No macro is disabled while arguments are read: the macro that was named *)
(* can be entered at the end of its arguments.                             *)
InvokedEnabled == Reading => ~Disabled(inv.name)

(* What ReadFunctionLikeMacroArgs asserts: isNextPPTokenLParen saw the     *)
(* parenthesis that comes.                                                 *)
ParenComes == Reading /\ ~inv.open => LParenIsNext(stk, file)

InvOK == InvTyped /\ ReadInTheMiddle /\ InvokedEnabled /\ ParenComes

(* Macros are enabled and disabled in turn, and an invocation starts with  *)
(* its parenthesis: the assertions of MacroInfo.h, EnableMacro and         *)
(* DisableMacro, and of ReadFunctionLikeMacroArgs hold.                    *)
MacrosTakeTurns ==
  fault \notin {"Cannot enable an already-enabled macro!",
                "Cannot disable an already-disabled macro!",
                "Error computing l-paren-ness?"}

IInv == DataTyped /\ StackOK /\ InvOK /\ MacrosTakeTurns

-----------------------------------------------------------------------------
(* Sequences.                                                              *)

LEMMA ReplaceLast ==
  ASSUME NEW S, NEW s \in Seq(S), s # <<>>, NEW e \in S, NEW t,
         t = [s EXCEPT ![Len(s)] = e]
  PROVE  /\ t \in Seq(S) /\ Len(t) = Len(s) /\ t # <<>> /\ t[Len(t)] = e /\ Last(t) = e
         /\ \A i \in 1 .. Len(s) - 1 : t[i] = s[i]
<1>1. Len(s) \in Nat \ {0} /\ Len(s) \in 1 .. Len(s) BY FrontLast
<1>2. t \in Seq(S) /\ Len(t) = Len(s) BY <1>1, ExceptSeq
<1>3. t[Len(s)] = e /\ \A i \in 1 .. Len(s) - 1 : t[i] = s[i] BY <1>1
<1>4. t # <<>> BY <1>1, <1>2
<1> QED BY <1>1, <1>2, <1>3, <1>4 DEF Last

LEMMA Appended ==
  ASSUME NEW S, NEW s \in Seq(S), NEW e \in S, NEW t, t = Append(s, e)
  PROVE  /\ t \in Seq(S) /\ Len(t) = Len(s) + 1 /\ t # <<>> /\ t[Len(s) + 1] = e
         /\ \A i \in 1 .. Len(s) : t[i] = s[i]
<1>1. t \in Seq(S) /\ Len(t) = Len(s) + 1 BY AppendProperties
<1>2. t[Len(s) + 1] = e /\ \A i \in 1 .. Len(s) : t[i] = s[i] BY AppendProperties
<1>3. Len(s) \in Nat OBVIOUS
<1> QED BY <1>1, <1>2, <1>3

LEMMA OutOfRange ==
  ASSUME NEW S, NEW s \in Seq(S), NEW e
  PROVE  (e \notin Range(s)) <=> (\A i \in 1 .. Len(s) : s[i] # e)
BY DEF Range

-----------------------------------------------------------------------------
(* The calls and the streams.                                              *)

LEMMA LexingExpands ==
  ASSUME StackTyped, InTheMiddle, ReadInTheMiddle, ~Substituting
  PROVE  \A i \in 1 .. Len(subs) : subs[i].pre # 0
<1>1. CASE Reading BY <1>1 DEF ReadInTheMiddle
<1>2. CASE subs = <<>> BY <1>2
<1>3. CASE ~Reading /\ subs # <<>>
  <2>1. subs \in Seq(Frames) BY DEF StackTyped
  <2>2. Len(subs) \in Nat \ {0} /\ Last(subs) = subs[Len(subs)] BY <1>3, <2>1, FrontLast
  <2>3. subs[Len(subs)].pre # 0 BY <1>3, <2>2 DEF Substituting
  <2> TAKE i \in 1 .. Len(subs)
  <2>4. i = Len(subs) \/ i \in 1 .. Len(subs) - 1 BY <2>2
  <2> QED BY <2>3, <2>4 DEF InTheMiddle
<1> QED BY <1>1, <1>2, <1>3

LEMMA SubstitutingIsLast ==
  ASSUME StackTyped, InTheMiddle, Substituting
  PROVE  /\ Len(subs) \in Nat \ {0} /\ Last(subs) = subs[Len(subs)] /\ Last(subs) \in Frames
         /\ subs[Len(subs)].pre = 0
         /\ Expanding = 1 .. Len(subs) - 1
<1>1. subs \in Seq(Frames) /\ subs # <<>> BY DEF StackTyped, Substituting
<1>2. /\ Len(subs) \in Nat \ {0} /\ Last(subs) = subs[Len(subs)] /\ Last(subs) \in Frames
  BY <1>1, FrontLast
<1>3. subs[Len(subs)].pre = 0 BY <1>2 DEF Substituting
<1>4. \A i \in 1 .. Len(subs) : i \in 1 .. Len(subs) - 1 <=> i # Len(subs) BY <1>2
<1> QED BY <1>2, <1>3, <1>4 DEF Expanding, InTheMiddle

(* While a token is lexed for a call, its argument is on the stack.        *)
LEMMA NoLexersNoCalls ==
  ASSUME StackOK, InvOK, ~Substituting, stk = <<>>
  PROVE  subs = <<>>
<1>1. \A i \in 1 .. Len(subs) : subs[i].pre # 0 BY LexingExpands DEF StackOK, InvOK
<1>2. PICK at \in [Expanding -> 1 .. Len(stk)] : TRUE BY DEF StackOK, StreamsInOrder
<1>3. Len(stk) = 0 /\ 1 .. Len(stk) = {} OBVIOUS
<1>4. Expanding = {} BY <1>2, <1>3
<1>5. 1 .. Len(subs) = {} BY <1>1, <1>4 DEF Expanding
<1>6. subs \in Seq(Frames) BY DEF StackOK, StackTyped
<1>7. Len(subs) \in Nat BY <1>6
<1>8. Len(subs) = 0 BY <1>5, <1>7
<1> QED BY <1>6, <1>8, EmptySeq

-----------------------------------------------------------------------------
(* The kinds of step, by what they do to the stack and to the calls.       *)

SameLexers ==
  /\ stk' \in Seq(Lexers) /\ Len(stk') = Len(stk)
  /\ \A i \in 1 .. Len(stk) : stk'[i].macro = stk[i].macro

SameCalls ==
  /\ subs' \in Seq(Frames) /\ Len(subs') = Len(subs)
  /\ \A i \in 1 .. Len(subs) : subs'[i].id = subs[i].id /\ subs'[i].pre = subs[i].pre

SameObjects == mi' = mi /\ macros' = macros /\ micache' = micache

(* Tokens are read or substituted.                                         *)
LEMMA QuietStep ==
  ASSUME StackOK, SameLexers, SameCalls, SameObjects
  PROVE  StackOK'
<1>1. StackTyped'
  BY DEF StackOK, StackTyped, SameLexers, SameCalls, SameObjects
<1>2. InTheMiddle'
  <2>1. \A i \in 1 .. Len(subs) - 1 : i \in 1 .. Len(subs)
    <3>1. Len(subs) \in Nat BY DEF StackOK, StackTyped
    <3> QED BY <3>1
  <2> QED BY <2>1 DEF StackOK, InTheMiddle, SameCalls
<1>3. StreamsInOrder'
  <2>1. Expanding' = Expanding BY DEF Expanding, SameCalls
  <2>2. PICK at \in [Expanding -> 1 .. Len(stk)] : StreamsAt(at)
    BY DEF StackOK, StreamsInOrder
  <2>3. at \in [Expanding' -> 1 .. Len(stk')] BY <2>1 DEF SameLexers
  <2>4. \A i \in Expanding : at[i] \in 1 .. Len(stk) /\ i \in 1 .. Len(subs)
    BY <2>2 DEF Expanding
  <2>5. StreamsAt(at)'
    <3>1. \A i \in Expanding' : stk'[at[i]].macro = 0
      BY <2>1, <2>2, <2>4 DEF StreamsAt, SameLexers
    <3>2. \A i, j \in Expanding' : i < j => at[i] < at[j]
      BY <2>1, <2>2 DEF StreamsAt
    <3>3. \A p \in 1 .. Len(stk') : stk'[p].macro = 0 => \E i \in Expanding' : at[i] = p
      BY <2>1, <2>2 DEF StreamsAt, SameLexers
    <3>4. \A i \in Expanding' : \A p \in 1 .. at[i] : stk'[p].macro # subs'[i].id
      <4> TAKE i \in Expanding'
      <4> TAKE p \in 1 .. at[i]
      <4>1. at[i] \in 1 .. Len(stk) /\ i \in 1 .. Len(subs) /\ i \in Expanding
        BY <2>1, <2>4
      <4>2. Len(stk) \in Nat BY DEF StackOK, StackTyped
      <4>3. p \in 1 .. Len(stk) BY <4>1, <4>2
      <4>4. stk[p].macro # subs[i].id BY <4>1, <2>2 DEF StreamsAt
      <4> QED BY <4>1, <4>3, <4>4 DEF SameLexers, SameCalls
    <3>5. \A i \in 1 .. Len(subs') : i \notin Expanding' =>
            \A p \in 1 .. Len(stk') : stk'[p].macro # subs'[i].id
      BY <2>1, <2>2 DEF StreamsAt, SameLexers, SameCalls
    <3> QED BY <3>1, <3>2, <3>3, <3>4, <3>5 DEF StreamsAt
  <2> QED BY <2>3, <2>5 DEF StreamsInOrder
<1>4. DOMAIN stk' = DOMAIN stk /\ \A i \in DOMAIN stk : stk'[i].macro = stk[i].macro
  <2>1. DOMAIN stk = 1 .. Len(stk) /\ DOMAIN stk' = 1 .. Len(stk')
    BY DEF StackOK, StackTyped, SameLexers
  <2> QED BY <2>1 DEF SameLexers
<1>5. DOMAIN subs' = DOMAIN subs /\ \A i \in DOMAIN subs : subs'[i].id = subs[i].id
  <2>1. DOMAIN subs = 1 .. Len(subs) /\ DOMAIN subs' = 1 .. Len(subs')
    BY DEF StackOK, StackTyped, SameCalls
  <2> QED BY <2>1 DEF SameCalls
<1>6. DisabledWhileLive'
  BY <1>4 DEF StackOK, DisabledWhileLive, SameObjects, Addresses
<1>7. ReleasedUnreachable'
  BY <1>4, <1>5 DEF StackOK, ReleasedUnreachable, SameObjects
<1> QED BY <1>1, <1>2, <1>3, <1>6, <1>7 DEF StackOK

LEMMA LastOfStack ==
  ASSUME StackTyped, stk # <<>>
  PROVE  /\ Len(stk) \in Nat \ {0} /\ Len(stk) \in 1 .. Len(stk)
         /\ Top = stk[Len(stk)] /\ Top \in Lexers /\ Front(stk) \in Seq(Lexers)
         /\ Len(Front(stk)) = Len(stk) - 1
         /\ \A i \in 1 .. Len(stk) - 1 : Front(stk)[i] = stk[i]
<1>1. stk \in Seq(Lexers) BY DEF StackTyped
<1>2. /\ Len(stk) \in Nat \ {0} /\ Last(stk) = stk[Len(stk)] /\ Last(stk) \in Lexers
      /\ Front(stk) \in Seq(Lexers) /\ Len(Front(stk)) = Len(stk) - 1
      /\ \A i \in 1 .. Len(stk) - 1 : Front(stk)[i] = stk[i]
  BY <1>1, FrontLast
<1> QED BY <1>2 DEF Top

(* The TokenLexer of a macro is popped, and the macro enabled.             *)
LEMMA PopMacro ==
  ASSUME StackOK, stk # <<>>, Top.macro # 0,
         stk' = Front(stk), mi' = [mi EXCEPT ![Top.macro].enabled = TRUE],
         UNCHANGED <<macros, micache, subs>>
  PROVE  StackOK'
<1> DEFINE m == Top.macro
           n == Len(stk) - 1
<1>0. StackTyped BY DEF StackOK
<1>1. /\ n \in Nat /\ Len(stk) = n + 1 /\ stk[n + 1].macro = m /\ Len(stk') = n
      /\ stk' \in Seq(Lexers) /\ \A i \in 1 .. n : stk'[i] = stk[i]
  BY <1>0, LastOfStack
<1>2. m \in Nat \ {0} /\ m <= Len(mi) /\ Len(mi) \in Nat
  <2>1. Top = stk[Len(stk)] /\ Top \in Lexers /\ Len(stk) \in 1 .. Len(stk)
    BY <1>0, LastOfStack
  <2>2. m \in Nat \ {0} BY <2>1 DEF Lexers
  <2>3. m <= Len(mi) BY <1>0, <2>1 DEF StackTyped
  <2>4. Len(mi) \in Nat BY <1>0 DEF StackTyped
  <2> QED BY <2>2, <2>3, <2>4
<1>3. /\ mi' \in Seq(Infos) /\ Len(mi') = Len(mi) /\ mi'[m].enabled
      /\ \A i \in 1 .. Len(mi) : i # m => mi'[i] = mi[i]
  <2>1. m \in 1 .. Len(mi) /\ mi[m] \in Infos BY <1>0, <1>2 DEF StackTyped
  <2>2. [mi[m] EXCEPT !.enabled = TRUE] \in Infos BY <2>1 DEF Infos
  <2>3. mi' = [mi EXCEPT ![m] = [mi[m] EXCEPT !.enabled = TRUE]] OBVIOUS
  <2>4. mi' \in Seq(Infos) /\ Len(mi') = Len(mi) BY <1>0, <2>1, <2>2, <2>3, ExceptSeq DEF StackTyped
  <2>5. mi \in [1 .. Len(mi) -> Infos] BY <1>0 DEF StackTyped
  <2>6. mi'[m] = [mi[m] EXCEPT !.enabled = TRUE] BY <2>1, <2>3, <2>5
  <2>7. mi'[m].enabled BY <2>1, <2>6 DEF Infos
  <2>8. \A i \in 1 .. Len(mi) : i # m => mi'[i] = mi[i] BY <2>3, <2>5
  <2> QED BY <2>4, <2>7, <2>8
<1> HIDE DEF m, n
<1>4. StackTyped' BY <1>0, <1>1, <1>3 DEF StackTyped
<1>5. InTheMiddle' BY DEF StackOK, InTheMiddle
<1>6. StreamsInOrder'
  <2>1. Expanding' = Expanding BY DEF Expanding
  <2>2. PICK at \in [Expanding -> 1 .. Len(stk)] : StreamsAt(at)
    BY DEF StackOK, StreamsInOrder
  <2>3. \A i \in Expanding : at[i] \in 1 .. n
    <3> TAKE i \in Expanding
    <3>1. at[i] \in 1 .. n + 1 BY <1>1, <2>2
    <3>2. at[i] # n + 1 BY <1>1, <1>2, <2>2 DEF StreamsAt
    <3> QED BY <1>1, <3>1, <3>2
  <2>4. at \in [Expanding' -> 1 .. Len(stk')] BY <1>1, <2>1, <2>2, <2>3
  <2>5. StreamsAt(at)'
    <3>1. \A i \in Expanding' : stk'[at[i]].macro = 0
      BY <1>1, <2>1, <2>2, <2>3 DEF StreamsAt
    <3>2. \A i, j \in Expanding' : i < j => at[i] < at[j] BY <2>1, <2>2 DEF StreamsAt
    <3>3. \A p \in 1 .. Len(stk') : stk'[p].macro = 0 => \E i \in Expanding' : at[i] = p
      <4> TAKE p \in 1 .. Len(stk')
      <4>1. p \in 1 .. n /\ p \in 1 .. Len(stk) BY <1>1
      <4> QED BY <1>1, <4>1, <2>1, <2>2 DEF StreamsAt
    <3>4. \A i \in Expanding' : \A p \in 1 .. at[i] : stk'[p].macro # subs'[i].id
      <4> TAKE i \in Expanding'
      <4> TAKE p \in 1 .. at[i]
      <4>1. at[i] \in 1 .. n /\ i \in Expanding BY <2>1, <2>3
      <4>2. p \in 1 .. n BY <1>1, <4>1
      <4> QED BY <1>1, <4>1, <4>2, <2>2 DEF StreamsAt
    <3>5. \A i \in 1 .. Len(subs') : i \notin Expanding' =>
            \A p \in 1 .. Len(stk') : stk'[p].macro # subs'[i].id
      <4>1. \A p \in 1 .. Len(stk') : p \in 1 .. Len(stk) /\ p \in 1 .. n BY <1>1
      <4> QED BY <1>1, <4>1, <2>1, <2>2 DEF StreamsAt
    <3> QED BY <3>1, <3>2, <3>3, <3>4, <3>5 DEF StreamsAt
  <2> QED BY <2>4, <2>5 DEF StreamsInOrder
<1>7. DisabledWhileLive'
  <2>1. DOMAIN stk = 1 .. n + 1 /\ DOMAIN stk' = 1 .. n /\ Addresses' = Addresses
    BY <1>0, <1>1, <1>3 DEF Addresses, StackTyped
  <2>2. \A i \in DOMAIN stk' : i \in DOMAIN stk /\ stk'[i] = stk[i] /\ i # n + 1
    BY <1>1, <2>1
  <2>3. n + 1 \in DOMAIN stk BY <1>1, <2>1
  <2>4. \A i \in DOMAIN stk : i \in DOMAIN stk' \/ i = n + 1 BY <1>1, <2>1
  <2> SUFFICES ASSUME NEW id \in Addresses
               PROVE  /\ ~mi'[id].enabled <=> \E i \in DOMAIN stk' : stk'[i].macro = id
                      /\ \A i, j \in DOMAIN stk' :
                           stk'[i].macro = id /\ stk'[j].macro = id => i = j
    BY <2>1 DEF DisabledWhileLive
  <2>5. /\ ~mi[id].enabled <=> \E i \in DOMAIN stk : stk[i].macro = id
        /\ \A i, j \in DOMAIN stk : stk[i].macro = id /\ stk[j].macro = id => i = j
    BY DEF StackOK, DisabledWhileLive
  <2>6. \A i, j \in DOMAIN stk' : stk'[i].macro = id /\ stk'[j].macro = id => i = j
    BY <2>2, <2>5
  <2>7. CASE id = m
    <3>1. \A i \in DOMAIN stk' : stk'[i].macro # id BY <1>1, <2>2, <2>3, <2>5, <2>7
    <3> QED BY <1>3, <2>6, <2>7, <3>1
  <2>8. CASE id # m
    <3>1. mi'[id] = mi[id] BY <1>0, <1>3, <2>8 DEF Addresses, StackTyped
    <3>2. (\E i \in DOMAIN stk : stk[i].macro = id) <=> (\E i \in DOMAIN stk' : stk'[i].macro = id)
      BY <1>1, <2>2, <2>4, <2>8
    <3> QED BY <2>5, <2>6, <3>1, <3>2
  <2> QED BY <2>7, <2>8
<1>8. ReleasedUnreachable'
  <2>1. \A i \in DOMAIN stk' : i \in DOMAIN stk /\ stk'[i] = stk[i]
    BY <1>0, <1>1 DEF StackTyped
  <2> QED BY <2>1 DEF StackOK, ReleasedUnreachable
<1> QED BY <1>4, <1>5, <1>6, <1>7, <1>8 DEF StackOK

(* While a token is lexed for a call, the stream on top is its argument.   *)
LEMMA TopIsArgument ==
  ASSUME StackOK, stk # <<>>, Top.macro = 0, subs # <<>>,
         NEW at \in [Expanding -> 1 .. Len(stk)], StreamsAt(at),
         \A i \in 1 .. Len(subs) : subs[i].pre # 0
  PROVE  /\ Len(subs) \in Nat \ {0} /\ Expanding = 1 .. Len(subs)
         /\ at[Len(subs)] = Len(stk)
         /\ \A i \in 1 .. Len(subs) - 1 : at[i] \in 1 .. Len(stk) - 1
<1>1. Len(subs) \in Nat \ {0}
  <2>1. subs \in Seq(Frames) BY DEF StackOK, StackTyped
  <2> QED BY <2>1, FrontLast
<1>2. Expanding = 1 .. Len(subs) BY DEF Expanding
<1>3. Len(stk) \in Nat \ {0} /\ stk[Len(stk)].macro = 0 /\ Len(stk) \in 1 .. Len(stk)
  BY LastOfStack DEF StackOK
<1>4. PICK k \in 1 .. Len(subs) : at[k] = Len(stk) BY <1>2, <1>3 DEF StreamsAt
<1>5. \A i \in 1 .. Len(subs) : at[i] \in 1 .. Len(stk) BY <1>2
<1>6. Len(subs) \in 1 .. Len(subs) BY <1>1
<1>7. k = Len(subs)
  <2> SUFFICES ASSUME k < Len(subs) PROVE FALSE BY <1>1
  <2>1. at[k] < at[Len(subs)] BY <1>2, <1>6 DEF StreamsAt
  <2>2. at[Len(subs)] \in 1 .. Len(stk) BY <1>5, <1>6
  <2> QED BY <1>3, <1>4, <2>1, <2>2
<1>8. \A i \in 1 .. Len(subs) - 1 : at[i] \in 1 .. Len(stk) - 1
  <2> TAKE i \in 1 .. Len(subs) - 1
  <2>1. i \in 1 .. Len(subs) /\ i < Len(subs) BY <1>1
  <2>2. at[i] < at[Len(subs)] BY <1>2, <1>6, <2>1 DEF StreamsAt
  <2>3. at[i] \in 1 .. Len(stk) BY <1>5, <2>1
  <2> QED BY <1>3, <1>4, <1>7, <2>2, <2>3
<1> QED BY <1>1, <1>2, <1>4, <1>7, <1>8

(* The argument of the innermost call is at its end, and its stream popped. *)
LEMMA EndArgumentStep ==
  ASSUME StackOK, stk # <<>>, Top.macro = 0, subs # <<>>,
         \A i \in 1 .. Len(subs) : subs[i].pre # 0,
         stk' \in Seq(Lexers), Len(stk') = Len(stk) - 1,
         \A i \in 1 .. Len(stk) - 1 : stk'[i].macro = stk[i].macro,
         subs' \in Seq(Frames), Len(subs') = Len(subs),
         \A i \in 1 .. Len(subs) : subs'[i].id = subs[i].id,
         \A i \in 1 .. Len(subs) - 1 : subs'[i].pre = subs[i].pre,
         subs'[Len(subs)].pre = 0, SameObjects
  PROVE  StackOK'
<1>1. PICK at \in [Expanding -> 1 .. Len(stk)] : StreamsAt(at)
  BY DEF StackOK, StreamsInOrder
<1>2. /\ Len(subs) \in Nat \ {0} /\ Expanding = 1 .. Len(subs)
      /\ at[Len(subs)] = Len(stk)
      /\ \A i \in 1 .. Len(subs) - 1 : at[i] \in 1 .. Len(stk) - 1
  BY <1>1, TopIsArgument
<1>3. Len(stk) \in Nat \ {0} /\ stk[Len(stk)].macro = 0 BY LastOfStack DEF StackOK
<1> DEFINE n == Len(stk) - 1
           k == Len(subs) - 1
<1>4. /\ n \in Nat /\ k \in Nat /\ Len(stk) = n + 1 /\ Len(subs) = k + 1
      /\ Len(stk') = n /\ Len(subs') = k + 1
      /\ Expanding = 1 .. k + 1 /\ at[k + 1] = n + 1
      /\ \A i \in 1 .. k : at[i] \in 1 .. n
      /\ \A i \in 1 .. n : stk'[i].macro = stk[i].macro
      /\ stk[n + 1].macro = 0 /\ subs'[k + 1].pre = 0
      /\ \A i \in 1 .. k + 1 : subs'[i].id = subs[i].id
      /\ \A i \in 1 .. k : subs'[i].pre = subs[i].pre
  BY <1>2, <1>3
<1> HIDE DEF n, k
<1>5. StackTyped'
  <2>1. \A i \in 1 .. n : i \in 1 .. n + 1 BY <1>4
  <2> QED BY <1>4, <2>1 DEF StackOK, StackTyped, SameObjects
<1>6. \A i \in 1 .. k : subs'[i].pre # 0
  <2>1. \A i \in 1 .. k : i \in 1 .. k + 1 BY <1>4
  <2> QED BY <1>4, <2>1
<1>7. InTheMiddle' BY <1>4, <1>6 DEF InTheMiddle
<1>8. StreamsInOrder'
  <2>1. Expanding' = 1 .. k
    <3>1. \A i \in 1 .. k + 1 : i \in 1 .. k <=> i # k + 1 BY <1>4
    <3>2. \A i \in 1 .. k : i \in 1 .. k + 1 BY <1>4
    <3> QED BY <1>4, <1>6, <3>1, <3>2 DEF Expanding
  <2>0. PICK at2 : at2 = [i \in 1 .. k |-> at[i]] OBVIOUS
  <2>2. at2 \in [Expanding' -> 1 .. Len(stk')] BY <1>4, <2>0, <2>1
  <2>3. \A i \in 1 .. k : at2[i] = at[i] /\ at[i] \in 1 .. n /\ i \in 1 .. k + 1 BY <1>4, <2>0
  <2>4. StreamsAt(at2)'
    <3>1. \A i \in Expanding' : stk'[at2[i]].macro = 0
      <4> SUFFICES ASSUME NEW i \in 1 .. k PROVE stk'[at2[i]].macro = 0 BY <2>1
      <4>1. stk[at[i]].macro = 0 BY <1>1, <1>4, <2>3 DEF StreamsAt
      <4> QED BY <1>4, <2>3, <4>1
    <3>2. \A i, j \in Expanding' : i < j => at2[i] < at2[j]
      BY <1>1, <1>4, <2>1, <2>3 DEF StreamsAt
    <3>3. \A p \in 1 .. Len(stk') : stk'[p].macro = 0 => \E i \in Expanding' : at2[i] = p
      <4> SUFFICES ASSUME NEW p \in 1 .. n, stk'[p].macro = 0
                   PROVE  \E i \in 1 .. k : at2[i] = p
        BY <1>4, <2>1
      <4>1. p \in 1 .. Len(stk) /\ p # n + 1 /\ stk[p].macro = 0 BY <1>4
      <4>2. PICK i \in 1 .. k + 1 : at[i] = p BY <1>1, <1>4, <4>1 DEF StreamsAt
      <4>3. i # k + 1 BY <1>4, <4>1, <4>2
      <4>4. i \in 1 .. k BY <1>4, <4>3
      <4> QED BY <2>3, <4>2, <4>4
    <3>4. \A i \in Expanding' : \A p \in 1 .. at2[i] : stk'[p].macro # subs'[i].id
      <4> SUFFICES ASSUME NEW i \in 1 .. k, NEW p \in 1 .. at[i]
                   PROVE  stk'[p].macro # subs'[i].id
        BY <2>1, <2>3
      <4>1. p \in 1 .. n BY <1>4, <2>3
      <4> QED BY <1>1, <1>4, <2>3, <4>1 DEF StreamsAt
    <3>5. \A i \in 1 .. Len(subs') : i \notin Expanding' =>
            \A p \in 1 .. Len(stk') : stk'[p].macro # subs'[i].id
      <4> SUFFICES ASSUME NEW p \in 1 .. n PROVE stk'[p].macro # subs'[k + 1].id
        <5>1. \A i \in 1 .. k + 1 : i \in 1 .. k \/ i = k + 1 BY <1>4
        <5> QED BY <5>1, <1>4, <2>1
      <4>1. p \in 1 .. at[k + 1] /\ k + 1 \in 1 .. k + 1 BY <1>4
      <4> QED BY <1>1, <1>4, <4>1 DEF StreamsAt
    <3> QED BY <3>1, <3>2, <3>3, <3>4, <3>5 DEF StreamsAt
  <2> QED BY <2>2, <2>4 DEF StreamsInOrder
<1>9. /\ DOMAIN stk = 1 .. n + 1 /\ DOMAIN stk' = 1 .. n
      /\ DOMAIN subs = 1 .. k + 1 /\ DOMAIN subs' = 1 .. k + 1
  BY <1>4 DEF StackOK, StackTyped
<1>10. \A i \in DOMAIN stk' : i \in DOMAIN stk /\ stk'[i].macro = stk[i].macro
  <2>1. \A i \in 1 .. n : i \in 1 .. n + 1 BY <1>4
  <2> QED BY <2>1, <1>4, <1>9
<1>11. DisabledWhileLive'
  <2>1. \A i \in DOMAIN stk : i \in DOMAIN stk' \/ i = n + 1 BY <1>4, <1>9
  <2>2. \A id \in Addresses : id # 0 BY DEF StackOK, StackTyped, Addresses
  <2> SUFFICES ASSUME NEW id \in Addresses
               PROVE  /\ ~mi[id].enabled <=> \E i \in DOMAIN stk' : stk'[i].macro = id
                      /\ \A i, j \in DOMAIN stk' :
                           stk'[i].macro = id /\ stk'[j].macro = id => i = j
    BY DEF DisabledWhileLive, SameObjects, Addresses
  <2>3. /\ ~mi[id].enabled <=> \E i \in DOMAIN stk : stk[i].macro = id
        /\ \A i, j \in DOMAIN stk : stk[i].macro = id /\ stk[j].macro = id => i = j
    BY DEF StackOK, DisabledWhileLive
  <2>4. (\E i \in DOMAIN stk : stk[i].macro = id) <=> (\E i \in DOMAIN stk' : stk'[i].macro = id)
    BY <1>4, <1>10, <2>1, <2>2
  <2> QED BY <1>10, <2>3, <2>4
<1>12. ReleasedUnreachable'
  BY <1>4, <1>9, <1>10 DEF StackOK, ReleasedUnreachable, SameObjects
<1> QED BY <1>5, <1>7, <1>8, <1>11, <1>12 DEF StackOK

(* The TokenLexer of an enabled macro starts; every call is expanding.     *)
LEMMA PushMacro ==
  ASSUME StackOK, NEW m \in 1 .. Len(mi), mi[m].enabled, m \notin Range(micache),
         stk' \in Seq(Lexers), Len(stk') = Len(stk) + 1, stk'[Len(stk) + 1].macro = m,
         \A i \in 1 .. Len(stk) : stk'[i].macro = stk[i].macro,
         mi' = [mi EXCEPT ![m].enabled = FALSE], macros' = macros, micache' = micache,
         subs' \in Seq(Frames), Len(subs') <= Len(subs), Expanding = 1 .. Len(subs'),
         \A i \in 1 .. Len(subs') : subs'[i].id = subs[i].id /\ subs'[i].pre = subs[i].pre
  PROVE  StackOK'
<1>0. /\ Len(mi) \in Nat /\ Len(stk) \in Nat /\ Len(subs) \in Nat /\ Len(subs') \in Nat
      /\ m \in Nat \ {0}
  BY DEF StackOK, StackTyped
<1>1. \A i \in 1 .. Len(subs') : i \in 1 .. Len(subs) /\ subs'[i].pre # 0
  BY <1>0 DEF Expanding
<1>2. \A i \in 1 .. Len(stk) : stk[i].macro # m
  <2>1. DOMAIN stk = 1 .. Len(stk) /\ m \in Addresses BY DEF StackOK, StackTyped, Addresses
  <2> QED BY <2>1 DEF StackOK, DisabledWhileLive
<1>3. /\ mi' \in Seq(Infos) /\ Len(mi') = Len(mi) /\ ~mi'[m].enabled
      /\ \A i \in 1 .. Len(mi) : i # m => mi'[i] = mi[i]
  <2>1. m \in 1 .. Len(mi) /\ mi[m] \in Infos BY DEF StackOK, StackTyped
  <2>2. [mi[m] EXCEPT !.enabled = FALSE] \in Infos BY <2>1 DEF Infos
  <2>3. mi' = [mi EXCEPT ![m] = [mi[m] EXCEPT !.enabled = FALSE]] OBVIOUS
  <2>4. mi' \in Seq(Infos) /\ Len(mi') = Len(mi)
    BY <2>1, <2>2, <2>3, ExceptSeq DEF StackOK, StackTyped
  <2>5. mi \in [1 .. Len(mi) -> Infos] BY DEF StackOK, StackTyped
  <2>6. mi'[m] = [mi[m] EXCEPT !.enabled = FALSE] BY <2>1, <2>3, <2>5
  <2>7. ~mi'[m].enabled BY <2>1, <2>6 DEF Infos
  <2>8. \A i \in 1 .. Len(mi) : i # m => mi'[i] = mi[i] BY <2>3, <2>5
  <2> QED BY <2>4, <2>7, <2>8
<1>4. \A i \in 1 .. Len(stk') : i \in 1 .. Len(stk) \/ i = Len(stk) + 1 BY <1>0
<1>5. StackTyped'
  <2>1. \A i \in 1 .. Len(stk') : stk'[i].macro <= Len(mi')
    <3>1. \A i \in 1 .. Len(stk) : stk[i].macro <= Len(mi) BY DEF StackOK, StackTyped
    <3>2. m <= Len(mi) BY <1>0
    <3> QED BY <1>3, <1>4, <3>1, <3>2
  <2> QED BY <2>1, <1>1, <1>3 DEF StackOK, StackTyped
<1>6. InTheMiddle'
  <2>1. \A i \in 1 .. Len(subs') - 1 : i \in 1 .. Len(subs') BY <1>0
  <2> QED BY <2>1, <1>1 DEF InTheMiddle
<1>7. StreamsInOrder'
  <2>1. Expanding' = Expanding BY <1>1 DEF Expanding
  <2>2. PICK at \in [Expanding -> 1 .. Len(stk)] : StreamsAt(at)
    BY DEF StackOK, StreamsInOrder
  <2>3. \A i \in Expanding : /\ at[i] \in 1 .. Len(stk) /\ at[i] \in 1 .. Len(stk')
                              /\ i \in 1 .. Len(subs')
    BY <1>0, <2>2
  <2>4. at \in [Expanding' -> 1 .. Len(stk')] BY <2>1, <2>2, <2>3
  <2>5. StreamsAt(at)'
    <3>1. \A i \in Expanding' : stk'[at[i]].macro = 0
      BY <2>1, <2>2, <2>3 DEF StreamsAt
    <3>2. \A i, j \in Expanding' : i < j => at[i] < at[j] BY <2>1, <2>2 DEF StreamsAt
    <3>3. \A p \in 1 .. Len(stk') : stk'[p].macro = 0 => \E i \in Expanding' : at[i] = p
      BY <1>0, <1>4, <2>1, <2>2 DEF StreamsAt
    <3>4. \A i \in Expanding' : \A p \in 1 .. at[i] : stk'[p].macro # subs'[i].id
      <4> TAKE i \in Expanding'
      <4> TAKE p \in 1 .. at[i]
      <4>1. at[i] \in 1 .. Len(stk) /\ i \in Expanding /\ i \in 1 .. Len(subs') BY <2>1, <2>3
      <4>2. p \in 1 .. Len(stk) BY <1>0, <4>1
      <4>3. stk[p].macro # subs[i].id BY <2>2, <4>1 DEF StreamsAt
      <4> QED BY <4>1, <4>2, <4>3
    <3>5. \A i \in 1 .. Len(subs') : i \notin Expanding' =>
            \A p \in 1 .. Len(stk') : stk'[p].macro # subs'[i].id
      BY <2>1
    <3> QED BY <3>1, <3>2, <3>3, <3>4, <3>5 DEF StreamsAt
  <2> QED BY <2>4, <2>5 DEF StreamsInOrder
<1>8. /\ DOMAIN stk = 1 .. Len(stk) /\ DOMAIN stk' = 1 .. Len(stk') /\ Addresses' = Addresses
      /\ DOMAIN subs' = 1 .. Len(subs') /\ DOMAIN subs = 1 .. Len(subs)
  BY <1>3 DEF Addresses, StackOK, StackTyped
<1>9. /\ \A i \in DOMAIN stk : i \in DOMAIN stk' /\ stk'[i].macro = stk[i].macro
      /\ \A i \in DOMAIN stk' : i \in DOMAIN stk \/ (i = Len(stk) + 1 /\ stk'[i].macro = m)
      /\ Len(stk) + 1 \in DOMAIN stk'
  <2>1. /\ \A i \in 1 .. Len(stk) : i \in 1 .. Len(stk')
        /\ Len(stk) + 1 \in 1 .. Len(stk')
    BY <1>0
  <2> QED BY <1>4, <1>8, <2>1
<1>10. DisabledWhileLive'
  <2> SUFFICES ASSUME NEW id \in Addresses
               PROVE  /\ ~mi'[id].enabled <=> \E i \in DOMAIN stk' : stk'[i].macro = id
                      /\ \A i, j \in DOMAIN stk' :
                           stk'[i].macro = id /\ stk'[j].macro = id => i = j
    BY <1>8 DEF DisabledWhileLive
  <2>1. /\ ~mi[id].enabled <=> \E i \in DOMAIN stk : stk[i].macro = id
        /\ \A i, j \in DOMAIN stk : stk[i].macro = id /\ stk[j].macro = id => i = j
    BY DEF StackOK, DisabledWhileLive
  <2>2. CASE id = m
    <3>1. \A i \in DOMAIN stk : stk[i].macro # id BY <1>2, <1>8, <2>2
    <3>2. \A i \in DOMAIN stk' : stk'[i].macro = id => i = Len(stk) + 1 BY <1>9, <3>1
    <3>3. \E i \in DOMAIN stk' : stk'[i].macro = id BY <1>9, <2>2
    <3> QED BY <1>3, <2>2, <3>2, <3>3
  <2>3. CASE id # m
    <3>1. mi'[id] = mi[id] BY <1>3, <2>3 DEF Addresses, StackOK, StackTyped
    <3>2. \A i \in DOMAIN stk' : stk'[i].macro = id => i \in DOMAIN stk BY <1>9, <2>3
    <3> QED BY <1>9, <2>1, <3>1, <3>2
  <2> QED BY <2>2, <2>3
<1>11. ReleasedUnreachable'
  <2>1. \A i \in DOMAIN subs' : i \in DOMAIN subs /\ subs'[i].id = subs[i].id BY <1>1, <1>8
  <2> QED BY <1>9, <2>1 DEF StackOK, ReleasedUnreachable
<1> QED BY <1>5, <1>6, <1>7, <1>10, <1>11 DEF StackOK

(* A call of Init starts to substitute the arguments of an enabled macro.  *)
LEMMA PushCall ==
  ASSUME StackOK, NEW m \in 1 .. Len(mi), mi[m].enabled, m \notin Range(micache),
         \A i \in 1 .. Len(subs) : subs[i].pre # 0, SameLexers, SameObjects,
         NEW f \in Frames, f.id = m, f.pre = 0, subs' = Append(subs, f)
  PROVE  StackOK'
<1>0. /\ Len(mi) \in Nat /\ Len(stk) \in Nat /\ Len(subs) \in Nat /\ m \in Nat \ {0}
      /\ subs \in Seq(Frames)
  BY DEF StackOK, StackTyped
<1>1. /\ subs' \in Seq(Frames) /\ Len(subs') = Len(subs) + 1 /\ subs'[Len(subs) + 1] = f
      /\ \A i \in 1 .. Len(subs) : subs'[i] = subs[i]
  BY <1>0, Appended
<1>2. \A i \in 1 .. Len(subs') : i \in 1 .. Len(subs) \/ i = Len(subs) + 1 BY <1>0, <1>1
<1>3. /\ DOMAIN stk = 1 .. Len(stk) /\ DOMAIN stk' = DOMAIN stk
      /\ DOMAIN subs' = 1 .. Len(subs') /\ DOMAIN subs = 1 .. Len(subs)
  BY <1>1 DEF SameLexers, StackOK, StackTyped
<1>4. \A i \in 1 .. Len(stk) : stk[i].macro # m
  <2>1. m \in Addresses BY DEF StackOK, StackTyped, Addresses
  <2> QED BY <1>3, <2>1 DEF StackOK, DisabledWhileLive
<1>5. StackTyped'
  <2>1. \A i \in 1 .. Len(subs') : subs'[i].id <= Len(mi)
    BY <1>0, <1>1, <1>2 DEF StackOK, StackTyped
  <2> QED BY <1>1, <2>1 DEF StackOK, StackTyped, SameLexers, SameObjects
<1>6. InTheMiddle'
  <2>1. \A i \in 1 .. Len(subs') - 1 : i \in 1 .. Len(subs) BY <1>0, <1>1
  <2> QED BY <1>1, <2>1 DEF InTheMiddle
<1>7. StreamsInOrder'
  <2>1. Expanding = 1 .. Len(subs) BY DEF Expanding
  <2>2. Expanding' = Expanding
    <3>1. \A i \in 1 .. Len(subs) : i \in 1 .. Len(subs') /\ i # Len(subs) + 1 BY <1>0, <1>1
    <3> QED BY <1>1, <1>2, <3>1 DEF Expanding
  <2>3. PICK at \in [Expanding -> 1 .. Len(stk)] : StreamsAt(at)
    BY DEF StackOK, StreamsInOrder
  <2>4. \A i \in Expanding : at[i] \in 1 .. Len(stk) /\ i \in 1 .. Len(subs) BY <2>1, <2>3
  <2>5. at \in [Expanding' -> 1 .. Len(stk')] BY <2>2, <2>3 DEF SameLexers
  <2>6. StreamsAt(at)'
    <3>1. \A i \in Expanding' : stk'[at[i]].macro = 0
      BY <2>2, <2>3, <2>4 DEF StreamsAt, SameLexers
    <3>2. \A i, j \in Expanding' : i < j => at[i] < at[j] BY <2>2, <2>3 DEF StreamsAt
    <3>3. \A p \in 1 .. Len(stk') : stk'[p].macro = 0 => \E i \in Expanding' : at[i] = p
      BY <2>2, <2>3 DEF StreamsAt, SameLexers
    <3>4. \A i \in Expanding' : \A p \in 1 .. at[i] : stk'[p].macro # subs'[i].id
      <4> TAKE i \in Expanding'
      <4> TAKE p \in 1 .. at[i]
      <4>1. at[i] \in 1 .. Len(stk) /\ i \in Expanding /\ i \in 1 .. Len(subs) BY <2>2, <2>4
      <4>2. p \in 1 .. Len(stk) BY <1>0, <4>1
      <4>3. stk[p].macro # subs[i].id BY <2>3, <4>1 DEF StreamsAt
      <4> QED BY <1>1, <4>1, <4>2, <4>3 DEF SameLexers
    <3>5. \A i \in 1 .. Len(subs') : i \notin Expanding' =>
            \A p \in 1 .. Len(stk') : stk'[p].macro # subs'[i].id
      BY <1>1, <1>2, <1>4, <2>1, <2>2 DEF SameLexers
    <3> QED BY <3>1, <3>2, <3>3, <3>4, <3>5 DEF StreamsAt
  <2> QED BY <2>5, <2>6 DEF StreamsInOrder
<1>8. \A i \in DOMAIN stk : stk'[i].macro = stk[i].macro BY <1>3 DEF SameLexers
<1>9. DisabledWhileLive'
  BY <1>3, <1>8, SMTT(20) DEF StackOK, DisabledWhileLive, SameObjects, Addresses
<1>10. ReleasedUnreachable'
  <2>1. \A i \in DOMAIN subs' : subs'[i].id \notin Range(micache)
    BY <1>1, <1>2, <1>3 DEF StackOK, ReleasedUnreachable
  <2> QED BY <1>3, <1>8, <2>1 DEF StackOK, ReleasedUnreachable, SameObjects
<1> QED BY <1>5, <1>6, <1>7, <1>9, <1>10 DEF StackOK

(* The stream of an argument of the innermost call is entered.             *)
LEMMA PushStream ==
  ASSUME StackOK, Substituting,
         stk' \in Seq(Lexers), Len(stk') = Len(stk) + 1, stk'[Len(stk) + 1].macro = 0,
         \A i \in 1 .. Len(stk) : stk'[i].macro = stk[i].macro,
         subs' \in Seq(Frames), Len(subs') = Len(subs), subs'[Len(subs)].pre # 0,
         \A i \in 1 .. Len(subs) : subs'[i].id = subs[i].id,
         \A i \in 1 .. Len(subs) - 1 : subs'[i].pre = subs[i].pre,
         SameObjects
  PROVE  StackOK'
<1> DEFINE n == Len(stk)
           k == Len(subs) - 1
<1>1. Len(subs) \in Nat \ {0} /\ subs[Len(subs)].pre = 0 /\ Expanding = 1 .. Len(subs) - 1
  BY SubstitutingIsLast DEF StackOK
<1>2. /\ n \in Nat /\ k \in Nat /\ Len(mi) \in Nat
      /\ Len(stk) = n /\ Len(subs) = k + 1 /\ Len(stk') = n + 1 /\ Len(subs') = k + 1
      /\ Expanding = 1 .. k /\ stk'[n + 1].macro = 0 /\ subs'[k + 1].pre # 0
      /\ \A i \in 1 .. n : stk'[i].macro = stk[i].macro
      /\ \A i \in 1 .. k + 1 : subs'[i].id = subs[i].id
      /\ \A i \in 1 .. k : subs'[i].pre = subs[i].pre
  BY <1>1 DEF StackOK, StackTyped
<1> HIDE DEF n, k
<1>3. \A i \in 1 .. n + 1 : i \in 1 .. n \/ i = n + 1 BY <1>2
<1>4. /\ \A i \in 1 .. k : i \in 1 .. k + 1 /\ subs'[i].pre # 0
      /\ \A i \in 1 .. k + 1 : i \in 1 .. k \/ i = k + 1
      /\ k + 1 \in 1 .. k + 1
  <2>1. \A i \in 1 .. k : subs[i].pre # 0 BY <1>2 DEF Expanding
  <2>2. \A i \in 1 .. k : i \in 1 .. k + 1 BY <1>2
  <2> QED BY <1>2, <2>1, <2>2
<1>5. StackTyped'
  <2>1. \A i \in 1 .. n + 1 : stk'[i].macro <= Len(mi)
    <3>1. \A i \in 1 .. n : stk[i].macro <= Len(mi) BY <1>2 DEF StackOK, StackTyped
    <3> QED BY <1>2, <1>3, <3>1
  <2>2. \A i \in 1 .. k + 1 : subs'[i].id <= Len(mi) BY <1>2 DEF StackOK, StackTyped
  <2> QED BY <1>2, <2>1, <2>2 DEF StackOK, StackTyped, SameObjects
<1>6. InTheMiddle'
  <2>1. Len(subs') - 1 = k BY <1>2
  <2> QED BY <1>4, <2>1 DEF InTheMiddle
<1>7. StreamsInOrder'
  <2>1. Expanding' = 1 .. k + 1
    <3>1. \A i \in 1 .. k + 1 : subs'[i].pre # 0 BY <1>2, <1>4
    <3> QED BY <1>2, <3>1 DEF Expanding
  <2>2. PICK at \in [1 .. k -> 1 .. n] : StreamsAt(at) BY <1>2 DEF StackOK, StreamsInOrder
  <2>3. PICK at2 : at2 = [i \in 1 .. k + 1 |-> IF i = k + 1 THEN n + 1 ELSE at[i]] OBVIOUS
  <2>4. /\ at2[k + 1] = n + 1
        /\ \A i \in 1 .. k : at2[i] = at[i] /\ at[i] \in 1 .. n /\ at[i] \in 1 .. n + 1
    <3>1. \A i \in 1 .. k : i # k + 1 /\ i \in 1 .. k + 1 BY <1>2
    <3>2. at2[k + 1] = n + 1 BY <1>4, <2>3
    <3>3. \A i \in 1 .. k : at2[i] = at[i] BY <2>3, <3>1
    <3>4. \A i \in 1 .. k : at[i] \in 1 .. n BY <2>2
    <3> QED BY <1>2, <3>2, <3>3, <3>4
  <2>5. at2 \in [Expanding' -> 1 .. Len(stk')]
    <3>1. \A i \in 1 .. k + 1 : at2[i] \in 1 .. n + 1 BY <1>2, <1>4, <2>4, SMTT(20)
    <3> QED BY <1>2, <2>1, <2>3, <3>1
  <2>6. StreamsAt(at2)'
    <3>1. \A i \in Expanding' : stk'[at2[i]].macro = 0
      <4>1. \A i \in 1 .. k : stk'[at2[i]].macro = 0
        <5> TAKE i \in 1 .. k
        <5>1. stk[at[i]].macro = 0 BY <1>2, <2>2 DEF StreamsAt
        <5> QED BY <1>2, <2>4, <5>1
      <4> QED BY <1>2, <1>4, <2>1, <2>4, <4>1
    <3>2. \A i, j \in Expanding' : i < j => at2[i] < at2[j]
      <4> SUFFICES ASSUME NEW i \in 1 .. k + 1, NEW j \in 1 .. k + 1, i < j
                   PROVE  at2[i] < at2[j]
        BY <2>1
      <4>1. i \in 1 .. k BY <1>2
      <4>2. CASE j = k + 1 BY <1>2, <2>4, <4>1, <4>2
      <4>3. CASE j \in 1 .. k BY <1>2, <2>2, <2>4, <4>1, <4>3 DEF StreamsAt
      <4> QED BY <1>4, <4>2, <4>3
    <3>3. \A p \in 1 .. Len(stk') : stk'[p].macro = 0 => \E i \in Expanding' : at2[i] = p
      <4> SUFFICES ASSUME NEW p \in 1 .. n + 1, stk'[p].macro = 0
                   PROVE  \E i \in 1 .. k + 1 : at2[i] = p
        BY <1>2, <2>1
      <4>1. CASE p = n + 1 BY <1>4, <2>4, <4>1
      <4>2. CASE p \in 1 .. n
        <5>1. PICK i \in 1 .. k : at[i] = p BY <1>2, <2>2, <4>2 DEF StreamsAt
        <5> QED BY <1>4, <2>4, <5>1
      <4> QED BY <1>3, <4>1, <4>2
    <3>4. \A i \in Expanding' : \A p \in 1 .. at2[i] : stk'[p].macro # subs'[i].id
      <4> SUFFICES ASSUME NEW i \in 1 .. k + 1, NEW p \in 1 .. at2[i]
                   PROVE  stk'[p].macro # subs'[i].id
        BY <2>1
      <4>1. CASE i = k + 1
        <5>1. p \in 1 .. n + 1 BY <2>4, <4>1
        <5>2. subs[k + 1].id # 0
          <6>1. subs[k + 1] \in Frames BY <1>2, <1>4 DEF StackOK, StackTyped
          <6> QED BY <6>1 DEF Frames
        <5>3. \A q \in 1 .. n : stk[q].macro # subs[k + 1].id
          <6>1. k + 1 \notin 1 .. k BY <1>2
          <6> QED BY <1>2, <1>4, <2>2, <6>1 DEF StreamsAt
        <5> QED BY <1>2, <1>3, <1>4, <4>1, <5>1, <5>2, <5>3
      <4>2. CASE i \in 1 .. k
        <5>1. p \in 1 .. n /\ p \in 1 .. at[i] BY <1>2, <2>4, <4>2
        <5>2. stk[p].macro # subs[i].id BY <1>2, <2>2, <4>2, <5>1 DEF StreamsAt
        <5> QED BY <1>2, <5>1, <5>2
      <4> QED BY <1>4, <4>1, <4>2
    <3>5. \A i \in 1 .. Len(subs') : i \notin Expanding' =>
            \A p \in 1 .. Len(stk') : stk'[p].macro # subs'[i].id
      BY <1>2, <2>1
    <3> QED BY <3>1, <3>2, <3>3, <3>4, <3>5 DEF StreamsAt
  <2> QED BY <2>5, <2>6 DEF StreamsInOrder
<1>8. /\ DOMAIN stk = 1 .. n /\ DOMAIN stk' = 1 .. n + 1
      /\ DOMAIN subs = 1 .. k + 1 /\ DOMAIN subs' = 1 .. k + 1
  BY <1>2 DEF StackOK, StackTyped
<1>9. /\ \A i \in DOMAIN stk : i \in DOMAIN stk' /\ stk'[i].macro = stk[i].macro
      /\ \A i \in DOMAIN stk' : i \in DOMAIN stk \/ stk'[i].macro = 0
  <2>1. \A i \in 1 .. n : i \in 1 .. n + 1 BY <1>2
  <2> QED BY <1>2, <1>3, <1>8, <2>1
<1>10. DisabledWhileLive'
  <2>1. \A id \in Addresses : id # 0 BY DEF StackOK, StackTyped, Addresses
  <2> SUFFICES ASSUME NEW id \in Addresses
               PROVE  /\ ~mi[id].enabled <=> \E i \in DOMAIN stk' : stk'[i].macro = id
                      /\ \A i, j \in DOMAIN stk' :
                           stk'[i].macro = id /\ stk'[j].macro = id => i = j
    BY DEF DisabledWhileLive, SameObjects, Addresses
  <2>2. /\ ~mi[id].enabled <=> \E i \in DOMAIN stk : stk[i].macro = id
        /\ \A i, j \in DOMAIN stk : stk[i].macro = id /\ stk[j].macro = id => i = j
    BY DEF StackOK, DisabledWhileLive
  <2>3. \A i \in DOMAIN stk' : stk'[i].macro = id => i \in DOMAIN stk BY <1>9, <2>1
  <2> QED BY <1>9, <2>2, <2>3
<1>11. ReleasedUnreachable'
  <2>1. 0 \notin Range(micache)
    <3>1. \A i \in DOMAIN micache : micache[i] # 0 BY DEF StackOK, StackTyped
    <3> QED BY <3>1 DEF Range
  <2>2. \A i \in DOMAIN stk' : stk'[i].macro \notin Range(micache)
    BY <1>9, <2>1 DEF StackOK, ReleasedUnreachable
  <2> QED BY <1>2, <1>8, <2>2 DEF StackOK, ReleasedUnreachable, SameObjects
<1> QED BY <1>5, <1>6, <1>7, <1>10, <1>11 DEF StackOK

-----------------------------------------------------------------------------
(* Directives are met with nothing on the stack.                           *)

AllEnabled(objects) == \A i \in 1 .. Len(objects) : objects[i].enabled

(* The addresses in use and the released ones.                             *)
AddressesApart(table, cache, n) ==
  /\ table \in [Names -> Nat] /\ cache \in Seq(Nat \ {0})
  /\ \A m \in Names : table[m] <= n
  /\ \A i \in 1 .. Len(cache) : cache[i] <= n
  /\ \A m \in Names : \A i \in 1 .. Len(cache) : cache[i] # table[m]
  /\ \A i, j \in 1 .. Len(cache) : cache[i] = cache[j] => i = j
  /\ \A l, m \in Names : table[l] = table[m] /\ table[l] # 0 => l = m

LEMMA EmptyStack ==
  ASSUME StackOK, stk = <<>>
  PROVE  AllEnabled(mi) /\ AddressesApart(macros, micache, Len(mi))
<1>1. AllEnabled(mi)
  <2>1. \A i \in 1 .. Len(mi) : i \in Addresses BY DEF StackOK, StackTyped, Addresses
  <2> QED BY <2>1 DEF StackOK, DisabledWhileLive, AllEnabled
<1>2. \A m \in Names : \A i \in 1 .. Len(micache) : micache[i] # macros[m]
  <2> TAKE m \in Names
  <2>1. micache \in Seq(Nat \ {0}) BY DEF StackOK, StackTyped
  <2>2. CASE macros[m] = 0
    <3>1. \A i \in 1 .. Len(micache) : micache[i] # 0 BY <2>1
    <3> QED BY <2>2, <3>1
  <2>3. CASE macros[m] # 0
    <3>1. macros[m] \notin Range(micache) BY <2>3 DEF StackOK, ReleasedUnreachable
    <3> QED BY <2>1, <3>1, OutOfRange
  <2> QED BY <2>2, <2>3
<1>3. DOMAIN micache = 1 .. Len(micache) BY DEF StackOK, StackTyped
<1> QED BY <1>1, <1>2, <1>3 DEF AddressesApart, StackOK, StackTyped, ReleasedUnreachable

LEMMA DirectiveStep ==
  ASSUME mi' \in Seq(Infos), AllEnabled(mi)', AddressesApart(macros, micache, Len(mi))',
         stk' = <<>>, subs' = <<>>
  PROVE  StackOK'
<1>1. /\ Len(stk') = 0 /\ Len(subs') = 0 /\ DOMAIN stk' = {} /\ DOMAIN subs' = {}
      /\ stk' \in Seq(Lexers) /\ subs' \in Seq(Frames) /\ 1 .. 0 = {} /\ 1 .. 0 - 1 = {}
      /\ DOMAIN micache' = 1 .. Len(micache') /\ micache' \in Seq(Nat \ {0})
  BY DEF AddressesApart
<1>2. StackTyped' BY <1>1 DEF StackTyped, AddressesApart
<1>3. InTheMiddle' BY <1>1 DEF InTheMiddle
<1>4. StreamsInOrder'
  <2>1. Expanding' = {} BY <1>1 DEF Expanding
  <2>2. PICK at : at = [i \in {} |-> 0] OBVIOUS
  <2>3. at \in [Expanding' -> 1 .. Len(stk')] BY <2>1, <2>2
  <2>4. StreamsAt(at)' BY <1>1, <2>1 DEF StreamsAt
  <2> QED BY <2>3, <2>4 DEF StreamsInOrder
<1>5. DisabledWhileLive'
  <2>1. Addresses' = 1 .. Len(mi') BY DEF Addresses
  <2> QED BY <1>1, <2>1 DEF DisabledWhileLive, AllEnabled
<1>6. ReleasedUnreachable'
  <2>1. \A m \in Names : macros'[m] \notin Range(micache')
    BY <1>1, OutOfRange DEF AddressesApart
  <2> QED BY <1>1, <2>1 DEF ReleasedUnreachable, AddressesApart
<1> QED BY <1>2, <1>3, <1>4, <1>5, <1>6 DEF StackOK

LEMMA FreeKeeps ==
  ASSUME NEW objects \in Seq(Infos), AllEnabled(objects), NEW id \in 1 .. Len(objects)
  PROVE  /\ FreeArgumentList(objects, id) \in Seq(Infos)
         /\ Len(FreeArgumentList(objects, id)) = Len(objects)
         /\ AllEnabled(FreeArgumentList(objects, id))
<1> DEFINE e == [objects[id] EXCEPT !.params = <<>>]
           t == [objects EXCEPT ![id] = e]
<1>1. objects[id] \in Infos /\ objects[id].enabled BY DEF AllEnabled
<1>2. <<>> \in Seq(Symbols) OBVIOUS
<1>3. e \in Infos /\ e.enabled BY <1>1, <1>2 DEF Infos
<1>4. FreeArgumentList(objects, id) = t BY DEF FreeArgumentList
<1> HIDE DEF e
<1>5. t \in Seq(Infos) /\ Len(t) = Len(objects) BY <1>3, ExceptSeq
<1>6. \A i \in 1 .. Len(objects) : t[i] = IF i = id THEN e ELSE objects[i] OBVIOUS
<1>7. AllEnabled(t) BY <1>3, <1>5, <1>6 DEF AllEnabled
<1> QED BY <1>4, <1>5, <1>7

(* A released address is put in the cache.                                 *)
LEMMA ReleaseKeepsApart ==
  ASSUME NEW table, NEW cache, NEW n \in Nat, AddressesApart(table, cache, n),
         NEW id \in 1 .. n, \A m \in Names : table[m] # id,
         \A i \in 1 .. Len(cache) : cache[i] # id
  PROVE  AddressesApart(table, Append(cache, id), n)
<1>1. PICK t : t = Append(cache, id) OBVIOUS
<1>2. cache \in Seq(Nat \ {0}) /\ id \in Nat \ {0} /\ Len(cache) \in Nat
  BY DEF AddressesApart
<1>3. /\ t \in Seq(Nat \ {0}) /\ Len(t) = Len(cache) + 1 /\ t[Len(cache) + 1] = id
      /\ \A i \in 1 .. Len(cache) : t[i] = cache[i]
  BY <1>1, <1>2, Appended
<1>4. \A i \in 1 .. Len(t) : i \in 1 .. Len(cache) \/ i = Len(cache) + 1 BY <1>2, <1>3
<1>5. \A i \in 1 .. Len(t) : t[i] <= n
  <2>1. id <= n /\ \A i \in 1 .. Len(cache) : cache[i] <= n BY DEF AddressesApart
  <2> QED BY <1>3, <1>4, <2>1
<1>6. \A m \in Names : \A i \in 1 .. Len(t) : t[i] # table[m] BY <1>3, <1>4 DEF AddressesApart
<1>7. \A i, j \in 1 .. Len(t) : t[i] = t[j] => i = j BY <1>3, <1>4 DEF AddressesApart
<1>8. AddressesApart(table, t, n) BY <1>3, <1>5, <1>6, <1>7 DEF AddressesApart
<1> QED BY <1>1, <1>8

LEMMA UndefStep ==
  ASSUME StackOK, InvOK, DataTyped, HandleUndef
  PROVE  StackOK' /\ Len(mi) <= Len(mi') /\ AllEnabled(mi')
<1> DEFINE name == Head(file).name
           old == macros[name]
<1>1. stk = <<>> /\ subs = <<>> /\ file # <<>> /\ stk' = stk /\ subs' = subs
  <2>1. stk = <<>> /\ ~Substituting /\ file # <<>> BY DEF HandleUndef, AtDirective, Lexing
  <2>2. subs = <<>> BY <2>1, NoLexersNoCalls
  <2>3. stk' = stk /\ subs' = subs BY DEF HandleUndef
  <2> QED BY <2>1, <2>2, <2>3
<1>2. AllEnabled(mi) /\ AddressesApart(macros, micache, Len(mi)) BY <1>1, EmptyStack
<1>3. name \in Names
  <2>1. file \in Seq(Items) /\ Head(file) = file[1] /\ 1 \in 1 .. Len(file)
    BY <1>1 DEF DataTyped
  <2>2. Head(file).op # "tok" BY DEF HandleUndef, AtDirective
  <2> QED BY <2>1, <2>2 DEF DataTyped
<1>4. Len(mi) \in Nat /\ mi \in Seq(Infos) /\ macros \in [Names -> Nat]
  BY DEF StackOK, StackTyped
<1>5. IF old = 0 THEN mi' = mi /\ macros' = macros /\ micache' = micache
      ELSE /\ mi' = FreeArgumentList(mi, old) /\ micache' = Append(micache, old)
           /\ macros' = [macros EXCEPT ![name] = 0]
  BY DEF HandleUndef
<1> HIDE DEF name, old
<1>6. CASE old = 0
  <2>1. AllEnabled(mi)' /\ AddressesApart(macros, micache, Len(mi))'
    BY <1>2, <1>5, <1>6 DEF AllEnabled, AddressesApart
  <2> QED BY <1>1, <1>2, <1>4, <1>5, <1>6, <2>1, DirectiveStep
<1>7. CASE old # 0
  <2>1. old \in 1 .. Len(mi) BY <1>2, <1>3, <1>4, <1>7 DEF AddressesApart, old
  <2>2. mi' \in Seq(Infos) /\ Len(mi') = Len(mi) /\ AllEnabled(mi')
    BY <1>2, <1>4, <1>5, <1>7, <2>1, FreeKeeps
  <2>3. macros' = [macros EXCEPT ![name] = 0] BY <1>5, <1>7
  <2>4. \A m \in Names : macros'[m] = IF m = name THEN 0 ELSE macros[m] BY <1>4, <2>3
  <2>5. AddressesApart(macros', micache, Len(mi'))
    <3>1. macros' \in [Names -> Nat] BY <1>4, <2>3
    <3>2. \A i \in 1 .. Len(micache) : micache[i] # 0 BY <1>2 DEF AddressesApart
    <3> QED BY <1>2, <1>4, <2>2, <2>4, <3>1, <3>2 DEF AddressesApart
  <2>6. \A m \in Names : macros'[m] # old
    BY <1>2, <1>3, <1>7, <2>1, <2>4 DEF AddressesApart, old
  <2>7. \A i \in 1 .. Len(micache) : micache[i] # old BY <1>2, <1>3 DEF AddressesApart, old
  <2>8. Len(mi') \in Nat /\ old \in 1 .. Len(mi') BY <1>4, <2>1, <2>2
  <2>9. AddressesApart(macros', micache', Len(mi'))
    BY <1>5, <1>7, <2>5, <2>6, <2>7, <2>8, ReleaseKeepsApart
  <2>10. StackOK'
    <3>1. AllEnabled(mi)' /\ AddressesApart(macros, micache, Len(mi))'
      BY <2>2, <2>9 DEF AllEnabled, AddressesApart
    <3> QED BY <1>1, <2>2, <3>1, DirectiveStep
  <2> QED BY <1>4, <2>2, <2>10
<1> QED BY <1>6, <1>7

(* AllocateMacroInfo: the object made or taken from the cache.             *)
LEMMA Allocation ==
  ASSUME NEW objects, NEW id, NEW cache, NEW info \in Infos, info.enabled,
         mi \in Seq(Infos), AllEnabled(mi), AddressesApart(macros, micache, Len(mi)),
         id = IF micache = <<>> THEN Len(mi) + 1 ELSE Last(micache),
         cache = IF micache = <<>> THEN <<>> ELSE Front(micache),
         objects = IF micache = <<>> THEN Append(mi, info) ELSE [mi EXCEPT ![id] = info]
  PROVE  /\ objects \in Seq(Infos) /\ AllEnabled(objects) /\ Len(mi) <= Len(objects)
         /\ id \in 1 .. Len(objects) /\ AddressesApart(macros, cache, Len(objects))
         /\ \A n \in Names : macros[n] # id
         /\ \A i \in 1 .. Len(cache) : cache[i] # id
<1>0. Len(mi) \in Nat /\ micache \in Seq(Nat \ {0}) BY DEF AddressesApart
<1>1. CASE micache = <<>>
  <2>1. cache = <<>> /\ id = Len(mi) + 1 /\ objects = Append(mi, info) /\ Len(cache) = 0
    BY <1>1
  <2>2. /\ objects \in Seq(Infos) /\ Len(objects) = Len(mi) + 1 /\ objects[Len(mi) + 1] = info
        /\ \A i \in 1 .. Len(mi) : objects[i] = mi[i]
    BY <2>1, Appended
  <2>3. \A i \in 1 .. Len(objects) : i \in 1 .. Len(mi) \/ i = Len(mi) + 1 BY <1>0, <2>2
  <2>4. AllEnabled(objects) BY <2>2, <2>3 DEF AllEnabled
  <2>5. \A n \in Names : macros[n] # id /\ macros[n] <= Len(objects)
    <3> TAKE n \in Names
    <3>1. macros[n] \in Nat /\ macros[n] <= Len(mi) BY DEF AddressesApart
    <3> QED BY <1>0, <2>1, <2>2, <3>1
  <2>6. AddressesApart(macros, cache, Len(objects))
    BY <1>1, <2>1, <2>5 DEF AddressesApart
  <2>7. id \in 1 .. Len(objects) BY <1>0, <2>1, <2>2
  <2> QED BY <1>0, <2>1, <2>2, <2>4, <2>5, <2>6, <2>7
<1>2. CASE micache # <<>>
  <2>1. PICK k : k = Len(micache) OBVIOUS
  <2>2. /\ k \in Nat \ {0} /\ id = micache[k] /\ cache = Front(micache) /\ k \in 1 .. k
        /\ cache \in Seq(Nat \ {0}) /\ Len(cache) = k - 1
        /\ \A i \in 1 .. k - 1 : cache[i] = micache[i] /\ i \in 1 .. k /\ i # k
    <3>1. /\ k \in Nat \ {0} /\ Last(micache) = micache[k]
          /\ Front(micache) \in Seq(Nat \ {0}) /\ Len(Front(micache)) = k - 1
          /\ \A i \in 1 .. k - 1 : Front(micache)[i] = micache[i]
      BY <1>0, <1>2, <2>1, FrontLast
    <3> QED BY <1>2, <3>1
  <2>3. id \in 1 .. Len(mi)
    <3>1. micache[k] \in Nat \ {0} BY <1>0, <2>1, <2>2
    <3>2. micache[k] <= Len(mi) BY <2>1, <2>2 DEF AddressesApart
    <3> QED BY <1>0, <2>2, <3>1, <3>2
  <2>4. /\ objects \in Seq(Infos) /\ Len(objects) = Len(mi)
        /\ \A i \in 1 .. Len(mi) : objects[i] = IF i = id THEN info ELSE mi[i]
    <3>1. objects = [mi EXCEPT ![id] = info] BY <1>2
    <3>2. objects \in Seq(Infos) /\ Len(objects) = Len(mi) BY <2>3, <3>1, ExceptSeq
    <3>3. mi \in [1 .. Len(mi) -> Infos] OBVIOUS
    <3> QED BY <3>1, <3>2, <3>3
  <2>5. AllEnabled(objects)
    <3> SUFFICES ASSUME NEW i \in 1 .. Len(mi) PROVE objects[i].enabled
      BY <2>4 DEF AllEnabled
    <3>1. mi[i].enabled BY DEF AllEnabled
    <3> QED BY <2>4, <3>1
  <2>6. \A n \in Names : macros[n] # id BY <2>1, <2>2, SMTT(20) DEF AddressesApart
  <2>7. \A i \in 1 .. Len(cache) : cache[i] # id
    <3> TAKE i \in 1 .. Len(cache)
    <3>1. i \in 1 .. k - 1 BY <2>2
    <3>2. i \in 1 .. Len(micache) /\ k \in 1 .. Len(micache) /\ i # k BY <2>1, <2>2, <3>1
    <3>3. micache[i] # micache[k] BY <3>2 DEF AddressesApart
    <3> QED BY <2>2, <3>1, <3>3
  <2>8. AddressesApart(macros, cache, Len(objects))
    <3>1. /\ macros \in [Names -> Nat] /\ \A m \in Names : macros[m] <= Len(objects)
          /\ \A l, m \in Names : macros[l] = macros[m] /\ macros[l] # 0 => l = m
      BY <2>4 DEF AddressesApart
    <3>2. \A i \in 1 .. Len(cache) :
            cache[i] = micache[i] /\ i \in 1 .. Len(micache) /\ i \in 1 .. k - 1
      BY <2>1, <2>2
    <3>3. \A i \in 1 .. Len(cache) : cache[i] <= Len(objects)
      BY <2>4, <3>2 DEF AddressesApart
    <3>4. \A m \in Names : \A i \in 1 .. Len(cache) : cache[i] # macros[m]
      BY <3>2 DEF AddressesApart
    <3>5. \A i, j \in 1 .. Len(cache) : cache[i] = cache[j] => i = j
      BY <3>2 DEF AddressesApart
    <3> QED BY <2>2, <3>1, <3>3, <3>4, <3>5 DEF AddressesApart
  <2> QED BY <1>0, <2>3, <2>4, <2>5, <2>6, <2>7, <2>8
<1> QED BY <1>1, <1>2

LEMMA DefineStep ==
  ASSUME StackOK, InvOK, DataTyped, HandleDefine
  PROVE  StackOK' /\ Len(mi) <= Len(mi') /\ AllEnabled(mi')
<1>1. stk = <<>> /\ subs = <<>> /\ file # <<>> /\ stk' = stk /\ subs' = subs
  <2>1. stk = <<>> /\ ~Substituting /\ file # <<>> BY DEF HandleDefine, AtDirective, Lexing
  <2>2. subs = <<>> BY <2>1, NoLexersNoCalls
  <2>3. stk' = stk /\ subs' = subs BY DEF HandleDefine
  <2> QED BY <2>1, <2>2, <2>3
<1>2. AllEnabled(mi) /\ AddressesApart(macros, micache, Len(mi)) BY <1>1, EmptyStack
<1> DEFINE name == Head(file).name
           def == Head(file).def
           id == IF micache = <<>> THEN Len(mi) + 1 ELSE Last(micache)
           cache == IF micache = <<>> THEN <<>> ELSE Front(micache)
           info == [fn |-> def.fn, params |-> def.params, variadic |-> def.variadic,
                    body |-> def.body, enabled |-> TRUE]
           objects == IF micache = <<>> THEN Append(mi, info) ELSE [mi EXCEPT ![id] = info]
           old == macros[name]
<1>3. name \in Names /\ def \in Definitions
  <2>1. file \in Seq(Items) /\ Head(file) = file[1] /\ 1 \in 1 .. Len(file)
    BY <1>1 DEF DataTyped
  <2>2. Head(file).op # "tok" BY DEF HandleDefine, AtDirective
  <2>3. Head(file) \in Items BY <2>1
  <2> QED BY <2>1, <2>2, <2>3 DEF DataTyped, Items
<1>4. info \in Infos /\ info.enabled BY <1>3 DEF Definitions, Infos
<1>5. Len(mi) \in Nat /\ mi \in Seq(Infos) /\ macros \in [Names -> Nat]
  BY DEF StackOK, StackTyped
<1>6. IF Rejected(def)
        THEN mi' = FreeArgumentList(objects, id) /\ micache' = Append(cache, id) /\ macros' = macros
        ELSE /\ mi' = IF old = 0 THEN objects ELSE FreeArgumentList(objects, old)
             /\ micache' = IF old = 0 THEN cache ELSE Append(cache, old)
             /\ macros' = [macros EXCEPT ![name] = id]
  BY DEF HandleDefine
<1> HIDE DEF info
<1>7. /\ objects \in Seq(Infos) /\ AllEnabled(objects) /\ Len(mi) <= Len(objects)
      /\ id \in 1 .. Len(objects) /\ AddressesApart(macros, cache, Len(objects))
      /\ \A n \in Names : macros[n] # id
      /\ \A i \in 1 .. Len(cache) : cache[i] # id
  BY <1>2, <1>4, <1>5, Allocation
<1>8. old \in Nat /\ old <= Len(objects) /\ \A i \in 1 .. Len(cache) : cache[i] # old
  BY <1>3, <1>5, <1>7 DEF AddressesApart
<1>9. Len(objects) \in Nat BY <1>7
<1> HIDE DEF name, def, id, cache, objects
<1>10. SUFFICES /\ mi' \in Seq(Infos) /\ AllEnabled(mi') /\ Len(mi') = Len(objects)
                /\ AddressesApart(macros', micache', Len(mi'))
  <2>1. AllEnabled(mi)' /\ AddressesApart(macros, micache, Len(mi))'
    BY <1>10 DEF AllEnabled, AddressesApart
  <2> QED BY <1>1, <1>7, <1>10, <2>1, DirectiveStep
<1>11. CASE Rejected(def)
  <2>1. mi' = FreeArgumentList(objects, id) /\ micache' = Append(cache, id) /\ macros' = macros
    BY <1>6, <1>11
  <2>2. mi' \in Seq(Infos) /\ Len(mi') = Len(objects) /\ AllEnabled(mi')
    BY <1>7, <2>1, FreeKeeps
  <2>3. AddressesApart(macros, Append(cache, id), Len(objects))
    BY <1>7, <1>9, ReleaseKeepsApart
  <2> QED BY <2>1, <2>2, <2>3
<1>12. CASE ~Rejected(def)
  <2>1. /\ mi' = IF old = 0 THEN objects ELSE FreeArgumentList(objects, old)
        /\ micache' = IF old = 0 THEN cache ELSE Append(cache, old)
        /\ macros' = [macros EXCEPT ![name] = id]
    BY <1>6, <1>12
  <2>2. mi' \in Seq(Infos) /\ Len(mi') = Len(objects) /\ AllEnabled(mi')
    <3>1. CASE old = 0 BY <1>7, <2>1, <3>1
    <3>2. CASE old # 0
      <4>1. old \in 1 .. Len(objects) BY <1>8, <1>9, <3>2
      <4> QED BY <1>7, <2>1, <3>2, <4>1, FreeKeeps
    <3> QED BY <3>1, <3>2
  <2>3. \A n \in Names : macros'[n] = IF n = name THEN id ELSE macros[n] BY <1>5, <2>1
  <2>4. AddressesApart(macros', cache, Len(objects))
    <3>0. id \in Nat BY <1>7
    <3>1. macros' \in [Names -> Nat] BY <1>5, <2>1, <3>0
    <3>2. id <= Len(objects) BY <1>7, <1>9
    <3> QED BY <1>7, <2>3, <3>1, <3>2 DEF AddressesApart
  <2>5. \A n \in Names : old # 0 => macros'[n] # old
    BY <1>3, <1>7, <2>3 DEF AddressesApart
  <2>6. AddressesApart(macros', micache', Len(mi'))
    <3>1. CASE old = 0 BY <2>1, <2>2, <2>4, <3>1
    <3>2. CASE old # 0
      <4>1. old \in 1 .. Len(objects) BY <1>8, <1>9, <3>2
      <4>2. AddressesApart(macros', Append(cache, old), Len(objects))
        BY <1>8, <1>9, <2>4, <2>5, <3>2, <4>1, ReleaseKeepsApart
      <4> QED BY <2>1, <2>2, <3>2, <4>2
    <3> QED BY <3>1, <3>2
  <2> QED BY <2>2, <2>6
<1> QED BY <1>11, <1>12

-----------------------------------------------------------------------------
(* Reading a token.                                                        *)

LEMMA AfterToken ==
  ASSUME DataTyped, StackTyped, HaveToken
  PROVE  /\ Token \in Tokens
         /\ StkAfter \in Seq(Lexers) /\ Len(StkAfter) = Len(stk)
         /\ \A i \in 1 .. Len(stk) : StkAfter[i].macro = stk[i].macro
         /\ FileAfter \in Seq(Items)
         /\ \A i \in 1 .. Len(FileAfter) : FileAfter[i].op # "tok" => FileAfter[i].name \in Names
<1>0. file \in Seq(Items) /\ stk \in Seq(Lexers) BY DEF DataTyped, StackTyped
<1>1. "eof" \in Symbols BY NamesAssumption DEF Punctuators
<1>2. \A s \in Symbols : Tok(s) \in Tokens BY DEF Tok, Tokens
<1>3. file # <<>> => /\ Head(file) \in Items /\ Tail(file) \in Seq(Items)
                     /\ \A i \in 1 .. Len(Tail(file)) : Tail(file)[i].op # "tok" =>
                          Tail(file)[i].name \in Names
  <2> HAVE file # <<>>
  <2>1. Head(file) \in Items /\ Tail(file) \in Seq(Items) /\ Len(Tail(file)) = Len(file) - 1
        /\ \A i \in 1 .. Len(file) - 1 : Tail(file)[i] = file[i + 1]
    BY <1>0, HeadTailProperties
  <2>2. Len(file) \in Nat BY <1>0
  <2>3. \A i \in 1 .. Len(file) - 1 : i + 1 \in 1 .. Len(file) BY <2>2
  <2> QED BY <2>1, <2>3 DEF DataTyped
<1>4. CASE stk = <<>>
  <2>1. Token \in Tokens
    <3>1. CASE file = <<>> BY <1>1, <1>2, <1>4, <3>1 DEF Token
    <3>2. CASE file # <<>>
      <4>1. Head(file).name \in Symbols BY <1>3, <3>2 DEF Items
      <4> QED BY <1>2, <1>4, <3>2, <4>1 DEF Token
    <3> QED BY <3>1, <3>2
  <2>2. StkAfter = <<>> /\ Len(stk) = 0 BY <1>4 DEF StkAfter
  <2>3. FileAfter = IF file = <<>> THEN file ELSE Tail(file) BY <1>4 DEF FileAfter
  <2> QED BY <1>0, <1>3, <1>4, <2>1, <2>2, <2>3 DEF DataTyped
<1>5. CASE stk # <<>>
  <2>1. /\ Len(stk) \in 1 .. Len(stk) /\ Top = stk[Len(stk)] /\ Top \in Lexers
    BY <1>5, LastOfStack
  <2>2. Top.toks \in Seq(Tokens) /\ Top.macro \in Nat /\ Top.toks # <<>>
    BY <1>5, <2>1 DEF Lexers, HaveToken
  <2>3. Head(Top.toks) \in Tokens /\ Tail(Top.toks) \in Seq(Tokens)
    BY <2>2, HeadTailProperties
  <2> DEFINE e == [Top EXCEPT !.toks = Tail(@)]
  <2>4. e \in Lexers /\ e.macro = Top.macro BY <2>1, <2>3 DEF Lexers
  <2>5. StkAfter = [stk EXCEPT ![Len(stk)] = e] BY <1>5, <2>1 DEF StkAfter
  <2> HIDE DEF e
  <2>6. StkAfter \in Seq(Lexers) /\ Len(StkAfter) = Len(stk)
    BY <1>0, <2>1, <2>4, <2>5, ExceptSeq
  <2>7. \A i \in 1 .. Len(stk) : StkAfter[i] = IF i = Len(stk) THEN e ELSE stk[i]
    BY <1>0, <2>5
  <2>8. Token = Head(Top.toks) /\ FileAfter = file BY <1>5 DEF Token, FileAfter
  <2> QED BY <1>0, <2>1, <2>3, <2>4, <2>6, <2>7, <2>8 DEF DataTyped
<1> QED BY <1>4, <1>5

(* A step that only consumes the token, or drops it.                       *)
LEMMA ConsumeStep ==
  ASSUME DataTyped, StackOK, HaveToken, stk' = StkAfter, subs' = subs, SameObjects
  PROVE  StackOK'
<1>1. SameLexers BY AfterToken DEF SameLexers, StackOK
<1>2. SameCalls BY DEF SameCalls, StackOK, StackTyped
<1> QED BY <1>1, <1>2, QuietStep

(* A token is returned to the client or to the call whose argument it is.  *)
LEMMA DeliverStep ==
  ASSUME NEW t \in Tokens, DataTyped, StackOK, InvOK, HaveToken, MacrosTakeTurns,
         Deliver(t), SameObjects
  PROVE  StackOK' /\ out' \in Seq(Tokens) /\ MacrosTakeTurns'
<1>0. /\ out \in Seq(Tokens) /\ stk \in Seq(Lexers) /\ subs \in Seq(Frames)
      /\ StackTyped /\ ~Substituting
  BY DEF DataTyped, StackOK, StackTyped, HaveToken, Lexing
<1>1. CASE subs = <<>>
  <2>1. stk' = StkAfter /\ subs' = subs /\ fault' = fault BY <1>1 DEF Deliver
  <2>2. out' = out \/ out' = Append(out, t) BY <1>1 DEF Deliver
  <2>3. out' \in Seq(Tokens) BY <1>0, <2>2, Appended
  <2> QED BY <2>1, <2>3, ConsumeStep DEF MacrosTakeTurns
<1>2. CASE subs # <<>> /\ t.s = "eof" /\ (Top.macro # 0 \/ Len(Top.toks) # 1)
  <2>1. /\ fault' = "popped another lexer than the argument"
        /\ stk' = stk /\ subs' = subs /\ out' = out
    BY <1>2 DEF Deliver
  <2>2. SameLexers /\ SameCalls BY <1>0, <2>1 DEF SameLexers, SameCalls
  <2>3. StackOK' BY <2>2, QuietStep
  <2> QED BY <1>0, <2>1, <2>3 DEF MacrosTakeTurns
<1>3. CASE subs # <<>> /\ ~(t.s = "eof" /\ (Top.macro # 0 \/ Len(Top.toks) # 1))
  <2> DEFINE f == Last(subs)
             g == [f EXCEPT !.pres[f.pre] = Append(@, t),
                            !.pre = IF t.s = "eof" THEN 0 ELSE @]
  <2>1. /\ subs' = [subs EXCEPT ![Len(subs)] = g] /\ out' = out /\ fault' = fault
        /\ stk' = IF t.s = "eof" THEN Front(StkAfter) ELSE StkAfter
    BY <1>3 DEF Deliver
  <2>2. /\ Len(subs) \in Nat \ {0} /\ f = subs[Len(subs)] /\ f \in Frames
    BY <1>0, <1>3, FrontLast
  <2>3. \A i \in 1 .. Len(subs) : subs[i].pre # 0
    BY <1>0, LexingExpands DEF StackOK, InvOK
  <2>4. f.pre \in 1 .. Len(f.pres) /\ f.pres \in Seq(Seq(Tokens)) /\ Len(f.pres) = Len(f.args)
    BY <2>2, <2>3 DEF Frames
  <2>5. g \in Frames /\ g.id = f.id /\ g.pre = IF t.s = "eof" THEN 0 ELSE f.pre
    <3> DEFINE p == [f.pres EXCEPT ![f.pre] = Append(f.pres[f.pre], t)]
               z == IF t.s = "eof" THEN 0 ELSE f.pre
    <3>1. f.pres[f.pre] \in Seq(Tokens) BY <2>4
    <3>2. Append(f.pres[f.pre], t) \in Seq(Tokens) BY <3>1
    <3>3. p \in Seq(Seq(Tokens)) /\ Len(p) = Len(f.pres) BY <2>4, <3>2, ExceptSeq
    <3>4. z \in Nat /\ z <= Len(f.pres) /\ z = IF t.s = "eof" THEN 0 ELSE f.pre BY <2>4
    <3> HIDE DEF p, z, f
    <3>5. g = [f EXCEPT !.pres = p, !.pre = z] BY <2>2 DEF p, z, Frames
    <3> HIDE DEF g
    <3> QED BY <2>2, <2>4, <3>3, <3>4, <3>5 DEF Frames
  <2> HIDE DEF f, g
  <2>6. /\ subs' \in Seq(Frames) /\ Len(subs') = Len(subs) /\ subs'[Len(subs)] = g
        /\ \A i \in 1 .. Len(subs) - 1 : subs'[i] = subs[i]
    BY <1>0, <1>3, <2>1, <2>5, ReplaceLast
  <2>7. \A i \in 1 .. Len(subs) : i = Len(subs) \/ i \in 1 .. Len(subs) - 1 BY <2>2
  <2>8. \A i \in 1 .. Len(subs) : subs'[i].id = subs[i].id BY <2>2, <2>5, <2>6, <2>7
  <2>9. CASE t.s # "eof"
    <3>1. \A i \in 1 .. Len(subs) : subs'[i].pre = subs[i].pre
      BY <2>2, <2>5, <2>6, <2>7, <2>9
    <3>2. SameCalls BY <2>6, <2>8, <3>1 DEF SameCalls
    <3>3. SameLexers BY <1>0, <2>1, <2>9, AfterToken DEF SameLexers
    <3>4. StackOK' BY <3>2, <3>3, QuietStep
    <3> QED BY <1>0, <2>1, <3>4 DEF MacrosTakeTurns
  <2>10. CASE t.s = "eof"
    <3>1. stk # <<>> BY <1>0, <1>3, NoLexersNoCalls
    <3>2. Top.macro = 0 BY <1>3, <2>10
    <3>3. /\ StkAfter \in Seq(Lexers) /\ Len(StkAfter) = Len(stk)
          /\ \A i \in 1 .. Len(stk) : StkAfter[i].macro = stk[i].macro
      BY <1>0, AfterToken
    <3>4. Len(stk) \in Nat \ {0} BY <1>0, <3>1, LastOfStack
    <3>5. StkAfter # <<>> BY <3>3, <3>4
    <3>6. /\ stk' \in Seq(Lexers) /\ Len(stk') = Len(stk) - 1
          /\ \A i \in 1 .. Len(stk) - 1 : stk'[i] = StkAfter[i]
      BY <2>1, <2>10, <3>3, <3>5, FrontLast
    <3>7. \A i \in 1 .. Len(stk) - 1 : i \in 1 .. Len(stk) BY <3>4
    <3>8. \A i \in 1 .. Len(stk) - 1 : stk'[i].macro = stk[i].macro BY <3>3, <3>6, <3>7
    <3>9. /\ \A i \in 1 .. Len(subs) - 1 : subs'[i].pre = subs[i].pre
          /\ subs'[Len(subs)].pre = 0
      BY <2>5, <2>6, <2>10
    <3>10. StackOK'
      BY <1>3, <2>3, <2>6, <2>8, <3>1, <3>2, <3>6, <3>8, <3>9, EndArgumentStep
    <3> QED BY <1>0, <2>1, <3>10 DEF MacrosTakeTurns
  <2> QED BY <2>9, <2>10
<1> QED BY <1>1, <1>2, <1>3

LEMMA MarkedToken ==
  ASSUME NEW b \in Tokens, NEW x \in BOOLEAN
  PROVE  [b EXCEPT !.ne = @ \/ x] \in Tokens
BY DEF Tokens

(* EnterMacro, for a macro that is not disabled.                           *)
LEMMA EnterStep ==
  ASSUME NEW name, NEW args \in Seq(Seq(Tokens)), NEW elided \in BOOLEAN,
         DataTyped, StackOK, InvOK, HaveToken, MacrosTakeTurns, ~Disabled(name),
         EnterMacro(name, args, elided), macros' = macros, micache' = micache
  PROVE  StackOK' /\ MacrosTakeTurns'
<1> DEFINE id == MacroOf(name)
<1>0. /\ StackTyped /\ ~Substituting /\ InTheMiddle /\ ReadInTheMiddle
  BY DEF StackOK, InvOK, HaveToken, Lexing
<1>1. \A i \in 1 .. Len(subs) : subs[i].pre # 0 BY <1>0, LexingExpands
<1>2. /\ StkAfter \in Seq(Lexers) /\ Len(StkAfter) = Len(stk)
      /\ \A i \in 1 .. Len(stk) : StkAfter[i].macro = stk[i].macro
  BY <1>0, AfterToken
<1>3. CASE id = 0
  <2>1. fault' = "null macro" /\ stk' = StkAfter /\ mi' = mi /\ subs' = subs
    BY <1>3 DEF EnterMacro
  <2>2. StackOK' BY <2>1, ConsumeStep DEF SameObjects
  <2> QED BY <2>1, <2>2 DEF MacrosTakeTurns
<1>4. CASE id # 0
  <2>1. id \in 1 .. Len(mi) /\ mi[id].enabled /\ id \notin Range(micache) /\ mi[id] \in Infos
    <3>1. name \in Names /\ id = macros[name] BY <1>4 DEF MacroOf
    <3>2. macros[name] \in Nat /\ macros[name] <= Len(mi) /\ mi \in Seq(Infos)
      BY <1>0, <3>1 DEF StackTyped
    <3>3. id \in 1 .. Len(mi) BY <1>4, <3>1, <3>2
    <3>4. mi[id].enabled BY <1>4 DEF Disabled
    <3>5. id \notin Range(micache) BY <1>4, <3>1 DEF StackOK, ReleasedUnreachable
    <3> QED BY <3>2, <3>3, <3>4, <3>5
  <2>2. CASE mi[id].fn /\ mi[id].params # <<>>
    <3> DEFINE f == [id |-> id, args |-> args, elided |-> elided, body |-> mi[id].body,
                     res |-> <<>>, pre |-> 0, pres |-> [k \in DOMAIN args |-> <<>>]]
    <3>1. subs' = Append(subs, f) /\ stk' = StkAfter /\ mi' = mi /\ fault' = fault
      BY <1>4, <2>2 DEF EnterMacro
    <3>2. f \in Frames /\ f.id = id /\ f.pre = 0
      <4> DEFINE p == [k \in DOMAIN args |-> <<>>]
      <4>1. <<>> \in Seq(Tokens) /\ DOMAIN args = 1 .. Len(args) /\ Len(args) \in Nat OBVIOUS
      <4>2. p \in Seq(Seq(Tokens)) /\ Len(p) = Len(args) BY <4>1
      <4>3. id \in Nat \ {0} /\ mi[id].body \in Seq(Tokens) BY <2>1 DEF Infos
      <4>4. f = [id |-> id, args |-> args, elided |-> elided, body |-> mi[id].body,
                 res |-> <<>>, pre |-> 0, pres |-> p]
        OBVIOUS
      <4> HIDE DEF p, f, id
      <4> QED BY <4>1, <4>2, <4>3, <4>4 DEF Frames
    <3>3. SameLexers BY <1>2, <3>1 DEF SameLexers
    <3> HIDE DEF f, id
    <3>4. StackOK' BY <1>1, <2>1, <3>1, <3>2, <3>3, PushCall DEF SameObjects
    <3> QED BY <3>1, <3>4 DEF MacrosTakeTurns
  <2>3. CASE ~(mi[id].fn /\ mi[id].params # <<>>)
    <3> DEFINE l == [macro |-> id, toks |-> mi[id].body]
    <3>1. /\ mi' = [mi EXCEPT ![id].enabled = FALSE] /\ subs' = subs
          /\ stk' = Append(StkAfter, l) /\ fault' = fault
      BY <1>4, <2>1, <2>3 DEF EnterMacro
    <3>2. l \in Lexers /\ l.macro = id BY <2>1 DEF Lexers, Infos
    <3> HIDE DEF l, id
    <3>3. /\ stk' \in Seq(Lexers) /\ Len(stk') = Len(stk) + 1 /\ stk'[Len(stk) + 1] = l
          /\ \A i \in 1 .. Len(stk) : stk'[i] = StkAfter[i]
      BY <1>2, <3>1, <3>2, Appended
    <3>4. \A i \in 1 .. Len(stk) : stk'[i].macro = stk[i].macro BY <1>2, <3>3
    <3>5. /\ subs' \in Seq(Frames) /\ Len(subs') <= Len(subs) /\ Expanding = 1 .. Len(subs')
      BY <1>0, <1>1, <3>1 DEF StackTyped, Expanding
    <3>6. StackOK' BY <2>1, <3>1, <3>2, <3>3, <3>4, <3>5, PushMacro
    <3> QED BY <3>1, <3>6 DEF MacrosTakeTurns
  <2> QED BY <2>2, <2>3
<1> QED BY <1>3, <1>4

(* The end of HandleMacroExpandedIdentifier.                               *)
LEMMA ExpandStep ==
  ASSUME NEW id \in 1 .. Len(mi), NEW name, NEW args \in Seq(Seq(Tokens)),
         NEW elided \in BOOLEAN,
         DataTyped, StackOK, InvOK, HaveToken, MacrosTakeTurns, ~Disabled(name),
         ExpandBody(id, name, args, elided), macros' = macros, micache' = micache
  PROVE  StackOK' /\ out' \in Seq(Tokens) /\ MacrosTakeTurns'
<1> DEFINE body == mi[id].body
<1>0. body \in Seq(Tokens) /\ out \in Seq(Tokens)
  <2>1. mi[id] \in Infos BY DEF StackOK, StackTyped
  <2> QED BY <2>1 DEF Infos, DataTyped
<1>1. CASE body = <<>>
  <2>1. stk' = StkAfter /\ mi' = mi /\ subs' = subs /\ out' = out /\ fault' = fault
    BY <1>1 DEF ExpandBody
  <2>2. StackOK' BY <2>1, ConsumeStep DEF SameObjects
  <2> QED BY <1>0, <2>1, <2>2 DEF MacrosTakeTurns
<1>2. CASE body # <<>> /\ Len(body) = 1 /\ Trivial(id, name)
  <2> DEFINE x == MacroOf(body[1].s) = id
             t == [body[1] EXCEPT !.ne = @ \/ x]
  <2>1. Deliver(t) /\ mi' = mi BY <1>2 DEF ExpandBody
  <2>2. body[1] \in Tokens BY <1>0, <1>2
  <2>3. x \in BOOLEAN OBVIOUS
  <2> HIDE DEF x, body
  <2>4. t \in Tokens BY <2>2, <2>3, MarkedToken
  <2> HIDE DEF t
  <2> QED BY <2>1, <2>4, DeliverStep DEF SameObjects
<1>3. CASE body # <<>> /\ ~(Len(body) = 1 /\ Trivial(id, name))
  <2>1. EnterMacro(name, args, elided) /\ out' = out BY <1>3 DEF ExpandBody
  <2>2. StackOK' /\ MacrosTakeTurns' BY <2>1, EnterStep
  <2> QED BY <1>0, <2>1, <2>2
<1> QED BY <1>1, <1>2, <1>3

-----------------------------------------------------------------------------
(* The actions.                                                            *)

LEMMA SameState ==
  ASSUME IInv, UNCHANGED <<file, mi, macros, micache, stk, subs, inv, out>>,
         MacrosTakeTurns'
  PROVE  IInv'
<1>1. DataTyped' BY DEF IInv, DataTyped
<1>2. StackOK'
  <2>1. SameLexers /\ SameCalls /\ SameObjects
    BY DEF SameLexers, SameCalls, SameObjects, IInv, StackOK, StackTyped
  <2> QED BY <2>1, QuietStep DEF IInv
<1>3. InvOK'
  BY DEF IInv, InvOK, InvTyped, ReadInTheMiddle, InvokedEnabled, ParenComes, Reading,
         LParenIsNext, Disabled, MacroOf
<1> QED BY <1>1, <1>2, <1>3 DEF IInv

LEMMA FailStep ==
  ASSUME IInv, NEW what, Fail(what),
         what \notin {"Cannot enable an already-enabled macro!",
                      "Cannot disable an already-disabled macro!",
                      "Error computing l-paren-ness?"}
  PROVE  IInv'
BY SameState DEF Fail, MacrosTakeTurns

LEMMA DataStep ==
  ASSUME DataTyped, StackOK, HaveToken, Consume, out' \in Seq(Tokens)
  PROVE  DataTyped'
<1>1. /\ FileAfter \in Seq(Items) /\ file' = FileAfter
      /\ \A i \in 1 .. Len(FileAfter) : FileAfter[i].op # "tok" => FileAfter[i].name \in Names
  BY AfterToken DEF Consume, StackOK
<1> QED BY <1>1 DEF DataTyped

LEMMA NoInvocation ==
  ASSUME StackTyped', inv' = NoInv
  PROVE  InvOK'
<1>1. Len(mi') \in Nat BY DEF StackTyped
<1>2. InvTyped' BY <1>1 DEF InvTyped, NoInv
<1> QED BY <1>2 DEF InvOK, ReadInTheMiddle, InvokedEnabled, ParenComes, Reading

(* Actions outside an invocation, and at its end.                          *)
LEMMA ReturnTokenStep ==
  ASSUME IInv, ReturnToken
  PROVE  IInv'
<1> USE DEF IInv
<1>1. HaveToken /\ Consume /\ mi' = mi /\ inv' = inv /\ inv = NoInv
  BY DEF ReturnToken, Reading
<1>2. SameObjects BY <1>1 DEF SameObjects, Consume
<1> DEFINE x == Disabled(Token.s)
           t == [Token EXCEPT !.ne = @ \/ x]
<1>3. Deliver(t) BY DEF ReturnToken
<1>4. Token \in Tokens BY <1>1, AfterToken DEF StackOK
<1>5. x \in BOOLEAN BY DEF Disabled
<1> HIDE DEF x
<1>6. t \in Tokens BY <1>4, <1>5, MarkedToken
<1> HIDE DEF t
<1>7. StackOK' /\ out' \in Seq(Tokens) /\ MacrosTakeTurns'
  BY <1>1, <1>2, <1>3, <1>6, DeliverStep
<1>8. DataTyped' BY <1>1, <1>7, DataStep
<1>9. InvOK' BY <1>1, <1>7, NoInvocation DEF StackOK
<1> QED BY <1>7, <1>8, <1>9

LEMMA EnabledIsMacro ==
  ASSUME StackTyped, NEW s, Enabled(s)
  PROVE  /\ s \in Names /\ MacroOf(s) \in 1 .. Len(mi) /\ mi[MacroOf(s)] \in Infos
         /\ ~Disabled(s)
<1>1. s \in Names /\ MacroOf(s) = macros[s] /\ macros[s] # 0 BY DEF Enabled, MacroOf
<1>2. macros[s] \in Nat /\ macros[s] <= Len(mi) /\ mi \in Seq(Infos) /\ Len(mi) \in Nat
  BY <1>1 DEF StackTyped
<1>3. macros[s] \in 1 .. Len(mi) BY <1>1, <1>2
<1> QED BY <1>1, <1>2, <1>3 DEF Enabled, Disabled

LEMMA ExpandObjectStep ==
  ASSUME IInv, ExpandObject
  PROVE  IInv'
<1> USE DEF IInv
<1> DEFINE id == MacroOf(Token.s)
<1>1. HaveToken /\ Consume /\ inv' = inv /\ inv = NoInv /\ Enabled(Token.s)
  BY DEF ExpandObject, Reading, Expands
<1>2. macros' = macros /\ micache' = micache BY <1>1 DEF Consume
<1>3. ExpandBody(id, Token.s, <<>>, FALSE) BY DEF ExpandObject
<1>4. id \in 1 .. Len(mi) /\ ~Disabled(Token.s) BY <1>1, EnabledIsMacro DEF StackOK
<1>5. <<>> \in Seq(Seq(Tokens)) /\ FALSE \in BOOLEAN OBVIOUS
<1>6. StackOK' /\ out' \in Seq(Tokens) /\ MacrosTakeTurns'
  BY <1>1, <1>2, <1>3, <1>4, <1>5, ExpandStep
<1>7. DataTyped' BY <1>1, <1>6, DataStep
<1>8. InvOK' BY <1>1, <1>6, NoInvocation DEF StackOK
<1> QED BY <1>6, <1>7, <1>8

LEMMA GiveUpStep ==
  ASSUME IInv, HaveToken, Consume, NEW t \in Tokens, GiveUp(t)
  PROVE  IInv'
<1> USE DEF IInv
<1>1. inv' = NoInv /\ Deliver(t) /\ mi' = mi BY DEF GiveUp
<1>2. SameObjects BY <1>1 DEF SameObjects, Consume
<1>3. StackOK' /\ out' \in Seq(Tokens) /\ MacrosTakeTurns' BY <1>1, <1>2, DeliverStep
<1>4. DataTyped' BY <1>3, DataStep
<1>5. InvOK' BY <1>1, <1>3, NoInvocation DEF StackOK
<1> QED BY <1>3, <1>4, <1>5

LEMMA InvocationIs ==
  ASSUME InvOK, Reading
  PROVE  /\ inv \in Invocations /\ Tok(inv.name) \in Tokens /\ inv.id \in 1 .. Len(mi)
         /\ ~Disabled(inv.name)
<1>1. inv \in Invocations BY DEF InvOK, InvTyped, Reading
<1>2. inv.name \in Symbols BY <1>1, NamesAssumption DEF Invocations
<1>3. inv.id \in Nat \ {0} /\ inv.id <= Len(mi) BY <1>1 DEF InvOK, InvTyped, Invocations
<1>4. inv.id \in 1 .. Len(mi) BY <1>3
<1> QED BY <1>1, <1>2, <1>4 DEF Tok, Tokens, InvOK, InvokedEnabled

LEMMA UnterminatedStep ==
  ASSUME IInv, UnterminatedInvocation
  PROVE  IInv'
<1>1. HaveToken /\ Consume /\ GiveUp(Token) BY DEF UnterminatedInvocation
<1>2. Token \in Tokens BY <1>1, AfterToken DEF IInv, StackOK
<1> QED BY <1>1, <1>2, GiveUpStep

LEMMA EndInvocationStep ==
  ASSUME IInv, EndInvocation
  PROVE  IInv'
<1>1. HaveToken /\ Consume /\ Reading BY DEF EndInvocation
<1>2. /\ inv \in Invocations /\ Tok(inv.name) \in Tokens /\ inv.id \in 1 .. Len(mi)
      /\ ~Disabled(inv.name)
  BY <1>1, InvocationIs DEF IInv
<1> DEFINE id == inv.id
           none == inv.args = <<>> /\ inv.cur = <<>>
           args == IF none THEN <<>> ELSE Append(inv.args, inv.cur)
           n == Len(args)
           min == NumArgs(id)
           oneEmpty == n = 0 /\ min = 1
           elided == /\ mi[id].variadic
                     /\ (oneEmpty \/ n + 1 = min \/ (n = 0 /\ min = 2))
           given == IF n = 0 /\ min = 2 THEN <<<<>>, <<>>>>
                    ELSE IF n < min THEN Append(args, <<>>) ELSE args
           left == n < min /\ elided
<1>3. given \in Seq(Seq(Tokens))
  <2>1. <<>> \in Seq(Tokens) /\ <<>> \in Seq(Seq(Tokens)) OBVIOUS
  <2>2. <<<<>>, <<>>>> \in Seq(Seq(Tokens)) OBVIOUS
  <2>3. inv.args \in Seq(Seq(Tokens)) /\ inv.cur \in Seq(Tokens) BY <1>2 DEF Invocations
  <2>4. args \in Seq(Seq(Tokens)) BY <2>1, <2>3
  <2> HIDE DEF args, min
  <2>5. Append(args, <<>>) \in Seq(Seq(Tokens)) BY <2>1, <2>4
  <2> QED BY <2>2, <2>4, <2>5
<1>4. \/ GiveUp(Tok(inv.name))
      \/ fault' = "Can't have args for an object-like macro!"
         /\ UNCHANGED <<mi, stk, subs, inv, out, done, errors, unpainted>>
      \/ inv' = NoInv /\ ExpandBody(id, inv.name, given, left) /\ UNCHANGED errors
  BY DEF EndInvocation
<1>5. left \in BOOLEAN OBVIOUS
<1> HIDE DEF given, left
<1>6. CASE GiveUp(Tok(inv.name)) BY <1>1, <1>2, <1>6, GiveUpStep
<1>7. CASE inv' = NoInv /\ ExpandBody(id, inv.name, given, left) /\ UNCHANGED errors
  <2> USE DEF IInv
  <2>1. macros' = macros /\ micache' = micache BY <1>1 DEF Consume
  <2>2. StackOK' /\ out' \in Seq(Tokens) /\ MacrosTakeTurns'
    BY <1>1, <1>2, <1>3, <1>5, <1>7, <2>1, ExpandStep
  <2>3. DataTyped' BY <1>1, <2>2, DataStep
  <2>4. InvOK' BY <1>7, <2>2, NoInvocation DEF StackOK
  <2> QED BY <2>2, <2>3, <2>4
<1>8. CASE fault' = "Can't have args for an object-like macro!"
           /\ UNCHANGED <<mi, stk, subs, inv, out, done, errors, unpainted>>
  <2> USE DEF IInv
  <2>1. SameLexers /\ SameCalls /\ SameObjects
    BY <1>1, <1>8 DEF SameLexers, SameCalls, SameObjects, StackOK, StackTyped, Consume
  <2>2. StackOK' BY <2>1, QuietStep
  <2>3. DataTyped' BY <1>1, <1>8, DataStep DEF DataTyped
  <2>4. InvOK'
    <3>1. inv.open BY DEF EndInvocation
    <3>2. macros' = macros BY <1>1 DEF Consume
    <3> QED BY <1>8, <3>1, <3>2 DEF InvOK, InvTyped, ReadInTheMiddle, InvokedEnabled, ParenComes,
              Reading, Disabled, MacroOf
  <2> QED BY <1>8, <2>2, <2>3, <2>4 DEF MacrosTakeTurns
<1> QED BY <1>4, <1>6, <1>7, <1>8

(* Actions that read an invocation.                                        *)
LEMMA BeginStep ==
  ASSUME IInv, BeginInvocation
  PROVE  IInv'
<1> USE DEF IInv
<1> DEFINE id == MacroOf(Token.s)
           v == [id |-> id, name |-> Token.s, variadic |-> mi[id].variadic,
                 left |-> NumArgs(id), open |-> FALSE, parens |-> 0,
                 args |-> <<>>, cur |-> <<>>]
<1>1. /\ HaveToken /\ Consume /\ ~Reading /\ Expands(Token) /\ mi[id].fn /\ inv' = v
      /\ stk' = StkAfter /\ mi' = mi /\ subs' = subs /\ out' = out /\ fault' = fault
  BY DEF BeginInvocation
<1>2. SameObjects /\ file' = FileAfter BY <1>1 DEF SameObjects, Consume
<1>3. StackOK' BY <1>1, <1>2, ConsumeStep
<1>4. DataTyped' BY <1>1, DataStep DEF DataTyped
<1>5. Enabled(Token.s) /\ NextPPTokenIsLParen BY <1>1 DEF Expands
<1>6. /\ Token.s \in Names /\ id \in 1 .. Len(mi) /\ mi[id] \in Infos /\ ~Disabled(Token.s)
  BY <1>5, EnabledIsMacro DEF StackOK
<1>7. v \in Invocations /\ v.id = id /\ v.name = Token.s
  <2>1. mi[id].params \in Seq(Symbols) /\ mi[id].variadic \in BOOLEAN BY <1>6 DEF Infos
  <2>2. NumArgs(id) \in Int BY <2>1 DEF NumArgs
  <2>3. id \in Nat \ {0} /\ <<>> \in Seq(Seq(Tokens)) /\ <<>> \in Seq(Tokens) BY <1>6
  <2> HIDE DEF id
  <2> QED BY <1>6, <2>1, <2>2, <2>3 DEF Invocations
<1> HIDE DEF v
<1>8. InvTyped'
  <2>1. id <= Len(mi) BY <1>6
  <2> QED BY <1>1, <1>7, <2>1 DEF InvTyped
<1>9. ReadInTheMiddle'
  <2>1. \A i \in 1 .. Len(subs) : subs[i].pre # 0
    BY <1>1, LexingExpands DEF StackOK, InvOK, HaveToken, Lexing
  <2> QED BY <1>1, <2>1 DEF ReadInTheMiddle
<1>10. InvokedEnabled' BY <1>1, <1>2, <1>6, <1>7 DEF InvokedEnabled, Disabled, MacroOf, SameObjects
<1>11. ParenComes' BY <1>1, <1>2, <1>5 DEF ParenComes, NextPPTokenIsLParen, LParenIsNext
<1> QED BY <1>1, <1>3, <1>4, <1>8, <1>9, <1>10, <1>11 DEF InvOK, MacrosTakeTurns

(* The invocation goes on, and its parenthesis was read.                   *)
LEMMA ArgumentStep ==
  ASSUME IInv, HaveToken, Consume, Reading, NEW v \in Invocations, inv' = v, v.open,
         v.id = inv.id, v.name = inv.name,
         stk' = StkAfter, UNCHANGED <<mi, subs, out, fault>>
  PROVE  IInv'
<1> USE DEF IInv
<1>1. SameObjects BY DEF SameObjects, Consume
<1>2. StackOK' BY <1>1, ConsumeStep
<1>3. DataTyped' BY DataStep DEF DataTyped
<1>4. InvTyped' BY DEF InvOK, InvTyped
<1>5. ReadInTheMiddle' BY DEF InvOK, ReadInTheMiddle
<1>6. InvokedEnabled' BY <1>1 DEF InvOK, InvokedEnabled, Disabled, MacroOf, SameObjects
<1>7. ParenComes' BY DEF ParenComes
<1> QED BY <1>2, <1>3, <1>4, <1>5, <1>6, <1>7 DEF InvOK, MacrosTakeTurns

(* The parenthesis that was foreseen is the token that comes.              *)
LEMMA ParenIsToken ==
  ASSUME IInv, HaveToken, Reading, ~inv.open
  PROVE  Token.s = "("
<1>1. LParenIsNext(stk, file) BY DEF IInv, InvOK, ParenComes
<1>2. CASE stk = <<>>
  <2>1. DOMAIN stk = {} BY <1>2
  <2>2. file # <<>> /\ Head(file).name = "(" BY <1>1, <2>1 DEF LParenIsNext
  <2> QED BY <1>2, <2>2 DEF Token, Tok
<1>3. CASE stk # <<>>
  <2>1. /\ Len(stk) \in Nat \ {0} /\ Top = stk[Len(stk)] /\ DOMAIN stk = 1 .. Len(stk)
    BY <1>3, LastOfStack DEF IInv, StackOK, StackTyped
  <2>2. stk[Len(stk)].toks # <<>> BY <1>3, <2>1 DEF HaveToken
  <2>3. PICK i \in 1 .. Len(stk) :
          /\ stk[i].toks # <<>> /\ stk[i].toks[1].s = "("
          /\ \A j \in i + 1 .. Len(stk) : stk[j].toks = <<>>
    BY <1>1, <2>1, <2>2 DEF LParenIsNext
  <2>4. i = Len(stk)
    <3> SUFFICES ASSUME i # Len(stk) PROVE FALSE OBVIOUS
    <3>1. PICK n \in Nat : n = Len(stk) BY <2>1
    <3>2. i \in 1 .. n /\ i # n BY <3>1
    <3>3. n \in i + 1 .. n BY <3>2
    <3> QED BY <2>2, <2>3, <3>1, <3>3
  <2>5. Token = Head(Top.toks) BY <1>3 DEF Token
  <2> QED BY <2>1, <2>3, <2>4, <2>5
<1> QED BY <1>2, <1>3

LEMMA ReadLParenStep ==
  ASSUME IInv, ReadLParen
  PROVE  IInv'
<1>1. HaveToken /\ Reading /\ ~inv.open BY DEF ReadLParen
<1>2. Token.s = "(" BY <1>1, ParenIsToken
<1>3. /\ inv' = [inv EXCEPT !.open = TRUE] /\ stk' = StkAfter /\ Consume
      /\ UNCHANGED <<mi, subs, out, fault>>
  BY <1>2 DEF ReadLParen
<1>4. inv \in Invocations BY <1>1, InvocationIs DEF IInv
<1> DEFINE v == [inv EXCEPT !.open = TRUE]
<1>5. v \in Invocations /\ v.open /\ v.id = inv.id /\ v.name = inv.name
  BY <1>4 DEF Invocations
<1> HIDE DEF v
<1>6. inv' = v BY <1>3 DEF v
<1> QED BY <1>1, <1>3, <1>5, <1>6, ArgumentStep

LEMMA ReadArgTokenStep ==
  ASSUME IInv, ReadArgToken
  PROVE  IInv'
<1> DEFINE t == Token
           x == Disabled(t.s)
           m == [t EXCEPT !.ne = @ \/ x]
           v == [inv EXCEPT !.cur = Append(@, m),
                   !.parens = CASE t.s = "(" -> @ + 1 [] t.s = ")" -> @ - 1 [] OTHER -> @]
<1>1. /\ HaveToken /\ Reading /\ inv.open /\ inv' = v /\ stk' = StkAfter /\ Consume
      /\ UNCHANGED <<mi, subs, out, fault>>
  BY DEF ReadArgToken
<1>2. inv \in Invocations BY <1>1, InvocationIs DEF IInv
<1>3. t \in Tokens BY <1>1, AfterToken DEF IInv, StackOK
<1>4. x \in BOOLEAN BY DEF Disabled
<1> HIDE DEF x, t
<1>5. m \in Tokens BY <1>3, <1>4, MarkedToken
<1> HIDE DEF m
<1>6. v \in Invocations /\ v.open /\ v.id = inv.id /\ v.name = inv.name
  <2>1. inv.cur \in Seq(Tokens) /\ inv.parens \in Int BY <1>2 DEF Invocations
  <2> DEFINE c == Append(inv.cur, m)
             p == CASE t.s = "(" -> inv.parens + 1 [] t.s = ")" -> inv.parens - 1
                    [] OTHER -> inv.parens
  <2>2. c \in Seq(Tokens) BY <1>5, <2>1
  <2>3. p \in Int BY <2>1
  <2>4. v = [inv EXCEPT !.cur = c, !.parens = p] BY <1>2 DEF Invocations
  <2> HIDE DEF c, p, v
  <2> QED BY <1>1, <1>2, <2>2, <2>3, <2>4 DEF Invocations
<1> HIDE DEF v
<1> QED BY <1>1, <1>6, ArgumentStep

LEMMA EndArgumentOrGiveUp ==
  ASSUME IInv, EndArgument
  PROVE  IInv'
<1>1. HaveToken /\ Reading /\ inv.open /\ Consume BY DEF EndArgument
<1>2. inv \in Invocations /\ Tok(inv.name) \in Tokens BY <1>1, InvocationIs DEF IInv
<1>3. CASE TooManyArgs
  <2>1. GiveUp(Tok(inv.name)) BY <1>3 DEF EndArgument
  <2> QED BY <1>1, <1>2, <2>1, GiveUpStep
<1>4. CASE ~TooManyArgs
  <2> DEFINE v == [inv EXCEPT !.args = Append(@, inv.cur), !.cur = <<>>, !.left = @ - 1]
  <2>1. inv' = v /\ stk' = StkAfter /\ UNCHANGED <<mi, subs, out, fault>>
    BY <1>4 DEF EndArgument
  <2>2. v \in Invocations /\ v.open /\ v.id = inv.id /\ v.name = inv.name
    <3>1. /\ inv.args \in Seq(Seq(Tokens)) /\ inv.cur \in Seq(Tokens) /\ inv.left \in Int
          /\ <<>> \in Seq(Tokens)
      BY <1>2 DEF Invocations
    <3> DEFINE a == Append(inv.args, inv.cur)
               l == inv.left - 1
    <3>2. a \in Seq(Seq(Tokens)) /\ l \in Int BY <3>1
    <3>3. v = [inv EXCEPT !.args = a, !.cur = <<>>, !.left = l] OBVIOUS
    <3> HIDE DEF a, l, v
    <3> QED BY <1>1, <1>2, <3>1, <3>2, <3>3 DEF Invocations
  <2> HIDE DEF v
  <2> QED BY <1>1, <2>1, <2>2, ArgumentStep
<1> QED BY <1>3, <1>4

LEMMA PopStep ==
  ASSUME IInv, PopTokenLexer
  PROVE  IInv'
<1> USE DEF IInv
<1>1. stk # <<>> /\ Top.toks = <<>> /\ ~Substituting BY DEF PopTokenLexer, Lexing
<1>2. StackTyped BY DEF StackOK
<1> DEFINE n == Len(stk) - 1
           m == Top.macro
<1>3. /\ n \in Nat /\ Len(stk) = n + 1 /\ Top = stk[n + 1] /\ n + 1 \in 1 .. n + 1
      /\ Front(stk) \in Seq(Lexers) /\ Len(Front(stk)) = n
      /\ \A i \in 1 .. n : Front(stk)[i] = stk[i]
  BY <1>1, <1>2, LastOfStack
<1> HIDE DEF n
<1>4. CASE m = 0
  <2>1. Fail("read past the end of an argument") BY <1>4 DEF PopTokenLexer
  <2> QED BY <2>1, FailStep
<1>5. CASE m # 0
  <2>1. m \in 1 .. Len(mi)
    <3>1. stk[n + 1].macro <= Len(mi) BY <1>2, <1>3 DEF StackTyped
    <3>2. Top \in Lexers BY <1>1, <1>2, LastOfStack
    <3>3. m \in Nat /\ Len(mi) \in Nat BY <1>2, <3>2 DEF Lexers, StackTyped
    <3> QED BY <1>3, <1>5, <3>1, <3>3
  <2>2. ~mi[m].enabled
    <3>1. n + 1 \in DOMAIN stk /\ m \in Addresses
      BY <1>2, <1>3, <2>1 DEF StackTyped, Addresses
    <3>2. stk[n + 1].macro = m BY <1>3
    <3> QED BY <3>1, <3>2 DEF StackOK, DisabledWhileLive
  <2>3. /\ mi' = [mi EXCEPT ![m].enabled = TRUE] /\ stk' = Front(stk)
        /\ UNCHANGED <<file, macros, micache, subs, inv, out, fault>>
    BY <1>5, <2>2 DEF PopTokenLexer
  <2>4. StackOK' BY <1>1, <1>5, <2>3, PopMacro
  <2>5. DataTyped' BY <2>3 DEF DataTyped
  <2>6. Len(mi') = Len(mi) /\ \A i \in 1 .. Len(mi) : mi[i].enabled => mi'[i].enabled
    <3>1. mi \in Seq(Infos) BY <1>2 DEF StackTyped
    <3>2. mi[m] \in Infos BY <2>1, <3>1
    <3> DEFINE e == [mi[m] EXCEPT !.enabled = TRUE]
    <3>3. e.enabled BY <3>2 DEF Infos
    <3>4. mi' = [mi EXCEPT ![m] = e] BY <2>3
    <3> HIDE DEF e, m
    <3>5. \A i \in 1 .. Len(mi) : mi'[i] = IF i = m THEN e ELSE mi[i] BY <3>1, <3>4
    <3>6. Len(mi') = Len(mi)
      <4>1. e \in Infos BY <3>2 DEF e, Infos
      <4> QED BY <2>1, <3>1, <3>4, <4>1, ExceptSeq
    <3> QED BY <3>3, <3>5, <3>6
  <2>7. InvTyped' BY <2>3, <2>6 DEF InvOK, InvTyped
  <2>8. ReadInTheMiddle' BY <2>3 DEF InvOK, ReadInTheMiddle, Reading
  <2>9. InvokedEnabled'
    <3> SUFFICES ASSUME Reading' PROVE ~Disabled(inv.name)' BY DEF InvokedEnabled
    <3>1. Reading /\ ~Disabled(inv.name) BY <2>3 DEF InvOK, InvokedEnabled, Reading
    <3>2. MacroOf(inv.name)' = MacroOf(inv.name) BY <2>3 DEF MacroOf
    <3>3. CASE MacroOf(inv.name) = 0 BY <3>2, <3>3 DEF Disabled
    <3>4. CASE MacroOf(inv.name) # 0
      <4>1. Enabled(inv.name) BY <3>1, <3>4 DEF Disabled, Enabled
      <4>2. MacroOf(inv.name) \in 1 .. Len(mi) BY <1>2, <4>1, EnabledIsMacro
      <4>3. mi[MacroOf(inv.name)].enabled BY <4>1 DEF Enabled
      <4>4. mi'[MacroOf(inv.name)'].enabled BY <2>6, <3>2, <4>2, <4>3
      <4> QED BY <4>4 DEF Disabled
    <3> QED BY <3>3, <3>4
  <2>10. ParenComes'
    <3> SUFFICES ASSUME Reading', ~inv'.open PROVE LParenIsNext(stk', file')
      BY DEF ParenComes, LParenIsNext
    <3>1. LParenIsNext(stk, file) BY <2>3 DEF InvOK, ParenComes, Reading
    <3>2. DOMAIN stk = 1 .. n + 1 /\ DOMAIN stk' = 1 .. n
      BY <1>2, <1>3, <2>3 DEF StackTyped
    <3>3. \A i \in 1 .. n : stk'[i] = stk[i] /\ i \in 1 .. n + 1 BY <1>3, <2>3
    <3>4. stk[n + 1].toks = <<>> BY <1>1, <1>3
    <3>5. CASE \E i \in DOMAIN stk :
                 /\ stk[i].toks # <<>> /\ stk[i].toks[1].s = "("
                 /\ \A j \in i + 1 .. Len(stk) : stk[j].toks = <<>>
      <4>1. PICK i \in 1 .. n + 1 :
                 /\ stk[i].toks # <<>> /\ stk[i].toks[1].s = "("
                 /\ \A j \in i + 1 .. n + 1 : stk[j].toks = <<>>
        BY <1>3, <3>2, <3>5
      <4>2. i # n + 1 BY <3>4, <4>1
      <4>3. i \in 1 .. n BY <1>3, <4>2
      <4>4. \A j \in i + 1 .. n : j \in 1 .. n /\ j \in i + 1 .. n + 1 BY <1>3, <4>3
      <4>5. \A j \in i + 1 .. n : stk'[j].toks = <<>> BY <3>3, <4>1, <4>4
      <4>6. stk'[i].toks # <<>> /\ stk'[i].toks[1].s = "(" BY <3>3, <4>1, <4>3
      <4>7. Len(stk') = n BY <1>3, <2>3
      <4> QED BY <3>2, <4>3, <4>5, <4>6, <4>7 DEF LParenIsNext
    <3>6. CASE /\ \A i \in DOMAIN stk : stk[i].toks = <<>>
               /\ file # <<>> /\ Head(file).op = "tok" /\ Head(file).name = "("
      BY <2>3, <3>2, <3>3, <3>6 DEF LParenIsNext
    <3> QED BY <3>1, <3>5, <3>6 DEF LParenIsNext
  <2> QED BY <2>3, <2>4, <2>5, <2>7, <2>8, <2>9, <2>10 DEF InvOK, MacrosTakeTurns
<1> QED BY <1>4, <1>5

LEMMA PastedSymbol ==
  ASSUME NEW l \in Symbols, NEW r \in Symbols
  PROVE  Pasted(l, r) \in Symbols /\ (l = "(" => Pasted(l, r) = "(")
<1>1. "eof" \in Symbols /\ "unknown" \in Symbols /\ "(" \in Symbols
  BY NamesAssumption DEF Punctuators
<1>2. CASE <<l, r>> \in DOMAIN Glue
  <2>1. Glue[<<l, r>>] \in Symbols /\ <<l, r>>[1] # "(" BY <1>2, GlueAssumption
  <2>2. l # "eof" /\ r # "eof" /\ <<l, r>> # <<"/", "/">> BY <1>2, GlueAssumption
  <2>3. Pasted(l, r) = Glue[<<l, r>>] BY <1>2, <2>2 DEF Pasted
  <2> QED BY <2>1, <2>3
<1>3. CASE <<l, r>> \notin DOMAIN Glue
  <2>1. l = "(" => <<l, r>> # <<"/", "/">> OBVIOUS
  <2>2. Pasted(l, r) \in {l, r, "eof", "unknown"} BY <1>3 DEF Pasted
  <2>3. l = "(" => Pasted(l, r) = l BY <1>3, <2>1 DEF Pasted
  <2> QED BY <1>1, <2>2, <2>3
<1> QED BY <1>2, <1>3

LEMMA PasteStep ==
  ASSUME IInv, PasteTokens
  PROVE  IInv'
<1> USE DEF IInv
<1>1. stk # <<>> /\ Len(Top.toks) >= 2 /\ StackTyped BY DEF PasteTokens, PasteIsNext, StackOK
<1>2. CASE Len(Top.toks) = 2
  <2>1. Fail("No token on the RHS of a paste operator!") BY <1>2 DEF PasteTokens
  <2> QED BY <2>1, FailStep
<1>3. CASE Len(Top.toks) # 2
  <2> DEFINE l == Top.toks[1].s
             r == Top.toks[3].s
             from == IF CanPaste(l, r) THEN 4 ELSE 3
             t == Tok(Pasted(l, r))
             rest == SubSeq(Top.toks, from, Len(Top.toks))
             toks == <<t>> \o rest
             e == [Top EXCEPT !.toks = toks]
  <2>1. PICK n \in Nat : n = Len(stk) /\ n \in 1 .. n /\ Top = stk[n] /\ Top \in Lexers
    BY <1>1, LastOfStack
  <2>2. Top.toks \in Seq(Tokens) /\ Top.macro \in Nat /\ Len(Top.toks) \in Nat
    BY <2>1 DEF Lexers
  <2>3. Len(Top.toks) >= 3
    <3>1. PICK k \in Nat : k = Len(Top.toks) BY <2>2
    <3>2. k >= 2 /\ k # 2 BY <1>1, <1>3, <3>1
    <3>3. k >= 3 BY <3>2
    <3> QED BY <3>1, <3>3
  <2>4. 1 \in 1 .. Len(Top.toks) /\ 3 \in 1 .. Len(Top.toks) BY <2>2, <2>3
  <2>5. Top.toks[1] \in Tokens /\ Top.toks[3] \in Tokens BY <2>2, <2>4
  <2>6. l \in Symbols /\ r \in Symbols BY <2>5 DEF Tokens
  <2>7. t \in Tokens /\ t.s = Pasted(l, r) BY <2>6, PastedSymbol DEF Tok, Tokens
  <2>8. rest \in Seq(Tokens)
    <3>1. from \in 1 .. Len(Top.toks) + 1 BY <2>2, <2>3
    <3>2. Len(Top.toks) \in from - 1 .. Len(Top.toks) BY <2>2, <3>1
    <3> HIDE DEF from
    <3> QED BY <2>2, <3>1, <3>2, Window
  <2>9. /\ UNCHANGED <<file, mi, macros, micache, subs, inv, out, fault>>
        /\ stk' = [stk EXCEPT ![n].toks = <<t>> \o SubSeq(@, from, Len(@))]
    BY <1>3, <2>1 DEF PasteTokens
  <2>10. stk' = [stk EXCEPT ![n] = e] BY <2>1, <2>9
  <2> HIDE DEF t, rest
  <2>11. toks \in Seq(Tokens) /\ toks # <<>> /\ Head(toks) = t BY <2>7, <2>8, ConsHeadTail
  <2>12. toks[1] = t BY <2>11
  <2> HIDE DEF toks
  <2>13. e \in Lexers /\ e.macro = Top.macro /\ e.toks = toks BY <2>1, <2>11 DEF Lexers
  <2> HIDE DEF e
  <2>14. stk \in Seq(Lexers) BY <1>1 DEF StackTyped
  <2>15. /\ stk' \in Seq(Lexers) /\ Len(stk') = n
         /\ \A i \in 1 .. n : stk'[i] = IF i = n THEN e ELSE stk[i]
    <3>1. n \in 1 .. Len(stk) BY <2>1
    <3>2. stk' \in Seq(Lexers) /\ Len(stk') = Len(stk) BY <2>10, <2>13, <2>14, <3>1, ExceptSeq
    <3>3. \A i \in 1 .. Len(stk) : stk'[i] = IF i = n THEN e ELSE stk[i] BY <2>10, <2>14
    <3> QED BY <2>1, <3>2, <3>3
  <2>16. StackOK'
    <3>1. SameLexers BY <2>1, <2>13, <2>15 DEF SameLexers
    <3>2. SameCalls /\ SameObjects BY <1>1, <2>9 DEF SameCalls, SameObjects, StackTyped
    <3> QED BY <3>1, <3>2, QuietStep
  <2>17. DataTyped' BY <2>9 DEF DataTyped
  <2>18. ParenComes'
    <3> SUFFICES ASSUME Reading', ~inv'.open PROVE LParenIsNext(stk', file')
      BY DEF ParenComes, LParenIsNext
    <3>1. LParenIsNext(stk, file) BY <2>9 DEF InvOK, ParenComes, Reading
    <3>2. DOMAIN stk = 1 .. n /\ DOMAIN stk' = 1 .. n BY <2>1, <2>14, <2>15
    <3>3. Top.toks # <<>> BY <2>2, <2>3
    <3>4. PICK i \in 1 .. n :
            /\ stk[i].toks # <<>> /\ stk[i].toks[1].s = "("
            /\ \A j \in i + 1 .. n : stk[j].toks = <<>>
      BY <2>1, <3>1, <3>2, <3>3 DEF LParenIsNext
    <3>5. i = n
      <4> SUFFICES ASSUME i # n PROVE FALSE OBVIOUS
      <4>1. n \in i + 1 .. n BY <2>1
      <4> QED BY <2>1, <3>3, <3>4, <4>1
    <3>6. l = "(" BY <2>1, <3>4, <3>5
    <3>7. t.s = "(" BY <2>6, <2>7, <3>6, PastedSymbol
    <3>8. stk'[n].toks # <<>> /\ stk'[n].toks[1].s = "("
      BY <2>1, <2>11, <2>12, <2>13, <2>15, <3>7
    <3>9. n + 1 .. n = {} BY <2>1
    <3> QED BY <2>1, <2>15, <3>2, <3>8, <3>9 DEF LParenIsNext
  <2>19. InvTyped' /\ ReadInTheMiddle' /\ InvokedEnabled'
    BY <2>9 DEF InvOK, InvTyped, ReadInTheMiddle, InvokedEnabled, Reading, Disabled, MacroOf
  <2> QED BY <2>9, <2>16, <2>17, <2>18, <2>19 DEF InvOK, MacrosTakeTurns
<1> QED BY <1>2, <1>3

(* Actions that substitute arguments.                                      *)
LEMMA FrameIs ==
  ASSUME IInv, Substituting
  PROVE  /\ ~Reading /\ inv = NoInv
         /\ Frame \in Frames /\ Frame = subs[Len(subs)] /\ Len(subs) \in Nat \ {0}
         /\ Frame.id \in 1 .. Len(mi) /\ mi[Frame.id] \in Infos
         /\ Frame.body \in Seq(Tokens) /\ Frame.res \in Seq(Tokens)
         /\ (Frame.body # <<>> => Cur \in Tokens)
<1>1. ~Reading /\ inv = NoInv BY DEF Substituting, Reading
<1>2. /\ Len(subs) \in Nat \ {0} /\ Frame = subs[Len(subs)] /\ Frame \in Frames
  BY SubstitutingIsLast DEF IInv, StackOK, Frame
<1>3. Frame.body \in Seq(Tokens) /\ Frame.res \in Seq(Tokens) /\ Frame.id \in Nat \ {0}
  BY <1>2 DEF Frames
<1>4. mi \in Seq(Infos) /\ Len(mi) \in Nat BY DEF IInv, StackOK, StackTyped
<1>5. subs[Len(subs)].id <= Len(mi)
  <2>1. Len(subs) \in 1 .. Len(subs) BY <1>2
  <2> QED BY <2>1 DEF IInv, StackOK, StackTyped
<1>6. Frame.id \in 1 .. Len(mi) BY <1>2, <1>3, <1>4, <1>5
<1>7. mi[Frame.id] \in Infos BY <1>4, <1>6
<1>8. Frame.body # <<>> => Cur \in Tokens BY <1>3, HeadTailProperties DEF Cur
<1> QED BY <1>1, <1>2, <1>3, <1>6, <1>7, <1>8

LEMMA SubstituteStep ==
  ASSUME IInv, Substituting, NEW res \in Seq(Tokens), NEW n \in Nat, Substituted(res, n)
  PROVE  IInv'
<1> USE DEF IInv
<1>1. /\ inv = NoInv /\ Frame \in Frames /\ Frame = subs[Len(subs)] /\ Len(subs) \in Nat \ {0}
  BY FrameIs
<1>2. subs \in Seq(Frames) /\ subs # <<>> BY <1>1 DEF StackOK, StackTyped
<1> DEFINE b == SubSeq(Frame.body, n + 1, Len(Frame.body))
           f == [Frame EXCEPT !.res = res, !.body = b]
<1>3. b \in Seq(Tokens)
  <2>1. Frame.body \in Seq(Tokens) BY <1>1 DEF Frames
  <2>2. /\ n + 1 \in Int /\ Len(Frame.body) \in Int
        /\ \A i \in n + 1 .. Len(Frame.body) : Frame.body[i] \in Tokens
    BY <2>1
  <2> QED BY <2>1, <2>2, SubSeqProperties
<1>4. /\ UNCHANGED <<file, mi, macros, micache, stk, inv, out, fault>>
      /\ subs' = [subs EXCEPT ![Len(subs)] = f]
  <2>1. f = [Frame EXCEPT !.res = res, !.body = SubSeq(@, n + 1, Len(@))]
    BY <1>1 DEF Frames
  <2> HIDE DEF f
  <2> QED BY <2>1 DEF Substituted
<1> HIDE DEF b
<1>5. f \in Frames /\ f.id = Frame.id /\ f.pre = Frame.pre BY <1>1, <1>3 DEF Frames
<1> HIDE DEF f
<1>6. /\ subs' \in Seq(Frames) /\ Len(subs') = Len(subs) /\ subs'[Len(subs)] = f
      /\ \A i \in 1 .. Len(subs) - 1 : subs'[i] = subs[i]
  BY <1>2, <1>4, <1>5, ReplaceLast
<1>7. \A i \in 1 .. Len(subs) : i = Len(subs) \/ i \in 1 .. Len(subs) - 1 BY <1>1
<1>8. SameCalls BY <1>1, <1>5, <1>6, <1>7 DEF SameCalls
<1>9. SameLexers /\ SameObjects BY <1>4 DEF SameLexers, SameObjects, StackOK, StackTyped
<1>10. StackOK' BY <1>8, <1>9, QuietStep
<1>11. DataTyped' BY <1>4 DEF DataTyped
<1>12. InvOK' BY <1>1, <1>4, <1>10, NoInvocation DEF StackOK
<1> QED BY <1>4, <1>10, <1>11, <1>12 DEF MacrosTakeTurns

LEMMA ArgumentIs ==
  ASSUME IInv, AtArgument
  PROVE  /\ Substituting /\ Cur \in Tokens /\ Frame.body # <<>>
         /\ Frame.res \in Seq(Tokens)
         /\ ArgumentNum(Frame.id, Cur.s) \in Nat \ {0}
         /\ HaveArg => Arg \in Seq(Tokens) /\ Expanded \in Seq(Tokens)
         /\ HaveArg => ArgumentNum(Frame.id, Cur.s) <= Len(Frame.pres)
<1>1. Substituting /\ Frame.body # <<>> /\ IsParam(Frame.id, Cur.s) BY DEF AtArgument, AtBody
<1>2. /\ Frame \in Frames /\ mi[Frame.id] \in Infos /\ Cur \in Tokens /\ Frame.res \in Seq(Tokens)
  BY <1>1, FrameIs
<1>3. PICK ps \in Seq(Symbols) : ps = mi[Frame.id].params BY <1>2 DEF Infos
<1>4. PICK k \in DOMAIN ps : ps[k] = Cur.s BY <1>1, <1>3 DEF IsParam, Range
<1>5. ArgumentNum(Frame.id, Cur.s) \in DOMAIN ps BY <1>3, <1>4 DEF ArgumentNum
<1>6. PICK a \in Nat \ {0} : a = ArgumentNum(Frame.id, Cur.s) BY <1>5
<1>7. /\ Frame.args \in Seq(Seq(Tokens)) /\ Frame.pres \in Seq(Seq(Tokens))
      /\ Len(Frame.pres) = Len(Frame.args)
  BY <1>2 DEF Frames
<1>8. HaveArg => a \in 1 .. Len(Frame.args) /\ a \in 1 .. Len(Frame.pres)
  BY <1>6, <1>7 DEF HaveArg
<1>9. HaveArg => Arg \in Seq(Tokens) /\ Expanded \in Seq(Tokens)
  BY <1>6, <1>7, <1>8 DEF Arg, Expanded
<1> QED BY <1>1, <1>2, <1>6, <1>8, <1>9

LEMMA CopyTokenStep ==
  ASSUME IInv, CopyToken
  PROVE  IInv'
<1>1. Substituting /\ Frame.body # <<>> BY DEF CopyToken, AtBody
<1>2. Frame.res \in Seq(Tokens) /\ Cur \in Tokens BY <1>1, FrameIs
<1>3. Append(Frame.res, Cur) \in Seq(Tokens) BY <1>2
<1>4. Substituted(Append(Frame.res, Cur), 1) BY DEF CopyToken
<1> QED BY <1>1, <1>3, <1>4, SubstituteStep

LEMMA StringifyStep ==
  ASSUME IInv, Stringify
  PROVE  IInv'
<1>1. Substituting BY DEF Stringify, AtBody
<1>2. Frame.res \in Seq(Tokens) BY <1>1, FrameIs
<1>3. Tok("str") \in Tokens BY NamesAssumption DEF Tok, Tokens, Punctuators
<1>4. Append(Frame.res, Tok("str")) \in Seq(Tokens) BY <1>2, <1>3
<1>5. Fail("Invalid arg #") \/ Substituted(Append(Frame.res, Tok("str")), 2) BY DEF Stringify
<1> QED BY <1>1, <1>4, <1>5, FailStep, SubstituteStep

LEMMA SubstituteArgumentStep ==
  ASSUME IInv, SubstituteArgument
  PROVE  IInv'
<1>1. /\ Substituting /\ Frame.res \in Seq(Tokens)
      /\ HaveArg => Arg \in Seq(Tokens) /\ Expanded \in Seq(Tokens)
  BY ArgumentIs DEF SubstituteArgument
<1>2. CASE ~HaveArg
  <2>1. Fail("Invalid arg #") BY <1>2 DEF SubstituteArgument
  <2> QED BY <2>1, FailStep
<1>3. CASE HaveArg /\ ~ArgNeedsPreexpansion
  <2>1. Substituted(Frame.res \o Arg, 1) BY <1>3 DEF SubstituteArgument
  <2>2. Frame.res \o Arg \in Seq(Tokens) BY <1>1, <1>3
  <2> QED BY <1>1, <2>1, <2>2, SubstituteStep
<1>4. CASE HaveArg /\ ArgNeedsPreexpansion
  <2>1. Expanded # <<>> /\ Substituted(Frame.res \o Front(Expanded), 1)
    BY <1>4 DEF SubstituteArgument
  <2>2. Front(Expanded) \in Seq(Tokens) BY <1>1, <1>4, <2>1, FrontLast
  <2>3. Frame.res \o Front(Expanded) \in Seq(Tokens) BY <1>1, <2>2
  <2> QED BY <1>1, <2>1, <2>3, SubstituteStep
<1> QED BY <1>2, <1>3, <1>4

LEMMA PasteArgumentStep ==
  ASSUME IInv, PasteArgument
  PROVE  IInv'
<1>1. Substituting /\ Frame.res \in Seq(Tokens) /\ Arg \in Seq(Tokens)
  BY ArgumentIs DEF PasteArgument
<1> DEFINE n == Len(Frame.res)
           gnu == /\ PasteBefore /\ n >= 2 /\ Frame.res[n - 1].s = ","
                  /\ IsLastParam /\ mi[Frame.id].variadic
           res == (IF gnu THEN Front(Frame.res) ELSE Frame.res) \o Arg
<1>2. Substituted(res, 1) BY DEF PasteArgument
<1>3. gnu => Front(Frame.res) \in Seq(Tokens) BY <1>1, FrontLast DEF PasteBefore
<1> HIDE DEF gnu
<1>4. res \in Seq(Tokens) BY <1>1, <1>3
<1> HIDE DEF res
<1> QED BY <1>1, <1>2, <1>4, SubstituteStep

LEMMA PasteEmptyArgumentStep ==
  ASSUME IInv, PasteEmptyArgument
  PROVE  IInv'
<1>1. Substituting /\ Frame.res \in Seq(Tokens) BY ArgumentIs DEF PasteEmptyArgument
<1>2. CASE ~HaveArg
  <2>1. Fail("Invalid arg #") BY <1>2 DEF PasteEmptyArgument
  <2> QED BY <2>1, FailStep
<1>3. CASE HaveArg /\ PasteAfter
  <2>1. Substituted(Frame.res, 2) BY <1>3 DEF PasteEmptyArgument
  <2> QED BY <1>1, <2>1, SubstituteStep
<1>4. CASE HaveArg /\ ~PasteAfter
  <2> DEFINE kept == Front(Frame.res)
             elided == IsLastParam /\ Frame.elided /\ kept # <<>> /\ Last(kept).s = ","
  <2>1. Frame.res # <<>> BY <1>4 DEF PasteEmptyArgument, PasteBefore
  <2>2. kept \in Seq(Tokens) BY <1>1, <2>1, FrontLast
  <2>3. elided => Front(kept) \in Seq(Tokens) BY <2>2, FrontLast
  <2>4. \/ elided /\ Substituted(Front(kept), 1)
        \/ Substituted(kept, 1)
    BY <1>4 DEF PasteEmptyArgument
  <2> HIDE DEF kept, elided
  <2> QED BY <1>1, <2>2, <2>3, <2>4, SubstituteStep
<1> QED BY <1>2, <1>3, <1>4

LEMMA PreExpandStep ==
  ASSUME IInv, PreExpand
  PROVE  IInv'
<1> USE DEF IInv
<1>1. AtArgument /\ HaveArg BY DEF PreExpand
<1>2. /\ Substituting /\ Arg \in Seq(Tokens)
      /\ ArgumentNum(Frame.id, Cur.s) \in Nat \ {0}
      /\ ArgumentNum(Frame.id, Cur.s) <= Len(Frame.pres)
  BY <1>1, ArgumentIs
<1>3. PICK k \in Nat \ {0} : k = ArgumentNum(Frame.id, Cur.s) /\ k <= Len(Frame.pres) BY <1>2
<1>4. /\ inv = NoInv /\ Frame \in Frames /\ Frame = subs[Len(subs)] /\ Len(subs) \in Nat \ {0}
  BY <1>2, FrameIs
<1>5. subs \in Seq(Frames) /\ subs # <<>> /\ stk \in Seq(Lexers)
  BY <1>4 DEF StackOK, StackTyped
<1> DEFINE l == [macro |-> 0, toks |-> Append(Arg, Tok("eof"))]
           f == [Frame EXCEPT !.pre = k]
<1>6. l \in Lexers /\ l.macro = 0
  <2>1. Tok("eof") \in Tokens BY NamesAssumption DEF Tok, Tokens, Punctuators
  <2>2. Append(Arg, Tok("eof")) \in Seq(Tokens) BY <1>2, <2>1
  <2> QED BY <2>2 DEF Lexers
<1>7. f \in Frames /\ f.id = Frame.id /\ f.pre = k BY <1>3, <1>4 DEF Frames
<1>8. /\ UNCHANGED <<file, mi, macros, micache, inv, out, fault>>
      /\ stk' = Append(stk, l) /\ subs' = [subs EXCEPT ![Len(subs)] = f]
  <2>1. subs' = [subs EXCEPT ![Len(subs)].pre = k] BY <1>3 DEF PreExpand
  <2> QED BY <1>4, <2>1 DEF PreExpand
<1> HIDE DEF l, f
<1>9. /\ subs' \in Seq(Frames) /\ Len(subs') = Len(subs) /\ subs'[Len(subs)] = f
      /\ \A i \in 1 .. Len(subs) - 1 : subs'[i] = subs[i]
  BY <1>5, <1>7, <1>8, ReplaceLast
<1>10. \A i \in 1 .. Len(subs) : i = Len(subs) \/ i \in 1 .. Len(subs) - 1 BY <1>4
<1>11. \A i \in 1 .. Len(subs) : subs'[i].id = subs[i].id BY <1>4, <1>7, <1>9, <1>10
<1>12. /\ stk' \in Seq(Lexers) /\ Len(stk') = Len(stk) + 1 /\ stk'[Len(stk) + 1] = l
       /\ \A i \in 1 .. Len(stk) : stk'[i] = stk[i]
  BY <1>5, <1>6, <1>8, Appended
<1>13. SameObjects BY <1>8 DEF SameObjects
<1>14. StackOK'
  <2>1. stk'[Len(stk) + 1].macro = 0 /\ \A i \in 1 .. Len(stk) : stk'[i].macro = stk[i].macro
    BY <1>6, <1>12
  <2>2. subs'[Len(subs)].pre # 0 BY <1>3, <1>7, <1>9
  <2>3. \A i \in 1 .. Len(subs) - 1 : subs'[i].pre = subs[i].pre BY <1>9
  <2> QED BY <1>2, <1>9, <1>11, <1>12, <1>13, <2>1, <2>2, <2>3, PushStream
<1>15. DataTyped' BY <1>8 DEF DataTyped
<1>16. InvOK' BY <1>4, <1>8, <1>14, NoInvocation DEF StackOK
<1> QED BY <1>8, <1>14, <1>15, <1>16 DEF MacrosTakeTurns

LEMMA StartStep ==
  ASSUME IInv, StartTokenLexer
  PROVE  IInv'
<1> USE DEF IInv
<1>1. Substituting BY DEF StartTokenLexer
<1>2. /\ inv = NoInv /\ Frame \in Frames /\ Frame = subs[Len(subs)] /\ Len(subs) \in Nat \ {0}
      /\ Frame.id \in 1 .. Len(mi) /\ mi[Frame.id] \in Infos /\ Frame.res \in Seq(Tokens)
  BY <1>1, FrameIs
<1>3. subs[Len(subs)].pre = 0 /\ Expanding = 1 .. Len(subs) - 1
  BY <1>1, SubstitutingIsLast DEF StackOK
<1>4. subs \in Seq(Frames) /\ subs # <<>> /\ stk \in Seq(Lexers)
  BY <1>2 DEF StackOK, StackTyped
<1> DEFINE m == Frame.id
           l == [macro |-> m, toks |-> Frame.res]
(* Its macro is nowhere on the stack.                                      *)
<1>5. mi[m].enabled
  <2>1. Len(subs) \in 1 .. Len(subs) /\ Len(subs) \notin Expanding BY <1>2, <1>3
  <2>2. \A p \in 1 .. Len(stk) : stk[p].macro # m
    BY <1>2, <2>1 DEF StackOK, StreamsInOrder, StreamsAt
  <2>3. DOMAIN stk = 1 .. Len(stk) /\ m \in Addresses
    BY <1>2, <1>4 DEF StackOK, StackTyped, Addresses
  <2> QED BY <2>2, <2>3 DEF StackOK, DisabledWhileLive
<1>6. m \notin Range(micache)
  <2>1. Len(subs) \in DOMAIN subs BY <1>2, <1>4
  <2> QED BY <1>2, <2>1 DEF StackOK, ReleasedUnreachable
<1>7. /\ UNCHANGED <<file, macros, micache, inv, out, fault>>
      /\ mi' = [mi EXCEPT ![m].enabled = FALSE]
      /\ stk' = Append(stk, l) /\ subs' = Front(subs)
  BY <1>5 DEF StartTokenLexer
<1>8. l \in Lexers /\ l.macro = m BY <1>2 DEF Lexers
<1> HIDE DEF l, m
<1>9. /\ subs' \in Seq(Frames) /\ Len(subs') = Len(subs) - 1
      /\ \A i \in 1 .. Len(subs) - 1 : subs'[i] = subs[i]
  BY <1>4, <1>7, FrontLast
<1>10. /\ stk' \in Seq(Lexers) /\ Len(stk') = Len(stk) + 1 /\ stk'[Len(stk) + 1] = l
       /\ \A i \in 1 .. Len(stk) : stk'[i] = stk[i]
  BY <1>4, <1>7, <1>8, Appended
<1>11. StackOK'
  <2>1. m \in 1 .. Len(mi) BY <1>2 DEF m
  <2>2. stk'[Len(stk) + 1].macro = m /\ \A i \in 1 .. Len(stk) : stk'[i].macro = stk[i].macro
    BY <1>8, <1>10
  <2>3. Len(subs') <= Len(subs) /\ Expanding = 1 .. Len(subs') BY <1>2, <1>3, <1>9
  <2>4. \A i \in 1 .. Len(subs') : subs'[i].id = subs[i].id /\ subs'[i].pre = subs[i].pre
    BY <1>9
  <2> QED BY <1>5, <1>6, <1>7, <1>9, <1>10, <2>1, <2>2, <2>3, <2>4, PushMacro
<1>12. DataTyped' BY <1>7 DEF DataTyped
<1>13. InvOK' BY <1>2, <1>7, <1>11, NoInvocation DEF StackOK
<1> QED BY <1>7, <1>11, <1>12, <1>13 DEF MacrosTakeTurns

(* A directive, which may stand among the arguments of an invocation.      *)
LEMMA DirectiveKeeps ==
  ASSUME IInv, stk = <<>>, file # <<>>, Head(file).op # "tok", subs = <<>>,
         StackOK', Len(mi) <= Len(mi'), AllEnabled(mi'), stk' = stk, subs' = subs,
         file' = Tail(file), UNCHANGED <<inv, out, fault>>
  PROVE  IInv'
<1> USE DEF IInv
<1>1. DataTyped'
  <2>1. file \in Seq(Items) BY DEF DataTyped
  <2>2. /\ Tail(file) \in Seq(Items) /\ Len(Tail(file)) = Len(file) - 1
        /\ \A i \in 1 .. Len(file) - 1 : Tail(file)[i] = file[i + 1]
    BY <2>1, HeadTailProperties
  <2>3. Len(file) \in Nat BY <2>1
  <2>4. \A i \in 1 .. Len(file) - 1 : i + 1 \in 1 .. Len(file) BY <2>3
  <2> QED BY <2>2, <2>4 DEF DataTyped
<1>2. InvTyped'
  <2>1. inv.id \in Nat
    <3>1. NoInv.id = 0 BY DEF NoInv
    <3>2. \A v \in Invocations : v.id \in Nat BY DEF Invocations
    <3> QED BY <3>1, <3>2 DEF InvOK, InvTyped
  <2>2. Len(mi) \in Nat /\ Len(mi') \in Nat BY DEF StackOK, StackTyped
  <2>3. inv.id <= Len(mi') BY <2>1, <2>2 DEF InvOK, InvTyped
  <2> QED BY <2>3 DEF InvOK, InvTyped
<1>3. ReadInTheMiddle' BY DEF InvOK, ReadInTheMiddle, Reading
<1>4. InvokedEnabled'
  <2> SUFFICES ASSUME Disabled(inv.name)' PROVE FALSE BY DEF InvokedEnabled
  <2>1. inv'.name \in Names /\ macros'[inv'.name] # 0 /\ ~mi'[macros'[inv'.name]].enabled
    BY DEF Disabled, MacroOf
  <2>2. macros'[inv'.name] \in Nat /\ macros'[inv'.name] <= Len(mi')
    BY <2>1 DEF StackOK, StackTyped
  <2>3. macros'[inv'.name] \in 1 .. Len(mi') BY <2>1, <2>2
  <2> QED BY <2>1, <2>3 DEF AllEnabled
<1>5. ParenComes'
  <2> SUFFICES ASSUME Reading', ~inv'.open PROVE FALSE BY DEF ParenComes
  <2>1. LParenIsNext(stk, file) BY DEF InvOK, ParenComes, Reading
  <2>2. DOMAIN stk = {} OBVIOUS
  <2> QED BY <2>1, <2>2 DEF LParenIsNext
<1> QED BY <1>1, <1>2, <1>3, <1>4, <1>5 DEF InvOK, MacrosTakeTurns

LEMMA HandleDefineStep ==
  ASSUME IInv, HandleDefine
  PROVE  IInv'
<1>1. stk = <<>> /\ file # <<>> /\ Head(file).op # "tok" /\ ~Substituting
  BY DEF HandleDefine, AtDirective, Lexing
<1>2. subs = <<>> BY <1>1, NoLexersNoCalls DEF IInv
<1>3. StackOK' /\ Len(mi) <= Len(mi') /\ AllEnabled(mi') BY DefineStep DEF IInv
<1>4. /\ stk' = stk /\ subs' = subs /\ file' = Tail(file) /\ UNCHANGED <<inv, out, fault>>
  BY DEF HandleDefine
<1> QED BY <1>1, <1>2, <1>3, <1>4, DirectiveKeeps

LEMMA HandleUndefStep ==
  ASSUME IInv, HandleUndef
  PROVE  IInv'
<1>1. stk = <<>> /\ file # <<>> /\ Head(file).op # "tok" /\ ~Substituting
  BY DEF HandleUndef, AtDirective, Lexing
<1>2. subs = <<>> BY <1>1, NoLexersNoCalls DEF IInv
<1>3. StackOK' /\ Len(mi) <= Len(mi') /\ AllEnabled(mi') BY UndefStep DEF IInv
<1>4. /\ stk' = stk /\ subs' = subs /\ file' = Tail(file) /\ UNCHANGED <<inv, out, fault>>
  BY DEF HandleUndef
<1> QED BY <1>1, <1>2, <1>3, <1>4, DirectiveKeeps

-----------------------------------------------------------------------------
LEMMA InitOK ==
  ASSUME Init
  PROVE  IInv
<1>1. file \in Files BY DEF Init
<1>2. file \in Seq(Items) /\ \A i \in 1 .. Len(file) : file[i].op # "tok" => file[i].name \in Names
  <2>1. file \in Seq(Items) BY <1>1, FilesAssumption
  <2>2. \A i \in DOMAIN file : file[i].op # "tok" => file[i].name \in Names
    BY <1>1, FilesAssumption
  <2>3. DOMAIN file = 1 .. Len(file) BY <2>1
  <2> QED BY <2>1, <2>2, <2>3
<1>3. DataTyped BY <1>2 DEF DataTyped, Init
<1>4. StackOK
  <2>1. /\ stk = <<>> /\ subs = <<>> /\ mi = <<>> /\ micache = <<>> /\ Len(mi) = 0
        /\ Len(micache) = 0 /\ mi \in Seq(Infos) /\ micache \in Seq(Nat \ {0})
        /\ Len(stk) = 0 /\ Len(subs) = 0 /\ stk \in Seq(Lexers) /\ subs \in Seq(Frames)
        /\ DOMAIN stk = {} /\ DOMAIN subs = {} /\ DOMAIN mi = {} /\ DOMAIN micache = {}
        /\ 1 .. 0 = {} /\ 1 .. 0 - 1 = {}
    BY DEF Init
  <2>2. macros \in [Names -> Nat] /\ \A n \in Names : macros[n] = 0 BY DEF Init
  <2>3. StackTyped BY <2>1, <2>2 DEF StackTyped
  <2>4. InTheMiddle BY <2>1 DEF InTheMiddle
  <2>5. StreamsInOrder
    <3>1. Expanding = {} BY <2>1 DEF Expanding
    <3>2. PICK at : at = [i \in {} |-> 0] OBVIOUS
    <3>3. at \in [Expanding -> 1 .. Len(stk)] BY <3>1, <3>2
    <3>4. StreamsAt(at) BY <2>1, <3>1 DEF StreamsAt
    <3> QED BY <3>3, <3>4 DEF StreamsInOrder
  <2>6. DisabledWhileLive BY <2>1 DEF DisabledWhileLive, Addresses
  <2>7. ReleasedUnreachable BY <2>1, <2>2 DEF ReleasedUnreachable
  <2> QED BY <2>3, <2>4, <2>5, <2>6, <2>7 DEF StackOK
<1>5. InvOK
  <2>1. inv = NoInv /\ inv.id = 0 /\ Len(mi) = 0 BY DEF Init, NoInv
  <2>2. InvTyped BY <2>1 DEF InvTyped
  <2> QED BY <2>1, <2>2 DEF InvOK, ReadInTheMiddle, InvokedEnabled, ParenComes, Reading
<1>6. MacrosTakeTurns BY DEF Init, MacrosTakeTurns
<1> QED BY <1>3, <1>4, <1>5, <1>6 DEF IInv

LEMMA NextKeeps ==
  ASSUME IInv, [Next]_vars
  PROVE  IInv'
<1>1. CASE UNCHANGED vars
  <2>1. UNCHANGED <<file, mi, macros, micache, stk, subs, inv, out>> /\ fault' = fault
    BY <1>1 DEF vars
  <2> QED BY <2>1, SameState DEF MacrosTakeTurns, IInv
<1>2. CASE PopTokenLexer BY <1>2, PopStep
<1>3. CASE PasteTokens BY <1>3, PasteStep
<1>4. CASE ReturnToken BY <1>4, ReturnTokenStep
<1>5. CASE ExpandObject BY <1>5, ExpandObjectStep
<1>6. CASE BeginInvocation BY <1>6, BeginStep
<1>7. CASE ReadLParen BY <1>7, ReadLParenStep
<1>8. CASE ReadArgToken BY <1>8, ReadArgTokenStep
<1>9. CASE EndArgument BY <1>9, EndArgumentOrGiveUp
<1>10. CASE EndInvocation BY <1>10, EndInvocationStep
<1>11. CASE UnterminatedInvocation BY <1>11, UnterminatedStep
<1>12. CASE CopyToken BY <1>12, CopyTokenStep
<1>13. CASE Stringify BY <1>13, StringifyStep
<1>14. CASE PreExpand BY <1>14, PreExpandStep
<1>15. CASE SubstituteArgument BY <1>15, SubstituteArgumentStep
<1>16. CASE PasteArgument BY <1>16, PasteArgumentStep
<1>17. CASE PasteEmptyArgument BY <1>17, PasteEmptyArgumentStep
<1>18. CASE StartTokenLexer BY <1>18, StartStep
<1>19. CASE HandleDefine BY <1>19, HandleDefineStep
<1>20. CASE HandleUndef BY <1>20, HandleUndefStep
<1> QED
  BY <1>1, <1>2, <1>3, <1>4, <1>5, <1>6, <1>7, <1>8, <1>9, <1>10, <1>11, <1>12, <1>13,
     <1>14, <1>15, <1>16, <1>17, <1>18, <1>19, <1>20 DEF Next

LEMMA Inductive == Spec => []IInv
<1>1. Init => IInv BY InitOK
<1>2. IInv /\ [Next]_vars => IInv' BY NextKeeps
<1> QED BY <1>1, <1>2, PTL DEF Spec

(* The variables keep their types, and every address is one of an object   *)
(* that AllocateMacroInfo made.                                            *)
THEOREM TypeCorrect == Spec => []TypeOK
<1>1. IInv => TypeOK BY DEF IInv, StackOK, InvOK, TypeOK
<1> QED BY <1>1, Inductive, PTL

(* EnableMacro and DisableMacro: a macro is disabled exactly while one     *)
(* TokenLexer reads its body, in every main file.                          *)
THEOREM DisabledCorrect == Spec => []DisabledWhileLive
<1>1. IInv => DisabledWhileLive BY DEF IInv, StackOK
<1> QED BY <1>1, Inductive, PTL

(* ReleaseMacroInfo: no name, TokenLexer or call of Init refers to memory  *)
(* that will be reused, and none is released twice.                        *)
THEOREM ReleasedCorrect == Spec => []ReleasedUnreachable
<1>1. IInv => ReleasedUnreachable BY DEF IInv, StackOK
<1> QED BY <1>1, Inductive, PTL

(* The assertions of EnableMacro, DisableMacro and of                      *)
(* ReadFunctionLikeMacroArgs hold.                                         *)
THEOREM TurnsCorrect == Spec => []MacrosTakeTurns
<1>1. IInv => MacrosTakeTurns BY DEF IInv
<1> QED BY <1>1, Inductive, PTL

-----------------------------------------------------------------------------
(***************************************************************************)
(* No assertion fails.  That every ## has its operands, every argument its *)
(* tokens and every stream its eof is not inductive by itself: it rests on *)
(* the shape of what each call of Init has made so far of a body, on the   *)
(* arguments read so far, and on what #define accepted.                    *)
(***************************************************************************)

(* A name, for the provers, which take "," itself for a separator.         *)
Comma == ","

Plain(ts) == \A i \in 1 .. Len(ts) : ts[i].s \notin {"eof", "##"}
AllButLastPlain(ts) == \A i \in 1 .. Len(ts) - 1 : ts[i].s \notin {"eof", "##"}

BeginsWith(ts, s) == ts # <<>> /\ ts[1].s = s
EndsIn(ts, s) == ts # <<>> /\ ts[Len(ts)].s = s

(* Every ## has its operands, and there is no eof.                         *)
Pasteable(ts) ==
  \A i \in 1 .. Len(ts) :
    ts[i].s # "eof" /\ (ts[i].s = "##" => i > 1 /\ i < Len(ts) /\ ts[i + 1].s # "##")

(* The stream of an argument ends in its eof.                              *)
LexerWhole(l) ==
  IF l.macro = 0 THEN EndsIn(l.toks, "eof") /\ AllButLastPlain(l.toks)
  ELSE Pasteable(l.toks)

(* What was substituted so far and what is left of the body: a ## may      *)
(* stand at the end of the one or at the beginning of the other.           *)
LeftHalf(res) ==
  \A i \in 1 .. Len(res) :
    res[i].s # "eof" /\ (res[i].s = "##" => i > 1 /\ (i < Len(res) => res[i + 1].s # "##"))

RightHalf(body) ==
  \A i \in 1 .. Len(body) :
    body[i].s # "eof" /\ (body[i].s = "##" => i < Len(body) /\ body[i + 1].s # "##")

Halves(res, body) ==
  /\ LeftHalf(res) /\ RightHalf(body)
  /\ EndsIn(res, "##") => body # <<>> /\ ~BeginsWith(body, "##")
  /\ BeginsWith(body, "##") => res # <<>> /\ ~EndsIn(res, "##")

(* A comma that goes with an argument left out is no operand of a ## that  *)
(* stays.                                                                  *)
CommaPasted(ts, i) == /\ i + 2 <= Len(ts)
                      /\ ts[i].s = "##" /\ ts[i + 1].s = Comma /\ ts[i + 2].s = "##"

NoCommaPasted(res, body) ==
  /\ \A i \in 1 .. Len(res) : ~CommaPasted(res, i)
  /\ \A i \in 1 .. Len(body) : ~CommaPasted(body, i)
  /\ EndsIn(res, "##") => ~(Len(body) >= 2 /\ body[1].s = Comma /\ body[2].s = "##")
  /\ Len(res) >= 2 /\ res[Len(res) - 1].s = "##" /\ res[Len(res)].s = Comma
       => ~BeginsWith(body, "##")

(* # comes before a parameter.                                             *)
Stringifies(body, params) ==
  \A j \in 1 .. Len(body) : body[j].s = "#" =>
    j < Len(body) /\ body[j + 1].s \in Range(params)

(* A call of Init has an argument for every parameter.                     *)
FrameWhole(f, params) ==
  /\ Len(params) <= Len(f.args)
  /\ \A k \in 1 .. Len(f.args) : Plain(f.args[k])
  /\ \A k \in 1 .. Len(f.pres) :
       AllButLastPlain(f.pres[k]) /\ (k = f.pre => Plain(f.pres[k]))
  /\ Halves(f.res, f.body)
  /\ Stringifies(f.body, params)
  /\ f.elided => /\ NoCommaPasted(f.res, f.body)
                 /\ \A k \in 1 .. Len(f.args) : ~EndsIn(f.args[k], Comma)

(* What #define accepts.                                                   *)
BodyWhole(m) ==
  /\ \A j \in 1 .. Len(m.body) : m.body[j].s # "eof"
  /\ ~BeginsWith(m.body, "##") /\ ~EndsIn(m.body, "##")
  /\ m.fn => Stringifies(m.body, m.params)

FileWhole ==
  \A i \in 1 .. Len(file) :
    /\ file[i].name # "eof"
    /\ \A j \in 1 .. Len(file[i].def.body) : file[i].def.body[j].s # "eof"

MacrosWhole == \A n \in Names : macros[n] # 0 => BodyWhole(mi[macros[n]])

(* The macro that was named is still the one whose arguments are read, and *)
(* a comma ends an argument only where it is part of the variadic one.     *)
InvWhole ==
  Reading =>
    /\ macros[inv.name] = inv.id /\ mi[inv.id].fn
    /\ inv.variadic = mi[inv.id].variadic
    /\ inv.left = Len(mi[inv.id].params) - Len(inv.args) /\ inv.parens >= 0
    /\ Plain(inv.cur)
    /\ \A k \in 1 .. Len(inv.args) : Plain(inv.args[k]) /\ ~EndsIn(inv.args[k], Comma)
    /\ EndsIn(inv.cur, Comma) => inv.parens > 0 \/ (inv.variadic /\ inv.left <= 1)

LexersWhole == \A i \in 1 .. Len(stk) : LexerWhole(stk[i])
CallsWhole == \A i \in 1 .. Len(subs) : FrameWhole(subs[i], mi[subs[i].id].params)

Whole == FileWhole /\ MacrosWhole /\ InvWhole /\ LexersWhole /\ CallsWhole /\ NoFault

-----------------------------------------------------------------------------
(* The two halves of a body, as tokens go from the one to the other.       *)

LEMMA Suffix ==
  ASSUME NEW s \in Seq(Tokens), NEW n \in Nat, n <= Len(s)
  PROVE  /\ SubSeq(s, n + 1, Len(s)) \in Seq(Tokens)
         /\ Len(SubSeq(s, n + 1, Len(s))) = Len(s) - n
         /\ \A i \in 1 .. Len(s) - n : SubSeq(s, n + 1, Len(s))[i] = s[n + i]
<1>1. n + 1 \in 1 .. Len(s) + 1 /\ Len(s) \in n + 1 - 1 .. Len(s) OBVIOUS
<1>2. /\ SubSeq(s, n + 1, Len(s)) \in Seq(Tokens)
      /\ Len(SubSeq(s, n + 1, Len(s))) = Len(s) - (n + 1) + 1
      /\ \A i \in 1 .. Len(s) - (n + 1) + 1 : SubSeq(s, n + 1, Len(s))[i] = s[n + 1 + i - 1]
  BY <1>1, Window
<1>3. Len(s) \in Nat /\ Len(s) - (n + 1) + 1 = Len(s) - n OBVIOUS
<1>4. \A i \in 1 .. Len(s) - n : n + 1 + i - 1 = n + i BY <1>3
<1> HIDE DEF Tokens
<1>5. \A i \in 1 .. Len(s) - n : SubSeq(s, n + 1, Len(s))[i] = s[n + i] BY <1>2, <1>3, <1>4
<1> QED BY <1>2, <1>3, <1>5

LEMMA RightSuffix ==
  ASSUME NEW s \in Seq(Tokens), NEW n \in Nat, n <= Len(s), RightHalf(s)
  PROVE  RightHalf(SubSeq(s, n + 1, Len(s)))
<1> DEFINE b == SubSeq(s, n + 1, Len(s))
<1>1. /\ b \in Seq(Tokens) /\ Len(b) = Len(s) - n /\ \A i \in 1 .. Len(s) - n : b[i] = s[n + i]
  BY Suffix
<1> HIDE DEF b
<1> SUFFICES RightHalf(b) BY DEF b
<1> SUFFICES ASSUME NEW i \in 1 .. Len(b)
             PROVE  b[i].s # "eof" /\ (b[i].s = "##" => i < Len(b) /\ b[i + 1].s # "##")
  BY DEF RightHalf
<1>2. n + i \in 1 .. Len(s) /\ b[i] = s[n + i] BY <1>1
<1>3. s[n + i].s # "eof" /\ (s[n + i].s = "##" => n + i < Len(s) /\ s[n + i + 1].s # "##")
  BY <1>2 DEF RightHalf
<1>4. n + i < Len(s) => i + 1 \in 1 .. Len(s) - n /\ n + (i + 1) = n + i + 1 /\ i < Len(b)
  BY <1>1
<1>5. n + i < Len(s) => b[i + 1] = s[n + i + 1] BY <1>1, <1>4
<1> QED BY <1>2, <1>3, <1>4, <1>5

LEMMA StringifiesSuffix ==
  ASSUME NEW s \in Seq(Tokens), NEW n \in Nat, n <= Len(s), NEW ps, Stringifies(s, ps)
  PROVE  Stringifies(SubSeq(s, n + 1, Len(s)), ps)
<1> DEFINE b == SubSeq(s, n + 1, Len(s))
<1>1. /\ b \in Seq(Tokens) /\ Len(b) = Len(s) - n /\ \A i \in 1 .. Len(s) - n : b[i] = s[n + i]
  BY Suffix
<1> HIDE DEF b
<1> SUFFICES Stringifies(b, ps) BY DEF b
<1> SUFFICES ASSUME NEW i \in 1 .. Len(b), b[i].s = "#"
             PROVE  i < Len(b) /\ b[i + 1].s \in Range(ps)
  BY DEF Stringifies
<1>0. Len(s) \in Nat /\ i \in 1 .. Len(s) - n BY <1>1
<1>2. n + i \in 1 .. Len(s) /\ b[i] = s[n + i] BY <1>0, <1>1
<1>3. n + i < Len(s) /\ s[n + i + 1].s \in Range(ps) BY <1>2 DEF Stringifies
<1>4. i + 1 \in 1 .. Len(s) - n /\ n + (i + 1) = n + i + 1 /\ i < Len(b) BY <1>1, <1>3
<1> QED BY <1>1, <1>3, <1>4

(* A token of the body is copied, or a string made of it.                  *)
LEMMA HalvesAppend ==
  ASSUME NEW res \in Seq(Tokens), NEW body \in Seq(Tokens), NEW t \in Tokens,
         NEW n \in Nat \ {0}, n <= Len(body), Halves(res, body), t.s # "eof",
         t.s = "##" => n = 1 /\ t = body[1]
  PROVE  Halves(Append(res, t), SubSeq(body, n + 1, Len(body)))
<1> DEFINE r == Append(res, t)
           b == SubSeq(body, n + 1, Len(body))
<1>1. /\ b \in Seq(Tokens) /\ Len(b) = Len(body) - n
      /\ \A i \in 1 .. Len(body) - n : b[i] = body[n + i]
  BY Suffix
<1>2. /\ r \in Seq(Tokens) /\ Len(r) = Len(res) + 1 /\ r # <<>> /\ r[Len(res) + 1] = t
      /\ \A i \in 1 .. Len(res) : r[i] = res[i]
  BY Appended
<1>3. RightHalf(b) BY RightSuffix DEF Halves
<1> HIDE DEF r, b
<1> SUFFICES Halves(r, b) BY DEF r, b
<1>4. body # <<>> /\ 1 \in 1 .. Len(body) /\ Len(body) \in Nat /\ Len(res) \in Nat OBVIOUS
<1>5. t.s = "##" => /\ res # <<>> /\ ~EndsIn(res, "##")
                    /\ 1 < Len(body) /\ body[2].s # "##"
  <2> HAVE t.s = "##"
  <2>1. BeginsWith(body, "##") BY <1>4 DEF BeginsWith
  <2>2. body[1].s = "##" => 1 < Len(body) /\ body[1 + 1].s # "##"
    BY <1>4 DEF Halves, RightHalf
  <2> QED BY <2>1, <2>2 DEF Halves
<1>6. LeftHalf(r)
  <2> SUFFICES ASSUME NEW i \in 1 .. Len(r)
               PROVE  r[i].s # "eof" /\ (r[i].s = "##" => i > 1 /\ (i < Len(r) => r[i + 1].s # "##"))
    BY DEF LeftHalf
  <2>1. CASE i = Len(res) + 1
    <3>1. r[i] = t /\ i = Len(r) BY <1>2, <2>1
    <3>2. res # <<>> => i > 1 BY <2>1
    <3> QED BY <1>2, <1>5, <3>1, <3>2
  <2>2. CASE i # Len(res) + 1
    <3>1. i \in 1 .. Len(res) /\ r[i] = res[i] BY <1>2, <2>2
    <3>2. res[i].s # "eof" /\ (res[i].s = "##" => i > 1 /\ (i < Len(res) => res[i + 1].s # "##"))
      BY <3>1 DEF Halves, LeftHalf
    <3>3. i < Len(res) => i + 1 \in 1 .. Len(res) BY <3>1
    <3>4. i < Len(res) => r[i + 1] = res[i + 1] BY <1>2, <3>3
    <3>5. CASE i < Len(res) BY <3>1, <3>2, <3>4, <3>5
    <3>6. CASE i = Len(res)
      <4>1. r[i + 1] = t BY <1>2, <3>6
      <4>2. res[i].s = "##" => EndsIn(res, "##") BY <3>1, <3>6 DEF EndsIn
      <4>3. res[i].s = "##" => t.s # "##" BY <1>5, <4>2
      <4> QED BY <3>1, <3>2, <4>1, <4>3
    <3> QED BY <3>1, <3>5, <3>6
  <2> QED BY <2>1, <2>2
<1>7. EndsIn(r, "##") => b # <<>> /\ ~BeginsWith(b, "##")
  <2> HAVE EndsIn(r, "##")
  <2>1. t.s = "##" BY <1>2 DEF EndsIn
  <2>2. n = 1 /\ 1 < Len(body) /\ body[2].s # "##" BY <1>5, <2>1
  <2>3. 1 \in 1 .. Len(body) - n /\ n + 1 = 2 BY <2>2
  <2>4. b[1] = body[2] BY <1>1, <2>3
  <2>5. Len(b) # 0 BY <1>1, <2>2
  <2> QED BY <2>2, <2>4, <2>5 DEF BeginsWith
<1>8. BeginsWith(b, "##") => r # <<>> /\ ~EndsIn(r, "##") BY <1>2, <1>7
<1> QED BY <1>3, <1>6, <1>7, <1>8 DEF Halves

(* An argument takes the place of its parameter.                           *)
LEMMA HalvesInsert ==
  ASSUME NEW res \in Seq(Tokens), NEW body \in Seq(Tokens), NEW a \in Seq(Tokens),
         body # <<>>, Halves(res, body), Plain(a),
         a = <<>> => /\ ~EndsIn(res, "##")
                     /\ ~BeginsWith(SubSeq(body, 2, Len(body)), "##")
  PROVE  Halves(res \o a, SubSeq(body, 2, Len(body)))
<1> DEFINE r == res \o a
           b == SubSeq(body, 2, Len(body))
<1>0. Len(body) \in Nat \ {0} /\ 1 + 1 = 2 /\ Len(res) \in Nat /\ Len(a) \in Nat OBVIOUS
<1>1. RightHalf(b) BY <1>0, RightSuffix DEF Halves
<1>2. /\ r \in Seq(Tokens) /\ Len(r) = Len(res) + Len(a)
      /\ \A i \in 1 .. Len(res) : r[i] = res[i]
      /\ \A i \in Len(res) + 1 .. Len(res) + Len(a) : r[i] = a[i - Len(res)]
  BY <1>0, ConcatProperties
<1> HIDE DEF r, b
<1> SUFFICES Halves(r, b) BY DEF r, b
<1>3. CASE a = <<>>
  <2>1. r = res BY <1>3 DEF r
  <2>2. ~EndsIn(res, "##") /\ ~BeginsWith(b, "##") BY <1>3 DEF b
  <2> QED BY <1>1, <2>1, <2>2 DEF Halves
<1>4. CASE a # <<>>
  <2>0. Len(a) \in Nat \ {0} BY <1>4
  <2>1. \A i \in Len(res) + 1 .. Len(r) : r[i].s \notin {"eof", "##"}
    <3> TAKE i \in Len(res) + 1 .. Len(r)
    <3>1. i - Len(res) \in 1 .. Len(a) /\ i \in Len(res) + 1 .. Len(res) + Len(a)
      BY <1>0, <1>2
    <3> QED BY <1>2, <3>1 DEF Plain
  <2>2. LeftHalf(r)
    <3> SUFFICES ASSUME NEW i \in 1 .. Len(r)
                 PROVE  /\ r[i].s # "eof"
                        /\ r[i].s = "##" => i > 1 /\ (i < Len(r) => r[i + 1].s # "##")
      BY DEF LeftHalf
    <3>1. CASE i > Len(res)
      <4>1. i \in Len(res) + 1 .. Len(r) BY <1>0, <3>1
      <4> QED BY <2>1, <4>1
    <3>2. CASE i <= Len(res)
      <4>1. i \in 1 .. Len(res) /\ r[i] = res[i] BY <1>0, <1>2, <3>2
      <4>2. /\ res[i].s # "eof"
            /\ res[i].s = "##" => i > 1 /\ (i < Len(res) => res[i + 1].s # "##")
        BY <4>1 DEF Halves, LeftHalf
      <4>3. CASE i < Len(res)
        <5>1. i + 1 \in 1 .. Len(res) BY <1>0, <4>1, <4>3
        <5>2. r[i + 1] = res[i + 1] BY <1>2, <5>1
        <5> QED BY <4>1, <4>2, <4>3, <5>2
      <4>4. CASE i = Len(res)
        <5>1. i + 1 \in Len(res) + 1 .. Len(r) BY <1>0, <1>2, <2>0, <4>4
        <5> QED BY <2>1, <4>1, <4>2, <5>1
      <4> QED BY <1>0, <3>2, <4>3, <4>4
    <3> QED BY <1>0, <3>1, <3>2
  <2>3. r # <<>> /\ ~EndsIn(r, "##")
    <3>1. Len(r) \in Len(res) + 1 .. Len(r) /\ Len(r) # 0 BY <1>0, <1>2, <2>0
    <3> QED BY <2>1, <3>1 DEF EndsIn
  <2> QED BY <1>1, <2>2, <2>3 DEF Halves
<1> QED BY <1>3, <1>4

LEMMA ThirdOn ==
  ASSUME NEW s \in Seq(Tokens), Len(s) > 1
  PROVE  /\ Len(SubSeq(s, 3, Len(s))) = Len(s) - 2
         /\ \A i \in 1 .. Len(s) - 2 : SubSeq(s, 3, Len(s))[i] = s[2 + i]
<1>1. PICK n \in Nat : n = 2 OBVIOUS
<1>2. n <= Len(s) BY <1>1
<1>3. /\ Len(SubSeq(s, n + 1, Len(s))) = Len(s) - n
      /\ \A i \in 1 .. Len(s) - n : SubSeq(s, n + 1, Len(s))[i] = s[n + i]
  BY <1>2, Suffix
<1>4. n + 1 = 3 BY <1>1
<1> QED BY <1>1, <1>3, <1>4

(* An empty argument goes with the ## after it.                            *)
LEMMA HalvesSkip ==
  ASSUME NEW res \in Seq(Tokens), NEW body \in Seq(Tokens),
         Len(body) > 1, body[2].s = "##", Halves(res, body)
  PROVE  /\ Halves(res, SubSeq(body, 3, Len(body)))
         /\ ~BeginsWith(SubSeq(body, 3, Len(body)), "##")
<1> DEFINE b == SubSeq(body, 3, Len(body))
<1>0. Len(body) \in Nat /\ 2 <= Len(body) /\ 2 \in Nat /\ 2 + 1 = 3 /\ 2 \in 1 .. Len(body)
  OBVIOUS
<1>1. RightHalf(b) BY <1>0, RightSuffix DEF Halves
<1>2. Len(b) = Len(body) - 2 /\ \A i \in 1 .. Len(body) - 2 : b[i] = body[2 + i]
  BY ThirdOn
<1>3. 2 < Len(body) /\ body[2 + 1].s # "##" BY <1>0 DEF Halves, RightHalf
<1>4. 1 \in 1 .. Len(body) - 2 BY <1>0, <1>3
<1>5. b[1] = body[2 + 1] /\ Len(b) # 0 BY <1>0, <1>2, <1>3, <1>4
<1> HIDE DEF b
<1>6. b # <<>> /\ ~BeginsWith(b, "##") BY <1>3, <1>5 DEF BeginsWith
<1>7. Halves(res, b) BY <1>1, <1>6 DEF Halves
<1> QED BY <1>6, <1>7 DEF b

LEMMA FrontIs ==
  ASSUME NEW s \in Seq(Tokens), s # <<>>
  PROVE  /\ Len(s) \in Nat \ {0} /\ Front(s) \in Seq(Tokens) /\ Len(Front(s)) = Len(s) - 1
         /\ \A i \in 1 .. Len(s) - 1 : Front(s)[i] = s[i]
         /\ Last(s) = s[Len(s)]
BY FrontLast

(* The last token of the result goes: a ##, or a comma.                    *)
LEMMA HalvesDrop ==
  ASSUME NEW res \in Seq(Tokens), NEW body \in Seq(Tokens), res # <<>>, Halves(res, body),
         ~EndsIn(Front(res), "##"), ~BeginsWith(body, "##")
  PROVE  Halves(Front(res), body)
<1> DEFINE r == Front(res)
<1>1. /\ Len(res) \in Nat \ {0} /\ r \in Seq(Tokens) /\ Len(r) = Len(res) - 1
      /\ \A i \in 1 .. Len(res) - 1 : r[i] = res[i]
  BY FrontIs
<1> HIDE DEF r
<1>2. LeftHalf(r)
  <2> SUFFICES ASSUME NEW i \in 1 .. Len(r)
               PROVE  /\ r[i].s # "eof"
                      /\ r[i].s = "##" => i > 1 /\ (i < Len(r) => r[i + 1].s # "##")
    BY DEF LeftHalf
  <2>1. i \in 1 .. Len(res) /\ i < Len(res) /\ r[i] = res[i] BY <1>1
  <2>2. /\ res[i].s # "eof"
        /\ res[i].s = "##" => i > 1 /\ (i < Len(res) => res[i + 1].s # "##")
    BY <2>1 DEF Halves, LeftHalf
  <2>3. i < Len(r) => i + 1 \in 1 .. Len(res) - 1 BY <1>1
  <2>4. i < Len(r) => r[i + 1] = res[i + 1] BY <1>1, <2>3
  <2> QED BY <2>1, <2>2, <2>4
<1>3. ~EndsIn(r, "##") BY DEF r
<1> QED BY <1>2, <1>3 DEF Halves, r

(* The ## at the end of the result goes.                                   *)
LEMMA HalvesUnpaste ==
  ASSUME NEW res \in Seq(Tokens), NEW body \in Seq(Tokens), EndsIn(res, "##"),
         Halves(res, body)
  PROVE  res # <<>> /\ Halves(Front(res), body) /\ ~EndsIn(Front(res), "##")
<1> DEFINE r == Front(res)
<1>0. res # <<>> BY DEF EndsIn
<1>1. /\ Len(res) \in Nat \ {0} /\ r \in Seq(Tokens) /\ Len(r) = Len(res) - 1
      /\ \A i \in 1 .. Len(res) - 1 : r[i] = res[i]
  BY <1>0, FrontIs
<1> HIDE DEF r
<1>2. ~EndsIn(r, "##")
  <2> SUFFICES ASSUME r # <<>>, r[Len(r)].s = "##" PROVE FALSE BY DEF EndsIn
  <2>1. Len(r) \in 1 .. Len(res) - 1 /\ Len(r) \in 1 .. Len(res) /\ Len(r) < Len(res)
        /\ Len(r) + 1 = Len(res)
    <3>1. Len(r) # 0 /\ Len(r) \in Nat BY <1>1
    <3> QED BY <1>1, <3>1
  <2>2. res[Len(r)].s = "##" BY <1>1, <2>1
  <2>3. res[Len(r) + 1].s # "##" BY <2>1, <2>2 DEF Halves, LeftHalf
  <2> QED BY <2>1, <2>3 DEF EndsIn
<1>3. ~BeginsWith(body, "##") BY DEF Halves
<1> QED BY <1>0, <1>2, <1>3, HalvesDrop DEF r

LEMMA CommaSuffix ==
  ASSUME NEW s \in Seq(Tokens), NEW n \in Nat, n <= Len(s),
         \A i \in 1 .. Len(s) : ~CommaPasted(s, i)
  PROVE  \A i \in 1 .. Len(SubSeq(s, n + 1, Len(s))) : ~CommaPasted(SubSeq(s, n + 1, Len(s)), i)
<1> DEFINE b == SubSeq(s, n + 1, Len(s))
<1>1. /\ b \in Seq(Tokens) /\ Len(b) = Len(s) - n /\ \A i \in 1 .. Len(s) - n : b[i] = s[n + i]
  BY Suffix
<1> HIDE DEF b
<1> SUFFICES ASSUME NEW i \in 1 .. Len(b), CommaPasted(b, i) PROVE FALSE BY DEF b
<1>0. Len(s) \in Nat /\ i \in 1 .. Len(s) - n /\ i + 2 <= Len(b) BY <1>1 DEF CommaPasted
<1>2. i + 1 \in 1 .. Len(s) - n /\ i + 2 \in 1 .. Len(s) - n BY <1>0, <1>1
<1>3. n + (i + 1) = (n + i) + 1 /\ n + (i + 2) = (n + i) + 2 /\ n + i \in 1 .. Len(s)
      /\ (n + i) + 2 <= Len(s)
  BY <1>0, <1>2
<1>4. b[i] = s[n + i] /\ b[i + 1] = s[(n + i) + 1] /\ b[i + 2] = s[(n + i) + 2]
  BY <1>0, <1>1, <1>2, <1>3
<1>5. CommaPasted(s, n + i) BY <1>3, <1>4 DEF CommaPasted
<1> QED BY <1>3, <1>5

(* The same three moves, for the commas.                                   *)
LEMMA CommaAppend ==
  ASSUME NEW res \in Seq(Tokens), NEW body \in Seq(Tokens), NEW t \in Tokens,
         NEW n \in Nat \ {0}, n <= Len(body), NoCommaPasted(res, body),
         t.s \in {"##", Comma} => n = 1 /\ t = body[1]
  PROVE  NoCommaPasted(Append(res, t), SubSeq(body, n + 1, Len(body)))
<1> DEFINE r == Append(res, t)
           b == SubSeq(body, n + 1, Len(body))
<1>1. /\ b \in Seq(Tokens) /\ Len(b) = Len(body) - n
      /\ \A i \in 1 .. Len(body) - n : b[i] = body[n + i]
  BY Suffix
<1>2. /\ r \in Seq(Tokens) /\ Len(r) = Len(res) + 1 /\ r # <<>> /\ r[Len(res) + 1] = t
      /\ \A i \in 1 .. Len(res) : r[i] = res[i]
  BY Appended
<1>3. \A i \in 1 .. Len(b) : ~CommaPasted(b, i) BY CommaSuffix DEF NoCommaPasted
<1> HIDE DEF r, b
<1> SUFFICES NoCommaPasted(r, b) BY DEF r, b
<1>4. /\ body # <<>> /\ 1 \in 1 .. Len(body) /\ Len(body) \in Nat /\ Len(res) \in Nat
      /\ Len(r) \in Nat
  BY <1>2
<1>5. \A i \in 1 .. Len(r) : ~CommaPasted(r, i)
  <2> SUFFICES ASSUME NEW i \in 1 .. Len(r), CommaPasted(r, i) PROVE FALSE OBVIOUS
  <2>0. /\ i + 2 <= Len(res) + 1 /\ r[i].s = "##" /\ r[i + 1].s = Comma /\ r[i + 2].s = "##"
    BY <1>2 DEF CommaPasted
  <2>1. i \in 1 .. Len(res) /\ i + 1 \in 1 .. Len(res) BY <1>4, <2>0
  <2>2. res[i].s = "##" /\ res[i + 1].s = Comma BY <1>2, <2>0, <2>1
  <2>3. CASE i + 2 <= Len(res)
    <3>1. i + 2 \in 1 .. Len(res) BY <1>4, <2>1, <2>3
    <3>2. CommaPasted(res, i) BY <1>2, <2>0, <2>2, <2>3, <3>1 DEF CommaPasted
    <3> QED BY <2>1, <3>2 DEF NoCommaPasted
  <2>4. CASE i + 2 = Len(res) + 1
    <3>1. i = Len(res) - 1 /\ i + 1 = Len(res) /\ Len(res) >= 2 BY <1>4, <2>1, <2>4
    <3>2. ~BeginsWith(body, "##") BY <2>2, <3>1 DEF NoCommaPasted
    <3>3. t.s = "##" BY <1>2, <2>0, <2>4
    <3> QED BY <1>4, <3>2, <3>3 DEF BeginsWith
  <2> QED BY <1>4, <2>0, <2>3, <2>4
<1>6. EndsIn(r, "##") => ~(Len(b) >= 2 /\ b[1].s = Comma /\ b[2].s = "##")
  <2> SUFFICES ASSUME EndsIn(r, "##"), Len(b) >= 2, b[1].s = Comma, b[2].s = "##" PROVE FALSE
    OBVIOUS
  <2>1. t.s = "##" BY <1>2 DEF EndsIn
  <2>2. n = 1 /\ body[1].s = "##" BY <2>1
  <2>3. 1 \in 1 .. Len(body) - 1 /\ 2 \in 1 .. Len(body) - 1 /\ 1 + 2 <= Len(body)
    BY <1>1, <1>4, <2>2
  <2>4. b[1] = body[1 + 1] /\ b[2] = body[1 + 2] BY <1>1, <2>2, <2>3
  <2>5. CommaPasted(body, 1) BY <2>2, <2>3, <2>4 DEF CommaPasted
  <2> QED BY <1>4, <2>5 DEF NoCommaPasted
<1>7. Len(r) >= 2 /\ r[Len(r) - 1].s = "##" /\ r[Len(r)].s = Comma => ~BeginsWith(b, "##")
  <2> SUFFICES ASSUME Len(r) >= 2, r[Len(r) - 1].s = "##", r[Len(r)].s = Comma,
                      BeginsWith(b, "##")
               PROVE  FALSE
    OBVIOUS
  <2>1. t.s = Comma BY <1>2
  <2>2. n = 1 /\ body[1].s = Comma BY <2>1
  <2>3. Len(res) \in 1 .. Len(res) /\ Len(r) - 1 = Len(res) BY <1>2, <1>4
  <2>4. EndsIn(res, "##") BY <1>2, <2>3 DEF EndsIn
  <2>5. Len(b) # 0 /\ b[1].s = "##" BY <1>1 DEF BeginsWith
  <2>6. 1 \in 1 .. Len(body) - 1 /\ Len(body) >= 2 BY <1>1, <1>4, <2>2, <2>5
  <2>7. b[1] = body[1 + 1] BY <1>1, <2>2, <2>6
  <2> QED BY <2>2, <2>4, <2>5, <2>6, <2>7 DEF NoCommaPasted
<1> QED BY <1>3, <1>5, <1>6, <1>7 DEF NoCommaPasted

LEMMA CommaInsert ==
  ASSUME NEW res \in Seq(Tokens), NEW body \in Seq(Tokens), NEW a \in Seq(Tokens),
         body # <<>>, NoCommaPasted(res, body), Plain(a),
         EndsIn(a, Comma) => ~EndsIn(res, "##"),
         a = <<>> => /\ ~EndsIn(res, "##")
                     /\ ~BeginsWith(SubSeq(body, 2, Len(body)), "##")
  PROVE  NoCommaPasted(res \o a, SubSeq(body, 2, Len(body)))
<1> DEFINE r == res \o a
           b == SubSeq(body, 2, Len(body))
<1>0. Len(body) \in Nat \ {0} /\ 1 + 1 = 2 /\ Len(res) \in Nat /\ Len(a) \in Nat OBVIOUS
<1>1. \A i \in 1 .. Len(b) : ~CommaPasted(b, i) BY <1>0, CommaSuffix DEF NoCommaPasted
<1>2. /\ r \in Seq(Tokens) /\ Len(r) = Len(res) + Len(a)
      /\ \A i \in 1 .. Len(res) : r[i] = res[i]
      /\ \A i \in Len(res) + 1 .. Len(res) + Len(a) : r[i] = a[i - Len(res)]
  BY <1>0, ConcatProperties
<1> HIDE DEF r, b
<1> SUFFICES NoCommaPasted(r, b) BY DEF r, b
<1>3. CASE a = <<>>
  <2>1. r = res BY <1>3 DEF r
  <2>2. ~EndsIn(res, "##") /\ ~BeginsWith(b, "##") BY <1>3 DEF b
  <2> QED BY <1>1, <2>1, <2>2 DEF NoCommaPasted
<1>4. CASE a # <<>>
  <2>0. Len(a) \in Nat \ {0} BY <1>4
  <2>1. \A i \in Len(res) + 1 .. Len(r) : r[i].s \notin {"eof", "##"}
    <3> TAKE i \in Len(res) + 1 .. Len(r)
    <3>1. i - Len(res) \in 1 .. Len(a) /\ i \in Len(res) + 1 .. Len(res) + Len(a)
      BY <1>0, <1>2
    <3> QED BY <1>2, <3>1 DEF Plain
  <2>2. Len(r) \in Len(res) + 1 .. Len(res) + Len(a) /\ Len(r) - Len(res) = Len(a)
        /\ Len(r) \in Len(res) + 1 .. Len(r) /\ Len(r) # 0
    BY <1>0, <1>2, <2>0
  <2>3. r[Len(r)].s = a[Len(a)].s /\ r[Len(r)].s # "##" BY <1>2, <2>1, <2>2
  <2>4. \A i \in 1 .. Len(r) : ~CommaPasted(r, i)
    <3> SUFFICES ASSUME NEW i \in 1 .. Len(r), CommaPasted(r, i) PROVE FALSE OBVIOUS
    <3>0. /\ i + 2 <= Len(r) /\ r[i].s = "##" /\ r[i + 1].s = Comma /\ r[i + 2].s = "##"
      BY DEF CommaPasted
    <3>1. i + 2 <= Len(res)
      <4> SUFFICES ASSUME ~(i + 2 <= Len(res)) PROVE FALSE OBVIOUS
      <4>1. i + 2 \in Len(res) + 1 .. Len(r) BY <1>0, <3>0
      <4> QED BY <2>1, <3>0, <4>1
    <3>2. i \in 1 .. Len(res) /\ i + 1 \in 1 .. Len(res) /\ i + 2 \in 1 .. Len(res)
      BY <1>0, <3>1
    <3>3. CommaPasted(res, i) BY <1>2, <3>0, <3>1, <3>2 DEF CommaPasted
    <3> QED BY <3>2, <3>3 DEF NoCommaPasted
  <2>5. ~EndsIn(r, "##") BY <2>3 DEF EndsIn
  <2>6. Len(r) >= 2 /\ r[Len(r) - 1].s = "##" /\ r[Len(r)].s = Comma => ~BeginsWith(b, "##")
    <3> SUFFICES ASSUME Len(r) >= 2, r[Len(r) - 1].s = "##", r[Len(r)].s = Comma PROVE FALSE
      OBVIOUS
    <3>1. EndsIn(a, Comma) BY <1>4, <2>3 DEF EndsIn
    <3>2. Len(r) - 1 = Len(res)
      <4> SUFFICES ASSUME Len(r) - 1 # Len(res) PROVE FALSE OBVIOUS
      <4>1. Len(r) - 1 \in Len(res) + 1 .. Len(r) BY <1>0, <2>2
      <4> QED BY <2>1, <4>1
    <3>3. Len(res) \in 1 .. Len(res) BY <1>0, <3>2
    <3>4. res[Len(res)].s = "##" BY <1>2, <3>2, <3>3
    <3> QED BY <3>1, <3>3, <3>4 DEF EndsIn
  <2> QED BY <1>1, <2>4, <2>5, <2>6 DEF NoCommaPasted
<1> QED BY <1>3, <1>4

LEMMA CommaSkip ==
  ASSUME NEW res \in Seq(Tokens), NEW body \in Seq(Tokens), Len(body) > 1,
         body[2].s = "##", NoCommaPasted(res, body), Halves(res, body)
  PROVE  NoCommaPasted(res, SubSeq(body, 3, Len(body)))
<1> DEFINE b == SubSeq(body, 3, Len(body))
<1>0. Len(body) \in Nat /\ 2 <= Len(body) /\ 2 \in Nat /\ 2 + 1 = 3 /\ 2 \in 1 .. Len(body)
  OBVIOUS
<1>1. \A i \in 1 .. Len(b) : ~CommaPasted(b, i) BY <1>0, CommaSuffix DEF NoCommaPasted
<1>2. Len(b) = Len(body) - 2 /\ \A i \in 1 .. Len(body) - 2 : b[i] = body[2 + i]
  BY ThirdOn
<1>3. ~BeginsWith(b, "##") BY HalvesSkip
<1> HIDE DEF b
<1>4. ~(Len(b) >= 2 /\ b[1].s = Comma /\ b[2].s = "##")
  <2> SUFFICES ASSUME Len(b) >= 2, b[1].s = Comma, b[2].s = "##" PROVE FALSE OBVIOUS
  <2>1. 1 \in 1 .. Len(body) - 2 /\ 2 \in 1 .. Len(body) - 2 /\ 2 + 2 <= Len(body)
    BY <1>0, <1>2
  <2>2. b[1] = body[2 + 1] /\ b[2] = body[2 + 2] BY <1>2, <2>1
  <2>3. CommaPasted(body, 2) BY <2>1, <2>2 DEF CommaPasted
  <2> QED BY <1>0, <2>3 DEF NoCommaPasted
<1>5. NoCommaPasted(res, b) BY <1>1, <1>3, <1>4 DEF NoCommaPasted
<1> QED BY <1>5 DEF b

LEMMA CommaDrop ==
  ASSUME NEW res \in Seq(Tokens), NEW body \in Seq(Tokens), res # <<>>,
         NoCommaPasted(res, body), ~EndsIn(Front(res), "##"), ~BeginsWith(body, "##")
  PROVE  NoCommaPasted(Front(res), body)
<1> DEFINE r == Front(res)
<1>1. /\ Len(res) \in Nat \ {0} /\ r \in Seq(Tokens) /\ Len(r) = Len(res) - 1
      /\ \A i \in 1 .. Len(res) - 1 : r[i] = res[i]
  BY FrontIs
<1>3. ~EndsIn(r, "##") OBVIOUS
<1> HIDE DEF r
<1>2. \A i \in 1 .. Len(r) : ~CommaPasted(r, i)
  <2> SUFFICES ASSUME NEW i \in 1 .. Len(r), CommaPasted(r, i) PROVE FALSE OBVIOUS
  <2>0. /\ i + 2 <= Len(r) /\ r[i].s = "##" /\ r[i + 1].s = Comma /\ r[i + 2].s = "##"
    BY DEF CommaPasted
  <2>1. /\ i \in 1 .. Len(res) - 1 /\ i + 1 \in 1 .. Len(res) - 1 /\ i + 2 \in 1 .. Len(res) - 1
        /\ i \in 1 .. Len(res) /\ i + 2 <= Len(res)
    BY <1>1, <2>0
  <2>2. CommaPasted(res, i) BY <1>1, <2>0, <2>1 DEF CommaPasted
  <2> QED BY <2>1, <2>2 DEF NoCommaPasted
<1>4. NoCommaPasted(r, body) BY <1>2, <1>3 DEF NoCommaPasted
<1> QED BY <1>4 DEF r

(* When the comma goes too, no ## is left at the end.                      *)
LEMMA CommaGoes ==
  ASSUME NEW res \in Seq(Tokens), NEW body \in Seq(Tokens), EndsIn(res, "##"),
         NoCommaPasted(res, body), EndsIn(Front(res), Comma)
  PROVE  ~EndsIn(Front(Front(res)), "##")
<1> DEFINE k == Front(res)
           r == Front(k)
<1>0. res # <<>> /\ k # <<>> BY DEF EndsIn
<1>1. /\ Len(res) \in Nat \ {0} /\ k \in Seq(Tokens) /\ Len(k) = Len(res) - 1
      /\ \A i \in 1 .. Len(res) - 1 : k[i] = res[i]
  BY <1>0, FrontIs
<1>4. k[Len(k)].s = Comma BY DEF EndsIn
<1> HIDE DEF k
<1>2. /\ Len(k) \in Nat \ {0} /\ r \in Seq(Tokens) /\ Len(r) = Len(k) - 1
      /\ \A i \in 1 .. Len(k) - 1 : r[i] = k[i]
  BY <1>0, <1>1, FrontIs
<1> HIDE DEF r
<1> SUFFICES ASSUME EndsIn(r, "##") PROVE FALSE BY DEF r, k
<1>3. r # <<>> /\ r[Len(r)].s = "##" /\ res[Len(res)].s = "##" BY DEF EndsIn
<1>5. Len(r) # 0 /\ Len(r) \in Nat BY <1>2, <1>3
<1>6. /\ Len(r) \in 1 .. Len(k) - 1 /\ Len(r) + 1 = Len(k) /\ Len(r) + 2 = Len(res)
      /\ Len(r) \in 1 .. Len(res) - 1 /\ Len(r) + 1 \in 1 .. Len(res) - 1
      /\ Len(r) \in 1 .. Len(res) /\ Len(r) + 2 <= Len(res)
  BY <1>1, <1>2, <1>5
<1>7. res[Len(r)].s = "##" /\ res[Len(r) + 1].s = Comma /\ res[Len(r) + 2].s = "##"
  BY <1>1, <1>2, <1>3, <1>4, <1>6
<1>8. CommaPasted(res, Len(r)) BY <1>6, <1>7 DEF CommaPasted
<1> QED BY <1>6, <1>8 DEF NoCommaPasted

-----------------------------------------------------------------------------
(* What a step leaves as it was.                                           *)

SameBodies ==
  /\ macros' = macros /\ Len(mi') = Len(mi)
  /\ \A i \in 1 .. Len(mi) :
       /\ mi'[i].fn = mi[i].fn /\ mi'[i].params = mi[i].params
       /\ mi'[i].variadic = mi[i].variadic /\ mi'[i].body = mi[i].body

LEMMA KeepsBodies ==
  ASSUME mi \in Seq(Infos), macros' = macros,
         \/ mi' = mi
         \/ \E k \in 1 .. Len(mi) : \E b \in BOOLEAN : mi' = [mi EXCEPT ![k].enabled = b]
  PROVE  SameBodies
<1>1. CASE mi' = mi BY <1>1 DEF SameBodies
<1>2. CASE \E k \in 1 .. Len(mi) : \E b \in BOOLEAN : mi' = [mi EXCEPT ![k].enabled = b]
  <2>1. PICK k \in 1 .. Len(mi), b \in BOOLEAN : mi' = [mi EXCEPT ![k].enabled = b] BY <1>2
  <2> DEFINE e == [mi[k] EXCEPT !.enabled = b]
  <2>2. mi[k] \in Infos OBVIOUS
  <2>3. /\ e \in Infos /\ e.fn = mi[k].fn /\ e.params = mi[k].params
        /\ e.variadic = mi[k].variadic /\ e.body = mi[k].body
    BY <2>2 DEF Infos
  <2>4. mi' = [mi EXCEPT ![k] = e] BY <2>1
  <2> HIDE DEF e
  <2>5. Len(mi') = Len(mi) BY <2>3, <2>4, ExceptSeq
  <2>6. \A i \in 1 .. Len(mi) : mi'[i] = IF i = k THEN e ELSE mi[i] BY <2>4
  <2> QED BY <2>3, <2>5, <2>6 DEF SameBodies
<1> QED BY <1>1, <1>2

LEMMA MacroIs ==
  ASSUME StackTyped, NEW n \in Names, macros[n] # 0
  PROVE  macros[n] \in 1 .. Len(mi) /\ mi[macros[n]] \in Infos
<1>1. macros[n] \in Nat /\ macros[n] <= Len(mi) /\ mi \in Seq(Infos) /\ Len(mi) \in Nat
  BY DEF StackTyped
<1>2. macros[n] \in 1 .. Len(mi) BY <1>1
<1> QED BY <1>1, <1>2

LEMMA SameBodiesWhole ==
  ASSUME IInv, Whole, SameBodies
  PROVE  /\ MacrosWhole'
         /\ (inv' = inv \/ inv' = NoInv) => InvWhole'
         /\ subs' = subs => CallsWhole'
<1>0. StackTyped /\ InvOK BY DEF IInv, StackOK
<1>1. MacrosWhole'
  <2> SUFFICES ASSUME NEW n \in Names, macros'[n] # 0 PROVE BodyWhole(mi'[macros'[n]])
    BY DEF MacrosWhole, BodyWhole
  <2>1. macros'[n] = macros[n] /\ macros[n] \in 1 .. Len(mi) BY <1>0, MacroIs DEF SameBodies
  <2>2. BodyWhole(mi[macros[n]]) BY <2>1 DEF Whole, MacrosWhole
  <2> QED BY <2>1, <2>2 DEF BodyWhole, SameBodies
<1>2. inv' = NoInv => InvWhole' BY DEF InvWhole, Reading
<1>3. inv' = inv => InvWhole'
  <2> SUFFICES ASSUME inv' = inv, Reading PROVE InvWhole' BY DEF InvWhole, Reading
  <2>1. inv.id \in 1 .. Len(mi) BY <1>0, InvocationIs
  <2> QED BY <2>1 DEF Whole, InvWhole, SameBodies, Plain, EndsIn
<1>4. subs' = subs => CallsWhole'
  <2> SUFFICES ASSUME subs' = subs, NEW i \in 1 .. Len(subs)
               PROVE  FrameWhole(subs[i], mi'[subs[i].id].params)
    BY DEF CallsWhole
  <2>1. subs[i].id \in 1 .. Len(mi)
    <3>1. subs \in Seq(Frames) /\ subs[i].id <= Len(mi) /\ Len(mi) \in Nat BY <1>0 DEF StackTyped
    <3>2. subs[i] \in Frames BY <3>1
    <3>3. subs[i].id \in Nat \ {0} BY <3>2 DEF Frames
    <3> QED BY <3>1, <3>3
  <2>2. mi'[subs[i].id].params = mi[subs[i].id].params BY <2>1 DEF SameBodies
  <2> QED BY <2>2 DEF Whole, CallsWhole
<1> QED BY <1>1, <1>2, <1>3, <1>4

LEMMA FileTail ==
  ASSUME DataTyped, FileWhole, file # <<>>, file' = Tail(file)
  PROVE  FileWhole'
<1>1. file \in Seq(Items) BY DEF DataTyped
<1>2. /\ Len(Tail(file)) = Len(file) - 1
      /\ \A i \in 1 .. Len(file) - 1 : Tail(file)[i] = file[i + 1]
  BY <1>1, HeadTailProperties
<1>3. Len(file) \in Nat BY <1>1
<1>4. \A i \in 1 .. Len(file) - 1 : i + 1 \in 1 .. Len(file) BY <1>3
<1> QED BY <1>2, <1>4 DEF FileWhole

LEMMA FileRead ==
  ASSUME IInv, Whole, HaveToken, Consume
  PROVE  FileWhole'
<1>1. file' = FileAfter BY DEF Consume
<1>2. CASE stk # <<>> \/ file = <<>> BY <1>1, <1>2 DEF FileAfter, Whole, FileWhole
<1>3. CASE ~(stk # <<>> \/ file = <<>>)
  <2>1. file' = Tail(file) BY <1>1, <1>3 DEF FileAfter
  <2> QED BY <1>3, <2>1, FileTail DEF IInv, Whole
<1> QED BY <1>2, <1>3

-----------------------------------------------------------------------------
(* A token is read.                                                        *)

LEMMA TopIsWhole ==
  ASSUME IInv, Whole, stk # <<>>
  PROVE  /\ LexerWhole(Top) /\ Top \in Lexers /\ Top.toks \in Seq(Tokens) /\ Top.macro \in Nat
         /\ Len(Top.toks) \in Nat
<1>1. Len(stk) \in 1 .. Len(stk) /\ Top = stk[Len(stk)] /\ Top \in Lexers
  BY LastOfStack DEF IInv, StackOK
<1>2. LexerWhole(Top) BY <1>1 DEF Whole, LexersWhole
<1>3. Top.toks \in Seq(Tokens) /\ Top.macro \in Nat BY <1>1 DEF Lexers
<1>4. Len(Top.toks) \in Nat BY <1>3
<1> QED BY <1>1, <1>2, <1>3, <1>4

LEMMA PlainTail ==
  ASSUME NEW toks \in Seq(Tokens), EndsIn(toks, "eof"), AllButLastPlain(toks), toks[1].s # "eof"
  PROVE  EndsIn(Tail(toks), "eof") /\ AllButLastPlain(Tail(toks))
<1>1. toks # <<>> BY DEF EndsIn
<1>2. /\ Tail(toks) \in Seq(Tokens) /\ Len(Tail(toks)) = Len(toks) - 1
      /\ \A i \in 1 .. Len(toks) - 1 : Tail(toks)[i] = toks[i + 1]
  BY <1>1, HeadTailProperties
<1>3. Len(toks) \in Nat \ {0} BY <1>1
<1>4. Len(toks) # 1 BY DEF EndsIn
<1> DEFINE b == Tail(toks)
<1> HIDE DEF b
<1>5. /\ Len(b) \in 1 .. Len(toks) - 1 /\ Len(b) + 1 = Len(toks) /\ Len(b) # 0
      /\ \A i \in 1 .. Len(toks) - 1 : b[i] = toks[i + 1]
  BY <1>2, <1>3, <1>4 DEF b
<1>6. EndsIn(b, "eof") BY <1>5 DEF EndsIn
<1>7. AllButLastPlain(b)
  <2> SUFFICES ASSUME NEW i \in 1 .. Len(b) - 1 PROVE b[i].s \notin {"eof", "##"}
    BY DEF AllButLastPlain
  <2>1. i + 1 \in 1 .. Len(toks) - 1 /\ i \in 1 .. Len(toks) - 1 BY <1>3, <1>5
  <2> QED BY <1>5, <2>1 DEF AllButLastPlain
<1> QED BY <1>6, <1>7 DEF b

LEMMA PasteableTail ==
  ASSUME NEW toks \in Seq(Tokens), toks # <<>>, Pasteable(toks),
         ~(Len(toks) >= 2 /\ toks[2].s = "##")
  PROVE  Pasteable(Tail(toks))
<1>2. /\ Tail(toks) \in Seq(Tokens) /\ Len(Tail(toks)) = Len(toks) - 1
      /\ \A i \in 1 .. Len(toks) - 1 : Tail(toks)[i] = toks[i + 1]
  BY HeadTailProperties
<1>3. Len(toks) \in Nat \ {0} OBVIOUS
<1> DEFINE b == Tail(toks)
<1> HIDE DEF b
<1>4. Len(b) = Len(toks) - 1 /\ \A i \in 1 .. Len(toks) - 1 : b[i] = toks[i + 1] BY <1>2 DEF b
<1> SUFFICES ASSUME NEW i \in 1 .. Len(b)
             PROVE  /\ b[i].s # "eof"
                    /\ b[i].s = "##" => i > 1 /\ i < Len(b) /\ b[i + 1].s # "##"
  BY DEF Pasteable, b
<1>5. i + 1 \in 1 .. Len(toks) /\ i \in 1 .. Len(toks) - 1 /\ b[i] = toks[i + 1] BY <1>3, <1>4
<1>6. /\ toks[i + 1].s # "eof"
      /\ toks[i + 1].s = "##" => i + 1 < Len(toks) /\ toks[(i + 1) + 1].s # "##"
  BY <1>5 DEF Pasteable
<1>7. toks[i + 1].s = "##" => i # 1
  <2> SUFFICES ASSUME i = 1, toks[i + 1].s = "##" PROVE FALSE OBVIOUS
  <2>1. Len(toks) >= 2 /\ i + 1 = 2 BY <1>3, <1>5
  <2> QED BY <2>1
<1>8. i + 1 < Len(toks) => i + 1 \in 1 .. Len(toks) - 1 /\ i < Len(b) BY <1>3, <1>4
<1>9. i + 1 < Len(toks) => b[i + 1] = toks[(i + 1) + 1] BY <1>4, <1>8
<1>10. i # 1 => i > 1 BY <1>5
<1> QED BY <1>5, <1>6, <1>7, <1>8, <1>9, <1>10

LEMMA TokenRead ==
  ASSUME IInv, Whole, HaveToken
  PROVE  /\ stk # <<>> => Token.s # "##"
         /\ stk # <<>> /\ Token.s = "eof" => Top.macro = 0 /\ Len(Top.toks) = 1
         /\ stk # <<>> /\ subs = <<>> => Token.s # "eof"
         /\ stk = <<>> /\ file # <<>> => Token.s # "eof"
         /\ \A i \in 1 .. Len(stk) - 1 : LexerWhole(StkAfter[i])
         /\ Token.s # "eof" => \A i \in 1 .. Len(stk) : LexerWhole(StkAfter[i])
<1>0. StackTyped BY DEF IInv, StackOK
<1>1. CASE stk = <<>>
  <2>1. Len(stk) = 0 /\ 1 .. Len(stk) = {} /\ 1 .. Len(stk) - 1 = {} BY <1>1
  <2>2. file # <<>> => Token.s # "eof"
    <3> HAVE file # <<>>
    <3>1. file \in Seq(Items) BY DEF IInv, DataTyped
    <3>2. 1 \in 1 .. Len(file) /\ Head(file) = file[1] BY <3>1
    <3>3. Head(file).name # "eof" BY <3>2 DEF Whole, FileWhole
    <3>4. Token = Tok(Head(file).name) BY <1>1 DEF Token
    <3> QED BY <3>3, <3>4 DEF Tok
  <2> QED BY <1>1, <2>1, <2>2
<1>2. CASE stk # <<>>
  <2>1. /\ LexerWhole(Top) /\ Top \in Lexers /\ Top.toks \in Seq(Tokens) /\ Top.macro \in Nat
        /\ Len(Top.toks) \in Nat
    BY <1>2, TopIsWhole
  <2>2. Top.toks # <<>> /\ ~(Len(Top.toks) >= 2 /\ Top.toks[2].s = "##")
    BY <1>2 DEF HaveToken, PasteIsNext
  <2>3. Token = Top.toks[1] /\ Len(Top.toks) \in Nat \ {0} /\ 1 \in 1 .. Len(Top.toks)
    BY <1>2, <2>1, <2>2 DEF Token
  <2> DEFINE rest == [Top EXCEPT !.toks = Tail(@)]
  <2>4. rest.toks = Tail(Top.toks) /\ rest.macro = Top.macro BY <2>1 DEF Lexers
  <2>5. StkAfter = [stk EXCEPT ![Len(stk)] = rest]
    <3>1. Top = stk[Len(stk)] BY <1>0, <1>2, LastOfStack
    <3> QED BY <1>2, <3>1 DEF StkAfter
  <2> HIDE DEF rest
  <2>6. /\ Token.s # "##"
        /\ Token.s = "eof" => Top.macro = 0 /\ Len(Top.toks) = 1
        /\ Token.s # "eof" => LexerWhole(rest)
    <3>1. CASE Top.macro = 0
      <4>1. EndsIn(Top.toks, "eof") /\ AllButLastPlain(Top.toks) BY <2>1, <3>1 DEF LexerWhole
      <4>2. Len(Top.toks) = 1 \/ 1 \in 1 .. Len(Top.toks) - 1
        <5>1. PICK n \in Nat \ {0} : n = Len(Top.toks) BY <2>3
        <5>2. n = 1 \/ 1 \in 1 .. n - 1 OBVIOUS
        <5> QED BY <5>1, <5>2
      <4>3. Len(Top.toks) # 1 => Token.s \notin {"eof", "##"}
        BY <2>3, <4>1, <4>2 DEF AllButLastPlain
      <4>4. Len(Top.toks) = 1 => Token.s = "eof" BY <2>3, <4>1 DEF EndsIn
      <4>5. Token.s # "eof" => LexerWhole(rest)
        <5> HAVE Token.s # "eof"
        <5>1. EndsIn(Tail(Top.toks), "eof") /\ AllButLastPlain(Tail(Top.toks))
          BY <2>1, <2>3, <4>1, PlainTail
        <5> QED BY <2>4, <3>1, <5>1 DEF LexerWhole
      <4>6. Token.s # "##" BY <4>3, <4>4
      <4> QED BY <3>1, <4>3, <4>5, <4>6
    <3>2. CASE Top.macro # 0
      <4>1. Pasteable(Top.toks) BY <2>1, <3>2 DEF LexerWhole
      <4>2. Token.s \notin {"eof", "##"} BY <2>3, <4>1 DEF Pasteable
      <4>3. Pasteable(Tail(Top.toks)) BY <2>1, <2>2, <4>1, PasteableTail
      <4>4. LexerWhole(rest) BY <2>4, <3>2, <4>3 DEF LexerWhole
      <4> QED BY <4>2, <4>4
    <3> QED BY <3>1, <3>2
(* A stream on top is the argument of a call.                              *)
  <2>7. subs = <<>> => Token.s # "eof"
    <3> SUFFICES ASSUME subs = <<>>, Top.macro = 0 PROVE FALSE BY <2>6
    <3>1. Len(stk) \in 1 .. Len(stk) /\ stk[Len(stk)].macro = 0 BY <1>0, <1>2, LastOfStack
    <3>2. PICK at \in [Expanding -> 1 .. Len(stk)] : StreamsAt(at)
      BY DEF IInv, StackOK, StreamsInOrder
    <3>3. PICK i \in Expanding : at[i] = Len(stk) BY <3>1, <3>2 DEF StreamsAt
    <3>4. Len(subs) = 0 /\ 1 .. Len(subs) = {} OBVIOUS
    <3> QED BY <3>3, <3>4 DEF Expanding
  <2>8. /\ stk \in Seq(Lexers) /\ Len(stk) \in Nat \ {0}
        /\ \A i \in 1 .. Len(stk) : LexerWhole(stk[i])
        /\ \A i \in 1 .. Len(stk) : StkAfter[i] = IF i = Len(stk) THEN rest ELSE stk[i]
    <3>1. stk \in Seq(Lexers) BY <1>0 DEF StackTyped
    <3>2. Len(stk) \in Nat \ {0} BY <1>0, <1>2, LastOfStack
    <3>3. \A i \in 1 .. Len(stk) : LexerWhole(stk[i]) BY DEF Whole, LexersWhole
    <3> QED BY <2>5, <3>1, <3>2, <3>3
  <2>9. \A i \in 1 .. Len(stk) - 1 : i \in 1 .. Len(stk) /\ i # Len(stk) BY <2>8
  <2>10. \A i \in 1 .. Len(stk) - 1 : LexerWhole(StkAfter[i]) BY <2>8, <2>9
  <2>11. Token.s # "eof" => \A i \in 1 .. Len(stk) : LexerWhole(StkAfter[i]) BY <2>6, <2>8
  <2> QED BY <1>2, <2>6, <2>7, <2>10, <2>11
<1> QED BY <1>1, <1>2

(* A token that is not eof leaves every lexer whole.                       *)
LEMMA AfterWhole ==
  ASSUME IInv, Whole, HaveToken, stk' = StkAfter, stk = <<>> \/ Token.s # "eof"
  PROVE  LexersWhole'
<1>1. Len(StkAfter) = Len(stk) BY AfterToken DEF IInv, StackOK
<1>2. CASE stk = <<>>
  <2>1. 1 .. Len(stk) = {} BY <1>2
  <2> QED BY <1>1, <2>1 DEF LexersWhole
<1>3. CASE Token.s # "eof" BY <1>1, <1>3, TokenRead DEF LexersWhole
<1> QED BY <1>2, <1>3

LEMMA AppendPlain ==
  ASSUME NEW s \in Seq(Tokens), Plain(s), NEW t \in Tokens
  PROVE  /\ AllButLastPlain(Append(s, t))
         /\ t.s \notin {"eof", "##"} => Plain(Append(s, t))
         /\ t.s = "eof" => EndsIn(Append(s, t), "eof")
<1> DEFINE a == Append(s, t)
<1>1. /\ a \in Seq(Tokens) /\ Len(a) = Len(s) + 1 /\ a # <<>> /\ a[Len(s) + 1] = t
      /\ \A i \in 1 .. Len(s) : a[i] = s[i]
  BY Appended
<1> HIDE DEF a
<1>2. Len(s) \in Nat OBVIOUS
<1>3. \A i \in 1 .. Len(a) - 1 : i \in 1 .. Len(s) BY <1>1, <1>2
<1>4. AllButLastPlain(a) BY <1>1, <1>3 DEF AllButLastPlain, Plain
<1>5. \A i \in 1 .. Len(a) : i \in 1 .. Len(s) \/ i = Len(s) + 1 BY <1>1, <1>2
<1>6. t.s \notin {"eof", "##"} => Plain(a) BY <1>1, <1>5 DEF Plain
<1>7. t.s = "eof" => EndsIn(a, "eof") BY <1>1 DEF EndsIn
<1> QED BY <1>4, <1>6, <1>7 DEF a

(* What a call whose argument is expanded makes of the token.              *)
LEMMA FrameDelivered ==
  ASSUME NEW f \in Frames, f.pre # 0, NEW ps, FrameWhole(f, ps), NEW t \in Tokens, t.s # "##",
         NEW g, g = [f EXCEPT !.pres[f.pre] = Append(@, t),
                              !.pre = IF t.s = "eof" THEN 0 ELSE @]
  PROVE  FrameWhole(g, ps)
<1> DEFINE p == [f.pres EXCEPT ![f.pre] = Append(f.pres[f.pre], t)]
           z == IF t.s = "eof" THEN 0 ELSE f.pre
<1>1. f.pre \in 1 .. Len(f.pres) /\ f.pres \in Seq(Seq(Tokens)) /\ f.pres[f.pre] \in Seq(Tokens)
  BY DEF Frames
<1>2. AllButLastPlain(f.pres[f.pre]) /\ Plain(f.pres[f.pre]) BY <1>1 DEF FrameWhole
<1>3. /\ AllButLastPlain(Append(f.pres[f.pre], t))
      /\ t.s # "eof" => Plain(Append(f.pres[f.pre], t))
  BY <1>1, <1>2, AppendPlain
<1>4. Append(f.pres[f.pre], t) \in Seq(Tokens) BY <1>1
<1>5. /\ Len(p) = Len(f.pres)
      /\ \A k \in 1 .. Len(f.pres) :
           p[k] = IF k = f.pre THEN Append(f.pres[f.pre], t) ELSE f.pres[k]
  BY <1>1, <1>4, ExceptSeq
<1>6. g = [f EXCEPT !.pres = p, !.pre = z] BY DEF Frames
<1>7. z = 0 \/ (z = f.pre /\ t.s # "eof") OBVIOUS
<1> HIDE DEF p, z
<1>8. /\ g.args = f.args /\ g.res = f.res /\ g.body = f.body /\ g.elided = f.elided
      /\ g.pres = p /\ g.pre = z
  BY <1>6 DEF Frames
<1>9. \A k \in 1 .. Len(p) : AllButLastPlain(p[k]) /\ (k = z => Plain(p[k]))
  <2> TAKE k \in 1 .. Len(p)
  <2>1. AllButLastPlain(f.pres[k]) BY <1>5 DEF FrameWhole
  <2>2. k # 0 OBVIOUS
  <2> QED BY <1>3, <1>5, <1>7, <2>1, <2>2
<1> QED BY <1>8, <1>9 DEF FrameWhole

LEMMA DeliverWhole ==
  ASSUME IInv, Whole, HaveToken, NEW t \in Tokens, Deliver(t), mi' = mi,
         t.s = "eof" <=> Token.s = "eof", subs # <<>> => t.s # "##"
  PROVE  LexersWhole' /\ CallsWhole' /\ NoFault'
<1>0. /\ StackTyped /\ ~Substituting /\ stk \in Seq(Lexers) /\ subs \in Seq(Frames)
      /\ StackOK /\ InvOK /\ fault = "none"
  BY DEF IInv, StackOK, StackTyped, HaveToken, Lexing, Running
<1>1. CASE subs = <<>>
  <2>1. stk' = StkAfter /\ subs' = subs /\ fault' = fault BY <1>1 DEF Deliver
  <2>2. stk = <<>> \/ Token.s # "eof" BY <1>1, TokenRead
  <2>3. LexersWhole' BY <2>1, <2>2, AfterWhole
  <2>4. CallsWhole'
    <3>1. 1 .. Len(subs) = {} BY <1>1
    <3> QED BY <2>1, <3>1 DEF CallsWhole
  <2> QED BY <1>0, <2>1, <2>3, <2>4 DEF NoFault
<1>2. CASE subs # <<>>
  <2>1. stk # <<>> BY <1>0, <1>2, NoLexersNoCalls
  <2>2. t.s = "eof" => Top.macro = 0 /\ Len(Top.toks) = 1 BY <2>1, TokenRead
  <2> DEFINE f == Last(subs)
             g == [f EXCEPT !.pres[f.pre] = Append(@, t),
                            !.pre = IF t.s = "eof" THEN 0 ELSE @]
  <2>3. /\ subs' = [subs EXCEPT ![Len(subs)] = g] /\ fault' = fault
        /\ stk' = IF t.s = "eof" THEN Front(StkAfter) ELSE StkAfter
    BY <1>2, <2>2 DEF Deliver
  <2>4. Len(subs) \in Nat \ {0} /\ f = subs[Len(subs)] /\ f \in Frames
    BY <1>0, <1>2, FrontLast
  <2>5. f.pre # 0
    <3>1. Len(subs) \in 1 .. Len(subs) BY <2>4
    <3>2. \A i \in 1 .. Len(subs) : subs[i].pre # 0 BY <1>0, LexingExpands DEF StackOK, InvOK
    <3> QED BY <2>4, <3>1, <3>2
  <2>6. \A i \in 1 .. Len(subs) : FrameWhole(subs[i], mi[subs[i].id].params)
    BY DEF Whole, CallsWhole
  <2>7. g.id = f.id BY <2>4 DEF Frames
  <2>8. FrameWhole(g, mi[f.id].params)
    <3>1. Len(subs) \in 1 .. Len(subs) BY <2>4
    <3>2. FrameWhole(f, mi[f.id].params) BY <2>4, <2>6, <3>1
    <3> HIDE DEF f, g
    <3>3. g = [f EXCEPT !.pres[f.pre] = Append(@, t), !.pre = IF t.s = "eof" THEN 0 ELSE @]
      BY DEF g
    <3> QED BY <1>2, <2>4, <2>5, <3>2, <3>3, FrameDelivered
  <2> HIDE DEF f, g
  <2>9. /\ Len(subs') = Len(subs)
        /\ \A i \in 1 .. Len(subs) : subs'[i] = IF i = Len(subs) THEN g ELSE subs[i]
    BY <1>0, <2>3, <2>4
  <2>10. CallsWhole' BY <2>4, <2>6, <2>7, <2>8, <2>9 DEF CallsWhole
  <2>11. LexersWhole'
    <3>1. CASE t.s # "eof"
      <4>1. stk' = StkAfter BY <2>3, <3>1
      <4> QED BY <3>1, <4>1, AfterWhole
    <3>2. CASE t.s = "eof"
      <4>1. StkAfter \in Seq(Lexers) /\ Len(StkAfter) = Len(stk) BY <1>0, AfterToken DEF IInv
      <4>2. Len(stk) \in Nat \ {0} BY <1>0, <2>1, LastOfStack
      <4>3. StkAfter # <<>> BY <4>1, <4>2
      <4>4. /\ Len(stk') = Len(stk) - 1
            /\ \A i \in 1 .. Len(stk) - 1 : stk'[i] = StkAfter[i]
        BY <2>3, <3>2, <4>1, <4>3, FrontLast
      <4> QED BY <4>4, TokenRead DEF LexersWhole
    <3> QED BY <3>1, <3>2
  <2> QED BY <1>0, <2>3, <2>10, <2>11 DEF NoFault
<1> QED BY <1>1, <1>2

-----------------------------------------------------------------------------
(* A macro is entered.                                                     *)

LEMMA BodyConforms ==
  ASSUME Conforming, NEW n \in Names, macros[n] # 0, NEW b, b = mi[macros[n]].body,
         NEW i \in DOMAIN b, i <= Len(b), b[i].s = "##"
  PROVE  /\ ~(i + 1 <= Len(b) /\ b[i + 1].s = "##")
         /\ mi[macros[n]].variadic =>
              ~(i + 1 <= Len(b) /\ b[i + 1].s = Comma /\ i + 2 <= Len(b) /\ b[i + 2].s = "##")
BY Zenon DEF Conforming, Comma

LEMMA BodyIsWhole ==
  ASSUME IInv, Whole, Conforming, NEW n \in Names, macros[n] # 0,
         NEW b, b = mi[macros[n]].body
  PROVE  /\ b \in Seq(Tokens) /\ Halves(<<>>, b) /\ Pasteable(b)
         /\ mi[macros[n]].variadic => NoCommaPasted(<<>>, b)
<1>1. mi[macros[n]] \in Infos BY MacroIs DEF IInv, StackOK
<1>2. b \in Seq(Tokens) /\ Len(b) \in Nat
  <2>1. mi[macros[n]].body \in Seq(Tokens) BY <1>1 DEF Infos
  <2> QED BY <2>1
<1>3. /\ \A j \in 1 .. Len(b) : b[j].s # "eof"
      /\ ~BeginsWith(b, "##") /\ ~EndsIn(b, "##")
  BY DEF Whole, MacrosWhole, BodyWhole
<1>4. \A i \in 1 .. Len(b) : b[i].s = "##" => i > 1 /\ i < Len(b) /\ b[i + 1].s # "##"
  <2> SUFFICES ASSUME NEW i \in 1 .. Len(b), b[i].s = "##"
               PROVE  i > 1 /\ i < Len(b) /\ b[i + 1].s # "##"
    OBVIOUS
  <2>1. b # <<>> BY <1>2
  <2>2. i # 1 /\ i # Len(b) BY <1>3, <2>1 DEF BeginsWith, EndsIn
  <2>3. i > 1 /\ i < Len(b) /\ i + 1 <= Len(b) /\ i <= Len(b) /\ i \in DOMAIN b
    BY <1>2, <2>2
  <2> QED BY <2>3, BodyConforms
<1>5. Pasteable(b) BY <1>3, <1>4 DEF Pasteable
<1>6. Len(<<>>) = 0 /\ 1 .. Len(<<>>) = {} OBVIOUS
<1>7. Halves(<<>>, b) BY <1>3, <1>4, <1>6 DEF Halves, LeftHalf, RightHalf, EndsIn
<1>8. mi[macros[n]].variadic => NoCommaPasted(<<>>, b)
  <2> HAVE mi[macros[n]].variadic
  <2>1. \A i \in 1 .. Len(b) : ~CommaPasted(b, i)
    <3> SUFFICES ASSUME NEW i \in 1 .. Len(b), CommaPasted(b, i) PROVE FALSE OBVIOUS
    <3>1. /\ i + 2 <= Len(b) /\ b[i].s = "##" /\ b[i + 1].s = Comma /\ b[i + 2].s = "##"
      BY DEF CommaPasted
    <3>2. i <= Len(b) /\ i \in DOMAIN b /\ i + 1 <= Len(b) BY <1>2, <3>1
    <3> QED BY <3>1, <3>2, BodyConforms
  <2> QED BY <1>6, <2>1 DEF NoCommaPasted, EndsIn
<1> QED BY <1>2, <1>5, <1>7, <1>8

LEMMA LexerPushed ==
  ASSUME NEW s \in Seq(Lexers), \A i \in 1 .. Len(s) : LexerWhole(s[i]),
         NEW l \in Lexers, LexerWhole(l), stk' = Append(s, l)
  PROVE  LexersWhole'
<1>1. /\ Len(stk') = Len(s) + 1 /\ stk'[Len(s) + 1] = l
      /\ \A i \in 1 .. Len(s) : stk'[i] = s[i]
  BY Appended
<1>2. Len(s) \in Nat OBVIOUS
<1>3. \A i \in 1 .. Len(stk') : i \in 1 .. Len(s) \/ i = Len(s) + 1 BY <1>1, <1>2
<1> QED BY <1>1, <1>3 DEF LexersWhole

(* The arguments that a macro is given.                                    *)
Given(m, args, elided) ==
  /\ m.fn => Len(m.params) <= Len(args)
  /\ \A k \in 1 .. Len(args) : Plain(args[k])
  /\ elided => m.variadic /\ \A k \in 1 .. Len(args) : ~EndsIn(args[k], Comma)

LEMMA FrameEntered ==
  ASSUME IInv, Whole, Conforming, NEW n \in Names, macros[n] # 0, mi[macros[n]].fn,
         NEW args \in Seq(Seq(Tokens)), NEW elided \in BOOLEAN,
         Given(mi[macros[n]], args, elided),
         NEW f, f = [id |-> macros[n], args |-> args, elided |-> elided,
                     body |-> mi[macros[n]].body, res |-> <<>>, pre |-> 0,
                     pres |-> [k \in DOMAIN args |-> <<>>]]
  PROVE  f \in Frames /\ FrameWhole(f, mi[macros[n]].params)
<1> DEFINE m == mi[macros[n]]
           p == [k \in DOMAIN args |-> <<>>]
<1>1. macros[n] \in Nat \ {0}
  <2>1. macros[n] \in 1 .. Len(mi) BY MacroIs DEF IInv, StackOK
  <2> QED BY <2>1
<1>2. /\ m.body \in Seq(Tokens) /\ Halves(<<>>, m.body)
      /\ m.variadic => NoCommaPasted(<<>>, m.body)
  BY BodyIsWhole
<1>3. Stringifies(m.body, m.params) BY DEF Whole, MacrosWhole, BodyWhole
<1>4. <<>> \in Seq(Tokens) /\ DOMAIN args = 1 .. Len(args) /\ Len(args) \in Nat OBVIOUS
<1>5. p \in Seq(Seq(Tokens)) /\ Len(p) = Len(args) /\ \A k \in 1 .. Len(p) : p[k] = <<>>
  BY <1>4
<1>6. Plain(<<>>) /\ AllButLastPlain(<<>>)
  <2>1. Len(<<>>) = 0 /\ 1 .. 0 = {} /\ 1 .. 0 - 1 = {} OBVIOUS
  <2> QED BY <2>1 DEF Plain, AllButLastPlain
<1>7. /\ m.fn /\ Len(m.params) <= Len(args) /\ \A k \in 1 .. Len(args) : Plain(args[k])
      /\ elided => m.variadic /\ \A k \in 1 .. Len(args) : ~EndsIn(args[k], Comma)
  BY DEF Given
<1> HIDE DEF m, p
<1>8. f = [id |-> macros[n], args |-> args, elided |-> elided, body |-> m.body, res |-> <<>>,
           pre |-> 0, pres |-> p]
  BY DEF m, p
<1>9. f \in Frames BY <1>1, <1>2, <1>4, <1>5, <1>8 DEF Frames
<1>10. /\ f.args = args /\ f.elided = elided /\ f.body = m.body /\ f.res = <<>> /\ f.pres = p
  BY <1>8
<1>11. FrameWhole(f, m.params)
  BY <1>2, <1>3, <1>5, <1>6, <1>7, <1>10 DEF FrameWhole
<1> QED BY <1>9, <1>11 DEF m

LEMMA EnterWhole ==
  ASSUME IInv, Whole, Conforming, HaveToken, MacrosTakeTurns', macros' = macros,
         NEW n \in Names, macros[n] # 0, stk = <<>> \/ Token.s # "eof",
         NEW args \in Seq(Seq(Tokens)), NEW elided \in BOOLEAN,
         Given(mi[macros[n]], args, elided), EnterMacro(n, args, elided)
  PROVE  LexersWhole' /\ CallsWhole' /\ NoFault' /\ SameBodies
<1> DEFINE id == macros[n]
<1>0. StackTyped /\ fault = "none" /\ mi \in Seq(Infos) /\ subs \in Seq(Frames)
  BY DEF IInv, StackOK, StackTyped, HaveToken, Lexing, Running
<1>1. id \in 1 .. Len(mi) /\ MacroOf(n) = id BY <1>0, MacroIs DEF MacroOf
<1>2. CASE mi[id].fn /\ mi[id].params # <<>>
  <2> DEFINE f == [id |-> id, args |-> args, elided |-> elided, body |-> mi[id].body,
                   res |-> <<>>, pre |-> 0, pres |-> [k \in DOMAIN args |-> <<>>]]
  <2>1. subs' = Append(subs, f) /\ stk' = StkAfter /\ mi' = mi /\ fault' = fault
    BY <1>1, <1>2 DEF EnterMacro
  <2>2. f \in Frames /\ FrameWhole(f, mi[id].params) BY <1>2, FrameEntered
  <2>3. f.id = id OBVIOUS
  <2> HIDE DEF f
  <2>4. /\ Len(subs') = Len(subs) + 1 /\ subs'[Len(subs) + 1] = f
        /\ \A i \in 1 .. Len(subs) : subs'[i] = subs[i]
    BY <1>0, <2>1, <2>2, Appended
  <2>5. \A i \in 1 .. Len(subs') : i \in 1 .. Len(subs) \/ i = Len(subs) + 1
    <3>1. Len(subs) \in Nat BY <1>0
    <3> QED BY <2>4, <3>1
  <2>6. \A i \in 1 .. Len(subs) : FrameWhole(subs[i], mi[subs[i].id].params)
    BY DEF Whole, CallsWhole
  <2>7. CallsWhole' BY <2>1, <2>2, <2>3, <2>4, <2>5, <2>6 DEF CallsWhole
  <2>8. LexersWhole' BY <2>1, AfterWhole
  <2>9. SameBodies BY <1>0, <2>1, KeepsBodies
  <2> QED BY <1>0, <2>1, <2>7, <2>8, <2>9 DEF NoFault
<1>3. CASE ~(mi[id].fn /\ mi[id].params # <<>>)
  <2> DEFINE l == [macro |-> id, toks |-> mi[id].body]
  <2>1. /\ mi' = [mi EXCEPT ![id].enabled = FALSE] /\ subs' = subs
        /\ stk' = Append(StkAfter, l)
        /\ fault' = IF mi[id].enabled THEN fault
                    ELSE "Cannot disable an already-disabled macro!"
    BY <1>1, <1>3 DEF EnterMacro
  <2>2. Pasteable(mi[id].body) /\ mi[id].body \in Seq(Tokens) BY BodyIsWhole
  <2>3. l \in Lexers /\ l.macro # 0 /\ l.toks = mi[id].body BY <1>1, <2>2 DEF Lexers
  <2> HIDE DEF l
  <2>4. LexerWhole(l) BY <2>2, <2>3 DEF LexerWhole
  <2>5. StkAfter \in Seq(Lexers) /\ \A i \in 1 .. Len(StkAfter) : LexerWhole(StkAfter[i])
    <3>1. StkAfter \in Seq(Lexers) /\ Len(StkAfter) = Len(stk)
      BY <1>0, AfterToken DEF IInv
    <3>2. CASE stk = <<>>
      <4>1. 1 .. Len(stk) = {} BY <3>2
      <4> QED BY <3>1, <4>1
    <3>3. CASE Token.s # "eof" BY <3>1, <3>3, TokenRead
    <3> QED BY <3>2, <3>3
  <2>6. LexersWhole' BY <2>1, <2>3, <2>4, <2>5, LexerPushed
  <2>7. SameBodies BY <1>0, <1>1, <2>1, KeepsBodies
  <2>8. CallsWhole' BY <2>1, <2>7, SameBodiesWhole
  <2>9. NoFault' BY <1>0, <2>1 DEF NoFault, MacrosTakeTurns
  <2> QED BY <2>6, <2>7, <2>8, <2>9
<1> QED BY <1>2, <1>3

LEMMA ExpandWhole ==
  ASSUME IInv, Whole, Conforming, HaveToken, MacrosTakeTurns', macros' = macros,
         NEW n \in Names, macros[n] # 0, Token.s # "eof",
         NEW args \in Seq(Seq(Tokens)), NEW elided \in BOOLEAN,
         Given(mi[macros[n]], args, elided), ExpandBody(macros[n], n, args, elided)
  PROVE  LexersWhole' /\ CallsWhole' /\ NoFault' /\ SameBodies
<1> DEFINE body == mi[macros[n]].body
<1>0. fault = "none" /\ mi \in Seq(Infos)
  BY DEF IInv, StackOK, StackTyped, HaveToken, Lexing, Running
<1>1. CASE body = <<>>
  <2>1. stk' = StkAfter /\ mi' = mi /\ subs' = subs /\ fault' = fault
    BY <1>1 DEF ExpandBody
  <2>2. SameBodies BY <1>0, <2>1, KeepsBodies
  <2>3. LexersWhole' BY <2>1, AfterWhole
  <2>4. CallsWhole' BY <2>1, <2>2, SameBodiesWhole
  <2> QED BY <1>0, <2>1, <2>2, <2>3, <2>4 DEF NoFault
<1>2. CASE body # <<>> /\ Len(body) = 1 /\ Trivial(macros[n], n)
  <2> DEFINE x == MacroOf(body[1].s) = macros[n]
             t == [body[1] EXCEPT !.ne = @ \/ x]
  <2>1. Deliver(t) /\ mi' = mi BY <1>2 DEF ExpandBody
  <2>2. body \in Seq(Tokens) /\ Pasteable(body) BY BodyIsWhole
  <2>3. 1 \in 1 .. Len(body) /\ body[1] \in Tokens BY <1>2, <2>2
  <2>4. body[1].s \notin {"eof", "##"} BY <2>3, <2>2 DEF Pasteable
  <2>5. x \in BOOLEAN OBVIOUS
  <2> HIDE DEF x, body
  <2>6. t \in Tokens /\ t.s = body[1].s BY <2>3, <2>5, MarkedToken DEF Tokens
  <2> HIDE DEF t
  <2>7. LexersWhole' /\ CallsWhole' /\ NoFault' BY <2>1, <2>4, <2>6, DeliverWhole
  <2>8. SameBodies BY <1>0, <2>1, KeepsBodies
  <2> QED BY <2>7, <2>8
<1>3. CASE body # <<>> /\ ~(Len(body) = 1 /\ Trivial(macros[n], n))
  <2>1. EnterMacro(n, args, elided) BY <1>3 DEF ExpandBody
  <2> QED BY <2>1, EnterWhole
<1> QED BY <1>1, <1>2, <1>3

-----------------------------------------------------------------------------
(* The actions.                                                            *)

LEMMA PopWhole ==
  ASSUME IInv, Whole, MacrosTakeTurns', PopTokenLexer
  PROVE  Whole'
<1>0. StackTyped /\ stk # <<>> /\ Top.toks = <<>> /\ mi \in Seq(Infos)
  BY DEF IInv, StackOK, StackTyped, PopTokenLexer
<1>1. Top.macro # 0
  <2>1. LexerWhole(Top) BY <1>0, TopIsWhole
  <2> QED BY <1>0, <2>1 DEF LexerWhole, EndsIn
<1>2. ~mi[Top.macro].enabled
  <2> SUFFICES ASSUME mi[Top.macro].enabled PROVE FALSE OBVIOUS
  <2>1. Fail("Cannot enable an already-enabled macro!") BY <1>1 DEF PopTokenLexer
  <2> QED BY <2>1 DEF Fail, MacrosTakeTurns
<1>3. /\ mi' = [mi EXCEPT ![Top.macro].enabled = TRUE] /\ stk' = Front(stk)
      /\ UNCHANGED <<file, macros, subs, inv, fault>>
  BY <1>1, <1>2 DEF PopTokenLexer
<1>4. Top.macro \in 1 .. Len(mi)
  <2>1. Top.macro \in Nat BY <1>0, TopIsWhole
  <2>2. Top = stk[Len(stk)] /\ Len(stk) \in 1 .. Len(stk) BY <1>0, LastOfStack
  <2>3. Top.macro <= Len(mi) /\ Len(mi) \in Nat BY <1>0, <2>2 DEF StackTyped
  <2> QED BY <1>1, <2>1, <2>3
<1>5. SameBodies BY <1>0, <1>3, <1>4, KeepsBodies
<1>6. MacrosWhole' /\ InvWhole' /\ CallsWhole' BY <1>3, <1>5, SameBodiesWhole
<1>7. LexersWhole'
  <2>1. /\ Len(stk') = Len(stk) - 1 /\ Len(stk) \in Nat
        /\ \A i \in 1 .. Len(stk) - 1 : stk'[i] = stk[i]
    BY <1>0, <1>3, LastOfStack
  <2>2. \A i \in 1 .. Len(stk) - 1 : i \in 1 .. Len(stk) BY <2>1
  <2> QED BY <2>1, <2>2 DEF Whole, LexersWhole
<1>8. FileWhole' /\ NoFault' BY <1>3 DEF Whole, FileWhole, NoFault
<1> QED BY <1>6, <1>7, <1>8 DEF Whole

(* What is left after a paste.                                             *)
LEMMA PasteableRest ==
  ASSUME NEW toks \in Seq(Tokens), Pasteable(toks), NEW from \in Nat, from >= 3,
         from <= Len(toks) + 1, NEW t \in Tokens, t.s \notin {"eof", "##"},
         from = 3 => toks[from].s # "##"
  PROVE  Pasteable(<<t>> \o SubSeq(toks, from, Len(toks)))
<1> DEFINE rest == SubSeq(toks, from, Len(toks))
           b == <<t>> \o rest
<1>0. Len(toks) \in Nat OBVIOUS
<1>1. from \in 1 .. Len(toks) + 1 /\ Len(toks) \in from - 1 .. Len(toks) BY <1>0
<1>2. /\ rest \in Seq(Tokens) /\ Len(rest) = Len(toks) - from + 1
      /\ \A i \in 1 .. Len(toks) - from + 1 : rest[i] = toks[from + i - 1]
  BY <1>1, Window
<1> HIDE DEF rest
<1> DEFINE one == <<t>>
<1>3. one \in Seq(Tokens) /\ Len(one) = 1 /\ one[1] = t OBVIOUS
<1>4. /\ Len(b) = 1 + Len(rest) /\ \A i \in 1 .. 1 : b[i] = one[i]
      /\ \A i \in 1 + 1 .. 1 + Len(rest) : b[i] = rest[i - 1]
  <2>1. b = one \o rest OBVIOUS
  <2> HIDE DEF b, one
  <2>0. /\ Len(one \o rest) = Len(one) + Len(rest)
        /\ \A i \in 1 .. Len(one) + Len(rest) :
             (one \o rest)[i] = IF i <= Len(one) THEN one[i] ELSE rest[i - Len(one)]
    <3>1. one \in Seq(Tokens) /\ rest \in Seq(Tokens) BY <1>2, <1>3
    <3> QED BY <3>1, ConcatProperties
  <2>2. /\ Len(b) = 1 + Len(rest)
        /\ \A i \in 1 .. 1 + Len(rest) : b[i] = IF i <= 1 THEN one[i] ELSE rest[i - 1]
    BY <1>3, <2>0, <2>1
  <2>3. /\ \A i \in 1 .. 1 : i \in 1 .. 1 + Len(rest) /\ i <= 1
        /\ \A i \in 1 + 1 .. 1 + Len(rest) : i \in 1 .. 1 + Len(rest) /\ ~(i <= 1)
    <3>1. Len(rest) \in Nat BY <1>2
    <3> QED BY <3>1
  <2> QED BY <2>2, <2>3
<1> HIDE DEF b, one
<1>5. b[1] = t BY <1>3, <1>4
<1>6. \A i \in 2 .. Len(b) : b[i] = toks[from + i - 2] /\ from + i - 2 \in 2 .. Len(toks)
  <2> TAKE i \in 2 .. Len(b)
  <2>1. i \in 1 + 1 .. 1 + Len(rest) /\ i - 1 \in 1 .. Len(toks) - from + 1
    BY <1>0, <1>2, <1>4
  <2>2. from + (i - 1) - 1 = from + i - 2 /\ from + i - 2 \in 2 .. Len(toks) BY <1>0, <2>1
  <2>3. b[i] = rest[i - 1] BY <1>4, <2>1
  <2>4. rest[i - 1] = toks[from + (i - 1) - 1] BY <1>2, <2>1
  <2> QED BY <2>2, <2>3, <2>4
<1> SUFFICES ASSUME NEW i \in 1 .. Len(b)
             PROVE  /\ b[i].s # "eof"
                    /\ b[i].s = "##" => i > 1 /\ i < Len(b) /\ b[i + 1].s # "##"
  BY DEF Pasteable, b
<1>7. CASE i = 1 BY <1>5, <1>7
<1>8. CASE i # 1
  <2>1. i \in 2 .. Len(b) /\ i > 1 BY <1>8
  <2>2. b[i] = toks[from + i - 2] /\ from + i - 2 \in 2 .. Len(toks)
        /\ from + i - 2 \in 1 .. Len(toks)
    BY <1>0, <1>6, <2>1
  <2>3. /\ toks[from + i - 2].s # "eof"
        /\ toks[from + i - 2].s = "##" =>
             from + i - 2 < Len(toks) /\ toks[(from + i - 2) + 1].s # "##"
    BY <2>2 DEF Pasteable
  <2>4. from + i - 2 < Len(toks) =>
          i < Len(b) /\ i + 1 \in 2 .. Len(b) /\ from + (i + 1) - 2 = (from + i - 2) + 1
    BY <1>0, <1>2, <1>4, <2>1
  <2>5. from + i - 2 < Len(toks) => b[i + 1] = toks[(from + i - 2) + 1] BY <1>6, <2>4
  <2> QED BY <2>1, <2>2, <2>3, <2>4, <2>5
<1> QED BY <1>7, <1>8

LEMMA PasteWhole ==
  ASSUME IInv, Whole, Conforming, PasteTokens
  PROVE  Whole'
<1>0. /\ StackTyped /\ stk # <<>> /\ Len(Top.toks) >= 2 /\ Top.toks[2].s = "##"
      /\ PasteIsNext /\ fault = "none" /\ mi \in Seq(Infos)
  BY DEF IInv, StackOK, StackTyped, PasteTokens, PasteIsNext, Lexing, Running
<1>1. /\ LexerWhole(Top) /\ Top \in Lexers /\ Top.toks \in Seq(Tokens) /\ Top.macro \in Nat
      /\ Len(Top.toks) \in Nat
  BY <1>0, TopIsWhole
<1>2. 1 \in 1 .. Len(Top.toks) /\ 2 \in 1 .. Len(Top.toks) BY <1>0, <1>1
<1>3. Top.macro # 0
  <2> SUFFICES ASSUME Top.macro = 0 PROVE FALSE OBVIOUS
  <2>1. EndsIn(Top.toks, "eof") /\ AllButLastPlain(Top.toks) BY <1>1 DEF LexerWhole
  <2>2. Len(Top.toks) # 2 BY <1>0, <2>1 DEF EndsIn
  <2>3. 2 \in 1 .. Len(Top.toks) - 1
    <3>1. PICK n \in Nat : n = Len(Top.toks) BY <1>1
    <3>2. n >= 2 /\ n # 2 BY <1>0, <2>2, <3>1
    <3>3. 2 \in 1 .. n - 1 BY <3>2
    <3> QED BY <3>1, <3>3
  <2> QED BY <1>0, <2>1, <2>3 DEF AllButLastPlain
<1>4. Pasteable(Top.toks) BY <1>1, <1>3 DEF LexerWhole
<1>5. 2 < Len(Top.toks) /\ Top.toks[2 + 1].s # "##" BY <1>0, <1>2, <1>4 DEF Pasteable
<1>6. 3 \in 1 .. Len(Top.toks) /\ 2 + 1 = 3 BY <1>1, <1>5
<1> DEFINE l == Top.toks[1].s
           r == Top.toks[3].s
           from == IF CanPaste(l, r) THEN 4 ELSE 3
           t == Tok(Pasted(l, r))
           e == [Top EXCEPT !.toks = <<t>> \o SubSeq(Top.toks, from, Len(Top.toks))]
<1>7. l \notin {"eof", "##"} /\ r \notin {"eof", "##"} /\ l \in Symbols /\ r \in Symbols
  <2>1. Top.toks[1] \in Tokens /\ Top.toks[3] \in Tokens BY <1>1, <1>2, <1>6
  <2>2. Top.toks[1].s \notin {"eof", "##"} BY <1>2, <1>4 DEF Pasteable
  <2>3. Top.toks[3].s \notin {"eof", "##"} BY <1>4, <1>5, <1>6 DEF Pasteable
  <2> QED BY <2>1, <2>2, <2>3 DEF Tokens
<1>8. <<l, r>> # <<"/", "/">> BY <1>0, <1>5 DEF Conforming
<1>9. Pasted(l, r) \notin {"eof", "##"} /\ Pasted(l, r) \in Symbols
  <2> HIDE DEF l, r
  <2>1. Pasted(l, r) \in Symbols BY <1>7, PastedSymbol
  <2>2. CASE <<l, r>> \in DOMAIN Glue
    <3>1. Pasted(l, r) = Glue[<<l, r>>] BY <1>7, <1>8, <2>2 DEF Pasted
    <3> QED BY <2>1, <2>2, <3>1, GlueAssumption
  <2>3. CASE <<l, r>> \notin DOMAIN Glue
    <3>1. Pasted(l, r) = l BY <1>7, <1>8, <2>3 DEF Pasted
    <3> QED BY <1>7, <3>1
  <2> QED BY <2>2, <2>3
<1>10. t \in Tokens /\ t.s = Pasted(l, r) BY <1>9 DEF Tok, Tokens
<1>11. Len(Top.toks) # 2 BY <1>5, <1>1
<1>12. /\ UNCHANGED <<file, mi, macros, subs, inv, fault>>
       /\ stk' = [stk EXCEPT ![Len(stk)].toks = <<t>> \o SubSeq(@, from, Len(@))]
  BY <1>11 DEF PasteTokens
<1>13. Len(stk) \in 1 .. Len(stk) /\ Top = stk[Len(stk)] /\ stk \in Seq(Lexers)
  BY <1>0, LastOfStack DEF StackTyped
<1>14. stk' = [stk EXCEPT ![Len(stk)] = e] BY <1>12, <1>13
<1> DEFINE new == <<t>> \o SubSeq(Top.toks, from, Len(Top.toks))
<1>15. Pasteable(new)
  <2>1. from \in Nat /\ from >= 3 /\ from <= Len(Top.toks) + 1 BY <1>1, <1>5
  <2>2. from = 3 => Top.toks[from].s # "##" BY <1>5, <1>6
  <2> HIDE DEF from, t
  <2> QED BY <1>1, <1>4, <1>9, <1>10, <2>1, <2>2, PasteableRest
<1>16. e.toks = new /\ e.macro = Top.macro
  <2> HIDE DEF new
  <2>1. e = [Top EXCEPT !.toks = new] BY DEF new
  <2> QED BY <1>1, <2>1 DEF Lexers
<1> HIDE DEF new, e
<1>17. LexerWhole(e) BY <1>3, <1>15, <1>16 DEF LexerWhole
<1>18. LexersWhole'
  <2>1. /\ Len(stk') = Len(stk)
        /\ \A i \in 1 .. Len(stk) : stk'[i] = IF i = Len(stk) THEN e ELSE stk[i]
    BY <1>13, <1>14
  <2> QED BY <1>17, <2>1 DEF Whole, LexersWhole
<1>19. SameBodies BY <1>0, <1>12, KeepsBodies
<1>20. MacrosWhole' /\ InvWhole' /\ CallsWhole' BY <1>12, <1>19, SameBodiesWhole
<1>21. FileWhole' /\ NoFault' BY <1>12 DEF Whole, FileWhole, NoFault
<1> QED BY <1>18, <1>20, <1>21 DEF Whole

LEMMA ReturnWhole ==
  ASSUME IInv, Whole, ReturnToken
  PROVE  Whole'
<1>1. HaveToken /\ Consume /\ mi' = mi /\ inv' = inv BY DEF ReturnToken
<1> DEFINE x == Disabled(Token.s)
           t == [Token EXCEPT !.ne = @ \/ x]
<1>3. Deliver(t) BY DEF ReturnToken
<1>4. Token \in Tokens BY <1>1, AfterToken DEF IInv, StackOK
<1>5. x \in BOOLEAN BY DEF Disabled
<1> HIDE DEF x
<1>6. t \in Tokens /\ t.s = Token.s BY <1>4, <1>5, MarkedToken DEF Tokens
<1> HIDE DEF t
<1>7. subs # <<>> => t.s # "##"
  <2> HAVE subs # <<>>
  <2>1. stk # <<>> BY <1>1, NoLexersNoCalls DEF IInv, HaveToken, Lexing
  <2> QED BY <1>1, <1>6, <2>1, TokenRead
<1>8. LexersWhole' /\ CallsWhole' /\ NoFault' BY <1>1, <1>3, <1>6, <1>7, DeliverWhole
<1>9. SameBodies
  <2>1. mi \in Seq(Infos) /\ macros' = macros BY <1>1 DEF IInv, StackOK, StackTyped, Consume
  <2> QED BY <1>1, <2>1, KeepsBodies
<1>10. MacrosWhole' /\ InvWhole' BY <1>1, <1>9, SameBodiesWhole
<1>11. FileWhole' BY <1>1, FileRead
<1> QED BY <1>8, <1>10, <1>11 DEF Whole

LEMMA NameIs ==
  ASSUME NEW n \in Names
  PROVE  n \notin {"eof", "##", "(", ")"}
BY NamesAssumption DEF Punctuators

LEMMA ObjectWhole ==
  ASSUME IInv, Whole, Conforming, MacrosTakeTurns', ExpandObject
  PROVE  Whole'
<1> DEFINE n == Token.s
<1>1. HaveToken /\ Consume /\ inv' = inv /\ Enabled(n) BY DEF ExpandObject, Expands
<1>2. ExpandBody(MacroOf(n), n, <<>>, FALSE) /\ ~mi[MacroOf(n)].fn BY DEF ExpandObject
<1> HIDE DEF n
<1>3. n \in Names /\ macros[n] # 0 /\ MacroOf(n) = macros[n] BY <1>1 DEF Enabled, MacroOf
<1>4. Given(mi[macros[n]], <<>>, FALSE)
  <2>1. Len(<<>>) = 0 /\ 1 .. 0 = {} OBVIOUS
  <2> QED BY <1>2, <1>3, <2>1 DEF Given
<1>5. macros' = macros BY <1>1 DEF Consume
<1>6. n # "eof" BY <1>3, NameIs
<1>7. Token.s # "eof" BY <1>6 DEF n
<1>8. <<>> \in Seq(Seq(Tokens)) /\ FALSE \in BOOLEAN OBVIOUS
<1>9. ExpandBody(macros[n], n, <<>>, FALSE) BY <1>2, <1>3
<1>10. LexersWhole' /\ CallsWhole' /\ NoFault' /\ SameBodies
  BY <1>1, <1>3, <1>4, <1>5, <1>7, <1>8, <1>9, ExpandWhole
<1>11. MacrosWhole' /\ InvWhole' BY <1>1, <1>10, SameBodiesWhole
<1>12. FileWhole' BY <1>1, FileRead
<1> QED BY <1>10, <1>11, <1>12 DEF Whole

LEMMA GiveUpWhole ==
  ASSUME IInv, Whole, HaveToken, Consume, NEW t \in Tokens, GiveUp(t),
         t.s = "eof" <=> Token.s = "eof", t.s # "##"
  PROVE  Whole'
<1>1. inv' = NoInv /\ Deliver(t) /\ mi' = mi BY DEF GiveUp
<1>2. LexersWhole' /\ CallsWhole' /\ NoFault' BY <1>1, DeliverWhole
<1>3. SameBodies
  <2>1. mi \in Seq(Infos) /\ macros' = macros BY DEF IInv, StackOK, StackTyped, Consume
  <2> QED BY <1>1, <2>1, KeepsBodies
<1>4. MacrosWhole' /\ InvWhole' BY <1>1, <1>3, SameBodiesWhole
<1>5. FileWhole' BY FileRead
<1> QED BY <1>2, <1>4, <1>5 DEF Whole

LEMMA UnterminatedWhole ==
  ASSUME IInv, Whole, UnterminatedInvocation
  PROVE  Whole'
<1>1. HaveToken /\ Consume /\ GiveUp(Token) /\ Token.s = "eof" BY DEF UnterminatedInvocation
<1>2. Token \in Tokens BY <1>1, AfterToken DEF IInv, StackOK
<1> QED BY <1>1, <1>2, GiveUpWhole

(* A token is read for the invocation.                                     *)
LEMMA ReadWhole ==
  ASSUME IInv, Whole, HaveToken, Consume, stk' = StkAfter, Token.s # "eof",
         UNCHANGED <<mi, subs, fault>>, InvWhole'
  PROVE  Whole'
<1>1. SameBodies
  <2>1. mi \in Seq(Infos) /\ macros' = macros BY DEF IInv, StackOK, StackTyped, Consume
  <2> QED BY <2>1, KeepsBodies
<1>2. MacrosWhole' /\ CallsWhole' BY <1>1, SameBodiesWhole
<1>3. LexersWhole' BY AfterWhole
<1>4. FileWhole' BY FileRead
<1>5. NoFault' BY DEF Whole, NoFault
<1> QED BY <1>2, <1>3, <1>4, <1>5 DEF Whole

LEMMA PlainEmpty == Plain(<<>>) /\ \A s : ~EndsIn(<<>>, s)
<1>1. Len(<<>>) = 0 /\ 1 .. 0 = {} OBVIOUS
<1> QED BY <1>1 DEF Plain, EndsIn

LEMMA BeginWhole ==
  ASSUME IInv, Whole, BeginInvocation
  PROVE  Whole'
<1> DEFINE id == MacroOf(Token.s)
           v == [id |-> id, name |-> Token.s, variadic |-> mi[id].variadic,
                 left |-> NumArgs(id), open |-> FALSE, parens |-> 0,
                 args |-> <<>>, cur |-> <<>>]
<1>1. /\ HaveToken /\ Consume /\ Enabled(Token.s) /\ mi[id].fn /\ inv' = v
      /\ stk' = StkAfter /\ UNCHANGED <<mi, subs, fault>>
  BY DEF BeginInvocation, Expands
<1>2. /\ Token.s \in Names /\ id = macros[Token.s] /\ id \in 1 .. Len(mi) /\ mi[id] \in Infos
  BY <1>1, EnabledIsMacro DEF IInv, StackOK, MacroOf
<1>3. Token.s # "eof" BY <1>2, NameIs
<1>4. /\ v.id = id /\ v.name = Token.s /\ v.variadic = mi[id].variadic
      /\ v.left = Len(mi[id].params) /\ v.parens = 0 /\ v.args = <<>> /\ v.cur = <<>>
  BY DEF NumArgs
<1>5. macros' = macros BY <1>1 DEF Consume
<1>6. Len(mi[id].params) \in Nat BY <1>2 DEF Infos
<1> HIDE DEF v, id
<1>7. InvWhole'
  <2> SUFFICES /\ macros[v.name] = v.id /\ mi[v.id].fn
               /\ v.variadic = mi[v.id].variadic
               /\ v.left = Len(mi[v.id].params) - Len(v.args) /\ v.parens >= 0
               /\ Plain(v.cur)
               /\ \A k \in 1 .. Len(v.args) : Plain(v.args[k]) /\ ~EndsIn(v.args[k], Comma)
               /\ EndsIn(v.cur, Comma) => v.parens > 0 \/ (v.variadic /\ v.left <= 1)
    BY <1>1, <1>5 DEF InvWhole, Plain, EndsIn
  <2>1. Len(<<>>) = 0 /\ 1 .. 0 = {} OBVIOUS
  <2>2. Len(mi[id].params) = Len(mi[id].params) - 0 BY <1>6
  <2>3. ~EndsIn(v.cur, Comma) /\ Plain(v.cur) BY <1>4, PlainEmpty
  <2> QED BY <1>1, <1>2, <1>4, <2>1, <2>2, <2>3
<1> QED BY <1>1, <1>3, <1>7, ReadWhole

(* What is known of the invocation.                                        *)
LEMMA InvocationWhole ==
  ASSUME IInv, Whole, Reading
  PROVE  /\ inv \in Invocations /\ inv.name \in Names /\ inv.id \in 1 .. Len(mi)
         /\ inv.left \in Int /\ inv.parens \in Int /\ inv.cur \in Seq(Tokens)
         /\ inv.args \in Seq(Seq(Tokens)) /\ inv.variadic \in BOOLEAN
         /\ macros[inv.name] = inv.id /\ mi[inv.id].fn
         /\ inv.variadic = mi[inv.id].variadic
         /\ inv.left = Len(mi[inv.id].params) - Len(inv.args) /\ inv.parens >= 0
         /\ Plain(inv.cur)
         /\ \A k \in 1 .. Len(inv.args) : Plain(inv.args[k]) /\ ~EndsIn(inv.args[k], Comma)
         /\ EndsIn(inv.cur, Comma) => inv.parens > 0 \/ (inv.variadic /\ inv.left <= 1)
         /\ Len(mi[inv.id].params) \in Nat
<1>1. inv \in Invocations /\ inv.id \in 1 .. Len(mi) BY InvocationIs DEF IInv
<1>2. mi[inv.id] \in Infos BY <1>1 DEF IInv, StackOK, StackTyped
<1>3. Len(mi[inv.id].params) \in Nat BY <1>2 DEF Infos
<1>4. /\ inv.name \in Names /\ inv.left \in Int /\ inv.parens \in Int /\ inv.cur \in Seq(Tokens)
      /\ inv.args \in Seq(Seq(Tokens)) /\ inv.variadic \in BOOLEAN
  BY <1>1 DEF Invocations
<1> QED BY <1>1, <1>3, <1>4 DEF Whole, InvWhole

LEMMA ParenWhole ==
  ASSUME IInv, Whole, ReadLParen
  PROVE  Whole'
<1>1. HaveToken /\ Reading /\ ~inv.open BY DEF ReadLParen
<1>2. Token.s = "(" BY <1>1, ParenIsToken
<1>3. /\ inv' = [inv EXCEPT !.open = TRUE] /\ stk' = StkAfter /\ Consume
      /\ UNCHANGED <<mi, subs, fault>>
  BY <1>2 DEF ReadLParen
<1>4. inv \in Invocations BY <1>1, InvocationIs DEF IInv
<1>5. macros' = macros BY <1>3 DEF Consume
<1>6. /\ inv'.name = inv.name /\ inv'.id = inv.id /\ inv'.variadic = inv.variadic
      /\ inv'.left = inv.left /\ inv'.parens = inv.parens /\ inv'.args = inv.args
      /\ inv'.cur = inv.cur
  BY <1>3, <1>4 DEF Invocations
<1>7. InvWhole' BY <1>1, <1>3, <1>5, <1>6 DEF Whole, InvWhole, Reading, Plain, EndsIn
<1> QED BY <1>1, <1>2, <1>3, <1>7, ReadWhole

LEMMA SeparatesIs ==
  ASSUME NEW t
  PROVE  Separates(t) <=>
           t.s = Comma /\ inv.parens = 0 /\ (inv.variadic => inv.left > 1)
BY Zenon DEF Separates, Comma

LEMMA CommaIs == Comma \notin {"eof", "##", "(", ")", "str"}
BY DEF Comma

(* No ## is read: Conforming, for the file; for a lexer, TokenRead.        *)
LEMMA NoPasteRead ==
  ASSUME IInv, Whole, Conforming, HaveToken, Reading, Token.s # "eof"
  PROVE  Token.s # "##"
<1>1. CASE stk # <<>> BY <1>1, TokenRead
<1>2. CASE stk = <<>>
  <2>1. file # <<>>
    <3> SUFFICES ASSUME file = <<>> PROVE FALSE OBVIOUS
    <3>1. Token = Tok("eof") BY <1>2 DEF Token
    <3> QED BY <3>1 DEF Tok
  <2>2. Token.s = Head(file).name BY <1>2, <2>1 DEF Token, Tok
  <2>3. Head(file).op = "tok" BY <1>2, <2>1 DEF HaveToken
  <2> QED BY <1>2, <2>1, <2>2, <2>3 DEF Conforming
<1> QED BY <1>1, <1>2

LEMMA ArgTokenWhole ==
  ASSUME IInv, Whole, Conforming, ReadArgToken
  PROVE  Whole'
<1> DEFINE t == Token
           x == Disabled(t.s)
           m == [t EXCEPT !.ne = @ \/ x]
           c == Append(inv.cur, m)
           p == CASE t.s = "(" -> inv.parens + 1 [] t.s = ")" -> inv.parens - 1
                  [] OTHER -> inv.parens
<1>1. /\ HaveToken /\ Reading /\ stk' = StkAfter /\ Consume /\ t.s # "eof"
      /\ ~Closes(t) /\ ~Separates(t) /\ UNCHANGED <<mi, subs, fault>>
      /\ inv' = [inv EXCEPT !.cur = Append(@, m),
                   !.parens = CASE t.s = "(" -> @ + 1 [] t.s = ")" -> @ - 1 [] OTHER -> @]
  BY DEF ReadArgToken
<1>2. t \in Tokens BY <1>1, AfterToken DEF IInv, StackOK
<1>3. x \in BOOLEAN BY DEF Disabled
<1>4. t.s # "##" BY <1>1, NoPasteRead
<1>5. macros' = macros BY <1>1 DEF Consume
<1>6. ~(t.s = ")" /\ inv.parens = 0) BY <1>1 DEF Closes
<1>7. ~(t.s = Comma /\ inv.parens = 0 /\ (inv.variadic => inv.left > 1))
  BY <1>1, SeparatesIs
<1>8. Token.s # "eof" BY <1>1
<1> HIDE DEF x, t
<1>9. m \in Tokens /\ m.s = t.s BY <1>2, <1>3, MarkedToken DEF Tokens
<1> HIDE DEF m
<1>10. /\ inv \in Invocations /\ inv.left \in Int /\ inv.parens \in Int /\ inv.cur \in Seq(Tokens)
       /\ inv.parens >= 0 /\ Plain(inv.cur) /\ inv.variadic \in BOOLEAN
  BY <1>1, InvocationWhole
<1>11. inv' = [inv EXCEPT !.cur = c, !.parens = p] BY <1>1, <1>10 DEF Invocations
<1>12. Plain(c) BY <1>1, <1>4, <1>9, <1>10, AppendPlain
<1>13. EndsIn(c, Comma) => t.s = Comma
  <2>1. Len(c) = Len(inv.cur) + 1 /\ c[Len(inv.cur) + 1] = m BY <1>9, <1>10, Appended
  <2> QED BY <1>9, <2>1 DEF EndsIn
<1>14. p >= 0
  <2>1. CASE t.s = ")"
    <3>1. p = inv.parens - 1 /\ inv.parens # 0 BY <1>6, <2>1
    <3> QED BY <1>10, <3>1
  <2>2. CASE t.s # ")"
    <3>1. p = inv.parens \/ p = inv.parens + 1 BY <2>2
    <3> QED BY <1>10, <3>1
  <2> QED BY <2>1, <2>2
<1>15. t.s = Comma => p > 0 \/ (inv.variadic /\ inv.left <= 1)
  <2> HAVE t.s = Comma
  <2>1. p = inv.parens BY CommaIs
  <2> QED BY <1>7, <1>10, <2>1
<1> HIDE DEF c, p
<1>16. /\ inv'.name = inv.name /\ inv'.id = inv.id /\ inv'.variadic = inv.variadic
       /\ inv'.left = inv.left /\ inv'.parens = p /\ inv'.args = inv.args /\ inv'.cur = c
  BY <1>10, <1>11 DEF Invocations
<1>17. InvWhole'
  <2> SUFFICES /\ macros[inv.name] = inv.id /\ mi[inv.id].fn
               /\ inv.variadic = mi[inv.id].variadic
               /\ inv.left = Len(mi[inv.id].params) - Len(inv.args) /\ p >= 0
               /\ Plain(c)
               /\ \A k \in 1 .. Len(inv.args) : Plain(inv.args[k]) /\ ~EndsIn(inv.args[k], Comma)
               /\ EndsIn(c, Comma) => p > 0 \/ (inv.variadic /\ inv.left <= 1)
    BY <1>1, <1>5, <1>16 DEF InvWhole, Plain, EndsIn
  <2> QED BY <1>1, <1>12, <1>13, <1>14, <1>15, InvocationWhole
<1> QED BY <1>1, <1>8, <1>17, ReadWhole

LEMMA ArgumentEndWhole ==
  ASSUME IInv, Whole, EndArgument
  PROVE  Whole'
<1>1. HaveToken /\ Reading /\ Consume /\ Separates(Token) BY DEF EndArgument
<1>2. Token.s = Comma /\ inv.parens = 0 /\ (inv.variadic => inv.left > 1)
  BY <1>1, SeparatesIs
<1>3. Token.s # "eof" BY <1>2, CommaIs
<1>4. CASE TooManyArgs
  <2>1. GiveUp(Tok(inv.name)) BY <1>4 DEF EndArgument
  <2>2. Tok(inv.name) \in Tokens /\ inv.name \in Names
    BY <1>1, InvocationIs, InvocationWhole DEF IInv
  <2>3. Tok(inv.name).s \notin {"eof", "##"} BY <2>2, NameIs DEF Tok
  <2> QED BY <1>1, <1>3, <2>1, <2>2, <2>3, GiveUpWhole
<1>5. CASE ~TooManyArgs
  <2> DEFINE a == Append(inv.args, inv.cur)
             l == inv.left - 1
  <2>1. /\ inv' = [inv EXCEPT !.args = a, !.cur = <<>>, !.left = l]
        /\ stk' = StkAfter /\ UNCHANGED <<mi, subs, fault>>
    BY <1>5 DEF EndArgument
  <2>2. /\ inv \in Invocations /\ inv.left \in Int /\ inv.parens \in Int /\ inv.cur \in Seq(Tokens)
        /\ inv.args \in Seq(Seq(Tokens)) /\ inv.variadic \in BOOLEAN
        /\ inv.left = Len(mi[inv.id].params) - Len(inv.args)
        /\ Plain(inv.cur) /\ Len(mi[inv.id].params) \in Nat
        /\ EndsIn(inv.cur, Comma) => inv.parens > 0 \/ (inv.variadic /\ inv.left <= 1)
    BY <1>1, InvocationWhole
  <2>3. ~EndsIn(inv.cur, Comma)
    <3>1. PICK l0 \in Int, p0 \in Int : l0 = inv.left /\ p0 = inv.parens BY <2>2
    <3>2. ~(p0 > 0) BY <1>2, <3>1
    <3>3. inv.variadic => ~(l0 <= 1) BY <1>2, <3>1
    <3> QED BY <2>2, <3>1, <3>2, <3>3
  <2>4. /\ Len(a) = Len(inv.args) + 1 /\ a[Len(inv.args) + 1] = inv.cur
        /\ \A k \in 1 .. Len(inv.args) : a[k] = inv.args[k]
    BY <2>2, Appended
  <2>5. \A k \in 1 .. Len(a) : k \in 1 .. Len(inv.args) \/ k = Len(inv.args) + 1
    <3>1. Len(inv.args) \in Nat BY <2>2
    <3> QED BY <2>4, <3>1
  <2>6. l = Len(mi[inv.id].params) - Len(a)
    <3>1. Len(inv.args) \in Nat BY <2>2
    <3> QED BY <2>2, <2>4, <3>1
  <2>7. macros' = macros BY <1>1 DEF Consume
  <2> HIDE DEF a, l
  <2>8. /\ inv'.name = inv.name /\ inv'.id = inv.id /\ inv'.variadic = inv.variadic
        /\ inv'.left = l /\ inv'.parens = inv.parens /\ inv'.args = a /\ inv'.cur = <<>>
    BY <2>1, <2>2 DEF Invocations
  <2>9. \A k \in 1 .. Len(a) : Plain(a[k]) /\ ~EndsIn(a[k], Comma)
    BY <1>1, <2>2, <2>3, <2>4, <2>5, InvocationWhole
  <2>10. InvWhole'
    <3> SUFFICES /\ macros[inv.name] = inv.id /\ mi[inv.id].fn
                 /\ inv.variadic = mi[inv.id].variadic
                 /\ l = Len(mi[inv.id].params) - Len(a) /\ inv.parens >= 0
                 /\ Plain(<<>>)
                 /\ \A k \in 1 .. Len(a) : Plain(a[k]) /\ ~EndsIn(a[k], Comma)
                 /\ ~EndsIn(<<>>, Comma)
      BY <2>1, <2>7, <2>8 DEF InvWhole, Plain, EndsIn
    <3> QED BY <1>1, <2>6, <2>9, PlainEmpty, InvocationWhole
  <2> QED BY <1>1, <1>3, <2>1, <2>10, ReadWhole
<1> QED BY <1>4, <1>5

LEMMA TwoOf ==
  ASSUME NEW S, NEW e \in S
  PROVE  /\ <<e, e>> \in Seq(S) /\ Len(<<e, e>>) = 2
         /\ \A k \in 1 .. Len(<<e, e>>) : <<e, e>>[k] = e
OBVIOUS

(* The arguments as they are given, one or two empty ones supplied.        *)
LEMMA GivenIs ==
  ASSUME NEW m \in Infos, NEW read \in Seq(Seq(Tokens)), NEW cur \in Seq(Tokens),
         \A k \in 1 .. Len(read) : Plain(read[k]) /\ ~EndsIn(read[k], Comma),
         Plain(cur), EndsIn(cur, Comma) => Len(m.params) - Len(read) <= 1,
         NEW args, args = IF read = <<>> /\ cur = <<>> THEN <<>> ELSE Append(read, cur),
         NEW elided \in BOOLEAN,
         elided => /\ m.variadic
                   /\ Len(args) + 1 = Len(m.params) \/ (Len(args) = 0 /\ Len(m.params) <= 2),
         Len(args) < Len(m.params) => elided \/ (Len(args) = 0 /\ Len(m.params) = 1),
         NEW given,
         given = IF Len(args) = 0 /\ Len(m.params) = 2 THEN <<<<>>, <<>>>>
                 ELSE IF Len(args) < Len(m.params) THEN Append(args, <<>>) ELSE args
  PROVE  /\ given \in Seq(Seq(Tokens))
         /\ Given(m, given, Len(args) < Len(m.params) /\ elided)
<1> DEFINE e == <<>>
           ok(a) == Plain(a) /\ (Len(args) < Len(m.params) => ~EndsIn(a, Comma))
<1>1. e \in Seq(Tokens) /\ e \in Seq(Seq(Tokens)) /\ Len(e) = 0 /\ 1 .. 0 = {} OBVIOUS
<1>2. ok(e) BY PlainEmpty
<1>3. PICK min \in Nat : min = Len(m.params)
  <2>1. m.params \in Seq(Symbols) BY DEF Infos
  <2> QED BY <2>1
<1>4. /\ args \in Seq(Seq(Tokens)) /\ Len(args) \in Nat
      /\ \A k \in 1 .. Len(args) : ok(args[k])
  <2>1. CASE read = <<>> /\ cur = <<>>
    <3>1. args = e BY <2>1
    <3> QED BY <1>1, <3>1
  <2>2. CASE ~(read = <<>> /\ cur = <<>>)
    <3>1. /\ args \in Seq(Seq(Tokens)) /\ Len(args) = Len(read) + 1 /\ args[Len(read) + 1] = cur
          /\ \A i \in 1 .. Len(read) : args[i] = read[i]
      <4>1. args = Append(read, cur) BY <2>2
      <4> QED BY <4>1, Appended
    <3>2. Len(read) \in Nat OBVIOUS
    <3>3. Len(args) < min => ~(min - Len(read) <= 1) BY <1>3, <3>1, <3>2
    <3>4. ok(cur) BY <1>3, <3>3
    <3>5. \A k \in 1 .. Len(args) : k \in 1 .. Len(read) \/ k = Len(read) + 1 BY <3>1, <3>2
    <3>6. \A k \in 1 .. Len(read) : ok(read[k]) OBVIOUS
    <3> HIDE DEF ok
    <3>7. \A k \in 1 .. Len(args) : ok(args[k]) BY <3>1, <3>4, <3>5, <3>6
    <3> QED BY <3>1, <3>2, <3>7
  <2> QED BY <2>1, <2>2
<1> HIDE DEF e, ok
<1>5. /\ given \in Seq(Seq(Tokens)) /\ min <= Len(given)
      /\ \A k \in 1 .. Len(given) : ok(given[k])
  <2>1. CASE Len(args) = 0 /\ min = 2
    <3>1. given = <<e, e>> BY <1>3, <2>1 DEF e
    <3>2. /\ given \in Seq(Seq(Tokens)) /\ Len(given) = 2
          /\ \A k \in 1 .. Len(given) : given[k] = e
      <4>1. PICK S : S = Seq(Tokens) OBVIOUS
      <4>2. e \in S BY <1>1, <4>1
      <4>3. given \in Seq(S) /\ Len(given) = 2 /\ \A k \in 1 .. Len(given) : given[k] = e
        BY ONLY <4>2, <3>1, TwoOf
      <4> QED BY <4>1, <4>3
    <3>3. \A k \in 1 .. Len(given) : ok(given[k]) BY <1>2, <3>2
    <3> QED BY <1>3, <2>1, <3>2, <3>3
  <2>2. CASE ~(Len(args) = 0 /\ min = 2) /\ Len(args) < min
    <3>1. given = Append(args, e) BY <1>3, <2>2 DEF e
    <3>2. /\ given \in Seq(Seq(Tokens)) /\ Len(given) = Len(args) + 1
          /\ given[Len(args) + 1] = e /\ \A i \in 1 .. Len(args) : given[i] = args[i]
      BY <1>1, <1>4, <3>1, Appended
    <3>3. \A k \in 1 .. Len(given) : k \in 1 .. Len(args) \/ k = Len(args) + 1 BY <1>4, <3>2
    <3>4. \A k \in 1 .. Len(given) : ok(given[k]) BY <1>2, <1>4, <3>2, <3>3
    <3>5. min <= Len(args) + 1
      <4>1. PICK l \in Nat : l = Len(args) BY <1>4
      <4>2. l + 1 = min \/ (l = 0 /\ min <= 2) \/ (l = 0 /\ min = 1) BY <1>3, <2>2, <4>1
      <4> QED BY <2>2, <4>1, <4>2
    <3> QED BY <3>2, <3>4, <3>5
  <2>3. CASE ~(Len(args) < min)
    <3>1. PICK l \in Nat : l = Len(args) BY <1>4
    <3>2. ~(l = 0 /\ min = 2) /\ min <= l BY <2>3, <3>1
    <3>3. given = args BY <1>3, <2>3, <3>1, <3>2
    <3> QED BY <1>4, <3>1, <3>2, <3>3
  <2> QED BY <1>4, <2>1, <2>2, <2>3
<1> QED BY <1>3, <1>5 DEF Given, ok

LEMMA InvocationEndWhole ==
  ASSUME IInv, Whole, Conforming, MacrosTakeTurns', EndInvocation
  PROVE  Whole'
<1>1. HaveToken /\ Consume /\ Reading /\ Closes(Token) BY DEF EndInvocation
<1>2. Token.s = ")" /\ inv.parens = 0 BY <1>1 DEF Closes
<1>3. /\ inv.name \in Names /\ inv.id \in 1 .. Len(mi) /\ macros[inv.name] = inv.id
      /\ mi[inv.id].fn /\ inv.left = Len(mi[inv.id].params) - Len(inv.args)
      /\ inv.args \in Seq(Seq(Tokens)) /\ inv.cur \in Seq(Tokens) /\ Plain(inv.cur)
      /\ \A k \in 1 .. Len(inv.args) : Plain(inv.args[k]) /\ ~EndsIn(inv.args[k], Comma)
      /\ EndsIn(inv.cur, Comma) => inv.parens > 0 \/ (inv.variadic /\ inv.left <= 1)
  BY <1>1, InvocationWhole
<1>4. mi[inv.id] \in Infos /\ Tok(inv.name) \in Tokens
  BY <1>1, <1>3, InvocationIs DEF IInv, StackOK, StackTyped
<1> DEFINE id == inv.id
           none == inv.args = <<>> /\ inv.cur = <<>>
           args == IF none THEN <<>> ELSE Append(inv.args, inv.cur)
           n == Len(args)
           min == NumArgs(id)
           oneEmpty == n = 0 /\ min = 1
           elided == /\ mi[id].variadic
                     /\ (oneEmpty \/ n + 1 = min \/ (n = 0 /\ min = 2))
           given == IF n = 0 /\ min = 2 THEN <<<<>>, <<>>>>
                    ELSE IF n < min THEN Append(args, <<>>) ELSE args
           left == n < min /\ elided
<1>5. \/ GiveUp(Tok(inv.name))
      \/ /\ inv' = NoInv /\ ExpandBody(id, inv.name, given, left)
         /\ ~(n < min /\ ~oneEmpty /\ ~elided)
  BY <1>3 DEF EndInvocation
<1>6. CASE GiveUp(Tok(inv.name))
  <2>1. Tok(inv.name).s \notin {"eof", "##"} BY <1>3, NameIs DEF Tok
  <2> QED BY <1>1, <1>2, <1>4, <1>6, <2>1, GiveUpWhole
<1>7. CASE /\ inv' = NoInv /\ ExpandBody(id, inv.name, given, left)
           /\ ~(n < min /\ ~oneEmpty /\ ~elided)
  <2>1. EndsIn(inv.cur, Comma) => Len(mi[id].params) - Len(inv.args) <= 1
    BY <1>2, <1>3
  <2>2. min = Len(mi[id].params) BY DEF NumArgs
  <2>3. elided \in BOOLEAN /\ (n < min => elided \/ (n = 0 /\ min = 1)) BY <1>7
  <2>4. elided => mi[id].variadic /\ (n + 1 = min \/ (n = 0 /\ min <= 2)) OBVIOUS
  <2>5. args = IF inv.args = <<>> /\ inv.cur = <<>> THEN <<>> ELSE Append(inv.args, inv.cur)
    OBVIOUS
  <2>6. given = IF n = 0 /\ min = 2 THEN <<<<>>, <<>>>>
                ELSE IF n < min THEN Append(args, <<>>) ELSE args
    OBVIOUS
  <2> HIDE DEF args, given, elided, min
  <2>7. given \in Seq(Seq(Tokens)) /\ Given(mi[id], given, n < Len(mi[id].params) /\ elided)
    <3>1. PICK m \in Infos, r \in Seq(Seq(Tokens)), c \in Seq(Tokens) :
            m = mi[id] /\ r = inv.args /\ c = inv.cur
      BY <1>3, <1>4
    <3>2. /\ \A k \in 1 .. Len(r) : Plain(r[k]) /\ ~EndsIn(r[k], Comma)
          /\ Plain(c) /\ (EndsIn(c, Comma) => Len(m.params) - Len(r) <= 1)
      BY <1>3, <2>1, <3>1
    <3>3. args = IF r = <<>> /\ c = <<>> THEN <<>> ELSE Append(r, c) BY <2>5, <3>1
    <3>4. elided => m.variadic /\ (Len(args) + 1 = Len(m.params)
                                  \/ (Len(args) = 0 /\ Len(m.params) <= 2))
      BY <2>2, <2>4, <3>1
    <3>5. /\ Len(args) < Len(m.params) => elided \/ (Len(args) = 0 /\ Len(m.params) = 1)
          /\ elided \in BOOLEAN
      BY <2>2, <2>3, <3>1
    <3>6. given = IF Len(args) = 0 /\ Len(m.params) = 2 THEN <<<<>>, <<>>>>
                  ELSE IF Len(args) < Len(m.params) THEN Append(args, <<>>) ELSE args
      BY <2>2, <2>6, <3>1
    <3>7. given \in Seq(Seq(Tokens)) /\ Given(m, given, Len(args) < Len(m.params) /\ elided)
      BY ONLY <3>2, <3>3, <3>4, <3>5, <3>6, GivenIs
    <3> QED BY <3>1, <3>7
  <2>8. left \in BOOLEAN OBVIOUS
  <2>9. Given(mi[macros[inv.name]], given, left) BY <1>3, <2>2, <2>7
  <2>10. macros[inv.name] # 0 /\ ExpandBody(macros[inv.name], inv.name, given, left)
    BY <1>3, <1>7
  <2>11. macros' = macros BY <1>1 DEF Consume
  <2>12. Token.s # "eof" BY <1>2
  <2> HIDE DEF left
  <2>13. LexersWhole' /\ CallsWhole' /\ NoFault' /\ SameBodies
    BY <1>1, <1>3, <2>7, <2>8, <2>9, <2>10, <2>11, <2>12, ExpandWhole
  <2>14. MacrosWhole' /\ InvWhole' BY <1>7, <2>13, SameBodiesWhole
  <2>15. FileWhole' BY <1>1, FileRead
  <2> QED BY <2>13, <2>14, <2>15 DEF Whole
<1> QED BY <1>5, <1>6, <1>7

-----------------------------------------------------------------------------
(* Tokens are substituted.                                                 *)

LEMMA FrameIsWhole ==
  ASSUME IInv, Whole, Substituting
  PROVE  /\ FrameWhole(Frame, mi[Frame.id].params)
         /\ Halves(Frame.res, Frame.body)
         /\ Frame.elided => NoCommaPasted(Frame.res, Frame.body)
<1>1. Frame = subs[Len(subs)] /\ Len(subs) \in Nat \ {0} BY FrameIs
<1>2. Len(subs) \in 1 .. Len(subs) BY <1>1
<1>3. FrameWhole(subs[Len(subs)], mi[subs[Len(subs)].id].params)
  BY <1>2 DEF Whole, CallsWhole
<1>4. FrameWhole(Frame, mi[Frame.id].params) BY <1>1, <1>3
<1> QED BY <1>4 DEF FrameWhole

(* The innermost call becomes f.                                           *)
LEMMA CallReplaced ==
  ASSUME IInv, Whole, Substituting, NEW f \in Frames, f.id = Frame.id,
         FrameWhole(f, mi[f.id].params), subs' = [subs EXCEPT ![Len(subs)] = f],
         UNCHANGED <<file, mi, macros, inv, fault>>
  PROVE  FileWhole' /\ MacrosWhole' /\ InvWhole' /\ CallsWhole' /\ NoFault'
<1>1. subs \in Seq(Frames) /\ mi \in Seq(Infos) BY DEF IInv, StackOK, StackTyped
<1>2. Len(subs) \in Nat \ {0} BY FrameIs
<1>3. /\ Len(subs') = Len(subs)
      /\ \A i \in 1 .. Len(subs) : subs'[i] = IF i = Len(subs) THEN f ELSE subs[i]
  BY <1>1, <1>2
<1>4. \A i \in 1 .. Len(subs) : FrameWhole(subs[i], mi[subs[i].id].params)
  BY DEF Whole, CallsWhole
<1>5. CallsWhole'
  <2> SUFFICES ASSUME NEW i \in 1 .. Len(subs)
               PROVE  FrameWhole(subs'[i], mi[subs'[i].id].params)
    BY <1>3 DEF CallsWhole
  <2> QED BY <1>3, <1>4
<1>6. SameBodies BY <1>1, KeepsBodies
<1>7. MacrosWhole' /\ InvWhole' BY <1>6, SameBodiesWhole
<1>8. FileWhole' /\ NoFault' BY DEF Whole, FileWhole, NoFault
<1> QED BY <1>5, <1>7, <1>8

LEMMA SubstitutedWhole ==
  ASSUME IInv, Whole, Substituting, NEW res \in Seq(Tokens), NEW n \in Nat,
         n <= Len(Frame.body), Substituted(res, n),
         NEW b, b = SubSeq(Frame.body, n + 1, Len(Frame.body)),
         Halves(res, b), Frame.elided => NoCommaPasted(res, b)
  PROVE  Whole'
<1>1. Frame \in Frames /\ Frame.body \in Seq(Tokens) BY FrameIs
<1> DEFINE f == [Frame EXCEPT !.res = res, !.body = b]
<1>2. b \in Seq(Tokens) BY <1>1, Suffix
<1>3. UNCHANGED <<file, mi, macros, stk, inv, fault>> /\ subs' = [subs EXCEPT ![Len(subs)] = f]
  <2>1. f = [Frame EXCEPT !.res = res, !.body = SubSeq(@, n + 1, Len(@))]
    BY <1>1 DEF Frames
  <2> HIDE DEF f
  <2> QED BY <2>1 DEF Substituted
<1>4. /\ f \in Frames /\ f.id = Frame.id /\ f.pre = Frame.pre /\ f.args = Frame.args
      /\ f.pres = Frame.pres /\ f.elided = Frame.elided /\ f.res = res /\ f.body = b
  BY <1>1, <1>2 DEF Frames
<1> HIDE DEF f
<1>5. FrameWhole(Frame, mi[Frame.id].params) BY FrameIsWhole
<1>6. Stringifies(b, mi[Frame.id].params)
  <2>1. Stringifies(Frame.body, mi[Frame.id].params) BY <1>5 DEF FrameWhole
  <2> QED BY <1>1, <2>1, StringifiesSuffix
<1>7. FrameWhole(f, mi[f.id].params) BY <1>4, <1>5, <1>6 DEF FrameWhole
<1>8. FileWhole' /\ MacrosWhole' /\ InvWhole' /\ CallsWhole' /\ NoFault'
  BY <1>3, <1>4, <1>7, CallReplaced
<1>9. LexersWhole' BY <1>3 DEF Whole, LexersWhole
<1> QED BY <1>8, <1>9 DEF Whole

LEMMA CopyWhole ==
  ASSUME IInv, Whole, CopyToken
  PROVE  Whole'
<1>1. Substituting /\ Frame.body # <<>> /\ Substituted(Append(Frame.res, Cur), 1)
  BY DEF CopyToken, AtBody
<1>2. Frame.body \in Seq(Tokens) /\ Frame.res \in Seq(Tokens) /\ Cur \in Tokens
  BY <1>1, FrameIs
<1>3. PICK n \in Nat \ {0} : n = 1 OBVIOUS
<1>4. n <= Len(Frame.body) /\ 1 \in 1 .. Len(Frame.body) /\ Cur = Frame.body[1]
  BY <1>1, <1>2, <1>3 DEF Cur
<1>5. /\ Halves(Frame.res, Frame.body)
      /\ Frame.elided => NoCommaPasted(Frame.res, Frame.body)
  BY <1>1, FrameIsWhole
<1>6. Cur.s # "eof" BY <1>4, <1>5 DEF Halves, RightHalf
<1> DEFINE b == SubSeq(Frame.body, n + 1, Len(Frame.body))
<1>7. Halves(Append(Frame.res, Cur), b) BY <1>2, <1>3, <1>4, <1>5, <1>6, HalvesAppend
<1>8. Frame.elided => NoCommaPasted(Append(Frame.res, Cur), b)
  BY <1>2, <1>3, <1>4, <1>5, CommaAppend
<1>9. Append(Frame.res, Cur) \in Seq(Tokens) BY <1>2
<1>10. Substituted(Append(Frame.res, Cur), n) /\ n \in Nat BY <1>1, <1>3
<1> QED BY <1>1, <1>4, <1>7, <1>8, <1>9, <1>10, SubstitutedWhole

(* Every parameter has its argument.                                       *)
LEMMA HasArg ==
  ASSUME IInv, Whole, Substituting, NEW s, IsParam(Frame.id, s)
  PROVE  /\ ArgumentNum(Frame.id, s) \in 1 .. Len(Frame.args)
         /\ ArgumentNum(Frame.id, s) <= Len(Frame.args)
         /\ Frame.args[ArgumentNum(Frame.id, s)] \in Seq(Tokens)
<1>1. Frame \in Frames /\ mi[Frame.id] \in Infos BY FrameIs
<1>2. PICK ps \in Seq(Symbols) : ps = mi[Frame.id].params BY <1>1 DEF Infos
<1>3. PICK k \in DOMAIN ps : ps[k] = s BY <1>2 DEF IsParam, Range
<1>4. ArgumentNum(Frame.id, s) \in DOMAIN ps BY <1>2, <1>3 DEF ArgumentNum
<1>5. Len(ps) <= Len(Frame.args) BY <1>2, FrameIsWhole DEF FrameWhole
<1>6. PICK as \in Seq(Seq(Tokens)) : as = Frame.args BY <1>1 DEF Frames
<1>7. PICK a : a = ArgumentNum(Frame.id, s) OBVIOUS
<1>8. a \in 1 .. Len(ps) BY <1>4, <1>7
<1>9. a \in 1 .. Len(as) /\ a <= Len(as) BY <1>5, <1>6, <1>8
<1>10. as[a] \in Seq(Tokens) BY <1>6, <1>9
<1> QED BY <1>6, <1>7, <1>9, <1>10

LEMMA StringifyWhole ==
  ASSUME IInv, Whole, Stringify
  PROVE  Whole'
<1>1. Substituting /\ Frame.body # <<>> /\ Cur.s = "#" BY DEF Stringify, AtBody
<1>2. Frame.body \in Seq(Tokens) /\ Frame.res \in Seq(Tokens) BY <1>1, FrameIs
<1>3. 1 \in 1 .. Len(Frame.body) /\ Cur = Frame.body[1] BY <1>1, <1>2 DEF Cur
<1>4. 1 < Len(Frame.body) /\ Frame.body[1 + 1].s \in Range(mi[Frame.id].params)
  BY <1>1, <1>3, FrameIsWhole DEF FrameWhole, Stringifies
<1>5. IsParam(Frame.id, Frame.body[2].s) BY <1>4 DEF IsParam
<1>6. ArgumentNum(Frame.id, Frame.body[2].s) <= Len(Frame.args) BY <1>1, <1>5, HasArg
<1>7. ~(ArgumentNum(Frame.id, Frame.body[2].s) > Len(Frame.args))
  <2>1. PICK k \in Nat : k = Len(Frame.args)
    <3>1. Frame \in Frames BY <1>1, FrameIs
    <3>2. Frame.args \in Seq(Seq(Tokens)) BY <3>1 DEF Frames
    <3> QED BY <3>2
  <2>2. PICK a \in 1 .. k : a = ArgumentNum(Frame.id, Frame.body[2].s)
    BY <1>1, <1>5, <2>1, HasArg
  <2> QED BY <2>1, <2>2
<1>8. Substituted(Append(Frame.res, Tok("str")), 2) BY <1>7 DEF Stringify
<1>9. PICK n \in Nat \ {0} : n = 2 OBVIOUS
<1>10. n <= Len(Frame.body) BY <1>2, <1>4, <1>9
<1>11. PICK t \in Tokens : t = Tok("str") BY NamesAssumption DEF Tok, Tokens, Punctuators
<1>12. t.s \notin {"eof", "##", Comma} BY <1>11, CommaIs DEF Tok
<1>13. /\ Halves(Frame.res, Frame.body)
       /\ Frame.elided => NoCommaPasted(Frame.res, Frame.body)
  BY <1>1, FrameIsWhole
<1> DEFINE b == SubSeq(Frame.body, n + 1, Len(Frame.body))
<1>14. Halves(Append(Frame.res, t), b) BY <1>2, <1>10, <1>12, <1>13, HalvesAppend
<1>15. Frame.elided => NoCommaPasted(Append(Frame.res, t), b)
  BY <1>2, <1>10, <1>12, <1>13, CommaAppend
<1>16. Append(Frame.res, t) \in Seq(Tokens) BY <1>2
<1>17. Substituted(Append(Frame.res, t), n) /\ n \in Nat BY <1>8, <1>9, <1>11
<1> QED BY <1>1, <1>10, <1>14, <1>15, <1>16, <1>17, SubstitutedWhole

LEMMA ArgWhole ==
  ASSUME IInv, Whole, AtArgument
  PROVE  /\ Substituting /\ HaveArg /\ Arg \in Seq(Tokens) /\ Plain(Arg)
         /\ Frame.body \in Seq(Tokens) /\ Frame.body # <<>> /\ 1 <= Len(Frame.body)
         /\ Frame.res \in Seq(Tokens)
         /\ Halves(Frame.res, Frame.body)
         /\ Frame.elided => NoCommaPasted(Frame.res, Frame.body) /\ ~EndsIn(Arg, Comma)
         /\ PasteBefore <=> EndsIn(Frame.res, "##")
         /\ PasteAfter <=> BeginsWith(SubSeq(Frame.body, 2, Len(Frame.body)), "##")
<1>1. Substituting /\ Frame.body # <<>> /\ IsParam(Frame.id, Cur.s) BY DEF AtArgument, AtBody
<1>2. Frame.body \in Seq(Tokens) /\ Frame.res \in Seq(Tokens) BY <1>1, FrameIs
<1>3. /\ HaveArg /\ Arg \in Seq(Tokens)
      /\ ArgumentNum(Frame.id, Cur.s) \in 1 .. Len(Frame.args)
  BY <1>1, HasArg DEF HaveArg, Arg
<1>4. Plain(Arg) /\ (Frame.elided => ~EndsIn(Arg, Comma))
  BY <1>1, <1>3, FrameIsWhole DEF FrameWhole, Arg
<1>5. PasteBefore <=> EndsIn(Frame.res, "##")
  <2>1. Frame.res # <<>> => Last(Frame.res) = Frame.res[Len(Frame.res)] BY <1>2, FrontIs
  <2> QED BY <2>1 DEF PasteBefore, EndsIn
<1>6. PICK n \in Nat : n = 1 OBVIOUS
<1>7. Len(Frame.body) \in Nat \ {0} /\ n <= Len(Frame.body) /\ 1 <= Len(Frame.body)
  BY <1>1, <1>2, <1>6
<1>8. PasteAfter <=> BeginsWith(SubSeq(Frame.body, 2, Len(Frame.body)), "##")
  <2> DEFINE b == SubSeq(Frame.body, n + 1, Len(Frame.body))
  <2>1. /\ b \in Seq(Tokens) /\ Len(b) = Len(Frame.body) - n
        /\ \A i \in 1 .. Len(Frame.body) - n : b[i] = Frame.body[n + i]
    BY <1>2, <1>7, Suffix
  <2>2. b = SubSeq(Frame.body, 2, Len(Frame.body)) BY <1>6
  <2> HIDE DEF b
  <2>3. CASE Len(Frame.body) > 1
    <3>1. Len(b) # 0 /\ 1 \in 1 .. Len(Frame.body) - n /\ n + 1 = 2 BY <1>6, <1>7, <2>1, <2>3
    <3>2. b # <<>> /\ b[1] = Frame.body[2] BY <2>1, <3>1
    <3> QED BY <2>2, <2>3, <3>2 DEF PasteAfter, BeginsWith
  <2>4. CASE ~(Len(Frame.body) > 1)
    <3>0. PICK l \in Nat \ {0} : l = Len(Frame.body) BY <1>7
    <3>1. Len(b) = l - n BY <2>1, <3>0
    <3>2. ~(l > 1) BY <2>4, <3>0
    <3>3. Len(b) = 0
      <4>1. l = 1 BY <3>2
      <4> QED BY ONLY <1>6, <3>1, <4>1
    <3>4. b = <<>> BY <2>1, <3>3
    <3> QED BY <2>2, <2>4, <3>4 DEF PasteAfter, BeginsWith
  <2> QED BY <2>3, <2>4
<1> QED BY <1>1, <1>2, <1>3, <1>4, <1>5, <1>7, <1>8, FrameIsWhole

(* Tokens a are added to what is kept of the result.                       *)
LEMMA InsertWhole ==
  ASSUME IInv, Whole, AtArgument, NEW kept \in Seq(Tokens), NEW a \in Seq(Tokens), Plain(a),
         Halves(kept, Frame.body), Frame.elided => NoCommaPasted(kept, Frame.body),
         EndsIn(kept, "##") => a # <<>> /\ (Frame.elided => ~EndsIn(a, Comma)),
         a = <<>> => ~PasteAfter,
         Substituted(kept \o a, 1)
  PROVE  Whole'
<1>1. /\ Substituting /\ Frame.body \in Seq(Tokens) /\ Frame.body # <<>>
      /\ PasteAfter <=> BeginsWith(SubSeq(Frame.body, 2, Len(Frame.body)), "##")
  BY ArgWhole
<1>2. PICK n \in Nat : n = 1 OBVIOUS
<1>3. n <= Len(Frame.body) /\ n + 1 = 2 BY <1>2, ArgWhole
<1> DEFINE b == SubSeq(Frame.body, 2, Len(Frame.body))
           r == kept \o a
<1>4. Halves(r, b) BY <1>1, HalvesInsert
<1>5. Frame.elided => NoCommaPasted(r, b) BY <1>1, CommaInsert
<1>6. r \in Seq(Tokens) /\ Substituted(r, n) BY <1>2
<1>7. b = SubSeq(Frame.body, n + 1, Len(Frame.body)) BY <1>3
<1> HIDE DEF b, r
<1> QED BY <1>1, <1>3, <1>4, <1>5, <1>6, <1>7, SubstitutedWhole

LEMMA FrontPlain ==
  ASSUME NEW e \in Seq(Tokens), e # <<>>, AllButLastPlain(e)
  PROVE  Front(e) \in Seq(Tokens) /\ Plain(Front(e))
<1>1. /\ Front(e) \in Seq(Tokens) /\ Len(Front(e)) = Len(e) - 1
      /\ \A i \in 1 .. Len(e) - 1 : Front(e)[i] = e[i]
  BY FrontIs
<1> QED BY <1>1 DEF Plain, AllButLastPlain

LEMMA ArgumentWhole ==
  ASSUME IInv, Whole, SubstituteArgument
  PROVE  Whole'
<1>1. AtArgument /\ ~PasteBefore /\ ~PasteAfter BY DEF SubstituteArgument
<1>2. /\ Substituting /\ HaveArg /\ Arg \in Seq(Tokens) /\ Plain(Arg) /\ Frame.res \in Seq(Tokens)
      /\ Halves(Frame.res, Frame.body)
      /\ Frame.elided => NoCommaPasted(Frame.res, Frame.body)
      /\ ~EndsIn(Frame.res, "##")
  BY <1>1, ArgWhole
<1>3. CASE ~ArgNeedsPreexpansion
  <2>1. Substituted(Frame.res \o Arg, 1) BY <1>2, <1>3 DEF SubstituteArgument
  <2> QED BY <1>1, <1>2, <2>1, InsertWhole
<1>4. CASE ArgNeedsPreexpansion
  <2>1. Expanded # <<>> /\ Substituted(Frame.res \o Front(Expanded), 1)
    BY <1>2, <1>4 DEF SubstituteArgument
  <2>2. /\ Expanded \in Seq(Tokens) /\ ArgumentNum(Frame.id, Cur.s) \in Nat \ {0}
        /\ ArgumentNum(Frame.id, Cur.s) <= Len(Frame.pres)
    BY <1>1, <1>2, ArgumentIs
  <2>3. AllButLastPlain(Expanded)
    <3>1. Frame \in Frames BY <1>2, FrameIs
    <3>2. Len(Frame.pres) \in Nat BY <3>1 DEF Frames
    <3>3. ArgumentNum(Frame.id, Cur.s) \in 1 .. Len(Frame.pres) BY <2>2, <3>2
    <3> QED BY <1>2, <3>3, FrameIsWhole DEF FrameWhole, Expanded
  <2>4. Front(Expanded) \in Seq(Tokens) /\ Plain(Front(Expanded)) BY <2>1, <2>2, <2>3, FrontPlain
  <2> QED BY <1>1, <1>2, <2>1, <2>4, InsertWhole
<1> QED BY <1>3, <1>4

LEMMA PasteArgumentIs ==
  ASSUME PasteArgument
  PROVE  \/ PasteBefore /\ Substituted(Front(Frame.res) \o Arg, 1)
         \/ Substituted(Frame.res \o Arg, 1)
<1> DEFINE gnu == /\ PasteBefore /\ Len(Frame.res) >= 2
                  /\ Frame.res[Len(Frame.res) - 1].s = ","
                  /\ IsLastParam /\ mi[Frame.id].variadic
<1>1. Substituted((IF gnu THEN Front(Frame.res) ELSE Frame.res) \o Arg, 1)
  BY Zenon DEF PasteArgument
<1>2. gnu => PasteBefore BY Zenon
<1> HIDE DEF gnu
<1> QED BY <1>1, <1>2

LEMMA PasteArgumentWhole ==
  ASSUME IInv, Whole, PasteArgument
  PROVE  Whole'
<1>1. AtArgument /\ Arg # <<>> BY DEF PasteArgument
<1>2. /\ Arg \in Seq(Tokens) /\ Plain(Arg) /\ Frame.res \in Seq(Tokens)
      /\ Frame.body \in Seq(Tokens) /\ Halves(Frame.res, Frame.body)
      /\ Frame.elided => NoCommaPasted(Frame.res, Frame.body) /\ ~EndsIn(Arg, Comma)
      /\ PasteBefore <=> EndsIn(Frame.res, "##")
  BY <1>1, ArgWhole
<1>3. CASE Substituted(Frame.res \o Arg, 1) BY <1>1, <1>2, <1>3, InsertWhole
<1>4. CASE PasteBefore /\ Substituted(Front(Frame.res) \o Arg, 1)
  <2>1. EndsIn(Frame.res, "##") BY <1>2, <1>4
  <2>2. /\ Frame.res # <<>> /\ Halves(Front(Frame.res), Frame.body)
        /\ ~EndsIn(Front(Frame.res), "##")
    BY <1>2, <2>1, HalvesUnpaste
  <2>3. Front(Frame.res) \in Seq(Tokens) BY <1>2, <2>2, FrontIs
  <2>4. ~BeginsWith(Frame.body, "##") BY <1>2, <2>1 DEF Halves
  <2>5. Frame.elided => NoCommaPasted(Front(Frame.res), Frame.body)
    BY <1>2, <2>2, <2>4, CommaDrop
  <2> QED BY <1>1, <1>2, <1>4, <2>2, <2>3, <2>5, InsertWhole
<1> QED BY <1>3, <1>4, PasteArgumentIs

LEMMA PasteEmptyIs ==
  ASSUME PasteEmptyArgument, HaveArg
  PROVE  /\ Arg = <<>>
         /\ PasteAfter => Substituted(Frame.res, 2)
         /\ ~PasteAfter =>
              \/ Substituted(Front(Frame.res), 1)
              \/ /\ Frame.elided /\ Front(Frame.res) # <<>>
                 /\ Last(Front(Frame.res)).s = Comma
                 /\ Substituted(Front(Front(Frame.res)), 1)
<1> DEFINE kept == Front(Frame.res)
           comma == Last(kept).s = ","
           gone == /\ ~PasteAfter /\ IsLastParam /\ Frame.elided /\ kept # <<>> /\ comma
<1>1. Arg = <<>> BY Zenon DEF PasteEmptyArgument
<1>2. (CASE PasteAfter -> Substituted(Frame.res, 2)
         [] gone -> Substituted(Front(kept), 1)
         [] OTHER -> Substituted(kept, 1))
  BY Zenon DEF PasteEmptyArgument
<1>3. gone => /\ ~PasteAfter /\ Frame.elided /\ kept # <<>> /\ Last(kept).s = Comma
  BY Zenon DEF Comma
<1> HIDE DEF gone, kept
<1>4. PasteAfter => Substituted(Frame.res, 2) BY <1>2, <1>3
<1>5. ~PasteAfter => Substituted(kept, 1) \/ (gone /\ Substituted(Front(kept), 1))
  BY <1>2, <1>3
<1> QED BY <1>1, <1>3, <1>4, <1>5 DEF kept

LEMMA PasteEmptyWhole ==
  ASSUME IInv, Whole, PasteEmptyArgument
  PROVE  Whole'
<1>1. AtArgument /\ (PasteBefore \/ PasteAfter) BY DEF PasteEmptyArgument
<1>2. /\ Substituting /\ HaveArg /\ Frame.res \in Seq(Tokens)
      /\ Frame.body \in Seq(Tokens) /\ Halves(Frame.res, Frame.body)
      /\ Frame.elided => NoCommaPasted(Frame.res, Frame.body)
      /\ PasteBefore <=> EndsIn(Frame.res, "##")
  BY <1>1, ArgWhole
<1>3. CASE PasteAfter
  <2>1. Len(Frame.body) > 1 /\ Frame.body[2].s = "##" BY <1>3 DEF PasteAfter
  <2> DEFINE b == SubSeq(Frame.body, 3, Len(Frame.body))
  <2>2. Halves(Frame.res, b) BY <1>2, <2>1, HalvesSkip
  <2>3. Frame.elided => NoCommaPasted(Frame.res, b) BY <1>2, <2>1, CommaSkip
  <2>4. PICK n \in Nat : n = 2 OBVIOUS
  <2>5. Len(Frame.body) \in Nat BY <1>2
  <2>6. n <= Len(Frame.body) /\ n + 1 = 3 BY <2>1, <2>4, <2>5
  <2>7. Substituted(Frame.res, n) BY <1>2, <1>3, <2>4, PasteEmptyIs
  <2>8. b = SubSeq(Frame.body, n + 1, Len(Frame.body)) BY <2>6
  <2> HIDE DEF b
  <2> QED BY <1>2, <2>2, <2>3, <2>6, <2>7, <2>8, SubstitutedWhole
<1>4. CASE ~PasteAfter
  <2> DEFINE k == Front(Frame.res)
  <2>1. EndsIn(Frame.res, "##") BY <1>1, <1>2, <1>4
  <2>2. Frame.res # <<>> /\ Halves(k, Frame.body) /\ ~EndsIn(k, "##")
    BY <1>2, <2>1, HalvesUnpaste
  <2>3. k \in Seq(Tokens) BY <1>2, <2>2, FrontIs
  <2>4. ~BeginsWith(Frame.body, "##") BY <1>2, <2>1 DEF Halves
  <2>5. Frame.elided => NoCommaPasted(k, Frame.body) BY <1>2, <2>2, <2>4, CommaDrop
  <2>6. \/ Substituted(k, 1)
        \/ Frame.elided /\ k # <<>> /\ Last(k).s = Comma /\ Substituted(Front(k), 1)
    BY <1>2, <1>4, PasteEmptyIs
  <2>7. <<>> \in Seq(Tokens) /\ Plain(<<>>) BY PlainEmpty
  <2>8. CASE Substituted(k, 1)
    <3> HIDE DEF k
    <3>1. k \o <<>> = k BY <2>3
    <3> QED BY <1>1, <1>4, <2>2, <2>3, <2>5, <2>7, <2>8, <3>1, InsertWhole
  <2>9. CASE Frame.elided /\ k # <<>> /\ Last(k).s = Comma /\ Substituted(Front(k), 1)
    <3>1. EndsIn(k, Comma)
      <4>1. Last(k) = k[Len(k)] BY <2>3, <2>9, FrontIs
      <4> QED BY <2>9, <4>1 DEF EndsIn
    <3>2. ~EndsIn(Front(k), "##") BY <1>2, <2>1, <2>9, <3>1, CommaGoes
    <3> HIDE DEF k
    <3>3. Halves(Front(k), Frame.body) BY <1>2, <2>2, <2>3, <2>4, <2>9, <3>2, HalvesDrop
    <3>4. NoCommaPasted(Front(k), Frame.body) BY <1>2, <2>3, <2>4, <2>5, <2>9, <3>2, CommaDrop
    <3>5. PICK r \in Seq(Tokens) : r = Front(k) BY <2>3, <2>9, FrontIs
    <3>6. r \o <<>> = r OBVIOUS
    <3>7. Substituted(r \o <<>>, 1) BY <2>9, <3>5, <3>6
    <3>8. ~EndsIn(r, "##") /\ Halves(r, Frame.body) /\ NoCommaPasted(r, Frame.body)
      BY <3>2, <3>3, <3>4, <3>5
    <3> QED BY <1>1, <1>4, <2>7, <3>7, <3>8, InsertWhole
  <2> QED BY <2>6, <2>8, <2>9
<1> QED BY <1>3, <1>4

LEMMA PreExpandWhole ==
  ASSUME IInv, Whole, PreExpand
  PROVE  Whole'
<1>1. AtArgument /\ Expanded = <<>> BY DEF PreExpand
<1>2. /\ Substituting /\ HaveArg /\ Arg \in Seq(Tokens) /\ Plain(Arg)
  BY <1>1, ArgWhole
<1>3. /\ ArgumentNum(Frame.id, Cur.s) \in Nat \ {0}
      /\ ArgumentNum(Frame.id, Cur.s) <= Len(Frame.pres)
  BY <1>1, <1>2, ArgumentIs
<1>4. PICK k \in Nat \ {0} : k = ArgumentNum(Frame.id, Cur.s) /\ k <= Len(Frame.pres)
  BY <1>3
<1>5. Frame \in Frames /\ Frame = subs[Len(subs)] /\ Len(subs) \in Nat \ {0}
  BY <1>2, FrameIs
<1>6. subs \in Seq(Frames) /\ stk \in Seq(Lexers) BY DEF IInv, StackOK, StackTyped
<1> DEFINE l == [macro |-> 0, toks |-> Append(Arg, Tok("eof"))]
           f == [Frame EXCEPT !.pre = k]
<1>7. /\ UNCHANGED <<file, mi, macros, inv, fault>>
      /\ stk' = Append(stk, l) /\ subs' = [subs EXCEPT ![Len(subs)] = f]
  <2>1. subs' = [subs EXCEPT ![Len(subs)].pre = k] BY <1>4 DEF PreExpand
  <2> QED BY <1>5, <2>1 DEF PreExpand
<1>8. /\ f \in Frames /\ f.id = Frame.id /\ f.pre = k /\ f.args = Frame.args
      /\ f.pres = Frame.pres /\ f.elided = Frame.elided /\ f.res = Frame.res
      /\ f.body = Frame.body
  BY <1>4, <1>5 DEF Frames
<1>9. l \in Lexers /\ LexerWhole(l)
  <2>1. PICK t \in Tokens : t = Tok("eof") BY NamesAssumption DEF Tok, Tokens, Punctuators
  <2>2. t.s = "eof" BY <2>1 DEF Tok
  <2>3. AllButLastPlain(Append(Arg, t)) /\ EndsIn(Append(Arg, t), "eof")
    BY <1>2, <2>2, AppendPlain
  <2>4. Append(Arg, t) \in Seq(Tokens) BY <1>2
  <2> QED BY <2>1, <2>3, <2>4 DEF Lexers, LexerWhole
<1> HIDE DEF l, f
<1>10. LexersWhole' BY <1>6, <1>7, <1>9, LexerPushed DEF Whole, LexersWhole
<1>11. FrameWhole(Frame, mi[Frame.id].params) BY <1>2, FrameIsWhole
<1>12. Plain(f.pres[k])
  <2>1. f.pres[k] = <<>> BY <1>1, <1>4, <1>8 DEF Expanded
  <2> QED BY <2>1, PlainEmpty
<1>13. FrameWhole(f, mi[f.id].params) BY <1>8, <1>11, <1>12 DEF FrameWhole
<1>14. FileWhole' /\ MacrosWhole' /\ InvWhole' /\ CallsWhole' /\ NoFault'
  BY <1>2, <1>7, <1>8, <1>13, CallReplaced
<1> QED BY <1>10, <1>14 DEF Whole

(* What the halves come to, when nothing is left of the body.              *)
LEMMA HalvesDone ==
  ASSUME NEW res \in Seq(Tokens), Halves(res, <<>>)
  PROVE  Pasteable(res)
<1> SUFFICES ASSUME NEW i \in 1 .. Len(res)
             PROVE  /\ res[i].s # "eof"
                    /\ res[i].s = "##" => i > 1 /\ i < Len(res) /\ res[i + 1].s # "##"
  BY DEF Pasteable
<1>1. /\ res[i].s # "eof"
      /\ res[i].s = "##" => i > 1 /\ (i < Len(res) => res[i + 1].s # "##")
  BY DEF Halves, LeftHalf
<1>2. Len(res) \in Nat /\ res # <<>> OBVIOUS
<1>3. res[i].s = "##" => i # Len(res) BY <1>2 DEF Halves, EndsIn
<1>4. i # Len(res) => i < Len(res) BY <1>2
<1> QED BY <1>1, <1>3, <1>4

LEMMA StartWhole ==
  ASSUME IInv, Whole, MacrosTakeTurns', StartTokenLexer
  PROVE  Whole'
<1>1. Substituting /\ Frame.body = <<>> BY DEF StartTokenLexer
<1>2. /\ Frame.id \in 1 .. Len(mi) /\ Frame.res \in Seq(Tokens) /\ Len(subs) \in Nat \ {0}
      /\ inv = NoInv
  BY <1>1, FrameIs
<1>3. /\ subs \in Seq(Frames) /\ stk \in Seq(Lexers) /\ mi \in Seq(Infos)
  BY DEF IInv, StackOK, StackTyped
<1>4. mi[Frame.id].enabled
  <2> SUFFICES ASSUME ~mi[Frame.id].enabled PROVE FALSE OBVIOUS
  <2>1. Fail("Cannot disable an already-disabled macro!") BY DEF StartTokenLexer
  <2> QED BY <2>1 DEF Fail, MacrosTakeTurns
<1> DEFINE l == [macro |-> Frame.id, toks |-> Frame.res]
<1>5. /\ UNCHANGED <<file, macros, inv, fault>>
      /\ mi' = [mi EXCEPT ![Frame.id].enabled = FALSE]
      /\ stk' = Append(stk, l) /\ subs' = Front(subs)
  BY <1>4 DEF StartTokenLexer
<1>6. l \in Lexers /\ l.macro # 0 /\ l.toks = Frame.res BY <1>2 DEF Lexers
<1> HIDE DEF l
<1>7. LexerWhole(l)
  <2>1. Halves(Frame.res, <<>>) BY <1>1, FrameIsWhole
  <2>2. Pasteable(Frame.res) BY <1>2, <2>1, HalvesDone
  <2> QED BY <1>6, <2>2 DEF LexerWhole
<1>8. LexersWhole' BY <1>3, <1>5, <1>6, <1>7, LexerPushed DEF Whole, LexersWhole
<1>9. SameBodies BY <1>2, <1>3, <1>5, KeepsBodies
<1>10. MacrosWhole' /\ InvWhole' BY <1>5, <1>9, SameBodiesWhole
<1>11. CallsWhole'
  <2>1. subs # <<>> BY <1>2
  <2>2. /\ Len(subs') = Len(subs) - 1
        /\ \A i \in 1 .. Len(subs) - 1 : subs'[i] = subs[i]
    BY <1>3, <1>5, <2>1, FrontLast
  <2> SUFFICES ASSUME NEW i \in 1 .. Len(subs) - 1
               PROVE  FrameWhole(subs[i], mi'[subs[i].id].params)
    BY <2>2 DEF CallsWhole
  <2>3. i \in 1 .. Len(subs) BY <1>2
  <2>4. subs[i].id \in 1 .. Len(mi)
    <3>1. subs[i] \in Frames /\ Len(mi) \in Nat BY <1>3, <2>3
    <3>2. subs[i].id \in Nat \ {0} BY <3>1 DEF Frames
    <3>3. subs[i].id <= Len(mi) BY <2>3 DEF IInv, StackOK, StackTyped
    <3> QED BY <3>1, <3>2, <3>3
  <2>5. mi'[subs[i].id].params = mi[subs[i].id].params BY <1>9, <2>4 DEF SameBodies
  <2>6. FrameWhole(subs[i], mi[subs[i].id].params) BY <2>3 DEF Whole, CallsWhole
  <2> QED BY <2>5, <2>6
<1>12. FileWhole' /\ NoFault' BY <1>5 DEF Whole, FileWhole, NoFault
<1> QED BY <1>8, <1>10, <1>11, <1>12 DEF Whole

-----------------------------------------------------------------------------
(* Directives.  A name has the macro it had, or that of the directive.     *)

LEMMA DirectiveWhole ==
  ASSUME IInv, Whole, Conforming, stk = <<>>, ~Substituting, file # <<>>,
         Head(file).op # "tok", UNCHANGED <<stk, subs, inv, fault>>, file' = Tail(file),
         \A m \in Names :
           \/ /\ macros'[m] = macros[m]
              /\ macros[m] # 0 => mi'[macros[m]] = mi[macros[m]]
           \/ m = Head(file).name /\ (macros'[m] # 0 => BodyWhole(mi'[macros'[m]]))
  PROVE  Whole'
<1>1. subs = <<>> BY NoLexersNoCalls DEF IInv
<1>2. LexersWhole' /\ CallsWhole'
  <2>1. Len(<<>>) = 0 /\ 1 .. 0 = {} OBVIOUS
  <2> QED BY <1>1, <2>1 DEF LexersWhole, CallsWhole
<1>3. FileWhole' BY FileTail DEF IInv, Whole
<1>4. MacrosWhole'
  <2> SUFFICES ASSUME NEW m \in Names, macros'[m] # 0 PROVE BodyWhole(mi'[macros'[m]])
    BY DEF MacrosWhole, BodyWhole
  <2>1. macros[m] # 0 => BodyWhole(mi[macros[m]]) BY DEF Whole, MacrosWhole
  <2> QED BY <2>1
<1>5. InvWhole'
  <2> SUFFICES ASSUME Reading PROVE InvWhole' BY DEF InvWhole, Reading
  <2>1. inv.name \in Names /\ macros[inv.name] = inv.id /\ inv.id \in 1 .. Len(mi)
    BY InvocationWhole
  <2>2. Head(file).name # inv.name BY DEF Conforming
  <2>3. macros[inv.name] # 0 BY <2>1
  <2>4. macros'[inv.name] = macros[inv.name] /\ mi'[inv.id] = mi[inv.id] BY <2>1, <2>2, <2>3
  <2> QED BY <2>4 DEF Whole, InvWhole, Plain, EndsIn
<1>6. NoFault' BY DEF Whole, NoFault
<1> QED BY <1>2, <1>3, <1>4, <1>5, <1>6 DEF Whole

LEMMA FreeKeepsOthers ==
  ASSUME NEW objects \in Seq(Infos), NEW id \in 1 .. Len(objects),
         NEW i \in 1 .. Len(objects), i # id
  PROVE  FreeArgumentList(objects, id)[i] = objects[i]
BY DEF FreeArgumentList

LEMMA AllocatedIs ==
  ASSUME NEW objects, NEW id, NEW info \in Infos, mi \in Seq(Infos),
         AddressesApart(macros, micache, Len(mi)),
         id = IF micache = <<>> THEN Len(mi) + 1 ELSE Last(micache),
         objects = IF micache = <<>> THEN Append(mi, info) ELSE [mi EXCEPT ![id] = info]
  PROVE  objects[id] = info /\ \A i \in 1 .. Len(mi) : i # id => objects[i] = mi[i]
<1>1. CASE micache = <<>>
  <2>1. objects = Append(mi, info) /\ id = Len(mi) + 1 BY <1>1
  <2> QED BY <2>1, Appended
<1>2. CASE micache # <<>>
  <2>1. micache \in Seq(Nat \ {0}) BY DEF AddressesApart
  <2>2. Len(micache) \in 1 .. Len(micache) /\ id = micache[Len(micache)]
    BY <1>2, <2>1, FrontLast
  <2>3. id \in Nat \ {0} /\ id <= Len(mi) BY <2>1, <2>2 DEF AddressesApart
  <2>4. id \in 1 .. Len(mi)
    <3>1. Len(mi) \in Nat OBVIOUS
    <3> QED BY <2>3, <3>1
  <2>5. objects = [mi EXCEPT ![id] = info] BY <1>2
  <2>6. mi \in [1 .. Len(mi) -> Infos] OBVIOUS
  <2> QED BY <2>4, <2>5, <2>6
<1> QED BY <1>1, <1>2

(* What HandleDefine does not reject.                                      *)
LEMMA AcceptedWhole ==
  ASSUME NEW def \in Definitions, ~Rejected(def),
         \A j \in 1 .. Len(def.body) : def.body[j].s # "eof",
         NEW m, m.fn = def.fn, m.params = def.params, m.body = def.body
  PROVE  BodyWhole(m)
<1>1. PICK b \in Seq(Tokens) : b = def.body BY DEF Definitions
<1>2. b # <<>> => /\ b[1].s # "##" /\ Last(b).s # "##" /\ Last(b) = b[Len(b)]
                  /\ def.fn => \A i \in DOMAIN b : b[i].s = "#" =>
                       i # Len(b) /\ b[i + 1].s \in Range(def.params)
  BY <1>1, FrontIs DEF Rejected
<1>3. ~BeginsWith(b, "##") /\ ~EndsIn(b, "##") BY <1>2 DEF BeginsWith, EndsIn
<1>4. def.fn => Stringifies(b, def.params)
  <2> SUFFICES ASSUME def.fn, NEW j \in 1 .. Len(b), b[j].s = "#"
               PROVE  j < Len(b) /\ b[j + 1].s \in Range(def.params)
    BY DEF Stringifies
  <2>1. b # <<>> /\ j \in DOMAIN b /\ Len(b) \in Nat OBVIOUS
  <2>2. j # Len(b) /\ b[j + 1].s \in Range(def.params) BY <1>2, <2>1
  <2> QED BY <2>1, <2>2
<1> QED BY <1>1, <1>3, <1>4 DEF BodyWhole

LEMMA DefineWhole ==
  ASSUME IInv, Whole, Conforming, HandleDefine
  PROVE  Whole'
<1>1. /\ stk = <<>> /\ ~Substituting /\ file # <<>> /\ Head(file).op # "tok"
      /\ UNCHANGED <<stk, subs, inv, fault>> /\ file' = Tail(file)
  BY DEF HandleDefine, AtDirective, Lexing
<1>2. AllEnabled(mi) /\ AddressesApart(macros, micache, Len(mi))
  BY <1>1, EmptyStack DEF IInv
<1> DEFINE name == Head(file).name
           def == Head(file).def
           id == IF micache = <<>> THEN Len(mi) + 1 ELSE Last(micache)
           cache == IF micache = <<>> THEN <<>> ELSE Front(micache)
           info == [fn |-> def.fn, params |-> def.params, variadic |-> def.variadic,
                    body |-> def.body, enabled |-> TRUE]
           objects == IF micache = <<>> THEN Append(mi, info) ELSE [mi EXCEPT ![id] = info]
           old == macros[name]
<1>3. /\ name \in Names /\ def \in Definitions
      /\ \A j \in 1 .. Len(def.body) : def.body[j].s # "eof"
  <2>1. file \in Seq(Items) /\ Head(file) = file[1] /\ 1 \in 1 .. Len(file)
    BY <1>1 DEF IInv, DataTyped
  <2>2. Head(file).op # "tok" BY <1>1
  <2>3. Head(file) \in Items BY <2>1
  <2>4. Head(file).def \in Definitions BY <2>3 DEF Items
  <2>5. Head(file).name \in Names BY <2>1, <2>2 DEF IInv, DataTyped
  <2>6. \A j \in 1 .. Len(file[1].def.body) : file[1].def.body[j].s # "eof"
    BY <2>1 DEF Whole, FileWhole
  <2> QED BY <2>1, <2>4, <2>5, <2>6
<1>4. info \in Infos /\ info.enabled BY <1>3 DEF Definitions, Infos
<1>5. Len(mi) \in Nat /\ mi \in Seq(Infos) /\ macros \in [Names -> Nat]
      /\ \A m \in Names : macros[m] <= Len(mi)
  BY DEF IInv, StackOK, StackTyped
<1>6. IF Rejected(def)
        THEN mi' = FreeArgumentList(objects, id) /\ macros' = macros
        ELSE /\ mi' = IF old = 0 THEN objects ELSE FreeArgumentList(objects, old)
             /\ macros' = [macros EXCEPT ![name] = id]
  BY DEF HandleDefine
<1>7. info.fn = def.fn /\ info.params = def.params /\ info.body = def.body OBVIOUS
<1> HIDE DEF info
<1>8. /\ objects \in Seq(Infos) /\ id \in 1 .. Len(objects) /\ Len(mi) <= Len(objects)
      /\ \A n \in Names : macros[n] # id
  BY <1>2, <1>4, <1>5, Allocation
<1>9. objects[id] = info /\ \A i \in 1 .. Len(mi) : i # id => objects[i] = mi[i]
  BY <1>2, <1>4, <1>5, AllocatedIs
<1> HIDE DEF id, objects, name, def, old
<1>10. \A m \in Names : macros[m] # 0 =>
         /\ macros[m] \in 1 .. Len(mi) /\ macros[m] \in 1 .. Len(objects)
         /\ objects[macros[m]] = mi[macros[m]]
  <2> TAKE m \in Names
  <2> HAVE macros[m] # 0
  <2>1. macros[m] \in Nat /\ macros[m] <= Len(mi) BY <1>5
  <2>2. Len(objects) \in Nat BY <1>8
  <2>3. macros[m] \in 1 .. Len(mi) /\ macros[m] \in 1 .. Len(objects)
    BY <1>5, <1>8, <2>1, <2>2
  <2> QED BY <1>8, <1>9, <2>3
<1>11. SUFFICES ASSUME NEW m \in Names
                PROVE  \/ /\ macros'[m] = macros[m]
                          /\ macros[m] # 0 => mi'[macros[m]] = mi[macros[m]]
                       \/ m = name /\ (macros'[m] # 0 => BodyWhole(mi'[macros'[m]]))
  BY <1>1, <1>11, DirectiveWhole DEF name
<1>12. CASE Rejected(def)
  <2>1. mi' = FreeArgumentList(objects, id) /\ macros' = macros BY <1>6, <1>12
  <2>2. macros[m] # 0 => mi'[macros[m]] = mi[macros[m]]
    BY <1>8, <1>10, <2>1, FreeKeepsOthers
  <2> QED BY <2>1, <2>2
<1>13. CASE ~Rejected(def)
  <2>1. /\ mi' = IF old = 0 THEN objects ELSE FreeArgumentList(objects, old)
        /\ macros' = [macros EXCEPT ![name] = id]
    BY <1>6, <1>13
  <2>2. old # 0 => old \in 1 .. Len(objects) BY <1>3, <1>10 DEF old
  <2>3. \A i \in 1 .. Len(objects) : i # old => mi'[i] = objects[i]
    BY <1>8, <2>1, <2>2, FreeKeepsOthers
  <2>4. CASE m = name
    <3>1. macros'[m] = id BY <1>5, <2>1, <2>4
    <3>2. id # old BY <1>3, <1>8 DEF old
    <3>3. mi'[id] = info BY <1>8, <1>9, <2>3, <3>2
    <3>4. BodyWhole(info) BY <1>3, <1>7, <1>13, AcceptedWhole
    <3> QED BY <2>4, <3>1, <3>3, <3>4
  <2>5. CASE m # name
    <3>1. macros'[m] = macros[m] BY <1>5, <2>1, <2>5
    <3>2. macros[m] # 0 => macros[m] # old BY <1>2, <1>3, <2>5 DEF AddressesApart, old
    <3>3. macros[m] # 0 => mi'[macros[m]] = mi[macros[m]] BY <1>10, <2>3, <3>2
    <3> QED BY <3>1, <3>3
  <2> QED BY <2>4, <2>5
<1> QED BY <1>12, <1>13

LEMMA UndefWhole ==
  ASSUME IInv, Whole, Conforming, HandleUndef
  PROVE  Whole'
<1>1. /\ stk = <<>> /\ ~Substituting /\ file # <<>> /\ Head(file).op # "tok"
      /\ UNCHANGED <<stk, subs, inv, fault>> /\ file' = Tail(file)
  BY DEF HandleUndef, AtDirective, Lexing
<1>2. AddressesApart(macros, micache, Len(mi)) BY <1>1, EmptyStack DEF IInv
<1> DEFINE name == Head(file).name
           old == macros[name]
<1>3. name \in Names
  <2>1. file \in Seq(Items) /\ Head(file) = file[1] /\ 1 \in 1 .. Len(file)
    BY <1>1 DEF IInv, DataTyped
  <2>2. Head(file).op # "tok" BY <1>1
  <2> QED BY <2>1, <2>2 DEF IInv, DataTyped
<1>4. Len(mi) \in Nat /\ mi \in Seq(Infos) /\ macros \in [Names -> Nat]
  BY DEF IInv, StackOK, StackTyped
<1>5. IF old = 0 THEN mi' = mi /\ macros' = macros
      ELSE mi' = FreeArgumentList(mi, old) /\ macros' = [macros EXCEPT ![name] = 0]
  BY DEF HandleUndef
<1>6. \A m \in Names : macros[m] # 0 => macros[m] \in 1 .. Len(mi)
  BY MacroIs DEF IInv, StackOK
<1> HIDE DEF name, old
<1>7. SUFFICES ASSUME NEW m \in Names
               PROVE  \/ /\ macros'[m] = macros[m]
                         /\ macros[m] # 0 => mi'[macros[m]] = mi[macros[m]]
                      \/ m = name /\ (macros'[m] # 0 => BodyWhole(mi'[macros'[m]]))
  BY <1>1, <1>7, DirectiveWhole DEF name
<1>8. CASE old = 0 BY <1>5, <1>8
<1>9. CASE old # 0
  <2>1. mi' = FreeArgumentList(mi, old) /\ macros' = [macros EXCEPT ![name] = 0] BY <1>5, <1>9
  <2>2. CASE m = name
    <3>1. macros'[m] = 0 BY <1>4, <2>1, <2>2
    <3> QED BY <2>2, <3>1
  <2>3. CASE m # name
    <3>1. macros'[m] = macros[m] BY <1>4, <2>1, <2>3
    <3>2. macros[m] # 0 => macros[m] # old BY <1>2, <1>3, <2>3 DEF AddressesApart, old
    <3>3. old \in 1 .. Len(mi) BY <1>3, <1>6, <1>9 DEF old
    <3>4. macros[m] # 0 => mi'[macros[m]] = mi[macros[m]]
      BY <1>4, <1>6, <2>1, <3>2, <3>3, FreeKeepsOthers
    <3> QED BY <3>1, <3>4
  <2> QED BY <2>2, <2>3
<1> QED BY <1>8, <1>9

-----------------------------------------------------------------------------
LEMMA InitWhole ==
  ASSUME Init
  PROVE  Whole
<1>1. /\ file \in Files /\ stk = <<>> /\ subs = <<>> /\ inv = NoInv /\ fault = "none"
      /\ \A n \in Names : macros[n] = 0
  BY DEF Init
<1>2. FileWhole
  <2>1. file \in Seq(Items) BY <1>1, FilesAssumption
  <2> SUFFICES ASSUME NEW i \in 1 .. Len(file)
               PROVE  /\ file[i].name # "eof"
                      /\ \A j \in 1 .. Len(file[i].def.body) : file[i].def.body[j].s # "eof"
    BY DEF FileWhole
  <2>2. i \in DOMAIN file /\ file[i] \in Items BY <2>1
  <2>3. file[i].def.body \in Seq(Tokens) BY <2>2 DEF Items, Definitions
  <2>4. \A j \in 1 .. Len(file[i].def.body) : j \in DOMAIN file[i].def.body BY <2>3
  <2>5. /\ file[i].name # "eof"
        /\ \A j \in DOMAIN file[i].def.body : file[i].def.body[j].s # "eof"
    BY <1>1, <2>2, FilesAssumption
  <2> QED BY <2>4, <2>5
<1>3. Len(<<>>) = 0 /\ 1 .. 0 = {} OBVIOUS
<1>4. MacrosWhole /\ InvWhole /\ LexersWhole /\ CallsWhole /\ NoFault
  BY <1>1, <1>3 DEF MacrosWhole, InvWhole, Reading, LexersWhole, CallsWhole, NoFault
<1> QED BY <1>2, <1>4 DEF Whole

LEMMA SameWhole ==
  ASSUME Whole, UNCHANGED vars
  PROVE  Whole'
<1>1. UNCHANGED <<file, mi, macros, stk, subs, inv, fault>> BY DEF vars
<1>2. FileWhole' BY <1>1 DEF Whole, FileWhole
<1>3. MacrosWhole' BY <1>1 DEF Whole, MacrosWhole, BodyWhole
<1>4. InvWhole' BY <1>1 DEF Whole, InvWhole, Reading, Plain, EndsIn
<1>5. LexersWhole' BY <1>1 DEF Whole, LexersWhole
<1>6. CallsWhole' BY <1>1 DEF Whole, CallsWhole
<1>7. NoFault' BY <1>1 DEF Whole, NoFault
<1> QED BY <1>2, <1>3, <1>4, <1>5, <1>6, <1>7 DEF Whole

LEMMA NextWhole ==
  ASSUME IInv, Whole, Conforming, [Next]_vars
  PROVE  Whole'
<1>0. MacrosTakeTurns' BY NextKeeps DEF IInv
<1>1. CASE UNCHANGED vars BY <1>1, SameWhole
<1>2. CASE PopTokenLexer BY <1>0, <1>2, PopWhole
<1>3. CASE PasteTokens BY <1>3, PasteWhole
<1>4. CASE ReturnToken BY <1>4, ReturnWhole
<1>5. CASE ExpandObject BY <1>0, <1>5, ObjectWhole
<1>6. CASE BeginInvocation BY <1>6, BeginWhole
<1>7. CASE ReadLParen BY <1>7, ParenWhole
<1>8. CASE ReadArgToken BY <1>8, ArgTokenWhole
<1>9. CASE EndArgument BY <1>9, ArgumentEndWhole
<1>10. CASE EndInvocation BY <1>0, <1>10, InvocationEndWhole
<1>11. CASE UnterminatedInvocation BY <1>11, UnterminatedWhole
<1>12. CASE CopyToken BY <1>12, CopyWhole
<1>13. CASE Stringify BY <1>13, StringifyWhole
<1>14. CASE PreExpand BY <1>14, PreExpandWhole
<1>15. CASE SubstituteArgument BY <1>15, ArgumentWhole
<1>16. CASE PasteArgument BY <1>16, PasteArgumentWhole
<1>17. CASE PasteEmptyArgument BY <1>17, PasteEmptyWhole
<1>18. CASE StartTokenLexer BY <1>0, <1>18, StartWhole
<1>19. CASE HandleDefine BY <1>19, DefineWhole
<1>20. CASE HandleUndef BY <1>20, UndefWhole
<1> QED
  BY <1>1, <1>2, <1>3, <1>4, <1>5, <1>6, <1>7, <1>8, <1>9, <1>10, <1>11, <1>12, <1>13,
     <1>14, <1>15, <1>16, <1>17, <1>18, <1>19, <1>20 DEF Next

(* No assertion fails, while the files keep to Conforming: every ## has    *)
(* its operands when PasteTokens comes to it, every parameter its argument *)
(* in ExpandFunctionArguments, every argument that getPreExpArgument       *)
(* enters its eof, and the macro that was named is still the one that is   *)
(* entered at the end of its arguments.                                    *)
THEOREM FaultFree == Spec /\ []Conforming => []NoFault
<1>1. Init => Whole BY InitWhole
<1>2. IInv /\ Whole /\ Conforming /\ [Next]_vars => Whole' BY NextWhole
<1>3. Whole => NoFault BY DEF Whole
<1> QED BY <1>1, <1>2, <1>3, Inductive, PTL DEF Spec
=============================================================================
