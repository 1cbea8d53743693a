--------------------------- MODULE MacroExpansion ---------------------------
(***************************************************************************)
(* Macro expansion: Lex/PPMacroExpansion.cpp, Lex/TokenLexer.cpp,          *)
(* Lex/MacroArgs.cpp, and the #define and #undef of Lex/PPDirectives.cpp.  *)
(*                                                                         *)
(* The calls that nest in the code (Lex, HandleMacroExpandedIdentifier,    *)
(* ReadFunctionLikeMacroArgs, ExpandFunctionArguments, getPreExpArgument)  *)
(* are laid out as a machine: "subs" holds the TokenLexer::Init calls in   *)
(* progress, innermost last, and "inv" the invocation whose arguments are  *)
(* being read, if any.  A token is its spelling, or kind, and its          *)
(* DisableExpand flag.                                                     *)
(***************************************************************************)
EXTENDS Integers, Sequences, SequencesExt, FiniteSetsExt, Functions

CONSTANTS
  Names,      \* the identifiers that may name macros
  Symbols,    \* all spellings
  Glue,       \* the spelling that two spellings pasted together form
  Files       \* the main files: sequences of tokens and directives

Punctuators == {"(", ")", ",", "#", "##", "/"}

ASSUME NamesAssumption ==
  /\ Names \subseteq Symbols
  /\ Punctuators \cup {"eof", "str", "unknown"} \subseteq Symbols \ Names

(* "//" starts a comment, and no token but "(" starts with "(".            *)
ASSUME GlueAssumption ==
  /\ DOMAIN Glue \subseteq (Symbols \ {"eof"}) \X (Symbols \ {"eof"})
  /\ <<"/", "/">> \notin DOMAIN Glue
  /\ \A pair \in DOMAIN Glue : /\ Glue[pair] \in Symbols \ {"eof", "##"}
                                /\ pair[1] # "("

Tokens == [s : Symbols, ne : BOOLEAN]
Tok(s) == [s |-> s, ne |-> FALSE]

(* What a #define line says of a macro. *)
Definitions ==
  [fn : BOOLEAN, params : Seq(Symbols), variadic : BOOLEAN, body : Seq(Tokens)]

NoDefinition ==
  [fn |-> FALSE, params |-> <<>>, variadic |-> FALSE, body |-> <<>>]

(* A token or a directive of the main file. *)
Items == [op : {"tok", "define", "undef"}, name : Symbols, def : Definitions]

ASSUME FilesAssumption ==
  /\ Files \subseteq Seq(Items)
  /\ \A f \in Files : \A i \in DOMAIN f :
       /\ f[i].op # "tok" => f[i].name \in Names
       /\ f[i].name # "eof"
       /\ f[i].def.variadic => f[i].def.params # <<>>
       /\ f[i].def.params # <<>> => f[i].def.fn
       /\ \A j \in DOMAIN f[i].def.body :
            f[i].def.body[j].s # "eof" /\ ~f[i].def.body[j].ne

VARIABLES
  input,    \* the main file (a history variable)
  file,     \* what is left of it
  mi,       \* the MacroInfo objects, by address
  macros,   \* Macros: the address of a name's MacroInfo, or 0
  micache,  \* MICache: the released addresses
  stk,      \* the TokenLexers above the file, with what is left of each
  subs,     \* the calls of TokenLexer::Init under way
  inv,      \* the invocation whose arguments are being read, or NoInv
  out,      \* the tokens returned to the client
  done,     \* the client was given eof
  errors,   \* an error was diagnosed
  fault,    \* the assertion that failed, or "none"
  unpainted \* a disabled name was delivered without its flag (history)

vars == <<input, file, mi, macros, micache, stk, subs, inv, out, done,
          errors, fault, unpainted>>

NoInv == [id |-> 0]

-----------------------------------------------------------------------------
Top == Last(stk)
NumArgs(id) == Len(mi[id].params)
IsParam(id, s) == s \in Range(mi[id].params)
ArgumentNum(id, s) == CHOOSE k \in DOMAIN mi[id].params : mi[id].params[k] = s

(* The MacroInfo that a spelling names, or 0. *)
MacroOf(s) == IF s \in Names THEN macros[s] ELSE 0
Disabled(s) == MacroOf(s) # 0 /\ ~mi[MacroOf(s)].enabled
Enabled(s) == MacroOf(s) # 0 /\ mi[MacroOf(s)].enabled

Running == fault = "none" /\ ~done

(* Tokens are being substituted, or else a call of Lex is under way: of    *)
(* LexUnexpandedToken while arguments are read.                            *)
Reading == inv # NoInv
Substituting == ~Reading /\ subs # <<>> /\ Last(subs).pre = 0
Lexing == Running /\ ~Substituting

Fail(what) ==
  /\ fault' = what
  /\ UNCHANGED <<input, file, mi, macros, micache, stk, subs, inv, out, done,
                 errors, unpainted>>

-----------------------------------------------------------------------------
(* The next token, if the lexer on top has one to deliver.                 *)
PasteIsNext ==
  stk # <<>> /\ Len(Top.toks) >= 2 /\ Top.toks[2].s = "##"

HaveToken ==
  /\ Lexing
  /\ IF stk = <<>> THEN file # <<>> => Head(file).op = "tok"
     ELSE Top.toks # <<>> /\ ~PasteIsNext

Token == IF stk # <<>> THEN Head(Top.toks)
         ELSE IF file = <<>> THEN Tok("eof") ELSE Tok(Head(file).name)

(* The lexers once it is consumed. *)
StkAfter == IF stk = <<>> THEN <<>>
            ELSE [stk EXCEPT ![Len(stk)].toks = Tail(@)]
FileAfter == IF stk # <<>> \/ file = <<>> THEN file ELSE Tail(file)

Consume == file' = FileAfter /\ UNCHANGED <<input, macros, micache>>

(* isNextPPTokenLParen walks up the macro stack, past the lexers that are  *)
(* at their end, to the main file.                                         *)
LParenIsNext(lexers, rest) ==
  \/ \E i \in DOMAIN lexers :
       /\ lexers[i].toks # <<>> /\ lexers[i].toks[1].s = "("
       /\ \A j \in i + 1 .. Len(lexers) : lexers[j].toks = <<>>
  \/ /\ \A i \in DOMAIN lexers : lexers[i].toks = <<>>
     /\ rest # <<>> /\ Head(rest).op = "tok" /\ Head(rest).name = "("

NextPPTokenIsLParen ==
  LParenIsNext(StkAfter, FileAfter)

(* Token t is returned to who called Lex: getPreExpArgument, which at eof  *)
(* pops the stream it had entered, or the client.  The code pops what is   *)
(* on top without a look; the model stops where that is something else.    *)
Deliver(t) ==
  IF subs = <<>> THEN
    /\ stk' = StkAfter
    /\ IF t.s = "eof" THEN done' = TRUE /\ UNCHANGED out
       ELSE out' = Append(out, t) /\ UNCHANGED done
    /\ UNCHANGED <<subs, fault>>
  ELSE IF t.s = "eof" /\ (Top.macro # 0 \/ Len(Top.toks) # 1) THEN
    /\ fault' = "popped another lexer than the argument"
    /\ UNCHANGED <<stk, subs, out, done>>
  ELSE
    LET f == Last(subs) IN
    /\ subs' = [subs EXCEPT ![Len(subs)] =
                  [f EXCEPT !.pres[f.pre] = Append(@, t),
                            !.pre = IF t.s = "eof" THEN 0 ELSE @]]
    /\ stk' = IF t.s = "eof" THEN Front(StkAfter) ELSE StkAfter
    /\ UNCHANGED <<out, done, fault>>

(* Lexing off the end of a TokenLexer; a token stream is not read to its   *)
(* end, its eof comes first.                                               *)
PopTokenLexer ==
  /\ Lexing /\ stk # <<>> /\ Top.toks = <<>>
  /\ IF Top.macro = 0 THEN Fail("read past the end of an argument")
     ELSE IF mi[Top.macro].enabled
       THEN Fail("Cannot enable an already-enabled macro!")
     ELSE /\ mi' = [mi EXCEPT ![Top.macro].enabled = TRUE]
          /\ stk' = Front(stk)
          /\ UNCHANGED <<input, file, macros, micache, subs, inv, out, done,
                         errors, fault, unpainted>>

(* PasteTokens, one ## at a time: the pasted text is lexed again, as an    *)
(* eof when it starts a comment, and if it is not one token the right      *)
(* operand is not consumed.                                                *)
CanPaste(l, r) == <<l, r>> \in DOMAIN Glue \/ "eof" \in {l, r}
Pasted(l, r) == CASE <<l, r>> \in DOMAIN Glue -> Glue[<<l, r>>]
                  [] <<l, r>> = <<"/", "/">>  -> "eof"
                  [] r = "eof"                -> l
                  [] l = "eof"                -> IF r = "##" THEN "unknown" ELSE r
                  [] OTHER                    -> l

PasteTokens ==
  /\ Lexing /\ PasteIsNext
  /\ IF Len(Top.toks) = 2
       THEN Fail("No token on the RHS of a paste operator!")
     ELSE
       LET l == Top.toks[1].s
           r == Top.toks[3].s
           from == IF CanPaste(l, r) THEN 4 ELSE 3
       IN /\ stk' = [stk EXCEPT ![Len(stk)].toks =
                        <<Tok(Pasted(l, r))>> \o SubSeq(@, from, Len(@))]
          /\ errors' = (errors \/ ~CanPaste(l, r))
          /\ UNCHANGED <<input, file, mi, macros, micache, subs, inv, out,
                         done, fault, unpainted>>

-----------------------------------------------------------------------------
(* Entering the body of a macro, with the arguments read for it.           *)

(* isTrivialSingleTokenExpansion. *)
Trivial(id, name) ==
  LET s == mi[id].body[1].s
  IN /\ Enabled(s) => s = name
     /\ mi[id].fn => ~IsParam(id, s)

(* A mutated form: an object-like macro stays enabled. *)
EnterMacro_Enabled(name, args, elided) ==
  LET id == MacroOf(name) IN
  IF id = 0 THEN
    /\ fault' = "null macro"
    /\ stk' = StkAfter
    /\ UNCHANGED <<mi, subs>>
  ELSE IF mi[id].fn /\ mi[id].params # <<>> THEN
    /\ subs' = Append(subs,
         [id |-> id, args |-> args, elided |-> elided, body |-> mi[id].body,
          res |-> <<>>, pre |-> 0, pres |-> [k \in DOMAIN args |-> <<>>]])
    /\ stk' = StkAfter
    /\ UNCHANGED <<mi, fault>>
  ELSE
    /\ stk' = Append(StkAfter, [macro |-> id, toks |-> mi[id].body])
    /\ UNCHANGED <<mi, fault, subs>>

(* EnterMacro makes a TokenLexer, whose Init looks the name up again.  The *)
(* macro is disabled only once its arguments are expanded.                 *)
EnterMacro(name, args, elided) ==
  LET id == MacroOf(name) IN
  IF id = 0 THEN
    /\ fault' = "null macro"
    /\ stk' = StkAfter
    /\ UNCHANGED <<mi, subs>>
  ELSE IF mi[id].fn /\ mi[id].params # <<>> THEN
    /\ subs' = Append(subs,
         [id |-> id, args |-> args, elided |-> elided, body |-> mi[id].body,
          res |-> <<>>, pre |-> 0, pres |-> [k \in DOMAIN args |-> <<>>]])
    /\ stk' = StkAfter
    /\ UNCHANGED <<mi, fault>>
  ELSE
    /\ mi' = [mi EXCEPT ![id].enabled = FALSE]
    /\ stk' = Append(StkAfter, [macro |-> id, toks |-> mi[id].body])
    /\ fault' = IF mi[id].enabled THEN fault
                ELSE "Cannot disable an already-disabled macro!"
    /\ UNCHANGED subs

(* The end of HandleMacroExpandedIdentifier: no token, one token that      *)
(* expands to itself, or a new TokenLexer.                                 *)
ExpandBody(id, name, args, elided) ==
  LET body == mi[id].body IN
  IF body = <<>> THEN
    stk' = StkAfter /\ UNCHANGED <<mi, subs, out, done, fault, unpainted>>
  ELSE IF Len(body) = 1 /\ Trivial(id, name) THEN
    /\ Deliver([body[1] EXCEPT !.ne = @ \/ MacroOf(body[1].s) = id])
    /\ unpainted' = (unpainted \/ (Disabled(body[1].s)
                                  /\ MacroOf(body[1].s) # id))
    /\ UNCHANGED mi
  ELSE
    EnterMacro(name, args, elided) /\ UNCHANGED <<out, done, unpainted>>

-----------------------------------------------------------------------------
(* HandleIdentifier, with expansion enabled.                               *)
Expands(t) ==
  /\ ~t.ne /\ Enabled(t.s)
  /\ mi[MacroOf(t.s)].fn => NextPPTokenIsLParen

(* A disabled macro may never again be expanded. *)
ReturnToken ==
  /\ HaveToken /\ ~Reading /\ ~Expands(Token)
  /\ Deliver([Token EXCEPT !.ne = @ \/ Disabled(Token.s)])
  /\ Consume
  /\ UNCHANGED <<mi, inv, errors, unpainted>>

ExpandObject ==
  /\ HaveToken /\ ~Reading /\ Expands(Token)
  /\ LET id == MacroOf(Token.s)
     IN ~mi[id].fn /\ ExpandBody(id, Token.s, <<>>, FALSE)
  /\ Consume
  /\ UNCHANGED <<inv, errors>>

BeginInvocation ==
  /\ HaveToken /\ ~Reading /\ Expands(Token)
  /\ LET id == MacroOf(Token.s) IN
     /\ mi[id].fn
     /\ inv' = [id |-> id, name |-> Token.s, variadic |-> mi[id].variadic,
                left |-> NumArgs(id), open |-> FALSE, parens |-> 0,
                args |-> <<>>, cur |-> <<>>]
  /\ stk' = StkAfter
  /\ Consume
  /\ UNCHANGED <<mi, subs, out, done, errors, fault, unpainted>>

-----------------------------------------------------------------------------
(* ReadFunctionLikeMacroArgs, with expansion disabled.                     *)
ReadLParen ==
  /\ HaveToken /\ Reading /\ ~inv.open
  /\ IF Token.s # "(" THEN Fail("Error computing l-paren-ness?")
     ELSE /\ inv' = [inv EXCEPT !.open = TRUE]
          /\ stk' = StkAfter
          /\ Consume
          /\ UNCHANGED <<mi, subs, out, done, errors, fault,
                         unpainted>>

(* What ends an argument.  In the variadic part a comma does not. *)
Closes(t) == t.s = ")" /\ inv.parens = 0
Separates(t) == /\ t.s = "," /\ inv.parens = 0
                /\ inv.variadic => inv.left > 1

(* A mutated form: tokens keep no record of the macros disabled now. *)
ReadArgToken_Unmarked ==
  /\ HaveToken /\ Reading /\ inv.open
  /\ LET t == Token IN
     /\ t.s # "eof" /\ ~Closes(t) /\ ~Separates(t)
     /\ inv' = [inv EXCEPT
          !.cur = Append(@, t),
          !.parens = CASE t.s = "(" -> @ + 1 [] t.s = ")" -> @ - 1 [] OTHER -> @]
  /\ stk' = StkAfter
  /\ Consume
  /\ UNCHANGED <<mi, subs, out, done, errors, fault, unpainted>>

(* A token of the argument; macros being expanded now may end, and be      *)
(* enabled, before it is expanded.                                         *)
ReadArgToken ==
  /\ HaveToken /\ Reading /\ inv.open
  /\ LET t == Token IN
     /\ t.s # "eof" /\ ~Closes(t) /\ ~Separates(t)
     /\ inv' = [inv EXCEPT
          !.cur = Append(@, [t EXCEPT !.ne = @ \/ Disabled(t.s)]),
          !.parens = CASE t.s = "(" -> @ + 1 [] t.s = ")" -> @ - 1 [] OTHER -> @]
  /\ stk' = StkAfter
  /\ Consume
  /\ UNCHANGED <<mi, subs, out, done, errors, fault, unpainted>>

(* The invocation is dropped, and the token returned in its place. *)
GiveUp(t) ==
  /\ inv' = NoInv /\ errors' = TRUE
  /\ Deliver(t)
  /\ UNCHANGED <<mi, unpainted>>

(* A mutated form: the eof is lost. *)
UnterminatedInvocation_LosesEof ==
  /\ HaveToken /\ Reading /\ inv.open /\ Token.s = "eof"
  /\ GiveUp(Tok(inv.name)) /\ Consume

UnterminatedInvocation ==
  /\ HaveToken /\ Reading /\ inv.open /\ Token.s = "eof"
  /\ GiveUp(Token) /\ Consume

TooManyArgs == ~inv.variadic /\ inv.left = 0

EndArgument ==
  /\ HaveToken /\ Reading /\ inv.open /\ Separates(Token)
  /\ IF TooManyArgs THEN GiveUp(Tok(inv.name))
     ELSE /\ inv' = [inv EXCEPT !.args = Append(@, inv.cur), !.cur = <<>>,
                                !.left = @ - 1]
          /\ stk' = StkAfter
          /\ UNCHANGED <<mi, subs, out, done, errors, fault, unpainted>>
  /\ Consume

(* The end of the argument list: empty arguments are supplied where none   *)
(* were given for one parameter, or for the variadic one.                  *)
EndInvocation ==
  /\ HaveToken /\ Reading /\ inv.open /\ Closes(Token)
  /\ LET id == inv.id
         none == inv.args = <<>> /\ inv.cur = <<>>
         args == IF none THEN <<>> ELSE Append(inv.args, inv.cur)
         n == Len(args)
         min == NumArgs(id)
         oneEmpty == n = 0 /\ min = 1
         elided == /\ mi[id].variadic
                   /\ (oneEmpty \/ n + 1 = min \/ (n = 0 /\ min = 2))
         given == IF n = 0 /\ min = 2 THEN <<<<>>, <<>>>>
                  ELSE IF n < min THEN Append(args, <<>>) ELSE args
     IN IF \/ ~none /\ TooManyArgs
           \/ n < min /\ ~oneEmpty /\ ~elided
           \/ n > min /\ ~mi[id].variadic
        THEN GiveUp(Tok(inv.name))
        ELSE IF ~mi[id].fn
          THEN /\ fault' = "Can't have args for an object-like macro!"
               /\ UNCHANGED <<mi, stk, subs, inv, out, done, errors, unpainted>>
        ELSE /\ inv' = NoInv
             /\ ExpandBody(id, inv.name, given, n < min /\ elided)
             /\ UNCHANGED errors
  /\ Consume

-----------------------------------------------------------------------------
(* ExpandFunctionArguments, a token of the body at a time.                 *)
Frame == Last(subs)
Cur == Head(Frame.body)
Arg == Frame.args[ArgumentNum(Frame.id, Cur.s)]
HaveArg == ArgumentNum(Frame.id, Cur.s) <= Len(Frame.args)

AtBody == Running /\ Substituting /\ Frame.body # <<>>
AtArgument == AtBody /\ Cur.s # "#" /\ IsParam(Frame.id, Cur.s)
PasteBefore == Frame.res # <<>> /\ Last(Frame.res).s = "##"
PasteAfter == Len(Frame.body) > 1 /\ Frame.body[2].s = "##"

(* The result so far becomes res, and n tokens of the body are done. *)
Substituted(res, n) ==
  /\ subs' = [subs EXCEPT ![Len(subs)] =
                [Frame EXCEPT !.res = res, !.body = SubSeq(@, n + 1, Len(@))]]
  /\ UNCHANGED <<input, file, mi, macros, micache, stk, inv, out, done,
                 errors, fault, unpainted>>

CopyToken ==
  /\ AtBody /\ Cur.s # "#" /\ ~IsParam(Frame.id, Cur.s)
  /\ Substituted(Append(Frame.res, Cur), 1)

Stringify ==
  /\ AtBody /\ Cur.s = "#"
  /\ IF ArgumentNum(Frame.id, Frame.body[2].s) > Len(Frame.args)
       THEN Fail("Invalid arg #")
     ELSE Substituted(Append(Frame.res, Tok("str")), 2)

(* ArgNeedsPreexpansion. *)
ArgNeedsPreexpansion == \E j \in DOMAIN Arg : Enabled(Arg[j].s)

Expanded == Frame.pres[ArgumentNum(Frame.id, Cur.s)]

(* getPreExpArgument enters the argument as a token stream. *)
PreExpand ==
  /\ AtArgument /\ ~PasteBefore /\ ~PasteAfter
  /\ HaveArg /\ ArgNeedsPreexpansion /\ Expanded = <<>>
  /\ stk' = Append(stk, [macro |-> 0, toks |-> Append(Arg, Tok("eof"))])
  /\ subs' = [subs EXCEPT ![Len(subs)].pre = ArgumentNum(Frame.id, Cur.s)]
  /\ UNCHANGED <<input, file, mi, macros, micache, inv, out, done, errors,
                 fault, unpainted>>

SubstituteArgument ==
  /\ AtArgument /\ ~PasteBefore /\ ~PasteAfter
  /\ IF ~HaveArg THEN Fail("Invalid arg #")
     ELSE IF ~ArgNeedsPreexpansion THEN Substituted(Frame.res \o Arg, 1)
     ELSE /\ Expanded # <<>>
          /\ Substituted(Frame.res \o Front(Expanded), 1)

IsLastParam == ArgumentNum(Frame.id, Cur.s) = NumArgs(Frame.id)

(* An operand of ## is not expanded.  In ", ## __VA_ARGS__" the operator   *)
(* goes. *)
PasteArgument ==
  /\ AtArgument /\ (PasteBefore \/ PasteAfter)
  /\ HaveArg /\ Arg # <<>>
  /\ LET n == Len(Frame.res)
         gnu == /\ PasteBefore /\ n >= 2 /\ Frame.res[n - 1].s = ","
                /\ IsLastParam /\ mi[Frame.id].variadic
     IN Substituted((IF gnu THEN Front(Frame.res) ELSE Frame.res) \o Arg, 1)

(* A mutated form: the operator stays before an empty operand. *)
PasteEmptyArgument_Keeps ==
  /\ AtArgument /\ (PasteBefore \/ PasteAfter)
  /\ IF ~HaveArg THEN Fail("Invalid arg #") ELSE
     /\ Arg = <<>>
     /\ IF PasteAfter THEN Substituted(Frame.res, 2)
        ELSE Substituted(Frame.res, 1)

(* An empty operand takes the operator with it; and where the variadic     *)
(* argument was left out, the comma before.                                *)
PasteEmptyArgument ==
  /\ AtArgument /\ (PasteBefore \/ PasteAfter)
  /\ IF ~HaveArg THEN Fail("Invalid arg #") ELSE
     /\ Arg = <<>>
     /\ LET kept == Front(Frame.res) IN
        CASE PasteAfter -> Substituted(Frame.res, 2)
          [] /\ ~PasteAfter /\ IsLastParam /\ Frame.elided
             /\ kept # <<>> /\ Last(kept).s = "," -> Substituted(Front(kept), 1)
          [] OTHER -> Substituted(kept, 1)

(* The arguments are in place: the TokenLexer starts, its macro disabled. *)
StartTokenLexer ==
  /\ Running /\ Substituting /\ Frame.body = <<>>
  /\ IF ~mi[Frame.id].enabled
       THEN Fail("Cannot disable an already-disabled macro!")
     ELSE /\ mi' = [mi EXCEPT ![Frame.id].enabled = FALSE]
          /\ stk' = Append(stk, [macro |-> Frame.id, toks |-> Frame.res])
          /\ subs' = Front(subs)
          /\ UNCHANGED <<input, file, macros, micache, inv, out, done, errors,
                         fault, unpainted>>

-----------------------------------------------------------------------------
(* Directives, which may also be met among the arguments of a macro.       *)
AtDirective(op) ==
  Lexing /\ stk = <<>> /\ file # <<>> /\ Head(file).op = op

FreeArgumentList(objects, id) == [objects EXCEPT ![id].params = <<>>]

(* ## at an end of the body, or # without a parameter after it. *)
Rejected(def) ==
  LET b == def.body IN
  /\ b # <<>>
  /\ \/ b[1].s = "##" \/ Last(b).s = "##"
     \/ def.fn /\ \E i \in DOMAIN b :
          b[i].s = "#" /\ (i = Len(b) \/ b[i + 1].s \notin Range(def.params))

(* AllocateMacroInfo takes a released object before it makes one; the old  *)
(* definition is released, and so is the new one when it is rejected.      *)
HandleDefine ==
  /\ AtDirective("define")
  /\ LET name == Head(file).name
         def == Head(file).def
         id == IF micache = <<>> THEN Len(mi) + 1 ELSE Last(micache)
         cache == IF micache = <<>> THEN <<>> ELSE Front(micache)
         info == [fn |-> def.fn, params |-> def.params,
                  variadic |-> def.variadic, body |-> def.body,
                  enabled |-> TRUE]
         objects == IF micache = <<>> THEN Append(mi, info)
                    ELSE [mi EXCEPT ![id] = info]
         old == macros[name]
     IN IF Rejected(def) THEN
          /\ mi' = FreeArgumentList(objects, id)
          /\ micache' = Append(cache, id)
          /\ errors' = TRUE
          /\ UNCHANGED macros
        ELSE
          /\ mi' = IF old = 0 THEN objects ELSE FreeArgumentList(objects, old)
          /\ micache' = IF old = 0 THEN cache ELSE Append(cache, old)
          /\ macros' = [macros EXCEPT ![name] = id]
          /\ UNCHANGED errors
  /\ file' = Tail(file)
  /\ UNCHANGED <<input, stk, subs, inv, out, done, fault, unpainted>>

(* A mutated form: the name keeps the released definition. *)
HandleUndef_Keeps ==
  /\ AtDirective("undef")
  /\ LET old == macros[Head(file).name] IN
     IF old = 0 THEN UNCHANGED <<mi, macros, micache>>
     ELSE /\ mi' = FreeArgumentList(mi, old)
          /\ micache' = Append(micache, old)
          /\ UNCHANGED macros
  /\ file' = Tail(file)
  /\ UNCHANGED <<input, stk, subs, inv, out, done, errors, fault,
                 unpainted>>

HandleUndef ==
  /\ AtDirective("undef")
  /\ LET old == macros[Head(file).name] IN
     IF old = 0 THEN UNCHANGED <<mi, macros, micache>>
     ELSE /\ mi' = FreeArgumentList(mi, old)
          /\ micache' = Append(micache, old)
          /\ macros' = [macros EXCEPT ![Head(file).name] = 0]
  /\ file' = Tail(file)
  /\ UNCHANGED <<input, stk, subs, inv, out, done, errors, fault,
                 unpainted>>

-----------------------------------------------------------------------------
Init ==
  /\ input \in Files /\ file = input
  /\ mi = <<>> /\ macros = [n \in Names |-> 0] /\ micache = <<>>
  /\ stk = <<>> /\ subs = <<>> /\ inv = NoInv
  /\ out = <<>> /\ done = FALSE /\ errors = FALSE /\ fault = "none"
  /\ unpainted = FALSE

Next ==
  \/ PopTokenLexer \/ PasteTokens \/ ReturnToken
  \/ ExpandObject \/ BeginInvocation
  \/ ReadLParen \/ ReadArgToken \/ EndArgument \/ EndInvocation
  \/ UnterminatedInvocation
  \/ CopyToken \/ Stringify \/ PreExpand \/ SubstituteArgument
  \/ PasteArgument \/ PasteEmptyArgument \/ StartTokenLexer
  \/ HandleDefine \/ HandleUndef

Spec == Init /\ [][Next]_vars

(* The preprocessor runs until the client has its eof. *)
FairSpec == Spec /\ WF_vars(Next)

-----------------------------------------------------------------------------
Addresses == DOMAIN mi

(* Enabled and disabled follow the stack (MacroInfo.h, EnableMacro and     *)
(* DisableMacro): a macro is disabled exactly while one TokenLexer reads   *)
(* its body, through every argument, pop and redefinition.                 *)
DisabledWhileLive ==
  \A id \in Addresses :
    /\ ~mi[id].enabled <=> \E i \in DOMAIN stk : stk[i].macro = id
    /\ \A i, j \in DOMAIN stk :
         stk[i].macro = id /\ stk[j].macro = id => i = j

(* ReleaseMacroInfo: "This memory will be reused" (PPDirectives.cpp:37),   *)
(* so no name and no TokenLexer refers to it, and it is released once.     *)
ReleasedUnreachable ==
  /\ \A n \in Names : macros[n] = 0 \/ macros[n] \notin Range(micache)
  /\ \A i \in DOMAIN stk : stk[i].macro \notin Range(micache)
  /\ \A i \in DOMAIN subs : subs[i].id \notin Range(micache)
  /\ \A i, j \in DOMAIN micache : micache[i] = micache[j] => i = j
  /\ \A m, n \in Names : macros[m] = macros[n] /\ macros[m] # 0 => m = n

(* No assertion fails: macros are enabled and disabled in turn, every ##   *)
(* has its operands, every argument its tokens; and getPreExpArgument,     *)
(* which lexes "until we hit the EOF token at the end of the unexp list"   *)
(* (MacroArgs.cpp:113), neither reads past it nor pops another lexer.      *)
NoFault == fault = "none"

(* What a file must keep to for that: no ## and no #define or #undef of    *)
(* the macro itself among the arguments of an invocation, no comment       *)
(* pasted from two slashes, and in no body ## after ##, nor in that of a   *)
(* variadic macro a comma between two ##, which may be the one that goes   *)
(* with an argument left out.                                              *)
Conforming ==
  /\ Reading /\ stk = <<>> /\ file # <<>> =>
       IF Head(file).op = "tok" THEN Head(file).name # "##"
       ELSE Head(file).name # inv.name
  /\ PasteIsNext /\ Len(Top.toks) > 2 =>
       <<Top.toks[1].s, Top.toks[3].s>> # <<"/", "/">>
  /\ \A n \in Names : macros[n] # 0 =>
       LET m == mi[macros[n]]
           at(i, s) == i <= Len(m.body) /\ m.body[i].s = s
       IN \A i \in DOMAIN m.body : at(i, "##") =>
            /\ ~at(i + 1, "##")
            /\ m.variadic => ~(at(i + 1, ",") /\ at(i + 2, "##"))

(* Every main file comes to its end. *)
Terminates == <>done
=============================================================================
