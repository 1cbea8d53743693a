---------------------------- MODULE RewindStream ----------------------------
(***************************************************************************)
(* What a client of the preprocessor is promised about its token stream:   *)
(* tokens come one after the other, the client may look ahead without      *)
(* consuming anything, put a token in front, mark a place and later return *)
(* to it (marks nest), and replace tokens it has read by an annotation.    *)
(* There is no cache and there are no lexers here.                         *)
(***************************************************************************)
EXTENDS Integers, Sequences, SequencesExt

CONSTANTS Tokens, Annotations, Eof

VARIABLES
  hist,    \* the tokens read since the outermost mark
  rest,    \* the tokens to come; the last one is Eof
  marks,   \* stack of lengths of hist to which the client can return
  ret      \* the last token handed to the client

vars == <<hist, rest, marks, ret>>

Symbols == Tokens \cup Annotations \cup {Eof}

(* What is read is only remembered as long as there is a mark. *)
Remembered(h, ms) == IF ms = <<>> THEN <<>> ELSE h

Init ==
  /\ hist = <<>> /\ marks = <<>>
  /\ rest \in Seq(Symbols) /\ rest # <<>> /\ Last(rest) = Eof
  /\ ret = Eof

Lex ==
  /\ rest # <<>>
  /\ ret' = Head(rest)
  /\ rest' = Tail(rest)
  /\ hist' = Remembered(Append(hist, Head(rest)), marks)
  /\ UNCHANGED marks

LookAhead(n) == ret' = rest[n + 1] /\ UNCHANGED <<hist, rest, marks>>

EnableBacktrackAtThisPos ==
  /\ marks' = Append(marks, Len(hist))
  /\ UNCHANGED <<hist, rest, ret>>

CommitBacktrackedTokens ==
  /\ marks # <<>>
  /\ marks' = Front(marks)
  /\ hist' = Remembered(hist, marks')
  /\ UNCHANGED <<rest, ret>>

(* The tokens after the first k that were read come again. *)
Again(k) == SubSeq(hist, k + 1, Len(hist)) \o rest

Backtrack ==
  /\ marks # <<>>
  /\ marks' = Front(marks)
  /\ rest' = Again(Last(marks))
  /\ hist' = Remembered(SubSeq(hist, 1, Last(marks)), marks')
  /\ UNCHANGED ret

RevertCachedTokens(n) ==
  /\ marks # <<>> /\ Len(hist) - n >= Last(marks)
  /\ rest' = Again(Len(hist) - n)
  /\ hist' = SubSeq(hist, 1, Len(hist) - n)
  /\ UNCHANGED <<marks, ret>>

EnterToken(t) == rest' = <<t>> \o rest /\ UNCHANGED <<hist, marks, ret>>

(* The tokens from the i-th to the last one read become one annotation. *)
AnnotateCachedTokens(i, a) ==
  /\ marks # <<>> /\ i > Last(marks)
  /\ hist' = Append(SubSeq(hist, 1, i - 1), a)
  /\ UNCHANGED <<rest, marks, ret>>

ReplaceLastTokenWithAnnotation(a) ==
  /\ hist' = IF hist = <<>> THEN hist ELSE [hist EXCEPT ![Len(hist)] = a]
  /\ UNCHANGED <<rest, marks, ret>>

Next ==
  \/ Lex
  \/ \E n \in 0 .. Len(rest) - 1 : LookAhead(n)
  \/ EnableBacktrackAtThisPos \/ CommitBacktrackedTokens \/ Backtrack
  \/ \E n \in 1 .. Len(hist) : RevertCachedTokens(n)
  \/ \E t \in Tokens : EnterToken(t)
  \/ \E i \in 1 .. Len(hist), a \in Annotations : AnnotateCachedTokens(i, a)
  \/ \E a \in Annotations : ReplaceLastTokenWithAnnotation(a)

Spec == Init /\ [][Next]_vars
=============================================================================
