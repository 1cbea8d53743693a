------------------------- MODULE TokenCache_proofs -------------------------
(***************************************************************************)
(* Proofs about the token cache, for any tokens, annotations and sources   *)
(* and any bounds, and for a client that stops at the end of the file      *)
(* (AcrossEof = {}): one that goes on can run out of lexers.               *)
(*                                                                         *)
(* StackNeverRunsOut alone is not inductive: that a lexer is left when     *)
(* tokens are asked for rests on where Eof can be in the cache.            *)
(***************************************************************************)
EXTENDS TokenCache, SequenceLemmas

Symbols == Tokens \cup Annotations \cup {Eof}

(* The types of the variables. *)
TypeOK ==
  /\ src \in Seq(Tokens)
  /\ cur \in {"lexer", "null"}
  /\ inc \in {<<>>, <<"lexer">>}
  /\ cached \in Seq(Symbols)
  /\ lexpos \in 0 .. Len(cached)
  /\ marks \in Seq(Nat)
  /\ done \in BOOLEAN /\ failed \in BOOLEAN

(* Eof is cached as the last token only, once the lexers are drained, and  *)
(* then it is still to come unless the client has lexed it.                *)
EofAtEnd ==
  /\ \A k \in 1 .. Len(cached) : cached[k] = Eof => k = Len(cached) /\ LexersDrained
  /\ LexersDrained /\ ~done => lexpos < Len(cached) /\ cached[Len(cached)] = Eof
  /\ done => LexersDrained

IInv == TypeOK /\ StackNeverRunsOut /\ EofAtEnd

-----------------------------------------------------------------------------
(* The invariant.                                                          *)

LEMMA InitIInv == Init => IInv
<1> SUFFICES ASSUME Init PROVE IInv OBVIOUS
<1>1. TypeOK
  <2>1. src \in Seq(Tokens) BY TokensAssumption DEF Init, Sources
  <2>2. cached \in Seq(Symbols) /\ lexpos \in 0 .. Len(cached) /\ marks \in Seq(Nat)
    BY DEF Init
  <2> QED BY <2>1, <2>2 DEF Init, TypeOK
<1>2. StackNeverRunsOut BY DEF Init, StackNeverRunsOut, LexerWaits, MarksInOrder
<1>3. EofAtEnd BY DEF Init, EofAtEnd, LexersDrained
<1> QED BY <1>1, <1>2, <1>3 DEF IInv

(* The marks once the last one is gone: the others are not past it. *)
LEMMA MarksBelow ==
  ASSUME IInv, marks # <<>>
  PROVE  /\ Front(marks) \in Seq(Nat)
         /\ Len(marks) \in Nat \ {0} /\ Len(Front(marks)) = Len(marks) - 1
         /\ \A i \in 1 .. Len(marks) - 1 : Front(marks)[i] = marks[i]
         /\ Last(marks) = marks[Len(marks)]
         /\ Last(marks) \in 0 .. lexpos
         /\ \A i \in 1 .. Len(marks) : marks[i] \in Nat /\ marks[i] <= Last(marks)
         /\ \A i \in 1 .. Len(marks) : \A j \in 1 .. i : marks[j] <= marks[i]
<1>1. marks \in Seq(Nat) /\ MarksInOrder BY DEF IInv, TypeOK, StackNeverRunsOut
<1>2. /\ Front(marks) \in Seq(Nat)
      /\ Len(marks) \in Nat \ {0} /\ Len(Front(marks)) = Len(marks) - 1
      /\ \A i \in 1 .. Len(marks) - 1 : Front(marks)[i] = marks[i]
      /\ Last(marks) = marks[Len(marks)] /\ Last(marks) \in Nat
  BY <1>1, FrontLast
<1>3. \A i \in 1 .. Len(marks) : marks[i] \in Nat BY <1>1
<1>4. lexpos \in Nat BY DEF IInv, TypeOK
<1> QED BY <1>1, <1>2, <1>3, <1>4 DEF MarksInOrder

(* As long as the position stays at or after the marks they are in order.  *)
LEMMA SameMarks ==
  ASSUME IInv, marks' = marks, lexpos' \in Nat,
         \A i \in 1 .. Len(marks) : marks[i] <= lexpos'
  PROVE  MarksInOrder'
  BY DEF IInv, StackNeverRunsOut, MarksInOrder

LEMMA FewerMarks ==
  ASSUME IInv, marks # <<>>, marks' = Front(marks), lexpos' \in Nat, Last(marks) <= lexpos'
  PROVE  marks' \in Seq(Nat) /\ MarksInOrder'
<1>1. /\ marks' \in Seq(Nat) /\ Len(marks') = Len(marks) - 1 /\ Len(marks) \in Nat
      /\ \A i \in 1 .. Len(marks') : marks'[i] = marks[i]
  BY MarksBelow
<1>2. \A i \in 1 .. Len(marks') : marks'[i] <= lexpos' BY <1>1, MarksBelow
<1>3. \A i \in 1 .. Len(marks') : \A j \in 1 .. i : marks'[j] <= marks'[i]
  <2> TAKE i \in 1 .. Len(marks')
  <2> TAKE j \in 1 .. i
  <2>1. i \in 1 .. Len(marks) /\ j \in 1 .. Len(marks') BY <1>1
  <2> QED BY <1>1, <2>1, MarksBelow
<1> QED BY <1>1, <1>2, <1>3 DEF MarksInOrder

LEMMA LexFromLexerStep == ASSUME IInv, LexFromLexer PROVE IInv'
<1>1. /\ src \in Seq(Tokens) /\ src' \in Seq(Tokens) /\ inc = <<>> /\ marks = <<>> /\ cached = <<>>
      /\ lexpos = 0
  BY DEF IInv, TypeOK, StackNeverRunsOut, LexerWaits, LexFromLexer, InCachingLexMode, AfterNext
<1>2. UNCHANGED <<inc, cached, lexpos, marks, failed>> /\ ~failed /\ done' = (src = <<>>)
      /\ cur' = IF src = <<>> THEN "null" ELSE "lexer"
  BY DEF LexFromLexer, Active, InCachingLexMode, IInv, TypeOK
<1>3. src = <<>> => src' = <<>> BY DEF LexFromLexer, AfterNext
<1>4. TypeOK' BY <1>1, <1>2 DEF TypeOK, IInv
<1>5. StackNeverRunsOut' BY <1>1, <1>2, <1>3 DEF StackNeverRunsOut, LexerWaits, MarksInOrder
<1>6. EofAtEnd'
  <2>1. Len(cached') = 0 /\ (LexersDrained' <=> done') /\ done' \in BOOLEAN
    BY <1>1, <1>2 DEF LexersDrained
  <2> QED BY <2>1 DEF EofAtEnd
<1> QED BY <1>4, <1>5, <1>6 DEF IInv

LEMMA LexCachedTokenStep == ASSUME IInv, LexCachedToken PROVE IInv'
<1> USE DEF LexCachedToken, Active
<1>1. lexpos' = lexpos + 1 /\ lexpos' \in 0 .. Len(cached) /\ lexpos \in Nat
  BY DEF IInv, TypeOK
<1>2. TypeOK' BY <1>1 DEF IInv, TypeOK
<1>3. MarksInOrder' 
  <2>1. \A i \in 1 .. Len(marks) : marks[i] \in Nat /\ marks[i] <= lexpos
    BY DEF IInv, StackNeverRunsOut, MarksInOrder, TypeOK
  <2> QED BY <1>1, <2>1, SameMarks
<1>4. StackNeverRunsOut' BY <1>3 DEF IInv, StackNeverRunsOut, LexerWaits
<1>5. EofAtEnd'
  <2>1. lexpos + 1 \in 1 .. Len(cached) BY <1>1 DEF IInv, TypeOK
  <2>2. done' => LexersDrained BY <2>1 DEF IInv, EofAtEnd
  <2>3. LexersDrained /\ ~done' => lexpos + 1 < Len(cached)
    <3>1. LexersDrained => cached[Len(cached)] = Eof BY DEF IInv, EofAtEnd
    <3>2. done' = (cached[lexpos + 1] = Eof) OBVIOUS
    <3>3. LexersDrained /\ ~done' => lexpos + 1 # Len(cached) BY <3>1, <3>2
    <3> QED BY <2>1, <3>3 DEF IInv, TypeOK
  <2> QED BY <1>1, <2>2, <2>3 DEF IInv, EofAtEnd, LexersDrained
<1> QED BY <1>2, <1>4, <1>5 DEF IInv

(* A lexer is left as long as the client has not lexed Eof. *)
LEMMA LexersLeft ==
  ASSUME IInv, ~done, lexpos = Len(cached) \/ ~StackEmpty
  PROVE  ~LexersDrained /\ ~StackEmpty
  BY DEF IInv, EofAtEnd, TypeOK, LexersDrained, StackEmpty, InCachingLexMode

(* What CachingLex does, which never fails. *)
LEMMA CachingLexCases ==
  ASSUME IInv, CachingLex
  PROVE  /\ cur = "null" /\ inc = <<"lexer">> /\ lexpos = Len(cached) /\ ~done /\ ~failed
         /\ ret' = NextToken /\ src' = AfterNext /\ done' = (src = <<>>)
         /\ UNCHANGED <<marks, failed>>
         /\ IF src = <<>> THEN cur' = "null" /\ inc' = <<>>
            ELSE IF marks # <<>> THEN UNCHANGED lexers
            ELSE cur' = "lexer" /\ inc' = <<>>
         /\ IF marks = <<>> THEN cached' = <<>> /\ lexpos' = 0
            ELSE IF src = <<>> THEN UNCHANGED <<cached, lexpos>>
            ELSE cached' = Append(cached, Head(src)) /\ lexpos' = lexpos + 1
<1>1. ~failed /\ ~done /\ cur = "null" /\ lexpos = Len(cached)
  BY DEF CachingLex, Active, InCachingLexMode
<1>2. ~StackEmpty BY <1>1, LexersLeft
<1>3. inc = <<"lexer">> BY <1>1, <1>2 DEF StackEmpty, InCachingLexMode, IInv, TypeOK
<1>4. Len(inc) = 1 /\ inc[1] = "lexer" BY <1>3
<1>5. Front(inc) = <<>> /\ Last(inc) = "lexer"
  <2>1. SubSeq(inc, 1, Len(inc) - 1) = <<>> BY <1>4, SubSeqEmpty
  <2> QED BY <1>4, <2>1 DEF Front, Last
<1> QED BY <1>1, <1>2, <1>3, <1>5 DEF CachingLex, isBacktrackEnabled

LEMMA CachingLexStep == ASSUME IInv, CachingLex PROVE IInv'
<1>1. /\ cur = "null" /\ inc = <<"lexer">> /\ lexpos = Len(cached) /\ ~done /\ ~failed
      /\ src' = AfterNext /\ done' = (src = <<>>) /\ marks' = marks /\ failed' = failed
  BY CachingLexCases
<1>2. /\ src \in Seq(Tokens) /\ src' \in Seq(Tokens) /\ (src = <<>> => src' = <<>>)
      /\ done' \in BOOLEAN /\ failed' \in BOOLEAN
  BY <1>1 DEF IInv, TypeOK, AfterNext
<1>3. /\ cached \in Seq(Symbols) /\ lexpos \in Nat /\ marks \in Seq(Nat) /\ ~LexersDrained
      /\ \A k \in 1 .. Len(cached) : cached[k] # Eof
      /\ \A i \in 1 .. Len(marks) : marks[i] \in Nat /\ marks[i] <= lexpos
  BY <1>1 DEF IInv, TypeOK, EofAtEnd, LexersDrained, StackNeverRunsOut, MarksInOrder
<1>4. CASE marks = <<>>
  <2>1. cached' = <<>> /\ lexpos' = 0 /\ Len(cached') = 0 BY <1>4, CachingLexCases
  <2>2. inc' = <<>> /\ cur' = IF src = <<>> THEN "null" ELSE "lexer"
    BY <1>4, CachingLexCases
  <2>3. TypeOK' BY <1>1, <1>2, <1>3, <2>1, <2>2 DEF TypeOK
  <2>4. StackNeverRunsOut' BY <1>1, <1>2, <1>4, <2>1, <2>2
    DEF StackNeverRunsOut, LexerWaits, MarksInOrder
  <2>5. LexersDrained' <=> done' BY <1>1, <2>2 DEF LexersDrained
  <2>6. EofAtEnd' BY <2>1, <2>5 DEF EofAtEnd
  <2> QED BY <2>3, <2>4, <2>6 DEF IInv
<1>5. CASE marks # <<>> /\ src = <<>>
  <2>1. cached' = cached /\ lexpos' = lexpos /\ cur' = "null" /\ inc' = <<>> /\ done'
    BY <1>1, <1>5, CachingLexCases
  <2>2. TypeOK' BY <1>1, <1>2, <1>3, <2>1 DEF TypeOK
  <2>3. MarksInOrder' BY <1>1, <1>3, <2>1, SameMarks
  <2>4. StackNeverRunsOut' BY <1>1, <1>2, <1>5, <2>1, <2>3 DEF StackNeverRunsOut, LexerWaits
  <2>5. LexersDrained' BY <2>1 DEF LexersDrained
  <2>6. EofAtEnd' BY <1>3, <2>1, <2>5 DEF EofAtEnd
  <2> QED BY <2>2, <2>4, <2>6 DEF IInv
<1>6. CASE marks # <<>> /\ src # <<>>
  <2>1. /\ cached' = Append(cached, Head(src)) /\ lexpos' = lexpos + 1 /\ ~done'
        /\ cur' = "null" /\ inc' = <<"lexer">>
    BY <1>1, <1>6, CachingLexCases DEF lexers
  <2>2. Head(src) \in Tokens /\ Head(src) \in Symbols /\ Head(src) # Eof
    BY <1>2, <1>6, TokensAssumption DEF Symbols
  <2>3. /\ cached' \in Seq(Symbols) /\ Len(cached') = Len(cached) + 1
        /\ \A k \in 1 .. Len(cached) : cached'[k] = cached[k]
        /\ cached'[Len(cached) + 1] = Head(src)
    BY <1>3, <2>1, <2>2, AppendProperties
  <2>4. TypeOK' BY <1>1, <1>2, <1>3, <2>1, <2>3 DEF TypeOK
  <2>5. MarksInOrder' BY <1>1, <1>3, <2>1, SameMarks
  <2>6. StackNeverRunsOut' BY <1>1, <2>1, <2>5 DEF StackNeverRunsOut, LexerWaits
  <2>7. ~LexersDrained' BY <2>1 DEF LexersDrained
  <2>8. \A k \in 1 .. Len(cached') : cached'[k] # Eof
    <3> TAKE k \in 1 .. Len(cached')
    <3>1. k \in 1 .. Len(cached) \/ k = Len(cached) + 1 BY <1>3, <2>3
    <3> QED BY <1>3, <2>2, <2>3, <3>1
  <2> QED BY <2>1, <2>4, <2>6, <2>7, <2>8 DEF IInv, EofAtEnd
<1> QED BY <1>4, <1>5, <1>6

(* EnterCachingLexMode: the lexer waits, if it was not waiting already. *)
LEMMA ModeEntered ==
  ASSUME IInv, EnterCachingLexMode
  PROVE  /\ cur' = "null" /\ inc' \in {<<>>, <<"lexer">>}
         /\ LexersDrained' <=> LexersDrained
<1>1. CASE InCachingLexMode
  BY <1>1 DEF EnterCachingLexMode, lexers, InCachingLexMode, LexersDrained, IInv, TypeOK
<1>2. CASE ~InCachingLexMode
  <2>1. cur = "lexer" /\ inc = <<>>
    BY <1>2 DEF InCachingLexMode, IInv, TypeOK, StackNeverRunsOut, LexerWaits
  <2>2. inc' = <<"lexer">> /\ cur' = "null"
    BY <1>2, <2>1 DEF EnterCachingLexMode
  <2> QED BY <2>1, <2>2 DEF LexersDrained
<1> QED BY <1>1, <1>2

LEMMA EnableBacktrackStep == ASSUME IInv, EnableBacktrackAtThisPos PROVE IInv'
<1>1. /\ marks' = Append(marks, lexpos) /\ EnterCachingLexMode
      /\ UNCHANGED <<src, cached, lexpos, ret, done, failed>>
  BY DEF EnableBacktrackAtThisPos
<1>2. cur' = "null" /\ inc' \in {<<>>, <<"lexer">>} /\ (LexersDrained' <=> LexersDrained)
  BY <1>1, ModeEntered
<1>3. marks \in Seq(Nat) /\ lexpos \in Nat BY DEF IInv, TypeOK
<1>4. /\ marks' \in Seq(Nat) /\ Len(marks') = Len(marks) + 1
      /\ \A i \in 1 .. Len(marks) : marks'[i] = marks[i]
      /\ marks'[Len(marks) + 1] = lexpos
  BY <1>1, <1>3, AppendProperties
<1>5. \A i \in 1 .. Len(marks) : marks[i] <= lexpos /\ \A j \in 1 .. i : marks[j] <= marks[i]
  BY DEF IInv, StackNeverRunsOut, MarksInOrder
<1>6. \A i \in 1 .. Len(marks') : marks'[i] <= lexpos BY <1>3, <1>4, <1>5, SMTT(20)
<1>7. \A i \in 1 .. Len(marks') : \A j \in 1 .. i : marks'[j] <= marks'[i]
  <2> TAKE i \in 1 .. Len(marks')
  <2> TAKE j \in 1 .. i
  <2>1. CASE i = Len(marks) + 1 BY <1>3, <1>4, <1>6, <2>1
  <2>2. CASE i \in 1 .. Len(marks) BY <1>3, <1>4, <1>5, <2>2, SMTT(20)
  <2> QED BY <1>3, <1>4, <2>1, <2>2
<1>8. TypeOK' BY <1>1, <1>2, <1>4 DEF IInv, TypeOK
<1>9. StackNeverRunsOut'
  <2>1. MarksInOrder' BY <1>1, <1>6, <1>7 DEF MarksInOrder
  <2>2. (cur' = "null" /\ inc' = <<>>) => src' = <<>>
    BY <1>1, <1>2 DEF LexersDrained, IInv, StackNeverRunsOut, LexerWaits
  <2>3. Len(inc') <= 1
    <3>1. CASE inc' = <<>> BY <3>1
    <3>2. CASE inc' = <<"lexer">> BY <3>2
    <3> QED BY <1>2, <3>1, <3>2
  <2>4. ~failed' BY <1>1 DEF IInv, StackNeverRunsOut
  <2> QED BY <1>2, <2>1, <2>2, <2>3, <2>4 DEF StackNeverRunsOut, LexerWaits
<1>10. EofAtEnd' BY <1>1, <1>2 DEF IInv, EofAtEnd
<1> QED BY <1>8, <1>9, <1>10 DEF IInv

LEMMA CommitStep == ASSUME IInv, CommitBacktrackedTokens PROVE IInv'
<1>1. marks # <<>> /\ marks' = Front(marks) /\ UNCHANGED <<src, lexers, cached, lexpos, done, failed>>
  BY DEF CommitBacktrackedTokens, isBacktrackEnabled, lexers
<1>2. lexpos \in Nat /\ Last(marks) <= lexpos BY <1>1, MarksBelow DEF IInv, TypeOK
<1>3. marks' \in Seq(Nat) /\ MarksInOrder' BY <1>1, <1>2, FewerMarks
<1>4. cur' = "null"
  BY <1>1 DEF lexers, IInv, TypeOK, StackNeverRunsOut, LexerWaits
<1>5. TypeOK' BY <1>1, <1>3 DEF IInv, TypeOK, lexers
<1>6. StackNeverRunsOut' BY <1>1, <1>3, <1>4 DEF IInv, StackNeverRunsOut, LexerWaits, lexers
<1>7. EofAtEnd' BY <1>1 DEF IInv, EofAtEnd, LexersDrained, lexers
<1> QED BY <1>5, <1>6, <1>7 DEF IInv

(* Going back from a place before the end, in caching mode. *)
LEMMA GoBack ==
  ASSUME IInv, marks # <<>>, ~done, done' = FALSE, lexpos' \in 0 .. lexpos,
         UNCHANGED <<src, lexers, cached, failed>>, marks' \in Seq(Nat), MarksInOrder'
  PROVE  IInv'
<1>1. cur' = "null" BY DEF lexers, IInv, TypeOK, StackNeverRunsOut, LexerWaits
<1>2. TypeOK'
  <2>1. lexpos' \in 0 .. Len(cached) BY DEF IInv, TypeOK
  <2> QED BY <2>1 DEF IInv, TypeOK, lexers
<1>3. StackNeverRunsOut' BY <1>1 DEF IInv, StackNeverRunsOut, LexerWaits, lexers
<1>4. EofAtEnd'
  <2>1. lexpos \in Nat /\ lexpos' \in Nat /\ lexpos' <= lexpos BY DEF IInv, TypeOK
  <2> QED BY <2>1 DEF IInv, EofAtEnd, LexersDrained, lexers, TypeOK
<1> QED BY <1>2, <1>3, <1>4 DEF IInv

LEMMA BacktrackStep == ASSUME IInv, AcrossEof = {}, Backtrack PROVE IInv'
<1>1. /\ marks # <<>> /\ ~done /\ done' = FALSE /\ lexpos' = Last(marks) /\ marks' = Front(marks)
      /\ UNCHANGED <<src, lexers, cached, failed>>
  BY DEF Backtrack, isBacktrackEnabled, lexers, IInv, TypeOK
<1>2. lexpos' \in 0 .. lexpos /\ Last(marks) <= lexpos' BY <1>1, MarksBelow
<1>3. marks' \in Seq(Nat) /\ MarksInOrder' BY <1>1, <1>2, FewerMarks
<1> QED BY <1>1, <1>2, <1>3, GoBack

LEMMA RevertStep == ASSUME IInv, NEW n \in 1 .. lexpos, RevertCachedTokens(n) PROVE IInv'
<1>1. /\ marks # <<>> /\ ~done /\ done' = FALSE /\ lexpos' = lexpos - n /\ marks' = marks
      /\ lexpos - n >= Last(marks) /\ UNCHANGED <<src, lexers, cached, failed>>
  BY DEF RevertCachedTokens, isBacktrackEnabled, lexers, Active, IInv, TypeOK
<1>2. lexpos \in Nat /\ marks \in Seq(Nat) BY DEF IInv, TypeOK
<1>3. lexpos' \in 0 .. lexpos BY <1>1, <1>2
<1>4. \A i \in 1 .. Len(marks) : marks[i] <= lexpos' BY <1>1, <1>2, <1>3, MarksBelow
<1>5. MarksInOrder' BY <1>1, <1>3, <1>4, SameMarks
<1> QED BY <1>1, <1>2, <1>3, <1>5, GoBack

(* The tokens that the lexers have yet to deliver, with Eof. *)
Coming == IF LexersDrained THEN <<>> ELSE Append(src, Eof)

(* PeekAhead moves the next m tokens of the lexers to the cache, the last  *)
(* of which may be Eof; then the lexers are drained.                       *)
LEMMA PeekAheadCases ==
  ASSUME IInv, AcrossEof = {}, NEW n \in Nat, PeekAhead(n)
  PROVE  \E m \in 1 .. Len(src) + 1 :
           /\ m = lexpos + n + 1 - Len(cached)
           /\ ~done /\ ~failed /\ ~LexersDrained
           /\ UNCHANGED <<lexpos, marks, done, failed>> /\ ret' = Last(cached')
           /\ cur' = "null" /\ inc' = IF m <= Len(src) THEN <<"lexer">> ELSE <<>>
           /\ src' \in Seq(Tokens) /\ src' = SubSeq(src, m + 1, Len(src))
           /\ cached' \in Seq(Symbols) /\ Len(cached') = Len(cached) + m
           /\ \A k \in 1 .. Len(cached) : cached'[k] = cached[k]
           /\ \A k \in 1 .. m : cached'[Len(cached) + k] = Append(src, Eof)[k]
<1> DEFINE m == lexpos + n + 1 - Len(cached)
           pastEof == m - Len(src) - 1
<1>1. /\ src \in Seq(Tokens) /\ src \in Seq(Symbols) /\ cached \in Seq(Symbols) /\ lexpos \in Nat
      /\ Len(src) \in Nat /\ Len(cached) \in Nat /\ Eof \in Symbols
  BY DEF IInv, TypeOK, Symbols
<1>2. m \in Int /\ pastEof \in Int BY <1>1
<1>3. m > 0 /\ pastEof <= 0 /\ ~StackEmpty /\ ~done /\ ~failed
  BY <1>1 DEF PeekAhead, Active
<1>4. m \in 1 .. Len(src) + 1 /\ pastEof # 1 BY <1>1, <1>2, <1>3
<1>5. ~LexersDrained BY <1>3, LexersLeft
<1>6. /\ src' = SubSeq(src, m + 1, Len(src))
      /\ cur' = "null"
      /\ inc' = IF m <= Len(src) THEN <<"lexer">> ELSE <<>>
      /\ cached' = IF m <= Len(src) THEN cached \o SubSeq(src, 1, m)
                   ELSE Append(cached \o src, Eof)
      /\ lexpos' = lexpos
      /\ ret' = Last(cached')
      /\ UNCHANGED <<marks, done, failed>>
  BY <1>3, <1>4 DEF PeekAhead
<1> HIDE DEF m, pastEof
<1>7. src' \in Seq(Tokens)
  <2>1. CASE m <= Len(src)
    <3>1. m + 1 \in 1 .. Len(src) + 1 /\ Len(src) \in (m + 1) - 1 .. Len(src) BY <1>1, <1>4, <2>1
    <3> QED BY <1>1, <1>6, <3>1, Window
  <2>2. CASE m = Len(src) + 1
    <3>1. SubSeq(src, m + 1, Len(src)) = <<>> BY <1>1, <1>4, <2>2, SubSeqEmpty
    <3>2. <<>> \in Seq(Tokens) OBVIOUS
    <3> QED BY <1>6, <3>1, <3>2
  <2> QED BY <1>1, <1>4, <2>1, <2>2
<1>8. /\ cached' \in Seq(Symbols) /\ Len(cached') = Len(cached) + m
      /\ \A k \in 1 .. Len(cached) : cached'[k] = cached[k]
      /\ \A k \in 1 .. m : cached'[Len(cached) + k] = Append(src, Eof)[k]
  <2>1. CASE m <= Len(src)
    <3> DEFINE w == SubSeq(src, 1, m)
    <3>1. 1 \in 1 .. Len(src) + 1 /\ m \in 1 - 1 .. Len(src) BY <1>1, <1>4, <2>1
    <3>2. w \in Seq(Symbols) /\ Len(w) = m - 1 + 1 /\ \A k \in 1 .. m - 1 + 1 : w[k] = src[1 + k - 1]
      BY <1>1, <3>1, Window
    <3>3. w \in Seq(Symbols) /\ Len(w) = m /\ \A k \in 1 .. m : w[k] = Append(src, Eof)[k]
      BY <1>1, <1>4, <2>1, <3>2, AppendProperties
    <3>4. cached' = cached \o w BY <1>6, <2>1
    <3> HIDE DEF w
    <3>5. /\ cached \o w \in Seq(Symbols) /\ Len(cached \o w) = Len(cached) + Len(w)
          /\ \A k \in 1 .. Len(cached) + Len(w) :
               (cached \o w)[k] = IF k <= Len(cached) THEN cached[k] ELSE w[k - Len(cached)]
      BY <1>1, <3>3, ConcatProperties
    <3>6. \A k \in 1 .. Len(cached) : cached'[k] = cached[k]
      <4> TAKE k \in 1 .. Len(cached)
      <4>1. k \in 1 .. Len(cached) + Len(w) /\ k <= Len(cached) BY <1>1, <1>4, <3>3
      <4> QED BY <3>4, <3>5, <4>1
    <3>7. \A k \in 1 .. m : cached'[Len(cached) + k] = Append(src, Eof)[k]
      <4> TAKE k \in 1 .. m
      <4>1. /\ Len(cached) + k \in 1 .. Len(cached) + Len(w) /\ ~(Len(cached) + k <= Len(cached))
            /\ (Len(cached) + k) - Len(cached) = k
        BY <1>1, <1>4, <3>3
      <4>2. cached'[Len(cached) + k] = w[k] BY <3>4, <3>5, <4>1
      <4> QED BY <3>3, <4>2
    <3> QED BY <3>3, <3>4, <3>5, <3>6, <3>7
  <2>2. CASE m = Len(src) + 1
    <3> DEFINE w == cached \o src
    <3>1. /\ w \in Seq(Symbols) /\ Len(w) = Len(cached) + Len(src)
          /\ \A k \in 1 .. Len(cached) : w[k] = cached[k]
          /\ \A k \in 1 .. Len(src) : w[Len(cached) + k] = src[k]
      BY <1>1, ConcatProperties
    <3>2. cached' = Append(w, Eof) BY <1>1, <1>6, <2>2
    <3> HIDE DEF w
    <3>3. /\ cached' \in Seq(Symbols) /\ Len(cached') = Len(cached) + Len(src) + 1
          /\ \A k \in 1 .. Len(cached) + Len(src) : cached'[k] = w[k]
          /\ cached'[Len(cached) + Len(src) + 1] = Eof
      BY <1>1, <3>1, <3>2, AppendProperties
    <3>4. /\ \A k \in 1 .. Len(src) : Append(src, Eof)[k] = src[k]
          /\ Append(src, Eof)[Len(src) + 1] = Eof
      BY <1>1, AppendProperties
    <3>5. \A k \in 1 .. m : cached'[Len(cached) + k] = Append(src, Eof)[k]
      <4> TAKE k \in 1 .. m
      <4>1. CASE k \in 1 .. Len(src)
        <5>1. Len(cached) + k \in 1 .. Len(cached) + Len(src) BY <1>1, <4>1
        <5> QED BY <3>1, <3>3, <3>4, <4>1, <5>1
      <4>2. CASE k = Len(src) + 1 BY <1>1, <3>3, <3>4, <4>2
      <4> QED BY <1>1, <2>2, <4>1, <4>2
    <3>6. \A k \in 1 .. Len(cached) : cached'[k] = cached[k]
      <4> TAKE k \in 1 .. Len(cached)
      <4>1. k \in 1 .. Len(cached) + Len(src) BY <1>1
      <4> QED BY <3>1, <3>3, <4>1
    <3> QED BY <1>1, <2>2, <3>3, <3>5, <3>6
  <2> QED BY <1>1, <1>4, <2>1, <2>2, SMTT(20)
<1>9. m = lexpos + n + 1 - Len(cached) BY DEF m
<1> QED BY <1>3, <1>4, <1>5, <1>6, <1>7, <1>8, <1>9

LEMMA PeekAheadStep ==
  ASSUME IInv, AcrossEof = {}, NEW n \in Nat, PeekAhead(n) PROVE IInv'
<1>1. PICK m \in 1 .. Len(src) + 1 :
        /\ ~done /\ ~failed /\ ~LexersDrained
        /\ UNCHANGED <<lexpos, marks, done, failed>>
        /\ cur' = "null" /\ inc' = IF m <= Len(src) THEN <<"lexer">> ELSE <<>>
        /\ src' \in Seq(Tokens) /\ src' = SubSeq(src, m + 1, Len(src))
        /\ cached' \in Seq(Symbols) /\ Len(cached') = Len(cached) + m
        /\ \A k \in 1 .. Len(cached) : cached'[k] = cached[k]
        /\ \A k \in 1 .. m : cached'[Len(cached) + k] = Append(src, Eof)[k]
  BY PeekAheadCases
<1>2. /\ src \in Seq(Tokens) /\ src \in Seq(Symbols) /\ Len(src) \in Nat /\ Len(cached) \in Nat
      /\ lexpos \in 0 .. Len(cached) /\ m \in Nat /\ Eof \in Symbols
  BY DEF IInv, TypeOK, Symbols
<1>3. LexersDrained' <=> m = Len(src) + 1
  <2>1. CASE m <= Len(src)
    <3>1. inc' = <<"lexer">> /\ m # Len(src) + 1 BY <1>1, <1>2, <2>1
    <3>2. inc' # <<>> BY <3>1
    <3> QED BY <3>1, <3>2 DEF LexersDrained
  <2>2. CASE m = Len(src) + 1
    <3>1. ~(m <= Len(src)) BY <1>2, <2>2
    <3> QED BY <1>1, <2>2, <3>1 DEF LexersDrained
  <2> QED BY <1>2, <2>1, <2>2
<1>4. inc' \in {<<>>, <<"lexer">>} /\ Len(inc') <= 1
  <2>1. CASE inc' = <<>> BY <2>1
  <2>2. CASE inc' = <<"lexer">> BY <2>2
  <2> QED BY <1>1, <2>1, <2>2
<1>5. TypeOK' BY <1>1, <1>2, <1>4 DEF IInv, TypeOK
<1>6. StackNeverRunsOut'
  <2>1. MarksInOrder' BY <1>1, <1>2, SameMarks DEF IInv, StackNeverRunsOut, MarksInOrder
  <2>2. m = Len(src) + 1 => src' = <<>>
    <3>1. m = Len(src) + 1 => SubSeq(src, m + 1, Len(src)) = <<>> BY <1>2, SubSeqEmpty
    <3> QED BY <1>1, <3>1
  <2> QED BY <1>1, <1>3, <1>4, <2>1, <2>2 DEF StackNeverRunsOut, LexerWaits, LexersDrained
<1>7. /\ \A k \in 1 .. Len(src) : Append(src, Eof)[k] = src[k] /\ src[k] # Eof
      /\ Append(src, Eof)[Len(src) + 1] = Eof
  <2>1. \A k \in 1 .. Len(src) : src[k] \in Tokens BY <1>2
  <2> QED BY <1>2, <2>1, AppendProperties, TokensAssumption
<1>8. \A k \in 1 .. Len(cached') : cached'[k] = Eof => k = Len(cached') /\ m = Len(src) + 1
  <2> TAKE k \in 1 .. Len(cached')
  <2>1. CASE k \in 1 .. Len(cached) BY <1>1, <2>1 DEF IInv, EofAtEnd
  <2>2. CASE k \notin 1 .. Len(cached)
    <3>1. k - Len(cached) \in 1 .. m /\ Len(cached) + (k - Len(cached)) = k
      BY <1>1, <1>2, <2>2
    <3>2. cached'[k] = Append(src, Eof)[k - Len(cached)] BY <1>1, <3>1
    <3>3. CASE k - Len(cached) \in 1 .. Len(src)
      <4>1. cached'[k] # Eof BY <1>7, <3>2, <3>3
      <4> QED BY <4>1
    <3>4. CASE k - Len(cached) = Len(src) + 1
      <4>1. k \in Int /\ m <= Len(src) + 1 /\ k - Len(cached) <= m BY <1>2, <3>1
      <4>2. m = Len(src) + 1 BY <1>2, <3>4, <4>1
      <4>3. k = Len(cached') BY <1>1, <1>2, <3>4, <4>1, <4>2
      <4> QED BY <4>2, <4>3
    <3>5. k - Len(cached) \in 1 .. Len(src) \/ k - Len(cached) = Len(src) + 1
      BY <1>2, <3>1
    <3> QED BY <3>3, <3>4, <3>5
  <2> QED BY <2>1, <2>2
<1>9. m = Len(src) + 1 => cached'[Len(cached')] = Eof BY <1>1, <1>2, <1>7
<1>10. lexpos' < Len(cached') BY <1>1, <1>2
<1>11. EofAtEnd' BY <1>1, <1>3, <1>8, <1>9, <1>10 DEF EofAtEnd
<1> QED BY <1>5, <1>6, <1>11 DEF IInv

(* A token takes the place of the cached tokens after the p-th up to the   *)
(* last one lexed, and the client goes on before it or after it.           *)
SplicedAt(p, t) ==
  /\ cached' = SubSeq(cached, 1, p) \o <<t>> \o SubSeq(cached, lexpos + 1, Len(cached))
  /\ lexpos' \in {p, p + 1} /\ \A i \in 1 .. Len(marks) : marks[i] <= lexpos'
  /\ cur' = "null" /\ inc' \in {<<>>, <<"lexer">>} /\ (LexersDrained' <=> LexersDrained)
  /\ UNCHANGED <<src, marks, done, failed>>

LEMMA SpliceStep ==
  ASSUME IInv, ~done, NEW p \in 0 .. lexpos, NEW t \in Symbols \ {Eof}, SplicedAt(p, t)
  PROVE  IInv'
<1>0. /\ lexpos' \in {p, p + 1} /\ \A i \in 1 .. Len(marks) : marks[i] <= lexpos'
      /\ cur' = "null" /\ inc' \in {<<>>, <<"lexer">>} /\ (LexersDrained' <=> LexersDrained)
      /\ UNCHANGED <<src, marks, done, failed>>
  BY DEF SplicedAt
<1>1. /\ cached \in Seq(Symbols) /\ Len(cached) \in Nat /\ lexpos \in 0 .. Len(cached) /\ p \in Nat
      /\ lexpos \in Nat /\ p <= lexpos /\ lexpos <= Len(cached) /\ lexpos' \in Nat /\ lexpos' <= p + 1
  BY <1>0 DEF IInv, TypeOK
<1>2. /\ cached' \in Seq(Symbols) /\ Len(cached') = Len(cached) + p + 1 - lexpos
      /\ \A i \in 1 .. p : cached'[i] = cached[i]
      /\ cached'[p + 1] = t
      /\ \A i \in lexpos + 1 .. Len(cached) : cached'[i + p + 1 - lexpos] = cached[i]
  <2>1. t \in Symbols /\ cached \in Seq(Symbols) /\ lexpos \in 0 .. Len(cached) BY <1>1
  <2>2. cached' = SubSeq(cached, 1, p) \o <<t>> \o SubSeq(cached, lexpos + 1, Len(cached))
    BY DEF SplicedAt
  <2>3. IsSplice(Symbols, cached, p, lexpos, t, cached') BY <2>1, <2>2, Spliced
  <2> QED BY <2>3 DEF IsSplice
<1>10. /\ Len(cached') = Len(cached) + p + 1 - lexpos /\ Len(cached') \in Nat
      /\ p + 1 <= Len(cached')
  BY <1>1, <1>2
<1>3. lexpos' \in 0 .. Len(cached') BY <1>1, <1>10
<1>4. TypeOK' BY <1>0, <1>2, <1>3 DEF IInv, TypeOK
<1>5. Len(inc') <= 1
  <2>1. CASE inc' = <<>> BY <2>1
  <2>2. CASE inc' = <<"lexer">> BY <2>2
  <2> QED BY <1>0, <2>1, <2>2
<1>6. StackNeverRunsOut'
  <2>1. MarksInOrder' BY <1>0, <1>1, SameMarks
  <2> QED BY <1>0, <1>5, <2>1 DEF IInv, StackNeverRunsOut, LexerWaits, LexersDrained
<1>7. \A k \in 1 .. Len(cached') : cached'[k] = Eof => k = Len(cached') /\ LexersDrained
  <2> SUFFICES ASSUME NEW k \in 1 .. Len(cached'), cached'[k] = Eof
               PROVE  k = Len(cached') /\ LexersDrained
    OBVIOUS
  <2>1. k \in 1 .. p \/ k = p + 1 \/ k \in p + 2 .. Len(cached') BY <1>1, <1>10
  <2>2. k # p + 1 BY <1>2
  <2>3. k \notin 1 .. p
    <3> SUFFICES ASSUME k \in 1 .. p PROVE FALSE OBVIOUS
    <3>1. k \in 1 .. Len(cached) /\ cached[k] = Eof BY <1>1, <1>2
    <3>2. LexersDrained /\ k = Len(cached) BY <3>1 DEF IInv, EofAtEnd
    <3>3. lexpos < Len(cached) BY <3>2 DEF IInv, EofAtEnd
    <3> QED BY <1>1, <3>2, <3>3
  <2>4. CASE k \in p + 2 .. Len(cached')
    <3> DEFINE i == k + lexpos - p - 1
    <3>1. i \in lexpos + 1 .. Len(cached) /\ i + p + 1 - lexpos = k /\ i \in 1 .. Len(cached)
      BY <1>1, <1>10, <2>4
    <3> HIDE DEF i
    <3>2. cached[i] = Eof BY <1>2, <3>1
    <3>3. i = Len(cached) /\ LexersDrained BY <3>1, <3>2 DEF IInv, EofAtEnd
    <3> QED BY <1>1, <1>10, <3>1, <3>3
  <2> QED BY <2>1, <2>2, <2>3, <2>4
<1>8. LexersDrained => lexpos' < Len(cached') /\ cached'[Len(cached')] = Eof
  <2> SUFFICES ASSUME LexersDrained PROVE lexpos' < Len(cached') /\ cached'[Len(cached')] = Eof
    OBVIOUS
  <2>1. lexpos < Len(cached) /\ cached[Len(cached)] = Eof BY DEF IInv, EofAtEnd
  <2>2. Len(cached) \in lexpos + 1 .. Len(cached) BY <1>1, <2>1
  <2>3. cached'[Len(cached) + p + 1 - lexpos] = Eof BY <1>2, <2>1, <2>2
  <2>4. lexpos' < Len(cached') BY <1>1, <1>10, <2>1
  <2> QED BY <1>10, <2>3, <2>4
<1>9. EofAtEnd' BY <1>0, <1>7, <1>8 DEF EofAtEnd
<1> QED BY <1>4, <1>6, <1>9 DEF IInv

LEMMA EnterTokenStep == ASSUME IInv, NEW t \in Tokens, EnterToken(t) PROVE IInv'
<1>1. /\ ~done /\ EnterCachingLexMode /\ UNCHANGED <<src, lexpos, marks, done, failed>>
      /\ cached' = SubSeq(cached, 1, lexpos) \o <<t>> \o SubSeq(cached, lexpos + 1, Len(cached))
  BY DEF EnterToken, Active
<1>2. cur' = "null" /\ inc' \in {<<>>, <<"lexer">>} /\ (LexersDrained' <=> LexersDrained)
  BY <1>1, ModeEntered
<1>3. t \in Symbols \ {Eof} BY TokensAssumption DEF Symbols
<1>4. lexpos \in 0 .. lexpos BY DEF IInv, TypeOK
<1>5. \A i \in 1 .. Len(marks) : marks[i] <= lexpos'
  BY <1>1 DEF IInv, StackNeverRunsOut, MarksInOrder
<1>6. SplicedAt(lexpos, t) BY <1>1, <1>2, <1>5 DEF SplicedAt
<1> QED BY <1>1, <1>3, <1>4, <1>6, SpliceStep

LEMMA AnnotateStep ==
  ASSUME IInv, NEW i \in 1 .. lexpos, NEW a \in Annotations, AnnotateCachedTokens(i, a)
  PROVE  IInv'
<1>1. /\ ~done /\ marks # <<>> /\ Last(marks) < i /\ lexpos' = i
      /\ UNCHANGED <<src, cur, inc, marks, done, failed>>
      /\ cached' = Append(SubSeq(cached, 1, i - 1), a) \o SubSeq(cached, lexpos + 1, Len(cached))
  BY DEF AnnotateCachedTokens, Active, isBacktrackEnabled
<1>2. cached \in Seq(Symbols) /\ lexpos \in 0 .. Len(cached) /\ Len(cached) \in Nat
  BY DEF IInv, TypeOK
<1>3. i - 1 \in 0 .. lexpos /\ i = (i - 1) + 1 BY <1>2
<1>4. a \in Symbols \ {Eof} BY TokensAssumption DEF Symbols
<1>5. Append(SubSeq(cached, 1, i - 1), a) = SubSeq(cached, 1, i - 1) \o <<a>>
  <2>1. 1 \in 1 .. Len(cached) + 1 /\ i - 1 \in 1 - 1 .. Len(cached) BY <1>2
  <2>2. SubSeq(cached, 1, i - 1) \in Seq(Symbols) BY <1>2, <2>1, Window
  <2> QED BY <1>4, <2>2, AppendIsConcat
<1>6. cur = "null" BY <1>1 DEF IInv, TypeOK, StackNeverRunsOut, LexerWaits
<1>7. \A j \in 1 .. Len(marks) : marks[j] <= lexpos' BY <1>1, <1>2, MarksBelow
<1>8. inc \in {<<>>, <<"lexer">>} /\ (LexersDrained' <=> LexersDrained)
  BY <1>1 DEF IInv, TypeOK, LexersDrained
<1>9. SplicedAt(i - 1, a) BY <1>1, <1>3, <1>5, <1>6, <1>7, <1>8 DEF SplicedAt
<1> QED BY <1>1, <1>3, <1>4, <1>9, SpliceStep

LEMMA ReplaceStep ==
  ASSUME IInv, NEW a \in Annotations, ReplaceLastTokenWithAnnotation(a) PROVE IInv'
<1>1. /\ ~done /\ lexpos # 0 /\ cached' = [cached EXCEPT ![lexpos] = a]
      /\ UNCHANGED <<src, cur, inc, lexpos, marks, done, failed>>
  BY DEF ReplaceLastTokenWithAnnotation, Active
<1>2. /\ cached \in Seq(Symbols) /\ lexpos \in 1 .. Len(cached) /\ Len(cached) \in Nat
      /\ a \in Symbols /\ a # Eof
  BY <1>1, TokensAssumption DEF IInv, TypeOK, Symbols
<1>3. /\ cached' \in Seq(Symbols) /\ Len(cached') = Len(cached) /\ cached'[lexpos] = a
      /\ \A k \in 1 .. Len(cached) : k # lexpos => cached'[k] = cached[k]
  BY <1>1, <1>2, ExceptSeq
<1>4. TypeOK' BY <1>1, <1>3 DEF IInv, TypeOK
<1>5. StackNeverRunsOut'
  <2>1. cached # <<>> BY <1>2
  <2> QED BY <1>1, <2>1 DEF IInv, TypeOK, StackNeverRunsOut, LexerWaits, MarksInOrder
<1>6. EofAtEnd'
  <2>1. \A k \in 1 .. Len(cached) : cached'[k] = Eof => cached[k] = Eof BY <1>2, <1>3
  <2>2. LexersDrained => lexpos < Len(cached) /\ cached[Len(cached)] = Eof
    BY <1>1 DEF IInv, EofAtEnd
  <2>3. LexersDrained => cached'[Len(cached)] = Eof BY <1>2, <1>3, <2>2
  <2> QED BY <1>1, <1>3, <2>1, <2>2, <2>3 DEF IInv, EofAtEnd, LexersDrained
<1> QED BY <1>4, <1>5, <1>6 DEF IInv

(* Every step of a client that stops at the end of the file.               *)
LEMMA NextIInv == ASSUME IInv, AcrossEof = {}, [Next]_vars PROVE IInv'
<1>1. CASE UNCHANGED vars
  BY <1>1 DEF vars, IInv, TypeOK, StackNeverRunsOut, LexerWaits, MarksInOrder, EofAtEnd, LexersDrained
<1>2. CASE LexFromLexer BY <1>2, LexFromLexerStep
<1>3. CASE LexCachedToken BY <1>3, LexCachedTokenStep
<1>4. CASE CachingLex BY <1>4, CachingLexStep
<1>5. CASE EnableBacktrackAtThisPos BY <1>5, EnableBacktrackStep
<1>6. CASE CommitBacktrackedTokens BY <1>6, CommitStep
<1>7. CASE Backtrack BY <1>7, BacktrackStep
<1>8. CASE \E n \in 1 .. lexpos : RevertCachedTokens(n) BY <1>8, RevertStep
<1>9. CASE \E n \in 0 .. MaxLookAhead : LookAheadInCache(n)
  BY <1>9 DEF LookAheadInCache, IInv, TypeOK, StackNeverRunsOut, LexerWaits, MarksInOrder,
              EofAtEnd, LexersDrained
<1>10. CASE \E n \in 0 .. MaxLookAhead : PeekAhead(n)
  <2>1. PICK n \in 0 .. MaxLookAhead : PeekAhead(n) BY <1>10
  <2>2. n \in Nat OBVIOUS
  <2> QED BY <2>1, <2>2, PeekAheadStep
<1>11. CASE \E t \in Tokens : EnterToken(t) BY <1>11, EnterTokenStep
<1>12. CASE \E i \in 1 .. lexpos, a \in Annotations : AnnotateCachedTokens(i, a)
  BY <1>12, AnnotateStep
<1>13. CASE \E a \in Annotations : ReplaceLastTokenWithAnnotation(a) BY <1>13, ReplaceStep
<1> QED
  BY <1>1, <1>2, <1>3, <1>4, <1>5, <1>6, <1>7, <1>8, <1>9, <1>10, <1>11, <1>12, <1>13 DEF Next

(* As long as the client stops at the end of the file, the variables keep  *)
(* their types and Eof is in the cache only at its end.                    *)
THEOREM TypeCorrect == ASSUME AcrossEof = {} PROVE Spec => [](TypeOK /\ EofAtEnd)
<1>1. Init => IInv BY InitIInv
<1>2. IInv /\ [Next]_vars => IInv' BY NextIInv
<1>3. IInv => TypeOK /\ EofAtEnd BY DEF IInv
<1> QED BY <1>1, <1>2, <1>3, PTL DEF Spec

(* "Ran out of stack entries to load" (PPLexerChange.cpp:237) never        *)
(* happens, one lexer waits, and the places to go back to stay in order,   *)
(* whatever a client does that stops at the end of the file.               *)
THEOREM LexerAlwaysWaits == ASSUME AcrossEof = {} PROVE Spec => []StackNeverRunsOut
<1>1. Init => IInv BY InitIInv
<1>2. IInv /\ [Next]_vars => IInv' BY NextIInv
<1>3. IInv => StackNeverRunsOut BY DEF IInv
<1> QED BY <1>1, <1>2, <1>3, PTL DEF Spec

-----------------------------------------------------------------------------
(* The stream the client sees.                                             *)

(* Places counted from b. *)
Offsets(ms, b) == [i \in 1 .. Len(ms) |-> ms[i] - b]

LEMMA OffsetsAre ==
  ASSUME NEW ms \in Seq(Int), NEW b \in Int
  PROVE  /\ Offsets(ms, b) \in Seq(Int) /\ Len(Offsets(ms, b)) = Len(ms)
         /\ \A i \in 1 .. Len(ms) : Offsets(ms, b)[i] = ms[i] - b
<1>1. Len(ms) \in Nat /\ \A i \in 1 .. Len(ms) : ms[i] - b \in Int OBVIOUS
<1>2. Offsets(ms, b) \in [1 .. Len(ms) -> Int] BY <1>1 DEF Offsets
<1>3. Offsets(ms, b) \in Seq(Int) BY <1>1, <1>2, SeqDef
<1>4. DOMAIN Offsets(ms, b) = 1 .. Len(ms) BY DEF Offsets
<1>5. Len(Offsets(ms, b)) = Len(ms)
  <2>1. Len(Offsets(ms, b)) \in Nat /\ 1 .. Len(Offsets(ms, b)) = 1 .. Len(ms)
    BY <1>3, <1>4, LenProperties
  <2> QED BY <1>1, <2>1
<1> QED BY <1>3, <1>5 DEF Offsets

LEMMA OffsetsAppend ==
  ASSUME NEW ms \in Seq(Int), NEW b \in Int, NEW p \in Int
  PROVE  Offsets(Append(ms, p), b) = Append(Offsets(ms, b), p - b)
<1> DEFINE x == Offsets(Append(ms, p), b)
           y == Append(Offsets(ms, b), p - b)
<1>1. /\ Append(ms, p) \in Seq(Int) /\ Len(Append(ms, p)) = Len(ms) + 1
      /\ \A i \in 1 .. Len(ms) : Append(ms, p)[i] = ms[i]
      /\ Append(ms, p)[Len(ms) + 1] = p
  BY AppendProperties
<1>2. /\ x \in Seq(Int) /\ Len(x) = Len(ms) + 1
      /\ \A i \in 1 .. Len(ms) + 1 : x[i] = Append(ms, p)[i] - b
  BY <1>1, OffsetsAre
<1>3. /\ Offsets(ms, b) \in Seq(Int) /\ Len(Offsets(ms, b)) = Len(ms)
      /\ \A i \in 1 .. Len(ms) : Offsets(ms, b)[i] = ms[i] - b
  BY OffsetsAre
<1>4. /\ y \in Seq(Int) /\ Len(y) = Len(ms) + 1
      /\ \A i \in 1 .. Len(ms) : y[i] = ms[i] - b
      /\ y[Len(ms) + 1] = p - b
  <2>1. p - b \in Int OBVIOUS
  <2> QED BY <1>3, <2>1, AppendProperties
<1> HIDE DEF x, y
<1>5. \A i \in 1 .. Len(ms) + 1 : x[i] = y[i]
  <2> TAKE i \in 1 .. Len(ms) + 1
  <2>1. CASE i \in 1 .. Len(ms) BY <1>1, <1>2, <1>4, <2>1
  <2>2. CASE i = Len(ms) + 1 BY <1>1, <1>2, <1>4, <2>2
  <2>3. Len(ms) \in Nat OBVIOUS
  <2> QED BY <2>1, <2>2, <2>3
<1>6. x = y BY <1>2, <1>4, <1>5, SeqEqual
<1> QED BY <1>6 DEF x, y

LEMMA OffsetsFront ==
  ASSUME NEW ms \in Seq(Int), ms # <<>>, NEW b \in Int
  PROVE  /\ Offsets(Front(ms), b) = Front(Offsets(ms, b))
         /\ Last(Offsets(ms, b)) = Last(ms) - b
         /\ Offsets(ms, b) # <<>>
<1> DEFINE o == Offsets(ms, b)
           x == Offsets(Front(ms), b)
           y == Front(o)
<1>1. /\ Len(ms) \in Nat \ {0} /\ Front(ms) \in Seq(Int) /\ Len(Front(ms)) = Len(ms) - 1
      /\ \A i \in 1 .. Len(ms) - 1 : Front(ms)[i] = ms[i]
      /\ Last(ms) = ms[Len(ms)]
  BY FrontLast
<1>2. /\ o \in Seq(Int) /\ Len(o) = Len(ms)
      /\ \A i \in 1 .. Len(ms) : o[i] = ms[i] - b
  BY OffsetsAre
<1>3. /\ x \in Seq(Int) /\ Len(x) = Len(ms) - 1
      /\ \A i \in 1 .. Len(ms) - 1 : x[i] = Front(ms)[i] - b
  BY <1>1, OffsetsAre
<1> HIDE DEF o, x
<1>4. o # <<>> BY <1>1, <1>2
<1>5. /\ y \in Seq(Int) /\ Len(y) = Len(ms) - 1 /\ Last(o) = o[Len(o)]
      /\ \A i \in 1 .. Len(ms) - 1 : y[i] = o[i]
  BY <1>2, <1>4, FrontLast
<1> HIDE DEF y
<1>6. \A i \in 1 .. Len(ms) - 1 : x[i] = y[i]
  <2> TAKE i \in 1 .. Len(ms) - 1
  <2>1. i \in 1 .. Len(ms) BY <1>1
  <2> QED BY <1>1, <1>2, <1>3, <1>5, <2>1
<1>7. x = y BY <1>3, <1>5, <1>6, SeqEqual
<1>8. Last(o) = Last(ms) - b BY <1>1, <1>2, <1>5
<1> QED BY <1>4, <1>7, <1>8 DEF o, x, y

LEMMA OffsetsOfNone == ASSUME NEW b PROVE Offsets(<<>>, b) = <<>>
<1>1. DOMAIN Offsets(<<>>, b) = 1 .. 0 BY DEF Offsets
<1>2. 1 .. 0 = {} OBVIOUS
<1> QED BY <1>1, <1>2 DEF Offsets

(* Where the client can go back to, and what comes first and last.         *)
Places ==
  /\ cached \in Seq(Symbols) /\ Len(cached) \in Nat
  /\ lexpos \in Nat /\ lexpos <= Len(cached)
  /\ Base \in Nat /\ Base <= lexpos
  /\ marks \in Seq(Int) /\ \A i \in 1 .. Len(marks) : Base <= marks[i]
  /\ Coming \in Seq(Symbols)

LEMMA PlacesHold == IInv => Places
<1> SUFFICES ASSUME IInv PROVE Places OBVIOUS
<1>1. /\ cached \in Seq(Symbols) /\ Len(cached) \in Nat /\ lexpos \in Nat /\ lexpos <= Len(cached)
      /\ marks \in Seq(Nat) /\ marks \in Seq(Int)
  BY DEF IInv, TypeOK
<1>2. Base \in Nat /\ Base <= lexpos /\ \A i \in 1 .. Len(marks) : Base <= marks[i]
  <2>1. CASE marks = <<>> BY <1>1, <2>1 DEF Base
  <2>2. CASE marks # <<>>
    <3>1. 1 \in 1 .. Len(marks) BY <1>1, <2>2
    <3>2. marks[1] \in Nat /\ marks[1] <= lexpos /\ \A i \in 1 .. Len(marks) : marks[1] <= marks[i]
      BY <1>1, <3>1 DEF IInv, StackNeverRunsOut, MarksInOrder
    <3> QED BY <2>2, <3>2 DEF Base
  <2> QED BY <2>1, <2>2
<1>3. Coming \in Seq(Symbols)
  <2>1. src \in Seq(Symbols) /\ Eof \in Symbols /\ <<>> \in Seq(Symbols)
    BY DEF IInv, TypeOK, Symbols
  <2> QED BY <2>1, AppendProperties DEF Coming
<1> QED BY <1>1, <1>2, <1>3 DEF Places

LEMMA PlacesHoldNext == IInv' => Places'
  BY PlacesHold, PTL

(* Unless Eof was dropped, what the client can go back over is a window of *)
(* the cache; what is to come is the rest of the cache and of the lexers.  *)
HistIsWindow == ~EofDropped => HistOf = SubSeq(cached, Base + 1, lexpos)
RestIsSeq == RestOf \in Seq(Symbols) /\ HistOf \in Seq(Symbols)

LEMMA StreamHolds == IInv => HistIsWindow /\ RestIsSeq
<1> SUFFICES ASSUME IInv PROVE HistIsWindow /\ RestIsSeq OBVIOUS
<1>1. Places BY PlacesHold
<1>2. SubSeq(cached, Base + 1, lexpos) \in Seq(Symbols)
  <2>1. Base + 1 \in 1 .. Len(cached) + 1 /\ lexpos \in (Base + 1) - 1 .. Len(cached)
    BY <1>1 DEF Places
  <2> QED BY <1>1, <2>1, Window DEF Places
<1>3. SubSeq(cached, lexpos + 1, Len(cached)) \in Seq(Symbols)
  <2>1. lexpos + 1 \in 1 .. Len(cached) + 1 /\ Len(cached) \in (lexpos + 1) - 1 .. Len(cached)
    BY <1>1 DEF Places
  <2> QED BY <1>1, <2>1, Window DEF Places
<1>4. HistIsWindow BY <1>2, ConcatEmptySeq DEF HistIsWindow, HistOf
<1>5. RestOf = SubSeq(cached, lexpos + 1, Len(cached)) \o Coming BY DEF RestOf, Coming
<1>6. RestOf \in Seq(Symbols)
  <2>1. Coming \in Seq(Symbols) BY <1>1 DEF Places
  <2> HIDE DEF Coming
  <2> QED BY <1>3, <1>5, <2>1, ConcatProperties
<1>7. HistOf \in Seq(Symbols)
  <2>1. Eof \in Symbols BY DEF Symbols
  <2>2. <<Eof>> \in Seq(Symbols) /\ <<>> \in Seq(Symbols) BY <2>1
  <2> DEFINE dropped == IF EofDropped THEN <<Eof>> ELSE <<>>
  <2>3. dropped \in Seq(Symbols) BY <2>2
  <2>4. HistOf = SubSeq(cached, Base + 1, lexpos) \o dropped BY DEF HistOf
  <2> HIDE DEF dropped
  <2> QED BY <1>2, <2>3, <2>4, ConcatProperties
<1> QED BY <1>4, <1>6, <1>7 DEF RestIsSeq

LEMMA StreamHoldsNext == IInv' => HistIsWindow' /\ RestIsSeq'
  BY StreamHolds, PTL

LEMMA RestIs == RestOf = SubSeq(cached, lexpos + 1, Len(cached)) \o Coming
  BY DEF RestOf, Coming

LEMMA RestIsNext == RestOf' = SubSeq(cached', lexpos' + 1, Len(cached')) \o Coming'
  BY DEF RestOf, Coming

(* The stream starts with what is in the cache, then what the lexers have. *)
LEMMA RestFromCache ==
  ASSUME IInv, lexpos < Len(cached)
  PROVE  /\ cached[lexpos + 1] \in Symbols
         /\ SubSeq(cached, (lexpos + 1) + 1, Len(cached)) \o Coming \in Seq(Symbols)
         /\ RestOf = << cached[lexpos + 1] >> \o (SubSeq(cached, (lexpos + 1) + 1, Len(cached)) \o Coming)
<1>1. Places BY PlacesHold
<1>2. lexpos + 1 \in 1 .. Len(cached) /\ Len(cached) \in lexpos + 1 .. Len(cached)
  BY <1>1 DEF Places
<1>3. (lexpos + 1) + 1 \in 1 .. Len(cached) + 1 /\ Len(cached) \in ((lexpos + 1) + 1) - 1 .. Len(cached)
  BY <1>2
<1> DEFINE w == SubSeq(cached, (lexpos + 1) + 1, Len(cached))
           t == cached[lexpos + 1]
<1>4. t \in Symbols BY <1>1, <1>2, ElementOfSeq DEF Places
<1>5. w \in Seq(Symbols) BY <1>1, <1>3, Window DEF Places
<1>6. SubSeq(cached, lexpos + 1, Len(cached)) = <<t>> \o w
  BY <1>1, <1>2, SubSeqRecursiveFirst DEF Places
<1>7. Coming \in Seq(Symbols) BY <1>1 DEF Places
<1>8. <<t>> \in Seq(Symbols) BY <1>4
<1> HIDE DEF t, w, Coming
<1>9. w \o Coming \in Seq(Symbols) BY <1>5, <1>7, ConcatProperties
<1>10. (<<t>> \o w) \o Coming = <<t>> \o (w \o Coming) BY <1>5, <1>7, <1>8, ConcatAssociative
<1> QED BY <1>4, <1>6, <1>9, <1>10, RestIs DEF t, w

LEMMA RestFromLexers ==
  ASSUME IInv, lexpos = Len(cached), ~LexersDrained
  PROVE  /\ NextToken \in Symbols
         /\ RestOf = Append(src, Eof)
         /\ RestOf = << NextToken >> \o (IF src = <<>> THEN <<>> ELSE Append(AfterNext, Eof))
<1>1. Places /\ src \in Seq(Tokens) /\ src \in Seq(Symbols) /\ Eof \in Symbols
  BY PlacesHold DEF IInv, TypeOK, Symbols
<1>2. RestOf = Append(src, Eof)
  <2>1. SubSeq(cached, lexpos + 1, Len(cached)) = <<>> BY <1>1, SubSeqEmpty DEF Places
  <2>2. Coming = Append(src, Eof) /\ Coming \in Seq(Symbols) BY <1>1 DEF Places, Coming
  <2> QED BY <2>1, <2>2, RestIs, ConcatEmptySeq
<1>3. CASE src = <<>>
  <2>1. NextToken = Eof BY <1>3 DEF NextToken
  <2>2. Append(src, Eof) = <<>> \o <<Eof>> BY <1>1, <1>3, AppendIsConcat
  <2>3. <<Eof>> \in Seq(Symbols) BY <1>1
  <2>4. <<>> \o <<Eof>> = <<Eof>> /\ <<Eof>> \o <<>> = <<Eof>> BY <2>3, ConcatEmptySeq
  <2> QED BY <1>1, <1>2, <1>3, <2>1, <2>2, <2>4
<1>4. CASE src # <<>>
  <2>1. NextToken = Head(src) /\ AfterNext = Tail(src) BY <1>4 DEF NextToken, AfterNext
  <2>2. Head(src) \in Symbols /\ Tail(src) \in Seq(Symbols) BY <1>1, <1>4, HeadTailProperties
  <2>3. 1 \in 1 .. Len(src) /\ Len(src) \in 1 .. Len(src) BY <1>1, <1>4, EmptySeq
  <2>4. src = << Head(src) >> \o Tail(src)
    <3>1. SubSeq(src, 1, Len(src)) = src BY <1>1, SubSeqFull
    <3>2. SubSeq(src, 1, Len(src)) = << src[1] >> \o SubSeq(src, 1 + 1, Len(src))
      BY <1>1, <2>3, SubSeqRecursiveFirst
    <3>3. Tail(src) = SubSeq(src, 2, Len(src)) BY <1>1, <1>4, TailIsSubSeq
    <3>4. Head(src) = src[1] BY <1>1, <1>4
    <3> QED BY <3>1, <3>2, <3>3, <3>4
  <2> DEFINE h == Head(src)
             r == Tail(src)
  <2>5. src = <<h>> \o r /\ h \in Symbols /\ r \in Seq(Symbols) BY <2>2, <2>4
  <2> HIDE DEF h, r
  <2>6. <<h>> \in Seq(Symbols) /\ <<Eof>> \in Seq(Symbols) BY <1>1, <2>5
  <2>7. Append(src, Eof) = src \o <<Eof>> /\ Append(r, Eof) = r \o <<Eof>>
    BY <1>1, <2>5, AppendIsConcat
  <2>8. (<<h>> \o r) \o <<Eof>> = <<h>> \o (r \o <<Eof>>) BY <2>5, <2>6, ConcatAssociative
  <2>9. RestOf = <<h>> \o Append(r, Eof) BY <1>2, <2>5, <2>7, <2>8
  <2> QED BY <1>2, <1>4, <2>1, <2>5, <2>9 DEF h, r
<1> QED BY <1>3, <1>4

-----------------------------------------------------------------------------
(* The refinement.                                                         *)

LEMMA InitMapsToInit == Init => Stream!Init
<1> SUFFICES ASSUME Init PROVE Stream!Init OBVIOUS
<1>1. IInv BY InitIInv
<1>2. /\ lexpos = Len(cached) /\ ~LexersDrained /\ marks = <<>> /\ cached = <<>> /\ lexpos = 0 /\ ret = Eof
  BY DEF Init, LexersDrained
<1>3. RestOf = Append(src, Eof) BY <1>1, <1>2, RestFromLexers
<1>4. src \in Seq(Symbols) /\ Eof \in Symbols BY <1>1 DEF IInv, TypeOK, Symbols
<1>5. RestOf \in Seq(Stream!Symbols) /\ RestOf # <<>> /\ Last(RestOf) = Eof
  <2>1. /\ RestOf \in Seq(Symbols) /\ RestOf # <<>> /\ Len(RestOf) = Len(src) + 1
        /\ RestOf[Len(src) + 1] = Eof
    BY <1>3, <1>4, AppendProperties
  <2> QED BY <2>1 DEF Last, Symbols, Stream!Symbols
<1>6. HistOf = <<>>
  <2>1. ~EofDropped /\ Base = 0 BY <1>2 DEF EofDropped, Base
  <2>2. HistOf = SubSeq(cached, 0 + 1, 0) BY <1>1, <1>2, <2>1, StreamHolds DEF HistIsWindow
  <2> QED BY <2>2, SubSeqEmpty
<1>7. MarksOf = <<>>
  <2>1. MarksOf = Offsets(marks, Base) BY DEF MarksOf, Offsets
  <2> QED BY <1>2, <2>1, OffsetsOfNone
<1> QED BY <1>2, <1>5, <1>6, <1>7 DEF Stream!Init, Stream!Last, Last

LEMMA MarksAre ==
  ASSUME IInv
  PROVE  /\ MarksOf = Offsets(marks, Base)
         /\ MarksOf = <<>> <=> marks = <<>>
<1>1. MarksOf = Offsets(marks, Base) BY DEF MarksOf, Offsets
<1>2. marks = <<>> => MarksOf = <<>> BY <1>1, OffsetsOfNone
<1>3. marks # <<>> => MarksOf # <<>>
  <2>1. Places BY PlacesHold
  <2> QED BY <1>1, <2>1, OffsetsFront DEF Places
<1> QED BY <1>1, <1>2, <1>3

(* The marks stay what they are while they are not touched. *)
LEMMA MarksStay ==
  ASSUME marks' = marks
  PROVE  MarksOf' = MarksOf /\ (marks # <<>> => Base' = Base)
<1>1. MarksOf' = Offsets(marks', Base') /\ MarksOf = Offsets(marks, Base) BY DEF MarksOf, Offsets
<1>2. marks # <<>> => Base' = Base BY DEF Base
<1>3. marks = <<>> => MarksOf' = MarksOf BY <1>1, OffsetsOfNone
<1> QED BY <1>1, <1>2, <1>3

(* The next token of the stream is taken from it, and remembered as long   *)
(* as there is a mark.                                                     *)
LEMMA TakenIsLex ==
  ASSUME IInv, ret' \in Symbols, RestOf = << ret' >> \o RestOf', RestOf' \in Seq(Symbols),
         marks' = marks, HistOf' = IF marks = <<>> THEN <<>> ELSE Append(HistOf, ret')
  PROVE  Stream!Lex
<1>1. RestOf # <<>> /\ Head(RestOf) = ret' /\ Tail(RestOf) = RestOf' BY ConsHeadTail
<1>2. MarksOf' = MarksOf BY MarksStay
<1>3. MarksOf = <<>> <=> marks = <<>> BY MarksAre
<1> QED BY <1>1, <1>2, <1>3 DEF Stream!Lex, Stream!Remembered

(* Without a mark there is nothing to go back over. *)
LEMMA NoHist == IInv' /\ marks' = <<>> => HistOf' = <<>>
<1> SUFFICES ASSUME IInv', marks' = <<>> PROVE HistOf' = <<>> OBVIOUS
<1>1. ~EofDropped' /\ Base' = lexpos' BY DEF EofDropped, Base
<1>2. HistOf' = SubSeq(cached', lexpos' + 1, lexpos') BY <1>1, StreamHoldsNext DEF HistIsWindow
<1>3. PICK p \in Int : p = lexpos' BY PlacesHoldNext DEF Places
<1>4. p + 1 \in Int /\ p < p + 1 OBVIOUS
<1>5. SubSeq(cached', p + 1, p) = <<>> BY <1>4, SubSeqEmpty
<1> QED BY <1>2, <1>3, <1>5

LEMMA LexFromLexerIsLex == ASSUME IInv, IInv', LexFromLexer PROVE Stream!Lex
<1>1. /\ ret' = NextToken /\ src' = AfterNext /\ marks' = marks /\ cached' = cached /\ lexpos' = lexpos
      /\ cur' = (IF src = <<>> THEN "null" ELSE cur) /\ inc' = inc /\ cur # "null"
  BY DEF LexFromLexer, InCachingLexMode
<1>2. marks = <<>> /\ cached = <<>> /\ lexpos = 0 /\ inc = <<>>
  BY <1>1 DEF IInv, TypeOK, StackNeverRunsOut, LexerWaits
<1>3. lexpos = Len(cached) /\ ~LexersDrained BY <1>1, <1>2 DEF LexersDrained
<1>4. /\ NextToken \in Symbols
      /\ RestOf = << NextToken >> \o (IF src = <<>> THEN <<>> ELSE Append(AfterNext, Eof))
  BY <1>3, RestFromLexers
<1>5. RestOf' = IF src = <<>> THEN <<>> ELSE Append(AfterNext, Eof)
  <2>1. SubSeq(cached', lexpos' + 1, Len(cached')) = <<>> BY <1>1, <1>2, SubSeqEmpty
  <2>2. Coming' = IF src = <<>> THEN <<>> ELSE Append(AfterNext, Eof)
    BY <1>1, <1>2 DEF Coming, LexersDrained
  <2>3. Coming' \in Seq(Symbols) BY PlacesHoldNext DEF Places
  <2> QED BY <2>1, <2>2, <2>3, RestIsNext, ConcatEmptySeq
<1>6. RestOf' \in Seq(Symbols) /\ HistOf' = <<>> BY <1>1, <1>2, NoHist, StreamHoldsNext DEF RestIsSeq
<1> QED BY <1>1, <1>2, <1>4, <1>5, <1>6, TakenIsLex

LEMMA LexCachedTokenIsLex == ASSUME IInv, IInv', LexCachedToken PROVE Stream!Lex
<1>1. /\ ~done /\ lexpos < Len(cached) /\ ret' = cached[lexpos + 1] /\ lexpos' = lexpos + 1
      /\ done' = (ret' = Eof) /\ UNCHANGED <<src, cur, inc, cached, marks>>
  BY DEF LexCachedToken, Active
<1>2. Places BY PlacesHold
<1>3. lexpos + 1 \in 1 .. Len(cached) BY <1>1, <1>2 DEF Places
<1>4. RestOf' = SubSeq(cached, (lexpos + 1) + 1, Len(cached)) \o Coming
  BY <1>1, RestIsNext DEF Coming, LexersDrained
<1>5. /\ ret' \in Symbols /\ RestOf' \in Seq(Symbols) /\ RestOf = << ret' >> \o RestOf'
  BY <1>1, <1>4, RestFromCache
<1>6. marks # <<>> => HistOf' = Append(HistOf, ret')
  <2> SUFFICES ASSUME marks # <<>> PROVE HistOf' = Append(HistOf, ret') OBVIOUS
  <2>1. ~EofDropped BY <1>1 DEF EofDropped
  <2>2. ~EofDropped'
    <3>1. done' => lexpos + 1 = Len(cached) /\ cached[lexpos + 1] = Eof
      BY <1>1, <1>3 DEF IInv, EofAtEnd
    <3> QED BY <1>1, <1>3, <3>1 DEF EofDropped, Last
  <2>3. Base' = Base BY <1>1, MarksStay
  <2>4. HistOf = SubSeq(cached, Base + 1, lexpos) BY <2>1, StreamHolds DEF HistIsWindow
  <2>5. HistOf' = SubSeq(cached, Base + 1, lexpos + 1)
    BY <1>1, <2>2, <2>3, StreamHoldsNext DEF HistIsWindow
  <2>6. /\ Base + 1 \in 1 .. Len(cached) /\ lexpos + 1 \in Base + 1 .. Len(cached)
        /\ (lexpos + 1) - 1 = lexpos
    BY <1>2, <1>3 DEF Places
  <2>7. SubSeq(cached, Base + 1, lexpos + 1)
          = Append(SubSeq(cached, Base + 1, (lexpos + 1) - 1), cached[lexpos + 1])
    BY <1>2, <2>6, WindowAppend DEF Places
  <2> QED BY <1>1, <2>4, <2>5, <2>6, <2>7
<1>7. marks = <<>> => HistOf' = <<>> BY <1>1, NoHist
<1> QED BY <1>1, <1>5, <1>6, <1>7, TakenIsLex

LEMMA CachingLexIsLex == ASSUME IInv, IInv', CachingLex PROVE Stream!Lex
<1>1. /\ cur = "null" /\ inc = <<"lexer">> /\ lexpos = Len(cached) /\ ~done
      /\ ret' = NextToken /\ src' = AfterNext /\ done' = (src = <<>>) /\ marks' = marks
  BY CachingLexCases
<1>2. ~LexersDrained BY <1>1 DEF LexersDrained
<1>3. Places /\ src \in Seq(Tokens) BY PlacesHold DEF IInv, TypeOK
<1>4. /\ NextToken \in Symbols
      /\ RestOf = << NextToken >> \o (IF src = <<>> THEN <<>> ELSE Append(AfterNext, Eof))
  BY <1>1, <1>2, RestFromLexers
<1>5. LexersDrained' <=> src = <<>>
  <2>1. CASE src = <<>> BY <2>1, CachingLexCases DEF LexersDrained
  <2>2. CASE src # <<>> /\ marks # <<>>
    <3>1. inc' = <<"lexer">> BY <1>1, <2>2, CachingLexCases DEF lexers
    <3> QED BY <2>2, <3>1 DEF LexersDrained
  <2>3. CASE src # <<>> /\ marks = <<>> BY <2>3, CachingLexCases DEF LexersDrained
  <2> QED BY <2>1, <2>2, <2>3
<1>6. lexpos' = Len(cached')
  <2>1. CASE marks = <<>> BY <2>1, CachingLexCases
  <2>2. CASE marks # <<>> /\ src = <<>> BY <1>1, <2>2, CachingLexCases
  <2>3. CASE marks # <<>> /\ src # <<>>
    <3>1. cached' = Append(cached, Head(src)) /\ lexpos' = lexpos + 1 BY <2>3, CachingLexCases
    <3>2. Head(src) \in Symbols BY <1>3, <2>3, HeadTailProperties DEF Symbols
    <3> QED BY <1>1, <1>3, <3>1, <3>2, AppendProperties DEF Places
  <2> QED BY <2>1, <2>2, <2>3
<1>7. RestOf' = IF src = <<>> THEN <<>> ELSE Append(AfterNext, Eof)
  <2>1. Places' BY PlacesHoldNext
  <2>2. SubSeq(cached', lexpos' + 1, Len(cached')) = <<>> BY <1>6, <2>1, SubSeqEmpty DEF Places
  <2>3. Coming' = IF src = <<>> THEN <<>> ELSE Append(AfterNext, Eof)
    BY <1>1, <1>5 DEF Coming
  <2>4. Coming' \in Seq(Symbols) BY <2>1 DEF Places
  <2> QED BY <2>2, <2>3, <2>4, RestIsNext, ConcatEmptySeq
<1>8. RestOf' \in Seq(Symbols) BY StreamHoldsNext DEF RestIsSeq
<1>9. marks # <<>> => HistOf' = Append(HistOf, ret')
  <2> SUFFICES ASSUME marks # <<>> PROVE HistOf' = Append(HistOf, ret') OBVIOUS
  <2>1. ~EofDropped BY <1>1 DEF EofDropped
  <2>2. HistOf = SubSeq(cached, Base + 1, lexpos) BY <2>1, StreamHolds DEF HistIsWindow
  <2>3. Base' = Base BY <1>1, MarksStay
  <2>4. HistOf \in Seq(Symbols) BY StreamHolds DEF RestIsSeq
  <2>5. CASE src = <<>>
    <3>1. cached' = cached /\ lexpos' = lexpos /\ done' BY <1>1, <2>5, CachingLexCases
    <3>2. EofDropped'
      <4>1. cached # <<>> => Last(cached) # Eof
        <5>1. cached # <<>> => Len(cached) \in 1 .. Len(cached) BY <1>3, EmptySeq DEF Places
        <5> QED BY <1>2, <5>1 DEF IInv, EofAtEnd, Last
      <4> QED BY <1>1, <3>1, <4>1 DEF EofDropped
    <3>3. HistOf' = SubSeq(cached, Base + 1, lexpos) \o <<Eof>> BY <2>3, <3>1, <3>2 DEF HistOf
    <3>4. ret' = Eof /\ Eof \in Symbols BY <1>1, <2>5 DEF NextToken, Symbols
    <3> QED BY <2>2, <2>4, <3>3, <3>4, AppendIsConcat
  <2>6. CASE src # <<>>
    <3>1. cached' = Append(cached, Head(src)) /\ lexpos' = lexpos + 1 /\ ret' = Head(src) /\ ~done'
      BY <1>1, <2>6, CachingLexCases DEF NextToken
    <3>2. Head(src) \in Symbols BY <1>3, <2>6, HeadTailProperties DEF Symbols
    <3>3. /\ cached' \in Seq(Symbols) /\ Len(cached') = Len(cached) + 1
          /\ \A i \in 1 .. Len(cached) : cached'[i] = cached[i]
          /\ cached'[Len(cached) + 1] = Head(src)
      BY <1>3, <3>1, <3>2, AppendProperties DEF Places
    <3>4. ~EofDropped' BY <3>1 DEF EofDropped
    <3>5. HistOf' = SubSeq(cached', Base + 1, lexpos + 1)
      BY <2>3, <3>1, <3>4, StreamHoldsNext DEF HistIsWindow
    <3>6. /\ Base + 1 \in 1 .. Len(cached') /\ lexpos + 1 \in Base + 1 .. Len(cached')
          /\ (lexpos + 1) - 1 = lexpos
      BY <1>1, <1>3, <3>3 DEF Places
    <3>7. SubSeq(cached', Base + 1, lexpos + 1) = Append(SubSeq(cached', Base + 1, lexpos), cached'[lexpos + 1])
      BY <3>3, <3>6, WindowAppend
    <3>8. SubSeq(cached, Base + 1, lexpos) = SubSeq(cached', Base + 1, lexpos)
      <4>1. /\ Base + 1 \in 1 .. Len(cached) + 1 /\ lexpos \in (Base + 1) - 1 .. Len(cached)
            /\ lexpos <= Len(cached')
        BY <1>1, <1>3, <3>3 DEF Places
      <4>2. \A i \in Base + 1 .. lexpos : cached[i] = cached'[i]
        <5> TAKE i \in Base + 1 .. lexpos
        <5>1. i \in 1 .. Len(cached) BY <1>1, <1>3 DEF Places
        <5> QED BY <3>3, <5>1
      <4> QED BY <1>3, <3>3, <4>1, <4>2, SameWindow DEF Places
    <3> QED BY <1>1, <2>2, <3>1, <3>3, <3>5, <3>7, <3>8
  <2> QED BY <2>5, <2>6
<1>10. marks = <<>> => HistOf' = <<>> BY <1>1, NoHist
<1> QED BY <1>1, <1>4, <1>7, <1>8, <1>9, <1>10, TakenIsLex

LEMMA EnableIsEnable ==
  ASSUME IInv, IInv', EnableBacktrackAtThisPos PROVE Stream!EnableBacktrackAtThisPos
<1>1. /\ ~done /\ marks' = Append(marks, lexpos) /\ EnterCachingLexMode
      /\ UNCHANGED <<src, cached, lexpos, ret, done>>
  BY DEF EnableBacktrackAtThisPos, Active
<1>2. LexersDrained' <=> LexersDrained BY <1>1, ModeEntered
<1>3. Places /\ lexpos \in Int /\ Base \in Int BY PlacesHold DEF Places
<1>4. /\ Append(marks, lexpos) # <<>> /\ Len(Append(marks, lexpos)) = Len(marks) + 1
      /\ \A i \in 1 .. Len(marks) : Append(marks, lexpos)[i] = marks[i]
      /\ Append(marks, lexpos)[Len(marks) + 1] = lexpos
  BY <1>3, AppendProperties DEF Places
<1>5. Base' = Base
  <2>1. CASE marks = <<>> BY <1>1, <1>4, <2>1 DEF Base
  <2>2. CASE marks # <<>>
    <3>1. 1 \in 1 .. Len(marks) BY <1>3, <2>2, EmptySeq DEF Places
    <3> QED BY <1>1, <1>4, <2>2, <3>1 DEF Base
  <2> QED BY <2>1, <2>2
<1>6. ~EofDropped /\ ~EofDropped' BY <1>1 DEF EofDropped
<1>7. HistOf = SubSeq(cached, Base + 1, lexpos) BY <1>6, StreamHolds DEF HistIsWindow
<1>8. HistOf' = HistOf BY <1>1, <1>5, <1>6, <1>7, StreamHoldsNext DEF HistIsWindow
<1>9. RestOf' = RestOf BY <1>1, <1>2 DEF RestOf
<1>10. Len(HistOf) = lexpos - Base
  <2>1. Base + 1 \in 1 .. Len(cached) + 1 /\ lexpos \in (Base + 1) - 1 .. Len(cached)
    BY <1>3 DEF Places
  <2>2. Len(HistOf) = lexpos - (Base + 1) + 1 BY <1>3, <1>7, <2>1, Window DEF Places
  <2> QED BY <1>3, <2>2
<1>11. MarksOf' = Append(MarksOf, lexpos - Base)
  <2>1. MarksOf = Offsets(marks, Base) /\ MarksOf' = Offsets(Append(marks, lexpos), Base)
    BY <1>1, <1>5 DEF MarksOf, Offsets
  <2> QED BY <1>3, <2>1, OffsetsAppend DEF Places
<1> QED BY <1>1, <1>8, <1>9, <1>10, <1>11 DEF Stream!EnableBacktrackAtThisPos

(* One mark fewer.                                                         *)
LEMMA MarksPopped ==
  ASSUME IInv, marks # <<>>, marks' = Front(marks)
  PROVE  /\ MarksOf # <<>> /\ MarksOf' = Front(MarksOf)
         /\ Last(MarksOf) = Last(marks) - Base
         /\ (MarksOf' = <<>> <=> marks' = <<>>)
         /\ marks' # <<>> => Base' = Base
<1>1. Places /\ Base \in Int /\ marks \in Seq(Int) BY PlacesHold DEF Places
<1>2. /\ Front(marks) \in Seq(Int) /\ Len(marks) \in Nat \ {0}
      /\ Len(Front(marks)) = Len(marks) - 1
      /\ \A i \in 1 .. Len(marks) - 1 : Front(marks)[i] = marks[i]
  BY <1>1, FrontLast
<1>3. marks' # <<>> => Base' = Base
  <2> SUFFICES ASSUME marks' # <<>> PROVE Base' = Base OBVIOUS
  <2>1. Len(Front(marks)) # 0 BY <1>2
  <2>2. 1 \in 1 .. Len(marks) - 1 BY <1>2, <2>1
  <2> QED BY <1>2, <2>2 DEF Base
<1>4. MarksOf = Offsets(marks, Base) /\ MarksOf' = Offsets(Front(marks), Base')
  BY DEF MarksOf, Offsets
<1>5. MarksOf' = Offsets(Front(marks), Base)
  <2>1. CASE marks' = <<>> BY <1>4, <2>1, OffsetsOfNone
  <2>2. CASE marks' # <<>> BY <1>3, <1>4, <2>2
  <2> QED BY <2>1, <2>2
<1>6. MarksOf' = <<>> <=> Front(marks) = <<>>
  <2>1. Front(marks) = <<>> => MarksOf' = <<>> BY <1>5, OffsetsOfNone
  <2>2. Front(marks) # <<>> => MarksOf' # <<>> BY <1>1, <1>2, <1>5, OffsetsFront
  <2> QED BY <2>1, <2>2
<1> QED BY <1>1, <1>3, <1>4, <1>5, <1>6, OffsetsFront

LEMMA CommitIsCommit ==
  ASSUME IInv, IInv', CommitBacktrackedTokens PROVE Stream!CommitBacktrackedTokens
<1>1. /\ marks # <<>> /\ marks' = Front(marks)
      /\ UNCHANGED <<src, cur, inc, cached, lexpos, ret, done>>
  BY DEF CommitBacktrackedTokens, isBacktrackEnabled
<1>2. /\ MarksOf # <<>> /\ MarksOf' = Front(MarksOf)
      /\ (MarksOf' = <<>> <=> marks' = <<>>)
      /\ marks' # <<>> => Base' = Base
  BY <1>1, MarksPopped
<1>3. RestOf' = RestOf BY <1>1 DEF RestOf, LexersDrained
<1>4. marks' = <<>> => HistOf' = <<>> BY NoHist
<1>5. marks' # <<>> => HistOf' = HistOf BY <1>1, <1>2 DEF HistOf, EofDropped
<1> QED BY <1>1, <1>2, <1>3, <1>4, <1>5
    DEF Stream!CommitBacktrackedTokens, Stream!Remembered, Stream!Front, Front

(* Back at an earlier place in the cache the same tokens come again.       *)
LEMMA GoneBack ==
  ASSUME IInv, IInv', ~done, ~done', NEW p \in Nat, Base <= p, p <= lexpos, lexpos' = p,
         UNCHANGED <<src, cur, inc, cached>>
  PROVE  /\ RestOf' = Stream!Again(p - Base)
         /\ Len(HistOf) = lexpos - Base
         /\ Base' = Base => HistOf' = SubSeq(HistOf, 1, p - Base)
<1>1. Places BY PlacesHold
<1>2. ~EofDropped /\ ~EofDropped' BY DEF EofDropped
<1>3. HistOf = SubSeq(cached, Base + 1, lexpos) BY <1>2, StreamHolds DEF HistIsWindow
<1>4. /\ Base + 1 \in 1 .. Len(cached) + 1 /\ lexpos \in (Base + 1) - 1 .. Len(cached)
      /\ lexpos - (Base + 1) + 1 = lexpos - Base /\ p - Base \in 0 .. lexpos - (Base + 1) + 1
      /\ (Base + 1) + (p - Base) = p + 1 /\ (Base + 1) + (p - Base) - 1 = p
  BY <1>1 DEF Places
<1>5. Len(HistOf) = lexpos - Base BY <1>1, <1>3, <1>4, Window DEF Places
<1>6. /\ SubSeq(HistOf, (p - Base) + 1, lexpos - Base) = SubSeq(cached, p + 1, lexpos)
      /\ SubSeq(HistOf, 1, p - Base) = SubSeq(cached, Base + 1, p)
  <2>1. /\ SubSeq(SubSeq(cached, Base + 1, lexpos), (p - Base) + 1, lexpos - (Base + 1) + 1)
             = SubSeq(cached, (Base + 1) + (p - Base), lexpos)
        /\ SubSeq(SubSeq(cached, Base + 1, lexpos), 1, p - Base)
             = SubSeq(cached, Base + 1, (Base + 1) + (p - Base) - 1)
    BY <1>1, <1>4, WindowOfWindow DEF Places
  <2> QED BY <1>3, <1>4, <2>1
<1>7. RestOf' = SubSeq(cached, p + 1, Len(cached)) \o Coming
  BY RestIsNext DEF Coming, LexersDrained
<1>8. RestOf' = SubSeq(cached, p + 1, lexpos) \o RestOf
  <2> DEFINE a == SubSeq(cached, p + 1, lexpos)
             b == SubSeq(cached, lexpos + 1, Len(cached))
  <2>1. /\ p + 1 \in 1 .. Len(cached) + 1 /\ lexpos \in (p + 1) - 1 .. Len(cached)
        /\ Len(cached) \in lexpos .. Len(cached)
        /\ lexpos + 1 \in 1 .. Len(cached) + 1 /\ Len(cached) \in (lexpos + 1) - 1 .. Len(cached)
    BY <1>1 DEF Places
  <2>2. a \o b = SubSeq(cached, p + 1, Len(cached))
    BY <1>1, <2>1, ConcatAdjacentSubSeq DEF Places
  <2>3. a \in Seq(Symbols) /\ b \in Seq(Symbols) /\ Coming \in Seq(Symbols)
    BY <1>1, <2>1, Window DEF Places
  <2>4. RestOf = b \o Coming BY RestIs
  <2> HIDE DEF a, b, Coming
  <2>5. (a \o b) \o Coming = a \o (b \o Coming) BY <2>3, ConcatAssociative
  <2>6. RestOf' = a \o RestOf BY <1>7, <2>2, <2>4, <2>5
  <2> QED BY <2>6 DEF a
<1>9. RestOf' = Stream!Again(p - Base) BY <1>5, <1>6, <1>8 DEF Stream!Again
<1>10. Base' = Base => HistOf' = SubSeq(cached, Base + 1, p)
  BY <1>2, StreamHoldsNext DEF HistIsWindow
<1> QED BY <1>5, <1>6, <1>9, <1>10

LEMMA BacktrackIsBacktrack ==
  ASSUME IInv, IInv', AcrossEof = {}, Backtrack PROVE Stream!Backtrack
<1>1. /\ marks # <<>> /\ ~done /\ ~done' /\ lexpos' = Last(marks) /\ marks' = Front(marks)
      /\ UNCHANGED <<src, cur, inc, cached, ret>>
  BY DEF Backtrack, isBacktrackEnabled
<1>2. /\ MarksOf # <<>> /\ MarksOf' = Front(MarksOf)
      /\ Last(MarksOf) = Last(marks) - Base
      /\ (MarksOf' = <<>> <=> marks' = <<>>)
      /\ marks' # <<>> => Base' = Base
  BY <1>1, MarksPopped
<1>3. Last(marks) \in Nat /\ Base <= Last(marks) /\ Last(marks) <= lexpos
  <2>1. Places BY PlacesHold
  <2>2. Last(marks) \in 0 .. lexpos /\ Last(marks) = marks[Len(marks)] /\ Len(marks) \in Nat \ {0}
    BY <1>1, MarksBelow
  <2>3. Len(marks) \in 1 .. Len(marks) BY <2>2
  <2> QED BY <2>1, <2>2, <2>3 DEF Places
<1>4. /\ RestOf' = Stream!Again(Last(marks) - Base)
      /\ Base' = Base => HistOf' = SubSeq(HistOf, 1, Last(marks) - Base)
  BY <1>1, <1>3, GoneBack
<1>5. marks' = <<>> => HistOf' = <<>> BY NoHist
<1>6. Stream!Last(MarksOf) = Last(marks) - Base BY <1>2 DEF Stream!Last, Last
<1>7. MarksOf' = Stream!Front(MarksOf) BY <1>2 DEF Stream!Front, Front
<1>8. HistOf' = Stream!Remembered(SubSeq(HistOf, 1, Last(marks) - Base), MarksOf')
  BY <1>2, <1>4, <1>5 DEF Stream!Remembered
<1>9. ret' = ret BY <1>1
<1> QED BY <1>2, <1>4, <1>6, <1>7, <1>8, <1>9 DEF Stream!Backtrack

LEMMA RevertIsRevert ==
  ASSUME IInv, IInv', NEW n \in 1 .. lexpos, RevertCachedTokens(n)
  PROVE  \E k \in 1 .. Len(HistOf) : Stream!RevertCachedTokens(k)
<1>1. /\ marks # <<>> /\ ~done /\ ~done' /\ lexpos' = lexpos - n /\ marks' = marks
      /\ lexpos - n >= Last(marks)
      /\ UNCHANGED <<src, cur, inc, cached, ret>>
  BY DEF RevertCachedTokens, isBacktrackEnabled, Active
<1>2. Places BY PlacesHold
<1>3. Last(marks) \in Nat /\ Base <= Last(marks)
  <2>1. Last(marks) \in 0 .. lexpos /\ Last(marks) = marks[Len(marks)] /\ Len(marks) \in Nat \ {0}
    BY <1>1, MarksBelow
  <2>2. Len(marks) \in 1 .. Len(marks) BY <2>1
  <2> QED BY <1>2, <2>1, <2>2 DEF Places
<1>4. lexpos \in Nat /\ Base \in Nat /\ n \in Nat BY <1>2 DEF Places
<1>5. lexpos - n \in Nat /\ Base <= lexpos - n /\ lexpos - n <= lexpos BY <1>1, <1>3, <1>4
<1>6. MarksOf' = MarksOf /\ Base' = Base BY <1>1, MarksStay
<1>7. /\ RestOf' = Stream!Again((lexpos - n) - Base) /\ Len(HistOf) = lexpos - Base
      /\ HistOf' = SubSeq(HistOf, 1, (lexpos - n) - Base)
  BY <1>1, <1>5, <1>6, GoneBack
<1>8. (lexpos - n) - Base = Len(HistOf) - n /\ n \in 1 .. Len(HistOf) BY <1>4, <1>5, <1>7
<1>9. MarksOf # <<>> /\ Stream!Last(MarksOf) = Last(marks) - Base
  BY <1>1, <1>2, MarksAre, OffsetsFront DEF Places, Stream!Last, Last
<1>10. Len(HistOf) - n >= Stream!Last(MarksOf) BY <1>1, <1>3, <1>4, <1>8, <1>9
<1>11. Stream!RevertCachedTokens(n) BY <1>1, <1>6, <1>7, <1>8, <1>9, <1>10 DEF Stream!RevertCachedTokens
<1> QED BY <1>8, <1>11

LEMMA EnterTokenIsEnter ==
  ASSUME IInv, IInv', NEW t \in Tokens, EnterToken(t) PROVE Stream!EnterToken(t)
<1>1. /\ ~done /\ ~done' /\ EnterCachingLexMode /\ UNCHANGED <<src, lexpos, marks, ret>>
      /\ cached' = SubSeq(cached, 1, lexpos) \o <<t>> \o SubSeq(cached, lexpos + 1, Len(cached))
  BY DEF EnterToken, Active
<1>2. (LexersDrained' <=> LexersDrained) /\ Base' = Base /\ MarksOf' = MarksOf
  BY <1>1, ModeEntered, MarksStay DEF Base
<1>3. Places BY PlacesHold
<1>4. lexpos \in 0 .. Len(cached) /\ lexpos \in 0 .. lexpos /\ Base \in 0 .. lexpos
  BY <1>3 DEF Places
<1>5. t \in Symbols BY DEF Symbols
<1>6. IsSplice(Symbols, cached, lexpos, lexpos, t, cached')
  BY <1>1, <1>3, <1>4, <1>5, Spliced DEF Places
<1>7. /\ SubSeq(cached', lexpos + 1, Len(cached')) = <<t>> \o SubSeq(cached, lexpos + 1, Len(cached))
      /\ \A b \in 0 .. lexpos : SubSeq(cached', b + 1, lexpos) = SubSeq(cached, b + 1, lexpos)
  <2>1. SplicesWindows(cached, lexpos, lexpos, t, cached')
    BY <1>3, <1>4, <1>5, <1>6, SpliceWindows DEF Places
  <2> QED BY <2>1 DEF SplicesWindows
<1>8. RestOf' = <<t>> \o RestOf
  <2> DEFINE w == SubSeq(cached, lexpos + 1, Len(cached))
  <2>1. lexpos + 1 \in 1 .. Len(cached) + 1 /\ Len(cached) \in (lexpos + 1) - 1 .. Len(cached)
    BY <1>3 DEF Places
  <2>2. w \in Seq(Symbols) BY <1>3, <2>1, Window DEF Places
  <2>3. Coming' = Coming BY <1>1, <1>2 DEF Coming
  <2>4. RestOf' = (<<t>> \o w) \o Coming BY <1>1, <1>7, <2>3, RestIsNext
  <2>5. RestOf = w \o Coming BY RestIs
  <2>6. <<t>> \in Seq(Symbols) /\ Coming \in Seq(Symbols) BY <1>3, <1>5 DEF Places
  <2> HIDE DEF w, Coming
  <2>7. (<<t>> \o w) \o Coming = <<t>> \o (w \o Coming) BY <2>2, <2>6, ConcatAssociative
  <2> QED BY <2>4, <2>5, <2>7
<1>9. HistOf' = HistOf
  <2>1. ~EofDropped /\ ~EofDropped' BY <1>1 DEF EofDropped
  <2>2. HistOf = SubSeq(cached, Base + 1, lexpos) BY <2>1, StreamHolds DEF HistIsWindow
  <2>3. HistOf' = SubSeq(cached', Base + 1, lexpos)
    BY <1>1, <1>2, <2>1, StreamHoldsNext DEF HistIsWindow
  <2> QED BY <1>4, <1>7, <2>2, <2>3
<1> QED BY <1>1, <1>2, <1>8, <1>9 DEF Stream!EnterToken

LEMMA AnnotateIsAnnotate ==
  ASSUME IInv, IInv', NEW i \in 1 .. lexpos, NEW a \in Annotations, AnnotateCachedTokens(i, a)
  PROVE  \E k \in 1 .. Len(HistOf) : Stream!AnnotateCachedTokens(k, a)
<1>1. /\ ~done /\ ~done' /\ marks # <<>> /\ Last(marks) < i /\ lexpos' = i
      /\ UNCHANGED <<src, cur, inc, marks, ret>>
      /\ cached' = Append(SubSeq(cached, 1, i - 1), a) \o SubSeq(cached, lexpos + 1, Len(cached))
  BY DEF AnnotateCachedTokens, Active, isBacktrackEnabled
<1>2. Places BY PlacesHold
<1>3. Last(marks) \in Nat /\ Base <= Last(marks)
  <2>1. Last(marks) \in 0 .. lexpos /\ Last(marks) = marks[Len(marks)] /\ Len(marks) \in Nat \ {0}
    BY <1>1, MarksBelow
  <2>2. Len(marks) \in 1 .. Len(marks) BY <2>1
  <2> QED BY <1>2, <2>1, <2>2 DEF Places
<1>4. /\ lexpos \in 0 .. Len(cached) /\ i - 1 \in 0 .. lexpos /\ (i - 1) + 1 = i /\ (i - 1) + 2 = i + 1
      /\ Base \in 0 .. i - 1 /\ i \in Nat /\ Base \in Nat /\ lexpos \in Nat
  BY <1>1, <1>2, <1>3 DEF Places
<1>5. a \in Symbols BY DEF Symbols
<1>6. IsSplice(Symbols, cached, i - 1, lexpos, a, cached')
  <2>1. 1 \in 1 .. Len(cached) + 1 /\ i - 1 \in 1 - 1 .. Len(cached) BY <1>2, <1>4 DEF Places
  <2>2. SubSeq(cached, 1, i - 1) \in Seq(Symbols) BY <1>2, <2>1, Window DEF Places
  <2>3. Append(SubSeq(cached, 1, i - 1), a) = SubSeq(cached, 1, i - 1) \o <<a>>
    BY <1>5, <2>2, AppendIsConcat
  <2>4. cached' = SubSeq(cached, 1, i - 1) \o <<a>> \o SubSeq(cached, lexpos + 1, Len(cached))
    BY <1>1, <2>3
  <2> QED BY <1>2, <1>4, <1>5, <2>4, Spliced DEF Places
<1>7. /\ SubSeq(cached', i + 1, Len(cached')) = SubSeq(cached, lexpos + 1, Len(cached))
      /\ SubSeq(cached', Base + 1, i - 1) = SubSeq(cached, Base + 1, i - 1)
  <2>1. SplicesWindows(cached, i - 1, lexpos, a, cached')
    BY <1>2, <1>4, <1>5, <1>6, SpliceWindows DEF Places
  <2>2. /\ SubSeq(cached', (i - 1) + 2, Len(cached')) = SubSeq(cached, lexpos + 1, Len(cached))
        /\ \A b \in 0 .. i - 1 : SubSeq(cached', b + 1, i - 1) = SubSeq(cached, b + 1, i - 1)
    BY <2>1 DEF SplicesWindows
  <2> QED BY <1>4, <2>2
<1>8. RestOf' = RestOf
  <2>1. Coming' = Coming BY <1>1 DEF Coming, LexersDrained
  <2> QED BY <1>1, <1>7, <2>1, RestIs, RestIsNext
<1>9. Base' = Base /\ MarksOf' = MarksOf BY <1>1, MarksStay
<1>10. ~EofDropped /\ ~EofDropped' BY <1>1 DEF EofDropped
<1>11. HistOf = SubSeq(cached, Base + 1, lexpos) BY <1>10, StreamHolds DEF HistIsWindow
<1>12. HistOf' = SubSeq(cached', Base + 1, i)
  BY <1>1, <1>9, <1>10, StreamHoldsNext DEF HistIsWindow
<1>13. HistOf' = Append(SubSeq(cached, Base + 1, i - 1), a)
  <2>1. cached' \in Seq(Symbols) /\ Len(cached') = Len(cached) + (i - 1) + 1 - lexpos /\ cached'[i] = a
    BY <1>4, <1>6 DEF IsSplice
  <2>2. Base + 1 \in 1 .. Len(cached') /\ i \in Base + 1 .. Len(cached')
    BY <1>2, <1>4, <2>1 DEF Places
  <2>3. SubSeq(cached', Base + 1, i) = Append(SubSeq(cached', Base + 1, i - 1), cached'[i])
    BY <2>1, <2>2, WindowAppend
  <2> QED BY <1>7, <1>12, <2>1, <2>3
<1>14. /\ Base + 1 \in 1 .. Len(cached) + 1 /\ lexpos \in (Base + 1) - 1 .. Len(cached)
       /\ lexpos - (Base + 1) + 1 = lexpos - Base
       /\ (i - Base) - 1 \in 0 .. lexpos - (Base + 1) + 1
       /\ (Base + 1) + ((i - Base) - 1) - 1 = i - 1
  BY <1>2, <1>4 DEF Places
<1>15. Len(HistOf) = lexpos - Base BY <1>2, <1>11, <1>14, Window DEF Places
<1>16. SubSeq(HistOf, 1, (i - Base) - 1) = SubSeq(cached, Base + 1, i - 1)
  <2>1. SubSeq(SubSeq(cached, Base + 1, lexpos), 1, (i - Base) - 1)
          = SubSeq(cached, Base + 1, (Base + 1) + ((i - Base) - 1) - 1)
    BY <1>2, <1>14, WindowOfWindow DEF Places
  <2> QED BY <1>11, <1>14, <2>1
<1>17. MarksOf # <<>> /\ Stream!Last(MarksOf) = Last(marks) - Base
  BY <1>1, <1>2, MarksAre, OffsetsFront DEF Places, Stream!Last, Last
<1>18. i - Base \in 1 .. Len(HistOf) /\ i - Base > Stream!Last(MarksOf)
  BY <1>1, <1>3, <1>4, <1>15, <1>17
<1>19. Stream!AnnotateCachedTokens(i - Base, a)
  BY <1>1, <1>8, <1>9, <1>13, <1>16, <1>17, <1>18 DEF Stream!AnnotateCachedTokens
<1> QED BY <1>18, <1>19

LEMMA ReplaceIsReplace ==
  ASSUME IInv, IInv', NEW a \in Annotations, ReplaceLastTokenWithAnnotation(a)
  PROVE  Stream!ReplaceLastTokenWithAnnotation(a)
<1>1. /\ ~done /\ ~done' /\ marks # <<>> /\ lexpos # 0 /\ cached' = [cached EXCEPT ![lexpos] = a]
      /\ UNCHANGED <<src, cur, inc, lexpos, marks, ret>>
  BY DEF ReplaceLastTokenWithAnnotation, Active, isBacktrackEnabled
<1>2. Places BY PlacesHold
<1>3. lexpos \in 1 .. Len(cached) /\ lexpos \in Nat BY <1>1, <1>2 DEF Places
<1>4. a \in Symbols BY DEF Symbols
<1>5. /\ cached' \in Seq(Symbols) /\ Len(cached') = Len(cached) /\ cached'[lexpos] = a
      /\ \A k \in 1 .. Len(cached) : k # lexpos => cached'[k] = cached[k]
  BY <1>1, <1>2, <1>3, <1>4, ExceptSeq DEF Places
<1>6. RestOf' = RestOf
  <2>1. /\ lexpos + 1 \in 1 .. Len(cached) + 1 /\ Len(cached) \in (lexpos + 1) - 1 .. Len(cached)
        /\ Len(cached) <= Len(cached')
    BY <1>2, <1>5 DEF Places
  <2>2. \A k \in lexpos + 1 .. Len(cached) : cached[k] = cached'[k] BY <1>3, <1>5
  <2>3. SubSeq(cached, lexpos + 1, Len(cached)) = SubSeq(cached', lexpos + 1, Len(cached))
    BY <1>2, <1>5, <2>1, <2>2, SameWindow DEF Places
  <2>4. Coming' = Coming BY <1>1 DEF Coming, LexersDrained
  <2> QED BY <1>1, <1>5, <2>3, <2>4, RestIs, RestIsNext
<1>7. Base' = Base /\ MarksOf' = MarksOf BY <1>1, MarksStay
<1>8. ~EofDropped /\ ~EofDropped' BY <1>1 DEF EofDropped
<1>9. HistOf = SubSeq(cached, Base + 1, lexpos) BY <1>8, StreamHolds DEF HistIsWindow
<1>10. HistOf' = SubSeq(cached', Base + 1, lexpos)
  BY <1>1, <1>7, <1>8, StreamHoldsNext DEF HistIsWindow
<1>11. /\ Base + 1 \in 1 .. Len(cached) + 1 /\ lexpos \in (Base + 1) - 1 .. Len(cached)
       /\ lexpos - (Base + 1) + 1 = lexpos - Base /\ lexpos - Base \in Nat
  BY <1>2 DEF Places
<1>12. /\ HistOf \in Seq(Symbols) /\ Len(HistOf) = lexpos - Base
       /\ \A k \in 1 .. lexpos - Base : HistOf[k] = cached[(Base + 1) + k - 1]
  BY <1>2, <1>9, <1>11, Window DEF Places
<1>13. /\ HistOf' \in Seq(Symbols) /\ Len(HistOf') = lexpos - Base
       /\ \A k \in 1 .. lexpos - Base : HistOf'[k] = cached'[(Base + 1) + k - 1]
  <2>1. Base + 1 \in 1 .. Len(cached') + 1 /\ lexpos \in (Base + 1) - 1 .. Len(cached')
    BY <1>5, <1>11
  <2> QED BY <1>5, <1>10, <1>11, <2>1, Window
<1>14. CASE lexpos = Base
  <2>1. HistOf = <<>> /\ HistOf' = <<>>
    <3>1. lexpos < Base + 1 /\ Base + 1 \in Int BY <1>3, <1>14
    <3> QED BY <1>3, <1>9, <1>10, <3>1, SubSeqEmpty
  <2> QED BY <1>1, <1>6, <1>7, <2>1 DEF Stream!ReplaceLastTokenWithAnnotation
<1>15. CASE lexpos # Base
  <2> DEFINE h == HistOf
             l == Len(HistOf)
             x == [h EXCEPT ![l] = a]
  <2>1. l \in 1 .. l /\ l = lexpos - Base /\ HistOf # <<>>
    <3>1. lexpos - Base # 0 BY <1>2, <1>3, <1>15 DEF Places
    <3>2. l = lexpos - Base BY <1>12
    <3>3. l \in 1 .. l BY <1>11, <3>1, <3>2
    <3>4. HistOf # <<>> BY <3>1, <3>2, EmptySeq
    <3> QED BY <3>2, <3>3, <3>4
  <2>2. /\ x \in Seq(Symbols) /\ Len(x) = Len(h) /\ \A k \in 1 .. Len(h) : x[k] = IF k = l THEN a ELSE h[k]
    BY <1>4, <1>12, <2>1, ExceptSeq
  <2> HIDE DEF x, h, l
  <2>3. \A k \in 1 .. lexpos - Base : x[k] = HistOf'[k]
    <3> TAKE k \in 1 .. lexpos - Base
    <3>1. (Base + 1) + k - 1 \in 1 .. Len(cached) /\ (k = lexpos - Base <=> (Base + 1) + k - 1 = lexpos)
      BY <1>2, <1>3, <1>11 DEF Places
    <3>2. k \in 1 .. Len(h) /\ (k = l <=> k = lexpos - Base) BY <1>12, <2>1 DEF h
    <3>3. CASE k = lexpos - Base BY <1>5, <1>13, <2>2, <3>1, <3>2, <3>3
    <3>4. CASE k # lexpos - Base BY <1>5, <1>12, <1>13, <2>2, <3>1, <3>2, <3>4 DEF h
    <3> QED BY <3>3, <3>4
  <2>4. Len(x) = lexpos - Base BY <1>12, <2>2 DEF h
  <2>5. HistOf' = x BY <1>13, <2>2, <2>3, <2>4, SeqEqual
  <2> QED BY <1>1, <1>6, <1>7, <2>1, <2>5 DEF x, h, l, Stream!ReplaceLastTokenWithAnnotation
<1> QED BY <1>14, <1>15

(* What comes, place by place. *)
LEMMA RestElements ==
  ASSUME IInv, ~LexersDrained
  PROVE  /\ Len(RestOf) = (Len(cached) - lexpos) + (Len(src) + 1)
         /\ \A k \in 1 .. Len(cached) - lexpos : RestOf[k] = cached[lexpos + k]
         /\ \A k \in 1 .. Len(src) + 1 : RestOf[(Len(cached) - lexpos) + k] = Append(src, Eof)[k]
<1> DEFINE w == SubSeq(cached, lexpos + 1, Len(cached))
           l == Len(cached) - lexpos
           e == Append(src, Eof)
<1>1. Places /\ src \in Seq(Symbols) /\ Eof \in Symbols /\ Len(src) \in Nat
  BY PlacesHold DEF IInv, TypeOK, Symbols
<1>2. w \in Seq(Symbols) /\ Len(w) = l /\ l \in Nat /\ \A k \in 1 .. l : w[k] = cached[lexpos + k]
  <2>1. lexpos + 1 \in 1 .. Len(cached) + 1 /\ Len(cached) \in (lexpos + 1) - 1 .. Len(cached)
    BY <1>1 DEF Places
  <2>2. /\ w \in Seq(Symbols) /\ Len(w) = Len(cached) - (lexpos + 1) + 1
        /\ \A k \in 1 .. Len(cached) - (lexpos + 1) + 1 : w[k] = cached[(lexpos + 1) + k - 1]
    BY <1>1, <2>1, Window DEF Places
  <2>3. Len(cached) - (lexpos + 1) + 1 = l /\ l \in Nat BY <1>1 DEF Places
  <2>4. \A k \in 1 .. l : w[k] = cached[lexpos + k]
    <3> TAKE k \in 1 .. l
    <3>1. (lexpos + 1) + k - 1 = lexpos + k BY <1>1, <2>3 DEF Places
    <3> QED BY <2>2, <2>3, <3>1
  <2> QED BY <2>2, <2>3, <2>4
<1>3. e \in Seq(Symbols) /\ Len(e) = Len(src) + 1 BY <1>1, AppendProperties
<1>4. RestOf = w \o e BY RestIs DEF Coming
<1> HIDE DEF w, e, l
<1>5. /\ Len(w \o e) = Len(w) + Len(e)
      /\ \A k \in 1 .. Len(w) + Len(e) : (w \o e)[k] = IF k <= Len(w) THEN w[k] ELSE e[k - Len(w)]
  BY <1>2, <1>3, ConcatProperties
<1>6. \A k \in 1 .. l : RestOf[k] = cached[lexpos + k]
  <2> TAKE k \in 1 .. l
  <2>1. k \in 1 .. Len(w) + Len(e) /\ k <= Len(w) BY <1>1, <1>2, <1>3
  <2> QED BY <1>2, <1>4, <1>5, <2>1
<1>7. \A k \in 1 .. Len(src) + 1 : RestOf[l + k] = e[k]
  <2> TAKE k \in 1 .. Len(src) + 1
  <2>1. l + k \in 1 .. Len(w) + Len(e) /\ ~(l + k <= Len(w)) /\ (l + k) - Len(w) = k
    BY <1>1, <1>2, <1>3
  <2> QED BY <1>4, <1>5, <2>1
<1>8. Len(RestOf) = l + (Len(src) + 1) BY <1>2, <1>3, <1>4, <1>5
<1> QED BY <1>6, <1>7, <1>8 DEF l, e

LEMMA LookAheadInCacheIsLookAhead ==
  ASSUME IInv, IInv', NEW n \in Nat, LookAheadInCache(n)
  PROVE  \E k \in 0 .. Len(RestOf) - 1 : Stream!LookAhead(k)
<1>1. /\ ~done /\ lexpos + n < Len(cached) /\ ret' = cached[lexpos + n + 1]
      /\ UNCHANGED <<src, cur, inc, cached, lexpos, marks, done>>
  BY DEF LookAheadInCache, Active
<1>2. Places BY PlacesHold
<1>3. /\ RestOf' = RestOf /\ HistOf' = HistOf /\ MarksOf' = MarksOf
  BY <1>1 DEF RestOf, HistOf, MarksOf, Base, EofDropped, LexersDrained
<1>4. RestOf[n + 1] = cached[lexpos + (n + 1)] /\ n + 1 <= Len(RestOf) /\ Len(RestOf) \in Nat
  <2> DEFINE w == SubSeq(cached, lexpos + 1, Len(cached))
  <2>1. lexpos + 1 \in 1 .. Len(cached) + 1 /\ Len(cached) \in (lexpos + 1) - 1 .. Len(cached)
    BY <1>2 DEF Places
  <2>2. /\ w \in Seq(Symbols) /\ Len(w) = Len(cached) - (lexpos + 1) + 1
        /\ \A k \in 1 .. Len(cached) - (lexpos + 1) + 1 : w[k] = cached[(lexpos + 1) + k - 1]
    BY <1>2, <2>1, Window DEF Places
  <2>3. Coming \in Seq(Symbols) /\ Len(Coming) \in Nat BY <1>2 DEF Places
  <2>4. RestOf = w \o Coming BY RestIs
  <2> HIDE DEF w, Coming
  <2>5. /\ Len(w \o Coming) = Len(w) + Len(Coming)
        /\ \A k \in 1 .. Len(w) + Len(Coming) :
             (w \o Coming)[k] = IF k <= Len(w) THEN w[k] ELSE Coming[k - Len(w)]
    BY <2>2, <2>3, ConcatProperties
  <2>6. /\ n + 1 \in 1 .. Len(w) + Len(Coming) /\ n + 1 <= Len(w) /\ Len(w) \in Nat
        /\ n + 1 \in 1 .. Len(cached) - (lexpos + 1) + 1
        /\ (lexpos + 1) + (n + 1) - 1 = lexpos + (n + 1)
    BY <1>1, <1>2, <2>2, <2>3 DEF Places
  <2>7. RestOf[n + 1] = cached[lexpos + (n + 1)] BY <2>2, <2>4, <2>5, <2>6
  <2>8. Len(RestOf) = Len(w) + Len(Coming) BY <2>4, <2>5
  <2> QED BY <2>3, <2>6, <2>7, <2>8
<1>5. n \in 0 .. Len(RestOf) - 1 /\ lexpos + (n + 1) = lexpos + n + 1 BY <1>2, <1>4 DEF Places
<1>6. Stream!LookAhead(n) BY <1>1, <1>3, <1>4, <1>5 DEF Stream!LookAhead
<1> QED BY <1>5, <1>6

LEMMA PeekAheadIsLookAhead ==
  ASSUME IInv, IInv', AcrossEof = {}, NEW n \in Nat, PeekAhead(n)
  PROVE  \E k \in 0 .. Len(RestOf) - 1 : Stream!LookAhead(k)
<1>1. PICK m \in 1 .. Len(src) + 1 :
        /\ m = lexpos + n + 1 - Len(cached)
        /\ ~done /\ ~failed /\ ~LexersDrained
        /\ UNCHANGED <<lexpos, marks, done, failed>> /\ ret' = Last(cached')
        /\ cur' = "null" /\ inc' = IF m <= Len(src) THEN <<"lexer">> ELSE <<>>
        /\ src' \in Seq(Tokens) /\ src' = SubSeq(src, m + 1, Len(src))
        /\ cached' \in Seq(Symbols) /\ Len(cached') = Len(cached) + m
        /\ \A k \in 1 .. Len(cached) : cached'[k] = cached[k]
        /\ \A k \in 1 .. m : cached'[Len(cached) + k] = Append(src, Eof)[k]
  BY PeekAheadCases
<1> DEFINE e == Append(src, Eof)
<1>2. Places /\ src \in Seq(Symbols) /\ Eof \in Symbols /\ Len(src) \in Nat /\ m \in Nat
  BY PlacesHold DEF IInv, TypeOK, Symbols
<1>3. /\ e \in Seq(Symbols) /\ Len(e) = Len(src) + 1
      /\ \A k \in 1 .. Len(src) : e[k] = src[k]
      /\ e[Len(src) + 1] = Eof
  BY <1>2, AppendProperties
<1>4. LexersDrained' <=> m = Len(src) + 1
  <2>1. CASE m <= Len(src)
    <3>1. inc' = <<"lexer">> /\ m # Len(src) + 1 BY <1>1, <1>2, <2>1
    <3>2. inc' # <<>> BY <3>1
    <3> QED BY <3>1, <3>2 DEF LexersDrained
  <2>2. CASE m = Len(src) + 1
    <3>1. ~(m <= Len(src)) BY <1>2, <2>2
    <3> QED BY <1>1, <2>2, <3>1 DEF LexersDrained
  <2> QED BY <1>2, <2>1, <2>2
<1>5. /\ Len(RestOf) = (Len(cached) - lexpos) + (Len(src) + 1)
      /\ \A k \in 1 .. Len(cached) - lexpos : RestOf[k] = cached[lexpos + k]
      /\ \A k \in 1 .. Len(src) + 1 : RestOf[(Len(cached) - lexpos) + k] = e[k]
  BY <1>1, RestElements
<1>6. Stream!LookAhead(n) => \E k \in 0 .. Len(RestOf) - 1 : Stream!LookAhead(k)
  <2>1. n \in 0 .. Len(RestOf) - 1 BY <1>1, <1>2, <1>5 DEF Places
  <2> QED BY <2>1
<1>7. ret' = RestOf[n + 1]
  <2>1. ret' = cached'[Len(cached) + m] BY <1>1 DEF Last
  <2>2. m \in 1 .. m /\ n + 1 = (Len(cached) - lexpos) + m BY <1>1, <1>2 DEF Places
  <2> QED BY <1>1, <1>5, <2>1, <2>2
<1>8. Base' = Base /\ MarksOf' = MarksOf BY <1>1, MarksStay DEF Base
<1>9. HistOf' = HistOf
  <2>1. ~EofDropped /\ ~EofDropped' BY <1>1 DEF EofDropped
  <2>2. HistOf = SubSeq(cached, Base + 1, lexpos) BY <2>1, StreamHolds DEF HistIsWindow
  <2>3. HistOf' = SubSeq(cached', Base + 1, lexpos)
    BY <1>1, <1>8, <2>1, StreamHoldsNext DEF HistIsWindow
  <2>4. /\ Base + 1 \in 1 .. Len(cached) + 1 /\ lexpos \in (Base + 1) - 1 .. Len(cached)
        /\ lexpos <= Len(cached')
    BY <1>1, <1>2 DEF Places
  <2>5. \A k \in Base + 1 .. lexpos : cached[k] = cached'[k]
    <3> TAKE k \in Base + 1 .. lexpos
    <3>1. k \in 1 .. Len(cached) BY <1>2 DEF Places
    <3> QED BY <1>1, <3>1
  <2>6. SubSeq(cached, Base + 1, lexpos) = SubSeq(cached', Base + 1, lexpos)
    BY <1>1, <1>2, <2>4, <2>5, SameWindow DEF Places
  <2> QED BY <2>2, <2>3, <2>6
<1>10. RestOf' = RestOf
  <2> DEFINE w == SubSeq(cached, lexpos + 1, Len(cached))
             a == SubSeq(e, 1, m)
             b == SubSeq(e, m + 1, Len(src) + 1)
  <2>1. /\ 1 \in 1 .. Len(e) + 1 /\ m \in 1 - 1 .. Len(e) /\ Len(src) + 1 \in m .. Len(e)
        /\ m + 1 \in 1 .. Len(e) + 1 /\ Len(src) + 1 \in (m + 1) - 1 .. Len(e)
    BY <1>2, <1>3
  <2>2. a \o b = e
    <3>1. a \o b = SubSeq(e, 1, Len(src) + 1) BY <1>3, <2>1, ConcatAdjacentSubSeq
    <3> QED BY <1>3, <3>1, SubSeqFull
  <2>3. a \in Seq(Symbols) /\ b \in Seq(Symbols) BY <1>3, <2>1, Window
  <2>4. w \in Seq(Symbols)
    <3>1. lexpos + 1 \in 1 .. Len(cached) + 1 /\ Len(cached) \in (lexpos + 1) - 1 .. Len(cached)
      BY <1>2 DEF Places
    <3> QED BY <1>2, <3>1, Window DEF Places
  <2>5. Coming = e BY <1>1 DEF Coming
  <2>6. Coming' = b
    <3>1. CASE m = Len(src) + 1
      <4>1. Len(src) + 1 < m + 1 /\ m + 1 \in Int /\ Len(src) + 1 \in Int BY <1>2, <3>1
      <4>2. b = <<>> BY <4>1, SubSeqEmpty
      <4> QED BY <1>4, <3>1, <4>2 DEF Coming
    <3>2. CASE m <= Len(src)
      <4>1. Coming' = Append(src', Eof) BY <1>2, <1>4, <3>2 DEF Coming
      <4>2. m + 1 \in 1 .. Len(e) /\ Len(src) + 1 \in m + 1 .. Len(e) /\ (Len(src) + 1) - 1 = Len(src)
        BY <1>2, <1>3, <3>2
      <4>3. b = Append(SubSeq(e, m + 1, Len(src)), e[Len(src) + 1])
        BY <1>3, <4>2, WindowAppend
      <4>4. SubSeq(src, m + 1, Len(src)) = SubSeq(e, m + 1, Len(src))
        <5>1. m + 1 \in 1 .. Len(src) + 1 /\ Len(src) \in (m + 1) - 1 .. Len(src) /\ Len(src) <= Len(e)
          BY <1>2, <1>3, <3>2
        <5>2. \A k \in m + 1 .. Len(src) : src[k] = e[k]
          <6> TAKE k \in m + 1 .. Len(src)
          <6>1. k \in 1 .. Len(src) BY <1>2
          <6> QED BY <1>3, <6>1
        <5> HIDE DEF e
        <5> QED BY <1>2, <1>3, <5>1, <5>2, SameWindow
      <4> QED BY <1>1, <1>3, <4>1, <4>3, <4>4
    <3> QED BY <1>2, <3>1, <3>2
  <2>7. cached' = cached \o a
    <3>1. /\ Len(a) = m - 1 + 1 /\ \A k \in 1 .. m - 1 + 1 : a[k] = e[1 + k - 1]
      BY <1>3, <2>1, Window
    <3>2. Len(a) = m /\ \A k \in 1 .. m : a[k] = e[k] BY <1>2, <3>1
    <3> DEFINE x == cached \o a
    <3> HIDE DEF a, e
    <3>3. /\ x \in Seq(Symbols) /\ Len(x) = Len(cached) + Len(a)
          /\ \A k \in 1 .. Len(cached) + Len(a) :
               x[k] = IF k <= Len(cached) THEN cached[k] ELSE a[k - Len(cached)]
      BY <1>2, <2>3, ConcatProperties DEF Places
    <3> HIDE DEF x
    <3>4. Len(x) = Len(cached) + m /\ Len(cached') = Len(cached) + m BY <1>1, <3>2, <3>3
    <3>5. \A k \in 1 .. Len(cached) + m : cached'[k] = x[k]
      <4> TAKE k \in 1 .. Len(cached) + m
      <4>1. Len(cached) \in Nat /\ k \in 1 .. Len(cached) + Len(a) BY <1>2, <3>2 DEF Places
      <4>2. CASE k <= Len(cached)
        <5>1. k \in 1 .. Len(cached) BY <4>1, <4>2
        <5> QED BY <1>1, <3>3, <4>1, <4>2, <5>1
      <4>3. CASE ~(k <= Len(cached))
        <5>1. k - Len(cached) \in 1 .. m /\ Len(cached) + (k - Len(cached)) = k BY <1>2, <4>1, <4>3
        <5>2. cached'[k] = e[k - Len(cached)] BY <1>1, <5>1 DEF e
        <5>3. x[k] = a[k - Len(cached)] BY <3>3, <4>1, <4>3
        <5> QED BY <3>2, <5>1, <5>2, <5>3
      <4> QED BY <4>2, <4>3
    <3>6. cached' = x BY <1>1, <3>3, <3>4, <3>5, SeqEqual
    <3> QED BY <3>6 DEF x
  <2>8. SubSeq(cached', lexpos + 1, Len(cached')) = w \o a
    <3>1. /\ lexpos + 1 \in 1 .. Len(cached') + 1 /\ Len(cached) \in (lexpos + 1) - 1 .. Len(cached')
          /\ Len(cached') \in Len(cached) .. Len(cached')
          /\ Len(cached) + 1 \in 1 .. Len(cached') + 1
          /\ Len(cached') \in (Len(cached) + 1) - 1 .. Len(cached')
          /\ lexpos + 1 \in 1 .. Len(cached) + 1 /\ Len(cached) \in (lexpos + 1) - 1 .. Len(cached)
          /\ Len(cached) <= Len(cached')
      BY <1>1, <1>2 DEF Places
    <3>2. SubSeq(cached', lexpos + 1, Len(cached)) \o SubSeq(cached', Len(cached) + 1, Len(cached'))
            = SubSeq(cached', lexpos + 1, Len(cached'))
      BY <1>1, <3>1, ConcatAdjacentSubSeq
    <3>3. w = SubSeq(cached', lexpos + 1, Len(cached))
      <4>1. \A k \in lexpos + 1 .. Len(cached) : cached[k] = cached'[k]
        <5> TAKE k \in lexpos + 1 .. Len(cached)
        <5>1. k \in 1 .. Len(cached) BY <1>2 DEF Places
        <5> QED BY <1>1, <5>1
      <4> QED BY <1>1, <1>2, <3>1, <4>1, SameWindow DEF Places
    <3>4. a = SubSeq(cached', Len(cached) + 1, Len(cached'))
      <4> DEFINE d == Len(cached)
                 c == cached'
      <4>1. /\ d \in Int /\ 1 + d = d + 1 /\ m + d = Len(c) /\ c \in Seq(Symbols)
            /\ 1 + d \in 1 .. Len(c) + 1 /\ m + d \in (1 + d) - 1 .. Len(c)
        BY <1>1, <1>2 DEF Places
      <4>2. \A k \in 1 .. m : e[k] = c[k + d]
        <5> TAKE k \in 1 .. m
        <5>1. k + d = d + k BY <1>2 DEF Places
        <5> QED BY <1>1, <5>1
      <4>3. e \in Seq(Symbols) /\ 1 \in 1 .. Len(e) + 1 /\ m \in 1 - 1 .. Len(e) BY <1>3, <2>1
      <4> HIDE DEF e, c, d
      <4>4. SubSeq(e, 1, m) = SubSeq(c, 1 + d, m + d)
        BY <4>1, <4>2, <4>3, EqualWindows
      <4> QED BY <4>1, <4>4 DEF c, d
    <3> QED BY <3>2, <3>3, <3>4
  <2>9. RestOf' = (w \o a) \o b BY <1>1, <2>6, <2>8, RestIsNext
  <2>10. RestOf = w \o (a \o b) BY <2>2, <2>5, RestIs
  <2> HIDE DEF w, a, b
  <2> QED BY <2>3, <2>4, <2>9, <2>10, ConcatAssociative
<1>11. Stream!LookAhead(n) BY <1>7, <1>8, <1>9, <1>10 DEF Stream!LookAhead
<1> QED BY <1>6, <1>11

(* Every step of the cache is a step of the stream, or changes nothing of  *)
(* it.                                                                     *)
LEMMA StepMapsToStep ==
  ASSUME IInv, IInv', AcrossEof = {}, [Next]_vars
  PROVE  [Stream!Next]_(Stream!vars)
<1>1. CASE UNCHANGED vars
  BY <1>1 DEF vars, Stream!vars, HistOf, RestOf, MarksOf, Base, EofDropped, LexersDrained
<1>2. CASE LexFromLexer BY <1>2, LexFromLexerIsLex DEF Stream!Next
<1>3. CASE LexCachedToken BY <1>3, LexCachedTokenIsLex DEF Stream!Next
<1>4. CASE CachingLex BY <1>4, CachingLexIsLex DEF Stream!Next
<1>5. CASE EnableBacktrackAtThisPos BY <1>5, EnableIsEnable DEF Stream!Next
<1>6. CASE CommitBacktrackedTokens BY <1>6, CommitIsCommit DEF Stream!Next
<1>7. CASE Backtrack BY <1>7, BacktrackIsBacktrack DEF Stream!Next
<1>8. CASE \E n \in 1 .. lexpos : RevertCachedTokens(n) BY <1>8, RevertIsRevert DEF Stream!Next
<1>9. CASE \E n \in 0 .. MaxLookAhead : LookAheadInCache(n)
  <2>1. PICK n \in 0 .. MaxLookAhead : LookAheadInCache(n) BY <1>9
  <2>2. n \in Nat OBVIOUS
  <2> QED BY <2>1, <2>2, LookAheadInCacheIsLookAhead DEF Stream!Next
<1>10. CASE \E n \in 0 .. MaxLookAhead : PeekAhead(n)
  <2>1. PICK n \in 0 .. MaxLookAhead : PeekAhead(n) BY <1>10
  <2>2. n \in Nat OBVIOUS
  <2> QED BY <2>1, <2>2, PeekAheadIsLookAhead DEF Stream!Next
<1>11. CASE \E t \in Tokens : EnterToken(t) BY <1>11, EnterTokenIsEnter DEF Stream!Next
<1>12. CASE \E i \in 1 .. lexpos, a \in Annotations : AnnotateCachedTokens(i, a)
  BY <1>12, AnnotateIsAnnotate DEF Stream!Next
<1>13. CASE \E a \in Annotations : ReplaceLastTokenWithAnnotation(a)
  BY <1>13, ReplaceIsReplace DEF Stream!Next
<1> QED
  BY <1>1, <1>2, <1>3, <1>4, <1>5, <1>6, <1>7, <1>8, <1>9, <1>10, <1>11, <1>12, <1>13 DEF Next

(* The token cache implements the stream of tokens that the comments of    *)
(* PPCaching.cpp:15 and Preprocessor.h:354 promise: looking ahead consumes *)
(* nothing, and going back makes the same tokens come again.               *)
THEOREM CacheImplementsStream == ASSUME AcrossEof = {} PROVE Spec => Implements
<1>1. Init => IInv /\ Stream!Init BY InitIInv, InitMapsToInit
<1>2. IInv /\ [Next]_vars => IInv' BY NextIInv
<1>3. IInv /\ IInv' /\ [Next]_vars => [Stream!Next]_(Stream!vars) BY StepMapsToStep
<1> QED BY <1>1, <1>2, <1>3, PTL DEF Spec, Implements, Stream!Spec
=============================================================================
