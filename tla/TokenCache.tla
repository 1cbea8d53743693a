----------------------------- MODULE TokenCache -----------------------------
(***************************************************************************)
(* The token cache of Lex/PPCaching.cpp and Lex/Preprocessor.h, with which *)
(* a parser looks ahead and backtracks.  The preprocessor is in caching    *)
(* mode when it has no current lexer: the lexer it had then waits on       *)
(* IncludeMacroStack.  The lexers themselves, with the files and macros    *)
(* they enter and leave, are one stream of tokens here.                    *)
(***************************************************************************)
EXTENDS Integers, Sequences, SequencesExt

CONSTANTS
  Tokens, Annotations, Eof,
  AcrossEof,     \* what the client does at Eof: "back" over it, "look" past it
  MaxSource,                           \* bound on what the lexers deliver
  MaxCached, MaxMarks, MaxLookAhead    \* bounds on what the client does

ASSUME TokensAssumption ==
  /\ Eof \notin Tokens \cup Annotations
  /\ MaxSource \in Nat
  /\ AcrossEof \subseteq {"back", "look"}

VARIABLES
  src,      \* the tokens the lexers have yet to deliver before Eof
  cur,      \* "lexer" or "null": whether there is a current lexer
  inc,      \* IncludeMacroStack
  cached,   \* CachedTokens
  lexpos,   \* CachedLexPos
  marks,    \* BacktrackPositions
  ret,      \* the last token handed to the client
  done,     \* the client has lexed Eof and not gone back
  failed    \* a lexer was popped from an empty IncludeMacroStack

lexers == <<cur, inc>>
vars == <<src, cur, inc, cached, lexpos, marks, ret, done, failed>>

-----------------------------------------------------------------------------
InCachingLexMode   == cur = "null"
isBacktrackEnabled == marks # <<>>

(* A mutated form: the lexer is not pushed. *)
EnterCachingLexMode_NoPush == cur' = "null" /\ UNCHANGED inc

(* PushIncludeMacroStack unless the mode is already entered. *)
EnterCachingLexMode ==
  IF InCachingLexMode THEN UNCHANGED lexers
  ELSE inc' = Append(inc, cur) /\ cur' = "null"

(* RemoveTopOfLexerStack asserts that the stack is not empty. *)
StackEmpty == InCachingLexMode /\ inc = <<>>

Fail == /\ failed' = TRUE
        /\ UNCHANGED <<src, cur, inc, cached, lexpos, marks, ret, done>>

(* The next token of the lexers, and what is left of them.  At the end of  *)
(* the main file HandleEndOfFile leaves no current lexer.                  *)
NextToken == IF src = <<>> THEN Eof ELSE Head(src)
AfterNext == IF src = <<>> THEN <<>> ELSE Tail(src)

Active == ~failed /\ ~done

(* What the lexers may deliver before Eof.                                 *)
Sources == UNION {[1 .. n -> Tokens] : n \in 0 .. MaxSource}

-----------------------------------------------------------------------------
Init ==
  /\ src \in Sources
  /\ cur = "lexer" /\ inc = <<>>
  /\ cached = <<>> /\ lexpos = 0 /\ marks = <<>>
  /\ ret = Eof /\ done = FALSE /\ failed = FALSE

(* Lex with a current lexer. *)
LexFromLexer ==
  /\ Active /\ ~InCachingLexMode
  /\ ret' = NextToken /\ src' = AfterNext
  /\ cur' = IF src = <<>> THEN "null" ELSE cur
  /\ done' = (src = <<>>)
  /\ UNCHANGED <<inc, cached, lexpos, marks, failed>>

(* CachingLex while cached tokens are left. *)
LexCachedToken ==
  /\ Active /\ InCachingLexMode /\ lexpos < Len(cached)
  /\ ret' = cached[lexpos + 1]
  /\ lexpos' = lexpos + 1
  /\ done' = (ret' = Eof)
  /\ UNCHANGED <<src, cur, inc, cached, marks, failed>>

(* CachingLex past the cache: leave caching mode, lex, and with            *)
(* backtracking enabled enter it again and cache what was lexed, unless it *)
(* is Eof.                                                                 *)
CachingLex ==
  /\ Active /\ InCachingLexMode /\ lexpos = Len(cached)
  /\ IF StackEmpty THEN Fail ELSE
     /\ ret' = NextToken /\ src' = AfterNext /\ done' = (src = <<>>)
     /\ IF src = <<>> THEN cur' = "null" /\ inc' = Front(inc)
        ELSE IF isBacktrackEnabled THEN UNCHANGED lexers
        ELSE cur' = Last(inc) /\ inc' = Front(inc)
     /\ IF ~isBacktrackEnabled THEN cached' = <<>> /\ lexpos' = 0
        ELSE IF src = <<>> THEN UNCHANGED <<cached, lexpos>>
        ELSE cached' = Append(cached, Head(src)) /\ lexpos' = lexpos + 1
     /\ UNCHANGED <<marks, failed>>

EnableBacktrackAtThisPos ==
  /\ Active /\ Len(marks) < MaxMarks
  /\ marks' = Append(marks, lexpos)
  /\ EnterCachingLexMode
  /\ UNCHANGED <<src, cached, lexpos, ret, done, failed>>

CommitBacktrackedTokens ==
  /\ ~failed /\ isBacktrackEnabled
  /\ marks' = Front(marks)
  /\ UNCHANGED <<src, cur, inc, cached, lexpos, ret, done, failed>>

Backtrack ==
  /\ ~failed /\ isBacktrackEnabled /\ (done => "back" \in AcrossEof)
  /\ lexpos' = Last(marks)
  /\ marks' = Front(marks)
  /\ done' = FALSE
  /\ UNCHANGED <<src, cur, inc, cached, ret, failed>>

RevertCachedTokens(n) ==
  /\ Active /\ isBacktrackEnabled /\ lexpos - n >= Last(marks)
  /\ lexpos' = lexpos - n
  /\ UNCHANGED <<src, cur, inc, cached, marks, ret, done, failed>>

(* LookAhead(n) of a token that is in the cache. *)
LookAheadInCache(n) ==
  /\ Active /\ lexpos + n < Len(cached)
  /\ ret' = cached[lexpos + n + 1]
  /\ UNCHANGED <<src, cur, inc, cached, lexpos, marks, done, failed>>

(* PeekAhead: m tokens are lexed into the cache.  Past Eof there is no     *)
(* current lexer, so Lex is CachingLex and hands out a cached token again. *)
PeekAhead(n) ==
  LET m == lexpos + n + 1 - Len(cached)
      pastEof == m - Len(src) - 1
      lexed == IF m <= Len(src) THEN cached \o SubSeq(src, 1, m)
               ELSE Append(cached \o src, Eof)
  IN /\ Active /\ m > 0 /\ Len(cached) + m <= MaxCached
     /\ IF "look" \in AcrossEof THEN pastEof <= 1
        ELSE pastEof <= 0 /\ ~StackEmpty
     /\ IF StackEmpty THEN Fail ELSE
        /\ src' = SubSeq(src, m + 1, Len(src))
        /\ cur' = "null"
        /\ inc' = IF m <= Len(src) THEN <<"lexer">> ELSE <<>>
        /\ cached' = IF pastEof = 1 THEN Append(lexed, lexed[lexpos + 1])
                     ELSE lexed
        /\ lexpos' = IF pastEof = 1 THEN lexpos + 1 ELSE lexpos
        /\ ret' = Last(cached')
        /\ UNCHANGED <<marks, done, failed>>

(* A mutated form: the token goes behind the cached tokens. *)
EnterToken_Behind(t) ==
  /\ Active /\ Len(cached) < MaxCached
  /\ EnterCachingLexMode
  /\ cached' = Append(cached, t)
  /\ UNCHANGED <<src, lexpos, marks, ret, done, failed>>

EnterToken(t) ==
  /\ Active /\ Len(cached) < MaxCached
  /\ EnterCachingLexMode
  /\ cached' = SubSeq(cached, 1, lexpos) \o <<t>>
               \o SubSeq(cached, lexpos + 1, Len(cached))
  /\ UNCHANGED <<src, lexpos, marks, ret, done, failed>>

(* AnnotatePreviousCachedTokens: the annotation starts at the i-th cached  *)
(* token and ends at the last one lexed.                                   *)
AnnotateCachedTokens(i, a) ==
  /\ Active /\ isBacktrackEnabled /\ Last(marks) < i /\ i <= lexpos
  /\ cached' = Append(SubSeq(cached, 1, i - 1), a)
               \o SubSeq(cached, lexpos + 1, Len(cached))
  /\ lexpos' = i
  /\ UNCHANGED <<src, cur, inc, marks, ret, done, failed>>

ReplaceLastTokenWithAnnotation(a) ==
  /\ Active /\ isBacktrackEnabled /\ lexpos # 0
  /\ cached' = [cached EXCEPT ![lexpos] = a]
  /\ UNCHANGED <<src, cur, inc, lexpos, marks, ret, done, failed>>

Next ==
  \/ LexFromLexer \/ LexCachedToken \/ CachingLex
  \/ EnableBacktrackAtThisPos \/ CommitBacktrackedTokens \/ Backtrack
  \/ \E n \in 1 .. lexpos : RevertCachedTokens(n)
  \/ \E n \in 0 .. MaxLookAhead : LookAheadInCache(n) \/ PeekAhead(n)
  \/ \E t \in Tokens : EnterToken(t)
  \/ \E i \in 1 .. lexpos, a \in Annotations : AnnotateCachedTokens(i, a)
  \/ \E a \in Annotations : ReplaceLastTokenWithAnnotation(a)

Spec == Init /\ [][Next]_vars

-----------------------------------------------------------------------------
(* The positions to go back to are in order and not past the present one,  *)
(* as RevertCachedTokens and AnnotatePreviousCachedTokens assert: going    *)
(* back never skips tokens.                                                *)
MarksInOrder ==
  \A i \in 1 .. Len(marks) :
    /\ marks[i] <= lexpos
    /\ \A j \in 1 .. i : marks[j] <= marks[i]

(* Exactly one lexer exists until the main file has ended, either current  *)
(* or waiting below the cache; and as long as the client backtracks or     *)
(* cached tokens are left, the preprocessor is in caching mode.            *)
LexerWaits ==
  /\ Len(inc) <= 1 /\ (cur = "lexer" => inc = <<>>)
  /\ cur = "lexer" => marks = <<>> /\ cached = <<>>
  /\ (cur = "null" /\ inc = <<>>) => src = <<>>

(* RemoveTopOfLexerStack (PPLexerChange.cpp:237): "Ran out of stack        *)
(* entries to load" never happens, because the lexer waits and nothing is  *)
(* asked of it out of order.                                               *)
StackNeverRunsOut == ~failed /\ LexerWaits /\ MarksInOrder

-----------------------------------------------------------------------------
(* The stream the client sees: what it can go back to and what comes.  Eof *)
(* is lexed without being cached.                                          *)
Base == IF marks = <<>> THEN lexpos ELSE marks[1]

EofDropped == done /\ marks # <<>> /\ (cached = <<>> \/ Last(cached) # Eof)

LexersDrained == cur = "null" /\ inc = <<>>

HistOf == SubSeq(cached, Base + 1, lexpos)
          \o IF EofDropped THEN <<Eof>> ELSE <<>>

RestOf == SubSeq(cached, lexpos + 1, Len(cached))
          \o IF LexersDrained THEN <<>> ELSE Append(src, Eof)

MarksOf == [i \in 1 .. Len(marks) |-> marks[i] - Base]

Stream == INSTANCE RewindStream
  WITH hist <- HistOf, rest <- RestOf, marks <- MarksOf

(* The cache keeps the promise of PPCaching.cpp:15: Backtrack "will make   *)
(* the Preprocessor re-lex the same tokens", and of Preprocessor.h:354:    *)
(* LookAhead returns a token "without consuming any tokens".               *)
Implements == Stream!Spec
=============================================================================
