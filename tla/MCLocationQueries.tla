------------------------- MODULE MCLocationQueries -------------------------
(***************************************************************************)
(* A translation unit while it is lexed: the buffer of predefined macros,  *)
(* the main file below it, headers, and macro calls, also within the       *)
(* tokens of other macro calls.  `tokens' is the history of the tokens the *)
(* clients saw, in their order.                                            *)
(***************************************************************************)
EXTENDS LocationQueries, FiniteSets, TLC

CONSTANTS FileSize,     \* the tokens of a file, one character each (bound)
          Lengths,      \* of the tokens that macros produce
          MaxEntries    \* files and macro tokens beside the first three (bound)

VARIABLES stack,        \* the files being lexed: FileID and position, top last
          call,         \* the last macro token, in which a macro may be called
          tokens,       \* history: each token, where it is lexed and spelled
          asked         \* the last two locations compared, and the answer

vars == <<table, nextOffset, before, stack, call, tokens, asked>>

NoQuestion == [lhs |-> 0, rhs |-> 0, answer |-> FALSE, hit |-> FALSE]

\* The three entries made before lexing starts; the predefines come first.
MCInit ==
  /\ table = <<InvalidEntry, FileEntry(2, FileSize, Invalid, FALSE),
               FileEntry(3 + FileSize, FileSize, Invalid, TRUE)>>
  /\ nextOffset = 4 + 2 * FileSize
  /\ before = NothingCompared
  /\ stack = <<[file |-> 2, at |-> 0, by |-> 0], [file |-> 3, at |-> 0, by |-> 0]>>
  /\ call = Invalid
  /\ tokens = <<>>
  /\ asked = NoQuestion

Here == [offset |-> table[Last(stack).file].start + Last(stack).at, macro |-> FALSE]
MoreToLex == stack # <<>> /\ Last(stack).at < FileSize
NotAsked == asked = NoQuestion
Advanced(n) == [stack EXCEPT ![Len(stack)].at = @ + n]
Seen(loc, point, end, spelled, length) ==
  tokens' = Append(tokens, [loc |-> loc, point |-> point, end |-> end,
                            spelled |-> spelled, length |-> length, by |-> Last(stack).by])
RoomForEntry == Len(table) < 3 + MaxEntries

LexToken ==
  /\ MoreToLex /\ NotAsked
  /\ Seen(Here, Here, Here, Here, 1)
  /\ stack' = Advanced(1) /\ call' = Invalid
  /\ UNCHANGED <<table, nextOffset, before, asked>>

\* The name of the file is a token of the file, or a macro gave it.
Enter(include) ==
  /\ CreateFileID(FileSize, include, FALSE)
  /\ call' = Invalid
  /\ UNCHANGED <<before, asked>>

Include ==
  /\ MoreToLex /\ NotAsked /\ RoomForEntry
  /\ Enter(Here)
  /\ Seen(Here, Here, Here, Here, 1)
  /\ stack' = Append(Advanced(1), [file |-> Len(table) + 1, at |-> 0, by |-> Len(tokens) + 1])

IncludeOfMacro ==
  /\ call # Invalid /\ NotAsked /\ RoomForEntry
  /\ Enter(call)
  /\ stack' = Append(stack, [file |-> Len(table) + 1, at |-> 0, by |-> Len(tokens)])
  /\ UNCHANGED tokens

EndOfFile ==
  /\ stack # <<>> /\ Last(stack).at = FileSize /\ NotAsked
  /\ stack' = Front(stack) /\ call' = Invalid
  /\ UNCHANGED <<table, nextOffset, before, tokens, asked>>

\* The body of a macro is in the predefines or, an argument, the last token.
Spellings == {[loc |-> [offset |-> table[3].start, macro |-> FALSE],
               spelled |-> [offset |-> table[3].start, macro |-> FALSE], length |-> l] : l \in Lengths}
             \cup (IF tokens = <<>> THEN {}
                   ELSE {[loc |-> Last(tokens).loc, spelled |-> Last(tokens).spelled,
                          length |-> Last(tokens).length]})

\* A macro call of one or two tokens of the file.
Expand(body, tail) ==
  /\ MoreToLex /\ NotAsked /\ RoomForEntry /\ Last(stack).at + tail < FileSize
  /\ CreateInstantiationLoc(body.loc, Here, WithOffset(Here, tail), body.length)
  /\ Seen(NewMacroLoc, Here, WithOffset(Here, tail), body.spelled, body.length)
  /\ stack' = Advanced(1 + tail) /\ call' = NewMacroLoc
  /\ UNCHANGED <<before, asked>>

\* The last macro token names a macro itself, or its macro has one more token.
ExpandWithin(body, first, last) ==
  /\ call # Invalid /\ NotAsked /\ RoomForEntry
  /\ <<first, last>> \in {<<call, call>>, <<EntryOf(call).first, EntryOf(call).last>>}
  /\ CreateInstantiationLoc(body.loc, first, last, body.length)
  /\ Seen(NewMacroLoc, Last(tokens).point, Last(tokens).end, body.spelled, body.length)
  /\ call' = NewMacroLoc
  /\ UNCHANGED <<before, stack, asked>>

\* A question about other files than the last one is asked of a fresh cache.
Ask(l, r) ==
  /\ l # r
  /\ NotAsked \/ IsRemembered(getDecomposedLoc(tokens[l].loc), getDecomposedLoc(tokens[r].loc))
  /\ Compare(tokens[l].loc, tokens[r].loc)
  /\ asked' = [lhs |-> l, rhs |-> r,
               answer |-> IsBeforeInTranslationUnit(tokens[l].loc, tokens[r].loc),
               hit |-> IsRemembered(getDecomposedLoc(tokens[l].loc), getDecomposedLoc(tokens[r].loc))]
  /\ UNCHANGED <<stack, call, tokens>>

MCNext ==
  \/ LexToken \/ Include \/ IncludeOfMacro \/ EndOfFile
  \/ \E body \in Spellings :
       \/ \E tail \in {0, 1} : Expand(body, tail)
       \/ \E first, last \in {call, EntryOf(call).first, EntryOf(call).last} :
            ExpandWithin(body, first, last)
  \/ \E l, r \in DOMAIN tokens : Ask(l, r)

Spec == MCInit /\ [][MCNext]_vars

(***************************************************************************)
(* Properties.                                                             *)
(***************************************************************************)

\* Every character of a token, through any number of macros, is spelled where
\* the body or the argument it came from has it; the token stands where its
\* outermost macro was called in a file, and belongs to that whole call.
PlacesAreRight ==
  \A n \in DOMAIN tokens :
    LET t == tokens[n]
    IN /\ \A k \in 0..(t.length - 1) :
            LET spelled == WithOffset(t.spelled, k)
            IN /\ getSpellingLoc(WithOffset(t.loc, k)) = spelled
               /\ getDecomposedSpellingLoc(WithOffset(t.loc, k)) = getDecomposedLoc(spelled)
       /\ getInstantiationLoc(t.loc) = t.point
       /\ getDecomposedInstantiationLoc(t.loc) = getDecomposedLoc(t.point)
       /\ getInstantiationRange(t.loc) = [first |-> t.point, last |-> t.end]

\* The tokens whose files a token is in, itself included.
RECURSIVE Includers(_)
Includers(n) == IF n = 0 THEN {} ELSE {n} \cup Includers(tokens[n].by)

\* Two tokens of one macro call, or one that names the file of the other, are
\* at the same place: neither comes before the other.
SamePlace(l, r) ==
  \/ \E n \in Includers(r) : tokens[n].point = tokens[l].point
  \/ \E n \in Includers(l) : tokens[n].point = tokens[r].point

\* What was remembered does not hold for another offset of a file in which the
\* other token is included or expanded: then the answer may be a wrong one.
IsIn(f, g) == \E i \in DOMAIN Levels([file |-> f, offset |-> 0]) :
                Levels([file |-> f, offset |-> 0])[i].file = g
MayBeStale(l, r) ==
  LET f == getFileID(tokens[l].loc)
      g == getFileID(tokens[r].loc)
  IN asked.hit /\ (IsIn(f, g) \/ IsIn(g, f))

\* isBeforeInTranslationUnit puts the tokens in the order in which the clients
\* saw them, across headers, macros and the buffer of predefines.
OrderIsRight ==
  asked # NoQuestion /\ ~MayBeStale(asked.lhs, asked.rhs) =>
    asked.answer = (asked.lhs < asked.rhs /\ ~SamePlace(asked.lhs, asked.rhs))
=============================================================================
