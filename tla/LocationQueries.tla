--------------------------- MODULE LocationQueries ---------------------------
(***************************************************************************)
(* What SourceManager answers about a location: in which file a token that *)
(* came out of a macro stands and where it is spelled, which macro call it *)
(* belongs to, and which of two locations comes first.  Finding the entry  *)
(* of an offset is one step here; SourceLocations has its searches.        *)
(*                                                                         *)
(* A location is an offset and the bit that says whether it lies in a file *)
(* or in an instantiation.  Each file entered and each token a macro       *)
(* produces has an entry: a file knows where it was included and whether   *)
(* it is a memory buffer, an instantiation where its token is spelled and  *)
(* the first and the last token of the macro call.                         *)
(***************************************************************************)
EXTENDS Integers, Sequences, SequencesExt

VARIABLES table,        \* SLocEntryTable; entry 1 is the invalid FileID 0
          nextOffset,   \* NextOffset
          before        \* LastLFID, LastRFID and LastResForBeforeTUCheck

Invalid == [offset |-> 0, macro |-> FALSE]
WithOffset(loc, o) == [loc EXCEPT !.offset = @ + o]      \* getFileLocWithOffset

\* clearIDTables.
InvalidEntry == [start |-> 0, size |-> 1, inst |-> TRUE,
                 spelling |-> Invalid, first |-> Invalid, last |-> Invalid]
NothingCompared == [left |-> 1, right |-> 1, result |-> FALSE]

(***************************************************************************)
(* New entries: the code returns the FileID of the one, and of the other   *)
(* the location of its token.                                              *)
(***************************************************************************)
NewFileLoc == [offset |-> nextOffset, macro |-> FALSE]
NewMacroLoc == [offset |-> nextOffset, macro |-> TRUE]

FileEntry(start, size, include, isBuffer) ==
  [start |-> start, size |-> size, inst |-> FALSE, include |-> include, buffer |-> isBuffer]

CreateFileID(size, include, isBuffer) ==
  /\ table' = Append(table, FileEntry(nextOffset, size, include, isBuffer))
  /\ nextOffset' = nextOffset + size + 1

CreateInstantiationLoc(spelling, first, last, length) ==
  /\ table' = Append(table, [start |-> nextOffset, size |-> length, inst |-> TRUE,
                             spelling |-> spelling, first |-> first, last |-> last])
  /\ nextOffset' = nextOffset + length + 1

(***************************************************************************)
(* Where a location is.                                                    *)
(***************************************************************************)
getFileID(loc) ==
  CHOOSE f \in DOMAIN table : loc.offset \in table[f].start .. table[f].start + table[f].size

EntryOf(loc) == table[getFileID(loc)]

getDecomposedLoc(loc) ==
  LET f == getFileID(loc) IN [file |-> f, offset |-> loc.offset - table[f].start]

\* mutant: the offset in the token is forgotten
RECURSIVE getSpellingLoc_OfToken(_)
getSpellingLoc_OfToken(loc) ==
  IF ~loc.macro THEN loc ELSE getSpellingLoc_OfToken(EntryOf(loc).spelling)

RECURSIVE getSpellingLoc(_)
getSpellingLoc(loc) ==
  IF ~loc.macro THEN loc
  ELSE getSpellingLoc(WithOffset(EntryOf(loc).spelling, getDecomposedLoc(loc).offset))

\* The offset in the token is added to the place of the macro call as well.
RECURSIVE getInstantiationLoc(_)
getInstantiationLoc(loc) ==
  IF ~loc.macro THEN loc
  ELSE getInstantiationLoc(WithOffset(EntryOf(loc).first, getDecomposedLoc(loc).offset))

\* The decomposed forms carry the offset along instead of the location: what
\* is found is a file and an offset that may lie past its end.
RECURSIVE SpellingSlowCase(_, _), InstantiationSlowCase(_, _)
SpellingSlowCase(loc, offset) ==
  LET upper == EntryOf(loc).spelling
      d == getDecomposedLoc(upper)
  IN IF upper.macro THEN SpellingSlowCase(upper, offset + d.offset)
     ELSE [file |-> d.file, offset |-> offset + d.offset]
InstantiationSlowCase(loc, offset) ==
  LET upper == EntryOf(loc).first
      d == getDecomposedLoc(upper)
  IN IF upper.macro THEN InstantiationSlowCase(upper, offset + d.offset)
     ELSE [file |-> d.file, offset |-> offset + d.offset]

getDecomposedSpellingLoc(loc) ==
  IF loc.macro THEN SpellingSlowCase(loc, getDecomposedLoc(loc).offset) ELSE getDecomposedLoc(loc)
getDecomposedInstantiationLoc(loc) ==
  IF loc.macro THEN InstantiationSlowCase(loc, getDecomposedLoc(loc).offset) ELSE getDecomposedLoc(loc)

RECURSIVE RangeStart(_), RangeEnd(_)
RangeStart(loc) == IF loc.macro THEN RangeStart(EntryOf(loc).first) ELSE loc
RangeEnd(loc) == IF loc.macro THEN RangeEnd(EntryOf(loc).last) ELSE loc

\* The macro call in the file, from its first token to its last.
getInstantiationRange(loc) == [first |-> RangeStart(loc), last |-> RangeEnd(loc)]

(***************************************************************************)
(* isBeforeInTranslationUnit.  From a location one goes up to where its    *)
(* file was included or its macro was called.                              *)
(***************************************************************************)
Upper(level) ==
  LET e == table[level.file] IN IF e.inst THEN e.first ELSE e.include

RECURSIVE Levels(_)
Levels(level) ==
  IF Upper(level) = Invalid THEN <<level>> ELSE <<level>> \o Levels(getDecomposedLoc(Upper(level)))

\* mutant: the right location is not followed up
Compared_Bottom(left, right) ==
  LET l == Levels(left)
      r == Levels(right)
      common == {i \in DOMAIN l : l[i].file = right.file}
  IN IF common # {} THEN l[CHOOSE i \in common : TRUE].offset < right.offset
     ELSE table[Last(l).file].buffer

\* The offsets in the nearest file or token both came from; a memory buffer
\* that nobody included comes before the files.
Compared(left, right) ==
  LET l == Levels(left)
      r == Levels(right)
      common == {p \in (DOMAIN l) \X (DOMAIN r) : l[p[1]].file = r[p[2]].file}
      p == CHOOSE p \in common : \A q \in common : p[1] <= q[1]
  IN IF common # {} THEN l[p[1]].offset < r[p[2]].offset
     ELSE table[Last(l).file].buffer

\* The answer is remembered for the two files, without the offsets.
IsRemembered(left, right) ==
  left.file # right.file /\ before.left = left.file /\ before.right = right.file

IsBeforeInTranslationUnit(lhs, rhs) ==
  LET left == getDecomposedLoc(lhs)
      right == getDecomposedLoc(rhs)
  IN IF lhs = rhs THEN FALSE
     ELSE IF left.file = right.file THEN left.offset < right.offset
     ELSE IF IsRemembered(left, right) THEN before.result
     ELSE Compared(left, right)

\* What is remembered afterwards.
Compare(lhs, rhs) ==
  LET left == getDecomposedLoc(lhs)
      right == getDecomposedLoc(rhs)
  IN /\ before' = IF left.file = right.file THEN before
                  ELSE [left |-> left.file, right |-> right.file,
                        result |-> IsBeforeInTranslationUnit(lhs, rhs)]
     /\ UNCHANGED <<table, nextOffset>>
=============================================================================
