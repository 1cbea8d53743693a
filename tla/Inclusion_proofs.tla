-------------------------- MODULE Inclusion_proofs --------------------------
(***************************************************************************)
(* What holds of conditional and file inclusion for every program, every   *)
(* set of macros and every include depth limit.                            *)
(***************************************************************************)
EXTENDS Inclusion, FiniteSetTheorems, SequenceTheorems, WellFoundedInduction,
        TLAPS

-----------------------------------------------------------------------------
(* Lexers and their parts.                                                 *)

(* Changing one field of a lexer keeps it a lexer and the others as they   *)
(* were.                                                                   *)
LEMMA SetMI ==
  ASSUME NEW l \in Lexer, NEW mi \in MIOptState
  PROVE  /\ WithMI(l, mi) \in Lexer
         /\ WithMI(l, mi).file = l.file
         /\ WithMI(l, mi).pos = l.pos
         /\ WithMI(l, mi).cond = l.cond
         /\ WithMI(l, mi).raw = l.raw
         /\ WithMI(l, mi).mi = mi
  BY DEF Lexer, WithMI

LEMMA SetCond ==
  ASSUME NEW l \in Lexer, NEW c \in Seq(Level)
  PROVE  /\ WithCond(l, c) \in Lexer
         /\ WithCond(l, c).file = l.file
         /\ WithCond(l, c).pos = l.pos
         /\ WithCond(l, c).cond = c
         /\ WithCond(l, c).raw = l.raw
         /\ WithCond(l, c).mi = l.mi
  BY DEF Lexer, WithCond

LEMMA SetRaw ==
  ASSUME NEW l \in Lexer, NEW b \in BOOLEAN
  PROVE  /\ WithRaw(l, b) \in Lexer
         /\ WithRaw(l, b).file = l.file
         /\ WithRaw(l, b).pos = l.pos
         /\ WithRaw(l, b).cond = l.cond
         /\ WithRaw(l, b).raw = b
         /\ WithRaw(l, b).mi = l.mi
  BY DEF Lexer, WithRaw

LEMMA SetPos ==
  ASSUME NEW l \in Lexer
  PROVE  /\ Consume(l) \in Lexer
         /\ Consume(l).file = l.file
         /\ Consume(l).pos = l.pos + 1
         /\ Consume(l).cond = l.cond
         /\ Consume(l).raw = l.raw
         /\ Consume(l).mi = l.mi
  BY DEF Lexer, Consume

LEMMA LexerParts ==
  ASSUME NEW l \in Lexer
  PROVE  /\ l.file \in Files
         /\ l.pos \in Nat
         /\ l.cond \in Seq(Level)
         /\ l.mi \in MIOptState
         /\ l.raw \in BOOLEAN
         /\ l.mi.any \in BOOLEAN
         /\ l.mi.macro \in Macros \cup {None}
  BY DEF Lexer, MIOptState

(* The transitions of the multiple-include machine. *)
LEMMA MIOptTransitions ==
  ASSUME NEW mi \in MIOptState, NEW m \in Macros
  PROVE  /\ ReadToken(mi) \in MIOptState
         /\ ReadToken(mi).any
         /\ ReadToken(mi).macro = mi.macro
         /\ ReadToken(mi).did = mi.did
         /\ ExpandedMacro(mi) \in MIOptState
         /\ ExpandedMacro(mi).any = mi.any
         /\ ExpandedMacro(mi).macro = mi.macro
         /\ ExpandedMacro(mi).did
         /\ EnterTopLevelIFNDEF(mi, m) \in MIOptState
         /\ EnterTopLevelIFNDEF(mi, m).any
         /\ EnterTopLevelIFNDEF(mi, m).macro \in {None, m}
         /\ mi.did => EnterTopLevelIFNDEF(mi, m).macro = None
         /\ mi.macro # None => EnterTopLevelIFNDEF(mi, m).macro = None
         /\ EnterTopLevelConditional(mi) \in MIOptState
         /\ EnterTopLevelConditional(mi).any
         /\ EnterTopLevelConditional(mi).macro = None
         /\ ExitTopLevelConditional(mi) \in MIOptState
         /\ ExitTopLevelConditional(mi).macro = mi.macro
         /\ ExitTopLevelConditional(mi).any <=> mi.macro = None
  BY DEF MIOptState, ReadToken, ExpandedMacro, EnterTopLevelIFNDEF,
         EnterTopLevelConditional, ExitTopLevelConditional, Invalidate

(* Reading a line. *)
LEMMA AdvanceFields ==
  ASSUME NEW l \in Lexer
  PROVE  /\ Advance(l) \in Lexer
         /\ Advance(l).file = l.file
         /\ Advance(l).pos = l.pos + 1
         /\ Advance(l).cond = l.cond
         /\ Advance(l).raw = l.raw
         /\ Advance(l).mi \in MIOptState
         /\ Advance(l).mi.any
         /\ Advance(l).mi.macro = l.mi.macro
<1>1. l.mi \in MIOptState
  BY LexerParts
<1>2. /\ ReadToken(l.mi) \in MIOptState
      /\ ReadToken(l.mi).any
      /\ ReadToken(l.mi).macro = l.mi.macro
  BY <1>1 DEF MIOptState, ReadToken
<1> QED
  BY <1>2, SetPos, SetMI DEF Advance

LEMMA FrontLast ==
  ASSUME NEW S, NEW s \in Seq(S), s # <<>>
  PROVE  /\ Len(s) \in Nat \ {0}
         /\ Front(s) \in Seq(S)
         /\ Len(Front(s)) = Len(s) - 1
         /\ \A i \in 1 .. Len(s) - 1 : Front(s)[i] = s[i]
         /\ Last(s) = s[Len(s)]
         /\ Last(s) \in S
<1>1. Len(s) \in Nat \ {0}
  OBVIOUS
<1>2. PICK n \in Nat : n = Len(s) - 1
  BY <1>1
<1>3. \A i \in 1 .. n : s[i] \in S
  BY <1>1, <1>2
<1>4. /\ SubSeq(s, 1, n) \in Seq(S)
      /\ Len(SubSeq(s, 1, n)) = IF 1 <= n THEN n - 1 + 1 ELSE 0
      /\ \A i \in 1 .. n - 1 + 1 : SubSeq(s, 1, n)[i] = s[1 + i - 1]
  BY <1>3, SubSeqProperties
<1>5. Len(SubSeq(s, 1, n)) = n
  BY <1>2, <1>4
<1>6. \A i \in 1 .. n : SubSeq(s, 1, n)[i] = s[i]
  BY <1>4
<1>7. Front(s) = SubSeq(s, 1, n) /\ Last(s) = s[Len(s)]
  BY <1>2 DEF Front, Last
<1> QED
  BY <1>1, <1>2, <1>4, <1>5, <1>6, <1>7

-----------------------------------------------------------------------------
(* Nesting depth and what the multiple-include machine has established.    *)

LEMMA CountStep ==
  ASSUME NEW A, NEW i \in Nat
  PROVE  /\ Cardinality(A \cap (1 .. i)) \in Nat
         /\ i + 1 \in A => Cardinality(A \cap (1 .. i + 1))
                            = Cardinality(A \cap (1 .. i)) + 1
         /\ i + 1 \notin A => Cardinality(A \cap (1 .. i + 1))
                               = Cardinality(A \cap (1 .. i))
<1> DEFINE S(n) == A \cap (1 .. n)
<1>1. IsFiniteSet(1 .. i)
  BY FS_Interval
<1>2. S(i) \subseteq 1 .. i
  OBVIOUS
<1>3. IsFiniteSet(S(i)) /\ Cardinality(S(i)) \in Nat
  BY <1>1, <1>2, FS_Subset, FS_CardinalityType
<1>4. i + 1 \notin S(i)
  OBVIOUS
<1>5. i + 1 \in A => S(i + 1) = S(i) \cup {i + 1}
  OBVIOUS
<1>6. i + 1 \notin A => S(i + 1) = S(i)
  OBVIOUS
<1>7. Cardinality(S(i) \cup {i + 1}) = Cardinality(S(i)) + 1
  BY <1>3, <1>4, FS_AddElement
<1> QED
  BY <1>3, <1>5, <1>6, <1>7

(* An opening line raises the depth by one, a closing line lowers it. *)
LEMMA DepthStep ==
  ASSUME NEW t, NEW i \in Nat
  PROVE  /\ Depth(t, i) \in Int
         /\ Opens(t[i + 1]) => Depth(t, i + 1) = Depth(t, i) + 1
         /\ Closes(t[i + 1]) => Depth(t, i + 1) = Depth(t, i) - 1
         /\ ~Opens(t[i + 1]) /\ ~Closes(t[i + 1])
              => Depth(t, i + 1) = Depth(t, i)
<1> DEFINE A == {j \in 1 .. i + 1 : Opens(t[j])}
           B == {j \in 1 .. i + 1 : Closes(t[j])}
           O(n) == Cardinality(A \cap (1 .. n))
           C(n) == Cardinality(B \cap (1 .. n))
<1>1. Opens(t[i + 1]) => ~Closes(t[i + 1])
  BY DEF Opens, Closes
<1>2. /\ {j \in 1 .. i : Opens(t[j])} = A \cap (1 .. i)
      /\ {j \in 1 .. i : Closes(t[j])} = B \cap (1 .. i)
  OBVIOUS
<1>3. A = A \cap (1 .. i + 1) /\ B = B \cap (1 .. i + 1)
  OBVIOUS
<1>4. Depth(t, i) = O(i) - C(i) /\ Depth(t, i + 1) = O(i + 1) - C(i + 1)
  BY <1>2, <1>3 DEF Depth
<1>5. (Opens(t[i + 1]) <=> i + 1 \in A) /\ (Closes(t[i + 1]) <=> i + 1 \in B)
  OBVIOUS
<1> HIDE DEF A, B
<1>6. /\ O(i) \in Nat
      /\ i + 1 \in A => O(i + 1) = O(i) + 1
      /\ i + 1 \notin A => O(i + 1) = O(i)
  BY CountStep
<1>7. /\ C(i) \in Nat
      /\ i + 1 \in B => C(i + 1) = C(i) + 1
      /\ i + 1 \notin B => C(i + 1) = C(i)
  BY CountStep
<1> HIDE DEF O, C
<1> QED
  BY <1>1, <1>4, <1>5, <1>6, <1>7

LEMMA DepthZero == \A t : Depth(t, 0) = 0
<1> TAKE t
<1>1. {j \in 1 .. 0 : Opens(t[j])} = {} /\ {j \in 1 .. 0 : Closes(t[j])} = {}
  OBVIOUS
<1> QED
  BY <1>1, FS_EmptySet DEF Depth

(* What a controlling macro says of the lines of t read so far: the first  *)
(* is its guard and, while the guard is open, the conditional stack is as  *)
(* deep as the text; when the machine is back to "no token read", the      *)
(* lines read end with the #endif of the guard.                            *)
GuardSeen(t, l) ==
  /\ l.pos >= 1
  /\ Guards(t[1], l.mi.macro)
  /\ l.cond # <<>> => /\ \A i \in 1 .. l.pos : Depth(t, i) >= 1
                      /\ Depth(t, l.pos) = Len(l.cond)
  /\ ~l.mi.any => /\ l.pos >= 2
                  /\ \A i \in 1 .. l.pos - 1 : Depth(t, i) >= 1
                  /\ Depth(t, l.pos) = 0

LexOK(t, l) ==
  /\ l.pos <= Len(t)
  /\ l.cond # <<>> => l.mi.any
  /\ ~l.mi.any /\ l.mi.macro = None => l.pos = 0
  /\ l.mi.macro # None /\ AllNamed(t) => GuardSeen(t, l)

(* A line that neither opens nor closes a conditional. *)
LEMMA PlainLine ==
  ASSUME NEW t \in Seq(Line), NEW l \in Lexer, NEW l2 \in Lexer,
         LexOK(t, l), l.pos < Len(t),
         l2.pos = l.pos + 1, l2.mi.any, l2.mi.macro \in {l.mi.macro, None},
         Len(l2.cond) = Len(l.cond),
         ~Opens(t[l.pos + 1]), ~Closes(t[l.pos + 1])
  PROVE  LexOK(t, l2)
<1>1. /\ l.pos \in Nat /\ l2.pos \in Nat /\ Len(t) \in Nat
      /\ l.cond \in Seq(Level) /\ l2.cond \in Seq(Level)
  BY LexerParts
<1>2. Depth(t, l.pos) \in Int /\ Depth(t, l.pos + 1) = Depth(t, l.pos)
  BY <1>1, DepthStep
<1>3. l2.cond # <<>> <=> l.cond # <<>>
  BY <1>1
<1>4. ASSUME l2.mi.macro # None, AllNamed(t)
      PROVE  GuardSeen(t, l2)
  <2>1. GuardSeen(t, l) /\ l2.mi.macro = l.mi.macro
    BY <1>4 DEF LexOK
  <2>2. ASSUME l2.cond # <<>>
        PROVE  /\ \A i \in 1 .. l2.pos : Depth(t, i) >= 1
               /\ Depth(t, l2.pos) = Len(l2.cond)
    <3>1. /\ \A i \in 1 .. l.pos : Depth(t, i) >= 1
          /\ Depth(t, l.pos) = Len(l.cond)
      BY <2>1, <2>2, <1>3 DEF GuardSeen
    <3>2. Depth(t, l.pos) >= 1
      BY <3>1, <2>1, <1>1 DEF GuardSeen
    <3> QED
      BY <3>1, <3>2, <1>1, <1>2
  <2> QED
    BY <2>1, <2>2, <1>1 DEF GuardSeen
<1> QED
  BY <1>1, <1>3, <1>4 DEF LexOK

(* A line that opens a conditional: inside another one, or with the        *)
(* machine invalidated, or as the guard of the file.                       *)
LEMMA OpeningLine ==
  ASSUME NEW t \in Seq(Line), NEW l \in Lexer, NEW l2 \in Lexer,
         LexOK(t, l), l.pos < Len(t),
         l2.pos = l.pos + 1, l2.mi.any, Len(l2.cond) = Len(l.cond) + 1,
         Opens(t[l.pos + 1]),
         \/ l.cond # <<>> /\ l2.mi.macro = l.mi.macro
         \/ l2.mi.macro = None
         \/ ~l.mi.any /\ l.mi.macro = None
            /\ Guards(t[l.pos + 1], l2.mi.macro)
         \/ ~AllNamed(t)
  PROVE  LexOK(t, l2)
<1>1. /\ l.pos \in Nat /\ l2.pos \in Nat /\ Len(t) \in Nat
      /\ l.cond \in Seq(Level) /\ l2.cond \in Seq(Level)
  BY LexerParts
<1>2. Depth(t, l.pos) \in Int /\ Depth(t, l.pos + 1) = Depth(t, l.pos) + 1
  BY <1>1, DepthStep
<1>3. ASSUME l2.mi.macro # None, AllNamed(t)
      PROVE  GuardSeen(t, l2)
  <2>1. CASE l.cond # <<>> /\ l2.mi.macro = l.mi.macro
    <3>1. GuardSeen(t, l)
      BY <2>1, <1>3 DEF LexOK
    <3>2. /\ \A i \in 1 .. l.pos : Depth(t, i) >= 1
          /\ Depth(t, l.pos) = Len(l.cond)
          /\ Len(l.cond) >= 1
      BY <2>1, <3>1, <1>1 DEF GuardSeen
    <3>3. \A i \in 1 .. l2.pos : Depth(t, i) >= 1
      BY <3>2, <1>1, <1>2
    <3> QED
      BY <2>1, <3>1, <3>2, <3>3, <1>1, <1>2 DEF GuardSeen
  <2>2. CASE ~l.mi.any /\ l.mi.macro = None
             /\ Guards(t[l.pos + 1], l2.mi.macro)
    <3>1. l.pos = 0 /\ l.cond = <<>>
      BY <2>2 DEF LexOK
    <3>2. Depth(t, 1) = 1 /\ Len(l2.cond) = 1
      BY <3>1, <1>2, <1>1, DepthZero
    <3>3. \A i \in 1 .. 1 : Depth(t, i) >= 1
      BY <3>2
    <3> QED
      BY <2>2, <3>1, <3>2, <3>3, <1>1 DEF GuardSeen
  <2> QED
    BY <2>1, <2>2, <1>3
<1> QED
  BY <1>1, <1>3 DEF LexOK

(* A line that closes the innermost conditional. *)
LEMMA ClosingLine ==
  ASSUME NEW t \in Seq(Line), NEW l \in Lexer, NEW l2 \in Lexer,
         LexOK(t, l), l.pos < Len(t),
         l2.pos = l.pos + 1, l.cond # <<>>,
         Len(l2.cond) = Len(l.cond) - 1, l2.mi.macro = l.mi.macro,
         l2.mi.any \/ (l2.cond = <<>> /\ l.mi.macro # None),
         Closes(t[l.pos + 1])
  PROVE  LexOK(t, l2)
<1>1. /\ l.pos \in Nat /\ l2.pos \in Nat /\ Len(t) \in Nat
      /\ l.cond \in Seq(Level) /\ l2.cond \in Seq(Level)
  BY LexerParts
<1>2. Depth(t, l.pos) \in Int /\ Depth(t, l.pos + 1) = Depth(t, l.pos) - 1
  BY <1>1, DepthStep
<1>3. ASSUME l2.mi.macro # None, AllNamed(t)
      PROVE  GuardSeen(t, l2)
  <2>1. GuardSeen(t, l)
    BY <1>3 DEF LexOK
  <2>2. /\ \A i \in 1 .. l.pos : Depth(t, i) >= 1
        /\ Depth(t, l.pos) = Len(l.cond)
        /\ l.pos >= 1
    BY <2>1 DEF GuardSeen
  <2>3. Depth(t, l2.pos) = Len(l2.cond)
    BY <2>2, <1>1, <1>2
  <2>4. ASSUME l2.cond # <<>>
        PROVE  \A i \in 1 .. l2.pos : Depth(t, i) >= 1
    BY <2>2, <2>3, <2>4, <1>1
  <2>5. l2.cond = <<>> => Depth(t, l2.pos) = 0
    BY <2>3
  <2> QED
    BY <2>1, <2>2, <2>3, <2>4, <2>5, <1>1 DEF GuardSeen
<1> QED
  BY <1>1, <1>3 DEF LexOK

-----------------------------------------------------------------------------
(* The conditional stack and raw mode.                                     *)

LEMMA LevelOfType ==
  ASSUME NEW a \in BOOLEAN, NEW b \in BOOLEAN, NEW c \in BOOLEAN
  PROVE  LevelOf(a, b, c) \in Level /\ LevelOf(a, b, c).was = a
  BY DEF LevelOf, Level

(* Entering a block, or starting to skip one, while not skipping. *)
LEMMA PushLevel ==
  ASSUME NEW l \in Lexer, ~l.raw, LevelsOK(l),
         NEW lev \in Level, ~lev.was,
         NEW l2 \in Lexer, l2.cond = Append(l.cond, lev)
  PROVE  LevelsOK(l2)
<1>1. l.cond \in Seq(Level) /\ l2.raw \in BOOLEAN
  BY LexerParts
<1>2. \A i \in 1 .. Len(l.cond) : ~l.cond[i].was
  BY DEF LevelsOK
<1>3. /\ Len(l2.cond) = Len(l.cond) + 1
      /\ \A i \in 1 .. Len(l2.cond) : ~l2.cond[i].was
  BY <1>1, <1>2
<1>4. Len(l2.cond) \in 1 .. Len(l2.cond)
  BY <1>1, <1>3
<1>5. \A i \in 1 .. Len(l2.cond) : l2.cond[i].was <=> i > Len(l2.cond)
  BY <1>1, <1>3
<1>6. \E b \in 1 .. Len(l2.cond) :
        \A i \in 1 .. Len(l2.cond) : l2.cond[i].was <=> i > b
  BY <1>4, <1>5
<1>7. CASE l2.raw
  BY <1>6, <1>7 DEF LevelsOK
<1>8. CASE ~l2.raw
  <2>1. \A i \in 1 .. Len(l2.cond) : ~l2.cond[i].was
    BY <1>3
  <2> QED
    BY <2>1, <1>8 DEF LevelsOK
<1> QED
  BY <1>7, <1>8

(* A nested conditional inside a block that is skipped. *)
LEMMA PushSkipped ==
  ASSUME NEW l \in Lexer, l.raw, LevelsOK(l),
         NEW lev \in Level, lev.was,
         NEW l2 \in Lexer, l2.cond = Append(l.cond, lev), l2.raw
  PROVE  LevelsOK(l2)
<1>1. l.cond \in Seq(Level)
  BY LexerParts
<1>2. PICK b \in 1 .. Len(l.cond) :
        \A i \in 1 .. Len(l.cond) : l.cond[i].was <=> i > b
  BY DEF LevelsOK
<1>3. Len(l2.cond) = Len(l.cond) + 1
  BY <1>1
<1>4. \A i \in 1 .. Len(l2.cond) : l2.cond[i].was <=> i > b
  BY <1>1, <1>2, <1>3
<1>5. b \in 1 .. Len(l2.cond)
  BY <1>1, <1>2, <1>3
<1>6. \E c \in 1 .. Len(l2.cond) :
        \A i \in 1 .. Len(l2.cond) : l2.cond[i].was <=> i > c
  BY <1>4, <1>5
<1> QED
  BY <1>6 DEF LevelsOK

(* Leaving the innermost conditional while not skipping. *)
LEMMA PopLevel ==
  ASSUME NEW l \in Lexer, ~l.raw, LevelsOK(l), l.cond # <<>>,
         NEW l2 \in Lexer, l2.cond = Front(l.cond), ~l2.raw
  PROVE  LevelsOK(l2)
<1>1. l.cond \in Seq(Level)
  BY LexerParts
<1>2. /\ Len(l.cond) \in Nat
      /\ Len(l2.cond) = Len(l.cond) - 1
      /\ \A i \in 1 .. Len(l.cond) - 1 : l2.cond[i] = l.cond[i]
  BY <1>1, FrontLast
<1>3. \A i \in 1 .. Len(l.cond) : ~l.cond[i].was
  BY DEF LevelsOK
<1> QED
  BY <1>2, <1>3 DEF LevelsOK

(* An #endif in a skipped block: skipping goes on exactly when the         *)
(* conditional it ends was itself skipped.                                 *)
LEMMA PopSkipped ==
  ASSUME NEW l \in Lexer, l.raw, LevelsOK(l),
         NEW l2 \in Lexer, l2.cond = Front(l.cond),
         l2.raw = Last(l.cond).was
  PROVE  LevelsOK(l2) /\ l.cond # <<>>
<1>1. l.cond \in Seq(Level)
  BY LexerParts
<1>2. PICK b \in 1 .. Len(l.cond) :
        \A i \in 1 .. Len(l.cond) : l.cond[i].was <=> i > b
  BY DEF LevelsOK
<1>3. l.cond # <<>>
  BY <1>1, <1>2
<1>4. /\ Len(l.cond) \in Nat \ {0}
      /\ Len(l2.cond) = Len(l.cond) - 1
      /\ \A i \in 1 .. Len(l.cond) - 1 : l2.cond[i] = l.cond[i]
      /\ Last(l.cond) = l.cond[Len(l.cond)]
  BY <1>1, <1>3, FrontLast
<1>5. \A i \in 1 .. Len(l2.cond) : l2.cond[i].was <=> i > b
  BY <1>2, <1>4
<1>6. CASE l2.raw
  <2>1. b \in 1 .. Len(l2.cond)
    BY <1>2, <1>4, <1>6
  <2> QED
    BY <2>1, <1>3, <1>5, <1>6 DEF LevelsOK
<1>7. CASE ~l2.raw
  <2>1. b = Len(l.cond)
    BY <1>2, <1>4, <1>7
  <2>2. \A i \in 1 .. Len(l2.cond) : ~l2.cond[i].was
    BY <1>4, <1>5, <2>1
  <2> QED
    BY <2>2, <1>3, <1>7 DEF LevelsOK
<1>8. l2.raw \in BOOLEAN
  BY LexerParts
<1> QED
  BY <1>6, <1>7, <1>8

(* An #else or #elif in a skipped block: skipping ends only in the         *)
(* conditional that started it.                                            *)
LEMMA TurnSkipped ==
  ASSUME NEW l \in Lexer, l.raw, LevelsOK(l),
         NEW lev \in Level, lev.was = Last(l.cond).was,
         NEW l2 \in Lexer,
         l2.cond = [l.cond EXCEPT ![Len(l.cond)] = lev],
         ~l2.raw => ~lev.was
  PROVE  LevelsOK(l2) /\ l.cond # <<>> /\ Len(l2.cond) = Len(l.cond)
<1>1. l.cond \in Seq(Level) /\ l2.raw \in BOOLEAN
  BY LexerParts
<1>2. PICK b \in 1 .. Len(l.cond) :
        \A i \in 1 .. Len(l.cond) : l.cond[i].was <=> i > b
  BY DEF LevelsOK
<1>3. l.cond # <<>>
  BY <1>1, <1>2
<1>4. Last(l.cond) = l.cond[Len(l.cond)] /\ Len(l.cond) \in Nat \ {0}
  BY <1>1, <1>3, FrontLast
<1>5. Len(l2.cond) = Len(l.cond)
  BY <1>1
<1>6. \A i \in 1 .. Len(l2.cond) : l2.cond[i].was <=> i > b
  BY <1>1, <1>2, <1>4, <1>5
<1>7. CASE l2.raw
  BY <1>2, <1>3, <1>5, <1>6, <1>7 DEF LevelsOK
<1>8. CASE ~l2.raw
  <2>1. b = Len(l.cond)
    BY <1>2, <1>4, <1>8
  <2>2. \A i \in 1 .. Len(l2.cond) : ~l2.cond[i].was
    BY <1>4, <1>5, <1>6, <2>1
  <2> QED
    BY <2>2, <1>3, <1>5, <1>8 DEF LevelsOK
<1> QED
  BY <1>1, <1>7, <1>8

-----------------------------------------------------------------------------
(* The inductive invariant.                                                *)

IInv ==
  /\ TypeOK
  /\ SkippingOnlyInRawMode
  /\ LexOK(text[cur.file], cur)
  /\ \A i \in 1 .. Len(inc) : LexOK(text[inc[i].file], inc[i])
  /\ ControllingMacroWraps

(* The line at hand, and the lexer after it. *)
LEMMA Reading ==
  ASSUME IInv, ~AtEnd
  PROVE  /\ cur \in Lexer
         /\ text[cur.file] \in Seq(Line)
         /\ LexOK(text[cur.file], cur)
         /\ LevelsOK(cur)
         /\ cur.pos < Len(text[cur.file])
         /\ Here = text[cur.file][cur.pos + 1]
         /\ Here \in Line
<1>1. cur \in Lexer /\ text[cur.file] \in Seq(Line)
  BY DEF IInv, TypeOK, Lexer
<1>2. LexOK(text[cur.file], cur) /\ LevelsOK(cur)
  BY DEF IInv, SkippingOnlyInRawMode
<1>3. cur.pos \in Nat /\ Len(text[cur.file]) \in Nat
  BY <1>1, LexerParts
<1>4. cur.pos < Len(text[cur.file])
  BY <1>2, <1>3 DEF AtEnd, LexOK
<1>5. text[cur.file][cur.pos + 1] \in Line
  BY <1>1, <1>3, <1>4
<1> QED
  BY <1>1, <1>2, <1>4, <1>5 DEF Here

LEMMA LineArg ==
  ASSUME NEW ln \in Line
  PROVE  /\ ln.k \in Kinds
         /\ ln.k # "include" => ln.arg \in Macros \cup {None}
         /\ ln.k = "include" => ln.arg \in Files \cup {None}
  BY DEF Line, Kinds

(* A step that changes only the current lexer, the macros and the output. *)
LEMMA LexerStep ==
  ASSUME IInv, text' = text, inc' = inc, ctrl' = ctrl, eof' = eof,
         cur' \in Lexer, cur'.file = cur.file,
         LexOK(text[cur.file], cur'), LevelsOK(cur'),
         macros' \subseteq Macros, out' \in Seq(Event)
  PROVE  IInv'
<1>1. TypeOK'
  BY DEF IInv, TypeOK
<1>2. SkippingOnlyInRawMode'
  BY DEF IInv, SkippingOnlyInRawMode
<1>3. ControllingMacroWraps'
  BY DEF IInv, ControllingMacroWraps
<1> QED
  BY <1>1, <1>2, <1>3 DEF IInv

LEMMA OutputTypes ==
  ASSUME out \in Seq(Event)
  PROVE  /\ \A m \in Macros \cup {None} :
              /\ Append(out, Token(m)) \in Seq(Event)
              /\ Append(out, <<"expansion", m>>) \in Seq(Event)
         /\ \A d \in Diags : Append(out, Diag(d)) \in Seq(Event)
         /\ \A ln : out \o EvaluationDiag(ln) \in Seq(Event)
         /\ \A c \in Seq(Level) : out \o Unterminated(c) \in Seq(Event)
<1>1. \A m \in Macros \cup {None} :
        Token(m) \in Event /\ <<"expansion", m>> \in Event
  BY DEF Token, Event
<1>2. \A d \in Diags : Diag(d) \in Event
  BY DEF Diag, Event
<1>3. \A ln : EvaluationDiag(ln) \in Seq(Event)
  BY <1>2 DEF EvaluationDiag, Diags
<1>4. ASSUME NEW c \in Seq(Level)
      PROVE  Unterminated(c) \in Seq(Event)
  <2>1. Diag("unterminated") \in Event
    BY <1>2 DEF Diags
  <2>2. Unterminated(c) \in [1 .. Len(c) -> Event] /\ Len(c) \in Nat
    BY <2>1 DEF Unterminated
  <2> QED
    BY <2>2
<1> QED
  BY <1>1, <1>2, <1>3, <1>4

-----------------------------------------------------------------------------
(* One lemma per handler.                                                  *)

LEMMA TextStep ==
  ASSUME IInv, LexText \/ LexIdentifier \/ HandleDefineDirective
               \/ HandleUndefDirective
  PROVE  IInv'
<1> DEFINE t == text[cur.file]
<1>1. ~AtEnd /\ ~cur.raw /\ Here.k \in {"text", "use", "define", "undef"}
  BY DEF LexText, LexIdentifier, HandleDefineDirective, HandleUndefDirective,
         AtLine
<1>2. /\ cur \in Lexer /\ t \in Seq(Line) /\ LexOK(t, cur) /\ LevelsOK(cur)
      /\ cur.pos < Len(t) /\ Here = t[cur.pos + 1] /\ Here \in Line
  BY <1>1, Reading
<1>3. Here.arg \in Macros \cup {None} /\ ~Opens(Here) /\ ~Closes(Here)
  BY <1>1, <1>2, LineArg DEF Opens, Closes
<1>4. /\ Advance(cur) \in Lexer
      /\ Advance(cur).file = cur.file
      /\ Advance(cur).pos = cur.pos + 1
      /\ Advance(cur).cond = cur.cond
      /\ Advance(cur).raw = cur.raw
      /\ Advance(cur).mi \in MIOptState
      /\ Advance(cur).mi.any
      /\ Advance(cur).mi.macro = cur.mi.macro
  BY <1>2, AdvanceFields
<1>5. /\ ExpandedMacro(Advance(cur).mi) \in MIOptState
      /\ ExpandedMacro(Advance(cur).mi).any
      /\ ExpandedMacro(Advance(cur).mi).macro = cur.mi.macro
  BY <1>4 DEF MIOptState, ExpandedMacro
<1>6. /\ AfterExpanding(Advance(cur)) \in Lexer
      /\ AfterExpanding(Advance(cur)).file = cur.file
      /\ AfterExpanding(Advance(cur)).pos = cur.pos + 1
      /\ AfterExpanding(Advance(cur)).cond = cur.cond
      /\ AfterExpanding(Advance(cur)).raw = cur.raw
      /\ AfterExpanding(Advance(cur)).mi.any
      /\ AfterExpanding(Advance(cur)).mi.macro = cur.mi.macro
  BY <1>4, <1>5, SetMI DEF AfterExpanding
<1>7. cur' \in {Advance(cur), AfterExpanding(Advance(cur))}
  BY DEF LexText, LexIdentifier, HandleDefineDirective, HandleUndefDirective
<1>8. /\ cur' \in Lexer /\ cur'.file = cur.file /\ cur'.pos = cur.pos + 1
      /\ cur'.cond = cur.cond /\ cur'.raw = cur.raw /\ cur'.mi.any
      /\ cur'.mi.macro = cur.mi.macro
  BY <1>4, <1>6, <1>7
<1>9. LexOK(t, cur')
  BY <1>2, <1>3, <1>8, PlainLine
<1>10. LevelsOK(cur')
  BY <1>2, <1>8 DEF LevelsOK
<1>11. out' \in Seq(Event) /\ macros' \subseteq Macros
  <2>1. out \in Seq(Event) /\ macros \subseteq Macros
    BY DEF IInv, TypeOK
  <2>2. "missing_name" \in Diags
    BY DEF Diags
  <2> QED
    BY <1>3, <2>1, <2>2, OutputTypes
    DEF LexText, LexIdentifier, HandleDefineDirective, HandleUndefDirective
<1>12. text' = text /\ inc' = inc /\ ctrl' = ctrl /\ eof' = eof
  BY DEF LexText, LexIdentifier, HandleDefineDirective, HandleUndefDirective
<1> QED
  BY <1>8, <1>9, <1>10, <1>11, <1>12, LexerStep

(* The lexer after a conditional has been announced to the machine. *)
LEMMA Announced ==
  ASSUME NEW l \in Lexer, NEW before \in BOOLEAN,
         NEW guard \in Macros \cup {None}
  PROVE  LET a == AtConditional(l, before, guard)
         IN /\ a \in Lexer
            /\ a.file = l.file /\ a.pos = l.pos
            /\ a.cond = l.cond /\ a.raw = l.raw
            /\ l.mi.any => a.mi.any
            /\ l.cond # <<>> => a.mi.macro = l.mi.macro
            /\ l.cond = <<>> => \/ a.mi.macro = None
                               \/ /\ ~before /\ guard # None
                                  /\ a.mi.macro = guard
                                  /\ l.mi.macro = None /\ ~l.mi.did
<1>1. l.mi \in MIOptState
  BY LexerParts
<1>2. CASE l.cond # <<>>
  BY <1>2 DEF AtConditional
<1>3. CASE l.cond = <<>> /\ ~before /\ guard # None
  <2>1. guard \in Macros
    BY <1>3
  <2>2. /\ EnterTopLevelIFNDEF(l.mi, guard) \in MIOptState
        /\ EnterTopLevelIFNDEF(l.mi, guard).any
        /\ EnterTopLevelIFNDEF(l.mi, guard).macro \in {None, guard}
        /\ l.mi.did => EnterTopLevelIFNDEF(l.mi, guard).macro = None
        /\ l.mi.macro # None => EnterTopLevelIFNDEF(l.mi, guard).macro = None
    BY <1>1, <2>1, MIOptTransitions
  <2>3. AtConditional(l, before, guard)
          = WithMI(l, EnterTopLevelIFNDEF(l.mi, guard))
    BY <1>3 DEF AtConditional
  <2> DEFINE a == AtConditional(l, before, guard)
  <2>4. /\ a \in Lexer
        /\ a.file = l.file /\ a.pos = l.pos
        /\ a.cond = l.cond /\ a.raw = l.raw
        /\ a.mi = EnterTopLevelIFNDEF(l.mi, guard)
    BY <2>2, <2>3, SetMI
  <2>5. a.mi.macro # None => /\ a.mi.macro = guard
                            /\ l.mi.macro = None /\ ~l.mi.did
    BY <2>2, <2>4
  <2> HIDE DEF a
  <2>6. a.mi.any
    BY <2>2, <2>4
  <2> QED
    BY <1>3, <2>4, <2>5, <2>6 DEF a
<1>4. CASE l.cond = <<>> /\ ~(~before /\ guard # None)
  <2>1. /\ EnterTopLevelConditional(l.mi) \in MIOptState
        /\ EnterTopLevelConditional(l.mi).any
        /\ EnterTopLevelConditional(l.mi).macro = None
    BY <1>1 DEF MIOptState, EnterTopLevelConditional, Invalidate
  <2>2. AtConditional(l, before, guard)
          = WithMI(l, EnterTopLevelConditional(l.mi))
    BY <1>4 DEF AtConditional
  <2> QED
    BY <1>4, <2>1, <2>2, SetMI
<1> QED
  BY <1>2, <1>3, <1>4

(* The lexer after a block is entered, or starts to be skipped. *)
LEMMA Pushed ==
  ASSUME NEW l \in Lexer, ~l.raw, LevelsOK(l),
         NEW found \in BOOLEAN, NEW els \in BOOLEAN,
         NEW l2, l2 \in {EnterBlock(l), SkipBlock(l, found, els)}
  PROVE  /\ l2 \in Lexer /\ LevelsOK(l2)
         /\ l2.file = l.file /\ l2.pos = l.pos /\ l2.mi = l.mi
         /\ Len(l2.cond) = Len(l.cond) + 1
<1>1. l.cond \in Seq(Level)
  BY LexerParts
<1>2. PICK lev \in Level : /\ ~lev.was
                          /\ l2 \in {WithCond(l, Append(l.cond, lev)),
                               WithRaw(WithCond(l, Append(l.cond, lev)), TRUE)}
  BY LevelOfType DEF EnterBlock, SkipBlock
<1>3. Append(l.cond, lev) \in Seq(Level)
      /\ Len(Append(l.cond, lev)) = Len(l.cond) + 1
  BY <1>1
<1> DEFINE p == WithCond(l, Append(l.cond, lev))
<1>4. /\ p \in Lexer /\ p.file = l.file /\ p.pos = l.pos /\ p.mi = l.mi
      /\ p.cond = Append(l.cond, lev)
  BY <1>3, SetCond
<1> HIDE DEF p
<1>5. LET r == WithRaw(p, TRUE)
      IN /\ r \in Lexer /\ r.file = l.file /\ r.pos = l.pos /\ r.mi = l.mi
         /\ r.cond = Append(l.cond, lev)
  BY <1>4, SetRaw
<1>6. /\ l2 \in Lexer /\ l2.file = l.file /\ l2.pos = l.pos /\ l2.mi = l.mi
      /\ l2.cond = Append(l.cond, lev)
  BY <1>2, <1>4, <1>5 DEF p
<1> QED
  BY <1>2, <1>3, <1>6, PushLevel

LEMMA IfdefStep ==
  ASSUME IInv, HandleIfdefDirective
  PROVE  IInv'
<1> DEFINE t == text[cur.file]
           a == Advance(cur)
<1>1. PICK k \in {"ifdef", "ifndef"} :
        /\ AtLine(k)
        /\ IF Here.arg = None
           THEN /\ cur' = SkipBlock(a, FALSE, FALSE)
                /\ out' = Append(out, Diag("missing_name"))
           ELSE LET guard == IF k = "ifndef" THEN Here.arg ELSE None
                    l == AtConditional(a, cur.mi.any, guard)
                IN /\ cur' = IF (Here.arg \notin macros) = (k = "ifndef")
                             THEN EnterBlock(l)
                             ELSE SkipBlock(l, FALSE, FALSE)
                   /\ UNCHANGED out
        /\ UNCHANGED <<text, inc, eof, macros, ctrl>>
  BY DEF HandleIfdefDirective
<1>2. ~AtEnd /\ ~cur.raw /\ Here.k = k
  BY <1>1 DEF AtLine
<1>3. /\ cur \in Lexer /\ t \in Seq(Line) /\ LexOK(t, cur) /\ LevelsOK(cur)
      /\ cur.pos < Len(t) /\ Here = t[cur.pos + 1] /\ Here \in Line
  BY <1>2, Reading
<1>4. Here.arg \in Macros \cup {None} /\ Opens(Here)
  BY <1>1, <1>2, <1>3, LineArg DEF Opens
<1>5. /\ a \in Lexer /\ a.file = cur.file /\ a.pos = cur.pos + 1
      /\ a.cond = cur.cond /\ ~a.raw /\ a.mi.any
      /\ a.mi.macro = cur.mi.macro
  BY <1>2, <1>3, AdvanceFields
<1>6. LevelsOK(a)
  BY <1>3, <1>5, <1>2 DEF LevelsOK
<1> HIDE DEF a
<1>7. CASE Here.arg = None
  <2>1. cur' = SkipBlock(a, FALSE, FALSE)
    BY <1>1, <1>7
  <2>2. /\ cur' \in Lexer /\ LevelsOK(cur')
        /\ cur'.file = a.file /\ cur'.pos = a.pos /\ cur'.mi = a.mi
        /\ Len(cur'.cond) = Len(a.cond) + 1
    BY <1>5, <1>6, <2>1, Pushed
  <2>3. ~AllNamed(t)
    <3>1. cur.pos + 1 \in 1 .. Len(t)
      BY <1>3, LexerParts
    <3> QED
      BY <3>1, <1>1, <1>2, <1>3, <1>7 DEF AllNamed
  <2>4. LexOK(t, cur')
    BY <1>3, <1>4, <1>5, <2>2, <2>3, OpeningLine
  <2>5. out' \in Seq(Event) /\ macros' \subseteq Macros
    <3>1. out \in Seq(Event) /\ macros \subseteq Macros
      BY DEF IInv, TypeOK
    <3>2. "missing_name" \in Diags
      BY DEF Diags
    <3> QED
      BY <1>1, <1>7, <3>1, <3>2, OutputTypes
  <2> QED
    BY <1>1, <1>5, <2>2, <2>4, <2>5, LexerStep
<1>8. CASE Here.arg # None
  <2> DEFINE guard == IF k = "ifndef" THEN Here.arg ELSE None
             l == AtConditional(a, cur.mi.any, guard)
  <2>1. guard \in Macros \cup {None} /\ cur.mi.any \in BOOLEAN
    BY <1>3, <1>4, LexerParts
  <2>2. guard # None => Guards(Here, guard)
    BY <1>2, <1>4 DEF Guards
  <2>3. cur' \in {EnterBlock(l), SkipBlock(l, FALSE, FALSE)}
    BY <1>1, <1>8
  <2> HIDE DEF guard
  <2>4. /\ l \in Lexer
        /\ l.file = a.file /\ l.pos = a.pos
        /\ l.cond = a.cond /\ l.raw = a.raw
        /\ l.mi.any
        /\ a.cond # <<>> => l.mi.macro = a.mi.macro
        /\ a.cond = <<>> => \/ l.mi.macro = None
                           \/ /\ ~cur.mi.any /\ guard # None
                              /\ l.mi.macro = guard
                              /\ a.mi.macro = None
    BY <1>5, <2>1, Announced
  <2> HIDE DEF l
  <2>5. LevelsOK(l)
    BY <1>5, <1>6, <2>4 DEF LevelsOK
  <2>6. /\ cur' \in Lexer /\ LevelsOK(cur')
        /\ cur'.file = l.file /\ cur'.pos = l.pos /\ cur'.mi = l.mi
        /\ Len(cur'.cond) = Len(l.cond) + 1
    <3>1. l \in Lexer /\ ~l.raw
      BY <1>5, <2>4
    <3>2. PICK n : n = cur'
      OBVIOUS
    <3>3. PICK no \in BOOLEAN : no = FALSE
      OBVIOUS
    <3>4. n \in {EnterBlock(l), SkipBlock(l, no, no)}
      BY <2>3, <3>2, <3>3
    <3>5. /\ n \in Lexer /\ LevelsOK(n)
          /\ n.file = l.file /\ n.pos = l.pos /\ n.mi = l.mi
          /\ Len(n.cond) = Len(l.cond) + 1
      BY <3>1, <3>4, <2>5, Pushed
    <3> QED
      BY <3>2, <3>5
  <2>7. LexOK(t, cur')
    BY <1>3, <1>4, <1>5, <2>2, <2>4, <2>6, OpeningLine
  <2>8. out' \in Seq(Event) /\ macros' \subseteq Macros
    BY <1>1, <1>8 DEF IInv, TypeOK
  <2> QED
    BY <1>1, <1>5, <2>4, <2>6, <2>7, <2>8, LexerStep
<1> QED
  BY <1>7, <1>8

LEMMA IfStep ==
  ASSUME IInv, HandleIfDirective
  PROVE  IInv'
<1> DEFINE t == text[cur.file]
           a == Advance(cur)
           e == AfterEvaluating(a, Here)
           guard == IF Here.form \in {"notdefined", "expanded"}
                    THEN Here.arg ELSE None
           l == AtConditional(e, cur.mi.any, guard)
<1>1. ~AtEnd /\ ~cur.raw /\ Here.k = "if"
  BY DEF HandleIfDirective, AtLine
<1>2. /\ cur' \in {EnterBlock(l), SkipBlock(l, FALSE, FALSE)}
      /\ out' = out \o EvaluationDiag(Here)
      /\ UNCHANGED <<text, inc, eof, macros, ctrl>>
  BY DEF HandleIfDirective
<1>3. /\ cur \in Lexer /\ t \in Seq(Line) /\ LexOK(t, cur) /\ LevelsOK(cur)
      /\ cur.pos < Len(t) /\ Here = t[cur.pos + 1] /\ Here \in Line
  BY <1>1, Reading
<1>4. Here.arg \in Macros \cup {None} /\ Opens(Here)
  BY <1>1, <1>3, LineArg DEF Opens
<1>5. guard \in Macros \cup {None} /\ cur.mi.any \in BOOLEAN
  BY <1>3, <1>4, LexerParts
<1>6. guard # None => \/ Here.form = "expanded"
                     \/ Guards(Here, guard)
  BY <1>1, <1>4 DEF Guards
<1>7. /\ a \in Lexer /\ a.file = cur.file /\ a.pos = cur.pos + 1
      /\ a.cond = cur.cond /\ ~a.raw /\ a.mi.any /\ a.mi \in MIOptState
      /\ a.mi.macro = cur.mi.macro
  BY <1>1, <1>3, AdvanceFields
<1> HIDE DEF a, guard
<1>8. /\ e \in Lexer /\ e.file = cur.file /\ e.pos = cur.pos + 1
      /\ e.cond = cur.cond /\ ~e.raw /\ e.mi.any
      /\ e.mi.macro = cur.mi.macro
      /\ Here.form = "expanded" => e.mi.did
  <2>1. /\ ExpandedMacro(a.mi) \in MIOptState
        /\ ExpandedMacro(a.mi).any
        /\ ExpandedMacro(a.mi).did
        /\ ExpandedMacro(a.mi).macro = cur.mi.macro
    BY <1>7 DEF MIOptState, ExpandedMacro
  <2>2. CASE Here.form = "expanded"
    <3>1. e = WithMI(a, ExpandedMacro(a.mi))
      BY <2>2 DEF AfterEvaluating, Expands, AfterExpanding
    <3> QED
      BY <3>1, <2>1, <1>7, SetMI
  <2>3. CASE Here.form # "expanded"
    BY <2>3, <1>7 DEF AfterEvaluating, Expands
  <2> QED
    BY <2>2, <2>3
<1> HIDE DEF e
<1>9. /\ l \in Lexer
      /\ l.file = e.file /\ l.pos = e.pos
      /\ l.cond = e.cond /\ l.raw = e.raw
      /\ l.mi.any
      /\ e.cond # <<>> => l.mi.macro = e.mi.macro
      /\ e.cond = <<>> => \/ l.mi.macro = None
                         \/ /\ ~cur.mi.any /\ guard # None
                            /\ l.mi.macro = guard
                            /\ e.mi.macro = None /\ ~e.mi.did
  BY <1>5, <1>8, Announced
<1> HIDE DEF l
<1>10. LevelsOK(l) /\ ~l.raw
  BY <1>1, <1>3, <1>8, <1>9 DEF LevelsOK
<1>11. /\ cur' \in Lexer /\ LevelsOK(cur')
       /\ cur'.file = l.file /\ cur'.pos = l.pos /\ cur'.mi = l.mi
       /\ Len(cur'.cond) = Len(l.cond) + 1
  <2>1. l \in Lexer
    BY <1>9
  <2>2. cur' \in {EnterBlock(l), SkipBlock(l, FALSE, FALSE)}
    BY <1>2
  <2>3. PICK n : n = cur'
    OBVIOUS
  <2>4. PICK no \in BOOLEAN : no = FALSE
    OBVIOUS
  <2>5. n \in {EnterBlock(l), SkipBlock(l, no, no)}
    BY <2>2, <2>3, <2>4
  <2>6. /\ n \in Lexer /\ LevelsOK(n)
        /\ n.file = l.file /\ n.pos = l.pos /\ n.mi = l.mi
        /\ Len(n.cond) = Len(l.cond) + 1
    BY <2>1, <2>5, <1>10, Pushed
  <2> QED
    BY <2>3, <2>6
<1>12. LexOK(t, cur')
  <2>1. \/ cur.cond # <<>> /\ cur'.mi.macro = cur.mi.macro
        \/ cur'.mi.macro = None
        \/ ~cur.mi.any /\ cur.mi.macro = None
           /\ Guards(Here, cur'.mi.macro)
    BY <1>6, <1>8, <1>9, <1>11
  <2>2. /\ cur'.pos = cur.pos + 1 /\ cur'.mi.any
        /\ Len(cur'.cond) = Len(cur.cond) + 1
    BY <1>8, <1>9, <1>11
  <2> QED
    BY <2>1, <2>2, <1>3, <1>4, <1>11, OpeningLine
<1>13. out' \in Seq(Event) /\ macros' \subseteq Macros
  <2>1. out \in Seq(Event) /\ macros \subseteq Macros
    BY DEF IInv, TypeOK
  <2> QED
    BY <1>2, <2>1, OutputTypes
<1> QED
  BY <1>2, <1>8, <1>9, <1>11, <1>12, <1>13, LexerStep

(* #else and #elif met while reading. *)
LEMMA AlternativeStep ==
  ASSUME IInv, HandleElseDirective \/ HandleElifDirective
  PROVE  IInv'
<1> DEFINE t == text[cur.file]
           a == Advance(cur)
           f == WithCond(a, Front(cur.cond))
           g == AtAlternative(f)
<1>1. /\ ~AtEnd /\ ~cur.raw /\ Here.k \in {"else", "elif"}
      /\ UNCHANGED <<text, inc, eof, macros, ctrl>>
  BY DEF HandleElseDirective, HandleElifDirective, HandleAlternative, AtLine
<1>2. /\ cur \in Lexer /\ t \in Seq(Line) /\ LexOK(t, cur) /\ LevelsOK(cur)
      /\ cur.pos < Len(t) /\ Here = t[cur.pos + 1] /\ Here \in Line
  BY <1>1, Reading
<1>3. ~Opens(Here) /\ ~Closes(Here)
  BY <1>1 DEF Opens, Closes
<1>4. /\ a \in Lexer /\ a.file = cur.file /\ a.pos = cur.pos + 1
      /\ a.cond = cur.cond /\ ~a.raw /\ a.mi.any /\ a.mi \in MIOptState
      /\ a.mi.macro = cur.mi.macro
  BY <1>1, <1>2, AdvanceFields
<1>5. out' \in Seq(Event) /\ macros' \subseteq Macros
  <2>1. out \in Seq(Event) /\ macros \subseteq Macros
    BY DEF IInv, TypeOK
  <2>2. \A d \in Diags : Append(out, Diag(d)) \in Seq(Event)
    BY <2>1, OutputTypes
  <2>3. {"else_without_if", "elif_without_if", "else_after_else",
         "elif_after_else"} \subseteq Diags
    BY DEF Diags
  <2>4. \/ out' = out \/ \E d \in Diags : out' = Append(out, Diag(d))
    BY <2>3
    DEF HandleElseDirective, HandleElifDirective, HandleAlternative
  <2> QED
    BY <1>1, <2>1, <2>2, <2>4
<1>6. CASE cur.cond = <<>>
  <2>1. cur' = a
    BY <1>6 DEF HandleElseDirective, HandleElifDirective, HandleAlternative
  <2>2. LexOK(t, a) /\ LevelsOK(a)
    BY <1>1, <1>2, <1>3, <1>4, PlainLine DEF LevelsOK
  <2> QED
    BY <1>1, <1>4, <1>5, <2>1, <2>2, LexerStep
<1>7. CASE cur.cond # <<>>
  <2>1. cur.cond \in Seq(Level)
    BY <1>2, LexerParts
  <2>2. /\ Front(cur.cond) \in Seq(Level)
        /\ Len(Front(cur.cond)) = Len(cur.cond) - 1
        /\ Len(cur.cond) \in Nat \ {0}
        /\ Last(cur.cond).els \in BOOLEAN
    <3>1. /\ Front(cur.cond) \in Seq(Level)
          /\ Len(Front(cur.cond)) = Len(cur.cond) - 1
          /\ Len(cur.cond) \in Nat \ {0}
          /\ Last(cur.cond) \in Level
      BY <1>7, <2>1, FrontLast
    <3> QED
      BY <3>1 DEF Level
  <2>3. \E els \in BOOLEAN : cur' = SkipBlock(g, TRUE, els)
    BY <1>7, <2>2
    DEF HandleElseDirective, HandleElifDirective, HandleAlternative
  <2> HIDE DEF a
  <2>4. /\ f \in Lexer /\ f.file = a.file /\ f.pos = a.pos /\ f.mi = a.mi
        /\ f.raw = a.raw /\ f.cond = Front(cur.cond)
    BY <1>4, <2>2, SetCond
  <2>5. LevelsOK(f)
    BY <1>1, <1>2, <1>4, <1>7, <2>4, PopLevel
  <2> HIDE DEF f
  <2>6. /\ g \in Lexer /\ g.file = a.file /\ g.pos = a.pos
        /\ g.cond = f.cond /\ g.raw = a.raw /\ g.mi.any
        /\ g.mi.macro \in {cur.mi.macro, None}
    <3>1. CASE f.cond # <<>>
      BY <3>1, <2>4, <1>4 DEF AtAlternative
    <3>2. CASE f.cond = <<>>
      <4>1. /\ EnterTopLevelConditional(f.mi) \in MIOptState
            /\ EnterTopLevelConditional(f.mi).any
            /\ EnterTopLevelConditional(f.mi).macro = None
        BY <1>4, <2>4 DEF MIOptState, EnterTopLevelConditional, Invalidate
      <4>2. g = WithMI(f, EnterTopLevelConditional(f.mi))
        BY <3>2 DEF AtAlternative
      <4> QED
        BY <4>1, <4>2, <2>4, SetMI
    <3> QED
      BY <3>1, <3>2
  <2> HIDE DEF g
  <2>7. LevelsOK(g) /\ ~g.raw
    BY <1>4, <2>4, <2>5, <2>6 DEF LevelsOK
  <2>8. /\ cur' \in Lexer /\ LevelsOK(cur')
        /\ cur'.file = g.file /\ cur'.pos = g.pos /\ cur'.mi = g.mi
        /\ Len(cur'.cond) = Len(g.cond) + 1
    <3>1. g \in Lexer
      BY <2>6
    <3>2. PICK els \in BOOLEAN : cur' = SkipBlock(g, TRUE, els)
      BY <2>3
    <3> QED
      BY <3>1, <3>2, <2>7, Pushed
  <2>9. LexOK(t, cur')
    <3>1. /\ cur'.pos = cur.pos + 1 /\ cur'.mi.any
          /\ cur'.mi.macro \in {cur.mi.macro, None}
          /\ Len(cur'.cond) = Len(cur.cond)
      BY <1>4, <2>2, <2>4, <2>6, <2>8
    <3> QED
      BY <3>1, <1>2, <1>3, <2>8, PlainLine
  <2> QED
    BY <1>1, <1>4, <1>5, <2>6, <2>8, <2>9, LexerStep
<1> QED
  BY <1>6, <1>7

LEMMA EndifStep ==
  ASSUME IInv, HandleEndifDirective
  PROVE  IInv'
<1> DEFINE t == text[cur.file]
           a == Advance(cur)
           f == WithCond(a, Front(cur.cond))
<1>1. /\ ~AtEnd /\ ~cur.raw /\ Here.k = "endif"
      /\ UNCHANGED <<text, inc, eof, macros, ctrl>>
  BY DEF HandleEndifDirective, AtLine
<1>2. /\ cur \in Lexer /\ t \in Seq(Line) /\ LexOK(t, cur) /\ LevelsOK(cur)
      /\ cur.pos < Len(t) /\ Here = t[cur.pos + 1]
  BY <1>1, Reading
<1>3. ~Opens(Here) /\ Closes(Here)
  BY <1>1 DEF Opens, Closes
<1>4. /\ a \in Lexer /\ a.file = cur.file /\ a.pos = cur.pos + 1
      /\ a.cond = cur.cond /\ ~a.raw /\ a.mi.any /\ a.mi \in MIOptState
      /\ a.mi.macro = cur.mi.macro
  BY <1>1, <1>2, AdvanceFields
<1>5. out' \in Seq(Event) /\ macros' \subseteq Macros
  <2>1. out \in Seq(Event) /\ macros \subseteq Macros
    BY DEF IInv, TypeOK
  <2>2. "endif_without_if" \in Diags
    BY DEF Diags
  <2> QED
    BY <1>1, <2>1, <2>2, OutputTypes DEF HandleEndifDirective
<1>6. CASE cur.cond = <<>>
  <2>1. cur' = a
    BY <1>6 DEF HandleEndifDirective
  <2>2. LexOK(t, a)
    <3>1. /\ a.pos <= Len(t) /\ a.pos >= 1
      BY <1>2, <1>4, LexerParts
    <3>2. a.mi.macro # None /\ AllNamed(t) => GuardSeen(t, a)
      BY <1>2, <1>4, <1>6, <3>1 DEF LexOK, GuardSeen
    <3> QED
      BY <1>4, <1>6, <3>1, <3>2 DEF LexOK
  <2>3. LevelsOK(a)
    BY <1>1, <1>2, <1>4 DEF LevelsOK
  <2> QED
    BY <1>1, <1>4, <1>5, <2>1, <2>2, <2>3, LexerStep
<1>7. CASE cur.cond # <<>>
  <2>1. cur.cond \in Seq(Level)
    BY <1>2, LexerParts
  <2>2. /\ Front(cur.cond) \in Seq(Level)
        /\ Len(Front(cur.cond)) = Len(cur.cond) - 1
    BY <1>7, <2>1, FrontLast
  <2>3. cur' = IF f.cond = <<>>
               THEN WithMI(f, ExitTopLevelConditional(f.mi)) ELSE f
    BY <1>7 DEF HandleEndifDirective
  <2> HIDE DEF a
  <2>4. /\ f \in Lexer /\ f.file = a.file /\ f.pos = a.pos /\ f.mi = a.mi
        /\ f.raw = a.raw /\ f.cond = Front(cur.cond)
    BY <1>4, <2>2, SetCond
  <2> HIDE DEF f
  <2>5. /\ ExitTopLevelConditional(f.mi) \in MIOptState
        /\ ExitTopLevelConditional(f.mi).macro = f.mi.macro
        /\ ExitTopLevelConditional(f.mi).any \/ f.mi.macro # None
    BY <1>4, <2>4 DEF MIOptState, ExitTopLevelConditional, Invalidate
  <2>6. /\ cur' \in Lexer /\ cur'.file = a.file /\ cur'.pos = a.pos
        /\ cur'.raw = a.raw /\ cur'.cond = f.cond
        /\ cur'.mi.macro = cur.mi.macro
        /\ cur'.mi.any \/ (cur'.cond = <<>> /\ cur.mi.macro # None)
    <3>1. CASE f.cond # <<>>
      BY <3>1, <2>3, <2>4, <1>4
    <3>2. CASE f.cond = <<>>
      <4>1. cur' = WithMI(f, ExitTopLevelConditional(f.mi))
        BY <3>2, <2>3
      <4> QED
        BY <4>1, <3>2, <2>4, <2>5, <1>4, SetMI
    <3> QED
      BY <3>1, <3>2
  <2>7. LevelsOK(cur')
    BY <1>1, <1>2, <1>4, <1>7, <2>4, <2>6, PopLevel
  <2>8. LexOK(t, cur')
    BY <1>2, <1>3, <1>4, <1>7, <2>2, <2>4, <2>6, ClosingLine
  <2> QED
    BY <1>1, <1>4, <1>5, <2>6, <2>7, <2>8, LexerStep
<1> QED
  BY <1>6, <1>7

(* The loop of SkipExcludedConditionalBlock. *)
LEMMA SkipStep ==
  ASSUME IInv, SkipOther \/ SkipIf \/ SkipEndif \/ SkipEndOfFile
  PROVE  IInv'
<1> DEFINE t == text[cur.file]
           a == Advance(cur)
<1>1. UNCHANGED <<text, inc, eof, macros, ctrl>> /\ cur.raw
  BY DEF SkipOther, SkipIf, SkipEndif, SkipEndOfFile, SkipLine
<1>2. out' \in Seq(Event) /\ macros' \subseteq Macros
  <2>1. out \in Seq(Event) /\ macros \subseteq Macros /\ cur \in Lexer
    BY DEF IInv, TypeOK
  <2>2. cur.cond \in Seq(Level)
    BY <2>1, LexerParts
  <2> QED
    BY <1>1, <2>1, <2>2, OutputTypes
    DEF SkipOther, SkipIf, SkipEndif, SkipEndOfFile
<1>3. ASSUME ~AtEnd
      PROVE  /\ cur \in Lexer /\ t \in Seq(Line) /\ LexOK(t, cur)
             /\ LevelsOK(cur) /\ cur.cond \in Seq(Level)
             /\ cur.pos < Len(t) /\ Here = t[cur.pos + 1]
             /\ a \in Lexer /\ a.file = cur.file /\ a.pos = cur.pos + 1
             /\ a.cond = cur.cond /\ a.raw /\ a.mi.any
             /\ a.mi.macro = cur.mi.macro
  BY <1>1, <1>3, Reading, AdvanceFields, LexerParts
<1>4. CASE SkipOther
  <2>1. ~AtEnd /\ ~Opens(Here) /\ ~Closes(Here) /\ cur' = a
    BY <1>4 DEF SkipOther, SkipLine, Opens, Closes
  <2>2. LexOK(t, a) /\ LevelsOK(a)
    BY <2>1, <1>1, <1>3, PlainLine DEF LevelsOK
  <2> QED
    BY <1>1, <1>2, <1>3, <2>1, <2>2, LexerStep
<1>5. CASE SkipIf
  <2>1. ~AtEnd /\ Opens(Here)
    BY <1>5 DEF SkipIf, SkipLine, Opens
  <2>2. PICK lev \in Level : lev.was /\ cur' = WithCond(a, Append(cur.cond, lev))
    BY <1>5, LevelOfType DEF SkipIf
  <2>3. /\ Append(cur.cond, lev) \in Seq(Level)
        /\ Len(Append(cur.cond, lev)) = Len(cur.cond) + 1
    BY <1>3, <2>1
  <2>4. a \in Lexer /\ cur \in Lexer
    BY <1>3, <2>1
  <2>5. /\ cur' \in Lexer /\ cur'.file = a.file /\ cur'.pos = a.pos
        /\ cur'.mi = a.mi /\ cur'.raw = a.raw
        /\ cur'.cond = Append(cur.cond, lev)
    BY <2>2, <2>3, <2>4, SetCond
  <2> HIDE DEF a
  <2>6. LevelsOK(cur')
    BY <1>1, <1>3, <2>1, <2>2, <2>4, <2>5, PushSkipped
  <2>7. cur.cond # <<>>
    BY <1>1, <1>3, <2>1 DEF LevelsOK
  <2>8. LexOK(t, cur')
    BY <1>3, <2>1, <2>3, <2>5, <2>7, OpeningLine
  <2> QED
    BY <1>1, <1>2, <1>3, <2>1, <2>5, <2>6, <2>8, LexerStep
<1>6. CASE SkipEndif
  <2>1. ~AtEnd /\ Closes(Here)
    BY <1>6 DEF SkipEndif, SkipLine, Closes
  <2>2. cur' = WithRaw(WithCond(a, Front(cur.cond)), Last(cur.cond).was)
    BY <1>6 DEF SkipEndif
  <2>3. cur.cond # <<>>
    BY <1>1, <1>3, <2>1 DEF LevelsOK
  <2>4. /\ Front(cur.cond) \in Seq(Level)
        /\ Len(Front(cur.cond)) = Len(cur.cond) - 1
        /\ Last(cur.cond) \in Level
    BY <1>3, <2>1, <2>3, FrontLast
  <2>5. Last(cur.cond).was \in BOOLEAN
    BY <2>4 DEF Level
  <2> DEFINE f == WithCond(a, Front(cur.cond))
  <2>6. a \in Lexer /\ cur \in Lexer
    BY <1>3, <2>1
  <2>7. /\ f \in Lexer /\ f.file = a.file /\ f.pos = a.pos /\ f.mi = a.mi
        /\ f.cond = Front(cur.cond)
    BY <2>4, <2>6, SetCond
  <2> HIDE DEF f, a
  <2>8. /\ cur' \in Lexer /\ cur'.file = a.file /\ cur'.pos = a.pos
        /\ cur'.mi = a.mi /\ cur'.raw = Last(cur.cond).was
        /\ cur'.cond = Front(cur.cond)
    BY <2>2, <2>5, <2>7, SetRaw DEF f
  <2>9. LevelsOK(cur')
    BY <1>1, <1>3, <2>1, <2>6, <2>8, PopSkipped
  <2>10. LexOK(t, cur')
    BY <1>3, <2>1, <2>3, <2>4, <2>8, ClosingLine
  <2> QED
    BY <1>1, <1>2, <1>3, <2>1, <2>8, <2>9, <2>10, LexerStep
<1>7. CASE SkipEndOfFile
  <2>1. cur' = WithRaw(WithCond(cur, <<>>), FALSE)
    BY <1>7 DEF SkipEndOfFile
  <2>2. cur \in Lexer /\ LexOK(t, cur) /\ LevelsOK(cur)
    BY DEF IInv, TypeOK, SkippingOnlyInRawMode
  <2>3. <<>> \in Seq(Level)
    OBVIOUS
  <2> DEFINE f == WithCond(cur, <<>>)
  <2>4. /\ f \in Lexer /\ f.file = cur.file /\ f.pos = cur.pos
        /\ f.mi = cur.mi /\ f.cond = <<>>
    BY <2>2, <2>3, SetCond
  <2> HIDE DEF f
  <2>5. /\ cur' \in Lexer /\ cur'.file = cur.file /\ cur'.pos = cur.pos
        /\ cur'.mi = cur.mi /\ ~cur'.raw /\ cur'.cond = <<>>
    BY <2>1, <2>4, SetRaw DEF f
  <2>6. cur.cond # <<>>
    BY <1>1, <2>2, LexerParts DEF LevelsOK
  <2>7. cur.mi.any
    BY <2>2, <2>6 DEF LexOK
  <2>8. LexOK(t, cur')
    BY <2>2, <2>5, <2>7 DEF LexOK, GuardSeen
  <2>9. LevelsOK(cur')
    BY <2>5 DEF LevelsOK
  <2> QED
    BY <1>1, <1>2, <2>5, <2>8, <2>9, LexerStep
<1> QED
  BY <1>4, <1>5, <1>6, <1>7

(* #else and #elif met while skipping. *)
LEMMA SkipTurnStep ==
  ASSUME IInv, SkipElse \/ SkipElif
  PROVE  IInv'
<1> DEFINE t == text[cur.file]
           a == Advance(cur)
           e == AfterEvaluating(a, Here)
<1>1. /\ UNCHANGED <<text, inc, eof, macros, ctrl>> /\ cur.raw /\ ~AtEnd
      /\ Here.k \in {"else", "elif"}
  BY DEF SkipElse, SkipElif, SkipLine
<1>2. /\ cur \in Lexer /\ t \in Seq(Line) /\ LexOK(t, cur)
      /\ LevelsOK(cur) /\ cur.cond \in Seq(Level)
      /\ cur.pos < Len(t) /\ Here = t[cur.pos + 1]
      /\ a \in Lexer /\ a.file = cur.file /\ a.pos = cur.pos + 1
      /\ a.cond = cur.cond /\ a.raw /\ a.mi.any /\ a.mi \in MIOptState
      /\ a.mi.macro = cur.mi.macro
  BY <1>1, Reading, AdvanceFields, LexerParts
<1>3. ~Opens(Here) /\ ~Closes(Here)
  BY <1>1 DEF Opens, Closes
<1>4. cur.cond # <<>>
  BY <1>1, <1>2 DEF LevelsOK
<1>5. Last(cur.cond) \in Level
  BY <1>2, <1>4, FrontLast
<1>6. /\ Last(cur.cond).was \in BOOLEAN /\ Last(cur.cond).found \in BOOLEAN
      /\ Last(cur.cond).els \in BOOLEAN
  BY <1>5 DEF Level
<1>7. /\ ExpandedMacro(a.mi) \in MIOptState
      /\ ExpandedMacro(a.mi).any
      /\ ExpandedMacro(a.mi).macro = cur.mi.macro
  BY <1>2 DEF MIOptState, ExpandedMacro
<1>8. \E l \in {a, e}, found \in BOOLEAN, els \in BOOLEAN, raw \in BOOLEAN :
        /\ cur' = WithRaw(SetTop(l, LevelOf(Last(cur.cond).was, found, els)), raw)
        /\ ~raw => ~Last(cur.cond).was
  <2>1. CASE SkipElse
    <3> DEFINE enter == ~Last(cur.cond).was /\ ~Last(cur.cond).found
    <3>1. cur' = WithRaw(SetTop(a, LevelOf(Last(cur.cond).was,
                            Last(cur.cond).found \/ enter, TRUE)), ~enter)
      BY <2>1 DEF SkipElse
    <3>2. (Last(cur.cond).found \/ enter) \in BOOLEAN /\ (~enter) \in BOOLEAN
      OBVIOUS
    <3> QED
      BY <3>1, <3>2
  <2>2. CASE SkipElif
    <3> DEFINE evaluated == ~Last(cur.cond).was /\ ~Last(cur.cond).found
               enter == evaluated /\ Holds(Here)
               l == IF evaluated THEN e ELSE a
    <3>1. cur' = WithRaw(SetTop(l, LevelOf(Last(cur.cond).was,
                           Last(cur.cond).found \/ enter,
                           Last(cur.cond).els)), ~enter)
      BY <2>2 DEF SkipElif
    <3>2. (Last(cur.cond).found \/ enter) \in BOOLEAN /\ (~enter) \in BOOLEAN
      OBVIOUS
    <3>3. l \in {a, e} /\ (~~enter => ~Last(cur.cond).was)
      OBVIOUS
    <3> HIDE DEF l, enter
    <3> QED
      BY <3>1, <3>2, <3>3, <1>6
  <2> QED
    BY <2>1, <2>2
<1> HIDE DEF a
<1>9. /\ e \in Lexer /\ e.file = cur.file /\ e.pos = cur.pos + 1
      /\ e.cond = cur.cond /\ e.mi.any /\ e.mi.macro = cur.mi.macro
  <2>1. CASE Expands(Here)
    <3>1. e = WithMI(a, ExpandedMacro(a.mi))
      BY <2>1 DEF AfterEvaluating, AfterExpanding
    <3> QED
      BY <3>1, <1>2, <1>7, SetMI
  <2>2. CASE ~Expands(Here)
    BY <2>2, <1>2 DEF AfterEvaluating
  <2> QED
    BY <2>1, <2>2
<1> HIDE DEF e
<1>10. PICK l \in {a, e}, found \in BOOLEAN, els \in BOOLEAN, raw \in BOOLEAN :
         /\ cur' = WithRaw(SetTop(l, LevelOf(Last(cur.cond).was, found, els)), raw)
         /\ ~raw => ~Last(cur.cond).was
  BY <1>8
<1>11. PICK lev \in Level : /\ lev = LevelOf(Last(cur.cond).was, found, els)
                           /\ lev.was = Last(cur.cond).was
  BY <1>6, LevelOfType
<1>12. /\ l \in Lexer /\ l.file = cur.file /\ l.pos = cur.pos + 1
       /\ l.cond = cur.cond /\ l.mi.any /\ l.mi.macro = cur.mi.macro
  BY <1>2, <1>9, <1>10
<1> DEFINE c == [cur.cond EXCEPT ![Len(cur.cond)] = lev]
<1>13. c \in Seq(Level)
  <2>1. Len(cur.cond) \in 1 .. Len(cur.cond)
    BY <1>2, <1>4, FrontLast
  <2> QED
    BY <1>2, <1>11, <2>1, ExceptSeq
<1>14. cur' = WithRaw(WithCond(l, c), raw)
  BY <1>10, <1>11, <1>12 DEF SetTop
<1> HIDE DEF c
<1> DEFINE f == WithCond(l, c)
<1>15. /\ f \in Lexer /\ f.file = l.file /\ f.pos = l.pos /\ f.mi = l.mi
       /\ f.cond = c
  BY <1>12, <1>13, SetCond
<1> HIDE DEF f
<1>16. /\ cur' \in Lexer /\ cur'.file = l.file /\ cur'.pos = l.pos
       /\ cur'.mi = l.mi /\ cur'.cond = c /\ cur'.raw = raw
  BY <1>14, <1>15, SetRaw DEF f
<1>17. LevelsOK(cur') /\ Len(cur'.cond) = Len(cur.cond)
  BY <1>1, <1>2, <1>10, <1>11, <1>16, TurnSkipped DEF c
<1>18. LexOK(t, cur')
  BY <1>2, <1>3, <1>12, <1>16, <1>17, PlainLine
<1>19. out' \in Seq(Event) /\ macros' \subseteq Macros
  <2>1. out \in Seq(Event) /\ macros \subseteq Macros
    BY DEF IInv, TypeOK
  <2>2. /\ Diag("else_after_else") \in Event /\ Diag("elif_after_else") \in Event
        /\ Diag("bad_expression") \in Event
    BY DEF Diag, Event, Diags
  <2>3. EvaluationDiag(Here) \in Seq(Event)
    BY <2>2 DEF EvaluationDiag
  <2>4. CASE SkipElse
    BY <2>4, <2>1, <2>2, <1>1 DEF SkipElse
  <2>5. CASE SkipElif
    <3> DEFINE ci == Last(cur.cond)
               evaluated == ~ci.was /\ ~ci.found
               s1 == IF evaluated THEN EvaluationDiag(Here) ELSE <<>>
               s2 == IF ci.els THEN <<Diag("elif_after_else")>> ELSE <<>>
    <3>1. out' = out \o s1 \o s2
      BY <2>5 DEF SkipElif
    <3>2. s1 \in Seq(Event) /\ s2 \in Seq(Event)
      BY <2>2, <2>3
    <3> HIDE DEF s1, s2
    <3> QED
      BY <3>1, <3>2, <2>1, <1>1
  <2> QED
    BY <2>4, <2>5
<1> QED
  BY <1>1, <1>12, <1>16, <1>17, <1>18, <1>19, LexerStep

LEMMA NewLexerType ==
  ASSUME NEW f \in Files, NEW t \in Seq(Line)
  PROVE  /\ NewLexer(f) \in Lexer /\ NewLexer(f).file = f
         /\ ~NewLexer(f).raw /\ LevelsOK(NewLexer(f)) /\ LexOK(t, NewLexer(f))
<1>1. /\ NewLexer(f).file = f /\ NewLexer(f).pos = 0
      /\ NewLexer(f).cond = <<>> /\ ~NewLexer(f).raw
      /\ NewLexer(f).mi.macro = None /\ ~NewLexer(f).mi.any
  BY DEF NewLexer, NewMIOpt
<1>2. NewLexer(f) \in Lexer
  BY DEF NewLexer, NewMIOpt, Lexer, MIOptState
<1>3. LevelsOK(NewLexer(f))
  BY <1>1 DEF LevelsOK
<1>4. LexOK(t, NewLexer(f))
  BY <1>1 DEF LexOK
<1> QED
  BY <1>1, <1>2, <1>3, <1>4

LEMMA IncludeStep ==
  ASSUME IInv, HandleIncludeDirective
  PROVE  IInv'
<1> DEFINE t == text[cur.file]
           a == Advance(cur)
<1>1. /\ UNCHANGED <<text, eof, macros, ctrl>> /\ ~cur.raw /\ ~AtEnd
      /\ Here.k = "include"
  BY DEF HandleIncludeDirective, AtLine
<1>2. /\ cur \in Lexer /\ t \in Seq(Line) /\ LexOK(t, cur)
      /\ LevelsOK(cur)
      /\ cur.pos < Len(t) /\ Here = t[cur.pos + 1]
      /\ a \in Lexer /\ a.file = cur.file /\ a.pos = cur.pos + 1
      /\ a.cond = cur.cond /\ ~a.raw /\ a.mi.any
      /\ a.mi.macro = cur.mi.macro
  BY <1>1, Reading, AdvanceFields
<1>3. ~Opens(Here) /\ ~Closes(Here) /\ Here.arg \in Files \cup {None}
  BY <1>1, Reading, LineArg DEF Opens, Closes
<1>4. LexOK(t, a) /\ LevelsOK(a)
  BY <1>1, <1>2, <1>3, PlainLine DEF LevelsOK
<1>5. out' \in Seq(Event) /\ macros' \subseteq Macros
  <2>1. out \in Seq(Event) /\ macros \subseteq Macros
    BY DEF IInv, TypeOK
  <2>2. "include_too_deep" \in Diags /\ "file_not_found" \in Diags
    BY DEF Diags
  <2> QED
    BY <1>1, <2>1, <2>2, OutputTypes DEF HandleIncludeDirective
<1>6. CASE cur' = a /\ inc' = inc
  BY <1>1, <1>2, <1>4, <1>5, <1>6, LexerStep
<1>7. CASE Here.arg \in Files /\ inc' = Append(inc, a)
           /\ cur' = NewLexer(Here.arg)
  <2>1. text \in [Files -> Seq(Line)] /\ inc \in Seq(Lexer)
    BY DEF IInv, TypeOK
  <2>2. /\ cur' \in Lexer /\ cur'.file = Here.arg
        /\ LevelsOK(cur') /\ LexOK(text[cur'.file], cur')
    BY <1>7, <2>1, NewLexerType
  <2>3. inc' \in Seq(Lexer) /\ Len(inc') = Len(inc) + 1
    BY <1>2, <1>7, <2>1
  <2>4. \A i \in 1 .. Len(inc') :
          (i \in 1 .. Len(inc) /\ inc'[i] = inc[i]) \/ inc'[i] = a
    BY <1>7, <2>1, <2>3
  <2>5. \A i \in 1 .. Len(inc) : /\ LevelsOK(inc[i]) /\ ~inc[i].raw
                                /\ LexOK(text[inc[i].file], inc[i])
    BY DEF IInv, SkippingOnlyInRawMode
  <2> HIDE DEF a
  <2>6. \A i \in 1 .. Len(inc') : /\ LevelsOK(inc'[i]) /\ ~inc'[i].raw
                                 /\ LexOK(text[inc'[i].file], inc'[i])
    <3> TAKE i \in 1 .. Len(inc')
    <3>1. CASE inc'[i] = a
      BY <3>1, <1>2, <1>4
    <3>2. CASE i \in 1 .. Len(inc) /\ inc'[i] = inc[i]
      BY <3>2, <2>5
    <3> QED
      BY <2>4, <3>1, <3>2
  <2>7. TypeOK'
    BY <1>1, <1>5, <2>2, <2>3 DEF IInv, TypeOK
  <2>8. SkippingOnlyInRawMode'
    BY <2>2, <2>6 DEF SkippingOnlyInRawMode
  <2>9. ControllingMacroWraps'
    BY <1>1 DEF IInv, ControllingMacroWraps
  <2> QED
    BY <1>1, <2>2, <2>6, <2>7, <2>8, <2>9 DEF IInv
<1> QED
  BY <1>3, <1>6, <1>7 DEF HandleIncludeDirective

(* At the end of a file the controlling macro, if there is one, wraps the  *)
(* whole text.                                                             *)
LEMMA WrappedAtEnd ==
  ASSUME NEW t \in Seq(Line), NEW l \in Lexer, LexOK(t, l), l.pos = Len(t),
         GetControllingMacroAtEndOfFile(l.mi) # None, AllNamed(t)
  PROVE  Wrapped(t, GetControllingMacroAtEndOfFile(l.mi))
<1>1. /\ ~l.mi.any /\ l.mi.macro # None
      /\ GetControllingMacroAtEndOfFile(l.mi) = l.mi.macro
  BY DEF GetControllingMacroAtEndOfFile
<1>2. GuardSeen(t, l)
  BY <1>1 DEF LexOK
<1> QED
  BY <1>1, <1>2 DEF GuardSeen, Wrapped

LEMMA EndOfFileStep ==
  ASSUME IInv, LexEndOfFile
  PROVE  IInv'
<1> DEFINE t == text[cur.file]
           m == GetControllingMacroAtEndOfFile(cur.mi)
<1>1. /\ UNCHANGED <<text, macros>> /\ ~cur.raw /\ AtEnd
      /\ out' = out \o Unterminated(cur.cond)
      /\ ctrl' = IF m # None /\ cur.file # Builtin
                 THEN [ctrl EXCEPT ![cur.file] = m] ELSE ctrl
      /\ \/ inc # <<>> /\ cur' = Last(inc) /\ inc' = Front(inc) /\ eof' = eof
         \/ cur' = WithCond(cur, <<>>) /\ inc' = inc /\ eof' = TRUE
  BY DEF LexEndOfFile
<1>2. /\ cur \in Lexer /\ text \in [Files -> Seq(Line)] /\ inc \in Seq(Lexer)
      /\ eof \in BOOLEAN /\ macros \subseteq Macros
      /\ ctrl \in [Files -> Macros \cup {None}] /\ out \in Seq(Event)
  BY DEF IInv, TypeOK
<1>3. t \in Seq(Line) /\ cur.file \in Files /\ cur.cond \in Seq(Level)
      /\ cur.mi \in MIOptState
  BY <1>2, LexerParts
<1>4. LexOK(t, cur) /\ LevelsOK(cur) /\ cur.pos = Len(t)
  BY <1>1 DEF IInv, SkippingOnlyInRawMode, AtEnd
<1>5. m \in Macros \cup {None}
  BY <1>3 DEF MIOptState, GetControllingMacroAtEndOfFile
<1>6. out' \in Seq(Event)
  BY <1>1, <1>2, <1>3, OutputTypes
<1>7. ctrl' \in [Files -> Macros \cup {None}]
  BY <1>1, <1>2, <1>5
<1>8. ControllingMacroWraps'
  <2> SUFFICES ASSUME NEW f \in Files, ctrl'[f] # None, AllNamed(text[f])
               PROVE  Wrapped(text[f], ctrl'[f])
    BY <1>1 DEF ControllingMacroWraps
  <2>1. CASE ctrl'[f] = ctrl[f]
    BY <2>1 DEF IInv, ControllingMacroWraps
  <2>2. CASE f = cur.file /\ ctrl'[f] = m /\ m # None
    BY <2>2, <1>2, <1>3, <1>4, WrappedAtEnd
  <2> QED
    BY <2>1, <2>2, <1>1, <1>2, <1>3
<1>9. \A i \in 1 .. Len(inc) : /\ LevelsOK(inc[i]) /\ ~inc[i].raw
                              /\ LexOK(text[inc[i].file], inc[i])
  BY DEF IInv, SkippingOnlyInRawMode
<1>10. CASE inc # <<>> /\ cur' = Last(inc) /\ inc' = Front(inc) /\ eof' = eof
  <2>1. /\ Len(inc) \in Nat \ {0} /\ inc' \in Seq(Lexer)
        /\ Len(inc') = Len(inc) - 1
        /\ \A i \in 1 .. Len(inc) - 1 : inc'[i] = inc[i]
        /\ cur' = inc[Len(inc)] /\ cur' \in Lexer
    BY <1>2, <1>10, FrontLast
  <2>2. LevelsOK(cur') /\ LexOK(text[cur'.file], cur')
    BY <2>1, <1>9
  <2>3. \A i \in 1 .. Len(inc') : /\ LevelsOK(inc'[i]) /\ ~inc'[i].raw
                                 /\ LexOK(text[inc'[i].file], inc'[i])
    BY <2>1, <1>9
  <2>4. TypeOK'
    BY <1>1, <1>2, <1>6, <1>7, <1>10, <2>1 DEF TypeOK
  <2>5. SkippingOnlyInRawMode'
    BY <2>2, <2>3 DEF SkippingOnlyInRawMode
  <2> QED
    BY <1>1, <1>8, <2>2, <2>3, <2>4, <2>5 DEF IInv
<1>11. CASE cur' = WithCond(cur, <<>>) /\ inc' = inc /\ eof' = TRUE
  <2>1. <<>> \in Seq(Level)
    OBVIOUS
  <2>2. /\ cur' \in Lexer /\ cur'.file = cur.file /\ cur'.pos = cur.pos
        /\ cur'.cond = <<>> /\ cur'.raw = cur.raw /\ cur'.mi = cur.mi
    BY <1>2, <1>11, <2>1, SetCond
  <2>3. LevelsOK(cur')
    BY <1>1, <2>2 DEF LevelsOK
  <2>4. LexOK(t, cur')
    BY <1>4, <2>2 DEF LexOK, GuardSeen
  <2>5. TypeOK'
    BY <1>1, <1>2, <1>6, <1>7, <1>11, <2>2 DEF TypeOK
  <2>6. SkippingOnlyInRawMode'
    BY <1>9, <1>11, <2>3 DEF SkippingOnlyInRawMode
  <2> QED
    BY <1>1, <1>8, <1>9, <1>11, <2>2, <2>4, <2>5, <2>6 DEF IInv
<1> QED
  BY <1>1, <1>10, <1>11

-----------------------------------------------------------------------------
LEMMA InitIInv == Init => IInv
<1> SUFFICES ASSUME Init PROVE IInv
  OBVIOUS
<1>1. text \in [Files -> Seq(Line)]
  BY ProgramsAssumption DEF Init
<1>2. Main \in Files /\ Builtin \in Files
  BY FilesAssumption
<1>3. /\ NewLexer(Main) \in Lexer /\ NewLexer(Main).file = Main
      /\ ~NewLexer(Main).raw /\ LevelsOK(NewLexer(Main))
      /\ LexOK(text[Main], NewLexer(Main))
  BY <1>1, <1>2, NewLexerType
<1>4. /\ NewLexer(Builtin) \in Lexer /\ NewLexer(Builtin).file = Builtin
      /\ LevelsOK(NewLexer(Builtin)) /\ LexOK(text[Builtin], NewLexer(Builtin))
  BY <1>1, <1>2, NewLexerType
<1>5. /\ cur = NewLexer(Builtin) /\ inc = <<NewLexer(Main)>>
      /\ inc \in Seq(Lexer) /\ Len(inc) = 1 /\ inc[1] = NewLexer(Main)
  BY <1>3 DEF Init
<1>6. TypeOK
  <2>1. cur \in Lexer
    BY <1>4, <1>5
  <2>2. eof \in BOOLEAN /\ macros \subseteq Macros
    BY DEF Init
  <2>3. ctrl \in [Files -> Macros \cup {None}]
    BY DEF Init
  <2>4. out = <<>> /\ <<>> \in Seq(Event)
    BY DEF Init
  <2> QED
    BY <1>1, <1>5, <2>1, <2>2, <2>3, <2>4 DEF TypeOK
<1>7. SkippingOnlyInRawMode
  BY <1>3, <1>4, <1>5 DEF SkippingOnlyInRawMode
<1>8. ControllingMacroWraps
  BY DEF Init, ControllingMacroWraps
<1> QED
  BY <1>3, <1>4, <1>5, <1>6, <1>7, <1>8 DEF IInv

LEMMA NextIInv == IInv /\ [Next]_vars => IInv'
<1> SUFFICES ASSUME IInv, [Next]_vars PROVE IInv'
  OBVIOUS
<1>1. CASE UNCHANGED vars
  BY <1>1 DEF vars, IInv, TypeOK, SkippingOnlyInRawMode, ControllingMacroWraps
<1>2. CASE ClientDone
  BY <1>1, <1>2 DEF ClientDone
<1>3. CASE LexText \/ LexIdentifier \/ HandleDefineDirective
           \/ HandleUndefDirective
  BY <1>3, TextStep
<1>4. CASE HandleIfdefDirective
  BY <1>4, IfdefStep
<1>5. CASE HandleIfDirective
  BY <1>5, IfStep
<1>6. CASE HandleElseDirective \/ HandleElifDirective
  BY <1>6, AlternativeStep
<1>7. CASE HandleEndifDirective
  BY <1>7, EndifStep
<1>8. CASE HandleIncludeDirective
  BY <1>8, IncludeStep
<1>9. CASE LexEndOfFile
  BY <1>9, EndOfFileStep
<1>10. CASE SkipOther \/ SkipIf \/ SkipEndif \/ SkipEndOfFile
  BY <1>10, SkipStep
<1>11. CASE SkipElse \/ SkipElif
  BY <1>11, SkipTurnStep
<1> QED
  BY <1>1, <1>2, <1>3, <1>4, <1>5, <1>6, <1>7, <1>8, <1>9, <1>10, <1>11
  DEF Next

(* Every reachable state of every program satisfies the invariant. *)
THEOREM Invariance == Spec => []IInv
<1>1. Init => IInv
  BY InitIInv
<1>2. IInv /\ [Next]_vars => IInv'
  BY NextIInv
<1> QED
  BY <1>1, <1>2, PTL DEF Spec

(* The types of the lexers, the include stack, the macros, the header      *)
(* information and the output.                                             *)
THEOREM TypeCorrect == Spec => []TypeOK
<1>1. IInv => TypeOK
  BY DEF IInv
<1> QED
  BY <1>1, Invariance, PTL

(* HandleEndifDirective, HandleElseDirective and HandleElifDirective never *)
(* pop a level that was pushed while skipping, and the skipping loop       *)
(* always finds a level to peek at.                                        *)
THEOREM SkippingCorrect == Spec => []SkippingOnlyInRawMode
<1>1. IInv => SkippingOnlyInRawMode
  BY DEF IInv
<1> QED
  BY <1>1, Invariance, PTL

(* Whatever the program, a file whose #ifdefs are well formed gets a       *)
(* controlling macro only if that macro's guard wraps its whole text.      *)
THEOREM ControllingMacroCorrect == Spec => []ControllingMacroWraps
<1>1. IInv => ControllingMacroWraps
  BY DEF IInv
<1> QED
  BY <1>1, Invariance, PTL

(* The equality test of HandleIncludeDirective suffices: the include stack *)
(* never outgrows its limit.                                               *)
THEOREM IncludeStackCorrect == Spec => []IncludeStackBounded
<1> DEFINE J == TypeOK /\ IncludeStackBounded
<1>1. Init => IncludeStackBounded
  <2> SUFFICES ASSUME Init PROVE IncludeStackBounded
    OBVIOUS
  <2>1. Len(inc) = 1
    BY DEF Init
  <2> QED
    BY <2>1, DepthAssumption DEF IncludeStackBounded
<1>2. ASSUME TypeOK, IncludeStackBounded, [Next]_vars
      PROVE  IncludeStackBounded'
  <2>1. CASE HandleIncludeDirective
    <3>1. inc' = inc \/ (~IncludeTooDeep /\ inc' = Append(inc, Advance(cur)))
      BY <2>1 DEF HandleIncludeDirective
    <3>2. Len(inc) \in Nat /\ MaxAllowedIncludeStackDepth \in Nat
      BY <1>2, DepthAssumption DEF TypeOK
    <3>3. inc' = inc \/ Len(inc') = Len(inc) + 1
      BY <3>1, <1>2 DEF TypeOK
    <3> QED
      BY <3>1, <3>2, <3>3, <1>2 DEF IncludeStackBounded, IncludeTooDeep
  <2>2. CASE LexEndOfFile
    <3>1. \/ inc' = inc
          \/ inc # <<>> /\ inc' = Front(inc)
      BY <2>2 DEF LexEndOfFile
    <3>2. inc \in Seq(Lexer) /\ Len(inc) \in Nat
      BY <1>2 DEF TypeOK
    <3>3. inc' = inc \/ Len(inc') = Len(inc) - 1
      BY <3>1, <3>2, FrontLast
    <3> QED
      BY <3>2, <3>3, <1>2, DepthAssumption DEF IncludeStackBounded
  <2>3. CASE inc' = inc
    BY <2>3, <1>2 DEF IncludeStackBounded
  <2> QED
    BY <1>2, <2>1, <2>2, <2>3
    DEF Next, vars, LexText, LexIdentifier, HandleDefineDirective,
        HandleUndefDirective, HandleIfdefDirective, HandleIfDirective,
        HandleElseDirective, HandleElifDirective, HandleAlternative,
        HandleEndifDirective, SkipOther, SkipIf, SkipEndif, SkipElse,
        SkipElif, SkipEndOfFile, ClientDone
<1> QED
  BY <1>1, <1>2, TypeCorrect, PTL DEF Spec

-----------------------------------------------------------------------------
(* The reader, unfolded.                                                   *)

LEMMA SetInduction ==
  ASSUME NEW S, 0 \in S, \A n \in Nat : n \in S => n + 1 \in S
  PROVE  \A n \in Nat : n \in S
<1> DEFINE Bad == {n \in Nat : n \notin S}
<1>1. SUFFICES ASSUME Bad # {} PROVE FALSE
  OBVIOUS
<1>2. PICK m \in Bad : \A n \in Bad : ~ (<<n, m>> \in OpToRel(<, Nat))
  BY <1>1, NatLessThanWellFounded, WFMin, Zenon
<1>3. m \in Nat \ {0} /\ m - 1 \in Nat /\ m - 1 + 1 = m /\ m - 1 < m
  OBVIOUS
<1>4. m - 1 \in S \/ m - 1 \in Bad
  BY <1>3
<1>5. <<m - 1, m>> \in Nat \X Nat /\ <<m - 1, m>>[1] = m - 1 /\ <<m - 1, m>>[2] = m
  BY <1>3
<1>6. <<m - 1, m>> \in OpToRel(<, Nat)
  BY <1>3, <1>5, Zenon DEF OpToRel
<1>7. m - 1 \notin Bad
  BY <1>2, <1>6, Zenon
<1>8. m - 1 \in S
  BY <1>4, <1>7
<1>9. m \in S
  BY <1>3, <1>8
<1> QED
  BY <1>9

(* The reader's steps through a file, one line at a time. *)
LinesStep(t, deeper, d, s, f, i) ==
  IF i = 0 THEN At(<<>>, s.macros, s.out) ELSE ReadLine(deeper, d, f[i - 1], t[i])

LEMMA LinesUnfold ==
  ASSUME NEW t, Len(t) \in Nat, NEW deeper, NEW d, NEW s
  PROVE  /\ ReadLines(t, deeper, d, s)[0] = At(<<>>, s.macros, s.out)
         /\ \A i \in 0 .. Len(t) - 1 :
              ReadLines(t, deeper, d, s)[i + 1]
                = ReadLine(deeper, d, ReadLines(t, deeper, d, s)[i], t[i + 1])
<1> DEFINE N == Len(t)
           Step(f, i) == LinesStep(t, deeper, d, s, f, i)
           Good(n) == \E f : f = [i \in 0 .. n |-> Step(f, i)]
           S == {n \in Nat : Good(n)}
           A == CHOOSE f : f = [i \in 0 .. N |-> Step(f, i)]
<1>1. 0 \in S
  <2> DEFINE g == [i \in 0 .. 0 |-> At(<<>>, s.macros, s.out)]
  <2>1. \A i \in 0 .. 0 : i = 0 /\ Step(g, i) = At(<<>>, s.macros, s.out)
    BY DEF LinesStep
  <2>2. g = [i \in 0 .. 0 |-> Step(g, i)]
    BY <2>1
  <2>3. Good(0)
    BY <2>2
  <2> QED
    BY <2>3
<1>2. ASSUME NEW n \in Nat, n \in S PROVE n + 1 \in S
  <2>1. PICK f : f = [i \in 0 .. n |-> Step(f, i)]
    BY <1>2
  <2> DEFINE g == [i \in 0 .. n + 1 |-> IF i = n + 1 THEN Step(f, i) ELSE f[i]]
  <2>2. ASSUME NEW i \in 0 .. n + 1 PROVE Step(g, i) = Step(f, i)
    <3>1. CASE i = 0
      BY <3>1 DEF LinesStep
    <3>2. CASE i # 0
      <4>1. i - 1 \in 0 .. n + 1 /\ i - 1 # n + 1
        BY <3>2
      <4>2. g[i - 1] = f[i - 1]
        BY <4>1, Zenon
      <4> HIDE DEF g
      <4>3. ReadLine(deeper, d, g[i - 1], t[i]) = ReadLine(deeper, d, f[i - 1], t[i])
        BY <4>2
      <4> QED
        BY <3>2, <4>3 DEF LinesStep
    <3> QED
      BY <3>1, <3>2
  <2> HIDE DEF Step
  <2>3. ASSUME NEW i \in 0 .. n + 1 PROVE g[i] = Step(g, i)
    <3>1. CASE i = n + 1
      BY <2>2, <3>1, Zenon
    <3>2. CASE i # n + 1
      <4>1. i \in 0 .. n
        BY <3>2
      <4>2. f[i] = Step(f, i)
        BY <2>1, <4>1, Zenon
      <4> QED
        BY <2>2, <3>2, <4>2, Zenon
    <3> QED
      BY <3>1, <3>2
  <2>4. g = [i \in 0 .. n + 1 |-> Step(g, i)]
    BY <2>3, Zenon
  <2>5. Good(n + 1)
    BY <2>4
  <2> QED
    BY <2>5
<1> HIDE DEF S
<1>3. N \in S
  <2>1. \A n \in Nat : n \in S
    BY <1>1, <1>2, SetInduction
  <2> QED
    BY <2>1
<1>4. Good(N)
  BY <1>3 DEF S
<1>5. A = ReadLines(t, deeper, d, s)
  BY DEF ReadLines, LinesStep
<1> HIDE DEF Step
<1>6. A = [i \in 0 .. N |-> Step(A, i)]
  BY <1>4, Zenon
<1> HIDE DEF A
<1>7. \A i \in 0 .. N : A[i] = LinesStep(t, deeper, d, s, A, i)
  BY <1>6, Zenon DEF Step
<1>8. ASSUME NEW i \in 0 .. N - 1
      PROVE  A[i + 1] = ReadLine(deeper, d, A[i], t[i + 1])
  <2>1. i + 1 \in 0 .. N /\ i + 1 # 0 /\ i + 1 - 1 = i
    OBVIOUS
  <2>2. A[i + 1] = LinesStep(t, deeper, d, s, A, i + 1)
    BY <1>7, <2>1, Zenon
  <2> QED
    BY <2>1, <2>2 DEF LinesStep
<1>9. A[0] = At(<<>>, s.macros, s.out)
  <2>1. 0 \in 0 .. N
    OBVIOUS
  <2>2. A[0] = LinesStep(t, deeper, d, s, A, 0)
    BY <1>7, <2>1, Zenon
  <2> QED
    BY <2>2 DEF LinesStep
<1> QED
  BY <1>5, <1>8, <1>9

(* The reading of files one level deeper than d. *)
Deeper(p, d) ==
  IF d = MaxAllowedIncludeStackDepth - 1 THEN <<>> ELSE Read(p)[d + 1]

(* What a reader at depth d makes of each file. *)
FilesRead(p, deeper, d) ==
  [f \in Files |-> [s \in ReaderState |-> ReadEnd(ReadLines(p[f], deeper, d, s)[Len(p[f])])]]

ReadStep(p, r, d) ==
  LET deeper == IF d = MaxAllowedIncludeStackDepth - 1 THEN <<>> ELSE r[d + 1]
  IN FilesRead(p, deeper, d)

LEMMA ReadUnfold ==
  ASSUME NEW p
  PROVE  \A d \in 0 .. MaxAllowedIncludeStackDepth - 1 :
           Read(p)[d] = FilesRead(p, Deeper(p, d), d)
<1> DEFINE K == MaxAllowedIncludeStackDepth - 1
           Step(r, d) == ReadStep(p, r, d)
           Good(n) == \E r : r = [d \in K - n .. K |-> Step(r, d)]
           S == {n \in Nat : n <= K => Good(n)}
           R == CHOOSE r : r = [d \in 0 .. K |-> Step(r, d)]
<1>0. K \in Nat
  BY DepthAssumption
<1>1. 0 \in S
  <2> DEFINE g == [d \in K - 0 .. K |-> FilesRead(p, <<>>, K)]
  <2>1. \A d \in K - 0 .. K : d = K /\ Step(g, d) = FilesRead(p, <<>>, K)
    BY <1>0 DEF ReadStep
  <2>2. g = [d \in K - 0 .. K |-> Step(g, d)]
    BY <2>1
  <2>3. Good(0)
    BY <2>2
  <2> QED
    BY <2>3
<1>2. ASSUME NEW n \in Nat, n \in S PROVE n + 1 \in S
  <2>0. n + 1 \in Nat
    OBVIOUS
  <2>1. SUFFICES ASSUME n + 1 <= K PROVE Good(n + 1)
    BY <2>0, Zenon
  <2>2. Good(n)
    <3>1. n <= K
      BY <1>0, <2>1
    <3> QED
      BY <1>2, <3>1, Zenon
  <2>3. PICK f : f = [d \in K - n .. K |-> Step(f, d)]
    BY <2>2, Zenon
  <2> DEFINE g == [d \in K - (n + 1) .. K |-> IF d = K - (n + 1) THEN Step(f, d) ELSE f[d]]
  <2>4. ASSUME NEW d \in K - (n + 1) .. K PROVE Step(g, d) = Step(f, d)
    <3>1. CASE d = K
      BY <3>1 DEF ReadStep
    <3>2. CASE d # K
      <4>1. d + 1 \in K - (n + 1) .. K /\ d + 1 # K - (n + 1)
        BY <1>0, <3>2
      <4>2. g[d + 1] = f[d + 1]
        BY <4>1, Zenon
      <4> HIDE DEF g
      <4>3. FilesRead(p, g[d + 1], d) = FilesRead(p, f[d + 1], d)
        BY <4>2
      <4> QED
        BY <3>2, <4>3 DEF ReadStep
    <3> QED
      BY <3>1, <3>2
  <2> HIDE DEF Step
  <2>5. ASSUME NEW d \in K - (n + 1) .. K PROVE g[d] = Step(g, d)
    <3>1. CASE d = K - (n + 1)
      BY <2>4, <3>1, Zenon
    <3>2. CASE d # K - (n + 1)
      <4>1. d \in K - n .. K
        BY <1>0, <3>2
      <4>2. f[d] = Step(f, d)
        BY <2>3, <4>1, Zenon
      <4> QED
        BY <2>4, <3>2, <4>2, Zenon
    <3> QED
      BY <3>1, <3>2
  <2>6. g = [d \in K - (n + 1) .. K |-> Step(g, d)]
    BY <2>5, Zenon
  <2> QED
    BY <2>6
<1> HIDE DEF S
<1>3. K \in S
  <2>1. \A n \in Nat : n \in S
    BY <1>1, <1>2, SetInduction
  <2> QED
    BY <1>0, <2>1
<1>4. Good(K)
  <2>1. K <= K
    BY <1>0
  <2> QED
    BY <1>3, <2>1, Zenon DEF S
<1>5. R = Read(p)
  BY DEF Read, ReadStep, FilesRead
<1> HIDE DEF Step
<1>6. R = [d \in 0 .. K |-> Step(R, d)]
  <2>1. K - K = 0
    BY <1>0
  <2>2. \E r : r = [d \in 0 .. K |-> Step(r, d)]
    BY <1>4, <2>1
  <2> QED
    BY <2>2, Zenon
<1> HIDE DEF R
<1>7. ASSUME NEW d \in 0 .. K PROVE R[d] = FilesRead(p, Deeper(p, d), d)
  <2>1. R[d] = ReadStep(p, R, d)
    BY <1>6, Zenon DEF Step
  <2>2. Deeper(p, d) = IF d = K THEN <<>> ELSE R[d + 1]
    BY <1>5 DEF Deeper
  <2> QED
    BY <2>1, <2>2 DEF ReadStep
<1> QED
  BY <1>5, <1>7

-----------------------------------------------------------------------------
(* The reader's groups and the conditional stack of a lexer.               *)

(* What the groups of the reader are while a lexer skips a block: b is the *)
(* level that started it.                                                  *)
SkipState(lev, i, b) ==
  IF i < b THEN "reading" ELSE IF i > b THEN "dead"
  ELSE IF lev.found THEN "done" ELSE "seeking"

(* The groups g of the reader say what the conditional stack of l says. *)
Matches(l, g) ==
  /\ g \in Seq(Group)
  /\ Len(g) = Len(l.cond)
  /\ \A i \in 1 .. Len(g) : g[i].els = l.cond[i].els
  /\ IF l.raw
     THEN \E b \in 1 .. Len(g) : \A i \in 1 .. Len(g) :
            g[i].st = SkipState(l.cond[i], i, b) /\ (l.cond[i].was <=> i > b)
     ELSE \A i \in 1 .. Len(g) : g[i].st = "reading" /\ ~l.cond[i].was

LEMMA GroupParts ==
  ASSUME NEW g \in Seq(Group)
  PROVE  /\ Len(g) \in Nat /\ DOMAIN g = 1 .. Len(g)
         /\ \A i \in 1 .. Len(g) :
              /\ g[i] \in Group /\ g[i].els \in BOOLEAN
              /\ g[i].st \in {"seeking", "reading", "done", "dead"}
              /\ g[i] = [st |-> g[i].st, els |-> g[i].els]
<1>1. \A i \in 1 .. Len(g) : g[i] \in Group
  OBVIOUS
<1> QED
  BY <1>1 DEF Group

LEMMA MatchesParts ==
  ASSUME NEW l \in Lexer, NEW g, Matches(l, g)
  PROVE  /\ g \in Seq(Group) /\ Len(g) \in Nat /\ Len(g) = Len(l.cond)
         /\ l.cond \in Seq(Level)
         /\ \A i \in 1 .. Len(g) : g[i].els = l.cond[i].els /\ l.cond[i] \in Level
         /\ g = <<>> <=> l.cond = <<>>
<1>1. l.cond \in Seq(Level)
  BY LexerParts
<1>2. /\ g \in Seq(Group) /\ Len(g) = Len(l.cond)
      /\ \A i \in 1 .. Len(g) : g[i].els = l.cond[i].els
  BY DEF Matches
<1> QED
  BY <1>1, <1>2

(* The reader reads the block it is in when the lexer does. *)
LEMMA LiveWhenReading ==
  ASSUME NEW l \in Lexer, NEW g, Matches(l, g)
  PROVE  Live(g) <=> ~l.raw
<1>1. g \in Seq(Group) /\ DOMAIN g = 1 .. Len(g) /\ Len(g) \in Nat
  BY GroupParts DEF Matches
<1>2. CASE l.raw
  <2>1. PICK b \in 1 .. Len(g) : g[b].st = SkipState(l.cond[b], b, b)
    BY <1>2 DEF Matches
  <2>2. g[b].st \in {"done", "seeking"}
    BY <1>1, <2>1 DEF SkipState
  <2> QED
    BY <1>1, <1>2, <2>2 DEF Live
<1>3. CASE ~l.raw
  BY <1>1, <1>3 DEF Live, Matches
<1> QED
  BY <1>2, <1>3

LEMMA LevelFields ==
  ASSUME NEW a \in BOOLEAN, NEW b \in BOOLEAN, NEW c \in BOOLEAN
  PROVE  /\ LevelOf(a, b, c) \in Level /\ LevelOf(a, b, c).was = a
         /\ LevelOf(a, b, c).found = b /\ LevelOf(a, b, c).els = c
  BY DEF LevelOf, Level

LEMMA MatchesSame ==
  ASSUME NEW l, NEW l2, l2.cond = l.cond, l2.raw = l.raw, NEW g, Matches(l, g)
  PROVE  Matches(l2, g)
  BY DEF Matches

(* One more level, and one more group. *)
LEMMA MatchesPush ==
  ASSUME NEW l \in Lexer, NEW lev \in Level, NEW x \in Group, x.els = lev.els,
         NEW l2, l2.cond = Append(l.cond, lev),
         NEW g, Matches(l, g),
         \/ ~l.raw /\ ~l2.raw /\ ~lev.was /\ x.st = "reading"
         \/ ~l.raw /\ l2.raw /\ ~lev.was /\ x.st = (IF lev.found THEN "done" ELSE "seeking")
         \/ l.raw /\ l2.raw /\ lev.was /\ x.st = "dead"
  PROVE  Matches(l2, Append(g, x))
<1> DEFINE n == Len(g)
           h == Append(g, x)
           c == l2.cond
<1>1. /\ g \in Seq(Group) /\ n \in Nat /\ n = Len(l.cond)
      /\ l.cond \in Seq(Level)
      /\ \A i \in 1 .. n : g[i].els = l.cond[i].els
  BY MatchesParts
<1>2. /\ h \in Seq(Group) /\ Len(h) = n + 1 /\ Len(c) = n + 1
      /\ \A i \in 1 .. n : h[i] = g[i] /\ c[i] = l.cond[i]
      /\ h[n + 1] = x /\ c[n + 1] = lev
  BY <1>1
<1> HIDE DEF h
<1>3. \A i \in 1 .. n + 1 : i \in 1 .. n \/ i = n + 1
  BY <1>1
<1>4. \A i \in 1 .. n + 1 : h[i].els = c[i].els
  BY <1>1, <1>2, <1>3
<1>5. CASE ~l.raw /\ ~l2.raw /\ ~lev.was /\ x.st = "reading"
  <2>1. \A i \in 1 .. n : g[i].st = "reading" /\ ~l.cond[i].was
    BY <1>5 DEF Matches
  <2>2. \A i \in 1 .. n + 1 : h[i].st = "reading" /\ ~c[i].was
    BY <1>2, <1>3, <1>5, <2>1
  <2> QED
    BY <1>2, <1>4, <1>5, <2>2 DEF Matches, h
<1>6. CASE ~l.raw /\ l2.raw /\ ~lev.was /\ x.st = (IF lev.found THEN "done" ELSE "seeking")
  <2>1. \A i \in 1 .. n : g[i].st = "reading" /\ ~l.cond[i].was
    BY <1>6 DEF Matches
  <2>2. ASSUME NEW i \in 1 .. n + 1
        PROVE  h[i].st = SkipState(c[i], i, n + 1) /\ (c[i].was <=> i > n + 1)
    <3>1. CASE i \in 1 .. n
      BY <1>1, <1>2, <2>1, <3>1 DEF SkipState
    <3>2. CASE i = n + 1
      BY <1>1, <1>2, <1>6, <3>2 DEF SkipState
    <3> QED
      BY <1>3, <3>1, <3>2
  <2>3. n + 1 \in 1 .. n + 1
    BY <1>1
  <2> QED
    BY <1>2, <1>4, <1>6, <2>2, <2>3 DEF Matches, h
<1>7. CASE l.raw /\ l2.raw /\ lev.was /\ x.st = "dead"
  <2>1. PICK b \in 1 .. n : \A i \in 1 .. n :
          g[i].st = SkipState(l.cond[i], i, b) /\ (l.cond[i].was <=> i > b)
    BY <1>7 DEF Matches
  <2>2. ASSUME NEW i \in 1 .. n + 1
        PROVE  h[i].st = SkipState(c[i], i, b) /\ (c[i].was <=> i > b)
    <3>1. CASE i \in 1 .. n
      BY <1>2, <2>1, <3>1
    <3>2. CASE i = n + 1
      BY <1>1, <1>2, <1>7, <3>2 DEF SkipState
    <3> QED
      BY <1>3, <3>1, <3>2
  <2>3. b \in 1 .. n + 1
    BY <1>1
  <2> QED
    BY <1>2, <1>4, <1>7, <2>2, <2>3 DEF Matches, h
<1> QED
  BY <1>5, <1>6, <1>7

(* The innermost level, and the innermost group. *)
LEMMA MatchesTop ==
  ASSUME NEW l \in Lexer, NEW g, Matches(l, g), l.cond # <<>>
  PROVE  /\ g # <<>> /\ Last(g) \in Group /\ Last(l.cond) \in Level
         /\ Last(g) = g[Len(g)] /\ Last(l.cond) = l.cond[Len(g)]
         /\ Last(g).els = Last(l.cond).els
         /\ Last(g).st = IF ~l.raw THEN "reading"
                         ELSE IF Last(l.cond).was THEN "dead"
                         ELSE IF Last(l.cond).found THEN "done" ELSE "seeking"
<1> DEFINE n == Len(g)
<1>1. /\ g \in Seq(Group) /\ n \in Nat /\ n = Len(l.cond) /\ g # <<>>
      /\ l.cond \in Seq(Level)
      /\ \A i \in 1 .. n : g[i].els = l.cond[i].els
  BY MatchesParts
<1>2. /\ Last(g) = g[n] /\ Last(g) \in Group
      /\ Last(l.cond) = l.cond[n] /\ Last(l.cond) \in Level /\ n \in 1 .. n
  <2>1. n \in Nat \ {0}
    BY <1>1
  <2>2. Last(g) = g[n] /\ Last(g) \in Group
    BY <1>1, FrontLast, Zenon
  <2>3. l.cond \in Seq(Level) /\ l.cond # <<>> /\ Len(l.cond) = n
    BY <1>1
  <2>4. Last(l.cond) = l.cond[n] /\ Last(l.cond) \in Level
    BY <2>3, FrontLast, Zenon
  <2> QED
    BY <2>1, <2>2, <2>4
<1>3. CASE ~l.raw
  BY <1>1, <1>2, <1>3 DEF Matches
<1>4. CASE l.raw
  <2>1. PICK b \in 1 .. n : \A i \in 1 .. n :
          g[i].st = SkipState(l.cond[i], i, b) /\ (l.cond[i].was <=> i > b)
    BY <1>4 DEF Matches
  <2>2. g[n].st = SkipState(l.cond[n], n, b) /\ (l.cond[n].was <=> n > b)
    BY <1>2, <2>1
  <2>3. n = b \/ n > b
    BY <1>1
  <2>4. CASE n = b
    BY <1>1, <1>2, <1>4, <2>2, <2>4 DEF SkipState
  <2>5. CASE n > b
    BY <1>1, <1>2, <1>4, <2>2, <2>5 DEF SkipState
  <2> QED
    BY <2>3, <2>4, <2>5
<1> QED
  BY <1>3, <1>4

(* The innermost level is left. *)
LEMMA MatchesPop ==
  ASSUME NEW l \in Lexer, NEW g, Matches(l, g), l.cond # <<>>,
         NEW l2, l2.cond = Front(l.cond), l2.raw <=> l.raw /\ Last(l.cond).was
  PROVE  Matches(l2, Front(g))
<1> DEFINE n == Len(g)
           h == Front(g)
           c == l2.cond
<1>1. /\ g \in Seq(Group) /\ n \in Nat /\ n = Len(l.cond) /\ g # <<>>
      /\ l.cond \in Seq(Level)
      /\ \A i \in 1 .. n : g[i].els = l.cond[i].els
  BY MatchesParts
<1>2. /\ h \in Seq(Group) /\ Len(h) = n - 1 /\ Len(c) = n - 1
      /\ \A i \in 1 .. n - 1 : h[i] = g[i] /\ c[i] = l.cond[i]
      /\ Last(l.cond) = l.cond[n] /\ n - 1 \in Nat
  <2>1. h \in Seq(Group) /\ Len(h) = n - 1 /\ \A i \in 1 .. n - 1 : h[i] = g[i]
    BY <1>1, FrontLast
  <2>2. PICK k : k = l.cond
    OBVIOUS
  <2>3. k \in Seq(Level) /\ k # <<>>
    BY <1>1, <2>2
  <2>4. /\ Len(k) \in Nat \ {0} /\ Len(Front(k)) = Len(k) - 1
        /\ \A i \in 1 .. Len(k) - 1 : Front(k)[i] = k[i]
        /\ Last(k) = k[Len(k)]
    BY <2>3, FrontLast
  <2> QED
    BY <1>1, <2>1, <2>2, <2>4
<1> HIDE DEF h
<1>3. \A i \in 1 .. n - 1 : i \in 1 .. n
  BY <1>1
<1>4. \A i \in 1 .. n - 1 : h[i].els = c[i].els
  BY <1>1, <1>2, <1>3
<1>5. CASE ~l.raw
  <2>1. \A i \in 1 .. n - 1 : h[i].st = "reading" /\ ~c[i].was
    BY <1>2, <1>3, <1>5 DEF Matches
  <2> QED
    BY <1>2, <1>4, <1>5, <2>1 DEF Matches, h
<1>6. CASE l.raw
  <2>1. PICK b \in 1 .. n : \A i \in 1 .. n :
          g[i].st = SkipState(l.cond[i], i, b) /\ (l.cond[i].was <=> i > b)
    BY <1>6 DEF Matches
  <2>2. Last(l.cond).was <=> n > b
    BY <1>1, <1>2, <2>1
  <2>3. CASE n > b
    <3>1. b \in 1 .. n - 1
      BY <1>1, <2>3
    <3>2. \A i \in 1 .. n - 1 :
            h[i].st = SkipState(c[i], i, b) /\ (c[i].was <=> i > b)
      BY <1>2, <1>3, <2>1
    <3>3. l2.raw
      BY <1>6, <2>2, <2>3
    <3> QED
      BY <1>2, <1>4, <3>1, <3>2, <3>3 DEF Matches, h
  <2>4. CASE ~(n > b)
    <3>1. b = n
      BY <1>1, <2>4
    <3>2. ASSUME NEW i \in 1 .. n - 1 PROVE h[i].st = "reading" /\ ~c[i].was
      <4>1. i < b /\ ~(i > b)
        BY <1>1, <3>1
      <4> QED
        BY <1>2, <1>3, <2>1, <4>1 DEF SkipState
    <3>3. ~l2.raw
      BY <2>2, <2>4
    <3> QED
      BY <1>2, <1>4, <3>2, <3>3 DEF Matches, h
  <2> QED
    BY <2>3, <2>4
<1> QED
  BY <1>5, <1>6

(* An #else or #elif in a skipped block: the innermost level is replaced.  *)
LEMMA MatchesTurn ==
  ASSUME NEW l \in Lexer, NEW g, Matches(l, g), l.raw,
         NEW lev \in Level, lev.was = Last(l.cond).was,
         NEW l2, l2.cond = [l.cond EXCEPT ![Len(l.cond)] = lev],
         NEW x \in Group, x.els = lev.els,
         \/ l2.raw /\ lev.found = Last(l.cond).found /\ x.st = Last(g).st
         \/ ~l2.raw /\ ~lev.was /\ x.st = "reading"
  PROVE  /\ l.cond # <<>>
         /\ Matches(l2, Append(Front(g), x))
<1> DEFINE n == Len(g)
           h == Append(Front(g), x)
           c == l2.cond
<1>1. /\ g \in Seq(Group) /\ n \in Nat /\ n = Len(l.cond)
      /\ l.cond \in Seq(Level)
      /\ \A i \in 1 .. n : g[i].els = l.cond[i].els
  BY MatchesParts
<1>2. PICK b \in 1 .. n : \A i \in 1 .. n :
        g[i].st = SkipState(l.cond[i], i, b) /\ (l.cond[i].was <=> i > b)
  BY DEF Matches
<1>3. g # <<>> /\ l.cond # <<>> /\ n \in 1 .. n
  BY <1>1, <1>2
<1>4. /\ Front(g) \in Seq(Group) /\ Len(Front(g)) = n - 1
      /\ \A i \in 1 .. n - 1 : Front(g)[i] = g[i]
      /\ Last(l.cond) = l.cond[n] /\ Last(g) = g[n] /\ n - 1 \in Nat
  <2>0. g \in Seq(Group) /\ g # <<>>
    BY <1>1, <1>3
  <2>1. /\ Front(g) \in Seq(Group) /\ Len(Front(g)) = n - 1
        /\ \A i \in 1 .. n - 1 : Front(g)[i] = g[i]
        /\ Last(g) = g[n] /\ n \in Nat \ {0}
    <3>1. PICK s \in Seq(Group) : s = g /\ s # <<>> /\ Len(s) = n
      BY <2>0
    <3>2. /\ Front(s) \in Seq(Group) /\ Len(Front(s)) = Len(s) - 1
          /\ \A i \in 1 .. Len(s) - 1 : Front(s)[i] = s[i]
          /\ Last(s) = s[Len(s)] /\ Len(s) \in Nat \ {0}
      BY <3>1, FrontLast
    <3> QED
      BY <3>1, <3>2
  <2>2. PICK k : k = l.cond
    OBVIOUS
  <2>3. Last(k) = k[Len(k)]
    BY <1>1, <1>3, <2>2, FrontLast
  <2> QED
    BY <1>1, <2>1, <2>2, <2>3
<1>5. /\ h \in Seq(Group) /\ Len(h) = n
      /\ \A i \in 1 .. n - 1 : h[i] = g[i]
      /\ h[n] = x
  BY <1>4
<1>6. /\ Len(c) = n /\ c[n] = lev
      /\ \A i \in 1 .. n - 1 : c[i] = l.cond[i]
  BY <1>1, <1>3
<1> HIDE DEF h
<1>7. \A i \in 1 .. n : i \in 1 .. n - 1 \/ i = n
  BY <1>1
<1>8. \A i \in 1 .. n : h[i].els = c[i].els
  BY <1>1, <1>5, <1>6, <1>7
<1>9. CASE l2.raw /\ lev.found = Last(l.cond).found /\ x.st = Last(g).st
  <2>1. ASSUME NEW i \in 1 .. n
        PROVE  h[i].st = SkipState(c[i], i, b) /\ (c[i].was <=> i > b)
    <3>1. CASE i \in 1 .. n - 1
      BY <1>2, <1>5, <1>6, <3>1
    <3>2. CASE i = n
      <4>1. SkipState(lev, n, b) = SkipState(l.cond[n], n, b)
        BY <1>4, <1>9 DEF SkipState
      <4>2. g[n].st = SkipState(l.cond[n], n, b) /\ (l.cond[n].was <=> n > b)
        BY <1>2, <1>3
      <4> QED
        BY <1>4, <1>5, <1>6, <1>9, <3>2, <4>1, <4>2
    <3> QED
      BY <1>7, <3>1, <3>2
  <2> QED
    BY <1>3, <1>5, <1>6, <1>8, <1>9, <2>1 DEF Matches, h
<1>10. CASE ~l2.raw /\ ~lev.was /\ x.st = "reading"
  <2>1. ~(n > b) /\ b = n
    BY <1>1, <1>2, <1>3, <1>4, <1>10
  <2>2. ASSUME NEW i \in 1 .. n PROVE h[i].st = "reading" /\ ~c[i].was
    <3>1. CASE i \in 1 .. n - 1
      <4>1. i < b /\ ~(i > b)
        BY <1>1, <2>1, <3>1
      <4> QED
        BY <1>2, <1>5, <1>6, <3>1, <4>1 DEF SkipState
    <3>2. CASE i = n
      BY <1>5, <1>6, <1>10, <3>2
    <3> QED
      BY <1>7, <3>1, <3>2
  <2> QED
    BY <1>3, <1>5, <1>6, <1>8, <1>10, <2>2 DEF Matches, h
<1> QED
  BY <1>3, <1>9, <1>10

-----------------------------------------------------------------------------
(* One line: what the reader does with it is what the lexer does.          *)

LEMMA AtFields ==
  ASSUME NEW g, NEW ms, NEW o
  PROVE  At(g, ms, o).g = g /\ At(g, ms, o).macros = ms /\ At(g, ms, o).out = o
  BY DEF At

LEMMA ReadLineIs ==
  ASSUME NEW deeper, NEW d, NEW r, NEW ln
  PROVE  /\ Opens(ln) => ReadLine(deeper, d, r, ln) = ReadOpening(r, ln)
         /\ ln.k \in {"else", "elif"} => ReadLine(deeper, d, r, ln) = ReadTurning(r, ln)
         /\ Closes(ln) => ReadLine(deeper, d, r, ln) = ReadClosing(r)
         /\ ln.k \in {"text", "use", "define", "undef", "include"} /\ ~Live(r.g)
              => ReadLine(deeper, d, r, ln) = r
         /\ ln.k \in {"define", "undef"} /\ Live(r.g)
              => ReadLine(deeper, d, r, ln) = ReadDefinition(r, ln)
         /\ ln.k = "include" /\ Live(r.g)
              => ReadLine(deeper, d, r, ln) = ReadInclude(deeper, d, r, ln)
         /\ ln.k \in {"text", "use"} /\ Live(r.g)
              => ReadLine(deeper, d, r, ln) = ReadText(r, ln)
  BY DEF ReadLine, Opens, Closes

LEMMA AppendIs ==
  ASSUME NEW o \in Seq(Event), NEW e
  PROVE  Append(o, e) = o \o <<e>> /\ o \o <<>> = o
  OBVIOUS

(* The same lexer but for its multiple-include machine. *)
Alike(a, l) ==
  /\ a \in Lexer /\ a.file = l.file /\ a.pos = l.pos
  /\ a.cond = l.cond /\ a.raw = l.raw

LEMMA Quiet ==
  ASSUME NEW l \in Lexer, NEW ln, NEW before \in BOOLEAN,
         NEW guard \in Macros \cup {None}
  PROVE  /\ Alike(AfterExpanding(l), l) /\ Alike(AfterEvaluating(l, ln), l)
         /\ Alike(AtConditional(l, before, guard), l) /\ Alike(AtAlternative(l), l)
<1>1. l.mi \in MIOptState
  BY LexerParts
<1>2. \A mi \in MIOptState : Alike(WithMI(l, mi), l)
  BY SetMI DEF Alike
<1>3. /\ ExpandedMacro(l.mi) \in MIOptState
      /\ EnterTopLevelConditional(l.mi) \in MIOptState
  BY <1>1 DEF MIOptState, ExpandedMacro, EnterTopLevelConditional, Invalidate
<1>4. guard # None => EnterTopLevelIFNDEF(l.mi, guard) \in MIOptState
  BY <1>1 DEF MIOptState, EnterTopLevelIFNDEF, Invalidate
<1>5. Alike(l, l)
  BY DEF Alike
<1>6. Alike(AfterExpanding(l), l) /\ Alike(AfterEvaluating(l, ln), l)
  BY <1>2, <1>3, <1>5 DEF AfterExpanding, AfterEvaluating
<1>7. Alike(AtAlternative(l), l)
  BY <1>2, <1>3, <1>5 DEF AtAlternative
<1>8. Alike(AtConditional(l, before, guard), l)
  BY <1>2, <1>3, <1>4, <1>5 DEF AtConditional
<1> QED
  BY <1>6, <1>7, <1>8

LEMMA BlockFields ==
  ASSUME NEW l \in Lexer, NEW found \in BOOLEAN, NEW els \in BOOLEAN
  PROVE  /\ EnterBlock(l).file = l.file /\ EnterBlock(l).pos = l.pos
         /\ EnterBlock(l).raw = l.raw
         /\ \E lev \in Level : /\ ~lev.was /\ ~lev.els
                               /\ EnterBlock(l).cond = Append(l.cond, lev)
         /\ SkipBlock(l, found, els).file = l.file /\ SkipBlock(l, found, els).pos = l.pos
         /\ SkipBlock(l, found, els).raw
         /\ \E lev \in Level : /\ ~lev.was /\ lev.found = found /\ lev.els = els
                               /\ SkipBlock(l, found, els).cond = Append(l.cond, lev)
<1>1. PICK r \in Level : r = LevelOf(FALSE, TRUE, FALSE) /\ ~r.was /\ ~r.els
  BY LevelFields
<1>2. PICK k \in Level : /\ k = LevelOf(FALSE, found, els) /\ ~k.was
                         /\ k.found = found /\ k.els = els
  BY LevelFields
<1>3. \A c \in Seq(Level), x \in Level : Append(c, x) \in Seq(Level)
  OBVIOUS
<1>4. PICK rc \in Seq(Level) : rc = Append(l.cond, r)
  BY <1>3, LexerParts, Zenon
<1>5. PICK kc \in Seq(Level) : kc = Append(l.cond, k)
  BY <1>3, LexerParts, Zenon
<1>6. EnterBlock(l) = WithCond(l, rc)
  BY <1>1, <1>4 DEF EnterBlock
<1>7. SkipBlock(l, found, els) = WithRaw(WithCond(l, kc), TRUE)
  BY <1>2, <1>5 DEF SkipBlock
<1>8. PICK m \in Lexer : /\ m = WithCond(l, kc) /\ m.file = l.file /\ m.pos = l.pos
                        /\ m.cond = kc
  BY SetCond
<1>9. /\ WithRaw(m, TRUE).file = l.file /\ WithRaw(m, TRUE).pos = l.pos
      /\ WithRaw(m, TRUE).cond = kc /\ WithRaw(m, TRUE).raw = TRUE
  BY <1>8, SetRaw
<1>10. /\ EnterBlock(l).file = l.file /\ EnterBlock(l).pos = l.pos
       /\ EnterBlock(l).raw = l.raw /\ EnterBlock(l).cond = Append(l.cond, r)
  <2>1. PICK b \in Lexer : /\ b = WithCond(l, rc) /\ b.file = l.file /\ b.pos = l.pos
                          /\ b.cond = rc /\ b.raw = l.raw
    BY SetCond
  <2> QED
    BY <1>4, <1>6, <2>1
<1>11. /\ SkipBlock(l, found, els).file = l.file /\ SkipBlock(l, found, els).pos = l.pos
       /\ SkipBlock(l, found, els).raw /\ SkipBlock(l, found, els).cond = Append(l.cond, k)
  BY <1>5, <1>7, <1>8, <1>9
<1> QED
  BY <1>1, <1>2, <1>10, <1>11

(* The step reads the line the lexer is at, and so does the reader. *)
ReadsAs(deeper) ==
  /\ cur'.file = cur.file /\ cur'.pos = cur.pos + 1
  /\ UNCHANGED <<text, inc, eof>>
  /\ \A g : Matches(cur, g) =>
       \E g2 : /\ Matches(cur', g2)
               /\ ReadLine(deeper, Len(inc), At(g, macros, out), Here) = At(g2, macros', out')

LEMMA TextReads ==
  ASSUME IInv, LexText \/ LexIdentifier \/ HandleDefineDirective \/ HandleUndefDirective,
         NEW deeper
  PROVE  ReadsAs(deeper)
<1>1. /\ cur \in Lexer /\ out \in Seq(Event) /\ ~cur.raw
      /\ Here.k \in {"text", "use", "define", "undef"}
      /\ UNCHANGED <<text, inc, eof>>
  BY DEF IInv, TypeOK, LexText, LexIdentifier, HandleDefineDirective, HandleUndefDirective, AtLine
<1>2. cur' \in {Advance(cur), AfterExpanding(Advance(cur))}
  BY DEF LexText, LexIdentifier, HandleDefineDirective, HandleUndefDirective
<1>3. /\ Advance(cur) \in Lexer /\ Advance(cur).file = cur.file
      /\ Advance(cur).pos = cur.pos + 1 /\ Advance(cur).cond = cur.cond
      /\ Advance(cur).raw = cur.raw
  BY <1>1, AdvanceFields
<1>4. Alike(AfterExpanding(Advance(cur)), Advance(cur))
  BY <1>3, Quiet
<1>5. /\ cur'.file = cur.file /\ cur'.pos = cur.pos + 1
      /\ cur'.cond = cur.cond /\ cur'.raw = cur.raw
  BY <1>2, <1>3, <1>4 DEF Alike
<1>6. ASSUME NEW g, Matches(cur, g)
      PROVE  /\ Matches(cur', g)
             /\ ReadLine(deeper, Len(inc), At(g, macros, out), Here) = At(g, macros', out')
  <2>1. Matches(cur', g)
    BY <1>5, <1>6, MatchesSame
  <2>2. Live(g)
    BY <1>1, <1>6, LiveWhenReading
  <2>3. PICK ln : ln = Here
    OBVIOUS
  <2> DEFINE r == At(g, macros, out)
  <2>4. r.g = g /\ r.macros = macros /\ r.out = out
    BY AtFields
  <2> HIDE DEF r
  <2>5. ln.k \in {"text", "use"} => ReadLine(deeper, Len(inc), r, ln) = ReadText(r, ln)
    BY <2>2, <2>4, ReadLineIs
  <2>6. ln.k \in {"define", "undef"} => ReadLine(deeper, Len(inc), r, ln) = ReadDefinition(r, ln)
    BY <2>2, <2>4, ReadLineIs
  <2>7. CASE LexText
    <3>1. ln.k = "text" /\ macros' = macros /\ out' = Append(out, <<"token", ln.arg>>)
      BY <2>3, <2>7 DEF LexText, AtLine, Token
    <3>2. ReadText(r, ln) = At(g, macros, out \o << <<"token", ln.arg>> >>)
      BY <2>4, <3>1 DEF ReadText, Says
    <3> QED
      BY <1>1, <2>1, <2>3, <2>5, <3>1, <3>2, AppendIs DEF r
  <2>8. CASE LexIdentifier
    <3>1. /\ ln.k = "use" /\ macros' = macros
          /\ out' = Append(out, <<IF ln.arg \in macros THEN "expansion" ELSE "token", ln.arg>>)
      BY <2>3, <2>8 DEF LexIdentifier, AtLine, Token
    <3>2. ReadText(r, ln)
            = At(g, macros, out \o << <<IF ln.arg \in macros THEN "expansion" ELSE "token", ln.arg>> >>)
      BY <2>4, <3>1 DEF ReadText, Says
    <3> QED
      BY <1>1, <2>1, <2>3, <2>5, <3>1, <3>2, AppendIs DEF r
  <2>9. CASE HandleDefineDirective
    <3>1. /\ ln.k = "define"
          /\ IF ln.arg = None
             THEN out' = Append(out, Diag("missing_name")) /\ macros' = macros
             ELSE macros' = macros \cup {ln.arg} /\ out' = out
      BY <2>3, <2>9 DEF HandleDefineDirective, AtLine
    <3>2. ReadDefinition(r, ln) = IF ln.arg = None
                                  THEN At(g, macros, out \o <<Diag("missing_name")>>)
                                  ELSE At(g, macros \cup {ln.arg}, out)
      BY <2>4, <3>1 DEF ReadDefinition, Says
    <3> QED
      BY <1>1, <2>1, <2>3, <2>6, <3>1, <3>2, AppendIs DEF r
  <2>10. CASE HandleUndefDirective
    <3>1. /\ ln.k = "undef"
          /\ IF ln.arg = None
             THEN out' = Append(out, Diag("missing_name")) /\ macros' = macros
             ELSE macros' = macros \ {ln.arg} /\ out' = out
      BY <2>3, <2>10 DEF HandleUndefDirective, AtLine
    <3>2. ReadDefinition(r, ln) = IF ln.arg = None
                                  THEN At(g, macros, out \o <<Diag("missing_name")>>)
                                  ELSE At(g, macros \ {ln.arg}, out)
      BY <2>4, <3>1 DEF ReadDefinition, Says
    <3> QED
      BY <1>1, <2>1, <2>3, <2>6, <3>1, <3>2, AppendIs DEF r
  <2> QED
    BY <2>7, <2>8, <2>9, <2>10
<1> QED
  BY <1>1, <1>5, <1>6 DEF ReadsAs

(* The two forms of a condition are the same. *)
LEMMA SameCondition ==
  ASSUME NEW ln, ln.form \in Forms
  PROVE  /\ Holds(ln) <=> RefHolds(ln, macros)
         /\ EvaluationDiag(ln) = BadDiag(ln)
  BY DEF Forms, Holds, RefHolds, EvaluationDiag, BadDiag

(* A block is entered, or starts to be skipped. *)
LEMMA BlockMatches ==
  ASSUME NEW l0 \in Lexer, NEW g, Matches(l0, g), ~l0.raw, NEW l \in Lexer, l.cond = l0.cond, ~l.raw,
         NEW found \in BOOLEAN, NEW els \in BOOLEAN
  PROVE  /\ Matches(EnterBlock(l), Append(g, [st |-> "reading", els |-> FALSE]))
         /\ Matches(SkipBlock(l, found, els),
                    Append(g, [st |-> IF found THEN "done" ELSE "seeking", els |-> els]))
<1> DEFINE st == IF found THEN "done" ELSE "seeking"
<1>1. st \in {"seeking", "reading", "done", "dead"}
  OBVIOUS
<1> HIDE DEF st
<1>2. PICK x \in Group : x = [st |-> st, els |-> els] /\ x.st = st /\ x.els = els
  <2>1. [st |-> st, els |-> els] \in Group
    BY <1>1 DEF Group
  <2> QED
    BY <2>1
<1>3. PICK y \in Group : y = [st |-> "reading", els |-> FALSE] /\ y.st = "reading" /\ y.els = FALSE
  <2>1. [st |-> "reading", els |-> FALSE] \in Group
    BY DEF Group
  <2> QED
    BY <2>1
<1>4. Matches(EnterBlock(l), Append(g, y))
  <2>1. PICK lev \in Level : /\ ~lev.was /\ ~lev.els
                             /\ EnterBlock(l).cond = Append(l.cond, lev)
    BY BlockFields
  <2>2. PICK k : k = EnterBlock(l)
    OBVIOUS
  <2>3. EnterBlock(l).raw = l.raw
    BY BlockFields
  <2>4. k.cond = Append(l0.cond, lev) /\ ~k.raw /\ y.els = lev.els
    BY <1>3, <2>1, <2>2, <2>3 DEF Level
  <2>5. Matches(k, Append(g, y))
    BY <1>3, <2>1, <2>4, MatchesPush
  <2> QED
    BY <2>2, <2>5
<1>5. Matches(SkipBlock(l, found, els), Append(g, x))
  <2>1. PICK lev \in Level : /\ ~lev.was /\ lev.found = found /\ lev.els = els
                             /\ SkipBlock(l, found, els).cond = Append(l.cond, lev)
    BY BlockFields
  <2>2. PICK k : k = SkipBlock(l, found, els)
    OBVIOUS
  <2>3. SkipBlock(l, found, els).raw
    BY BlockFields
  <2>4. k.cond = Append(l0.cond, lev) /\ k.raw /\ x.els = lev.els
        /\ x.st = (IF lev.found THEN "done" ELSE "seeking")
    BY <1>2, <2>1, <2>2, <2>3 DEF st
  <2>5. Matches(k, Append(g, x))
    BY <2>1, <2>4, MatchesPush
  <2> QED
    BY <2>2, <2>5
<1> QED
  BY <1>2, <1>3, <1>4, <1>5 DEF st

LEMMA OpenIs ==
  ASSUME NEW g, NEW ms, NEW o, NEW st, NEW evs
  PROVE  Open(At(g, ms, o), st, evs) = At(Append(g, [st |-> st, els |-> FALSE]), ms, o \o evs)
  BY AtFields DEF Open

(* A conditional that opens while reading. *)
LEMMA OpeningReads ==
  ASSUME IInv, HandleIfdefDirective \/ HandleIfDirective, NEW deeper
  PROVE  ReadsAs(deeper)
<1>1. PICK ln : ln = Here
  OBVIOUS
<1>2. /\ ~cur.raw /\ ~AtEnd /\ Opens(ln) /\ UNCHANGED <<text, inc, eof, macros>>
  BY <1>1 DEF HandleIfdefDirective, HandleIfDirective, AtLine, Opens
<1>3. /\ cur \in Lexer /\ ln \in Line /\ out \in Seq(Event)
      /\ ln.arg \in Macros \cup {None} /\ ln.form \in Forms
  <2>1. cur \in Lexer /\ ln \in Line /\ out \in Seq(Event)
    BY <1>1, <1>2, Reading DEF IInv, TypeOK
  <2>2. ln.k # "include" /\ ln.form \in Forms
    BY <1>2, <2>1 DEF Opens, Line
  <2> QED
    BY <2>1, <2>2, LineArg
<1> DEFINE a == Advance(cur)
<1>4. a \in Lexer /\ a.file = cur.file /\ a.pos = cur.pos + 1 /\ a.cond = cur.cond /\ ~a.raw /\ a.raw = cur.raw
  BY <1>2, <1>3, AdvanceFields
<1> HIDE DEF a
<1>5. cur.mi.any \in BOOLEAN
  BY <1>3, LexerParts
(* The block is read or sought, with or without a diagnostic. *)
<1>6. \E l \in Lexer, reads \in BOOLEAN, evs \in {<<>>, <<Diag("missing_name")>>, BadDiag(ln)} :
        /\ l.file = cur.file /\ l.pos = cur.pos + 1 /\ l.cond = cur.cond /\ ~l.raw
        /\ cur' = IF reads THEN EnterBlock(l) ELSE SkipBlock(l, FALSE, FALSE)
        /\ out' = out \o evs
        /\ \A r : Live(r.g) /\ r.macros = macros
                    => ReadOpening(r, ln) = Open(r, IF reads THEN "reading" ELSE "seeking", evs)
  <2>1. CASE HandleIfdefDirective /\ ln.arg = None
    <3>1. cur' = SkipBlock(a, FALSE, FALSE) /\ out' = Append(out, Diag("missing_name"))
      BY <1>1, <2>1 DEF HandleIfdefDirective, a
    <3>2. out' = out \o <<Diag("missing_name")>>
      BY <1>3, <3>1, AppendIs
    <3>3. ln.k # "if"
      BY <1>1, <2>1 DEF HandleIfdefDirective, AtLine
    <3>4. \A r : Live(r.g) => ReadOpening(r, ln) = Open(r, "seeking", <<Diag("missing_name")>>)
      BY <2>1, <3>3 DEF ReadOpening
    <3> QED
      BY <1>4, <3>1, <3>2, <3>4
  <2>2. CASE HandleIfdefDirective /\ ln.arg # None
    <3>1. PICK k \in {"ifdef", "ifndef"} :
            /\ ln.k = k /\ out' = out
            /\ LET guard == IF k = "ifndef" THEN ln.arg ELSE None
                   l == AtConditional(a, cur.mi.any, guard)
               IN cur' = IF (ln.arg \notin macros) = (k = "ifndef")
                         THEN EnterBlock(l) ELSE SkipBlock(l, FALSE, FALSE)
      BY <1>1, <2>2 DEF HandleIfdefDirective, AtLine, a
    <3> DEFINE guard == IF k = "ifndef" THEN ln.arg ELSE None
               l == AtConditional(a, cur.mi.any, guard)
    <3>2. guard \in Macros \cup {None}
      BY <1>3
    <3> HIDE DEF guard
    <3>3. Alike(l, a)
      BY <1>4, <1>5, <3>2, Quiet
    <3>4. PICK reads \in BOOLEAN : reads <=> ((ln.arg \notin macros) = (k = "ifndef"))
      OBVIOUS
    <3>5. cur' = IF reads THEN EnterBlock(l) ELSE SkipBlock(l, FALSE, FALSE)
      BY <3>1, <3>4 DEF guard
    <3>6. \A r : Live(r.g) /\ r.macros = macros
                  => ReadOpening(r, ln) = Open(r, IF reads THEN "reading" ELSE "seeking", <<>>)
      BY <2>2, <3>1, <3>4 DEF ReadOpening, OpensBlock
    <3>7. out' = out \o <<>>
      BY <1>3, <3>1, AppendIs
    <3> HIDE DEF l
    <3> QED
      BY <1>4, <3>3, <3>5, <3>6, <3>7 DEF Alike
  <2>3. CASE HandleIfDirective
    <3> DEFINE guard == IF ln.form \in {"notdefined", "expanded"} THEN ln.arg ELSE None
               e == AfterEvaluating(a, ln)
               l == AtConditional(e, cur.mi.any, guard)
    <3>1. /\ ln.k = "if" /\ out' = out \o EvaluationDiag(ln)
          /\ cur' = IF Holds(ln) THEN EnterBlock(l) ELSE SkipBlock(l, FALSE, FALSE)
      BY <1>1, <2>3 DEF HandleIfDirective, AtLine, a
    <3>2. guard \in Macros \cup {None}
      BY <1>3
    <3> HIDE DEF guard
    <3>3. Alike(e, a)
      BY <1>4, Quiet
    <3> HIDE DEF e
    <3>4. Alike(l, e)
      BY <1>5, <3>2, <3>3, Quiet DEF Alike
    <3> HIDE DEF l
    <3>5. PICK reads \in BOOLEAN : reads <=> Holds(ln)
      OBVIOUS
    <3>6. (reads <=> RefHolds(ln, macros)) /\ EvaluationDiag(ln) = BadDiag(ln)
      BY <1>3, <3>5, SameCondition
    <3>7. \A r : Live(r.g) /\ r.macros = macros
                  => ReadOpening(r, ln) = Open(r, IF reads THEN "reading" ELSE "seeking", BadDiag(ln))
      BY <3>1, <3>6 DEF ReadOpening, OpensBlock
    <3>8. l \in Lexer /\ l.file = cur.file /\ l.pos = cur.pos + 1 /\ l.cond = cur.cond /\ ~l.raw
      BY <1>4, <3>3, <3>4 DEF Alike
    <3>9. cur' = IF reads THEN EnterBlock(l) ELSE SkipBlock(l, FALSE, FALSE)
      BY <3>1, <3>5
    <3> QED
      BY <3>1, <3>6, <3>7, <3>8, <3>9
  <2> QED
    BY <2>1, <2>2, <2>3
<1>7. PICK l \in Lexer, reads \in BOOLEAN, evs \in {<<>>, <<Diag("missing_name")>>, BadDiag(ln)} :
        /\ l.file = cur.file /\ l.pos = cur.pos + 1 /\ l.cond = cur.cond /\ ~l.raw
        /\ cur' = IF reads THEN EnterBlock(l) ELSE SkipBlock(l, FALSE, FALSE)
        /\ out' = out \o evs
        /\ \A r : Live(r.g) /\ r.macros = macros
                    => ReadOpening(r, ln) = Open(r, IF reads THEN "reading" ELSE "seeking", evs)
  BY <1>6
<1>8. cur'.file = cur.file /\ cur'.pos = cur.pos + 1
  BY <1>7, BlockFields
<1>9. ASSUME NEW g, Matches(cur, g)
      PROVE  \E g2 : /\ Matches(cur', g2)
                     /\ ReadLine(deeper, Len(inc), At(g, macros, out), Here) = At(g2, macros', out')
  <2> DEFINE r == At(g, macros, out)
             st == IF reads THEN "reading" ELSE "seeking"
             g2 == Append(g, [st |-> st, els |-> FALSE])
  <2>1. r.g = g /\ r.macros = macros /\ Live(g)
    BY <1>2, <1>3, <1>9, AtFields, LiveWhenReading
  <2>2. ReadLine(deeper, Len(inc), r, ln) = ReadOpening(r, ln)
    BY <1>2, ReadLineIs
  <2>3. ReadOpening(r, ln) = Open(r, st, evs)
    <3> HIDE DEF r
    <3> QED
      BY <1>7, <2>1
  <2>4. Open(r, st, evs) = At(g2, macros', out')
    BY <1>2, <1>7, OpenIs
  <2>5. /\ Matches(EnterBlock(l), Append(g, [st |-> "reading", els |-> FALSE]))
        /\ Matches(SkipBlock(l, FALSE, FALSE), Append(g, [st |-> "seeking", els |-> FALSE]))
    BY <1>2, <1>3, <1>7, <1>9, BlockMatches
  <2>6. Matches(cur', g2)
    BY <1>7, <2>5
  <2> QED
    BY <1>1, <2>2, <2>3, <2>4, <2>6
<1> QED
  BY <1>2, <1>8, <1>9 DEF ReadsAs

(* An #else or #elif met while reading. *)
LEMMA AlternativeReads ==
  ASSUME IInv, HandleElseDirective \/ HandleElifDirective, NEW deeper
  PROVE  ReadsAs(deeper)
<1>1. PICK ln : ln = Here
  OBVIOUS
<1> DEFINE missing  == IF ln.k = "else" THEN "else_without_if" ELSE "elif_without_if"
           repeated == IF ln.k = "else" THEN "else_after_else" ELSE "elif_after_else"
<1>2. /\ ~cur.raw /\ ~AtEnd /\ ln.k \in {"else", "elif"} /\ UNCHANGED <<text, inc, eof, macros>>
  BY <1>1 DEF HandleElseDirective, HandleElifDirective, HandleAlternative, AtLine
<1>3. cur \in Lexer /\ out \in Seq(Event)
  BY <1>1, <1>2, Reading DEF IInv, TypeOK
<1> DEFINE a == Advance(cur)
           ci == Last(cur.cond)
           l == WithCond(a, Front(cur.cond))
<1>4. a \in Lexer /\ a.file = cur.file /\ a.pos = cur.pos + 1 /\ a.cond = cur.cond /\ ~a.raw /\ a.raw = cur.raw
  BY <1>2, <1>3, AdvanceFields
<1>5. IF cur.cond = <<>>
      THEN cur' = a /\ out' = Append(out, Diag(missing))
      ELSE /\ cur' = SkipBlock(AtAlternative(l), TRUE, ln.k = "else" \/ ci.els)
           /\ out' = IF ci.els THEN Append(out, Diag(repeated)) ELSE out
  BY <1>1, <1>2 DEF HandleElseDirective, HandleElifDirective, HandleAlternative, AtLine
<1> HIDE DEF a, missing, repeated
<1>6. CASE cur.cond = <<>>
  <2>1. /\ cur' = a /\ out' = out \o <<Diag(missing)>>
    BY <1>3, <1>5, <1>6, AppendIs
  <2>2. ASSUME NEW g, Matches(cur, g)
        PROVE  /\ Matches(cur', g)
               /\ ReadLine(deeper, Len(inc), At(g, macros, out), ln) = At(g, macros', out')
    <3> DEFINE r == At(g, macros, out)
    <3>1. Matches(cur', g)
      BY <1>2, <1>4, <2>1, <2>2, MatchesSame
    <3>2. g = <<>>
      BY <1>3, <1>6, <2>2, MatchesParts
    <3>3. ReadLine(deeper, Len(inc), r, ln) = ReadTurning(r, ln)
      BY <1>2, ReadLineIs
    <3>4. r.g = g /\ r.macros = macros /\ r.out = out
      BY AtFields
    <3> HIDE DEF r
    <3>5. ReadTurning(r, ln) = At(g, macros, out \o <<Diag(missing)>>)
      BY <3>2, <3>4 DEF ReadTurning, Says, missing
    <3> QED
      BY <1>2, <2>1, <3>1, <3>3, <3>5 DEF r
  <2>3. cur'.file = cur.file /\ cur'.pos = cur.pos + 1
    BY <1>4, <2>1
  <2> QED
    BY <1>1, <1>2, <2>2, <2>3 DEF ReadsAs
<1>7. CASE cur.cond # <<>>
  <2>1. Front(cur.cond) \in Seq(Level) /\ ci \in Level
    BY <1>3, <1>7, LexerParts, FrontLast
  <2>2. /\ l \in Lexer /\ l.file = cur.file /\ l.pos = cur.pos + 1
        /\ l.cond = Front(cur.cond) /\ ~l.raw
    BY <1>4, <2>1, SetCond
  <2> HIDE DEF l, ci
  <2>3. PICK k : k = AtAlternative(l)
    OBVIOUS
  <2>4. k \in Lexer /\ k.file = cur.file /\ k.pos = cur.pos + 1 /\ k.cond = l.cond /\ ~k.raw
    BY <2>2, <2>3, Quiet DEF Alike
  <2>5. PICK els \in BOOLEAN : els = (ln.k = "else" \/ ci.els)
    OBVIOUS
  <2>6. PICK yes \in BOOLEAN : yes = TRUE
    OBVIOUS
  <2>7. /\ cur' = SkipBlock(k, yes, els)
        /\ out' = out \o (IF ~ci.els THEN <<>> ELSE <<Diag(repeated)>>)
    <3>1. cur' = SkipBlock(k, yes, els)
      BY <1>5, <1>7, <2>3, <2>5, <2>6
    <3>2. out' = IF ci.els THEN Append(out, Diag(repeated)) ELSE out
      BY <1>5, <1>7
    <3> QED
      BY <1>3, <3>1, <3>2, AppendIs
  <2>8. cur'.file = cur.file /\ cur'.pos = cur.pos + 1
    BY <2>4, <2>7, BlockFields
  <2>9. ASSUME NEW g, Matches(cur, g)
        PROVE  \E g2 : /\ Matches(cur', g2)
                       /\ ReadLine(deeper, Len(inc), At(g, macros, out), ln) = At(g2, macros', out')
    <3> DEFINE r == At(g, macros, out)
               g2 == Append(Front(g), [st |-> "done", els |-> els])
    <3>1. Matches(l, Front(g))
      BY <1>2, <1>3, <1>7, <2>2, <2>9, MatchesPop
    <3>2. Matches(SkipBlock(k, yes, els),
                  Append(Front(g), [st |-> IF yes THEN "done" ELSE "seeking", els |-> els]))
      BY <2>2, <2>4, <3>1, BlockMatches
    <3>3. Matches(cur', g2)
      BY <2>6, <2>7, <3>2
    <3>4. g # <<>> /\ Last(g).els = ci.els /\ Last(g).st = "reading"
      BY <1>2, <1>3, <1>7, <2>9, MatchesTop DEF ci
    <3>5. ReadLine(deeper, Len(inc), r, ln) = ReadTurning(r, ln)
      BY <1>2, ReadLineIs
    <3>6. r.g = g /\ r.macros = macros /\ r.out = out
      BY AtFields
    <3> HIDE DEF r
    <3>7. Turn(Last(g).st, ln, macros) = "done"
      BY <3>4 DEF Turn
    <3>8. (Last(g).els \/ ln.k = "else") = els
      BY <2>1, <2>5, <3>4 DEF Level
    <3>9. ReadTurning(r, ln)
            = At(Append(Front(g), [st |-> Turn(Last(g).st, ln, macros), els |-> Last(g).els \/ ln.k = "else"]),
                 macros, out \o <<>> \o (IF ~ci.els THEN <<>> ELSE <<Diag(repeated)>>))
      BY <3>4, <3>6 DEF ReadTurning, repeated
    <3>10. ReadTurning(r, ln) = At(g2, macros', out')
      BY <1>2, <1>3, <2>7, <3>7, <3>8, <3>9, AppendIs
    <3> QED
      BY <3>3, <3>5, <3>10 DEF r
  <2> QED
    BY <1>1, <1>2, <2>8, <2>9 DEF ReadsAs
<1> QED
  BY <1>6, <1>7

(* An #endif met while reading. *)
LEMMA EndifReads ==
  ASSUME IInv, HandleEndifDirective, NEW deeper
  PROVE  ReadsAs(deeper)
<1>1. PICK ln : ln = Here
  OBVIOUS
<1>2. /\ ~cur.raw /\ ~AtEnd /\ Closes(ln) /\ UNCHANGED <<text, inc, eof, macros>>
  BY <1>1 DEF HandleEndifDirective, AtLine, Closes
<1>3. cur \in Lexer /\ out \in Seq(Event)
  BY <1>1, <1>2, Reading DEF IInv, TypeOK
<1> DEFINE a == Advance(cur)
           l == WithCond(a, Front(cur.cond))
<1>4. a \in Lexer /\ a.file = cur.file /\ a.pos = cur.pos + 1 /\ a.cond = cur.cond /\ ~a.raw /\ a.raw = cur.raw
  BY <1>2, <1>3, AdvanceFields
<1>5. IF cur.cond = <<>>
      THEN cur' = a /\ out' = Append(out, Diag("endif_without_if"))
      ELSE cur' \in {l, WithMI(l, ExitTopLevelConditional(l.mi))} /\ out' = out
  BY DEF HandleEndifDirective
<1> HIDE DEF a
<1>6. CASE cur.cond = <<>>
  <2>1. /\ cur' = a /\ out' = out \o <<Diag("endif_without_if")>>
    BY <1>3, <1>5, <1>6, AppendIs
  <2>2. ASSUME NEW g, Matches(cur, g)
        PROVE  /\ Matches(cur', g)
               /\ ReadLine(deeper, Len(inc), At(g, macros, out), ln) = At(g, macros', out')
    <3> DEFINE r == At(g, macros, out)
    <3>1. Matches(cur', g)
      BY <1>2, <1>4, <2>1, <2>2, MatchesSame
    <3>2. g = <<>>
      BY <1>3, <1>6, <2>2, MatchesParts
    <3>3. ReadLine(deeper, Len(inc), r, ln) = ReadClosing(r)
      BY <1>2, ReadLineIs
    <3>4. r.g = g /\ r.macros = macros /\ r.out = out
      BY AtFields
    <3> HIDE DEF r
    <3>5. ReadClosing(r) = At(g, macros, out \o <<Diag("endif_without_if")>>)
      BY <3>2, <3>4 DEF ReadClosing, Says
    <3> QED
      BY <1>2, <2>1, <3>1, <3>3, <3>5 DEF r
  <2>3. cur'.file = cur.file /\ cur'.pos = cur.pos + 1
    BY <1>4, <2>1
  <2> QED
    BY <1>1, <1>2, <2>2, <2>3 DEF ReadsAs
<1>7. CASE cur.cond # <<>>
  <2>1. Front(cur.cond) \in Seq(Level)
    BY <1>3, <1>7, LexerParts, FrontLast
  <2>2. /\ l \in Lexer /\ l.file = cur.file /\ l.pos = cur.pos + 1
        /\ l.cond = Front(cur.cond) /\ ~l.raw
    BY <1>4, <2>1, SetCond
  <2> HIDE DEF l
  <2>3. ExitTopLevelConditional(l.mi) \in MIOptState
    BY <2>2, LexerParts DEF MIOptState, ExitTopLevelConditional, Invalidate
  <2>4. /\ cur'.file = cur.file /\ cur'.pos = cur.pos + 1
        /\ cur'.cond = Front(cur.cond) /\ ~cur'.raw /\ out' = out
    BY <1>5, <1>7, <2>2, <2>3, SetMI
  <2>5. ASSUME NEW g, Matches(cur, g)
        PROVE  /\ Matches(cur', Front(g))
               /\ ReadLine(deeper, Len(inc), At(g, macros, out), ln) = At(Front(g), macros', out')
    <3> DEFINE r == At(g, macros, out)
    <3>1. Matches(cur', Front(g))
      BY <1>2, <1>3, <1>7, <2>4, <2>5, MatchesPop
    <3>2. g # <<>>
      BY <1>3, <1>7, <2>5, MatchesParts
    <3>3. ReadLine(deeper, Len(inc), r, ln) = ReadClosing(r)
      BY <1>2, ReadLineIs
    <3>4. r.g = g /\ r.macros = macros /\ r.out = out
      BY AtFields
    <3> HIDE DEF r
    <3>5. ReadClosing(r) = At(Front(g), macros, out)
      BY <3>2, <3>4 DEF ReadClosing
    <3> QED
      BY <1>2, <2>4, <3>1, <3>3, <3>5 DEF r
  <2> QED
    BY <1>1, <1>2, <2>4, <2>5 DEF ReadsAs
<1> QED
  BY <1>6, <1>7

(* An #include of a file that cannot be entered, or that the filter skips  *)
(* and the reader leaves as it entered it.                                 *)
LEMMA IncludeReads ==
  ASSUME IInv, HandleIncludeDirective, NEW deeper,
         \/ IncludeTooDeep \/ Here.arg = None
         \/ /\ ~ShouldEnterIncludeFile(Here.arg)
            /\ deeper[Here.arg][ [macros |-> macros, out |-> out] ] = [macros |-> macros, out |-> out]
  PROVE  ReadsAs(deeper)
<1>1. PICK ln : ln = Here
  OBVIOUS
<1>2. /\ ~cur.raw /\ ~AtEnd /\ ln.k = "include" /\ UNCHANGED <<text, eof, macros>>
  BY <1>1 DEF HandleIncludeDirective, AtLine
<1>3. cur \in Lexer /\ out \in Seq(Event)
  BY <1>1, <1>2, Reading DEF IInv, TypeOK
<1> DEFINE a == Advance(cur)
<1>4. a \in Lexer /\ a.file = cur.file /\ a.pos = cur.pos + 1 /\ a.cond = cur.cond /\ ~a.raw /\ a.raw = cur.raw
  BY <1>2, <1>3, AdvanceFields
<1>5. /\ cur' = a /\ inc' = inc
      /\ IF IncludeTooDeep THEN out' = Append(out, Diag("include_too_deep"))
         ELSE IF ln.arg = None THEN out' = Append(out, Diag("file_not_found"))
         ELSE out' = out /\ deeper[ln.arg][ [macros |-> macros, out |-> out] ]
                            = [macros |-> macros, out |-> out]
  BY <1>1 DEF HandleIncludeDirective
<1> HIDE DEF a
<1>6. ASSUME NEW g, Matches(cur, g)
      PROVE  /\ Matches(cur', g)
             /\ ReadLine(deeper, Len(inc), At(g, macros, out), ln) = At(g, macros', out')
  <2> DEFINE r == At(g, macros, out)
             d == Len(inc)
  <2>1. Matches(cur', g)
    BY <1>2, <1>4, <1>5, <1>6, MatchesSame
  <2>2. r.g = g /\ r.macros = macros /\ r.out = out
    BY AtFields
  <2> HIDE DEF r
  <2>3. Live(r.g)
    BY <1>2, <1>3, <1>6, <2>2, LiveWhenReading
  <2>4. ReadLine(deeper, d, r, ln) = ReadInclude(deeper, d, r, ln)
    BY <1>2, <2>3, ReadLineIs
  <2>5. IncludeTooDeep <=> d = MaxAllowedIncludeStackDepth - 1
    BY DEF IncludeTooDeep
  <2>6. CASE IncludeTooDeep
    <3>1. ReadInclude(deeper, d, r, ln) = At(g, macros, out \o <<Diag("include_too_deep")>>)
      BY <2>2, <2>5, <2>6 DEF ReadInclude, Says
    <3>2. out' = out \o <<Diag("include_too_deep")>>
      BY <1>3, <1>5, <2>6, AppendIs
    <3> QED
      BY <1>2, <2>1, <2>4, <3>1, <3>2 DEF r
  <2>7. CASE ~IncludeTooDeep /\ ln.arg = None
    <3>1. ReadInclude(deeper, d, r, ln) = At(g, macros, out \o <<Diag("file_not_found")>>)
      BY <2>2, <2>5, <2>7 DEF ReadInclude, Says
    <3>2. out' = out \o <<Diag("file_not_found")>>
      BY <1>3, <1>5, <2>7, AppendIs
    <3> QED
      BY <1>2, <2>1, <2>4, <3>1, <3>2 DEF r
  <2>8. CASE ~IncludeTooDeep /\ ln.arg # None
    <3>1. /\ out' = out
          /\ deeper[ln.arg][ [macros |-> macros, out |-> out] ] = [macros |-> macros, out |-> out]
      BY <1>5, <2>8
    <3>2. ReadInclude(deeper, d, r, ln) = At(g, macros, out)
      BY <2>2, <2>5, <2>8, <3>1 DEF ReadInclude
    <3> QED
      BY <1>2, <2>1, <2>4, <3>1, <3>2 DEF r
  <2> QED
    BY <2>6, <2>7, <2>8
<1> QED
  BY <1>1, <1>2, <1>4, <1>5, <1>6 DEF ReadsAs

(* While skipping, the conditional stack is not empty. *)
LEMMA SkippingLevels ==
  ASSUME NEW l \in Lexer, NEW g, Matches(l, g), l.raw
  PROVE  l.cond # <<>>
<1>1. PICK b \in 1 .. Len(g) : TRUE
  BY DEF Matches
<1>2. Len(g) \in Nat /\ Len(g) = Len(l.cond)
  BY MatchesParts
<1> QED
  BY <1>1, <1>2

(* The lines of a skipped block that are no #else and no #elif. *)
LEMMA SkipReads ==
  ASSUME IInv, SkipOther \/ SkipIf \/ SkipEndif, NEW deeper
  PROVE  ReadsAs(deeper)
<1>1. PICK ln : ln = Here
  OBVIOUS
<1>2. /\ cur.raw /\ ~AtEnd /\ UNCHANGED <<text, inc, eof, macros, out>>
  BY DEF SkipOther, SkipIf, SkipEndif, SkipLine
<1>3. cur \in Lexer /\ out \in Seq(Event)
  BY <1>2, Reading DEF IInv, TypeOK
<1> DEFINE a == Advance(cur)
<1>4. a \in Lexer /\ a.file = cur.file /\ a.pos = cur.pos + 1 /\ a.cond = cur.cond /\ a.raw = cur.raw
  BY <1>3, AdvanceFields
<1>5. CASE SkipOther
  <2>1. ln.k \in {"text", "use", "define", "undef", "include"} /\ cur' = a
    BY <1>1, <1>5 DEF SkipOther, SkipLine
  <2> HIDE DEF a
  <2>2. ASSUME NEW g, Matches(cur, g)
        PROVE  /\ Matches(cur', g)
               /\ ReadLine(deeper, Len(inc), At(g, macros, out), ln) = At(g, macros', out')
    <3> DEFINE r == At(g, macros, out)
    <3>1. Matches(cur', g)
      BY <1>4, <2>1, <2>2, MatchesSame
    <3>2. r.g = g
      BY AtFields
    <3> HIDE DEF r
    <3>3. ~Live(r.g)
      BY <1>2, <1>3, <2>2, <3>2, LiveWhenReading
    <3>4. ReadLine(deeper, Len(inc), r, ln) = r
      BY <2>1, <3>3, ReadLineIs
    <3> QED
      BY <1>2, <3>1, <3>4 DEF r
  <2> QED
    BY <1>1, <1>2, <1>4, <2>1, <2>2 DEF ReadsAs
<1>6. CASE SkipIf
  <2>1. /\ Opens(ln)
        /\ cur' = WithCond(a, Append(cur.cond, LevelOf(TRUE, FALSE, FALSE)))
    BY <1>1, <1>6 DEF SkipIf, SkipLine, Opens
  <2> HIDE DEF a
  <2>2. PICK lev \in Level : lev = LevelOf(TRUE, FALSE, FALSE) /\ lev.was /\ lev.els = FALSE
    BY LevelFields
  <2>3. \A c \in Seq(Level), x \in Level : Append(c, x) \in Seq(Level)
    OBVIOUS
  <2>4. PICK c \in Seq(Level) : c = Append(cur.cond, lev)
    BY <1>3, <2>3, LexerParts, Zenon
  <2>5. cur' = WithCond(a, c)
    BY <2>1, <2>2, <2>4
  <2>6. /\ cur'.file = cur.file /\ cur'.pos = cur.pos + 1 /\ cur'.raw
        /\ cur'.cond = Append(cur.cond, lev)
    BY <1>2, <1>4, <2>4, <2>5, SetCond
  <2>7. PICK x \in Group : x = [st |-> "dead", els |-> FALSE] /\ x.st = "dead" /\ x.els = FALSE
    <3>1. [st |-> "dead", els |-> FALSE] \in Group
      BY DEF Group
    <3> QED
      BY <3>1
  <2>8. ASSUME NEW g, Matches(cur, g)
        PROVE  /\ Matches(cur', Append(g, x))
               /\ ReadLine(deeper, Len(inc), At(g, macros, out), ln)
                    = At(Append(g, x), macros', out')
    <3> DEFINE r == At(g, macros, out)
    <3>1. Matches(cur', Append(g, x))
      BY <1>2, <1>3, <2>2, <2>6, <2>7, <2>8, MatchesPush
    <3>2. r.g = g
      BY AtFields
    <3>3. ~Live(r.g)
      BY <1>2, <1>3, <2>8, <3>2, LiveWhenReading
    <3>4. Open(r, "dead", <<>>) = At(Append(g, x), macros, out \o <<>>)
      <4>1. r.g = g /\ r.macros = macros /\ r.out = out
        BY AtFields
      <4> HIDE DEF r
      <4> QED
        BY <2>7, <4>1 DEF Open
    <3> HIDE DEF r
    <3>5. ReadLine(deeper, Len(inc), r, ln) = ReadOpening(r, ln)
      BY <2>1, ReadLineIs
    <3>6. ReadOpening(r, ln) = Open(r, "dead", <<>>)
      BY <3>3 DEF ReadOpening
    <3> QED
      BY <1>2, <1>3, <3>1, <3>4, <3>5, <3>6, AppendIs DEF r
  <2> QED
    BY <1>1, <1>2, <2>6, <2>8 DEF ReadsAs
<1>7. CASE SkipEndif
  <2> DEFINE l == WithCond(a, Front(cur.cond))
  <2>1. Closes(ln) /\ cur' = WithRaw(l, Last(cur.cond).was)
    BY <1>1, <1>7 DEF SkipEndif, SkipLine, Closes
  <2> HIDE DEF a
  <2>2. ASSUME cur.cond # <<>>
        PROVE  /\ cur'.file = cur.file /\ cur'.pos = cur.pos + 1
               /\ cur'.cond = Front(cur.cond) /\ cur'.raw = Last(cur.cond).was
    <3>1. Front(cur.cond) \in Seq(Level) /\ Last(cur.cond) \in Level
      BY <1>3, <2>2, LexerParts, FrontLast
    <3>2. Last(cur.cond).was \in BOOLEAN
      BY <3>1 DEF Level
    <3>3. l \in Lexer /\ l.file = cur.file /\ l.pos = cur.pos + 1 /\ l.cond = Front(cur.cond)
      BY <1>4, <3>1, SetCond
    <3> HIDE DEF l
    <3>4. PICK was \in BOOLEAN : was = Last(cur.cond).was
      BY <3>2
    <3> QED
      BY <2>1, <3>3, <3>4, SetRaw
  <2> HIDE DEF l
  <2>3. ASSUME NEW g, Matches(cur, g)
        PROVE  /\ cur.cond # <<>>
               /\ Matches(cur', Front(g))
               /\ ReadLine(deeper, Len(inc), At(g, macros, out), ln) = At(Front(g), macros', out')
    <3> DEFINE r == At(g, macros, out)
    <3>1. cur.cond # <<>>
      BY <1>2, <1>3, <2>3, SkippingLevels
    <3>2. Matches(cur', Front(g))
      BY <1>2, <1>3, <2>2, <2>3, <3>1, MatchesPop
    <3>3. g # <<>>
      BY <1>3, <2>3, <3>1, MatchesParts
    <3>4. ReadLine(deeper, Len(inc), r, ln) = ReadClosing(r)
      BY <2>1, ReadLineIs
    <3>5. r.g = g /\ r.macros = macros /\ r.out = out
      BY AtFields
    <3> HIDE DEF r
    <3>6. ReadClosing(r) = At(Front(g), macros, out)
      BY <3>3, <3>5 DEF ReadClosing
    <3> QED
      BY <1>2, <3>1, <3>2, <3>4, <3>6 DEF r
  <2>4. cur.cond # <<>>
    BY <1>2, <1>3 DEF IInv, SkippingOnlyInRawMode, LevelsOK
  <2> QED
    BY <1>1, <1>2, <2>2, <2>3, <2>4 DEF ReadsAs
<1> QED
  BY <1>5, <1>6, <1>7

(* An #else or #elif of a skipped block, or inside one. *)
LEMMA TurnReads ==
  ASSUME IInv, SkipElse \/ SkipElif, NEW deeper
  PROVE  ReadsAs(deeper)
<1>1. PICK ln : ln = Here
  OBVIOUS
<1>2. /\ cur.raw /\ ~AtEnd /\ ln.k \in {"else", "elif"} /\ UNCHANGED <<text, inc, eof, macros>>
  BY <1>1 DEF SkipElse, SkipElif, SkipLine
<1>3. cur \in Lexer /\ out \in Seq(Event) /\ ln \in Line /\ ln.form \in Forms
  BY <1>1, <1>2, Reading DEF IInv, TypeOK, Line
<1>4. cur.cond # <<>> /\ cur.cond \in Seq(Level)
  BY <1>2, <1>3, LexerParts DEF IInv, SkippingOnlyInRawMode, LevelsOK
<1> DEFINE a == Advance(cur)
           ci == Last(cur.cond)
           seeks == ~ci.was /\ ~ci.found
           after == IF ln.k = "else" THEN "else_after_else" ELSE "elif_after_else"
<1>5. a \in Lexer /\ a.file = cur.file /\ a.pos = cur.pos + 1 /\ a.cond = cur.cond /\ a.raw = cur.raw
  BY <1>3, AdvanceFields
<1>6. ci \in Level /\ ci.was \in BOOLEAN /\ ci.found \in BOOLEAN /\ ci.els \in BOOLEAN
  <2>1. ci \in Level
    BY <1>4, FrontLast
  <2> HIDE DEF ci
  <2> QED
    BY <2>1 DEF Level
<1>7. PICK enter \in BOOLEAN : enter <=> (seeks /\ (ln.k = "else" \/ RefHolds(ln, macros)))
  OBVIOUS
<1>8. PICK lev \in Level : /\ lev = LevelOf(ci.was, ci.found \/ enter, ci.els \/ ln.k = "else")
                          /\ lev.was = ci.was /\ lev.found = (ci.found \/ enter)
                          /\ lev.els = (ci.els \/ ln.k = "else")
  <2> HIDE DEF ci
  <2>1. PICK w \in BOOLEAN, f \in BOOLEAN, e \in BOOLEAN :
          w = ci.was /\ f = (ci.found \/ enter) /\ e = (ci.els \/ ln.k = "else")
    BY <1>6
  <2>2. /\ LevelOf(w, f, e) \in Level /\ LevelOf(w, f, e).was = w
        /\ LevelOf(w, f, e).found = f /\ LevelOf(w, f, e).els = e
    BY LevelFields
  <2> QED
    BY <2>1, <2>2
<1>9. \E l \in {a, AfterEvaluating(a, ln)} : cur' = WithRaw(SetTop(l, lev), ~enter)
  <2>1. CASE SkipElse
    <3>1. ln.k = "else" /\ cur' = WithRaw(SetTop(a, LevelOf(ci.was, ci.found \/ seeks, TRUE)), ~seeks)
      BY <1>1, <2>1 DEF SkipElse, SkipLine
    <3>2. enter = seeks /\ TRUE = (ci.els \/ ln.k = "else")
      BY <1>7, <3>1
    <3> QED
      BY <1>8, <3>1, <3>2
  <2>2. CASE SkipElif
    <3>1. /\ ln.k = "elif"
          /\ cur' = WithRaw(SetTop(IF seeks THEN AfterEvaluating(a, ln) ELSE a,
                                   LevelOf(ci.was, ci.found \/ (seeks /\ Holds(ln)), ci.els)),
                            ~(seeks /\ Holds(ln)))
      BY <1>1, <2>2 DEF SkipElif, SkipLine
    <3>2. Holds(ln) <=> RefHolds(ln, macros)
      BY <1>3, SameCondition
    <3>3. enter = (seeks /\ Holds(ln)) /\ ci.els = (ci.els \/ ln.k = "else")
      BY <1>6, <1>7, <3>1, <3>2
    <3> QED
      BY <1>8, <3>1, <3>3
  <2> QED
    BY <2>1, <2>2
<1>10. out' = out \o (IF ln.k = "elif" /\ seeks THEN BadDiag(ln) ELSE <<>>)
                  \o (IF ~ci.els THEN <<>> ELSE <<Diag(after)>>)
  <2>1. CASE SkipElse
    <3>1. ln.k = "else" /\ out' = IF ci.els THEN Append(out, Diag("else_after_else")) ELSE out
      BY <1>1, <2>1 DEF SkipElse, SkipLine
    <3> QED
      BY <1>3, <3>1, AppendIs
  <2>2. CASE SkipElif
    <3>1. /\ ln.k = "elif"
          /\ out' = out \o (IF seeks THEN EvaluationDiag(ln) ELSE <<>>)
                        \o (IF ci.els THEN <<Diag("elif_after_else")>> ELSE <<>>)
      BY <1>1, <2>2 DEF SkipElif, SkipLine
    <3>2. EvaluationDiag(ln) = BadDiag(ln)
      BY <1>3, SameCondition
    <3> QED
      BY <3>1, <3>2
  <2> QED
    BY <2>1, <2>2
<1> HIDE DEF a, ci
<1>11. /\ cur'.file = cur.file /\ cur'.pos = cur.pos + 1
       /\ cur'.cond = [cur.cond EXCEPT ![Len(cur.cond)] = lev] /\ cur'.raw = ~enter
  <2>1. PICK l \in {a, AfterEvaluating(a, ln)} : cur' = WithRaw(SetTop(l, lev), ~enter)
    BY <1>9
  <2>2. l \in Lexer /\ l.file = cur.file /\ l.pos = cur.pos + 1 /\ l.cond = cur.cond
    BY <1>5, <2>1, Quiet DEF Alike
  <2>3. [cur.cond EXCEPT ![Len(cur.cond)] = lev] \in Seq(Level)
    BY <1>4
  <2>4. PICK k \in Lexer : /\ k = SetTop(l, lev) /\ k.file = cur.file /\ k.pos = cur.pos + 1
                          /\ k.cond = [cur.cond EXCEPT ![Len(cur.cond)] = lev]
    BY <2>2, <2>3, SetCond DEF SetTop
  <2>5. PICK b \in BOOLEAN : b = ~enter
    OBVIOUS
  <2> QED
    BY <2>1, <2>4, <2>5, SetRaw
<1>12. ASSUME NEW g, Matches(cur, g)
       PROVE  \E g2 : /\ Matches(cur', g2)
                      /\ ReadLine(deeper, Len(inc), At(g, macros, out), ln) = At(g2, macros', out')
  <2> DEFINE r == At(g, macros, out)
             top == Last(g)
             st == Turn(top.st, ln, macros)
             els == top.els \/ ln.k = "else"
             x == [st |-> st, els |-> els]
  <2>1. /\ g # <<>> /\ top.els = ci.els /\ top \in Group
        /\ top.st = IF ci.was THEN "dead" ELSE IF ci.found THEN "done" ELSE "seeking"
    BY <1>2, <1>3, <1>4, <1>12, MatchesTop DEF ci
  <2> HIDE DEF top
  <2>2. top.st = "seeking" <=> seeks
    BY <2>1
  <2>3. st = IF enter THEN "reading" ELSE top.st
    BY <1>2, <1>7, <2>1, <2>2 DEF Turn
  <2> HIDE DEF st
  <2>4. els \in BOOLEAN /\ els = lev.els
    BY <1>6, <1>8, <2>1
  <2> HIDE DEF els
  <2>5. x \in Group /\ x.st = st /\ x.els = lev.els
    <3>1. st \in {"seeking", "reading", "done", "dead"}
      BY <2>1, <2>3
    <3> QED
      BY <2>4, <3>1 DEF Group
  <2> HIDE DEF x
  <2>6. Matches(cur', Append(Front(g), x))
    <3>1. PICK l : l = cur'
      OBVIOUS
    <3>2. /\ lev.was = Last(cur.cond).was
          /\ l.cond = [cur.cond EXCEPT ![Len(cur.cond)] = lev]
          /\ \/ l.raw /\ lev.found = Last(cur.cond).found /\ x.st = Last(g).st
             \/ ~l.raw /\ ~lev.was /\ x.st = "reading"
      <4>1. CASE enter
        BY <1>7, <1>8, <1>11, <2>3, <2>5, <3>1, <4>1 DEF ci
      <4>2. CASE ~enter
        <5>1. lev.found = ci.found
          BY <1>6, <1>8, <4>2
        <5> QED
          BY <1>8, <1>11, <2>3, <2>5, <3>1, <4>2, <5>1 DEF ci, top
      <4> QED
        BY <4>1, <4>2
    <3> QED
      BY <1>2, <1>3, <1>12, <2>5, <3>1, <3>2, MatchesTurn
  <2>7. ReadLine(deeper, Len(inc), r, ln) = ReadTurning(r, ln)
    BY <1>2, ReadLineIs
  <2>8. r.g = g /\ r.macros = macros /\ r.out = out
    BY AtFields
  <2> HIDE DEF r
  <2>9. ReadTurning(r, ln)
          = At(Append(Front(g), x), macros,
               out \o (IF ln.k = "elif" /\ top.st = "seeking" THEN BadDiag(ln) ELSE <<>>)
                   \o (IF ~top.els THEN <<>> ELSE <<Diag(after)>>))
    BY <2>1, <2>8 DEF ReadTurning, top, x, st, els
  <2>10. ReadTurning(r, ln) = At(Append(Front(g), x), macros', out')
    BY <1>2, <1>10, <2>1, <2>2, <2>9
  <2> QED
    BY <2>6, <2>7, <2>10 DEF r
<1>13. cur'.file = cur.file /\ cur'.pos = cur.pos + 1
  BY <1>11
<1> QED
  BY <1>1, <1>2, <1>12, <1>13 DEF ReadsAs

-----------------------------------------------------------------------------
(* A file that the multiple-include filter skips, as the reader reads it.  *)

(* The reader r of a file whose guard fails, after line i: the guard seeks *)
(* its block, every other group is dead, and a group that has had its      *)
(* #else has been open ever since.                                         *)
HadElse(t, i, k) ==
  \E j \in 1 .. i : /\ t[j].k = "else" /\ Depth(t, j) = k
                    /\ \A q \in j .. i : Depth(t, q) >= k

Shut(t, s, r, i) ==
  \E g \in Seq(Group) :
    /\ r = At(g, s.macros, s.out)
    /\ Len(g) = Depth(t, i) /\ Len(g) >= 1
    /\ g[1].st = "seeking"
    /\ \A k \in 2 .. Len(g) : g[k].st = "dead" /\ (g[k].els => HadElse(t, i, k))

LEMMA HadElseLater ==
  ASSUME NEW t, NEW i \in Nat, NEW k, HadElse(t, i, k), Depth(t, i + 1) >= k
  PROVE  HadElse(t, i + 1, k)
<1>1. PICK j \in 1 .. i : /\ t[j].k = "else" /\ Depth(t, j) = k
                          /\ \A q \in j .. i : Depth(t, q) >= k
  BY DEF HadElse
<1>2. \A q \in j .. i + 1 : q \in j .. i \/ q = i + 1
  OBVIOUS
<1>3. j \in 1 .. i + 1 /\ \A q \in j .. i + 1 : Depth(t, q) >= k
  BY <1>1, <1>2
<1> QED
  BY <1>1, <1>3 DEF HadElse

(* The line of the guard. *)
LEMMA ShutByGuard ==
  ASSUME NEW t \in Seq(Line), NEW m \in Macros, Wrapped(t, m),
         NEW s \in ReaderState, m \in s.macros, NEW deeper, NEW d
  PROVE  Shut(t, s, ReadLine(deeper, d, At(<<>>, s.macros, s.out), t[1]), 1)
<1> DEFINE r == At(<<>>, s.macros, s.out)
           x == [st |-> "seeking", els |-> FALSE]
<1>1. PICK ln : ln = t[1]
  OBVIOUS
<1>2. /\ ln.arg = m /\ m # None
      /\ ln.k = "ifndef" \/ (ln.k = "if" /\ ln.form = "notdefined")
  BY <1>1, NoneIsNoMacro DEF Wrapped, Guards
<1>3. Opens(ln)
  BY <1>2 DEF Opens
<1>4. r.g = <<>> /\ r.macros = s.macros /\ r.out = s.out
  BY AtFields
<1> HIDE DEF r
<1>5. Live(<<>>)
  BY DEF Live
<1>6. ReadLine(deeper, d, r, ln) = ReadOpening(r, ln)
  BY <1>3, ReadLineIs
<1>7. ReadOpening(r, ln) = Open(r, "seeking", <<>>)
  BY <1>2, <1>4, <1>5 DEF ReadOpening, OpensBlock, RefHolds, BadDiag
<1>8. s.out \in Seq(Event)
  BY DEF ReaderState
<1>9. Open(r, "seeking", <<>>) = At(Append(<<>>, x), s.macros, s.out)
  BY <1>4, <1>8 DEF Open
<1>10. x \in Group /\ x.st = "seeking"
  BY DEF Group
<1> HIDE DEF x
<1>11. /\ Append(<<>>, x) \in Seq(Group) /\ Len(Append(<<>>, x)) = 1
       /\ Append(<<>>, x)[1] = x
  BY <1>10
<1>12. Depth(t, 1) = 1
  <2>1. Depth(t, 0) = 0
    BY DepthZero
  <2>2. Opens(t[0 + 1]) => Depth(t, 0 + 1) = Depth(t, 0) + 1
    BY DepthStep
  <2> QED
    BY <1>1, <1>3, <2>1, <2>2
<1>13. \A k \in 2 .. 1 : FALSE
  OBVIOUS
<1>14. PICK h \in Seq(Group) : /\ h = Append(<<>>, x)
                              /\ Len(h) = 1 /\ h[1].st = "seeking"
  BY <1>10, <1>11
<1>15. ReadLine(deeper, d, r, t[1]) = At(h, s.macros, s.out)
  BY <1>1, <1>6, <1>7, <1>9, <1>14
<1>16. /\ Len(h) = Depth(t, 1) /\ Len(h) >= 1 /\ h[1].st = "seeking"
       /\ \A k \in 2 .. Len(h) : h[k].st = "dead" /\ (h[k].els => HadElse(t, 1, k))
  BY <1>12, <1>13, <1>14
<1>17. Shut(t, s, ReadLine(deeper, d, r, t[1]), 1)
  BY <1>15, <1>16, Zenon DEF Shut
<1> QED
  BY <1>17 DEF r

(* Any line but the last. *)
LEMMA ShutStays ==
  ASSUME NEW t \in Seq(Line), NEW m \in Macros, Wrapped(t, m), NoAlternative(t), ~RepeatsElse(t),
         NEW s \in ReaderState, NEW deeper, NEW d,
         NEW i \in 1 .. Len(t) - 2, NEW r, Shut(t, s, r, i)
  PROVE  Shut(t, s, ReadLine(deeper, d, r, t[i + 1]), i + 1)
<1>1. PICK g \in Seq(Group) :
        /\ r = At(g, s.macros, s.out)
        /\ Len(g) = Depth(t, i) /\ Len(g) >= 1
        /\ g[1].st = "seeking"
        /\ \A k \in 2 .. Len(g) : g[k].st = "dead" /\ (g[k].els => HadElse(t, i, k))
  BY DEF Shut
<1>2. r.g = g /\ r.macros = s.macros /\ r.out = s.out
  BY <1>1, AtFields
<1>3. PICK n \in Nat : n = Len(g)
  OBVIOUS
<1>4. ~Live(g)
  BY <1>1, <1>3 DEF Live
<1>5. PICK ln : ln = t[i + 1]
  OBVIOUS
<1>6. i \in Nat /\ i + 1 \in 1 .. Len(t) /\ i + 1 \in 1 .. Len(t) - 1 /\ Len(t) \in Nat
  OBVIOUS
<1>7. /\ Opens(ln) => Depth(t, i + 1) = n + 1
      /\ Closes(ln) => Depth(t, i + 1) = n - 1
      /\ ~Opens(ln) /\ ~Closes(ln) => Depth(t, i + 1) = n
  BY <1>1, <1>3, <1>5, <1>6, DepthStep
<1>8. s.out \in Seq(Event)
  BY DEF ReaderState
<1>9. Depth(t, i + 1) >= 1
  BY <1>6 DEF Wrapped
<1>10. PICK r2 : r2 = ReadLine(deeper, d, r, ln)
  OBVIOUS
<1>11. CASE Opens(ln)
  <2> DEFINE x == [st |-> "dead", els |-> FALSE]
             h == Append(g, x)
  <2>1. r2 = ReadOpening(r, ln)
    BY <1>10, <1>11, ReadLineIs
  <2>2. ReadOpening(r, ln) = Open(r, "dead", <<>>)
    BY <1>2, <1>4 DEF ReadOpening
  <2>3. r2 = At(h, s.macros, s.out)
    BY <1>2, <1>8, <2>1, <2>2 DEF Open
  <2>4. x \in Group /\ x.st = "dead" /\ ~x.els
    BY DEF Group
  <2> HIDE DEF x
  <2>5. /\ h \in Seq(Group) /\ Len(h) = n + 1 /\ h[n + 1] = x
        /\ \A k \in 1 .. n : h[k] = g[k]
    BY <1>3, <2>4
  <2> HIDE DEF h
  <2>6. ASSUME NEW k \in 2 .. n + 1
        PROVE  h[k].st = "dead" /\ (h[k].els => HadElse(t, i + 1, k))
    <3>1. CASE k = n + 1
      BY <2>4, <2>5, <3>1
    <3>2. CASE k # n + 1
      <4>1. k \in 2 .. n /\ k \in 1 .. n /\ Depth(t, i + 1) >= k
        BY <1>3, <1>7, <1>11, <3>2
      <4>2. g[k].els => HadElse(t, i + 1, k)
        BY <1>1, <1>3, <1>6, <4>1, HadElseLater
      <4> QED
        BY <1>1, <1>3, <2>5, <4>1, <4>2
    <3> QED
      BY <3>1, <3>2
  <2>7. h[1].st = "seeking" /\ Len(h) = Depth(t, i + 1)
    BY <1>1, <1>3, <1>7, <1>11, <2>5
  <2> QED
    BY <1>3, <1>5, <1>9, <1>10, <2>3, <2>5, <2>6, <2>7 DEF Shut
<1>12. CASE Closes(ln)
  <2> DEFINE h == Front(g)
  <2>1. g # <<>>
    BY <1>1
  <2>2. /\ h \in Seq(Group) /\ Len(h) = n - 1
        /\ \A k \in 1 .. n - 1 : h[k] = g[k]
    BY <1>3, <2>1, FrontLast
  <2>3. r2 = ReadClosing(r)
    BY <1>10, <1>12, ReadLineIs
  <2>4. r2 = At(h, s.macros, s.out)
    BY <1>2, <2>1, <2>3 DEF ReadClosing
  <2> HIDE DEF h
  <2>5. ASSUME NEW k \in 2 .. n - 1
        PROVE  h[k].st = "dead" /\ (h[k].els => HadElse(t, i + 1, k))
    <3>1. k \in 2 .. n /\ k \in 1 .. n - 1 /\ Depth(t, i + 1) >= k
      BY <1>3, <1>7, <1>12
    <3>2. g[k].els => HadElse(t, i + 1, k)
      BY <1>1, <1>3, <1>6, <3>1, HadElseLater
    <3> QED
      BY <1>1, <1>3, <2>2, <3>1, <3>2
  <2>6. h[1].st = "seeking" /\ Len(h) = Depth(t, i + 1)
    <3>1. n - 1 >= 1
      BY <1>7, <1>9, <1>12
    <3> QED
      BY <1>1, <1>3, <1>7, <1>12, <2>2, <3>1
  <2> QED
    BY <1>3, <1>5, <1>9, <1>10, <2>2, <2>4, <2>5, <2>6 DEF Shut
<1>13. CASE ln.k \in {"else", "elif"}
  <2> DEFINE top == Last(g)
             x == [st |-> "dead", els |-> ln.k = "else"]
             h == Append(Front(g), x)
  <2>1. ~Opens(ln) /\ ~Closes(ln)
    BY <1>13 DEF Opens, Closes
  <2>2. Depth(t, i + 1) = n /\ n >= 2
    BY <1>5, <1>6, <1>7, <1>13, <2>1 DEF NoAlternative
  <2>3. /\ g # <<>> /\ Front(g) \in Seq(Group) /\ Len(Front(g)) = n - 1
        /\ \A k \in 1 .. n - 1 : Front(g)[k] = g[k]
        /\ top = g[n] /\ top \in Group
    <3>1. g # <<>>
      BY <1>1
    <3> QED
      BY <1>3, <3>1, FrontLast
  <2>4. top.st = "dead" /\ (top.els => HadElse(t, i, n))
    BY <1>1, <1>3, <2>2, <2>3
  <2>5. ~top.els
    <3>1. SUFFICES ASSUME HadElse(t, i, n) PROVE FALSE
      BY <2>4
    <3>2. HadElse(t, i + 1, n)
      BY <1>6, <2>2, <3>1, HadElseLater
    <3>3. PICK j \in 1 .. i : t[j].k = "else" /\ Depth(t, j) = n
                             /\ \A q \in j .. i : Depth(t, q) >= n
      BY <3>1 DEF HadElse
    <3>4. \A q \in j .. i + 1 : q \in j .. i \/ q = i + 1
      OBVIOUS
    <3>5. \A q \in j .. i + 1 : Depth(t, q) >= Depth(t, j)
      BY <1>3, <2>2, <3>3, <3>4
    <3>6. j \in 1 .. Len(t) /\ j < i + 1
      BY <1>6
    <3>7. Depth(t, i + 1) = Depth(t, j) /\ t[i + 1].k \in {"else", "elif"}
      BY <1>5, <1>13, <2>2, <3>3
    <3>8. RepeatsElse(t)
      BY <1>6, <3>3, <3>5, <3>6, <3>7 DEF RepeatsElse
    <3> QED
      BY <3>8
  <2>6. r2 = ReadTurning(r, ln)
    BY <1>10, <1>13, ReadLineIs
  <2>7. Turn(top.st, ln, s.macros) = "dead" /\ (top.els \/ ln.k = "else") = (ln.k = "else")
    BY <2>4, <2>5 DEF Turn
  <2>8. ReadTurning(r, ln)
          = At(Append(Front(g), [st |-> Turn(top.st, ln, s.macros), els |-> top.els \/ ln.k = "else"]),
               s.macros, s.out \o <<>> \o <<>>)
    BY <1>2, <2>3, <2>4, <2>5 DEF ReadTurning
  <2>9. r2 = At(h, s.macros, s.out)
    BY <1>8, <2>6, <2>7, <2>8
  <2>10. x \in Group /\ x.st = "dead" /\ (x.els <=> ln.k = "else")
    <3>1. PICK b \in BOOLEAN : b = (ln.k = "else")
      OBVIOUS
    <3> QED
      BY <3>1 DEF Group
  <2> HIDE DEF x, top
  <2>11. /\ h \in Seq(Group) /\ Len(h) = n /\ h[n] = x
         /\ \A k \in 1 .. n - 1 : h[k] = g[k]
    BY <1>3, <2>2, <2>3, <2>10
  <2> HIDE DEF h
  <2>12. ASSUME NEW k \in 2 .. n
         PROVE  h[k].st = "dead" /\ (h[k].els => HadElse(t, i + 1, k))
    <3>1. CASE k = n
      <4>1. ASSUME ln.k = "else" PROVE HadElse(t, i + 1, n)
        <5>1. i + 1 \in 1 .. i + 1 /\ \A q \in i + 1 .. i + 1 : q = i + 1
          BY <1>6
        <5>2. t[i + 1].k = "else" /\ Depth(t, i + 1) = n
          BY <1>5, <2>2, <4>1
        <5>3. \A q \in i + 1 .. i + 1 : Depth(t, q) >= n
          BY <5>1, <5>2
        <5> QED
          BY <5>1, <5>2, <5>3 DEF HadElse
      <4> QED
        BY <2>10, <2>11, <3>1, <4>1
    <3>2. CASE k # n
      <4>1. k \in 1 .. n - 1 /\ Depth(t, i + 1) >= k
        BY <1>3, <2>2, <3>2
      <4>2. g[k].els => HadElse(t, i + 1, k)
        BY <1>1, <1>3, <1>6, <4>1, HadElseLater
      <4> QED
        BY <1>1, <1>3, <2>11, <4>1, <4>2
    <3> QED
      BY <3>1, <3>2
  <2>13. h[1].st = "seeking" /\ Len(h) = Depth(t, i + 1)
    BY <1>1, <1>3, <2>2, <2>11
  <2> QED
    BY <1>3, <1>5, <1>9, <1>10, <2>9, <2>11, <2>12, <2>13 DEF Shut
<1>14. CASE ln.k \in {"text", "use", "define", "undef", "include"}
  <2>1. ~Opens(ln) /\ ~Closes(ln)
    BY <1>14 DEF Opens, Closes
  <2>2. r2 = r
    BY <1>2, <1>4, <1>10, <1>14, ReadLineIs
  <2>3. Depth(t, i + 1) = n
    BY <1>7, <2>1
  <2>4. ASSUME NEW k \in 2 .. n
        PROVE  g[k].st = "dead" /\ (g[k].els => HadElse(t, i + 1, k))
    <3>1. Depth(t, i + 1) >= k
      BY <1>3, <2>3
    <3> QED
      BY <1>1, <1>3, <1>6, <3>1, HadElseLater
  <2> QED
    BY <1>1, <1>3, <1>5, <1>10, <2>2, <2>3, <2>4 DEF Shut
<1>15. ln.k \in Kinds
  <2>1. ln \in Line
    BY <1>5, <1>6
  <2> QED
    BY <2>1, LineArg
<1> QED
  BY <1>11, <1>12, <1>13, <1>14, <1>15 DEF Kinds, Opens, Closes

LEMMA EndIs ==
  ASSUME NEW ms, NEW o \in Seq(Event)
  PROVE  ReadEnd(At(<<>>, ms, o)) = [macros |-> ms, out |-> o]
<1>1. At(<<>>, ms, o).g = <<>> /\ At(<<>>, ms, o).macros = ms /\ At(<<>>, ms, o).out = o
  BY AtFields
<1>2. [i \in DOMAIN <<>> |-> Diag("unterminated")] = <<>>
  OBVIOUS
<1>3. o \o <<>> = o
  OBVIOUS
<1> QED
  BY <1>1, <1>2, <1>3 DEF ReadEnd

(* Read again, a file that stands between a guard and its #endif changes   *)
(* nothing when the guard's macro is defined.                              *)
LEMMA FilteredFile ==
  ASSUME NEW t \in Seq(Line), NEW m \in Macros, Wrapped(t, m), NoAlternative(t), ~RepeatsElse(t),
         NEW s \in ReaderState, m \in s.macros, NEW deeper, NEW d
  PROVE  ReadEnd(ReadLines(t, deeper, d, s)[Len(t)]) = s
<1> DEFINE A == ReadLines(t, deeper, d, s)
           N == Len(t)
           S == {i \in Nat : 1 <= i /\ i <= N - 1 => Shut(t, s, A[i], i)}
<1>1. N \in Nat /\ N >= 2
  BY DEF Wrapped
<1>2. /\ A[0] = At(<<>>, s.macros, s.out)
      /\ \A i \in 0 .. N - 1 : A[i + 1] = ReadLine(deeper, d, A[i], t[i + 1])
  BY <1>1, LinesUnfold
<1> HIDE DEF A
<1>3. 0 \in S
  OBVIOUS
<1>4. ASSUME NEW n \in Nat, n \in S PROVE n + 1 \in S
  <2>1. SUFFICES ASSUME n + 1 <= N - 1 PROVE Shut(t, s, A[n + 1], n + 1)
    OBVIOUS
  <2>2. A[n + 1] = ReadLine(deeper, d, A[n], t[n + 1])
    BY <1>1, <1>2, <2>1
  <2>3. CASE n = 0
    <3>1. A[0 + 1] = ReadLine(deeper, d, At(<<>>, s.macros, s.out), t[1]) /\ 0 + 1 = 1
      BY <1>2, <2>2, <2>3
    <3>2. Shut(t, s, A[1], 1)
      BY <3>1, ShutByGuard
    <3> QED
      BY <2>3, <3>2
  <2>4. CASE n # 0
    <3>1. n \in 1 .. N - 2 /\ Shut(t, s, A[n], n)
      BY <1>1, <1>4, <2>1, <2>4
    <3> QED
      BY <2>2, <3>1, ShutStays
  <2> QED
    BY <2>3, <2>4
<1> HIDE DEF S
<1>5. \A n \in Nat : n \in S
  BY <1>3, <1>4, SetInduction
<1>6. Shut(t, s, A[N - 1], N - 1)
  <2>1. N - 1 \in Nat /\ N - 1 \in S /\ 1 <= N - 1
    BY <1>1, <1>5
  <2> QED
    BY <1>1, <2>1 DEF S
<1>7. PICK g \in Seq(Group) : /\ A[N - 1] = At(g, s.macros, s.out)
                             /\ Len(g) = Depth(t, N - 1) /\ Len(g) >= 1
  BY <1>6 DEF Shut
<1>8. Closes(t[N]) /\ Len(g) = 1
  <2>1. Depth(t, N) = 0
    BY DEF Wrapped
  <2>2. N - 1 \in Nat /\ N - 1 + 1 = N
    BY <1>1
  <2> QED
    BY <1>7, <2>1, <2>2, DepthStep
<1>9. A[N] = ReadLine(deeper, d, A[N - 1], t[N])
  <2>1. N - 1 \in 0 .. N - 1 /\ N - 1 + 1 = N
    BY <1>1
  <2> QED
    BY <1>2, <2>1
<1>10. A[N] = ReadClosing(A[N - 1])
  BY <1>8, <1>9, ReadLineIs
<1>11. Front(g) = <<>> /\ g # <<>>
  <2>1. g # <<>>
    BY <1>7
  <2>2. Front(g) \in Seq(Group) /\ Len(Front(g)) = 0
    BY <1>8, <2>1, FrontLast
  <2> QED
    BY <2>1, <2>2
<1>12. A[N] = At(<<>>, s.macros, s.out)
  <2>1. A[N - 1].g = g /\ A[N - 1].macros = s.macros /\ A[N - 1].out = s.out
    BY <1>7, AtFields
  <2> QED
    BY <1>10, <1>11, <2>1 DEF ReadClosing
<1>13. s.out \in Seq(Event) /\ s = [macros |-> s.macros, out |-> s.out]
  BY DEF ReaderState
<1> QED
  BY <1>12, <1>13, EndIs DEF A

-----------------------------------------------------------------------------
(* The reader ends every file in a state of a reader.                      *)
Reader == [g : Seq(Group), macros : SUBSET Macros, out : Seq(Event)]

LEMMA AtType ==
  ASSUME NEW g \in Seq(Group), NEW ms \in SUBSET Macros, NEW o \in Seq(Event)
  PROVE  At(g, ms, o) \in Reader
  BY DEF At, Reader

LEMMA EventTypes ==
  /\ \A m \in Macros \cup {None} : <<"token", m>> \in Event /\ <<"expansion", m>> \in Event
  /\ \A d \in Diags : Diag(d) \in Event
  BY DEF Event, Diag

LEMMA SayTypes ==
  ASSUME NEW o \in Seq(Event)
  PROVE  /\ o \o <<>> \in Seq(Event)
         /\ \A e \in Event : o \o <<e>> \in Seq(Event)
  OBVIOUS

LEMMA ReadLineType ==
  ASSUME NEW deeper, NEW d, NEW r \in Reader, NEW ln \in Line,
         d # MaxAllowedIncludeStackDepth - 1
           => \A f \in Files : \A s \in ReaderState : deeper[f][s] \in ReaderState
  PROVE  ReadLine(deeper, d, r, ln) \in Reader
<1>1. r.g \in Seq(Group) /\ r.macros \in SUBSET Macros /\ r.out \in Seq(Event)
  BY DEF Reader
<1>2. /\ ln.k \in Kinds
      /\ ln.k # "include" => ln.arg \in Macros \cup {None}
      /\ ln.k = "include" => ln.arg \in Files \cup {None}
  BY LineArg
<1>3. \A evs \in {<<>>} \cup {<<Diag(x)>> : x \in Diags} : r.out \o evs \in Seq(Event)
  BY <1>1, EventTypes, SayTypes
<1>4. BadDiag(ln) \in {<<>>} \cup {<<Diag(x)>> : x \in Diags}
  BY DEF BadDiag, Diags
<1>5. \A evs \in {<<>>} \cup {<<Diag(x)>> : x \in Diags} : Says(r, evs) \in Reader
  BY <1>1, <1>3, AtType DEF Says
<1>6. CASE Opens(ln)
  <2>1. \A st \in {"seeking", "reading", "dead"}, evs \in {<<>>} \cup {<<Diag(x)>> : x \in Diags} :
          Open(r, st, evs) \in Reader
    <3> TAKE st \in {"seeking", "reading", "dead"}, evs \in {<<>>} \cup {<<Diag(x)>> : x \in Diags}
    <3>1. [st |-> st, els |-> FALSE] \in Group
      BY DEF Group
    <3>2. Append(r.g, [st |-> st, els |-> FALSE]) \in Seq(Group)
      BY <1>1, <3>1
    <3> QED
      BY <1>1, <1>3, <3>2, AtType DEF Open
  <2>2. ReadOpening(r, ln) \in Reader
    <3>1. <<Diag("missing_name")>> \in {<<>>} \cup {<<Diag(x)>> : x \in Diags}
      BY DEF Diags
    <3>2. \E st \in {"seeking", "reading", "dead"}, evs \in {<<>>} \cup {<<Diag(x)>> : x \in Diags} :
            ReadOpening(r, ln) = Open(r, st, evs)
      BY <1>4, <3>1 DEF ReadOpening
    <3> QED
      BY <2>1, <3>2
  <2> QED
    BY <1>6, <2>2, ReadLineIs
<1>7. CASE ln.k \in {"else", "elif"}
  <2>1. CASE r.g = <<>>
    <3>1. ReadTurning(r, ln) = Says(r, <<Diag(IF ln.k = "else" THEN "else_without_if" ELSE "elif_without_if")>>)
      BY <2>1 DEF ReadTurning
    <3>2. (IF ln.k = "else" THEN "else_without_if" ELSE "elif_without_if") \in Diags
      BY DEF Diags
    <3> QED
      BY <1>5, <1>7, <3>1, <3>2, ReadLineIs
  <2>2. CASE r.g # <<>>
    <3> DEFINE top == Last(r.g)
               x == [st |-> Turn(top.st, ln, r.macros), els |-> top.els \/ ln.k = "else"]
               e1 == IF ln.k = "elif" /\ top.st = "seeking" THEN BadDiag(ln) ELSE <<>>
               e2 == IF ~top.els THEN <<>>
                     ELSE <<Diag(IF ln.k = "else" THEN "else_after_else" ELSE "elif_after_else")>>
    <3>1. Front(r.g) \in Seq(Group) /\ top \in Group
      BY <1>1, <2>2, FrontLast
    <3>2. x \in Group
      <4>1. Turn(top.st, ln, r.macros) \in {"seeking", "reading", "done", "dead"}
        BY <3>1 DEF Turn, Group
      <4>2. (top.els \/ ln.k = "else") \in BOOLEAN
        OBVIOUS
      <4> QED
        BY <4>1, <4>2 DEF Group
    <3>3. Append(Front(r.g), x) \in Seq(Group)
      BY <3>1, <3>2
    <3>4. /\ e1 \in {<<>>} \cup {<<Diag(y)>> : y \in Diags}
          /\ e2 \in {<<>>} \cup {<<Diag(y)>> : y \in Diags}
      <4>1. (IF ln.k = "else" THEN "else_after_else" ELSE "elif_after_else") \in Diags
        BY DEF Diags
      <4> QED
        BY <1>4, <4>1
    <3>5. ReadTurning(r, ln) = At(Append(Front(r.g), x), r.macros, r.out \o e1 \o e2)
      BY <2>2 DEF ReadTurning
    <3> HIDE DEF x, e1, e2
    <3>6. r.out \o e1 \in Seq(Event)
      BY <1>3, <3>4
    <3>7. \A o \in Seq(Event), evs \in {<<>>} \cup {<<Diag(y)>> : y \in Diags} : o \o evs \in Seq(Event)
      BY EventTypes, SayTypes
    <3>8. r.out \o e1 \o e2 \in Seq(Event)
      BY <3>4, <3>6, <3>7
    <3>9. ReadTurning(r, ln) \in Reader
      BY <1>1, <3>3, <3>5, <3>8, AtType
    <3> QED
      BY <1>7, <3>9, ReadLineIs
  <2> QED
    BY <2>1, <2>2
<1>8. CASE Closes(ln)
  <2>1. CASE r.g = <<>>
    <3>1. "endif_without_if" \in Diags
      BY DEF Diags
    <3> QED
      BY <1>5, <1>8, <2>1, <3>1, ReadLineIs DEF ReadClosing
  <2>2. CASE r.g # <<>>
    <3>1. Front(r.g) \in Seq(Group)
      BY <1>1, <2>2, FrontLast
    <3> QED
      BY <1>1, <1>8, <2>2, <3>1, AtType, ReadLineIs DEF ReadClosing
  <2> QED
    BY <2>1, <2>2
<1>9. CASE ln.k \in {"text", "use", "define", "undef", "include"} /\ ~Live(r.g)
  BY <1>9, ReadLineIs
<1>10. CASE ln.k \in {"define", "undef"} /\ Live(r.g)
  <2>1. "missing_name" \in Diags
    BY DEF Diags
  <2>2. CASE ln.arg = None
    <3>1. ReadLine(deeper, d, r, ln) = ReadDefinition(r, ln)
      BY <1>10, ReadLineIs
    <3>2. ReadDefinition(r, ln) = Says(r, <<Diag("missing_name")>>)
      BY <2>2 DEF ReadDefinition
    <3> QED
      BY <1>5, <2>1, <3>1, <3>2
  <2>3. CASE ln.arg # None
    <3>1. ln.arg \in Macros
      BY <1>2, <1>10, <2>3
    <3>2. r.macros \cup {ln.arg} \in SUBSET Macros /\ r.macros \ {ln.arg} \in SUBSET Macros
      BY <1>1, <3>1
    <3>3. ReadDefinition(r, ln) \in Reader
      BY <1>1, <2>3, <3>2, AtType DEF ReadDefinition
    <3> QED
      BY <1>10, <3>3, ReadLineIs
  <2> QED
    BY <2>2, <2>3
<1>11. CASE ln.k = "include" /\ Live(r.g)
  <2>1. "include_too_deep" \in Diags /\ "file_not_found" \in Diags
    BY DEF Diags
  <2>2. CASE d = MaxAllowedIncludeStackDepth - 1 \/ ln.arg = None
    <3>1. ReadInclude(deeper, d, r, ln) \in Reader
      BY <1>5, <2>1, <2>2 DEF ReadInclude
    <3> QED
      BY <1>11, <3>1, ReadLineIs
  <2>3. CASE d # MaxAllowedIncludeStackDepth - 1 /\ ln.arg # None
    <3>1. [macros |-> r.macros, out |-> r.out] \in ReaderState /\ ln.arg \in Files
      BY <1>1, <1>2, <1>11, <2>3 DEF ReaderState
    <3>2. PICK s \in ReaderState : s = deeper[ln.arg][ [macros |-> r.macros, out |-> r.out] ]
      BY <2>3, <3>1
    <3>3. ReadInclude(deeper, d, r, ln) = At(r.g, s.macros, s.out)
      BY <2>3, <3>2 DEF ReadInclude
    <3>4. s.macros \in SUBSET Macros /\ s.out \in Seq(Event)
      BY <3>2 DEF ReaderState
    <3> QED
      BY <1>1, <1>11, <3>3, <3>4, AtType, ReadLineIs
  <2> QED
    BY <2>2, <2>3
<1>12. CASE ln.k \in {"text", "use"} /\ Live(r.g)
  <2>1. ln.arg \in Macros \cup {None}
    BY <1>2, <1>12
  <2>2. PICK e \in Event : e = <<IF ln.k = "use" /\ ln.arg \in r.macros THEN "expansion" ELSE "token", ln.arg>>
    BY <2>1, EventTypes
  <2>3. r.out \o <<e>> \in Seq(Event)
    BY <1>1
  <2>4. ReadText(r, ln) \in Reader
    BY <1>1, <2>2, <2>3, AtType DEF ReadText, Says
  <2> QED
    BY <1>12, <2>4, ReadLineIs
<1> QED
  BY <1>2, <1>6, <1>7, <1>8, <1>9, <1>10, <1>11, <1>12 DEF Kinds, Opens, Closes

LEMMA ReadEndType ==
  ASSUME NEW r \in Reader
  PROVE  ReadEnd(r) \in ReaderState
<1>1. r.g \in Seq(Group) /\ r.macros \in SUBSET Macros /\ r.out \in Seq(Event)
  BY DEF Reader
<1>2. Diag("unterminated") \in Event
  BY EventTypes DEF Diags
<1>3. PICK n \in Nat : n = Len(r.g) /\ DOMAIN r.g = 1 .. n
  BY <1>1
<1>4. [i \in 1 .. n |-> Diag("unterminated")] \in Seq(Event)
  BY <1>2
<1>5. r.out \o [i \in DOMAIN r.g |-> Diag("unterminated")] \in Seq(Event)
  BY <1>1, <1>3, <1>4
<1> QED
  BY <1>1, <1>5 DEF ReadEnd, ReaderState

LEMMA FileReadType ==
  ASSUME NEW t \in Seq(Line), NEW deeper, NEW d, NEW s \in ReaderState,
         d # MaxAllowedIncludeStackDepth - 1
           => \A f \in Files : \A x \in ReaderState : deeper[f][x] \in ReaderState
  PROVE  ReadEnd(ReadLines(t, deeper, d, s)[Len(t)]) \in ReaderState
<1> DEFINE A == ReadLines(t, deeper, d, s)
           S == {i \in Nat : i <= Len(t) => A[i] \in Reader}
<1>1. /\ A[0] = At(<<>>, s.macros, s.out)
      /\ \A i \in 0 .. Len(t) - 1 : A[i + 1] = ReadLine(deeper, d, A[i], t[i + 1])
  BY LinesUnfold
<1> HIDE DEF A
<1>2. 0 \in S
  <2>1. <<>> \in Seq(Group) /\ s.macros \in SUBSET Macros /\ s.out \in Seq(Event)
    BY DEF ReaderState
  <2> QED
    BY <1>1, <2>1, AtType
<1>3. ASSUME NEW n \in Nat, n \in S PROVE n + 1 \in S
  <2>1. SUFFICES ASSUME n + 1 <= Len(t) PROVE A[n + 1] \in Reader
    OBVIOUS
  <2>2. A[n] \in Reader /\ t[n + 1] \in Line /\ n \in 0 .. Len(t) - 1
    BY <1>3, <2>1
  <2> QED
    BY <1>1, <2>2, ReadLineType
<1> HIDE DEF S
<1>4. \A n \in Nat : n \in S
  BY <1>2, <1>3, SetInduction
<1>5. A[Len(t)] \in Reader
  <2>1. Len(t) \in Nat /\ Len(t) \in S
    BY <1>4
  <2> QED
    BY <2>1 DEF S
<1> QED
  BY <1>5, ReadEndType DEF A

(* What the reader makes of file f, entered d includes deep in state s. *)
Outcome(p, f, d, s) == Read(p)[d][f][s]

LEMMA OutcomeIs ==
  ASSUME NEW p \in [Files -> Seq(Line)], NEW f \in Files,
         NEW d \in 0 .. MaxAllowedIncludeStackDepth - 1, NEW s \in ReaderState
  PROVE  Outcome(p, f, d, s) = ReadEnd(ReadLines(p[f], Deeper(p, d), d, s)[Len(p[f])])
<1>1. Read(p)[d] = FilesRead(p, Deeper(p, d), d)
  BY ReadUnfold
<1> QED
  BY <1>1 DEF Outcome, FilesRead

LEMMA OutcomeType ==
  ASSUME NEW p \in [Files -> Seq(Line)]
  PROVE  \A d \in 0 .. MaxAllowedIncludeStackDepth - 1 :
           \A f \in Files : \A s \in ReaderState : Outcome(p, f, d, s) \in ReaderState
<1> DEFINE K == MaxAllowedIncludeStackDepth - 1
           Typed(d) == \A f \in Files : \A s \in ReaderState : Outcome(p, f, d, s) \in ReaderState
           S == {n \in Nat : n <= K => Typed(K - n)}
<1>1. K \in Nat
  BY DepthAssumption
<1>2. ASSUME NEW d \in 0 .. K, d # K => Typed(d + 1) PROVE Typed(d)
  <2> SUFFICES ASSUME NEW f \in Files, NEW s \in ReaderState
               PROVE  Outcome(p, f, d, s) \in ReaderState
    OBVIOUS
  <2>1. d # K => Deeper(p, d) = Read(p)[d + 1]
    BY DEF Deeper
  <2>2. d # K => \A h \in Files : \A x \in ReaderState : Deeper(p, d)[h][x] \in ReaderState
    BY <1>2, <2>1 DEF Outcome
  <2>3. p[f] \in Seq(Line)
    OBVIOUS
  <2> QED
    BY <2>2, <2>3, FileReadType, OutcomeIs
<1> HIDE DEF Typed
<1>3. 0 \in S
  BY <1>1, <1>2
<1>4. ASSUME NEW n \in Nat, n \in S PROVE n + 1 \in S
  <2>1. SUFFICES ASSUME n + 1 <= K PROVE Typed(K - (n + 1))
    OBVIOUS
  <2>2. Typed(K - n) /\ K - (n + 1) \in 0 .. K /\ K - (n + 1) + 1 = K - n
    BY <1>1, <1>4, <2>1
  <2> QED
    BY <1>2, <2>2
<1> HIDE DEF S
<1>5. \A n \in Nat : n \in S
  BY <1>3, <1>4, SetInduction
<1>6. ASSUME NEW d \in 0 .. K PROVE Typed(d)
  <2>1. K - d \in Nat /\ K - d <= K /\ K - (K - d) = d
    BY <1>1
  <2>2. K - d \in S
    BY <1>5, <2>1
  <2>3. Typed(K - (K - d))
    BY <2>1, <2>2 DEF S
  <2> QED
    BY <2>1, <2>3
<1> QED
  BY <1>6 DEF Typed

-----------------------------------------------------------------------------
(* The lexers and the reader go through the program in step.               *)

Now == [macros |-> macros, out |-> out]

(* The reader, d includes deep and entered in state s, at the line of l.   *)
Reached(p, l, d, s) == ReadLines(p[l.file], Deeper(p, d), d, s)[l.pos]

(* It has the groups of l, and the macros and the output of r. *)
Follows(p, l, d, s, r) ==
  \E g : Matches(l, g) /\ Reached(p, l, d, s) = At(g, r.macros, r.out)

(* The current lexer has ended its file, and so has the reader. *)
Ends(s) ==
  /\ AtEnd /\ ~cur.raw /\ cur.cond = <<>>
  /\ Outcome(text, cur.file, Len(inc), s) = Now

(* The file read k - 1 includes deep. *)
FileAt(k) == IF k <= Len(inc) THEN inc[k].file ELSE cur.file

Predefined(p) == Outcome(p, Builtin, 1, [macros |-> {}, out |-> <<>>])

(* ent[k] is the state in which the reader entered the k-th file of the    *)
(* stack: a lexer that waits goes on with what the file above it makes.    *)
EnteredIn(ent) ==
  /\ ent \in Seq(ReaderState) /\ Len(ent) = Len(inc) + 1
  /\ ent[1] = Predefined(text) /\ FileAt(1) = Main
  /\ \A k \in 1 .. Len(inc) :
       Follows(text, inc[k], k - 1, ent[k], Outcome(text, FileAt(k + 1), k, ent[k + 1]))
  /\ Follows(text, cur, Len(inc), ent[Len(inc) + 1], Now) \/ Ends(ent[Len(inc) + 1])

InStep == \E ent : EnteredIn(ent)

ReadsWell == \A f \in Files : ~Misjudged(text[f])

OutInv ==
  /\ eof => inc = <<>> /\ AtEnd /\ ~cur.raw /\ cur.cond = <<>>
  /\ ReadsWell => InStep

LEMMA NowType ==
  ASSUME TypeOK
  PROVE  Now \in ReaderState /\ Now.macros = macros /\ Now.out = out
  BY DEF TypeOK, Now, ReaderState

(* At the end of the file, the reader diagnoses what the lexer has open.   *)
LEMMA EndingOutcome ==
  ASSUME NEW l \in Lexer, NEW g, Matches(l, g), NEW ms, NEW o \in Seq(Event)
  PROVE  ReadEnd(At(g, ms, o)) = [macros |-> ms, out |-> o \o Unterminated(l.cond)]
<1>1. At(g, ms, o).g = g /\ At(g, ms, o).macros = ms /\ At(g, ms, o).out = o
  BY AtFields
<1>2. g \in Seq(Group) /\ Len(g) = Len(l.cond) /\ DOMAIN g = 1 .. Len(g)
  BY MatchesParts, GroupParts
<1>3. [i \in DOMAIN g |-> Diag("unterminated")] = Unterminated(l.cond)
  BY <1>2 DEF Unterminated
<1> QED
  BY <1>1, <1>3 DEF ReadEnd

(* One line of the file of l. *)
LEMMA FollowsLine ==
  ASSUME NEW p \in [Files -> Seq(Line)], NEW l \in Lexer, l.pos < Len(p[l.file]),
         NEW l2, l2.file = l.file, l2.pos = l.pos + 1,
         NEW d, NEW s, NEW r, NEW r2,
         \A g : Matches(l, g) =>
           \E g2 : /\ Matches(l2, g2)
                   /\ ReadLine(Deeper(p, d), d, At(g, r.macros, r.out), p[l.file][l.pos + 1])
                        = At(g2, r2.macros, r2.out),
         Follows(p, l, d, s, r)
  PROVE  Follows(p, l2, d, s, r2)
<1> DEFINE A == ReadLines(p[l.file], Deeper(p, d), d, s)
<1>1. /\ p[l.file] \in Seq(Line) /\ Len(p[l.file]) \in Nat /\ l.pos \in Nat
      /\ l.pos \in 0 .. Len(p[l.file]) - 1
  BY LexerParts
<1>2. A[l.pos + 1] = ReadLine(Deeper(p, d), d, A[l.pos], p[l.file][l.pos + 1])
  BY <1>1, LinesUnfold
<1>3. PICK g : Matches(l, g) /\ A[l.pos] = At(g, r.macros, r.out)
  BY DEF Follows, Reached
<1>4. PICK g2 : /\ Matches(l2, g2)
                /\ ReadLine(Deeper(p, d), d, At(g, r.macros, r.out), p[l.file][l.pos + 1])
                     = At(g2, r2.macros, r2.out)
  BY <1>3
<1>5. A[l2.pos] = At(g2, r2.macros, r2.out)
  BY <1>2, <1>3, <1>4
<1> QED
  BY <1>4, <1>5 DEF Follows, Reached

(* A line of the current file that both read. *)
LEMMA InStepLine ==
  ASSUME IInv, ~eof, ~AtEnd, ReadsAs(Deeper(text, Len(inc))), macros' \subseteq Macros, out' \in Seq(Event),
         OutInv
  PROVE  OutInv'
<1>1. /\ text' = text /\ inc' = inc /\ eof' = eof
      /\ cur'.file = cur.file /\ cur'.pos = cur.pos + 1
  BY DEF ReadsAs
<1>2. /\ cur \in Lexer /\ cur.pos < Len(text[cur.file]) /\ Here = text[cur.file][cur.pos + 1]
      /\ text \in [Files -> Seq(Line)]
  BY Reading DEF IInv, TypeOK
<1>3. ReadsWell' <=> ReadsWell
  BY <1>1 DEF ReadsWell
<1>4. ASSUME NEW ent, EnteredIn(ent) PROVE EnteredIn(ent)'
  <2> DEFINE d == Len(inc)
             s == ent[Len(inc) + 1]
  <2>1. Follows(text, cur, d, s, Now)
    BY <1>4 DEF EnteredIn, Ends
  <2>2. Now.macros = macros /\ Now.out = out /\ Now'.macros = macros' /\ Now'.out = out'
    BY DEF Now
  <2>3. \A g : Matches(cur, g) =>
          \E g2 : /\ Matches(cur', g2)
                  /\ ReadLine(Deeper(text, d), d, At(g, Now.macros, Now.out), text[cur.file][cur.pos + 1])
                       = At(g2, Now'.macros, Now'.out)
    BY <1>2, <2>2 DEF ReadsAs
  <2>4. PICK l2, r, r2 : l2 = cur' /\ r = Now /\ r2 = Now'
    OBVIOUS
  <2>5. Follows(text, l2, d, s, r2)
    BY <1>1, <1>2, <2>1, <2>3, <2>4, FollowsLine
  <2>6. Follows(text, cur, d, s, Now)'
    BY <1>1, <2>4, <2>5 DEF Follows, Reached
  <2>7. \A k : FileAt(k)' = FileAt(k)
    BY <1>1 DEF FileAt
  <2>8. \A k \in 1 .. Len(inc) :
          Follows(text, inc[k], k - 1, ent[k], Outcome(text, FileAt(k + 1), k, ent[k + 1]))'
    BY <1>1, <1>4, <2>7 DEF EnteredIn
  <2>9. /\ ent \in Seq(ReaderState) /\ Len(ent) = Len(inc') + 1
        /\ ent[1] = Predefined(text') /\ FileAt(1)' = Main
    BY <1>1, <1>4, <2>7 DEF EnteredIn
  <2> QED
    BY <1>1, <2>6, <2>8, <2>9 DEF EnteredIn
<1> QED
  BY <1>1, <1>3, <1>4 DEF OutInv, InStep

(* A file just entered. *)
LEMMA NewFollows ==
  ASSUME NEW p \in [Files -> Seq(Line)], NEW f \in Files, NEW d, NEW s, NEW r,
         r.macros = s.macros, r.out = s.out
  PROVE  Follows(p, NewLexer(f), d, s, r)
<1>1. /\ NewLexer(f).file = f /\ NewLexer(f).pos = 0 /\ NewLexer(f).cond = <<>>
      /\ NewLexer(f).raw = FALSE
  BY DEF NewLexer
<1>2. Matches(NewLexer(f), <<>>)
  BY <1>1 DEF Matches
<1>3. Len(p[f]) \in Nat
  BY Zenon, LenProperties
<1>4. ReadLines(p[f], Deeper(p, d), d, s)[0] = At(<<>>, s.macros, s.out)
  BY <1>3, LinesUnfold
<1> QED
  BY <1>1, <1>2, <1>4 DEF Follows, Reached

LEMMA InitOut == ASSUME Init PROVE OutInv
<1>1. /\ text \in [Files -> Seq(Line)] /\ cur = NewLexer(Builtin) /\ inc = <<NewLexer(Main)>>
      /\ ~eof /\ macros = {} /\ out = <<>>
  BY ProgramsAssumption DEF Init
<1>2. Main \in Files /\ Builtin \in Files
  BY FilesAssumption
<1> DEFINE e == [macros |-> {}, out |-> <<>>]
           b == Outcome(text, Builtin, 1, e)
           ent == <<b, e>>
<1>3. e \in ReaderState /\ Now = e /\ e.macros = {} /\ e.out = <<>>
  BY <1>1 DEF ReaderState, Now
<1>4. 1 \in 0 .. MaxAllowedIncludeStackDepth - 1
  BY DepthAssumption
<1>5. b \in ReaderState
  BY <1>1, <1>2, <1>3, <1>4, OutcomeType
<1>6. b = Predefined(text)
  BY DEF Predefined
<1> HIDE DEF e, b
<1>7. /\ ent \in Seq(ReaderState) /\ Len(ent) = 2 /\ ent[1] = b /\ ent[2] = e
  BY <1>3, <1>5
<1>8. Len(inc) = 1 /\ inc[1] = NewLexer(Main)
  BY <1>1
<1>9. FileAt(1) = Main /\ FileAt(2) = Builtin
  BY <1>1, <1>8 DEF FileAt, NewLexer
<1>10. Outcome(text, FileAt(2), 1, ent[2]) = b
  BY <1>7, <1>9 DEF b, e
<1>11. Follows(text, inc[1], 0, ent[1], b)
  BY <1>1, <1>2, <1>7, <1>8, NewFollows
<1>12. Follows(text, cur, 1, ent[2], Now)
  BY <1>1, <1>2, <1>3, <1>7, NewFollows
<1> HIDE DEF ent
<1>13. \A k \in 1 .. Len(inc) :
         Follows(text, inc[k], k - 1, ent[k], Outcome(text, FileAt(k + 1), k, ent[k + 1]))
  <2>1. \A k \in 1 .. Len(inc) : k = 1
    BY <1>8
  <2>2. 1 - 1 = 0 /\ 1 + 1 = 2
    OBVIOUS
  <2> QED
    BY <1>10, <1>11, <2>1, <2>2
<1>14. Len(ent) = Len(inc) + 1 /\ Len(inc) + 1 = 2
  BY <1>7, <1>8
<1>15. EnteredIn(ent)
  BY <1>6, <1>7, <1>8, <1>9, <1>12, <1>13, <1>14 DEF EnteredIn
<1> QED
  BY <1>1, <1>15 DEF OutInv, InStep

(* A file that the multiple-include filter skips would change nothing. *)
LEMMA FilteredOutcome ==
  ASSUME IInv, ReadsWell, NEW f \in Files, ~ShouldEnterIncludeFile(f),
         NEW d \in 0 .. MaxAllowedIncludeStackDepth - 1
  PROVE  Outcome(text, f, d, Now) = Now
<1>1. /\ text \in [Files -> Seq(Line)] /\ text[f] \in Seq(Line)
      /\ ctrl \in [Files -> Macros \cup {None}]
  BY DEF IInv, TypeOK
<1>2. PICK m \in Macros : m = ctrl[f] /\ ctrl[f] # None /\ m \in macros
  BY <1>1 DEF ShouldEnterIncludeFile
<1>3. ~Misjudged(text[f])
  BY DEF ReadsWell
<1>4. Wrapped(text[f], m)
  BY <1>2, <1>3 DEF IInv, ControllingMacroWraps, Misjudged
<1>5. NoAlternative(text[f]) /\ ~RepeatsElse(text[f])
  BY <1>3, <1>4 DEF Misjudged
<1>6. Now \in ReaderState /\ m \in Now.macros
  BY <1>2, NowType DEF IInv
<1>7. ReadEnd(ReadLines(text[f], Deeper(text, d), d, Now)[Len(text[f])]) = Now
  BY <1>1, <1>4, <1>5, <1>6, FilteredFile
<1> QED
  BY <1>1, <1>6, <1>7, OutcomeIs

(* The reader goes into the file that the lexer enters, and comes back     *)
(* with what it makes of it.                                               *)
LEMMA EnteringReads ==
  ASSUME NEW p \in [Files -> Seq(Line)], NEW l \in Lexer, l.pos < Len(p[l.file]), ~l.raw,
         p[l.file][l.pos + 1].k = "include", p[l.file][l.pos + 1].arg # None,
         NEW d, d # MaxAllowedIncludeStackDepth - 1,
         NEW s, NEW r \in ReaderState, Follows(p, l, d, s, r)
  PROVE  Follows(p, Advance(l), d, s, Outcome(p, p[l.file][l.pos + 1].arg, d + 1, r))
<1>1. PICK ln : ln = p[l.file][l.pos + 1]
  OBVIOUS
<1>2. PICK a : /\ a = Advance(l) /\ a.file = l.file /\ a.pos = l.pos + 1
               /\ a.cond = l.cond /\ a.raw = l.raw
  BY AdvanceFields
<1>3. PICK r2 : r2 = Outcome(p, ln.arg, d + 1, r)
  OBVIOUS
<1>4. ASSUME NEW g, Matches(l, g)
      PROVE  /\ Matches(a, g)
             /\ ReadLine(Deeper(p, d), d, At(g, r.macros, r.out), ln) = At(g, r2.macros, r2.out)
  <2> DEFINE x == At(g, r.macros, r.out)
  <2>1. Matches(a, g)
    BY <1>2, <1>4, MatchesSame
  <2>2. x.g = g /\ x.macros = r.macros /\ x.out = r.out
    BY AtFields
  <2> HIDE DEF x
  <2>3. Live(x.g)
    BY <1>4, <2>2, LiveWhenReading
  <2>4. ReadLine(Deeper(p, d), d, x, ln) = ReadInclude(Deeper(p, d), d, x, ln)
    BY <1>1, <2>3, ReadLineIs
  <2>5. r = [macros |-> r.macros, out |-> r.out]
    BY DEF ReaderState
  <2>6. [macros |-> x.macros, out |-> x.out] = r
    BY <2>2, <2>5
  <2>7. Deeper(p, d)[ln.arg][r] = r2
    BY <1>3 DEF Deeper, Outcome
  <2>8. ReadInclude(Deeper(p, d), d, x, ln) = At(g, r2.macros, r2.out)
    BY <1>1, <2>2, <2>6, <2>7 DEF ReadInclude
  <2> QED
    BY <2>1, <2>4, <2>8 DEF x
<1>5. Follows(p, a, d, s, r2)
  BY <1>1, <1>2, <1>4, FollowsLine
<1> QED
  BY <1>1, <1>2, <1>3, <1>5

LEMMA EnteringOut ==
  ASSUME IInv, OutInv, HandleIncludeDirective, ~IncludeTooDeep, Here.arg # None,
         ShouldEnterIncludeFile(Here.arg)
  PROVE  OutInv'
<1>1. /\ ~eof /\ ~cur.raw /\ ~AtEnd /\ Here.k = "include"
      /\ UNCHANGED <<text, eof, macros, ctrl, out>>
      /\ inc' = Append(inc, Advance(cur)) /\ cur' = NewLexer(Here.arg)
  BY DEF HandleIncludeDirective, AtLine
<1>2. /\ cur \in Lexer /\ cur.pos < Len(text[cur.file]) /\ Here = text[cur.file][cur.pos + 1]
      /\ Here.arg \in Files /\ text \in [Files -> Seq(Line)] /\ inc \in Seq(Lexer)
      /\ Len(inc) \in Nat
  BY <1>1, Reading, LineArg DEF IInv, TypeOK
<1>3. PICK f \in Files : f = Here.arg
  BY <1>2
<1>4. PICK a \in Lexer : a = Advance(cur) /\ a.file = cur.file
  BY <1>2, AdvanceFields
<1>5. PICK n \in Nat : n = Len(inc)
  BY <1>2
<1>6. PICK r \in ReaderState : r = Now /\ r.macros = macros /\ r.out = out /\ Now' = r
  BY <1>1, NowType DEF IInv, Now
<1>7. PICK l2 : l2 = cur' /\ l2 = NewLexer(f) /\ l2.file = f
  BY <1>1, <1>3 DEF NewLexer
<1>8. /\ Len(inc') = n + 1 /\ inc'[n + 1] = a
      /\ \A k \in 1 .. n : inc'[k] = inc[k]
  BY <1>1, <1>2, <1>4, <1>5
<1>9. ASSUME NEW ent, EnteredIn(ent) PROVE EnteredIn(Append(ent, r))'
  <2> DEFINE e == Append(ent, r)
  <2>1. ent \in Seq(ReaderState) /\ Len(ent) = n + 1
    BY <1>5, <1>9 DEF EnteredIn
  <2>2. /\ e \in Seq(ReaderState) /\ Len(e) = n + 2 /\ e[n + 2] = r
        /\ \A k \in 1 .. n + 1 : e[k] = ent[k]
    BY <2>1
  <2> HIDE DEF e
  <2>3. /\ \A k \in 1 .. n + 1 : FileAt(k)' = FileAt(k)
        /\ FileAt(n + 2)' = f
    <3>1. \A k \in 1 .. n : FileAt(k)' = FileAt(k)
      BY <1>5, <1>8 DEF FileAt
    <3>2. FileAt(n + 1)' = FileAt(n + 1)
      BY <1>4, <1>5, <1>8 DEF FileAt
    <3>3. FileAt(n + 2)' = f
      BY <1>5, <1>7, <1>8 DEF FileAt
    <3>4. \A k \in 1 .. n + 1 : k \in 1 .. n \/ k = n + 1
      OBVIOUS
    <3> QED
      BY <3>1, <3>2, <3>3, <3>4
  <2>4. Follows(text, cur, n, ent[n + 1], r)
    BY <1>1, <1>5, <1>6, <1>9 DEF EnteredIn, Ends
  <2>5. Follows(text, a, n, ent[n + 1], Outcome(text, f, n + 1, r))
    <3>1. n # MaxAllowedIncludeStackDepth - 1
      BY <1>5 DEF IncludeTooDeep
    <3> QED
      BY <1>1, <1>2, <1>3, <1>4, <2>4, <3>1, EnteringReads
  <2>6. \A k \in 1 .. n + 1 :
          Follows(text, inc'[k], k - 1, e[k], Outcome(text, FileAt(k + 1)', k, e[k + 1]))
    <3>1. ASSUME NEW k \in 1 .. n
          PROVE  Follows(text, inc'[k], k - 1, e[k], Outcome(text, FileAt(k + 1)', k, e[k + 1]))
      <4>1. Follows(text, inc[k], k - 1, ent[k], Outcome(text, FileAt(k + 1), k, ent[k + 1]))
        BY <1>5, <1>9 DEF EnteredIn
      <4>2. k \in 1 .. n + 1 /\ k + 1 \in 1 .. n + 1
        OBVIOUS
      <4>3. inc'[k] = inc[k] /\ FileAt(k + 1)' = FileAt(k + 1) /\ e[k] = ent[k] /\ e[k + 1] = ent[k + 1]
        BY <1>8, <2>2, <2>3, <4>2
      <4> QED
        BY <4>1, <4>3
    <3>2. Follows(text, inc'[n + 1], n + 1 - 1, e[n + 1], Outcome(text, FileAt(n + 1 + 1)', n + 1, e[n + 1 + 1]))
      <4>1. n + 1 - 1 = n /\ n + 1 + 1 = n + 2 /\ n + 1 \in 1 .. n + 1
        OBVIOUS
      <4>2. e[n + 1] = ent[n + 1]
        BY <2>2, <4>1
      <4> QED
        BY <1>8, <2>2, <2>3, <2>5, <4>1, <4>2
    <3>3. \A k \in 1 .. n + 1 : k \in 1 .. n \/ k = n + 1
      OBVIOUS
    <3> QED
      BY <3>1, <3>2, <3>3
  <2>7. Follows(text, l2, n + 1, e[n + 2], r)
    BY <1>2, <1>7, <2>2, NewFollows
  <2>8. /\ Len(e) = Len(inc') + 1 /\ e[1] = Predefined(text) /\ FileAt(1)' = Main
    BY <1>8, <1>9, <2>2, <2>3 DEF EnteredIn
  <2>9. \A k \in 1 .. Len(inc') :
          Follows(text, inc'[k], k - 1, e[k], Outcome(text, FileAt(k + 1)', k, e[k + 1]))
    BY <1>8, <2>6
  <2>10. Follows(text, cur', Len(inc'), e[Len(inc') + 1], Now')
    <3>1. n + 1 + 1 = n + 2
      OBVIOUS
    <3> QED
      BY <1>6, <1>7, <1>8, <2>7, <3>1
  <2>11. EnteredIn(e)'
    BY <1>1, <2>2, <2>8, <2>9, <2>10 DEF EnteredIn
  <2> QED
    BY <2>11 DEF e
<1>10. InStep => InStep'
  BY <1>9 DEF InStep
<1>11. ReadsWell' <=> ReadsWell
  BY <1>1 DEF ReadsWell
<1> QED
  BY <1>1, <1>10, <1>11 DEF OutInv

LEMMA IncludeOut ==
  ASSUME IInv, IncludeStackBounded, OutInv, HandleIncludeDirective
  PROVE  OutInv'
<1>1. /\ ~eof /\ ~AtEnd /\ Here.k = "include" /\ Here \in Line /\ UNCHANGED <<text, eof>>
  BY Reading DEF HandleIncludeDirective, AtLine
<1>2. macros' \subseteq Macros /\ out' \in Seq(Event)
  BY IncludeStep DEF IInv, TypeOK
<1>3. CASE IncludeTooDeep \/ Here.arg = None
  BY <1>1, <1>2, <1>3, IncludeReads, InStepLine
<1>4. CASE ~IncludeTooDeep /\ Here.arg # None /\ ShouldEnterIncludeFile(Here.arg)
  BY <1>4, EnteringOut
<1>5. CASE ~IncludeTooDeep /\ Here.arg # None /\ ~ShouldEnterIncludeFile(Here.arg)
  <2>1. CASE ReadsWell
    <3> DEFINE n == Len(inc)
    <3>1. Here.arg \in Files
      BY <1>1, <1>5, LineArg
    <3>2. n \in Nat /\ n # MaxAllowedIncludeStackDepth - 1 /\ n < MaxAllowedIncludeStackDepth
      BY <1>5 DEF IncludeTooDeep, IncludeStackBounded, IInv, TypeOK
    <3>3. n + 1 \in 0 .. MaxAllowedIncludeStackDepth - 1
      BY <3>2, DepthAssumption
    <3>4. Outcome(text, Here.arg, n + 1, Now) = Now
      BY <1>5, <2>1, <3>1, <3>3, FilteredOutcome
    <3>5. Deeper(text, n)[Here.arg][Now] = Now
      BY <3>2, <3>4 DEF Deeper, Outcome
    <3>6. ReadsAs(Deeper(text, Len(inc)))
      BY <1>5, <3>5, IncludeReads DEF Now
    <3> QED
      BY <1>1, <1>2, <3>6, InStepLine
  <2>2. CASE ~ReadsWell
    BY <1>1, <2>2 DEF OutInv, ReadsWell
  <2> QED
    BY <2>1, <2>2
<1> QED
  BY <1>3, <1>4, <1>5

(* When a lexer has read its file, so has the reader. *)
LEMMA FollowsToEnd ==
  ASSUME NEW p \in [Files -> Seq(Line)], NEW l \in Lexer, l.pos = Len(p[l.file]),
         NEW d \in 0 .. MaxAllowedIncludeStackDepth - 1, NEW s \in ReaderState,
         NEW r \in ReaderState, Follows(p, l, d, s, r)
  PROVE  Outcome(p, l.file, d, s) = [macros |-> r.macros, out |-> r.out \o Unterminated(l.cond)]
<1>1. l.file \in Files
  BY LexerParts
<1>2. PICK g : Matches(l, g) /\ Reached(p, l, d, s) = At(g, r.macros, r.out)
  BY DEF Follows
<1>3. Outcome(p, l.file, d, s) = ReadEnd(ReadLines(p[l.file], Deeper(p, d), d, s)[Len(p[l.file])])
  BY <1>1, OutcomeIs
<1>4. Outcome(p, l.file, d, s) = ReadEnd(At(g, r.macros, r.out))
  BY <1>2, <1>3 DEF Reached
<1>5. r.out \in Seq(Event)
  BY DEF ReaderState
<1> QED
  BY <1>2, <1>4, <1>5, EndingOutcome

(* The reader has at the end of the current file what the lexer has after  *)
(* diagnosing its open conditionals.                                       *)
LEMMA AtFileEnd ==
  ASSUME IInv, IncludeStackBounded, AtEnd, NEW ent, EnteredIn(ent)
  PROVE  Outcome(text, cur.file, Len(inc), ent[Len(inc) + 1])
           = [macros |-> macros, out |-> out \o Unterminated(cur.cond)]
<1> DEFINE d == Len(inc)
           s == ent[Len(inc) + 1]
<1>1. /\ text \in [Files -> Seq(Line)] /\ cur \in Lexer /\ cur.pos = Len(text[cur.file])
      /\ d \in Nat /\ out \in Seq(Event)
  BY DEF IInv, TypeOK, AtEnd
<1>2. d \in 0 .. MaxAllowedIncludeStackDepth - 1
  BY <1>1, DepthAssumption DEF IncludeStackBounded
<1>3. s \in ReaderState
  BY <1>1 DEF EnteredIn
<1>4. Now \in ReaderState /\ Now.macros = macros /\ Now.out = out
  BY NowType DEF IInv
<1>5. CASE Follows(text, cur, d, s, Now)
  BY <1>1, <1>2, <1>3, <1>4, <1>5, FollowsToEnd
<1>6. CASE Ends(s)
  <2>1. cur.cond = <<>> /\ Outcome(text, cur.file, d, s) = Now
    BY <1>6 DEF Ends
  <2>2. Unterminated(cur.cond) = <<>>
    BY <2>1 DEF Unterminated
  <2>3. out \o Unterminated(cur.cond) = out
    BY <1>1, <2>2
  <2> QED
    BY <2>1, <2>3 DEF Now
<1> QED
  BY <1>5, <1>6 DEF EnteredIn

LEMMA SkipEndOut ==
  ASSUME IInv, IncludeStackBounded, OutInv, SkipEndOfFile
  PROVE  OutInv'
<1>1. /\ ~eof /\ AtEnd /\ UNCHANGED <<text, inc, eof, macros>> /\ cur \in Lexer
      /\ out' = out \o Unterminated(cur.cond)
      /\ cur' = WithRaw(WithCond(cur, <<>>), FALSE)
  BY DEF SkipEndOfFile, IInv, TypeOK
<1>2. /\ cur'.file = cur.file /\ cur'.pos = cur.pos /\ cur'.cond = <<>> /\ ~cur'.raw
  <2>1. <<>> \in Seq(Level)
    OBVIOUS
  <2>2. PICK l \in Lexer : l = WithCond(cur, <<>>) /\ l.file = cur.file /\ l.pos = cur.pos /\ l.cond = <<>>
    BY <1>1, <2>1, SetCond
  <2> QED
    BY <1>1, <2>2, SetRaw
<1>3. ASSUME NEW ent, EnteredIn(ent) PROVE EnteredIn(ent)'
  <2>1. Outcome(text, cur.file, Len(inc), ent[Len(inc) + 1]) = Now'
    BY <1>1, <1>3, AtFileEnd DEF Now
  <2>2. Ends(ent[Len(inc) + 1])'
    BY <1>1, <1>2, <2>1 DEF Ends, AtEnd
  <2>3. \A k : FileAt(k)' = FileAt(k)
    BY <1>1, <1>2 DEF FileAt
  <2>4. \A k \in 1 .. Len(inc) :
          Follows(text, inc[k], k - 1, ent[k], Outcome(text, FileAt(k + 1), k, ent[k + 1]))'
    BY <1>1, <1>3, <2>3 DEF EnteredIn
  <2>5. /\ ent \in Seq(ReaderState) /\ Len(ent) = Len(inc') + 1
        /\ ent[1] = Predefined(text') /\ FileAt(1)' = Main
    BY <1>1, <1>3, <2>3 DEF EnteredIn
  <2> QED
    BY <1>1, <2>2, <2>4, <2>5 DEF EnteredIn
<1> QED
  BY <1>1, <1>3 DEF OutInv, InStep, ReadsWell

LEMMA EndOfFileOut ==
  ASSUME IInv, IncludeStackBounded, OutInv, LexEndOfFile
  PROVE  OutInv'
<1>1. /\ ~eof /\ ~cur.raw /\ AtEnd /\ UNCHANGED <<text, macros>>
      /\ out' = out \o Unterminated(cur.cond)
  BY DEF LexEndOfFile
<1>2. cur \in Lexer /\ inc \in Seq(Lexer) /\ Len(inc) \in Nat
  BY DEF IInv, TypeOK
<1>3. ReadsWell' <=> ReadsWell
  BY <1>1 DEF ReadsWell
<1>4. CASE inc = <<>>
  <2>1. UNCHANGED inc /\ eof' /\ cur' = WithCond(cur, <<>>)
    BY <1>4 DEF LexEndOfFile
  <2>2. cur'.file = cur.file /\ cur'.pos = cur.pos /\ cur'.cond = <<>> /\ ~cur'.raw
    <3>1. <<>> \in Seq(Level)
      OBVIOUS
    <3>2. PICK l \in Lexer : /\ l = WithCond(cur, <<>>) /\ l.file = cur.file /\ l.pos = cur.pos
                            /\ l.cond = <<>> /\ l.raw = cur.raw
      BY <1>2, <3>1, SetCond
    <3> QED
      BY <1>1, <2>1, <3>2
  <2>3. AtEnd'
    BY <1>1, <2>2 DEF AtEnd
  <2>4. ASSUME NEW ent, EnteredIn(ent) PROVE EnteredIn(ent)'
    <3>1. Outcome(text, cur.file, Len(inc), ent[Len(inc) + 1]) = Now'
      BY <1>1, <2>4, AtFileEnd DEF Now
    <3>2. Ends(ent[Len(inc) + 1])'
      BY <1>1, <2>1, <2>2, <2>3, <3>1 DEF Ends
    <3>3. \A k : FileAt(k)' = FileAt(k)
      BY <2>1, <2>2 DEF FileAt
    <3>4. \A k \in 1 .. Len(inc) :
            Follows(text, inc[k], k - 1, ent[k], Outcome(text, FileAt(k + 1), k, ent[k + 1]))'
      BY <1>1, <2>1, <2>4, <3>3 DEF EnteredIn
    <3>5. /\ ent \in Seq(ReaderState) /\ Len(ent) = Len(inc') + 1
          /\ ent[1] = Predefined(text') /\ FileAt(1)' = Main
      BY <1>1, <2>1, <2>4, <3>3 DEF EnteredIn
    <3> QED
      BY <2>1, <3>2, <3>4, <3>5 DEF EnteredIn
  <2> QED
    BY <1>3, <1>4, <2>1, <2>2, <2>3, <2>4 DEF OutInv, InStep
<1>5. CASE inc # <<>>
  <2>1. cur' = Last(inc) /\ inc' = Front(inc) /\ ~eof'
    BY <1>1, <1>5 DEF LexEndOfFile
  <2>2. PICK n \in Nat : n = Len(inc) /\ n >= 1
    BY <1>2, <1>5
  <2>3. PICK l2 : l2 = cur' /\ l2 = inc[n]
    BY <1>2, <1>5, <2>1, <2>2, FrontLast
  <2>4. Len(inc') = n - 1 /\ \A k \in 1 .. n - 1 : inc'[k] = inc[k]
    BY <1>2, <1>5, <2>1, <2>2, FrontLast
  <2>5. /\ \A k \in 1 .. n : FileAt(k)' = FileAt(k)
        /\ FileAt(n + 1) = cur.file
    <3>1. \A k \in 1 .. n - 1 : FileAt(k)' = FileAt(k)
      BY <2>2, <2>4 DEF FileAt
    <3>2. FileAt(n)' = FileAt(n)
      BY <2>2, <2>3, <2>4 DEF FileAt
    <3>3. FileAt(n + 1) = cur.file
      BY <2>2 DEF FileAt
    <3>4. \A k \in 1 .. n : k \in 1 .. n - 1 \/ k = n
      OBVIOUS
    <3> QED
      BY <3>1, <3>2, <3>3, <3>4
  <2>6. ASSUME NEW ent, EnteredIn(ent) PROVE EnteredIn(Front(ent))'
    <3> DEFINE e == Front(ent)
    <3>1. ent \in Seq(ReaderState) /\ Len(ent) = n + 1
      BY <2>2, <2>6 DEF EnteredIn
    <3>2. ent # <<>>
      BY <2>2, <3>1
    <3>3. e \in Seq(ReaderState) /\ Len(e) = n /\ \A k \in 1 .. n : e[k] = ent[k]
      BY <3>1, <3>2, FrontLast
    <3> HIDE DEF e
    <3>4. PICK now : now = Now'
      OBVIOUS
    <3>5. Outcome(text, cur.file, n, ent[n + 1]) = now
      BY <1>1, <2>2, <2>6, <3>4, AtFileEnd DEF Now
    <3>6. Follows(text, inc[n], n - 1, ent[n], Outcome(text, FileAt(n + 1), n, ent[n + 1]))
      BY <2>2, <2>6 DEF EnteredIn
    <3>7. Follows(text, cur', n - 1, e[n], Now')
      BY <2>2, <2>3, <2>5, <3>3, <3>4, <3>5, <3>6
    <3>8. Follows(text, cur', Len(inc'), e[Len(inc') + 1], Now')
      BY <2>2, <2>4, <3>7
    <3>9. \A k \in 1 .. Len(inc') :
            Follows(text, inc'[k], k - 1, e[k], Outcome(text, FileAt(k + 1)', k, e[k + 1]))
      <4> SUFFICES ASSUME NEW k \in 1 .. n - 1
                   PROVE  Follows(text, inc'[k], k - 1, e[k], Outcome(text, FileAt(k + 1)', k, e[k + 1]))
        BY <2>4
      <4>1. k \in 1 .. n /\ k + 1 \in 1 .. n
        OBVIOUS
      <4>2. Follows(text, inc[k], k - 1, ent[k], Outcome(text, FileAt(k + 1), k, ent[k + 1]))
        BY <2>2, <2>6, <4>1 DEF EnteredIn
      <4>3. inc'[k] = inc[k] /\ FileAt(k + 1)' = FileAt(k + 1) /\ e[k] = ent[k] /\ e[k + 1] = ent[k + 1]
        BY <2>4, <2>5, <3>3, <4>1
      <4> QED
        BY <4>2, <4>3
    <3>10. /\ Len(e) = Len(inc') + 1 /\ e[1] = Predefined(text) /\ FileAt(1)' = Main
      BY <2>2, <2>4, <2>5, <2>6, <3>3 DEF EnteredIn
    <3>11. EnteredIn(e)'
      BY <1>1, <3>3, <3>8, <3>9, <3>10 DEF EnteredIn
    <3> QED
      BY <3>11 DEF e
  <2> QED
    BY <1>3, <2>1, <2>6 DEF OutInv, InStep
<1> QED
  BY <1>4, <1>5

LEMMA NextOut == IInv /\ IncludeStackBounded /\ OutInv /\ [Next]_vars => OutInv'
<1> SUFFICES ASSUME IInv, IncludeStackBounded, OutInv, [Next]_vars PROVE OutInv'
  OBVIOUS
<1> DEFINE D == Deeper(text, Len(inc))
<1>1. CASE UNCHANGED vars
  <2>1. \A k : FileAt(k)' = FileAt(k)
    BY <1>1 DEF vars, FileAt
  <2>2. UNCHANGED <<text, cur, inc, eof, macros, out>>
    BY <1>1 DEF vars
  <2>3. \A ent : EnteredIn(ent)' <=> EnteredIn(ent)
    BY <2>1, <2>2 DEF EnteredIn, Ends, AtEnd, Now
  <2> QED
    BY <2>2, <2>3 DEF OutInv, InStep, ReadsWell, AtEnd
<1>2. macros' \subseteq Macros /\ out' \in Seq(Event)
  <2>1. IInv'
    BY NextIInv
  <2> QED
    BY <2>1 DEF IInv, TypeOK
<1>3. CASE LexText \/ LexIdentifier \/ HandleDefineDirective \/ HandleUndefDirective
  <2>1. ~eof /\ ~AtEnd
    BY <1>3 DEF LexText, LexIdentifier, HandleDefineDirective, HandleUndefDirective, AtLine
  <2> QED
    BY <1>2, <1>3, <2>1, TextReads, InStepLine
<1>4. CASE HandleIfdefDirective \/ HandleIfDirective
  <2>1. ~eof /\ ~AtEnd
    BY <1>4 DEF HandleIfdefDirective, HandleIfDirective, AtLine
  <2> QED
    BY <1>2, <1>4, <2>1, OpeningReads, InStepLine
<1>5. CASE HandleElseDirective \/ HandleElifDirective
  <2>1. ~eof /\ ~AtEnd
    BY <1>5 DEF HandleElseDirective, HandleElifDirective, HandleAlternative, AtLine
  <2> QED
    BY <1>2, <1>5, <2>1, AlternativeReads, InStepLine
<1>6. CASE HandleEndifDirective
  <2>1. ~eof /\ ~AtEnd
    BY <1>6 DEF HandleEndifDirective, AtLine
  <2> QED
    BY <1>2, <1>6, <2>1, EndifReads, InStepLine
<1>7. CASE HandleIncludeDirective
  BY <1>7, IncludeOut
<1>8. CASE LexEndOfFile
  BY <1>8, EndOfFileOut
<1>9. CASE SkipOther \/ SkipIf \/ SkipEndif
  <2>1. ~eof /\ ~AtEnd
    BY <1>9 DEF SkipOther, SkipIf, SkipEndif, SkipLine
  <2> QED
    BY <1>2, <1>9, <2>1, SkipReads, InStepLine
<1>10. CASE SkipElse \/ SkipElif
  <2>1. ~eof /\ ~AtEnd
    BY <1>10 DEF SkipElse, SkipElif, SkipLine
  <2> QED
    BY <1>2, <1>10, <2>1, TurnReads, InStepLine
<1>11. CASE SkipEndOfFile
  BY <1>11, SkipEndOut
<1>12. CASE ClientDone
  BY <1>1, <1>12 DEF ClientDone
<1> QED
  BY <1>1, <1>3, <1>4, <1>5, <1>6, <1>7, <1>8, <1>9, <1>10, <1>11, <1>12 DEF Next

(* What the client has seen at the end is what the reader makes of the     *)
(* main file.                                                              *)
LEMMA OutAtEnd ==
  ASSUME IInv, OutInv
  PROVE  OutputMatchesReference
<1> SUFFICES ASSUME eof, \A f \in Files : ~Misjudged(text[f])
             PROVE  Reference(text) = [macros |-> macros, out |-> out]
  BY DEF OutputMatchesReference
<1>1. /\ inc = <<>> /\ AtEnd /\ ~cur.raw /\ cur.cond = <<>>
      /\ text \in [Files -> Seq(Line)] /\ cur \in Lexer
  BY DEF OutInv, IInv, TypeOK
<1>2. PICK ent : EnteredIn(ent)
  BY DEF OutInv, ReadsWell, InStep
<1>3. Len(inc) = 0
  BY <1>1
<1>4. IncludeStackBounded
  BY <1>3, DepthAssumption DEF IncludeStackBounded
<1>5. ent[1] = Predefined(text) /\ cur.file = Main
  BY <1>2, <1>3 DEF EnteredIn, FileAt
<1>6. Outcome(text, cur.file, Len(inc), ent[Len(inc) + 1]) = [macros |-> macros, out |-> out \o Unterminated(cur.cond)]
  BY <1>1, <1>2, <1>4, AtFileEnd
<1>7. Unterminated(cur.cond) = <<>>
  BY <1>1 DEF Unterminated
<1>8. out \o Unterminated(cur.cond) = out
  BY <1>7 DEF IInv, TypeOK
<1>9. Outcome(text, Main, 0, Predefined(text)) = [macros |-> macros, out |-> out]
  BY <1>3, <1>5, <1>6, <1>8
<1> QED
  BY <1>9 DEF Outcome, Predefined, Reference

(* Whatever the program: when its files stand between guards the filter    *)
(* reads right, the client has seen at the end the tokens and diagnostics  *)
(* of a preprocessor that has no filter and reads every line, and the same *)
(* macros are defined.                                                     *)
THEOREM OutputCorrect == Spec => []OutputMatchesReference
<1>1. Init => OutInv
  BY InitOut
<1>2. IInv /\ IncludeStackBounded /\ OutInv /\ [Next]_vars => OutInv'
  BY NextOut
<1>3. IInv /\ OutInv => OutputMatchesReference
  BY OutAtEnd
<1> QED
  BY <1>1, <1>2, <1>3, Invariance, IncludeStackCorrect, PTL DEF Spec
=============================================================================
