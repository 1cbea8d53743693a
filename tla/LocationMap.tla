---------------------------- MODULE LocationMap ----------------------------
(***************************************************************************)
(* What SourceManager promises about offsets, without its cache or its     *)
(* searches: the offset space is cut into consecutive extents, one per     *)
(* file entered and one per token instantiated, and getFileID answers with *)
(* the extent that contains the offset it is asked about.                  *)
(***************************************************************************)
EXTENDS Integers

CONSTANTS Sizes,        \* the sizes of the extents that are created
          OffsetLimit   \* the end of the offset space

VARIABLES starts,   \* where each extent starts
          next,     \* where the next one will
          asked,    \* the offset of the query under way, 0 between queries
          answer    \* the start of the extent the last query was answered with

mapVars == <<starts, next, asked, answer>>

Init == /\ starts = {0}
        /\ next = 2
        /\ asked = 0
        /\ answer = 0

(* The extent that starts at s is the one that contains offset o. *)
StartOf(s, o) == s <= o /\ \A t \in starts : t <= o => t <= s

Extend == /\ asked = 0
          /\ \E size \in Sizes :
                /\ next + size + 1 <= OffsetLimit
                /\ starts' = starts \cup {next}
                /\ next' = next + size + 1
          /\ UNCHANGED <<asked, answer>>

Ask == /\ asked = 0
       /\ \E o \in 1 .. next - 1 : asked' = o
       /\ UNCHANGED <<starts, next, answer>>

Answer == /\ asked # 0
          /\ \E s \in starts : StartOf(s, asked) /\ answer' = s
          /\ asked' = 0
          /\ UNCHANGED <<starts, next>>

Next == Extend \/ Ask \/ Answer

Spec == Init /\ [][Next]_mapVars /\ WF_mapVars(Answer)
=============================================================================
