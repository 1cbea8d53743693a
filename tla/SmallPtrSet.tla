----------------------------- MODULE SmallPtrSet -----------------------------
(***************************************************************************)
(* llvm/SmallPtrSet: the sets with which InitHeaderSearch drops duplicate  *)
(* search directories.  A small set is an unordered array inside the       *)
(* object; when it overflows it becomes a hash table.                      *)
(*                                                                         *)
(* Least is 128 in the code, the smallest table Grow allocates, and        *)
(* ShrinkAbove is 32, the smallest table clear goes back to.               *)
(***************************************************************************)
EXTENDS Probing, Sequences, SequencesExt, FiniteSetsExt

CONSTANTS Least, ShrinkAbove

EmptyMarker == -1
TombstoneMarker == -2

AllEmpty(size) == [b \in 0..(size - 1) |-> EmptyMarker]

\* isSmall: CurArray is the array in the object.
SmallPtrSetImpl(SmallSize) ==
  [isSmall |-> TRUE, CurArraySize |-> SmallSize, CurArray |-> AllEmpty(SmallSize),
   NumElements |-> 0, NumTombstones |-> 0]

Hash(set, ptr) == (ptr \div 16) % set.CurArraySize

StopsProbe(set, ptr, b) == set.CurArray[b] \in {ptr, EmptyMarker}
ProbeEnds(set, ptr) ==
  \/ set.isSmall
  \/ Ends(LAMBDA b : StopsProbe(set, ptr, b), Hash(set, ptr), set.CurArraySize)

FindBucketFor(set, ptr) ==
  LET hash == Hash(set, ptr)
      steps == FirstStep(LAMBDA b : StopsProbe(set, ptr, b), hash, set.CurArraySize)
      end == Slot(hash, steps, set.CurArraySize)
  IN IF set.CurArray[end] = ptr THEN end
     ELSE Vacancy(LAMBDA b : set.CurArray[b] = TombstoneMarker, hash, steps, set.CurArraySize)

\* A small set keeps its elements in the first NumElements places.
Scan(set, ptr) == {b \in 0..(set.NumElements - 1) : set.CurArray[b] = ptr}

\* The tombstones of a small set, of which there are none, are not reset.
Grow(set) ==
  LET size == IF set.CurArraySize < Least \div 2 THEN Least ELSE set.CurArraySize * 2
      old == [i \in 1..(IF set.isSmall THEN set.NumElements ELSE set.CurArraySize) |->
                set.CurArray[i - 1]]
      Copy(new, ptr) ==
        IF ptr \in {EmptyMarker, TombstoneMarker} THEN new
        ELSE [new EXCEPT !.CurArray[FindBucketFor(new, ptr)] = ptr]
  IN FoldLeft(Copy,
              [isSmall |-> FALSE, CurArraySize |-> size, CurArray |-> AllEmpty(size),
               NumElements |-> set.NumElements,
               NumTombstones |-> IF set.isSmall THEN set.NumTombstones ELSE 0],
              old)

Crowded(set) ==
  LET free == set.CurArraySize - (set.NumElements + set.NumTombstones)
  IN \/ set.NumElements * 4 >= set.CurArraySize * 3
     \/ 0 <= free /\ free < set.CurArraySize \div 8

\* The table may grow although the pointer turns out to be there; a small set
\* of one or two places may be probed as a table before it grows.
insert_imp(set0, ptr) ==
  IF set0.isSmall /\ Scan(set0, ptr) # {} THEN [set |-> set0, inserted |-> FALSE]
  ELSE IF set0.isSmall /\ set0.NumElements < set0.CurArraySize - 1
  THEN [set |-> [set0 EXCEPT !.CurArray[set0.NumElements] = ptr, !.NumElements = @ + 1],
        inserted |-> TRUE]
  ELSE LET set == IF Crowded(set0) THEN Grow(set0) ELSE set0
           bucket == FindBucketFor(set, ptr)
       IN IF set.CurArray[bucket] = ptr THEN [set |-> set, inserted |-> FALSE]
          ELSE [set |-> [set EXCEPT !.CurArray[bucket] = ptr, !.NumElements = @ + 1,
                                    !.NumTombstones = IF set.CurArray[bucket] = TombstoneMarker
                                                      THEN @ - 1 ELSE @],
                inserted |-> TRUE]

\* A small set moves its last element into the gap.
erase_imp(set, ptr) ==
  IF set.isSmall
  THEN LET at == Scan(set, ptr)
           last == set.NumElements - 1
       IN IF at = {} THEN [set |-> set, found |-> FALSE]
          ELSE [set |-> [set EXCEPT !.CurArray = [set.CurArray EXCEPT ![Min(at)] = set.CurArray[last],
                                                                         ![last] = EmptyMarker],
                                    !.NumElements = @ - 1],
                found |-> TRUE]
  ELSE LET bucket == FindBucketFor(set, ptr)
       IN IF set.CurArray[bucket] # ptr THEN [set |-> set, found |-> FALSE]
          ELSE [set |-> [set EXCEPT !.CurArray[bucket] = TombstoneMarker,
                                    !.NumElements = @ - 1, !.NumTombstones = @ + 1],
                found |-> TRUE]

count_imp(set, ptr) ==
  IF set.isSmall THEN Scan(set, ptr) # {} ELSE set.CurArray[FindBucketFor(set, ptr)] = ptr

\* 1 << (Log2_32_Ceil(n) + 1)
TwicePowerAbove(n) == CHOOSE p \in {2 ^ (k + 1) : k \in 0..16} : n <= p \div 2 /\ p \div 4 < n

\* A large, sparse table is given back for a smaller one.
shrink_and_clear(set) ==
  LET size == IF set.NumElements > ShrinkAbove \div 2 THEN TwicePowerAbove(set.NumElements)
              ELSE ShrinkAbove
  IN [isSmall |-> FALSE, CurArraySize |-> size, CurArray |-> AllEmpty(size),
      NumElements |-> 0, NumTombstones |-> 0]

clear(set) ==
  IF ~set.isSmall /\ set.NumElements * 4 < set.CurArraySize /\ set.CurArraySize > ShrinkAbove
  THEN shrink_and_clear(set)
  ELSE [set EXCEPT !.CurArray = AllEmpty(set.CurArraySize), !.NumElements = 0, !.NumTombstones = 0]

\* begin() and ++ pass over the buckets without a valid pointer.
Walk(set) ==
  SelectSeq([i \in 1..set.CurArraySize |-> set.CurArray[i - 1]],
            LAMBDA ptr : ptr \notin {EmptyMarker, TombstoneMarker})
=============================================================================
