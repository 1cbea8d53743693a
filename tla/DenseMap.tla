------------------------------ MODULE DenseMap ------------------------------
(***************************************************************************)
(* llvm/DenseMap: the table from identifiers to macros and from files to   *)
(* their contents.  The keys are pointers, kept in the buckets themselves; *)
(* two pointers no object has stand for an empty bucket and a tombstone.   *)
(*                                                                         *)
(* ShrinkAbove is 64 in the code: clear gives a larger table back when it  *)
(* is less than a quarter full.                                            *)
(***************************************************************************)
EXTENDS Probing, Bitwise, Sequences, SequencesExt

CONSTANTS ShrinkAbove

EmptyKey == -1                    \* -1 and -2, shifted past the low bits
TombstoneKey == -2

getHashValue(ptr) == (ptr \div 16) ^^ (ptr \div 512)

EmptyBucket == [first |-> EmptyKey]
EmptyBuckets(count) == [b \in 0..(count - 1) |-> EmptyBucket]
Live(bucket) == bucket.first \notin {EmptyKey, TombstoneKey}

init(InitBuckets) ==
  [NumBuckets |-> InitBuckets, Buckets |-> EmptyBuckets(InitBuckets),
   NumEntries |-> 0, NumTombstones |-> 0]

StopsProbe(map, key, b) == map.Buckets[b].first \in {key, EmptyKey}
ProbeEnds(map, key) ==
  Ends(LAMBDA b : StopsProbe(map, key, b), getHashValue(key), map.NumBuckets)

\* The bucket of the key, or else the first tombstone on the way or the empty
\* bucket where the probe ended.
LookupBucketFor(map, Val) ==
  LET hash == getHashValue(Val)
      steps == FirstStep(LAMBDA b : StopsProbe(map, Val, b), hash, map.NumBuckets)
      end == Slot(hash, steps, map.NumBuckets)
  IN IF map.Buckets[end].first = Val THEN [found |-> TRUE, bucket |-> end]
     ELSE [found |-> FALSE,
           bucket |-> Vacancy(LAMBDA b : map.Buckets[b].first = TombstoneKey,
                              hash, steps, map.NumBuckets)]

\* Doubling until there are more than AtLeast buckets: twice is not enough.
RECURSIVE Doubled(_, _)
Doubled(count, AtLeast) ==
  IF count <= AtLeast THEN Doubled(2 * count, AtLeast) ELSE count

grow(map, AtLeast) ==
  LET size == Doubled(map.NumBuckets, AtLeast)
      Reinsert(new, b) ==
        IF Live(map.Buckets[b])
        THEN [new EXCEPT !.Buckets[LookupBucketFor(new, map.Buckets[b].first).bucket] = map.Buckets[b]]
        ELSE new
  IN FoldLeft(Reinsert,
              [NumBuckets |-> size, Buckets |-> EmptyBuckets(size),
               NumEntries |-> map.NumEntries, NumTombstones |-> 0],
              [i \in 1..map.NumBuckets |-> i - 1])

\* The new entry is counted before the load is looked at; the subtraction is
\* unsigned.
ShouldGrow(map) ==
  LET free == map.NumBuckets - (map.NumEntries + map.NumTombstones)
  IN \/ map.NumEntries * 4 >= map.NumBuckets * 3
     \/ 0 <= free /\ free < map.NumBuckets \div 8

InsertIntoBucket(map0, Key, Value, bucket0) ==
  LET counted == [map0 EXCEPT !.NumEntries = @ + 1]
      grows == ShouldGrow(counted)
      map == IF grows THEN grow(counted, counted.NumBuckets * 2) ELSE counted
      bucket == IF grows THEN LookupBucketFor(map, Key).bucket ELSE bucket0
  IN [map EXCEPT !.NumTombstones = IF map.Buckets[bucket].first # EmptyKey THEN @ - 1 ELSE @,
                 !.Buckets[bucket] = [first |-> Key, second |-> Value]]

insert(map, Key, Value) ==
  LET at == LookupBucketFor(map, Key)
  IN IF at.found THEN [map |-> map, inserted |-> FALSE]
     ELSE [map |-> InsertIntoBucket(map, Key, Value, at.bucket), inserted |-> TRUE]

erase(map, Val) ==
  LET at == LookupBucketFor(map, Val)
  IN IF ~at.found THEN [map |-> map, found |-> FALSE]
     ELSE [map |-> [map EXCEPT !.Buckets[at.bucket] = [first |-> TombstoneKey],
                               !.NumEntries = @ - 1, !.NumTombstones = @ + 1],
           found |-> TRUE]

\* 1 << (Log2_32_Ceil(n) + 1)
TwicePowerAbove(n) == CHOOSE p \in {2 ^ (k + 1) : k \in 0..16} : n <= p \div 2 /\ p \div 4 < n

shrink_and_clear(map) ==
  init(IF map.NumEntries > ShrinkAbove \div 2 THEN TwicePowerAbove(map.NumEntries) ELSE ShrinkAbove)

clear(map) ==
  IF map.NumEntries * 4 < map.NumBuckets /\ map.NumBuckets > ShrinkAbove
  THEN shrink_and_clear(map)
  ELSE init(map.NumBuckets)

\* begin() and ++ pass over empty buckets and tombstones.
Walk(map) == SelectSeq([i \in 1..map.NumBuckets |-> map.Buckets[i - 1]], Live)
=============================================================================
