------------------------------ MODULE StringMap ------------------------------
(***************************************************************************)
(* llvm/StringMap: the hash table behind the identifier table, the file    *)
(* and directory caches of FileManager, the #include cache of HeaderSearch *)
(* and the #line filename table.  A bucket keeps the full hash value of    *)
(* its item; erased items leave tombstones.                                *)
(*                                                                         *)
(* A map is the record of the fields of StringMapImpl; the entries it      *)
(* points to are kept in the bucket that points to them.  Keys are         *)
(* sequences of characters.  HashBits is the width of the hash (32).       *)
(***************************************************************************)
EXTENDS Probing, Sequences, SequencesExt

CONSTANTS HashBits

\* The hash value of a bucket without an entry is never read: 0 stands for it
\* until LookupBucketFor writes the value of the name that is to go there.
Null == [Item |-> "null", FullHashValue |-> 0]              \* from calloc
Tombstone == [Item |-> "tombstone", FullHashValue |-> 0]
Entry(hash, key, value) ==
  [Item |-> "entry", FullHashValue |-> hash, first |-> key, second |-> value]

IsNull(bucket) == bucket.Item = "null"
IsTombstone(bucket) == bucket.Item = "tombstone"
IsEntry(bucket) == bucket.Item = "entry"

\* Bernstein's hash, with the high bits folded in.
HashString(name) ==
  LET result == FoldLeft(LAMBDA r, c : (r * 33 + c) % 2 ^ HashBits, 0, name)
  IN (result + result \div 32) % 2 ^ HashBits

Unallocated ==
  [NumBuckets |-> 0, TheTable |-> <<>>, NumItems |-> 0, NumTombstones |-> 0]

init(InitSize) ==
  LET size == IF InitSize = 0 THEN 16 ELSE InitSize
  IN [NumBuckets |-> size, TheTable |-> [b \in 0..(size - 1) |-> Null],
      NumItems |-> 0, NumTombstones |-> 0]

StringMapImpl(InitSize) == IF InitSize = 0 THEN Unallocated ELSE init(InitSize)

Matches(bucket, hash, name) ==
  IsEntry(bucket) /\ bucket.FullHashValue = hash /\ bucket.first = name

\* Both probes stop at a null bucket or at the entry of the name.
StopsProbe(map, hash, name, b) ==
  IsNull(map.TheTable[b]) \/ Matches(map.TheTable[b], hash, name)
ProbeEnds(map, name) ==
  LET hash == HashString(name)
  IN map.NumBuckets # 0 => Ends(LAMBDA b : StopsProbe(map, hash, name, b), hash, map.NumBuckets)
ProbeSteps(map, hash, name) ==
  FirstStep(LAMBDA b : StopsProbe(map, hash, name, b), hash, map.NumBuckets)

\* The bucket where the name is or should go, reusing the first tombstone on
\* the way; a vacant bucket gets the hash value of the name.
LookupBucketFor(map0, Name) ==
  LET map == IF map0.NumBuckets = 0 THEN init(16) ELSE map0
      hash == HashString(Name)
      steps == ProbeSteps(map, hash, Name)
      end == Slot(hash, steps, map.NumBuckets)
      bucket == IF IsNull(map.TheTable[end])
                THEN Vacancy(LAMBDA b : IsTombstone(map.TheTable[b]), hash, steps, map.NumBuckets)
                ELSE end
  IN [map |-> [map EXCEPT !.TheTable[bucket].FullHashValue = hash], BucketNo |-> bucket]

FindKey(map, Key) ==
  IF map.NumBuckets = 0 THEN -1
  ELSE LET hash == HashString(Key)
           end == Slot(hash, ProbeSteps(map, hash, Key), map.NumBuckets)
       IN IF IsNull(map.TheTable[end]) THEN -1 ELSE end

\* Mutant: the bucket is empty again, and ends the probes that went on past it.
RemoveKey_Null(map, Key) ==
  LET bucket == FindKey(map, Key) IN
  IF bucket = -1 THEN [map |-> map, found |-> FALSE]
  ELSE [map |-> [map EXCEPT !.TheTable[bucket] = Null, !.NumItems = @ - 1], found |-> TRUE]

RemoveKey(map, Key) ==
  LET bucket == FindKey(map, Key) IN
  IF bucket = -1 THEN [map |-> map, found |-> FALSE]
  ELSE [map |-> [map EXCEPT !.TheTable[bucket] = Tombstone,
                            !.NumItems = @ - 1, !.NumTombstones = @ + 1],
        found |-> TRUE]

\* Mutant: a table full of tombstones is left as it is.
ShouldRehash_NoTombstones(map) == map.NumItems * 4 > map.NumBuckets * 3

\* The subtraction is unsigned: below zero it is huge, not small.
ShouldRehash(map) ==
  LET free == map.NumBuckets - (map.NumItems + map.NumTombstones)
  IN \/ map.NumItems * 4 > map.NumBuckets * 3
     \/ 0 <= free /\ free < map.NumBuckets \div 8

\* Every entry goes to the first null bucket of its probe in a table twice the
\* size.  NumTombstones is not touched, although no tombstone is left.
RehashTable(map) ==
  LET newSize == map.NumBuckets * 2
      Place(table, b) ==
        LET item == map.TheTable[b]
            hash == item.FullHashValue
            steps == FirstStep(LAMBDA s : IsNull(table[s]), hash, newSize)
        IN IF IsEntry(item) THEN [table EXCEPT ![Slot(hash, steps, newSize)] = item] ELSE table
  IN [map EXCEPT !.NumBuckets = newSize,
                 !.TheTable = FoldLeft(Place, [b \in 0..(newSize - 1) |-> Null],
                                       [i \in 1..map.NumBuckets |-> i - 1])]

\* insert and GetOrCreateValue: an entry that exists is left as it is.
insert(map0, Key, Val) ==
  LET found == LookupBucketFor(map0, Key)
      map == found.map
      bucket == map.TheTable[found.BucketNo]
      filled == [map EXCEPT !.TheTable[found.BucketNo] = Entry(@.FullHashValue, Key, Val),
                            !.NumTombstones = IF IsTombstone(bucket) THEN @ - 1 ELSE @,
                            !.NumItems = @ + 1]
  IN IF IsEntry(bucket) THEN [map |-> map, inserted |-> FALSE]
     ELSE [map |-> IF ShouldRehash(filled) THEN RehashTable(filled) ELSE filled,
           inserted |-> TRUE]

\* clear empties the buckets of entries and leaves the tombstones.
clear(map) ==
  IF map.NumItems = 0 THEN map
  ELSE [map EXCEPT !.TheTable = [b \in DOMAIN @ |->
                                        IF IsEntry(@[b]) THEN Null ELSE @[b]],
                   !.NumItems = 0]

\* begin() and ++ walk the buckets and pass over null buckets and tombstones;
\* the bucket after the last one looks filled and stops them.
Walk(map) ==
  SelectSeq([i \in 1..map.NumBuckets |-> map.TheTable[i - 1]], IsEntry)
=============================================================================
