------------------------------ MODULE HeaderMap ------------------------------
(***************************************************************************)
(* Basic/HeaderMap: a file that maps include names to paths, a hash table  *)
(* somebody else wrote: a record of                                        *)
(*   NumBuckets  as the header has it,                                     *)
(*   buckets     those that lie inside the file, from 0, each with the     *)
(*               offsets Key, Prefix and Suffix, 0 being the empty Key,    *)
(*   strings     what is found at the offsets that lie inside the file.    *)
(* In the file the strings lie behind the buckets.  A header that claims   *)
(* more buckets than were written, and so has strings read as buckets, is  *)
(* left out.  So is what Create does to the buffer: it deletes the buffer  *)
(* that it hands to the map (HeaderMap.cpp:80), and a lookup here reads    *)
(* the file as if the buffer were still alive.                             *)
(***************************************************************************)
EXTENDS Integers, Sequences, Bitwise, SequencesExt, FiniteSetsExt

EmptyBucketKey == 0

\* tolower on a character code.
Lower(c) == IF c \in 65..90 THEN c + 32 ELSE c
LowerCase(name) == [i \in DOMAIN name |-> Lower(name[i])]

HashHMapKey(name) == FoldLeft(LAMBDA sum, c : sum + Lower(c) * 13, 0, name)

IsPowerOfTwo(n) == n = 0 \/ n & (n - 1) = 0

\* A bucket outside the file reads as an empty one.
getBucket(map, b) ==
  IF b \in DOMAIN map.buckets THEN map.buckets[b]
  ELSE [Key |-> EmptyBucketKey, Prefix |-> 0, Suffix |-> 0]

\* Outside the file, where the comment has the empty string, getString gives
\* a null pointer.
InFile(map, offset) == offset \in DOMAIN map.strings
getString(map, offset) == map.strings[offset]

\* A mask of all ones when there are no buckets.
Bucket(map, i) == IF map.NumBuckets = 0 THEN i ELSE i % map.NumBuckets

\* Mutant: the lengths are not compared.
StringsEqualWithoutCase_Prefix(s, t) == IsPrefix(LowerCase(t), LowerCase(s))

StringsEqualWithoutCase(s, t) == LowerCase(s) = LowerCase(t)

\* The probe stops at an empty bucket and at the name; and strlen of a null
\* pointer is the end of the program.
StopsAt(map, name, b) ==
  LET key == getBucket(map, b).Key
  IN \/ key = EmptyBucketKey
     \/ ~InFile(map, key)
     \/ StringsEqualWithoutCase(getString(map, key), name)

\* `null' is the use of a null pointer as a string, `never' a probe that goes
\* around for ever.
LookupFile(map, name) ==
  LET hash == HashHMapKey(name)
      reach == IF map.NumBuckets = 0 THEN {0} ELSE 0..(map.NumBuckets - 1)
      stops == {i \in reach : StopsAt(map, name, Bucket(map, hash + i))}
      bucket == getBucket(map, Bucket(map, hash + Min(stops)))
  IN IF ~IsPowerOfTwo(map.NumBuckets) THEN [result |-> "miss"]
     ELSE IF stops = {} THEN [result |-> "never"]
     ELSE IF bucket.Key = EmptyBucketKey THEN [result |-> "miss"]
     ELSE IF \E offset \in {bucket.Key, bucket.Prefix, bucket.Suffix} : ~InFile(map, offset)
     THEN [result |-> "null"]
     ELSE [result |-> "file", path |-> getString(map, bucket.Prefix) \o getString(map, bucket.Suffix)]
=============================================================================
