------------------------------ MODULE MCTables ------------------------------
(***************************************************************************)
(* The containers of the support library, one at a time, under every       *)
(* sequence of calls a client can make: `which' is the container under     *)
(* test, `table' its state, `present' whether the last call found its key, *)
(* and `contents' the dictionary the table stands for.                     *)
(***************************************************************************)
EXTENDS Integers, Sequences, FiniteSets, SequencesExt

CONSTANTS
  Buckets,        \* the buckets a table starts with (bound; 8 is the least
                  \* with which the rule about tombstones works)
  MaxBuckets,     \* no insertion is made into more, of strings into twice as
                  \* many, of pointers into four times (bound)
  MaxLive,        \* entries a table holds at once (bound)
  MaxCalls        \* allocations, and tokens put into scratch buffers (bound)

VARIABLES which, table, present, contents

S == INSTANCE StringMap WITH HashBits <- 16
M == INSTANCE DenseMap WITH ShrinkAbove <- 16
P == INSTANCE SmallPtrSet WITH Least <- 32, ShrinkAbove <- 16
F == INSTANCE FoldingSet WITH ComputeHash <- LAMBDA profile : profile
H == INSTANCE HeaderMap
B == INSTANCE BumpPtrAllocator WITH SlabSize <- 32, SizeThreshold <- 32, HeaderSize <- 4
T == INSTANCE ScratchBuffer WITH ScratchBufSize <- 8, Nul <- 0, Newline <- 10, Zero <- 48

vars == <<which, table, present, contents>>

(***************************************************************************)
(* Five keys: strings and pointers that collide in eight buckets, two of   *)
(* the strings in the whole hash value, and profiles that are their own    *)
(* hash values.  Two values, to tell whether an insertion overwrites; a    *)
(* set of pointers has only the first.                                     *)
(***************************************************************************)
Keys == 1..5
Values == {1, 2}

Strings == <<<<>>, <<8>>, <<9>>, <<1, 8>>, <<41>>>>
Numbers == <<1, 2, 9, 17, 25>>

Key(k) == CASE which = "strings" -> Strings[k]
            [] which = "folding" -> Numbers[k]
            [] OTHER -> 16 * Numbers[k]

(***************************************************************************)
(* The dictionary a table stands for, what it answers to a lookup of each  *)
(* key; `contents' is that of the table at hand.                           *)
(***************************************************************************)
ProbeEnds(map, k) ==
  CASE which = "strings"  -> S!ProbeEnds(map, Key(k))
    [] which = "dense"    -> M!ProbeEnds(map, Key(k))
    [] which = "pointers" -> P!ProbeEnds(map, Key(k))
    [] OTHER -> TRUE

Lookup(map, k) ==
  LET key == Key(k)
      s == S!FindKey(map, key)
      m == M!LookupBucketFor(map, key)
      f == F!FindNodeOrInsertPos(map, key)
  IN CASE which = "strings"  -> IF s = -1 THEN 0 ELSE map.TheTable[s].second
       [] which = "dense"    -> IF m.found THEN map.Buckets[m.bucket].second ELSE 0
       [] which = "pointers" -> IF P!count_imp(map, key) THEN 1 ELSE 0
       [] which = "folding"  -> IF f.found THEN f.node.value ELSE 0
       [] OTHER -> 0

Contents(map) ==
  LET value == [k \in Keys |-> IF ProbeEnds(map, k) THEN Lookup(map, k) ELSE 0]
  IN [k \in {x \in Keys : value[x] # 0} |-> value[k]]

D == INSTANCE Dictionary WITH dict <- contents

\* size() and the keys an iterator visits.
Items ==
  CASE which = "strings"  -> table.NumItems
    [] which = "dense"    -> table.NumEntries
    [] which = "pointers" -> table.NumElements
    [] which = "folding"  -> table.NumNodes
    [] OTHER -> 0
Walk ==
  LET s == S!Walk(table)
      m == M!Walk(table)
      f == F!Nodes(table)
  IN CASE which = "strings"  -> [i \in DOMAIN s |-> s[i].first]
       [] which = "dense"    -> [i \in DOMAIN m |-> m[i].first]
       [] which = "pointers" -> P!Walk(table)
       [] which = "folding"  -> [i \in DOMAIN f |-> f[i].profile]
       [] OTHER -> <<>>

(***************************************************************************)
(* The calls.  A set has no values; those of a map matter for one key.     *)
(***************************************************************************)
Insert(k, v) ==
  LET key == Key(k)
      node == [profile |-> key, value |-> v]
      s == S!insert(table, key, v)
      m == M!insert(table, key, v)
      p == P!insert_imp(table, key)
      f == F!GetOrInsertNode(table, node)
  IN /\ Items < MaxLive \/ k \in DOMAIN contents
     /\ v = 1 \/ (k = 1 /\ which # "pointers")
     /\ \/ /\ which = "strings" /\ table.NumBuckets <= 2 * MaxBuckets
           /\ table' = s.map /\ present' = ~s.inserted
        \/ /\ which = "dense" /\ table.NumBuckets <= MaxBuckets
           /\ table' = m.map /\ present' = ~m.inserted
        \/ /\ which = "pointers" /\ table.CurArraySize <= 4 * MaxBuckets
           /\ table' = p.set /\ present' = ~p.inserted
        \/ /\ which = "folding" /\ table.NumBuckets <= MaxBuckets
           /\ table' = f.set /\ present' = F!FindNodeOrInsertPos(table, key).found
     /\ contents' = Contents(table') /\ UNCHANGED which

Erase(k) ==
  LET key == Key(k)
      s == S!RemoveKey(table, key)
      m == M!erase(table, key)
      p == P!erase_imp(table, key)
      at == F!FindNodeOrInsertPos(table, key)
      f == F!RemoveNode(table, at.node)
  IN /\ \/ which = "strings" /\ table' = s.map /\ present' = s.found
        \/ which = "dense" /\ table' = m.map /\ present' = m.found
        \/ which = "pointers" /\ table' = p.set /\ present' = p.found
        \/ which = "folding" /\ at.found /\ table' = f.set /\ present' = f.removed
     /\ contents' = Contents(table') /\ UNCHANGED which

\* The nodes of a folding set are its client's, who may not enter them again
\* with the links that clear leaves in them, and frees them.
Clear ==
  /\ \/ which = "strings" /\ table' = S!clear(table)
     \/ which = "dense" /\ table' = M!clear(table)
     \/ which = "pointers" /\ table' = P!clear(table)
     \/ which = "folding" /\ table' = [F!clear(table) EXCEPT !.Next = <<>>]
  /\ contents' = Contents(table') /\ UNCHANGED <<which, present>>

(***************************************************************************)
(* Header maps: somebody writes entries into a table, at the first free    *)
(* bucket of the linear probe.  `entries' is what was meant.               *)
(***************************************************************************)
Names == {<<97>>, <<98>>, <<65>>, <<101>>, <<97, 97>>}
PathOf(name) == <<47>> \o name
Offsets == <<<<47>>, <<97>>, <<101>>, <<105>>, <<66>>, <<65, 97>>>>

EmptyHeaderMap(buckets, inFile) ==
  [map |-> [NumBuckets |-> buckets,
            buckets |-> [b \in 0..(inFile - 1) |-> [Key |-> 0, Prefix |-> 0, Suffix |-> 0]],
            strings |-> Offsets],
   entries |-> {}]

\* The names that differ at most in the case of their letters.
SameName(s, t) ==
  Len(s) = Len(t) /\ \A i \in DOMAIN s : s[i] = t[i] \/ {s[i], t[i]} \in {{65, 97}, {66, 98}}

WriteEntry(key, prefix) ==
  LET map == table.map
      name == Offsets[key]
      Free(i) == map.buckets[(H!HashHMapKey(name) + i) % map.NumBuckets].Key = 0
      steps == {i \in DOMAIN map.buckets : Free(i)}
      i == CHOOSE x \in steps : \A y \in steps : x <= y
  IN /\ which = "headers"
     /\ map.strings = Offsets /\ steps # {}
     /\ ~\E e \in table.entries : SameName(e.name, name)
     /\ table' = [map |-> [map EXCEPT !.buckets[(H!HashHMapKey(name) + i) % map.NumBuckets] =
                             [Key |-> key, Prefix |-> prefix, Suffix |-> key]],
                  entries |-> table.entries \cup {[name |-> name, whole |-> prefix = 1]}]
     /\ UNCHANGED <<which, present, contents>>

\* The file loses a character of its last string, or its last bucket once no
\* string is left, as a file may be that is still being written.
CutOff(map) ==
  LET o == Cardinality(DOMAIN map.strings)
      b == Cardinality(DOMAIN map.buckets) - 1
  IN IF o = 0 THEN [map EXCEPT !.buckets = [i \in DOMAIN @ \ {b} |-> @[i]]]
     ELSE IF Len(map.strings[o]) = 1 THEN [map EXCEPT !.strings = Front(@)]
     ELSE [map EXCEPT !.strings[o] = Front(@)]

Truncate ==
  /\ which = "headers"
  /\ table' = [table EXCEPT !.map = CutOff(@)]
  /\ UNCHANGED <<which, present, contents>>

(***************************************************************************)
(* Memory: blocks from the bump allocator, with malloc giving one of the   *)
(* two lowest places that are free, and tokens in scratch buffers.         *)
(***************************************************************************)
Overlap(a, aSize, b, bSize) == a < b + bSize /\ b < a + aSize

FreePlaces(size) ==
  {at \in {4 * n : n \in 0..60} :
     \A i \in DOMAIN table.slabs : ~Overlap(at, size, table.slabs[i].at, table.slabs[i].Size)}

AllocateBlock(size, alignment) ==
  LET places == FreePlaces(52)
      at == CHOOSE x \in places : \A y \in places : x <= y
  IN /\ which = "slabs" /\ Cardinality(table.live) < MaxCalls
     /\ \E place \in {at, at + 4} \cap places : table' = B!Allocate(table, size, alignment, place)
     /\ UNCHANGED <<which, present, contents>>

ResetBlocks == which = "slabs" /\ table' = B!Reset(table) /\ UNCHANGED <<which, present, contents>>

GetToken(len) ==
  /\ which = "scratch" /\ Len(table.tokens) <= MaxCalls
  /\ table' = T!getToken(table, [i \in 1..len |-> 100 + 10 * Len(table.tokens) + i])
  /\ UNCHANGED <<which, present, contents>>

\* A table of eight buckets from which four other strings have been erased.
UsedStringMap ==
  LET Use(map, c) == S!RemoveKey(S!insert(map, <<c>>, 1).map, <<c>>).map
  IN FoldLeft(Use, S!StringMapImpl(Buckets), <<4, 5, 6, 7>>)

\* The same after four live strings, with which it was hashed again: they have
\* been erased, and five more.  Four of its tombstones are only counted.
RehashedStringMap ==
  LET erased == {1, 2, 3, 8} \cup 10..14
  IN [S!StringMapImpl(2 * Buckets) EXCEPT
        !.NumTombstones = 4 + Cardinality(erased),
        !.TheTable = [b \in DOMAIN @ |-> IF b \in erased THEN S!Tombstone ELSE S!Null]]

Init ==
  /\ present = FALSE /\ contents = <<>>
  /\ \/ which = "strings" /\ table \in {S!StringMapImpl(0), S!StringMapImpl(Buckets),
                                           UsedStringMap, RehashedStringMap}
     \/ which = "dense" /\ table = M!init(Buckets)
     \/ which = "pointers" /\ table \in {P!SmallPtrSetImpl(n) : n \in {1, 2, 4}}
     \/ which = "folding" /\ table = F!FoldingSetImpl(2)
     \/ which = "headers" /\ \E n \in {0, 2, 3, 4} : table = EmptyHeaderMap(n, n)
     \/ which = "slabs" /\ \E at \in {0, 4} : table = B!Created(at)
     \/ which = "scratch" /\ table = T!Created

Next ==
  \/ \E k \in Keys : Erase(k) \/ \E v \in Values : Insert(k, v)
  \/ Clear
  \/ \E key \in 2..6, prefix \in {1, 9} : WriteEntry(key, prefix)
  \/ Truncate
  \/ \E size \in {1, 6, 28, 40}, alignment \in {0, 4, 8} : AllocateBlock(size, alignment)
  \/ ResetBlocks
  \/ \E len \in {0, 1, 2, 5, 6, 9} : GetToken(len)

Spec == Init /\ [][Next]_vars

\* Every call on one of the four tables changes the dictionary that lookups
\* see as it promises, and no other key with it: across growing, tombstones
\* that are reused, shrinking, and a small set that becomes a table.
IsADictionary == D!DictionarySpec

\* The loops of the probes end, for a key that is there and for one that is
\* not; and the count and the iterators of a table, which look at the buckets
\* and not along the probes, find exactly the keys that a lookup finds.
TablesAreSound ==
  which \in {"strings", "dense", "pointers", "folding"} =>
    LET walk == Walk
    IN /\ \A k \in Keys : ProbeEnds(table, k)
       /\ {walk[i] : i \in DOMAIN walk} = {Key(k) : k \in DOMAIN contents}
       /\ Len(walk) = Items /\ Items = Cardinality(DOMAIN contents)

\* In a map whose strings are all there, a lookup finds what was written for
\* the name, in any case, next to damaged entries and after any other that
\* hashes alike; of a name nobody wrote it says so, unless no bucket is free;
\* and it trusts no map whose number of buckets is not a power of two.  In any
\* map, cut off or not, the probe ends if some bucket reads as empty.  Nothing
\* is claimed of an entry that is itself damaged.
HeaderMapsAreRight ==
  which = "headers" =>
    \A name \in Names :
      LET map == table.map
          answer == H!LookupFile(map, name)
          meant == {e \in table.entries : SameName(e.name, name)}
          free == \E b \in 0..(map.NumBuckets - 1) :
                    b \notin DOMAIN map.buckets \/ map.buckets[b].Key = 0
      IN /\ map.strings = Offsets =>
              CASE map.NumBuckets = 3 -> answer.result = "miss"
                [] map.NumBuckets # 3 /\ meant = {} /\ (free \/ map.NumBuckets = 0) ->
                     answer.result = "miss"
                [] map.NumBuckets # 3 /\ \E e \in meant : e.whole ->
                     \E e \in meant : answer = [result |-> "file", path |-> PathOf(e.name)]
                [] OTHER -> TRUE
         /\ free => answer.result # "never"

\* Blocks are aligned, lie inside slabs that are still there, and never
\* overlap; the text of every token made stays where its location says,
\* after a newline and before a nul, and nothing is written past a buffer.
MemoryIsRight ==
  /\ which = "slabs" =>
       \A x \in table.live :
         /\ x.ptr % x.alignment = 0
         /\ \E i \in DOMAIN table.slabs :
              B!First(table.slabs[i]) <= x.ptr /\ x.ptr + x.size <= B!SlabEnd(table.slabs[i])
         /\ \A y \in table.live \ {x} : ~Overlap(x.ptr, x.size, y.ptr, y.size)
  /\ which = "scratch" =>
       /\ \A b \in DOMAIN table.buffers :
            Len(table.buffers[b].bytes) = table.buffers[b].size + 1
       /\ \A i \in DOMAIN table.tokens :
            LET token == table.tokens[i]
                bytes == table.buffers[token.buffer].bytes
                first == token.offset + 1
            IN /\ SubSeq(bytes, first, first + Len(token.text)) = token.text \o <<0>>
               /\ bytes[first - 1] = 10
               /\ token.offset <= table.buffers[token.buffer].size
=============================================================================
