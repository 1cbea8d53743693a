----------------------------- MODULE FoldingSet -----------------------------
(***************************************************************************)
(* llvm/FoldingSet: a set of nodes that are found by their profile, each   *)
(* at most once.  Each bucket is a circular list: the last node points     *)
(* back at the bucket, so that a node is removed without its hash.         *)
(*                                                                         *)
(* A node is a record; its `profile' is what GetNodeProfile collects.      *)
(* Next holds NextInBucket of the nodes; where it is null, the node is     *)
(* outside its domain.  Pointers carry their kind,                         *)
(* as the low bit does.  ComputeHash is the 32-bit hash of a profile, of   *)
(* which only the value matters.                                           *)
(***************************************************************************)
EXTENDS Integers, Sequences, SequencesExt

CONSTANTS ComputeHash(_)

Null == [to |-> "null"]
ToNode(N) == [to |-> "node", node |-> N]
ToBucket(b) == [to |-> "bucket", bucket |-> b]                  \* low bit set
IsNode(pointer) == pointer.to = "node"                \* GetNextPtr is not null

FoldingSetImpl(count) ==
  [NumBuckets |-> count, Buckets |-> [b \in 0..(count - 1) |-> Null], NumNodes |-> 0, Next |-> <<>>]

\* The nodes keep their links, as if they were still in the set.
clear(set) == [set EXCEPT !.Buckets = [b \in DOMAIN @ |-> Null], !.NumNodes = 0]

\* The bucket of a profile; the number of buckets is a power of two.
GetBucketFor(set, profile) == ComputeHash(profile) % set.NumBuckets

\* The nodes of a bucket, in the order of its list.
RECURSIVE Chain(_, _)
Chain(set, pointer) ==
  IF IsNode(pointer) THEN <<pointer.node>> \o Chain(set, set.Next[pointer.node]) ELSE <<>>
List(set, b) == Chain(set, set.Buckets[b])

\* At the head of the list; a null bucket is taken to point at itself.
Push(set, N, b) ==
  [set EXCEPT !.NumNodes = @ + 1,
              !.Next = [n \in DOMAIN @ \cup {N} |->
                          IF n = N THEN IF set.Buckets[b] = Null THEN ToBucket(b) ELSE set.Buckets[b]
                          ELSE @[n]],
              !.Buckets[b] = ToNode(N)]

\* Every node leaves its old list, from the front, and enters its new bucket.
GrowHashTable(set) ==
  LET nodes == FlattenSeq([i \in 1..set.NumBuckets |-> List(set, i - 1)])
      Reinsert(new, N) == Push(new, N, GetBucketFor(new, N.profile))
  IN FoldLeft(Reinsert, FoldingSetImpl(2 * set.NumBuckets), nodes)

\* The node with the profile, or the bucket it would go to.
FindNodeOrInsertPos(set, profile) ==
  LET bucket == GetBucketFor(set, profile)
      equal == SelectSeq(List(set, bucket), LAMBDA n : n.profile = profile)
  IN IF equal # <<>> THEN [found |-> TRUE, node |-> Head(equal)]
     ELSE [found |-> FALSE, InsertPos |-> bucket]

\* The insert position is forgotten when the table grows.
InsertNode(set, N, InsertPos) ==
  IF set.NumNodes + 1 > set.NumBuckets * 2
  THEN LET grown == GrowHashTable(set) IN Push(grown, N, GetBucketFor(grown, N.profile))
  ELSE Push(set, N, InsertPos)

\* The node or the bucket that points at N, chased around the circle from N.
RECURSIVE Chase(_, _, _)
Chase(set, N, pointer) ==
  LET next == IF IsNode(pointer) THEN set.Next[pointer.node] ELSE set.Buckets[pointer.bucket]
  IN IF next = ToNode(N) THEN pointer ELSE Chase(set, N, next)

RemoveNode(set, N) ==
  IF N \notin DOMAIN set.Next THEN [set |-> set, removed |-> FALSE]
  ELSE LET next == set.Next[N]
           before == Chase(set, N, next)
           unlinked == [n \in DOMAIN set.Next \ {N} |->
                          IF before = ToNode(n) THEN next ELSE set.Next[n]]
       IN [set |-> [set EXCEPT !.NumNodes = @ - 1, !.Next = unlinked,
                               !.Buckets = IF IsNode(before) THEN @
                                           ELSE [@ EXCEPT ![before.bucket] = next]],
           removed |-> TRUE]

GetOrInsertNode(set, N) ==
  LET at == FindNodeOrInsertPos(set, N.profile)
  IN IF at.found THEN [set |-> set, node |-> at.node]
     ELSE [set |-> InsertNode(set, N, at.InsertPos), node |-> N]

\* What the iterator visits: the lists of the buckets, in order.
Nodes(set) == FlattenSeq([i \in 1..set.NumBuckets |-> List(set, i - 1)])
=============================================================================
