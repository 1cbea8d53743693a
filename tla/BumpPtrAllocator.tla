-------------------------- MODULE BumpPtrAllocator --------------------------
(***************************************************************************)
(* llvm/Allocator: memory is handed out by moving a pointer through slabs, *)
(* and given back all at once.  Identifiers, string map entries and macro  *)
(* definitions live in it, and are pointed at from everywhere.             *)
(*                                                                         *)
(* Addresses are integers; malloc puts a slab anywhere above the last one. *)
(* HeaderSize is sizeof(MemSlab).  `slabs' is the list that starts at      *)
(* CurSlab; `live' is the ghost set of what was handed out since Reset.    *)
(* The count of bytes for PrintStats is left out.                          *)
(***************************************************************************)
EXTENDS Integers, Sequences

CONSTANTS SlabSize, SizeThreshold, HeaderSize

SlabEnd(slab) == slab.at + slab.Size
First(slab) == slab.at + HeaderSize                           \* (char*)(Slab+1)

\* The next multiple of a power of two.
AlignPtr(ptr, alignment) == ((ptr + alignment - 1) \div alignment) * alignment

\* Allocator.Allocate(size), which malloc answers with the address `at'.
MakeSlab(at, size) == [at |-> at, Size |-> size]

StartNewSlab(state, at) ==
  LET slab == MakeSlab(at, SlabSize)
  IN [state EXCEPT !.slabs = <<slab>> \o @, !.CurPtr = First(slab), !.End = SlabEnd(slab)]

Created(at) ==
  StartNewSlab([slabs |-> <<>>, CurPtr |-> 0, End |-> 0, live |-> {}], at)

\* Mutant: no room is left to align the object.
PaddedSize_Unaligned(size, alignment) == size + HeaderSize

\* Where and how much room the separate slab of a big object takes.
PaddedSize(size, alignment) == size + HeaderSize + alignment - 1

Hand(state, ptr, size, alignment) ==
  [state EXCEPT !.live = @ \cup {[ptr |-> ptr, size |-> size, alignment |-> alignment]}]

\* In the current slab if it fits; else in a slab of its own, put second in
\* the list, if it is big; else at the start of a new slab.
Allocate(state, size, alignment0, at) ==
  LET alignment == IF alignment0 = 0 THEN 1 ELSE alignment0
      here == AlignPtr(state.CurPtr, alignment)
      own == MakeSlab(at, PaddedSize(size, alignment))
      fresh == StartNewSlab(state, at)
      there == AlignPtr(fresh.CurPtr, alignment)
  IN IF here + size <= state.End
     THEN Hand([state EXCEPT !.CurPtr = here + size], here, size, alignment)
     ELSE IF own.Size > SizeThreshold
     THEN Hand([state EXCEPT !.slabs = <<Head(@), own>> \o Tail(@)],
               AlignPtr(First(own), alignment), size, alignment)
     ELSE Hand([fresh EXCEPT !.CurPtr = there + size], there, size, alignment)

\* Everything but the current slab goes.
Reset(state) ==
  LET slab == Head(state.slabs)
  IN [state EXCEPT !.slabs = <<slab>>, !.CurPtr = First(slab), !.End = SlabEnd(slab), !.live = {}]
=============================================================================
