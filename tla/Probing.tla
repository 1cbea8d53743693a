------------------------------- MODULE Probing -------------------------------
(***************************************************************************)
(* Quadratic probing, as StringMap, DenseMap and SmallPtrSet all write it: *)
(* the probe starts at the hash value and the step grows by one each time, *)
(* modulo a number of buckets that is a power of two.                      *)
(***************************************************************************)
EXTENDS Integers

\* The bucket looked at after i steps.
Slot(hash, i, size) == (hash + (i * (i + 1)) \div 2) % size

\* The loops have no other exit than a bucket that stops them.  The first
\* `size' steps visit every bucket once, because the size is a power of two.
Ends(Stop(_), hash, size) == \E i \in 0..(size - 1) : Stop(Slot(hash, i, size))

FirstStep(Stop(_), hash, size) ==
  CHOOSE i \in 0..(size - 1) :
    Stop(Slot(hash, i, size)) /\ \A j \in 0..(i - 1) : ~Stop(Slot(hash, j, size))

\* The first bucket on the way to the stop that may be taken over, or the stop.
Vacancy(Free(_), hash, steps, size) ==
  Slot(hash, FirstStep(LAMBDA b : Free(b) \/ b = Slot(hash, steps, size), hash, size), size)
=============================================================================
