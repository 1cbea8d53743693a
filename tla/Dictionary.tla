----------------------------- MODULE Dictionary -----------------------------
(***************************************************************************)
(* What every hash table of the support library promises its users: a      *)
(* partial function from keys to values, changed by one call at a time.    *)
(* `present' is what the last call said of its key: whether it was there.  *)
(* An insertion does not overwrite, as StringMap.h:309 ("If the key        *)
(* already exists in the map, return false and ignore the request") has    *)
(* it.                                                                     *)
(***************************************************************************)
EXTENDS TLC

CONSTANTS Keys, Values

VARIABLES dict, present

DictionaryInit == dict = <<>> /\ present = FALSE

Insert(k, v) ==
  /\ present' = (k \in DOMAIN dict)
  /\ dict' = dict @@ (k :> v)                       \* the old value wins

Erase(k) ==
  /\ present' = (k \in DOMAIN dict)
  /\ dict' = [x \in DOMAIN dict \ {k} |-> dict[x]]

Clear == dict' = <<>> /\ UNCHANGED present

DictionaryNext ==
  \/ Clear
  \/ \E k \in Keys : Erase(k) \/ \E v \in Values : Insert(k, v)

DictionarySpec == DictionaryInit /\ [][DictionaryNext]_<<dict, present>>
=============================================================================
