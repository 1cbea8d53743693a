-------------------------- MODULE SourceLocations --------------------------
(***************************************************************************)
(* The location table of SourceManager.  Every file entered and every      *)
(* token that a macro expansion produces takes an extent of one offset     *)
(* space; a SourceLocation is an offset and a bit that says whether it     *)
(* lies in a file or in an instantiation.  getFileID finds the extent of   *)
(* an offset: it tries the entry of the last lookup, then scans a few      *)
(* entries backwards, then searches by halving.  The module has one step   *)
(* per probe.                                                              *)
(*                                                                         *)
(* FileID n of the code is entry n + 1 of table.                           *)
(***************************************************************************)
EXTENDS Integers, Sequences

CONSTANTS Sizes,         \* the sizes of files and the lengths of tokens
          OffsetLimit,   \* the end of the offset space: 31 bits in a SourceLocation
          LinearProbes   \* entries scanned before halving: 8 in the code

ASSUME SizesAssumption == Sizes \subseteq Nat
ASSUME LimitAssumption == OffsetLimit \in Nat
ASSUME ProbesAssumption == LinearProbes \in Nat \ {0}

VARIABLES table,              \* SLocEntryTable
          nextOffset,         \* NextOffset
          lastFileIDLookup,   \* LastFileIDLookup
          pc,                 \* where getFileID is, "idle" outside of it
          query,              \* SLocOffset, the offset it was asked about
          i,                  \* I, the iterator of the linear scan
          probes,             \* NumProbes
          less, greater,      \* LessIndex and GreaterIndex
          found               \* the FileID it answered last

tableVars == <<table, nextOffset>>
searchVars == <<query, i, probes, less, greater>>
vars == <<table, nextOffset, lastFileIDLookup, pc, query, i, probes, less, greater, found>>

(* An SLocEntry: where it starts, and whether it is an instantiation.  What *)
(* else it holds, no lookup reads.                                         *)
Entry == [offset : Nat, inst : BOOLEAN]

(* clearIDTables: FileID 0 is used up as an invalid instantiation, of      *)
(* length 1.                                                               *)
Init == /\ table = <<[offset |-> 0, inst |-> TRUE]>>
        /\ nextOffset = 2
        /\ lastFileIDLookup = 1
        /\ pc = "idle"
        /\ query = 0
        /\ i = 1
        /\ probes = 0
        /\ less = 1
        /\ greater = 1
        /\ found = 1

(* isOffsetInFileID: whether entry f contains offset o. *)
IsOffsetInFileID(f, o) ==
  /\ table[f].offset <= o
  /\ f # Len(table) => o < table[f + 1].offset

(***************************************************************************)
(* Creating entries.                                                       *)
(***************************************************************************)
AppendEntry(isInst, size) ==
  /\ pc = "idle"
  /\ nextOffset + size + 1 <= OffsetLimit    \* "Ran out of source locations!"
  /\ table' = Append(table, [offset |-> nextOffset, inst |-> isInst])
  /\ nextOffset' = nextOffset + size + 1

(* The next query is almost guaranteed to be about the new file. *)
CreateFileID(size) ==
  /\ AppendEntry(FALSE, size)
  /\ lastFileIDLookup' = Len(table) + 1
  /\ UNCHANGED <<pc, searchVars, found>>

CreateInstantiationLoc(length) ==
  /\ AppendEntry(TRUE, length)
  /\ UNCHANGED <<lastFileIDLookup, pc, searchVars, found>>

(***************************************************************************)
(* getFileID.                                                              *)
(***************************************************************************)
GetFileID(o) ==
  /\ pc = "idle"
  /\ pc' = "cache"
  /\ query' = o
  /\ UNCHANGED <<tableVars, lastFileIDLookup, i, probes, less, greater, found>>

(* The locals of the search end with it. *)
Answer(f) == /\ pc' = "idle"
             /\ found' = f
             /\ i' = 1
             /\ probes' = 0
             /\ less' = 1
             /\ greater' = 1
             /\ UNCHANGED query

HitCache ==
  /\ pc = "cache"
  /\ IsOffsetInFileID(lastFileIDLookup, query)
  /\ Answer(lastFileIDLookup)
  /\ UNCHANGED <<tableVars, lastFileIDLookup>>

(* mutant: the scan starts at the last entry instead of after it           *)
MissCache_FromLastEntry ==
  /\ pc = "cache"
  /\ ~ IsOffsetInFileID(lastFileIDLookup, query)
  /\ i' = IF table[lastFileIDLookup].offset < query THEN Len(table)
                                                    ELSE lastFileIDLookup
  /\ probes' = 0
  /\ pc' = "linear"
  /\ UNCHANGED <<tableVars, lastFileIDLookup, query, less, greater, found>>

(* getFileIDSlow: the entry i refers to starts after the offset, or i is   *)
(* the end of the table.                                                   *)
MissCache ==
  /\ pc = "cache"
  /\ ~ IsOffsetInFileID(lastFileIDLookup, query)
  /\ i' = IF table[lastFileIDLookup].offset < query THEN Len(table) + 1
                                                    ELSE lastFileIDLookup
  /\ probes' = 0
  /\ pc' = "linear"
  /\ UNCHANGED <<tableVars, lastFileIDLookup, query, less, greater, found>>

(* Only files are remembered. *)
Remember(f, entry) == lastFileIDLookup' = IF entry.inst THEN lastFileIDLookup ELSE f

LinearHit ==
  /\ pc = "linear"
  /\ table[i - 1].offset <= query
  /\ Remember(i - 1, table[i - 1])
  /\ Answer(i - 1)
  /\ UNCHANGED tableVars

LinearProbe ==
  /\ pc = "linear"
  /\ table[i - 1].offset > query
  /\ i' = i - 1
  /\ probes' = probes + 1
  /\ IF probes + 1 = LinearProbes
       THEN pc' = "binary" /\ less' = 1 /\ greater' = i - 1
       ELSE UNCHANGED <<pc, less, greater>>
  /\ UNCHANGED <<tableVars, lastFileIDLookup, query, found>>

MiddleIndex == (greater - less) \div 2 + less

(* mutant: an entry that starts at the offset is chopped off               *)
ChopHighSide_Includes ==
  /\ pc = "binary"
  /\ table[MiddleIndex].offset >= query
  /\ greater' = MiddleIndex
  /\ UNCHANGED <<tableVars, lastFileIDLookup, pc, query, i, probes, less, found>>

ChopHighSide ==
  /\ pc = "binary"
  /\ table[MiddleIndex].offset > query
  /\ greater' = MiddleIndex
  /\ UNCHANGED <<tableVars, lastFileIDLookup, pc, query, i, probes, less, found>>

(* The test for an instantiation looks at the entry the scan stopped at,   *)
(* not at the one that was found.                                          *)
BinaryHit ==
  /\ pc = "binary"
  /\ table[MiddleIndex].offset <= query
  /\ IsOffsetInFileID(MiddleIndex, query)
  /\ Remember(MiddleIndex, table[i])
  /\ Answer(MiddleIndex)
  /\ UNCHANGED tableVars

(* mutant: the low side is not moved up                                    *)
ChopLowSide_Stays ==
  /\ pc = "binary"
  /\ table[MiddleIndex].offset <= query
  /\ ~ IsOffsetInFileID(MiddleIndex, query)
  /\ UNCHANGED vars

ChopLowSide ==
  /\ pc = "binary"
  /\ table[MiddleIndex].offset <= query
  /\ ~ IsOffsetInFileID(MiddleIndex, query)
  /\ less' = MiddleIndex
  /\ UNCHANGED <<tableVars, lastFileIDLookup, pc, query, i, probes, greater, found>>

Search == HitCache \/ MissCache \/ LinearHit \/ LinearProbe
            \/ ChopHighSide \/ BinaryHit \/ ChopLowSide

(***************************************************************************)
(* The clients: a file or a buffer is entered, a token is instantiated, or *)
(* any offset in use is looked up.                                         *)
(***************************************************************************)
Client ==
  \/ \E size \in Sizes : CreateFileID(size)
  \/ \E length \in Sizes : CreateInstantiationLoc(length)
  \/ \E o \in 1 .. nextOffset - 1 : GetFileID(o)

Next == Client \/ Search

Spec == Init /\ [][Next]_vars

(* A lookup that was begun is carried on: it is one call. *)
FairSpec == Spec /\ WF_vars(Search)

(***************************************************************************)
(* Properties.                                                             *)
(***************************************************************************)
TypeOK ==
  /\ table \in Seq(Entry)
  /\ nextOffset \in Nat
  /\ lastFileIDLookup \in DOMAIN table
  /\ pc \in {"idle", "cache", "linear", "binary"}
  /\ query \in Nat
  /\ i \in 1 .. Len(table) + 1
  /\ probes \in Nat
  /\ less \in DOMAIN table
  /\ greater \in DOMAIN table
  /\ found \in DOMAIN table

(* getFileID: the entry a lookup answered with is the one that contains    *)
(* the offset, whichever entry the cache held when it began, and stays so  *)
(* while entries are added.                                                *)
AnswerContains == pc = "idle" => IsOffsetInFileID(found, query)

(* getFileIDSlow: the entry wanted lies between LessIndex and              *)
(* GreaterIndex at every step of the halving, and they never meet.         *)
Bracketed ==
  pc = "binary" => /\ less < greater
                   /\ table[less].offset <= query
                   /\ query < table[greater].offset

(* SourceManager implements the map from offsets to extents, and every     *)
(* lookup is answered: neither the cache nor the searches can be seen.     *)
Map == INSTANCE LocationMap WITH
         starts <- {table[f].offset : f \in DOMAIN table},
         next <- nextOffset,
         asked <- IF pc = "idle" THEN 0 ELSE query,
         answer <- table[found].offset

ImplementsMap == Map!Spec
=============================================================================
