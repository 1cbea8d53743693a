----------------------------- MODULE FileCache -----------------------------
(***************************************************************************)
(* FileManager: what it remembers of the directories and files it was      *)
(* asked about.  A path is a sequence of components, and the disk maps the *)
(* paths that exist to inodes ("/a" is <<"", "a">>); two paths of one      *)
(* inode are one entry, which keeps the name it was first reached by.  A   *)
(* FileManager is a record, its methods are operators that return the      *)
(* record after the call; the answer of a call is then in the map by name. *)
(***************************************************************************)
EXTENDS Integers, Sequences, SequencesExt

CONSTANTS Disk,       \* the inode of every path that exists
          DirInodes   \* the inodes that are directories

(* The part of a path before the last "/"; a bare name is in ".".          *)
DirOf(p) == IF Len(p) = 1 THEN <<".">> ELSE Front(p)

ASSUME DiskAssumption ==
  /\ \A p \in DOMAIN Disk : p \in Seq(STRING) \ {<<>>} /\ Disk[p] \in Nat \ {0}
  /\ \A p \in DOMAIN Disk : DirOf(p) # <<"">> =>
       DirOf(p) \in DOMAIN Disk /\ Disk[DirOf(p)] \in DirInodes
  /\ \A p, q \in DOMAIN Disk :    \* two names of a directory have one content
       Disk[p] = Disk[q] /\ Disk[p] \in DirInodes =>
         \A r \in DOMAIN Disk :
           Len(r) > Len(p) /\ SubSeq(r, 1, Len(p)) = p =>
             LET s == q \o SubSeq(r, Len(p) + 1, Len(r))
             IN s \in DOMAIN Disk /\ Disk[s] = Disk[r]

(* NON_EXISTENT_DIR and NON_EXISTENT_FILE. *)
None == 0

IsDirectory(p) == p \in DOMAIN Disk /\ Disk[p] \in DirInodes
IsFile(p)      == p \in DOMAIN Disk /\ Disk[p] \notin DirInodes

Inodes == {Disk[p] : p \in DOMAIN Disk}

(* DirEntries and FileEntries, by name; UniqueDirs and UniqueFiles, by     *)
(* inode.                                                                  *)
NewFileManager ==
  [dirs |-> <<>>, files |-> <<>>, dirNames |-> <<>>, entries |-> <<>>]

(* f with k mapped to v, unless k is mapped already. *)
Entered(f, k, v) ==
  IF k \in DOMAIN f THEN f
  ELSE [x \in DOMAIN f \cup {k} |-> IF x = k THEN v ELSE f[x]]

GetDirectory(fm, p) ==
  IF p \in DOMAIN fm.dirs THEN fm
  ELSE IF IsDirectory(p)
  THEN [fm EXCEPT !.dirs = Entered(@, p, Disk[p]),
                  !.dirNames = Entered(@, Disk[p], p)]
  ELSE [fm EXCEPT !.dirs = Entered(@, p, None)]

(* A mutated form: a file is a new one for every name it is reached by. *)
GetFile_ByName(fm, p) ==
  IF p \in DOMAIN fm.files THEN fm
  ELSE LET m == GetDirectory(fm, DirOf(p))
           dir == m.dirs[DirOf(p)]
       IN IF dir # None /\ IsFile(p)
          THEN [m EXCEPT !.files = Entered(@, p, Disk[p]),
                         !.entries =
                            [i \in DOMAIN @ \cup {Disk[p]} |->
                               IF i = Disk[p] THEN [name |-> <<Last(p)>>, dir |-> dir]
                               ELSE @[i]]]
          ELSE [m EXCEPT !.files = Entered(@, p, None)]

(* A file lies in the directory its name says, which must exist. *)
GetFile(fm, p) ==
  IF p \in DOMAIN fm.files THEN fm
  ELSE LET m == GetDirectory(fm, DirOf(p))
           dir == m.dirs[DirOf(p)]
       IN IF dir # None /\ IsFile(p)
          THEN [m EXCEPT !.files = Entered(@, p, Disk[p]),
                         !.entries = Entered(@, Disk[p], [name |-> p, dir |-> dir])]
          ELSE [m EXCEPT !.files = Entered(@, p, None)]

(* The path of a file named name in a directory: its name, "/", name. *)
PathIn(fm, dir, name) == fm.dirNames[dir] \o name

-----------------------------------------------------------------------------
(* The directory of "/a" is asked for as "", which is no directory: a file *)
(* of the root directory is never found.                                   *)
CanBeFound(p) == IsFile(p) /\ IsDirectory(DirOf(p))

(* What is remembered is what is on the disk: names of existing things     *)
(* lead to their inodes, others to nothing, and an entry has a name and a  *)
(* directory of its inode.                                                 *)
AgreesWithDisk(fm) ==
  /\ \A p \in DOMAIN fm.dirs : fm.dirs[p] = IF IsDirectory(p) THEN Disk[p] ELSE None
  /\ \A p \in DOMAIN fm.files : fm.files[p] = IF CanBeFound(p) THEN Disk[p] ELSE None
  /\ \A i \in DOMAIN fm.dirNames : IsDirectory(fm.dirNames[i])
                                   /\ Disk[fm.dirNames[i]] = i
  /\ \A i \in DOMAIN fm.entries :
       LET e == fm.entries[i]
       IN /\ IsFile(e.name) /\ Disk[e.name] = i
          /\ e.dir = Disk[DirOf(e.name)]
          /\ e.dir \in DOMAIN fm.dirNames
=============================================================================
