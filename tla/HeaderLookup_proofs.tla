-------------------------- MODULE HeaderLookup_proofs --------------------------
(***************************************************************************)
(* Proofs about module HeaderLookup, for every disk, every command line    *)
(* and every name: what the file manager remembers is on the disk, the     *)
(* search list is the one of GCC, and the cache of earlier searches never  *)
(* changes what a search finds.                                            *)
(***************************************************************************)
EXTENDS HeaderLookup, SequenceLemmas

-----------------------------------------------------------------------------
(* The file manager.                                                       *)

(* What is remembered of one thing leads to what is remembered of another. *)
Connected(m) ==
  /\ \A p \in DOMAIN m.dirs : m.dirs[p] # None => m.dirs[p] \in DOMAIN m.dirNames
  /\ \A p \in DOMAIN m.files : m.files[p] # None => m.files[p] \in DOMAIN m.entries

IsManager(m) ==
  m = [dirs |-> m.dirs, files |-> m.files, dirNames |-> m.dirNames, entries |-> m.entries]

Sound(m) == IsManager(m) /\ AgreesWithDisk(m) /\ Connected(m)

(* Nothing is forgotten or renamed. *)
Grows(m, n) ==
  /\ \A i \in DOMAIN m.dirNames : i \in DOMAIN n.dirNames /\ n.dirNames[i] = m.dirNames[i]
  /\ \A i \in DOMAIN m.entries : i \in DOMAIN n.entries /\ n.entries[i] = m.entries[i]

LEMMA EnteredIs ==
  ASSUME NEW f, NEW k, NEW v
  PROVE  /\ DOMAIN Entered(f, k, v) = DOMAIN f \cup {k}
         /\ \A x \in DOMAIN f : Entered(f, k, v)[x] = f[x]
         /\ k \notin DOMAIN f => Entered(f, k, v)[k] = v
BY DEF Entered

LEMMA NewFileManagerSound == Sound(NewFileManager)
BY DEF Sound, IsManager, NewFileManager, AgreesWithDisk, Connected

LEMMA InodesArePositive ==
  ASSUME NEW p, IsDirectory(p) \/ IsFile(p)
  PROVE  Disk[p] \in Nat \ {0} /\ Disk[p] # None
BY DiskAssumption DEF IsDirectory, IsFile, None

LEMMA GetDirectorySound ==
  ASSUME NEW m, Sound(m), NEW p
  PROVE  LET n == GetDirectory(m, p)
         IN Sound(n) /\ Grows(m, n) /\ p \in DOMAIN n.dirs /\ n.files = m.files /\ n.entries = m.entries
<1> DEFINE n == GetDirectory(m, p)
<1>1. CASE p \in DOMAIN m.dirs
  BY <1>1 DEF GetDirectory, Grows
<1>2. CASE p \notin DOMAIN m.dirs /\ IsDirectory(p)
  <2> DEFINE dirs == Entered(m.dirs, p, Disk[p])
             names == Entered(m.dirNames, Disk[p], p)
  <2>1. n = [dirs |-> dirs, files |-> m.files, dirNames |-> names, entries |-> m.entries]
    BY <1>2 DEF GetDirectory, Sound, IsManager
  <2>2. /\ DOMAIN dirs = DOMAIN m.dirs \cup {p} /\ dirs[p] = Disk[p]
        /\ \A x \in DOMAIN m.dirs : dirs[x] = m.dirs[x]
    <3>1. /\ DOMAIN dirs = DOMAIN m.dirs \cup {p}
          /\ \A x \in DOMAIN m.dirs : dirs[x] = m.dirs[x]
          /\ p \notin DOMAIN m.dirs => dirs[p] = Disk[p]
      BY EnteredIs
    <3> HIDE DEF dirs
    <3> QED BY <1>2, <3>1
  <2>3. /\ DOMAIN names = DOMAIN m.dirNames \cup {Disk[p]}
        /\ \A x \in DOMAIN m.dirNames : names[x] = m.dirNames[x]
        /\ Disk[p] \notin DOMAIN m.dirNames => names[Disk[p]] = p
    BY EnteredIs
  <2>4. n.dirs = dirs /\ n.files = m.files /\ n.dirNames = names /\ n.entries = m.entries
    BY <2>1
  <2> HIDE DEF n, dirs, names
  <2>5. IsManager(n)
    BY <2>1, <2>4 DEF IsManager
  <2>6. AgreesWithDisk(n)
    BY <1>2, <2>2, <2>3, <2>4 DEF Sound, AgreesWithDisk
  <2>7. Connected(n)
    BY <2>2, <2>3, <2>4 DEF Sound, Connected
  <2>8. Grows(m, n)
    BY <2>3, <2>4 DEF Grows
  <2> QED BY <2>2, <2>4, <2>5, <2>6, <2>7, <2>8 DEF Sound, n
<1>3. CASE p \notin DOMAIN m.dirs /\ ~ IsDirectory(p)
  <2> DEFINE dirs == Entered(m.dirs, p, None)
  <2>1. n = [dirs |-> dirs, files |-> m.files, dirNames |-> m.dirNames, entries |-> m.entries]
    BY <1>3 DEF GetDirectory, Sound, IsManager
  <2>2. /\ DOMAIN dirs = DOMAIN m.dirs \cup {p} /\ dirs[p] = None
        /\ \A x \in DOMAIN m.dirs : dirs[x] = m.dirs[x]
    <3>1. /\ DOMAIN dirs = DOMAIN m.dirs \cup {p}
          /\ \A x \in DOMAIN m.dirs : dirs[x] = m.dirs[x]
          /\ p \notin DOMAIN m.dirs => dirs[p] = None
      BY EnteredIs
    <3> HIDE DEF dirs
    <3> QED BY <1>3, <3>1
  <2>4. n.dirs = dirs /\ n.files = m.files /\ n.dirNames = m.dirNames /\ n.entries = m.entries
    BY <2>1
  <2> HIDE DEF n, dirs
  <2>5. IsManager(n)
    BY <2>1, <2>4 DEF IsManager
  <2>6. AgreesWithDisk(n)
    BY <1>3, <2>2, <2>4 DEF Sound, AgreesWithDisk
  <2>7. Connected(n)
    BY <2>2, <2>4 DEF Sound, Connected
  <2>8. Grows(m, n)
    BY <2>4 DEF Grows
  <2> QED BY <2>2, <2>4, <2>5, <2>6, <2>7, <2>8 DEF Sound, n
<1> QED BY <1>1, <1>2, <1>3

LEMMA GrowsTransitive ==
  ASSUME NEW a, NEW b, NEW c, Grows(a, b), Grows(b, c)
  PROVE  Grows(a, c)
BY DEF Grows

LEMMA GetFileSound ==
  ASSUME NEW m, Sound(m), NEW p
  PROVE  LET n == GetFile(m, p)
         IN Sound(n) /\ Grows(m, n) /\ p \in DOMAIN n.files
<1> DEFINE n == GetFile(m, p)
           d == GetDirectory(m, DirOf(p))
           dir == d.dirs[DirOf(p)]
<1>0. Grows(m, m)
  BY DEF Grows
<1>1. CASE p \in DOMAIN m.files
  BY <1>0, <1>1 DEF GetFile
<1>2. /\ Sound(d) /\ Grows(m, d) /\ DirOf(p) \in DOMAIN d.dirs
      /\ d.files = m.files /\ d.entries = m.entries
  BY GetDirectorySound
<1>3. /\ dir = IF IsDirectory(DirOf(p)) THEN Disk[DirOf(p)] ELSE None
      /\ dir # None => dir \in DOMAIN d.dirNames
  BY <1>2 DEF Sound, AgreesWithDisk, Connected
<1>4. CASE p \notin DOMAIN m.files /\ dir # None /\ IsFile(p)
  <2> DEFINE files == Entered(d.files, p, Disk[p])
             entries == Entered(d.entries, Disk[p], [name |-> p, dir |-> dir])
  <2>1. n = [dirs |-> d.dirs, files |-> files, dirNames |-> d.dirNames, entries |-> entries]
    BY <1>2, <1>4 DEF GetFile, Sound, IsManager
  <2>2. /\ DOMAIN files = DOMAIN d.files \cup {p} /\ files[p] = Disk[p]
        /\ \A x \in DOMAIN d.files : files[x] = d.files[x]
    <3>1. /\ DOMAIN files = DOMAIN d.files \cup {p}
          /\ \A x \in DOMAIN d.files : files[x] = d.files[x]
          /\ p \notin DOMAIN d.files => files[p] = Disk[p]
      BY EnteredIs
    <3> HIDE DEF files
    <3> QED BY <1>2, <1>4, <3>1
  <2>3. /\ DOMAIN entries = DOMAIN d.entries \cup {Disk[p]}
        /\ \A x \in DOMAIN d.entries : entries[x] = d.entries[x]
        /\ Disk[p] \notin DOMAIN d.entries => entries[Disk[p]] = [name |-> p, dir |-> dir]
    BY EnteredIs
  <2>4. n.dirs = d.dirs /\ n.files = files /\ n.dirNames = d.dirNames /\ n.entries = entries
    BY <2>1
  <2>5. CanBeFound(p) /\ dir = Disk[DirOf(p)] /\ dir \in DOMAIN d.dirNames
    BY <1>3, <1>4 DEF CanBeFound
  <2> HIDE DEF n, d, dir, files, entries
  <2>6. IsManager(n)
    BY <2>1, <2>4 DEF IsManager
  <2>7. AgreesWithDisk(n)
    BY <1>2, <1>4, <2>2, <2>3, <2>4, <2>5 DEF Sound, AgreesWithDisk
  <2>8. Connected(n)
    BY <1>2, <2>2, <2>3, <2>4 DEF Sound, Connected
  <2>9. Grows(d, n)
    BY <2>3, <2>4 DEF Grows
  <2>10. Grows(m, n)
    BY <1>2, <2>9, GrowsTransitive
  <2> QED BY <2>2, <2>4, <2>6, <2>7, <2>8, <2>10 DEF Sound, n
<1>5. CASE p \notin DOMAIN m.files /\ ~ (dir # None /\ IsFile(p))
  <2> DEFINE files == Entered(d.files, p, None)
  <2>1. n = [dirs |-> d.dirs, files |-> files, dirNames |-> d.dirNames, entries |-> d.entries]
    BY <1>2, <1>5 DEF GetFile, Sound, IsManager
  <2>2. /\ DOMAIN files = DOMAIN d.files \cup {p} /\ files[p] = None
        /\ \A x \in DOMAIN d.files : files[x] = d.files[x]
    <3>1. /\ DOMAIN files = DOMAIN d.files \cup {p}
          /\ \A x \in DOMAIN d.files : files[x] = d.files[x]
          /\ p \notin DOMAIN d.files => files[p] = None
      BY EnteredIs
    <3> HIDE DEF files
    <3> QED BY <1>2, <1>5, <3>1
  <2>4. n.dirs = d.dirs /\ n.files = files /\ n.dirNames = d.dirNames /\ n.entries = d.entries
    BY <2>1
  <2>5. ~ CanBeFound(p)
    BY <1>3, <1>5, InodesArePositive DEF CanBeFound
  <2> HIDE DEF n, d, dir, files
  <2>6. IsManager(n)
    BY <2>1, <2>4 DEF IsManager
  <2>7. AgreesWithDisk(n)
    BY <1>2, <2>2, <2>4, <2>5 DEF Sound, AgreesWithDisk
  <2>8. Connected(n)
    BY <1>2, <2>2, <2>4 DEF Sound, Connected
  <2>9. Grows(d, n)
    BY <2>4 DEF Grows
  <2>10. Grows(m, n)
    BY <1>2, <2>9, GrowsTransitive
  <2> QED BY <2>2, <2>4, <2>6, <2>7, <2>8, <2>10 DEF Sound, n
<1> QED BY <1>1, <1>4, <1>5

-----------------------------------------------------------------------------
(* Where a search looks.                                                   *)

IsPath(p) == p \in Seq(STRING) /\ p # <<>>

LEMMA PathsOnDisk ==
  ASSUME NEW p \in DOMAIN Disk
  PROVE  IsPath(p)
BY DiskAssumption DEF IsPath

LEMMA Behind ==
  ASSUME NEW p, IsPath(p), NEW name, IsPath(name)
  PROVE  /\ IsPath(p \o name) /\ Len(p \o name) = Len(p) + Len(name)
         /\ Len(p) \in Nat \ {0} /\ Len(name) \in Nat \ {0}
         /\ SubSeq(p \o name, 1, Len(p)) = p
         /\ SubSeq(p \o name, Len(p) + 1, Len(p \o name)) = name
<1> DEFINE r == p \o name
<1>1. p \in Seq(STRING) /\ name \in Seq(STRING) /\ p # <<>> /\ name # <<>>
  BY DEF IsPath
<1>2. /\ r \in Seq(STRING) /\ Len(r) = Len(p) + Len(name)
      /\ Len(p) \in Nat \ {0} /\ Len(name) \in Nat \ {0}
      /\ \A i \in 1 .. Len(p) : r[i] = p[i]
      /\ \A i \in 1 .. Len(name) : r[Len(p) + i] = name[i]
  BY <1>1
<1> HIDE DEF r
<1>3. /\ 1 \in 1 .. Len(r) + 1 /\ Len(p) \in 1 - 1 .. Len(r)
      /\ Len(p) + 1 \in 1 .. Len(r) + 1 /\ Len(r) \in (Len(p) + 1) - 1 .. Len(r)
      /\ Len(r) - (Len(p) + 1) + 1 = Len(name) /\ Len(p) - 1 + 1 = Len(p)
  BY <1>2
<1>4. SubSeq(r, 1, Len(p)) = p
  <2>1. /\ SubSeq(r, 1, Len(p)) \in Seq(STRING) /\ Len(SubSeq(r, 1, Len(p))) = Len(p)
        /\ \A i \in 1 .. Len(p) : SubSeq(r, 1, Len(p))[i] = r[1 + i - 1]
    BY <1>2, <1>3, Window
  <2>2. \A i \in 1 .. Len(p) : SubSeq(r, 1, Len(p))[i] = p[i]
    BY <1>2, <2>1
  <2> QED BY <1>1, <2>1, <2>2, SeqEqual
<1>5. SubSeq(r, Len(p) + 1, Len(r)) = name
  <2> DEFINE s == SubSeq(r, Len(p) + 1, Len(r))
  <2>1. /\ s \in Seq(STRING) /\ Len(s) = Len(name)
        /\ \A i \in 1 .. Len(name) : s[i] = r[Len(p) + 1 + i - 1]
    BY <1>2, <1>3, Window
  <2> HIDE DEF s
  <2>2. \A i \in 1 .. Len(name) : s[i] = name[i]
    BY <1>2, <2>1
  <2>3. s = name
    BY <1>1, <2>1, <2>2, SeqEqual
  <2> QED BY <2>3 DEF s
<1>6. r # <<>>
  BY <1>2
<1> QED BY <1>2, <1>4, <1>5, <1>6 DEF IsPath, r

(* Two names of one directory have the same files behind them. *)
LEMMA SameContent ==
  ASSUME NEW p \in DOMAIN Disk, NEW q \in DOMAIN Disk, Disk[p] = Disk[q], Disk[p] \in DirInodes,
         NEW name, IsPath(name), p \o name \in DOMAIN Disk
  PROVE  q \o name \in DOMAIN Disk /\ Disk[q \o name] = Disk[p \o name]
<1>1. IsPath(p) /\ IsPath(q)
  BY PathsOnDisk
<1>2. /\ Len(p \o name) = Len(p) + Len(name)
      /\ Len(p) \in Nat \ {0} /\ Len(name) \in Nat \ {0}
      /\ SubSeq(p \o name, 1, Len(p)) = p
      /\ SubSeq(p \o name, Len(p) + 1, Len(p \o name)) = name
  BY <1>1, Behind
<1>3. ASSUME NEW r \in DOMAIN Disk, Len(r) > Len(p), SubSeq(r, 1, Len(p)) = p
      PROVE  /\ q \o SubSeq(r, Len(p) + 1, Len(r)) \in DOMAIN Disk
             /\ Disk[q \o SubSeq(r, Len(p) + 1, Len(r))] = Disk[r]
  <2>1. Disk[p] = Disk[q] /\ Disk[p] \in DirInodes =>
          \A s \in DOMAIN Disk :
            Len(s) > Len(p) /\ SubSeq(s, 1, Len(p)) = p =>
              LET t == q \o SubSeq(s, Len(p) + 1, Len(s))
              IN t \in DOMAIN Disk /\ Disk[t] = Disk[s]
    BY DiskAssumption, Zenon
  <2> QED BY <1>3, <2>1
<1>4. Len(p \o name) > Len(p)
  BY <1>2
<1> QED BY <1>2, <1>3, <1>4

LEMMA OneComponent ==
  ASSUME NEW p \in Seq(STRING), Len(p) = 1
  PROVE  p = <<p[1]>>
OBVIOUS

LEMMA OneIsOne ==
  ASSUME NEW p, NEW c, p = <<c>>
  PROVE  Len(p) = 1 /\ p[1] = c
OBVIOUS

(* A file in a directory that is on the disk can be found. *)
LEMMA FileInDirectory ==
  ASSUME NEW p, IsDirectory(p), NEW name, IsPath(name), IsFile(p \o name)
  PROVE  CanBeFound(p \o name)
<1> DEFINE r == p \o name
<1>1. IsPath(p)
  BY PathsOnDisk DEF IsDirectory
<1>2. /\ IsPath(r) /\ Len(r) = Len(p) + Len(name)
      /\ Len(p) \in Nat \ {0} /\ Len(name) \in Nat \ {0}
      /\ \A i \in 1 .. Len(p) : r[i] = p[i]
  BY <1>1, Behind DEF IsPath
<1>3. DirOf(r) = Front(r) /\ Len(Front(r)) = Len(r) - 1 /\ \A i \in 1 .. Len(r) - 1 : Front(r)[i] = r[i]
  <2>1. r \in Seq(STRING) /\ r # <<>>
    BY <1>2 DEF IsPath
  <2>2. Len(r) # 1
    BY <1>2
  <2> HIDE DEF r
  <2>3. DirOf(r) = Front(r)
    BY <2>2 DEF DirOf
  <2> QED BY <2>1, <2>3, FrontLast
<1> HIDE DEF r
<1>4. CASE DirOf(r) = <<"">>
  <2>1. Len(Front(r)) = 1 /\ Front(r)[1] = ""
    BY <1>3, <1>4, OneIsOne
  <2>2. PICK a \in Nat \ {0}, b \in Nat \ {0} : a = Len(p) /\ b = Len(name)
    BY <1>2
  <2>3. a + b - 1 = 1
    <3>1. Len(r) = a + b /\ Len(r) - 1 = 1
      BY <1>2, <1>3, <2>1, <2>2
    <3> QED BY <3>1
  <2>4. a = 1 /\ b = 1
    BY <2>3
  <2>5. 1 \in 1 .. Len(p) /\ 1 \in 1 .. Len(r) - 1
    BY <1>2, <2>2, <2>4
  <2>6. Front(r)[1] = r[1] /\ r[1] = p[1]
    BY <1>2, <1>3, <2>5
  <2>7. p = <<"">>
    BY <1>1, <2>1, <2>2, <2>4, <2>6, OneComponent DEF IsPath
  <2> QED BY <1>4, <2>7 DEF CanBeFound, r
<1>5. CASE DirOf(r) # <<"">>
  BY <1>5, DiskAssumption DEF IsFile, IsDirectory, CanBeFound, r
<1> QED BY <1>4, <1>5

(* Asking for a name in a directory, under the name the directory has, is  *)
(* what the reference asks under any of its names.                         *)
LEMMA PathInFinds ==
  ASSUME NEW m, Sound(m), NEW dir \in DOMAIN m.dirNames, NEW name, IsPath(name)
  PROVE  /\ CanBeFound(PathIn(m, dir, name)) = HasFile(dir, name)
         /\ HasFile(dir, name) => Disk[PathIn(m, dir, name)] = FileIn(dir, name)
<1> DEFINE a == m.dirNames[dir]
           b == NameOf(dir)
<1>1. IsDirectory(a) /\ Disk[a] = dir
  BY DEF Sound, AgreesWithDisk
<1>2. b \in DOMAIN Disk /\ Disk[b] = dir
  BY <1>1 DEF NameOf, IsDirectory
<1> HIDE DEF a, b
<1>3. a \in DOMAIN Disk /\ Disk[a] \in DirInodes
  BY <1>1 DEF IsDirectory
<1>4. CASE a \o name \in DOMAIN Disk
  <2>1. b \o name \in DOMAIN Disk /\ Disk[b \o name] = Disk[a \o name]
    BY <1>1, <1>2, <1>3, <1>4, SameContent
  <2>2. IsFile(a \o name) => CanBeFound(a \o name)
    BY <1>1, FileInDirectory
  <2> QED BY <1>4, <2>1, <2>2 DEF PathIn, HasFile, FileIn, CanBeFound, IsFile, a, b
<1>5. CASE a \o name \notin DOMAIN Disk
  <2>1. b \o name \notin DOMAIN Disk
    BY <1>1, <1>2, <1>3, <1>5, SameContent
  <2> QED BY <1>5, <2>1 DEF PathIn, HasFile, CanBeFound, IsFile, a, b
<1> QED BY <1>4, <1>5

(* What getFile answers. *)
LEMMA GetFileFinds ==
  ASSUME NEW m, Sound(m), NEW p
  PROVE  LET n == GetFile(m, p)
         IN /\ n.files[p] = IF CanBeFound(p) THEN Disk[p] ELSE None
            /\ n.files[p] # None => CanBeFound(p) /\ n.files[p] \in DOMAIN n.entries
<1>1. Sound(GetFile(m, p)) /\ p \in DOMAIN GetFile(m, p).files
  BY GetFileSound
<1> QED BY <1>1 DEF Sound, AgreesWithDisk, Connected

-----------------------------------------------------------------------------
(* Every step asks the file manager about some paths, or about none.       *)

Asked(m, n) == Sound(n) /\ Grows(m, n)

LEMMA AskedNothing ==
  ASSUME NEW m, Sound(m)
  PROVE  Asked(m, m)
BY DEF Asked, Grows

LEMMA AskedDirectory ==
  ASSUME NEW m, Sound(m), NEW p
  PROVE  Asked(m, GetDirectory(m, p))
BY GetDirectorySound DEF Asked

LEMMA AskedFile ==
  ASSUME NEW m, Sound(m), NEW p
  PROVE  Asked(m, GetFile(m, p))
BY GetFileSound DEF Asked

LEMMA AskedTwice ==
  ASSUME NEW a, NEW b, NEW c, Asked(a, b), Asked(b, c)
  PROVE  Asked(a, c)
BY GrowsTransitive DEF Asked

LEMMA AskedHeader ==
  ASSUME NEW m, Sound(m), NEW base, NEW name
  PROVE  Asked(m, GetHeader(m, base, name))
<1> DEFINE h == HeaderPaths(base, name)
           once == GetFile(m, h[1])
<1>1. Asked(m, once)
  BY AskedFile
<1>2. Asked(m, GetFile(once, h[2]))
  <2>1. Asked(once, GetFile(once, h[2]))
    BY <1>1, AskedFile DEF Asked
  <2> QED BY <1>1, <2>1, AskedTwice
<1> QED BY <1>1, <1>2 DEF GetHeader

LEMMA ManagerStep ==
  ASSUME Sound(fm), [Next]_vars
  PROVE  Asked(fm, fm')
<1>0. CASE fm' = fm
  BY <1>0, AskedNothing
<1>1. CASE AddPath
  <2> DEFINE p == Head(paths)
             m == GetDirectory(fm, p.path)
  <2>1. Asked(fm, m)
    BY AskedDirectory
  <2>2. Asked(fm, GetFile(m, p.path))
    BY <2>1, AskedFile, AskedTwice DEF Asked
  <2>3. fm' = m \/ fm' = GetFile(m, p.path)
    BY <1>1 DEF AddPath
  <2> QED BY <2>1, <2>2, <2>3
<1>2. CASE SetSearchPaths
  BY <1>2, AskedFile DEF SetSearchPaths
<1>3. CASE LookupAbsolute
  BY <1>0, <1>3, AskedFile DEF LookupAbsolute
<1>4. CASE LookupInIncluderDir
  BY <1>4, AskedFile DEF LookupInIncluderDir
<1>5. CASE LookupInDirectory
  BY <1>5, AskedFile DEF LookupInDirectory
<1>6. CASE LookupInFrameworks
  BY <1>0, <1>6, AskedHeader DEF LookupInFrameworks
<1>7. CASE LookupSubframework
  <2> DEFINE context == stack[request.at].file
             ends == FrameworkEnds(context)
             first == CHOOSE k \in ends : \A j \in ends : k <= j
             base == SubSeq(fm.entries[context].name, 1, first)
                       \o <<"Frameworks", Framework(request.name)>>
             d == GetDirectory(fm, base)
  <2>1. Asked(fm, d)
    BY AskedDirectory
  <2>4. Asked(fm, GetHeader(fm, base, request.name))
    BY AskedHeader
  <2>2. Asked(fm, GetHeader(d, base, request.name))
    BY <2>1, AskedHeader, AskedTwice, SMTT(30) DEF Asked
  <2>3. \/ fm' = d \/ fm' = GetHeader(d, base, request.name)
        \/ fm' = GetHeader(fm, base, request.name)
    BY <1>7 DEF LookupSubframework
  <2> QED BY <2>1, <2>2, <2>3, <2>4
<1>8. CASE \/ Realize \/ RemoveDuplicates \/ RealizeQuoted
           \/ \E name \in IncludeNames, angled \in BOOLEAN :
                \/ HandleIncludeDirective(name, angled)
                \/ HandleIncludeNextDirective(name, angled)
           \/ BeginSearch \/ SearchFails \/ NotAFramework \/ FileNotFound
           \/ EnterFile \/ SkipFile \/ HandleEndOfFile \/ UNCHANGED vars
  <2>1. fm' = fm
    BY <1>8
    DEF Realize, RemoveDuplicates, RealizeQuoted, HandleIncludeDirective, Begin,
        HandleIncludeNextDirective, BeginSearch, SearchFails, NotAFramework, FileNotFound,
        EnterFile, SkipFile, HandleEndOfFile, vars
  <2> QED BY <1>0, <2>1
<1> QED BY <1>1, <1>2, <1>3, <1>4, <1>5, <1>6, <1>7, <1>8 DEF Next

(* FileManager: what it remembers is what is on the disk, one entry for    *)
(* each file whatever its names.                                           *)
THEOREM FilesCorrect == Spec => []FilesAgree
<1>1. Init => Sound(fm)
  BY NewFileManagerSound DEF Init
<1>2. Sound(fm) /\ [Next]_vars => Sound(fm)'
  BY ManagerStep DEF Asked
<1>3. Sound(fm) => FilesAgree
  BY DEF Sound, FilesAgree
<1> QED BY <1>1, <1>2, <1>3, PTL DEF Spec

-----------------------------------------------------------------------------
(* Removing duplicates.                                                    *)

Entries(dirs) == [dir: dirs, kind: Kinds, framework: BOOLEAN]

LEMMA SameIsEquivalence ==
  /\ \A a : SameDirectory(a, a)
  /\ \A a, b : SameDirectory(a, b) => SameDirectory(b, a)
  /\ \A a, b, c : SameDirectory(a, b) /\ SameDirectory(b, c) => SameDirectory(a, c)
BY DEF SameDirectory

(* A request counts if it is the first system request for its directory,   *)
(* or if there is none and it is the first.                                *)
LEMMA CountsIs ==
  ASSUME NEW list, NEW n \in Nat, NEW i \in 1 .. n
  PROVE  Counts(list, n, i) <=>
           \A j \in 1 .. n : SameDirectory(list[j], list[i]) =>
             IF list[i].kind # User THEN list[j].kind # User => i <= j
             ELSE list[j].kind = User /\ i <= j
<1> DEFINE same == {j \in 1 .. n : SameDirectory(list[j], list[i])}
           sys  == {j \in same : list[j].kind # User}
<1>1. i \in same
  BY SameIsEquivalence
<1>2. Counts(list, n, i) <=> IF sys = {} THEN \A j \in same : i <= j
                             ELSE i \in sys /\ \A j \in sys : i <= j
  BY DEF Counts
<1>3. CASE list[i].kind # User
  <2>1. i \in sys
    BY <1>1, <1>3
  <2>2. sys # {}
    BY <2>1
  <2>3. Counts(list, n, i) <=> \A j \in sys : i <= j
    BY <1>2, <2>1, <2>2
  <2> QED BY <1>3, <2>3
<1>4. CASE list[i].kind = User
  <2>1. i \notin sys
    BY <1>4
  <2>2. Counts(list, n, i) <=> sys = {} /\ \A j \in same : i <= j
    BY <1>2, <2>1
  <2> QED BY <1>4, <2>2
<1> QED BY <1>3, <1>4

LEMMA OneCounts ==
  ASSUME NEW list, NEW n \in Nat, NEW i \in 1 .. n, NEW j \in 1 .. n,
         Counts(list, n, i), Counts(list, n, j), SameDirectory(list[i], list[j])
  PROVE  i = j
<1>1. SameDirectory(list[j], list[i])
  BY SameIsEquivalence
<1>2. IF list[i].kind # User THEN list[j].kind # User => i <= j ELSE list[j].kind = User /\ i <= j
  BY <1>1, CountsIs
<1>3. IF list[j].kind # User THEN list[i].kind # User => j <= i ELSE list[i].kind = User /\ j <= i
  BY CountsIs
<1> QED BY <1>2, <1>3

(* One more request: it may replace one that counted. *)
LEMMA CountsBefore ==
  ASSUME NEW list, NEW n \in Nat, NEW i \in 1 .. n
  PROVE  Counts(list, n + 1, i) <=>
           /\ Counts(list, n, i)
           /\ ~ (/\ SameDirectory(list[n + 1], list[i])
                 /\ list[n + 1].kind # User /\ list[i].kind = User)
<1>1. i \in 1 .. n + 1 /\ n + 1 \in Nat /\ n + 1 \in 1 .. n + 1 /\ i <= n + 1
  OBVIOUS
<1>2. \A j \in 1 .. n : j \in 1 .. n + 1
  OBVIOUS
<1>3. \A j \in 1 .. n + 1 : j \in 1 .. n \/ j = n + 1
  OBVIOUS
<1>4. Counts(list, n + 1, i) <=>
           \A j \in 1 .. n + 1 : SameDirectory(list[j], list[i]) =>
             IF list[i].kind # User THEN list[j].kind # User => i <= j
             ELSE list[j].kind = User /\ i <= j
  BY <1>1, CountsIs
<1>5. Counts(list, n, i) <=>
           \A j \in 1 .. n : SameDirectory(list[j], list[i]) =>
             IF list[i].kind # User THEN list[j].kind # User => i <= j
             ELSE list[j].kind = User /\ i <= j
  BY CountsIs
<1> QED BY <1>1, <1>2, <1>3, <1>4, <1>5

LEMMA CountsLast ==
  ASSUME NEW list, NEW n \in Nat
  PROVE  Counts(list, n + 1, n + 1) <=>
           \A i \in 1 .. n : SameDirectory(list[i], list[n + 1]) =>
             list[n + 1].kind # User /\ list[i].kind = User
<1>1. n + 1 \in Nat /\ n + 1 \in 1 .. n + 1
  OBVIOUS
<1>2. \A j \in 1 .. n : j \in 1 .. n + 1 /\ ~ (n + 1 <= j)
  OBVIOUS
<1>3. \A j \in 1 .. n + 1 : j \in 1 .. n \/ j = n + 1
  OBVIOUS
<1>4. Counts(list, n + 1, n + 1) <=>
           \A j \in 1 .. n + 1 : SameDirectory(list[j], list[n + 1]) =>
             IF list[n + 1].kind # User THEN list[j].kind # User => n + 1 <= j
             ELSE list[j].kind = User /\ n + 1 <= j
  BY <1>1, CountsIs
<1>5. n + 1 <= n + 1
  OBVIOUS
<1> QED BY <1>2, <1>3, <1>4, <1>5

(* The requests that count have one entry each, every directory has one,   *)
(* and no directory has two.                                               *)
Condensed(list, n, dirs) ==
  /\ AsGCC(list, n, dirs)
  /\ \A i \in 1 .. n : \E k \in DOMAIN dirs : SameDirectory(dirs[k], list[i])
  /\ \A k, l \in DOMAIN dirs : SameDirectory(dirs[k], dirs[l]) => k = l

LEMMA NothingCondensed ==
  ASSUME NEW list
  PROVE  Condensed(list, 0, <<>>)
<1>1. 1 .. 0 = {} /\ DOMAIN <<>> = {}
  OBVIOUS
<1> QED BY <1>1 DEF Condensed, AsGCC

(* The request is for a new directory. *)
LEMMA CondensedNew ==
  ASSUME NEW S, NEW list, NEW n \in Nat, list[n + 1] \in S, NEW dirs \in Seq(S),
         Condensed(list, n, dirs),
         \A k \in DOMAIN dirs : ~ SameDirectory(dirs[k], list[n + 1])
  PROVE  Condensed(list, n + 1, Append(dirs, list[n + 1]))
<1> DEFINE e == list[n + 1]
           more == Append(dirs, e)
           m == Len(dirs)
<1>1. /\ m \in Nat /\ DOMAIN dirs = 1 .. m /\ DOMAIN more = 1 .. m + 1
      /\ \A k \in 1 .. m : more[k] = dirs[k]
      /\ more[m + 1] = e
  OBVIOUS
<1>2. \A i \in 1 .. n : ~ SameDirectory(list[i], e)
  BY SameIsEquivalence DEF Condensed
<1>3. Counts(list, n + 1, n + 1)
  BY <1>2, CountsLast
<1>4. \A i \in 1 .. n : Counts(list, n + 1, i) <=> Counts(list, n, i)
  BY <1>2, CountsBefore, SameIsEquivalence
<1>5. \A i \in 1 .. n + 1 : i \in 1 .. n \/ i = n + 1
  OBVIOUS
<1>6. \A i \in 1 .. n : i \in 1 .. n + 1 /\ i < n + 1
  OBVIOUS
<1>7. n + 1 \in 1 .. n + 1
  OBVIOUS
<1>8. \A k \in 1 .. m + 1 : k \in 1 .. m \/ k = m + 1
  BY <1>1
<1>9. \A k \in 1 .. m : k \in 1 .. m + 1
  BY <1>1
<1>10. m + 1 \in 1 .. m + 1 /\ \A k \in 1 .. m + 1 : ~ (m + 1 < k)
  BY <1>1
<1>11. \A k \in 1 .. m : ~ SameDirectory(dirs[k], e) /\ dirs[k] # e
  BY <1>1, SameIsEquivalence
<1> HIDE DEF e, more, m
<1>12. AsGCC(list, n + 1, more)
  <2>1. ASSUME NEW k \in DOMAIN more
        PROVE  \E i \in 1 .. n + 1 : Counts(list, n + 1, i) /\ more[k] = list[i]
    <3>1. CASE k \in 1 .. m
      <4>1. PICK i \in 1 .. n : Counts(list, n, i) /\ dirs[k] = list[i]
        BY <1>1, <3>1 DEF Condensed, AsGCC
      <4> QED BY <1>1, <1>4, <1>6, <3>1, <4>1
    <3>2. CASE k = m + 1
      BY <1>1, <1>3, <1>7, <3>2 DEF e
    <3> QED BY <1>1, <1>8, <3>1, <3>2
  <2>2. ASSUME NEW i \in 1 .. n + 1, Counts(list, n + 1, i)
        PROVE  \E k \in DOMAIN more : more[k] = list[i]
    <3>1. CASE i \in 1 .. n
      <4>1. PICK k \in DOMAIN dirs : dirs[k] = list[i]
        BY <1>4, <2>2, <3>1 DEF Condensed, AsGCC
      <4> QED BY <1>1, <1>9, <4>1
    <3>2. CASE i = n + 1
      BY <1>1, <1>10, <3>2 DEF e
    <3> QED BY <1>5, <3>1, <3>2
  <2>3. ASSUME NEW k \in DOMAIN more, NEW l \in DOMAIN more, NEW i \in 1 .. n + 1, NEW j \in 1 .. n + 1,
               Counts(list, n + 1, i), more[k] = list[i],
               Counts(list, n + 1, j), more[l] = list[j], k < l
        PROVE  i < j
    <3>1. k \in 1 .. m
      BY <1>1, <1>8, <1>10, <2>3
    <3>2. i \in 1 .. n
      BY <1>1, <1>5, <1>11, <2>3, <3>1 DEF e
    <3>3. CASE j = n + 1
      BY <1>6, <3>2, <3>3
    <3>4. CASE j \in 1 .. n
      <4>1. more[l] # e
        BY <1>2, <2>3, <3>4, SameIsEquivalence
      <4>2. l \in 1 .. m
        BY <1>1, <1>8, <4>1
      <4> QED BY <1>1, <1>4, <2>3, <3>1, <3>2, <3>4, <4>2 DEF Condensed, AsGCC
    <3> QED BY <1>5, <3>3, <3>4
  <2> QED BY <2>1, <2>2, <2>3 DEF AsGCC
<1>13. ASSUME NEW i \in 1 .. n + 1
       PROVE  \E k \in DOMAIN more : SameDirectory(more[k], list[i])
  <2>1. CASE i \in 1 .. n
    <3>1. PICK k \in DOMAIN dirs : SameDirectory(dirs[k], list[i])
      BY <2>1 DEF Condensed
    <3> QED BY <1>1, <1>9, <3>1
  <2>2. CASE i = n + 1
    BY <1>1, <1>10, <2>2, SameIsEquivalence DEF e
  <2> QED BY <1>5, <2>1, <2>2
<1>14. ASSUME NEW k \in DOMAIN more, NEW l \in DOMAIN more, SameDirectory(more[k], more[l])
       PROVE  k = l
  <2>1. CASE k \in 1 .. m /\ l \in 1 .. m
    BY <1>1, <1>14, <2>1 DEF Condensed
  <2>2. CASE k = m + 1 /\ l \in 1 .. m
    BY <1>1, <1>11, <1>14, <2>2, SameIsEquivalence
  <2>3. CASE k \in 1 .. m /\ l = m + 1
    BY <1>1, <1>11, <1>14, <2>3
  <2> QED BY <1>1, <1>8, <2>1, <2>2, <2>3
<1>15. Condensed(list, n + 1, more)
  BY <1>12, <1>13, <1>14 DEF Condensed
<1> QED BY <1>15 DEF more, e

(* A duplicate that goes. *)
LEMMA CondensedSame ==
  ASSUME NEW list, NEW n \in Nat, NEW dirs, Condensed(list, n, dirs),
         NEW f \in DOMAIN dirs, SameDirectory(dirs[f], list[n + 1]),
         ~ (list[n + 1].kind # User /\ dirs[f].kind = User)
  PROVE  Condensed(list, n + 1, dirs)
<1>1. PICK c \in 1 .. n : Counts(list, n, c) /\ dirs[f] = list[c]
  BY DEF Condensed, AsGCC
<1>2. ~ Counts(list, n + 1, n + 1)
  BY <1>1, CountsLast
<1>3. ASSUME NEW i \in 1 .. n
      PROVE  Counts(list, n + 1, i) <=> Counts(list, n, i)
  <2>1. ASSUME Counts(list, n, i), SameDirectory(list[n + 1], list[i])
        PROVE  i = c
    <3>1. SameDirectory(list[i], list[c])
      BY <1>1, <2>1, SameIsEquivalence
    <3> QED BY <1>1, <2>1, <3>1, OneCounts
  <2> QED BY <1>1, <2>1, CountsBefore
<1>5. \A i \in 1 .. n + 1 : i \in 1 .. n \/ i = n + 1
  OBVIOUS
<1>6. \A i \in 1 .. n : i \in 1 .. n + 1
  OBVIOUS
<1>7. AsGCC(list, n + 1, dirs)
  <2>1. AsGCC(list, n, dirs)
    BY DEF Condensed
  <2>2. \A i \in 1 .. n + 1 : Counts(list, n + 1, i) <=> i \in 1 .. n /\ Counts(list, n, i)
    BY <1>2, <1>3, <1>5
  <2> QED BY <1>6, <2>1, <2>2 DEF AsGCC
<1>8. ASSUME NEW i \in 1 .. n + 1
      PROVE  \E k \in DOMAIN dirs : SameDirectory(dirs[k], list[i])
  BY <1>5 DEF Condensed
<1> QED BY <1>7, <1>8 DEF Condensed

LEMMA Removed ==
  ASSUME NEW S, NEW s \in Seq(S), NEW f \in 1 .. Len(s), NEW e \in S
  PROVE  LET m == Len(s)
             more == Append(RemoveAt(s, f), e)
         IN /\ m \in Nat \ {0} /\ more \in Seq(S) /\ Len(more) = m
            /\ \A k \in 1 .. m - 1 : more[k] = IF k < f THEN s[k] ELSE s[k + 1]
            /\ more[m] = e
<1>1. PICK m \in Nat \ {0} : m = Len(s)
  OBVIOUS
<1> DEFINE a == SubSeq(s, 1, f - 1)
           b == SubSeq(s, f + 1, m)
<1>2. /\ a \in Seq(S) /\ Len(a) = f - 1 /\ \A i \in 1 .. f - 1 : a[i] = s[i]
  <2>1. 1 \in 1 .. Len(s) + 1 /\ f - 1 \in 1 - 1 .. Len(s)
    BY <1>1
  <2>2. /\ a \in Seq(S) /\ Len(a) = f - 1 - 1 + 1
        /\ \A i \in 1 .. f - 1 - 1 + 1 : a[i] = s[1 + i - 1]
    BY <2>1, Window
  <2> HIDE DEF a
  <2> QED BY <1>1, <2>2
<1>3. /\ b \in Seq(S) /\ Len(b) = m - f /\ \A i \in 1 .. m - f : b[i] = s[f + i]
  <2>1. f + 1 \in 1 .. Len(s) + 1 /\ m \in (f + 1) - 1 .. Len(s)
    BY <1>1
  <2>2. /\ b \in Seq(S) /\ Len(b) = m - (f + 1) + 1
        /\ \A i \in 1 .. m - (f + 1) + 1 : b[i] = s[(f + 1) + i - 1]
    BY <2>1, Window
  <2> HIDE DEF b
  <2> QED BY <1>1, <2>2
<1>4. RemoveAt(s, f) = a \o b
  BY <1>1 DEF RemoveAt
<1> HIDE DEF a, b
<1> DEFINE less == a \o b
<1>5. /\ less \in Seq(S) /\ Len(less) = m - 1
      /\ \A k \in 1 .. m - 1 : less[k] = IF k < f THEN a[k] ELSE b[k - (f - 1)]
  <2>0. a \in Seq(S) /\ b \in Seq(S)
    BY <1>2, <1>3
  <2>1. less \in Seq(S) /\ Len(less) = Len(a) + Len(b)
    BY <2>0
  <2>2. \A k \in 1 .. Len(a) + Len(b) : less[k] = IF k <= Len(a) THEN a[k] ELSE b[k - Len(a)]
    BY <2>0, ConcatProperties
  <2> HIDE DEF less
  <2>3. f \in 1 .. m
    BY <1>1
  <2>4. Len(a) + Len(b) = m - 1
    BY <1>2, <1>3, <2>3
  <2>5. ASSUME NEW k \in 1 .. m - 1
        PROVE  less[k] = IF k < f THEN a[k] ELSE b[k - (f - 1)]
    <3>1. less[k] = IF k <= f - 1 THEN a[k] ELSE b[k - (f - 1)]
      BY <1>2, <2>2, <2>4
    <3>2. k <= f - 1 <=> k < f
      BY <2>3
    <3> QED BY <3>1, <3>2
  <2> QED BY <2>1, <2>4, <2>5
<1>6. \A k \in 1 .. m - 1 : less[k] = IF k < f THEN s[k] ELSE s[k + 1]
  <2> HIDE DEF less
  <2> TAKE k \in 1 .. m - 1
  <2>1. CASE k < f
    BY <1>1, <1>2, <1>5, <2>1
  <2>2. CASE ~ (k < f)
    <3>1. k - (f - 1) \in 1 .. m - f /\ f + (k - (f - 1)) = k + 1
      BY <1>1, <2>2
    <3> QED BY <1>3, <1>5, <2>2, <3>1
  <2> QED BY <2>1, <2>2
<1> DEFINE more == Append(less, e)
<1> HIDE DEF less
<1>7. /\ more \in Seq(S) /\ Len(more) = m /\ more[m] = e
      /\ \A k \in 1 .. m - 1 : more[k] = less[k]
  BY <1>1, <1>5
<1> HIDE DEF more
<1>8. \A k \in 1 .. m - 1 : more[k] = IF k < f THEN s[k] ELSE s[k + 1]
  BY <1>6, <1>7
<1> QED BY <1>1, <1>4, <1>7, <1>8 DEF more, less

(* A duplicate that takes the place of an entry: the one that goes. *)
LEMMA CondensedInstead ==
  ASSUME NEW S, NEW list, NEW n \in Nat, list[n + 1] \in S, NEW dirs \in Seq(S),
         Condensed(list, n, dirs),
         NEW f \in DOMAIN dirs, SameDirectory(dirs[f], list[n + 1]),
         list[n + 1].kind # User, dirs[f].kind = User
  PROVE  Condensed(list, n + 1, Append(RemoveAt(dirs, f), list[n + 1]))
<1> DEFINE e == list[n + 1]
           more == Append(RemoveAt(dirs, f), e)
<1>0. PICK m \in Nat \ {0} : m = Len(dirs)
  OBVIOUS
<1> DEFINE G(k) == IF k < f THEN k ELSE k + 1
<1>1. /\ DOMAIN dirs = 1 .. m /\ DOMAIN more = 1 .. m /\ more[m] = e
      /\ \A k \in 1 .. m - 1 : more[k] = dirs[G(k)]
  <2>1. DOMAIN dirs = 1 .. m /\ f \in 1 .. Len(dirs)
    BY <1>0
  <2>2. /\ more \in Seq(S) /\ Len(more) = m
        /\ \A k \in 1 .. m - 1 : more[k] = IF k < f THEN dirs[k] ELSE dirs[k + 1]
        /\ more[m] = e
    BY <1>0, <2>1, Removed
  <2> HIDE DEF more
  <2> QED BY <2>1, <2>2
<1>2. /\ f \in 1 .. m
      /\ \A k \in 1 .. m - 1 : G(k) \in 1 .. m /\ G(k) # f /\ k \in 1 .. m
      /\ \A k, l \in 1 .. m - 1 : k < l <=> G(k) < G(l)
      /\ \A k, l \in 1 .. m - 1 : G(k) = G(l) => k = l
      /\ \A k \in 1 .. m : k \in 1 .. m - 1 \/ k = m
      /\ m \in 1 .. m /\ \A k \in 1 .. m : ~ (m < k)
  BY <1>0, <1>1, SMTT(30)
<1>3. \A h \in 1 .. m : h # f => \E k \in 1 .. m - 1 : G(k) = h
  <2> TAKE h \in 1 .. m
  <2> HAVE h # f
  <2>1. CASE h < f
    <3>1. h \in 1 .. m - 1 /\ G(h) = h
      BY <1>2, <2>1
    <3> QED BY <3>1
  <2>2. CASE h > f
    <3>1. h - 1 \in 1 .. m - 1 /\ G(h - 1) = h
      BY <1>2, <2>2
    <3> QED BY <3>1
  <2> QED BY <1>2, <2>1, <2>2
<1> HIDE DEF G, more, e
<1>4. \A h \in 1 .. m : h # f => ~ SameDirectory(dirs[h], e)
  BY <1>1, <1>2, SameIsEquivalence DEF Condensed, e
<1>5. \A k \in 1 .. m - 1 : ~ SameDirectory(more[k], e) /\ more[k] # e
  BY <1>1, <1>2, <1>4, SameIsEquivalence
<1>6. PICK c \in 1 .. n : Counts(list, n, c) /\ dirs[f] = list[c]
  BY DEF Condensed, AsGCC
<1>7. \A i \in 1 .. n : SameDirectory(list[i], e) => list[i].kind = User
  <2> TAKE i \in 1 .. n
  <2> HAVE SameDirectory(list[i], e)
  <2>1. SameDirectory(list[i], list[c])
    BY <1>6, SameIsEquivalence DEF e
  <2>2. IF list[c].kind # User THEN list[i].kind # User => c <= i ELSE list[i].kind = User /\ c <= i
    BY <1>6, <2>1, CountsIs
  <2> QED BY <1>6, <2>2
<1>8. Counts(list, n + 1, n + 1)
  BY <1>7, CountsLast DEF e
<1>9. \A i \in 1 .. n : Counts(list, n + 1, i) <=> Counts(list, n, i) /\ ~ SameDirectory(list[i], e)
  <2> TAKE i \in 1 .. n
  <2>1. SameDirectory(list[i], e) <=> SameDirectory(e, list[i])
    BY SameIsEquivalence
  <2> QED BY <1>7, <2>1, CountsBefore DEF e
<1>10. \A i \in 1 .. n + 1 : i \in 1 .. n \/ i = n + 1
  OBVIOUS
<1>11. \A i \in 1 .. n : i \in 1 .. n + 1 /\ i < n + 1
  OBVIOUS
<1>12. n + 1 \in 1 .. n + 1
  OBVIOUS
<1>13. AsGCC(list, n + 1, more)
  <2>1. ASSUME NEW k \in DOMAIN more
        PROVE  \E i \in 1 .. n + 1 : Counts(list, n + 1, i) /\ more[k] = list[i]
    <3>1. CASE k \in 1 .. m - 1
      <4>1. G(k) \in DOMAIN dirs /\ more[k] = dirs[G(k)]
        BY <1>1, <1>2, <3>1
      <4>2. PICK i \in 1 .. n : Counts(list, n, i) /\ dirs[G(k)] = list[i]
        BY <4>1 DEF Condensed, AsGCC
      <4>3. ~ SameDirectory(list[i], e)
        BY <1>5, <3>1, <4>1, <4>2
      <4> QED BY <1>9, <1>11, <4>1, <4>2, <4>3
    <3>2. CASE k = m
      BY <1>1, <1>8, <1>12, <3>2 DEF e
    <3> QED BY <1>1, <1>2, <3>1, <3>2
  <2>2. ASSUME NEW i \in 1 .. n + 1, Counts(list, n + 1, i)
        PROVE  \E k \in DOMAIN more : more[k] = list[i]
    <3>1. CASE i \in 1 .. n
      <4>1. Counts(list, n, i) /\ ~ SameDirectory(list[i], e)
        BY <1>9, <2>2, <3>1
      <4>2. PICK h \in DOMAIN dirs : dirs[h] = list[i]
        BY <3>1, <4>1 DEF Condensed, AsGCC
      <4>3. h \in 1 .. m /\ h # f
        BY <1>1, <4>1, <4>2 DEF e
      <4>4. PICK k \in 1 .. m - 1 : G(k) = h
        BY <1>3, <4>3
      <4> QED BY <1>1, <1>2, <4>2, <4>4
    <3>2. CASE i = n + 1
      BY <1>1, <1>2, <3>2 DEF e
    <3> QED BY <1>10, <3>1, <3>2
  <2>3. ASSUME NEW k \in DOMAIN more, NEW l \in DOMAIN more, NEW i \in 1 .. n + 1, NEW j \in 1 .. n + 1,
               Counts(list, n + 1, i), more[k] = list[i],
               Counts(list, n + 1, j), more[l] = list[j], k < l
        PROVE  i < j
    <3>1. k \in 1 .. m - 1
      BY <1>1, <1>2, <2>3
    <3>2. i \in 1 .. n
      BY <1>5, <1>10, <2>3, <3>1 DEF e
    <3>3. CASE j = n + 1
      BY <1>11, <3>2, <3>3
    <3>4. CASE j \in 1 .. n
      <4>1. more[l] # e
        BY <1>9, <2>3, <3>4, SameIsEquivalence
      <4>2. l \in 1 .. m - 1
        BY <1>1, <1>2, <4>1
      <4>3. G(k) \in DOMAIN dirs /\ G(l) \in DOMAIN dirs /\ G(k) < G(l)
        BY <1>1, <1>2, <2>3, <3>1, <4>2
      <4>4. dirs[G(k)] = list[i] /\ dirs[G(l)] = list[j]
        BY <1>1, <2>3, <3>1, <4>2
      <4>5. Counts(list, n, i) /\ Counts(list, n, j)
        BY <1>9, <2>3, <3>2, <3>4
      <4> QED BY <3>2, <3>4, <4>3, <4>4, <4>5 DEF Condensed, AsGCC
    <3> QED BY <1>10, <3>3, <3>4
  <2> QED BY <2>1, <2>2, <2>3 DEF AsGCC
<1>14. ASSUME NEW i \in 1 .. n + 1
       PROVE  \E k \in DOMAIN more : SameDirectory(more[k], list[i])
  <2>1. CASE i \in 1 .. n /\ ~ SameDirectory(list[i], e)
    <3>1. PICK h \in DOMAIN dirs : SameDirectory(dirs[h], list[i])
      BY <2>1 DEF Condensed
    <3>2. h \in 1 .. m /\ h # f
      BY <1>1, <2>1, <3>1, SameIsEquivalence DEF e
    <3>3. PICK k \in 1 .. m - 1 : G(k) = h
      BY <1>3, <3>2
    <3> QED BY <1>1, <1>2, <3>1, <3>3
  <2>2. CASE SameDirectory(list[i], e)
    BY <1>1, <1>2, <2>2, SameIsEquivalence
  <2>3. CASE i = n + 1
    BY <1>1, <1>2, <2>3, SameIsEquivalence DEF e
  <2> QED BY <1>10, <2>1, <2>2, <2>3
<1>15. ASSUME NEW k \in DOMAIN more, NEW l \in DOMAIN more, SameDirectory(more[k], more[l])
       PROVE  k = l
  <2>1. CASE k \in 1 .. m - 1 /\ l \in 1 .. m - 1
    <3>1. G(k) \in DOMAIN dirs /\ G(l) \in DOMAIN dirs /\ SameDirectory(dirs[G(k)], dirs[G(l)])
      BY <1>1, <1>2, <1>15, <2>1
    <3>2. G(k) = G(l)
      BY <3>1 DEF Condensed
    <3> QED BY <1>2, <2>1, <3>2
  <2>2. CASE k = m /\ l \in 1 .. m - 1
    BY <1>1, <1>5, <1>15, <2>2, SameIsEquivalence
  <2>3. CASE k \in 1 .. m - 1 /\ l = m
    BY <1>1, <1>5, <1>15, <2>3
  <2> QED BY <1>1, <1>2, <2>1, <2>2, <2>3
<1>16. Condensed(list, n + 1, more)
  BY <1>13, <1>14, <1>15 DEF Condensed
<1> QED BY <1>16 DEF more, e

(* One round of RemoveDuplicates. *)
LEMMA CondensedStep ==
  ASSUME NEW S, NEW list, NEW n \in Nat, list[n + 1] \in S, NEW dirs \in Seq(S),
         Condensed(list, n, dirs)
  PROVE  /\ KeepUnlessDuplicate(dirs, list[n + 1]) \in Seq(S)
         /\ Condensed(list, n + 1, KeepUnlessDuplicate(dirs, list[n + 1]))
<1> DEFINE e == list[n + 1]
           same == {i \in DOMAIN dirs : SameDirectory(dirs[i], e)}
           first == CHOOSE i \in same : \A j \in same : i <= j
<1>0. KeepUnlessDuplicate(dirs, e) =
        IF same = {} THEN Append(dirs, e)
        ELSE IF e.kind # User /\ dirs[first].kind = User
             THEN Append(RemoveAt(dirs, first), e)
             ELSE dirs
  BY DEF KeepUnlessDuplicate
<1>1. CASE same = {}
  <2>1. \A k \in DOMAIN dirs : ~ SameDirectory(dirs[k], e)
    BY <1>1
  <2>2. Condensed(list, n + 1, Append(dirs, e))
    BY <2>1, CondensedNew
  <2>3. Append(dirs, e) \in Seq(S)
    OBVIOUS
  <2> QED BY <1>0, <1>1, <2>2, <2>3
<1>2. CASE same # {}
  <2>1. PICK f \in same : TRUE
    BY <1>2
  <2>2. f \in DOMAIN dirs /\ SameDirectory(dirs[f], e)
    BY <2>1
  <2>3. \A i \in same : i = f
    BY <2>2, SameIsEquivalence DEF Condensed
  <2>4. f \in 1 .. Len(dirs) /\ f <= f
    BY <2>2
  <2>5. \A j \in same : f <= j
    BY <2>3, <2>4
  <2>6. first \in same
    BY <2>1, <2>5
  <2>7. first = f
    BY <2>3, <2>6
  <2>8. CASE e.kind # User /\ dirs[f].kind = User
    <3>1. KeepUnlessDuplicate(dirs, e) = Append(RemoveAt(dirs, f), e)
      BY <1>0, <1>2, <2>7, <2>8
    <3>2. Condensed(list, n + 1, Append(RemoveAt(dirs, f), e))
      BY <2>2, <2>8, CondensedInstead
    <3>3. Append(RemoveAt(dirs, f), e) \in Seq(S)
      BY <2>4, Removed
    <3> QED BY <3>1, <3>2, <3>3
  <2>9. CASE ~ (e.kind # User /\ dirs[f].kind = User)
    <3>1. KeepUnlessDuplicate(dirs, e) = dirs
      BY <1>0, <1>2, <2>7, <2>9
    <3>2. Condensed(list, n + 1, dirs)
      BY <2>2, <2>9, CondensedSame
    <3> QED BY <3>1, <3>2
  <2> QED BY <2>8, <2>9
<1> QED BY <1>1, <1>2

-----------------------------------------------------------------------------
(* The setup.                                                              *)

Requests == [path: Seq(STRING), group: Groups, cxx: BOOLEAN, framework: BOOLEAN]

(* What can be in a search list: the directories the file manager knows.   *)
Known == Entries(DOMAIN fm.dirNames)

SetupTyped ==
  /\ paths \in Seq(Requests)
  /\ groups \in [Groups -> Seq(Known)]
  /\ kept \in Seq(Known) /\ rest \in Seq(Known)
  /\ searchList \in Seq(Known) /\ searchDirs \in Seq(Known)
  /\ systemDirIdx \in 0 .. Len(searchDirs)

(* RemoveDuplicates has gone through a part of the list. *)
Progress(list) ==
  \E n \in 0 .. Len(list) :
    rest = SubSeq(list, n + 1, Len(list)) /\ Condensed(list, n, kept)

SetupInv ==
  /\ setup \in {"paths", "chained", "quoted", "done"}
  /\ setup = "paths" => rest = <<>>
  /\ setup = "chained" => Progress(Chained)
  /\ setup = "quoted" => Progress(groups["Quoted"])
  /\ setup \in {"quoted", "done"} => Condensed(Chained, Len(Chained), searchList)
  /\ setup = "done" =>
       /\ rest = <<>>
       /\ SubSeq(searchDirs, systemDirIdx + 1, Len(searchDirs)) = searchList
       /\ \A i, j \in 1 .. systemDirIdx :
            SameDirectory(searchDirs[i], searchDirs[j]) => i = j
  /\ setup # "done" => stack = <<>> /\ request = NoRequest /\ lookups = <<>>

LEMMA SeqGrows ==
  ASSUME NEW A, NEW B, A \subseteq B, NEW s \in Seq(A)
  PROVE  s \in Seq(B)
OBVIOUS

LEMMA EntriesGrow ==
  ASSUME NEW A, NEW B, A \subseteq B
  PROVE  Entries(A) \subseteq Entries(B)
BY DEF Entries

LEMMA KnownGrows ==
  ASSUME Grows(fm, fm')
  PROVE  \A s : s \in Seq(Known) => s \in Seq(Known')
<1>1. DOMAIN fm.dirNames \subseteq DOMAIN fm'.dirNames
  BY DEF Grows
<1>2. Entries(DOMAIN fm.dirNames) \subseteq Entries(DOMAIN fm'.dirNames)
  BY <1>1, EntriesGrow
<1> QED BY <1>2, SeqGrows DEF Known

(* The next request of a list. *)
LEMMA NextRequest ==
  ASSUME NEW S, NEW list \in Seq(S), NEW n \in 0 .. Len(list),
         SubSeq(list, n + 1, Len(list)) # <<>>
  PROVE  /\ n + 1 \in 0 .. Len(list) /\ list[n + 1] \in S
         /\ Head(SubSeq(list, n + 1, Len(list))) = list[n + 1]
         /\ Tail(SubSeq(list, n + 1, Len(list))) = SubSeq(list, (n + 1) + 1, Len(list))
<1>1. n # Len(list)
  <2>1. CASE n = Len(list)
    <3>1. Len(list) < n + 1 /\ n + 1 \in Int /\ Len(list) \in Int
      BY <2>1
    <3> QED BY <3>1, SubSeqEmpty
  <2> QED BY <2>1
<1>2. n + 1 \in 1 .. Len(list) /\ Len(list) \in n + 1 .. Len(list) /\ n + 1 \in 0 .. Len(list)
  BY <1>1
<1> QED BY <1>2, HeadTailOfSubSeq, ElementOfSeq

LEMMA ConcatWindow ==
  ASSUME NEW S, NEW a \in Seq(S), NEW b \in Seq(S)
  PROVE  /\ a \o b \in Seq(S)
         /\ Len(a) \in 0 .. Len(a \o b)
         /\ \A i \in 1 .. Len(a) : i \in DOMAIN a /\ (a \o b)[i] = a[i]
         /\ SubSeq(a \o b, Len(a) + 1, Len(a \o b)) = b
<1> DEFINE r == a \o b
<1>1. PICK m \in Nat, n \in Nat : m = Len(a) /\ n = Len(b)
  OBVIOUS
<1>2. /\ r \in Seq(S) /\ Len(r) = m + n
      /\ \A i \in 1 .. m + n : r[i] = IF i <= m THEN a[i] ELSE b[i - m]
  BY <1>1, ConcatProperties
<1>3. DOMAIN a = 1 .. m
  BY <1>1
<1> HIDE DEF r
<1>4. \A i \in 1 .. m : r[i] = a[i]
  BY <1>2
<1> DEFINE s == SubSeq(r, m + 1, m + n)
<1>5. /\ s \in Seq(S) /\ Len(s) = n
      /\ \A i \in 1 .. n : s[i] = r[m + 1 + i - 1]
  <2>1. m + 1 \in 1 .. Len(r) + 1 /\ m + n \in (m + 1) - 1 .. Len(r) /\ m + n - (m + 1) + 1 = n
    BY <1>2
  <2> QED BY <1>2, <2>1, Window
<1> HIDE DEF s
<1>6. ASSUME NEW i \in 1 .. n
      PROVE  s[i] = b[i]
  <2>1. m + 1 + i - 1 \in 1 .. m + n /\ ~ (m + 1 + i - 1 <= m) /\ (m + 1 + i - 1) - m = i
    OBVIOUS
  <2> QED BY <1>2, <1>5, <2>1
<1>7. s = b
  BY <1>1, <1>5, <1>6, SeqEqual
<1>8. SubSeq(r, Len(a) + 1, Len(r)) = b
  BY <1>1, <1>2, <1>7 DEF s
<1>9. Len(a) \in 0 .. Len(r)
  BY <1>1, <1>2
<1>10. \A i \in 1 .. Len(a) : i \in DOMAIN a /\ r[i] = a[i]
  BY <1>1, <1>3, <1>4
<1> QED BY <1>2, <1>8, <1>9, <1>10 DEF r

LEMMA ChainedTyped ==
  ASSUME SetupTyped
  PROVE  Chained \in Seq(Known)
BY DEF SetupTyped, Chained, Groups

LEMMA ProgressBegins ==
  ASSUME NEW S, NEW list \in Seq(S), rest' = list, kept' = <<>>, NEW more, more = list
  PROVE  \E n \in 0 .. Len(more) :
           rest' = SubSeq(more, n + 1, Len(more)) /\ Condensed(more, n, kept')
<1>1. SubSeq(list, 0 + 1, Len(list)) = list
  BY SubSeqFull
<1>2. 0 \in 0 .. Len(list) /\ Condensed(list, 0, kept')
  BY NothingCondensed
<1> QED BY <1>1, <1>2

(* At the end of the list the directories are those that count. *)
LEMMA ProgressEnds ==
  ASSUME NEW S, NEW list \in Seq(S), Progress(list), rest = <<>>
  PROVE  Condensed(list, Len(list), kept)
<1>1. PICK n \in 0 .. Len(list) : rest = SubSeq(list, n + 1, Len(list)) /\ Condensed(list, n, kept)
  BY DEF Progress
<1>2. n = Len(list)
  <2>1. n + 1 \in 1 .. Len(list) + 1 /\ Len(list) \in (n + 1) - 1 .. Len(list)
    OBVIOUS
  <2>2. Len(SubSeq(list, n + 1, Len(list))) = Len(list) - (n + 1) + 1
    BY <2>1, Window
  <2>3. Len(rest) = 0
    OBVIOUS
  <2>4. Len(list) - (n + 1) + 1 = 0
    BY <1>1, <2>2, <2>3
  <2> QED BY <2>4
<1> QED BY <1>1, <1>2

LEMMA SetupInit ==
  ASSUME Init
  PROVE  SetupTyped /\ SetupInv
<1>1. paths \in Seq(Requests)
  BY LookupAssumption DEF Init, Requests
<1>2. <<>> \in Seq(Known) /\ 0 \in 0 .. Len(<<>>)
  OBVIOUS
<1>3. groups \in [Groups -> Seq(Known)]
  BY <1>2 DEF Init
<1>4. SetupTyped
  BY <1>1, <1>2, <1>3 DEF Init, SetupTyped
<1>5. SetupInv
  BY DEF Init, SetupInv
<1> QED BY <1>4, <1>5

(* The types, as they are after a step. *)
LEMMA TypedNext ==
  ASSUME SetupTyped, Grows(fm, fm')
  PROVE  /\ groups \in [Groups -> Seq(Known')]
         /\ kept \in Seq(Known') /\ rest \in Seq(Known')
         /\ searchList \in Seq(Known') /\ searchDirs \in Seq(Known')
<1>1. \A s : s \in Seq(Known) => s \in Seq(Known')
  BY KnownGrows
<1>2. \A g \in Groups : groups[g] \in Seq(Known')
  BY <1>1 DEF SetupTyped
<1>3. groups \in [Groups -> Seq(Known')]
  BY <1>2 DEF SetupTyped
<1> QED BY <1>1, <1>3 DEF SetupTyped

LEMMA SetupSame ==
  ASSUME SetupTyped, SetupInv, Grows(fm, fm'), UNCHANGED setupVars,
         setup = "done" \/ UNCHANGED <<stack, request, lookups>>
  PROVE  SetupTyped' /\ SetupInv'
<1>1. /\ groups \in [Groups -> Seq(Known')]
      /\ kept \in Seq(Known') /\ rest \in Seq(Known')
      /\ searchList \in Seq(Known') /\ searchDirs \in Seq(Known')
  BY TypedNext
<1>2. SetupTyped'
  BY <1>1 DEF SetupTyped, setupVars
<1>3. Chained' = Chained /\ \A list : Progress(list)' = Progress(list)
  BY DEF Chained, Progress, setupVars
<1>4. SetupInv'
  BY <1>3 DEF SetupInv, setupVars, Progress
<1> QED BY <1>2, <1>4

LEMMA AddPathSetup ==
  ASSUME Sound(fm), SetupTyped, SetupInv, AddPath
  PROVE  SetupTyped' /\ SetupInv'
<1> DEFINE p == Head(paths)
           m == GetDirectory(fm, p.path)
           dir == m.dirs[p.path]
           e == [dir |-> dir, kind |-> KindOf(p.group, p.cxx), framework |-> p.framework]
<1>1. Grows(fm, fm')
  BY ManagerStep DEF Next, Asked
<1>2. /\ groups \in [Groups -> Seq(Known')]
      /\ kept \in Seq(Known') /\ rest \in Seq(Known')
      /\ searchList \in Seq(Known') /\ searchDirs \in Seq(Known')
  BY <1>1, TypedNext
<1>3. p \in Requests /\ Tail(paths) \in Seq(Requests)
  BY DEF AddPath, SetupTyped
<1>4. groups' \in [Groups -> Seq(Known')]
  <2>1. CASE dir = None
    <3>1. groups' = groups
      BY <2>1 DEF AddPath
    <3> QED BY <1>2, <3>1
  <2>2. CASE dir # None
    <3>1. Sound(m) /\ p.path \in DOMAIN m.dirs
      BY GetDirectorySound
    <3>2. dir \in DOMAIN m.dirNames
      BY <2>2, <3>1 DEF Sound, Connected
    <3>3. fm' = m
      BY <2>2 DEF AddPath
    <3>4. p.framework \in BOOLEAN /\ p.group \in Groups /\ KindOf(p.group, p.cxx) \in Kinds
      BY <1>3 DEF Requests, KindOf, Kinds, User, System, ExternC
    <3>5. e \in Known'
      BY <3>2, <3>3, <3>4 DEF Known, Entries
    <3>6. groups' = [groups EXCEPT ![p.group] = Append(@, e)]
      BY <2>2 DEF AddPath
    <3> HIDE DEF p, m, dir, e
    <3>7. Append(groups[p.group], e) \in Seq(Known')
      BY <1>2, <3>4, <3>5
    <3> QED BY <1>2, <3>6, <3>7
  <2> QED BY <2>1, <2>2
<1>5. SetupTyped'
  BY <1>2, <1>3, <1>4 DEF SetupTyped, AddPath
<1>6. SetupInv'
  BY DEF SetupInv, AddPath, searchVars
<1> QED BY <1>5, <1>6

LEMMA RealizeSetup ==
  ASSUME SetupTyped, SetupInv, Realize
  PROVE  SetupTyped' /\ SetupInv'
<1>1. Known' = Known /\ Chained' = Chained
  BY DEF Realize, Known, Chained
<1>2. Chained \in Seq(Known)
  BY ChainedTyped
<1>3. SetupTyped'
  BY <1>1, <1>2 DEF SetupTyped, Realize
<1>4. Progress(Chained)'
  BY <1>1, <1>2, ProgressBegins DEF Realize, Progress
<1>5. SetupInv'
  BY <1>4 DEF SetupInv, Realize, searchVars
<1> QED BY <1>3, <1>5

LEMMA RealizeQuotedSetup ==
  ASSUME SetupTyped, SetupInv, RealizeQuoted
  PROVE  SetupTyped' /\ SetupInv'
<1>1. Known' = Known /\ Chained' = Chained /\ groups' = groups
  BY DEF RealizeQuoted, Known, Chained
<1>2. Chained \in Seq(Known) /\ groups["Quoted"] \in Seq(Known)
  BY ChainedTyped DEF SetupTyped, Groups
<1>3. SetupTyped'
  BY <1>1, <1>2 DEF SetupTyped, RealizeQuoted
<1>4. Progress(groups["Quoted"])'
  BY <1>1, <1>2, ProgressBegins DEF RealizeQuoted, Progress
<1>5. Condensed(Chained, Len(Chained), kept)
  BY <1>2, ProgressEnds DEF RealizeQuoted, SetupInv
<1>6. Condensed(Chained, Len(Chained), searchList)'
  BY <1>1, <1>5 DEF RealizeQuoted
<1>7. SetupInv'
  BY <1>4, <1>6 DEF SetupInv, RealizeQuoted, searchVars
<1> QED BY <1>3, <1>7

(* One round of the loop, on whichever list it is. *)
LEMMA RoundProgress ==
  ASSUME SetupTyped, RemoveDuplicates, NEW list \in Seq(Known), Progress(list)
  PROVE  /\ kept' \in Seq(Known)
         /\ \E n \in 0 .. Len(list) :
              rest' = SubSeq(list, n + 1, Len(list)) /\ Condensed(list, n, kept')
<1>1. PICK n \in 0 .. Len(list) : rest = SubSeq(list, n + 1, Len(list)) /\ Condensed(list, n, kept)
  BY DEF Progress
<1>2. rest # <<>> /\ kept' = KeepUnlessDuplicate(kept, Head(rest)) /\ rest' = Tail(rest)
  BY DEF RemoveDuplicates
<1>3. /\ n + 1 \in 0 .. Len(list) /\ list[n + 1] \in Known
      /\ Head(rest) = list[n + 1] /\ Tail(rest) = SubSeq(list, (n + 1) + 1, Len(list))
  BY <1>1, <1>2, NextRequest
<1>4. kept \in Seq(Known) /\ n \in Nat
  BY DEF SetupTyped
<1>5. /\ KeepUnlessDuplicate(kept, list[n + 1]) \in Seq(Known)
      /\ Condensed(list, n + 1, KeepUnlessDuplicate(kept, list[n + 1]))
  BY <1>1, <1>3, <1>4, CondensedStep
<1> QED BY <1>2, <1>3, <1>5

LEMMA RemoveDuplicatesSetup ==
  ASSUME SetupTyped, SetupInv, RemoveDuplicates
  PROVE  SetupTyped' /\ SetupInv'
<1>1. Known' = Known /\ Chained' = Chained /\ groups' = groups /\ setup' = setup
  BY DEF RemoveDuplicates, Known, Chained
<1>2. Chained \in Seq(Known) /\ groups["Quoted"] \in Seq(Known)
  BY ChainedTyped DEF SetupTyped, Groups
<1>3. setup = "chained" \/ setup = "quoted"
  BY DEF SetupInv, RemoveDuplicates
<1>4. kept' \in Seq(Known)
  BY <1>2, <1>3, RoundProgress DEF SetupInv
<1>5. Tail(rest) \in Seq(Known)
  BY DEF SetupTyped, RemoveDuplicates
<1>6. SetupTyped'
  BY <1>1, <1>4, <1>5 DEF SetupTyped, RemoveDuplicates
<1>7. setup = "chained" => Progress(Chained)'
  <2>1. setup = "chained" => \E n \in 0 .. Len(Chained) :
          rest' = SubSeq(Chained, n + 1, Len(Chained)) /\ Condensed(Chained, n, kept')
    BY <1>2, RoundProgress DEF SetupInv
  <2> QED BY <1>1, <2>1 DEF Progress
<1>8. setup = "quoted" => Progress(groups["Quoted"])'
  <2>1. setup = "quoted" => \E n \in 0 .. Len(groups["Quoted"]) :
          /\ rest' = SubSeq(groups["Quoted"], n + 1, Len(groups["Quoted"]))
          /\ Condensed(groups["Quoted"], n, kept')
    BY <1>2, RoundProgress DEF SetupInv
  <2> QED BY <1>1, <2>1 DEF Progress
<1>9. Condensed(Chained, Len(Chained), searchList)' = Condensed(Chained, Len(Chained), searchList)
  BY <1>1 DEF RemoveDuplicates
<1>10. SetupInv'
  BY <1>1, <1>3, <1>7, <1>8, <1>9 DEF SetupInv, RemoveDuplicates, searchVars
<1> QED BY <1>6, <1>10

LEMMA SetSearchPathsSetup ==
  ASSUME Sound(fm), SetupTyped, SetupInv, SetSearchPaths
  PROVE  SetupTyped' /\ SetupInv'
<1>1. Grows(fm, fm')
  BY ManagerStep DEF Next, Asked
<1>2. /\ groups \in [Groups -> Seq(Known')]
      /\ kept \in Seq(Known') /\ rest \in Seq(Known')
      /\ searchList \in Seq(Known') /\ searchDirs \in Seq(Known')
  BY <1>1, TypedNext
<1>3. /\ searchDirs' \in Seq(Known') /\ systemDirIdx' \in 0 .. Len(searchDirs')
      /\ \A i \in 1 .. systemDirIdx' : i \in DOMAIN kept /\ searchDirs'[i] = kept[i]
      /\ SubSeq(searchDirs', systemDirIdx' + 1, Len(searchDirs')) = searchList
  BY <1>2, ConcatWindow DEF SetSearchPaths
<1>4. groups' \in [Groups -> Seq(Known')]
  <2>1. groups' = [groups EXCEPT !["Quoted"] = kept]
    BY DEF SetSearchPaths
  <2> QED BY <1>2, <2>1
<1>5. SetupTyped'
  BY <1>2, <1>3, <1>4 DEF SetupTyped, SetSearchPaths
<1>6. Chained' = Chained
  <2>1. groups' = [groups EXCEPT !["Quoted"] = kept]
    BY DEF SetSearchPaths
  <2>2. /\ groups'["Angled"] = groups["Angled"] /\ groups'["System"] = groups["System"]
        /\ groups'["After"] = groups["After"]
    BY <1>2, <2>1 DEF Groups
  <2> QED BY <2>2 DEF Chained
<1>7. Condensed(Chained, Len(Chained), searchList)'
  BY <1>6 DEF SetupInv, SetSearchPaths
<1>8. Condensed(groups["Quoted"], Len(groups["Quoted"]), kept)
  <2>1. groups["Quoted"] \in Seq(Known)
    BY DEF SetupTyped, Groups
  <2> QED BY <2>1, ProgressEnds DEF SetupInv, SetSearchPaths
<1>9. \A i, j \in 1 .. systemDirIdx' : SameDirectory(searchDirs'[i], searchDirs'[j]) => i = j
  BY <1>3, <1>8 DEF Condensed
<1>10. SetupInv'
  BY <1>3, <1>7, <1>9 DEF SetupInv, SetSearchPaths
<1> QED BY <1>5, <1>10

(* A step of a search, or of the include stack: the setup is done. *)
SearchStep ==
  \/ \E name \in IncludeNames, angled \in BOOLEAN :
       \/ HandleIncludeDirective(name, angled)
       \/ HandleIncludeNextDirective(name, angled)
  \/ LookupAbsolute \/ LookupInIncluderDir \/ BeginSearch
  \/ LookupInDirectory \/ LookupInFrameworks \/ SearchFails
  \/ NotAFramework \/ LookupSubframework \/ FileNotFound
  \/ EnterFile \/ SkipFile \/ HandleEndOfFile

LEMMA SearchStepIs ==
  ASSUME SearchStep, SetupInv
  PROVE  UNCHANGED setupVars /\ setup = "done"
<1>1. NoRequest.pc = "none"
  BY DEF NoRequest
<1>2. (\E name \in IncludeNames, angled \in BOOLEAN :
         \/ HandleIncludeDirective(name, angled)
         \/ HandleIncludeNextDirective(name, angled))
      => UNCHANGED setupVars /\ stack # <<>>
  BY DEF HandleIncludeDirective, HandleIncludeNextDirective, CanInclude, Begin
<1>3. EnterFile \/ SkipFile \/ FileNotFound \/ NotAFramework \/ LookupSubframework
      => UNCHANGED setupVars /\ request # NoRequest
  BY <1>1 DEF EnterFile, SkipFile, FileNotFound, NotAFramework, LookupSubframework
<1>4. LookupAbsolute \/ LookupInIncluderDir \/ BeginSearch
      => UNCHANGED setupVars /\ request # NoRequest
  BY <1>1 DEF LookupAbsolute, LookupInIncluderDir, BeginSearch
<1>5. LookupInDirectory \/ LookupInFrameworks \/ SearchFails
      => UNCHANGED setupVars /\ request # NoRequest
  BY <1>1 DEF LookupInDirectory, LookupInFrameworks, SearchFails, Searching
<1>6. HandleEndOfFile => UNCHANGED setupVars /\ stack # <<>>
  BY DEF HandleEndOfFile
<1> QED BY <1>2, <1>3, <1>4, <1>5, <1>6 DEF SearchStep, SetupInv

LEMMA NextSplits ==
  ASSUME Next
  PROVE  \/ AddPath \/ Realize \/ RemoveDuplicates \/ RealizeQuoted \/ SetSearchPaths
         \/ SearchStep
BY DEF Next, SearchStep

LEMMA SetupStep ==
  ASSUME Sound(fm), SetupTyped, SetupInv, [Next]_vars
  PROVE  SetupTyped' /\ SetupInv'
<1>1. Grows(fm, fm')
  BY ManagerStep DEF Asked
<1>2. CASE SearchStep
  BY <1>1, <1>2, SearchStepIs, SetupSame
<1>3. CASE UNCHANGED vars
  BY <1>1, <1>3, SetupSame DEF vars, searchVars
<1> QED BY <1>2, <1>3, NextSplits, AddPathSetup, RealizeSetup, RemoveDuplicatesSetup,
           RealizeQuotedSetup, SetSearchPathsSetup

(* "required to emulate GCC's search path correctly": the angled, system   *)
(* and after groups are searched as GCC would, and a quoted directory once.*)
THEOREM SearchListCorrect == Spec => []SearchListAsGCC
<1>1. Init => Sound(fm) /\ SetupTyped /\ SetupInv
  BY NewFileManagerSound, SetupInit DEF Init
<1>2. Sound(fm) /\ SetupTyped /\ SetupInv /\ [Next]_vars
      => Sound(fm)' /\ SetupTyped' /\ SetupInv'
  BY ManagerStep, SetupStep DEF Asked
<1>3. SetupInv => SearchListAsGCC
  BY DEF SetupInv, SearchListAsGCC, Condensed
<1> QED BY <1>1, <1>2, <1>3, PTL DEF Spec

-----------------------------------------------------------------------------
(* The search.                                                             *)

Files  == Inodes \ DirInodes
Places == 1 .. Len(searchDirs) + 1
Frames == [file: DOMAIN fm.entries, lookup: 0 .. Len(searchDirs), kind: Kinds]

Stages == {"absolute", "includer", "begin", "search", "subframework", "found"}
Lookups ==
  [pc: Stages, name: IncludeNames, angled: BOOLEAN,
   from: 0 .. Len(searchDirs) + 1, curDir: 0 .. Len(searchDirs), at: Nat, file: Nat]

SearchTyped ==
  /\ setup = "done" => stack # <<>>
  /\ stack \in Seq(Frames)
  /\ dirInfo \in [Files -> Kinds]
  /\ \A n \in DOMAIN lookups : lookups[n] \in [start: Places, at: Places]
  /\ request = NoRequest \/ request \in Lookups

(* An entry of the cache that is the result of a search from its start. *)
EntryRight(c, n) ==
  /\ c.start <= c.at
  /\ NoneBefore(c.start, c.at, n)
  /\ c.at <= Len(searchDirs) /\ ~ searchDirs[c.at].framework => NormalHas(c.at, n)

(* Every entry is, except the one a search is about to set. *)
CacheInv ==
  \A n \in DOMAIN lookups :
    EntryRight(lookups[n], n) \/ (request.pc = "search" /\ request.name = n)

(* FoundRight, for an answer. *)
Right(file, dir) ==
  IF IsAbsolute(request.name)
  THEN dir = 0 /\ (AtItsPath => file = Disk[request.name])
  ELSE IF InIncluderDir
  THEN file = FileIn(IncluderDir, request.name) /\ dir = Top.lookup
  ELSE IF dir = 0
  THEN NoneBefore(SearchStart, Len(searchDirs) + 1, request.name)
  ELSE /\ dir \in SearchStart .. Len(searchDirs)
       /\ NoneBefore(SearchStart, dir, request.name)
       /\ searchDirs[dir].framework \/ file = FileIn(searchDirs[dir].dir, request.name)

(* The kind a file is entered with is at least that of the directory.      *)
KindRight(file, dir) ==
  dir = 0 \/ dir = Top.lookup \/ dirInfo[file] >= searchDirs[dir].kind

(* What is known of the answer at each stage of LookupFile. *)
RequestInv ==
  /\ request.pc = "absolute" => IsAbsolute(request.name)
  /\ request.pc = "includer" =>
       /\ ~ IsAbsolute(request.name)
       /\ request.from = 0 /\ ~ request.angled /\ request.curDir = Top.lookup
  /\ request.pc \in {"begin", "search"} => ~ IsAbsolute(request.name) /\ ~ InIncluderDir
  /\ request.pc = "search" =>
       /\ request.name \in DOMAIN lookups /\ lookups[request.name].start = SearchStart
       /\ request.at \in SearchStart .. Len(searchDirs) + 1
       /\ NoneBefore(SearchStart, request.at, request.name)
  /\ request.pc = "subframework" => MissedNothing /\ request.at <= Len(stack)
  /\ request.pc = "found" =>
       /\ Right(request.file, request.curDir)
       /\ request.file \in DOMAIN fm.entries
       /\ KindRight(request.file, request.curDir)

SearchInv == SearchTyped /\ CacheInv /\ RequestInv /\ KindCoversDirectory

LEMMA SearchImplies ==
  ASSUME SearchInv
  PROVE  AnswerIsRight /\ LookupCacheIsRight
<1>1. FoundRight <=> Right(request.file, request.curDir)
  BY DEF FoundRight, Right
<1>2. AnswerIsRight
  BY <1>1 DEF SearchInv, RequestInv, AnswerIsRight
<1>3. LookupCacheIsRight
  BY DEF SearchInv, CacheInv, EntryRight, LookupCacheIsRight
<1> QED BY <1>2, <1>3

LEMMA EntriesAreFiles ==
  ASSUME NEW m, Sound(m)
  PROVE  \A i \in DOMAIN m.entries : i \in Files /\ i \in Nat \ {0}
<1>1. \A i \in DOMAIN m.entries : IsFile(m.entries[i].name) /\ Disk[m.entries[i].name] = i
  BY DEF Sound, AgreesWithDisk
<1> QED BY <1>1, InodesArePositive DEF Files, Inodes, IsFile

(* A lookup in progress. *)
LEMMA InProgress ==
  ASSUME SetupInv, SearchTyped, request.pc \in Stages
  PROVE  request \in Lookups /\ setup = "done" /\ stack # <<>>
<1>1. NoRequest.pc \notin Stages
  BY DEF NoRequest, Stages
<1> QED BY <1>1 DEF SetupInv, SearchTyped

(* The current file. *)
LEMMA TopIs ==
  ASSUME NEW S, NEW s \in Seq(S), s # <<>>
  PROVE  Last(s) = s[Len(s)] /\ Len(s) \in DOMAIN s /\ Last(s) \in S
<1>1. Len(s) \in Nat \ {0} /\ Last(s) = s[Len(s)] /\ Last(s) \in S
  BY FrontLast
<1> QED BY <1>1

LEMMA TopTyped ==
  ASSUME SearchTyped, stack # <<>>
  PROVE  /\ Top = stack[Len(stack)] /\ Len(stack) \in DOMAIN stack
         /\ Top.file \in DOMAIN fm.entries
         /\ Top.lookup \in 0 .. Len(searchDirs) /\ Top.kind \in Kinds
<1>1. stack \in Seq(Frames)
  BY DEF SearchTyped
<1>2. Top = stack[Len(stack)] /\ Len(stack) \in DOMAIN stack /\ Top \in Frames
  BY <1>1, TopIs DEF Top
<1> QED BY <1>2 DEF Frames

(* Steps on which the same search goes on. *)
GoesOn ==
  /\ UNCHANGED setupVars /\ UNCHANGED stack
  /\ request'.name = request.name /\ request'.angled = request.angled
  /\ request'.from = request.from

LEMMA DirsSame ==
  ASSUME UNCHANGED setupVars
  PROVE  /\ \A i, n : NormalHas(i, n)' <=> NormalHas(i, n)
         /\ \A a, b, n : NoneBefore(a, b, n)' <=> NoneBefore(a, b, n)
         /\ \A c, n : EntryRight(c, n)' <=> EntryRight(c, n)
<1>1. searchDirs' = searchDirs
  BY DEF setupVars
<1> QED BY <1>1 DEF EntryRight, NoneBefore, NormalHas

LEMMA SameSearch ==
  ASSUME Sound(fm), SearchTyped, stack # <<>>, Grows(fm, fm'), GoesOn
  PROVE  /\ Top' = Top /\ IncluderDir' = IncluderDir /\ SearchStart' = SearchStart
         /\ InIncluderDir' <=> InIncluderDir
         /\ AtItsPath' <=> AtItsPath
         /\ MissedNothing' <=> MissedNothing
         /\ \A f, d : Right(f, d)' <=> Right(f, d)
<1>1. UNCHANGED <<searchDirs, systemDirIdx, stack>>
  BY DEF GoesOn, setupVars
<1>2. Top' = Top
  BY <1>1 DEF Top
<1>3. IncluderDir' = IncluderDir
  <2>1. Top.file \in DOMAIN fm.entries
    BY TopTyped
  <2> QED BY <1>2, <2>1 DEF IncluderDir, Grows
<1>4. SearchStart' = SearchStart
  BY <1>1 DEF SearchStart, GoesOn
<1>5. InIncluderDir' <=> InIncluderDir
  BY <1>3 DEF InIncluderDir, GoesOn, HasFile
<1>6. AtItsPath' <=> AtItsPath
  BY DEF AtItsPath, GoesOn
<1>7. \A a, b, n : NoneBefore(a, b, n)' <=> NoneBefore(a, b, n)
  BY DirsSame DEF GoesOn
<1>8. request'.name = request.name
  BY DEF GoesOn
<1>9. MissedNothing' <=> MissedNothing
  BY <1>1, <1>4, <1>5, <1>6, <1>7, <1>8 DEF MissedNothing, IsAbsolute
<1>10. \A f, d : Right(f, d)' <=> Right(f, d)
  BY <1>1, <1>2, <1>3, <1>4, <1>5, <1>6, <1>7, <1>8 DEF Right, IsAbsolute
<1> QED BY <1>2, <1>3, <1>4, <1>5, <1>6, <1>9, <1>10

LEMMA GotoIs ==
  ASSUME request \in Lookups, NEW pc \in Stages, NEW at \in Nat, Goto(pc, at)
  PROVE  /\ request' \in Lookups
         /\ request'.pc = pc /\ request'.at = at
         /\ request'.name = request.name /\ request'.angled = request.angled
         /\ request'.from = request.from
<1>1. 0 \in 0 .. Len(searchDirs)
  BY DEF Lookups
<1> QED BY <1>1 DEF Goto, Lookups

LEMMA FoundIs ==
  ASSUME request \in Lookups, NEW file \in Nat, NEW dir \in 0 .. Len(searchDirs), Found(file, dir)
  PROVE  /\ request' \in Lookups
         /\ request'.pc = "found" /\ request'.file = file /\ request'.curDir = dir
         /\ request'.name = request.name /\ request'.angled = request.angled
         /\ request'.from = request.from
<1>1. "found" \in Stages
  BY DEF Stages
<1> QED BY <1>1 DEF Found, Lookups

(* The types, as they are after a step that enters no file. *)
LEMMA StillTyped ==
  ASSUME SearchTyped, Grows(fm, fm'), UNCHANGED setupVars, UNCHANGED stack,
         dirInfo' \in [Files -> Kinds],
         \A n \in DOMAIN lookups' : lookups'[n] \in [start: Places, at: Places],
         request' = NoRequest \/ request' \in Lookups
  PROVE  SearchTyped'
<1>1. searchDirs' = searchDirs /\ setup' = setup /\ stack' = stack
  BY DEF setupVars
<1>2. Frames \subseteq Frames'
  BY <1>1 DEF Frames, Grows
<1>3. stack' \in Seq(Frames')
  <2>1. stack \in Seq(Frames)
    BY DEF SearchTyped
  <2> QED BY <1>1, <1>2, <2>1, SeqGrows
<1>4. Files' = Files /\ Places' = Places /\ Lookups' = Lookups
  BY <1>1 DEF Files, Inodes, Places, Lookups
<1> QED BY <1>1, <1>3, <1>4 DEF SearchTyped

(* Nothing that was entered before depends on a search. *)
LEMMA StillCovers ==
  ASSUME KindCoversDirectory, UNCHANGED setupVars, UNCHANGED stack
  PROVE  KindCoversDirectory'
BY DEF KindCoversDirectory, setupVars

(* The cache while it is not touched, and no search begins or goes on.     *)
LEMMA CacheSame ==
  ASSUME CacheInv, UNCHANGED setupVars, lookups' = lookups,
         request.pc # "search" \/ (request'.pc = "search" /\ request'.name = request.name)
  PROVE  CacheInv'
<1>1. \A c, n : EntryRight(c, n)' <=> EntryRight(c, n)
  BY DirsSame
<1> QED BY <1>1 DEF CacheInv

LEMMA BeginPreserves ==
  ASSUME Sound(fm), SetupInv, SetupTyped, SearchInv, NEW name \in IncludeNames, NEW angled \in BOOLEAN,
         CanInclude, NEW from \in 0 .. Len(searchDirs) + 1, Begin(name, angled, from)
  PROVE  SearchInv'
<1>1. UNCHANGED fm /\ UNCHANGED setupVars /\ UNCHANGED stack /\ UNCHANGED searchVars
  BY DEF Begin
<1>2. Grows(fm, fm')
  BY <1>1 DEF Grows
<1>3. stack # <<>> /\ request = NoRequest
  BY DEF CanInclude
<1>4. Top.lookup \in 0 .. Len(searchDirs)
  BY <1>3, TopTyped DEF SearchInv
<1> DEFINE pc == IF IsAbsolute(name) THEN "absolute"
                 ELSE IF from = 0 /\ ~ angled THEN "includer" ELSE "begin"
<1>5. request' = [pc |-> pc, name |-> name, angled |-> angled, from |-> from,
                  curDir |-> Top.lookup, at |-> 0, file |-> None]
  BY DEF Begin
<1>6. pc \in Stages
  BY DEF Stages
<1>7. /\ pc \notin {"search", "subframework", "found"}
      /\ pc = "absolute" => IsAbsolute(name)
      /\ pc = "includer" => ~ IsAbsolute(name) /\ from = 0 /\ ~ angled
      /\ pc = "begin" => ~ IsAbsolute(name) /\ ~ (from = 0 /\ ~ angled)
  OBVIOUS
<1> HIDE DEF pc
<1>8. request' \in Lookups
  BY <1>4, <1>5, <1>6 DEF Lookups, None
<1>9. SearchTyped'
  BY <1>1, <1>2, <1>8, StillTyped DEF SearchInv, SearchTyped, searchVars
<1>10. CacheInv'
  <2>1. request.pc # "search"
    BY <1>3 DEF NoRequest
  <2>2. lookups' = lookups
    BY <1>1 DEF searchVars
  <2> QED BY <1>1, <2>1, <2>2, CacheSame DEF SearchInv
<1>11. /\ request'.pc = pc /\ request'.name = name /\ request'.from = from
       /\ request'.angled = angled /\ request'.curDir = Top.lookup
  BY <1>5
<1>12. Top' = Top
  BY <1>1 DEF Top
<1>13. RequestInv'
  <2>1. pc \in {"absolute", "includer", "begin"}
    BY <1>6, <1>7 DEF Stages
  <2>2. pc = "begin" => ~ InIncluderDir'
    BY <1>7, <1>11 DEF InIncluderDir
  <2> QED BY <1>7, <1>11, <1>12, <2>1, <2>2 DEF RequestInv, IsAbsolute
<1> QED BY <1>1, <1>9, <1>10, <1>13, StillCovers DEF SearchInv

(* A step of a lookup, as far as it concerns the rest. *)
Continues ==
  /\ Sound(fm) /\ Grows(fm, fm') /\ SearchInv
  /\ request \in Lookups /\ stack # <<>>
  /\ UNCHANGED setupVars /\ UNCHANGED stack
  /\ dirInfo' \in [Files -> Kinds]
  /\ \A n \in DOMAIN lookups' : lookups'[n] \in [start: Places, at: Places]

(* The lookup ends with a file. *)
LEMMA AnswerFound ==
  ASSUME Continues, NEW file \in DOMAIN fm'.entries, file \in Nat,
         NEW dir \in 0 .. Len(searchDirs), Found(file, dir), Right(file, dir),
         dir = 0 \/ dir = Top.lookup \/ dirInfo'[file] >= searchDirs[dir].kind,
         CacheInv'
  PROVE  SearchInv'
<1>1. /\ request' \in Lookups
      /\ request'.pc = "found" /\ request'.file = file /\ request'.curDir = dir
      /\ request'.name = request.name /\ request'.angled = request.angled
      /\ request'.from = request.from
  BY FoundIs DEF Continues
<1>2. SearchTyped'
  BY <1>1, StillTyped DEF Continues, SearchInv
<1>3. GoesOn
  BY <1>1 DEF GoesOn, Continues
<1>4. Top' = Top /\ \A f, d : Right(f, d)' <=> Right(f, d)
  BY <1>3, SameSearch DEF Continues, SearchInv
<1>5. KindRight(request.file, request.curDir)'
  <2>1. searchDirs' = searchDirs
    BY DEF Continues, setupVars
  <2> QED BY <1>1, <1>4, <2>1 DEF KindRight
<1>6. Right(request.file, request.curDir)'
  BY <1>1, <1>4
<1>7. RequestInv'
  BY <1>1, <1>5, <1>6 DEF RequestInv
<1> QED BY <1>2, <1>7, StillCovers DEF SearchInv, Continues

(* The lookup goes on. *)
LEMMA LooksOn ==
  ASSUME Continues, NEW pc \in {"begin", "search", "subframework"}, NEW at \in Nat, Goto(pc, at),
         pc # "subframework" => ~ IsAbsolute(request.name) /\ ~ InIncluderDir,
         pc = "search" =>
           /\ request.name \in DOMAIN lookups' /\ lookups'[request.name].start = SearchStart
           /\ at \in SearchStart .. Len(searchDirs) + 1
           /\ NoneBefore(SearchStart, at, request.name),
         pc = "subframework" => MissedNothing /\ at <= Len(stack),
         CacheInv'
  PROVE  SearchInv'
<1>1. /\ request' \in Lookups
      /\ request'.pc = pc /\ request'.at = at
      /\ request'.name = request.name /\ request'.angled = request.angled
      /\ request'.from = request.from
  BY GotoIs DEF Continues, Stages
<1>2. SearchTyped'
  BY <1>1, StillTyped DEF Continues, SearchInv
<1>3. GoesOn
  BY <1>1 DEF GoesOn, Continues
<1>4. /\ SearchStart' = SearchStart /\ (InIncluderDir' <=> InIncluderDir)
      /\ MissedNothing' <=> MissedNothing
  BY <1>3, SameSearch DEF Continues, SearchInv
<1>5. \A a, b, n : NoneBefore(a, b, n)' <=> NoneBefore(a, b, n)
  BY DirsSame DEF Continues
<1>6. searchDirs' = searchDirs /\ stack' = stack
  BY DEF Continues, setupVars
<1>7. RequestInv'
  BY <1>1, <1>4, <1>5, <1>6 DEF RequestInv, IsAbsolute
<1> QED BY <1>2, <1>7, StillCovers DEF SearchInv, Continues

LEMMA LookupAbsolutePreserves ==
  ASSUME Sound(fm), SetupInv, SearchInv, LookupAbsolute
  PROVE  SearchInv'
<1>1. request \in Lookups /\ setup = "done" /\ stack # <<>>
  BY InProgress DEF LookupAbsolute, SearchInv, Stages
<1>2. /\ UNCHANGED setupVars /\ UNCHANGED stack /\ lookups' = lookups /\ dirInfo' = dirInfo
      /\ request.pc = "absolute"
  BY DEF LookupAbsolute, searchVars
<1>3. Asked(fm, fm')
  BY ManagerStep DEF Next
<1>4. Continues
  BY <1>1, <1>2, <1>3 DEF Continues, Asked, SearchInv, SearchTyped
<1>5. CacheInv'
  <2>1. CacheInv
    BY DEF SearchInv
  <2>2. request.pc # "search"
    BY <1>2
  <2>3. UNCHANGED setupVars /\ lookups' = lookups
    BY <1>2
  <2> QED BY <2>1, <2>2, <2>3, CacheSame
<1>6. IsAbsolute(request.name)
  BY <1>2 DEF SearchInv, RequestInv
<1>7. Len(stack) \in Nat /\ Len(stack) <= Len(stack)
  BY DEF SearchInv, SearchTyped
<1> DEFINE m == GetFile(fm, request.name)
           file == m.files[request.name]
<1>8. CASE request.from # 0
  <2>1. Goto("subframework", Len(stack))
    BY <1>8 DEF LookupAbsolute
  <2>2. MissedNothing
    BY <1>6, <1>8 DEF MissedNothing, AtItsPath
  <2> QED BY <1>4, <1>5, <1>7, <2>1, <2>2, LooksOn
<1>9. CASE request.from = 0 /\ file # None
  <2>1. fm' = m /\ Found(file, 0)
    BY <1>9 DEF LookupAbsolute
  <2>2. file = Disk[request.name] /\ file \in DOMAIN m.entries
    BY <1>9, GetFileFinds
  <2>3. file \in Nat
    BY <1>3, <2>1, <2>2, EntriesAreFiles DEF Asked
  <2>4. Right(file, 0)
    BY <1>6, <2>2 DEF Right
  <2>5. 0 \in 0 .. Len(searchDirs)
    BY <1>1 DEF Lookups
  <2> HIDE DEF m, file
  <2> QED BY <1>4, <1>5, <2>1, <2>2, <2>3, <2>4, <2>5, AnswerFound
<1>10. CASE request.from = 0 /\ file = None
  <2>1. Goto("subframework", Len(stack))
    BY <1>10 DEF LookupAbsolute
  <2>2. ~ CanBeFound(request.name)
    <3>1. file = IF CanBeFound(request.name) THEN Disk[request.name] ELSE None
      BY GetFileFinds
    <3> QED BY <1>10, <3>1, InodesArePositive DEF CanBeFound
  <2>3. MissedNothing
    BY <1>6, <2>2 DEF MissedNothing, AtItsPath
  <2> QED BY <1>4, <1>5, <1>7, <2>1, <2>3, LooksOn
<1> QED BY <1>8, <1>9, <1>10

LEMMA NameIsPath ==
  ASSUME request \in Lookups
  PROVE  IsPath(request.name) /\ request.curDir \in 0 .. Len(searchDirs)
<1>1. request.name \in IncludeNames /\ request.curDir \in 0 .. Len(searchDirs)
  BY DEF Lookups
<1> QED BY <1>1, LookupAssumption DEF IsPath

LEMMA LookupInIncluderDirPreserves ==
  ASSUME Sound(fm), SetupInv, SearchInv, LookupInIncluderDir
  PROVE  SearchInv'
<1> DEFINE path == PathIn(fm, IncluderDir, request.name)
           m == GetFile(fm, path)
           file == m.files[path]
<1>1. request \in Lookups /\ setup = "done" /\ stack # <<>>
  BY InProgress DEF LookupInIncluderDir, SearchInv, Stages
<1>2. /\ UNCHANGED setupVars /\ UNCHANGED stack /\ lookups' = lookups
      /\ request.pc = "includer" /\ fm' = m
  BY DEF LookupInIncluderDir, IncluderDir
<1>3. /\ file # None =>
           Found(file, request.curDir) /\ dirInfo' = [dirInfo EXCEPT ![file] = dirInfo[Top.file]]
      /\ file = None => Goto("begin", 0) /\ dirInfo' = dirInfo
  BY DEF LookupInIncluderDir, IncluderDir
<1>4. /\ ~ IsAbsolute(request.name)
      /\ request.from = 0 /\ ~ request.angled /\ request.curDir = Top.lookup
  BY <1>2 DEF SearchInv, RequestInv
<1>5. Asked(fm, fm')
  BY ManagerStep DEF Next
<1>6. Top.file \in DOMAIN fm.entries /\ Top.file \in Files
  BY <1>1, TopTyped, EntriesAreFiles DEF SearchInv
<1>7. /\ CanBeFound(path) = HasFile(IncluderDir, request.name)
      /\ HasFile(IncluderDir, request.name) => Disk[path] = FileIn(IncluderDir, request.name)
  <2>1. IncluderDir \in DOMAIN fm.dirNames
    BY <1>6 DEF IncluderDir, Sound, AgreesWithDisk
  <2> QED BY <1>1, <2>1, NameIsPath, PathInFinds
<1>8. /\ file = IF CanBeFound(path) THEN Disk[path] ELSE None
      /\ file # None => CanBeFound(path) /\ file \in DOMAIN m.entries
  BY GetFileFinds
<1>9. file # None => file \in Files /\ file \in Nat
  BY <1>2, <1>5, <1>8, EntriesAreFiles DEF Asked
<1>10. CacheInv'
  <2>1. CacheInv /\ request.pc # "search"
    BY <1>2 DEF SearchInv
  <2> QED BY <1>2, <2>1, CacheSame
<1>11. dirInfo' \in [Files -> Kinds]
  <2>1. dirInfo \in [Files -> Kinds]
    BY DEF SearchInv, SearchTyped
  <2> HIDE DEF file
  <2> QED BY <1>3, <1>6, <1>9, <2>1
<1>12. Continues
  BY <1>1, <1>2, <1>5, <1>11 DEF Continues, Asked, SearchInv, SearchTyped
<1>13. CASE file # None
  <2>1. Right(file, request.curDir)
    BY <1>4, <1>7, <1>8, <1>13 DEF Right, InIncluderDir
  <2>2. request.curDir \in 0 .. Len(searchDirs)
    BY <1>1, NameIsPath
  <2>3. file \in DOMAIN fm'.entries
    BY <1>2, <1>8, <1>13
  <2> HIDE DEF file, m, path
  <2> QED BY <1>3, <1>4, <1>9, <1>10, <1>12, <1>13, <2>1, <2>2, <2>3, AnswerFound
<1>14. CASE file = None
  <2>1. ~ CanBeFound(path)
    BY <1>8, <1>14, InodesArePositive DEF CanBeFound
  <2>2. ~ InIncluderDir
    BY <1>7, <2>1 DEF InIncluderDir
  <2> QED BY <1>3, <1>4, <1>10, <1>12, <1>14, <2>2, LooksOn
<1> QED BY <1>13, <1>14

LEMMA StartIsPlace ==
  ASSUME SetupTyped, request \in Lookups
  PROVE  SearchStart \in Places /\ Len(searchDirs) \in Nat
<1>1. /\ systemDirIdx \in 0 .. Len(searchDirs) /\ request.from \in 0 .. Len(searchDirs) + 1
      /\ Len(searchDirs) \in Nat
  BY DEF SetupTyped, Lookups
<1> QED BY <1>1 DEF SearchStart, Places

LEMMA BeginSearchPreserves ==
  ASSUME Sound(fm), SetupInv, SetupTyped, SearchInv, BeginSearch
  PROVE  SearchInv'
<1> DEFINE name == request.name
           start == SearchStart
<1>1. request \in Lookups /\ setup = "done" /\ stack # <<>>
  BY InProgress DEF BeginSearch, SearchInv, Stages
<1>2. /\ UNCHANGED setupVars /\ UNCHANGED stack /\ dirInfo' = dirInfo /\ fm' = fm
      /\ request.pc = "begin"
  BY DEF BeginSearch
<1>3. ~ IsAbsolute(name) /\ ~ InIncluderDir
  BY <1>2 DEF SearchInv, RequestInv
<1>4. start \in Places /\ Len(searchDirs) \in Nat
  BY <1>1, StartIsPlace
<1>5. \A n \in DOMAIN lookups : EntryRight(lookups[n], n) /\ lookups[n] \in [start: Places, at: Places]
  BY <1>2 DEF SearchInv, CacheInv, SearchTyped
<1>6. \A c, n : EntryRight(c, n)' <=> EntryRight(c, n)
  BY <1>2, DirsSame
<1>7. Grows(fm, fm')
  BY <1>2 DEF Grows
<1>8. CASE CachedSearch(name, start)
  <2>1. Goto("search", lookups[name].at) /\ lookups' = lookups
    BY <1>8 DEF BeginSearch
  <2>2. name \in DOMAIN lookups /\ lookups[name].start = start
    BY <1>8 DEF CachedSearch
  <2>3. CacheInv'
    BY <1>5, <1>6, <2>1 DEF CacheInv
  <2>4. Continues
    BY <1>1, <1>2, <1>5, <1>7, <2>1 DEF Continues, SearchInv, SearchTyped
  <2>5. lookups[name].at \in Places /\ start <= lookups[name].at /\ NoneBefore(start, lookups[name].at, name)
    BY <1>5, <2>2 DEF EntryRight
  <2>6. lookups[name].at \in Nat /\ lookups[name].at \in start .. Len(searchDirs) + 1
    BY <1>4, <2>5 DEF Places
  <2> QED BY <1>3, <2>1, <2>2, <2>3, <2>4, <2>5, <2>6, LooksOn
<1>9. CASE ~ CachedSearch(name, start)
  <2> DEFINE old == IF name \in DOMAIN lookups THEN lookups[name].at ELSE 1
             new == [start |-> start, at |-> old]
  <2>1. Goto("search", start) /\ lookups' = Updated(lookups, name, new)
    BY <1>9 DEF BeginSearch
  <2>2. old \in Places
    <3>1. 1 \in Places
      BY <1>4 DEF Places
    <3> QED BY <1>5, <3>1
  <2>3. new \in [start: Places, at: Places] /\ new.start = start
    BY <1>4, <2>2
  <2> HIDE DEF new, old
  <2>4. /\ DOMAIN lookups' = DOMAIN lookups \cup {name}
        /\ \A n \in DOMAIN lookups' : lookups'[n] = IF n = name THEN new ELSE lookups[n]
    <3> DEFINE up == Updated(lookups, name, new)
    <3>1. /\ DOMAIN up = DOMAIN lookups \cup {name}
          /\ \A n \in DOMAIN up : up[n] = IF n = name THEN new ELSE lookups[n]
      BY DEF Updated
    <3>2. lookups' = up
      BY <2>1
    <3> HIDE DEF up
    <3> QED BY <3>1, <3>2
  <2>5. \A n \in DOMAIN lookups' : lookups'[n] \in [start: Places, at: Places]
    BY <1>5, <2>3, <2>4
  <2>6. Continues
    BY <1>1, <1>2, <1>7, <2>5 DEF Continues, SearchInv, SearchTyped
  <2>7. start \in Nat /\ start \in start .. Len(searchDirs) + 1
    BY <1>4 DEF Places
  <2>8. request'.pc = "search" /\ request'.name = name
    BY <1>1, <2>1, <2>7, GotoIs DEF Stages
  <2>9. CacheInv'
    BY <1>5, <1>6, <2>4, <2>8 DEF CacheInv
  <2>10. NoneBefore(start, start, name)
    <3>1. start .. start - 1 = {}
      BY <2>7
    <3> QED BY <3>1 DEF NoneBefore
  <2>11. name \in DOMAIN lookups' /\ lookups'[name].start = start
    BY <2>3, <2>4
  <2> QED BY <1>3, <2>1, <2>6, <2>7, <2>9, <2>10, <2>11, LooksOn
<1> QED BY <1>8, <1>9

(* A search sets its entry of the cache to where it has come. *)
LEMMA CacheSet ==
  ASSUME SearchInv, SetupTyped, request \in Lookups, request.pc = "search", UNCHANGED setupVars,
         lookups' = [lookups EXCEPT ![request.name] = [@ EXCEPT !.at = request.at]],
         request.at <= Len(searchDirs) /\ ~ searchDirs[request.at].framework
           => NormalHas(request.at, request.name)
  PROVE  /\ CacheInv'
         /\ \A n \in DOMAIN lookups' : lookups'[n] \in [start: Places, at: Places]
<1> DEFINE name == request.name
           at == request.at
           new == [start |-> lookups[name].start, at |-> at]
<1>1. /\ name \in DOMAIN lookups /\ lookups[name].start = SearchStart
      /\ at \in SearchStart .. Len(searchDirs) + 1
      /\ NoneBefore(SearchStart, at, name)
  BY DEF SearchInv, RequestInv
<1>2. SearchStart \in Places /\ Len(searchDirs) \in Nat
  BY StartIsPlace
<1>3. /\ at \in Places /\ SearchStart <= at
  BY <1>1, <1>2 DEF Places
<1>4. \A n \in DOMAIN lookups :
        /\ lookups[n] \in [start: Places, at: Places]
        /\ EntryRight(lookups[n], n) \/ n = name
  BY DEF SearchInv, CacheInv, SearchTyped
<1>5. \A c, n : EntryRight(c, n)' <=> EntryRight(c, n)
  BY DirsSame
<1>6. [lookups[name] EXCEPT !.at = at] = new
  <2>1. lookups[name] \in [start: Places, at: Places]
    BY <1>1, <1>4
  <2> QED BY <2>1
<1>7. new \in [start: Places, at: Places] /\ new.start = SearchStart /\ new.at = at
  BY <1>1, <1>2, <1>3
<1>8. EntryRight(new, name)
  BY <1>1, <1>3, <1>7 DEF EntryRight
<1> HIDE DEF new
<1>9. /\ DOMAIN lookups' = DOMAIN lookups
      /\ \A n \in DOMAIN lookups : lookups'[n] = IF n = name THEN new ELSE lookups[n]
  BY <1>1, <1>6
<1> HIDE DEF name, at
<1>10. \A n \in DOMAIN lookups' : lookups'[n] \in [start: Places, at: Places] /\ EntryRight(lookups'[n], n)
  BY <1>4, <1>7, <1>8, <1>9
<1>11. CacheInv'
  BY <1>5, <1>10 DEF CacheInv
<1> QED BY <1>10, <1>11

(* A directory, or all of them, that the search is at. *)
LEMMA SearchingIs ==
  ASSUME SetupInv, SetupTyped, SearchInv, request.pc = "search"
  PROVE  /\ request \in Lookups /\ setup = "done" /\ stack # <<>>
         /\ ~ IsAbsolute(request.name) /\ ~ InIncluderDir
         /\ request.name \in DOMAIN lookups /\ lookups[request.name].start = SearchStart
         /\ request.at \in SearchStart .. Len(searchDirs) + 1
         /\ NoneBefore(SearchStart, request.at, request.name)
         /\ SearchStart \in Nat \ {0} /\ Len(searchDirs) \in Nat
<1>1. request \in Lookups /\ setup = "done" /\ stack # <<>>
  BY InProgress DEF SearchInv, Stages
<1>2. SearchStart \in Places /\ Len(searchDirs) \in Nat
  BY <1>1, StartIsPlace
<1>3. SearchStart \in Nat \ {0}
  BY <1>2 DEF Places
<1> QED BY <1>1, <1>2, <1>3 DEF SearchInv, RequestInv

(* The file is found, in a directory of frameworks or not. *)
LEMMA FoundHerePreserves ==
  ASSUME Sound(fm), Sound(fm'), Grows(fm, fm'), SetupInv, SetupTyped, SearchInv, Searching,
         UNCHANGED setupVars, UNCHANGED stack,
         NEW file \in DOMAIN fm'.entries, FoundHere(file),
         searchDirs[request.at].framework \/
           /\ NormalHas(request.at, request.name)
           /\ file = FileIn(searchDirs[request.at].dir, request.name)
  PROVE  SearchInv'
<1>1. request.pc = "search" /\ request.at <= Len(searchDirs)
  BY DEF Searching
<1>2. /\ request \in Lookups /\ setup = "done" /\ stack # <<>>
      /\ ~ IsAbsolute(request.name) /\ ~ InIncluderDir
      /\ request.at \in SearchStart .. Len(searchDirs) + 1
      /\ NoneBefore(SearchStart, request.at, request.name)
      /\ SearchStart \in Nat \ {0} /\ Len(searchDirs) \in Nat
  BY <1>1, SearchingIs
<1>3. /\ request.at \in SearchStart .. Len(searchDirs) /\ request.at \in 0 .. Len(searchDirs)
      /\ request.at \in 1 .. Len(searchDirs) /\ request.at # 0
  BY <1>1, <1>2
<1>4. file \in Files /\ file \in Nat
  BY EntriesAreFiles
<1>5. searchDirs[request.at].kind \in Kinds
  <2>1. searchDirs \in Seq(Known)
    BY DEF SetupTyped
  <2>2. searchDirs[request.at] \in Known
    BY <1>3, <2>1
  <2> QED BY <2>2 DEF Known, Entries
<1>6. /\ Found(file, request.at)
      /\ dirInfo' = [dirInfo EXCEPT ![file] = searchDirs[request.at].kind]
      /\ lookups' = [lookups EXCEPT ![request.name] = [@ EXCEPT !.at = request.at]]
  BY DEF FoundHere
<1>7. dirInfo' \in [Files -> Kinds] /\ dirInfo'[file] = searchDirs[request.at].kind
  <2>1. dirInfo \in [Files -> Kinds]
    BY DEF SearchInv, SearchTyped
  <2> QED BY <1>4, <1>5, <1>6, <2>1
<1>8. CacheInv' /\ \A n \in DOMAIN lookups' : lookups'[n] \in [start: Places, at: Places]
  BY <1>1, <1>2, <1>6, CacheSet
<1>9. Continues
  BY <1>2, <1>7, <1>8 DEF Continues
<1>10. Right(file, request.at)
  BY <1>2, <1>3 DEF Right
<1>11. dirInfo'[file] >= searchDirs[request.at].kind
  BY <1>5, <1>7 DEF Kinds, User, ExternC
<1> QED BY <1>3, <1>4, <1>6, <1>8, <1>9, <1>10, <1>11, AnswerFound

(* The search goes on to the next directory. *)
LEMMA NotFoundHerePreserves ==
  ASSUME Sound(fm), Grows(fm, fm'), SetupInv, SetupTyped, SearchInv, Searching,
         UNCHANGED setupVars, UNCHANGED stack, NotFoundHere,
         ~ NormalHas(request.at, request.name)
  PROVE  SearchInv'
<1>1. request.pc = "search" /\ request.at <= Len(searchDirs)
  BY DEF Searching
<1>2. /\ request \in Lookups /\ setup = "done" /\ stack # <<>>
      /\ ~ IsAbsolute(request.name) /\ ~ InIncluderDir
      /\ request.name \in DOMAIN lookups /\ lookups[request.name].start = SearchStart
      /\ request.at \in SearchStart .. Len(searchDirs) + 1
      /\ NoneBefore(SearchStart, request.at, request.name)
      /\ SearchStart \in Nat \ {0} /\ Len(searchDirs) \in Nat
  BY <1>1, SearchingIs
<1>3. PICK next \in Nat : next = request.at + 1 /\ next \in SearchStart .. Len(searchDirs) + 1
  BY <1>1, <1>2
<1>4. Goto("search", next) /\ dirInfo' = dirInfo /\ lookups' = lookups
  BY <1>3 DEF NotFoundHere
<1>5. NoneBefore(SearchStart, next, request.name)
  <2>1. ASSUME NEW j \in SearchStart .. next - 1
        PROVE  ~ NormalHas(j, request.name)
    <3>1. j \in SearchStart .. request.at - 1 \/ j = request.at
      BY <1>2, <1>3
    <3> QED BY <1>2, <3>1 DEF NoneBefore
  <2> QED BY <2>1 DEF NoneBefore
<1>6. Continues
  BY <1>2, <1>4 DEF Continues, SearchInv, SearchTyped
<1>7. CacheInv'
  <2>1. request'.pc = "search" /\ request'.name = request.name
    BY <1>2, <1>4, GotoIs DEF Stages
  <2>2. CacheInv
    BY DEF SearchInv
  <2> QED BY <1>4, <2>1, <2>2, CacheSame
<1> QED BY <1>2, <1>3, <1>4, <1>5, <1>6, <1>7, LooksOn

LEMMA LookupInDirectoryPreserves ==
  ASSUME Sound(fm), SetupInv, SetupTyped, SearchInv, LookupInDirectory
  PROVE  SearchInv'
<1> DEFINE dir == searchDirs[request.at].dir
           path == PathIn(fm, dir, request.name)
           m == GetFile(fm, path)
           file == m.files[path]
<1>1. /\ Searching /\ ~ searchDirs[request.at].framework /\ fm' = m
      /\ IF file # None THEN FoundHere(file) ELSE NotFoundHere
      /\ UNCHANGED setupVars /\ UNCHANGED stack
  BY DEF LookupInDirectory
<1>2. request.pc = "search" /\ request.at <= Len(searchDirs)
  BY <1>1 DEF Searching
<1>3. /\ request \in Lookups
      /\ request.at \in SearchStart .. Len(searchDirs) + 1
      /\ SearchStart \in Nat \ {0} /\ Len(searchDirs) \in Nat
  BY <1>2, SearchingIs
<1>4. Sound(fm') /\ Grows(fm, fm')
  BY ManagerStep DEF Next, Asked
<1>5. dir \in DOMAIN fm.dirNames
  <2>1. searchDirs \in Seq(Known)
    BY DEF SetupTyped
  <2>2. request.at \in 1 .. Len(searchDirs)
    BY <1>2, <1>3
  <2>3. searchDirs[request.at] \in Known
    BY <2>1, <2>2
  <2> QED BY <2>3 DEF Known, Entries
<1>6. /\ CanBeFound(path) = HasFile(dir, request.name)
      /\ HasFile(dir, request.name) => Disk[path] = FileIn(dir, request.name)
  BY <1>3, <1>5, NameIsPath, PathInFinds
<1>7. /\ file = IF CanBeFound(path) THEN Disk[path] ELSE None
      /\ file # None => CanBeFound(path) /\ file \in DOMAIN m.entries
  BY GetFileFinds
<1>8. CASE file # None
  <2>1. NormalHas(request.at, request.name) /\ file = FileIn(dir, request.name)
    BY <1>1, <1>6, <1>7, <1>8 DEF NormalHas
  <2>2. file \in DOMAIN fm'.entries /\ FoundHere(file)
    BY <1>1, <1>7, <1>8
  <2> HIDE DEF file, m, path
  <2> QED BY <1>1, <1>4, <2>1, <2>2, FoundHerePreserves
<1>9. CASE file = None
  <2>1. ~ CanBeFound(path)
    BY <1>7, <1>9, InodesArePositive DEF CanBeFound
  <2>2. ~ NormalHas(request.at, request.name)
    BY <1>6, <2>1 DEF NormalHas
  <2>3. NotFoundHere
    BY <1>1, <1>9
  <2> QED BY <1>1, <1>4, <2>2, <2>3, NotFoundHerePreserves
<1> QED BY <1>8, <1>9

LEMMA FilesKept ==
  ASSUME NEW m, Sound(m), NEW p
  PROVE  DOMAIN m.files \subseteq DOMAIN GetFile(m, p).files
<1> DEFINE d == GetDirectory(m, DirOf(p))
           dir == d.dirs[DirOf(p)]
<1>1. Sound(d) /\ d.files = m.files
  BY GetDirectorySound
<1>2. d = [dirs |-> d.dirs, files |-> d.files, dirNames |-> d.dirNames, entries |-> d.entries]
  BY <1>1 DEF Sound, IsManager
<1>3. CASE p \in DOMAIN m.files
  BY <1>3 DEF GetFile
<1>4. CASE p \notin DOMAIN m.files
  <2>1. GetFile(m, p) =
          IF dir # None /\ IsFile(p)
          THEN [d EXCEPT !.files = Entered(@, p, Disk[p]),
                         !.entries = Entered(@, Disk[p], [name |-> p, dir |-> dir])]
          ELSE [d EXCEPT !.files = Entered(@, p, None)]
    BY <1>4 DEF GetFile
  <2>2. \/ GetFile(m, p).files = Entered(d.files, p, Disk[p])
        \/ GetFile(m, p).files = Entered(d.files, p, None)
    <3> HIDE DEF d, dir
    <3> QED BY <1>2, <2>1
  <2>3. /\ DOMAIN Entered(d.files, p, Disk[p]) = DOMAIN d.files \cup {p}
        /\ DOMAIN Entered(d.files, p, None) = DOMAIN d.files \cup {p}
    BY EnteredIs
  <2> QED BY <1>1, <2>2, <2>3
<1> QED BY <1>3, <1>4

(* What is found among the headers of a framework is a file. *)
LEMMA HeaderInFinds ==
  ASSUME NEW m, Sound(m), NEW base, NEW name
  PROVE  LET n == GetHeader(m, base, name)
             file == HeaderIn(n, base, name)
         IN file # None => file \in DOMAIN n.entries
<1> DEFINE h == HeaderPaths(base, name)
           once == GetFile(m, h[1])
           twice == GetFile(once, h[2])
           n == GetHeader(m, base, name)
<1>1. n = IF once.files[h[1]] # None THEN once ELSE twice
  BY DEF GetHeader
<1>2. HeaderIn(n, base, name) = IF n.files[h[1]] # None THEN n.files[h[1]] ELSE n.files[h[2]]
  BY DEF HeaderIn
<1>3. Sound(once) /\ h[1] \in DOMAIN once.files
  BY GetFileSound
<1>4. /\ Sound(twice) /\ h[2] \in DOMAIN twice.files
      /\ DOMAIN once.files \subseteq DOMAIN twice.files
  BY <1>3, GetFileSound, FilesKept
<1> HIDE DEF h, n, once, twice
<1>5. CASE once.files[h[1]] # None
  BY <1>1, <1>2, <1>3, <1>5 DEF Sound, Connected, n
<1>6. CASE once.files[h[1]] = None
  BY <1>1, <1>2, <1>3, <1>4, <1>6 DEF Sound, Connected, n
<1> QED BY <1>5, <1>6

LEMMA LookupInFrameworksPreserves ==
  ASSUME Sound(fm), SetupInv, SetupTyped, SearchInv, LookupInFrameworks
  PROVE  SearchInv'
<1> DEFINE base == PathIn(fm, searchDirs[request.at].dir, <<Framework(request.name)>>)
           m == GetHeader(fm, base, request.name)
           file == HeaderIn(m, base, request.name)
<1>1. /\ Searching /\ searchDirs[request.at].framework
      /\ UNCHANGED setupVars /\ UNCHANGED stack
  BY DEF LookupInFrameworks
<1>2. NotFoundHere \/ (fm' = m /\ file # None /\ FoundHere(file))
  BY DEF LookupInFrameworks
<1>3. Sound(fm') /\ Grows(fm, fm')
  BY ManagerStep DEF Next, Asked
<1>4. file # None => file \in DOMAIN m.entries
  BY HeaderInFinds
<1> HIDE DEF file, m
<1>5. ~ NormalHas(request.at, request.name)
  BY <1>1 DEF NormalHas
<1>6. CASE NotFoundHere
  BY <1>1, <1>3, <1>5, <1>6, NotFoundHerePreserves
<1>7. CASE fm' = m /\ file # None /\ FoundHere(file)
  BY <1>1, <1>3, <1>4, <1>7, FoundHerePreserves
<1> QED BY <1>2, <1>6, <1>7

LEMMA SearchFailsPreserves ==
  ASSUME Sound(fm), SetupInv, SetupTyped, SearchInv, SearchFails
  PROVE  SearchInv'
<1>1. /\ request.pc = "search" /\ request.at = Len(searchDirs) + 1
      /\ Goto("subframework", Len(stack))
      /\ lookups' = [lookups EXCEPT ![request.name] = [@ EXCEPT !.at = request.at]]
      /\ UNCHANGED setupVars /\ UNCHANGED stack /\ dirInfo' = dirInfo /\ fm' = fm
  BY DEF SearchFails
<1>2. /\ request \in Lookups /\ setup = "done" /\ stack # <<>>
      /\ ~ IsAbsolute(request.name) /\ ~ InIncluderDir
      /\ NoneBefore(SearchStart, request.at, request.name)
      /\ Len(searchDirs) \in Nat
  BY <1>1, SearchingIs
<1>3. ~ (request.at <= Len(searchDirs))
  BY <1>1, <1>2
<1>4. CacheInv' /\ \A n \in DOMAIN lookups' : lookups'[n] \in [start: Places, at: Places]
  BY <1>1, <1>2, <1>3, CacheSet
<1>5. Grows(fm, fm')
  BY <1>1 DEF Grows
<1>6. Continues
  BY <1>1, <1>2, <1>4, <1>5 DEF Continues, SearchInv, SearchTyped
<1>7. MissedNothing
  BY <1>1, <1>2 DEF MissedNothing
<1>8. Len(stack) \in Nat /\ Len(stack) <= Len(stack)
  BY DEF SearchInv, SearchTyped
<1> QED BY <1>1, <1>4, <1>6, <1>7, <1>8, LooksOn

(* No search has missed anything: whatever a framework has is right. *)
LEMMA MissedIsRight ==
  ASSUME MissedNothing
  PROVE  \A f : Right(f, 0)
BY DEF MissedNothing, Right

(* A file of the include stack is asked about, and then the next one.      *)
LEMMA SubframeworkIs ==
  ASSUME Sound(fm), SetupInv, SearchInv, request.pc = "subframework", request.at > 0
  PROVE  /\ request \in Lookups /\ stack # <<>> /\ MissedNothing
         /\ request.at - 1 \in Nat /\ request.at - 1 <= Len(stack)
         /\ stack[request.at].file \in Files
<1>1. request \in Lookups /\ stack # <<>>
  BY InProgress DEF SearchInv, Stages
<1>2. MissedNothing /\ request.at <= Len(stack)
  BY DEF SearchInv, RequestInv
<1>3. request.at \in Nat
  BY <1>1 DEF Lookups
<1>4. stack \in Seq(Frames) /\ Len(stack) \in Nat
  BY DEF SearchInv, SearchTyped
<1>5. request.at \in 1 .. Len(stack) /\ request.at - 1 \in Nat /\ request.at - 1 <= Len(stack)
  BY <1>2, <1>3, <1>4
<1>6. stack[request.at] \in Frames
  BY <1>4, <1>5
<1>7. stack[request.at].file \in Files
  BY <1>6, EntriesAreFiles DEF Frames
<1> QED BY <1>1, <1>2, <1>5, <1>7

LEMMA NotAFrameworkPreserves ==
  ASSUME Sound(fm), SetupInv, SearchInv, NotAFramework
  PROVE  SearchInv'
<1>1. /\ request.pc = "subframework" /\ request.at > 0
      /\ Goto("subframework", request.at - 1)
      /\ UNCHANGED setupVars /\ UNCHANGED stack /\ fm' = fm
      /\ dirInfo' = dirInfo /\ lookups' = lookups
  BY DEF NotAFramework, searchVars
<1>2. /\ request \in Lookups /\ stack # <<>> /\ MissedNothing
      /\ request.at - 1 \in Nat /\ request.at - 1 <= Len(stack)
  BY <1>1, SubframeworkIs
<1>3. Grows(fm, fm')
  BY <1>1 DEF Grows
<1>4. Continues
  BY <1>1, <1>2, <1>3 DEF Continues, SearchInv, SearchTyped
<1>5. CacheInv'
  <2>1. CacheInv /\ request.pc # "search"
    BY <1>1 DEF SearchInv
  <2> QED BY <1>1, <2>1, CacheSame
<1> QED BY <1>1, <1>2, <1>4, <1>5, LooksOn

LEMMA LookupSubframeworkPreserves ==
  ASSUME Sound(fm), SetupInv, SearchInv, LookupSubframework
  PROVE  SearchInv'
<1> DEFINE context == stack[request.at].file
           ends == FrameworkEnds(context)
           first == CHOOSE k \in ends : \A j \in ends : k <= j
           base == SubSeq(fm.entries[context].name, 1, first)
                     \o <<"Frameworks", Framework(request.name)>>
           n == Head(request.name)
           known == FrameworkHome(n) # None
           d == IF known THEN fm ELSE GetDirectory(fm, base)
           m == GetHeader(d, base, request.name)
           file == HeaderIn(m, base, request.name)
<1>1. /\ request.pc = "subframework" /\ request.at > 0
      /\ UNCHANGED setupVars /\ UNCHANGED stack /\ lookups' = lookups
  BY DEF LookupSubframework
<1>2. \/ Goto("subframework", request.at - 1) /\ dirInfo' = dirInfo
      \/ /\ fm' = m /\ file # None /\ Found(file, 0)
         /\ dirInfo' = [dirInfo EXCEPT ![file] = dirInfo[context]]
  BY DEF LookupSubframework
<1>3. Sound(d)
  BY GetDirectorySound
<1>4. file # None => file \in DOMAIN m.entries
  BY <1>3, HeaderInFinds
<1>5. Sound(fm') /\ Grows(fm, fm')
  BY ManagerStep DEF Next, Asked
<1>6. /\ request \in Lookups /\ stack # <<>> /\ MissedNothing
      /\ request.at - 1 \in Nat /\ request.at - 1 <= Len(stack)
      /\ context \in Files
  BY <1>1, SubframeworkIs
<1> HIDE DEF file, m, d, known, n, base, first, ends, context
<1>7. CacheInv'
  <2>1. CacheInv /\ request.pc # "search"
    BY <1>1 DEF SearchInv
  <2> QED BY <1>1, <2>1, CacheSame
<1>8. dirInfo \in [Files -> Kinds]
  BY DEF SearchInv, SearchTyped
<1>9. CASE Goto("subframework", request.at - 1) /\ dirInfo' = dirInfo
  <2>1. Continues
    BY <1>1, <1>5, <1>6, <1>8, <1>9 DEF Continues, SearchInv, SearchTyped
  <2> QED BY <1>6, <1>7, <1>9, <2>1, LooksOn
<1>10. CASE /\ fm' = m /\ file # None /\ Found(file, 0)
            /\ dirInfo' = [dirInfo EXCEPT ![file] = dirInfo[context]]
  <2>1. file \in DOMAIN fm'.entries /\ file \in Files /\ file \in Nat
    BY <1>4, <1>5, <1>10, EntriesAreFiles
  <2>2. dirInfo' \in [Files -> Kinds]
    BY <1>6, <1>8, <1>10, <2>1
  <2>3. Continues
    BY <1>1, <1>5, <1>6, <2>2 DEF Continues, SearchInv, SearchTyped
  <2>4. Right(file, 0) /\ 0 \in 0 .. Len(searchDirs)
    BY <1>6, MissedIsRight DEF Lookups
  <2> QED BY <1>7, <1>10, <2>1, <2>3, <2>4, AnswerFound
<1> QED BY <1>2, <1>9, <1>10

(* Between lookups. *)
LEMMA AtRest ==
  ASSUME SearchInv, request.pc # "search", request' = NoRequest,
         UNCHANGED setupVars, UNCHANGED fm, UNCHANGED searchVars,
         stack' \in Seq(Frames), stack' # <<>>, KindCoversDirectory'
  PROVE  SearchInv'
<1>1. Frames' = Frames /\ Files' = Files /\ Places' = Places
  BY DEF Frames, Files, Inodes, Places, setupVars
<1>2. lookups' = lookups /\ dirInfo' = dirInfo
  BY DEF searchVars
<1>3. SearchTyped'
  BY <1>1, <1>2 DEF SearchInv, SearchTyped
<1>4. CacheInv'
  BY <1>2, CacheSame DEF SearchInv
<1>5. RequestInv'
  BY DEF RequestInv, NoRequest
<1> QED BY <1>3, <1>4, <1>5 DEF SearchInv

LEMMA RequestEnds ==
  ASSUME SetupInv, SearchInv, SkipFile \/ FileNotFound
  PROVE  SearchInv'
<1>1. /\ request.pc \in {"found", "subframework"} /\ request' = NoRequest
      /\ UNCHANGED setupVars /\ UNCHANGED fm /\ UNCHANGED searchVars /\ stack' = stack
  BY DEF SkipFile, FileNotFound
<1>2. stack # <<>>
  BY <1>1, InProgress DEF SearchInv, Stages
<1>3. stack' \in Seq(Frames) /\ stack' # <<>> /\ request.pc # "search"
  BY <1>1, <1>2 DEF SearchInv, SearchTyped
<1>4. KindCoversDirectory'
  BY <1>1, StillCovers DEF SearchInv
<1> QED BY <1>1, <1>3, <1>4, AtRest

LEMMA AtLeast ==
  ASSUME NEW a \in Kinds, NEW b \in Kinds, NEW c \in Kinds, a >= b, b >= c
  PROVE  a >= c
BY DEF Kinds, User, ExternC

LEMMA EnterFilePreserves ==
  ASSUME Sound(fm), SetupInv, SetupTyped, SearchInv, EnterFile
  PROVE  SearchInv'
<1> DEFINE kind == FileCharacter(request.file)
           frame == [file |-> request.file, lookup |-> request.curDir, kind |-> kind]
<1>1. /\ request.pc = "found" /\ request' = NoRequest /\ stack' = Append(stack, frame)
      /\ UNCHANGED setupVars /\ UNCHANGED fm /\ UNCHANGED searchVars
  BY DEF EnterFile
<1>2. request \in Lookups /\ stack # <<>>
  BY <1>1, InProgress DEF SearchInv, Stages
<1>3. /\ request.file \in DOMAIN fm.entries /\ request.file \in Files
      /\ KindRight(request.file, request.curDir)
  BY <1>1, EntriesAreFiles DEF SearchInv, RequestInv
<1>4. request.curDir \in 0 .. Len(searchDirs)
  BY <1>2, NameIsPath
<1>5. dirInfo[request.file] \in Kinds
  BY <1>3 DEF SearchInv, SearchTyped
<1>6. /\ Top = stack[Len(stack)] /\ Len(stack) \in DOMAIN stack /\ Top.kind \in Kinds
  BY <1>2, TopTyped DEF SearchInv
<1>7. kind \in Kinds /\ kind >= dirInfo[request.file] /\ kind >= Top.kind
  BY <1>5, <1>6 DEF FileCharacter, Larger, Kinds, User, ExternC
<1>8. frame \in Frames
  BY <1>3, <1>4, <1>7 DEF Frames
<1>9. stack \in Seq(Frames)
  BY DEF SearchInv, SearchTyped
<1>10. request.curDir # 0 => kind >= searchDirs[request.curDir].kind
  <2>1. request.curDir # 0 => searchDirs[request.curDir].kind \in Kinds
    <3>1. searchDirs \in Seq(Known)
      BY DEF SetupTyped
    <3>2. request.curDir # 0 => searchDirs[request.curDir] \in Known
      BY <1>4, <3>1
    <3> QED BY <3>2 DEF Known, Entries
  <2>2. CASE request.curDir = Top.lookup /\ request.curDir # 0
    <3>1. Top.kind >= searchDirs[request.curDir].kind
      BY <1>6, <2>2 DEF SearchInv, KindCoversDirectory
    <3> QED BY <1>6, <1>7, <2>1, <2>2, <3>1, AtLeast
  <2>3. CASE request.curDir # Top.lookup /\ request.curDir # 0
    <3>1. dirInfo[request.file] >= searchDirs[request.curDir].kind
      BY <1>3, <2>3 DEF KindRight
    <3> QED BY <1>5, <1>7, <2>1, <2>3, <3>1, AtLeast
  <2> QED BY <2>2, <2>3
<1>11. frame.lookup = request.curDir /\ frame.kind = kind
  OBVIOUS
<1> HIDE DEF frame, kind
<1>12. /\ stack' \in Seq(Frames) /\ stack' # <<>>
       /\ \A k \in DOMAIN stack' : (k \in DOMAIN stack /\ stack'[k] = stack[k]) \/ stack'[k] = frame
  BY <1>1, <1>8, <1>9
<1>13. KindCoversDirectory'
  <2>1. searchDirs' = searchDirs
    BY <1>1 DEF setupVars
  <2>2. KindCoversDirectory
    BY DEF SearchInv
  <2> QED BY <1>10, <1>11, <1>12, <2>1, <2>2 DEF KindCoversDirectory
<1> QED BY <1>1, <1>12, <1>13, AtRest

LEMMA HandleEndOfFilePreserves ==
  ASSUME SearchInv, HandleEndOfFile
  PROVE  SearchInv'
<1>1. /\ request = NoRequest /\ request' = NoRequest /\ Len(stack) > 1 /\ stack' = Front(stack)
      /\ UNCHANGED setupVars /\ UNCHANGED fm /\ UNCHANGED searchVars
  BY DEF HandleEndOfFile
<1>2. stack \in Seq(Frames) /\ stack # <<>>
  BY <1>1 DEF SearchInv, SearchTyped
<1>3. PICK n \in Nat : n = Len(stack) - 1 /\ n > 0
  BY <1>1, <1>2
<1>4. /\ stack' \in Seq(Frames) /\ Len(stack') = n /\ \A i \in 1 .. n : stack'[i] = stack[i]
  BY <1>1, <1>2, <1>3, FrontLast
<1>5. /\ DOMAIN stack' = 1 .. n /\ stack' # <<>>
      /\ \A i \in 1 .. n : i \in DOMAIN stack
  BY <1>2, <1>3, <1>4
<1>6. searchDirs' = searchDirs
  BY <1>1 DEF setupVars
<1>7. KindCoversDirectory'
  BY <1>4, <1>5, <1>6 DEF SearchInv, KindCoversDirectory
<1>8. request.pc # "search"
  BY <1>1 DEF NoRequest
<1> QED BY <1>1, <1>4, <1>5, <1>7, <1>8, AtRest

(* While the search list is made there are no lookups. *)
LEMMA SetupSearches ==
  ASSUME Sound(fm), SetupTyped, SetupInv, SearchInv,
         AddPath \/ Realize \/ RemoveDuplicates \/ RealizeQuoted \/ SetSearchPaths
  PROVE  SearchInv'
<1>1. /\ setup # "done" /\ request' = request /\ lookups' = lookups /\ dirInfo' = dirInfo
  BY DEF AddPath, Realize, RemoveDuplicates, RealizeQuoted, SetSearchPaths, SetupInv, searchVars
<1>2. stack = <<>> /\ request' = NoRequest /\ lookups' = <<>>
  BY <1>1 DEF SetupInv
<1>3. Files' = Files
  BY DEF Files, Inodes
<1>4. dirInfo' \in [Files' -> Kinds]
  BY <1>1, <1>3 DEF SearchInv, SearchTyped
<1>5. CacheInv' /\ RequestInv'
  BY <1>2 DEF CacheInv, RequestInv, NoRequest
<1>6. /\ (setup' = "done" => stack' # <<>>) /\ stack' \in Seq(Frames')
      /\ \A k \in DOMAIN stack' : stack'[k].lookup = 0
  <2>1. CASE SetSearchPaths
    <3> DEFINE m == GetFile(fm, MainFile)
               frame == [file |-> Disk[MainFile], lookup |-> 0, kind |-> User]
    <3>1. fm' = m /\ stack' = <<frame>>
      BY <2>1 DEF SetSearchPaths
    <3>2. Disk[MainFile] \in DOMAIN m.entries
      <4>1. CanBeFound(MainFile)
        BY LookupAssumption
      <4> QED BY <4>1, GetFileFinds, InodesArePositive DEF CanBeFound
    <3>3. Len(searchDirs') \in Nat
      <4>1. SetupTyped'
        BY <2>1, SetSearchPathsSetup
      <4> QED BY <4>1 DEF SetupTyped
    <3>4. frame \in Frames'
      BY <3>1, <3>2, <3>3 DEF Frames, Kinds, User, ExternC
    <3>5. frame.lookup = 0
      OBVIOUS
    <3> HIDE DEF frame, m
    <3> QED BY <3>1, <3>4, <3>5
  <2>2. CASE ~ SetSearchPaths
    <3>1. stack' = stack /\ setup' # "done"
      BY <1>1, <2>2 DEF AddPath, Realize, RemoveDuplicates, RealizeQuoted
    <3> QED BY <1>2, <3>1
  <2> QED BY <2>1, <2>2
<1>7. KindCoversDirectory'
  BY <1>6 DEF KindCoversDirectory
<1> QED BY <1>2, <1>4, <1>5, <1>6, <1>7 DEF SearchInv, SearchTyped

LEMMA NothingHappens ==
  ASSUME Sound(fm), SetupInv, SearchInv, UNCHANGED vars
  PROVE  SearchInv'
<1>1. /\ UNCHANGED setupVars /\ UNCHANGED stack /\ fm' = fm /\ request' = request
      /\ dirInfo' = dirInfo /\ lookups' = lookups
  BY DEF vars, searchVars
<1>2. Grows(fm, fm')
  BY <1>1 DEF Grows
<1>3. SearchTyped'
  BY <1>1, <1>2, StillTyped DEF SearchInv, SearchTyped
<1>4. \A c, n : EntryRight(c, n)' <=> EntryRight(c, n)
  BY <1>1, DirsSame
<1>5. CacheInv'
  BY <1>1, <1>4 DEF SearchInv, CacheInv
<1>6. RequestInv'
  <2>1. CASE request = NoRequest
    BY <1>1, <2>1 DEF RequestInv, NoRequest
  <2>2. CASE request # NoRequest
    <3>1. stack # <<>>
      BY <2>2 DEF SetupInv, SearchInv, SearchTyped
    <3>2. GoesOn
      BY <1>1 DEF GoesOn
    <3>3. /\ Top' = Top /\ SearchStart' = SearchStart
          /\ (InIncluderDir' <=> InIncluderDir) /\ (MissedNothing' <=> MissedNothing)
          /\ \A f, d : Right(f, d)' <=> Right(f, d)
      BY <1>2, <3>1, <3>2, SameSearch DEF SearchInv
    <3>4. \A a, b, n : NoneBefore(a, b, n)' <=> NoneBefore(a, b, n)
      BY <1>1, DirsSame
    <3>5. searchDirs' = searchDirs
      BY <1>1 DEF setupVars
    <3>6. KindRight(request.file, request.curDir)' <=> KindRight(request.file, request.curDir)
      BY <1>1, <3>3, <3>5 DEF KindRight
    <3>7. Right(request.file, request.curDir)' <=> Right(request.file, request.curDir)
      BY <1>1, <3>3
    <3> QED BY <1>1, <3>3, <3>4, <3>5, <3>6, <3>7 DEF SearchInv, RequestInv
  <2> QED BY <2>1, <2>2
<1> QED BY <1>1, <1>3, <1>5, <1>6, StillCovers DEF SearchInv

LEMMA IncludePreserves ==
  ASSUME Sound(fm), SetupInv, SetupTyped, SearchInv,
         NEW name \in IncludeNames, NEW angled \in BOOLEAN,
         HandleIncludeDirective(name, angled) \/ HandleIncludeNextDirective(name, angled)
  PROVE  SearchInv'
<1>1. CanInclude /\ stack # <<>>
  BY DEF HandleIncludeDirective, HandleIncludeNextDirective, CanInclude
<1>2. Top.lookup \in 0 .. Len(searchDirs) /\ Len(searchDirs) \in Nat
  BY <1>1, TopTyped DEF SearchInv, SetupTyped
<1>3. 0 \in 0 .. Len(searchDirs) + 1 /\ NextLookup(stack) \in 0 .. Len(searchDirs) + 1
  BY <1>2 DEF NextLookup, Top
<1>4. Begin(name, angled, 0) \/ Begin(name, angled, NextLookup(stack))
  BY DEF HandleIncludeDirective, HandleIncludeNextDirective
<1> QED BY <1>1, <1>3, <1>4, BeginPreserves

LEMMA SearchStepPreserves ==
  ASSUME Sound(fm), SetupInv, SetupTyped, SearchInv, [Next]_vars
  PROVE  SearchInv'
<1>1. CASE SearchStep
  BY <1>1, IncludePreserves, LookupAbsolutePreserves, LookupInIncluderDirPreserves,
     BeginSearchPreserves, LookupInDirectoryPreserves, LookupInFrameworksPreserves,
     SearchFailsPreserves, NotAFrameworkPreserves, LookupSubframeworkPreserves,
     RequestEnds, EnterFilePreserves, HandleEndOfFilePreserves
  DEF SearchStep
<1>2. CASE UNCHANGED vars
  BY <1>2, NothingHappens
<1> QED BY <1>1, <1>2, NextSplits, SetupSearches

LEMMA SearchInit ==
  ASSUME Init
  PROVE  SearchInv
<1>1. dirInfo \in [Files -> Kinds]
  BY DEF Init, Files, Kinds, User, ExternC
<1>2. stack \in Seq(Frames) /\ DOMAIN stack = {} /\ DOMAIN lookups = {}
  BY DEF Init
<1>3. SearchTyped
  BY <1>1, <1>2 DEF Init, SearchTyped
<1>4. RequestInv
  BY DEF Init, RequestInv, NoRequest
<1> QED BY <1>2, <1>3, <1>4 DEF SearchInv, CacheInv, KindCoversDirectory

IInv == Sound(fm) /\ SetupTyped /\ SetupInv /\ SearchInv

LEMMA Inductive == Spec => []IInv
<1>1. Init => IInv
  BY NewFileManagerSound, SetupInit, SearchInit DEF Init, IInv
<1>2. IInv /\ [Next]_vars => IInv'
  BY ManagerStep, SetupStep, SearchStepPreserves DEF IInv, Asked
<1> QED BY <1>1, <1>2, PTL DEF Spec

(* LookupFile: whatever was looked up before, a name leads to the file a   *)
(* search of all the directories leads to, and #include_next will go on    *)
(* from there; a search that fails has missed none; and the file found is  *)
(* entered with the kind of its directory, or a stricter one.              *)
THEOREM AnswerCorrect == Spec => []AnswerIsRight
<1>1. IInv => AnswerIsRight
  BY SearchImplies DEF IInv
<1> QED BY <1>1, Inductive, PTL

(* LookupFileCache: between searches an entry is the result of a search    *)
(* from its start, however often the start has changed.                    *)
THEOREM LookupCacheCorrect == Spec => []LookupCacheIsRight
<1>1. IInv => LookupCacheIsRight
  BY SearchImplies DEF IInv
<1> QED BY <1>1, Inductive, PTL
=============================================================================
