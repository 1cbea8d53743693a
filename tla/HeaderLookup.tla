---------------------------- MODULE HeaderLookup ----------------------------
(***************************************************************************)
(* How an #include finds its file: the search list InitHeaderSearch makes  *)
(* of the requested paths, the search of HeaderSearch with its cache of    *)
(* earlier searches, frameworks and subframeworks, and the file it is      *)
(* entered as: its kind, and the place where an #include_next goes on.     *)
(* A name, like a path, is a sequence of components.                       *)
(***************************************************************************)
EXTENDS FileCache

CONSTANTS CommandLines,   \* sequences of paths for the search list
          MainFile,       \* the path of the main file
          IncludeNames,   \* the names that #include directives have
          Frameworks,     \* the names of frameworks
          MaxDepth,       \* MaxAllowedIncludeStackDepth
          MaxIncludes     \* bound of the model: the number of directives

(* The kinds of directories and files, CharacteristicKind. *)
User    == 0
System  == 1
ExternC == 2
Kinds   == User .. ExternC

Groups == {"Quoted", "Angled", "System", "After"}

ASSUME LookupAssumption ==
  /\ CommandLines \subseteq
       Seq([path: Seq(STRING), group: Groups, cxx: BOOLEAN, framework: BOOLEAN])
  /\ CanBeFound(MainFile)
  /\ IncludeNames \subseteq Seq(STRING) \ {<<>>}
  /\ MaxDepth \in Nat /\ MaxIncludes \in Nat

VARIABLES
  fm,             \* the file manager
  paths,          \* the paths still to be added
  groups,         \* IncludeGroup of InitHeaderSearch
  setup,          \* how far Realize has come
  kept, rest,     \* RemoveDuplicates: its list, where it has been and where not
  searchList,     \* SearchList of Realize
  searchDirs,     \* SearchDirs: directory, kind and whether of frameworks
  systemDirIdx,   \* SystemDirIdx
  stack,          \* the include stack, the main file first
  dirInfo,        \* DirInfo of every file
  lookups,        \* LookupFileCache
  frameworkMap,   \* FrameworkMap
  request,        \* the #include in progress
  includes        \* the number of directives so far

setupVars  == <<paths, groups, setup, kept, rest, searchList, searchDirs, systemDirIdx>>
searchVars == <<dirInfo, lookups, frameworkMap>>
vars == <<fm, setupVars, stack, searchVars, request, includes>>

NoRequest == [pc |-> "none"]
Top       == Last(stack)

(* A DirectoryEntry* that is the entry of no directory. *)
Dummy == -1

Updated(f, k, v) == [x \in DOMAIN f \cup {k} |-> IF x = k THEN v ELSE f[x]]

-----------------------------------------------------------------------------
(* InitHeaderSearch. *)

KindOf(group, cxx) ==
  IF group \in {"Quoted", "Angled"} THEN User ELSE IF cxx THEN System ELSE ExternC

(* A path that is neither a directory nor a header map is ignored, but the *)
(* file manager was asked for it.                                          *)
AddPath ==
  /\ setup = "paths" /\ paths # <<>>
  /\ LET p == Head(paths)
         m == GetDirectory(fm, p.path)
         dir == m.dirs[p.path]
     IN IF dir # None
        THEN /\ groups' = [groups EXCEPT ![p.group] =
                             Append(@, [dir |-> dir, kind |-> KindOf(p.group, p.cxx),
                                        framework |-> p.framework])]
             /\ fm' = m
        ELSE /\ fm' = IF p.framework THEN m ELSE GetFile(m, p.path)
             /\ UNCHANGED groups
  /\ paths' = Tail(paths)
  /\ UNCHANGED <<setup, kept, rest, searchList, searchDirs, systemDirIdx,
                 stack, searchVars, request, includes>>

SameDirectory(a, b) == a.dir = b.dir /\ a.framework = b.framework

(* A mutated form: the first one stays, whatever its kind. *)
KeepUnlessDuplicate_First(list, entry) ==
  IF \E i \in DOMAIN list : SameDirectory(list[i], entry) THEN list ELSE Append(list, entry)

(* A duplicate goes, except that a system directory takes the place of a   *)
(* user directory: then the first one goes.                                *)
KeepUnlessDuplicate(list, entry) ==
  LET same == {i \in DOMAIN list : SameDirectory(list[i], entry)}
  IN IF same = {} THEN Append(list, entry)
     ELSE LET first == CHOOSE i \in same : \A j \in same : i <= j
          IN IF entry.kind # User /\ list[first].kind = User
             THEN Append(RemoveAt(list, first), entry)
             ELSE list

Chained == groups["Angled"] \o groups["System"] \o groups["After"]

Realize ==
  /\ setup = "paths" /\ paths = <<>>
  /\ setup' = "chained"
  /\ kept' = <<>> /\ rest' = Chained
  /\ UNCHANGED <<fm, paths, groups, searchList, searchDirs, systemDirIdx,
                 stack, searchVars, request, includes>>

(* One round of its loop. *)
RemoveDuplicates ==
  /\ rest # <<>>
  /\ kept' = KeepUnlessDuplicate(kept, Head(rest)) /\ rest' = Tail(rest)
  /\ UNCHANGED <<fm, paths, groups, setup, searchList, searchDirs, systemDirIdx,
                 stack, searchVars, request, includes>>

RealizeQuoted ==
  /\ setup = "chained" /\ rest = <<>>
  /\ setup' = "quoted"
  /\ searchList' = kept
  /\ kept' = <<>> /\ rest' = groups["Quoted"]
  /\ UNCHANGED <<fm, paths, groups, searchDirs, systemDirIdx,
                 stack, searchVars, request, includes>>

(* The end of Realize; main then enters the main file.                     *)
SetSearchPaths ==
  /\ setup = "quoted" /\ rest = <<>>
  /\ setup' = "done"
  /\ searchDirs' = kept \o searchList
  /\ systemDirIdx' = Len(kept)
  /\ groups' = [groups EXCEPT !["Quoted"] = kept]
  /\ fm' = GetFile(fm, MainFile)
  /\ stack' = <<[file |-> Disk[MainFile], lookup |-> 0, kind |-> User]>>
  /\ UNCHANGED <<paths, kept, rest, searchList, searchVars, request, includes>>

-----------------------------------------------------------------------------
(* The directives.  CurDirLookup is an index into searchDirs, or 0.        *)

IsAbsolute(name) == Head(name) = ""

CanInclude == /\ request = NoRequest
              /\ stack # <<>> /\ Len(stack) < MaxDepth
              /\ includes < MaxIncludes

Begin(name, angled, from) ==
  /\ request' = [pc |-> IF IsAbsolute(name) THEN "absolute"
                        ELSE IF from = 0 /\ ~ angled THEN "includer" ELSE "begin",
                 name |-> name, angled |-> angled, from |-> from,
                 curDir |-> Top.lookup, at |-> 0, file |-> None]
  /\ includes' = includes + 1
  /\ UNCHANGED <<fm, setupVars, stack, searchVars>>

HandleIncludeDirective(name, angled) == CanInclude /\ Begin(name, angled, 0)

(* The main file and a file of an absolute path search from the start.     *)
NextLookup(frames) ==
  IF Len(frames) = 1 \/ Last(frames).lookup = 0 THEN 0 ELSE Last(frames).lookup + 1

HandleIncludeNextDirective(name, angled) ==
  CanInclude /\ Begin(name, angled, NextLookup(stack))

(* The search goes on, or it ends; CurDir is set when something is found.  *)
Goto(pc, at) == request' = [request EXCEPT !.pc = pc, !.at = at, !.curDir = 0]
Found(file, curDir) ==
  request' = [request EXCEPT !.pc = "found", !.file = file, !.curDir = curDir]

-----------------------------------------------------------------------------
(* HeaderSearch::LookupFile.                                               *)

LookupAbsolute ==
  /\ request.pc = "absolute"
  /\ IF request.from # 0
     THEN Goto("subframework", Len(stack)) /\ UNCHANGED fm
     ELSE LET m == GetFile(fm, request.name)
              file == m.files[request.name]
          IN /\ fm' = m
             /\ IF file # None THEN Found(file, 0) ELSE Goto("subframework", Len(stack))
  /\ UNCHANGED <<setupVars, stack, searchVars, includes>>

(* A file of the includer's directory has the kind of the includer, and an *)
(* #include_next in it goes on where one in the includer would.            *)
LookupInIncluderDir ==
  /\ request.pc = "includer"
  /\ LET path == PathIn(fm, fm.entries[Top.file].dir, request.name)
         m == GetFile(fm, path)
         file == m.files[path]
     IN /\ fm' = m
        /\ IF file # None
           THEN /\ Found(file, request.curDir)
                /\ dirInfo' = [dirInfo EXCEPT ![file] = dirInfo[Top.file]]
           ELSE Goto("begin", 0) /\ UNCHANGED dirInfo
  /\ UNCHANGED <<setupVars, stack, lookups, frameworkMap, includes>>

SearchStart == IF request.from # 0 THEN request.from
               ELSE IF request.angled THEN systemDirIdx + 1 ELSE 1

(* A mutated form: an earlier search counts wherever it started. *)
CachedSearch_AnyStart(name, start) == name \in DOMAIN lookups

(* There was a search for this name from the same start. *)
CachedSearch(name, start) ==
  name \in DOMAIN lookups /\ lookups[name].start = start

BeginSearch ==
  /\ request.pc = "begin"
  /\ LET name == request.name
         start == SearchStart
     IN IF CachedSearch(name, start)
        THEN /\ Goto("search", lookups[name].at)
             /\ UNCHANGED lookups
        ELSE /\ Goto("search", start)
             /\ lookups' = Updated(lookups, name,
                  [start |-> start,
                   at |-> IF name \in DOMAIN lookups THEN lookups[name].at ELSE 1])
  /\ UNCHANGED <<fm, setupVars, stack, dirInfo, frameworkMap, includes>>

(* The file was found in the directory the search is at. *)
FoundHere(file) ==
  /\ Found(file, request.at)
  /\ dirInfo' = [dirInfo EXCEPT ![file] = searchDirs[request.at].kind]
  /\ lookups' = [lookups EXCEPT ![request.name] = [@ EXCEPT !.at = request.at]]

NotFoundHere ==
  /\ Goto("search", request.at + 1)
  /\ UNCHANGED <<dirInfo, lookups>>

Searching == request.pc = "search" /\ request.at <= Len(searchDirs)

LookupInDirectory ==
  /\ Searching /\ ~ searchDirs[request.at].framework
  /\ LET path == PathIn(fm, searchDirs[request.at].dir, request.name)
         m == GetFile(fm, path)
         file == m.files[path]
     IN /\ fm' = m
        /\ IF file # None THEN FoundHere(file) ELSE NotFoundHere
  /\ UNCHANGED <<setupVars, stack, frameworkMap, includes>>

Framework(name) == Head(name) \o ".framework"

(* Headers, then PrivateHeaders: the file manager after both were asked.   *)
HeaderPaths(base, name) ==
  <<base \o <<"Headers">> \o Tail(name), base \o <<"PrivateHeaders">> \o Tail(name)>>
GetHeader(m, base, name) ==
  LET h == HeaderPaths(base, name)
      once == GetFile(m, h[1])
  IN IF once.files[h[1]] # None THEN once ELSE GetFile(once, h[2])
HeaderIn(m, base, name) ==
  LET h == HeaderPaths(base, name)
  IN IF m.files[h[1]] # None THEN m.files[h[1]] ELSE m.files[h[2]]

(* LookupFrameworkCache: the first time it enters a new DirectoryEntry and *)
(* returns a reference to the inside of it, not to the place in the map;   *)
(* what the caller then stores as the framework's directory is not in the  *)
(* map, and the next caller is given the new entry.                        *)
FrameworkHome(n) == IF n \in DOMAIN frameworkMap THEN frameworkMap[n] ELSE None
FrameworkMapAfter(n, found, dir) ==
  IF n \notin DOMAIN frameworkMap THEN Updated(frameworkMap, n, Dummy)
  ELSE IF frameworkMap[n] = None /\ found THEN Updated(frameworkMap, n, dir)
  ELSE frameworkMap

(* DoFrameworkLookup. *)
LookupInFrameworks ==
  /\ Searching /\ searchDirs[request.at].framework
  /\ IF Len(request.name) = 1 THEN NotFoundHere /\ UNCHANGED <<fm, frameworkMap>>
     ELSE LET dir  == searchDirs[request.at].dir
              n    == Head(request.name)
              home == FrameworkHome(n)
              base == PathIn(fm, dir, <<Framework(request.name)>>)
              m    == GetHeader(fm, base, request.name)
              file == HeaderIn(m, base, request.name)
          IN /\ frameworkMap' = FrameworkMapAfter(n, IsDirectory(base), dir)
             /\ IF home \in {None, dir} /\ (home = None => IsDirectory(base))
                THEN /\ fm' = m
                     /\ IF file # None THEN FoundHere(file) ELSE NotFoundHere
                ELSE NotFoundHere /\ UNCHANGED fm
  /\ UNCHANGED <<setupVars, stack, includes>>

(* A mutated form: that nothing was found is not remembered. *)
SearchFails_Forgotten ==
  /\ request.pc = "search" /\ request.at = Len(searchDirs) + 1
  /\ Goto("subframework", Len(stack))
  /\ UNCHANGED <<fm, setupVars, stack, searchVars, includes>>

SearchFails ==
  /\ request.pc = "search" /\ request.at = Len(searchDirs) + 1
  /\ Goto("subframework", Len(stack))
  /\ lookups' = [lookups EXCEPT ![request.name] = [@ EXCEPT !.at = request.at]]
  /\ UNCHANGED <<fm, setupVars, stack, dirInfo, frameworkMap, includes>>

-----------------------------------------------------------------------------
(* Preprocessor::LookupFile then asks LookupSubframeworkHeader for every   *)
(* file on the include stack, the current one first.                       *)

FrameworkComponents == {n \o ".framework" : n \in Frameworks}

(* The places in the name of a file where a framework ends. *)
FrameworkEnds(file) ==
  LET p == fm.entries[file].name
  IN {k \in 1 .. Len(p) - 1 : p[k] \in FrameworkComponents}

NotAFramework ==
  /\ request.pc = "subframework" /\ request.at > 0
  /\ Len(request.name) = 1 \/ FrameworkEnds(stack[request.at].file) = {}
  /\ Goto("subframework", request.at - 1)
  /\ UNCHANGED <<fm, setupVars, stack, searchVars, includes>>

(* A framework known from elsewhere is not told apart: the length compared *)
(* is that of its name with that of a path.                                *)
LookupSubframework ==
  /\ request.pc = "subframework" /\ request.at > 0
  /\ Len(request.name) > 1
  /\ LET context == stack[request.at].file
         ends == FrameworkEnds(context)
         first == CHOOSE k \in ends : \A j \in ends : k <= j
         base == SubSeq(fm.entries[context].name, 1, first)
                   \o <<"Frameworks", Framework(request.name)>>
         n == Head(request.name)
         known == FrameworkHome(n) # None
         d == IF known THEN fm ELSE GetDirectory(fm, base)
         m == GetHeader(d, base, request.name)
         file == HeaderIn(m, base, request.name)
     IN /\ ends # {}
        /\ IF ~ known /\ d.dirs[base] = None
           THEN /\ fm' = d
                /\ frameworkMap' = Updated(frameworkMap, n, None)
                /\ Goto("subframework", request.at - 1)
                /\ UNCHANGED dirInfo
           ELSE /\ fm' = m
                /\ frameworkMap' = IF known THEN frameworkMap
                                   ELSE Updated(frameworkMap, n, d.dirs[base])
                /\ IF file # None
                   THEN /\ Found(file, 0)
                        /\ dirInfo' = [dirInfo EXCEPT ![file] = dirInfo[context]]
                   ELSE /\ Goto("subframework", request.at - 1)
                        /\ UNCHANGED dirInfo
  /\ UNCHANGED <<setupVars, stack, lookups, includes>>

FileNotFound ==
  /\ request.pc = "subframework" /\ request.at = 0
  /\ request' = NoRequest
  /\ UNCHANGED <<fm, setupVars, stack, searchVars, includes>>

-----------------------------------------------------------------------------
(* The rest of HandleIncludeDirective.                                     *)

Larger(a, b) == IF a < b THEN b ELSE a

(* A mutated form: only the directory counts. *)
FileCharacter_DirOnly(file) == dirInfo[file]

(* A file included from a system header is one. *)
FileCharacter(file) == Larger(dirInfo[file], Top.kind)

EnterFile ==
  /\ request.pc = "found"
  /\ stack' = Append(stack, [file |-> request.file, lookup |-> request.curDir,
                             kind |-> FileCharacter(request.file)])
  /\ request' = NoRequest
  /\ UNCHANGED <<fm, setupVars, searchVars, includes>>

(* ShouldEnterIncludeFile says no: see module Inclusion. *)
SkipFile ==
  /\ request.pc = "found"
  /\ request' = NoRequest
  /\ UNCHANGED <<fm, setupVars, stack, searchVars, includes>>

(* The end of an included file. *)
HandleEndOfFile ==
  /\ request = NoRequest /\ Len(stack) > 1
  /\ stack' = Front(stack)
  /\ UNCHANGED <<fm, setupVars, searchVars, request, includes>>

-----------------------------------------------------------------------------
Init ==
  /\ fm = NewFileManager
  /\ paths \in CommandLines
  /\ groups = [g \in Groups |-> <<>>]
  /\ setup = "paths" /\ kept = <<>> /\ rest = <<>> /\ searchList = <<>>
  /\ searchDirs = <<>> /\ systemDirIdx = 0
  /\ stack = <<>>
  /\ dirInfo = [i \in Inodes \ DirInodes |-> User]
  /\ lookups = <<>> /\ frameworkMap = <<>>
  /\ request = NoRequest /\ includes = 0

Next ==
  \/ AddPath
  \/ Realize \/ RemoveDuplicates \/ RealizeQuoted \/ SetSearchPaths
  \/ \E name \in IncludeNames, angled \in BOOLEAN :
       \/ HandleIncludeDirective(name, angled)
       \/ HandleIncludeNextDirective(name, angled)
  \/ LookupAbsolute
  \/ LookupInIncluderDir
  \/ BeginSearch
  \/ LookupInDirectory
  \/ LookupInFrameworks
  \/ SearchFails
  \/ NotAFramework
  \/ LookupSubframework
  \/ FileNotFound
  \/ EnterFile
  \/ SkipFile
  \/ HandleEndOfFile

Spec == Init /\ [][Next]_vars

-----------------------------------------------------------------------------
(* The reference: the search list GCC makes of the requests.  Of those for *)
(* one directory the first system request counts, or else the first one.   *)
Counts(list, n, i) ==
  LET same == {j \in 1 .. n : SameDirectory(list[j], list[i])}
      sys  == {j \in same : list[j].kind # User}
  IN IF sys = {} THEN \A j \in same : i <= j
     ELSE i \in sys /\ \A j \in sys : i <= j

(* dirs are the first n requests of list that count, in their order. *)
AsGCC(list, n, dirs) ==
  /\ \A k \in DOMAIN dirs : \E i \in 1 .. n : Counts(list, n, i) /\ dirs[k] = list[i]
  /\ \A i \in 1 .. n : Counts(list, n, i) => \E k \in DOMAIN dirs : dirs[k] = list[i]
  /\ \A k, l \in DOMAIN dirs, i, j \in 1 .. n :
       /\ Counts(list, n, i) /\ dirs[k] = list[i]
       /\ Counts(list, n, j) /\ dirs[l] = list[j]
       => (k < l => i < j)

(* "required to emulate GCC's search path correctly": the angled, system   *)
(* and after groups are searched as GCC would, and a quoted directory once.*)
SearchListAsGCC ==
  stack # <<>> =>
    /\ AsGCC(Chained, Len(Chained), SubSeq(searchDirs, systemDirIdx + 1, Len(searchDirs)))
    /\ \A i, j \in 1 .. systemDirIdx :
         SameDirectory(searchDirs[i], searchDirs[j]) => i = j

-----------------------------------------------------------------------------
(* The reference: a search that asks the disk about every directory, under *)
(* any of its names.                                                       *)
NameOf(dir)  == CHOOSE p \in DOMAIN Disk : Disk[p] = dir
HasFile(dir, name) == IsFile(NameOf(dir) \o name)
FileIn(dir, name)  == Disk[NameOf(dir) \o name]

NormalHas(i, name) ==
  ~ searchDirs[i].framework /\ HasFile(searchDirs[i].dir, name)

IncluderDir == fm.entries[Top.file].dir
InIncluderDir ==
  /\ request.from = 0 /\ ~ request.angled
  /\ HasFile(IncluderDir, request.name)

(* #include_next finds no absolute names. *)
AtItsPath == request.from = 0 /\ CanBeFound(request.name)

NoneBefore(start, i, name) == \A j \in start .. i - 1 : ~ NormalHas(j, name)

FoundRight ==
  IF IsAbsolute(request.name)
  THEN request.curDir = 0 /\ (AtItsPath => request.file = Disk[request.name])
  ELSE IF InIncluderDir
  THEN request.file = FileIn(IncluderDir, request.name) /\ request.curDir = Top.lookup
  ELSE IF request.curDir = 0
  THEN NoneBefore(SearchStart, Len(searchDirs) + 1, request.name)
  ELSE /\ request.curDir \in SearchStart .. Len(searchDirs)
       /\ NoneBefore(SearchStart, request.curDir, request.name)
       /\ searchDirs[request.curDir].framework
            \/ request.file = FileIn(searchDirs[request.curDir].dir, request.name)

MissedNothing ==
  IF IsAbsolute(request.name) THEN ~ AtItsPath
  ELSE /\ ~ InIncluderDir
       /\ NoneBefore(SearchStart, Len(searchDirs) + 1, request.name)

(* A file that is searched for further from a system directory is a system *)
(* header, though the DirInfo of its includer may have changed meanwhile.  *)
KindCoversDirectory ==
  \A k \in DOMAIN stack :
    stack[k].lookup # 0 => stack[k].kind >= searchDirs[stack[k].lookup].kind

(* LookupFile: whatever was looked up before, a name leads to the file a   *)
(* search of all the directories leads to, and #include_next will go on    *)
(* from there; a search that fails has missed none; and the file found is  *)
(* entered with the kind of its directory, or a stricter one.              *)
AnswerIsRight ==
  /\ request.pc = "found" => FoundRight
  /\ request.pc = "subframework" => MissedNothing
  /\ KindCoversDirectory

(* LookupFileCache: between searches an entry is the result of a search    *)
(* from its start, however often the start has changed.                    *)
LookupCacheIsRight ==
  request.pc # "search" =>
    \A n \in DOMAIN lookups :
      LET c == lookups[n]
      IN /\ c.start <= c.at
         /\ NoneBefore(c.start, c.at, n)
         /\ c.at <= Len(searchDirs) /\ ~ searchDirs[c.at].framework => NormalHas(c.at, n)

(* FileManager: what it remembers is what is on the disk, one entry for    *)
(* each file whatever its names.                                           *)
FilesAgree == AgreesWithDisk(fm)
=============================================================================
