# Verification of the cptoyc preprocessor

cptoyc is a C preprocessor: a port of the preprocessor of early clang, on top of
a copy of LLVM's support library. `main.cpp` builds the objects, enters a main
file and calls `PP.Lex` until it sees the end of the file, either printing the
preprocessed text or dropping the tokens. The repository has no tests and one
design note (`doc/design.md`, about the lexer). The program has one thread. What
makes it hard is not concurrency but nesting: lexers call the preprocessor, which
enters and leaves lexers, from inside handlers that hold state about the lexers;
caches and hints answer from the past; stacks, flags and recorded guards must
agree after any sequence of directives, however odd the text; and fast paths must
give up exactly where the slow path would do something else.

This directory holds TLA+ modules of those parts, TLC configurations, and proofs
for the TLA+ proof system. `PROJECT.json` lists the runs, the source lines each
definition stands for, a mutated form for every property, the hazards of the code,
and the theorems.

## 1. The system

| Component (source) | State | Operations | What makes it correct |
|---|---|---|---|
| Conditionals (`Lex/PPDirectives.cpp`, `Lex/MultipleIncludeOpt.h`) | `ConditionalStack` and `LexingRawMode` of each lexer, its `MIOpt` | the handlers of `#if`, `#ifdef`, `#ifndef`, `#elif`, `#else`, `#endif`, and the loop `SkipExcludedConditionalBlock` | the same text is read as by a reader that keeps one stack; a recorded controlling macro really guards the file |
| Include stack (`Lex/PPLexerChange.cpp`, `Lex/lexer.cpp`) | `CurPPLexer`, `CurTokenLexer`, `IncludeMacroStack` | enter a file, a macro or a token stream; end of file; end of macro | every lexer entered is left once; recursion is bounded; the main file ends |
| Macro expansion (`Lex/PPMacroExpansion.cpp`, `Lex/TokenLexer.cpp`, `Lex/MacroArgs.cpp`) | `Macros`, `MICache`, the enabled flag of each `MacroInfo`, `DisableExpand` of each token, argument lists, `InMacroArgs` | `HandleIdentifier`, `ReadFunctionLikeMacroArgs`, `ExpandFunctionArguments`, `PasteTokens`, `StringifyArgument`, `getPreExpArgument`, `#define`, `#undef` | the output is that of C99 6.10.3; a macro is disabled exactly while its body is read; no assertion fails |
| Token cache (`Lex/PPCaching.cpp`) | `CachedTokens`, `CachedLexPos`, `BacktrackPositions` | `Lex`, `LookAhead`, `EnterToken`, mark, commit, backtrack, revert, annotate | clients see one stream that they can rewind |
| Location table (`Basic/SourceManager.cpp`) | `SLocEntryTable`, `NextOffset`, `LastFileIDLookup`, the remembered comparison | `createFileID`, `createInstantiationLoc`, `getFileID`, spelling and instantiation locations, `isBeforeInTranslationUnit` | a lookup finds the extent that contains the offset, whatever was asked before; tokens are ordered as they were read |
| Presumed locations (`Basic/SourceManager.cpp`, `Lex/PPDirectives.cpp`) | line tables, `LastLineNo...`, `LineEntries` with `IncludeOffset` | `getPresumedLoc`, `getLineNumber`, `getLocation`, `#line`, GNU markers, `__LINE__` and its like | the answer is that of a reader who keeps a stack of presumed includes |
| Header search (`Basic/HeaderSearch.cpp`, `Basic/HeaderMap.cpp`, `Basic/FileManager.cpp`, `Frontend/InitHeaderSearch.cpp`) | `LookupFileCache`, `FrameworkMap`, `HeaderFileInfo`, `FileEntries`, `UniqueFiles` | `LookupFile`, `ShouldEnterIncludeFile`, `getFile`, `RemoveDuplicates` | caches never change what a whole search finds |
| Tokenisation (`Lex/lexer.cpp`) | the position in a buffer, the state of the line | `LexTokenInternal`, `getCharAndSize`, `isNextPPTokenLParen` | the tokens are those of the phases of translation |
| `#if` expressions and literals (`Lex/PPExpressions.cpp`, `Lex/LiteralSupport.cpp`) | `PPValue`, `DefinedTracker` | precedence parser over 64-bit values, the literal parsers | C's values, and a diagnostic for every overflow in a live operand |
| Diagnostics (`Basic/Diagnostic.cpp`) | the stack of mappings, `FatalErrorOccurred`, `LastDiagLevel` | `ProcessDiag`, `setDiagnosticMapping`, push and pop, `FormatDiagnostic` | levels are those asked for; notes share the fate of what they explain |
| Output (`Frontend/PrintPreprocessedOutput.cpp`, `Lex/TokenConcatenation.cpp`) | `CurLine`, `EmittedTokensOnThisLine` | `MoveToLine`, `FileChanged`, `AvoidConcat` | the output, lexed again, is the same tokens at the same lines |
| Support library (`llvm/`), scratch buffer | hash tables, slabs, big integers | insertion, removal, probing, growth, allocation, arithmetic | each container is the map or set it stands for; each integer the number |

How they interact. `Lexer::LexTokenInternal` finds a `#` at the start of a line
and calls `HandleDirective`, or an identifier and calls `HandleIdentifier`; both
may push on `IncludeMacroStack` and replace the current lexer, after which the
first lexer returns and `Lex` goes on with the new one. `HandleEndOfFile` pops the
stack, and tells `HeaderSearch` the controlling macro that `MIOpt` found. The next
`#include` of the file asks `ShouldEnterIncludeFile`. Reading the arguments of a
macro and pre-expanding them call `Lex` again from inside `Lex`, so a directive
among the arguments, or the end of a macro body or of the file, is handled under
a handler that is still at work. Every token has a location from the location
table; diagnostics and the printer turn it into a presumed one.

The hazards are in `PROJECT.json`, each at its line with the properties that
cover it, or with the reason why none does.

## 2. What is modelled

### Inclusion (`Inclusion`)

A file is a sequence of lines; a line is a directive or a line of text, reduced to
what the handlers look at. `cur` is `CurPPLexer`, `inc` the `IncludeMacroStack`,
each lexer a record of its position, `ConditionalStack` (`cond`), multiple-include
machine (`mi`, the operators on `MultipleIncludeOpt`) and `LexingRawMode` (`raw`). There is one action per handler.
`SkipExcludedConditionalBlock` is the actions named `Skip...`, which a lexer takes
while `raw` is set; `Level` is `PPConditionalInfo`. `LexEndOfFile` is the end of a
buffer with the three functions it calls. `out` records tokens and diagnostics in
order. Conditions of `#if` are abstracted to the four forms the handlers tell
apart: `defined(X)`, `!defined(X)`, a macro that expands to the second (which the
guard detection must notice) and an erroneous one; `PPExpr` has the conditions
themselves. The last part of the module is a reference, the reader: it takes one line
at a time with one stack of groups, has no filter and no raw mode, and goes into every
`#include` (`Read`, a recursive function of the depth).

### Token cache (`TokenCache` implements `RewindStream`)

`RewindStream` is the promise to a client: a stream with look-ahead, nested marks
to which the client can return, tokens put in front, and annotations in place of
tokens read. `TokenCache` is the code: the cache, its position, the marks, and
whether there is a current lexer or it waits on `IncludeMacroStack` (caching
mode). The lexers themselves are one source of tokens. `HistOf`, `RestOf` and
`MarksOf` are the refinement mapping. Nothing in this repository calls the caching
interface; its contract is what the comments of `PPCaching.cpp` and
`Preprocessor.h` say. `AcrossEof` is what the client may do at the end of the
file; the run has it empty.

### Macro expansion (`MacroExpansion`, compared with C99 in `MCMacroExpansion`)

The nested calls of the code are laid out as a machine: `stk` is the stack of
`TokenLexer`s, `subs` the calls of `TokenLexer::Init` that are substituting
arguments (innermost last; `pre` says which argument is being pre-expanded),
`inv` the invocation whose arguments are being read. `mi` holds the `MacroInfo`
objects by address, so that a released object taken again from `MICache` is the
same object. A token is a spelling and its `DisableExpand` flag. Every assertion of
the code that this state can decide is a value of `fault`. The reference (`Expand`, with
hide sets) follows C99 6.10.3 and Prosser's algorithm and nothing of the code.

### Location table (`SourceLocations` implements `LocationMap`; `LocationQueries`)

`SourceLocations` has one step per probe of `getFileID`: the cached entry, the
linear scan backwards, the halving between `LessIndex` and `GreaterIndex`.
`LocationMap` only says that offsets are cut into extents and that a lookup answers
with the extent of its offset.

`LocationQueries` takes such a lookup as one step and goes on from there: the loops
that follow a location through macro tokens to where it is spelled or called,
`getInstantiationRange`, and `isBeforeInTranslationUnit`, which climbs the includes
and calls of both locations to a common file (`Levels`) and remembers its last
answer. `MCLocationQueries` is the client: it lexes files and macros and keeps the
tokens in the order in which they were seen.

### Presumed locations (`PresumedLocs`)

A text of characters and newlines (`"n"` and `"r"`, for the two kinds),
`ComputeLineNumbers`, `getLineNumber` with the windows in which it trusts the last
answer, `LineEntries` with the single `IncludeOffset` from which the stack of
presumed includes is recovered, `#line`, and the GNU markers with their flags as
`ReadLineMarkerFlags` reads them, sequences that are refused included. The builtin
macros that ask for presumed locations are in the same module: two of them follow the
presumed includes outwards, a step for each round of their loops (`climb`). So is
`getLocation`, which goes back from a line and a column to a place. The history
variable `readers` has what a reader who keeps the presumed includes on a stack has
known, and from which offset on; `Reference` and `MacroReference` are his answers.

### Header search (`HeaderLookup` on `FileCache`)

`FileCache` is the file manager as a record, with its methods as operators; the
disk is a constant, a map from paths to inodes, and an assumption says that two
names of one directory show the same content. `HeaderLookup` starts with the paths of
a command line: `AddPath`, then the parts of `Realize`, in which `RemoveDuplicates` is a
step for each round of its loop; at the end `SetSearchPaths` also enters the main file as
`main` does. A directive is a `request` that goes through `Preprocessor::LookupFile` one
directory, or one file of the include stack, at a time: absolute names, the
includer's directory, the search with `lookups` (`LookupFileCache`), frameworks with
`frameworkMap`, subframeworks; then `EnterFile` or `SkipFile`. `CurDirLookup` is an
index, 0 for the null pointer; `CacheLookup.first` is the index itself, because the
code adds 1 to indices that start at 0. `isUserSupplied`, `isysroot` and
`NoCurDirSearch` (never set) are left out.

### Text (`Lexer`, `PrintPreprocessedOutput`)

`Lexer` is an operator from a buffer, a mode and a lexer's state to a token and the
next state; a position is an index, and `"nul"` stands behind the last character. It
keeps the fast paths apart from `getCharAndSize`, the backwards search of
`isEndOfBlockCommentWithEscapedNewLine`, raw mode, retained comments, directive
lines with the `eom` that ends them, header names and the text of `#error`. A lexer
without line comments turns them on when it meets the first outside raw mode
(`EnableBCPL`), as the code does in its own copy of the language options.
`isNextPPTokenLParen` saves and restores the state of the lexer as the code does.
`getSpelling`, `AdvanceToTokenCharacter`, `getLocForEndOfToken`, `Stringify`,
`StringifyArgument` and the three ways to spell a header name work on its tokens.
`PrintPreprocessedOutput` has `AvoidConcat` of `TokenConcatenation.cpp`, and keeps the printer's
variables and, in place of its output, what a reader of the output has made of it:
the file and line it believes to be at, and what stands on the line so far. An element
of `stack` is a file that is being read, with the name and the shift that `#line` and GNU
markers have given to its lines, and the presumed files they have entered (`inside`); a
marker is reported as `EnterFile`, `ExitFile` or `RenameFile` by its flags (`LineMarker`).
A token may come on the line of a macro definition or behind a marker without the flag of
a line's first token, as it does behind a call whose arguments leave nothing of it.

### Conditions, literals and integers (`PPExpr`, `Literals`, `APInt`, `Bignum`)

`PPExpr` is the recursive descent of `PPExpressions.cpp`: `EvaluateValue` and
`EvaluateDirectiveSubExpr` over a record that holds the position, the value, the
tracker of `defined`, the warnings and the error. Its values are `APSInt`s of one word,
as they are in the program. `Literals` has the constructors of
the three literal parsers as functions of a spelling, `GetIntegerValue` in both its
ways, `getOffsetOfStringByte` and `GetLineValue`. `APInt` keeps an array
of words and both branches of every operation, `KnuthDiv` digit by digit with its add
back; `Bignum` is the `tc` functions.

### Diagnostics (`Diagnostics`, `DiagnosticText`)

`mappings` is the stack of byte vectors; a level that is asked for for the first time
writes its default into its four bits (`MappingsAfter`), as the code does in a const
method. `WithMappings` sets half bytes; the history variables `wanted`, `shown` and `fatal`
remember what was asked for and what came out, for the properties only. `ProcessDiag` is one action with its early returns (`Suppressed`, `NotWanted`)
in the code's order. A custom diagnostic is a number after the builtin ones.
`DiagnosticText` is `FormatDiagnostic` with `%s`, `%select` and `%plural`.

### Containers (`Dictionary`; `Probing`, `StringMap`, `DenseMap`, `SmallPtrSet`, `FoldingSet`; `HeaderMap`; `BumpPtrAllocator`, `ScratchBuffer`)

Each table is a record of the fields of its class, buckets in place; `Probing` is the
quadratic probe that three of them write out. `MCTables` has one of them at a time and
computes, with the table's own lookup, the dictionary that the table stands for; it
must take exactly the steps of `Dictionary`. A header map is a file: it may be full, or
cut off. Memory is numbered places, and `malloc` any of the first that are free.

## 3. The runs

| Run | Checks | Shows |
|---|---|---|
| `inclusion` | `TypeOK`, `IncludeStackBounded`, `SkippingOnlyInRawMode`, `ControllingMacroWraps`, `OutputMatchesReference`, `Terminates` | Every header of up to 5 lines over two alphabets of directives, of up to 3 over one with self-inclusion and malformed directives, and of up to 4 between a guard and its `#endif`, included twice by four main files, gives the tokens, diagnostics and macros of a reference reader that has one stack, no raw mode and no include filter; and comes to an end. |
| `token_cache` | `StackNeverRunsOut`, `Implements` | While the client does not go back over the end of the file, the cache is the rewindable stream, and the lexer under it is never lost. |
| `macro` | `DisabledWhileLive`, `ReleasedUnreachable`, `NoFault`, `OutputMatchesReference`, `Terminates` | Four families of small files (macros that name each other, function-like macros whose arguments lie beyond the macro that names them, `#` and `##` with empty operands, argument counts and variadic macros with directives among the arguments): flags, released objects, assertions and the end; and those that C99 defines, with their directives first, expand as it says. |
| `source_locations` | `AnswerContains`, `Bracketed`, `ImplementsMap` | Lookups in any order, between any insertions, are answered rightly, and always answered. |
| `location_queries` | `PlacesAreRight`, `OrderIsRight` | Every character of a token made by macros in macros is found where it was spelled and where it was called, and tokens are ordered as the clients saw them, but for remembered answers about nested files. |
| `presumed_locs` | `HintIsRight`, `PresumedIsRight` | Line, column, name, include and kind are those of a reader with an explicit stack; so are `__LINE__`, `__FILE__`, `__BASE_FILE__` and `__INCLUDE_LEVEL__`. |
| `headers` | `SearchListAsGCC`, `AnswerIsRight`, `LookupCacheIsRight`, `FilesAgree` | Every sequence of three `#include` and `#include_next` over seven names and three command lines leads to the files and directories that a search without caches leads to, and what is searched for from a system directory is a system header. |
| `text` | `TokensAreRight`, `PrintedTokensRelex`, `LinesAreRight` | Texts are lexed as by the phases of translation one after the other; tokens printed next to each other are lexed again as themselves; the rows and markers of the output are where the reader needs them. |
| `numbers` | `NumberIsRight`, `StringIsRight`, `ExpressionIsRight`, `GuardMeansUndefined`, `IntegersAreRight` | Numbers, strings and conditions are accepted and mean what the grammar of C99 and exact integers say; a guard given back by a condition is one, through every operator and parenthesis around it; `APInt` and the bare bignums compute integers. |
| `diagnostics` | `LevelIsRight`, `PluralIsRight`, `NotesShareFate`, `SilentAfterFatal` | Levels are those the calls of the client ask for, but for one case of section 5; notes follow their diagnostic; after a fatal error nothing else is emitted or counted; plural forms are gettext's. |
| `tables` | `TablesAreSound`, `HeaderMapsAreRight`, `MemoryIsRight`, `IsADictionary` | Four hash tables implement one dictionary under every sequence of calls, and their probes end; header maps answer what was written; blocks and scratch tokens do not overlap. |
| `literals_char` (violation) | `CharConstantIsItsCode` | A character constant is computed in four bits: `'a'` is 1. |

Every property of a passing run has a mutated form of a definition, placed before
the definition it changes, under which the run fails. A property that joins several
questions has one for each of the parts that could fail alone.

### Bounds, and why they are enough

* `Inclusion`: headers of 5 lines (`MaxHeader`). Two nested conditionals with an
  alternative, or a guard with text before, inside or after, take 5. `MaxOdd` is 3:
  one malformed directive between the two ends of a conditional. One macro suffices: the
  guard and the condition must name the same one for the filter to act. The depth
  limit, 200 in the code, is 3, because it is an equality test reached by one
  step at a time. Main files include the header twice and change the macro in
  between, since the filter acts only on a second inclusion.
* `TokenCache`: 3 tokens of source, 3 cached, 2 nested marks, look-ahead of 2: a
  mark inside the cache, at its end, and an annotation between two marks all
  occur.
* `MacroExpansion`: up to three macros with bodies of up to 4 tokens. The rule that
  is hard, a disabled name rescanned where its macro is enabled again, needs two
  macros and an argument that lies outside the first.
* `SourceLocations`: `OffsetLimit` 9 gives up to 8 entries; `LinearProbes` 1 (8 in
  the code) lets the halving start with tables of that size.
* `LocationQueries`: files of two tokens (`FileSize`), so that a token can come
  before and after an include; three entries beside the predefines and the main file
  (`MaxEntries`): a macro in a macro in a header, or three headers deep; tokens of one
  and two characters (`Lengths`), for the offsets inside a token.
* `PresumedLocs`: all texts of up to 4 characters (`MaxShort`), and two longer ones of
  6 and 4 lines, with windows of 1, 2 and 3 lines (5, 10 and 20 in the code), so that the
  query falls inside, at and past each window; 3 notes (`MaxNotes`), so that two
  presumed files can be nested and one left; line numbers modulo 8 (2^32).
* `HeaderLookup`: three directives, since the lookup cache needs one search to
  fill it, one from another start to overwrite it and one to use it, and the kind
  of a header is lost and missed in three; four levels of nesting. The disk has a
  directory under three names, a header under two names in directories of
  different kinds, two directories of frameworks, a subframework with a private
  header, and a name present in the current directory and in a system directory.
* `Lexer`: texts of five characters (`MaxText`) over eight alphabets, each with what
  can go wrong together: an escaped newline of two characters inside a token of two,
  with a character before or behind, takes five. Inside the end of a comment it takes
  six (`/**\`, a newline, `/`), so texts that begin with `/*`, `//` or `#//` have eight
  characters (`MaxComment`), over a slash, a star, a backslash and newlines: room for white
  space behind the backslash, a newline of two characters, or a second comment.
  `MaxPeeks` is one look ahead.
  Retained comments, and a lexer without line comments, are only tried on texts with a
  slash, which alone they could read otherwise.
  `PrintPreprocessedOutput`: three words (`MaxWords`), because the second may already be
  glued to the first; two files (`MaxFile`), one of which includes the other, in up to 10
  lines each (`MaxLine`) with jumps of 0, 1 and 9 (`Jumps`), since up to 8 newlines
  are written and beyond that a marker; lines renumbered by 0 or 5 (`Shifts`), and one
  presumed file inside another (`MaxInside`).
* Numbers: `uint64_t` is 6 bits wide (`UInt64Bits`), a value of a condition 6 (`Width`),
  the unsigned to which a shift is cut 5 (`CastBits`), and the `unsigned` of an escape
  12 (`UnsignedBits`), more than a `char` (8) as in the code. All numbers of 5 characters
  over the letters that occur in numbers, and of 6 over fewer, strings of 4 characters
  or escapes, conditions of up to four operands; the shapes are in `MCExpressions`.
  Words of an `APInt` have 4 bits, operands one, two or three of them: `KnuthDiv` needs
  two digits in the divisor and three in the dividend, and a carry that runs through a
  whole word needs three.
* `Diagnostics`: three changes (`MaxChanges`: push, map, pop), three reports
  (`MaxReports`: a diagnostic, its note, and what follows), five of both together
  (`MaxCalls`), mappings pushed once (`MaxDepth` 2); five builtin diagnostics, so that bytes are shared and one is
  half used; numbers up to 130 (`MaxNumber`), beyond the period of 100.
* Tables: 8 buckets, the least with which the rule about tombstones can act, growing
  once, those of `StringMap` twice; one starts with tombstones and one has been hashed
  again and counts tombstones it no longer has, so that it grows by that count alone.
  5 keys, of which two collide wholly; up to 4 entries (`MaxLive`); `MaxCalls` 3
  blocks or tokens. Slabs of 32 bytes and scratch buffers of 8. Header maps have 0, 2, 3 or
  4 buckets and six strings, of which a cut file loses the last characters first.

### Preconditions

Stated where the code promises no more, or is known to be wrong; section 5 says which.

* `Inclusion`: `OutputMatchesReference` leaves out guards with an alternative, guards around
  a conditional with two `#else`s, and files in which an `#ifdef` has no name
  (`Misjudged`).
* `TokenCache`: the client stops at the end of the file (`AcrossEof = {}`).
* `MacroExpansion`: `C99Output` is asked of files without errors, with their directives
  first and without variadic macros, whose GNU rules C99 does not define, and
  `OutputMatchesReference` of those in which the fast path for one-token bodies has not
  delivered a disabled name (`unpainted`). `NoFault` and the other invariants are asked
  of all of them. The families `pastes` and `operands` are not in the run.
* `PresumedLocs`: a marker on the first characters of a file (`EntersAtStart`), whose
  include offset is 0 and so means "none", and a `#line` that comes first in a system
  header (`LineInSystemHeader`), which turns the rest of it into a user file.
* `HeaderLookup`: that a framework's header is found is not asked.
* `LocationQueries`: answers from the cache about nested entries (`MayBeStale`).
* `Lexer`: `Ordinary` leaves out escaped newlines before a newline, a quote, a backslash
  or the end in texts with literals, three backslashes with a `'`, and two escaped newlines
  between the star and the slash of a comment's end (`TwiceSplit`); `Stringifiable`
  leaves out arguments with a backslash or an unmatched quote before a literal.
  `LetsPass` names the two pairs of tokens that `AvoidConcat` does not keep apart.
* `PrintPreprocessedOutput`: `LinesAreRight` says of every file under which name the reader
  has it. Of the line it speaks only where `#line` and markers have not renumbered the file.
  Nothing is claimed of text without the flag of a line's first token; and with line
  markers disabled a row may have lines of two files.
* `Diagnostics`: `LevelIsRight` is not asked of an extension that `-pedantic` has upgraded
  from an ignored one while `-w` or `-Werror` is on (`Upgraded`).
* `HeaderMap`: `HeaderMapsAreRight` asks for answers while all strings are in the
  file, of entries that are whole, and for a name that is absent while a bucket is free.
  Of a cut file it only says that the probe ends if some bucket reads as empty. A header
  that claims more buckets than were written is left out; so is what `Create` does to the
  buffer.
* `FoldingSet`: after `clear` the client frees its nodes, or may not enter them again.
* Literals: `Digitless` names the two forms without digits that are let pass;
  `NoHugeShift` leaves out shifts by 2^`CastBits` or more. `IntegersAreRight` leaves out
  quotients for which algorithm D adds back, signed quotients of two negative numbers
  from `sdivrem`, and roots whose next square does not fit.

### Fairness

The program is a loop in `main` that calls `Lex` until it is given the end of the
file. A single thread that is in the middle of a function goes on: `FairSpec` is
weak fairness of `Next` in `Inclusion` and `MacroExpansion`, where every step is
the program's, and weak fairness of `Search` alone in `SourceLocations`, where a
lookup that was begun goes on but no client need ask. The other modules have no
fairness: their clients may do anything or nothing. That a hash probe ends is an
invariant there (`ProbeEnds`), because a probe is one step.

### Deadlock

`Inclusion` checks for deadlock: its only end is `ClientDone`. The other modules may
stop: at the end of the token stream, at the bounds on tables, notes, texts and
directives, and after a failed assertion.

## 4. The proofs

The proofs hold for every value of the constants: any set of files, any texts of any
length, any limits.

**`Inclusion_proofs`**. `IInv` joins the types, `SkippingOnlyInRawMode`, the depth of
the include stack, and for each live lexer a relation between its multiple-include
machine and the lines it has consumed (`GuardSeen`): when `TheMacro` is set, the first
line of the file is a guard on it; while `ConditionalStack` is not empty, no line
since has closed that guard and the stack is as deep as the text; and when
`ReadAnyTokens` is off again, the last line consumed is the `#endif` of the guard.
`ControllingMacroWraps` alone is not inductive, because it speaks of the end of a
file only. The lemmas count directives (`CountStep`, `DepthStep`, `PlainLine`,
`OpeningLine`, `ClosingLine`), treat pushes, pops and turns of the conditional stack
(`PushLevel`, `PopSkipped`, ...), and then one lemma handles each action. Results:
`TypeCorrect`, `SkippingCorrect` (the levels popped and peeked at by the skipping
loop are the ones it assumes), `ControllingMacroCorrect` and `IncludeStackCorrect`.
The assumption that matters is `DepthAssumption`: with a limit of 1 the equality
test would never hold.

The second half of the module proves `OutputCorrect` (`OutputMatchesReference`): whatever
the files contain and include, what the client has seen at the end of the main file is what
the reader makes of it. That is said of the end only, so the invariant, `OutInv`, says where
the reader is at every step. `ent` is the state in which he entered each file
of the include stack. Of the current file he has read the lines the lexer has read: his
groups are those of `ConditionalStack` (`Matches`, in raw mode up to the level that started the
skipping), and he has its macros and its output (`Follows`). Of a file that waits he
will have, once he has read the files above it to their ends, what goes with the lines read
there; so his reading of a whole file must be defined before the lexer is through with it,
which the depth limit ensures (`ReadUnfold`). One lemma per
handler shows that the reader takes the same line the same way (`OpeningReads`, `AlternativeReads`,
`SkipReads`, `TurnReads`, ...). An `#include` that the filter drops is the
one place where they part: there `ControllingMacroWraps` gives the guard, and `FilteredFile` shows
that the reader comes out of such a file with what he went in with, since every group in it is
dead (`Shut`).

**`SourceLocations_proofs`**. `IInv` adds to the types and to the properties that the
table is sorted, that a query is of an offset in use, and what the probes so far have
ruled out: in the linear scan the iterator's entry starts after the offset, and at
halving the wanted entry is between the two indices. Entries created later start at
or after `NextOffset`, so an old answer stays right. Results: `TypeCorrect`,
`LookupsAreRight`, `HalvingBrackets`, and `TableImplementsMap`: the table with its cache
and its two searches implements the initial condition and the steps of
`LocationMap`; that every lookup ends is left to TLC.

**`SequenceLemmas`** has what the other proofs need of sequences: the ends and the front
of a stack, windows of a stream, a sequence of which a part is replaced.

**`TokenCache_proofs`**. `IInv` is `TypeOK /\ StackNeverRunsOut /\ EofAtEnd`. That a lexer
is left whenever a token must be lexed does not follow from itself: it rests on the end of
the file being cached as the last token only, when the lexers are drained, and on its still
being ahead unless the client has lexed it (`EofAtEnd`). Results: `TypeCorrect`,
`LexerAlwaysWaits`, and `CacheImplementsStream`: under `HistOf`, `RestOf` and `MarksOf` every
step of the cache (lexing past it, from it or into it, looking ahead, entering a token in the
middle, committing, going back, annotating) is a step of `RewindStream` or a stutter. All
three suppose `AcrossEof = {}`, that the client stops at the end of the file; with
anything else in it they are false, as TLC shows (section 5).

**`MacroExpansion_proofs`**. `IInv` is `DataTyped /\ StackOK /\ InvOK /\ MacrosTakeTurns`. A
macro is disabled when its `TokenLexer` starts and enabled when it is popped; that this
goes in turns rests on where the streams of arguments under pre-expansion lie among the
`TokenLexer`s. `StreamsInOrder` places them: each such call of `Init` has one, in
order, and below it the macro for which it is expanded does not occur. Further,
the macro whose arguments are being read is enabled (`InvokedEnabled`), and what was
seen to be a parenthesis is still the next token (`ParenComes`). Results: `TypeCorrect`,
`DisabledCorrect` and `ReleasedCorrect` (`DisabledWhileLive` and `ReleasedUnreachable`, of any
number of macros of any bodies), and `TurnsCorrect`: the assertions of `EnableMacro`,
`DisableMacro` and `ReadFunctionLikeMacroArgs` hold. These three hold of all
files; the rest of `NoFault` fails for some (the family `pastes`), so `FaultFree` supposes
`[]Conforming`: no `##` and no `#define` or `#undef` of the macro itself among the arguments of an
invocation, no `//` pasted from two slashes, in no body `##` after `##`, nor in that of a
variadic macro a comma between two `##`. Then all of `NoFault` holds: every `##` has its
operands, every parameter its argument, every argument that was expanded first its end.
The strengthening is `Whole`: what `#define` accepts is in every body (`MacrosWhole`); in each call of `Init`
a `##` may stand at the end of what was substituted or at the beginning of what is left of
the body, but not both (`Halves`), and a comma that goes with an argument left out is no
operand of a `##` that stays (`NoCommaPasted`); what a `TokenLexer` has left can be pasted, or is an
argument that ends in `eof` (`LexersWhole`); the arguments read so far are free of both
(`InvWhole`). `Conforming` is a hypothesis about the files and not a property of the code; it
is an invariant of the run (add it to `MacroExpansion.cfg` to see it). `NamesAssumption` and
`GlueAssumption` say what names, punctuators and pasted tokens are,
`FilesAssumption` what directives look like.

**`HeaderLookup_proofs`**. `IInv` has four parts. `Sound(fm)`: the maps of the file manager agree with
the disk and lead to each other. `SetupTyped` and `SetupInv`: while `RemoveDuplicates` is at work, its list is what GCC
makes of the part that it has seen (`AsGCC`); a system request that takes the
place of a user request moves the others, so the invariant speaks of the order of the
requests that count (`Counts`). `SearchInv`: every entry of the lookup cache is a search from its start that
has missed nothing up to its place; the same of the search in
progress, whose entry may be older than its start; each file of the stack is one with a
name and a directory, and its kind covers the directory where `#include_next` goes on.
Results: `FilesCorrect`, `SearchListCorrect`, `AnswerCorrect`, `LookupCacheCorrect`. They
hold for every disk on which two names of a directory show the same (`DiskAssumption`), and
every command line (`LookupAssumption`).

**`Diagnostics_proofs`**. `IInv` is
`TypeOK /\ NotesFollow /\ FatalSeen /\ CountsAgree /\ StackRemembers`. `NotesFollow`: the last
diagnostic that was not a note was shown exactly if `FatalErrorOccurred` is not set and
`LastDiagLevel` is not `Ignored`, which is all that is known when a note comes. `FatalSeen`: a
fatal error is remembered as the last level first and then for good. `StackRemembers`: at
every depth of the stack, for any may be uncovered by a pop, the half byte of each diagnostic is
what was asked for, with the user's bit, or else 0 or the default. Results: `TypeCorrect`,
`LevelCorrect` (`LevelIsRight`, with its exclusion), `NotesCorrect` (`NotesShareFate`) and `FatalCorrect`
(`SilentAfterFatal`), for any table of diagnostics in which each but a note has its half byte
(`SlotAssumption`: `DiagMappings` has `DIAG_UPPER_LIMIT/2` bytes, and of a table of odd length
the last has none).

**`PresumedLocs_proofs`**. The lines first. `ComputeLineNumbers` is a recursive function over
the text; that it is its own unfolding (`StartsUnfold`) and returns the line starts in order
(`StartsFromOffset`) is shown from the last offset of the text at which it would not be so.
From then on the table is known by what it is (`LineTable`). `RightHint`: the remembered line
is that of the remembered position; with any such hint the window, forwards or backwards, holds
the line (`WindowEndIs`, `LowerBoundIs`), so `getLineNumber` finds it and leaves a right hint
(`GetLineNumberIs`). Then the notes. `Agreement`: the note of number k says what the reader
knows after the directives up to it, and its include offset is the top of his stack.
That would not survive leaving a file, for the rest of the stack is in no note.
`StackOK` adds that a presumed include was read by a reader with just the rest of the stack,
so the note in force there has the offset to go back to; and `ClimbOK` that a macro on its way
outwards is as deep as the stack it has left behind. Results: `TypeCorrect`,
`HintCorrect` (`HintIsRight`) and `PresumedCorrect` (`PresumedIsRight`, with the two
exclusions of section 3), for any texts, any flags and any number of directives.
`WindowsAssumption` has the windows grow, as 5, 10 and 20 do; `LinesAssumption` keeps 0 out of
the line numbers, as the directives do.

**Only model-checked.**

* Liveness (`Terminates`, the fairness of `LocationMap`), which the prover does not reach.
* What compares with a recursive reference, or whose own definition is recursive: the
  output of `MacroExpansion`, `PluralIsRight`, and everything about
  tokens, printed text, numbers, strings, conditions, integers, hash probes and the order of
  locations. `Lexer`, `Literals`, `PPExpr`, `APInt`, `Bignum`, `DenseMap`, `FoldingSet`,
  `LocationQueries`, `MCMacroExpansion` and `DiagnosticText` declare recursive operators,
  and what they compute for every input is an induction over data.

## 5. Findings

Shown by a violation run and quoted in `PROJECT.json`:

* `Lex/LiteralSupport.cpp:651`: the value of a character constant is computed in
  `sizeof(int)`, that is 4, bits.

Met while modelling, without a run. The models contain each of the first list as the
code has it; the preconditions of section 3 keep the properties away from them, and
dropping the precondition shows them.

* `Lex/PPDirectives.cpp:253`: an `#else` or `#elif` of a file's guard met while
  skipping is not reported to `MIOpt`; the file gets a controlling macro, and is
  dropped when the `#else` part would be wanted. `HandleIfdefDirective` returns without
  telling `MIOpt` when the name is missing (`PPDirectives.cpp:1388`). And a file that is
  dropped is not diagnosed: an `#else` after an `#else` within its guard is an error
  each time the file is read, but not when it is dropped. (`Misjudged`)
* `Lex/PPCaching.cpp:65`: the end of file is handed out but not cached, and the stack
  is empty after it; a client that backtracks over it runs into the assertion
  of `RemoveTopOfLexerStack`. (With `AcrossEof = {"back"}`, `StackNeverRunsOut` fails.)
* `Lex/TokenLexer.cpp:318`: `##` from an argument is taken for the operator. (With the
  family `pastes`, `NoFault` fails.)
* `Lex/TokenLexer.cpp:269`: the comma that goes with a left-out variadic argument is popped
  without a look at the `##` before it. With `#define F(x, ...) x ## , ## __VA_ARGS__` the
  invocation `F(a)` leaves `a ##`, and the assertion "No token on the RHS of a paste
  operator!" (387) fails. (Excluded by `Conforming`.)
* `Lex/TokenLexer.cpp:163`: the operand after an empty left operand of `##` is
  expanded. (With the family `operands`, `OutputMatchesReference` fails.)
* `Lex/PPMacroExpansion.cpp:254`: the fast path for one-token bodies delivers the name
  of a disabled macro unmarked unless it is the macro's own. (`unpainted`)
* `Basic/HeaderSearch.h:156`: `LookupFrameworkCache` returns a reference into a new
  object instead of to the value in the map.
* `Basic/FileManager.cpp:154`: the directory of a file of the root directory is asked for
  as "", which is none, so that the file is not found. (`CanBeFound`)
* `Basic/SourceManager.cpp:962`: the remembered comparison has no offsets.
  (`MayBeStale`)
* `Basic/SourceManager.cpp:113` and `:74`: the two exclusions of `PresumedIsRight`.
* `Basic/Diagnostic.cpp:309`: an extension that is ignored by default and that `-pedantic`
  maps onto a warning is neither ignored under `-w` nor an error under `-Werror`, although
  they are to reach "any unmapped warnings" (`Diagnostic.h:238`) and "any warnings reported"
  (`Diagnostic.h:243`). (`Upgraded`, in `LevelIsRight`)
* `Lex/PPDirectives.cpp:549`: `NextVal < Val` misses the line numbers that wrap and end
  larger, such as 10000000000. (`LineValueIsRight` asks nothing of them.)
* `Lex/PPExpressions.cpp:519`: a shift amount is cut to 32 bits. (`NoHugeShift`)
* `Lex/LiteralSupport.cpp`: `0b` without digits is the number 0. (`Digitless`)
* `Lex/TokenConcatenation.cpp:72`: `greaterequal` stands where `greatergreater` was meant,
  so that `>>` and `=` may be printed together; and a number may be followed by `_`.
  (`LetsPass`)
* `Lex/lexer.cpp`: a literal with an escaped newline before its quote is not ended, the
  character behind a backslash is taken for an escape of its own in character
  constants, and a literal that ends in a backslash at the end of the buffer reads
  behind the nul. (`Ordinary`)
* `Lex/lexer.cpp:901`: only one escaped newline is looked for between the star and the slash
  that end a comment; with two of them the comment goes on. (`TwiceSplit`)
* `Lex/lexer.cpp:774`: line comments are enabled "so we only emit one warning for this
  translation unit", but in the lexer's own copy of the options: each file warns once.
* `Frontend/PrintPreprocessedOutput.cpp:213`: as its FIXME says, `FileChanged` prints the
  physical line of the place it is given, also behind `#line`. (`LinesAreRight`)
* `Lex/TokenLexer.cpp:296`: a macro call whose body is not empty but becomes so, its
  arguments being empty, takes the flag of a line's first token with it. What follows may be printed on the row of a `#define`, or at the
  line before its own. (`LinesAreRight`)
* `Basic/HeaderMap.cpp:134`: `getString` "returns an empty string" of an index that is not
  valid, says its comment; it returns a null pointer, of which `LookupFile` takes the
  length. And the comment at 193, "Don't probe infinitely", only counts the buckets: the
  probe in a full table for a name that is not there never ends. (`null` and `never` of
  `LookupFile`)
* `llvm/FoldingSet.cpp:189`: `clear`, "Remove all nodes from the folding set", leaves the
  links of the nodes: entering such a node again fails the assertion at 262, and
  `RemoveNode` says that it was removed and counts it. Nothing here calls `clear` but
  the set itself. (`clear`)
* `Lex/MacroArgs.cpp:188`: only a backslash at the very end of a stringified argument is
  repaired. (`Stringifiable`)
* `Lex/Preprocessor.cpp:298`: `AdvanceToTokenCharacter` assigns to `PhysOffset` where it
  should add; `getLocForEndOfToken` (313) passes a length as a number of characters.
* `llvm/APInt.cpp`: the add back of `KnuthDiv`, `sdivrem` of two negative numbers, `sqrt`
  near the width, `magic` of powers of two. The preprocessor calls none of these.
* `llvm/Allocator.cpp`: `Reset` leaves `BytesAllocated`; `RehashTable` of `StringMap`
  leaves `NumTombstones`: harmless to the answers.

And outside the models: `#undef` of a macro among its own arguments, with a `#define`
after it, changes the object under the reader of the arguments; a file with two names
has the directory of the first, so its `#include ""` may look beside the wrong one;
`getFileIDSlow` decides whether to remember a binary hit by the entry where the linear
scan stopped (`BinaryHit`), which can make `LastFileIDLookup` an instantiation, or leave
it where it was; nobody calls `setDiagnosticGroupMapping`, and the subgroups of
`DiagnosticGroups.inc` have the indices of another table; `main.cpp` always disables line markers, and a
header's last line may then share a row with the line behind its `#include`;
`HeaderMap::Create` (`HeaderMap.cpp:80`) uses the buffer after it has been freed.

## 6. What is not modelled

* Data: the tables of diagnostics, keywords and default paths, the wording of messages.
* Input and output: command lines, reading and mapping files, `raw_ostream`, `stat`. The
  models have file contents as constants and the output as what a reader makes of it.
* `APFloat`: the preprocessor parses floating constants but never asks for their value.
* Containers nothing here uses (`ImmutableSet`, `ImmutableMap`, `SparseBitVector`,
  `BitVector`, `ilist`), and vectors, strings and smart pointers, which the models have
  as sequences and values.
* In the lexer: trigraphs, universal character names in identifiers, embedded nul
  characters, the rules for assembler.
* In the printer: directives among the arguments of a macro, with which the lines may go
  back (C99 6.10.3p11 leaves them undefined), a marker on the first character of a file, and
  the callback for `#ident`, which nobody calls.
* `__DATE__`, `__TIME__`, `__TIMESTAMP__` and `__COUNTER__`; `#import`, `#warning` and
  `#ident`; the `TokenLexer` cache; the spacing flags and locations of macro tokens. There
  is no pragma handler in this repository.
* Concurrency and recovery: the program has one thread and keeps nothing on disk.

`PROJECT.json` lists every component with what it lacks.

## 7. Plan

What is left to model is small beside the above: the `TokenLexer` cache, `#import`, and
the presumed include stack across two files. What is left to prove, in order of weight:

1. That the tables implement `Dictionary`: for `DenseMap` and `StringMap`, from the
   invariant that every live key is on its own probe before any empty bucket. The
   probe would first have to be a step or a choice instead of a recursive operator.
2. That the output of `MacroExpansion` is that of `C99Output`: the prescan and the
   replacement of C99 would have to be recursive functions of the depth, as the reader of
   `Inclusion` is.
