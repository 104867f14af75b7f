# Verification of kwest

kwest is a tag-based file system: a FUSE daemon shows the files of a user's
home directory under the tags they carry, which it keeps in an sqlite
database. This directory holds TLA+ modules translated from the C source under
`src/`, TLC configurations that check them, and proofs checked by TLAPS.

## The system

| part | source | state it keeps | operations |
|---|---|---|---|
| tag store | `dbkey.c`, `dbbasic.c` | tables TagDetails, FileDetails, FileAssociation, TagAssociation | add, remove, tag, untag, relate; ids from names |
| metadata plugins | `dbplugin.c`, `plugin_*.c`, `metadata_extract.c` | none of their own | tags for the kinds of file, tags for the metadata of a file |
| plugin list | `plugins_extraction.c` | a linked list | add, load all, unload all |
| path layer | `dbfuse.c` | none | validity of a path, listings, mkdir, rmdir, mv, cp, rm on tags |
| handlers | `fusefunc.c` | one static path buffer | the `fuse_operations` |
| consistency check | `dbconsistency.c` | none | remove files gone from the disk, then tags without files |
| importer | `import.c` | none | a recursive walk of a directory |
| start-up | `kwest_main.c`, `dbinit.c` | the connection, transactions | create tables, plugins, check, import, rules, mount |
| suggestions | `dbapriori.c`, `apriori.c` | table AssociationRules | rules from the tags of files, suggestions for a directory |
| export | `export.c` | none | copy a tag and the tags below it to the disk |
| log | `logging.c` | a file | write a line |

`main` opens the database and, in a transaction each, creates the tables, lets
the plugins enter their tags, removes what is gone from the disk, imports the
home directory and computes rules; then it hands the thread to `fuse_main`.
The kernel calls the handlers with paths; a handler asks the path layer whether
the path stands for a tag or a file, and the path layer asks the tag store.
The handlers share the database and the buffer `get_cp_path()`.

What is hard here: ids are reused, and no table has a foreign key or a unique
name, so the order of the calls is all that keeps the tables meaningful; a
path is understood from the database, by names, so two paths may be the same
directory; a rename or a mkdir is two changes of which the second may fail; the
daemon guesses from one shared buffer that a copy is going on; `fuse_main` runs
handlers in several threads without a lock; start-up may be stopped between
transactions. `PROJECT.json` lists these under "hazards", each at its line.

What makes each part correct:

- tag store: unique names, no row about what is gone, no row twice, and, seen by
  name, each call does only what it says (`KwestTagStore`); when statements of several threads
  alternate, names and rows may be there more than once, but a bounded number of times, and the calls are atomic
  as long as none is and no tag goes while another call holds its id;
- path layer and handlers: a listing and a lookup agree; a rename moves one file
  and takes none its last tag, if the new one is there; directories form no cycle; answers are what happened;
- start-up: of starts in a row the third changes nothing; a start keeps what was arranged, if every known file can be opened; a crash at any
  point is repaired by the next start;
- suggestions: what is learned is what the tables bear out, however often and from whatever
  tables it is learned, and what a directory suggests is new to it;
- export: it makes what is in the tables and no more, one failure costs one directory,
  and it ends.

## Modules

| module | what it is | its state and actions in the code |
|---|---|---|
| `KwestTables` | the tables, and the calls of `dbkey.c` and `dbbasic.c` as operators from a database to a database and a return code | a table with a primary key is a function from ids, one without is a bag of rows |
| `KwestPlugins` | what the plugins write | `load_*` on start-up, `add_metadata_file` in `add_file` |
| `KwestStore` | the tables driven by any sequence of calls | `db` the database, `code` what the last call returned; one action per call |
| `KwestTagStore` | abstract: what the store promises, by name | sets of names and pairs of names, no ids |
| `KwestPaths` | the path layer as operators | a path is the sequence of its names; `SIGSEGV` is an access through a bad address |
| `KwestFuse` | the daemon: one action per handler | `db`; `disk`; `cppath` is `get_cp_path()`; `alive`; `reply` what the handler returned |
| `KwestStartup` | the life of the program around the daemon of `KwestFuse` | `saved` is the last commit, `stage` the place in `main`, `next` the cursor of the check, `walk` the calls of `import_semantics`, `locked` the files and directories all permissions of which are off; one action per file the check looks at, per entry the import reads, per return |
| `KwestSuggestions` | learning at start-up and what directories suggest, around the calls of `KwestStore` | `rules` is AssociationRules, `committed` its last commit; `type`, `level`, `candidates`, `supportcnt` are the locals of `apriori_main` and the lists at `headi`; one action per step of its loop |
| `KwestStatements` | the calls of `KwestTables` again, one sqlite statement at a time, in several threads | `calls` is where each thread is in its call, with the ids it has looked up and what its handler calls next; `locked` says that another process reads; `loose` remembers the ids that were removed while another call held them; one action per kind of statement; `Names` maps the tables, without what removals are half way through, to `KwestTagStore` |
| `KwestExport` | the program `export` beside the threads of `KwestStatements` | `stack` is the recursion of `export()`, `todo` the select it copies from, `dirs` and `copies` the disk; one action per read, mkdir, copy, call and return |
| `MCStore`, `MCFuse`, `MCStartup`, `MCSuggestions`, `MCStatements`, `MCExport` | instances for TLC | |
| `KwestTablesProofs`, `KwestPluginsProofs` | lemmas: what each operator does to sound tables | |
| `KwestStoreProofs` | the invariants of the store; the store implements `KwestTagStore` | |
| `KwestSuggestionsProofs` | learning: the frequent sets, the rules, the suggestions | |
| `KwestFuseProofs` | the daemon: sound tables, renames, mkdir, listings | |
| `KwestStartupProofs` | the start: sound tables through crashes, what the check removes, that the import covers the home directory, that starts in a row come to rest | |
| `KwestStatementsProofs` | what calls of any number of threads, about one name or several, may do to each other, and where they are atomic to `KwestTagStore` | |
| `KwestExportProofs` | the export: what it goes by is there, and it makes everything | |

A database is a record `[tags, files, fileAssoc, tagAssoc]`. Each operator
returns a record `[db, code]` with the code the C function returns. Text columns
are names: `BaseName[p]` is what `get_entry_name` cuts from an absolute path.
`KwestPaths` treats a path as the code does, by its last name, the name before
it and the relations between neighbours.

The handlers in `KwestFuse` come with two specifications. `Spec` lets the kernel
call any handler with any path, which covers lookups it remembers while the
database changes. `FreshSpec` only makes the calls a kernel makes that has just
looked the path up (unlink on what looks like a file, mkdir on what looks free);
the claims of comments are refuted under it, so that no counterexample rests on
a call no program can cause. A suggested directory is such a case of its own: the
kernel is told it is there, and a rename into it loses the file (`fuse_lost`).

## Runs

| run | checks | shows |
|---|---|---|
| `store_small` (pass) | `TypeOK`, `UniqueNames`, `NoDanglingRows`, `NoDuplicateRows`, `FailsOnlyAtRangeEnd`, `ImplementsTagStore` | Any sequence of calls on the tables, with ids that are used again, ranges that fill up, two files of one name and two kinds of relation: the tables stay sound and no caller can tell that names are stored under ids. |
| `fuse_any` (pass) | `TypeOK`, `TablesSound`, `ListingMatchesLookup`, `RenameKeepsFiles`, `RenameMovesOneFile`, `MadeTagsPointDown`, `FailedCallsDoHalf` | Any handler called with any of eight paths, up to date or not, where a directory may be made with the name of the file: the tables stay sound, a listing and a lookup agree, a rename moves one file and loses none, directories never form a cycle, and a call that fails did at most the first half of its work. |
| `fuse_lost` (violation) | `MovedFilesStay` | A file moved into a directory of a suggested tag is untagged, tagged with nothing and in no directory any more. |
| `fuse_listing` (violation) | `ListedEntriesAnswer` | A file moved below Root is listed in the mount point, and a look at it there reads through a null pointer. |
| `startup` (pass) | `ProgramTypeOK`, `ProgramTablesSound`, `CheckRemovesEmptied`, `NoFileIsGone`, `EveryFileIsKnown`, `NewFilesAreFiled`, `StartOnlyAdds`, `RestartChangesNothing`, `StartsEnd` | Starts, crashes, calls of the daemon and a disk that changes meanwhile, modes of files and directories too: the tables stay sound, the check removes what it cannot open and no more, the import finds every file and puts it into its directory, while there are ids, a start keeps what was arranged, starts in a row come to rest, and every start ends. |
| `startup_lost` (violation) | `ImportIsListed` | The only file under Files goes from the disk: the check of the second start removes the tag Files with its relations, the third start makes the tag again but not the relation of Music to it, as Music is known, and the imported directory is listed nowhere any more. |
| `learn` (pass) | `SuggestTypeOK`, `FrequentSetsFound`, `RulesComplete`, `OneRowPerRule`, `SuggestionsAreNew`, `RulesAreTrue`, `LearningEnds` | Learning, crashing, changing the tables and learning again: the level-by-level algorithm finds just the frequent sets, the rules are those the tables bear out, and what a directory suggests is new to it. |
| `statements` (pass) | `StatementTypeOK`, `NamesBounded`, `RowsBounded`, `NothingDangles`, `OthersKeepTheirs`, `CallsAreAtomic` | Five requests in two threads, about the same names or others, their statements in any order, crashes between any two of them and writes that fail while another process reads: what two calls may do to each other is bounded, and but for what a tag leaves that goes while another call holds it, they do to the names, each in one step, what the abstract store says. |
| `threads_names` (violation) | `NamesUnique` | Two mkdirs of one name, in two directories or in one that has two paths, both find it free, both choose an id and both add it. |
| `threads_rows` (violation) | `TaggedOnce` | Two calls that put one file into one directory, by two paths, both look for the row before either has inserted it, and the file is there twice. |
| `export` (pass) | `ExportTypeOK`, `EverythingExported`, `OnlyWhatIsThere`, `ExportEnds` | An export beside the daemon, of subgroups that meet and that form a cycle: one failure costs its own directory only, the walk never leaves the tables as they are, and it ends. |
| `export_removed` (violation) | `RemovedIsGone` | While an export reads, a removal of the daemon loses its first statements and not its last, so rows stay about a tag that is gone. |

Bounds. The store runs take two tag names and up to three files, two of the same
name, with ranges of tag ids of one id each: a class that is full, a class that
runs into the next, an id that comes back and a name that is taken all happen
within these. Two kinds of relation, one of which `create_db` does not enter, are there because `get_association` ignores the kind. The refinement needs a file with metadata, so that `add_file`
itself adds tags and relations; one of the files is a short video. `fuse_any`
takes the directories Files, A and B, one file, a tag with the name of the file (which mkdir makes), with paths that reach A
and B at the top, in Files and in each other: the same tag by two paths, a move
between them, a directory removed while a path to it remains and a rename
whose second half is refused. One content and no suggestions are enough there,
as its properties are about the tables.

`startup` takes ~/Music with a short video, a directory A below it with a file, and
room in A for a second file of the video's name; the plugin is libextractor, so a
start makes tags that the check may remove. `MaxEvents` = 3 bounds what others do:
changes of the disk, changes of modes (`Lockable`), crashes, and calls that change the
tables; restarts are not bounded, as `Exit` is free. Three events are enough for a file to be
moved into a directory of the daemon, removed from the disk and made again. Ids
never run out here, that is the matter of the store runs.

`learn` takes five user-made tags over three files, or with two tags below three of them, two
changes of the tables and any number of learnings. From these come pairs and a triple that are frequent, a triple of frequent
pairs that is not, confidences between the two thresholds and above, tables with items but no
transactions, ids that come back under old rules, and, with a fourth file, lists that do not fit. `Capacity`
is the room of a list in ids, 682 in the code (4096 characters, five digits and a separator
for an id), 7 in the run.

`statements` takes two tags, one file, two threads and five requests: those of `dbfuse.c` that change tables (mkdir, rmdir,
unlink, rename and the copy of mknod), about any of the names, the same in both threads or not, crashes anywhere and a reader that comes and goes. The class of
tags made with mkdir has two ids, so two threads can add one name under two ids, and a tag that is made takes the id of one that went. The three first tables are what
main and earlier requests leave: a tag of main's, with or without one below it. `threads_names` and `threads_rows` need two requests.
What the handlers ask before these calls (`check_path_validity`) is left out: it binds nobody, as another thread may change the answer. Nor are the
locks of the kernel relied on, which holds the directory by whose path a file or directory is made or removed: a tag has many
paths, and by two of them it is two directories to the kernel. `CallsAreAtomic` exempts the steps that follow the removal of a tag another call holds, a
delete that failed, or a name that is there twice; `threads_names`, `threads_rows` and `export_removed` show these races, and `NamesBounded`,
`RowsBounded`, `NothingDangles` and `OthersKeepTheirs` say how far they go.

`export` starts from three tags, one below both of the others, or two below each other, with one
file. `MaxDepth` = 3 is the room in `tagpath`: the cycle runs into it. `MaxFailures` = 2 lets two
of a mkdir and the copies fail; reads fail whenever the daemon is writing. The
daemon makes one call, whatever its statements and their moments; with two
calls it is 5.8 million states, which hold no violation of the invariants either but take too long
for the liveness property.

Deadlock is not checked in the runs of `KwestFuse`: a killed daemon answers no
call. It is checked in all the other runs.

Fairness. The handlers are called by programs that need not call again, so
nothing must eventually happen in `KwestFuse`. In `KwestStartup`, `Program` states weak fairness
of `Turn`: `main` is one thread that waits for no one, so when it can go on, it
does. `Turn` is the part of the actions of `main` that says where it goes next; what
an action does to the tables never blocks it, so this is fairness of
`Main`, in a form TLC can evaluate. Nothing is assumed of crashes, of unmounting, of
other programs or of the daemon. `StartsEnd` rests on it. `Learning` states the same of the turns
of `apriori_main` from phase to phase, and `Export` of `Walk`, the next step of the export, which has one thread and
never waits: a read that finds the tables locked fails at once, as no busy handler is set. `LearningEnds` and `ExportEnds` rest on these;
a crash or a kill ends them too, so what they say is that no run goes on for ever.

## Findings

Where a comment of the source says something the code does not do, a run shows
the behaviour: see "findings" in `PROJECT.json`.

## Proofs

Theorems hold for every value of the constants that meets the named
assumptions of `KwestTables`, `KwestPlugins`, `KwestPaths`, `KwestFuse`, `KwestStartup`, `KwestStatements`, `KwestSuggestions` and `KwestExport`: the mark for a missing row is not
a name, `BaseName` is a function, ids are natural numbers and the three classes of
tags start in order, and the metadata of a file is about names in `TagNames`, paths are non-empty sequences of
names, the database the program starts with is sound, and the names of
directories, of the user and of the tags of plugins are in `TagNames`. `TreeAssumption` says too that no set of
directories below Music is closed under `Above`: the code goes by absolute paths, every one of which begins
with that of Music, and symbolic links are not modelled, so directories form no cycle. One theorem,
`ListingsMatch`, assumes one fact more, stated in it: the first database holds relations of the kind
subgroup only, which are all that the program makes. The same is part of the assumption on the tables `KwestStatements` starts from.

The inductive invariant of the store is `Sound(db)`: types, unique names, no
dangling row and no duplicate row, together. None of the parts is inductive
alone. That an insert finds a free name rests on unique names; that a new id has
no rows left about it rests on no dangling row; that two tags have one relation
rests on both. `KwestTablesProofs` proves for each call that it maps sound tables to
sound tables and what it does to them (for instance `AddTagEffect`,
`IdAfterIsNew`: the id after the largest in use is not in use).
`KwestPluginsProofs` extends this to the chains of calls a plugin makes.
`KwestStoreProofs` combines them, one step for each action.
Its second half shows that the initial tables map to the initial sets and
that every call maps to the abstract call of the same name; since the map from
tables to sets of names forgets ids, this is where the reuse of ids is
shown to be invisible.

`KwestFuseProofs` reuses these for the daemon. Its inductive invariant is
`TypeOK /\ TablesSound`. The path layer passes any name of a path to the calls of
the store, so the lemmas at its head (`TagAnyFile`, `UntagAnyFile`, `RelateAnyTags`,
`RemoveAnyTag`) first show that a name no row has is not found and changes
nothing. The buffer of the opened path is cut in place, so its type is the set of
paths above the ones in use, and `CopyPathsClosed` shows that set closed under the
cut. For renames, `RenameEffect` says row by row what untagging and tagging leave;
from it a successful rename moves one file, and a second half that is refused is
refused because the file is under the new tag already, which needs the new tag
to be there: the run `fuse_lost` shows what happens when it is only suggested.
For mkdir, `NewDirectoryId` shows that a new id is above every id in use, so every
relation made by mkdir points from a larger id to a smaller one and no cycle can
close. For listings the invariant gains `OnlySubgroups`; a listing reads the rows
of one tag and a lookup counts them, and the two agree because names are unique,
rows are not doubled and a relation is of kind 2, never of kind 1, which
`check_association` would take for an error. A tag may be named like a file: both functions that look a name up ask for a tag first, so
the theorem has a case for such a name.

`KwestStartupProofs` puts `main` around the daemon. Its inductive invariant is the
daemon's, with the last commit sound, since a crash makes it the database, and `MainOK`, which says
where `main` and the walk may be: import relates a directory to the one below it on the stack of calls, so the
stack must not be empty while `main` walks. A call of the daemon is one of those
`CallsKeep` covers. For the check, `RemoveGoneEffect` says row by row what the removal of
one file leaves. `CheckRemovesOnlyEmptied` needs `CheckInv`: while the check runs, a tag found at
the start either is there, with exactly its files that are left, and at least one if it had any, or
it is gone and so are all its files. The step that is not obvious is the last file of a
tag (`RemovalIsChecked`): the count of one that `check_tag_if_empty` looks for is a count of the
files that are left, because rows go with their files. Before the check,
`create_db` and the plugins only add (`Grows`). `NoFileIsGone` needs `GoneInv`: on a disk that does not change, the
files with ids below the cursor of the check can be reached, and so is every file the import adds.
`StartOnlyAdds` needs `AddsInv`: where all that is known can be opened no step of the check removes, and every other step
`Adds`. `Adds` says of two databases that the second has all of the first and is sound;
`KwestTablesProofs` and `KwestPluginsProofs` prove it of each call that adds, and it composes.

Its second half is about the import. What is above an entry is a least closed set (`Up`), so no proof there is
by induction; an entry is `Clear` when nothing on the way to it is locked, skipped or gone. `FramesInv` says that
the calls of `import_semantics` are a chain from Music down, each of a clear directory whose tag has
been made. `ImportCoversFiles` needs `CoverInv`: whatever has a clear way has been entered, or an entry that leads to
it is still listed in some call on the chain (`Pending`). Opening a directory replaces the entry by
those below it, of which one leads on (`WayIsListed`); a call returns when nothing is left in it. A
file that is not entered means that the ids have run out, and they stay so while rows are only
added (`TagRoomGone`, `FileRoomGone`): as the id is the largest plus one, a class is used up as soon as its last id
is taken, whatever ids below it are free. That is why `EveryFileIsKnown` asks for room at the end only.
`ImportFilesFiles` needs `FiledInv`, that the files of this start are under the tag of their
directory, or the tag has no id; it rests on `FramesInv`, as the tag has to be there before its files.

`RestartsSettle` is about three starts in a row, and four invariants lead to it. `SavedInv`: between
the parts of `main` nothing waits for its commit, so a start begins where the last one ended. `SteadyInv`: a start that
counts as undisturbed began after the last change of the disk. `ArrivedInv`: after an undisturbed start every
known file can be opened, if all that is listed can, and all that is clear has been dealt with, so the check and the import of the next add and remove no
file and no tag. `OnceInv`: the second start puts every tag of `create_db` and of the plugins into
its place, and each directory it walks through below the one above it (`Beneath`); the first did not do
for this, because its check comes after its plugins and may remove a tag of theirs. `TwiceInv`: the third
finds all that in place, and each of its calls is idle (`PlaceIdle`, `RelateIdle`, `AddFileIdle`), so `db` never
leaves `before`. A name without a tag for want of an id is in place too (`Made`): what is not made once is not made later. This
needs that nothing uses up an id between (`Quietly`).

`KwestSuggestionsProofs` proves of the learning what its run checks, for any tables,
thresholds and sizes of the lists. Its invariant says of every itemset that has a count that it is frequent and the
count is its support, and, as long as nothing was cut, that every frequent itemset of a level that is done has
one. The step is the argument of the algorithm: support only falls when items are added
(`Support` of a subset is at least that of the set), so a frequent itemset of n items is the union of two frequent ones of
n - 1 that differ in their largest items, which is what `Joined` makes, and `prune_candidates` takes none that is
frequent. That a count is never 0 where a confidence is divided by it follows from the same, but for
tables without transactions, where nothing is frequent because 0/0 is not a number. `RulesAreTrue` needs that
the lists are empty when the type changes. `OneRowPerRule` and `SuggestionsAreNew` hold over
all changes of the tables between learnings, whatever ids the old rules name.

`KwestStatementsProofs` takes the calls apart into statements, for any number of threads and
requests, and assumes nothing of what the calls are about: two of them may be about one name, at any of their statements. The
invariant `StInv` says what each call still knows of the tables from the statements it has made (`Known`): the id it has
looked up is the id of its name, and what its removal has deleted is gone. That a name it has not found is
still not there it does not know, as another thread may have added it. What it knows ends in one case only, when another call removes the tag
whose id it holds; the removal and the call then hold one id (`Met`), and such ids, with those of deletes that
failed, are in the history variable `loose`. `Changes` says which rows a statement may change, and `OthersKnow` that it leaves standing what
other calls know, but for `loose`. A crash makes calls forget and knows nothing itself, so it keeps `StInv`. From this follow `StatementsLeaveNothingDangling` and `StatementsKeepOthers`.

How often a name is there is a count: `FewNames` adds to its rows the threads that are past their check for it
(`Past`). A thread gets past the check only while there is no row, so the sum is at most the number of threads then, and an insert
moves one thread to one row. `FewRows` is the same for the rows of a file under a tag. So `StatementsBoundNames` and
`StatementsBoundRows` bound what `threads_names` and `threads_rows` show to happen.

`StatementsAreAtomic` is the refinement of `KwestTagStore` by statements: one statement of a call does the whole of what the
call does to the names and its others do nothing to them. Which one it is decides the mapping: a tag is gone with the first delete of its
removal, so the tags half way out (`LeavingTags`) are not shown. No other call holds the id of such a tag as long as `loose` is empty
(`HeldStay`), and a call's ids stand for its names and only they do as long as no name is there twice (`OwnTag`,
`OwnOther`, `OwnFile`). `CutShort` names the steps this cannot be said of: a crash and a last delete that
fails, which give a tag half way out back without its relations; what follows the removal of a tag that another
call holds, or a delete that failed in the middle (`loose`); and steps with a name that is there twice. So calls about one name that
overlap in any other way are atomic too, for instance two files tagged, untagged or renamed under one tag, or a tag looked up before
it is removed and found gone.

`KwestExportProofs` walks the subgroups beside any statements of the daemon. `ExportsOnlyWhatIsThere` rests on
`WalkInv`: whenever the export has read something and not yet used it, one of its selects is open, and the daemon's
writes wait for that; so the rows it goes by are the rows of the tables until it closes the last one.
`ExportsEverything` is an invariant about each good way down the subgroups (`Complete`): its directory is filled
already; or it leaves the stack of calls at a subgroup that call has still to visit (`Waiting`); or it goes
through the call that runs, which has not returned (`Here`). When the first call returns nothing is on the stack, and
only the first case is left. The argument is by position in the stack and not by induction over the graph, so
cycles and any depth are covered.
`ExportTypeCorrect` needs `ExportFits` besides, and of the daemon the invariant `StInv` of `KwestStatementsProofs`: that a call is at a statement its
kind has (`CallFits`), with ids of the table it has read them from.

Only model-checked: `StartsEnd`, `LearningEnds` and `ExportEnds`, as liveness under
fairness is out of the prover's reach. Every other property of the passing runs has a theorem. The counterexamples of
the violation runs are of the small instances, which is all they need to be.

## Not modelled

- a whole handler is one step in `KwestFuse`; what happens between the statements is
  modelled in `KwestStatements` for the calls that change tables, in the order a handler makes them, but
  not for its look-ups;
- in `KwestStatements`: what a handler answers, and the look-ups of its path before its calls; the store and its plugins at start-up, which one thread runs;
  `get_association`, three selects, is one step; the select at
  the end of `untag_file`, which decides nothing;
- the text of queries: a name with a quote in it changes the query; names here
  are names. Lengths of names and buffers of fixed size;
- the order in which rows are listed; owners and bytes of files; of modes `KwestStartup` knows that all permissions of a file
  or directory are off (`locked`) or none: a directory that can be searched and not read, or the reverse, is not modelled;
- `add_meta_info` and the table MetaInfo, `add_association_type` and the table
  Associations: nothing reads them (`is_association_type` means to, and
  reads another table); `rename_file`, which nothing calls;
- taglib, pdfinfo, extract and the parsing of what they print: the constant
  `Metadata` says what they find;
- the answer of `kwest_getattr` for a last name shorter than 13 characters, where
  it reads beyond the name to look for a suggestion: such names are taken to be
  no suggestions;
- in `KwestSuggestions`: the text of an itemset, which is a set of ids here (the lists of files
  are in the order of ids; those of tags are not ordered by the query, which matters to
  the text of a rule only, see `Reordered`); ids of more than five digits; that the buffers other than the lists
  of itemsets fill up (these fill first, except for directories of more than 680
  entries); for itemsets of more than three the room kept is that of three, taken here for
  the room of the itemset; names with a comma, at which the names of a suggestion are taken apart;
- in `KwestExport`: the bytes of a copy, which may keep the tail of an older one or be cut at 2 GB;
  names of different lengths (`MaxDepth` counts names); what an overflow of `tagpath`
  does (`phase` is "crashed"); `export` answers success whatever failed below the first directory, which
  `failed` makes visible but no run claims; that a cycle overflows `tagpath` is reached and counted as an end by `ExportEnds`;
- in `KwestStartup`: `apriori`, which fills AssociationRules only and is in `KwestSuggestions`; which entries have a
  path that is too long (they are in `Skipped`); symbolic links, so that `Above` is a
  tree; an entry made while its directory is being read is not seen by the walk,
  as POSIX allows;
- the plugin list, the log and the tag update of audio files.

## Plan

Done, in this order: the store and its refinement, the daemon, the start, learning and
suggestions, the statements of several threads, the export. What is left:

1. `KwestClients`: programs (cp, cat, mv, rm, mkdir) as sequences of handler calls,
   interleaved; what one program sees of another through the shared buffer.
2. The look-ups of the handlers of `KwestFuse` statement by statement too, before the calls of `KwestStatements`.
3. The hazards of `PROJECT.json` that have no property yet, where a state of the model can show them.
