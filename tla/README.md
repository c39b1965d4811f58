# zhar in TLA+

zhar is a command line tool that keeps a project's memory: typed nodes in one JSON
file per group under `.zhar/mem/`, an index over them, sessions that watch how nodes
are inspected, facts, an export, templates and a stack of installed files. This
directory holds its specification: TLA+ modules translated from `src/src/zhar/`, TLC
configurations that check them on small instances, and proofs that TLAPS checks for
every instance.

## The system

Every invocation of `zhar` is a process of its own. It opens the store, which reads
every group file and builds an index in memory; runs one command; and exits. There is
no server and no lock. So there are two questions: is one process's store right, and
what do processes that overlap do to each other.

| Component | Source | State | Operations | What must hold |
|---|---|---|---|---|
| Node and schema | `mem/node.py`, `mem/group.py`, `mem/groups/` | none: immutable nodes, constant schema | build, patch, reference | a reference says what the node says |
| Memory store | `mem/store.py`, `mem/index.py`, `mem/query.py`, `mem/ids.py` | group files, index | save, get, delete, query, allocate an id, rebuild | index and files agree; only valid nodes are stored; one active node of a singleton type; an id has one home |
| Memory commands | `cli/memory.py`, `mem/gc.py`, `mem/scan.py` | none of their own | add, add-note, note, set-status, remove, prune, scan, gc | a failing command does no harm; references resolve when written; gc leaves nothing due |
| Group files | `mem/backends/json_backend.py`, `utils/cache.py` | files, one cache per process | read, rewrite | an edit that was made stays made |
| Sessions | `mem_session/` | one document per session | show, clear; list, adopt, current and need-challenge read | the score counts each show and each interval once; suspicion follows from the score |
| Export | `mem/export.py`, `mem/export_payload.py` | none | collect, limit, expand relations | expansion finds exactly what is within the depth and the boundary, and ends |
| Facts | `utils/facts.py`, `cli/facts.py` | project and global fact files | set, unset, get | project facts win; a fact is lost only to a clash |
| Templates | `parser/render.py`, `parser/cond.py` | directive state while rendering | render a line | a block shows exactly when its conditions hold |
| Stack | `stack/` | registry, bucket index, bucket directories | install, uninstall, bucket add and remove, fetch, sync | an edit is lost only to a clash; a directory that is left can be removed; what is rendered is what was asked for |
| Migration | `migration/zmem.py` | none | migrate | every record has its note; legacy ids survive; a rerun only adds |
| Harness | `harness/`, `scripts/sync_harness_files.py` | mirrored files | get, install, sync, check | mirror equals package |
| Loader, CLI shell, formatting | `mem/loader.py`, `cli/`, `utils/` | none | parse, print, import | out of scope: input and output |

Components interact by calls within a process (command → `MemStore` → `JsonBackend` →
`MtimeFileCache`; `MemStore` → `MemIndex`) and through files between processes. What is
hard is listed as `hazards` in `PROJECT.json`, each at its line; the main ones are
unlocked read-modify-write of whole files, checks against an index that is as old as the
process, a file that is cut before it is filled, a cache that trusts the mtime, commands
that make several edits and can stop between them, and state that is kept from one line
of a template to a later one.

## Modules

| Module | Models | Used by |
|---|---|---|
| `MemSchema` | node, reference, schema constants, the checks of `MemStore._validate` | `MemStore`, `MemProcesses`, `MemIndex` |
| `BuiltinGroups` | the types and statuses of the built-in groups | the MC modules |
| `MemStore` | one process: files, index, clock, result of the last command; one action per command | `MCMemStore`, `MemStoreProofs`, `Migration` |
| `MemStoreProofs` | theorems about `MemStore` | `MigrationProofs` |
| `MemProcesses` | many processes: one action per file access, the mtime cache, crashes | `MCMemProcesses`, `MemProcessesProofs` |
| `MemProcessesProofs` | theorems about `MemProcesses` | |
| `IndexPromise` | abstract: an index over nodes, with queries and singletons | `MemIndex` |
| `MemIndex` | `mem/index.py` by itself, with its lists; implements `IndexPromise` | `MCMemIndex`, `MemIndexProofs` |
| `MemIndexProofs` | theorems about `MemIndex`, the refinement among them | |
| `SessionRuntime` | the document of a session, shows step by step, clears, clock, crashes | `MCSessionRuntime`, `SessionRuntimeProofs` |
| `SessionRuntimeProofs` | theorems about `SessionRuntime` | |
| `IdAllocation` | how ids are made: the prefix counter, replacement of ids in use | `Migration` |
| `Migration` | `zhar migrate zmem` save by save over `MemStore`, reruns, other commands between | `MCMigration`, `MigrationProofs` |
| `MigrationProofs` | theorems about `Migration`, which refines `MemStore` | |
| `Export` | export and the related nodes of show: queries, fetches, the walk, limits; edits by others | `MCExport`, `ExportProofs` |
| `ExportProofs` | theorems about `Export` | |
| `CondExpr` | conditions: expressions word by word, groups | `TemplateRender` |
| `TemplateRender` | the renderer, one line a step | `TemplateMeaning` |
| `TemplateMeaning` | abstract: what a template means, from its text; the properties of the renderer | `MCTemplateRender`, `TemplateProofs` |
| `TemplateProofs` | theorems about the renderer and about expressions | |
| `StackSources` | sources in cached buckets, and how a name finds one | `Stack` |
| `Stack` | stack and facts commands as processes over four documents and the bucket directories | `MCStack`, `StackProofs` |
| `StackProofs` | theorems about `Stack` | |

`Migration` composes `MemStore` (its saves are `MemStore!Save`, its other commands
`MemStore` actions) with `IdAllocation`; `Stack` composes registry, buckets, facts and
the resolution of names. `IndexPromise` and `TemplateMeaning` are abstract
specifications; that a migration is nothing but memory commands (`IsCommands`) is a
refinement too, of the commands of `MemStore`.

### How state and actions correspond to the code

`MemSchema.Node` keeps of a node what decides whether a write happens: type, status,
whether it has a content body, a source and a metadata path, the ids it refers to and
its expiry. Summary, tags and timestamps are left out. A type determines its group, as in
the built-in groups.

`MemStore`: `file[g][i]` is the entry of id `i` in `.zhar/mem/<g>.json`; `index[i]` is
`MemIndex._by_id`; `reply` tells how a command ended: well, with an error it printed, or
with the RuntimeError of `allocate_id`, which no command catches (`no id`). An action is
one whole command, with every save and delete it makes and each place where it can stop:
`Add` saves the node and then the attached note, which may be refused or find no id when
the node is stored already; `Scan` saves hits up to the first one that is refused, `Gc`
deletes and archives. `Open` is a new process. Ids are drawn from those the index does not
hold; the random part of an id is any of them, and the draws of `make_id_unique` may all
hit ids in use as soon as two are (`DrawsFail`). `MemIndex.singleton` returns the first
active entry of its list: any entry may be first.

`MemProcesses`: `proc[p]` is the local state of process `p`. `ReadGroup` is one
`list_all` of the rebuild, `Select` and `Fetch` are a query or a `get`, `Load` is the read
inside `JsonBackend.save` or `delete` once validation has passed, `Truncate` and `Fill`
are the two halves of `write_bytes`, `Crash` ends a process anywhere. `held` is the
process's `MtimeFileCache`, `recent` the files whose mtime is of the current clock tick: a
write to such a file leaves the mtime as it is, and cache entries for it stay valid.
A read while a file is being filled may return part of it, `Torn`, which does not parse.
The history variables `settled`, `clash`, `blind`, `stale` and `late` record what the
properties speak of; no action reads them.

`MemIndex`: `refs` is `_by_id`; `lists` holds `_by_group`, `_by_type`, `_by_status` and
`_by_tag` under keys such as `<<"tag", t>>`. A node is its reference and how often it
lists each tag. `Add` and `Remove` are the methods, `Ask` and `AskSingleton` the queries;
an answer is a set, which is what the query engine makes of it. `MemStore` uses the same
index through `refs` alone (`MemSchema!FirstActive`); `AskSingleton` of `IndexPromise`
says that this is right. `Resolved` is the places of a list whose id has a reference,
and the singleton is the candidate at the least place. The refinement mapping turns a
reference and the tags last added into an entry of `IndexPromise`; the lists are what the
mapping forgets. `carried` and `repeated` are history.

`SessionRuntime`: `file` is the session file. A show takes the time (`Start`), reads
(`Load`, with the whole of `record_show_event` on the document), and writes in two halves
(`Cut`, `Fill`). `NextScore`, `PlainShow` and `DeepShow` are `_next_plain_show_score` and
the two branches of `record_show_event`. Time is in ticks, of which `Second` make a
second, because the document keeps whole seconds (`Stored` is `format_dt`) while the
clock does not, and the score subtracts the one from the other. Of the entry of a node
the fields are kept that decide anything; `plain` is added and counts the plain shows that
the score contains. A document does not parse (`Torn`) while it is being filled, after a
crash, or when two processes filled it at once. A file deleted between `exists` and
`read_bytes` ends the show like one that does not parse and is not told apart. `made`
counts the shows recorded since the session was cleared, `lost` those of them that went
when a process was killed between cut and fill; `clash` records that a show read, or the
session was cleared, while another show was between its read and the end of its write,
and `disorder` that a show was recorded after a later one. All four are history.

`IdAllocation`: an id is a prefix and a slot. A long one takes its prefix from the counter
of the process (`NextPrefix` is `_next_prefix`) and any slot; `make_id_unique` draws up to
`Attempts` times, and the model gives every id and counter it may end with, or none.

`Migration`: `graph` is the content of `graph.json`, of which a record keeps its id, type,
status and whether it has its dates; `job` is the run. `MigrateNode`, `MigrateTask` and
`MigrateNote` end in one save each, so a refusal, an exhausted allocation (`no id`), a
missing date or `Crash` may stop the run after any of them. `Command` removes or archives
a node between runs.

`Export`: `exp` is the one export. `QuerySeeds`, `QueryEligible` and `QueryLinks` select by
the index of the process; `FetchSeed`, `FetchEligible` and `FetchLink` read one node each
from the files, and `Edit` is another process in between. `Round` is one pass of the loop
in `_expand_related_ids`. The order of fetches is free, as is that of a Python set.

`TemplateRender`: one action per directive; `stack`, `pending`, `current` and `quote` are
the locals of `render`. An expression is a sequence of words (`CondExpr`): the split into
words is data, everything after it is modelled, exceptions included. `Streamed` and
`Joined` are the loops of `eval_expr` over the words and over the value stream, as
functions of how far the loop has come; `Resolve` and `Join` are one turn of each. Of the
output the line it comes from and the form are kept. A template mentions no key
`__memcond_<lineno>__` itself where `Own` says so; the renderer has one for each line.

`Stack`: a command is a sequence of stages (`InstallStages`, ...), a stage a read or write
of one document. `loaded` is the copy from which `Fill` writes the whole document back;
`Cut` truncates it before. An empty registry or facts file is taken for no entries
(`Read`), an empty index does not parse (`Readable`). `RemoveTree` empties a directory and
then removes it. `Ensure` is the external `zuu`, taken to change directory and index
together or fail. `Similar` stands for the fuzzy score. `meant`, `stale`, `clash` and
`disturbed` are history.

## Runs

| Run | Result | Shows |
|---|---|---|
| `store` | passes | nine properties of one process's store, below |
| `procs` | passes | what overlapping processes can and cannot do |
| `procs_singleton` | violated | two active `core_goal` nodes, from two processes whose indexes are older than the other's write |
| `index` | passes | the lists of the index keep up, and its queries answer what `IndexPromise` says |
| `session` | passes | score, suspicion and counts of shows that share a session |
| `migrate` | passes | migrations that stop and are run again: what they add, keep and report |
| `ids_wrap` | violated | allocation fails in a store with free ids, once the last prefix is in use |
| `export` | passes | what an export finds and prints, and that it ends |
| `template` | passes | the renderer against the meaning of the text |
| `template_leak` | violated | conditions in an untaken branch that apply behind it |
| `stack` | passes | what overlapping stack and facts commands can and cannot do |
| `stack_label` | violated | a qualified name that is refused although one source bears it |

`store` has three ids and one type for each rule of the schema: the singleton
`core_goal`, `known_issue` that gc archives, `file_change` that loses its path, `note`
and `node_link` that refer to others. Three ids are enough for a link and both its ends,
or a note and two targets, which is the most nodes any check relates; the clock needs one
tick for a node to expire. Permuting ids is a symmetry: no definition orders them. The
invariants are `TypeOK`, `IndexIsRebuild`, `OneHome`, `StoredNodesValid` and
`OneActiveSingleton`; the action properties say that a node never changes type under its
id (`IdentityStable`), that what is written refers only to what is stored
(`WritesResolveRefs`), what a failing command leaves behind (`FailureIsHarmless`) and that
gc settles everything (`GcSettles`). A command that ends with an error has changed nothing
but sources. One that found no id has touched nothing that was stored, and left at most
one new node: the node of a `zhar add` whose attached note it was to get the id for. No
property says that this does not happen, because it does. `GcSettles` takes for due what
the code does, `expires_at <= now`, see the known divergences. `VIEW` leaves out `reply`, which no action reads, so that states are told
apart by files, index and clock; action properties are checked on every step all the same.

`procs` has three processes of one command each (add, add-note, set-status, remove,
prune or gc) on a store with a resolved `known_issue`, and with either an active
`core_goal` beside it, when the issue has expired, or a note about it; and one crash.
Races need two processes; the third is one that comes later and meets what they left.
The free id is one, so an add can find none, and it may find none while that one is free
(`Allocate`, as `DrawsFail`). `MaxRuns` and `MaxCrashes` bound the runs
and the crashes. `LossNeedsClash` lists all the ways to lose an edit: two processes
between read and end of write at once, a death while filling, a cache entry that a write
in the same tick left valid. `EditFitsUnlessStale` says that an edit fits the file it is
applied to, and a new id all files, unless another process has written behind the index;
`RefsResolveUnlessStale` says that a note is written only while what it refers to
exists, with the same exception (that a target is removed afterwards is legal);
`SingletonNeedsLateWriter` says that two active nodes of a singleton type need a process
that wrote after another had written behind its index (`late`), or from a cache entry that
was out of date (`blind`). The processes end, so
deadlock is not checked there. `procs_singleton` checks that rule without the condition,
as the README of zhar states it.

`index` has three ids, two types of one group (so that a group list mixes types), a
singleton among them, two statuses and one tag, which a node may list twice (`MaxRepeat`).
Lists of three ids have a first, a middle and a last entry to remove. `MaxListed` bounds
the list of the tag; two entries are a node that lists it twice, or one that has it and
one that is left over. `KeepsPromise` is the refinement: queries are exact, but that a
query by tag may find a node besides under whose id the tag was once listed twice
(`repeated`), see the known divergences. `VIEW` leaves out the last answer, which no action
reads; what is answered is checked on every step.

`session` has two nodes, two processes, three shows, one crash, and a clock of six ticks
that may also be set back. A second is two ticks, an interval two seconds and the
threshold 3, so that three shows can cross the threshold only with an interval between
them, and times differ by less than a second, by a second, and by an interval.
`ScoreExact` is about shows recorded in the order of their times; `disorder` records
that one was not, because the clock was set back or shows overlapped. `EveryShowCounts`
says that a show is lost in two ways only. A process that is killed between cut and fill
takes with it all that was on record by then (`lost`), and no show that is recorded later;
it may leave a file that does not parse, which nothing else does. Or two shows, or a show
and a clear, clash as above. Shows that are under way together but do not read before the
other has written lose nothing, nor does a show that is killed before it has cut the file.
No show may be left in the end, so deadlock is not checked.

`migrate` has four graphs: one that completes, with a task state; one that begins with a
task state and has a record without a plan; one whose second goal is refused; one with a
record without dates. A rerun finds its legacy ids in use. Six prefixes with one slot
each leave ids for the longest graph but not for two, so that runs exhaust them; two
runs, one crash and two commands (`MaxRuns`, `MaxCrashes`, `MaxCommands`) let a rerun
meet what a stopped run left and what a command changed. `RunsOnlyAdd` says that no run
touches a stored node; `RecordsHaveNotes`, `ReportTrue` and `LegacyIdsKept` are about
every moment of a run, and the last only about graphs whose ids are distinct, legacy and
free. `ids_wrap` is the same with four prefixes. The bounds on runs end it all, so
deadlock is not checked.

`export` has five ids: three nodes that two links connect in a chain, around an archived
node, as a star or only half (a link with one end). Depths 0 to 2 reach from one end of a
chain to the other; one group has the limit one. One edit (`MaxEdits`) falls between any
two accesses. `ReachExact` compares the walk with paths of bounded length in the store
and so holds of exports during which nothing was edited; the other properties hold
whatever is edited. `ExportEnds` is liveness under `WF_vars(Step)`: an export that can take
a step takes one, because a process that is not killed goes on and waits for nobody; other
processes are given no fairness.

`template` renders every template of up to three lines over all directives, blocks with
blocks, includes and quotes in either branch and uses behind them, every sequence of up to
four conditions before a quote, and every expression of up to four words, each with and
without a resolver and with skills expanded or not. Blocks in blocks and one use behind
are what tells a stack from a counter and a pending condition from a consumed one.
`LeakNeedsUntakenIf` compares the output with `TemplateMeaning` at every line;
`template_leak` drops the condition about untaken branches. That a text in RTEXT is subject
to conditions is the code's rule, and a test's (`test_fact_false_rtext_suppressed`), and
`TemplateMeaning` has it. `FailsForACause` asks every exception for its cause, and says
where one other than ParseError may come from; the documents of zhar say otherwise of
both, see the known divergences. Rendering ends, so deadlock is not checked.

`stack` has two processes of one command each and two buckets of two repositories that
have a path in common. The registry, index and directories are empty, whole, or have a
bucket that a `remove` left half done. `x`, `y` and `z` are an agent in both, a skill, and
a hook that does not render. `EditsStayUnlessClash` and `OrphansNeedClash` name what can
go wrong with documents: a process writes a copy that another has overtaken, or dies between
cutting and filling. `RendersWhatIsAsked` is about a sync that nobody disturbed and about
every fetch. Of a sync whose item was uninstalled meanwhile `StackTypeOK` says what is left
to say: each item it passes is counted once, as written or as an error. Processes end, so deadlock is not checked. `stack_label` checks what the
instructions of zhar say of qualified names.

Known divergences that no run shows by itself, since a run above covers their cause:

- a link or note whose end was removed makes `sync_sources` raise, and later hits are not
  patched (`mem/scan.py:116`; `FailureIsHarmless` covers what is left);
- a save can be lost to a process that read the file before it, or to a cache entry that a
  write in the same tick left valid (`LossNeedsClash`);
- `zhar add` whose attached note finds no id leaves the node without the note and ends with
  a traceback, since it catches ValueError only (`cli/memory.py:210`; `FailureIsHarmless`
  covers what is left);
- gc deletes a node that expires at this very instant (`mem/gc.py:54`, `<=`), while its
  module comment has "nodes whose `expires_at < utcnow()` are deleted" (`mem/gc.py:5`;
  `GcSettles` has the rule of the code);
- a tag that a node lists twice stays in the index when the node is replaced or removed,
  since `_drop` removes one entry (`mem/index.py:107`), so a query by the tag may find a
  node that is without it; the comment of `add` says that "all old index entries for that
  ID are cleaned up first" (`mem/index.py:33-34`). No command gives a stored node other
  tags, so this takes a caller of `MemStore.save` (`KeepsPromise` allows it, and no more);
- the text of an RTEXT block is left out when a condition before it fails
  (`parser/render.py:206`), as `tests/parser/test_render.py:145` wants it, while README.md:457
  says "This text is emitted verbatim regardless of conditions." (`LeakNeedsUntakenIf` has
  the rule of the code);
- `render` promises a ParseError "on any structural or evaluation error"
  (`parser/render.py:150-153`, and `:39`), but the CondError of a FACT or ORFACT
  (`:192`), and the IndexError of any expression, leave it as they are
  (`FailsForACause` names these two ways);
- a show killed between cut and fill takes every show of the session with it
  (`mem_session/store.py:40`; `EveryShowCounts` counts them in `lost`);
- a show that began before another and records after it makes an interval count twice
  (`ScoreExact` excepts `disorder`);
- `export --group X --group X` lists the nodes of X twice (`PrintedOnce` excepts it), and
  `--status` "default: all" (`cli/memory.py:539`) means the current statuses;
- an expression such as `x and` raises IndexError, not CondError (`parser/cond.py:110`),
  and `or` alone is accepted; README's `MEMCOND(len(decision_trail) > 0)` is never true,
  as only `<group>_count` facts exist;
- an exact source path may be ambiguous between two repositories, and a fuzzy request may
  return the other repository's source;
- a `remove` that was killed leaves an empty directory that counts as cached until `remove`
  is repeated; an index cut by a killed process fails every bucket command.

## Proofs

`MemStoreProofs` proves `TypeOK`, `IndexIsRebuild`, `OneHome`, `StoredNodesValid` and
`OneActiveSingleton` as invariants of `MemStore!Spec`, for every schema that satisfies
`SchemaAssumption`, every set of ids and every clock bound (`TimeAssumption`,
`NoneAssumption`, `InputAssumption`). The assumptions are facts of the built-in groups; TLC
evaluates them in every run.

None of these is inductive by itself. The inductive invariant `IInv` is
`Consistent(file, index)`: files and index have their types; the index entry of an id is
the reference of the node in the file of its group, and no other file has the id
(`Agrees`); every stored node is proper (right file, valid status, content and path);
and two active nodes of a singleton type are one. Agreement is what makes the checks of
`_validate`, which look at the index, say something about the files. The proof has one
lemma for a write (`WriteConsistent`, `SaveConsistent`), one for a deletion
(`EraseConsistent`), one for each command, and puts them together in `NextIInv`.

The action properties of `MemStore` follow from `IInv` and from what one command does to
the files (`StepEffect`): under each id it leaves the node, deletes it, or writes one that
`_validate` accepted against an index that agrees with the files. `FailureIsHarmless` and
`GcSettles` say more of single commands and have their own lemmas. For a command that
found no id, `Effect` says that it wrote nothing, or one new node of a type without a body;
that is the first save of `Add`, which is why `OneSaved` allows for both ways to end.

`SessionRuntimeProofs` proves all four properties of the run `session`, for any number of
nodes, processes, shows and crashes, from `SessionAssumption` (an interval is a number of
whole seconds) and `DocumentAssumption` (no document is not a document). `IInv` extends
the properties from the file to the documents that shows are about to write
(`DocumentsSound`), and says, as long as nothing clashed, that one show at most is between
its read and the end of its write, that what is on record and what is lost make up what
was shown, and that the document about to be written has this show besides (`Serial`). A
process that is killed in the middle of its write is the one case that moves shows from
the record to `lost` (`CrashAtFillKeeps`). Two facts carry
the score. Times are cut to seconds before the next show subtracts them, yet no interval
is lost or gained by that, because the reference time is a whole second and so is the
interval (`CutKeepsIntervals`): this is where the assumption is needed. And what is
counted never decreases as long as the shows are in order (`IntervalsMonotone`), so the
sum of the differences is the difference of the ends (`NextScoreExact`).

`MemProcessesProofs` proves the five invariants of the run `procs` for any number of
processes, commands and groups, from `ProcessAssumption`: the initial stores are sound,
commands are well formed. Its invariant has four parts. `Typed`: what holds of a process by
itself, so that it plans edits of what its index has, one per id. `Turns`: outside
`clash`, one process at most rewrites a file, and from a read that was not blind to the end
of its write the copy is what all edits so far made (`settled`). `Sight`: what a process
that is not `stale` has cached and planned agrees with the files that are whole. `InTurn`:
as long as every write came from a process that saw the one before it, an id has one file
and a singleton is single. The last part is about
`Serial` runs, and that is what the singleton property needs: a process may be neither
stale nor late and still pass the check wrongly, when its cache entry survived a write of
the same tick (the file was cut and its id freed by a second process, and a third has
added under that id elsewhere); so `SingletonNeedsLateWriter` names `blind` as a cause
beside `late`.

`StackProofs` proves the four properties of the run `stack` for any number of processes,
buckets, names and commands, from `StackAssumption` and `SourcesAssumption`, whatever the
fuzzy score is. The copy of a process that is not stale is the document, and is still cut
while it is filled (`CopyFits`); this is what makes writing a whole document back the same
as making the edit. `FetchFits` says that the source found answers the request, through
the three ways a name is looked up, and `SyncFits` that a sync nobody disturbed has read
what is there and rendered it.

`MigrationProofs` proves the run's four invariants and its two action properties for every
graph, crash and number of reruns. `JobInv` extends the invariant of `MemStore` by what the
counts of a run, its ids and the nodes made so far have to do with each other. Every step
is a memory command or leaves the store alone (`MigrationIsCommands`), so a store under
migrations behaves as `MemStore!Spec` (`MigrationIsStore`) and what is proved of `MemStore`
holds of it. `NewNodesAssumption` says that `zhar add` could add the nodes a run makes.

`ExportProofs` proves the five invariants of the run `export` for every store, schema,
request, depth and any number of edits. `IInv` says stage by stage what has been collected
and what is awaited (`AtSeeds`, `AtEligible`, `AtLinks`, `AtWalk`, `AtDone`), and, when
nothing was touched, that this is exactly what was asked for. `Walked` is breadth first:
visited is what a walk of at most so many links reaches, and the frontier what no shorter
one does; `RoundWalks` shows that a round keeps that, and an empty frontier ends it. The
limits of groups are about positions in an order by creation; a group within its limit
loses nothing, one beyond it keeps exactly that many.

`MemIndexProofs` proves the properties of the run `index` for any number of ids and tags and
whatever nodes list how often. Its invariant is about each list and each id (`Exact`): the
list holds the id if its reference or the tags last added have the key, and, unless the
key is a tag that was once listed twice under the id (`Spoilt`), holds it once and only
then. `Drop` removes one occurrence, which is enough where there is one (`DropExact`).
Group, type and status are never spoilt, whence `ListsExact`; what a query resolves beyond
what matches is spoilt, whence the refinement `KeepsPromise`.
`EntryAssumption` says that a removed node is told from a node.

`TemplateProofs` proves the three invariants of the run `template` for every template and
every context, however long and deep, from `TemplateAssumption` (a sentinel key for each
line) and `CondAssumption` (values that differ are ordered as strings). It has four parts.

- Expressions: on a sound expression, `EvalExpr` is an answer, and the one that `Means`
  says (`SoundEvaluates`). The value stream is told by where in the expression each value
  comes from (`StreamOf`), the list after the fold of `and` by which member each value has
  gone to (`ListOf`); a member of the list is then what stands between two `or`.
- The text: how depth, enclosing blocks, branches, conditions and RTEXT blocks change from
  a line to the next (`DepthStep`, `EnclosesStep`, `BranchStep`, `ConditionsStep`,
  `QuotedStep`), and that a block in a block is in the branches of the outer one
  (`TakenOuter`).
- The renderer: what a line does to each of its variables (`StackMoves`,
  `ConditionsMove`, `QuoteMoves`, `OutMoves`, `FactsMove`).
- The two together: `IInv` says that the facts are those of the context and of MEMCOND
  lines, the frames those of the open blocks, each in the branch of the text (`FramesFit`),
  and the RTEXT block that of the text. As long as the text is clean (`CleanTo`: sound, and
  no IF with conditions of its own in a branch that is not taken), the pending groups have
  the values of those in the text (`ConditionsFit`), the frames those of their conditions
  (`FramesMean`), and the output is the lines that are shown (`OutFits`).

The proviso of `FramesMean` is what makes it inductive: the frame of an IF in a branch
not taken has no condition (the code stores `False`), and need have none, because some
frame outside it is inactive already. `ActiveIsTaken` turns that into the equality of
`AllActive` and `Taken`, from the outermost block whose branch is not taken.

### What is checked by TLC only

- `ExportEnds`: liveness under fairness is out of the prover's reach, as ENABLED is.
- The violations have no theorem: each shows a state that the code does reach.

All other properties of the runs that pass are theorems. Induction over data is not
available to the prover as a rule, and is had from a least counterexample instead: a set
of numbers that has a member has a first one (`FirstOf`), so what holds of zero and of
each number after one it holds of is true of all up to a bound (`StepByStep`). The two
loops of `eval_expr` and the prefixes that `make_id_unique` draws (`DrawsAre`) are
reasoned about in this way, and a least member (`LeastOf`) serves the limits of an export
and the lists of the index. The models take the cases of a function by
IF where a theorem needs them.

## Not modelled

Metadata field types and runtime context of groups; `init`, `query`, `status`, `verify`
and the list commands, which only read or write a file nobody else writes;
`mem/loader.py`, a dynamic import whose result is the constants of `MemSchema`;
`harness/` and `scripts/sync_harness_files.py`, copies of packaged files one by one;
argument parsing, text and JSON output (`cli/serializers.py`, `cli/common.py`). Scan,
`note`, and add of a node together with a note, are modelled serially (`MemStore`) and
not between processes. Words of an expression that begin with a connector and
punctuation (`not-ready`) are split by the code in a way `CondExpr` leaves out.

## Plan

What was planned is modelled, checked and proved, but for the liveness of an export. To
extend the project, in this order: scan, `note` and add-with-note between processes
(`MemProcesses` has the single commands; the compound ones add crashes between their
saves, which `MemStore` has serially); the checks of `validate_node_metadata` as guards of
`Accepts`; and the mirrored files of `harness/`.
