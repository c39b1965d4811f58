-------------------------------- MODULE Stack --------------------------------
(***************************************************************************)
(* zhar stack and zhar facts as processes (stack/, utils/facts.py,            *)
(* cli/stack.py, cli/facts.py).  They share four documents, each rewritten as *)
(* a whole from the copy a process has loaded: the registry, the bucket index *)
(* and the project and global facts; and the bucket directories.              *)
(***************************************************************************)
EXTENDS StackSources, Sequences

CONSTANTS
  Procs, Commands,
  Keys, Vals,    \* of facts
  Upstream,      \* Buckets -> SUBSET Paths: what GitHub has
  Broken,        \* paths of templates that the renderer refuses
  NameOrder,     \* Names -> Nat: sorted()
  Initial        \* what the documents and directories may be at the start

Entry == [bucket : Buckets, kind : Kinds, path : Paths]
Docs == {"registry", "index", "project", "global"}
Domain == [f \in Docs |-> CASE f = "registry" -> Names [] f = "index" -> Buckets [] OTHER -> Keys]
Content == [f \in Docs |-> CASE f = "registry" -> Entry [] f = "index" -> {"cached"} [] OTHER -> Vals]
Empty == [f \in Docs |-> [k \in Domain[f] |-> None]]

\* A bucket directory holds some of its files, or is gone.
Dirs == [Buckets -> [there : BOOLEAN, files : SUBSET Paths]]

\* op with, where it has them: name; buckets (those of a repository, or of one branch);
\* kind; request and conf; doc, key and val; dry.
Op == {"install", "uninstall", "add", "remove", "fetch", "sync", "set", "unset", "get"}

SoundCommand(c) ==
  /\ c.op \in Op
  /\ c.op \in {"install", "uninstall"} => c.name \in Names
  /\ c.op \in {"install", "add", "remove"} => c.buckets \subseteq Buckets
  /\ c.op = "install" => c.kind \in Kinds
  /\ c.op \in {"set", "unset"} => c.doc \in {"project", "global"} /\ c.key \in Keys
  /\ c.op = "set" => c.val \in Vals

\* What is cached is from GitHub, and in the index.
SoundStart(s) ==
  /\ \A f \in Docs : s.doc[f] \in [Domain[f] -> Content[f] \cup {None}]
  /\ s.doc = [f \in Docs |-> s.doc[f]]
  /\ s.dir \in Dirs
  /\ \A b \in Buckets :
       /\ s.dir[b].there => s.doc["index"][b] # None
       /\ s.dir[b].files \subseteq Upstream[b]

ASSUME StackAssumption ==
  /\ Upstream \in [Buckets -> SUBSET Paths] /\ Broken \subseteq Paths
  /\ NameOrder \in [Names -> Nat]
  /\ \A c \in Commands : SoundCommand(c)
  /\ \A s \in Initial : SoundStart(s)
  /\ None \notin Entry /\ None \notin Source /\ None \notin Vals /\ "cached" # None
  /\ \A f \in Docs : None \notin [Domain[f] -> Content[f] \cup {None}]

VARIABLES
  doc,    \* the documents,
  cut,    \* those that are truncated and not yet filled,
  torn,   \* and those that hold parts of two writes
  dir,    \* the bucket directories
  output, \* what sync has written, by name and kind
  proc,   \* the processes
  meant,  \* history: the documents with every edit that was made,
  stale,  \* processes that loaded a document which was changed since,
  clash,  \* documents written by one of those, or left truncated,
  disturbed  \* and processes during which another took a step

vars == <<doc, cut, torn, dir, output, proc, meant, stale, clash, disturbed>>
shared == <<doc, cut, torn, dir, output>>

Idle ==
  [status |-> "idle", cmd |-> None, pos |-> 0,
   loaded |-> None,  \* the copy of the document
   left |-> {},      \* buckets to remove, or names to sync
   listed |-> None,  \* kinds of the items, as sync has listed them
   entry |-> None,   \* the entry of the item, read again
   source |-> None,  \* what a name was resolved to
   facts |-> Empty["global"],
   synced |-> {}, errors |-> {}]

StackInit ==
  /\ \E s \in Initial : doc = s.doc /\ dir = s.dir
  /\ cut = {} /\ torn = {}
  /\ output = [n \in Names |-> [k \in Kinds |-> None]]
  /\ proc = [i \in Procs |-> Idle]
  /\ meant = doc /\ stale = {} /\ clash = {} /\ disturbed = {}

\* The stages of each command.  `remove` deletes the directories before it rewrites
\* the index.
InstallStages == <<"find", "ensure", "resolve", "load", "cut", "fill">>
RewriteStages == <<"load", "cut", "fill">>
RemoveStages_IndexFirst == <<"load", "cut", "fill", "rmtree">>
RemoveStages == <<"load", "rmtree", "cut", "fill">>
FactsStages == <<"global", "project">>
FetchStages == <<"global", "project", "resolve", "print">>
SyncStages == <<"global", "project", "list", "items">>

Stages(c) ==
  CASE c.op = "install" -> InstallStages
    [] c.op \in {"uninstall", "set", "unset"} -> RewriteStages
    [] c.op = "add" -> <<"ensure">>
    [] c.op = "remove" -> RemoveStages
    [] c.op = "fetch" -> FetchStages
    [] c.op = "sync" -> SyncStages
    [] c.op = "get" -> FactsStages

\* The document a command rewrites.
DocOf(c) ==
  CASE c.op \in {"install", "uninstall"} -> "registry"
    [] c.op = "remove" -> "index"
    [] c.op \in {"set", "unset"} -> c.doc
    [] OTHER -> None

Running == {i \in Procs : proc[i].status = "running"}
In(i, stage) == i \in Running /\ Stages(proc[i].cmd)[proc[i].pos] = stage

Advance(q) ==
  IF q.pos = Len(Stages(q.cmd)) THEN [q EXCEPT !.status = "done"] ELSE [q EXCEPT !.pos = @ + 1]
Ended(q, status) == [q EXCEPT !.status = status]

\* Process i goes on as q; every other one that runs has been disturbed.
Become(i, q) ==
  /\ proc' = [proc EXCEPT ![i] = q]
  /\ disturbed' = disturbed \cup (Running \ {i})

Quietly(i, q) == Become(i, q) /\ UNCHANGED <<shared, meant, stale, clash>>
Fails(i) == Quietly(i, Ended(proc[i], "failed"))

\* The registry and facts take an empty file for an empty document, the index does
\* not; no JSON can be read from parts of two.
Readable(f) == f \notin torn /\ (f = "index" => f \notin cut)
Read(f) == IF f \in cut THEN Empty[f] ELSE doc[f]
Indexed == {b \in Buckets : doc["index"][b] # None}

\* Processes other than i with a copy of f.
Holders(i, f) ==
  {j \in Running \ {i} : DocOf(proc[j].cmd) = f /\ proc[j].loaded # None}

Start(i) == \E c \in Commands :
  /\ proc[i].status = "idle"
  /\ Quietly(i, [Idle EXCEPT !.status = "running", !.cmd = c, !.pos = 1])

\* path_for: the directory of the bucket, if the index lists it and it is there.
Cached(b) == b \in Indexed /\ dir[b].there

FindBucket(i) ==
  /\ In(i, "find")
  /\ LET q == proc[i] IN
     IF ~Readable("index") THEN Fails(i)
     ELSE IF \E b \in q.cmd.buckets : Cached(b) THEN Quietly(i, Advance(Advance(q)))
     ELSE Quietly(i, Advance(q))

\* GhCacheDir.ensure: the bucket is cloned or pulled, and indexed; or it fails.
Ensure(i) ==
  /\ In(i, "ensure")
  /\ \/ \E b \in proc[i].cmd.buckets :
          /\ Readable("index")
          /\ dir' = [dir EXCEPT ![b] = [there |-> TRUE, files |-> Upstream[b]]]
          /\ doc' = [doc EXCEPT !["index"][b] = "cached"]
          /\ meant' = [meant EXCEPT !["index"][b] = "cached"]
          /\ stale' = stale \cup Holders(i, "index")
          /\ Become(i, Advance(proc[i])) /\ UNCHANGED <<cut, torn, output, clash>>
     \/ Fails(i)

\* The sources that list_repos and discover_cached_stack_sources find now.
Candidates ==
  Discovered({b \in Buckets : Cached(b)}, [b \in Buckets |-> dir[b].files])

Wanted(c) ==
  IF c.op = "fetch" THEN Candidates
  ELSE {s \in Candidates : s.bucket \in c.buckets /\ KindOf[s.path] = c.kind}

ResolveSource(i) ==
  /\ In(i, "resolve")
  /\ LET q == proc[i]
         found == IF ~Readable("index") THEN {} ELSE Resolve(q.cmd.request, Wanted(q.cmd), q.cmd.conf)
     IN \/ \E s \in found : Quietly(i, Advance([q EXCEPT !.source = s]))
        \/ found = {} /\ Fails(i)

\* What a command changes in its copy, and to what.
Touched(c) ==
  CASE c.op \in {"install", "uninstall"} -> {c.name}
    [] c.op = "remove" -> c.buckets
    [] c.op \in {"set", "unset"} -> {c.key}

Value(c, source) ==
  CASE c.op = "install" -> [bucket |-> source.bucket, kind |-> c.kind, path |-> source.path]
    [] c.op = "set" -> c.val
    [] OTHER -> None

Edited_Afresh(c, source, loaded) ==
  [k \in DOMAIN loaded |-> IF k \in Touched(c) THEN Value(c, source) ELSE None]

Edited(c, source, loaded) ==
  [k \in DOMAIN loaded |-> IF k \in Touched(c) THEN Value(c, source) ELSE loaded[k]]

\* Nothing to take away: the command ends without writing.
NothingToDo(c, loaded) ==
  c.op \in {"uninstall", "unset", "remove"} /\ \A k \in Touched(c) : loaded[k] = None

\* _load, Facts.__init__, _read_index, which does not take an empty file.
Load(i) ==
  /\ In(i, "load")
  /\ LET q == proc[i]
         f == DocOf(q.cmd)
         loaded == Read(f)
     IN IF ~Readable(f) THEN Fails(i)
        ELSE IF NothingToDo(q.cmd, loaded) THEN Quietly(i, Ended(q, "done"))
        ELSE /\ stale' = IF f \in cut THEN stale \cup {i} ELSE stale
             /\ Become(i, Advance([q EXCEPT !.loaded = loaded,
                  !.left = IF f = "index" THEN {b \in q.cmd.buckets : loaded[b] # None} ELSE {}]))
             /\ UNCHANGED <<shared, meant, clash>>

\* shutil.rmtree of one directory after the other: the files, then the directory.
RemoveTree(i) ==
  /\ In(i, "rmtree")
  /\ LET q == proc[i]
         b == CHOOSE x \in q.left : \A y \in q.left : FolderOrder[x] <= FolderOrder[y]
         rest == [q EXCEPT !.left = @ \ {b}]
     IN IF q.left = {} THEN Quietly(i, Advance(q))
        ELSE IF ~dir[b].there THEN Quietly(i, rest)
        ELSE /\ dir' = [dir EXCEPT ![b] = [there |-> dir[b].files # {}, files |-> {}]]
             /\ Become(i, IF dir[b].files # {} THEN q ELSE rest)
             /\ UNCHANGED <<doc, cut, torn, output, meant, stale, clash>>

\* Opening the document for writing cuts it, and then it is filled.
Cut(i) ==
  /\ In(i, "cut")
  /\ LET f == DocOf(proc[i].cmd) IN
     /\ cut' = cut \cup {f} /\ torn' = torn \ {f}
     /\ clash' = IF i \in stale THEN clash \cup {f} ELSE clash
     /\ stale' = stale \cup Holders(i, f)
     /\ Become(i, Advance(proc[i])) /\ UNCHANGED <<doc, dir, output, meant>>

\* If another process has filled it meanwhile, what that one wrote may stick out.
Fill(i) ==
  /\ In(i, "fill")
  /\ LET c == proc[i].cmd
         f == DocOf(c)
     IN /\ doc' = [doc EXCEPT ![f] = Edited(c, proc[i].source, proc[i].loaded)]
        /\ meant' = [meant EXCEPT ![f] = [k \in Domain[f] |->
             IF k \in Touched(c) THEN Value(c, proc[i].source) ELSE @[k]]]
        /\ cut' = cut \ {f}
        /\ torn' \in IF f \in cut THEN {torn} ELSE {torn, torn \cup {f}}
        /\ clash' = IF i \in stale THEN clash \cup {f} ELSE clash
        /\ stale' = stale \cup Holders(i, f)
        /\ Become(i, Advance([proc[i] EXCEPT !.loaded = None]))
        /\ UNCHANGED <<dir, output>>

\* load_effective_facts: the project's facts over the global ones.
Merged(below, above) == [k \in Keys |-> IF above[k] # None THEN above[k] ELSE below[k]]

ReadFacts(i) == \E scope \in {"global", "project"} :
  /\ In(i, scope)
  /\ IF ~Readable(scope) THEN Fails(i)
     ELSE Quietly(i, Advance([proc[i] EXCEPT !.facts = Merged(@, Read(scope))]))

Render(source, kind, facts) ==
  [source |-> source, skills |-> kind = "skill", facts |-> facts]

\* render_cached_stack_source, if the file is still there.
PrintSource(i) ==
  /\ In(i, "print")
  /\ LET s == proc[i].source IN
     IF dir[s.bucket].there /\ s.path \in dir[s.bucket].files \ Broken
       THEN Quietly(i, Advance(proc[i]))
       ELSE Fails(i)

\* sync_stack: list_items, and for every item its entry once more, its bucket and
\* source, and the rendered file, under the kind that was listed.
ListItems(i) ==
  /\ In(i, "list")
  /\ LET registry == Read("registry")
         names == {n \in Names : registry[n] # None}
     IN IF ~Readable("registry") THEN Fails(i)
        ELSE Quietly(i, Advance([proc[i] EXCEPT !.left = names,
                                   !.listed = [n \in names |-> registry[n].kind]]))

Item(q) == CHOOSE n \in q.left : \A m \in q.left : NameOrder[n] <= NameOrder[m]

GetItem_Silent(i) ==
  /\ In(i, "items") /\ proc[i].left # {} /\ proc[i].entry = None
  /\ LET q == proc[i]
         n == Item(q)
         entry == Read("registry")[n]
     IN Quietly(i, IF Readable("registry") /\ entry # None THEN [q EXCEPT !.entry = entry]
                   ELSE [q EXCEPT !.left = @ \ {n}])

GetItem(i) ==
  /\ In(i, "items") /\ proc[i].left # {} /\ proc[i].entry = None
  /\ LET q == proc[i]
         n == Item(q)
         entry == Read("registry")[n]
     IN Quietly(i, IF Readable("registry") /\ entry # None THEN [q EXCEPT !.entry = entry]
                   ELSE [q EXCEPT !.errors = @ \cup {n}, !.left = @ \ {n}])

\* Whether a registered item can be rendered.
Available(entry) ==
  /\ Readable("index") /\ Cached(entry.bucket)
  /\ entry.path \in dir[entry.bucket].files \ Broken

SyncItem(i) ==
  /\ In(i, "items") /\ proc[i].entry # None
  /\ LET q == proc[i]
         n == Item(q)
         kind == q.listed[n]
         next == [q EXCEPT !.left = @ \ {n}, !.entry = None]
     IN IF Available(q.entry)
          THEN /\ output' = IF q.cmd.dry THEN output
                   ELSE [output EXCEPT ![n][kind] =
                           Render([bucket |-> q.entry.bucket, path |-> q.entry.path], kind, q.facts)]
               /\ Become(i, [next EXCEPT !.synced = @ \cup {n}])
               /\ UNCHANGED <<doc, cut, torn, dir, meant, stale, clash>>
          ELSE Quietly(i, [next EXCEPT !.errors = @ \cup {n}])

EndSync(i) ==
  /\ In(i, "items") /\ proc[i].left = {}
  /\ Quietly(i, Advance(proc[i]))

\* A process is killed; a document it has cut stays empty.
Crash(i) ==
  /\ i \in Running
  /\ clash' = IF In(i, "fill") THEN clash \cup {DocOf(proc[i].cmd)} ELSE clash
  /\ Become(i, Ended(proc[i], "crashed"))
  /\ UNCHANGED <<shared, meant, stale>>

Step(i) ==
  \/ Start(i) \/ FindBucket(i) \/ Ensure(i) \/ ResolveSource(i) \/ Load(i) \/ RemoveTree(i)
  \/ Cut(i) \/ Fill(i) \/ ReadFacts(i) \/ PrintSource(i) \/ ListItems(i) \/ GetItem(i)
  \/ SyncItem(i) \/ EndSync(i) \/ Crash(i)

Next == \E i \in Procs : Step(i)

Spec == StackInit /\ [][Next]_vars

-----------------------------------------------------------------------------
\* Types; and sync accounts for every item it has listed, once.
StackTypeOK ==
  /\ \A f \in Docs : doc[f] \in [Domain[f] -> Content[f] \cup {None}]
  /\ cut \subseteq Docs /\ torn \subseteq Docs /\ clash \subseteq Docs
  /\ dir \in Dirs
  /\ \A i \in Procs : LET q == proc[i] IN
       /\ q.status \in {"idle", "running", "done", "failed", "crashed"}
       /\ q.source # None => q.source \in Source
       /\ q.listed # None =>
            /\ q.left \cup q.synced \cup q.errors = DOMAIN q.listed
            /\ q.left \cap q.synced = {} /\ (q.left \cup q.synced) \cap q.errors = {}

\* Every install, uninstall, set and unset that has ended, and every change of the
\* index, is in its document, unless a process wrote a copy that another one had
\* overtaken, or was killed between cutting a document and filling it.
EditsStayUnlessClash ==
  \A f \in Docs \ clash : f \notin torn /\ doc[f] = meant[f]

\* remove may stop anywhere and be repeated: a directory that is left is still in
\* the index, where remove, path_for and discovery find it.
OrphansNeedClash ==
  "index" \notin clash => \A b \in Buckets : dir[b].there => b \in Indexed

\* A sync that was alone has written every registered item that can be rendered,
\* under its kind and with the project's facts over the global ones, and has reported
\* every other one.
SyncExact(i) ==
  LET q == proc[i]
      registry == Read("registry")
      facts == Merged(Read("global"), Read("project"))
      ready == {n \in Names : registry[n] # None /\ Available(registry[n])}
  IN i \notin disturbed =>
       /\ q.synced = ready
       /\ q.errors = {n \in Names : registry[n] # None} \ ready
       /\ ~q.cmd.dry => \A n \in ready :
            output[n][registry[n].kind] =
              Render([bucket |-> registry[n].bucket, path |-> registry[n].path],
                     registry[n].kind, facts)

\* What fetch prints bears the name that was asked for or, where no two repositories
\* have it at the same path, is as similar to it as --fuzzy-conf demands.
FetchExact(i) ==
  LET c == proc[i].cmd
      s == proc[i].source
      own == {Bare(NameOfSource(s)), QualifiedName(s), AtPath(s.path)}
  IN \/ c.request \in own
     \/ c.conf # Exact /\ \E label \in own : Similar(c.request, label) >= c.conf
     \/ \E b \in Buckets \ {s.bucket} : s.path \in Upstream[b]

RendersWhatIsAsked ==
  [][\A i \in Procs : (EndSync(i) => SyncExact(i)) /\ (PrintSource(i) => FetchExact(i))]_vars

\* zhar-stack.instructions.md:72: "When multiple cached repos expose the same bare name,
\* the bare lookup is ambiguous. Use the repo-qualified name or exact source path instead."
\* A qualified name that one source bears finds that source.
QualifiedNameResolves ==
  \A i \in Procs : In(i, "resolve") /\ proc[i].cmd.op = "fetch" /\ Readable("index") =>
    \A s \in Candidates :
      {t \in Candidates : QualifiedName(t) = proc[i].cmd.request} = {s} =>
        Resolve(proc[i].cmd.request, Candidates, proc[i].cmd.conf) = {s}
=============================================================================
