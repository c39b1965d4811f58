----------------------------- MODULE MemStore -----------------------------
(***************************************************************************)
(* The memory store (mem/store.py) under one process at a time: the group   *)
(* files, the index a MemStore holds over them, and the commands of the CLI *)
(* that change either (cli/memory.py, mem/gc.py, mem/scan.py).  A command   *)
(* is one step here; MemProcesses splits it into its file accesses.         *)
(***************************************************************************)
EXTENDS MemSchema, FiniteSets

CONSTANTS
  NewNodes,   \* the nodes callers create, after validate_node_metadata
  Queries     \* the filters callers pass to prune: types, statuses and a limit

ASSUME InputAssumption ==
  /\ NoteType \in Types
  /\ NewNodes \subseteq Node
  /\ Queries \subseteq [types : SUBSET Types, statuses : SUBSET Statuses, limit : Nat]

VARIABLES
  file,    \* file[g][i]: the node the JSON file of group g holds under id i
  index,   \* MemIndex: the reference the live store has for each id
  now,     \* the clock, as far as expiry needs it
  reply    \* how the last command ended

vars == <<file, index, now, reply>>

\* "no id" is the RuntimeError of a command for which allocate_id found none.
Replies == {"ok", "error", "no id"}

-----------------------------------------------------------------------------
(* Reads.                                                                   *)

Homes(f, i) == {g \in Groups : f[g][i] # None}

\* MemStore._rebuild_index: one pass over every node of every group file.
Rebuild(f) ==
  [i \in Ids |-> IF Homes(f, i) = {} THEN None
                 ELSE RefOf(f[CHOOSE g \in Groups : f[g][i] # None][i])]

\* MemStore.get: the index names the group, the group's file has the node.
Get(i) == IF index[i] = None THEN None ELSE file[GroupOf[index[i].type]][i]

\* QueryEngine.run without filters, as ids: what is indexed and can be fetched.
Fetched == {i \in Ids : Get(i) # None}

FreshIds_Any(idx) == Ids
\* MemStore.allocate_id: any id the index does not hold, removed ones included.
FreshIds(idx) == {i \in Ids : idx[i] = None}

\* Or none: all of its draws may hit ids in use although others are free (see
\* IdAllocation).  An id in the first block is drawn again and again only once
\* one in the last block is in use too, so it takes two.
DrawsFail(idx) == Cardinality({i \in Ids : idx[i] # None}) > 1

-----------------------------------------------------------------------------
(* Writes.  `new` maps the ids of a command's writes to the nodes written.   *)

\* JsonBackend.save of each new node, in the file of its own group.
Write(f, new) ==
  [g \in Groups |-> [i \in Ids |->
    IF i \in DOMAIN new /\ GroupOf[new[i].type] = g THEN new[i] ELSE f[g][i]]]

Reindex_Forgets(idx, new) == idx
\* MemIndex.add of each new node.
Reindex(idx, new) ==
  [i \in Ids |-> IF i \in DOMAIN new THEN RefOf(new[i]) ELSE idx[i]]

\* JsonBackend.delete of each id of `gone`, in the file the index names.
Erase(f, idx, gone) ==
  [g \in Groups |-> [i \in Ids |->
    IF i \in gone /\ idx[i] # None /\ GroupOf[idx[i].type] = g THEN None
    ELSE f[g][i]]]

DropRefs_Forgets(idx, gone) == idx
\* MemIndex.remove of each id of `gone`.
DropRefs(idx, gone) == [i \in Ids |-> IF i \in gone THEN None ELSE idx[i]]

Single(i, n) == [k \in {i} |-> n]

\* The command exits with an error and has written nothing.
Fail == reply' = "error" /\ UNCHANGED <<file, index, now>>

\* allocate_id has raised its RuntimeError, which no command catches, before
\* anything was written.
NoId == reply' = "no id" /\ UNCHANGED <<file, index, now>>

\* The command has saved `new`, and ends as `result` says.
Saved(new, result) ==
  /\ file' = Write(file, new)
  /\ index' = Reindex(index, new)
  /\ reply' = result
  /\ UNCHANGED now

\* MemStore.save of node n under id i as the last call of a command.
Save(i, n) ==
  LET m == Normalize(n) IN
  \/ Accepts(i, m, index) /\ Saved(Single(i, m), "ok")
  \/ Rejects(i, m, index) /\ Fail

Deleted(gone) ==
  /\ file' = Erase(file, index, gone)
  /\ index' = DropRefs(index, gone)
  /\ reply' = "ok"
  /\ UNCHANGED now

-----------------------------------------------------------------------------
(* Commands.                                                                *)

Init ==
  /\ file = [g \in Groups |-> [i \in Ids |-> None]]
  /\ index = [i \in Ids |-> None]
  /\ now = 0
  /\ reply = "ok"

\* A new process opens the store.
Open == index' = Rebuild(file) /\ UNCHANGED <<file, now, reply>>

\* Time passes; nodes expire by it.
Tick == now < MaxTime /\ now' = now + 1 /\ UNCHANGED <<file, index, reply>>

\* A body given for a type that is not memory backed is refused when it is
\* --content, and kept as an attached note when it came from the environment.
Misplaced(n, body) == body = "content" /\ n.type \notin MemoryBacked
NeedsNote(n, body) == body = "env" /\ n.type \notin MemoryBacked

\* zhar add, and a library caller's first save of a node (which may expire).
\* The attached note is a second save, with an id drawn after the first: when
\* there is none, the node stays without the note.
Add(n, body) ==
  \/ Misplaced(n, body) /\ Fail
  \/ ~Misplaced(n, body) /\ DrawsFail(index) /\ NoId
  \/ \E i \in FreshIds(index) :
       LET m == Normalize([n EXCEPT !.content = body # "none" /\ n.type \in MemoryBacked])
           first == Single(i, m)
           seen == Reindex(index, first)
           note == AttachedNote({i})
       IN
       \/ (body = "none" \/ n.type \in MemoryBacked) /\ Save(i, m)
       \/ NeedsNote(n, body) /\ Rejects(i, m, index) /\ Fail
       \/ /\ NeedsNote(n, body) /\ Accepts(i, m, index)
          /\ \/ DrawsFail(seen) /\ Saved(first, "no id")
             \/ \E j \in FreshIds(seen) :
                  \/ /\ Accepts(j, note, seen)
                     /\ Saved([k \in {i, j} |-> IF k = j THEN note ELSE m], "ok")
                  \/ Rejects(j, note, seen) /\ Saved(first, "error")

\* zhar add-note: every target must be found and be no note itself.
Attachable(t) == Get(t) # None /\ Get(t).type # NoteType

AddNote(targets) ==
  \/ (\E t \in targets : ~Attachable(t)) /\ Fail
  \/ /\ \A t \in targets : Attachable(t)
     /\ \/ DrawsFail(index) /\ NoId
        \/ \E i \in FreshIds(index) : Save(i, AttachedNote(targets))

\* zhar note: set the body of a memory backed node.
TakesContent(i) == Get(i) # None /\ Get(i).type \in MemoryBacked

SetContent(i) ==
  \/ ~TakesContent(i) /\ Fail
  \/ TakesContent(i) /\ Save(i, [Get(i) EXCEPT !.content = TRUE])

\* zhar set-status.
SetStatus(i, s) ==
  \/ Get(i) = None /\ Fail
  \/ Get(i) # None /\ Save(i, [Get(i) EXCEPT !.status = s])

\* zhar remove.
Remove(i) ==
  \/ Get(i) = None /\ Fail
  \/ Get(i) # None /\ Deleted({i})

\* zhar prune: the nodes that match by their index entries, cut at the limit;
\* the engine walks a set, so which ones the limit keeps is anyone's guess.
Matching(q) ==
  {i \in Fetched : index[i].type \in q.types /\ index[i].status \in q.statuses}

Prune(q) ==
  \E gone \in SUBSET Matching(q) :
    /\ \/ Cardinality(gone) = q.limit
       \/ gone = Matching(q) /\ Cardinality(gone) < q.limit
    /\ Deleted(gone)

\* zhar scan over sources with a marker for each id of `hits`.  The hits are
\* taken in file order; the first node that cannot be saved ends the command
\* and leaves the later ones alone.  Patching a source disturbs no check.
WithSource(i) == Normalize([Get(i) EXCEPT !.source = TRUE])

Scan(hits) ==
  \E done \in SUBSET (hits \cap Fetched) :
    /\ \A i \in done : Accepts(i, WithSource(i), index)
    /\ \/ /\ done = hits \cap Fetched
          /\ Saved([i \in done |-> WithSource(i)], "ok")
       \/ /\ \E i \in (hits \cap Fetched) \ done : Rejects(i, WithSource(i), index)
          /\ Saved([i \in done |-> WithSource(i)], "error")

\* The expiry itself is due.
Expired(n) == n.expires <= now

\* zhar gc: delete what has expired, archive the issues that are resolved.
\* Validation cannot refuse the archived issue: see SchemaAssumption.
Archivable_Expired(gone) ==
  {i \in Fetched : Get(i).type = IssueType /\ Get(i).status = "resolved"}
\* The second pass skips what the first has deleted.
Archivable(gone) ==
  {i \in Fetched \ gone : Get(i).type = IssueType /\ Get(i).status = "resolved"}

Gc ==
  LET gone == {i \in Fetched : Expired(Get(i))}
      new == [i \in Archivable(gone) |-> [Get(i) EXCEPT !.status = "archived"]]
  IN
  /\ file' = Write(Erase(file, index, gone), new)
  /\ index' = Reindex(DropRefs(index, gone), new)
  /\ reply' = "ok"
  /\ UNCHANGED now

Bodies == {"none", "content", "env"}

Next ==
  \/ Open
  \/ Tick
  \/ Gc
  \/ \E n \in NewNodes, body \in Bodies : Add(n, body)
  \/ \E targets \in (SUBSET Ids) \ {{}} : AddNote(targets)
  \/ \E i \in Ids : SetContent(i)
  \/ \E i \in Ids, s \in Statuses : SetStatus(i, s)
  \/ \E i \in Ids : Remove(i)
  \/ \E q \in Queries : Prune(q)
  \/ \E hits \in SUBSET Ids : Scan(hits)

Spec == Init /\ [][Next]_vars

-----------------------------------------------------------------------------
(* Properties.                                                              *)

\* Type invariant: files hold nodes, the index holds references.
TypeOK ==
  /\ file \in [Groups -> [Ids -> Node \cup {None}]]
  /\ index \in [Ids -> NodeRef \cup {None}]
  /\ now \in 0 .. MaxTime
  /\ reply \in Replies

\* The live index is what a new process would build from the files: no command,
\* whether it succeeds, fails or stops half way, leaves it out of step.
IndexIsRebuild == index = Rebuild(file)

\* An id lives in one group file at most, although every group has its own file
\* and MemStore.get asks only the one the index names.
OneHome == \A i \in Ids, g, h \in Groups :
             file[g][i] # None /\ file[h][i] # None => g = h

\* Whatever is stored passed the checks and the normalization of MemStore.save
\* in the form it is stored in: right file, valid status, content only for
\* memory backed types, no metadata path beside a source.
StoredNodesValid == \A g \in Groups, i \in Ids :
  file[g][i] # None =>
    LET n == file[g][i] IN
    /\ GroupOf[n.type] = g
    /\ StatusValid(n)
    /\ ContentValid(n)
    /\ n.type = FileChange => ~(n.source /\ n.path)

\* README: "singleton -- only one active allowed".
OneActiveSingleton == \A g, h \in Groups, i, j \in Ids :
  LET m == file[g][i]
      n == file[h][j]
  IN m # None /\ n # None /\ m.type = n.type /\ m.type \in Singletons
       /\ m.status = "active" /\ n.status = "active" => i = j

\* A command never turns the node of an id into a node of another type, and so
\* of another group: ids in use are never handed out again.
IdentityStable ==
  [][\A i \in Ids, g, h \in Groups :
       file[g][i] # None /\ file'[h][i] # None =>
         g = h /\ file[g][i].type = file'[g][i].type]_vars

\* A note or link is only ever written while all it refers to is stored (and
\* for a note, is no note): what dangles later was removed after the write.
WritesResolveRefs ==
  [][\A g \in Groups, i \in Ids :
       LET n == file'[g][i] IN
       n # None /\ n # file[g][i] /\ g \in {NotesGroup, LinksGroup} =>
         \A t \in n.refs : \E h \in Groups :
           file'[h][t] # None /\ (g = NotesGroup => h # NotesGroup)]_vars

\* A command that ends with an error has created, removed or changed nothing
\* but source markers (a scan that stopped half way) ...
ErrorLeavesMarkers ==
  reply' = "error" => \A g \in Groups, i \in Ids :
    LET n == file[g][i]
        m == file'[g][i]
    IN m # n => /\ m # None /\ n # None
                /\ [m EXCEPT !.source = n.source, !.path = n.path] = n

\* ... and one that could not draw an id has touched nothing that was stored,
\* and left one new node at most.
NoIdLeavesOneNode ==
  reply' = "no id" => \A g \in Groups, i \in Ids :
    LET m == file'[g][i] IN
    m # file[g][i] =>
      /\ m # None /\ m.type \notin MemoryBacked
      /\ \A h \in Groups : file[h][i] = None
      /\ \A h \in Groups, k \in Ids : file'[h][k] # file[h][k] => k = i

\* zhar add leaves no node behind because its attached note is refused; what
\* it may leave is a node without the note that no id was found for.
FailureIsHarmless == [][ErrorLeavesMarkers /\ NoIdLeavesOneNode]_vars

\* A gc leaves nothing that is due and no issue that is resolved: a step after
\* which there is one was no gc.  A node is due when its expiry is past or is
\* this very instant, as mem/gc.py:54 has it; the comment at mem/gc.py:5 says
\* that nodes whose "expires_at < utcnow()" are deleted, past ones only.
Unsettled(n) ==
  n # None /\ (n.expires <= now \/ (n.type = IssueType /\ n.status = "resolved"))

GcSettles ==
  [][(\E g \in Groups, i \in Ids : Unsettled(file'[g][i])) => ~Gc]_vars
=============================================================================
