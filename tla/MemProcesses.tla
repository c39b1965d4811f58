--------------------------- MODULE MemProcesses ---------------------------
(***************************************************************************)
(* Several zhar processes on one .zhar directory.  Nothing is locked: a     *)
(* process reads the group files once to build its index, checks its writes *)
(* against that index, and rewrites a whole group file for each edit; it    *)
(* reads the file again just before (JsonBackend.save) and truncates it     *)
(* before it fills it (Path.write_bytes).  One action is one access to one  *)
(* file; a process can be held up or killed between any two.                *)
(*                                                                          *)
(* Reads go through MtimeFileCache, which trusts a file's mtime: a write in  *)
(* the clock tick of the write before it leaves the mtime as it was, and a   *)
(* process that has read the file in between goes on with what it read.      *)
(***************************************************************************)
EXTENDS MemSchema, FiniteSets

CONSTANTS
  Procs,          \* processes
  Commands,       \* what they may run
  LoadOrder,      \* Groups -> Nat: in which order a store reads their files
  InitialStores,  \* contents of the group files at the start
  MaxRuns,        \* bound: commands per process
  MaxCrashes,     \* bound: processes killed
  Torn            \* contents that are no JSON document

Empty == [i \in Ids |-> None]           \* a missing, empty or truncated file
Contents == [Ids -> Node \cup {None}]
Edits == [id : Ids, group : Groups, node : Node \cup {None}]   \* None deletes

\* Only notes and links refer to nodes.
RefersAsTyped(n) == n.refs # {} => GroupOf[n.type] \in {NotesGroup, LinksGroup}

\* At most one active node of each singleton type in the file contents c.
SinglesOf(c) == \A t \in Singletons : \A i, j \in Ids :
  (/\ c[i] # None /\ c[i].type = t /\ c[i].status = "active"
   /\ c[j] # None /\ c[j].type = t /\ c[j].status = "active") => i = j

\* What one process at a time leaves behind: see MemStoreProofs.
SoundStore(s) ==
  /\ s \in [Groups -> Contents]
  /\ \A g \in Groups, i \in Ids :
       s[g][i] # None => GroupOf[s[g][i].type] = g /\ RefersAsTyped(s[g][i])
  /\ \A g, h \in Groups, i \in Ids : s[g][i] # None /\ s[h][i] # None => g = h
  /\ \A g \in Groups : SinglesOf(s[g])

\* zhar add and add-note make a node; all but add, prune and gc name theirs.
Adds(c) == c.op \in {"add", "add-note"}
Names(c) == c.op \in {"add-note", "status", "remove"}

SoundCommand(c) ==
  /\ c.op \in {"add", "add-note", "status", "remove", "prune", "gc"}
  /\ c.op = "add" => c.node \in Node /\ RefersAsTyped(c.node)
  /\ Names(c) => c.ids \in (SUBSET Ids) \ {{}}
  /\ c.op \in {"status", "prune"} => c.status \in Statuses

ASSUME ProcessAssumption ==
  /\ \A s \in InitialStores : SoundStore(s)
  /\ \A c \in Commands : SoundCommand(c)
  /\ NoteType \in Types
  /\ LoadOrder \in [Groups -> Nat]
  /\ MaxRuns \in Nat /\ MaxCrashes \in Nat
  /\ Torn \notin Contents

VARIABLES
  file,     \* file[g]: the contents of the JSON file of group g
  recent,   \* groups whose file was last written in the current clock tick
  proc,     \* proc[p]: where process p is and what it knows, see Fresh
  crashes,  \* processes killed so far
  \* History, which no action reads:
  settled,  \* settled[g]: every edit made so far, one applied after the other
  clash,    \* groups two processes rewrote at once, or one left half written
  blind,    \* groups rewritten from a cache entry that was out of date
  stale,    \* processes whose index misses a later write of another process
  late      \* whether a stale process has written

history == <<settled, clash, blind, stale, late>>
vars == <<file, recent, proc, crashes, history>>

Ended == {"idle", "done", "failed", "crashed"}

\* A process before its first command.
Fresh ==
  [at     |-> "idle",   \* open, fetch, apply, write, fill or an end
   cmd    |-> None,     \* the command
   runs   |-> 0,        \* commands started
   todo   |-> {},       \* groups whose file it has yet to read
   index  |-> Empty,    \* its MemIndex
   wanted |-> {},       \* ids it has yet to fetch
   plan   |-> {},       \* edits it has yet to make
   edit   |-> None,     \* the edit it is making
   data   |-> Empty,    \* the file contents that edit starts from
   held   |-> [g \in Groups |-> None]]  \* what its cache has for each file

\* The process ends as `how` says and forgets the rest.
Over(r, how) == [Fresh EXCEPT !.at = how, !.runs = r.runs]

\* It goes on with its plan, or is done when there is nothing left.
Onward(r) == IF r.plan = {} THEN Over(r, "done") ELSE [r EXCEPT !.at = "apply"]

Becomes(p, r) == proc' = [proc EXCEPT ![p] = r]

Init ==
  /\ file \in InitialStores
  /\ proc = [p \in Procs |-> Fresh]
  /\ crashes = 0
  /\ settled = file
  /\ recent = {}
  /\ clash = {} /\ blind = {} /\ stale = {} /\ late = FALSE

-----------------------------------------------------------------------------
(* Reading and writing a file.                                              *)

\* Processes between the read and the end of the rewrite of g's file.
Rewriting(g) ==
  {p \in Procs : proc[p].at \in {"write", "fill"} /\ proc[p].edit.group = g}

\* What a read of g's file may return: while it is being filled, part of it.
Seen(g) ==
  {file[g]} \cup (IF \E p \in Rewriting(g) : proc[p].at = "fill" THEN {Torn} ELSE {})

\* MtimeFileCache.read_bytes: the file, or what the process has of it.  An entry
\* that the mtime belies is gone from `held`, see Wrote.
Read(p, g) == IF proc[p].held[g] = None THEN Seen(g) ELSE {proc[p].held[g]}

\* p, in state r from now on, has written to g's file: the mtime moves, and with
\* it what the others hold of the file is void, unless it is in the same tick.
Wrote(p, g, r) ==
  /\ proc' = [q \in Procs |->
       IF q = p THEN [r EXCEPT !.held[g] = None]
       ELSE IF g \in recent THEN proc[q] ELSE [proc[q] EXCEPT !.held[g] = None]]
  /\ recent' = recent \cup {g}

\* The clock ticks.
Tick ==
  /\ recent # {} /\ recent' = {}
  /\ UNCHANGED <<file, proc, crashes, history>>

-----------------------------------------------------------------------------
(* Opening the store (MemStore.__init__).                                   *)

Start(p, c) ==
  /\ proc[p].at \in Ended /\ proc[p].runs < MaxRuns
  /\ Becomes(p, [Fresh EXCEPT !.at = "open", !.cmd = c, !.todo = Groups,
                              !.runs = proc[p].runs + 1])
  /\ stale' = stale \ {p}
  /\ UNCHANGED <<file, recent, crashes, settled, clash, blind, late>>

\* One backend.list_all of _rebuild_index, in the order the groups are loaded.
ReadGroup(p, g) ==
  /\ proc[p].at = "open" /\ g \in proc[p].todo
  /\ \A h \in proc[p].todo : LoadOrder[g] <= LoadOrder[h]
  /\ \E c \in Read(p, g) :
       \/ c = Torn /\ Becomes(p, Over(proc[p], "failed"))
       \/ /\ c # Torn
          /\ Becomes(p, [proc[p] EXCEPT
               !.todo = @ \ {g}, !.held[g] = c,
               !.index = [i \in Ids |-> IF c[i] = None THEN @[i] ELSE RefOf(c[i])]])
  /\ UNCHANGED <<file, recent, crashes, history>>

-----------------------------------------------------------------------------
(* From the command to its edits (cli/memory.py, mem/gc.py).                *)

Indexed(r) == {i \in Ids : r.index[i] # None}

Wanted_AnyStatus(r) == IF Names(r.cmd) THEN r.cmd.ids ELSE Indexed(r)
\* The ids a command fetches, chosen by their index entries alone.
Wanted(r) ==
  CASE Names(r.cmd) -> r.cmd.ids
    [] r.cmd.op = "prune" -> {i \in Indexed(r) : r.index[i].status = r.cmd.status}
    [] r.cmd.op = "gc" -> Indexed(r)

Put(i, n) == [id |-> i, group |-> GroupOf[n.type], node |-> Normalize(n)]
Drop(i, n) == [id |-> i, group |-> GroupOf[n.type], node |-> None]

\* A note cannot have a note.
Barred(c, n) == c.op = "add-note" /\ GroupOf[n.type] = NotesGroup

\* The edits a command makes to a node it has fetched; expiry 0 is due.
EditsTo(c, i, n) ==
  CASE c.op = "status" -> {Put(i, [n EXCEPT !.status = c.status])}
    [] c.op \in {"remove", "prune"} -> {Drop(i, n)}
    [] c.op = "gc" /\ n.expires = 0 -> {Drop(i, n)}
    [] c.op = "gc" /\ n.expires > 0 /\ n.type = IssueType /\ n.status = "resolved" ->
         {Put(i, [n EXCEPT !.status = "archived"])}
    [] OTHER -> {}

UnusedIds(r) == Ids \ Indexed(r)

\* With the index complete zhar add, and with its targets read add-note, allocates
\* an id for the new node, or ends because its draws hit none (two ids in use
\* are enough for that, see MemStore) ...
Allocate(p) ==
  LET cmd == proc[p].cmd
      node == IF cmd.op = "add" THEN cmd.node ELSE AttachedNote(cmd.ids)
  IN
  /\ \/ proc[p].at = "open" /\ proc[p].todo = {} /\ cmd.op = "add"
     \/ proc[p].at = "fetch" /\ proc[p].wanted = {} /\ cmd.op = "add-note"
  /\ \/ /\ Cardinality(Indexed(proc[p])) > 1
        /\ Becomes(p, Over(proc[p], "failed"))
     \/ \E i \in UnusedIds(proc[p]) :
          Becomes(p, [proc[p] EXCEPT !.at = "apply", !.plan = {Put(i, node)}])
  /\ UNCHANGED <<file, recent, crashes, history>>

\* ... and the other commands select what they work on.
Select(p) ==
  /\ proc[p].at = "open" /\ proc[p].todo = {} /\ proc[p].cmd.op # "add"
  /\ LET ids == Wanted(proc[p]) IN
     \/ ~(ids \subseteq Indexed(proc[p])) /\ Becomes(p, Over(proc[p], "failed"))
     \/ ids = {} /\ Becomes(p, Over(proc[p], "done"))
     \/ /\ ids # {} /\ ids \subseteq Indexed(proc[p])
        /\ Becomes(p, [proc[p] EXCEPT !.at = "fetch", !.wanted = ids])
  /\ UNCHANGED <<file, recent, crashes, history>>

\* MemStore.get of one selected id.  A node that is gone by now, or is of the
\* wrong type, ends a command that named it; prune and gc pass over what is gone.
Fetch(p, i) ==
  /\ proc[p].at = "fetch" /\ i \in proc[p].wanted
  /\ \E g \in {GroupOf[proc[p].index[i].type]} : \E c \in Read(p, g) :
       LET gone == c # Torn /\ c[i] = None
           lost == \/ c = Torn
                   \/ gone /\ Names(proc[p].cmd)
                   \/ ~gone /\ c # Torn /\ Barred(proc[p].cmd, c[i])
           more == IF gone THEN {} ELSE EditsTo(proc[p].cmd, i, c[i])
           next == [proc[p] EXCEPT !.wanted = @ \ {i}, !.plan = @ \cup more,
                                   !.held[g] = c]
       IN
       \/ lost /\ Becomes(p, Over(proc[p], "failed"))
       \/ ~lost /\ Becomes(p, IF next.wanted = {} /\ ~Adds(next.cmd) THEN Onward(next) ELSE next)
  /\ UNCHANGED <<file, recent, crashes, history>>

-----------------------------------------------------------------------------
(* One edit (MemStore.save and delete over JsonBackend).                    *)

Rewritten_Alone(d, e) == [Empty EXCEPT ![e.id] = e.node]
\* What JsonBackend writes back: the contents it read, with edit e made.
Rewritten(d, e) == [d EXCEPT ![e.id] = e.node]

\* The rest of the command after edit e, which is in the index from now on.
Applied(r, e) ==
  Onward([r EXCEPT !.plan = @ \ {e},
                   !.index[e.id] = IF e.node = None THEN None ELSE RefOf(e.node)])

\* MemStore._validate refuses the node; what was edited before stays.
Refuse(p, e) ==
  /\ proc[p].at = "apply" /\ e \in proc[p].plan
  /\ e.node # None /\ Rejects(e.id, e.node, proc[p].index)
  /\ Becomes(p, Over(proc[p], "failed"))
  /\ UNCHANGED <<file, recent, crashes, history>>

\* The node passes (a deletion is not checked) and JsonBackend reads the file it
\* is about to rewrite.
Load(p, e) ==
  /\ proc[p].at = "apply" /\ e \in proc[p].plan
  /\ e.node # None => Accepts(e.id, e.node, proc[p].index)
  /\ \E c \in Read(p, e.group) :
       \/ c = Torn /\ Becomes(p, Over(proc[p], "failed")) /\ UNCHANGED <<clash, blind>>
       \/ \* nothing to delete: MemStore.delete reports success all the same
          /\ c # Torn /\ e.node = None /\ c[e.id] = None
          /\ Becomes(p, Applied([proc[p] EXCEPT !.held[e.group] = c], e))
          /\ UNCHANGED <<clash, blind>>
       \/ /\ c # Torn /\ ~(e.node = None /\ c[e.id] = None)
          /\ Becomes(p, [proc[p] EXCEPT !.at = "write", !.edit = e, !.data = c,
                                        !.held[e.group] = c])
          /\ clash' = IF Rewriting(e.group) = {} THEN clash ELSE clash \cup {e.group}
          /\ blind' = IF c \in Seen(e.group) THEN blind ELSE blind \cup {e.group}
  /\ UNCHANGED <<file, recent, crashes, settled, stale, late>>

\* write_bytes opens the file, which cuts it to nothing ...
Truncate(p) ==
  /\ proc[p].at = "write"
  /\ file' = [file EXCEPT ![proc[p].edit.group] = Empty]
  /\ Wrote(p, proc[p].edit.group, [proc[p] EXCEPT !.at = "fill"])
  /\ UNCHANGED <<crashes, history>>

\* ... and fills it.  Over what another process has filled in meanwhile, the
\* longer of the two leaves its tail behind.
Fill(p) ==
  LET e == proc[p].edit
      g == e.group
      new == Rewritten(proc[p].data, e)
  IN
  /\ proc[p].at = "fill"
  /\ \E c \in {new} \cup (IF file[g] = Empty THEN {} ELSE {Torn}) :
       file' = [file EXCEPT ![g] = c]
  /\ Wrote(p, g, Applied(proc[p], e))
  /\ settled' = [settled EXCEPT ![g][e.id] = e.node]
  /\ stale' = stale \cup
       {q \in Procs \ {p} : proc[q].at \notin Ended /\ g \notin proc[q].todo}
  /\ late' = (late \/ p \in stale)
  /\ UNCHANGED <<crashes, clash, blind>>

\* The process is killed, perhaps with part of the file written.
Crash(p) ==
  /\ proc[p].at \notin Ended /\ crashes < MaxCrashes
  /\ crashes' = crashes + 1
  /\ \/ /\ proc[p].at # "fill"
        /\ Becomes(p, Over(proc[p], "crashed"))
        /\ UNCHANGED <<file, recent, clash>>
     \/ /\ proc[p].at = "fill"
        /\ Wrote(p, proc[p].edit.group, Over(proc[p], "crashed"))
        /\ \E c \in {file[proc[p].edit.group], Torn} :
             file' = [file EXCEPT ![proc[p].edit.group] = c]
        /\ clash' = clash \cup {proc[p].edit.group}
  /\ UNCHANGED <<settled, blind, stale, late>>

Next == Tick \/ \E p \in Procs :
  \/ \E c \in Commands : Start(p, c)
  \/ \E g \in Groups : ReadGroup(p, g)
  \/ Allocate(p)
  \/ Select(p)
  \/ \E i \in Ids : Fetch(p, i)
  \/ \E e \in proc[p].plan : Refuse(p, e)
  \/ \E e \in proc[p].plan : Load(p, e)
  \/ Truncate(p)
  \/ Fill(p)
  \/ Crash(p)

Spec == Init /\ [][Next]_vars

-----------------------------------------------------------------------------
(* Properties.                                                              *)

\* Type invariant.
ProcessTypeOK ==
  /\ file \in [Groups -> Contents \cup {Torn}]
  /\ \A p \in Procs :
       LET r == proc[p] IN
       /\ r.at \in Ended \cup {"open", "fetch", "apply", "write", "fill"}
       /\ r.todo \subseteq Groups /\ r.wanted \subseteq Ids /\ r.plan \subseteq Edits
       /\ r.index \in [Ids -> NodeRef \cup {None}] /\ r.data \in Contents
       /\ r.at \in {"write", "fill"} => r.edit \in Edits
       /\ r.held \in [Groups -> Contents \cup {None}]
       /\ r.runs \in 0 .. MaxRuns
  /\ crashes \in 0 .. MaxCrashes
  /\ settled \in [Groups -> Contents]
  /\ recent \subseteq Groups /\ clash \subseteq Groups /\ blind \subseteq Groups
  /\ stale \subseteq Procs /\ late \in BOOLEAN

\* The edits made so far are not, or not yet, what g's file has.
Unsettled(g) == g \in clash \cup blind \/ \E p \in Rewriting(g) : proc[p].at = "fill"

\* JsonBackend.save reads the file it rewrites once more, so an edit is lost only
\* if two processes are between that read and the end of the write at once, one
\* dies filling the file, or the cache hides another's write in the same tick.
LossNeedsClash == \A g \in Groups : Unsettled(g) \/ file[g] = settled[g]

\* The edit a process is about to write is one that its command makes to the node
\* as the file has it: it adds no id in use in any group, brings back nothing
\* removed, undoes no other change and prunes nothing that does not match, unless
\* another process has written a file behind its index or left it broken.
EditFits(r) ==
  LET was == r.data[r.edit.id] IN
  IF Adds(r.cmd)
  THEN was = None /\ \A g \in Groups : Unsettled(g) \/ settled[g][r.edit.id] = None
  ELSE /\ was # None /\ r.edit \in EditsTo(r.cmd, r.edit.id, was)
       /\ r.cmd.op = "prune" => was.status = r.cmd.status

EditFitsUnlessStale == \A p \in Procs :
  proc[p].at = "write" =>
    EditFits(proc[p]) \/ p \in stale \/ proc[p].edit.group \in clash

\* A note or link is written, or written again, only while every node it refers to
\* exists, unless another process has written behind the index that _validate
\* looks the targets up in, or a file is not what the edits made of it.
RefsResolveUnlessStale == \A p \in Procs \ stale :
  proc[p].at = "write" /\ proc[p].edit.node # None =>
    \A t \in proc[p].edit.node.refs :
      \E g \in Groups : Unsettled(g) \/ settled[g][t] # None

\* Two active nodes of a singleton type, in files that can be read.
OneActiveSingleton == \A g \in Groups : file[g] # Torn => SinglesOf(file[g])

\* The singleton check can only be passed wrongly once a process has written after
\* another wrote behind its index, or over what its cache no longer told.
SingletonNeedsLateWriter == late \/ blind # {} \/ OneActiveSingleton
=============================================================================
