----------------------------- MODULE Migration -----------------------------
(***************************************************************************)
(* zhar migrate zmem (migration/zmem.py): the records of a graph.json become *)
(* nodes, each with a note that keeps the record.  Every save is a step, and *)
(* a run ends early when a save is refused, a record has no dates, the ids   *)
(* run out or the process is killed; it can be run again on what it left.    *)
(* Between runs the memory commands of MemStore change the store.            *)
(***************************************************************************)
EXTENDS MemStore, IdAllocation, BuiltinGroups, Sequences

CONSTANTS
  Graphs,      \* the record sequences a graph.json may hold
  MaxRuns,     \* bound: migrations
  MaxCrashes,  \* bound: migrations killed
  MaxCommands  \* bound: other commands

TaskStates ==
  {"current_focus", "currently_working", "in_progress", "next_step", "completed",
   "abandoned"}

\* The keys of direct_map; each is mapped to itself.
Direct ==
  UNION {DOMAIN Builtin[g] : g \in DOMAIN Builtin \ {"notes", "links"}}

HostType == "product_context"

Record == [id : Ids, type : STRING, status : STRING, dated : BOOLEAN]

ASSUME MigrationAssumption ==
  /\ Ids = LongIds \cup ShortIds
  /\ Graphs \subseteq Seq(Record)
  /\ \A g \in Graphs : \A n \in DOMAIN g : g[n].type \in Direct => g[n].type \in Types
  /\ HostType \in Types /\ NoteType = "note" /\ "archived" \in Statuses
  /\ MaxRuns \in Nat /\ MaxCrashes \in Nat /\ MaxCommands \in Nat

VARIABLES
  graph,    \* the records of graph.json
  counter,  \* _PREFIX_COUNTER
  job,      \* the run: where it is, its counts, and what it has made
  runs, crashes, commands

migration == <<graph, counter, job, runs, crashes, commands>>
mvars == <<vars, migration>>

Stops == {"idle", "done", "failed", "no id", "crashed"}

NewJob_FromZero(used) ==
  [at |-> "record", next |-> 0, nodes |-> 0, notes |-> 0, preserved |-> 0,
   host |-> None, target |-> None, used |-> used,
   made |-> [n \in DOMAIN graph |-> [node |-> None, note |-> None]]]
\* A run before its first record.  The report counts the first three; made[n] are
\* the node and the note of record n; used are the ids in use when it began.
NewJob(used) ==
  [at |-> "record", next |-> 1, nodes |-> 0, notes |-> 0, preserved |-> 0,
   host |-> None, target |-> None, used |-> used,
   made |-> [n \in DOMAIN graph |-> [node |-> None, note |-> None]]]

InUse(idx) == {i \in Ids : idx[i] # None}

\* _status_for_record.
MappedStatus(type, status) ==
  IF status \in ValidStatuses[type] THEN status ELSE Builtin[HomeGroup(type)][type].default

NewNode(type, status) ==
  [type |-> type, status |-> status, content |-> type \in MemoryBacked,
   source |-> FALSE, path |-> FALSE, refs |-> {}, expires |-> Never]

\* What make_node builds of a record, and the host of the task states.
MappedNode(r) == NewNode(r.type, MappedStatus(r.type, r.status))
HostNode == NewNode(HostType, "active")

\* The memory commands can add whatever a run adds.
ASSUME NewNodesAssumption ==
  /\ HostNode \in NewNodes
  /\ \A g \in Graphs : \A n \in DOMAIN g :
       g[n].type \in Direct => MappedNode(g[n]) \in NewNodes

Current == graph[job.next]
Working(place) == job.at = place /\ job.next \in DOMAIN graph

\* The run ends; nothing else happens.
Ends(how) ==
  /\ job' = [job EXCEPT !.at = how]
  /\ UNCHANGED <<file, index, now, reply, graph, counter, runs, crashes, commands>>

\* The run saves node n under the id of `got`, and goes on as j, or is refused.
Saves(got, n, j) ==
  /\ Save(got.id, n)
  /\ counter' = got.counter
  /\ job' = IF reply' = "ok" THEN j ELSE [job EXCEPT !.at = "failed"]
  /\ UNCHANGED <<graph, runs, crashes, commands>>

-----------------------------------------------------------------------------
MigrationInit ==
  /\ Init
  /\ graph \in Graphs
  /\ counter = Unset /\ runs = 0 /\ crashes = 0 /\ commands = 0
  /\ job = [NewJob({}) EXCEPT !.at = "idle"]

\* A process opens the store and reads graph.json.
Begin ==
  /\ job.at \in Stops /\ runs < MaxRuns
  /\ Open
  /\ counter' = Unset
  /\ job' = NewJob(InUse(index'))
  /\ runs' = runs + 1
  /\ UNCHANGED <<graph, crashes, commands>>

\* _plan_record has no plan for the record.
Skip ==
  /\ Working("record") /\ Current.type \notin Direct \cup TaskStates
  /\ job' = [job EXCEPT !.next = @ + 1]
  /\ UNCHANGED <<file, index, now, reply, graph, counter, runs, crashes, commands>>

\* A record that becomes a node, under its own id if that is free.
MigrateNode ==
  /\ Working("record") /\ Current.type \in Direct
  /\ LET ids == AllocatePreferred(Current.id, counter, InUse(index)) IN
     \/ ids = {} /\ Ends("no id")
     \/ ids # {} /\ ~Current.dated /\ Ends("failed")
     \/ /\ Current.dated
        /\ \E got \in ids :
             Saves(got, MappedNode(Current),
                   [job EXCEPT !.at = "note", !.target = got.id, !.nodes = @ + 1,
                               !.preserved = IF got.id = Current.id THEN @ + 1 ELSE @,
                               !.made[job.next].node = got.id])

\* A record of a task state: an id is allocated that nothing uses, and the host is
\* made by the first such record of the run.
MigrateTask ==
  /\ Working("record") /\ Current.type \in TaskStates
  /\ LET unused == Allocate(counter, InUse(index)) IN
     \/ unused = {} /\ Ends("no id")
     \/ /\ job.host # None
        /\ \E c \in {u.counter : u \in unused} : counter' = c
        /\ job' = [job EXCEPT !.at = "note", !.target = job.host]
        /\ UNCHANGED <<file, index, now, reply, graph, runs, crashes, commands>>
     \/ /\ job.host = None
        /\ \E c \in {u.counter : u \in unused} :
             LET ids == Allocate(c, InUse(index)) IN
             \/ ids = {} /\ Ends("no id")
             \/ \E got \in ids :
                  Saves(got, HostNode,
                        [job EXCEPT !.at = "note", !.target = got.id, !.host = got.id,
                                    !.nodes = @ + 1])

NoteIds_AsRecord(taken) == AllocatePreferred(Current.id, counter, taken)
NoteIds(taken) == Allocate(counter, taken)

NoteTarget_Host == IF job.host = None THEN job.target ELSE job.host
NoteTarget == job.target

\* _create_note.
MigrateNote ==
  /\ Working("note")
  /\ LET ids == NoteIds(InUse(index)) IN
     \/ ids = {} /\ Ends("no id")
     \/ \E got \in ids :
          Saves(got, AttachedNote({NoteTarget}),
                [job EXCEPT !.at = "record", !.next = @ + 1, !.notes = @ + 1,
                            !.made[job.next].note = got.id])

\* The report.
Finish == job.at = "record" /\ job.next = Len(graph) + 1 /\ Ends("done")

Crash ==
  /\ job.at \notin Stops /\ crashes < MaxCrashes
  /\ crashes' = crashes + 1
  /\ job' = [job EXCEPT !.at = "crashed"]
  /\ UNCHANGED <<file, index, now, reply, graph, counter, runs, commands>>

\* Another command, before, between or after the runs.
Command ==
  /\ job.at \in Stops /\ commands < MaxCommands
  /\ commands' = commands + 1
  /\ \/ \E i \in InUse(index) : Remove(i)
     \/ \E i \in InUse(index) : SetStatus(i, "archived")
  /\ UNCHANGED <<graph, counter, job, runs, crashes>>

MigrationNext ==
  \/ Begin \/ Skip \/ MigrateNode \/ MigrateTask \/ MigrateNote \/ Finish
  \/ Crash
  \/ Command

MigrationSpec == MigrationInit /\ [][MigrationNext]_mvars

-----------------------------------------------------------------------------
(* Properties.                                                              *)

Running == job.at \notin Stops

\* Type invariant.
MigrationTypeOK ==
  /\ TypeOK
  /\ graph \in Graphs /\ counter \in Counters
  /\ job.at \in Stops \cup {"record", "note"}
  /\ job.next \in 1 .. Len(graph) + 1
  /\ job.nodes \in Nat /\ job.notes \in Nat /\ job.preserved \in Nat
  /\ job.host \in Ids \cup {None} /\ job.target \in Ids \cup {None}
  /\ job.used \subseteq Ids
  /\ job.made \in [DOMAIN graph -> [node : Ids \cup {None}, note : Ids \cup {None}]]
  /\ runs \in 0 .. MaxRuns /\ crashes \in 0 .. MaxCrashes
  /\ commands \in 0 .. MaxCommands

\* What a run does to the store, the memory commands could do: each save is an add
\* or an add-note, however the run ends.  What holds of MemStore holds of it.
CommandSteps ==
  \/ Open
  \/ \E n \in NewNodes, body \in Bodies : Add(n, body)
  \/ \E i \in Ids : AddNote({i}) \/ Remove(i) \/ SetStatus(i, "archived")

IsCommands == Init /\ [][CommandSteps]_vars

\* README, "stores the original zmem JSON record as attached note context": at every
\* moment of a run, each record dealt with has a note of its own, and the note is
\* attached to the node of the record, or to the host of the task states.
RecordsHaveNotes == Running =>
  \A n \in 1 .. job.next - 1 : graph[n].type \in Direct \cup TaskStates =>
    LET m == job.made[n]
        about == IF graph[n].type \in Direct THEN m.node ELSE job.host
    IN /\ m.note # None /\ about # None
       /\ Get(about) # None /\ Get(about).type # NoteType
       /\ Get(m.note) # None /\ Get(m.note).refs = {about}
       /\ \A k \in 1 .. n - 1 : job.made[k].note # m.note

\* The report of a run tells what is in the store because of it.
ReportTrue == Running =>
  LET new == InUse(index) \ job.used
      notes == {i \in new : index[i].type = NoteType}
  IN /\ job.notes = Cardinality(notes)
     /\ job.nodes = Cardinality(new \ notes)
     /\ job.preserved = Cardinality({n \in DOMAIN graph :
                           job.made[n].node # None /\ job.made[n].node = graph[n].id})

\* README, "preserves legacy IDs when possible": if no two records have the same id
\* and none of their ids is in use when a run begins, it takes none of them for
\* something else, and every node it makes has its own.
DistinctAndFree ==
  \A n \in DOMAIN graph :
    /\ graph[n].id \notin job.used
    /\ graph[n].id \in ShortIds
    /\ \A m \in DOMAIN graph : graph[n].id = graph[m].id => n = m

LegacyIdsKept == Running /\ DistinctAndFree =>
  \A n \in DOMAIN graph :
       /\ job.made[n].node \in {None, graph[n].id}
       /\ graph[n].id \in InUse(index) => job.made[n].node = graph[n].id

\* A run, the second one over a half migrated store included, adds to the store and
\* touches nothing that is in it.
RunsOnlyAdd ==
  [][~Command => \A g \in Groups, i \in Ids :
       file[g][i] # None => file'[g][i] = file[g][i]]_mvars

\* make_id_unique: "otherwise generate a fresh ID that is not in *taken*".
FreshWhileFree == job.at = "no id" => LongIds \subseteq InUse(index)
=============================================================================
