-------------------------- MODULE MigrationProofs --------------------------
(***************************************************************************)
(* A migration for every graph, every schema and any number of ids.         *)
(***************************************************************************)
EXTENDS Migration, MemStoreProofs, FiniteSetTheorems, WellFoundedInduction

-----------------------------------------------------------------------------
(* The types of the records.                                                *)

\* The types that are mapped to themselves.
LEMMA DirectIs ==
  Direct = {"core_goal", "core_requirement", "product_context", "stakeholder",
            "known_issue", "blocked", "adr", "decision", "lesson_learned",
            "research_finding", "architecture", "design_pattern", "component_rel",
            "tech_stack", "tech_setup", "tech_constraint", "env_config", "external_dep",
            "file_change", "function_change", "breaking_change", "revert_note"}
  <1>1. DOMAIN Builtin = {"project_dna", "problem_tracking", "decision_trail",
                          "architecture_context", "code_history", "links", "notes"}
    BY DEF Builtin
  <1>2. /\ Builtin["project_dna"] = ProjectDna
        /\ Builtin["problem_tracking"] = ProblemTracking
        /\ Builtin["decision_trail"] = DecisionTrail
        /\ Builtin["architecture_context"] = ArchitectureContext
        /\ Builtin["code_history"] = CodeHistory
    BY DEF Builtin
  <1>3. Direct = DOMAIN ProjectDna \cup DOMAIN ProblemTracking \cup DOMAIN DecisionTrail
                   \cup DOMAIN ArchitectureContext \cup DOMAIN CodeHistory
    BY <1>1, <1>2 DEF Direct
  <1>4. DOMAIN ProjectDna = {"core_goal", "core_requirement", "product_context", "stakeholder"}
    BY DEF ProjectDna
  <1>5. DOMAIN ProblemTracking = {"known_issue", "blocked"}
    BY DEF ProblemTracking
  <1>6. DOMAIN DecisionTrail = {"adr", "decision", "lesson_learned", "research_finding"}
    BY DEF DecisionTrail
  <1>7. DOMAIN ArchitectureContext =
          {"architecture", "design_pattern", "component_rel", "tech_stack", "tech_setup",
           "tech_constraint", "env_config", "external_dep"}
    BY DEF ArchitectureContext
  <1>8. DOMAIN CodeHistory = {"file_change", "function_change", "breaking_change", "revert_note"}
    BY DEF CodeHistory
  <1> QED BY <1>3, <1>4, <1>5, <1>6, <1>7, <1>8

\* None of them is a task state, and none is the type of a note.
LEMMA RecordTypes == Direct \cap TaskStates = {} /\ NoteType \notin Direct \cup {HostType}
  BY DirectIs, MigrationAssumption DEF TaskStates, HostType

-----------------------------------------------------------------------------
(* Ids.                                                                     *)

\* A set of numbers that has a property at all has a least one that has it.
LEMMA FirstOf ==
  ASSUME NEW S \in SUBSET Nat, S # {}
  PROVE  \E m \in S : \A k \in S : m <= k
  <1> DEFINE R == OpToRel(<, Nat)
  <1>1. IsWellFoundedOn(R, Nat)
    BY NatLessThanWellFounded
  <1> HIDE DEF R
  <1>2. PICK m \in S : \A k \in S : ~ (<<k, m>> \in R)
    BY <1>1, WFMin
  <1>3. \A k \in S : k < m => <<k, m>> \in R
    BY DEF OpToRel, R
  <1>4. ASSUME NEW k \in S PROVE m <= k
    <2>1. m \in Nat /\ k \in Nat /\ ~(k < m)
      BY <1>2, <1>3
    <2> QED BY <2>1
  <1> QED BY <1>4

\* _next_prefix stays below the number of prefixes.
LEMMA NextPrefixIs ==
  ASSUME NEW from \in Counters, NEW taken \in SUBSET Ids
  PROVE  NextPrefix(from, taken) \in 0 .. Prefixes - 1
  <1> DEFINE S == {from} \cup {i.prefix : i \in taken}
  <1>1. Prefixes \in Nat \ {0} /\ ShortPrefixes \in 0 .. Prefixes
    BY IdAssumption
  <1>2. S \subseteq -1 .. Prefixes - 1 /\ S # {}
    <2>1. \A i \in Ids : i.prefix \in 0 .. Prefixes - 1
      BY <1>1, MigrationAssumption DEF LongIds, ShortIds
    <2> QED BY <1>1, <2>1 DEF Counters, Unset
  <1> HIDE DEF S
  <1> DEFINE T == {Prefixes - x : x \in S}
  <1>3. \A x \in S : x \in Int /\ x <= Prefixes - 1 /\ -1 <= x
    BY <1>1, <1>2
  <1>4. T \in SUBSET Nat /\ T # {}
    <2>1. \A x \in S : Prefixes - x \in Nat
      BY <1>1, <1>3
    <2> QED BY <1>2, <2>1
  <1>5. PICK m \in T : \A k \in T : m <= k
    BY <1>4, FirstOf
  <1>6. PICK x \in S : m = Prefixes - x
    OBVIOUS
  <1>7. ASSUME NEW y \in S PROVE x >= y
    <2>1. Prefixes - x <= Prefixes - y
      BY <1>5, <1>6
    <2>2. x \in Int /\ y \in Int /\ Prefixes \in Int
      BY <1>1, <1>3
    <2> QED BY <2>1, <2>2
  <1>8. PICK top : top = Max(S)
    OBVIOUS
  <1>9. top \in S
    BY <1>7, <1>8 DEF Max
  <1>10. (top + 1) % Prefixes \in 0 .. Prefixes - 1
    <2>1. top + 1 \in Int /\ Prefixes \in Int /\ Prefixes > 0
      BY <1>1, <1>3, <1>9
    <2> QED BY <2>1
  <1> QED BY <1>8, <1>10 DEF NextPrefix, S

\* So does every prefix that is drawn.
LEMMA DrawsAre ==
  ASSUME NEW from \in Counters, NEW taken \in SUBSET Ids, NEW n \in 1 .. Attempts
  PROVE  Draws(from, taken)[n] \in 0 .. Prefixes - 1
  <1> DEFINE Step(f, k) == NextPrefix(IF k = 1 THEN from ELSE f[k - 1], taken)
             Table(f, m) == f = [k \in 1 .. m |-> Step(f, k)]
             Bad == {m \in Nat : ~ \E f : Table(f, m)}
  <1>1. Attempts \in Nat /\ 0 .. Prefixes - 1 \subseteq Counters
    BY IdAssumption DEF Counters, Unset
  <1>2. Bad = {}
    <2> SUFFICES ASSUME Bad # {} PROVE FALSE
      OBVIOUS
    <2>1. PICK m \in Bad : \A k \in Bad : m <= k
      BY FirstOf
    <2>2. m # 0
      <3>1. Table(<<>>, 0)
        OBVIOUS
      <3> QED BY <3>1
    <2>3. PICK f : Table(f, m - 1)
      <3>1. m - 1 \in Nat /\ ~(m <= m - 1)
        BY <2>1, <2>2
      <3> QED BY <2>1, <3>1
    <2> DEFINE h == [k \in 1 .. m |-> IF k = m THEN Step(f, m) ELSE f[k]]
    <2>4. ASSUME NEW k \in 1 .. m PROVE h[k] = Step(h, k)
      <3>1. k # 1 => k - 1 \in 1 .. m /\ k - 1 # m
        BY <2>1, <2>2
      <3>2. k # 1 => h[k - 1] = f[k - 1]
        BY <3>1
      <3>3. Step(h, k) = Step(f, k)
        BY <3>2
      <3>4. k # m => k \in 1 .. m - 1
        BY <2>1, <2>2
      <3>5. k # m => f[k] = Step(f, k)
        BY <2>3, <3>4
      <3> QED BY <3>3, <3>5
    <2>5. Table(h, m)
      <3> HIDE DEF Step
      <3>1. h = [k \in 1 .. m |-> h[k]]
        OBVIOUS
      <3> HIDE DEF h
      <3> QED BY <2>4, <3>1
    <2> QED BY <2>5
  <1>3. PICK f : Table(f, Attempts)
    BY <1>1, <1>2
  <1> DEFINE d == Draws(from, taken)
  <1>4. Table(d, Attempts)
    BY <1>3 DEF Draws
  <1> HIDE DEF d
  <1>5. \A k \in 1 .. Attempts : d[k] = Step(d, k)
    BY <1>4
  <1> DEFINE Wrong == {k \in 1 .. Attempts : d[k] \notin 0 .. Prefixes - 1}
  <1>6. Wrong = {}
    <2> SUFFICES ASSUME Wrong # {} PROVE FALSE
      OBVIOUS
    <2>1. Wrong \in SUBSET Nat
      OBVIOUS
    <2>2. PICK k \in Wrong : \A j \in Wrong : k <= j
      BY <2>1, FirstOf
    <2>3. k # 1 => d[k - 1] \in 0 .. Prefixes - 1
      <3> SUFFICES ASSUME k # 1 PROVE d[k - 1] \in 0 .. Prefixes - 1
        OBVIOUS
      <3>1. k - 1 \in 1 .. Attempts /\ ~(k <= k - 1)
        BY <1>1
      <3> QED BY <2>2, <3>1
    <2>4. (IF k = 1 THEN from ELSE d[k - 1]) \in Counters
      BY <1>1, <2>3
    <2>5. Step(d, k) \in 0 .. Prefixes - 1
      BY <2>4, NextPrefixIs
    <2> QED BY <1>5, <2>5
  <1> QED BY <1>6 DEF d

LEMMA NewLongIs ==
  ASSUME NEW from \in Counters, NEW taken \in SUBSET Ids,
         NEW got \in NewLong(from, taken)
  PROVE  got.id \in LongIds \ taken /\ got.counter \in Counters
  <1> DEFINE draw == Draws(from, taken)
  <1>1. PICK n \in 1 .. Attempts : got \in [id : Block(draw[n]) \ taken, counter : {draw[n]}]
    BY DEF NewLong
  <1>2. got.id \in Block(draw[n]) \ taken /\ got.counter = draw[n]
    BY <1>1
  <1>3. draw[n] \in 0 .. Prefixes - 1 /\ 0 .. Prefixes - 1 \subseteq Counters
    BY DrawsAre, IdAssumption DEF Counters, Unset
  <1> QED BY <1>2, <1>3 DEF Block

\* An id that a run is given is not in use; unless it is the one that was asked for, it
\* is no id of a record if it is a long one.
LEMMA PreferredIs ==
  ASSUME NEW from \in Counters, NEW taken \in SUBSET Ids, NEW preferred \in Ids,
         NEW got \in AllocatePreferred(preferred, from, taken)
  PROVE  /\ got.id \in Ids \ taken /\ got.counter \in Counters
         /\ preferred \notin taken => got.id = preferred
  <1>1. CASE preferred \notin taken
    BY <1>1 DEF AllocatePreferred
  <1>2. CASE preferred \in taken /\ preferred \in ShortIds
    BY <1>2, MigrationAssumption DEF AllocatePreferred, NewShort
  <1>3. CASE preferred \in taken /\ preferred \notin ShortIds
    BY <1>3, NewLongIs, MigrationAssumption DEF AllocatePreferred
  <1> QED BY <1>1, <1>2, <1>3

LEMMA LongIsNotShort == LongIds \cap ShortIds = {}
  BY DEF LongIds, ShortIds

-----------------------------------------------------------------------------
(* The inductive invariant: beside that of MemStore, what a run that goes on *)
(* has done so far.                                                         *)

Made(gr) == [DOMAIN gr -> [node : Ids \cup {None}, note : Ids \cup {None}]]

Jobs(gr) ==
  [at : Stops \cup {"record", "note"}, next : 1 .. Len(gr) + 1,
   nodes : Nat, notes : Nat, preserved : Nat,
   host : Ids \cup {None}, target : Ids \cup {None}, used : SUBSET Ids, made : Made(gr)]

JobTyped ==
  /\ graph \in Graphs /\ counter \in Counters /\ job \in Jobs(graph)
  /\ runs \in 0 .. MaxRuns /\ crashes \in 0 .. MaxCrashes
  /\ commands \in 0 .. MaxCommands

\* The host can be attached to, and the note that is due has a target: the node of its
\* record or the host.
TargetFits(j) ==
  /\ j.host # None => Attachable(j.host)
  /\ j.at = "note" =>
       /\ j.next \in DOMAIN graph /\ j.target \in Ids /\ Attachable(j.target)
       /\ graph[j.next].type \in Direct \cup TaskStates
       /\ graph[j.next].type \in Direct => j.made[j.next].node = j.target
       /\ graph[j.next].type \notin Direct => j.host = j.target

\* Nothing is made of a record that is still to come.
Blank(j) == \A n \in DOMAIN graph :
  /\ n > j.next => j.made[n].node = None
  /\ n >= j.next => j.made[n].note = None
  /\ n = j.next /\ j.at = "record" => j.made[n].node = None

HasNote(note, about) ==
  /\ note # None /\ about # None
  /\ Get(about) # None /\ Get(about).type # NoteType
  /\ Get(note) # None /\ Get(note).refs = {about}

\* Record n has a note of its own, attached to the node made of it or to the host.
NotedRecord(j, n) ==
  /\ graph[n].type \in Direct => HasNote(j.made[n].note, j.made[n].node)
  /\ graph[n].type \in TaskStates => HasNote(j.made[n].note, j.host)
  /\ graph[n].type \in Direct \cup TaskStates =>
       \A k \in 1 .. n - 1 : j.made[k].note # j.made[n].note

Noted(j) == \A n \in 1 .. j.next - 1 : NotedRecord(j, n)

NotesInUse(j) == \A n \in DOMAIN graph : j.made[n].note # None => index[j.made[n].note] # None

New(j) == InUse(index) \ j.used
NewNotes(j) == {i \in New(j) : index[i].type = NoteType}
Preserved(j) == {n \in DOMAIN graph : j.made[n].node # None /\ j.made[n].node = graph[n].id}

Counted(j) ==
  /\ j.used \subseteq InUse(index) /\ IsFiniteSet(New(j))
  /\ j.notes = Cardinality(NewNotes(j))
  /\ j.nodes = Cardinality(New(j) \ NewNotes(j))
  /\ j.preserved = Cardinality(Preserved(j))

Apart(j) ==
  \A n \in DOMAIN graph :
    /\ graph[n].id \notin j.used /\ graph[n].id \in ShortIds
    /\ \A m \in DOMAIN graph : graph[n].id = graph[m].id => n = m

OwnIds(j) == Apart(j) => \A n \in DOMAIN graph :
  /\ j.made[n].node \in {None, graph[n].id}
  /\ graph[n].id \in InUse(index) => j.made[n].node = graph[n].id

RunFits(j) ==
  TargetFits(j) /\ Blank(j) /\ Noted(j) /\ NotesInUse(j) /\ Counted(j) /\ OwnIds(j)

JobInv == IInv /\ JobTyped /\ (Running => RunFits(job))

-----------------------------------------------------------------------------
(* Saves under ids that are not in use.                                     *)

\* What a save leaves: one more node, and all else as it was.
Put(i, n) ==
  /\ \A k \in Ids : index'[k] = IF k = i THEN RefOf(n) ELSE index[k]
  /\ InUse(index') = InUse(index) \cup {i}
  /\ Get(i)' = n /\ \A k \in Ids : k # i => Get(k)' = Get(k)
  /\ \A g \in Groups, k \in Ids : file[g][k] # None => file'[g][k] = file[g][k]

LEMMA SaveFresh ==
  ASSUME IInv, NEW i \in Ids, index[i] = None, NEW n \in Node, Normalize(n) = n, Save(i, n)
  PROVE  \/ reply' = "error" /\ UNCHANGED <<file, index, now>>
         \/ reply' = "ok" /\ Put(i, n)
  <1>1. CASE Fail
    BY <1>1 DEF Fail
  <1>2. CASE Saved(Single(i, n), "ok")
    <2>1. /\ reply' = "ok" /\ file' = Write(file, Single(i, n))
          /\ index' = Reindex(index, Single(i, n))
          /\ file \in Files /\ index \in Indexes
      BY <1>2 DEF Saved, IInv, Consistent
    <2>2. /\ DOMAIN Single(i, n) = {i} /\ Single(i, n)[i] = n
      BY DEF Single
    <2>3. /\ GroupOf[n.type] \in Groups /\ RefOf(n) # None /\ RefOf(n).type = n.type
      BY RefOfType, RefOfKeepsType, SchemaAssumption DEF Node
    <2>4. \A k \in Ids : index'[k] = IF k = i THEN RefOf(n) ELSE index[k]
      BY <2>1, <2>2 DEF Reindex
    <2>5. \A g \in Groups, k \in Ids :
            file'[g][k] = IF k = i /\ GroupOf[n.type] = g THEN n ELSE file[g][k]
      BY <2>1, <2>2 DEF Write
    <2>6. Get(i)' = n
      BY <2>3, <2>4, <2>5 DEF Get
    <2>7. ASSUME NEW k \in Ids, k # i PROVE Get(k)' = Get(k)
      <3>1. index[k] # None => GroupOf[index[k].type] \in Groups
        BY <2>1, SchemaAssumption DEF Indexes, NodeRef
      <3> QED BY <2>4, <2>5, <2>7, <3>1 DEF Get
    <2>8. \A g \in Groups : file[g][i] = None
      BY HomeIsIndexed DEF IInv
    <2>9. InUse(index') = InUse(index) \cup {i}
      BY <2>3, <2>4 DEF InUse
    <2> QED BY <2>1, <2>4, <2>5, <2>6, <2>7, <2>8, <2>9 DEF Put
  <1> QED BY <1>1, <1>2 DEF Save

\* The nodes a run saves.
LEMMA SavedNodes ==
  ASSUME JobInv
  PROVE  /\ HostNode \in NewNodes /\ HostNode \in Node /\ Normalize(HostNode) = HostNode
         /\ HostNode.type = HostType /\ HostNode.content = (HostType \in MemoryBacked)
         /\ \A n \in DOMAIN graph : graph[n].type \in Direct =>
              /\ MappedNode(graph[n]) \in NewNodes /\ MappedNode(graph[n]) \in Node
              /\ Normalize(MappedNode(graph[n])) = MappedNode(graph[n])
              /\ MappedNode(graph[n]).type = graph[n].type
              /\ MappedNode(graph[n]).content = (graph[n].type \in MemoryBacked)
         /\ \A i \in Ids :
              /\ AttachedNote({i}) \in Node /\ Normalize(AttachedNote({i})) = AttachedNote({i})
              /\ AttachedNote({i}).type = NoteType /\ AttachedNote({i}).refs = {i}
  <1>1. ASSUME NEW type, NEW status
        PROVE  LET n == NewNode(type, status) IN
               Normalize(n) = n /\ n.type = type /\ n.content = (type \in MemoryBacked)
    BY DEF NewNode, Normalize
  <1>2. ASSUME NEW i \in Ids
        PROVE  /\ AttachedNote({i}) \in Node /\ Normalize(AttachedNote({i})) = AttachedNote({i})
               /\ AttachedNote({i}).type = NoteType /\ AttachedNote({i}).refs = {i}
    <2>1. "active" \in Statuses
      BY InputAssumption, SchemaAssumption
    <2> QED BY <2>1, InputAssumption, TimeAssumption DEF AttachedNote, Node, Never, Normalize
  <1>3. HostNode \in NewNodes /\ HostNode \in Node
    BY NewNodesAssumption, InputAssumption
  <1>4. \A n \in DOMAIN graph : graph[n].type \in Direct =>
          MappedNode(graph[n]) \in NewNodes /\ MappedNode(graph[n]) \in Node
    BY NewNodesAssumption, InputAssumption DEF JobInv, JobTyped
  <1> QED BY <1>1, <1>2, <1>3, <1>4 DEF HostNode, MappedNode

\* One more element, in the subset or not.
OneMore(new, notes, i) ==
  /\ IsFiniteSet(new \cup {i})
  /\ Cardinality(notes \cup {i}) = Cardinality(notes) + 1
  /\ Cardinality((new \cup {i}) \ (notes \cup {i})) = Cardinality(new \ notes)
  /\ Cardinality((new \cup {i}) \ notes) = Cardinality(new \ notes) + 1

LEMMA Counts ==
  ASSUME NEW new, IsFiniteSet(new), NEW notes \in SUBSET new, NEW i, i \notin new
  PROVE  OneMore(new, notes, i)
  <1>1. IsFiniteSet(notes) /\ IsFiniteSet(new \ notes)
    BY FS_Subset
  <1>2. (new \cup {i}) \ notes = (new \ notes) \cup {i} /\ i \notin notes /\ i \notin new \ notes
    OBVIOUS
  <1>3. (new \cup {i}) \ (notes \cup {i}) = new \ notes
    OBVIOUS
  <1> QED BY <1>1, <1>2, <1>3, FS_AddElement DEF OneMore

\* What a save of n under the fresh id i means to a run that goes on as j.
Adds(i, n, j) ==
  /\ \A k \in Ids : Get(k) # None => k # i /\ Get(k)' = Get(k)
  /\ \A k \in Ids : index[k] # None => index'[k] # None
  /\ index'[i] # None /\ Get(i)' = n
  /\ j.used \subseteq InUse(index') /\ IsFiniteSet(New(j)')
  /\ n.type = NoteType =>
       /\ Cardinality(NewNotes(j)') = job.notes + 1
       /\ Cardinality(New(j)' \ NewNotes(j)') = job.nodes
  /\ n.type # NoteType =>
       /\ Cardinality(NewNotes(j)') = job.notes
       /\ Cardinality(New(j)' \ NewNotes(j)') = job.nodes + 1

LEMMA Grown ==
  ASSUME JobInv, Running, NEW i \in Ids, index[i] = None, NEW n \in Node, Put(i, n),
         NEW j, j.used = job.used
  PROVE  Adds(i, n, j)
  <1>1. /\ Counted(job) /\ RefOf(n) # None /\ RefOf(n).type = n.type
    BY RefOfType, RefOfKeepsType DEF JobInv, RunFits
  <1>2. /\ \A k \in Ids : index'[k] = IF k = i THEN RefOf(n) ELSE index[k]
        /\ InUse(index') = InUse(index) \cup {i}
        /\ Get(i)' = n /\ \A k \in Ids : k # i => Get(k)' = Get(k)
    BY DEF Put
  <1>3. \A k \in Ids : Get(k) # None => k # i
    BY DEF Get
  <1> DEFINE new == New(job)
             notes == NewNotes(job)
  <1>4. i \notin new /\ IsFiniteSet(new) /\ notes \in SUBSET new /\ i \notin job.used
    BY <1>1 DEF Counted, New, NewNotes, InUse
  <1>5. New(j)' = new \cup {i}
    BY <1>2, <1>4 DEF New
  <1>6. NewNotes(j)' = IF n.type = NoteType THEN notes \cup {i} ELSE notes
    <2>1. new \subseteq Ids
      BY DEF New, InUse
    <2>2. NewNotes(j)' = {k \in new \cup {i} : index'[k].type = NoteType}
      BY <1>5 DEF NewNotes
    <2> QED BY <1>1, <1>2, <1>4, <2>1, <2>2 DEF NewNotes
  <1>7. job.notes = Cardinality(notes) /\ job.nodes = Cardinality(new \ notes)
    BY <1>1 DEF Counted
  <1> HIDE DEF new, notes
  <1>8. j.used \subseteq InUse(index')
    BY <1>1, <1>2 DEF Counted
  <1>9. PICK a, b, a1, b1 : a = new /\ b = notes /\ a1 = New(j)' /\ b1 = NewNotes(j)'
    OBVIOUS
  <1>10. OneMore(a, b, i)
    <2>1. IsFiniteSet(a) /\ b \in SUBSET a /\ i \notin a
      BY <1>4, <1>9
    <2> QED BY ONLY <2>1, Counts
  <1>11. /\ IsFiniteSet(a1)
         /\ n.type = NoteType =>
              Cardinality(b1) = job.notes + 1 /\ Cardinality(a1 \ b1) = job.nodes
         /\ n.type # NoteType =>
              Cardinality(b1) = job.notes /\ Cardinality(a1 \ b1) = job.nodes + 1
    BY <1>5, <1>6, <1>7, <1>9, <1>10 DEF OneMore
  <1> QED BY <1>1, <1>2, <1>3, <1>8, <1>9, <1>11 DEF Adds

\* The records that have kept their id, after one more of them was dealt with.
LEMMA PreservedStep ==
  ASSUME JobInv, Running, job.at = "record", NEW next \in DOMAIN graph, next = job.next,
         NEW id \in Ids, NEW j, j.made = [job.made EXCEPT ![next].node = id]
  PROVE  Cardinality(Preserved(j)) =
           IF id = graph[next].id THEN job.preserved + 1 ELSE job.preserved
  <1>1. /\ job.made \in Made(graph) /\ job.made[next].node = None /\ graph \in Seq(Record)
        /\ job.preserved = Cardinality(Preserved(job)) /\ job.preserved \in Nat
    BY MigrationAssumption DEF JobInv, JobTyped, Jobs, RunFits, Blank, Counted
  <1>2. /\ j.made[next].node = id
        /\ \A n \in DOMAIN graph : n # next => j.made[n].node = job.made[n].node
    BY <1>1 DEF Made
  <1>3. Preserved(j) = IF id = graph[next].id THEN Preserved(job) \cup {next} ELSE Preserved(job)
    BY <1>1, <1>2, NoneAssumption DEF Preserved
  <1>4. PICK s, len : s = Preserved(job) /\ len = Len(graph)
    OBVIOUS
  <1>5. IsFiniteSet(s) /\ next \notin s
    <2>1. len \in Nat /\ s \subseteq 1 .. len /\ next \notin s
      BY <1>1, <1>4 DEF Preserved
    <2>2. IsFiniteSet(1 .. len)
      BY <2>1, FS_Interval
    <2> QED BY <2>1, <2>2, FS_Subset
  <1>6. Cardinality(s \cup {next}) = Cardinality(s) + 1
    BY <1>5, FS_AddElement
  <1> QED BY <1>1, <1>3, <1>4, <1>6

-----------------------------------------------------------------------------
(* Every step is a command of MemStore, or changes nothing there.           *)

\* A node that a run makes could be added by zhar add.
LEMMA SaveIsAdd ==
  ASSUME NEW i \in Ids, index[i] = None, NEW n \in NewNodes, Save(i, n),
         n.content = (n.type \in MemoryBacked), Normalize(n) = n
  PROVE  \E body \in Bodies : Add(n, body)
  <1>1. n \in Node
    BY InputAssumption
  <1> DEFINE body == IF n.type \in MemoryBacked THEN "content" ELSE "none"
  <1>2. [n EXCEPT !.content = body # "none" /\ n.type \in MemoryBacked] = n
    <2>1. (body # "none" /\ n.type \in MemoryBacked) = n.content
      OBVIOUS
    <2> HIDE DEF body
    <2>2. [n EXCEPT !.content = n.content] = n
      BY <1>1 DEF Node
    <2> QED BY <2>1, <2>2
  <1>3. body = "none" \/ n.type \in MemoryBacked
    OBVIOUS
  <1>4. i \in FreshIds(index) /\ body \in Bodies
    BY DEF FreshIds, Bodies
  <1> HIDE DEF body
  <1>5. Add(n, body)
    BY <1>2, <1>3, <1>4 DEF Add
  <1> QED BY <1>4, <1>5

\* What a run that goes on knows, and what the ids it is given are.
LEMMA RunFacts ==
  ASSUME JobInv, Running
  PROVE  /\ graph \in Seq(Record) /\ Len(graph) \in Nat /\ DOMAIN graph = 1 .. Len(graph)
         /\ \A n \in DOMAIN graph : graph[n].id \in Ids /\ graph[n] \in Record
         /\ job \in Jobs(graph) /\ job.made \in Made(graph) /\ job.next \in 1 .. Len(graph) + 1
         /\ job.at \in {"record", "note"} /\ counter \in Counters
         /\ InUse(index) \in SUBSET Ids /\ None \notin Ids
         /\ job.host # None => job.host \in Ids
  <1>1. graph \in Seq(Record) /\ job \in Jobs(graph) /\ counter \in Counters
    BY MigrationAssumption DEF JobInv, JobTyped
  <1>2. Len(graph) \in Nat /\ DOMAIN graph = 1 .. Len(graph)
    BY <1>1
  <1>3. \A n \in DOMAIN graph : graph[n].id \in Ids /\ graph[n] \in Record
    <2>1. \A n \in DOMAIN graph : graph[n] \in Record
      BY <1>1, <1>2
    <2> QED BY <2>1 DEF Record
  <1>4. job.at \in {"record", "note"}
    BY <1>1 DEF Jobs, Running
  <1>5. job.made \in Made(graph) /\ job.next \in 1 .. Len(graph) + 1
        /\ (job.host # None => job.host \in Ids)
    BY <1>1 DEF Jobs
  <1> QED BY <1>1, <1>2, <1>3, <1>4, <1>5, NoneAssumption DEF InUse

LEMMA LongIsFree ==
  ASSUME JobInv, Running, NEW c \in Counters, NEW got \in Allocate(c, InUse(index))
  PROVE  /\ got.id \in Ids /\ index[got.id] = None /\ got.id \notin ShortIds
         /\ got.counter \in Counters
  <1>1. got.id \in LongIds \ InUse(index) /\ got.counter \in Counters
    BY RunFacts, NewLongIs DEF Allocate
  <1> QED BY <1>1, LongIsNotShort, MigrationAssumption DEF InUse

LEMMA PreferredIsFree ==
  ASSUME JobInv, Running, NEW preferred \in Ids,
         NEW got \in AllocatePreferred(preferred, counter, InUse(index))
  PROVE  /\ got.id \in Ids /\ index[got.id] = None /\ got.counter \in Counters
         /\ index[preferred] = None => got.id = preferred
  <1>1. /\ got.id \in Ids \ InUse(index) /\ got.counter \in Counters
        /\ preferred \notin InUse(index) => got.id = preferred
    BY RunFacts, PreferredIs
  <1> QED BY <1>1 DEF InUse

\* The counter after an id was allocated.
LEMMA CounterIs ==
  ASSUME JobInv, Running, NEW c \in {u.counter : u \in Allocate(counter, InUse(index))}
  PROVE  c \in Counters
  BY RunFacts, LongIsFree

LEMMA StepIsCommand ==
  ASSUME JobInv, MigrationNext
  PROVE  CommandSteps \/ UNCHANGED vars
  <1>1. ASSUME NEW how, Ends(how) PROVE UNCHANGED vars
    BY <1>1 DEF Ends, vars
  <1>2. CASE Begin
    BY <1>2 DEF Begin, CommandSteps
  <1>3. CASE Skip
    BY <1>3 DEF Skip, vars
  <1>4. CASE Finish
    BY <1>4, <1>1 DEF Finish
  <1>5. CASE Crash
    BY <1>5 DEF Crash, vars
  <1>6. CASE Command
    BY <1>6 DEF Command, CommandSteps, InUse
  <1>7. CASE MigrateNode
    <2>1. Running /\ job.next \in DOMAIN graph /\ Current.type \in Direct
      BY <1>7 DEF MigrateNode, Working, Running, Stops
    <2>2. ASSUME NEW got \in AllocatePreferred(Current.id, counter, InUse(index)),
                 Save(got.id, MappedNode(Current))
          PROVE  CommandSteps
      <3>1. got.id \in Ids /\ index[got.id] = None
        BY <2>1, RunFacts, PreferredIsFree DEF Current
      <3> QED BY <2>1, <2>2, <3>1, SavedNodes, SaveIsAdd DEF CommandSteps, Current
    <2> QED BY <1>1, <1>7, <2>2 DEF MigrateNode, Saves
  <1>8. CASE MigrateTask
    <2>1. Running
      BY <1>8 DEF MigrateTask, Working, Running, Stops
    <2>2. ASSUME NEW c \in {u.counter : u \in Allocate(counter, InUse(index))},
                 NEW got \in Allocate(c, InUse(index)), Save(got.id, HostNode)
          PROVE  CommandSteps
      <3>1. got.id \in Ids /\ index[got.id] = None
        BY <2>1, CounterIs, LongIsFree
      <3> QED BY <2>2, <3>1, SavedNodes, SaveIsAdd DEF CommandSteps
    <2> QED BY <1>1, <1>8, <2>2 DEF MigrateTask, Saves, vars
  <1>9. CASE MigrateNote
    <2>1. Running /\ job.at = "note"
      BY <1>9 DEF MigrateNote, Working, Running, Stops
    <2>2. job.target \in Ids /\ Attachable(job.target)
      BY <2>1 DEF JobInv, RunFits, TargetFits
    <2>3. ASSUME NEW got \in Allocate(counter, InUse(index)),
                 Save(got.id, AttachedNote({job.target}))
          PROVE  CommandSteps
      <3>1. got.id \in FreshIds(index)
        BY <2>1, RunFacts, LongIsFree DEF FreshIds
      <3>2. AddNote({job.target})
        BY <2>2, <2>3, <3>1 DEF AddNote
      <3> QED BY <2>2, <3>2 DEF CommandSteps
    <2> QED BY <1>1, <1>9, <2>3 DEF MigrateNote, Saves, NoteTarget, NoteIds
  <1> QED BY <1>2, <1>3, <1>4, <1>5, <1>6, <1>7, <1>8, <1>9 DEF MigrationNext

\* So it keeps what is proved of the memory store.
LEMMA CommandIsStep == CommandSteps => Next
  <1>1. \A i \in Ids : {i} \in (SUBSET Ids) \ {{}}
    OBVIOUS
  <1> QED BY <1>1, MigrationAssumption DEF CommandSteps, Next

LEMMA StoreKept ==
  ASSUME JobInv, [MigrationNext]_mvars
  PROVE  [Next]_vars /\ IInv'
  <1>1. [Next]_vars
    BY StepIsCommand, CommandIsStep DEF mvars
  <1> QED BY <1>1, NextIInv DEF JobInv

-----------------------------------------------------------------------------
(* The steps of a run that goes on.                                         *)

\* The records that are dealt with keep their notes while nodes are only added.
LEMMA NotedStays ==
  ASSUME JobInv, Running, graph' = graph,
         \A k \in Ids : Get(k) # None => Get(k)' = Get(k),
         NEW j, NEW n \in 1 .. job.next - 1,
         \A k \in 1 .. job.next - 1 : j.made[k] = job.made[k],
         graph[n].type \in TaskStates => j.host = job.host
  PROVE  NotedRecord(j, n)'
  <1>1. NotedRecord(job, n) /\ n \in DOMAIN graph
        /\ (\A k \in 1 .. n : k \in DOMAIN graph /\ j.made[k] = job.made[k])
    BY RunFacts DEF JobInv, RunFits, Noted
  <1>2. job.made[n].note \in Ids \cup {None} /\ job.made[n].node \in Ids \cup {None}
        /\ job.host \in Ids \cup {None}
    BY <1>1, RunFacts DEF Made
  <1>3. ASSUME NEW note \in Ids \cup {None}, NEW about \in Ids \cup {None},
               HasNote(note, about)
        PROVE  HasNote(note, about)'
    BY <1>3, NoneAssumption DEF HasNote
  <1>4. PICK note, node, host :
          note = j.made[n].note /\ node = j.made[n].node /\ host = j.host
    OBVIOUS
  <1>5. /\ note = job.made[n].note /\ node = job.made[n].node
        /\ graph[n].type \in TaskStates => host = job.host
    BY <1>1, <1>4
  <1>6. graph[n].type \in Direct => HasNote(note, node)'
    BY <1>1, <1>2, <1>3, <1>5 DEF NotedRecord
  <1>7. graph[n].type \in TaskStates => HasNote(note, host)'
    BY <1>1, <1>2, <1>3, <1>5 DEF NotedRecord
  <1>8. graph[n].type \in Direct \cup TaskStates => \A k \in 1 .. n - 1 : j.made[k].note # note
    BY <1>1, <1>5 DEF NotedRecord
  <1> QED BY <1>4, <1>6, <1>7, <1>8 DEF NotedRecord

\* A run that has made something of record `next`, and is to go on as j.
Advances(next, j) ==
  /\ graph' = graph /\ next \in DOMAIN graph /\ next = job.next
  /\ j \in Jobs(graph) /\ j.used = job.used
  /\ \A n \in DOMAIN graph : n # next => j.made[n] = job.made[n]

\* The node of a record was saved.
LEMMA NodeStep ==
  ASSUME JobInv, Running, job.at = "record", NEW next, NEW j, Advances(next, j),
         graph[next].type \in Direct,
         NEW i \in Ids, index[i] = None, index[graph[next].id] = None => i = graph[next].id,
         NEW m, m = MappedNode(graph[next]), Put(i, m),
         j.at = "note", j.next = next, j.target = i, j.host = job.host,
         j.nodes = job.nodes + 1, j.notes = job.notes,
         j.preserved = IF i = graph[next].id THEN job.preserved + 1 ELSE job.preserved,
         j.made = [job.made EXCEPT ![next].node = i]
  PROVE  RunFits(j)'
  <1>1. /\ graph' = graph /\ next \in DOMAIN graph /\ next = job.next /\ j.used = job.used
        /\ job.made \in Made(graph) /\ DOMAIN graph = 1 .. Len(graph) /\ Len(graph) \in Nat
    BY RunFacts DEF Advances
  <1>2. PICK made : made = j.made
    OBVIOUS
  <1>3. /\ made[next].node = i /\ made[next].note = job.made[next].note
        /\ \A n \in DOMAIN graph : n # next => made[n] = job.made[n]
        /\ \A n \in DOMAIN graph : made[n].note = job.made[n].note
    BY <1>1, <1>2 DEF Made
  <1>4. Preserved(j)' = Preserved(j)
    BY <1>1 DEF Preserved
  <1>5. Cardinality(Preserved(j)) = j.preserved
    BY <1>1, PreservedStep
  <1>6. m \in Node /\ m.type = graph[next].type /\ m.type # NoteType
    BY <1>1, SavedNodes, RecordTypes
  <1>7. /\ \A k \in Ids : Get(k) # None => k # i /\ Get(k)' = Get(k)
        /\ \A k \in Ids : index[k] # None => index'[k] # None
        /\ index'[i] # None /\ Get(i)' = m
        /\ j.used \subseteq InUse(index') /\ IsFiniteSet(New(j)')
        /\ Cardinality(NewNotes(j)') = job.notes
        /\ Cardinality(New(j)' \ NewNotes(j)') = job.nodes + 1
    <2>1. Adds(i, m, j)
      BY <1>1, <1>6, Grown
    <2> QED BY <1>6, <2>1 DEF Adds
  <1>8. RunFits(job)
    BY DEF JobInv
  <1> HIDE <1>2
  <1>11. TargetFits(j)'
    <2>1. PICK host : host = job.host
      OBVIOUS
    <2>2. host # None => host \in Ids /\ Get(host) # None /\ Get(host).type # NoteType
      BY <1>8, <2>1, RunFacts DEF RunFits, TargetFits, Attachable
    <2>3. host # None => Get(host)' # None /\ Get(host)'.type # NoteType
      BY <1>7, <2>2
    <2>4. Get(i)' # None /\ Get(i)'.type # NoteType
      BY <1>6, <1>7, NoneAssumption DEF Node
    <2> QED BY <1>1, <1>2, <1>3, <2>1, <2>3, <2>4 DEF TargetFits, Attachable
  <1>12. Blank(j)'
    BY <1>1, <1>2, <1>3, <1>8 DEF RunFits, Blank
  <1>13. Noted(j)'
    <2>1. \A k \in 1 .. job.next - 1 : j.made[k] = job.made[k]
      BY <1>1, <1>2, <1>3
    <2>2. \A n \in 1 .. job.next - 1 : NotedRecord(j, n)'
      BY <1>1, <1>7, <2>1, NotedStays
    <2> QED BY <1>1, <2>2 DEF Noted
  <1>14. NotesInUse(j)'
    <2>1. \A n \in DOMAIN graph :
            made[n].note # None => index[made[n].note] # None /\ made[n].note \in Ids
      BY <1>1, <1>3, <1>8 DEF RunFits, NotesInUse, Made
    <2> QED BY <1>1, <1>2, <1>7, <2>1 DEF NotesInUse
  <1>15. Counted(j)'
    BY <1>4, <1>5, <1>7 DEF Counted
  <1>16. OwnIds(j)'
    <2>1. ASSUME Apart(j)
          PROVE  \A n \in DOMAIN graph :
                   /\ made[n].node \in {None, graph[n].id}
                   /\ index'[graph[n].id] # None => made[n].node = graph[n].id
      <3>1. Apart(job)
        BY <1>1, <2>1 DEF Apart
      <3>2. \A n \in DOMAIN graph :
              /\ job.made[n].node \in {None, graph[n].id}
              /\ index[graph[n].id] # None => job.made[n].node = graph[n].id
        BY <1>8, <3>1, RunFacts DEF RunFits, OwnIds, InUse
      <3>3. index[graph[next].id] = None
        BY <1>1, <1>8, <3>2, RunFacts DEF RunFits, Blank
      <3>4. i = graph[next].id
        BY <3>3
      <3>5. \A n \in DOMAIN graph : n # next => graph[n].id # i
        BY <1>1, <2>1, <3>4 DEF Apart
      <3>6. \A k \in Ids : k # i => index'[k] = index[k]
        BY DEF Put
      <3> QED BY <1>3, <3>2, <3>4, <3>5, <3>6, RunFacts
    <2>2. Apart(j)' => Apart(j)
      BY <1>1 DEF Apart
    <2> QED BY <1>1, <1>2, <2>1, <2>2 DEF OwnIds, InUse
  <1> QED BY <1>11, <1>12, <1>13, <1>14, <1>15, <1>16 DEF RunFits

\* The host of the task states was saved.
LEMMA HostStep ==
  ASSUME JobInv, Running, job.at = "record", NEW next, NEW j, Advances(next, j),
         graph[next].type \in TaskStates, job.host = None,
         NEW i \in Ids, index[i] = None, i \notin ShortIds, Put(i, HostNode),
         j.at = "note", j.next = next, j.target = i, j.host = i,
         j.nodes = job.nodes + 1, j.notes = job.notes,
         j.preserved = job.preserved, j.made = job.made
  PROVE  RunFits(j)'
  <1>1. /\ graph' = graph /\ next \in DOMAIN graph /\ next = job.next /\ j.used = job.used
        /\ job.made \in Made(graph) /\ DOMAIN graph = 1 .. Len(graph) /\ Len(graph) \in Nat
    BY RunFacts DEF Advances
  <1>2. PICK m : m = HostNode
    OBVIOUS
  <1>3. m \in Node /\ m.type = HostType /\ m.type # NoteType /\ Put(i, m)
    BY <1>2, SavedNodes, RecordTypes
  <1>4. RunFits(job) /\ graph[next].type \notin Direct
    BY RecordTypes DEF JobInv
  <1>5. /\ \A k \in Ids : Get(k) # None => k # i /\ Get(k)' = Get(k)
        /\ \A k \in Ids : index[k] # None => index'[k] # None
        /\ index'[i] # None /\ Get(i)' = m
        /\ j.used \subseteq InUse(index') /\ IsFiniteSet(New(j)')
        /\ Cardinality(NewNotes(j)') = job.notes
        /\ Cardinality(New(j)' \ NewNotes(j)') = job.nodes + 1
    <2>1. Adds(i, m, j)
      BY <1>1, <1>3, Grown
    <2> QED BY <1>3, <2>1 DEF Adds
  <1>6. TargetFits(j)'
    <2>1. Get(i)' # None /\ Get(i)'.type # NoteType
      BY <1>3, <1>5, NoneAssumption DEF Node
    <2> QED BY <1>1, <1>4, <2>1 DEF TargetFits, Attachable
  <1>7. Blank(j)'
    BY <1>1, <1>4 DEF RunFits, Blank
  <1>8. Noted(j)'
    <2>1. \A n \in 1 .. job.next - 1 : graph[n].type \notin TaskStates
      BY <1>4 DEF RunFits, Noted, NotedRecord, HasNote
    <2>2. \A n \in 1 .. job.next - 1 : NotedRecord(j, n)'
      BY <1>1, <1>5, <2>1, NotedStays
    <2> QED BY <1>1, <2>2 DEF Noted
  <1>9. NotesInUse(j)'
    <2>1. \A n \in DOMAIN graph :
            job.made[n].note # None =>
              index[job.made[n].note] # None /\ job.made[n].note \in Ids
      BY <1>1, <1>4 DEF RunFits, NotesInUse, Made
    <2>2. PICK made : made = j.made
      OBVIOUS
    <2>3. \A n \in DOMAIN graph : made[n].note # None => index'[made[n].note] # None
      BY <1>5, <2>1, <2>2
    <2> QED BY <1>1, <2>2, <2>3 DEF NotesInUse
  <1>10. Counted(j)'
    <2>1. Preserved(j)' = Preserved(job)
      BY <1>1 DEF Preserved
    <2> QED BY <1>4, <1>5, <2>1 DEF Counted, RunFits
  <1>11. OwnIds(j)'
    <2>1. ASSUME Apart(j)
          PROVE  \A n \in DOMAIN graph :
                   /\ j.made[n].node \in {None, graph[n].id}
                   /\ index'[graph[n].id] # None => j.made[n].node = graph[n].id
      <3>1. Apart(job)
        BY <1>1, <2>1 DEF Apart
      <3>2. \A n \in DOMAIN graph : graph[n].id # i
        BY <3>1 DEF Apart
      <3>3. \A k \in Ids : k # i => index'[k] = index[k]
        BY DEF Put
      <3> QED BY <1>1, <1>4, <3>1, <3>2, <3>3, RunFacts DEF RunFits, OwnIds, InUse
    <2>2. Apart(j)' => Apart(j)
      BY <1>1 DEF Apart
    <2> QED BY <1>1, <2>1, <2>2 DEF OwnIds, InUse
  <1> QED BY <1>6, <1>7, <1>8, <1>9, <1>10, <1>11 DEF RunFits

\* The note of a record was saved.
LEMMA NoteStep ==
  ASSUME JobInv, Running, job.at = "note", NEW next, NEW j, Advances(next, j),
         NEW about, about = job.target,
         NEW i \in Ids, index[i] = None, i \notin ShortIds, Put(i, AttachedNote({about})),
         j.at = "record", j.next = next + 1, j.target = job.target, j.host = job.host,
         j.nodes = job.nodes, j.notes = job.notes + 1, j.preserved = job.preserved,
         j.made = [job.made EXCEPT ![next].note = i]
  PROVE  RunFits(j)'
  <1>1. /\ graph' = graph /\ next \in DOMAIN graph /\ next = job.next /\ j.used = job.used
        /\ job.made \in Made(graph) /\ DOMAIN graph = 1 .. Len(graph) /\ Len(graph) \in Nat
    BY RunFacts DEF Advances
  <1>2. PICK made : made = j.made
    OBVIOUS
  <1>3. /\ made[next].note = i /\ made[next].node = job.made[next].node
        /\ \A n \in DOMAIN graph : n # next => made[n] = job.made[n]
        /\ \A n \in DOMAIN graph : made[n].node = job.made[n].node
    BY <1>1, <1>2 DEF Made
  <1>4. /\ RunFits(job) /\ about \in Ids /\ Get(about) # None /\ Get(about).type # NoteType
        /\ graph[next].type \in Direct => job.made[next].node = about
        /\ graph[next].type \notin Direct => job.host = about
    BY <1>1 DEF JobInv, RunFits, TargetFits, Attachable
  <1>5. PICK m : m = AttachedNote({about})
    OBVIOUS
  <1>6. m \in Node /\ m # None /\ m.type = NoteType /\ m.refs = {about} /\ Put(i, m)
    BY <1>4, <1>5, SavedNodes, NoneAssumption DEF Node
  <1>7. /\ \A k \in Ids : Get(k) # None => k # i /\ Get(k)' = Get(k)
        /\ \A k \in Ids : index[k] # None => index'[k] # None
        /\ index'[i] # None /\ Get(i)' = m
        /\ j.used \subseteq InUse(index') /\ IsFiniteSet(New(j)')
        /\ Cardinality(NewNotes(j)') = job.notes + 1
        /\ Cardinality(New(j)' \ NewNotes(j)') = job.nodes
    <2>1. Adds(i, m, j)
      BY <1>1, <1>6, Grown
    <2> QED BY <1>6, <2>1 DEF Adds
  <1> HIDE <1>2
  <1>8. TargetFits(j)'
    <2>1. PICK host : host = job.host
      OBVIOUS
    <2>2. host # None => host \in Ids /\ Get(host) # None /\ Get(host).type # NoteType
      BY <1>4, <2>1, RunFacts DEF RunFits, TargetFits, Attachable
    <2>3. host # None => Get(host)' # None /\ Get(host)'.type # NoteType
      BY <1>7, <2>2
    <2> QED BY <2>1, <2>3 DEF TargetFits, Attachable
  <1>9. Blank(j)'
    BY <1>1, <1>2, <1>3, <1>4 DEF RunFits, Blank
  <1>10. \A n \in DOMAIN graph : n # next /\ job.made[n].note # None =>
             index[job.made[n].note] # None /\ job.made[n].note \in Ids
    BY <1>1, <1>4 DEF RunFits, NotesInUse, Made
  <1>11. Noted(j)'
    <2>1. \A k \in 1 .. job.next - 1 : j.made[k] = job.made[k]
      BY <1>1, <1>2, <1>3
    <2>2. \A n \in 1 .. job.next - 1 : NotedRecord(j, n)'
      BY <1>1, <1>7, <2>1, NotedStays
    <2>3. HasNote(i, about)'
      BY <1>4, <1>6, <1>7, NoneAssumption DEF HasNote
    <2>4. PICK node, host : node = j.made[next].node /\ host = j.host
      OBVIOUS
    <2>5. /\ graph[next].type \in Direct => node = about
          /\ graph[next].type \in TaskStates => host = about
      BY <1>2, <1>3, <1>4, <2>4, RecordTypes
    <2>6. /\ graph[next].type \in Direct => HasNote(i, node)'
          /\ graph[next].type \in TaskStates => HasNote(i, host)'
      BY <2>3, <2>5
    <2>7. \A k \in 1 .. next - 1 : j.made[k].note # i
      <3> SUFFICES ASSUME NEW k \in 1 .. next - 1 PROVE made[k].note # i
        BY <1>2
      <3>1. k \in DOMAIN graph /\ k # next
        BY <1>1
      <3> QED BY <1>3, <1>10, <3>1, NoneAssumption
    <2>8. j.made[next].note = i
      BY <1>2, <1>3
    <2>9. NotedRecord(j, next)'
      BY <1>1, <2>4, <2>6, <2>7, <2>8 DEF NotedRecord
    <2>10. \A n \in 1 .. next : NotedRecord(j, n)'
      BY <1>1, <2>2, <2>9
    <2>11. j.next - 1 = next
      BY <1>1
    <2> QED BY <2>10, <2>11 DEF Noted
  <1>12. NotesInUse(j)'
    BY <1>1, <1>2, <1>3, <1>7, <1>10 DEF NotesInUse
  <1>13. Counted(j)'
    <2>1. Preserved(j)' = Preserved(job)
      BY <1>1, <1>2, <1>3 DEF Preserved
    <2> QED BY <1>4, <1>7, <2>1 DEF Counted, RunFits
  <1>14. OwnIds(j)'
    <2>1. ASSUME Apart(j)
          PROVE  \A n \in DOMAIN graph :
                   /\ made[n].node \in {None, graph[n].id}
                   /\ index'[graph[n].id] # None => made[n].node = graph[n].id
      <3>1. Apart(job)
        BY <1>1, <2>1 DEF Apart
      <3>2. \A n \in DOMAIN graph : graph[n].id # i
        BY <3>1 DEF Apart
      <3>3. \A k \in Ids : k # i => index'[k] = index[k]
        BY DEF Put
      <3> QED BY <1>1, <1>3, <1>4, <3>1, <3>2, <3>3, RunFacts DEF RunFits, OwnIds, InUse
    <2>2. Apart(j)' => Apart(j)
      BY <1>1 DEF Apart
    <2> QED BY <1>1, <1>2, <2>1, <2>2 DEF OwnIds, InUse
  <1> QED BY <1>8, <1>9, <1>11, <1>12, <1>13, <1>14 DEF RunFits

\* Nothing was saved: the record needs no node of its own, or is passed over.
LEMMA QuietStep ==
  ASSUME JobInv, Running, job.at = "record", NEW next, NEW j, Advances(next, j),
         UNCHANGED <<file, index>>,
         \/ /\ graph[next].type \in TaskStates /\ job.host # None
            /\ j.at = "note" /\ j.next = next /\ j.target = job.host
         \/ /\ graph[next].type \notin Direct \cup TaskStates
            /\ j.at = "record" /\ j.next = next + 1,
         j.host = job.host, j.nodes = job.nodes, j.notes = job.notes,
         j.preserved = job.preserved, j.made = job.made
  PROVE  RunFits(j)'
  <1>1. /\ graph' = graph /\ next \in DOMAIN graph /\ next = job.next /\ j.used = job.used
        /\ job.made \in Made(graph) /\ DOMAIN graph = 1 .. Len(graph) /\ Len(graph) \in Nat
    BY RunFacts DEF Advances
  <1>2. RunFits(job) /\ (job.host # None => job.host \in Ids)
        /\ (graph[next].type \in TaskStates => graph[next].type \notin Direct)
    BY RecordTypes, RunFacts DEF JobInv
  <1>3. \A k : Get(k)' = Get(k)
    BY DEF Get
  <1>4. TargetFits(j)'
    BY <1>1, <1>2, <1>3 DEF RunFits, TargetFits, Attachable
  <1>5. Blank(j)'
    BY <1>1, <1>2 DEF RunFits, Blank
  <1>6. Noted(j)'
    <2>1. \A n \in 1 .. job.next - 1 : NotedRecord(j, n)'
      BY <1>1, <1>3, NotedStays
    <2>2. graph[next].type \notin Direct \cup TaskStates => NotedRecord(j, next)'
      BY <1>1 DEF NotedRecord
    <2>3. \A n \in 1 .. j.next - 1 :
            n \in 1 .. job.next - 1 \/ (n = next /\ graph[next].type \notin Direct \cup TaskStates)
      BY <1>1, <1>2
    <2> QED BY <2>1, <2>2, <2>3 DEF Noted
  <1>7. NotesInUse(j)'
    BY <1>1, <1>2 DEF RunFits, NotesInUse
  <1>8. Counted(j)'
    <2>1. Preserved(j)' = Preserved(job) /\ New(j)' = New(job) /\ NewNotes(j)' = NewNotes(job)
      BY <1>1 DEF Preserved, New, NewNotes, InUse
    <2> QED BY <1>1, <1>2, <2>1 DEF Counted, RunFits, InUse
  <1>9. OwnIds(j)'
    BY <1>1, <1>2 DEF RunFits, OwnIds, Apart, InUse
  <1> QED BY <1>4, <1>5, <1>6, <1>7, <1>8, <1>9 DEF RunFits

-----------------------------------------------------------------------------
(* Every step keeps the invariant.                                          *)

\* The run has stopped.
LEMMA EndsKeeps ==
  ASSUME JobInv, NEW how \in Stops, Ends(how)
  PROVE  JobTyped' /\ ~Running'
  <1>1. job' = [job EXCEPT !.at = how] /\ job \in Jobs(graph)
    BY DEF Ends, JobInv, JobTyped
  <1>2. job' \in Jobs(graph) /\ job'.at = how
    BY <1>1 DEF Jobs
  <1> QED BY <1>2 DEF Ends, JobInv, JobTyped, Running

\* A save under a fresh id, accepted or refused.
LEMMA SavesKeeps ==
  ASSUME JobInv, Running, NEW got, NEW n \in Node, NEW j \in Jobs(graph), Saves(got, n, j),
         got.id \in Ids, got.counter \in Counters, index[got.id] = None, Normalize(n) = n,
         Put(got.id, n) => RunFits(j)'
  PROVE  JobTyped' /\ (Running' => RunFits(job)')
  <1>1. /\ Save(got.id, n) /\ counter' = got.counter
        /\ job' = IF reply' = "ok" THEN j ELSE [job EXCEPT !.at = "failed"]
        /\ UNCHANGED <<graph, runs, crashes, commands>>
    BY DEF Saves
  <1>2. \/ reply' = "error"
        \/ reply' = "ok" /\ Put(got.id, n)
    BY <1>1, SaveFresh DEF JobInv
  <1>3. CASE reply' = "error"
    <2>1. job' = [job EXCEPT !.at = "failed"] /\ job \in Jobs(graph)
      BY <1>1, <1>3 DEF JobInv, JobTyped
    <2>2. job' \in Jobs(graph) /\ job'.at \in Stops
      BY <2>1 DEF Jobs, Stops
    <2> QED BY <1>1, <2>2 DEF JobInv, JobTyped, Running
  <1>4. CASE reply' = "ok" /\ Put(got.id, n)
    <2>1. job' = j /\ RunFits(j)'
      BY <1>1, <1>4
    <2>2. RunFits(job)'
      BY <2>1
    <2> QED BY <1>1, <2>1, <2>2 DEF JobInv, JobTyped
  <1> QED BY <1>2, <1>3, <1>4

LEMMA MigrateNodeKeeps ==
  ASSUME JobInv, MigrateNode
  PROVE  JobTyped' /\ (Running' => RunFits(job)')
  <1>1. PICK next : next = job.next
    OBVIOUS
  <1>2. /\ Running /\ job.at = "record" /\ next \in DOMAIN graph /\ Current = graph[next]
        /\ graph[next].type \in Direct
    BY <1>1 DEF MigrateNode, Working, Running, Stops, Current
  <1>3. CASE \E how \in Stops : Ends(how)
    BY <1>3, EndsKeeps
  <1>4. ASSUME NEW got \in AllocatePreferred(graph[next].id, counter, InUse(index)),
               NEW j, j = [job EXCEPT !.at = "note", !.target = got.id, !.nodes = @ + 1,
                             !.preserved = IF got.id = graph[next].id THEN @ + 1 ELSE @,
                             !.made[next].node = got.id],
               Saves(got, MappedNode(graph[next]), j)
        PROVE  JobTyped' /\ (Running' => RunFits(job)')
    <2>1. /\ got.id \in Ids /\ index[got.id] = None /\ got.counter \in Counters
          /\ index[graph[next].id] = None => got.id = graph[next].id
      BY <1>2, RunFacts, PreferredIsFree
    <2>2. /\ job \in Jobs(graph) /\ job.made \in Made(graph) /\ job.preserved \in Nat
          /\ job.nodes \in Nat
      BY <1>2, RunFacts DEF Jobs
    <2>3. PICK i, made, preserved :
            /\ i = got.id
            /\ made = [job.made EXCEPT ![next].node = i]
            /\ preserved = IF i = graph[next].id THEN job.preserved + 1 ELSE job.preserved
      OBVIOUS
    <2>4. j = [job EXCEPT !.at = "note", !.target = i, !.nodes = job.nodes + 1,
                          !.preserved = preserved, !.made = made]
      BY <1>4, <2>2, <2>3 DEF Jobs
    <2>5. made \in Made(graph) /\ preserved \in Nat /\ job.nodes + 1 \in Nat /\ i \in Ids
          /\ \A n \in DOMAIN graph : n # next => made[n] = job.made[n]
      BY <1>2, <2>1, <2>2, <2>3 DEF Made
    <2>6. /\ j \in Jobs(graph)
          /\ j.at = "note" /\ j.next = next /\ j.target = i /\ j.nodes = job.nodes + 1
          /\ j.notes = job.notes /\ j.preserved = preserved /\ j.host = job.host
          /\ j.used = job.used /\ j.made = made
      BY <1>1, <2>2, <2>4, <2>5 DEF Jobs
    <2>7. PICK m : m = MappedNode(graph[next])
      OBVIOUS
    <2>8. m \in Node /\ Normalize(m) = m
      BY <1>2, <2>7, SavedNodes
    <2>9. graph' = graph
      BY <1>4 DEF Saves
    <2>10. Advances(next, j)
      BY <1>1, <1>2, <2>5, <2>6, <2>9 DEF Advances
    <2>11. Put(i, m) => RunFits(j)'
      <3> SUFFICES ASSUME Put(i, m) PROVE RunFits(j)'
        OBVIOUS
      <3>1. j.made = [job.made EXCEPT ![next].node = i]
        BY <2>3, <2>6
      <3>2. j.preserved = IF i = graph[next].id THEN job.preserved + 1 ELSE job.preserved
        BY <2>3, <2>6
      <3>3. index[i] = None /\ i \in Ids /\ (index[graph[next].id] = None => i = graph[next].id)
        BY <2>1, <2>3
      <3> HIDE <2>3, <2>4, <1>4
      <3> QED BY <1>2, <2>6, <2>7, <2>10, <3>1, <3>2, <3>3, NodeStep
    <2> QED BY <1>2, <1>4, <2>1, <2>3, <2>6, <2>7, <2>8, <2>11, SavesKeeps
  <1> QED BY <1>1, <1>2, <1>3, <1>4 DEF MigrateNode, Stops

LEMMA MigrateTaskKeeps ==
  ASSUME JobInv, MigrateTask
  PROVE  JobTyped' /\ (Running' => RunFits(job)')
  <1>1. PICK next : next = job.next
    OBVIOUS
  <1>2. /\ Running /\ job.at = "record" /\ next \in DOMAIN graph
        /\ graph[next].type \in TaskStates
    BY <1>1 DEF MigrateTask, Working, Running, Stops, Current
  <1>3. CASE \E how \in Stops : Ends(how)
    BY <1>3, EndsKeeps
  <1>4. job \in Jobs(graph) /\ job.nodes \in Nat /\ job.made \in Made(graph)
    BY <1>2, RunFacts DEF Jobs
  <1>5. ASSUME job.host # None, counter' \in Counters,
               NEW j, j = [job EXCEPT !.at = "note", !.target = job.host], job' = j,
               UNCHANGED <<file, index, now, reply, graph, runs, crashes, commands>>
        PROVE  JobTyped' /\ (Running' => RunFits(job)')
    <2>1. /\ j \in Jobs(graph)
          /\ j.at = "note" /\ j.next = next /\ j.target = job.host /\ j.nodes = job.nodes
          /\ j.notes = job.notes /\ j.preserved = job.preserved /\ j.host = job.host
          /\ j.used = job.used /\ j.made = job.made
      BY <1>1, <1>4, <1>5 DEF Jobs
    <2>2. Advances(next, j)
      BY <1>1, <1>2, <1>5, <2>1 DEF Advances
    <2>3. RunFits(j)'
      BY <1>2, <1>5, <2>1, <2>2, QuietStep
    <2>4. RunFits(job)'
      BY <1>5, <2>3
    <2> QED BY <1>5, <2>1, <2>4 DEF JobInv, JobTyped
  <1>6. ASSUME job.host = None, NEW got, NEW c \in Counters, got \in Allocate(c, InUse(index)),
               NEW j, j = [job EXCEPT !.at = "note", !.target = got.id, !.host = got.id,
                                      !.nodes = @ + 1],
               Saves(got, HostNode, j)
        PROVE  JobTyped' /\ (Running' => RunFits(job)')
    <2>1. /\ got.id \in Ids /\ index[got.id] = None /\ got.counter \in Counters
          /\ got.id \notin ShortIds
      BY <1>2, <1>6, LongIsFree
    <2>2. PICK i : i = got.id
      OBVIOUS
    <2>3. /\ j \in Jobs(graph)
          /\ j.at = "note" /\ j.next = next /\ j.target = i /\ j.nodes = job.nodes + 1
          /\ j.notes = job.notes /\ j.preserved = job.preserved /\ j.host = i
          /\ j.used = job.used /\ j.made = job.made
      <3>1. j = [job EXCEPT !.at = "note", !.target = i, !.host = i, !.nodes = job.nodes + 1]
        BY <1>4, <1>6, <2>2 DEF Jobs
      <3>2. i \in Ids /\ job.nodes + 1 \in Nat
        BY <1>4, <2>1, <2>2
      <3> HIDE <1>6, <2>2
      <3> QED BY <1>1, <1>4, <3>1, <3>2 DEF Jobs
    <2>4. graph' = graph
      BY <1>6 DEF Saves
    <2>5. Advances(next, j)
      BY <1>1, <1>2, <2>3, <2>4 DEF Advances
    <2>6. Put(i, HostNode) => RunFits(j)'
      BY <1>2, <1>6, <2>1, <2>2, <2>3, <2>5, HostStep
    <2>7. HostNode \in Node /\ Normalize(HostNode) = HostNode
      BY SavedNodes
    <2> QED BY <1>2, <1>6, <2>1, <2>2, <2>3, <2>6, <2>7, SavesKeeps
  <1>7. \A c \in {u.counter : u \in Allocate(counter, InUse(index))} : c \in Counters
    BY <1>2, CounterIs
  <1> QED BY <1>2, <1>3, <1>5, <1>6, <1>7 DEF MigrateTask, Stops

LEMMA MigrateNoteKeeps ==
  ASSUME JobInv, MigrateNote
  PROVE  JobTyped' /\ (Running' => RunFits(job)')
  <1>1. PICK next, about : next = job.next /\ about = job.target
    OBVIOUS
  <1>2. Running /\ job.at = "note" /\ next \in DOMAIN graph
    BY <1>1 DEF MigrateNote, Working, Running, Stops
  <1>3. CASE \E how \in Stops : Ends(how)
    BY <1>3, EndsKeeps
  <1>4. /\ job \in Jobs(graph) /\ job.notes \in Nat /\ job.made \in Made(graph)
        /\ next \in 1 .. Len(graph) /\ Len(graph) \in Nat /\ DOMAIN graph = 1 .. Len(graph)
    BY <1>2, RunFacts DEF Jobs
  <1>5. about \in Ids
    BY <1>1, <1>2 DEF JobInv, RunFits, TargetFits
  <1>6. ASSUME NEW got \in Allocate(counter, InUse(index)),
               NEW j, j = [job EXCEPT !.at = "record", !.next = @ + 1, !.notes = @ + 1,
                                      !.made[next].note = got.id],
               Saves(got, AttachedNote({about}), j)
        PROVE  JobTyped' /\ (Running' => RunFits(job)')
    <2>1. /\ got.id \in Ids /\ index[got.id] = None /\ got.counter \in Counters
          /\ got.id \notin ShortIds
      BY <1>2, RunFacts, LongIsFree
    <2>2. PICK i, made : i = got.id /\ made = [job.made EXCEPT ![next].note = i]
      OBVIOUS
    <2>3. /\ made \in Made(graph) /\ job.notes + 1 \in Nat /\ next + 1 \in 1 .. Len(graph) + 1
          /\ \A n \in DOMAIN graph : n # next => made[n] = job.made[n]
      <3>1. i \in Ids /\ made = [job.made EXCEPT ![next].note = i]
        BY <2>1, <2>2
      <3> HIDE <2>2, <1>6
      <3> QED BY <1>4, <3>1 DEF Made
    <2>4. j = [job EXCEPT !.at = "record", !.next = next + 1, !.notes = job.notes + 1,
                          !.made = made]
      BY <1>1, <1>4, <1>6, <2>2 DEF Jobs
    <2>5. /\ j \in Jobs(graph)
          /\ j.at = "record" /\ j.next = next + 1 /\ j.target = job.target
          /\ j.nodes = job.nodes /\ j.notes = job.notes + 1 /\ j.preserved = job.preserved
          /\ j.host = job.host /\ j.used = job.used /\ j.made = made
      BY <1>4, <2>3, <2>4 DEF Jobs
    <2>6. graph' = graph
      BY <1>6 DEF Saves
    <2>7. Advances(next, j)
      BY <1>1, <1>2, <2>3, <2>5, <2>6 DEF Advances
    <2>8. Put(i, AttachedNote({about})) => RunFits(j)'
      <3>1. j.made = [job.made EXCEPT ![next].note = i] /\ i \in Ids /\ index[i] = None
            /\ i \notin ShortIds
        BY <2>1, <2>2, <2>5
      <3> HIDE <2>2, <2>4, <1>6
      <3> QED BY <1>1, <1>2, <2>5, <2>7, <3>1, NoteStep
    <2>9. AttachedNote({about}) \in Node
          /\ Normalize(AttachedNote({about})) = AttachedNote({about})
      BY <1>5, SavedNodes
    <2> QED BY <1>2, <1>6, <2>1, <2>2, <2>5, <2>8, <2>9, SavesKeeps
  <1> QED BY <1>1, <1>3, <1>6 DEF MigrateNote, NoteIds, NoteTarget, Stops

\* A run that begins has made nothing.
LEMMA BeginKeeps ==
  ASSUME JobInv, Begin
  PROVE  JobTyped' /\ (Running' => RunFits(job)')
  <1>1. /\ graph' = graph /\ file' = file /\ index' = Rebuild(file) /\ runs < MaxRuns
        /\ counter' = Unset /\ runs' = runs + 1 /\ UNCHANGED <<crashes, commands>>
    BY DEF Begin, Open
  <1>2. index' = index
    BY <1>1, RebuildAgrees DEF JobInv, IInv
  <1>3. PICK used, made : /\ used = InUse(index)
                          /\ made = [n \in DOMAIN graph |-> [node |-> None, note |-> None]]
    OBVIOUS
  <1>4. PICK j : j = [at |-> "record", next |-> 1, nodes |-> 0, notes |-> 0, preserved |-> 0,
                      host |-> None, target |-> None, used |-> used, made |-> made]
    OBVIOUS
  <1>5. job' = j
    BY <1>2, <1>3, <1>4 DEF Begin, NewJob
  <1>6. /\ graph \in Seq(Record) /\ graph \in Graphs /\ runs \in 0 .. MaxRuns
        /\ crashes \in 0 .. MaxCrashes /\ commands \in 0 .. MaxCommands
    BY MigrationAssumption DEF JobInv, JobTyped
  <1>7. Len(graph) \in Nat /\ DOMAIN graph = 1 .. Len(graph)
    BY <1>6
  <1>8. made \in Made(graph) /\ used \in SUBSET Ids
    BY <1>3 DEF Made, InUse
  <1>9. /\ j.at = "record" /\ j.next = 1 /\ j.nodes = 0 /\ j.notes = 0 /\ j.preserved = 0
        /\ j.host = None /\ j.target = None /\ j.used = used /\ j.made = made
    BY <1>4
  <1>10. j \in Jobs(graph)
    <2>1. 1 \in 1 .. Len(graph) + 1 /\ 0 \in Nat
      BY <1>7
    <2> QED BY <1>4, <1>8, <2>1 DEF Jobs
  <1>11. Unset \in Counters /\ runs + 1 \in 0 .. MaxRuns
    BY <1>1, <1>6, MigrationAssumption, IdAssumption DEF Counters, Unset
  <1>12. JobTyped'
    BY <1>1, <1>5, <1>6, <1>10, <1>11 DEF JobTyped
  <1>13. \A n \in DOMAIN graph : made[n].node = None /\ made[n].note = None
    BY <1>3
  <1>14. TargetFits(j)' /\ Blank(j)' /\ NotesInUse(j)' /\ Noted(j)'
    BY <1>1, <1>9, <1>13 DEF TargetFits, Blank, NotesInUse, Noted
  <1>15. Counted(j)'
    <2>1. New(j)' = {} /\ NewNotes(j)' = {} /\ Preserved(j)' = {}
      BY <1>1, <1>2, <1>3, <1>9, <1>13 DEF New, NewNotes, Preserved
    <2>2. InUse(index)' = used
      BY <1>2, <1>3 DEF InUse
    <2>3. (New(j) \ NewNotes(j))' = {}
      BY <2>1
    <2>4. IsFiniteSet({}) /\ Cardinality({}) = 0
      BY FS_EmptySet
    <2> QED BY <1>9, <2>1, <2>2, <2>3, <2>4 DEF Counted
  <1>16. OwnIds(j)'
    BY <1>1, <1>2, <1>3, <1>9, <1>13 DEF OwnIds, Apart, InUse
  <1>17. RunFits(j)'
    BY <1>14, <1>15, <1>16 DEF RunFits
  <1> QED BY <1>5, <1>12, <1>17

LEMMA SkipKeeps ==
  ASSUME JobInv, Skip
  PROVE  JobTyped' /\ (Running' => RunFits(job)')
  <1>1. PICK next : next = job.next
    OBVIOUS
  <1>2. /\ Running /\ job.at = "record" /\ next \in DOMAIN graph
        /\ graph[next].type \notin Direct \cup TaskStates
        /\ UNCHANGED <<file, index, now, reply, graph, counter, runs, crashes, commands>>
    BY <1>1 DEF Skip, Working, Running, Stops, Current
  <1>3. PICK j : j = [job EXCEPT !.next = next + 1] /\ job' = j
    BY <1>1 DEF Skip
  <1>4. /\ job \in Jobs(graph) /\ Len(graph) \in Nat /\ DOMAIN graph = 1 .. Len(graph)
    BY <1>2, RunFacts
  <1>5. next + 1 \in 1 .. Len(graph) + 1
    BY <1>2, <1>4
  <1>6. /\ j \in Jobs(graph)
        /\ j.at = "record" /\ j.next = next + 1 /\ j.nodes = job.nodes
        /\ j.notes = job.notes /\ j.preserved = job.preserved /\ j.host = job.host
        /\ j.used = job.used /\ j.made = job.made
    BY <1>2, <1>3, <1>4, <1>5 DEF Jobs
  <1>7. Advances(next, j)
    BY <1>1, <1>2, <1>6 DEF Advances
  <1>8. RunFits(j)'
    BY <1>2, <1>6, <1>7, QuietStep
  <1>9. RunFits(job)'
    BY <1>3, <1>8
  <1> QED BY <1>2, <1>3, <1>6, <1>9 DEF JobInv, JobTyped

LEMMA CrashKeeps ==
  ASSUME JobInv, Crash
  PROVE  JobTyped' /\ ~Running'
  <1>1. job' = [job EXCEPT !.at = "crashed"] /\ job \in Jobs(graph)
    BY DEF Crash, JobInv, JobTyped
  <1>2. job' \in Jobs(graph) /\ job'.at \in Stops
    BY <1>1 DEF Jobs, Stops
  <1>3. crashes' \in 0 .. MaxCrashes
    BY MigrationAssumption DEF Crash, JobInv, JobTyped
  <1> QED BY <1>2, <1>3 DEF Crash, JobInv, JobTyped, Running

LEMMA CommandKeeps ==
  ASSUME JobInv, Command
  PROVE  JobTyped' /\ ~Running'
  <1>1. commands' \in 0 .. MaxCommands
    BY MigrationAssumption DEF Command, JobInv, JobTyped
  <1> QED BY <1>1 DEF Command, JobInv, JobTyped, Running

LEMMA InitJobInv == MigrationInit => JobInv
  <1> SUFFICES ASSUME MigrationInit PROVE JobInv
    OBVIOUS
  <1>1. IInv
    BY InitIInv DEF MigrationInit
  <1>2. graph \in Graphs /\ graph \in Seq(Record) /\ Len(graph) \in Nat
    BY MigrationAssumption DEF MigrationInit
  <1>3. PICK made : made = [n \in DOMAIN graph |-> [node |-> None, note |-> None]]
    OBVIOUS
  <1>4. made \in Made(graph)
    BY <1>3 DEF Made
  <1>5. job = [at |-> "idle", next |-> 1, nodes |-> 0, notes |-> 0, preserved |-> 0,
               host |-> None, target |-> None, used |-> {}, made |-> made]
    BY <1>3 DEF MigrationInit, NewJob
  <1>6. 1 \in 1 .. Len(graph) + 1 /\ 0 \in Nat /\ {} \in SUBSET Ids
    BY <1>2
  <1>7. job \in Jobs(graph) /\ ~Running
    BY <1>4, <1>5, <1>6 DEF Jobs, Running, Stops
  <1>8. JobTyped
    BY <1>2, <1>7, MigrationAssumption, IdAssumption DEF MigrationInit, JobTyped, Counters, Unset
  <1> QED BY <1>1, <1>7, <1>8 DEF JobInv

LEMMA NextJobInv == JobInv /\ [MigrationNext]_mvars => JobInv'
  <1> SUFFICES ASSUME JobInv, [MigrationNext]_mvars PROVE JobInv'
    OBVIOUS
  <1>1. IInv'
    BY StoreKept
  <1>2. CASE UNCHANGED mvars
    <2>1. UNCHANGED <<file, index, graph, counter, job, runs, crashes, commands>>
      BY <1>2 DEF mvars, vars, migration
    <2>2. JobTyped'
      BY <2>1 DEF JobInv, JobTyped
    <2>3. Running' => RunFits(job)'
      BY <2>1 DEF JobInv, Running, RunFits, TargetFits, Attachable, Blank, Noted, NotedRecord,
        HasNote, NotesInUse, Counted, New, NewNotes, Preserved, OwnIds, Apart, InUse, Get
    <2> QED BY <1>1, <2>2, <2>3 DEF JobInv
  <1>3. CASE Begin
    BY <1>1, <1>3, BeginKeeps DEF JobInv
  <1>4. CASE Skip
    BY <1>1, <1>4, SkipKeeps DEF JobInv
  <1>5. CASE MigrateNode
    BY <1>1, <1>5, MigrateNodeKeeps DEF JobInv
  <1>6. CASE MigrateTask
    BY <1>1, <1>6, MigrateTaskKeeps DEF JobInv
  <1>7. CASE MigrateNote
    BY <1>1, <1>7, MigrateNoteKeeps DEF JobInv
  <1>8. CASE Finish
    BY <1>1, <1>8, EndsKeeps DEF JobInv, Finish, Stops
  <1>9. CASE Crash
    BY <1>1, <1>9, CrashKeeps DEF JobInv
  <1>10. CASE Command
    BY <1>1, <1>10, CommandKeeps DEF JobInv
  <1> QED BY <1>2, <1>3, <1>4, <1>5, <1>6, <1>7, <1>8, <1>9, <1>10 DEF MigrationNext

\* The inductive invariant of the migration.
THEOREM JobInvariant == MigrationSpec => []JobInv
  BY InitJobInv, NextJobInv, PTL DEF MigrationSpec

-----------------------------------------------------------------------------
(* What the run checks, as consequences.                                    *)

\* Every variable has its type, whatever graph.json holds.
THEOREM MigrationTypeCorrect == MigrationSpec => []MigrationTypeOK
  <1>1. JobInv => MigrationTypeOK
    <2> SUFFICES ASSUME JobInv PROVE MigrationTypeOK
      OBVIOUS
    <2>1. TypeOK
      BY DEF JobInv, IInv, Consistent, Files, Indexes, TypeOK
    <2> QED BY <2>1 DEF JobInv, JobTyped, Jobs, Made, MigrationTypeOK
  <1> QED BY <1>1, JobInvariant, PTL

\* At every moment of a run, each record that was dealt with has its own note, on the
\* node made of it or on the host of the task states.
THEOREM RecordsNoted == MigrationSpec => []RecordsHaveNotes
  <1>1. JobInv => RecordsHaveNotes
    <2> SUFFICES ASSUME JobInv, Running, NEW n \in 1 .. job.next - 1,
                        graph[n].type \in Direct \cup TaskStates
                 PROVE  LET m == job.made[n]
                            about == IF graph[n].type \in Direct THEN m.node ELSE job.host
                        IN /\ m.note # None /\ about # None
                           /\ Get(about) # None /\ Get(about).type # NoteType
                           /\ Get(m.note) # None /\ Get(m.note).refs = {about}
                           /\ \A k \in 1 .. n - 1 : job.made[k].note # m.note
      BY DEF RecordsHaveNotes
    <2>1. NotedRecord(job, n)
      BY DEF JobInv, RunFits, Noted
    <2>2. CASE graph[n].type \in Direct
      BY <2>1, <2>2 DEF NotedRecord, HasNote
    <2>3. CASE graph[n].type \notin Direct
      BY <2>1, <2>3 DEF NotedRecord, HasNote
    <2> QED BY <2>2, <2>3
  <1> QED BY <1>1, JobInvariant, PTL

\* The counts of the report are those of the nodes, the notes and the kept ids that are
\* there because of the run.
THEOREM ReportCorrect == MigrationSpec => []ReportTrue
  <1>1. JobInv => ReportTrue
    BY DEF JobInv, RunFits, Counted, New, NewNotes, Preserved, ReportTrue
  <1> QED BY <1>1, JobInvariant, PTL

\* Short ids that are all different and free when a run begins are all kept.
THEOREM LegacyKept == MigrationSpec => []LegacyIdsKept
  <1>1. JobInv => LegacyIdsKept
    BY DEF JobInv, RunFits, OwnIds, Apart, LegacyIdsKept, DistinctAndFree
  <1> QED BY <1>1, JobInvariant, PTL

\* Each step of a migration is a memory command, or changes nothing in the store.
THEOREM MigrationIsCommands == MigrationSpec => IsCommands
  <1>1. MigrationInit => Init
    BY DEF MigrationInit
  <1>2. JobInv /\ [MigrationNext]_mvars => [CommandSteps]_vars
    BY StepIsCommand DEF mvars
  <1> QED BY <1>1, <1>2, JobInvariant, PTL DEF MigrationSpec, IsCommands

\* So what is proved of the memory store holds of it, through any number of migrations
\* that complete, fail or are killed.
THEOREM MigrationIsStore == MigrationSpec => Spec
  <1>1. MigrationInit => Init
    BY DEF MigrationInit
  <1>2. JobInv /\ [MigrationNext]_mvars => [Next]_vars
    BY StoreKept
  <1> QED BY <1>1, <1>2, JobInvariant, PTL DEF MigrationSpec, Spec

\* A run only adds to the store, the second one over a half migrated store included.
THEOREM MigrationOnlyAdds == MigrationSpec => RunsOnlyAdd
  <1> DEFINE Kept == ~Command => \A g \in Groups, i \in Ids :
                       file[g][i] # None => file'[g][i] = file[g][i]
  <1>1. JobInv /\ [MigrationNext]_mvars => [Kept]_mvars
    <2> SUFFICES ASSUME JobInv, MigrationNext, ~Command,
                        NEW g \in Groups, NEW i \in Ids, file[g][i] # None
                 PROVE  file'[g][i] = file[g][i]
      OBVIOUS
    <2>1. ASSUME NEW k \in Ids, index[k] = None, NEW n \in Node, Normalize(n) = n, Save(k, n)
          PROVE  file'[g][i] = file[g][i]
      BY <2>1, SaveFresh DEF JobInv, Put
    <2>2. ASSUME NEW how, Ends(how) PROVE file' = file
      BY <2>2 DEF Ends
    <2>3. CASE Begin \/ Skip \/ Finish \/ Crash
      BY <2>2, <2>3 DEF Begin, Open, Skip, Finish, Crash
    <2>4. CASE MigrateNode
      <3>1. Running /\ job.next \in DOMAIN graph /\ graph[job.next].type \in Direct
        BY <2>4 DEF MigrateNode, Working, Running, Stops, Current
      <3>2. MappedNode(Current) \in Node /\ Normalize(MappedNode(Current)) = MappedNode(Current)
        BY <3>1, SavedNodes DEF Current
      <3>3. ASSUME NEW got \in AllocatePreferred(Current.id, counter, InUse(index)),
                   Save(got.id, MappedNode(Current))
            PROVE  file'[g][i] = file[g][i]
        <4>1. got.id \in Ids /\ index[got.id] = None
          BY <3>1, RunFacts, PreferredIsFree DEF Current
        <4> QED BY <2>1, <3>2, <3>3, <4>1
      <3> QED BY <2>2, <2>4, <3>3 DEF MigrateNode, Saves
    <2>5. CASE MigrateTask
      <3>1. Running
        BY <2>5 DEF MigrateTask, Working, Running, Stops
      <3>2. ASSUME NEW c \in {u.counter : u \in Allocate(counter, InUse(index))},
                   NEW got \in Allocate(c, InUse(index)), Save(got.id, HostNode)
            PROVE  file'[g][i] = file[g][i]
        <4>1. got.id \in Ids /\ index[got.id] = None
          BY <3>1, CounterIs, LongIsFree
        <4> QED BY <2>1, <3>2, <4>1, SavedNodes
      <3> QED BY <2>2, <2>5, <3>2 DEF MigrateTask, Saves
    <2>6. CASE MigrateNote
      <3>1. Running /\ job.at = "note"
        BY <2>6 DEF MigrateNote, Working, Running, Stops
      <3>2. job.target \in Ids
        BY <3>1 DEF JobInv, RunFits, TargetFits
      <3>3. ASSUME NEW got \in Allocate(counter, InUse(index)),
                   Save(got.id, AttachedNote({job.target}))
            PROVE  file'[g][i] = file[g][i]
        <4>1. got.id \in Ids /\ index[got.id] = None
          BY <3>1, RunFacts, LongIsFree
        <4> QED BY <2>1, <3>2, <3>3, <4>1, SavedNodes
      <3> QED BY <2>2, <2>6, <3>3 DEF MigrateNote, Saves, NoteTarget, NoteIds
    <2> QED BY <2>3, <2>4, <2>5, <2>6 DEF MigrationNext
  <1> QED BY <1>1, JobInvariant, PTL DEF MigrationSpec, RunsOnlyAdd
=============================================================================
