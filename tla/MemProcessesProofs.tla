------------------------ MODULE MemProcessesProofs ------------------------
(***************************************************************************)
(* The safety of MemProcesses for any number of processes, commands and     *)
(* stores.  The inductive invariant has four parts: what holds of a process *)
(* on its own (Typed), how processes take turns at a file (Turns), what a   *)
(* process that nobody has written behind still sees rightly (Sight), and   *)
(* what keeps singletons single while all writes are Serial (InTurn).       *)
(***************************************************************************)
EXTENDS MemProcesses, TLAPS

-----------------------------------------------------------------------------
(* Nodes, references and validation, whoever keeps the files.               *)

\* RefOf of a node is a reference, and so not None.
LEMMA RefOfType ==
  ASSUME NEW n \in Node
  PROVE  RefOf(n) \in NodeRef /\ RefOf(n) # None
  BY NoneAssumption DEF RefOf, Node, NodeRef

\* And it has the node's type.
LEMMA RefOfKeepsType == ASSUME NEW n PROVE RefOf(n).type = n.type
  BY DEF RefOf

\* Normalizing keeps a node a node and touches nothing but the path.
LEMMA NormalizeKeeps ==
  ASSUME NEW n \in Node
  PROVE  /\ Normalize(n) \in Node
         /\ Normalize(n).type = n.type /\ Normalize(n).status = n.status
         /\ Normalize(n).content = n.content /\ Normalize(n).refs = n.refs
         /\ Normalize(n).source = n.source /\ Normalize(n).expires = n.expires
         /\ n.type = FileChange => ~(Normalize(n).source /\ Normalize(n).path)
  BY DEF Normalize, Node

-----------------------------------------------------------------------------
(* Validation and singletons.                                               *)

IsActive(ref, type) == ref # None /\ ref.type = type /\ ref.status = "active"

OneActive(idx) == \A t \in Singletons : \A i, j \in Ids :
  IsActive(idx[i], t) /\ IsActive(idx[j], t) => i = j

\* An accepted node of a singleton type has no active rival in the index,
\* whichever entry the index lists first.
LEMMA AcceptedAlone ==
  ASSUME NEW idx, OneActive(idx), NEW i \in Ids, NEW n \in Node,
         Accepts(i, n, idx), n.type \in Singletons,
         NEW j \in Ids, IsActive(idx[j], n.type)
  PROVE  j = i
  <1>1. j \in ActiveIds(idx, n.type)
    BY DEF ActiveIds, IsActive
  <1>2. PICK first \in ActiveIds(idx, n.type) : first \in {None, i}
    BY <1>1 DEF Accepts, FirstActive, Valid, SingletonFree
  <1>3. first = i /\ IsActive(idx[i], n.type)
    BY <1>2, NoneAssumption DEF ActiveIds, IsActive
  <1> QED BY <1>3 DEF OneActive

-----------------------------------------------------------------------------
(* The state, part by part.                                                 *)

Live(r) == r.at \notin Ended

\* A node in its own group's file, and contents of such nodes.
Placed(g, n) == GroupOf[n.type] = g /\ RefersAsTyped(n)

Stored(g, c) == c \in Contents /\ \A i \in Ids : c[i] # None => Placed(g, c[i])

States ==
  [at : Ended \cup {"open", "fetch", "apply", "write", "fill"},
   cmd : Commands \cup {None}, runs : 0 .. MaxRuns,
   todo : SUBSET Groups, index : [Ids -> NodeRef \cup {None}],
   wanted : SUBSET Ids, plan : SUBSET Edits, edit : Edits \cup {None},
   data : Contents, held : [Groups -> Contents \cup {None}]]

\* A process has read every file once it is past opening; its cache holds
\* contents of the right group.
LocalReads(r) ==
  /\ Live(r) => r.cmd \in Commands
  /\ r.at # "open" => r.todo = {}
  /\ r.at = "open" => \A g \in r.todo : r.held[g] = None
  /\ \A g \in Groups : r.held[g] # None => Stored(g, r.held[g])
  /\ \A i \in Ids : r.index[i] # None => GroupOf[r.index[i].type] \notin r.todo

\* It fetches what is indexed, for prune with the status asked for.
LocalFetches(r) ==
  /\ r.at = "fetch" => r.wanted \subseteq Indexed(r) /\ r.cmd.op # "add"
  /\ r.at # "fetch" => r.wanted = {}
  /\ r.at = "fetch" /\ r.cmd.op = "prune" =>
       \A i \in r.wanted : r.index[i].status = r.cmd.status

\* It plans one edit per id: one under an id that is free in its index, or several
\* of nodes where the index has them.
LocalPlans(r) ==
  /\ r.at = "open" => r.plan = {}
  /\ \A e \in r.plan : e.node # None => Placed(e.group, e.node)
  /\ Live(r) /\ Adds(r.cmd) =>
       /\ r.at = "fetch" => r.plan = {}
       /\ \A e \in r.plan : r.plan = {e} /\ e.node # None /\ r.index[e.id] = None
  /\ Live(r) /\ ~Adds(r.cmd) =>
       /\ \A e \in r.plan :
            /\ r.index[e.id] # None /\ GroupOf[r.index[e.id].type] = e.group
            /\ e.id \notin r.wanted
       /\ \A e, f \in r.plan : e.id = f.id => e = f

\* The edit it is making is planned, accepted and, if a deletion, of something.
LocalEdits(r) == r.at \in {"write", "fill"} =>
  /\ r.edit \in r.plan
  /\ Stored(r.edit.group, r.data)
  /\ r.edit.node = None => r.data[r.edit.id] # None
  /\ r.edit.node # None => Accepts(r.edit.id, r.edit.node, r.index)

Local(r) ==
  r \in States /\ LocalReads(r) /\ LocalFetches(r) /\ LocalPlans(r) /\ LocalEdits(r)

Typed ==
  /\ file \in [Groups -> Contents \cup {Torn}]
  /\ \A g \in Groups : file[g] # Torn => Stored(g, file[g])
  /\ settled \in [Groups -> Contents]
  /\ proc \in [Procs -> States]
  /\ \A p \in Procs : Local(proc[p])
  /\ crashes \in 0 .. MaxCrashes
  /\ recent \subseteq Groups /\ clash \subseteq Groups /\ blind \subseteq Groups
  /\ stale \subseteq Procs /\ late \in BOOLEAN

-----------------------------------------------------------------------------
Rewrites(r, g) == r.at \in {"write", "fill"} /\ r.edit.group = g
Fills(r, g) == r.at = "fill" /\ r.edit.group = g
Filled(g) == \E p \in Procs : Fills(proc[p], g)

\* At most one process rewrites a file that is not in clash.  From a read that was
\* not blind to the end of its write it is alone, and the edits are not lost.
Turns(g) == g \notin clash =>
  /\ file[g] # Torn
  /\ \A p, q \in Procs : Rewrites(proc[p], g) /\ Rewrites(proc[q], g) => p = q
  /\ Filled(g) => file[g] = Empty
  /\ g \notin blind =>
       /\ ~Filled(g) => file[g] = settled[g]
       /\ \A p \in Procs : Rewrites(proc[p], g) => proc[p].data = settled[g]

-----------------------------------------------------------------------------
\* Edit e is one that command c makes to the contents d.
Fit(c, e, d) ==
  /\ d[e.id] # None
  /\ e \in EditsTo(c, e.id, d[e.id])
  /\ c.op = "prune" => d[e.id].status = c.status

\* What a process has read, cached and planned agrees with the contents c of g's
\* file.
View(r, g, c) ==
  /\ r.held[g] \in {None, c}
  /\ Adds(r.cmd) => \A i \in Ids : c[i] # None => r.index[i] # None
  /\ ~Adds(r.cmd) => \A e \in r.plan : e.group = g => Fit(r.cmd, e, c)
  /\ r.at \in {"open", "fetch"} =>
       \A i \in Ids :
         r.index[i] # None /\ GroupOf[r.index[i].type] = g /\ c[i] # None =>
           r.index[i] = RefOf(c[i])

\* What it starts an edit from does, too.
Draft(r) ==
  r.at \in {"write", "fill"} /\ r.edit.group \notin clash =>
    /\ r.at = "write" => r.data = file[r.edit.group]
    /\ ~Adds(r.cmd) =>
         \A e \in r.plan : e.group = r.edit.group => Fit(r.cmd, e, r.data)

\* What p's index has is in the settled store, in a file that p has read.
Known(p, t) == \E g \in Groups :
  /\ g \notin proc[p].todo
  /\ \/ g \in clash \cup blind
     \/ \E q \in Procs : q # p /\ Fills(proc[q], g)
     \/ settled[g][t] # None

Sight(p) == Live(proc[p]) /\ p \notin stale =>
  /\ \A g \in Groups :
       g \notin proc[p].todo /\ g \notin clash /\ ~Filled(g) => View(proc[p], g, file[g])
  /\ Draft(proc[p])
  /\ \A t \in Ids : proc[p].index[t] # None => Known(p, t)

-----------------------------------------------------------------------------
Describes(idx, c) == \A i \in Ids : c[i] # None => idx[i] = RefOf(c[i])

\* The index of p has all that the files p has read still hold, under its right
\* type, and its cache is what they hold unless one was cut or torn since.
Aware(p) == Live(proc[p]) /\ p \notin stale =>
  /\ \A g \in Groups : g \notin proc[p].todo =>
       /\ file[g] # Torn => Describes(proc[p].index, file[g])
       /\ file[g] \in {proc[p].held[g], Empty, Torn} \/ proc[p].held[g] = None
  /\ proc[p].at \in {"write", "fill"} =>
       Describes(proc[p].index, proc[p].data) /\ SinglesOf(proc[p].data)
  /\ OneActive(proc[p].index)

\* Nobody has yet written behind an index or from an outdated cache.
Serial == ~late /\ blind = {}

InTurn == Serial =>
  /\ \A g, h \in Groups, i \in Ids :
       file[g] # Torn /\ file[h] # Torn /\ file[g][i] # None /\ file[h][i] # None => g = h
  /\ OneActiveSingleton
  /\ \A p \in Procs : Aware(p)

IInv ==
  /\ Typed
  /\ \A g \in Groups : Turns(g)
  /\ \A p \in Procs : Sight(p)
  /\ InTurn

-----------------------------------------------------------------------------
(* Commands and their edits.                                                *)

LEMMA EmptyStored ==
  Empty \in Contents /\ (\A g : Stored(g, Empty)) /\ SinglesOf(Empty)
    /\ \A i \in Ids : Empty[i] = None
  BY DEF Empty, Contents, Stored, SinglesOf

\* A process before its first command ...
LEMMA FreshState ==
  /\ Fresh \in States /\ Fresh.todo = {} /\ Fresh.plan = {} /\ Fresh.wanted = {}
  /\ Fresh.at = "idle"
  /\ \A i \in Ids : Fresh.index[i] = None
  /\ \A g \in Groups : Fresh.held[g] = None
  <1>1. Empty \in Contents /\ Empty \in [Ids -> NodeRef \cup {None}]
    BY EmptyStored DEF Empty
  <1>2. [g \in Groups |-> None] \in [Groups -> Contents \cup {None}]
    OBVIOUS
  <1>3. 0 \in 0 .. MaxRuns
    BY ProcessAssumption
  <1>4. Fresh \in States
    BY <1>1, <1>2, <1>3 DEF Fresh, States, Ended
  <1> QED BY <1>4, EmptyStored DEF Fresh

\* ... or after its last.
LEMMA OverLocal ==
  ASSUME NEW r \in States, NEW how \in Ended
  PROVE  /\ Local(Over(r, how)) /\ ~Live(Over(r, how))
         /\ Over(r, how).at = how /\ Over(r, how).runs = r.runs
  <1>3. r.runs \in 0 .. MaxRuns
    BY DEF States
  <1>4. how \notin {"open", "fetch", "apply", "write", "fill"}
    BY DEF Ended
  <1> DEFINE o == Over(r, how)
  <1> HIDE DEF Fresh
  <1>5. /\ o \in States /\ o.at = how /\ o.runs = r.runs /\ o.todo = Fresh.todo
        /\ o.plan = Fresh.plan /\ o.wanted = Fresh.wanted /\ o.index = Fresh.index
        /\ o.held = Fresh.held
    BY <1>3, FreshState DEF Over, States
  <1> HIDE DEF o
  <1> QED BY <1>4, <1>5, FreshState
          DEF o, Local, Live, LocalReads, LocalFetches, LocalPlans, LocalEdits

\* An edit that stores node n: in the group of its type, normalized.
LEMMA PutEdit ==
  ASSUME NEW i \in Ids, NEW n \in Node, RefersAsTyped(n)
  PROVE  LET e == Put(i, n) IN
         /\ e \in Edits /\ e.id = i /\ e.group = GroupOf[n.type]
         /\ e.node # None /\ e.node \in Node /\ Placed(e.group, e.node)
  <1>1. Normalize(n) \in Node /\ Normalize(n).type = n.type /\ Normalize(n).refs = n.refs
    BY NormalizeKeeps
  <1>2. GroupOf[n.type] \in Groups
    BY SchemaAssumption DEF Node
  <1> QED BY <1>1, <1>2, NoneAssumption DEF Put, Edits, Placed, RefersAsTyped

\* What the commands that name or select nodes make of a node they fetched: one
\* edit at most, of that id, in the file the node came from.
LEMMA EditsAreSound ==
  ASSUME NEW c \in Commands, NEW i \in Ids, NEW g \in Groups, NEW n \in Node,
         Placed(g, n), NEW e \in EditsTo(c, i, n)
  PROVE  /\ e \in Edits /\ e.id = i /\ e.group = g
         /\ e.node # None => Placed(g, e.node)
         /\ ~Adds(c)
         /\ \A f \in EditsTo(c, i, n) : f = e
  <1>1. SoundCommand(c)
    BY ProcessAssumption
  <1>2. CASE c.op = "status"
    <2> DEFINE m == [n EXCEPT !.status = c.status]
    <2>1. EditsTo(c, i, n) = {Put(i, m)} /\ ~Adds(c)
      BY <1>2 DEF EditsTo, Adds
    <2>2. m \in Node /\ m.type = n.type /\ m.refs = n.refs
      BY <1>1, <1>2 DEF SoundCommand, Node
    <2> HIDE DEF m
    <2>3. RefersAsTyped(m) /\ GroupOf[m.type] = g
      BY <2>2 DEF Placed, RefersAsTyped
    <2> QED BY <2>1, <2>2, <2>3, PutEdit
  <1>3. CASE c.op \in {"remove", "prune"} \/ (c.op = "gc" /\ n.expires = 0)
    <2>1. EditsTo(c, i, n) = {Drop(i, n)} /\ ~Adds(c)
      BY <1>3 DEF EditsTo, Adds
    <2> QED BY <2>1 DEF Drop, Edits, Placed
  <1>4. CASE c.op = "gc" /\ n.expires # 0
    <2> DEFINE m == [n EXCEPT !.status = "archived"]
    <2>1. ~Adds(c) /\ EditsTo(c, i, n) \subseteq {Put(i, m)}
      BY <1>4 DEF EditsTo, Adds
    <2>2. n.type = IssueType
      BY <1>4 DEF EditsTo
    <2>3. m \in Node /\ m.type = n.type /\ m.refs = n.refs
      BY <2>2, SchemaAssumption DEF Node
    <2> HIDE DEF m
    <2>4. RefersAsTyped(m) /\ GroupOf[m.type] = g
      BY <2>3 DEF Placed, RefersAsTyped
    <2> QED BY <2>1, <2>3, <2>4, PutEdit
  <1>5. CASE c.op \in {"add", "add-note"}
    BY <1>5 DEF EditsTo
  <1> QED BY <1>1, <1>2, <1>3, <1>4, <1>5 DEF SoundCommand

-----------------------------------------------------------------------------
(* Reads and who rewrites what.                                             *)

\* A read that is no torn document returns what the cache has, or else the file.
LEMMA ReadIs ==
  ASSUME Typed, NEW p \in Procs, NEW g \in Groups, NEW c \in Read(p, g), c # Torn
  PROVE  /\ Stored(g, c) /\ c \in Contents
         /\ proc[p].held[g] = None => c = file[g]
         /\ proc[p].held[g] # None => c = proc[p].held[g]
  <1>1. CASE proc[p].held[g] = None
    BY <1>1 DEF Read, Seen, Typed, Stored
  <1>2. CASE proc[p].held[g] # None
    BY <1>2 DEF Read, Typed, Local, LocalReads, Stored
  <1> QED BY <1>1, <1>2

\* And so it returns the file, where the process sees it rightly.
LEMMA ReadIsFile ==
  ASSUME Typed, NEW p \in Procs, NEW g \in Groups, NEW c \in Read(p, g), c # Torn,
         proc[p].held[g] \in {None, file[g]}
  PROVE  c = file[g]
  BY ReadIs

LEMMA RewritingIs ==
  ASSUME NEW g
  PROVE  Rewriting(g) = {p \in Procs : Rewrites(proc[p], g)}
  BY DEF Rewriting, Rewrites

LEMMA UnsettledIs ==
  ASSUME NEW g
  PROVE  Unsettled(g) <=> g \in clash \cup blind \/ Filled(g)
  BY DEF Unsettled, Rewriting, Filled, Fills

-----------------------------------------------------------------------------
(* Steps that write no file.                                                *)

\* Process p goes on as r, and fills no file before or after the step.  It starts
\* a rewrite only of what it has just read, and alone or in clash.
Quiet(p, r) ==
  /\ proc' = [proc EXCEPT ![p] = r]
  /\ Local(r)
  /\ UNCHANGED <<file, settled, late>>
  /\ recent' \subseteq Groups /\ crashes' \in 0 .. MaxCrashes
  /\ clash \subseteq clash' /\ clash' \subseteq Groups
  /\ blind \subseteq blind' /\ blind' \subseteq Groups
  /\ stale' \subseteq stale /\ stale \subseteq stale' \cup {p}
  /\ proc[p].at # "fill" /\ r.at # "fill"
  /\ r.at = "write" /\ r.edit.group \notin clash' =>
       /\ \A q \in Procs : ~Rewrites(proc[q], r.edit.group)
       /\ r.edit.group \notin blind' => r.data = file[r.edit.group]

LEMMA QuietFills ==
  ASSUME Typed, NEW p \in Procs, NEW r, Quiet(p, r)
  PROVE  /\ proc'[p] = r
         /\ \A q \in Procs : q # p => proc'[q] = proc[q]
         /\ \A q \in Procs : \A g : Fills(proc'[q], g) <=> Fills(proc[q], g)
         /\ \A g : Filled(g)' <=> Filled(g)
  <1>1. proc'[p] = r /\ \A q \in Procs : q # p => proc'[q] = proc[q]
    BY DEF Quiet, Typed
  <1>2. \A q \in Procs : \A g : Fills(proc'[q], g) <=> Fills(proc[q], g)
    BY <1>1 DEF Quiet, Fills
  <1> QED BY <1>1, <1>2 DEF Filled

LEMMA QuietTyped ==
  ASSUME Typed, NEW p \in Procs, NEW r, Quiet(p, r)
  PROVE  Typed'
  <1>1. proc' \in [Procs -> States]
    BY DEF Quiet, Typed, Local
  <1>2. \A q \in Procs : Local(proc'[q])
    BY QuietFills DEF Quiet, Typed
  <1> QED BY <1>1, <1>2 DEF Quiet, Typed

LEMMA QuietTurns ==
  ASSUME Typed, NEW p \in Procs, NEW r, Quiet(p, r), NEW g \in Groups, Turns(g)
  PROVE  Turns(g)'
  <1> SUFFICES ASSUME g \notin clash'
               PROVE  /\ file'[g] # Torn
                      /\ \A q, s \in Procs :
                           Rewrites(proc'[q], g) /\ Rewrites(proc'[s], g) => q = s
                      /\ Filled(g)' => file'[g] = Empty
                      /\ g \notin blind' =>
                           /\ ~Filled(g)' => file'[g] = settled'[g]
                           /\ \A q \in Procs :
                                Rewrites(proc'[q], g) => proc'[q].data = settled'[g]
    BY DEF Turns
  <1>1. g \notin clash /\ file' = file /\ settled' = settled /\ (g \notin blind' => g \notin blind)
    BY DEF Quiet
  <1>2. proc'[p] = r /\ (\A q \in Procs : q # p => proc'[q] = proc[q])
        /\ (Filled(g)' <=> Filled(g))
    BY QuietFills
  <1>3. ASSUME Rewrites(r, g)
        PROVE  /\ \A q \in Procs : ~Rewrites(proc[q], g)
               /\ g \notin blind' => r.data = file[g]
    BY <1>3 DEF Quiet, Rewrites
  <1>4. Filled(g) => \E q \in Procs : Rewrites(proc[q], g)
    BY DEF Filled, Fills, Rewrites
  <1> QED BY <1>1, <1>2, <1>3, <1>4 DEF Turns

\* What the others see is not disturbed.
LEMMA QuietSight ==
  ASSUME Typed, NEW p \in Procs, NEW r, Quiet(p, r),
         NEW q \in Procs, q # p, Sight(q)
  PROVE  Sight(q)'
  <1> SUFFICES ASSUME Live(proc'[q]), q \notin stale'
               PROVE  /\ \A g \in Groups :
                           g \notin proc'[q].todo /\ g \notin clash' /\ ~Filled(g)'
                             => View(proc[q], g, file[g])'
                      /\ Draft(proc[q])'
                      /\ \A t \in Ids : proc'[q].index[t] # None => Known(q, t)'
    BY DEF Sight
  <1>1. /\ proc'[q] = proc[q] /\ file' = file /\ settled' = settled /\ q \notin stale
        /\ clash \subseteq clash' /\ blind \subseteq blind'
        /\ \A s \in Procs : \A g : Fills(proc'[s], g) <=> Fills(proc[s], g)
        /\ \A g : Filled(g)' <=> Filled(g)
    BY QuietFills DEF Quiet
  <1>2. \A g \in Groups :
          g \notin proc'[q].todo /\ g \notin clash' /\ ~Filled(g)' => View(proc[q], g, file[g])'
    BY <1>1 DEF Sight, View
  <1>3. Draft(proc[q])'
    BY <1>1 DEF Sight, Draft
  <1>4. \A t \in Ids : proc'[q].index[t] # None => Known(q, t)'
    BY <1>1 DEF Sight, Known
  <1> QED BY <1>2, <1>3, <1>4

LEMMA QuietAware ==
  ASSUME Typed, NEW p \in Procs, NEW r, Quiet(p, r),
         NEW q \in Procs, q # p, Aware(q)
  PROVE  Aware(q)'
  <1>1. proc'[q] = proc[q] /\ file' = file /\ (q \notin stale' => q \notin stale)
    BY QuietFills DEF Quiet
  <1> QED BY <1>1 DEF Aware

\* So a quiet step keeps the invariant if p still sees rightly.
LEMMA QuietKeeps ==
  ASSUME IInv, NEW p \in Procs, NEW r, Quiet(p, r),
         Live(r) /\ p \notin stale' => Sight(p)' /\ (Serial' => Aware(p)')
  PROVE  IInv'
  <1>1. Typed' /\ \A g \in Groups : Turns(g)'
    BY QuietTyped, QuietTurns DEF IInv
  <1>2. proc'[p] = r
    BY QuietFills DEF IInv
  <1>3. \A q \in Procs : Sight(q)'
    <2>1. Sight(p)'
      BY <1>2 DEF Sight
    <2>2. \A q \in Procs : q # p => Sight(q)'
      BY QuietSight DEF IInv
    <2> QED BY <2>1, <2>2
  <1>4. ASSUME Serial' PROVE Serial /\ \A q \in Procs : Aware(q)'
    <2>1. Serial
      BY <1>4 DEF Quiet, Serial
    <2>2. Aware(p)'
      BY <1>2, <1>4 DEF Aware
    <2>3. \A q \in Procs : q # p => Aware(q)'
      BY <2>1, QuietAware DEF IInv, InTurn
    <2> QED BY <2>1, <2>2, <2>3
  <1>5. InTurn'
    <2>1. file' = file
      BY DEF Quiet
    <2> QED BY <1>4, <2>1 DEF IInv, InTurn, OneActiveSingleton
  <1> QED BY <1>1, <1>3, <1>5 DEF IInv

\* As when it ends.
LEMMA QuietEnd ==
  ASSUME IInv, NEW p \in Procs, NEW how \in Ended, proc[p].at # "fill",
         proc' = [proc EXCEPT ![p] = Over(proc[p], how)],
         UNCHANGED <<file, recent, history>>, crashes' \in 0 .. MaxCrashes
  PROVE  IInv'
  <1> DEFINE r == Over(proc[p], how)
  <1>1. proc[p] \in States
    BY DEF IInv, Typed
  <1>2. Local(r) /\ ~Live(r) /\ r.at = how
    BY <1>1, OverLocal
  <1>3. how \notin {"write", "fill"}
    BY DEF Ended
  <1>4. recent \subseteq Groups /\ clash \subseteq Groups /\ blind \subseteq Groups
    BY DEF IInv, Typed
  <1> HIDE DEF r
  <1>5. proc' = [proc EXCEPT ![p] = r] /\ UNCHANGED <<file, recent, history>>
    BY DEF r
  <1>6. Quiet(p, r)
    BY <1>2, <1>3, <1>4, <1>5 DEF Quiet, history
  <1> QED BY <1>2, <1>6, QuietKeeps

-----------------------------------------------------------------------------
(* Each of these steps keeps the invariant.                                 *)

\* A command starts: nothing is read yet, so nothing is out of date.
LEMMA StartKeeps ==
  ASSUME IInv, NEW p \in Procs, NEW c \in Commands, Start(p, c)
  PROVE  IInv'
  <1> DEFINE r == [Fresh EXCEPT !.at = "open", !.cmd = c, !.todo = Groups,
                                !.runs = proc[p].runs + 1]
  <1>1. proc[p].runs + 1 \in 0 .. MaxRuns
    BY ProcessAssumption DEF Start, IInv, Typed, States
  <1> HIDE DEF Fresh
  <1>2. /\ r \in States /\ r.at = "open" /\ r.cmd = c /\ r.todo = Groups
        /\ r.index = Fresh.index /\ r.wanted = Fresh.wanted /\ r.plan = Fresh.plan
        /\ r.held = Fresh.held
    BY <1>1, FreshState DEF States
  <1>3. proc' = [proc EXCEPT ![p] = r]
    BY DEF Start, Becomes
  <1> HIDE DEF r
  <1>4. Local(r)
    BY <1>2, FreshState
    DEF Local, Live, LocalReads, LocalFetches, LocalPlans, LocalEdits
  <1>5. Quiet(p, r)
    BY <1>2, <1>3, <1>4 DEF Start, Quiet, IInv, Typed, Ended
  <1>6. proc'[p] = r
    BY <1>5, QuietFills DEF IInv
  <1>7. Sight(p)'
    BY <1>2, <1>6, FreshState DEF Sight, Draft
  <1>8. Aware(p)'
    BY <1>2, <1>6, FreshState DEF Aware, OneActive, IsActive
  <1> QED BY <1>5, <1>7, <1>8, QuietKeeps

\* A process that is opening the store reads g's file.
LEMMA ReadOneKeeps ==
  ASSUME IInv, NEW p \in Procs, NEW g \in Groups, NEW c \in Read(p, g), c # Torn,
         proc[p].at = "open", g \in proc[p].todo,
         proc' = [proc EXCEPT ![p] = [proc[p] EXCEPT
                    !.todo = @ \ {g}, !.held[g] = c,
                    !.index = [i \in Ids |-> IF c[i] = None THEN @[i] ELSE RefOf(c[i])]]],
         UNCHANGED <<file, recent, crashes, history>>
  PROVE  IInv'
  <1> DEFINE old == proc[p]
             r == [proc[p] EXCEPT
                    !.todo = @ \ {g}, !.held[g] = c,
                    !.index = [i \in Ids |-> IF c[i] = None THEN @[i] ELSE RefOf(c[i])]]
  <1>1. old \in States /\ Local(old)
    BY DEF IInv, Typed
  <1>2. Typed /\ Stored(g, c) /\ c \in Contents /\ c = file[g]
    BY <1>1, ReadIs DEF IInv, Local, LocalReads
  <1>3. ASSUME NEW i \in Ids, c[i] # None
        PROVE  /\ RefOf(c[i]) \in NodeRef /\ RefOf(c[i]) # None
               /\ GroupOf[RefOf(c[i]).type] = g
    <2>1. c[i] \in Node /\ GroupOf[c[i].type] = g
      BY <1>2, <1>3 DEF Contents, Stored, Placed
    <2> QED BY <2>1, RefOfType, RefOfKeepsType
  <1> DEFINE idx == [i \in Ids |-> IF c[i] = None THEN old.index[i] ELSE RefOf(c[i])]
  <1>4. idx \in [Ids -> NodeRef \cup {None}]
    BY <1>1, <1>3 DEF States
  <1>5. /\ r \in States /\ r.at = "open" /\ r.cmd = old.cmd /\ r.todo = old.todo \ {g}
        /\ r.index = idx /\ r.wanted = old.wanted /\ r.plan = old.plan
        /\ r.held = [old.held EXCEPT ![g] = c]
    BY <1>1, <1>2, <1>4 DEF States
  <1>6. \A h \in Groups : r.held[h] = IF h = g THEN c ELSE old.held[h]
    BY <1>1, <1>5 DEF States
  <1>7. \A i \in Ids : r.index[i] = IF c[i] = None THEN old.index[i] ELSE RefOf(c[i])
    BY <1>5
  <1> HIDE DEF r, idx
  <1>8. Local(r)
    <2>1. LocalReads(r)
      BY <1>1, <1>2, <1>3, <1>5, <1>6, <1>7 DEF Local, LocalReads, Live
    <2> QED BY <1>1, <1>5, <2>1 DEF Local, LocalFetches, LocalPlans, LocalEdits, Live
  <1>9. Quiet(p, r)
    BY <1>5, <1>8 DEF Quiet, IInv, Typed, history, r
  <1>10. /\ proc'[p] = r
         /\ \A q \in Procs : \A h : Fills(proc'[q], h) <=> Fills(proc[q], h)
         /\ \A h : Filled(h)' <=> Filled(h)
    BY <1>2, <1>9, QuietFills
  <1>11. /\ file' = file /\ clash' = clash /\ blind' = blind /\ settled' = settled
         /\ stale' = stale /\ late' = late
    BY DEF history
  <1>12. Live(old) /\ Sight(p)
    BY DEF IInv, Live, Ended
  <1>13. ASSUME p \notin stale PROVE Sight(p)'
    <2>1. ASSUME NEW h \in Groups, h \notin r.todo, h \notin clash, ~Filled(h)
          PROVE  View(r, h, file[h])
      <3>1. r.held[h] \in {None, file[h]} /\ r.plan = {}
        <4>1. r.plan = {}
          BY <1>1, <1>5 DEF Local, LocalPlans
        <4>2. CASE h = g
          BY <1>2, <1>6, <4>1, <4>2
        <4>3. CASE h # g
          <5>1. View(proc[p], h, file[h])
            BY <1>5, <1>12, <1>13, <2>1, <4>3 DEF Sight
          <5> QED BY <1>6, <4>1, <4>3, <5>1 DEF View
        <4> QED BY <4>2, <4>3
      <3>2. ASSUME Adds(r.cmd), NEW i \in Ids, file[h][i] # None PROVE r.index[i] # None
        <4>1. CASE h = g
          BY <1>2, <1>3, <1>7, <3>2, <4>1
        <4>2. CASE h # g
          <5>1. View(proc[p], h, file[h])
            BY <1>5, <1>12, <1>13, <2>1, <4>2 DEF Sight
          <5>2. old.index[i] # None
            BY <1>5, <3>2, <5>1 DEF View
          <5> QED BY <1>3, <1>7, <5>2
        <4> QED BY <4>1, <4>2
      <3>3. ASSUME NEW i \in Ids, r.index[i] # None, GroupOf[r.index[i].type] = h,
                   file[h][i] # None
            PROVE  r.index[i] = RefOf(file[h][i])
        <4>1. CASE h = g
          BY <1>2, <1>7, <3>3, <4>1
        <4>2. CASE h # g
          <5>1. View(proc[p], h, file[h])
            BY <1>5, <1>12, <1>13, <2>1, <4>2 DEF Sight
          <5>2. r.index[i] = old.index[i]
            BY <1>3, <1>7, <3>3, <4>2
          <5> QED BY <3>3, <5>1, <5>2 DEF View
        <4> QED BY <4>1, <4>2
      <3> QED BY <1>10, <1>11, <3>1, <3>2, <3>3 DEF View
    <2>2. Draft(proc[p])'
      BY <1>5, <1>10 DEF Draft
    <2>3. ASSUME NEW t \in Ids, r.index[t] # None PROVE Known(p, t)'
      <3>1. CASE c[t] # None
        <4>1. Filled(g) => \E q \in Procs : q # p /\ Fills(proc[q], g)
          BY DEF Filled, Fills
        <4>2. g \notin clash \cup blind /\ ~Filled(g) => file[g] = settled[g]
          BY DEF IInv, Turns
        <4> QED BY <1>2, <1>5, <1>10, <1>11, <3>1, <4>1, <4>2 DEF Known
      <3>2. CASE c[t] = None
        <4>1. Known(p, t)
          BY <1>7, <1>12, <1>13, <2>3, <3>2 DEF Sight
        <4> QED BY <1>5, <1>10, <1>11, <4>1 DEF Known
      <3> QED BY <3>1, <3>2
    <2> QED BY <1>10, <1>11, <2>1, <2>2, <2>3 DEF Sight
  <1>14. ASSUME p \notin stale, Serial' PROVE Aware(p)'
    <2>1. Aware(p) /\ SinglesOf(c)
          /\ \A h \in Groups, i \in Ids :
               file[h] # Torn /\ file[h][i] # None /\ c[i] # None => h = g
      BY <1>2, <1>11, <1>14 DEF IInv, InTurn, Serial, OneActiveSingleton
    <2>2. ASSUME NEW h \in Groups, h \notin r.todo
          PROVE  /\ file[h] # Torn => Describes(r.index, file[h])
                 /\ file[h] \in {r.held[h], Empty, Torn} \/ r.held[h] = None
      <3>1. CASE h = g
        BY <1>2, <1>6, <1>7, <3>1 DEF Describes
      <3>2. CASE h # g
        BY <1>5, <1>6, <1>7, <1>12, <1>14, <2>1, <2>2, <3>2 DEF Aware, Describes
      <3> QED BY <3>1, <3>2
    <2>3. OneActive(r.index)
      <3> SUFFICES ASSUME NEW t \in Singletons, NEW i \in Ids, NEW j \in Ids,
                          IsActive(r.index[i], t), IsActive(r.index[j], t)
                   PROVE  i = j
        BY DEF OneActive
      <3>1. CASE GroupOf[t] = g
        <4>1. ASSUME NEW k \in Ids, IsActive(r.index[k], t)
              PROVE  c[k] # None /\ c[k].type = t /\ c[k].status = "active"
          <5>1. c[k] # None
            BY <1>1, <1>7, <3>1, <4>1 DEF Local, LocalReads, IsActive
          <5>2. IsActive(RefOf(c[k]), t)
            BY <1>7, <4>1, <5>1
          <5> QED BY <5>1, <5>2 DEF IsActive, RefOf
        <4> QED BY <2>1, <4>1 DEF SinglesOf
      <3>2. CASE GroupOf[t] # g
        <4>1. r.index[i] = old.index[i] /\ r.index[j] = old.index[j]
          BY <1>3, <1>7, <3>2 DEF IsActive
        <4> QED BY <1>12, <1>14, <2>1, <4>1 DEF Aware, OneActive
      <3> QED BY <3>1, <3>2
    <2> QED BY <1>5, <1>10, <1>11, <2>2, <2>3 DEF Aware
  <1> QED BY <1>9, <1>11, <1>13, <1>14, QuietKeeps

LEMMA ReadGroupKeeps ==
  ASSUME IInv, NEW p \in Procs, NEW g \in Groups, ReadGroup(p, g)
  PROVE  IInv'
  <1>1. proc[p].at = "open" /\ g \in proc[p].todo /\ UNCHANGED <<file, recent, crashes, history>>
    BY DEF ReadGroup
  <1>2. PICK c \in Read(p, g) :
          \/ c = Torn /\ Becomes(p, Over(proc[p], "failed"))
          \/ /\ c # Torn
             /\ Becomes(p, [proc[p] EXCEPT
                  !.todo = @ \ {g}, !.held[g] = c,
                  !.index = [i \in Ids |-> IF c[i] = None THEN @[i] ELSE RefOf(c[i])]])
    BY DEF ReadGroup
  <1>3. CASE Becomes(p, Over(proc[p], "failed"))
    BY <1>1, <1>3, QuietEnd DEF Becomes, Ended, IInv, Typed
  <1>4. CASE c # Torn /\ Becomes(p, [proc[p] EXCEPT
                  !.todo = @ \ {g}, !.held[g] = c,
                  !.index = [i \in Ids |-> IF c[i] = None THEN @[i] ELSE RefOf(c[i])]])
    BY <1>1, <1>4, ReadOneKeeps DEF Becomes
  <1> QED BY <1>2, <1>3, <1>4

\* zhar add and add-note have an id for the new node.
LEMMA AllocateKeeps ==
  ASSUME IInv, NEW p \in Procs, Allocate(p)
  PROVE  IInv'
  <1> DEFINE old == proc[p]
             node == IF old.cmd.op = "add" THEN old.cmd.node ELSE AttachedNote(old.cmd.ids)
  <1>1. /\ old.at \in {"open", "fetch"} /\ old.todo = {} /\ old.wanted = {}
        /\ Adds(old.cmd) /\ UNCHANGED <<file, recent, crashes, history>>
        /\ old \in States /\ Local(old) /\ Live(old) /\ Typed
    BY DEF Allocate, Adds, IInv, Typed, Local, LocalReads, LocalFetches, Live, Ended
  <1>2. \/ Becomes(p, Over(old, "failed"))
        \/ \E i \in UnusedIds(old) :
             Becomes(p, [old EXCEPT !.at = "apply", !.plan = {Put(i, node)}])
    BY DEF Allocate
  <1>3. CASE Becomes(p, Over(old, "failed"))
    BY <1>1, <1>3, QuietEnd DEF Becomes, Ended, Typed
  <1>4. ASSUME NEW i \in UnusedIds(old),
               Becomes(p, [old EXCEPT !.at = "apply", !.plan = {Put(i, node)}])
        PROVE  IInv'
    <2> DEFINE e == Put(i, node)
               r == [old EXCEPT !.at = "apply", !.plan = {e}]
    <2>1. i \in Ids /\ old.index[i] = None
      BY DEF UnusedIds, Indexed
    <2>2. node \in Node /\ RefersAsTyped(node)
      <3>1. old.cmd \in Commands /\ SoundCommand(old.cmd)
        BY <1>1, ProcessAssumption DEF Local, LocalReads
      <3>2. CASE old.cmd.op = "add"
        BY <3>1, <3>2 DEF SoundCommand
      <3>3. CASE old.cmd.op = "add-note"
        <4>1. old.cmd.ids \in SUBSET Ids
          BY <3>1, <3>3 DEF SoundCommand, Names
        <4> QED BY <3>3, <4>1, ProcessAssumption, SchemaAssumption, TimeAssumption
                DEF AttachedNote, Node, Never, RefersAsTyped
      <3> QED BY <1>1, <3>2, <3>3 DEF Adds
    <2> HIDE DEF node
    <2>3. e \in Edits /\ e.id = i /\ e.node # None /\ Placed(e.group, e.node)
      BY <2>1, <2>2, PutEdit
    <2> HIDE DEF e
    <2>4. /\ r \in States /\ r.at = "apply" /\ r.plan = {e}
          /\ r.cmd = old.cmd /\ r.todo = old.todo /\ r.index = old.index
          /\ r.wanted = old.wanted /\ r.held = old.held
      BY <1>1, <2>3 DEF States
    <2>5. proc' = [proc EXCEPT ![p] = r]
      BY <1>4 DEF Becomes, e
    <2> HIDE DEF r
    <2>6. Local(r)
      BY <1>1, <2>1, <2>3, <2>4
      DEF Local, Live, LocalReads, LocalFetches, LocalPlans, LocalEdits
    <2>7. Quiet(p, r)
      BY <1>1, <2>4, <2>5, <2>6 DEF Quiet, Typed, history
    <2>8. /\ proc'[p] = r
          /\ \A q \in Procs : \A g : Fills(proc'[q], g) <=> Fills(proc[q], g)
          /\ \A g : Filled(g)' <=> Filled(g)
      BY <1>1, <2>7, QuietFills
    <2>9. /\ file' = file /\ clash' = clash /\ blind' = blind /\ settled' = settled
          /\ stale' = stale /\ late' = late
      BY <1>1 DEF history
    <2>10. ASSUME p \notin stale PROVE Sight(p)'
      <3>0. Sight(p)
        BY DEF IInv
      <3>1. ASSUME NEW g \in Groups, g \notin clash, ~Filled(g) PROVE View(r, g, file[g])
        <4>1. View(old, g, file[g])
          BY <1>1, <2>10, <3>0, <3>1 DEF Sight
        <4> QED BY <1>1, <2>4, <2>8, <2>9, <4>1 DEF View
      <3>2. Draft(proc[p])'
        BY <2>4, <2>8 DEF Draft
      <3>3. ASSUME NEW t \in Ids, r.index[t] # None PROVE Known(p, t)'
        <4>1. Known(p, t)
          BY <1>1, <2>4, <2>10, <3>0, <3>3 DEF Sight
        <4> QED BY <2>4, <2>8, <2>9, <4>1 DEF Known
      <3> QED BY <2>8, <2>9, <3>1, <3>2, <3>3 DEF Sight
    <2>11. ASSUME p \notin stale, Serial' PROVE Aware(p)'
      <3>1. Aware(p)
        BY <2>9, <2>11 DEF IInv, InTurn, Serial
      <3> QED BY <1>1, <2>4, <2>8, <2>9, <2>11, <3>1 DEF Aware
    <2> QED BY <2>7, <2>9, <2>10, <2>11, QuietKeeps
  <1> QED BY <1>2, <1>3, <1>4

\* The ids a command is about to fetch are indexed, and for prune match.
LEMMA WantedIndexed ==
  ASSUME NEW r, SoundCommand(r.cmd), r.cmd.op # "add"
  PROVE  /\ Wanted(r) \subseteq Ids
         /\ r.cmd.op = "prune" => \A i \in Wanted(r) : r.index[i].status = r.cmd.status
  <1>1. CASE Names(r.cmd)
    <2>1. Wanted(r) = r.cmd.ids /\ r.cmd.op # "prune"
      BY <1>1 DEF Wanted, Names
    <2> QED BY <1>1, <2>1 DEF SoundCommand
  <1>2. CASE r.cmd.op = "prune"
    BY <1>2 DEF Wanted, Names, Indexed
  <1>3. CASE r.cmd.op = "gc"
    BY <1>3 DEF Wanted, Names, Indexed
  <1> QED BY <1>1, <1>2, <1>3 DEF SoundCommand, Names

\* The other commands select what they work on.
LEMMA SelectKeeps ==
  ASSUME IInv, NEW p \in Procs, Select(p)
  PROVE  IInv'
  <1> DEFINE old == proc[p]
             ids == Wanted(old)
             r == [old EXCEPT !.at = "fetch", !.wanted = ids]
  <1>1. /\ old.at = "open" /\ old.todo = {} /\ old.cmd.op # "add"
        /\ UNCHANGED <<file, recent, crashes, history>>
        /\ old \in States /\ Local(old) /\ Live(old) /\ Typed
    BY DEF Select, IInv, Typed, Local, Live, Ended
  <1>2. CASE Becomes(p, Over(old, "failed")) \/ Becomes(p, Over(old, "done"))
    BY <1>1, <1>2, QuietEnd DEF Becomes, Ended, Typed
  <1>3. CASE ids \subseteq Indexed(old) /\ Becomes(p, r)
    <2>1. SoundCommand(old.cmd)
      BY <1>1, ProcessAssumption DEF Local, LocalReads
    <2>2. /\ ids \subseteq Ids
          /\ old.cmd.op = "prune" => \A i \in ids : old.index[i].status = old.cmd.status
      BY <1>1, <2>1, WantedIndexed
    <2> HIDE DEF ids
    <2>3. /\ r \in States /\ r.at = "fetch" /\ r.plan = old.plan
          /\ r.cmd = old.cmd /\ r.todo = old.todo /\ r.index = old.index
          /\ r.wanted = ids /\ r.held = old.held
      BY <1>1, <2>2 DEF States
    <2>4. proc' = [proc EXCEPT ![p] = r]
      BY <1>3 DEF Becomes
    <2> HIDE DEF r
    <2>5. old.plan = {}
      BY <1>1 DEF Local, LocalPlans
    <2>6. Local(r)
      BY <1>1, <1>3, <2>2, <2>3, <2>5
      DEF Local, Live, LocalReads, LocalFetches, LocalPlans, LocalEdits, Indexed
    <2>7. Quiet(p, r)
      BY <1>1, <2>3, <2>4, <2>6 DEF Quiet, Typed, history
    <2>8. /\ proc'[p] = r
          /\ \A q \in Procs : \A g : Fills(proc'[q], g) <=> Fills(proc[q], g)
          /\ \A g : Filled(g)' <=> Filled(g)
      BY <1>1, <2>7, QuietFills
    <2>9. /\ file' = file /\ clash' = clash /\ blind' = blind /\ settled' = settled
          /\ stale' = stale /\ late' = late
      BY <1>1 DEF history
    <2>10. ASSUME p \notin stale PROVE Sight(p)'
      <3>0. Sight(p)
        BY DEF IInv
      <3>1. ASSUME NEW g \in Groups, g \notin clash, ~Filled(g) PROVE View(r, g, file[g])
        <4>1. View(old, g, file[g])
          BY <1>1, <2>10, <3>0, <3>1 DEF Sight
        <4> QED BY <1>1, <2>3, <2>5, <2>8, <2>9, <4>1 DEF View
      <3>2. Draft(proc[p])'
        BY <2>3, <2>8 DEF Draft
      <3>3. ASSUME NEW t \in Ids, r.index[t] # None PROVE Known(p, t)'
        <4>1. Known(p, t)
          BY <1>1, <2>3, <2>10, <3>0, <3>3 DEF Sight
        <4> QED BY <2>3, <2>8, <2>9, <4>1 DEF Known
      <3> QED BY <2>8, <2>9, <3>1, <3>2, <3>3 DEF Sight
    <2>11. ASSUME p \notin stale, Serial' PROVE Aware(p)'
      <3>1. Aware(p)
        BY <2>9, <2>11 DEF IInv, InTurn, Serial
      <3> QED BY <1>1, <2>3, <2>8, <2>9, <2>11, <3>1 DEF Aware
    <2> QED BY <2>7, <2>9, <2>10, <2>11, QuietKeeps
  <1> QED BY <1>1, <1>2, <1>3 DEF Select

\* The edits that follow from fetching id i from the contents c.
Further(r, i, c) == IF c[i] = None THEN {} ELSE EditsTo(r.cmd, i, c[i])

\* A process has fetched id i from contents c, and goes on to fetch or to edit.
LEMMA FetchedKeeps ==
  ASSUME IInv, NEW p \in Procs, proc[p].at = "fetch", NEW i \in proc[p].wanted,
         NEW c \in Read(p, GroupOf[proc[p].index[i].type]), c # Torn,
         NEW r \in States, r.at \in {"fetch", "apply"}, r.cmd = proc[p].cmd,
         r.todo = proc[p].todo, r.index = proc[p].index, r.wanted = proc[p].wanted \ {i},
         r.at = "apply" => r.wanted = {} /\ ~Adds(r.cmd),
         r.plan = proc[p].plan \cup Further(proc[p], i, c),
         r.held = [proc[p].held EXCEPT ![GroupOf[proc[p].index[i].type]] = c],
         proc' = [proc EXCEPT ![p] = r],
         UNCHANGED <<file, recent, crashes, history>>
  PROVE  IInv'
  <1> DEFINE old == proc[p]
             g == GroupOf[old.index[i].type]
             more == Further(old, i, c)
  <1>1. /\ old \in States /\ Local(old) /\ Live(old) /\ Typed /\ old.todo = {}
        /\ old.cmd \in Commands /\ old.cmd.op # "add"
    BY DEF IInv, Typed, Local, LocalReads, LocalFetches, Live, Ended
  <1>2. i \in Ids /\ old.index[i] # None
    BY <1>1 DEF Local, LocalFetches, Indexed
  <1>3. g \in Groups
    BY <1>1, <1>2, SchemaAssumption DEF States, NodeRef
  <1>4. Stored(g, c) /\ c \in Contents
    BY <1>1, <1>3, ReadIs
  <1>5. ASSUME NEW e \in more
        PROVE  /\ c[i] # None /\ e \in EditsTo(old.cmd, i, c[i])
               /\ e \in Edits /\ e.id = i /\ e.group = g
               /\ e.node # None => Placed(g, e.node)
               /\ ~Adds(old.cmd)
               /\ \A f \in more : f = e
    <2>1. c[i] # None /\ e \in EditsTo(old.cmd, i, c[i])
      BY <1>5 DEF Further
    <2>2. c[i] \in Node /\ Placed(g, c[i])
      BY <1>2, <1>4, <2>1 DEF Stored, Contents
    <2>3. more = EditsTo(old.cmd, i, c[i])
      BY <2>1 DEF Further
    <2> QED BY <1>1, <1>2, <1>3, <2>1, <2>2, <2>3, EditsAreSound
  <1>6. \A h \in Groups : r.held[h] = IF h = g THEN c ELSE old.held[h]
    BY <1>1, <1>3 DEF States
  <1> HIDE DEF g, more
  <1>7. Local(r)
    <2>1. LocalReads(r)
      BY <1>1, <1>4, <1>6 DEF Local, LocalReads, Live
    <2>2. LocalFetches(r)
      BY <1>1 DEF Local, LocalFetches, Indexed
    <2>3. LocalPlans(r)
      <3>0. r.plan = old.plan \cup more
        BY DEF more
      <3>1. \A e \in r.plan : e.node # None => Placed(e.group, e.node)
        BY <1>1, <1>5, <3>0 DEF Local, LocalPlans
      <3>2. CASE Adds(old.cmd)
        <4>1. more = {} /\ r.at = "fetch"
          BY <1>5, <3>2
        <4>2. r.plan = {}
          BY <1>1, <3>0, <3>2, <4>1 DEF Local, LocalPlans
        <4> QED BY <3>2, <4>1, <4>2 DEF LocalPlans
      <3>3. CASE ~Adds(old.cmd)
        <4>1. /\ \A e \in old.plan :
                   /\ old.index[e.id] # None /\ GroupOf[old.index[e.id].type] = e.group
                   /\ e.id \notin old.wanted
              /\ \A e, f \in old.plan : e.id = f.id => e = f
          BY <1>1, <3>3 DEF Local, LocalPlans
        <4>2. \A e \in more : /\ old.index[e.id] # None
                              /\ GroupOf[old.index[e.id].type] = e.group
                              /\ e.id \notin r.wanted
          BY <1>2, <1>5 DEF g
        <4>3. \A e \in more, f \in old.plan : e.id # f.id
          BY <1>5, <4>1
        <4>4. \A e, f \in r.plan : e.id = f.id => e = f
          BY <1>5, <3>0, <4>1, <4>3
        <4> QED BY <3>0, <3>1, <3>3, <4>1, <4>2, <4>4 DEF LocalPlans
      <3> QED BY <3>2, <3>3
    <2> QED BY <2>1, <2>2, <2>3 DEF Local, LocalEdits
  <1>8. Quiet(p, r)
    BY <1>1, <1>7 DEF Quiet, Typed, history
  <1>9. /\ proc'[p] = r
        /\ \A q \in Procs : \A h : Fills(proc'[q], h) <=> Fills(proc[q], h)
        /\ \A h : Filled(h)' <=> Filled(h)
    BY <1>1, <1>8, QuietFills
  <1>10. /\ file' = file /\ clash' = clash /\ blind' = blind /\ settled' = settled
         /\ stale' = stale /\ late' = late
    BY DEF history
  <1>11. ASSUME p \notin stale PROVE Sight(p)'
    <2>0. Sight(p)
      BY DEF IInv
    <2>1. ASSUME NEW h \in Groups, h \notin clash, ~Filled(h) PROVE View(r, h, file[h])
      <3>1. View(old, h, file[h])
        BY <1>1, <1>11, <2>0, <2>1 DEF Sight
      <3>2. h = g => c = file[h]
        BY <1>1, <1>3, <3>1, ReadIsFile DEF View, g
      <3>3. r.held[h] \in {None, file[h]}
        BY <1>6, <3>1, <3>2 DEF View
      <3>4. ASSUME ~Adds(r.cmd), NEW e \in r.plan, e.group = h
            PROVE  Fit(r.cmd, e, file[h])
        <4>1. CASE e \in old.plan
          BY <3>1, <3>4, <4>1 DEF View
        <4>2. CASE e \in more
          <5>1. /\ c = file[h] /\ h = g /\ e.id = i
                /\ c[i] # None /\ e \in EditsTo(old.cmd, i, c[i])
            BY <1>5, <3>2, <3>4, <4>2
          <5>2. ASSUME old.cmd.op = "prune" PROVE c[i].status = old.cmd.status
            <6>1. old.index[i].status = old.cmd.status
              BY <1>1, <5>2 DEF Local, LocalFetches
            <6>2. old.index[i] = RefOf(c[i])
              BY <1>2, <3>1, <5>1 DEF View, g
            <6>3. RefOf(c[i]).status = c[i].status
              BY DEF RefOf
            <6> QED BY <6>1, <6>2, <6>3
          <5> QED BY <5>1, <5>2 DEF Fit
        <4> QED BY <3>4, <4>1, <4>2 DEF more
      <3> QED BY <1>9, <1>10, <3>1, <3>3, <3>4 DEF View
    <2>2. Draft(proc[p])'
      BY <1>9 DEF Draft
    <2>3. ASSUME NEW t \in Ids, r.index[t] # None PROVE Known(p, t)'
      <3>1. Known(p, t)
        BY <1>1, <1>11, <2>0, <2>3 DEF Sight
      <3> QED BY <1>9, <1>10, <3>1 DEF Known
    <2> QED BY <1>9, <1>10, <2>1, <2>2, <2>3 DEF Sight
  <1>12. ASSUME p \notin stale, Serial' PROVE Aware(p)'
    <2>1. Aware(p)
      BY <1>10, <1>12 DEF IInv, InTurn, Serial
    <2>2. ASSUME NEW h \in Groups
          PROVE  file[h] \in {r.held[h], Empty, Torn} \/ r.held[h] = None
      <3>1. c = file[g] \/ c = old.held[g]
        BY <1>1, <1>3, ReadIs DEF g
      <3> QED BY <1>1, <1>3, <1>6, <1>12, <2>1, <3>1 DEF Aware
    <2> QED BY <1>1, <1>9, <1>10, <1>12, <2>1, <2>2 DEF Aware
  <1> QED BY <1>8, <1>10, <1>11, <1>12, QuietKeeps

LEMMA FetchKeeps ==
  ASSUME IInv, NEW p \in Procs, NEW i \in Ids, Fetch(p, i)
  PROVE  IInv'
  <1> DEFINE old == proc[p]
             g == GroupOf[old.index[i].type]
             next(c) == [old EXCEPT !.wanted = @ \ {i}, !.plan = @ \cup Further(old, i, c),
                                    !.held[g] = c]
  <1>1. /\ old.at = "fetch" /\ i \in old.wanted
        /\ UNCHANGED <<file, recent, crashes, history>>
        /\ old \in States /\ Local(old) /\ Typed
    BY DEF Fetch, IInv, Typed
  <1>2. PICK c \in Read(p, g) :
          \/ Becomes(p, Over(old, "failed"))
          \/ /\ c # Torn
             /\ Becomes(p, IF next(c).wanted = {} /\ ~Adds(next(c).cmd)
                           THEN Onward(next(c)) ELSE next(c))
    BY DEF Fetch, Further
  <1>3. CASE Becomes(p, Over(old, "failed"))
    BY <1>1, <1>3, QuietEnd DEF Becomes, Ended, Typed
  <1>4. ASSUME c # Torn,
               Becomes(p, IF next(c).wanted = {} /\ ~Adds(next(c).cmd)
                          THEN Onward(next(c)) ELSE next(c))
        PROVE  IInv'
    <2>1. old.index[i] # None /\ g \in Groups
      BY <1>1, SchemaAssumption DEF Local, LocalFetches, Indexed, States, NodeRef
    <2>2. Stored(g, c) /\ c \in Contents /\ old.cmd \in Commands
      BY <1>1, <1>4, <2>1, ReadIs DEF Local, LocalReads, Live, Ended
    <2>3. Further(old, i, c) \subseteq Edits
      <3>1. c[i] # None => c[i] \in Node /\ Placed(g, c[i])
        BY <2>2 DEF Stored, Contents
      <3> QED BY <2>1, <2>2, <3>1, EditsAreSound DEF Further
    <2> DEFINE n == next(c)
    <2>4. /\ n \in States /\ n.at = "fetch" /\ n.cmd = old.cmd /\ n.todo = old.todo
          /\ n.index = old.index /\ n.wanted = old.wanted \ {i}
          /\ n.plan = old.plan \cup Further(old, i, c) /\ n.held = [old.held EXCEPT ![g] = c]
      BY <1>1, <2>1, <2>2, <2>3 DEF States
    <2>5. Becomes(p, IF n.wanted = {} /\ ~Adds(n.cmd) THEN Onward(n) ELSE n)
      BY <1>4
    <2> HIDE DEF next, n
    <2>6. CASE proc' = [proc EXCEPT ![p] = Over(n, "done")]
      <3>1. Over(n, "done") = Over(old, "done")
        <4>1. n.runs = old.runs
          BY <1>1, <2>1, <2>2, <2>3 DEF n, next, States
        <4> QED BY <4>1 DEF Over
      <3> QED BY <1>1, <2>6, <3>1, QuietEnd DEF Ended, Typed
    <2>7. CASE proc' = [proc EXCEPT ![p] = n]
      BY <1>1, <1>4, <2>4, <2>7, FetchedKeeps
    <2>8. CASE /\ proc' = [proc EXCEPT ![p] = [n EXCEPT !.at = "apply"]]
               /\ n.wanted = {} /\ ~Adds(n.cmd)
      <3> DEFINE r == [n EXCEPT !.at = "apply"]
      <3>1. /\ r \in States /\ r.at = "apply" /\ r.cmd = n.cmd /\ r.todo = n.todo
            /\ r.index = n.index /\ r.wanted = n.wanted /\ r.plan = n.plan
            /\ r.held = n.held
        BY <2>4 DEF States
      <3>2. proc' = [proc EXCEPT ![p] = r]
        BY <2>8
      <3> HIDE DEF r
      <3>3. /\ r.cmd = old.cmd /\ r.todo = old.todo /\ r.index = old.index
            /\ r.wanted = old.wanted \ {i} /\ r.plan = old.plan \cup Further(old, i, c)
            /\ r.held = [old.held EXCEPT ![g] = c] /\ r.at = "apply"
        BY <2>4, <3>1
      <3>4. r.wanted = {} /\ ~Adds(r.cmd)
        BY <2>8, <3>1
      <3> HIDE DEF g
      <3> QED BY <1>1, <1>4, <3>1, <3>2, <3>3, <3>4, FetchedKeeps DEF g
    <2> QED BY <2>5, <2>6, <2>7, <2>8 DEF Becomes, Onward
  <1> QED BY <1>2, <1>3, <1>4

\* MemStore._validate refuses.
LEMMA RefuseKeeps ==
  ASSUME IInv, NEW p \in Procs, NEW e, Refuse(p, e)
  PROVE  IInv'
  BY QuietEnd DEF Refuse, Becomes, Ended, IInv, Typed

\* There is nothing to delete, and the process goes on with the rest of its plan.
LEMMA NothingToDeleteKeeps ==
  ASSUME IInv, NEW p \in Procs, proc[p].at = "apply", NEW e \in proc[p].plan,
         e.node = None, NEW c \in Read(p, e.group), c # Torn, c[e.id] = None,
         NEW r \in States, r.at = "apply", r.cmd = proc[p].cmd, r.todo = proc[p].todo,
         r.wanted = proc[p].wanted, r.plan = proc[p].plan \ {e},
         r.index = [proc[p].index EXCEPT ![e.id] = None],
         r.held = [proc[p].held EXCEPT ![e.group] = c],
         proc' = [proc EXCEPT ![p] = r],
         UNCHANGED <<file, recent, crashes, history>>
  PROVE  IInv'
  <1> DEFINE old == proc[p]
             g == e.group
  <1>1. /\ old \in States /\ Local(old) /\ Live(old) /\ Typed /\ old.todo = {}
        /\ e \in Edits /\ e.id \in Ids /\ g \in Groups
    BY DEF IInv, Typed, Local, LocalReads, Live, Ended, States, Edits
  <1>2. ~Adds(old.cmd)
    BY <1>1 DEF Local, LocalPlans
  <1>3. Stored(g, c) /\ c \in Contents
    BY <1>1, ReadIs
  <1>4. \A h \in Groups : r.held[h] = IF h = g THEN c ELSE old.held[h]
    BY <1>1 DEF States
  <1>5. \A i \in Ids : r.index[i] = IF i = e.id THEN None ELSE old.index[i]
    BY <1>1 DEF States
  <1>6. \A f \in r.plan : f \in old.plan /\ f.id # e.id /\ f \in Edits /\ f.id \in Ids
    BY <1>1, <1>2 DEF Local, LocalPlans, States, Edits
  <1>7. Local(r)
    <2>1. LocalReads(r)
      BY <1>1, <1>3, <1>4, <1>5 DEF Local, LocalReads, Live
    <2>2. LocalFetches(r)
      BY <1>1 DEF Local, LocalFetches
    <2>3. LocalPlans(r)
      BY <1>1, <1>2, <1>5, <1>6 DEF Local, LocalPlans
    <2> QED BY <2>1, <2>2, <2>3 DEF Local, LocalEdits
  <1>8. Quiet(p, r)
    BY <1>1, <1>7 DEF Quiet, Typed, history
  <1>9. /\ proc'[p] = r
        /\ \A q \in Procs : \A h : Fills(proc'[q], h) <=> Fills(proc[q], h)
        /\ \A h : Filled(h)' <=> Filled(h)
    BY <1>1, <1>8, QuietFills
  <1>10. /\ file' = file /\ clash' = clash /\ blind' = blind /\ settled' = settled
         /\ stale' = stale /\ late' = late
    BY DEF history
  <1> HIDE DEF g
  <1>11. ASSUME p \notin stale PROVE Sight(p)'
    <2>0. Sight(p)
      BY DEF IInv
    <2>1. ASSUME NEW h \in Groups, h \notin clash, ~Filled(h) PROVE View(r, h, file[h])
      <3>1. View(old, h, file[h])
        BY <1>1, <1>11, <2>0, <2>1 DEF Sight
      <3>2. h = g => c = file[h]
        BY <1>1, <3>1, ReadIsFile DEF View, g
      <3>3. r.held[h] \in {None, file[h]}
        BY <1>4, <3>1, <3>2 DEF View
      <3>4. \A f \in r.plan : f.group = h => Fit(r.cmd, f, file[h])
        BY <1>2, <1>6, <3>1 DEF View
      <3> QED BY <1>2, <1>9, <1>10, <3>3, <3>4 DEF View
    <2>2. Draft(proc[p])'
      BY <1>9 DEF Draft
    <2>3. ASSUME NEW t \in Ids, r.index[t] # None PROVE Known(p, t)'
      <3>1. Known(p, t)
        BY <1>1, <1>5, <1>11, <2>0, <2>3 DEF Sight
      <3> QED BY <1>9, <1>10, <3>1 DEF Known
    <2> QED BY <1>9, <1>10, <2>1, <2>2, <2>3 DEF Sight
  <1>12. ASSUME p \notin stale, Serial' PROVE Aware(p)'
    <2>1. Aware(p)
      BY <1>10, <1>12 DEF IInv, InTurn, Serial
    <2>2. ASSUME NEW h \in Groups
          PROVE  /\ file[h] # Torn => Describes(r.index, file[h])
                 /\ file[h] \in {r.held[h], Empty, Torn} \/ r.held[h] = None
      <3>1. c = file[g] \/ (c = old.held[g] /\ old.held[g] # None)
        BY <1>1, ReadIs DEF g
      <3>2. file[g] \in {c, Empty, Torn}
        BY <1>1, <1>12, <2>1, <3>1 DEF Aware
      <3>3. ASSUME file[h] # Torn PROVE file[h][e.id] = None
        <4>1. SUFFICES ASSUME file[h][e.id] # None PROVE FALSE
          OBVIOUS
        <4>2. old.index[e.id] = RefOf(file[h][e.id])
          BY <1>1, <1>12, <2>1, <3>3, <4>1 DEF Aware, Describes
        <4>3. old.index[e.id].type = file[h][e.id].type
          BY <4>2, RefOfKeepsType
        <4>4. GroupOf[old.index[e.id].type] = g
          BY <1>1, <1>2 DEF Local, LocalPlans, g
        <4>5. GroupOf[file[h][e.id].type] = h
          BY <1>1, <3>3, <4>1 DEF Typed, Stored, Placed
        <4>6. h = g
          BY <4>3, <4>4, <4>5
        <4> QED BY <1>1, <3>2, <3>3, <4>1, <4>6, EmptyStored
      <3> QED BY <1>1, <1>4, <1>5, <1>12, <2>1, <3>2, <3>3 DEF Aware, Describes
    <2>3. OneActive(r.index)
      BY <1>1, <1>5, <1>12, <2>1 DEF Aware, OneActive, IsActive
    <2> QED BY <1>9, <1>10, <2>2, <2>3 DEF Aware
  <1> QED BY <1>8, <1>10, <1>11, <1>12, QuietKeeps

\* The process has read the file it is about to rewrite.
LEMMA ReadToRewriteKeeps ==
  ASSUME IInv, NEW p \in Procs, proc[p].at = "apply", NEW e \in proc[p].plan,
         e.node # None => Accepts(e.id, e.node, proc[p].index),
         NEW c \in Read(p, e.group), c # Torn, ~(e.node = None /\ c[e.id] = None),
         proc' = [proc EXCEPT ![p] = [proc[p] EXCEPT
                    !.at = "write", !.edit = e, !.data = c, !.held[e.group] = c]],
         clash' = IF Rewriting(e.group) = {} THEN clash ELSE clash \cup {e.group},
         blind' = IF c \in Seen(e.group) THEN blind ELSE blind \cup {e.group},
         UNCHANGED <<file, recent, crashes, settled, stale, late>>
  PROVE  IInv'
  <1> DEFINE old == proc[p]
             g == e.group
             r == [proc[p] EXCEPT !.at = "write", !.edit = e, !.data = c,
                                  !.held[e.group] = c]
  <1>1. /\ old \in States /\ Local(old) /\ Live(old) /\ Typed /\ old.todo = {}
        /\ e \in Edits /\ e.id \in Ids /\ g \in Groups
    BY DEF IInv, Typed, Local, LocalReads, Live, Ended, States, Edits
  <1>2. Stored(g, c) /\ c \in Contents
    BY <1>1, ReadIs
  <1>3. /\ r \in States /\ r.at = "write" /\ r.cmd = old.cmd /\ r.todo = old.todo
        /\ r.index = old.index /\ r.wanted = old.wanted /\ r.plan = old.plan
        /\ r.edit = e /\ r.data = c /\ r.held = [old.held EXCEPT ![g] = c]
    BY <1>1, <1>2 DEF States
  <1>4. \A h \in Groups : r.held[h] = IF h = g THEN c ELSE old.held[h]
    BY <1>1, <1>3 DEF States
  <1> HIDE DEF r
  <1>5. Local(r)
    <2>1. LocalReads(r)
      BY <1>1, <1>2, <1>3, <1>4 DEF Local, LocalReads, Live
    <2>2. LocalFetches(r)
      BY <1>1, <1>3 DEF Local, LocalFetches
    <2>3. LocalPlans(r)
      BY <1>1, <1>3 DEF Local, LocalPlans, Live, Ended
    <2>4. LocalEdits(r)
      BY <1>2, <1>3 DEF LocalEdits
    <2> QED BY <1>3, <2>1, <2>2, <2>3, <2>4 DEF Local
  <1>6. /\ clash \subseteq clash' /\ clash' \subseteq Groups
        /\ blind \subseteq blind' /\ blind' \subseteq Groups
    BY <1>1 DEF Typed
  <1>7. g \notin clash' => \A q \in Procs : ~Rewrites(proc[q], g)
    BY RewritingIs
  <1>8. g \notin blind' => c = file[g]
    BY DEF Seen
  <1>9. Quiet(p, r)
    BY <1>1, <1>3, <1>5, <1>6, <1>7, <1>8 DEF Quiet, Typed, r
  <1>10. /\ proc'[p] = r
         /\ \A q \in Procs : \A h : Fills(proc'[q], h) <=> Fills(proc[q], h)
         /\ \A h : Filled(h)' <=> Filled(h)
    BY <1>1, <1>9, QuietFills
  <1> HIDE DEF g
  <1>11. ASSUME p \notin stale PROVE Sight(p)'
    <2>0. Sight(p)
      BY DEF IInv
    <2>1. ASSUME NEW h \in Groups, h \notin clash, ~Filled(h)
          PROVE  View(old, h, file[h]) /\ (h = g => c = file[h])
      <3>1. View(old, h, file[h])
        BY <1>1, <1>11, <2>0, <2>1 DEF Sight
      <3> QED BY <1>1, <3>1, ReadIsFile DEF View, g
    <2>2. ASSUME NEW h \in Groups, h \notin clash', ~Filled(h) PROVE View(r, h, file[h])
      <3>1. View(old, h, file[h]) /\ (h = g => c = file[h])
        BY <1>6, <2>1, <2>2
      <3> QED BY <1>3, <1>4, <1>10, <3>1 DEF View
    <2>3. Draft(proc[p])'
      <3> SUFFICES ASSUME g \notin clash'
                   PROVE  /\ c = file[g]
                          /\ ~Adds(old.cmd) =>
                               \A f \in old.plan : f.group = g => Fit(old.cmd, f, c)
        BY <1>3, <1>10 DEF Draft, g
      <3>1. g \notin clash /\ ~Filled(g)
        BY <1>6, <1>7 DEF Filled, Fills, Rewrites
      <3> QED BY <1>1, <2>1, <3>1 DEF View
    <2>4. ASSUME NEW t \in Ids, r.index[t] # None PROVE Known(p, t)'
      <3>1. Known(p, t)
        BY <1>1, <1>3, <1>11, <2>0, <2>4 DEF Sight
      <3> QED BY <1>3, <1>6, <1>10, <3>1 DEF Known
    <2> QED BY <1>10, <2>2, <2>3, <2>4 DEF Sight
  <1>12. ASSUME p \notin stale, Serial' PROVE Aware(p)'
    <2>1. Serial
      BY <1>6, <1>12 DEF Serial
    <2>2. Aware(p) /\ OneActiveSingleton
      BY <2>1 DEF IInv, InTurn
    <2>3. c = file[g]
      BY <1>8, <1>12 DEF Serial
    <2>4. Describes(old.index, c) /\ SinglesOf(c)
      BY <1>1, <1>12, <2>2, <2>3 DEF Aware, OneActiveSingleton
    <2>5. ASSUME NEW h \in Groups
          PROVE  file[h] \in {r.held[h], Empty, Torn} \/ r.held[h] = None
      BY <1>1, <1>4, <1>12, <2>2, <2>3 DEF Aware
    <2> QED BY <1>1, <1>3, <1>10, <1>12, <2>2, <2>4, <2>5 DEF Aware
  <1> QED BY <1>9, <1>11, <1>12, QuietKeeps

LEMMA LoadKeeps ==
  ASSUME IInv, NEW p \in Procs, NEW e \in proc[p].plan, Load(p, e)
  PROVE  IInv'
  <1> DEFINE old == proc[p]
  <1>1. /\ old.at = "apply" /\ (e.node # None => Accepts(e.id, e.node, old.index))
        /\ UNCHANGED <<file, recent, crashes, settled, stale, late>>
        /\ old \in States /\ Local(old) /\ Typed /\ e \in Edits
    BY DEF Load, IInv, Typed, States
  <1>2. PICK c \in Read(p, e.group) :
          \/ c = Torn /\ Becomes(p, Over(old, "failed")) /\ UNCHANGED <<clash, blind>>
          \/ /\ c # Torn /\ e.node = None /\ c[e.id] = None
             /\ Becomes(p, Applied([old EXCEPT !.held[e.group] = c], e))
             /\ UNCHANGED <<clash, blind>>
          \/ /\ c # Torn /\ ~(e.node = None /\ c[e.id] = None)
             /\ Becomes(p, [old EXCEPT !.at = "write", !.edit = e, !.data = c,
                                       !.held[e.group] = c])
             /\ clash' = IF Rewriting(e.group) = {} THEN clash ELSE clash \cup {e.group}
             /\ blind' = IF c \in Seen(e.group) THEN blind ELSE blind \cup {e.group}
    BY DEF Load
  <1>3. CASE c = Torn /\ Becomes(p, Over(old, "failed")) /\ UNCHANGED <<clash, blind>>
    BY <1>1, <1>3, QuietEnd DEF Becomes, Ended, Typed, history
  <1>4. ASSUME c # Torn, e.node = None, c[e.id] = None,
               Becomes(p, Applied([old EXCEPT !.held[e.group] = c], e)),
               UNCHANGED <<clash, blind>>
        PROVE  IInv'
    <2> DEFINE h == [old EXCEPT !.held[e.group] = c]
               n == [h EXCEPT !.plan = @ \ {e}, !.index[e.id] = None]
               r == [n EXCEPT !.at = "apply"]
    <2>1. e.id \in Ids /\ e.group \in Groups
      BY <1>1 DEF Edits
    <2>2. c \in Contents
      BY <1>1, <1>4, <2>1, ReadIs
    <2>3. /\ h \in States /\ h.at = old.at /\ h.cmd = old.cmd /\ h.todo = old.todo
          /\ h.wanted = old.wanted /\ h.plan = old.plan /\ h.index = old.index
          /\ h.held = [old.held EXCEPT ![e.group] = c] /\ h.runs = old.runs
      BY <1>1, <2>1, <2>2 DEF States
    <2> HIDE DEF h
    <2>4. /\ n \in States /\ n.at = old.at /\ n.cmd = old.cmd /\ n.todo = old.todo
          /\ n.wanted = old.wanted /\ n.plan = old.plan \ {e}
          /\ n.index = [old.index EXCEPT ![e.id] = None]
          /\ n.held = [old.held EXCEPT ![e.group] = c] /\ n.runs = old.runs
      BY <2>1, <2>3 DEF States
    <2>5. Applied(h, e) = Onward(n)
      BY <1>4 DEF Applied
    <2> HIDE DEF n
    <2>6. /\ r \in States /\ r.at = "apply" /\ r.cmd = old.cmd /\ r.todo = old.todo
          /\ r.wanted = old.wanted /\ r.plan = old.plan \ {e}
          /\ r.index = [old.index EXCEPT ![e.id] = None]
          /\ r.held = [old.held EXCEPT ![e.group] = c]
      BY <2>4 DEF States
    <2>7. CASE proc' = [proc EXCEPT ![p] = Over(n, "done")]
      <3>1. Over(n, "done") = Over(old, "done")
        BY <2>4 DEF Over
      <3> QED BY <1>1, <1>4, <2>7, <3>1, QuietEnd DEF Ended, Typed, history
    <2>8. CASE proc' = [proc EXCEPT ![p] = r]
      <3> HIDE DEF r
      <3> QED BY <1>1, <1>4, <2>6, <2>8, NothingToDeleteKeeps DEF history
    <2> QED BY <1>4, <2>5, <2>7, <2>8 DEF Becomes, Onward, h
  <1>5. CASE /\ c # Torn /\ ~(e.node = None /\ c[e.id] = None)
             /\ Becomes(p, [old EXCEPT !.at = "write", !.edit = e, !.data = c,
                                       !.held[e.group] = c])
             /\ clash' = IF Rewriting(e.group) = {} THEN clash ELSE clash \cup {e.group}
             /\ blind' = IF c \in Seen(e.group) THEN blind ELSE blind \cup {e.group}
    BY <1>1, <1>5, ReadToRewriteKeeps DEF Becomes
  <1> QED BY <1>2, <1>3, <1>4, <1>5

-----------------------------------------------------------------------------
(* Writing a file.                                                          *)

\* s is r, except that its cache may have forgotten g's file.
Same(s, r, g) ==
  /\ s.at = r.at /\ s.cmd = r.cmd /\ s.todo = r.todo /\ s.index = r.index
  /\ s.wanted = r.wanted /\ s.plan = r.plan /\ s.edit = r.edit /\ s.data = r.data
  /\ \A h \in Groups : s.held[h] = r.held[h] \/ (h = g /\ s.held[h] = None)

LEMMA ForgetSame ==
  ASSUME NEW r \in States, NEW g \in Groups
  PROVE  LET s == [r EXCEPT !.held[g] = None] IN
         s \in States /\ Same(s, r, g) /\ s.held[g] = None
  <1> DEFINE s == [r EXCEPT !.held[g] = None]
  <1>1. /\ s \in States
        /\ s.at = r.at /\ s.cmd = r.cmd /\ s.todo = r.todo /\ s.index = r.index
        /\ s.wanted = r.wanted /\ s.plan = r.plan /\ s.edit = r.edit /\ s.data = r.data
        /\ s.held = [r.held EXCEPT ![g] = None]
    BY DEF States
  <1>2. \A h \in Groups : s.held[h] = IF h = g THEN None ELSE r.held[h]
    BY <1>1 DEF States
  <1> QED BY <1>1, <1>2 DEF Same

\* What a write makes of the processes: the writer becomes r, and no one else
\* changes but for a cache entry.
LEMMA WroteIs ==
  ASSUME proc \in [Procs -> States], recent \subseteq Groups,
         NEW p \in Procs, NEW g \in Groups, NEW r \in States, Wrote(p, g, r)
  PROVE  /\ proc' \in [Procs -> States] /\ recent' \subseteq Groups
         /\ Same(proc'[p], r, g) /\ proc'[p].held[g] = None
         /\ \A q \in Procs : q # p => Same(proc'[q], proc[q], g)
  <1>1. ASSUME NEW s \in States PROVE Same(s, s, g)
    BY DEF Same
  <1>2. [r EXCEPT !.held[g] = None] \in States
        /\ Same([r EXCEPT !.held[g] = None], r, g)
        /\ [r EXCEPT !.held[g] = None].held[g] = None
    BY ForgetSame
  <1>3. \A s \in States :
          [s EXCEPT !.held[g] = None] \in States /\ Same([s EXCEPT !.held[g] = None], s, g)
    BY ForgetSame
  <1>4. proc'[p] = [r EXCEPT !.held[g] = None]
    BY DEF Wrote
  <1>5. \A q \in Procs : q # p =>
          proc'[q] = IF g \in recent THEN proc[q] ELSE [proc[q] EXCEPT !.held[g] = None]
    BY DEF Wrote
  <1>6. \A q \in Procs : q # p => proc'[q] \in States /\ Same(proc'[q], proc[q], g)
    BY <1>1, <1>3, <1>5
  <1>7. proc' = [q \in Procs |-> proc'[q]]
    BY DEF Wrote
  <1>8. \A q \in Procs : proc'[q] \in States
    BY <1>2, <1>4, <1>6
  <1> QED BY <1>2, <1>4, <1>6, <1>7, <1>8 DEF Wrote

LEMMA SameLocal ==
  ASSUME NEW r, NEW s \in States, NEW g \in Groups, Same(s, r, g), Local(r)
  PROVE  Local(s)
  <1>1. LocalReads(s)
    BY DEF Same, Local, LocalReads, Live, States
  <1>2. LocalFetches(s)
    BY DEF Same, Local, LocalFetches, Indexed
  <1>3. LocalPlans(s)
    BY DEF Same, Local, LocalPlans, Live
  <1>4. LocalEdits(s)
    BY DEF Same, Local, LocalEdits
  <1> QED BY <1>1, <1>2, <1>3, <1>4 DEF Local

LEMMA SameView ==
  ASSUME NEW r, NEW s, NEW g \in Groups, Same(s, r, g),
         NEW h \in Groups, NEW c, View(r, h, c)
  PROVE  View(s, h, c)
  BY DEF Same, View

\* Process p writes g's file and becomes r, which rewrites no other file; g's file
\* has the contents x from now on.
Written(p, g, r, x) ==
  /\ Fills(proc[p], g) \/ Rewrites(proc[p], g)
  /\ Wrote(p, g, r) /\ Local(r)
  /\ file' = [file EXCEPT ![g] = x]
  /\ x = Torn \/ Stored(g, x)
  /\ settled' \in [Groups -> Contents]
  /\ \A h \in Groups : h # g => settled'[h] = settled[h]
  /\ crashes' \in 0 .. MaxCrashes
  /\ clash \subseteq clash' /\ clash' \subseteq clash \cup {g}
  /\ blind' = blind
  /\ stale \subseteq stale' /\ stale' \subseteq Procs
  /\ late' \in BOOLEAN /\ (late => late')
  /\ r.at \in {"write", "fill"} => r.edit.group = g

LEMMA WrittenIs ==
  ASSUME Typed, NEW p \in Procs, NEW g \in Groups, NEW r, NEW x, Written(p, g, r, x)
  PROVE  /\ Typed'
         /\ Same(proc'[p], r, g) /\ proc'[p].held[g] = None
         /\ \A q \in Procs : q # p =>
              /\ Same(proc'[q], proc[q], g)
              /\ \A h \in Groups : /\ Rewrites(proc'[q], h) <=> Rewrites(proc[q], h)
                                   /\ Fills(proc'[q], h) <=> Fills(proc[q], h)
         /\ \A h \in Groups : h # g =>
              /\ ~Rewrites(proc[p], h) /\ ~Rewrites(proc'[p], h)
              /\ ~Fills(proc[p], h) /\ ~Fills(proc'[p], h)
              /\ file'[h] = file[h] /\ settled'[h] = settled[h]
              /\ Filled(h)' <=> Filled(h)
         /\ file'[g] = x
  <1>1. r \in States
    BY DEF Written, Local
  <1>2. /\ proc' \in [Procs -> States] /\ recent' \subseteq Groups
        /\ Same(proc'[p], r, g) /\ proc'[p].held[g] = None
        /\ \A q \in Procs : q # p => Same(proc'[q], proc[q], g)
    BY <1>1, WroteIs DEF Written, Typed
  <1>3. \A q \in Procs : q # p =>
          \A h \in Groups : /\ Rewrites(proc'[q], h) <=> Rewrites(proc[q], h)
                            /\ Fills(proc'[q], h) <=> Fills(proc[q], h)
    BY <1>2 DEF Same, Rewrites, Fills
  <1>4. /\ file' \in [Groups -> Contents \cup {Torn}] /\ file'[g] = x
        /\ \A h \in Groups : h # g => file'[h] = file[h]
    BY DEF Written, Typed, Stored
  <1>5. ASSUME NEW h \in Groups, h # g
        PROVE  /\ ~Rewrites(proc[p], h) /\ ~Rewrites(proc'[p], h)
               /\ ~Fills(proc[p], h) /\ ~Fills(proc'[p], h)
    BY <1>2, <1>5 DEF Written, Same, Rewrites, Fills
  <1>6. \A h \in Groups : h # g => (Filled(h)' <=> Filled(h))
    BY <1>3, <1>5 DEF Filled
  <1>7. \A q \in Procs : Local(proc'[q])
    <2>1. Local(proc'[p])
      BY <1>2, SameLocal DEF Written
    <2>2. \A q \in Procs : q # p => Local(proc'[q])
      BY <1>2, SameLocal DEF Typed
    <2> QED BY <2>1, <2>2
  <1>8. Typed'
    <2>1. \A h \in Groups : file'[h] # Torn => Stored(h, file'[h])
      BY <1>4 DEF Written, Typed
    <2>2. clash' \subseteq Groups /\ blind' \subseteq Groups
      BY DEF Written, Typed
    <2> QED BY <1>2, <1>4, <1>7, <2>1, <2>2 DEF Typed, Written
  <1> QED BY <1>2, <1>3, <1>4, <1>5, <1>6, <1>8 DEF Written

\* The other files are taken turns at as before.
LEMMA WrittenTurns ==
  ASSUME Typed, NEW p \in Procs, NEW g \in Groups, NEW r, NEW x, Written(p, g, r, x),
         NEW h \in Groups, h # g, Turns(h)
  PROVE  Turns(h)'
  <1>1. h \notin clash' => h \notin clash
    BY DEF Written
  <1>2. blind' = blind
    BY DEF Written
  <1>3. /\ file'[h] = file[h] /\ settled'[h] = settled[h] /\ (Filled(h)' <=> Filled(h))
        /\ \A q \in Procs : Rewrites(proc'[q], h) <=> Rewrites(proc[q], h)
        /\ \A q \in Procs : Rewrites(proc'[q], h) => proc'[q].data = proc[q].data
    BY WrittenIs DEF Same
  <1> QED BY <1>1, <1>2, <1>3 DEF Turns

\* The others still see rightly what they saw rightly, as long as they have not
\* read g's file or it is to be left aside: cut, or torn.
LEMMA WrittenSight ==
  ASSUME Typed, NEW p \in Procs, NEW g \in Groups, NEW r, NEW x, Written(p, g, r, x),
         NEW q \in Procs, q # p, Sight(q),
         q \notin stale' /\ Live(proc[q]) =>
           \/ g \in proc[q].todo
           \/ g \in clash' /\ settled' = settled
           \/ /\ Filled(g)' /\ ~Rewrites(proc[q], g)
              /\ settled' = settled /\ Fills(proc'[p], g)
  PROVE  Sight(q)'
  <1> SUFFICES ASSUME Live(proc'[q]), q \notin stale'
               PROVE  /\ \A h \in Groups :
                           h \notin proc'[q].todo /\ h \notin clash' /\ ~Filled(h)'
                             => View(proc[q], h, file[h])'
                      /\ Draft(proc[q])'
                      /\ \A t \in Ids : proc'[q].index[t] # None => Known(q, t)'
    BY DEF Sight
  <1>1. /\ Same(proc'[q], proc[q], g)
        /\ \A h \in Groups : h # g => file'[h] = file[h] /\ settled'[h] = settled[h]
                                       /\ (Filled(h)' <=> Filled(h))
        /\ \A h \in Groups : h # g =>
             \A s \in Procs : Fills(proc'[s], h) <=> Fills(proc[s], h)
        /\ \A s \in Procs : s # p => (Fills(proc'[s], g) <=> Fills(proc[s], g))
    BY WrittenIs
  <1>2. Live(proc[q]) /\ q \notin stale /\ clash \subseteq clash' /\ blind' = blind
    BY <1>1 DEF Written, Same, Live
  <1>3. ASSUME NEW h \in Groups, h \notin proc'[q].todo, h \notin clash', ~Filled(h)'
        PROVE  View(proc[q], h, file[h])'
    <2>1. h # g /\ h \notin proc[q].todo
      BY <1>1, <1>2, <1>3 DEF Same
    <2>2. View(proc[q], h, file[h])
      BY <1>1, <1>2, <1>3, <2>1 DEF Sight
    <2>3. View(proc'[q], h, file'[h])
      BY <1>1, <2>1, <2>2, SameView
    <2> QED BY <2>3 DEF View
  <1>4. Draft(proc[q])'
    <2> SUFFICES ASSUME proc'[q].at \in {"write", "fill"}, proc'[q].edit.group \notin clash'
                 PROVE  /\ proc'[q].at = "write" => proc'[q].data = file'[proc'[q].edit.group]
                        /\ ~Adds(proc'[q].cmd) =>
                             \A e \in proc'[q].plan : e.group = proc'[q].edit.group =>
                               Fit(proc'[q].cmd, e, proc'[q].data)
      BY DEF Draft
    <2>1. /\ proc[q].at \in {"write", "fill"} /\ proc[q].edit = proc'[q].edit
          /\ proc[q].edit.group \in Groups /\ proc[q].todo = {}
      BY <1>1 DEF Same, Typed, Local, LocalReads, LocalEdits, States, Edits
    <2>2. proc[q].edit.group # g
      BY <1>2, <2>1 DEF Rewrites
    <2>3. Draft(proc[q])
      BY <1>2 DEF Sight
    <2>4. file'[proc[q].edit.group] = file[proc[q].edit.group]
      BY <1>1, <2>1, <2>2
    <2>5. proc[q].edit.group \notin clash
      BY <1>2, <2>1
    <2> QED BY <1>1, <2>1, <2>3, <2>4, <2>5 DEF Draft, Same
  <1>5. ASSUME NEW t \in Ids, proc'[q].index[t] # None PROVE Known(q, t)'
    <2>1. proc[q].index[t] # None /\ proc'[q].todo = proc[q].todo
      BY <1>1, <1>5 DEF Same
    <2>2. PICK h \in Groups :
            /\ h \notin proc[q].todo
            /\ \/ h \in clash \cup blind
               \/ \E s \in Procs : s # q /\ Fills(proc[s], h)
               \/ settled[h][t] # None
      BY <1>2, <2>1 DEF Sight, Known
    <2>3. CASE h # g
      BY <1>1, <1>2, <2>1, <2>2, <2>3 DEF Known
    <2>4. CASE h = g
      BY <1>1, <1>2, <2>1, <2>2, <2>4 DEF Known
    <2> QED BY <2>3, <2>4
  <1> QED BY <1>3, <1>4, <1>5

LEMMA WrittenAware ==
  ASSUME Typed, NEW p \in Procs, NEW g \in Groups, NEW r, NEW x, Written(p, g, r, x),
         NEW q \in Procs, q # p, Aware(q),
         q \notin stale' /\ Live(proc[q]) =>
           g \in proc[q].todo \/ x \in {file[g], Empty, Torn}
  PROVE  Aware(q)'
  <1> SUFFICES ASSUME Live(proc'[q]), q \notin stale'
               PROVE  /\ \A h \in Groups : h \notin proc'[q].todo =>
                           /\ file'[h] # Torn => Describes(proc'[q].index, file'[h])
                           /\ \/ file'[h] \in {proc'[q].held[h], Empty, Torn}
                              \/ proc'[q].held[h] = None
                      /\ proc'[q].at \in {"write", "fill"} =>
                           /\ Describes(proc'[q].index, proc'[q].data)
                           /\ SinglesOf(proc'[q].data)
                      /\ OneActive(proc'[q].index)
    BY DEF Aware
  <1>1. Same(proc'[q], proc[q], g) /\ file'[g] = x
        /\ \A h \in Groups : h # g => file'[h] = file[h]
    BY WrittenIs
  <1>2. Live(proc[q]) /\ q \notin stale
    BY <1>1 DEF Written, Same, Live
  <1>3. \A h \in Groups : h \notin proc[q].todo =>
          /\ file[h] # Torn => Describes(proc[q].index, file[h])
          /\ file[h] \in {proc[q].held[h], Empty, Torn} \/ proc[q].held[h] = None
    BY <1>2 DEF Aware
  <1>4. ASSUME NEW h \in Groups, h \notin proc'[q].todo
        PROVE  /\ file'[h] # Torn => Describes(proc'[q].index, file'[h])
               /\ \/ file'[h] \in {proc'[q].held[h], Empty, Torn}
                  \/ proc'[q].held[h] = None
    <2>1. h \notin proc[q].todo /\ proc'[q].index = proc[q].index
          /\ (proc'[q].held[h] = proc[q].held[h] \/ proc'[q].held[h] = None)
      BY <1>1, <1>4 DEF Same
    <2>2. file'[h] \in {file[h], Empty, Torn}
      BY <1>1, <1>2, <2>1
    <2> QED BY <1>3, <2>1, <2>2, EmptyStored DEF Describes
  <1> QED BY <1>1, <1>2, <1>4 DEF Aware, Same

-----------------------------------------------------------------------------
(* Each of the steps that write, too, keeps the invariant.                  *)

\* The clock ticks.
LEMMA TickKeeps ==
  ASSUME IInv, Tick
  PROVE  IInv'
  <1>1. UNCHANGED <<file, proc, crashes, settled, clash, blind, stale, late>> /\ recent' = {}
    BY DEF Tick, history
  <1>2. Typed'
    BY <1>1 DEF IInv, Typed
  <1>3. \A g \in Groups : Turns(g)'
    BY <1>1 DEF IInv, Turns, Filled
  <1>4. \A p \in Procs : Sight(p)'
    BY <1>1 DEF IInv, Sight, Filled, View, Draft, Known
  <1>5. InTurn'
    BY <1>1 DEF IInv, InTurn, Serial, OneActiveSingleton, Aware
  <1> QED BY <1>2, <1>3, <1>4, <1>5 DEF IInv

\* A process cuts the file it is about to fill.
LEMMA TruncateKeeps ==
  ASSUME IInv, NEW p \in Procs, Truncate(p)
  PROVE  IInv'
  <1> DEFINE old == proc[p]
             r == [old EXCEPT !.at = "fill"]
  <1>0. PICK g : g = old.edit.group
    OBVIOUS
  <1>1. /\ old.at = "write" /\ Wrote(p, g, r) /\ file' = [file EXCEPT ![g] = Empty]
        /\ UNCHANGED <<crashes, settled, clash, blind, stale, late>>
        /\ Typed /\ old \in States /\ Local(old) /\ Live(old)
        /\ g \in Groups /\ old.todo = {} /\ Rewrites(old, g)
    BY <1>0 DEF Truncate, history, IInv, Typed, Live, Ended, Local, LocalReads, LocalEdits,
           States, Edits, Rewrites
  <1>2. /\ r \in States /\ r.at = "fill" /\ r.cmd = old.cmd /\ r.todo = old.todo
        /\ r.index = old.index /\ r.wanted = old.wanted /\ r.plan = old.plan
        /\ r.edit = old.edit /\ r.data = old.data /\ r.held = old.held
    BY <1>1 DEF States
  <1> HIDE DEF r
  <1>3. Local(r)
    BY <1>1, <1>2
    DEF Local, LocalReads, LocalFetches, LocalPlans, LocalEdits, Live, Ended
  <1>4. Written(p, g, r, Empty)
    BY <1>0, <1>1, <1>2, <1>3, EmptyStored DEF Written, Typed
  <1>5. /\ Typed' /\ Same(proc'[p], r, g) /\ proc'[p].held[g] = None
        /\ \A q \in Procs : q # p =>
             /\ Same(proc'[q], proc[q], g)
             /\ \A h \in Groups : /\ Rewrites(proc'[q], h) <=> Rewrites(proc[q], h)
                                  /\ Fills(proc'[q], h) <=> Fills(proc[q], h)
        /\ \A h \in Groups : h # g =>
             file'[h] = file[h] /\ settled'[h] = settled[h] /\ (Filled(h)' <=> Filled(h))
        /\ file'[g] = Empty
    BY <1>1, <1>4, WrittenIs
  <1>6. Fills(proc'[p], g) /\ Filled(g)' /\ Rewrites(proc'[p], g)
    BY <1>0, <1>2, <1>5 DEF Same, Fills, Filled, Rewrites
  <1>7. \A h \in Groups : Turns(h)'
    <2>1. Turns(g)'
      <3> SUFFICES ASSUME g \notin clash
                   PROVE  /\ file'[g] # Torn
                          /\ \A q, s \in Procs :
                               Rewrites(proc'[q], g) /\ Rewrites(proc'[s], g) => q = s
                          /\ Filled(g)' => file'[g] = Empty
                          /\ g \notin blind =>
                               /\ ~Filled(g)' => file'[g] = settled'[g]
                               /\ \A q \in Procs :
                                    Rewrites(proc'[q], g) => proc'[q].data = settled'[g]
        BY <1>1 DEF Turns
      <3>1. Turns(g)
        BY <1>1 DEF IInv
      <3>2. Empty # Torn
        BY EmptyStored, ProcessAssumption
      <3>3. \A q \in Procs : Rewrites(proc'[q], g) => q = p
        BY <1>1, <1>5, <3>1 DEF Turns
      <3>4. proc'[p].data = old.data
        BY <1>2, <1>5 DEF Same
      <3> QED BY <1>1, <1>5, <1>6, <3>1, <3>2, <3>3, <3>4 DEF Turns
    <2>2. \A h \in Groups : h # g => Turns(h)'
      BY <1>1, <1>4, WrittenTurns DEF IInv
    <2> QED BY <2>1, <2>2
  <1>8. Sight(p)'
    <2> SUFFICES ASSUME p \notin stale PROVE Sight(p)'
      BY <1>1 DEF Sight
    <2>0. Sight(p)
      BY DEF IInv
    <2>1. ASSUME NEW h \in Groups, h \notin clash, ~Filled(h)'
          PROVE  View(proc[p], h, file[h])'
      <3>1. h # g /\ View(old, h, file[h])
        BY <1>1, <1>5, <1>6, <2>0, <2>1 DEF Sight
      <3>2. View(r, h, file[h])
        BY <1>2, <3>1 DEF View
      <3>3. View(proc'[p], h, file'[h])
        BY <1>1, <1>5, <3>1, <3>2, SameView
      <3> QED BY <3>3 DEF View
    <2>2. Draft(proc[p])'
      BY <1>1, <1>2, <1>5, <2>0 DEF Sight, Draft, Same
    <2>3. ASSUME NEW t \in Ids, proc'[p].index[t] # None PROVE Known(p, t)'
      <3>1. Known(p, t) /\ proc'[p].todo = {}
        BY <1>1, <1>2, <1>5, <2>0, <2>3 DEF Sight, Same
      <3> QED BY <1>1, <1>5, <3>1 DEF Known
    <2> QED BY <1>1, <2>1, <2>2, <2>3 DEF Sight
  <1>9. ASSUME NEW q \in Procs, q # p PROVE Sight(q)'
    <2>1. g \notin clash => ~Rewrites(proc[q], g)
      BY <1>1, <1>9 DEF IInv, Turns
    <2>2. Sight(q)
      BY DEF IInv
    <2> QED BY <1>1, <1>4, <1>6, <1>9, <2>1, <2>2, WrittenSight
  <1>10. InTurn'
    <2> SUFFICES ASSUME Serial' PROVE InTurn'
      BY DEF InTurn
    <2>1. Serial
      BY <1>1 DEF Serial
    <2>2. \A q \in Procs : q # p => Aware(q)'
      BY <1>1, <1>4, <2>1, WrittenAware DEF IInv, InTurn
    <2>3. Aware(p)'
      <3> SUFFICES ASSUME p \notin stale PROVE Aware(p)'
        BY <1>1 DEF Aware
      <3>1. Aware(p)
        BY <2>1 DEF IInv, InTurn
      <3>2. ASSUME NEW h \in Groups
            PROVE  /\ file'[h] # Torn => Describes(proc'[p].index, file'[h])
                   /\ \/ file'[h] \in {proc'[p].held[h], Empty, Torn}
                      \/ proc'[p].held[h] = None
        <4>1. proc'[p].index = old.index
              /\ (proc'[p].held[h] = old.held[h] \/ proc'[p].held[h] = None)
          BY <1>2, <1>5 DEF Same
        <4>2. file'[h] \in {file[h], Empty}
          BY <1>5
        <4> QED BY <1>1, <3>1, <4>1, <4>2, EmptyStored DEF Aware, Describes
      <3> QED BY <1>1, <1>2, <1>5, <3>1, <3>2 DEF Aware, Same
    <2>4. OneActiveSingleton' /\
          \A h, k \in Groups, i \in Ids :
            file'[h] # Torn /\ file'[k] # Torn /\ file'[h][i] # None /\ file'[k][i] # None
              => h = k
      BY <1>5, <2>1, EmptyStored DEF IInv, InTurn, OneActiveSingleton
    <2> QED BY <2>2, <2>3, <2>4 DEF InTurn
  <1> QED BY <1>5, <1>7, <1>8, <1>9, <1>10 DEF IInv

\* A process is killed, also while it fills a file.
LEMMA CrashKeeps ==
  ASSUME IInv, NEW p \in Procs, Crash(p)
  PROVE  IInv'
  <1> DEFINE old == proc[p]
             r == Over(old, "crashed")
  <1>0. PICK g : g = old.edit.group
    OBVIOUS
  <1>1. crashes' \in 0 .. MaxCrashes
    BY ProcessAssumption DEF Crash, IInv, Typed
  <1>2. Typed /\ old \in States /\ Local(old)
    BY DEF IInv, Typed
  <1>3. CASE old.at # "fill"
    BY <1>1, <1>2, <1>3, QuietEnd DEF Crash, Becomes, history, Ended
  <1>4. CASE old.at = "fill"
    <2>1. PICK x \in {file[g], Torn} : file' = [file EXCEPT ![g] = x]
      BY <1>0, <1>4 DEF Crash
    <2>2. /\ Wrote(p, g, r) /\ clash' = clash \cup {g}
          /\ UNCHANGED <<settled, blind, stale, late>>
      BY <1>0, <1>4 DEF Crash
    <2>3. g \in Groups /\ Rewrites(old, g)
      BY <1>0, <1>2, <1>4 DEF Local, LocalEdits, States, Edits, Rewrites
    <2>4. Local(r) /\ ~Live(r) /\ r.at = "crashed"
      BY <1>2, OverLocal DEF Ended
    <2> HIDE DEF r
    <2>5. Written(p, g, r, x)
      BY <1>1, <1>2, <2>1, <2>2, <2>3, <2>4 DEF Written, Typed
    <2>6. /\ Typed' /\ Same(proc'[p], r, g) /\ file'[g] = x
          /\ \A h \in Groups : h # g => file'[h] = file[h]
      BY <1>2, <2>3, <2>5, WrittenIs
    <2>7. ~Live(proc'[p])
      BY <2>4, <2>6 DEF Same, Live
    <2>8. \A h \in Groups : Turns(h)'
      <3>1. Turns(g)'
        BY <2>2 DEF Turns
      <3>2. \A h \in Groups : h # g => Turns(h)'
        BY <1>2, <2>3, <2>5, WrittenTurns DEF IInv
      <3> QED BY <3>1, <3>2
    <2>9. \A q \in Procs : Sight(q)'
      <3>1. Sight(p)'
        BY <2>7 DEF Sight
      <3>2. \A q \in Procs : q # p => Sight(q)'
        BY <1>2, <2>2, <2>3, <2>5, WrittenSight DEF IInv
      <3> QED BY <3>1, <3>2
    <2>10. InTurn'
      <3> SUFFICES ASSUME Serial' PROVE InTurn'
        BY DEF InTurn
      <3>1. Serial
        BY <2>2 DEF Serial
      <3>2. \A q \in Procs : Aware(q)'
        <4>1. Aware(p)'
          BY <2>7 DEF Aware
        <4>2. \A q \in Procs : q # p => Aware(q)'
          BY <1>2, <2>1, <2>3, <2>5, <3>1, WrittenAware DEF IInv, InTurn
        <4> QED BY <4>1, <4>2
      <3>3. \A h \in Groups : file'[h] # Torn => file'[h] = file[h]
        BY <2>1, <2>6
      <3>4. OneActiveSingleton' /\
            \A h, k \in Groups, i \in Ids :
              file'[h] # Torn /\ file'[k] # Torn /\ file'[h][i] # None /\ file'[k][i] # None
                => h = k
        BY <3>1, <3>3 DEF IInv, InTurn, OneActiveSingleton
      <3> QED BY <3>2, <3>4 DEF InTurn
    <2> QED BY <2>6, <2>8, <2>9, <2>10 DEF IInv
  <1> QED BY <1>3, <1>4

-----------------------------------------------------------------------------
(* The step that ends an edit.                                              *)

\* What JsonBackend writes back is again contents of that group's file.
LEMMA RewrittenStored ==
  ASSUME NEW g, NEW d, Stored(g, d), NEW e \in Edits, e.node # None => Placed(g, e.node)
  PROVE  /\ Stored(g, Rewritten(d, e))
         /\ \A i \in Ids : Rewritten(d, e)[i] = IF i = e.id THEN e.node ELSE d[i]
  BY DEF Stored, Contents, Rewritten, Edits

\* What the writer goes on as.
LEMMA AppliedIs ==
  ASSUME NEW r \in States, Local(r), r.at \in {"write", "fill"}, NEW e, r.edit = e
  PROVE  LET a == Applied(r, e) IN
         /\ Local(a) /\ a.at \notin {"write", "fill"}
         /\ Live(a) => /\ a.at = "apply" /\ a.cmd = r.cmd /\ a.todo = {} /\ ~Adds(r.cmd)
                       /\ a.plan = r.plan \ {e} /\ a.held = r.held
                       /\ \A i \in Ids : a.index[i] =
                            IF i # e.id THEN r.index[i]
                            ELSE IF e.node = None THEN None ELSE RefOf(e.node)
  <1> DEFINE ref == IF e.node = None THEN None ELSE RefOf(e.node)
             n == [r EXCEPT !.plan = @ \ {e}, !.index[e.id] = ref]
             m == [n EXCEPT !.at = "apply"]
  <1>1. e \in Edits /\ e \in r.plan /\ e.id \in Ids
    BY DEF Local, LocalEdits, States, Edits
  <1>2. e.node # None =>
          RefOf(e.node) \in NodeRef /\ RefOf(e.node).type = e.node.type
    BY <1>1, RefOfType, RefOfKeepsType DEF Edits
  <1>3. ref \in NodeRef \cup {None}
    BY <1>2
  <1> HIDE DEF ref
  <1>4. /\ n \in States /\ n.at = r.at /\ n.cmd = r.cmd /\ n.todo = r.todo
        /\ n.wanted = r.wanted /\ n.plan = r.plan \ {e} /\ n.held = r.held
        /\ n.index = [r.index EXCEPT ![e.id] = ref] /\ n.runs = r.runs
    BY <1>1, <1>3 DEF States
  <1>5. Applied(r, e) = Onward(n)
    BY DEF Applied, ref
  <1> HIDE DEF n
  <1>6. CASE n.plan = {}
    <2>1. Applied(r, e) = Over(n, "done")
      BY <1>5, <1>6 DEF Onward
    <2>2. "done" \notin {"write", "fill"} /\ "done" \in Ended
      BY DEF Ended
    <2> QED BY <1>4, <2>1, <2>2, OverLocal
  <1>7. CASE n.plan # {}
    <2>1. Applied(r, e) = m
      BY <1>5, <1>7 DEF Onward
    <2>2. /\ m \in States /\ m.at = "apply" /\ m.cmd = r.cmd /\ m.todo = r.todo
          /\ m.wanted = r.wanted /\ m.plan = r.plan \ {e} /\ m.held = r.held
          /\ m.index = [r.index EXCEPT ![e.id] = ref]
      BY <1>4 DEF States
    <2> HIDE DEF m
    <2>3. \A i \in Ids : m.index[i] = IF i = e.id THEN ref ELSE r.index[i]
      BY <2>2 DEF States
    <2>4. r.todo = {} /\ Live(r) /\ r.cmd \in Commands
      BY DEF Local, LocalReads, Live, Ended
    <2>5. ~Adds(r.cmd)
      BY <1>1, <1>4, <1>7, <2>4 DEF Local, LocalPlans
    <2>6. \A f \in m.plan : f \in r.plan /\ f.id # e.id /\ f.id \in Ids
      BY <1>1, <2>2, <2>4, <2>5 DEF Local, LocalPlans, States, Edits
    <2>7. LocalReads(m)
      BY <2>2, <2>4 DEF Local, LocalReads
    <2>8. LocalFetches(m)
      BY <2>2 DEF Local, LocalFetches
    <2>9. LocalPlans(m)
      BY <2>2, <2>3, <2>4, <2>5, <2>6 DEF Local, LocalPlans
    <2>10. Local(m)
      BY <2>2, <2>7, <2>8, <2>9 DEF Local, LocalEdits
    <2> QED BY <2>1, <2>2, <2>3, <2>4, <2>5, <2>10 DEF ref
  <1> QED BY <1>6, <1>7

\* An accepted edit keeps singletons single in the index that has it, ...
LEMMA EditKeepsOneActive ==
  ASSUME NEW idx, OneActive(idx), NEW e \in Edits,
         e.node # None => Accepts(e.id, e.node, idx),
         NEW jdx, \A i \in Ids : jdx[i] =
           IF i # e.id THEN idx[i] ELSE IF e.node = None THEN None ELSE RefOf(e.node)
  PROVE  OneActive(jdx)
  <1> SUFFICES ASSUME NEW t \in Singletons, NEW i \in Ids, NEW j \in Ids,
                      IsActive(jdx[i], t), IsActive(jdx[j], t)
               PROVE  i = j
    BY DEF OneActive
  <1>1. e.id \in Ids
    BY DEF Edits
  <1>2. ASSUME NEW k \in Ids, IsActive(jdx[k], t), k # e.id PROVE IsActive(idx[k], t)
    BY <1>2
  <1>3. CASE i # e.id /\ j # e.id
    BY <1>2, <1>3 DEF OneActive
  <1>4. CASE i = e.id \/ j = e.id
    <2>1. e.node # None /\ e.node \in Node /\ e.node.type = t
      <3>1. IsActive(jdx[e.id], t)
        BY <1>4
      <3> QED BY <1>1, <3>1, RefOfKeepsType DEF IsActive, Edits
    <2>2. \A k \in Ids : IsActive(idx[k], t) => k = e.id
      BY <1>1, <2>1, AcceptedAlone
    <2> QED BY <1>2, <2>2
  <1> QED BY <1>3, <1>4

\* ... and so in the contents that it describes.
LEMMA DescribedSingles ==
  ASSUME NEW idx, OneActive(idx), NEW c \in Contents, Describes(idx, c)
  PROVE  SinglesOf(c)
  <1> SUFFICES ASSUME NEW t \in Singletons, NEW i \in Ids, NEW j \in Ids,
                      c[i] # None, c[i].type = t, c[i].status = "active",
                      c[j] # None, c[j].type = t, c[j].status = "active"
               PROVE  i = j
    BY DEF SinglesOf
  <1>1. ASSUME NEW k \in Ids, c[k] # None, c[k].type = t, c[k].status = "active"
        PROVE  IsActive(idx[k], t)
    <2>1. c[k] \in Node /\ idx[k] = RefOf(c[k])
      BY <1>1 DEF Contents, Describes
    <2> QED BY <1>1, <2>1, RefOfType DEF IsActive, RefOf
  <1> QED BY <1>1 DEF OneActive

\* The process fills the file.
LEMMA FillKeeps ==
  ASSUME IInv, NEW p \in Procs, Fill(p)
  PROVE  IInv'
  <1> DEFINE old == proc[p]
  <1>0. PICK e, g : e = old.edit /\ g = e.group
    OBVIOUS
  <1> DEFINE r == Applied(old, e)
             new == Rewritten(old.data, e)
  <1>1. PICK x \in {new} \cup (IF file[g] = Empty THEN {} ELSE {Torn}) :
          file' = [file EXCEPT ![g] = x]
    BY <1>0 DEF Fill
  <1>2. /\ old.at = "fill" /\ Wrote(p, g, r)
        /\ settled' = [settled EXCEPT ![g][e.id] = e.node]
        /\ stale' = stale \cup
             {q \in Procs \ {p} : proc[q].at \notin Ended /\ g \notin proc[q].todo}
        /\ late' = (late \/ p \in stale)
        /\ UNCHANGED <<crashes, clash, blind>>
    BY <1>0 DEF Fill
  <1>3. /\ Typed /\ old \in States /\ Local(old) /\ Live(old) /\ old.todo = {}
        /\ e \in Edits /\ e.id \in Ids /\ g \in Groups /\ e \in old.plan
        /\ Fills(old, g) /\ Filled(g) /\ Stored(g, old.data)
        /\ e.node # None => Accepts(e.id, e.node, old.index) /\ Placed(g, e.node)
    BY <1>0, <1>2 DEF IInv, Typed, Live, Ended, Local, LocalReads, LocalEdits, LocalPlans,
       States, Edits, Fills, Filled
  <1>4. /\ Local(r) /\ r.at \notin {"write", "fill"}
        /\ Live(r) => /\ r.at = "apply" /\ r.cmd = old.cmd /\ r.todo = {} /\ ~Adds(old.cmd)
                      /\ r.plan = old.plan \ {e} /\ r.held = old.held
                      /\ \A i \in Ids : r.index[i] =
                           IF i # e.id THEN old.index[i]
                           ELSE IF e.node = None THEN None ELSE RefOf(e.node)
    BY <1>0, <1>2, <1>3, AppliedIs
  <1>5. /\ Stored(g, new)
        /\ \A i \in Ids : new[i] = IF i = e.id THEN e.node ELSE old.data[i]
    BY <1>3, RewrittenStored
  <1> HIDE DEF r, new
  <1>6. /\ settled' \in [Groups -> Contents]
        /\ \A h \in Groups : h # g => settled'[h] = settled[h]
        /\ \A i \in Ids : settled'[g][i] = IF i = e.id THEN e.node ELSE settled[g][i]
    <2>1. settled \in [Groups -> Contents] /\ settled[g] \in [Ids -> Node \cup {None}]
      BY <1>3 DEF Typed, Contents
    <2>2. [settled[g] EXCEPT ![e.id] = e.node] \in Contents
      BY <1>3, <2>1 DEF Contents, Edits
    <2>3. settled'[g] = [settled[g] EXCEPT ![e.id] = e.node]
      BY <1>2, <1>3, <2>1
    <2> QED BY <1>2, <1>3, <2>1, <2>2, <2>3
  <1>7. Written(p, g, r, x)
    BY <1>1, <1>2, <1>3, <1>4, <1>5, <1>6 DEF Written, Typed
  <1>8. /\ Typed' /\ Same(proc'[p], r, g) /\ proc'[p].held[g] = None
        /\ \A q \in Procs : q # p =>
             /\ Same(proc'[q], proc[q], g)
             /\ \A h \in Groups : /\ Rewrites(proc'[q], h) <=> Rewrites(proc[q], h)
                                  /\ Fills(proc'[q], h) <=> Fills(proc[q], h)
        /\ \A h \in Groups : h # g =>
             file'[h] = file[h] /\ settled'[h] = settled[h] /\ (Filled(h)' <=> Filled(h))
        /\ file'[g] = x
    BY <1>3, <1>7, WrittenIs
  <1>9. \A q \in Procs : q \notin stale' /\ Live(proc[q]) /\ q # p => g \in proc[q].todo
    BY <1>2 DEF Live
  <1>10. \A h \in Groups : Turns(h)'
    <2>1. ASSUME g \notin clash
          PROVE  /\ file'[g] = new /\ ~Filled(g)'
                 /\ \A q \in Procs : ~Rewrites(proc'[q], g)
                 /\ g \notin blind => old.data = settled[g]
      <3>1. Turns(g) /\ Rewrites(old, g)
        BY <1>3 DEF IInv, Fills, Rewrites
      <3>2. \A q \in Procs : ~Rewrites(proc'[q], g)
        BY <1>3, <1>4, <1>8, <2>1, <3>1 DEF Turns, Same, Rewrites
      <3> QED BY <1>1, <1>3, <1>8, <2>1, <3>1, <3>2 DEF Turns, Filled, Fills, Rewrites
    <2>2. ASSUME g \notin clash, g \notin blind PROVE new = settled'[g]
      <3>1. \A i \in Ids : new[i] = settled'[g][i]
        BY <1>5, <1>6, <2>1, <2>2
      <3>2. new \in Contents /\ settled'[g] \in Contents
        BY <1>3, <1>5, <1>6 DEF Stored
      <3> QED BY <3>1, <3>2 DEF Contents
    <2>3. Torn # new
      BY <1>5, ProcessAssumption DEF Stored
    <2>4. Turns(g)'
      BY <1>2, <2>1, <2>2, <2>3 DEF Turns
    <2>5. \A h \in Groups : h # g => Turns(h)'
      BY <1>3, <1>7, WrittenTurns DEF IInv
    <2> QED BY <2>4, <2>5
  <1>11. Sight(p)'
    <2> SUFFICES ASSUME Live(proc'[p]), p \notin stale' PROVE Sight(p)'
      BY DEF Sight
    <2>1. Live(r) /\ p \notin stale /\ Sight(p)
      BY <1>2, <1>8 DEF IInv, Same, Live
    <2>2. ASSUME NEW h \in Groups, h \notin clash', ~Filled(h)'
          PROVE  View(r, h, file'[h]) \/ h = g
      <3> SUFFICES ASSUME h # g PROVE View(r, h, file'[h])
        OBVIOUS
      <3>1. View(old, h, file[h])
        BY <1>2, <1>3, <1>8, <2>1, <2>2 DEF Sight
      <3> QED BY <1>4, <1>8, <2>1, <3>1 DEF View
    <2>3. ASSUME g \notin clash'
          PROVE  \A f \in r.plan : f.group = g => Fit(r.cmd, f, file'[g])
      <3>1. ASSUME NEW f \in r.plan, f.group = g PROVE Fit(r.cmd, f, file'[g])
        <4>1. f \in old.plan /\ f.id # e.id /\ f.id \in Ids
          BY <1>3, <1>4, <2>1, <3>1 DEF Local, LocalPlans, States, Edits
        <4>2. Fit(old.cmd, f, old.data)
          BY <1>0, <1>2, <1>3, <1>4, <2>1, <2>3, <3>1, <4>1 DEF Sight, Draft
        <4>3. file'[g] = new
          BY <1>1, <1>2, <1>3, <1>8, <2>3 DEF IInv, Turns
        <4>4. new[f.id] = old.data[f.id]
          BY <1>5, <4>1
        <4> QED BY <1>4, <2>1, <4>2, <4>3, <4>4 DEF Fit
      <3> QED BY <3>1
    <2>4. ASSUME NEW h \in Groups, h \notin clash', ~Filled(h)'
          PROVE  View(proc[p], h, file[h])'
      <3>1. CASE h # g
        <4>1. View(proc'[p], h, file'[h])
          BY <1>3, <1>8, <2>2, <2>4, <3>1, SameView
        <4> QED BY <4>1 DEF View
      <3>2. CASE h = g
        BY <1>4, <1>8, <2>1, <2>3, <2>4, <3>2 DEF View, Same
      <3> QED BY <3>1, <3>2
    <2>5. Draft(proc[p])'
      BY <1>4, <1>8 DEF Draft, Same
    <2>6. ASSUME NEW t \in Ids, proc'[p].index[t] # None PROVE Known(p, t)'
      <3>1. proc'[p].todo = {} /\ proc'[p].index = r.index
        BY <1>4, <1>8, <2>1 DEF Same
      <3>2. CASE t = e.id
        <4>1. settled'[g][t] # None
          BY <1>4, <1>6, <2>1, <2>6, <3>1, <3>2
        <4> QED BY <1>3, <3>1, <4>1 DEF Known
      <3>3. CASE t # e.id
        <4>1. old.index[t] # None
          BY <1>4, <2>1, <2>6, <3>1, <3>3
        <4>2. PICK h \in Groups :
                \/ h \in clash \cup blind
                \/ \E s \in Procs : s # p /\ Fills(proc[s], h)
                \/ settled[h][t] # None
          BY <1>3, <2>1, <4>1 DEF Sight, Known
        <4>3. settled'[h][t] = settled[h][t]
          BY <1>6, <3>3
        <4> QED BY <1>2, <1>8, <3>1, <4>2, <4>3 DEF Known
      <3> QED BY <3>2, <3>3
    <2> QED BY <2>4, <2>5, <2>6 DEF Sight
  <1>12. ASSUME NEW q \in Procs, q # p PROVE Sight(q)'
    <2>1. Sight(q)
      BY DEF IInv
    <2> QED BY <1>3, <1>7, <1>9, <1>12, <2>1, WrittenSight
  <1>13. ASSUME Serial' PROVE InTurn'
    <2>1. Serial /\ p \notin stale
      BY <1>2, <1>13 DEF Serial
    <2>2. /\ \A h \in Groups : file[h] # Torn => Describes(old.index, file[h])
          /\ \A h \in Groups :
               file[h] \in {old.held[h], Empty, Torn} \/ old.held[h] = None
          /\ Describes(old.index, old.data) /\ OneActive(old.index)
      BY <1>2, <1>3, <2>1 DEF IInv, InTurn, Aware
    <2>3. ASSUME NEW h \in Groups, file[h] # Torn, NEW i \in Ids, file[h][i] # None,
                 new[i] # None
          PROVE  h = g
      <3>1. /\ old.index[i] = RefOf(file[h][i])
            /\ GroupOf[file[h][i].type] = h
        BY <1>3, <2>2, <2>3 DEF Describes, Typed, Stored, Placed
      <3>2. GroupOf[old.index[i].type] = h
        BY <3>1, RefOfKeepsType
      <3>3. file[h][i] \in Node /\ old.index[i] # None
        BY <1>3, <2>3, <3>1, RefOfType DEF Typed, Stored, Contents
      <3>4. CASE i = e.id
        BY <1>0, <1>3, <3>2, <3>3, <3>4 DEF Local, LocalPlans
      <3>5. CASE i # e.id
        <4>1. old.index[i] = RefOf(old.data[i]) /\ GroupOf[old.data[i].type] = g
          BY <1>3, <1>5, <2>2, <2>3, <3>5 DEF Describes, Stored, Placed
        <4> QED BY <3>2, <4>1, RefOfKeepsType
      <3> QED BY <3>4, <3>5
    <2> DEFINE jdx == [i \in Ids |-> IF i # e.id THEN old.index[i]
                                     ELSE IF e.node = None THEN None ELSE RefOf(e.node)]
    <2>4. \A i \in Ids : jdx[i] = IF i # e.id THEN old.index[i]
                                  ELSE IF e.node = None THEN None ELSE RefOf(e.node)
      OBVIOUS
    <2> HIDE DEF jdx
    <2>5. OneActive(jdx)
      BY <1>3, <2>2, <2>4, EditKeepsOneActive
    <2>6. Describes(jdx, new)
      BY <1>5, <2>2, <2>4 DEF Describes
    <2>7. SinglesOf(new)
      BY <1>5, <2>5, <2>6, DescribedSingles DEF Stored
    <2>8. OneActiveSingleton'
      BY <1>1, <1>8, <2>1, <2>7 DEF IInv, InTurn, OneActiveSingleton
    <2>9. ASSUME NEW h \in Groups, NEW k \in Groups, NEW i \in Ids,
                 file'[h] # Torn, file'[k] # Torn, file'[h][i] # None, file'[k][i] # None
          PROVE  h = k
      <3>1. CASE h # g /\ k # g
        BY <1>8, <2>1, <2>9, <3>1 DEF IInv, InTurn
      <3>2. CASE h = g /\ k # g
        BY <1>1, <1>8, <2>3, <2>9, <3>2
      <3>3. CASE h # g /\ k = g
        BY <1>1, <1>8, <2>3, <2>9, <3>3
      <3> QED BY <3>1, <3>2, <3>3
    <2>10. Aware(p)'
      <3> SUFFICES ASSUME Live(proc'[p]), p \notin stale' PROVE Aware(p)'
        BY DEF Aware
      <3>1. Live(r)
        BY <1>8 DEF Same, Live
      <3>2. /\ \A i \in Ids : proc'[p].index[i] = jdx[i]
            /\ proc'[p].at = "apply"
            /\ \A h \in Groups : \/ proc'[p].held[h] = old.held[h]
                                 \/ proc'[p].held[h] = None
        BY <1>4, <1>8, <2>4, <3>1 DEF Same
      <3>3. ASSUME NEW h \in Groups
            PROVE  /\ file'[h] # Torn => Describes(proc'[p].index, file'[h])
                   /\ \/ file'[h] \in {proc'[p].held[h], Empty, Torn}
                      \/ proc'[p].held[h] = None
        <4>1. CASE h = g
          BY <1>1, <1>8, <2>6, <3>2, <4>1 DEF Describes
        <4>2. CASE h # g
          <5>1. file'[h] = file[h]
            BY <1>8, <4>2
          <5>2. ASSUME file[h] # Torn, NEW i \in Ids, file[h][i] # None
                PROVE  jdx[i] = RefOf(file[h][i])
            <6>1. old.index[i] = RefOf(file[h][i]) /\ file[h][i] \in Node
              BY <1>3, <2>2, <5>2 DEF Describes, Typed, Stored, Contents
            <6>2. old.index[i] # None /\ GroupOf[old.index[i].type] = h
              BY <1>3, <5>2, <6>1, RefOfType, RefOfKeepsType DEF Typed, Stored, Placed
            <6>3. i # e.id
              BY <1>0, <1>3, <4>2, <6>2 DEF Local, LocalPlans
            <6> QED BY <2>4, <6>1, <6>3
          <5> QED BY <2>2, <3>2, <5>1, <5>2 DEF Describes
        <4> QED BY <4>1, <4>2
      <3>4. OneActive(proc'[p].index)
        BY <2>5, <3>2 DEF OneActive
      <3> QED BY <3>2, <3>3, <3>4 DEF Aware
    <2>11. \A q \in Procs : q # p => Aware(q)'
      BY <1>3, <1>7, <1>9, <2>1, WrittenAware DEF IInv, InTurn
    <2> QED BY <2>8, <2>9, <2>10, <2>11 DEF InTurn
  <1>14. InTurn'
    BY <1>13 DEF InTurn
  <1> QED BY <1>8, <1>10, <1>11, <1>12, <1>14 DEF IInv

-----------------------------------------------------------------------------
(* The invariant.                                                           *)

LEMMA InitIInv == Init => IInv
  <1> SUFFICES ASSUME Init PROVE IInv
    OBVIOUS
  <1>1. SoundStore(file) /\ settled = file /\ proc = [p \in Procs |-> Fresh]
        /\ crashes = 0 /\ recent = {} /\ clash = {} /\ blind = {} /\ stale = {}
        /\ late = FALSE
    BY ProcessAssumption DEF Init
  <1>2. \A g \in Groups : file[g] # Torn /\ Stored(g, file[g])
    BY <1>1, ProcessAssumption DEF SoundStore, Stored, Placed
  <1>3. \A p \in Procs : proc[p] = Fresh /\ ~Live(proc[p]) /\ Local(proc[p])
    BY <1>1, FreshState
    DEF Live, Ended, Local, LocalReads, LocalFetches, LocalPlans, LocalEdits
  <1>4. Typed
    <2>1. proc \in [Procs -> States] /\ crashes \in 0 .. MaxCrashes
      BY <1>1, FreshState, ProcessAssumption
    <2> QED BY <1>1, <1>2, <1>3, <2>1 DEF Typed, SoundStore
  <1>5. \A p \in Procs : \A g : ~Rewrites(proc[p], g) /\ ~Fills(proc[p], g)
    BY <1>3, FreshState DEF Rewrites, Fills
  <1>6. \A g \in Groups : Turns(g)
    BY <1>1, <1>2, <1>5 DEF Turns, Filled
  <1>7. \A p \in Procs : Sight(p) /\ Aware(p)
    BY <1>3 DEF Sight, Aware
  <1>8. InTurn
    BY <1>1, <1>7 DEF InTurn, SoundStore, OneActiveSingleton
  <1> QED BY <1>4, <1>6, <1>7, <1>8 DEF IInv

LEMMA NextIInv == IInv /\ [Next]_vars => IInv'
  <1> SUFFICES ASSUME IInv, [Next]_vars PROVE IInv'
    OBVIOUS
  <1>1. CASE UNCHANGED vars
    <2>1. UNCHANGED <<file, recent, proc, crashes, settled, clash, blind, stale, late>>
      BY <1>1 DEF vars, history
    <2>2. Typed'
      BY <2>1 DEF IInv, Typed
    <2>3. \A g \in Groups : Turns(g)'
      BY <2>1 DEF IInv, Turns, Filled
    <2>4. \A p \in Procs : Sight(p)'
      BY <2>1 DEF IInv, Sight, Filled, View, Draft, Known
    <2>5. InTurn'
      BY <2>1 DEF IInv, InTurn, Serial, OneActiveSingleton, Aware
    <2> QED BY <2>2, <2>3, <2>4, <2>5 DEF IInv
  <1>2. CASE Tick
    BY <1>2, TickKeeps
  <1>3. ASSUME NEW p \in Procs, NEW c \in Commands, Start(p, c) PROVE IInv'
    BY <1>3, StartKeeps
  <1>4. ASSUME NEW p \in Procs, NEW g \in Groups, ReadGroup(p, g) PROVE IInv'
    BY <1>4, ReadGroupKeeps
  <1>5. ASSUME NEW p \in Procs, Allocate(p) PROVE IInv'
    BY <1>5, AllocateKeeps
  <1>6. ASSUME NEW p \in Procs, Select(p) PROVE IInv'
    BY <1>6, SelectKeeps
  <1>7. ASSUME NEW p \in Procs, NEW i \in Ids, Fetch(p, i) PROVE IInv'
    BY <1>7, FetchKeeps
  <1>8. ASSUME NEW p \in Procs, NEW e \in proc[p].plan, Refuse(p, e) PROVE IInv'
    BY <1>8, RefuseKeeps
  <1>9. ASSUME NEW p \in Procs, NEW e \in proc[p].plan, Load(p, e) PROVE IInv'
    BY <1>9, LoadKeeps
  <1>10. ASSUME NEW p \in Procs, Truncate(p) PROVE IInv'
    BY <1>10, TruncateKeeps
  <1>11. ASSUME NEW p \in Procs, Fill(p) PROVE IInv'
    BY <1>11, FillKeeps
  <1>12. ASSUME NEW p \in Procs, Crash(p) PROVE IInv'
    BY <1>12, CrashKeeps
  <1> QED BY <1>1, <1>2, <1>3, <1>4, <1>5, <1>6, <1>7, <1>8, <1>9, <1>10, <1>11, <1>12
          DEF Next

\* It holds at every moment, of any number of processes that start, stop and are
\* killed wherever they are.
THEOREM Invariant == Spec => []IInv
  BY InitIInv, NextIInv, PTL DEF Spec

-----------------------------------------------------------------------------
(* The invariants the runs check, as consequences.                          *)

\* The state of each process, the files and the history have their types.
THEOREM TypeCorrect == Spec => []ProcessTypeOK
  <1>1. IInv => ProcessTypeOK
    <2> SUFFICES ASSUME IInv PROVE ProcessTypeOK
      OBVIOUS
    <2>1. ASSUME NEW p \in Procs
          PROVE  LET r == proc[p] IN
                 /\ r.at \in Ended \cup {"open", "fetch", "apply", "write", "fill"}
                 /\ r.todo \subseteq Groups /\ r.wanted \subseteq Ids /\ r.plan \subseteq Edits
                 /\ r.index \in [Ids -> NodeRef \cup {None}] /\ r.data \in Contents
                 /\ r.at \in {"write", "fill"} => r.edit \in Edits
                 /\ r.held \in [Groups -> Contents \cup {None}]
                 /\ r.runs \in 0 .. MaxRuns
      BY <2>1 DEF IInv, Typed, Local, LocalEdits, States
    <2> QED BY <2>1 DEF IInv, Typed, ProcessTypeOK
  <1> QED BY <1>1, Invariant, PTL

\* JsonBackend's second read makes a lost edit impossible unless two rewrites of a
\* file overlap, one dies half way, or the cache hid a write of the same tick.
THEOREM LossExplained == Spec => []LossNeedsClash
  <1>1. IInv => LossNeedsClash
    BY UnsettledIs DEF IInv, Turns, LossNeedsClash
  <1> QED BY <1>1, Invariant, PTL

\* Unless another process wrote behind its index, or the file is broken, the edit a
\* process is about to write is the one its command makes to what the file has.
THEOREM EditsFit == Spec => []EditFitsUnlessStale
  <1>1. IInv => EditFitsUnlessStale
    <2> SUFFICES ASSUME IInv, NEW p \in Procs, proc[p].at = "write", p \notin stale,
                        proc[p].edit.group \notin clash
                 PROVE  EditFits(proc[p])
      BY DEF EditFitsUnlessStale
    <2> DEFINE r == proc[p]
               g == r.edit.group
    <2>1. /\ Typed /\ Local(r) /\ Live(r) /\ r.todo = {} /\ r \in States
          /\ r.edit \in r.plan /\ r.edit \in Edits /\ r.edit.id \in Ids /\ g \in Groups
      BY DEF IInv, Typed, Local, LocalReads, LocalEdits, Live, Ended, States, Edits
    <2>2. /\ \A h \in Groups : h \notin clash /\ ~Filled(h) => View(r, h, file[h])
          /\ r.data = file[g]
          /\ ~Adds(r.cmd) => \A e \in r.plan : e.group = g => Fit(r.cmd, e, r.data)
      BY <2>1 DEF IInv, Sight, Draft
    <2>3. CASE Adds(r.cmd)
      <3>1. r.index[r.edit.id] = None
        BY <2>1, <2>3 DEF Local, LocalPlans
      <3>2. ASSUME NEW h \in Groups, h \notin clash, ~Filled(h)
            PROVE  file[h][r.edit.id] = None
        BY <2>1, <2>2, <2>3, <3>1, <3>2 DEF View
      <3>3. ~Filled(g)
        BY <2>1 DEF IInv, Turns, Filled, Fills, Rewrites
      <3>4. \A h \in Groups : Unsettled(h) \/ settled[h][r.edit.id] = None
        BY <3>2, UnsettledIs DEF IInv, Turns
      <3> QED BY <2>1, <2>2, <2>3, <3>2, <3>3, <3>4 DEF EditFits
    <2>4. CASE ~Adds(r.cmd)
      BY <2>1, <2>2, <2>4 DEF EditFits, Fit
    <2> QED BY <2>3, <2>4
  <1> QED BY <1>1, Invariant, PTL

\* Unless another process wrote behind its index, a process writes a note or link
\* only to nodes that exist, as far as every edit made it to its file.
THEOREM RefsResolve == Spec => []RefsResolveUnlessStale
  <1>1. IInv => RefsResolveUnlessStale
    <2> SUFFICES ASSUME IInv, NEW p \in Procs \ stale, proc[p].at = "write",
                        proc[p].edit.node # None, NEW t \in proc[p].edit.node.refs
                 PROVE  \E g \in Groups : Unsettled(g) \/ settled[g][t] # None
      BY DEF RefsResolveUnlessStale
    <2> DEFINE r == proc[p]
               n == r.edit.node
    <2>1. /\ Local(r) /\ Live(r) /\ r.edit \in Edits /\ n \in Node
          /\ Accepts(r.edit.id, n, r.index) /\ Placed(r.edit.group, n)
      BY DEF IInv, Typed, Local, LocalEdits, LocalPlans, Live, Ended, States, Edits
    <2>2. t \in Ids /\ n.refs # {} /\ n.type \in Types
      BY <2>1 DEF Node
    <2>3. n.type = NoteType \/ GroupOf[n.type] = LinksGroup
      BY <2>1, <2>2, SchemaAssumption DEF Placed, RefersAsTyped
    <2>4. r.index[t] # None
      BY <2>1, <2>3 DEF Accepts, Valid, NoteTargetsValid, LinkTargetsValid
    <2>5. Known(p, t)
      BY <2>1, <2>2, <2>4 DEF IInv, Sight
    <2> QED BY <2>5, UnsettledIs DEF Known, Filled
  <1> QED BY <1>1, Invariant, PTL

\* Singletons stay single until a process writes behind whose index another wrote,
\* or one writes from a cache entry that was out of date.
THEOREM SingletonsSafe == Spec => []SingletonNeedsLateWriter
  <1>1. IInv => SingletonNeedsLateWriter
    BY DEF IInv, Typed, InTurn, Serial, SingletonNeedsLateWriter
  <1> QED BY <1>1, Invariant, PTL
=============================================================================
