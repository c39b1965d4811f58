---------------------------- MODULE StackProofs ----------------------------
(***************************************************************************)
(* The safety of Stack for any number of processes, buckets, names and        *)
(* commands.  The inductive invariant says what a process and the documents   *)
(* are (Typed); that the copy of a process that nobody has overtaken is the   *)
(* document, cut while it is filled (CopyFits); that what fetch has resolved  *)
(* answers its request (FetchFits); that a sync nobody has disturbed has      *)
(* worked on what is there now (SyncFits); and what the properties say of the *)
(* documents and directories.                                                 *)
(***************************************************************************)
EXTENDS Stack, FiniteSetTheorems, WellFoundedInduction, TLAPS

-----------------------------------------------------------------------------
(* CHOOSE of a least or greatest element.                                   *)

\* A non-empty set has an element where f is least ...
LEMMA Least ==
  ASSUME NEW S, NEW f \in [S -> Nat], NEW T \in SUBSET S, T # {}
  PROVE  \E x \in T : \A y \in T : f[x] <= f[y]
  <1> DEFINE V == {f[x] : x \in T}
             R == OpToRel(<, Nat)
  <1>1. V \subseteq Nat /\ V # {}
    OBVIOUS
  <1>2. IsWellFoundedOn(R, Nat)
    BY NatLessThanWellFounded
  <1> HIDE DEF V, R
  <1>3. PICK v \in V : \A w \in V : ~ (<<w, v>> \in R)
    BY <1>1, <1>2, WFMin
  <1>4. \A w \in V : w < v => <<w, v>> \in R
    BY <1>1 DEF OpToRel, R
  <1>5. ASSUME NEW w \in V PROVE v <= w
    <2>1. w \in Nat /\ v \in Nat
      BY <1>1
    <2>2. ~(w < v)
      BY <1>3, <1>4
    <2> QED BY <2>1, <2>2
  <1>6. PICK x \in T : f[x] = v
    BY DEF V
  <1>7. \A y \in T : f[y] \in V
    BY DEF V
  <1> QED BY <1>5, <1>6, <1>7

\* ... and, if it is finite, one where f is greatest: there the set of the elements
\* above it is least.
LEMMA Greatest ==
  ASSUME NEW S, NEW f \in [S -> Nat], NEW T \in SUBSET S, T # {}, IsFiniteSet(T)
  PROVE  \E x \in T : \A y \in T : f[y] <= f[x]
  <1> DEFINE Above(x) == {y \in T : f[x] < f[y]}
             size == [x \in T |-> Cardinality(Above(x))]
  <1>1. \A x \in T : IsFiniteSet(Above(x)) /\ Cardinality(Above(x)) \in Nat
    BY FS_Subset, FS_CardinalityType
  <1>2. size \in [T -> Nat]
    BY <1>1
  <1>3. PICK x \in T : \A y \in T : size[x] <= size[y]
    BY <1>2, Least
  <1>4. ASSUME NEW y \in T, f[x] < f[y] PROVE FALSE
    <2>1. f[x] \in Nat /\ f[y] \in Nat /\ \A z \in T : f[z] \in Nat
      OBVIOUS
    <2>2. Above(y) \subseteq Above(x)
      BY <1>4, <2>1
    <2>3. y \in Above(x) /\ y \notin Above(y)
      BY <1>4, <2>1
    <2> HIDE DEF Above
    <2>4. Cardinality(Above(y)) < Cardinality(Above(x))
      <3>1. Above(y) # Above(x)
        BY <2>3
      <3> QED BY <1>1, <2>2, <3>1, FS_Subset
    <2> QED BY <1>1, <1>3, <2>4
  <1>5. \A y \in T : f[x] \in Nat /\ f[y] \in Nat
    OBVIOUS
  <1> QED BY <1>4, <1>5

-----------------------------------------------------------------------------
(* Stages.                                                                  *)

At(q, stage) == q.status = "running" /\ Stages(q.cmd)[q.pos] = stage

Editors == {"install", "uninstall", "set", "unset"}
Readers == {"fetch", "sync", "get"}

\* The stages, command by command.
LEMMA StageTable ==
  ASSUME NEW c
  PROVE  /\ c.op = "install" =>
              Stages(c) = <<"find", "ensure", "resolve", "load", "cut", "fill">>
         /\ c.op \in {"uninstall", "set", "unset"} => Stages(c) = <<"load", "cut", "fill">>
         /\ c.op = "add" => Stages(c) = <<"ensure">>
         /\ c.op = "remove" => Stages(c) = <<"load", "rmtree", "cut", "fill">>
         /\ c.op = "fetch" => Stages(c) = <<"global", "project", "resolve", "print">>
         /\ c.op = "sync" => Stages(c) = <<"global", "project", "list", "items">>
         /\ c.op = "get" => Stages(c) = <<"global", "project">>
  <1>1. CASE c.op \in {"install", "uninstall", "set", "unset", "add"}
    BY <1>1 DEF Stages, InstallStages, RewriteStages
  <1>2. CASE c.op \in {"remove", "get"}
    BY <1>2 DEF Stages, RemoveStages, FactsStages
  <1>3. CASE c.op = "fetch"
    BY <1>3 DEF Stages, FetchStages
  <1>4. CASE c.op = "sync"
    BY <1>4 DEF Stages, SyncStages
  <1> QED BY <1>1, <1>2, <1>3, <1>4

\* q but for its place is r.
Moved(r, q) ==
  /\ r.cmd = q.cmd /\ r.loaded = q.loaded /\ r.left = q.left /\ r.listed = q.listed
  /\ r.entry = q.entry /\ r.source = q.source /\ r.facts = q.facts
  /\ r.synced = q.synced /\ r.errors = q.errors

\* Where a process goes from each stage.
After(q, r) ==
  /\ At(q, "find") => q.cmd.op = "install" /\ At(r, "ensure")
  /\ At(q, "ensure") =>
       (q.cmd.op = "install" /\ At(r, "resolve")) \/ (q.cmd.op = "add" /\ r.status = "done")
  /\ At(q, "resolve") =>
       (q.cmd.op = "install" /\ At(r, "load")) \/ (q.cmd.op = "fetch" /\ At(r, "print"))
  /\ At(q, "load") =>
       (q.cmd.op \in Editors /\ At(r, "cut")) \/ (q.cmd.op = "remove" /\ At(r, "rmtree"))
  /\ At(q, "rmtree") => q.cmd.op = "remove" /\ At(r, "cut")
  /\ At(q, "cut") => q.cmd.op \in Editors \cup {"remove"} /\ At(r, "fill")
  /\ At(q, "fill") => q.cmd.op \in Editors \cup {"remove"} /\ r.status = "done"
  /\ At(q, "global") => q.cmd.op \in Readers /\ At(r, "project")
  /\ At(q, "project") =>
       \/ q.cmd.op = "fetch" /\ At(r, "resolve")
       \/ q.cmd.op = "sync" /\ At(r, "list")
       \/ q.cmd.op = "get" /\ r.status = "done"
  /\ At(q, "list") => q.cmd.op = "sync" /\ At(r, "items")
  /\ At(q, "items") => q.cmd.op = "sync" /\ r.status = "done"
  /\ At(q, "print") => q.cmd.op = "fetch" /\ r.status = "done"

CopyOf(f) == [Domain[f] -> Content[f] \cup {None}]
AnyCopy == UNION {CopyOf(f) : f \in Docs}
Listing == UNION {[names -> Kinds] : names \in SUBSET Names}
Values == [Keys -> Vals \cup {None}]

States ==
  [status : {"idle", "running", "done", "failed", "crashed"},
   cmd : Commands \cup {None}, pos : Nat,
   loaded : AnyCopy \cup {None}, left : SUBSET (Buckets \cup Names),
   listed : Listing \cup {None}, entry : Entry \cup {None}, source : Source \cup {None},
   facts : Values, synced : SUBSET Names, errors : SUBSET Names]

\* A running process is at a stage of its command.
Placed(q) == q.status = "running" =>
  q.cmd \in Commands /\ q.pos \in 1 .. Len(Stages(q.cmd))

\* Advance moves a process to the next stage.
LEMMA Advances ==
  ASSUME NEW q \in States, q.status = "running", Placed(q)
  PROVE  LET r == Advance(q) IN
         /\ r \in States /\ Placed(r) /\ After(q, r) /\ Moved(r, q)
         /\ r.status \in {"running", "done"}
  <1> DEFINE s == Stages(q.cmd)
             last == [q EXCEPT !.status = "done"]
             next == [q EXCEPT !.pos = @ + 1]
  <1>1. q.cmd \in Commands /\ q.cmd.op \in Op /\ q.pos \in 1 .. Len(s) /\ q.pos \in Nat
    BY StackAssumption DEF Placed, SoundCommand, States
  <1>2. last \in States /\ last.status = "done" /\ Moved(last, q)
    BY DEF States, Moved
  <1>3. /\ next \in States /\ next.status = "running" /\ next.pos = q.pos + 1
        /\ Moved(next, q)
    BY <1>1 DEF States, Moved
  <1> HIDE DEF last, next, s
  <1> DEFINE r == Advance(q)
  <1>4. \/ q.pos = Len(s) /\ r = last
        \/ q.pos # Len(s) /\ r = next
    BY DEF Advance, last, next, s
  <1>5. Len(s) \in Nat /\ r \in States /\ Moved(r, q) /\ Placed(r)
        /\ r.status \in {"running", "done"}
    <2>1. Len(s) \in Nat
      BY <1>1
    <2>2. r.status = "running" => r.pos \in 1 .. Len(s)
      BY <1>1, <1>2, <1>3, <1>4, <2>1
    <2> QED BY <1>1, <1>2, <1>3, <1>4, <2>1, <2>2 DEF Placed, Moved, s
  <1>6. /\ q.pos = Len(s) => r.status = "done"
        /\ q.pos # Len(s) => r.status = "running" /\ r.pos = q.pos + 1
        /\ \A x : At(q, x) <=> s[q.pos] = x
        /\ \A x : At(r, x) <=> r.status = "running" /\ s[r.pos] = x
    BY <1>2, <1>3, <1>4, <1>5 DEF At, Moved, s
  <1> HIDE DEF r
  <1>7. CASE q.cmd.op = "install"
    <2>1. /\ Len(s) = 6 /\ s[1] = "find" /\ s[2] = "ensure" /\ s[3] = "resolve"
          /\ s[4] = "load" /\ s[5] = "cut" /\ s[6] = "fill"
      BY <1>7, StageTable DEF s
    <2> QED BY <1>1, <1>5, <1>6, <1>7, <2>1 DEF After, Editors, Readers, r
  <1>8. CASE q.cmd.op \in {"uninstall", "set", "unset"}
    <2>1. Len(s) = 3 /\ s[1] = "load" /\ s[2] = "cut" /\ s[3] = "fill"
      BY <1>8, StageTable DEF s
    <2> QED BY <1>1, <1>5, <1>6, <1>8, <2>1 DEF After, Editors, Readers, r
  <1>9. CASE q.cmd.op = "add"
    <2>1. Len(s) = 1 /\ s[1] = "ensure"
      BY <1>9, StageTable DEF s
    <2> QED BY <1>1, <1>5, <1>6, <1>9, <2>1 DEF After, Editors, Readers, r
  <1>10. CASE q.cmd.op = "remove"
    <2>1. Len(s) = 4 /\ s[1] = "load" /\ s[2] = "rmtree" /\ s[3] = "cut" /\ s[4] = "fill"
      BY <1>10, StageTable DEF s
    <2> QED BY <1>1, <1>5, <1>6, <1>10, <2>1 DEF After, Editors, Readers, r
  <1>11. CASE q.cmd.op = "fetch"
    <2>1. /\ Len(s) = 4 /\ s[1] = "global" /\ s[2] = "project" /\ s[3] = "resolve"
          /\ s[4] = "print"
      BY <1>11, StageTable DEF s
    <2> QED BY <1>1, <1>5, <1>6, <1>11, <2>1 DEF After, Editors, Readers, r
  <1>12. CASE q.cmd.op = "sync"
    <2>1. /\ Len(s) = 4 /\ s[1] = "global" /\ s[2] = "project" /\ s[3] = "list"
          /\ s[4] = "items"
      BY <1>12, StageTable DEF s
    <2> QED BY <1>1, <1>5, <1>6, <1>12, <2>1 DEF After, Editors, Readers, r
  <1>13. CASE q.cmd.op = "get"
    <2>1. Len(s) = 2 /\ s[1] = "global" /\ s[2] = "project"
      BY <1>13, StageTable DEF s
    <2> QED BY <1>1, <1>5, <1>6, <1>13, <2>1 DEF After, Editors, Readers, r
  <1> QED BY <1>1, <1>7, <1>8, <1>9, <1>10, <1>11, <1>12, <1>13 DEF Op

-----------------------------------------------------------------------------
(* The inductive invariant.                                                 *)

\* The stages at which a process has a copy of its document.
Holding(q) == At(q, "rmtree") \/ At(q, "cut") \/ At(q, "fill")

\* A sync has each listed name in exactly one of its three sets.
Accounts(q) ==
  /\ q.left \cup q.synced \cup q.errors = DOMAIN q.listed
  /\ q.left \cap q.synced = {} /\ (q.left \cup q.synced) \cap q.errors = {}

Local(q) ==
  /\ q \in States /\ Placed(q)
  /\ q.status = "running" => (Holding(q) <=> q.loaded # None)
  /\ Holding(q) => q.loaded \in CopyOf(DocOf(q.cmd))
  /\ (At(q, "load") \/ Holding(q)) /\ q.cmd.op = "install" => q.source \in Source
  /\ At(q, "print") => q.source \in Source
  /\ q.status = "running" /\ ~At(q, "items") =>
       q.listed = None /\ q.entry = None /\ q.synced = {} /\ q.errors = {}
  /\ At(q, "items") =>
       /\ q.listed \in Listing /\ q.left \subseteq Names
       /\ Accounts(q) /\ (q.entry # None => q.left # {})
  /\ q.listed # None => Accounts(q)

Documents(d) == d = [f \in Docs |-> d[f]] /\ \A f \in Docs : d[f] \in CopyOf(f)

Rendering == [source : Source, skills : BOOLEAN, facts : Values]

Typed ==
  /\ Documents(doc) /\ Documents(meant)
  /\ cut \subseteq Docs /\ torn \subseteq Docs /\ clash \subseteq Docs
  /\ dir \in Dirs /\ \A b \in Buckets : dir[b].files \subseteq Upstream[b]
  /\ output \in [Names -> [Kinds -> Rendering \cup {None}]]
  /\ proc \in [Procs -> States] /\ \A i \in Procs : Local(proc[i])
  /\ stale \subseteq Procs /\ disturbed \subseteq Procs

\* The copy is the document; one that is being filled is still cut; and what is to
\* leave the index has left the directories or is about to.
CopyFits(q) == Holding(q) /\ DocOf(q.cmd) \notin clash =>
  /\ q.loaded = doc[DocOf(q.cmd)]
  /\ At(q, "fill") => DocOf(q.cmd) \in cut
  /\ q.cmd.op = "remove" =>
       \A b \in q.cmd.buckets : dir[b].there => At(q, "rmtree") /\ b \in q.left

\* What fetch is about to print answers the request.
FetchFits(q) == At(q, "print") =>
  LET own == {Bare(NameOfSource(q.source)), QualifiedName(q.source), AtPath(q.source.path)}
  IN \/ q.cmd.request \in own
     \/ q.cmd.conf # Exact /\ \E label \in own : Similar(q.cmd.request, label) >= q.cmd.conf
     \/ \E b \in Buckets \ {q.source.bucket} : q.source.path \in Upstream[b]

\* What sync has read is what is there, and what it has done is right.
SyncFits(q) == q.status = "running" /\ q.cmd.op = "sync" =>
  LET registry == Read("registry")
      facts == Merged(Read("global"), Read("project"))
      names == {n \in Names : registry[n] # None}
  IN /\ At(q, "global") => \A k \in Keys : q.facts[k] = None
     /\ At(q, "project") => \A k \in Keys : q.facts[k] = Read("global")[k]
     /\ At(q, "list") => q.facts = facts
     /\ At(q, "items") =>
          /\ Readable("registry") /\ q.facts = facts
          /\ DOMAIN q.listed = names /\ \A n \in names : q.listed[n] = registry[n].kind
          /\ q.synced = {n \in names \ q.left : Available(registry[n])}
          /\ q.entry # None => q.entry = registry[Item(q)]
          /\ ~q.cmd.dry => \A n \in q.synced :
               output[n][registry[n].kind] =
                 Render([bucket |-> registry[n].bucket, path |-> registry[n].path],
                        registry[n].kind, facts)

IInv ==
  /\ Typed
  /\ EditsStayUnlessClash /\ OrphansNeedClash
  /\ \A i \in Procs \ stale : CopyFits(proc[i])
  /\ \A i \in Procs : FetchFits(proc[i])
  /\ \A i \in Procs \ disturbed : SyncFits(proc[i])

LEMMA DocumentsEdit ==
  ASSUME NEW d, Documents(d), NEW f \in Docs, NEW x \in CopyOf(f)
  PROVE  /\ Documents([d EXCEPT ![f] = x]) /\ [d EXCEPT ![f] = x][f] = x
         /\ \A h \in Docs : h # f => [d EXCEPT ![f] = x][h] = d[h]
  BY DEF Documents

\* What a document is, command by command.
LEMMA DocOfIs ==
  ASSUME NEW c \in Commands, c.op \in Editors \cup {"remove"}
  PROVE  /\ DocOf(c) \in Docs
         /\ DocOf(c) = "index" <=> c.op = "remove"
         /\ c.op = "install" => DocOf(c) = "registry"
  BY StackAssumption DEF DocOf, Docs, Editors, SoundCommand

\* A step of process i that becomes q keeps the invariant, if q is as it should be
\* and what it writes is what the others have not yet copied.
LEMMA StepKeeps ==
  ASSUME IInv, NEW i \in Procs, NEW q, Become(i, q), Local(q),
         Documents(doc'), Documents(meant'),
         cut' \subseteq Docs, torn' \subseteq Docs, clash' \subseteq Docs,
         dir' \in Dirs, \A b \in Buckets : dir'[b].files \subseteq Upstream[b],
         output' \in [Names -> [Kinds -> Rendering \cup {None}]],
         clash \subseteq clash', stale \subseteq stale', stale' \subseteq Procs,
         EditsStayUnlessClash', OrphansNeedClash',
         \A f \in Docs \ clash' :
           (doc'[f] = doc[f] /\ (f \in cut => f \in cut')) \/ Holders(i, f) \subseteq stale',
         \/ \A b \in Buckets : dir'[b].there => dir[b].there
         \/ Holders(i, "index") \subseteq stale',
         i \notin stale' => CopyFits(q)', FetchFits(q),
         i \notin disturbed' => SyncFits(q)'
  PROVE  IInv'
  <1>1. /\ proc' = [proc EXCEPT ![i] = q] /\ proc'[i] = q
        /\ \A j \in Procs : j # i => proc'[j] = proc[j]
        /\ q \in States /\ proc' \in [Procs -> States] /\ Typed
    BY DEF Become, Local, IInv, Typed
  <1>2. Typed'
    <2>1. \A j \in Procs : Local(proc'[j])
      BY <1>1 DEF Typed
    <2>2. disturbed' \subseteq Procs
      BY <1>1 DEF Become, Typed, Running
    <2> QED BY <1>1, <2>1, <2>2 DEF Typed
  <1>3. ASSUME NEW j \in Procs, j \notin stale' PROVE CopyFits(proc[j])'
    <2>1. CASE j = i
      BY <1>1, <1>3, <2>1 DEF CopyFits
    <2>2. CASE j # i
      <3> DEFINE r == proc[j]
                 f == DocOf(r.cmd)
      <3> SUFFICES ASSUME Holding(r), f \notin clash'
                   PROVE  /\ r.loaded = doc'[f]
                          /\ At(r, "fill") => f \in cut'
                          /\ r.cmd.op = "remove" =>
                               \A b \in r.cmd.buckets :
                                 dir'[b].there => At(r, "rmtree") /\ b \in r.left
        BY <1>1, <2>2 DEF CopyFits
      <3>1. /\ r.loaded = doc[f]
            /\ At(r, "fill") => f \in cut
            /\ r.cmd.op = "remove" =>
                 \A b \in r.cmd.buckets : dir[b].there => At(r, "rmtree") /\ b \in r.left
        BY <1>3 DEF IInv, CopyFits
      <3>2. /\ r \in States /\ r.status = "running" /\ Placed(r) /\ r.cmd \in Commands
            /\ r.loaded # None
        BY <1>1 DEF Typed, Local, Placed, Holding, At
      <3>3. r.cmd.op \in Editors \cup {"remove"}
        BY <3>2, Advances DEF After, Holding
      <3>4. f \in Docs /\ (f = "index" <=> r.cmd.op = "remove")
        BY <3>2, <3>3, DocOfIs
      <3>5. j \in Holders(i, f)
        BY <2>2, <3>2 DEF Holders, Running
      <3>6. doc'[f] = doc[f] /\ (f \in cut => f \in cut')
        BY <1>3, <3>4, <3>5
      <3>7. r.cmd.op = "remove" =>
              r.cmd.buckets \subseteq Buckets /\ \A b \in Buckets : dir'[b].there => dir[b].there
        BY <1>3, <3>2, <3>4, <3>5, StackAssumption DEF SoundCommand
      <3> QED BY <3>1, <3>6, <3>7
    <2> QED BY <2>1, <2>2
  <1>4. \A j \in Procs : FetchFits(proc'[j])
    BY <1>1 DEF IInv
  <1>5. ASSUME NEW j \in Procs, j \notin disturbed' PROVE SyncFits(proc[j])'
    <2>1. CASE j = i
      BY <1>1, <1>5, <2>1 DEF SyncFits
    <2>2. CASE j # i
      <3>1. proc'[j].status # "running"
        BY <1>1, <1>5, <2>2 DEF Become, Running
      <3> QED BY <3>1 DEF SyncFits, At
    <2> QED BY <2>1, <2>2
  <1> QED BY <1>2, <1>3, <1>4, <1>5 DEF IInv, FetchFits

-----------------------------------------------------------------------------
(* Steps that change no document and no directory.                          *)

\* A step that only moves process i keeps the invariant if q is as it should be.
LEMMA QuietKeeps ==
  ASSUME IInv, NEW i \in Procs, NEW q, Quietly(i, q), Local(q),
         i \notin stale => CopyFits(q), FetchFits(q), i \notin disturbed => SyncFits(q)
  PROVE  IInv'
  <1>1. /\ doc' = doc /\ cut' = cut /\ torn' = torn /\ dir' = dir /\ output' = output
        /\ meant' = meant /\ stale' = stale /\ clash' = clash /\ Become(i, q) /\ Typed
    BY DEF Quietly, shared, IInv
  <1>2. EditsStayUnlessClash' /\ OrphansNeedClash'
    BY <1>1 DEF IInv, EditsStayUnlessClash, OrphansNeedClash, Indexed
  <1>3. i \notin stale' => CopyFits(q)'
    BY <1>1 DEF CopyFits
  <1>4. i \notin disturbed' => SyncFits(q)'
    <2>1. i \notin disturbed' => SyncFits(q)
      BY <1>1 DEF Become
    <2> QED BY <1>1, <2>1 DEF SyncFits, Read, Readable, Available, Cached, Indexed
  <1>5. /\ Documents(doc') /\ Documents(meant') /\ dir' \in Dirs
        /\ \A b \in Buckets : dir'[b].files \subseteq Upstream[b]
        /\ output' \in [Names -> [Kinds -> Rendering \cup {None}]]
        /\ cut' \subseteq Docs /\ torn' \subseteq Docs /\ clash' \subseteq Docs /\ stale' \subseteq Procs
    BY <1>1 DEF Typed
  <1> QED BY <1>1, <1>2, <1>3, <1>4, <1>5, StepKeeps

\* A process that has ended is at no stage.
LEMMA EndedIs ==
  ASSUME NEW q, Local(q), NEW status \in {"done", "failed", "crashed"}
  PROVE  /\ Local(Ended(q, status)) /\ Ended(q, status).status = status
         /\ \A x : ~At(Ended(q, status), x)
  <1> DEFINE r == Ended(q, status)
  <1>1. /\ r \in States /\ r.status = status /\ r.listed = q.listed
        /\ (Accounts(q) => Accounts(r))
    BY DEF Local, States, Ended, Accounts
  <1> HIDE DEF r
  <1>2. \A x : ~At(r, x)
    BY <1>1 DEF At
  <1>3. r.listed # None => Accounts(r)
    BY <1>1 DEF Local
  <1>4. Local(r)
    BY <1>1, <1>2, <1>3 DEF Local, Placed, Holding
  <1> QED BY <1>1, <1>2, <1>4 DEF r

LEMMA EndingFits ==
  ASSUME NEW r, r.status # "running"
  PROVE  CopyFits(r) /\ FetchFits(r) /\ SyncFits(r)
  BY DEF CopyFits, FetchFits, SyncFits, Holding, At

LEMMA EndingKeeps ==
  ASSUME IInv, NEW i \in Procs, NEW status \in {"done", "failed", "crashed"},
         Quietly(i, Ended(proc[i], status))
  PROVE  IInv'
  <1>1. PICK q : q = Ended(proc[i], status)
    OBVIOUS
  <1>2. Local(q) /\ q.status = status
    BY <1>1, EndedIs DEF IInv, Typed
  <1>3. Quietly(i, q)
    BY <1>1
  <1> QED BY <1>2, <1>3, EndingFits, QuietKeeps

\* What a step needs to know of the process that takes it.
LEMMA Taking ==
  ASSUME IInv, NEW i \in Procs, NEW x, In(i, x)
  PROVE  /\ At(proc[i], x) /\ Local(proc[i]) /\ proc[i] \in States /\ Placed(proc[i])
         /\ proc[i].status = "running" /\ proc[i].cmd \in Commands /\ SoundCommand(proc[i].cmd)
         /\ i \in Running
  BY StackAssumption DEF IInv, Typed, Local, In, At, Running, Placed

\* A process goes on to the next stage without having a copy or a listing.
LEMMA GoesOn ==
  ASSUME NEW q \in States, Placed(q), q.status = "running", NEW r, r = Advance(q),
         q.loaded = None, q.listed = None, q.entry = None, q.synced = {}, q.errors = {},
         \E x \in {"find", "ensure", "resolve", "global", "project", "fill", "print"} : At(q, x),
         At(q, "resolve") => q.source \in Source
  PROVE  Local(r) /\ CopyFits(r) /\ After(q, r) /\ Moved(r, q) /\ ~Holding(r)
  <1>1. /\ r \in States /\ Placed(r) /\ After(q, r) /\ Moved(r, q)
        /\ r.status \in {"running", "done"}
    BY Advances
  <1>2. ~Holding(r) /\ ~At(r, "items") /\ (At(r, "load") \/ At(r, "print") => r.source \in Source)
    BY <1>1 DEF After, Moved, At, Holding
  <1> QED BY <1>1, <1>2 DEF Local, Moved, CopyFits

LEMMA IdleIs == Idle \in States
  <1>1. Empty["global"] \in Values
    BY DEF Empty, Docs, Domain, Values
  <1> QED BY <1>1 DEF Idle, States

LEMMA StartKeeps ==
  ASSUME IInv, NEW i \in Procs, Start(i)
  PROVE  IInv'
  <1>1. PICK c \in Commands :
          /\ proc[i].status = "idle"
          /\ Quietly(i, [Idle EXCEPT !.status = "running", !.cmd = c, !.pos = 1])
    BY DEF Start
  <1>2. PICK q : q = [Idle EXCEPT !.status = "running", !.cmd = c, !.pos = 1]
    OBVIOUS
  <1>3. /\ q.status = "running" /\ q.cmd = c /\ q.pos = 1 /\ q.loaded = None /\ q.left = {}
        /\ q.listed = None /\ q.entry = None /\ q.source = None /\ q.synced = {}
        /\ q.errors = {} /\ q.facts = [k \in Keys |-> None]
    BY <1>2 DEF Idle, Empty, Docs, Domain
  <1>4. q \in States
    BY <1>2, IdleIs DEF States
  <1>5. /\ Len(Stages(c)) \in Nat /\ 1 <= Len(Stages(c))
        /\ Stages(c)[1] \in {"find", "load", "ensure", "global"}
        /\ c.op = "install" => Stages(c)[1] # "load"
    <2>1. c.op \in Op
      BY StackAssumption DEF SoundCommand
    <2>2. CASE c.op = "install"
      <3>1. Len(Stages(c)) = 6 /\ Stages(c)[1] = "find"
        BY <2>2, StageTable
      <3> QED BY <2>2, <3>1
    <2>3. CASE c.op \in {"uninstall", "set", "unset"}
      <3>1. Len(Stages(c)) = 3 /\ Stages(c)[1] = "load"
        BY <2>3, StageTable
      <3> QED BY <2>3, <3>1
    <2>4. CASE c.op = "add"
      <3>1. Len(Stages(c)) = 1 /\ Stages(c)[1] = "ensure"
        BY <2>4, StageTable
      <3> QED BY <2>4, <3>1
    <2>5. CASE c.op = "remove"
      <3>1. Len(Stages(c)) = 4 /\ Stages(c)[1] = "load"
        BY <2>5, StageTable
      <3> QED BY <2>5, <3>1
    <2>6. CASE c.op = "fetch"
      <3>1. Len(Stages(c)) = 4 /\ Stages(c)[1] = "global"
        BY <2>6, StageTable
      <3> QED BY <2>6, <3>1
    <2>7. CASE c.op = "sync"
      <3>1. Len(Stages(c)) = 4 /\ Stages(c)[1] = "global"
        BY <2>7, StageTable
      <3> QED BY <2>7, <3>1
    <2>8. CASE c.op = "get"
      <3>1. Len(Stages(c)) = 2 /\ Stages(c)[1] = "global"
        BY <2>8, StageTable
      <3> QED BY <2>8, <3>1
    <2> QED BY <2>1, <2>2, <2>3, <2>4, <2>5, <2>6, <2>7, <2>8 DEF Op
  <1>6. Placed(q)
    BY <1>3, <1>5 DEF Placed
  <1>7. /\ ~At(q, "rmtree") /\ ~At(q, "cut") /\ ~At(q, "fill") /\ ~At(q, "print")
        /\ ~At(q, "items") /\ ~At(q, "project") /\ ~At(q, "list")
        /\ ~(At(q, "load") /\ q.cmd.op = "install")
    BY <1>3, <1>5 DEF At
  <1>8. Local(q) /\ CopyFits(q) /\ FetchFits(q)
    BY <1>3, <1>4, <1>6, <1>7 DEF Local, Holding, CopyFits, FetchFits
  <1>9. SyncFits(q)
    BY <1>3, <1>7 DEF SyncFits
  <1> QED BY <1>1, <1>2, <1>8, <1>9, QuietKeeps

LEMMA FindBucketKeeps ==
  ASSUME IInv, NEW i \in Procs, FindBucket(i)
  PROVE  IInv'
  <1> DEFINE q == proc[i]
  <1>1. At(q, "find") /\ q \in States /\ Placed(q) /\ q.status = "running" /\ Local(q)
    BY Taking DEF FindBucket
  <1>2. /\ q.loaded = None /\ q.listed = None /\ q.entry = None /\ q.synced = {}
        /\ q.errors = {}
    BY <1>1 DEF Local, Holding, At
  <1>3. PICK r : r = Advance(q)
    OBVIOUS
  <1>4. /\ Local(r) /\ CopyFits(r) /\ Moved(r, q) /\ At(r, "ensure") /\ q.cmd.op = "install"
    BY <1>1, <1>2, <1>3, GoesOn DEF After, At
  <1>5. FetchFits(r) /\ SyncFits(r)
    BY <1>4 DEF FetchFits, SyncFits, Moved, At
  <1>6. PICK s : s = Advance(r)
    OBVIOUS
  <1>7. Local(s) /\ CopyFits(s) /\ Moved(s, q) /\ At(s, "resolve")
    <2>1. /\ r \in States /\ Placed(r) /\ r.status = "running" /\ r.loaded = None
          /\ r.listed = None /\ r.entry = None /\ r.synced = {} /\ r.errors = {}
          /\ ~At(r, "resolve")
      BY <1>2, <1>4 DEF Local, Moved, At
    <2>2. Local(s) /\ CopyFits(s) /\ After(r, s) /\ Moved(s, r)
      BY <1>4, <1>6, <2>1, GoesOn
    <2> QED BY <1>4, <2>2 DEF After, Moved
  <1>8. FetchFits(s) /\ SyncFits(s)
    BY <1>4, <1>7 DEF FetchFits, SyncFits, Moved, At
  <1>9. CASE Fails(i)
    BY <1>9, EndingKeeps DEF Fails
  <1>10. CASE Quietly(i, s)
    BY <1>7, <1>8, <1>10, QuietKeeps
  <1>11. CASE Quietly(i, r)
    BY <1>4, <1>5, <1>11, QuietKeeps
  <1> QED BY <1>3, <1>6, <1>9, <1>10, <1>11 DEF FindBucket

LEMMA ReadFactsKeeps ==
  ASSUME IInv, NEW i \in Procs, ReadFacts(i)
  PROVE  IInv'
  <1>1. PICK scope \in {"global", "project"} :
          /\ In(i, scope)
          /\ IF ~Readable(scope) THEN Fails(i)
             ELSE Quietly(i, Advance([proc[i] EXCEPT !.facts = Merged(@, Read(scope))]))
    BY DEF ReadFacts
  <1>2. CASE Fails(i)
    BY <1>2, EndingKeeps DEF Fails
  <1>3. CASE ~Fails(i)
    <2> DEFINE q == proc[i]
               p == [q EXCEPT !.facts = Merged(q.facts, Read(scope))]
    <2>1. /\ At(q, scope) /\ q \in States /\ Placed(q) /\ q.status = "running" /\ Local(q)
          /\ Documents(doc)
      BY <1>1, Taking DEF IInv, Typed
    <2>2. /\ q.loaded = None /\ q.listed = None /\ q.entry = None /\ q.synced = {}
          /\ q.errors = {}
      BY <2>1 DEF Local, Holding, At
    <2>3. Read(scope) \in Values /\ Read("global") \in Values /\ Read("project") \in Values
      BY <2>1 DEF Read, Documents, CopyOf, Docs, Domain, Content, Values, Empty
    <2>4. Merged(q.facts, Read(scope)) \in Values
      BY <2>1, <2>3 DEF Merged, Values, States
    <2>5. /\ p \in States /\ p.status = q.status /\ p.cmd = q.cmd /\ p.pos = q.pos
          /\ p.loaded = q.loaded /\ p.listed = q.listed /\ p.entry = q.entry
          /\ p.synced = q.synced /\ p.errors = q.errors
          /\ p.facts = Merged(q.facts, Read(scope))
      BY <2>1, <2>4 DEF States
    <2> HIDE DEF p
    <2>6. PICK r : r = Advance(p)
      OBVIOUS
    <2>7. Placed(p) /\ p.status = "running" /\ At(p, scope) /\ ~At(p, "resolve")
      BY <2>1, <2>5 DEF Placed, At
    <2>8. /\ Local(r) /\ CopyFits(r) /\ After(p, r) /\ Moved(r, p)
      BY <2>2, <2>5, <2>6, <2>7, GoesOn
    <2>9. FetchFits(r)
      <3>1. ~At(r, "print")
        BY <2>7, <2>8 DEF After, At
      <3> QED BY <3>1 DEF FetchFits
    <2>10. i \notin disturbed => SyncFits(r)
      <3> SUFFICES ASSUME i \notin disturbed, r.cmd.op = "sync"
                   PROVE SyncFits(r)
        BY DEF SyncFits
      <3>1. SyncFits(q) /\ q.cmd.op = "sync"
        BY <2>5, <2>8 DEF IInv, Moved
      <3>2. r.facts = [k \in Keys |-> IF Read(scope)[k] # None THEN Read(scope)[k] ELSE q.facts[k]]
        BY <2>5, <2>8 DEF Merged, Moved
      <3>3. CASE scope = "global"
        <4>1. \A k \in Keys : r.facts[k] = Read("global")[k]
          BY <2>1, <3>1, <3>2, <3>3 DEF SyncFits
        <4>2. At(r, "project")
          BY <2>7, <2>8, <3>3 DEF After
        <4> QED BY <4>1, <4>2 DEF SyncFits, At
      <3>4. CASE scope = "project"
        <4>1. \A k \in Keys : q.facts[k] = Read("global")[k]
          BY <2>1, <3>1, <3>4 DEF SyncFits
        <4>2. r.facts = Merged(Read("global"), Read("project"))
          BY <3>2, <3>4, <4>1 DEF Merged
        <4>3. At(r, "list")
          BY <2>5, <2>7, <2>8, <3>1, <3>4 DEF After
        <4> QED BY <4>2, <4>3 DEF SyncFits, At
      <3> QED BY <3>3, <3>4
    <2>11. Quietly(i, r)
      BY <1>1, <1>3, <2>6 DEF p
    <2> QED BY <2>8, <2>9, <2>10, <2>11, QuietKeeps
  <1> QED BY <1>2, <1>3

\* A label is one of the source's own names, or the path is in another bucket too.
LEMMA LabelIs ==
  ASSUME NEW found \in SUBSET Source, NEW s \in found,
         \A t \in found : t.path \in Upstream[t.bucket]
  PROVE  \/ Label(s, found) \in {Bare(NameOfSource(s)), QualifiedName(s), AtPath(s.path)}
         \/ \E b \in Buckets \ {s.bucket} : s.path \in Upstream[b]
  <1> DEFINE same == {t \in found : t.path = s.path}
             T == {t.bucket : t \in same}
             last == CHOOSE t \in found :
                       /\ t.path = s.path
                       /\ \A u \in found :
                            u.path = s.path => FolderOrder[u.bucket] <= FolderOrder[t.bucket]
  <1>1. T \in SUBSET Buckets /\ T # {}
    BY DEF Source
  <1>2. IsFiniteSet(T) /\ FolderOrder \in [Buckets -> Nat]
    BY <1>1, SourcesAssumption, FS_Subset
  <1> HIDE DEF T
  <1>3. PICK x \in T : \A y \in T : FolderOrder[y] <= FolderOrder[x]
    BY <1>1, <1>2, Greatest
  <1>4. \E t \in found : /\ t.path = s.path
                         /\ \A u \in found :
                              u.path = s.path => FolderOrder[u.bucket] <= FolderOrder[t.bucket]
    <2>1. \A u \in same : u.bucket \in T
      BY DEF T
    <2>2. PICK t \in same : x = t.bucket
      BY DEF T
    <2> QED BY <1>3, <2>1, <2>2
  <1>5. last \in found /\ last.path = s.path
    BY <1>4
  <1> HIDE DEF last
  <1>6. Label(s, found) = Bare(NameOfSource(s)) \/ Label(s, found) = QualifiedName(last)
    BY DEF Label, last
  <1>7. CASE last.bucket = s.bucket
    BY <1>5, <1>6, <1>7 DEF QualifiedName, NameOfSource
  <1>8. CASE last.bucket # s.bucket
    BY <1>5, <1>8 DEF Source
  <1> QED BY <1>7, <1>8

\* So what a request resolves to answers it.
LEMMA ResolvedFits ==
  ASSUME NEW found \in SUBSET Source, \A t \in found : t.path \in Upstream[t.bucket],
         NEW request, NEW conf, NEW s \in Resolve(request, found, conf)
  PROVE  LET own == {Bare(NameOfSource(s)), QualifiedName(s), AtPath(s.path)}
         IN \/ request \in own
            \/ conf # Exact /\ \E label \in own : Similar(request, label) >= conf
            \/ \E b \in Buckets \ {s.bucket} : s.path \in Upstream[b]
  <1>1. /\ s \in found
        /\ \/ request \in {Bare(NameOfSource(s)), QualifiedName(s), AtPath(s.path)}
           \/ request = Label(s, found)
           \/ conf # Exact /\ Similar(request, Label(s, found)) >= conf
    BY DEF Resolve, ExactMatches, BestMatches
  <1>2. \/ Label(s, found) \in {Bare(NameOfSource(s)), QualifiedName(s), AtPath(s.path)}
        \/ \E b \in Buckets \ {s.bucket} : s.path \in Upstream[b]
    BY <1>1, LabelIs
  <1> QED BY <1>1, <1>2

LEMMA ResolveSourceKeeps ==
  ASSUME IInv, NEW i \in Procs, ResolveSource(i)
  PROVE  IInv'
  <1> DEFINE q == proc[i]
             found == IF ~Readable("index") THEN {}
                      ELSE Resolve(q.cmd.request, Wanted(q.cmd), q.cmd.conf)
  <1>1. /\ At(q, "resolve") /\ q \in States /\ Placed(q) /\ q.status = "running" /\ Local(q)
        /\ Typed
    BY Taking DEF ResolveSource, IInv
  <1>2. CASE Fails(i)
    BY <1>2, EndingKeeps DEF Fails
  <1>3. ASSUME NEW s \in found, Quietly(i, Advance([q EXCEPT !.source = s]))
        PROVE  IInv'
    <2>1. s \in Resolve(q.cmd.request, Wanted(q.cmd), q.cmd.conf)
      OBVIOUS
    <2>2. Candidates \in SUBSET Source /\ \A t \in Candidates : t.path \in Upstream[t.bucket]
      <3>1. ASSUME NEW t \in Candidates PROVE t \in Source /\ t.path \in dir[t.bucket].files
        BY DEF Candidates, Discovered, Source
      <3>2. \A t \in Candidates : t.bucket \in Buckets
        BY <3>1 DEF Source
      <3> QED BY <1>1, <3>1, <3>2 DEF Typed
    <2>3. s \in Candidates /\ s \in Source
      BY <2>1, <2>2 DEF Resolve, ExactMatches, BestMatches, Wanted
    <2>4. PICK p : p = [q EXCEPT !.source = s]
      OBVIOUS
    <2>5. /\ p \in States /\ p.status = q.status /\ p.cmd = q.cmd /\ p.pos = q.pos
          /\ p.loaded = q.loaded /\ p.listed = q.listed /\ p.entry = q.entry
          /\ p.synced = q.synced /\ p.errors = q.errors /\ p.source = s
      BY <1>1, <2>3, <2>4 DEF States
    <2>6. /\ q.loaded = None /\ q.listed = None /\ q.entry = None /\ q.synced = {}
          /\ q.errors = {}
      BY <1>1 DEF Local, Holding, At
    <2>7. PICK r : r = Advance(p)
      OBVIOUS
    <2>8. Placed(p) /\ p.status = "running" /\ At(p, "resolve")
      BY <1>1, <2>5 DEF Placed, At
    <2>9. /\ Local(r) /\ CopyFits(r) /\ After(p, r) /\ Moved(r, p)
      BY <2>3, <2>5, <2>6, <2>7, <2>8, GoesOn
    <2>10. FetchFits(r)
      <3> SUFFICES ASSUME At(r, "print") PROVE FetchFits(r)
        BY DEF FetchFits
      <3>1. q.cmd.op = "fetch"
        BY <2>5, <2>8, <2>9 DEF After, At
      <3>2. r.source = s /\ r.cmd = q.cmd
        BY <2>5, <2>9 DEF Moved
      <3>3. s \in Resolve(q.cmd.request, Candidates, q.cmd.conf)
        BY <2>1, <3>1 DEF Wanted
      <3> QED BY <2>2, <3>2, <3>3, ResolvedFits DEF FetchFits
    <2>11. SyncFits(r)
      BY <2>8, <2>9 DEF SyncFits, After, Moved, At
    <2>12. Quietly(i, r)
      BY <1>3, <2>4, <2>7
    <2> QED BY <2>9, <2>10, <2>11, <2>12, QuietKeeps
  <1> QED BY <1>2, <1>3 DEF ResolveSource

LEMMA PrintSourceKeeps ==
  ASSUME IInv, NEW i \in Procs, PrintSource(i)
  PROVE  IInv'
  <1> DEFINE q == proc[i]
  <1>1. At(q, "print") /\ q \in States /\ Placed(q) /\ q.status = "running" /\ Local(q)
    BY Taking DEF PrintSource
  <1>2. /\ q.loaded = None /\ q.listed = None /\ q.entry = None /\ q.synced = {}
        /\ q.errors = {} /\ ~At(q, "resolve")
    BY <1>1 DEF Local, Holding, At
  <1>3. PICK r : r = Advance(q)
    OBVIOUS
  <1>4. Local(r) /\ r.status = "done"
    BY <1>1, <1>2, <1>3, GoesOn DEF After
  <1>5. CASE Fails(i)
    BY <1>5, EndingKeeps DEF Fails
  <1>6. CASE Quietly(i, r)
    BY <1>4, <1>6, EndingFits, QuietKeeps
  <1> QED BY <1>3, <1>5, <1>6 DEF PrintSource

-----------------------------------------------------------------------------
(* sync.                                                                    *)

LEMMA ReadIs ==
  ASSUME Typed, NEW f \in Docs
  PROVE  Read(f) \in CopyOf(f)
  <1>1. Empty[f] \in CopyOf(f)
    BY DEF Empty, CopyOf
  <1>2. doc[f] \in CopyOf(f)
    BY DEF Typed, Documents
  <1> QED BY <1>1, <1>2 DEF Read

LEMMA ListItemsKeeps ==
  ASSUME IInv, NEW i \in Procs, ListItems(i)
  PROVE  IInv'
  <1> DEFINE q == proc[i]
             registry == Read("registry")
             names == {n \in Names : registry[n] # None}
             listed == [n \in names |-> registry[n].kind]
  <1>1. /\ At(q, "list") /\ q \in States /\ Placed(q) /\ q.status = "running" /\ Local(q)
        /\ Typed
    BY Taking DEF ListItems, IInv
  <1>2. CASE Fails(i)
    BY <1>2, EndingKeeps DEF Fails
  <1>3. ASSUME Readable("registry"),
               Quietly(i, Advance([q EXCEPT !.left = names, !.listed = listed]))
        PROVE  IInv'
    <2>1. registry \in [Names -> Entry \cup {None}]
      BY <1>1, ReadIs DEF CopyOf, Docs, Domain, Content
    <2>2. listed \in Listing /\ DOMAIN listed = names
      <3>1. \A n \in names : registry[n].kind \in Kinds
        BY <2>1 DEF Entry
      <3>2. listed \in [names -> Kinds] /\ names \in SUBSET Names
        BY <3>1
      <3> HIDE DEF names, listed
      <3> QED BY <3>2 DEF Listing
    <2>3. PICK p : p = [q EXCEPT !.left = names, !.listed = listed]
      OBVIOUS
    <2>4. /\ p.status = q.status /\ p.cmd = q.cmd /\ p.pos = q.pos
          /\ p.loaded = q.loaded /\ p.entry = q.entry /\ p.source = q.source
          /\ p.synced = q.synced /\ p.errors = q.errors /\ p.facts = q.facts
          /\ p.left = names /\ p.listed = listed
      <3> HIDE DEF names, listed
      <3> QED BY <1>1, <2>3 DEF States
    <2>5. p \in States
      <3> HIDE DEF names, listed
      <3>1. names \in SUBSET (Buckets \cup Names)
        BY DEF names
      <3> QED BY <1>1, <2>2, <2>3, <3>1 DEF States
    <2>6. /\ q.loaded = None /\ q.entry = None /\ q.synced = {} /\ q.errors = {}
      BY <1>1 DEF Local, Holding, At
    <2>7. PICK r : r = Advance(p)
      OBVIOUS
    <2>8. Placed(p) /\ p.status = "running" /\ At(p, "list")
      BY <1>1, <2>4 DEF Placed, At
    <2>9. /\ r \in States /\ Placed(r) /\ At(r, "items") /\ r.cmd.op = "sync" /\ Moved(r, p)
      BY <2>5, <2>7, <2>8, Advances DEF After, Moved
    <2>10. /\ r.loaded = None /\ r.entry = None /\ r.synced = {} /\ r.errors = {}
           /\ r.left = names /\ r.listed = listed /\ r.facts = q.facts /\ r.cmd = q.cmd
      BY <2>4, <2>6, <2>9 DEF Moved
    <2>11. Local(r) /\ CopyFits(r) /\ FetchFits(r)
      <3>1. Accounts(r)
        BY <2>2, <2>10 DEF Accounts
      <3>2. \A x : At(r, x) => x = "items"
        BY <2>9 DEF At
      <3> HIDE DEF names, listed
      <3>3. names \subseteq Names
        BY DEF names
      <3> QED BY <2>2, <2>9, <2>10, <3>1, <3>2, <3>3 DEF Local, Holding, CopyFits, FetchFits
    <2>12. i \notin disturbed => SyncFits(r)
      <3> SUFFICES ASSUME i \notin disturbed PROVE SyncFits(r)
        OBVIOUS
      <3>1. q.facts = Merged(Read("global"), Read("project"))
        BY <1>1, <2>9, <2>10 DEF IInv, SyncFits
      <3>2. ~At(r, "global") /\ ~At(r, "project") /\ ~At(r, "list")
        BY <2>9 DEF At
      <3>3. \A n \in names : listed[n] = registry[n].kind
        OBVIOUS
      <3> QED BY <1>3, <2>2, <2>9, <2>10, <3>1, <3>2, <3>3 DEF SyncFits
    <2>13. Quietly(i, r)
      BY <1>3, <2>3, <2>7
    <2> QED BY <2>11, <2>12, <2>13, QuietKeeps
  <1> QED BY <1>2, <1>3 DEF ListItems

\* The item that comes next is one that is left.
LEMMA ItemIs ==
  ASSUME NEW q, q.left \subseteq Names, q.left # {}
  PROVE  Item(q) \in q.left
  <1>1. NameOrder \in [Names -> Nat]
    BY StackAssumption
  <1>2. \E n \in q.left : \A m \in q.left : NameOrder[n] <= NameOrder[m]
    BY <1>1, Least
  <1> QED BY <1>2 DEF Item

\* What is left, synced and wrong of an item that is done.
LEMMA AccountsStep ==
  ASSUME NEW q, Accounts(q), NEW n \in q.left, NEW r, r.listed = q.listed, r.left = q.left \ {n},
         \/ r.synced = q.synced \cup {n} /\ r.errors = q.errors
         \/ r.synced = q.synced /\ r.errors = q.errors \cup {n}
  PROVE  Accounts(r)
  BY DEF Accounts

LEMMA GetItemKeeps ==
  ASSUME IInv, NEW i \in Procs, GetItem(i)
  PROVE  IInv'
  <1> DEFINE q == proc[i]
             n == Item(q)
             entry == Read("registry")[n]
  <1>1. /\ At(q, "items") /\ q \in States /\ Placed(q) /\ q.status = "running" /\ Local(q)
        /\ Typed /\ q.left # {} /\ q.entry = None /\ q.loaded = None
    BY Taking DEF GetItem, IInv, Local, Holding, At
  <1>2. /\ q.left \subseteq Names /\ Accounts(q) /\ q.listed \in Listing /\ n \in q.left
        /\ n \in Names
    BY <1>1, ItemIs DEF Local
  <1>3. Read("registry") \in [Names -> Entry \cup {None}]
    BY <1>1, ReadIs DEF CopyOf, Docs, Domain, Content
  <1>4. CASE Readable("registry") /\ entry # None
    <2>1. PICK r : r = [q EXCEPT !.entry = entry]
      OBVIOUS
    <2>2. /\ r.status = q.status /\ r.cmd = q.cmd /\ r.pos = q.pos /\ r.left = q.left
          /\ r.loaded = q.loaded /\ r.source = q.source /\ r.listed = q.listed
          /\ r.synced = q.synced /\ r.errors = q.errors /\ r.facts = q.facts /\ r.entry = entry
      BY <1>1, <2>1 DEF States
    <2>3. r \in States
      <3>1. entry \in Entry
        BY <1>2, <1>3, <1>4
      <3> QED BY <1>1, <2>1, <3>1 DEF States
    <2>4. Placed(r) /\ \A x : At(r, x) <=> x = "items"
      BY <1>1, <2>2 DEF Placed, At
    <2>5. Local(r) /\ CopyFits(r) /\ FetchFits(r)
      BY <1>1, <1>2, <2>2, <2>3, <2>4 DEF Local, Holding, CopyFits, FetchFits, Accounts
    <2>6. i \notin disturbed => SyncFits(r)
      <3>1. Item(r) = n
        BY <2>2 DEF Item
      <3>2. SyncFits(q) => SyncFits(r)
        BY <1>1, <2>2, <2>4, <3>1 DEF SyncFits
      <3> QED BY <3>2 DEF IInv
    <2>7. Quietly(i, r)
      BY <1>4, <2>1 DEF GetItem
    <2> QED BY <2>5, <2>6, <2>7, QuietKeeps
  <1>5. CASE ~(Readable("registry") /\ entry # None)
    <2>1. PICK r : r = [q EXCEPT !.errors = q.errors \cup {n}, !.left = q.left \ {n}]
      OBVIOUS
    <2>2. /\ r.status = q.status /\ r.cmd = q.cmd /\ r.pos = q.pos /\ r.left = q.left \ {n}
          /\ r.loaded = q.loaded /\ r.source = q.source /\ r.listed = q.listed
          /\ r.synced = q.synced /\ r.errors = q.errors \cup {n} /\ r.facts = q.facts
          /\ r.entry = None
      BY <1>1, <2>1 DEF States
    <2>3. r \in States
      <3>1. q.errors \cup {n} \in SUBSET Names /\ q.left \ {n} \in SUBSET (Buckets \cup Names)
        BY <1>1, <1>2 DEF States
      <3> QED BY <1>1, <2>1, <3>1 DEF States
    <2>4. Placed(r) /\ \A x : At(r, x) <=> x = "items"
      BY <1>1, <2>2 DEF Placed, At
    <2>5. Accounts(r)
      BY <1>2, <2>2, AccountsStep
    <2>6. Local(r) /\ CopyFits(r) /\ FetchFits(r)
      BY <1>1, <1>2, <2>2, <2>3, <2>4, <2>5 DEF Local, Holding, CopyFits, FetchFits
    <2>7. i \notin disturbed => SyncFits(r)
      <3> SUFFICES ASSUME i \notin disturbed, q.cmd.op = "sync" PROVE FALSE
        BY <2>2 DEF SyncFits
      <3>1. /\ Readable("registry")
            /\ DOMAIN q.listed = {m \in Names : Read("registry")[m] # None}
        BY <1>1 DEF IInv, SyncFits
      <3> QED BY <1>2, <1>5, <3>1 DEF Accounts
    <2>8. Quietly(i, r)
      BY <1>5, <2>1 DEF GetItem
    <2> QED BY <2>6, <2>7, <2>8, QuietKeeps
  <1> QED BY <1>4, <1>5

LEMMA EndSyncKeeps ==
  ASSUME IInv, NEW i \in Procs, EndSync(i)
  PROVE  IInv'
  <1> DEFINE q == proc[i]
  <1>1. /\ At(q, "items") /\ q \in States /\ Placed(q) /\ q.status = "running" /\ Local(q)
        /\ Accounts(q) /\ Quietly(i, Advance(q))
    BY Taking DEF EndSync, Local
  <1>2. PICK r : r = Advance(q)
    OBVIOUS
  <1>3. r \in States /\ Placed(r) /\ r.status = "done" /\ Moved(r, q)
    BY <1>1, <1>2, Advances DEF After
  <1>4. Local(r)
    BY <1>1, <1>3 DEF Local, Holding, At, Moved, Accounts
  <1> QED BY <1>1, <1>2, <1>3, <1>4, EndingFits, QuietKeeps

\* The process after an item, written or not.
LEMMA ItemDone ==
  ASSUME IInv, NEW i \in Procs, SyncItem(i), NEW r,
         \/ r = [proc[i] EXCEPT !.left = @ \ {Item(proc[i])}, !.entry = None,
                                !.synced = @ \cup {Item(proc[i])}]
         \/ r = [proc[i] EXCEPT !.left = @ \ {Item(proc[i])}, !.entry = None,
                                !.errors = @ \cup {Item(proc[i])}]
  PROVE  /\ Local(r) /\ CopyFits(r) /\ FetchFits(r) /\ CopyFits(r)'
         /\ r.left = proc[i].left \ {Item(proc[i])} /\ r.entry = None
         /\ r.listed = proc[i].listed /\ r.facts = proc[i].facts /\ r.cmd = proc[i].cmd
         /\ r.status = "running" /\ \A x : At(r, x) <=> x = "items"
  <1> DEFINE q == proc[i]
             n == Item(q)
  <1>1. /\ At(q, "items") /\ q \in States /\ Placed(q) /\ q.status = "running" /\ Local(q)
        /\ q.entry # None /\ q.loaded = None
    BY Taking DEF SyncItem, IInv, Local, Holding, At
  <1>2. /\ q.left \subseteq Names /\ Accounts(q) /\ q.listed \in Listing /\ n \in q.left
        /\ n \in Names
    BY <1>1, ItemIs DEF Local
  <1>3. /\ r.status = q.status /\ r.cmd = q.cmd /\ r.pos = q.pos /\ r.left = q.left \ {n}
        /\ r.loaded = q.loaded /\ r.source = q.source /\ r.listed = q.listed
        /\ r.facts = q.facts /\ r.entry = None
        /\ \/ r.synced = q.synced \cup {n} /\ r.errors = q.errors
           \/ r.synced = q.synced /\ r.errors = q.errors \cup {n}
    BY <1>1 DEF States
  <1>4. r \in States
    <2>1. q.synced \cup {n} \in SUBSET Names /\ q.errors \cup {n} \in SUBSET Names
      BY <1>1, <1>2 DEF States
    <2>2. q.left \ {n} \in SUBSET (Buckets \cup Names)
      BY <1>1 DEF States
    <2>3. PICK synced \in SUBSET Names, errors \in SUBSET Names, left \in SUBSET (Buckets \cup Names) :
            \/ r = [q EXCEPT !.left = left, !.entry = None, !.synced = synced]
            \/ r = [q EXCEPT !.left = left, !.entry = None, !.errors = errors]
      BY <2>1, <2>2
    <2>4. CASE r = [q EXCEPT !.left = left, !.entry = None, !.synced = synced]
      BY <1>1, <2>4 DEF States
    <2>5. CASE r = [q EXCEPT !.left = left, !.entry = None, !.errors = errors]
      BY <1>1, <2>5 DEF States
    <2> QED BY <2>3, <2>4, <2>5
  <1>5. Placed(r) /\ \A x : At(r, x) <=> x = "items"
    BY <1>1, <1>3 DEF Placed, At
  <1>6. Accounts(r)
    BY <1>2, <1>3, AccountsStep
  <1> QED
    BY <1>1, <1>2, <1>3, <1>4, <1>5, <1>6 DEF Local, Holding, CopyFits, FetchFits

LEMMA SyncItemKeeps ==
  ASSUME IInv, NEW i \in Procs, SyncItem(i)
  PROVE  IInv'
  <1> DEFINE q == proc[i]
             n == Item(q)
             kind == q.listed[n]
             registry == Read("registry")
             facts == Merged(Read("global"), Read("project"))
             names == {m \in Names : registry[m] # None}
             Written(e, k) == Render([bucket |-> e.bucket, path |-> e.path], k, facts)
  <1>1. /\ At(q, "items") /\ q \in States /\ Placed(q) /\ q.status = "running" /\ Local(q)
        /\ q.entry # None /\ q.entry \in Entry /\ Typed
    BY Taking DEF SyncItem, IInv, States
  <1>2. /\ q.left \subseteq Names /\ Accounts(q) /\ q.listed \in Listing /\ n \in q.left
        /\ n \in Names /\ kind \in Kinds
    <2>1. q.left \subseteq Names /\ Accounts(q) /\ q.listed \in Listing /\ n \in q.left
      BY <1>1, ItemIs DEF Local
    <2>2. n \in DOMAIN q.listed
      BY <2>1 DEF Accounts
    <2> QED BY <2>1, <2>2 DEF Listing
  \* What a sync that is alone knows of the item.
  <1>3. ASSUME i \notin disturbed, q.cmd.op = "sync"
        PROVE  /\ Readable("registry") /\ q.facts = facts /\ DOMAIN q.listed = names
               /\ \A m \in names : q.listed[m] = registry[m].kind
               /\ q.synced = {m \in names \ q.left : Available(registry[m])}
               /\ q.entry = registry[n] /\ n \in names
               /\ ~q.cmd.dry => \A m \in q.synced :
                    output[m][registry[m].kind] = Written(registry[m], registry[m].kind)
    <2>1. SyncFits(q)
      BY <1>3 DEF IInv
    <2> QED BY <1>1, <1>2, <1>3, <2>1 DEF SyncFits, Accounts
  <1>4. CASE ~Available(q.entry)
    <2>1. PICK r : r = [q EXCEPT !.left = @ \ {n}, !.entry = None, !.errors = @ \cup {n}]
      OBVIOUS
    <2>2. r = [[q EXCEPT !.left = @ \ {n}, !.entry = None] EXCEPT !.errors = @ \cup {n}]
      BY <1>1, <2>1 DEF States
    <2>3. Quietly(i, r)
      BY <1>4, <2>2, <1>1 DEF SyncItem, States
    <2>4. /\ Local(r) /\ CopyFits(r) /\ FetchFits(r)
          /\ r.left = q.left \ {n} /\ r.entry = None
          /\ r.listed = q.listed /\ r.facts = q.facts /\ r.cmd = q.cmd
          /\ r.status = "running" /\ \A x : At(r, x) <=> x = "items"
      BY <2>1, ItemDone
    <2>41. r.synced = q.synced
      BY <1>1, <2>1 DEF States
    <2>5. i \notin disturbed => SyncFits(r)
      <3> SUFFICES ASSUME i \notin disturbed, q.cmd.op = "sync" PROVE SyncFits(r)
        BY <2>4 DEF SyncFits
      <3>1. q.synced = {m \in names \ r.left : Available(registry[m])}
        BY <1>3, <1>4, <2>4, <2>41
      <3> QED BY <1>3, <2>4, <2>41, <3>1 DEF SyncFits
    <2> QED BY <2>3, <2>4, <2>5, QuietKeeps
  <1>5. CASE Available(q.entry)
    <2>1. PICK r : r = [q EXCEPT !.left = @ \ {n}, !.entry = None, !.synced = @ \cup {n}]
      OBVIOUS
    <2>2. r = [[q EXCEPT !.left = @ \ {n}, !.entry = None] EXCEPT !.synced = @ \cup {n}]
      BY <1>1, <2>1 DEF States
    <2>3. /\ output' = IF q.cmd.dry THEN output
               ELSE [output EXCEPT ![n][kind] =
                       Render([bucket |-> q.entry.bucket, path |-> q.entry.path], kind, q.facts)]
          /\ Become(i, r)
          /\ UNCHANGED <<doc, cut, torn, dir, meant, stale, clash>>
      BY <1>5, <2>2 DEF SyncItem
    <2>4. /\ Local(r) /\ CopyFits(r)' /\ FetchFits(r)
          /\ r.left = q.left \ {n} /\ r.entry = None
          /\ r.listed = q.listed /\ r.facts = q.facts /\ r.cmd = q.cmd
          /\ r.status = "running" /\ \A x : At(r, x) <=> x = "items"
      BY <2>1, ItemDone
    <2>41. r.synced = q.synced \cup {n}
      BY <1>1, <2>1 DEF States
    <2>5. PICK w : w = Render([bucket |-> q.entry.bucket, path |-> q.entry.path], kind, q.facts)
      OBVIOUS
    <2>6. w \in Rendering
      BY <1>1, <2>5 DEF Render, Rendering, States, Entry, Source
    <2>7. output' \in [Names -> [Kinds -> Rendering \cup {None}]]
      <3>1. output \in [Names -> [Kinds -> Rendering \cup {None}]]
        BY <1>1 DEF Typed
      <3>2. [output EXCEPT ![n][kind] = w] \in [Names -> [Kinds -> Rendering \cup {None}]]
        BY <1>2, <2>6, <3>1
      <3> QED BY <2>3, <2>5, <3>1, <3>2
    <2>8. /\ ~q.cmd.dry => output'[n][kind] = w
          /\ \A m \in Names \ {n} : output'[m] = output[m]
      <3>1. output \in [Names -> [Kinds -> Rendering \cup {None}]]
        BY <1>1 DEF Typed
      <3>2. \/ output' = [output EXCEPT ![n][kind] = w]
            \/ q.cmd.dry /\ output' = output
        BY <2>3, <2>5
      <3> QED BY <1>2, <3>1, <3>2
    <2>9. i \notin disturbed' => SyncFits(r)'
      <3> SUFFICES ASSUME i \notin disturbed, q.cmd.op = "sync" PROVE SyncFits(r)'
        BY <2>3, <2>4 DEF SyncFits, Become
      <3>1. r.synced = {m \in names \ r.left : Available(registry[m])}
        BY <1>2, <1>3, <1>5, <2>4, <2>41
      <3>2. ~q.cmd.dry => \A m \in r.synced :
              output'[m][registry[m].kind] = Written(registry[m], registry[m].kind)
        <4> SUFFICES ASSUME ~q.cmd.dry, NEW m \in r.synced
                     PROVE output'[m][registry[m].kind] = Written(registry[m], registry[m].kind)
          OBVIOUS
        <4>1. CASE m = n
          BY <1>3, <2>5, <2>8, <4>1
        <4>2. CASE m # n
          <5>1. m \in q.synced /\ m \in Names
            BY <1>1, <2>41, <4>2 DEF States
          <5> QED BY <1>3, <2>8, <4>2, <5>1
        <4> QED BY <4>1, <4>2
      <3>3. /\ Read("registry")' = registry /\ Readable("registry")' = Readable("registry")
            /\ Merged(Read("global"), Read("project"))' = facts
            /\ \A e : Available(e)' = Available(e)
        BY <2>3 DEF Read, Readable, Available, Cached, Indexed, Merged
      <3>4. ~At(r, "global") /\ ~At(r, "project") /\ ~At(r, "list")
        BY <2>4
      <3> QED BY <1>3, <2>4, <3>1, <3>2, <3>3, <3>4 DEF SyncFits
    <2>10. EditsStayUnlessClash' /\ OrphansNeedClash'
      BY <2>3 DEF IInv, EditsStayUnlessClash, OrphansNeedClash, Indexed
    <2> QED BY <1>1, <2>3, <2>4, <2>7, <2>9, <2>10, StepKeeps DEF Typed
  <1> QED BY <1>4, <1>5

-----------------------------------------------------------------------------
(* Steps that write.                                                        *)

\* The document of a process at one of the stages that rewrite it.
LEMMA RewritesIs ==
  ASSUME IInv, NEW i \in Procs, NEW x \in {"load", "rmtree", "cut", "fill"}, In(i, x)
  PROVE  /\ proc[i].cmd.op \in Editors \cup {"remove"} /\ DocOf(proc[i].cmd) \in Docs
         /\ DocOf(proc[i].cmd) = "index" <=> proc[i].cmd.op = "remove"
         /\ proc[i].cmd.op = "install" => DocOf(proc[i].cmd) = "registry"
         /\ x = "rmtree" => proc[i].cmd.op = "remove"
         /\ proc[i].listed = None /\ proc[i].entry = None
         /\ proc[i].synced = {} /\ proc[i].errors = {}
  <1> DEFINE q == proc[i]
  <1>1. /\ At(q, x) /\ q \in States /\ Placed(q) /\ q.status = "running" /\ Local(q)
        /\ q.cmd \in Commands
    BY Taking
  <1>2. q.cmd.op \in Editors \cup {"remove"} /\ (x = "rmtree" => q.cmd.op = "remove")
    BY <1>1, Advances DEF After
  <1>3. q.listed = None /\ q.entry = None /\ q.synced = {} /\ q.errors = {}
    <2>1. ~At(q, "items")
      BY <1>1 DEF At
    <2> QED BY <1>1, <2>1 DEF Local
  <1> QED BY <1>1, <1>2, <1>3, DocOfIs

LEMMA CrashKeeps ==
  ASSUME IInv, NEW i \in Procs, Crash(i)
  PROVE  IInv'
  <1>1. PICK q : q = Ended(proc[i], "crashed")
    OBVIOUS
  <1>2. /\ UNCHANGED <<doc, cut, torn, dir, output, meant, stale>> /\ Become(i, q) /\ Typed
    BY <1>1 DEF Crash, shared, IInv
  <1>3. clash \subseteq clash' /\ clash' \subseteq Docs
    <2>1. CASE In(i, "fill")
      <3>1. clash' = clash \cup {DocOf(proc[i].cmd)} /\ DocOf(proc[i].cmd) \in Docs
        BY <2>1, RewritesIs DEF Crash
      <3> QED BY <1>2, <3>1 DEF Typed
    <2>2. CASE ~In(i, "fill")
      BY <1>2, <2>2 DEF Crash, Typed
    <2> QED BY <2>1, <2>2
  <1>4. Local(q) /\ q.status = "crashed"
    BY <1>1, <1>2, EndedIs DEF Typed
  <1>5. CopyFits(q)' /\ FetchFits(q) /\ SyncFits(q)'
    BY <1>4 DEF CopyFits, FetchFits, SyncFits, Holding, At
  <1>6. EditsStayUnlessClash' /\ OrphansNeedClash'
    BY <1>2, <1>3 DEF IInv, EditsStayUnlessClash, OrphansNeedClash, Indexed
  <1> QED BY <1>2, <1>3, <1>4, <1>5, <1>6, StepKeeps DEF Typed

LEMMA EnsureKeeps ==
  ASSUME IInv, NEW i \in Procs, Ensure(i)
  PROVE  IInv'
  <1> DEFINE q == proc[i]
  <1>1. /\ At(q, "ensure") /\ q \in States /\ Placed(q) /\ q.status = "running" /\ Local(q)
        /\ q.cmd \in Commands /\ SoundCommand(q.cmd) /\ Typed
    BY Taking DEF Ensure, IInv
  <1>2. CASE Fails(i)
    BY <1>2, EndingKeeps DEF Fails
  <1>3. ASSUME NEW b \in q.cmd.buckets,
               dir' = [dir EXCEPT ![b] = [there |-> TRUE, files |-> Upstream[b]]],
               doc' = [doc EXCEPT !["index"][b] = "cached"],
               meant' = [meant EXCEPT !["index"][b] = "cached"],
               stale' = stale \cup Holders(i, "index"),
               Become(i, Advance(q)), UNCHANGED <<cut, torn, output, clash>>
        PROVE  IInv'
    <2>1. PICK r : r = Advance(q)
      OBVIOUS
    <2>2. /\ q.loaded = None /\ q.listed = None /\ q.entry = None /\ q.synced = {}
          /\ q.errors = {} /\ ~At(q, "resolve")
      BY <1>1 DEF Local, Holding, At
    <2>3. /\ Local(r) /\ After(q, r) /\ Moved(r, q) /\ ~Holding(r)
      BY <1>1, <2>1, <2>2, GoesOn
    <2>4. q.cmd.op \in {"install", "add"} /\ ~At(r, "print")
      BY <1>1, <2>3 DEF After, At
    <2>5. b \in Buckets
      BY <1>1, <1>3, <2>4 DEF SoundCommand
    <2>6. /\ doc["index"] \in [Buckets -> {"cached", None}]
          /\ meant["index"] \in [Buckets -> {"cached", None}]
          /\ Documents(doc) /\ Documents(meant)
      BY <1>1 DEF Typed, Documents, CopyOf, Docs, Domain, Content
    <2>7. PICK x, y : /\ x = [doc["index"] EXCEPT ![b] = "cached"]
                      /\ y = [meant["index"] EXCEPT ![b] = "cached"]
      OBVIOUS
    <2>8. /\ doc' = [doc EXCEPT !["index"] = x] /\ meant' = [meant EXCEPT !["index"] = y]
      BY <1>3, <2>7
    <2>9. /\ x \in CopyOf("index") /\ y \in CopyOf("index") /\ "index" \in Docs
          /\ x[b] = "cached" /\ \A a \in Buckets \ {b} : x[a] = doc["index"][a]
      BY <2>5, <2>6, <2>7 DEF CopyOf, Docs, Domain, Content
    <2>10. /\ Documents(doc') /\ doc'["index"] = x
           /\ Documents(meant') /\ meant'["index"] = y
           /\ \A f \in Docs : f # "index" => doc'[f] = doc[f] /\ meant'[f] = meant[f]
      <3>1. /\ Documents([doc EXCEPT !["index"] = x]) /\ [doc EXCEPT !["index"] = x]["index"] = x
            /\ \A f \in Docs : f # "index" => [doc EXCEPT !["index"] = x][f] = doc[f]
        BY <2>6, <2>9, DocumentsEdit
      <3>2. /\ Documents([meant EXCEPT !["index"] = y])
            /\ [meant EXCEPT !["index"] = y]["index"] = y
            /\ \A f \in Docs : f # "index" => [meant EXCEPT !["index"] = y][f] = meant[f]
        BY <2>6, <2>9, DocumentsEdit
      <3> QED BY <2>8, <3>1, <3>2
    <2>11. EditsStayUnlessClash'
      <3> SUFFICES ASSUME NEW f \in Docs \ clash PROVE f \notin torn /\ doc'[f] = meant'[f]
        BY <1>3 DEF EditsStayUnlessClash
      <3>1. f \notin torn /\ doc[f] = meant[f]
        BY DEF IInv, EditsStayUnlessClash
      <3> QED BY <2>7, <2>10, <3>1
    <2>12. /\ dir' \in Dirs /\ \A a \in Buckets : dir'[a].files \subseteq Upstream[a]
           /\ \A a \in Buckets \ {b} : dir'[a] = dir[a]
      <3>1. Upstream[b] \in SUBSET Paths /\ dir \in Dirs
        BY <1>1, <2>5, StackAssumption DEF Typed
      <3>2. dir' \in Dirs /\ dir'[b].files = Upstream[b] /\ \A a \in Buckets \ {b} : dir'[a] = dir[a]
        BY <1>3, <2>5, <3>1 DEF Dirs
      <3> QED BY <1>1, <3>2 DEF Typed
    <2>13. OrphansNeedClash'
      <3> SUFFICES ASSUME "index" \notin clash, NEW a \in Buckets, dir'[a].there
                   PROVE doc'["index"][a] # None
        BY <1>3 DEF OrphansNeedClash, Indexed
      <3>1. CASE a = b
        BY <2>9, <2>10, <3>1, StackAssumption
      <3>2. CASE a # b
        <4>1. doc["index"][a] # None
          BY <2>12, <3>2 DEF IInv, OrphansNeedClash, Indexed
        <4> QED BY <2>9, <2>10, <3>2, <4>1
      <3> QED BY <3>1, <3>2
    <2>14. CopyFits(r)' /\ FetchFits(r) /\ SyncFits(r)'
      BY <2>3, <2>4 DEF CopyFits, FetchFits, SyncFits, Moved
    <2>15. stale \subseteq stale' /\ stale' \subseteq Procs
      BY <1>1, <1>3 DEF Typed, Holders, Running
    <2>16. Become(i, r)
      BY <1>3, <2>1
    <2>17. \A f \in Docs \ clash' :
             (doc'[f] = doc[f] /\ (f \in cut => f \in cut')) \/ Holders(i, f) \subseteq stale'
      BY <1>3, <2>10
    <2>18. /\ cut' \subseteq Docs /\ torn' \subseteq Docs /\ clash' \subseteq Docs /\ clash \subseteq clash'
           /\ output' \in [Names -> [Kinds -> Rendering \cup {None}]]
           /\ Holders(i, "index") \subseteq stale'
      BY <1>1, <1>3 DEF Typed
    <2> QED
      BY <2>3, <2>10, <2>11, <2>12, <2>13, <2>14, <2>15, <2>16, <2>17, <2>18, StepKeeps
  <1> QED BY <1>2, <1>3 DEF Ensure

LEMMA LoadKeeps ==
  ASSUME IInv, NEW i \in Procs, Load(i)
  PROVE  IInv'
  <1> DEFINE q == proc[i]
             f == DocOf(q.cmd)
  <1>1. /\ At(q, "load") /\ q \in States /\ Placed(q) /\ q.status = "running" /\ Local(q)
        /\ SoundCommand(q.cmd) /\ Typed
    BY Taking DEF Load, IInv
  <1>2. /\ q.cmd.op \in Editors \cup {"remove"} /\ f \in Docs
        /\ f = "index" <=> q.cmd.op = "remove"
        /\ q.listed = None /\ q.entry = None /\ q.synced = {} /\ q.errors = {}
    BY RewritesIs DEF Load
  <1>3. CASE Fails(i) \/ Quietly(i, Ended(q, "done"))
    BY <1>3, EndingKeeps DEF Fails
  <1>4. CASE ~(Fails(i) \/ Quietly(i, Ended(q, "done")))
    <2>1. PICK loaded, left :
            /\ loaded = Read(f)
            /\ left = IF f = "index" THEN {b \in q.cmd.buckets : loaded[b] # None} ELSE {}
      OBVIOUS
    <2>2. /\ Readable(f)
          /\ stale' = IF f \in cut THEN stale \cup {i} ELSE stale
          /\ Become(i, Advance([q EXCEPT !.loaded = loaded, !.left = left]))
          /\ UNCHANGED <<doc, cut, torn, dir, output, meant, clash>>
      BY <1>4, <2>1 DEF Load, shared
    <2>3. loaded \in CopyOf(f) /\ loaded # None
      BY <1>1, <1>2, <2>1, ReadIs, StackAssumption DEF CopyOf
    <2>4. left \in SUBSET (Buckets \cup Names)
      BY <1>1, <1>2, <2>1 DEF SoundCommand
    <2>5. PICK p : p = [q EXCEPT !.loaded = loaded, !.left = left]
      OBVIOUS
    <2>6. /\ p.status = q.status /\ p.cmd = q.cmd /\ p.pos = q.pos /\ p.loaded = loaded
          /\ p.left = left /\ p.listed = q.listed /\ p.entry = q.entry /\ p.source = q.source
          /\ p.synced = q.synced /\ p.errors = q.errors
      BY <1>1, <2>5 DEF States
    <2>7. p \in States
      <3>1. loaded \in AnyCopy
        BY <1>2, <2>3 DEF AnyCopy
      <3> QED BY <1>1, <2>4, <2>5, <3>1 DEF States
    <2>8. Placed(p) /\ p.status = "running" /\ At(p, "load")
      BY <1>1, <2>6 DEF Placed, At
    <2>9. PICK r : r = Advance(p)
      OBVIOUS
    <2>10. /\ r \in States /\ Placed(r) /\ Moved(r, p) /\ r.cmd = q.cmd
           /\ \/ q.cmd.op \in Editors /\ At(r, "cut")
              \/ q.cmd.op = "remove" /\ At(r, "rmtree")
      BY <2>6, <2>7, <2>8, <2>9, Advances DEF After, Moved
    <2>11. /\ Holding(r) /\ ~At(r, "items") /\ ~At(r, "load") /\ ~At(r, "print")
           /\ ~At(r, "fill") /\ r.status = "running"
      BY <2>10 DEF Holding, At
    <2>12. /\ r.loaded = loaded /\ r.left = left /\ r.listed = None /\ r.entry = None
           /\ r.synced = {} /\ r.errors = {} /\ r.source = q.source
      BY <1>2, <2>6, <2>10 DEF Moved
    <2>13. Local(r)
      BY <1>1, <2>3, <2>10, <2>11, <2>12 DEF Local
    <2>14. i \notin stale' => CopyFits(r)'
      <3> SUFFICES ASSUME i \notin stale', f \notin clash
                   PROVE  /\ loaded = doc[f]
                          /\ q.cmd.op = "remove" => \A b \in q.cmd.buckets :
                               dir[b].there => At(r, "rmtree") /\ b \in left
        BY <2>2, <2>10, <2>11, <2>12 DEF CopyFits
      <3>1. loaded = doc[f]
        BY <2>1, <2>2 DEF Read
      <3>2. ASSUME q.cmd.op = "remove", NEW b \in q.cmd.buckets, dir[b].there
            PROVE  At(r, "rmtree") /\ b \in left
        <4>1. b \in Buckets /\ f = "index"
          BY <1>1, <1>2, <3>2 DEF SoundCommand
        <4>2. loaded[b] # None
          BY <3>1, <3>2, <4>1 DEF IInv, OrphansNeedClash, Indexed
        <4> QED BY <2>1, <2>10, <3>2, <4>1, <4>2 DEF Editors
      <3> QED BY <3>1, <3>2
    <2>15. FetchFits(r) /\ SyncFits(r)'
      BY <1>2, <2>10, <2>11 DEF FetchFits, SyncFits, Editors
    <2>16. EditsStayUnlessClash' /\ OrphansNeedClash'
      BY <2>2 DEF IInv, EditsStayUnlessClash, OrphansNeedClash, Indexed
    <2>17. stale \subseteq stale' /\ stale' \subseteq Procs /\ Become(i, r)
      BY <1>1, <2>2, <2>5, <2>9 DEF Typed
    <2>18. /\ Documents(doc') /\ Documents(meant') /\ dir' \in Dirs
           /\ \A b \in Buckets : dir'[b].files \subseteq Upstream[b]
           /\ output' \in [Names -> [Kinds -> Rendering \cup {None}]]
           /\ cut' \subseteq Docs /\ torn' \subseteq Docs /\ clash' \subseteq Docs
           /\ clash \subseteq clash'
      BY <1>1, <2>2 DEF Typed
    <2> QED BY <2>2, <2>13, <2>14, <2>15, <2>16, <2>17, <2>18, StepKeeps
  <1> QED BY <1>3, <1>4

LEMMA CutKeeps ==
  ASSUME IInv, NEW i \in Procs, Cut(i)
  PROVE  IInv'
  <1> DEFINE q == proc[i]
             f == DocOf(q.cmd)
  <1>1. /\ At(q, "cut") /\ q \in States /\ Placed(q) /\ q.status = "running" /\ Local(q)
        /\ Typed
    BY Taking DEF Cut, IInv
  <1>2. /\ q.cmd.op \in Editors \cup {"remove"} /\ f \in Docs
        /\ q.listed = None /\ q.entry = None /\ q.synced = {} /\ q.errors = {}
    BY RewritesIs DEF Cut
  <1>3. PICK r : r = Advance(q)
    OBVIOUS
  <1>4. /\ cut' = cut \cup {f} /\ torn' = torn \ {f}
        /\ clash' = IF i \in stale THEN clash \cup {f} ELSE clash
        /\ stale' = stale \cup Holders(i, f)
        /\ Become(i, r) /\ UNCHANGED <<doc, dir, output, meant>>
    BY <1>3 DEF Cut
  <1>5. r \in States /\ Placed(r) /\ Moved(r, q) /\ At(r, "fill") /\ r.cmd = q.cmd
    BY <1>1, <1>3, Advances DEF After, Moved
  <1>6. Holding(r) /\ Holding(q) /\ \A x : At(r, x) <=> x = "fill"
    BY <1>1, <1>5 DEF Holding, At
  <1>7. Local(r)
    <2>1. r.status = "running" /\ r.loaded # None /\ r.loaded \in CopyOf(f)
      BY <1>1, <1>5, <1>6 DEF Local, Moved, At
    <2>2. r.cmd.op = "install" => r.source \in Source
      BY <1>1, <1>5, <1>6 DEF Local, Moved
    <2>3. r.listed = None /\ r.entry = None /\ r.synced = {} /\ r.errors = {}
      BY <1>2, <1>5 DEF Moved
    <2> QED BY <1>5, <1>6, <2>1, <2>2, <2>3 DEF Local
  <1>8. i \notin stale' => CopyFits(r)'
    <2> SUFFICES ASSUME i \notin stale', f \notin clash'
                 PROVE  /\ r.loaded = doc[f]
                        /\ f \in cut'
                        /\ q.cmd.op = "remove" => \A b \in q.cmd.buckets : ~dir[b].there
      BY <1>4, <1>5, <1>6 DEF CopyFits
    <2>1. CopyFits(q)
      BY <1>4 DEF IInv
    <2>2. ~At(q, "rmtree")
      BY <1>1 DEF At
    <2>3. /\ q.loaded = doc[f]
          /\ q.cmd.op = "remove" => \A b \in q.cmd.buckets : ~dir[b].there
      BY <1>4, <1>6, <2>1, <2>2 DEF CopyFits
    <2> QED BY <1>4, <1>5, <2>3 DEF Moved
  <1>9. FetchFits(r) /\ SyncFits(r)'
    BY <1>2, <1>5, <1>6 DEF FetchFits, SyncFits, Editors
  <1>10. EditsStayUnlessClash' /\ OrphansNeedClash'
    BY <1>4 DEF IInv, EditsStayUnlessClash, OrphansNeedClash, Indexed
  <1>11. stale \subseteq stale' /\ stale' \subseteq Procs
    BY <1>1, <1>4 DEF Typed, Holders, Running
  <1>12. /\ Documents(doc') /\ Documents(meant') /\ dir' \in Dirs
         /\ \A b \in Buckets : dir'[b].files \subseteq Upstream[b]
         /\ output' \in [Names -> [Kinds -> Rendering \cup {None}]]
         /\ cut' \subseteq Docs /\ torn' \subseteq Docs /\ clash' \subseteq Docs
         /\ clash \subseteq clash'
    BY <1>1, <1>2, <1>4 DEF Typed
  <1>13. /\ \A g \in Docs \ clash' : doc'[g] = doc[g] /\ (g \in cut => g \in cut')
         /\ \A b \in Buckets : dir'[b].there => dir[b].there
    BY <1>4
  <1>14. Become(i, r)
    BY <1>4
  <1> QED BY <1>7, <1>8, <1>9, <1>10, <1>11, <1>12, <1>13, <1>14, StepKeeps

LEMMA FillKeeps ==
  ASSUME IInv, NEW i \in Procs, Fill(i)
  PROVE  IInv'
  <1> DEFINE q == proc[i]
             c == q.cmd
             f == DocOf(c)
  <1>1. /\ At(q, "fill") /\ q \in States /\ Placed(q) /\ q.status = "running" /\ Local(q)
        /\ SoundCommand(c) /\ Typed
    BY Taking DEF Fill, IInv
  <1>2. /\ c.op \in Editors \cup {"remove"} /\ f \in Docs
        /\ f = "index" <=> c.op = "remove"
        /\ c.op = "install" => f = "registry"
        /\ q.listed = None /\ q.entry = None /\ q.synced = {} /\ q.errors = {}
    BY RewritesIs DEF Fill
  <1>3. Holding(q) /\ q.loaded \in CopyOf(f) /\ (c.op = "install" => q.source \in Source)
    BY <1>1 DEF Holding, Local
  <1>4. PICK x, y : /\ x = Edited(c, q.source, q.loaded)
                    /\ y = [k \in Domain[f] |->
                              IF k \in Touched(c) THEN Value(c, q.source) ELSE meant[f][k]]
    OBVIOUS
  <1>5. /\ doc' = [doc EXCEPT ![f] = x] /\ meant' = [meant EXCEPT ![f] = y]
        /\ cut' = cut \ {f} /\ torn' \subseteq torn \cup {f} /\ (f \in cut => torn' = torn)
        /\ clash' = IF i \in stale THEN clash \cup {f} ELSE clash
        /\ stale' = stale \cup Holders(i, f)
        /\ Become(i, Advance([q EXCEPT !.loaded = None])) /\ UNCHANGED <<dir, output>>
    <2>1. meant' = [meant EXCEPT ![f] = y]
      BY <1>4 DEF Fill
    <2> QED BY <1>4, <2>1 DEF Fill
  <1>6. Value(c, q.source) \in Content[f] \cup {None}
    <2>1. CASE c.op = "install"
      BY <1>1, <1>2, <1>3, <2>1 DEF Value, Content, Docs, Entry, Source, SoundCommand
    <2>2. CASE c.op = "set"
      <3>1. f \in {"project", "global"} /\ c.val \in Vals
        BY <1>1, <2>2 DEF DocOf, SoundCommand
      <3> QED BY <2>2, <3>1 DEF Value, Content, Docs
    <2>3. CASE c.op \notin {"install", "set"}
      BY <2>3 DEF Value
    <2> QED BY <2>1, <2>2, <2>3
  <1>7. x \in CopyOf(f) /\ y \in CopyOf(f) /\ Documents(doc) /\ Documents(meant)
        /\ meant[f] \in CopyOf(f)
    <2>1. Documents(doc) /\ Documents(meant) /\ meant[f] \in CopyOf(f)
      BY <1>1, <1>2 DEF Typed, Documents
    <2> QED BY <1>3, <1>4, <1>6, <2>1 DEF Edited, CopyOf
  <1>8. /\ Documents(doc') /\ doc'[f] = x /\ Documents(meant') /\ meant'[f] = y
        /\ \A g \in Docs : g # f => doc'[g] = doc[g] /\ meant'[g] = meant[g]
    <2>1. /\ Documents([doc EXCEPT ![f] = x]) /\ [doc EXCEPT ![f] = x][f] = x
          /\ \A g \in Docs : g # f => [doc EXCEPT ![f] = x][g] = doc[g]
      BY <1>2, <1>7, DocumentsEdit
    <2>2. /\ Documents([meant EXCEPT ![f] = y]) /\ [meant EXCEPT ![f] = y][f] = y
          /\ \A g \in Docs : g # f => [meant EXCEPT ![f] = y][g] = meant[g]
      BY <1>2, <1>7, DocumentsEdit
    <2> QED BY <1>5, <2>1, <2>2
  \* What the copy of a process that nobody has overtaken says.
  <1>9. ASSUME f \notin clash'
        PROVE  /\ q.loaded = doc[f] /\ q.loaded = meant[f] /\ f \notin torn' /\ x = y
               /\ c.op = "remove" => \A b \in c.buckets : ~dir[b].there
    <2>1. i \notin stale /\ f \notin clash
      BY <1>5, <1>9
    <2>2. CopyFits(q) /\ f \notin torn /\ doc[f] = meant[f]
      BY <1>2, <2>1 DEF IInv, EditsStayUnlessClash
    <2>3. ~At(q, "rmtree")
      BY <1>1 DEF At
    <2>4. /\ q.loaded = doc[f] /\ f \in cut
          /\ c.op = "remove" => \A b \in c.buckets : ~dir[b].there
      BY <1>1, <1>3, <2>1, <2>2, <2>3 DEF CopyFits
    <2>5. x = y
      BY <1>3, <1>4, <2>2, <2>4 DEF Edited, CopyOf
    <2> QED BY <1>5, <2>2, <2>4, <2>5
  <1>10. EditsStayUnlessClash'
    <2> SUFFICES ASSUME NEW g \in Docs \ clash' PROVE g \notin torn' /\ doc'[g] = meant'[g]
      BY DEF EditsStayUnlessClash
    <2>1. CASE g = f
      BY <1>8, <1>9, <2>1
    <2>2. CASE g # f
      BY <1>5, <1>8, <2>2 DEF IInv, EditsStayUnlessClash
    <2> QED BY <2>1, <2>2
  <1>11. OrphansNeedClash'
    <2> SUFFICES ASSUME "index" \notin clash', NEW b \in Buckets, dir[b].there
                 PROVE doc'["index"][b] # None
      BY <1>5 DEF OrphansNeedClash, Indexed
    <2>1. doc["index"][b] # None
      BY <1>5 DEF IInv, OrphansNeedClash, Indexed
    <2>2. CASE f # "index"
      BY <1>8, <2>1, <2>2 DEF Docs
    <2>3. CASE f = "index"
      <3>1. b \notin Touched(c)
        BY <1>2, <1>9, <2>3 DEF Touched
      <3>2. b \in DOMAIN q.loaded
        BY <1>3, <2>3 DEF CopyOf, Domain, Docs
      <3> QED BY <1>4, <1>8, <1>9, <2>1, <2>3, <3>1, <3>2 DEF Edited
    <2> QED BY <2>2, <2>3
  <1>12. PICK p : p = [q EXCEPT !.loaded = None]
    OBVIOUS
  <1>13. /\ p.status = q.status /\ p.cmd = c /\ p.pos = q.pos /\ p.loaded = None
         /\ p.listed = q.listed /\ p.entry = q.entry /\ p.synced = q.synced
         /\ p.errors = q.errors /\ p \in States
    BY <1>1, <1>12 DEF States
  <1>14. Placed(p) /\ p.status = "running" /\ At(p, "fill") /\ ~At(p, "resolve")
    BY <1>1, <1>13 DEF Placed, At
  <1>15. PICK r : r = Advance(p)
    OBVIOUS
  <1>16. Local(r) /\ r.status = "done"
    BY <1>2, <1>13, <1>14, <1>15, GoesOn DEF After
  <1>17. CopyFits(r)' /\ FetchFits(r) /\ SyncFits(r)'
    BY <1>16 DEF CopyFits, FetchFits, SyncFits, Holding, At
  <1>18. stale \subseteq stale' /\ stale' \subseteq Procs
    BY <1>1, <1>5 DEF Typed, Holders, Running
  <1>19. /\ dir' \in Dirs /\ \A b \in Buckets : dir'[b].files \subseteq Upstream[b]
         /\ output' \in [Names -> [Kinds -> Rendering \cup {None}]]
         /\ cut' \subseteq Docs /\ torn' \subseteq Docs /\ clash' \subseteq Docs
         /\ clash \subseteq clash'
    BY <1>1, <1>2, <1>5 DEF Typed
  <1>20. /\ \A g \in Docs \ clash' :
              (doc'[g] = doc[g] /\ (g \in cut => g \in cut')) \/ Holders(i, g) \subseteq stale'
         /\ \A b \in Buckets : dir'[b].there => dir[b].there
    BY <1>5, <1>8
  <1>21. Become(i, r)
    BY <1>5, <1>12, <1>15
  <1> QED
    BY <1>8, <1>10, <1>11, <1>16, <1>17, <1>18, <1>19, <1>20, <1>21, StepKeeps

LEMMA RemoveTreeKeeps ==
  ASSUME IInv, NEW i \in Procs, RemoveTree(i)
  PROVE  IInv'
  <1> DEFINE q == proc[i]
             f == DocOf(q.cmd)
  <1>1. PICK b : b = CHOOSE x \in q.left : \A y \in q.left : FolderOrder[x] <= FolderOrder[y]
    OBVIOUS
  <1>2. PICK rest : rest = [q EXCEPT !.left = @ \ {b}]
    OBVIOUS
  <1>3. /\ At(q, "rmtree") /\ q \in States /\ Placed(q) /\ q.status = "running" /\ Local(q)
        /\ SoundCommand(q.cmd) /\ Typed
    BY Taking DEF RemoveTree, IInv
  <1>4. /\ q.cmd.op = "remove" /\ f \in Docs /\ f = "index"
        /\ q.listed = None /\ q.entry = None /\ q.synced = {} /\ q.errors = {}
        /\ q.cmd.buckets \subseteq Buckets
    BY <1>3, RewritesIs DEF RemoveTree, SoundCommand
  <1>5. Holding(q) /\ q.loaded # None /\ q.loaded \in CopyOf(f)
    BY <1>3 DEF Holding, Local
  <1>6. CASE q.left = {}
    <2>1. PICK r : r = Advance(q)
      OBVIOUS
    <2>2. r \in States /\ Placed(r) /\ Moved(r, q) /\ At(r, "cut") /\ r.cmd = q.cmd
      BY <1>3, <2>1, Advances DEF After, Moved
    <2>3. Holding(r) /\ \A x : At(r, x) <=> x = "cut"
      BY <2>2 DEF Holding, At
    <2>4. Local(r)
      <3>1. r.status = "running" /\ r.loaded # None /\ r.loaded \in CopyOf(f)
        BY <1>5, <2>2 DEF Moved, At
      <3>2. r.listed = None /\ r.entry = None /\ r.synced = {} /\ r.errors = {}
        BY <1>4, <2>2 DEF Moved
      <3> QED BY <1>4, <2>2, <2>3, <3>1, <3>2 DEF Local
    <2>5. i \notin stale => CopyFits(r)
      <3>1. CopyFits(q) => CopyFits(r)
        BY <1>5, <1>6, <2>2, <2>3 DEF CopyFits, Moved
      <3> QED BY <3>1 DEF IInv
    <2>6. FetchFits(r) /\ SyncFits(r)
      BY <1>4, <2>2, <2>3 DEF FetchFits, SyncFits
    <2>7. Quietly(i, r)
      BY <1>6, <2>1 DEF RemoveTree
    <2> QED BY <2>4, <2>5, <2>6, <2>7, QuietKeeps
  \* The process goes on with q or, b being done, with rest.
  <1>7. ASSUME NEW r, r = q \/ r = rest
        PROVE  /\ Local(r) /\ Holding(r) /\ FetchFits(r) /\ SyncFits(r) /\ SyncFits(r)'
               /\ r.cmd = q.cmd /\ r.loaded = q.loaded /\ At(r, "rmtree") /\ ~At(r, "fill")
    <2>1. /\ r.status = q.status /\ r.cmd = q.cmd /\ r.pos = q.pos /\ r.loaded = q.loaded
          /\ r.listed = q.listed /\ r.entry = q.entry /\ r.source = q.source
          /\ r.synced = q.synced /\ r.errors = q.errors
      BY <1>2, <1>3, <1>7 DEF States
    <2>2. r \in States
      <3>1. q.left \ {b} \in SUBSET (Buckets \cup Names)
        BY <1>3 DEF States
      <3> QED BY <1>2, <1>3, <1>7, <3>1 DEF States
    <2>3. Placed(r) /\ \A x : At(r, x) <=> x = "rmtree"
      BY <1>3, <2>1 DEF Placed, At
    <2>4. Local(r)
      BY <1>3, <1>4, <1>5, <2>1, <2>2, <2>3 DEF Local, Holding
    <2> QED BY <1>3, <1>4, <2>1, <2>3, <2>4 DEF Holding, FetchFits, SyncFits
  <1>8. i \notin stale /\ "index" \notin clash =>
          /\ q.loaded = doc["index"]
          /\ \A a \in q.cmd.buckets : dir[a].there => a \in q.left
    BY <1>4, <1>5 DEF IInv, CopyFits
  <1>9. CASE q.left # {} /\ ~dir[b].there
    <2>1. Quietly(i, rest)
      BY <1>1, <1>2, <1>9 DEF RemoveTree
    <2>2. i \notin stale => CopyFits(rest)
      <3>1. rest.left = q.left \ {b}
        BY <1>2, <1>3 DEF States
      <3> QED BY <1>4, <1>7, <1>8, <1>9, <3>1 DEF CopyFits
    <2> QED BY <1>7, <2>1, <2>2, QuietKeeps
  <1>10. CASE q.left # {} /\ dir[b].there
    <2>1. PICK r : r = IF dir[b].files # {} THEN q ELSE rest
      OBVIOUS
    <2>2. /\ dir' = [dir EXCEPT ![b] = [there |-> dir[b].files # {}, files |-> {}]]
          /\ Become(i, r)
          /\ UNCHANGED <<doc, cut, torn, output, meant, stale, clash>>
      BY <1>1, <1>2, <1>10, <2>1 DEF RemoveTree
    <2>3. dir \in [Buckets -> [there : BOOLEAN, files : SUBSET Paths]]
      BY <1>3 DEF Typed, Dirs
    <2>4. /\ dir' \in Dirs
          /\ \A a \in Buckets : /\ dir'[a].files \subseteq dir[a].files
                                /\ dir'[a].there => dir[a].there
                                /\ a = b /\ dir'[a].there => dir[b].files # {}
      <3>1. dir' \in Dirs
        BY <2>2, <2>3 DEF Dirs
      <3>2. ASSUME NEW a \in Buckets
            PROVE  /\ dir'[a].files \subseteq dir[a].files
                   /\ dir'[a].there => dir[a].there
                   /\ a = b /\ dir'[a].there => dir[b].files # {}
        <4>1. CASE a = b
          <5>1. dir'[a] = [there |-> dir[b].files # {}, files |-> {}]
            BY <2>2, <2>3, <4>1
          <5>2. dir'[a].files = {}
            BY <5>1
          <5>3. dir'[a].there => dir[b].files # {}
            <6>1. PICK e \in BOOLEAN : e = (dir[b].files # {})
              OBVIOUS
            <6>2. dir'[a] = [there |-> e, files |-> {}]
              BY <5>1, <6>1
            <6>3. dir'[a].there = e
              BY <6>2
            <6> QED BY <6>1, <6>3
          <5> QED BY <1>10, <4>1, <5>2, <5>3
        <4>2. CASE a # b
          <5>1. dir'[a] = dir[a]
            BY <2>2, <2>3, <4>2
          <5> QED BY <4>2, <5>1
        <4> QED BY <4>1, <4>2
      <3> QED BY <3>1, <3>2
    <2>5. i \notin stale' => CopyFits(r)'
      <3> SUFFICES ASSUME i \notin stale, "index" \notin clash
                   PROVE  /\ r.loaded = doc["index"]
                          /\ \A a \in q.cmd.buckets : dir'[a].there => a \in r.left
        BY <1>4, <1>7, <2>1, <2>2 DEF CopyFits
      <3>1. r.loaded = doc["index"]
        BY <1>7, <1>8, <2>1
      <3>2. ASSUME NEW a \in q.cmd.buckets, dir'[a].there PROVE a \in r.left
        <4>1. a \in Buckets /\ a \in q.left
          BY <1>4, <1>8, <2>4, <3>2
        <4>2. CASE a = b
          BY <2>1, <2>4, <3>2, <4>1, <4>2
        <4>3. CASE a # b
          <5>1. rest.left = q.left \ {b}
            BY <1>2, <1>3 DEF States
          <5> QED BY <2>1, <4>1, <4>3, <5>1
        <4> QED BY <4>2, <4>3
      <3> QED BY <3>1, <3>2
    <2>6. EditsStayUnlessClash' /\ OrphansNeedClash'
      BY <2>2, <2>4 DEF IInv, EditsStayUnlessClash, OrphansNeedClash, Indexed
    <2>7. /\ Documents(doc') /\ Documents(meant')
          /\ output' \in [Names -> [Kinds -> Rendering \cup {None}]]
          /\ cut' \subseteq Docs /\ torn' \subseteq Docs /\ clash' \subseteq Docs
          /\ clash \subseteq clash' /\ stale \subseteq stale' /\ stale' \subseteq Procs
      BY <1>3, <2>2 DEF Typed
    <2>8. \A a \in Buckets : dir'[a].files \subseteq Upstream[a]
      BY <1>3, <2>4 DEF Typed
    <2> QED BY <1>7, <2>1, <2>2, <2>4, <2>5, <2>6, <2>7, <2>8, StepKeeps
  <1> QED BY <1>6, <1>9, <1>10

-----------------------------------------------------------------------------
(* The theorems.                                                            *)

LEMMA InitIInv == StackInit => IInv
  <1> SUFFICES ASSUME StackInit PROVE IInv
    OBVIOUS
  <1>1. PICK s \in Initial : doc = s.doc /\ dir = s.dir
    BY DEF StackInit
  <1>2. SoundStart(s)
    BY StackAssumption
  <1>3. Documents(doc) /\ meant = doc
    BY <1>1, <1>2 DEF SoundStart, Documents, CopyOf, StackInit
  <1>4. \A i \in Procs : proc[i] = Idle
    BY DEF StackInit
  <1>5. Idle \in States /\ Idle.status = "idle" /\ Idle.listed = None
    BY IdleIs DEF Idle
  <1>6. Local(Idle) /\ CopyFits(Idle) /\ FetchFits(Idle) /\ SyncFits(Idle)
    BY <1>5 DEF Local, Placed, Holding, CopyFits, FetchFits, SyncFits, At
  <1>7. Typed
    <2>1. dir \in Dirs /\ \A b \in Buckets : dir[b].files \subseteq Upstream[b]
      BY <1>1, <1>2 DEF SoundStart
    <2>2. output \in [Names -> [Kinds -> Rendering \cup {None}]]
      BY DEF StackInit
    <2>3. proc \in [Procs -> States]
      BY <1>5 DEF StackInit
    <2>4. cut = {} /\ torn = {} /\ clash = {} /\ stale = {} /\ disturbed = {}
      BY DEF StackInit
    <2> QED BY <1>3, <1>4, <1>6, <2>1, <2>2, <2>3, <2>4 DEF Typed
  <1>8. EditsStayUnlessClash /\ OrphansNeedClash
    BY <1>1, <1>2, <1>3
    DEF StackInit, SoundStart, EditsStayUnlessClash, OrphansNeedClash, Indexed
  <1> QED BY <1>4, <1>6, <1>7, <1>8 DEF IInv

LEMMA NextIInv == IInv /\ [Next]_vars => IInv'
  <1> SUFFICES ASSUME IInv, [Next]_vars PROVE IInv'
    OBVIOUS
  <1>1. ASSUME NEW i \in Procs, Step(i) PROVE IInv'
    <2>1. CASE Start(i)
      BY <2>1, StartKeeps
    <2>2. CASE FindBucket(i)
      BY <2>2, FindBucketKeeps
    <2>3. CASE Ensure(i)
      BY <2>3, EnsureKeeps
    <2>4. CASE ResolveSource(i)
      BY <2>4, ResolveSourceKeeps
    <2>5. CASE Load(i)
      BY <2>5, LoadKeeps
    <2>6. CASE RemoveTree(i)
      BY <2>6, RemoveTreeKeeps
    <2>7. CASE Cut(i)
      BY <2>7, CutKeeps
    <2>8. CASE Fill(i)
      BY <2>8, FillKeeps
    <2>9. CASE ReadFacts(i)
      BY <2>9, ReadFactsKeeps
    <2>10. CASE PrintSource(i)
      BY <2>10, PrintSourceKeeps
    <2>11. CASE ListItems(i)
      BY <2>11, ListItemsKeeps
    <2>12. CASE GetItem(i)
      BY <2>12, GetItemKeeps
    <2>13. CASE SyncItem(i)
      BY <2>13, SyncItemKeeps
    <2>14. CASE EndSync(i)
      BY <2>14, EndSyncKeeps
    <2>15. CASE Crash(i)
      BY <2>15, CrashKeeps
    <2> QED
      BY <1>1, <2>1, <2>2, <2>3, <2>4, <2>5, <2>6, <2>7, <2>8, <2>9, <2>10, <2>11, <2>12,
         <2>13, <2>14, <2>15 DEF Step
  <1>2. CASE UNCHANGED vars
    <2>1. /\ doc' = doc /\ cut' = cut /\ torn' = torn /\ dir' = dir /\ output' = output
          /\ proc' = proc /\ meant' = meant /\ stale' = stale /\ clash' = clash
          /\ disturbed' = disturbed
      BY <1>2 DEF vars
    <2>2. Typed'
      BY <2>1 DEF IInv, Typed
    <2>3. EditsStayUnlessClash' /\ OrphansNeedClash'
      BY <2>1 DEF IInv, EditsStayUnlessClash, OrphansNeedClash, Indexed
    <2>4. /\ \A i \in Procs \ stale' : CopyFits(proc[i])'
          /\ \A i \in Procs : FetchFits(proc[i])'
      BY <2>1 DEF IInv, CopyFits, FetchFits
    <2>5. \A i \in Procs \ disturbed' : SyncFits(proc[i])'
      BY <2>1 DEF IInv, SyncFits, Read, Readable, Available, Cached, Indexed
    <2> QED BY <2>2, <2>3, <2>4, <2>5 DEF IInv
  <1> QED BY <1>1, <1>2 DEF Next

\* The inductive invariant holds in every reachable state.
THEOREM Invariant == Spec => []IInv
  <1> QED BY InitIInv, NextIInv, PTL DEF Spec

\* The documents, directories and processes are what they should be, and a sync has
\* each item that it listed in exactly one of what is left, synced and wrong.
THEOREM TypeCorrect == Spec => []StackTypeOK
  <1>1. IInv => StackTypeOK
    <2> SUFFICES ASSUME IInv PROVE StackTypeOK
      OBVIOUS
    <2>1. Typed
      BY DEF IInv
    <2>2. \A f \in Docs : doc[f] \in [Domain[f] -> Content[f] \cup {None}]
      BY <2>1 DEF Typed, Documents, CopyOf
    <2>3. ASSUME NEW i \in Procs
          PROVE  LET q == proc[i] IN
                 /\ q.status \in {"idle", "running", "done", "failed", "crashed"}
                 /\ q.source # None => q.source \in Source
                 /\ q.listed # None => Accounts(q)
      BY <2>1 DEF Typed, Local, States
    <2> QED BY <2>1, <2>2, <2>3 DEF StackTypeOK, Typed, Accounts
  <1> QED BY <1>1, Invariant, PTL

\* An install, uninstall, set or unset that has ended stays in its document, unless one
\* wrote from a copy that another had overtaken or was killed while it wrote.
THEOREM EditsStay == Spec => []EditsStayUnlessClash
  <1>1. IInv => EditsStayUnlessClash
    BY DEF IInv
  <1> QED BY <1>1, Invariant, PTL

\* Wherever remove stops, what is left of a bucket is still in the index.
THEOREM NoOrphans == Spec => []OrphansNeedClash
  <1>1. IInv => OrphansNeedClash
    BY DEF IInv
  <1> QED BY <1>1, Invariant, PTL

\* A sync that was alone ends with every item accounted for as the documents and the
\* cache have it; and what fetch prints answers the request.
THEOREM RendersAsked == Spec => RendersWhatIsAsked
  <1>1. ASSUME IInv, NEW i \in Procs, EndSync(i) PROVE SyncExact(i)
    <2> DEFINE q == proc[i]
               registry == Read("registry")
               names == {n \in Names : registry[n] # None}
    <2> SUFFICES ASSUME i \notin disturbed PROVE SyncExact(i)
      BY DEF SyncExact
    <2>1. At(q, "items") /\ q \in States /\ Placed(q) /\ q.status = "running" /\ Local(q)
      BY <1>1, Taking DEF EndSync
    <2>2. q.cmd.op = "sync"
      BY <2>1, Advances DEF After
    <2>3. /\ q.left = {} /\ Accounts(q) /\ SyncFits(q)
      BY <1>1, <2>1 DEF EndSync, Local, IInv
    <2>4. /\ q.synced = {n \in names : Available(registry[n])}
          /\ DOMAIN q.listed = names
          /\ ~q.cmd.dry => \A n \in q.synced :
               output[n][registry[n].kind] =
                 Render([bucket |-> registry[n].bucket, path |-> registry[n].path],
                        registry[n].kind, Merged(Read("global"), Read("project")))
      BY <2>1, <2>2, <2>3 DEF SyncFits
    <2>5. q.synced = {n \in Names : registry[n] # None /\ Available(registry[n])}
      BY <2>4
    <2>6. q.errors = names \ q.synced
      BY <2>3, <2>4 DEF Accounts
    <2> QED BY <2>4, <2>5, <2>6 DEF SyncExact
  <1>2. ASSUME IInv, NEW i \in Procs, PrintSource(i) PROVE FetchExact(i)
    <2>1. At(proc[i], "print") /\ FetchFits(proc[i])
      BY <1>2, Taking DEF PrintSource, IInv
    <2> QED BY <2>1 DEF FetchFits, FetchExact
  <1>3. IInv => \A i \in Procs : (EndSync(i) => SyncExact(i)) /\ (PrintSource(i) => FetchExact(i))
    BY <1>1, <1>2
  <1> QED BY <1>3, Invariant, PTL DEF RendersWhatIsAsked
=============================================================================
