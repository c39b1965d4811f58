------------------------------- MODULE Export -------------------------------
(***************************************************************************)
(* zhar export and the relation part of zhar show (mem/export.py,            *)
(* mem/export_payload.py).  An export opens the store, queries the seeds of   *)
(* each group asked for, then the nodes an expansion may reach and the links  *)
(* between them, and walks the links round by round.  A query selects by the  *)
(* index of the process and fetches node by node, while other processes edit. *)
(***************************************************************************)
EXTENDS Naturals, FiniteSets, Sequences

CONSTANTS
  Ids, Types, Groups, Statuses, Tags,
  GroupOf,        \* Types -> Groups
  Current,        \* NodeTypeDef.current_statuses
  TypeOrder,      \* Types -> Nat: their alphabetical order
  Created,        \* Ids -> Nat: the order of created_at, one before the other if equal
  Limit,          \* GroupDef.export_limit, Unlimited where there is none
  Unlimited,
  InitialStores,  \* what the group files may hold at the start
  Requests,       \* the commands, see Request
  MaxEdits,       \* bound: changes by other processes
  None

\* A link has the two ids of its ends, or fewer when one is missing.
Ends == {{}} \cup {{i, j} : i, j \in Ids}

Node == [type : Types, status : Statuses, tags : SUBSET Tags, ends : Ends]
Store == [Ids -> Node \cup {None}]

\* export: `zhar export` as text or JSON, and export_group; payload:
\* export_group_payload; show: `zhar show`, of a node.  Without --status, `current` is
\* TRUE and `statuses` is all of them.
Request ==
  [kind : {"export", "payload", "show"}, targets : Seq(Groups), node : Ids,
   current : BOOLEAN, statuses : SUBSET Statuses, tags : SUBSET Tags, depth : Nat]

ASSUME ExportAssumption ==
  /\ IsFiniteSet(Ids)
  /\ GroupOf \in [Types -> Groups] /\ Current \in [Types -> SUBSET Statuses]
  /\ TypeOrder \in [Types -> Nat] /\ Created \in [Ids -> Nat]
  /\ \A i, j \in Ids : Created[i] = Created[j] => i = j
  /\ Unlimited \in Nat /\ Limit \in [Groups -> 0 .. Unlimited]
  /\ InitialStores \subseteq Store
  /\ \A r \in Requests : r \in Request /\ r.targets # <<>>
  /\ MaxEdits \in Nat
  /\ None \notin Node

VARIABLES
  stored,  \* what the group files hold
  edits,   \* changes so far
  exp,     \* the export: where it is and what it has collected, see Opened
  touched  \* history: whether a node was changed since the export was opened

vars == <<stored, edits, exp, touched>>

\* Groups that no expansion reaches.
Hidden == {"notes", "links"}

\* An export that has built its index and not asked anything yet.
Opened(r) ==
  [at |-> "seeds", req |-> r, index |-> stored,
   pos |-> 0,          \* target groups queried so far
   wanted |-> {},      \* ids the present query has yet to fetch
   seeds |-> {},       \* seed nodes, each with the position of its group
   eligible |-> [i \in Ids |-> None],  \* nodes an expansion may reach
   edges |-> {},       \* the ends of the links
   visited |-> {}, frontier |-> {}, round |-> 0,
   found |-> {},       \* the nodes collected,
   out |-> {}]         \* and those within the limits

Ended == {"idle", "done", "failed"}

IsCurrent(n) == n.status \in Current[n.type]

\* Query and QueryEngine._filter_refs.
Matching(idx, groups, statuses, tags) ==
  {i \in Ids :
     /\ idx[i] # None /\ GroupOf[idx[i].type] \in groups
     /\ idx[i].status \in statuses
     /\ tags \subseteq idx[i].tags}

\* A node that was fetched, against the current boundary; None is a node that is gone.
Passes_ByIndex(n) == n # None
Passes(n) == n # None /\ (exp.req.current => IsCurrent(n))

SeedIds == {s.id : s \in exp.seeds}

Goes(e) == exp' = e /\ UNCHANGED <<stored, edits, touched>>

-----------------------------------------------------------------------------
(* The order and the limits of the output.                                  *)

Before(d, e) ==
  LET rank(x) == TypeOrder[x.node.type] IN
  \/ rank(d) < rank(e)
  \/ rank(d) = rank(e) /\ Created[d.id] < Created[e.id]
  \/ d.id = e.id /\ d.pos < e.pos

\* The first n entries of S in the order of _sort_nodes.
FirstOf(S, n) == {e \in S : Cardinality({d \in S : Before(d, e)}) < n}

InGroup(S, g) == {e \in S : GroupOf[e.node.type] = g}

\* _collect_export_groups: limit_nodes_for_export, group by group.
LimitedByGroup(S) == UNION {FirstOf(InGroup(S, g), Limit[g]) : g \in Groups}

\* export_group_payload: all nodes by the limit of the one group.
LimitedAsOne(e, S) == FirstOf(S, Limit[Head(e.req.targets)])

Limited_AllTogether(e, S) == LimitedAsOne(e, S)
Limited(e, S) ==
  CASE e.req.kind = "export" -> LimitedByGroup(S)
    [] e.req.kind = "payload" -> LimitedAsOne(e, S)
    [] e.req.kind = "show" -> S

\* The export prints the nodes S.
Printed(e, S) == [e EXCEPT !.at = "done", !.found = S, !.out = Limited(e, S)]

-----------------------------------------------------------------------------
Init ==
  /\ stored \in InitialStores
  /\ edits = 0 /\ touched = FALSE
  /\ exp \in {[Opened(r) EXCEPT !.at = "idle"] : r \in Requests}

\* Another process changes the status of a node, or removes it.
Edit(i, s) ==
  /\ edits < MaxEdits /\ stored[i] # None
  /\ stored' = [stored EXCEPT ![i] = IF s = None THEN None ELSE [@ EXCEPT !.status = s]]
  /\ edits' = edits + 1
  /\ touched' = TRUE
  /\ UNCHANGED exp

\* open_store, and the first group is queried.
Open(r) ==
  /\ exp.at \in Ended
  /\ exp' = [Opened(r) EXCEPT !.wanted = IF r.kind = "show" THEN {r.node} ELSE @]
  /\ touched' = FALSE
  /\ UNCHANGED <<stored, edits>>

\* _group_seed_nodes of the next target group.
QuerySeeds ==
  /\ exp.at = "seeds" /\ exp.req.kind # "show" /\ exp.wanted = {}
  /\ exp.pos < Len(exp.req.targets)
  /\ LET g == exp.req.targets[exp.pos + 1] IN
     Goes([exp EXCEPT !.pos = @ + 1,
             !.wanted = Matching(exp.index, {g}, exp.req.statuses, exp.req.tags)])

StillWanted_Retry(i) == IF stored[i] = None THEN exp.wanted ELSE exp.wanted \ {i}
\* QueryEngine._fetch passes over what is gone.
StillWanted(i) == exp.wanted \ {i}

FetchSeed(i) ==
  /\ exp.at = "seeds" /\ exp.req.kind # "show" /\ i \in exp.wanted
  /\ Goes([exp EXCEPT
       !.wanted = StillWanted(i),
       !.seeds = IF Passes(stored[i])
                 THEN @ \cup {[id |-> i, pos |-> exp.pos, node |-> stored[i]]} ELSE @])

\* show_command: the node, whose status and tags are the boundary.
FetchShown(i) ==
  /\ exp.at = "seeds" /\ exp.req.kind = "show" /\ i \in exp.wanted
  /\ LET n == IF exp.index[i] = None THEN None ELSE stored[i] IN
     \/ n = None /\ Goes([exp EXCEPT !.at = "failed"])
     \/ n # None /\ Goes([exp EXCEPT !.wanted = {}, !.pos = Len(exp.req.targets),
                            !.seeds = {[id |-> i, pos |-> 0, node |-> n]},
                            !.req.current = FALSE,
                            !.req.statuses = {n.status}, !.req.tags = n.tags])

Reachable == Groups \ Hidden

\* expand_relation_nodes, when there is something to expand.
QueryEligible ==
  /\ exp.at = "seeds" /\ exp.wanted = {} /\ exp.pos = Len(exp.req.targets)
  /\ \/ /\ (exp.seeds = {} \/ exp.req.depth = 0)
        /\ Goes(Printed(exp, exp.seeds))
     \/ /\ exp.seeds # {} /\ exp.req.depth > 0
        /\ Goes([exp EXCEPT !.at = "eligible",
             !.wanted = Matching(exp.index, Reachable, exp.req.statuses, exp.req.tags)])

\* _eligible_expansion_nodes.
FetchEligible(i) ==
  /\ exp.at = "eligible" /\ i \in exp.wanted
  /\ Goes([exp EXCEPT !.wanted = StillWanted(i),
                      !.eligible[i] = IF Passes(stored[i]) THEN stored[i] ELSE None])

\* _link_edge_candidates.
QueryLinks ==
  /\ exp.at = "eligible" /\ exp.wanted = {}
  /\ Goes([exp EXCEPT !.at = "links",
             !.wanted = Matching(exp.index, {"links"}, exp.req.statuses, {})])

FetchLink(i) ==
  /\ exp.at = "links" /\ i \in exp.wanted
  /\ Goes([exp EXCEPT !.wanted = StillWanted(i),
                      !.edges = IF Passes(stored[i]) THEN @ \cup {stored[i].ends} ELSE @])

Eligible == {i \in Ids : exp.eligible[i] # None}

\* _expand_related_ids, before its first round.
StartWalk ==
  /\ exp.at = "links" /\ exp.wanted = {}
  /\ Goes([exp EXCEPT !.at = "walk", !.visited = SeedIds \cap Eligible,
                      !.frontier = SeedIds \cap Eligible])

\* _link_neighbors.  An edge without one of its ends leads nowhere.
Neighbors(i) == (UNION {e \in exp.edges : i \in e}) \ {i}

Reached_ThroughAny(next) == next \ exp.visited
\* What a round adds to the frontier.
Reached(next) == (next \cap Eligible) \ exp.visited

MoreRounds_OneTooMany == exp.round <= exp.req.depth /\ exp.frontier # {}
MoreRounds == exp.round < exp.req.depth /\ exp.frontier # {}

Round ==
  /\ exp.at = "walk" /\ MoreRounds
  /\ LET next == Reached(UNION {Neighbors(i) : i \in exp.frontier}) IN
     Goes([exp EXCEPT !.round = @ + 1, !.visited = @ \cup next, !.frontier = next])

Added_SeedsToo == exp.visited \cap Eligible
Added == (exp.visited \cap Eligible) \ SeedIds

\* The seeds and behind them what was reached.
Finish ==
  /\ exp.at = "walk" /\ ~MoreRounds
  /\ LET more == {[id |-> i, pos |-> exp.pos + 1, node |-> exp.eligible[i]] : i \in Added} IN
     Goes(Printed(exp, exp.seeds \cup more))

Step ==
  \/ QuerySeeds \/ QueryEligible \/ QueryLinks \/ StartWalk \/ Round \/ Finish
  \/ \E i \in Ids : FetchSeed(i) \/ FetchShown(i) \/ FetchEligible(i) \/ FetchLink(i)

Next ==
  \/ Step
  \/ \E r \in Requests : Open(r)
  \/ \E i \in Ids, s \in Statuses \cup {None} : Edit(i, s)

\* A process that is not killed goes on; nothing it does waits for another.
Spec == Init /\ [][Next]_vars /\ WF_vars(Step)

-----------------------------------------------------------------------------
(* Properties.                                                              *)

Entry == [id : Ids, pos : Nat, node : Node]

\* Type invariant.
ExportTypeOK ==
  /\ stored \in Store /\ edits \in 0 .. MaxEdits /\ touched \in BOOLEAN
  /\ exp.at \in Ended \cup {"seeds", "eligible", "links", "walk"}
  /\ exp.req \in Request /\ exp.index \in Store /\ exp.eligible \in Store
  /\ exp.pos \in 0 .. Len(exp.req.targets) /\ exp.round \in 0 .. exp.req.depth
  /\ exp.wanted \subseteq Ids /\ exp.visited \subseteq Ids
  /\ exp.frontier \subseteq exp.visited
  /\ exp.edges \subseteq Ends
  /\ exp.seeds \subseteq Entry /\ exp.found \subseteq Entry /\ exp.out \subseteq exp.found

\* What the store holds within the boundary of the request.
Fits(n) ==
  n # None /\ n.status \in exp.req.statuses /\ (exp.req.current => IsCurrent(n))
Within(i, groups) ==
  Fits(stored[i]) /\ GroupOf[stored[i].type] \in groups /\ exp.req.tags \subseteq stored[i].tags

Linked(i, j) ==
  \E l \in Ids : Fits(stored[l]) /\ GroupOf[stored[l].type] = "links"
                   /\ stored[l].ends = {i, j}

Asked ==
  IF exp.req.kind = "show" THEN {exp.req.node}
  ELSE {i \in Ids : Within(i, {exp.req.targets[n] : n \in DOMAIN exp.req.targets})}

\* A path of at most `depth` links from a seed, on nodes within the boundary.
Connected(i) ==
  LET on == {j \in Ids : Within(j, Reachable)} IN
  \E k \in 1 .. exp.req.depth : \E p \in [0 .. k -> on] :
    p[0] \in Asked /\ p[k] = i /\ \A n \in 1 .. k : Linked(p[n - 1], p[n])

\* An export finds the seeds and exactly the nodes that links connect to them within
\* the depth, whichever path is shorter and whatever cycles there are; unless the
\* store was changed meanwhile.
ReachExact == exp.at = "done" /\ ~touched =>
  {e.id : e \in exp.found} = Asked \cup {i \in Ids : Connected(i)}

\* README, "exports only the statuses each node type considers current", "notes:
\* excluded": also when other processes change statuses between the index, the
\* queries and the fetches.
BoundaryKept == exp.at = "done" /\ exp.req.kind # "show" =>
  \A e \in exp.found :
    /\ exp.req.current => IsCurrent(e.node)
    /\ \/ GroupOf[e.node.type] \notin Hidden
       \/ \E n \in DOMAIN exp.req.targets : exp.req.targets[n] = GroupOf[e.node.type]

\* A node is printed once, reached by links or asked for, and no group beyond its
\* limit, as long as no group is asked for twice.
PrintedOnce ==
  LET ts == exp.req.targets IN
  exp.at = "done" /\ (\A m, n \in DOMAIN ts : ts[m] = ts[n] => m = n) =>
    /\ \A d, e \in exp.out : d.id = e.id => d = e
    /\ exp.req.kind = "export" =>
         \A g \in Groups : Cardinality(InGroup(exp.out, g)) <= Limit[g]

\* The limit of a group never costs another group a node.
LimitsAreApart == exp.at = "done" /\ exp.req.kind = "export" =>
  \A g \in Groups : Cardinality(InGroup(exp.found, g)) <= Limit[g] =>
    InGroup(exp.out, g) = InGroup(exp.found, g)

\* Every export that was begun ends, although links form cycles and others edit.
ExportEnds == exp.at \notin Ended ~> exp.at \in Ended
=============================================================================
