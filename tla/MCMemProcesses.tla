-------------------------- MODULE MCMemProcesses --------------------------
(***************************************************************************)
(* Three zhar processes on a store with a resolved known_issue, and with    *)
(* either an active core_goal beside it or a note about it.                 *)
(***************************************************************************)
EXTENDS MemProcesses, BuiltinGroups, TLC

CONSTANTS a, b, c, p1, p2, p3, none, torn

MCTypes == {"core_goal", "known_issue", "note"}
MCGroups == HomeGroups(MCTypes)
MCIds == {a, b, c}
MCProcs == {p1, p2, p3}
MCStatuses == {"active", "resolved", "archived"}
MCGroupOf == GroupTable(MCTypes)
MCValidStatuses == StatusTable(MCTypes)
MCSingletons == BuiltinSingletons \cap MCTypes
MCMemoryBacked == BuiltinMemoryBacked \cap MCTypes

MCLoadOrder == [project_dna |-> 1, problem_tracking |-> 2, notes |-> 3]

NodeOf(t, s) == [type |-> t, status |-> s, content |-> FALSE, source |-> FALSE,
                 path |-> FALSE, refs |-> {}, expires |-> MaxTime + 1]

Goal == NodeOf("core_goal", "active")
Issue == NodeOf("known_issue", "resolved")

\* Node x under a and y under b.
Store(x, y) ==
  [g \in MCGroups |-> [i \in MCIds |->
     IF i = a /\ g = GroupOf[x.type] THEN x
     ELSE IF i = b /\ g = GroupOf[y.type] THEN y ELSE none]]

MCInitialStores ==
  {Store(Goal, [Issue EXCEPT !.expires = 0]), Store(AttachedNote({b}), Issue)}

\* add-note fails where one of its targets is a note itself.
MCCommands ==
  {[op |-> "add", node |-> Goal],
   [op |-> "add-note", ids |-> {a, b}],
   [op |-> "status", ids |-> {a}, status |-> "archived"],
   [op |-> "remove", ids |-> {b}],
   [op |-> "prune", status |-> "resolved"],
   [op |-> "gc"]}

Symmetry == Permutations(MCProcs)
=============================================================================
