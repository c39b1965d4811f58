---------------------------- MODULE MCMemStore ----------------------------
(***************************************************************************)
(* A small instance of MemStore: one built-in type per rule of the schema.  *)
(***************************************************************************)
EXTENDS MemStore, BuiltinGroups, TLC

CONSTANTS a, b, c, none

MCTypes == {"core_goal", "known_issue", "file_change", "note", "node_link"}
MCIds == {a, b, c}
MCStatuses == {"active", "resolved", "archived"}

MCGroups == HomeGroups(MCTypes)
MCGroupOf == GroupTable(MCTypes)
MCSingletons == BuiltinSingletons \cap MCTypes
MCMemoryBacked == BuiltinMemoryBacked \cap MCTypes

\* file_change has the status "stale" too; MCStatuses leaves it out.
MCValidStatuses == [t \in MCTypes |-> StatusTable(MCTypes)[t] \cap MCStatuses]

Fresh(t) == [type |-> t, status |-> "active", content |-> FALSE,
             source |-> FALSE, path |-> FALSE, refs |-> {}, expires |-> MaxTime + 1]

\* An add with every kind of metadata, some with a status the type does not
\* have, a path that a source makes redundant, or an end that is missing.
MCNewNodes ==
  {Fresh("core_goal"),
   [Fresh("core_goal") EXCEPT !.status = "resolved"],
   [Fresh("known_issue") EXCEPT !.expires = 1],
   [Fresh("file_change") EXCEPT !.path = TRUE],
   [Fresh("file_change") EXCEPT !.path = TRUE, !.source = TRUE],
   Fresh("note")}
     \cup {[Fresh("node_link") EXCEPT !.refs = r] : r \in {s \in SUBSET MCIds : Cardinality(s) = 2}}

\* prune --type T, --status S --limit 1, and --limit 2 alone.
MCQueries ==
  {[types |-> {"known_issue"}, statuses |-> MCStatuses, limit |-> 3],
   [types |-> MCTypes, statuses |-> {"archived"}, limit |-> 1],
   [types |-> MCTypes, statuses |-> MCStatuses, limit |-> 2]}

Symmetry == Permutations(MCIds)

\* No action reads how the last command ended, so states that differ in that
\* alone go on alike; the properties of a step's outcome look at every step.
View == <<file, index, now>>
=============================================================================
