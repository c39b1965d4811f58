---------------------------- MODULE MCMigration ----------------------------
(***************************************************************************)
(* A small instance of Migration: graphs that complete, that stop at a second *)
(* active goal or at a record without dates, and that hold a task state.      *)
(***************************************************************************)
EXTENDS Migration

CONSTANT none

MCTypes == {"core_goal", "product_context", "known_issue", "note"}
MCIds == LongIds \cup ShortIds
MCStatuses == {"active", "archived", "resolved"}
MCGroups == HomeGroups(MCTypes)
MCGroupOf == GroupTable(MCTypes)
MCValidStatuses == [t \in MCTypes |-> StatusTable(MCTypes)[t] \cap MCStatuses]
MCSingletons == BuiltinSingletons \cap MCTypes
MCMemoryBacked == BuiltinMemoryBacked \cap MCTypes

Legacy(prefix) == [length |-> 4, prefix |-> prefix, slot |-> 0]
Zmem(id, type, status) == [id |-> id, type |-> type, status |-> status, dated |-> TRUE]

Goal == Zmem(Legacy(0), "core_goal", "active")
Issue == Zmem(Legacy(1), "known_issue", "resolved")
Focus == Zmem(Legacy(2), "current_focus", "archived")
Next2 == Zmem(Legacy(1), "next_step", "active")
File == Zmem(Legacy(1), "plan", "active")

\* A second goal whose status zhar does not have becomes an active one.
Second == Zmem(Legacy(1), "core_goal", "in_review")

MCGraphs ==
  {<<Goal, Issue, Focus>>,
   <<Focus, File, Next2, Goal>>,
   <<Goal, Second>>,
   <<Issue, [Goal EXCEPT !.dated = FALSE]>>}

\* The nodes a migration adds, for the memory commands to add them.
MCNewNodes ==
  {MappedNode(g[n]) : <<g, n>> \in {<<h, m>> \in MCGraphs \X (1 .. 4) :
                        m \in DOMAIN h /\ h[m].type \in Direct}} \cup {HostNode}
=============================================================================
