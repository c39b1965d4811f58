---------------------------- MODULE MCMemIndex ----------------------------
(***************************************************************************)
(* A small instance of MemIndex: two types of one group, a singleton and not.  *)
(***************************************************************************)
EXTENDS MemIndex, BuiltinGroups, TLC

CONSTANTS a, b, c, none

MCTypes == {"core_goal", "core_requirement"}
MCIds == {a, b, c}
MCStatuses == {"active", "archived"}
MCGroups == HomeGroups(MCTypes)
MCGroupOf == GroupTable(MCTypes)
MCValidStatuses == [t \in MCTypes |-> StatusTable(MCTypes)[t] \cap MCStatuses]
MCSingletons == BuiltinSingletons \cap MCTypes
MCMemoryBacked == BuiltinMemoryBacked \cap MCTypes

Symmetry == Permutations(MCIds)

\* No action reads the last answer, so states that differ in that alone go on
\* alike; what may be answered is looked at on every step.
View == <<refs, lists, history>>
=============================================================================
