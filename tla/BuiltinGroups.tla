--------------------------- MODULE BuiltinGroups ---------------------------
(***************************************************************************)
(* The schema of the built-in groups (mem/groups/*.py): for each type its   *)
(* statuses and those that count as current for export.  The model checking *)
(* modules take their constants from here.                                  *)
(***************************************************************************)

TypeDef(valid, default, current) ==
  [valid |-> valid, default |-> default, current |-> current]

Lasting   == TypeDef({"active", "archived"}, "active", {"active"})
Ageing    == TypeDef({"active", "stale", "archived"}, "active", {"active"})
Retirable == TypeDef({"active", "deprecated", "archived"}, "active", {"active"})

ProjectDna ==
  [t \in {"core_goal", "core_requirement", "product_context", "stakeholder"} |->
    Lasting]

ProblemTracking ==
  [known_issue |-> TypeDef({"active", "resolved", "archived"}, "active", {"active"}),
   blocked     |-> TypeDef({"active", "resolved"}, "active", {"active"})]

DecisionTrail ==
  [adr              |-> TypeDef({"proposed", "accepted", "superseded"},
                                "proposed", {"accepted"}),
   decision         |-> TypeDef({"active", "superseded", "archived"},
                                "active", {"active"}),
   lesson_learned   |-> Lasting,
   research_finding |-> Lasting]

ArchitectureContext ==
  [architecture   |-> Ageing,  design_pattern  |-> Lasting,
   component_rel  |-> Retirable, tech_stack    |-> Ageing,
   tech_setup     |-> Ageing,  tech_constraint |-> Lasting,
   env_config     |-> Ageing,  external_dep    |-> Retirable]

CodeHistory ==
  [file_change |-> Ageing, function_change |-> Ageing,
   breaking_change |-> Lasting, revert_note |-> Lasting]

Links == [node_link |-> Lasting]
Notes == [note |-> Lasting]

Builtin ==
  [project_dna |-> ProjectDna, problem_tracking |-> ProblemTracking,
   decision_trail |-> DecisionTrail, architecture_context |-> ArchitectureContext,
   code_history |-> CodeHistory, links |-> Links, notes |-> Notes]

BuiltinSingletons == {"core_goal"}

BuiltinMemoryBacked ==
  {"core_requirement", "product_context", "known_issue", "adr", "lesson_learned",
   "research_finding", "architecture", "design_pattern", "tech_setup",
   "tech_constraint", "breaking_change", "note"}

\* The groups that hold the types in `types`, and the type's group and statuses.
HomeGroup(t) == CHOOSE g \in DOMAIN Builtin : t \in DOMAIN Builtin[g]
HomeGroups(types) == {HomeGroup(t) : t \in types}
GroupTable(types) == [t \in types |-> HomeGroup(t)]
StatusTable(types) == [t \in types |-> Builtin[HomeGroup(t)][t].valid]

\* No type name occurs in two groups, and every default status is valid.
ASSUME BuiltinAssumption ==
  /\ \A g, h \in DOMAIN Builtin :
       g # h => DOMAIN Builtin[g] \cap DOMAIN Builtin[h] = {}
  /\ \A g \in DOMAIN Builtin : \A t \in DOMAIN Builtin[g] :
       /\ Builtin[g][t].default \in Builtin[g][t].valid
       /\ Builtin[g][t].current \subseteq Builtin[g][t].valid
=============================================================================
