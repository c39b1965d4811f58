------------------------------ MODULE MCExport ------------------------------
(***************************************************************************)
(* A small instance of Export: issues, decisions and a note that            *)
(* links connect in a chain, through an archived node, or not at all.         *)
(***************************************************************************)
EXTENDS Export, BuiltinGroups

CONSTANTS a, b, c, l, m, none

MCIds == {a, b, c, l, m}
MCTypes == {"known_issue", "decision", "note", "node_link"}
MCGroups == HomeGroups(MCTypes)
MCGroupOf == GroupTable(MCTypes)
MCStatuses == {"active", "archived"}
MCTags == {"t"}
MCCurrent == [t \in MCTypes |-> Builtin[HomeGroup(t)][t].current]
MCTypeOrder == [t \in MCTypes |->
  CASE t = "decision" -> 1 [] t = "known_issue" -> 2 [] t = "node_link" -> 3 [] t = "note" -> 4]
MCCreated == [i \in MCIds |->
  CASE i = a -> 1 [] i = b -> 2 [] i = c -> 3 [] i = l -> 4 [] i = m -> 5]

\* A limit of one, as code_history has one of fifteen.
MCLimit == [g \in MCGroups |-> IF g = "problem_tracking" THEN 1 ELSE 5]

Is(type, status, tags) == [type |-> type, status |-> status, tags |-> tags, ends |-> {}]
Link(ends) == [type |-> "node_link", status |-> "active", tags |-> {}, ends |-> ends]

\* a - b - c; a and c only through an archived b; a - b, a note and a link with one end.
MCInitialStores ==
  {[i \in MCIds |-> CASE i = a -> Is("known_issue", "active", {"t"})
                      [] i = b -> Is("decision", s, {"t"})
                      [] i = c -> Is("decision", "active", {})
                      [] i = l -> Link({a, b}) [] i = m -> Link({b, c})] : s \in MCStatuses}
  \cup
  {[i \in MCIds |-> CASE i = a -> Is("known_issue", "active", {"t"})
                      [] i = b -> Is("decision", "active", {"t"})
                      [] i = c -> Is("note", "active", {})
                      [] i = l -> Link({a, b}) [] i = m -> Link({b})],
   [i \in MCIds |-> CASE i = a -> Is("decision", "active", {"t"})
                      [] i = b -> Is("known_issue", "active", {"t"})
                      [] i = c -> Is("known_issue", "active", {"t"})
                      [] i = l -> Link({a, b}) [] i = m -> Link({a, c})]}

\* `only` are the statuses asked for, none of them for the default boundary.
Ask(kind, targets, only, tags, depth) ==
  [kind |-> kind, targets |-> targets, node |-> a, current |-> only = {},
   statuses |-> IF only = {} THEN MCStatuses ELSE only, tags |-> tags, depth |-> depth]

Issues == <<"problem_tracking">>
Both == <<"problem_tracking", "decision_trail">>

MCRequests ==
  {Ask("export", Issues, {}, {}, d) : d \in 0 .. 2}
    \cup {Ask("export", Both, s, {}, 1) : s \in {{}, {"archived"}, {"active"}}}
    \cup {Ask("export", <<"decision_trail">>, {}, tags, 2) : tags \in {{}, {"t"}}}
    \cup {Ask("export", <<"problem_tracking", "problem_tracking">>, {}, {}, 1),
          Ask("export", <<"notes", "links">>, {}, {}, 1),
          Ask("payload", Issues, {}, {}, 2),
          Ask("show", Issues, {}, {}, 2)}
=============================================================================
