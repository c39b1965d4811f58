------------------------------- MODULE MCStack -------------------------------
(***************************************************************************)
(* Two buckets that have one path in common, for TLC.                         *)
(***************************************************************************)
EXTENDS Stack, TLC

CONSTANTS p1, p2, p3, none

MCBuckets == {"b1", "b2"}
MCRepoOf == [b \in MCBuckets |-> IF b = "b1" THEN "r1" ELSE "r2"]
MCFolderOrder == [b \in MCBuckets |-> IF b = "b1" THEN 1 ELSE 2]

\* x: an agent in both; y: a skill in b1; z: a hook in b2 that is not rendered; a chunk.
MCPaths == {"x.agent", "y.skill", "z.hook", "chunk"}
MCNames == {"x", "y", "z"}
MCNameOf == [p \in MCPaths |-> CASE p = "y.skill" -> "y" [] p = "z.hook" -> "z" [] OTHER -> "x"]
MCKindOf == [p \in MCPaths |-> CASE p = "x.agent" -> "agent" [] p = "y.skill" -> "skill"
                                 [] p = "z.hook" -> "hook" [] OTHER -> none]
MCUpstream == [b \in MCBuckets |-> IF b = "b1" THEN {"x.agent", "y.skill", "chunk"}
                                                ELSE {"x.agent", "z.hook"}]
MCNameOrder == [n \in MCNames |-> CASE n = "x" -> 1 [] n = "y" -> 2 [] n = "z" -> 3]

\* A request that names nothing is close to the label of y.
MCSimilar(request, label) ==
  IF request = label THEN 10 ELSE IF label = Bare("y") THEN 7 ELSE 3

Install(name, bucket, kind, request) ==
  [op |-> "install", name |-> name, buckets |-> {bucket}, kind |-> kind,
   request |-> request, conf |-> Exact]
Fetch(request, conf) == [op |-> "fetch", request |-> request, conf |-> conf]
Fact(op, scope, val) == [op |-> op, doc |-> scope, key |-> "k", val |-> val]

MCCommands ==
  {Install("x", "b1", "agent", Bare("x")), Install("x", "b1", "skill", AtPath("y.skill")),
   Install("z", "b2", "hook", Bare("z")), Install("y", "b2", "skill", Bare("y")),
   [op |-> "uninstall", name |-> "x"],
   [op |-> "add", buckets |-> {"b1"}], [op |-> "remove", buckets |-> {"b1"}],
   [op |-> "remove", buckets |-> MCBuckets],
   [op |-> "sync", dry |-> FALSE], [op |-> "sync", dry |-> TRUE],
   Fetch(Bare("x"), Exact), Fetch(AtPath("y.skill"), Exact), Fetch(Qualified("r1", "x"), Exact),
   Fetch(Qualified("r2", "x"), Exact), Fetch(Bare("w"), 5), Fetch(Bare("w"), 8),
   Fact("set", "project", "v"), Fact("set", "global", "v"), Fact("unset", "project", "v"),
   [op |-> "get"]}

Registered == [n \in MCNames |->
  LET p == CHOOSE q \in MCPaths : MCNameOf[q] = n /\ MCKindOf[q] # none
  IN [bucket |-> IF n = "z" THEN "b2" ELSE "b1", kind |-> MCKindOf[p], path |-> p]]

Documents(names, buckets, project) ==
  [f \in Docs |-> CASE f = "registry" -> [n \in MCNames |-> IF n \in names THEN Registered[n] ELSE none]
                    [] f = "index" -> [b \in MCBuckets |-> IF b \in buckets THEN "cached" ELSE none]
                    [] f = "project" -> [k \in {"k"} |-> project]
                    [] OTHER -> [k \in {"k"} |-> "u"]]

Absent == [there |-> FALSE, files |-> {}]
Whole(b) == [there |-> TRUE, files |-> MCUpstream[b]]

\* Nothing yet; or everything, with b1 as cached, half removed or gone.
MCInitial ==
  {[doc |-> Documents({}, {}, none), dir |-> [b \in MCBuckets |-> Absent]]} \cup
  {[doc |-> Documents(MCNames, MCBuckets, "w"),
    dir |-> [b \in MCBuckets |-> IF b = "b1" THEN one ELSE Whole(b)]] :
     one \in {Whole("b1"), [there |-> TRUE, files |-> {}], Absent}}

Symmetry == Permutations(Procs)
=============================================================================
