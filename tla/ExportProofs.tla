---------------------------- MODULE ExportProofs ----------------------------
(***************************************************************************)
(* What an export finds and prints, for every store, schema and request and *)
(* any number of changes by other processes.                                *)
(***************************************************************************)
EXTENDS Export, FiniteSetTheorems, WellFoundedInduction, TLAPS

-----------------------------------------------------------------------------
(* The order of the output and its limits.                                  *)

\* A set of numbers that has a property at all has a least one that has it.
LEMMA LeastOf ==
  ASSUME NEW S \in SUBSET Nat, S # {}
  PROVE  \E m \in S : \A k \in S : m <= k
  <1> DEFINE R == OpToRel(<, Nat)
  <1>1. IsWellFoundedOn(R, Nat)
    BY NatLessThanWellFounded
  <1> HIDE DEF R
  <1>2. PICK m \in S : \A k \in S : ~ (<<k, m>> \in R)
    BY <1>1, WFMin
  <1>3. \A k \in S : k < m => <<k, m>> \in R
    BY DEF OpToRel, R
  <1>4. ASSUME NEW k \in S PROVE m <= k
    <2>1. m \in Nat /\ k \in Nat /\ ~(k < m)
      BY <1>2, <1>3
    <2> QED BY <2>1
  <1> QED BY <1>4

\* Entries of one id have one type, and one entry for each time it was queried.
Distinct(S) ==
  /\ S \subseteq Entry /\ IsFiniteSet(S)
  /\ \A d, e \in S : d.id = e.id =>
       d.node.type = e.node.type /\ (d.pos = e.pos => d = e)

\* _sort_nodes orders them one after the other.
LEMMA BeforeOrders ==
  ASSUME NEW S, Distinct(S)
  PROVE  /\ \A d \in S : ~Before(d, d)
         /\ \A d, e, f \in S : Before(d, e) /\ Before(e, f) => Before(d, f)
         /\ \A d, e \in S : d # e => Before(d, e) \/ Before(e, d)
  <1>1. \A d \in S : /\ TypeOrder[d.node.type] \in Nat /\ Created[d.id] \in Nat /\ d.pos \in Nat
                     /\ d.id \in Ids
    BY ExportAssumption DEF Distinct, Entry, Node
  <1>2. \A d, e \in S : Created[d.id] = Created[e.id] =>
          d.id = e.id /\ d.node.type = e.node.type /\ (d.pos = e.pos => d = e)
    BY <1>1, ExportAssumption DEF Distinct
  <1>3. \A d, e \in S : d.id = e.id => TypeOrder[d.node.type] = TypeOrder[e.node.type]
    BY DEF Distinct
  <1>4. \A d \in S : ~Before(d, d)
    BY <1>1 DEF Before
  <1>5. ASSUME NEW d \in S, NEW e \in S, NEW f \in S, Before(d, e), Before(e, f)
        PROVE  Before(d, f)
    <2> DEFINE rank(x) == TypeOrder[x.node.type]
    <2>1. /\ rank(d) \in Nat /\ rank(e) \in Nat /\ rank(f) \in Nat
          /\ Created[d.id] \in Nat /\ Created[e.id] \in Nat /\ Created[f.id] \in Nat
          /\ d.pos \in Nat /\ e.pos \in Nat /\ f.pos \in Nat
      BY <1>1
    <2>2. /\ d.id = e.id => rank(d) = rank(e) /\ Created[d.id] = Created[e.id]
          /\ e.id = f.id => rank(e) = rank(f) /\ Created[e.id] = Created[f.id]
      BY <1>3
    <2>3. /\ \/ rank(d) < rank(e)
             \/ rank(d) = rank(e) /\ Created[d.id] < Created[e.id]
             \/ d.id = e.id /\ d.pos < e.pos
          /\ \/ rank(e) < rank(f)
             \/ rank(e) = rank(f) /\ Created[e.id] < Created[f.id]
             \/ e.id = f.id /\ e.pos < f.pos
      BY <1>5 DEF Before
    <2>4. \/ rank(d) < rank(f)
          \/ rank(d) = rank(f) /\ Created[d.id] < Created[f.id]
          \/ d.id = f.id /\ d.pos < f.pos
      <3> HIDE DEF rank
      <3> QED BY <2>1, <2>2, <2>3
    <2> QED BY <2>4 DEF Before
  <1>6. ASSUME NEW d \in S, NEW e \in S, d # e PROVE Before(d, e) \/ Before(e, d)
    BY <1>1, <1>2, <1>6 DEF Before
  <1> QED BY <1>4, <1>5, <1>6

\* limit_nodes_for_export keeps no more than the limit.
LEMMA FirstAreFew ==
  ASSUME NEW S, Distinct(S), NEW n \in Nat
  PROVE  Cardinality(FirstOf(S, n)) <= n
  <1> DEFINE F == FirstOf(S, n)
             ahead(e) == {d \in S : Before(d, e)}
  <1>1. IsFiniteSet(S) /\ F \subseteq S /\ IsFiniteSet(F) /\ Cardinality(F) \in Nat
    BY FS_Subset, FS_CardinalityType DEF Distinct, FirstOf
  <1>2. \A e \in S : IsFiniteSet(ahead(e)) /\ Cardinality(ahead(e)) \in Nat
    BY <1>1, FS_Subset, FS_CardinalityType
  <1>3. \A e \in F : Cardinality(ahead(e)) < n
    BY DEF FirstOf
  <1>4. CASE F = {}
    BY <1>4, FS_EmptySet
  <1>5. CASE F # {}
    <2> DEFINE T == {n - Cardinality(ahead(e)) : e \in F}
    <2>1. T \in SUBSET Nat /\ T # {}
      <3>1. \A e \in F : n - Cardinality(ahead(e)) \in Nat
        BY <1>1, <1>2, <1>3
      <3> QED BY <1>5, <3>1
    <2>2. PICK m \in T : \A k \in T : m <= k
      BY <2>1, LeastOf
    <2>3. PICK last \in F : m = n - Cardinality(ahead(last))
      OBVIOUS
    <2>4. ASSUME NEW d \in F \ {last} PROVE d \in ahead(last)
      <3>1. d \in S /\ last \in S
        BY <1>1
      <3>2. CASE Before(last, d)
        <4>1. ahead(last) \cup {last} \subseteq ahead(d)
          BY <3>1, <3>2, BeforeOrders
        <4>2. last \notin ahead(last)
          BY <3>1, BeforeOrders
        <4>3. Cardinality(ahead(last) \cup {last}) = Cardinality(ahead(last)) + 1
          BY <1>2, <3>1, <4>2, FS_AddElement
        <4>4. Cardinality(ahead(last) \cup {last}) <= Cardinality(ahead(d))
          BY <1>2, <3>1, <4>1, FS_Subset
        <4>5. n - Cardinality(ahead(last)) <= n - Cardinality(ahead(d))
          BY <2>2, <2>3
        <4>6. Cardinality(ahead(last)) \in Nat /\ Cardinality(ahead(d)) \in Nat
          BY <1>2, <3>1
        <4> QED BY <4>3, <4>4, <4>5, <4>6
      <3> QED BY <3>1, <3>2, BeforeOrders
    <2>5. Cardinality(F \ {last}) <= Cardinality(ahead(last))
      BY <1>1, <1>2, <2>4, FS_Subset
    <2>6. Cardinality(F \ {last}) = Cardinality(F) - 1
      BY <1>1, FS_RemoveElement
    <2>7. Cardinality(ahead(last)) < n /\ Cardinality(ahead(last)) \in Nat
      BY <1>1, <1>2, <1>3
    <2> HIDE DEF F, ahead
    <2>8. Cardinality(F) <= n
      BY <1>1, <2>5, <2>6, <2>7
    <2> QED BY <2>8 DEF F
  <1> QED BY <1>4, <1>5

\* It keeps all of what is within the limit.
LEMMA FirstAreAll ==
  ASSUME NEW S, Distinct(S), NEW n \in Nat, Cardinality(S) <= n
  PROVE  FirstOf(S, n) = S
  <1>1. ASSUME NEW e \in S PROVE Cardinality({d \in S : Before(d, e)}) < n
    <2> DEFINE ahead == {d \in S : Before(d, e)}
    <2>1. ahead \subseteq S \ {e}
      BY BeforeOrders
    <2>2. IsFiniteSet(S) /\ Cardinality(S) \in Nat
      BY FS_CardinalityType DEF Distinct
    <2>3. IsFiniteSet(S \ {e}) /\ Cardinality(S \ {e}) = Cardinality(S) - 1
      BY <2>2, FS_RemoveElement
    <2>4. Cardinality(ahead) <= Cardinality(S \ {e}) /\ Cardinality(ahead) \in Nat
      BY <2>1, <2>3, FS_Subset, FS_CardinalityType
    <2> HIDE DEF ahead
    <2>5. Cardinality(ahead) < n
      BY <2>2, <2>3, <2>4
    <2> QED BY <2>5 DEF ahead
  <1> QED BY <1>1 DEF FirstOf

-----------------------------------------------------------------------------
(* Walks along links.                                                       *)

\* A walk of k links from a node of `from` to node i, on the nodes `on`.
Walk(on, from, links, k, i) ==
  \E p \in [0 .. k -> on] :
    p[0] \in from /\ p[k] = i /\ \A n \in 1 .. k : {p[n - 1], p[n]} \in links

LEMMA WalkStarts ==
  ASSUME NEW on, NEW from, NEW links, NEW i
  PROVE  Walk(on, from, links, 0, i) <=> i \in on \cap from
  <1>1. ASSUME i \in on \cap from PROVE Walk(on, from, links, 0, i)
    <2> DEFINE p == [n \in 0 .. 0 |-> i]
    <2>1. p \in [0 .. 0 -> on] /\ p[0] = i
      BY <1>1
    <2>2. \A n \in 1 .. 0 : FALSE
      OBVIOUS
    <2> HIDE DEF p
    <2> QED BY <1>1, <2>1, <2>2 DEF Walk
  <1>2. ASSUME Walk(on, from, links, 0, i) PROVE i \in on \cap from
    BY <1>2 DEF Walk
  <1> QED BY <1>1, <1>2

LEMMA WalkOn ==
  ASSUME NEW on, NEW from, NEW links, NEW k \in Nat, NEW i, Walk(on, from, links, k, i)
  PROVE  i \in on
  BY DEF Walk

\* A walk is one link longer than a walk.
LEMMA WalkGrows ==
  ASSUME NEW on, NEW from, NEW links, NEW k \in Nat, NEW i, Walk(on, from, links, k, i),
         NEW j \in on, {i, j} \in links
  PROVE  Walk(on, from, links, k + 1, j)
  <1>1. PICK p \in [0 .. k -> on] :
          p[0] \in from /\ p[k] = i /\ \A n \in 1 .. k : {p[n - 1], p[n]} \in links
    BY DEF Walk
  <1> DEFINE q == [n \in 0 .. k + 1 |-> IF n = k + 1 THEN j ELSE p[n]]
  <1>2. q \in [0 .. k + 1 -> on]
    OBVIOUS
  <1>3. q[0] \in from /\ q[k + 1] = j
    BY <1>1
  <1>4. ASSUME NEW n \in 1 .. k + 1 PROVE {q[n - 1], q[n]} \in links
    <2>1. CASE n = k + 1
      <3>1. n - 1 = k /\ k \in 0 .. k + 1 /\ k # k + 1 /\ n \in 0 .. k + 1
        BY <2>1
      <3>2. q[n - 1] = i /\ q[n] = j
        BY <1>1, <2>1, <3>1
      <3> QED BY <3>2
    <2>2. CASE n # k + 1
      <3>1. /\ n \in 1 .. k /\ n - 1 \in 0 .. k + 1 /\ n - 1 # k + 1 /\ n \in 0 .. k + 1
        BY <2>2
      <3>2. q[n - 1] = p[n - 1] /\ q[n] = p[n]
        BY <2>2, <3>1
      <3> QED BY <1>1, <3>1, <3>2
    <2> QED BY <2>1, <2>2
  <1> HIDE DEF q
  <1> QED BY <1>2, <1>3, <1>4 DEF Walk

LEMMA WalkShrinks ==
  ASSUME NEW on, NEW from, NEW links, NEW k \in Nat, NEW j, Walk(on, from, links, k + 1, j)
  PROVE  \E i \in on : Walk(on, from, links, k, i) /\ {i, j} \in links
  <1>1. PICK p \in [0 .. k + 1 -> on] :
          /\ p[0] \in from /\ p[k + 1] = j
          /\ \A n \in 1 .. k + 1 : {p[n - 1], p[n]} \in links
    BY DEF Walk
  <1> DEFINE q == [n \in 0 .. k |-> p[n]]
  <1>2. q \in [0 .. k -> on] /\ q[0] \in from /\ q[k] = p[k] /\ p[k] \in on
    BY <1>1
  <1>3. ASSUME NEW n \in 1 .. k PROVE {q[n - 1], q[n]} \in links
    <2>1. n \in 1 .. k + 1 /\ n - 1 \in 0 .. k /\ n \in 0 .. k
      OBVIOUS
    <2>2. q[n - 1] = p[n - 1] /\ q[n] = p[n]
      BY <2>1
    <2> QED BY <1>1, <2>1, <2>2
  <1>4. {p[k], j} \in links
    BY <1>1
  <1> HIDE DEF q
  <1>5. Walk(on, from, links, k, p[k])
    BY <1>2, <1>3 DEF Walk
  <1> QED BY <1>2, <1>4, <1>5

\* Breadth first: what was visited in so many rounds, and what the last one added.
Walked(on, from, links, round, visited, frontier) ==
  /\ \A i : i \in visited <=> \E k \in 0 .. round : Walk(on, from, links, k, i)
  /\ \A i : i \in frontier <=>
       /\ Walk(on, from, links, round, i)
       /\ \A k \in 0 .. round - 1 : ~Walk(on, from, links, k, i)

\* One more round adds exactly what is one link further.
LEMMA RoundWalks ==
  ASSUME NEW on, NEW from, NEW links, NEW round \in Nat, NEW visited, NEW frontier,
         Walked(on, from, links, round, visited, frontier), NEW next,
         \A j : j \in next <=>
           j \in on \ visited /\ \E i \in frontier : j # i /\ {i, j} \in links
  PROVE  Walked(on, from, links, round + 1, visited \cup next, next)
  <1> DEFINE W(k, i) == Walk(on, from, links, k, i)
  <1>1. /\ \A i : i \in visited <=> \E k \in 0 .. round : W(k, i)
        /\ \A i : i \in frontier <=> W(round, i) /\ \A k \in 0 .. round - 1 : ~W(k, i)
    BY DEF Walked
  <1>2. ASSUME NEW i, NEW j \in on, NEW k \in Nat, W(k, i), {i, j} \in links PROVE W(k + 1, j)
    BY <1>2, WalkGrows
  <1>3. ASSUME NEW j, W(round + 1, j)
        PROVE  j \in on /\ \E i \in on : W(round, i) /\ {i, j} \in links
    <2>1. round + 1 \in Nat
      OBVIOUS
    <2> QED BY <1>3, <2>1, WalkShrinks, WalkOn
  <1> HIDE DEF W
  <1>4. ASSUME NEW j \in next PROVE W(round + 1, j) /\ j \notin visited
    <2>1. PICK i \in frontier : j # i /\ {i, j} \in links
      OBVIOUS
    <2> QED BY <1>1, <1>2, <2>1
  <1>5. ASSUME NEW j, W(round + 1, j), j \notin visited PROVE j \in next
    <2>1. PICK i \in on : W(round, i) /\ {i, j} \in links /\ j \in on
      BY <1>3, <1>5
    <2>2. ASSUME NEW k \in 0 .. round - 1 PROVE ~W(k, i)
      <3>1. k + 1 \in 0 .. round /\ k \in Nat
        OBVIOUS
      <3> QED BY <1>1, <1>2, <1>5, <2>1, <3>1
    <2>3. i \in frontier
      BY <1>1, <2>1, <2>2
    <2>4. i \in visited
      BY <1>1, <2>1
    <2> QED BY <1>5, <2>1, <2>3, <2>4
  <1>6. ASSUME NEW i PROVE i \in visited \cup next <=> \E k \in 0 .. round + 1 : W(k, i)
    <2>1. \A k \in 0 .. round + 1 : k \in 0 .. round \/ k = round + 1
      OBVIOUS
    <2>2. 0 .. round \subseteq 0 .. round + 1 /\ round + 1 \in 0 .. round + 1
      OBVIOUS
    <2> QED BY <1>1, <1>4, <1>5, <2>1, <2>2
  <1>7. ASSUME NEW i PROVE i \in next <=> W(round + 1, i) /\ \A k \in 0 .. (round + 1) - 1 : ~W(k, i)
    <2>1. 0 .. (round + 1) - 1 = 0 .. round
      OBVIOUS
    <2> QED BY <1>1, <1>4, <1>5, <2>1
  <1> QED BY <1>6, <1>7 DEF Walked, W

\* A round that adds nothing is the last one that matters.
LEMMA WalkEnds ==
  ASSUME NEW on, NEW from, NEW links, NEW round \in Nat, NEW visited,
         Walked(on, from, links, round, visited, {}),
         NEW k \in Nat, NEW i, Walk(on, from, links, k, i)
  PROVE  i \in visited
  <1> DEFINE W(n, j) == Walk(on, from, links, n, j)
             Far == {n \in Nat : \E j : W(n, j) /\ j \notin visited}
  <1>1. /\ \A j : j \in visited <=> \E n \in 0 .. round : W(n, j)
        /\ \A j : ~(W(round, j) /\ \A n \in 0 .. round - 1 : ~W(n, j))
    BY DEF Walked
  <1>2. ASSUME NEW j, NEW h \in on, NEW n \in Nat, W(n, j), {j, h} \in links PROVE W(n + 1, h)
    BY <1>2, WalkGrows
  <1>3. ASSUME NEW n \in Nat, NEW j, W(n + 1, j)
        PROVE  j \in on /\ \E h \in on : W(n, h) /\ {h, j} \in links
    <2>1. n + 1 \in Nat
      OBVIOUS
    <2> QED BY <1>3, <2>1, WalkShrinks, WalkOn
  <1>4. W(k, i)
    OBVIOUS
  <1> HIDE DEF W
  <1>5. Far = {}
    <2> SUFFICES ASSUME Far # {} PROVE FALSE
      OBVIOUS
    <2>1. PICK m \in Far : \A n \in Far : m <= n
      BY LeastOf
    <2>2. PICK j : W(m, j) /\ j \notin visited
      OBVIOUS
    <2>3. m > round
      BY <1>1, <2>2
    <2>4. m - 1 \in Nat /\ (m - 1) + 1 = m /\ ~(m <= m - 1)
      BY <2>3
    <2>5. PICK h \in on : W(m - 1, h) /\ {h, j} \in links /\ j \in on
      BY <1>3, <2>2, <2>4
    <2>6. h \in visited
      BY <2>1, <2>4, <2>5
    <2>7. PICK n \in 0 .. round : W(n, h) /\ (n = round => \E l \in 0 .. round - 1 : W(l, h))
      BY <1>1, <2>6
    <2>8. PICK l \in 0 .. round - 1 : W(l, h)
      <3>1. n # round => n \in 0 .. round - 1
        OBVIOUS
      <3> QED BY <2>7, <3>1
    <2>9. W(l + 1, j) /\ l + 1 \in 0 .. round
      BY <1>2, <2>5, <2>8
    <2> QED BY <1>1, <2>2, <2>9
  <1> QED BY <1>4, <1>5

-----------------------------------------------------------------------------
(* The export as it goes on: q is the export, r its request, s the store, t *)
(* whether the store was changed since it was opened.                       *)

Exports ==
  [at : Ended \cup {"seeds", "eligible", "links", "walk"}, req : Request, index : Store,
   pos : Nat, wanted : SUBSET Ids, seeds : SUBSET Entry, eligible : Store,
   edges : SUBSET Ends, visited : SUBSET Ids, frontier : SUBSET Ids, round : Nat,
   found : SUBSET Entry, out : SUBSET Entry]

IdsOf(S) == {d.id : d \in S}
TargetsOf(r, k) == {r.targets[n] : n \in 1 .. k}
Elig(q) == {i \in Ids : q.eligible[i] # None}

PassesFor(r, n) == n # None /\ (r.current => IsCurrent(n))
FitsFor(r, n) == n # None /\ n.status \in r.statuses /\ (r.current => IsCurrent(n))
WithinFor(r, s, i, groups) ==
  FitsFor(r, s[i]) /\ GroupOf[s[i].type] \in groups /\ r.tags \subseteq s[i].tags

\* What an export of the store is to find.
AskedFor(r, s) ==
  IF r.kind = "show" THEN {r.node}
  ELSE {i \in Ids : WithinFor(r, s, i, TargetsOf(r, Len(r.targets)))}
On(r, s) == {i \in Ids : WithinFor(r, s, i, Reachable)}
LinkNode(r, s, l) == FitsFor(r, s[l]) /\ GroupOf[s[l].type] = "links"
LinksFor(r, s) == {e \in Ends : \E l \in Ids : LinkNode(r, s, l) /\ s[l].ends = e}
Sees(r, s) ==
  AskedFor(r, s) \cup
  {i \in Ids : \E k \in 1 .. r.depth : Walk(On(r, s), AskedFor(r, s), LinksFor(r, s), k, i)}

Bounds(q) ==
  /\ q.req.targets # <<>> /\ q.pos <= Len(q.req.targets) /\ q.round <= q.req.depth
  /\ q.frontier \subseteq q.visited /\ q.out \subseteq q.found

\* Whatever is in the store was there when the index was built, with the same type.
Indexed(q, s) ==
  \A i \in Ids : s[i] # None => q.index[i] # None /\ q.index[i].type = s[i].type

\* A node that was fetched.
Taken(q, i, n) == PassesFor(q.req, n) /\ q.index[i] # None /\ q.index[i].type = n.type

\* The seeds, and those the present query has yet to fetch.
SeedsFit(q) ==
  /\ IsFiniteSet(q.seeds)
  /\ \A d \in q.seeds :
       /\ Taken(q, d.id, d.node)
       /\ q.req.kind = "show" => d.pos = 0 /\ d.id = q.req.node
       /\ q.req.kind # "show" =>
            d.pos \in 1 .. q.pos /\ GroupOf[d.node.type] = q.req.targets[d.pos]
  /\ \A d, e \in q.seeds : d.id = e.id /\ d.pos = e.pos => d = e
SeedsAwaited(q) ==
  \A i \in q.wanted :
    /\ q.req.kind = "show" => i = q.req.node /\ q.seeds = {}
    /\ q.req.kind # "show" =>
         /\ q.index[i] # None /\ q.pos >= 1
         /\ GroupOf[q.index[i].type] = q.req.targets[q.pos]
         /\ \A d \in q.seeds : d.id = i => d.pos < q.pos

\* The nodes an expansion may reach.
EligibleFit(q) ==
  \A i \in Ids : q.eligible[i] # None =>
    Taken(q, i, q.eligible[i]) /\ GroupOf[q.eligible[i].type] \in Reachable
EligibleAwaited(q) ==
  \A i \in q.wanted : q.index[i] # None /\ GroupOf[q.index[i].type] \in Reachable

\* What was found.
FoundFits(q) ==
  LET ts == q.req.targets IN
  /\ IsFiniteSet(q.found)
  /\ \A d \in q.found :
       /\ Taken(q, d.id, d.node)
       /\ q.req.kind # "show" =>
            \/ GroupOf[d.node.type] \notin Hidden
            \/ \E n \in DOMAIN ts : ts[n] = GroupOf[d.node.type]
  /\ \A d, e \in q.found : d.id = e.id =>
       /\ d.pos = e.pos => d = e
       /\ (\A m, n \in DOMAIN ts : ts[m] = ts[n] => m = n) => d = e
  /\ q.out = Limited(q, q.found)

\* As long as nobody changes the store, nothing is missed.
SeedsExact(q, s) ==
  IF q.req.kind = "show" THEN q.wanted \cup IdsOf(q.seeds) = {q.req.node}
  ELSE \A i \in Ids :
    /\ i \in IdsOf(q.seeds) => WithinFor(q.req, s, i, TargetsOf(q.req, q.pos))
    /\ i \in q.wanted =>
         i \in Matching(s, TargetsOf(q.req, q.pos), q.req.statuses, q.req.tags)
    /\ WithinFor(q.req, s, i, TargetsOf(q.req, q.pos)) => i \in IdsOf(q.seeds) \cup q.wanted
EligibleExact(q, s) ==
  \A i \in Ids :
    /\ i \in Elig(q) => i \in On(q.req, s)
    /\ i \in q.wanted => i \in Matching(s, Reachable, q.req.statuses, q.req.tags)
    /\ i \in On(q.req, s) => i \in Elig(q) \cup q.wanted
LinksExact(q, s) ==
  /\ q.edges \subseteq LinksFor(q.req, s)
  /\ q.wanted \subseteq Matching(s, {"links"}, q.req.statuses, {})
  /\ \A l \in Ids : LinkNode(q.req, s, l) => s[l].ends \in q.edges \/ l \in q.wanted

\* Stage by stage.
AtSeeds(q, s, t) ==
  /\ SeedsFit(q) /\ SeedsAwaited(q)
  /\ Elig(q) = {} /\ q.edges = {} /\ q.round = 0
  /\ ~t => SeedsExact(q, s)
AtEligible(q, s, t) ==
  /\ SeedsFit(q) /\ EligibleFit(q) /\ EligibleAwaited(q)
  /\ q.edges = {} /\ q.round = 0
  /\ ~t => IdsOf(q.seeds) = AskedFor(q.req, s) /\ EligibleExact(q, s)
AtLinks(q, s, t) ==
  /\ SeedsFit(q) /\ EligibleFit(q) /\ q.round = 0
  /\ ~t => /\ IdsOf(q.seeds) = AskedFor(q.req, s) /\ Elig(q) = On(q.req, s)
           /\ LinksExact(q, s)
AtWalk(q, s, t) ==
  /\ SeedsFit(q) /\ EligibleFit(q)
  /\ Walked(Elig(q), IdsOf(q.seeds), q.edges, q.round, q.visited, q.frontier)
  /\ ~t => /\ IdsOf(q.seeds) = AskedFor(q.req, s) /\ Elig(q) = On(q.req, s)
           /\ q.edges = LinksFor(q.req, s)
AtDone(q, s, t) ==
  /\ FoundFits(q)
  /\ ~t => IdsOf(q.found) = Sees(q.req, s)

Goal(q, s, t) ==
  /\ q \in Exports /\ Bounds(q) /\ Indexed(q, s)
  /\ ~t => q.index = s
  /\ q.at = "seeds" => AtSeeds(q, s, t)
  /\ q.at = "eligible" => AtEligible(q, s, t)
  /\ q.at = "links" => AtLinks(q, s, t)
  /\ q.at = "walk" => AtWalk(q, s, t)
  /\ q.at = "done" => AtDone(q, s, t)

IInv ==
  /\ stored \in Store /\ edits \in 0 .. MaxEdits /\ touched \in BOOLEAN
  /\ Goal(exp, stored, touched)

\* An export opens with the store as it is.
OpenedWith(at, r, s, w) ==
  [at |-> at, req |-> r, index |-> s, pos |-> 0, wanted |-> w, seeds |-> {},
   eligible |-> [i \in Ids |-> None], edges |-> {}, visited |-> {},
   frontier |-> {}, round |-> 0, found |-> {}, out |-> {}]

LEMMA OpensSound ==
  ASSUME NEW r \in Requests, NEW s \in Store, NEW w \in SUBSET Ids,
         NEW at \in {"idle", "seeds"},
         at = "seeds" => w = IF r.kind = "show" THEN {r.node} ELSE {},
         at = "idle" => w = {}
  PROVE  Goal(OpenedWith(at, r, s, w), s, FALSE)
  <1>0. PICK q :
          q = [at |-> at, req |-> r, index |-> s, pos |-> 0, wanted |-> w, seeds |-> {},
               eligible |-> [i \in Ids |-> None], edges |-> {}, visited |-> {},
               frontier |-> {}, round |-> 0, found |-> {}, out |-> {}]
    OBVIOUS
  <1>1. r \in Request /\ r.targets # <<>> /\ r.targets \in Seq(Groups) /\ r.depth \in Nat
    BY ExportAssumption DEF Request
  <1>2. q \in Exports
    <2>1. [i \in Ids |-> None] \in Store
      BY DEF Store
    <2>2. at \in Ended \cup {"seeds", "eligible", "links", "walk"}
      BY DEF Ended
    <2> QED BY <1>0, <1>1, <2>1, <2>2 DEF Exports
  <1>3. Bounds(q) /\ Indexed(q, s) /\ q.index = s /\ Elig(q) = {}
    BY <1>0, <1>1 DEF Bounds, Indexed, Elig
  <1>4. SeedsFit(q) /\ SeedsAwaited(q) /\ q.edges = {} /\ q.round = 0
    BY <1>0, FS_EmptySet DEF SeedsFit, SeedsAwaited
  <1>5. ASSUME at = "seeds" PROVE SeedsExact(q, s)
    <2>1. TargetsOf(q.req, q.pos) = {} /\ IdsOf(q.seeds) = {}
      BY <1>0 DEF TargetsOf, IdsOf
    <2>2. CASE r.kind = "show"
      BY <1>0, <1>5, <2>1, <2>2 DEF SeedsExact
    <2>3. CASE r.kind # "show"
      BY <1>0, <1>5, <2>1, <2>3 DEF SeedsExact, WithinFor
    <2> QED BY <2>2, <2>3
  <1>6. q.at = at
    BY <1>0
  <1> HIDE DEF Exports
  <1>7. q.at = "seeds" => AtSeeds(q, s, FALSE)
    BY <1>3, <1>4, <1>5, <1>6 DEF AtSeeds
  <1>8. q.at \notin {"eligible", "links", "walk", "done"}
    BY <1>6
  <1>9. Goal(q, s, FALSE)
    BY <1>2, <1>3, <1>7, <1>8 DEF Goal
  <1> QED BY <1>0, <1>9 DEF OpenedWith

\* Another process changes a node.
LEMMA EditsSound ==
  ASSUME NEW q, NEW s, NEW z, NEW t, Goal(q, s, t),
         \A i \in Ids : z[i] # None => s[i] # None /\ s[i].type = z[i].type
  PROVE  Goal(q, z, TRUE)
  <1>1. Indexed(q, z)
    BY DEF Goal, Indexed
  <1>2. /\ AtSeeds(q, s, t) => AtSeeds(q, z, TRUE)
        /\ AtEligible(q, s, t) => AtEligible(q, z, TRUE)
        /\ AtLinks(q, s, t) => AtLinks(q, z, TRUE)
        /\ AtWalk(q, s, t) => AtWalk(q, z, TRUE)
        /\ AtDone(q, s, t) => AtDone(q, z, TRUE)
    BY DEF AtSeeds, AtEligible, AtLinks, AtWalk, AtDone
  <1> QED BY <1>1, <1>2 DEF Goal

\* What a query selects is in the index, and no id is selected for two groups.
LEMMA MatchingFits ==
  ASSUME NEW idx \in Store, NEW groups, NEW statuses, NEW tags, NEW i,
         i \in Matching(idx, groups, statuses, tags)
  PROVE  i \in Ids /\ idx[i] # None /\ GroupOf[idx[i].type] \in groups
  BY DEF Matching

\* A node of the boundary is selected and not passed over.
LEMMA WithinMatches ==
  ASSUME NEW r, NEW s, NEW groups, NEW i \in Ids
  PROVE  WithinFor(r, s, i, groups) <=>
           i \in Matching(s, groups, r.statuses, r.tags) /\ PassesFor(r, s[i])
  BY DEF WithinFor, FitsFor, Matching, PassesFor

LEMMA QuerySeedsSound ==
  ASSUME NEW q, NEW s \in Store, NEW t \in BOOLEAN, Goal(q, s, t),
         q.at = "seeds", q.req.kind # "show", q.wanted = {}, q.pos < Len(q.req.targets),
         NEW m, m = Matching(q.index, {q.req.targets[q.pos + 1]}, q.req.statuses, q.req.tags),
         NEW j, j = [q EXCEPT !.pos = q.pos + 1, !.wanted = m]
  PROVE  Goal(j, s, t)
  <1>1. q \in Exports /\ Bounds(q) /\ Indexed(q, s) /\ (~t => q.index = s) /\ AtSeeds(q, s, t)
    BY DEF Goal
  <1>2. /\ q.req \in Request /\ q.req.targets \in Seq(Groups) /\ Len(q.req.targets) \in Nat
        /\ q.pos \in Nat /\ q.index \in Store /\ q.seeds \subseteq Entry
    BY <1>1 DEF Exports, Request
  <1>3. /\ j.at = "seeds" /\ j.req = q.req /\ j.index = q.index /\ j.pos = q.pos + 1
        /\ j.wanted = m /\ j.seeds = q.seeds /\ j.eligible = q.eligible
        /\ j.edges = q.edges /\ j.visited = q.visited /\ j.frontier = q.frontier
        /\ j.round = q.round /\ j.found = q.found /\ j.out = q.out
    BY <1>1 DEF Exports
  <1>4. m \subseteq Ids /\ q.pos + 1 \in Nat
    BY <1>2 DEF Matching
  <1>5. j \in Exports
    <2>1. PICK p \in Nat : p = q.pos + 1
      BY <1>4
    <2>2. j = [q EXCEPT !.pos = p, !.wanted = m]
      BY <2>1
    <2> QED BY <1>1, <1>4, <2>2 DEF Exports
  <1>6. Bounds(j) /\ Indexed(j, s) /\ (~t => j.index = s) /\ Elig(j) = Elig(q)
    BY <1>1, <1>2, <1>3 DEF Bounds, Indexed, Elig
  <1>7. SeedsFit(j)
    <2>1. SeedsFit(q)
      BY <1>1 DEF AtSeeds
    <2>2. 1 .. q.pos \subseteq 1 .. j.pos
      BY <1>2, <1>3
    <2>3. \A i, n : Taken(q, i, n) = Taken(j, i, n)
      BY <1>3 DEF Taken
    <2> QED BY <1>3, <2>1, <2>2, <2>3 DEF SeedsFit
  <1>8. SeedsAwaited(j)
    <2> SUFFICES ASSUME NEW i \in m
        PROVE /\ j.index[i] # None /\ j.pos >= 1
              /\ GroupOf[j.index[i].type] = j.req.targets[j.pos]
              /\ \A d \in j.seeds : d.id = i => d.pos < j.pos
      BY <1>3 DEF SeedsAwaited
    <2>1. q.index[i] # None /\ GroupOf[q.index[i].type] \in {q.req.targets[q.pos + 1]}
      BY <1>2, MatchingFits
    <2>2. \A d \in q.seeds : d.pos \in 1 .. q.pos
      BY <1>1 DEF AtSeeds, SeedsFit
    <2> QED BY <1>2, <1>3, <2>1, <2>2
  <1>9. ASSUME ~t PROVE SeedsExact(j, s)
    <2> DEFINE before == TargetsOf(q.req, q.pos)
               after == TargetsOf(q.req, q.pos + 1)
               g == q.req.targets[q.pos + 1]
    <2>1. after = before \cup {g}
      BY <1>2 DEF TargetsOf
    <2>2. \A i \in Ids :
            /\ i \in IdsOf(q.seeds) => WithinFor(q.req, s, i, before)
            /\ WithinFor(q.req, s, i, before) => i \in IdsOf(q.seeds)
      BY <1>1, <1>9 DEF AtSeeds, SeedsExact
    <2> HIDE DEF before, after, g
    <2>3. ASSUME NEW i \in Ids
          PROVE  /\ WithinFor(q.req, s, i, after) <=>
                      WithinFor(q.req, s, i, before) \/ WithinFor(q.req, s, i, {g})
                 /\ i \in m => i \in Matching(s, after, q.req.statuses, q.req.tags)
                 /\ WithinFor(q.req, s, i, {g}) => i \in m
      <3>1. m = Matching(s, {g}, q.req.statuses, q.req.tags)
        BY <1>1, <1>9 DEF g
      <3>2. WithinFor(q.req, s, i, after) <=>
              WithinFor(q.req, s, i, before) \/ WithinFor(q.req, s, i, {g})
        BY <2>1 DEF WithinFor
      <3>3. i \in m => i \in Matching(s, after, q.req.statuses, q.req.tags)
        BY <2>1, <3>1 DEF Matching
      <3>4. WithinFor(q.req, s, i, {g}) => i \in m
        BY <3>1, WithinMatches
      <3> QED BY <3>2, <3>3, <3>4
    <2>4. \A i \in Ids :
            /\ i \in IdsOf(j.seeds) => WithinFor(j.req, s, i, after)
            /\ i \in j.wanted => i \in Matching(s, after, j.req.statuses, j.req.tags)
            /\ WithinFor(j.req, s, i, after) => i \in IdsOf(j.seeds) \cup j.wanted
      BY <1>3, <2>2, <2>3
    <2> QED BY <1>3, <2>4 DEF SeedsExact, after
  <1>10. AtSeeds(j, s, t)
    BY <1>1, <1>3, <1>6, <1>7, <1>8, <1>9 DEF AtSeeds
  <1> QED BY <1>3, <1>5, <1>6, <1>10 DEF Goal

\* The export after a node was fetched.
SeedFetched(q, s, i) ==
  [q EXCEPT !.wanted = q.wanted \ {i},
            !.seeds = IF PassesFor(q.req, s[i])
                      THEN q.seeds \cup {[id |-> i, pos |-> q.pos, node |-> s[i]]}
                      ELSE q.seeds]
LinkFetched(q, s, i) ==
  [q EXCEPT !.wanted = q.wanted \ {i},
            !.edges = IF PassesFor(q.req, s[i]) THEN q.edges \cup {s[i].ends} ELSE q.edges]

LEMMA FetchSeedSound ==
  ASSUME NEW q, NEW s \in Store, NEW t \in BOOLEAN, Goal(q, s, t),
         q.at = "seeds", q.req.kind # "show", NEW i \in q.wanted
  PROVE  Goal(SeedFetched(q, s, i), s, t)
  <1>0. PICK S : S = IF PassesFor(q.req, s[i])
                     THEN q.seeds \cup {[id |-> i, pos |-> q.pos, node |-> s[i]]} ELSE q.seeds
    OBVIOUS
  <1>j. PICK j : j = [q EXCEPT !.wanted = q.wanted \ {i}, !.seeds = S]
    OBVIOUS
  <1>1. q \in Exports /\ Bounds(q) /\ Indexed(q, s) /\ (~t => q.index = s) /\ AtSeeds(q, s, t)
    BY DEF Goal
  <1>2. /\ q.req \in Request /\ q.req.targets \in Seq(Groups) /\ Len(q.req.targets) \in Nat
        /\ q.pos \in Nat /\ q.index \in Store /\ q.seeds \subseteq Entry /\ i \in Ids
    BY <1>1 DEF Exports, Request
  <1>3. /\ j.at = "seeds" /\ j.req = q.req /\ j.index = q.index /\ j.pos = q.pos
        /\ j.wanted = q.wanted \ {i} /\ j.seeds = S /\ j.eligible = q.eligible
        /\ j.edges = q.edges /\ j.visited = q.visited /\ j.frontier = q.frontier
        /\ j.round = q.round /\ j.found = q.found /\ j.out = q.out
    BY <1>1, <1>j DEF Exports
  <1> DEFINE d0 == [id |-> i, pos |-> q.pos, node |-> s[i]]
  <1>4. PassesFor(q.req, s[i]) => s[i] \in Node /\ d0 \in Entry
    BY <1>2 DEF PassesFor, Store, Entry
  <1>5. S \subseteq Entry
    BY <1>2, <1>4, <1>0
  <1>6. j \in Exports
    BY <1>1, <1>2, <1>5, <1>j DEF Exports
  <1>7. Bounds(j) /\ Indexed(j, s) /\ (~t => j.index = s) /\ Elig(j) = Elig(q)
    BY <1>1, <1>2, <1>3 DEF Bounds, Indexed, Elig
  <1>8. \A h, n : Taken(q, h, n) = Taken(j, h, n)
    BY <1>3 DEF Taken
  <1>9. SeedsFit(q) /\ SeedsAwaited(q)
    BY <1>1 DEF AtSeeds
  <1>10. SeedsFit(j)
    <2>1. IsFiniteSet(S)
      BY <1>9, <1>0, FS_AddElement DEF SeedsFit
    <2>2. PassesFor(q.req, s[i]) =>
            /\ Taken(q, i, s[i]) /\ q.pos \in 1 .. q.pos
            /\ GroupOf[s[i].type] = q.req.targets[q.pos]
            /\ \A d \in q.seeds : d.id = i => d.pos < q.pos
      BY <1>1, <1>2, <1>9 DEF SeedsAwaited, Indexed, Taken, PassesFor
    <2>3. ASSUME NEW d \in S
          PROVE  /\ Taken(q, d.id, d.node)
                 /\ d.pos \in 1 .. q.pos /\ GroupOf[d.node.type] = q.req.targets[d.pos]
      BY <1>9, <1>0, <2>2 DEF SeedsFit
    <2>4. ASSUME NEW d \in S, NEW e \in S, d.id = e.id, d.pos = e.pos PROVE d = e
      <3>1. \A f \in q.seeds : f.id = i => f.pos \in Nat /\ (f.pos < q.pos \/ S = q.seeds)
        BY <1>2, <1>0, <2>2 DEF Entry
      <3>2. \A f \in S : f \in q.seeds \/ (f = d0 /\ S # q.seeds)
        BY <1>0
      <3>3. d0.id = i /\ d0.pos = q.pos
        OBVIOUS
      <3> HIDE DEF d0
      <3> QED BY <1>2, <1>9, <2>4, <3>1, <3>2, <3>3 DEF SeedsFit
    <2> QED BY <1>3, <1>8, <2>1, <2>3, <2>4 DEF SeedsFit
  <1>11. SeedsAwaited(j)
    <2>1. \A h \in j.wanted : h \in q.wanted /\ h # i
      BY <1>3
    <2>2. \A d \in S : d.id = i \/ d \in q.seeds
      BY <1>0
    <2> QED BY <1>3, <1>9, <2>1, <2>2 DEF SeedsAwaited
  <1>12. ASSUME ~t PROVE SeedsExact(j, s)
    <2> DEFINE gs == TargetsOf(q.req, q.pos)
    <2>1. \A h \in Ids :
            /\ h \in IdsOf(q.seeds) => WithinFor(q.req, s, h, gs)
            /\ h \in q.wanted => h \in Matching(s, gs, q.req.statuses, q.req.tags)
            /\ WithinFor(q.req, s, h, gs) => h \in IdsOf(q.seeds) \cup q.wanted
      BY <1>1, <1>12 DEF AtSeeds, SeedsExact
    <2>2. IdsOf(S) = IF PassesFor(q.req, s[i]) THEN IdsOf(q.seeds) \cup {i} ELSE IdsOf(q.seeds)
      <3>1. d0.id = i
        OBVIOUS
      <3> HIDE DEF d0
      <3>2. IdsOf(q.seeds \cup {d0}) = IdsOf(q.seeds) \cup {i}
        BY <3>1 DEF IdsOf
      <3> QED BY <1>0, <3>2 DEF d0
    <2>3. WithinFor(q.req, s, i, gs) <=> PassesFor(q.req, s[i])
      BY <1>2, <2>1, WithinMatches
    <2> HIDE DEF gs
    <2>4. \A h \in Ids :
            /\ h \in IdsOf(j.seeds) => WithinFor(j.req, s, h, gs)
            /\ h \in j.wanted => h \in Matching(s, gs, j.req.statuses, j.req.tags)
            /\ WithinFor(j.req, s, h, gs) => h \in IdsOf(j.seeds) \cup j.wanted
      BY <1>2, <1>3, <2>1, <2>2, <2>3
    <2> QED BY <1>3, <2>4 DEF SeedsExact, gs
  <1>13. AtSeeds(j, s, t)
    BY <1>1, <1>3, <1>7, <1>10, <1>11, <1>12 DEF AtSeeds
  <1>14. Goal(j, s, t)
    BY <1>3, <1>6, <1>7, <1>13 DEF Goal
  <1> QED BY <1>14, <1>0, <1>j DEF SeedFetched

\* `zhar show` has its node, which sets the boundary.
LEMMA FetchShownSound ==
  ASSUME NEW q, NEW s \in Store, NEW t \in BOOLEAN, Goal(q, s, t),
         q.at = "seeds", q.req.kind = "show", NEW i \in q.wanted,
         q.index[i] # None, s[i] # None,
         NEW r \in Request, r.kind = "show", ~r.current, r.node = q.req.node,
         r.targets = q.req.targets, r.depth = q.req.depth,
         NEW d0 \in Entry, d0.id = i, d0.pos = 0, d0.node = s[i],
         NEW j, j = [q EXCEPT !.wanted = {}, !.pos = Len(q.req.targets),
                              !.seeds = {d0}, !.req = r]
  PROVE  Goal(j, s, t)
  <1>1. q \in Exports /\ Bounds(q) /\ Indexed(q, s) /\ (~t => q.index = s) /\ AtSeeds(q, s, t)
    BY DEF Goal
  <1>2. /\ q.req \in Request /\ q.req.targets \in Seq(Groups) /\ Len(q.req.targets) \in Nat
        /\ i \in Ids /\ s[i] \in Node
    BY <1>1 DEF Exports, Request, Store
  <1>3. IsFiniteSet({d0})
    BY FS_Singleton
  <1>6. /\ j.at = "seeds" /\ j.req = r /\ j.index = q.index /\ j.pos = Len(q.req.targets)
        /\ j.wanted = {} /\ j.seeds = {d0} /\ j.eligible = q.eligible
        /\ j.edges = q.edges /\ j.visited = q.visited /\ j.frontier = q.frontier
        /\ j.round = q.round /\ j.found = q.found /\ j.out = q.out
    BY <1>1 DEF Exports
  <1>7. j \in Exports
    <2>1. PICK p \in Nat : p = Len(q.req.targets)
      BY <1>2
    <2>2. PICK S \in SUBSET Entry : S = {d0}
      OBVIOUS
    <2>3. j = [q EXCEPT !.wanted = {}, !.pos = p, !.seeds = S, !.req = r]
      BY <2>1, <2>2
    <2> QED BY <1>1, <2>3 DEF Exports
  <1>8. Bounds(j) /\ Indexed(j, s) /\ (~t => j.index = s) /\ Elig(j) = Elig(q)
    <2>1. Bounds(j)
      <3>1. /\ j.req.targets = q.req.targets /\ j.req.depth = q.req.depth
            /\ j.pos <= Len(q.req.targets) /\ j.round = q.round
            /\ j.frontier = q.frontier /\ j.visited = q.visited
            /\ j.out = q.out /\ j.found = q.found
        BY <1>2, <1>6
      <3> QED BY <1>1, <3>1 DEF Bounds
    <2>2. j.index = q.index
      BY <1>6
    <2>3. Indexed(j, s)
      BY <1>1, <2>2 DEF Indexed
    <2>4. ~t => j.index = s
      BY <1>1, <2>2
    <2>5. Elig(j) = Elig(q)
      BY <1>6 DEF Elig
    <2> QED BY <2>1, <2>3, <2>4, <2>5
  <1>9. i = q.req.node
    BY <1>1 DEF AtSeeds, SeedsAwaited
  <1>10. Taken(j, i, s[i])
    BY <1>1, <1>2, <1>6 DEF Taken, PassesFor, Indexed
  <1>11. SeedsFit(j)
    <2>1. IsFiniteSet(j.seeds) /\ j.req.kind = "show" /\ j.req.node = i
      BY <1>3, <1>6, <1>9
    <2>2. \A d \in j.seeds : d = d0
      BY <1>6
    <2> QED BY <1>10, <2>1, <2>2 DEF SeedsFit
  <1>12. SeedsAwaited(j) /\ SeedsExact(j, s)
    <2>1. IdsOf({d0}) = {i}
      BY DEF IdsOf
    <2>2. j.wanted = {} /\ IdsOf(j.seeds) = {i} /\ j.req.kind = "show" /\ j.req.node = i
      BY <1>6, <1>9, <2>1
    <2>3. SeedsAwaited(j)
      BY <2>2 DEF SeedsAwaited
    <2> QED BY <2>2, <2>3 DEF SeedsExact
  <1>13. AtSeeds(j, s, t)
    BY <1>1, <1>6, <1>8, <1>11, <1>12 DEF AtSeeds
  <1> QED BY <1>6, <1>7, <1>8, <1>13 DEF Goal

\* The entries of the nodes M, and what is printed of the seeds and of them.
MoreOf(q, M) == {[id |-> i, pos |-> q.pos + 1, node |-> q.eligible[i]] : i \in M}
Prints(q, M, j) ==
  /\ j \in Exports /\ Bounds(j) /\ FoundFits(j)
  /\ j.at = "done" /\ j.req = q.req /\ j.index = q.index
  /\ IdsOf(j.found) = IdsOf(q.seeds) \cup M

LEMMA PrintsSound ==
  ASSUME NEW q \in Exports, Bounds(q), SeedsFit(q), EligibleFit(q),
         NEW M \in SUBSET Elig(q), M \cap IdsOf(q.seeds) = {},
         NEW j, j = Printed(q, q.seeds \cup MoreOf(q, M))
  PROVE  Prints(q, M, j)
  <1>0. PICK more : more = {[id |-> i, pos |-> q.pos + 1, node |-> q.eligible[i]] : i \in M}
    OBVIOUS
  <1>1. /\ q.req \in Request /\ q.req.targets \in Seq(Groups) /\ Len(q.req.targets) \in Nat
        /\ q.pos \in Nat /\ q.pos + 1 \in Nat /\ q.seeds \subseteq Entry /\ q.eligible \in Store
        /\ M \subseteq Ids
    BY DEF Exports, Request, Elig
  <1>2. \A i \in M : q.eligible[i] \in Node /\ q.eligible[i] # None
    BY <1>1 DEF Store, Elig
  <1>3. \A d \in more : d \in Entry /\ d.id \in M /\ d.pos = q.pos + 1 /\ d.node = q.eligible[d.id]
    BY <1>0, <1>1, <1>2 DEF Entry
  <1>4. ASSUME NEW i \in M PROVE \E d \in more : d.id = i
    <2>1. PICK d : d = [id |-> i, pos |-> q.pos + 1, node |-> q.eligible[i]]
      OBVIOUS
    <2>2. d \in more /\ d.id = i
      BY <1>0, <2>1
    <2> QED BY <2>2
  <1>5. IsFiniteSet(more)
    <2>1. IsFiniteSet(M)
      BY <1>1, ExportAssumption, FS_Subset
    <2> DEFINE f == [i \in M |-> [id |-> i, pos |-> q.pos + 1, node |-> q.eligible[i]]]
    <2>2. more = {f[i] : i \in M}
      BY <1>0
    <2>3. f \in Surjection(M, more)
      BY <2>2 DEF Surjection
    <2> HIDE DEF f
    <2> QED BY <2>1, <2>3, FS_Surjection
  <1> HIDE DEF Exports
  <1>6. PICK S : S = q.seeds \cup more
    OBVIOUS
  <1>7. S \subseteq Entry /\ IsFiniteSet(S) /\ (\A d \in S : d \in q.seeds \/ d \in more)
    BY <1>1, <1>3, <1>5, <1>6, FS_Union DEF SeedsFit
  <1>8. IdsOf(S) = IdsOf(q.seeds) \cup M
    BY <1>3, <1>4, <1>6 DEF IdsOf
  <1>9. PICK o : o = Limited(q, S)
    OBVIOUS
  <1>10. o \subseteq S
    <2>1. \A T, n : FirstOf(T, n) \subseteq T
      BY DEF FirstOf
    <2>2. LimitedByGroup(S) \subseteq S
      <3>1. \A g : InGroup(S, g) \subseteq S
        BY DEF InGroup
      <3>2. \A g \in Groups : FirstOf(InGroup(S, g), Limit[g]) \subseteq S
        BY <2>1, <3>1
      <3> QED BY <3>2 DEF LimitedByGroup
    <2>3. LimitedAsOne(q, S) \subseteq S
      BY <2>1 DEF LimitedAsOne
    <2>4. q.req.kind \in {"export", "payload", "show"}
      BY <1>1 DEF Request
    <2> QED BY <1>9, <2>2, <2>3, <2>4 DEF Limited
  <1>11. j = [q EXCEPT !.at = "done", !.found = S, !.out = o]
    BY <1>0, <1>6, <1>9 DEF Printed, MoreOf
  <1>12. /\ j.at = "done" /\ j.req = q.req /\ j.index = q.index /\ j.pos = q.pos
         /\ j.found = S /\ j.out = o /\ j.round = q.round
         /\ j.frontier = q.frontier /\ j.visited = q.visited
    BY <1>11 DEF Exports
  <1>13. j \in Exports
    <2>1. "done" \in Ended /\ o \subseteq Entry
      BY <1>7, <1>10 DEF Ended
    <2> QED BY <1>7, <1>11, <2>1 DEF Exports
  <1>14. Bounds(j)
    BY <1>10, <1>12 DEF Bounds
  <1>15. \A d \in more : Taken(q, d.id, d.node) /\ GroupOf[d.node.type] \in Reachable
    BY <1>1, <1>2, <1>3 DEF EligibleFit
  <1>16. FoundFits(j)
    <2> DEFINE ts == j.req.targets
    <2>0. ts = q.req.targets
      BY <1>12
    <2> HIDE DEF ts
    <2>1. ASSUME NEW d \in S
          PROVE  /\ Taken(j, d.id, d.node)
                 /\ j.req.kind # "show" =>
                      \/ GroupOf[d.node.type] \notin Hidden
                      \/ \E n \in DOMAIN ts : ts[n] = GroupOf[d.node.type]
      <3>1. Taken(j, d.id, d.node)
        BY <1>7, <1>12, <1>15 DEF SeedsFit, Taken
      <3>2. CASE d \in more
        BY <1>15, <3>1, <3>2 DEF Reachable
      <3>3. CASE d \in q.seeds /\ q.req.kind # "show"
        <4>1. d.pos \in 1 .. q.pos /\ GroupOf[d.node.type] = ts[d.pos] /\ q.pos <= Len(ts)
          BY <2>0, <3>3 DEF SeedsFit, Bounds
        <4>2. d.pos \in DOMAIN ts
          BY <1>1, <2>0, <4>1
        <4> QED BY <3>1, <4>1, <4>2
      <3> QED BY <1>7, <1>12, <3>1, <3>2, <3>3
    <2>2. ASSUME NEW d \in S, NEW e \in S, d.id = e.id PROVE d.pos = e.pos => d = e
      <3>1. CASE d \in more /\ e \in more
        BY <1>3, <2>2, <3>1 DEF Entry
      <3>2. \A f \in q.seeds : f.id \notin M
        BY DEF IdsOf
      <3>3. d \in more <=> e \in more
        BY <1>3, <1>7, <2>2, <3>2
      <3> QED BY <1>7, <2>2, <3>1, <3>3 DEF SeedsFit
    <2>3. ASSUME NEW d \in S, NEW e \in S, d.id = e.id,
                 \A m, n \in DOMAIN ts : ts[m] = ts[n] => m = n
          PROVE  d.pos = e.pos
      <3>1. \A f \in q.seeds : f.id \notin M
        BY DEF IdsOf
      <3>2. CASE d \in more /\ e \in more
        BY <1>3, <3>2
      <3>3. d \in more <=> e \in more
        BY <1>3, <1>7, <2>3, <3>1
      <3>4. CASE d \in q.seeds /\ e \in q.seeds /\ q.req.kind = "show"
        BY <3>4 DEF SeedsFit
      <3>5. CASE d \in q.seeds /\ e \in q.seeds /\ q.req.kind # "show"
        <4>1. /\ d.pos \in 1 .. q.pos /\ GroupOf[d.node.type] = ts[d.pos]
              /\ e.pos \in 1 .. q.pos /\ GroupOf[e.node.type] = ts[e.pos]
              /\ q.pos <= Len(ts)
          BY <2>0, <3>5 DEF SeedsFit, Bounds
        <4>2. d.node.type = e.node.type
          BY <2>3, <3>5 DEF SeedsFit, Taken
        <4>3. d.pos \in DOMAIN ts /\ e.pos \in DOMAIN ts
          BY <1>1, <2>0, <4>1
        <4> QED BY <2>3, <4>1, <4>2, <4>3
      <3> QED BY <1>7, <3>2, <3>3, <3>4, <3>5
    <2>4. j.out = Limited(j, j.found)
      BY <1>9, <1>12 DEF Limited, LimitedAsOne
    <2>5. ASSUME NEW d \in j.found
          PROVE  /\ Taken(j, d.id, d.node)
                 /\ j.req.kind # "show" =>
                      \/ GroupOf[d.node.type] \notin Hidden
                      \/ \E n \in DOMAIN ts : ts[n] = GroupOf[d.node.type]
      BY <1>12, <2>1
    <2>6. ASSUME NEW d \in j.found, NEW e \in j.found, d.id = e.id
          PROVE  /\ d.pos = e.pos => d = e
                 /\ (\A m, n \in DOMAIN ts : ts[m] = ts[n] => m = n) => d = e
      BY <1>12, <2>2, <2>3, <2>6
    <2>7. IsFiniteSet(j.found)
      BY <1>7, <1>12
    <2> QED BY <2>4, <2>5, <2>6, <2>7 DEF FoundFits, ts
  <1> QED BY <1>8, <1>12, <1>13, <1>14, <1>16 DEF Prints

\* All the seeds have been fetched.
LEMMA SeedsKnown ==
  ASSUME NEW q, NEW s, AtSeeds(q, s, FALSE), q.wanted = {}, q.pos = Len(q.req.targets),
         q \in Exports
  PROVE  IdsOf(q.seeds) = AskedFor(q.req, s)
  <1>1. IdsOf(q.seeds) \subseteq Ids
    BY DEF Exports, Entry, IdsOf
  <1>2. SeedsExact(q, s)
    BY DEF AtSeeds
  <1>3. CASE q.req.kind = "show"
    BY <1>2, <1>3 DEF SeedsExact, AskedFor
  <1>4. CASE q.req.kind # "show"
    <2>1. \A i \in Ids :
            i \in IdsOf(q.seeds) <=>
              WithinFor(q.req, s, i, TargetsOf(q.req, Len(q.req.targets)))
      BY <1>2, <1>4 DEF SeedsExact
    <2> QED BY <1>1, <1>4, <2>1 DEF AskedFor
  <1> QED BY <1>3, <1>4

\* Without seeds or without depth there is nothing to expand.
LEMMA PrintSeedsSound ==
  ASSUME NEW q, NEW s \in Store, NEW t \in BOOLEAN, Goal(q, s, t),
         q.at = "seeds", q.wanted = {}, q.pos = Len(q.req.targets),
         q.seeds = {} \/ q.req.depth = 0,
         NEW j, j = Printed(q, q.seeds)
  PROVE  Goal(j, s, t)
  <1>1. q \in Exports /\ Bounds(q) /\ Indexed(q, s) /\ (~t => q.index = s) /\ AtSeeds(q, s, t)
    BY DEF Goal
  <1>2. SeedsFit(q) /\ EligibleFit(q)
    BY <1>1 DEF AtSeeds, EligibleFit, Elig
  <1>3. /\ j \in Exports /\ Bounds(j) /\ FoundFits(j)
        /\ j.at = "done" /\ j.req = q.req /\ j.index = q.index
        /\ IdsOf(j.found) = IdsOf(q.seeds)
    <2>1. PICK M \in SUBSET Elig(q) : M = {}
      OBVIOUS
    <2>2. MoreOf(q, M) = {}
      BY <2>1 DEF MoreOf
    <2>3. M \cap IdsOf(q.seeds) = {} /\ IdsOf(q.seeds) \cup M = IdsOf(q.seeds)
      BY <2>1
    <2>4. q.seeds \cup MoreOf(q, M) = q.seeds
      BY <2>2
    <2>5. j = Printed(q, q.seeds \cup MoreOf(q, M))
      BY <2>4
    <2>6. Prints(q, M, j)
      BY <1>1, <1>2, <2>3, <2>5, PrintsSound
    <2> QED BY <2>3, <2>6 DEF Prints
  <1>4. Indexed(j, s) /\ (~t => j.index = s)
    BY <1>1, <1>3 DEF Indexed
  <1>5. ASSUME ~t PROVE IdsOf(j.found) = Sees(j.req, s)
    <2>1. IdsOf(q.seeds) = AskedFor(q.req, s)
      <3>1. t = FALSE
        BY <1>5
      <3> QED BY <1>1, <3>1, SeedsKnown
    <2>2. ASSUME NEW k \in 1 .. q.req.depth, NEW i,
                 Walk(On(q.req, s), AskedFor(q.req, s), LinksFor(q.req, s), k, i)
          PROVE  FALSE
      <3>1. AskedFor(q.req, s) # {}
        BY <2>2 DEF Walk
      <3>2. q.seeds = {} => IdsOf(q.seeds) = {}
        BY DEF IdsOf
      <3>3. q.req.depth # 0
        OBVIOUS
      <3> QED BY <2>1, <3>1, <3>2, <3>3
    <2>3. Sees(q.req, s) = AskedFor(q.req, s)
      BY <2>2 DEF Sees
    <2> QED BY <1>3, <2>1, <2>3
  <1>6. AtDone(j, s, t)
    BY <1>3, <1>5 DEF AtDone
  <1>7. j.at \notin {"seeds", "eligible", "links", "walk"}
    BY <1>3
  <1> QED BY <1>3, <1>4, <1>6, <1>7 DEF Goal

LEMMA QueryEligibleSound ==
  ASSUME NEW q, NEW s \in Store, NEW t \in BOOLEAN, Goal(q, s, t),
         q.at = "seeds", q.wanted = {}, q.pos = Len(q.req.targets),
         NEW m, m = Matching(q.index, Reachable, q.req.statuses, q.req.tags),
         NEW j, j = [q EXCEPT !.at = "eligible", !.wanted = m]
  PROVE  Goal(j, s, t)
  <1>1. q \in Exports /\ Bounds(q) /\ Indexed(q, s) /\ (~t => q.index = s) /\ AtSeeds(q, s, t)
    BY DEF Goal
  <1>2. /\ j.at = "eligible" /\ j.req = q.req /\ j.index = q.index /\ j.pos = q.pos
        /\ j.wanted = m /\ j.seeds = q.seeds /\ j.eligible = q.eligible
        /\ j.edges = q.edges /\ j.visited = q.visited /\ j.frontier = q.frontier
        /\ j.round = q.round /\ j.found = q.found /\ j.out = q.out
    BY <1>1 DEF Exports
  <1>3. m \subseteq Ids /\ q.index \in Store
    BY <1>1 DEF Matching, Exports
  <1>4. j \in Exports
    BY <1>1, <1>3 DEF Exports
  <1>5. Bounds(j) /\ Indexed(j, s) /\ (~t => j.index = s) /\ Elig(j) = Elig(q)
    BY <1>1, <1>2 DEF Bounds, Indexed, Elig
  <1>6. SeedsFit(j)
    <2>1. SeedsFit(q) /\ \A i, n : Taken(q, i, n) = Taken(j, i, n)
      BY <1>1, <1>2 DEF AtSeeds, Taken
    <2> QED BY <1>2, <2>1 DEF SeedsFit
  <1>7. Elig(j) = {} /\ EligibleFit(j) /\ EligibleAwaited(j) /\ j.edges = {} /\ j.round = 0
    <2>1. Elig(j) = {} /\ j.edges = {} /\ j.round = 0
      BY <1>1, <1>2, <1>5 DEF AtSeeds
    <2>2. EligibleFit(j)
      BY <2>1 DEF EligibleFit, Elig
    <2>3. EligibleAwaited(j)
      BY <1>2, <1>3, MatchingFits DEF EligibleAwaited
    <2> QED BY <2>1, <2>2, <2>3
  <1>8. ASSUME ~t PROVE IdsOf(j.seeds) = AskedFor(j.req, s) /\ EligibleExact(j, s)
    <2>1. IdsOf(q.seeds) = AskedFor(q.req, s)
      <3>1. t = FALSE
        BY <1>8
      <3> QED BY <1>1, <3>1, SeedsKnown
    <2>2. m = Matching(s, Reachable, q.req.statuses, q.req.tags)
      BY <1>1, <1>8
    <2>3. \A i \in Ids : i \in On(q.req, s) => i \in m
      BY <2>2, WithinMatches DEF On
    <2>4. EligibleExact(j, s)
      BY <1>2, <1>7, <2>2, <2>3 DEF EligibleExact
    <2> QED BY <1>2, <2>1, <2>4
  <1>9. AtEligible(j, s, t)
    BY <1>6, <1>7, <1>8 DEF AtEligible
  <1>10. j.at = "eligible"
    BY <1>2
  <1> QED BY <1>4, <1>5, <1>9, <1>10 DEF Goal

LEMMA FetchEligibleSound ==
  ASSUME NEW q, NEW s \in Store, NEW t \in BOOLEAN, Goal(q, s, t),
         q.at = "eligible", NEW i \in q.wanted,
         NEW n, n = IF PassesFor(q.req, s[i]) THEN s[i] ELSE None,
         NEW j, j = [q EXCEPT !.wanted = q.wanted \ {i}, !.eligible[i] = n]
  PROVE  Goal(j, s, t)
  <1>1. /\ q \in Exports /\ Bounds(q) /\ Indexed(q, s) /\ (~t => q.index = s)
        /\ AtEligible(q, s, t)
    BY DEF Goal
  <1>2. i \in Ids /\ n \in Node \cup {None} /\ q.eligible \in Store
    BY <1>1 DEF Exports, Store
  <1>3. PICK el : el = [q.eligible EXCEPT ![i] = n]
    OBVIOUS
  <1>4. el \in Store /\ \A h \in Ids : el[h] = IF h = i THEN n ELSE q.eligible[h]
    BY <1>2, <1>3 DEF Store
  <1>5. j = [q EXCEPT !.wanted = q.wanted \ {i}, !.eligible = el]
    BY <1>3
  <1>6. /\ j.at = "eligible" /\ j.req = q.req /\ j.index = q.index /\ j.pos = q.pos
        /\ j.wanted = q.wanted \ {i} /\ j.seeds = q.seeds /\ j.eligible = el
        /\ j.edges = q.edges /\ j.visited = q.visited /\ j.frontier = q.frontier
        /\ j.round = q.round /\ j.found = q.found /\ j.out = q.out
    BY <1>1, <1>5 DEF Exports
  <1>7. j \in Exports
    BY <1>1, <1>4, <1>5 DEF Exports
  <1>8. Bounds(j) /\ Indexed(j, s) /\ (~t => j.index = s)
    BY <1>1, <1>6 DEF Bounds, Indexed
  <1>9. \A h, x : Taken(q, h, x) = Taken(j, h, x)
    BY <1>6 DEF Taken
  <1>10. SeedsFit(j)
    BY <1>1, <1>6, <1>9 DEF AtEligible, SeedsFit
  <1>11. EligibleFit(j)
    <2>1. n # None => Taken(q, i, n) /\ GroupOf[n.type] \in Reachable
      BY <1>1, <1>2 DEF AtEligible, EligibleAwaited, Indexed, Taken, PassesFor
    <2>2. EligibleFit(q)
      BY <1>1 DEF AtEligible
    <2> QED BY <1>4, <1>6, <1>9, <2>1, <2>2 DEF EligibleFit
  <1>12. EligibleAwaited(j) /\ j.edges = {} /\ j.round = 0
    BY <1>1, <1>6 DEF AtEligible, EligibleAwaited
  <1>13. ASSUME ~t PROVE IdsOf(j.seeds) = AskedFor(j.req, s) /\ EligibleExact(j, s)
    <2>1. IdsOf(q.seeds) = AskedFor(q.req, s) /\ EligibleExact(q, s)
      BY <1>1, <1>13 DEF AtEligible
    <2>2. i \in Matching(s, Reachable, q.req.statuses, q.req.tags)
      BY <1>2, <2>1 DEF EligibleExact
    <2>3. i \in On(q.req, s) <=> n # None
      BY <1>2, <2>2, WithinMatches DEF On, PassesFor
    <2>4. \A h \in Ids : h \in Elig(j) <=> IF h = i THEN n # None ELSE h \in Elig(q)
      BY <1>4, <1>6 DEF Elig
    <2>5. EligibleExact(j, s)
      BY <1>2, <1>6, <2>1, <2>3, <2>4 DEF EligibleExact
    <2> QED BY <1>6, <2>1, <2>5
  <1>14. AtEligible(j, s, t)
    BY <1>10, <1>11, <1>12, <1>13 DEF AtEligible
  <1>15. j.at = "eligible"
    BY <1>6
  <1> QED BY <1>7, <1>8, <1>14, <1>15 DEF Goal

LEMMA QueryLinksSound ==
  ASSUME NEW q, NEW s \in Store, NEW t \in BOOLEAN, Goal(q, s, t),
         q.at = "eligible", q.wanted = {},
         NEW m, m = Matching(q.index, {"links"}, q.req.statuses, {}),
         NEW j, j = [q EXCEPT !.at = "links", !.wanted = m]
  PROVE  Goal(j, s, t)
  <1>1. /\ q \in Exports /\ Bounds(q) /\ Indexed(q, s) /\ (~t => q.index = s)
        /\ AtEligible(q, s, t)
    BY DEF Goal
  <1>2. /\ j.at = "links" /\ j.req = q.req /\ j.index = q.index /\ j.pos = q.pos
        /\ j.wanted = m /\ j.seeds = q.seeds /\ j.eligible = q.eligible
        /\ j.edges = q.edges /\ j.visited = q.visited /\ j.frontier = q.frontier
        /\ j.round = q.round /\ j.found = q.found /\ j.out = q.out
    BY <1>1 DEF Exports
  <1>3. m \subseteq Ids
    BY DEF Matching
  <1>4. j \in Exports
    BY <1>1, <1>3 DEF Exports
  <1>5. Bounds(j) /\ Indexed(j, s) /\ (~t => j.index = s) /\ Elig(j) = Elig(q)
    BY <1>1, <1>2 DEF Bounds, Indexed, Elig
  <1>6. \A h, x : Taken(q, h, x) = Taken(j, h, x)
    BY <1>2 DEF Taken
  <1>7. SeedsFit(j)
    BY <1>1, <1>2, <1>6 DEF AtEligible, SeedsFit
  <1>8. EligibleFit(j) /\ j.round = 0
    BY <1>1, <1>2, <1>6 DEF AtEligible, EligibleFit
  <1>9. ASSUME ~t PROVE /\ IdsOf(j.seeds) = AskedFor(j.req, s) /\ Elig(j) = On(j.req, s)
                        /\ LinksExact(j, s)
    <2>1. IdsOf(q.seeds) = AskedFor(q.req, s) /\ EligibleExact(q, s) /\ q.edges = {}
      BY <1>1, <1>9 DEF AtEligible
    <2>2. Elig(q) = On(q.req, s)
      <3>1. Elig(q) \subseteq Ids /\ On(q.req, s) \subseteq Ids
        BY DEF Elig, On
      <3> QED BY <2>1, <3>1 DEF EligibleExact
    <2>3. m = Matching(s, {"links"}, q.req.statuses, {})
      BY <1>1, <1>9
    <2>4. ASSUME NEW l \in Ids, LinkNode(q.req, s, l) PROVE l \in m
      BY <2>3, <2>4 DEF LinkNode, FitsFor, Matching
    <2>5. LinksExact(j, s)
      BY <1>2, <2>1, <2>3, <2>4 DEF LinksExact
    <2> QED BY <1>2, <1>5, <2>1, <2>2, <2>5
  <1>10. AtLinks(j, s, t)
    BY <1>7, <1>8, <1>9 DEF AtLinks
  <1>11. j.at = "links"
    BY <1>2
  <1> QED BY <1>4, <1>5, <1>10, <1>11 DEF Goal

LEMMA FetchLinkSound ==
  ASSUME NEW q, NEW s \in Store, NEW t \in BOOLEAN, Goal(q, s, t),
         q.at = "links", NEW i \in q.wanted
  PROVE  Goal(LinkFetched(q, s, i), s, t)
  <1>0. PICK es : es = IF PassesFor(q.req, s[i]) THEN q.edges \cup {s[i].ends} ELSE q.edges
    OBVIOUS
  <1>j. PICK j : j = [q EXCEPT !.wanted = q.wanted \ {i}, !.edges = es]
    OBVIOUS
  <1>1. /\ q \in Exports /\ Bounds(q) /\ Indexed(q, s) /\ (~t => q.index = s)
        /\ AtLinks(q, s, t)
    BY DEF Goal
  <1>2. i \in Ids /\ (s[i] # None => s[i].ends \in Ends)
    BY <1>1 DEF Exports, Store, Node
  <1>3. es \subseteq Ends
    BY <1>1, <1>2, <1>0 DEF Exports, PassesFor
  <1>4. /\ j.at = "links" /\ j.req = q.req /\ j.index = q.index /\ j.pos = q.pos
        /\ j.wanted = q.wanted \ {i} /\ j.seeds = q.seeds /\ j.eligible = q.eligible
        /\ j.edges = es /\ j.visited = q.visited /\ j.frontier = q.frontier
        /\ j.round = q.round /\ j.found = q.found /\ j.out = q.out
    BY <1>1, <1>j DEF Exports
  <1>5. j \in Exports
    BY <1>1, <1>3, <1>j DEF Exports
  <1>6. Bounds(j) /\ Indexed(j, s) /\ (~t => j.index = s) /\ Elig(j) = Elig(q)
    BY <1>1, <1>4 DEF Bounds, Indexed, Elig
  <1>7. \A h, x : Taken(q, h, x) = Taken(j, h, x)
    BY <1>4 DEF Taken
  <1>8. SeedsFit(j)
    BY <1>1, <1>4, <1>7 DEF AtLinks, SeedsFit
  <1>9. EligibleFit(j) /\ j.round = 0
    BY <1>1, <1>4, <1>7 DEF AtLinks, EligibleFit
  <1>10. ASSUME ~t PROVE /\ IdsOf(j.seeds) = AskedFor(j.req, s) /\ Elig(j) = On(j.req, s)
                         /\ LinksExact(j, s)
    <2>1. IdsOf(q.seeds) = AskedFor(q.req, s) /\ Elig(q) = On(q.req, s) /\ LinksExact(q, s)
      BY <1>1, <1>10 DEF AtLinks
    <2>2. i \in Matching(s, {"links"}, q.req.statuses, {})
      BY <2>1 DEF LinksExact
    <2>3. LinkNode(q.req, s, i) <=> PassesFor(q.req, s[i])
      BY <2>2 DEF LinkNode, FitsFor, PassesFor, Matching
    <2>4. es \subseteq LinksFor(q.req, s)
      <3>1. LinkNode(q.req, s, i) => s[i].ends \in LinksFor(q.req, s)
        BY <1>2 DEF LinksFor, LinkNode, FitsFor
      <3> QED BY <1>0, <2>1, <2>3, <3>1 DEF LinksExact
    <2>5. ASSUME NEW l \in Ids, LinkNode(q.req, s, l)
          PROVE  s[l].ends \in es \/ l \in q.wanted \ {i}
      BY <1>0, <2>1, <2>3, <2>5 DEF LinksExact
    <2>6. LinksExact(j, s)
      BY <1>4, <2>1, <2>4, <2>5 DEF LinksExact
    <2> QED BY <1>4, <1>6, <2>1, <2>6
  <1>11. AtLinks(j, s, t)
    BY <1>8, <1>9, <1>10 DEF AtLinks
  <1>12. j.at = "links"
    BY <1>4
  <1>13. Goal(j, s, t)
    BY <1>5, <1>6, <1>11, <1>12 DEF Goal
  <1> QED BY <1>13, <1>0, <1>j DEF LinkFetched

LEMMA StartWalkSound ==
  ASSUME NEW q, NEW s \in Store, NEW t \in BOOLEAN, Goal(q, s, t),
         q.at = "links", q.wanted = {},
         NEW v, v = IdsOf(q.seeds) \cap Elig(q),
         NEW j, j = [q EXCEPT !.at = "walk", !.visited = v, !.frontier = v]
  PROVE  Goal(j, s, t)
  <1>1. /\ q \in Exports /\ Bounds(q) /\ Indexed(q, s) /\ (~t => q.index = s)
        /\ AtLinks(q, s, t)
    BY DEF Goal
  <1>2. /\ j.at = "walk" /\ j.req = q.req /\ j.index = q.index /\ j.pos = q.pos
        /\ j.wanted = q.wanted /\ j.seeds = q.seeds /\ j.eligible = q.eligible
        /\ j.edges = q.edges /\ j.visited = v /\ j.frontier = v
        /\ j.round = q.round /\ j.found = q.found /\ j.out = q.out
    BY <1>1 DEF Exports
  <1>3. v \subseteq Ids
    BY DEF Elig
  <1>4. j \in Exports
    BY <1>1, <1>3 DEF Exports
  <1>5. Bounds(j) /\ Indexed(j, s) /\ (~t => j.index = s) /\ Elig(j) = Elig(q)
    BY <1>1, <1>2 DEF Bounds, Indexed, Elig
  <1>6. \A h, x : Taken(q, h, x) = Taken(j, h, x)
    BY <1>2 DEF Taken
  <1>7. SeedsFit(j)
    BY <1>1, <1>2, <1>6 DEF AtLinks, SeedsFit
  <1>8. EligibleFit(j) /\ j.round = 0
    BY <1>1, <1>2, <1>6 DEF AtLinks, EligibleFit
  <1>9. Walked(Elig(j), IdsOf(j.seeds), j.edges, j.round, j.visited, j.frontier)
    <2> DEFINE W(k, i) == Walk(Elig(q), IdsOf(q.seeds), q.edges, k, i)
    <2>1. \A i : i \in v <=> W(0, i)
      BY WalkStarts
    <2>2. \A i : i \in v <=> \E k \in 0 .. 0 : W(k, i)
      <3>1. \A k : k \in 0 .. 0 <=> k = 0
        OBVIOUS
      <3> HIDE DEF W
      <3> QED BY <2>1, <3>1
    <2>3. \A i : i \in v <=> W(0, i) /\ \A k \in 0 .. 0 - 1 : ~W(k, i)
      <3>1. \A k \in 0 .. 0 - 1 : FALSE
        OBVIOUS
      <3> HIDE DEF W
      <3> QED BY <2>1, <3>1
    <2>4. Walked(Elig(q), IdsOf(q.seeds), q.edges, 0, v, v)
      BY <2>2, <2>3 DEF Walked
    <2> QED BY <1>2, <1>5, <1>8, <2>4
  <1>10. ASSUME ~t PROVE /\ IdsOf(j.seeds) = AskedFor(j.req, s) /\ Elig(j) = On(j.req, s)
                         /\ j.edges = LinksFor(j.req, s)
    <2>1. IdsOf(q.seeds) = AskedFor(q.req, s) /\ Elig(q) = On(q.req, s) /\ LinksExact(q, s)
      BY <1>1, <1>10 DEF AtLinks
    <2>2. q.edges = LinksFor(q.req, s)
      BY <2>1 DEF LinksExact, LinksFor
    <2> QED BY <1>2, <1>5, <2>1, <2>2
  <1>11. AtWalk(j, s, t)
    BY <1>7, <1>8, <1>9, <1>10 DEF AtWalk
  <1>12. j.at = "walk"
    BY <1>2
  <1> QED BY <1>4, <1>5, <1>11, <1>12 DEF Goal

LEMMA RoundSound ==
  ASSUME NEW q, NEW s \in Store, NEW t \in BOOLEAN, Goal(q, s, t),
         q.at = "walk", q.round < q.req.depth, NEW next,
         \A h : h \in next <=>
           h \in Elig(q) \ q.visited /\ \E i \in q.frontier : h # i /\ {i, h} \in q.edges,
         NEW j, j = [q EXCEPT !.round = q.round + 1, !.visited = q.visited \cup next,
                              !.frontier = next]
  PROVE  Goal(j, s, t)
  <1>1. /\ q \in Exports /\ Bounds(q) /\ Indexed(q, s) /\ (~t => q.index = s)
        /\ AtWalk(q, s, t)
    BY DEF Goal
  <1>2. /\ q.req \in Request /\ q.req.depth \in Nat /\ q.round \in Nat /\ q.round + 1 \in Nat
        /\ q.visited \subseteq Ids /\ next \subseteq Ids /\ q.visited \cup next \subseteq Ids
    BY <1>1 DEF Exports, Request, Elig
  <1>3. /\ j.at = "walk" /\ j.req = q.req /\ j.index = q.index /\ j.pos = q.pos
        /\ j.wanted = q.wanted /\ j.seeds = q.seeds /\ j.eligible = q.eligible
        /\ j.edges = q.edges /\ j.visited = q.visited \cup next /\ j.frontier = next
        /\ j.round = q.round + 1 /\ j.found = q.found /\ j.out = q.out
    BY <1>1 DEF Exports
  <1>4. j \in Exports
    <2>1. PICK p \in Nat : p = q.round + 1
      BY <1>2
    <2>2. PICK v \in SUBSET Ids : v = q.visited \cup next
      BY <1>2
    <2>3. j = [q EXCEPT !.round = p, !.visited = v, !.frontier = next]
      BY <2>1, <2>2
    <2> QED BY <1>1, <1>2, <2>3 DEF Exports
  <1>5. Bounds(j)
    BY <1>1, <1>2, <1>3 DEF Bounds
  <1>6. Indexed(j, s) /\ (~t => j.index = s) /\ Elig(j) = Elig(q)
    BY <1>1, <1>3 DEF Indexed, Elig
  <1>7. \A h, x : Taken(q, h, x) = Taken(j, h, x)
    BY <1>3 DEF Taken
  <1>8. SeedsFit(j) /\ EligibleFit(j)
    <2>1. SeedsFit(j)
      BY <1>1, <1>3, <1>7 DEF AtWalk, SeedsFit
    <2>2. EligibleFit(j)
      BY <1>1, <1>3, <1>7 DEF AtWalk, EligibleFit
    <2> QED BY <2>1, <2>2
  <1>9. Walked(Elig(q), IdsOf(q.seeds), q.edges, q.round + 1, q.visited \cup next, next)
    BY <1>1, <1>2, RoundWalks DEF AtWalk
  <1>10. AtWalk(j, s, t)
    BY <1>1, <1>3, <1>6, <1>8, <1>9 DEF AtWalk
  <1>11. j.at = "walk"
    BY <1>3
  <1> QED BY <1>4, <1>5, <1>6, <1>10, <1>11 DEF Goal

\* After the last round, what was visited is what a walk of at most `depth` links reaches.
WalkWithin(on, from, links, depth, i) == \E k \in 0 .. depth : Walk(on, from, links, k, i)

LEMMA VisitedAll ==
  ASSUME NEW on, NEW from, NEW links, NEW round \in Nat, NEW depth \in Nat,
         NEW visited, NEW frontier, Walked(on, from, links, round, visited, frontier),
         round <= depth, round >= depth \/ frontier = {}, NEW i
  PROVE  i \in visited <=> WalkWithin(on, from, links, depth, i)
  <1>1. i \in visited <=> \E k \in 0 .. round : Walk(on, from, links, k, i)
    BY DEF Walked
  <1>2. CASE round >= depth
    <2>1. round = depth
      BY <1>2
    <2> QED BY <1>1, <2>1 DEF WalkWithin
  <1>3. CASE frontier = {}
    <2>1. ASSUME NEW k \in 0 .. depth, Walk(on, from, links, k, i) PROVE i \in visited
      <3>1. k \in Nat
        OBVIOUS
      <3> QED BY <1>3, <2>1, <3>1, WalkEnds
    <2>2. 0 .. round \subseteq 0 .. depth
      OBVIOUS
    <2> QED BY <1>1, <2>1, <2>2 DEF WalkWithin
  <1> QED BY <1>2, <1>3

LEMMA FinishSound ==
  ASSUME NEW q, NEW s \in Store, NEW t \in BOOLEAN, Goal(q, s, t),
         q.at = "walk", ~(q.round < q.req.depth /\ q.frontier # {}),
         NEW M, M = (q.visited \cap Elig(q)) \ IdsOf(q.seeds),
         NEW j, j = Printed(q, q.seeds \cup MoreOf(q, M))
  PROVE  Goal(j, s, t)
  <1>1. /\ q \in Exports /\ Bounds(q) /\ Indexed(q, s) /\ (~t => q.index = s)
        /\ AtWalk(q, s, t)
    BY DEF Goal
  <1>2. /\ q.req \in Request /\ q.req.depth \in Nat /\ q.round \in Nat
        /\ q.visited \subseteq Ids
    BY <1>1 DEF Exports, Request
  <1>3. Prints(q, M, j)
    <2>1. SeedsFit(q) /\ EligibleFit(q) /\ M \in SUBSET Elig(q) /\ M \cap IdsOf(q.seeds) = {}
      BY <1>1 DEF AtWalk
    <2> QED BY <1>1, <2>1, PrintsSound
  <1>4. /\ j \in Exports /\ Bounds(j) /\ FoundFits(j)
        /\ j.at = "done" /\ j.req = q.req /\ j.index = q.index
        /\ IdsOf(j.found) = IdsOf(q.seeds) \cup M
    BY <1>3 DEF Prints
  <1>5. Indexed(j, s) /\ (~t => j.index = s)
    BY <1>1, <1>4 DEF Indexed
  <1>6. ASSUME ~t PROVE IdsOf(j.found) = Sees(j.req, s)
    <2> DEFINE on == On(q.req, s)
               from == AskedFor(q.req, s)
               W(k, i) == Walk(on, from, LinksFor(q.req, s), k, i)
    <2>1. /\ IdsOf(q.seeds) = from /\ Elig(q) = on /\ q.edges = LinksFor(q.req, s)
          /\ Walked(on, from, LinksFor(q.req, s), q.round, q.visited, q.frontier)
      BY <1>1, <1>6 DEF AtWalk
    <2>2. q.round <= q.req.depth /\ (q.round >= q.req.depth \/ q.frontier = {})
      BY <1>1, <1>2 DEF Bounds
    <2>3. \A i : i \in q.visited <=> \E k \in 0 .. q.req.depth : W(k, i)
      <3> DEFINE links == LinksFor(q.req, s)
      <3> HIDE DEF on, from, links
      <3>1. Walked(on, from, links, q.round, q.visited, q.frontier)
        BY <2>1 DEF links
      <3>2. ASSUME NEW i
            PROVE  i \in q.visited <=> WalkWithin(on, from, links, q.req.depth, i)
        BY <1>2, <2>2, <3>1, VisitedAll
      <3> QED BY <3>2 DEF links, WalkWithin
    <2>4. q.visited \subseteq on
      <3>1. ASSUME NEW k \in 0 .. q.req.depth, NEW i, W(k, i) PROVE i \in on
        <4>1. k \in Nat
          OBVIOUS
        <4> QED BY <3>1, <4>1, WalkOn
      <3> HIDE DEF W, on
      <3> QED BY <2>3, <3>1
    <2>5. \A i : W(0, i) => i \in from
      BY WalkStarts
    <2>6. \A k \in 0 .. q.req.depth : k = 0 \/ k \in 1 .. q.req.depth
      BY <1>2
    <2>7. 1 .. q.req.depth \subseteq 0 .. q.req.depth
      BY <1>2
    <2>8. from \cup q.visited = from \cup {i \in Ids : \E k \in 1 .. q.req.depth : W(k, i)}
      <3> HIDE DEF W, on, from
      <3> QED BY <1>2, <2>3, <2>5, <2>6, <2>7
    <2>9. IdsOf(q.seeds) \cup M = from \cup q.visited
      <3> HIDE DEF W, on, from
      <3> QED BY <2>1, <2>4
    <2>10. Sees(q.req, s) = from \cup {i \in Ids : \E k \in 1 .. q.req.depth : W(k, i)}
      BY DEF Sees
    <2> HIDE DEF W, on, from
    <2> QED BY <1>4, <2>8, <2>9, <2>10
  <1>7. AtDone(j, s, t)
    BY <1>4, <1>6 DEF AtDone
  <1>8. j.at \notin {"seeds", "eligible", "links", "walk"}
    BY <1>4
  <1> QED BY <1>4, <1>5, <1>7, <1>8 DEF Goal

\* A node that is gone ends `zhar show`.
LEMMA FailSound ==
  ASSUME NEW q, NEW s, NEW t, Goal(q, s, t), NEW j, j = [q EXCEPT !.at = "failed"]
  PROVE  Goal(j, s, t)
  <1>1. q \in Exports /\ Bounds(q) /\ Indexed(q, s) /\ (~t => q.index = s)
    BY DEF Goal
  <1>2. "failed" \in Ended
    BY DEF Ended
  <1>3. /\ j \in Exports /\ j.at = "failed" /\ j.req = q.req /\ j.index = q.index
        /\ j.pos = q.pos /\ j.round = q.round /\ j.visited = q.visited
        /\ j.frontier = q.frontier /\ j.out = q.out /\ j.found = q.found
    BY <1>1, <1>2 DEF Exports
  <1>4. Bounds(j) /\ Indexed(j, s) /\ (~t => j.index = s)
    BY <1>1, <1>3 DEF Bounds, Indexed
  <1>5. j.at \notin {"seeds", "eligible", "links", "walk", "done"}
    BY <1>3
  <1> QED BY <1>3, <1>4, <1>5 DEF Goal

-----------------------------------------------------------------------------
(* The steps.                                                               *)

LEMMA InitSound ==
  ASSUME Init
  PROVE  IInv
  <1>1. PICK r \in Requests : exp = [Opened(r) EXCEPT !.at = "idle"]
    BY DEF Init
  <1>2. stored \in Store /\ edits = 0 /\ touched = FALSE
    BY ExportAssumption DEF Init
  <1>3. exp = [at |-> "idle", req |-> r, index |-> stored, pos |-> 0, wanted |-> {},
               seeds |-> {}, eligible |-> [i \in Ids |-> None], edges |-> {},
               visited |-> {}, frontier |-> {}, round |-> 0, found |-> {}, out |-> {}]
    BY <1>1 DEF Opened
  <1>4. Goal(exp, stored, FALSE)
    <2>1. Goal(OpenedWith("idle", r, stored, {}), stored, FALSE)
      BY <1>2, OpensSound
    <2> QED BY <1>3, <2>1 DEF OpenedWith
  <1>5. edits \in 0 .. MaxEdits
    BY <1>2, ExportAssumption
  <1> QED BY <1>2, <1>4, <1>5 DEF IInv

\* Another process changes the store and not the export.
LEMMA EditKeeps ==
  ASSUME IInv, NEW i \in Ids, NEW n \in Statuses \cup {None}, Edit(i, n)
  PROVE  IInv'
  <1>1. /\ stored \in Store /\ edits \in 0 .. MaxEdits /\ Goal(exp, stored, touched)
        /\ stored[i] # None /\ edits < MaxEdits /\ edits' = edits + 1 /\ touched' = TRUE
        /\ exp' = exp
    BY DEF IInv, Edit
  <1>2. PICK x : x = IF n = None THEN None ELSE [stored[i] EXCEPT !.status = n]
    OBVIOUS
  <1>3. stored' = [stored EXCEPT ![i] = x]
    BY <1>2 DEF Edit
  <1>4. x \in Node \cup {None} /\ (x # None => x.type = stored[i].type)
    <2>1. stored[i] \in Node
      BY <1>1 DEF Store
    <2>2. CASE n = None
      BY <1>2, <2>2
    <2>3. CASE n # None
      BY <1>2, <2>1, <2>3 DEF Node
    <2> QED BY <2>2, <2>3
  <1>5. stored' \in Store /\ \A h \in Ids : stored'[h] = IF h = i THEN x ELSE stored[h]
    BY <1>1, <1>3, <1>4 DEF Store
  <1>6. Goal(exp, stored', TRUE)
    <2>1. \A h \in Ids : stored'[h] # None =>
            stored[h] # None /\ stored[h].type = stored'[h].type
      BY <1>1, <1>4, <1>5
    <2> QED BY <1>1, <2>1, EditsSound
  <1>7. edits' \in 0 .. MaxEdits /\ touched' \in BOOLEAN
    BY <1>1, ExportAssumption
  <1> QED BY <1>1, <1>5, <1>6, <1>7 DEF IInv

LEMMA OpenKeeps ==
  ASSUME IInv, NEW r \in Requests, Open(r)
  PROVE  IInv'
  <1>1. /\ stored \in Store /\ edits \in 0 .. MaxEdits
        /\ stored' = stored /\ edits' = edits /\ touched' = FALSE
    BY DEF IInv, Open
  <1>2. PICK w : w = IF r.kind = "show" THEN {r.node} ELSE {}
    OBVIOUS
  <1>3. w \in SUBSET Ids
    <2>1. r.node \in Ids
      BY ExportAssumption DEF Request
    <2> QED BY <1>2, <2>1
  <1>4. exp' = OpenedWith("seeds", r, stored, w)
    BY <1>2 DEF Open, Opened, OpenedWith
  <1>5. Goal(OpenedWith("seeds", r, stored, w), stored, FALSE)
    BY <1>1, <1>2, <1>3, OpensSound
  <1> QED BY <1>1, <1>4, <1>5 DEF IInv

\* The other steps change the export alone.
LEMMA GoesKeeps ==
  ASSUME IInv, NEW j, Goes(j), Goal(j, stored, touched)
  PROVE  IInv'
  BY DEF IInv, Goes

LEMMA QueriesKeep ==
  ASSUME IInv, QuerySeeds \/ QueryEligible \/ QueryLinks
  PROVE  IInv'
  <1>1. stored \in Store /\ touched \in BOOLEAN /\ Goal(exp, stored, touched)
    BY DEF IInv
  <1>2. CASE QuerySeeds
    <2>1. PICK m : m = Matching(exp.index, {exp.req.targets[exp.pos + 1]},
                                exp.req.statuses, exp.req.tags)
      OBVIOUS
    <2>2. PICK j : j = [exp EXCEPT !.pos = exp.pos + 1, !.wanted = m]
      OBVIOUS
    <2>3. Goes(j)
      BY <1>2, <2>1, <2>2 DEF QuerySeeds
    <2>4. Goal(j, stored, touched)
      BY <1>1, <1>2, <2>1, <2>2, QuerySeedsSound DEF QuerySeeds
    <2> QED BY <2>3, <2>4, GoesKeeps
  <1>3. CASE QueryLinks
    <2>1. PICK m : m = Matching(exp.index, {"links"}, exp.req.statuses, {})
      OBVIOUS
    <2>2. PICK j : j = [exp EXCEPT !.at = "links", !.wanted = m]
      OBVIOUS
    <2>3. Goes(j)
      BY <1>3, <2>1, <2>2 DEF QueryLinks
    <2>4. Goal(j, stored, touched)
      BY <1>1, <1>3, <2>1, <2>2, QueryLinksSound DEF QueryLinks
    <2> QED BY <2>3, <2>4, GoesKeeps
  <1>4. CASE QueryEligible
    <2>1. exp.at = "seeds" /\ exp.wanted = {} /\ exp.pos = Len(exp.req.targets)
      BY <1>4 DEF QueryEligible
    <2>2. CASE (exp.seeds = {} \/ exp.req.depth = 0) /\ Goes(Printed(exp, exp.seeds))
      <3>1. Goal(Printed(exp, exp.seeds), stored, touched)
        BY <1>1, <2>1, <2>2, PrintSeedsSound
      <3> QED BY <2>2, <3>1, GoesKeeps
    <2>3. CASE Goes([exp EXCEPT !.at = "eligible",
                       !.wanted = Matching(exp.index, Reachable, exp.req.statuses, exp.req.tags)])
      <3>1. PICK m : m = Matching(exp.index, Reachable, exp.req.statuses, exp.req.tags)
        OBVIOUS
      <3>2. PICK j : j = [exp EXCEPT !.at = "eligible", !.wanted = m]
        OBVIOUS
      <3>3. Goes(j)
        BY <2>3, <3>1, <3>2
      <3>4. Goal(j, stored, touched)
        BY <1>1, <2>1, <3>1, <3>2, QueryEligibleSound
      <3> QED BY <3>3, <3>4, GoesKeeps
    <2> QED BY <1>4, <2>2, <2>3 DEF QueryEligible
  <1> QED BY <1>2, <1>3, <1>4

LEMMA FetchesKeep ==
  ASSUME IInv, NEW i \in Ids, FetchSeed(i) \/ FetchEligible(i) \/ FetchLink(i)
  PROVE  IInv'
  <1>1. stored \in Store /\ touched \in BOOLEAN /\ Goal(exp, stored, touched)
    BY DEF IInv
  <1>2. PICK p \in BOOLEAN : p = PassesFor(exp.req, stored[i])
    BY DEF PassesFor
  <1>3. p <=> Passes(stored[i])
    BY <1>2 DEF Passes, PassesFor
  <1>4. CASE FetchSeed(i)
    <2>1. Goes(SeedFetched(exp, stored, i))
      BY <1>2, <1>3, <1>4 DEF FetchSeed, StillWanted, SeedFetched
    <2>2. exp.at = "seeds" /\ exp.req.kind # "show" /\ i \in exp.wanted
      BY <1>4 DEF FetchSeed
    <2>3. Goal(SeedFetched(exp, stored, i), stored, touched)
      BY <1>1, <2>2, FetchSeedSound
    <2> QED BY <2>1, <2>3, GoesKeeps
  <1>5. CASE FetchEligible(i)
    <2>1. PICK n : n = IF p THEN stored[i] ELSE None
      OBVIOUS
    <2>2. PICK j : j = [exp EXCEPT !.wanted = exp.wanted \ {i}, !.eligible[i] = n]
      OBVIOUS
    <2>3. Goes(j)
      BY <1>3, <1>5, <2>1, <2>2 DEF FetchEligible, StillWanted
    <2>4. Goal(j, stored, touched)
      BY <1>1, <1>2, <1>5, <2>1, <2>2, FetchEligibleSound DEF FetchEligible
    <2> QED BY <2>3, <2>4, GoesKeeps
  <1>6. CASE FetchLink(i)
    <2>1. Goes(LinkFetched(exp, stored, i))
      BY <1>2, <1>3, <1>6 DEF FetchLink, StillWanted, LinkFetched
    <2>2. exp.at = "links" /\ i \in exp.wanted
      BY <1>6 DEF FetchLink
    <2>3. Goal(LinkFetched(exp, stored, i), stored, touched)
      BY <1>1, <2>2, FetchLinkSound
    <2> QED BY <2>1, <2>3, GoesKeeps
  <1> QED BY <1>4, <1>5, <1>6

LEMMA FetchShownKeeps ==
  ASSUME IInv, NEW i \in Ids, FetchShown(i)
  PROVE  IInv'
  <1>1. stored \in Store /\ touched \in BOOLEAN /\ Goal(exp, stored, touched)
    BY DEF IInv
  <1>2. exp.at = "seeds" /\ exp.req.kind = "show" /\ i \in exp.wanted
    BY DEF FetchShown
  <1>3. PICK n : n = IF exp.index[i] = None THEN None ELSE stored[i]
    OBVIOUS
  <1>4. CASE n = None
    <2>1. Goes([exp EXCEPT !.at = "failed"])
      BY <1>3, <1>4 DEF FetchShown
    <2>2. Goal([exp EXCEPT !.at = "failed"], stored, touched)
      BY <1>1, FailSound
    <2> QED BY <2>1, <2>2, GoesKeeps
  <1>5. CASE n # None
    <2>1. exp.index[i] # None /\ n = stored[i] /\ n \in Node
      BY <1>1, <1>3, <1>5 DEF Store
    <2>2. PICK d0 : d0 = [id |-> i, pos |-> 0, node |-> n]
      OBVIOUS
    <2>3. d0 \in Entry /\ d0.id = i /\ d0.pos = 0 /\ d0.node = n
      BY <2>1, <2>2 DEF Entry
    <2>4. PICK r : r = [exp.req EXCEPT !.current = FALSE, !.statuses = {n.status},
                                       !.tags = n.tags]
      OBVIOUS
    <2>5. exp \in Exports /\ exp.req \in Request
      BY <1>1 DEF Goal, Exports
    <2>6. PICK ss \in SUBSET Statuses, ts \in SUBSET Tags : ss = {n.status} /\ ts = n.tags
      BY <2>1 DEF Node
    <2>7. r = [exp.req EXCEPT !.current = FALSE, !.statuses = ss, !.tags = ts]
      BY <2>4, <2>6
    <2>8. /\ r \in Request /\ r.kind = "show" /\ ~r.current /\ r.node = exp.req.node
          /\ r.targets = exp.req.targets /\ r.depth = exp.req.depth
      BY <1>2, <2>5, <2>7 DEF Request
    <2>9. PICK j : j = [exp EXCEPT !.wanted = {}, !.pos = Len(exp.req.targets),
                                   !.seeds = {d0}, !.req = r]
      OBVIOUS
    <2>10. Goes(j)
      <3>1. Goes([exp EXCEPT !.wanted = {}, !.pos = Len(exp.req.targets), !.seeds = {d0},
                             !.req.current = FALSE, !.req.statuses = {n.status},
                             !.req.tags = n.tags])
        BY <1>3, <1>5, <2>2 DEF FetchShown
      <3>2. [exp EXCEPT !.wanted = {}, !.pos = Len(exp.req.targets), !.seeds = {d0},
                        !.req.current = FALSE, !.req.statuses = {n.status},
                        !.req.tags = n.tags] = j
        BY <2>4, <2>5, <2>9 DEF Exports, Request
      <3> QED BY <3>1, <3>2
    <2>11. Goal(j, stored, touched)
      <3>1. d0.node = stored[i] /\ stored[i] # None
        BY <1>5, <2>1, <2>3
      <3> QED BY <1>1, <1>2, <2>1, <2>3, <2>8, <2>9, <3>1, FetchShownSound
    <2> QED BY <2>10, <2>11, GoesKeeps
  <1> QED BY <1>4, <1>5

LEMMA WalkKeeps ==
  ASSUME IInv, StartWalk \/ Round \/ Finish
  PROVE  IInv'
  <1>1. stored \in Store /\ touched \in BOOLEAN /\ Goal(exp, stored, touched)
    BY DEF IInv
  <1>2. Eligible = Elig(exp) /\ SeedIds = IdsOf(exp.seeds)
    BY DEF Eligible, Elig, SeedIds, IdsOf
  <1>3. CASE StartWalk
    <2>1. PICK v : v = IdsOf(exp.seeds) \cap Elig(exp)
      OBVIOUS
    <2>2. PICK j : j = [exp EXCEPT !.at = "walk", !.visited = v, !.frontier = v]
      OBVIOUS
    <2>3. Goes(j)
      BY <1>2, <1>3, <2>1, <2>2 DEF StartWalk
    <2>4. Goal(j, stored, touched)
      BY <1>1, <1>3, <2>1, <2>2, StartWalkSound DEF StartWalk
    <2> QED BY <2>3, <2>4, GoesKeeps
  <1>4. CASE Round
    <2>1. PICK next : next = Reached(UNION {Neighbors(i) : i \in exp.frontier})
      OBVIOUS
    <2>2. PICK j : j = [exp EXCEPT !.round = exp.round + 1,
                                   !.visited = exp.visited \cup next, !.frontier = next]
      OBVIOUS
    <2>3. Goes(j)
      BY <1>4, <2>1, <2>2 DEF Round
    <2>4. ASSUME NEW h
          PROVE  h \in next <=> /\ h \in Elig(exp) \ exp.visited
                                /\ \E i \in exp.frontier : h # i /\ {i, h} \in exp.edges
      <3>1. exp.edges \subseteq Ends
        BY <1>1 DEF Goal, Exports
      <3>2. ASSUME NEW i PROVE h \in Neighbors(i) <=> h # i /\ {i, h} \in exp.edges
        <4>1. \A e \in exp.edges : i \in e /\ h \in e /\ h # i => e = {i, h}
          BY <3>1 DEF Ends
        <4> QED BY <4>1 DEF Neighbors
      <3>3. h \in next <=> h \in Elig(exp) \ exp.visited /\ \E i \in exp.frontier : h \in Neighbors(i)
        BY <1>2, <2>1 DEF Reached
      <3> QED BY <3>2, <3>3
    <2>5. Goal(j, stored, touched)
      BY <1>1, <1>4, <2>2, <2>4, RoundSound DEF Round, MoreRounds
    <2> QED BY <2>3, <2>5, GoesKeeps
  <1>5. CASE Finish
    <2>1. PICK M : M = (exp.visited \cap Elig(exp)) \ IdsOf(exp.seeds)
      OBVIOUS
    <2>2. PICK j : j = Printed(exp, exp.seeds \cup MoreOf(exp, M))
      OBVIOUS
    <2>3. Added = M
      BY <1>2, <2>1 DEF Added
    <2>4. Goes(j)
      BY <1>5, <2>2, <2>3 DEF Finish, MoreOf
    <2>5. Goal(j, stored, touched)
      BY <1>1, <1>5, <2>1, <2>2, FinishSound DEF Finish, MoreRounds
    <2> QED BY <2>4, <2>5, GoesKeeps
  <1> QED BY <1>3, <1>4, <1>5

LEMMA NextKeeps ==
  ASSUME IInv, [Next]_vars
  PROVE  IInv'
  <1>1. CASE UNCHANGED vars
    BY <1>1 DEF IInv, vars
  <1>2. CASE Step
    BY <1>2, QueriesKeep, FetchesKeep, FetchShownKeeps, WalkKeeps DEF Step
  <1>3. CASE \E r \in Requests : Open(r)
    BY <1>3, OpenKeeps
  <1>4. CASE \E i \in Ids, n \in Statuses \cup {None} : Edit(i, n)
    BY <1>4, EditKeeps
  <1> QED BY <1>1, <1>2, <1>3, <1>4 DEF Next

THEOREM ExportInvariant == Spec => []IInv
  <1> QED BY InitSound, NextKeeps, PTL DEF Spec

-----------------------------------------------------------------------------
(* What an export promises.                                                 *)

\* The type invariant.
THEOREM ExportTypeCorrect == Spec => []ExportTypeOK
  <1>1. ASSUME IInv PROVE ExportTypeOK
    <2>1. exp \in Exports /\ Bounds(exp)
      BY <1>1 DEF IInv, Goal
    <2>2. exp.pos \in 0 .. Len(exp.req.targets) /\ exp.round \in 0 .. exp.req.depth
      <3>1. exp.req.targets \in Seq(Groups) /\ exp.req.depth \in Nat
        BY <2>1 DEF Exports, Request
      <3> QED BY <2>1, <3>1 DEF Exports, Bounds
    <2> QED BY <1>1, <2>1, <2>2 DEF IInv, Exports, Bounds, ExportTypeOK
  <1> QED BY <1>1, ExportInvariant, PTL

\* A node that is not current, or of a group that was not asked for and is never reached,
\* is not exported, whatever other processes change between the index, the queries and
\* the fetches.
THEOREM BoundaryHolds == Spec => []BoundaryKept
  <1>1. ASSUME IInv PROVE BoundaryKept
    <2> SUFFICES ASSUME exp.at = "done", exp.req.kind # "show", NEW e \in exp.found
                 PROVE  /\ exp.req.current => IsCurrent(e.node)
                        /\ \/ GroupOf[e.node.type] \notin Hidden
                           \/ \E n \in DOMAIN exp.req.targets :
                                exp.req.targets[n] = GroupOf[e.node.type]
      BY DEF BoundaryKept
    <2>1. FoundFits(exp)
      BY <1>1 DEF IInv, Goal, AtDone
    <2> QED BY <2>1 DEF FoundFits, Taken, PassesFor
  <1> QED BY <1>1, ExportInvariant, PTL

\* What was found, in one group or in all, can be ordered.
LEMMA FoundDistinct ==
  ASSUME IInv, exp.at = "done", NEW S \in SUBSET exp.found
  PROVE  Distinct(S)
  <1>1. FoundFits(exp) /\ exp.found \subseteq Entry
    BY DEF IInv, Goal, AtDone, Exports
  <1>2. IsFiniteSet(S)
    BY <1>1, FS_Subset DEF FoundFits
  <1>3. \A d, e \in S : d.id = e.id => d.node.type = e.node.type /\ (d.pos = e.pos => d = e)
    BY <1>1 DEF FoundFits, Taken
  <1> QED BY <1>1, <1>2, <1>3 DEF Distinct

\* The part of a group in what is printed is cut at the limit of that group.
LEMMA OutOfGroup ==
  ASSUME IInv, exp.at = "done", exp.req.kind = "export", NEW g \in Groups
  PROVE  InGroup(exp.out, g) = FirstOf(InGroup(exp.found, g), Limit[g])
  <1>1. exp.out = LimitedByGroup(exp.found)
    BY DEF IInv, Goal, AtDone, FoundFits, Limited
  <1>2. \A h \in Groups : \A e \in FirstOf(InGroup(exp.found, h), Limit[h]) :
          GroupOf[e.node.type] = h
    BY DEF FirstOf, InGroup
  <1>3. LimitedByGroup(exp.found) =
          UNION {FirstOf(InGroup(exp.found, h), Limit[h]) : h \in Groups}
    BY DEF LimitedByGroup
  <1>4. \A e : e \in exp.out <=> \E h \in Groups : e \in FirstOf(InGroup(exp.found, h), Limit[h])
    BY <1>1, <1>3
  <1>5. \A S, e : e \in InGroup(S, g) <=> e \in S /\ GroupOf[e.node.type] = g
    BY DEF InGroup
  <1>6. PICK F : F = FirstOf(InGroup(exp.found, g), Limit[g])
    OBVIOUS
  <1>7. \A e : e \in InGroup(exp.out, g) <=> e \in F
    BY <1>2, <1>4, <1>5, <1>6
  <1> QED BY <1>6, <1>7

\* A node is printed once and no group beyond its limit.
THEOREM PrintedOnceHolds == Spec => []PrintedOnce
  <1>1. ASSUME IInv PROVE PrintedOnce
    <2> DEFINE ts == exp.req.targets
    <2> SUFFICES ASSUME exp.at = "done", \A m, n \in DOMAIN ts : ts[m] = ts[n] => m = n
                 PROVE  /\ \A d, e \in exp.out : d.id = e.id => d = e
                        /\ exp.req.kind = "export" =>
                             \A g \in Groups : Cardinality(InGroup(exp.out, g)) <= Limit[g]
      BY DEF PrintedOnce
    <2>1. FoundFits(exp) /\ exp.out \subseteq exp.found
      BY <1>1 DEF IInv, Goal, AtDone, Bounds
    <2>2. \A d, e \in exp.out : d.id = e.id => d = e
      BY <2>1 DEF FoundFits
    <2>3. ASSUME exp.req.kind = "export", NEW g \in Groups
          PROVE  Cardinality(InGroup(exp.out, g)) <= Limit[g]
      <3>1. Limit[g] \in Nat
        BY ExportAssumption
      <3>2. Distinct(InGroup(exp.found, g))
        BY <1>1, FoundDistinct DEF InGroup
      <3> QED BY <1>1, <2>3, <3>1, <3>2, OutOfGroup, FirstAreFew
    <2> QED BY <2>2, <2>3
  <1> QED BY <1>1, ExportInvariant, PTL

\* A group within its limit is printed whole, however many nodes the others have.
THEOREM LimitsApart == Spec => []LimitsAreApart
  <1>1. ASSUME IInv PROVE LimitsAreApart
    <2> SUFFICES ASSUME exp.at = "done", exp.req.kind = "export", NEW g \in Groups,
                        Cardinality(InGroup(exp.found, g)) <= Limit[g]
                 PROVE  InGroup(exp.out, g) = InGroup(exp.found, g)
      BY DEF LimitsAreApart
    <2>1. Limit[g] \in Nat
      BY ExportAssumption
    <2>2. Distinct(InGroup(exp.found, g))
      BY <1>1, FoundDistinct DEF InGroup
    <2> QED BY <1>1, <2>1, <2>2, OutOfGroup, FirstAreAll
  <1> QED BY <1>1, ExportInvariant, PTL

\* An export of a store that nobody changes meanwhile finds what was asked for and exactly
\* what links connect to it within the depth.
THEOREM ReachCorrect == Spec => []ReachExact
  <1>1. ASSUME IInv PROVE ReachExact
    <2> SUFFICES ASSUME exp.at = "done", ~touched
                 PROVE  {e.id : e \in exp.found} = Asked \cup {i \in Ids : Connected(i)}
      BY DEF ReachExact
    <2> DEFINE r == exp.req
    <2>1. IdsOf(exp.found) = Sees(r, stored)
      BY <1>1 DEF IInv, Goal, AtDone
    <2>2. r \in Request /\ r.targets \in Seq(Groups) /\ stored \in Store
      BY <1>1 DEF IInv, Goal, Exports, Request
    <2>3. \A i, gs : Within(i, gs) <=> WithinFor(r, stored, i, gs)
      BY DEF Within, Fits, WithinFor, FitsFor
    <2>4. Asked = AskedFor(r, stored)
      <3>1. {r.targets[n] : n \in DOMAIN r.targets} = TargetsOf(r, Len(r.targets))
        BY <2>2 DEF TargetsOf
      <3> QED BY <2>3, <3>1 DEF Asked, AskedFor
    <2>5. {j \in Ids : Within(j, Reachable)} = On(r, stored)
      BY <2>3 DEF On
    <2>6. \A i, j : Linked(i, j) <=> {i, j} \in LinksFor(r, stored)
      <3>1. \A l \in Ids : Fits(stored[l]) /\ GroupOf[stored[l].type] = "links" <=>
              LinkNode(r, stored, l)
        BY DEF Fits, FitsFor, LinkNode
      <3>2. \A l \in Ids : LinkNode(r, stored, l) => stored[l].ends \in Ends
        BY <2>2 DEF LinkNode, FitsFor, Store, Node
      <3> QED BY <3>1, <3>2 DEF Linked, LinksFor
    <2>7. ASSUME NEW i
          PROVE  Connected(i) <=>
                   \E k \in 1 .. r.depth :
                     Walk(On(r, stored), AskedFor(r, stored), LinksFor(r, stored), k, i)
      BY <2>4, <2>5, <2>6 DEF Connected, Walk
    <2>8. Sees(r, stored) = Asked \cup {i \in Ids : Connected(i)}
      BY <2>4, <2>7 DEF Sees
    <2> QED BY <2>1, <2>8 DEF IdsOf
  <1> QED BY <1>1, ExportInvariant, PTL
=============================================================================
