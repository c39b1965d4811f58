--------------------------- MODULE IndexPromise ---------------------------
(***************************************************************************)
(* What an index over memory nodes promises: a query by group, type, status *)
(* or tag finds exactly the nodes that have it, but for tags that were once  *)
(* listed twice, and the singleton of a type is one of its active nodes.     *)
(* MemIndex implements it with lists.                                        *)
(***************************************************************************)
EXTENDS MemSchema

CONSTANT Tags

VARIABLES
  node,      \* node[i]: what was last put under id i, or None
  repeated,  \* repeated[i]: the tags that a node put under id i ever listed twice
  answer     \* the ids the last query returned

Entry == [ref : NodeRef, tags : SUBSET Tags]

Keys == ({"group"} \X Groups) \cup ({"type"} \X Types)
          \cup ({"status"} \X Statuses) \cup ({"tag"} \X Tags)

RefKeys(r) == {<<"group", GroupOf[r.type]>>, <<"type", r.type>>, <<"status", r.status>>}
KeysOf(e) == RefKeys(e.ref) \cup {<<"tag", t>> : t \in e.tags}

Matches(k) == {i \in Ids : node[i] # None /\ k \in KeysOf(node[i])}

Active(t) ==
  {i \in Ids : node[i] # None /\ node[i].ref = [type |-> t, status |-> "active"]}

\* What a query by tag may find besides: a node that is there, and under whose id
\* the tag was listed twice.
Leftover(k) == {i \in Ids : node[i] # None /\ \E t \in repeated[i] : k = <<"tag", t>>}

Init ==
  /\ node = [i \in Ids |-> None]
  /\ repeated = [i \in Ids |-> {}]
  /\ answer = {}

\* A node that lists the tags `twice` more than once.
Put(i, e, twice) ==
  /\ node' = [node EXCEPT ![i] = e]
  /\ repeated' = [repeated EXCEPT ![i] = @ \cup twice]
  /\ UNCHANGED answer

Delete(i) == node' = [node EXCEPT ![i] = None] /\ UNCHANGED <<repeated, answer>>

Ask(k) ==
  /\ \E more \in SUBSET Leftover(k) : answer' = Matches(k) \cup more
  /\ UNCHANGED <<node, repeated>>

AskSingleton(t) ==
  /\ \/ Active(t) = {} /\ answer' = {}
     \/ \E i \in Active(t) : answer' = {i}
  /\ UNCHANGED <<node, repeated>>

Next ==
  \/ \E i \in Ids, e \in Entry : \E twice \in SUBSET e.tags : Put(i, e, twice)
  \/ \E i \in Ids : Delete(i)
  \/ \E k \in Keys : Ask(k)
  \/ \E t \in Types : AskSingleton(t)

Spec == Init /\ [][Next]_<<node, repeated, answer>>
=============================================================================
