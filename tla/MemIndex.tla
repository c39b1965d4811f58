----------------------------- MODULE MemIndex -----------------------------
(***************************************************************************)
(* The in-memory index (mem/index.py): a reference per id, and beside it    *)
(* lists of ids by group, type, status and tag that add and remove keep up.  *)
(* A reference does not know the tags of its node, so the tag lists are      *)
(* searched, and each is rid of the first occurrence of an id only.          *)
(***************************************************************************)
EXTENDS MemSchema, Sequences

CONSTANTS
  Tags,
  MaxRepeat,   \* bound: how often a node may list one tag
  MaxListed    \* bound: length of a tag list

ASSUME IndexAssumption == MaxRepeat \in Nat /\ MaxListed \in Nat

VARIABLES
  refs,     \* _by_id
  lists,    \* _by_group, _by_type, _by_status and _by_tag, under one key each
  answer,   \* the ids the last query returned
  carried,  \* history: how often the node last added under an id lists a tag
  repeated  \* history: the tags a node added under an id has ever listed twice

history == <<carried, repeated>>
vars == <<refs, lists, answer, history>>

TagBags == [Tags -> 0 .. MaxRepeat]

Promise == INSTANCE IndexPromise WITH
  node <- [i \in Ids |-> IF refs[i] = None THEN None
                         ELSE [ref |-> refs[i], tags |-> {t \in Tags : carried[i][t] > 0}]]

\* A removed node is told from every node there is.
ASSUME EntryAssumption == None \notin Promise!Entry

Keys == Promise!Keys
RefKeys(r) == Promise!RefKeys(r)
TagKeys == {"tag"} \X Tags

Elements(s) == {s[n] : n \in DOMAIN s}

Drop_Blanks(s, v) == [n \in DOMAIN s |-> IF s[n] = v THEN None ELSE s[n]]
Drop_Nothing(s, v) == s
\* list.remove: the first occurrence, if there is one.
Drop(s, v) ==
  IF v \notin Elements(s) THEN s
  ELSE LET first == CHOOSE n \in DOMAIN s : s[n] = v /\ \A m \in 1 .. n - 1 : s[m] # v
       IN [n \in 1 .. Len(s) - 1 |-> IF n < first THEN s[n] ELSE s[n + 1]]

Times(i, n) == [m \in 1 .. n |-> i]

Cleared_RefsOnly(i) ==
  [k \in Keys |-> IF k \in RefKeys(refs[i]) THEN Drop(lists[k], i) ELSE lists[k]]
\* MemIndex._remove_refs.
Cleared(i) ==
  [k \in Keys |-> IF k \in RefKeys(refs[i]) \cup TagKeys THEN Drop(lists[k], i)
                  ELSE lists[k]]

Init ==
  /\ refs = [i \in Ids |-> None]
  /\ lists = [k \in Keys |-> <<>>]
  /\ answer = {}
  /\ carried = [i \in Ids |-> [t \in Tags |-> 0]]
  /\ repeated = [i \in Ids |-> {}]

\* MemIndex.add of a node with reference r that lists tag t bag[t] times.
Add(i, r, bag) ==
  LET kept == IF refs[i] = None THEN lists ELSE Cleared(i)
      new(k) == IF k \in TagKeys THEN bag[k[2]] ELSE IF k \in RefKeys(r) THEN 1 ELSE 0
  IN
  /\ \A k \in TagKeys : Len(kept[k]) + new(k) <= MaxListed
  /\ refs' = [refs EXCEPT ![i] = r]
  /\ lists' = [k \in Keys |-> kept[k] \o Times(i, new(k))]
  /\ carried' = [carried EXCEPT ![i] = bag]
  /\ repeated' = [repeated EXCEPT ![i] = @ \cup {t \in Tags : bag[t] > 1}]
  /\ UNCHANGED answer

\* MemIndex.remove.
Remove(i) ==
  /\ refs[i] # None
  /\ refs' = [refs EXCEPT ![i] = None]
  /\ lists' = Cleared(i)
  /\ carried' = [carried EXCEPT ![i] = [t \in Tags |-> 0]]
  /\ UNCHANGED <<answer, repeated>>

\* _resolve: the places of list k whose id has a reference.
Resolved(k) == {n \in DOMAIN lists[k] : refs[lists[k][n]] # None}

\* by_group, by_type, by_status and by_tag, as the set the query engine makes of them.
Ask(k) ==
  /\ answer' = {lists[k][n] : n \in Resolved(k)}
  /\ UNCHANGED <<refs, lists, history>>

\* singleton: the active nodes of the type in the list of its group; the first is it.
Candidates(t, k) ==
  {n \in Resolved(k) : refs[lists[k][n]].type = t /\ refs[lists[k][n]].status = "active"}

AskSingleton(t) ==
  /\ LET k == <<"group", GroupOf[t]>>
         first == CHOOSE n \in Candidates(t, k) : \A m \in Candidates(t, k) : n <= m
     IN answer' = IF Candidates(t, k) = {} THEN {} ELSE {lists[k][first]}
  /\ UNCHANGED <<refs, lists, history>>

Next ==
  \/ \E i \in Ids, r \in NodeRef, bag \in TagBags : Add(i, r, bag)
  \/ \E i \in Ids : Remove(i)
  \/ \E k \in Keys : Ask(k)
  \/ \E t \in Types : AskSingleton(t)

Spec == Init /\ [][Next]_vars

-----------------------------------------------------------------------------
(* Properties.                                                              *)

\* Type invariant.
IndexTypeOK ==
  /\ refs \in [Ids -> NodeRef \cup {None}]
  /\ lists \in [Keys -> Seq(Ids)]
  /\ answer \subseteq Ids
  /\ carried \in [Ids -> TagBags]
  /\ repeated \in [Ids -> SUBSET Tags]

\* However often ids are replaced and removed, the lists by group, type and status
\* hold each id that has the key once and no other id.
ListsExact == \A k \in Keys \ TagKeys :
  /\ Elements(lists[k]) = {i \in Ids : refs[i] # None /\ k \in RefKeys(refs[i])}
  /\ \A m, n \in DOMAIN lists[k] : lists[k][m] = lists[k][n] => m = n

\* Every query by group, type and status answers what the index promises, and the
\* singleton of a type is what MemSchema assumes of it: an active node of the type
\* when there is one.  A query by tag finds every node that has the tag, and finds
\* another only where the tag was once listed twice under its id.  MemIndex.add says
\* that "all old index entries for that ID are cleaned up" (mem/index.py:33-34);
\* entries of such a tag are not, as _drop removes one of them only.
KeepsPromise == Promise!Spec
=============================================================================
