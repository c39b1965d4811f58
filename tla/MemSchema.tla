----------------------------- MODULE MemSchema -----------------------------
(***************************************************************************)
(* What a memory node is and when MemStore accepts one: the group schema    *)
(* (mem/group.py), the node record (mem/node.py), its index reference and   *)
(* the checks of MemStore._validate (mem/store.py).                         *)
(*                                                                          *)
(* A node keeps only the data the checks and the commands look at: its      *)
(* type, its status, whether it has a content body, a source marker and a   *)
(* metadata path, the ids its metadata refers to (a note's target_ids, a    *)
(* link's from_id and to_id) and its expiry.  Summary, tags and timestamps  *)
(* never decide whether a write happens.                                    *)
(***************************************************************************)
EXTENDS Naturals

CONSTANTS
  Ids,            \* node ids
  Groups,         \* group names: one JSON file each
  Types,          \* node types, unique over the groups
  Statuses,       \* every status a caller may pass, valid or not
  GroupOf,        \* Types -> Groups
  ValidStatuses,  \* NodeTypeDef.valid_statuses
  Singletons,     \* the types with NodeTypeDef.singleton
  MemoryBacked,   \* the types with NodeTypeDef.memory_backed
  NotesGroup,     \* "notes"
  NoteType,       \* "note", the one type of the notes group
  LinksGroup,     \* "links"
  IssueType,      \* "known_issue", which gc archives once it is resolved
  FileChange,     \* "code_history/file_change", the type whose path is dropped
  MaxTime,        \* bound of the clock
  None            \* no node, no reference

\* The built-in groups satisfy this; a group file under .zhar/cfg may add
\* types but must not reshape notes, links and known_issue.
ASSUME SchemaAssumption ==
  /\ GroupOf \in [Types -> Groups]
  /\ ValidStatuses \in [Types -> SUBSET Statuses]
  /\ Singletons \subseteq Types
  /\ MemoryBacked \subseteq Types
  /\ NotesGroup # LinksGroup
  /\ FileChange \notin {NoteType, IssueType}
  /\ \A t \in Types : GroupOf[t] = NotesGroup <=> t = NoteType
  /\ NoteType \in Types =>
       NoteType \in MemoryBacked \ Singletons /\ "active" \in ValidStatuses[NoteType]
  /\ IssueType \in Types =>
       /\ IssueType \notin Singletons
       /\ "archived" \in ValidStatuses[IssueType]
       /\ GroupOf[IssueType] \notin {NotesGroup, LinksGroup}

ASSUME TimeAssumption == MaxTime \in Nat

-----------------------------------------------------------------------------
Never == MaxTime + 1      \* the expiry of a node that has none

Node == [type : Types, status : Statuses, content : BOOLEAN, source : BOOLEAN,
         path : BOOLEAN, refs : SUBSET Ids, expires : 0 .. Never]

NodeRef == [type : Types, status : Statuses]

ASSUME NoneAssumption == None \notin Node /\ None \notin NodeRef /\ None \notin Ids

RefOf_WholeNode(n) == n
\* NodeRef.from_node.
RefOf(n) == [type |-> n.type, status |-> n.status]

Normalize_Nothing(n) == n
\* A file_change that has a source marker loses its metadata path.
Normalize(n) ==
  IF n.type = FileChange /\ n.source THEN [n EXCEPT !.path = FALSE] ELSE n

\* The note _create_attached_note builds for the nodes in `targets`.
AttachedNote(targets) ==
  [type |-> NoteType, status |-> "active", content |-> TRUE, source |-> FALSE,
   path |-> FALSE, refs |-> targets, expires |-> Never]

-----------------------------------------------------------------------------
(* The checks of MemStore._validate, against the index idx of the process.  *)

StatusValid(n) == n.status \in ValidStatuses[n.type]

ContentValid(n) == n.content => n.type \in MemoryBacked

NoteTargetsValid_Any(n, idx) == n.type = NoteType => n.refs # {}
NoteTargetsValid(n, idx) ==
  n.type = NoteType =>
    /\ n.refs # {}
    /\ \A t \in n.refs : idx[t] # None /\ GroupOf[idx[t].type] # NotesGroup

LinkTargetsValid_OneEnd(n, idx) ==
  GroupOf[n.type] = LinksGroup => \E t \in n.refs : idx[t] # None
LinkTargetsValid(n, idx) ==
  GroupOf[n.type] = LinksGroup =>
    n.refs # {} /\ \A t \in n.refs : idx[t] # None

\* MemIndex.singleton returns the first active entry it lists for a type, or
\* None.  The order of the list is abstracted: any active entry may be first.
ActiveIds(idx, type) ==
  {i \in Ids : idx[i] # None /\ idx[i].type = type /\ idx[i].status = "active"}

FirstActive(idx, type) ==
  IF ActiveIds(idx, type) = {} THEN {None} ELSE ActiveIds(idx, type)

SingletonFree_Unchecked(i, n, first) == TRUE
SingletonFree(i, n, first) == n.type \in Singletons => first \in {None, i}

Valid(i, n, idx, first) ==
  /\ StatusValid(n)
  /\ NoteTargetsValid(n, idx)
  /\ LinkTargetsValid(n, idx)
  /\ ContentValid(n)
  /\ SingletonFree(i, n, first)

Accepts(i, n, idx) == \E first \in FirstActive(idx, n.type) : Valid(i, n, idx, first)
Rejects(i, n, idx) == \E first \in FirstActive(idx, n.type) : ~Valid(i, n, idx, first)
=============================================================================
