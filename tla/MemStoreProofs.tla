-------------------------- MODULE MemStoreProofs --------------------------
(***************************************************************************)
(* The safety of MemStore for every schema, every set of ids and every      *)
(* input.  All of it rests on one inductive invariant: file and index are   *)
(* Consistent with each other.                                              *)
(***************************************************************************)
EXTENDS MemStore, TLAPS

-----------------------------------------------------------------------------
(* Nodes, references and validation, whoever keeps the files.               *)

\* RefOf of a node is a reference, and so not None.
LEMMA RefOfType ==
  ASSUME NEW n \in Node
  PROVE  RefOf(n) \in NodeRef /\ RefOf(n) # None
  BY NoneAssumption DEF RefOf, Node, NodeRef

\* And it has the node's type.
LEMMA RefOfKeepsType == ASSUME NEW n PROVE RefOf(n).type = n.type
  BY DEF RefOf

\* Normalizing keeps a node a node and touches nothing but the path.
LEMMA NormalizeKeeps ==
  ASSUME NEW n \in Node
  PROVE  /\ Normalize(n) \in Node
         /\ Normalize(n).type = n.type /\ Normalize(n).status = n.status
         /\ Normalize(n).content = n.content /\ Normalize(n).refs = n.refs
         /\ Normalize(n).source = n.source /\ Normalize(n).expires = n.expires
         /\ n.type = FileChange => ~(Normalize(n).source /\ Normalize(n).path)
  BY DEF Normalize, Node

-----------------------------------------------------------------------------
(* Validation and singletons.                                               *)

IsActive(ref, type) == ref # None /\ ref.type = type /\ ref.status = "active"

OneActive(idx) == \A t \in Singletons : \A i, j \in Ids :
  IsActive(idx[i], t) /\ IsActive(idx[j], t) => i = j

\* An accepted node of a singleton type has no active rival in the index,
\* whichever entry the index lists first.
LEMMA AcceptedAlone ==
  ASSUME NEW idx, OneActive(idx), NEW i \in Ids, NEW n \in Node,
         Accepts(i, n, idx), n.type \in Singletons,
         NEW j \in Ids, IsActive(idx[j], n.type)
  PROVE  j = i
  <1>1. j \in ActiveIds(idx, n.type)
    BY DEF ActiveIds, IsActive
  <1>2. PICK first \in ActiveIds(idx, n.type) : first \in {None, i}
    BY <1>1 DEF Accepts, FirstActive, Valid, SingletonFree
  <1>3. first = i /\ IsActive(idx[i], n.type)
    BY <1>2, NoneAssumption DEF ActiveIds, IsActive
  <1> QED BY <1>3 DEF OneActive

-----------------------------------------------------------------------------
(* The state, part by part.                                                 *)

Files == [Groups -> [Ids -> Node \cup {None}]]
Indexes == [Ids -> NodeRef \cup {None}]

\* The index has exactly the ids the files have, with their type and status.
Agrees(f, idx) == \A i \in Ids :
  /\ idx[i] # None => f[GroupOf[idx[i].type]][i] # None
  /\ \A g \in Groups : f[g][i] # None => idx[i] = RefOf(f[g][i])

\* A node as MemStore.save leaves it.
Proper(n) ==
  /\ StatusValid(n)
  /\ ContentValid(n)
  /\ n.type = FileChange => ~(n.source /\ n.path)

AllProper(f) == \A g \in Groups, i \in Ids :
  f[g][i] # None => GroupOf[f[g][i].type] = g /\ Proper(f[g][i])

Consistent(f, idx) ==
  /\ f \in Files
  /\ idx \in Indexes
  /\ Agrees(f, idx)
  /\ AllProper(f)
  /\ OneActive(idx)

IInv ==
  /\ Consistent(file, index)
  /\ now \in 0 .. MaxTime
  /\ reply \in Replies

-----------------------------------------------------------------------------
(* Facts about nodes.                                                       *)

\* The id of a stored node has one home, the group of its indexed type.
LEMMA HomeIsIndexed ==
  ASSUME NEW f, NEW idx, Consistent(f, idx), NEW i \in Ids, NEW g \in Groups,
         f[g][i] # None
  PROVE  idx[i] # None /\ f[g][i] \in Node /\ g = GroupOf[idx[i].type]
  <1>1. f[g][i] \in Node /\ idx[i] = RefOf(f[g][i]) /\ GroupOf[f[g][i].type] = g
    BY DEF Consistent, Files, Agrees, AllProper
  <1>2. idx[i].type = f[g][i].type
    BY <1>1 DEF RefOf
  <1> QED BY <1>1, <1>2, RefOfType

-----------------------------------------------------------------------------
(* The two ways a command changes the store keep it consistent.             *)

\* Deleting any set of ids from files and index.
LEMMA EraseConsistent ==
  ASSUME NEW f, NEW idx, Consistent(f, idx), NEW gone \in SUBSET Ids
  PROVE  Consistent(Erase(f, idx, gone), DropRefs(idx, gone))
  <1> DEFINE ff == Erase(f, idx, gone)
             xx == DropRefs(idx, gone)
  <1>1. ff \in Files /\ xx \in Indexes
    BY DEF Consistent, Files, Indexes, Erase, DropRefs
  <1>2. ASSUME NEW i \in Ids, NEW g \in Groups
        PROVE  ff[g][i] = (IF i \in gone THEN None ELSE f[g][i])
    BY HomeIsIndexed DEF Erase
  <1>3. ASSUME NEW i \in Ids PROVE xx[i] = (IF i \in gone THEN None ELSE idx[i])
    BY DEF DropRefs
  <1> HIDE DEF ff, xx
  <1>4. Agrees(ff, xx)
    <2> SUFFICES ASSUME NEW i \in Ids
                 PROVE  /\ xx[i] # None => ff[GroupOf[xx[i].type]][i] # None
                        /\ \A g \in Groups : ff[g][i] # None => xx[i] = RefOf(ff[g][i])
      BY DEF Agrees
    <2>1. xx[i] # None => GroupOf[xx[i].type] \in Groups
      BY <1>1, SchemaAssumption DEF Indexes, NodeRef
    <2> QED BY <2>1, <1>2, <1>3 DEF Consistent, Agrees
  <1>5. AllProper(ff)
    BY <1>2 DEF Consistent, AllProper
  <1>6. OneActive(xx)
    BY <1>3 DEF Consistent, OneActive, IsActive
  <1> QED BY <1>1, <1>4, <1>5, <1>6 DEF Consistent, ff, xx

\* Saving a batch of proper nodes, each under a free id or over a node of its
\* own type, where no singleton type ends up with two active ids.
LEMMA WriteConsistent ==
  ASSUME NEW f, NEW idx, Consistent(f, idx),
         NEW D \in SUBSET Ids, NEW new \in [D -> Node],
         \A i \in D : Proper(new[i]),
         \A i \in D : idx[i] # None => idx[i].type = new[i].type,
         OneActive(Reindex(idx, new))
  PROVE  Consistent(Write(f, new), Reindex(idx, new))
  <1> DEFINE ff == Write(f, new)
             xx == Reindex(idx, new)
  <1>0. DOMAIN new = D /\ \A i \in D : new[i] \in Node
    OBVIOUS
  <1>1. ff \in Files /\ xx \in Indexes
    BY <1>0, RefOfType DEF Consistent, Files, Indexes, Write, Reindex
  <1>2. ASSUME NEW i \in Ids, NEW g \in Groups
        PROVE  ff[g][i] = (IF i \in D /\ GroupOf[new[i].type] = g
                           THEN new[i] ELSE f[g][i])
    BY <1>0 DEF Write
  <1>3. ASSUME NEW i \in Ids
        PROVE  xx[i] = (IF i \in D THEN RefOf(new[i]) ELSE idx[i])
    BY <1>0 DEF Reindex
  <1> HIDE DEF ff, xx
  <1>4. ASSUME NEW i \in D, NEW g \in Groups, ff[g][i] # None
        PROVE  GroupOf[new[i].type] = g /\ ff[g][i] = new[i]
    <2>1. CASE GroupOf[new[i].type] = g
      BY <2>1, <1>2
    <2>2. CASE GroupOf[new[i].type] # g
      <3>1. ff[g][i] = f[g][i]
        BY <2>2, <1>2
      <3>2. idx[i] # None /\ g = GroupOf[idx[i].type]
        BY <3>1, <1>4, HomeIsIndexed
      <3> QED BY <3>2, <2>2
    <2> QED BY <2>1, <2>2
  <1>5. Agrees(ff, xx)
    <2> SUFFICES ASSUME NEW i \in Ids
                 PROVE  /\ xx[i] # None => ff[GroupOf[xx[i].type]][i] # None
                        /\ \A g \in Groups : ff[g][i] # None => xx[i] = RefOf(ff[g][i])
      BY DEF Agrees
    <2>1. CASE i \in D
      <3>1. /\ xx[i] = RefOf(new[i]) /\ xx[i].type = new[i].type
            /\ GroupOf[new[i].type] \in Groups /\ new[i] # None
        BY <2>1, <1>0, <1>3, SchemaAssumption, NoneAssumption DEF RefOf, Node
      <3>2. ff[GroupOf[xx[i].type]][i] = new[i]
        BY <2>1, <3>1, <1>2
      <3> QED BY <2>1, <3>1, <3>2, <1>4
    <2>2. CASE i \notin D
      <3>1. xx[i] = idx[i] /\ \A g \in Groups : ff[g][i] = f[g][i]
        BY <2>2, <1>2, <1>3
      <3>2. xx[i] # None => GroupOf[xx[i].type] \in Groups
        BY <1>1, SchemaAssumption DEF Indexes, NodeRef
      <3> QED BY <3>1, <3>2 DEF Consistent, Agrees
    <2> QED BY <2>1, <2>2
  <1>6. AllProper(ff)
    <2> SUFFICES ASSUME NEW g \in Groups, NEW i \in Ids, ff[g][i] # None
                 PROVE  GroupOf[ff[g][i].type] = g /\ Proper(ff[g][i])
      BY DEF AllProper
    <2>1. CASE i \in D
      BY <2>1, <1>4
    <2>2. CASE i \notin D
      BY <2>2, <1>2 DEF Consistent, AllProper
    <2> QED BY <2>1, <2>2
  <1> QED BY <1>1, <1>5, <1>6 DEF Consistent, ff, xx

-----------------------------------------------------------------------------
(* What MemStore.save accepts.                                              *)

\* A normalized node that validation accepts is proper.
LEMMA AcceptedProper ==
  ASSUME NEW idx, NEW i \in Ids, NEW n \in Node, Accepts(i, Normalize(n), idx)
  PROVE  Proper(Normalize(n))
  BY NormalizeKeeps DEF Accepts, Valid, Proper

\* One accepted save, under a free id or over a node of its own type.
LEMMA SaveConsistent ==
  ASSUME NEW f, NEW idx, Consistent(f, idx), NEW i \in Ids, NEW n \in Node,
         Accepts(i, Normalize(n), idx),
         idx[i] # None => idx[i].type = n.type
  PROVE  Consistent(Write(f, Single(i, Normalize(n))),
                    Reindex(idx, Single(i, Normalize(n))))
  <1> DEFINE m == Normalize(n)
             new == Single(i, m)
             xx == Reindex(idx, new)
  <1>1. m \in Node /\ m.type = n.type /\ Proper(m)
    BY NormalizeKeeps, AcceptedProper
  <1>2. new \in [{i} -> Node] /\ new[i] = m
    BY <1>1 DEF Single
  <1>3. \A k \in Ids : xx[k] = (IF k = i THEN RefOf(m) ELSE idx[k])
    BY DEF Reindex, Single
  <1>4. OneActive(xx)
    <2> SUFFICES ASSUME NEW t \in Singletons, NEW j \in Ids, NEW k \in Ids,
                        IsActive(xx[j], t), IsActive(xx[k], t)
                 PROVE  j = k
      BY DEF OneActive
    <2>0. OneActive(idx)
      BY DEF Consistent
    <2>1. \A h \in Ids : h # i => xx[h] = idx[h]
      BY <1>3
    <2>2. xx[i] = RefOf(m)
      BY <1>3
    <2>3. IsActive(xx[i], t) => m.type = t
      BY <2>2 DEF IsActive, RefOf
    <2> HIDE DEF xx, m
    <2>4. ASSUME NEW h \in Ids, h # i, IsActive(xx[h], t), IsActive(xx[i], t)
          PROVE  FALSE
      <3>1. m.type = t /\ IsActive(idx[h], t)
        BY <2>1, <2>3, <2>4
      <3>2. h = i
        BY <1>1, <2>0, <3>1, AcceptedAlone DEF m
      <3> QED BY <3>2, <2>4
    <2>5. CASE j = i \/ k = i
      BY <2>4, <2>5
    <2>6. CASE j # i /\ k # i
      BY <2>0, <2>1, <2>6 DEF OneActive
    <2> QED BY <2>5, <2>6
  <1> HIDE DEF m, new, xx
  <1>5. \A k \in {i} : Proper(new[k]) /\ (idx[k] # None => idx[k].type = new[k].type)
    BY <1>1, <1>2
  <1>6. Consistent(Write(f, new), Reindex(idx, new))
    BY <1>2, <1>4, <1>5, WriteConsistent DEF xx
  <1> QED BY <1>6 DEF new, m

-----------------------------------------------------------------------------
(* Each command keeps the invariant.                                        *)

\* What MemStore.get returns is a proper node that its index entry describes.
LEMMA GetIsProper ==
  ASSUME IInv, NEW i \in Ids, Get(i) # None
  PROVE  Get(i) \in Node /\ Proper(Get(i)) /\ index[i] = RefOf(Get(i))
         /\ index[i] # None /\ index[i].type = Get(i).type
  <1>1. index[i] # None /\ Get(i) = file[GroupOf[index[i].type]][i]
    BY DEF Get
  <1>2. GroupOf[index[i].type] \in Groups
    BY <1>1, SchemaAssumption DEF IInv, Consistent, Indexes, NodeRef
  <1>3. Get(i) \in Node /\ Proper(Get(i)) /\ index[i] = RefOf(Get(i))
    BY <1>1, <1>2, HomeIsIndexed DEF IInv, Consistent, AllProper, Agrees
  <1>4. index[i].type = Get(i).type
    BY <1>3 DEF RefOf
  <1> QED BY <1>1, <1>3, <1>4

\* A command that is refused, or has no id, changes neither files nor index.
LEMMA FailKeeps == ASSUME IInv, Fail \/ NoId PROVE IInv'
  BY DEF IInv, Fail, NoId, Replies

\* A command of one save that MemStore.save accepts.
LEMMA SaveKeeps ==
  ASSUME IInv, NEW i \in Ids, NEW n \in Node, Save(i, n),
         index[i] # None => index[i].type = n.type
  PROVE  IInv'
  <1>1. CASE Fail
    BY <1>1, FailKeeps
  <1>2. CASE Accepts(i, Normalize(n), index) /\ Saved(Single(i, Normalize(n)), "ok")
    <2>1. Consistent(Write(file, Single(i, Normalize(n))),
                     Reindex(index, Single(i, Normalize(n))))
      BY <1>2, SaveConsistent DEF IInv
    <2> QED BY <1>2, <2>1 DEF IInv, Saved, Replies
  <1> QED BY <1>1, <1>2 DEF Save

\* Any set of deletions.
LEMMA DeletedKeeps ==
  ASSUME IInv, NEW gone \in SUBSET Ids, Deleted(gone)
  PROVE  IInv'
  <1>1. Consistent(file', index')
    BY EraseConsistent DEF IInv, Deleted
  <1> QED BY <1>1 DEF IInv, Deleted, Replies

\* The two saves of zhar add with a body, one after the other.
LEMMA AddWithNoteKeeps ==
  ASSUME IInv, NEW c \in Node, NEW i \in FreshIds(index),
         Accepts(i, Normalize(c), index),
         NEW j \in Ids,
         Reindex(index, Single(i, Normalize(c)))[j] = None,
         Accepts(j, AttachedNote({i}), Reindex(index, Single(i, Normalize(c)))),
         Saved([k \in {i, j} |-> IF k = j THEN AttachedNote({i}) ELSE Normalize(c)], "ok")
  PROVE  IInv'
  <1> DEFINE m == Normalize(c)
             note == AttachedNote({i})
             first == Single(i, m)
             second == Single(j, note)
             both == [k \in {i, j} |-> IF k = j THEN note ELSE m]
  <1>1. i \in Ids /\ index[i] = None
    BY DEF FreshIds
  <1>2. note \in Node /\ Normalize(note) = note
    BY <1>1, SchemaAssumption, InputAssumption, TimeAssumption
    DEF AttachedNote, Normalize, Node, Never
  <1>3. m \in Node
    BY NormalizeKeeps
  <1>4. Consistent(Write(file, first), Reindex(index, first))
    BY <1>1, SaveConsistent DEF IInv
  <1>5. j # i
    BY <1>1, <1>3, RefOfType DEF Reindex, Single
  <1>6. Consistent(Write(Write(file, first), second),
                   Reindex(Reindex(index, first), second))
    BY <1>2, <1>4, SaveConsistent
  <1> HIDE DEF m, note
  <1>7. Write(Write(file, first), second) = Write(file, both)
    BY <1>5 DEF Write, Single
  <1>8. Reindex(Reindex(index, first), second) = Reindex(index, both)
    BY <1>5 DEF Reindex, Single
  <1>9. Consistent(file', index')
    BY <1>6, <1>7, <1>8 DEF Saved, m, note
  <1> QED BY <1>9 DEF IInv, Saved, Replies

\* zhar add, with or without a body, and with a body whose note is refused or
\* has no id.
LEMMA AddKeeps ==
  ASSUME IInv, NEW n \in NewNodes, NEW body \in Bodies, Add(n, body)
  PROVE  IInv'
  <1> DEFINE c == [n EXCEPT !.content = body # "none" /\ n.type \in MemoryBacked]
             m == Normalize(c)
  <1>0. n \in Node /\ c \in Node
    BY InputAssumption DEF Node
  <1>1. m \in Node
    BY <1>0, NormalizeKeeps
  <1> HIDE DEF c
  <1>2. \/ Fail \/ NoId
        \/ \E i \in FreshIds(index) :
             \/ Fail
             \/ Save(i, m)
             \/ /\ Accepts(i, m, index)
                /\ \/ Saved(Single(i, m), "no id")
                   \/ Saved(Single(i, m), "error")
                   \/ \E j \in FreshIds(Reindex(index, Single(i, m))) :
                        /\ Accepts(j, AttachedNote({i}), Reindex(index, Single(i, m)))
                        /\ Saved([k \in {i, j} |-> IF k = j THEN AttachedNote({i}) ELSE m], "ok")
    BY DEF Add, c
  <1>3. \A i \in FreshIds(index) : i \in Ids /\ index[i] = None
    BY DEF FreshIds
  <1>4. CASE Fail \/ NoId
    BY <1>4, FailKeeps
  <1>5. ASSUME NEW i \in FreshIds(index), Save(i, m) PROVE IInv'
    BY <1>1, <1>3, <1>5, SaveKeeps
  <1>6. ASSUME NEW i \in FreshIds(index), Accepts(i, m, index),
               NEW j \in FreshIds(Reindex(index, Single(i, m))),
               Accepts(j, AttachedNote({i}), Reindex(index, Single(i, m))),
               Saved([k \in {i, j} |-> IF k = j THEN AttachedNote({i}) ELSE m], "ok")
        PROVE  IInv'
    <2>1. j \in Ids /\ Reindex(index, Single(i, m))[j] = None
      BY DEF FreshIds
    <2> QED BY <1>0, <1>6, <2>1, AddWithNoteKeeps
  <1>7. ASSUME NEW i \in FreshIds(index), Accepts(i, m, index),
               NEW result \in {"error", "no id"}, Saved(Single(i, m), result)
        PROVE  IInv'
    <2>1. Consistent(Write(file, Single(i, m)), Reindex(index, Single(i, m)))
      BY <1>0, <1>3, <1>7, SaveConsistent DEF IInv
    <2> QED BY <1>7, <2>1 DEF IInv, Saved, Replies
  <1> QED BY <1>2, <1>4, <1>5, <1>6, <1>7

\* zhar add-note.
LEMMA AddNoteKeeps ==
  ASSUME IInv, NEW targets \in SUBSET Ids, AddNote(targets)
  PROVE  IInv'
  <1>1. CASE Fail \/ NoId
    BY <1>1, FailKeeps
  <1>2. ASSUME NEW i \in FreshIds(index), Save(i, AttachedNote(targets))
        PROVE  IInv'
    <2>1. AttachedNote(targets) \in Node
      BY SchemaAssumption, InputAssumption, TimeAssumption DEF AttachedNote, Node, Never
    <2>2. i \in Ids /\ index[i] = None
      BY DEF FreshIds
    <2> QED BY <1>2, <2>1, <2>2, SaveKeeps
  <1> QED BY <1>1, <1>2 DEF AddNote

\* zhar note.
LEMMA SetContentKeeps ==
  ASSUME IInv, NEW i \in Ids, SetContent(i)
  PROVE  IInv'
  <1>1. CASE Fail
    BY <1>1, FailKeeps
  <1>2. CASE TakesContent(i) /\ Save(i, [Get(i) EXCEPT !.content = TRUE])
    <2>1. Get(i) \in Node /\ index[i].type = Get(i).type
      BY <1>2, GetIsProper DEF TakesContent
    <2>2. /\ [Get(i) EXCEPT !.content = TRUE] \in Node
          /\ [Get(i) EXCEPT !.content = TRUE].type = Get(i).type
      BY <2>1 DEF Node
    <2> QED BY <1>2, <2>1, <2>2, SaveKeeps
  <1> QED BY <1>1, <1>2 DEF SetContent

\* zhar set-status.
LEMMA SetStatusKeeps ==
  ASSUME IInv, NEW i \in Ids, NEW s \in Statuses, SetStatus(i, s)
  PROVE  IInv'
  <1>1. CASE Fail
    BY <1>1, FailKeeps
  <1>2. CASE Get(i) # None /\ Save(i, [Get(i) EXCEPT !.status = s])
    <2>1. Get(i) \in Node /\ index[i].type = Get(i).type
      BY <1>2, GetIsProper
    <2>2. /\ [Get(i) EXCEPT !.status = s] \in Node
          /\ [Get(i) EXCEPT !.status = s].type = Get(i).type
      BY <2>1 DEF Node
    <2> QED BY <1>2, <2>1, <2>2, SaveKeeps
  <1> QED BY <1>1, <1>2 DEF SetStatus

\* zhar remove.
LEMMA RemoveKeeps ==
  ASSUME IInv, NEW i \in Ids, Remove(i)
  PROVE  IInv'
  <1>1. CASE Fail
    BY <1>1, FailKeeps
  <1>2. CASE Deleted({i})
    BY <1>2, DeletedKeeps
  <1> QED BY <1>1, <1>2 DEF Remove

\* zhar prune.
LEMMA PruneKeeps ==
  ASSUME IInv, NEW q \in Queries, Prune(q)
  PROVE  IInv'
  BY DeletedKeeps DEF Prune, Matching, Fetched

\* A batch of saves that leaves every status alone activates nothing.
LEMMA ScanKeeps ==
  ASSUME IInv, NEW hits \in SUBSET Ids, Scan(hits)
  PROVE  IInv'
  <1>1. PICK done \in SUBSET (hits \cap Fetched) :
          /\ \A i \in done : Accepts(i, WithSource(i), index)
          /\ \E result \in {"ok", "error"} :
               Saved([i \in done |-> WithSource(i)], result)
    BY DEF Scan
  <1> DEFINE new == [i \in done |-> WithSource(i)]
             xx == Reindex(index, new)
  <1>2. done \in SUBSET Ids
    BY DEF Fetched
  <1>3. ASSUME NEW i \in done
        PROVE  /\ WithSource(i) \in Node
               /\ RefOf(WithSource(i)) = index[i]
               /\ index[i].type = WithSource(i).type
               /\ Proper(WithSource(i))
    <2> DEFINE n == [Get(i) EXCEPT !.source = TRUE]
    <2>1. i \in Ids /\ Get(i) # None
      BY DEF Fetched
    <2>2. /\ Get(i) \in Node /\ index[i] = RefOf(Get(i))
          /\ index[i].type = Get(i).type
      BY <2>1, GetIsProper
    <2>3. n \in Node /\ n.type = Get(i).type /\ n.status = Get(i).status
      BY <2>2 DEF Node
    <2>4. WithSource(i) = Normalize(n)
      BY DEF WithSource
    <2> HIDE DEF n
    <2>5. /\ WithSource(i) \in Node /\ WithSource(i).type = Get(i).type
          /\ WithSource(i).status = Get(i).status
      BY <2>3, <2>4, NormalizeKeeps
    <2>6. Proper(WithSource(i))
      BY <1>1, <2>1, <2>3, <2>4, AcceptedProper
    <2>7. RefOf(WithSource(i)) = index[i]
      BY <2>2, <2>5 DEF RefOf
    <2> QED BY <2>2, <2>5, <2>6, <2>7
  <1>4. new \in [done -> Node]
    BY <1>3
  <1>5. ASSUME NEW k \in Ids PROVE xx[k] = index[k]
    BY <1>2, <1>3, <1>5 DEF Reindex
  <1>6. OneActive(xx)
    <2> HIDE DEF xx
    <2> QED BY <1>5 DEF IInv, Consistent, OneActive
  <1>7. \A i \in done :
          Proper(new[i]) /\ (index[i] # None => index[i].type = new[i].type)
    BY <1>3
  <1> HIDE DEF new
  <1>8. Consistent(Write(file, new), Reindex(index, new))
    BY <1>2, <1>4, <1>6, <1>7, WriteConsistent DEF IInv
  <1> QED BY <1>1, <1>8 DEF IInv, Saved, Replies, new

\* Deletions first, then a batch of saves that activates nothing.
LEMMA GcKeeps ==
  ASSUME IInv, Gc
  PROVE  IInv'
  <1> DEFINE gone == {i \in Fetched : Expired(Get(i))}
             done == {i \in Fetched \ gone :
                        Get(i).type = IssueType /\ Get(i).status = "resolved"}
             new == [i \in done |-> [Get(i) EXCEPT !.status = "archived"]]
             ff == Erase(file, index, gone)
             xx == DropRefs(index, gone)
  <1>1. gone \in SUBSET Ids /\ done \in SUBSET Ids
    BY DEF Fetched
  <1>2. Consistent(ff, xx)
    BY <1>1, EraseConsistent DEF IInv
  <1>3. ASSUME NEW i \in done
        PROVE  /\ [Get(i) EXCEPT !.status = "archived"] \in Node
               /\ [Get(i) EXCEPT !.status = "archived"].type = IssueType
               /\ [Get(i) EXCEPT !.status = "archived"].status = "archived"
               /\ Proper([Get(i) EXCEPT !.status = "archived"])
               /\ xx[i] # None => xx[i].type = IssueType
    <2>1. i \in Ids /\ Get(i) # None /\ Get(i).type = IssueType
      BY DEF Fetched
    <2>2. Get(i) \in Node /\ Proper(Get(i)) /\ index[i].type = IssueType
      BY <2>1, GetIsProper
    <2>3. "archived" \in ValidStatuses[IssueType] /\ "archived" \in Statuses
      BY <2>1, <2>2, SchemaAssumption DEF Node
    <2>4. /\ [Get(i) EXCEPT !.status = "archived"] \in Node
          /\ [Get(i) EXCEPT !.status = "archived"].type = IssueType
          /\ [Get(i) EXCEPT !.status = "archived"].status = "archived"
          /\ [Get(i) EXCEPT !.status = "archived"].content = Get(i).content
          /\ [Get(i) EXCEPT !.status = "archived"].source = Get(i).source
          /\ [Get(i) EXCEPT !.status = "archived"].path = Get(i).path
      BY <2>1, <2>2, <2>3 DEF Node
    <2>5. Proper([Get(i) EXCEPT !.status = "archived"])
      BY <2>1, <2>2, <2>3, <2>4 DEF Proper, StatusValid, ContentValid
    <2>6. xx[i] # None => xx[i].type = IssueType
      BY <2>1, <2>2 DEF DropRefs
    <2> QED BY <2>4, <2>5, <2>6
  <1>4. /\ new \in [done -> Node]
        /\ \A i \in done : new[i].status = "archived"
        /\ \A i \in done : Proper(new[i])
        /\ \A i \in done : xx[i] # None => xx[i].type = new[i].type
    BY <1>3
  <1>5. file' = Write(ff, new) /\ index' = Reindex(xx, new) /\ reply' = "ok" /\ now' = now
    BY DEF Gc, Archivable
  <1> HIDE DEF ff, xx, done, new
  <1>6. OneActive(Reindex(xx, new))
    <2>1. ASSUME NEW i \in done PROVE Reindex(xx, new)[i].status = "archived"
      <3>1. i \in Ids /\ i \in DOMAIN new
        BY <1>1, <1>4
      <3>2. Reindex(xx, new)[i] = RefOf(new[i])
        BY <3>1 DEF Reindex
      <3> QED BY <1>4, <3>2 DEF RefOf
    <2>2. ASSUME NEW i \in Ids, i \notin done PROVE Reindex(xx, new)[i] = xx[i]
      BY <1>4, <2>2 DEF Reindex
    <2>3. ASSUME NEW i \in Ids, NEW t \in Singletons, IsActive(Reindex(xx, new)[i], t)
          PROVE  IsActive(xx[i], t)
      BY <2>1, <2>2, <2>3 DEF IsActive
    <2> QED BY <1>2, <2>3 DEF OneActive, Consistent
  <1>7. Consistent(Write(ff, new), Reindex(xx, new))
    BY <1>1, <1>2, <1>4, <1>6, WriteConsistent
  <1> QED BY <1>5, <1>7 DEF IInv, Replies

\* A reopened store has the index it had before: the live index was right.
LEMMA RebuildAgrees ==
  ASSUME NEW f, NEW idx, Consistent(f, idx)
  PROVE  Rebuild(f) = idx
  <1>1. ASSUME NEW i \in Ids
        PROVE  idx[i] = IF Homes(f, i) = {} THEN None
                        ELSE RefOf(f[CHOOSE g \in Groups : f[g][i] # None][i])
    <2>1. CASE Homes(f, i) = {}
      <3>1. \A g \in Groups : f[g][i] = None
        BY <2>1 DEF Homes
      <3>2. idx[i] # None => GroupOf[idx[i].type] \in Groups
        BY SchemaAssumption DEF Consistent, Indexes, NodeRef
      <3> QED BY <2>1, <3>1, <3>2 DEF Consistent, Agrees
    <2>2. CASE Homes(f, i) # {}
      <3> DEFINE h == CHOOSE g \in Groups : f[g][i] # None
      <3>1. h \in Groups /\ f[h][i] # None
        BY <2>2 DEF Homes
      <3> HIDE DEF h
      <3>2. idx[i] = RefOf(f[h][i])
        BY <3>1 DEF Consistent, Agrees
      <3> QED BY <2>2, <3>2 DEF h
    <2> QED BY <2>1, <2>2
  <1>2. idx = [i \in Ids |-> idx[i]]
    BY DEF Consistent, Indexes
  <1> QED BY <1>1, <1>2 DEF Rebuild

-----------------------------------------------------------------------------
(* The invariant of the specification.                                      *)

\* A store without files.
LEMMA InitIInv == Init => IInv
  BY TimeAssumption, SchemaAssumption
  DEF Init, IInv, Replies, Consistent, Files, Indexes, Agrees, AllProper, OneActive, IsActive

\* Every command, and a new process, keeps the invariant.
LEMMA NextIInv == IInv /\ [Next]_vars => IInv'
  <1> SUFFICES ASSUME IInv, [Next]_vars PROVE IInv'
    OBVIOUS
  <1>1. CASE Open
    BY <1>1, RebuildAgrees DEF Open, IInv
  <1>2. CASE Tick
    BY <1>2, TimeAssumption DEF Tick, IInv
  <1>3. CASE \E n \in NewNodes, body \in Bodies : Add(n, body)
    BY <1>3, AddKeeps
  <1>4. CASE \E targets \in (SUBSET Ids) \ {{}} : AddNote(targets)
    BY <1>4, AddNoteKeeps
  <1>5. CASE \E i \in Ids : SetContent(i)
    BY <1>5, SetContentKeeps
  <1>6. CASE \E i \in Ids, s \in Statuses : SetStatus(i, s)
    BY <1>6, SetStatusKeeps
  <1>7. CASE \E i \in Ids : Remove(i)
    BY <1>7, RemoveKeeps
  <1>8. CASE \E q \in Queries : Prune(q)
    BY <1>8, PruneKeeps
  <1>9. CASE \E hits \in SUBSET Ids : Scan(hits)
    BY <1>9, ScanKeeps
  <1>10. CASE Gc
    BY <1>10, GcKeeps
  <1>11. CASE UNCHANGED vars
    BY <1>11 DEF vars, IInv
  <1> QED BY <1>1, <1>2, <1>3, <1>4, <1>5, <1>6, <1>7, <1>8, <1>9, <1>10, <1>11
          DEF Next

\* Files and index stay consistent with each other in every reachable state.
THEOREM Invariant == Spec => []IInv
  BY InitIInv, NextIInv, PTL DEF Spec

-----------------------------------------------------------------------------
(* The invariants the runs check, as consequences.                          *)

\* Files hold nodes of the schema and the index holds references.
THEOREM TypeCorrect == Spec => []TypeOK
  <1>1. IInv => TypeOK
    BY DEF IInv, Consistent, Files, Indexes, TypeOK
  <1> QED BY <1>1, Invariant, PTL

\* The index a MemStore keeps by add and remove is the one _rebuild_index would
\* build, after any number of commands of any kind, failed ones included.
THEOREM IndexFaithful == Spec => []IndexIsRebuild
  <1>1. IInv => IndexIsRebuild
    BY RebuildAgrees DEF IInv, IndexIsRebuild
  <1> QED BY <1>1, Invariant, PTL

\* No id is in two group files.
THEOREM SingleHome == Spec => []OneHome
  <1>1. IInv => OneHome
    <2> SUFFICES ASSUME IInv, NEW i \in Ids, NEW g \in Groups, NEW h \in Groups,
                        file[g][i] # None, file[h][i] # None
                 PROVE  g = h
      BY DEF OneHome
    <2> QED BY HomeIsIndexed DEF IInv
  <1> QED BY <1>1, Invariant, PTL

\* Everything on disk satisfies the checks that depend on the node alone.
THEOREM StoredValid == Spec => []StoredNodesValid
  <1>1. IInv => StoredNodesValid
    BY DEF IInv, Consistent, AllProper, Proper, StoredNodesValid
  <1> QED BY <1>1, Invariant, PTL

\* At most one active node of each singleton type, whatever one process does.
THEOREM SingletonSafe == Spec => []OneActiveSingleton
  <1>1. IInv => OneActiveSingleton
    <2> SUFFICES ASSUME IInv,
                        NEW g \in Groups, NEW h \in Groups, NEW i \in Ids, NEW j \in Ids,
                        file[g][i] # None, file[h][j] # None,
                        file[g][i].type = file[h][j].type,
                        file[g][i].type \in Singletons,
                        file[g][i].status = "active", file[h][j].status = "active"
                 PROVE  i = j
      BY DEF OneActiveSingleton
    <2>1. index[i] = RefOf(file[g][i]) /\ index[j] = RefOf(file[h][j])
      BY DEF IInv, Consistent, Agrees
    <2>2. index[i] # None /\ index[j] # None
      BY HomeIsIndexed DEF IInv
    <2>3. IsActive(index[i], file[g][i].type) /\ IsActive(index[j], file[g][i].type)
      BY <2>1, <2>2 DEF IsActive, RefOf
    <2> QED BY <2>3 DEF IInv, Consistent, OneActive
  <1> QED BY <1>1, Invariant, PTL

-----------------------------------------------------------------------------
(* What a step may do.  Whatever the command, it leaves files and index as   *)
(* they are, deletes, saves a batch of nodes, or is a gc, which does both.   *)

\* All that a saved note or link refers to is in the index.
Resolves(n, idx) ==
  GroupOf[n.type] \in {NotesGroup, LinksGroup} =>
    \A t \in n.refs :
      t \in Ids /\ idx[t] # None
        /\ (GroupOf[n.type] = NotesGroup => GroupOf[idx[t].type] # NotesGroup)

\* Nothing but the source marker and the path it replaces differs in m from n.
Marked(m, n) == n # None /\ [m EXCEPT !.source = n.source, !.path = n.path] = n

\* A batch of saves: over nodes of the same type only, each with its references
\* resolved, markers alone if the command ends with an error, and one new node
\* of a type without a body if it ends for want of an id.
Saving(D, new) ==
  /\ Saved(new, reply')
  /\ \A i \in D : index[i] # None => index[i].type = new[i].type
  /\ \A i \in D : Resolves(new[i], index')
  /\ reply' = "error" =>
       \A i \in D : Marked(new[i], file[GroupOf[new[i].type]][i])
  /\ reply' = "no id" =>
       \E i \in Ids : D = {i} /\ index[i] = None /\ new[i].type \notin MemoryBacked

Effect ==
  \/ UNCHANGED <<file, index>>
  \/ reply' = "ok" /\ \E gone \in SUBSET Ids : Deleted(gone)
  \/ \E D \in SUBSET Ids : \E new \in [D -> Node] : Saving(D, new)
  \/ Gc

\* What validation accepts resolves, and goes on to while entries are only added.
LEMMA AcceptedResolves ==
  ASSUME NEW idx, NEW later, NEW i \in Ids, NEW n \in Node, Accepts(i, n, idx),
         \A t \in Ids : idx[t] # None => later[t] # None /\ later[t].type = idx[t].type
  PROVE  Resolves(n, later)
  <1>1. NoteTargetsValid(n, idx) /\ LinkTargetsValid(n, idx)
    BY DEF Accepts, Valid
  <1>2. n.type \in Types /\ n.refs \subseteq Ids
    BY DEF Node
  <1>3. CASE GroupOf[n.type] = NotesGroup
    <2>1. n.type = NoteType
      BY <1>2, <1>3, SchemaAssumption
    <2>2. \A t \in n.refs : idx[t] # None /\ GroupOf[idx[t].type] # NotesGroup
      BY <1>1, <2>1 DEF NoteTargetsValid
    <2> QED BY <1>2, <2>2 DEF Resolves
  <1>4. CASE GroupOf[n.type] = LinksGroup
    <2>1. \A t \in n.refs : idx[t] # None
      BY <1>1, <1>4 DEF LinkTargetsValid
    <2> QED BY <1>2, <1>4, <2>1, SchemaAssumption DEF Resolves
  <1> QED BY <1>3, <1>4 DEF Resolves

\* A batch over nodes of the same types removes no entry and changes no type.
LEMMA ReindexKeepsTypes ==
  ASSUME NEW idx, NEW D \in SUBSET Ids, NEW new \in [D -> Node],
         \A i \in D : idx[i] # None => idx[i].type = new[i].type
  PROVE  \A t \in Ids : idx[t] # None =>
           Reindex(idx, new)[t] # None /\ Reindex(idx, new)[t].type = idx[t].type
  <1> SUFFICES ASSUME NEW t \in Ids, idx[t] # None
               PROVE  Reindex(idx, new)[t] # None
                      /\ Reindex(idx, new)[t].type = idx[t].type
    OBVIOUS
  <1>1. CASE t \in D
    <2>1. Reindex(idx, new)[t] = RefOf(new[t]) /\ new[t] \in Node
      BY <1>1 DEF Reindex
    <2> QED BY <1>1, <2>1, RefOfType DEF RefOf
  <1>2. CASE t \notin D
    BY <1>2 DEF Reindex
  <1> QED BY <1>1, <1>2

\* Such a batch is one of the effects a step may have.
LEMMA SavingIsEffect ==
  ASSUME NEW D \in SUBSET Ids, NEW new \in [D -> Node], Saving(D, new)
  PROVE  Effect
  BY Zenon DEF Effect

\* One accepted save is such a batch, when it ends well or leaves a new node
\* of a type without a body alone.
LEMMA OneSaved ==
  ASSUME NEW i \in Ids, NEW m \in Node, Accepts(i, m, index),
         index[i] # None => index[i].type = m.type,
         NEW result, Saved(Single(i, m), result),
         \/ result = "ok"
         \/ result = "no id" /\ index[i] = None /\ m.type \notin MemoryBacked
  PROVE  Effect
  <1> DEFINE new == Single(i, m)
  <1>1. new \in [{i} -> Node] /\ new[i] = m
    BY DEF Single
  <1> HIDE DEF new
  <1>2. \A k \in {i} : index[k] # None => index[k].type = new[k].type
    BY <1>1
  <1>3. index' = Reindex(index, new) /\ reply' = result /\ Saved(new, reply')
    BY DEF Saved, new
  <1>4. {i} \in SUBSET Ids
    OBVIOUS
  <1>5. \A t \in Ids : index[t] # None => index'[t] # None /\ index'[t].type = index[t].type
    BY <1>1, <1>2, <1>3, <1>4, ReindexKeepsTypes
  <1>6. Resolves(m, index')
    BY <1>5, AcceptedResolves
  <1>7. Saving({i}, new)
    BY <1>1, <1>2, <1>3, <1>6 DEF Saving
  <1> QED BY <1>1, <1>4, <1>7, SavingIsEffect

\* MemStore.save as the last call of a command, accepted or refused.
LEMMA SaveEffect ==
  ASSUME NEW i \in Ids, NEW n \in Node, Save(i, n),
         index[i] # None => index[i].type = n.type
  PROVE  Effect
  <1>1. CASE Fail
    BY <1>1 DEF Fail, Effect
  <1>2. CASE Accepts(i, Normalize(n), index) /\ Saved(Single(i, Normalize(n)), "ok")
    <2>1. Normalize(n) \in Node /\ Normalize(n).type = n.type
      BY NormalizeKeeps
    <2> QED BY <1>2, <2>1, OneSaved
  <1> QED BY <1>1, <1>2 DEF Save

\* The note zhar add attaches to a node that was just saved is never refused:
\* the node is indexed and, having no body of its own, is no note itself.
LEMMA AttachedNeverRejected ==
  ASSUME NEW i \in Ids, NEW j \in Ids, NEW idx, NEW m \in Node,
         idx[i] = RefOf(m), m.type \notin MemoryBacked
  PROVE  ~Rejects(j, AttachedNote({i}), idx)
  <1> DEFINE note == AttachedNote({i})
  <1>1. /\ note.type = NoteType /\ note.status = "active" /\ note.content
        /\ note.refs = {i}
    BY DEF AttachedNote
  <1>2. idx[i] # None /\ idx[i].type = m.type /\ m.type \in Types
    BY RefOfType DEF RefOf, Node
  <1>3. GroupOf[m.type] # NotesGroup /\ GroupOf[NoteType] = NotesGroup
    BY <1>2, SchemaAssumption, InputAssumption
  <1> HIDE DEF note
  <1>4. StatusValid(note) /\ ContentValid(note)
    BY <1>1, SchemaAssumption, InputAssumption DEF StatusValid, ContentValid
  <1>5. NoteTargetsValid(note, idx)
    BY <1>1, <1>2, <1>3 DEF NoteTargetsValid
  <1>6. LinkTargetsValid(note, idx)
    BY <1>1, <1>3, SchemaAssumption DEF LinkTargetsValid
  <1>7. note.type \notin Singletons
    BY <1>1, SchemaAssumption, InputAssumption
  <1> QED BY <1>4, <1>5, <1>6, <1>7 DEF Rejects, Valid, SingletonFree, note

\* The two saves of zhar add with a body are one batch.
LEMMA AddWithNoteEffect ==
  ASSUME NEW m \in Node, NEW i \in Ids, index[i] = None, Accepts(i, m, index),
         m.type \notin MemoryBacked,
         NEW j \in Ids, Reindex(index, Single(i, m))[j] = None,
         Saved([k \in {i, j} |-> IF k = j THEN AttachedNote({i}) ELSE m], "ok")
  PROVE  Effect
  <1> DEFINE note == AttachedNote({i})
             both == [k \in {i, j} |-> IF k = j THEN note ELSE m]
  <1>1. note \in Node /\ note.type = NoteType /\ note.refs = {i}
    BY SchemaAssumption, InputAssumption, TimeAssumption
    DEF AttachedNote, Node, Never
  <1>2. j # i /\ index[j] = None
    BY RefOfType DEF Reindex, Single
  <1> HIDE DEF note
  <1>3. both \in [{i, j} -> Node] /\ both[i] = m /\ both[j] = note
    BY <1>1, <1>2
  <1>4. index' = Reindex(index, both) /\ reply' = "ok" /\ Saved(both, reply')
    BY DEF Saved, note
  <1> HIDE DEF both
  <1>5. \A k \in {i, j} : index[k] # None => index[k].type = both[k].type
    BY <1>2
  <1>6. \A t \in Ids : index[t] # None => index'[t] # None /\ index'[t].type = index[t].type
    BY <1>3, <1>4, <1>5, ReindexKeepsTypes
  <1>7. Resolves(both[i], index')
    BY <1>3, <1>6, AcceptedResolves
  <1>8. Resolves(both[j], index')
    <2>1. index'[i] = RefOf(m)
      BY <1>3, <1>4 DEF Reindex
    <2>2. index'[i] # None /\ index'[i].type = m.type /\ m.type \in Types
      BY <2>1, RefOfType DEF RefOf, Node
    <2>3. GroupOf[m.type] # NotesGroup
      BY <2>2, SchemaAssumption, InputAssumption
    <2> QED BY <1>1, <1>3, <2>2, <2>3 DEF Resolves
  <1>9. Saving({i, j}, both)
    BY <1>4, <1>5, <1>7, <1>8 DEF Saving
  <1> QED BY <1>3, <1>9, SavingIsEffect

\* zhar add.
LEMMA AddEffect ==
  ASSUME IInv, NEW n \in NewNodes, NEW body \in Bodies, Add(n, body)
  PROVE  Effect
  <1> DEFINE c == [n EXCEPT !.content = body # "none" /\ n.type \in MemoryBacked]
             m == Normalize(c)
  <1>1. n \in Node /\ c \in Node /\ c.type = n.type
    BY InputAssumption DEF Node
  <1>2. m \in Node /\ m.type = n.type
    BY <1>1, NormalizeKeeps
  <1> HIDE DEF c
  <1>3. \/ Fail \/ NoId
        \/ \E i \in FreshIds(index) :
             \/ Fail
             \/ Save(i, m)
             \/ /\ NeedsNote(n, body) /\ Accepts(i, m, index)
                /\ \/ Saved(Single(i, m), "no id")
                   \/ \E j \in FreshIds(Reindex(index, Single(i, m))) :
                        \/ Saved([k \in {i, j} |-> IF k = j THEN AttachedNote({i}) ELSE m], "ok")
                        \/ Rejects(j, AttachedNote({i}), Reindex(index, Single(i, m)))
    BY DEF Add, c
  <1> HIDE DEF m
  <1>4. \A i \in FreshIds(index) : i \in Ids /\ index[i] = None
    BY DEF FreshIds
  <1>5. CASE Fail \/ NoId
    BY <1>5 DEF Fail, NoId, Effect
  <1>6. ASSUME NEW i \in FreshIds(index), Save(i, m) PROVE Effect
    BY <1>2, <1>4, <1>6, SaveEffect
  <1>7. ASSUME NEW i \in FreshIds(index), NeedsNote(n, body), Accepts(i, m, index),
               Saved(Single(i, m), "no id")
        PROVE  Effect
    <2>1. m.type \notin MemoryBacked
      BY <1>2, <1>7 DEF NeedsNote
    <2> QED BY <1>2, <1>4, <1>7, <2>1, OneSaved
  <1>8. ASSUME NEW i \in FreshIds(index), NeedsNote(n, body), Accepts(i, m, index),
               NEW j \in FreshIds(Reindex(index, Single(i, m)))
        PROVE  /\ ~Rejects(j, AttachedNote({i}), Reindex(index, Single(i, m)))
               /\ Saved([k \in {i, j} |-> IF k = j THEN AttachedNote({i}) ELSE m], "ok")
                    => Effect
    <2>1. j \in Ids /\ Reindex(index, Single(i, m))[j] = None
      BY DEF FreshIds
    <2>2. Reindex(index, Single(i, m))[i] = RefOf(m) /\ m.type \notin MemoryBacked
      BY <1>2, <1>4, <1>8 DEF Reindex, Single, NeedsNote
    <2>3. ~Rejects(j, AttachedNote({i}), Reindex(index, Single(i, m)))
      BY <1>2, <1>4, <2>1, <2>2, AttachedNeverRejected
    <2>4. Saved([k \in {i, j} |-> IF k = j THEN AttachedNote({i}) ELSE m], "ok") => Effect
      BY <1>2, <1>4, <1>8, <2>1, <2>2, AddWithNoteEffect
    <2> QED BY <2>3, <2>4
  <1> QED BY <1>3, <1>5, <1>6, <1>7, <1>8

\* The commands of one save: zhar add-note, note and set-status.
LEMMA OneSaveEffect ==
  ASSUME IInv
  PROVE  /\ \A targets \in SUBSET Ids : AddNote(targets) => Effect
         /\ \A i \in Ids : SetContent(i) => Effect
         /\ \A i \in Ids, s \in Statuses : SetStatus(i, s) => Effect
  <1>1. ASSUME NEW targets \in SUBSET Ids, AddNote(targets) PROVE Effect
    <2>1. AttachedNote(targets) \in Node
      BY SchemaAssumption, InputAssumption, TimeAssumption DEF AttachedNote, Node, Never
    <2>2. \A i \in FreshIds(index) : i \in Ids /\ index[i] = None
      BY DEF FreshIds
    <2>3. \A i \in FreshIds(index) : Save(i, AttachedNote(targets)) => Effect
      BY <2>1, <2>2, SaveEffect
    <2> QED BY <1>1, <2>3 DEF AddNote, Fail, NoId, Effect
  <1>2. ASSUME NEW i \in Ids, SetContent(i) PROVE Effect
    <2>1. CASE Fail
      BY <2>1 DEF Fail, Effect
    <2>2. CASE TakesContent(i) /\ Save(i, [Get(i) EXCEPT !.content = TRUE])
      <3>1. Get(i) \in Node /\ index[i].type = Get(i).type
        BY <2>2, GetIsProper DEF TakesContent
      <3>2. /\ [Get(i) EXCEPT !.content = TRUE] \in Node
            /\ [Get(i) EXCEPT !.content = TRUE].type = Get(i).type
        BY <3>1 DEF Node
      <3> QED BY <2>2, <3>1, <3>2, SaveEffect
    <2> QED BY <1>2, <2>1, <2>2 DEF SetContent
  <1>3. ASSUME NEW i \in Ids, NEW s \in Statuses, SetStatus(i, s) PROVE Effect
    <2>1. CASE Fail
      BY <2>1 DEF Fail, Effect
    <2>2. CASE Get(i) # None /\ Save(i, [Get(i) EXCEPT !.status = s])
      <3>1. Get(i) \in Node /\ index[i].type = Get(i).type
        BY <2>2, GetIsProper
      <3>2. /\ [Get(i) EXCEPT !.status = s] \in Node
            /\ [Get(i) EXCEPT !.status = s].type = Get(i).type
        BY <3>1 DEF Node
      <3> QED BY <2>2, <3>1, <3>2, SaveEffect
    <2> QED BY <1>3, <2>1, <2>2 DEF SetStatus
  <1> QED BY <1>1, <1>2, <1>3

\* zhar scan writes markers only, however far it gets.
LEMMA ScanEffect ==
  ASSUME IInv, NEW hits \in SUBSET Ids, Scan(hits)
  PROVE  Effect
  <1>1. PICK done \in SUBSET (hits \cap Fetched) :
          /\ \A i \in done : Accepts(i, WithSource(i), index)
          /\ \E result \in {"ok", "error"} :
               Saved([i \in done |-> WithSource(i)], result)
    BY DEF Scan
  <1> DEFINE new == [i \in done |-> WithSource(i)]
  <1>2. done \in SUBSET Ids
    BY DEF Fetched
  <1>3. ASSUME NEW i \in done
        PROVE  /\ WithSource(i) \in Node
               /\ index[i].type = WithSource(i).type
               /\ Marked(WithSource(i), file[GroupOf[WithSource(i).type]][i])
    <2>1. i \in Ids /\ Get(i) # None
      BY DEF Fetched
    <2>2. /\ Get(i) \in Node /\ index[i].type = Get(i).type
          /\ Get(i) = file[GroupOf[Get(i).type]][i]
      BY <2>1, GetIsProper DEF Get
    <2>3. /\ WithSource(i) \in Node /\ WithSource(i).type = Get(i).type
          /\ [WithSource(i) EXCEPT !.source = Get(i).source, !.path = Get(i).path] = Get(i)
      BY <2>2 DEF WithSource, Normalize, Node
    <2> QED BY <2>1, <2>2, <2>3 DEF Marked
  <1>4. new \in [done -> Node] /\ DOMAIN new = done
    BY <1>3
  <1>5. \A i \in done : index[i] # None => index[i].type = new[i].type
    BY <1>3
  <1>6. /\ index' = Reindex(index, new) /\ Saved(new, reply')
        /\ reply' # "no id"
    BY <1>1 DEF Saved
  <1>7. \A i \in done : new[i] = WithSource(i)
    OBVIOUS
  <1> HIDE DEF new
  <1>8. \A t \in Ids : index[t] # None => index'[t] # None /\ index'[t].type = index[t].type
    BY <1>2, <1>4, <1>5, <1>6, ReindexKeepsTypes
  <1>9. ASSUME NEW i \in done PROVE Resolves(new[i], index')
    BY <1>1, <1>2, <1>3, <1>7, <1>8, AcceptedResolves
  <1>10. \A i \in done : Marked(new[i], file[GroupOf[new[i].type]][i])
    BY <1>3, <1>7
  <1>11. Saving(done, new)
    BY <1>5, <1>6, <1>9, <1>10 DEF Saving
  <1> QED BY <1>2, <1>4, <1>11, SavingIsEffect

\* Every step has such an effect.
LEMMA StepEffect == IInv /\ [Next]_vars => Effect
  <1> SUFFICES ASSUME IInv, [Next]_vars PROVE Effect
    OBVIOUS
  <1>1. CASE Open
    BY <1>1, RebuildAgrees DEF Open, IInv, Effect
  <1>2. CASE Tick
    BY <1>2 DEF Tick, Effect
  <1>3. CASE \E n \in NewNodes, body \in Bodies : Add(n, body)
    BY <1>3, AddEffect
  <1>4. CASE \E targets \in (SUBSET Ids) \ {{}} : AddNote(targets)
    BY <1>4, OneSaveEffect
  <1>5. CASE \E i \in Ids : SetContent(i)
    BY <1>5, OneSaveEffect
  <1>6. CASE \E i \in Ids, s \in Statuses : SetStatus(i, s)
    BY <1>6, OneSaveEffect
  <1>7. CASE \E i \in Ids : Remove(i)
    <2>1. PICK i \in Ids : Fail \/ Deleted({i})
      BY <1>7 DEF Remove
    <2>2. Deleted({i}) => reply' = "ok"
      BY DEF Deleted
    <2> QED BY <2>1, <2>2 DEF Fail, Effect
  <1>8. CASE \E q \in Queries : Prune(q)
    <2>1. PICK q \in Queries : Prune(q)
      BY <1>8
    <2>2. PICK gone \in SUBSET Matching(q) : Deleted(gone)
      BY <2>1 DEF Prune
    <2>3. gone \in SUBSET Ids /\ reply' = "ok"
      BY <2>2 DEF Matching, Fetched, Deleted
    <2> QED BY <2>2, <2>3 DEF Effect
  <1>9. CASE \E hits \in SUBSET Ids : Scan(hits)
    BY <1>9, ScanEffect
  <1>10. CASE Gc
    BY <1>10 DEF Effect
  <1>11. CASE UNCHANGED vars
    BY <1>11 DEF vars, Effect
  <1> QED BY <1>1, <1>2, <1>3, <1>4, <1>5, <1>6, <1>7, <1>8, <1>9, <1>10, <1>11
          DEF Next

\* Entries that stay keep their type.
LEMMA TypesStay ==
  ASSUME IInv, Effect
  PROVE  \A i \in Ids : index[i] # None /\ index'[i] # None => index'[i].type = index[i].type
  <1>1. CASE UNCHANGED <<file, index>>
    BY <1>1
  <1>2. ASSUME NEW gone \in SUBSET Ids, Deleted(gone)
        PROVE  \A i \in Ids : index'[i] # None => index'[i] = index[i]
    BY <1>2 DEF Deleted, DropRefs
  <1>3. ASSUME NEW D \in SUBSET Ids, NEW new \in [D -> Node], Saving(D, new)
        PROVE  \A i \in Ids : index[i] # None => index'[i].type = index[i].type
    <2>1. index' = Reindex(index, new)
      BY <1>3 DEF Saving, Saved
    <2>2. \A i \in D : index[i] # None => index[i].type = new[i].type
      BY <1>3 DEF Saving
    <2> QED BY <2>1, <2>2, ReindexKeepsTypes
  <1>4. ASSUME Gc
        PROVE  \A i \in Ids : index'[i] # None => index'[i].type = index[i].type
    <2> DEFINE gone == {i \in Fetched : Expired(Get(i))}
               done == {i \in Fetched \ gone :
                          Get(i).type = IssueType /\ Get(i).status = "resolved"}
               new == [i \in done |-> [Get(i) EXCEPT !.status = "archived"]]
    <2>1. index' = Reindex(DropRefs(index, gone), new)
      BY <1>4 DEF Gc, Archivable
    <2>2. ASSUME NEW i \in done PROVE new[i].type = index[i].type
      <3>1. i \in Ids /\ Get(i) # None
        BY DEF Fetched
      <3>2. Get(i) \in Node /\ index[i].type = Get(i).type
        BY <3>1, GetIsProper
      <3> QED BY <3>2 DEF Node
    <2>3. DOMAIN new = done
      OBVIOUS
    <2> HIDE DEF gone, done, new
    <2> QED BY <2>1, <2>2, <2>3 DEF Reindex, DropRefs, RefOf
  <1> QED BY <1>1, <1>2, <1>3, <1>4 DEF Effect

\* What a saved batch leaves in the files: its own nodes, or what was there.
LEMMA SavedFiles ==
  ASSUME NEW D \in SUBSET Ids, NEW new \in [D -> Node], Saving(D, new),
         NEW g \in Groups, NEW i \in Ids
  PROVE  \/ file'[g][i] = file[g][i]
         \/ i \in D /\ g = GroupOf[new[i].type] /\ file'[g][i] = new[i] /\ new[i] \in Node
  <1>1. file' = Write(file, new) /\ DOMAIN new = D
    BY DEF Saving, Saved
  <1> QED BY <1>1 DEF Write

\* What a gc leaves in the files: archived issues that have not expired, or
\* what was there and is not due.
LEMMA GcFiles ==
  ASSUME IInv, Gc, NEW g \in Groups, NEW i \in Ids, file'[g][i] # None
  PROVE  /\ ~Unsettled(file'[g][i])
         /\ \/ file'[g][i] = file[g][i]
            \/ g = GroupOf[IssueType] /\ IssueType \in Types
  <1> DEFINE gone == {k \in Fetched : Expired(Get(k))}
             done == {k \in Fetched \ gone :
                        Get(k).type = IssueType /\ Get(k).status = "resolved"}
             new == [k \in done |-> [Get(k) EXCEPT !.status = "archived"]]
             old == Erase(file, index, gone)
  <1>1. file' = Write(old, new)
    BY DEF Gc, Archivable
  <1>2. CASE i \in done /\ GroupOf[new[i].type] = g
    <2>1. file'[g][i] = new[i]
      BY <1>1, <1>2 DEF Write
    <2>2. Get(i) # None /\ Get(i).type = IssueType /\ ~(Get(i).expires <= now)
      BY <1>2 DEF Fetched, Expired
    <2>3. Get(i) \in Node
      BY <2>2, GetIsProper
    <2>4. /\ new[i].status = "archived" /\ new[i].type = IssueType
          /\ new[i].expires = Get(i).expires /\ IssueType \in Types
      BY <1>2, <2>2, <2>3 DEF Node
    <2> HIDE DEF new
    <2> QED BY <1>2, <2>1, <2>2, <2>4 DEF Unsettled
  <1>3. CASE ~(i \in done /\ GroupOf[new[i].type] = g)
    <2>1. file'[g][i] = old[g][i]
      BY <1>1, <1>3 DEF Write
    <2>2. file'[g][i] = file[g][i]
      BY <2>1 DEF Erase
    <2>3. index[i] # None /\ g = GroupOf[index[i].type] /\ index[i].type = file[g][i].type
      <3>1. file[g][i] # None /\ index[i] = RefOf(file[g][i])
        BY <2>2 DEF IInv, Consistent, Agrees
      <3> QED BY <3>1, HomeIsIndexed DEF IInv, RefOf
    <2>4. Get(i) = file[g][i] /\ i \in Fetched
      BY <2>2, <2>3 DEF Get, Fetched
    <2>5. i \notin gone
      BY <2>1, <2>3 DEF Erase
    <2>6. ~(file[g][i].expires <= now)
      BY <2>4, <2>5 DEF Expired
    <2>7. ASSUME Get(i).type = IssueType, Get(i).status = "resolved" PROVE FALSE
      <3>1. i \in done
        BY <2>4, <2>5, <2>7
      <3>2. Get(i) \in Node
        BY <2>2, <2>4, GetIsProper
      <3>3. new[i].type = Get(i).type
        BY <3>1, <3>2 DEF Node
      <3> QED BY <1>3, <2>3, <2>4, <3>1, <3>3
    <2> QED BY <2>2, <2>4, <2>6, <2>7 DEF Unsettled
  <1> QED BY <1>2, <1>3

-----------------------------------------------------------------------------
(* The action properties the runs check, as consequences.                   *)

\* No step turns the node of an id into one of another type or group.
THEOREM IdentityKept == Spec => IdentityStable
  <1>1. ASSUME IInv, IInv', [Next]_vars,
               NEW i \in Ids, NEW g \in Groups, NEW h \in Groups,
               file[g][i] # None, file'[h][i] # None
        PROVE  g = h /\ file[g][i].type = file'[g][i].type
    <2>1. /\ index[i] # None /\ g = GroupOf[index[i].type]
          /\ index[i] = RefOf(file[g][i]) /\ file[g][i] \in Node
      BY <1>1, HomeIsIndexed DEF IInv, Consistent, Agrees
    <2>2. /\ index'[i] # None /\ h = GroupOf[index'[i].type]
          /\ index'[i] = RefOf(file'[h][i]) /\ file'[h][i] \in Node
      BY <1>1, HomeIsIndexed DEF IInv, Consistent, Agrees
    <2>3. index'[i].type = index[i].type
      BY <1>1, <2>1, <2>2, StepEffect, TypesStay
    <2>4. g = h
      BY <2>1, <2>2, <2>3
    <2>5. index[i].type = file[g][i].type
      BY <2>1, RefOfKeepsType
    <2>6. index'[i].type = file'[h][i].type
      BY <2>2, RefOfKeepsType
    <2> QED BY <2>3, <2>4, <2>5, <2>6
  <1>2. IInv /\ IInv' /\ [Next]_vars =>
          [\A i \in Ids, g, h \in Groups :
             file[g][i] # None /\ file'[h][i] # None =>
               g = h /\ file[g][i].type = file'[g][i].type]_vars
    BY <1>1
  <1> QED BY <1>2, Invariant, PTL DEF Spec, IdentityStable

\* Every note or link that is written refers to nodes that are stored by then.
THEOREM RefsResolveWhenWritten == Spec => WritesResolveRefs
  <1>1. ASSUME IInv, IInv', [Next]_vars, NEW g \in Groups, NEW i \in Ids,
               file'[g][i] # None, file'[g][i] # file[g][i],
               g \in {NotesGroup, LinksGroup}, NEW t \in file'[g][i].refs
        PROVE  \E h \in Groups : file'[h][t] # None /\ (g = NotesGroup => h # NotesGroup)
    <2>1. ~(UNCHANGED <<file, index>>)
      BY <1>1
    <2>2. ASSUME NEW gone \in SUBSET Ids, Deleted(gone) PROVE FALSE
      BY <1>1, <2>2 DEF Deleted, Erase
    <2>3. ~Gc
      BY <1>1, GcFiles, SchemaAssumption
    <2>4. PICK D \in SUBSET Ids : \E new \in [D -> Node] : Saving(D, new)
      BY <1>1, <2>1, <2>2, <2>3, StepEffect DEF Effect
    <2>5. PICK new \in [D -> Node] : Saving(D, new)
      BY <2>4
    <2>6. i \in D /\ g = GroupOf[new[i].type] /\ file'[g][i] = new[i]
      BY <1>1, <2>5, SavedFiles
    <2>7. Resolves(new[i], index')
      BY <2>5, <2>6 DEF Saving
    <2>8. t \in Ids /\ index'[t] # None
            /\ (g = NotesGroup => GroupOf[index'[t].type] # NotesGroup)
      BY <1>1, <2>6, <2>7 DEF Resolves
    <2>9. /\ GroupOf[index'[t].type] \in Groups
          /\ file'[GroupOf[index'[t].type]][t] # None
      BY <1>1, <2>8, SchemaAssumption DEF IInv, Consistent, Agrees, Indexes, NodeRef
    <2> QED BY <2>8, <2>9
  <1>2. IInv /\ IInv' /\ [Next]_vars =>
          [\A g \in Groups, i \in Ids :
             LET n == file'[g][i] IN
             n # None /\ n # file[g][i] /\ g \in {NotesGroup, LinksGroup} =>
               \A t \in n.refs : \E h \in Groups :
                 file'[h][t] # None /\ (g = NotesGroup => h # NotesGroup)]_vars
    BY <1>1
  <1> QED BY <1>2, Invariant, PTL DEF Spec, WritesResolveRefs

\* A command that ends with an error changed source markers at most; one that
\* had no id added one node, under an id that was free, at most.
THEOREM FailuresHarmless == Spec => FailureIsHarmless
  <1>1. ASSUME IInv, [Next]_vars, reply' \in {"error", "no id"},
               NEW g \in Groups, NEW i \in Ids, file'[g][i] # file[g][i]
        PROVE  \E D \in SUBSET Ids : \E new \in [D -> Node] : Saving(D, new)
    <2>1. ~(UNCHANGED <<file, index>>) /\ ~Gc
      BY <1>1 DEF Gc
    <2> QED BY <1>1, <2>1, StepEffect DEF Effect
  <1>2. ASSUME IInv, [Next]_vars, reply' = "error", NEW g \in Groups, NEW i \in Ids,
               file'[g][i] # file[g][i]
        PROVE  Marked(file'[g][i], file[g][i]) /\ file'[g][i] # None
    <2>1. PICK D \in SUBSET Ids : \E new \in [D -> Node] : Saving(D, new)
      BY <1>1, <1>2
    <2>2. PICK new \in [D -> Node] : Saving(D, new)
      BY <2>1
    <2>3. i \in D /\ g = GroupOf[new[i].type] /\ file'[g][i] = new[i] /\ new[i] \in Node
      BY <1>2, <2>2, SavedFiles
    <2> QED BY <1>2, <2>2, <2>3, NoneAssumption DEF Saving
  <1>3. ASSUME IInv, [Next]_vars, reply' = "no id", NEW g \in Groups, NEW i \in Ids,
               file'[g][i] # file[g][i]
        PROVE  /\ file'[g][i] # None /\ file'[g][i].type \notin MemoryBacked
               /\ \A h \in Groups : file[h][i] = None
               /\ \A h \in Groups, k \in Ids : file'[h][k] # file[h][k] => k = i
    <2>1. PICK D \in SUBSET Ids : \E new \in [D -> Node] : Saving(D, new)
      BY <1>1, <1>3
    <2>2. PICK new \in [D -> Node] : Saving(D, new)
      BY <2>1
    <2>3. PICK j \in Ids : D = {j} /\ index[j] = None /\ new[j].type \notin MemoryBacked
      BY <1>3, <2>2 DEF Saving
    <2>4. ASSUME NEW h \in Groups, NEW k \in Ids, file'[h][k] # file[h][k]
          PROVE  k = j /\ file'[h][k] = new[j] /\ new[j] \in Node
      BY <2>2, <2>3, <2>4, SavedFiles
    <2>5. \A h \in Groups : file[h][j] = None
      <3>1. Consistent(file, index)
        BY <1>3 DEF IInv
      <3> QED BY <2>3, <3>1, HomeIsIndexed
    <2>6. i = j /\ file'[g][i] = new[j] /\ new[j] # None
      BY <1>3, <2>4, NoneAssumption
    <2> QED BY <2>3, <2>4, <2>5, <2>6
  <1>4. IInv /\ [Next]_vars => ErrorLeavesMarkers /\ NoIdLeavesOneNode
    <2>1. IInv /\ [Next]_vars => ErrorLeavesMarkers
      BY <1>2 DEF ErrorLeavesMarkers, Marked
    <2>2. IInv /\ [Next]_vars => NoIdLeavesOneNode
      BY <1>3 DEF NoIdLeavesOneNode
    <2> QED BY <2>1, <2>2
  <1> QED BY <1>4, Invariant, PTL DEF Spec, FailureIsHarmless

\* After a gc nothing is due and no issue is resolved.
THEOREM GcLeavesSettled == Spec => GcSettles
  <1>1. ASSUME IInv, Gc, NEW g \in Groups, NEW i \in Ids PROVE ~Unsettled(file'[g][i])
    BY <1>1, GcFiles DEF Unsettled
  <1>2. IInv /\ [Next]_vars =>
          [(\E g \in Groups, i \in Ids : Unsettled(file'[g][i])) => ~Gc]_vars
    BY <1>1
  <1> QED BY <1>2, Invariant, PTL DEF Spec, GcSettles
=============================================================================
