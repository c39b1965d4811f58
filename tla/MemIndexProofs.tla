--------------------------- MODULE MemIndexProofs ---------------------------
(***************************************************************************)
(* The lists of the index for every schema, any number of ids and tags and   *)
(* every sequence of adds and removals, and that queries over them answer    *)
(* what IndexPromise says.                                                   *)
(***************************************************************************)
EXTENDS MemIndex, WellFoundedInduction, TLAPS

-----------------------------------------------------------------------------
(* Lists.                                                                   *)

\* A set of numbers that has a member has a least one.
LEMMA LeastOf ==
  ASSUME NEW S \in SUBSET Nat, S # {}
  PROVE  \E m \in S : \A k \in S : m <= k
  <1> DEFINE R == OpToRel(<, Nat)
  <1>1. IsWellFoundedOn(R, Nat)
    BY NatLessThanWellFounded
  <1> HIDE DEF R
  <1>2. PICK m \in S : \A k \in S : ~ (<<k, m>> \in R)
    BY <1>1, WFMin
  <1>3. \A k \in S : k < m => <<k, m>> \in R
    BY DEF OpToRel, R
  <1>4. ASSUME NEW k \in S PROVE m <= k
    <2>1. m \in Nat /\ k \in Nat /\ ~(k < m)
      BY <1>2, <1>3
    <2> QED BY <2>1
  <1> QED BY <1>4

\* A list holds x once, if at all.
Once(s, x) == \A m, n \in DOMAIN s : s[m] = x /\ s[n] = x => m = n

\* What is left without the first occurrence of an element.
LEMMA DropCuts ==
  ASSUME NEW T, NEW s \in Seq(T), NEW v \in Elements(s)
  PROVE  \E first \in 1 .. Len(s) :
           /\ s[first] = v
           /\ Drop(s, v) = [n \in 1 .. Len(s) - 1 |-> IF n < first THEN s[n] ELSE s[n + 1]]
  <1> DEFINE P(n) == s[n] = v /\ \A m \in 1 .. n - 1 : s[m] # v
             first == CHOOSE n \in DOMAIN s : P(n)
  <1>1. DOMAIN s = 1 .. Len(s) /\ Len(s) \in Nat
    OBVIOUS
  <1>2. \E n \in DOMAIN s : P(n)
    <2> DEFINE S == {n \in DOMAIN s : s[n] = v}
    <2>1. S \in SUBSET Nat /\ S # {}
      BY <1>1 DEF Elements
    <2>2. PICK n \in S : \A k \in S : n <= k
      BY <2>1, LeastOf
    <2>3. ASSUME NEW m \in 1 .. n - 1 PROVE s[m] # v
      <3>1. m \in DOMAIN s /\ n \in Nat /\ ~(n <= m)
        BY <1>1
      <3> QED BY <2>2, <3>1
    <2> QED BY <2>3
  <1>3. first \in DOMAIN s /\ P(first)
    <2> HIDE DEF P
    <2> QED BY <1>2
  <1>4. Drop(s, v) = [n \in 1 .. Len(s) - 1 |-> IF n < first THEN s[n] ELSE s[n + 1]]
    BY DEF Drop
  <1> HIDE DEF first
  <1> QED BY <1>1, <1>3, <1>4

LEMMA DropType ==
  ASSUME NEW T, NEW s \in Seq(T), NEW v
  PROVE  Drop(s, v) \in Seq(T)
  <1>1. CASE v \notin Elements(s)
    BY <1>1 DEF Drop
  <1>2. CASE v \in Elements(s)
    <2>1. PICK first \in 1 .. Len(s) :
            Drop(s, v) = [n \in 1 .. Len(s) - 1 |-> IF n < first THEN s[n] ELSE s[n + 1]]
      BY <1>2, DropCuts
    <2>2. Len(s) - 1 \in Nat /\ Len(s) \in Nat
      OBVIOUS
    <2>3. \A n \in 1 .. Len(s) - 1 : s[n] \in T /\ s[n + 1] \in T
      BY <2>2
    <2> QED BY <2>1, <2>2, <2>3
  <1> QED BY <1>1, <1>2

\* Of an element that a list holds once nothing is left; the others stay as they are.
LEMMA DropExact ==
  ASSUME NEW T, NEW s \in Seq(T), NEW v
  PROVE  /\ \A x : x # v => (x \in Elements(Drop(s, v)) <=> x \in Elements(s))
         /\ \A x : Once(s, x) => Once(Drop(s, v), x)
         /\ Once(s, v) => v \notin Elements(Drop(s, v))
  <1>1. CASE v \notin Elements(s)
    BY <1>1 DEF Drop
  <1>2. CASE v \in Elements(s)
    <2>1. PICK first \in 1 .. Len(s) :
            /\ s[first] = v
            /\ Drop(s, v) = [n \in 1 .. Len(s) - 1 |-> IF n < first THEN s[n] ELSE s[n + 1]]
      BY <1>2, DropCuts
    <2>2. PICK d : d = Drop(s, v)
      OBVIOUS
    <2>3. PICK len \in Nat : len = Len(s)
      OBVIOUS
    <2>4. DOMAIN s = 1 .. len /\ DOMAIN d = 1 .. len - 1 /\ first \in 1 .. len
      BY <2>1, <2>2, <2>3
    <2>5. \A n \in 1 .. len - 1 : d[n] = IF n < first THEN s[n] ELSE s[n + 1]
      BY <2>1, <2>2, <2>3
    <2>6. ASSUME NEW x, Once(s, x) PROVE Once(d, x)
      <3>1. \A m, n \in 1 .. len : s[m] = x /\ s[n] = x => m = n
        BY <2>4, <2>6 DEF Once
      <3> SUFFICES ASSUME NEW m \in 1 .. len - 1, NEW n \in 1 .. len - 1, d[m] = x, d[n] = x
                   PROVE  m = n
        BY <2>4 DEF Once
      <3> QED BY <2>4, <2>5, <3>1
    <2>7. ASSUME NEW x \in Elements(d) PROVE \E h \in 1 .. len : s[h] = x /\ h # first
      <3>1. PICK n \in 1 .. len - 1 : d[n] = x
        BY <2>4, <2>7 DEF Elements
      <3> QED BY <2>4, <2>5, <3>1
    <2>8. \A x : x \in Elements(d) => x \in Elements(s)
      BY <2>4, <2>7 DEF Elements
    <2>9. ASSUME Once(s, v) PROVE v \notin Elements(d)
      BY <2>1, <2>4, <2>7, <2>9 DEF Once
    <2>10. ASSUME NEW x \in Elements(s), x # v PROVE x \in Elements(d)
      <3>1. PICK h \in 1 .. len : s[h] = x /\ h # first
        BY <2>1, <2>4, <2>10 DEF Elements
      <3>2. CASE h < first
        <4>1. h \in 1 .. len - 1 /\ d[h] = x
          BY <2>4, <2>5, <3>1, <3>2
        <4> QED BY <2>4, <4>1 DEF Elements
      <3>3. CASE h > first
        <4>1. h - 1 \in 1 .. len - 1 /\ ~(h - 1 < first) /\ (h - 1) + 1 = h
          BY <2>4, <3>1, <3>3
        <4>2. d[h - 1] = x
          BY <2>5, <3>1, <4>1
        <4> QED BY <2>4, <4>1, <4>2 DEF Elements
      <3> QED BY <2>4, <3>1, <3>2, <3>3
    <2> QED BY <2>2, <2>6, <2>8, <2>9, <2>10
  <1> QED BY <1>1, <1>2

LEMMA AppendType ==
  ASSUME NEW T, NEW s \in Seq(T), NEW i \in T, NEW n \in Nat
  PROVE  s \o Times(i, n) \in Seq(T)
  <1>1. Times(i, n) \in Seq(T)
    BY DEF Times
  <1> QED BY <1>1

\* An element added any number of times is in the list, if it is or the number is not 0,
\* once if it is new and the number is 1 at most; the others stay as they are.
LEMMA AppendExact ==
  ASSUME NEW T, NEW s \in Seq(T), NEW i \in T, NEW n \in Nat
  PROVE  /\ \A x : x \in Elements(s \o Times(i, n)) <=>
                    x \in Elements(s) \/ (x = i /\ n > 0)
         /\ \A x : x # i /\ Once(s, x) => Once(s \o Times(i, n), x)
         /\ i \notin Elements(s) /\ n <= 1 => Once(s \o Times(i, n), i)
  <1>1. PICK a : a = s \o Times(i, n)
    OBVIOUS
  <1>2. PICK len \in Nat : len = Len(s)
    OBVIOUS
  <1>3. Times(i, n) \in Seq(T) /\ Len(Times(i, n)) = n /\ \A m \in 1 .. n : Times(i, n)[m] = i
    BY DEF Times
  <1>4. /\ DOMAIN s = 1 .. len /\ DOMAIN a = 1 .. len + n
        /\ \A m \in 1 .. len + n : a[m] = IF m <= len THEN s[m] ELSE i
    <2> DEFINE t == Times(i, n)
    <2>1. t \in Seq(T) /\ Len(t) = n
      BY <1>3
    <2>2. \A m \in 1 .. n : t[m] = i
      BY <1>3
    <2>3. a = s \o t
      BY <1>1
    <2> HIDE DEF t
    <2>4. DOMAIN s = 1 .. len /\ DOMAIN a = 1 .. len + n
      <3>1. s \o t \in Seq(T) /\ Len(s \o t) = Len(s) + Len(t)
        BY <2>1
      <3>2. a \in Seq(T) /\ Len(a) = len + n
        BY <1>2, <2>1, <2>3, <3>1
      <3> QED BY <1>2, <3>2
    <2>5. \A m \in 1 .. len + n : a[m] = IF m <= len THEN s[m] ELSE t[m - len]
      BY <1>2, <2>1, <2>3
    <2>6. \A m \in 1 .. len + n : m <= len \/ m - len \in 1 .. n
      OBVIOUS
    <2> QED BY <2>2, <2>4, <2>5, <2>6
  <1>5. ASSUME NEW x PROVE x \in Elements(a) <=> x \in Elements(s) \/ (x = i /\ n > 0)
    <2>1. x \in Elements(a) <=> \E m \in 1 .. len + n : a[m] = x
      BY <1>4 DEF Elements
    <2>2. x \in Elements(s) <=> \E m \in 1 .. len : s[m] = x
      BY <1>4 DEF Elements
    <2>3. \A m \in 1 .. len : m \in 1 .. len + n /\ a[m] = s[m]
      BY <1>4
    <2>4. n > 0 => len + 1 \in 1 .. len + n /\ a[len + 1] = i
      BY <1>4
    <2>5. \A m \in 1 .. len + n : m \in 1 .. len \/ (a[m] = i /\ n > 0)
      BY <1>4
    <2> QED BY <2>1, <2>2, <2>3, <2>4, <2>5
  <1>6. ASSUME NEW x, x # i, Once(s, x) PROVE Once(a, x)
    <2>1. \A m \in DOMAIN a : a[m] = x => m \in DOMAIN s /\ s[m] = x
      BY <1>4, <1>6
    <2> QED BY <1>6, <2>1 DEF Once
  <1>7. ASSUME i \notin Elements(s), n <= 1 PROVE Once(a, i)
    <2>1. \A m \in DOMAIN a : a[m] = i => m = len + 1
      BY <1>4, <1>7 DEF Elements
    <2> QED BY <2>1 DEF Once
  <1> QED BY <1>1, <1>5, <1>6, <1>7

-----------------------------------------------------------------------------
(* The lists hold what the references and the tags of the nodes say.        *)

\* Whether an id with this reference, whose node lists tags so often, has the key.
HasKey(r, bag, k) ==
  r # None /\ (k \in RefKeys(r) \/ (k \in TagKeys /\ bag[k[2]] > 0))

\* A tag that a node added under the id has listed twice.
Spoilt(tags, k) == k \in TagKeys /\ k[2] \in tags

\* A list holds an id that has the key, holds it once and holds no other, but for the
\* ids under which the key is spoilt.
Exact(s, k, i, r, bag, tags) ==
  /\ HasKey(r, bag, k) => i \in Elements(s)
  /\ ~Spoilt(tags, k) => Once(s, i) /\ (i \in Elements(s) => HasKey(r, bag, k))

IInv ==
  /\ IndexTypeOK
  /\ \A k \in Keys, i \in Ids : Exact(lists[k], k, i, refs[i], carried[i], repeated[i])

\* References have keys of their own.
LEMMA KeysApart ==
  /\ TagKeys \subseteq Keys
  /\ \A r \in NodeRef : RefKeys(r) \subseteq Keys \ TagKeys
  /\ \A t \in Types : <<"group", GroupOf[t]>> \in Keys \ TagKeys
  /\ \A k \in Keys \ TagKeys : \A tags : ~Spoilt(tags, k)
  <1>1. TagKeys \subseteq Keys
    BY DEF TagKeys, Keys, Promise!Keys
  <1>2. ASSUME NEW r \in NodeRef PROVE RefKeys(r) \subseteq Keys \ TagKeys
    <2>1. r.type \in Types /\ r.status \in Statuses /\ GroupOf[r.type] \in Groups
      BY SchemaAssumption DEF NodeRef
    <2> QED BY <2>1 DEF RefKeys, Promise!RefKeys, Keys, Promise!Keys, TagKeys
  <1>3. ASSUME NEW t \in Types PROVE <<"group", GroupOf[t]>> \in Keys \ TagKeys
    BY SchemaAssumption DEF Keys, Promise!Keys, TagKeys
  <1>4. \A k \in Keys \ TagKeys : \A tags : ~Spoilt(tags, k)
    BY DEF Spoilt
  <1> QED BY <1>1, <1>2, <1>3, <1>4

\* What _remove_refs leaves: of the id nothing but spoilt tags, of the others all.
LEMMA ClearedExact ==
  ASSUME IInv, NEW i \in Ids, refs[i] # None
  PROVE  /\ Cleared(i) \in [Keys -> Seq(Ids)]
         /\ \A k \in Keys :
              /\ \A h \in Ids \ {i} :
                   Exact(Cleared(i)[k], k, h, refs[h], carried[h], repeated[h])
              /\ ~Spoilt(repeated[i], k) => i \notin Elements(Cleared(i)[k])
  <1>1. lists \in [Keys -> Seq(Ids)]
    BY DEF IInv, IndexTypeOK
  <1>2. \A k \in Keys : Cleared(i)[k] =
          IF k \in RefKeys(refs[i]) \cup TagKeys THEN Drop(lists[k], i) ELSE lists[k]
    BY DEF Cleared
  <1>3. ASSUME NEW k \in Keys PROVE Cleared(i)[k] \in Seq(Ids)
    <2>1. lists[k] \in Seq(Ids)
      BY <1>1
    <2> QED BY <1>2, <2>1, DropType
  <1>4. ASSUME NEW k \in Keys
        PROVE  /\ \A h \in Ids \ {i} :
                    Exact(Cleared(i)[k], k, h, refs[h], carried[h], repeated[h])
               /\ ~Spoilt(repeated[i], k) => i \notin Elements(Cleared(i)[k])
    <2>1. lists[k] \in Seq(Ids)
      BY <1>1
    <2>2. \A h \in Ids : Exact(lists[k], k, h, refs[h], carried[h], repeated[h])
      BY DEF IInv
    <2>3. CASE k \in RefKeys(refs[i]) \cup TagKeys
      <3>1. PICK d : d = Drop(lists[k], i)
        OBVIOUS
      <3>2. /\ \A x : x # i => (x \in Elements(d) <=> x \in Elements(lists[k]))
            /\ \A x : Once(lists[k], x) => Once(d, x)
            /\ Once(lists[k], i) => i \notin Elements(d)
        BY <2>1, <3>1, DropExact
      <3>3. Cleared(i)[k] = d
        BY <1>2, <2>3, <3>1
      <3> QED BY <2>2, <3>2, <3>3 DEF Exact
    <2>4. CASE k \notin RefKeys(refs[i]) \cup TagKeys
      <3>1. Cleared(i)[k] = lists[k]
        BY <1>2, <2>4
      <3>2. ~Spoilt(repeated[i], k) /\ ~HasKey(refs[i], carried[i], k)
        BY <2>4 DEF Spoilt, HasKey
      <3>3. i \notin Elements(lists[k])
        BY <2>2, <3>2 DEF Exact
      <3> QED BY <2>2, <3>1, <3>3
    <2> QED BY <2>3, <2>4
  <1>5. Cleared(i) \in [Keys -> Seq(Ids)]
    BY <1>3 DEF Cleared
  <1> QED BY <1>4, <1>5

LEMMA AddKeeps ==
  ASSUME IInv, NEW i \in Ids, NEW r \in NodeRef, NEW bag \in TagBags, Add(i, r, bag)
  PROVE  IInv'
  <1>1. PICK kept : kept = IF refs[i] = None THEN lists ELSE Cleared(i)
    OBVIOUS
  <1> DEFINE new(k) == IF k \in TagKeys THEN bag[k[2]] ELSE IF k \in RefKeys(r) THEN 1 ELSE 0
             twice == {t \in Tags : bag[t] > 1}
  <1>2. /\ refs' = [refs EXCEPT ![i] = r]
        /\ carried' = [carried EXCEPT ![i] = bag]
        /\ repeated' = [repeated EXCEPT ![i] = @ \cup twice]
        /\ lists' = [k \in Keys |-> kept[k] \o Times(i, new(k))]
        /\ answer' = answer
    BY <1>1 DEF Add
  <1>3. /\ refs \in [Ids -> NodeRef \cup {None}] /\ lists \in [Keys -> Seq(Ids)]
        /\ answer \subseteq Ids /\ carried \in [Ids -> TagBags]
        /\ repeated \in [Ids -> SUBSET Tags]
    BY DEF IInv, IndexTypeOK
  <1>4. kept \in [Keys -> Seq(Ids)]
    BY <1>1, <1>3, ClearedExact
  <1>5. ASSUME NEW k \in Keys
        PROVE  /\ \A h \in Ids \ {i} : Exact(kept[k], k, h, refs[h], carried[h], repeated[h])
               /\ ~Spoilt(repeated[i], k) => i \notin Elements(kept[k])
    <2>1. \A h \in Ids : Exact(lists[k], k, h, refs[h], carried[h], repeated[h])
      BY DEF IInv
    <2>2. CASE refs[i] = None
      BY <1>1, <2>1, <2>2 DEF Exact, HasKey
    <2>3. CASE refs[i] # None
      BY <1>1, <2>3, ClearedExact
    <2> QED BY <2>2, <2>3
  <1>6. ASSUME NEW k \in Keys
        PROVE  /\ new(k) \in Nat /\ (~Spoilt(repeated[i] \cup twice, k) => new(k) <= 1)
               /\ new(k) > 0 <=> HasKey(r, bag, k)
    <2>1. r # None
      BY NoneAssumption
    <2>2. CASE k \in TagKeys
      <3>1. k[2] \in Tags
        BY <2>2 DEF TagKeys
      <3>2. bag[k[2]] \in 0 .. MaxRepeat /\ bag[k[2]] \in Nat
        BY <3>1, IndexAssumption DEF TagBags
      <3>3. k \notin RefKeys(r)
        BY <2>2, KeysApart
      <3>4. ~Spoilt(repeated[i] \cup twice, k) => ~(bag[k[2]] > 1)
        BY <2>2, <3>1 DEF Spoilt
      <3> QED BY <2>1, <2>2, <3>2, <3>3, <3>4 DEF HasKey
    <2>3. CASE k \notin TagKeys
      BY <2>1, <2>3 DEF HasKey
    <2> QED BY <2>2, <2>3
  <1>7. twice \subseteq Tags
    OBVIOUS
  <1> HIDE DEF new, twice
  <1>8. IndexTypeOK'
    <2>1. \A k \in Keys : kept[k] \o Times(i, new(k)) \in Seq(Ids)
      BY <1>4, <1>6, AppendType
    <2>2. lists' \in [Keys -> Seq(Ids)]
      BY <1>2, <2>1
    <2>3. repeated' \in [Ids -> SUBSET Tags]
      BY <1>2, <1>3, <1>7
    <2> QED BY <1>2, <1>3, <2>2, <2>3 DEF IndexTypeOK
  <1>9. ASSUME NEW k \in Keys, NEW h \in Ids
        PROVE  Exact(lists'[k], k, h, refs'[h], carried'[h], repeated'[h])
    <2>1. kept[k] \in Seq(Ids) /\ new(k) \in Nat
      BY <1>4, <1>6
    <2>2. PICK l : l = kept[k] \o Times(i, new(k))
      OBVIOUS
    <2>3. lists'[k] = l
      BY <1>2, <2>2
    <2>4. /\ \A x : x \in Elements(l) <=> x \in Elements(kept[k]) \/ (x = i /\ new(k) > 0)
          /\ \A x : x # i /\ Once(kept[k], x) => Once(l, x)
          /\ i \notin Elements(kept[k]) /\ new(k) <= 1 => Once(l, i)
      BY <2>1, <2>2, AppendExact
    <2>5. CASE h = i
      <3>1. refs'[h] = r /\ carried'[h] = bag /\ repeated'[h] = repeated[i] \cup twice
        BY <1>2, <1>3, <2>5
      <3>2. ~Spoilt(repeated[i] \cup twice, k) => ~Spoilt(repeated[i], k)
        BY DEF Spoilt
      <3> QED BY <1>5, <1>6, <2>3, <2>4, <2>5, <3>1, <3>2 DEF Exact
    <2>6. CASE h # i
      <3>1. refs'[h] = refs[h] /\ carried'[h] = carried[h] /\ repeated'[h] = repeated[h]
        BY <1>2, <1>3, <2>6
      <3>2. Exact(kept[k], k, h, refs[h], carried[h], repeated[h])
        BY <1>5, <2>6
      <3> QED BY <2>3, <2>4, <2>6, <3>1, <3>2 DEF Exact
    <2> QED BY <2>5, <2>6
  <1> QED BY <1>8, <1>9 DEF IInv

LEMMA RemoveKeeps ==
  ASSUME IInv, NEW i \in Ids, Remove(i)
  PROVE  IInv'
  <1>1. /\ refs[i] # None /\ refs' = [refs EXCEPT ![i] = None] /\ lists' = Cleared(i)
        /\ carried' = [carried EXCEPT ![i] = [t \in Tags |-> 0]] /\ answer' = answer
        /\ repeated' = repeated
    BY DEF Remove
  <1>2. /\ refs \in [Ids -> NodeRef \cup {None}] /\ lists \in [Keys -> Seq(Ids)]
        /\ answer \subseteq Ids /\ carried \in [Ids -> TagBags]
        /\ repeated \in [Ids -> SUBSET Tags]
    BY DEF IInv, IndexTypeOK
  <1>3. IndexTypeOK'
    <2>1. [t \in Tags |-> 0] \in TagBags
      BY IndexAssumption DEF TagBags
    <2>2. lists' \in [Keys -> Seq(Ids)]
      BY <1>1, ClearedExact
    <2> QED BY <1>1, <1>2, <2>1, <2>2 DEF IndexTypeOK
  <1>4. ASSUME NEW k \in Keys, NEW h \in Ids
        PROVE  Exact(lists'[k], k, h, refs'[h], carried'[h], repeated'[h])
    <2>1. CASE h = i
      <3>1. refs'[h] = None
        BY <1>1, <1>2, <2>1
      <3>2. ~Spoilt(repeated[i], k) => i \notin Elements(lists'[k])
        BY <1>1, ClearedExact
      <3> QED BY <1>1, <2>1, <3>1, <3>2 DEF Exact, HasKey, Once, Elements
    <2>2. CASE h # i
      <3>1. refs'[h] = refs[h] /\ carried'[h] = carried[h]
        BY <1>1, <1>2, <2>2
      <3>2. Exact(lists'[k], k, h, refs[h], carried[h], repeated[h])
        BY <1>1, <2>2, ClearedExact
      <3> QED BY <1>1, <3>1, <3>2
    <2> QED BY <2>1, <2>2
  <1> QED BY <1>3, <1>4 DEF IInv

\* The singleton of a type is the candidate whose place in the list is least.
LEMMA FirstIsCandidate ==
  ASSUME IInv, NEW t \in Types, NEW k, k = <<"group", GroupOf[t]>>, Candidates(t, k) # {},
         NEW first,
         first = CHOOSE n \in Candidates(t, k) : \A m \in Candidates(t, k) : n <= m
  PROVE  first \in Candidates(t, k)
  <1>1. k \in Keys
    BY KeysApart
  <1>2. lists[k] \in Seq(Ids)
    BY <1>1 DEF IInv, IndexTypeOK
  <1>3. Candidates(t, k) \in SUBSET Nat
    BY <1>2 DEF Candidates, Resolved
  <1>4. \E n \in Candidates(t, k) : \A m \in Candidates(t, k) : n <= m
    BY <1>3, LeastOf
  <1> QED BY <1>4

LEMMA AsksKeep ==
  ASSUME IInv, (\E k \in Keys : Ask(k)) \/ (\E t \in Types : AskSingleton(t))
  PROVE  IInv'
  <1>1. \A k \in Keys : lists[k] \in Seq(Ids)
    BY DEF IInv, IndexTypeOK
  <1>2. \A k \in Keys : \A n \in Resolved(k) : lists[k][n] \in Ids
    BY <1>1 DEF Resolved
  <1>3. refs' = refs /\ lists' = lists /\ carried' = carried /\ repeated' = repeated
    BY DEF Ask, AskSingleton, history
  <1>4. answer' \subseteq Ids
    <2>1. CASE \E k \in Keys : Ask(k)
      BY <1>2, <2>1 DEF Ask
    <2>2. ASSUME NEW t \in Types, AskSingleton(t) PROVE answer' \subseteq Ids
      <3>1. PICK k : k = <<"group", GroupOf[t]>>
        OBVIOUS
      <3>2. k \in Keys
        BY <3>1, KeysApart
      <3>3. PICK first :
              first = CHOOSE n \in Candidates(t, k) : \A m \in Candidates(t, k) : n <= m
        OBVIOUS
      <3>4. answer' = IF Candidates(t, k) = {} THEN {} ELSE {lists[k][first]}
        BY <2>2, <3>1, <3>3 DEF AskSingleton
      <3>5. Candidates(t, k) # {} => first \in Resolved(k)
        BY <3>1, <3>3, FirstIsCandidate DEF Candidates
      <3> QED BY <1>2, <3>2, <3>4, <3>5
    <2> QED BY <2>1, <2>2
  <1> QED BY <1>3, <1>4 DEF IInv, IndexTypeOK, Exact, HasKey

LEMMA InitExact ==
  ASSUME Init
  PROVE  IInv
  <1>1. /\ refs = [i \in Ids |-> None] /\ lists = [k \in Keys |-> <<>>] /\ answer = {}
        /\ carried = [i \in Ids |-> [t \in Tags |-> 0]] /\ repeated = [i \in Ids |-> {}]
    BY DEF Init
  <1>2. IndexTypeOK
    <2>1. [t \in Tags |-> 0] \in TagBags
      BY IndexAssumption DEF TagBags
    <2> QED BY <1>1, <2>1 DEF IndexTypeOK
  <1>3. ASSUME NEW k \in Keys, NEW i \in Ids
        PROVE  Exact(lists[k], k, i, refs[i], carried[i], repeated[i])
    <2>1. lists[k] = <<>> /\ refs[i] = None
      BY <1>1
    <2>2. Once(lists[k], i) /\ Elements(lists[k]) = {}
      BY <2>1 DEF Once, Elements
    <2> QED BY <2>1, <2>2 DEF Exact, HasKey
  <1> QED BY <1>2, <1>3 DEF IInv

LEMMA NextKeeps ==
  ASSUME IInv, [Next]_vars
  PROVE  IInv'
  <1>1. CASE UNCHANGED vars
    BY <1>1 DEF IInv, IndexTypeOK, Exact, HasKey, vars, history
  <1>2. CASE Next
    BY <1>2, AddKeeps, RemoveKeeps, AsksKeep DEF Next
  <1> QED BY <1>1, <1>2

\* The inductive invariant of the index.
THEOREM IndexInvariant == Spec => []IInv
  <1> QED BY InitExact, NextKeeps, PTL DEF Spec

\* The type invariant.
THEOREM IndexTypeCorrect == Spec => []IndexTypeOK
  <1>1. IInv => IndexTypeOK
    BY DEF IInv
  <1> QED BY <1>1, IndexInvariant, PTL

\* The lists by group, type and status hold each id that has the key once and no other,
\* however often tags are repeated, ids replaced and removed.
THEOREM ListsCorrect == Spec => []ListsExact
  <1>1. ASSUME IInv PROVE ListsExact
    <2> SUFFICES ASSUME NEW k \in Keys \ TagKeys
                 PROVE  /\ Elements(lists[k]) =
                             {i \in Ids : refs[i] # None /\ k \in RefKeys(refs[i])}
                        /\ \A m, n \in DOMAIN lists[k] : lists[k][m] = lists[k][n] => m = n
      BY DEF ListsExact
    <2>1. lists[k] \in Seq(Ids)
      BY <1>1 DEF IInv, IndexTypeOK
    <2>2. \A i \in Ids : /\ Once(lists[k], i)
                         /\ i \in Elements(lists[k]) <=> HasKey(refs[i], carried[i], k)
      BY <1>1, KeysApart DEF IInv, Exact
    <2>3. \A n \in DOMAIN lists[k] : lists[k][n] \in Ids
      BY <2>1
    <2> QED BY <2>2, <2>3 DEF Elements, HasKey, Once
  <1> QED BY <1>1, IndexInvariant, PTL

-----------------------------------------------------------------------------
(* Every step is one the promise allows.                                    *)

\* What was last put under id i, as the promise sees it.
Seen(i) == IF refs[i] = None THEN None
           ELSE [ref |-> refs[i], tags |-> {t \in Tags : carried[i][t] > 0}]

\* An id is removed for the promise exactly when it is for the index.
LEMMA SeenWhenThere ==
  ASSUME IndexTypeOK, NEW i \in Ids
  PROVE  Seen(i) # None <=> refs[i] # None
  <1>1. CASE refs[i] = None
    BY <1>1 DEF Seen
  <1>2. CASE refs[i] # None
    <2>1. refs[i] \in NodeRef
      BY <1>2 DEF IndexTypeOK
    <2>2. Seen(i) \in Promise!Entry
      BY <1>2, <2>1 DEF Seen, Promise!Entry, NodeRef, Promise!NodeRef
    <2> QED BY <1>2, <2>2, EntryAssumption
  <1> QED BY <1>1, <1>2

\* A key is one the promise knows the id by exactly when HasKey says so.
LEMMA KeysSeen ==
  ASSUME IndexTypeOK, NEW i \in Ids, NEW k \in Keys
  PROVE  (Seen(i) # None /\ k \in Promise!KeysOf(Seen(i))) <=> HasKey(refs[i], carried[i], k)
  <1>1. CASE refs[i] = None
    BY <1>1 DEF Seen, HasKey
  <1>2. CASE refs[i] # None
    <2>1. Seen(i) # None
      BY <1>2, SeenWhenThere
    <2>2. Seen(i).ref = refs[i] /\ Seen(i).tags = {t \in Tags : carried[i][t] > 0}
      BY <1>2 DEF Seen
    <2>3. k \in Promise!KeysOf(Seen(i)) <=>
            k \in RefKeys(refs[i]) \/ \E t \in Tags : carried[i][t] > 0 /\ k = <<"tag", t>>
      BY <2>2 DEF Promise!KeysOf, RefKeys
    <2>4. (\E t \in Tags : carried[i][t] > 0 /\ k = <<"tag", t>>) <=>
            k \in TagKeys /\ carried[i][k[2]] > 0
      BY DEF TagKeys
    <2> QED BY <1>2, <2>1, <2>3, <2>4 DEF HasKey
  <1> QED BY <1>1, <1>2

\* The places a query resolves hold the ids that match, and spoilt ones besides.
LEMMA ResolvedMatches ==
  ASSUME IInv, NEW k \in Keys
  PROVE  /\ \A n \in Resolved(k) :
              LET i == lists[k][n] IN
              /\ i \in Ids /\ Seen(i) # None
              /\ k \in Promise!KeysOf(Seen(i)) \/ Spoilt(repeated[i], k)
         /\ \A i \in Ids : Seen(i) # None /\ k \in Promise!KeysOf(Seen(i)) =>
              \E n \in Resolved(k) : lists[k][n] = i
  <1>1. lists[k] \in Seq(Ids) /\ IndexTypeOK
    BY DEF IInv, IndexTypeOK
  <1>2. \A i \in Ids :
          /\ HasKey(refs[i], carried[i], k) => i \in Elements(lists[k])
          /\ i \in Elements(lists[k]) => HasKey(refs[i], carried[i], k) \/ Spoilt(repeated[i], k)
    BY DEF IInv, Exact
  <1>3. ASSUME NEW n \in Resolved(k)
        PROVE  LET i == lists[k][n] IN
               /\ i \in Ids /\ Seen(i) # None
               /\ k \in Promise!KeysOf(Seen(i)) \/ Spoilt(repeated[i], k)
    <2>1. PICK i : i = lists[k][n]
      OBVIOUS
    <2>2. i \in Ids /\ refs[i] # None /\ i \in Elements(lists[k])
      BY <1>1, <2>1 DEF Resolved, Elements
    <2>3. HasKey(refs[i], carried[i], k) \/ Spoilt(repeated[i], k)
      BY <1>2, <2>2
    <2>4. Seen(i) # None
      BY <1>1, <2>2, SeenWhenThere
    <2> QED BY <1>1, <2>1, <2>2, <2>3, <2>4, KeysSeen
  <1>4. ASSUME NEW i \in Ids, Seen(i) # None, k \in Promise!KeysOf(Seen(i))
        PROVE  \E n \in Resolved(k) : lists[k][n] = i
    <2>1. HasKey(refs[i], carried[i], k)
      BY <1>1, <1>4, KeysSeen
    <2> QED BY <1>2, <2>1 DEF Resolved, Elements, HasKey
  <1> QED BY <1>3, <1>4

\* The places of the candidates hold the active nodes of the type.
LEMMA CandidatesActive ==
  ASSUME IInv, NEW t \in Types, NEW k, k = <<"group", GroupOf[t]>>
  PROVE  /\ \A n \in Candidates(t, k) : lists[k][n] \in Promise!Active(t)
         /\ \A i \in Promise!Active(t) : \E n \in Candidates(t, k) : lists[k][n] = i
  <1>1. k \in Keys \ TagKeys /\ lists[k] \in Seq(Ids) /\ IndexTypeOK
    BY KeysApart DEF IInv, IndexTypeOK
  <1>2. \A i \in Ids : i \in Elements(lists[k]) <=> HasKey(refs[i], carried[i], k)
    BY <1>1, KeysApart DEF IInv, Exact
  <1>3. \A i \in Ids : i \in Promise!Active(t) <=>
          refs[i] # None /\ refs[i] = [type |-> t, status |-> "active"]
    <2> SUFFICES ASSUME NEW i \in Ids
                 PROVE  i \in Promise!Active(t) <=>
                          refs[i] # None /\ refs[i] = [type |-> t, status |-> "active"]
      OBVIOUS
    <2>1. i \in Promise!Active(t) <=>
            Seen(i) # None /\ Seen(i).ref = [type |-> t, status |-> "active"]
      BY DEF Promise!Active, Seen
    <2>2. refs[i] # None => Seen(i).ref = refs[i]
      BY DEF Seen
    <2> QED BY <1>1, <2>1, <2>2, SeenWhenThere
  <1>4. ASSUME NEW i \in Ids, refs[i] # None
        PROVE  (refs[i].type = t /\ refs[i].status = "active") <=>
                 refs[i] = [type |-> t, status |-> "active"]
    BY <1>1, <1>4 DEF IndexTypeOK, NodeRef
  <1>5. ASSUME NEW n \in Candidates(t, k) PROVE lists[k][n] \in Promise!Active(t)
    BY <1>1, <1>3, <1>4, <1>5 DEF Candidates, Resolved
  <1>6. ASSUME NEW i \in Promise!Active(t)
        PROVE  \E n \in Candidates(t, k) : lists[k][n] = i
    <2>1. i \in Ids /\ refs[i] # None /\ refs[i].type = t /\ refs[i].status = "active"
      BY <1>3, <1>6 DEF Promise!Active
    <2>2. k \in RefKeys(refs[i])
      BY <2>1 DEF RefKeys, Promise!RefKeys
    <2>3. PICK n \in DOMAIN lists[k] : lists[k][n] = i
      BY <1>2, <2>1, <2>2 DEF HasKey, Elements
    <2> QED BY <2>1, <2>3 DEF Candidates, Resolved
  <1> QED BY <1>5, <1>6

\* The promise's view of the index, and what it becomes.
View == [i \in Ids |-> Seen(i)]

LEMMA ViewOfAdd ==
  ASSUME IndexTypeOK, NEW i \in Ids, NEW r \in NodeRef, NEW bag \in TagBags, Add(i, r, bag)
  PROVE  Promise!Put(i, [ref |-> r, tags |-> {t \in Tags : bag[t] > 0}],
                     {t \in Tags : bag[t] > 1})
  <1> DEFINE e == [ref |-> r, tags |-> {t \in Tags : bag[t] > 0}]
             twice == {t \in Tags : bag[t] > 1}
  <1>1. /\ refs' = [refs EXCEPT ![i] = r] /\ carried' = [carried EXCEPT ![i] = bag]
        /\ repeated' = [repeated EXCEPT ![i] = @ \cup twice] /\ answer' = answer /\ r # None
    BY NoneAssumption DEF Add
  <1>2. refs \in [Ids -> NodeRef \cup {None}] /\ carried \in [Ids -> TagBags]
    BY DEF IndexTypeOK
  <1>3. Seen(i)' = e
    BY <1>1, <1>2 DEF Seen
  <1>4. ASSUME NEW h \in Ids, h # i PROVE Seen(h)' = Seen(h)
    BY <1>1, <1>2, <1>4 DEF Seen
  <1> HIDE DEF e, twice
  <1>5. View' = [View EXCEPT ![i] = e]
    BY <1>3, <1>4 DEF View
  <1>6. Promise!Put(i, e, twice)
    BY <1>1, <1>5 DEF View, Seen, Promise!Put
  <1> QED BY <1>6 DEF e, twice

LEMMA ViewOfRemove ==
  ASSUME IndexTypeOK, NEW i \in Ids, Remove(i)
  PROVE  Promise!Delete(i)
  <1>1. refs' = [refs EXCEPT ![i] = None] /\ answer' = answer
        /\ carried' = [carried EXCEPT ![i] = [t \in Tags |-> 0]] /\ repeated' = repeated
    BY DEF Remove
  <1>2. refs \in [Ids -> NodeRef \cup {None}] /\ carried \in [Ids -> TagBags]
    BY DEF IndexTypeOK
  <1>3. Seen(i)' = None
    BY <1>1, <1>2 DEF Seen
  <1>4. ASSUME NEW h \in Ids, h # i PROVE Seen(h)' = Seen(h)
    BY <1>1, <1>2, <1>4 DEF Seen
  <1>5. View' = [View EXCEPT ![i] = None]
    BY <1>3, <1>4 DEF View
  <1> QED BY <1>1, <1>5 DEF View, Seen, Promise!Delete

LEMMA ViewOfAsk ==
  ASSUME IInv, NEW k \in Keys, Ask(k)
  PROVE  Promise!Ask(k)
  <1>1. refs' = refs /\ carried' = carried /\ repeated' = repeated
    BY DEF Ask, history
  <1>2. View' = View
    BY <1>1 DEF View, Seen
  <1> DEFINE found == {i \in Ids : Seen(i) # None /\ k \in Promise!KeysOf(Seen(i))}
             spoilt == {i \in Ids : Seen(i) # None /\ Spoilt(repeated[i], k)}
             more == answer' \cap spoilt
  <1>3. answer' = {lists[k][n] : n \in Resolved(k)}
    BY DEF Ask
  <1>4. found \subseteq answer' /\ answer' \subseteq found \cup spoilt
    BY <1>3, ResolvedMatches
  <1>5. found = Promise!Matches(k)
    BY DEF View, Seen, Promise!Matches
  <1>6. spoilt = Promise!Leftover(k)
    <2>1. \A tags \in SUBSET Tags : Spoilt(tags, k) <=> \E t \in tags : k = <<"tag", t>>
      BY DEF Spoilt, TagKeys
    <2>2. \A i \in Ids : repeated[i] \in SUBSET Tags
      BY DEF IInv, IndexTypeOK
    <2>3. spoilt = {i \in Ids : Seen(i) # None /\ \E t \in repeated[i] : k = <<"tag", t>>}
      BY <2>1, <2>2
    <2> QED BY <2>3 DEF Seen, Promise!Leftover
  <1> HIDE DEF found, spoilt
  <1>7. more \in SUBSET spoilt /\ answer' = found \cup more
    BY <1>4
  <1> QED BY <1>1, <1>2, <1>5, <1>6, <1>7 DEF View, Seen, Promise!Ask

LEMMA ViewOfSingleton ==
  ASSUME IInv, NEW t \in Types, AskSingleton(t)
  PROVE  Promise!AskSingleton(t)
  <1>1. PICK k : k = <<"group", GroupOf[t]>>
    OBVIOUS
  <1>2. PICK first :
          first = CHOOSE n \in Candidates(t, k) : \A m \in Candidates(t, k) : n <= m
    OBVIOUS
  <1>3. /\ answer' = IF Candidates(t, k) = {} THEN {} ELSE {lists[k][first]}
        /\ refs' = refs /\ carried' = carried /\ repeated' = repeated
    BY <1>1, <1>2 DEF AskSingleton, history
  <1>4. View' = View
    BY <1>3 DEF View, Seen
  <1>5. \/ Promise!Active(t) = {} /\ answer' = {}
        \/ \E i \in Promise!Active(t) : answer' = {i}
    <2>1. CASE Candidates(t, k) = {}
      BY <1>1, <1>3, <2>1, CandidatesActive
    <2>2. CASE Candidates(t, k) # {}
      <3>1. first \in Candidates(t, k)
        BY <1>1, <1>2, <2>2, FirstIsCandidate
      <3> QED BY <1>1, <1>3, <2>2, <3>1, CandidatesActive
    <2> QED BY <2>1, <2>2
  <1> QED BY <1>3, <1>4, <1>5 DEF View, Seen, Promise!AskSingleton

\* The index does only what IndexPromise allows: every query by group, type, status or
\* tag finds the nodes last put under their ids that have it, a query by tag another
\* only where the tag was once listed twice, and the singleton of a type is one of its
\* active nodes when there is one.
THEOREM PromiseKept == Spec => KeepsPromise
  <1>1. Init => Promise!Init
    BY DEF Init, Promise!Init
  <1>2. ASSUME IInv, [Next]_vars
        PROVE  Promise!Next \/ (View' = View /\ repeated' = repeated /\ answer' = answer)
    <2>1. IndexTypeOK
      BY <1>2 DEF IInv
    <2>2. CASE UNCHANGED vars
      BY <2>2 DEF View, Seen, vars, history
    <2>3. ASSUME NEW i \in Ids, NEW r \in NodeRef, NEW bag \in TagBags, Add(i, r, bag)
          PROVE  Promise!Next
      <3> DEFINE e == [ref |-> r, tags |-> {t \in Tags : bag[t] > 0}]
                 twice == {t \in Tags : bag[t] > 1}
      <3>1. e \in Promise!Entry
        BY DEF Promise!Entry, NodeRef, Promise!NodeRef
      <3>2. twice \in SUBSET e.tags
        <4>1. \A t \in Tags : bag[t] \in Nat
          BY IndexAssumption DEF TagBags
        <4> QED BY <4>1
      <3>3. Promise!Put(i, e, twice)
        BY <2>1, <2>3, ViewOfAdd
      <3> HIDE DEF e, twice
      <3> QED BY <3>1, <3>2, <3>3 DEF Promise!Next
    <2>4. ASSUME NEW i \in Ids, Remove(i) PROVE Promise!Next
      BY <2>1, <2>4, ViewOfRemove DEF Promise!Next
    <2>5. ASSUME NEW k \in Keys, Ask(k) PROVE Promise!Next
      BY <1>2, <2>5, ViewOfAsk DEF Promise!Next, Keys
    <2>6. ASSUME NEW t \in Types, AskSingleton(t) PROVE Promise!Next
      BY <1>2, <2>6, ViewOfSingleton DEF Promise!Next
    <2> QED BY <1>2, <2>2, <2>3, <2>4, <2>5, <2>6 DEF Next
  <1>3. IInv /\ [Next]_vars => [Promise!Next]_<<View, repeated, answer>>
    BY <1>2
  <1>4. View = [i \in Ids |-> IF refs[i] = None THEN None
                  ELSE [ref |-> refs[i], tags |-> {t \in Tags : carried[i][t] > 0}]]
    BY DEF View, Seen
  <1> QED BY <1>1, <1>3, <1>4, IndexInvariant, PTL DEF Spec, KeepsPromise, Promise!Spec, View, Seen
=============================================================================
