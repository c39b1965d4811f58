--------------------------- MODULE TemplateProofs ---------------------------
(***************************************************************************)
(* The renderer against the meaning of the text, for every template and every *)
(* context.  First that an expression is evaluated to what it means, then what *)
(* the lines read so far say of blocks and conditions, and at last that the   *)
(* renderer's stack, pending conditions and output say the same.              *)
(***************************************************************************)
EXTENDS TemplateMeaning, FiniteSetTheorems, WellFoundedInduction, TLAPS

-----------------------------------------------------------------------------
(* Numbers.                                                                 *)

\* A set of numbers that has a member has a first one.
LEMMA FirstOf ==
  ASSUME NEW S \in SUBSET Nat, S # {}
  PROVE  \E m \in S : \A k \in S : m <= k
  <1> DEFINE R == OpToRel(<, Nat)
  <1>1. IsWellFoundedOn(R, Nat)
    BY NatLessThanWellFounded
  <1> HIDE DEF R
  <1>2. PICK m \in S : \A k \in S : ~ (<<k, m>> \in R)
    BY <1>1, WFMin
  <1>3. \A k \in S : k < m => <<k, m>> \in R
    BY DEF OpToRel, R
  <1>4. ASSUME NEW k \in S PROVE m <= k
    <2>1. m \in Nat /\ k \in Nat /\ ~(k < m)
      BY <1>2, <1>3
    <2> QED BY <2>1
  <1> QED BY <1>4

\* What holds of zero, and of a number when it holds of the one before, holds up to m.
LEMMA StepByStep ==
  ASSUME NEW m \in Nat, NEW S, 0 \in S, \A n \in 1 .. m : n - 1 \in S => n \in S
  PROVE  \A n \in 0 .. m : n \in S
  <1> DEFINE Bad == {n \in 0 .. m : n \notin S}
  <1> SUFFICES ASSUME Bad # {} PROVE FALSE
    OBVIOUS
  <1>1. PICK n \in Bad : \A k \in Bad : n <= k
    <2>1. Bad \in SUBSET Nat
      OBVIOUS
    <2> HIDE DEF Bad
    <2> QED BY <2>1, FirstOf
  <1>2. n \in 1 .. m /\ n - 1 \in 0 .. m /\ ~(n <= n - 1)
    BY <1>1
  <1> QED BY <1>1, <1>2

-----------------------------------------------------------------------------
(* Expressions.                                                             *)

\* What a condition can be.
Answers == {"yes", "no"}

\* The stream has the equation it is defined by.
LEMMA StreamedIs ==
  ASSUME NEW atoms, Len(atoms) \in Nat
  PROVE  /\ Streamed(atoms)[0] = [values |-> <<>>, negate |-> FALSE, fault |-> FALSE]
         /\ \A n \in 1 .. Len(atoms) :
              Streamed(atoms)[n] = Resolve(Streamed(atoms)[n - 1], atoms[n])
  <1> DEFINE Step(f, k) ==
               IF k = 0 THEN [values |-> <<>>, negate |-> FALSE, fault |-> FALSE]
               ELSE Resolve(f[k - 1], atoms[k])
             Table(f, m) == f = [k \in 0 .. m |-> Step(f, k)]
             Good == {m \in Nat : \E f : Table(f, m)}
  <1>1. 0 \in Good
    <2> DEFINE h == [k \in 0 .. 0 |-> Step(<<>>, 0)]
    <2>1. \A k \in 0 .. 0 : h[k] = Step(h, k)
      OBVIOUS
    <2>2. h = [k \in 0 .. 0 |-> h[k]]
      OBVIOUS
    <2> HIDE DEF h, Step
    <2> QED BY <2>1, <2>2
  <1>2. ASSUME NEW m \in 1 .. Len(atoms), m - 1 \in Good PROVE m \in Good
    <2>1. PICK f : Table(f, m - 1)
      BY <1>2
    <2> DEFINE h == [k \in 0 .. m |-> IF k = m THEN Step(f, m) ELSE f[k]]
    <2>2. ASSUME NEW k \in 0 .. m PROVE h[k] = Step(h, k)
      <3>1. k # 0 => k - 1 \in 0 .. m /\ k - 1 # m
        OBVIOUS
      <3>2. k # 0 => h[k - 1] = f[k - 1]
        BY <3>1
      <3>3. Step(h, k) = Step(f, k)
        BY <3>2
      <3>4. k # m => k \in 0 .. m - 1
        OBVIOUS
      <3>5. k # m => f[k] = Step(f, k)
        BY <2>1, <3>4
      <3> QED BY <3>3, <3>5
    <2>3. h = [k \in 0 .. m |-> h[k]]
      OBVIOUS
    <2> HIDE DEF h, Step
    <2>4. Table(h, m)
      BY <2>2, <2>3
    <2> QED BY <2>4
  <1>3. Len(atoms) \in Good
    <2> HIDE DEF Good
    <2>1. \A m \in 1 .. Len(atoms) : m - 1 \in Good => m \in Good
      BY <1>2
    <2>2. \A m \in 0 .. Len(atoms) : m \in Good
      BY <1>1, <2>1, StepByStep
    <2> QED BY <2>2
  <1>4. PICK f : Table(f, Len(atoms))
    BY <1>3
  <1> DEFINE d == Streamed(atoms)
  <1>5. Table(d, Len(atoms))
    BY <1>4 DEF Streamed
  <1> HIDE DEF d
  <1>6. \A k \in 0 .. Len(atoms) : d[k] = Step(d, k)
    BY <1>5
  <1>7. d[0] = Step(d, 0) /\ \A k \in 1 .. Len(atoms) : d[k] = Step(d, k)
    BY <1>6
  <1> QED BY <1>7 DEF d

\* So has the fold of `and`.
LEMMA JoinedIs ==
  ASSUME NEW values, Len(values) \in Nat
  PROVE  /\ Joined(values)[0] = [list |-> <<>>, join |-> FALSE, fault |-> FALSE]
         /\ \A n \in 1 .. Len(values) :
              Joined(values)[n] = Join(Joined(values)[n - 1], values[n])
  <1> DEFINE Step(f, k) ==
               IF k = 0 THEN [list |-> <<>>, join |-> FALSE, fault |-> FALSE]
               ELSE Join(f[k - 1], values[k])
             Table(f, m) == f = [k \in 0 .. m |-> Step(f, k)]
             Good == {m \in Nat : \E f : Table(f, m)}
  <1>1. 0 \in Good
    <2> DEFINE h == [k \in 0 .. 0 |-> Step(<<>>, 0)]
    <2>1. \A k \in 0 .. 0 : h[k] = Step(h, k)
      OBVIOUS
    <2>2. h = [k \in 0 .. 0 |-> h[k]]
      OBVIOUS
    <2> HIDE DEF h, Step
    <2> QED BY <2>1, <2>2
  <1>2. ASSUME NEW m \in 1 .. Len(values), m - 1 \in Good PROVE m \in Good
    <2>1. PICK f : Table(f, m - 1)
      BY <1>2
    <2> DEFINE h == [k \in 0 .. m |-> IF k = m THEN Step(f, m) ELSE f[k]]
    <2>2. ASSUME NEW k \in 0 .. m PROVE h[k] = Step(h, k)
      <3>1. k # 0 => k - 1 \in 0 .. m /\ k - 1 # m
        OBVIOUS
      <3>2. k # 0 => h[k - 1] = f[k - 1]
        BY <3>1
      <3>3. Step(h, k) = Step(f, k)
        BY <3>2
      <3>4. k # m => k \in 0 .. m - 1
        OBVIOUS
      <3>5. k # m => f[k] = Step(f, k)
        BY <2>1, <3>4
      <3> QED BY <3>3, <3>5
    <2>3. h = [k \in 0 .. m |-> h[k]]
      OBVIOUS
    <2> HIDE DEF h, Step
    <2>4. Table(h, m)
      BY <2>2, <2>3
    <2> QED BY <2>4
  <1>3. Len(values) \in Good
    <2> HIDE DEF Good
    <2>1. \A m \in 1 .. Len(values) : m - 1 \in Good => m \in Good
      BY <1>2
    <2>2. \A m \in 0 .. Len(values) : m \in Good
      BY <1>1, <2>1, StepByStep
    <2> QED BY <2>2
  <1>4. PICK f : Table(f, Len(values))
    BY <1>3
  <1> DEFINE d == Joined(values)
  <1>5. Table(d, Len(values))
    BY <1>4 DEF Joined
  <1> HIDE DEF d
  <1>6. \A k \in 0 .. Len(values) : d[k] = Step(d, k)
    BY <1>5
  <1>7. d[0] = Step(d, 0) /\ \A k \in 1 .. Len(values) : d[k] = Step(d, k)
    BY <1>6
  <1> QED BY <1>7 DEF d

\* A sequence of atoms that Written allows and in which every comparison has an answer.
\* What the words of an expression come to, and when they are in a sound order.
AtomSet == {"yes", "no", "not", "and", "or"}

Grammatical(a) ==
  /\ a \in Seq(AtomSet) /\ a # <<>>
  /\ a[Len(a)] \in Answers /\ a[1] \notin {"and", "or"}
  /\ \A i \in 1 .. Len(a) - 1 :
       IF a[i] = "not" THEN a[i + 1] \in Answers
       ELSE a[i + 1] \in {"and", "or"} <=> a[i] \in Answers

\* What atom i adds to the stream.
ValueAt(a, i) == IF i > 1 /\ a[i - 1] = "not" THEN Negated(a[i]) ELSE a[i]

ValueSet == {"yes", "no", "and", "or"}

\* The stream v is what the first n atoms add; pos tells which atom a value is from.
StreamOf(a, n, v, pos) ==
  /\ pos \in [1 .. Len(v) -> 1 .. n]
  /\ \A j, k \in 1 .. Len(v) : j < k => pos[j] < pos[k]
  /\ \A i \in 1 .. n : a[i] # "not" => \E k \in 1 .. Len(v) : pos[k] = i
  /\ \A k \in 1 .. Len(v) : a[pos[k]] # "not" /\ v[k] = ValueAt(a, pos[k])

\* The stream after n atoms.
StreamFits(a, n, acc) ==
  /\ acc \in [values : Seq(ValueSet), negate : BOOLEAN, fault : {FALSE}]
  /\ acc.negate <=> n > 0 /\ a[n] = "not"
  /\ \E pos : StreamOf(a, n, acc.values, pos)

\* One more atom.
LEMMA StreamStep ==
  ASSUME NEW a, Grammatical(a), NEW n \in 1 .. Len(a), NEW acc, StreamFits(a, n - 1, acc)
  PROVE  StreamFits(a, n, Resolve(acc, a[n]))
  <1>1. a[n] \in AtomSet /\ Len(a) \in Nat
    BY DEF Grammatical
  <1>2. n > 1 /\ a[n - 1] = "not" => a[n] \in Answers
    <2> SUFFICES ASSUME n > 1, a[n - 1] = "not" PROVE a[n] \in Answers
      OBVIOUS
    <2>1. n - 1 \in 1 .. Len(a) - 1 /\ (n - 1) + 1 = n
      BY <1>1
    <2> QED BY <2>1 DEF Grammatical
  <1>3. /\ acc \in [values : Seq(ValueSet), negate : BOOLEAN, fault : {FALSE}]
        /\ acc.negate <=> n > 1 /\ a[n - 1] = "not"
    <2>1. n - 1 > 0 <=> n > 1
      BY <1>1
    <2> QED BY <2>1 DEF StreamFits
  <1>4. PICK v \in Seq(ValueSet) : v = acc.values
    BY <1>3
  <1>5. PICK pos : StreamOf(a, n - 1, v, pos)
    BY <1>4 DEF StreamFits
  <1>6. PICK len \in Nat : len = Len(v)
    OBVIOUS
  <1>7. CASE a[n] = "not"
    <2>1. ~acc.negate /\ Resolve(acc, a[n]) = [acc EXCEPT !.negate = TRUE]
      BY <1>2, <1>3, <1>7 DEF Resolve, Answers
    <2>2. PICK new : new = Resolve(acc, a[n])
      OBVIOUS
    <2>3. /\ new \in [values : Seq(ValueSet), negate : BOOLEAN, fault : {FALSE}]
          /\ new.negate = TRUE /\ new.values = v
      BY <1>3, <1>4, <2>1, <2>2
    <2>4. StreamOf(a, n, v, pos)
      <3>1. \A i \in 1 .. n : i # n => i \in 1 .. n - 1
        OBVIOUS
      <3>2. \A i \in 1 .. n - 1 : i \in 1 .. n
        OBVIOUS
      <3> QED BY <1>5, <1>7, <3>1, <3>2 DEF StreamOf
    <2>5. n > 0
      BY <1>1
    <2> QED BY <1>7, <2>2, <2>3, <2>4, <2>5 DEF StreamFits
  <1>8. CASE a[n] # "not"
    <2>1. PICK x : x = ValueAt(a, n)
      OBVIOUS
    <2>2. x \in ValueSet
      BY <1>1, <1>2, <1>8, <2>1 DEF ValueAt, ValueSet, AtomSet, Negated, Answers
    <2>3. Resolve(acc, a[n]) = [values |-> Append(v, x), negate |-> FALSE, fault |-> FALSE]
      BY <1>1, <1>2, <1>3, <1>4, <1>8, <2>1 DEF Resolve, AtomSet, Answers, ValueAt
    <2>4. PICK w : w = Append(v, x)
      OBVIOUS
    <2>5. /\ w \in Seq(ValueSet) /\ Len(w) = len + 1 /\ w[len + 1] = x
          /\ \A k \in 1 .. len : w[k] = v[k]
      BY <1>6, <2>2, <2>4
    <2> DEFINE more == [k \in 1 .. len + 1 |-> IF k = len + 1 THEN n ELSE pos[k]]
    <2>6. more \in [1 .. len + 1 -> 1 .. n] /\ more[len + 1] = n
          /\ \A k \in 1 .. len : more[k] = pos[k] /\ pos[k] \in 1 .. n - 1
      BY <1>5, <1>6 DEF StreamOf
    <2> HIDE DEF more
    <2>7. \A k \in 1 .. len + 1 : k = len + 1 \/ k \in 1 .. len
      OBVIOUS
    <2>8. \A j, k \in 1 .. len + 1 : j < k => more[j] < more[k]
      <3> SUFFICES ASSUME NEW j \in 1 .. len + 1, NEW k \in 1 .. len + 1, j < k
                   PROVE  more[j] < more[k]
        OBVIOUS
      <3>1. j \in 1 .. len
        OBVIOUS
      <3>2. CASE k = len + 1
        BY <2>6, <3>1, <3>2
      <3>3. CASE k \in 1 .. len
        BY <1>5, <1>6, <2>6, <3>1, <3>3 DEF StreamOf
      <3> QED BY <2>7, <3>2, <3>3
    <2>9. ASSUME NEW i \in 1 .. n, a[i] # "not" PROVE \E k \in 1 .. len + 1 : more[k] = i
      <3>1. CASE i = n
        BY <2>6, <3>1
      <3>2. CASE i # n
        <4>1. i \in 1 .. n - 1
          BY <3>2
        <4>2. PICK k \in 1 .. len : pos[k] = i
          BY <1>5, <1>6, <2>9, <4>1 DEF StreamOf
        <4> QED BY <2>6, <4>2
      <3> QED BY <3>1, <3>2
    <2>10. \A k \in 1 .. len + 1 : a[more[k]] # "not" /\ w[k] = ValueAt(a, more[k])
      <3> SUFFICES ASSUME NEW k \in 1 .. len + 1
                   PROVE  a[more[k]] # "not" /\ w[k] = ValueAt(a, more[k])
        OBVIOUS
      <3>1. CASE k = len + 1
        BY <1>8, <2>1, <2>5, <2>6, <3>1
      <3>2. CASE k \in 1 .. len
        BY <1>5, <1>6, <2>5, <2>6, <3>2 DEF StreamOf
      <3> QED BY <2>7, <3>1, <3>2
    <2>11. StreamOf(a, n, w, more)
      BY <2>5, <2>6, <2>8, <2>9, <2>10 DEF StreamOf
    <2> QED BY <1>8, <2>3, <2>4, <2>5, <2>11 DEF StreamFits
  <1> QED BY <1>7, <1>8

\* The stream of an expression that is grammatical.
LEMMA StreamSound ==
  ASSUME NEW a, Grammatical(a)
  PROVE  /\ ~ValueStream(a).fault /\ ValueStream(a).values \in Seq(ValueSet)
         /\ \E pos : StreamOf(a, Len(a), ValueStream(a).values, pos)
  <1>1. Len(a) \in Nat /\ Len(a) > 0 /\ a[Len(a)] # "not"
    BY DEF Grammatical, Answers
  <1> DEFINE S == {n \in 0 .. Len(a) : StreamFits(a, n, Streamed(a)[n])}
  <1>2. 0 \in S
    <2>1. PICK start : start = [values |-> <<>>, negate |-> FALSE, fault |-> FALSE]
      OBVIOUS
    <2>2. start.values = <<>> /\ ~start.negate
          /\ start \in [values : Seq(ValueSet), negate : BOOLEAN, fault : {FALSE}]
      BY <2>1
    <2>3. StreamOf(a, 0, <<>>, <<>>)
      BY DEF StreamOf
    <2>4. StreamFits(a, 0, start)
      <3>1. \E pos : StreamOf(a, 0, start.values, pos)
        BY <2>2, <2>3
      <3>2. ~(0 > 0)
        OBVIOUS
      <3> QED BY <2>2, <3>1, <3>2 DEF StreamFits
    <2> QED BY <1>1, <2>1, <2>4, StreamedIs
  <1>3. \A n \in 1 .. Len(a) : n - 1 \in S => n \in S
    BY <1>1, StreamedIs, StreamStep
  <1>4. Len(a) \in S
    <2> HIDE DEF S
    <2>1. \A n \in 0 .. Len(a) : n \in S
      BY <1>1, <1>2, <1>3, StepByStep
    <2> QED BY <1>1, <2>1
  <1>5. PICK acc : acc = Streamed(a)[Len(a)]
    OBVIOUS
  <1>6. StreamFits(a, Len(a), acc)
    BY <1>4, <1>5
  <1>7. ValueStream(a) = [values |-> acc.values, fault |-> acc.fault \/ acc.negate]
    BY <1>5 DEF ValueStream
  <1>8. ~acc.negate /\ ~acc.fault /\ acc.values \in Seq(ValueSet)
    BY <1>1, <1>6 DEF StreamFits
  <1> QED BY <1>6, <1>7, <1>8 DEF StreamFits

\* A stream alternates between answers and connectors.
Connected(v) ==
  /\ v \in Seq(ValueSet) /\ v # <<>> /\ v[1] \in Answers /\ v[Len(v)] \in Answers
  /\ \A k \in 1 .. Len(v) - 1 : v[k] \in Answers <=> v[k + 1] \notin Answers

\* The stream of a sound expression is connected.
LEMMA StreamAlternates ==
  ASSUME NEW a, Grammatical(a), NEW v \in Seq(ValueSet), NEW pos, StreamOf(a, Len(a), v, pos)
  PROVE  Connected(v)
  <1>1. Len(a) \in Nat /\ Len(a) > 0 /\ Len(v) \in Nat
        /\ \A i \in 1 .. Len(a) : a[i] \in AtomSet
    BY DEF Grammatical
  <1>2. \A i \in 1 .. Len(a) - 1 :
          IF a[i] = "not" THEN a[i + 1] \in Answers
          ELSE a[i + 1] \in {"and", "or"} <=> a[i] \in Answers
    BY DEF Grammatical
  <1>3. /\ \A k \in 1 .. Len(v) : pos[k] \in 1 .. Len(a)
        /\ \A j, k \in 1 .. Len(v) : j < k => pos[j] < pos[k]
        /\ \A i \in 1 .. Len(a) : a[i] # "not" => \E k \in 1 .. Len(v) : pos[k] = i
        /\ \A k \in 1 .. Len(v) : a[pos[k]] # "not" /\ v[k] = ValueAt(a, pos[k])
    BY DEF StreamOf
  <1>4. ASSUME NEW k \in 1 .. Len(v) PROVE v[k] \in Answers <=> a[pos[k]] \in Answers
    <2>1. PICK i \in 1 .. Len(a) : i = pos[k]
      BY <1>3
    <2>2. i > 1 /\ a[i - 1] = "not" => a[i] \in Answers
      <3> SUFFICES ASSUME i > 1, a[i - 1] = "not" PROVE a[i] \in Answers
        OBVIOUS
      <3>1. i - 1 \in 1 .. Len(a) - 1 /\ (i - 1) + 1 = i
        BY <1>1
      <3> QED BY <1>2, <3>1
    <2>3. v[k] = ValueAt(a, i)
      BY <1>3, <2>1
    <2> QED BY <2>1, <2>2, <2>3 DEF ValueAt, Negated, Answers
  <1>5. \A j, k \in 1 .. Len(v) : pos[j] < pos[k] => j < k
    BY <1>3
  <1>6. \E k \in 1 .. Len(v) : pos[k] = Len(a)
    <2>1. a[Len(a)] # "not"
      BY DEF Grammatical, Answers
    <2>2. Len(a) \in 1 .. Len(a)
      BY <1>1
    <2> QED BY <1>3, <2>1, <2>2
  <1>7. Len(v) > 0 /\ v # <<>> /\ pos[Len(v)] = Len(a)
    <2>1. PICK k \in 1 .. Len(v) : pos[k] = Len(a)
      BY <1>6
    <2>2. Len(v) \in 1 .. Len(v) /\ pos[Len(v)] \in 1 .. Len(a)
      BY <1>1, <1>3, <2>1
    <2>3. ~(k < Len(v))
      BY <1>1, <1>3, <2>1, <2>2
    <2>4. k = Len(v)
      BY <1>1, <2>3
    <2> QED BY <1>1, <2>1, <2>4
  <1>8. v[Len(v)] \in Answers
    BY <1>1, <1>4, <1>7 DEF Grammatical
  <1>9. v[1] \in Answers
    <2>1. 1 \in 1 .. Len(v) /\ 1 \in 1 .. Len(a)
      BY <1>1, <1>7
    <2>2. CASE a[1] # "not"
      <3>1. PICK k \in 1 .. Len(v) : pos[k] = 1
        BY <1>3, <2>1, <2>2
      <3>2. ~(1 < k)
        BY <1>1, <1>3, <2>1, <3>1
      <3>3. pos[1] = 1
        BY <3>1, <3>2
      <3> QED BY <1>1, <1>4, <2>1, <2>2, <3>3 DEF Grammatical, Answers, AtomSet
    <2>3. CASE a[1] = "not"
      <3>1. 1 # Len(a) /\ 1 \in 1 .. Len(a) - 1 /\ 2 \in 1 .. Len(a)
        BY <1>1, <2>3 DEF Grammatical, Answers
      <3>2. a[2] \in Answers /\ a[2] # "not"
        BY <1>2, <2>3, <3>1 DEF Answers
      <3>3. PICK k \in 1 .. Len(v) : pos[k] = 2
        BY <1>3, <3>1, <3>2
      <3>4. pos[1] # 1 /\ pos[1] \in 1 .. Len(a)
        BY <1>3, <2>1, <2>3
      <3>5. ~(1 < k)
        BY <1>1, <1>3, <2>1, <3>3, <3>4
      <3>6. pos[1] = 2
        BY <3>3, <3>5
      <3> QED BY <1>4, <2>1, <3>2, <3>6
    <2> QED BY <2>2, <2>3
  <1>10. ASSUME NEW k \in 1 .. Len(v) - 1 PROVE v[k] \in Answers <=> v[k + 1] \notin Answers
    <2>1. k \in 1 .. Len(v) /\ k + 1 \in 1 .. Len(v)
      BY <1>1
    <2>2. PICK i \in 1 .. Len(a) : i = pos[k]
      BY <1>3, <2>1
    <2>3. PICK j \in 1 .. Len(a) : j = pos[k + 1]
      BY <1>3, <2>1
    <2>4. i < j /\ i \in 1 .. Len(a) - 1 /\ i + 1 \in 1 .. Len(a)
      BY <1>1, <1>3, <2>1, <2>2, <2>3
    <2>5. ASSUME NEW h \in 1 .. Len(a), i < h, h < j PROVE a[h] = "not"
      <3> SUFFICES ASSUME a[h] # "not" PROVE FALSE
        OBVIOUS
      <3>1. PICK l \in 1 .. Len(v) : pos[l] = h
        BY <1>3, <2>5
      <3>2. k < l /\ l < k + 1
        BY <1>5, <2>1, <2>2, <2>3, <2>5, <3>1
      <3> QED BY <2>1, <3>2
    <2>6. a[i] # "not" /\ a[j] # "not"
      BY <1>3, <2>1, <2>2, <2>3
    <2>7. a[i + 1] \in {"and", "or"} <=> a[i] \in Answers
      BY <1>2, <2>4, <2>6
    <2>8. CASE j = i + 1
      <3>1. a[j] \in AtomSet
        BY <1>1
      <3> QED BY <1>4, <2>1, <2>2, <2>3, <2>6, <2>7, <2>8, <3>1 DEF Answers, AtomSet
    <2>9. CASE j # i + 1
      <3>1. a[i + 1] = "not" /\ i + 1 \in 1 .. Len(a) - 1 /\ (i + 1) + 1 \in 1 .. Len(a)
        BY <1>1, <2>4, <2>5, <2>9
      <3>2. a[(i + 1) + 1] \in Answers
        BY <1>2, <3>1
      <3>3. j = (i + 1) + 1
        BY <2>4, <2>5, <2>9, <3>1, <3>2 DEF Answers
      <3> QED BY <1>4, <2>1, <2>2, <2>3, <2>7, <3>1, <3>2, <3>3 DEF Answers
    <2> QED BY <2>8, <2>9
  <1> QED BY <1>7, <1>8, <1>9, <1>10 DEF Connected

\* The list that the fold of `and` builds from the first n values: grp tells which
\* member a value has gone to.
ListOf(v, n, list, grp) ==
  /\ list \in Seq({"yes", "no", "or"})
  /\ grp \in [1 .. n -> 1 .. Len(list)]
  /\ n > 0 => grp[1] = 1 /\ grp[n] = Len(list)
  /\ \A i \in 1 .. n - 1 : grp[i + 1] = grp[i] \/ grp[i + 1] = grp[i] + 1
  /\ \A m \in 1 .. Len(list) : \E i \in 1 .. n : grp[i] = m
  /\ \A i \in 1 .. n : v[i] = "or" <=> list[grp[i]] = "or"
  /\ \A m \in 1 .. Len(list) - 1 : list[m] = "or" <=> list[m + 1] # "or"
  /\ \A m \in 1 .. Len(list) :
       list[m] = "yes" <=> \A i \in 1 .. n : grp[i] = m => v[i] \in {"yes", "and"}

\* The list after n values.
JoinFits(v, n, acc) ==
  /\ acc \in [list : Seq({"yes", "no", "or"}), join : BOOLEAN, fault : {FALSE}]
  /\ acc.join <=> n > 0 /\ v[n] = "and"
  /\ \E grp : ListOf(v, n, acc.list, grp)

\* A value that goes to the last member of the list, which may change with it.
LEMMA ListKept ==
  ASSUME NEW v, NEW n \in Nat, n > 1, NEW list, NEW grp, ListOf(v, n - 1, list, grp),
         NEW new \in Seq({"yes", "no", "or"}), Len(new) = Len(list),
         \A m \in 1 .. Len(list) - 1 : new[m] = list[m],
         list[Len(list)] # "or", new[Len(list)] # "or", v[n] # "or",
         new[Len(list)] = "yes" <=> list[Len(list)] = "yes" /\ v[n] \in {"yes", "and"}
  PROVE  \E g : ListOf(v, n, new, g)
  <1>1. PICK len \in Nat : len = Len(list)
    BY DEF ListOf
  <1> DEFINE g == [i \in 1 .. n |-> IF i = n THEN len ELSE grp[i]]
  <1>2. /\ grp \in [1 .. n - 1 -> 1 .. len] /\ grp[1] = 1 /\ grp[n - 1] = len
        /\ \A m \in 1 .. len : \E i \in 1 .. n - 1 : grp[i] = m
        /\ \A i \in 1 .. n - 1 : v[i] = "or" <=> list[grp[i]] = "or"
    BY <1>1 DEF ListOf
  <1>3. len > 0 /\ n - 1 \in 1 .. n - 1 /\ len \in 1 .. len
    BY <1>1, <1>2
  <1>4. g \in [1 .. n -> 1 .. len] /\ g[n] = len /\ \A i \in 1 .. n - 1 : g[i] = grp[i]
    BY <1>2, <1>3
  <1> HIDE DEF g
  <1>5. g[1] = 1
    BY <1>2, <1>4
  <1>6. \A i \in 1 .. n : i = n \/ i \in 1 .. n - 1
    OBVIOUS
  <1>7. ASSUME NEW i \in 1 .. n - 1 PROVE g[i + 1] = g[i] \/ g[i + 1] = g[i] + 1
    <2>1. CASE i = n - 1
      BY <1>2, <1>4, <2>1
    <2>2. CASE i # n - 1
      <3>1. i \in 1 .. (n - 1) - 1 /\ i + 1 \in 1 .. n - 1
        BY <2>2
      <3>2. grp[i + 1] = grp[i] \/ grp[i + 1] = grp[i] + 1
        BY <3>1 DEF ListOf
      <3> QED BY <1>4, <3>1, <3>2
    <2> QED BY <2>1, <2>2
  <1>8. \A m \in 1 .. len : \E i \in 1 .. n : g[i] = m
    <2>1. \A i \in 1 .. n - 1 : i \in 1 .. n
      OBVIOUS
    <2> QED BY <1>2, <1>4, <2>1
  <1>9. \A m \in 1 .. len : m = len \/ m \in 1 .. len - 1
    OBVIOUS
  <1>10. \A m \in 1 .. len : list[m] = "or" <=> new[m] = "or"
    BY <1>1, <1>9
  <1>11. \A i \in 1 .. n : v[i] = "or" <=> new[g[i]] = "or"
    BY <1>1, <1>2, <1>3, <1>4, <1>6, <1>10
  <1>12. \A m \in 1 .. len - 1 : new[m] = "or" <=> new[m + 1] # "or"
    <2>1. \A m \in 1 .. len - 1 : m \in 1 .. len /\ m + 1 \in 1 .. len
      BY <1>1
    <2>2. \A m \in 1 .. len - 1 : list[m] = "or" <=> list[m + 1] # "or"
      BY <1>1 DEF ListOf
    <2> QED BY <1>10, <2>1, <2>2
  <1>13. ASSUME NEW m \in 1 .. len
         PROVE  new[m] = "yes" <=> \A i \in 1 .. n : g[i] = m => v[i] \in {"yes", "and"}
    <2>1. list[m] = "yes" <=> \A i \in 1 .. n - 1 : grp[i] = m => v[i] \in {"yes", "and"}
      BY <1>1 DEF ListOf
    <2>2. \A i \in 1 .. n - 1 : i \in 1 .. n
      OBVIOUS
    <2>3. CASE m = len
      <3>1. new[m] = "yes" <=> list[m] = "yes" /\ v[n] \in {"yes", "and"}
        BY <1>1, <2>3
      <3>2. n \in 1 .. n
        OBVIOUS
      <3> QED BY <1>4, <1>6, <2>1, <2>2, <2>3, <3>1, <3>2
    <2>4. CASE m # len
      <3>1. new[m] = list[m]
        BY <1>1, <1>9, <2>4
      <3> QED BY <1>4, <1>6, <2>1, <2>2, <2>4, <3>1
    <2> QED BY <2>3, <2>4
  <1>14. ListOf(v, n, new, g)
    BY <1>1, <1>4, <1>5, <1>7, <1>8, <1>11, <1>12, <1>13 DEF ListOf
  <1> QED BY <1>14

\* A value that becomes a member of its own.
LEMMA ListGrown ==
  ASSUME NEW v, NEW n \in Nat, n > 0, NEW list, NEW grp, ListOf(v, n - 1, list, grp),
         v[n] \in {"yes", "no", "or"},
         IF list = <<>> THEN n = 1 ELSE list[Len(list)] = "or" <=> v[n] # "or"
  PROVE  \E g : ListOf(v, n, Append(list, v[n]), g)
  <1>1. PICK len \in Nat : len = Len(list)
    BY DEF ListOf
  <1>2. list \in Seq({"yes", "no", "or"}) /\ (len = 0 <=> list = <<>>)
    BY <1>1 DEF ListOf
  <1>3. PICK new : new = Append(list, v[n])
    OBVIOUS
  <1>4. /\ new \in Seq({"yes", "no", "or"}) /\ Len(new) = len + 1 /\ new[len + 1] = v[n]
        /\ \A m \in 1 .. len : new[m] = list[m]
    BY <1>1, <1>2, <1>3
  <1> DEFINE g == [i \in 1 .. n |-> IF i = n THEN len + 1 ELSE grp[i]]
  <1>5. /\ grp \in [1 .. n - 1 -> 1 .. len]
        /\ \A m \in 1 .. len : \E i \in 1 .. n - 1 : grp[i] = m
        /\ \A i \in 1 .. n - 1 : v[i] = "or" <=> list[grp[i]] = "or"
        /\ n > 1 => grp[1] = 1 /\ grp[n - 1] = len
    <2>1. n - 1 > 0 <=> n > 1
      OBVIOUS
    <2> QED BY <1>1, <2>1 DEF ListOf
  <1>6. n = 1 => len = 0
    BY <1>5
  <1>7. g \in [1 .. n -> 1 .. len + 1] /\ g[n] = len + 1
        /\ \A i \in 1 .. n - 1 : g[i] = grp[i] /\ grp[i] \in 1 .. len
    BY <1>5
  <1> HIDE DEF g
  <1>8. g[1] = 1
    BY <1>5, <1>6, <1>7
  <1>9. \A i \in 1 .. n : i = n \/ i \in 1 .. n - 1
    OBVIOUS
  <1>10. ASSUME NEW i \in 1 .. n - 1 PROVE g[i + 1] = g[i] \/ g[i + 1] = g[i] + 1
    <2>1. CASE i = n - 1
      <3>1. n > 1 /\ i + 1 = n
        BY <2>1
      <3> QED BY <1>5, <1>7, <2>1, <3>1
    <2>2. CASE i # n - 1
      <3>1. i \in 1 .. (n - 1) - 1 /\ i + 1 \in 1 .. n - 1
        BY <2>2
      <3>2. grp[i + 1] = grp[i] \/ grp[i + 1] = grp[i] + 1
        BY <3>1 DEF ListOf
      <3> QED BY <1>7, <3>1, <3>2
    <2> QED BY <2>1, <2>2
  <1>11. \A m \in 1 .. len + 1 : m = len + 1 \/ m \in 1 .. len
    OBVIOUS
  <1>12. \A m \in 1 .. len + 1 : \E i \in 1 .. n : g[i] = m
    <2>1. \A i \in 1 .. n - 1 : i \in 1 .. n
      OBVIOUS
    <2>2. n \in 1 .. n
      OBVIOUS
    <2> QED BY <1>5, <1>7, <1>11, <2>1, <2>2
  <1>13. ASSUME NEW i \in 1 .. n PROVE v[i] = "or" <=> new[g[i]] = "or"
    <2>1. CASE i = n
      BY <1>4, <1>7, <2>1
    <2>2. CASE i \in 1 .. n - 1
      <3>1. new[grp[i]] = list[grp[i]]
        BY <1>4, <1>7, <2>2
      <3> QED BY <1>5, <1>7, <2>2, <3>1
    <2> QED BY <1>9, <2>1, <2>2
  <1>14. ASSUME NEW m \in 1 .. len PROVE new[m] = "or" <=> new[m + 1] # "or"
    <2>1. CASE m = len
      <3>1. list # <<>> /\ n # 1
        BY <1>2, <1>6, <2>1
      <3> QED BY <1>1, <1>4, <2>1, <3>1
    <2>2. CASE m # len
      <3>1. m \in 1 .. len - 1 /\ m + 1 \in 1 .. len
        BY <2>2
      <3>2. list[m] = "or" <=> list[m + 1] # "or"
        BY <1>1, <3>1 DEF ListOf
      <3> QED BY <1>4, <3>1, <3>2
    <2> QED BY <2>1, <2>2
  <1>15. ASSUME NEW m \in 1 .. len + 1
         PROVE  new[m] = "yes" <=> \A i \in 1 .. n : g[i] = m => v[i] \in {"yes", "and"}
    <2>1. \A i \in 1 .. n - 1 : i \in 1 .. n
      OBVIOUS
    <2>2. CASE m = len + 1
      <3>1. \A i \in 1 .. n - 1 : g[i] # m
        BY <1>7, <2>2
      <3>2. n \in 1 .. n /\ g[n] = m
        BY <1>7, <2>2
      <3> QED BY <1>4, <1>9, <2>2, <3>1, <3>2
    <2>3. CASE m # len + 1
      <3>1. m \in 1 .. len
        BY <2>3
      <3>2. list[m] = "yes" <=> \A i \in 1 .. n - 1 : grp[i] = m => v[i] \in {"yes", "and"}
        BY <1>1, <3>1 DEF ListOf
      <3> QED BY <1>4, <1>7, <1>9, <2>1, <2>3, <3>1, <3>2
    <2> QED BY <2>2, <2>3
  <1>16. \A m \in 1 .. (len + 1) - 1 : m \in 1 .. len
    OBVIOUS
  <1>17. ListOf(v, n, new, g)
    BY <1>4, <1>7, <1>8, <1>10, <1>12, <1>13, <1>14, <1>15, <1>16 DEF ListOf
  <1> QED BY <1>3, <1>17

\* One more value.
LEMMA JoinStep ==
  ASSUME NEW v, Connected(v), NEW n \in 1 .. Len(v), NEW acc, JoinFits(v, n - 1, acc)
  PROVE  JoinFits(v, n, Join(acc, v[n]))
  <1>1. /\ Len(v) \in Nat /\ n \in Nat /\ n > 0 /\ v[n] \in ValueSet /\ v[1] \in Answers
        /\ n > 1 => n - 1 \in Nat /\ v[n - 1] \in ValueSet
        /\ n > 1 => (v[n - 1] \in Answers <=> v[n] \notin Answers)
    <2>1. n > 1 => n - 1 \in 1 .. Len(v) - 1 /\ (n - 1) + 1 = n
      BY DEF Connected
    <2> QED BY <2>1 DEF Connected
  <1>2. /\ acc \in [list : Seq({"yes", "no", "or"}), join : BOOLEAN, fault : {FALSE}]
        /\ acc.join <=> n > 1 /\ v[n - 1] = "and"
    <2>1. n - 1 > 0 <=> n > 1
      BY <1>1
    <2> QED BY <2>1 DEF JoinFits
  <1>3. PICK list \in Seq({"yes", "no", "or"}) : list = acc.list
    BY <1>2
  <1>4. PICK grp : ListOf(v, n - 1, list, grp)
    BY <1>3 DEF JoinFits
  <1>5. IF n = 1 THEN list = <<>>
        ELSE list # <<>> /\ (list[Len(list)] = "or" <=> v[n - 1] = "or")
    <2>1. CASE n = 1
      <3>1. n - 1 = 0
        BY <2>1
      <3>2. \A m \in 1 .. Len(list) : \E i \in 1 .. 0 : grp[i] = m
        BY <1>4, <3>1 DEF ListOf
      <3> QED BY <2>1, <3>2
    <2>2. CASE n # 1
      <3>1. n - 1 > 0 /\ n - 1 \in 1 .. n - 1
        BY <1>1, <2>2
      <3>2. grp[n - 1] = Len(list) /\ grp[n - 1] \in 1 .. Len(list)
            /\ (v[n - 1] = "or" <=> list[grp[n - 1]] = "or")
        BY <1>4, <3>1 DEF ListOf
      <3> QED BY <2>2, <3>2
    <2> QED BY <2>1, <2>2
  <1>6. PICK new : new = Join(acc, v[n])
    OBVIOUS
  <1>7. CASE acc.join
    <2>1. n > 1 /\ v[n - 1] = "and" /\ v[n] \in Answers
      BY <1>1, <1>2, <1>7 DEF Answers
    <2>2. PICK len \in Nat : len = Len(list) /\ len > 0
      BY <1>5, <2>1
    <2>3. PICK y : y = Answer(Truthy(list[len]) /\ Truthy(v[n]))
      OBVIOUS
    <2>4. PICK l : l = Append(Front(list), y)
      OBVIOUS
    <2>5. new = [acc EXCEPT !.join = FALSE, !.list = l]
      BY <1>2, <1>3, <1>6, <1>7, <2>2, <2>3, <2>4 DEF Join, Last
    <2>6. new \in [list : {l}, join : {FALSE}, fault : {FALSE}]
      BY <1>2, <2>5
    <2>7. y \in Answers /\ list[len] \in Answers
      BY <1>5, <2>1, <2>2, <2>3 DEF Answer, Answers
    <2>8. y = "yes" <=> list[len] = "yes" /\ v[n] \in {"yes", "and"}
      BY <2>1, <2>3, <2>7 DEF Answer, Answers, Truthy
    <2>9. /\ l \in Seq({"yes", "no", "or"}) /\ Len(l) = len /\ l[len] = y
          /\ \A m \in 1 .. len - 1 : l[m] = list[m]
      <3>1. PICK f : f = Front(list)
        OBVIOUS
      <3>2. f \in Seq({"yes", "no", "or"}) /\ Len(f) = len - 1
            /\ \A m \in 1 .. len - 1 : f[m] = list[m]
        BY <2>2, <3>1 DEF Front
      <3> QED BY <2>2, <2>4, <2>7, <3>1, <3>2 DEF Answers
    <2>10. \E g : ListOf(v, n, l, g)
      BY <1>1, <1>4, <2>1, <2>2, <2>7, <2>8, <2>9, ListKept DEF Answers
    <2>11. v[n] # "and"
      BY <2>1 DEF Answers
    <2> QED BY <1>6, <2>6, <2>9, <2>10, <2>11 DEF JoinFits
  <1>8. CASE ~acc.join /\ v[n] = "and"
    <2>1. n > 1 /\ v[n - 1] \in Answers /\ list # <<>> /\ list[Len(list)] # "or"
      BY <1>1, <1>5, <1>8 DEF Answers
    <2>2. new = [acc EXCEPT !.join = TRUE, !.fault = FALSE]
      BY <1>2, <1>3, <1>6, <1>8, <2>1 DEF Join
    <2>3. new \in [list : {list}, join : {TRUE}, fault : {FALSE}]
      BY <1>2, <1>3, <2>2
    <2>4. \E g : ListOf(v, n, list, g)
      BY <1>1, <1>4, <1>8, <2>1, ListKept
    <2> QED BY <1>1, <1>6, <1>8, <2>3, <2>4 DEF JoinFits
  <1>9. CASE ~acc.join /\ v[n] # "and"
    <2>1. PICK l : l = Append(list, v[n])
      OBVIOUS
    <2>2. new = [acc EXCEPT !.list = l]
      BY <1>2, <1>3, <1>6, <1>9, <2>1 DEF Join
    <2>3. v[n] \in {"yes", "no", "or"} /\ l \in Seq({"yes", "no", "or"})
      BY <1>1, <1>9, <2>1 DEF ValueSet
    <2>4. new \in [list : {l}, join : {FALSE}, fault : {FALSE}]
      BY <1>2, <1>9, <2>2
    <2>5. IF list = <<>> THEN n = 1 ELSE list[Len(list)] = "or" <=> v[n] # "or"
      BY <1>1, <1>2, <1>5, <1>9 DEF Answers, ValueSet
    <2>6. \E g : ListOf(v, n, l, g)
      BY <1>1, <1>4, <2>1, <2>3, <2>5, ListGrown
    <2> QED BY <1>6, <1>9, <2>3, <2>4, <2>6 DEF JoinFits
  <1> QED BY <1>7, <1>8, <1>9

\* The fold of `and` finds a value on both sides.
LEMMA AndSound ==
  ASSUME NEW v, Connected(v)
  PROVE  ~FoldAnd(v).fault /\ \E grp : ListOf(v, Len(v), FoldAnd(v).list, grp)
  <1>1. Len(v) \in Nat /\ Len(v) > 0 /\ v[Len(v)] # "and"
    BY DEF Connected, Answers
  <1> DEFINE S == {n \in 0 .. Len(v) : JoinFits(v, n, Joined(v)[n])}
  <1>2. 0 \in S
    <2>1. PICK start : start = [list |-> <<>>, join |-> FALSE, fault |-> FALSE]
      OBVIOUS
    <2>2. start.list = <<>> /\ ~start.join
          /\ start \in [list : Seq({"yes", "no", "or"}), join : BOOLEAN, fault : {FALSE}]
      BY <2>1
    <2>3. ListOf(v, 0, <<>>, <<>>)
      BY DEF ListOf
    <2>4. JoinFits(v, 0, start)
      <3>1. \E grp : ListOf(v, 0, start.list, grp)
        BY <2>2, <2>3
      <3>2. ~(0 > 0)
        OBVIOUS
      <3> QED BY <2>2, <3>1, <3>2 DEF JoinFits
    <2> QED BY <1>1, <2>1, <2>4, JoinedIs
  <1>3. \A n \in 1 .. Len(v) : n - 1 \in S => n \in S
    BY <1>1, JoinedIs, JoinStep
  <1>4. Len(v) \in S
    <2> HIDE DEF S
    <2>1. \A n \in 0 .. Len(v) : n \in S
      BY <1>1, <1>2, <1>3, StepByStep
    <2> QED BY <1>1, <2>1
  <1>5. PICK acc : acc = Joined(v)[Len(v)]
    OBVIOUS
  <1>6. JoinFits(v, Len(v), acc)
    BY <1>4, <1>5
  <1>7. FoldAnd(v) = [list |-> acc.list, fault |-> acc.fault \/ acc.join]
    BY <1>5 DEF FoldAnd
  <1>8. ~acc.join /\ ~acc.fault
    BY <1>1, <1>6 DEF JoinFits
  <1> QED BY <1>6, <1>7, <1>8 DEF JoinFits

\* The fold of `or` is whether any member of the list is "yes".
LEMMA OrSound ==
  ASSUME NEW v, Connected(v), NEW list, NEW grp, ListOf(v, Len(v), list, grp)
  PROVE  FoldOr(list) = Answer(\E m \in 1 .. Len(list) : list[m] = "yes")
  <1>1. PICK len \in Nat : len = Len(list)
    BY DEF ListOf
  <1>2. /\ list \in Seq({"yes", "no", "or"}) /\ Len(v) \in 1 .. Len(v) /\ 1 \in 1 .. Len(v)
        /\ grp[1] = 1 /\ grp[Len(v)] = len
        /\ grp[1] \in 1 .. len /\ grp[Len(v)] \in 1 .. len
    <2>1. Len(v) \in Nat /\ Len(v) > 0
      BY DEF Connected
    <2> QED BY <1>1, <2>1 DEF ListOf
  <1>3. list[1] # "or" /\ list[len] # "or"
    BY <1>1, <1>2 DEF ListOf, Connected, Answers
  <1>4. \A m \in 1 .. len - 1 : list[m] = "or" <=> list[m + 1] # "or"
    BY <1>1 DEF ListOf
  <1> DEFINE S == {k \in 0 .. len - 1 : list[k + 1] = "or" <=> (k + 1) % 2 = 0}
  <1>5. 0 \in S
    BY <1>2, <1>3
  <1>6. ASSUME NEW k \in 1 .. len - 1, k - 1 \in S PROVE k \in S
    <2>1. list[k] = "or" <=> k % 2 = 0
      <3>1. (k - 1) + 1 = k
        OBVIOUS
      <3> QED BY <1>6, <3>1
    <2>2. (k + 1) % 2 = 0 <=> k % 2 # 0
      OBVIOUS
    <2> QED BY <1>4, <2>1, <2>2
  <1>7. \A k \in 1 .. len : list[k] = "or" <=> k % 2 = 0
    <2> SUFFICES ASSUME NEW k \in 1 .. len PROVE list[k] = "or" <=> k % 2 = 0
      OBVIOUS
    <2>1. len - 1 \in Nat /\ k - 1 \in 0 .. len - 1 /\ (k - 1) + 1 = k
      OBVIOUS
    <2>2. k - 1 \in S
      <3> HIDE DEF S
      <3>1. \A n \in 0 .. len - 1 : n \in S
        BY <1>5, <1>6, <2>1, StepByStep
      <3> QED BY <2>1, <3>1
    <2> QED BY <2>1, <2>2
  <1>8. DOMAIN list = 1 .. len /\ \A k \in 1 .. len : list[k] \in {"yes", "no", "or"}
    BY <1>1, <1>2
  <1> DEFINE C == {k \in DOMAIN list : k % 2 = 0}
  <1>9. \A k \in 1 .. len : k \in C <=> list[k] = "or"
    BY <1>7, <1>8
  <1>10. ~\E k \in C : k < Len(list) /\ list[k] # "or"
    BY <1>8, <1>9
  <1>11. Len(list) \notin C
    BY <1>1, <1>2, <1>3, <1>9
  <1>12. (\E k \in DOMAIN list \ C : Truthy(list[k])) <=> \E m \in 1 .. len : list[m] = "yes"
    BY <1>8, <1>9 DEF Truthy
  <1>13. FoldOr(list) = Answer(\E k \in DOMAIN list \ C : Truthy(list[k]))
    BY <1>10, <1>11 DEF FoldOr
  <1> HIDE DEF C
  <1> QED BY <1>1, <1>12, <1>13 DEF Answer

\* A group of values: what is between two `or`, all of it "yes".
ValuesHold(v) ==
  \E a, b \in 1 .. Len(v) :
    /\ a = 1 \/ v[a - 1] = "or"
    /\ b = Len(v) \/ v[b + 1] = "or"
    /\ a <= b /\ \A i \in a .. b : v[i] \in {"yes", "and"}

\* A member does not come after those of a later value.
LEMMA GroupsInOrder ==
  ASSUME NEW v, NEW n \in Nat, NEW list, NEW grp, ListOf(v, n, list, grp),
         NEW i \in 1 .. n, NEW j \in 1 .. n, i <= j
  PROVE  grp[i] <= grp[j]
  <1> DEFINE S == {d \in 0 .. j - i : grp[i] <= grp[i + d]}
  <1>1. /\ \A k \in 1 .. n : grp[k] \in Nat
        /\ \A k \in 1 .. n - 1 : grp[k + 1] = grp[k] \/ grp[k + 1] = grp[k] + 1
    BY DEF ListOf
  <1>2. 0 \in S
    BY <1>1
  <1>3. ASSUME NEW d \in 1 .. j - i, d - 1 \in S PROVE d \in S
    <2>1. i + (d - 1) \in 1 .. n - 1 /\ (i + (d - 1)) + 1 = i + d /\ i + d \in 1 .. n
      OBVIOUS
    <2> QED BY <1>1, <1>3, <2>1
  <1>4. j - i \in Nat
    OBVIOUS
  <1>5. j - i \in S
    <2> HIDE DEF S
    <2>1. \A d \in 0 .. j - i : d \in S
      BY <1>2, <1>3, <1>4, StepByStep
    <2> QED BY <1>4, <2>1
  <1>6. i + (j - i) = j
    OBVIOUS
  <1> QED BY <1>5, <1>6

\* A member of the list is "yes" where a group of values is.
LEMMA ListHolds ==
  ASSUME NEW v, Connected(v), NEW list, NEW grp, ListOf(v, Len(v), list, grp)
  PROVE  ValuesHold(v) <=> \E m \in 1 .. Len(list) : list[m] = "yes"
  <1>1. PICK n \in Nat : n = Len(v) /\ n > 0
    BY DEF Connected
  <1>2. /\ \A i \in 1 .. n : grp[i] \in 1 .. Len(list)
        /\ grp[1] = 1 /\ grp[n] = Len(list) /\ Len(list) \in Nat
        /\ \A i \in 1 .. n - 1 : grp[i + 1] = grp[i] \/ grp[i + 1] = grp[i] + 1
        /\ \A m \in 1 .. Len(list) : \E i \in 1 .. n : grp[i] = m
        /\ \A i \in 1 .. n : v[i] = "or" <=> list[grp[i]] = "or"
        /\ \A m \in 1 .. Len(list) - 1 : list[m] = "or" <=> list[m + 1] # "or"
        /\ \A m \in 1 .. Len(list) :
             list[m] = "yes" <=> \A i \in 1 .. n : grp[i] = m => v[i] \in {"yes", "and"}
    <2>1. ListOf(v, n, list, grp)
      BY <1>1
    <2>2. /\ grp[1] = 1 /\ grp[n] = Len(list) /\ Len(list) \in Nat
          /\ \A i \in 1 .. n : grp[i] \in 1 .. Len(list)
      <3>1. /\ n > 0 => grp[1] = 1 /\ grp[n] = Len(list)
            /\ list \in Seq({"yes", "no", "or"}) /\ grp \in [1 .. n -> 1 .. Len(list)]
        BY <2>1 DEF ListOf
      <3> QED BY <1>1, <3>1
    <2>3. \A m \in 1 .. Len(list) :
            list[m] = "yes" <=> \A i \in 1 .. n : grp[i] = m => v[i] \in {"yes", "and"}
      BY <2>1 DEF ListOf
    <2>4. \A i \in 1 .. n - 1 : grp[i + 1] = grp[i] \/ grp[i + 1] = grp[i] + 1
      BY <2>1 DEF ListOf
    <2>5. /\ \A m \in 1 .. Len(list) : \E i \in 1 .. n : grp[i] = m
          /\ \A i \in 1 .. n : v[i] = "or" <=> list[grp[i]] = "or"
          /\ \A m \in 1 .. Len(list) - 1 : list[m] = "or" <=> list[m + 1] # "or"
      BY <2>1 DEF ListOf
    <2> QED BY <2>2, <2>3, <2>4, <2>5
  <1>3. \A i, j \in 1 .. n : i <= j => grp[i] <= grp[j]
    BY <1>1, GroupsInOrder
  <1>4. ASSUME ValuesHold(v) PROVE \E m \in 1 .. Len(list) : list[m] = "yes"
    <2>1. PICK a \in 1 .. n, b \in 1 .. n :
            /\ a = 1 \/ v[a - 1] = "or"
            /\ b = n \/ v[b + 1] = "or"
            /\ a <= b /\ \A i \in a .. b : v[i] \in {"yes", "and"}
      BY <1>1, <1>4 DEF ValuesHold
    <2>2. v[a] # "or" /\ v[b] # "or" /\ list[grp[a]] # "or" /\ list[grp[b]] # "or"
      <3>1. a \in a .. b /\ b \in a .. b
        BY <2>1
      <3> QED BY <1>2, <2>1, <3>1
    <2>3. ASSUME NEW i \in 1 .. n, grp[i] = grp[a] PROVE i \in a .. b
      <3>1. ~(i < a)
        <4> SUFFICES ASSUME i < a PROVE FALSE
          OBVIOUS
        <4>1. a - 1 \in 1 .. n /\ i <= a - 1 /\ a - 1 <= a /\ v[a - 1] = "or"
          BY <2>1
        <4>2. grp[a - 1] = grp[a]
          BY <1>2, <1>3, <2>3, <4>1
        <4> QED BY <1>2, <2>2, <4>1, <4>2
      <3>2. ~(i > b)
        <4> SUFFICES ASSUME i > b PROVE FALSE
          OBVIOUS
        <4>1. b + 1 \in 1 .. n /\ b + 1 <= i /\ a <= b + 1 /\ v[b + 1] = "or"
          BY <2>1
        <4>2. grp[b + 1] = grp[a]
          BY <1>2, <1>3, <2>3, <4>1
        <4> QED BY <1>2, <2>2, <4>1, <4>2
      <3> QED BY <3>1, <3>2
    <2>4. list[grp[a]] = "yes"
      BY <1>2, <2>1, <2>3
    <2> QED BY <1>2, <2>4
  <1>5. ASSUME NEW m \in 1 .. Len(list), list[m] = "yes" PROVE ValuesHold(v)
    <2> DEFINE G == {i \in 1 .. n : grp[i] = m}
               H == {n - i : i \in G}
    <2>1. PICK a \in G : \A i \in G : a <= i
      <3>1. G # {} /\ G \in SUBSET Nat
        <4>1. PICK i \in 1 .. n : grp[i] = m
          BY <1>2
        <4>2. i \in G
          BY <4>1
        <4> QED BY <4>2
      <3> HIDE DEF G
      <3> QED BY <3>1, FirstOf
    <2>2. PICK b \in G : \A i \in G : i <= b
      <3>1. H # {} /\ H \in SUBSET Nat
        BY <2>1
      <3>2. PICK h \in H : \A k \in H : h <= k
        <4> HIDE DEF H
        <4> QED BY <3>1, FirstOf
      <3>3. PICK b \in G : h = n - b
        BY <3>2
      <3>4. ASSUME NEW i \in G PROVE i <= b
        <4>1. n - b <= n - i
          BY <3>2, <3>3
        <4> QED BY <4>1
      <3> QED BY <3>4
    <2>3. a \in 1 .. n /\ b \in 1 .. n /\ a <= b /\ grp[a] = m /\ grp[b] = m
      BY <2>1, <2>2
    <2>4. a = 1 \/ v[a - 1] = "or"
      <3> SUFFICES ASSUME a # 1 PROVE v[a - 1] = "or"
        OBVIOUS
      <3>1. a - 1 \in 1 .. n - 1 /\ (a - 1) + 1 = a /\ a - 1 \in 1 .. n /\ ~(a <= a - 1)
        BY <2>3
      <3>2. grp[a - 1] # m
        BY <2>1, <3>1
      <3>3. m = grp[a - 1] + 1 /\ grp[a - 1] \in 1 .. Len(list) - 1
        BY <1>2, <2>3, <3>1, <3>2
      <3>4. list[grp[a - 1]] = "or"
        BY <1>2, <1>5, <3>3
      <3> QED BY <1>2, <3>1, <3>4
    <2>5. b = n \/ v[b + 1] = "or"
      <3> SUFFICES ASSUME b # n PROVE v[b + 1] = "or"
        OBVIOUS
      <3>1. b \in 1 .. n - 1 /\ b + 1 \in 1 .. n /\ ~(b + 1 <= b)
        BY <2>3
      <3>2. grp[b + 1] # m
        BY <2>2, <3>1
      <3>3. grp[b + 1] = m + 1 /\ m \in 1 .. Len(list) - 1
        BY <1>2, <2>3, <3>1, <3>2
      <3>4. list[m + 1] = "or"
        BY <1>2, <1>5, <3>3
      <3> QED BY <1>2, <3>1, <3>3, <3>4
    <2>6. ASSUME NEW i \in a .. b PROVE v[i] \in {"yes", "and"}
      <3>1. i \in 1 .. n /\ a <= i /\ i <= b
        BY <2>3
      <3>2. grp[i] = m
        BY <1>2, <1>3, <2>3, <3>1
      <3> QED BY <1>2, <1>5, <3>1, <3>2
    <2> QED BY <1>1, <2>3, <2>4, <2>5, <2>6 DEF ValuesHold
  <1> QED BY <1>4, <1>5

\* The same of the atoms, a `not` with the answer it precedes.
AtomsHold(a) ==
  \E i, j \in 1 .. Len(a) :
    /\ i = 1 \/ a[i - 1] = "or"
    /\ j = Len(a) \/ a[j + 1] = "or"
    /\ i <= j /\ \A k \in i .. j : a[k] = "not" \/ ValueAt(a, k) \in {"yes", "and"}

\* The groups of the atoms are those of the stream, which has no `not`.
LEMMA GroupsAlike ==
  ASSUME NEW a, Grammatical(a), NEW v \in Seq(ValueSet), NEW pos, StreamOf(a, Len(a), v, pos)
  PROVE  AtomsHold(a) <=> ValuesHold(v)
  <1>1. Len(a) \in Nat /\ Len(a) > 0 /\ Len(v) \in Nat
        /\ \A i \in 1 .. Len(a) : a[i] \in AtomSet
    BY DEF Grammatical
  <1>2. \A i \in 1 .. Len(a) - 1 : a[i] = "not" => a[i + 1] \in Answers
    BY DEF Grammatical
  <1>3. /\ \A k \in 1 .. Len(v) : pos[k] \in 1 .. Len(a)
        /\ \A j, k \in 1 .. Len(v) : j < k => pos[j] < pos[k]
        /\ \A i \in 1 .. Len(a) : a[i] # "not" => \E k \in 1 .. Len(v) : pos[k] = i
        /\ \A k \in 1 .. Len(v) : a[pos[k]] # "not" /\ v[k] = ValueAt(a, pos[k])
    BY DEF StreamOf
  <1>4. \A j, k \in 1 .. Len(v) : pos[j] < pos[k] => j < k
    BY <1>3
  <1>5. ASSUME NEW i \in 1 .. Len(a) PROVE ValueAt(a, i) = "or" <=> a[i] = "or"
    <2>1. i > 1 /\ a[i - 1] = "not" => a[i] \in Answers
      <3> SUFFICES ASSUME i > 1, a[i - 1] = "not" PROVE a[i] \in Answers
        OBVIOUS
      <3>1. i - 1 \in 1 .. Len(a) - 1 /\ (i - 1) + 1 = i
        BY <1>1
      <3> QED BY <1>2, <3>1
    <2> QED BY <2>1 DEF ValueAt, Negated, Answers
  <1>6. \A k \in 1 .. Len(v) : v[k] = "or" <=> a[pos[k]] = "or"
    BY <1>3, <1>5
  <1>7. ASSUME AtomsHold(a) PROVE ValuesHold(v)
    <2>1. PICK i \in 1 .. Len(a), j \in 1 .. Len(a) :
            /\ i = 1 \/ a[i - 1] = "or"
            /\ j = Len(a) \/ a[j + 1] = "or"
            /\ i <= j /\ \A k \in i .. j : a[k] = "not" \/ ValueAt(a, k) \in {"yes", "and"}
      BY <1>7 DEF AtomsHold
    <2>2. a[j] # "not"
      <3>1. CASE j = Len(a)
        BY <3>1 DEF Grammatical, Answers
      <3>2. CASE j # Len(a)
        <4>1. j \in 1 .. Len(a) - 1 /\ a[j + 1] = "or"
          BY <1>1, <2>1, <3>2
        <4> QED BY <1>2, <4>1 DEF Answers
      <3> QED BY <3>1, <3>2
    <2>3. PICK b \in 1 .. Len(v) : pos[b] = j
      BY <1>3, <2>2
    <2>4. b = Len(v) \/ v[b + 1] = "or"
      <3> SUFFICES ASSUME b # Len(v) PROVE v[b + 1] = "or"
        OBVIOUS
      <3>1. b + 1 \in 1 .. Len(v)
        BY <1>1
      <3>2. pos[b + 1] > j /\ pos[b + 1] \in 1 .. Len(a)
        BY <1>1, <1>3, <2>3, <3>1
      <3>3. j + 1 \in 1 .. Len(a) /\ a[j + 1] = "or"
        BY <1>1, <2>1, <3>2
      <3>4. PICK c \in 1 .. Len(v) : pos[c] = j + 1
        BY <1>3, <3>3
      <3>5. b < c
        BY <1>4, <2>3, <3>4
      <3>6. ~(b + 1 < c)
        BY <1>1, <1>3, <3>1, <3>2, <3>4
      <3>7. c = b + 1
        BY <1>1, <3>5, <3>6
      <3> QED BY <1>6, <3>1, <3>3, <3>4, <3>7
    <2>5. \E s \in 1 .. Len(v) : /\ s <= b /\ (s = 1 \/ v[s - 1] = "or")
                                 /\ \A k \in s .. b : i <= pos[k]
      <3>1. CASE i = 1
        <4>1. 1 \in 1 .. Len(v) /\ 1 <= b /\ \A k \in 1 .. b : k \in 1 .. Len(v)
          BY <1>1
        <4> QED BY <1>3, <3>1, <4>1
      <3>2. CASE i # 1
        <4>1. i - 1 \in 1 .. Len(a) /\ a[i - 1] = "or"
          BY <1>1, <2>1, <3>2
        <4>2. PICK c \in 1 .. Len(v) : pos[c] = i - 1
          BY <1>3, <4>1
        <4>3. c < b
          BY <1>4, <2>1, <2>3, <4>2
        <4>4. c + 1 \in 1 .. Len(v) /\ c + 1 <= b /\ (c + 1) - 1 = c
          BY <1>1, <4>3
        <4>5. \A k \in c + 1 .. b : k \in 1 .. Len(v) /\ c < k
          BY <1>1
        <4>6. \A k \in c + 1 .. b : i <= pos[k]
          BY <1>3, <4>2, <4>5
        <4> QED BY <1>6, <4>1, <4>2, <4>4, <4>6
      <3> QED BY <3>1, <3>2
    <2>6. PICK s \in 1 .. Len(v) : /\ s <= b /\ (s = 1 \/ v[s - 1] = "or")
                                   /\ \A k \in s .. b : i <= pos[k]
      BY <2>5
    <2>7. ASSUME NEW k \in s .. b PROVE v[k] \in {"yes", "and"}
      <3>1. k \in 1 .. Len(v) /\ i <= pos[k] /\ pos[k] \in 1 .. Len(a)
        BY <1>1, <1>3, <2>6
      <3>2. pos[k] <= j
        BY <1>3, <2>3, <3>1
      <3>3. pos[k] \in i .. j
        BY <3>1, <3>2
      <3> QED BY <1>3, <2>1, <3>1, <3>3
    <2> QED BY <2>4, <2>6, <2>7 DEF ValuesHold
  <1>8. ASSUME ValuesHold(v) PROVE AtomsHold(a)
    <2>1. PICK s \in 1 .. Len(v), b \in 1 .. Len(v) :
            /\ s = 1 \/ v[s - 1] = "or"
            /\ b = Len(v) \/ v[b + 1] = "or"
            /\ s <= b /\ \A k \in s .. b : v[k] \in {"yes", "and"}
      BY <1>8 DEF ValuesHold
    <2>2. \E i \in 1 .. Len(a) : /\ i <= pos[s] /\ (i = 1 \/ a[i - 1] = "or")
                                 /\ \A k \in 1 .. Len(v) : i <= pos[k] => s <= k
      <3>1. CASE s = 1
        <4>1. 1 \in 1 .. Len(a) /\ 1 <= pos[s]
          BY <1>1, <1>3
        <4> QED BY <3>1, <4>1
      <3>2. CASE s # 1
        <4>1. s - 1 \in 1 .. Len(v) /\ s - 1 < s /\ v[s - 1] = "or"
          BY <1>1, <2>1, <3>2
        <4>2. pos[s - 1] < pos[s] /\ pos[s - 1] \in 1 .. Len(a) /\ pos[s] \in 1 .. Len(a)
          BY <1>3, <4>1
        <4> DEFINE i == pos[s - 1] + 1
        <4>3. i \in 1 .. Len(a) /\ i <= pos[s] /\ i - 1 = pos[s - 1]
          BY <4>2
        <4>4. a[i - 1] = "or"
          BY <1>6, <4>1, <4>3
        <4>5. ASSUME NEW k \in 1 .. Len(v), i <= pos[k] PROVE s <= k
          <5>1. pos[s - 1] < pos[k]
            BY <1>3, <4>2, <4>5
          <5>2. s - 1 < k
            BY <1>4, <4>1, <5>1
          <5> QED BY <5>2
        <4> HIDE DEF i
        <4> QED BY <4>3, <4>4, <4>5
      <3> QED BY <3>1, <3>2
    <2>3. \E j \in 1 .. Len(a) : /\ pos[b] <= j /\ (j = Len(a) \/ a[j + 1] = "or")
                                 /\ \A k \in 1 .. Len(v) : pos[k] <= j => k <= b
      <3>1. CASE b = Len(v)
        <4>1. Len(a) \in 1 .. Len(a) /\ pos[b] <= Len(a)
          BY <1>1, <1>3
        <4> QED BY <3>1, <4>1
      <3>2. CASE b # Len(v)
        <4>1. b + 1 \in 1 .. Len(v) /\ b < b + 1 /\ v[b + 1] = "or"
          BY <1>1, <2>1, <3>2
        <4>2. pos[b] < pos[b + 1] /\ pos[b] \in 1 .. Len(a) /\ pos[b + 1] \in 1 .. Len(a)
          BY <1>3, <4>1
        <4> DEFINE j == pos[b + 1] - 1
        <4>3. j \in 1 .. Len(a) /\ pos[b] <= j /\ j + 1 = pos[b + 1]
          BY <4>2
        <4>4. a[j + 1] = "or"
          BY <1>6, <4>1, <4>3
        <4>5. ASSUME NEW k \in 1 .. Len(v), pos[k] <= j PROVE k <= b
          <5>1. pos[k] < pos[b + 1]
            BY <1>3, <4>2, <4>5
          <5>2. k < b + 1
            BY <1>4, <4>1, <5>1
          <5> QED BY <5>2
        <4> HIDE DEF j
        <4> QED BY <4>3, <4>4, <4>5
      <3> QED BY <3>1, <3>2
    <2>4. PICK i \in 1 .. Len(a) : /\ i <= pos[s] /\ (i = 1 \/ a[i - 1] = "or")
                                   /\ \A k \in 1 .. Len(v) : i <= pos[k] => s <= k
      BY <2>2
    <2>5. PICK j \in 1 .. Len(a) : /\ pos[b] <= j /\ (j = Len(a) \/ a[j + 1] = "or")
                                   /\ \A k \in 1 .. Len(v) : pos[k] <= j => k <= b
      BY <2>3
    <2>6. i <= j
      <3>1. pos[s] <= pos[b] /\ pos[s] \in 1 .. Len(a) /\ pos[b] \in 1 .. Len(a)
        BY <1>3, <2>1
      <3> QED BY <2>4, <2>5, <3>1
    <2>7. ASSUME NEW k \in i .. j PROVE a[k] = "not" \/ ValueAt(a, k) \in {"yes", "and"}
      <3> SUFFICES ASSUME a[k] # "not" PROVE ValueAt(a, k) \in {"yes", "and"}
        OBVIOUS
      <3>1. k \in 1 .. Len(a)
        BY <1>1
      <3>2. PICK c \in 1 .. Len(v) : pos[c] = k
        BY <1>3, <3>1
      <3>3. s <= c /\ c <= b
        BY <2>4, <2>5, <3>2
      <3>4. v[c] \in {"yes", "and"}
        BY <2>1, <3>3
      <3> QED BY <1>3, <3>2, <3>4
    <2> QED BY <2>4, <2>5, <2>6, <2>7 DEF AtomsHold
  <1> QED BY <1>7, <1>8

-----------------------------------------------------------------------------
(* What an expression is evaluated to.                                      *)

\* Evaluated by itself, a comparison is an answer or no version.
LEMMA EvalSingleTyped ==
  \A c, fs : EvalSingle(c, fs) \in {"yes", "no", "CondError"}
  BY DEF EvalSingle, Answer

\* The outcome of an expression is one of four.
LEMMA EvalTyped == \A words, fs : EvalExpr(words, fs) \in Outcomes
  BY DEF EvalExpr, FoldOr, Answer, Outcomes

\* The atoms of a sound expression are as its words are written.
LEMMA SoundAtoms ==
  ASSUME NEW words \in Seq(Word), NEW fs, Sound(words, fs)
  PROVE  Grammatical(Atoms(words, fs)) /\ Len(Atoms(words, fs)) = Len(words)
  <1>1. PICK n \in Nat : n = Len(words) /\ n > 0 /\ DOMAIN words = 1 .. n
    BY DEF Sound, Written
  <1>2. PICK a : a = Atoms(words, fs)
    OBVIOUS
  <1>3. ASSUME NEW i \in 1 .. n
        PROVE  IF IsComparison(words[i]) THEN a[i] = EvalSingle(words[i], fs) /\ a[i] \in Answers
               ELSE a[i] = words[i].kind /\ a[i] \in Connectors
    <2>1. words[i] \in Word
      BY <1>1
    <2>2. IsComparison(words[i]) => EvalSingle(words[i], fs) \in Answers
      BY <1>1, EvalSingleTyped DEF Sound, Answers
    <2>3. ~IsComparison(words[i]) => words[i].kind \in Connectors
      BY <2>1 DEF Word, Comparison, IsComparison
    <2> QED BY <1>1, <1>2, <2>2, <2>3 DEF Atoms
  <1>4. a \in Seq(AtomSet) /\ Len(a) = n /\ a # <<>>
    <2>1. \A i \in 1 .. n : a[i] \in AtomSet
      BY <1>3 DEF AtomSet, Answers, Connectors
    <2>2. a = [i \in 1 .. n |-> a[i]]
      BY <1>1, <1>2 DEF Atoms
    <2> QED BY <1>1, <2>1, <2>2
  <1>5. \A i \in 1 .. n : words[i].kind \in {"and", "or"} <=> a[i] \in {"and", "or"}
    BY <1>3 DEF IsComparison, Answers, Connectors
  <1>6. \A i \in 1 .. n : /\ IsComparison(words[i]) <=> a[i] \in Answers
                          /\ words[i].kind = "not" <=> a[i] = "not"
    BY <1>3 DEF IsComparison, Answers, Connectors
  <1>7. 1 \in 1 .. n /\ n \in 1 .. n /\ \A i \in 1 .. n - 1 : i \in 1 .. n /\ i + 1 \in 1 .. n
    BY <1>1
  <1>8. a[n] \in Answers /\ a[1] \notin {"and", "or"}
    BY <1>1, <1>5, <1>6, <1>7 DEF Sound, Written
  <1>9. \A i \in 1 .. n - 1 : IF a[i] = "not" THEN a[i + 1] \in Answers
                              ELSE a[i + 1] \in {"and", "or"} <=> a[i] \in Answers
    BY <1>1, <1>5, <1>6, <1>7 DEF Sound, Written
  <1> QED BY <1>1, <1>2, <1>4, <1>8, <1>9 DEF Grammatical

\* What holds of its atoms is what it means.
LEMMA SoundMeans ==
  ASSUME NEW words \in Seq(Word), NEW fs, Sound(words, fs)
  PROVE  AtomsHold(Atoms(words, fs)) <=> Means(words, fs)
  <1>1. PICK n \in Nat : n = Len(words) /\ n > 0 /\ DOMAIN words = 1 .. n
    BY DEF Sound, Written
  <1>2. PICK a : a = Atoms(words, fs) /\ Len(a) = n
    BY <1>1, SoundAtoms
  <1>3. ASSUME NEW i \in 1 .. n
        PROVE  IF IsComparison(words[i]) THEN a[i] = EvalSingle(words[i], fs) /\ a[i] \in Answers
               ELSE a[i] = words[i].kind /\ a[i] \in Connectors
    <2>1. words[i] \in Word
      BY <1>1
    <2>2. IsComparison(words[i]) => EvalSingle(words[i], fs) \in Answers
      BY <1>1, EvalSingleTyped DEF Sound, Answers
    <2>3. ~IsComparison(words[i]) => words[i].kind \in Connectors
      BY <2>1 DEF Word, Comparison, IsComparison
    <2> QED BY <1>1, <1>2, <2>2, <2>3 DEF Atoms
  <1>4. \A i \in 1 .. n : /\ words[i].kind = "or" <=> a[i] = "or"
                          /\ words[i].kind = "not" <=> a[i] = "not"
    BY <1>3 DEF IsComparison, Answers, Connectors
  <1>5. ASSUME NEW i \in 1 .. n
        PROVE  (a[i] = "not" \/ ValueAt(a, i) \in {"yes", "and"}) <=>
               /\ words[i].kind # "or"
               /\ IsComparison(words[i]) =>
                    (EvalSingle(words[i], fs) = "yes") # (i > 1 /\ words[i - 1].kind = "not")
    <2>1. i > 1 => i - 1 \in 1 .. n
      OBVIOUS
    <2>2. PICK b \in BOOLEAN : b = (i > 1 /\ words[i - 1].kind = "not")
      OBVIOUS
    <2>3. ValueAt(a, i) = IF b THEN Negated(a[i]) ELSE a[i]
      BY <1>4, <2>1, <2>2 DEF ValueAt
    <2>4. CASE IsComparison(words[i])
      <3>1. a[i] = EvalSingle(words[i], fs) /\ a[i] \in Answers /\ words[i].kind # "or"
        BY <1>3, <2>4 DEF IsComparison
      <3>2. a[i] # "not" /\ (ValueAt(a, i) \in {"yes", "and"} <=> (a[i] = "yes") # b)
        BY <2>3, <3>1 DEF Answers, Negated
      <3> QED BY <2>2, <2>4, <3>1, <3>2
    <2>5. CASE ~IsComparison(words[i])
      <3>1. a[i] = words[i].kind /\ a[i] \in Connectors
        BY <1>3, <2>5
      <3>2. b => a[i] \in Answers
        <4> SUFFICES ASSUME b PROVE a[i] \in Answers
          OBVIOUS
        <4>1. i > 1 /\ words[i - 1].kind = "not"
          BY <2>2
        <4>2. i - 1 \in 1 .. n - 1 /\ (i - 1) + 1 = i
          BY <4>1
        <4> QED BY <1>1, <2>5, <4>1, <4>2 DEF Sound, Written
      <3> QED BY <2>3, <2>5, <3>1, <3>2 DEF Connectors, Answers
    <2> QED BY <2>4, <2>5
  <1>6. ASSUME NEW i \in 1 .. n, NEW j \in 1 .. n
        PROVE  (\A k \in i .. j : a[k] = "not" \/ ValueAt(a, k) \in {"yes", "and"}) <=>
               \A k \in i .. j :
                 /\ words[k].kind # "or"
                 /\ IsComparison(words[k]) =>
                      (EvalSingle(words[k], fs) = "yes") # (k > 1 /\ words[k - 1].kind = "not")
    <2>1. \A k \in i .. j : k \in 1 .. n
      OBVIOUS
    <2> QED BY <1>5, <2>1
  <1>7. ASSUME NEW i \in 1 .. n
        PROVE  /\ (i = 1 \/ a[i - 1] = "or") <=> (i = 1 \/ words[i - 1].kind = "or")
               /\ (i = n \/ a[i + 1] = "or") <=> (i = n \/ words[i + 1].kind = "or")
    <2>1. (i = 1 \/ i - 1 \in 1 .. n) /\ (i = n \/ i + 1 \in 1 .. n)
      OBVIOUS
    <2> QED BY <1>4, <2>1
  <1> DEFINE A(i, j) == \A k \in i .. j : a[k] = "not" \/ ValueAt(a, k) \in {"yes", "and"}
             W(i, j) == \A k \in i .. j :
               /\ words[k].kind # "or"
               /\ IsComparison(words[k]) =>
                    (EvalSingle(words[k], fs) = "yes") # (k > 1 /\ words[k - 1].kind = "not")
  <1>8. AtomsHold(a) <=> \E i, j \in 1 .. n :
          (i = 1 \/ a[i - 1] = "or") /\ (j = n \/ a[j + 1] = "or") /\ i <= j /\ A(i, j)
    BY <1>2 DEF AtomsHold
  <1>9. Means(words, fs) <=> \E i, j \in 1 .. n :
          /\ i = 1 \/ words[i - 1].kind = "or"
          /\ j = n \/ words[j + 1].kind = "or"
          /\ i <= j /\ W(i, j)
    BY <1>1 DEF Means
  <1>10. \A i, j \in 1 .. n : A(i, j) <=> W(i, j)
    BY <1>6
  <1> HIDE DEF A, W
  <1> QED BY <1>2, <1>7, <1>8, <1>9, <1>10

\* Atoms that are grammatical are evaluated to what their groups say.
LEMMA AtomsEvaluate ==
  ASSUME NEW words, words # <<>>, NEW fs, NEW a, a = Atoms(words, fs), Grammatical(a)
  PROVE  EvalExpr(words, fs) = Answer(AtomsHold(a))
  <1>1. PICK v \in Seq(ValueSet) : v = ValueStream(a).values
    BY StreamSound
  <1>2. ~ValueStream(a).fault
    BY StreamSound
  <1>3. PICK pos : StreamOf(a, Len(a), v, pos)
    BY <1>1, StreamSound
  <1>4. Connected(v)
    BY <1>3, StreamAlternates
  <1>5. PICK list : list = FoldAnd(v).list
    OBVIOUS
  <1>6. ~FoldAnd(v).fault
    BY <1>4, AndSound
  <1>7. PICK grp : ListOf(v, Len(v), list, grp)
    BY <1>4, <1>5, AndSound
  <1>8. FoldOr(list) = Answer(\E m \in 1 .. Len(list) : list[m] = "yes")
    BY <1>4, <1>7, OrSound
  <1>9. AtomsHold(a) <=> \E m \in 1 .. Len(list) : list[m] = "yes"
    BY <1>3, <1>4, <1>7, GroupsAlike, ListHolds
  <1>10. EvalExpr(words, fs) = FoldOr(list)
    BY <1>1, <1>2, <1>5, <1>6 DEF EvalExpr
  <1> QED BY <1>8, <1>9, <1>10 DEF Answer

\* An expression that is sound is evaluated to what it means: `not` before `and`
\* before `or`.
THEOREM SoundEvaluates ==
  ASSUME NEW words \in Seq(Word), NEW fs, Sound(words, fs)
  PROVE  EvalExpr(words, fs) = Answer(Means(words, fs))
  <1>1. words # <<>>
    BY DEF Sound, Written
  <1>2. PICK a : a = Atoms(words, fs) /\ Grammatical(a)
    BY SoundAtoms
  <1>3. EvalExpr(words, fs) = Answer(AtomsHold(a))
    BY <1>1, <1>2, AtomsEvaluate
  <1>4. AtomsHold(a) <=> Means(words, fs)
    BY <1>2, SoundMeans
  <1> QED BY <1>3, <1>4 DEF Answer

-----------------------------------------------------------------------------
(* What the groups of conditions are evaluated to.                          *)

\* An expression is evaluated by the facts it mentions.
LEMMA OthersDoNotMatter ==
  ASSUME NEW words \in Seq(Word), NEW fs, NEW gs,
         \A i \in DOMAIN words : IsComparison(words[i]) => fs[words[i].key] = gs[words[i].key]
  PROVE  EvalExpr(words, fs) = EvalExpr(words, gs)
  <1>1. \A i \in DOMAIN words :
          IsComparison(words[i]) => EvalSingle(words[i], fs) = EvalSingle(words[i], gs)
    BY DEF EvalSingle
  <1>2. \A i \in DOMAIN words :
          (IF IsComparison(words[i]) THEN EvalSingle(words[i], fs) ELSE words[i].kind)
          = (IF IsComparison(words[i]) THEN EvalSingle(words[i], gs) ELSE words[i].kind)
    BY <1>1
  <1>3. Atoms(words, fs) = Atoms(words, gs)
    BY <1>2 DEF Atoms
  <1> QED BY <1>3 DEF EvalExpr

\* The expression that a MEMCOND line leaves.
Sentinel(k) ==
  [kind |-> "cmp", key |-> Sentinels[k], ver |-> FALSE, op |-> "==", val |-> "yes", items |-> {}]

\* It is evaluated to what the MEMCOND was.
LEMMA SentinelValue ==
  ASSUME NEW k, NEW fs, fs[Sentinels[k]] \in Answers
  PROVE  EvalExpr(<<Sentinel(k)>>, fs) = fs[Sentinels[k]]
  <1>1. PICK x \in Answers : x = fs[Sentinels[k]]
    OBVIOUS
  <1>2. x \in Values /\ "yes" \in Values /\ x # Unset
    BY CondAssumption, TemplateAssumption DEF Answers
  <1>3. PICK c : c = Sentinel(k)
    OBVIOUS
  <1>4. c.kind = "cmp" /\ c.key = Sentinels[k] /\ c.ver = FALSE /\ c.op = "==" /\ c.val = "yes"
    BY <1>3 DEF Sentinel
  <1>5. EvalSingle(c, fs) = Answer(Order[x] = Order["yes"])
    BY <1>1, <1>2, <1>4 DEF EvalSingle
  <1>6. EvalSingle(c, fs) = x
    BY <1>2, <1>5, CondAssumption DEF Answer, Answers
  <1>7. PICK words : words = <<c>>
    OBVIOUS
  <1>8. Len(words) = 1 /\ words[1] = c /\ DOMAIN words = {1} /\ words # <<>>
    BY <1>7
  <1>9. Atoms(words, fs) = <<x>>
    <2>1. IsComparison(c)
      BY <1>4 DEF IsComparison
    <2>2. Atoms(words, fs) = [i \in {1} |-> x]
      BY <1>6, <1>8, <2>1 DEF Atoms
    <2> QED BY <2>2
  <1>10. Grammatical(<<x>>)
    BY <1>1 DEF Grammatical, AtomSet, Answers
  <1>11. PICK a : a = <<x>>
    OBVIOUS
  <1>12. Len(a) = 1 /\ a[1] = x /\ Grammatical(a)
    BY <1>10, <1>11
  <1>13. EvalExpr(words, fs) = Answer(AtomsHold(a))
    BY <1>8, <1>9, <1>11, <1>12, AtomsEvaluate
  <1>14. AtomsHold(a) <=> x = "yes"
    <2>1. \A i \in 1 .. 1 : i = 1
      OBVIOUS
    <2>2. ValueAt(a, 1) = x /\ x # "not" /\ x # "and"
      BY <1>12 DEF ValueAt, Answers
    <2> QED BY <1>12, <2>1, <2>2 DEF AtomsHold
  <1> QED BY <1>1, <1>3, <1>7, <1>13, <1>14 DEF Answer, Answers

\* The first that is not neutral is one of them.
LEMMA FirstOtherOneOf ==
  ASSUME NEW n \in Nat, NEW answers, DOMAIN answers = 1 .. n, NEW neutral
  PROVE  IF \A k \in 1 .. n : answers[k] = neutral THEN FirstOther(answers, neutral) = neutral
         ELSE \E k \in 1 .. n : answers[k] # neutral /\ FirstOther(answers, neutral) = answers[k]
  <1>1. CASE \A k \in 1 .. n : answers[k] = neutral
    BY <1>1 DEF FirstOther
  <1>2. CASE ~\A k \in 1 .. n : answers[k] = neutral
    <2> DEFINE S == {k \in 1 .. n : answers[k] # neutral}
               P(k) == answers[k] # neutral /\ \A j \in 1 .. k - 1 : answers[j] = neutral
    <2>1. PICK m \in S : \A k \in S : m <= k
      <3>1. S # {} /\ S \in SUBSET Nat
        BY <1>2
      <3> HIDE DEF S
      <3> QED BY <3>1, FirstOf
    <2>2. \A j \in 1 .. m - 1 : j \in 1 .. n /\ ~(m <= j)
      BY <2>1
    <2>3. m \in 1 .. n /\ P(m)
      BY <2>1, <2>2
    <2>4. PICK c : c = CHOOSE k \in 1 .. n : P(k)
      OBVIOUS
    <2>5. c \in 1 .. n /\ P(c)
      <3> HIDE DEF P
      <3> QED BY <2>3, <2>4
    <2>6. FirstOther(answers, neutral) = answers[c]
      BY <1>2, <2>4 DEF FirstOther
    <2> QED BY <1>2, <2>5, <2>6
  <1> QED BY <1>1, <1>2

\* The outcome of a group is one of four.
LEMMA GroupTyped ==
  ASSUME NEW group, NEW n \in Nat, DOMAIN group = 1 .. n, NEW fs
  PROVE  EvalGroup(group, fs) \in Outcomes
  <1>1. PICK answers : answers = [k \in DOMAIN group |-> EvalExpr(group[k], fs)]
    OBVIOUS
  <1>2. DOMAIN answers = 1 .. n /\ \A k \in 1 .. n : answers[k] \in Outcomes
    BY <1>1, EvalTyped
  <1>3. FirstOther(answers, "yes") \in Outcomes
    BY <1>2, FirstOtherOneOf DEF Outcomes
  <1> QED BY <1>1, <1>3 DEF EvalGroup

\* That of any number of groups, too.
LEMMA GroupsTyped ==
  ASSUME NEW groups, NEW n \in Nat, DOMAIN groups = 1 .. n, NEW fs,
         \A g \in 1 .. n : \E m \in Nat : DOMAIN groups[g] = 1 .. m
  PROVE  EvalConditionGroups(groups, fs) \in Outcomes
  <1>1. PICK answers : answers = [k \in DOMAIN groups |-> EvalGroup(groups[k], fs)]
    OBVIOUS
  <1>2. DOMAIN answers = 1 .. n /\ \A k \in 1 .. n : answers[k] \in Outcomes
    BY <1>1, GroupTyped
  <1>3. FirstOther(answers, "no") \in Outcomes
    BY <1>2, FirstOtherOneOf DEF Outcomes
  <1> QED BY <1>1, <1>3 DEF EvalConditionGroups

\* All the expressions of a group are true; each of them has an answer.
AllYes(group, fs) == \A m \in DOMAIN group : EvalExpr(group[m], fs) = "yes"
Answered(group, fs) == \A m \in DOMAIN group : EvalExpr(group[m], fs) \in Answers

\* Where every expression has an answer, a group is all of its expressions.
LEMMA GroupValue ==
  ASSUME NEW group, NEW n \in Nat, DOMAIN group = 1 .. n, NEW fs, Answered(group, fs)
  PROVE  EvalGroup(group, fs) = Answer(AllYes(group, fs))
  <1>1. PICK answers : answers = [k \in DOMAIN group |-> EvalExpr(group[k], fs)]
    OBVIOUS
  <1>2. DOMAIN answers = 1 .. n /\ \A k \in 1 .. n : answers[k] \in Answers
    BY <1>1 DEF Answered
  <1>3. (\A k \in 1 .. n : answers[k] = "yes") <=> AllYes(group, fs)
    BY <1>1 DEF AllYes
  <1>4. FirstOther(answers, "yes") = Answer(\A k \in 1 .. n : answers[k] = "yes")
    BY <1>2, FirstOtherOneOf DEF Answers, Answer
  <1> QED BY <1>1, <1>3, <1>4 DEF EvalGroup, Answer

\* Groups whose expressions all have answers: one of them holds.
LEMMA GroupsValue ==
  ASSUME NEW groups, NEW n \in Nat, DOMAIN groups = 1 .. n, NEW fs,
         \A g \in 1 .. n : (\E m \in Nat : DOMAIN groups[g] = 1 .. m) /\ Answered(groups[g], fs)
  PROVE  EvalConditionGroups(groups, fs) = Answer(\E g \in 1 .. n : AllYes(groups[g], fs))
  <1>1. PICK answers : answers = [k \in DOMAIN groups |-> EvalGroup(groups[k], fs)]
    OBVIOUS
  <1>2. DOMAIN answers = 1 .. n /\ \A k \in 1 .. n : answers[k] = Answer(AllYes(groups[k], fs))
    BY <1>1, GroupValue
  <1>3. \A k \in 1 .. n : answers[k] \in Answers /\ (answers[k] = "yes" <=> AllYes(groups[k], fs))
    BY <1>2 DEF Answer, Answers
  <1>4. FirstOther(answers, "no") = Answer(\E k \in 1 .. n : answers[k] = "yes")
    BY <1>2, <1>3, FirstOtherOneOf DEF Answers, Answer
  <1> QED BY <1>1, <1>3, <1>4 DEF EvalConditionGroups, Answer

-----------------------------------------------------------------------------
(* What the text says of a line and of the next.                            *)

\* The template is of lines.
IsTemplate == template \in Seq(Line)

\* Before the first line no RTEXT block is open; after that, what the line says.
LEMMA QuotedStep ==
  ASSUME IsTemplate, NEW n \in DOMAIN template
  PROVE  QuotedAfter(n) <=> Tag(n) # "RTEXT_END" /\ (Tag(n) = "RTEXT_START" \/ QuotedAfter(n - 1))
  <1>1. n \in Nat /\ n > 0
    BY DEF IsTemplate
  <1>2. ASSUME QuotedAfter(n)
        PROVE  Tag(n) # "RTEXT_END" /\ (Tag(n) = "RTEXT_START" \/ QuotedAfter(n - 1))
    <2>1. PICK j \in 1 .. n : Tag(j) = "RTEXT_START" /\ \A k \in j .. n : Tag(k) # "RTEXT_END"
      BY <1>2 DEF QuotedAfter
    <2>2. n \in j .. n
      BY <1>1
    <2>3. j # n => j \in 1 .. n - 1 /\ \A k \in j .. n - 1 : k \in j .. n
      BY <1>1
    <2> QED BY <2>1, <2>2, <2>3 DEF QuotedAfter
  <1>3. ASSUME Tag(n) # "RTEXT_END", Tag(n) = "RTEXT_START" PROVE QuotedAfter(n)
    <2>1. n \in 1 .. n /\ \A k \in n .. n : k = n
      BY <1>1
    <2> QED BY <1>3, <2>1 DEF QuotedAfter
  <1>4. ASSUME Tag(n) # "RTEXT_END", QuotedAfter(n - 1) PROVE QuotedAfter(n)
    <2>1. PICK j \in 1 .. n - 1 :
            Tag(j) = "RTEXT_START" /\ \A k \in j .. n - 1 : Tag(k) # "RTEXT_END"
      BY <1>4 DEF QuotedAfter
    <2>2. j \in 1 .. n /\ \A k \in j .. n : k = n \/ k \in j .. n - 1
      BY <1>1
    <2> QED BY <1>4, <2>1, <2>2 DEF QuotedAfter
  <1> QED BY <1>2, <1>3, <1>4

\* No RTEXT block is open before the first line.
LEMMA NotQuotedAtFirst == ~QuotedAfter(0)
  BY DEF QuotedAfter

\* A line is of a kind if its tag is and it is in no RTEXT block.
LEMMA PlainIs ==
  ASSUME NEW tags, NEW i \in DOMAIN template
  PROVE  i \in With(tags) <=> ~QuotedAfter(i - 1) /\ Tag(i) \in tags
  BY DEF With, Plain

\* The lines of a kind are lines of the template, in no RTEXT block.
LEMMA WithIn == ASSUME NEW tags, NEW i \in With(tags)
                PROVE  i \in DOMAIN template /\ i \in Plain /\ Tag(i) \in tags
  BY DEF With, Plain

\* The lines of some kind before a line are finitely many, and as a line is passed,
\* one more if it is of the kind.
LEMMA CountStep ==
  ASSUME IsTemplate, NEW tags
  PROVE  /\ \A n \in Nat : Cardinality({j \in With(tags) : j < n}) \in Nat
         /\ Cardinality({j \in With(tags) : j < 1}) = 0
         /\ \A n \in DOMAIN template :
              Cardinality({j \in With(tags) : j < n + 1}) =
                Cardinality({j \in With(tags) : j < n}) + IF n \in With(tags) THEN 1 ELSE 0
  <1>1. PICK len \in Nat : DOMAIN template = 1 .. len
    BY DEF IsTemplate
  <1> DEFINE Before(n) == {j \in With(tags) : j < n}
  <1>2. \A j \in With(tags) : j \in 1 .. len
    BY <1>1, WithIn
  <1>3. ASSUME NEW n \in Nat PROVE IsFiniteSet(Before(n)) /\ Cardinality(Before(n)) \in Nat
    <2>1. IsFiniteSet(1 .. len)
      BY FS_Interval
    <2>2. Before(n) \subseteq 1 .. len
      BY <1>2
    <2> HIDE DEF Before
    <2>3. IsFiniteSet(Before(n))
      BY <2>1, <2>2, FS_Subset
    <2> QED BY <2>3, FS_CardinalityType
  <1>4. Cardinality(Before(1)) = 0
    <2>1. Before(1) = {}
      BY <1>2
    <2> HIDE DEF Before
    <2> QED BY <2>1, FS_EmptySet
  <1>5. ASSUME NEW n \in 1 .. len
        PROVE  Cardinality(Before(n + 1)) =
                 Cardinality(Before(n)) + IF n \in With(tags) THEN 1 ELSE 0
    <2>1. n \notin Before(n)
      BY <1>2
    <2>2. IF n \in With(tags) THEN Before(n + 1) = Before(n) \cup {n} ELSE Before(n + 1) = Before(n)
      <3>1. \A j \in 1 .. len : j < n + 1 <=> j < n \/ j = n
        OBVIOUS
      <3> QED BY <1>2, <3>1
    <2>3. n \in Nat
      OBVIOUS
    <2>4. IsFiniteSet(Before(n)) /\ Cardinality(Before(n)) \in Nat
      BY <1>3, <2>3
    <2> HIDE DEF Before
    <2>5. Cardinality(Before(n) \cup {n}) = Cardinality(Before(n)) + 1
      BY <2>1, <2>4, FS_AddElement
    <2>6. CASE n \in With(tags)
      <3>1. Cardinality(Before(n + 1)) = Cardinality(Before(n)) + 1
        BY <2>2, <2>5, <2>6
      <3> QED BY <2>6, <3>1
    <2>7. CASE n \notin With(tags)
      <3>1. Cardinality(Before(n + 1)) = Cardinality(Before(n))
        BY <2>2, <2>7
      <3> QED BY <2>4, <2>7, <3>1
    <2> QED BY <2>6, <2>7
  <1> QED BY <1>1, <1>3, <1>4, <1>5

\* An IF opens a block, an IFEND closes one.
LEMMA DepthStep ==
  ASSUME IsTemplate
  PROVE  /\ Depth(1) = 0 /\ \A n \in Nat : Depth(n) \in Int
         /\ \A n \in DOMAIN template :
              Depth(n + 1) = IF n \in With({"IF"}) THEN Depth(n) + 1
                             ELSE IF n \in With({"IFEND"}) THEN Depth(n) - 1
                             ELSE Depth(n)
  <1> DEFINE If(n) == Cardinality({j \in With({"IF"}) : j < n})
             End(n) == Cardinality({j \in With({"IFEND"}) : j < n})
  <1>1. \A n : Depth(n) = If(n) - End(n)
    BY DEF Depth
  <1>2. /\ \A n \in Nat : If(n) \in Nat /\ End(n) \in Nat
        /\ If(1) = 0 /\ End(1) = 0
        /\ \A n \in DOMAIN template :
             /\ If(n + 1) = If(n) + IF n \in With({"IF"}) THEN 1 ELSE 0
             /\ End(n + 1) = End(n) + IF n \in With({"IFEND"}) THEN 1 ELSE 0
    BY CountStep
  <1>3. \A n : ~(n \in With({"IF"}) /\ n \in With({"IFEND"}))
    BY DEF With
  <1>4. \A n \in DOMAIN template : n \in Nat
    BY DEF IsTemplate
  <1> HIDE DEF If, End
  <1>5. \A n \in Nat : Depth(n) \in Int
    BY <1>1, <1>2
  <1>6. ASSUME NEW n \in DOMAIN template
        PROVE  Depth(n + 1) = IF n \in With({"IF"}) THEN Depth(n) + 1
                              ELSE IF n \in With({"IFEND"}) THEN Depth(n) - 1
                              ELSE Depth(n)
    <2>1. /\ Depth(n) = If(n) - End(n) /\ Depth(n + 1) = If(n + 1) - End(n + 1)
          /\ If(n) \in Nat /\ End(n) \in Nat
      BY <1>1, <1>2, <1>4
    <2>2. /\ If(n + 1) = If(n) + IF n \in With({"IF"}) THEN 1 ELSE 0
          /\ End(n + 1) = End(n) + IF n \in With({"IFEND"}) THEN 1 ELSE 0
      BY <1>2
    <2> QED BY <1>3, <2>1, <2>2
  <1> QED BY <1>1, <1>2, <1>5, <1>6

\* The blocks that enclose the next line.
LEMMA EnclosesStep ==
  ASSUME IsTemplate, NEW n \in DOMAIN template, NEW j
  PROVE  Encloses(j, n + 1) <=>
           j \in With({"IF"}) /\ (j = n \/ Encloses(j, n)) /\ Depth(n + 1) > Depth(j)
  <1>1. \A i \in With({"IF"}) : i \in Nat
    BY WithIn DEF IsTemplate
  <1>2. n \in Nat
    BY DEF IsTemplate
  <1>3. ASSUME Encloses(j, n + 1)
        PROVE  j \in With({"IF"}) /\ (j = n \/ Encloses(j, n)) /\ Depth(n + 1) > Depth(j)
    <2>1. j \in With({"IF"}) /\ j < n + 1 /\ \A k \in j + 1 .. n + 1 : Depth(k) > Depth(j)
      BY <1>3 DEF Encloses
    <2>2. j \in Nat /\ n + 1 \in j + 1 .. n + 1 /\ \A k \in j + 1 .. n : k \in j + 1 .. n + 1
      BY <1>1, <1>2, <2>1
    <2>3. j = n \/ j < n
      BY <1>2, <2>1, <2>2
    <2> QED BY <2>1, <2>2, <2>3 DEF Encloses
  <1>4. ASSUME j \in With({"IF"}), j = n \/ Encloses(j, n), Depth(n + 1) > Depth(j)
        PROVE  Encloses(j, n + 1)
    <2>1. j \in Nat
      BY <1>1, <1>4
    <2>2. \A k \in j + 1 .. n + 1 : k = n + 1 \/ (j # n /\ k \in j + 1 .. n)
      BY <1>2, <2>1
    <2>3. j < n + 1
      BY <1>2, <1>4, <2>1 DEF Encloses
    <2> QED BY <1>4, <2>2, <2>3 DEF Encloses
  <1> QED BY <1>3, <1>4

\* What encloses a block encloses what is in it.
LEMMA EnclosesOuter ==
  ASSUME IsTemplate, NEW i, NEW j, NEW n \in Nat, Encloses(i, j), Encloses(j, n)
  PROVE  Encloses(i, n)
  <1>1. /\ i \in With({"IF"}) /\ i < j /\ \A k \in i + 1 .. j : Depth(k) > Depth(i)
        /\ j \in With({"IF"}) /\ j < n /\ \A k \in j + 1 .. n : Depth(k) > Depth(j)
    BY DEF Encloses
  <1>2. i \in Nat /\ j \in Nat
    BY <1>1, WithIn DEF IsTemplate
  <1>3. ASSUME NEW k \in i + 1 .. n PROVE Depth(k) > Depth(i)
    <2>1. CASE k \in i + 1 .. j
      BY <1>1, <2>1
    <2>2. CASE k \in j + 1 .. n
      <3>1. j \in i + 1 .. j /\ k \in Nat
        BY <1>1, <1>2, <2>2
      <3>2. Depth(j) > Depth(i) /\ Depth(k) > Depth(j)
        BY <1>1, <2>2, <3>1
      <3>3. Depth(i) \in Int /\ Depth(j) \in Int /\ Depth(k) \in Int
        BY <1>2, <3>1, DepthStep
      <3> QED BY <3>2, <3>3
    <2> QED BY <1>2, <2>1, <2>2
  <1>4. i < n
    BY <1>1, <1>2
  <1> QED BY <1>1, <1>3, <1>4 DEF Encloses

\* The greatest member of a set.
LEMMA MaxIs ==
  ASSUME NEW S \in SUBSET Nat, NEW m \in S, \A k \in S : k <= m
  PROVE  Max(S) = m
  <1>1. \A y \in S : m >= y
    OBVIOUS
  <1>2. \A x \in S : (\A y \in S : x >= y) => x = m
    OBVIOUS
  <1> QED BY <1>1, <1>2 DEF Max

\* The least member of a set.
LEMMA MinIs ==
  ASSUME NEW S \in SUBSET Nat, NEW m \in S, \A k \in S : m <= k
  PROVE  Min(S) = m
  <1>1. \A y \in S : m <= y
    OBVIOUS
  <1>2. \A x \in S : (\A y \in S : x <= y) => x = m
    OBVIOUS
  <1> QED BY <1>1, <1>2 DEF Min

\* The lines that turn the branch of block j before line i.
Turns(j, i) ==
  {k \in With({"IFTRUE", "IFFALSE"}) :
     j < k /\ k < i /\ Encloses(j, k) /\ Depth(k) = Depth(j) + 1}

\* The branch is that of the last turn.
LEMMA BranchIs ==
  \A j, i : Branch(j, i) = IF Turns(j, i) = {} THEN "none" ELSE Tag(Max(Turns(j, i)))
  BY DEF Branch, Turns

\* A line turns the branch of the innermost block that it is in.
LEMMA BranchStep ==
  ASSUME IsTemplate, NEW n \in DOMAIN template, NEW j, Encloses(j, n)
  PROVE  Branch(j, n + 1) =
           IF n \in With({"IFTRUE", "IFFALSE"}) /\ Depth(n) = Depth(j) + 1 THEN Tag(n)
           ELSE Branch(j, n)
  <1>1. j \in With({"IF"}) /\ j < n /\ j \in Nat /\ n \in Nat
    <2>1. j \in With({"IF"}) /\ j < n
      BY DEF Encloses
    <2> QED BY <2>1, WithIn DEF IsTemplate
  <1>2. \A k \in With({"IFTRUE", "IFFALSE"}) : k \in Nat
    BY WithIn DEF IsTemplate
  <1>3. CASE n \in With({"IFTRUE", "IFFALSE"}) /\ Depth(n) = Depth(j) + 1
    <2>1. n \in Turns(j, n + 1)
      BY <1>1, <1>3 DEF Turns
    <2>2. \A k \in Turns(j, n + 1) : k \in Nat /\ k <= n
      BY <1>1, <1>2 DEF Turns
    <2>3. Max(Turns(j, n + 1)) = n
      BY <2>1, <2>2, MaxIs
    <2> QED BY <1>3, <2>1, <2>3, BranchIs
  <1>4. CASE ~(n \in With({"IFTRUE", "IFFALSE"}) /\ Depth(n) = Depth(j) + 1)
    <2>1. \A k \in With({"IFTRUE", "IFFALSE"}) : k < n + 1 <=> k < n \/ k = n
      BY <1>1, <1>2
    <2>2. Turns(j, n + 1) = Turns(j, n)
      BY <1>4, <2>1 DEF Turns
    <2> QED BY <1>4, <2>2, BranchIs
  <1> QED BY <1>3, <1>4

\* A block that was just opened is in neither branch.
LEMMA BranchAtFirst ==
  ASSUME IsTemplate, NEW n \in With({"IF"})
  PROVE  Branch(n, n + 1) = "none"
  <1>1. n \in Nat
    BY WithIn DEF IsTemplate
  <1>2. \A k \in With({"IFTRUE", "IFFALSE"}) : k \in Nat
    BY WithIn DEF IsTemplate
  <1>3. \A k \in With({"IFTRUE", "IFFALSE"}) : ~(n < k /\ k < n + 1)
    BY <1>1, <1>2
  <1>4. Turns(n, n + 1) = {}
    BY <1>3 DEF Turns
  <1> QED BY <1>4, BranchIs

\* An inner block does not turn the branch of an outer one.
LEMMA BranchOuter ==
  ASSUME IsTemplate, NEW i, NEW j, NEW n \in Nat, Encloses(i, j), Encloses(j, n)
  PROVE  Branch(i, j) = Branch(i, n)
  <1>1. /\ i \in With({"IF"}) /\ i < j /\ \A k \in i + 1 .. j : Depth(k) > Depth(i)
        /\ j \in With({"IF"}) /\ j < n /\ \A k \in j + 1 .. n : Depth(k) > Depth(j)
    BY DEF Encloses
  <1>2. i \in Nat /\ j \in Nat /\ Tag(j) = "IF"
    BY <1>1, WithIn DEF IsTemplate
  <1>3. ASSUME NEW k \in With({"IFTRUE", "IFFALSE"}), k < n, Depth(k) = Depth(i) + 1
        PROVE  k < j
    <2>1. k \in Nat /\ k # j
      BY <1>2, WithIn DEF IsTemplate
    <2>2. ~(j < k)
      <3> SUFFICES ASSUME j < k PROVE FALSE
        OBVIOUS
      <3>1. k \in j + 1 .. n /\ j \in i + 1 .. j
        BY <1>1, <1>2, <1>3, <2>1
      <3>2. Depth(k) > Depth(j) /\ Depth(j) > Depth(i)
        BY <1>1, <3>1
      <3>3. Depth(i) \in Int /\ Depth(j) \in Int /\ Depth(k) \in Int
        BY <1>2, <2>1, DepthStep
      <3> QED BY <1>3, <3>2, <3>3
    <2> QED BY <1>2, <2>1, <2>2
  <1>4. \A k \in With({"IFTRUE", "IFFALSE"}) : k < j => k < n
    <2>1. \A k \in With({"IFTRUE", "IFFALSE"}) : k \in Nat
      BY WithIn DEF IsTemplate
    <2> QED BY <1>1, <1>2, <2>1
  <1>5. Turns(i, j) = Turns(i, n)
    BY <1>3, <1>4 DEF Turns
  <1> QED BY <1>5, BranchIs

\* Where a line is shown, the blocks it is in are in branches that are taken.
LEMMA TakenOuter ==
  ASSUME IsTemplate, NEW n \in Nat, NEW j, Encloses(j, n),
         \A i \in With({"IF"}) : i < j /\ Encloses(i, n) =>
           Branch(i, n) = "none" \/ (Branch(i, n) = "IFTRUE") = Holds(i)
  PROVE  Taken(j)
  <1>1. ASSUME NEW i \in With({"IF"}), Encloses(i, j)
        PROVE  Branch(i, j) = "none" \/ (Branch(i, j) = "IFTRUE") = Holds(i)
    <2>1. i < j /\ Encloses(i, n) /\ Branch(i, j) = Branch(i, n)
      BY <1>1, EnclosesOuter, BranchOuter DEF Encloses
    <2> QED BY <2>1
  <1> QED BY <1>1 DEF Taken

\* The conditions before the next line.
LEMMA ConditionsStep ==
  ASSUME IsTemplate
  PROVE  /\ ConditionsOf(1) = {}
         /\ \A n \in DOMAIN template :
              ConditionsOf(n + 1) = IF n \in Users THEN {}
                                    ELSE IF n \in Conditions THEN ConditionsOf(n) \cup {n}
                                    ELSE ConditionsOf(n)
  <1>1. PICK len \in Nat : DOMAIN template = 1 .. len
    BY DEF IsTemplate
  <1>2. /\ \A k \in Conditions : k \in 1 .. len
        /\ \A u \in Users : u \in 1 .. len
        /\ Conditions \cap Users = {}
    BY <1>1, WithIn DEF Conditions, Users
  <1>3. ConditionsOf(1) = {}
    BY <1>2 DEF ConditionsOf
  <1>4. ASSUME NEW n \in 1 .. len
        PROVE  ConditionsOf(n + 1) = IF n \in Users THEN {}
                                     ELSE IF n \in Conditions THEN ConditionsOf(n) \cup {n}
                                     ELSE ConditionsOf(n)
    <2>1. \A k \in 1 .. len : k < n + 1 <=> k < n \/ k = n
      OBVIOUS
    <2>2. CASE n \in Users
      <3>1. \A k \in Conditions : k < n + 1 => k < n /\ n < n + 1
        BY <1>2, <2>1, <2>2
      <3> QED BY <2>2, <3>1 DEF ConditionsOf
    <2>3. CASE n \notin Users
      <3>1. \A u \in Users : u < n + 1 <=> u < n
        BY <1>2, <2>1, <2>3
      <3>2. \A u \in Users : ~(n < u /\ u < n)
        BY <1>2
      <3> QED BY <1>2, <2>1, <2>3, <3>1, <3>2 DEF ConditionsOf
    <2> QED BY <2>2, <2>3
  <1> QED BY <1>1, <1>3, <1>4

\* A condition that starts a group of C, and whether its group holds.
Begins(C, f) == f \in C /\ ((\A k \in C : f <= k) \/ Tag(f) = "ORFACT")
InGroup(C, f, k) == k >= f /\ \A o \in f + 1 .. k : o \in C => Tag(o) # "ORFACT"
GroupHolds(C, f) == \A k \in C : InGroup(C, f, k) => Means(template[k].expr, FactsFor(k))

\* The conditions before a line hold if those of one group do.
LEMMA HoldsIs ==
  ASSUME IsTemplate, NEW n
  PROVE  Holds(n) <=> \/ ConditionsOf(n) = {}
                      \/ \E f \in ConditionsOf(n) : Begins(ConditionsOf(n), f)
                                                    /\ GroupHolds(ConditionsOf(n), f)
  <1>1. PICK C : C = ConditionsOf(n)
    OBVIOUS
  <1>2. C \in SUBSET Nat
    <2>1. \A k \in Conditions : k \in Nat
      BY WithIn DEF IsTemplate, Conditions
    <2> QED BY <1>1, <2>1 DEF ConditionsOf
  <1>3. ASSUME NEW f \in C PROVE f = Min(C) <=> \A k \in C : f <= k
    <2>1. PICK m \in C : \A k \in C : m <= k
      BY <1>2, FirstOf
    <2>2. Min(C) = m
      BY <1>2, <2>1, MinIs
    <2>3. m \in Nat /\ f \in Nat /\ m <= f
      BY <1>2, <2>1
    <2> QED BY <2>1, <2>2, <2>3
  <1>4. Holds(n) <=> \/ C = {}
                     \/ \E f \in C : (f = Min(C) \/ Tag(f) = "ORFACT") /\ GroupHolds(C, f)
    BY <1>1 DEF Holds, GroupHolds, InGroup
  <1>5. \A f \in C : Begins(C, f) <=> f = Min(C) \/ Tag(f) = "ORFACT"
    BY <1>3 DEF Begins
  <1> QED BY <1>1, <1>4, <1>5

\* A line of an RTEXT block is in one block.
LEMMA OpensOnce ==
  ASSUME IsTemplate, NEW i, NEW j, NEW n \in Nat, Opens(i, n), Opens(j, n)
  PROVE  i = j
  <1>1. \A k \in With({"RTEXT_START"}) : k \in Nat /\ k \in Plain
    BY WithIn DEF IsTemplate
  <1>2. /\ i \in With({"RTEXT_START"}) /\ i < n /\ \A k \in i + 1 .. n - 1 : k \notin Plain
        /\ j \in With({"RTEXT_START"}) /\ j < n /\ \A k \in j + 1 .. n - 1 : k \notin Plain
    BY DEF Opens
  <1> QED BY <1>1, <1>2

\* The text does not change while it is rendered.
LEMMA TextStays ==
  ASSUME template' = template, context' = context
  PROVE  /\ \A i : Tag(i)' = Tag(i) /\ Depth(i)' = Depth(i) /\ FactsFor(i)' = FactsFor(i)
         /\ \A i : QuotedAfter(i)' <=> QuotedAfter(i)
         /\ Plain' = Plain /\ \A tags : With(tags)' = With(tags)
         /\ Conditions' = Conditions /\ Users' = Users
         /\ \A i, j : (Encloses(j, i)' <=> Encloses(j, i)) /\ Branch(j, i)' = Branch(j, i)
         /\ \A i : ConditionsOf(i)' = ConditionsOf(i)
         /\ \A i : (Holds(i)' <=> Holds(i)) /\ (Taken(i)' <=> Taken(i))
         /\ \A i : (Shown(i)' <=> Shown(i)) /\ Form(i)' = Form(i)
         /\ \A C, f : (Begins(C, f)' <=> Begins(C, f)) /\ (GroupHolds(C, f)' <=> GroupHolds(C, f))
  <1>1. \A i : Tag(i)' = Tag(i)
    BY DEF Tag
  <1>2. \A i : QuotedAfter(i)' <=> QuotedAfter(i)
    BY DEF QuotedAfter, Tag
  <1>3. Plain' = Plain
    BY DEF Plain, QuotedAfter, Tag
  <1>4. \A tags : With(tags)' = With(tags)
    BY DEF With, Plain, QuotedAfter, Tag
  <1>5. \A i : Depth(i)' = Depth(i)
    BY DEF Depth, With, Plain, QuotedAfter, Tag
  <1>6. Conditions' = Conditions /\ Users' = Users
    BY DEF Conditions, Users, With, Plain, QuotedAfter, Tag
  <1>7. \A i, j : Encloses(j, i)' <=> Encloses(j, i)
    BY DEF Encloses, Depth, With, Plain, QuotedAfter, Tag
  <1>8. \A i, j : Branch(j, i)' = Branch(j, i)
    BY DEF Branch, Encloses, Depth, With, Plain, QuotedAfter, Tag
  <1>9. \A i : ConditionsOf(i)' = ConditionsOf(i) /\ FactsFor(i)' = FactsFor(i)
    BY DEF ConditionsOf, Conditions, Users, With, Plain, QuotedAfter, Tag, FactsFor
  <1>10. \A i : Holds(i)' <=> Holds(i)
    BY DEF Holds, ConditionsOf, Conditions, Users, With, Plain, QuotedAfter, Tag, FactsFor
  <1>11. \A i : Taken(i)' <=> Taken(i)
    BY DEF Taken, Holds, ConditionsOf, Conditions, Users, FactsFor, Branch, Encloses, Depth,
           With, Plain, QuotedAfter, Tag
  <1>12. \A i : Form(i)' = Form(i)
    BY DEF Form, Plain, QuotedAfter, Tag
  <1>13. \A i : Shown(i)' <=> Shown(i)
    <2>1. \A i, j : Opens(j, i)' <=> Opens(j, i)
      BY DEF Opens, With, Plain, QuotedAfter, Tag
    <2> QED BY <1>1, <1>3, <1>10, <1>11, <2>1 DEF Shown
  <1>14. \A C, f : (Begins(C, f)' <=> Begins(C, f)) /\ (GroupHolds(C, f)' <=> GroupHolds(C, f))
    BY DEF Begins, GroupHolds, InGroup, FactsFor, Tag
  <1> QED BY <1>1, <1>2, <1>3, <1>4, <1>5, <1>6, <1>7, <1>8, <1>9, <1>10, <1>11, <1>12, <1>13,
             <1>14

-----------------------------------------------------------------------------
(* Types.                                                                   *)

\* What a frame of the stack is, and what is emitted.
Frame == [cond : BOOLEAN, branch : {"none", "true", "false"}]
Emitted == [line : Nat, form : {"raw", "value", "chunk", "token"}]

Shaped ==
  /\ pending \in Seq(Seq(Seq(Word))) /\ current \in Seq(Seq(Word))
  /\ quote \in [open : BOOLEAN, from : Nat, cond : BOOLEAN]
  /\ out \in Seq(Emitted)

\* The types that the properties ask for, and those of the other variables.
Typed == TemplateTypeOK /\ Shaped

\* What the types say of the text.
LEMMA TypedText == ASSUME Typed
                   PROVE  /\ IsTemplate /\ Len(template) \in Nat /\ at \in Nat
                          /\ DOMAIN template = 1 .. Len(template)
                          /\ Len(template) <= Len(Sentinels) /\ Len(Sentinels) \in Nat
                          /\ context \in Context
  <1>1. template \in Seq(Line) /\ Len(template) <= Len(Sentinels) /\ Sentinels \in Seq(Keys)
        /\ at \in 1 .. Len(template) + 1 /\ context \in Context
    BY TemplateAssumption DEF Typed, TemplateTypeOK
  <1> QED BY <1>1 DEF IsTemplate

\* A line that is read, by what it is.
LEMMA Passing ==
  ASSUME Typed, at \in DOMAIN template, Proceed
  PROVE  /\ at' = at + 1 /\ at' \in 1 .. Len(template) + 1
         /\ template' = template /\ context' = context /\ status' = status
         /\ template[at] \in Line
         /\ (QuotedAfter(at - 1))' <=>
              Tag(at) # "RTEXT_END" /\ (Tag(at) = "RTEXT_START" \/ quote.open)
         /\ (Depth(at))' = IF ~quote.open /\ Tag(at) = "IF" THEN Len(stack) + 1
                           ELSE IF ~quote.open /\ Tag(at) = "IFEND" THEN Len(stack) - 1
                           ELSE Len(stack)
  <1>1. at' = at + 1 /\ template' = template /\ context' = context /\ status' = status
    BY DEF Proceed
  <1>2. /\ IsTemplate /\ DOMAIN template = 1 .. Len(template) /\ Len(template) \in Nat
        /\ at \in Nat
    BY TypedText
  <1>3. at' \in 1 .. Len(template) + 1 /\ template[at] \in Line
    BY <1>1, <1>2 DEF IsTemplate
  <1>4. (quote.open <=> QuotedAfter(at - 1)) /\ Len(stack) = Depth(at)
    BY DEF Typed, TemplateTypeOK
  <1>5. (QuotedAfter(at - 1))' <=> QuotedAfter(at)
    <2>1. \A i : QuotedAfter(i)' <=> QuotedAfter(i)
      BY <1>1, TextStays
    <2>2. at' - 1 = at
      BY <1>1, <1>2
    <2> QED BY <2>1, <2>2
  <1>6. (Depth(at))' = Depth(at + 1)
    <2>1. \A i : Depth(i)' = Depth(i)
      BY <1>1, TextStays
    <2> QED BY <1>1, <2>1
  <1>7. \A tags : at \in With(tags) <=> ~quote.open /\ Tag(at) \in tags
    BY <1>4, PlainIs
  <1>8. QuotedAfter(at) <=> Tag(at) # "RTEXT_END" /\ (Tag(at) = "RTEXT_START" \/ quote.open)
    BY <1>2, <1>4, QuotedStep
  <1>9. Depth(at + 1) = IF at \in With({"IF"}) THEN Depth(at) + 1
                        ELSE IF at \in With({"IFEND"}) THEN Depth(at) - 1
                        ELSE Depth(at)
    BY <1>2, DepthStep
  <1>10. /\ at \in With({"IF"}) <=> ~quote.open /\ Tag(at) = "IF"
         /\ at \in With({"IFEND"}) <=> ~quote.open /\ Tag(at) = "IFEND"
    BY <1>7
  <1> QED BY <1>1, <1>3, <1>4, <1>5, <1>6, <1>8, <1>9, <1>10

\* An action reads a line, or stops at it.
Stopped == UNCHANGED <<template, context, facts, at, stack, pending, current, quote, out>>

\* A step is one or the other, or none.
LEMMA ReadsOrStops ==
  ASSUME Typed, [Next]_vars
  PROVE  UNCHANGED vars \/ Stopped \/ (at \in DOMAIN template /\ Proceed)
  BY DEF Next, vars, Stopped, Raise, Reading, ReadQuoted, ReadText, ReadFact, ReadOrFact,
         ReadMemCond, OpenIf, TurnBranch, CloseIf, OpenQuote, Include, EvalMem, Refuse, Finish

\* The groups that are evaluated are of the type of those pending.
LEMMA FlushedTyped ==
  ASSUME Shaped PROVE Flushed \in Seq(Seq(Seq(Word)))
  BY DEF Shaped, Flushed

\* Their outcome is one of four.
LEMMA ConditionTyped ==
  ASSUME Shaped PROVE Condition \in Outcomes
  <1>1. PICK groups \in Seq(Seq(Seq(Word))) : groups = Flushed
    BY FlushedTyped
  <1>2. Len(groups) \in Nat /\ DOMAIN groups = 1 .. Len(groups)
        /\ \A g \in 1 .. Len(groups) : \E m \in Nat : DOMAIN groups[g] = 1 .. m
    OBVIOUS
  <1>3. EvalConditionGroups(groups, facts) \in Outcomes
    BY <1>2, GroupsTyped
  <1> QED BY <1>1, <1>3 DEF Condition, Outcomes

\* What is emitted comes after what was.
LEMMA EmitIs ==
  ASSUME out \in Seq(Emitted), NEW lines \in Seq(Nat),
         NEW form \in {"raw", "value", "chunk", "token"},
         Emit(lines, form)
  PROVE  /\ out' \in Seq(Emitted) /\ Len(out') = Len(out) + Len(lines)
         /\ Len(out) \in Nat /\ Len(lines) \in Nat
         /\ \A k \in 1 .. Len(out) : out'[k] = out[k]
         /\ \A k \in 1 .. Len(lines) :
              out'[Len(out) + k].line = lines[k] /\ out'[Len(out) + k].form = form
  <1>1. PICK more : more = [k \in 1 .. Len(lines) |-> [line |-> lines[k], form |-> form]]
    OBVIOUS
  <1>2. /\ more \in Seq(Emitted) /\ Len(more) = Len(lines) /\ Len(lines) \in Nat
        /\ \A k \in 1 .. Len(lines) : more[k].line = lines[k] /\ more[k].form = form
    BY <1>1 DEF Emitted
  <1>3. out' = out \o more
    BY <1>1 DEF Emit
  <1>4. out' \in Seq(Emitted) /\ Len(out') = Len(out) + Len(more) /\ Len(out) \in Nat
    <2>1. PICK old \in Seq(Emitted) : old = out
      OBVIOUS
    <2>2. PICK new \in Seq(Emitted) : new = more
      BY <1>2
    <2>3. old \o new \in Seq(Emitted) /\ Len(old \o new) = Len(old) + Len(new)
          /\ Len(old) \in Nat
      OBVIOUS
    <2> QED BY <1>3, <2>1, <2>2, <2>3
  <1>5. \A k \in 1 .. Len(out) : out'[k] = out[k]
    BY <1>2, <1>3
  <1>6. \A k \in 1 .. Len(more) : out'[Len(out) + k] = more[k]
    BY <1>2, <1>3
  <1> QED BY <1>2, <1>4, <1>5, <1>6

\* One line is emitted.
LEMMA EmitThisIs ==
  ASSUME Typed, NEW form \in {"raw", "value", "chunk", "token"}, EmitThis(form)
  PROVE  /\ out' \in Seq(Emitted) /\ Len(out') = Len(out) + 1 /\ Len(out) \in Nat
         /\ \A k \in 1 .. Len(out) : out'[k] = out[k]
         /\ out'[Len(out) + 1].line = at /\ out'[Len(out) + 1].form = form
  <1>1. at \in Nat /\ out \in Seq(Emitted)
    BY TypedText DEF Typed, Shaped
  <1>2. PICK lines : lines = <<at>>
    OBVIOUS
  <1>3. Emit(lines, form)
    BY <1>2 DEF EmitThis
  <1>4. lines \in Seq(Nat) /\ Len(lines) = 1 /\ lines[1] = at /\ 1 \in 1 .. 1
    BY <1>1, <1>2
  <1>5. /\ out' \in Seq(Emitted) /\ Len(out') = Len(out) + Len(lines)
        /\ Len(out) \in Nat
        /\ \A k \in 1 .. Len(out) : out'[k] = out[k]
        /\ \A k \in 1 .. Len(lines) :
             out'[Len(out) + k].line = lines[k] /\ out'[Len(out) + k].form = form
    BY <1>1, <1>3, <1>4, EmitIs
  <1> QED BY <1>4, <1>5

\* Every step keeps the types; the stack is as deep as the text.
LEMMA TypeStep ==
  ASSUME Typed, [Next]_vars
  PROVE  Typed'
  <1>1. /\ template \in Templates /\ context \in Contexts /\ facts \in Facts
        /\ at \in 1 .. Len(template) + 1
        /\ stack \in Seq(Frame) /\ Len(stack) = Depth(at)
        /\ \A k \in DOMAIN pending : pending[k] # <<>>
        /\ quote.open <=> QuotedAfter(at - 1)
        /\ status \in {"rendering", "done", "ParseError", "CondError", "IndexError"}
        /\ pending \in Seq(Seq(Seq(Word))) /\ current \in Seq(Seq(Word))
        /\ quote \in [open : BOOLEAN, from : Nat, cond : BOOLEAN]
        /\ out \in Seq(Emitted) /\ at \in Nat
    BY TypedText DEF Typed, TemplateTypeOK, Shaped, Frame
  <1>2. CASE UNCHANGED vars
    BY <1>2 DEF vars, Typed, TemplateTypeOK, Shaped, Depth, With, Plain, QuotedAfter, Tag
  <1>3. Condition \in Outcomes
    BY ConditionTyped DEF Typed
  <1>4. CASE Stopped /\ Next /\ ~UNCHANGED vars
    <2>1. status' \in {"rendering", "done", "ParseError", "CondError", "IndexError"}
      <3>1. CASE ReadMemCond
        <4>1. EvalExpr(template[at].expr, context.counts) \in Outcomes
          BY EvalTyped
        <4> QED BY <1>4, <3>1, <4>1 DEF ReadMemCond, Raise, Proceed, Stopped, Outcomes
      <3>2. CASE OpenIf
        BY <1>1, <1>3, <3>2 DEF OpenIf, Raise, Proceed, Outcomes
      <3>3. CASE OpenQuote
        BY <1>1, <1>3, <3>3 DEF OpenQuote, Raise, Proceed, Outcomes
      <3>4. CASE Include
        BY <1>1, <1>3, <3>4 DEF Include, Raise, Proceed, Outcomes
      <3>5. CASE ReadQuoted \/ ReadText \/ ReadFact \/ ReadOrFact
        BY <1>1, <3>5 DEF ReadQuoted, ReadText, ReadFact, ReadOrFact, Proceed
      <3>6. CASE TurnBranch \/ CloseIf \/ EvalMem \/ Refuse \/ Finish
        BY <1>1, <3>6 DEF TurnBranch, CloseIf, EvalMem, Refuse, Finish, Raise, Proceed
      <3> QED BY <1>4, <3>1, <3>2, <3>3, <3>4, <3>5, <3>6 DEF Next
    <2> QED BY <1>4, <2>1 DEF Stopped, Typed, TemplateTypeOK, Shaped, Depth, With, Plain,
                             QuotedAfter, Tag
  <1>5. CASE at \in DOMAIN template /\ Proceed /\ Next
    <2>1. /\ at' = at + 1 /\ at' \in 1 .. Len(template) + 1
          /\ template' = template /\ context' = context /\ status' = status
          /\ template[at] \in Line
          /\ (QuotedAfter(at - 1))' <=>
               Tag(at) # "RTEXT_END" /\ (Tag(at) = "RTEXT_START" \/ quote.open)
          /\ (Depth(at))' = IF ~quote.open /\ Tag(at) = "IF" THEN Len(stack) + 1
                            ELSE IF ~quote.open /\ Tag(at) = "IFEND" THEN Len(stack) - 1
                            ELSE Len(stack)
      BY <1>5, Passing
    <2>2. Tag(at) = template[at].tag /\ template[at].expr \in Seq(Word)
          /\ Flushed \in Seq(Seq(Seq(Word)))
      BY <2>1, FlushedTyped DEF Tag, Line, Typed
    <2>3. \A k \in DOMAIN Flushed : Flushed[k] # <<>>
      <3>1. CASE current = <<>>
        BY <1>1, <3>1 DEF Flushed
      <3>2. CASE current # <<>>
        <4>1. PICK f : f = Append(pending, current)
          OBVIOUS
        <4>2. PICK n \in Nat : n = Len(pending) /\ DOMAIN pending = 1 .. n
          BY <1>1
        <4>3. DOMAIN f = 1 .. n + 1 /\ f[n + 1] = current /\ \A k \in 1 .. n : f[k] = pending[k]
          BY <1>1, <4>1, <4>2
        <4>4. \A k \in DOMAIN f : f[k] # <<>>
          <5>1. \A k \in 1 .. n + 1 : k = n + 1 \/ k \in 1 .. n
            OBVIOUS
          <5>2. \A k \in 1 .. n : pending[k] # <<>>
            BY <1>1, <4>2
          <5> QED BY <3>2, <4>3, <5>1, <5>2
        <4> QED BY <3>2, <4>1, <4>4 DEF Flushed
      <3> QED BY <3>1, <3>2
    <2>4. SUFFICES
            /\ facts' \in Facts
            /\ stack' \in Seq(Frame) /\ Len(stack') = (Depth(at))'
            /\ \A k \in DOMAIN pending' : pending'[k] # <<>>
            /\ quote'.open <=> (QuotedAfter(at - 1))'
            /\ pending' \in Seq(Seq(Seq(Word))) /\ current' \in Seq(Seq(Word))
            /\ quote' \in [open : BOOLEAN, from : Nat, cond : BOOLEAN]
            /\ out' \in Seq(Emitted)
      BY <1>1, <2>1 DEF Typed, TemplateTypeOK, Shaped, Frame
    <2>5. (EmitNothing \/ \E form \in {"raw", "value", "chunk", "token"} : EmitThis(form))
          => out' \in Seq(Emitted)
      BY <1>1, EmitThisIs DEF EmitNothing
    <2>6. CASE ReadQuoted
      <3>1. UNCHANGED <<facts, stack, pending, current>> /\ quote.open
        BY <2>6 DEF ReadQuoted
      <3>2. CASE Tag(at) # "RTEXT_END"
        BY <1>1, <2>1, <2>2, <2>6, <3>1, <3>2 DEF ReadQuoted
      <3>3. CASE Tag(at) = "RTEXT_END"
        <4>1. quote' = NoQuote
          BY <2>2, <2>6, <3>3 DEF ReadQuoted
        <4>2. out' \in Seq(Emitted)
          <5>1. CASE EmitNothing
            BY <1>1, <5>1 DEF EmitNothing
          <5>2. CASE ~EmitNothing
            <6>1. PICK lines : lines = [k \in 1 .. at - quote.from - 1 |-> quote.from + k]
              OBVIOUS
            <6>2. Emit(lines, "raw")
              BY <2>2, <2>6, <3>3, <5>2, <6>1 DEF ReadQuoted
            <6>3. lines \in Seq(Nat)
              <7>1. quote.from \in Nat
                BY <1>1
              <7>2. PICK n \in Nat : 1 .. at - quote.from - 1 = 1 .. n
                <8>1. CASE at - quote.from - 1 \in Nat
                  BY <8>1
                <8>2. CASE at - quote.from - 1 \notin Nat
                  <9>1. 1 .. at - quote.from - 1 = 1 .. 0
                    BY <1>1, <7>1, <8>2
                  <9> QED BY <9>1
                <8> QED BY <8>1, <8>2
              <7>3. lines = [k \in 1 .. n |-> quote.from + k]
                BY <6>1, <7>2
              <7> QED BY <7>1, <7>3
            <6> QED BY <1>1, <6>2, <6>3, EmitIs
          <5> QED BY <5>1, <5>2
        <4> QED BY <1>1, <2>1, <3>1, <3>3, <4>1, <4>2 DEF NoQuote
      <3> QED BY <3>2, <3>3
    <2>7. CASE ReadText
      <3>1. Tag(at) \in {"text", "comment"} /\ ~quote.open
            /\ UNCHANGED <<facts, stack, pending, current, quote>>
        BY <2>2, <2>7 DEF ReadText, Reading
      <3>2. out' \in Seq(Emitted)
        BY <2>5, <2>7 DEF ReadText
      <3> QED BY <1>1, <2>1, <3>1, <3>2
    <2>8. CASE ReadFact
      <3>1. Tag(at) = "FACT" /\ ~quote.open
            /\ UNCHANGED <<facts, stack, pending, quote, out>>
            /\ current' = Append(current, template[at].expr)
        BY <2>2, <2>8 DEF ReadFact, Reading
      <3> QED BY <1>1, <2>1, <2>2, <3>1
    <2>9. CASE ReadOrFact
      <3>1. Tag(at) = "ORFACT" /\ ~quote.open /\ UNCHANGED <<facts, stack, quote, out>>
            /\ current' = <<template[at].expr>> /\ pending' = Flushed
        BY <2>2, <2>9 DEF ReadOrFact, Reading
      <3> QED BY <1>1, <2>1, <2>2, <2>3, <3>1
    <2>10. CASE ReadMemCond
      <3>1. PICK answer : answer = EvalExpr(template[at].expr, context.counts)
        OBVIOUS
      <3>2. Tag(at) = "MEMCOND" /\ ~quote.open /\ answer \in {"yes", "no"}
            /\ facts' = [facts EXCEPT ![Sentinels[at]] = answer]
            /\ current' = Append(current, <<SentinelHolds>>)
            /\ UNCHANGED <<stack, pending, quote, out>>
        BY <1>1, <2>1, <2>2, <2>10, <3>1 DEF ReadMemCond, Reading, Raise
      <3>3. Sentinels[at] \in Keys /\ answer \in Values
        BY <1>5, <3>2, TypedText, TemplateAssumption
      <3>4. facts' \in Facts
        BY <1>1, <3>2, <3>3 DEF Facts
      <3>5. <<SentinelHolds>> \in Seq(Word)
        BY <3>3, TemplateAssumption DEF SentinelHolds, Word, Comparison
      <3>6. current' \in Seq(Seq(Word))
        BY <1>1, <3>2, <3>5
      <3> QED BY <1>1, <2>1, <3>2, <3>4, <3>6
    <2>11. CASE OpenIf
      <3>1. Tag(at) = "IF" /\ ~quote.open /\ UNCHANGED <<facts, quote, out>>
        BY <1>1, <2>1, <2>2, <2>11 DEF OpenIf, Reading, Raise
      <3>2. UNCHANGED <<pending, current>> \/ Consume
        BY <1>1, <2>1, <2>11 DEF OpenIf, Raise
      <3>3. PICK c \in BOOLEAN : c = (Condition = "yes")
        OBVIOUS
      <3>4. \E d \in BOOLEAN : stack' = Append(stack, [cond |-> d, branch |-> "none"])
        <4>1. CASE AllActive
          <5>1. stack' = Append(stack, [cond |-> Condition = "yes", branch |-> "none"])
            BY <1>1, <2>1, <2>11, <4>1 DEF OpenIf, Raise
          <5>2. stack' = Append(stack, [cond |-> c, branch |-> "none"])
            BY <3>3, <5>1
          <5> QED BY <5>2
        <4>2. CASE ~AllActive
          BY <2>11, <4>2 DEF OpenIf
        <4> QED BY <4>1, <4>2
      <3>5. stack' \in Seq(Frame) /\ Len(stack') = Len(stack) + 1
        BY <1>1, <3>4 DEF Frame
      <3>6. pending' \in Seq(Seq(Seq(Word))) /\ current' \in Seq(Seq(Word))
            /\ \A k \in DOMAIN pending' : pending'[k] # <<>>
        <4>1. CASE UNCHANGED <<pending, current>>
          BY <1>1, <4>1
        <4>2. CASE Consume
          BY <4>2 DEF Consume
        <4> QED BY <3>2, <4>1, <4>2
      <3> QED BY <1>1, <2>1, <3>1, <3>5, <3>6
    <2>12. CASE TurnBranch
      <3>1. Tag(at) \in {"IFTRUE", "IFFALSE"} /\ ~quote.open
            /\ UNCHANGED <<facts, pending, current, quote, out>> /\ stack # <<>>
            /\ stack' = [stack EXCEPT ![Len(stack)].branch =
                           IF template[at].tag = "IFTRUE" THEN "true" ELSE "false"]
        BY <1>1, <2>1, <2>2, <2>12 DEF TurnBranch, Reading, Raise
      <3>2. stack' \in Seq(Frame) /\ Len(stack') = Len(stack)
        <4>1. PICK b \in {"none", "true", "false"} :
                b = IF template[at].tag = "IFTRUE" THEN "true" ELSE "false"
          OBVIOUS
        <4>2. stack' = [stack EXCEPT ![Len(stack)] = [@ EXCEPT !.branch = b]]
          BY <3>1, <4>1
        <4>3. Len(stack) \in DOMAIN stack /\ stack[Len(stack)] \in Frame
          BY <1>1, <3>1
        <4>4. [stack[Len(stack)] EXCEPT !.branch = b] \in Frame
          BY <4>3 DEF Frame
        <4> QED BY <1>1, <4>2, <4>3, <4>4
      <3> QED BY <1>1, <2>1, <3>1, <3>2
    <2>13. CASE CloseIf
      <3>1. Tag(at) = "IFEND" /\ ~quote.open
            /\ UNCHANGED <<facts, pending, current, quote, out>> /\ stack # <<>>
            /\ stack' = Front(stack)
        BY <1>1, <2>1, <2>2, <2>13 DEF CloseIf, Reading, Raise
      <3>2. stack' \in Seq(Frame) /\ Len(stack') = Len(stack) - 1
        BY <1>1, <3>1 DEF Front
      <3> QED BY <1>1, <2>1, <3>1, <3>2
    <2>14. CASE OpenQuote
      <3>1. Tag(at) = "RTEXT_START" /\ ~quote.open /\ UNCHANGED <<facts, stack, out>> /\ Consume
            /\ quote' = [open |-> TRUE, from |-> at, cond |-> Condition = "yes" /\ AllActive]
        BY <1>1, <2>1, <2>2, <2>14 DEF OpenQuote, Reading, Raise
      <3>2. PICK c \in BOOLEAN : c = (Condition = "yes" /\ AllActive)
        OBVIOUS
      <3>3. quote' = [open |-> TRUE, from |-> at, cond |-> c]
        BY <3>1, <3>2
      <3>4. quote' \in [open : BOOLEAN, from : Nat, cond : BOOLEAN] /\ quote'.open
        BY <1>1, <3>3
      <3>5. pending' \in Seq(Seq(Seq(Word))) /\ current' \in Seq(Seq(Word))
            /\ \A k \in DOMAIN pending' : pending'[k] # <<>>
        BY <3>1 DEF Consume
      <3> QED BY <1>1, <2>1, <3>1, <3>4, <3>5
    <2>15. CASE Include
      <3>1. Tag(at) \in {"RCHUNK", "RSKILL"} /\ ~quote.open
            /\ UNCHANGED <<facts, stack, quote>> /\ Consume
        BY <1>1, <2>1, <2>2, <2>15 DEF Include, Reading, Raise
      <3>2. EmitNothing \/ EmitThis("chunk") \/ EmitThis("token")
        BY <1>1, <2>1, <2>15 DEF Include, Raise
      <3>3. out' \in Seq(Emitted)
        BY <2>5, <3>2
      <3>4. pending' \in Seq(Seq(Seq(Word))) /\ current' \in Seq(Seq(Word))
            /\ \A k \in DOMAIN pending' : pending'[k] # <<>>
        BY <3>1 DEF Consume
      <3> QED BY <1>1, <2>1, <3>1, <3>3, <3>4
    <2>16. CASE EvalMem
      <3>1. Tag(at) = "MEM" /\ ~quote.open
            /\ UNCHANGED <<facts, stack, pending, current, quote>>
        BY <1>1, <2>1, <2>2, <2>16 DEF EvalMem, Reading, Raise
      <3>2. out' \in Seq(Emitted)
        BY <1>1, <2>1, <2>5, <2>16 DEF EvalMem, Raise
      <3> QED BY <1>1, <2>1, <3>1, <3>2
    <2>17. CASE Refuse \/ Finish
      BY <1>1, <2>1, <2>17 DEF Refuse, Finish, Raise
    <2> QED BY <1>5, <2>6, <2>7, <2>8, <2>9, <2>10, <2>11, <2>12, <2>13, <2>14, <2>15, <2>16,
               <2>17 DEF Next
  <1> QED BY <1>2, <1>4, <1>5, ReadsOrStops

-----------------------------------------------------------------------------
(* What a line that is passed does to each variable.                        *)

\* The line is read as a directive, text or comment of these tags.
Directs(tags) == ~quote.open /\ Tag(at) \in tags

\* Only a MEMCOND changes the facts: by its sentinel.
LEMMA FactsMove ==
  ASSUME Typed, at \in DOMAIN template, Proceed, Next
  PROVE  IF Directs({"MEMCOND"})
         THEN /\ EvalExpr(template[at].expr, context.counts) \in Answers
              /\ facts' = [facts EXCEPT ![Sentinels[at]] =
                             EvalExpr(template[at].expr, context.counts)]
         ELSE facts' = facts
  <1>1. at' = at + 1 /\ at' # at /\ Tag(at) = template[at].tag
    BY TypedText DEF Proceed, Tag
  <1>2. CASE ReadMemCond
    BY <1>1, <1>2 DEF ReadMemCond, Reading, Raise, Directs, Answers
  <1>3. CASE ReadQuoted \/ ReadText \/ ReadFact \/ ReadOrFact
    BY <1>1, <1>3 DEF ReadQuoted, ReadText, ReadFact, ReadOrFact, Reading, Directs
  <1>4. CASE OpenIf \/ TurnBranch \/ CloseIf \/ OpenQuote
    BY <1>1, <1>4 DEF OpenIf, TurnBranch, CloseIf, OpenQuote, Reading, Raise, Directs
  <1>5. CASE Include \/ EvalMem \/ Refuse \/ Finish
    BY <1>1, <1>5 DEF Include, EvalMem, Refuse, Finish, Reading, Raise, Directs
  <1> QED BY <1>2, <1>3, <1>4, <1>5 DEF Next

\* Only the directives of blocks change the stack.
LEMMA StackMoves ==
  ASSUME Typed, at \in DOMAIN template, Proceed, Next
  PROVE  IF Directs({"IF"})
         THEN \E c \in BOOLEAN :
                /\ stack' = Append(stack, [cond |-> c, branch |-> "none"])
                /\ AllActive => (c <=> Condition = "yes") /\ Condition \in Answers
         ELSE IF Directs({"IFTRUE", "IFFALSE"})
         THEN /\ stack # <<>>
              /\ stack' = [stack EXCEPT ![Len(stack)].branch =
                             IF Tag(at) = "IFTRUE" THEN "true" ELSE "false"]
         ELSE IF Directs({"IFEND"}) THEN stack # <<>> /\ stack' = Front(stack)
         ELSE stack' = stack
  <1>1. at' = at + 1 /\ at' # at /\ Tag(at) = template[at].tag
    BY TypedText DEF Proceed, Tag
  <1>2. CASE OpenIf
    <2>1. Directs({"IF"})
      BY <1>1, <1>2 DEF OpenIf, Reading, Directs
    <2>2. CASE AllActive
      <3>1. PICK c \in BOOLEAN : c = (Condition = "yes")
        OBVIOUS
      <3>2. stack' = Append(stack, [cond |-> Condition = "yes", branch |-> "none"])
            /\ Condition \in Answers
        BY <1>1, <1>2, <2>2 DEF OpenIf, Raise, Answers
      <3>3. stack' = Append(stack, [cond |-> c, branch |-> "none"])
        BY <3>1, <3>2
      <3>4. c <=> Condition = "yes"
        BY <3>1
      <3> QED BY <2>1, <3>2, <3>3, <3>4
    <2>3. CASE ~AllActive
      <3>1. stack' = Append(stack, [cond |-> FALSE, branch |-> "none"])
        BY <1>2, <2>3 DEF OpenIf
      <3> QED BY <2>1, <2>3, <3>1
    <2> QED BY <2>2, <2>3
  <1>3. CASE TurnBranch \/ CloseIf
    BY <1>1, <1>3 DEF TurnBranch, CloseIf, Reading, Raise, Directs
  <1>4. CASE ReadQuoted \/ ReadText \/ ReadFact \/ ReadOrFact
    BY <1>1, <1>4 DEF ReadQuoted, ReadText, ReadFact, ReadOrFact, Reading, Directs
  <1>5. CASE ReadMemCond \/ OpenQuote \/ Include
    BY <1>1, <1>5 DEF ReadMemCond, OpenQuote, Include, Reading, Raise, Directs
  <1>6. CASE EvalMem \/ Refuse \/ Finish
    BY <1>1, <1>6 DEF EvalMem, Refuse, Finish, Reading, Raise, Directs
  <1> QED BY <1>2, <1>3, <1>4, <1>5, <1>6 DEF Next

\* What becomes of the conditions that were collected.
LEMMA ConditionsMove ==
  ASSUME Typed, at \in DOMAIN template, Proceed, Next
  PROVE  IF Directs({"FACT"})
         THEN pending' = pending /\ current' = Append(current, template[at].expr)
         ELSE IF Directs({"ORFACT"})
         THEN pending' = Flushed /\ current' = <<template[at].expr>>
         ELSE IF Directs({"MEMCOND"})
         THEN pending' = pending /\ current' = Append(current, <<Sentinel(at)>>)
         ELSE IF Directs({"IF", "RTEXT_START", "RCHUNK", "RSKILL"}) /\ (Tag(at) = "IF" => AllActive)
         THEN pending' = <<>> /\ current' = <<>> /\ Condition \in Answers
         ELSE pending' = pending /\ current' = current
  <1>1. at' = at + 1 /\ at' # at /\ Tag(at) = template[at].tag
    BY TypedText DEF Proceed, Tag
  <1>2. CASE OpenIf
    BY <1>1, <1>2 DEF OpenIf, Reading, Raise, Directs, Consume, Answers
  <1>3. CASE OpenQuote
    BY <1>1, <1>3 DEF OpenQuote, Reading, Raise, Directs, Consume, Answers
  <1>4. CASE Include
    BY <1>1, <1>4 DEF Include, Reading, Raise, Directs, Consume, Answers
  <1>5. CASE ReadMemCond
    BY <1>1, <1>5 DEF ReadMemCond, Reading, Raise, Directs, SentinelHolds, Sentinel
  <1>6. CASE ReadQuoted \/ ReadText \/ ReadFact \/ ReadOrFact
    BY <1>1, <1>6 DEF ReadQuoted, ReadText, ReadFact, ReadOrFact, Reading, Directs
  <1>7. CASE TurnBranch \/ CloseIf
    BY <1>1, <1>7 DEF TurnBranch, CloseIf, Reading, Raise, Directs
  <1>8. CASE EvalMem \/ Refuse \/ Finish
    BY <1>1, <1>8 DEF EvalMem, Refuse, Finish, Reading, Raise, Directs
  <1> QED BY <1>2, <1>3, <1>4, <1>5, <1>6, <1>7, <1>8 DEF Next

\* What becomes of the RTEXT block.
LEMMA QuoteMoves ==
  ASSUME Typed, at \in DOMAIN template, Proceed, Next
  PROVE  IF Directs({"RTEXT_START"})
         THEN /\ quote'.open /\ quote'.from = at
              /\ quote'.cond <=> Condition = "yes" /\ AllActive
         ELSE IF quote.open /\ Tag(at) = "RTEXT_END" THEN ~quote'.open
         ELSE quote' = quote
  <1>1. at' = at + 1 /\ at' # at /\ Tag(at) = template[at].tag
    BY TypedText DEF Proceed, Tag
  <1>2. CASE OpenQuote
    <2>1. Directs({"RTEXT_START"})
      BY <1>1, <1>2 DEF OpenQuote, Reading, Directs
    <2>2. quote' = [open |-> TRUE, from |-> at, cond |-> Condition = "yes" /\ AllActive]
      BY <1>1, <1>2 DEF OpenQuote, Raise
    <2>3. PICK c \in BOOLEAN : c = (Condition = "yes" /\ AllActive)
      OBVIOUS
    <2>4. quote' = [open |-> TRUE, from |-> at, cond |-> c]
      BY <2>2, <2>3
    <2>5. c <=> Condition = "yes" /\ AllActive
      BY <2>3
    <2> QED BY <2>1, <2>4, <2>5
  <1>3. CASE ReadQuoted
    BY <1>1, <1>3 DEF ReadQuoted, NoQuote, Directs
  <1>4. CASE ReadText \/ ReadFact \/ ReadOrFact \/ ReadMemCond
    BY <1>1, <1>4 DEF ReadText, ReadFact, ReadOrFact, ReadMemCond, Reading, Raise, Directs
  <1>5. CASE OpenIf \/ TurnBranch \/ CloseIf
    BY <1>1, <1>5 DEF OpenIf, TurnBranch, CloseIf, Reading, Raise, Directs
  <1>6. CASE Include \/ EvalMem \/ Refuse \/ Finish
    BY <1>1, <1>6 DEF Include, EvalMem, Refuse, Finish, Reading, Raise, Directs
  <1> QED BY <1>2, <1>3, <1>4, <1>5, <1>6 DEF Next

\* What is emitted.
LEMMA OutMoves ==
  ASSUME Typed, at \in DOMAIN template, Proceed, Next
  PROVE  IF quote.open
         THEN IF Tag(at) = "RTEXT_END" /\ quote.cond /\ AllActive
              THEN Emit([k \in 1 .. at - quote.from - 1 |-> quote.from + k], "raw")
              ELSE out' = out
         ELSE IF AllActive /\ Tag(at) = "text" THEN EmitThis("raw")
         ELSE IF AllActive /\ Tag(at) = "MEM" THEN EmitThis("value")
         ELSE IF AllActive /\ Tag(at) \in {"RCHUNK", "RSKILL"} /\ Condition = "yes"
         THEN EmitThis(IF Tag(at) = "RCHUNK" \/ context.expand THEN "chunk" ELSE "token")
         ELSE out' = out
  <1>1. at' = at + 1 /\ at' # at /\ Tag(at) = template[at].tag
    BY TypedText DEF Proceed, Tag
  <1>2. CASE ReadQuoted
    BY <1>1, <1>2 DEF ReadQuoted, EmitNothing
  <1>3. CASE ReadText
    BY <1>1, <1>3 DEF ReadText, Reading, EmitNothing
  <1>4. CASE Include
    BY <1>1, <1>4 DEF Include, Reading, Raise, EmitNothing
  <1>5. CASE EvalMem
    BY <1>1, <1>5 DEF EvalMem, Reading, Raise, EmitNothing
  <1>6. CASE ReadFact \/ ReadOrFact \/ ReadMemCond
    BY <1>1, <1>6 DEF ReadFact, ReadOrFact, ReadMemCond, Reading, Raise
  <1>7. CASE OpenIf \/ TurnBranch \/ CloseIf
    BY <1>1, <1>7 DEF OpenIf, TurnBranch, CloseIf, Reading, Raise
  <1>8. CASE OpenQuote \/ Refuse \/ Finish
    BY <1>1, <1>8 DEF OpenQuote, Refuse, Finish, Reading, Raise
  <1> QED BY <1>2, <1>3, <1>4, <1>5, <1>6, <1>7, <1>8 DEF Next

-----------------------------------------------------------------------------
(* The facts, and where the conditions that are collected were written.     *)

\* Before line n: facts that MEMCOND lines have not left are those of the context.
FitFacts(fs, n) ==
  /\ \A key \in Keys :
       (\A i \in DOMAIN Sentinels : key # Sentinels[i]) => fs[key] = context.facts[key]
  /\ \A k \in With({"MEMCOND"}) : k < n =>
       /\ EvalExpr(template[k].expr, context.counts) \in Answers
       /\ fs[Sentinels[k]] = EvalExpr(template[k].expr, context.counts)

\* The expression e was written at line k, or left by it.
Origin(e, k) == e = IF Tag(k) = "MEMCOND" THEN <<Sentinel(k)>> ELSE template[k].expr
OriginBefore(e, n) == \E k \in Conditions : k < n /\ Origin(e, k)

\* The groups p and c are of conditions before line n.
Origins(p, c, n) ==
  /\ \A m \in DOMAIN c : OriginBefore(c[m], n)
  /\ \A g \in DOMAIN p : \A m \in DOMAIN p[g] : OriginBefore(p[g][m], n)

\* The conditions before line n are sound and do not mention the renderer's facts.
SoundBefore(n) == \A k \in Conditions :
  k < n => Sound(template[k].expr, FactsFor(k)) /\ Own(template[k].expr)

\* The line that is read as a directive is the one the text says.
LEMMA ReadIs ==
  ASSUME Typed, at \in DOMAIN template, NEW tags
  PROVE  at \in With(tags) <=> Directs(tags)
  <1>1. quote.open <=> QuotedAfter(at - 1)
    BY DEF Typed, TemplateTypeOK
  <1> QED BY <1>1, PlainIs DEF Directs

\* A line leaves the facts that the next one finds.
LEMMA FactsStep ==
  ASSUME Typed, at \in DOMAIN template, Proceed, Next, FitFacts(facts, at)
  PROVE  FitFacts(facts', at + 1)
  <1>1. /\ facts \in Facts /\ Sentinels \in Seq(Keys) /\ Len(template) <= Len(Sentinels)
        /\ DOMAIN template = 1 .. Len(template) /\ Len(template) \in Nat
        /\ \A i, j \in DOMAIN Sentinels : Sentinels[i] = Sentinels[j] => i = j
    BY TypedText, TemplateAssumption DEF Typed, TemplateTypeOK
  <1>2. \A k \in With({"MEMCOND"}) : k \in DOMAIN template
    BY WithIn
  <1>3. /\ DOMAIN facts = Keys
        /\ \A k \in DOMAIN template : k \in DOMAIN Sentinels /\ Sentinels[k] \in Keys
    BY <1>1 DEF Facts
  <1>4. at \in With({"MEMCOND"}) <=> Directs({"MEMCOND"})
    BY ReadIs
  <1>5. \A k \in With({"MEMCOND"}) : k < at + 1 <=> k < at \/ k = at
    BY <1>1, <1>2
  <1>6. CASE Directs({"MEMCOND"})
    <2>1. PICK x : x = EvalExpr(template[at].expr, context.counts)
      OBVIOUS
    <2>2. x \in Answers /\ facts' = [facts EXCEPT ![Sentinels[at]] = x]
      BY <1>6, <2>1, FactsMove
    <2>3. /\ facts'[Sentinels[at]] = x
          /\ \A key \in Keys : key # Sentinels[at] => facts'[key] = facts[key]
      BY <1>3, <2>2
    <2>4. \A k \in With({"MEMCOND"}) : k # at => Sentinels[k] # Sentinels[at]
      BY <1>1, <1>2, <1>3
    <2> QED BY <1>2, <1>3, <1>5, <2>1, <2>2, <2>3, <2>4 DEF FitFacts
  <1>7. CASE ~Directs({"MEMCOND"})
    <2>1. facts' = facts
      BY <1>7, FactsMove
    <2> QED BY <1>4, <1>5, <1>7, <2>1 DEF FitFacts
  <1> QED BY <1>6, <1>7

\* What a condition is evaluated to, in the facts there are later.
LEMMA OriginValue ==
  ASSUME IsTemplate, NEW fs, NEW n, FitFacts(fs, n), SoundBefore(n),
         NEW k \in Conditions, k < n, NEW e, Origin(e, k)
  PROVE  EvalExpr(e, fs) = Answer(Means(template[k].expr, FactsFor(k)))
  <1>1. k \in DOMAIN template /\ k \in Plain /\ Tag(k) \in {"FACT", "ORFACT", "MEMCOND"}
    BY WithIn DEF Conditions
  <1>2. PICK words \in Seq(Word) : words = template[k].expr
    <2>1. template[k] \in Line
      BY <1>1 DEF IsTemplate
    <2> QED BY <2>1 DEF Line
  <1>3. Sound(words, FactsFor(k)) /\ Own(words)
    BY <1>2 DEF SoundBefore
  <1>4. EvalExpr(words, FactsFor(k)) = Answer(Means(words, FactsFor(k)))
    BY <1>3, SoundEvaluates
  <1>5. CASE Tag(k) = "MEMCOND"
    <2>1. k \in With({"MEMCOND"}) /\ FactsFor(k) = context.counts /\ e = <<Sentinel(k)>>
      BY <1>1, <1>5 DEF With, FactsFor, Origin
    <2>2. EvalExpr(words, context.counts) \in Answers
          /\ fs[Sentinels[k]] = EvalExpr(words, context.counts)
      BY <1>2, <2>1 DEF FitFacts
    <2>3. EvalExpr(e, fs) = fs[Sentinels[k]]
      BY <2>1, <2>2, SentinelValue
    <2> QED BY <1>2, <1>4, <2>1, <2>2, <2>3
  <1>6. CASE Tag(k) # "MEMCOND"
    <2>1. FactsFor(k) = context.facts /\ e = words
      BY <1>2, <1>6 DEF FactsFor, Origin
    <2>2. ASSUME NEW i \in DOMAIN words, IsComparison(words[i])
          PROVE  fs[words[i].key] = context.facts[words[i].key]
      <3>1. words[i] \in Word
        OBVIOUS
      <3>2. words[i].key \in Keys
        BY <2>2, <3>1 DEF IsComparison, Word, Comparison, Connectors
      <3> QED BY <1>3, <2>2, <3>2 DEF Own, FitFacts
    <2>3. EvalExpr(words, fs) = EvalExpr(words, context.facts)
      BY <2>2, OthersDoNotMatter
    <2> QED BY <1>2, <1>4, <2>1, <2>3
  <1> QED BY <1>5, <1>6

\* The conditions that are collected were all written before the next line.
LEMMA OriginsStep ==
  ASSUME Typed, at \in DOMAIN template, Proceed, Next, Origins(pending, current, at)
  PROVE  Origins(pending', current', at + 1)
  <1>1. /\ pending \in Seq(Seq(Seq(Word))) /\ current \in Seq(Seq(Word)) /\ at \in Nat /\ IsTemplate
    BY TypedText DEF Typed, Shaped
  <1>2. ASSUME NEW e, OriginBefore(e, at) PROVE OriginBefore(e, at + 1)
    <2>1. \A k \in Conditions : k \in Nat
      BY <1>1, WithIn DEF IsTemplate, Conditions
    <2> QED BY <1>1, <1>2, <2>1 DEF OriginBefore
  <1>3. ASSUME Directs({"FACT", "ORFACT", "MEMCOND"}), NEW e, Origin(e, at)
        PROVE  OriginBefore(e, at + 1)
    <2>1. at \in Conditions
      BY <1>3, ReadIs DEF Conditions
    <2> QED BY <1>1, <1>3, <2>1 DEF OriginBefore
  <1>4. PICK n \in Nat : n = Len(current) /\ DOMAIN current = 1 .. n
    BY <1>1
  <1>5. ASSUME NEW e, OriginBefore(e, at + 1), NEW c, c = Append(current, e), NEW m \in DOMAIN c
        PROVE  OriginBefore(c[m], at + 1)
    <2>1. DOMAIN c = 1 .. n + 1 /\ c[n + 1] = e /\ \A i \in 1 .. n : c[i] = current[i]
      BY <1>1, <1>4, <1>5
    <2>2. m = n + 1 \/ m \in 1 .. n
      BY <2>1
    <2> QED BY <1>2, <1>4, <1>5, <2>1, <2>2 DEF Origins
  <1>6. CASE Directs({"FACT"})
    <2>1. PICK e : e = template[at].expr
      OBVIOUS
    <2>2. pending' = pending /\ current' = Append(current, e)
      BY <1>6, <2>1, ConditionsMove
    <2>3. OriginBefore(e, at + 1)
      BY <1>3, <1>6, <2>1 DEF Directs, Origin
    <2> QED BY <1>2, <1>5, <2>2, <2>3 DEF Origins
  <1>7. CASE Directs({"MEMCOND"})
    <2>1. PICK e : e = <<Sentinel(at)>>
      OBVIOUS
    <2>2. pending' = pending /\ current' = Append(current, e)
      BY <1>7, <2>1, ConditionsMove DEF Directs
    <2>3. OriginBefore(e, at + 1)
      BY <1>3, <1>7, <2>1 DEF Directs, Origin
    <2> QED BY <1>2, <1>5, <2>2, <2>3 DEF Origins
  <1>8. CASE Directs({"ORFACT"})
    <2>1. PICK e : e = template[at].expr
      OBVIOUS
    <2>2. pending' = Flushed /\ current' = <<e>>
      BY <1>8, <2>1, ConditionsMove DEF Directs
    <2>3. OriginBefore(e, at + 1)
      BY <1>3, <1>8, <2>1 DEF Directs, Origin
    <2>4. PICK p : p = Flushed
      OBVIOUS
    <2>5. ASSUME NEW g \in DOMAIN p, NEW m \in DOMAIN p[g] PROVE OriginBefore(p[g][m], at + 1)
      <3>1. CASE current = <<>>
        <4>1. p = pending
          BY <2>4, <3>1 DEF Flushed
        <4> QED BY <1>2, <2>5, <4>1 DEF Origins
      <3>2. CASE current # <<>>
        <4>1. p = Append(pending, current)
          BY <2>4, <3>2 DEF Flushed
        <4>2. PICK l \in Nat : l = Len(pending) /\ DOMAIN pending = 1 .. l
          BY <1>1
        <4>3. DOMAIN p = 1 .. l + 1 /\ p[l + 1] = current /\ \A i \in 1 .. l : p[i] = pending[i]
          BY <1>1, <4>1, <4>2
        <4>4. g = l + 1 \/ g \in 1 .. l
          BY <4>3
        <4>5. OriginBefore(p[g][m], at)
          BY <2>5, <4>2, <4>3, <4>4 DEF Origins
        <4> QED BY <1>2, <4>5
      <3> QED BY <3>1, <3>2
    <2>6. DOMAIN current' = {1} /\ current'[1] = e
      BY <2>2
    <2> QED BY <2>2, <2>3, <2>4, <2>5, <2>6 DEF Origins
  <1>9. CASE ~Directs({"FACT"}) /\ ~Directs({"ORFACT"}) /\ ~Directs({"MEMCOND"})
    <2>1. (pending' = <<>> /\ current' = <<>>) \/ (pending' = pending /\ current' = current)
      BY <1>9, ConditionsMove
    <2>2. DOMAIN <<>> = {}
      OBVIOUS
    <2> QED BY <1>2, <2>1, <2>2 DEF Origins
  <1> QED BY <1>6, <1>7, <1>8, <1>9

-----------------------------------------------------------------------------
(* The groups of conditions.                                                *)

\* What the condition of line k means.
MeansAt(k) == Means(template[k].expr, FactsFor(k))

\* A group holds if each of its conditions does.
LEMMA GroupHoldsIs ==
  \A C, f : GroupHolds(C, f) <=> \A k \in C : InGroup(C, f, k) => MeansAt(k)
  BY DEF GroupHolds, MeansAt

\* A condition by itself is a group.
LEMMA GroupAlone ==
  ASSUME NEW n \in Nat
  PROVE  Begins({n}, n) /\ (GroupHolds({n}, n) <=> MeansAt(n))
  <1>1. Begins({n}, n)
    BY DEF Begins
  <1>2. InGroup({n}, n, n)
    BY DEF InGroup
  <1> QED BY <1>1, <1>2, GroupHoldsIs

\* Up to a line of C, the groups are the same with a later line.
LEMMA GroupBefore ==
  ASSUME NEW C \in SUBSET Nat, NEW n \in Nat, \A k \in C : k < n, NEW f \in C
  PROVE  /\ Begins(C \cup {n}, f) <=> Begins(C, f)
         /\ \A k \in C : InGroup(C \cup {n}, f, k) <=> InGroup(C, f, k)
  <1>1. f \in Nat /\ f <= n /\ \A k \in C : k \in Nat /\ k < n
    OBVIOUS
  <1>2. Begins(C \cup {n}, f) <=> Begins(C, f)
    BY <1>1 DEF Begins
  <1>3. \A k \in C : \A o \in f + 1 .. k : o # n
    BY <1>1
  <1> QED BY <1>2, <1>3 DEF InGroup

\* A condition that is no ORFACT belongs to the group that began last.
LEMMA GroupGrows ==
  ASSUME NEW C \in SUBSET Nat, NEW n \in Nat, \A k \in C : k < n, Tag(n) # "ORFACT",
         NEW last \in C, Begins(C, last), \A f \in C : Begins(C, f) => f <= last
  PROVE  /\ ~Begins(C \cup {n}, n)
         /\ GroupHolds(C \cup {n}, last) <=> GroupHolds(C, last) /\ MeansAt(n)
         /\ \A f \in C : Begins(C, f) /\ f < last =>
              (GroupHolds(C \cup {n}, f) <=> GroupHolds(C, f))
  <1>1. \A k \in C : k \in Nat /\ k < n
    OBVIOUS
  <1>2. ~Begins(C \cup {n}, n)
    <2>1. ~(n <= last)
      BY <1>1
    <2> QED BY <2>1 DEF Begins
  <1>3. InGroup(C \cup {n}, last, n)
    <2>1. \A o \in C : Tag(o) = "ORFACT" => o <= last
      BY DEF Begins
    <2>2. \A o \in last + 1 .. n : o > last
      BY <1>1
    <2>3. \A o \in last + 1 .. n : o \in C \cup {n} => Tag(o) # "ORFACT"
      BY <1>1, <2>1, <2>2
    <2>4. n >= last
      BY <1>1
    <2> QED BY <2>3, <2>4 DEF InGroup
  <1>4. GroupHolds(C \cup {n}, last) <=> GroupHolds(C, last) /\ MeansAt(n)
    BY <1>3, GroupBefore, GroupHoldsIs
  <1>5. ASSUME NEW f \in C, Begins(C, f), f < last
        PROVE  GroupHolds(C \cup {n}, f) <=> GroupHolds(C, f)
    <2>1. Tag(last) = "ORFACT"
      <3>1. ~(last <= f)
        BY <1>1, <1>5
      <3> QED BY <3>1 DEF Begins
    <2>2. last \in f + 1 .. n
      BY <1>1, <1>5
    <2>3. ~InGroup(C \cup {n}, f, n)
      BY <2>1, <2>2 DEF InGroup
    <2> QED BY <2>3, GroupBefore, GroupHoldsIs
  <1> QED BY <1>2, <1>4, <1>5

\* An ORFACT begins a group, and ends the one before.
LEMMA GroupStarts ==
  ASSUME NEW C \in SUBSET Nat, NEW n \in Nat, \A k \in C : k < n, Tag(n) = "ORFACT"
  PROVE  /\ Begins(C \cup {n}, n)
         /\ GroupHolds(C \cup {n}, n) <=> MeansAt(n)
         /\ \A f \in C : GroupHolds(C \cup {n}, f) <=> GroupHolds(C, f)
  <1>1. \A k \in C : k \in Nat /\ k < n
    OBVIOUS
  <1>2. Begins(C \cup {n}, n)
    BY DEF Begins
  <1>3. InGroup(C \cup {n}, n, n) /\ \A k \in C : ~InGroup(C \cup {n}, n, k)
    BY <1>1 DEF InGroup
  <1>4. ASSUME NEW f \in C PROVE GroupHolds(C \cup {n}, f) <=> GroupHolds(C, f)
    <2>1. n \in f + 1 .. n
      BY <1>1
    <2>2. ~InGroup(C \cup {n}, f, n)
      BY <2>1 DEF InGroup
    <2> QED BY <2>2, GroupBefore, GroupHoldsIs
  <1> QED BY <1>2, <1>3, <1>4, GroupHoldsIs

\* The groups p and c are those of the conditions before line n: c the last of them.
ConditionsFit(p, c, fs, n) ==
  LET C == ConditionsOf(n)
  IN IF C = {} THEN p = <<>> /\ c = <<>>
     ELSE /\ c # <<>>
          /\ \E last \in C :
               /\ Begins(C, last) /\ \A f \in C : Begins(C, f) => f <= last
               /\ AllYes(c, fs) <=> GroupHolds(C, last)
               /\ (\E g \in DOMAIN p : AllYes(p[g], fs)) <=>
                  \E f \in C : Begins(C, f) /\ f < last /\ GroupHolds(C, f)

\* The groups that are evaluated are those pending, and the current one.
LEMMA FlushedIs ==
  ASSUME Typed
  PROVE  /\ \E n \in Nat : DOMAIN Flushed = 1 .. n
         /\ Flushed = <<>> <=> pending = <<>> /\ current = <<>>
         /\ \A g \in DOMAIN Flushed :
              \/ \E h \in DOMAIN pending : Flushed[g] = pending[h]
              \/ current # <<>> /\ Flushed[g] = current
         /\ \A h \in DOMAIN pending : \E g \in DOMAIN Flushed : Flushed[g] = pending[h]
         /\ current # <<>> => \E g \in DOMAIN Flushed : Flushed[g] = current
  <1>1. PICK p \in Seq(Seq(Seq(Word))) : p = pending
    BY DEF Typed, Shaped
  <1>2. PICK n \in Nat : n = Len(p) /\ DOMAIN p = 1 .. n
    OBVIOUS
  <1>3. CASE current = <<>>
    BY <1>1, <1>2, <1>3 DEF Flushed
  <1>4. CASE current # <<>>
    <2>1. PICK f : f = Append(p, current)
      OBVIOUS
    <2>2. DOMAIN f = 1 .. n + 1 /\ f[n + 1] = current /\ \A i \in 1 .. n : f[i] = p[i]
      BY <1>2, <2>1
    <2>3. f # <<>> /\ n + 1 \in 1 .. n + 1
      BY <2>2
    <2>4. \A i \in 1 .. n + 1 : i = n + 1 \/ i \in 1 .. n
      OBVIOUS
    <2>5. \A i \in 1 .. n : i \in 1 .. n + 1
      OBVIOUS
    <2>6. Flushed = f
      BY <1>1, <1>4, <2>1 DEF Flushed
    <2> QED BY <1>1, <1>2, <1>4, <2>2, <2>3, <2>4, <2>5, <2>6
  <1> QED BY <1>3, <1>4

\* What is written before a line is evaluated to what it means.
LEMMA WrittenAnswered ==
  ASSUME IsTemplate, NEW fs, NEW n, FitFacts(fs, n), SoundBefore(n), NEW e, OriginBefore(e, n)
  PROVE  EvalExpr(e, fs) \in Answers
  <1>1. PICK k \in Conditions : k < n /\ Origin(e, k)
    BY DEF OriginBefore
  <1>2. EvalExpr(e, fs) = Answer(Means(template[k].expr, FactsFor(k)))
    BY <1>1, OriginValue
  <1> QED BY <1>2 DEF Answer, Answers

\* Sound conditions never fail to be evaluated.
LEMMA ConditionAnswered ==
  ASSUME Typed, FitFacts(facts, at), SoundBefore(at), Origins(pending, current, at)
  PROVE  /\ Condition = Answer(\/ Flushed = <<>>
                              \/ \E g \in DOMAIN Flushed : AllYes(Flushed[g], facts))
         /\ Condition \in Answers
  <1>1. PICK groups \in Seq(Seq(Seq(Word))) : groups = Flushed
    BY FlushedTyped DEF Typed
  <1>2. PICK n \in Nat : n = Len(groups) /\ DOMAIN groups = 1 .. n
    OBVIOUS
  <1>3. ASSUME NEW g \in 1 .. n PROVE Answered(groups[g], facts)
    <2>1. \A m \in DOMAIN groups[g] : OriginBefore(groups[g][m], at)
      BY <1>1, <1>2, FlushedIs DEF Origins
    <2> QED BY <2>1, WrittenAnswered, TypedText DEF Answered
  <1>4. \A g \in 1 .. n : \E m \in Nat : DOMAIN groups[g] = 1 .. m
    BY <1>2
  <1>5. EvalConditionGroups(groups, facts) = Answer(\E g \in 1 .. n : AllYes(groups[g], facts))
    BY <1>2, <1>3, <1>4, GroupsValue
  <1>6. CASE groups = <<>>
    BY <1>1, <1>6 DEF Condition, Answer, Answers
  <1>7. CASE groups # <<>>
    <2>1. Condition = EvalConditionGroups(groups, facts)
      BY <1>1, <1>7 DEF Condition
    <2> QED BY <1>1, <1>2, <1>5, <1>7, <2>1 DEF Answer, Answers
  <1> QED BY <1>6, <1>7

\* The conditions before a line are evaluated to whether they hold in the text.
LEMMA ConditionIs ==
  ASSUME Typed, FitFacts(facts, at), SoundBefore(at), Origins(pending, current, at),
         ConditionsFit(pending, current, facts, at)
  PROVE  Condition \in Answers /\ (Condition = "yes" <=> Holds(at))
  <1>1. PICK C : C = ConditionsOf(at)
    OBVIOUS
  <1>2. C \in SUBSET Nat
    <2>1. \A k \in Conditions : k \in Nat
      BY WithIn, TypedText DEF IsTemplate, Conditions
    <2> QED BY <1>1, <2>1 DEF ConditionsOf
  <1>3. Holds(at) <=> C = {} \/ \E f \in C : Begins(C, f) /\ GroupHolds(C, f)
    BY <1>1, HoldsIs, TypedText
  <1>4. Condition \in Answers
        /\ (Condition = "yes" <=>
              Flushed = <<>> \/ \E g \in DOMAIN Flushed : AllYes(Flushed[g], facts))
    BY ConditionAnswered DEF Answer
  <1>5. CASE C = {}
    BY <1>1, <1>3, <1>4, <1>5, FlushedIs DEF ConditionsFit
  <1>6. CASE C # {}
    <2>1. current # <<>>
      BY <1>1, <1>6 DEF ConditionsFit
    <2>2. PICK last \in C :
            /\ Begins(C, last) /\ \A f \in C : Begins(C, f) => f <= last
            /\ AllYes(current, facts) <=> GroupHolds(C, last)
            /\ (\E g \in DOMAIN pending : AllYes(pending[g], facts)) <=>
               \E f \in C : Begins(C, f) /\ f < last /\ GroupHolds(C, f)
      BY <1>1, <1>6 DEF ConditionsFit
    <2>3. (\E g \in DOMAIN Flushed : AllYes(Flushed[g], facts)) <=>
          (\E g \in DOMAIN pending : AllYes(pending[g], facts)) \/ AllYes(current, facts)
      BY <2>1, FlushedIs
    <2>4. \A f \in C : Begins(C, f) => f < last \/ f = last
      BY <1>2, <2>2
    <2>5. (\E f \in C : Begins(C, f) /\ GroupHolds(C, f)) <=>
          (\E f \in C : Begins(C, f) /\ f < last /\ GroupHolds(C, f)) \/ GroupHolds(C, last)
      BY <2>2, <2>4
    <2>6. Flushed # <<>>
      BY <2>1, FlushedIs
    <2> QED BY <1>3, <1>4, <1>6, <2>2, <2>3, <2>5, <2>6
  <1> QED BY <1>5, <1>6

\* The values of groups do not change with the facts that later lines leave.
LEMMA GroupStays ==
  ASSUME IsTemplate, NEW n \in Nat, SoundBefore(n + 1), NEW fs, FitFacts(fs, n),
         NEW gs, FitFacts(gs, n + 1),
         NEW group, \A m \in DOMAIN group : OriginBefore(group[m], n)
  PROVE  AllYes(group, fs) <=> AllYes(group, gs)
  <1>1. \A k \in Conditions : k \in Nat /\ (k < n => k < n + 1)
    BY WithIn DEF IsTemplate, Conditions
  <1>2. SoundBefore(n)
    BY <1>1 DEF SoundBefore
  <1>3. ASSUME NEW m \in DOMAIN group PROVE EvalExpr(group[m], fs) = EvalExpr(group[m], gs)
    <2>1. PICK k \in Conditions : k < n /\ Origin(group[m], k)
      BY DEF OriginBefore
    <2>2. EvalExpr(group[m], fs) = Answer(Means(template[k].expr, FactsFor(k)))
      BY <1>2, <2>1, OriginValue
    <2>3. k < n + 1
      BY <1>1, <2>1
    <2>4. EvalExpr(group[m], gs) = Answer(Means(template[k].expr, FactsFor(k)))
      BY <2>1, <2>3, OriginValue
    <2> QED BY <2>2, <2>4
  <1> QED BY <1>3 DEF AllYes

\* A group with one more expression.
LEMMA AllYesAppend ==
  ASSUME NEW T, NEW group \in Seq(T), NEW e, NEW fs
  PROVE  AllYes(Append(group, e), fs) <=> AllYes(group, fs) /\ EvalExpr(e, fs) = "yes"
  <1>1. PICK n \in Nat : n = Len(group) /\ DOMAIN group = 1 .. n
    OBVIOUS
  <1>2. PICK new : new = Append(group, e)
    OBVIOUS
  <1>3. DOMAIN new = 1 .. n + 1 /\ new[n + 1] = e /\ \A i \in 1 .. n : new[i] = group[i]
    BY <1>1, <1>2
  <1>4. \A i \in 1 .. n + 1 : i = n + 1 \/ i \in 1 .. n
    OBVIOUS
  <1>5. n + 1 \in 1 .. n + 1 /\ \A i \in 1 .. n : i \in 1 .. n + 1
    OBVIOUS
  <1>6. AllYes(new, fs) <=> AllYes(group, fs) /\ EvalExpr(e, fs) = "yes"
    BY <1>1, <1>3, <1>4, <1>5 DEF AllYes
  <1> QED BY <1>2, <1>6

\* The groups of the renderer are those of the text, line by line.
LEMMA ConditionsFitStep ==
  ASSUME Typed, at \in DOMAIN template, Proceed, Next, FitFacts(facts, at),
         Origins(pending, current, at), SoundBefore(at + 1),
         ConditionsFit(pending, current, facts, at),
         Directs({"IF"}) /\ ~AllActive => ConditionsOf(at) = {}
  PROVE  ConditionsFit(pending', current', facts', at + 1)
  <1> DEFINE n == at
             C == ConditionsOf(at)
             D == ConditionsOf(at + 1)
  <1>1. /\ IsTemplate /\ at \in Nat /\ FitFacts(facts', at + 1)
        /\ current \in Seq(Seq(Word)) /\ pending \in Seq(Seq(Seq(Word)))
    BY FactsStep, TypedText DEF Typed, Shaped
  <1>2. \A k \in Conditions : k \in Nat
    BY <1>1, WithIn DEF IsTemplate, Conditions
  <1>3. C \in SUBSET Nat /\ \A k \in C : k < n
    BY <1>2 DEF ConditionsOf
  <1>4. D = IF at \in Users THEN {} ELSE IF at \in Conditions THEN C \cup {n} ELSE C
    BY <1>1, ConditionsStep
  <1>5. /\ at \in Users <=> Directs({"IF", "RTEXT_START", "RCHUNK", "RSKILL"})
        /\ at \in Conditions <=> Directs({"FACT", "ORFACT", "MEMCOND"})
    BY ReadIs DEF Users, Conditions
  <1>6. /\ AllYes(current, facts) <=> AllYes(current, facts')
        /\ \A g \in DOMAIN pending : AllYes(pending[g], facts) <=> AllYes(pending[g], facts')
    BY <1>1, GroupStays DEF Origins
  <1>7. CASE at \in Users
    <2>1. pending' = <<>> /\ current' = <<>>
      <3>1. CASE Directs({"IF"}) /\ ~AllActive
        BY <1>5, <1>7, <3>1, ConditionsMove DEF Directs, ConditionsFit
      <3>2. CASE ~(Directs({"IF"}) /\ ~AllActive)
        BY <1>5, <1>7, <3>2, ConditionsMove DEF Directs
      <3> QED BY <3>1, <3>2
    <2> QED BY <1>4, <1>7, <2>1 DEF ConditionsFit
  <1>8. CASE at \notin Users /\ at \notin Conditions
    <2>1. pending' = pending /\ current' = current
      BY <1>5, <1>8, ConditionsMove DEF Directs
    <2>2. D = C
      BY <1>4, <1>8
    <2> QED BY <1>6, <2>1, <2>2 DEF ConditionsFit
  <1>9. CASE at \in Conditions
    <2>1. at \notin Users /\ D = C \cup {n} /\ D # {}
      BY <1>4, <1>5, <1>9 DEF Directs
    <2>2. PICK e : e = IF Tag(at) = "MEMCOND" THEN <<Sentinel(at)>> ELSE template[at].expr
      OBVIOUS
    <2>3. EvalExpr(e, facts') = "yes" <=> MeansAt(n)
      <3>1. Origin(e, at) /\ at < at + 1
        BY <1>1, <2>2 DEF Origin
      <3>2. EvalExpr(e, facts') = Answer(Means(template[at].expr, FactsFor(at)))
        BY <1>1, <1>9, <3>1, OriginValue
      <3> QED BY <3>2 DEF Answer, MeansAt
    <2>4. IF Tag(at) = "ORFACT" THEN pending' = Flushed /\ current' = <<e>>
          ELSE pending' = pending /\ current' = Append(current, e)
      BY <1>5, <1>9, <2>2, ConditionsMove DEF Directs
    <2>5. current' # <<>> /\ (C = {} \/ Tag(at) = "ORFACT" =>
                                (AllYes(current', facts') <=> MeansAt(n)))
      <3>1. CASE C = {} \/ Tag(at) = "ORFACT"
        <4>1. current' = <<e>>
          <5>1. CASE Tag(at) = "ORFACT"
            BY <2>4, <5>1
          <5>2. CASE Tag(at) # "ORFACT"
            <6>1. current = <<>>
              BY <3>1, <5>2 DEF ConditionsFit
            <6>2. Append(<<>>, e) = <<e>>
              OBVIOUS
            <6> QED BY <2>4, <5>2, <6>1, <6>2
          <5> QED BY <5>1, <5>2
        <4>2. PICK c : c = <<e>>
          OBVIOUS
        <4>3. DOMAIN c = {1} /\ c[1] = e /\ c # <<>>
          BY <4>2
        <4> QED BY <2>3, <4>1, <4>2, <4>3 DEF AllYes
      <3>2. CASE ~(C = {} \/ Tag(at) = "ORFACT")
        <4>1. current' = Append(current, e)
          BY <2>4, <3>2
        <4> QED BY <1>1, <3>2, <4>1
      <3> QED BY <3>1, <3>2
    <2>6. CASE C = {}
      <3>1. pending = <<>> /\ current = <<>> /\ D = {n}
        BY <2>1, <2>6 DEF ConditionsFit
      <3>2. pending' = <<>>
        BY <2>4, <3>1, FlushedIs
      <3>3. Begins(D, n) /\ (GroupHolds(D, n) <=> MeansAt(n))
        BY <1>1, <3>1, GroupAlone
      <3>4. ~\E g \in DOMAIN pending' : AllYes(pending'[g], facts')
        BY <3>2
      <3>5. ~\E f \in D : Begins(D, f) /\ f < n /\ GroupHolds(D, f)
        BY <1>1, <3>1
      <3>6. \A f \in D : Begins(D, f) => f <= n
        BY <1>1, <3>1
      <3> QED BY <2>1, <2>5, <2>6, <3>3, <3>4, <3>5, <3>6 DEF ConditionsFit
    <2>7. CASE C # {}
      <3>1. current # <<>>
        BY <2>7 DEF ConditionsFit
      <3>2. PICK last \in C :
              /\ Begins(C, last) /\ \A f \in C : Begins(C, f) => f <= last
              /\ AllYes(current, facts) <=> GroupHolds(C, last)
              /\ (\E g \in DOMAIN pending : AllYes(pending[g], facts)) <=>
                 \E f \in C : Begins(C, f) /\ f < last /\ GroupHolds(C, f)
        BY <2>7 DEF ConditionsFit
      <3>3. last \in Nat /\ last < n /\ n \in Nat /\ n \in D /\ last \in D
            /\ \A f \in C : f \in Nat /\ f < n /\ f \in D
        BY <1>1, <1>3, <2>1
      <3>4. \A f \in C : Begins(D, f) <=> Begins(C, f)
        BY <1>1, <1>3, <2>1, GroupBefore
      <3>5. CASE Tag(at) = "ORFACT"
        <4>1. /\ Begins(D, n) /\ (GroupHolds(D, n) <=> MeansAt(n))
              /\ \A f \in C : GroupHolds(D, f) <=> GroupHolds(C, f)
          <5>1. /\ Begins(C \cup {n}, n) /\ (GroupHolds(C \cup {n}, n) <=> MeansAt(n))
                /\ \A f \in C : GroupHolds(C \cup {n}, f) <=> GroupHolds(C, f)
            <6> HIDE DEF C
            <6> QED BY <1>1, <1>3, <3>5, GroupStarts
          <5> QED BY <2>1, <5>1
        <4>2. \A f \in D : Begins(D, f) => f <= n
          BY <2>1, <3>3
        <4>3. (\E g \in DOMAIN pending' : AllYes(pending'[g], facts')) <=>
              (\E g \in DOMAIN pending : AllYes(pending[g], facts)) \/ AllYes(current, facts)
          <5>1. pending' = Flushed
            BY <2>4, <3>5
          <5>2. (\E g \in DOMAIN Flushed : AllYes(Flushed[g], facts')) <=>
                (\E g \in DOMAIN pending : AllYes(pending[g], facts')) \/ AllYes(current, facts')
            BY <3>1, FlushedIs
          <5> QED BY <1>6, <5>1, <5>2
        <4>4. (\E f \in D : Begins(D, f) /\ f < n /\ GroupHolds(D, f)) <=>
              (\E f \in C : Begins(C, f) /\ f < last /\ GroupHolds(C, f)) \/ GroupHolds(C, last)
          <5>1. \A f \in D : f < n => f \in C
            BY <2>1, <3>3
          <5>2. \A f \in C : Begins(C, f) => f < last \/ f = last
            BY <3>2, <3>3
          <5> QED BY <3>2, <3>3, <3>4, <4>1, <5>1, <5>2
        <4> QED BY <2>1, <2>5, <3>2, <3>3, <3>5, <4>1, <4>2, <4>3, <4>4 DEF ConditionsFit
      <3>6. CASE Tag(at) # "ORFACT"
        <4>1. /\ ~Begins(D, n) /\ (GroupHolds(D, last) <=> GroupHolds(C, last) /\ MeansAt(n))
              /\ \A f \in C : Begins(C, f) /\ f < last =>
                   (GroupHolds(D, f) <=> GroupHolds(C, f))
          <5>1. /\ ~Begins(C \cup {n}, n)
                /\ GroupHolds(C \cup {n}, last) <=> GroupHolds(C, last) /\ MeansAt(n)
                /\ \A f \in C : Begins(C, f) /\ f < last =>
                     (GroupHolds(C \cup {n}, f) <=> GroupHolds(C, f))
            <6> HIDE DEF C
            <6> QED BY <1>1, <1>3, <3>2, <3>6, GroupGrows
          <5> QED BY <2>1, <5>1
        <4>2. Begins(D, last) /\ \A f \in D : Begins(D, f) => f <= last
          BY <2>1, <3>2, <3>4, <4>1
        <4>3. pending' = pending /\ current' = Append(current, e)
          BY <2>4, <3>6
        <4>4. AllYes(current', facts') <=> AllYes(current, facts) /\ MeansAt(n)
          BY <1>1, <1>6, <2>3, <4>3, AllYesAppend
        <4>5. (\E g \in DOMAIN pending' : AllYes(pending'[g], facts')) <=>
              (\E g \in DOMAIN pending : AllYes(pending[g], facts))
          BY <1>6, <4>3
        <4>6. (\E f \in D : Begins(D, f) /\ f < last /\ GroupHolds(D, f)) <=>
              (\E f \in C : Begins(C, f) /\ f < last /\ GroupHolds(C, f))
          BY <2>1, <3>3, <3>4, <4>1
        <4> QED BY <2>1, <2>5, <3>2, <3>3, <4>1, <4>2, <4>4, <4>5, <4>6 DEF ConditionsFit
      <3> QED BY <3>5, <3>6
    <2> QED BY <2>6, <2>7
  <1> QED BY <1>7, <1>8, <1>9

-----------------------------------------------------------------------------
(* Blocks.                                                                  *)

\* The frames st are those of the blocks that are open before line n, each in the
\* branch that the text is in.
BranchFits(branch, turn) ==
  /\ branch = "none" <=> turn = "none"
  /\ branch = "true" <=> turn = "IFTRUE"
FramesFit(st, n) ==
  /\ \A j : Encloses(j, n) =>
       Depth(j) + 1 \in DOMAIN st /\ BranchFits(st[Depth(j) + 1].branch, Branch(j, n))
  /\ \A d \in DOMAIN st : \E j : Encloses(j, n) /\ Depth(j) + 1 = d

\* The condition of a frame is that of its IF, unless the IF is in a branch not taken.
FramesMean(st, n) ==
  \A j : Encloses(j, n) /\ Taken(j) => (st[Depth(j) + 1].cond <=> Holds(j))

\* _is_active of all frames.
ActiveIn(st) == \A k \in DOMAIN st : IsActive(st[k])

\* A line that is no directive of a block leaves the blocks as they are.
LEMMA BlocksStay ==
  ASSUME Typed, at \in DOMAIN template, ~Directs({"IF", "IFEND"}), NEW j
  PROVE  /\ Encloses(j, at + 1) <=> Encloses(j, at)
         /\ Encloses(j, at) => Branch(j, at + 1) =
              IF Directs({"IFTRUE", "IFFALSE"}) /\ Depth(j) + 1 = Len(stack) THEN Tag(at)
              ELSE Branch(j, at)
  <1>1. IsTemplate /\ at \in Nat /\ Depth(at) = Len(stack)
    BY TypedText DEF Typed, TemplateTypeOK
  <1>2. /\ at \notin With({"IF"}) /\ at \notin With({"IFEND"})
        /\ at \in With({"IFTRUE", "IFFALSE"}) <=> Directs({"IFTRUE", "IFFALSE"})
    BY ReadIs DEF Directs
  <1>3. Depth(at + 1) = Depth(at)
    BY <1>1, <1>2, DepthStep
  <1>4. Encloses(j, at) => j \in With({"IF"}) /\ Depth(at) > Depth(j) /\ j \in Nat
    <2>1. j \in With({"IF"}) => j \in Nat
      BY <1>1, WithIn DEF IsTemplate
    <2>2. Encloses(j, at) => at \in j + 1 .. at
      BY <1>1, <2>1 DEF Encloses
    <2> QED BY <2>1, <2>2 DEF Encloses
  <1>5. Encloses(j, at + 1) <=> Encloses(j, at)
    BY <1>1, <1>2, <1>3, <1>4, EnclosesStep
  <1>6. ASSUME Encloses(j, at)
        PROVE  Branch(j, at + 1) =
                 IF Directs({"IFTRUE", "IFFALSE"}) /\ Depth(j) + 1 = Len(stack) THEN Tag(at)
                 ELSE Branch(j, at)
    BY <1>1, <1>2, <1>6, BranchStep
  <1> QED BY <1>5, <1>6

\* An IF is one more block, in neither branch.
LEMMA BlocksGrow ==
  ASSUME Typed, at \in DOMAIN template, Directs({"IF"}), FramesFit(stack, at), NEW j
  PROVE  /\ Encloses(j, at + 1) <=> j = at \/ Encloses(j, at)
         /\ Depth(at) = Len(stack) /\ Branch(at, at + 1) = "none"
         /\ Encloses(j, at) => Branch(j, at + 1) = Branch(j, at) /\ Depth(j) + 1 \in 1 .. Len(stack)
  <1>1. IsTemplate /\ at \in Nat /\ Depth(at) = Len(stack) /\ DOMAIN stack = 1 .. Len(stack)
        /\ Len(stack) \in Nat
    BY TypedText DEF Typed, TemplateTypeOK
  <1>2. at \in With({"IF"}) /\ at \notin With({"IFTRUE", "IFFALSE"})
    BY ReadIs DEF Directs
  <1>3. Depth(at + 1) = Len(stack) + 1
    BY <1>1, <1>2, DepthStep
  <1>4. Encloses(j, at) => j \in With({"IF"}) /\ Depth(j) + 1 \in 1 .. Len(stack)
    BY <1>1 DEF FramesFit, Encloses
  <1>5. Encloses(j, at) => Depth(at + 1) > Depth(j)
    <2>1. ASSUME Encloses(j, at) PROVE Depth(j) \in Int
      <3>1. j \in Nat
        BY <1>1, <1>4, <2>1, WithIn DEF IsTemplate
      <3> QED BY <1>1, <3>1, DepthStep
    <2> QED BY <1>1, <1>3, <1>4, <2>1
  <1>6. Depth(at + 1) > Depth(at)
    BY <1>1, <1>3
  <1>7. Encloses(j, at + 1) <=> j = at \/ Encloses(j, at)
    BY <1>1, <1>2, <1>4, <1>5, <1>6, EnclosesStep
  <1>8. Encloses(j, at) => Branch(j, at + 1) = Branch(j, at)
    BY <1>1, <1>2, BranchStep
  <1> QED BY <1>1, <1>2, <1>4, <1>7, <1>8, BranchAtFirst

\* An IFEND closes the innermost block.
LEMMA BlocksShrink ==
  ASSUME Typed, at \in DOMAIN template, Directs({"IFEND"}), FramesFit(stack, at), NEW j
  PROVE  /\ Encloses(j, at + 1) <=> Encloses(j, at) /\ Depth(j) + 1 \in 1 .. Len(stack) - 1
         /\ Encloses(j, at) => Branch(j, at + 1) = Branch(j, at)
  <1>1. IsTemplate /\ at \in Nat /\ Depth(at) = Len(stack) /\ DOMAIN stack = 1 .. Len(stack)
        /\ Len(stack) \in Nat
    BY TypedText DEF Typed, TemplateTypeOK
  <1>2. /\ at \in With({"IFEND"}) /\ at \notin With({"IF"})
        /\ at \notin With({"IFTRUE", "IFFALSE"})
    BY ReadIs DEF Directs
  <1>3. Depth(at + 1) = Len(stack) - 1
    BY <1>1, <1>2, DepthStep
  <1>4. Encloses(j, at) => j \in With({"IF"}) /\ Depth(j) + 1 \in 1 .. Len(stack)
    BY <1>1 DEF FramesFit, Encloses
  <1>5. ASSUME Encloses(j, at) PROVE Depth(j) \in Int
    <2>1. j \in Nat
      BY <1>1, <1>4, <1>5, WithIn DEF IsTemplate
    <2> QED BY <1>1, <2>1, DepthStep
  <1>6. Encloses(j, at) => (Depth(at + 1) > Depth(j) <=> Depth(j) + 1 \in 1 .. Len(stack) - 1)
    BY <1>1, <1>3, <1>4, <1>5
  <1>7. Encloses(j, at + 1) <=> Encloses(j, at) /\ Depth(j) + 1 \in 1 .. Len(stack) - 1
    BY <1>1, <1>2, <1>4, <1>6, EnclosesStep
  <1>8. Encloses(j, at) => Branch(j, at + 1) = Branch(j, at)
    BY <1>1, <1>2, BranchStep
  <1> QED BY <1>7, <1>8

\* The stack after a line: what becomes of the frame of each block that is still open.
LEMMA StackIs ==
  ASSUME Typed, at \in DOMAIN template, Proceed, Next
  PROVE  /\ DOMAIN stack = 1 .. Len(stack) /\ Len(stack) \in Nat
         /\ Directs({"IF"}) =>
              /\ DOMAIN stack' = 1 .. Len(stack) + 1
              /\ \A d \in 1 .. Len(stack) : stack'[d] = stack[d]
              /\ stack'[Len(stack) + 1].branch = "none"
              /\ AllActive => (stack'[Len(stack) + 1].cond <=> Condition = "yes")
         /\ Directs({"IFTRUE", "IFFALSE"}) =>
              /\ DOMAIN stack' = DOMAIN stack
              /\ \A d \in DOMAIN stack :
                   /\ stack'[d].cond <=> stack[d].cond
                   /\ stack'[d].branch = IF d # Len(stack) THEN stack[d].branch
                                         ELSE IF Tag(at) = "IFTRUE" THEN "true" ELSE "false"
         /\ Directs({"IFEND"}) =>
              /\ DOMAIN stack' = 1 .. Len(stack) - 1
              /\ \A d \in 1 .. Len(stack) - 1 : stack'[d] = stack[d]
         /\ ~Directs({"IF", "IFTRUE", "IFFALSE", "IFEND"}) => stack' = stack
  <1>1. /\ stack \in Seq(Frame) /\ DOMAIN stack = 1 .. Len(stack) /\ Len(stack) \in Nat
    BY DEF Typed, TemplateTypeOK, Frame
  <1>2. CASE Directs({"IF"})
    <2>1. PICK c \in BOOLEAN :
            /\ stack' = Append(stack, [cond |-> c, branch |-> "none"])
            /\ AllActive => (c <=> Condition = "yes")
      BY <1>2, StackMoves
    <2>2. PICK f : f = [cond |-> c, branch |-> "none"]
      OBVIOUS
    <2>3. f \in Frame /\ f.branch = "none" /\ (f.cond <=> c)
      BY <2>2 DEF Frame
    <2>4. stack' = Append(stack, f)
      BY <2>1, <2>2
    <2>5. /\ DOMAIN stack' = 1 .. Len(stack) + 1
          /\ \A d \in 1 .. Len(stack) : stack'[d] = stack[d]
          /\ stack'[Len(stack) + 1] = f
      BY <1>1, <2>3, <2>4
    <2> QED BY <1>1, <1>2, <2>1, <2>3, <2>5 DEF Directs
  <1>3. CASE Directs({"IFTRUE", "IFFALSE"})
    <2>1. stack # <<>>
          /\ stack' = [stack EXCEPT ![Len(stack)].branch =
                         IF Tag(at) = "IFTRUE" THEN "true" ELSE "false"]
      BY <1>3, StackMoves DEF Directs
    <2>2. DOMAIN stack' = DOMAIN stack
      BY <2>1
    <2>3. ASSUME NEW d \in DOMAIN stack, d # Len(stack) PROVE stack'[d] = stack[d]
      BY <2>1, <2>3
    <2>4. stack[Len(stack)] \in Frame /\ Len(stack) \in DOMAIN stack
      BY <1>1, <2>1
    <2>5. stack'[Len(stack)] = [stack[Len(stack)] EXCEPT !.branch =
                                  IF Tag(at) = "IFTRUE" THEN "true" ELSE "false"]
      BY <2>1, <2>4
    <2>6. /\ stack'[Len(stack)].cond <=> stack[Len(stack)].cond
          /\ stack'[Len(stack)].branch = IF Tag(at) = "IFTRUE" THEN "true" ELSE "false"
      BY <2>4, <2>5 DEF Frame
    <2> QED BY <1>1, <1>3, <2>2, <2>3, <2>6 DEF Directs
  <1>4. CASE Directs({"IFEND"})
    <2>1. stack # <<>> /\ stack' = Front(stack)
      BY <1>4, StackMoves DEF Directs
    <2>2. stack' = SubSeq(stack, 1, Len(stack) - 1)
      BY <2>1 DEF Front
    <2>3. Len(stack) - 1 \in Nat
      BY <1>1, <2>1
    <2>4. /\ DOMAIN stack' = 1 .. Len(stack) - 1
          /\ \A d \in 1 .. Len(stack) - 1 : stack'[d] = stack[d]
      BY <1>1, <2>2, <2>3
    <2> QED BY <1>1, <1>4, <2>4 DEF Directs
  <1>5. CASE ~Directs({"IF", "IFTRUE", "IFFALSE", "IFEND"})
    BY <1>1, <1>5, StackMoves DEF Directs
  <1> QED BY <1>2, <1>3, <1>4, <1>5 DEF Directs

\* The stack is of the blocks of the text, line by line.
LEMMA FramesFitStep ==
  ASSUME Typed, at \in DOMAIN template, Proceed, Next, FramesFit(stack, at)
  PROVE  FramesFit(stack', at + 1)
  <1>1. DOMAIN stack = 1 .. Len(stack) /\ Len(stack) \in Nat
    BY StackIs
  <1>2. /\ \A j : Encloses(j, at) => Depth(j) + 1 \in DOMAIN stack
                    /\ BranchFits(stack[Depth(j) + 1].branch, Branch(j, at))
        /\ \A d \in DOMAIN stack : \E j : Encloses(j, at) /\ Depth(j) + 1 = d
    BY DEF FramesFit
  <1>3. CASE Directs({"IF"})
    <2>1. /\ DOMAIN stack' = 1 .. Len(stack) + 1
          /\ \A d \in 1 .. Len(stack) : stack'[d] = stack[d]
          /\ stack'[Len(stack) + 1].branch = "none"
      BY <1>3, StackIs
    <2>2. /\ Depth(at) = Len(stack) /\ Branch(at, at + 1) = "none"
          /\ \A j : /\ Encloses(j, at + 1) <=> j = at \/ Encloses(j, at)
                    /\ Encloses(j, at) => Branch(j, at + 1) = Branch(j, at)
      BY <1>3, BlocksGrow
    <2>3. ASSUME NEW j, Encloses(j, at + 1)
          PROVE  /\ Depth(j) + 1 \in DOMAIN stack'
                 /\ BranchFits(stack'[Depth(j) + 1].branch, Branch(j, at + 1))
      <3>1. CASE j = at
        BY <1>1, <2>1, <2>2, <3>1 DEF BranchFits
      <3>2. CASE Encloses(j, at)
        BY <1>1, <1>2, <2>1, <2>2, <3>2
      <3> QED BY <2>2, <2>3, <3>1, <3>2
    <2>4. ASSUME NEW d \in DOMAIN stack' PROVE \E j : Encloses(j, at + 1) /\ Depth(j) + 1 = d
      <3>1. d = Len(stack) + 1 \/ d \in 1 .. Len(stack)
        BY <1>1, <2>1
      <3> QED BY <1>1, <1>2, <2>2, <3>1
    <2> QED BY <2>3, <2>4 DEF FramesFit
  <1>4. CASE Directs({"IFEND"})
    <2>1. /\ DOMAIN stack' = 1 .. Len(stack) - 1
          /\ \A d \in 1 .. Len(stack) - 1 : stack'[d] = stack[d]
      BY <1>4, StackIs
    <2>2. \A j : /\ Encloses(j, at + 1) <=> Encloses(j, at) /\ Depth(j) + 1 \in 1 .. Len(stack) - 1
                 /\ Encloses(j, at) => Branch(j, at + 1) = Branch(j, at)
      BY <1>4, BlocksShrink
    <2>3. \A d \in 1 .. Len(stack) - 1 : d \in DOMAIN stack
      BY <1>1
    <2> QED BY <1>2, <2>1, <2>2, <2>3 DEF FramesFit
  <1>5. CASE ~Directs({"IF", "IFEND"})
    <2>1. \A j : /\ Encloses(j, at + 1) <=> Encloses(j, at)
                 /\ Encloses(j, at) => Branch(j, at + 1) =
                      IF Directs({"IFTRUE", "IFFALSE"}) /\ Depth(j) + 1 = Len(stack) THEN Tag(at)
                      ELSE Branch(j, at)
      BY <1>5, BlocksStay
    <2>2. CASE Directs({"IFTRUE", "IFFALSE"})
      <3>1. /\ DOMAIN stack' = DOMAIN stack
            /\ \A d \in DOMAIN stack :
                 stack'[d].branch = IF d # Len(stack) THEN stack[d].branch
                                    ELSE IF Tag(at) = "IFTRUE" THEN "true" ELSE "false"
        BY <2>2, StackIs
      <3>2. Tag(at) = "IFTRUE" \/ Tag(at) = "IFFALSE"
        BY <2>2 DEF Directs
      <3>3. ASSUME NEW j, Encloses(j, at)
            PROVE  BranchFits(stack'[Depth(j) + 1].branch, Branch(j, at + 1))
        <4>1. CASE Depth(j) + 1 = Len(stack)
          BY <1>2, <2>1, <2>2, <3>1, <3>2, <3>3, <4>1 DEF BranchFits
        <4>2. CASE Depth(j) + 1 # Len(stack)
          BY <1>2, <2>1, <2>2, <3>1, <3>3, <4>2
        <4> QED BY <4>1, <4>2
      <3> QED BY <1>2, <2>1, <3>1, <3>3 DEF FramesFit
    <2>3. CASE ~Directs({"IFTRUE", "IFFALSE"})
      <3>1. stack' = stack
        BY <1>5, <2>3, StackIs DEF Directs
      <3> QED BY <1>2, <2>1, <2>3, <3>1 DEF FramesFit
    <2> QED BY <2>2, <2>3
  <1> QED BY <1>3, <1>4, <1>5 DEF Directs

\* A frame is active where its block is in a branch that is taken.
LEMMA FrameActive ==
  ASSUME NEW frame \in Frame, NEW turn, BranchFits(frame.branch, turn),
         NEW holds \in BOOLEAN, frame.cond <=> holds
  PROVE  IsActive(frame) <=> turn = "none" \/ (turn = "IFTRUE") = holds
  <1>1. frame.cond \in BOOLEAN /\ frame.cond = holds
    BY DEF Frame
  <1>2. (frame.branch = "true") = (turn = "IFTRUE")
    BY DEF BranchFits
  <1>3. frame.branch = "none" <=> turn = "none"
    BY DEF BranchFits
  <1> QED BY <1>1, <1>2, <1>3 DEF IsActive

\* All the frames are active where the line is in branches that are taken: the
\* renderer shows what the text shows.
LEMMA ActiveIsTaken ==
  ASSUME IsTemplate, NEW n \in Nat, NEW st \in Seq(Frame), FramesFit(st, n), FramesMean(st, n)
  PROVE  ActiveIn(st) <=> Taken(n)
  <1> DEFINE Passes(j) == Branch(j, n) = "none" \/ (Branch(j, n) = "IFTRUE") = Holds(j)
  <1>1. Taken(n) <=> \A j \in With({"IF"}) : Encloses(j, n) => Passes(j)
    BY DEF Taken
  <1>2. ASSUME NEW j, Encloses(j, n), Taken(j)
        PROVE  Depth(j) + 1 \in DOMAIN st /\ (IsActive(st[Depth(j) + 1]) <=> Passes(j))
    <2>1. /\ Depth(j) + 1 \in DOMAIN st
          /\ BranchFits(st[Depth(j) + 1].branch, Branch(j, n))
      BY <1>2 DEF FramesFit
    <2>2. st[Depth(j) + 1] \in Frame
      BY <2>1
    <2>3. st[Depth(j) + 1].cond <=> Holds(j)
      BY <1>2 DEF FramesMean
    <2>4. Holds(j) \in BOOLEAN
      BY DEF Holds
    <2> QED BY <2>1, <2>2, <2>3, <2>4, FrameActive
  <1>3. \A j : Encloses(j, n) => j \in With({"IF"}) /\ j \in Nat
    BY WithIn DEF Encloses, IsTemplate
  <1>4. ASSUME Taken(n), NEW d \in DOMAIN st PROVE IsActive(st[d])
    <2>1. PICK j : Encloses(j, n) /\ Depth(j) + 1 = d
      BY DEF FramesFit
    <2>2. Passes(j) /\ \A i \in With({"IF"}) : i < j /\ Encloses(i, n) => Passes(i)
      BY <1>1, <1>3, <1>4, <2>1
    <2>3. Taken(j)
      BY <2>1, <2>2, TakenOuter
    <2> QED BY <1>2, <2>1, <2>2, <2>3
  <1>5. ASSUME ActiveIn(st), ~Taken(n) PROVE FALSE
    <2> DEFINE Wrong == {j \in With({"IF"}) : Encloses(j, n) /\ ~Passes(j)}
    <2>1. Wrong # {}
      BY <1>1, <1>5
    <2>2. Wrong \in SUBSET Nat
      BY <1>3
    <2>3. PICK j \in Wrong : \A k \in Wrong : j <= k
      <3> HIDE DEF Wrong
      <3> QED BY <2>1, <2>2, FirstOf
    <2>4. \A i \in With({"IF"}) : i < j /\ Encloses(i, n) => Passes(i)
      <3>1. ASSUME NEW i \in With({"IF"}), i < j, Encloses(i, n), ~Passes(i) PROVE FALSE
        <4>1. i \in Wrong
          BY <3>1
        <4>2. j <= i /\ i \in Nat /\ j \in Nat
          BY <2>2, <2>3, <4>1
        <4> QED BY <3>1, <4>2
      <3> QED BY <3>1
    <2>5. Taken(j)
      BY <2>3, <2>4, TakenOuter
    <2> QED BY <1>2, <1>5, <2>3, <2>5 DEF ActiveIn
  <1> QED BY <1>4, <1>5 DEF ActiveIn

\* The conditions of the frames are those of the text, line by line.
LEMMA FramesMeanStep ==
  ASSUME Typed, at \in DOMAIN template, Proceed, Next, FramesFit(stack, at),
         FramesMean(stack, at), FitFacts(facts, at), SoundBefore(at),
         Origins(pending, current, at), ConditionsFit(pending, current, facts, at)
  PROVE  FramesMean(stack', at + 1)
  <1>1. DOMAIN stack = 1 .. Len(stack) /\ Len(stack) \in Nat
    BY StackIs
  <1>2. \A j : Encloses(j, at) => Depth(j) + 1 \in DOMAIN stack
    BY DEF FramesFit
  <1>3. CASE Directs({"IF"})
    <2>1. /\ \A d \in 1 .. Len(stack) : stack'[d] = stack[d]
          /\ AllActive => (stack'[Len(stack) + 1].cond <=> Condition = "yes")
      BY <1>3, StackIs
    <2>2. /\ Depth(at) = Len(stack)
          /\ \A j : Encloses(j, at + 1) <=> j = at \/ Encloses(j, at)
      BY <1>3, BlocksGrow
    <2>3. ASSUME Taken(at) PROVE stack'[Depth(at) + 1].cond <=> Holds(at)
      <3>1. stack \in Seq(Frame) /\ IsTemplate /\ at \in Nat
        BY TypedText DEF Typed, TemplateTypeOK, Frame
      <3>2. AllActive
        BY <2>3, <3>1, ActiveIsTaken DEF ActiveIn, AllActive
      <3>3. Condition = "yes" <=> Holds(at)
        BY ConditionIs
      <3> QED BY <2>1, <2>2, <3>2, <3>3
    <2>4. ASSUME NEW j, Encloses(j, at), Taken(j)
          PROVE  stack'[Depth(j) + 1].cond <=> Holds(j)
      BY <1>1, <1>2, <2>1, <2>4 DEF FramesMean
    <2> QED BY <2>2, <2>3, <2>4 DEF FramesMean
  <1>4. CASE Directs({"IFEND"})
    <2>1. \A d \in 1 .. Len(stack) - 1 : stack'[d] = stack[d]
      BY <1>4, StackIs
    <2>2. \A j : Encloses(j, at + 1) <=> Encloses(j, at) /\ Depth(j) + 1 \in 1 .. Len(stack) - 1
      BY <1>4, BlocksShrink
    <2> QED BY <2>1, <2>2 DEF FramesMean
  <1>5. CASE ~Directs({"IF", "IFEND"})
    <2>1. \A j : Encloses(j, at + 1) <=> Encloses(j, at)
      BY <1>5, BlocksStay
    <2>2. \A d \in DOMAIN stack : stack'[d].cond <=> stack[d].cond
      BY <1>5, StackIs DEF Directs
    <2> QED BY <1>2, <2>1, <2>2 DEF FramesMean
  <1> QED BY <1>3, <1>4, <1>5 DEF Directs

-----------------------------------------------------------------------------
(* RTEXT blocks.                                                            *)

\* The block that is open before line n is q.
QuoteFits(q, n) ==
  q.open => Opens(q.from, n) /\ \A k \in q.from + 1 .. n - 1 : Tag(k) # "RTEXT_END"

\* It is shown by what is said where it opens; no frame changes while it is open.
QuoteMeans(q, st) ==
  q.open => /\ q.cond <=> Holds(q.from) /\ Taken(q.from)
            /\ q.cond => ActiveIn(st)

\* The lines of an open block are those since it was opened.
LEMMA QuoteFitsStep ==
  ASSUME Typed, at \in DOMAIN template, Proceed, Next, QuoteFits(quote, at)
  PROVE  QuoteFits(quote', at + 1)
  <1>1. IsTemplate /\ at \in Nat
    BY TypedText
  <1>2. CASE Directs({"RTEXT_START"})
    <2>1. quote'.from = at
      BY <1>2, QuoteMoves
    <2>2. at \in With({"RTEXT_START"}) /\ at < at + 1
      BY <1>1, <1>2, ReadIs
    <2>3. at + 1 .. (at + 1) - 1 = {}
      BY <1>1
    <2> QED BY <2>1, <2>2, <2>3 DEF QuoteFits, Opens
  <1>3. CASE quote.open /\ Tag(at) = "RTEXT_END"
    BY <1>3, QuoteMoves DEF Directs, QuoteFits
  <1>4. CASE ~Directs({"RTEXT_START"}) /\ ~(quote.open /\ Tag(at) = "RTEXT_END")
    <2>1. quote' = quote
      BY <1>4, QuoteMoves
    <2>2. SUFFICES ASSUME quote.open
          PROVE  /\ Opens(quote.from, at + 1)
                 /\ \A k \in quote.from + 1 .. (at + 1) - 1 : Tag(k) # "RTEXT_END"
      BY <2>1 DEF QuoteFits
    <2>3. at \notin Plain /\ Tag(at) # "RTEXT_END"
      BY <1>4, <2>2 DEF Plain, Typed, TemplateTypeOK
    <2>4. quote.from \in Nat
      BY DEF Typed, Shaped
    <2>5. \A k \in quote.from + 1 .. (at + 1) - 1 : k = at \/ k \in quote.from + 1 .. at - 1
      BY <1>1, <2>4
    <2>6. quote.from < at => quote.from < at + 1
      BY <1>1, <2>4
    <2> QED BY <2>2, <2>3, <2>5, <2>6 DEF QuoteFits, Opens
  <1> QED BY <1>2, <1>3, <1>4

\* The condition of the block is that of the text, and the frames stay while it is open.
LEMMA QuoteMeansStep ==
  ASSUME Typed, at \in DOMAIN template, Proceed, Next, FramesFit(stack, at),
         FramesMean(stack, at), FitFacts(facts, at), SoundBefore(at),
         Origins(pending, current, at), ConditionsFit(pending, current, facts, at),
         QuoteMeans(quote, stack)
  PROVE  QuoteMeans(quote', stack')
  <1>1. CASE Directs({"RTEXT_START"})
    <2>1. quote'.from = at /\ (quote'.cond <=> Condition = "yes" /\ AllActive) /\ stack' = stack
      BY <1>1, QuoteMoves, StackIs DEF Directs
    <2>2. Condition = "yes" <=> Holds(at)
      BY ConditionIs
    <2>3. AllActive <=> Taken(at)
      <3>1. stack \in Seq(Frame) /\ IsTemplate /\ at \in Nat
        BY TypedText DEF Typed, TemplateTypeOK, Frame
      <3> QED BY <3>1, ActiveIsTaken DEF ActiveIn, AllActive
    <2> QED BY <2>1, <2>2, <2>3 DEF QuoteMeans, ActiveIn, AllActive
  <1>2. CASE quote.open /\ Tag(at) = "RTEXT_END"
    BY <1>2, QuoteMoves DEF Directs, QuoteMeans
  <1>3. CASE ~Directs({"RTEXT_START"}) /\ ~(quote.open /\ Tag(at) = "RTEXT_END")
    <2>1. quote' = quote
      BY <1>3, QuoteMoves
    <2>2. quote.open => stack' = stack
      BY StackIs DEF Directs
    <2> QED BY <2>1, <2>2 DEF QuoteMeans
  <1> QED BY <1>1, <1>2, <1>3

-----------------------------------------------------------------------------
(* What is emitted.                                                         *)

\* The output o is of the lines in `due`.
OutFits(o, due) ==
  /\ \A k \in DOMAIN o : o[k].line \in due /\ Shown(o[k].line) /\ o[k].form = Form(o[k].line)
  /\ \A i \in due : Shown(i) => \E k \in DOMAIN o : o[k].line = i
  /\ \A j, k \in DOMAIN o : j < k => o[j].line < o[k].line

\* The lines that are due before line n if q is the block that is open.
DueBy(q, n) == {i \in 1 .. n - 1 : q.open => i < q.from}

\* More lines of which none is shown.
LEMMA OutKept ==
  ASSUME NEW o, NEW due, NEW more, OutFits(o, due), due \subseteq more,
         \A i \in more : i \in due \/ ~Shown(i)
  PROVE  OutFits(o, more)
  BY DEF OutFits

\* The output is o, then the first m of `lines`, which are all that is shown of what
\* there is more.
Extends(new, o, m, lines, due, more) ==
  /\ Len(new) = Len(o) + m /\ \A k \in 1 .. Len(o) : new[k] = o[k]
  /\ due \subseteq more
  /\ \A k \in 1 .. m : lines[k] \in more /\ \A i \in due : i < lines[k]
  /\ \A j, k \in 1 .. m : j < k => lines[j] < lines[k]
  /\ \A k \in 1 .. m : /\ new[Len(o) + k].line = lines[k] /\ Shown(lines[k])
                       /\ new[Len(o) + k].form = Form(lines[k])
  /\ \A i \in more : Shown(i) => i \in due \/ \E k \in 1 .. m : lines[k] = i

\* The lines that are emitted, each in its form, come after those that were.
LEMMA OutGrown ==
  ASSUME NEW o \in Seq(Emitted), NEW new \in Seq(Emitted), NEW m \in Nat,
         NEW lines, NEW due \in SUBSET Nat, NEW more \in SUBSET Nat, OutFits(o, due),
         Extends(new, o, m, lines, due, more)
  PROVE  OutFits(new, more)
  <1>0. /\ Len(new) = Len(o) + m /\ \A k \in 1 .. Len(o) : new[k] = o[k]
        /\ due \subseteq more
        /\ \A k \in 1 .. m : lines[k] \in more /\ \A i \in due : i < lines[k]
        /\ \A j, k \in 1 .. m : j < k => lines[j] < lines[k]
        /\ \A k \in 1 .. m : /\ new[Len(o) + k].line = lines[k] /\ Shown(lines[k])
                             /\ new[Len(o) + k].form = Form(lines[k])
        /\ \A i \in more : Shown(i) => i \in due \/ \E k \in 1 .. m : lines[k] = i
    BY DEF Extends
  <1>1. PICK n \in Nat : n = Len(o) /\ DOMAIN o = 1 .. n /\ DOMAIN new = 1 .. n + m
    BY <1>0
  <1>2. \A k \in 1 .. n + m : k \in 1 .. n \/ (k - n \in 1 .. m /\ k = n + (k - n))
    BY <1>1
  <1>3. \A k \in 1 .. n : k \in 1 .. n + m /\ new[k] = o[k]
    BY <1>0, <1>1
  <1>4. \A k \in 1 .. m : n + k \in 1 .. n + m /\ new[n + k].line = lines[k]
    BY <1>0, <1>1
  <1>5. ASSUME NEW k \in 1 .. n + m
        PROVE  new[k].line \in more /\ Shown(new[k].line) /\ new[k].form = Form(new[k].line)
    <2>1. CASE k \in 1 .. n
      BY <1>0, <1>1, <1>3, <2>1 DEF OutFits
    <2>2. CASE k - n \in 1 .. m /\ k = n + (k - n)
      <3>1. new[k].line = lines[k - n]
        BY <1>4, <2>2
      <3>2. Shown(lines[k - n]) /\ new[n + (k - n)].form = Form(lines[k - n])
        BY <1>0, <1>1, <2>2
      <3> QED BY <1>0, <2>2, <3>1, <3>2
    <2> QED BY <1>2, <2>1, <2>2
  <1>6. ASSUME NEW i \in more, Shown(i) PROVE \E k \in 1 .. n + m : new[k].line = i
    <2>1. CASE i \in due
      BY <1>0, <1>1, <1>3, <1>6, <2>1 DEF OutFits
    <2>2. CASE \E k \in 1 .. m : lines[k] = i
      BY <1>0, <1>4, <2>2
    <2> QED BY <1>0, <1>6, <2>1, <2>2
  <1>7. ASSUME NEW j \in 1 .. n + m, NEW k \in 1 .. n + m, j < k
        PROVE  new[j].line < new[k].line
    <2>1. CASE k \in 1 .. n
      <3>1. j \in 1 .. n
        BY <1>7, <2>1
      <3> QED BY <1>0, <1>1, <1>3, <1>7, <2>1, <3>1 DEF OutFits
    <2>2. CASE j \in 1 .. n /\ k - n \in 1 .. m /\ k = n + (k - n)
      <3>1. new[j].line \in due
        BY <1>0, <1>1, <1>3, <2>2 DEF OutFits
      <3>2. new[k].line = lines[k - n]
        BY <1>4, <2>2
      <3> QED BY <1>0, <2>2, <3>1, <3>2
    <2>3. CASE j - n \in 1 .. m /\ j = n + (j - n) /\ k - n \in 1 .. m /\ k = n + (k - n)
      <3>1. new[j].line = lines[j - n] /\ new[k].line = lines[k - n]
        BY <1>4, <2>3
      <3>2. j - n < k - n
        BY <1>7
      <3> QED BY <1>0, <2>3, <3>1, <3>2
    <2>4. j \notin 1 .. n => k \notin 1 .. n
      BY <1>7
    <2> QED BY <1>2, <2>1, <2>2, <2>3, <2>4
  <1> QED BY <1>1, <1>5, <1>6, <1>7 DEF OutFits

\* A line by itself.
LEMMA OutGrownByOne ==
  ASSUME Typed, at \in DOMAIN template, NEW due \in SUBSET Nat, OutFits(out, due),
         \A i \in due : i < at, NEW form \in {"raw", "value", "chunk", "token"},
         EmitThis(form), Shown(at), form = Form(at)
  PROVE  OutFits(out', due \cup {at})
  <1>1. /\ out' \in Seq(Emitted) /\ out \in Seq(Emitted) /\ Len(out') = Len(out) + 1
        /\ \A k \in 1 .. Len(out) : out'[k] = out[k]
        /\ out'[Len(out) + 1].line = at /\ out'[Len(out) + 1].form = form
    BY EmitThisIs DEF Typed, Shaped
  <1>2. PICK lines : lines = <<at>>
    OBVIOUS
  <1>3. lines[1] = at /\ at \in Nat /\ \A k \in 1 .. 1 : k = 1
    BY <1>2, TypedText
  <1>4. PICK new \in Seq(Emitted) : new = out'
    BY <1>1
  <1>5. PICK more \in SUBSET Nat : more = due \cup {at}
    BY <1>3
  <1>6. Extends(new, out, 1, lines, due, more)
    <2>1. 1 \in 1 .. 1 /\ ~(1 < 1)
      OBVIOUS
    <2> QED BY <1>1, <1>3, <1>4, <1>5, <2>1 DEF Extends
  <1>7. OutFits(new, more)
    BY <1>1, <1>4, <1>5, <1>6, OutGrown
  <1> QED BY <1>4, <1>5, <1>7

\* A line that is read by itself is emitted if it is shown, in its form.
LEMMA ReadIsShown ==
  ASSUME Typed, at \in DOMAIN template, Proceed, Next, ~quote.open,
         AllActive <=> Taken(at), Condition = "yes" <=> Holds(at),
         NEW due \in SUBSET Nat, OutFits(out, due), \A i \in due : i < at
  PROVE  OutFits(out', due \cup {at})
  <1>1. at \in Plain
    BY DEF Typed, TemplateTypeOK, Plain
  <1>2. Shown(at) <=> /\ Tag(at) \in {"text", "MEM", "RCHUNK", "RSKILL"} /\ Taken(at)
                      /\ Tag(at) \in {"RCHUNK", "RSKILL"} => Holds(at)
    BY <1>1 DEF Shown
  <1>3. Form(at) = IF Tag(at) = "text" THEN "raw" ELSE IF Tag(at) = "MEM" THEN "value"
                   ELSE IF Tag(at) = "RCHUNK" \/ context.expand THEN "chunk" ELSE "token"
    BY <1>1 DEF Form
  <1>4. Form(at) \in {"raw", "value", "chunk", "token"}
    BY <1>3
  <1>5. CASE Shown(at)
    <2>1. EmitThis(Form(at))
      BY <1>2, <1>3, <1>5, OutMoves
    <2> QED BY <1>4, <1>5, <2>1, OutGrownByOne
  <1>6. CASE ~Shown(at)
    <2>1. out' = out
      BY <1>2, <1>6, OutMoves
    <2>2. OutFits(out, due \cup {at})
      BY <1>6, OutKept
    <2> QED BY <2>1, <2>2
  <1> QED BY <1>5, <1>6

\* An RTEXT block that ends is emitted, from the line after its start to the line
\* before its end, if it is shown.
LEMMA BlockIsShown ==
  ASSUME Typed, at \in DOMAIN template, Proceed, Next, quote.open, Tag(at) = "RTEXT_END",
         QuoteFits(quote, at), QuoteMeans(quote, stack), OutFits(out, DueBy(quote, at))
  PROVE  OutFits(out', 1 .. at)
  <1> DEFINE from == quote.from
             due == DueBy(quote, at)
             m == at - from - 1
             lines == [k \in 1 .. m |-> from + k]
  <1>1. /\ IsTemplate /\ at \in Nat /\ from \in Nat /\ at \notin Plain
        /\ Opens(from, at) /\ from < at /\ from \in Plain /\ Tag(from) = "RTEXT_START"
        /\ \A k \in from + 1 .. at - 1 : k \notin Plain /\ Tag(k) # "RTEXT_END"
    <2>1. IsTemplate /\ at \in Nat /\ from \in Nat
      BY TypedText DEF Typed, Shaped
    <2>2. at \notin Plain
      BY DEF Typed, TemplateTypeOK, Plain
    <2>3. Opens(from, at) /\ \A k \in from + 1 .. at - 1 : Tag(k) # "RTEXT_END"
      BY DEF QuoteFits
    <2>4. from \in With({"RTEXT_START"}) /\ from < at
          /\ \A k \in from + 1 .. at - 1 : k \notin Plain
      BY <2>3 DEF Opens
    <2>5. from \in Plain /\ Tag(from) = "RTEXT_START"
      BY <2>4, WithIn
    <2> QED BY <2>1, <2>2, <2>3, <2>4, <2>5
  <1>2. due = 1 .. from - 1
    BY <1>1 DEF DueBy
  <1>3. m \in Nat /\ \A i \in 1 .. at : i \in due \/ i = from \/ i = at \/ i \in from + 1 .. at - 1
    BY <1>1, <1>2
  <1>4. ~Shown(from) /\ ~Shown(at)
    BY <1>1 DEF Shown
  <1>5. ASSUME NEW i \in from + 1 .. at - 1
        PROVE  (Shown(i) <=> quote.cond) /\ Form(i) = "raw"
    <2>1. i \in Nat /\ from \in 1 .. i /\ i \notin Plain /\ Tag(i) # "RTEXT_END"
      <3>1. from \in 1 .. at
        BY <1>1, WithIn DEF Opens, IsTemplate
      <3> QED BY <1>1, <3>1
    <2>2. Opens(from, i)
      BY <1>1, <2>1 DEF Opens
    <2>3. (\E j \in 1 .. i : Opens(j, i) /\ Holds(j) /\ Taken(j)) <=> Holds(from) /\ Taken(from)
      BY <1>1, <2>1, <2>2, OpensOnce
    <2> QED BY <2>1, <2>3 DEF Shown, Form, QuoteMeans
  <1>6. OutFits(out, due)
    OBVIOUS
  <1>7. CASE ~quote.cond
    <2>1. out' = out
      BY <1>7, OutMoves
    <2>2. due \subseteq 1 .. at
      BY <1>1, <1>2
    <2>3. \A i \in 1 .. at : i \in due \/ ~Shown(i)
      BY <1>3, <1>4, <1>5, <1>7
    <2> HIDE DEF due
    <2> QED BY <1>6, <2>1, <2>2, <2>3, OutKept
  <1>8. CASE quote.cond
    <2>1. Emit(lines, "raw")
      <3>1. AllActive
        BY <1>8 DEF QuoteMeans, ActiveIn, AllActive
      <3> QED BY <1>8, <3>1, OutMoves
    <2>2. \A k \in 1 .. m : lines[k] = from + k /\ lines[k] \in from + 1 .. at - 1
      BY <1>1, <1>3
    <2>3. lines \in Seq(Nat) /\ Len(lines) = m
      BY <1>1, <1>3
    <2>4. out \in Seq(Emitted)
      BY DEF Typed, Shaped
    <2> HIDE DEF lines, due
    <2>5. /\ out' \in Seq(Emitted) /\ Len(out') = Len(out) + Len(lines)
          /\ \A k \in 1 .. Len(out) : out'[k] = out[k]
          /\ \A k \in 1 .. Len(lines) :
               out'[Len(out) + k].line = lines[k] /\ out'[Len(out) + k].form = "raw"
      BY <2>1, <2>3, <2>4, EmitIs
    <2>6. due \in SUBSET Nat /\ 1 .. at \in SUBSET Nat /\ due \subseteq 1 .. at
      BY <1>1, <1>2
    <2>7. \A k \in 1 .. m : lines[k] \in 1 .. at /\ \A i \in due : i < lines[k]
      BY <1>1, <1>2, <2>2
    <2>8. \A j, k \in 1 .. m : j < k => lines[j] < lines[k]
      BY <1>1, <1>3, <2>2
    <2>9. \A k \in 1 .. m : /\ out'[Len(out) + k].line = lines[k] /\ Shown(lines[k])
                            /\ out'[Len(out) + k].form = Form(lines[k])
      BY <1>5, <1>8, <2>2, <2>3, <2>5
    <2>10. \A i \in 1 .. at : Shown(i) => i \in due \/ \E k \in 1 .. m : lines[k] = i
      <3>1. ASSUME NEW i \in from + 1 .. at - 1 PROVE \E k \in 1 .. m : lines[k] = i
        <4>1. i - from \in 1 .. m /\ i = from + (i - from)
          BY <1>1, <1>3
        <4> QED BY <2>2, <4>1
      <3> QED BY <1>3, <1>4, <3>1
    <2>11. PICK new \in Seq(Emitted) : new = out'
      BY <2>5
    <2>12. PICK more \in SUBSET Nat : more = 1 .. at
      BY <2>6
    <2> HIDE DEF m
    <2>13. Len(new) = Len(out) + m /\ \A k \in 1 .. Len(out) : new[k] = out[k]
      BY <2>3, <2>5, <2>11
    <2>14. \A k \in 1 .. m : lines[k] \in more /\ \A i \in due : i < lines[k]
      BY <2>7, <2>12
    <2>15. \A k \in 1 .. m : /\ new[Len(out) + k].line = lines[k] /\ Shown(lines[k])
                             /\ new[Len(out) + k].form = Form(lines[k])
      BY <2>9, <2>11
    <2>16. \A i \in more : Shown(i) => i \in due \/ \E k \in 1 .. m : lines[k] = i
      BY <2>10, <2>12
    <2>17. Extends(new, out, m, lines, due, more)
      BY <2>6, <2>8, <2>12, <2>13, <2>14, <2>15, <2>16 DEF Extends
    <2>18. OutFits(new, more)
      BY <1>3, <1>6, <2>4, <2>6, <2>17, OutGrown
    <2> QED BY <2>11, <2>12, <2>18
  <1> QED BY <1>7, <1>8

\* What was emitted is what the text shows, line by line.
LEMMA OutFitsStep ==
  ASSUME Typed, at \in DOMAIN template, Proceed, Next,
         AllActive <=> Taken(at), Condition = "yes" <=> Holds(at),
         QuoteFits(quote, at), QuoteMeans(quote, stack), OutFits(out, DueBy(quote, at))
  PROVE  OutFits(out', DueBy(quote', at + 1))
  <1>1. at \in Nat /\ at >= 1 /\ quote.from \in Nat
    BY TypedText DEF Typed, Shaped
  <1>2. CASE quote.open /\ Tag(at) = "RTEXT_END"
    <2>1. ~quote'.open
      BY <1>2, QuoteMoves DEF Directs
    <2>2. DueBy(quote', at + 1) = 1 .. at
      BY <1>1, <2>1 DEF DueBy
    <2> QED BY <1>2, <2>2, BlockIsShown
  <1>3. CASE quote.open /\ Tag(at) # "RTEXT_END"
    <2>1. quote' = quote /\ out' = out
      BY <1>3, QuoteMoves, OutMoves DEF Directs
    <2>2. quote.from < at
      BY <1>3 DEF QuoteFits, Opens
    <2>3. DueBy(quote, at + 1) = DueBy(quote, at)
      BY <1>1, <1>3, <2>2 DEF DueBy
    <2> QED BY <2>1, <2>3
  <1>4. CASE ~quote.open
    <2>1. DueBy(quote, at) = 1 .. at - 1
      BY <1>1, <1>4 DEF DueBy
    <2>2. OutFits(out', (1 .. at - 1) \cup {at})
      <3>1. 1 .. at - 1 \in SUBSET Nat /\ \A i \in 1 .. at - 1 : i < at
        BY <1>1
      <3> QED BY <1>4, <2>1, <3>1, ReadIsShown
    <2>3. CASE Directs({"RTEXT_START"})
      <3>1. quote'.open /\ quote'.from = at
        BY <2>3, QuoteMoves
      <3>2. DueBy(quote', at + 1) = 1 .. at - 1
        BY <1>1, <3>1 DEF DueBy
      <3>3. out' = out
        BY <1>4, <2>3, OutMoves DEF Directs
      <3> QED BY <2>1, <3>2, <3>3
    <2>4. CASE ~Directs({"RTEXT_START"})
      <3>1. quote' = quote
        BY <1>4, <2>4, QuoteMoves
      <3>2. DueBy(quote', at + 1) = (1 .. at - 1) \cup {at}
        BY <1>1, <1>4, <3>1 DEF DueBy
      <3> QED BY <2>2, <3>2
    <2> QED BY <2>3, <2>4
  <1> QED BY <1>2, <1>3, <1>4

-----------------------------------------------------------------------------
(* The renderer's state before a line, as a whole.                          *)

\* The lines before n are sound, and no IF among them has conditions in a branch that
\* is not taken.
CleanTo(n) ==
  SoundBefore(n) /\ ~\E i \in With({"IF"}) : i < n /\ ~Taken(i) /\ ConditionsOf(i) # {}

\* There, conditions, frames, the block and the output are what the text says.
Meant(n, st, p, c, fs, q, o) ==
  CleanTo(n) => /\ ConditionsFit(p, c, fs, n) /\ FramesMean(st, n)
                /\ QuoteMeans(q, st) /\ OutFits(o, DueBy(q, n))

\* In any text, the rest.
Fits(n, st, p, c, fs, q, o) ==
  /\ FitFacts(fs, n) /\ Origins(p, c, n) /\ FramesFit(st, n) /\ QuoteFits(q, n)
  /\ Meant(n, st, p, c, fs, q, o)

FitsNow == Fits(at, stack, pending, current, facts, quote, out)

\* Where the text is clean, the renderer shows a line where the text does, and
\* evaluates the conditions before it to what they mean.
LEMMA CleanIsMeant ==
  ASSUME Typed, FitsNow, CleanTo(at)
  PROVE  /\ AllActive <=> Taken(at)
         /\ Condition = "yes" <=> Holds(at)
         /\ ConditionsFit(pending, current, facts, at) /\ FramesMean(stack, at)
         /\ QuoteMeans(quote, stack) /\ OutFits(out, DueBy(quote, at)) /\ SoundBefore(at)
  <1>1. /\ FitFacts(facts, at) /\ Origins(pending, current, at) /\ FramesFit(stack, at)
        /\ ConditionsFit(pending, current, facts, at) /\ FramesMean(stack, at)
        /\ QuoteMeans(quote, stack) /\ OutFits(out, DueBy(quote, at)) /\ SoundBefore(at)
    BY DEF FitsNow, Fits, Meant, CleanTo
  <1>2. stack \in Seq(Frame) /\ IsTemplate /\ at \in Nat
    BY TypedText DEF Typed, TemplateTypeOK, Frame
  <1>3. AllActive <=> Taken(at)
    BY <1>1, <1>2, ActiveIsTaken DEF ActiveIn, AllActive
  <1> QED BY <1>1, <1>3, ConditionIs

\* A line that is read leaves the state that the text says.
LEMMA FitsStep ==
  ASSUME Typed, at \in DOMAIN template, Proceed, Next, FitsNow
  PROVE  Fits(at + 1, stack', pending', current', facts', quote', out')
  <1>1. /\ FitFacts(facts, at) /\ Origins(pending, current, at) /\ FramesFit(stack, at)
        /\ QuoteFits(quote, at)
    BY DEF FitsNow, Fits
  <1>2. /\ FitFacts(facts', at + 1) /\ Origins(pending', current', at + 1)
        /\ FramesFit(stack', at + 1) /\ QuoteFits(quote', at + 1)
    BY <1>1, FactsStep, OriginsStep, FramesFitStep, QuoteFitsStep
  <1>3. ASSUME CleanTo(at + 1)
        PROVE  /\ ConditionsFit(pending', current', facts', at + 1)
               /\ FramesMean(stack', at + 1) /\ QuoteMeans(quote', stack')
               /\ OutFits(out', DueBy(quote', at + 1))
    <2>1. at \in Nat /\ at < at + 1 /\ IsTemplate
      BY TypedText
    <2>2. CleanTo(at) /\ SoundBefore(at + 1)
      <3>1. \A k \in Conditions : k < at => k < at + 1
        BY <2>1, WithIn DEF Conditions, IsTemplate
      <3>2. \A i \in With({"IF"}) : i < at => i < at + 1
        BY <2>1, WithIn DEF IsTemplate
      <3> QED BY <1>3, <3>1, <3>2 DEF CleanTo, SoundBefore
    <2>3. /\ AllActive <=> Taken(at)
          /\ Condition = "yes" <=> Holds(at)
          /\ ConditionsFit(pending, current, facts, at) /\ FramesMean(stack, at)
          /\ QuoteMeans(quote, stack) /\ OutFits(out, DueBy(quote, at)) /\ SoundBefore(at)
      BY <2>2, CleanIsMeant
    <2>4. Directs({"IF"}) /\ ~AllActive => ConditionsOf(at) = {}
      <3>1. Directs({"IF"}) => at \in With({"IF"})
        BY ReadIs
      <3> QED BY <1>3, <2>1, <2>3, <3>1 DEF CleanTo
    <2>5. ConditionsFit(pending', current', facts', at + 1)
      BY <1>1, <2>2, <2>3, <2>4, ConditionsFitStep
    <2>6. FramesMean(stack', at + 1)
      BY <1>1, <2>3, FramesMeanStep
    <2>7. QuoteMeans(quote', stack')
      BY <1>1, <2>3, QuoteMeansStep
    <2>8. OutFits(out', DueBy(quote', at + 1))
      BY <1>1, <2>3, OutFitsStep
    <2> QED BY <2>5, <2>6, <2>7, <2>8
  <1> QED BY <1>2, <1>3 DEF Fits, Meant

\* An exception, or the end, and the line where it is.
LEMMA StopsWith ==
  ASSUME Typed, Next, Stopped
  PROVE  \/ /\ at \in DOMAIN template
            /\ \/ /\ Directs({"MEMCOND"})
                  /\ \E answer \in Outcomes \ Answers :
                       /\ answer = EvalExpr(template[at].expr, context.counts)
                       /\ status' = IF answer = "CondError" THEN "ParseError" ELSE answer
               \/ /\ Directs({"IF", "RTEXT_START", "RCHUNK", "RSKILL"})
                  /\ Condition \notin Answers /\ status' = Condition
               \/ /\ Directs({"IFTRUE", "IFFALSE", "IFEND"}) /\ stack = <<>>
                  /\ status' = "ParseError"
               \/ /\ Directs({"RCHUNK", "RSKILL"}) /\ Condition = "yes" /\ AllActive
                  /\ Tag(at) = "RCHUNK" \/ context.expand
                  /\ ~Resolves /\ status' = "ParseError"
               \/ /\ Directs({"MEM"}) /\ AllActive /\ ~template[at].sound
                  /\ status' = "ParseError"
               \/ Directs({"RTEXT_END", "unknown"}) /\ status' = "ParseError"
         \/ /\ at > Len(template)
            /\ status' = IF quote.open \/ stack # <<>> THEN "ParseError" ELSE "done"
  <1>1. ~Proceed /\ Tag(at) = template[at].tag
    BY TypedText DEF Proceed, Stopped, Tag
  <1>2. CASE ReadMemCond
    <2>1. PICK answer \in Outcomes : answer = EvalExpr(template[at].expr, context.counts)
      BY EvalTyped
    <2>2. answer \notin Answers
          /\ status' = IF answer = "CondError" THEN "ParseError" ELSE answer
      BY <1>1, <1>2, <2>1 DEF ReadMemCond, Raise, Answers
    <2>3. at \in DOMAIN template /\ Directs({"MEMCOND"})
      BY <1>1, <1>2 DEF ReadMemCond, Reading, Directs
    <2> QED BY <2>1, <2>2, <2>3
  <1>3. CASE OpenIf \/ OpenQuote
    BY <1>1, <1>3 DEF OpenIf, OpenQuote, Reading, Raise, Directs, Answers
  <1>4. CASE TurnBranch \/ CloseIf
    BY <1>1, <1>4 DEF TurnBranch, CloseIf, Reading, Raise, Directs
  <1>5. CASE Include
    BY <1>1, <1>5 DEF Include, Reading, Raise, Directs, Answers
  <1>6. CASE EvalMem \/ Refuse
    BY <1>1, <1>6 DEF EvalMem, Refuse, Reading, Raise, Directs
  <1>7. CASE Finish
    BY <1>7 DEF Finish, Raise
  <1>8. CASE ReadQuoted \/ ReadText \/ ReadFact \/ ReadOrFact
    BY <1>1, <1>8 DEF ReadQuoted, ReadText, ReadFact, ReadOrFact
  <1> QED BY <1>2, <1>3, <1>4, <1>5, <1>6, <1>7, <1>8 DEF Next

\* Each has its cause in the text.
LEMMA StopHasCause ==
  ASSUME Typed, Next, Stopped, FitsNow
  PROVE  HasCause(status')
  <1>1. /\ Depth(at) = Len(stack) /\ (quote.open <=> QuotedAfter(at - 1))
        /\ stack = <<>> <=> Len(stack) = 0
        /\ stack # <<>> => Len(stack) > 0
    BY DEF Typed, TemplateTypeOK
  <1>2. /\ DOMAIN template = 1 .. Len(template) /\ at \in Nat /\ Len(template) \in Nat
        /\ IsTemplate
    BY TypedText
  <1>3. AllSound <=> SoundBefore(at)
    BY DEF AllSound, SoundBefore
  <1>4. AllSound /\ ~UntakenIf => CleanTo(at)
    BY <1>3 DEF UntakenIf, CleanTo
  <1>5. at \in DOMAIN template => ~(at > Len(template))
    BY <1>2
  <1>6. AllSound => Condition \in Answers
    BY <1>3, ConditionAnswered DEF FitsNow, Fits
  <1>7. at \in DOMAIN template /\ ~quote.open => at \in Plain
    BY <1>1 DEF Plain
  <1>8. CASE at \in DOMAIN template /\ Directs({"MEMCOND"}) /\
             \E answer \in Outcomes \ Answers :
               /\ answer = EvalExpr(template[at].expr, context.counts)
               /\ status' = IF answer = "CondError" THEN "ParseError" ELSE answer
    <2>1. PICK answer \in Outcomes \ Answers :
            /\ answer = EvalExpr(template[at].expr, context.counts)
            /\ status' = IF answer = "CondError" THEN "ParseError" ELSE answer
      BY <1>8
    <2>2. PICK words \in Seq(Word) : words = template[at].expr
      <3>1. template[at] \in Line
        BY <1>2, <1>8 DEF IsTemplate
      <3> QED BY <3>1 DEF Line
    <2>3. ~Sound(words, context.counts)
      BY <2>1, <2>2, SoundEvaluates DEF Answer, Answers
    <2>4. status' \in {"ParseError", "IndexError"} /\ Tag(at) = "MEMCOND"
      BY <1>8, <2>1 DEF Outcomes, Answers, Directs
    <2> QED BY <1>5, <1>8, <2>2, <2>3, <2>4 DEF HasCause
  <1>9. CASE /\ at \in DOMAIN template /\ Directs({"IF", "RTEXT_START", "RCHUNK", "RSKILL"})
             /\ Condition \notin Answers /\ status' = Condition
    <2>1. status' \in {"CondError", "IndexError"}
      BY <1>9, ConditionTyped DEF Typed, Outcomes, Answers
    <2>2. at \in Users
      BY <1>7, <1>9 DEF Users, With, Directs
    <2> QED BY <1>6, <1>9, <2>1, <2>2 DEF HasCause
  <1>10. CASE at \in DOMAIN template /\ Directs({"IFTRUE", "IFFALSE", "IFEND"}) /\ stack = <<>>
              /\ status' = "ParseError"
    BY <1>1, <1>5, <1>10 DEF HasCause, Directs
  <1>11. CASE /\ at \in DOMAIN template /\ Directs({"RCHUNK", "RSKILL"}) /\ Condition = "yes"
              /\ AllActive /\ (Tag(at) = "RCHUNK" \/ context.expand)
              /\ ~Resolves /\ status' = "ParseError"
    <2>1. ASSUME AllSound, ~UntakenIf PROVE Shown(at) /\ Form(at) # "token"
      <3>1. Taken(at) /\ Holds(at)
        BY <1>4, <1>11, <2>1, CleanIsMeant
      <3> QED BY <1>7, <1>11, <3>1 DEF Shown, Form, Directs
    <2> QED BY <1>5, <1>11, <2>1 DEF HasCause, Directs
  <1>12. CASE /\ at \in DOMAIN template /\ Directs({"MEM"}) /\ AllActive
              /\ ~template[at].sound /\ status' = "ParseError"
    <2>1. ASSUME AllSound, ~UntakenIf PROVE Shown(at) /\ Form(at) # "token"
      <3>1. Taken(at)
        BY <1>4, <1>12, <2>1, CleanIsMeant
      <3> QED BY <1>7, <1>12, <3>1 DEF Shown, Form, Directs
    <2> QED BY <1>5, <1>12, <2>1 DEF HasCause, Directs
  <1>13. CASE at \in DOMAIN template /\ Directs({"RTEXT_END", "unknown"}) /\ status' = "ParseError"
    BY <1>5, <1>13 DEF HasCause, Directs
  <1>14. CASE at > Len(template)
              /\ status' = IF quote.open \/ stack # <<>> THEN "ParseError" ELSE "done"
    BY <1>1, <1>14 DEF HasCause
  <1> QED BY <1>8, <1>9, <1>10, <1>11, <1>12, <1>13, <1>14, StopsWith

\* What is said of a state is said of its values only: the text stays.
LEMMA FitsStays ==
  ASSUME template' = template, context' = context
  PROVE  \A n, st, p, c, fs, q, o : Fits(n, st, p, c, fs, q, o)' <=> Fits(n, st, p, c, fs, q, o)
  <1>1. \A n, fs : FitFacts(fs, n)' <=> FitFacts(fs, n)
    BY TextStays DEF FitFacts
  <1>2. \A n, p, c : Origins(p, c, n)' <=> Origins(p, c, n)
    BY TextStays DEF Origins, OriginBefore, Origin
  <1>3. \A n, st : FramesFit(st, n)' <=> FramesFit(st, n)
    BY TextStays DEF FramesFit
  <1>4. \A n, q : QuoteFits(q, n)' <=> QuoteFits(q, n)
    BY TextStays DEF QuoteFits, Opens
  <1>5. \A n : CleanTo(n)' <=> CleanTo(n)
    BY TextStays DEF CleanTo, SoundBefore
  <1>6. \A n, p, c, fs : ConditionsFit(p, c, fs, n)' <=> ConditionsFit(p, c, fs, n)
    BY TextStays DEF ConditionsFit
  <1>7. \A n, st : FramesMean(st, n)' <=> FramesMean(st, n)
    BY TextStays DEF FramesMean
  <1>8. \A st, q : QuoteMeans(q, st)' <=> QuoteMeans(q, st)
    BY TextStays DEF QuoteMeans
  <1>9. \A o, due : OutFits(o, due)' <=> OutFits(o, due)
    BY TextStays DEF OutFits
  <1> QED BY <1>1, <1>2, <1>3, <1>4, <1>5, <1>6, <1>7, <1>8, <1>9 DEF Fits, Meant

\* The causes are in the text and at the line.
LEMMA CauseStays ==
  ASSUME template' = template, context' = context, at' = at
  PROVE  \A outcome : HasCause(outcome)' <=> HasCause(outcome)
  <1>1. AllSound' <=> AllSound
    BY TextStays DEF AllSound
  <1>2. UntakenIf' <=> UntakenIf
    BY TextStays DEF UntakenIf
  <1>3. Resolves' <=> Resolves
    BY DEF Resolves
  <1>4. /\ Tag(at)' = Tag(at) /\ Depth(at)' = Depth(at) /\ Form(at)' = Form(at)
        /\ QuotedAfter(at - 1)' <=> QuotedAfter(at - 1)
        /\ Shown(at)' <=> Shown(at)
    BY TextStays
  <1>5. at' \in Users' <=> at \in Users
    BY TextStays DEF Users
  <1> QED BY <1>1, <1>2, <1>3, <1>4, <1>5 DEF HasCause

\* The inductive invariant.
IInv == Typed /\ FitsNow /\ FailsForACause

\* It holds before the first line.
LEMMA Initially == TemplateInit => IInv
  <1> SUFFICES ASSUME TemplateInit PROVE IInv
    OBVIOUS
  <1>1. /\ template \in Templates /\ context \in Contexts /\ facts = context.facts
        /\ at = 1 /\ stack = <<>> /\ pending = <<>> /\ current = <<>> /\ quote = NoQuote
        /\ out = <<>> /\ status = "rendering"
    BY DEF TemplateInit
  <1>2. IsTemplate /\ context \in Context /\ Len(template) \in Nat
    BY <1>1, TemplateAssumption DEF IsTemplate
  <1>3. ~quote.open /\ quote \in [open : BOOLEAN, from : Nat, cond : BOOLEAN]
    BY <1>1 DEF NoQuote
  <1>4. Typed
    <2>1. Depth(at) = 0 /\ ~QuotedAfter(at - 1)
      BY <1>1, <1>2, DepthStep, NotQuotedAtFirst
    <2>2. facts \in Facts
      BY <1>1, <1>2 DEF Context
    <2> QED BY <1>1, <1>2, <1>3, <2>1, <2>2 DEF Typed, TemplateTypeOK, Shaped
  <1>5. \A tags : \A k \in With(tags) : k \in Nat /\ ~(k < 1)
    BY <1>2, WithIn DEF IsTemplate
  <1>6. FitFacts(facts, at)
    BY <1>1, <1>5 DEF FitFacts
  <1>7. Origins(pending, current, at)
    BY <1>1 DEF Origins
  <1>8. \A j : ~Encloses(j, at)
    BY <1>1, <1>5 DEF Encloses
  <1>9. FramesFit(stack, at) /\ FramesMean(stack, at)
    BY <1>1, <1>8 DEF FramesFit, FramesMean
  <1>10. QuoteFits(quote, at) /\ QuoteMeans(quote, stack)
    BY <1>3 DEF QuoteFits, QuoteMeans
  <1>11. ConditionsFit(pending, current, facts, at)
    BY <1>1, <1>2, ConditionsStep DEF ConditionsFit
  <1>12. OutFits(out, DueBy(quote, at))
    BY <1>1 DEF OutFits, DueBy
  <1>13. FitsNow
    BY <1>6, <1>7, <1>9, <1>10, <1>11, <1>12 DEF FitsNow, Fits, Meant
  <1>14. FailsForACause
    BY <1>1 DEF FailsForACause, HasCause
  <1> QED BY <1>4, <1>13, <1>14 DEF IInv

\* Every step keeps it.
LEMMA Inductive == IInv /\ [Next]_vars => IInv'
  <1> SUFFICES ASSUME IInv, [Next]_vars PROVE IInv'
    OBVIOUS
  <1>1. Typed /\ FitsNow /\ FailsForACause
    BY DEF IInv
  <1>2. Typed'
    BY <1>1, TypeStep
  <1>3. template' = template /\ context' = context
    BY <1>1, ReadsOrStops DEF vars, Stopped, Proceed
  <1>4. \A n, st, p, c, fs, q, o : Fits(n, st, p, c, fs, q, o)' <=> Fits(n, st, p, c, fs, q, o)
    BY <1>3, FitsStays
  <1>5. FitsNow' <=> Fits(at', stack', pending', current', facts', quote', out')
    BY <1>4 DEF FitsNow
  <1>6. CASE UNCHANGED vars
    <2>1. /\ at' = at /\ stack' = stack /\ pending' = pending /\ current' = current
          /\ facts' = facts /\ quote' = quote /\ out' = out /\ status' = status
      BY <1>6 DEF vars
    <2>2. FitsNow'
      BY <1>1, <1>5, <2>1 DEF FitsNow
    <2>3. FailsForACause'
      BY <1>1, <1>3, <2>1, CauseStays DEF FailsForACause
    <2> QED BY <1>2, <2>2, <2>3 DEF IInv
  <1>7. CASE Next /\ Stopped
    <2>1. /\ at' = at /\ stack' = stack /\ pending' = pending /\ current' = current
          /\ facts' = facts /\ quote' = quote /\ out' = out
      BY <1>7 DEF Stopped
    <2>2. FitsNow'
      BY <1>1, <1>5, <2>1 DEF FitsNow
    <2>3. HasCause(status')
      BY <1>1, <1>7, StopHasCause
    <2>4. FailsForACause'
      BY <1>3, <2>1, <2>3, CauseStays DEF FailsForACause
    <2> QED BY <1>2, <2>2, <2>4 DEF IInv
  <1>8. CASE Next /\ at \in DOMAIN template /\ Proceed
    <2>1. Fits(at + 1, stack', pending', current', facts', quote', out')
      BY <1>1, <1>8, FitsStep
    <2>2. FitsNow'
      BY <1>5, <1>8, <2>1 DEF Proceed
    <2>3. status' = "rendering"
      BY <1>8 DEF Proceed, Next, Reading, ReadQuoted, ReadText, ReadFact, ReadOrFact, ReadMemCond,
                  OpenIf, TurnBranch, CloseIf, OpenQuote, Include, EvalMem, Refuse, Finish
    <2>4. FailsForACause'
      BY <2>3 DEF FailsForACause, HasCause
    <2> QED BY <1>2, <2>2, <2>4 DEF IInv
  <1> QED BY <1>1, <1>6, <1>7, <1>8, ReadsOrStops

\* It holds in every state.
LEMMA Invariant == Spec => []IInv
  BY Initially, Inductive, PTL DEF Spec

-----------------------------------------------------------------------------
(* The properties.                                                          *)

\* The state of the renderer is of its types; its stack is as deep as the blocks that
\* are open, and an RTEXT block is open where the text has one.
THEOREM TemplateTypeCorrect == Spec => []TemplateTypeOK
  <1>1. IInv => TemplateTypeOK
    BY DEF IInv, Typed
  <1> QED BY <1>1, Invariant, PTL

\* At every line, unless an IF in a branch not taken has left its conditions to a later
\* block, what was emitted is what the template says, in order and in form.
THEOREM RendersUnlessLeak == Spec => []LeakNeedsUntakenIf
  <1>1. ASSUME IInv PROVE LeakNeedsUntakenIf
    <2>1. SUFFICES ASSUME AllSound, ~UntakenIf PROVE OutputAsWritten
      BY DEF LeakNeedsUntakenIf
    <2>2. CleanTo(at)
      BY <2>1 DEF AllSound, UntakenIf, CleanTo, SoundBefore
    <2>3. OutFits(out, DueBy(quote, at))
      BY <1>1, <2>2, CleanIsMeant DEF IInv
    <2>4. Due = DueBy(quote, at)
      BY DEF Due, DueBy
    <2> QED BY <2>3, <2>4 DEF OutputAsWritten, OutFits
  <1> QED BY <1>1, Invariant, PTL

\* Rendering fails for a cause that is in the text at the line where it stopped.
THEOREM FailsCorrect == Spec => []FailsForACause
  <1>1. IInv => FailsForACause
    BY DEF IInv
  <1> QED BY <1>1, Invariant, PTL
=============================================================================
