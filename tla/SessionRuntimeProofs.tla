----------------------- MODULE SessionRuntimeProofs -----------------------
(***************************************************************************)
(* Proofs about SessionRuntime, for every number of nodes, processes, shows  *)
(* and ticks.  The inductive invariant speaks of every document there is,    *)
(* the one on disk and those that shows are about to write.                  *)
(***************************************************************************)
EXTENDS SessionRuntime, TLAPS

-----------------------------------------------------------------------------
(* Times.                                                                   *)

\* Division with remainder.
LEMMA Division ==
  ASSUME NEW a \in Nat, NEW d \in Nat \ {0}
  PROVE  /\ a \div d \in Nat /\ a % d \in Nat /\ a % d < d
         /\ a = d * (a \div d) + (a % d)
  BY SMT

\* The quotient is the only number of whole parts.
LEMMA Quotient ==
  ASSUME NEW a \in Nat, NEW d \in Nat \ {0}, NEW q \in Nat,
         d * q <= a, a < d * q + d
  PROVE  a \div d = q
  BY Division, SMT

\* A later time contains no fewer intervals.
LEMMA QuotientMonotone ==
  ASSUME NEW a \in Nat, NEW b \in Nat, NEW d \in Nat \ {0}, a <= b
  PROVE  a \div d <= b \div d
  BY Division, SMT

\* Cutting a time to seconds (format_dt) does not move it before a whole second that
\* it has passed.
LEMMA CutBelow ==
  ASSUME NEW t \in Nat, NEW d \in Nat \ {0}, NEW k \in Nat, d * k <= t
  PROVE  d * k <= t - (t % d)
<1> DEFINE b == t \div d
<1>1. b \in Nat /\ t % d \in Nat /\ t % d < d /\ t = d * b + (t % d)
  BY Division
<1> HIDE DEF b
<1>2. k <= b
  <2>1. SUFFICES ASSUME b + 1 <= k PROVE FALSE
    BY <1>1
  <2>2. d * b + d <= d * k
    BY <1>1, <2>1, SMT
  <2> QED BY <1>1, <2>2, SMT
<1>3. d * k <= d * b
  BY <1>1, <1>2, SMT
<1> QED BY <1>1, <1>3, SMT

\* A product of whole seconds is one.
LEMMA WholeSum ==
  ASSUME NEW d \in Nat \ {0}, NEW a \in Nat, NEW k \in Nat, NEW q \in Nat
  PROVE  /\ a + k * q \in Nat
         /\ d * a + (d * k) * q = d * (a + k * q)
  BY SMT

\* A cut time is a time, no later, and a whole second.
LEMMA StoredTime ==
  ASSUME NEW t \in Time
  PROVE  Stored(t) \in Time /\ Stored(t) <= t /\ Stored(t) % Second = 0
<1>1. Second \in Nat \ {0} /\ MaxTime \in Nat /\ t \in Nat /\ t <= MaxTime
  BY SessionAssumption DEF Time
<1>2. t \div Second \in Nat /\ t % Second \in Nat /\ t % Second < Second
      /\ t = Second * (t \div Second) + (t % Second)
  BY <1>1, Division
<1>3. Stored(t) = Second * (t \div Second) /\ Stored(t) \in Nat /\ Stored(t) <= t
  BY <1>1, <1>2, SMT DEF Stored
<1>4. Stored(t) % Second = 0
  BY <1>1, <1>2, <1>3, SMT
<1> QED BY <1>1, <1>3, <1>4 DEF Time

\* Intervals counts with a natural number, and more of them up to a later time.
LEMMA IntervalsMonotone ==
  ASSUME NEW f \in Time, NEW t \in Time, NEW u \in Time, t <= u
  PROVE  Intervals(f, t) \in Nat /\ Intervals(f, t) <= Intervals(f, u)
<1>1. Interval \in Nat \ {0} /\ f \in Nat /\ t \in Nat /\ u \in Nat
  BY SessionAssumption DEF Time
<1>2. \A x \in Nat : x \div Interval \in Nat
  BY <1>1, Division
<1>3. CASE t > f
  <2>1. t - f \in Nat /\ u - f \in Nat /\ t - f <= u - f /\ u > f
    BY <1>1, <1>3
  <2>2. (t - f) \div Interval <= (u - f) \div Interval
    BY <1>1, <2>1, QuotientMonotone
  <2> QED BY <1>2, <1>3, <2>1, <2>2 DEF Intervals
<1>4. CASE ~(t > f)
  <2>1. Intervals(f, t) = 0
    BY <1>4 DEF Intervals
  <2>2. Intervals(f, u) \in Nat
    <3>1. u > f => u - f \in Nat
      BY <1>1
    <3> QED BY <1>2, <3>1 DEF Intervals
  <2> QED BY <2>1, <2>2
<1> QED BY <1>3, <1>4

\* The document loses the fraction of a second, and no interval by that: counted from
\* a whole second in intervals of whole seconds, a time and the cut time give the same.
LEMMA CutKeepsIntervals ==
  ASSUME NEW f \in Time, NEW t \in Time, f % Second = 0
  PROVE  Intervals(f, Stored(t)) = Intervals(f, t)
<1>1. Interval \in Nat \ {0} /\ Second \in Nat \ {0} /\ f \in Nat /\ t \in Nat
      /\ Interval % Second = 0
  BY SessionAssumption DEF Time
<1>2. Stored(t) \in Nat /\ Stored(t) <= t
  BY StoredTime DEF Time
<1>3. CASE t > f
  <2> DEFINE q == (t - f) \div Interval
             a == f \div Second
             k == Interval \div Second
  <2>1. t - f \in Nat
    BY <1>1, <1>3
  <2>2. q \in Nat /\ Interval * q <= t - f /\ t - f < Interval * q + Interval
    <3>1. q \in Nat /\ (t - f) % Interval \in Nat /\ (t - f) % Interval < Interval
          /\ t - f = Interval * q + ((t - f) % Interval)
      BY <1>1, <2>1, Division
    <3> HIDE DEF q
    <3>2. Interval * q \in Nat
      BY <1>1, <3>1, SMT
    <3> QED BY <1>1, <2>1, <3>1, <3>2, SMT
  <2>3. a \in Nat /\ f = Second * a
    BY <1>1, Division, SMT
  <2>4. k \in Nat /\ Interval = Second * k
    BY <1>1, Division, SMT
  <2> HIDE DEF q, a, k
  <2>5. /\ a + k * q \in Nat
        /\ f + Interval * q = Second * (a + k * q)
    BY <1>1, <2>2, <2>3, <2>4, WholeSum
  <2>6. Interval * q \in Nat
    BY <1>1, <2>2, SMT
  <2>7. f + Interval * q <= t
    BY <1>1, <2>1, <2>2, <2>6, SMT
  <2>8. f + Interval * q <= Stored(t)
    <3> DEFINE w == a + k * q
    <3>1. w \in Nat /\ Second * w <= t
      BY <2>5, <2>7
    <3> HIDE DEF w
    <3>2. Second * w <= t - (t % Second)
      BY <1>1, <3>1, CutBelow
    <3> QED BY <2>5, <3>2 DEF Stored, w
  <2>9. CASE Stored(t) > f
    <3>1. /\ Stored(t) - f \in Nat
          /\ Interval * q <= Stored(t) - f
          /\ Stored(t) - f < Interval * q + Interval
      BY <1>1, <1>2, <2>1, <2>2, <2>6, <2>8, <2>9, SMT
    <3>2. (Stored(t) - f) \div Interval = q
      BY <1>1, <2>2, <3>1, Quotient
    <3> QED BY <1>3, <2>9, <3>2 DEF Intervals, q
  <2>10. CASE ~(Stored(t) > f)
    <3>1. Interval * q = 0
      BY <1>1, <1>2, <2>6, <2>8, <2>10, SMT
    <3>2. q = 0
      BY <1>1, <2>2, <3>1, SMT
    <3> QED BY <1>3, <2>10, <3>2 DEF Intervals, q
  <2> QED BY <2>9, <2>10
<1>4. CASE ~(t > f)
  BY <1>1, <1>2, <1>4, SMT DEF Intervals
<1> QED BY <1>3, <1>4

-----------------------------------------------------------------------------
(* Documents.                                                               *)

Elapsed(d, s) == s.plain + Counted(d.started, s)

\* What holds of the state of a node in a document begun at a given time.
GoodState(s) ==
  /\ s.status = "suspicious" <=> s.score > Threshold
  /\ s.state = "suspicious" <=> s.score > Threshold
  /\ s.expandedAt # None => s.expandedAt % Second = 0

Good(d) ==
  /\ d.started % Second = 0
  /\ \A n \in Shown(d) : GoodState(d.nodes[n])

Exact(d) == \A n \in Shown(d) : d.nodes[n].score = Elapsed(d, d.nodes[n])

\* A document that shows recorded in order is exact.
Sound(d, unordered) == Good(d) /\ (unordered \/ Exact(d))

\* The state that a show starts from is well-typed, good, and exact if the document is.
LEMMA StateOfGood ==
  ASSUME NEW d \in Session, Good(d), NEW n \in Nodes
  PROVE  /\ StateOf(d, n) \in NodeState
         /\ GoodState(StateOf(d, n))
         /\ Exact(d) => StateOf(d, n).score = Elapsed(d, StateOf(d, n))
<1>1. CASE d.nodes[n] = None
  <2>1. StateOf(d, n) = Unseen
    BY <1>1 DEF StateOf
  <2>2. Unseen \in NodeState
    BY DEF Unseen, NodeState
  <2>3. GoodState(Unseen)
    BY SessionAssumption DEF Unseen, GoodState
  <2>4. Unseen.score = Elapsed(d, Unseen)
    BY DEF Unseen, Elapsed, Counted
  <2> QED BY <2>1, <2>2, <2>3, <2>4
<1>2. CASE d.nodes[n] # None
  <2>1. StateOf(d, n) = d.nodes[n] /\ n \in Shown(d)
    BY <1>2 DEF StateOf, Shown
  <2>2. d.nodes[n] \in NodeState
    BY <1>2 DEF Session
  <2> QED BY <2>1, <2>2 DEF Good, Exact
<1> QED BY <1>1, <1>2

\* The reference time of a node is a whole second.
LEMMA ReferenceTime ==
  ASSUME NEW d \in Session, Good(d), NEW s \in NodeState, GoodState(s)
  PROVE  Reference(d.started, s) \in Time /\ Reference(d.started, s) % Second = 0
<1>1. d.started \in Time /\ d.started % Second = 0
  BY DEF Session, Good
<1>2. s.expandedAt \in Time \cup {None}
  BY DEF NodeState
<1>3. s.expandedAt # None => s.expandedAt % Second = 0
  BY DEF GoodState
<1> QED BY <1>1, <1>2, <1>3 DEF Reference

\* _next_plain_show_score gives a natural number, and when the show is recorded in
\* order, one more than the plain shows and the intervals up to its time.
LEMMA NextScoreExact ==
  ASSUME NEW d \in Session, Good(d), NEW s \in NodeState, GoodState(s),
         NEW t \in Time
  PROVE  /\ NextScore(d.started, s, t) \in Nat
         /\ s.score = Elapsed(d, s) /\ ~Misplaced(d, s, t)
              => NextScore(d.started, s, t)
                   = s.plain + 1 + Intervals(Reference(d.started, s), t)
<1> DEFINE ref == Reference(d.started, s)
           elapsed == Intervals(ref, t)
           before == Counted(d.started, s)
<1>1. ref \in Time
  BY ReferenceTime
<1>2. s.score \in Nat /\ s.plain \in Nat /\ s.scoredAt \in Time \cup {None}
  BY DEF NodeState
<1>3. elapsed \in Nat
  BY <1>1, IntervalsMonotone DEF Time
<1>4. before \in Nat
  <2>1. s.scoredAt # None => Intervals(ref, s.scoredAt) \in Nat
    BY <1>1, <1>2, IntervalsMonotone DEF Time
  <2> QED BY <2>1 DEF Counted
<1>5. ~Misplaced(d, s, t) => before <= elapsed
  <2>1. SUFFICES ASSUME ~Misplaced(d, s, t), s.scoredAt # None
                 PROVE  before <= elapsed
    BY <1>3 DEF Counted
  <2>2. s.scoredAt \in Time /\ Stored(t) \in Time /\ Stored(t) <= t
    BY <1>2, <2>1, StoredTime
  <2>3. s.scoredAt <= Stored(t)
    BY <2>1, <2>2 DEF Misplaced, Time
  <2>4. s.scoredAt <= t
    BY <2>2, <2>3 DEF Time
  <2> QED BY <1>1, <2>1, <2>2, <2>4, IntervalsMonotone DEF Counted
<1>6. NextScore(d.started, s, t)
        = s.score + 1 + (IF elapsed > before THEN elapsed - before ELSE 0)
  BY DEF NextScore
<1>7. s.score = Elapsed(d, s) => s.score = s.plain + before
  BY DEF Elapsed
<1> HIDE DEF ref, elapsed, before
<1>8. NextScore(d.started, s, t) \in Nat
  BY <1>2, <1>3, <1>4, <1>6
<1>9. s.score = Elapsed(d, s) /\ ~Misplaced(d, s, t)
        => NextScore(d.started, s, t) = s.plain + 1 + elapsed
  BY <1>2, <1>3, <1>4, <1>5, <1>6, <1>7
<1> QED BY <1>8, <1>9 DEF ref, elapsed

\* A shallow show leaves a good state, and an exact one if it is recorded in order.
LEMMA PlainShowSound ==
  ASSUME NEW d \in Session, Good(d), NEW s \in NodeState, GoodState(s),
         NEW t \in Time
  PROVE  LET new == PlainShow(d.started, s, t) IN
         /\ new \in NodeState /\ GoodState(new)
         /\ new.shows = s.shows + 1
         /\ s.score = Elapsed(d, s) /\ ~Misplaced(d, s, t) => new.score = Elapsed(d, new)
<1> DEFINE new == PlainShow(d.started, s, t)
           score == NextScore(d.started, s, t)
           ref == Reference(d.started, s)
<1>1. score \in Nat
  BY NextScoreExact
<1>2. Stored(t) \in Time
  BY StoredTime
<1>3. /\ new.shows = s.shows + 1 /\ new.plain = s.plain + 1
      /\ new.score = score /\ new.scoredAt = Stored(t) /\ new.expandedAt = s.expandedAt
      /\ new.state = IF Suspicious(score) THEN "suspicious" ELSE "shown"
      /\ new.status = IF Suspicious(score) THEN "suspicious" ELSE "normal"
  BY DEF PlainShow
<1>4. new \in NodeState
  <2>1. s.shows + 1 \in Nat /\ s.plain + 1 \in Nat /\ s.expandedAt \in Time \cup {None}
    BY DEF NodeState
  <2>2. new.state \in {"shown", "suspicious"} /\ new.status \in {"normal", "suspicious"}
    BY <1>3
  <2> QED BY <1>1, <1>2, <2>1, <2>2 DEF PlainShow, NodeState
<1>5. GoodState(new)
  BY <1>3 DEF GoodState, Suspicious
<1>6. ASSUME s.score = Elapsed(d, s), ~Misplaced(d, s, t)
      PROVE  new.score = Elapsed(d, new)
  <2>1. score = s.plain + 1 + Intervals(ref, t)
    BY <1>6, NextScoreExact
  <2>2. Intervals(ref, Stored(t)) = Intervals(ref, t)
    BY ReferenceTime, CutKeepsIntervals
  <2>3. Reference(d.started, new) = ref
    BY <1>3 DEF Reference
  <2>4. Stored(t) # None
    BY <1>2, SessionAssumption DEF Time
  <2>5. Counted(d.started, new) = Intervals(ref, Stored(t))
    BY <1>3, <2>3, <2>4 DEF Counted
  <2> QED BY <1>3, <2>1, <2>2, <2>5 DEF Elapsed
<1> QED BY <1>3, <1>4, <1>5, <1>6

\* An expansion leaves a good and exact state whatever came before.
LEMMA DeepShowSound ==
  ASSUME NEW d \in Session, NEW s \in NodeState, NEW t \in Time
  PROVE  LET new == DeepShow(s, t) IN
         /\ new \in NodeState /\ GoodState(new)
         /\ new.shows = s.shows + 1
         /\ new.score = Elapsed(d, new)
<1> DEFINE new == DeepShow(s, t)
<1>1. Stored(t) \in Time /\ Stored(t) % Second = 0
  BY StoredTime
<1>2. /\ new.shows = s.shows + 1 /\ new.plain = 0 /\ new.score = 0
      /\ new.scoredAt = Stored(t) /\ new.expandedAt = Stored(t)
      /\ new.state = "expanded" /\ new.status = "normal"
  BY DEF DeepShow
<1>3. new \in NodeState
  <2>1. s.shows + 1 \in Nat
    BY DEF NodeState
  <2> QED BY <1>1, <2>1 DEF DeepShow, NodeState
<1>4. GoodState(new)
  BY <1>1, <1>2, SessionAssumption DEF GoodState
<1>5. new.score = Elapsed(d, new)
  <2>1. Stored(t) # None
    BY <1>1, SessionAssumption DEF Time
  <2>2. Reference(d.started, new) = Stored(t)
    BY <1>2, <2>1 DEF Reference
  <2>3. Counted(d.started, new) = 0
    BY <1>1, <1>2, <2>1, <2>2 DEF Counted, Intervals, Time
  <2> QED BY <1>2, <2>3 DEF Elapsed
<1> QED BY <1>2, <1>3, <1>4, <1>5

\* record_show_event turns a good document into one, counts the show of its node and no
\* other, and keeps the document exact unless the show comes out of order.
LEMMA RecordedSound ==
  ASSUME NEW d \in Session, Good(d), NEW n \in Nodes, NEW deep \in BOOLEAN, NEW t \in Time
  PROVE  LET new == Recorded(d, n, deep, t) IN
         /\ new \in Session /\ Good(new)
         /\ Exact(d) /\ ~Misplaced(d, StateOf(d, n), t) => Exact(new)
         /\ \A x \in Nodes :
              StateOf(new, x).shows = StateOf(d, x).shows + (IF x = n THEN 1 ELSE 0)
<1> DEFINE new == Recorded(d, n, deep, t)
           s == StateOf(d, n)
           put == IF deep THEN DeepShow(s, t) ELSE PlainShow(d.started, s, t)
<1>1. /\ s \in NodeState /\ GoodState(s)
      /\ Exact(d) => s.score = Elapsed(d, s)
  BY StateOfGood
<1>2. /\ put \in NodeState /\ GoodState(put) /\ put.shows = s.shows + 1
      /\ Exact(d) /\ ~Misplaced(d, s, t) => put.score = Elapsed(d, put)
  BY <1>1, DeepShowSound, PlainShowSound
<1>3. put # None
  BY <1>2, DocumentAssumption
<1>4. /\ d.started \in Time /\ d.nodes \in [Nodes -> NodeState \cup {None}]
      /\ new.started = d.started
      /\ new.nodes = [d.nodes EXCEPT ![n] = put]
      /\ new \in [started : Time, nodes : [Nodes -> NodeState \cup {None}]]
  <2>1. new = [d EXCEPT !.nodes = [d.nodes EXCEPT ![n] = put]]
    BY DEF Recorded, Session
  <2> HIDE DEF put, new
  <2> QED BY <1>2, <2>1 DEF Session
<1> HIDE DEF put, new
<1>5. new \in Session
  BY <1>4 DEF Session
<1>6. \A x \in Nodes : new.nodes[x] = IF x = n THEN put ELSE d.nodes[x]
  BY <1>4
<1>7. Shown(new) = Shown(d) \cup {n}
  BY <1>3, <1>6 DEF Shown
<1>8. Good(new)
  BY <1>2, <1>4, <1>6, <1>7 DEF Good, Shown
<1>9. Exact(d) /\ ~Misplaced(d, s, t) => Exact(new)
  BY <1>2, <1>4, <1>6, <1>7 DEF Exact, Shown, Elapsed
<1>10. ASSUME NEW x \in Nodes
       PROVE  StateOf(new, x).shows = StateOf(d, x).shows + (IF x = n THEN 1 ELSE 0)
  <2>1. CASE x = n
    BY <1>2, <1>3, <1>6, <2>1 DEF StateOf
  <2>2. CASE x # n
    <3>1. StateOf(new, x) = StateOf(d, x)
      BY <1>6, <2>2 DEF StateOf
    <3>2. StateOf(d, x).shows \in Nat
      BY StateOfGood DEF NodeState
    <3> QED BY <2>2, <3>1, <3>2
  <2> QED BY <2>1, <2>2
<1> QED BY <1>5, <1>8, <1>9, <1>10 DEF new

\* A document that a show begins is sound and has no shows.
LEMMA BegunSound ==
  ASSUME NEW t \in Time
  PROVE  LET new == LoadOrCreate(None, t) IN
         /\ new \in Session /\ Good(new) /\ Exact(new)
         /\ \A n \in Nodes : StateOf(new, n).shows = 0
<1> DEFINE new == LoadOrCreate(None, t)
<1>1. Stored(t) \in Time /\ Stored(t) % Second = 0
  BY StoredTime
<1>2. new = [started |-> Stored(t), nodes |-> [n \in Nodes |-> None]]
  BY DEF LoadOrCreate
<1>3. new \in Session
  BY <1>1, <1>2 DEF Session
<1>4. Shown(new) = {}
  BY <1>2 DEF Shown
<1>5. ASSUME NEW n \in Nodes PROVE StateOf(new, n).shows = 0
  <2>1. new.nodes[n] = None
    BY <1>2
  <2> QED BY <2>1 DEF StateOf, Unseen
<1> QED BY <1>1, <1>2, <1>3, <1>4, <1>5 DEF Good, Exact

-----------------------------------------------------------------------------
(* The inductive invariant.                                                 *)

\* Every document, read or about to be written, is sound.
DocumentsSound ==
  /\ IsDocument => Sound(file, disorder)
  /\ \A p \in Procs : Writes(p) => Sound(proc[p].doc, disorder)

\* As long as no two shows clashed, one at most is between its read and the end of
\* its write; what is on record, and what was lost with a writer, is all that was
\* made, and the document about to be written has the show of its process as well.
Serial ==
  /\ \A p, q \in Procs : Writes(p) /\ Writes(q) => p = q
  /\ \A p \in Procs : proc[p].at = "fill" => file = None
  /\ file = Torn => crashes > 0
  /\ file # Torn /\ (\A p \in Procs : proc[p].at # "fill") =>
       \A n \in Nodes : OnRecord(n) + lost[n] = made[n]
  /\ \A p \in Procs : Writes(p) =>
       \A n \in Nodes : StateOf(proc[p].doc, n).shows + lost[n]
                            = made[n] + (IF n = proc[p].node THEN 1 ELSE 0)

IInv == SessionTypeOK /\ DocumentsSound /\ (~clash => Serial)

\* What a process carries, by where it is.
LEMMA Carried ==
  ASSUME NEW r \in Progress
  PROVE  /\ r.at \in {"idle", "timed", "loaded", "fill", "orphan"}
         /\ r.at = "timed" => r.node \in Nodes /\ r.deep \in BOOLEAN /\ r.moment \in Time
         /\ r.at \in {"loaded", "fill", "orphan"} => r.node \in Nodes /\ r.doc \in Session
         /\ r.at = "idle" => r = Idle
         /\ r.at = "loaded" => [r EXCEPT !.at = "fill"]
                                  = [at |-> "fill", node |-> r.node, doc |-> r.doc]
         /\ r.at = "fill" => [r EXCEPT !.at = "orphan"]
                                  = [at |-> "orphan", node |-> r.node, doc |-> r.doc]
  BY DEF Progress, Idle

\* A process that was not writing and does not come to hold a document has no part
\* in what is on record.
LEMMA AsideKeepsSerial ==
  ASSUME Serial, NEW p \in Procs, proc[p].at # "fill",
         \A q \in Procs : q # p => proc'[q] = proc[q],
         proc'[p].at \notin {"loaded", "fill"},
         UNCHANGED <<file, made, lost>>,
         crashes \in Nat, crashes' \in Nat, crashes <= crashes'
  PROVE  Serial'
<1>1. \A q \in Procs : Writes(q)' => q # p /\ Writes(q) /\ proc'[q] = proc[q]
  BY DEF Writes
<1>2. (\A q \in Procs : proc'[q].at # "fill") => \A q \in Procs : proc[q].at # "fill"
  OBVIOUS
<1>3. /\ \A q, r \in Procs : Writes(q)' /\ Writes(r)' => q = r
      /\ \A q \in Procs : proc'[q].at = "fill" => file' = None
  BY <1>1 DEF Serial, Writes
<1>4. file' = Torn => crashes' > 0
  BY DEF Serial
<1>5. file' # Torn /\ (\A q \in Procs : proc'[q].at # "fill") =>
        \A n \in Nodes : OnRecord(n)' + lost'[n] = made'[n]
  BY <1>2 DEF Serial, OnRecord
<1>6. \A q \in Procs : Writes(q)' =>
        \A n \in Nodes : StateOf(proc'[q].doc, n).shows + lost'[n]
                             = made'[n] + (IF n = proc'[q].node THEN 1 ELSE 0)
  BY <1>1 DEF Serial
<1> QED BY <1>3, <1>4, <1>5, <1>6 DEF Serial

\* Nothing is there at first.
LEMMA InitIInv == Init => IInv
<1>1. SUFFICES ASSUME Init PROVE IInv
  OBVIOUS
<1>2. SessionTypeOK
  <2>1. Idle \in Progress
    BY DEF Idle, Progress
  <2>2. proc \in [Procs -> Progress]
    BY <1>1, <2>1 DEF Init
  <2>3. 0 \in Time /\ 0 \in 0 .. MaxShows /\ 0 \in 0 .. MaxCrashes
    BY SessionAssumption DEF Time
  <2> QED BY <1>1, <2>2, <2>3 DEF Init, SessionTypeOK
<1>3. DocumentsSound /\ Serial
  BY <1>1, SessionAssumption DEF Init, DocumentsSound, Serial, OnRecord, IsDocument, Writes, Idle
<1> QED BY <1>2, <1>3 DEF IInv

\* The clock is in no document.
LEMMA TickKeeps == IInv /\ Tick => IInv'
<1>1. SUFFICES ASSUME IInv, Tick PROVE IInv'
  OBVIOUS
<1>2. now' \in Time
  <2>1. now \in Nat /\ MaxTime \in Nat
    BY <1>1, SessionAssumption DEF IInv, SessionTypeOK, Time
  <2> QED BY <1>1, <2>1 DEF Tick, Time
<1>3. UNCHANGED <<file, proc, shows, crashes, made, lost, clash, disorder>>
  BY <1>1 DEF Tick, history
<1>4. SessionTypeOK'
  BY <1>1, <1>2, <1>3 DEF IInv, SessionTypeOK
<1>5. DocumentsSound' /\ (~clash => Serial)'
  BY <1>1, <1>3 DEF IInv, DocumentsSound, Serial, OnRecord, IsDocument, Writes
<1> QED BY <1>4, <1>5 DEF IInv

\* A show that begins has no document yet.
LEMMA StartKeeps ==
  ASSUME IInv, NEW p \in Procs, NEW n \in Nodes, NEW deep \in BOOLEAN, Start(p, n, deep)
  PROVE  IInv'
<1> DEFINE r == [at |-> "timed", node |-> n, deep |-> deep, moment |-> now]
<1>1. /\ ~Busy(p) /\ shows < MaxShows /\ shows' = shows + 1
      /\ proc' = [proc EXCEPT ![p] = r]
      /\ UNCHANGED <<file, now, crashes, made, lost, clash, disorder>>
  BY DEF Start, Goes, history
<1>2. proc \in [Procs -> Progress] /\ now \in Time
  BY DEF IInv, SessionTypeOK
<1>3. r \in Progress /\ r.at = "timed"
  BY <1>2 DEF Progress
<1>4. \A q \in Procs : proc'[q] = IF q = p THEN r ELSE proc[q]
  BY <1>1, <1>2
<1> HIDE DEF r
<1>5. SessionTypeOK'
  <2>1. shows \in 0 .. MaxShows /\ MaxShows \in Nat
    BY SessionAssumption DEF IInv, SessionTypeOK
  <2>2. shows' \in 0 .. MaxShows
    BY <1>1, <2>1
  <2>3. proc' \in [Procs -> Progress]
    BY <1>1, <1>2, <1>3
  <2> QED BY <1>1, <2>2, <2>3 DEF IInv, SessionTypeOK
<1>6. DocumentsSound'
  BY <1>1, <1>3, <1>4 DEF IInv, DocumentsSound, IsDocument, Writes
<1>7. ASSUME ~clash' PROVE Serial'
  <2>1. Serial
    BY <1>1, <1>7 DEF IInv
  <2>2. crashes \in Nat
    BY DEF IInv, SessionTypeOK
  <2> QED BY <1>1, <1>3, <1>4, <2>1, <2>2, AsideKeepsSerial DEF Busy
<1> QED BY <1>5, <1>6, <1>7 DEF IInv

\* A show reads the document there is, or ends at one that does not parse; what it will
\* write is sound and has its own show on top.
LEMMA LoadKeeps ==
  ASSUME IInv, NEW p \in Procs, Load(p)
  PROVE  IInv'
<1>1. /\ proc[p].at = "timed"
      /\ UNCHANGED <<file, now, shows, crashes, made, lost>>
      /\ proc \in [Procs -> Progress] /\ file \in Session \cup {None, Torn}
      /\ disorder \in BOOLEAN /\ clash \in BOOLEAN
  BY DEF Load, IInv, SessionTypeOK
<1>2. proc[p] \in Progress /\ proc[p].node \in Nodes /\ proc[p].deep \in BOOLEAN
      /\ proc[p].moment \in Time
  BY <1>1, Carried
<1>3. PICK f \in Seen :
        \/ f = Torn /\ Goes(p, Idle) /\ UNCHANGED <<clash, disorder>>
        \/ /\ f # Torn
           /\ LET r == proc[p]
                  d == LoadOrCreate(f, r.moment)
              IN /\ Goes(p, [at |-> "loaded", node |-> r.node,
                             doc |-> Recorded(d, r.node, r.deep, r.moment)])
                 /\ disorder' = (disorder \/ Misplaced(d, StateOf(d, r.node), r.moment))
                 /\ clash' = (clash \/ \E q \in Procs : Writes(q))
  BY DEF Load
<1>4. CASE f = Torn /\ Goes(p, Idle) /\ UNCHANGED <<clash, disorder>>
  <2>1. Idle \in Progress /\ Idle.at = "idle"
    BY DEF Idle, Progress
  <2>2. \A q \in Procs : proc'[q] = IF q = p THEN Idle ELSE proc[q]
    BY <1>1, <1>4 DEF Goes
  <2>3. SessionTypeOK'
    BY <1>1, <1>4, <2>1 DEF Goes, IInv, SessionTypeOK
  <2>4. DocumentsSound'
    BY <1>1, <1>4, <2>1, <2>2 DEF IInv, DocumentsSound, IsDocument, Writes
  <2>5. ASSUME ~clash' PROVE Serial'
    <3>1. Serial /\ crashes \in Nat
      BY <1>4, <2>5 DEF IInv, SessionTypeOK
    <3> QED BY <1>1, <2>1, <2>2, <3>1, AsideKeepsSerial
  <2> QED BY <2>3, <2>4, <2>5 DEF IInv
<1>5. CASE f # Torn
  <2> DEFINE t == proc[p].moment
             n == proc[p].node
             d == LoadOrCreate(f, t)
             new == Recorded(d, n, proc[p].deep, t)
             r == [at |-> "loaded", node |-> n, doc |-> new]
  <2>1. /\ proc' = [proc EXCEPT ![p] = r]
        /\ disorder' = (disorder \/ Misplaced(d, StateOf(d, n), t))
        /\ clash' = (clash \/ \E q \in Procs : Writes(q))
    BY <1>3, <1>5 DEF Goes
  <2>2. f = file
    BY <1>5 DEF Seen
  <2>3. /\ d \in Session /\ Sound(d, disorder)
        /\ file = None => \A x \in Nodes : StateOf(d, x).shows = 0
        /\ file # None => IsDocument /\ d = file
        /\ file # Torn
    <3>1. CASE file = None
      BY <1>2, <1>5, <2>2, <3>1, BegunSound DEF Sound
    <3>2. CASE file # None
      <4>1. IsDocument /\ d = file
        BY <1>5, <2>2, <3>2 DEF IsDocument, LoadOrCreate
      <4>2. Sound(file, disorder) /\ file \in Session
        BY <1>1, <4>1 DEF IInv, DocumentsSound, IsDocument
      <4> QED BY <1>5, <2>2, <3>2, <4>1, <4>2
    <3> QED BY <3>1, <3>2
  <2> HIDE DEF d
  <2>11. \A x \in Nodes : StateOf(d, x).shows = OnRecord(x) /\ OnRecord(x) \in Nat
    <3>1. \A x \in Nodes : StateOf(d, x).shows \in Nat
      BY <2>3, StateOfGood DEF Sound, NodeState
    <3> QED BY <2>3, <3>1 DEF OnRecord
  <2>4. /\ new \in Session /\ Good(new)
        /\ Exact(d) /\ ~Misplaced(d, StateOf(d, n), t) => Exact(new)
        /\ \A x \in Nodes :
             StateOf(new, x).shows = StateOf(d, x).shows + (IF x = n THEN 1 ELSE 0)
    BY <1>2, <2>3, RecordedSound DEF Sound
  <2>5. Sound(new, disorder')
    BY <2>1, <2>3, <2>4 DEF Sound
  <2> HIDE DEF new
  <2>6. r \in Progress /\ r.at = "loaded" /\ r.doc = new /\ r.node = n
    BY <1>2, <2>4 DEF Progress
  <2> HIDE DEF r
  <2>7. \A q \in Procs : proc'[q] = IF q = p THEN r ELSE proc[q]
    BY <1>1, <2>1
  <2>8. SessionTypeOK'
    <3>1. disorder' \in BOOLEAN /\ clash' \in BOOLEAN
      BY <2>1, <1>1 DEF Misplaced
    <3>2. proc' \in [Procs -> Progress]
      BY <1>1, <2>1, <2>6
    <3> QED BY <1>1, <3>1, <3>2 DEF IInv, SessionTypeOK
  <2>9. DocumentsSound'
    <3>1. \A x : Sound(x, disorder) => Sound(x, disorder')
      BY <2>1 DEF Sound
    <3> QED BY <1>1, <2>5, <2>6, <2>7, <3>1 DEF IInv, DocumentsSound, IsDocument, Writes
  <2>10. ASSUME ~clash' PROVE Serial'
    <3>1. Serial /\ \A q \in Procs : ~Writes(q)
      BY <2>1, <2>10 DEF IInv
    <3>2. \A q \in Procs : proc[q].at # "fill" /\ (Writes(q)' => q = p)
      BY <2>6, <2>7, <3>1 DEF Writes
    <3>3. made \in [Nodes -> Nat] /\ lost \in [Nodes -> Nat]
      BY DEF IInv, SessionTypeOK
    <3>4. \A x \in Nodes : OnRecord(x) + lost[x] = made[x]
      BY <2>3, <3>1, <3>2 DEF Serial
    <3>5. \A x \in Nodes : StateOf(new, x).shows + lost[x]
                               = made[x] + (IF x = n THEN 1 ELSE 0)
      <4> TAKE x \in Nodes
      <4>1. /\ StateOf(new, x).shows = OnRecord(x) + (IF x = n THEN 1 ELSE 0)
            /\ OnRecord(x) \in Nat /\ lost[x] \in Nat /\ made[x] \in Nat
        BY <2>4, <2>11, <3>3
      <4> QED BY <3>4, <4>1
    <3>6. file' # Torn /\ \A x \in Nodes : OnRecord(x)' + lost'[x] = made'[x]
      BY <1>1, <2>3, <3>4 DEF OnRecord
    <3>7. \A q \in Procs : proc'[q].at # "fill"
      BY <2>6, <2>7, <3>2
    <3> QED BY <1>1, <2>6, <2>7, <3>2, <3>5, <3>6, <3>7 DEF Serial, Writes
  <2> QED BY <2>8, <2>9, <2>10 DEF IInv
<1> QED BY <1>3, <1>4, <1>5

\* Cutting the file leaves the document with the process alone.
LEMMA CutKeeps ==
  ASSUME IInv, NEW p \in Procs, Cut(p)
  PROVE  IInv'
<1> DEFINE r == [proc[p] EXCEPT !.at = "fill"]
<1>1. /\ proc[p].at = "loaded" /\ file' = None
      /\ proc' = [proc EXCEPT ![p] = r]
      /\ UNCHANGED <<now, shows, crashes, made, lost, clash, disorder>>
      /\ proc \in [Procs -> Progress]
  BY DEF Cut, Goes, history, IInv, SessionTypeOK
<1>2. /\ r = [at |-> "fill", node |-> proc[p].node, doc |-> proc[p].doc]
      /\ proc[p].node \in Nodes /\ proc[p].doc \in Session
  BY <1>1, Carried
<1> HIDE DEF r
<1>3. r \in Progress /\ r.at = "fill" /\ r.doc = proc[p].doc /\ r.node = proc[p].node
  BY <1>2 DEF Progress
<1>4. \A q \in Procs : proc'[q] = IF q = p THEN r ELSE proc[q]
  BY <1>1
<1>5. SessionTypeOK'
  BY <1>1, <1>3 DEF IInv, SessionTypeOK
<1>6. DocumentsSound'
  BY <1>1, <1>3, <1>4 DEF IInv, DocumentsSound, IsDocument, Writes
<1>7. ASSUME ~clash' PROVE Serial'
  <2>1. Serial
    BY <1>1, <1>7 DEF IInv
  <2>2. \A q \in Procs : Writes(q)' => q = p
    BY <1>1, <1>4, <2>1 DEF Serial, Writes
  <2>3. Writes(p) /\ file' # Torn /\ proc'[p].at = "fill"
    BY <1>1, <1>3, <1>4, SessionAssumption DEF Writes
  <2> QED BY <1>1, <1>3, <1>4, <2>1, <2>2, <2>3 DEF Serial
<1> QED BY <1>5, <1>6, <1>7 DEF IInv

\* Filling the file puts the document of the process on disk, and its show is made.
LEMMA FillKeeps ==
  ASSUME IInv, NEW p \in Procs, Fill(p)
  PROVE  IInv'
<1> DEFINE n == proc[p].node
           d == proc[p].doc
<1>1. /\ proc[p].at = "fill"
      /\ file' \in {d} \cup (IF file = None THEN {} ELSE {Torn})
      /\ proc' = [proc EXCEPT ![p] = Idle]
      /\ made' = [made EXCEPT ![n] = @ + 1]
      /\ UNCHANGED <<now, shows, crashes, lost, clash, disorder>>
      /\ proc \in [Procs -> Progress] /\ made \in [Nodes -> Nat]
  BY DEF Fill, Goes, IInv, SessionTypeOK
<1>2. n \in Nodes /\ d \in Session /\ d # None /\ d # Torn
  BY <1>1, Carried, DocumentAssumption
<1>3. Sound(d, disorder)
  BY <1>1 DEF IInv, DocumentsSound, Writes
<1>4. \A q \in Procs : proc'[q] = IF q = p THEN Idle ELSE proc[q]
  BY <1>1
<1>5. \A x \in Nodes : made'[x] = made[x] + (IF x = n THEN 1 ELSE 0)
  BY <1>1, <1>2
<1>6. Idle \in Progress /\ Idle.at = "idle"
  BY DEF Idle, Progress
<1>7. SessionTypeOK'
  BY <1>1, <1>2, <1>6 DEF IInv, SessionTypeOK
<1>8. DocumentsSound'
  BY <1>1, <1>3, <1>4, <1>6 DEF IInv, DocumentsSound, IsDocument, Writes
<1>9. ASSUME ~clash' PROVE Serial'
  <2>1. Serial /\ Writes(p)
    BY <1>1, <1>9 DEF IInv, Writes
  <2>2. \A q \in Procs : ~Writes(q)' /\ proc'[q].at # "fill"
    BY <1>4, <1>6, <2>1 DEF Serial, Writes
  <2>3. file' = d
    BY <1>1, <2>1 DEF Serial
  <2>4. \A x \in Nodes : StateOf(d, x).shows + lost[x] = made'[x]
    BY <1>5, <2>1 DEF Serial
  <2>5. \A x \in Nodes : OnRecord(x)' + lost'[x] = made'[x]
    BY <1>1, <1>2, <2>3, <2>4 DEF OnRecord
  <2> QED BY <1>2, <2>2, <2>3, <2>5 DEF Serial
<1> QED BY <1>7, <1>8, <1>9 DEF IInv

\* A process that ends before it has cut the file, or whose file was deleted, leaves
\* every document as it is.
LEMMA EndKeeps ==
  ASSUME IInv, NEW p \in Procs, Goes(p, Idle), proc[p].at # "fill",
         UNCHANGED <<file, now, shows, made, lost, clash, disorder>>,
         crashes' \in 0 .. MaxCrashes, crashes <= crashes'
  PROVE  IInv'
<1>1. proc \in [Procs -> Progress] /\ proc' = [proc EXCEPT ![p] = Idle]
  BY DEF Goes, IInv, SessionTypeOK
<1>2. \A q \in Procs : proc'[q] = IF q = p THEN Idle ELSE proc[q]
  BY <1>1
<1>3. Idle \in Progress /\ Idle.at = "idle"
  BY DEF Idle, Progress
<1>4. SessionTypeOK'
  BY <1>1, <1>3 DEF IInv, SessionTypeOK
<1>5. DocumentsSound'
  BY <1>2, <1>3 DEF IInv, DocumentsSound, IsDocument, Writes
<1>6. ASSUME ~clash' PROVE Serial'
  <2>1. Serial /\ crashes \in Nat /\ crashes' \in Nat
    BY <1>6 DEF IInv, SessionTypeOK
  <2> QED BY <1>2, <1>3, <2>1, AsideKeepsSerial
<1> QED BY <1>4, <1>5, <1>6 DEF IInv

\* A show whose file was deleted under it.
LEMMA FillDeletedKeeps ==
  ASSUME IInv, NEW p \in Procs, FillDeleted(p)
  PROVE  IInv'
<1>1. Goes(p, Idle) /\ proc[p].at # "fill" /\ crashes' \in 0 .. MaxCrashes
      /\ crashes <= crashes'
      /\ UNCHANGED <<file, now, shows, made, lost, clash, disorder>>
  BY DEF FillDeleted, history, IInv, SessionTypeOK
<1> QED BY <1>1, EndKeeps

\* A show killed while it filled the file: what was on record is lost, all of it.
LEMMA CrashAtFillKeeps ==
  ASSUME IInv, NEW p \in Procs, proc[p].at = "fill", Goes(p, Idle),
         file' \in {file, Torn}, lost' = made,
         UNCHANGED <<now, shows, made, clash, disorder>>,
         crashes' = crashes + 1, crashes' \in 0 .. MaxCrashes
  PROVE  IInv'
<1>1. /\ proc \in [Procs -> Progress] /\ proc' = [proc EXCEPT ![p] = Idle]
      /\ made \in [Nodes -> Nat] /\ file \in Session \cup {None, Torn}
      /\ crashes \in Nat
  BY DEF Goes, IInv, SessionTypeOK
<1>2. \A q \in Procs : proc'[q] = IF q = p THEN Idle ELSE proc[q]
  BY <1>1
<1>3. Idle \in Progress /\ Idle.at = "idle"
  BY DEF Idle, Progress
<1>4. SessionTypeOK'
  BY <1>1, <1>3 DEF IInv, SessionTypeOK
<1>5. DocumentsSound'
  BY <1>2, <1>3 DEF IInv, DocumentsSound, IsDocument, Writes
<1>6. ASSUME ~clash' PROVE Serial'
  <2>1. Serial /\ Writes(p)
    BY <1>6 DEF IInv, Writes
  <2>2. \A q \in Procs : ~Writes(q)' /\ proc'[q].at # "fill"
    BY <1>2, <1>3, <2>1 DEF Serial, Writes
  <2>3. file' \in {None, Torn}
    BY <2>1 DEF Serial
  <2>4. crashes' > 0
    BY <1>1
  <2>5. file' # Torn => \A n \in Nodes : OnRecord(n)' + lost'[n] = made'[n]
    BY <1>1, <2>3 DEF OnRecord
  <2> QED BY <2>2, <2>3, <2>4, <2>5, SessionAssumption DEF Serial
<1> QED BY <1>4, <1>5, <1>6 DEF IInv

\* A killed show.
LEMMA CrashKeeps ==
  ASSUME IInv, NEW p \in Procs, Crash(p)
  PROVE  IInv'
<1>1. /\ Goes(p, Idle) /\ UNCHANGED <<now, shows, made, clash, disorder>>
      /\ crashes' = crashes + 1 /\ crashes < MaxCrashes
      /\ \/ proc[p].at # "fill" /\ UNCHANGED <<file, lost>>
         \/ proc[p].at = "fill" /\ file' \in {file, Torn} /\ lost' = made
  BY DEF Crash
<1>2. crashes' \in 0 .. MaxCrashes /\ crashes <= crashes'
  BY <1>1, SessionAssumption DEF IInv, SessionTypeOK
<1> QED BY <1>1, <1>2, EndKeeps, CrashAtFillKeeps

\* Clearing ends the document, and takes the file from the process that fills it.
LEMMA ClearKeeps == IInv /\ Clear => IInv'
<1>1. SUFFICES ASSUME IInv, Clear PROVE IInv'
  OBVIOUS
<1>2. /\ file' = None
      /\ proc' = [p \in Procs |-> IF proc[p].at = "fill" THEN [proc[p] EXCEPT !.at = "orphan"]
                                  ELSE proc[p]]
      /\ made' = [n \in Nodes |-> 0]
      /\ lost' = [n \in Nodes |-> 0]
      /\ clash' = \E p \in Procs : proc[p].at = "loaded"
      /\ UNCHANGED <<now, shows, crashes, disorder>>
      /\ proc \in [Procs -> Progress]
  BY <1>1 DEF Clear, IInv, SessionTypeOK
<1>3. ASSUME NEW p \in Procs
      PROVE  /\ proc'[p] \in Progress
             /\ proc[p].at # "fill" => proc'[p] = proc[p]
             /\ proc[p].at = "fill" => proc'[p].at = "orphan"
  <2>1. CASE proc[p].at = "fill"
    <3>1. /\ proc'[p] = [at |-> "orphan", node |-> proc[p].node, doc |-> proc[p].doc]
          /\ proc[p].node \in Nodes /\ proc[p].doc \in Session
      BY <1>2, <2>1, Carried
    <3> QED BY <2>1, <3>1 DEF Progress
  <2>2. CASE proc[p].at # "fill"
    BY <1>2, <2>2
  <2> QED BY <2>1, <2>2
<1>4. SessionTypeOK'
  <2>1. proc' \in [Procs -> Progress]
    BY <1>2, <1>3
  <2>2. made' \in [Nodes -> Nat] /\ lost' \in [Nodes -> Nat] /\ clash' \in BOOLEAN
    BY <1>2
  <2> QED BY <1>1, <1>2, <2>1, <2>2 DEF IInv, SessionTypeOK
<1>5. DocumentsSound'
  BY <1>1, <1>2, <1>3 DEF IInv, DocumentsSound, IsDocument, Writes
<1>6. ASSUME ~clash' PROVE Serial'
  <2>1. \A p \in Procs : ~Writes(p)' /\ proc'[p].at # "fill"
    BY <1>2, <1>3, <1>6 DEF Writes
  <2>2. file' # Torn /\ \A n \in Nodes : OnRecord(n)' + lost'[n] = made'[n]
    BY <1>2, SessionAssumption DEF OnRecord
  <2> QED BY <2>1, <2>2 DEF Serial
<1> QED BY <1>4, <1>5, <1>6 DEF IInv

\* Every step keeps the invariant.
LEMMA NextIInv == IInv /\ [Next]_vars => IInv'
<1>1. SUFFICES ASSUME IInv, [Next]_vars PROVE IInv'
  OBVIOUS
<1>2. CASE UNCHANGED vars
  BY <1>1, <1>2 DEF vars, history, IInv, SessionTypeOK, DocumentsSound, Serial, OnRecord,
                    IsDocument, Writes
<1>3. CASE Tick \/ Clear
  BY <1>1, <1>3, TickKeeps, ClearKeeps
<1>4. ASSUME NEW p \in Procs, NEW n \in Nodes, NEW deep \in BOOLEAN, Start(p, n, deep)
      PROVE  IInv'
  BY <1>1, <1>4, StartKeeps
<1>5. ASSUME NEW p \in Procs, Load(p) \/ Cut(p) \/ Fill(p) \/ FillDeleted(p) \/ Crash(p)
      PROVE  IInv'
  BY <1>1, <1>5, LoadKeeps, CutKeeps, FillKeeps, FillDeletedKeeps, CrashKeeps
<1> QED BY <1>1, <1>2, <1>3, <1>4, <1>5 DEF Next

\* In every state that shows, clears, clock changes and crashes lead to, the inductive
\* invariant holds.
THEOREM SessionInvariant == Spec => []IInv
<1> QED BY InitIInv, NextIInv, PTL DEF Spec

\* The variables have their types.
THEOREM SessionTypeCorrect == Spec => []SessionTypeOK
<1>1. IInv => SessionTypeOK
  BY DEF IInv
<1> QED BY <1>1, SessionInvariant, PTL

\* A node is suspicious exactly while its score is above the threshold, for every number
\* of processes that share the session and whatever clock (runtime.py, record_show_event).
THEOREM SuspicionCorrect == Spec => []SuspicionFollowsScore
<1>1. IInv => SuspicionFollowsScore
  BY DEF IInv, DocumentsSound, SuspicionFollowsScore, Sound, Good, GoodState
<1> QED BY <1>1, SessionInvariant, PTL

\* The score that record_show_event sums up show by show, from times cut to seconds, is
\* what the plain shows and the whole intervals come to, for every interval of whole
\* seconds, as long as the shows are recorded in the order of their times.
THEOREM ScoreCorrect == Spec => []ScoreExact
<1>1. IInv => ScoreExact
  BY DEF IInv, DocumentsSound, ScoreExact, Sound, Exact, Elapsed
<1> QED BY <1>1, SessionInvariant, PTL

\* Every show since the clear is on record once, or was lost to a show killed in the
\* middle of its own write, as long as no two shows or a clear clash (save_session);
\* and no file fails to parse unless a show was killed.
THEOREM ShowsCorrect == Spec => []EveryShowCounts
<1>1. IInv => EveryShowCounts
  BY DEF IInv, Serial, EveryShowCounts
<1> QED BY <1>1, SessionInvariant, PTL
=============================================================================
