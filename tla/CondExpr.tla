------------------------------ MODULE CondExpr ------------------------------
(***************************************************************************)
(* Conditions of templates (parser/cond.py): eval_expr of one expression and  *)
(* eval_condition_groups of the groups that FACT lines build.  An expression  *)
(* is the sequence of its words, each a comparison or one of "not", "and",    *)
(* "or".  The outcome is "yes", "no" or the name of an exception.             *)
(***************************************************************************)
EXTENDS Naturals, Sequences, SequencesExt

CONSTANTS
  Keys, Values,
  Order,      \* Values -> Nat: their order as strings
  Version,    \* Values -> Nat: their order as versions, BadVersion where there is none
  BadVersion,
  Parts,      \* Values -> SUBSET Values: the values that are substrings of a value
  Unset       \* the value of a key that has none

ASSUME CondAssumption ==
  /\ Order \in [Values -> Nat] /\ Version \in [Values -> Nat]
  /\ \A u, v \in Values : Order[u] = Order[v] => u = v
  /\ Parts \in [Values -> SUBSET Values]
  /\ BadVersion \in Nat /\ Unset \notin Values

\* `key op val`; ver: the key was written with the suffix _ver.  "in" is the test
\* for a part of val, "among" is `in [..]` with the items of the list.
Comparison ==
  [kind : {"cmp"}, key : Keys, ver : BOOLEAN, op : {"==", "<", "in", "among"},
   val : Values, items : SUBSET Values]

Connectors == {"not", "and", "or"}
Word == Comparison \cup [kind : Connectors]
Outcomes == {"yes", "no", "CondError", "IndexError"}
Facts == [Keys -> Values \cup {Unset}]

Answer(b) == IF b THEN "yes" ELSE "no"

\* _eval_single; != > <= >= are decided as == and < are.
EvalSingle(c, facts) ==
  LET have == facts[c.key]
      Below(rank) == IF c.op = "<" THEN rank[have] < rank[c.val] ELSE rank[have] = rank[c.val]
  IN IF have = Unset THEN "no"
     ELSE IF c.op = "among" THEN Answer(have \in c.items)
     ELSE IF c.op = "in" THEN Answer(have \in Parts[c.val])
     ELSE IF ~c.ver THEN Answer(Below(Order))
     ELSE IF BadVersion \in {Version[have], Version[c.val]} THEN "CondError"
     ELSE Answer(Below(Version))

IsComparison(word) == word.kind = "cmp"
Negated(answer) == IF answer = "yes" THEN "no" ELSE "yes"

\* What the words come to by themselves: comparisons to answers, connectors to what
\* they are.
Atoms(words, facts) ==
  [n \in DOMAIN words |-> IF IsComparison(words[n]) THEN EvalSingle(words[n], facts)
                          ELSE words[n].kind]

\* The value stream: a `not` is applied to the answer it precedes, and must precede one.
Resolve(acc, atom) ==
  IF acc.fault \/ atom = "CondError" \/ (acc.negate /\ atom \notin {"yes", "no"})
  THEN [acc EXCEPT !.fault = TRUE]
  ELSE IF atom = "not" THEN [acc EXCEPT !.negate = TRUE]
  ELSE [values |-> Append(acc.values, IF acc.negate THEN Negated(atom) ELSE atom),
        negate |-> FALSE, fault |-> FALSE]

Streamed(atoms) ==
  LET after[n \in 0 .. Len(atoms)] ==
        IF n = 0 THEN [values |-> <<>>, negate |-> FALSE, fault |-> FALSE]
        ELSE Resolve(after[n - 1], atoms[n])
  IN after

ValueStream(atoms) ==
  LET all == Streamed(atoms)[Len(atoms)]
  IN [values |-> all.values, fault |-> all.fault \/ all.negate]

\* bool() of a member of the stream: a connector is a string that is not empty.
Truthy(v) == v # "no"

\* The fold of `and`: it takes what is before it off the list, and what is after it.
Join(acc, v) ==
  IF acc.fault THEN acc
  ELSE IF acc.join
  THEN [acc EXCEPT !.join = FALSE,
                   !.list = Append(Front(@), Answer(Truthy(Last(@)) /\ Truthy(v)))]
  ELSE IF v = "and" THEN [acc EXCEPT !.join = TRUE, !.fault = acc.list = <<>>]
  ELSE [acc EXCEPT !.list = Append(@, v)]

Joined(values) ==
  LET after[n \in 0 .. Len(values)] ==
        IF n = 0 THEN [list |-> <<>>, join |-> FALSE, fault |-> FALSE]
        ELSE Join(after[n - 1], values[n])
  IN after

FoldAnd(values) ==
  LET all == Joined(values)[Len(values)]
  IN [list |-> all.list, fault |-> all.fault \/ all.join]

\* The fold of `or`: pairs of a connector and a value after the first value.
FoldOr(list) ==
  LET connectors == {k \in DOMAIN list : k % 2 = 0}
  IN IF \E k \in connectors : k < Len(list) /\ list[k] # "or" THEN "CondError"
     ELSE IF Len(list) \in connectors THEN "IndexError"
     ELSE Answer(\E k \in DOMAIN list \ connectors : Truthy(list[k]))

\* eval_expr.
EvalExpr(words, facts) ==
  LET stream == ValueStream(Atoms(words, facts))
      folded == FoldAnd(stream.values)
  IN IF words = <<>> THEN "no"
     ELSE IF stream.fault THEN "CondError"
     ELSE IF folded.fault THEN "IndexError"
     ELSE FoldOr(folded.list)

\* The first of a sequence of answers that is not `neutral`, which ends the loop.
FirstOther(answers, neutral) ==
  IF \A k \in DOMAIN answers : answers[k] = neutral THEN neutral
  ELSE answers[CHOOSE k \in DOMAIN answers :
                 answers[k] # neutral /\ \A j \in 1 .. k - 1 : answers[j] = neutral]

EvalGroup_AnyOf(group, facts) ==
  FirstOther([k \in DOMAIN group |-> EvalExpr(group[k], facts)], "no")

\* One group: all of its expressions, up to the first that is not true.
EvalGroup(group, facts) ==
  FirstOther([k \in DOMAIN group |-> EvalExpr(group[k], facts)], "yes")

\* eval_condition_groups: any of the groups, up to the first that is not false.
EvalConditionGroups(groups, facts) ==
  FirstOther([k \in DOMAIN groups |-> EvalGroup(groups[k], facts)], "no")
=============================================================================
