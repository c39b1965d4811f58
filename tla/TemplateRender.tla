--------------------------- MODULE TemplateRender ---------------------------
(***************************************************************************)
(* render of parser/render.py: one pass over the lines of a template, with a  *)
(* stack of open IF blocks, the conditions that FACT, ORFACT and MEMCOND lines *)
(* have collected, and the RTEXT block that is open.                           *)
(***************************************************************************)
EXTENDS CondExpr

CONSTANTS
  Templates,  \* the templates that may be rendered
  Contexts,   \* and the contexts: ParseContext
  Sentinels   \* the keys __memcond_<lineno>__, by line

Tags ==
  {"text", "comment", "FACT", "ORFACT", "MEMCOND", "IF", "IFTRUE", "IFFALSE", "IFEND",
   "RTEXT_START", "RTEXT_END", "RCHUNK", "RSKILL", "MEM", "unknown"}

\* A line has the argument of its tag: an expression, a chunk and whether the
\* resolver finds it, a MEM expression and whether it can be evaluated.
Line == [tag : Tags, expr : Seq(Word), sound : BOOLEAN]

\* counts: the facts <group>_count; resolver: whether there is one; expand: expand_skills.
Context == [facts : Facts, counts : Facts, resolver : BOOLEAN, expand : BOOLEAN]

ASSUME TemplateAssumption ==
  /\ \A t \in Templates : t \in Seq(Line) /\ Len(t) <= Len(Sentinels)
  /\ Contexts \subseteq Context
  /\ Sentinels \in Seq(Keys)
  /\ \A i, j \in DOMAIN Sentinels : Sentinels[i] = Sentinels[j] => i = j
  /\ {"yes", "no"} \subseteq Values

VARIABLES
  template, context,  \* what is rendered
  facts,     \* context.facts, which MEMCOND lines add to
  at,        \* the line that is read next
  stack,     \* open IF blocks, the innermost last
  pending,   \* pending_groups
  current,   \* current_and
  quote,     \* the RTEXT block: whether it is open, since which line, its condition
  out,       \* what was emitted: lines, and in which form
  status     \* "rendering", "done" or the exception raised

vars == <<template, context, facts, at, stack, pending, current, quote, out, status>>

NoQuote == [open |-> FALSE, from |-> 0, cond |-> FALSE]

TemplateInit ==
  /\ template \in Templates /\ context \in Contexts
  /\ facts = context.facts
  /\ at = 1 /\ stack = <<>> /\ pending = <<>> /\ current = <<>>
  /\ quote = NoQuote /\ out = <<>> /\ status = "rendering"

\* _Frame.is_active
IsActive_BranchOnly(frame) == frame.branch # "false"
IsActive(frame) ==
  frame.branch = "none" \/ (frame.branch = "true") = frame.cond

AllActive == \A k \in DOMAIN stack : IsActive(stack[k])

\* _consume_condition: its result, and what it clears.
Flushed_Always == Append(pending, current)
Flushed == IF current = <<>> THEN pending ELSE Append(pending, current)
Condition ==
  IF Flushed = <<>> THEN "yes" ELSE EvalConditionGroups(Flushed, facts)
Consume == pending' = <<>> /\ current' = <<>>

Reading(tags) ==
  /\ status = "rendering" /\ ~quote.open
  /\ at \in DOMAIN template /\ template[at].tag \in tags

Proceed == at' = at + 1 /\ UNCHANGED <<template, context, status>>

Raise(exception) ==
  /\ status' = exception
  /\ UNCHANGED <<template, context, facts, at, stack, pending, current, quote, out>>

Emit(lines, form) ==
  out' = out \o [k \in 1 .. Len(lines) |-> [line |-> lines[k], form |-> form]]

EmitThis(form) == Emit(<<at>>, form)
EmitNothing == UNCHANGED out

\* A line inside RTEXT, which its end emits with the others.
ReadQuoted ==
  /\ status = "rendering" /\ quote.open /\ at \in DOMAIN template
  /\ IF template[at].tag = "RTEXT_END"
       THEN /\ quote' = NoQuote
            /\ IF quote.cond /\ AllActive
                 THEN Emit([k \in 1 .. at - quote.from - 1 |-> quote.from + k], "raw")
                 ELSE EmitNothing
       ELSE UNCHANGED <<quote, out>>
  /\ Proceed /\ UNCHANGED <<facts, stack, pending, current>>

ReadText ==
  /\ Reading({"text", "comment"})
  /\ IF template[at].tag = "text" /\ AllActive THEN EmitThis("raw") ELSE EmitNothing
  /\ Proceed /\ UNCHANGED <<facts, stack, pending, current, quote>>

ReadFact ==
  /\ Reading({"FACT"})
  /\ current' = Append(current, template[at].expr)
  /\ Proceed /\ UNCHANGED <<facts, stack, pending, quote, out>>

ReadOrFact ==
  /\ Reading({"ORFACT"})
  /\ pending' = Flushed
  /\ current' = <<template[at].expr>>
  /\ Proceed /\ UNCHANGED <<facts, stack, quote, out>>

\* MEMCOND is evaluated where it stands, in any branch, and leaves a fact.
SentinelHolds ==
  [kind |-> "cmp", key |-> Sentinels[at], ver |-> FALSE, op |-> "==", val |-> "yes", items |-> {}]

ReadMemCond ==
  /\ Reading({"MEMCOND"})
  /\ LET answer == EvalExpr(template[at].expr, context.counts)
     IN IF answer \in {"yes", "no"}
          THEN /\ facts' = [facts EXCEPT ![Sentinels[at]] = answer]
               /\ current' = Append(current, <<SentinelHolds>>)
               /\ Proceed /\ UNCHANGED <<stack, pending, quote, out>>
          ELSE Raise(IF answer = "CondError" THEN "ParseError" ELSE answer)

OpenIf ==
  /\ Reading({"IF"})
  /\ IF ~AllActive
       THEN /\ stack' = Append(stack, [cond |-> FALSE, branch |-> "none"])
            /\ Proceed /\ UNCHANGED <<facts, pending, current, quote, out>>
       ELSE IF Condition \in {"yes", "no"}
         THEN /\ stack' = Append(stack, [cond |-> Condition = "yes", branch |-> "none"])
              /\ Consume /\ Proceed /\ UNCHANGED <<facts, quote, out>>
         ELSE Raise(Condition)

\* IFTRUE and IFFALSE.
TurnBranch ==
  /\ Reading({"IFTRUE", "IFFALSE"})
  /\ IF stack = <<>> THEN Raise("ParseError")
     ELSE /\ stack' = [stack EXCEPT ![Len(stack)].branch =
                         IF template[at].tag = "IFTRUE" THEN "true" ELSE "false"]
          /\ Proceed /\ UNCHANGED <<facts, pending, current, quote, out>>

CloseIf ==
  /\ Reading({"IFEND"})
  /\ IF stack = <<>> THEN Raise("ParseError")
     ELSE /\ stack' = Front(stack)
          /\ Proceed /\ UNCHANGED <<facts, pending, current, quote, out>>

OpenQuote ==
  /\ Reading({"RTEXT_START"})
  /\ IF Condition \in {"yes", "no"}
       THEN /\ quote' = [open |-> TRUE, from |-> at, cond |-> Condition = "yes" /\ AllActive]
            /\ Consume /\ Proceed /\ UNCHANGED <<facts, stack, out>>
       ELSE Raise(Condition)

\* RCHUNK, and RSKILL, which is left as it is unless skills are expanded.
Resolves == context.resolver /\ template[at].sound
Include ==
  /\ Reading({"RCHUNK", "RSKILL"})
  /\ LET inlined == template[at].tag = "RCHUNK" \/ context.expand
         shown == Condition = "yes" /\ AllActive
     IN IF Condition \notin {"yes", "no"} THEN Raise(Condition)
        ELSE IF shown /\ inlined /\ ~Resolves THEN Raise("ParseError")
        ELSE /\ IF shown THEN EmitThis(IF inlined THEN "chunk" ELSE "token") ELSE EmitNothing
             /\ Consume /\ Proceed /\ UNCHANGED <<facts, stack, quote>>

EvalMem ==
  /\ Reading({"MEM"})
  /\ IF AllActive /\ ~template[at].sound THEN Raise("ParseError")
     ELSE /\ IF AllActive THEN EmitThis("value") ELSE EmitNothing
          /\ Proceed /\ UNCHANGED <<facts, stack, pending, current, quote>>

Refuse == Reading({"RTEXT_END", "unknown"}) /\ Raise("ParseError")

Finish_QuotesOnly ==
  /\ status = "rendering" /\ at > Len(template)
  /\ IF quote.open THEN Raise("ParseError") ELSE Raise("done")

Finish ==
  /\ status = "rendering" /\ at > Len(template)
  /\ IF quote.open \/ stack # <<>> THEN Raise("ParseError") ELSE Raise("done")

Next ==
  \/ ReadQuoted \/ ReadText \/ ReadFact \/ ReadOrFact \/ ReadMemCond
  \/ OpenIf \/ TurnBranch \/ CloseIf \/ OpenQuote \/ Include \/ EvalMem \/ Refuse
  \/ Finish

Spec == TemplateInit /\ [][Next]_vars
=============================================================================
