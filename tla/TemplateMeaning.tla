--------------------------- MODULE TemplateMeaning ---------------------------
(***************************************************************************)
(* What a template means, from its text alone and without a stack: which IF   *)
(* encloses a line, which branch the line is in, and which conditions are     *)
(* written before a block.  The renderer is compared with it.                 *)
(***************************************************************************)
EXTENDS TemplateRender, FiniteSetsExt

Tag(i) == template[i].tag

\* Expressions: alternatives of conjunctions of comparisons.
Written(words) ==
  /\ words # <<>> /\ IsComparison(words[Len(words)])
  /\ words[1].kind \notin {"and", "or"}
  /\ \A i \in 1 .. Len(words) - 1 :
       IF words[i].kind = "not" THEN IsComparison(words[i + 1])
       ELSE words[i + 1].kind \in {"and", "or"} <=> IsComparison(words[i])

Sound(words, fs) ==
  Written(words) /\ \A i \in DOMAIN words :
    IsComparison(words[i]) => EvalSingle(words[i], fs) # "CondError"

\* The renderer's own facts are not mentioned.
Own(words) == \A i \in DOMAIN words :
  IsComparison(words[i]) => \A n \in DOMAIN Sentinels : words[i].key # Sentinels[n]

Means(words, fs) ==
  \E a, b \in DOMAIN words :
    /\ a = 1 \/ words[a - 1].kind = "or"
    /\ b = Len(words) \/ words[b + 1].kind = "or"
    /\ a <= b /\ \A i \in a .. b :
         /\ words[i].kind # "or"
         /\ IsComparison(words[i]) =>
              (EvalSingle(words[i], fs) = "yes") # (i > 1 /\ words[i - 1].kind = "not")

\* Whether an RTEXT block is open after line i.
QuotedAfter(i) == \E j \in 1 .. i :
  Tag(j) = "RTEXT_START" /\ \A k \in j .. i : Tag(k) # "RTEXT_END"

\* The lines that are read as directives, text or comments.
Plain == {i \in DOMAIN template : ~QuotedAfter(i - 1)}
With(tags) == {i \in Plain : Tag(i) \in tags}

\* How many blocks are open before line i.
Depth(i) ==
  Cardinality({j \in With({"IF"}) : j < i}) - Cardinality({j \in With({"IFEND"}) : j < i})

Encloses(j, i) ==
  /\ j \in With({"IF"}) /\ j < i
  /\ \A k \in j + 1 .. i : Depth(k) > Depth(j)

Branch(j, i) ==
  LET turns == {k \in With({"IFTRUE", "IFFALSE"}) :
                  j < k /\ k < i /\ Encloses(j, k) /\ Depth(k) = Depth(j) + 1}
  IN IF turns = {} THEN "none" ELSE Tag(Max(turns))

\* The condition lines before line i that no line between them and i has used.
Conditions == With({"FACT", "ORFACT", "MEMCOND"})
Users == With({"IF", "RTEXT_START", "RCHUNK", "RSKILL"})
ConditionsOf(i) == {k \in Conditions : k < i /\ ~\E u \in Users : k < u /\ u < i}

FactsFor(k) == IF Tag(k) = "MEMCOND" THEN context.counts ELSE context.facts

\* ORFACT starts a group; all conditions of one group hold.
Holds(i) ==
  \/ ConditionsOf(i) = {}
  \/ \E first \in ConditionsOf(i) :
       /\ first = Min(ConditionsOf(i)) \/ Tag(first) = "ORFACT"
       /\ \A k \in ConditionsOf(i) :
            k >= first /\ (\A o \in first + 1 .. k : o \in ConditionsOf(i) => Tag(o) # "ORFACT")
              => Means(template[k].expr, FactsFor(k))

Taken(i) ==
  \A j \in With({"IF"}) : Encloses(j, i) =>
    \/ Branch(j, i) = "none"
    \/ (Branch(j, i) = "IFTRUE") = Holds(j)

\* Line j opens the RTEXT block that line i is in.
Opens(j, i) ==
  j \in With({"RTEXT_START"}) /\ j < i /\ \A k \in j + 1 .. i - 1 : k \notin Plain

Shown(i) ==
  IF i \notin Plain
  THEN Tag(i) # "RTEXT_END" /\ \E j \in 1 .. i : Opens(j, i) /\ Holds(j) /\ Taken(j)
  ELSE /\ Tag(i) \in {"text", "MEM", "RCHUNK", "RSKILL"} /\ Taken(i)
       /\ Tag(i) \in {"RCHUNK", "RSKILL"} => Holds(i)

Form(i) ==
  IF i \notin Plain \/ Tag(i) = "text" THEN "raw"
  ELSE IF Tag(i) = "MEM" THEN "value"
  ELSE IF Tag(i) = "RCHUNK" \/ context.expand THEN "chunk"
  ELSE "token"

\* The lines read so far; those of an open RTEXT block come out with its end.
Due == {i \in 1 .. at - 1 : quote.open => i < quote.from}

\* What was emitted is the lines that are shown, in their order and form.
OutputAsWritten ==
  /\ \A k \in DOMAIN out :
       out[k].line \in Due /\ Shown(out[k].line) /\ out[k].form = Form(out[k].line)
  /\ \A i \in Due : Shown(i) => \E k \in DOMAIN out : out[k].line = i
  /\ \A j, k \in DOMAIN out : j < k => out[j].line < out[k].line

AllSound == \A k \in Conditions :
  k < at => Sound(template[k].expr, FactsFor(k)) /\ Own(template[k].expr)

\* An IF with conditions of its own in a branch that is not taken.
UntakenIf == \E i \in With({"IF"}) : i < at /\ ~Taken(i) /\ ConditionsOf(i) # {}

\* README.md:414: "The accumulated result feeds the next `IF` block."  At every
\* line, what was emitted is what the template says.
RendersAsWritten == AllSound => OutputAsWritten

\* It is, unless an IF that was read in a branch not taken has left its conditions
\* to a later block: the stack of frames and the pending conditions, line by line,
\* come to what nesting and conditions are in the text.  A condition before RTEXT
\* hides the block: README.md:457 says of such text that it "is emitted verbatim
\* regardless of conditions", but the code has it otherwise, and so has a test
\* (tests/parser/test_render.py:145), and Shown follows these.
LeakNeedsUntakenIf == AllSound /\ ~UntakenIf => OutputAsWritten

\* What the text says of line `at` if rendering ends there with `outcome`.
HasCause(outcome) ==
  /\ outcome = "done" => Depth(at) = 0 /\ ~QuotedAfter(at - 1)
  /\ outcome \in {"CondError", "IndexError"} =>
       \/ at \in Users /\ ~AllSound
       \/ /\ outcome = "IndexError" /\ Tag(at) = "MEMCOND"
          /\ ~Sound(template[at].expr, context.counts)
  /\ outcome = "ParseError" =>
       IF at > Len(template) THEN Depth(at) > 0 \/ QuotedAfter(at - 1)
       ELSE \/ Tag(at) \in {"RTEXT_END", "unknown"}
            \/ Tag(at) \in {"IFTRUE", "IFFALSE", "IFEND"} /\ Depth(at) = 0
            \/ Tag(at) = "MEMCOND" /\ ~Sound(template[at].expr, context.counts)
            \/ /\ Tag(at) \in {"RCHUNK", "RSKILL", "MEM"}
               /\ IF Tag(at) = "MEM" THEN ~template[at].sound ELSE ~Resolves
               /\ AllSound /\ ~UntakenIf => Shown(at) /\ Form(at) # "token"

\* A template that is refused is broken at the line where rendering stopped: a
\* directive without its block, a chunk, skill or MEM of a taken branch that cannot
\* be had, an expression that is not sound; one that is rendered has closed every block.
\* Another exception than ParseError ends it in two cases only: a line that uses up
\* the conditions of FACT and ORFACT, one of which is not sound (parser/render.py:192
\* evaluates them unguarded), and a MEMCOND whose expression ends too soon (:246
\* catches CondError, not IndexError).  The comment of render (:150-153) promises a
\* ParseError "on any structural or evaluation error", for these as well.
FailsForACause == HasCause(status)

\* The renderer's state is of its types, and blocks are open as the text says.
TemplateTypeOK ==
  /\ template \in Templates /\ context \in Contexts /\ facts \in Facts
  /\ at \in 1 .. Len(template) + 1
  /\ stack \in Seq([cond : BOOLEAN, branch : {"none", "true", "false"}])
  /\ Len(stack) = Depth(at)
  /\ \A k \in DOMAIN pending : pending[k] # <<>>
  /\ quote.open <=> QuotedAfter(at - 1)
  /\ status \in {"rendering", "done", "ParseError", "CondError", "IndexError"}
=============================================================================
