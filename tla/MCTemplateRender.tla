-------------------------- MODULE MCTemplateRender --------------------------
(***************************************************************************)
(* Templates for TLC: short ones of every line, blocks in blocks, groups of   *)
(* conditions and expressions.                                                *)
(***************************************************************************)
EXTENDS TemplateMeaning

MCKeys == {"f", "u", "size", "m1", "m2", "m3", "m4", "m5", "m6", "m7", "m8", "m9", "m10", "m11", "m12", "m13"}
MCSentinels == <<"m1", "m2", "m3", "m4", "m5", "m6", "m7", "m8", "m9", "m10", "m11", "m12", "m13">>
MCValues == {"yes", "no", "9", "10"}

\* "10" is before "9" as a string and after it as a version; "yes" is no version.
MCOrder == [v \in MCValues |-> CASE v = "10" -> 1 [] v = "9" -> 2 [] v = "no" -> 3 [] v = "yes" -> 4]
MCVersion == [v \in MCValues |-> CASE v = "9" -> 9 [] v = "10" -> 10 [] OTHER -> 0]
MCParts == [v \in MCValues |-> {v}]

Compare(key, ver, op, val) ==
  [kind |-> "cmp", key |-> key, ver |-> ver, op |-> op, val |-> val, items |-> {"yes", "9"}]
Yes == Compare("f", FALSE, "==", "yes")
No == Compare("f", FALSE, "==", "no")
Conn(kind) == [kind |-> kind]

Directive(tag, expr, sound) == [tag |-> tag, expr |-> expr, sound |-> sound]
L(tag) == Directive(tag, <<>>, TRUE)
Cond(tag, word) == Directive(tag, <<word>>, TRUE)
Text == L("text")

UpTo(set, n) == UNION {[1 .. k -> set] : k \in 0 .. n}

Alphabet ==
  {L(tag) : tag \in Tags \ {"FACT", "ORFACT", "MEMCOND"}}
    \cup {Cond("FACT", Yes), Cond("FACT", No), Cond("ORFACT", Yes),
          Cond("MEMCOND", Compare("size", FALSE, "==", "9")), Cond("MEMCOND", Conn("and"))}
    \cup {Directive(tag, <<>>, FALSE) : tag \in {"RCHUNK", "RSKILL", "MEM"}}

\* One block, with a condition before it, what is in its branches and what follows.
Before == {<<>>, <<Cond("FACT", Yes)>>, <<Cond("FACT", No)>>}
Inner ==
  {<<Text>>, <<L("RTEXT_START"), L("IF"), L("RTEXT_END")>>, <<L("MEM")>>, <<Cond("FACT", No)>>}
    \cup {c \o <<use>> : c \in Before, use \in {L("RCHUNK"), L("RSKILL")}}
    \cup {c \o <<L("IF"), L(turn), Text, L("IFEND")>> : c \in Before, turn \in {"IFTRUE", "IFFALSE"}}
After == {<<Text>>, <<L("RCHUNK")>>, <<L("IF"), L("IFTRUE"), Text, L("IFEND")>>}
Blocks ==
  {c \o <<L("IF"), L(turn)>> \o body \o <<L("IFEND")>> \o rest :
     c \in Before, turn \in {"IFTRUE", "IFFALSE"}, body \in Inner, rest \in After}
  \cup {c \o <<L("IF"), L("IFTRUE")>> \o one \o <<L("IFFALSE")>> \o two \o <<L("IFEND")>> :
     c \in Before, one \in Inner, two \in {<<Text>>, <<L("RCHUNK")>>}}

Groups ==
  {conds \o <<L("RTEXT_START"), Text, L("RTEXT_END")>> :
     conds \in UpTo({Cond("FACT", Yes), Cond("FACT", No), Cond("ORFACT", Yes), Cond("ORFACT", No)}, 4)}

Expressions ==
  {<<Directive("FACT", words, TRUE), L("RCHUNK")>> :
     words \in UpTo({Conn("not"), Conn("and"), Conn("or"), Yes, No}, 4)}
  \cup {<<Cond("FACT", Compare(key, ver, op, val)), L("RSKILL")>> :
     key \in {"f", "u", "size"}, ver \in BOOLEAN, op \in {"==", "<", "in", "among"}, val \in MCValues}

MCTemplates == UpTo(Alphabet, 3) \cup Blocks \cup Groups \cup Expressions

MCFacts == [k \in MCKeys |-> IF k = "f" THEN "yes" ELSE IF k = "size" THEN "10" ELSE "none"]
MCCounts == [k \in MCKeys |-> IF k = "size" THEN "9" ELSE "none"]
MCContexts ==
  {[facts |-> MCFacts, counts |-> MCCounts, resolver |-> resolver, expand |-> expand] :
     resolver \in BOOLEAN, expand \in BOOLEAN}
=============================================================================
