---------------------------- MODULE IdAllocation ----------------------------
(***************************************************************************)
(* How ids are made (mem/ids.py, MemStore.allocate_id).  A long id is a      *)
(* prefix, which a counter of the process hands out, and a random slot; a    *)
(* short id is a legacy one, whose prefix is what normalize_id makes of it.  *)
(***************************************************************************)
EXTENDS FiniteSetsExt

CONSTANTS
  Prefixes,       \* 256: values of the first two hex digits
  ShortPrefixes,  \* 16: those a short id may have, its first digit after a 0
  Slots,          \* 16^3: values of the other three digits
  Attempts        \* 1000: draws before make_id_unique gives up

ASSUME IdAssumption ==
  /\ Prefixes \in Nat \ {0} /\ ShortPrefixes \in 0 .. Prefixes /\ Slots \in Nat \ {0}
  /\ Attempts \in Nat /\ Attempts > Prefixes

LongIds == [length : {5}, prefix : 0 .. Prefixes - 1, slot : 0 .. Slots - 1]
ShortIds == [length : {4}, prefix : 0 .. ShortPrefixes - 1, slot : 0 .. Slots - 1]

\* The counter before the first id.
Unset == -1
Counters == Unset .. Prefixes - 1

\* _next_prefix: one above the highest prefix in use, then around to zero.
NextPrefix(counter, taken) ==
  (Max({counter} \cup {i.prefix : i \in taken}) + 1) % Prefixes

\* The prefixes of the first `Attempts` draws, one after the other.
Draws(counter, taken) ==
  LET draw[n \in 1 .. Attempts] ==
        NextPrefix(IF n = 1 THEN counter ELSE draw[n - 1], taken)
  IN draw

Block(prefix) == {i \in LongIds : i.prefix = prefix}

\* make_id_unique over new_id(5): the slot is random, so a block that has an id in
\* use may be drawn in vain, but a thousand draws from blocks with a free id are
\* taken to find one.  Each outcome is the id and what the counter is after it; no
\* outcome is the error that ends the thousand draws.
NewLong(counter, taken) ==
  LET draw == Draws(counter, taken)
      reached(n) == \A m \in 1 .. n - 1 : Block(draw[m]) \cap taken # {}
  IN UNION {[id : Block(draw[n]) \ taken, counter : {draw[n]}] :
              n \in {m \in 1 .. Attempts : reached(m)}}

\* make_id_unique over new_id(4), which has no counter.
NewShort(counter, taken) == [id : ShortIds \ taken, counter : {counter}]

AllocatePreferred_InUse(preferred, counter, taken) ==
  [id : {preferred}, counter : {counter}]
\* allocate_id(preferred): an id of the same length when it is in use.
AllocatePreferred(preferred, counter, taken) ==
  IF preferred \notin taken THEN [id : {preferred}, counter : {counter}]
  ELSE IF preferred \in ShortIds THEN NewShort(counter, taken)
  ELSE NewLong(counter, taken)

Allocate_IgnoresIndex(counter, taken) == NewLong(counter, {})
\* allocate_id().
Allocate(counter, taken) == NewLong(counter, taken)
=============================================================================
