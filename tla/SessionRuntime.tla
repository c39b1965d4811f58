-------------------------- MODULE SessionRuntime --------------------------
(***************************************************************************)
(* The document of one session (mem_session/): zhar show records in it how   *)
(* often and when a node was shown and scores the node; zhar session clear   *)
(* deletes it.  Processes that were given the same session id share the      *)
(* document.  A show takes the time, reads the document, cuts the file and   *)
(* fills it; nothing is locked.                                              *)
(*                                                                          *)
(* Time is counted in ticks, of which Second make a second: the document      *)
(* keeps whole seconds (format_dt), the clock does not.                      *)
(***************************************************************************)
EXTENDS Naturals

CONSTANTS
  Nodes, Procs,
  Second,     \* ticks of a second
  Interval,   \* _SCORE_INTERVAL_SECONDS, in ticks
  Threshold,  \* _SUSPICIOUS_THRESHOLD
  MaxTime,    \* bound of the clock
  MaxShows,   \* bound of the shows
  MaxCrashes, \* bound of the processes killed
  Monotone,   \* whether the clock never goes back
  None,       \* no document, no entry, no time
  Torn        \* a file that does not parse

ASSUME SessionAssumption ==
  /\ Second \in Nat \ {0} /\ Interval \in Nat \ {0}
  /\ Interval % Second = 0
  /\ Threshold \in Nat /\ MaxTime \in Nat /\ MaxShows \in Nat /\ MaxCrashes \in Nat
  /\ Monotone \in BOOLEAN
  /\ None # Torn /\ None \notin Nat

VARIABLES
  file,     \* the session file: a document, None (missing or empty) or Torn
  now,      \* the clock
  proc,     \* proc[p]: the show that process p is at
  shows, crashes,
  \* History, which no action reads:
  made,     \* made[n]: shows of n recorded since the session was cleared
  lost,     \* lost[n]: those of them that went with a file whose writer was killed
  clash,    \* whether, since then, a show read while another was between its own
            \* read and the end of its write, or the clear itself fell there
  disorder  \* whether a show was recorded after one that took a later time

history == <<made, lost, clash, disorder>>
vars == <<file, now, proc, shows, crashes, history>>

-----------------------------------------------------------------------------
(* The document.  plain is no field of it: it counts the plain shows that   *)
(* the score of a node contains.                                            *)

Time == 0 .. MaxTime

NodeState ==
  [state : {"unknown", "shown", "expanded", "suspicious"},
   status : {"normal", "suspicious"},
   shows : Nat, score : Nat, plain : Nat,
   expandedAt : Time \cup {None}, scoredAt : Time \cup {None}]

Session == [started : Time, nodes : [Nodes -> NodeState \cup {None}]]

ASSUME DocumentAssumption == None \notin NodeState \cup Session /\ Torn \notin Session

\* Where a show is: before it took the time, before it read, before it wrote, while
\* it writes, and while it writes a file that was deleted.
Progress ==
  [at : {"idle"}]
    \cup [at : {"timed"}, node : Nodes, deep : BOOLEAN, moment : Time]
    \cup [at : {"loaded", "fill", "orphan"}, node : Nodes, doc : Session]

Unseen ==
  [state |-> "unknown", status |-> "normal", shows |-> 0, score |-> 0, plain |-> 0,
   expandedAt |-> None, scoredAt |-> None]

\* format_dt and parse_dt: what is left of a time in the document.
Stored(t) == t - (t % Second)

\* The whole intervals from one time to another, none when the other is earlier.
Intervals(from, to) == IF to > from THEN (to - from) \div Interval ELSE 0

Reference(started, s) == IF s.expandedAt # None THEN s.expandedAt ELSE started

\* Intervals that the score of a node contains already.
Counted(started, s) ==
  IF s.scoredAt = None THEN 0 ELSE Intervals(Reference(started, s), s.scoredAt)

NextScore_CountsAgain(started, s, t) ==
  s.score + 1 + Intervals(Reference(started, s), t)
\* _next_plain_show_score.
NextScore(started, s, t) ==
  LET elapsed == Intervals(Reference(started, s), t)
      before == Counted(started, s)
  IN s.score + 1 + (IF elapsed > before THEN elapsed - before ELSE 0)

Suspicious_AtThreshold(score) == score >= Threshold
Suspicious(score) == score > Threshold

PlainShow(started, s, t) ==
  LET score == NextScore(started, s, t) IN
  [state |-> IF Suspicious(score) THEN "suspicious" ELSE "shown",
   status |-> IF Suspicious(score) THEN "suspicious" ELSE "normal",
   shows |-> s.shows + 1, score |-> score, plain |-> s.plain + 1,
   expandedAt |-> s.expandedAt, scoredAt |-> Stored(t)]

DeepShow_StatusAsState(s, t) ==
  [state |-> "normal", status |-> "normal", shows |-> s.shows + 1, score |-> 0,
   plain |-> 0, expandedAt |-> Stored(t), scoredAt |-> Stored(t)]
DeepShow(s, t) ==
  [state |-> "expanded", status |-> "normal", shows |-> s.shows + 1, score |-> 0,
   plain |-> 0, expandedAt |-> Stored(t), scoredAt |-> Stored(t)]

LoadOrCreate_AlwaysNew(f, t) ==
  [started |-> Stored(t), nodes |-> [n \in Nodes |-> None]]
\* _load_or_create_session, from what load_session read.
LoadOrCreate(f, t) ==
  IF f = None THEN [started |-> Stored(t), nodes |-> [n \in Nodes |-> None]] ELSE f

StateOf(d, n) == IF d.nodes[n] = None THEN Unseen ELSE d.nodes[n]

\* record_show_event, from document to document.
Recorded(d, n, deep, t) ==
  [d EXCEPT !.nodes[n] = IF deep THEN DeepShow(StateOf(d, n), t)
                         ELSE PlainShow(d.started, StateOf(d, n), t)]

-----------------------------------------------------------------------------
Idle == [at |-> "idle"]

Init ==
  /\ file = None /\ now = 0 /\ shows = 0 /\ crashes = 0
  /\ proc = [p \in Procs |-> Idle]
  /\ made = [n \in Nodes |-> 0] /\ lost = [n \in Nodes |-> 0]
  /\ clash = FALSE /\ disorder = FALSE

Goes(p, r) == proc' = [proc EXCEPT ![p] = r]
Busy(p) == proc[p].at # "idle"
Writes(p) == proc[p].at \in {"loaded", "fill"}

\* Time passes, or the clock is set.
Tick ==
  /\ now' \in IF Monotone THEN now + 1 .. MaxTime ELSE Time \ {now}
  /\ UNCHANGED <<file, proc, shows, crashes, history>>

\* zhar show of node n begins; deep is --relation-depth above 0.
Start(p, n, deep) ==
  /\ ~Busy(p) /\ shows < MaxShows
  /\ shows' = shows + 1
  /\ Goes(p, [at |-> "timed", node |-> n, deep |-> deep, moment |-> now])
  /\ UNCHANGED <<file, now, crashes, history>>

\* While another process fills the file, a part of it may be all there is.
Seen == {file} \cup (IF \E q \in Procs : proc[q].at = "fill" THEN {Torn} ELSE {})

\* Later than the show at time t of a node in state s: nothing may be.
Misplaced(d, s, t) ==
  Stored(t) < d.started \/ (s.scoredAt # None /\ Stored(t) < s.scoredAt)

\* load_session; what does not parse ends the show.
Load(p) ==
  /\ proc[p].at = "timed"
  /\ \E f \in Seen :
       \/ f = Torn /\ Goes(p, Idle) /\ UNCHANGED <<clash, disorder>>
       \/ /\ f # Torn
          /\ LET r == proc[p]
                 d == LoadOrCreate(f, r.moment)
             IN /\ Goes(p, [at |-> "loaded", node |-> r.node,
                            doc |-> Recorded(d, r.node, r.deep, r.moment)])
                /\ disorder' = (disorder \/ Misplaced(d, StateOf(d, r.node), r.moment))
                /\ clash' = (clash \/ \E q \in Procs : Writes(q))
  /\ UNCHANGED <<file, now, shows, crashes, made, lost>>

\* save_session: write_bytes cuts the file ...
Cut(p) ==
  /\ proc[p].at = "loaded"
  /\ file' = None
  /\ Goes(p, [proc[p] EXCEPT !.at = "fill"])
  /\ UNCHANGED <<now, shows, crashes, history>>

\* ... and fills it; what another filled in meanwhile may stick out behind.
Fill(p) ==
  /\ proc[p].at = "fill"
  /\ file' \in {proc[p].doc} \cup (IF file = None THEN {} ELSE {Torn})
  /\ Goes(p, Idle)
  /\ made' = [made EXCEPT ![proc[p].node] = @ + 1]
  /\ UNCHANGED <<now, shows, crashes, lost, clash, disorder>>

\* The file was deleted while the process filled it.
FillDeleted(p) ==
  /\ proc[p].at = "orphan"
  /\ Goes(p, Idle)
  /\ UNCHANGED <<file, now, shows, crashes, history>>

\* A process is killed.  When it had cut the file, all that was recorded is gone.
Crash(p) ==
  /\ Busy(p) /\ crashes < MaxCrashes
  /\ crashes' = crashes + 1
  /\ Goes(p, Idle)
  /\ \/ proc[p].at # "fill" /\ UNCHANGED <<file, lost>>
     \/ proc[p].at = "fill" /\ file' \in {file, Torn} /\ lost' = made
  /\ UNCHANGED <<now, shows, made, clash, disorder>>

\* zhar session clear.
Clear ==
  /\ file' = None
  /\ proc' = [p \in Procs |-> IF proc[p].at = "fill" THEN [proc[p] EXCEPT !.at = "orphan"]
                              ELSE proc[p]]
  /\ made' = [n \in Nodes |-> 0] /\ lost' = [n \in Nodes |-> 0]
  /\ clash' = \E p \in Procs : proc[p].at = "loaded"
  /\ UNCHANGED <<now, shows, crashes, disorder>>

Next ==
  \/ Tick
  \/ Clear
  \/ \E p \in Procs :
       \/ \E n \in Nodes, deep \in BOOLEAN : Start(p, n, deep)
       \/ Load(p)
       \/ Cut(p)
       \/ Fill(p)
       \/ FillDeleted(p)
       \/ Crash(p)

Spec == Init /\ [][Next]_vars

-----------------------------------------------------------------------------
(* Properties.                                                              *)

Shown(d) == {n \in Nodes : d.nodes[n] # None}

\* Type invariant.
SessionTypeOK ==
  /\ file \in Session \cup {None, Torn}
  /\ now \in Time
  /\ proc \in [Procs -> Progress]
  /\ shows \in 0 .. MaxShows /\ crashes \in 0 .. MaxCrashes
  /\ made \in [Nodes -> Nat] /\ lost \in [Nodes -> Nat]
  /\ clash \in BOOLEAN /\ disorder \in BOOLEAN

IsDocument == file \notin {None, Torn}

\* A node is suspicious in a session exactly while its score is above the threshold,
\* whatever shows, clears and crashes came before.
SuspicionFollowsScore == IsDocument =>
  \A n \in Shown(file) :
    /\ file.nodes[n].status = "suspicious" <=> file.nodes[n].score > Threshold
    /\ file.nodes[n].state = "suspicious" <=> file.nodes[n].score > Threshold

\* The score does not depend on when the shows came: it is the plain shows since the
\* last expansion and the whole intervals from there to the last show, although it
\* is summed up show by show from times cut to seconds; unless a show was recorded
\* after one that took a later time (the clock was set back, or shows overlapped).
ScoreExact == IsDocument /\ ~disorder =>
  \A n \in Shown(file) :
    LET s == file.nodes[n] IN s.score = s.plain + Counted(file.started, s)

\* The shows on record, whether there is a file or none.
OnRecord(n) == IF file = None THEN 0 ELSE StateOf(file, n).shows

\* Each show that was recorded since the session was cleared is on record, and
\* counts once, but for two cases: another show, or the clear, came between the
\* read and the end of the write of a show; or a show was killed while it wrote,
\* which takes what was on record by then, no more and never later, or leaves a
\* file that does not parse.  Shows that only take turns lose nothing, whatever
\* is killed before it has cut the file.
EveryShowCounts == ~clash =>
  /\ file = Torn => crashes > 0
  /\ file # Torn /\ (\A p \in Procs : proc[p].at # "fill") =>
       \A n \in Nodes : OnRecord(n) + lost[n] = made[n]
=============================================================================
