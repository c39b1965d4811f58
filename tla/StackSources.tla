---------------------------- MODULE StackSources ----------------------------
(***************************************************************************)
(* Sources in cached buckets and how a name finds one (stack/render.py:       *)
(* discover_cached_stack_sources, resolve_cached_stack_source).  A bucket is  *)
(* a repository at a branch, in a folder of its own.                          *)
(***************************************************************************)
EXTENDS Naturals, FiniteSets

CONSTANTS
  Buckets,
  RepoOf,          \* Buckets -> Repos
  FolderOrder,     \* Buckets -> Nat: the order of the index
  Paths,           \* the files of the repositories
  Kinds, NameOf, KindOf,  \* of a path, from the pattern it matches
  Names,
  None,            \* of a path that no pattern matches
  Similar(_, _),   \* the fuzzy score of a request and a label
  Exact            \* --fuzzy-conf was not given; above every score

ASSUME SourcesAssumption ==
  /\ FolderOrder \in [Buckets -> Nat]
  /\ \A a, b \in Buckets : FolderOrder[a] = FolderOrder[b] => a = b
  /\ KindOf \in [Paths -> Kinds \cup {None}] /\ NameOf \in [Paths -> Names]
  /\ None \notin Kinds /\ Exact \in Nat
  /\ IsFiniteSet(Buckets)

\* What a user may ask for: a name, repo:name or a path.
Bare(n) == <<"name", n>>
Qualified(repo, n) == <<"qualified", repo, n>>
AtPath(p) == <<"path", p>>

Source == [bucket : Buckets, path : Paths]

\* discover_cached_stack_sources: `index` lists the buckets, `dir` has their files.
Discovered(index, dir) ==
  {s \in Source : s.bucket \in index /\ s.path \in dir[s.bucket] /\ KindOf[s.path] # None}

NameOfSource(s) == NameOf[s.path]
QualifiedName(s) == Qualified(RepoOf[s.bucket], NameOfSource(s))

\* _candidate_display_names: labels are kept by path, so of two sources with one
\* path the later one gives the label.
Label(s, candidates) ==
  LET last == CHOOSE t \in candidates :
                /\ t.path = s.path
                /\ \A u \in candidates :
                     u.path = s.path => FolderOrder[u.bucket] <= FolderOrder[t.bucket]
  IN IF Cardinality({t \in candidates : NameOfSource(t) = NameOfSource(s)}) = 1
       THEN Bare(NameOfSource(s)) ELSE QualifiedName(last)

ExactMatches(request, candidates) ==
  {s \in candidates : request \in {Bare(NameOfSource(s)), QualifiedName(s), AtPath(s.path),
                                   Label(s, candidates)}}

BestMatches(request, candidates) ==
  {s \in candidates : \A t \in candidates :
     Similar(request, Label(t, candidates)) <= Similar(request, Label(s, candidates))}

\* resolve_cached_stack_source: the sources it may return; none when it raises.
Resolve_Unthresholded(request, candidates, conf) ==
  LET exact == ExactMatches(request, candidates)
  IN IF exact # {} THEN {s \in exact : exact = {s}} ELSE BestMatches(request, candidates)

Resolve(request, candidates, conf) ==
  LET exact == ExactMatches(request, candidates)
  IN IF exact # {} THEN {s \in exact : exact = {s}}
     ELSE {s \in BestMatches(request, candidates) :
             conf # Exact /\ Similar(request, Label(s, candidates)) >= conf}
=============================================================================
