------------------------------ MODULE Lineage -------------------------------
(***************************************************************************)
(* Declared `supersedes` links and what the code reads out of them: the    *)
(* chain resolution of recall (aoms/recall.py), chain diagnosis and        *)
(* timelines (aoms/truth.py), and the lineage and as-of queries of         *)
(* aoms/repositories/sqlite.py.  Constant-level only: Recall is the state  *)
(* machine that uses it.                                                   *)
(*                                                                         *)
(* A set R of records with links s: s[i] is what record i declares it      *)
(* supersedes, an id that need not be in R, or None.  Every record has at  *)
(* most one predecessor, so the links are a functional graph, and it may   *)
(* have cycles: nothing in the contract forbids them.  Ids are numbered in *)
(* the order of created_at, so i < j says that i is the older record.      *)
(***************************************************************************)
EXTENDS Integers, FiniteSetsExt, SequencesExt

CONSTANTS
  Id,       \* record ids, numbered by creation
  None,     \* Python's None / SQL's NULL
  MaxDepth  \* how many links a lineage query follows (100 in the code)

ASSUME LineageAssumption ==
  /\ Id \subseteq Nat
  /\ None \notin Id
  /\ MaxDepth \in Nat

-----------------------------------------------------------------------------
(* Walking the links.                                                      *)

(* The nodes one walk meets, by position: it starts at `start`, follows    *)
(* s, and stops at a node that is not in R, that an earlier walk completed *)
(* or that this walk has met.  At the last position the loop reads the     *)
(* node that stopped it.                                                   *)
Walk(R, s, start, done) ==
  LET node[n \in 0..Cardinality(R)] ==
        IF n = 0 THEN start
        ELSE LET p == node[n - 1] IN IF p \in R THEN s[p] ELSE None
      onPath(n) == /\ \A k \in 0..n : node[k] \in R \ done
                   /\ \A j, k \in 0..n : node[j] = node[k] => j = k
      steps == {n \in 0..Cardinality(R) : onPath(n)}
  IN [path |-> [n \in steps |-> node[n]],
      stop |-> IF steps = {} THEN start ELSE node[Cardinality(steps)]]

(* One iteration of the cycle search.                                      *)
Searched(R, s, start, found) ==
  IF start \in found.done THEN found
  ELSE LET w == Walk(R, s, start, found.done)
           met == Range(w.path)
           first == CHOOSE k \in DOMAIN w.path : w.path[k] = w.stop
       IN [done   |-> found.done \cup met,
           cycles |-> IF w.stop \in met
                      THEN found.cycles \cup
                           {{w.path[n] : n \in {k \in DOMAIN w.path : k >= first}}}
                      ELSE found.cycles]

(* The cycles among R, each as its set of members.                         *)
Cycles(R, s) ==
  FoldSet(LAMBDA i, found : Searched(R, s, i, found),
          [done |-> {}, cycles |-> {}], R).cycles

Neighbours(R, s, C) ==
  {i \in R : \E j \in C : s[i] = j \/ s[j] = i}

(* The records a declared link connects to i, in whichever direction: the  *)
(* least set with i that no link leaves.                                   *)
Component(R, s, i) ==
  LET closed == {C \in SUBSET R : i \in C /\ Neighbours(R, s, C) \subseteq C}
  IN  {j \in R : \A C \in closed : j \in C}

Components(R, s) == {Component(R, s, i) : i \in R}

(* i supersedes j, or supersedes one that does, within R.                  *)
Overrides(R, s, i, j) ==
  \A C \in SUBSET R :
    (\A k \in C \cup {i} : s[k] \in R => s[k] \in C) => j \in C

-----------------------------------------------------------------------------
(* resolve_supersession_chains: R are the candidates of one recall.        *)

(* Seeded fault: cyclic components are not left alone.                     *)
ProtectedNever(R, s) == {}

(* A component with a cycle is left as it is.                              *)
Protected(R, s) ==
  LET cyclic == UNION Cycles(R, s)
  IN UNION {C \in Components(R, s) : C \cap cyclic # {}}

(* Seeded fault: only what a chain head names is suppressed, so that every *)
(* second version of a longer chain is packed again.                       *)
SuppressedByHeads(R, s) ==
  {s[i] : i \in {j \in R \ Protected(R, s) : \A k \in R : s[k] # j}}
     \cap (R \ Protected(R, s))

(* Candidates another candidate declares it supersedes.                    *)
Suppressed(R, s) ==
  {s[i] : i \in R \ Protected(R, s)} \cap (R \ Protected(R, s))

Packable(R, s) == R \ Suppressed(R, s)

(* What a packed head says it supersedes; None when it says nothing.       *)
Predecessor(R, s, i) ==
  IF i \notin Protected(R, s) /\ s[i] \in R THEN s[i] ELSE None

-----------------------------------------------------------------------------
(* diagnose_chains and reconstruct_timeline: R are retained records.       *)

Successors(R, s, i) == {j \in R : s[j] = i}

Heads(R, s, C) == {i \in C : Successors(R, s, i) = {}}

(* The findings as <<category, records>>.  part is the scope partition of  *)
(* a record, indexed the ids with a full-text row, overlap whether some    *)
(* context sees both partitions.                                           *)
Diagnosis(R, s, part, indexed, overlap) ==
  LET linked == {i \in R : s[i] \in R}
  IN  {<<"dangling", {i, s[i]}>> : i \in {j \in R : s[j] # None /\ s[j] \notin R}}
      \cup {<<"scope", {i, s[i]}>> : i \in {j \in linked : part[j] # part[s[j]]}}
      \cup {<<"both-retrievable", {i, s[i]}>> :
              i \in {j \in linked : /\ {j, s[j]} \subseteq indexed
                                    /\ overlap[part[j], part[s[j]]]}}
      \cup {<<"cycle", c>> : c \in Cycles(R, s)}
      \cup {<<"heads", Heads(R, s, C)>> :
              C \in {D \in Components(R, s) : /\ Cardinality(D) >= 2
                                              /\ Cardinality(Heads(R, s, D)) > 1}}

(* When the oldest direct successor of i replaced it.                      *)
ValidUntil(R, s, i) ==
  IF Successors(R, s, i) = {} THEN None ELSE Min(Successors(R, s, i))

(* The versions that are active at the boundary, of records up to it.      *)
ActiveVersions(R, s, at) ==
  {i \in R : i <= at /\ (ValidUntil(R, s, i) = None \/ at < ValidUntil(R, s, i))}

-----------------------------------------------------------------------------
(* The lineage and as-of queries.  V are the records in the caller's       *)
(* scopes, A the admitted ones.                                            *)

(* Records joined to the ids of C by links through V, MaxDepth at most.    *)
Joined(V, s, C) ==
  LET near[n \in 0..MaxDepth] ==
        IF n = 0 THEN C \cap V
        ELSE LET D == near[n - 1] IN D \cup Neighbours(V, s, D)
  IN near[MaxDepth]

(* _lineage_sync with a boundary: what is younger is neither shown nor     *)
(* followed, and neither is what is held aside.                            *)
LineageAt(V, A, s, i, at) == Joined({j \in V \cap A : j <= at}, s, {i})

(* chain_timeline: the versions of i's chain active at the boundary; a     *)
(* record that is not visible there has none.                              *)
TimelineAt(V, A, s, i, at) ==
  LET R == LineageAt(V, A, s, i, at) IN ActiveVersions(R, s, at)

(* Seeded fault: a successor younger than the boundary hides a record.     *)
AsOfNow(V, A, s, matched, at) ==
  {i \in Joined(V, s, matched \cap A) :
     /\ i <= at /\ i \in A
     /\ ~ \E j \in V : s[j] = i /\ j > i}

(* _search_as_of_sync: the chains of every match, whichever version it is, *)
(* reduced to the records no younger one had replaced at the boundary.  A  *)
(* record held aside is not shown, but it is followed, and as a successor  *)
(* it replaces.                                                            *)
AsOf(V, A, s, matched, at) ==
  {i \in Joined(V, s, matched \cap A) :
     /\ i <= at /\ i \in A
     /\ ~ \E j \in V : s[j] = i /\ j > i /\ j <= at}
=============================================================================
