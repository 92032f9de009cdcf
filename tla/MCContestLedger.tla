--------------------------- MODULE MCContestLedger ---------------------------
(***************************************************************************)
(* Instances of ContestLedger for TLC: one partition that everybody sees,  *)
(* or a shared one and one private to an agent.                            *)
(***************************************************************************)
EXTENDS LedgerClaims, TLC

AllShareOnePart == [a \in Agent |-> Part]

(* Everybody sees one partition; one agent has another to itself.          *)
FirstHasItsOwnPart ==
  LET a == CHOOSE a \in Agent : TRUE
      p == CHOOSE p \in Part : TRUE
  IN [b \in Agent |-> IF b = a THEN Part ELSE Part \ {p}]

SymmetryButAgents ==
  Permutations(Call) \cup Permutations(Content) \cup Permutations(Key)

Symmetry == SymmetryButAgents \cup Permutations(Agent)
=============================================================================
