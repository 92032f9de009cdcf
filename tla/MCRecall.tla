------------------------------ MODULE MCRecall -------------------------------
(***************************************************************************)
(* Recall for TLC: a shared partition and one that belongs to an agent,    *)
(* and a caller who sees both, or the shared one only.                     *)
(***************************************************************************)
EXTENDS Recall

Shared == "shared"
Own    == "own"

Scopes == (Shared :> "user_global") @@ (Own :> "agent_private")

AllOverlap == [pq \in Part \X Part |-> TRUE]

W(part, claim, content, sup, strength, near, size) ==
  [part |-> part, kind |-> "fact", claim |-> claim, content |-> content,
   supersedes |-> sup, strength |-> strength, near |-> near, size |-> size]

(* Links to every memory and to one not stored yet, two answers to one     *)
(* claim, a memory of the other partition.                                 *)
MCWrites ==
       {W(Shared, None, "x", sup, 1, 40, 1) : sup \in {None, 1, 2}}
  \cup {W(Shared, "k", "x", None, 2, 80, 2), W(Shared, "k", "y", 1, 1, 80, 2)}
  \cup {W(Own, None, "x", 1, 1, 0, 1)}

A(sees, scopes, budget) ==
  [sees |-> sees, kinds |-> {}, scopes |-> scopes, budget |-> budget]

MCAsks == {A({Shared, Own}, {}, 8), A({Shared}, {"user_global"}, 3)}
=============================================================================
