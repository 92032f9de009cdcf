------------------------------ MODULE MCServer ------------------------------
(* Servers, tokens and clients small enough to check Server.               *)
EXTENDS Server, TLC

(* Two identities of one agent, one grant that runs out, one that may not  *)
(* write, and one of the server's own identity.                            *)
OwnIdentity == [agent |-> "a", workspace |-> "w"]
SomeGrants ==
  {[agent |-> "a", workspace |-> "w", scopes |-> {"read"}, expires |-> None],
   [agent |-> "b", workspace |-> "w", scopes |-> {"read", "write"}, expires |-> 2],
   [agent |-> "b", workspace |-> "v", scopes |-> {"write"}, expires |-> None]}

Symmetry == Permutations(Token) \cup Permutations(Client)
=============================================================================
