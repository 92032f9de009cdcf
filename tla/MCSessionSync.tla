---------------------------- MODULE MCSessionSync ----------------------------
(* Lines with one marker and with two.                                     *)
EXTENDS SessionSync, TLC

CONSTANTS x, y

MCLines == {<<x>>, <<y, x>>}

MCMaxLines == [s \in Session |-> IF s = 1 THEN 2 ELSE 1]

Symmetry == Permutations(Proc)
=============================================================================
