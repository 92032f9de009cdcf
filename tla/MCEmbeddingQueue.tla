-------------------------- MODULE MCEmbeddingQueue --------------------------
(* Instances of EmbeddingQueue for TLC.  A worker that claims holds none,   *)
(* so with a token for every worker and every row one is always free.       *)
EXTENDS EmbeddingQueue, TLC

MCToken == 1 .. Cardinality(Worker) + Cardinality(Rec)

Symmetry == Permutations(Worker) \cup Permutations(Stamp)
=============================================================================
