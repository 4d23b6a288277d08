---------------------------- MODULE MCAsyncImage ----------------------------
(* Instances of AsyncImage for TLC. *)
EXTENDS AsyncImage, TLC

CONSTANTS w1, w2, t1, t2

Symmetric == Permutations({w1, w2}) \union Permutations({t1, t2})
WorkerSymmetry == Permutations({w1, w2})

=============================================================================
