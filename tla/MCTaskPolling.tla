--------------------------- MODULE MCTaskPolling ---------------------------
(* Instances of TaskPolling for TLC: tasks are v (video) and s (Suno), passes p1, p2 and *)
(* p3, and u is a request that looks a task up.                                          *)
EXTENDS TaskPolling, TLC

\* Passes are interchangeable.
PassSymmetry == Permutations(Pass)

=============================================================================
