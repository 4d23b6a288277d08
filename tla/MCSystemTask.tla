---------------------------- MODULE MCSystemTask ----------------------------
(* Instances of SystemTask for TLC. *)
EXTENDS SystemTask, TLC

CONSTANTS r1, r2, k1, k2

\* Two keys of one type (video_storage_retry: one key per video task).
KeyTypeVideo == [k \in Key |-> "video_storage_retry"]

\* EveryTaskEnds holds of every behaviour that reaches a state with a lost claim, and
\* lostClaim never shrinks: the liveness run need not look beyond such a state.
NoLostClaim == lostClaim = {}

\* Runners are interchangeable, and so are keys, which are all of one type here.  Init
\* chooses a key for the rows that do not exist yet; no action reads it.
Symmetric == Permutations(Runner) \union Permutations(Key)
=============================================================================
