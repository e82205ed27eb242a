-------------------------- MODULE MCSendLifecycle --------------------------
(* SendLifecycle on a small instance: requests of one kind, and the        *)
(* recipients, are interchangeable, so safety runs use their symmetry.     *)
EXTENDS SendLifecycle, TLC

Symmetry ==
    Permutations(Sends) \cup Permutations(Cancels)
        \cup Permutations(Edits) \cup Permutations(Recipients)
=============================================================================
