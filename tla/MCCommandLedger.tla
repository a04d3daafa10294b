-------------------------- MODULE MCCommandLedger --------------------------
(* What the TLC run of CommandLedger explores. *)
EXTENDS CommandLedger, TLC

\* Random ids and digests are interchangeable.
NameSymmetry == Permutations(Grounds) \cup Permutations(Bodies) \cup Permutations(ClientKeys)
=============================================================================
