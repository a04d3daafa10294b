-------------------------- MODULE MCCommandOutbox --------------------------
(* What the TLC runs of CommandOutbox explore. *)
EXTENDS CommandOutbox, TLC

CONSTANTS s1, s2

\* The link starts with session s1 and may reconnect once, as s2.
Reconnects == {[gen |-> 1, session |-> s1], [gen |-> 2, session |-> s2]}

\* The link leaves s1 for s2 and nothing of s1 is announced again.
Reconnect == {[gen |-> 2, session |-> s2]}

\* Every dispatcher runs the same code, and so does every spacecraft instance.
ThreadAndInstanceSymmetry == Permutations(Dispatchers) \cup Permutations(Instances)
=============================================================================
