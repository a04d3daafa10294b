--------------------------- MODULE ProductRelease ---------------------------
(***************************************************************************)
(* What the ground promises of a product, without frames, epochs, handlers *)
(* or restarts: a product that was asked for is announced, verified,       *)
(* released as one whole directory, completed and listed, in this order,   *)
(* each once, and nothing of it is ever taken back.  A product may stop    *)
(* anywhere on this way.                                                   *)
(***************************************************************************)
EXTENDS Naturals

CONSTANTS Products, Size

VARIABLES
    requested,  \* products some command asked for
    stage,      \* what the ground's table says of each product
    released,   \* the product directories: product -> its chunks
    listed      \* products whose artifacts a client can find

release == <<requested, stage, released, listed>>

WholeOf(p) == [c \in 1..Size[p] |-> p]

Init ==
    /\ requested = {}
    /\ stage = [p \in Products |-> "NONE"]
    /\ released = [p \in {} |-> 0]
    /\ listed = {}

Request(p) ==
    /\ requested' = requested \cup {p}
    /\ UNCHANGED <<stage, released, listed>>

\* The ground learns of a product only when it was asked for.
Announce(p) ==
    /\ p \in requested
    /\ stage[p] = "NONE"
    /\ stage' = [stage EXCEPT ![p] = "RECEIVING"]
    /\ UNCHANGED <<requested, released, listed>>

Verify(p) ==
    /\ p \notin DOMAIN released
    /\ stage[p] = "RECEIVING"
    /\ stage' = [stage EXCEPT ![p] = "VERIFIED"]
    /\ UNCHANGED <<requested, released, listed>>

\* The directory appears in one step, whole, and is not replaced.
Release(p) ==
    /\ p \notin DOMAIN released
    /\ stage[p] = "VERIFIED"
    /\ released' = [q \in DOMAIN released \cup {p} |->
                      IF q = p THEN WholeOf(p) ELSE released[q]]
    /\ UNCHANGED <<requested, stage, listed>>

Complete(p) ==
    /\ p \in DOMAIN released
    /\ stage[p] = "VERIFIED"
    /\ stage' = [stage EXCEPT ![p] = "PUBLISHED"]
    /\ UNCHANGED <<requested, released, listed>>

List(p) ==
    /\ stage[p] = "PUBLISHED"
    /\ listed' = listed \cup {p}
    /\ UNCHANGED <<requested, stage, released>>

Next ==
    \E p \in Products :
        \/ Request(p) \/ Announce(p) \/ Verify(p)
        \/ Release(p) \/ Complete(p) \/ List(p)

Spec == Init /\ [][Next]_release
=============================================================================
