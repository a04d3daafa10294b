-------------------------- MODULE CommandDelivery --------------------------
(***************************************************************************)
(* What the command path promises its clients, without leases, attempts,   *)
(* contact or telemetry: a submitted command is settled at most once, and  *)
(* it is reported acknowledged only after the satellite has decided it.  A *)
(* command that is reported failed may still have been decided on board.   *)
(***************************************************************************)
CONSTANT Requests

VARIABLES
    status,     \* what the GDS reports for each request
    verdict     \* what the satellite made of it

delivery == <<status, verdict>>

Init ==
    /\ status = [r \in Requests |-> "none"]
    /\ verdict = [r \in Requests |-> "UNSEEN"]

Submit(r) ==
    /\ status[r] = "none"
    /\ status' = [status EXCEPT ![r] = "pending"]
    /\ UNCHANGED verdict

\* The satellite decides a request once, and only one that was submitted.
Decide(r, v) ==
    /\ status[r] # "none"
    /\ verdict[r] = "UNSEEN"
    /\ verdict' = [verdict EXCEPT ![r] = v]
    /\ UNCHANGED status

Acknowledge(r) ==
    /\ status[r] = "pending"
    /\ verdict[r] # "UNSEEN"
    /\ status' = [status EXCEPT ![r] = "acked"]
    /\ UNCHANGED verdict

\* One reconcile, contact loss or migration may give up several at once.
Fail(S) ==
    /\ \A r \in S : status[r] = "pending"
    /\ status' = [r \in Requests |-> IF r \in S THEN "failed" ELSE status[r]]
    /\ UNCHANGED verdict

Next ==
    \/ \E r \in Requests :
          \/ Submit(r)
          \/ \E v \in {"ACCEPTED", "REJECTED"} : Decide(r, v)
          \/ Acknowledge(r)
    \/ \E S \in SUBSET Requests : Fail(S)

Spec == Init /\ [][Next]_delivery
=============================================================================
