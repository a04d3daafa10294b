---------------------------- MODULE MCLinkSession ----------------------------
(* What the TLC run of LinkSession explores, and the fairness it assumes. *)
EXTENDS LinkSession

\* The link service and both endpoints keep running and keep greeting; a
\* greeting or a binding sent again and again is received at last.
FairSpec ==
    /\ LinkSpec
    /\ WF_linkVars(LinkTask) /\ WF_linkVars(SatHello) /\ WF_linkVars(GdsHello)
    /\ \A role \in {"gds", "satellite"} :
          SF_linkVars(\E d \in net : d.kind = "HELLO" /\ d.role = role /\ ReceiveHello(d))
    /\ SF_linkVars(\E d \in net : SatBind(d))
    /\ SF_linkVars(\E d \in net : GdsBind(d))
=============================================================================
