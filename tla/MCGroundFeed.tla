---------------------------- MODULE MCGroundFeed ----------------------------
(***************************************************************************)
(* What the TLC run of TelemetryDownlink and of GroundFeed explores. The    *)
(* first ends where the second begins, at an accepted event, and they share *)
(* no state: a behaviour is one of the telemetry path or of the feed.       *)
(***************************************************************************)
EXTENDS TelemetryDownlink, GroundFeed

VARIABLE subject

vars == <<subject, telemetryVars, feedVars>>

Init == subject \in {"telemetry", "feed"} /\ TelemetryInit /\ FeedInit

Next ==
    /\ UNCHANGED subject
    /\ \/ subject = "telemetry" /\ TelemetryNext /\ UNCHANGED feedVars
       \/ subject = "feed" /\ FeedNext /\ UNCHANGED telemetryVars

Feed(A) == subject = "feed" /\ A /\ UNCHANGED <<subject, telemetryVars>>

\* The pump thread and the server's coroutines run, and publication gets the
\* hub's lock when it is free again and again; the page polls every second and
\* handles what it receives.
FairSpec ==
    /\ Init /\ [][Next]_vars
    /\ SF_vars(Feed(PublishEvent)) /\ WF_vars(Feed(CommitEffects))
    /\ WF_vars(Feed(ReadConnect)) /\ WF_vars(Feed(EndConnect))
    /\ WF_vars(Feed(BeginSnapshot("poll"))) /\ WF_vars(Feed(ReadSnapshot("poll")))
    /\ WF_vars(Feed(ReceiveMessage)) /\ WF_vars(Feed(ReceivePoll))
=============================================================================
