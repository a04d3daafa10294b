------------------------- MODULE MCSatellitePayload -------------------------
(* Instances of SatellitePayload for TLC. *)
EXTENDS SatellitePayload, TLC

CONSTANTS j1, j2, c1

\* The one cancel command names the first job.
CancelsFirst == (c1 :> j1)

NoCancels == << >>
=============================================================================
