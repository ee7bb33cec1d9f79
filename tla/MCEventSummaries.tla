--------------------------- MODULE MCEventSummaries ---------------------------
(* Four events, three of them in one bucket; the last instant of a bucket   *)
(* and the first of the next are among their timestamps.                    *)
EXTENDS EventSummaries, TLC

CONSTANTS e1, e2, e3, e4

FourTimes == e1 :> 10 @@ e2 :> 19 @@ e3 :> 15 @@ e4 :> 20
FourSeverities == e1 :> "info" @@ e2 :> "critical" @@ e3 :> "info" @@ e4 :> "info"
FourTypes == e1 :> "login" @@ e2 :> "scan" @@ e3 :> "scan" @@ e4 :> "login"

Symmetry == Permutations(Workers)
=============================================================================
