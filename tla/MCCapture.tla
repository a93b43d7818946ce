------------------------------ MODULE MCCapture ------------------------------
\* Instances of Capture for TLC: an API disable and a run of the emergency
\* command (one session or --all) against two operations of the lock, one
\* hook, and one failure or crash; and the overlap alone, without failures.
EXTENDS Capture, TLC

CONSTANTS d1, d2
MCDisables == {d1, d2}
MCKinds == d1 :> {"api"} @@ d2 :> {"cli", "all"}
OneDisable == {d1}
OneKind == d1 :> {"api"}
=============================================================================
