----------------------------- MODULE MCEventLog -----------------------------
(* Instances of EventLog for TLC; the bounds are in the .cfg files. A       *)
(* behaviour meets the mishaps of one world.                                *)
EXTENDS EventLog

MCWorlds == {{"append", "global", "rename"}, {"snapshot", "global"},
             {"crash", "snapshot"}, {"crash", "partial"}}
RotateWorlds == {{"crash", "rotation"}}
=============================================================================
