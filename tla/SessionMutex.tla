---------------------------- MODULE SessionMutex ----------------------------
(***************************************************************************)
(* What the per-session lifecycle lock promises its callers, whatever its  *)
(* queueing: one call at a time is inside; a call that gives up never was; *)
(* nobody enters past a waiting call; and a call that leaves hands the     *)
(* session to a waiting one if there is any.                               *)
(* LifecycleLock (sessionLifecycleLock.ts) is shown to implement it.       *)
(***************************************************************************)
CONSTANT Callers  \* the concurrent calls of SessionLifecycleLock.run

VARIABLE phase    \* where each call is: "out", "waiting" or "in"

Init == phase = [c \in Callers |-> "out"]

Nobody(p) == \A c \in Callers : phase[c] # p

Enter(c) ==
  /\ phase[c] = "out" /\ Nobody("in") /\ Nobody("waiting")
  /\ phase' = [phase EXCEPT ![c] = "in"]

Wait(c) ==
  /\ phase[c] = "out" /\ ~Nobody("in")
  /\ phase' = [phase EXCEPT ![c] = "waiting"]

GiveUp(c) ==
  /\ phase[c] = "waiting"
  /\ phase' = [phase EXCEPT ![c] = "out"]

Leave(c) ==
  /\ phase[c] = "in" /\ Nobody("waiting")
  /\ phase' = [phase EXCEPT ![c] = "out"]

HandOver(c, d) ==
  /\ phase[c] = "in" /\ phase[d] = "waiting"
  /\ phase' = [phase EXCEPT ![c] = "out", ![d] = "in"]

Next ==
  \E c \in Callers :
    \/ Enter(c) \/ Wait(c) \/ GiveUp(c) \/ Leave(c)
    \/ \E d \in Callers : HandOver(c, d)

Spec == Init /\ [][Next]_phase
=============================================================================
