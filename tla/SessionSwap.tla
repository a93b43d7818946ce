----------------------------- MODULE SessionSwap -----------------------------
(***************************************************************************)
(* What a recreation promises of the container a session runs on, whatever *)
(* fails: `current` is only ever moved by a swap that was opened durably   *)
(* for that container, at most once per swap, to the container the swap    *)
(* named; a swap is closed with `current` on one of its two ends; and the  *)
(* session can be deleted only with no swap open.                          *)
(***************************************************************************)
EXTENDS Naturals

CONSTANT Containers

VARIABLES current,  \* the session's container, 0 once deleted
          pair      \* <<from, to>> of the open swap, or <<>>

svars == <<current, pair>>

Init == current \in Containers /\ pair = <<>>

Open ==
  /\ pair = <<>> /\ current \in Containers
  /\ \E n \in Containers \ {current} : pair' = <<current, n>>
  /\ UNCHANGED current

Commit == pair # <<>> /\ current = pair[1] /\ current' = pair[2] /\ UNCHANGED pair

Close == pair # <<>> /\ pair' = <<>> /\ UNCHANGED current

Delete == pair = <<>> /\ current' = 0 /\ UNCHANGED pair

Next == Open \/ Commit \/ Close \/ Delete

Spec == Init /\ [][Next]_svars
=============================================================================
