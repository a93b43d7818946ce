-------------------------- MODULE MCLifecycleLock ---------------------------
(* Four calls: two that wait, a recreate, which is fail-fast and opens an  *)
(* attempt, and a recreate-resolve, which is exempt from the guard.        *)
EXTENDS LifecycleLock, TLC
=============================================================================
