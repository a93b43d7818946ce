----------------------------- MODULE MCRecreate -----------------------------
(* Instances of Recreate for TLC; the bounds are in the .cfg files.         *)
EXTENDS Recreate, TLC
=============================================================================
