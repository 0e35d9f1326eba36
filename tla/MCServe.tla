------------------------------ MODULE MCServe ------------------------------
(* The TLC run of Serve: two replicas race through Init, serve and stop. *)
EXTENDS Serve

CONSTANTS r1, r2, b1

TwoReplicas == {r1, r2}
OneBucket == {b1}
=============================================================================
