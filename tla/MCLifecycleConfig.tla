-------------------------- MODULE MCLifecycleConfig --------------------------
(***************************************************************************)
(* An instance of LifecycleConfig small enough for TLC.                    *)
(***************************************************************************)
EXTENDS LifecycleConfig

CONSTANTS p1, p2, r1, r2, i1, i2

MCSources == {[digest |-> i1, isLifecycle |-> TRUE], [digest |-> i2, isLifecycle |-> FALSE]}
=============================================================================
