-------------------------- MODULE MCReleaseCohort --------------------------
(* Small instances of ReleaseCohort for TLC. *)
EXTENDS ReleaseCohort, TLC

CONSTANTS p1, p2, p3, i1, i2

\* Two runs of release X under one instance ID, one of release Y.
SharedIdOf == (p1 :> "X" @@ p2 :> "X" @@ p3 :> "Y")
SharedInstOf == (p1 :> i1 @@ p2 :> i1 @@ p3 :> i2)
=============================================================================
