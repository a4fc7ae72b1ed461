------------------------------ MODULE MCAccess ------------------------------
(* Small instances of Access for TLC.                                       *)
EXTENDS Access, TLC

CONSTANTS alice, bob, q1, q2, b1, b2

MCNamed == q1 :> b2 @@ q2 :> NoBundle
AdminSymmetry == Permutations({alice, bob})
=============================================================================
