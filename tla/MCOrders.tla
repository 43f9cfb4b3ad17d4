------------------------------- MODULE MCOrders -------------------------------
(***************************************************************************)
(* Orders on a small shop.                                                 *)
(***************************************************************************)
EXTENDS Orders, TLC

CONSTANTS v1, p1

MCProductOf == (v1 :> p1)
MCOneUnit == (v1 :> 1)

RequestSymmetry == Permutations(Requests)
===============================================================================
