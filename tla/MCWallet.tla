------------------------------- MODULE MCWallet -------------------------------
(***************************************************************************)
(* Wallet with two charges and one withdrawal.                             *)
(***************************************************************************)
EXTENDS Wallet, TLC

MCAdjustments == {-1, 1}

RequestSymmetry == Permutations(Requests)
===============================================================================
