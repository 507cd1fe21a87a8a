------------------------------ MODULE MCWallet ------------------------------
(* The wallet with few enough users, calls and cents to enumerate. *)
EXTENDS Wallet, TLC

RequestSymmetry == Permutations(Requests)
=============================================================================
