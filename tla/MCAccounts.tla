----------------------------- MODULE MCAccounts -----------------------------
(* Accounts with requests in flight that are interchangeable.              *)
EXTENDS Accounts, TLC

Requests == Permutations(Req)
=============================================================================
