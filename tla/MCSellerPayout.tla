----------------------------- MODULE MCSellerPayout -----------------------------
(* SellerPayout on small instances for TLC.                                      *)
EXTENDS SellerPayout, TLC

(* calls and references of transfers are interchangeable, and so are the accounts *)
Symmetric ==
  Permutations(Clients) \cup Permutations(Stamps) \cup Permutations(Calls)
  \cup Permutations(TransferRefs) \cup Permutations(Accounts)
==================================================================================
