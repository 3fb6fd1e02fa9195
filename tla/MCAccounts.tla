--------------------------------- MODULE MCAccounts --------------------------------
(* Accounts over the small sets of the configurations.                            *)
EXTENDS Accounts
===================================================================================
