-------------------------------- MODULE MCOrderDesk --------------------------------
(* OrderDesk over the small sets of the configurations.                              *)
EXTENDS OrderDesk
===================================================================================
