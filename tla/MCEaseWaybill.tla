------------------------------ MODULE MCEaseWaybill ------------------------------
(* EaseWaybill on small instances for TLC.                                       *)
EXTENDS EaseWaybill, TLC

(* requests are interchangeable, and so are references and timestamps *)
Symmetric == Permutations(Clients) \cup Permutations(PaymentRefs) \cup Permutations(Stamps)

(* A bound on the histories: an admin's own hold is followed up only as long as  *)
(* no write has acted on an outdated reading.  What is promised without lost     *)
(* updates is thus checked with every kind of hold, what is promised in spite of *)
(* them with the holds of charges.                                               *)
ManualHold ==
  \/ \E row \in ledger : row.key \in ManualRefs
  \/ \E r \in Reqs : req[r].arg \in ManualRefs

RaceSpec == Init /\ [][Next /\ (NoLostUpdate' \/ ~ManualHold')]_vars
==================================================================================
