--------------------------------- MODULE Custody ---------------------------------
(* What the escrow promises about the money of one order, whoever acts on it and *)
(* however many at a time: where the funds are, and what the order says of them. *)
VARIABLES funds,    \* "unpaid", "held", "seller", "buyer", or "astray"
          column    \* the escrow status of the order

custodyVars == <<funds, column>>

CustodyInit == funds = "unpaid" /\ column = "PENDING"

TakeIn ==
  /\ funds = "unpaid" /\ column = "PENDING"
  /\ funds' = "held" /\ column' = "HOLDING"

Freeze ==
  /\ column \in {"PENDING", "HOLDING"}
  /\ column' = "DISPUTED"
  /\ UNCHANGED funds

(* the seller is only paid out of funds nobody disputes *)
PayOut ==
  /\ funds = "held" /\ column = "HOLDING"
  /\ funds' = "seller" /\ column' = "RELEASED"

PayBack ==
  /\ funds = "held" /\ column \in {"HOLDING", "DISPUTED"}
  /\ funds' = "buyer" /\ column' = "REFUNDED"

(* an admin decides a dispute, which books nothing *)
Verdict ==
  /\ column = "DISPUTED"
  /\ column' \in {"RELEASED", "REFUNDED"}
  /\ UNCHANGED funds

(* a write on an outdated reading: nothing is promised from then on *)
GoAstray == funds' = "astray" /\ column' = "astray"

CustodyNext == TakeIn \/ Freeze \/ PayOut \/ PayBack \/ Verdict \/ GoAstray

CustodySpec == CustodyInit /\ [][CustodyNext]_custodyVars
==================================================================================
