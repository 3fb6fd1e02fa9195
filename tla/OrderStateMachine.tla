---------------------------- MODULE OrderStateMachine ----------------------------
(* The order status table of src/modules/orders/order-state-machine.ts: which   *)
(* status an order may take next, and which contextual role may take it there.  *)
(* DRAFT is left out of OrderStatus on purpose: the table has an entry for it,  *)
(* but create() writes PENDING_BUYER and no other handler writes DRAFT.         *)

OrderStatus == {"PENDING_BUYER", "AWAITING_PAYMENT", "PAID", "SHIPPED",
                "IN_TRANSIT", "DELIVERED", "COMPLETED", "DISPUTED",
                "CANCELLED", "REFUNDED"}

ContextualRole == {"ADMIN", "SELLER", "BUYER", "RIDER"}

Edge(from, to, roles) == [from |-> from, to |-> to, roles |-> roles]

ORDER_STATE_MACHINE ==
  { Edge("PENDING_BUYER",    "AWAITING_PAYMENT", {"BUYER", "ADMIN"}),
    Edge("PENDING_BUYER",    "CANCELLED",        {"SELLER", "BUYER", "ADMIN"}),
    Edge("AWAITING_PAYMENT", "PAID",             {"ADMIN"}),
    Edge("AWAITING_PAYMENT", "CANCELLED",        {"SELLER", "BUYER", "ADMIN"}),
    Edge("PAID",             "SHIPPED",          {"SELLER", "ADMIN"}),
    Edge("PAID",             "REFUNDED",         {"ADMIN"}),
    Edge("SHIPPED",          "IN_TRANSIT",       {"RIDER", "ADMIN"}),
    Edge("IN_TRANSIT",       "DELIVERED",        {"RIDER", "ADMIN"}),
    Edge("DELIVERED",        "COMPLETED",        {"BUYER", "ADMIN"}),
    Edge("DELIVERED",        "DISPUTED",         {"BUYER", "SELLER", "ADMIN"}),
    Edge("DISPUTED",         "COMPLETED",        {"ADMIN"}),
    Edge("DISPUTED",         "REFUNDED",         {"ADMIN"}) }

(* validateTransition throws unless the table has the edge and the role is on it *)
ValidTransition(from, to, role) ==
  \E e \in ORDER_STATE_MACHINE : e.from = from /\ e.to = to /\ role \in e.roles

(* the edge exists, whoever takes it *)
OnTable(from, to) == \E e \in ORDER_STATE_MACHINE : e.from = from /\ e.to = to
=================================================================================
