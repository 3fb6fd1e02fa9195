---------------------------------- MODULE Endpoints ----------------------------------
(* Who gets as far as a handler of the API: JwtAuthGuard lets in whoever has a valid      *)
(* token, RolesGuard the accounts with one of the roles that @Roles lists.  A handler      *)
(* without the decorator is open to every account, and decides by the order's row.         *)

Everybody == {"USER", "RIDER", "ADMIN"}

(* The roles the guard asks for, by controller and handler.  SELLER and BUYER, which two   *)
(* lists still name, are no roles of an account any more.                                  *)
OrdersController ==
  [create |-> Everybody, findAll |-> Everybody, findOne |-> Everybody,
   confirmByBuyer |-> Everybody, assignRider |-> {"ADMIN"}, updateStatus |-> Everybody]

DisputesController ==
  [raise |-> {"USER"}, resolve |-> {"ADMIN"}, findOne |-> Everybody,
   findMyDisputes |-> Everybody, findAll |-> {"ADMIN"}]

PaymentsController ==
  [initiate |-> Everybody, getHistory |-> Everybody, verify |-> Everybody,
   getPaymentStatus |-> Everybody, getByOrder |-> Everybody, getByReference |-> Everybody,
   initiateTransfer |-> {"ADMIN"}, getTransfers |-> {"ADMIN", "SELLER"}]

WaybillsController == [scan |-> Everybody]

MessagesController == [list |-> Everybody, send |-> Everybody]

AdminController ==
  [handler \in {"getDashboard", "getUsers", "suspendUser", "unsuspendUser", "getEscrowLedger",
                "getDisputes", "assignRider", "updateOrderStatus", "createRider", "createAdmin",
                "changeUserRole"} |-> {"ADMIN"}]

(* What the pages that act on an order fetch before they show anything                      *)
Fetches(page) ==
  CASE page = "order" -> {OrdersController.findOne, MessagesController.list}
    [] page = "riderOrders" -> {OrdersController.findAll}
    [] page = "riderOrder" -> {OrdersController.findOne}
    [] page = "adminOrders" -> {OrdersController.findAll, AdminController["getUsers"]}
    [] page = "adminDisputes" -> {AdminController["getDisputes"]}
    [] page = "payments" -> {OrdersController.findAll, PaymentsController.getHistory}

(* The handlers a button of theirs can call                                                 *)
Handlers(act) ==
  CASE act.do = "confirm" -> {OrdersController.confirmByBuyer}
    [] act.do = "pay" -> {PaymentsController.initiate}
    [] act.do = "raise" -> {DisputesController.raise}
    [] act.do = "scan" -> {WaybillsController.scan}
    [] act.do = "assign" -> {OrdersController.assignRider}
    [] act.do = "status" -> {OrdersController.updateStatus, AdminController["updateOrderStatus"]}

LetIn(role, act) == \E required \in Handlers(act) : role \in required
===================================================================================
