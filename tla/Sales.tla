-------------------------------- MODULE Sales --------------------------------
(***************************************************************************)
(* Inventory and Payments on their shared Payment table: sales create the  *)
(* payments that refunds change.                                           *)
(***************************************************************************)
EXTENDS Inventory, Payments

vars == <<payments, inventoryVars, refundVars>>

Init == PaymentsInit /\ InventoryInit /\ PaymentsModuleInit

Next ==
  \/ InventoryNext /\ UNCHANGED refundVars
  \/ PaymentsNext /\ UNCHANGED inventoryVars

Spec == Init /\ [][Next]_vars

TypeOK == InventoryTypeOK /\ PaymentsTypeOK

(* Rows of one business are written for that business only: the requests   *)
(* check the tenant when they look a row up and then write by id alone.    *)
TenantsSeparate ==
  /\ \A t \in transactions : t.businessId = Owner[t.itemId]
  /\ \A p \in PaymentIds : Paid(p) => payments[p].businessId = Owner[payments[p].itemId]
  /\ \A row \in refunds : row.createdFor = payments[row.paymentId].businessId

(* What the requests in flight have read still holds when they write: the  *)
(* columns a sale and a refund rely on are never updated.                  *)
SalesInFlight ==
  \A c \in InventoryCalls :
    calls[c].op = "sell" => calls[c].businessId = Owner[calls[c].itemId]

RefundInFlight(c) ==
  LET call == refunding[c] IN
  /\ call.step # "idle" => call.todo # <<>>
  /\ call.step \in {"create", "mark"} =>
       /\ Paid(Current(c))
       /\ call.businessId = payments[Current(c)].businessId
       /\ 0 < call.amount
       /\ call.amount <= payments[Current(c)].amount
       /\ call.full = (call.amount = payments[Current(c)].amount)
  /\ call.step = "mark" =>
       \E row \in refunds : row.paymentId = Current(c) /\ row.amount = Stored(call.amount)

RefundsInFlight == \A c \in RefundCalls : RefundInFlight(c)

AmountsStored == \A p \in PaymentIds : Stored(payments[p].amount) = payments[p].amount

(* The inductive invariant behind the safety properties of this module *)
SalesInv ==
  /\ TypeOK
  /\ SalesInFlight
  /\ RefundsInFlight
  /\ AmountsStored
  /\ SalesArePaid
  /\ EachRefundWithinPayment
  /\ StatusHasCause
  /\ UnmarkedRefundIsInterrupted
  /\ TenantsSeparate

(* 'Refund amount is invalid': no more is given back than was paid. *)
RefundsWithinPayment ==
  \A p \in PaymentIds :
    MapThenSumSet(LAMBDA row : row.amount, {row \in refunds : row.paymentId = p})
      <= payments[p].amount

(* The inductive invariant of a single slot: the stock that a sale checked *)
(* is still there when it is recorded.                                     *)
SerialInv ==
  /\ StockNeverNegative
  /\ \A c \in InventoryCalls :
       calls[c].op = "sell" =>
         /\ items[calls[c].itemId].state # "unborn"
         /\ items[calls[c].itemId].quantity >= calls[c].quantity
===============================================================================
