----------------------------- MODULE PaymentTable -----------------------------
(***************************************************************************)
(* The Payment table (prisma/schema.prisma, model Payment).  Two services  *)
(* write it: InventoryService.sell inserts rows, PaymentsService.refund    *)
(* changes their status.  Nothing deletes a row.                           *)
(***************************************************************************)
EXTENDS Integers, FiniteSets, Sequences

CONSTANTS
  Businesses,   \* tenants
  Items,        \* ids of inventory items (uuids, never reused)
  PaymentIds    \* 'PAY-xxxxxxxx' references: a sale draws any of them

ASSUME PaymentTableAssumption == Businesses # {} /\ Items # {}

VARIABLE payments   \* payments[p]: the row with id p; status "none": no row

(* Money is counted in tenths of a cent: the requests carry any number of  *)
(* decimals (@IsNumber()), and a Decimal(10, 2) column keeps whole cents,  *)
(* rounded half away from zero.                                            *)
Stored(x) == IF x >= 0 THEN 10 * ((x + 5) \div 10) ELSE -(10 * ((5 - x) \div 10))

PaymentStatuses == {"paid", "partially_refunded", "refunded"}

PaymentRow == [status : PaymentStatuses \cup {"none"},
               businessId : Businesses, itemId : Items, amount : Int]

NoPaymentRow == [status |-> "none", businessId |-> CHOOSE b \in Businesses : TRUE,
                 itemId |-> CHOOSE i \in Items : TRUE, amount |-> 0]

Paid(p) == payments[p].status \in PaymentStatuses

PaymentsInit == payments = [p \in PaymentIds |-> NoPaymentRow]
===============================================================================
