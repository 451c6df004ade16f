------------------------------ MODULE Inventory ------------------------------
(***************************************************************************)
(* InventoryService: the stock of a business and the sales that draw on it *)
(* (src/modules/inventory/inventory.service.ts).                           *)
(*                                                                         *)
(* A request is an async function.  Between two awaits any other request,  *)
(* of this process or of another one on the same database, may run: every  *)
(* Prisma call is one step here, and $transaction([...]) is one step.  A   *)
(* request that is answered 404 or 400 changes nothing and is not a step.  *)
(* The read-model invalidations at the end of each operation are           *)
(* modelled in ReadCache.                                                  *)
(***************************************************************************)
EXTENDS PaymentTable, FiniteSetsExt

CONSTANTS
  InventoryCalls,   \* slots for requests in flight at the same time
  Owner,            \* Owner[i]: the business whose row item i is
  Quantities,       \* dto.quantity of a sale, @Min(1)
  Levels,           \* dto.quantity of a create or an update, @Min(0)
  Prices            \* prices a client may send (see Stored), of any sign

ASSUME InventoryAssumption ==
  /\ Owner \in [Items -> Businesses]
  /\ Quantities \subseteq Nat \ {0}
  /\ Levels \subseteq Nat
  /\ Prices \subseteq Int

(* A server has finitely many requests in flight, and a quantity fits its  *)
(* integer column.                                                         *)
ASSUME SlotsAssumption ==
  /\ IsFiniteSet(InventoryCalls) /\ InventoryCalls # {}
  /\ \E most \in Quantities : \A q \in Quantities : q <= most

VARIABLES
  items,         \* items[i]: the InventoryItem row i
  transactions,  \* the InventoryTransaction rows
  calls,         \* calls[c]: what the request in slot c holds between two awaits
  baseline       \* history: level last written to item i outright, and the
                 \* payment ids of the sales recorded since

inventoryVars == <<items, transactions, calls, baseline>>

ItemRow == [state : {"unborn", "live", "deleted"}, price : Int, quantity : Int]

Idle == [op |-> "idle"]

SaleCall == [op : {"sell"}, itemId : Items, businessId : Businesses,
             quantity : Quantities, unitPrice : Int]

UpdateCall == [op : {"update"}, itemId : Items, fields : SUBSET {"price", "quantity"},
               price : Prices, quantity : Levels]

RemoveCall == [op : {"remove"}, itemId : Items]

TransactionRow == [itemId : Items, businessId : Businesses, quantity : Quantities,
                   unitPrice : Int, paymentId : PaymentIds]

InventoryInit ==
  /\ items = [i \in Items |-> [state |-> "unborn", price |-> 0, quantity |-> 0]]
  /\ transactions = {}
  /\ calls = [c \in InventoryCalls |-> Idle]
  /\ baseline = [i \in Items |-> [level |-> 0, sales |-> {}]]

-------------------------------------------------------------------------------
(* findFirst({ where: { id, businessId } }): the lookup of get and of sell *)
FoundAnyBusiness(b, i) == items[i].state = "live"
Found(b, i) == items[i].state = "live" /\ Owner[i] = b

StockUnchecked(i, q) == TRUE
EnoughStock(i, q) == items[i].quantity >= q

(* quantity: { decrement: dto.quantity } is evaluated by the database on   *)
(* the row as it is when the transaction commits.                          *)
ClampedAtZero(call) ==
  [items EXCEPT ![call.itemId].quantity = IF @ >= call.quantity THEN @ - call.quantity ELSE 0]
Decremented(call) == [items EXCEPT ![call.itemId].quantity = @ - call.quantity]

SalePaymentAtItemPrice(call) ==
  [status |-> "paid", businessId |-> call.businessId, itemId |-> call.itemId,
   amount |-> Stored(items[call.itemId].price * call.quantity)]
SalePayment(call) ==
  [status |-> "paid", businessId |-> call.businessId, itemId |-> call.itemId,
   amount |-> Stored(call.unitPrice * call.quantity)]

-------------------------------------------------------------------------------
(* create: one insert under the caller's business *)
CreateItem(i, price, level) ==
  /\ items[i].state = "unborn"
  /\ items' = [items EXCEPT ![i] =
       [state |-> "live", price |-> Stored(price), quantity |-> level]]
  /\ baseline' = [baseline EXCEPT ![i] = [level |-> level, sales |-> {}]]
  /\ UNCHANGED <<transactions, calls, payments>>

(* sell up to the $transaction: the stock check, and the unit price, which *)
(* is dto.unitPrice ?? item.price with the price of this read              *)
CheckSale(c, b, i, q) ==
  /\ calls[c] = Idle
  /\ Found(b, i)
  /\ EnoughStock(i, q)
  /\ \E u \in Prices \cup {items[i].price} :
       calls' = [calls EXCEPT ![c] =
                   [op |-> "sell", itemId |-> i, businessId |-> b,
                    quantity |-> q, unitPrice |-> u]]
  /\ UNCHANGED <<items, transactions, payments, baseline>>

(* the $transaction of sell: stock, transaction row and payment row        *)
(* together.  It rolls back (Abandon) when the item is gone or p is taken. *)
RecordSale(c, p) ==
  LET call == calls[c] IN
  /\ call.op = "sell"
  /\ items[call.itemId].state = "live"
  /\ ~Paid(p)
  /\ items' = Decremented(call)
  /\ transactions' = transactions \cup
       {[itemId |-> call.itemId, businessId |-> call.businessId,
         quantity |-> call.quantity, unitPrice |-> Stored(call.unitPrice), paymentId |-> p]}
  /\ payments' = [payments EXCEPT ![p] = SalePayment(call)]
  /\ baseline' = [baseline EXCEPT ![call.itemId].sales = @ \cup {p}]
  /\ calls' = [calls EXCEPT ![c] = Idle]

(* update and remove: the lookup of get, then an update or a delete by id  *)
FindForUpdate(c, b, i, fields, price, level) ==
  /\ calls[c] = Idle
  /\ Found(b, i)
  /\ calls' = [calls EXCEPT ![c] = [op |-> "update", itemId |-> i, fields |-> fields,
                                    price |-> price, quantity |-> level]]
  /\ UNCHANGED <<items, transactions, payments, baseline>>

(* Fields left out of the dto are undefined and keep their value. *)
ApplyUpdate(c) ==
  LET call == calls[c] IN
  /\ call.op = "update"
  /\ items[call.itemId].state = "live"
  /\ items' = [items EXCEPT ![call.itemId] =
       [state |-> "live",
        price |-> IF "price" \in call.fields THEN Stored(call.price) ELSE @.price,
        quantity |-> IF "quantity" \in call.fields THEN call.quantity ELSE @.quantity]]
  /\ baseline' = IF "quantity" \in call.fields
                 THEN [baseline EXCEPT ![call.itemId] =
                         [level |-> call.quantity, sales |-> {}]]
                 ELSE baseline
  /\ calls' = [calls EXCEPT ![c] = Idle]
  /\ UNCHANGED <<transactions, payments>>

FindForRemove(c, b, i) ==
  /\ calls[c] = Idle
  /\ Found(b, i)
  /\ calls' = [calls EXCEPT ![c] = [op |-> "remove", itemId |-> i]]
  /\ UNCHANGED <<items, transactions, payments, baseline>>

ApplyRemove(c) ==
  LET call == calls[c] IN
  /\ call.op = "remove"
  /\ items[call.itemId].state = "live"
  /\ items' = [items EXCEPT ![call.itemId].state = "deleted"]
  /\ calls' = [calls EXCEPT ![c] = Idle]
  /\ UNCHANGED <<transactions, payments, baseline>>

(* The request ends without its write: the process died, the database      *)
(* failed, or the row vanished (P2025) or the payment id exists (P2002).   *)
Abandon(c) ==
  /\ calls[c] # Idle
  /\ calls' = [calls EXCEPT ![c] = Idle]
  /\ UNCHANGED <<items, transactions, payments, baseline>>

InventoryNext ==
  \/ \E i \in Items, price \in Prices, level \in Levels : CreateItem(i, price, level)
  \/ \E c \in InventoryCalls :
       \/ \E b \in Businesses, i \in Items, q \in Quantities : CheckSale(c, b, i, q)
       \/ \E p \in PaymentIds : RecordSale(c, p)
       \/ \E b \in Businesses, i \in Items, fields \in SUBSET {"price", "quantity"},
             price \in Prices, level \in Levels :
               FindForUpdate(c, b, i, fields, price, level)
       \/ ApplyUpdate(c)
       \/ \E b \in Businesses, i \in Items : FindForRemove(c, b, i)
       \/ ApplyRemove(c)
       \/ Abandon(c)

-------------------------------------------------------------------------------
InventoryTypeOK ==
  /\ items \in [Items -> ItemRow]
  /\ transactions \subseteq TransactionRow
  /\ calls \in [InventoryCalls -> {Idle} \cup SaleCall \cup UpdateCall \cup RemoveCall]
  /\ baseline \in [Items -> [level : Levels \cup {0}, sales : SUBSET PaymentIds]]

(* A sale is one event in three tables (inventory.service.ts:161): every   *)
(* transaction row has its payment, of the same item and business and of   *)
(* unitPrice * quantity up to the rounding of both columns; every payment  *)
(* belongs to exactly one transaction row, whatever is refunded, updated,  *)
(* deleted or cut short meanwhile.                                         *)
SalesArePaid ==
  /\ \A t \in transactions :
       /\ Paid(t.paymentId)
       /\ payments[t.paymentId].itemId = t.itemId
       /\ payments[t.paymentId].businessId = t.businessId
       /\ payments[t.paymentId].amount - t.unitPrice * t.quantity
            \in -(5 * (t.quantity + 1)) .. 5 * (t.quantity + 1)
  /\ \A p \in PaymentIds : Paid(p) => \E t \in transactions : t.paymentId = p
  /\ \A t, u \in transactions : t.paymentId = u.paymentId => t = u

(* No sale is lost from the stock: an item holds what was last written to  *)
(* it outright less the quantities of the sales recorded since, however    *)
(* its concurrent sales, updates and failures interleave.                  *)
StockBalanced ==
  \A i \in Items :
    LET since == {t \in transactions : t.paymentId \in baseline[i].sales}
    IN  items[i].quantity
          = baseline[i].level - MapThenSumSet(LAMBDA t : t.quantity, since)

(* The stock check precedes the transaction, so concurrent sales oversell; *)
(* but only the other requests in flight can: stock never falls below      *)
(* minus one largest sale for each of them.                                *)
OversellBounded ==
  \A i \in Items :
    items[i].quantity >= -((Cardinality(InventoryCalls) - 1) * Max(Quantities))

(* What the API promises of InventoryItem.quantity (minimum: 0). *)
StockNeverNegative == \A i \in Items : items[i].quantity >= 0
===============================================================================
