----------------------------- MODULE SalesProofs -----------------------------
(***************************************************************************)
(* What Sales guarantees for any number of requests, items and payments.   *)
(***************************************************************************)
EXTENDS Sales, FiniteSetTheorems, WellFoundedInduction, TLAPS

USE PaymentTableAssumption, InventoryAssumption, PaymentsAssumption
    DEF PaymentTableAssumption, InventoryAssumption, PaymentsAssumption

LEMMA DtoTypes ==
  /\ \A level \in Levels : level \in Int /\ level >= 0
  /\ \A q \in Quantities : q \in Int /\ q > 0
  /\ \A price \in Prices : price \in Int
OBVIOUS

(* What the rounding of a money column does *)
LEMMA StoredInt ==
  ASSUME NEW x \in Int
  PROVE  /\ Stored(x) \in Int
         /\ Stored(Stored(x)) = Stored(x)
         /\ -5 <= Stored(x) - x /\ Stored(x) - x <= 5
BY DEF Stored

LEMMA StoredBounds ==
  ASSUME NEW x \in Int, NEW y \in Int, 0 < x, x <= y, Stored(y) = y
  PROVE  0 <= Stored(x) /\ Stored(x) <= y
BY DEF Stored

(* unitPrice and amount of a sale are rounded each on its own. *)
LEMMA SaleRounding ==
  ASSUME NEW u \in Int, NEW q \in Int, q > 0
  PROVE  Stored(u * q) - Stored(u) * q \in -(5 * (q + 1)) .. 5 * (q + 1)
<1> DEFINE d == Stored(u) - u
           e == Stored(u * q) - u * q
<1>1. u * q \in Int
  OBVIOUS
<1>2. Stored(u) \in Int /\ d \in Int /\ -5 <= d /\ d <= 5
  BY StoredInt
<1>3. Stored(u * q) \in Int /\ e \in Int /\ -5 <= e /\ e <= 5
  BY <1>1, StoredInt
<1>4. Stored(u) * q = u * q + d * q /\ Stored(u * q) = u * q + e
  <2>1. Stored(u) = u + d
    BY <1>2
  <2>2. \A a, b \in Int : (a + b) * q = a * q + b * q
    OBVIOUS
  <2> HIDE DEF d
  <2>3. Stored(u) * q = u * q + d * q
    BY <1>2, <2>1, <2>2
  <2> QED
    BY <1>1, <1>3, <2>3
<1> HIDE DEF d, e
<1>5. d * q \in Int /\ -5 * q <= d * q /\ d * q <= 5 * q
  BY <1>2
<1>6. Stored(u * q) - Stored(u) * q = e - d * q
  BY <1>1, <1>2, <1>3, <1>4, <1>5
<1> QED
  BY <1>3, <1>5, <1>6

LEMMA InitInv == Init => SalesInv
<1> SUFFICES ASSUME Init PROVE SalesInv
  OBVIOUS
<1> USE DEF Init, PaymentsInit, InventoryInit, PaymentsModuleInit
<1>1. NoPaymentRow \in PaymentRow /\ NoPaymentRow.status = "none"
  BY DEF NoPaymentRow, PaymentRow, PaymentStatuses
<1>2. IdleRefund \in RefundCall /\ IdleRefund.step = "idle"
  BY DEF IdleRefund, RefundCall
<1>3. InventoryTypeOK
  BY DEF InventoryTypeOK, ItemRow, Idle
<1>4. PaymentsTypeOK
  BY <1>1, <1>2 DEF PaymentsTypeOK
<1>5. \A p \in PaymentIds : ~Paid(p) /\ payments[p].status = "none"
  BY <1>1 DEF Paid, PaymentStatuses
<1>6. SalesInFlight /\ RefundsInFlight
  BY <1>2 DEF SalesInFlight, RefundsInFlight, RefundInFlight, Idle
<1>7. SalesArePaid /\ EachRefundWithinPayment /\ StatusHasCause
      /\ UnmarkedRefundIsInterrupted /\ TenantsSeparate
  BY <1>5 DEF SalesArePaid, EachRefundWithinPayment, StatusHasCause,
              UnmarkedRefundIsInterrupted, TenantsSeparate
<1>8. AmountsStored
  BY DEF AmountsStored, NoPaymentRow, Stored
<1> QED
  BY <1>3, <1>4, <1>6, <1>7, <1>8 DEF SalesInv, TypeOK

-------------------------------------------------------------------------------
(* A step that leaves payments, transactions and refunds alone only has to *)
(* keep the inventory tables well typed and its own requests in order.     *)
LEMMA QuietStep ==
  ASSUME SalesInv, UNCHANGED <<payments, transactions, refundVars>>,
         InventoryTypeOK', SalesInFlight'
  PROVE  SalesInv'
<1> USE DEF refundVars
<1>1. TypeOK'
  BY DEF SalesInv, TypeOK, PaymentsTypeOK
<1>2. RefundsInFlight'
  BY DEF SalesInv, RefundsInFlight, RefundInFlight, Paid, Current
<1>3. SalesArePaid' /\ EachRefundWithinPayment' /\ StatusHasCause' /\ AmountsStored'
  BY DEF SalesInv, SalesArePaid, EachRefundWithinPayment, StatusHasCause, AmountsStored, Paid
<1>4. UnmarkedRefundIsInterrupted' /\ TenantsSeparate'
  BY DEF SalesInv, UnmarkedRefundIsInterrupted, TenantsSeparate, Paid, Current
<1> QED
  BY <1>1, <1>2, <1>3, <1>4 DEF SalesInv

LEMMA CreateItemInv ==
  ASSUME SalesInv, NEW i \in Items, NEW price \in Prices, NEW level \in Levels,
         CreateItem(i, price, level), UNCHANGED refundVars
  PROVE  SalesInv'
<1> USE DEF CreateItem
<1>1. InventoryTypeOK'
  <2>1. Stored(price) \in Int /\ level \in Int
    BY DtoTypes, StoredInt
  <2> QED
    BY <2>1 DEF SalesInv, TypeOK, InventoryTypeOK, ItemRow
<1>2. SalesInFlight'
  BY DEF SalesInv, SalesInFlight
<1> QED
  BY <1>1, <1>2, QuietStep

LEMMA CheckSaleInv ==
  ASSUME SalesInv, NEW c \in InventoryCalls, NEW b \in Businesses, NEW i \in Items,
         NEW q \in Quantities, CheckSale(c, b, i, q), UNCHANGED refundVars
  PROVE  SalesInv'
<1> PICK u \in Prices \cup {items[i].price} :
      calls' = [calls EXCEPT ![c] = [op |-> "sell", itemId |-> i, businessId |-> b,
                                     quantity |-> q, unitPrice |-> u]]
  BY DEF CheckSale
<1>1. u \in Int
  BY DEF SalesInv, TypeOK, InventoryTypeOK, ItemRow
<1>2. InventoryTypeOK'
  BY <1>1 DEF CheckSale, SalesInv, TypeOK, InventoryTypeOK, SaleCall
<1>3. SalesInFlight'
  BY DEF CheckSale, Found, SalesInv, SalesInFlight, TypeOK, InventoryTypeOK
<1> QED
  BY <1>2, <1>3, QuietStep DEF CheckSale

LEMMA FindForUpdateInv ==
  ASSUME SalesInv, NEW c \in InventoryCalls, NEW b \in Businesses, NEW i \in Items,
         NEW fields \in SUBSET {"price", "quantity"}, NEW price \in Prices,
         NEW level \in Levels, FindForUpdate(c, b, i, fields, price, level),
         UNCHANGED refundVars
  PROVE  SalesInv'
<1> USE DEF FindForUpdate
<1>1. InventoryTypeOK'
  BY DEF SalesInv, TypeOK, InventoryTypeOK, UpdateCall
<1>2. SalesInFlight'
  BY DEF SalesInv, SalesInFlight, TypeOK, InventoryTypeOK
<1> QED
  BY <1>1, <1>2, QuietStep

LEMMA ApplyUpdateInv ==
  ASSUME SalesInv, NEW c \in InventoryCalls, ApplyUpdate(c), UNCHANGED refundVars
  PROVE  SalesInv'
<1>1. calls[c] \in UpdateCall
  BY DEF ApplyUpdate, SalesInv, TypeOK, InventoryTypeOK, Idle, SaleCall, RemoveCall, UpdateCall
<1>2. InventoryTypeOK'
  <2>1. items \in [Items -> ItemRow] /\ calls[c].itemId \in Items
    BY <1>1 DEF SalesInv, TypeOK, InventoryTypeOK, UpdateCall
  <2>2. Stored(calls[c].price) \in Int /\ calls[c].quantity \in Int
    BY <1>1, DtoTypes, StoredInt DEF UpdateCall
  <2>3. items[calls[c].itemId].price \in Int /\ items[calls[c].itemId].quantity \in Int
    BY <2>1 DEF ItemRow
  <2>4. PICK price \in Int, level \in Int :
          items' = [items EXCEPT ![calls[c].itemId] =
                      [state |-> "live", price |-> price, quantity |-> level]]
    BY <2>2, <2>3 DEF ApplyUpdate
  <2>5. items' \in [Items -> ItemRow]
    BY <2>1, <2>4 DEF ItemRow
  <2>6. baseline' \in [Items -> [level : Levels \cup {0}, sales : SUBSET PaymentIds]]
    BY <1>1 DEF SalesInv, TypeOK, InventoryTypeOK, UpdateCall, ApplyUpdate
  <2> QED
    BY <2>5, <2>6 DEF SalesInv, TypeOK, InventoryTypeOK, ApplyUpdate
<1>3. SalesInFlight'
  BY DEF SalesInv, SalesInFlight, TypeOK, InventoryTypeOK, Idle, ApplyUpdate
<1> QED
  BY <1>2, <1>3, QuietStep DEF ApplyUpdate

LEMMA RemoveInv ==
  ASSUME SalesInv, NEW c \in InventoryCalls, UNCHANGED refundVars,
         \/ \E b \in Businesses, i \in Items : FindForRemove(c, b, i)
         \/ ApplyRemove(c)
         \/ Abandon(c)
  PROVE  SalesInv'
<1>1. InventoryTypeOK' /\ SalesInFlight'
  <2>1. CASE \E b \in Businesses, i \in Items : FindForRemove(c, b, i)
    BY <2>1 DEF FindForRemove, SalesInv, SalesInFlight, TypeOK, InventoryTypeOK, RemoveCall
  <2>2. CASE ApplyRemove(c)
    <3>1. calls[c] \in RemoveCall
      BY <2>2 DEF ApplyRemove, SalesInv, TypeOK, InventoryTypeOK, Idle, SaleCall,
                  RemoveCall, UpdateCall
    <3> QED
      BY <2>2, <3>1 DEF ApplyRemove, SalesInv, SalesInFlight, TypeOK, InventoryTypeOK,
                        ItemRow, RemoveCall, Idle
  <2>3. CASE Abandon(c)
    BY <2>3 DEF Abandon, SalesInv, SalesInFlight, TypeOK, InventoryTypeOK, Idle
  <2> QED
    BY <2>1, <2>2, <2>3
<1>2. UNCHANGED <<payments, transactions>>
  BY DEF FindForRemove, ApplyRemove, Abandon
<1> QED
  BY <1>1, <1>2, QuietStep

(* The one inventory step that writes transactions and payments.  It only  *)
(* adds a payment, so everything said of the payments there were remains.  *)
LEMMA RecordSaleInv ==
  ASSUME SalesInv, NEW c \in InventoryCalls, NEW p \in PaymentIds,
         RecordSale(c, p), UNCHANGED refundVars
  PROVE  SalesInv'
<1> DEFINE sale == [itemId |-> calls[c].itemId, businessId |-> calls[c].businessId,
                    quantity |-> calls[c].quantity, unitPrice |-> Stored(calls[c].unitPrice),
                    paymentId |-> p]
<1>1. calls[c] \in SaleCall
  BY DEF RecordSale, SalesInv, TypeOK, InventoryTypeOK, Idle, SaleCall, RemoveCall, UpdateCall
<1>2. calls[c].itemId \in Items /\ calls[c].businessId \in Businesses
      /\ calls[c].quantity \in Quantities /\ calls[c].quantity \in Int
      /\ calls[c].quantity > 0 /\ calls[c].unitPrice \in Int
      /\ Stored(calls[c].unitPrice) \in Int
  BY <1>1, DtoTypes, StoredInt DEF SaleCall
<1>3. SalePayment(calls[c]) \in PaymentRow /\ SalePayment(calls[c]).status = "paid"
      /\ SalePayment(calls[c]).itemId = calls[c].itemId
      /\ SalePayment(calls[c]).businessId = calls[c].businessId
      /\ SalePayment(calls[c]).amount = Stored(calls[c].unitPrice * calls[c].quantity)
      /\ Stored(SalePayment(calls[c]).amount) = SalePayment(calls[c]).amount
  <2>1. calls[c].unitPrice * calls[c].quantity \in Int
    BY <1>2
  <2>2. Stored(calls[c].unitPrice * calls[c].quantity) \in Int
        /\ Stored(Stored(calls[c].unitPrice * calls[c].quantity))
             = Stored(calls[c].unitPrice * calls[c].quantity)
    BY <2>1, StoredInt
  <2> QED
    BY <1>2, <2>2 DEF SalePayment, PaymentRow, PaymentStatuses
<1>4. payments' = [payments EXCEPT ![p] = SalePayment(calls[c])]
      /\ transactions' = transactions \cup {sale} /\ ~Paid(p)
      /\ refunds' = refunds /\ refunding' = refunding /\ interrupted' = interrupted
  BY DEF RecordSale, refundVars
<1>5. payments \in [PaymentIds -> PaymentRow]
  BY DEF SalesInv, TypeOK, PaymentsTypeOK
<1>6. \A q \in PaymentIds : payments'[q] = IF q = p THEN SalePayment(calls[c]) ELSE payments[q]
  BY <1>4, <1>5
<1>7. Paid(p)' /\ \A q \in PaymentIds : Paid(q) => Paid(q)' /\ payments'[q] = payments[q]
  BY <1>3, <1>4, <1>6 DEF Paid, PaymentStatuses
<1>8. TypeOK'
  <2>1. PaymentsTypeOK'
    BY <1>3, <1>4, <1>5 DEF SalesInv, TypeOK, PaymentsTypeOK
  <2>2. sale \in TransactionRow
    BY <1>2 DEF TransactionRow
  <2>3. items' \in [Items -> ItemRow]
    <3>1. items \in [Items -> ItemRow]
      BY DEF SalesInv, TypeOK, InventoryTypeOK
    <3>2. items[calls[c].itemId].quantity - calls[c].quantity \in Int
      BY <1>2, <3>1 DEF ItemRow
    <3> QED
      BY <1>2, <3>1, <3>2 DEF RecordSale, Decremented, ItemRow
  <2>4. baseline' \in [Items -> [level : Levels \cup {0}, sales : SUBSET PaymentIds]]
    BY <1>2 DEF RecordSale, SalesInv, TypeOK, InventoryTypeOK
  <2>5. InventoryTypeOK'
    BY <1>4, <2>2, <2>3, <2>4 DEF RecordSale, SalesInv, TypeOK, InventoryTypeOK
  <2> QED
    BY <2>1, <2>5 DEF TypeOK
<1>9. SalesInFlight'
  BY DEF RecordSale, SalesInv, SalesInFlight, TypeOK, InventoryTypeOK, Idle
<1>10. \A d \in RefundCalls : refunding[d].step \in {"create", "mark"} =>
         Current(d) \in PaymentIds /\ Paid(Current(d))
  <2> SUFFICES ASSUME NEW d \in RefundCalls, refunding[d].step \in {"create", "mark"}
               PROVE  Current(d) \in PaymentIds /\ Paid(Current(d))
    OBVIOUS
  <2>1. refunding[d].todo \in Seq(PaymentIds) /\ refunding[d].todo # <<>>
    BY DEF SalesInv, TypeOK, PaymentsTypeOK, RefundCall, RefundsInFlight, RefundInFlight
  <2> QED
    BY <2>1 DEF SalesInv, RefundsInFlight, RefundInFlight, Current
<1>11. RefundsInFlight'
  BY <1>4, <1>7, <1>10 DEF SalesInv, RefundsInFlight, RefundInFlight, Current
<1>12. SalesArePaid'
  <2>1. \A t \in transactions : t.paymentId \in PaymentIds /\ t.paymentId # p
    BY <1>4 DEF SalesInv, SalesArePaid, TypeOK, InventoryTypeOK, TransactionRow
  <2>2. \A t \in transactions' :
          /\ Paid(t.paymentId)'
          /\ payments'[t.paymentId].itemId = t.itemId
          /\ payments'[t.paymentId].businessId = t.businessId
          /\ payments'[t.paymentId].amount - t.unitPrice * t.quantity
               \in -(5 * (t.quantity + 1)) .. 5 * (t.quantity + 1)
    <3> SUFFICES ASSUME NEW t \in transactions'
                 PROVE  /\ Paid(t.paymentId)'
                        /\ payments'[t.paymentId].itemId = t.itemId
                        /\ payments'[t.paymentId].businessId = t.businessId
                        /\ payments'[t.paymentId].amount - t.unitPrice * t.quantity
                             \in -(5 * (t.quantity + 1)) .. 5 * (t.quantity + 1)
      OBVIOUS
    <3>1. CASE t = sale
      <4>1. payments'[p] = SalePayment(calls[c])
        BY <1>6
      <4>2. Stored(calls[c].unitPrice * calls[c].quantity)
              - Stored(calls[c].unitPrice) * calls[c].quantity
              \in -(5 * (calls[c].quantity + 1)) .. 5 * (calls[c].quantity + 1)
        BY <1>2, SaleRounding
      <4> QED
        BY <1>3, <1>7, <3>1, <4>1, <4>2
    <3>2. CASE t \in transactions
      <4>1. Paid(t.paymentId) /\ t.paymentId \in PaymentIds
            /\ payments'[t.paymentId] = payments[t.paymentId]
        BY <1>7, <2>1, <3>2 DEF SalesInv, SalesArePaid
      <4> QED
        BY <1>7, <3>2, <4>1 DEF SalesInv, SalesArePaid
    <3> QED
      BY <1>4, <3>1, <3>2
  <2>3. \A q \in PaymentIds : Paid(q)' => \E t \in transactions' : t.paymentId = q
    <3> SUFFICES ASSUME NEW q \in PaymentIds, Paid(q)'
                 PROVE  \E t \in transactions' : t.paymentId = q
      OBVIOUS
    <3>1. CASE q = p
      <4>1. sale \in transactions' /\ sale.paymentId = p
        BY <1>4
      <4> QED
        BY <3>1, <4>1
    <3>2. CASE q # p
      <4>1. Paid(q)
        BY <1>6, <3>2 DEF Paid
      <4> QED
        BY <1>4, <4>1 DEF SalesInv, SalesArePaid
    <3> QED
      BY <3>1, <3>2
  <2>4. \A t, u \in transactions' : t.paymentId = u.paymentId => t = u
    BY <1>4, <2>1 DEF SalesInv, SalesArePaid
  <2> QED
    BY <2>2, <2>3, <2>4 DEF SalesArePaid
<1>13. \A row \in refunds : row.paymentId \in PaymentIds /\ Paid(row.paymentId)
  BY DEF SalesInv, TypeOK, PaymentsTypeOK, RefundRow, EachRefundWithinPayment
<1>14. EachRefundWithinPayment' /\ UnmarkedRefundIsInterrupted'
  BY <1>4, <1>7, <1>13 DEF SalesInv, EachRefundWithinPayment, UnmarkedRefundIsInterrupted,
                           Current
<1>15. StatusHasCause'
  BY <1>3, <1>4, <1>6 DEF SalesInv, StatusHasCause
<1>16. TenantsSeparate'
  <2>1. calls[c].businessId = Owner[calls[c].itemId]
    BY DEF RecordSale, SalesInv, SalesInFlight
  <2>2. \A q \in PaymentIds : Paid(q)' => payments'[q].businessId = Owner[payments'[q].itemId]
    BY <1>3, <1>6, <2>1 DEF SalesInv, TenantsSeparate, Paid
  <2> QED
    BY <1>4, <1>7, <1>13, <2>1, <2>2 DEF SalesInv, TenantsSeparate
<1>17. AmountsStored'
  BY <1>3, <1>6 DEF SalesInv, AmountsStored
<1> QED
  BY <1>8, <1>9, <1>11, <1>12, <1>14, <1>15, <1>16, <1>17 DEF SalesInv

-------------------------------------------------------------------------------
(* A step of a refund that leaves the payments and the refund rows alone.  *)
LEMMA RefundReadInv ==
  ASSUME SalesInv, UNCHANGED <<payments, refunds, inventoryVars>>,
         PaymentsTypeOK', RefundsInFlight', UnmarkedRefundIsInterrupted'
  PROVE  SalesInv'
<1> USE DEF inventoryVars
<1>1. TypeOK' /\ SalesInFlight'
  BY DEF SalesInv, TypeOK, InventoryTypeOK, SalesInFlight
<1>2. SalesArePaid' /\ EachRefundWithinPayment' /\ StatusHasCause' /\ TenantsSeparate'
      /\ AmountsStored'
  BY DEF SalesInv, SalesArePaid, EachRefundWithinPayment, StatusHasCause,
         TenantsSeparate, AmountsStored, Paid
<1> QED
  BY <1>1, <1>2 DEF SalesInv

(* After NextInBatch slot c holds no amount: it is idle or about to read.  *)
LEMMA NextInBatchIdles ==
  ASSUME NEW c \in RefundCalls, refunding \in [RefundCalls -> RefundCall],
         refunding[c].todo # <<>>, NextInBatch(c)
  PROVE  /\ refunding' \in [RefundCalls -> RefundCall]
         /\ refunding'[c].step \in {"idle", "find"}
         /\ refunding'[c].step # "idle" => refunding'[c].todo # <<>>
         /\ \A d \in RefundCalls : d # c => refunding'[d] = refunding[d]
<1> DEFINE call == refunding[c]
<1>1. call \in RefundCall
  OBVIOUS
<1>2. Tail(call.todo) \in Seq(PaymentIds)
  BY <1>1 DEF RefundCall
<1>3. IdleRefund \in RefundCall /\ IdleRefund.step = "idle"
  BY DEF IdleRefund, RefundCall
<1>4. CASE Tail(call.todo) = <<>>
  <2>1. refunding' = [refunding EXCEPT ![c] = IdleRefund]
    BY <1>4 DEF NextInBatch
  <2> QED
    BY <1>3, <2>1
<1>5. CASE Tail(call.todo) # <<>>
  <2> DEFINE next == [call EXCEPT !.step = "find", !.todo = Tail(call.todo)]
  <2>1. refunding' = [refunding EXCEPT ![c] = next]
    BY <1>5 DEF NextInBatch
  <2>2. next \in RefundCall /\ next.step = "find" /\ next.todo = Tail(call.todo)
    BY <1>1, <1>2 DEF RefundCall
  <2> QED
    BY <1>5, <2>1, <2>2
<1> QED
  BY <1>4, <1>5

LEMMA CurrentIsPayment ==
  ASSUME SalesInv, NEW c \in RefundCalls, refunding[c].step # "idle"
  PROVE  refunding[c].todo # <<>> /\ Current(c) \in PaymentIds
<1>1. refunding[c].todo \in Seq(PaymentIds) /\ refunding[c].todo # <<>>
  BY DEF SalesInv, TypeOK, PaymentsTypeOK, RefundCall, RefundsInFlight, RefundInFlight
<1> QED
  BY <1>1 DEF Current

LEMMA StartRefundInv ==
  ASSUME SalesInv, NEW c \in RefundCalls, NEW b \in Businesses,
         NEW ids \in Seq(PaymentIds) \ {<<>>}, NEW asked \in Amounts \cup {Whole},
         StartRefund(c, b, ids, asked), UNCHANGED inventoryVars
  PROVE  SalesInv'
<1> USE DEF StartRefund
<1>1. PaymentsTypeOK'
  BY DEF SalesInv, TypeOK, PaymentsTypeOK, RefundCall
<1>2. \A d \in RefundCalls : refunding[d].step = "mark" => refunding'[d] = refunding[d]
  BY DEF SalesInv, TypeOK, PaymentsTypeOK
<1>3. RefundsInFlight'
  BY DEF SalesInv, RefundsInFlight, RefundInFlight, TypeOK, PaymentsTypeOK, Current, Paid
<1>4. UnmarkedRefundIsInterrupted'
  BY <1>2 DEF SalesInv, UnmarkedRefundIsInterrupted, Current
<1> QED
  BY <1>1, <1>3, <1>4, RefundReadInv

LEMMA AcceptRefundInv ==
  ASSUME SalesInv, NEW c \in RefundCalls, AcceptRefund(c), UNCHANGED inventoryVars
  PROVE  SalesInv'
<1> DEFINE p == Current(c)
           amount == RefundAmount(refunding[c].asked, p)
<1>1. refunding \in [RefundCalls -> RefundCall] /\ payments \in [PaymentIds -> PaymentRow]
  BY DEF SalesInv, TypeOK, PaymentsTypeOK
<1>2. p \in PaymentIds /\ refunding[c].todo # <<>>
  BY CurrentIsPayment DEF AcceptRefund
<1>3. amount \in Int
  BY <1>1, <1>2 DEF RefundAmount, RefundCall, PaymentRow
<1>4. Paid(p) /\ payments[p].businessId = refunding[c].businessId
      /\ 0 < amount /\ amount <= payments[p].amount
  BY <1>1, <1>2, <1>3 DEF AcceptRefund, FindPayment, AmountValid, PaymentRow
<1> DEFINE next == [refunding[c] EXCEPT !.step = "create", !.amount = amount,
                                        !.full = (amount = payments[p].amount)]
<1>5. refunding' = [refunding EXCEPT ![c] = next]
      /\ UNCHANGED <<refunds, interrupted, payments>> /\ refunding[c].step = "find"
  BY DEF AcceptRefund
<1>6. next \in RefundCall /\ next.step = "create" /\ next.amount = amount
      /\ next.todo = refunding[c].todo /\ next.businessId = refunding[c].businessId
      /\ next.full = (amount = payments[p].amount)
  BY <1>1, <1>3 DEF RefundCall
<1> HIDE DEF next
<1>7. PaymentsTypeOK'
  BY <1>1, <1>5, <1>6 DEF SalesInv, TypeOK, PaymentsTypeOK
<1>8. RefundsInFlight'
  <2>1. refunding'[c] = next /\ \A d \in RefundCalls : d # c => refunding'[d] = refunding[d]
    BY <1>1, <1>5
  <2> SUFFICES ASSUME NEW d \in RefundCalls PROVE RefundInFlight(d)'
    BY DEF RefundsInFlight
  <2>2. CASE d = c
    BY <1>2, <1>4, <1>5, <1>6, <2>1, <2>2 DEF RefundInFlight, Current, Paid
  <2>3. CASE d # c
    BY <1>5, <2>1, <2>3 DEF SalesInv, RefundsInFlight, RefundInFlight, Current, Paid
  <2> QED
    BY <2>2, <2>3
<1>9. UnmarkedRefundIsInterrupted'
  BY <1>5, <1>6 DEF SalesInv, UnmarkedRefundIsInterrupted, Current
<1> QED
  BY <1>5, <1>7, <1>8, <1>9, RefundReadInv

(* RejectRefund, StepThrows and RefundCrashes: slot c moves on or ends, and *)
(* a payment it leaves with an unmarked refund is recorded as interrupted.  *)
LEMMA MoveOnInv ==
  ASSUME SalesInv, NEW c \in RefundCalls, refunding[c].step # "idle",
         NextInBatch(c) \/ refunding' = [refunding EXCEPT ![c] = IdleRefund],
         UNCHANGED <<payments, refunds, inventoryVars>>,
         interrupted \subseteq interrupted', interrupted' \subseteq PaymentIds,
         refunding[c].step = "mark" => Current(c) \in interrupted'
  PROVE  SalesInv'
<1>1. refunding \in [RefundCalls -> RefundCall] /\ refunding[c].todo # <<>>
  BY CurrentIsPayment DEF SalesInv, TypeOK, PaymentsTypeOK
<1>2. IdleRefund \in RefundCall /\ IdleRefund.step = "idle"
  BY DEF IdleRefund, RefundCall
<1>3. /\ refunding' \in [RefundCalls -> RefundCall]
      /\ refunding'[c].step \in {"idle", "find"}
      /\ refunding'[c].step # "idle" => refunding'[c].todo # <<>>
      /\ \A d \in RefundCalls : d # c => refunding'[d] = refunding[d]
  BY <1>1, <1>2, NextInBatchIdles
<1>4. PaymentsTypeOK'
  BY <1>3 DEF SalesInv, TypeOK, PaymentsTypeOK
<1>5. RefundsInFlight'
  <2> SUFFICES ASSUME NEW d \in RefundCalls PROVE RefundInFlight(d)'
    BY DEF RefundsInFlight
  <2>1. CASE d = c
    BY <1>3, <2>1 DEF RefundInFlight
  <2>2. CASE d # c
    BY <1>3, <2>2 DEF SalesInv, RefundsInFlight, RefundInFlight, Current, Paid
  <2> QED
    BY <2>1, <2>2
<1>6. UnmarkedRefundIsInterrupted'
  BY <1>3 DEF SalesInv, UnmarkedRefundIsInterrupted, Current
<1> QED
  BY <1>4, <1>5, <1>6, RefundReadInv

LEMMA CreateRefundInv ==
  ASSUME SalesInv, NEW c \in RefundCalls, NEW r \in RefundIds, CreateRefund(c, r),
         UNCHANGED inventoryVars
  PROVE  SalesInv'
<1> DEFINE new == [id |-> r, paymentId |-> Current(c),
                   amount |-> Stored(refunding[c].amount),
                   createdFor |-> refunding[c].businessId]
           next == [refunding[c] EXCEPT !.step = "mark"]
<1>1. refunding \in [RefundCalls -> RefundCall] /\ refunding[c] \in RefundCall
  BY DEF SalesInv, TypeOK, PaymentsTypeOK
<1>2. Current(c) \in PaymentIds
  BY CurrentIsPayment DEF CreateRefund
<1>3. new \in RefundRow /\ new.paymentId = Current(c)
      /\ new.amount = Stored(refunding[c].amount)
      /\ new.createdFor = refunding[c].businessId
  <2>1. refunding[c].amount \in Int /\ refunding[c].businessId \in Businesses
    BY <1>1 DEF RefundCall
  <2>2. Stored(refunding[c].amount) \in Int
    BY <2>1, StoredInt
  <2> QED
    BY <1>2, <2>1, <2>2 DEF RefundRow
<1>4. next \in RefundCall /\ next.step = "mark" /\ next.todo = refunding[c].todo
      /\ next.amount = refunding[c].amount /\ next.businessId = refunding[c].businessId
      /\ next.full = refunding[c].full
  BY <1>1 DEF RefundCall
<1>5. refunds' = refunds \cup {new} /\ refunding' = [refunding EXCEPT ![c].step = "mark"]
      /\ UNCHANGED <<interrupted, payments>> /\ refunding[c].step = "create"
  BY DEF CreateRefund
<1> HIDE DEF new
<1>6. refunding'[c] = next /\ \A d \in RefundCalls : d # c => refunding'[d] = refunding[d]
  BY <1>1, <1>5
<1> HIDE DEF next
<1>7. RefundInFlight(c)
  BY DEF SalesInv, RefundsInFlight
<1>8. Paid(Current(c)) /\ refunding[c].businessId = payments[Current(c)].businessId
      /\ 0 < refunding[c].amount /\ refunding[c].amount <= payments[Current(c)].amount
  BY <1>5, <1>7 DEF RefundInFlight
<1>9. TypeOK' /\ SalesInFlight'
  BY <1>1, <1>3, <1>5 DEF SalesInv, TypeOK, PaymentsTypeOK, InventoryTypeOK, RefundCall,
                          SalesInFlight, inventoryVars
<1>10. RefundsInFlight'
  <2> SUFFICES ASSUME NEW d \in RefundCalls PROVE RefundInFlight(d)'
    BY DEF RefundsInFlight
  <2>1. CASE d = c
    BY <1>3, <1>4, <1>5, <1>6, <1>7, <2>1 DEF RefundInFlight, Current, Paid
  <2>2. CASE d # c
    BY <1>5, <1>6, <2>2 DEF SalesInv, RefundsInFlight, RefundInFlight, Current, Paid
  <2> QED
    BY <2>1, <2>2
<1>11. SalesArePaid' /\ EachRefundWithinPayment' /\ StatusHasCause' /\ TenantsSeparate'
  <2>1. SalesArePaid'
    BY <1>5 DEF SalesInv, SalesArePaid, Paid, inventoryVars
  <2>2. EachRefundWithinPayment'
    <3>1. refunding[c].amount \in Int /\ payments[Current(c)].amount \in Int
      BY <1>1, <1>2 DEF RefundCall, SalesInv, TypeOK, PaymentsTypeOK, PaymentRow
    <3>2. Stored(payments[Current(c)].amount) = payments[Current(c)].amount
      BY <1>2 DEF SalesInv, AmountsStored
    <3>3. 0 <= new.amount /\ new.amount <= payments[Current(c)].amount
      BY <1>3, <1>8, <3>1, <3>2, StoredBounds
    <3> QED
      BY <1>3, <1>5, <1>8, <3>3 DEF SalesInv, EachRefundWithinPayment, Paid
  <2>3. StatusHasCause'
    BY <1>5 DEF SalesInv, StatusHasCause
  <2>4. TenantsSeparate'
    BY <1>3, <1>5, <1>8 DEF SalesInv, TenantsSeparate, Paid, inventoryVars
  <2> QED
    BY <2>1, <2>2, <2>3, <2>4
<1>12. AmountsStored'
  BY <1>5 DEF SalesInv, AmountsStored
<1>13. UnmarkedRefundIsInterrupted'
  <2> SUFFICES ASSUME NEW row \in refunds', payments'[row.paymentId].status = "paid",
                      row.paymentId \notin interrupted'
               PROVE  (\E d \in RefundCalls : refunding[d].step = "mark"
                                             /\ Current(d) = row.paymentId)'
    BY DEF UnmarkedRefundIsInterrupted
  <2>1. CASE row = new
    BY <1>3, <1>4, <1>6, <2>1 DEF Current
  <2>2. CASE row \in refunds
    <3>1. PICK d \in RefundCalls : refunding[d].step = "mark" /\ Current(d) = row.paymentId
      BY <1>5, <2>2 DEF SalesInv, UnmarkedRefundIsInterrupted
    <3>2. refunding'[d] = refunding[d]
      BY <1>5, <1>6, <3>1
    <3> QED
      BY <3>1, <3>2 DEF Current
  <2> QED
    BY <1>5, <2>1, <2>2
<1> QED
  BY <1>9, <1>10, <1>11, <1>12, <1>13 DEF SalesInv

LEMMA MarkPaymentInv ==
  ASSUME SalesInv, NEW c \in RefundCalls, MarkPayment(c), UNCHANGED inventoryVars
  PROVE  SalesInv'
<1> DEFINE p == Current(c)
           status == RefundedStatus(refunding[c].full)
<1>1. refunding \in [RefundCalls -> RefundCall] /\ payments \in [PaymentIds -> PaymentRow]
  BY DEF SalesInv, TypeOK, PaymentsTypeOK
<1>2. p \in PaymentIds /\ refunding[c].todo # <<>> /\ refunding[c].step = "mark"
  BY CurrentIsPayment DEF MarkPayment
<1>3. payments' = [payments EXCEPT ![p].status = status] /\ UNCHANGED <<refunds, interrupted>>
      /\ NextInBatch(c)
  BY DEF MarkPayment
<1>4. /\ refunding' \in [RefundCalls -> RefundCall]
      /\ refunding'[c].step \in {"idle", "find"}
      /\ refunding'[c].step # "idle" => refunding'[c].todo # <<>>
      /\ \A d \in RefundCalls : d # c => refunding'[d] = refunding[d]
  BY <1>1, <1>2, <1>3, NextInBatchIdles
<1>5. status \in {"refunded", "partially_refunded"}
      /\ (status = "refunded" <=> refunding[c].full)
  BY DEF RefundedStatus
<1>6. /\ payments' \in [PaymentIds -> PaymentRow]
      /\ \A q \in PaymentIds :
           /\ payments'[q].amount = payments[q].amount
           /\ payments'[q].businessId = payments[q].businessId
           /\ payments'[q].itemId = payments[q].itemId
           /\ payments'[q].status = IF q = p THEN status ELSE payments[q].status
  BY <1>1, <1>2, <1>3, <1>5 DEF PaymentRow, PaymentStatuses
<1> HIDE DEF status
<1>7. RefundInFlight(c)
  BY DEF SalesInv, RefundsInFlight
<1>8. /\ Paid(p)
      /\ refunding[c].full = (refunding[c].amount = payments[p].amount)
      /\ refunding[c].amount <= payments[p].amount
      /\ \E row \in refunds : row.paymentId = p /\ row.amount = Stored(refunding[c].amount)
      /\ Stored(payments[p].amount) = payments[p].amount
  BY <1>2, <1>7 DEF RefundInFlight, SalesInv, AmountsStored
<1>9. \A q \in PaymentIds : Paid(q)' <=> Paid(q)
  BY <1>5, <1>6, <1>8 DEF Paid, PaymentStatuses
<1>10. \A row \in refunds : row.paymentId \in PaymentIds /\ row.amount \in Int
  BY DEF SalesInv, TypeOK, PaymentsTypeOK, RefundRow
<1>11. TypeOK' /\ SalesInFlight'
  BY <1>3, <1>4, <1>6 DEF SalesInv, TypeOK, PaymentsTypeOK, InventoryTypeOK, SalesInFlight,
                          inventoryVars
<1>12. RefundsInFlight'
  <2> SUFFICES ASSUME NEW d \in RefundCalls PROVE RefundInFlight(d)'
    BY DEF RefundsInFlight
  <2>1. CASE d = c
    BY <1>4, <2>1 DEF RefundInFlight
  <2>2. CASE d # c
    <3>1. refunding'[d] = refunding[d] /\ Current(d)' = Current(d) /\ RefundInFlight(d)
      BY <1>4, <2>2 DEF SalesInv, RefundsInFlight, Current
    <3>2. refunding[d].step \in {"create", "mark"} => Current(d) \in PaymentIds
      BY CurrentIsPayment
    <3> QED
      BY <1>3, <1>6, <1>9, <3>1, <3>2 DEF RefundInFlight
  <2> QED
    BY <2>1, <2>2
<1>13. SalesArePaid'
  <2>1. \A t \in transactions : t.paymentId \in PaymentIds
    BY DEF SalesInv, TypeOK, InventoryTypeOK, TransactionRow
  <2> QED
    BY <1>6, <1>9, <2>1 DEF SalesInv, SalesArePaid, inventoryVars
<1>14. EachRefundWithinPayment'
  BY <1>3, <1>6, <1>9, <1>10 DEF SalesInv, EachRefundWithinPayment
<1>15. StatusHasCause'
  <2> SUFFICES ASSUME NEW q \in PaymentIds
               PROVE  /\ payments'[q].status = "refunded" =>
                           \E row \in refunds : row.paymentId = q /\ row.amount = payments[q].amount
                      /\ payments'[q].status = "partially_refunded" =>
                           \E row \in refunds : row.paymentId = q
    BY <1>3, <1>6 DEF StatusHasCause
  <2>1. CASE q = p
    <3>1. PICK row \in refunds : row.paymentId = p /\ row.amount = Stored(refunding[c].amount)
      BY <1>8
    <3>2. status = "refunded" => row.amount = payments[p].amount
      BY <1>5, <1>8, <3>1
    <3> QED
      BY <1>6, <2>1, <3>1, <3>2
  <2>2. CASE q # p
    BY <1>6, <2>2 DEF SalesInv, StatusHasCause
  <2> QED
    BY <2>1, <2>2
<1>16. UnmarkedRefundIsInterrupted'
  <2> SUFFICES ASSUME NEW row \in refunds, payments'[row.paymentId].status = "paid",
                      row.paymentId \notin interrupted
               PROVE  (\E d \in RefundCalls : refunding[d].step = "mark"
                                             /\ Current(d) = row.paymentId)'
    BY <1>3 DEF UnmarkedRefundIsInterrupted
  <2>1. row.paymentId # p /\ payments[row.paymentId].status = "paid"
    BY <1>5, <1>6, <1>10
  <2>2. PICK d \in RefundCalls : refunding[d].step = "mark" /\ Current(d) = row.paymentId
    BY <2>1 DEF SalesInv, UnmarkedRefundIsInterrupted
  <2> QED
    BY <1>4, <2>1, <2>2 DEF Current
<1>17. TenantsSeparate'
  BY <1>3, <1>6, <1>9, <1>10 DEF SalesInv, TenantsSeparate, inventoryVars
<1>18. AmountsStored'
  BY <1>6 DEF SalesInv, AmountsStored
<1> QED
  BY <1>11, <1>12, <1>13, <1>14, <1>15, <1>16, <1>17, <1>18 DEF SalesInv

-------------------------------------------------------------------------------
LEMMA InventoryStepInv ==
  ASSUME SalesInv, InventoryNext, UNCHANGED refundVars
  PROVE  SalesInv'
BY CreateItemInv, CheckSaleInv, RecordSaleInv, FindForUpdateInv, ApplyUpdateInv, RemoveInv
   DEF InventoryNext

LEMMA PaymentsStepInv ==
  ASSUME SalesInv, PaymentsNext, UNCHANGED inventoryVars
  PROVE  SalesInv'
<1>0. PICK c \in RefundCalls :
      \/ \E b \in Businesses, p \in PaymentIds, asked \in Amounts \cup {Whole} :
           StartRefund(c, b, <<p>>, asked)
      \/ \E b \in Businesses, ids \in Batches \ {<<>>} : StartRefund(c, b, ids, Whole)
      \/ AcceptRefund(c)
      \/ RejectRefund(c)
      \/ \E r \in RefundIds : CreateRefund(c, r)
      \/ MarkPayment(c)
      \/ StepThrows(c)
      \/ RefundCrashes(c)
  BY DEF PaymentsNext
<1>1. CASE \E b \in Businesses, p \in PaymentIds, asked \in Amounts \cup {Whole} :
             StartRefund(c, b, <<p>>, asked)
  <2>1. PICK b \in Businesses, p \in PaymentIds, asked \in Amounts \cup {Whole} :
          StartRefund(c, b, <<p>>, asked)
    BY <1>1
  <2>2. <<p>> \in Seq(PaymentIds) \ {<<>>}
    OBVIOUS
  <2> QED
    BY <2>1, <2>2, StartRefundInv
<1>2. CASE \E b \in Businesses, ids \in Batches \ {<<>>} : StartRefund(c, b, ids, Whole)
  <2>1. PICK b \in Businesses, ids \in Batches \ {<<>>} : StartRefund(c, b, ids, Whole)
    BY <1>2
  <2>2. ids \in Seq(PaymentIds) \ {<<>>}
    OBVIOUS
  <2> QED
    BY <2>1, <2>2, StartRefundInv
<1>3. CASE AcceptRefund(c)
  BY <1>3, AcceptRefundInv
<1>4. CASE RejectRefund(c) \/ StepThrows(c) \/ RefundCrashes(c)
  <2>1. refunding[c].step # "idle"
    BY <1>4 DEF RejectRefund, StepThrows, RefundCrashes
  <2>2. Current(c) \in PaymentIds /\ interrupted \subseteq PaymentIds
    BY <2>1, CurrentIsPayment DEF SalesInv, TypeOK, PaymentsTypeOK
  <2> QED
    BY <1>4, <2>1, <2>2, MoveOnInv DEF RejectRefund, StepThrows, RefundCrashes
<1>5. CASE \E r \in RefundIds : CreateRefund(c, r)
  BY <1>5, CreateRefundInv
<1>6. CASE MarkPayment(c)
  BY <1>6, MarkPaymentInv
<1> QED
  BY <1>0, <1>1, <1>2, <1>3, <1>4, <1>5, <1>6

(* The inductive invariant holds of every reachable state. *)
THEOREM SalesInvHolds == Spec => []SalesInv
<1>1. SalesInv /\ UNCHANGED vars => SalesInv'
  <2> SUFFICES ASSUME SalesInv, UNCHANGED vars PROVE SalesInv'
    OBVIOUS
  <2>1. InventoryTypeOK' /\ SalesInFlight'
    BY DEF vars, inventoryVars, SalesInv, TypeOK, InventoryTypeOK, SalesInFlight
  <2> QED
    BY <2>1, QuietStep DEF vars, inventoryVars, refundVars
<1>2. SalesInv /\ [Next]_vars => SalesInv'
  BY <1>1, InventoryStepInv, PaymentsStepInv DEF Next
<1> QED
  BY InitInv, <1>2, PTL DEF Spec

(* Type correctness of both services and of the table they share. *)
THEOREM TypeCorrect == Spec => []TypeOK
BY SalesInvHolds, PTL DEF SalesInv

(* Every sale has one transaction row and one payment, of its price times  *)
(* its quantity up to the rounding of both (inventory.service.ts:161), for *)
(* any number of requests.                                                 *)
THEOREM SalesAlwaysPaid == Spec => []SalesArePaid
BY SalesInvHolds, PTL DEF SalesInv

(* No refund row is negative or more than was paid for its payment         *)
(* (payments.service.ts:86), for any number of concurrent refunds.         *)
THEOREM RefundsEachWithinPayment == Spec => []EachRefundWithinPayment
BY SalesInvHolds, PTL DEF SalesInv

(* 'refunded' is backed by a refund row of the whole amount, and           *)
(* 'partially_refunded' by a refund row (payments.service.ts:89-103).      *)
THEOREM StatusAlwaysHasCause == Spec => []StatusHasCause
BY SalesInvHolds, PTL DEF SalesInv

(* A refund that its payment does not show is still under way or was cut   *)
(* short between its two writes.                                           *)
THEOREM UnmarkedOnlyIfInterrupted == Spec => []UnmarkedRefundIsInterrupted
BY SalesInvHolds, PTL DEF SalesInv

(* No sale or refund is ever recorded across tenants. *)
THEOREM TenantsStaySeparate == Spec => []TenantsSeparate
BY SalesInvHolds, PTL DEF SalesInv

-------------------------------------------------------------------------------
LEMMA SerialStep ==
  ASSUME \A c, d \in InventoryCalls : c = d, SalesInv, SerialInv, [Next]_vars
  PROVE  SerialInv'
<1>1. calls \in [InventoryCalls -> {Idle} \cup SaleCall \cup UpdateCall \cup RemoveCall]
      /\ items \in [Items -> ItemRow]
  BY DEF SalesInv, TypeOK, InventoryTypeOK
<1>2. CASE UNCHANGED <<items, calls>>
  BY <1>2 DEF SerialInv, StockNeverNegative
<1>3. ASSUME NEW i \in Items, NEW price \in Prices, NEW level \in Levels,
             CreateItem(i, price, level)
      PROVE  SerialInv'
  <2>1. level \in Int /\ level >= 0
    OBVIOUS
  <2>2. \A c \in InventoryCalls : calls[c].op = "sell" => calls[c].itemId # i
    BY <1>3 DEF SerialInv, CreateItem
  <2>3. \A j \in Items : items'[j] = IF j = i
          THEN [state |-> "live", price |-> Stored(price), quantity |-> level] ELSE items[j]
    BY <1>1, <1>3 DEF CreateItem
  <2>4. \A c \in InventoryCalls : calls[c].op = "sell" => calls[c].itemId \in Items
    BY <1>1 DEF Idle, SaleCall, UpdateCall, RemoveCall
  <2> QED
    BY <1>3, <2>1, <2>2, <2>3, <2>4 DEF SerialInv, StockNeverNegative, CreateItem
<1>4. ASSUME NEW c \in InventoryCalls, NEW b \in Businesses, NEW i \in Items,
             NEW q \in Quantities, CheckSale(c, b, i, q)
      PROVE  SerialInv'
  <2>1. PICK u : calls' = [calls EXCEPT ![c] =
                             [op |-> "sell", itemId |-> i, businessId |-> b,
                              quantity |-> q, unitPrice |-> u]]
    BY <1>4 DEF CheckSale
  <2>2. items' = items /\ items[i].state = "live" /\ items[i].quantity >= q
    BY <1>4 DEF CheckSale, Found, EnoughStock
  <2> QED
    BY <1>1, <2>1, <2>2 DEF SerialInv, StockNeverNegative
<1>5. ASSUME NEW c \in InventoryCalls, NEW p \in PaymentIds, RecordSale(c, p)
      PROVE  SerialInv'
  <2>1. calls[c] \in SaleCall
    BY <1>1, <1>5 DEF RecordSale, Idle, SaleCall, UpdateCall, RemoveCall
  <2>2. calls[c].itemId \in Items /\ calls[c].quantity \in Int
    BY <2>1, DtoTypes DEF SaleCall
  <2>3. items[calls[c].itemId].quantity \in Int
        /\ items[calls[c].itemId].quantity - calls[c].quantity >= 0
    BY <1>1, <1>5, <2>2 DEF SerialInv, RecordSale, ItemRow
  <2>4. \A j \in Items : items'[j].quantity =
          IF j = calls[c].itemId THEN items[j].quantity - calls[c].quantity
          ELSE items[j].quantity
    BY <1>1, <1>5, <2>2 DEF RecordSale, Decremented, ItemRow
  <2>5. calls' = [calls EXCEPT ![c] = Idle]
    BY <1>5 DEF RecordSale
  <2>6. \A d \in InventoryCalls : calls'[d].op # "sell"
    BY <1>1, <2>5 DEF Idle
  <2> QED
    BY <2>2, <2>3, <2>4, <2>6 DEF SerialInv, StockNeverNegative
<1>6. ASSUME NEW c \in InventoryCalls,
             \/ \E b \in Businesses, i \in Items, fields \in SUBSET {"price", "quantity"},
                   price \in Prices, level \in Levels :
                     FindForUpdate(c, b, i, fields, price, level)
             \/ \E b \in Businesses, i \in Items : FindForRemove(c, b, i)
             \/ Abandon(c)
      PROVE  SerialInv'
  <2>1. items' = items /\ calls'[c].op # "sell"
    BY <1>1, <1>6 DEF FindForUpdate, FindForRemove, Abandon, Idle
  <2>2. \A d \in InventoryCalls : d = c
    OBVIOUS
  <2> QED
    BY <2>1, <2>2 DEF SerialInv, StockNeverNegative
<1>7. ASSUME NEW c \in InventoryCalls, ApplyUpdate(c) \/ ApplyRemove(c)
      PROVE  SerialInv'
  <2>1. calls[c] \in UpdateCall \cup RemoveCall
    BY <1>1, <1>7 DEF ApplyUpdate, ApplyRemove, Idle, SaleCall, UpdateCall, RemoveCall
  <2>2. \A d \in InventoryCalls : calls'[d].op # "sell"
    BY <1>1, <1>7 DEF ApplyUpdate, ApplyRemove, Idle
  <2>3. StockNeverNegative'
    <3>1. CASE ApplyRemove(c)
      BY <1>1, <2>1, <3>1 DEF ApplyRemove, SerialInv, StockNeverNegative, ItemRow
    <3>2. CASE ApplyUpdate(c)
      <4>1. calls[c].itemId \in Items /\ calls[c].quantity \in Levels
        BY <2>1, <3>2 DEF ApplyUpdate, UpdateCall, RemoveCall
      <4>2. calls[c].quantity \in Int /\ calls[c].quantity >= 0
        BY <4>1, DtoTypes
      <4>3. items'[calls[c].itemId].quantity \in
              {calls[c].quantity, items[calls[c].itemId].quantity}
        BY <1>1, <3>2, <4>1 DEF ApplyUpdate
      <4>4. \A j \in Items : j # calls[c].itemId => items'[j] = items[j]
        BY <1>1, <3>2, <4>1 DEF ApplyUpdate
      <4> QED
        BY <4>1, <4>2, <4>3, <4>4 DEF SerialInv, StockNeverNegative
    <3> QED
      BY <1>7, <3>1, <3>2
  <2> QED
    BY <2>2, <2>3 DEF SerialInv
<1>8. CASE InventoryNext
  BY <1>3, <1>4, <1>5, <1>6, <1>7, <1>8 DEF InventoryNext
<1>9. CASE UNCHANGED vars \/ UNCHANGED inventoryVars
  BY <1>2, <1>9 DEF vars, inventoryVars
<1> QED
  BY <1>8, <1>9 DEF Next

(* Overselling needs concurrency: were the sales, updates and removals     *)
(* served one at a time, the check of inventory.service.ts:155 would keep  *)
(* the stock from falling below zero.                                      *)
THEOREM SerialSalesNeverOversell ==
  ASSUME \A c, d \in InventoryCalls : c = d
  PROVE  Spec => []StockNeverNegative
<1>1. Init => SerialInv
  BY DEF Init, InventoryInit, SerialInv, StockNeverNegative, Idle
<1>2. SalesInv /\ SerialInv /\ [Next]_vars => SerialInv'
  BY SerialStep
<1>3. SerialInv => StockNeverNegative
  BY DEF SerialInv
<1> QED
  BY <1>1, <1>2, <1>3, SalesInvHolds, PTL DEF Spec

-------------------------------------------------------------------------------
(* How far the stock can be oversold.  The sales that have checked item i  *)
(* and are not recorded yet will take at most the largest quantity each;   *)
(* whoever checked last saw stock enough for itself.  So either all of     *)
(* them together fit above the bound, or all but one do and that one is    *)
(* covered by its own check.                                               *)
Pending(i) == {c \in InventoryCalls : calls[c].op = "sell" /\ calls[c].itemId = i}

Most == Max(Quantities)

Load(i) == Most * Cardinality(Pending(i))

Room == Most * Cardinality(InventoryCalls)

Covered(i) ==
  \/ items[i].quantity >= Load(i) - Room + Most
  \/ \E c \in Pending(i) : items[i].quantity - calls[c].quantity >= Load(i) - Room

OversellInv ==
  \A i \in Items : Covered(i) /\ (items[i].state = "unborn" => Pending(i) = {})

LEMMA MostIsMost == Most \in Nat /\ \A q \in Quantities : q \in Nat /\ q <= Most
<1>1. PICK m \in Quantities : \A q \in Quantities : q <= m
  BY SlotsAssumption
<1>2. \A x \in Quantities : x \in Nat
  OBVIOUS
<1>3. Max(Quantities) \in Quantities /\ \A q \in Quantities : Max(Quantities) >= q
  BY <1>1, <1>2 DEF Max
<1> QED
  BY <1>2, <1>3 DEF Most

(* The load of a set of slots *)
LEMMA Loads ==
  ASSUME NEW P \in SUBSET InventoryCalls
  PROVE  /\ Most * Cardinality(P) \in Nat
         /\ Room \in Nat /\ Most <= Room
         /\ Most * Cardinality(P) <= Room
         /\ P # InventoryCalls => Most * Cardinality(P) <= Room - Most
         /\ P = {} => Most * Cardinality(P) = 0
         /\ \A c \in InventoryCalls \ P :
              Most * Cardinality(P \cup {c}) = Most * Cardinality(P) + Most
         /\ \A c \in P : Most * Cardinality(P \ {c}) = Most * Cardinality(P) - Most
<1>1. IsFiniteSet(InventoryCalls) /\ IsFiniteSet(P)
  BY SlotsAssumption, FS_Subset
<1>2. /\ Cardinality(P) \in Nat /\ Cardinality(InventoryCalls) \in Nat
      /\ Cardinality(P) <= Cardinality(InventoryCalls)
      /\ P # InventoryCalls => Cardinality(P) < Cardinality(InventoryCalls)
  BY <1>1, FS_CardinalityType, FS_Subset
<1>3. Cardinality(InventoryCalls) >= 1
  BY <1>1, <1>2, SlotsAssumption, FS_EmptySet
<1>4. P = {} => Cardinality(P) = 0
  BY FS_EmptySet
<1>5. \A c \in InventoryCalls \ P : Cardinality(P \cup {c}) = Cardinality(P) + 1
  BY <1>1, FS_AddElement
<1>6. \A c \in P : Cardinality(P \ {c}) = Cardinality(P) - 1
  BY <1>1, FS_RemoveElement
<1>7. /\ \A a, b \in Nat : a <= b => Most * a \in Nat /\ Most * a <= Most * b
      /\ \A a, b \in Nat : a < b => Most * a <= Most * b - Most
      /\ \A a \in Nat : /\ Most * (a + 1) = Most * a + Most
                        /\ Most * (a - 1) = Most * a - Most
      /\ Most * 0 = 0 /\ Most * 1 = Most
  <2>1. \A m, a \in Nat : /\ m * a \in Nat /\ m * (a + 1) = m * a + m
                          /\ m * (a - 1) = m * a - m
                          /\ m * 0 = 0 /\ m * 1 = m
    OBVIOUS
  <2>2. \A m, a, b \in Nat : a <= b => m * a <= m * b
    OBVIOUS
  <2>3. \A m, a, b \in Nat : a < b => m * a <= m * b - m
    <3> TAKE m, a, b \in Nat
    <3> HAVE a < b
    <3>1. m * (a + 1) <= m * b
      BY <2>2
    <3>2. m * (a + 1) = m * a + m /\ m * a \in Nat /\ m * b \in Nat
      BY <2>1
    <3> QED
      BY <3>1, <3>2
  <2> QED
    BY <2>1, <2>2, <2>3, MostIsMost
<1>8. Room \in Nat /\ Most <= Room
  BY <1>2, <1>3, <1>7, MostIsMost DEF Room
<1>9. /\ Most * Cardinality(P) \in Nat /\ Most * Cardinality(P) <= Room
      /\ P # InventoryCalls => Most * Cardinality(P) <= Room - Most
  BY <1>2, <1>7 DEF Room
<1>10. P = {} => Most * Cardinality(P) = 0
  BY <1>4, <1>7
<1>11. ASSUME NEW c \in InventoryCalls \ P
       PROVE  Most * Cardinality(P \cup {c}) = Most * Cardinality(P) + Most
  BY <1>2, <1>5, <1>7
<1>12. ASSUME NEW c \in P
       PROVE  Most * Cardinality(P \ {c}) = Most * Cardinality(P) - Most
  BY <1>2, <1>6, <1>7
<1> QED
  BY <1>8, <1>9, <1>10, <1>11, <1>12

(* A step that takes nothing from item i and leaves its pending sales as   *)
(* they were, or one of them fewer                                         *)
LEMMA StillCovered ==
  ASSUME SalesInv, NEW i \in Items, Covered(i),
         items'[i].quantity = items[i].quantity, Pending(i)' \subseteq Pending(i),
         \A d \in Pending(i)' : calls'[d] = calls[d],
         Pending(i)' = Pending(i) \/ \E c \in Pending(i) : Pending(i)' = Pending(i) \ {c}
  PROVE  Covered(i)'
<1>1. Pending(i) \in SUBSET InventoryCalls /\ Pending(i)' \in SUBSET InventoryCalls
  BY DEF Pending
<1>2. items[i].quantity \in Int
  BY DEF SalesInv, TypeOK, InventoryTypeOK, ItemRow
<1>3. \A c \in Pending(i) : calls[c].quantity \in Quantities
  BY DEF Pending, SalesInv, TypeOK, InventoryTypeOK, Idle, SaleCall, UpdateCall, RemoveCall
<1>4. Load(i) \in Nat /\ Load(i)' \in Nat /\ Room \in Nat
  BY <1>1, Loads DEF Load
<1>5. CASE Pending(i)' = Pending(i)
  <2>1. Load(i)' = Load(i)
    BY <1>5 DEF Load
  <2> QED
    BY <1>5, <2>1 DEF Covered
<1>6. ASSUME NEW c \in Pending(i), Pending(i)' = Pending(i) \ {c} PROVE Covered(i)'
  <2>1. Load(i)' = Load(i) - Most
    BY <1>1, <1>6, Loads DEF Load
  <2>2. CASE items[i].quantity >= Load(i) - Room + Most
    <3>1. items[i].quantity >= Load(i)' - Room + Most
      BY <1>2, <1>4, <2>1, <2>2, MostIsMost
    <3> QED
      BY <3>1 DEF Covered
  <2>3. ASSUME NEW d \in Pending(i), items[i].quantity - calls[d].quantity >= Load(i) - Room
        PROVE  Covered(i)'
    <3>1. calls[d].quantity \in Nat
      BY <1>3, MostIsMost
    <3>2. items[i].quantity >= Load(i)' - Room + Most
      BY <1>2, <1>4, <2>1, <2>3, <3>1, MostIsMost
    <3> QED
      BY <3>2 DEF Covered
  <2> QED
    BY <2>2, <2>3 DEF Covered
<1> QED
  BY <1>5, <1>6

(* A level that is written outright covers every sale that may be pending: *)
(* the request that writes it is not one of them.                          *)
LEMMA LevelCovers ==
  ASSUME SalesInv, NEW i \in Items, NEW c \in InventoryCalls, c \notin Pending(i),
         Pending(i)' = Pending(i), items'[i].quantity \in Nat
  PROVE  Covered(i)'
<1>1. Pending(i) \in SUBSET InventoryCalls /\ Pending(i) # InventoryCalls
  BY DEF Pending
<1>2. Load(i) \in Nat /\ Load(i) <= Room - Most /\ Room \in Nat
  BY <1>1, Loads DEF Load
<1>3. Load(i)' = Load(i)
  BY DEF Load
<1>4. items'[i].quantity >= Load(i)' - Room + Most
  BY <1>2, <1>3, MostIsMost
<1> QED
  BY <1>4 DEF Covered

LEMMA OversellStep ==
  ASSUME SalesInv, OversellInv, [Next]_vars
  PROVE  OversellInv'
<1>1. calls \in [InventoryCalls -> {Idle} \cup SaleCall \cup UpdateCall \cup RemoveCall]
      /\ items \in [Items -> ItemRow]
  BY DEF SalesInv, TypeOK, InventoryTypeOK
<1>2. \A c \in InventoryCalls :
        calls[c].op = "sell" => calls[c].itemId \in Items /\ calls[c].quantity \in Quantities
  BY <1>1 DEF Idle, SaleCall, UpdateCall, RemoveCall
<1>3. CASE UNCHANGED <<items, calls>>
  <2>1. \A i \in Items : Pending(i)' = Pending(i)
    BY <1>3 DEF Pending
  <2> QED
    BY <1>3, <2>1, StillCovered DEF OversellInv
<1>4. ASSUME NEW k \in Items, NEW price \in Prices, NEW level \in Levels,
             CreateItem(k, price, level)
      PROVE  OversellInv'
  <2>1. \A i \in Items : Pending(i)' = Pending(i)
    BY <1>4 DEF CreateItem, Pending
  <2>2. \A i \in Items \ {k} : items'[i] = items[i]
    BY <1>4 DEF CreateItem
  <2>3. /\ items'[k].state = "live" /\ items'[k].quantity \in Nat
        /\ Pending(k) = {}
    BY <1>1, <1>4 DEF CreateItem, OversellInv
  <2>4. Covered(k)'
    <3>1. PICK c \in InventoryCalls : TRUE
      BY SlotsAssumption
    <3> QED
      BY <2>1, <2>3, <3>1, LevelCovers
  <2>5. ASSUME NEW i \in Items \ {k} PROVE Covered(i)'
    <3>1. Covered(i) /\ items'[i].quantity = items[i].quantity /\ Pending(i)' = Pending(i)
      BY <2>1, <2>2 DEF OversellInv
    <3>2. \A d \in Pending(i)' : calls'[d] = calls[d]
      BY <1>4 DEF CreateItem
    <3> QED
      BY <3>1, <3>2, StillCovered
  <2> QED
    BY <2>1, <2>2, <2>3, <2>4, <2>5 DEF OversellInv
<1>5. ASSUME NEW c \in InventoryCalls, NEW b \in Businesses, NEW k \in Items,
             NEW q \in Quantities, CheckSale(c, b, k, q)
      PROVE  OversellInv'
  <2>1. PICK sale : /\ calls' = [calls EXCEPT ![c] = sale]
                    /\ sale.op = "sell" /\ sale.itemId = k /\ sale.quantity = q
    <3>1. PICK u : calls' = [calls EXCEPT ![c] =
                     [op |-> "sell", itemId |-> k, businessId |-> b,
                      quantity |-> q, unitPrice |-> u]]
      BY <1>5 DEF CheckSale
    <3>2. PICK sale : sale = [op |-> "sell", itemId |-> k, businessId |-> b,
                              quantity |-> q, unitPrice |-> u]
      OBVIOUS
    <3>3. sale.op = "sell" /\ sale.itemId = k /\ sale.quantity = q
      BY <3>2
    <3>4. calls' = [calls EXCEPT ![c] = sale]
      BY <3>1, <3>2
    <3> QED
      BY <3>3, <3>4
  <2>2. /\ items' = items /\ items[k].state = "live" /\ items[k].quantity >= q
        /\ calls[c].op = "idle"
    BY <1>5 DEF CheckSale, Found, EnoughStock, Idle
  <2>3. \A d \in InventoryCalls : calls'[d] = IF d = c THEN sale ELSE calls[d]
    BY <1>1, <2>1
  <2>4. c \notin Pending(k) /\ Pending(k)' = Pending(k) \cup {c}
    BY <2>1, <2>2, <2>3 DEF Pending
  <2>5. Covered(k)'
    <3>1. Pending(k)' \in SUBSET InventoryCalls
      BY DEF Pending
    <3>2. Load(k)' \in Nat /\ Load(k)' <= Room /\ Room \in Nat
      BY <3>1, Loads DEF Load
    <3>3. items'[k].quantity \in Int /\ calls'[c].quantity = q /\ q \in Nat
      BY <1>1, <2>1, <2>2, <2>3, MostIsMost DEF ItemRow
    <3>4. items'[k].quantity - calls'[c].quantity >= Load(k)' - Room
      BY <2>2, <3>2, <3>3
    <3> QED
      BY <2>4, <3>4 DEF Covered
  <2>6. ASSUME NEW i \in Items \ {k} PROVE Covered(i)' /\ Pending(i)' = Pending(i)
    <3>1. Pending(i)' = Pending(i)
      BY <2>1, <2>2, <2>3 DEF Pending
    <3>2. \A d \in Pending(i)' : calls'[d] = calls[d]
      BY <2>2, <2>3, <3>1 DEF Pending
    <3>3. Covered(i) /\ items'[i].quantity = items[i].quantity
      BY <2>2 DEF OversellInv
    <3> QED
      BY <3>1, <3>2, <3>3, StillCovered
  <2> QED
    BY <2>2, <2>5, <2>6 DEF OversellInv
<1>6. ASSUME NEW c \in InventoryCalls, NEW p \in PaymentIds, RecordSale(c, p)
      PROVE  OversellInv'
  <2>1. PICK k \in Items : k = calls[c].itemId
    BY <1>2, <1>6 DEF RecordSale
  <2>2. PICK q \in Quantities : q = calls[c].quantity
    BY <1>2, <1>6 DEF RecordSale
  <2>3. c \in Pending(k) /\ items[k].state = "live"
    BY <1>6, <2>1 DEF RecordSale, Pending
  <2>4. \A d \in InventoryCalls : calls'[d] = IF d = c THEN Idle ELSE calls[d]
    BY <1>1, <1>6 DEF RecordSale
  <2>5. \A i \in Items : Pending(i)' = Pending(i) \ {c}
    BY <2>4 DEF Pending, Idle
  <2>6. /\ items'[k].quantity = items[k].quantity - q
        /\ \A i \in Items \ {k} : items'[i] = items[i]
        /\ items'[k].state = "live"
    BY <1>1, <1>6, <2>1, <2>2, <2>3 DEF RecordSale, Decremented, ItemRow
  <2>7. Covered(k)'
    <3>1. Load(k) \in Nat /\ Room \in Nat /\ Load(k)' = Load(k) - Most
      <4>1. Pending(k) \in SUBSET InventoryCalls
        BY DEF Pending
      <4> QED
        BY <2>3, <2>5, <4>1, Loads DEF Load
    <3>2. items[k].quantity \in Int /\ q \in Nat /\ q <= Most
      BY <1>1, MostIsMost DEF ItemRow
    <3>3. CASE items[k].quantity >= Load(k) - Room + Most
      <4>1. items'[k].quantity >= Load(k)' - Room + Most
        BY <2>6, <3>1, <3>2, <3>3, MostIsMost
      <4> QED
        BY <4>1 DEF Covered
    <3>4. ASSUME NEW d \in Pending(k),
                 items[k].quantity - calls[d].quantity >= Load(k) - Room
          PROVE  Covered(k)'
      <4>1. calls[d].quantity \in Nat
        BY <1>2, MostIsMost DEF Pending
      <4>2. CASE d = c
        <5>1. items'[k].quantity >= Load(k)' - Room + Most
          BY <2>2, <2>6, <3>1, <3>2, <3>4, <4>2, MostIsMost
        <5> QED
          BY <5>1 DEF Covered
      <4>3. CASE d # c
        <5>1. d \in Pending(k)' /\ calls'[d] = calls[d]
          BY <2>4, <2>5, <4>3 DEF Pending
        <5>2. items'[k].quantity - calls'[d].quantity >= Load(k)' - Room
          BY <2>6, <3>1, <3>2, <3>4, <4>1, <5>1, MostIsMost
        <5> QED
          BY <5>1, <5>2 DEF Covered
      <4> QED
        BY <4>2, <4>3
    <3> QED
      BY <3>3, <3>4 DEF OversellInv, Covered
  <2>8. ASSUME NEW i \in Items \ {k} PROVE Covered(i)' /\ Pending(i)' = Pending(i)
    <3>1. Pending(i)' = Pending(i)
      BY <2>1, <2>5 DEF Pending
    <3>2. \A d \in Pending(i)' : calls'[d] = calls[d]
      BY <2>4, <2>5 DEF Pending
    <3>3. Covered(i) /\ items'[i].quantity = items[i].quantity
      BY <2>6 DEF OversellInv
    <3> QED
      BY <3>1, <3>2, <3>3, StillCovered
  <2> QED
    BY <2>6, <2>7, <2>8 DEF OversellInv
<1>7. ASSUME NEW c \in InventoryCalls,
             \/ \E b \in Businesses, i \in Items, fields \in SUBSET {"price", "quantity"},
                   price \in Prices, level \in Levels :
                     FindForUpdate(c, b, i, fields, price, level)
             \/ \E b \in Businesses, i \in Items : FindForRemove(c, b, i)
             \/ Abandon(c)
      PROVE  OversellInv'
  <2>1. items' = items /\ calls'[c].op # "sell"
        /\ \A d \in InventoryCalls : d # c => calls'[d] = calls[d]
    BY <1>1, <1>7 DEF FindForUpdate, FindForRemove, Abandon, Idle
  <2>2. \A i \in Items : Pending(i)' = Pending(i) \ {c}
    BY <2>1 DEF Pending
  <2>3. ASSUME NEW i \in Items PROVE Covered(i)'
    <3>1. /\ Pending(i)' \subseteq Pending(i)
          /\ \/ Pending(i)' = Pending(i)
             \/ \E d \in Pending(i) : Pending(i)' = Pending(i) \ {d}
      BY <2>2
    <3>2. \A d \in Pending(i)' : calls'[d] = calls[d]
      BY <2>1, <2>2 DEF Pending
    <3>3. Covered(i) /\ items'[i].quantity = items[i].quantity
      BY <2>1 DEF OversellInv
    <3> QED
      BY <3>1, <3>2, <3>3, StillCovered
  <2> QED
    BY <2>1, <2>2, <2>3 DEF OversellInv
<1>8. ASSUME NEW c \in InventoryCalls, ApplyUpdate(c) \/ ApplyRemove(c)
      PROVE  OversellInv'
  <2>1. calls[c] \in UpdateCall \cup RemoveCall
    BY <1>1, <1>8 DEF ApplyUpdate, ApplyRemove, Idle, SaleCall, UpdateCall, RemoveCall
  <2>2. PICK k \in Items : k = calls[c].itemId
    BY <2>1 DEF UpdateCall, RemoveCall
  <2>3. \A d \in InventoryCalls : calls'[d] = IF d = c THEN Idle ELSE calls[d]
    BY <1>1, <1>8 DEF ApplyUpdate, ApplyRemove
  <2>4. calls[c].op # "sell"
    BY <1>8 DEF ApplyUpdate, ApplyRemove
  <2>5. \A i \in Items : c \notin Pending(i) /\ Pending(i)' = Pending(i)
    BY <2>3, <2>4 DEF Pending, Idle
  <2>6. /\ \A i \in Items \ {k} : items'[i] = items[i]
        /\ items'[k].state # "unborn"
        /\ items'[k].quantity \in Nat \/ items'[k].quantity = items[k].quantity
    <3>1. CASE ApplyRemove(c)
      BY <1>1, <2>2, <3>1 DEF ApplyRemove, ItemRow
    <3>2. CASE ApplyUpdate(c)
      <4>1. calls[c].quantity \in Nat
        BY <2>1, <3>2 DEF ApplyUpdate, UpdateCall, RemoveCall
      <4> QED
        BY <1>1, <2>2, <3>2, <4>1 DEF ApplyUpdate, ItemRow
    <3> QED
      BY <1>8, <3>1, <3>2
  <2>7. ASSUME NEW i \in Items PROVE Covered(i)'
    <3>1. CASE items'[i].quantity \in Nat
      BY <2>5, <3>1, LevelCovers
    <3>2. CASE items'[i].quantity = items[i].quantity
      <4>1. \A d \in Pending(i)' : calls'[d] = calls[d]
        BY <2>3, <2>5 DEF Pending
      <4>2. Covered(i)
        BY DEF OversellInv
      <4> QED
        BY <2>5, <3>2, <4>1, <4>2, StillCovered
    <3> QED
      BY <2>6, <3>1, <3>2
  <2>8. \A i \in Items : items'[i].state = "unborn" => Pending(i)' = {}
    BY <2>5, <2>6 DEF OversellInv
  <2> QED
    BY <2>7, <2>8 DEF OversellInv
<1>9. CASE InventoryNext
  BY <1>4, <1>5, <1>6, <1>7, <1>8, <1>9 DEF InventoryNext
<1>10. CASE UNCHANGED vars \/ UNCHANGED inventoryVars
  BY <1>3, <1>10 DEF vars, inventoryVars
<1> QED
  BY <1>9, <1>10 DEF Next

(* The stock check is not part of the transaction of the sale              *)
(* (inventory.service.ts:155-161), so concurrent sales oversell; but never *)
(* by more than the largest sale for each of the other requests that can   *)
(* be in flight, for any number of requests, items and failures.           *)
THEOREM OversellIsBounded == Spec => []OversellBounded
<1>1. Init => OversellInv
  <2> SUFFICES ASSUME Init, NEW i \in Items PROVE Covered(i) /\ Pending(i) = {}
    BY DEF OversellInv
  <2>1. Pending(i) = {}
    BY DEF Init, InventoryInit, Pending, Idle
  <2>2. Load(i) = 0 /\ Room \in Nat /\ Most <= Room
    BY <2>1, Loads DEF Load
  <2>3. items[i].quantity = 0
    BY DEF Init, InventoryInit
  <2>4. items[i].quantity >= Load(i) - Room + Most
    BY <2>2, <2>3, MostIsMost
  <2> QED
    BY <2>1, <2>4 DEF Covered
<1>2. SalesInv /\ OversellInv /\ [Next]_vars => OversellInv'
  BY OversellStep
<1>3. SalesInv /\ OversellInv => OversellBounded
  <2> SUFFICES ASSUME SalesInv, OversellInv, NEW i \in Items
               PROVE  items[i].quantity >= -((Cardinality(InventoryCalls) - 1) * Most)
    BY DEF OversellBounded, Most
  <2>1. Pending(i) \in SUBSET InventoryCalls
    BY DEF Pending
  <2>2. /\ Load(i) \in Nat /\ Room \in Nat
        /\ Pending(i) # {} => Load(i) >= Most
    <3>1. ASSUME NEW c \in Pending(i) PROVE Load(i) >= Most
      <4>1. Most * Cardinality(Pending(i) \ {c}) = Load(i) - Most
        BY <2>1, Loads DEF Load
      <4>2. Pending(i) \ {c} \in SUBSET InventoryCalls
        BY <2>1
      <4>3. Load(i) - Most \in Nat /\ Load(i) \in Nat
        BY <2>1, <4>1, <4>2, Loads DEF Load
      <4> QED
        BY <4>3, MostIsMost
    <3> QED
      BY <2>1, <3>1, Loads DEF Load
  <2>3. -((Cardinality(InventoryCalls) - 1) * Most) = Most - Room
    <3>1. Cardinality(InventoryCalls) \in Nat
      BY SlotsAssumption, FS_CardinalityType
    <3>2. \A m, n \in Nat : -((n - 1) * m) = m - m * n
      OBVIOUS
    <3> QED
      BY <3>1, <3>2, MostIsMost DEF Room
  <2>4. items[i].quantity \in Int
    BY DEF SalesInv, TypeOK, InventoryTypeOK, ItemRow
  <2>5. items[i].quantity >= Most - Room
    <3>1. CASE items[i].quantity >= Load(i) - Room + Most
      BY <2>2, <2>4, <3>1, MostIsMost
    <3>2. ASSUME NEW c \in Pending(i), items[i].quantity - calls[c].quantity >= Load(i) - Room
          PROVE  items[i].quantity >= Most - Room
      <4>1. calls[c].quantity \in Quantities
        BY DEF Pending, SalesInv, TypeOK, InventoryTypeOK, Idle, SaleCall, UpdateCall,
               RemoveCall
      <4>2. calls[c].quantity \in Nat
        BY <4>1, MostIsMost
      <4> QED
        BY <2>2, <2>4, <3>2, <4>2, MostIsMost
    <3> QED
      BY <3>1, <3>2 DEF OversellInv, Covered
  <2> QED
    BY <2>3, <2>5
<1> QED
  BY <1>1, <1>2, <1>3, SalesInvHolds, PTL DEF Spec

-------------------------------------------------------------------------------
(* The quantities of a set of transactions, added up.  MapThenSumSet is a  *)
(* function defined by recursion on the subsets of its argument; that it   *)
(* exists, that it does not depend on the set it was defined over, and     *)
(* that it does not depend on the order are proved by contradiction: a     *)
(* smallest set for which it failed would have a smaller one.              *)

(* A set of numbers that is not empty has a least one *)
LEMMA LeastNumber ==
  ASSUME NEW N \in SUBSET Nat, N # {}
  PROVE  \E least \in N : \A n \in N : least <= n
<1>1. \E least \in N : \A n \in N : ~(<<n, least>> \in OpToRel(<, Nat))
  BY WFMin, NatLessThanWellFounded
<1>2. PICK least \in N : \A n \in N : ~(<<n, least>> \in OpToRel(<, Nat))
  BY <1>1
<1>3. ASSUME NEW n \in N PROVE least <= n
  <2>1. ~(n < least)
    BY <1>2 DEF OpToRel
  <2> QED
    BY <2>1
<1> QED
  BY <1>3

(* Among some subsets of a finite set there is a smallest *)
LEMMA SmallestSet ==
  ASSUME NEW S, IsFiniteSet(S), NEW F \in SUBSET SUBSET S, F # {}
  PROVE  \E T \in F : \A U \in F : Cardinality(T) <= Cardinality(U)
<1> DEFINE N == {Cardinality(T) : T \in F}
<1>1. \A T \in F : Cardinality(T) \in Nat
  BY FS_Subset, FS_CardinalityType
<1>2. N \in SUBSET Nat /\ N # {}
  BY <1>1
<1>3. PICK least \in N : \A n \in N : least <= n
  <2> HIDE DEF N
  <2> QED
    BY <1>2, LeastNumber
<1> QED
  BY <1>3

Chosen(S) == CHOOSE x \in S : TRUE
Sold(S) == MapThenSumSet(LAMBDA t : t.quantity, S)

OneMore(f, s) == IF s = {} THEN 0 ELSE Chosen(s).quantity + f[s \ {Chosen(s)}]
Sums(f, S) == f = [s \in SUBSET S |-> OneMore(f, s)]

(* What the fold stands for *)
LEMMA SoldIs == 
  ASSUME NEW S
  PROVE Sold(S) = (CHOOSE f : Sums(f, S))[S]
BY DEF Sold, MapThenSumSet, MapThenFoldSet, Sums, OneMore, Chosen

LEMMA ChosenIn == ASSUME NEW S, S # {} PROVE Chosen(S) \in S
BY DEF Chosen

(* There is a function that adds up: defined so far for the sets of at most *)
(* n - 1 elements, it defines one for those of n.                          *)
LEMMA SumsExist ==
  ASSUME NEW S, IsFiniteSet(S)
  PROVE  \E f : Sums(f, S)
<1> DEFINE Good(f, n) == \A s \in SUBSET S : Cardinality(s) <= n => f[s] = OneMore(f, s)
           Bad == {n \in Nat : \A f : ~Good(f, n)}
<1>0. \A s \in SUBSET S : IsFiniteSet(s) /\ Cardinality(s) \in Nat
                          /\ Cardinality(s) <= Cardinality(S)
  BY FS_Subset, FS_CardinalityType
<1>1. ASSUME Bad # {} PROVE FALSE
  <2>0. Bad \in SUBSET Nat
    OBVIOUS
  <2>1. PICK n \in Bad : \A m \in Bad : n <= m
    <3> HIDE DEF Bad
    <3> QED
      BY <1>1, <2>0, LeastNumber
  <2>2. n # 0
    <3>1. SUFFICES ASSUME n = 0 PROVE \E f : Good(f, 0)
      BY <2>1
    <3>2. PICK f : f = [s \in SUBSET S |-> 0]
      OBVIOUS
    <3>3. ASSUME NEW s \in SUBSET S, Cardinality(s) <= 0 PROVE f[s] = OneMore(f, s)
      <4>1. s = {}
        BY <1>0, <3>3, FS_EmptySet
      <4> QED
        BY <3>2, <4>1 DEF OneMore
    <3> QED
      BY <3>3
  <2>3. n - 1 \in Nat /\ n - 1 \notin Bad
    BY <2>1, <2>2
  <2>4. PICK f : Good(f, n - 1)
    BY <2>3
  <2>5. PICK g : g = [s \in SUBSET S |-> OneMore(f, s)]
    OBVIOUS
  <2>6. ASSUME NEW s \in SUBSET S, Cardinality(s) <= n PROVE g[s] = OneMore(g, s)
    <3>1. CASE s = {}
      BY <2>5, <3>1 DEF OneMore
    <3>2. CASE s # {}
      <4>1. PICK r \in SUBSET S : r = s \ {Chosen(s)}
        OBVIOUS
      <4>2. Cardinality(r) = Cardinality(s) - 1
        BY <1>0, <3>2, <4>1, ChosenIn, FS_RemoveElement
      <4>3. f[r] = OneMore(f, r)
        BY <1>0, <2>1, <2>4, <2>6, <4>2
      <4>4. g[r] = f[r]
        BY <2>5, <4>3
      <4>5. g[s] = OneMore(f, s)
        BY <2>5
      <4> QED
        BY <3>2, <4>1, <4>4, <4>5 DEF OneMore
    <3> QED
      BY <3>1, <3>2
  <2>7. Good(g, n)
    BY <2>6
  <2> QED
    BY <2>1, <2>7
<1>2. Cardinality(S) \in Nat \ Bad
  BY <1>0, <1>1
<1>3. PICK f : Good(f, Cardinality(S))
  BY <1>2
<1>4. PICK g : g = [s \in SUBSET S |-> f[s]]
  OBVIOUS
<1>5. ASSUME NEW s \in SUBSET S PROVE g[s] = OneMore(g, s)
  <2>1. f[s] = OneMore(f, s)
    BY <1>0, <1>3
  <2>2. g[s] = f[s] /\ g[s \ {Chosen(s)}] = f[s \ {Chosen(s)}]
    BY <1>4
  <2> QED
    BY <2>1, <2>2 DEF OneMore
<1>6. g = [s \in SUBSET S |-> OneMore(g, s)]
  BY <1>4, <1>5
<1> QED
  BY <1>6 DEF Sums

(* Two such functions agree where both are defined *)
LEMMA SumsAgree ==
  ASSUME NEW S, IsFiniteSet(S), NEW T \in SUBSET S,
         NEW f, Sums(f, S), NEW g, Sums(g, T)
  PROVE  f[T] = g[T]
<1> DEFINE F == {s \in SUBSET T : f[s] # g[s]}
<1>1. ASSUME F # {} PROVE FALSE
  <2>1. IsFiniteSet(T)
    BY FS_Subset
  <2>2. PICK s \in F : \A u \in F : Cardinality(s) <= Cardinality(u)
    <3>1. F \in SUBSET SUBSET T
      OBVIOUS
    <3> HIDE DEF F
    <3> QED
      BY <1>1, <2>1, <3>1, SmallestSet
  <2>3. s \in SUBSET T /\ s \in SUBSET S /\ IsFiniteSet(s)
    BY <2>1, FS_Subset
  <2>4. f[s] = OneMore(f, s) /\ g[s] = OneMore(g, s)
    BY <2>3 DEF Sums
  <2>5. CASE s = {}
    BY <2>2, <2>4, <2>5 DEF OneMore
  <2>6. CASE s # {}
    <3>1. PICK r : r = s \ {Chosen(s)}
      OBVIOUS
    <3>2. Cardinality(r) = Cardinality(s) - 1 /\ Cardinality(s) \in Nat
      BY <2>3, <2>6, <3>1, ChosenIn, FS_RemoveElement, FS_CardinalityType
    <3>3. r \notin F
      BY <2>2, <3>2
    <3>4. f[r] = g[r]
      BY <2>3, <3>1, <3>3
    <3> QED
      BY <2>2, <2>4, <2>6, <3>1, <3>4 DEF OneMore
  <2> QED
    BY <2>5, <2>6
<1> QED
  BY <1>1

(* The sum takes one element after the other, in the order CHOOSE gives *)
LEMMA SoldStep ==
  ASSUME NEW S, IsFiniteSet(S)
  PROVE  /\ S = {} => Sold(S) = 0
         /\ S # {} => Sold(S) = Chosen(S).quantity + Sold(S \ {Chosen(S)})
<1>1. PICK f : f = (CHOOSE h : Sums(h, S)) /\ Sums(f, S)
  BY SumsExist
<1>2. Sold(S) = f[S] /\ f[S] = OneMore(f, S)
  <2>1. Sold(S) = f[S]
    BY <1>1, SoldIs
  <2>2. f[S] = OneMore(f, S)
    BY <1>1 DEF Sums
  <2> QED
    BY <2>1, <2>2
<1>3. ASSUME S # {} PROVE f[S \ {Chosen(S)}] = Sold(S \ {Chosen(S)})
  <2>1. PICK R \in SUBSET S : R = S \ {Chosen(S)}
    OBVIOUS
  <2>2. IsFiniteSet(R)
    BY FS_Subset
  <2>3. PICK g : g = (CHOOSE h : Sums(h, R)) /\ Sums(g, R)
    BY <2>2, SumsExist
  <2>4. Sold(R) = g[R]
    BY <2>3, SoldIs
  <2>5. f[R] = g[R]
    BY <1>1, <2>3, SumsAgree
  <2> QED
    BY <2>1, <2>4, <2>5
<1> QED
  BY <1>2, <1>3 DEF OneMore

(* and any element may be the last: sums do not depend on the order *)
LEMMA SoldAdds ==
  ASSUME NEW U, IsFiniteSet(U), \A x \in U : x.quantity \in Int
  PROVE  /\ \A S \in SUBSET U : Sold(S) \in Int
         /\ \A S \in SUBSET U : \A x \in U \ S : Sold(S \cup {x}) = Sold(S) + x.quantity
<1>0. \A S \in SUBSET U : IsFiniteSet(S) /\ Cardinality(S) \in Nat
  BY FS_Subset, FS_CardinalityType
<1> DEFINE F == {S \in SUBSET U : Sold(S) \notin Int}
           G == {S \in SUBSET U : \E x \in U \ S : Sold(S \cup {x}) # Sold(S) + x.quantity}
<1>1. ASSUME F # {} PROVE FALSE
  <2>1. PICK S \in F : \A T \in F : Cardinality(S) <= Cardinality(T)
    <3>1. F \in SUBSET SUBSET U
      OBVIOUS
    <3> HIDE DEF F
    <3> QED
      BY <1>1, <3>1, SmallestSet
  <2>2. S \in SUBSET U /\ Sold(S) \notin Int
    BY <2>1
  <2>3. S # {}
    <3>1. S = {} => Sold(S) = 0
      BY <1>0, <2>2, SoldStep
    <3> HIDE DEF F, G
    <3> QED
      BY <2>2, <3>1
  <2>4. PICK R \in SUBSET U : R = S \ {Chosen(S)}
    BY <2>2
  <2>5. Cardinality(R) = Cardinality(S) - 1
    BY <1>0, <2>2, <2>3, <2>4, ChosenIn, FS_RemoveElement
  <2>6. R \notin F
    BY <1>0, <2>1, <2>2, <2>5
  <2>7. Sold(S) = Chosen(S).quantity + Sold(R) /\ Chosen(S) \in U
    BY <1>0, <2>2, <2>3, <2>4, ChosenIn, SoldStep
  <2> QED
    BY <2>2, <2>4, <2>6, <2>7
<1>2. \A S \in SUBSET U : Sold(S) \in Int
  BY <1>1
<1>3. ASSUME G # {} PROVE FALSE
  <2>1. PICK S \in G : \A T \in G : Cardinality(S) <= Cardinality(T)
    <3>1. G \in SUBSET SUBSET U
      OBVIOUS
    <3> HIDE DEF G
    <3> QED
      BY <1>3, <3>1, SmallestSet
  <2>2. S \in SUBSET U
    BY <2>1
  <2>3. PICK x \in U \ S : Sold(S \cup {x}) # Sold(S) + x.quantity
    BY <2>1
  <2>4. PICK V \in SUBSET U : V = S \cup {x}
    BY <2>2
  <2>5. PICK y : y = Chosen(V) /\ y \in V
    BY <2>4, ChosenIn
  <2>6. Sold(V) = y.quantity + Sold(V \ {y})
    BY <1>0, <2>4, <2>5, SoldStep
  <2>7. CASE y = x
    <3>1. V \ {y} = S
      BY <2>3, <2>4, <2>7
    <3>2. Sold(V) = y.quantity + Sold(S)
      BY <2>6, <3>1
    <3> QED
      BY <1>2, <2>2, <2>3, <2>4, <2>7, <3>2
  <2>8. CASE y # x
    <3>1. y \in S /\ y \in U
      BY <2>2, <2>4, <2>5, <2>8
    <3>2. PICK R \in SUBSET U : R = S \ {y}
      BY <2>2
    <3>3. Cardinality(R) = Cardinality(S) - 1
      BY <1>0, <2>2, <3>1, <3>2, FS_RemoveElement
    <3>4. R \notin G
      BY <1>0, <2>1, <2>2, <3>3
    <3>5. /\ Sold(R \cup {y}) = Sold(R) + y.quantity
          /\ Sold(R \cup {x}) = Sold(R) + x.quantity
      BY <2>3, <3>1, <3>2, <3>4
    <3>6. R \cup {y} = S /\ R \cup {x} = V \ {y}
      BY <2>3, <2>4, <2>8, <3>1, <3>2
    <3>7. Sold(S) = Sold(R) + y.quantity /\ Sold(V) = y.quantity + (Sold(R) + x.quantity)
      BY <2>6, <3>5, <3>6
    <3>8. Sold(V) = Sold(S) + x.quantity
      BY <1>2, <2>3, <3>1, <3>2, <3>7
    <3> QED
      BY <2>3, <2>4, <3>8
  <2> QED
    BY <2>7, <2>8
<1>4. \A S \in SUBSET U : \A x \in U \ S : Sold(S \cup {x}) = Sold(S) + x.quantity
  BY <1>3
<1> QED
  BY <1>2, <1>4

-------------------------------------------------------------------------------
(* The sales recorded since the level of item i was last written outright *)
Since(i) == {t \in transactions : t.paymentId \in baseline[i].sales}

(* What makes StockBalanced inductive: a sale an item counts has its row,  *)
(* so the row a sale inserts (its payment id is new) is counted once, and  *)
(* for its own item only.                                                  *)
StockInv ==
  /\ IsFiniteSet(transactions)
  /\ \A i \in Items : \A p \in baseline[i].sales : \E t \in transactions : t.paymentId = p
  /\ \A i \in Items : items[i].quantity = baseline[i].level - Sold(Since(i))

(* Every step of a request keeps the balance *)
LEMMA StockStep ==
  ASSUME SalesInv, StockInv, [Next]_vars
  PROVE  StockInv'
<1>1. /\ calls \in [InventoryCalls -> {Idle} \cup SaleCall \cup UpdateCall \cup RemoveCall]
      /\ items \in [Items -> ItemRow]
      /\ baseline \in [Items -> [level : Levels \cup {0}, sales : SUBSET PaymentIds]]
      /\ transactions \subseteq TransactionRow
  BY DEF SalesInv, TypeOK, InventoryTypeOK
<1>2. Sold({}) = 0
  BY FS_EmptySet, SoldStep
<1>3. CASE UNCHANGED <<items, transactions, baseline>>
  <2>1. \A i \in Items : Since(i)' = Since(i)
    BY <1>3 DEF Since
  <2> QED
    BY <1>3, <2>1 DEF StockInv
<1>4. ASSUME NEW k \in Items, UNCHANGED transactions,
             \A i \in Items \ {k} : baseline'[i] = baseline[i] /\ items'[i] = items[i],
             \/ /\ baseline'[k].sales = {}
                /\ items'[k].quantity \in Int /\ items'[k].quantity = baseline'[k].level
             \/ baseline'[k] = baseline[k] /\ items'[k].quantity = items[k].quantity
      PROVE  StockInv'
  <2>1. \A i \in Items \ {k} : Since(i)' = Since(i)
    BY <1>4 DEF Since
  <2>2. baseline'[k].sales = {} => Since(k)' = {}
    BY DEF Since
  <2>3. baseline'[k] = baseline[k] => Since(k)' = Since(k)
    BY <1>4 DEF Since
  <2>4. \A i \in Items : items'[i].quantity = baseline'[i].level - Sold(Since(i)')
    <3>1. ASSUME NEW i \in Items \ {k}
          PROVE  items'[i].quantity = baseline'[i].level - Sold(Since(i)')
      BY <1>4, <2>1 DEF StockInv
    <3>2. CASE baseline'[k].sales = {} /\ items'[k].quantity \in Int
               /\ items'[k].quantity = baseline'[k].level
      <4>1. Sold(Since(k)') = 0
        BY <1>2, <2>2, <3>2
      <4> QED
        BY <3>1, <3>2, <4>1
    <3>3. CASE baseline'[k] = baseline[k] /\ items'[k].quantity = items[k].quantity
      BY <2>3, <3>1, <3>3 DEF StockInv
    <3> QED
      BY <1>4, <3>2, <3>3
  <2>5. \A i \in Items : \A p \in baseline'[i].sales : \E t \in transactions : t.paymentId = p
    BY <1>4 DEF StockInv
  <2> QED
    BY <1>4, <2>4, <2>5 DEF StockInv
<1>5. ASSUME NEW k \in Items, NEW price \in Prices, NEW level \in Levels,
             CreateItem(k, price, level)
      PROVE  StockInv'
  <2>1. items'[k].quantity = level /\ baseline'[k].level = level /\ baseline'[k].sales = {}
    BY <1>1, <1>5 DEF CreateItem
  <2>2. level \in Int
    OBVIOUS
  <2>3. \A i \in Items \ {k} : baseline'[i] = baseline[i] /\ items'[i] = items[i]
    BY <1>1, <1>5 DEF CreateItem
  <2>4. UNCHANGED transactions
    BY <1>5 DEF CreateItem
  <2> QED
    BY <1>4, <2>1, <2>2, <2>3, <2>4
<1>6. ASSUME NEW c \in InventoryCalls, ApplyUpdate(c)
      PROVE  StockInv'
  <2>1. calls[c] \in UpdateCall
    BY <1>1, <1>6 DEF ApplyUpdate, Idle, SaleCall, RemoveCall
  <2>2. PICK k \in Items : k = calls[c].itemId
    BY <2>1 DEF UpdateCall
  <2>3. calls[c].quantity \in Int
    BY <2>1, DtoTypes DEF UpdateCall
  <2>4. UNCHANGED transactions
    BY <1>6 DEF ApplyUpdate
  <2>5. \A i \in Items \ {k} : baseline'[i] = baseline[i] /\ items'[i] = items[i]
    BY <1>1, <1>6, <2>2 DEF ApplyUpdate
  <2>6. CASE "quantity" \in calls[c].fields
    <3>1. /\ baseline'[k].sales = {} /\ baseline'[k].level = calls[c].quantity
          /\ items'[k].quantity = calls[c].quantity
      BY <1>1, <1>6, <2>2, <2>6 DEF ApplyUpdate
    <3> QED
      BY <1>4, <2>3, <2>4, <2>5, <3>1
  <2>7. CASE "quantity" \notin calls[c].fields
    <3>1. baseline'[k] = baseline[k] /\ items'[k].quantity = items[k].quantity
      BY <1>1, <1>6, <2>2, <2>7 DEF ApplyUpdate
    <3> QED
      BY <1>4, <2>4, <2>5, <3>1
  <2> QED
    BY <2>6, <2>7
<1>7. ASSUME NEW c \in InventoryCalls, ApplyRemove(c)
      PROVE  StockInv'
  <2>1. calls[c] \in RemoveCall
    BY <1>1, <1>7 DEF ApplyRemove, Idle, SaleCall, UpdateCall
  <2>2. PICK k \in Items : k = calls[c].itemId
    BY <2>1 DEF RemoveCall
  <2>3. /\ UNCHANGED transactions
        /\ \A i \in Items \ {k} : baseline'[i] = baseline[i] /\ items'[i] = items[i]
        /\ baseline'[k] = baseline[k] /\ items'[k].quantity = items[k].quantity
    BY <1>1, <1>7, <2>2 DEF ApplyRemove
  <2> QED
    BY <1>4, <2>3
<1>8. ASSUME NEW c \in InventoryCalls, NEW p \in PaymentIds, RecordSale(c, p)
      PROVE  StockInv'
  <2>1. calls[c] \in SaleCall
    BY <1>1, <1>8 DEF RecordSale, Idle, UpdateCall, RemoveCall
  <2>2. PICK k \in Items : k = calls[c].itemId
    BY <2>1 DEF SaleCall
  <2>3. PICK sold : sold = [itemId |-> calls[c].itemId, businessId |-> calls[c].businessId,
                            quantity |-> calls[c].quantity,
                            unitPrice |-> Stored(calls[c].unitPrice), paymentId |-> p]
    OBVIOUS
  <2>4. sold.paymentId = p /\ sold.quantity = calls[c].quantity /\ sold.quantity \in Int
    BY <2>1, <2>3, DtoTypes DEF SaleCall
  <2>5. transactions' = transactions \cup {sold}
    BY <1>8, <2>3 DEF RecordSale
  <2>6. \A t \in transactions : t.paymentId # p
    BY <1>8 DEF RecordSale, SalesInv, SalesArePaid
  <2>7. sold \notin transactions
    BY <2>4, <2>6
  <2>8. IsFiniteSet(transactions) /\ IsFiniteSet(transactions')
    BY <2>5, FS_AddElement DEF StockInv
  <2>9. \A t \in transactions' : t.quantity \in Int
    BY <1>1, <2>4, <2>5, DtoTypes DEF TransactionRow
  <2>10. /\ \A i \in Items \ {k} : /\ baseline'[i] = baseline[i]
                                   /\ items'[i].quantity = items[i].quantity
         /\ items'[k].quantity = items[k].quantity - sold.quantity
         /\ baseline'[k].level = baseline[k].level
         /\ baseline'[k].sales = baseline[k].sales \cup {p}
    BY <1>1, <1>8, <2>2, <2>4 DEF RecordSale, Decremented
  <2>11. \A i \in Items : p \notin baseline[i].sales
    BY <2>6 DEF StockInv
  <2>12. ASSUME NEW i \in Items \ {k} PROVE Since(i)' = Since(i)
    BY <2>4, <2>5, <2>10, <2>11 DEF Since
  <2>13. Since(k)' = Since(k) \cup {sold}
    BY <2>4, <2>5, <2>6, <2>10 DEF Since
  <2>14. Sold(Since(k)') = Sold(Since(k)) + sold.quantity /\ Sold(Since(k)) \in Int
    <3>1. Since(k) \in SUBSET transactions' /\ sold \in transactions' \ Since(k)
      BY <2>5, <2>7 DEF Since
    <3> QED
      BY <2>8, <2>9, <2>13, <3>1, SoldAdds
  <2>15. items[k].quantity \in Int /\ baseline[k].level \in Int
    <3>1. items[k].quantity \in Int
      BY <1>1 DEF ItemRow
    <3>2. baseline[k].level \in Levels \cup {0}
      BY <1>1
    <3>3. ASSUME NEW level \in Levels \cup {0} PROVE level \in Int
      <4>1. level = 0 \/ level \in Levels
        OBVIOUS
      <4> QED
        BY <4>1, DtoTypes
    <3> QED
      BY <3>1, <3>2, <3>3
  <2>16. items'[k].quantity = baseline'[k].level - Sold(Since(k)')
    <3>1. items[k].quantity = baseline[k].level - Sold(Since(k))
      BY DEF StockInv
    <3> QED
      BY <2>4, <2>10, <2>14, <2>15, <3>1
  <2>17. \A i \in Items : items'[i].quantity = baseline'[i].level - Sold(Since(i)')
    BY <2>10, <2>12, <2>16 DEF StockInv
  <2>18. \A i \in Items : \A r \in baseline'[i].sales :
           \E t \in transactions' : t.paymentId = r
    BY <2>4, <2>5, <2>10 DEF StockInv
  <2> QED
    BY <2>8, <2>17, <2>18 DEF StockInv
<1>9. CASE InventoryNext
  BY <1>3, <1>5, <1>6, <1>7, <1>8, <1>9
     DEF InventoryNext, CheckSale, FindForUpdate, FindForRemove, Abandon
<1>10. CASE UNCHANGED vars \/ UNCHANGED inventoryVars
  BY <1>3, <1>10 DEF vars, inventoryVars
<1> QED
  BY <1>9, <1>10 DEF Next

(* No sale is lost from the stock and none is taken from it twice          *)
(* (inventory.service.ts:161-186): an item holds what was last written to  *)
(* it outright less everything sold since, for any number of requests,     *)
(* items and sales in any order.                                           *)
THEOREM StockAlwaysBalanced == Spec => []StockBalanced
<1>1. Init => StockInv
  <2> SUFFICES ASSUME Init PROVE StockInv
    OBVIOUS
  <2>1. IsFiniteSet(transactions)
    BY FS_EmptySet DEF Init, InventoryInit
  <2>2. Sold({}) = 0
    BY FS_EmptySet, SoldStep
  <2>3. \A i \in Items : Since(i) = {}
    BY DEF Since, Init, InventoryInit
  <2>4. \A i \in Items : /\ items[i].quantity = 0 /\ baseline[i].level = 0
                         /\ baseline[i].sales = {}
    BY DEF Init, InventoryInit
  <2> QED
    <3>1. \A i \in Items : items[i].quantity = baseline[i].level - Sold(Since(i))
      <4> TAKE i \in Items
      <4>1. Sold(Since(i)) = 0
        BY <2>2, <2>3
      <4> QED
        BY <2>4, <4>1
    <3> QED
      BY <2>1, <2>4, <3>1 DEF StockInv
<1>2. SalesInv /\ StockInv /\ [Next]_vars => StockInv'
  BY StockStep
<1>3. StockInv => StockBalanced
  BY DEF StockInv, StockBalanced, Since, Sold, MapThenSumSet, MapThenFoldSet
<1> QED
  BY <1>1, <1>2, <1>3, SalesInvHolds, PTL DEF Spec
===============================================================================
