------------------------------- MODULE Payments -------------------------------
(***************************************************************************)
(* PaymentsService.refund and batchRefund                                  *)
(* (src/modules/payments/payments.service.ts:75-130).  A refund is three   *)
(* awaits with nothing around them: read the payment, insert a refund row, *)
(* update the status of the payment.  batchRefund runs full refunds one    *)
(* after the other, catches what one throws and goes on.  A single refund  *)
(* is here a batch of one: what it throws ends the request, as it does     *)
(* when the list is exhausted.                                             *)
(***************************************************************************)
EXTENDS PaymentTable

CONSTANTS
  RefundCalls,   \* slots for refund requests in flight at the same time
  RefundIds,     \* ids of refund rows (uuids): bounds the number of refunds
  Amounts,       \* dto.amount, any number (see Stored)
  Whole,         \* dto.amount left out: the whole payment
  Batches        \* dto.ids of a batch; an id may occur twice

ASSUME PaymentsAssumption ==
  /\ Amounts \subseteq Int
  /\ Whole \notin Int
  /\ Batches \subseteq Seq(PaymentIds)

VARIABLES
  refunds,       \* the PaymentRefund rows
  refunding,     \* refunding[c]: what the refund request in slot c holds
  interrupted    \* history: payments with a refund whose request ended between
                 \* the insert of the refund row and the update of the payment

refundVars == <<refunds, refunding, interrupted>>

RefundRow == [id : RefundIds, paymentId : PaymentIds, amount : Int, createdFor : Businesses]

RefundCall == [step : {"idle", "find", "create", "mark"}, businessId : Businesses,
               todo : Seq(PaymentIds), asked : Amounts \cup {Whole},
               amount : Int, full : BOOLEAN]

IdleRefund == [step |-> "idle", businessId |-> CHOOSE b \in Businesses : TRUE,
               todo |-> <<>>, asked |-> Whole, amount |-> 0, full |-> FALSE]

PaymentsModuleInit ==
  /\ refunds = {}
  /\ refunding = [c \in RefundCalls |-> IdleRefund]
  /\ interrupted = {}

Current(c) == Head(refunding[c].todo)

(* batchRefund's for loop: the next id, or the answer after the last one.  *)
(* A batch of one is answered here too, and so is a refund that threw.     *)
NextInBatch(c) ==
  LET rest == Tail(refunding[c].todo) IN
  refunding' = [refunding EXCEPT ![c] =
    IF rest = <<>> THEN IdleRefund
    ELSE [refunding[c] EXCEPT !.step = "find", !.todo = rest]]

-------------------------------------------------------------------------------
FindPaymentOfAnyBusiness(b, p) == Paid(p)
FindPayment(b, p) == Paid(p) /\ payments[p].businessId = b

(* dto.amount ?? Number(payment.amount) *)
RefundAmount(asked, p) == IF asked = Whole THEN payments[p].amount ELSE asked

AmountUnchecked(amount, p) == TRUE
AmountValid(amount, p) == amount > 0 /\ amount <= payments[p].amount

AlwaysRefunded(full) == "refunded"
PaidUnlessFull(full) == IF full THEN "refunded" ELSE "paid"
UnknownStatus(full) == IF full THEN "refunded" ELSE "partial"
RefundedStatus(full) == IF full THEN "refunded" ELSE "partially_refunded"

-------------------------------------------------------------------------------
StartRefund(c, b, ids, asked) ==
  /\ refunding[c].step = "idle"
  /\ refunding' = [refunding EXCEPT ![c] =
       [step |-> "find", businessId |-> b, todo |-> ids, asked |-> asked,
        amount |-> 0, full |-> FALSE]]
  /\ UNCHANGED <<refunds, interrupted, payments>>

(* findFirst, the choice and the check of the amount; full is the test     *)
(* amount === Number(payment.amount) of the status update, on this read    *)
AcceptRefund(c) ==
  LET p == Current(c)
      amount == RefundAmount(refunding[c].asked, p)
  IN
  /\ refunding[c].step = "find"
  /\ FindPayment(refunding[c].businessId, p)
  /\ AmountValid(amount, p)
  /\ refunding' = [refunding EXCEPT ![c] =
       [refunding[c] EXCEPT !.step = "create", !.amount = amount,
                            !.full = (amount = payments[p].amount)]]
  /\ UNCHANGED <<refunds, interrupted, payments>>

(* 'Payment not found', 'Refund amount is invalid' *)
RejectRefund(c) ==
  LET p == Current(c) IN
  /\ refunding[c].step = "find"
  /\ \/ ~FindPayment(refunding[c].businessId, p)
     \/ ~AmountValid(RefundAmount(refunding[c].asked, p), p)
  /\ NextInBatch(c)
  /\ UNCHANGED <<refunds, interrupted, payments>>

CreateRefund(c, r) ==
  /\ refunding[c].step = "create"
  /\ \A row \in refunds : row.id # r
  /\ refunds' = refunds \cup
       {[id |-> r, paymentId |-> Current(c), amount |-> Stored(refunding[c].amount),
         createdFor |-> refunding[c].businessId]}
  /\ refunding' = [refunding EXCEPT ![c].step = "mark"]
  /\ UNCHANGED <<interrupted, payments>>

MarkPayment(c) ==
  /\ refunding[c].step = "mark"
  /\ payments' = [payments EXCEPT ![Current(c)].status = RefundedStatus(refunding[c].full)]
  /\ NextInBatch(c)
  /\ UNCHANGED <<refunds, interrupted>>

(* A call of the database throws: batchRefund records the id as failed and *)
(* goes on, refund ends.  What was written before stays.                   *)
StepThrows(c) ==
  /\ refunding[c].step # "idle"
  /\ NextInBatch(c)
  /\ interrupted' = interrupted \cup
       (IF refunding[c].step = "mark" THEN {Current(c)} ELSE {})
  /\ UNCHANGED <<refunds, payments>>

(* The process dies with the request. *)
RefundCrashes(c) ==
  /\ refunding[c].step # "idle"
  /\ refunding' = [refunding EXCEPT ![c] = IdleRefund]
  /\ interrupted' = interrupted \cup
       (IF refunding[c].step = "mark" THEN {Current(c)} ELSE {})
  /\ UNCHANGED <<refunds, payments>>

PaymentsNext ==
  \E c \in RefundCalls :
    \/ \E b \in Businesses, p \in PaymentIds, asked \in Amounts \cup {Whole} :
         StartRefund(c, b, <<p>>, asked)
    \/ \E b \in Businesses, ids \in Batches \ {<<>>} : StartRefund(c, b, ids, Whole)
    \/ AcceptRefund(c)
    \/ RejectRefund(c)
    \/ \E r \in RefundIds : CreateRefund(c, r)
    \/ MarkPayment(c)
    \/ StepThrows(c)
    \/ RefundCrashes(c)

-------------------------------------------------------------------------------
PaymentsTypeOK ==
  /\ payments \in [PaymentIds -> PaymentRow]
  /\ refunds \subseteq RefundRow
  /\ refunding \in [RefundCalls -> RefundCall]
  /\ interrupted \subseteq PaymentIds

(* A refund row belongs to a payment that exists and, taken alone and as   *)
(* rounded, is not negative and at most what was paid: the check reads the *)
(* payment two awaits before the row is there (payments.service.ts:86).    *)
EachRefundWithinPayment ==
  \A row \in refunds :
    /\ Paid(row.paymentId)
    /\ 0 <= row.amount
    /\ row.amount <= payments[row.paymentId].amount

(* The status never claims a refund that was not made: 'refunded' needs a  *)
(* refund row of the whole amount, 'partially_refunded' a refund row, in    *)
(* whatever order concurrent refunds of one payment write the two tables.  *)
StatusHasCause ==
  \A p \in PaymentIds :
    /\ payments[p].status = "refunded" =>
         \E row \in refunds : row.paymentId = p /\ row.amount = payments[p].amount
    /\ payments[p].status = "partially_refunded" =>
         \E row \in refunds : row.paymentId = p

(* Partial failure (payments.service.ts:89-103): a payment that has a      *)
(* refund row and still reads 'paid' is one whose refund is between its    *)
(* two writes or was cut there by an exception or a crash.                 *)
UnmarkedRefundIsInterrupted ==
  \A row \in refunds :
    payments[row.paymentId].status = "paid" =>
      \/ row.paymentId \in interrupted
      \/ \E c \in RefundCalls : refunding[c].step = "mark" /\ Current(c) = row.paymentId
===============================================================================
