---------------------------- MODULE BookingsProofs ----------------------------
(***************************************************************************)
(* Bookings with the notices they cause, for any number of businesses,     *)
(* clients, bookings, devices and requests.  The invariant has four parts  *)
(* beside that of the notices, each with what a request or a notice in     *)
(* flight may rely on; that of the cars comes last and rests on the others. *)
(***************************************************************************)
EXTENDS Bookings, NotificationsProofs

USE NotificationsAssumption, BookingsAssumption

(* A request that tells somebody something has done what it was for. *)
Apart == \A r \in Requests : ~(Busy(r) /\ Telling(r))

-------------------------------------------------------------------------------
(* The rows: a customer and a car that somebody is about to use are of the *)
(* business they were looked up for.                                       *)
Of(i, b) == i \in Stored(customers) /\ BusinessOf(i) = b
CarOf(a, b) == a \in Stored(cars) /\ Of(cars[a].customerId, b)

CallLinked(call) ==
  /\ call.op \in {"create", "book"} =>
       Of(call.customerId, call.businessId) /\ CarOf(call.carId, call.businessId)
  /\ call.op = "findCar" =>
       call.customerId = New \/ Of(call.customerId, call.businessId)
  /\ call.op = "createCar" => Of(call.customerId, call.businessId)
  /\ call.op = "update" /\ call.id \in Stored(bookings) =>
       /\ call.customerId = New \/ Of(call.customerId, bookings[call.id].businessId)
       /\ call.carId = New \/ CarOf(call.carId, bookings[call.id].businessId)

Linked ==
  /\ \A a \in Stored(cars) : cars[a].customerId \in Stored(customers)
  /\ \A k \in Stored(bookings) :
       /\ Of(bookings[k].customerId, bookings[k].businessId)
       /\ CarOf(bookings[k].carId, bookings[k].businessId)
  /\ \A r \in Requests : CallLinked(requests[r])

PastOK == past \in [BookingIds -> SUBSET (Statuses \cup Users \cup {NoEmail})]

(* The id of a booking is not used again. *)
Begun ==
  \A r \in Requests :
    /\ requests[r].op \in {"update", "remove", "cancel"} => past[requests[r].id] # {}
    /\ Telling(r) => \A k \in notices[r].bookingIds : past[k] # {}

RowInv == Linked /\ PastOK /\ Begun

-------------------------------------------------------------------------------
(* The messages: what a notice is about to say is true, or was. *)
PastHolds ==
  \A k \in Stored(bookings) :
    {bookings[k].status, bookings[k].businessId, EmailOf(bookings[k].customerId)} \subseteq past[k]

NewsTrue(call) ==
  /\ \A d \in call.todo :
       /\ d.bookingId \in call.bookingIds /\ d.news = call.news
       /\ d.to \in past[d.bookingId]
       /\ d.news \in Statuses => d.news \in past[d.bookingId]
  /\ call.step = "lookup" /\ call.news \in Statuses =>
       \A k \in call.bookingIds : k \in Stored(bookings) =>
         call.news \in past[k] \/ bookings[k].businessId # call.businessId

MessageInv ==
  PastHolds /\ MessagesTrue /\ \A r \in Requests : Telling(r) => NewsTrue(notices[r])

-------------------------------------------------------------------------------
(* The status the client knows: the one of the booking, or a notice with   *)
(* it is on its way; and nobody who is not overtaken has an older one.     *)
Says(r, k) == Telling(r) /\ notices[r].news \in Statuses /\ k \in notices[r].bookingIds
Changes(r, k) == requests[r].op = "update" /\ requests[r].id = k

Owes(r, k) ==
  /\ Says(r, k) /\ notices[r].news = bookings[k].status
  /\ notices[r].step = "lookup" \/ \E d \in notices[r].todo : d.bookingId = k

Informed(k) ==
  /\ Heard(k) = bookings[k].status \/ \E r \in Requests : Owes(r, k)
  /\ \A r \in Requests :
       Says(r, k) /\ bookings[k].businessId = notices[r].businessId
       => notices[r].news = bookings[k].status
  /\ \A r \in Requests : Changes(r, k) => requests[r].existing = bookings[k].status

TodoOfBusiness ==
  \A r \in Requests : Telling(r) /\ notices[r].news \in Statuses =>
    \A d \in notices[r].todo : d.bookingId \in Stored(bookings) =>
      bookings[d.bookingId].businessId = notices[r].businessId

StatusInv == TodoOfBusiness /\ \A k \in Stored(bookings) \ muddled : Informed(k)

-------------------------------------------------------------------------------
(* The customers a client is: who is about to create one found none, and   *)
(* two who are about to do so have overlapped.                             *)
Creating(r, b, c) ==
  /\ requests[r].op = "findCar" /\ requests[r].customerId = New
  /\ requests[r].businessId = b /\ requests[r].client = c

IsClient(i, b, c) == customers[i].mobile /\ BusinessOf(i) = b /\ EmailOf(i) = c

CustomerInv ==
  /\ OneCustomerPerClient
  /\ \A r \in Requests, b \in Businesses, c \in Clients \ raced :
       Creating(r, b, c) =>
         /\ \A i \in Stored(customers) : ~IsClient(i, b, c)
         /\ \A q \in Requests : Creating(q, b, c) => q = r

BookingsInv ==
  TypeOK /\ Apart /\ NoticeInv /\ RowInv /\ MessageInv /\ StatusInv /\ CustomerInv

-------------------------------------------------------------------------------
(* Rows and requests are what they seem. *)
BaseInv == TypeOK /\ Apart /\ NoticeInv /\ RowInv

LEMMA RowsReal == NoRow \notin BookingRow /\ NoRow \notin CustomerRow /\ NoRow \notin CarRow
BY DEF NoRow, BookingRow, CustomerRow, CarRow

LEMMA CallTyped ==
  ASSUME NEW call \in RequestRecord
  PROVE  /\ call.op \in {"create", "book"} =>
              call.businessId \in Businesses /\ call.customerId \in CustomerIds /\ call.carId \in CarIds
         /\ call.op = "update" =>
              /\ call.id \in BookingIds /\ call.status \in Statuses \cup {Kept}
              /\ call.customerId \in CustomerIds \cup {New} /\ call.carId \in CarIds \cup {New}
              /\ call.existing \in Statuses
         /\ call.op \in {"remove", "cancel"} => call.id \in BookingIds
         /\ call.op = "findCar" =>
              /\ call.businessId \in Businesses /\ call.client \in Clients /\ call.vehicle \in Vehicles
              /\ call.customerId \in CustomerIds \cup {New}
         /\ call.op = "createCar" =>
              /\ call.businessId \in Businesses /\ call.customerId \in CustomerIds
              /\ call.vehicle \in Vehicles
         /\ call = Idle <=> call.op = "idle"
         /\ call.op \in {"idle", "create", "book", "update", "remove", "cancel", "findCar", "createCar"}
BY DEF RequestRecord, Idle

LEMMA RowTyped ==
  ASSUME TypeOK
  PROVE  /\ \A k \in Stored(bookings) : k \in BookingIds /\ bookings[k] \in BookingRow
         /\ \A i \in Stored(customers) : i \in CustomerIds /\ customers[i] \in CustomerRow
         /\ \A a \in Stored(cars) : a \in CarIds /\ cars[a] \in CarRow
         /\ \A k \in BookingIds : k \in Stored(bookings) <=> bookings[k] # NoRow
         /\ \A i \in CustomerIds : i \in Stored(customers) <=> customers[i] # NoRow
         /\ \A a \in CarIds : a \in Stored(cars) <=> cars[a] # NoRow
BY DEF TypeOK, Stored

LEMMA OfTyped ==
  ASSUME TypeOK, NEW i, NEW b, Of(i, b)
  PROVE  /\ i \in CustomerIds /\ b \in Businesses /\ customers[i] \in CustomerRow
         /\ EmailOf(i) \in Clients \cup {NoEmail}
BY RowTyped DEF Of, BusinessOf, EmailOf, CustomerRow

(* A request has an end, a beginning and something to tell. *)
LEMMA Begins ==
  ASSUME BaseInv, NEW r \in Requests, NEW call \in RequestRecord, Start(r, call)
  PROVE  /\ requests' \in [Requests -> RequestRecord] /\ requests'[r] = call
         /\ \A q \in Requests \ {r} : requests'[q] = requests[q]
         /\ ~Busy(r) /\ ~Telling(r) /\ requests[r].op = "idle"
         /\ calls' \in 0..MaxCalls
BY DEF BaseInv, Start, TypeOK, Count, NotificationsTypeOK, Busy, Idle

LEMMA Ends ==
  ASSUME BaseInv, NEW r \in Requests, requests' = [requests EXCEPT ![r] = Idle]
  PROVE  /\ requests' \in [Requests -> RequestRecord] /\ requests'[r] = Idle
         /\ \A q \in Requests \ {r} : requests'[q] = requests[q]
BY DEF BaseInv, TypeOK, RequestRecord

LEMMA BusyTyped ==
  ASSUME BaseInv, NEW r \in Requests, requests[r].op # "idle"
  PROVE  /\ requests[r] \in RequestRecord /\ Busy(r) /\ ~Telling(r)
         /\ CallLinked(requests[r])
BY DEF BaseInv, TypeOK, Busy, Idle, Apart, RowInv, Linked

(* What a step may do to the rows: customers and cars stay whose they are, *)
(* and a booking whose id was used is the one it was.                      *)
RowsMove ==
  /\ \A i \in CustomerIds, b \in Businesses : Of(i, b) => Of(i, b)'
  /\ \A a \in CarIds, b \in Businesses : CarOf(a, b) => CarOf(a, b)'
  /\ \A a \in CarIds : a \in Stored(cars)' => cars'[a].customerId \in Stored(customers)'
  /\ \A k \in BookingIds : k \in Stored(bookings)' =>
       /\ Of(bookings[k].customerId, bookings[k].businessId)'
       /\ CarOf(bookings[k].carId, bookings[k].businessId)'
       /\ past[k] # {} =>
            k \in Stored(bookings) /\ bookings'[k].businessId = bookings[k].businessId
  /\ PastOK' /\ \A k \in BookingIds : past[k] \subseteq past'[k]

(* and to a request and to its notice *)
CallBegun(call) == call.op \in {"update", "remove", "cancel"} => past[call.id] # {}
NewsBegun(call) == call # NoNotice => \A k \in call.bookingIds : past[k] # {}

LEMMA LinkedMove ==
  ASSUME BaseInv, RowsMove, TypeOK', NEW call \in RequestRecord, CallLinked(call), CallBegun(call)
  PROVE  CallLinked(call)' /\ CallBegun(call)'
<1>1. CASE call.op \in {"create", "book"}
  BY <1>1, CallTyped DEF CallLinked, CallBegun, RowsMove
<1>2. CASE call.op \in {"findCar", "createCar"}
  BY <1>2, CallTyped DEF CallLinked, CallBegun, RowsMove
<1>3. CASE call.op = "update"
  <2>1. /\ call.id \in BookingIds /\ call.customerId \in CustomerIds \cup {New}
        /\ call.carId \in CarIds \cup {New} /\ past[call.id] # {}
    BY <1>3, CallTyped DEF CallBegun
  <2>2. past'[call.id] # {}
    BY <2>1 DEF RowsMove
  <2>3. ASSUME call.id \in Stored(bookings)'
        PROVE  /\ call.customerId = New \/ Of(call.customerId, bookings[call.id].businessId)'
               /\ call.carId = New \/ CarOf(call.carId, bookings[call.id].businessId)'
    <3>1. call.id \in Stored(bookings) /\ bookings'[call.id].businessId = bookings[call.id].businessId
      BY <2>1, <2>3 DEF RowsMove
    <3>2. PICK b \in Businesses : b = bookings[call.id].businessId
      BY <3>1, RowTyped DEF BookingRow, BaseInv
    <3>3. call.customerId = New \/ Of(call.customerId, b)
      BY <1>3, <3>1, <3>2 DEF CallLinked
    <3>4. call.carId = New \/ CarOf(call.carId, b)
      BY <1>3, <3>1, <3>2 DEF CallLinked
    <3>5. call.customerId = New \/ Of(call.customerId, b)'
      BY <2>1, <3>3 DEF RowsMove
    <3>6. call.carId = New \/ CarOf(call.carId, b)'
      BY <2>1, <3>4 DEF RowsMove
    <3>7. b = bookings'[call.id].businessId
      BY <3>1, <3>2
    <3> QED
      BY <3>5, <3>6, <3>7 DEF Of, CarOf
  <2> QED
    BY <1>3, <2>2, <2>3 DEF CallLinked, CallBegun
<1>4. CASE call.op \in {"remove", "cancel"}
  BY <1>4, CallTyped DEF CallLinked, CallBegun, RowsMove
<1>5. CASE call.op = "idle"
  BY <1>5 DEF CallLinked, CallBegun
<1> QED
  BY <1>1, <1>2, <1>3, <1>4, <1>5, CallTyped

LEMMA RowsMoveKeeps ==
  ASSUME BaseInv, TypeOK', RowsMove,
         \A q \in Requests :
           requests'[q] = requests[q] \/ (CallLinked(requests[q]) /\ CallBegun(requests[q]))',
         \A q \in Requests :
           (Telling(q)' => Telling(q) /\ notices'[q].bookingIds = notices[q].bookingIds)
             \/ NewsBegun(notices[q])'
  PROVE  RowInv'
<1>1. ASSUME NEW q \in Requests
      PROVE  (CallLinked(requests[q]) /\ CallBegun(requests[q]))'
  <2>1. CASE requests'[q] = requests[q]
    <3>1. requests[q] \in RequestRecord /\ CallLinked(requests[q]) /\ CallBegun(requests[q])
      BY DEF BaseInv, TypeOK, RowInv, Linked, Begun, CallBegun
    <3>2. CallLinked(requests[q])' /\ CallBegun(requests[q])' 
      <4>1. PICK call \in RequestRecord : call = requests[q]
        BY <3>1
      <4>2. CallLinked(call)' /\ CallBegun(call)'
        BY <3>1, <4>1, LinkedMove
      <4> QED
        BY <4>1, <4>2, <2>1 DEF CallLinked, CallBegun
    <3> QED
      BY <3>2
  <2> QED
    BY <2>1
<1>2. ASSUME NEW q \in Requests, Telling(q)', NEW k \in notices'[q].bookingIds
      PROVE  past'[k] # {}
  <2>1. CASE Telling(q) /\ notices'[q].bookingIds = notices[q].bookingIds
    <3>1. past[k] # {}
      BY <1>2, <2>1 DEF BaseInv, RowInv, Begun
    <3>2. k \in BookingIds
      BY <1>2, <2>1, TellingTyped DEF BaseInv, Notice
    <3> QED
      BY <3>1, <3>2 DEF RowsMove
  <2>2. CASE NewsBegun(notices[q])'
    BY <1>2, <2>2 DEF NewsBegun, Telling
  <2> QED
    BY <1>2, <2>1, <2>2
<1>3. Linked'
  <2>1. \A a : a \in Stored(cars)' => a \in CarIds
    BY DEF Stored, TypeOK
  <2>2. \A k : k \in Stored(bookings)' => k \in BookingIds
    BY DEF Stored, TypeOK
  <2> QED
    BY <1>1, <2>1, <2>2 DEF Linked, RowsMove
<1>4. Begun'
  BY <1>1, <1>2 DEF Begun, CallBegun
<1> QED
  BY <1>3, <1>4 DEF RowInv, RowsMove

RowTypes ==
  /\ bookings \in [BookingIds -> BookingRow \cup {NoRow}]
  /\ customers \in [CustomerIds -> CustomerRow \cup {NoRow}]
  /\ cars \in [CarIds -> CarRow \cup {NoRow}]
  /\ made \in [BookingIds -> Statuses]
  /\ knows \in [BookingIds -> Statuses \cup {Unheard}]
  /\ muddled \subseteq BookingIds /\ raced \subseteq Clients
  /\ twinned \subseteq CustomerIds \X Vehicles

(* A step of the request in slot r *)
LEMMA BaseMoves ==
  ASSUME BaseInv, NEW r \in Requests, RowsMove, NoticeInv', RowTypes',
         requests' \in [Requests -> RequestRecord],
         \A q \in Requests \ {r} : requests'[q] = requests[q] /\ notices'[q] = notices[q],
         CallLinked(requests[r])', CallBegun(requests[r])',
         notices'[r] = notices[r] \/ NewsBegun(notices[r])',
         ~(Busy(r) /\ Telling(r))'
  PROVE  BaseInv'
<1>1. TypeOK'
  BY DEF TypeOK, NoticeInv, RowTypes
<1>2. Apart'
  BY DEF BaseInv, Apart, Busy, Telling
<1>3. RowInv'
  <2>1. \A q \in Requests :
          requests'[q] = requests[q] \/ (CallLinked(requests[q]) /\ CallBegun(requests[q]))'
    OBVIOUS
  <2>2. \A q \in Requests :
           (Telling(q)' => Telling(q) /\ notices'[q].bookingIds = notices[q].bookingIds)
             \/ NewsBegun(notices[q])'
    BY DEF Telling
  <2> QED
    BY <1>1, <2>1, <2>2, RowsMoveKeeps
<1> QED
  BY <1>1, <1>2, <1>3 DEF BaseInv

LEMMA RowsStay ==
  ASSUME BaseInv, UNCHANGED <<bookings, customers, cars, past>>
  PROVE  RowsMove
<1>1. \A a \in CarIds : a \in Stored(cars)' => cars'[a].customerId \in Stored(customers)'
  BY DEF BaseInv, RowInv, Linked, Stored
<1>2. \A k \in BookingIds : k \in Stored(bookings)' =>
         k \in Stored(bookings) /\ bookings'[k] = bookings[k]
           /\ Of(bookings[k].customerId, bookings[k].businessId)'
           /\ CarOf(bookings[k].carId, bookings[k].businessId)'
  BY DEF BaseInv, RowInv, Linked, Stored, Of, CarOf, BusinessOf
<1>3. \A i \in CustomerIds, b \in Businesses : Of(i, b) => Of(i, b)'
  BY DEF Of, Stored, BusinessOf
<1>4. \A a \in CarIds, b \in Businesses : CarOf(a, b) => CarOf(a, b)'
  BY DEF CarOf, Of, Stored, BusinessOf
<1> QED
  BY <1>1, <1>2, <1>3, <1>4 DEF RowsMove, BaseInv, RowInv, PastOK

(* Cars are added or change their customer, within one business. *)
LEMMA CarsMove ==
  ASSUME BaseInv, UNCHANGED <<bookings, customers, past>>,
         NEW a \in CarIds, NEW row \in CarRow, cars' = [cars EXCEPT ![a] = row],
         row.customerId \in Stored(customers),
         cars[a] # NoRow => BusinessOf(cars[a].customerId) = BusinessOf(row.customerId)
  PROVE  RowsMove /\ cars' \in [CarIds -> CarRow \cup {NoRow}] /\ CarOf(a, BusinessOf(row.customerId))'
<1>1. /\ cars' \in [CarIds -> CarRow \cup {NoRow}] /\ cars'[a] = row
      /\ \A x \in CarIds \ {a} : cars'[x] = cars[x]
      /\ cars \in [CarIds -> CarRow \cup {NoRow}]
  BY DEF BaseInv, TypeOK
<1>2. /\ \A x \in CarIds : x \in Stored(cars)' <=> x = a \/ x \in Stored(cars)
      /\ \A x : x \in Stored(customers)' <=> x \in Stored(customers)
      /\ \A x : x \in Stored(bookings)' <=> x \in Stored(bookings)
  BY <1>1, RowsReal DEF Stored
<1>3. \A i, b : Of(i, b)' <=> Of(i, b)
  BY <1>2 DEF Of, BusinessOf
<1>4. \A x \in CarIds : x \in Stored(cars)' => cars'[x].customerId \in Stored(customers)'
  BY <1>1, <1>2 DEF BaseInv, RowInv, Linked
<1>5. ASSUME NEW x \in CarIds, NEW b \in Businesses, CarOf(x, b) PROVE CarOf(x, b)'
  <2>1. CASE x = a
    <3>1. cars[a] # NoRow /\ BusinessOf(cars[a].customerId) = b
      BY <1>5, <2>1, RowTyped DEF CarOf, Of, BaseInv
    <3> QED
      BY <1>1, <1>2, <2>1, <3>1 DEF CarOf, Of, BusinessOf
  <2>2. CASE x # a
    BY <1>1, <1>2, <1>3, <1>5, <2>2 DEF CarOf
  <2> QED
    BY <2>1, <2>2
<1>6. CarOf(a, BusinessOf(row.customerId))'
  BY <1>1, <1>2 DEF CarOf, Of, BusinessOf
<1>7. ASSUME NEW k \in BookingIds, k \in Stored(bookings)'
      PROVE  /\ Of(bookings[k].customerId, bookings[k].businessId)'
             /\ CarOf(bookings[k].carId, bookings[k].businessId)'
             /\ k \in Stored(bookings) /\ bookings'[k].businessId = bookings[k].businessId
  <2>1. k \in Stored(bookings) /\ bookings'[k] = bookings[k]
    BY <1>2, <1>7
  <2>2. PICK b \in Businesses, x \in CarIds : b = bookings[k].businessId /\ x = bookings[k].carId
    BY <2>1, RowTyped DEF BaseInv, BookingRow
  <2>3. Of(bookings[k].customerId, b) /\ CarOf(x, b)
    BY <2>1, <2>2 DEF BaseInv, RowInv, Linked
  <2>4. CarOf(x, b)'
    BY <1>5, <2>3
  <2>5. Of(bookings[k].customerId, b)'
    BY <2>1, <2>3, <1>2 DEF Of, BusinessOf
  <2> QED
    BY <2>1, <2>2, <2>4, <2>5 DEF Of, CarOf
<1> QED
  BY <1>1, <1>3, <1>4, <1>5, <1>6, <1>7 DEF RowsMove, BaseInv, RowInv, PastOK

(* A customer is added, or changed without changing its business. *)
LEMMA CustomersMove ==
  ASSUME BaseInv, UNCHANGED <<bookings, cars>>,
         NEW i \in CustomerIds, NEW row \in CustomerRow, customers' = [customers EXCEPT ![i] = row],
         customers[i] # NoRow => BusinessOf(i) = row.businessId,
         PastOK', \A k \in BookingIds : past[k] \subseteq past'[k]
  PROVE  /\ RowsMove /\ customers' \in [CustomerIds -> CustomerRow \cup {NoRow}]
         /\ Of(i, row.businessId)'
<1>1. /\ customers' \in [CustomerIds -> CustomerRow \cup {NoRow}] /\ customers'[i] = row
      /\ \A x \in CustomerIds \ {i} : customers'[x] = customers[x]
      /\ customers \in [CustomerIds -> CustomerRow \cup {NoRow}]
  BY DEF BaseInv, TypeOK
<1>2. /\ \A x \in CustomerIds : x \in Stored(customers)' <=> x = i \/ x \in Stored(customers)
      /\ \A x : x \in Stored(cars)' <=> x \in Stored(cars)
      /\ \A x : x \in Stored(bookings)' <=> x \in Stored(bookings)
  BY <1>1, RowsReal DEF Stored
<1>3. ASSUME NEW x \in CustomerIds, NEW b, Of(x, b) PROVE Of(x, b)'
  <2>1. CASE x = i
    BY <1>1, <1>2, <1>3, <2>1, RowTyped DEF Of, BusinessOf, BaseInv
  <2>2. CASE x # i
    BY <1>1, <1>2, <1>3, <2>2 DEF Of, BusinessOf
  <2> QED
    BY <2>1, <2>2
<1>4. \A a \in Stored(cars) : cars[a].customerId \in CustomerIds /\ cars[a].customerId \in Stored(customers)
  BY RowTyped DEF BaseInv, RowInv, Linked
<1>5. \A a \in CarIds : a \in Stored(cars)' => cars'[a].customerId \in Stored(customers)'
  BY <1>2, <1>4
<1>6. ASSUME NEW a \in CarIds, NEW b, CarOf(a, b) PROVE CarOf(a, b)'
  <2>1. PICK x \in CustomerIds : x = cars[a].customerId
    BY <1>4, <1>6 DEF CarOf
  <2>2. Of(x, b)'
    BY <1>3, <1>6, <2>1 DEF CarOf
  <2> QED
    BY <1>2, <1>6, <2>1, <2>2 DEF CarOf
<1>7. ASSUME NEW k \in BookingIds, k \in Stored(bookings)'
      PROVE  /\ Of(bookings[k].customerId, bookings[k].businessId)'
             /\ CarOf(bookings[k].carId, bookings[k].businessId)'
             /\ k \in Stored(bookings) /\ bookings'[k].businessId = bookings[k].businessId
  <2>1. k \in Stored(bookings) /\ bookings'[k] = bookings[k]
    BY <1>2, <1>7
  <2>2. PICK b \in Businesses, x \in CarIds, c \in CustomerIds :
          b = bookings[k].businessId /\ x = bookings[k].carId /\ c = bookings[k].customerId
    BY <2>1, RowTyped DEF BaseInv, BookingRow
  <2>3. Of(c, b) /\ CarOf(x, b)
    BY <2>1, <2>2 DEF BaseInv, RowInv, Linked
  <2>4. Of(c, b)' /\ CarOf(x, b)'
    BY <1>3, <1>6, <2>3
  <2> QED
    BY <2>1, <2>2, <2>4 DEF Of, CarOf
<1>8. Of(i, row.businessId)'
  BY <1>1, <1>2 DEF Of, BusinessOf
<1> QED
  BY <1>1, <1>3, <1>5, <1>6, <1>7, <1>8 DEF RowsMove

(* A booking is written: anew under an id that was not used, or of the same *)
(* business as before.                                                     *)
LEMMA BookingsMove ==
  ASSUME BaseInv, UNCHANGED <<customers, cars>>,
         NEW k \in BookingIds, NEW row \in BookingRow, PutBooking(k, row),
         Of(row.customerId, row.businessId), CarOf(row.carId, row.businessId),
         past[k] # {} => bookings[k] # NoRow /\ row.businessId = bookings[k].businessId
  PROVE  /\ RowsMove /\ bookings' \in [BookingIds -> BookingRow \cup {NoRow}]
         /\ bookings'[k] = row /\ \A x \in BookingIds \ {k} : bookings'[x] = bookings[x]
         /\ past'[k] = past[k] \cup {row.status, row.businessId, EmailOf(row.customerId)}
         /\ \A x \in BookingIds \ {k} : past'[x] = past[x]
<1>1. /\ bookings' \in [BookingIds -> BookingRow \cup {NoRow}] /\ bookings'[k] = row
      /\ \A x \in BookingIds \ {k} : bookings'[x] = bookings[x]
      /\ bookings \in [BookingIds -> BookingRow \cup {NoRow}]
  BY DEF BaseInv, TypeOK, PutBooking
<1>2. /\ past'[k] = past[k] \cup {row.status, row.businessId, EmailOf(row.customerId)}
      /\ \A x \in BookingIds \ {k} : past'[x] = past[x]
      /\ past \in [BookingIds -> SUBSET (Statuses \cup Users \cup {NoEmail})]
      /\ past' = [past EXCEPT ![k] = past[k] \cup {row.status, row.businessId, EmailOf(row.customerId)}]
  BY DEF BaseInv, RowInv, PastOK, PutBooking
<1>3. {row.status, row.businessId, EmailOf(row.customerId)} \subseteq Statuses \cup Users \cup {NoEmail}
  BY OfTyped DEF BaseInv, BookingRow
<1>4. PastOK' /\ \A x \in BookingIds : past[x] \subseteq past'[x]
  BY <1>2, <1>3 DEF PastOK
<1>5. /\ \A i, b : Of(i, b)' <=> Of(i, b)
      /\ \A a, b : CarOf(a, b)' <=> CarOf(a, b)
      /\ \A x : x \in Stored(cars)' <=> x \in Stored(cars)
      /\ \A x : x \in Stored(customers)' <=> x \in Stored(customers)
      /\ \A x \in BookingIds : x \in Stored(bookings)' <=> x = k \/ x \in Stored(bookings)
  BY <1>1, RowsReal DEF Of, CarOf, BusinessOf, Stored
<1>6. ASSUME NEW x \in BookingIds, x \in Stored(bookings)'
      PROVE  /\ Of(bookings[x].customerId, bookings[x].businessId)'
             /\ CarOf(bookings[x].carId, bookings[x].businessId)'
             /\ past[x] # {} => x \in Stored(bookings) /\ bookings'[x].businessId = bookings[x].businessId
  <2>1. CASE x = k
    <3>1. Of(bookings[x].customerId, bookings[x].businessId)'
             /\ CarOf(bookings[x].carId, bookings[x].businessId)'
      BY <1>1, <2>1, <1>5 DEF Of, CarOf, BusinessOf
    <3>2. past[x] # {} => x \in Stored(bookings) /\ bookings'[x].businessId = bookings[x].businessId
      BY <1>1, <2>1, RowTyped DEF BaseInv
    <3> QED
      BY <3>1, <3>2
  <2>2. CASE x # k
    <3>1. x \in Stored(bookings) /\ bookings'[x] = bookings[x]
      BY <1>1, <1>5, <1>6, <2>2
    <3>2. Of(bookings[x].customerId, bookings[x].businessId)
          /\ CarOf(bookings[x].carId, bookings[x].businessId)
      BY <3>1 DEF BaseInv, RowInv, Linked
    <3> QED
      BY <1>5, <3>1, <3>2 DEF Of, CarOf, BusinessOf
  <2> QED
    BY <2>1, <2>2
<1>7. \A a \in CarIds : a \in Stored(cars)' => cars'[a].customerId \in Stored(customers)'
  BY <1>5 DEF BaseInv, RowInv, Linked
<1> QED
  BY <1>1, <1>2, <1>4, <1>5, <1>6, <1>7 DEF RowsMove

-------------------------------------------------------------------------------
(* What the steps of a request do, in terms of rows.                       *)
LEMMA NoticeNew ==
  ASSUME NEW what, NEW b, NEW ids
  PROVE  /\ NewNotice(what, b, ids) # NoNotice
         /\ NewNotice(what, b, ids).news = what /\ NewNotice(what, b, ids).businessId = b
         /\ NewNotice(what, b, ids).bookingIds = ids /\ NewNotice(what, b, ids).todo = {}
         /\ NewNotice(what, b, ids).step = "lookup"
BY DEF NewNotice, NoNotice

(* A request has something to tell of a booking, or of several. *)
Tells(r, what, b, ids) ==
  /\ notices' = [notices EXCEPT ![r] = NewNotice(what, b, ids)]
  /\ Telling(r)' /\ ~Telling(r)
  /\ notices'[r].news = what /\ notices'[r].businessId = b /\ notices'[r].bookingIds = ids
  /\ notices'[r].todo = {} /\ notices'[r].step = "lookup"
  /\ \A q \in Requests \ {r} : notices'[q] = notices[q]

LEMMA NoticeTells ==
  ASSUME BaseInv, NEW r \in Requests, ~Telling(r), NEW what, NEW b, NEW ids,
         notices' = [notices EXCEPT ![r] = NewNotice(what, b, ids)]
  PROVE  Tells(r, what, b, ids)
<1>1. notices \in [Requests -> {NoNotice} \cup Notice]
  BY DEF BaseInv, NoticeInv, NotificationsTypeOK
<1>2. PICK x : x = NewNotice(what, b, ids)
  OBVIOUS
<1>3. notices'[r] = x /\ \A q \in Requests \ {r} : notices'[q] = notices[q]
  BY <1>1, <1>2
<1> QED
  BY <1>2, <1>3, NoticeNew DEF Tells, Telling

LEMMA TellsKeeps ==
  ASSUME BaseInv, NEW r \in Requests, NEW what \in News, NEW b \in Businesses,
         NEW ids \in SUBSET BookingIds, Tells(r, what, b, ids),
         calls' \in 0..MaxCalls, UNCHANGED deviceVars
  PROVE  NoticeInv'
BY NoticeBegins DEF Tells, deviceVars, BaseInv

LEMMA StaysKeeps ==
  ASSUME BaseInv, calls' \in 0..MaxCalls, UNCHANGED <<notices, deviceVars>>
  PROVE  NoticeInv'
BY NoticesStay DEF deviceVars, BaseInv

LEMMA CallsOK == BaseInv => calls \in 0..MaxCalls
BY CallsTyped DEF BaseInv

LEMMA NewsKinds == "created" \in News /\ "cancelled" \in News /\ Statuses \subseteq News
                   /\ Pending \in Statuses /\ Cancelled \in Statuses
OBVIOUS

(* One that has nothing more to do leaves nothing to keep. *)
LEMMA IdleKeeps ==
  ASSUME NEW r \in Requests, requests'[r] = Idle
  PROVE  CallLinked(requests[r])' /\ CallBegun(requests[r])' /\ ~Busy(r)'
BY DEF CallLinked, CallBegun, Busy, Idle

(* InsertBooking *)
Inserts(r, k, row) ==
  /\ k \in BookingIds /\ row \in BookingRow
  /\ bookings[k] = NoRow /\ past[k] = {} /\ PutBooking(k, row)
  /\ Of(row.customerId, row.businessId) /\ CarOf(row.carId, row.businessId)
  /\ made' = [made EXCEPT ![k] = row.status]
  /\ knows' = [knows EXCEPT ![k] = IF requests[r].op = "book" THEN row.status ELSE Unheard]
  /\ Tells(r, "created", row.businessId, {k})
  /\ requests' = [requests EXCEPT ![r] = Idle] /\ requests[r].op \in {"create", "book"}
  /\ UNCHANGED <<customers, cars, calls, muddled, raced, twinned, deviceVars>>

LEMMA InsertDoes ==
  ASSUME BaseInv, NEW r \in Requests, InsertBooking(r)
  PROVE  \E k, row : Inserts(r, k, row)
<1>1. requests[r].op \in {"create", "book"}
  BY DEF InsertBooking
<1>2. requests[r] \in RequestRecord /\ ~Telling(r) /\ CallLinked(requests[r])
  BY <1>1, BusyTyped
<1>3. PICK k \in Unused(bookings), s \in IF requests[r].op = "create" THEN Statuses ELSE {Pending} :
        /\ past[k] = {}
        /\ PutBooking(k, [businessId |-> requests[r].businessId,
                          customerId |-> requests[r].customerId,
                          carId |-> requests[r].carId, status |-> s])
        /\ made' = [made EXCEPT ![k] = s]
        /\ knows' = [knows EXCEPT ![k] = IF requests[r].op = "book" THEN s ELSE Unheard]
        /\ Notify(r, "created", k)
  BY DEF InsertBooking
<1>4. PICK row : row = [businessId |-> requests[r].businessId,
                          customerId |-> requests[r].customerId,
                          carId |-> requests[r].carId, status |-> s]
  OBVIOUS
<1>5. /\ row \in BookingRow /\ row.status = s /\ row.businessId = requests[r].businessId
      /\ row.customerId = requests[r].customerId /\ row.carId = requests[r].carId
  BY <1>1, <1>2, <1>3, <1>4, CallTyped, NewsKinds DEF BookingRow
<1>6. k \in BookingIds /\ bookings[k] = NoRow /\ bookings \in [BookingIds -> BookingRow \cup {NoRow}]
  BY <1>3 DEF Unused, BaseInv, TypeOK
<1>7. Of(row.customerId, row.businessId) /\ CarOf(row.carId, row.businessId)
  BY <1>1, <1>2, <1>5 DEF CallLinked
<1>8. PutBooking(k, row)
  BY <1>3, <1>4
<1>9. bookings'[k] = row
  BY <1>6, <1>8 DEF PutBooking
<1>10. notices' = [notices EXCEPT ![r] = NewNotice("created", row.businessId, {k})]
  BY <1>3, <1>9 DEF Notify
<1>11. Tells(r, "created", row.businessId, {k})
  BY <1>2, <1>10, NoticeTells
<1>12. Inserts(r, k, row)
  BY <1>1, <1>3, <1>5, <1>6, <1>7, <1>8, <1>11 DEF Inserts, Notify, InsertBooking
<1> QED
  BY <1>12

LEMMA InsertBase ==
  ASSUME BaseInv, NEW r \in Requests, NEW k, NEW row, Inserts(r, k, row)
  PROVE  BaseInv' /\ RowsMove
<1>1. /\ k \in BookingIds /\ row \in BookingRow /\ row.status \in Statuses /\ row.businessId \in Businesses
      /\ Tells(r, "created", row.businessId, {k})
      /\ requests'[r] = Idle /\ \A q \in Requests \ {r} : requests'[q] = requests[q]
      /\ requests' \in [Requests -> RequestRecord]
  BY Ends DEF Inserts, BookingRow
<1>2. /\ RowsMove /\ bookings' \in [BookingIds -> BookingRow \cup {NoRow}]
      /\ past'[k] = past[k] \cup {row.status, row.businessId, EmailOf(row.customerId)}
  BY BookingsMove DEF Inserts
<1>3. RowTypes'
  BY <1>1, <1>2 DEF Inserts, RowTypes, BaseInv, TypeOK
<1>4. NoticeInv'
  BY <1>1, TellsKeeps, NewsKinds, CallsOK DEF Inserts
<1>5. NewsBegun(notices[r])'
  BY <1>1, <1>2 DEF NewsBegun, Tells
<1>6. BaseInv'
  BY <1>1, <1>2, <1>3, <1>4, <1>5, IdleKeeps, BaseMoves DEF Tells
<1> QED
  BY <1>2, <1>6

(* ApplyUpdate *)
Updates(r, k, row) ==
  /\ k \in BookingIds /\ row \in BookingRow
  /\ bookings[k] # NoRow /\ past[k] # {} /\ PutBooking(k, row) /\ bookings'[k] = row
  /\ Of(row.customerId, row.businessId) /\ CarOf(row.carId, row.businessId)
  /\ row.businessId = bookings[k].businessId
  /\ requests[r].op = "update" /\ requests[r].id = k
  /\ row.customerId = bookings[k].customerId \/ requests[r].customerId # New
  /\ row.status = IF requests[r].status = Kept THEN bookings[k].status ELSE requests[r].status
  /\ IF requests[r].status # Kept /\ requests[r].status # requests[r].existing
     THEN Tells(r, row.status, row.businessId, {k}) ELSE UNCHANGED notices
  /\ requests' = [requests EXCEPT ![r] = Idle]
  /\ muddled' = IF requests[r].customerId # New \/ k \in AboutOthers(r)
                THEN muddled \cup {k} ELSE muddled
  /\ UNCHANGED <<customers, cars, calls, made, knows, raced, twinned, deviceVars>>

LEMMA MergedTyped ==
  ASSUME NEW old \in BookingRow, NEW call \in RequestRecord, call.op = "update"
  PROVE  /\ Merged(old, call) \in BookingRow
         /\ Merged(old, call).businessId = old.businessId
         /\ Merged(old, call).status = IF call.status = Kept THEN old.status ELSE call.status
         /\ Merged(old, call).customerId = IF call.customerId = New THEN old.customerId ELSE call.customerId
         /\ Merged(old, call).carId = IF call.carId = New THEN old.carId ELSE call.carId
<1>1. /\ call.status \in Statuses \cup {Kept}
      /\ call.customerId \in CustomerIds \cup {New} /\ call.carId \in CarIds \cup {New}
  BY CallTyped
<1>2. /\ old.status \in Statuses /\ old.customerId \in CustomerIds /\ old.carId \in CarIds
      /\ old.businessId \in Businesses
  BY DEF BookingRow
<1>3. PICK s \in Statuses : s = IF call.status = Kept THEN old.status ELSE call.status
  BY <1>1, <1>2
<1>4. PICK i \in CustomerIds : i = IF call.customerId = New THEN old.customerId ELSE call.customerId
  BY <1>1, <1>2
<1>5. PICK a \in CarIds : a = IF call.carId = New THEN old.carId ELSE call.carId
  BY <1>1, <1>2
<1>6. Merged(old, call) = [old EXCEPT !.status = s, !.customerId = i, !.carId = a]
  BY <1>3, <1>4, <1>5 DEF Merged, BookingRow
<1> QED
  BY <1>3, <1>4, <1>5, <1>6 DEF BookingRow

LEMMA UpdateDoes ==
  ASSUME BaseInv, NEW r \in Requests, ApplyUpdate(r)
  PROVE  \E k, row : Updates(r, k, row)
<1>1. requests[r].op = "update"
  BY DEF ApplyUpdate
<1>2. /\ requests[r] \in RequestRecord /\ ~Telling(r) /\ CallLinked(requests[r]) /\ requests[r].id \in BookingIds
      /\ past[requests[r].id] # {}
  BY <1>1, BusyTyped, CallTyped DEF BaseInv, RowInv, Begun
<1>3. PICK k \in BookingIds : k = requests[r].id
  BY <1>2
<1>4. /\ bookings[k] # NoRow /\ k \in Stored(bookings) /\ bookings[k] \in BookingRow
      /\ bookings \in [BookingIds -> BookingRow \cup {NoRow}]
  BY <1>3, RowTyped DEF ApplyUpdate, BaseInv, TypeOK
<1>5. PICK row : row = Merged(bookings[k], requests[r])
  OBVIOUS
<1>6. /\ row \in BookingRow /\ row.businessId = bookings[k].businessId
      /\ row.status = IF requests[r].status = Kept THEN bookings[k].status ELSE requests[r].status
      /\ row.customerId = IF requests[r].customerId = New THEN bookings[k].customerId
                          ELSE requests[r].customerId
      /\ row.carId = IF requests[r].carId = New THEN bookings[k].carId ELSE requests[r].carId
  BY <1>1, <1>2, <1>4, <1>5, MergedTyped
<1>7. PutBooking(k, row)
  BY <1>3, <1>5 DEF ApplyUpdate
<1>8. bookings'[k] = row
  BY <1>4, <1>7 DEF PutBooking
<1>9. Of(row.customerId, row.businessId) /\ CarOf(row.carId, row.businessId)
  <2>1. Of(bookings[k].customerId, bookings[k].businessId)
        /\ CarOf(bookings[k].carId, bookings[k].businessId)
    BY <1>4 DEF BaseInv, RowInv, Linked
  <2>2. /\ requests[r].customerId = New \/ Of(requests[r].customerId, bookings[k].businessId)
        /\ requests[r].carId = New \/ CarOf(requests[r].carId, bookings[k].businessId)
    BY <1>1, <1>2, <1>3, <1>4 DEF CallLinked
  <2> QED
    BY <1>6, <2>1, <2>2
<1>10. CASE requests[r].status # Kept /\ requests[r].status # requests[r].existing
  <2>1. Notify(r, requests[r].status, k)
    BY <1>3, <1>10 DEF ApplyUpdate
  <2>2. notices' = [notices EXCEPT ![r] = NewNotice(row.status, row.businessId, {k})]
    BY <1>6, <1>8, <1>10, <2>1 DEF Notify
  <2>3. Tells(r, row.status, row.businessId, {k})
    BY <1>2, <2>2, NoticeTells
  <2>4. Updates(r, k, row)
    BY <1>1, <1>2, <1>3, <1>4, <1>6, <1>7, <1>8, <1>9, <1>10, <2>1, <2>3
    DEF Updates, Notify, ApplyUpdate
  <2> QED
    BY <2>4
<1>11. CASE ~(requests[r].status # Kept /\ requests[r].status # requests[r].existing)
  <2>1. Answer(r)
    BY <1>3, <1>11 DEF ApplyUpdate
  <2>2. Updates(r, k, row)
    BY <1>1, <1>2, <1>3, <1>4, <1>6, <1>7, <1>8, <1>9, <1>11, <2>1 DEF Updates, Answer, ApplyUpdate
  <2> QED
    BY <2>2
<1> QED
  BY <1>10, <1>11

LEMMA UpdateBase ==
  ASSUME BaseInv, NEW r \in Requests, NEW k, NEW row, Updates(r, k, row)
  PROVE  BaseInv' /\ RowsMove
<1>1. /\ k \in BookingIds /\ row \in BookingRow /\ row.status \in Statuses /\ row.businessId \in Businesses
      /\ requests'[r] = Idle /\ \A q \in Requests \ {r} : requests'[q] = requests[q]
      /\ requests' \in [Requests -> RequestRecord]
  BY Ends DEF Updates, BookingRow
<1>2. /\ RowsMove /\ bookings' \in [BookingIds -> BookingRow \cup {NoRow}]
      /\ past'[k] = past[k] \cup {row.status, row.businessId, EmailOf(row.customerId)}
  BY BookingsMove DEF Updates
<1>3. RowTypes'
  BY <1>1, <1>2 DEF Updates, RowTypes, BaseInv, TypeOK
<1>4. CASE Tells(r, row.status, row.businessId, {k})
  <2>1. NoticeInv'
    BY <1>1, <1>4, TellsKeeps, NewsKinds, CallsOK DEF Updates
  <2>2. NewsBegun(notices[r])'
    BY <1>2, <1>4 DEF NewsBegun, Tells
  <2>3. BaseInv'
    BY <1>1, <1>2, <1>3, <1>4, <2>1, <2>2, IdleKeeps, BaseMoves DEF Tells
  <2> QED
    BY <1>2, <2>3
<1>5. CASE UNCHANGED notices
  <2>1. NoticeInv'
    BY <1>5, StaysKeeps, CallsOK DEF Updates
  <2>2. BaseInv'
    BY <1>1, <1>2, <1>3, <1>5, <2>1, IdleKeeps, BaseMoves
  <2> QED
    BY <1>2, <2>2
<1> QED
  BY <1>4, <1>5 DEF Updates

(* ApplyRemove *)
Removes(r, k) ==
  /\ k \in BookingIds /\ requests' = [requests EXCEPT ![r] = Idle]
  /\ bookings' = [bookings EXCEPT ![k] = NoRow]
  /\ \A x \in BookingIds :
       /\ x \in Stored(bookings)' <=> x \in Stored(bookings) /\ x # k
       /\ x # k => bookings'[x] = bookings[x]
  /\ UNCHANGED <<customers, cars, calls, past, made, knows, muddled, raced, twinned,
                 deviceVars, notices>>

LEMMA RemoveMoves ==
  ASSUME BaseInv, NEW r \in Requests, ApplyRemove(r)
  PROVE  BaseInv' /\ RowsMove /\ \E k : Removes(r, k)
<1>1. requests[r].op = "remove"
  BY DEF ApplyRemove
<1>2. requests[r] \in RequestRecord /\ ~Telling(r) /\ requests[r].id \in BookingIds
  BY <1>1, BusyTyped, CallTyped
<1>3. PICK k \in BookingIds : k = requests[r].id
  BY <1>2
<1>4. /\ bookings' = [bookings EXCEPT ![k] = NoRow] /\ requests' = [requests EXCEPT ![r] = Idle]
      /\ UNCHANGED <<customers, cars, calls, past, made, knows, muddled, raced, twinned,
                     deviceVars, notices>>
  BY <1>3 DEF ApplyRemove, Answer
<1>5. /\ requests'[r] = Idle /\ \A q \in Requests \ {r} : requests'[q] = requests[q]
      /\ requests' \in [Requests -> RequestRecord]
  BY <1>4, Ends
<1>6. /\ bookings' \in [BookingIds -> BookingRow \cup {NoRow}] /\ bookings'[k] = NoRow
      /\ \A x \in BookingIds \ {k} : bookings'[x] = bookings[x]
      /\ bookings \in [BookingIds -> BookingRow \cup {NoRow}]
  BY <1>4 DEF BaseInv, TypeOK
<1>7. \A x \in BookingIds : x \in Stored(bookings)' <=> x \in Stored(bookings) /\ x # k
  BY <1>6 DEF Stored
<1>8. RowsMove
  <2>1. /\ \A i, b : Of(i, b)' <=> Of(i, b)
        /\ \A a, b : CarOf(a, b)' <=> CarOf(a, b)
        /\ \A x : x \in Stored(cars)' <=> x \in Stored(cars)
        /\ \A x : x \in Stored(customers)' <=> x \in Stored(customers)
    BY <1>4 DEF Of, CarOf, BusinessOf, Stored
  <2>2. ASSUME NEW x \in BookingIds, x \in Stored(bookings)'
        PROVE  /\ Of(bookings[x].customerId, bookings[x].businessId)'
               /\ CarOf(bookings[x].carId, bookings[x].businessId)'
               /\ x \in Stored(bookings) /\ bookings'[x].businessId = bookings[x].businessId
    <3>1. x \in Stored(bookings) /\ bookings'[x] = bookings[x]
      BY <1>6, <1>7, <2>2
    <3>2. Of(bookings[x].customerId, bookings[x].businessId)
          /\ CarOf(bookings[x].carId, bookings[x].businessId)
      BY <3>1 DEF BaseInv, RowInv, Linked
    <3> QED
      BY <1>4, <3>1, <3>2 DEF Of, CarOf, BusinessOf, Stored
  <2>3. \A a \in CarIds : a \in Stored(cars)' => cars'[a].customerId \in Stored(customers)'
    BY <1>4 DEF BaseInv, RowInv, Linked, Stored
  <2> QED
    BY <1>4, <2>1, <2>2, <2>3 DEF RowsMove, BaseInv, RowInv, PastOK
<1>9. RowTypes'
  BY <1>4, <1>6 DEF RowTypes, BaseInv, TypeOK
<1>10. NoticeInv'
  BY <1>4, StaysKeeps, CallsOK
<1>11. BaseInv'
  BY <1>4, <1>5, <1>8, <1>9, <1>10, IdleKeeps, BaseMoves
<1>12. Removes(r, k)
  BY <1>4, <1>6, <1>7 DEF Removes
<1> QED
  BY <1>8, <1>11, <1>12

(* ApplyCancel *)
Cancels(r, k, row) ==
  /\ k \in BookingIds /\ row \in BookingRow
  /\ bookings[k] # NoRow /\ past[k] # {} /\ PutBooking(k, row) /\ bookings'[k] = row
  /\ Of(row.customerId, row.businessId) /\ CarOf(row.carId, row.businessId)
  /\ row.businessId = bookings[k].businessId
  /\ row.status = Cancelled /\ requests[r].op = "cancel" /\ requests[r].id = k
  /\ Tells(r, "cancelled", row.businessId, {k})
  /\ requests' = [requests EXCEPT ![r] = Idle]
  /\ knows' = [knows EXCEPT ![k] = Cancelled]
  /\ muddled' = IF k \in AboutOthers(r) THEN muddled \cup {k} ELSE muddled
  /\ UNCHANGED <<customers, cars, calls, made, raced, twinned, deviceVars>>

LEMMA CancelDoes ==
  ASSUME BaseInv, NEW r \in Requests, ApplyCancel(r)
  PROVE  \E k, row : Cancels(r, k, row)
<1>1. requests[r].op = "cancel"
  BY DEF ApplyCancel
<1>2. /\ requests[r] \in RequestRecord /\ ~Telling(r) /\ requests[r].id \in BookingIds
      /\ past[requests[r].id] # {}
  BY <1>1, BusyTyped, CallTyped DEF BaseInv, RowInv, Begun
<1>3. PICK k \in BookingIds : k = requests[r].id
  BY <1>2
<1>4. /\ bookings[k] # NoRow /\ k \in Stored(bookings) /\ bookings[k] \in BookingRow
      /\ bookings \in [BookingIds -> BookingRow \cup {NoRow}]
  BY <1>3, RowTyped DEF ApplyCancel, BaseInv, TypeOK
<1>5. PICK row : row = [bookings[k] EXCEPT !.status = Cancelled]
  OBVIOUS
<1>6. /\ row \in BookingRow /\ row.businessId = bookings[k].businessId
      /\ row.status = Cancelled /\ row.customerId = bookings[k].customerId /\ row.carId = bookings[k].carId
  BY <1>4, <1>5, NewsKinds DEF BookingRow
<1>7. PutBooking(k, row)
  BY <1>3, <1>5 DEF ApplyCancel
<1>8. bookings'[k] = row
  BY <1>4, <1>7 DEF PutBooking
<1>9. Of(row.customerId, row.businessId) /\ CarOf(row.carId, row.businessId)
  BY <1>4, <1>6 DEF BaseInv, RowInv, Linked
<1>10. /\ Notify(r, "cancelled", k) /\ knows' = [knows EXCEPT ![k] = Cancelled]
       /\ muddled' = IF k \in AboutOthers(r) THEN muddled \cup {k} ELSE muddled
       /\ UNCHANGED <<customers, cars, calls, made, raced, twinned, deviceVars>>
  BY <1>3 DEF ApplyCancel
<1>11. notices' = [notices EXCEPT ![r] = NewNotice("cancelled", row.businessId, {k})]
  BY <1>8, <1>10 DEF Notify
<1>12. Tells(r, "cancelled", row.businessId, {k})
  BY <1>2, <1>11, NoticeTells
<1>13. Cancels(r, k, row)
  BY <1>1, <1>2, <1>3, <1>4, <1>6, <1>7, <1>8, <1>9, <1>10, <1>12 DEF Cancels, Notify
<1> QED
  BY <1>13

LEMMA CancelBase ==
  ASSUME BaseInv, NEW r \in Requests, NEW k, NEW row, Cancels(r, k, row)
  PROVE  BaseInv' /\ RowsMove
<1>1. /\ k \in BookingIds /\ row \in BookingRow /\ row.status \in Statuses /\ row.businessId \in Businesses
      /\ requests'[r] = Idle /\ \A q \in Requests \ {r} : requests'[q] = requests[q]
      /\ requests' \in [Requests -> RequestRecord]
      /\ Tells(r, "cancelled", row.businessId, {k})
  BY Ends DEF Cancels, BookingRow
<1>2. /\ RowsMove /\ bookings' \in [BookingIds -> BookingRow \cup {NoRow}]
      /\ past'[k] = past[k] \cup {row.status, row.businessId, EmailOf(row.customerId)}
  BY BookingsMove DEF Cancels
<1>3. RowTypes'
  BY <1>1, <1>2, NewsKinds DEF Cancels, RowTypes, BaseInv, TypeOK
<1>4. NoticeInv'
  BY <1>1, TellsKeeps, NewsKinds, CallsOK DEF Cancels
<1>5. NewsBegun(notices[r])'
  BY <1>1, <1>2 DEF NewsBegun, Tells
<1>6. BaseInv'
  BY <1>1, <1>2, <1>3, <1>4, <1>5, IdleKeeps, BaseMoves DEF Tells
<1> QED
  BY <1>2, <1>6

(* BatchStatus *)
Batches(r, b, own, ids, s) ==
  /\ b \in Businesses /\ ids \in SUBSET BookingIds /\ s \in Statuses /\ own \subseteq ids
  /\ \A k \in ids : past[k] # {}
  /\ \A k \in ids : k \in own <=> k \in Stored(bookings) /\ bookings[k].businessId = b
  /\ \A k \in BookingIds :
       /\ k \in own => /\ bookings'[k] \in BookingRow /\ bookings'[k].status = s
                       /\ bookings'[k].businessId = bookings[k].businessId
                       /\ bookings'[k].customerId = bookings[k].customerId
                       /\ bookings'[k].carId = bookings[k].carId
                       /\ past'[k] = past[k] \cup {s}
       /\ k \notin own => bookings'[k] = bookings[k] /\ past'[k] = past[k]
       /\ k \in Stored(bookings)' <=> k \in Stored(bookings)
  /\ bookings' \in [BookingIds -> BookingRow \cup {NoRow}]
  /\ DOMAIN past' = BookingIds /\ past' = [k \in BookingIds |-> past'[k]]
  /\ Tells(r, s, b, ids) /\ ~Busy(r)
  /\ UNCHANGED requests /\ calls' \in 0..MaxCalls
  /\ muddled' = muddled \cup (own \cap AboutOthers(r))
  /\ UNCHANGED <<customers, cars, made, knows, raced, twinned, deviceVars>>

LEMMA BatchDoes ==
  ASSUME BaseInv, NEW r \in Requests, NEW b \in Businesses, BatchStatus(r, b)
  PROVE  \E own, ids, s : Batches(r, b, own, ids, s)
<1>1. PICK ids \in SUBSET BookingIds, s \in Statuses :
    LET own == {k \in ids \cap Stored(bookings) : bookings[k].businessId = b} IN
    /\ own # {} /\ \A k \in ids : past[k] # {}
    /\ Start(r, Idle)
    /\ bookings' = [k \in BookingIds |-> IF k \in own
                      THEN [bookings[k] EXCEPT !.status = s] ELSE bookings[k]]
    /\ past' = [k \in BookingIds |-> IF k \in own THEN past[k] \cup {s} ELSE past[k]]
    /\ notices' = [notices EXCEPT ![r] = NewNotice(s, b, ids)]
    /\ muddled' = muddled \cup (own \cap AboutOthers(r))
    /\ UNCHANGED <<customers, cars, made, knows, raced, twinned, deviceVars>>
  BY DEF BatchStatus
<1>2. PICK own : own = {k \in ids \cap Stored(bookings) : bookings[k].businessId = b}
  OBVIOUS
<1>3. /\ \A k \in ids : past[k] # {}
      /\ Start(r, Idle)
      /\ bookings' = [k \in BookingIds |-> IF k \in own
                        THEN [bookings[k] EXCEPT !.status = s] ELSE bookings[k]]
      /\ past' = [k \in BookingIds |-> IF k \in own THEN past[k] \cup {s} ELSE past[k]]
      /\ notices' = [notices EXCEPT ![r] = NewNotice(s, b, ids)]
      /\ muddled' = muddled \cup (own \cap AboutOthers(r))
      /\ UNCHANGED <<customers, cars, made, knows, raced, twinned, deviceVars>>
  BY <1>1, <1>2
<1>4. Idle \in RequestRecord
  BY DEF RequestRecord
<1>5. /\ requests'[r] = Idle /\ requests[r] = Idle /\ ~Busy(r) /\ ~Telling(r)
      /\ \A q \in Requests \ {r} : requests'[q] = requests[q]
      /\ requests' \in [Requests -> RequestRecord] /\ calls' \in 0..MaxCalls
      /\ requests \in [Requests -> RequestRecord]
  BY <1>3, <1>4, Begins DEF Busy, BaseInv, TypeOK
<1>6. UNCHANGED requests
  BY <1>5
<1>7. Tells(r, s, b, ids)
  BY <1>3, <1>5, NoticeTells
<1>8. bookings \in [BookingIds -> BookingRow \cup {NoRow}]
  BY DEF BaseInv, TypeOK
<1>9. ASSUME NEW k \in BookingIds
      PROVE  /\ k \in own => /\ bookings'[k] \in BookingRow /\ bookings'[k].status = s
                       /\ bookings'[k].businessId = bookings[k].businessId
                       /\ bookings'[k].customerId = bookings[k].customerId
                       /\ bookings'[k].carId = bookings[k].carId
                       /\ past'[k] = past[k] \cup {s}
             /\ k \notin own => bookings'[k] = bookings[k] /\ past'[k] = past[k]
             /\ k \in Stored(bookings)' <=> k \in Stored(bookings)
             /\ bookings'[k] \in BookingRow \cup {NoRow}
  <2>1. k \in own => bookings[k] \in BookingRow /\ k \in Stored(bookings)
    BY <1>2, RowTyped DEF BaseInv
  <2>2. DOMAIN bookings' = BookingIds
    BY <1>3
  <2>3. CASE k \in own
    <3>1. bookings'[k] = [bookings[k] EXCEPT !.status = s] /\ past'[k] = past[k] \cup {s}
      BY <1>3, <2>3
    <3>2. PICK old \in BookingRow : old = bookings[k]
      BY <2>1, <2>3
    <3>3. PICK new : new = [old EXCEPT !.status = s]
      OBVIOUS
    <3>4. /\ new \in BookingRow /\ new.status = s /\ new.businessId = old.businessId
          /\ new.customerId = old.customerId /\ new.carId = old.carId
      BY <3>3 DEF BookingRow
    <3>5. bookings'[k] = new
      BY <3>1, <3>2, <3>3
    <3>6. k \in Stored(bookings)'
      BY <2>2, <3>4, <3>5, RowsReal DEF Stored
    <3> QED
      BY <2>1, <2>3, <3>1, <3>2, <3>4, <3>5, <3>6
  <2>4. CASE k \notin own
    <3>1. bookings'[k] = bookings[k] /\ past'[k] = past[k]
      BY <1>3, <2>4
    <3> QED
      BY <1>8, <2>2, <2>4, <3>1 DEF Stored
  <2> QED
    BY <2>3, <2>4
<1>10. bookings' \in [BookingIds -> BookingRow \cup {NoRow}]
  BY <1>3, <1>9
<1>11. /\ own \subseteq ids
       /\ \A k \in ids : k \in own <=> k \in Stored(bookings) /\ bookings[k].businessId = b
  BY <1>2
<1>12. DOMAIN past' = BookingIds /\ past' = [k \in BookingIds |-> past'[k]]
  BY <1>3
<1>13. Batches(r, b, own, ids, s)
  BY <1>3, <1>5, <1>6, <1>7, <1>9, <1>10, <1>11, <1>12 DEF Batches
<1> QED
  BY <1>13

LEMMA BatchBase ==
  ASSUME BaseInv, NEW r \in Requests, NEW b, NEW own, NEW ids, NEW s, Batches(r, b, own, ids, s)
  PROVE  BaseInv' /\ RowsMove
<1>1. /\ b \in Businesses /\ ids \in SUBSET BookingIds /\ s \in Statuses /\ own \subseteq ids
      /\ bookings' \in [BookingIds -> BookingRow \cup {NoRow}]
      /\ UNCHANGED <<requests, customers, cars, made, knows, raced, twinned,
                     deviceVars>> /\ calls' \in 0..MaxCalls
      /\ Tells(r, s, b, ids) /\ ~Busy(r)
  BY DEF Batches
<1>2. RowsMove
  <2>1. /\ \A i, x : Of(i, x)' <=> Of(i, x)
        /\ \A a, x : CarOf(a, x)' <=> CarOf(a, x)
    BY <1>1 DEF Of, CarOf, BusinessOf, Stored
  <2>2. ASSUME NEW k \in BookingIds, k \in Stored(bookings)'
        PROVE  /\ Of(bookings[k].customerId, bookings[k].businessId)'
               /\ CarOf(bookings[k].carId, bookings[k].businessId)'
               /\ k \in Stored(bookings) /\ bookings'[k].businessId = bookings[k].businessId
    <3>1. /\ k \in Stored(bookings) /\ bookings'[k].businessId = bookings[k].businessId
          /\ bookings'[k].customerId = bookings[k].customerId
          /\ bookings'[k].carId = bookings[k].carId
      BY <2>2 DEF Batches
    <3>2. Of(bookings[k].customerId, bookings[k].businessId)
          /\ CarOf(bookings[k].carId, bookings[k].businessId)
      BY <3>1 DEF BaseInv, RowInv, Linked
    <3> QED
      BY <1>1, <3>1, <3>2 DEF Of, CarOf, BusinessOf, Stored
  <2>3. \A a \in CarIds : a \in Stored(cars)' => cars'[a].customerId \in Stored(customers)'
    BY <1>1 DEF BaseInv, RowInv, Linked, Stored
  <2>4. \A k \in BookingIds : past'[k] \in SUBSET (Statuses \cup Users \cup {NoEmail}) /\ past[k] \subseteq past'[k]
    <3>1. past \in [BookingIds -> SUBSET (Statuses \cup Users \cup {NoEmail})]
      BY DEF BaseInv, RowInv, PastOK
    <3>2. \A k \in BookingIds : past'[k] = past[k] \cup {s} \/ past'[k] = past[k]
      BY DEF Batches
    <3> QED
      BY <1>1, <3>1, <3>2
  <2>5. PastOK'
    BY <2>4 DEF PastOK, Batches
  <2> QED
    BY <2>1, <2>2, <2>3, <2>4, <2>5 DEF RowsMove
<1>3. RowTypes'
  BY <1>1 DEF RowTypes, BaseInv, TypeOK, Batches
<1>4. NoticeInv'
  BY <1>1, TellsKeeps, NewsKinds
<1>5. NewsBegun(notices[r])'
  BY <1>1, <1>2 DEF NewsBegun, Tells, Batches, RowsMove
<1>6. /\ requests' \in [Requests -> RequestRecord] /\ ~Busy(r)' /\ requests[r] = Idle
  BY <1>1 DEF BaseInv, TypeOK, Busy
<1>7. CallLinked(requests[r])' /\ CallBegun(requests[r])'
  BY <1>1, <1>6, IdleKeeps
<1>8. BaseInv'
  BY <1>1, <1>2, <1>3, <1>4, <1>5, <1>6, <1>7, BaseMoves DEF Tells
<1> QED
  BY <1>2, <1>8

(* A request reads what it goes on with: Create, the FindFor... actions,   *)
(* FindCustomer and FindCar, and Abandon, which goes on with nothing       *)
Prepares(r, call) ==
  /\ call \in RequestRecord /\ CallLinked(call)' /\ CallBegun(call) /\ ~Telling(r)
  /\ requests' = [requests EXCEPT ![r] = call]
  /\ RowsMove /\ cars' \in [CarIds -> CarRow \cup {NoRow}] /\ calls' \in 0..MaxCalls
  /\ call.op = "update" => call.existing = bookings[call.id].status
  /\ UNCHANGED <<bookings, customers, past, made, knows, muddled, notices, deviceVars>>

(* and of the customers that a client may be *)
Seeks(r, call) ==
  /\ raced \subseteq raced' /\ raced' \subseteq Clients
  /\ twinned' \subseteq CustomerIds \X Vehicles
  /\ call.op = "findCar" /\ call.customerId = New =>
       /\ \A i \in Stored(customers) : ~IsClient(i, call.businessId, call.client)
       /\ call.client \in raced' \/ \A q \in Requests \ {r} : ~Creating(q, call.businessId, call.client)

LEMMA PrepareBase ==
  ASSUME BaseInv, NEW r \in Requests, NEW call, Prepares(r, call), Seeks(r, call)
  PROVE  BaseInv'
<1>1. /\ call \in RequestRecord /\ CallLinked(call)' /\ CallBegun(call)
      /\ RowsMove /\ cars' \in [CarIds -> CarRow \cup {NoRow}] /\ calls' \in 0..MaxCalls
      /\ requests' = [requests EXCEPT ![r] = call] /\ ~Telling(r)
      /\ UNCHANGED <<bookings, customers, past, made, knows, muddled, notices, deviceVars>>
      /\ raced' \subseteq Clients /\ twinned' \subseteq CustomerIds \X Vehicles
  BY DEF Prepares, Seeks
<1>2. /\ requests'[r] = call /\ requests' \in [Requests -> RequestRecord]
      /\ \A q \in Requests \ {r} : requests'[q] = requests[q]
  BY <1>1 DEF BaseInv, TypeOK
<1>3. RowTypes'
  BY <1>1 DEF RowTypes, BaseInv, TypeOK
<1>4. NoticeInv'
  BY <1>1, StaysKeeps
<1>5. CallLinked(requests[r])'
  BY <1>1, <1>2 DEF CallLinked
<1>6. CallBegun(requests[r])'
  BY <1>1, <1>2 DEF CallBegun
<1>7. ~Telling(r)'
  BY <1>1 DEF Telling
<1> QED
  BY <1>1, <1>2, <1>3, <1>4, <1>5, <1>6, <1>7, BaseMoves

LEMMA CallMade ==
  /\ Idle \in RequestRecord /\ Idle.op = "idle"
  /\ \A op \in {"create", "book"}, b \in Businesses, i \in CustomerIds, a \in CarIds :
       [op |-> op, businessId |-> b, customerId |-> i, carId |-> a] \in RequestRecord
  /\ \A k \in BookingIds, s \in Statuses \cup {Kept}, i \in CustomerIds \cup {New},
        a \in CarIds \cup {New}, e \in Statuses :
       [op |-> "update", id |-> k, status |-> s, customerId |-> i, carId |-> a, existing |-> e]
         \in RequestRecord
  /\ \A op \in {"remove", "cancel"}, k \in BookingIds : [op |-> op, id |-> k] \in RequestRecord
  /\ \A b \in Businesses, c \in Clients, v \in Vehicles, i \in CustomerIds \cup {New} :
       [op |-> "findCar", businessId |-> b, client |-> c, vehicle |-> v, customerId |-> i]
         \in RequestRecord
  /\ \A b \in Businesses, i \in CustomerIds, v \in Vehicles :
       [op |-> "createCar", businessId |-> b, customerId |-> i, vehicle |-> v] \in RequestRecord
BY DEF RequestRecord, Idle

(* What is stored has a past. *)
LEMMA StoredBegun ==
  ASSUME BaseInv, PastHolds, NEW k \in Stored(bookings)
  PROVE  k \in BookingIds /\ past[k] # {} /\ bookings[k] \in BookingRow
BY RowTyped DEF BaseInv, PastHolds

LEMMA StartPrepares ==
  ASSUME BaseInv, NEW r \in Requests, NEW call \in RequestRecord, Start(r, call),
         UNCHANGED <<bookings, customers, past, made, knows, muddled, notices, deviceVars>>,
         RowsMove, cars' \in [CarIds -> CarRow \cup {NoRow}],
         CallLinked(call)', CallBegun(call),
         call.op = "update" => call.existing = bookings[call.id].status
  PROVE  Prepares(r, call)
BY Begins DEF Prepares, Start

LEMMA CreatePrepares ==
  ASSUME BaseInv, NEW r \in Requests, NEW b \in Businesses, Create(r, b)
  PROVE  \E call : Prepares(r, call) /\ Seeks(r, call)
<1>0. UNCHANGED <<bookings, customers, past, made, knows, muddled, raced, twinned, notices,
                  deviceVars>>
  BY DEF Create
<1>1. PICK i \in Stored(customers) :
       /\ BusinessOf(i) = b
       /\ \/ /\ \E a \in Stored(cars) :
                  /\ BusinessOf(cars[a].customerId) = b
                  /\ Start(r, [op |-> "create", businessId |-> b, customerId |-> i,
                               carId |-> a])
             /\ UNCHANGED cars
          \/ \E a \in Unused(cars) :
               /\ Start(r, [op |-> "create", businessId |-> b, customerId |-> i, carId |-> a])
               /\ cars' = [cars EXCEPT ![a] = [customerId |-> i, vehicle |-> NoVehicle, mobile |-> FALSE]]
  BY DEF Create
<1>2. Of(i, b) /\ i \in CustomerIds
  BY <1>1, RowTyped DEF Of, BaseInv
<1>3. raced \subseteq Clients /\ twinned \subseteq CustomerIds \X Vehicles
  BY DEF BaseInv, TypeOK
<1>4. ASSUME NEW a \in CarIds, NEW call \in RequestRecord,
             call = [op |-> "create", businessId |-> b, customerId |-> i, carId |-> a],
             Start(r, call), RowsMove, CarOf(a, b)', cars' \in [CarIds -> CarRow \cup {NoRow}]
      PROVE  Prepares(r, call) /\ Seeks(r, call)
  <2>1. call.op = "create" /\ call.businessId = b /\ call.customerId = i /\ call.carId = a
    BY <1>4
  <2>2. Of(i, b)'
    BY <1>2, <1>4 DEF RowsMove
  <2>3. CallLinked(call)' /\ CallBegun(call)
    BY <1>4, <2>1, <2>2 DEF CallLinked, CallBegun
  <2>4. Prepares(r, call)
    BY <1>0, <1>4, <2>1, <2>3, StartPrepares
  <2>5. Seeks(r, call)
    BY <1>0, <1>3, <2>1 DEF Seeks
  <2> QED
    BY <2>4, <2>5
<1>5. ASSUME NEW a \in Stored(cars), BusinessOf(cars[a].customerId) = b, UNCHANGED cars,
             Start(r, [op |-> "create", businessId |-> b, customerId |-> i, carId |-> a])
      PROVE  \E call : Prepares(r, call) /\ Seeks(r, call)
  <2>1. a \in CarIds
    BY RowTyped DEF BaseInv
  <2>2. PICK call \in RequestRecord :
          call = [op |-> "create", businessId |-> b, customerId |-> i, carId |-> a]
    BY <1>2, <2>1, CallMade
  <2>3. RowsMove
    BY <1>0, <1>5, RowsStay
  <2>4. CarOf(a, b)
    BY <1>5 DEF CarOf, Of, BaseInv, RowInv, Linked
  <2>5. CarOf(a, b)' /\ cars' \in [CarIds -> CarRow \cup {NoRow}]
    BY <1>5, <2>1, <2>3, <2>4 DEF RowsMove, BaseInv, TypeOK
  <2> QED
    BY <1>4, <1>5, <2>1, <2>2, <2>3, <2>5
<1>6. ASSUME NEW a \in Unused(cars),
             Start(r, [op |-> "create", businessId |-> b, customerId |-> i, carId |-> a]),
             cars' = [cars EXCEPT ![a] = [customerId |-> i, vehicle |-> NoVehicle, mobile |-> FALSE]]
      PROVE  \E call : Prepares(r, call) /\ Seeks(r, call)
  <2>1. a \in CarIds /\ cars[a] = NoRow
    BY DEF Unused, BaseInv, TypeOK
  <2>2. PICK call \in RequestRecord :
          call = [op |-> "create", businessId |-> b, customerId |-> i, carId |-> a]
    BY <1>2, <2>1, CallMade
  <2>3. PICK row \in CarRow : row = [customerId |-> i, vehicle |-> NoVehicle, mobile |-> FALSE]
    BY <1>2 DEF CarRow
  <2>4. row.customerId = i
    BY <2>3
  <2>5. RowsMove /\ cars' \in [CarIds -> CarRow \cup {NoRow}] /\ CarOf(a, BusinessOf(row.customerId))'
    BY <1>0, <1>1, <1>6, <2>1, <2>3, <2>4, CarsMove
  <2>6. CarOf(a, b)'
    BY <1>0, <1>1, <2>4, <2>5 DEF CarOf, Of, BusinessOf
  <2> QED
    BY <1>4, <1>6, <2>1, <2>2, <2>5, <2>6
<1> QED
  BY <1>1, <1>5, <1>6

LEMMA FindForUpdatePrepares ==
  ASSUME BaseInv, PastHolds, NEW r \in Requests, NEW b \in Businesses, FindForUpdate(r, b)
  PROVE  \E call : Prepares(r, call) /\ Seeks(r, call)
<1>1. PICK k \in Stored(bookings), s \in Statuses \cup {Kept},
          i \in {j \in Stored(customers) : BusinessOf(j) = b} \cup {New},
          a \in {c \in Stored(cars) : BusinessOf(cars[c].customerId) = b} \cup {New} :
         /\ bookings[k].businessId = b
         /\ Start(r, [op |-> "update", id |-> k, status |-> s, customerId |-> i, carId |-> a,
                      existing |-> bookings[k].status])
         /\ UNCHANGED <<bookings, customers, cars, past, made, knows, muddled, raced,
                        twinned, notices, deviceVars>>
  BY DEF FindForUpdate
<1>2. k \in BookingIds /\ past[k] # {} /\ bookings[k] \in BookingRow
  BY StoredBegun
<1>3. PICK e \in Statuses : e = bookings[k].status
  BY <1>2 DEF BookingRow
<1>4. i \in CustomerIds \cup {New} /\ a \in CarIds \cup {New}
  BY RowTyped DEF BaseInv
<1>5. PICK call \in RequestRecord :
        call = [op |-> "update", id |-> k, status |-> s, customerId |-> i, carId |-> a, existing |-> e]
  BY <1>2, <1>3, <1>4, CallMade
<1>6. Start(r, call)
  BY <1>1, <1>3, <1>5
<1>7. /\ call.op = "update" /\ call.id = k /\ call.customerId = i /\ call.carId = a /\ call.existing = e
  BY <1>5
<1>8. RowsMove
  BY <1>1, RowsStay
<1>9. /\ i = New \/ Of(i, b)
      /\ a = New \/ CarOf(a, b)
  BY DEF Of, CarOf, BaseInv, RowInv, Linked
<1>10. CallLinked(call) /\ CallBegun(call)
  BY <1>1, <1>2, <1>7, <1>9 DEF CallLinked, CallBegun
<1>11. CallLinked(call)'
  BY <1>1, <1>10 DEF CallLinked, Of, CarOf, BusinessOf, Stored
<1>12. Prepares(r, call)
  BY <1>1, <1>3, <1>6, <1>7, <1>8, <1>10, <1>11, StartPrepares DEF BaseInv, TypeOK
<1>13. Seeks(r, call)
  BY <1>1, <1>7 DEF Seeks, BaseInv, TypeOK
<1> QED
  BY <1>12, <1>13

LEMMA FindBookingPrepares ==
  ASSUME BaseInv, PastHolds, NEW r \in Requests, NEW k \in Stored(bookings),
         NEW op \in {"remove", "cancel"}, Start(r, [op |-> op, id |-> k]),
         UNCHANGED <<bookings, customers, cars, past, made, knows, muddled, raced, twinned,
                     notices, deviceVars>>
  PROVE  \E call : Prepares(r, call) /\ Seeks(r, call)
<1>1. k \in BookingIds /\ past[k] # {}
  BY StoredBegun
<1>2. PICK call \in RequestRecord : call = [op |-> op, id |-> k]
  BY <1>1, CallMade
<1>3. call.op = op /\ call.id = k
  BY <1>2
<1>4. CallLinked(call)' /\ CallBegun(call)
  BY <1>1, <1>3 DEF CallLinked, CallBegun
<1>5. RowsMove
  BY RowsStay
<1>6. Prepares(r, call)
  BY <1>2, <1>3, <1>4, <1>5, StartPrepares DEF BaseInv, TypeOK
<1>7. Seeks(r, call)
  BY <1>3 DEF Seeks, BaseInv, TypeOK
<1> QED
  BY <1>6, <1>7

LEMMA FindCustomerPrepares ==
  ASSUME BaseInv, NEW r \in Requests, NEW c \in Clients, FindCustomer(r, c)
  PROVE  \E call : Prepares(r, call) /\ Seeks(r, call)
<1>1. PICK b \in Businesses, v \in Vehicles :
    LET mine == {i \in Stored(customers) : BusinessOf(i) = b /\ EmailOf(i) = c} IN
    /\ \E i \in IF mine = {} THEN {New} ELSE mine :
         Start(r, [op |-> "findCar", businessId |-> b, client |-> c, vehicle |-> v,
                   customerId |-> i])
    /\ raced' = IF \E q \in Requests \ {r} :
                     /\ Busy(q) /\ requests[q].op = "findCar"
                     /\ requests[q].businessId = b /\ requests[q].client = c
                     /\ requests[q].customerId = New
                THEN raced \cup {c} ELSE raced
    /\ UNCHANGED <<bookings, customers, cars, past, made, knows, muddled, twinned, notices,
                   deviceVars>>
  BY DEF FindCustomer
<1>2. PICK mine : mine = {i \in Stored(customers) : BusinessOf(i) = b /\ EmailOf(i) = c}
  OBVIOUS
<1>3. PICK i \in IF mine = {} THEN {New} ELSE mine :
         Start(r, [op |-> "findCar", businessId |-> b, client |-> c, vehicle |-> v, customerId |-> i])
  BY <1>1, <1>2
<1>4. mine \subseteq CustomerIds /\ New \notin CustomerIds
  BY <1>2, RowTyped DEF BaseInv
<1>5. i \in CustomerIds \cup {New} /\ (i = New \/ Of(i, b)) /\ (i = New => mine = {})
  BY <1>2, <1>3, <1>4 DEF Of
<1>6. PICK call \in RequestRecord :
        call = [op |-> "findCar", businessId |-> b, client |-> c, vehicle |-> v, customerId |-> i]
  BY <1>5, CallMade
<1>7. call.op = "findCar" /\ call.businessId = b /\ call.client = c /\ call.customerId = i
  BY <1>6
<1>8. RowsMove
  BY <1>1, RowsStay
<1>9. i = New \/ Of(i, b)'
  BY <1>1, <1>5 DEF Of, BusinessOf, Stored
<1>10. CallLinked(call)' /\ CallBegun(call)
  BY <1>7, <1>9 DEF CallLinked, CallBegun
<1>11. Prepares(r, call)
  BY <1>1, <1>3, <1>6, <1>7, <1>8, <1>10, StartPrepares DEF BaseInv, TypeOK
<1>12. raced \subseteq raced' /\ raced' \subseteq Clients /\ twinned' \subseteq CustomerIds \X Vehicles
  BY <1>1 DEF BaseInv, TypeOK
<1>13. ASSUME i = New
       PROVE  /\ \A j \in Stored(customers) : ~IsClient(j, b, c)
              /\ c \in raced' \/ \A q \in Requests \ {r} : ~Creating(q, b, c)
  <2>1. \A j \in Stored(customers) : ~IsClient(j, b, c)
    BY <1>2, <1>5, <1>13 DEF IsClient
  <2>2. \A q \in Requests : Creating(q, b, c) => Busy(q)
    BY DEF Creating, Busy, Idle
  <2> QED
    BY <1>1, <2>1, <2>2 DEF Creating
<1>14. Seeks(r, call)
  BY <1>7, <1>12, <1>13 DEF Seeks
<1> QED
  BY <1>11, <1>14

LEMMA FindCarPrepares ==
  ASSUME BaseInv, NEW r \in Requests, FindCar(r)
  PROVE  \E call : Prepares(r, call) /\ Seeks(r, call)
<1>1. requests[r].op = "findCar" /\ requests[r].customerId # New
  BY DEF FindCar
<1>2. /\ requests[r] \in RequestRecord /\ CallLinked(requests[r]) /\ ~Telling(r)
      /\ requests[r].businessId \in Businesses /\ requests[r].customerId \in CustomerIds
      /\ requests[r].vehicle \in Vehicles
  BY <1>1, BusyTyped, CallTyped
<1>3. PICK b \in Businesses, i \in CustomerIds, v \in Vehicles :
        b = requests[r].businessId /\ i = requests[r].customerId /\ v = requests[r].vehicle
  BY <1>2
<1>4. Of(i, b)
  BY <1>1, <1>2, <1>3 DEF CallLinked
<1>5. UNCHANGED <<bookings, customers, cars, calls, past, made, knows, muddled, raced, notices,
                  deviceVars>>
  BY DEF FindCar
<1>6. RowsMove /\ cars' \in [CarIds -> CarRow \cup {NoRow}] /\ Of(i, b)'
  BY <1>4, <1>5, RowsStay DEF RowsMove, BaseInv, TypeOK
<1>7. raced \subseteq raced' /\ raced' \subseteq Clients /\ twinned' \subseteq CustomerIds \X Vehicles
  <2>1. twinned' = twinned \/ twinned' = twinned \cup {<<i, v>>}
    BY <1>3 DEF FindCar
  <2> QED
    BY <1>5, <2>1 DEF BaseInv, TypeOK
<1>8. ASSUME NEW a \in Stored(cars), cars[a].customerId = i,
             requests' = [requests EXCEPT ![r] =
               [op |-> "book", businessId |-> b, customerId |-> i, carId |-> a]]
      PROVE  \E call : Prepares(r, call) /\ Seeks(r, call)
  <2>1. a \in CarIds
    BY RowTyped DEF BaseInv
  <2>2. PICK call \in RequestRecord :
          call = [op |-> "book", businessId |-> b, customerId |-> i, carId |-> a]
    BY <2>1, CallMade
  <2>3. call.op = "book" /\ call.businessId = b /\ call.customerId = i /\ call.carId = a
    BY <2>2
  <2>4. CarOf(a, b)'
    BY <1>4, <1>6, <1>8, <2>1 DEF CarOf, RowsMove
  <2>5. CallLinked(call)' /\ CallBegun(call)
    BY <1>6, <2>3, <2>4 DEF CallLinked, CallBegun
  <2>6. Prepares(r, call)
    BY <1>2, <1>5, <1>6, <1>8, <2>2, <2>3, <2>5, CallsOK DEF Prepares
  <2>7. Seeks(r, call)
    BY <1>7, <2>3 DEF Seeks
  <2> QED
    BY <2>6, <2>7
<1>9. ASSUME requests' = [requests EXCEPT ![r] =
               [op |-> "createCar", businessId |-> b, customerId |-> i, vehicle |-> v]]
      PROVE  \E call : Prepares(r, call) /\ Seeks(r, call)
  <2>1. PICK call \in RequestRecord :
          call = [op |-> "createCar", businessId |-> b, customerId |-> i, vehicle |-> v]
    BY CallMade
  <2>2. call.op = "createCar" /\ call.businessId = b /\ call.customerId = i
    BY <2>1
  <2>3. CallLinked(call)' /\ CallBegun(call)
    BY <1>6, <2>2 DEF CallLinked, CallBegun
  <2>4. Prepares(r, call)
    BY <1>2, <1>5, <1>6, <1>9, <2>1, <2>2, <2>3, CallsOK DEF Prepares
  <2>5. Seeks(r, call)
    BY <1>7, <2>2 DEF Seeks
  <2> QED
    BY <2>4, <2>5
<1>10. \/ \E a \in Stored(cars) :
            /\ cars[a].customerId = i
            /\ requests' = [requests EXCEPT ![r] =
                 [op |-> "book", businessId |-> b, customerId |-> i, carId |-> a]]
       \/ requests' = [requests EXCEPT ![r] =
            [op |-> "createCar", businessId |-> b, customerId |-> i, vehicle |-> v]]
  BY <1>3 DEF FindCar, SameCars, ToBook
<1> QED
  BY <1>8, <1>9, <1>10

(* CreateCar: a car of the customer that the request is for *)
Parks(r, a, row) ==
  /\ requests[r].op = "createCar"
  /\ a \in CarIds /\ cars[a] = NoRow /\ row \in CarRow
  /\ row.customerId = requests[r].customerId /\ row.vehicle = requests[r].vehicle /\ row.mobile
  /\ cars' = [cars EXCEPT ![a] = row]
  /\ UNCHANGED twinned

LEMMA CreateCarDoes ==
  ASSUME BaseInv, NEW r \in Requests, CreateCar(r)
  PROVE  \E a, row : Parks(r, a, row)
<1>1. requests[r].op = "createCar" /\ UNCHANGED twinned
  BY DEF CreateCar
<1>2. requests[r].customerId \in CustomerIds /\ requests[r].vehicle \in Vehicles
  BY <1>1, BusyTyped, CallTyped
<1>3. PICK a \in Unused(cars) :
        cars' = [cars EXCEPT ![a] = [customerId |-> requests[r].customerId,
                                     vehicle |-> requests[r].vehicle, mobile |-> TRUE]]
  BY DEF CreateCar
<1>4. PICK row \in CarRow : row = [customerId |-> requests[r].customerId,
                                   vehicle |-> requests[r].vehicle, mobile |-> TRUE]
  BY <1>2 DEF CarRow
<1>5. a \in CarIds /\ cars[a] = NoRow
  BY <1>3 DEF Unused, BaseInv, TypeOK
<1>6. Parks(r, a, row)
  BY <1>1, <1>3, <1>4, <1>5 DEF Parks
<1> QED
  BY <1>6

LEMMA CreateCarPrepares ==
  ASSUME BaseInv, NEW r \in Requests, CreateCar(r)
  PROVE  \E call : Prepares(r, call) /\ Seeks(r, call)
<1>1. requests[r].op = "createCar"
  BY DEF CreateCar
<1>2. /\ requests[r] \in RequestRecord /\ CallLinked(requests[r]) /\ ~Telling(r)
      /\ requests[r].businessId \in Businesses /\ requests[r].customerId \in CustomerIds
      /\ requests[r].vehicle \in Vehicles
  BY <1>1, BusyTyped, CallTyped
<1>3. PICK b \in Businesses, i \in CustomerIds, v \in Vehicles :
        b = requests[r].businessId /\ i = requests[r].customerId /\ v = requests[r].vehicle
  BY <1>2
<1>4. Of(i, b)
  BY <1>1, <1>2, <1>3 DEF CallLinked
<1>5. UNCHANGED <<bookings, customers, calls, past, made, knows, muddled, raced, twinned, notices,
                  deviceVars>>
  BY DEF CreateCar
<1>6. PICK a \in Unused(cars) :
        /\ requests' = [requests EXCEPT ![r] =
             [op |-> "book", businessId |-> b, customerId |-> i, carId |-> a]]
        /\ cars' = [cars EXCEPT ![a] = [customerId |-> i, vehicle |-> v, mobile |-> TRUE]]
  BY <1>3 DEF CreateCar, ToBook
<1>7. a \in CarIds /\ cars[a] = NoRow
  BY <1>6 DEF Unused, BaseInv, TypeOK
<1>8. PICK call \in RequestRecord :
        call = [op |-> "book", businessId |-> b, customerId |-> i, carId |-> a]
  BY <1>7, CallMade
<1>9. call.op = "book" /\ call.businessId = b /\ call.customerId = i /\ call.carId = a
  BY <1>8
<1>10. PICK row \in CarRow : row = [customerId |-> i, vehicle |-> v, mobile |-> TRUE]
  BY DEF CarRow
<1>11. row.customerId = i
  BY <1>10
<1>12. RowsMove /\ cars' \in [CarIds -> CarRow \cup {NoRow}] /\ CarOf(a, BusinessOf(row.customerId))'
  BY <1>4, <1>5, <1>6, <1>7, <1>10, <1>11, CarsMove DEF Of
<1>13. CarOf(a, b)' /\ Of(i, b)'
  BY <1>4, <1>5, <1>11, <1>12 DEF CarOf, Of, BusinessOf, RowsMove
<1>14. CallLinked(call)' /\ CallBegun(call)
  BY <1>9, <1>13 DEF CallLinked, CallBegun
<1>15. Prepares(r, call)
  BY <1>2, <1>5, <1>6, <1>8, <1>9, <1>12, <1>14, CallsOK DEF Prepares
<1>16. Seeks(r, call)
  BY <1>5, <1>9 DEF Seeks, BaseInv, TypeOK
<1> QED
  BY <1>15, <1>16

LEMMA AbandonPrepares ==
  ASSUME BaseInv, NEW r \in Requests, Abandon(r)
  PROVE  \E call : Prepares(r, call) /\ Seeks(r, call)
<1>1. PICK call : call = Idle
  OBVIOUS
<1>2. call \in RequestRecord /\ call.op = "idle"
  BY <1>1, CallMade
<1>3. UNCHANGED <<bookings, customers, cars, calls, past, made, knows, muddled, raced,
                  twinned, notices, deviceVars>>
      /\ requests' = [requests EXCEPT ![r] = call] /\ Busy(r)
  BY <1>1 DEF Abandon, Answer
<1>4. RowsMove
  BY <1>3, RowsStay
<1>5. CallLinked(call)' /\ CallBegun(call) /\ ~Telling(r)
  BY <1>2, <1>3 DEF CallLinked, CallBegun, BaseInv, Apart
<1>6. Prepares(r, call)
  BY <1>2, <1>3, <1>4, <1>5, CallsOK DEF Prepares, BaseInv, TypeOK
<1>7. Seeks(r, call)
  BY <1>2, <1>3 DEF Seeks, BaseInv, TypeOK
<1> QED
  BY <1>6, <1>7

(* Steps of the notices, which leave the rows and the requests alone *)
LEMMA TellingBase ==
  ASSUME BaseInv, NoticeInv', UNCHANGED <<bookings, customers, cars, requests, past, made,
                                          raced, twinned>>,
         knows' \in [BookingIds -> Statuses \cup {Unheard}], muddled' \subseteq BookingIds,
         \A q \in Requests : Telling(q)' => Telling(q) /\ notices'[q].bookingIds = notices[q].bookingIds
  PROVE  BaseInv' /\ RowsMove
<1>1. RowsMove
  BY RowsStay
<1>2. TypeOK'
  BY DEF BaseInv, TypeOK, NoticeInv
<1>3. Apart'
  BY DEF BaseInv, Apart, Busy
<1>4. RowInv'
  BY <1>1, <1>2, RowsMoveKeeps
<1> QED
  BY <1>1, <1>2, <1>3, <1>4 DEF BaseInv

(* LookUp *)
LooksUp(r, found) ==
  /\ At(r, "lookup") /\ found = Recipients(notices[r]) /\ found \in SUBSET Delivery
  /\ Telling(r)' <=> found # {}
  /\ Telling(r)' =>
       /\ notices'[r].step = "next" /\ notices'[r].todo = found
       /\ notices'[r].news = notices[r].news /\ notices'[r].bookingIds = notices[r].bookingIds
       /\ notices'[r].businessId = notices[r].businessId
  /\ \A q \in Requests \ {r} : notices'[q] = notices[q]
  /\ muddled' = IF notices[r].news \in BusinessNews THEN muddled
                ELSE muddled \cup (notices[r].bookingIds \ {d.bookingId : d \in found})
  /\ UNCHANGED <<bookings, customers, cars, requests, calls, past, made, knows, raced,
                 twinned, deviceVars>>

LEMMA RecipientsTyped ==
  ASSUME BaseInv, NEW call \in Notice
  PROVE  Recipients(call) \in SUBSET Delivery
<1>1. call.news \in News /\ call.bookingIds \subseteq BookingIds
  BY DEF Notice
<1>2. \A k \in Stored(bookings) : bookings[k].businessId \in Users
  BY RowTyped DEF BaseInv, BookingRow
<1> QED
  BY <1>1, <1>2 DEF Recipients, Delivery

LEMMA LookUpDoes ==
  ASSUME BaseInv, NEW r \in Requests, LookUp(r)
  PROVE  \E found : LooksUp(r, found)
<1>1. /\ At(r, "lookup") /\ Telling(r) /\ notices[r] \in Notice
      /\ notices \in [Requests -> {NoNotice} \cup Notice]
  BY TellingTyped DEF LookUp, At, BaseInv, NoticeInv, NotificationsTypeOK
<1>2. PICK found : found = Recipients(notices[r])
  OBVIOUS
<1>3. found \in SUBSET Delivery
  BY <1>1, <1>2, RecipientsTyped
<1>4. /\ notices' = [notices EXCEPT ![r] = Rest([@ EXCEPT !.todo = found])]
      /\ muddled' = IF notices[r].news \in BusinessNews THEN muddled
                    ELSE muddled \cup (notices[r].bookingIds \ {d.bookingId : d \in found})
      /\ UNCHANGED <<bookings, customers, cars, requests, calls, past, made, knows, raced,
                     twinned, deviceVars>>
  BY <1>2 DEF LookUp
<1>5. PICK call : call = [notices[r] EXCEPT !.todo = found]
  OBVIOUS
<1>6. /\ call \in Notice /\ call.todo = found /\ call.news = notices[r].news
      /\ call.bookingIds = notices[r].bookingIds /\ call.businessId = notices[r].businessId
  BY <1>1, <1>3, <1>5 DEF Notice
<1>7. notices'[r] = Rest(call) /\ \A q \in Requests \ {r} : notices'[q] = notices[q]
  BY <1>1, <1>4, <1>5
<1>8. Rest(call) = NoNotice <=> found = {}
  BY <1>6, NoticeReal DEF Rest, Notice, NoNotice
<1>9. LooksUp(r, found)
  BY <1>1, <1>2, <1>3, <1>4, <1>6, <1>7, <1>8, RestTyped DEF LooksUp, Telling
<1> QED
  BY <1>9

LEMMA LookUpBase ==
  ASSUME BaseInv, NEW r \in Requests, LookUp(r), NEW found, LooksUp(r, found)
  PROVE  BaseInv' /\ RowsMove
<1>1. NoticeInv'
  BY LookUpMoves DEF LookUp, LooksUp, deviceVars, BaseInv
<1>2. muddled' \subseteq BookingIds
  BY TellingTyped DEF LooksUp, At, Notice, BaseInv, TypeOK
<1> QED
  BY <1>1, <1>2, TellingBase DEF LooksUp, At, Telling, BaseInv, TypeOK

(* TellNext *)
TellsOne(r, d) ==
  /\ At(r, "next") /\ d \in notices[r].todo
  /\ inbox' = inbox \cup
       {[to |-> d.to, bookingId |-> d.bookingId, news |-> d.news, status |-> "unread"]}
  /\ Telling(r)' /\ notices'[r].step = "devices" /\ notices'[r].todo = notices[r].todo \ {d}
  /\ notices'[r].news = notices[r].news /\ notices'[r].bookingIds = notices[r].bookingIds
  /\ notices'[r].businessId = notices[r].businessId
  /\ \A q \in Requests \ {r} : notices'[q] = notices[q]
  /\ knows' = [k \in BookingIds |->
       IF notices[r].news \notin BusinessNews /\ d.bookingId = k THEN notices[r].news ELSE knows[k]]
  /\ UNCHANGED <<bookings, customers, cars, requests, past, muddled, made, raced, twinned>>

LEMMA TellNextDoes ==
  ASSUME BaseInv, NEW r \in Requests, TellNext(r)
  PROVE  \E d : TellsOne(r, d)
<1>1. /\ At(r, "next") /\ Telling(r) /\ notices[r] \in Notice
      /\ notices \in [Requests -> {NoNotice} \cup Notice]
  BY TellingTyped DEF TellNext, Deliver, At, BaseInv, NoticeInv, NotificationsTypeOK
<1>2. PICK d \in notices[r].todo :
       /\ inbox' = inbox \cup
            {[to |-> d.to, bookingId |-> d.bookingId, news |-> d.news, status |-> "unread"]}
       /\ notices' = [notices EXCEPT ![r].step = "devices", ![r].to = d.to,
                                     ![r].todo = @ \ {d}]
  BY DEF TellNext, Deliver
<1>3. /\ notices'[r].step = "devices" /\ notices'[r].todo = notices[r].todo \ {d}
      /\ notices'[r].news = notices[r].news /\ notices'[r].bookingIds = notices[r].bookingIds
      /\ notices'[r].businessId = notices[r].businessId
      /\ \A q \in Requests \ {r} : notices'[q] = notices[q]
  BY <1>1, <1>2 DEF Notice
<1>4. Telling(r)'
  BY <1>3 DEF Telling, NoNotice
<1>5. notices[r].todo \ notices'[r].todo = {d}
  BY <1>3
<1>6. knows' = [k \in BookingIds |->
       IF notices[r].news \notin BusinessNews
          /\ \E x \in notices[r].todo \ notices'[r].todo : x.bookingId = k
       THEN notices[r].news ELSE knows[k]]
  BY DEF TellNext
<1>7. knows' = [k \in BookingIds |->
       IF notices[r].news \notin BusinessNews /\ d.bookingId = k THEN notices[r].news ELSE knows[k]]
  BY <1>5, <1>6
<1>8. TellsOne(r, d)
  BY <1>1, <1>2, <1>3, <1>4, <1>7 DEF TellsOne, TellNext
<1> QED
  BY <1>8

LEMMA TellNextBase ==
  ASSUME BaseInv, NEW r \in Requests, TellNext(r), NEW d, TellsOne(r, d)
  PROVE  BaseInv' /\ RowsMove
<1>1. NoticeInv'
  BY DeliverMoves DEF TellNext, BaseInv
<1>2. notices[r] \in Notice
  BY TellingTyped DEF TellsOne, At, BaseInv
<1>3. notices[r].news \in BusinessNews \/ notices[r].news \in Statuses
  BY <1>2 DEF Notice, BusinessNews
<1>4. knows' \in [BookingIds -> Statuses \cup {Unheard}]
  BY <1>3 DEF TellsOne, BaseInv, TypeOK
<1> QED
  BY <1>1, <1>4, TellingBase DEF TellsOne, At, Telling, BaseInv, TypeOK

(* Untell *)
Untells(r) ==
  /\ Telling(r)
  /\ Telling(r)' =>
       /\ notices'[r].step # "lookup" /\ notices'[r].todo \subseteq notices[r].todo
       /\ notices'[r].news = notices[r].news /\ notices'[r].bookingIds = notices[r].bookingIds
       /\ notices'[r].businessId = notices[r].businessId
  /\ \A q \in Requests \ {r} : notices'[q] = notices[q]
  /\ muddled' = muddled \cup Untold(r)
  /\ UNCHANGED <<bookings, customers, cars, requests, past, made, knows, raced, twinned, inbox>>

LEMMA UntellDoes ==
  ASSUME BaseInv, NEW r \in Requests, Untell(r)
  PROVE  Untells(r)
<1>0. /\ muddled' = muddled \cup Untold(r)
      /\ UNCHANGED <<bookings, customers, cars, requests, past, made, knows, raced,
                     twinned, inbox>>
  BY DEF Untell, GiveUp, Mute
<1>1. /\ Telling(r) /\ notices[r] \in Notice
      /\ notices \in [Requests -> {NoNotice} \cup Notice]
  BY TellingTyped DEF Untell, GiveUp, Mute, At, BaseInv, NoticeInv, NotificationsTypeOK
<1>2. CASE GiveUp(r)
  <2>1. notices'[r] = NoNotice /\ \A q \in Requests \ {r} : notices'[q] = notices[q]
    BY <1>1, <1>2 DEF GiveUp
  <2> QED
    BY <1>0, <1>1, <2>1 DEF Untells, Telling
<1>3. CASE Mute(r)
  <2>1. PICK d \in notices[r].todo :
          notices' = [notices EXCEPT ![r] = Rest([notices[r] EXCEPT !.todo = @ \ {d}])]
    BY <1>3 DEF Mute
  <2>2. PICK call : call = [notices[r] EXCEPT !.todo = @ \ {d}]
    OBVIOUS
  <2>3. /\ call \in Notice /\ call.todo \subseteq notices[r].todo /\ call.news = notices[r].news
        /\ call.bookingIds = notices[r].bookingIds /\ call.businessId = notices[r].businessId
    BY <1>1, <2>2 DEF Notice
  <2>4. notices'[r] = Rest(call) /\ \A q \in Requests \ {r} : notices'[q] = notices[q]
    BY <1>1, <2>1, <2>2
  <2>5. Telling(r)' =>
          /\ notices'[r].step # "lookup" /\ notices'[r].todo \subseteq notices[r].todo
          /\ notices'[r].news = notices[r].news /\ notices'[r].bookingIds = notices[r].bookingIds
          /\ notices'[r].businessId = notices[r].businessId
    BY <2>3, <2>4, RestTyped DEF Telling
  <2> QED
    BY <1>0, <1>1, <2>4, <2>5 DEF Untells
<1> QED
  BY <1>2, <1>3 DEF Untell

LEMMA UntellBase ==
  ASSUME BaseInv, NEW r \in Requests, Untell(r)
  PROVE  BaseInv' /\ RowsMove
<1>1. Untells(r)
  BY UntellDoes
<1>2. NoticeInv'
  BY GiveUpMoves, MuteMoves DEF Untell, BaseInv
<1>3. muddled' \subseteq BookingIds
  BY <1>1, TellingTyped DEF Untells, Untold, Notice, BaseInv, TypeOK
<1> QED
  BY <1>1, <1>2, <1>3, TellingBase DEF Untells, Telling, BaseInv, TypeOK

(* The steps of the notices that Bookings has no part in *)
LEMMA PushBase ==
  ASSUME BaseInv, NoticeInv', PushOnly, UNCHANGED bookingVars
  PROVE  BaseInv' /\ RowsMove
<1>1. UNCHANGED <<bookings, customers, cars, requests, past, made, raced, twinned, knows,
                  muddled>>
  BY DEF bookingVars
<1>2. \A q \in Requests : Telling(q)' => Telling(q) /\ notices'[q].bookingIds = notices[q].bookingIds
  BY DEF PushOnly, Carried
<1>3. knows' \in [BookingIds -> Statuses \cup {Unheard}] /\ muddled' \subseteq BookingIds
  BY <1>1 DEF BaseInv, TypeOK
<1> QED
  BY <1>1, <1>2, <1>3, TellingBase

(* CreateCustomer *)
Joins(r, i, row) ==
  /\ requests[r].op = "findCar" /\ requests[r].customerId = New
  /\ i \in CustomerIds /\ customers[i] = NoRow /\ row \in CustomerRow
  /\ row.businessId = requests[r].businessId /\ row.email = requests[r].client /\ row.mobile
  /\ customers' = [customers EXCEPT ![i] = row]
  /\ requests'[r] \in RequestRecord /\ requests'[r].op = "findCar" /\ requests'[r].customerId = i
  /\ requests'[r].businessId = requests[r].businessId
  /\ requests' = [requests EXCEPT ![r] = requests'[r]]
  /\ UNCHANGED <<bookings, cars, calls, past, made, knows, muddled, raced, twinned,
                 notices, deviceVars>>

LEMMA CreateCustomerDoes ==
  ASSUME BaseInv, NEW r \in Requests, CreateCustomer(r)
  PROVE  \E i, row : Joins(r, i, row)
<1>1. /\ requests[r].op = "findCar" /\ requests[r].customerId = New
      /\ UNCHANGED <<bookings, cars, calls, past, made, knows, muddled, raced, twinned,
                     notices, deviceVars>>
  BY DEF CreateCustomer
<1>2. /\ requests[r] \in RequestRecord /\ requests[r].businessId \in Businesses
      /\ requests[r].client \in Clients /\ requests[r].vehicle \in Vehicles
      /\ requests \in [Requests -> RequestRecord]
  BY <1>1, BusyTyped, CallTyped DEF BaseInv, TypeOK
<1>3. requests[r] \in [op : {"findCar"}, businessId : Businesses, client : Clients,
                       vehicle : Vehicles, customerId : CustomerIds \cup {New}]
  BY <1>1, <1>2 DEF RequestRecord, Idle
<1>4. PICK i \in Unused(customers) :
       /\ customers' = [customers EXCEPT ![i] =
            [businessId |-> requests[r].businessId, email |-> requests[r].client, mobile |-> TRUE]]
       /\ requests' = [requests EXCEPT ![r].customerId = i]
  BY DEF CreateCustomer
<1>5. i \in CustomerIds /\ customers[i] = NoRow
  BY DEF Unused, BaseInv, TypeOK
<1>6. PICK row : row = [businessId |-> requests[r].businessId, email |-> requests[r].client, mobile |-> TRUE]
  OBVIOUS
<1>7. row \in CustomerRow /\ row.businessId = requests[r].businessId /\ row.email = requests[r].client /\ row.mobile
  BY <1>2, <1>6 DEF CustomerRow
<1>8. PICK call : call = [requests[r] EXCEPT !.customerId = i]
  OBVIOUS
<1>9. /\ call \in [op : {"findCar"}, businessId : Businesses, client : Clients,
                   vehicle : Vehicles, customerId : CustomerIds \cup {New}]
      /\ call.customerId = i /\ call.businessId = requests[r].businessId /\ call.op = "findCar"
  BY <1>3, <1>5, <1>8
<1>10. call \in RequestRecord
  BY <1>9 DEF RequestRecord
<1>11. requests' = [requests EXCEPT ![r] = call] /\ requests'[r] = call
  BY <1>2, <1>4, <1>8
<1>12. Joins(r, i, row)
  BY <1>1, <1>4, <1>5, <1>6, <1>7, <1>9, <1>10, <1>11 DEF Joins
<1> QED
  BY <1>12

LEMMA CreateCustomerBase ==
  ASSUME BaseInv, NEW r \in Requests, NEW i, NEW row, Joins(r, i, row)
  PROVE  BaseInv' /\ RowsMove
<1>1. PastOK' /\ \A k \in BookingIds : past[k] \subseteq past'[k]
  BY DEF Joins, PastOK, BaseInv, RowInv
<1>2. /\ RowsMove /\ customers' \in [CustomerIds -> CustomerRow \cup {NoRow}]
      /\ Of(i, row.businessId)'
  BY <1>1, CustomersMove DEF Joins
<1>3. /\ requests' \in [Requests -> RequestRecord]
      /\ \A q \in Requests \ {r} : requests'[q] = requests[q]
  BY DEF Joins, BaseInv, TypeOK
<1>4. RowTypes'
  BY <1>2 DEF RowTypes, Joins, BaseInv, TypeOK
<1>5. NoticeInv'
  BY StaysKeeps, CallsOK DEF Joins
<1>6. CallLinked(requests[r])' /\ CallBegun(requests[r])'
  BY <1>2 DEF CallLinked, CallBegun, Joins
<1>7. ~Telling(r)'
  BY BusyTyped DEF Joins, Telling
<1>8. BaseInv'
  BY <1>2, <1>3, <1>4, <1>5, <1>6, <1>7, BaseMoves DEF Joins
<1> QED
  BY <1>2, <1>8

(* CreateOrUpdateCustomer *)
Edits(i, row) ==
  /\ i \in CustomerIds /\ row \in CustomerRow /\ ~row.mobile
  /\ customers[i] # NoRow => BusinessOf(i) = row.businessId
  /\ customers' = [customers EXCEPT ![i] = row] /\ customers'[i] = row
  /\ past' = [k \in BookingIds |->
       IF bookings[k] # NoRow /\ bookings[k].customerId = i
       THEN past[k] \cup {row.email} ELSE past[k]]
  /\ muddled' = muddled \cup
       {k \in Stored(bookings) : bookings[k].customerId = i /\ EmailOf(i) # row.email}
  /\ calls' \in 0..MaxCalls
  /\ UNCHANGED <<bookings, cars, requests, made, knows, raced, twinned, notices, deviceVars>>

LEMMA EditDoes ==
  ASSUME BaseInv, NEW b \in Businesses, NEW i \in CustomerIds, CreateOrUpdateCustomer(b, i)
  PROVE  \E row : Edits(i, row)
<1>1. PICK email \in Clients \cup {NoEmail} :
       customers' = [customers EXCEPT ![i] = [businessId |-> b, email |-> email, mobile |-> FALSE]]
  BY DEF CreateOrUpdateCustomer
<1>2. PICK row : row = [businessId |-> b, email |-> email, mobile |-> FALSE]
  OBVIOUS
<1>3. row \in CustomerRow /\ ~row.mobile /\ row.businessId = b /\ row.email = email
  BY <1>2 DEF CustomerRow
<1>4. customers' = [customers EXCEPT ![i] = row] /\ customers'[i] = row
  BY <1>1, <1>2 DEF BaseInv, TypeOK
<1>5. calls' \in 0..MaxCalls
  BY CallsOK DEF CreateOrUpdateCustomer, Count
<1>6. /\ customers[i] # NoRow => BusinessOf(i) = b
      /\ past' = [k \in BookingIds |->
           IF bookings[k] # NoRow /\ bookings[k].customerId = i
           THEN past[k] \cup {customers'[i].email} ELSE past[k]]
      /\ muddled' = muddled \cup
           {k \in Stored(bookings) : bookings[k].customerId = i /\ EmailOf(i) # customers'[i].email}
      /\ UNCHANGED <<bookings, cars, requests, made, knows, raced, twinned, notices, deviceVars>>
  BY DEF CreateOrUpdateCustomer, deviceVars
<1>7. Edits(i, row)
  BY <1>3, <1>4, <1>5, <1>6 DEF Edits
<1> QED
  BY <1>7

LEMMA EditBase ==
  ASSUME BaseInv, NEW i, NEW row, Edits(i, row)
  PROVE  BaseInv' /\ RowsMove
<1>1. past \in [BookingIds -> SUBSET (Statuses \cup Users \cup {NoEmail})]
  BY DEF BaseInv, RowInv, PastOK
<1>2. row.email \in Users \cup {NoEmail}
  BY DEF Edits, CustomerRow
<1>3. PastOK' /\ \A k \in BookingIds : past[k] \subseteq past'[k]
  BY <1>1, <1>2 DEF PastOK, Edits
<1>4. RowsMove /\ customers' \in [CustomerIds -> CustomerRow \cup {NoRow}]
  BY <1>3, CustomersMove DEF Edits
<1>5. NoticeInv'
  BY StaysKeeps DEF Edits
<1>6. TypeOK'
  <2>1. muddled' \subseteq BookingIds
    BY RowTyped DEF Edits, BaseInv, TypeOK
  <2> QED
    BY <1>4, <1>5, <2>1 DEF BaseInv, TypeOK, NoticeInv, Edits
<1>7. Apart'
  BY DEF BaseInv, Apart, Busy, Telling, Edits
<1>8. RowInv'
  BY <1>4, <1>6, RowsMoveKeeps DEF Edits, Telling
<1> QED
  BY <1>4, <1>5, <1>6, <1>7, <1>8 DEF BaseInv

LEMMA EditCarBase ==
  ASSUME BaseInv, NEW b \in Businesses, NEW a \in CarIds, CreateOrUpdateCar(b, a)
  PROVE  /\ BaseInv' /\ RowsMove
         /\ UNCHANGED <<bookings, customers, requests, past, made, knows, muddled, raced,
                        twinned, notices, deviceVars>>
<1>0. UNCHANGED <<bookings, customers, requests, past, made, knows, muddled, raced,
                  twinned, notices, deviceVars>>
  BY DEF CreateOrUpdateCar, deviceVars
<1>1. PICK i \in Stored(customers), v \in Vehicles \cup {NoVehicle} :
       /\ BusinessOf(i) = b
       /\ cars' = [cars EXCEPT ![a] = [customerId |-> i, vehicle |-> v, mobile |-> FALSE]]
  BY DEF CreateOrUpdateCar
<1>2. i \in CustomerIds
  BY RowTyped DEF BaseInv
<1>3. PICK row : row = [customerId |-> i, vehicle |-> v, mobile |-> FALSE]
  OBVIOUS
<1>4. row \in CarRow /\ row.customerId = i
  BY <1>2, <1>3 DEF CarRow
<1>5. cars[a] # NoRow => BusinessOf(cars[a].customerId) = b
  BY DEF CreateOrUpdateCar
<1>6. RowsMove /\ cars' \in [CarIds -> CarRow \cup {NoRow}]
  BY <1>0, <1>1, <1>3, <1>4, <1>5, CarsMove
<1>7. calls' \in 0..MaxCalls
  BY CallsOK DEF CreateOrUpdateCar, Count
<1>8. NoticeInv'
  BY <1>0, <1>7, StaysKeeps
<1>9. TypeOK'
  BY <1>0, <1>6, <1>8 DEF BaseInv, TypeOK, NoticeInv
<1>10. Apart'
  BY <1>0 DEF BaseInv, Apart, Busy, Telling
<1>11. RowInv'
  BY <1>0, <1>6, <1>9, RowsMoveKeeps DEF Telling
<1> QED
  BY <1>0, <1>6, <1>8, <1>9, <1>10, <1>11 DEF BaseInv

-------------------------------------------------------------------------------
(* The messages.  A notice that goes on says nothing new; a new one, and a *)
(* message from it, says what is so.                                       *)
GoesOn(q) ==
  /\ Telling(q)
  /\ notices'[q].news = notices[q].news /\ notices'[q].bookingIds = notices[q].bookingIds
  /\ notices'[q].businessId = notices[q].businessId /\ notices'[q].todo \subseteq notices[q].todo
  /\ notices'[q].step = "lookup" => notices[q].step = "lookup"

True(m) == m.to \in past[m.bookingId] /\ (m.news \in Statuses => m.news \in past[m.bookingId])

LEMMA NewsMove ==
  ASSUME BaseInv, RowsMove, BaseInv', NEW q \in Requests, Telling(q)', GoesOn(q), NewsTrue(notices[q])
  PROVE  NewsTrue(notices[q])'
<1>1. /\ notices[q] \in Notice /\ notices[q].bookingIds \subseteq BookingIds
      /\ notices[q].todo \subseteq Delivery
      /\ \A k \in notices[q].bookingIds : past[k] # {}
  BY TellingTyped DEF GoesOn, Notice, BaseInv, RowInv, Begun
<1>2. \A k \in BookingIds : past[k] \subseteq past'[k]
  BY DEF RowsMove
<1>3. ASSUME NEW d \in notices'[q].todo
      PROVE  /\ d.bookingId \in notices'[q].bookingIds /\ d.news = notices'[q].news
             /\ d.to \in past'[d.bookingId]
             /\ d.news \in Statuses => d.news \in past'[d.bookingId]
  <2>1. d \in notices[q].todo /\ d.bookingId \in BookingIds
    BY <1>1 DEF GoesOn, Delivery
  <2>2. /\ d.bookingId \in notices[q].bookingIds /\ d.news = notices[q].news
        /\ d.to \in past[d.bookingId]
        /\ d.news \in Statuses => d.news \in past[d.bookingId]
    BY <2>1 DEF NewsTrue
  <2> QED
    BY <1>2, <2>1, <2>2 DEF GoesOn
<1>4. ASSUME notices'[q].step = "lookup", notices'[q].news \in Statuses,
             NEW k \in notices'[q].bookingIds, k \in Stored(bookings)'
      PROVE  notices'[q].news \in past'[k] \/ bookings'[k].businessId # notices'[q].businessId
  <2>1. k \in notices[q].bookingIds /\ k \in BookingIds /\ past[k] # {}
    BY <1>1 DEF GoesOn
  <2>2. k \in Stored(bookings) /\ bookings'[k].businessId = bookings[k].businessId
    BY <1>4, <2>1 DEF RowsMove
  <2>3. notices[q].news \in past[k] \/ bookings[k].businessId # notices[q].businessId
    BY <1>4, <2>1, <2>2 DEF NewsTrue, GoesOn
  <2> QED
    BY <1>2, <2>1, <2>2, <2>3 DEF GoesOn
<1> QED
  BY <1>3, <1>4 DEF NewsTrue

LEMMA MessagesMove ==
  ASSUME BaseInv, MessageInv, RowsMove, BaseInv', PastHolds',
         \A m \in inbox' :
           (\E n \in inbox : m.to = n.to /\ m.bookingId = n.bookingId /\ m.news = n.news)
             \/ (m.bookingId \in BookingIds /\ True(m)),
         \A q \in Requests : Telling(q)' => GoesOn(q) \/ NewsTrue(notices[q])'
  PROVE  MessageInv'
<1>1. MessagesTrue'
  <2> SUFFICES ASSUME NEW m \in inbox'
               PROVE  m.to \in past'[m.bookingId] /\ (m.news \in Statuses => m.news \in past'[m.bookingId])
    BY DEF MessagesTrue
  <2>1. \A k \in BookingIds : past[k] \subseteq past'[k]
    BY DEF RowsMove
  <2>2. \A n \in inbox : n.bookingId \in BookingIds
    BY DEF BaseInv, NoticeInv, NotificationsTypeOK, InboxMessage
  <2> QED
    BY <2>1, <2>2 DEF MessageInv, MessagesTrue, True
<1>2. ASSUME NEW q \in Requests, Telling(q)' PROVE NewsTrue(notices[q])'
  BY <1>2, NewsMove DEF MessageInv, GoesOn
<1> QED
  BY <1>1, <1>2 DEF MessageInv

(* Where the rows of the bookings and of their customers stay *)
LEMMA PastStays ==
  ASSUME BaseInv, PastHolds, RowsMove, UNCHANGED <<bookings, customers>>
  PROVE  PastHolds'
<1>1. \A k : k \in Stored(bookings)' => k \in Stored(bookings) /\ bookings'[k] = bookings[k] /\ k \in BookingIds
  BY RowTyped DEF Stored, BaseInv
<1> QED
  BY <1>1 DEF PastHolds, RowsMove, EmailOf

(* A notice that begins *)
LEMMA TellsNews ==
  ASSUME NEW r \in Requests, NEW what, NEW b, NEW ids, Tells(r, what, b, ids),
         what \in Statuses => \A k \in ids : k \in Stored(bookings)' =>
           what \in past'[k] \/ bookings'[k].businessId # b
  PROVE  /\ NewsTrue(notices[r])'
         /\ \A q \in Requests : Telling(q)' => GoesOn(q) \/ NewsTrue(notices[q])'
<1>1. NewsTrue(notices[r])'
  BY DEF NewsTrue, Tells
<1>2. \A q \in Requests \ {r} : Telling(q)' => GoesOn(q)
  BY DEF Tells, GoesOn, Telling
<1> QED
  BY <1>1, <1>2

LEMMA SameNews ==
  ASSUME UNCHANGED notices
  PROVE  \A q \in Requests : Telling(q)' => GoesOn(q) \/ NewsTrue(notices[q])'
BY DEF GoesOn, Telling

LEMMA PutPast ==
  ASSUME BaseInv, PastHolds, UNCHANGED customers, NEW k \in BookingIds, NEW row \in BookingRow,
         PutBooking(k, row), bookings'[k] = row
  PROVE  PastHolds' /\ row.status \in past'[k]
<1>1. /\ past'[k] = past[k] \cup {row.status, row.businessId, EmailOf(row.customerId)}
      /\ \A x \in BookingIds \ {k} : past'[x] = past[x] /\ bookings'[x] = bookings[x]
      /\ DOMAIN bookings' = BookingIds /\ DOMAIN bookings = BookingIds
  BY DEF PutBooking, BaseInv, TypeOK, RowInv, PastOK
<1>2. EmailOf(row.customerId)' = EmailOf(row.customerId)
  BY DEF EmailOf
<1>3. \A x \in Stored(bookings)' : x \in BookingIds /\ (x # k => x \in Stored(bookings))
  BY <1>1 DEF Stored
<1>4. ASSUME NEW x \in Stored(bookings)'
      PROVE  {bookings[x].status, bookings[x].businessId, EmailOf(bookings[x].customerId)}' \subseteq past'[x]
  <2>1. CASE x = k
    BY <1>1, <2>1 DEF EmailOf
  <2>2. CASE x # k
    <3>1. x \in Stored(bookings) /\ bookings'[x] = bookings[x] /\ past'[x] = past[x]
      BY <1>1, <1>3, <2>2
    <3>2. {bookings[x].status, bookings[x].businessId, EmailOf(bookings[x].customerId)} \subseteq past[x]
      BY <3>1 DEF PastHolds
    <3> QED
      BY <3>1, <3>2 DEF EmailOf
  <2> QED
    BY <2>1, <2>2
<1> QED
  BY <1>1, <1>4 DEF PastHolds

LEMMA InsertMessages ==
  ASSUME BaseInv, MessageInv, NEW r \in Requests, NEW k, NEW row, Inserts(r, k, row)
  PROVE  MessageInv'
<1>1. BaseInv' /\ RowsMove
  BY InsertBase
<1>2. bookings'[k] = row
  BY DEF Inserts, PutBooking, BaseInv, TypeOK
<1>3. PastHolds'
  BY <1>2, PutPast DEF Inserts, MessageInv
<1>4. inbox' = inbox
  BY DEF Inserts, deviceVars
<1>5. \A q \in Requests : Telling(q)' => GoesOn(q) \/ NewsTrue(notices[q])'
  BY TellsNews DEF Inserts
<1> QED
  BY <1>1, <1>3, <1>4, <1>5, MessagesMove

LEMMA UpdateMessages ==
  ASSUME BaseInv, MessageInv, NEW r \in Requests, NEW k, NEW row, Updates(r, k, row)
  PROVE  MessageInv'
<1>1. BaseInv' /\ RowsMove
  BY UpdateBase
<1>2. PastHolds' /\ row.status \in past'[k]
  BY PutPast DEF Updates, MessageInv
<1>3. inbox' = inbox
  BY DEF Updates, deviceVars
<1>4. \A q \in Requests : Telling(q)' => GoesOn(q) \/ NewsTrue(notices[q])'
  <2>1. CASE Tells(r, row.status, row.businessId, {k})
    <3>1. row.status \in Statuses => \A x \in {k} : x \in Stored(bookings)' =>
           row.status \in past'[x] \/ bookings'[x].businessId # row.businessId
      BY <1>2
    <3> QED
      BY <2>1, <3>1, TellsNews
  <2>2. CASE UNCHANGED notices
    BY <2>2, SameNews
  <2> QED
    BY <2>1, <2>2 DEF Updates
<1> QED
  BY <1>1, <1>2, <1>3, <1>4, MessagesMove

LEMMA CancelMessages ==
  ASSUME BaseInv, MessageInv, NEW r \in Requests, NEW k, NEW row, Cancels(r, k, row)
  PROVE  MessageInv'
<1>1. BaseInv' /\ RowsMove
  BY CancelBase
<1>2. PastHolds'
  BY PutPast DEF Cancels, MessageInv
<1>3. inbox' = inbox
  BY DEF Cancels, deviceVars
<1>4. \A q \in Requests : Telling(q)' => GoesOn(q) \/ NewsTrue(notices[q])'
  BY TellsNews DEF Cancels
<1> QED
  BY <1>1, <1>2, <1>3, <1>4, MessagesMove

LEMMA RemoveMessages ==
  ASSUME BaseInv, MessageInv, NEW r \in Requests, BaseInv', RowsMove, NEW k, Removes(r, k)
  PROVE  MessageInv'
<1>1. PastHolds'
  <2>1. \A x \in Stored(bookings)' : x \in Stored(bookings) /\ bookings'[x] = bookings[x]
    <3>1. \A x \in Stored(bookings)' : x \in BookingIds
      BY DEF Stored, BaseInv, TypeOK
    <3> QED
      BY <3>1 DEF Removes, Stored
  <2>2. UNCHANGED <<customers, past>>
    BY DEF Removes
  <2> QED
    BY <2>1, <2>2 DEF PastHolds, MessageInv, EmailOf
<1>2. inbox' = inbox /\ notices' = notices
  BY DEF Removes, deviceVars
<1> QED
  BY <1>1, <1>2, SameNews, MessagesMove

LEMMA BatchMessages ==
  ASSUME BaseInv, MessageInv, NEW r \in Requests, NEW b, NEW own, NEW ids, NEW s,
         Batches(r, b, own, ids, s)
  PROVE  MessageInv'
<1>1. BaseInv' /\ RowsMove
  BY BatchBase
<1>2. PastHolds'
  <2> SUFFICES ASSUME NEW x \in Stored(bookings)'
               PROVE  {bookings[x].status, bookings[x].businessId, EmailOf(bookings[x].customerId)}'
                        \subseteq past'[x]
    BY DEF PastHolds
  <2>1. x \in BookingIds /\ x \in Stored(bookings)
    <3>1. x \in BookingIds
      BY <1>1 DEF Stored, BaseInv, TypeOK
    <3> QED
      BY <3>1 DEF Batches
  <2>2. {bookings[x].status, bookings[x].businessId, EmailOf(bookings[x].customerId)} \subseteq past[x]
    BY <2>1 DEF PastHolds, MessageInv
  <2> QED
    BY <2>1, <2>2 DEF Batches, EmailOf
<1>3. inbox' = inbox
  BY DEF Batches, deviceVars
<1>4. \A k \in ids : k \in Stored(bookings)' => s \in past'[k] \/ bookings'[k].businessId # b
  BY DEF Batches
<1>5. \A q \in Requests : Telling(q)' => GoesOn(q) \/ NewsTrue(notices[q])'
  BY <1>4, TellsNews DEF Batches
<1> QED
  BY <1>1, <1>2, <1>3, <1>5, MessagesMove

LEMMA PrepareMessages ==
  ASSUME BaseInv, MessageInv, NEW r \in Requests, NEW call, Prepares(r, call), Seeks(r, call)
  PROVE  MessageInv'
<1>1. BaseInv' /\ RowsMove
  BY PrepareBase DEF Prepares
<1>2. UNCHANGED <<bookings, customers, notices, inbox>>
  BY DEF Prepares, deviceVars
<1>3. PastHolds'
  BY <1>1, <1>2, PastStays DEF MessageInv
<1> QED
  BY <1>1, <1>2, <1>3, SameNews, MessagesMove

LEMMA CreateCustomerMessages ==
  ASSUME BaseInv, MessageInv, NEW r \in Requests, NEW i, NEW row, Joins(r, i, row)
  PROVE  MessageInv'
<1>1. BaseInv' /\ RowsMove
  BY CreateCustomerBase
<1>2. UNCHANGED <<bookings, past, notices, inbox>>
  BY DEF Joins, deviceVars
<1>3. PastHolds'
  <2> SUFFICES ASSUME NEW k \in Stored(bookings)
               PROVE  EmailOf(bookings[k].customerId)' = EmailOf(bookings[k].customerId)
    BY <1>2 DEF PastHolds, MessageInv, Stored
  <2>1. bookings[k].customerId \in Stored(customers)
    BY DEF BaseInv, RowInv, Linked, Of
  <2>2. bookings[k].customerId # i
    BY <2>1 DEF Stored, Joins
  <2>3. customers'[bookings[k].customerId] = customers[bookings[k].customerId]
    BY <2>1, <2>2 DEF Joins, Stored
  <2> QED
    BY <1>2, <2>3 DEF EmailOf
<1> QED
  BY <1>1, <1>2, <1>3, SameNews, MessagesMove

LEMMA EditMessages ==
  ASSUME BaseInv, MessageInv, NEW i, NEW row, Edits(i, row)
  PROVE  MessageInv'
<1>1. BaseInv' /\ RowsMove
  BY EditBase
<1>2. UNCHANGED <<bookings, notices, inbox>>
  BY DEF Edits, deviceVars
<1>3. PastHolds'
  <2> SUFFICES ASSUME NEW k \in Stored(bookings)
               PROVE  {bookings[k].status, bookings[k].businessId, customers'[bookings[k].customerId].email}
                        \subseteq past'[k]
    BY <1>2 DEF PastHolds, Stored, EmailOf
  <2>1. k \in BookingIds /\ bookings[k] # NoRow
    BY RowTyped DEF BaseInv
  <2>2. {bookings[k].status, bookings[k].businessId, EmailOf(bookings[k].customerId)} \subseteq past[k]
    BY DEF PastHolds, MessageInv
  <2>3. CASE bookings[k].customerId = i
    BY <2>1, <2>2, <2>3 DEF Edits
  <2>4. CASE bookings[k].customerId # i
    <3>1. customers'[bookings[k].customerId] = customers[bookings[k].customerId]
      BY <2>4 DEF Edits, BaseInv, TypeOK, BookingRow, RowInv, Linked, Of, Stored
    <3>2. past'[k] = past[k]
      BY <2>1, <2>4 DEF Edits
    <3> QED
      BY <2>2, <3>1, <3>2 DEF EmailOf
  <2> QED
    BY <2>3, <2>4
<1> QED
  BY <1>1, <1>2, <1>3, SameNews, MessagesMove

LEMMA EditCarMessages ==
  ASSUME BaseInv, MessageInv, NEW b \in Businesses, NEW a \in CarIds, CreateOrUpdateCar(b, a)
  PROVE  MessageInv'
<1>1. /\ BaseInv' /\ RowsMove
      /\ UNCHANGED <<bookings, customers, requests, past, made, knows, muddled, raced,
                     twinned, notices, deviceVars>>
  BY EditCarBase
<1>2. PastHolds' /\ inbox' = inbox
  BY <1>1, PastStays DEF MessageInv, deviceVars
<1> QED
  BY <1>1, <1>2, SameNews, MessagesMove

(* Whoever is looked up is the owner of the booking's business or its client. *)
LEMMA RecipientsTrue ==
  ASSUME BaseInv, MessageInv, NEW r \in Requests, At(r, "lookup"), NEW d \in Recipients(notices[r])
  PROVE  d.bookingId \in notices[r].bookingIds /\ d.news = notices[r].news /\ True(d)
<1>1. NewsTrue(notices[r]) /\ notices[r].step = "lookup"
  BY DEF At, MessageInv
<1>2. CASE notices[r].news \in BusinessNews
  <2>1. PICK k \in notices[r].bookingIds \cap Stored(bookings) :
          d = [to |-> bookings[k].businessId, bookingId |-> k, news |-> notices[r].news]
    BY <1>2 DEF Recipients
  <2>2. bookings[k].businessId \in past[k]
    BY DEF MessageInv, PastHolds
  <2> QED
    BY <1>2, <2>1, <2>2 DEF True, BusinessNews
<1>3. CASE notices[r].news \notin BusinessNews
  <2>1. PICK k \in notices[r].bookingIds \cap Stored(bookings) :
          /\ bookings[k].businessId = notices[r].businessId
          /\ d = [to |-> EmailOf(bookings[k].customerId), bookingId |-> k, news |-> notices[r].news]
    BY <1>3 DEF Recipients
  <2>2. EmailOf(bookings[k].customerId) \in past[k]
    BY DEF MessageInv, PastHolds
  <2>3. notices[r].news \in Statuses => notices[r].news \in past[k]
    BY <1>1, <2>1 DEF NewsTrue
  <2> QED
    BY <2>1, <2>2, <2>3 DEF True
<1> QED
  BY <1>2, <1>3

LEMMA LookUpMessages ==
  ASSUME BaseInv, MessageInv, NEW r \in Requests, LookUp(r), NEW found, LooksUp(r, found)
  PROVE  MessageInv'
<1>1. BaseInv' /\ RowsMove
  BY LookUpBase
<1>2. PastHolds' /\ inbox' = inbox
  BY <1>1, PastStays DEF LooksUp, MessageInv, deviceVars
<1>3. ASSUME Telling(r)' PROVE NewsTrue(notices[r])'
  <2>1. \A d \in found : /\ d.bookingId \in notices[r].bookingIds /\ d.news = notices[r].news
                         /\ d.to \in past[d.bookingId]
                         /\ d.news \in Statuses => d.news \in past[d.bookingId]
    BY RecipientsTrue DEF LooksUp, True
  <2> QED
    BY <1>3, <2>1 DEF LooksUp, NewsTrue
<1>4. \A q \in Requests \ {r} : Telling(q)' => GoesOn(q)
  BY DEF LooksUp, GoesOn, Telling
<1> QED
  BY <1>1, <1>2, <1>3, <1>4, MessagesMove

LEMMA TellNextMessages ==
  ASSUME BaseInv, MessageInv, NEW r \in Requests, TellNext(r), NEW d, TellsOne(r, d)
  PROVE  MessageInv'
<1>1. BaseInv' /\ RowsMove
  BY TellNextBase
<1>2. PastHolds'
  BY <1>1, PastStays DEF TellsOne, MessageInv
<1>3. d \in notices[r].todo /\ Telling(r) /\ NewsTrue(notices[r]) /\ d.bookingId \in BookingIds
  BY TellingTyped DEF TellsOne, At, MessageInv, Notice, Delivery, BaseInv
<1>4. True(d)
  BY <1>3 DEF NewsTrue, True
<1>5. ASSUME NEW m \in inbox', m \notin inbox
      PROVE  m.bookingId \in BookingIds /\ True(m)
  <2>1. m = [to |-> d.to, bookingId |-> d.bookingId, news |-> d.news, status |-> "unread"]
    BY <1>5 DEF TellsOne
  <2>2. m.to = d.to /\ m.bookingId = d.bookingId /\ m.news = d.news
    BY <2>1
  <2> QED
    BY <1>3, <1>4, <2>2 DEF True
<1>6. \A q \in Requests : Telling(q)' => GoesOn(q)
  BY DEF TellsOne, At, GoesOn, Telling
<1> QED
  BY <1>1, <1>2, <1>5, <1>6, MessagesMove

LEMMA UntellMessages ==
  ASSUME BaseInv, MessageInv, NEW r \in Requests, Untell(r)
  PROVE  MessageInv'
<1>1. BaseInv' /\ RowsMove /\ Untells(r)
  BY UntellBase, UntellDoes
<1>2. PastHolds' /\ inbox' = inbox
  BY <1>1, PastStays DEF Untells, MessageInv
<1>3. \A q \in Requests : Telling(q)' => GoesOn(q)
  BY <1>1 DEF Untells, GoesOn, Telling
<1> QED
  BY <1>1, <1>2, <1>3, MessagesMove

LEMMA PushMessages ==
  ASSUME BaseInv, MessageInv, NoticeInv', PushOnly, UNCHANGED bookingVars
  PROVE  MessageInv'
<1>1. BaseInv' /\ RowsMove
  BY PushBase
<1>2. PastHolds'
  BY <1>1, PastStays DEF MessageInv, bookingVars
<1>3. \A q \in Requests : Telling(q)' => GoesOn(q)
  BY DEF PushOnly, Carried, GoesOn
<1> QED
  BY <1>1, <1>2, <1>3, MessagesMove DEF PushOnly

-------------------------------------------------------------------------------
(* The status that a client knows                                          *)
LEMMA Alone ==
  ASSUME BaseInv, NEW r \in Requests, NEW k, k \notin AboutOthers(r)
  PROVE  \A q \in Requests \ {r} : ~Says(q, k) /\ ~Changes(q, k)
<1> SUFFICES ASSUME NEW q \in Requests \ {r}, Says(q, k) \/ Changes(q, k) PROVE k \in About(q)
  BY DEF AboutOthers
<1>1. CASE Says(q, k)
  BY <1>1 DEF Says, About
<1>2. CASE Changes(q, k)
  <2>1. Busy(q)
    BY <1>2, BusyTyped DEF Changes
  <2> QED
    BY <1>2, <2>1 DEF Changes, About
<1> QED
  BY <1>1, <1>2

LEMMA TodoMoves ==
  ASSUME BaseInv, MessageInv, RowsMove, BaseInv', TodoOfBusiness,
         \A q \in Requests : Telling(q)' => GoesOn(q) \/ notices'[q].todo = {}
  PROVE  TodoOfBusiness'
<1> SUFFICES ASSUME NEW q \in Requests, Telling(q)', notices'[q].news \in Statuses,
                    NEW d \in notices'[q].todo, d.bookingId \in Stored(bookings)'
             PROVE  bookings'[d.bookingId].businessId = notices'[q].businessId
  BY DEF TodoOfBusiness
<1>1. GoesOn(q)
  OBVIOUS
<1>2. /\ Telling(q) /\ d \in notices[q].todo /\ notices[q].news \in Statuses
      /\ notices'[q].businessId = notices[q].businessId
  BY <1>1 DEF GoesOn
<1>3. d.bookingId \in notices[q].bookingIds /\ notices[q].bookingIds \subseteq BookingIds
  BY <1>2, TellingTyped DEF MessageInv, NewsTrue, Notice, BaseInv
<1>4. past[d.bookingId] # {} /\ d.bookingId \in BookingIds
  BY <1>2, <1>3 DEF BaseInv, RowInv, Begun
<1>5. d.bookingId \in Stored(bookings) /\ bookings'[d.bookingId].businessId = bookings[d.bookingId].businessId
  BY <1>4 DEF RowsMove
<1> QED
  BY <1>2, <1>5 DEF TodoOfBusiness

(* A booking that a step leaves alone: its client knows what he or she did. *)
LEMMA InformedStays ==
  ASSUME NEW k, Informed(k),
         bookings'[k].status = bookings[k].status, bookings'[k].businessId = bookings[k].businessId,
         Heard(k)' = Heard(k),
         \A q \in Requests : Owes(q, k) => Owes(q, k)',
         \A q \in Requests : Says(q, k)' =>
           \/ Says(q, k) /\ notices'[q].news = notices[q].news
                         /\ notices'[q].businessId = notices[q].businessId
           \/ bookings[k].businessId # notices'[q].businessId,
         \A q \in Requests : Changes(q, k)' =>
           requests'[q] = requests[q] \/ requests'[q].existing = bookings[k].status
  PROVE  Informed(k)'
<1>1. Heard(k)' = bookings'[k].status \/ \E q \in Requests : Owes(q, k)'
  BY DEF Informed
<1>2. \A q \in Requests : Says(q, k)' /\ bookings'[k].businessId = notices'[q].businessId
        => notices'[q].news = bookings'[k].status
  BY DEF Informed
<1>3. \A q \in Requests : Changes(q, k)' => requests'[q].existing = bookings'[k].status
  BY DEF Informed, Changes
<1> QED
  BY <1>1, <1>2, <1>3 DEF Informed

(* A notice begins in a slot that had none. *)
LEMMA TellsOthers ==
  ASSUME BaseInv, NEW r \in Requests, NEW what, NEW b, NEW ids, Tells(r, what, b, ids), NEW k,
         bookings'[k].status = bookings[k].status
  PROVE  /\ \A q \in Requests : Owes(q, k) => Owes(q, k)'
         /\ \A q \in Requests : Says(q, k)' =>
              \/ Says(q, k) /\ notices'[q].news = notices[q].news
                            /\ notices'[q].businessId = notices[q].businessId
              \/ q = r /\ what \in Statuses /\ k \in ids /\ notices'[q].businessId = b
         /\ \A q \in Requests : Telling(q)' => GoesOn(q) \/ notices'[q].todo = {}
<1>1. ~Owes(r, k)
  BY DEF Tells, Owes, Says
<1>2. \A q \in Requests \ {r} : notices'[q] = notices[q]
  BY DEF Tells
<1>3. \A q \in Requests \ {r} : (Owes(q, k) => Owes(q, k)') /\ (Says(q, k)' => Says(q, k))
                                  /\ (Telling(q)' => GoesOn(q))
  BY <1>2 DEF Owes, Says, Telling, GoesOn
<1> QED
  BY <1>1, <1>2, <1>3 DEF Tells, Says

LEMMA InsertStatus ==
  ASSUME BaseInv, MessageInv, StatusInv, NEW r \in Requests, NEW k, NEW row, Inserts(r, k, row)
  PROVE  StatusInv'
<1>1. BaseInv' /\ RowsMove
  BY InsertBase
<1>2. /\ k \in BookingIds /\ bookings'[k] = row /\ Heard(k)' = row.status /\ past[k] = {}
      /\ \A x \in BookingIds \ {k} : bookings'[x] = bookings[x] /\ Heard(x)' = Heard(x)
      /\ \A q \in Requests \ {r} : requests'[q] = requests[q]
      /\ requests'[r] = Idle /\ muddled' = muddled /\ Tells(r, "created", row.businessId, {k})
      /\ \A q \in Requests \ {r} : notices'[q] = notices[q]
      /\ DOMAIN bookings = BookingIds /\ DOMAIN bookings' = BookingIds
  BY DEF Inserts, PutBooking, BaseInv, TypeOK, Tells, Heard, BookingRow
<1>3. TodoOfBusiness'
  <2>1. \A q \in Requests : Telling(q)' => GoesOn(q) \/ notices'[q].todo = {}
    BY <1>2 DEF Tells, GoesOn, Telling
  <2> QED
    BY <1>1, <2>1, TodoMoves DEF StatusInv
<1>4. ASSUME NEW x \in Stored(bookings)' \ muddled' PROVE Informed(x)'
  <2>1. CASE x = k
    <3>1. \A q \in Requests : ~Says(q, k) /\ ~Changes(q, k)
      BY <1>2 DEF BaseInv, RowInv, Begun, Says, Changes
    <3>2. \A q \in Requests \ {r} : ~Says(q, k)' /\ ~Changes(q, k)'
      BY <1>2, <3>1 DEF Says, Changes, Telling
    <3>3. ~Says(r, k)' /\ ~Changes(r, k)'
      BY <1>2 DEF Says, Changes, Tells, Idle
    <3> QED
      BY <1>2, <2>1, <3>2, <3>3 DEF Informed
  <2>2. CASE x # k
    <3>1. x \in BookingIds /\ x \in Stored(bookings) /\ bookings'[x] = bookings[x] /\ Heard(x)' = Heard(x)
      BY <1>2, <2>2 DEF Stored, Heard
    <3>2. Informed(x)
      BY <1>2, <1>4, <3>1 DEF StatusInv
    <3>3. /\ \A q \in Requests : Owes(q, x) => Owes(q, x)'
          /\ \A q \in Requests : Says(q, x)' => Says(q, x) /\ notices'[q].news = notices[q].news
                            /\ notices'[q].businessId = notices[q].businessId
      BY <1>2, <3>1, <2>2, TellsOthers
    <3>4. \A q \in Requests : Changes(q, x)' => requests'[q] = requests[q]
      BY <1>2 DEF Changes, Idle
    <3> QED
      BY <3>1, <3>2, <3>3, <3>4, InformedStays DEF Heard
  <2> QED
    BY <2>1, <2>2
<1> QED
  BY <1>3, <1>4 DEF StatusInv

LEMMA UpdateStatus ==
  ASSUME BaseInv, MessageInv, StatusInv, NEW r \in Requests, NEW k, NEW row, Updates(r, k, row)
  PROVE  StatusInv'
<1>1. BaseInv' /\ RowsMove
  BY UpdateBase
<1>2. /\ k \in BookingIds /\ bookings'[k] = row /\ row.businessId = bookings[k].businessId
      /\ k \in Stored(bookings) /\ bookings[k] \in BookingRow /\ row \in BookingRow
      /\ \A x \in BookingIds \ {k} : bookings'[x] = bookings[x]
      /\ UNCHANGED <<made, knows>>
      /\ \A q \in Requests \ {r} : requests'[q] = requests[q]
      /\ requests'[r] = Idle /\ Changes(r, k) /\ ~Telling(r)
      /\ DOMAIN bookings = BookingIds /\ DOMAIN bookings' = BookingIds
      /\ muddled' = IF requests[r].customerId # New \/ k \in AboutOthers(r)
                    THEN muddled \cup {k} ELSE muddled
  BY BusyTyped, RowTyped DEF Updates, PutBooking, BaseInv, TypeOK, Changes
<1>3. Tells(r, row.status, row.businessId, {k}) \/ UNCHANGED notices
  BY DEF Updates
<1>4. \A q \in Requests \ {r} : notices'[q] = notices[q]
  BY <1>3 DEF Tells
<1>5. TodoOfBusiness'
  <2>1. \A q \in Requests : Telling(q)' => GoesOn(q) \/ notices'[q].todo = {}
    BY <1>2, <1>3, <1>4 DEF Tells, GoesOn, Telling
  <2> QED
    BY <1>1, <2>1, TodoMoves DEF StatusInv
<1>6. ASSUME NEW x \in Stored(bookings)' \ muddled' PROVE Informed(x)'
  <2>1. CASE x = k
    <3>1. k \notin muddled /\ k \notin AboutOthers(r) /\ requests[r].customerId = New
      BY <1>2, <1>6, <2>1
    <3>2. \A q \in Requests \ {r} : ~Says(q, k) /\ ~Changes(q, k)
      BY <3>1, Alone
    <3>3. \A q \in Requests \ {r} : ~Says(q, k)' /\ ~Changes(q, k)'
      BY <1>2, <1>4, <3>2 DEF Says, Changes, Telling
    <3>4. ~Changes(r, k)'
      BY <1>2 DEF Changes, Idle
    <3>5. Informed(k) /\ requests[r].existing = bookings[k].status
      BY <1>2, <3>1 DEF StatusInv, Informed
    <3>6. CASE requests[r].status # Kept /\ requests[r].status # requests[r].existing
      <4>1. Tells(r, row.status, row.businessId, {k})
        BY <3>6 DEF Updates
      <4>2. row.status \in Statuses
        BY <1>2 DEF BookingRow
      <4>3. Owes(r, k)' /\ notices'[r].news = bookings'[k].status
        BY <1>2, <4>1, <4>2 DEF Owes, Says, Tells
      <4> QED
        BY <2>1, <3>3, <3>4, <4>3 DEF Informed
    <3>7. CASE ~(requests[r].status # Kept /\ requests[r].status # requests[r].existing)
      <4>1. row.status = bookings[k].status /\ UNCHANGED notices
        BY <3>5, <3>7 DEF Updates
      <4>2. ~Says(r, k) /\ ~Says(r, k)'
        BY <1>2, <4>1 DEF Says, Telling
      <4>3. \A q \in Requests : ~Owes(q, k)
        BY <3>2, <4>2 DEF Owes
      <4>4. Heard(k) = bookings[k].status
        BY <3>5, <4>3 DEF Informed
      <4> QED
        BY <1>2, <2>1, <3>3, <3>4, <4>1, <4>2, <4>4 DEF Informed, Heard
    <3> QED
      BY <3>6, <3>7
  <2>2. CASE x # k
    <3>1. x \in BookingIds /\ x \in Stored(bookings) /\ bookings'[x] = bookings[x] /\ Heard(x)' = Heard(x)
      BY <1>2, <2>2 DEF Stored, Heard
    <3>2. Informed(x)
      BY <1>2, <1>6, <3>1 DEF StatusInv
    <3>3. /\ \A q \in Requests : Owes(q, x) => Owes(q, x)'
          /\ \A q \in Requests : Says(q, x)' => Says(q, x) /\ notices'[q].news = notices[q].news
                            /\ notices'[q].businessId = notices[q].businessId
      <4>1. CASE Tells(r, row.status, row.businessId, {k})
        BY <3>1, <2>2, <4>1, TellsOthers
      <4>2. CASE UNCHANGED notices
        BY <3>1, <4>2 DEF Owes, Says, Telling
      <4> QED
        BY <1>3, <4>1, <4>2
    <3>4. \A q \in Requests : Changes(q, x)' => requests'[q] = requests[q]
      BY <1>2 DEF Changes, Idle
    <3> QED
      BY <3>1, <3>2, <3>3, <3>4, InformedStays DEF Heard
  <2> QED
    BY <2>1, <2>2
<1> QED
  BY <1>5, <1>6 DEF StatusInv

LEMMA CancelStatus ==
  ASSUME BaseInv, MessageInv, StatusInv, NEW r \in Requests, NEW k, NEW row, Cancels(r, k, row)
  PROVE  StatusInv'
<1>1. BaseInv' /\ RowsMove
  BY CancelBase
<1>2. /\ k \in BookingIds /\ bookings'[k] = row /\ row.status = Cancelled
      /\ \A x \in BookingIds \ {k} : bookings'[x] = bookings[x] /\ Heard(x)' = Heard(x)
      /\ Heard(k)' = Cancelled
      /\ \A q \in Requests \ {r} : requests'[q] = requests[q]
      /\ requests'[r] = Idle /\ Tells(r, "cancelled", row.businessId, {k})
      /\ \A q \in Requests \ {r} : notices'[q] = notices[q]
      /\ DOMAIN bookings = BookingIds /\ DOMAIN bookings' = BookingIds
      /\ muddled' = IF k \in AboutOthers(r) THEN muddled \cup {k} ELSE muddled
  BY DEF Cancels, PutBooking, BaseInv, TypeOK, Tells, Heard
<1>3. TodoOfBusiness'
  <2>1. \A q \in Requests : Telling(q)' => GoesOn(q) \/ notices'[q].todo = {}
    BY <1>2 DEF Tells, GoesOn, Telling
  <2> QED
    BY <1>1, <2>1, TodoMoves DEF StatusInv
<1>4. ASSUME NEW x \in Stored(bookings)' \ muddled' PROVE Informed(x)'
  <2>1. CASE x = k
    <3>1. k \notin AboutOthers(r)
      BY <1>2, <1>4, <2>1
    <3>2. \A q \in Requests \ {r} : ~Says(q, k) /\ ~Changes(q, k)
      BY <3>1, Alone
    <3>3. \A q \in Requests \ {r} : ~Says(q, k)' /\ ~Changes(q, k)'
      BY <1>2, <3>2 DEF Says, Changes, Telling
    <3>4. ~Says(r, k)' /\ ~Changes(r, k)'
      BY <1>2 DEF Says, Changes, Tells, Idle
    <3> QED
      BY <1>2, <2>1, <3>3, <3>4 DEF Informed
  <2>2. CASE x # k
    <3>1. x \in BookingIds /\ x \in Stored(bookings) /\ bookings'[x] = bookings[x] /\ Heard(x)' = Heard(x)
      BY <1>2, <2>2 DEF Stored, Heard
    <3>2. Informed(x)
      BY <1>2, <1>4, <3>1 DEF StatusInv
    <3>3. /\ \A q \in Requests : Owes(q, x) => Owes(q, x)'
          /\ \A q \in Requests : Says(q, x)' => Says(q, x) /\ notices'[q].news = notices[q].news
                            /\ notices'[q].businessId = notices[q].businessId
      BY <1>2, <3>1, <2>2, TellsOthers
    <3>4. \A q \in Requests : Changes(q, x)' => requests'[q] = requests[q]
      BY <1>2 DEF Changes, Idle
    <3> QED
      BY <3>1, <3>2, <3>3, <3>4, InformedStays DEF Heard
  <2> QED
    BY <2>1, <2>2
<1> QED
  BY <1>3, <1>4 DEF StatusInv

LEMMA RemoveStatus ==
  ASSUME BaseInv, MessageInv, StatusInv, NEW r \in Requests, BaseInv', RowsMove, NEW k, Removes(r, k)
  PROVE  StatusInv'
<1>1. /\ UNCHANGED <<made, knows, muddled, notices>>
      /\ \A q \in Requests : requests'[q] = requests[q] \/ requests'[q] = Idle
  BY DEF Removes, BaseInv, TypeOK
<1>2. TodoOfBusiness'
  BY <1>1, TodoMoves DEF StatusInv, GoesOn, Telling
<1>3. ASSUME NEW x \in Stored(bookings)' \ muddled' PROVE Informed(x)'
  <2>1. x \in BookingIds
    BY DEF Stored, BaseInv, TypeOK
  <2>2. x \in Stored(bookings) /\ bookings'[x] = bookings[x]
    BY <2>1 DEF Removes
  <2>3. Informed(x)
    BY <1>1, <2>2 DEF StatusInv
  <2>4. /\ \A q \in Requests : Owes(q, x) => Owes(q, x)'
        /\ \A q \in Requests : Says(q, x)' => Says(q, x)
        /\ \A q \in Requests : Changes(q, x)' => requests'[q] = requests[q]
    BY <1>1, <2>2 DEF Owes, Says, Telling, Changes, Idle
  <2> QED
    BY <1>1, <2>2, <2>3, <2>4, InformedStays DEF Heard
<1> QED
  BY <1>2, <1>3 DEF StatusInv

LEMMA BatchStatusStatus ==
  ASSUME BaseInv, MessageInv, StatusInv, NEW r \in Requests, NEW b, NEW own, NEW ids, NEW s,
         Batches(r, b, own, ids, s)
  PROVE  StatusInv'
<1>1. BaseInv' /\ RowsMove
  BY BatchBase
<1>2. /\ UNCHANGED <<requests, made, knows>> /\ muddled' = muddled \cup (own \cap AboutOthers(r))
      /\ Tells(r, s, b, ids) /\ ~Busy(r) /\ s \in Statuses /\ own \subseteq ids
      /\ \A q \in Requests \ {r} : notices'[q] = notices[q]
  BY DEF Batches, Tells
<1>3. TodoOfBusiness'
  <2>1. \A q \in Requests : Telling(q)' => GoesOn(q) \/ notices'[q].todo = {}
    BY <1>2 DEF Tells, GoesOn, Telling
  <2> QED
    BY <1>1, <2>1, TodoMoves DEF StatusInv
<1>4. ASSUME NEW x \in Stored(bookings)' \ muddled' PROVE Informed(x)'
  <2>0. x \in BookingIds /\ x \in Stored(bookings) /\ x \notin muddled
    <3>1. x \in BookingIds
      BY <1>1 DEF Stored, BaseInv, TypeOK
    <3> QED
      BY <1>2, <3>1 DEF Batches
  <2>1. CASE x \in own
    <3>1. x \notin AboutOthers(r)
      BY <1>2, <1>4, <2>1
    <3>2. \A q \in Requests \ {r} : ~Says(q, x) /\ ~Changes(q, x)
      BY <3>1, Alone
    <3>3. \A q \in Requests \ {r} : ~Says(q, x)' /\ ~Changes(q, x)'
      BY <1>2, <3>2 DEF Says, Changes, Telling
    <3>4. ~Changes(r, x)'
      BY <1>2 DEF Changes, Busy, Idle
    <3>5. bookings'[x].status = s
      BY <2>0, <2>1 DEF Batches
    <3>6. Owes(r, x)' /\ notices'[r].news = bookings'[x].status
      BY <1>2, <2>1, <3>5 DEF Owes, Says, Tells
    <3> QED
      BY <3>3, <3>4, <3>6 DEF Informed
  <2>2. CASE x \notin own
    <3>1. bookings'[x] = bookings[x] /\ Heard(x)' = Heard(x)
      BY <1>2, <2>0, <2>2 DEF Batches, Heard
    <3>2. Informed(x)
      BY <2>0 DEF StatusInv
    <3>3. x \in ids => bookings[x].businessId # b
      BY <2>0, <2>2 DEF Batches
    <3>4. /\ \A q \in Requests : Owes(q, x) => Owes(q, x)'
          /\ \A q \in Requests : Says(q, x)' =>
              \/ Says(q, x) /\ notices'[q].news = notices[q].news
                            /\ notices'[q].businessId = notices[q].businessId
              \/ q = r /\ s \in Statuses /\ x \in ids /\ notices'[q].businessId = b
      BY <1>2, <3>1, TellsOthers
    <3>5. \A q \in Requests : Says(q, x)' =>
           \/ Says(q, x) /\ notices'[q].news = notices[q].news
                         /\ notices'[q].businessId = notices[q].businessId
           \/ bookings[x].businessId # notices'[q].businessId
      BY <3>3, <3>4
    <3> QED
      BY <1>2, <3>1, <3>2, <3>4, <3>5, InformedStays DEF Heard
  <2> QED
    BY <2>1, <2>2
<1> QED
  BY <1>3, <1>4 DEF StatusInv

LEMMA PrepareStatus ==
  ASSUME BaseInv, MessageInv, StatusInv, NEW r \in Requests, NEW call, Prepares(r, call), Seeks(r, call)
  PROVE  StatusInv'
<1>1. BaseInv' /\ RowsMove
  BY PrepareBase DEF Prepares
<1>2. /\ UNCHANGED <<bookings, made, knows, muddled, notices>>
      /\ requests'[r] = call /\ \A q \in Requests \ {r} : requests'[q] = requests[q]
      /\ call.op = "update" => call.existing = bookings[call.id].status
  BY DEF Prepares, BaseInv, TypeOK
<1>3. TodoOfBusiness'
  BY <1>1, <1>2, TodoMoves DEF StatusInv, GoesOn, Telling
<1>4. ASSUME NEW x \in Stored(bookings)' \ muddled' PROVE Informed(x)'
  <2>1. Informed(x)
    BY <1>2 DEF StatusInv, Stored
  <2>2. /\ \A q \in Requests : Owes(q, x) => Owes(q, x)'
        /\ \A q \in Requests : Says(q, x)' => Says(q, x)
    BY <1>2 DEF Owes, Says, Telling
  <2>3. \A q \in Requests : Changes(q, x)' =>
          requests'[q] = requests[q] \/ requests'[q].existing = bookings[x].status
    BY <1>2 DEF Changes
  <2> QED
    BY <1>2, <2>1, <2>2, <2>3, InformedStays DEF Heard
<1> QED
  BY <1>3, <1>4 DEF StatusInv

(* Customers and cars have no part in it, but that their bookings may become *)
(* muddled.                                                                *)
LEMMA RowsStatus ==
  ASSUME BaseInv, MessageInv, StatusInv, BaseInv', RowsMove,
         UNCHANGED <<bookings, made, knows, notices>>, muddled \subseteq muddled',
         \A q \in Requests : requests'[q] = requests[q] \/ requests'[q].op # "update"
  PROVE  StatusInv'
<1>1. TodoOfBusiness'
  BY TodoMoves DEF StatusInv, GoesOn, Telling
<1>2. ASSUME NEW x \in Stored(bookings)' \ muddled' PROVE Informed(x)'
  <2>1. Informed(x)
    BY DEF StatusInv, Stored
  <2>2. /\ \A q \in Requests : Owes(q, x) => Owes(q, x)'
        /\ \A q \in Requests : Says(q, x)' => Says(q, x)
        /\ \A q \in Requests : Changes(q, x)' => requests'[q] = requests[q]
    BY DEF Owes, Says, Telling, Changes
  <2> QED
    BY <2>1, <2>2, InformedStays DEF Heard
<1> QED
  BY <1>1, <1>2 DEF StatusInv

LEMMA LookUpStatus ==
  ASSUME BaseInv, MessageInv, StatusInv, NEW r \in Requests, LookUp(r), NEW found, LooksUp(r, found)
  PROVE  StatusInv'
<1>1. BaseInv' /\ RowsMove
  BY LookUpBase
<1>2. /\ UNCHANGED <<bookings, requests, made, knows>> /\ Telling(r) /\ notices[r].step = "lookup"
      /\ \A q \in Requests \ {r} : notices'[q] = notices[q]
      /\ muddled \subseteq muddled'
  BY DEF LooksUp, At
<1>3. \A d \in found : /\ d.bookingId \in notices[r].bookingIds
                       /\ notices[r].news \in Statuses =>
                            bookings[d.bookingId].businessId = notices[r].businessId
  BY RecipientsTrue DEF LooksUp, Recipients, BusinessNews
<1>4. TodoOfBusiness'
  <2> SUFFICES ASSUME NEW q \in Requests, Telling(q)', notices'[q].news \in Statuses,
                      NEW d \in notices'[q].todo, d.bookingId \in Stored(bookings)'
               PROVE  bookings'[d.bookingId].businessId = notices'[q].businessId
    BY DEF TodoOfBusiness
  <2>1. CASE q = r
    BY <1>2, <1>3, <2>1 DEF LooksUp
  <2>2. CASE q # r
    BY <1>2, <2>2 DEF StatusInv, TodoOfBusiness, Telling, Stored
  <2> QED
    BY <2>1, <2>2
<1>5. ASSUME NEW x \in Stored(bookings)' \ muddled' PROVE Informed(x)'
  <2>1. Informed(x)
    BY <1>2 DEF StatusInv, Stored
  <2>2. ASSUME NEW q \in Requests, Owes(q, x) PROVE Owes(q, x)'
    <3>1. CASE q = r
      <4>1. notices[r].news \in Statuses /\ x \in notices[r].bookingIds
        BY <2>2, <3>1 DEF Owes, Says
      <4>2. notices[r].news \notin BusinessNews
        BY <4>1 DEF BusinessNews
      <4>3. PICK d \in found : d.bookingId = x
        BY <1>5, <4>1, <4>2 DEF LooksUp
      <4>4. Telling(r)' /\ d \in notices'[r].todo
        BY <4>3 DEF LooksUp
      <4> QED
        BY <1>2, <2>2, <3>1, <4>3, <4>4 DEF Owes, Says, LooksUp
    <3>2. CASE q # r
      BY <1>2, <2>2, <3>2 DEF Owes, Says, Telling
    <3> QED
      BY <3>1, <3>2
  <2>3. \A q \in Requests : Says(q, x)' => Says(q, x) /\ notices'[q].news = notices[q].news
                         /\ notices'[q].businessId = notices[q].businessId
    BY <1>2 DEF Says, LooksUp, Telling
  <2>4. \A q \in Requests : requests'[q] = requests[q]
    BY <1>2
  <2> QED
    BY <1>2, <2>1, <2>2, <2>3, <2>4, InformedStays DEF Heard
<1> QED
  BY <1>4, <1>5 DEF StatusInv

LEMMA TellNextStatus ==
  ASSUME BaseInv, MessageInv, StatusInv, NEW r \in Requests, TellNext(r), NEW d, TellsOne(r, d)
  PROVE  StatusInv'
<1>1. BaseInv' /\ RowsMove
  BY TellNextBase
<1>2. /\ UNCHANGED <<bookings, requests, muddled>> /\ Telling(r) /\ notices[r].step = "next"
      /\ d \in notices[r].todo /\ Telling(r)'
      /\ notices'[r].todo = notices[r].todo \ {d} /\ notices'[r].news = notices[r].news
      /\ notices'[r].bookingIds = notices[r].bookingIds
      /\ notices'[r].businessId = notices[r].businessId /\ notices'[r].step # "lookup"
      /\ \A q \in Requests \ {r} : notices'[q] = notices[q]
      /\ notices[r] \in Notice
  BY TellingTyped DEF TellsOne, At, BaseInv
<1>3. /\ d.bookingId \in notices[r].bookingIds
      /\ notices[r].news \in BusinessNews \/ notices[r].news \in Statuses
      /\ ~(notices[r].news \in BusinessNews /\ notices[r].news \in Statuses)
  BY <1>2 DEF MessageInv, NewsTrue, Notice, BusinessNews
<1>4. TodoOfBusiness'
  <2>1. \A q \in Requests : Telling(q)' => GoesOn(q)
    BY <1>2 DEF GoesOn, Telling
  <2> QED
    BY <1>1, <2>1, TodoMoves DEF StatusInv
<1>5. ASSUME NEW x \in Stored(bookings)' \ muddled' PROVE Informed(x)'
  <2>1. Informed(x) /\ x \in Stored(bookings) /\ x \in BookingIds
    BY <1>2, RowTyped DEF StatusInv, Stored, BaseInv
  <2>2. \A q \in Requests : Says(q, x)' <=> Says(q, x)
    BY <1>2 DEF Says, Telling
  <2>3. \A q \in Requests : notices'[q].news = notices[q].news /\ notices'[q].businessId = notices[q].businessId
    BY <1>2
  <2>4. Heard(x)' = IF notices[r].news \notin BusinessNews /\ d.bookingId = x
                    THEN notices[r].news ELSE Heard(x)
    BY <1>3, <1>2, <2>1 DEF TellsOne, Heard
  <2>5. CASE notices[r].news \notin BusinessNews /\ d.bookingId = x
    <3>1. Says(r, x) /\ bookings[x].businessId = notices[r].businessId
      BY <1>2, <1>3, <2>1, <2>5 DEF Says, StatusInv, TodoOfBusiness
    <3>2. Heard(x)' = bookings[x].status
      BY <2>1, <2>4, <2>5, <3>1 DEF Informed
    <3>3. \A q \in Requests : Changes(q, x)' <=> Changes(q, x)
      BY <1>2 DEF Changes
    <3> QED
      BY <1>2, <2>1, <2>2, <2>3, <3>2, <3>3 DEF Informed
  <2>6. CASE ~(notices[r].news \notin BusinessNews /\ d.bookingId = x)
    <3>1. Heard(x)' = Heard(x)
      BY <2>4, <2>6
    <3>2. ASSUME NEW q \in Requests, Owes(q, x) PROVE Owes(q, x)'
      <4>1. CASE q = r
        <5>1. notices[r].news \in Statuses /\ notices[r].news \notin BusinessNews
          BY <1>3, <3>2, <4>1 DEF Owes, Says
        <5>2. PICK e \in notices[r].todo : e.bookingId = x
          BY <1>2, <3>2, <4>1 DEF Owes
        <5>3. e \in notices'[r].todo
          BY <1>2, <2>6, <5>1, <5>2
        <5> QED
          BY <1>2, <2>2, <3>2, <4>1, <5>2, <5>3 DEF Owes
      <4>2. CASE q # r
        BY <1>2, <3>2, <4>2 DEF Owes, Says, Telling
      <4> QED
        BY <4>1, <4>2
    <3>3. \A q \in Requests : Changes(q, x)' => requests'[q] = requests[q]
      BY <1>2
    <3> QED
      BY <1>2, <2>1, <2>2, <2>3, <3>1, <3>2, <3>3, InformedStays DEF Heard
  <2> QED
    BY <2>5, <2>6
<1> QED
  BY <1>4, <1>5 DEF StatusInv

LEMMA UntellStatus ==
  ASSUME BaseInv, MessageInv, StatusInv, NEW r \in Requests, Untell(r)
  PROVE  StatusInv'
<1>1. BaseInv' /\ RowsMove /\ Untells(r)
  BY UntellBase, UntellDoes
<1>2. /\ UNCHANGED <<bookings, requests, made, knows>> /\ muddled' = muddled \cup Untold(r)
      /\ \A q \in Requests \ {r} : notices'[q] = notices[q]
      /\ notices[r] \in Notice
  BY <1>1, TellingTyped DEF Untells, BaseInv
<1>3. TodoOfBusiness'
  <2>1. \A q \in Requests : Telling(q)' => GoesOn(q)
    BY <1>1 DEF Untells, GoesOn, Telling
  <2> QED
    BY <1>1, <2>1, TodoMoves DEF StatusInv
<1>4. ASSUME NEW x \in Stored(bookings)' \ muddled' PROVE Informed(x)'
  <2>1. Informed(x) /\ x \notin Untold(r)
    BY <1>2 DEF StatusInv, Stored
  <2>2. ~Says(r, x)
    BY <2>1 DEF Says, Untold, BusinessNews
  <2>3. /\ \A q \in Requests : Owes(q, x) => Owes(q, x)'
        /\ \A q \in Requests : Says(q, x)' => Says(q, x) /\ notices'[q].news = notices[q].news
                         /\ notices'[q].businessId = notices[q].businessId
    <3>1. ~Owes(r, x) /\ ~Says(r, x)'
      BY <1>1, <2>2 DEF Owes, Says, Untells
    <3> QED
      BY <1>2, <3>1 DEF Owes, Says, Telling
  <2> QED
    BY <1>2, <2>1, <2>3, InformedStays DEF Heard
<1> QED
  BY <1>3, <1>4 DEF StatusInv

LEMMA PushStatus ==
  ASSUME BaseInv, MessageInv, StatusInv, NoticeInv', PushOnly, UNCHANGED bookingVars
  PROVE  StatusInv'
<1>1. BaseInv' /\ RowsMove
  BY PushBase
<1>2. UNCHANGED <<bookings, requests, made, knows, muddled>>
  BY DEF bookingVars
<1>3. TodoOfBusiness'
  <2>1. \A q \in Requests : Telling(q)' => GoesOn(q)
    BY DEF PushOnly, Carried, GoesOn
  <2> QED
    BY <1>1, <2>1, TodoMoves DEF StatusInv
<1>4. ASSUME NEW x \in Stored(bookings)' \ muddled' PROVE Informed(x)'
  <2>1. Informed(x)
    BY <1>2 DEF StatusInv, Stored
  <2>2. ASSUME NEW q \in Requests
        PROVE  /\ Owes(q, x) => Owes(q, x)'
               /\ Says(q, x)' => Says(q, x) /\ notices'[q].news = notices[q].news
                         /\ notices'[q].businessId = notices[q].businessId
    <3>1. Carried(q)
      BY DEF PushOnly
    <3> QED
      BY <1>2, <3>1 DEF Carried, Owes, Says
  <2> QED
    BY <1>2, <2>1, <2>2, InformedStays DEF Heard
<1> QED
  BY <1>3, <1>4 DEF StatusInv

-------------------------------------------------------------------------------
(* The customers a client is: no step makes a customer a client's but       *)
(* CreateCustomer, and a request that has found none of a client was either *)
(* the only one or is counted as overlapping.                               *)
LEMMA CustomersStay ==
  ASSUME CustomerInv, raced \subseteq raced', NEW r,
         \A i, b, c : i \in Stored(customers)' /\ IsClient(i, b, c)'
                        => i \in Stored(customers) /\ IsClient(i, b, c),
         \A q \in Requests \ {r} : \A b, c : Creating(q, b, c)' => Creating(q, b, c),
         \A b, c : r \in Requests /\ Creating(r, b, c)' =>
           \/ Creating(r, b, c)
           \/ /\ \A i \in Stored(customers) : ~IsClient(i, b, c)
              /\ c \in raced' \/ \A q \in Requests \ {r} : ~Creating(q, b, c)
  PROVE  CustomerInv'
<1>1. OneCustomerPerClient'
  <2>1. SUFFICES ASSUME NEW i \in Stored(customers)', NEW j \in Stored(customers)',
                        customers'[i].mobile, customers'[j].mobile,
                        BusinessOf(i)' = BusinessOf(j)', EmailOf(i)' = EmailOf(j)'
                 PROVE  i = j \/ EmailOf(i)' \in raced'
    BY DEF OneCustomerPerClient
  <2>2. PICK b, c : b = BusinessOf(i)' /\ c = EmailOf(i)'
    OBVIOUS
  <2>3. IsClient(i, b, c)' /\ IsClient(j, b, c)'
    BY <2>1, <2>2 DEF IsClient
  <2>4. /\ i \in Stored(customers) /\ IsClient(i, b, c)
        /\ j \in Stored(customers) /\ IsClient(j, b, c)
    BY <2>1, <2>3
  <2>5. i = j \/ c \in raced
    BY <2>4 DEF IsClient, CustomerInv, OneCustomerPerClient
  <2> QED
    BY <2>2, <2>5
<1>2. ASSUME NEW p \in Requests, NEW b \in Businesses, NEW c \in Clients \ raced', Creating(p, b, c)'
      PROVE  /\ \A i \in Stored(customers)' : ~IsClient(i, b, c)'
             /\ \A q \in Requests : Creating(q, b, c)' => q = p
  <2>1. c \in Clients \ raced
    OBVIOUS
  <2>2. ASSUME NEW q \in Requests, Creating(q, b, c)
        PROVE  /\ \A i \in Stored(customers) : ~IsClient(i, b, c)
               /\ \A x \in Requests : Creating(x, b, c) => x = q
    BY <2>1, <2>2 DEF CustomerInv
  <2>3. \A i \in Stored(customers) : ~IsClient(i, b, c)
    BY <1>2, <2>2
  <2>4. ASSUME NEW q \in Requests, Creating(q, b, c)', q # p
        PROVE  FALSE
    <3>1. CASE p # r /\ q # r
      BY <1>2, <2>2, <2>4, <3>1
    <3>2. CASE p = r \/ q = r
      <4>1. Creating(r, b, c) \/ \A x \in Requests \ {r} : ~Creating(x, b, c)
        BY <1>2, <2>4, <3>2
      <4>2. PICK x \in Requests \ {r} : Creating(x, b, c)'
        BY <1>2, <2>4, <3>2
      <4>3. Creating(x, b, c)
        BY <4>2
      <4> QED
        BY <2>2, <3>2, <4>1, <4>3
    <3> QED
      BY <3>1, <3>2
  <2> QED
    BY <2>3, <2>4
<1> QED
  BY <1>1, <1>2 DEF CustomerInv

(* A step that leaves the customers alone and starts no search for one *)
LEMMA CustomersSame ==
  ASSUME CustomerInv, UNCHANGED <<customers, raced>>,
         \A q \in Requests : requests'[q] = requests[q] \/ requests'[q].op # "findCar"
  PROVE  CustomerInv'
<1>1. \A i, b, c : i \in Stored(customers)' /\ IsClient(i, b, c)'
                     => i \in Stored(customers) /\ IsClient(i, b, c)
  BY DEF Stored, IsClient, BusinessOf, EmailOf
<1>2. \A q \in Requests : \A b, c : Creating(q, b, c)' => Creating(q, b, c)
  BY DEF Creating
<1> QED
  BY <1>1, <1>2, CustomersStay

LEMMA EndCustomers ==
  ASSUME BaseInv, CustomerInv, NEW r \in Requests, UNCHANGED <<customers, raced>>,
         requests' = [requests EXCEPT ![r] = Idle]
  PROVE  CustomerInv'
BY Ends, CustomersSame DEF Idle

LEMMA PrepareCustomers ==
  ASSUME BaseInv, CustomerInv, NEW r \in Requests, NEW call, Prepares(r, call), Seeks(r, call)
  PROVE  CustomerInv'
<1>1. /\ requests'[r] = call /\ \A q \in Requests \ {r} : requests'[q] = requests[q]
      /\ UNCHANGED customers
  BY DEF Prepares, BaseInv, TypeOK
<1>2. \A i, b, c : i \in Stored(customers)' /\ IsClient(i, b, c)'
                     => i \in Stored(customers) /\ IsClient(i, b, c)
  BY <1>1 DEF Stored, IsClient, BusinessOf, EmailOf
<1>3. \A q \in Requests \ {r} : \A b, c : Creating(q, b, c)' => Creating(q, b, c)
  BY <1>1 DEF Creating
<1>4. ASSUME NEW b, NEW c, Creating(r, b, c)'
      PROVE  /\ \A i \in Stored(customers) : ~IsClient(i, b, c)
             /\ c \in raced' \/ \A q \in Requests \ {r} : ~Creating(q, b, c)
  BY <1>1, <1>4 DEF Creating, Seeks
<1> QED
  BY <1>2, <1>3, <1>4, CustomersStay DEF Seeks

LEMMA EditCustomers ==
  ASSUME BaseInv, CustomerInv, NEW i, NEW row, Edits(i, row)
  PROVE  CustomerInv'
<1>1. /\ customers \in [CustomerIds -> CustomerRow \cup {NoRow}]
      /\ DOMAIN customers' = CustomerIds /\ customers'[i] = row /\ ~row.mobile
      /\ \A j \in CustomerIds \ {i} : customers'[j] = customers[j]
      /\ UNCHANGED <<requests, raced>>
  BY DEF BaseInv, TypeOK, Edits
<1>2. ASSUME NEW j, NEW b, NEW c, j \in Stored(customers)', IsClient(j, b, c)'
      PROVE  j \in Stored(customers) /\ IsClient(j, b, c)
  <2>1. j \in CustomerIds /\ j # i
    BY <1>1, <1>2 DEF Stored, IsClient
  <2> QED
    BY <1>1, <1>2, <2>1 DEF Stored, IsClient, BusinessOf, EmailOf
<1>3. \A q, b, c : Creating(q, b, c)' => Creating(q, b, c)
  BY <1>1 DEF Creating
<1> QED
  BY <1>1, <1>2, <1>3, CustomersStay

(* CreateCustomer: the client was no customer, unless requests overlapped. *)
LEMMA CreateCustomerCustomers ==
  ASSUME BaseInv, CustomerInv, NEW r \in Requests, NEW i, NEW row, Joins(r, i, row)
  PROVE  CustomerInv'
<1>1. PICK b, c : b = requests[r].businessId /\ c = requests[r].client
  OBVIOUS
<1>2. /\ Creating(r, b, c) /\ b \in Businesses /\ c \in Clients
      /\ row.businessId = b /\ row.email = c /\ i \in CustomerIds /\ customers[i] = NoRow
  BY <1>1, BusyTyped, CallTyped DEF Joins, Creating
<1>3. /\ customers \in [CustomerIds -> CustomerRow \cup {NoRow}]
      /\ DOMAIN customers' = CustomerIds /\ customers'[i] = row
      /\ \A j \in CustomerIds \ {i} : customers'[j] = customers[j]
      /\ UNCHANGED raced
  BY DEF BaseInv, TypeOK, Joins
<1>4. ASSUME NEW j, NEW x, NEW y, j \in Stored(customers)', IsClient(j, x, y)'
      PROVE  (j = i /\ x = b /\ y = c) \/ (j # i /\ j \in Stored(customers) /\ IsClient(j, x, y))
  <2>1. j \in CustomerIds
    BY <1>3, <1>4 DEF Stored
  <2> QED
    BY <1>2, <1>3, <1>4, <2>1 DEF Stored, IsClient, BusinessOf, EmailOf
<1>5. ASSUME NEW q, NEW x, NEW y, q \in Requests, Creating(q, x, y)'
      PROVE  q # r /\ Creating(q, x, y)
  <2>1. /\ \A p \in Requests \ {r} : requests'[p] = requests[p]
        /\ requests'[r].customerId = i /\ i # New
    BY <1>2 DEF BaseInv, TypeOK, Joins
  <2> QED
    BY <1>5, <2>1 DEF Creating
<1>6. c \notin raced =>
        /\ \A j \in Stored(customers) : ~IsClient(j, b, c)
        /\ \A q \in Requests : Creating(q, b, c) => q = r
  BY <1>2 DEF CustomerInv
<1>7. OneCustomerPerClient'
  <2>1. SUFFICES ASSUME NEW j \in Stored(customers)', NEW k \in Stored(customers)',
                        customers'[j].mobile, customers'[k].mobile,
                        BusinessOf(j)' = BusinessOf(k)', EmailOf(j)' = EmailOf(k)'
                 PROVE  j = k \/ EmailOf(j)' \in raced'
    BY DEF OneCustomerPerClient
  <2>2. PICK x, y : x = BusinessOf(j)' /\ y = EmailOf(j)'
    OBVIOUS
  <2>3. IsClient(j, x, y)' /\ IsClient(k, x, y)'
    BY <2>1, <2>2 DEF IsClient
  <2>4. /\ (j = i /\ x = b /\ y = c) \/ (j # i /\ j \in Stored(customers) /\ IsClient(j, x, y))
        /\ (k = i /\ x = b /\ y = c) \/ (k # i /\ k \in Stored(customers) /\ IsClient(k, x, y))
    BY <1>4, <2>1, <2>3
  <2>5. j # i /\ k # i => j = k \/ y \in raced
    BY <2>4 DEF IsClient, CustomerInv, OneCustomerPerClient
  <2> QED
    BY <1>3, <1>6, <2>2, <2>4, <2>5
<1>8. ASSUME NEW p \in Requests, NEW x \in Businesses, NEW y \in Clients \ raced', Creating(p, x, y)'
      PROVE  /\ \A j \in Stored(customers)' : ~IsClient(j, x, y)'
             /\ \A q \in Requests : Creating(q, x, y)' => q = p
  <2>1. p # r /\ Creating(p, x, y) /\ y \in Clients \ raced
    BY <1>3, <1>5, <1>8
  <2>2. /\ \A j \in Stored(customers) : ~IsClient(j, x, y)
        /\ \A q \in Requests : Creating(q, x, y) => q = p
    BY <2>1 DEF CustomerInv
  <2>3. ~(x = b /\ y = c)
    BY <1>2, <2>1, <2>2
  <2> QED
    BY <1>4, <1>5, <2>2, <2>3
<1> QED
  BY <1>7, <1>8 DEF CustomerInv

-------------------------------------------------------------------------------
(* There is one booking to start with, and nobody is doing anything. *)
LEMMA BookingsStart == Init => BookingsInv
<1> SUFFICES ASSUME Init PROVE BookingsInv
  OBVIOUS
<1>1. PICK b, c, i, a, k :
        /\ b = First(Businesses) /\ c = First(Clients)
        /\ i = First(CustomerIds) /\ a = First(CarIds) /\ k = First(BookingIds)
  OBVIOUS
<1>2. b \in Businesses /\ c \in Clients /\ i \in CustomerIds /\ a \in CarIds /\ k \in BookingIds
  BY <1>1 DEF First
<1>3. /\ customers = [x \in CustomerIds |-> IF x = i
           THEN [businessId |-> b, email |-> c, mobile |-> TRUE] ELSE NoRow]
      /\ cars = [x \in CarIds |-> IF x = a
           THEN [customerId |-> i, vehicle |-> NoVehicle, mobile |-> FALSE] ELSE NoRow]
      /\ bookings = [x \in BookingIds |-> IF x = k
           THEN [businessId |-> b, customerId |-> i, carId |-> a, status |-> Pending]
           ELSE NoRow]
      /\ past = [x \in BookingIds |-> IF x = k THEN {Pending, b, c} ELSE {}]
      /\ requests = [r \in Requests |-> Idle]
      /\ made = [x \in BookingIds |-> Pending] /\ knows = made
      /\ muddled = {} /\ raced = {} /\ twinned = {}
      /\ NotificationsInit
  BY <1>1 DEF Init
<1>4. Pending \in Statuses
  OBVIOUS
<1>5. PICK cRow \in CustomerRow : cRow = [businessId |-> b, email |-> c, mobile |-> TRUE]
  BY <1>2 DEF CustomerRow
<1>6. PICK aRow \in CarRow : aRow = [customerId |-> i, vehicle |-> NoVehicle, mobile |-> FALSE]
  BY <1>2 DEF CarRow
<1>7. PICK kRow \in BookingRow :
        kRow = [businessId |-> b, customerId |-> i, carId |-> a, status |-> Pending]
  BY <1>2, <1>4 DEF BookingRow
<1>8. /\ \A x : x \in Stored(customers) <=> x = i
      /\ \A x : x \in Stored(cars) <=> x = a
      /\ \A x : x \in Stored(bookings) <=> x = k
      /\ customers[i] = cRow /\ cars[a] = aRow /\ bookings[k] = kRow
  BY <1>2, <1>3, <1>5, <1>6, <1>7, RowsReal DEF Stored
<1>9. /\ cRow.businessId = b /\ cRow.email = c /\ aRow.customerId = i
      /\ kRow.businessId = b /\ kRow.customerId = i /\ kRow.carId = a /\ kRow.status = Pending
  BY <1>5, <1>6, <1>7
<1>10. /\ inbox = {} /\ notices = [r \in Requests |-> NoNotice]
       /\ \A r \in Requests : ~Telling(r) /\ requests[r] = Idle /\ requests[r].op = "idle"
  BY <1>3 DEF NotificationsInit, Telling, Idle
<1>11. NoticeInv
  BY <1>3, NoticesStart
<1>12. TypeOK
  <2>1. /\ bookings \in [BookingIds -> BookingRow \cup {NoRow}]
        /\ customers \in [CustomerIds -> CustomerRow \cup {NoRow}]
        /\ cars \in [CarIds -> CarRow \cup {NoRow}]
    BY <1>3, <1>5, <1>6, <1>7
  <2>2. requests \in [Requests -> RequestRecord] /\ made \in [BookingIds -> Statuses]
        /\ knows \in [BookingIds -> Statuses \cup {Unheard}]
    BY <1>3, <1>4 DEF RequestRecord
  <2> QED
    BY <1>3, <1>11, <2>1, <2>2 DEF TypeOK, NoticeInv
<1>13. Of(i, b) /\ CarOf(a, b)
  BY <1>8, <1>9 DEF Of, CarOf, BusinessOf
<1>14. RowInv
  <2>1. Linked
    BY <1>8, <1>9, <1>10, <1>13 DEF Linked, CallLinked
  <2>2. PastOK
    BY <1>2, <1>3, <1>4 DEF PastOK
  <2> QED
    BY <1>10, <2>1, <2>2 DEF RowInv, Begun
<1>15. MessageInv
  BY <1>2, <1>3, <1>8, <1>9, <1>10 DEF MessageInv, PastHolds, MessagesTrue, EmailOf
<1>16. StatusInv
  BY <1>2, <1>3, <1>8, <1>9, <1>10 DEF StatusInv, TodoOfBusiness, Informed, Says, Changes, Heard
<1>17. CustomerInv
  BY <1>8, <1>10 DEF CustomerInv, OneCustomerPerClient, Creating
<1> QED
  BY <1>10, <1>11, <1>12, <1>14, <1>15, <1>16, <1>17 DEF BookingsInv, Apart

(* One lemma for each kind of step *)
LEMMA Prepared ==
  ASSUME BookingsInv, NEW r \in Requests, \E call : Prepares(r, call) /\ Seeks(r, call)
  PROVE  BookingsInv'
<1>1. PICK call : Prepares(r, call) /\ Seeks(r, call)
  OBVIOUS
<1>2. BaseInv
  BY DEF BookingsInv, BaseInv
<1>3. BaseInv' /\ MessageInv' /\ StatusInv' /\ CustomerInv'
  BY <1>1, <1>2, PrepareBase, PrepareMessages, PrepareStatus, PrepareCustomers DEF BookingsInv
<1> QED
  BY <1>3 DEF BookingsInv, BaseInv

LEMMA BeginningSteps ==
  ASSUME BookingsInv, NEW r \in Requests,
         \/ \E b \in Businesses : Create(r, b) \/ FindForUpdate(r, b) \/ FindForRemove(r, b)
         \/ \E c \in Clients : FindCustomer(r, c) \/ FindForCancel(r, c)
         \/ FindCar(r) \/ CreateCar(r) \/ Abandon(r)
  PROVE  BookingsInv'
<1>1. BaseInv /\ PastHolds
  BY DEF BookingsInv, BaseInv, MessageInv
<1>2. ASSUME NEW b \in Businesses, Create(r, b) PROVE BookingsInv'
  BY <1>1, <1>2, CreatePrepares, Prepared
<1>3. ASSUME NEW b \in Businesses, FindForUpdate(r, b) PROVE BookingsInv'
  BY <1>1, <1>3, FindForUpdatePrepares, Prepared
<1>4. ASSUME NEW b \in Businesses, FindForRemove(r, b) PROVE BookingsInv'
  <2>1. PICK k \in Stored(bookings) : Start(r, [op |-> "remove", id |-> k])
    BY <1>4 DEF FindForRemove
  <2>2. UNCHANGED <<bookings, customers, cars, past, made, knows, muddled, raced, twinned,
                    notices, deviceVars>>
    BY <1>4 DEF FindForRemove
  <2> QED
    BY <1>1, <2>1, <2>2, FindBookingPrepares, Prepared
<1>5. ASSUME NEW c \in Clients, FindCustomer(r, c) PROVE BookingsInv'
  BY <1>1, <1>5, FindCustomerPrepares, Prepared
<1>6. ASSUME NEW c \in Clients, FindForCancel(r, c) PROVE BookingsInv'
  <2>1. PICK k \in Stored(bookings) : Start(r, [op |-> "cancel", id |-> k])
    BY <1>6 DEF FindForCancel
  <2>2. UNCHANGED <<bookings, customers, cars, past, made, knows, muddled, raced, twinned,
                    notices, deviceVars>>
    BY <1>6 DEF FindForCancel
  <2> QED
    BY <1>1, <2>1, <2>2, FindBookingPrepares, Prepared
<1>7. ASSUME FindCar(r) PROVE BookingsInv'
  BY <1>1, <1>7, FindCarPrepares, Prepared
<1>8. ASSUME CreateCar(r) PROVE BookingsInv'
  BY <1>1, <1>8, CreateCarPrepares, Prepared
<1>9. ASSUME Abandon(r) PROVE BookingsInv'
  BY <1>1, <1>9, AbandonPrepares, Prepared
<1> QED
  BY <1>2, <1>3, <1>4, <1>5, <1>6, <1>7, <1>8, <1>9

LEMMA WritingSteps ==
  ASSUME BookingsInv, NEW r \in Requests,
         \/ InsertBooking(r) \/ ApplyUpdate(r) \/ ApplyRemove(r) \/ ApplyCancel(r)
         \/ CreateCustomer(r) \/ \E b \in Businesses : BatchStatus(r, b)
  PROVE  BookingsInv'
<1>1. BaseInv /\ MessageInv /\ StatusInv /\ CustomerInv
  BY DEF BookingsInv, BaseInv
<1>2. SUFFICES BaseInv' /\ MessageInv' /\ StatusInv' /\ CustomerInv'
  BY DEF BookingsInv, BaseInv
<1>3. CASE InsertBooking(r)
  <2>1. PICK k, row : Inserts(r, k, row)
    BY <1>1, <1>3, InsertDoes
  <2>2. CustomerInv'
    BY <1>1, <2>1, EndCustomers DEF Inserts
  <2> QED
    BY <1>1, <2>1, <2>2, InsertBase, InsertMessages, InsertStatus
<1>4. CASE ApplyUpdate(r)
  <2>1. PICK k, row : Updates(r, k, row)
    BY <1>1, <1>4, UpdateDoes
  <2>2. CustomerInv'
    BY <1>1, <2>1, EndCustomers DEF Updates
  <2> QED
    BY <1>1, <2>1, <2>2, UpdateBase, UpdateMessages, UpdateStatus
<1>5. CASE ApplyRemove(r)
  <2>1. BaseInv' /\ RowsMove
    BY <1>1, <1>5, RemoveMoves
  <2>2. PICK k : Removes(r, k)
    BY <1>1, <1>5, RemoveMoves
  <2>3. CustomerInv'
    BY <1>1, <2>2, EndCustomers DEF Removes
  <2> QED
    BY <1>1, <2>1, <2>2, <2>3, RemoveMessages, RemoveStatus
<1>6. CASE ApplyCancel(r)
  <2>1. PICK k, row : Cancels(r, k, row)
    BY <1>1, <1>6, CancelDoes
  <2>2. CustomerInv'
    BY <1>1, <2>1, EndCustomers DEF Cancels
  <2> QED
    BY <1>1, <2>1, <2>2, CancelBase, CancelMessages, CancelStatus
<1>7. CASE CreateCustomer(r)
  <2>1. PICK i, row : Joins(r, i, row)
    BY <1>1, <1>7, CreateCustomerDoes
  <2>2. BaseInv' /\ RowsMove
    BY <1>1, <2>1, CreateCustomerBase
  <2>3. \A q \in Requests : requests'[q] = requests[q] \/ requests'[q].op # "update"
    BY <1>1, <2>1 DEF Joins, BaseInv, TypeOK
  <2>4. StatusInv'
    BY <1>1, <2>1, <2>2, <2>3, RowsStatus DEF Joins
  <2> QED
    BY <1>1, <2>1, <2>2, <2>4, CreateCustomerMessages, CreateCustomerCustomers
<1>8. ASSUME NEW b \in Businesses, BatchStatus(r, b)
      PROVE  BaseInv' /\ MessageInv' /\ StatusInv' /\ CustomerInv'
  <2>1. PICK own, ids, s : Batches(r, b, own, ids, s)
    BY <1>1, <1>8, BatchDoes
  <2>2. CustomerInv'
    BY <1>1, <2>1, CustomersSame DEF Batches
  <2> QED
    BY <1>1, <2>1, <2>2, BatchBase, BatchMessages, BatchStatusStatus
<1> QED
  BY <1>3, <1>4, <1>5, <1>6, <1>7, <1>8

LEMMA NoticeSteps ==
  ASSUME BookingsInv,
         \/ \E r \in Requests : \/ LookUp(r) \/ TellNext(r) \/ Untell(r)
                                \/ (PushStep(r) \/ PushThrows(r)) /\ UNCHANGED bookingVars
         \/ NextTap /\ UNCHANGED bookingVars
  PROVE  BookingsInv'
<1>1. BaseInv /\ MessageInv /\ StatusInv /\ CustomerInv /\ NoticeInv
  BY DEF BookingsInv, BaseInv
<1>2. SUFFICES BaseInv' /\ MessageInv' /\ StatusInv' /\ CustomerInv'
  BY DEF BookingsInv, BaseInv
<1>3. ASSUME NEW r \in Requests, LookUp(r)
      PROVE  BaseInv' /\ MessageInv' /\ StatusInv' /\ CustomerInv'
  <2>1. PICK found : LooksUp(r, found)
    BY <1>1, <1>3, LookUpDoes
  <2>2. CustomerInv'
    BY <1>1, <2>1, CustomersSame DEF LooksUp
  <2> QED
    BY <1>1, <1>3, <2>1, <2>2, LookUpBase, LookUpMessages, LookUpStatus
<1>4. ASSUME NEW r \in Requests, TellNext(r)
      PROVE  BaseInv' /\ MessageInv' /\ StatusInv' /\ CustomerInv'
  <2>1. PICK d : TellsOne(r, d)
    BY <1>1, <1>4, TellNextDoes
  <2>2. CustomerInv'
    BY <1>1, <2>1, CustomersSame DEF TellsOne
  <2> QED
    BY <1>1, <1>4, <2>1, <2>2, TellNextBase, TellNextMessages, TellNextStatus
<1>5. ASSUME NEW r \in Requests, Untell(r)
      PROVE  BaseInv' /\ MessageInv' /\ StatusInv' /\ CustomerInv'
  <2>1. CustomerInv'
    BY <1>1, <1>5, CustomersSame DEF Untell
  <2> QED
    BY <1>1, <1>5, <2>1, UntellBase, UntellMessages, UntellStatus
<1>6. ASSUME NoticeInv', PushOnly, UNCHANGED bookingVars
      PROVE  BaseInv' /\ MessageInv' /\ StatusInv' /\ CustomerInv'
  <2>1. CustomerInv'
    BY <1>1, <1>6, CustomersSame DEF bookingVars
  <2> QED
    BY <1>1, <1>6, <2>1, PushBase, PushMessages, PushStatus
<1>7. ASSUME NEW r \in Requests, PushStep(r) \/ PushThrows(r)
      PROVE  NoticeInv' /\ PushOnly
  BY <1>1, <1>7, PushMoves
<1>8. NextTap => NoticeInv' /\ PushOnly
  BY <1>1, TapMoves
<1> QED
  BY <1>3, <1>4, <1>5, <1>6, <1>7, <1>8

LEMMA ShopSteps ==
  ASSUME BookingsInv, NEW b \in Businesses,
         \/ \E i \in CustomerIds : CreateOrUpdateCustomer(b, i)
         \/ \E a \in CarIds : CreateOrUpdateCar(b, a)
  PROVE  BookingsInv'
<1>1. BaseInv /\ MessageInv /\ StatusInv /\ CustomerInv
  BY DEF BookingsInv, BaseInv
<1>2. SUFFICES BaseInv' /\ MessageInv' /\ StatusInv' /\ CustomerInv'
  BY DEF BookingsInv, BaseInv
<1>3. ASSUME NEW i \in CustomerIds, CreateOrUpdateCustomer(b, i)
      PROVE  BaseInv' /\ MessageInv' /\ StatusInv' /\ CustomerInv'
  <2>1. PICK row : Edits(i, row)
    BY <1>1, <1>3, EditDoes
  <2>2. BaseInv' /\ RowsMove
    BY <1>1, <2>1, EditBase
  <2>3. StatusInv'
    BY <1>1, <2>1, <2>2, RowsStatus DEF Edits
  <2> QED
    BY <1>1, <2>1, <2>2, <2>3, EditMessages, EditCustomers
<1>4. ASSUME NEW a \in CarIds, CreateOrUpdateCar(b, a)
      PROVE  BaseInv' /\ MessageInv' /\ StatusInv' /\ CustomerInv'
  <2>1. /\ BaseInv' /\ RowsMove
        /\ UNCHANGED <<bookings, customers, requests, past, made, knows, muddled, raced,
                       twinned, notices, deviceVars>>
    BY <1>1, <1>4, EditCarBase
  <2>2. StatusInv'
    BY <1>1, <2>1, RowsStatus
  <2>3. CustomerInv'
    BY <1>1, <2>1, CustomersSame
  <2> QED
    BY <1>1, <1>4, <2>1, <2>2, <2>3, EditCarMessages
<1> QED
  BY <1>3, <1>4

LEMMA BookingsStep == BookingsInv /\ [Next]_vars => BookingsInv'
<1> SUFFICES ASSUME BookingsInv, [Next]_vars PROVE BookingsInv'
  OBVIOUS
<1>1. CASE UNCHANGED vars
  <2>1. UNCHANGED bookingVars /\ UNCHANGED notificationVars
    BY <1>1 DEF vars
  <2>2. NoticeInv'
    BY <2>1, NoticesStay, CallsTyped DEF BookingsInv, notificationVars
  <2>3. PushOnly
    BY <2>1 DEF PushOnly, Carried, notificationVars, Telling
  <2>4. BaseInv /\ MessageInv /\ StatusInv /\ CustomerInv
    BY DEF BookingsInv, BaseInv
  <2>5. CustomerInv'
    BY <2>1, <2>4, CustomersSame DEF bookingVars
  <2> QED
    BY <2>1, <2>2, <2>3, <2>4, <2>5, PushBase, PushMessages, PushStatus DEF BookingsInv, BaseInv
<1>2. ASSUME NEW r \in Requests,
             \/ \E b \in Businesses :
                  \/ Create(r, b) \/ FindForUpdate(r, b) \/ FindForRemove(r, b)
                  \/ BatchStatus(r, b)
             \/ \E c \in Clients : FindCustomer(r, c) \/ FindForCancel(r, c)
             \/ RequestStep(r) \/ Untell(r) \/ Abandon(r)
             \/ PushThrows(r) /\ UNCHANGED bookingVars
      PROVE  BookingsInv'
  BY <1>2, BeginningSteps, WritingSteps, NoticeSteps DEF RequestStep
<1>3. ASSUME NEW b \in Businesses,
             \/ \E i \in CustomerIds : CreateOrUpdateCustomer(b, i)
             \/ \E a \in CarIds : CreateOrUpdateCar(b, a)
      PROVE  BookingsInv'
  BY <1>3, ShopSteps
<1>4. CASE NextTap /\ UNCHANGED bookingVars
  BY <1>4, NoticeSteps
<1> QED
  BY <1>1, <1>2, <1>3, <1>4 DEF Next

-------------------------------------------------------------------------------
(* The cars a vehicle is: who is about to create one found none, and two   *)
(* who are about to do so have overlapped.  This part rests on the others. *)
Parking(r, i, v) ==
  requests[r].op = "createCar" /\ requests[r].customerId = i /\ requests[r].vehicle = v

IsCar(a, i, v) == cars[a].mobile /\ cars[a].customerId = i /\ cars[a].vehicle = v

CarInv ==
  /\ OneCarPerVehicle
  /\ \A r \in Requests, i \in CustomerIds, v \in Identified :
       Parking(r, i, v) /\ <<i, v>> \notin twinned =>
         /\ \A a \in Stored(cars) : ~IsCar(a, i, v)
         /\ \A q \in Requests : Parking(q, i, v) => q = r

(* No step makes a row a client's car but CreateCar, and a request that has *)
(* found no car was either the only one or is counted as overlapping.      *)
LEMMA CarsStay ==
  ASSUME CarInv, twinned \subseteq twinned', NEW r,
         \A a, i, v : a \in Stored(cars)' /\ IsCar(a, i, v)' => a \in Stored(cars) /\ IsCar(a, i, v),
         \A q \in Requests \ {r} : \A i, v : Parking(q, i, v)' => Parking(q, i, v),
         \A i, v : v \in Identified /\ r \in Requests /\ Parking(r, i, v)' =>
           \/ Parking(r, i, v)
           \/ /\ \A a \in Stored(cars) : ~IsCar(a, i, v)
              /\ <<i, v>> \in twinned' \/ \A q \in Requests \ {r} : ~Parking(q, i, v)
  PROVE  CarInv'
<1>1. OneCarPerVehicle'
  <2>1. SUFFICES ASSUME NEW a \in Stored(cars)', NEW e \in Stored(cars)',
                        cars'[a].mobile, cars'[e].mobile,
                        cars'[a].customerId = cars'[e].customerId,
                        cars'[a].vehicle = cars'[e].vehicle, cars'[a].vehicle \in Identified
                 PROVE  a = e \/ <<cars'[a].customerId, cars'[a].vehicle>> \in twinned'
    BY DEF OneCarPerVehicle
  <2>2. PICK i, v : i = cars'[a].customerId /\ v = cars'[a].vehicle
    OBVIOUS
  <2>3. IsCar(a, i, v)' /\ IsCar(e, i, v)'
    BY <2>1, <2>2 DEF IsCar
  <2>4. a \in Stored(cars) /\ IsCar(a, i, v) /\ e \in Stored(cars) /\ IsCar(e, i, v)
    BY <2>1, <2>3
  <2>5. a = e \/ <<i, v>> \in twinned
    BY <2>1, <2>2, <2>4 DEF IsCar, CarInv, OneCarPerVehicle
  <2> QED
    BY <2>2, <2>5
<1>2. ASSUME NEW p \in Requests, NEW i \in CustomerIds, NEW v \in Identified,
             Parking(p, i, v)', <<i, v>> \notin twinned'
      PROVE  /\ \A a \in Stored(cars)' : ~IsCar(a, i, v)'
             /\ \A q \in Requests : Parking(q, i, v)' => q = p
  <2>1. <<i, v>> \notin twinned
    BY <1>2
  <2>2. ASSUME NEW q \in Requests, Parking(q, i, v)
        PROVE  /\ \A a \in Stored(cars) : ~IsCar(a, i, v)
               /\ \A x \in Requests : Parking(x, i, v) => x = q
    BY <2>1, <2>2 DEF CarInv
  <2>3. \A a \in Stored(cars) : ~IsCar(a, i, v)
    BY <1>2, <2>2
  <2>4. ASSUME NEW q \in Requests, Parking(q, i, v)', q # p
        PROVE  FALSE
    <3>1. CASE p # r /\ q # r
      BY <1>2, <2>2, <2>4, <3>1
    <3>2. CASE p = r \/ q = r
      <4>1. Parking(r, i, v) \/ \A x \in Requests \ {r} : ~Parking(x, i, v)
        BY <1>2, <2>4, <3>2
      <4>2. PICK x \in Requests \ {r} : Parking(x, i, v)'
        BY <1>2, <2>4, <3>2
      <4>3. Parking(x, i, v)
        BY <4>2
      <4> QED
        BY <2>2, <3>2, <4>1, <4>3
    <3> QED
      BY <3>1, <3>2
  <2> QED
    BY <2>3, <2>4
<1> QED
  BY <1>1, <1>2 DEF CarInv

(* A step that leaves the cars alone and looks for none *)
LEMMA CarsSame ==
  ASSUME CarInv, UNCHANGED <<cars, twinned>>,
         \A q \in Requests : requests'[q] = requests[q] \/ requests'[q].op # "createCar"
  PROVE  CarInv'
<1>1. \A a, i, v : a \in Stored(cars)' /\ IsCar(a, i, v)' => a \in Stored(cars) /\ IsCar(a, i, v)
  BY DEF Stored, IsCar
<1>2. \A q \in Requests : \A i, v : Parking(q, i, v)' => Parking(q, i, v)
  BY DEF Parking
<1> QED
  BY <1>1, <1>2, CarsStay

(* The request in slot r is at another await than the creation of a car. *)
Elsewhere(r) ==
  /\ requests'[r].op # "createCar"
  /\ \A q \in Requests \ {r} : requests'[q] = requests[q]

LEMMA CarsElsewhere ==
  ASSUME CarInv, NEW r, Elsewhere(r), UNCHANGED <<cars, twinned>>
  PROVE  CarInv'
BY CarsSame DEF Elsewhere

LEMMA CallElsewhere ==
  ASSUME BaseInv, NEW r \in Requests, NEW call, requests' = [requests EXCEPT ![r] = call],
         call.op # "createCar"
  PROVE  Elsewhere(r)
BY DEF BaseInv, TypeOK, Elsewhere

(* The business enters or edits a car: the row is not a client's any more. *)
LEMMA CarsEntered ==
  ASSUME BaseInv, CarInv, NEW a \in CarIds, NEW row, ~row.mobile,
         cars' = [cars EXCEPT ![a] = row], UNCHANGED twinned,
         \A q \in Requests : requests'[q] = requests[q] \/ requests'[q].op # "createCar"
  PROVE  CarInv'
<1>1. /\ cars \in [CarIds -> CarRow \cup {NoRow}] /\ DOMAIN cars' = CarIds /\ cars'[a] = row
      /\ \A x \in CarIds \ {a} : cars'[x] = cars[x]
  BY DEF BaseInv, TypeOK
<1>2. ASSUME NEW x, NEW i, NEW v, x \in Stored(cars)', IsCar(x, i, v)'
      PROVE  x \in Stored(cars) /\ IsCar(x, i, v)
  <2>1. x \in CarIds /\ x # a
    BY <1>1, <1>2 DEF Stored, IsCar
  <2> QED
    BY <1>1, <1>2, <2>1 DEF Stored, IsCar
<1>3. \A q \in Requests : \A i, v : Parking(q, i, v)' => Parking(q, i, v)
  BY DEF Parking
<1> QED
  BY <1>2, <1>3, CarsStay

(* FindCar: a car is found, or there is none. *)
LEMMA FindCarCars ==
  ASSUME BaseInv, CarInv, NEW r \in Requests, FindCar(r)
  PROVE  CarInv'
<1>1. requests[r].op = "findCar" /\ UNCHANGED cars
  BY DEF FindCar
<1>2. PICK i, v : i = requests[r].customerId /\ v = requests[r].vehicle
  OBVIOUS
<1>3. CASE \E a \in SameCars(requests[r]) :
             requests' = [requests EXCEPT ![r] = ToBook(requests[r], a)] /\ UNCHANGED twinned
  <2>1. PICK a : requests' = [requests EXCEPT ![r] = ToBook(requests[r], a)] /\ UNCHANGED twinned
    BY <1>3
  <2>2. PICK call : call = ToBook(requests[r], a)
    OBVIOUS
  <2>3. call.op # "createCar"
    BY <2>2 DEF ToBook
  <2>4. Elsewhere(r)
    BY <2>1, <2>2, <2>3, CallElsewhere
  <2> QED
    BY <1>1, <2>1, <2>4, CarsElsewhere
<1>4. CASE /\ SameCars(requests[r]) = {}
           /\ requests' = [requests EXCEPT ![r] =
                [op |-> "createCar", businessId |-> requests[r].businessId,
                 customerId |-> i, vehicle |-> v]]
           /\ twinned' = IF \E q \in Requests \ {r} : CreatingCar(q, requests[r])
                         THEN twinned \cup {<<i, v>>} ELSE twinned
  <2>1. \A q \in Requests \ {r} : requests'[q] = requests[q]
    BY <1>4 DEF BaseInv, TypeOK
  <2>2. requests'[r].customerId = i /\ requests'[r].vehicle = v
    BY <1>4 DEF BaseInv, TypeOK
  <2>3. ASSUME v \in Identified
        PROVE  /\ \A a \in Stored(cars) : ~IsCar(a, i, v)
               /\ <<i, v>> \in twinned' \/ \A q \in Requests \ {r} : ~Parking(q, i, v)
    <3>1. \A a \in Stored(cars) : ~IsCar(a, i, v)
      BY <1>2, <1>4, <2>3 DEF IsCar, SameCars
    <3>2. ASSUME NEW q \in Requests \ {r}, Parking(q, i, v) PROVE CreatingCar(q, requests[r])
      BY <1>2, <3>2 DEF Parking, CreatingCar, Busy, Idle
    <3> QED
      BY <1>4, <3>1, <3>2
  <2>4. \A a, j, w : a \in Stored(cars)' /\ IsCar(a, j, w)' => a \in Stored(cars) /\ IsCar(a, j, w)
    BY <1>1 DEF Stored, IsCar
  <2>5. \A q \in Requests \ {r} : \A j, w : Parking(q, j, w)' => Parking(q, j, w)
    BY <2>1 DEF Parking
  <2>6. \A j, w : Parking(r, j, w)' => j = i /\ w = v
    BY <2>2 DEF Parking
  <2>7. twinned \subseteq twinned'
    BY <1>4
  <2>8. \A j, w : w \in Identified /\ r \in Requests /\ Parking(r, j, w)' =>
           \/ Parking(r, j, w)
           \/ /\ \A a \in Stored(cars) : ~IsCar(a, j, w)
              /\ <<j, w>> \in twinned' \/ \A q \in Requests \ {r} : ~Parking(q, j, w)
    BY <2>3, <2>6
  <2> QED
    BY <2>4, <2>5, <2>7, <2>8, CarsStay
<1> QED
  BY <1>2, <1>3, <1>4 DEF FindCar

(* CreateCar: the vehicle was no car of the customer, unless requests       *)
(* overlapped.                                                             *)
LEMMA CreateCarCars ==
  ASSUME BaseInv, CarInv, NEW r \in Requests, CreateCar(r)
  PROVE  CarInv'
<1>1. PICK a, row : Parks(r, a, row)
  BY CreateCarDoes
<1>2. PICK i, v : i = requests[r].customerId /\ v = requests[r].vehicle
  OBVIOUS
<1>3. /\ Parking(r, i, v) /\ i \in CustomerIds /\ UNCHANGED twinned
      /\ row.customerId = i /\ row.vehicle = v /\ row.mobile
      /\ a \in CarIds /\ cars[a] = NoRow
  BY <1>1, <1>2, BusyTyped, CallTyped DEF Parks, Parking
<1>4. /\ cars \in [CarIds -> CarRow \cup {NoRow}] /\ DOMAIN cars' = CarIds /\ cars'[a] = row
      /\ \A x \in CarIds \ {a} : cars'[x] = cars[x]
  BY <1>1 DEF BaseInv, TypeOK, Parks
<1>5. ASSUME NEW x, NEW j, NEW w, x \in Stored(cars)', IsCar(x, j, w)'
      PROVE  (x = a /\ j = i /\ w = v) \/ (x # a /\ x \in Stored(cars) /\ IsCar(x, j, w))
  <2>1. x \in CarIds
    BY <1>4, <1>5 DEF Stored
  <2> QED
    BY <1>3, <1>4, <1>5, <2>1 DEF Stored, IsCar
<1>6. ASSUME NEW q \in Requests, NEW j, NEW w, Parking(q, j, w)'
      PROVE  q # r /\ Parking(q, j, w)
  <2>1. PICK x : requests' = [requests EXCEPT ![r] = ToBook(requests[r], x)]
    BY DEF CreateCar
  <2>2. requests'[r].op = "book" /\ \A p \in Requests \ {r} : requests'[p] = requests[p]
    BY <2>1 DEF BaseInv, TypeOK, ToBook
  <2> QED
    BY <1>6, <2>2 DEF Parking
<1>7. v \in Identified /\ <<i, v>> \notin twinned =>
        /\ \A x \in Stored(cars) : ~IsCar(x, i, v)
        /\ \A q \in Requests : Parking(q, i, v) => q = r
  BY <1>3 DEF CarInv
<1>8. OneCarPerVehicle'
  <2>1. SUFFICES ASSUME NEW x \in Stored(cars)', NEW e \in Stored(cars)',
                        cars'[x].mobile, cars'[e].mobile,
                        cars'[x].customerId = cars'[e].customerId,
                        cars'[x].vehicle = cars'[e].vehicle, cars'[x].vehicle \in Identified
                 PROVE  x = e \/ <<cars'[x].customerId, cars'[x].vehicle>> \in twinned'
    BY DEF OneCarPerVehicle
  <2>2. PICK j, w : j = cars'[x].customerId /\ w = cars'[x].vehicle
    OBVIOUS
  <2>3. IsCar(x, j, w)' /\ IsCar(e, j, w)'
    BY <2>1, <2>2 DEF IsCar
  <2>4. /\ (x = a /\ j = i /\ w = v) \/ (x # a /\ x \in Stored(cars) /\ IsCar(x, j, w))
        /\ (e = a /\ j = i /\ w = v) \/ (e # a /\ e \in Stored(cars) /\ IsCar(e, j, w))
    BY <1>5, <2>1, <2>3
  <2>5. x # a /\ e # a => x = e \/ <<j, w>> \in twinned
    BY <2>1, <2>2, <2>4 DEF IsCar, CarInv, OneCarPerVehicle
  <2> QED
    BY <1>3, <1>7, <2>1, <2>2, <2>4, <2>5
<1>9. ASSUME NEW p \in Requests, NEW j \in CustomerIds, NEW w \in Identified,
             Parking(p, j, w)', <<j, w>> \notin twinned'
      PROVE  /\ \A x \in Stored(cars)' : ~IsCar(x, j, w)'
             /\ \A q \in Requests : Parking(q, j, w)' => q = p
  <2>1. p # r /\ Parking(p, j, w) /\ <<j, w>> \notin twinned
    BY <1>3, <1>6, <1>9
  <2>2. /\ \A x \in Stored(cars) : ~IsCar(x, j, w)
        /\ \A q \in Requests : Parking(q, j, w) => q = p
    BY <2>1 DEF CarInv
  <2>3. ~(j = i /\ w = v)
    BY <1>3, <2>1, <2>2
  <2> QED
    BY <1>5, <1>6, <2>2, <2>3
<1> QED
  BY <1>8, <1>9 DEF CarInv

LEMMA RequestCars ==
  ASSUME BookingsInv, CarInv, NEW r \in Requests,
         \/ \E b \in Businesses :
              \/ Create(r, b) \/ FindForUpdate(r, b) \/ FindForRemove(r, b)
              \/ BatchStatus(r, b)
         \/ \E c \in Clients : FindCustomer(r, c) \/ FindForCancel(r, c)
         \/ RequestStep(r) \/ Untell(r) \/ Abandon(r)
         \/ PushThrows(r) /\ UNCHANGED bookingVars
  PROVE  CarInv'
<1>1. BaseInv
  BY DEF BookingsInv, BaseInv
<1>2. ASSUME NEW call, Start(r, call), call.op # "createCar" PROVE Elsewhere(r)
  BY <1>1, <1>2, CallElsewhere DEF Start
<1>3. ASSUME requests' = [requests EXCEPT ![r] = Idle] PROVE Elsewhere(r)
  <2>1. Idle.op # "createCar"
    BY DEF Idle
  <2> QED
    BY <1>1, <1>3, <2>1, CallElsewhere
<1>4. ASSUME NEW b \in Businesses, Create(r, b) PROVE CarInv'
  <2>1. ASSUME NEW i, NEW a,
               Start(r, [op |-> "create", businessId |-> b, customerId |-> i, carId |-> a])
        PROVE  Elsewhere(r)
    <3>1. PICK call : call = [op |-> "create", businessId |-> b, customerId |-> i, carId |-> a]
      OBVIOUS
    <3>2. call.op # "createCar"
      BY <3>1
    <3> QED
      BY <1>2, <2>1, <3>1, <3>2
  <2>2. Elsewhere(r) /\ UNCHANGED twinned
    BY <1>4, <2>1 DEF Create
  <2>3. CASE UNCHANGED cars
    BY <2>2, <2>3, CarsElsewhere
  <2>4. CASE cars' # cars
    <3>1. PICK i \in Stored(customers), a \in Unused(cars) :
            cars' = [cars EXCEPT ![a] = [customerId |-> i, vehicle |-> NoVehicle, mobile |-> FALSE]]
      BY <1>4, <2>4 DEF Create
    <3>2. PICK row : row = [customerId |-> i, vehicle |-> NoVehicle, mobile |-> FALSE]
      OBVIOUS
    <3>3. ~row.mobile /\ a \in CarIds
      BY <1>1, <3>2 DEF Unused, BaseInv, TypeOK
    <3>4. \A q \in Requests : requests'[q] = requests[q] \/ requests'[q].op # "createCar"
      BY <2>2 DEF Elsewhere
    <3> QED
      BY <1>1, <2>2, <3>1, <3>2, <3>3, <3>4, CarsEntered
  <2> QED
    BY <2>3, <2>4
<1>5. ASSUME NEW b \in Businesses, FindForUpdate(r, b) PROVE CarInv'
  <2>1. PICK k, s, i, a, e :
          Start(r, [op |-> "update", id |-> k, status |-> s, customerId |-> i, carId |-> a,
                    existing |-> e])
    BY <1>5 DEF FindForUpdate
  <2>2. PICK call : call = [op |-> "update", id |-> k, status |-> s, customerId |-> i,
                            carId |-> a, existing |-> e]
    OBVIOUS
  <2>3. call.op # "createCar"
    BY <2>2
  <2>4. Elsewhere(r)
    BY <1>2, <2>1, <2>2, <2>3
  <2> QED
    BY <1>5, <2>4, CarsElsewhere DEF FindForUpdate
<1>6. ASSUME NEW op \in {"remove", "cancel"}, NEW k, Start(r, [op |-> op, id |-> k]) PROVE Elsewhere(r)
  <2>1. PICK call : call = [op |-> op, id |-> k]
    OBVIOUS
  <2>2. call.op # "createCar"
    BY <2>1
  <2> QED
    BY <1>2, <1>6, <2>1, <2>2
<1>7. ASSUME NEW b \in Businesses, FindForRemove(r, b) PROVE CarInv'
  BY <1>6, <1>7, CarsElsewhere DEF FindForRemove
<1>8. ASSUME NEW b \in Businesses, BatchStatus(r, b) PROVE CarInv'
  <2>1. Elsewhere(r) /\ UNCHANGED <<cars, twinned>>
    BY <1>2, <1>8 DEF BatchStatus, Idle
  <2> QED
    BY <2>1, CarsElsewhere
<1>9. ASSUME NEW c \in Clients, FindCustomer(r, c) PROVE CarInv'
  <2>1. PICK b, v, i : Start(r, [op |-> "findCar", businessId |-> b, client |-> c, vehicle |-> v,
                                 customerId |-> i])
    BY <1>9 DEF FindCustomer
  <2>2. PICK call : call = [op |-> "findCar", businessId |-> b, client |-> c, vehicle |-> v,
                            customerId |-> i]
    OBVIOUS
  <2>3. call.op # "createCar"
    BY <2>2
  <2>4. Elsewhere(r)
    BY <1>2, <2>1, <2>2, <2>3
  <2> QED
    BY <1>9, <2>4, CarsElsewhere DEF FindCustomer
<1>10. ASSUME NEW c \in Clients, FindForCancel(r, c) PROVE CarInv'
  BY <1>6, <1>10, CarsElsewhere DEF FindForCancel
<1>11. ASSUME InsertBooking(r) \/ ApplyUpdate(r) \/ ApplyRemove(r) \/ ApplyCancel(r) \/ Abandon(r)
       PROVE  CarInv'
  <2>1. requests' = [requests EXCEPT ![r] = Idle] /\ UNCHANGED <<cars, twinned>>
    BY <1>11 DEF InsertBooking, ApplyUpdate, ApplyRemove, ApplyCancel, Abandon, Notify, Answer
  <2> QED
    BY <1>3, <2>1, CarsElsewhere
<1>12. ASSUME CreateCustomer(r) PROVE CarInv'
  <2>1. PICK i, row : Joins(r, i, row)
    BY <1>1, <1>12, CreateCustomerDoes
  <2>2. Elsewhere(r) /\ UNCHANGED <<cars, twinned>>
    BY <1>1, <2>1 DEF Joins, Elsewhere, BaseInv, TypeOK
  <2> QED
    BY <2>2, CarsElsewhere
<1>13. ASSUME LookUp(r) \/ TellNext(r) \/ Untell(r) \/ UNCHANGED bookingVars PROVE CarInv'
  <2>1. UNCHANGED <<requests, cars, twinned>>
    BY <1>13 DEF LookUp, TellNext, Untell, bookingVars
  <2> QED
    BY <2>1, CarsSame
<1> QED
  BY <1>1, <1>4, <1>5, <1>7, <1>8, <1>9, <1>10, <1>11, <1>12, <1>13, FindCarCars, CreateCarCars
     DEF RequestStep

LEMMA CarsStep == BookingsInv /\ CarInv /\ [Next]_vars => CarInv'
<1> SUFFICES ASSUME BookingsInv, CarInv, [Next]_vars PROVE CarInv'
  OBVIOUS
<1>1. CASE UNCHANGED vars
  <2>1. UNCHANGED <<requests, cars, twinned>>
    BY <1>1 DEF vars, bookingVars
  <2> QED
    BY <2>1, CarsSame
<1>2. ASSUME NEW b \in Businesses, NEW i \in CustomerIds, CreateOrUpdateCustomer(b, i)
      PROVE  CarInv'
  <2>1. UNCHANGED <<requests, cars, twinned>>
    BY <1>2 DEF CreateOrUpdateCustomer
  <2> QED
    BY <2>1, CarsSame
<1>3. ASSUME NEW b \in Businesses, NEW a \in CarIds, CreateOrUpdateCar(b, a)
      PROVE  CarInv'
  <2>1. PICK i, v : cars' = [cars EXCEPT ![a] = [customerId |-> i, vehicle |-> v, mobile |-> FALSE]]
    BY <1>3 DEF CreateOrUpdateCar
  <2>2. PICK row : row = [customerId |-> i, vehicle |-> v, mobile |-> FALSE]
    OBVIOUS
  <2>3. ~row.mobile /\ UNCHANGED <<requests, twinned>>
    BY <1>3, <2>2 DEF CreateOrUpdateCar
  <2> QED
    BY <2>1, <2>2, <2>3, CarsEntered DEF BookingsInv, BaseInv
<1>4. CASE NextTap /\ UNCHANGED bookingVars
  <2>1. UNCHANGED <<requests, cars, twinned>>
    BY <1>4 DEF bookingVars
  <2> QED
    BY <2>1, CarsSame
<1> QED
  BY <1>1, <1>2, <1>3, <1>4, RequestCars DEF Next

LEMMA CarsStart == Init => CarInv
<1> SUFFICES ASSUME Init PROVE CarInv
  OBVIOUS
<1>1. PICK i, a : cars = [x \in CarIds |-> IF x = a
        THEN [customerId |-> i, vehicle |-> NoVehicle, mobile |-> FALSE] ELSE NoRow]
  BY DEF Init
<1>2. PICK row : row = [customerId |-> i, vehicle |-> NoVehicle, mobile |-> FALSE]
  OBVIOUS
<1>3. ~row.mobile /\ \A x \in Stored(cars) : cars[x] = row
  BY <1>1, <1>2 DEF Stored
<1>4. OneCarPerVehicle
  BY <1>3 DEF OneCarPerVehicle
<1>5. \A r \in Requests : requests[r].op # "createCar"
  BY DEF Init, Idle
<1> QED
  BY <1>4, <1>5 DEF CarInv, Parking

-------------------------------------------------------------------------------
(* The invariant holds in every state: rows, requests and notices are what  *)
(* they seem, and what a request or a notice in flight relies on is so.     *)
THEOREM BookingsInvariant == Spec => []BookingsInv
BY BookingsStart, BookingsStep, PTL DEF Spec

(* Every row, request, notice, message and outbox row has its type.        *)
THEOREM BookingsTypeCorrect == Spec => []TypeOK
<1>1. BookingsInv => TypeOK
  BY DEF BookingsInv
<1> QED
  BY <1>1, BookingsInvariant, PTL

(* NotificationsService.sendPush: an outbox row says what became of the     *)
(* push, unless the service could not know or was cut short; whatever the   *)
(* other notices, the devices and the bookings do meanwhile.               *)
THEOREM OutboxIsTruthful == Spec => []OutboxTruthful
<1>1. BookingsInv => OutboxTruthful
  BY DEF BookingsInv, NoticeInv
<1> QED
  BY <1>1, BookingsInvariant, PTL

(* A device is disabled only where its user unregistered it or a push told *)
(* that its token is dead, though the disabling follows the push late.     *)
THEOREM DisabledForCause == Spec => []DisabledHasCause
<1>1. BookingsInv => DisabledHasCause
  BY DEF BookingsInv, NoticeInv
<1> QED
  BY <1>1, BookingsInvariant, PTL

(* registerDevice: a push goes to tokens whose last user is its recipient. *)
THEOREM PushesReachTheirUser == Spec => []PushReachesItsUser
<1>1. BookingsInv => PushReachesItsUser
  BY DEF BookingsInv, NoticeInv
<1> QED
  BY <1>1, BookingsInvariant, PTL

(* BookingsService and MobileService: a booking is of a customer and of a  *)
(* car of its own business, though each write follows its checks later.    *)
THEOREM BookingsWithinBusiness == Spec => []BookingWithinBusiness
<1>1. BookingsInv => BookingWithinBusiness
  BY DEF BookingsInv, RowInv, Linked, Of, CarOf, BookingWithinBusiness
<1> QED
  BY <1>1, BookingsInvariant, PTL

(* A message says of a booking what was true at some time, and goes to the *)
(* business or the client it was of at some time.                          *)
THEOREM MessagesAreTrue == Spec => []MessagesTrue
<1>1. BookingsInv => MessagesTrue
  BY DEF BookingsInv, MessageInv
<1> QED
  BY <1>1, BookingsInvariant, PTL

(* The client of a booking that nobody is changing or telling about knows  *)
(* its status; one who was told nothing, since create tells only the       *)
(* owners, has a booking as the shop made it.  Unless two requests         *)
(* overlapped, the notice was lost or the customer was changed.            *)
THEOREM StatusIsKnown == Spec => []StatusKnown
<1>1. ASSUME BookingsInv
      PROVE  StatusKnown
  <2>1. SUFFICES ASSUME NEW k \in Stored(bookings), k \notin muddled, Heard(k) # bookings[k].status
                 PROVE  k \in UNION {About(r) : r \in Requests}
    BY DEF StatusKnown
  <2>2. PICK r \in Requests : Owes(r, k)
    BY <1>1, <2>1 DEF BookingsInv, StatusInv, Informed
  <2>3. k \in About(r)
    BY <2>2 DEF Owes, Says, About
  <2> QED
    BY <2>3
<1> QED
  BY <1>1, BookingsInvariant, PTL

(* findOrCreateCustomer: a client is two customers of one shop only if two *)
(* of the client's requests overlapped, or the shop typed the address.     *)
THEOREM OneCustomerForEachClient == Spec => []OneCustomerPerClient
<1>1. BookingsInv => OneCustomerPerClient
  BY DEF BookingsInv, CustomerInv
<1> QED
  BY <1>1, BookingsInvariant, PTL

(* findOrCreateCar: a vehicle with a VIN or a plate is two cars of one      *)
(* customer only if two requests overlapped between find and create, or     *)
(* the shop entered one of them.                                           *)
THEOREM OneCarForEachVehicle == Spec => []OneCarPerVehicle
<1>1. Init => CarInv
  BY CarsStart
<1>2. BookingsInv /\ CarInv /\ [Next]_vars => CarInv'
  BY CarsStep
<1>3. CarInv => OneCarPerVehicle
  BY DEF CarInv
<1> QED
  BY <1>1, <1>2, <1>3, BookingsInvariant, PTL DEF Spec

(* The mobile app makes duplicates of customers and cars only by requests   *)
(* that overlap (mobile.service.ts:808-847).                                *)
THEOREM DuplicatesAlwaysNeedOverlap == Spec => []DuplicatesNeedOverlap
<1>1. OneCustomerPerClient /\ OneCarPerVehicle => DuplicatesNeedOverlap
  BY DEF DuplicatesNeedOverlap
<1> QED
  BY <1>1, OneCustomerForEachClient, OneCarForEachVehicle, PTL

===============================================================================
