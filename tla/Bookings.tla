------------------------------- MODULE Bookings -------------------------------
(***************************************************************************)
(* The bookings of several businesses with the customers and cars they     *)
(* rest on, changed by BookingsService, CustomersService and               *)
(* VehiclesService for the business and by MobileService for its clients,  *)
(* and the notices that these changes cause (module Notifications).        *)
(*                                                                         *)
(* A request is a sequence of awaits: look up and check, write, notify.    *)
(* Each write is by id alone.  Customers and cars are never deleted and a  *)
(* customer never changes its business, so a check of these facts is taken *)
(* together with the await that follows it.                                *)
(*                                                                         *)
(* A business has one owner, who goes by its name; a client goes by his or *)
(* her e-mail address.                                                     *)
(***************************************************************************)
EXTENDS Notifications

CONSTANTS
  Clients,      \* the users with the role client
  Statuses,     \* the booking statuses looked at
  CustomerIds, CarIds,
  Vehicles,     \* the vehicles clients have in the mobile app
  Identified    \* those of them with a VIN or a plate

VARIABLES
  bookings,    \* bookings[k]: the row of booking k, or NoRow
  customers,   \* customers[i]: the row of customer i, or NoRow
  cars,        \* cars[i]: the row of car i, or NoRow
  requests,    \* requests[r]: what the request in slot r has read
  past,        \* history: past[k]: what booking k was, and whose, at some time
  made,        \* history: the status it was made with
  knows,       \* history: the status its client last learned, if any
  muddled,     \* history: bookings whose client may have missed a status
  raced,       \* history: clients whose createBooking requests overlapped
  twinned      \* history: the customers and vehicles for whom they did

bookingVars == <<bookings, customers, cars, requests, past, made, knows, muddled,
                 raced, twinned>>
vars == <<bookingVars, notificationVars>>

Pending == "Pending"
Cancelled == "Cancelled"

NoRow == [state |-> "none"]
NoEmail == "none"
NoVehicle == "none"
New == 0
Kept == "kept"
Unheard == "unheard"

(* Tags are not values: the statuses are those of the enum BookingStatus,  *)
(* ids start at 1.  There is somebody to start with.                       *)
ASSUME BookingsAssumption ==
  /\ Users = Businesses \cup Clients /\ Businesses \cap Clients = {}
  /\ News = Statuses \cup {"created", "cancelled"}
  /\ {Pending, Cancelled} \subseteq Statuses
  /\ {"created", "cancelled", Kept, Unheard} \cap Statuses = {}
  /\ New \notin CustomerIds \cup CarIds
  /\ Identified \subseteq Vehicles
  /\ {} \notin {Businesses, Clients, BookingIds, CustomerIds, CarIds}

BookingRow  == [businessId : Businesses, customerId : CustomerIds, carId : CarIds,
                status : Statuses]
(* mobile is history: the row was created on behalf of a client and the     *)
(* business has not edited it since.                                       *)
CustomerRow == [businessId : Businesses, email : Clients \cup {NoEmail}, mobile : BOOLEAN]
CarRow      == [customerId : CustomerIds, vehicle : Vehicles \cup {NoVehicle},
                mobile : BOOLEAN]

Idle == [op |-> "idle"]
Busy(r) == requests[r] # Idle

Stored(table) == {i \in DOMAIN table : table[i] # NoRow}
Unused(table) == {i \in DOMAIN table : table[i] = NoRow}

(* One business has a customer with a car and a booking already. *)
First(S) == CHOOSE x \in S : TRUE

Init ==
  LET b == First(Businesses)  c == First(Clients)
      i == First(CustomerIds)  a == First(CarIds)  k == First(BookingIds)
  IN
  /\ NotificationsInit
  /\ customers = [x \in CustomerIds |-> IF x = i
       THEN [businessId |-> b, email |-> c, mobile |-> TRUE] ELSE NoRow]
  /\ cars = [x \in CarIds |-> IF x = a
       THEN [customerId |-> i, vehicle |-> NoVehicle, mobile |-> FALSE] ELSE NoRow]
  /\ bookings = [x \in BookingIds |-> IF x = k
       THEN [businessId |-> b, customerId |-> i, carId |-> a, status |-> Pending]
       ELSE NoRow]
  /\ past = [x \in BookingIds |-> IF x = k THEN {Pending, b, c} ELSE {}]
  /\ requests = [r \in Requests |-> Idle]
  /\ made = [x \in BookingIds |-> Pending] /\ knows = made
  /\ muddled = {} /\ raced = {} /\ twinned = {}

BusinessOf(customerId) == customers[customerId].businessId
EmailOf(customerId) == customers[customerId].email

(* A request begins; what it is about is in the record call. *)
Start(r, call) ==
  /\ ~Busy(r) /\ ~Telling(r)
  /\ Count
  /\ requests' = [requests EXCEPT ![r] = call]

(* The bookings that the request in slot r changes, or whose status it is  *)
(* telling the clients                                                     *)
About(r) ==
  (IF Busy(r) /\ requests[r].op \in {"update", "remove", "cancel"}
   THEN {requests[r].id} ELSE {})
  \cup (IF Telling(r) /\ notices[r].news \in Statuses THEN notices[r].bookingIds ELSE {})

AboutOthers(r) == UNION {About(q) : q \in Requests \ {r}}

-------------------------------------------------------------------------------
(* The rows of a booking that is written, and the history that goes with it *)
PutBooking(k, row) ==
  /\ bookings' = [bookings EXCEPT ![k] = row]
  /\ past' = [past EXCEPT ![k] = @ \cup {row.status, row.businessId, EmailOf(row.customerId)}]

(* The end of a request that has nothing to tell, and of one that has *)
Answer(r) ==
  requests' = [requests EXCEPT ![r] = Idle] /\ UNCHANGED notices

Notify(r, what, k) ==
  /\ requests' = [requests EXCEPT ![r] = Idle]
  /\ notices' = [notices EXCEPT ![r] = NewNotice(what, bookings'[k].businessId, {k})]

deviceVars == <<devices, inbox, outbox, registrant, excuse>>

(* BookingsService.create: the customer and the car are the business's     *)
(* own, or the car is created; then the booking.                           *)
ForeignCreate(r, b) ==
  /\ \E i \in Stored(customers), a \in Stored(cars) :
       Start(r, [op |-> "create", businessId |-> b, customerId |-> i, carId |-> a])
  /\ UNCHANGED <<bookings, customers, cars, past, made, knows, muddled, raced,
                 twinned, notices, deviceVars>>
Create(r, b) ==
  /\ \E i \in Stored(customers) :
       /\ BusinessOf(i) = b
       /\ \/ /\ \E a \in Stored(cars) :
                  /\ BusinessOf(cars[a].customerId) = b
                  /\ Start(r, [op |-> "create", businessId |-> b, customerId |-> i,
                               carId |-> a])
             /\ UNCHANGED cars
          \/ \E a \in Unused(cars) :
               /\ Start(r, [op |-> "create", businessId |-> b, customerId |-> i, carId |-> a])
               /\ cars' = [cars EXCEPT ![a] =
                    [customerId |-> i, vehicle |-> NoVehicle, mobile |-> FALSE]]
  /\ UNCHANGED <<bookings, customers, past, made, knows, muddled, raced, twinned,
                 notices, deviceVars>>

(* A booking is inserted and the business is told.  Its client knows of a   *)
(* booking that he or she made, and hears nothing of one the shop made.    *)
InsertBooking(r) ==
  LET call == requests[r] IN
  /\ call.op \in {"create", "book"}
  /\ \E k \in Unused(bookings), s \in IF call.op = "create" THEN Statuses ELSE {Pending} :
       /\ past[k] = {}
       /\ PutBooking(k, [businessId |-> call.businessId, customerId |-> call.customerId,
                         carId |-> call.carId, status |-> s])
       /\ made' = [made EXCEPT ![k] = s]
       /\ knows' = [knows EXCEPT ![k] = IF call.op = "book" THEN s ELSE Unheard]
       /\ Notify(r, "created", k)
  /\ UNCHANGED <<customers, cars, calls, muddled, raced, twinned, deviceVars>>

(* update and setStatus: the booking, the new customer and the new car are *)
(* looked up; "kept" stands for a field that the client left out.          *)
TellingFindForUpdate(r, b) ==
  \E k \in Stored(bookings), s \in Statuses :
    /\ bookings[k].businessId = b
    /\ Start(r, [op |-> "update", id |-> k, status |-> s, customerId |-> New,
                 carId |-> New, existing |-> bookings[k].status])
    /\ notices' = [notices EXCEPT ![r] = NewNotice(s, b, {k})]
    /\ UNCHANGED <<bookings, customers, cars, past, made, knows, muddled, raced,
                   twinned, deviceVars>>
FindForUpdate(r, b) ==
  \E k \in Stored(bookings) :
    /\ bookings[k].businessId = b
    /\ \E s \in Statuses \cup {Kept},
          i \in {j \in Stored(customers) : BusinessOf(j) = b} \cup {New},
          a \in {c \in Stored(cars) : BusinessOf(cars[c].customerId) = b} \cup {New} :
         Start(r, [op |-> "update", id |-> k, status |-> s, customerId |-> i, carId |-> a,
                   existing |-> bookings[k].status])
    /\ UNCHANGED <<bookings, customers, cars, past, made, knows, muddled, raced,
                   twinned, notices, deviceVars>>

PlainMerged(row, call) ==
  [row EXCEPT !.status = call.status,
              !.customerId = IF call.customerId = New THEN @ ELSE call.customerId,
              !.carId = IF call.carId = New THEN @ ELSE call.carId]
Merged(row, call) ==
  [row EXCEPT !.status = IF call.status = Kept THEN @ ELSE call.status,
              !.customerId = IF call.customerId = New THEN @ ELSE call.customerId,
              !.carId = IF call.carId = New THEN @ ELSE call.carId]

(* booking.update, which throws when the booking is gone.  The client is   *)
(* told of a status that differs from the one that was looked up.          *)
SilentApplyUpdate(r) ==
  LET call == requests[r] IN
  /\ call.op = "update"
  /\ bookings[call.id] # NoRow
  /\ PutBooking(call.id, Merged(bookings[call.id], call))
  /\ Answer(r)
  /\ UNCHANGED <<customers, cars, calls, made, knows, muddled, raced, twinned,
                 deviceVars>>
ApplyUpdate(r) ==
  LET call == requests[r] IN
  /\ call.op = "update"
  /\ bookings[call.id] # NoRow
  /\ PutBooking(call.id, Merged(bookings[call.id], call))
  /\ IF call.status # Kept /\ call.status # call.existing
     THEN Notify(r, call.status, call.id) ELSE Answer(r)
  /\ muddled' = IF call.customerId # New \/ call.id \in AboutOthers(r)
                THEN muddled \cup {call.id} ELSE muddled
  /\ UNCHANGED <<customers, cars, calls, knows, made, raced, twinned, deviceVars>>

FindForRemove(r, b) ==
  /\ \E k \in Stored(bookings) :
       bookings[k].businessId = b /\ Start(r, [op |-> "remove", id |-> k])
  /\ UNCHANGED <<bookings, customers, cars, past, made, knows, muddled, raced,
                 twinned, notices, deviceVars>>

ApplyRemove(r) ==
  LET call == requests[r] IN
  /\ call.op = "remove"
  /\ bookings[call.id] # NoRow
  /\ bookings' = [bookings EXCEPT ![call.id] = NoRow]
  /\ Answer(r)
  /\ UNCHANGED <<customers, cars, calls, past, made, knows, muddled, raced, twinned,
                 deviceVars>>

(* batchStatus: one updateMany of those of the ids that are the business's *)
(* own; the notice is about all the ids.  Ids are random: a client knows   *)
(* none before the booking exists.                                         *)
BatchStatus(r, b) ==
  \E ids \in SUBSET BookingIds, s \in Statuses :
    LET own == {k \in ids \cap Stored(bookings) : bookings[k].businessId = b} IN
    /\ own # {} /\ \A k \in ids : past[k] # {}
    /\ Start(r, Idle)
    /\ bookings' = [k \in BookingIds |-> IF k \in own
                      THEN [bookings[k] EXCEPT !.status = s] ELSE bookings[k]]
    /\ past' = [k \in BookingIds |-> IF k \in own THEN past[k] \cup {s} ELSE past[k]]
    /\ notices' = [notices EXCEPT ![r] = NewNotice(s, b, ids)]
    /\ muddled' = muddled \cup (own \cap AboutOthers(r))
    /\ UNCHANGED <<customers, cars, knows, made, raced, twinned, deviceVars>>

-------------------------------------------------------------------------------
(* MobileService.createBooking.  The vehicle is in the client's own store. *)
(* findOrCreateCustomer: a customer of the shop with the client's e-mail.  *)
FindCustomer(r, c) ==
  \E b \in Businesses, v \in Vehicles :
    LET mine == {i \in Stored(customers) : BusinessOf(i) = b /\ EmailOf(i) = c} IN
    /\ \E i \in IF mine = {} THEN {New} ELSE mine :
         Start(r, [op |-> "findCar", businessId |-> b, client |-> c, vehicle |-> v,
                   customerId |-> i])
    /\ raced' = IF \E q \in Requests \ {r} :
                     /\ Busy(q) /\ requests[q].op = "findCar"
                     /\ requests[q].businessId = b /\ requests[q].client = c
                     /\ requests[q].customerId = New
                THEN raced \cup {c} ELSE raced
    /\ UNCHANGED <<bookings, customers, cars, past, made, knows, muddled, twinned,
                   notices, deviceVars>>

BlindCreateCustomer(r) ==
  LET call == requests[r] IN
  /\ call.op = "findCar"
  /\ \E i \in Unused(customers) :
       /\ customers' = [customers EXCEPT ![i] =
            [businessId |-> call.businessId, email |-> call.client, mobile |-> TRUE]]
       /\ requests' = [requests EXCEPT ![r].customerId = i]
  /\ UNCHANGED <<bookings, cars, calls, past, made, knows, muddled, raced, twinned,
                 notices, deviceVars>>
CreateCustomer(r) ==
  LET call == requests[r] IN
  /\ call.op = "findCar" /\ call.customerId = New
  /\ \E i \in Unused(customers) :
       /\ customers' = [customers EXCEPT ![i] =
            [businessId |-> call.businessId, email |-> call.client, mobile |-> TRUE]]
       /\ requests' = [requests EXCEPT ![r].customerId = i]
  /\ UNCHANGED <<bookings, cars, calls, past, made, knows, muddled, raced, twinned,
                 notices, deviceVars>>

(* findOrCreateCar: a car of the customer with the same VIN or plate, or a *)
(* new one.  For a vehicle with neither, OR: [] matches no car.            *)
SameCars(call) ==
  {a \in Stored(cars) : /\ cars[a].customerId = call.customerId
                        /\ cars[a].vehicle = call.vehicle
                        /\ call.vehicle \in Identified}

ToBook(call, a) ==
  [op |-> "book", businessId |-> call.businessId, customerId |-> call.customerId, carId |-> a]

CreatingCar(q, call) ==
  /\ Busy(q) /\ requests[q].op = "createCar"
  /\ requests[q].customerId = call.customerId /\ requests[q].vehicle = call.vehicle

BlindFindCar(r) ==
  LET call == requests[r] IN
  /\ call.op = "findCar" /\ call.customerId # New
  /\ requests' = [requests EXCEPT ![r] =
       [op |-> "createCar", businessId |-> call.businessId,
        customerId |-> call.customerId, vehicle |-> call.vehicle]]
  /\ twinned' = IF \E q \in Requests \ {r} : CreatingCar(q, call)
                THEN twinned \cup {<<call.customerId, call.vehicle>>} ELSE twinned
  /\ UNCHANGED <<bookings, customers, cars, calls, past, made, knows, muddled, raced,
                 notices, deviceVars>>
FindCar(r) ==
  LET call == requests[r] IN
  /\ call.op = "findCar" /\ call.customerId # New
  /\ \/ /\ \E a \in SameCars(call) :
             requests' = [requests EXCEPT ![r] = ToBook(call, a)]
        /\ UNCHANGED twinned
     \/ /\ SameCars(call) = {}
        /\ requests' = [requests EXCEPT ![r] =
             [op |-> "createCar", businessId |-> call.businessId,
              customerId |-> call.customerId, vehicle |-> call.vehicle]]
        /\ twinned' = IF \E q \in Requests \ {r} : CreatingCar(q, call)
                      THEN twinned \cup {<<call.customerId, call.vehicle>>} ELSE twinned
  /\ UNCHANGED <<bookings, customers, cars, calls, past, made, knows, muddled, raced,
                 notices, deviceVars>>

CreateCar(r) ==
  LET call == requests[r] IN
  /\ call.op = "createCar"
  /\ \E a \in Unused(cars) :
       /\ requests' = [requests EXCEPT ![r] = ToBook(call, a)]
       /\ cars' = [cars EXCEPT ![a] =
            [customerId |-> call.customerId, vehicle |-> call.vehicle, mobile |-> TRUE]]
  /\ UNCHANGED <<bookings, customers, calls, past, made, knows, muddled, raced, twinned,
                 notices, deviceVars>>

(* cancelBooking: the booking is of a customer with the client's e-mail.   *)
(* Any status is cancelled, a completed one too.                           *)
FindForCancel(r, c) ==
  /\ \E k \in Stored(bookings) :
       /\ EmailOf(bookings[k].customerId) = c
       /\ Start(r, [op |-> "cancel", id |-> k])
  /\ UNCHANGED <<bookings, customers, cars, past, made, knows, muddled, raced,
                 twinned, notices, deviceVars>>

ApplyCancel(r) ==
  LET call == requests[r] IN
  /\ call.op = "cancel"
  /\ bookings[call.id] # NoRow
  /\ PutBooking(call.id, [bookings[call.id] EXCEPT !.status = Cancelled])
  /\ knows' = [knows EXCEPT ![call.id] = Cancelled]
  /\ muddled' = IF call.id \in AboutOthers(r) THEN muddled \cup {call.id} ELSE muddled
  /\ Notify(r, "cancelled", call.id)
  /\ UNCHANGED <<customers, cars, calls, made, raced, twinned, deviceVars>>

(* A write of the request throws, or its process dies. *)
Abandon(r) ==
  /\ Busy(r)
  /\ Answer(r)
  /\ UNCHANGED <<bookings, customers, cars, calls, past, made, knows, muddled, raced,
                 twinned, deviceVars>>

-------------------------------------------------------------------------------
(* CustomersService and VehiclesService, for the business.  Their checks   *)
(* are of facts that do not change: each is one step.                      *)
CreateOrUpdateCustomer(b, i) ==
  /\ Count
  /\ customers[i] # NoRow => BusinessOf(i) = b
  /\ \E email \in Clients \cup {NoEmail} :
       customers' = [customers EXCEPT ![i] =
         [businessId |-> b, email |-> email, mobile |-> FALSE]]
  /\ past' = [k \in BookingIds |->
       IF bookings[k] # NoRow /\ bookings[k].customerId = i
       THEN past[k] \cup {customers'[i].email} ELSE past[k]]
  /\ muddled' = muddled \cup
       {k \in Stored(bookings) : bookings[k].customerId = i
                                   /\ EmailOf(i) # customers'[i].email}
  /\ UNCHANGED <<bookings, cars, requests, knows, made, raced, twinned>>
  /\ UNCHANGED <<devices, inbox, outbox, notices, registrant, excuse>>

CreateOrUpdateCar(b, a) ==
  /\ Count
  /\ cars[a] # NoRow => BusinessOf(cars[a].customerId) = b
  /\ \E i \in Stored(customers), v \in Vehicles \cup {NoVehicle} :
       /\ BusinessOf(i) = b
       /\ cars' = [cars EXCEPT ![a] = [customerId |-> i, vehicle |-> v, mobile |-> FALSE]]
  /\ UNCHANGED <<bookings, customers, requests, past, made, knows, muddled, raced,
                 twinned>>
  /\ UNCHANGED <<devices, inbox, outbox, notices, registrant, excuse>>

-------------------------------------------------------------------------------
(* The recipients of a notice, looked up after the change: the owner of    *)
(* the business, or the client with the customer's e-mail.                 *)
BusinessNews == {"created", "cancelled"}

Recipients(call) ==
  IF call.news \in BusinessNews
  THEN {[to |-> bookings[k].businessId, bookingId |-> k, news |-> call.news] :
          k \in call.bookingIds \cap Stored(bookings)}
  ELSE {[to |-> EmailOf(bookings[k].customerId), bookingId |-> k, news |-> call.news] :
          k \in {x \in call.bookingIds \cap Stored(bookings) :
                   /\ bookings[x].businessId = call.businessId
                   /\ EmailOf(bookings[x].customerId) \in Clients}}

LookUp(r) ==
  LET call == notices[r]
      found == Recipients(call)
  IN
  /\ At(r, "lookup")
  /\ notices' = [notices EXCEPT ![r] = Rest([@ EXCEPT !.todo = found])]
  /\ muddled' = IF call.news \in BusinessNews THEN muddled
                ELSE muddled \cup (call.bookingIds \ {d.bookingId : d \in found})
  /\ UNCHANGED <<bookings, customers, cars, requests, calls, past, made, knows,
                 raced, twinned, deviceVars>>

(* What the client of a booking learns from a message in the inbox *)
TellNext(r) ==
  /\ Deliver(r)
  /\ knows' = [k \in BookingIds |->
       IF notices[r].news \notin BusinessNews
          /\ \E d \in notices[r].todo \ notices'[r].todo : d.bookingId = k
       THEN notices[r].news ELSE knows[k]]
  /\ UNCHANGED <<bookings, customers, cars, requests, past, made, muddled, raced,
                 twinned>>

(* What is not told, and to whom, is lost. *)
Untold(r) == IF notices[r].news \in BusinessNews THEN {} ELSE notices[r].bookingIds

Untell(r) ==
  /\ GiveUp(r) \/ Mute(r)
  /\ muddled' = muddled \cup Untold(r)
  /\ UNCHANGED <<bookings, customers, cars, requests, past, made, knows, raced,
                 twinned>>

RequestStep(r) ==
  \/ InsertBooking(r) \/ ApplyUpdate(r) \/ ApplyRemove(r)
  \/ CreateCustomer(r) \/ FindCar(r) \/ CreateCar(r) \/ ApplyCancel(r)
  \/ LookUp(r) \/ TellNext(r)
  \/ PushStep(r) /\ UNCHANGED bookingVars

Next ==
  \/ \E r \in Requests :
       \/ \E b \in Businesses :
            \/ Create(r, b) \/ FindForUpdate(r, b) \/ FindForRemove(r, b)
            \/ BatchStatus(r, b)
       \/ \E c \in Clients : FindCustomer(r, c) \/ FindForCancel(r, c)
       \/ RequestStep(r)
       \/ Untell(r)
       \/ Abandon(r)
       \/ PushThrows(r) /\ UNCHANGED bookingVars
  \/ \E b \in Businesses :
       \/ \E i \in CustomerIds : CreateOrUpdateCustomer(b, i)
       \/ \E a \in CarIds : CreateOrUpdateCar(b, a)
  \/ NextTap /\ UNCHANGED bookingVars

(* The event loop resumes a request whose await is done. *)
Fairness == \A r \in Requests : WF_vars(RequestStep(r))

Spec == Init /\ [][Next]_vars /\ Fairness

-------------------------------------------------------------------------------
RequestRecord ==
  {Idle}
  \cup [op : {"create", "book"}, businessId : Businesses, customerId : CustomerIds, carId : CarIds]
  \cup [op : {"update"}, id : BookingIds, status : Statuses \cup {Kept},
        customerId : CustomerIds \cup {New}, carId : CarIds \cup {New},
        existing : Statuses]
  \cup [op : {"remove", "cancel"}, id : BookingIds]
  \cup [op : {"findCar"}, businessId : Businesses, client : Clients, vehicle : Vehicles,
        customerId : CustomerIds \cup {New}]
  \cup [op : {"createCar"}, businessId : Businesses, customerId : CustomerIds,
        vehicle : Vehicles]

TypeOK ==
  /\ NotificationsTypeOK
  /\ bookings \in [BookingIds -> BookingRow \cup {NoRow}]
  /\ customers \in [CustomerIds -> CustomerRow \cup {NoRow}]
  /\ cars \in [CarIds -> CarRow \cup {NoRow}]
  /\ requests \in [Requests -> RequestRecord]
  /\ made \in [BookingIds -> Statuses]
  /\ knows \in [BookingIds -> Statuses \cup {Unheard}]
  /\ muddled \subseteq BookingIds /\ raced \subseteq Clients
  /\ twinned \subseteq CustomerIds \X Vehicles

(* A booking is of a customer, and of a car of a customer, of its business, *)
(* whatever is checked before and written after (bookings.service.ts).     *)
BookingWithinBusiness ==
  \A k \in Stored(bookings) :
    /\ BusinessOf(bookings[k].customerId) = bookings[k].businessId
    /\ BusinessOf(cars[bookings[k].carId].customerId) = bookings[k].businessId

(* What a message says of a booking was true at some time, and it goes to  *)
(* the business of the booking or to the client it was of at some time,    *)
(* though the recipients are looked up after the change.                   *)
MessagesTrue ==
  \A m \in inbox :
    /\ m.to \in past[m.bookingId]
    /\ m.news \in Statuses => m.news \in past[m.bookingId]

(* What a client believes who relies on what he or she was told: if that   *)
(* is nothing, the booking is as the shop made it.                         *)
Heard(k) == IF knows[k] = Unheard THEN made[k] ELSE knows[k]

(* The client of a booking that no request is changing knows its status.    *)
(* Who never heard of it, because the shop made it and create tells only   *)
(* the owners, has one whose status is still the one it was made with: any *)
(* change is told.  The exceptions: two requests on it overlapped, or the  *)
(* notice was cut short, muted or had nobody to go to, or its customer was *)
(* changed.                                                                *)
StatusKnown ==
  \A k \in Stored(bookings) :
    k \in UNION {About(r) : r \in Requests} \/ k \in muddled
      \/ Heard(k) = bookings[k].status

(* A client is two customers of one shop only if two of the client's       *)
(* requests for a booking overlapped, or the shop typed the address        *)
(* (findOrCreateCustomer, mobile.service.ts:808-822).                      *)
OneCustomerPerClient ==
  \A i, j \in Stored(customers) :
    /\ customers[i].mobile /\ customers[j].mobile
    /\ BusinessOf(i) = BusinessOf(j) /\ EmailOf(i) = EmailOf(j)
    => i = j \/ EmailOf(i) \in raced

(* A vehicle with a VIN or a plate is two cars of one customer only if two *)
(* requests looked for the car before either created it, or the shop       *)
(* entered one of them (findOrCreateCar, mobile.service.ts:824-847).       *)
OneCarPerVehicle ==
  \A a, e \in Stored(cars) :
    /\ cars[a].mobile /\ cars[e].mobile
    /\ cars[a].customerId = cars[e].customerId /\ cars[a].vehicle = cars[e].vehicle
    /\ cars[a].vehicle \in Identified
    => a = e \/ <<cars[a].customerId, cars[a].vehicle>> \in twinned

(* findOrCreateCustomer and findOrCreateCar find, then create, without a   *)
(* unique constraint (mobile.service.ts:808-847): only requests that are   *)
(* between the two together, or the shop's own entries, make duplicates.   *)
DuplicatesNeedOverlap == OneCustomerPerClient /\ OneCarPerVehicle
===============================================================================
