-------------------------- MODULE NotificationsProofs --------------------------
(***************************************************************************)
(* Notifications, for any number of users, devices, bookings and notices:  *)
(* the inductive invariant NoticeInv of its state, and that every step of  *)
(* a notice, of a device or of the inbox preserves it.  Who begins a       *)
(* notice is another module's business (BookingsProofs).                   *)
(***************************************************************************)
EXTENDS Notifications, SequenceTheorems, TLAPS

USE NotificationsAssumption

-------------------------------------------------------------------------------
(* The notices: what is known of a push at each of its steps, from which   *)
(* the status follows that it ends with.                                   *)
Pushes(r) == Telling(r) /\ notices[r].step \in {"push", "send", "catch"}

RowTells(call, row) ==
  /\ row.status = "pending"
  /\ call.step = "push" => ~row.reached
  /\ call.step = "send" => /\ row.reached => call.sent \/ row.unsure
                           /\ call.sent => row.reached
  /\ call.step = "catch" => (row.reached => row.unsure)

NoticeSound(call) ==
  /\ call.step \in {"lookup", "next", "devices"} => call.tokens = {} /\ call.invalid = {}
  /\ call.step \in {"lookup", "next", "devices", "push"} => ~call.sent
  /\ call.step \in {"devices", "push", "send", "catch"} => call.to \in Users
  /\ call.step \in {"push", "send", "catch"} => RowTells(call, outbox[call.row])
  /\ \A t \in call.invalid : t \in call.moved \/ excuse[t] # "none"

NoticesSound == \A r \in Requests : Telling(r) => NoticeSound(notices[r])

OwnRow == \A q, r \in Requests : Pushes(q) /\ Pushes(r) /\ notices[q].row = notices[r].row => q = r

DevicesFollow ==
  devices \in [Tokens -> Device] /\ \A t \in Tokens : devices[t].user = registrant[t]

NoticeInv ==
  /\ NotificationsTypeOK /\ NoticesSound /\ OwnRow /\ DevicesFollow
  /\ OutboxTruthful /\ DisabledHasCause /\ PushReachesItsUser

-------------------------------------------------------------------------------
(* What one step of the notice in slot r may do, x being the notice after  *)
(* it: it touches its own row of the outbox, or a new one, and says of it  *)
(* what is so; and it disables nothing without a cause.                    *)
Pushing3 == {"push", "send", "catch"}

Settled(row) ==
  /\ row.status = "sent" => row.reached
  /\ row.status = "skipped" => ~row.reached
  /\ row.status = "failed" /\ row.reached => row.unsure

RowsKept(r, x) ==
  /\ outbox' \in Seq(OutboxRow)
  /\ \A i \in DOMAIN outbox :
       /\ i \in DOMAIN outbox'
       /\ outbox'[i] = outbox[i] \/ (Pushes(r) /\ i = notices[r].row)
  /\ \A i \in DOMAIN outbox' :
       \/ i \in DOMAIN outbox /\ ~(Pushes(r) /\ i = notices[r].row)
       \/ /\ Settled(outbox'[i])
          /\ outbox'[i].status = "pending" =>
               outbox'[i].cut \/ (x # NoNotice /\ x.row = i /\ x.step \in Pushing3)
  /\ x # NoNotice /\ x.step \in Pushing3 =>
       /\ x.row \in DOMAIN outbox'
       /\ (Pushes(r) /\ x.row = notices[r].row) \/ x.row \notin DOMAIN outbox

DevicesKept ==
  /\ devices' \in [Tokens -> Device]
  /\ excuse' \in [Tokens -> {"none", "unregistered", "refused", "overtaken"}]
  /\ registrant' = registrant
  /\ \A t \in Tokens :
       /\ devices'[t].user = devices[t].user
       /\ excuse[t] # "none" => excuse'[t] # "none"
       /\ devices'[t].enabled = devices[t].enabled \/ excuse'[t] # "none"

NoticeMoves(r, x) ==
  /\ x \in {NoNotice} \cup Notice
  /\ notices' = [notices EXCEPT ![r] = x]
  /\ inbox' \subseteq InboxMessage
  /\ calls' \in 0..MaxCalls
  /\ RowsKept(r, x)
  /\ DevicesKept
  /\ x # NoNotice =>
       /\ NoticeSound(x)'
       /\ \A t \in x.tokens : registrant[t] = x.to \/ t \in x.moved

LEMMA NoticeReal == NoNotice \notin Notice
BY DEF NoNotice, Notice, NoticeStep

LEMMA RowOf ==
  ASSUME NoticeInv, NEW r \in Requests, Pushes(r)
  PROVE  notices[r].row \in DOMAIN outbox /\ notices[r] \in Notice
BY DEF NoticeInv, NotificationsTypeOK, Pushes, Telling

(* What one notice does leaves the others as they are. *)
LEMMA OthersKept ==
  ASSUME NoticeInv, NEW r \in Requests, NEW x, NoticeMoves(r, x)
  PROVE  /\ notices' \in [Requests -> {NoNotice} \cup Notice]
         /\ notices'[r] = x
         /\ \A q \in Requests \ {r} :
              /\ notices'[q] = notices[q]
              /\ Pushes(q) => /\ notices[q].row \in DOMAIN outbox'
                              /\ outbox'[notices[q].row] = outbox[notices[q].row]
                              /\ Pushes(r) => notices[q].row # notices[r].row
<1>1. notices \in [Requests -> {NoNotice} \cup Notice]
  BY DEF NoticeInv, NotificationsTypeOK
<1>2. x \in {NoNotice} \cup Notice /\ notices' = [notices EXCEPT ![r] = x]
  BY DEF NoticeMoves
<1>3. ASSUME NEW q \in Requests \ {r}, Pushes(q)
      PROVE  /\ notices[q].row \in DOMAIN outbox'
             /\ outbox'[notices[q].row] = outbox[notices[q].row]
             /\ Pushes(r) => notices[q].row # notices[r].row
  <2>1. notices[q].row \in DOMAIN outbox
    BY <1>3, RowOf
  <2>2. Pushes(r) => notices[q].row # notices[r].row
    BY <1>3 DEF NoticeInv, OwnRow
  <2> QED
    BY <2>1, <2>2 DEF NoticeMoves, RowsKept
<1> QED
  BY <1>1, <1>2, <1>3

LEMMA MoveKeeps ==
  ASSUME NoticeInv, NEW r \in Requests, NEW x, NoticeMoves(r, x)
  PROVE  NoticeInv'
<1>a. /\ notices' \in [Requests -> {NoNotice} \cup Notice]
      /\ notices'[r] = x
      /\ \A q \in Requests \ {r} :
           /\ notices'[q] = notices[q]
           /\ Pushes(q) => /\ notices[q].row \in DOMAIN outbox'
                           /\ outbox'[notices[q].row] = outbox[notices[q].row]
                           /\ Pushes(r) => notices[q].row # notices[r].row
  BY OthersKept
<1>b. \A q \in Requests \ {r} : Telling(q)' = Telling(q) /\ Pushes(q)' = Pushes(q)
  BY <1>a DEF Telling, Pushes
<1>c. /\ Telling(r)' <=> x # NoNotice
      /\ Pushes(r)' <=> x # NoNotice /\ x.step \in Pushing3
  BY <1>a DEF Telling, Pushes, Pushing3
<1>1. NotificationsTypeOK'
  <2>1. ASSUME NEW q \in Requests, Pushes(q)' PROVE (notices[q].row \in DOMAIN outbox)'
    <3>1. CASE q = r
      BY <2>1, <3>1, <1>a, <1>c DEF NoticeMoves, RowsKept
    <3>2. CASE q # r
      BY <2>1, <3>2, <1>a, <1>b
    <3> QED
      BY <3>1, <3>2
  <2>2. outbox' \in Seq(OutboxRow) /\ inbox' \subseteq InboxMessage /\ calls' \in 0..MaxCalls
        /\ devices' \in [Tokens -> Device \cup {NoDevice}]
        /\ excuse' \in [Tokens -> {"none", "unregistered", "refused", "overtaken"}]
    BY DEF NoticeMoves, RowsKept, DevicesKept
  <2>3. registrant' \in [Tokens -> Users]
    BY DEF NoticeMoves, DevicesKept, NoticeInv, NotificationsTypeOK
  <2> QED
    BY <2>1, <2>2, <2>3, <1>a DEF NotificationsTypeOK, Pushes
<1>2. NoticesSound'
  <2> SUFFICES ASSUME NEW q \in Requests, Telling(q)' PROVE NoticeSound(notices[q])'
    BY DEF NoticesSound
  <2>1. CASE q = r
    <3>1. NoticeSound(x)'
      BY <2>1, <1>c DEF NoticeMoves
    <3> QED
      BY <3>1, <2>1, <1>a DEF NoticeSound, RowTells
  <2>2. CASE q # r
    <3>1. Telling(q) /\ notices'[q] = notices[q] /\ NoticeSound(notices[q])
      BY <2>2, <1>a, <1>b DEF NoticeInv, NoticesSound
    <3>2. notices[q].step \in {"push", "send", "catch"} => outbox'[notices[q].row] = outbox[notices[q].row]
      BY <3>1, <2>2, <1>a DEF Pushes
    <3>3. \A t \in Tokens : excuse[t] # "none" => excuse'[t] # "none"
      BY DEF NoticeMoves, DevicesKept
    <3>4. notices[q] \in Notice
      BY <3>1 DEF NoticeInv, NotificationsTypeOK, Telling
    <3>5. notices[q].invalid \subseteq Tokens
      BY <3>4 DEF Notice
    <3> QED
      BY <3>1, <3>2, <3>3, <3>5 DEF NoticeSound, RowTells
  <2> QED
    BY <2>1, <2>2
<1>3. OwnRow'
  <2>1. ASSUME NEW q \in Requests \ {r}, Pushes(q), Pushes(r)'
        PROVE  notices'[q].row # notices'[r].row
    <3>1. notices[q].row \in DOMAIN outbox
      BY <2>1, RowOf
    <3> QED
      BY <3>1, <2>1, <1>a, <1>c DEF NoticeMoves, RowsKept
  <2> QED
    BY <2>1, <1>a, <1>b DEF OwnRow, NoticeInv
<1>4. DevicesFollow'
  BY DEF DevicesFollow, NoticeInv, NoticeMoves, DevicesKept
<1>5. OutboxTruthful'
  <2> SUFFICES ASSUME NEW i \in DOMAIN outbox'
               PROVE  /\ Settled(outbox'[i])
                      /\ outbox'[i].status = "pending" => Pushing(i)' \/ outbox'[i].cut
    BY DEF OutboxTruthful, Settled
  <2>1. CASE i \in DOMAIN outbox /\ ~(Pushes(r) /\ i = notices[r].row)
    <3>1. outbox'[i] = outbox[i]
      BY <2>1 DEF NoticeMoves, RowsKept
    <3>2. Settled(outbox[i]) /\ (outbox[i].status = "pending" => Pushing(i) \/ outbox[i].cut)
      BY <2>1 DEF NoticeInv, OutboxTruthful, Settled
    <3>3. Pushing(i) => Pushing(i)'
      <4> SUFFICES ASSUME NEW q \in Requests, Pushes(q), notices[q].row = i PROVE Pushing(i)'
        BY DEF Pushing, Pushes
      <4>1. q # r
        BY <2>1
      <4> QED
        BY <4>1, <1>a, <1>b DEF Pushing, Pushes
    <3> QED
      BY <3>1, <3>2, <3>3
  <2>2. CASE ~(i \in DOMAIN outbox /\ ~(Pushes(r) /\ i = notices[r].row))
    <3>1. /\ Settled(outbox'[i])
          /\ outbox'[i].status = "pending" =>
               outbox'[i].cut \/ (x # NoNotice /\ x.row = i /\ x.step \in Pushing3)
      BY <2>2 DEF NoticeMoves, RowsKept
    <3>2. x # NoNotice /\ x.row = i /\ x.step \in Pushing3 => Pushing(i)'
      BY <1>a DEF Pushing, Telling, Pushing3
    <3> QED
      BY <3>1, <3>2
  <2> QED
    BY <2>1, <2>2
<1>6. DisabledHasCause'
  BY DEF DisabledHasCause, NoticeInv, NoticeMoves, DevicesKept
<1>7. PushReachesItsUser'
  <2>1. registrant' = registrant
    BY DEF NoticeMoves, DevicesKept
  <2>2. x # NoNotice => \A t \in x.tokens : registrant[t] = x.to \/ t \in x.moved
    BY DEF NoticeMoves
  <2> QED
    BY <2>1, <2>2, <1>a, <1>b, <1>c DEF PushReachesItsUser, NoticeInv
<1> QED
  BY <1>1, <1>2, <1>3, <1>4, <1>5, <1>6, <1>7 DEF NoticeInv

(* Each step of a notice is such a move. *)
LEMMA RestTyped ==
  ASSUME NEW call \in Notice
  PROVE  /\ Rest(call) \in {NoNotice} \cup Notice
         /\ Rest(call) # NoNotice =>
              /\ Rest(call).step = "next" /\ Rest(call).tokens = {} /\ Rest(call).invalid = {}
              /\ ~Rest(call).sent
              /\ Rest(call).news = call.news /\ Rest(call).bookingIds = call.bookingIds
              /\ Rest(call).businessId = call.businessId /\ Rest(call).todo = call.todo
BY NoticeReal DEF Rest, Notice, NoticeStep

(* The same devices with the same excuses *)
LEMMA SameDevices ==
  ASSUME NoticeInv, devices' = devices, registrant' = registrant, excuse' = excuse
  PROVE  DevicesKept
BY DEF NoticeInv, NotificationsTypeOK, DevicesFollow, DevicesKept

LEMMA TellingTyped ==
  ASSUME NoticeInv, NEW r \in Requests, Telling(r)
  PROVE  notices[r] \in Notice /\ NoticeSound(notices[r])
BY DEF NoticeInv, NotificationsTypeOK, NoticesSound, Telling

(* A notice that is not about a push leaves the outbox alone. *)
LEMMA QuietMove ==
  ASSUME NoticeInv, NEW r \in Requests, ~Pushes(r), NEW x \in {NoNotice} \cup Notice,
         notices' = [notices EXCEPT ![r] = x],
         inbox' \subseteq InboxMessage, calls' \in 0..MaxCalls,
         UNCHANGED <<devices, outbox, registrant, excuse>>,
         x # NoNotice =>
           /\ x.step \in {"lookup", "next", "devices"} /\ x.tokens = {} /\ x.invalid = {} /\ ~x.sent
           /\ x.step = "devices" => x.to \in Users
  PROVE  NoticeMoves(r, x)
<1>1. DevicesKept
  BY SameDevices
<1>2. RowsKept(r, x)
  BY DEF RowsKept, NoticeInv, NotificationsTypeOK, Pushing3
<1>3. x # NoNotice => NoticeSound(x)'
  BY DEF NoticeSound
<1> QED
  BY <1>1, <1>2, <1>3 DEF NoticeMoves

(* A request begins to tell somebody something. *)
LEMMA NoticeBegins ==
  ASSUME NoticeInv, NEW r \in Requests, ~Telling(r),
         NEW what \in News, NEW b \in Businesses, NEW ids \in SUBSET BookingIds,
         notices' = [notices EXCEPT ![r] = NewNotice(what, b, ids)],
         calls' \in 0..MaxCalls, UNCHANGED <<devices, inbox, outbox, registrant, excuse>>
  PROVE  NoticeInv'
<1>1. NewNotice(what, b, ids) \in Notice
  BY DEF NewNotice, Notice, NoticeStep
<1>2. inbox' \subseteq InboxMessage
  BY DEF NoticeInv, NotificationsTypeOK
<1>3. /\ NewNotice(what, b, ids).step = "lookup" /\ NewNotice(what, b, ids).tokens = {}
      /\ NewNotice(what, b, ids).invalid = {} /\ ~NewNotice(what, b, ids).sent
  BY DEF NewNotice
<1>4. ~Pushes(r)
  BY DEF Pushes
<1>5. PICK x \in Notice : x = NewNotice(what, b, ids)
  BY <1>1
<1>6. NoticeMoves(r, x)
  BY <1>2, <1>3, <1>4, <1>5, QuietMove
<1> QED
  BY <1>6, MoveKeeps

(* Nothing about the notices changes. *)
LEMMA NoticesStay ==
  ASSUME NoticeInv, calls' \in 0..MaxCalls, UNCHANGED <<devices, inbox, outbox, notices, registrant, excuse>>
  PROVE  NoticeInv'
BY DEF NoticeInv, NotificationsTypeOK, NoticesSound, NoticeSound, RowTells, OwnRow, Pushes, Telling,
       DevicesFollow, OutboxTruthful, Pushing, DisabledHasCause, PushReachesItsUser

LEMMA CallsTyped == NoticeInv => calls \in 0..MaxCalls
BY DEF NoticeInv, NotificationsTypeOK

LEMMA LookUpMoves ==
  ASSUME NoticeInv, NEW r \in Requests, At(r, "lookup"), NEW found \in SUBSET Delivery,
         notices' = [notices EXCEPT ![r] = Rest([@ EXCEPT !.todo = found])],
         UNCHANGED <<calls, devices, inbox, outbox, registrant, excuse>>
  PROVE  NoticeInv'
<1>1. notices[r] \in Notice /\ notices[r].step = "lookup" /\ notices \in [Requests -> {NoNotice} \cup Notice]
  BY TellingTyped DEF At, NoticeInv, NotificationsTypeOK
<1>2. PICK call : call = [notices[r] EXCEPT !.todo = found]
  OBVIOUS
<1>3. call \in Notice
  BY <1>1, <1>2 DEF Notice
<1>4. PICK x : x = Rest(call)
  OBVIOUS
<1>5. /\ x \in {NoNotice} \cup Notice
      /\ x # NoNotice => x.step = "next" /\ x.tokens = {} /\ x.invalid = {} /\ ~x.sent
  BY <1>3, <1>4, RestTyped
<1>6. notices' = [notices EXCEPT ![r] = x]
  BY <1>1, <1>2, <1>4
<1>7. inbox' \subseteq InboxMessage /\ calls' \in 0..MaxCalls
  BY DEF NoticeInv, NotificationsTypeOK
<1>8. ~Pushes(r)
  BY <1>1 DEF Pushes
<1>9. NoticeMoves(r, x)
  BY <1>5, <1>6, <1>7, <1>8, QuietMove
<1> QED
  BY <1>9, MoveKeeps

LEMMA DeliverMoves ==
  ASSUME NoticeInv, NEW r \in Requests, Deliver(r)
  PROVE  NoticeInv'
<1>1. notices[r] \in Notice /\ notices[r].step = "next" /\ notices \in [Requests -> {NoNotice} \cup Notice]
      /\ NoticeSound(notices[r])
  BY TellingTyped DEF Deliver, At, NoticeInv, NotificationsTypeOK
<1>2. PICK d \in notices[r].todo :
       /\ inbox' = inbox \cup
            {[to |-> d.to, bookingId |-> d.bookingId, news |-> d.news, status |-> "unread"]}
       /\ notices' = [notices EXCEPT ![r].step = "devices", ![r].to = d.to,
                                     ![r].todo = @ \ {d}]
  BY DEF Deliver
<1>3. d \in Delivery
  BY <1>1 DEF Notice
<1>4. inbox' \subseteq InboxMessage
  BY <1>2, <1>3 DEF NoticeInv, NotificationsTypeOK, Delivery, InboxMessage
<1>5. PICK x : x = [notices[r] EXCEPT !.step = "devices", !.to = d.to, !.todo = @ \ {d}]
  OBVIOUS
<1>6. /\ x \in Notice /\ x.step = "devices" /\ x.to \in Users
      /\ x.tokens = {} /\ x.invalid = {} /\ ~x.sent
  BY <1>1, <1>3, <1>5 DEF Notice, NoticeStep, Delivery, NoticeSound
<1>7. notices' = [notices EXCEPT ![r] = x]
  BY <1>1, <1>2, <1>5
<1>8. ~Pushes(r)
  BY <1>1 DEF Pushes
<1>9. NoticeMoves(r, x)
  BY <1>4, <1>6, <1>7, <1>8, CallsTyped, QuietMove DEF Deliver
<1> QED
  BY <1>9, MoveKeeps

LEMMA MuteMoves ==
  ASSUME NoticeInv, NEW r \in Requests, Mute(r)
  PROVE  NoticeInv'
<1>1. notices[r] \in Notice /\ notices[r].step = "next" /\ notices \in [Requests -> {NoNotice} \cup Notice]
  BY TellingTyped DEF Mute, At, NoticeInv, NotificationsTypeOK
<1>2. PICK d \in notices[r].todo :
       notices' = [notices EXCEPT ![r] = Rest([notices[r] EXCEPT !.todo = @ \ {d}])]
  BY DEF Mute
<1>3. PICK call : call = [notices[r] EXCEPT !.todo = @ \ {d}]
  OBVIOUS
<1>4. call \in Notice
  BY <1>1, <1>3 DEF Notice
<1>5. PICK x : x = Rest(call)
  OBVIOUS
<1>6. /\ x \in {NoNotice} \cup Notice
      /\ x # NoNotice => x.step = "next" /\ x.tokens = {} /\ x.invalid = {} /\ ~x.sent
  BY <1>4, <1>5, RestTyped
<1>7. notices' = [notices EXCEPT ![r] = x]
  BY <1>2, <1>3, <1>5
<1>8. ~Pushes(r) /\ inbox' \subseteq InboxMessage
  BY <1>1 DEF Pushes, Mute, NoticeInv, NotificationsTypeOK
<1>9. NoticeMoves(r, x)
  BY <1>6, <1>7, <1>8, CallsTyped, QuietMove DEF Mute
<1> QED
  BY <1>9, MoveKeeps

(* A step that writes the row of its push, and one that writes none *)
LEMMA RowSet ==
  ASSUME NoticeInv, NEW r \in Requests, Pushes(r), NEW x, NEW row \in OutboxRow,
         SetRow(r, row), Settled(row),
         row.status = "pending" =>
           row.cut \/ (x # NoNotice /\ x.row = notices[r].row /\ x.step \in Pushing3),
         x # NoNotice /\ x.step \in Pushing3 => x.row = notices[r].row
  PROVE  RowsKept(r, x) /\ outbox'[notices[r].row] = row
<1>1. outbox \in Seq(OutboxRow) /\ notices[r].row \in DOMAIN outbox
  BY RowOf DEF NoticeInv, NotificationsTypeOK
<1>2. DOMAIN outbox = 1..Len(outbox) /\ notices[r].row \in 1..Len(outbox)
  BY <1>1
<1>2a. outbox' = [outbox EXCEPT ![notices[r].row] = row]
  BY DEF SetRow
<1>3. /\ outbox' \in Seq(OutboxRow) /\ Len(outbox') = Len(outbox)
      /\ \A j \in 1..Len(outbox) : outbox'[j] = IF j = notices[r].row THEN row ELSE outbox[j]
  BY <1>1, <1>2, <1>2a, ExceptSeq
<1>4. DOMAIN outbox' = DOMAIN outbox
  BY <1>2, <1>3
<1> QED
  BY <1>1, <1>2, <1>3, <1>4 DEF RowsKept

LEMMA RowLeft ==
  ASSUME NoticeInv, NEW r \in Requests, Pushes(r), NEW x, UNCHANGED outbox,
         x # NoNotice, x.row = notices[r].row, x.step \in Pushing3
  PROVE  RowsKept(r, x)
<1>1. notices[r] \in Notice /\ notices[r].row \in DOMAIN outbox /\ outbox \in Seq(OutboxRow)
  BY RowOf DEF NoticeInv, NotificationsTypeOK
<1>2. Settled(outbox[notices[r].row])
  BY <1>1 DEF NoticeInv, OutboxTruthful, Settled
<1> QED
  BY <1>1, <1>2 DEF RowsKept

(* A push at hand: its row, which is pending, and what is known of it *)
LEMMA PushTyped ==
  ASSUME NoticeInv, NEW r \in Requests, NEW step \in {"push", "send", "catch"}, At(r, step)
  PROVE  /\ notices[r] \in Notice /\ notices[r].step = step /\ notices[r] # NoNotice /\ Pushes(r)
         /\ notices \in [Requests -> {NoNotice} \cup Notice]
         /\ NoticeSound(notices[r])
         /\ Current(r) \in OutboxRow /\ RowTells(notices[r], Current(r))
         /\ notices[r].to \in Users /\ notices[r].tokens \subseteq Tokens
         /\ notices[r].invalid \subseteq Tokens
         /\ inbox \subseteq InboxMessage /\ calls \in 0..MaxCalls
<1>1. /\ Telling(r) /\ notices[r].step = step /\ notices[r] # NoNotice /\ Pushes(r)
  BY DEF At, Pushes, Telling
<1>2. notices[r] \in Notice /\ NoticeSound(notices[r]) /\ notices[r].row \in DOMAIN outbox
  BY <1>1, RowOf, TellingTyped
<1>3. outbox \in Seq(OutboxRow) /\ notices \in [Requests -> {NoNotice} \cup Notice]
      /\ inbox \subseteq InboxMessage /\ calls \in 0..MaxCalls
  BY DEF NoticeInv, NotificationsTypeOK
<1>4. Current(r) \in OutboxRow
  BY <1>2, <1>3, ElementOfSeq DEF Current
<1>5. RowTells(notices[r], Current(r)) /\ notices[r].to \in Users
  BY <1>1, <1>2 DEF NoticeSound, Current
<1>6. notices[r].tokens \subseteq Tokens /\ notices[r].invalid \subseteq Tokens
  BY <1>2 DEF Notice
<1> QED
  BY <1>1, <1>2, <1>3, <1>4, <1>5, <1>6

(* A push that ends leaves the rest of the notice. *)
LEMMA PushEnds ==
  ASSUME NoticeInv, NEW r \in Requests, NEW step \in {"push", "send", "catch"}, At(r, step),
         NEW row \in OutboxRow, Settled(row), row.status # "pending",
         SetRow(r, row), Proceed(r),
         UNCHANGED <<devices, inbox, calls, registrant, excuse>>
  PROVE  NoticeInv'
<1>1. notices[r] \in Notice /\ Pushes(r) /\ notices \in [Requests -> {NoNotice} \cup Notice]
      /\ inbox \subseteq InboxMessage /\ calls \in 0..MaxCalls
  BY PushTyped
<1>2. PICK x : x = Rest(notices[r])
  OBVIOUS
<1>3. /\ x \in {NoNotice} \cup Notice
      /\ x # NoNotice => x.step = "next" /\ x.tokens = {} /\ x.invalid = {} /\ ~x.sent
  BY <1>1, <1>2, RestTyped
<1>4. notices' = [notices EXCEPT ![r] = x]
  BY <1>1, <1>2 DEF Proceed
<1>5. RowsKept(r, x)
  BY <1>1, <1>3, RowSet DEF Pushing3
<1>6. DevicesKept
  BY SameDevices
<1>7. x # NoNotice => NoticeSound(x)'
  BY <1>3 DEF NoticeSound
<1>8. NoticeMoves(r, x)
  BY <1>1, <1>3, <1>4, <1>5, <1>6, <1>7 DEF NoticeMoves
<1> QED
  BY <1>8, MoveKeeps

LEMMA SkipPushMoves ==
  ASSUME NoticeInv, NEW r \in Requests, SkipPush(r)
  PROVE  NoticeInv'
<1>1. At(r, "push") /\ Current(r) \in OutboxRow /\ RowTells(notices[r], Current(r)) /\ notices[r].step = "push"
  BY PushTyped DEF SkipPush
<1>2. PICK row : row = [Current(r) EXCEPT !.status = "skipped"]
  OBVIOUS
<1>3. row \in OutboxRow /\ Settled(row) /\ row.status # "pending"
  BY <1>1, <1>2 DEF OutboxRow, RowTells, Settled
<1> QED
  BY <1>1, <1>2, <1>3, PushEnds DEF SkipPush

LEMMA ReportMoves ==
  ASSUME NoticeInv, NEW r \in Requests, Report(r)
  PROVE  NoticeInv'
<1>1. At(r, "send") /\ Current(r) \in OutboxRow /\ RowTells(notices[r], Current(r)) /\ notices[r].step = "send"
  BY PushTyped DEF Report
<1>2. PICK row : row = [Current(r) EXCEPT !.status = IF notices[r].sent THEN "sent" ELSE "failed"]
  OBVIOUS
<1>3. row \in OutboxRow /\ Settled(row) /\ row.status # "pending"
  BY <1>1, <1>2 DEF OutboxRow, RowTells, Settled
<1> QED
  BY <1>1, <1>2, <1>3, PushEnds DEF Report

LEMMA CatchPushMoves ==
  ASSUME NoticeInv, NEW r \in Requests, CatchPush(r)
  PROVE  NoticeInv'
<1>1. At(r, "catch") /\ Current(r) \in OutboxRow /\ RowTells(notices[r], Current(r)) /\ notices[r].step = "catch"
  BY PushTyped DEF CatchPush
<1>2. PICK row : row = [Current(r) EXCEPT !.status = "failed"]
  OBVIOUS
<1>3. row \in OutboxRow /\ Settled(row) /\ row.status # "pending"
  BY <1>1, <1>2 DEF OutboxRow, RowTells, Settled
<1> QED
  BY <1>1, <1>2, <1>3, PushEnds DEF CatchPush

LEMMA AuthorizeMoves ==
  ASSUME NoticeInv, NEW r \in Requests, Authorize(r)
  PROVE  NoticeInv'
<1>1. /\ notices[r] \in Notice /\ notices[r].step = "push" /\ notices[r] # NoNotice /\ Pushes(r)
      /\ notices \in [Requests -> {NoNotice} \cup Notice]
      /\ NoticeSound(notices[r]) /\ RowTells(notices[r], Current(r))
      /\ inbox \subseteq InboxMessage /\ calls \in 0..MaxCalls
  BY PushTyped DEF Authorize
<1>2. PICK step \in {"send", "catch"} : GoTo(r, step)
  BY DEF Authorize
<1>3. PICK x : x = [notices[r] EXCEPT !.step = step]
  OBVIOUS
<1>4. /\ x \in Notice /\ x.step = step /\ x.row = notices[r].row /\ x.to = notices[r].to
      /\ x.sent = notices[r].sent /\ x.invalid = notices[r].invalid /\ x.moved = notices[r].moved
      /\ x.tokens = notices[r].tokens
  BY <1>1, <1>3 DEF Notice, NoticeStep
<1>5. notices' = [notices EXCEPT ![r] = x]
  BY <1>1, <1>2, <1>3 DEF GoTo
<1>6. RowsKept(r, x)
  BY <1>1, <1>4, RowLeft, NoticeReal DEF Pushing3, Authorize
<1>7. DevicesKept
  BY SameDevices DEF Authorize
<1>8. NoticeSound(x)'
  BY <1>1, <1>4 DEF NoticeSound, RowTells, Current, Authorize
<1>9. \A t \in x.tokens : registrant[t] = x.to \/ t \in x.moved
  BY <1>1, <1>4 DEF NoticeInv, PushReachesItsUser, Telling
<1>10. NoticeMoves(r, x)
  BY <1>1, <1>4, <1>5, <1>6, <1>7, <1>8, <1>9 DEF NoticeMoves, Authorize
<1> QED
  BY <1>10, MoveKeeps

LEMMA PushThrowsMoves ==
  ASSUME NoticeInv, NEW r \in Requests, PushThrows(r)
  PROVE  NoticeInv'
<1>1. /\ notices[r] \in Notice /\ notices[r].step = "send" /\ notices[r] # NoNotice /\ Pushes(r)
      /\ notices \in [Requests -> {NoNotice} \cup Notice]
      /\ NoticeSound(notices[r]) /\ RowTells(notices[r], Current(r)) /\ Current(r) \in OutboxRow
      /\ inbox \subseteq InboxMessage /\ calls \in 0..MaxCalls
  BY PushTyped DEF PushThrows
<1>2. PICK row : row = [Current(r) EXCEPT !.unsure = TRUE]
  OBVIOUS
<1>3. row \in OutboxRow /\ Settled(row) /\ row.status = "pending" /\ row.unsure
  BY <1>1, <1>2 DEF OutboxRow, RowTells, Settled
<1>4. PICK x : x = [notices[r] EXCEPT !.step = "catch"]
  OBVIOUS
<1>5. /\ x \in Notice /\ x.step = "catch" /\ x.row = notices[r].row /\ x.to = notices[r].to
      /\ x.sent = notices[r].sent /\ x.invalid = notices[r].invalid /\ x.moved = notices[r].moved
      /\ x.tokens = notices[r].tokens
  BY <1>1, <1>4 DEF Notice, NoticeStep
<1>6. notices' = [notices EXCEPT ![r] = x]
  BY <1>1, <1>4 DEF GoTo, PushThrows
<1>7. RowsKept(r, x) /\ outbox'[notices[r].row] = row
  BY <1>1, <1>2, <1>3, <1>5, RowSet, NoticeReal DEF Pushing3, PushThrows
<1>8. DevicesKept
  BY SameDevices DEF PushThrows
<1>9. NoticeSound(x)'
  BY <1>1, <1>3, <1>5, <1>7 DEF NoticeSound, RowTells, PushThrows
<1>10. \A t \in x.tokens : registrant[t] = x.to \/ t \in x.moved
  BY <1>1, <1>5 DEF NoticeInv, PushReachesItsUser, Telling
<1>11. NoticeMoves(r, x)
  BY <1>1, <1>5, <1>6, <1>7, <1>8, <1>9, <1>10 DEF NoticeMoves, PushThrows
<1> QED
  BY <1>11, MoveKeeps

LEMMA GiveUpMoves ==
  ASSUME NoticeInv, NEW r \in Requests, GiveUp(r)
  PROVE  NoticeInv'
<1>0. /\ notices' = [notices EXCEPT ![r] = NoNotice]
      /\ UNCHANGED <<devices, inbox, calls, registrant, excuse>> /\ Telling(r)
  BY DEF GiveUp
<1>1. CASE Pushes(r)
  <2>1. PICK row : row = [Current(r) EXCEPT !.cut = TRUE]
    OBVIOUS
  <2>2. Current(r) \in OutboxRow /\ RowTells(notices[r], Current(r))
    BY <1>1, PushTyped DEF Pushes, At
  <2>3. row \in OutboxRow /\ row.cut /\ row.status = "pending" /\ Settled(row)
    BY <2>1, <2>2 DEF OutboxRow, RowTells, Settled
  <2>4. SetRow(r, row)
    BY <1>1, <2>1 DEF GiveUp, Pushes
  <2>5. PICK x : x = NoNotice
    OBVIOUS
  <2>6. RowsKept(r, x)
    BY <1>1, <2>3, <2>4, <2>5, RowSet
  <2>7. DevicesKept
    BY <1>0, SameDevices
  <2>8. NoticeMoves(r, x)
    BY <1>0, <2>5, <2>6, <2>7 DEF NoticeMoves, NoticeInv, NotificationsTypeOK
  <2> QED
    BY <2>8, MoveKeeps
<1>2. CASE ~Pushes(r)
  <2>1. PICK x : x = NoNotice
    OBVIOUS
  <2>2. UNCHANGED outbox
    BY <1>0, <1>2 DEF GiveUp, Pushes
  <2>3. inbox' \subseteq InboxMessage /\ calls' \in 0..MaxCalls
    BY <1>0 DEF NoticeInv, NotificationsTypeOK
  <2>4. NoticeMoves(r, x)
    BY <1>0, <1>2, <2>1, <2>2, <2>3, QuietMove
  <2> QED
    BY <2>4, MoveKeeps
<1> QED
  BY <1>1, <1>2

LEMMA FindDevicesMoves ==
  ASSUME NoticeInv, NEW r \in Requests, FindDevices(r)
  PROVE  NoticeInv'
<1>1. /\ notices[r] \in Notice /\ notices[r].step = "devices" /\ notices[r] # NoNotice /\ ~Pushes(r)
      /\ notices \in [Requests -> {NoNotice} \cup Notice]
      /\ NoticeSound(notices[r]) /\ notices[r].to \in Users
      /\ inbox \subseteq InboxMessage /\ calls \in 0..MaxCalls
      /\ outbox \in Seq(OutboxRow) /\ registrant \in [Tokens -> Users]
  BY TellingTyped DEF FindDevices, At, Telling, Pushes, NoticeSound, NoticeInv, NotificationsTypeOK
<1>2. PICK found : found = {t \in Tokens : devices[t].user = notices[r].to /\ devices[t].enabled}
  OBVIOUS
<1>3. PICK row : row =
        [to |-> notices[r].to, status |-> IF found = {} THEN "skipped" ELSE "pending",
         reached |-> FALSE, unsure |-> FALSE, cut |-> FALSE]
  OBVIOUS
<1>4. /\ row \in OutboxRow /\ Settled(row) /\ ~row.reached
      /\ row.status = IF found = {} THEN "skipped" ELSE "pending"
  BY <1>1, <1>3 DEF OutboxRow, Settled
<1>5. outbox' = Append(outbox, row)
  BY <1>2, <1>3 DEF FindDevices
<1>6. /\ outbox' \in Seq(OutboxRow) /\ Len(outbox') = Len(outbox) + 1
      /\ \A i \in 1..Len(outbox) : outbox'[i] = outbox[i]
      /\ outbox'[Len(outbox) + 1] = row
  BY <1>1, <1>4, <1>5, AppendProperties
<1>7. /\ DOMAIN outbox = 1..Len(outbox) /\ DOMAIN outbox' = 1..(Len(outbox) + 1)
      /\ Len(outbox) \in Nat
  BY <1>1, <1>6
<1>8. DevicesKept
  BY SameDevices DEF FindDevices
<1>9. CASE found = {}
  <2>1. PICK x : x = Rest(notices[r])
    OBVIOUS
  <2>2. /\ x \in {NoNotice} \cup Notice
        /\ x # NoNotice => x.step = "next" /\ x.tokens = {} /\ x.invalid = {} /\ ~x.sent
    BY <1>1, <2>1, RestTyped
  <2>3. notices' = [notices EXCEPT ![r] = x]
    BY <1>1, <1>2, <1>9, <2>1 DEF FindDevices
  <2>4. RowsKept(r, x)
    BY <1>1, <1>4, <1>6, <1>7, <1>9, <2>2 DEF RowsKept, Pushing3
  <2>5. x # NoNotice => NoticeSound(x)'
    BY <2>2 DEF NoticeSound
  <2>6. NoticeMoves(r, x)
    BY <1>1, <1>8, <2>2, <2>3, <2>4, <2>5 DEF NoticeMoves, FindDevices
  <2> QED
    BY <2>6, MoveKeeps
<1>10. CASE found # {}
  <2>1. PICK x : x = [notices[r] EXCEPT !.step = "push", !.row = Len(outbox'), !.tokens = found]
    OBVIOUS
  <2>0. found \in SUBSET Tokens /\ Len(outbox') \in Nat /\ Len(outbox') = Len(outbox) + 1
    BY <1>2, <1>6, <1>7
  <2>2. /\ x \in Notice /\ x.step = "push" /\ x.row = Len(outbox) + 1 /\ x.tokens = found
        /\ x.to = notices[r].to /\ x.invalid = notices[r].invalid /\ x.sent = notices[r].sent
    BY <1>1, <2>0, <2>1 DEF Notice, NoticeStep
  <2>3. notices' = [notices EXCEPT ![r] = x]
    BY <1>1, <1>2, <1>10, <2>1 DEF FindDevices
  <2>4. RowsKept(r, x)
    BY <1>1, <1>4, <1>6, <1>7, <2>2, NoticeReal DEF RowsKept, Pushing3
  <2>5. outbox'[x.row].status = "pending" /\ ~outbox'[x.row].reached
    BY <1>4, <1>6, <1>10, <2>2
  <2>6. NoticeSound(x)'
    BY <1>1, <2>2, <2>5 DEF NoticeSound, RowTells
  <2>7. \A t \in x.tokens : registrant[t] = x.to
    BY <1>2, <2>2 DEF NoticeInv, DevicesFollow
  <2>8. NoticeMoves(r, x)
    BY <1>1, <1>8, <2>2, <2>3, <2>4, <2>6, <2>7 DEF NoticeMoves, FindDevices
  <2> QED
    BY <2>8, MoveKeeps
<1> QED
  BY <1>9, <1>10

LEMMA SendOneMoves ==
  ASSUME NoticeInv, NEW r \in Requests, SendOne(r)
  PROVE  NoticeInv'
<1>1. /\ notices[r] \in Notice /\ notices[r].step = "send" /\ notices[r] # NoNotice /\ Pushes(r)
      /\ notices \in [Requests -> {NoNotice} \cup Notice]
      /\ NoticeSound(notices[r]) /\ RowTells(notices[r], Current(r)) /\ Current(r) \in OutboxRow
      /\ notices[r].tokens \subseteq Tokens /\ notices[r].invalid \subseteq Tokens
      /\ inbox \subseteq InboxMessage /\ calls \in 0..MaxCalls
  BY PushTyped DEF SendOne
<1>2. PICK t \in notices[r].tokens, answer \in Answers :
       /\ notices' = [notices EXCEPT
            ![r].tokens = @ \ {t},
            ![r].sent = @ \/ answer = "accepted",
            ![r].invalid = IF answer = "refused" THEN @ \cup {t} ELSE @]
       /\ SetRow(r, [Current(r) EXCEPT
            !.reached = @ \/ answer \in {"accepted", "lost"},
            !.unsure = @ \/ answer = "lost"])
       /\ excuse' = IF answer = "refused" /\ t \notin notices[r].moved
                    THEN [excuse EXCEPT ![t] = "refused"] ELSE excuse
  BY DEF SendOne
<1>3. PICK row : row = [Current(r) EXCEPT
            !.reached = @ \/ answer \in {"accepted", "lost"},
            !.unsure = @ \/ answer = "lost"]
  OBVIOUS
<1>4. /\ row \in OutboxRow /\ row.status = "pending" /\ Settled(row)
      /\ row.reached <=> Current(r).reached \/ answer \in {"accepted", "lost"}
      /\ row.unsure <=> Current(r).unsure \/ answer = "lost"
  BY <1>1, <1>3 DEF OutboxRow, RowTells, Settled
<1>5. PICK x : x = [notices[r] EXCEPT
            !.tokens = @ \ {t},
            !.sent = @ \/ answer = "accepted",
            !.invalid = IF answer = "refused" THEN @ \cup {t} ELSE @]
  OBVIOUS
<1>6. /\ x \in Notice /\ x.step = "send" /\ x.row = notices[r].row /\ x.to = notices[r].to
      /\ x.sent <=> notices[r].sent \/ answer = "accepted"
      /\ x.tokens = notices[r].tokens \ {t} /\ x.moved = notices[r].moved
      /\ x.invalid = IF answer = "refused" THEN notices[r].invalid \cup {t} ELSE notices[r].invalid
  <2>1. PICK s \in BOOLEAN : s <=> notices[r].sent \/ answer = "accepted"
    OBVIOUS
  <2>2. PICK i \in SUBSET Tokens :
          i = IF answer = "refused" THEN notices[r].invalid \cup {t} ELSE notices[r].invalid
    BY <1>1
  <2>3. notices[r].sent \in BOOLEAN /\ notices[r].tokens \ {t} \in SUBSET Tokens
    BY <1>1 DEF Notice
  <2>4. x = [notices[r] EXCEPT !.tokens = notices[r].tokens \ {t}, !.sent = s, !.invalid = i]
    BY <1>1, <1>5, <2>1, <2>2, <2>3 DEF Notice
  <2> QED
    BY <1>1, <2>1, <2>2, <2>3, <2>4 DEF Notice, NoticeStep
<1>7. notices' = [notices EXCEPT ![r] = x]
  BY <1>1, <1>2, <1>5
<1>8. RowsKept(r, x) /\ outbox'[notices[r].row] = row
  BY <1>1, <1>2, <1>3, <1>4, <1>6, RowSet, NoticeReal DEF Pushing3
<1>9. /\ excuse' \in [Tokens -> {"none", "unregistered", "refused", "overtaken"}]
      /\ \A u \in Tokens : excuse[u] # "none" => excuse'[u] # "none"
      /\ answer = "refused" /\ t \notin notices[r].moved => excuse'[t] # "none"
  BY <1>1, <1>2 DEF NoticeInv, NotificationsTypeOK
<1>10. DevicesKept
  BY <1>9 DEF DevicesKept, SendOne, NoticeInv, DevicesFollow, NotificationsTypeOK
<1>11. NoticeSound(x)'
  <2>1. RowTells(x, row)
    BY <1>1, <1>4, <1>6 DEF RowTells, NoticeSound
  <2>2. \A u \in x.invalid : u \in x.moved \/ excuse'[u] # "none"
    <3>1. \A u \in notices[r].invalid : u \in notices[r].moved \/ excuse'[u] # "none"
      BY <1>1, <1>9 DEF NoticeSound
    <3>2. CASE answer = "refused"
      BY <1>6, <1>9, <3>1, <3>2
    <3>3. CASE answer # "refused"
      BY <1>6, <3>1, <3>3
    <3> QED
      BY <3>2, <3>3
  <2> QED
    BY <1>1, <1>6, <1>8, <2>1, <2>2 DEF NoticeSound, RowTells
<1>12. \A u \in x.tokens : registrant[u] = x.to \/ u \in x.moved
  BY <1>1, <1>6 DEF NoticeInv, PushReachesItsUser, Telling
<1>13. NoticeMoves(r, x)
  BY <1>1, <1>6, <1>7, <1>8, <1>10, <1>11, <1>12 DEF NoticeMoves, SendOne
<1> QED
  BY <1>13, MoveKeeps

LEMMA DisableInvalidMoves ==
  ASSUME NoticeInv, NEW r \in Requests, DisableInvalid(r)
  PROVE  NoticeInv'
<1>1. /\ notices[r] \in Notice /\ notices[r].step = "send" /\ notices[r] # NoNotice /\ Pushes(r)
      /\ notices \in [Requests -> {NoNotice} \cup Notice]
      /\ NoticeSound(notices[r]) /\ RowTells(notices[r], Current(r))
      /\ notices[r].invalid \subseteq Tokens
      /\ inbox \subseteq InboxMessage /\ calls \in 0..MaxCalls
  BY PushTyped DEF DisableInvalid
<1>2. PICK x : x = [notices[r] EXCEPT !.invalid = {}]
  OBVIOUS
<1>3. /\ x \in Notice /\ x.step = "send" /\ x.row = notices[r].row /\ x.to = notices[r].to
      /\ x.sent = notices[r].sent /\ x.invalid = {} /\ x.moved = notices[r].moved
      /\ x.tokens = notices[r].tokens
  BY <1>1, <1>2 DEF Notice, NoticeStep
<1>4. notices' = [notices EXCEPT ![r] = x]
  BY <1>1, <1>2 DEF DisableInvalid
<1>5. RowsKept(r, x)
  BY <1>1, <1>3, RowLeft, NoticeReal DEF Pushing3, DisableInvalid
<1>6. DevicesKept
  <2>1. \A t \in notices[r].invalid : excuse[t] # "none" \/ t \in notices[r].moved
    BY <1>1 DEF NoticeSound
  <2>2. /\ devices' = [t \in Tokens |-> IF t \in notices[r].invalid
                   THEN [devices[t] EXCEPT !.enabled = FALSE] ELSE devices[t]]
        /\ excuse' = [t \in Tokens |-> IF t \in notices[r].invalid \cap notices[r].moved
                                 THEN "overtaken" ELSE excuse[t]]
        /\ registrant' = registrant
    BY DEF DisableInvalid
  <2>3. devices \in [Tokens -> Device]
        /\ excuse \in [Tokens -> {"none", "unregistered", "refused", "overtaken"}]
    BY DEF NoticeInv, DevicesFollow, NotificationsTypeOK
  <2>4. ASSUME NEW t \in Tokens
        PROVE  /\ devices'[t] \in Device /\ devices'[t].user = devices[t].user
               /\ excuse'[t] \in {"none", "unregistered", "refused", "overtaken"}
               /\ excuse[t] # "none" => excuse'[t] # "none"
               /\ devices'[t].enabled = devices[t].enabled \/ excuse'[t] # "none"
    <3>1. devices[t] \in Device
      BY <2>3
    <3>2. [devices[t] EXCEPT !.enabled = FALSE] \in Device
          /\ [devices[t] EXCEPT !.enabled = FALSE].user = devices[t].user
      BY <3>1 DEF Device
    <3>3. devices'[t] = IF t \in notices[r].invalid
                   THEN [devices[t] EXCEPT !.enabled = FALSE] ELSE devices[t]
      BY <2>2
    <3>4. excuse'[t] = IF t \in notices[r].invalid \cap notices[r].moved THEN "overtaken" ELSE excuse[t]
      BY <2>2
    <3> QED
      BY <3>1, <3>2, <3>3, <3>4, <2>1, <2>3
  <2> QED
    BY <2>2, <2>4 DEF DevicesKept
<1>7. NoticeSound(x)'
  BY <1>1, <1>3 DEF NoticeSound, RowTells, Current, DisableInvalid
<1>8. \A t \in x.tokens : registrant[t] = x.to \/ t \in x.moved
  BY <1>1, <1>3 DEF NoticeInv, PushReachesItsUser, Telling
<1>9. NoticeMoves(r, x)
  BY <1>1, <1>3, <1>4, <1>5, <1>6, <1>7, <1>8 DEF NoticeMoves, DisableInvalid
<1> QED
  BY <1>9, MoveKeeps

(* What the apps and browsers of the users do *)
LEMMA RegisterMoves ==
  ASSUME NoticeInv, NEW u \in Users, NEW t \in Tokens, RegisterDevice(u, t)
  PROVE  NoticeInv'
<1>0. /\ calls' \in 0..MaxCalls
      /\ devices' = [devices EXCEPT ![t] = [user |-> u, enabled |-> TRUE]]
      /\ registrant' = [registrant EXCEPT ![t] = u]
      /\ excuse' = [excuse EXCEPT ![t] = "none"]
      /\ notices' = [r \in Requests |->
           IF Telling(r) /\ t \in notices[r].tokens \cup notices[r].invalid
           THEN [notices[r] EXCEPT !.moved = @ \cup {t}] ELSE notices[r]]
      /\ UNCHANGED <<inbox, outbox>>
  BY CallsTyped DEF RegisterDevice, MarkMoved, Count
<1>1. /\ devices \in [Tokens -> Device] /\ registrant \in [Tokens -> Users]
      /\ excuse \in [Tokens -> {"none", "unregistered", "refused", "overtaken"}]
      /\ notices \in [Requests -> {NoNotice} \cup Notice]
  BY DEF NoticeInv, NotificationsTypeOK, DevicesFollow
<1>2. /\ devices' \in [Tokens -> Device] /\ registrant' \in [Tokens -> Users]
      /\ excuse' \in [Tokens -> {"none", "unregistered", "refused", "overtaken"}]
      /\ \A s \in Tokens : devices'[s].user = registrant'[s]
      /\ \A s \in Tokens \ {t} : devices'[s] = devices[s] /\ excuse'[s] = excuse[s]
                                   /\ registrant'[s] = registrant[s]
      /\ devices'[t].enabled
  BY <1>0, <1>1 DEF Device, NoticeInv, DevicesFollow
<1>3. \A r \in Requests : ~Telling(r) => notices'[r] = NoNotice
  BY <1>0 DEF Telling
<1>4. ASSUME NEW r \in Requests, Telling(r)
      PROVE  /\ notices'[r] \in Notice
             /\ notices'[r].step = notices[r].step /\ notices'[r].row = notices[r].row
             /\ notices'[r].to = notices[r].to /\ notices'[r].sent = notices[r].sent
             /\ notices'[r].tokens = notices[r].tokens /\ notices'[r].invalid = notices[r].invalid
             /\ \A s \in notices[r].moved : s \in notices'[r].moved
             /\ t \in notices[r].tokens \cup notices[r].invalid => t \in notices'[r].moved
             /\ notices'[r].todo = notices[r].todo /\ notices'[r].news = notices[r].news
             /\ notices'[r].bookingIds = notices[r].bookingIds
             /\ notices'[r].businessId = notices[r].businessId
  <2>1. notices[r] \in Notice
    BY <1>4, <1>1 DEF Telling
  <2>2. CASE t \in notices[r].tokens \cup notices[r].invalid
    <3>1. notices'[r] = [notices[r] EXCEPT !.moved = @ \cup {t}]
      BY <1>0, <1>4, <2>2
    <3> QED
      BY <2>1, <3>1 DEF Notice
  <2>3. CASE ~(t \in notices[r].tokens \cup notices[r].invalid)
    <3>1. notices'[r] = notices[r]
      BY <1>0, <2>3
    <3> QED
      BY <2>1, <2>3, <3>1
  <2> QED
    BY <2>2, <2>3
<1>5. \A r \in Requests : Telling(r)' = Telling(r)
  BY <1>3, <1>4, NoticeReal DEF Telling
<1>6. \A r \in Requests : Pushes(r)' = Pushes(r)
  BY <1>4, <1>5 DEF Pushes
<1>7. NotificationsTypeOK'
  <2>1. notices' \in [Requests -> {NoNotice} \cup Notice]
    BY <1>0, <1>3, <1>4
  <2>2. \A r \in Requests : Pushes(r)' => (notices[r].row \in DOMAIN outbox)'
    BY <1>0, <1>4, <1>6, RowOf DEF Pushes
  <2> QED
    BY <1>0, <1>2, <2>1, <2>2 DEF NotificationsTypeOK, NoticeInv, Pushes
<1>8. NoticesSound'
  <2> SUFFICES ASSUME NEW r \in Requests, Telling(r)' PROVE NoticeSound(notices[r])'
    BY DEF NoticesSound
  <2>1. Telling(r) /\ NoticeSound(notices[r])
    BY <1>5, TellingTyped
  <2>2. notices[r].invalid \subseteq Tokens
    BY <2>1, TellingTyped DEF Notice
  <2>3. \A s \in notices'[r].invalid : s \in notices'[r].moved \/ excuse'[s] # "none"
    BY <1>2, <1>4, <2>1, <2>2 DEF NoticeSound
  <2>4. RowTells(notices[r], outbox[notices[r].row]) => RowTells(notices[r], outbox[notices[r].row])'
    BY <1>0, <1>4, <2>1 DEF RowTells
  <2> QED
    BY <1>4, <2>1, <2>3, <2>4 DEF NoticeSound
<1>9. OwnRow'
  BY <1>4, <1>6 DEF OwnRow, NoticeInv, Pushes
<1>10. DevicesFollow'
  BY <1>2 DEF DevicesFollow
<1>11. OutboxTruthful'
  <2>1. \A i : Pushing(i) => Pushing(i)'
    BY <1>4, <1>5 DEF Pushing
  <2> QED
    BY <1>0, <2>1 DEF OutboxTruthful, NoticeInv
<1>12. DisabledHasCause'
  BY <1>2 DEF DisabledHasCause, NoticeInv
<1>13. PushReachesItsUser'
  <2> SUFFICES ASSUME NEW r \in Requests, Telling(r), NEW s \in notices[r].tokens
               PROVE  registrant'[s] = notices'[r].to \/ s \in notices'[r].moved
    BY <1>4, <1>5 DEF PushReachesItsUser
  <2>1. s \in Tokens
    BY TellingTyped DEF Notice
  <2> QED
    BY <1>2, <1>4, <2>1 DEF PushReachesItsUser, NoticeInv
<1> QED
  BY <1>7, <1>8, <1>9, <1>10, <1>11, <1>12, <1>13 DEF NoticeInv

LEMMA UnregisterMoves ==
  ASSUME NoticeInv, NEW u \in Users, NEW ts \in SUBSET Tokens, UnregisterDevice(u, ts)
  PROVE  NoticeInv'
<1>0. /\ calls' \in 0..MaxCalls
      /\ devices' = [t \in Tokens |-> IF t \in ts THEN [devices[t] EXCEPT !.enabled = FALSE]
                                              ELSE devices[t]]
      /\ excuse' = [t \in Tokens |-> IF t \in ts THEN "unregistered" ELSE excuse[t]]
      /\ UNCHANGED <<inbox, outbox, notices, registrant>>
  BY CallsTyped DEF UnregisterDevice, Count
<1>1. /\ devices \in [Tokens -> Device]
      /\ excuse \in [Tokens -> {"none", "unregistered", "refused", "overtaken"}]
  BY DEF NoticeInv, NotificationsTypeOK, DevicesFollow
<1>2. ASSUME NEW t \in Tokens
      PROVE  /\ devices'[t] \in Device /\ devices'[t].user = devices[t].user
             /\ excuse'[t] \in {"none", "unregistered", "refused", "overtaken"}
             /\ excuse[t] # "none" => excuse'[t] # "none"
             /\ devices'[t].enabled = devices[t].enabled \/ excuse'[t] # "none"
  <2>1. devices[t] \in Device /\ excuse[t] \in {"none", "unregistered", "refused", "overtaken"}
    BY <1>1
  <2>2. [devices[t] EXCEPT !.enabled = FALSE] \in Device
        /\ [devices[t] EXCEPT !.enabled = FALSE].user = devices[t].user
    BY <2>1 DEF Device
  <2>3. /\ devices'[t] = IF t \in ts THEN [devices[t] EXCEPT !.enabled = FALSE] ELSE devices[t]
        /\ excuse'[t] = IF t \in ts THEN "unregistered" ELSE excuse[t]
    BY <1>0
  <2> QED
    BY <2>1, <2>2, <2>3
<1>3. /\ devices' \in [Tokens -> Device]
      /\ excuse' \in [Tokens -> {"none", "unregistered", "refused", "overtaken"}]
  BY <1>0, <1>2
<1>4. NotificationsTypeOK'
  BY <1>0, <1>3 DEF NotificationsTypeOK, NoticeInv, Telling
<1>5. NoticesSound'
  <2> SUFFICES ASSUME NEW r \in Requests, Telling(r)
               PROVE  NoticeSound(notices[r])'
    BY <1>0 DEF NoticesSound, Telling
  <2>1. NoticeSound(notices[r]) /\ notices[r].invalid \subseteq Tokens
    BY TellingTyped DEF Notice
  <2>2. \A t \in notices[r].invalid : t \in notices[r].moved \/ excuse'[t] # "none"
    BY <1>2, <2>1 DEF NoticeSound
  <2> QED
    BY <1>0, <2>1, <2>2 DEF NoticeSound, RowTells
<1>6. OwnRow' /\ OutboxTruthful' /\ PushReachesItsUser'
  BY <1>0 DEF OwnRow, OutboxTruthful, PushReachesItsUser, NoticeInv, Pushes, Pushing, Telling
<1>7. DevicesFollow' /\ DisabledHasCause'
  BY <1>0, <1>2, <1>3 DEF DevicesFollow, DisabledHasCause, NoticeInv
<1> QED
  BY <1>4, <1>5, <1>6, <1>7 DEF NoticeInv

LEMMA MarkReadMoves ==
  ASSUME NoticeInv, NEW m \in inbox, MarkRead(m)
  PROVE  NoticeInv' /\ \A x \in inbox' : \E y \in inbox :
           x.to = y.to /\ x.bookingId = y.bookingId /\ x.news = y.news
<1>1. calls' \in 0..MaxCalls /\ UNCHANGED <<devices, outbox, notices, registrant, excuse>>
  BY CallsTyped DEF MarkRead, Count
<1>2. PICK n : n = [m EXCEPT !.status = "read"]
  OBVIOUS
<1>3. m \in InboxMessage /\ inbox \subseteq InboxMessage
  BY DEF NoticeInv, NotificationsTypeOK
<1>4. n \in InboxMessage /\ n.to = m.to /\ n.bookingId = m.bookingId /\ n.news = m.news
  BY <1>2, <1>3 DEF InboxMessage
<1>5. inbox' = (inbox \ {m}) \cup {n}
  BY <1>2 DEF MarkRead
<1>6. inbox' \subseteq InboxMessage
  BY <1>3, <1>4, <1>5
<1>7. NoticeInv'
  BY <1>1, <1>6 DEF NoticeInv, NotificationsTypeOK, NoticesSound, NoticeSound, RowTells, OwnRow,
       Pushes, Telling, DevicesFollow, OutboxTruthful, Pushing, DisabledHasCause, PushReachesItsUser
<1> QED
  BY <1>4, <1>5, <1>7

(* What these steps leave alone of a notice: what it says, of which        *)
(* bookings and to whom it is still to say it.                             *)
Carried(q) ==
  /\ Telling(q)' =>
       /\ Telling(q)
       /\ notices'[q].news = notices[q].news /\ notices'[q].bookingIds = notices[q].bookingIds
       /\ notices'[q].businessId = notices[q].businessId /\ notices'[q].todo = notices[q].todo
       /\ notices'[q].step = "lookup" <=> notices[q].step = "lookup"
  /\ Telling(q) /\ ~Telling(q)' => notices[q].step # "lookup" /\ notices[q].todo = {}

(* A step in which only pushes, devices and read marks change *)
PushOnly ==
  /\ \A q \in Requests : Carried(q)
  /\ \A x \in inbox' : \E y \in inbox :
       x.to = y.to /\ x.bookingId = y.bookingId /\ x.news = y.news

LEMMA CarriedBy ==
  ASSUME NoticeInv, NEW r \in Requests, Telling(r), notices[r].step # "lookup",
         NEW x \in {NoNotice} \cup Notice,
         notices' = [notices EXCEPT ![r] = x],
         x = NoNotice => notices[r].todo = {},
         x # NoNotice =>
           /\ x.news = notices[r].news /\ x.bookingIds = notices[r].bookingIds
           /\ x.businessId = notices[r].businessId /\ x.todo = notices[r].todo
           /\ x.step # "lookup"
  PROVE  \A q \in Requests : Carried(q)
<1>1. notices'[r] = x /\ \A q \in Requests \ {r} : notices'[q] = notices[q]
  BY DEF NoticeInv, NotificationsTypeOK
<1> QED
  BY <1>1 DEF Carried, Telling

LEMMA PushCarries ==
  ASSUME NoticeInv, NEW r \in Requests, PushStep(r) \/ PushThrows(r)
  PROVE  \A q \in Requests : Carried(q)
<1>0. /\ Telling(r) /\ notices[r] \in Notice /\ notices[r].step # "lookup"
      /\ notices \in [Requests -> {NoNotice} \cup Notice]
  BY TellingTyped DEF PushStep, FindDevices, SkipPush, Authorize, SendOne, DisableInvalid, Report,
       CatchPush, PushThrows, At, NoticeInv, NotificationsTypeOK
<1>1. CASE Proceed(r)
  <2>1. PICK x : x = Rest(notices[r])
    OBVIOUS
  <2>2. notices' = [notices EXCEPT ![r] = x]
    BY <1>0, <1>1, <2>1 DEF Proceed
  <2>3. x = NoNotice => notices[r].todo = {}
    BY <2>1, <1>0, NoticeReal DEF Rest, Notice, NoNotice
  <2>4. /\ x \in {NoNotice} \cup Notice
        /\ x # NoNotice =>
           /\ x.news = notices[r].news /\ x.bookingIds = notices[r].bookingIds
           /\ x.businessId = notices[r].businessId /\ x.todo = notices[r].todo
           /\ x.step # "lookup"
    BY <1>0, <2>1, RestTyped
  <2> QED
    BY <1>0, <2>2, <2>3, <2>4, CarriedBy
<1>2. ASSUME NEW step \in {"send", "catch"}, GoTo(r, step) PROVE \A q \in Requests : Carried(q)
  <2>1. PICK x : x = [notices[r] EXCEPT !.step = step]
    OBVIOUS
  <2>2. notices' = [notices EXCEPT ![r] = x]
    BY <1>0, <1>2, <2>1 DEF GoTo
  <2>3. /\ x \in Notice
        /\ x.news = notices[r].news /\ x.bookingIds = notices[r].bookingIds
        /\ x.businessId = notices[r].businessId /\ x.todo = notices[r].todo
        /\ x.step # "lookup"
    BY <1>0, <2>1 DEF Notice, NoticeStep
  <2> QED
    BY <1>0, <2>2, <2>3, CarriedBy, NoticeReal
<1>3. CASE FindDevices(r)
  <2>1. PICK found \in SUBSET Tokens :
          found = {t \in Tokens : devices[t].user = notices[r].to /\ devices[t].enabled}
    OBVIOUS
  <2>2. CASE found = {}
    <3>1. Proceed(r)
      BY <1>0, <1>3, <2>1, <2>2 DEF FindDevices, Proceed
    <3> QED
      BY <3>1, <1>1
  <2>3. CASE found # {}
    <3>1. PICK x : x = [notices[r] EXCEPT !.step = "push", !.row = Len(outbox'), !.tokens = found]
      OBVIOUS
    <3>2. notices' = [notices EXCEPT ![r] = x]
      BY <1>0, <1>3, <2>1, <2>3, <3>1 DEF FindDevices
    <3>3. outbox' \in Seq(OutboxRow)
      BY <1>3, FindDevicesMoves DEF NoticeInv, NotificationsTypeOK
    <3>4. Len(outbox') \in Nat
      BY <3>3
    <3>5. /\ x \in Notice
          /\ x.news = notices[r].news /\ x.bookingIds = notices[r].bookingIds
          /\ x.businessId = notices[r].businessId /\ x.todo = notices[r].todo
          /\ x.step # "lookup"
      BY <1>0, <2>1, <3>1, <3>4 DEF Notice, NoticeStep
    <3> QED
      BY <1>0, <3>2, <3>5, CarriedBy, NoticeReal
  <2> QED
    BY <2>2, <2>3
<1>4. CASE SendOne(r) \/ DisableInvalid(r)
  <2>1. /\ notices'[r].news = notices[r].news /\ notices'[r].bookingIds = notices[r].bookingIds
        /\ notices'[r].businessId = notices[r].businessId /\ notices'[r].todo = notices[r].todo
        /\ notices'[r].step = notices[r].step
        /\ \A q \in Requests \ {r} : notices'[q] = notices[q]
    <3>1. CASE SendOne(r)
      <4>1. PICK t, answer : notices' = [notices EXCEPT
              ![r].tokens = @ \ {t},
              ![r].sent = @ \/ answer = "accepted",
              ![r].invalid = IF answer = "refused" THEN @ \cup {t} ELSE @]
        BY <3>1 DEF SendOne
      <4> QED
        BY <1>0, <4>1 DEF Notice
    <3>2. CASE DisableInvalid(r)
      <4>1. notices' = [notices EXCEPT ![r].invalid = {}]
        BY <3>2 DEF DisableInvalid
      <4> QED
        BY <1>0, <4>1 DEF Notice
    <3> QED
      BY <1>4, <3>1, <3>2
  <2>2. \A q \in Requests \ {r} : Carried(q)
    BY <2>1 DEF Carried, Telling
  <2>3. NoticeInv'
    BY <1>4, SendOneMoves, DisableInvalidMoves
  <2>4. notices'[r] # NoNotice
    BY <2>1, <1>0 DEF NoNotice, Notice, NoticeStep
  <2>5. Carried(r)
    BY <2>1, <2>4, <1>0 DEF Carried, Telling
  <2> QED
    BY <2>2, <2>5
<1> QED
  BY <1>1, <1>2, <1>3, <1>4 DEF PushStep, SkipPush, Authorize, Report, CatchPush, PushThrows

LEMMA PushMoves ==
  ASSUME NoticeInv, NEW r \in Requests, PushStep(r) \/ PushThrows(r)
  PROVE  NoticeInv' /\ PushOnly
<1>1. \A q \in Requests : Carried(q)
  BY PushCarries
<1>2. inbox' = inbox
  BY DEF PushStep, FindDevices, SkipPush, Authorize, SendOne, DisableInvalid, Report, CatchPush, PushThrows
<1>3. NoticeInv'
  BY FindDevicesMoves, SkipPushMoves, AuthorizeMoves, SendOneMoves, DisableInvalidMoves,
     ReportMoves, CatchPushMoves, PushThrowsMoves DEF PushStep
<1> QED
  BY <1>1, <1>2, <1>3 DEF PushOnly

LEMMA TapMoves ==
  ASSUME NoticeInv, NextTap
  PROVE  NoticeInv' /\ PushOnly
<1>1. ASSUME NEW u \in Users, NEW t \in Tokens, RegisterDevice(u, t)
      PROVE  NoticeInv' /\ PushOnly
  <2>1. NoticeInv' /\ inbox' = inbox
    BY <1>1, RegisterMoves DEF RegisterDevice
  <2>2. \A q \in Requests : /\ notices[q] \in {NoNotice} \cup Notice
                            /\ notices'[q] = IF Telling(q) /\ t \in notices[q].tokens \cup notices[q].invalid
                               THEN [notices[q] EXCEPT !.moved = @ \cup {t}] ELSE notices[q]
    BY <1>1 DEF RegisterDevice, MarkMoved, NoticeInv, NotificationsTypeOK
  <2>3. ASSUME NEW q \in Requests PROVE Carried(q)
    <3>1. CASE Telling(q) /\ t \in notices[q].tokens \cup notices[q].invalid
      <4>1. notices[q] \in Notice /\ notices'[q] = [notices[q] EXCEPT !.moved = @ \cup {t}]
        BY <2>2, <3>1 DEF Telling
      <4>2. /\ notices'[q] \in Notice
            /\ notices'[q].news = notices[q].news /\ notices'[q].bookingIds = notices[q].bookingIds
            /\ notices'[q].businessId = notices[q].businessId /\ notices'[q].todo = notices[q].todo
            /\ notices'[q].step = notices[q].step
        BY <4>1 DEF Notice
      <4> QED
        BY <3>1, <4>2, NoticeReal DEF Carried, Telling
    <3>2. CASE ~(Telling(q) /\ t \in notices[q].tokens \cup notices[q].invalid)
      BY <2>2, <3>2 DEF Carried, Telling
    <3> QED
      BY <3>1, <3>2
  <2> QED
    BY <2>1, <2>3 DEF PushOnly
<1>2. ASSUME NEW u \in Users, NEW ts \in SUBSET Tokens, UnregisterDevice(u, ts)
      PROVE  NoticeInv' /\ PushOnly
  BY <1>2, UnregisterMoves DEF UnregisterDevice, PushOnly, Carried, Telling
<1>3. ASSUME NEW m \in inbox, MarkRead(m)
      PROVE  NoticeInv' /\ PushOnly
  BY <1>3, MarkReadMoves DEF MarkRead, PushOnly, Carried, Telling
<1> QED
  BY <1>1, <1>2, <1>3 DEF NextTap


(* Nobody has anything to tell to start with. *)
LEMMA NoticesStart == NotificationsInit => NoticeInv
<1> SUFFICES ASSUME NotificationsInit PROVE NoticeInv
  OBVIOUS
<1>1. /\ inbox = {} /\ outbox = <<>> /\ calls = 0
      /\ notices = [r \in Requests |-> NoNotice] /\ \A r \in Requests : ~Telling(r)
      /\ registrant \in [Tokens -> Users] /\ excuse = [t \in Tokens |-> "none"]
      /\ devices = [t \in Tokens |-> [user |-> registrant[t], enabled |-> TRUE]]
  BY DEF NotificationsInit, Telling
<1>2. \A t \in Tokens : /\ registrant[t] \in Users /\ devices[t] \in Device
                        /\ devices[t].user = registrant[t] /\ devices[t].enabled
  BY <1>1 DEF Device
<1>3. outbox \in Seq(OutboxRow) /\ Len(outbox) = 0
  BY <1>1
<1>4. NotificationsTypeOK
  BY <1>1, <1>2, <1>3 DEF NotificationsTypeOK
<1>5. NoticesSound /\ OwnRow /\ DevicesFollow
  BY <1>1, <1>2 DEF NoticesSound, OwnRow, Pushes, DevicesFollow
<1>6. OutboxTruthful /\ DisabledHasCause /\ PushReachesItsUser
  BY <1>1, <1>2, <1>3 DEF OutboxTruthful, DisabledHasCause, PushReachesItsUser
<1> QED
  BY <1>4, <1>5, <1>6 DEF NoticeInv
===============================================================================
