----------------------------- MODULE Notifications -----------------------------
(***************************************************************************)
(* NotificationsService, with the push service behind it: the devices      *)
(* users register, the inbox, the outbox of pushes, and what becomes of    *)
(* one notice after its recipients are known.  Every step of a notice is   *)
(* an await of its own, under one catch that ends it (safeNotify); a push  *)
(* has a catch of its own.  Nothing looks at the outbox again.             *)
(*                                                                         *)
(* A notice runs inside the request that caused it, in the request's slot. *)
(* Who is told what is the caller's (module Bookings).                     *)
(***************************************************************************)
EXTENDS Integers, Sequences, FiniteSets

CONSTANTS
  Businesses,
  Users,        \* those who may be told something
  Tokens,       \* the registration tokens of the push service
  Requests,     \* slots for requests in flight at the same time
  BookingIds,   \* what a notice may be about
  News,         \* what a notice may say
  FcmConfigured,\* what isConfigured answers, in some process or other
  MaxCalls      \* bounds the number of requests of all kinds

VARIABLES
  devices,    \* devices[t]: the row of token t, or NoDevice
  inbox,      \* the inbox messages; the same one twice is one
  outbox,     \* the rows of the outbox, in the order of their creation
  notices,    \* notices[r]: the notice that request r is sending, or NoNotice
  calls,      \* how many requests there were, for the bound
  registrant, \* history: who registered the token last
  excuse      \* history: why the token may be disabled

notificationVars == <<devices, inbox, outbox, notices, calls, registrant, excuse>>

ASSUME NotificationsAssumption == FcmConfigured \subseteq BOOLEAN /\ MaxCalls \in Nat

NoDevice == [user |-> "none", enabled |-> FALSE]
Device == [user : Users, enabled : BOOLEAN]

Delivery == [to : Users, bookingId : BookingIds, news : News]

InboxMessage == [to : Users, bookingId : BookingIds, news : News,
                 status : {"unread", "read"}]

(* reached, unsure and cut are history: a device showed the push; the      *)
(* service did not get to know or to record it; the push was cut short.    *)
OutboxRow == [to : Users, status : {"pending", "skipped", "sent", "failed"},
              reached : BOOLEAN, unsure : BOOLEAN, cut : BOOLEAN]

NoNotice == [step |-> "none"]

(* moved is history: tokens that were registered anew since they were read *)
NoticeStep == {"lookup", "next", "devices", "push", "send", "catch"}
Notice ==
  [step : NoticeStep, news : News, bookingIds : SUBSET BookingIds,
   businessId : Businesses, todo : SUBSET Delivery, to : Users \cup {"none"}, tokens : SUBSET Tokens,
   invalid : SUBSET Tokens, moved : SUBSET Tokens, sent : BOOLEAN, row : Nat]

(* A notice whose recipients are yet to be looked up *)
NewNotice(what, b, ids) ==
  [step |-> "lookup", news |-> what, bookingIds |-> ids, businessId |-> b,
   todo |-> {}, to |-> "none", tokens |-> {}, invalid |-> {}, moved |-> {}, sent |-> FALSE, row |-> 0]

Telling(r) == notices[r] # NoNotice
At(r, step) == Telling(r) /\ notices[r].step = step

NotificationsInit ==
  /\ registrant \in [Tokens -> Users]
  /\ devices = [t \in Tokens |-> [user |-> registrant[t], enabled |-> TRUE]]
  /\ inbox = {}
  /\ outbox = <<>>
  /\ notices = [r \in Requests |-> NoNotice]
  /\ calls = 0
  /\ excuse = [t \in Tokens |-> "none"]

Count == calls < MaxCalls /\ calls' = calls + 1

-------------------------------------------------------------------------------
(* registerDevice: an upsert by token, so a token follows its last user.   *)
MarkMoved(t) ==
  notices' = [r \in Requests |->
    IF Telling(r) /\ t \in notices[r].tokens \cup notices[r].invalid
    THEN [notices[r] EXCEPT !.moved = @ \cup {t}] ELSE notices[r]]

StickyRegisterDevice(u, t) ==
  /\ Count
  /\ devices' = [devices EXCEPT ![t].enabled = TRUE]
  /\ registrant' = [registrant EXCEPT ![t] = u]
  /\ excuse' = [excuse EXCEPT ![t] = "none"]
  /\ MarkMoved(t)
  /\ UNCHANGED <<inbox, outbox>>
RegisterDevice(u, t) ==
  /\ Count
  /\ devices' = [devices EXCEPT ![t] = [user |-> u, enabled |-> TRUE]]
  /\ registrant' = [registrant EXCEPT ![t] = u]
  /\ excuse' = [excuse EXCEPT ![t] = "none"]
  /\ MarkMoved(t)
  /\ UNCHANGED <<inbox, outbox>>

(* unregisterDevice: by token, or by a deviceId that several tokens share  *)
UnregisterDevice(u, ts) ==
  /\ Count
  /\ ts # {} /\ \A t \in ts : devices[t].user = u
  /\ devices' = [t \in Tokens |-> IF t \in ts THEN [devices[t] EXCEPT !.enabled = FALSE]
                                              ELSE devices[t]]
  /\ excuse' = [t \in Tokens |-> IF t \in ts THEN "unregistered" ELSE excuse[t]]
  /\ UNCHANGED <<inbox, outbox, notices, registrant>>

(* markRead, of the inbox and of the mobile app; a message is never deleted *)
MarkRead(m) ==
  /\ Count
  /\ m.status = "unread"
  /\ inbox' = (inbox \ {m}) \cup {[m EXCEPT !.status = "read"]}
  /\ UNCHANGED <<devices, outbox, notices, registrant, excuse>>

-------------------------------------------------------------------------------
Current(r) == outbox[notices[r].row]

SetRow(r, row) == outbox' = [outbox EXCEPT ![notices[r].row] = row]

GoTo(r, step) == notices' = [notices EXCEPT ![r].step = step]

(* The notice once the user at hand is done with: the next one, or none    *)
Rest(call) ==
  IF call.todo = {} THEN NoNotice
  ELSE [call EXCEPT !.step = "next", !.to = "none", !.row = 0,
                    !.tokens = {}, !.invalid = {}, !.moved = {}, !.sent = FALSE]

Proceed(r) == notices' = [notices EXCEPT ![r] = Rest(@)]

(* notifyUsers, the next user: inboxMessage.create *)
Deliver(r) ==
  /\ At(r, "next")
  /\ \E d \in notices[r].todo :
       /\ inbox' = inbox \cup
            {[to |-> d.to, bookingId |-> d.bookingId, news |-> d.news, status |-> "unread"]}
       /\ notices' = [notices EXCEPT ![r].step = "devices", ![r].to = d.to,
                                     ![r].todo = @ \ {d}]
  /\ UNCHANGED <<devices, outbox, calls, registrant, excuse>>

(* The user turned this kind of notification off. *)
Mute(r) ==
  /\ At(r, "next")
  /\ \E d \in notices[r].todo :
       notices' = [notices EXCEPT ![r] = Rest([notices[r] EXCEPT !.todo = @ \ {d}])]
  /\ UNCHANGED <<devices, inbox, outbox, calls, registrant, excuse>>

(* dispatchPush: notificationDevice.findMany, then notificationOutbox.create, *)
(* which depends on nothing that another request may change in between.     *)
FindDevices(r) ==
  LET found == {t \in Tokens : devices[t].user = notices[r].to /\ devices[t].enabled} IN
  /\ At(r, "devices")
  /\ outbox' = Append(outbox,
       [to |-> notices[r].to, status |-> IF found = {} THEN "skipped" ELSE "pending",
        reached |-> FALSE, unsure |-> FALSE, cut |-> FALSE])
  /\ notices' = [notices EXCEPT ![r] =
       IF found = {} THEN Rest(@)
       ELSE [@ EXCEPT !.step = "push", !.row = Len(outbox'), !.tokens = found]]
  /\ UNCHANGED <<devices, inbox, calls, registrant, excuse>>

(* isConfigured is false: updateOutbox, skipped *)
SkipPush(r) ==
  /\ At(r, "push") /\ FALSE \in FcmConfigured
  /\ SetRow(r, [Current(r) EXCEPT !.status = "skipped"])
  /\ Proceed(r)
  /\ UNCHANGED <<devices, inbox, calls, registrant, excuse>>

(* getAccessToken: the cached token, or a new one, or an error *)
Authorize(r) ==
  /\ At(r, "push") /\ TRUE \in FcmConfigured
  /\ \E step \in {"send", "catch"} : GoTo(r, step)
  /\ UNCHANGED <<devices, inbox, outbox, calls, registrant, excuse>>

(* sendOne of the next token.  The push service takes the message, refuses *)
(* the token for good, fails, or takes it and its answer is lost.          *)
Answers == {"accepted", "lost", "refused", "error"}

EagerSendOne(r) ==
  /\ At(r, "send")
  /\ \E t \in notices[r].tokens, answer \in Answers :
       /\ notices' = [notices EXCEPT
            ![r].tokens = @ \ {t},
            ![r].sent = @ \/ answer = "accepted",
            ![r].invalid = IF answer # "accepted" THEN @ \cup {t} ELSE @]
       /\ SetRow(r, [Current(r) EXCEPT
            !.reached = @ \/ answer \in {"accepted", "lost"},
            !.unsure = @ \/ answer = "lost"])
       /\ excuse' = IF answer = "refused" /\ t \notin notices[r].moved
                    THEN [excuse EXCEPT ![t] = "refused"] ELSE excuse
  /\ UNCHANGED <<devices, inbox, calls, registrant>>
SendOne(r) ==
  /\ At(r, "send")
  /\ \E t \in notices[r].tokens, answer \in Answers :
       /\ notices' = [notices EXCEPT
            ![r].tokens = @ \ {t},
            ![r].sent = @ \/ answer = "accepted",
            ![r].invalid = IF answer = "refused" THEN @ \cup {t} ELSE @]
       /\ SetRow(r, [Current(r) EXCEPT
            !.reached = @ \/ answer \in {"accepted", "lost"},
            !.unsure = @ \/ answer = "lost"])
       /\ excuse' = IF answer = "refused" /\ t \notin notices[r].moved
                    THEN [excuse EXCEPT ![t] = "refused"] ELSE excuse
  /\ UNCHANGED <<devices, inbox, calls, registrant>>

(* notificationDevice.updateMany of the tokens that were refused: what     *)
(* became of them since does not count.                                    *)
DisableInvalid(r) ==
  LET call == notices[r] IN
  /\ At(r, "send") /\ call.tokens = {} /\ call.invalid # {}
  /\ devices' = [t \in Tokens |-> IF t \in call.invalid
                   THEN [devices[t] EXCEPT !.enabled = FALSE] ELSE devices[t]]
  /\ excuse' = [t \in Tokens |-> IF t \in call.invalid \cap call.moved
                                 THEN "overtaken" ELSE excuse[t]]
  /\ notices' = [notices EXCEPT ![r].invalid = {}]
  /\ UNCHANGED <<inbox, outbox, calls, registrant>>

(* updateOutbox with the result *)
HopefulReport(r) ==
  /\ At(r, "send") /\ notices[r].tokens = {} /\ notices[r].invalid = {}
  /\ SetRow(r, [Current(r) EXCEPT !.status = "sent"])
  /\ Proceed(r)
  /\ UNCHANGED <<devices, inbox, calls, registrant, excuse>>
Report(r) ==
  /\ At(r, "send") /\ notices[r].tokens = {} /\ notices[r].invalid = {}
  /\ SetRow(r, [Current(r) EXCEPT !.status = IF notices[r].sent THEN "sent" ELSE "failed"])
  /\ Proceed(r)
  /\ UNCHANGED <<devices, inbox, calls, registrant, excuse>>

(* One of those two updates throws: what was sent is recorded as failed.   *)
PushThrows(r) ==
  /\ At(r, "send") /\ notices[r].tokens = {}
  /\ SetRow(r, [Current(r) EXCEPT !.unsure = TRUE])
  /\ GoTo(r, "catch")
  /\ UNCHANGED <<devices, inbox, calls, registrant, excuse>>

RetryPush(r) ==
  /\ At(r, "catch")
  /\ GoTo(r, "push")
  /\ UNCHANGED <<devices, inbox, outbox, calls, registrant, excuse>>
CatchPush(r) ==
  /\ At(r, "catch")
  /\ SetRow(r, [Current(r) EXCEPT !.status = "failed"])
  /\ Proceed(r)
  /\ UNCHANGED <<devices, inbox, calls, registrant, excuse>>

(* Any other await throws, and safeNotify drops the rest of the notice; or *)
(* the process dies.  What the request changed before stays changed.       *)
GiveUp(r) ==
  /\ Telling(r)
  /\ notices' = [notices EXCEPT ![r] = NoNotice]
  /\ IF notices[r].step \in {"push", "send", "catch"}
     THEN SetRow(r, [Current(r) EXCEPT !.cut = TRUE]) ELSE UNCHANGED outbox
  /\ UNCHANGED <<devices, inbox, calls, registrant, excuse>>

(* What one user's app or browser does *)
NextTap ==
  \/ \E u \in Users :
       \/ \E t \in Tokens : RegisterDevice(u, t)
       \/ \E ts \in SUBSET Tokens : UnregisterDevice(u, ts)
  \/ \E m \in inbox : MarkRead(m)

(* The pushes of a notice, which the caller has no part in *)
PushStep(r) ==
  \/ FindDevices(r) \/ SkipPush(r) \/ Authorize(r)
  \/ SendOne(r) \/ DisableInvalid(r) \/ Report(r) \/ CatchPush(r)

-------------------------------------------------------------------------------
NotificationsTypeOK ==
  /\ devices \in [Tokens -> Device \cup {NoDevice}]
  /\ inbox \subseteq InboxMessage
  /\ outbox \in Seq(OutboxRow)
  /\ notices \in [Requests -> {NoNotice} \cup Notice]
  /\ \A r \in Requests :
       Telling(r) /\ notices[r].step \in {"push", "send", "catch"} =>
         notices[r].row \in DOMAIN outbox
  /\ calls \in 0..MaxCalls
  /\ registrant \in [Tokens -> Users]
  /\ excuse \in [Tokens -> {"none", "unregistered", "refused", "overtaken"}]

Pushing(i) ==
  \E r \in Requests :
    Telling(r) /\ notices[r].row = i /\ notices[r].step \in {"push", "send", "catch"}

(* What the outbox says of a push is true: "sent" reached a device,        *)
(* "skipped" reached none, "failed" reached none that the service got to   *)
(* know of and could record, and "pending" is under way or was cut short   *)
(* (notifications.service.ts:240-318).                                     *)
OutboxTruthful ==
  \A i \in DOMAIN outbox :
    /\ outbox[i].status = "sent" => outbox[i].reached
    /\ outbox[i].status = "skipped" => ~outbox[i].reached
    /\ outbox[i].status = "failed" /\ outbox[i].reached => outbox[i].unsure
    /\ outbox[i].status = "pending" => Pushing(i) \/ outbox[i].cut

(* A token is disabled only if its user unregistered it, or the push       *)
(* service refused it since it was registered, or it was registered again  *)
(* while a push that had it refused was under way (286-291).               *)
DisabledHasCause ==
  \A t \in Tokens : devices[t].user # "none" /\ ~devices[t].enabled => excuse[t] # "none"

(* A push goes to the devices of the user it is for: one that another user *)
(* registered last gets it only if it changed hands after the devices were *)
(* read (240-243, 34-58).                                                  *)
PushReachesItsUser ==
  \A r \in Requests :
    Telling(r) => \A t \in notices[r].tokens :
      registrant[t] = notices[r].to \/ t \in notices[r].moved

(* A pending push does not stay so, unless its request was cut short: the  *)
(* outbox needs no worker as long as nothing dies.                         *)
PendingResolved ==
  \A r \in Requests : Telling(r) /\ notices[r].step \in {"push", "send", "catch"} ~>
    ~Telling(r) \/ notices[r].step \notin {"push", "send", "catch"}
===============================================================================
