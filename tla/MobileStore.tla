------------------------------ MODULE MobileStore ------------------------------
(***************************************************************************)
(* The mobile data of one user: MobileService keeps it as one JSON value,  *)
(* the part "mobile" of User.securityPreferences.  A handler reads the     *)
(* user in one await, computes the whole new value from what it read, and  *)
(* writes the whole value back in another await; AuthService.verifyEmail   *)
(* does the same, and AccountService.updateSecurity replaces the value     *)
(* without reading it.  Nothing orders the requests of a user: every write *)
(* undoes what was written since its read.                                 *)
(*                                                                         *)
(* An item is its id and what the handlers look at; the rest of it is      *)
(* data.  Lists are sets: no handler depends on their order.  A request    *)
(* that is refused (no such item, a missing field) writes nothing and is   *)
(* left out.                                                               *)
(***************************************************************************)
EXTENDS Integers, FiniteSets

CONSTANTS
  Requests,     \* slots for requests of the user in flight at the same time
  Shops,        \* the shops the user chats with
  Values,       \* the values of a setting, or of a vehicle's nickname
  MaxId,        \* bounds the number of items and messages created
  MaxCalls      \* bounds the number of requests

VARIABLES
  store,     \* the value of securityPreferences.mobile
  requests,  \* requests[r]: what the request in slot r is going to write
  issued,    \* how many ids randomUUID gave out
  calls,     \* how many requests there were, for the bound
  owed,      \* history: what was saved and was not deleted or dropped since
  deleted,   \* history: what was deleted
  exposed    \* history: what was saved or deleted while another was in flight

vars == <<store, requests, issued, calls, owed, deleted, exposed>>

ASSUME MobileStoreAssumption == MaxId \in Nat /\ MaxCalls \in Nat

Ids == 1..MaxId
NoValue == "none"

MobileVehicle == [id : Ids, nickname : Values \cup {NoValue}]
PaymentMethod == [id : Ids, isDefault : BOOLEAN]
ChatThread    == [id : Ids, shopId : Shops, messages : SUBSET Ids]
AiChatSession == [id : Ids, messages : SUBSET Ids]

Store ==
  [username       : Values \cup {NoValue},
   profile        : Values \cup {NoValue},
   preferences    : Values \cup {NoValue},
   emailVerified  : Values \cup {NoValue},
   vehicles       : SUBSET MobileVehicle,
   paymentMethods : SUBSET PaymentMethod,
   reviews        : SUBSET Ids,
   shopChatThreads: SUBSET ChatThread,
   uploads        : SUBSET Ids,
   aiChatSessions : SUBSET AiChatSession,
   aiDetections   : SUBSET Ids]

(* What a store without the part "mobile" reads as *)
NoStore ==
  [username |-> NoValue, profile |-> NoValue, preferences |-> NoValue,
   emailVerified |-> NoValue, vehicles |-> {}, paymentMethods |-> {},
   reviews |-> {}, shopChatThreads |-> {}, uploads |-> {},
   aiChatSessions |-> {}, aiDetections |-> {}]

(* The store that signUpClient creates; "none" stands for the defaults. *)
SignedUpStore(v) == [NoStore EXCEPT !.username = v]

Idle == [step |-> "idle"]

InFlight(r) == requests[r] # Idle

Messages(chats) == UNION {c.messages : c \in chats}

IdsOf(list) == {x.id : x \in list}

(* Everything the store holds that has an id *)
Held(s) ==
  IdsOf(s.vehicles) \cup IdsOf(s.paymentMethods) \cup s.reviews \cup s.uploads
    \cup IdsOf(s.shopChatThreads) \cup Messages(s.shopChatThreads)
    \cup IdsOf(s.aiChatSessions) \cup Messages(s.aiChatSessions) \cup s.aiDetections

Init ==
  /\ store \in {SignedUpStore(v) : v \in Values}
  /\ requests = [r \in Requests |-> Idle]
  /\ issued = 0 /\ calls = 0
  /\ owed = {} /\ deleted = {} /\ exposed = {}

NewId == issued + 1

-------------------------------------------------------------------------------
(* getUser, and the new value computed from what it returned *)
Begin(r, next, made, gone) ==
  /\ ~InFlight(r)
  /\ calls < MaxCalls
  /\ made \subseteq Ids
  /\ requests' = [requests EXCEPT ![r] =
       [step |-> "save", view |-> "current", next |-> next, made |-> made, gone |-> gone]]
  /\ issued' = issued + Cardinality(made)
  /\ calls' = calls + 1
  /\ UNCHANGED <<store, owed, deleted, exposed>>

Changes(r, next) == Begin(r, next, {}, {})
Creates(r, next) == Begin(r, next, {NewId}, {})
Deletes(r, next, gone) == Begin(r, next, {}, gone)

(* A field that the client left out keeps the value that was read. *)
UpdateMe(r) ==
  \E v \in Values \cup {store.username} : Changes(r, [store EXCEPT !.username = v])

ResettingUpdateProfile(r) ==
  \E v \in Values : Changes(r, [store EXCEPT !.profile = v, !.username = NoValue])
UpdateProfile(r) ==
  \E v \in Values \cup {store.profile} : Changes(r, [store EXCEPT !.profile = v])

ForgetfulUpdatePreferences(r) ==
  \E v \in Values : Changes(r, [NoStore EXCEPT !.preferences = v])
UpdatePreferences(r) ==
  \E v \in Values \cup {store.preferences} : Changes(r, [store EXCEPT !.preferences = v])

VerifyEmail(r) ==
  \E v \in Values : Changes(r, [store EXCEPT !.emailVerified = v])

CreateVehicle(r) ==
  \E v \in Values \cup {NoValue} :
    Creates(r, [store EXCEPT !.vehicles = @ \cup {[id |-> NewId, nickname |-> v]}])

UndefinedUpdateVehicle(r) ==
  \E vehicle \in store.vehicles :
    Changes(r, [store EXCEPT !.vehicles =
      (@ \ {vehicle}) \cup {[vehicle EXCEPT !.nickname = "undefined"]}])
UpdateVehicle(r) ==
  \E vehicle \in store.vehicles, v \in Values :
    Changes(r, [store EXCEPT !.vehicles =
      (@ \ {vehicle}) \cup {[vehicle EXCEPT !.nickname = v]}])

DeleteVehicle(r) ==
  \E vehicle \in store.vehicles :
    Deletes(r, [store EXCEPT !.vehicles = @ \ {vehicle}], {vehicle.id})

CreateShopReview(r) ==
  Creates(r, [store EXCEPT !.reviews = @ \cup {NewId}])

(* A default method takes the flag from the others; the first is default   *)
(* unless the client says otherwise.                                       *)
Undefaulted(methods) == {[m EXCEPT !.isDefault = FALSE] : m \in methods}

GreedyCreatePaymentMethod(r) ==
  \E isDefault \in BOOLEAN :
    Creates(r, [store EXCEPT !.paymentMethods =
      @ \cup {[id |-> NewId, isDefault |-> isDefault]}])
CreatePaymentMethod(r) ==
  \E isDefault \in BOOLEAN :
    Creates(r, [store EXCEPT !.paymentMethods =
      (IF isDefault THEN Undefaulted(@) ELSE @)
        \cup {[id |-> NewId, isDefault |-> isDefault]}])

SoftDeletePaymentMethod(r) ==
  \E method \in store.paymentMethods :
    Deletes(r, [store EXCEPT !.paymentMethods =
      (@ \ {method}) \cup {[method EXCEPT !.isDefault = FALSE]}], {method.id})
DeletePaymentMethod(r) ==
  \E method \in store.paymentMethods :
    Deletes(r, [store EXCEPT !.paymentMethods = @ \ {method}], {method.id})

(* The thread with a shop is created once: a second call answers the first *)
(* thread and writes nothing.                                              *)
CreateShopChatThread(r) ==
  \E shop \in Shops :
    /\ \A thread \in store.shopChatThreads : thread.shopId # shop
    /\ Creates(r, [store EXCEPT !.shopChatThreads =
         @ \cup {[id |-> NewId, shopId |-> shop, messages |-> {}]}])

CreateShopChatMessage(r) ==
  \E thread \in store.shopChatThreads :
    Creates(r, [store EXCEPT !.shopChatThreads =
      (@ \ {thread}) \cup {[thread EXCEPT !.messages = @ \cup {NewId}]}])

CreateUploadedImage(r) ==
  Creates(r, [store EXCEPT !.uploads = @ \cup {NewId}])

CreateAiChatSession(r) ==
  Creates(r, [store EXCEPT !.aiChatSessions = @ \cup {[id |-> NewId, messages |-> {}]}])

DeleteAiChatSession(r) ==
  \E session \in store.aiChatSessions :
    Deletes(r, [store EXCEPT !.aiChatSessions = @ \ {session}],
            {session.id} \cup session.messages)

(* The messages of one call stand or fall together: one id stands for them *)
CreateAiChatMessages(r) ==
  \E session \in store.aiChatSessions :
    Creates(r, [store EXCEPT !.aiChatSessions =
      (@ \ {session}) \cup {[session EXCEPT !.messages = @ \cup {NewId}]}])

(* A detection copies the upload it names, or makes up a reference to it *)
CreateAiDetection(r) ==
  Creates(r, [store EXCEPT !.aiDetections = @ \cup {NewId}])

DeleteAiDetection(r) ==
  \E detection \in store.aiDetections :
    Deletes(r, [store EXCEPT !.aiDetections = @ \ {detection}], {detection})

-------------------------------------------------------------------------------
(* The requests that are in flight when something is written *)
Overtaken ==
  [r \in Requests |->
     IF InFlight(r) THEN [requests[r] EXCEPT !.view = "overtaken"] ELSE Idle]

(* prisma.user.update: the whole value that was computed after the read *)
Save(r) ==
  LET call == requests[r] IN
  /\ InFlight(r)
  /\ store' = call.next
  /\ requests' = [Overtaken EXCEPT ![r] = Idle]
  /\ owed' = (owed \cup call.made) \ call.gone
  /\ deleted' = deleted \cup call.gone
  /\ exposed' = IF \E q \in Requests \ {r} : InFlight(q)
                THEN exposed \cup call.made \cup call.gone ELSE exposed
  /\ UNCHANGED <<issued, calls>>

(* The update fails: the new e-mail is another's, or the database is away; *)
(* or the process dies first.                                              *)
Fail(r) ==
  /\ InFlight(r)
  /\ requests' = [requests EXCEPT ![r] = Idle]
  /\ UNCHANGED <<store, issued, calls, owed, deleted, exposed>>

(* AccountService.updateSecurity writes the preferences it was given as    *)
(* the whole of securityPreferences: the mobile data goes with the rest.   *)
UpdateSecurity ==
  /\ store' = NoStore
  /\ requests' = Overtaken
  /\ owed' = {}
  /\ UNCHANGED <<issued, calls, deleted, exposed>>

Next ==
  \/ \E r \in Requests :
       \/ UpdateMe(r) \/ UpdateProfile(r) \/ UpdatePreferences(r) \/ VerifyEmail(r)
       \/ CreateVehicle(r) \/ UpdateVehicle(r) \/ DeleteVehicle(r)
       \/ CreateShopReview(r)
       \/ CreatePaymentMethod(r) \/ DeletePaymentMethod(r)
       \/ CreateShopChatThread(r) \/ CreateShopChatMessage(r)
       \/ CreateUploadedImage(r)
       \/ CreateAiChatSession(r) \/ DeleteAiChatSession(r) \/ CreateAiChatMessages(r)
       \/ CreateAiDetection(r) \/ DeleteAiDetection(r)
       \/ Save(r) \/ Fail(r)
  \/ UpdateSecurity

Spec == Init /\ [][Next]_vars

-------------------------------------------------------------------------------
SaveCall ==
  [step : {"save"}, view : {"current", "overtaken"}, next : Store,
   made : SUBSET Ids, gone : SUBSET Ids]

TypeOK ==
  /\ store \in Store
  /\ requests \in [Requests -> {Idle} \cup SaveCall]
  /\ issued \in 0..MaxId /\ calls \in 0..MaxCalls
  /\ owed \subseteq Ids /\ deleted \subseteq Ids /\ exposed \subseteq Ids

(* Whatever overlaps, a user never has two default payment methods, and    *)
(* never two chat threads with one shop: a value is written whole, so one  *)
(* computed from a sound value is sound.  Mobile clients show "the"        *)
(* default and "the" thread (mobile.service.ts:443-468, 547-580).          *)
SoundStore(s) ==
  /\ \A m, n \in s.paymentMethods : m.isDefault /\ n.isDefault => m = n
  /\ \A t, u \in s.shopChatThreads : t.shopId = u.shopId => t = u

OneDefaultOneThread ==
  /\ SoundStore(store)
  /\ \A r \in Requests : InFlight(r) => SoundStore(requests[r].next)

(* What a client was told is saved is there until it is deleted or the     *)
(* settings page drops all of it, unless another request was in flight     *)
(* when it was saved; and what was deleted is gone under the same proviso. *)
LossNeedsOverlap == owed \subseteq Held(store) \cup exposed
ReturnNeedsOverlap == deleted \cap Held(store) \subseteq exposed

-------------------------------------------------------------------------------
(* The store as the registers and lists a client takes it for *)
TheId(ids) == IF ids = {} THEN 0 ELSE CHOOSE i \in ids : TRUE

SettingsOf(s) == [p \in {"username", "profile", "preferences", "emailVerified"} |-> s[p]]

ItemsOf(s) ==
  [p \in {"vehicles", "paymentMethods", "reviews", "uploads",
          "aiChatSessions", "aiDetections"} |->
     IF p \in {"reviews", "uploads", "aiDetections"} THEN s[p] ELSE IdsOf(s[p])]

NicknameOf(s) ==
  [i \in Ids |-> IF i \in IdsOf(s.vehicles)
                 THEN (CHOOSE v \in s.vehicles : v.id = i).nickname ELSE NoValue]

DefaultOf(s) == TheId({m.id : m \in {n \in s.paymentMethods : n.isDefault}})

ThreadOf(s) ==
  [shop \in Shops |-> TheId({t.id : t \in {u \in s.shopChatThreads : u.shopId = shop}})]

SaidOf(s) ==
  [i \in Ids |->
     Messages({c \in s.shopChatThreads : c.id = i})
       \cup Messages({c \in s.aiChatSessions : c.id = i})]

ViewOf == [r \in Requests |-> IF InFlight(r) THEN requests[r].view ELSE "closed"]

Registers ==
  INSTANCE StoreRegisters WITH
    Clients <- Requests,
    settings <- SettingsOf(store), items <- ItemsOf(store), nickname <- NicknameOf(store),
    default <- DefaultOf(store), thread <- ThreadOf(store), said <- SaidOf(store),
    view <- ViewOf

(* The store implements the registers: a request that no other overtook    *)
(* changes the one part it is for, as if the parts were stored apart       *)
(* (the "...store" of every handler); only an overtaken one does more.     *)
ActsAsRegisters == Registers!RegistersSpec
===============================================================================
