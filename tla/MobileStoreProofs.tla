--------------------------- MODULE MobileStoreProofs ---------------------------
(***************************************************************************)
(* MobileStore, for any number of requests, items, shops and values.  What *)
(* is written was computed from a value that was read: so it is enough to  *)
(* know that each handler turns a well-formed value into a well-formed one *)
(* (the lemmas named after the handlers), and what a request in flight     *)
(* still owes (the invariant StoreInv).  The last part shows that the      *)
(* store implements StoreRegisters: a request that nothing overtook writes *)
(* what its handler makes of the store as it still is (CurrentInv), and    *)
(* that changes one register.                                              *)
(***************************************************************************)
EXTENDS MobileStore, FiniteSetTheorems, TLAPS

USE MobileStoreAssumption

(* Where an id may be held.  An id is in one place only.                   *)
Places == {"vehicles", "paymentMethods", "reviews", "uploads", "threads", "shopMessages",
           "sessions", "aiMessages", "detections"}

In(s, p) ==
  CASE p = "vehicles"       -> IdsOf(s.vehicles)
    [] p = "paymentMethods" -> IdsOf(s.paymentMethods)
    [] p = "reviews"        -> s.reviews
    [] p = "uploads"        -> s.uploads
    [] p = "threads"        -> IdsOf(s.shopChatThreads)
    [] p = "shopMessages"   -> Messages(s.shopChatThreads)
    [] p = "sessions"       -> IdsOf(s.aiChatSessions)
    [] p = "aiMessages"     -> Messages(s.aiChatSessions)
    [] p = "detections"     -> s.aiDetections

UniqueIds(list) == \A x, y \in list : x.id = y.id => x = y

Distinct(s) ==
  /\ UniqueIds(s.vehicles) /\ UniqueIds(s.paymentMethods)
  /\ UniqueIds(s.aiChatSessions)
  /\ \A c, d \in s.aiChatSessions : c # d => c.messages \cap d.messages = {}
  /\ \A p, q \in Places : p # q => In(s, p) \cap In(s, q) = {}

WellFormed(s) == s \in Store /\ SoundStore(s) /\ Distinct(s)

(* What a handler makes of the value s: t, with the ids made new and the   *)
(* ids gone missing, and otherwise holding what s held.                    *)
Edit(s, t, made, gone) ==
  /\ WellFormed(t)
  /\ Held(t) = (Held(s) \ gone) \cup made
  /\ made \cap gone = {}

LEMMA HeldIn ==
  ASSUME NEW s, NEW i
  PROVE  i \in Held(s) <=> \E p \in Places : i \in In(s, p)
BY DEF Held, In, Places

(* Apart from one place, everything is where it was. *)
Elsewhere(s, t, k) == \A p \in Places \ {k} : In(t, p) = In(s, p)

LEMMA AddedTo ==
  ASSUME NEW s, NEW t, NEW k \in Places, NEW n, n \notin Held(s),
         \A p, q \in Places : p # q => In(s, p) \cap In(s, q) = {},
         Elsewhere(s, t, k), In(t, k) = In(s, k) \cup {n}
  PROVE  /\ \A p, q \in Places : p # q => In(t, p) \cap In(t, q) = {}
         /\ Held(t) = (Held(s) \ {}) \cup {n}
<1>1. \A p \in Places : n \notin In(s, p)
  BY HeldIn
<1>2. \A p, q \in Places : p # q => In(t, p) \cap In(t, q) = {}
  BY <1>1 DEF Elsewhere
<1>3. ASSUME NEW i PROVE i \in Held(t) <=> i \in Held(s) \/ i = n
  <2>1. i \in Held(t) <=> \E p \in Places : i \in In(t, p)
    BY HeldIn
  <2>2. i \in Held(s) <=> \E p \in Places : i \in In(s, p)
    BY HeldIn
  <2> QED
    BY <2>1, <2>2 DEF Elsewhere
<1> QED
  BY <1>2, <1>3

LEMMA TakenFrom ==
  ASSUME NEW s, NEW t, NEW gone, \A p \in Places : In(t, p) = In(s, p) \ gone,
         \A p, q \in Places : p # q => In(s, p) \cap In(s, q) = {}
  PROVE  /\ \A p, q \in Places : p # q => In(t, p) \cap In(t, q) = {}
         /\ Held(t) = (Held(s) \ gone) \cup {}
<1>1. \A p, q \in Places : p # q => In(t, p) \cap In(t, q) = {}
  OBVIOUS
<1>2. ASSUME NEW i PROVE i \in Held(t) <=> i \in Held(s) /\ i \notin gone
  <2>1. i \in Held(t) <=> \E p \in Places : i \in In(t, p)
    BY HeldIn
  <2>2. i \in Held(s) <=> \E p \in Places : i \in In(s, p)
    BY HeldIn
  <2> QED
    BY <2>1, <2>2
<1> QED
  BY <1>1, <1>2

LEMMA TakenFromOne ==
  ASSUME NEW s, NEW t, NEW k \in Places, NEW gone, gone \subseteq In(s, k),
         \A p, q \in Places : p # q => In(s, p) \cap In(s, q) = {},
         Elsewhere(s, t, k), In(t, k) = In(s, k) \ gone
  PROVE  /\ \A p, q \in Places : p # q => In(t, p) \cap In(t, q) = {}
         /\ Held(t) = (Held(s) \ gone) \cup {}
<1>1. \A p \in Places : In(t, p) = In(s, p) \ gone
  BY DEF Elsewhere
<1> QED
  BY <1>1, TakenFrom

LEMMA NothingMoved ==
  ASSUME NEW s, NEW t, \A p \in Places : In(t, p) = In(s, p),
         \A p, q \in Places : p # q => In(s, p) \cap In(s, q) = {}
  PROVE  /\ \A p, q \in Places : p # q => In(t, p) \cap In(t, q) = {}
         /\ Held(t) = (Held(s) \ {}) \cup {}
<1>1. \A i : i \in Held(t) <=> i \in Held(s)
  BY HeldIn
<1> QED
  BY <1>1

(* The places by name, and what the lists of items and of messages hold *)
LEMMA InEach ==
  ASSUME NEW s
  PROVE  /\ In(s, "vehicles") = IdsOf(s.vehicles)
         /\ In(s, "paymentMethods") = IdsOf(s.paymentMethods)
         /\ In(s, "reviews") = s.reviews
         /\ In(s, "uploads") = s.uploads
         /\ In(s, "threads") = IdsOf(s.shopChatThreads)
         /\ In(s, "shopMessages") = Messages(s.shopChatThreads)
         /\ In(s, "sessions") = IdsOf(s.aiChatSessions)
         /\ In(s, "aiMessages") = Messages(s.aiChatSessions)
         /\ In(s, "detections") = s.aiDetections
BY DEF In

LEMMA SameIn ==
  ASSUME NEW s, NEW t, NEW k,
         \/ k = "vehicles" \/ t.vehicles = s.vehicles,
         \/ k = "paymentMethods" \/ t.paymentMethods = s.paymentMethods,
         \/ k = "reviews" \/ t.reviews = s.reviews,
         \/ k = "uploads" \/ t.uploads = s.uploads,
         \/ k = "threads" \/ IdsOf(t.shopChatThreads) = IdsOf(s.shopChatThreads),
         \/ k = "shopMessages" \/ Messages(t.shopChatThreads) = Messages(s.shopChatThreads),
         \/ k = "sessions" \/ IdsOf(t.aiChatSessions) = IdsOf(s.aiChatSessions),
         \/ k = "aiMessages" \/ Messages(t.aiChatSessions) = Messages(s.aiChatSessions),
         \/ k = "detections" \/ t.aiDetections = s.aiDetections
  PROVE  Elsewhere(s, t, k)
<1> SUFFICES ASSUME NEW p \in Places \ {k}
             PROVE  In(t, p) = In(s, p)
  BY DEF Elsewhere
<1>1. /\ In(t, "vehicles") = IdsOf(t.vehicles)
      /\ In(t, "paymentMethods") = IdsOf(t.paymentMethods)
      /\ In(t, "reviews") = t.reviews
      /\ In(t, "uploads") = t.uploads
      /\ In(t, "threads") = IdsOf(t.shopChatThreads)
      /\ In(t, "shopMessages") = Messages(t.shopChatThreads)
      /\ In(t, "sessions") = IdsOf(t.aiChatSessions)
      /\ In(t, "aiMessages") = Messages(t.aiChatSessions)
      /\ In(t, "detections") = t.aiDetections
  BY InEach
<1> QED
  BY <1>1, InEach DEF Places

LEMMA IdsOfOneMore ==
  ASSUME NEW list, NEW x
  PROVE  IdsOf(list \cup {x}) = IdsOf(list) \cup {x.id}
BY DEF IdsOf

LEMMA IdsOfOneLess ==
  ASSUME NEW list, NEW x \in list, UniqueIds(list)
  PROVE  IdsOf(list \ {x}) = IdsOf(list) \ {x.id}
BY DEF IdsOf, UniqueIds

LEMMA IdsOfChanged ==
  ASSUME NEW list, NEW x \in list, NEW y, y.id = x.id
  PROVE  IdsOf((list \ {x}) \cup {y}) = IdsOf(list)
BY DEF IdsOf

LEMMA MessagesOneMore ==
  ASSUME NEW chats, NEW c
  PROVE  Messages(chats \cup {c}) = Messages(chats) \cup c.messages
BY DEF Messages

LEMMA MessagesOneLess ==
  ASSUME NEW chats, NEW c \in chats,
         \A d, e \in chats : d # e => d.messages \cap e.messages = {}
  PROVE  Messages(chats \ {c}) = Messages(chats) \ c.messages
BY DEF Messages

LEMMA MessagesChanged ==
  ASSUME NEW chats, NEW c \in chats, NEW d, NEW m, d.messages = c.messages \cup {m}
  PROVE  Messages((chats \ {c}) \cup {d}) = Messages(chats) \cup {m}
BY DEF Messages

-------------------------------------------------------------------------------
(* The handlers, one by one *)
LEMMA SettingSet ==
  ASSUME NEW s, WellFormed(s), NEW v \in Values \cup {NoValue}, NEW t,
         t \in {[s EXCEPT !.username = v], [s EXCEPT !.profile = v],
                [s EXCEPT !.preferences = v], [s EXCEPT !.emailVerified = v]}
  PROVE  Edit(s, t, {}, {})
<1>1. /\ t \in Store
      /\ t.vehicles = s.vehicles /\ t.paymentMethods = s.paymentMethods
      /\ t.reviews = s.reviews /\ t.shopChatThreads = s.shopChatThreads
      /\ t.uploads = s.uploads /\ t.aiChatSessions = s.aiChatSessions
      /\ t.aiDetections = s.aiDetections
  BY DEF WellFormed, Store
<1>2. \A p \in Places : In(t, p) = In(s, p)
  BY <1>1 DEF In, Places
<1>3. SoundStore(t)
  BY <1>1 DEF WellFormed, SoundStore
<1> QED
  BY <1>1, <1>2, <1>3, NothingMoved DEF Edit, WellFormed, Distinct

LEMMA VehicleCreated ==
  ASSUME NEW s, WellFormed(s), NEW n \in Ids \ Held(s), NEW v \in Values \cup {NoValue}
  PROVE  Edit(s, [s EXCEPT !.vehicles = @ \cup {[id |-> n, nickname |-> v]}], {n}, {})
<1> DEFINE x == [id |-> n, nickname |-> v]
<1> DEFINE t == [s EXCEPT !.vehicles = @ \cup {x}]
<1>1. /\ t \in Store
      /\ t.vehicles = s.vehicles \cup {x}
      /\ t.paymentMethods = s.paymentMethods
      /\ t.reviews = s.reviews /\ t.shopChatThreads = s.shopChatThreads
      /\ t.uploads = s.uploads /\ t.aiChatSessions = s.aiChatSessions
      /\ t.aiDetections = s.aiDetections
  BY DEF WellFormed, Store, MobileVehicle
<1>0. x.id = n
  OBVIOUS
<1> HIDE DEF t, x
<1>2. In(t, "vehicles") = In(s, "vehicles") \cup {n}
  BY <1>0, <1>1, InEach, IdsOfOneMore
<1>3. Elsewhere(s, t, "vehicles")
  BY <1>1, SameIn
<1>4. SoundStore(t)
  BY <1>1 DEF WellFormed, SoundStore
<1>5. UniqueIds(t.vehicles)
  <2>1. \A y \in s.vehicles : y.id # n
    BY DEF Held, IdsOf
  <2> QED
    BY <1>0, <1>1, <2>1 DEF WellFormed, Distinct, UniqueIds
<1>6. /\ \A p, q \in Places : p # q => In(t, p) \cap In(t, q) = {}
      /\ Held(t) = (Held(s) \ {}) \cup {n}
  BY <1>2, <1>3, AddedTo, "vehicles" \in Places DEF WellFormed, Distinct, Places
<1>7. Edit(s, t, {n}, {})
  BY <1>1, <1>4, <1>5, <1>6 DEF Edit, WellFormed, Distinct
<1> QED
  BY <1>7 DEF t, x

LEMMA VehicleUpdated ==
  ASSUME NEW s, WellFormed(s), NEW x \in s.vehicles, NEW v \in Values
  PROVE  Edit(s, [s EXCEPT !.vehicles = (@ \ {x}) \cup {[x EXCEPT !.nickname = v]}], {}, {})
<1> DEFINE y == [x EXCEPT !.nickname = v]
<1> DEFINE t == [s EXCEPT !.vehicles = (@ \ {x}) \cup {y}]
<1>1. x \in MobileVehicle
  BY DEF WellFormed, Store
<1>2. y \in MobileVehicle /\ y.id = x.id
  BY <1>1 DEF MobileVehicle
<1> HIDE DEF y
<1>3. /\ t \in Store
      /\ t.vehicles = (s.vehicles \ {x}) \cup {y}
      /\ t.paymentMethods = s.paymentMethods
      /\ t.reviews = s.reviews /\ t.shopChatThreads = s.shopChatThreads
      /\ t.uploads = s.uploads /\ t.aiChatSessions = s.aiChatSessions
      /\ t.aiDetections = s.aiDetections
  BY <1>2 DEF WellFormed, Store
<1> HIDE DEF t
<1>4. IdsOf(t.vehicles) = IdsOf(s.vehicles)
  BY <1>2, <1>3, IdsOfChanged
<1>5. \A p \in Places : In(t, p) = In(s, p)
  <2>1. In(t, "vehicles") = In(s, "vehicles")
    BY <1>4, InEach
  <2>2. Elsewhere(s, t, "vehicles")
    BY <1>3, SameIn
  <2> QED
    BY <2>1, <2>2 DEF Elsewhere
<1>6. SoundStore(t)
  BY <1>3 DEF WellFormed, SoundStore
<1>7. UniqueIds(t.vehicles)
  BY <1>2, <1>3 DEF WellFormed, Distinct, UniqueIds
<1>8. Edit(s, t, {}, {})
  BY <1>3, <1>5, <1>6, <1>7, NothingMoved DEF Edit, WellFormed, Distinct
<1> QED
  BY <1>8 DEF t, y

LEMMA VehicleDeleted ==
  ASSUME NEW s, WellFormed(s), NEW x \in s.vehicles
  PROVE  Edit(s, [s EXCEPT !.vehicles = @ \ {x}], {}, {x.id})
<1> DEFINE t == [s EXCEPT !.vehicles = @ \ {x}]
<1>1. /\ t \in Store
      /\ t.vehicles = s.vehicles \ {x}
      /\ t.paymentMethods = s.paymentMethods
      /\ t.reviews = s.reviews /\ t.shopChatThreads = s.shopChatThreads
      /\ t.uploads = s.uploads /\ t.aiChatSessions = s.aiChatSessions
      /\ t.aiDetections = s.aiDetections
  BY DEF WellFormed, Store
<1> HIDE DEF t
<1>2. In(t, "vehicles") = In(s, "vehicles") \ {x.id}
  BY <1>1, InEach, IdsOfOneLess DEF WellFormed, Distinct
<1>3. Elsewhere(s, t, "vehicles")
  BY <1>1, SameIn
<1>4. {x.id} \subseteq In(s, "vehicles")
  BY InEach DEF IdsOf
<1>5. SoundStore(t)
  BY <1>1 DEF WellFormed, SoundStore
<1>6. UniqueIds(t.vehicles)
  BY <1>1 DEF WellFormed, Distinct, UniqueIds
<1>7. /\ \A p, q \in Places : p # q => In(t, p) \cap In(t, q) = {}
      /\ Held(t) = (Held(s) \ {x.id}) \cup {}
  <2>1. "vehicles" \in Places
    BY DEF Places
  <2>2. \A p, q \in Places : p # q => In(s, p) \cap In(s, q) = {}
    BY DEF WellFormed, Distinct
  <2> QED
    BY <1>2, <1>3, <1>4, <2>1, <2>2, TakenFromOne
<1>8. Edit(s, t, {}, {x.id})
  BY <1>1, <1>5, <1>6, <1>7 DEF Edit, WellFormed, Distinct
<1> QED
  BY <1>8 DEF t

(* Reviews, uploads and detections are sets of ids. *)
LEMMA IdAdded ==
  ASSUME NEW s, WellFormed(s), NEW n \in Ids \ Held(s), NEW t,
         t \in {[s EXCEPT !.reviews = @ \cup {n}], [s EXCEPT !.uploads = @ \cup {n}],
                [s EXCEPT !.aiDetections = @ \cup {n}]}
  PROVE  Edit(s, t, {n}, {})
<1>1. /\ t \in Store
      /\ t.vehicles = s.vehicles /\ t.paymentMethods = s.paymentMethods
      /\ t.shopChatThreads = s.shopChatThreads
      /\ t.aiChatSessions = s.aiChatSessions
  BY DEF WellFormed, Store
<1>2. PICK k \in {"reviews", "uploads", "detections"} :
        /\ t.reviews = IF k = "reviews" THEN s.reviews \cup {n} ELSE s.reviews
        /\ t.uploads = IF k = "uploads" THEN s.uploads \cup {n} ELSE s.uploads
        /\ t.aiDetections =
             IF k = "detections" THEN s.aiDetections \cup {n} ELSE s.aiDetections
  <2>1. CASE t = [s EXCEPT !.reviews = @ \cup {n}]
    BY <2>1 DEF WellFormed, Store
  <2>2. CASE t = [s EXCEPT !.uploads = @ \cup {n}]
    BY <2>2 DEF WellFormed, Store
  <2>3. CASE t = [s EXCEPT !.aiDetections = @ \cup {n}]
    BY <2>3 DEF WellFormed, Store
  <2> QED
    BY <2>1, <2>2, <2>3
<1>3. In(t, k) = In(s, k) \cup {n}
  BY <1>2 DEF In
<1>4. Elsewhere(s, t, k)
  BY <1>1, <1>2 DEF Elsewhere, In
<1>5. SoundStore(t)
  BY <1>1 DEF WellFormed, SoundStore
<1>6. k \in Places
  BY DEF Places
<1>7. /\ \A p, q \in Places : p # q => In(t, p) \cap In(t, q) = {}
      /\ Held(t) = (Held(s) \ {}) \cup {n}
  BY <1>3, <1>4, <1>6, AddedTo DEF WellFormed, Distinct
<1> QED
  BY <1>1, <1>5, <1>7 DEF Edit, WellFormed, Distinct

LEMMA DetectionDeleted ==
  ASSUME NEW s, WellFormed(s), NEW x \in s.aiDetections
  PROVE  Edit(s, [s EXCEPT !.aiDetections = @ \ {x}], {}, {x})
<1> DEFINE t == [s EXCEPT !.aiDetections = @ \ {x}]
<1>1. /\ t \in Store
      /\ t.vehicles = s.vehicles /\ t.paymentMethods = s.paymentMethods
      /\ t.reviews = s.reviews /\ t.shopChatThreads = s.shopChatThreads
      /\ t.uploads = s.uploads /\ t.aiChatSessions = s.aiChatSessions
      /\ t.aiDetections = s.aiDetections \ {x}
  BY DEF WellFormed, Store
<1> HIDE DEF t
<1>2. In(t, "detections") = In(s, "detections") \ {x} /\ {x} \subseteq In(s, "detections")
  BY <1>1, InEach
<1>3. Elsewhere(s, t, "detections")
  BY <1>1, SameIn
<1>4. SoundStore(t)
  BY <1>1 DEF WellFormed, SoundStore
<1>5. /\ \A p, q \in Places : p # q => In(t, p) \cap In(t, q) = {}
      /\ Held(t) = (Held(s) \ {x}) \cup {}
  <2>1. "detections" \in Places
    BY DEF Places
  <2>2. \A p, q \in Places : p # q => In(s, p) \cap In(s, q) = {}
    BY DEF WellFormed, Distinct
  <2> QED
    BY <1>2, <1>3, <2>1, <2>2, TakenFromOne
<1>6. Edit(s, t, {}, {x})
  BY <1>1, <1>4, <1>5 DEF Edit, WellFormed, Distinct
<1> QED
  BY <1>6 DEF t

(* Taking the flag from the others leaves the methods as they are. *)
LEMMA UndefaultedMethods ==
  ASSUME NEW methods \in SUBSET PaymentMethod
  PROVE  /\ Undefaulted(methods) \in SUBSET PaymentMethod
         /\ IdsOf(Undefaulted(methods)) = IdsOf(methods)
         /\ UniqueIds(methods) => UniqueIds(Undefaulted(methods))
         /\ \A m \in Undefaulted(methods) : ~m.isDefault
<1> DEFINE f(m) == [m EXCEPT !.isDefault = FALSE]
<1>1. \A m \in methods : f(m) \in PaymentMethod /\ f(m).id = m.id /\ ~f(m).isDefault
  BY DEF PaymentMethod
<1>2. Undefaulted(methods) = {f(m) : m \in methods}
  BY DEF Undefaulted
<1> HIDE DEF f
<1>3. IdsOf(Undefaulted(methods)) = IdsOf(methods)
  BY <1>1, <1>2 DEF IdsOf
<1>4. UniqueIds(methods) => UniqueIds(Undefaulted(methods))
  BY <1>1, <1>2 DEF UniqueIds
<1> QED
  BY <1>1, <1>2, <1>3, <1>4

LEMMA PaymentMethodCreated ==
  ASSUME NEW s, WellFormed(s), NEW n \in Ids \ Held(s), NEW d \in BOOLEAN
  PROVE  Edit(s, [s EXCEPT !.paymentMethods =
                    (IF d THEN Undefaulted(@) ELSE @) \cup {[id |-> n, isDefault |-> d]}],
              {n}, {})
<1> DEFINE x == [id |-> n, isDefault |-> d]
<1> DEFINE others == IF d THEN Undefaulted(s.paymentMethods) ELSE s.paymentMethods
<1> DEFINE t == [s EXCEPT !.paymentMethods =
                   (IF d THEN Undefaulted(@) ELSE @) \cup {x}]
<1>1. x \in PaymentMethod /\ x.id = n /\ x.isDefault = d
  BY DEF PaymentMethod
<1>2. s.paymentMethods \in SUBSET PaymentMethod
  BY DEF WellFormed, Store
<1>3. UniqueIds(s.paymentMethods)
  BY DEF WellFormed, Distinct
<1>4. /\ others \in SUBSET PaymentMethod
      /\ IdsOf(others) = IdsOf(s.paymentMethods)
      /\ UniqueIds(others)
  BY <1>2, <1>3, UndefaultedMethods
<1>5. \A m, o \in others \cup {x} : m.isDefault /\ o.isDefault => m = o
  <2>1. CASE d
    <3>1. \A m \in others : ~m.isDefault
      BY <1>2, <2>1, UndefaultedMethods
    <3> QED
      BY <3>1
  <2>2. CASE ~d
    <3>1. others = s.paymentMethods
      BY <2>2
    <3> QED
      BY <1>1, <2>2, <3>1 DEF WellFormed, SoundStore
  <2> QED
    BY <2>1, <2>2
<1> HIDE DEF x
<1>6. /\ t \in Store
      /\ t.vehicles = s.vehicles
      /\ t.paymentMethods = others \cup {x}
      /\ t.reviews = s.reviews /\ t.shopChatThreads = s.shopChatThreads
      /\ t.uploads = s.uploads /\ t.aiChatSessions = s.aiChatSessions
      /\ t.aiDetections = s.aiDetections
  BY <1>1, <1>4 DEF WellFormed, Store
<1> HIDE DEF t, others
<1>7. In(t, "paymentMethods") = In(s, "paymentMethods") \cup {n}
  BY <1>1, <1>4, <1>6, InEach, IdsOfOneMore
<1>8. Elsewhere(s, t, "paymentMethods")
  BY <1>6, SameIn
<1>9. SoundStore(t)
  BY <1>5, <1>6 DEF WellFormed, SoundStore
<1>10. UniqueIds(t.paymentMethods)
  <2>1. n \notin IdsOf(others)
    BY <1>4 DEF Held
  <2>2. \A y \in others : y.id # n
    BY <2>1 DEF IdsOf
  <2> QED
    BY <1>1, <1>4, <1>6, <2>2 DEF UniqueIds
<1>11. /\ \A p, q \in Places : p # q => In(t, p) \cap In(t, q) = {}
       /\ Held(t) = (Held(s) \ {}) \cup {n}
  <2>1. "paymentMethods" \in Places
    BY DEF Places
  <2>2. \A p, q \in Places : p # q => In(s, p) \cap In(s, q) = {}
    BY DEF WellFormed, Distinct
  <2> QED
    BY <1>7, <1>8, <2>1, <2>2, AddedTo
<1>12. Edit(s, t, {n}, {})
  BY <1>6, <1>9, <1>10, <1>11 DEF Edit, WellFormed, Distinct
<1> QED
  BY <1>12 DEF t, x

LEMMA PaymentMethodDeleted ==
  ASSUME NEW s, WellFormed(s), NEW x \in s.paymentMethods
  PROVE  Edit(s, [s EXCEPT !.paymentMethods = @ \ {x}], {}, {x.id})
<1> DEFINE t == [s EXCEPT !.paymentMethods = @ \ {x}]
<1>1. /\ t \in Store
      /\ t.vehicles = s.vehicles
      /\ t.paymentMethods = s.paymentMethods \ {x}
      /\ t.reviews = s.reviews /\ t.shopChatThreads = s.shopChatThreads
      /\ t.uploads = s.uploads /\ t.aiChatSessions = s.aiChatSessions
      /\ t.aiDetections = s.aiDetections
  BY DEF WellFormed, Store
<1> HIDE DEF t
<1>2. In(t, "paymentMethods") = In(s, "paymentMethods") \ {x.id}
  BY <1>1, InEach, IdsOfOneLess DEF WellFormed, Distinct
<1>3. Elsewhere(s, t, "paymentMethods")
  BY <1>1, SameIn
<1>4. {x.id} \subseteq In(s, "paymentMethods")
  BY InEach DEF IdsOf
<1>5. SoundStore(t)
  BY <1>1 DEF WellFormed, SoundStore
<1>6. UniqueIds(t.paymentMethods)
  BY <1>1 DEF WellFormed, Distinct, UniqueIds
<1>7. /\ \A p, q \in Places : p # q => In(t, p) \cap In(t, q) = {}
      /\ Held(t) = (Held(s) \ {x.id}) \cup {}
  <2>1. "paymentMethods" \in Places
    BY DEF Places
  <2>2. \A p, q \in Places : p # q => In(s, p) \cap In(s, q) = {}
    BY DEF WellFormed, Distinct
  <2> QED
    BY <1>2, <1>3, <1>4, <2>1, <2>2, TakenFromOne
<1>8. Edit(s, t, {}, {x.id})
  BY <1>1, <1>5, <1>6, <1>7 DEF Edit, WellFormed, Distinct
<1> QED
  BY <1>8 DEF t

LEMMA ShopChatThreadCreated ==
  ASSUME NEW s, WellFormed(s), NEW n \in Ids \ Held(s), NEW shop \in Shops,
         \A thread \in s.shopChatThreads : thread.shopId # shop
  PROVE  Edit(s, [s EXCEPT !.shopChatThreads =
                    @ \cup {[id |-> n, shopId |-> shop, messages |-> {}]}], {n}, {})
<1> DEFINE x == [id |-> n, shopId |-> shop, messages |-> {}]
<1> DEFINE t == [s EXCEPT !.shopChatThreads = @ \cup {x}]
<1>1. x \in ChatThread /\ x.id = n /\ x.shopId = shop /\ x.messages = {}
  BY DEF ChatThread
<1> HIDE DEF x
<1>2. /\ t \in Store
      /\ t.vehicles = s.vehicles /\ t.paymentMethods = s.paymentMethods
      /\ t.reviews = s.reviews /\ t.shopChatThreads = s.shopChatThreads \cup {x}
      /\ t.uploads = s.uploads /\ t.aiChatSessions = s.aiChatSessions
      /\ t.aiDetections = s.aiDetections
  BY <1>1 DEF WellFormed, Store
<1> HIDE DEF t
<1>3. In(t, "threads") = In(s, "threads") \cup {n}
  <2>1. IdsOf(s.shopChatThreads \cup {x}) = IdsOf(s.shopChatThreads) \cup {n}
    BY <1>1, IdsOfOneMore
  <2> QED
    BY <1>2, <2>1, InEach
<1>4. Elsewhere(s, t, "threads")
  <2>1. Messages(t.shopChatThreads) = Messages(s.shopChatThreads)
    <3>1. Messages(s.shopChatThreads \cup {x}) = Messages(s.shopChatThreads) \cup x.messages
      BY MessagesOneMore
    <3> QED
      BY <1>1, <1>2, <3>1
  <2> QED
    BY <1>2, <2>1, SameIn
<1>5. SoundStore(t)
  BY <1>1, <1>2 DEF WellFormed, SoundStore
<1>6. /\ \A p, q \in Places : p # q => In(t, p) \cap In(t, q) = {}
      /\ Held(t) = (Held(s) \ {}) \cup {n}
  <2>1. "threads" \in Places
    BY DEF Places
  <2>2. \A p, q \in Places : p # q => In(s, p) \cap In(s, q) = {}
    BY DEF WellFormed, Distinct
  <2> QED
    BY <1>3, <1>4, <2>1, <2>2, AddedTo
<1>7. Edit(s, t, {n}, {})
  BY <1>2, <1>5, <1>6 DEF Edit, WellFormed, Distinct
<1> QED
  BY <1>7 DEF t, x

LEMMA ShopChatMessageCreated ==
  ASSUME NEW s, WellFormed(s), NEW n \in Ids \ Held(s), NEW x \in s.shopChatThreads
  PROVE  Edit(s, [s EXCEPT !.shopChatThreads =
                    (@ \ {x}) \cup {[x EXCEPT !.messages = @ \cup {n}]}], {n}, {})
<1> DEFINE y == [x EXCEPT !.messages = @ \cup {n}]
<1> DEFINE t == [s EXCEPT !.shopChatThreads = (@ \ {x}) \cup {y}]
<1>1. x \in ChatThread
  BY DEF WellFormed, Store
<1>2. /\ y \in ChatThread /\ y.id = x.id /\ y.shopId = x.shopId
      /\ y.messages = x.messages \cup {n}
  BY <1>1 DEF ChatThread
<1> HIDE DEF y
<1>3. /\ t \in Store
      /\ t.vehicles = s.vehicles /\ t.paymentMethods = s.paymentMethods
      /\ t.reviews = s.reviews /\ t.shopChatThreads = (s.shopChatThreads \ {x}) \cup {y}
      /\ t.uploads = s.uploads /\ t.aiChatSessions = s.aiChatSessions
      /\ t.aiDetections = s.aiDetections
  BY <1>2 DEF WellFormed, Store
<1> HIDE DEF t
<1>4. In(t, "shopMessages") = In(s, "shopMessages") \cup {n}
  <2>1. Messages((s.shopChatThreads \ {x}) \cup {y}) = Messages(s.shopChatThreads) \cup {n}
    <3>1. y.messages = x.messages \cup {n}
      BY <1>2
    <3> QED
      BY <3>1 DEF Messages
  <2> QED
    BY <1>3, <2>1, InEach
<1>5. Elsewhere(s, t, "shopMessages")
  <2>1. IdsOf(t.shopChatThreads) = IdsOf(s.shopChatThreads)
    BY <1>2, <1>3, IdsOfChanged
  <2> QED
    BY <1>3, <2>1, SameIn
<1>6. SoundStore(t)
  BY <1>2, <1>3 DEF WellFormed, SoundStore
<1>7. /\ \A p, q \in Places : p # q => In(t, p) \cap In(t, q) = {}
      /\ Held(t) = (Held(s) \ {}) \cup {n}
  <2>1. "shopMessages" \in Places
    BY DEF Places
  <2>2. \A p, q \in Places : p # q => In(s, p) \cap In(s, q) = {}
    BY DEF WellFormed, Distinct
  <2> QED
    BY <1>4, <1>5, <2>1, <2>2, AddedTo
<1>8. Edit(s, t, {n}, {})
  BY <1>3, <1>6, <1>7 DEF Edit, WellFormed, Distinct
<1> QED
  BY <1>8 DEF t, y

LEMMA AiChatSessionCreated ==
  ASSUME NEW s, WellFormed(s), NEW n \in Ids \ Held(s)
  PROVE  Edit(s, [s EXCEPT !.aiChatSessions = @ \cup {[id |-> n, messages |-> {}]}], {n}, {})
<1> DEFINE x == [id |-> n, messages |-> {}]
<1> DEFINE t == [s EXCEPT !.aiChatSessions = @ \cup {x}]
<1>1. x \in AiChatSession /\ x.id = n /\ x.messages = {}
  BY DEF AiChatSession
<1> HIDE DEF x
<1>2. /\ t \in Store
      /\ t.vehicles = s.vehicles /\ t.paymentMethods = s.paymentMethods
      /\ t.reviews = s.reviews /\ t.shopChatThreads = s.shopChatThreads
      /\ t.uploads = s.uploads /\ t.aiChatSessions = s.aiChatSessions \cup {x}
      /\ t.aiDetections = s.aiDetections
  BY <1>1 DEF WellFormed, Store
<1> HIDE DEF t
<1>3. In(t, "sessions") = In(s, "sessions") \cup {n}
  <2>1. IdsOf(s.aiChatSessions \cup {x}) = IdsOf(s.aiChatSessions) \cup {n}
    BY <1>1, IdsOfOneMore
  <2> QED
    BY <1>2, <2>1, InEach
<1>4. Elsewhere(s, t, "sessions")
  <2>1. Messages(t.aiChatSessions) = Messages(s.aiChatSessions)
    <3>1. Messages(s.aiChatSessions \cup {x}) = Messages(s.aiChatSessions) \cup x.messages
      BY MessagesOneMore
    <3> QED
      BY <1>1, <1>2, <3>1
  <2> QED
    BY <1>2, <2>1, SameIn
<1>5. SoundStore(t)
  BY <1>2 DEF WellFormed, SoundStore
<1>6. /\ UniqueIds(t.aiChatSessions)
      /\ \A c, d \in t.aiChatSessions : c # d => c.messages \cap d.messages = {}
  <2>1. \A c \in s.aiChatSessions : c.id # n
    BY DEF Held, IdsOf
  <2> QED
    BY <1>1, <1>2, <2>1 DEF WellFormed, Distinct, UniqueIds
<1>7. /\ \A p, q \in Places : p # q => In(t, p) \cap In(t, q) = {}
      /\ Held(t) = (Held(s) \ {}) \cup {n}
  <2>1. "sessions" \in Places
    BY DEF Places
  <2>2. \A p, q \in Places : p # q => In(s, p) \cap In(s, q) = {}
    BY DEF WellFormed, Distinct
  <2> QED
    BY <1>3, <1>4, <2>1, <2>2, AddedTo
<1>8. Edit(s, t, {n}, {})
  BY <1>2, <1>5, <1>6, <1>7 DEF Edit, WellFormed, Distinct
<1> QED
  BY <1>8 DEF t, x

LEMMA AiChatSessionDeleted ==
  ASSUME NEW s, WellFormed(s), NEW x \in s.aiChatSessions
  PROVE  Edit(s, [s EXCEPT !.aiChatSessions = @ \ {x}], {}, {x.id} \cup x.messages)
<1> DEFINE t == [s EXCEPT !.aiChatSessions = @ \ {x}]
<1> DEFINE gone == {x.id} \cup x.messages
<1>1. /\ t \in Store
      /\ t.vehicles = s.vehicles /\ t.paymentMethods = s.paymentMethods
      /\ t.reviews = s.reviews /\ t.shopChatThreads = s.shopChatThreads
      /\ t.uploads = s.uploads /\ t.aiChatSessions = s.aiChatSessions \ {x}
      /\ t.aiDetections = s.aiDetections
  BY DEF WellFormed, Store
<1> HIDE DEF t
<1>2. In(t, "sessions") = In(s, "sessions") \ {x.id}
  <2>1. IdsOf(s.aiChatSessions \ {x}) = IdsOf(s.aiChatSessions) \ {x.id}
    BY IdsOfOneLess DEF WellFormed, Distinct
  <2> QED
    BY <1>1, <2>1, InEach
<1>3. In(t, "aiMessages") = In(s, "aiMessages") \ x.messages
  <2>1. Messages(s.aiChatSessions \ {x}) = Messages(s.aiChatSessions) \ x.messages
    BY MessagesOneLess DEF WellFormed, Distinct
  <2> QED
    BY <1>1, <2>1, InEach
<1>4. \A p \in Places \ {"sessions", "aiMessages"} : In(t, p) = In(s, p)
  BY <1>1 DEF In, Places
<1>5. x.id \in In(s, "sessions") /\ x.messages \subseteq In(s, "aiMessages")
  BY InEach DEF IdsOf, Messages
<1>6. \A p, q \in Places : p # q => In(s, p) \cap In(s, q) = {}
  BY DEF WellFormed, Distinct
<1>7. "sessions" \in Places /\ "aiMessages" \in Places /\ "sessions" # "aiMessages"
  BY DEF Places
<1>8. \A p \in Places : In(t, p) = In(s, p) \ gone
  BY <1>2, <1>3, <1>4, <1>5, <1>6, <1>7
<1> HIDE DEF gone
<1>9. /\ \A p, q \in Places : p # q => In(t, p) \cap In(t, q) = {}
      /\ Held(t) = (Held(s) \ gone) \cup {}
  BY <1>6, <1>8, TakenFrom
<1>10. SoundStore(t)
  BY <1>1 DEF WellFormed, SoundStore
<1>11. /\ UniqueIds(t.aiChatSessions)
       /\ \A c, d \in t.aiChatSessions : c # d => c.messages \cap d.messages = {}
  BY <1>1 DEF WellFormed, Distinct, UniqueIds
<1>12. Edit(s, t, {}, gone)
  BY <1>1, <1>9, <1>10, <1>11 DEF Edit, WellFormed, Distinct
<1> QED
  BY <1>12 DEF t, gone

LEMMA AiChatMessagesCreated ==
  ASSUME NEW s, WellFormed(s), NEW n \in Ids \ Held(s), NEW x \in s.aiChatSessions
  PROVE  Edit(s, [s EXCEPT !.aiChatSessions =
                    (@ \ {x}) \cup {[x EXCEPT !.messages = @ \cup {n}]}], {n}, {})
<1> DEFINE y == [x EXCEPT !.messages = @ \cup {n}]
<1> DEFINE t == [s EXCEPT !.aiChatSessions = (@ \ {x}) \cup {y}]
<1>1. x \in AiChatSession
  BY DEF WellFormed, Store
<1>2. y \in AiChatSession /\ y.id = x.id /\ y.messages = x.messages \cup {n}
  BY <1>1 DEF AiChatSession
<1> HIDE DEF y
<1>3. /\ t \in Store
      /\ t.vehicles = s.vehicles /\ t.paymentMethods = s.paymentMethods
      /\ t.reviews = s.reviews /\ t.shopChatThreads = s.shopChatThreads
      /\ t.uploads = s.uploads /\ t.aiChatSessions = (s.aiChatSessions \ {x}) \cup {y}
      /\ t.aiDetections = s.aiDetections
  BY <1>2 DEF WellFormed, Store
<1> HIDE DEF t
<1>4. In(t, "aiMessages") = In(s, "aiMessages") \cup {n}
  <2>1. Messages((s.aiChatSessions \ {x}) \cup {y}) = Messages(s.aiChatSessions) \cup {n}
    <3>1. y.messages = x.messages \cup {n}
      BY <1>2
    <3> QED
      BY <3>1 DEF Messages
  <2> QED
    BY <1>3, <2>1, InEach
<1>5. Elsewhere(s, t, "aiMessages")
  <2>1. IdsOf(t.aiChatSessions) = IdsOf(s.aiChatSessions)
    BY <1>2, <1>3, IdsOfChanged
  <2> QED
    BY <1>3, <2>1, SameIn
<1>6. SoundStore(t)
  BY <1>3 DEF WellFormed, SoundStore
<1>7. UniqueIds(t.aiChatSessions)
  BY <1>2, <1>3 DEF WellFormed, Distinct, UniqueIds
<1>8. \A c, d \in t.aiChatSessions : c # d => c.messages \cap d.messages = {}
  <2>1. \A c \in s.aiChatSessions : n \notin c.messages
    BY DEF Held, Messages
  <2>2. \A c, d \in s.aiChatSessions : c # d => c.messages \cap d.messages = {}
    BY DEF WellFormed, Distinct
  <2> QED
    BY <1>2, <1>3, <2>1, <2>2
<1>9. /\ \A p, q \in Places : p # q => In(t, p) \cap In(t, q) = {}
      /\ Held(t) = (Held(s) \ {}) \cup {n}
  <2>1. "aiMessages" \in Places
    BY DEF Places
  <2>2. \A p, q \in Places : p # q => In(s, p) \cap In(s, q) = {}
    BY DEF WellFormed, Distinct
  <2> QED
    BY <1>4, <1>5, <2>1, <2>2, AddedTo
<1>10. Edit(s, t, {n}, {})
  BY <1>3, <1>6, <1>7, <1>8, <1>9 DEF Edit, WellFormed, Distinct
<1> QED
  BY <1>10 DEF t, y

-------------------------------------------------------------------------------
(* What one request in flight may rely on, whatever was written since its  *)
(* read: it writes a well-formed value, made of ids given out, that holds  *)
(* what is owed and nothing deleted but what was exposed to an overlap.    *)
Promise(call) ==
  /\ WellFormed(call.next)
  /\ call.made \subseteq Held(call.next)
  /\ call.gone \cap Held(call.next) = {}
  /\ Held(call.next) \cup call.made \cup call.gone \subseteq 1..issued
  /\ owed \subseteq Held(call.next) \cup call.gone \cup exposed
  /\ deleted \cap Held(call.next) \subseteq exposed

StoreInv ==
  /\ TypeOK
  /\ WellFormed(store)
  /\ Held(store) \cup deleted \subseteq 1..issued
  /\ LossNeedsOverlap
  /\ ReturnNeedsOverlap
  /\ \A r \in Requests : InFlight(r) => Promise(requests[r])

LEMMA NothingHeld ==
  ASSUME NEW s, s.vehicles = {}, s.paymentMethods = {}, s.reviews = {}, s.uploads = {},
         s.shopChatThreads = {}, s.aiChatSessions = {}, s.aiDetections = {}, s \in Store
  PROVE  WellFormed(s) /\ Held(s) = {}
<1>1. IdsOf({}) = {} /\ Messages({}) = {}
  BY DEF IdsOf, Messages
<1>2. Held(s) = {}
  BY <1>1 DEF Held
<1>3. \A p \in Places : In(s, p) = {}
  BY <1>1 DEF In, Places
<1>4. SoundStore(s) /\ Distinct(s)
  BY <1>3 DEF SoundStore, Distinct, UniqueIds
<1> QED
  BY <1>2, <1>4 DEF WellFormed

LEMMA NoStoreHoldsNothing == WellFormed(NoStore) /\ Held(NoStore) = {}
<1>1. /\ NoStore \in Store
      /\ NoStore.vehicles = {} /\ NoStore.paymentMethods = {} /\ NoStore.reviews = {}
      /\ NoStore.uploads = {} /\ NoStore.shopChatThreads = {}
      /\ NoStore.aiChatSessions = {} /\ NoStore.aiDetections = {}
  BY DEF NoStore, Store
<1> QED
  BY <1>1, NothingHeld

LEMMA InitialStore == Init => StoreInv
<1> SUFFICES ASSUME Init PROVE StoreInv
  OBVIOUS
<1>1. PICK v \in Values : store = SignedUpStore(v)
  BY DEF Init
<1>2. /\ store \in Store
      /\ store.vehicles = {} /\ store.paymentMethods = {} /\ store.reviews = {}
      /\ store.uploads = {} /\ store.shopChatThreads = {}
      /\ store.aiChatSessions = {} /\ store.aiDetections = {}
  BY <1>1 DEF SignedUpStore, NoStore, Store
<1>3. WellFormed(store) /\ Held(store) = {}
  BY <1>2, NothingHeld
<1>4. \A r \in Requests : ~InFlight(r)
  BY DEF Init, InFlight
<1>5. TypeOK
  BY <1>2 DEF Init, TypeOK
<1> QED
  BY <1>3, <1>4, <1>5 DEF StoreInv, Init, LossNeedsOverlap, ReturnNeedsOverlap

(* A read, and the new value computed from it: made is an id never given   *)
(* out before, or nothing.                                                 *)
LEMMA BeginKeeps ==
  ASSUME StoreInv, NEW r \in Requests, NEW next, NEW made, NEW gone,
         Begin(r, next, made, gone),
         made \in {{}, {NewId}}, gone \subseteq Held(store),
         Edit(store, next, made, gone)
  PROVE  StoreInv'
<1> DEFINE call == [step |-> "save", view |-> "current", next |-> next,
                    made |-> made, gone |-> gone]
<1>1. /\ ~InFlight(r) /\ calls < MaxCalls /\ made \subseteq Ids
      /\ requests' = [requests EXCEPT ![r] = call]
      /\ issued' = issued + Cardinality(made)
      /\ calls' = calls + 1
      /\ UNCHANGED <<store, owed, deleted, exposed>>
  BY DEF Begin
<1>2. /\ issued \in 0..MaxId /\ calls \in 0..MaxCalls
      /\ owed \subseteq Ids /\ deleted \subseteq Ids /\ exposed \subseteq Ids
      /\ store \in Store /\ requests \in [Requests -> {Idle} \cup SaveCall]
  BY DEF StoreInv, TypeOK
<1>3. /\ issued' \in 0..MaxId /\ made \subseteq 1..issued' /\ 1..issued \subseteq 1..issued'
      /\ made \cap 1..issued = {}
  <2>1. CASE made = {}
    <3>1. Cardinality(made) = 0
      BY <2>1, FS_EmptySet
    <3> QED
      BY <1>1, <1>2, <2>1, <3>1
  <2>2. CASE made = {NewId}
    <3>1. Cardinality(made) = 1
      BY <2>2, FS_Singleton
    <3> QED
      BY <1>1, <1>2, <2>2, <3>1 DEF NewId, Ids
  <2> QED
    BY <2>1, <2>2
<1>4. Held(store) \cup deleted \subseteq 1..issued /\ 1..issued \subseteq Ids
  BY <1>2 DEF StoreInv, Ids
<1>5. /\ WellFormed(next)
      /\ Held(next) = (Held(store) \ gone) \cup made
      /\ made \cap gone = {}
  BY DEF Edit
<1>6. call \in SaveCall
  BY <1>1, <1>4, <1>5 DEF SaveCall, WellFormed
<1>7. TypeOK'
  BY <1>1, <1>2, <1>3, <1>6 DEF TypeOK
<1>8. WellFormed(store)' /\ (Held(store) \cup deleted \subseteq 1..issued)'
  <2>1. store' = store /\ deleted' = deleted
    BY <1>1
  <2>2. WellFormed(store)
    BY DEF StoreInv
  <2> QED
    BY <1>3, <1>4, <2>1, <2>2
<1>9. LossNeedsOverlap' /\ ReturnNeedsOverlap'
  BY <1>1 DEF StoreInv, LossNeedsOverlap, ReturnNeedsOverlap
<1>10. ASSUME NEW q \in Requests, InFlight(q)' PROVE Promise(requests[q])'
  <2>1. CASE q = r
    <3>1. requests'[q] = call
      BY <1>1, <1>2, <2>1
    <3>2. /\ owed \subseteq Held(store) \cup exposed
          /\ deleted \cap Held(store) \subseteq exposed
      BY DEF StoreInv, LossNeedsOverlap, ReturnNeedsOverlap
    <3>3. /\ WellFormed(call.next)
          /\ call.made \subseteq Held(call.next)
          /\ call.gone \cap Held(call.next) = {}
          /\ Held(call.next) \cup call.made \cup call.gone \subseteq 1..issued'
          /\ owed \subseteq Held(call.next) \cup call.gone \cup exposed
          /\ deleted \cap Held(call.next) \subseteq exposed
      BY <1>3, <1>4, <1>5, <3>2
    <3> HIDE DEF call
    <3> QED
      BY <1>1, <3>1, <3>3 DEF Promise
  <2>2. CASE q # r
    <3>1. requests'[q] = requests[q]
      BY <1>1, <1>2, <2>2
    <3>2. Promise(requests[q])
      BY <1>10, <3>1 DEF StoreInv, InFlight
    <3> QED
      BY <1>1, <1>3, <3>1, <3>2 DEF Promise
  <2> QED
    BY <2>1, <2>2
<1> QED
  BY <1>7, <1>8, <1>9, <1>10 DEF StoreInv

(* The handlers, from a store that is well formed and ids that are new *)
LEMMA RequestKeeps ==
  ASSUME StoreInv, NEW r \in Requests,
         \/ UpdateMe(r) \/ UpdateProfile(r) \/ UpdatePreferences(r) \/ VerifyEmail(r)
         \/ CreateVehicle(r) \/ UpdateVehicle(r) \/ DeleteVehicle(r)
         \/ CreateShopReview(r)
         \/ CreatePaymentMethod(r) \/ DeletePaymentMethod(r)
         \/ CreateShopChatThread(r) \/ CreateShopChatMessage(r)
         \/ CreateUploadedImage(r)
         \/ CreateAiChatSession(r) \/ DeleteAiChatSession(r) \/ CreateAiChatMessages(r)
         \/ CreateAiDetection(r) \/ DeleteAiDetection(r)
  PROVE  StoreInv'
<1>1. WellFormed(store) /\ Held(store) \subseteq 1..issued /\ issued \in Nat
  BY MobileStoreAssumption DEF StoreInv, TypeOK
<1>2. /\ store.username \in Values \cup {NoValue} /\ store.profile \in Values \cup {NoValue}
      /\ store.preferences \in Values \cup {NoValue}
  BY <1>1 DEF WellFormed, Store
<1>3. ASSUME NEW next, Creates(r, next) PROVE NewId \in Ids \ Held(store)
  BY <1>1, <1>3 DEF Creates, Begin, NewId
<1>4. ASSUME NEW next, Changes(r, next), Edit(store, next, {}, {}) PROVE StoreInv'
  <2>1. Begin(r, next, {}, {})
    BY <1>4 DEF Changes
  <2> QED
    BY <1>4, <2>1, BeginKeeps
<1>5. ASSUME NEW next, Creates(r, next), Edit(store, next, {NewId}, {}) PROVE StoreInv'
  <2>1. Begin(r, next, {NewId}, {})
    BY <1>5 DEF Creates
  <2> QED
    BY <1>5, <2>1, BeginKeeps
<1>6. ASSUME NEW next, NEW gone, gone \subseteq Held(store), Deletes(r, next, gone),
             Edit(store, next, {}, gone)
      PROVE  StoreInv'
  <2>1. Begin(r, next, {}, gone)
    BY <1>6 DEF Deletes
  <2> QED
    BY <1>6, <2>1, BeginKeeps
<1>7. CASE UpdateMe(r)
  <2>1. PICK v \in Values \cup {store.username} : Changes(r, [store EXCEPT !.username = v])
    BY <1>7 DEF UpdateMe
  <2>2. Edit(store, [store EXCEPT !.username = v], {}, {})
    BY <1>1, <1>2, <2>1, SettingSet
  <2> QED
    BY <1>4, <2>1, <2>2
<1>8. CASE UpdateProfile(r)
  <2>1. PICK v \in Values \cup {store.profile} : Changes(r, [store EXCEPT !.profile = v])
    BY <1>8 DEF UpdateProfile
  <2>2. Edit(store, [store EXCEPT !.profile = v], {}, {})
    BY <1>1, <1>2, <2>1, SettingSet
  <2> QED
    BY <1>4, <2>1, <2>2
<1>9. CASE UpdatePreferences(r)
  <2>1. PICK v \in Values \cup {store.preferences} :
          Changes(r, [store EXCEPT !.preferences = v])
    BY <1>9 DEF UpdatePreferences
  <2>2. Edit(store, [store EXCEPT !.preferences = v], {}, {})
    BY <1>1, <1>2, <2>1, SettingSet
  <2> QED
    BY <1>4, <2>1, <2>2
<1>10. CASE VerifyEmail(r)
  <2>1. PICK v \in Values : Changes(r, [store EXCEPT !.emailVerified = v])
    BY <1>10 DEF VerifyEmail
  <2>2. Edit(store, [store EXCEPT !.emailVerified = v], {}, {})
    BY <1>1, <2>1, SettingSet
  <2> QED
    BY <1>4, <2>1, <2>2
<1>11. CASE CreateVehicle(r)
  <2>1. PICK v \in Values \cup {NoValue} :
          Creates(r, [store EXCEPT !.vehicles = @ \cup {[id |-> NewId, nickname |-> v]}])
    BY <1>11 DEF CreateVehicle
  <2> QED
    BY <1>1, <1>3, <1>5, <2>1, VehicleCreated
<1>12. CASE UpdateVehicle(r)
  <2>1. PICK x \in store.vehicles, v \in Values :
          Changes(r, [store EXCEPT !.vehicles = (@ \ {x}) \cup {[x EXCEPT !.nickname = v]}])
    BY <1>12 DEF UpdateVehicle
  <2> QED
    BY <1>1, <1>4, <2>1, VehicleUpdated
<1>13. CASE DeleteVehicle(r)
  <2>1. PICK x \in store.vehicles :
          Deletes(r, [store EXCEPT !.vehicles = @ \ {x}], {x.id})
    BY <1>13 DEF DeleteVehicle
  <2>2. {x.id} \subseteq Held(store)
    BY DEF Held, IdsOf
  <2> QED
    BY <1>1, <1>6, <2>1, <2>2, VehicleDeleted
<1>14. CASE CreateShopReview(r) \/ CreateUploadedImage(r) \/ CreateAiDetection(r)
  <2>1. PICK t \in {[store EXCEPT !.reviews = @ \cup {NewId}],
                    [store EXCEPT !.uploads = @ \cup {NewId}],
                    [store EXCEPT !.aiDetections = @ \cup {NewId}]} : Creates(r, t)
    BY <1>14 DEF CreateShopReview, CreateUploadedImage, CreateAiDetection
  <2> QED
    BY <1>1, <1>3, <1>5, <2>1, IdAdded
<1>15. CASE CreatePaymentMethod(r)
  <2>1. PICK d \in BOOLEAN :
          Creates(r, [store EXCEPT !.paymentMethods =
            (IF d THEN Undefaulted(@) ELSE @) \cup {[id |-> NewId, isDefault |-> d]}])
    BY <1>15 DEF CreatePaymentMethod
  <2> QED
    BY <1>1, <1>3, <1>5, <2>1, PaymentMethodCreated
<1>16. CASE DeletePaymentMethod(r)
  <2>1. PICK x \in store.paymentMethods :
          Deletes(r, [store EXCEPT !.paymentMethods = @ \ {x}], {x.id})
    BY <1>16 DEF DeletePaymentMethod
  <2>2. {x.id} \subseteq Held(store)
    BY DEF Held, IdsOf
  <2> QED
    BY <1>1, <1>6, <2>1, <2>2, PaymentMethodDeleted
<1>17. CASE CreateShopChatThread(r)
  <2>1. PICK shop \in Shops :
          /\ \A thread \in store.shopChatThreads : thread.shopId # shop
          /\ Creates(r, [store EXCEPT !.shopChatThreads =
               @ \cup {[id |-> NewId, shopId |-> shop, messages |-> {}]}])
    BY <1>17 DEF CreateShopChatThread
  <2> QED
    BY <1>1, <1>3, <1>5, <2>1, ShopChatThreadCreated
<1>18. CASE CreateShopChatMessage(r)
  <2>1. PICK x \in store.shopChatThreads :
          Creates(r, [store EXCEPT !.shopChatThreads =
            (@ \ {x}) \cup {[x EXCEPT !.messages = @ \cup {NewId}]}])
    BY <1>18 DEF CreateShopChatMessage
  <2> QED
    BY <1>1, <1>3, <1>5, <2>1, ShopChatMessageCreated
<1>19. CASE CreateAiChatSession(r)
  <2>1. Creates(r, [store EXCEPT !.aiChatSessions =
          @ \cup {[id |-> NewId, messages |-> {}]}])
    BY <1>19 DEF CreateAiChatSession
  <2> QED
    BY <1>1, <1>3, <1>5, <2>1, AiChatSessionCreated
<1>20. CASE DeleteAiChatSession(r)
  <2>1. PICK x \in store.aiChatSessions :
          Deletes(r, [store EXCEPT !.aiChatSessions = @ \ {x}], {x.id} \cup x.messages)
    BY <1>20 DEF DeleteAiChatSession
  <2>2. {x.id} \cup x.messages \subseteq Held(store)
    BY DEF Held, IdsOf, Messages
  <2> QED
    BY <1>1, <1>6, <2>1, <2>2, AiChatSessionDeleted
<1>21. CASE CreateAiChatMessages(r)
  <2>1. PICK x \in store.aiChatSessions :
          Creates(r, [store EXCEPT !.aiChatSessions =
            (@ \ {x}) \cup {[x EXCEPT !.messages = @ \cup {NewId}]}])
    BY <1>21 DEF CreateAiChatMessages
  <2> QED
    BY <1>1, <1>3, <1>5, <2>1, AiChatMessagesCreated
<1>22. CASE DeleteAiDetection(r)
  <2>1. PICK x \in store.aiDetections :
          Deletes(r, [store EXCEPT !.aiDetections = @ \ {x}], {x})
    BY <1>22 DEF DeleteAiDetection
  <2>2. {x} \subseteq Held(store)
    BY DEF Held
  <2> QED
    BY <1>1, <1>6, <2>1, <2>2, DetectionDeleted
<1> QED
  BY <1>7, <1>8, <1>9, <1>10, <1>11, <1>12, <1>13, <1>14, <1>15, <1>16, <1>17, <1>18,
     <1>19, <1>20, <1>21, <1>22

(* A write leaves the other requests as they were, but for their view. *)
LEMMA OvertakenCalls ==
  ASSUME TypeOK, NEW q \in Requests, InFlight(q)
  PROVE  /\ Overtaken[q] \in SaveCall
         /\ Overtaken[q] # Idle
         /\ Overtaken[q].next = requests[q].next
         /\ Overtaken[q].made = requests[q].made
         /\ Overtaken[q].gone = requests[q].gone
<1>1. requests[q] \in SaveCall
  BY DEF TypeOK, InFlight
<1>2. Overtaken[q] = [requests[q] EXCEPT !.view = "overtaken"]
  BY DEF Overtaken
<1>3. Overtaken[q] \in SaveCall /\ Overtaken[q].step = "save"
  BY <1>1, <1>2 DEF SaveCall
<1>4. Overtaken[q] # Idle
  <2>1. ASSUME Overtaken[q] = Idle PROVE FALSE
    <3>1. Overtaken[q].next = Idle.next /\ DOMAIN Overtaken[q] = DOMAIN Idle
      BY <2>1
    <3>2. "view" \in DOMAIN Overtaken[q] /\ "view" \notin DOMAIN Idle
      BY <1>3 DEF SaveCall, Idle
    <3> QED
      BY <3>1, <3>2
  <2> QED
    BY <2>1
<1> QED
  BY <1>1, <1>2, <1>3, <1>4 DEF SaveCall

LEMMA SaveKeeps ==
  ASSUME StoreInv, NEW r \in Requests, Save(r)
  PROVE  StoreInv'
<1> DEFINE call == requests[r]
<1>1. /\ InFlight(r)
      /\ store' = call.next
      /\ requests' = [Overtaken EXCEPT ![r] = Idle]
      /\ owed' = (owed \cup call.made) \ call.gone
      /\ deleted' = deleted \cup call.gone
      /\ exposed' = IF \E q \in Requests \ {r} : InFlight(q)
                    THEN exposed \cup call.made \cup call.gone ELSE exposed
      /\ UNCHANGED <<issued, calls>>
  BY DEF Save
<1>2. Promise(call)
  BY <1>1 DEF StoreInv
<1>3. TypeOK
  BY DEF StoreInv
<1>4. call \in SaveCall
  BY <1>1, <1>3 DEF TypeOK, InFlight
<1>5. /\ call.made \subseteq Ids /\ call.gone \subseteq Ids /\ call.next \in Store
  BY <1>4 DEF SaveCall
<1>6. \A q \in Requests : requests'[q] = IF q = r THEN Idle ELSE Overtaken[q]
  BY <1>1 DEF Overtaken
<1>7. TypeOK'
  <2>1. requests' \in [Requests -> {Idle} \cup SaveCall]
    <3>1. requests' = [q \in Requests |-> IF q = r THEN Idle ELSE Overtaken[q]]
      BY <1>1 DEF Overtaken
    <3>2. \A q \in Requests : Overtaken[q] \in {Idle} \cup SaveCall
      BY <1>3, OvertakenCalls DEF Overtaken
    <3> QED
      BY <3>1, <3>2
  <2> QED
    BY <1>1, <1>3, <1>5, <2>1 DEF TypeOK
<1> HIDE DEF call
<1>8. WellFormed(store)' /\ (Held(store) \cup deleted \subseteq 1..issued)'
  BY <1>1, <1>2 DEF StoreInv, Promise
<1>9. LossNeedsOverlap' /\ ReturnNeedsOverlap'
  BY <1>1, <1>2 DEF Promise, LossNeedsOverlap, ReturnNeedsOverlap
<1>10. ASSUME NEW q \in Requests, InFlight(q)' PROVE Promise(requests[q])'
  <2>1. q # r /\ requests'[q] = Overtaken[q]
    BY <1>6, <1>10 DEF InFlight
  <2>2. InFlight(q)
    BY <1>10, <2>1 DEF InFlight, Overtaken
  <2>3. Promise(requests[q])
    BY <2>2 DEF StoreInv
  <2>4. /\ requests'[q].next = requests[q].next
        /\ requests'[q].made = requests[q].made
        /\ requests'[q].gone = requests[q].gone
    BY <1>3, <2>1, <2>2, OvertakenCalls
  <2>5. exposed' = exposed \cup call.made \cup call.gone
    BY <1>1, <2>1, <2>2
  <2> QED
    BY <1>1, <2>3, <2>4, <2>5 DEF Promise
<1> QED
  BY <1>7, <1>8, <1>9, <1>10 DEF StoreInv

LEMMA FailKeeps ==
  ASSUME StoreInv, NEW r \in Requests, Fail(r)
  PROVE  StoreInv'
<1>1. /\ requests' = [requests EXCEPT ![r] = Idle]
      /\ UNCHANGED <<store, issued, calls, owed, deleted, exposed>>
  BY DEF Fail
<1>2. TypeOK'
  BY <1>1 DEF StoreInv, TypeOK
<1>3. ASSUME NEW q \in Requests, InFlight(q)' PROVE Promise(requests[q])'
  <2>1. requests'[q] = requests[q]
    BY <1>1, <1>3 DEF InFlight, StoreInv, TypeOK
  <2> QED
    BY <1>1, <1>3, <2>1 DEF StoreInv, Promise, InFlight
<1> QED
  BY <1>1, <1>2, <1>3 DEF StoreInv, LossNeedsOverlap, ReturnNeedsOverlap

LEMMA UpdateSecurityKeeps ==
  ASSUME StoreInv, UpdateSecurity
  PROVE  StoreInv'
<1>1. /\ store' = NoStore /\ requests' = Overtaken /\ owed' = {}
      /\ UNCHANGED <<issued, calls, deleted, exposed>>
  BY DEF UpdateSecurity
<1>2. TypeOK
  BY DEF StoreInv
<1>3. WellFormed(store)' /\ Held(store)' = {}
  BY <1>1, NoStoreHoldsNothing
<1>4. TypeOK'
  <2>1. requests' \in [Requests -> {Idle} \cup SaveCall]
    BY <1>1, <1>2, OvertakenCalls DEF Overtaken
  <2> QED
    BY <1>1, <1>2, <1>3, <2>1 DEF TypeOK, WellFormed
<1>5. ASSUME NEW q \in Requests, InFlight(q)' PROVE Promise(requests[q])'
  <2>1. InFlight(q) /\ requests'[q] = Overtaken[q]
    BY <1>1, <1>5 DEF InFlight, Overtaken
  <2>2. Promise(requests[q])
    BY <2>1 DEF StoreInv
  <2>3. /\ requests'[q].next = requests[q].next
        /\ requests'[q].made = requests[q].made
        /\ requests'[q].gone = requests[q].gone
    BY <1>2, <2>1, OvertakenCalls
  <2> QED
    BY <1>1, <2>2, <2>3 DEF Promise
<1> QED
  BY <1>1, <1>3, <1>4, <1>5 DEF StoreInv, LossNeedsOverlap, ReturnNeedsOverlap

-------------------------------------------------------------------------------
(* Every store that is written is well formed, and every request in flight *)
(* keeps its promise (mobile.service.ts:886-943).                          *)
THEOREM StoreInvHolds == Spec => []StoreInv
<1>1. StoreInv /\ [Next]_vars => StoreInv'
  <2> SUFFICES ASSUME StoreInv, [Next]_vars PROVE StoreInv'
    OBVIOUS
  <2>1. ASSUME NEW r \in Requests, Save(r) PROVE StoreInv'
    BY <2>1, SaveKeeps
  <2>2. ASSUME NEW r \in Requests, Fail(r) PROVE StoreInv'
    BY <2>2, FailKeeps
  <2>3. CASE UpdateSecurity
    BY <2>3, UpdateSecurityKeeps
  <2>4. CASE UNCHANGED vars
    BY <2>4 DEF vars, StoreInv, TypeOK, LossNeedsOverlap, ReturnNeedsOverlap,
                InFlight, Promise
  <2> QED
    BY <2>1, <2>2, <2>3, <2>4, RequestKeeps DEF Next
<1> QED
  BY InitialStore, <1>1, PTL DEF Spec

(* The stored value keeps its shape, and the bounds hold. *)
THEOREM TypeCorrect == Spec => []TypeOK
<1>1. StoreInv => TypeOK
  BY DEF StoreInv
<1> QED
  BY <1>1, StoreInvHolds, PTL

(* However requests overlap, a user never has two default payment methods  *)
(* or two threads with one shop, not even in a value about to be written   *)
(* (mobile.service.ts:443-468, 547-580).                                   *)
THEOREM AlwaysOneDefaultOneThread == Spec => []OneDefaultOneThread
<1>1. StoreInv => OneDefaultOneThread
  BY DEF StoreInv, OneDefaultOneThread, Promise, WellFormed
<1> QED
  BY <1>1, StoreInvHolds, PTL

(* What was saved is lost only by an overlap or by the settings page, for  *)
(* any number of requests (mobile.service.ts:886-943, account.service.ts:77). *)
THEOREM LossAlwaysNeedsOverlap == Spec => []LossNeedsOverlap
<1>1. StoreInv => LossNeedsOverlap
  BY DEF StoreInv
<1> QED
  BY <1>1, StoreInvHolds, PTL

(* What was deleted comes back only by an overlap. *)
THEOREM ReturnAlwaysNeedsOverlap == Spec => []ReturnNeedsOverlap
<1>1. StoreInv => ReturnNeedsOverlap
  BY DEF StoreInv
<1> QED
  BY <1>1, StoreInvHolds, PTL
-------------------------------------------------------------------------------
(* The refinement of StoreRegisters: a request is open while it is in      *)
(* flight, and overtaken once something was written after its read.        *)
LEMMA FailCloses ==
  ASSUME StoreInv, NEW r \in Requests, Fail(r)
  PROVE  Registers!Close(r)
<1>1. /\ InFlight(r)
      /\ requests' = [requests EXCEPT ![r] = Idle]
      /\ store' = store
  BY DEF Fail
<1>2. requests[r] \in SaveCall
  BY <1>1 DEF StoreInv, TypeOK, InFlight
<1>3. ViewOf[r] # "closed"
  BY <1>1, <1>2 DEF ViewOf, SaveCall
<1>4. ViewOf' = [ViewOf EXCEPT ![r] = "closed"]
  <2>1. \A q \in Requests : ViewOf'[q] = IF q = r THEN "closed" ELSE ViewOf[q]
    BY <1>1 DEF ViewOf, InFlight, StoreInv, TypeOK
  <2> QED
    BY <2>1 DEF ViewOf
<1> QED
  BY <1>1, <1>3, <1>4 DEF Registers!Close, Registers!parts

LEMMA BeginOpens ==
  ASSUME StoreInv, NEW r \in Requests, NEW next, NEW made, NEW gone,
         Begin(r, next, made, gone)
  PROVE  Registers!Open(r)
<1> DEFINE call == [step |-> "save", view |-> "current", next |-> next,
                    made |-> made, gone |-> gone]
<1>1. /\ ~InFlight(r)
      /\ requests' = [requests EXCEPT ![r] = call]
      /\ store' = store
  BY DEF Begin
<1>2. call.view = "current"
  OBVIOUS
<1>3. call # Idle
  <2>1. ASSUME call = Idle PROVE FALSE
    <3>1. DOMAIN call = DOMAIN Idle
      BY <2>1
    <3> QED
      BY <3>1 DEF Idle
  <2> QED
    BY <2>1
<1> HIDE DEF call
<1>4. ViewOf[r] = "closed"
  BY <1>1 DEF ViewOf
<1>5. ViewOf' = [ViewOf EXCEPT ![r] = "current"]
  <2>1. \A q \in Requests : ViewOf'[q] = IF q = r THEN "current" ELSE ViewOf[q]
    BY <1>1, <1>2, <1>3 DEF ViewOf, InFlight, StoreInv, TypeOK
  <2> QED
    BY <2>1 DEF ViewOf
<1> QED
  BY <1>1, <1>4, <1>5 DEF Registers!Open, Registers!parts

(* A write overtakes the others *)
LEMMA WriteOvertakes ==
  ASSUME StoreInv, requests' = Overtaken
  PROVE  ViewOf' = Registers!Overtaken
<1>1. \A q \in Requests :
        ViewOf'[q] = IF ViewOf[q] = "closed" THEN "closed" ELSE "overtaken"
  <2> SUFFICES ASSUME NEW q \in Requests
               PROVE  ViewOf'[q] = IF ViewOf[q] = "closed" THEN "closed" ELSE "overtaken"
    OBVIOUS
  <2>1. CASE InFlight(q)
    <3>1. requests'[q] # Idle /\ requests'[q].view = "overtaken"
      BY <2>1, OvertakenCalls DEF StoreInv, SaveCall, Overtaken, TypeOK, InFlight
    <3>2. ViewOf[q] # "closed"
      BY <2>1 DEF ViewOf, StoreInv, TypeOK, SaveCall, InFlight
    <3> QED
      BY <3>1, <3>2 DEF ViewOf, InFlight
  <2>2. CASE ~InFlight(q)
    BY <2>2 DEF ViewOf, InFlight, Overtaken
  <2> QED
    BY <2>1, <2>2
<1> QED
  BY <1>1 DEF ViewOf, Registers!Overtaken

LEMMA SaveCommits ==
  ASSUME StoreInv, NEW r \in Requests, Save(r)
  PROVE  Registers!Commit(r)
<1>1. InFlight(r) /\ requests' = [Overtaken EXCEPT ![r] = Idle]
  BY DEF Save
<1>2. \A q \in Requests \ {r} :
        ViewOf'[q] = IF ViewOf[q] = "closed" THEN "closed" ELSE "overtaken"
  <2> SUFFICES ASSUME NEW q \in Requests \ {r}
               PROVE  ViewOf'[q] = IF ViewOf[q] = "closed" THEN "closed" ELSE "overtaken"
    OBVIOUS
  <2>0. requests'[q] = Overtaken[q]
    BY <1>1 DEF Overtaken
  <2>1. CASE InFlight(q)
    <3>1. Overtaken[q] # Idle /\ Overtaken[q].view = "overtaken"
      BY <2>1, OvertakenCalls DEF StoreInv, SaveCall, Overtaken, TypeOK, InFlight
    <3>2. ViewOf[q] # "closed"
      BY <2>1 DEF ViewOf, StoreInv, TypeOK, SaveCall, InFlight
    <3> QED
      BY <2>0, <3>1, <3>2 DEF ViewOf, InFlight
  <2>2. CASE ~InFlight(q)
    BY <2>0, <2>2 DEF ViewOf, InFlight, Overtaken
  <2> QED
    BY <2>1, <2>2
<1>3. ViewOf'[r] = "closed"
  BY <1>1 DEF ViewOf, InFlight, Overtaken
<1>4. ViewOf' = [Registers!Overtaken EXCEPT ![r] = "closed"]
  BY <1>2, <1>3 DEF ViewOf, Registers!Overtaken
<1> QED
  BY <1>4 DEF Registers!Commit

-------------------------------------------------------------------------------
(* The parts of a store, as the registers have them: g is f but for its    *)
(* value at i.                                                             *)
ButFor(i, f, g) == g = [f EXCEPT ![i] = g[i]]

LEMMA SameSettings ==
  ASSUME NEW s, NEW t, t.username = s.username, t.profile = s.profile,
         t.preferences = s.preferences, t.emailVerified = s.emailVerified
  PROVE  SettingsOf(t) = SettingsOf(s)
<1>1. \A q \in {"username", "profile", "preferences", "emailVerified"} : t[q] = s[q]
  OBVIOUS
<1> QED
  BY <1>1 DEF SettingsOf

LEMMA ItemsAt ==
  ASSUME NEW s
  PROVE  /\ ItemsOf(s)["vehicles"] = IdsOf(s.vehicles)
         /\ ItemsOf(s)["paymentMethods"] = IdsOf(s.paymentMethods)
         /\ ItemsOf(s)["reviews"] = s.reviews
         /\ ItemsOf(s)["uploads"] = s.uploads
         /\ ItemsOf(s)["aiChatSessions"] = IdsOf(s.aiChatSessions)
         /\ ItemsOf(s)["aiDetections"] = s.aiDetections
BY DEF ItemsOf

LEMMA ItemsChange ==
  ASSUME NEW s, NEW t, NEW p \in Registers!Lists,
         \/ p = "vehicles" \/ IdsOf(t.vehicles) = IdsOf(s.vehicles),
         \/ p = "paymentMethods" \/ IdsOf(t.paymentMethods) = IdsOf(s.paymentMethods),
         \/ p = "reviews" \/ t.reviews = s.reviews,
         \/ p = "uploads" \/ t.uploads = s.uploads,
         \/ p = "aiChatSessions" \/ IdsOf(t.aiChatSessions) = IdsOf(s.aiChatSessions),
         \/ p = "aiDetections" \/ t.aiDetections = s.aiDetections
  PROVE  ButFor(p, ItemsOf(s), ItemsOf(t))
<1>1. \A q \in Registers!Lists \ {p} : ItemsOf(t)[q] = ItemsOf(s)[q]
  BY ItemsAt DEF Registers!Lists
<1>2. /\ DOMAIN ItemsOf(t) = Registers!Lists
      /\ DOMAIN ItemsOf(s) = Registers!Lists
      /\ ItemsOf(t) = [q \in Registers!Lists |-> ItemsOf(t)[q]]
  BY DEF ItemsOf, Registers!Lists
<1> QED
  BY <1>1, <1>2 DEF ButFor

LEMMA SameItems ==
  ASSUME NEW s, NEW t,
         IdsOf(t.vehicles) = IdsOf(s.vehicles),
         IdsOf(t.paymentMethods) = IdsOf(s.paymentMethods),
         t.reviews = s.reviews, t.uploads = s.uploads,
         IdsOf(t.aiChatSessions) = IdsOf(s.aiChatSessions),
         t.aiDetections = s.aiDetections
  PROVE  ItemsOf(t) = ItemsOf(s)
<1>1. \A q \in Registers!Lists : ItemsOf(t)[q] = ItemsOf(s)[q]
  BY ItemsAt DEF Registers!Lists
<1>2. /\ ItemsOf(t) = [q \in Registers!Lists |-> ItemsOf(t)[q]]
      /\ ItemsOf(s) = [q \in Registers!Lists |-> ItemsOf(s)[q]]
  BY DEF ItemsOf, Registers!Lists
<1> QED
  BY <1>1, <1>2

LEMMA NicknameIs ==
  ASSUME NEW s, WellFormed(s)
  PROVE  /\ \A x \in s.vehicles : x.id \in Ids /\ NicknameOf(s)[x.id] = x.nickname
         /\ \A i \in Ids \ IdsOf(s.vehicles) : NicknameOf(s)[i] = NoValue
<1>1. \A x \in s.vehicles : x.id \in Ids /\ x.id \in IdsOf(s.vehicles)
  BY DEF WellFormed, Store, MobileVehicle, IdsOf
<1>2. ASSUME NEW x \in s.vehicles
      PROVE  (CHOOSE v \in s.vehicles : v.id = x.id) = x
  BY DEF WellFormed, Distinct, UniqueIds
<1>3. \A i \in Ids : NicknameOf(s)[i] =
        IF i \in IdsOf(s.vehicles) THEN (CHOOSE v \in s.vehicles : v.id = i).nickname
                                   ELSE NoValue
  BY DEF NicknameOf
<1> QED
  BY <1>1, <1>2, <1>3

LEMMA SameNicknames ==
  ASSUME NEW s, NEW t, t.vehicles = s.vehicles
  PROVE  NicknameOf(t) = NicknameOf(s)
BY DEF NicknameOf

LEMMA DefaultIs ==
  ASSUME NEW s, WellFormed(s)
  PROVE  /\ \A m \in s.paymentMethods : m.isDefault => DefaultOf(s) = m.id
         /\ (\A m \in s.paymentMethods : ~m.isDefault) => DefaultOf(s) = 0
<1>1. ASSUME NEW m \in s.paymentMethods, m.isDefault PROVE DefaultOf(s) = m.id
  <2>1. {n \in s.paymentMethods : n.isDefault} = {m}
    BY <1>1 DEF WellFormed, SoundStore
  <2>2. {k.id : k \in {n \in s.paymentMethods : n.isDefault}} = {m.id}
    BY <2>1
  <2> QED
    BY <2>2 DEF DefaultOf, TheId
<1>2. ASSUME \A m \in s.paymentMethods : ~m.isDefault PROVE DefaultOf(s) = 0
  <2>1. {k.id : k \in {n \in s.paymentMethods : n.isDefault}} = {}
    BY <1>2
  <2> QED
    BY <2>1 DEF DefaultOf, TheId
<1> QED
  BY <1>1, <1>2

LEMMA SameDefault ==
  ASSUME NEW s, NEW t, t.paymentMethods = s.paymentMethods
  PROVE  DefaultOf(t) = DefaultOf(s)
BY DEF DefaultOf

LEMMA ThreadIs ==
  ASSUME NEW s, WellFormed(s)
  PROVE  /\ \A x \in s.shopChatThreads :
              x.shopId \in Shops /\ ThreadOf(s)[x.shopId] = x.id
         /\ \A shop \in Shops :
              (\A x \in s.shopChatThreads : x.shopId # shop) => ThreadOf(s)[shop] = 0
<1>1. \A shop \in Shops :
        ThreadOf(s)[shop] = TheId({x.id : x \in {u \in s.shopChatThreads : u.shopId = shop}})
  BY DEF ThreadOf
<1>2. ASSUME NEW x \in s.shopChatThreads
      PROVE  x.shopId \in Shops /\ ThreadOf(s)[x.shopId] = x.id
  <2>1. x.shopId \in Shops
    BY DEF WellFormed, Store, ChatThread
  <2>2. {u \in s.shopChatThreads : u.shopId = x.shopId} = {x}
    BY DEF WellFormed, SoundStore
  <2>3. {k.id : k \in {u \in s.shopChatThreads : u.shopId = x.shopId}} = {x.id}
    BY <2>2
  <2> QED
    BY <1>1, <2>1, <2>3 DEF TheId
<1>3. ASSUME NEW shop \in Shops, \A x \in s.shopChatThreads : x.shopId # shop
      PROVE  ThreadOf(s)[shop] = 0
  <2>1. {k.id : k \in {u \in s.shopChatThreads : u.shopId = shop}} = {}
    BY <1>3
  <2> QED
    BY <1>1, <2>1 DEF TheId
<1> QED
  BY <1>2, <1>3

LEMMA SameThreads ==
  ASSUME NEW s, NEW t, t.shopChatThreads = s.shopChatThreads
  PROVE  ThreadOf(t) = ThreadOf(s)
BY DEF ThreadOf

(* The message m is in the thread or session i *)
Says(s, i, m) ==
  \/ \E c \in s.shopChatThreads : c.id = i /\ m \in c.messages
  \/ \E c \in s.aiChatSessions : c.id = i /\ m \in c.messages

LEMMA SaidIs ==
  ASSUME NEW s, NEW i \in Ids, NEW m
  PROVE  m \in SaidOf(s)[i] <=> Says(s, i, m)
<1>1. SaidOf(s)[i] = Messages({c \in s.shopChatThreads : c.id = i})
                       \cup Messages({c \in s.aiChatSessions : c.id = i})
  BY DEF SaidOf
<1> QED
  BY <1>1 DEF Messages, Says

LEMMA SameSaid ==
  ASSUME NEW s, NEW t,
         t.shopChatThreads = s.shopChatThreads, t.aiChatSessions = s.aiChatSessions
  PROVE  SaidOf(t) = SaidOf(s)
BY DEF SaidOf

LEMMA NicknamesTyped ==
  ASSUME NEW s, WellFormed(s)
  PROVE  NicknameOf(s) \in [Ids -> Values \cup {NoValue}]
<1>1. \A i \in Ids : NicknameOf(s)[i] \in Values \cup {NoValue}
  <2> TAKE i \in Ids
  <2>1. CASE i \in IdsOf(s.vehicles)
    <3>1. PICK x \in s.vehicles : i = x.id
      BY <2>1 DEF IdsOf
    <3>2. x.nickname \in Values \cup {NoValue}
      BY DEF WellFormed, Store, MobileVehicle
    <3> QED
      BY <3>1, <3>2, NicknameIs
  <2>2. CASE i \notin IdsOf(s.vehicles)
    BY <2>2, NicknameIs
  <2> QED
    BY <2>1, <2>2
<1>2. NicknameOf(s) = [i \in Ids |-> NicknameOf(s)[i]]
  BY DEF NicknameOf
<1> QED
  BY <1>1, <1>2

(* What a well-formed store makes of the registers is well typed *)
LEMMA PartsTyped ==
  ASSUME NEW s, WellFormed(s)
  PROVE  /\ SettingsOf(s) \in [Registers!Settings -> Values \cup {NoValue}]
         /\ ItemsOf(s) \in [Registers!Lists -> SUBSET Ids]
         /\ DefaultOf(s) \in ItemsOf(s)["paymentMethods"] \cup {0}
         /\ ThreadOf(s) \in [Shops -> Ids \cup {0}]
         /\ SaidOf(s) \in [Ids -> SUBSET Ids]
<1>1. s \in Store
  BY DEF WellFormed
<1>2. SettingsOf(s) \in [Registers!Settings -> Values \cup {NoValue}]
  BY <1>1 DEF SettingsOf, Registers!Settings, Store
<1>3. ItemsOf(s) \in [Registers!Lists -> SUBSET Ids]
  <2>1. \A p \in Registers!Lists : ItemsOf(s)[p] \in SUBSET Ids
    <3>1. /\ IdsOf(s.vehicles) \in SUBSET Ids /\ IdsOf(s.paymentMethods) \in SUBSET Ids
          /\ IdsOf(s.aiChatSessions) \in SUBSET Ids
      BY <1>1 DEF IdsOf, Store, MobileVehicle, PaymentMethod, AiChatSession
    <3>2. s.reviews \in SUBSET Ids /\ s.uploads \in SUBSET Ids /\ s.aiDetections \in SUBSET Ids
      BY <1>1 DEF Store
    <3> QED
      BY <3>1, <3>2, ItemsAt DEF Registers!Lists
  <2>2. ItemsOf(s) = [q \in Registers!Lists |-> ItemsOf(s)[q]]
    BY DEF ItemsOf, Registers!Lists
  <2> QED
    BY <2>1, <2>2
<1>4. DefaultOf(s) \in ItemsOf(s)["paymentMethods"] \cup {0}
  BY ItemsAt, DefaultIs DEF IdsOf
<1>5. ThreadOf(s) \in [Shops -> Ids \cup {0}]
  <2>1. \A shop \in Shops : ThreadOf(s)[shop] \in Ids \cup {0}
    <3>1. \A x \in s.shopChatThreads : x.id \in Ids
      BY <1>1 DEF Store, ChatThread
    <3> QED
      BY <3>1, ThreadIs
  <2>2. ThreadOf(s) = [shop \in Shops |-> ThreadOf(s)[shop]]
    BY DEF ThreadOf
  <2> QED
    BY <2>1, <2>2
<1>6. SaidOf(s) \in [Ids -> SUBSET Ids]
  <2>1. \A i \in Ids : SaidOf(s)[i] \in SUBSET Ids
    <3>1. /\ \A c \in s.shopChatThreads : c.messages \in SUBSET Ids
          /\ \A c \in s.aiChatSessions : c.messages \in SUBSET Ids
      BY <1>1 DEF Store, ChatThread, AiChatSession
    <3> QED
      BY <3>1, SaidIs DEF Says
  <2>2. SaidOf(s) = [i \in Ids |-> SaidOf(s)[i]]
    BY DEF SaidOf
  <2> QED
    BY <2>1, <2>2
<1> QED
  BY <1>2, <1>3, <1>4, <1>5, <1>6

LEMMA SameMessages ==
  ASSUME NEW s, NEW t, \A i \in Ids : \A m : Says(t, i, m) <=> Says(s, i, m)
  PROVE  SaidOf(t) = SaidOf(s)
<1>1. \A i \in Ids : SaidOf(t)[i] = SaidOf(s)[i]
  BY SaidIs
<1>2. /\ SaidOf(s) = [i \in Ids |-> SaidOf(s)[i]]
      /\ SaidOf(t) = [i \in Ids |-> SaidOf(t)[i]]
  BY DEF SaidOf
<1> QED
  BY <1>1, <1>2

(* The message n was added to the thread or session k *)
Added(k, n, s, t) == SaidOf(t) = [SaidOf(s) EXCEPT ![k] = @ \cup {n}]

LEMMA MoreMessages ==
  ASSUME NEW s, NEW t, NEW k \in Ids, NEW n,
         \A i \in Ids : \A m : Says(t, i, m) <=> Says(s, i, m) \/ (i = k /\ m = n)
  PROVE  Added(k, n, s, t)
<1>1. \A i \in Ids : SaidOf(t)[i] = IF i = k THEN SaidOf(s)[i] \cup {n} ELSE SaidOf(s)[i]
  <2> TAKE i \in Ids
  <2>1. \A m : m \in SaidOf(t)[i] <=> m \in SaidOf(s)[i] \/ (i = k /\ m = n)
    BY SaidIs
  <2> QED
    BY <2>1
<1>2. /\ SaidOf(s) = [i \in Ids |-> SaidOf(s)[i]]
      /\ SaidOf(t) = [i \in Ids |-> SaidOf(t)[i]]
  BY DEF SaidOf
<1> QED
  BY <1>1, <1>2 DEF Added

LEMMA NoMessages ==
  ASSUME NEW s, NEW t, NEW k \in Ids,
         \A i \in Ids : \A m : Says(t, i, m) <=> Says(s, i, m) /\ i # k
  PROVE  ButFor(k, SaidOf(s), SaidOf(t)) /\ SaidOf(t)[k] = {}
<1>1. \A i \in Ids : SaidOf(t)[i] = IF i = k THEN {} ELSE SaidOf(s)[i]
  <2> TAKE i \in Ids
  <2>1. \A m : m \in SaidOf(t)[i] <=> m \in SaidOf(s)[i] /\ i # k
    BY SaidIs
  <2> QED
    BY <2>1
<1>2. /\ SaidOf(s) = [i \in Ids |-> SaidOf(s)[i]]
      /\ SaidOf(t) = [i \in Ids |-> SaidOf(t)[i]]
  BY DEF SaidOf
<1> QED
  BY <1>1, <1>2 DEF ButFor

-------------------------------------------------------------------------------
(* What the handlers do, in the words of the registers *)
Vehicle(n, v) == [id |-> n, nickname |-> v]

LEMMA NicknamesChange ==
  ASSUME NEW s, WellFormed(s), NEW t, WellFormed(t), NEW i \in Ids,
         \A x : x.id # i => (x \in t.vehicles <=> x \in s.vehicles)
  PROVE  ButFor(i, NicknameOf(s), NicknameOf(t))
<1>1. /\ \A x \in s.vehicles : x.id \in Ids /\ NicknameOf(s)[x.id] = x.nickname
      /\ \A j \in Ids \ IdsOf(s.vehicles) : NicknameOf(s)[j] = NoValue
  BY NicknameIs
<1>2. /\ \A x \in t.vehicles : x.id \in Ids /\ NicknameOf(t)[x.id] = x.nickname
      /\ \A j \in Ids \ IdsOf(t.vehicles) : NicknameOf(t)[j] = NoValue
  BY NicknameIs
<1>3. ASSUME NEW j \in Ids, j # i PROVE NicknameOf(t)[j] = NicknameOf(s)[j]
  <2>1. CASE j \in IdsOf(s.vehicles)
    <3>1. PICK x \in s.vehicles : x.id = j
      BY <2>1 DEF IdsOf
    <3>2. x \in t.vehicles
      BY <1>3, <3>1
    <3> QED
      BY <1>1, <1>2, <3>1, <3>2
  <2>2. CASE j \notin IdsOf(s.vehicles)
    <3>1. j \notin IdsOf(t.vehicles)
      BY <1>3, <2>2 DEF IdsOf
    <3> QED
      BY <1>1, <1>2, <2>2, <3>1
  <2> QED
    BY <2>1, <2>2
<1>4. /\ NicknameOf(s) = [j \in Ids |-> NicknameOf(s)[j]]
      /\ NicknameOf(t) = [j \in Ids |-> NicknameOf(t)[j]]
  BY DEF NicknameOf
<1> QED
  BY <1>3, <1>4 DEF ButFor

LEMMA CreatedVehicle ==
  ASSUME NEW s, WellFormed(s), NEW n \in Ids \ Held(s), NEW v \in Values \cup {NoValue},
         NEW t, WellFormed(t), t = [s EXCEPT !.vehicles = @ \cup {Vehicle(n, v)}]
  PROVE  /\ n \in Ids \ ItemsOf(s)["vehicles"]
         /\ ItemsOf(t) = [ItemsOf(s) EXCEPT !["vehicles"] = @ \cup {n}]
         /\ NicknameOf(t) = [NicknameOf(s) EXCEPT ![n] = v]
         /\ SettingsOf(t) = SettingsOf(s) /\ DefaultOf(t) = DefaultOf(s)
         /\ ThreadOf(t) = ThreadOf(s) /\ SaidOf(t) = SaidOf(s)
<1> DEFINE x == Vehicle(n, v)
<1>1. x.id = n /\ x.nickname = v
  BY DEF Vehicle
<1> HIDE DEF x
<1>2. /\ t.vehicles = s.vehicles \cup {x}
      /\ t.paymentMethods = s.paymentMethods
      /\ t.reviews = s.reviews /\ t.shopChatThreads = s.shopChatThreads
      /\ t.uploads = s.uploads /\ t.aiChatSessions = s.aiChatSessions
      /\ t.aiDetections = s.aiDetections
      /\ t.username = s.username /\ t.profile = s.profile
      /\ t.preferences = s.preferences /\ t.emailVerified = s.emailVerified
  BY DEF WellFormed, Store, x
<1>3. IdsOf(t.vehicles) = IdsOf(s.vehicles) \cup {n}
  BY <1>1, <1>2, IdsOfOneMore
<1>4. n \notin IdsOf(s.vehicles)
  BY DEF Held
<1>5. ItemsOf(t) = [ItemsOf(s) EXCEPT !["vehicles"] = @ \cup {n}]
  <2>1. ItemsOf(t)["vehicles"] = ItemsOf(s)["vehicles"] \cup {n}
    BY <1>3, ItemsAt
  <2>2. ButFor("vehicles", ItemsOf(s), ItemsOf(t))
    <3>1. "vehicles" \in Registers!Lists
      BY DEF Registers!Lists
    <3> QED
      BY <1>2, <3>1, ItemsChange
  <2> QED
    BY <2>1, <2>2 DEF ButFor
<1>6. NicknameOf(t) = [NicknameOf(s) EXCEPT ![n] = v]
  <2>1. x \in t.vehicles
    BY <1>2
  <2>2. NicknameOf(t)[n] = v
    BY <1>1, <2>1, NicknameIs
  <2>3. \A y : y.id # n => (y \in t.vehicles <=> y \in s.vehicles)
    BY <1>1, <1>2
  <2>4. ButFor(n, NicknameOf(s), NicknameOf(t))
    BY <2>3, NicknamesChange
  <2> QED
    BY <2>2, <2>4 DEF ButFor
<1>7. SettingsOf(t) = SettingsOf(s)
  BY <1>2, SameSettings
<1>8. DefaultOf(t) = DefaultOf(s) /\ ThreadOf(t) = ThreadOf(s) /\ SaidOf(t) = SaidOf(s)
  BY <1>2, SameDefault, SameThreads, SameSaid
<1> QED
  BY <1>4, <1>5, <1>6, <1>7, <1>8, ItemsAt

LEMMA UpdatedVehicle ==
  ASSUME NEW s, WellFormed(s), NEW x \in s.vehicles, NEW v \in Values,
         NEW t, WellFormed(t),
         t = [s EXCEPT !.vehicles = (@ \ {x}) \cup {[x EXCEPT !.nickname = v]}]
  PROVE  /\ x.id \in ItemsOf(s)["vehicles"]
         /\ ItemsOf(t) = ItemsOf(s)
         /\ NicknameOf(t) = [NicknameOf(s) EXCEPT ![x.id] = v]
         /\ SettingsOf(t) = SettingsOf(s) /\ DefaultOf(t) = DefaultOf(s)
         /\ ThreadOf(t) = ThreadOf(s) /\ SaidOf(t) = SaidOf(s)
<1>0. PICK y : y = [x EXCEPT !.nickname = v]
  OBVIOUS
<1>1. y.id = x.id /\ y.nickname = v
  <2>1. x \in MobileVehicle
    BY DEF WellFormed, Store
  <2> QED
    BY <1>0, <2>1 DEF MobileVehicle
<1>2. /\ t.vehicles = (s.vehicles \ {x}) \cup {y}
      /\ t.paymentMethods = s.paymentMethods
      /\ t.reviews = s.reviews /\ t.shopChatThreads = s.shopChatThreads
      /\ t.uploads = s.uploads /\ t.aiChatSessions = s.aiChatSessions
      /\ t.aiDetections = s.aiDetections
      /\ t.username = s.username /\ t.profile = s.profile
      /\ t.preferences = s.preferences /\ t.emailVerified = s.emailVerified
  BY <1>0 DEF WellFormed, Store
<1>3. IdsOf(t.vehicles) = IdsOf(s.vehicles)
  BY <1>1, <1>2, IdsOfChanged
<1>4. x.id \in IdsOf(s.vehicles)
  BY DEF IdsOf
<1>5. ItemsOf(t) = ItemsOf(s)
  BY <1>2, <1>3, SameItems
<1>6. NicknameOf(t) = [NicknameOf(s) EXCEPT ![x.id] = v]
  <2>1. x.id \in Ids /\ y \in t.vehicles
    BY <1>2, NicknameIs
  <2>2. NicknameOf(t)[x.id] = v
    <3>1. NicknameOf(t)[y.id] = y.nickname
      BY <2>1, NicknameIs
    <3> QED
      BY <1>1, <3>1
  <2>3. \A z : z.id # x.id => (z \in t.vehicles <=> z \in s.vehicles)
    BY <1>1, <1>2
  <2>4. ButFor(x.id, NicknameOf(s), NicknameOf(t))
    BY <2>1, <2>3, NicknamesChange
  <2> QED
    BY <2>2, <2>4 DEF ButFor
<1>7. SettingsOf(t) = SettingsOf(s)
  BY <1>2, SameSettings
<1>8. DefaultOf(t) = DefaultOf(s) /\ ThreadOf(t) = ThreadOf(s) /\ SaidOf(t) = SaidOf(s)
  BY <1>2, SameDefault, SameThreads, SameSaid
<1> QED
  BY <1>4, <1>5, <1>6, <1>7, <1>8, ItemsAt

LEMMA DeletedVehicle ==
  ASSUME NEW s, WellFormed(s), NEW x \in s.vehicles,
         NEW t, WellFormed(t), t = [s EXCEPT !.vehicles = @ \ {x}]
  PROVE  /\ x.id \in ItemsOf(s)["vehicles"]
         /\ ItemsOf(t) = [ItemsOf(s) EXCEPT !["vehicles"] = @ \ {x.id}]
         /\ NicknameOf(t) = [NicknameOf(s) EXCEPT ![x.id] = NoValue]
         /\ SettingsOf(t) = SettingsOf(s) /\ DefaultOf(t) = DefaultOf(s)
         /\ ThreadOf(t) = ThreadOf(s) /\ SaidOf(t) = SaidOf(s)
<1>2. /\ t.vehicles = s.vehicles \ {x}
      /\ t.paymentMethods = s.paymentMethods
      /\ t.reviews = s.reviews /\ t.shopChatThreads = s.shopChatThreads
      /\ t.uploads = s.uploads /\ t.aiChatSessions = s.aiChatSessions
      /\ t.aiDetections = s.aiDetections
      /\ t.username = s.username /\ t.profile = s.profile
      /\ t.preferences = s.preferences /\ t.emailVerified = s.emailVerified
  BY DEF WellFormed, Store
<1>3. IdsOf(t.vehicles) = IdsOf(s.vehicles) \ {x.id}
  BY <1>2, IdsOfOneLess DEF WellFormed, Distinct
<1>4. x.id \in IdsOf(s.vehicles)
  BY DEF IdsOf
<1>5. ItemsOf(t) = [ItemsOf(s) EXCEPT !["vehicles"] = @ \ {x.id}]
  <2>1. ItemsOf(t)["vehicles"] = ItemsOf(s)["vehicles"] \ {x.id}
    BY <1>3, ItemsAt
  <2>2. ButFor("vehicles", ItemsOf(s), ItemsOf(t))
    <3>1. "vehicles" \in Registers!Lists
      BY DEF Registers!Lists
    <3> QED
      BY <1>2, <3>1, ItemsChange
  <2> QED
    BY <2>1, <2>2 DEF ButFor
<1>6. NicknameOf(t) = [NicknameOf(s) EXCEPT ![x.id] = NoValue]
  <2>1. x.id \in Ids /\ x.id \notin IdsOf(t.vehicles)
    BY <1>3, NicknameIs
  <2>2. NicknameOf(t)[x.id] = NoValue
    BY <2>1, NicknameIs
  <2>3. \A z : z.id # x.id => (z \in t.vehicles <=> z \in s.vehicles)
    BY <1>2
  <2>4. ButFor(x.id, NicknameOf(s), NicknameOf(t))
    BY <2>1, <2>3, NicknamesChange
  <2> QED
    BY <2>2, <2>4 DEF ButFor
<1>7. SettingsOf(t) = SettingsOf(s)
  BY <1>2, SameSettings
<1>8. DefaultOf(t) = DefaultOf(s) /\ ThreadOf(t) = ThreadOf(s) /\ SaidOf(t) = SaidOf(s)
  BY <1>2, SameDefault, SameThreads, SameSaid
<1> QED
  BY <1>4, <1>5, <1>6, <1>7, <1>8, ItemsAt

LEMMA SetSetting ==
  ASSUME NEW s, WellFormed(s), NEW v \in Values,
         NEW t, t \in {[s EXCEPT !.username = v], [s EXCEPT !.profile = v],
                       [s EXCEPT !.preferences = v], [s EXCEPT !.emailVerified = v]}
  PROVE  /\ \E p \in Registers!Settings : SettingsOf(t) = [SettingsOf(s) EXCEPT ![p] = v]
         /\ ItemsOf(t) = ItemsOf(s) /\ NicknameOf(t) = NicknameOf(s)
         /\ DefaultOf(t) = DefaultOf(s) /\ ThreadOf(t) = ThreadOf(s)
         /\ SaidOf(t) = SaidOf(s)
<1>1. /\ t.vehicles = s.vehicles /\ t.paymentMethods = s.paymentMethods
      /\ t.reviews = s.reviews /\ t.shopChatThreads = s.shopChatThreads
      /\ t.uploads = s.uploads /\ t.aiChatSessions = s.aiChatSessions
      /\ t.aiDetections = s.aiDetections
  BY DEF WellFormed, Store
<1>2. \E p \in Registers!Settings : SettingsOf(t) = [SettingsOf(s) EXCEPT ![p] = v]
  <2>0. DOMAIN s = {"username", "profile", "preferences", "emailVerified", "vehicles",
                    "paymentMethods", "reviews", "shopChatThreads", "uploads",
                    "aiChatSessions", "aiDetections"}
    BY DEF WellFormed, Store
  <2>1. PICK p \in Registers!Settings : t = [s EXCEPT ![p] = v]
    BY DEF Registers!Settings
  <2>2. p \in DOMAIN s
    BY <2>0 DEF Registers!Settings
  <2>3. t[p] = v /\ \A q \in Registers!Settings \ {p} : t[q] = s[q]
    BY <2>0, <2>1, <2>2 DEF Registers!Settings
  <2> HIDE DEF Registers!Settings
  <2>4. /\ SettingsOf(t) = [q \in Registers!Settings |-> t[q]]
        /\ SettingsOf(s) = [q \in Registers!Settings |-> s[q]]
    BY DEF SettingsOf, Registers!Settings
  <2>5. SettingsOf(t) = [SettingsOf(s) EXCEPT ![p] = v]
    BY <2>3, <2>4
  <2> QED
    BY <2>5
<1>3. ItemsOf(t) = ItemsOf(s)
  BY <1>1, SameItems
<1> QED
  BY <1>1, <1>2, <1>3, SameNicknames, SameDefault, SameThreads, SameSaid

LEMMA AddedId ==
  ASSUME NEW s, WellFormed(s), NEW n \in Ids \ Held(s), NEW t,
         t \in {[s EXCEPT !.reviews = @ \cup {n}], [s EXCEPT !.uploads = @ \cup {n}],
                [s EXCEPT !.aiDetections = @ \cup {n}]}
  PROVE  /\ \E p \in {"reviews", "uploads", "aiDetections"} :
              /\ n \notin ItemsOf(s)[p]
              /\ ItemsOf(t) = [ItemsOf(s) EXCEPT ![p] = @ \cup {n}]
         /\ SettingsOf(t) = SettingsOf(s) /\ NicknameOf(t) = NicknameOf(s)
         /\ DefaultOf(t) = DefaultOf(s) /\ ThreadOf(t) = ThreadOf(s)
         /\ SaidOf(t) = SaidOf(s)
<1>1. /\ t.vehicles = s.vehicles /\ t.paymentMethods = s.paymentMethods
      /\ t.shopChatThreads = s.shopChatThreads
      /\ t.aiChatSessions = s.aiChatSessions
      /\ t.username = s.username /\ t.profile = s.profile
      /\ t.preferences = s.preferences /\ t.emailVerified = s.emailVerified
  BY DEF WellFormed, Store
<1>2. PICK p \in {"reviews", "uploads", "aiDetections"} :
        /\ t.reviews = IF p = "reviews" THEN s.reviews \cup {n} ELSE s.reviews
        /\ t.uploads = IF p = "uploads" THEN s.uploads \cup {n} ELSE s.uploads
        /\ t.aiDetections = IF p = "aiDetections" THEN s.aiDetections \cup {n}
                                                  ELSE s.aiDetections
  BY DEF WellFormed, Store
<1>3. ButFor(p, ItemsOf(s), ItemsOf(t))
  <2>1. p \in Registers!Lists
    BY DEF Registers!Lists
  <2> QED
    BY <1>1, <1>2, <2>1, ItemsChange
<1>4. ItemsOf(t)[p] = ItemsOf(s)[p] \cup {n} /\ n \notin ItemsOf(s)[p]
  <2>1. n \notin s.reviews /\ n \notin s.uploads /\ n \notin s.aiDetections
    BY DEF Held
  <2> QED
    BY <1>2, <2>1, ItemsAt
<1>5. ItemsOf(t) = [ItemsOf(s) EXCEPT ![p] = @ \cup {n}]
  BY <1>3, <1>4 DEF ButFor
<1>6. SettingsOf(t) = SettingsOf(s)
  BY <1>1, SameSettings
<1> QED
  BY <1>1, <1>4, <1>5, <1>6, SameNicknames, SameDefault, SameThreads, SameSaid

LEMMA DeletedDetection ==
  ASSUME NEW s, WellFormed(s), NEW x \in s.aiDetections,
         NEW t, t = [s EXCEPT !.aiDetections = @ \ {x}]
  PROVE  /\ x \in ItemsOf(s)["aiDetections"]
         /\ ItemsOf(t) = [ItemsOf(s) EXCEPT !["aiDetections"] = @ \ {x}]
         /\ SettingsOf(t) = SettingsOf(s) /\ NicknameOf(t) = NicknameOf(s)
         /\ DefaultOf(t) = DefaultOf(s) /\ ThreadOf(t) = ThreadOf(s)
         /\ SaidOf(t) = SaidOf(s)
<1>1. /\ t.vehicles = s.vehicles /\ t.paymentMethods = s.paymentMethods
      /\ t.reviews = s.reviews /\ t.shopChatThreads = s.shopChatThreads
      /\ t.uploads = s.uploads /\ t.aiChatSessions = s.aiChatSessions
      /\ t.aiDetections = s.aiDetections \ {x}
      /\ t.username = s.username /\ t.profile = s.profile
      /\ t.preferences = s.preferences /\ t.emailVerified = s.emailVerified
  BY DEF WellFormed, Store
<1>2. ButFor("aiDetections", ItemsOf(s), ItemsOf(t))
  <2>1. "aiDetections" \in Registers!Lists
    BY DEF Registers!Lists
  <2> QED
    BY <1>1, <2>1, ItemsChange
<1>3. ItemsOf(t)["aiDetections"] = ItemsOf(s)["aiDetections"] \ {x}
  BY <1>1, ItemsAt
<1>4. ItemsOf(t) = [ItemsOf(s) EXCEPT !["aiDetections"] = @ \ {x}]
  BY <1>2, <1>3 DEF ButFor
<1>5. SettingsOf(t) = SettingsOf(s)
  BY <1>1, SameSettings
<1> QED
  BY <1>1, <1>4, <1>5, ItemsAt, SameNicknames, SameDefault, SameThreads, SameSaid

LEMMA CreatedMethod ==
  ASSUME NEW s, WellFormed(s), NEW n \in Ids \ Held(s), NEW d \in BOOLEAN,
         NEW t, WellFormed(t),
         t = [s EXCEPT !.paymentMethods =
                (IF d THEN Undefaulted(@) ELSE @) \cup {[id |-> n, isDefault |-> d]}]
  PROVE  /\ n \in Ids \ ItemsOf(s)["paymentMethods"]
         /\ ItemsOf(t) = [ItemsOf(s) EXCEPT !["paymentMethods"] = @ \cup {n}]
         /\ DefaultOf(t) \in {n, DefaultOf(s)}
         /\ SettingsOf(t) = SettingsOf(s) /\ NicknameOf(t) = NicknameOf(s)
         /\ ThreadOf(t) = ThreadOf(s) /\ SaidOf(t) = SaidOf(s)
<1>0. PICK x : x = [id |-> n, isDefault |-> d]
  OBVIOUS
<1>1. x.id = n /\ x.isDefault = d
  BY <1>0
<1>2. PICK others : others = IF d THEN Undefaulted(s.paymentMethods) ELSE s.paymentMethods
  OBVIOUS
<1>3. s.paymentMethods \in SUBSET PaymentMethod
  BY DEF WellFormed, Store
<1>4. IdsOf(others) = IdsOf(s.paymentMethods)
  BY <1>2, <1>3, UndefaultedMethods
<1>5. /\ t.paymentMethods = others \cup {x}
      /\ t.vehicles = s.vehicles
      /\ t.reviews = s.reviews /\ t.shopChatThreads = s.shopChatThreads
      /\ t.uploads = s.uploads /\ t.aiChatSessions = s.aiChatSessions
      /\ t.aiDetections = s.aiDetections
      /\ t.username = s.username /\ t.profile = s.profile
      /\ t.preferences = s.preferences /\ t.emailVerified = s.emailVerified
  BY <1>0, <1>2 DEF WellFormed, Store
<1>6. IdsOf(t.paymentMethods) = IdsOf(s.paymentMethods) \cup {n}
  BY <1>1, <1>4, <1>5, IdsOfOneMore
<1>7. n \notin IdsOf(s.paymentMethods)
  BY DEF Held
<1>8. ItemsOf(t) = [ItemsOf(s) EXCEPT !["paymentMethods"] = @ \cup {n}]
  <2>1. ItemsOf(t)["paymentMethods"] = ItemsOf(s)["paymentMethods"] \cup {n}
    BY <1>6, ItemsAt
  <2>2. ButFor("paymentMethods", ItemsOf(s), ItemsOf(t))
    <3>1. "paymentMethods" \in Registers!Lists
      BY DEF Registers!Lists
    <3> QED
      BY <1>5, <3>1, ItemsChange
  <2> QED
    BY <2>1, <2>2 DEF ButFor
<1>9. DefaultOf(t) \in {n, DefaultOf(s)}
  <2>1. CASE d
    <3>1. x \in t.paymentMethods /\ x.isDefault
      BY <1>1, <1>5, <2>1
    <3> QED
      BY <1>1, <3>1, DefaultIs
  <2>2. CASE ~d
    <3>1. t.paymentMethods = s.paymentMethods \cup {x} /\ ~x.isDefault
      BY <1>1, <1>2, <1>5, <2>2
    <3>2. CASE \E m \in s.paymentMethods : m.isDefault
      <4>1. PICK m \in s.paymentMethods : m.isDefault
        BY <3>2
      <4>2. DefaultOf(s) = m.id
        BY <4>1, DefaultIs
      <4>3. DefaultOf(t) = m.id
        BY <3>1, <4>1, DefaultIs
      <4> QED
        BY <4>2, <4>3
    <3>3. CASE \A m \in s.paymentMethods : ~m.isDefault
      <4>1. \A m \in t.paymentMethods : ~m.isDefault
        BY <3>1, <3>3
      <4> QED
        BY <3>3, <4>1, DefaultIs
    <3> QED
      BY <3>2, <3>3
  <2> QED
    BY <2>1, <2>2
<1>10. SettingsOf(t) = SettingsOf(s)
  BY <1>5, SameSettings
<1> QED
  BY <1>5, <1>7, <1>8, <1>9, <1>10, ItemsAt, SameNicknames, SameThreads, SameSaid

LEMMA DeletedMethod ==
  ASSUME NEW s, WellFormed(s), NEW x \in s.paymentMethods,
         NEW t, WellFormed(t), t = [s EXCEPT !.paymentMethods = @ \ {x}]
  PROVE  /\ x.id \in ItemsOf(s)["paymentMethods"]
         /\ ItemsOf(t) = [ItemsOf(s) EXCEPT !["paymentMethods"] = @ \ {x.id}]
         /\ DefaultOf(t) = IF DefaultOf(s) = x.id THEN 0 ELSE DefaultOf(s)
         /\ SettingsOf(t) = SettingsOf(s) /\ NicknameOf(t) = NicknameOf(s)
         /\ ThreadOf(t) = ThreadOf(s) /\ SaidOf(t) = SaidOf(s)
<1>1. /\ t.paymentMethods = s.paymentMethods \ {x}
      /\ t.vehicles = s.vehicles
      /\ t.reviews = s.reviews /\ t.shopChatThreads = s.shopChatThreads
      /\ t.uploads = s.uploads /\ t.aiChatSessions = s.aiChatSessions
      /\ t.aiDetections = s.aiDetections
      /\ t.username = s.username /\ t.profile = s.profile
      /\ t.preferences = s.preferences /\ t.emailVerified = s.emailVerified
  BY DEF WellFormed, Store
<1>2. IdsOf(t.paymentMethods) = IdsOf(s.paymentMethods) \ {x.id}
  BY <1>1, IdsOfOneLess DEF WellFormed, Distinct
<1>3. x.id \in IdsOf(s.paymentMethods)
  BY DEF IdsOf
<1>4. ItemsOf(t) = [ItemsOf(s) EXCEPT !["paymentMethods"] = @ \ {x.id}]
  <2>1. ItemsOf(t)["paymentMethods"] = ItemsOf(s)["paymentMethods"] \ {x.id}
    BY <1>2, ItemsAt
  <2>2. ButFor("paymentMethods", ItemsOf(s), ItemsOf(t))
    <3>1. "paymentMethods" \in Registers!Lists
      BY DEF Registers!Lists
    <3> QED
      BY <1>1, <3>1, ItemsChange
  <2> QED
    BY <2>1, <2>2 DEF ButFor
<1>5. DefaultOf(t) = IF DefaultOf(s) = x.id THEN 0 ELSE DefaultOf(s)
  <2>0. \A m \in s.paymentMethods : m.id \in Ids /\ (m.id = x.id => m = x)
    BY DEF WellFormed, Store, PaymentMethod, Distinct, UniqueIds
  <2>1. CASE \E m \in s.paymentMethods : m.isDefault
    <3>1. PICK m \in s.paymentMethods : m.isDefault
      BY <2>1
    <3>2. DefaultOf(s) = m.id
      BY <3>1, DefaultIs
    <3>3. CASE m = x
      <4>1. \A k \in t.paymentMethods : ~k.isDefault
        BY <1>1, <3>1, <3>3 DEF WellFormed, SoundStore
      <4> QED
        BY <3>2, <3>3, <4>1, DefaultIs
    <3>4. CASE m # x
      <4>1. DefaultOf(t) = m.id
        BY <1>1, <3>1, <3>4, DefaultIs
      <4> QED
        BY <2>0, <3>2, <3>4, <4>1
    <3> QED
      BY <3>3, <3>4
  <2>2. CASE \A m \in s.paymentMethods : ~m.isDefault
    <3>1. \A m \in t.paymentMethods : ~m.isDefault
      BY <1>1, <2>2
    <3>2. DefaultOf(s) = 0 /\ DefaultOf(t) = 0
      BY <2>2, <3>1, DefaultIs
    <3> QED
      BY <2>0, <3>2
  <2> QED
    BY <2>1, <2>2
<1>6. SettingsOf(t) = SettingsOf(s)
  BY <1>1, SameSettings
<1> QED
  BY <1>1, <1>3, <1>4, <1>5, <1>6, ItemsAt, SameNicknames, SameThreads, SameSaid

LEMMA StartedThread ==
  ASSUME NEW s, WellFormed(s), NEW n \in Ids \ Held(s), NEW shop \in Shops,
         \A thread \in s.shopChatThreads : thread.shopId # shop,
         NEW t, WellFormed(t),
         t = [s EXCEPT !.shopChatThreads =
                @ \cup {[id |-> n, shopId |-> shop, messages |-> {}]}]
  PROVE  /\ ThreadOf(s)[shop] = 0
         /\ ThreadOf(t) = [ThreadOf(s) EXCEPT ![shop] = n]
         /\ SettingsOf(t) = SettingsOf(s) /\ ItemsOf(t) = ItemsOf(s)
         /\ NicknameOf(t) = NicknameOf(s) /\ DefaultOf(t) = DefaultOf(s)
         /\ SaidOf(t) = SaidOf(s)
<1>0. PICK x : x = [id |-> n, shopId |-> shop, messages |-> {}]
  OBVIOUS
<1>1. x.id = n /\ x.shopId = shop /\ x.messages = {}
  BY <1>0
<1>2. /\ t.shopChatThreads = s.shopChatThreads \cup {x}
      /\ t.vehicles = s.vehicles /\ t.paymentMethods = s.paymentMethods
      /\ t.reviews = s.reviews
      /\ t.uploads = s.uploads /\ t.aiChatSessions = s.aiChatSessions
      /\ t.aiDetections = s.aiDetections
      /\ t.username = s.username /\ t.profile = s.profile
      /\ t.preferences = s.preferences /\ t.emailVerified = s.emailVerified
  BY <1>0 DEF WellFormed, Store
<1>3. ThreadOf(t) = [ThreadOf(s) EXCEPT ![shop] = n]
  <2>1. ThreadOf(t)[shop] = n
    <3>1. x \in t.shopChatThreads
      BY <1>2
    <3> QED
      BY <1>1, <3>1, ThreadIs
  <2>2. ASSUME NEW other \in Shops \ {shop} PROVE ThreadOf(t)[other] = ThreadOf(s)[other]
    <3>1. CASE \E y \in s.shopChatThreads : y.shopId = other
      <4>1. PICK y \in s.shopChatThreads : y.shopId = other
        BY <3>1
      <4>2. y \in t.shopChatThreads
        BY <1>2
      <4>3. ThreadOf(s)[other] = y.id
        BY <4>1, ThreadIs
      <4>4. ThreadOf(t)[other] = y.id
        BY <4>1, <4>2, ThreadIs
      <4> QED
        BY <4>3, <4>4
    <3>2. CASE \A y \in s.shopChatThreads : y.shopId # other
      <4>1. \A y \in t.shopChatThreads : y.shopId # other
        BY <1>1, <1>2, <3>2
      <4>2. ThreadOf(s)[other] = 0
        BY <3>2, ThreadIs
      <4>3. ThreadOf(t)[other] = 0
        BY <4>1, ThreadIs
      <4> QED
        BY <4>2, <4>3
    <3> QED
      BY <3>1, <3>2
  <2>3. /\ ThreadOf(s) = [k \in Shops |-> ThreadOf(s)[k]]
        /\ ThreadOf(t) = [k \in Shops |-> ThreadOf(t)[k]]
    BY DEF ThreadOf
  <2> QED
    BY <2>1, <2>2, <2>3
<1>4. SaidOf(t) = SaidOf(s)
  <2>1. \A i \in Ids : \A m : Says(t, i, m) <=> Says(s, i, m)
    <3> TAKE i \in Ids
    <3> TAKE m
    <3> QED
      BY <1>1, <1>2 DEF Says
  <2> QED
    BY <2>1, SameMessages
<1>5. SettingsOf(t) = SettingsOf(s) /\ ItemsOf(t) = ItemsOf(s)
  BY <1>2, SameSettings, SameItems
<1> QED
  BY <1>2, <1>3, <1>4, <1>5, ThreadIs, SameNicknames, SameDefault

LEMMA SaidInThread ==
  ASSUME NEW s, WellFormed(s), NEW n \in Ids \ Held(s), NEW x \in s.shopChatThreads,
         NEW t, WellFormed(t),
         t = [s EXCEPT !.shopChatThreads =
                (@ \ {x}) \cup {[x EXCEPT !.messages = @ \cup {n}]}]
  PROVE  /\ x.id \in Ids /\ x.shopId \in Shops /\ ThreadOf(s)[x.shopId] = x.id
         /\ Added(x.id, n, s, t)
         /\ SettingsOf(t) = SettingsOf(s) /\ ItemsOf(t) = ItemsOf(s)
         /\ NicknameOf(t) = NicknameOf(s) /\ DefaultOf(t) = DefaultOf(s)
         /\ ThreadOf(t) = ThreadOf(s)
<1>0. PICK y : y = [x EXCEPT !.messages = @ \cup {n}]
  OBVIOUS
<1>1. x \in ChatThread
  BY DEF WellFormed, Store
<1>2. y.id = x.id /\ y.shopId = x.shopId /\ y.messages = x.messages \cup {n}
  BY <1>0, <1>1 DEF ChatThread
<1>3. /\ t.shopChatThreads = (s.shopChatThreads \ {x}) \cup {y}
      /\ t.vehicles = s.vehicles /\ t.paymentMethods = s.paymentMethods
      /\ t.reviews = s.reviews
      /\ t.uploads = s.uploads /\ t.aiChatSessions = s.aiChatSessions
      /\ t.aiDetections = s.aiDetections
      /\ t.username = s.username /\ t.profile = s.profile
      /\ t.preferences = s.preferences /\ t.emailVerified = s.emailVerified
  BY <1>0 DEF WellFormed, Store
<1>4. x.id \in Ids /\ x.shopId \in Shops /\ ThreadOf(s)[x.shopId] = x.id
  BY <1>1, ThreadIs DEF ChatThread
<1>5. ThreadOf(t) = ThreadOf(s)
  <2>1. ASSUME NEW shop \in Shops PROVE ThreadOf(t)[shop] = ThreadOf(s)[shop]
    <3>1. CASE shop = x.shopId
      <4>1. y \in t.shopChatThreads
        BY <1>3
      <4>2. ThreadOf(t)[y.shopId] = y.id
        BY <4>1, ThreadIs
      <4> QED
        BY <1>2, <1>4, <3>1, <4>2
    <3>2. CASE shop # x.shopId /\ \E z \in s.shopChatThreads : z.shopId = shop
      <4>1. PICK z \in s.shopChatThreads : z.shopId = shop
        BY <3>2
      <4>2. z \in t.shopChatThreads
        BY <1>3, <3>2, <4>1
      <4>3. ThreadOf(s)[shop] = z.id
        BY <4>1, ThreadIs
      <4>4. ThreadOf(t)[shop] = z.id
        BY <4>1, <4>2, ThreadIs
      <4> QED
        BY <4>3, <4>4
    <3>3. CASE shop # x.shopId /\ \A z \in s.shopChatThreads : z.shopId # shop
      <4>1. \A z \in t.shopChatThreads : z.shopId # shop
        BY <1>2, <1>3, <3>3
      <4>2. ThreadOf(s)[shop] = 0
        BY <3>3, ThreadIs
      <4>3. ThreadOf(t)[shop] = 0
        BY <4>1, ThreadIs
      <4> QED
        BY <4>2, <4>3
    <3> QED
      BY <3>1, <3>2, <3>3
  <2>2. /\ ThreadOf(s) = [k \in Shops |-> ThreadOf(s)[k]]
        /\ ThreadOf(t) = [k \in Shops |-> ThreadOf(t)[k]]
    BY DEF ThreadOf
  <2> QED
    BY <2>1, <2>2
<1>6. Added(x.id, n, s, t)
  <2>1. \A i \in Ids : \A m : Says(t, i, m) <=> Says(s, i, m) \/ (i = x.id /\ m = n)
    <3> TAKE i \in Ids
    <3> TAKE m
    <3>1. (\E c \in t.shopChatThreads : c.id = i /\ m \in c.messages) <=>
            \/ \E c \in s.shopChatThreads : c.id = i /\ m \in c.messages
            \/ i = x.id /\ m = n
      BY <1>2, <1>3
    <3> QED
      BY <1>3, <3>1 DEF Says
  <2> QED
    BY <1>4, <2>1, MoreMessages
<1>7. SettingsOf(t) = SettingsOf(s) /\ ItemsOf(t) = ItemsOf(s)
  BY <1>3, SameSettings, SameItems
<1> QED
  BY <1>3, <1>4, <1>5, <1>6, <1>7, SameNicknames, SameDefault

LEMMA CreatedSession ==
  ASSUME NEW s, WellFormed(s), NEW n \in Ids \ Held(s), NEW t,
         t = [s EXCEPT !.aiChatSessions = @ \cup {[id |-> n, messages |-> {}]}]
  PROVE  /\ n \notin ItemsOf(s)["aiChatSessions"]
         /\ ButFor("aiChatSessions", ItemsOf(s), ItemsOf(t))
         /\ ItemsOf(t)["aiChatSessions"] = ItemsOf(s)["aiChatSessions"] \cup {n}
         /\ SettingsOf(t) = SettingsOf(s) /\ NicknameOf(t) = NicknameOf(s)
         /\ DefaultOf(t) = DefaultOf(s) /\ ThreadOf(t) = ThreadOf(s)
         /\ SaidOf(t) = SaidOf(s)
<1>0. PICK x : x = [id |-> n, messages |-> {}]
  OBVIOUS
<1>1. x.id = n /\ x.messages = {}
  BY <1>0
<1>2. /\ t.aiChatSessions = s.aiChatSessions \cup {x}
      /\ t.vehicles = s.vehicles /\ t.paymentMethods = s.paymentMethods
      /\ t.reviews = s.reviews /\ t.shopChatThreads = s.shopChatThreads
      /\ t.uploads = s.uploads /\ t.aiDetections = s.aiDetections
      /\ t.username = s.username /\ t.profile = s.profile
      /\ t.preferences = s.preferences /\ t.emailVerified = s.emailVerified
  BY <1>0 DEF WellFormed, Store
<1>3. ItemsOf(t)["aiChatSessions"] = ItemsOf(s)["aiChatSessions"] \cup {n}
  <2>1. IdsOf(t.aiChatSessions) = IdsOf(s.aiChatSessions) \cup {n}
    BY <1>1, <1>2, IdsOfOneMore
  <2> QED
    BY <2>1, ItemsAt
<1>7. ButFor("aiChatSessions", ItemsOf(s), ItemsOf(t))
  <2>1. "aiChatSessions" \in Registers!Lists
    BY DEF Registers!Lists
  <2> QED
    BY <1>2, <2>1, ItemsChange
<1>4. n \notin ItemsOf(s)["aiChatSessions"]
  BY ItemsAt DEF Held
<1>5. SaidOf(t) = SaidOf(s)
  <2>1. \A i \in Ids : \A m : Says(t, i, m) <=> Says(s, i, m)
    <3> TAKE i \in Ids
    <3> TAKE m
    <3> QED
      BY <1>1, <1>2 DEF Says
  <2> QED
    BY <2>1, SameMessages
<1>6. SettingsOf(t) = SettingsOf(s)
  BY <1>2, SameSettings
<1> QED
  BY <1>2, <1>3, <1>4, <1>5, <1>6, <1>7, SameNicknames, SameDefault, SameThreads

LEMMA DeletedSession ==
  ASSUME NEW s, WellFormed(s), NEW x \in s.aiChatSessions,
         NEW t, t = [s EXCEPT !.aiChatSessions = @ \ {x}]
  PROVE  /\ x.id \in ItemsOf(s)["aiChatSessions"]
         /\ ItemsOf(t) = [ItemsOf(s) EXCEPT !["aiChatSessions"] = @ \ {x.id}]
         /\ SaidOf(t) = [SaidOf(s) EXCEPT ![x.id] = {}]
         /\ SettingsOf(t) = SettingsOf(s) /\ NicknameOf(t) = NicknameOf(s)
         /\ DefaultOf(t) = DefaultOf(s) /\ ThreadOf(t) = ThreadOf(s)
<1>1. /\ t.aiChatSessions = s.aiChatSessions \ {x}
      /\ t.vehicles = s.vehicles /\ t.paymentMethods = s.paymentMethods
      /\ t.reviews = s.reviews /\ t.shopChatThreads = s.shopChatThreads
      /\ t.uploads = s.uploads /\ t.aiDetections = s.aiDetections
      /\ t.username = s.username /\ t.profile = s.profile
      /\ t.preferences = s.preferences /\ t.emailVerified = s.emailVerified
  BY DEF WellFormed, Store
<1>2. x.id \in Ids /\ x.id \in IdsOf(s.aiChatSessions)
  BY DEF WellFormed, Store, AiChatSession, IdsOf
<1>3. ItemsOf(t) = [ItemsOf(s) EXCEPT !["aiChatSessions"] = @ \ {x.id}]
  <2>1. ItemsOf(t)["aiChatSessions"] = ItemsOf(s)["aiChatSessions"] \ {x.id}
    <3>1. IdsOf(t.aiChatSessions) = IdsOf(s.aiChatSessions) \ {x.id}
      BY <1>1, IdsOfOneLess DEF WellFormed, Distinct
    <3> QED
      BY <3>1, ItemsAt
  <2>2. ButFor("aiChatSessions", ItemsOf(s), ItemsOf(t))
    <3>1. "aiChatSessions" \in Registers!Lists
      BY DEF Registers!Lists
    <3> QED
      BY <1>1, <3>1, ItemsChange
  <2> QED
    BY <2>1, <2>2 DEF ButFor
<1>4. SaidOf(t) = [SaidOf(s) EXCEPT ![x.id] = {}]
  <2>0. /\ \A c \in s.shopChatThreads : c.id # x.id
        /\ \A c \in s.aiChatSessions : c.id = x.id => c = x
    <3>1. In(s, "threads") \cap In(s, "sessions") = {}
      BY DEF WellFormed, Distinct, Places
    <3>2. \A c \in s.shopChatThreads : c.id \in IdsOf(s.shopChatThreads)
      BY DEF IdsOf
    <3> QED
      BY <1>2, <3>1, <3>2, InEach DEF WellFormed, Distinct, UniqueIds
  <2>1. \A i \in Ids : \A m : Says(t, i, m) <=> Says(s, i, m) /\ i # x.id
    <3> TAKE i \in Ids
    <3> TAKE m
    <3> QED
      BY <1>1, <2>0 DEF Says
  <2>2. ButFor(x.id, SaidOf(s), SaidOf(t)) /\ SaidOf(t)[x.id] = {}
    BY <1>2, <2>1, NoMessages
  <2> QED
    BY <2>2 DEF ButFor
<1>5. SettingsOf(t) = SettingsOf(s)
  BY <1>1, SameSettings
<1> QED
  BY <1>1, <1>2, <1>3, <1>4, <1>5, ItemsAt, SameNicknames, SameDefault, SameThreads

LEMMA SaidInSession ==
  ASSUME NEW s, WellFormed(s), NEW n \in Ids \ Held(s), NEW x \in s.aiChatSessions,
         NEW t,
         t = [s EXCEPT !.aiChatSessions =
                (@ \ {x}) \cup {[x EXCEPT !.messages = @ \cup {n}]}]
  PROVE  /\ x.id \in Ids /\ x.id \in ItemsOf(s)["aiChatSessions"]
         /\ Added(x.id, n, s, t)
         /\ SettingsOf(t) = SettingsOf(s) /\ ItemsOf(t) = ItemsOf(s)
         /\ NicknameOf(t) = NicknameOf(s) /\ DefaultOf(t) = DefaultOf(s)
         /\ ThreadOf(t) = ThreadOf(s)
<1>0. PICK y : y = [x EXCEPT !.messages = @ \cup {n}]
  OBVIOUS
<1>1. x \in AiChatSession
  BY DEF WellFormed, Store
<1>2. y.id = x.id /\ y.messages = x.messages \cup {n}
  BY <1>0, <1>1 DEF AiChatSession
<1>3. /\ t.aiChatSessions = (s.aiChatSessions \ {x}) \cup {y}
      /\ t.vehicles = s.vehicles /\ t.paymentMethods = s.paymentMethods
      /\ t.reviews = s.reviews /\ t.shopChatThreads = s.shopChatThreads
      /\ t.uploads = s.uploads /\ t.aiDetections = s.aiDetections
      /\ t.username = s.username /\ t.profile = s.profile
      /\ t.preferences = s.preferences /\ t.emailVerified = s.emailVerified
  BY <1>0 DEF WellFormed, Store
<1>4. x.id \in Ids /\ x.id \in IdsOf(s.aiChatSessions)
  BY <1>1 DEF AiChatSession, IdsOf
<1>5. IdsOf(t.aiChatSessions) = IdsOf(s.aiChatSessions)
  BY <1>2, <1>3, IdsOfChanged
<1>6. Added(x.id, n, s, t)
  <2>1. \A i \in Ids : \A m : Says(t, i, m) <=> Says(s, i, m) \/ (i = x.id /\ m = n)
    <3> TAKE i \in Ids
    <3> TAKE m
    <3>1. (\E c \in t.aiChatSessions : c.id = i /\ m \in c.messages) <=>
            \/ \E c \in s.aiChatSessions : c.id = i /\ m \in c.messages
            \/ i = x.id /\ m = n
      BY <1>2, <1>3
    <3> QED
      BY <1>3, <3>1 DEF Says
  <2> QED
    BY <1>4, <2>1, MoreMessages
<1>7. SettingsOf(t) = SettingsOf(s) /\ ItemsOf(t) = ItemsOf(s)
  BY <1>3, <1>5, SameSettings, SameItems
<1> QED
  BY <1>3, <1>4, <1>6, <1>7, ItemsAt, SameNicknames, SameDefault, SameThreads

-------------------------------------------------------------------------------
(* What a handler computes from the value s that it read *)
Computed(s, t) ==
  \/ t = s
  \/ \E v \in Values :
       t \in {[s EXCEPT !.username = v], [s EXCEPT !.profile = v],
              [s EXCEPT !.preferences = v], [s EXCEPT !.emailVerified = v]}
  \/ \E n \in Ids \ Held(s), v \in Values \cup {NoValue} :
       t = [s EXCEPT !.vehicles = @ \cup {Vehicle(n, v)}]
  \/ \E x \in s.vehicles, v \in Values :
       t = [s EXCEPT !.vehicles = (@ \ {x}) \cup {[x EXCEPT !.nickname = v]}]
  \/ \E x \in s.vehicles : t = [s EXCEPT !.vehicles = @ \ {x}]
  \/ \E n \in Ids \ Held(s) :
       t \in {[s EXCEPT !.reviews = @ \cup {n}], [s EXCEPT !.uploads = @ \cup {n}],
              [s EXCEPT !.aiDetections = @ \cup {n}]}
  \/ \E x \in s.aiDetections : t = [s EXCEPT !.aiDetections = @ \ {x}]
  \/ \E n \in Ids \ Held(s), d \in BOOLEAN :
       t = [s EXCEPT !.paymentMethods =
              (IF d THEN Undefaulted(@) ELSE @) \cup {[id |-> n, isDefault |-> d]}]
  \/ \E x \in s.paymentMethods : t = [s EXCEPT !.paymentMethods = @ \ {x}]
  \/ \E n \in Ids \ Held(s), shop \in Shops :
       /\ \A thread \in s.shopChatThreads : thread.shopId # shop
       /\ t = [s EXCEPT !.shopChatThreads =
                 @ \cup {[id |-> n, shopId |-> shop, messages |-> {}]}]
  \/ \E n \in Ids \ Held(s), x \in s.shopChatThreads :
       t = [s EXCEPT !.shopChatThreads =
              (@ \ {x}) \cup {[x EXCEPT !.messages = @ \cup {n}]}]
  \/ \E n \in Ids \ Held(s) :
       t = [s EXCEPT !.aiChatSessions = @ \cup {[id |-> n, messages |-> {}]}]
  \/ \E x \in s.aiChatSessions : t = [s EXCEPT !.aiChatSessions = @ \ {x}]
  \/ \E n \in Ids \ Held(s), x \in s.aiChatSessions :
       t = [s EXCEPT !.aiChatSessions =
              (@ \ {x}) \cup {[x EXCEPT !.messages = @ \cup {n}]}]

(* A request that was not overtaken will write what its handler makes of   *)
(* the store as it still is.                                               *)
CurrentInv ==
  \A r \in Requests :
    InFlight(r) /\ requests[r].view = "current" => Computed(store, requests[r].next)

LEMMA HandlerComputes ==
  ASSUME StoreInv, NEW r \in Requests,
         \/ UpdateMe(r) \/ UpdateProfile(r) \/ UpdatePreferences(r) \/ VerifyEmail(r)
         \/ CreateVehicle(r) \/ UpdateVehicle(r) \/ DeleteVehicle(r)
         \/ CreateShopReview(r)
         \/ CreatePaymentMethod(r) \/ DeletePaymentMethod(r)
         \/ CreateShopChatThread(r) \/ CreateShopChatMessage(r)
         \/ CreateUploadedImage(r)
         \/ CreateAiChatSession(r) \/ DeleteAiChatSession(r) \/ CreateAiChatMessages(r)
         \/ CreateAiDetection(r) \/ DeleteAiDetection(r)
  PROVE  \E next, made, gone : Begin(r, next, made, gone) /\ Computed(store, next)
<1>1. WellFormed(store) /\ Held(store) \subseteq 1..issued /\ issued \in Nat
  BY MobileStoreAssumption DEF StoreInv, TypeOK
<1>2. store \in Store
  BY <1>1 DEF WellFormed
<1>3. ASSUME NEW next, Creates(r, next) PROVE NewId \in Ids \ Held(store)
  BY <1>1, <1>3 DEF Creates, Begin, NewId
<1>4. ASSUME NEW next, Changes(r, next), Computed(store, next)
      PROVE  \E t, made, gone : Begin(r, t, made, gone) /\ Computed(store, t)
  BY <1>4 DEF Changes
<1>5. ASSUME NEW next, Creates(r, next), Computed(store, next)
      PROVE  \E t, made, gone : Begin(r, t, made, gone) /\ Computed(store, t)
  BY <1>5 DEF Creates
<1>6. ASSUME NEW next, NEW gone, Deletes(r, next, gone), Computed(store, next)
      PROVE  \E t, made, g : Begin(r, t, made, g) /\ Computed(store, t)
  BY <1>6 DEF Deletes
<1>7. CASE UpdateMe(r)
  <2>1. PICK v \in Values \cup {store.username} : Changes(r, [store EXCEPT !.username = v])
    BY <1>7 DEF UpdateMe
  <2>2. v \in Values \/ [store EXCEPT !.username = v] = store
    BY <1>2, <2>1 DEF Store
  <2>3. Computed(store, [store EXCEPT !.username = v])
    BY <2>2 DEF Computed
  <2> QED
    BY <1>4, <2>1, <2>3
<1>8. CASE UpdateProfile(r)
  <2>1. PICK v \in Values \cup {store.profile} : Changes(r, [store EXCEPT !.profile = v])
    BY <1>8 DEF UpdateProfile
  <2>2. v \in Values \/ [store EXCEPT !.profile = v] = store
    BY <1>2, <2>1 DEF Store
  <2>3. Computed(store, [store EXCEPT !.profile = v])
    BY <2>2 DEF Computed
  <2> QED
    BY <1>4, <2>1, <2>3
<1>9. CASE UpdatePreferences(r)
  <2>1. PICK v \in Values \cup {store.preferences} :
          Changes(r, [store EXCEPT !.preferences = v])
    BY <1>9 DEF UpdatePreferences
  <2>2. v \in Values \/ [store EXCEPT !.preferences = v] = store
    BY <1>2, <2>1 DEF Store
  <2>3. Computed(store, [store EXCEPT !.preferences = v])
    BY <2>2 DEF Computed
  <2> QED
    BY <1>4, <2>1, <2>3
<1>10. CASE VerifyEmail(r)
  <2>1. PICK v \in Values : Changes(r, [store EXCEPT !.emailVerified = v])
    BY <1>10 DEF VerifyEmail
  <2>2. Computed(store, [store EXCEPT !.emailVerified = v])
    BY DEF Computed
  <2> QED
    BY <1>4, <2>1, <2>2
<1>11. CASE CreateVehicle(r)
  <2>1. PICK v \in Values \cup {NoValue} :
          Creates(r, [store EXCEPT !.vehicles = @ \cup {Vehicle(NewId, v)}])
    BY <1>11 DEF CreateVehicle, Vehicle
  <2>2. Computed(store, [store EXCEPT !.vehicles = @ \cup {Vehicle(NewId, v)}])
    BY <1>3, <2>1 DEF Computed
  <2> QED
    BY <1>5, <2>1, <2>2
<1>12. CASE UpdateVehicle(r)
  <2>1. PICK x \in store.vehicles, v \in Values :
          Changes(r, [store EXCEPT !.vehicles = (@ \ {x}) \cup {[x EXCEPT !.nickname = v]}])
    BY <1>12 DEF UpdateVehicle
  <2>2. Computed(store, [store EXCEPT !.vehicles =
                           (@ \ {x}) \cup {[x EXCEPT !.nickname = v]}])
    BY DEF Computed
  <2> QED
    BY <1>4, <2>1, <2>2
<1>13. CASE DeleteVehicle(r)
  <2>1. PICK x \in store.vehicles :
          Deletes(r, [store EXCEPT !.vehicles = @ \ {x}], {x.id})
    BY <1>13 DEF DeleteVehicle
  <2>2. Computed(store, [store EXCEPT !.vehicles = @ \ {x}])
    BY DEF Computed
  <2> QED
    BY <1>6, <2>1, <2>2
<1>14. CASE CreateShopReview(r) \/ CreateUploadedImage(r) \/ CreateAiDetection(r)
  <2>1. PICK t \in {[store EXCEPT !.reviews = @ \cup {NewId}],
                    [store EXCEPT !.uploads = @ \cup {NewId}],
                    [store EXCEPT !.aiDetections = @ \cup {NewId}]} : Creates(r, t)
    BY <1>14 DEF CreateShopReview, CreateUploadedImage, CreateAiDetection
  <2>2. NewId \in Ids \ Held(store)
    BY <1>3, <2>1
  <2>3. Computed(store, t)
    BY <2>2 DEF Computed
  <2> QED
    BY <1>5, <2>1, <2>3
<1>15. CASE CreatePaymentMethod(r)
  <2>1. PICK d \in BOOLEAN :
          Creates(r, [store EXCEPT !.paymentMethods =
            (IF d THEN Undefaulted(@) ELSE @) \cup {[id |-> NewId, isDefault |-> d]}])
    BY <1>15 DEF CreatePaymentMethod
  <2>2. Computed(store, [store EXCEPT !.paymentMethods =
            (IF d THEN Undefaulted(@) ELSE @) \cup {[id |-> NewId, isDefault |-> d]}])
    BY <1>3, <2>1 DEF Computed
  <2> QED
    BY <1>5, <2>1, <2>2
<1>16. CASE DeletePaymentMethod(r)
  <2>1. PICK x \in store.paymentMethods :
          Deletes(r, [store EXCEPT !.paymentMethods = @ \ {x}], {x.id})
    BY <1>16 DEF DeletePaymentMethod
  <2>2. Computed(store, [store EXCEPT !.paymentMethods = @ \ {x}])
    BY DEF Computed
  <2> QED
    BY <1>6, <2>1, <2>2
<1>17. CASE CreateShopChatThread(r)
  <2>1. PICK shop \in Shops :
          /\ \A thread \in store.shopChatThreads : thread.shopId # shop
          /\ Creates(r, [store EXCEPT !.shopChatThreads =
               @ \cup {[id |-> NewId, shopId |-> shop, messages |-> {}]}])
    BY <1>17 DEF CreateShopChatThread
  <2>2. Computed(store, [store EXCEPT !.shopChatThreads =
               @ \cup {[id |-> NewId, shopId |-> shop, messages |-> {}]}])
    BY <1>3, <2>1 DEF Computed
  <2> QED
    BY <1>5, <2>1, <2>2
<1>18. CASE CreateShopChatMessage(r)
  <2>1. PICK x \in store.shopChatThreads :
          Creates(r, [store EXCEPT !.shopChatThreads =
            (@ \ {x}) \cup {[x EXCEPT !.messages = @ \cup {NewId}]}])
    BY <1>18 DEF CreateShopChatMessage
  <2>2. Computed(store, [store EXCEPT !.shopChatThreads =
            (@ \ {x}) \cup {[x EXCEPT !.messages = @ \cup {NewId}]}])
    BY <1>3, <2>1 DEF Computed
  <2> QED
    BY <1>5, <2>1, <2>2
<1>19. CASE CreateAiChatSession(r)
  <2>1. Creates(r, [store EXCEPT !.aiChatSessions =
          @ \cup {[id |-> NewId, messages |-> {}]}])
    BY <1>19 DEF CreateAiChatSession
  <2>2. Computed(store, [store EXCEPT !.aiChatSessions =
          @ \cup {[id |-> NewId, messages |-> {}]}])
    BY <1>3, <2>1 DEF Computed
  <2> QED
    BY <1>5, <2>1, <2>2
<1>20. CASE DeleteAiChatSession(r)
  <2>1. PICK x \in store.aiChatSessions :
          Deletes(r, [store EXCEPT !.aiChatSessions = @ \ {x}], {x.id} \cup x.messages)
    BY <1>20 DEF DeleteAiChatSession
  <2>2. Computed(store, [store EXCEPT !.aiChatSessions = @ \ {x}])
    BY DEF Computed
  <2> QED
    BY <1>6, <2>1, <2>2
<1>21. CASE CreateAiChatMessages(r)
  <2>1. PICK x \in store.aiChatSessions :
          Creates(r, [store EXCEPT !.aiChatSessions =
            (@ \ {x}) \cup {[x EXCEPT !.messages = @ \cup {NewId}]}])
    BY <1>21 DEF CreateAiChatMessages
  <2>2. Computed(store, [store EXCEPT !.aiChatSessions =
            (@ \ {x}) \cup {[x EXCEPT !.messages = @ \cup {NewId}]}])
    BY <1>3, <2>1 DEF Computed
  <2> QED
    BY <1>5, <2>1, <2>2
<1>22. CASE DeleteAiDetection(r)
  <2>1. PICK x \in store.aiDetections :
          Deletes(r, [store EXCEPT !.aiDetections = @ \ {x}], {x})
    BY <1>22 DEF DeleteAiDetection
  <2>2. Computed(store, [store EXCEPT !.aiDetections = @ \ {x}])
    BY DEF Computed
  <2> QED
    BY <1>6, <2>1, <2>2
<1> QED
  BY <1>7, <1>8, <1>9, <1>10, <1>11, <1>12, <1>13, <1>14, <1>15, <1>16, <1>17, <1>18,
     <1>19, <1>20, <1>21, <1>22

LEMMA CurrentKept ==
  ASSUME StoreInv, CurrentInv, [Next]_vars
  PROVE  CurrentInv'
<1>1. ASSUME NEW r \in Requests, NEW next, NEW made, NEW gone,
             Begin(r, next, made, gone), Computed(store, next)
      PROVE  CurrentInv'
  <2>1. PICK call : call = [step |-> "save", view |-> "current", next |-> next,
                            made |-> made, gone |-> gone]
    OBVIOUS
  <2>2. requests' = [requests EXCEPT ![r] = call] /\ store' = store /\ call.next = next
    BY <1>1, <2>1 DEF Begin
  <2>3. \A q \in Requests : requests'[q] = IF q = r THEN call ELSE requests[q]
    BY <2>2 DEF StoreInv, TypeOK
  <2> QED
    BY <1>1, <2>2, <2>3 DEF CurrentInv, InFlight
<1>2. ASSUME NEW q \in Requests, InFlight(q)', requests'[q] = Overtaken[q]
      PROVE  requests'[q].view = "overtaken"
  <2>1. InFlight(q)
    BY <1>2 DEF InFlight, Overtaken
  <2>2. requests[q] \in SaveCall
    BY <2>1 DEF StoreInv, TypeOK, InFlight
  <2> QED
    BY <1>2, <2>1, <2>2 DEF Overtaken, SaveCall
<1>3. ASSUME NEW r \in Requests, Save(r) PROVE CurrentInv'
  <2>1. \A q \in Requests : InFlight(q)' => requests'[q] = Overtaken[q]
    BY <1>3 DEF Save, Overtaken, InFlight
  <2> QED
    BY <1>2, <2>1 DEF CurrentInv
<1>4. ASSUME NEW r \in Requests, Fail(r) PROVE CurrentInv'
  <2>1. requests' = [requests EXCEPT ![r] = Idle] /\ store' = store
    BY <1>4 DEF Fail
  <2>2. \A q \in Requests : requests'[q] = IF q = r THEN Idle ELSE requests[q]
    BY <2>1 DEF StoreInv, TypeOK
  <2> QED
    BY <2>1, <2>2 DEF CurrentInv, InFlight
<1>5. CASE UpdateSecurity
  <2>1. \A q \in Requests : requests'[q] = Overtaken[q]
    BY <1>5 DEF UpdateSecurity
  <2> QED
    BY <1>2, <2>1 DEF CurrentInv
<1>6. CASE UNCHANGED vars
  BY <1>6 DEF vars, CurrentInv, InFlight
<1> QED
  BY <1>1, <1>3, <1>4, <1>5, <1>6, HandlerComputes DEF Next

-------------------------------------------------------------------------------
(* A save that no other overtook is a step of the registers, by the one    *)
(* part that its handler changed.                                          *)
LEMMA SaveActsOnePart ==
  ASSUME StoreInv, StoreInv', NEW r \in Requests, Save(r),
         requests[r].view = "current", Computed(store, store')
  PROVE  Registers!RegistersNext
<1>1. WellFormed(store) /\ WellFormed(store')
  BY DEF StoreInv
<1>2. Registers!Commit(r)
  BY SaveCommits
<1>3. ViewOf[r] = "current"
  BY DEF Save, ViewOf
<1> DEFINE s == store
           t == store'
<1>4. CASE t = s
  <2>1. Registers!Keep(r)
    BY <1>2, <1>3, <1>4 DEF Registers!Keep, Registers!OnlyChanges, Registers!parts
  <2> QED
    BY <2>1 DEF Registers!RegistersNext
<1>5. ASSUME NEW v \in Values,
             t \in {[s EXCEPT !.username = v], [s EXCEPT !.profile = v],
                    [s EXCEPT !.preferences = v], [s EXCEPT !.emailVerified = v]}
      PROVE  Registers!RegistersNext
  <2>1. /\ \E p \in Registers!Settings : SettingsOf(t) = [SettingsOf(s) EXCEPT ![p] = v]
        /\ ItemsOf(t) = ItemsOf(s) /\ NicknameOf(t) = NicknameOf(s)
        /\ DefaultOf(t) = DefaultOf(s) /\ ThreadOf(t) = ThreadOf(s)
        /\ SaidOf(t) = SaidOf(s)
    BY <1>1, <1>5, SetSetting
  <2>2. Registers!Set(r)
    BY <1>2, <1>3, <2>1 DEF Registers!Set, Registers!OnlyChanges
  <2> QED
    BY <2>2 DEF Registers!RegistersNext
<1>6. ASSUME NEW n \in Ids \ Held(s), NEW v \in Values \cup {NoValue},
             t = [s EXCEPT !.vehicles = @ \cup {Vehicle(n, v)}]
      PROVE  Registers!RegistersNext
  <2>1. /\ n \in Ids \ ItemsOf(s)["vehicles"]
        /\ ItemsOf(t) = [ItemsOf(s) EXCEPT !["vehicles"] = @ \cup {n}]
        /\ NicknameOf(t) = [NicknameOf(s) EXCEPT ![n] = v]
        /\ SettingsOf(t) = SettingsOf(s) /\ DefaultOf(t) = DefaultOf(s)
        /\ ThreadOf(t) = ThreadOf(s) /\ SaidOf(t) = SaidOf(s)
    BY <1>1, <1>6, CreatedVehicle
  <2>2. Registers!AddVehicle(r)
    BY <1>2, <1>3, <2>1 DEF Registers!AddVehicle, Registers!OnlyChanges,
                            Registers!NoValue, NoValue
  <2> QED
    BY <2>2 DEF Registers!RegistersNext
<1>7. ASSUME NEW x \in s.vehicles, NEW v \in Values,
             t = [s EXCEPT !.vehicles = (@ \ {x}) \cup {[x EXCEPT !.nickname = v]}]
      PROVE  Registers!RegistersNext
  <2>1. /\ x.id \in ItemsOf(s)["vehicles"]
        /\ ItemsOf(t) = ItemsOf(s)
        /\ NicknameOf(t) = [NicknameOf(s) EXCEPT ![x.id] = v]
        /\ SettingsOf(t) = SettingsOf(s) /\ DefaultOf(t) = DefaultOf(s)
        /\ ThreadOf(t) = ThreadOf(s) /\ SaidOf(t) = SaidOf(s)
    BY <1>1, <1>7, UpdatedVehicle
  <2>2. Registers!Rename(r)
    BY <1>2, <1>3, <2>1 DEF Registers!Rename, Registers!OnlyChanges
  <2> QED
    BY <2>2 DEF Registers!RegistersNext
<1>8. ASSUME NEW x \in s.vehicles, t = [s EXCEPT !.vehicles = @ \ {x}]
      PROVE  Registers!RegistersNext
  <2>1. /\ x.id \in ItemsOf(s)["vehicles"]
        /\ ItemsOf(t) = [ItemsOf(s) EXCEPT !["vehicles"] = @ \ {x.id}]
        /\ NicknameOf(t) = [NicknameOf(s) EXCEPT ![x.id] = NoValue]
        /\ SettingsOf(t) = SettingsOf(s) /\ DefaultOf(t) = DefaultOf(s)
        /\ ThreadOf(t) = ThreadOf(s) /\ SaidOf(t) = SaidOf(s)
    BY <1>1, <1>8, DeletedVehicle
  <2>2. Registers!RemoveVehicle(r)
    BY <1>2, <1>3, <2>1 DEF Registers!RemoveVehicle, Registers!OnlyChanges,
                            Registers!NoValue, NoValue
  <2> QED
    BY <2>2 DEF Registers!RegistersNext
<1>9. ASSUME NEW n \in Ids \ Held(s),
             t \in {[s EXCEPT !.reviews = @ \cup {n}], [s EXCEPT !.uploads = @ \cup {n}],
                    [s EXCEPT !.aiDetections = @ \cup {n}]}
      PROVE  Registers!RegistersNext
  <2>1. /\ \E p \in {"reviews", "uploads", "aiDetections"} :
              /\ n \notin ItemsOf(s)[p]
              /\ ItemsOf(t) = [ItemsOf(s) EXCEPT ![p] = @ \cup {n}]
        /\ SettingsOf(t) = SettingsOf(s) /\ NicknameOf(t) = NicknameOf(s)
        /\ DefaultOf(t) = DefaultOf(s) /\ ThreadOf(t) = ThreadOf(s)
        /\ SaidOf(t) = SaidOf(s)
    BY <1>1, <1>9, AddedId
  <2>2. PICK p \in {"reviews", "uploads", "aiDetections"} :
          n \notin ItemsOf(s)[p] /\ ItemsOf(t) = [ItemsOf(s) EXCEPT ![p] = @ \cup {n}]
    BY <2>1
  <2>3. Registers!Add(r, p)
    BY <1>2, <1>3, <2>1, <2>2 DEF Registers!Add, Registers!OnlyChanges
  <2> QED
    BY <2>3 DEF Registers!RegistersNext
<1>10. ASSUME NEW x \in s.aiDetections, t = [s EXCEPT !.aiDetections = @ \ {x}]
       PROVE  Registers!RegistersNext
  <2>1. /\ x \in ItemsOf(s)["aiDetections"]
        /\ ItemsOf(t) = [ItemsOf(s) EXCEPT !["aiDetections"] = @ \ {x}]
        /\ SettingsOf(t) = SettingsOf(s) /\ NicknameOf(t) = NicknameOf(s)
        /\ DefaultOf(t) = DefaultOf(s) /\ ThreadOf(t) = ThreadOf(s)
        /\ SaidOf(t) = SaidOf(s)
    BY <1>1, <1>10, DeletedDetection
  <2>2. Registers!RemoveDetection(r)
    BY <1>2, <1>3, <2>1 DEF Registers!RemoveDetection, Registers!OnlyChanges
  <2> QED
    BY <2>2 DEF Registers!RegistersNext
<1>11. ASSUME NEW n \in Ids \ Held(s), NEW d \in BOOLEAN,
              t = [s EXCEPT !.paymentMethods =
                     (IF d THEN Undefaulted(@) ELSE @) \cup {[id |-> n, isDefault |-> d]}]
       PROVE  Registers!RegistersNext
  <2>1. /\ n \in Ids \ ItemsOf(s)["paymentMethods"]
        /\ ItemsOf(t) = [ItemsOf(s) EXCEPT !["paymentMethods"] = @ \cup {n}]
        /\ DefaultOf(t) \in {n, DefaultOf(s)}
        /\ SettingsOf(t) = SettingsOf(s) /\ NicknameOf(t) = NicknameOf(s)
        /\ ThreadOf(t) = ThreadOf(s) /\ SaidOf(t) = SaidOf(s)
    BY <1>1, <1>11, CreatedMethod
  <2>2. Registers!AddMethod(r)
    BY <1>2, <1>3, <2>1 DEF Registers!AddMethod, Registers!OnlyChanges
  <2> QED
    BY <2>2 DEF Registers!RegistersNext
<1>12. ASSUME NEW x \in s.paymentMethods, t = [s EXCEPT !.paymentMethods = @ \ {x}]
       PROVE  Registers!RegistersNext
  <2>1. /\ x.id \in ItemsOf(s)["paymentMethods"]
        /\ ItemsOf(t) = [ItemsOf(s) EXCEPT !["paymentMethods"] = @ \ {x.id}]
        /\ DefaultOf(t) = IF DefaultOf(s) = x.id THEN 0 ELSE DefaultOf(s)
        /\ SettingsOf(t) = SettingsOf(s) /\ NicknameOf(t) = NicknameOf(s)
        /\ ThreadOf(t) = ThreadOf(s) /\ SaidOf(t) = SaidOf(s)
    BY <1>1, <1>12, DeletedMethod
  <2>2. Registers!RemoveMethod(r)
    BY <1>2, <1>3, <2>1 DEF Registers!RemoveMethod, Registers!OnlyChanges, Registers!NoId
  <2> QED
    BY <2>2 DEF Registers!RegistersNext
<1>13. ASSUME NEW n \in Ids \ Held(s), NEW shop \in Shops,
              \A thread \in s.shopChatThreads : thread.shopId # shop,
              t = [s EXCEPT !.shopChatThreads =
                     @ \cup {[id |-> n, shopId |-> shop, messages |-> {}]}]
       PROVE  Registers!RegistersNext
  <2>1. /\ ThreadOf(s)[shop] = 0
        /\ ThreadOf(t) = [ThreadOf(s) EXCEPT ![shop] = n]
        /\ SettingsOf(t) = SettingsOf(s) /\ ItemsOf(t) = ItemsOf(s)
        /\ NicknameOf(t) = NicknameOf(s) /\ DefaultOf(t) = DefaultOf(s)
        /\ SaidOf(t) = SaidOf(s)
    BY <1>1, <1>13, StartedThread
  <2>2. Registers!StartThread(r)
    BY <1>2, <1>3, <2>1 DEF Registers!StartThread, Registers!OnlyChanges, Registers!NoId
  <2> QED
    BY <2>2 DEF Registers!RegistersNext
<1>14. ASSUME NEW n \in Ids \ Held(s), NEW x \in s.shopChatThreads,
              t = [s EXCEPT !.shopChatThreads =
                     (@ \ {x}) \cup {[x EXCEPT !.messages = @ \cup {n}]}]
       PROVE  Registers!RegistersNext
  <2>1. /\ x.id \in Ids /\ x.shopId \in Shops /\ ThreadOf(s)[x.shopId] = x.id
        /\ Added(x.id, n, s, t)
        /\ SettingsOf(t) = SettingsOf(s) /\ ItemsOf(t) = ItemsOf(s)
        /\ NicknameOf(t) = NicknameOf(s) /\ DefaultOf(t) = DefaultOf(s)
        /\ ThreadOf(t) = ThreadOf(s)
    BY <1>1, <1>14, SaidInThread
  <2>2. x.id # 0
    BY <2>1 DEF Ids
  <2>3. Registers!Say(r)
    BY <1>2, <1>3, <2>1, <2>2 DEF Added, Registers!Say, Registers!OnlyChanges,
                                   Registers!NoId
  <2> QED
    BY <2>3 DEF Registers!RegistersNext
<1>15. ASSUME NEW n \in Ids \ Held(s),
              t = [s EXCEPT !.aiChatSessions = @ \cup {[id |-> n, messages |-> {}]}]
       PROVE  Registers!RegistersNext
  <2>1. /\ n \notin ItemsOf(s)["aiChatSessions"]
        /\ ButFor("aiChatSessions", ItemsOf(s), ItemsOf(t))
        /\ ItemsOf(t)["aiChatSessions"] = ItemsOf(s)["aiChatSessions"] \cup {n}
        /\ SettingsOf(t) = SettingsOf(s) /\ NicknameOf(t) = NicknameOf(s)
        /\ DefaultOf(t) = DefaultOf(s) /\ ThreadOf(t) = ThreadOf(s)
        /\ SaidOf(t) = SaidOf(s)
    BY <1>1, <1>15, CreatedSession
  <2>2. Registers!Add(r, "aiChatSessions")
    BY <1>2, <1>3, <2>1 DEF ButFor, Registers!Add, Registers!OnlyChanges
  <2> QED
    BY <2>2 DEF Registers!RegistersNext
<1>16. ASSUME NEW x \in s.aiChatSessions, t = [s EXCEPT !.aiChatSessions = @ \ {x}]
       PROVE  Registers!RegistersNext
  <2>1. /\ x.id \in ItemsOf(s)["aiChatSessions"]
        /\ ItemsOf(t) = [ItemsOf(s) EXCEPT !["aiChatSessions"] = @ \ {x.id}]
        /\ SaidOf(t) = [SaidOf(s) EXCEPT ![x.id] = {}]
        /\ SettingsOf(t) = SettingsOf(s) /\ NicknameOf(t) = NicknameOf(s)
        /\ DefaultOf(t) = DefaultOf(s) /\ ThreadOf(t) = ThreadOf(s)
    BY <1>1, <1>16, DeletedSession
  <2>2. Registers!RemoveSession(r)
    BY <1>2, <1>3, <2>1 DEF Registers!RemoveSession, Registers!OnlyChanges
  <2> QED
    BY <2>2 DEF Registers!RegistersNext
<1>17. ASSUME NEW n \in Ids \ Held(s), NEW x \in s.aiChatSessions,
              t = [s EXCEPT !.aiChatSessions =
                     (@ \ {x}) \cup {[x EXCEPT !.messages = @ \cup {n}]}]
       PROVE  Registers!RegistersNext
  <2>1. /\ x.id \in Ids /\ x.id \in ItemsOf(s)["aiChatSessions"]
        /\ Added(x.id, n, s, t)
        /\ SettingsOf(t) = SettingsOf(s) /\ ItemsOf(t) = ItemsOf(s)
        /\ NicknameOf(t) = NicknameOf(s) /\ DefaultOf(t) = DefaultOf(s)
        /\ ThreadOf(t) = ThreadOf(s)
    BY <1>1, <1>17, SaidInSession
  <2>2. x.id # 0
    BY <2>1 DEF Ids
  <2>3. Registers!Say(r)
    BY <1>2, <1>3, <2>1, <2>2 DEF Added, Registers!Say, Registers!OnlyChanges,
                                   Registers!NoId
  <2> QED
    BY <2>3 DEF Registers!RegistersNext
<1> QED
  BY <1>4, <1>5, <1>6, <1>7, <1>8, <1>9, <1>10, <1>11, <1>12, <1>13, <1>14, <1>15,
     <1>16, <1>17 DEF Computed

LEMMA OvertakenSaveClobbers ==
  ASSUME StoreInv, StoreInv', NEW r \in Requests, Save(r),
         requests[r].view = "overtaken"
  PROVE  Registers!Clobber(r)
<1>1. Registers!Commit(r)
  BY SaveCommits
<1>2. ViewOf[r] = "overtaken"
  BY DEF Save, ViewOf
<1>3. WellFormed(store')
  BY DEF StoreInv
<1>4. /\ SettingsOf(store') \in [Registers!Settings -> Values \cup {NoValue}]
      /\ ItemsOf(store') \in [Registers!Lists -> SUBSET Ids]
      /\ DefaultOf(store') \in ItemsOf(store')["paymentMethods"] \cup {0}
      /\ ThreadOf(store') \in [Shops -> Ids \cup {0}]
      /\ SaidOf(store') \in [Ids -> SUBSET Ids]
  BY <1>3, PartsTyped
<1>5. NicknameOf(store') \in [Ids -> Values \cup {NoValue}]
  BY <1>3, NicknamesTyped
<1>6. Registers!PartsOK'
  BY <1>4, <1>5 DEF Registers!PartsOK, Registers!NoId, Registers!NoValue, NoValue
<1> QED
  BY <1>1, <1>2, <1>6 DEF Registers!Clobber

LEMMA NothingKept ==
  ASSUME NEW s, WellFormed(s), Held(s) = {}
  PROVE  /\ ItemsOf(s) = Registers!NoItems
         /\ NicknameOf(s) = Registers!NoNicknames
         /\ DefaultOf(s) = Registers!NoId
         /\ ThreadOf(s) = Registers!NoThreads
         /\ SaidOf(s) = Registers!NothingSaid
<1>1. /\ s.vehicles = {} /\ s.paymentMethods = {} /\ s.reviews = {} /\ s.uploads = {}
      /\ s.shopChatThreads = {} /\ s.aiChatSessions = {} /\ s.aiDetections = {}
  BY DEF Held, IdsOf
<1>2. ItemsOf(s) = Registers!NoItems
  <2>1. IdsOf({}) = {}
    BY DEF IdsOf
  <2>2. \A p \in Registers!Lists : ItemsOf(s)[p] = {}
    BY <1>1, <2>1, ItemsAt DEF Registers!Lists
  <2>3. ItemsOf(s) = [q \in Registers!Lists |-> ItemsOf(s)[q]]
    BY DEF ItemsOf, Registers!Lists
  <2> QED
    BY <2>2, <2>3 DEF Registers!NoItems
<1>3. NicknameOf(s) = Registers!NoNicknames
  <2>1. NicknameOf(s) = [i \in Ids |-> NicknameOf(s)[i]]
    BY DEF NicknameOf
  <2>2. \A i \in Ids : NicknameOf(s)[i] = NoValue
    BY <1>1, NicknameIs DEF IdsOf
  <2> QED
    BY <2>1, <2>2 DEF Registers!NoNicknames, Registers!NoValue, NoValue
<1>4. DefaultOf(s) = Registers!NoId
  BY <1>1, DefaultIs DEF Registers!NoId
<1>5. ThreadOf(s) = Registers!NoThreads
  <2>1. ThreadOf(s) = [k \in Shops |-> ThreadOf(s)[k]]
    BY DEF ThreadOf
  <2>2. \A shop \in Shops : ThreadOf(s)[shop] = 0
    BY <1>1, ThreadIs
  <2> QED
    BY <2>1, <2>2 DEF Registers!NoThreads, Registers!NoId
<1>6. SaidOf(s) = Registers!NothingSaid
  <2>1. SaidOf(s) = [i \in Ids |-> SaidOf(s)[i]]
    BY DEF SaidOf
  <2>2. \A i \in Ids : SaidOf(s)[i] = {}
    BY <1>1, SaidIs DEF Says
  <2> QED
    BY <2>1, <2>2 DEF Registers!NothingSaid
<1> QED
  BY <1>2, <1>3, <1>4, <1>5, <1>6

LEMMA UpdateSecurityResets ==
  ASSUME StoreInv, UpdateSecurity
  PROVE  Registers!Reset
<1>1. store' = NoStore /\ requests' = Overtaken
  BY DEF UpdateSecurity
<1>2. ViewOf' = Registers!Overtaken
  BY <1>1, WriteOvertakes
<1>3. SettingsOf(NoStore) = [p \in Registers!Settings |-> NoValue]
  BY DEF SettingsOf, NoStore, Registers!Settings
<1>4. /\ ItemsOf(NoStore) = Registers!NoItems
      /\ NicknameOf(NoStore) = Registers!NoNicknames
      /\ DefaultOf(NoStore) = Registers!NoId
      /\ ThreadOf(NoStore) = Registers!NoThreads
      /\ SaidOf(NoStore) = Registers!NothingSaid
  BY NoStoreHoldsNothing, NothingKept
<1> QED
  BY <1>1, <1>2, <1>3, <1>4 DEF Registers!Reset, Registers!NoValue, NoValue

LEMMA RegistersStart == Init => Registers!RegistersInit
<1> SUFFICES ASSUME Init PROVE Registers!RegistersInit
  OBVIOUS
<1>1. WellFormed(store) /\ Held(store) = {}
  <2>1. PICK v \in Values : store = SignedUpStore(v)
    BY DEF Init
  <2>2. /\ store \in Store
        /\ store.vehicles = {} /\ store.paymentMethods = {} /\ store.reviews = {}
        /\ store.uploads = {} /\ store.shopChatThreads = {}
        /\ store.aiChatSessions = {} /\ store.aiDetections = {}
    BY <2>1 DEF SignedUpStore, NoStore, Store
  <2> QED
    BY <2>2, NothingHeld
<1>2. SettingsOf(store) \in [Registers!Settings -> Values \cup {NoValue}]
  BY <1>1, PartsTyped
<1>3. /\ ItemsOf(store) = Registers!NoItems
      /\ NicknameOf(store) = Registers!NoNicknames
      /\ DefaultOf(store) = Registers!NoId
      /\ ThreadOf(store) = Registers!NoThreads
      /\ SaidOf(store) = Registers!NothingSaid
  BY <1>1, NothingKept
<1>4. ViewOf = [r \in Requests |-> "closed"]
  BY DEF Init, ViewOf, InFlight
<1> QED
  BY <1>2, <1>3, <1>4 DEF Registers!RegistersInit, Registers!NoValue, NoValue

(* The whole value that a handler writes back acts, when no other request  *)
(* or settings update came between its read and its write, as a change of  *)
(* the one part it is for; every other step of the service is one of the   *)
(* registers too, or changes none of them (mobile.service.ts:886-943).     *)
THEOREM StoreActsAsRegisters == Spec => ActsAsRegisters
<1>1. Init => CurrentInv
  BY DEF Init, CurrentInv, InFlight
<1>2. StoreInv /\ CurrentInv /\ [Next]_vars => CurrentInv'
  BY CurrentKept
<1>3. ASSUME StoreInv, StoreInv', CurrentInv, [Next]_vars
      PROVE  [Registers!RegistersNext]_(Registers!registers)
  <2>1. ASSUME NEW r \in Requests, NEW next, NEW made, NEW gone, Begin(r, next, made, gone)
        PROVE  Registers!RegistersNext
    <3>1. Registers!Open(r)
      BY <1>3, <2>1, BeginOpens
    <3> QED
      BY <3>1 DEF Registers!RegistersNext
  <2>2. ASSUME NEW r \in Requests, Save(r) PROVE Registers!RegistersNext
    <3>1. InFlight(r) /\ store' = requests[r].next
      BY <2>2 DEF Save
    <3>2. requests[r].view \in {"current", "overtaken"}
      BY <1>3, <3>1 DEF StoreInv, TypeOK, InFlight, SaveCall
    <3>3. CASE requests[r].view = "current"
      BY <1>3, <2>2, <3>1, <3>3, SaveActsOnePart DEF CurrentInv
    <3>4. CASE requests[r].view = "overtaken"
      <4>1. Registers!Clobber(r)
        BY <1>3, <2>2, <3>4, OvertakenSaveClobbers
      <4> QED
        BY <4>1 DEF Registers!RegistersNext
    <3> QED
      BY <3>2, <3>3, <3>4
  <2>3. ASSUME NEW r \in Requests, Fail(r) PROVE Registers!RegistersNext
    <3>1. Registers!Close(r)
      BY <1>3, <2>3, FailCloses
    <3> QED
      BY <3>1 DEF Registers!RegistersNext
  <2>4. CASE UpdateSecurity
    BY <1>3, <2>4, UpdateSecurityResets DEF Registers!RegistersNext
  <2>5. CASE UNCHANGED vars
    BY <2>5 DEF vars, Registers!registers, ViewOf, InFlight
  <2> QED
    BY <1>3, <2>1, <2>2, <2>3, <2>4, <2>5, HandlerComputes DEF Next
<1> QED
  BY <1>1, <1>2, <1>3, StoreInvHolds, RegistersStart, PTL
     DEF Spec, ActsAsRegisters, Registers!RegistersSpec
===============================================================================
