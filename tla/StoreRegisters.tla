---------------------------- MODULE StoreRegisters ----------------------------
(***************************************************************************)
(* What the mobile data of a user looks like to one who uses the API: a    *)
(* set of independent registers and lists.  A client that is not overtaken *)
(* by another changes the one part it was asked to change, and nothing     *)
(* else; at most one payment method is the default and a shop has at most  *)
(* one chat thread, by the shape of the state.  A client that another has  *)
(* overtaken promises nothing of the kind: it may change anything.         *)
(***************************************************************************)
EXTENDS Integers, FiniteSets

CONSTANTS
  Clients,      \* the requests that may be open at the same time
  Ids,          \* the identifiers of items and messages
  Shops,        \* the shops a chat may be with
  Values        \* the values of a setting

VARIABLES
  settings,  \* settings[p]: the value of the single-valued part p
  items,     \* items[p]: the items of the list p
  nickname,  \* nickname[i]: that of vehicle i
  default,   \* the default payment method, or NoId
  thread,    \* thread[s]: the chat thread with shop s, or NoId
  said,      \* said[i]: the messages of the thread or AI session i
  view       \* view[c]: whether the request c is open and not overtaken

parts == <<settings, items, nickname, default, thread, said>>
registers == <<settings, items, nickname, default, thread, said, view>>

NoId == 0
NoValue == "none"

Settings == {"username", "profile", "preferences", "emailVerified"}
Lists == {"vehicles", "paymentMethods", "reviews", "uploads",
          "aiChatSessions", "aiDetections"}

NoItems == [p \in Lists |-> {}]
NoNicknames == [i \in Ids |-> NoValue]
NoThreads == [s \in Shops |-> NoId]
NothingSaid == [i \in Ids |-> {}]

PartsOK ==
  /\ settings \in [Settings -> Values \cup {NoValue}]
  /\ items \in [Lists -> SUBSET Ids]
  /\ nickname \in [Ids -> Values \cup {NoValue}]
  /\ default \in items["paymentMethods"] \cup {NoId}
  /\ thread \in [Shops -> Ids \cup {NoId}]
  /\ said \in [Ids -> SUBSET Ids]

RegistersInit ==
  /\ settings \in [Settings -> Values \cup {NoValue}]
  /\ items = NoItems
  /\ nickname = NoNicknames
  /\ default = NoId
  /\ thread = NoThreads
  /\ said = NothingSaid
  /\ view = [c \in Clients |-> "closed"]

Open(c) ==
  /\ view[c] = "closed"
  /\ view' = [view EXCEPT ![c] = "current"]
  /\ UNCHANGED parts

Close(c) ==
  /\ view[c] # "closed"
  /\ view' = [view EXCEPT ![c] = "closed"]
  /\ UNCHANGED parts

(* The requests that are open when something is saved are overtaken by it *)
Overtaken == [d \in Clients |-> IF view[d] = "closed" THEN "closed" ELSE "overtaken"]

Commit(c) == view' = [Overtaken EXCEPT ![c] = "closed"]

OnlyChanges(c, others) ==
  /\ view[c] = "current"
  /\ Commit(c)
  /\ UNCHANGED others

Set(c) ==
  /\ OnlyChanges(c, <<items, nickname, default, thread, said>>)
  /\ \E p \in Settings, v \in Values : settings' = [settings EXCEPT ![p] = v]

(* A save that leaves every part as it was *)
Keep(c) == OnlyChanges(c, parts)

Add(c, p) ==
  /\ OnlyChanges(c, <<settings, nickname, default, thread, said>>)
  /\ \E i \in Ids \ items[p] : items' = [items EXCEPT ![p] = @ \cup {i}]

AddVehicle(c) ==
  /\ OnlyChanges(c, <<settings, default, thread, said>>)
  /\ \E i \in Ids \ items["vehicles"], v \in Values \cup {NoValue} :
       /\ items' = [items EXCEPT !["vehicles"] = @ \cup {i}]
       /\ nickname' = [nickname EXCEPT ![i] = v]

Rename(c) ==
  /\ OnlyChanges(c, <<settings, items, default, thread, said>>)
  /\ \E i \in items["vehicles"], v \in Values : nickname' = [nickname EXCEPT ![i] = v]

RemoveVehicle(c) ==
  /\ OnlyChanges(c, <<settings, default, thread, said>>)
  /\ \E i \in items["vehicles"] :
       /\ items' = [items EXCEPT !["vehicles"] = @ \ {i}]
       /\ nickname' = [nickname EXCEPT ![i] = NoValue]

(* A new method takes over as the default or leaves the default alone; the *)
(* first one is the default unless the client says no.                     *)
AddMethod(c) ==
  /\ OnlyChanges(c, <<settings, nickname, thread, said>>)
  /\ \E i \in Ids \ items["paymentMethods"] :
       /\ items' = [items EXCEPT !["paymentMethods"] = @ \cup {i}]
       /\ default' \in {i, default}

RemoveMethod(c) ==
  /\ OnlyChanges(c, <<settings, nickname, thread, said>>)
  /\ \E i \in items["paymentMethods"] :
       /\ items' = [items EXCEPT !["paymentMethods"] = @ \ {i}]
       /\ default' = IF default = i THEN NoId ELSE default

RemoveDetection(c) ==
  /\ OnlyChanges(c, <<settings, nickname, default, thread, said>>)
  /\ \E i \in items["aiDetections"] : items' = [items EXCEPT !["aiDetections"] = @ \ {i}]

RemoveSession(c) ==
  /\ OnlyChanges(c, <<settings, nickname, default, thread>>)
  /\ \E i \in items["aiChatSessions"] :
       /\ items' = [items EXCEPT !["aiChatSessions"] = @ \ {i}]
       /\ said' = [said EXCEPT ![i] = {}]

StartThread(c) ==
  /\ OnlyChanges(c, <<settings, items, nickname, default, said>>)
  /\ \E s \in Shops, i \in Ids :
       thread[s] = NoId /\ thread' = [thread EXCEPT ![s] = i]

Say(c) ==
  /\ OnlyChanges(c, <<settings, items, nickname, default, thread>>)
  /\ \E i \in {thread[s] : s \in Shops} \cup items["aiChatSessions"], m \in Ids :
       i # NoId /\ said' = [said EXCEPT ![i] = @ \cup {m}]

(* The save of a request that was overtaken *)
Clobber(c) ==
  /\ view[c] = "overtaken"
  /\ Commit(c)
  /\ PartsOK'

(* Everything is dropped at once, by a request that reads nothing *)
Reset ==
  /\ settings' = [p \in Settings |-> NoValue]
  /\ items' = NoItems
  /\ nickname' = NoNicknames
  /\ default' = NoId
  /\ thread' = NoThreads
  /\ said' = NothingSaid
  /\ view' = Overtaken

RegistersNext ==
  \/ \E c \in Clients :
       \/ Open(c) \/ Close(c) \/ Set(c) \/ Keep(c)
       \/ \E p \in {"reviews", "uploads", "aiChatSessions", "aiDetections"} : Add(c, p)
       \/ AddVehicle(c) \/ Rename(c) \/ RemoveVehicle(c)
       \/ AddMethod(c) \/ RemoveMethod(c)
       \/ RemoveDetection(c) \/ RemoveSession(c)
       \/ StartThread(c) \/ Say(c)
       \/ Clobber(c)
  \/ Reset

RegistersSpec == RegistersInit /\ [][RegistersNext]_registers
===============================================================================
