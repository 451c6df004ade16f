------------------------------ MODULE ReadCache ------------------------------
(***************************************************************************)
(* RedisCacheService and the four read models of a business kept in it     *)
(* (src/common/cache), with the requests that read them and the writes     *)
(* that are to drop them.  One business: its keys are its own.             *)
(*                                                                         *)
(* A read is getJson, then, on a miss, the queries of the factory, then    *)
(* setJson.  A write is the database write, then the deletes of the        *)
(* service's invalidate.  Nothing orders the two, and several processes    *)
(* share Redis and the database.  A process may find no Redis when it      *)
(* starts, loses it by itself and for good (retryStrategy: () => null),    *)
(* and swallows the error of a command that fails: so any command may or   *)
(* may not reach Redis, and the request goes on.                           *)
(***************************************************************************)
EXTENDS Integers, Sequences

CONSTANTS
  Keys,         \* the read models looked at
  Kinds,        \* the kinds of write looked at
  Readers,      \* slots for reads in flight at the same time
  Writers,      \* slots for writes in flight at the same time
  MaxWrites     \* bounds the number of writes

VARIABLES
  version,   \* version[t]: how often table t was written
  cache,     \* cache[k]: versions the entry of k was computed from, or None
  readers,   \* readers[r]: what the read in slot r holds
  writers,   \* writers[w]: what the write in slot w holds
  causes     \* history: why the entry of k may be out of date

vars == <<version, cache, readers, writers, causes>>

Tables == {"booking", "customer", "car", "payment", "inventoryTransaction", "setup"}

AllKeys == {"dashboard", "setupWarnings", "paymentSummary", "applicationStats"}

(* The tables each factory queries.  "setup" stands for the business with  *)
(* its services, bank details, billing accounts and users.                 *)
DashboardReads        == {"booking"}
SetupWarningsReads    == {"setup"}
PaymentSummaryReads   == {"payment", "inventoryTransaction", "booking"}
ApplicationStatsReads == {"customer", "booking", "payment", "car"}

Reads ==
  [dashboard        |-> DashboardReads,
   setupWarnings    |-> SetupWarningsReads,
   paymentSummary   |-> PaymentSummaryReads,
   applicationStats |-> ApplicationStatsReads]

(* The tables each kind of write changes, of those that are queried: a     *)
(* refund changes the status of a payment, which no factory looks at.      *)
(* The car or the customer that a booking creates on its way is a write of *)
(* its own, in an await of its own, and nothing is dropped for it.         *)
Writes ==
  [bookings       |-> {"booking"},
   mobileBookings |-> {"booking"},
   customers      |-> {"customer"},
   cars           |-> {"car"},
   sales          |-> {"payment", "inventoryTransaction"},
   refunds        |-> {},
   settings       |-> {"setup"},
   signUps        |-> {"setup"}]

(* The deletes each kind of write runs, in order: one DEL of several keys, *)
(* or one SCAN for the keys of a pattern.                                  *)
BookingDeletes == << {"dashboard", "setupWarnings"} >>

SaleDeletesButSummary == << {"dashboard", "setupWarnings"}, {"applicationStats"} >>
SaleDeletes ==
  << {"dashboard", "setupWarnings"}, {"paymentSummary"}, {"applicationStats"} >>

RefundDeletes == << {"paymentSummary"}, {"applicationStats"}, {"dashboard"} >>

SettingsDeletes == << {"setupWarnings", "dashboard"} >>

Deletes ==
  [bookings       |-> BookingDeletes,
   mobileBookings |-> << >>,
   customers      |-> << >>,
   cars           |-> << >>,
   sales          |-> SaleDeletes,
   refunds        |-> RefundDeletes,
   settings       |-> SettingsDeletes,
   signUps        |-> << >>]

(* The writes that leave a read model of theirs in the cache *)
Uncovered ==
  { <<"bookings", "paymentSummary">>, <<"bookings", "applicationStats">>,
    <<"mobileBookings", "dashboard">>, <<"mobileBookings", "paymentSummary">>,
    <<"mobileBookings", "applicationStats">>,
    <<"customers", "applicationStats">>, <<"cars", "applicationStats">>,
    <<"signUps", "setupWarnings">> }

ASSUME ReadCacheAssumption ==
  /\ Keys \subseteq AllKeys
  /\ Kinds \subseteq DOMAIN Writes
  /\ MaxWrites \in Nat

Unread == -1
None == [t \in Tables |-> Unread]

Snapshot == [Tables -> Nat \cup {Unread}]

IdleReader == [step |-> "idle"]
IdleWriter == [step |-> "idle"]

(* uncovered: a write that does not drop the key; skipped: a delete that   *)
(* was not sent; overtaken: a delete that came while the value was computed *)
Causes == {"uncovered", "skipped", "overtaken"}

ReadCall == [step : {"compute"}, key : Keys, seen : Snapshot,
             causes : SUBSET Causes]

WriteCall == [step : {"invalidate"}, todo : Seq(SUBSET AllKeys)]

Init ==
  /\ version = [t \in Tables |-> 0]
  /\ cache = [k \in Keys |-> None]
  /\ readers = [r \in Readers |-> IdleReader]
  /\ writers = [w \in Writers |-> IdleWriter]
  /\ causes = [k \in Keys |-> {}]

TotalWrites ==
  version["booking"] + version["customer"] + version["car"] + version["payment"]
    + version["setup"]

(* History: an event that concerns the keys ks befalls the entries that    *)
(* exist and the reads that have queried something.                        *)
ReadersNote(ks, cause) ==
  [r \in Readers |->
     IF readers[r] # IdleReader /\ readers[r].key \in ks /\ readers[r].seen # None
     THEN [readers[r] EXCEPT !.causes = @ \cup {cause}] ELSE readers[r]]

EntriesNote(ks, cause) ==
  [k \in Keys |-> IF k \in ks /\ cache[k] # None THEN causes[k] \cup {cause}
                                                 ELSE causes[k]]

-------------------------------------------------------------------------------
(* remember, on a miss: the factory starts.  A get that does not reach     *)
(* Redis is a miss; a hit is answered and changes nothing.                 *)
StartRead(r, k) ==
  /\ readers[r] = IdleReader
  /\ readers' = [readers EXCEPT ![r] =
       [step |-> "compute", key |-> k, seen |-> None, causes |-> {}]]
  /\ UNCHANGED <<version, cache, writers, causes>>

(* One query of the factory: they run side by side (Promise.all). *)
Query(r, t) ==
  /\ readers[r] # IdleReader
  /\ t \in Reads[readers[r].key]
  /\ readers[r].seen[t] = Unread
  /\ readers' = [readers EXCEPT ![r].seen[t] = version[t]]
  /\ UNCHANGED <<version, cache, writers, causes>>

(* setJson, where it reaches Redis, and the answer *)
FinishEarly(r) ==
  LET call == readers[r] IN
  /\ call # IdleReader
  /\ \E t \in Reads[call.key] : call.seen[t] # Unread
  /\ cache' = [cache EXCEPT ![call.key] = call.seen]
  /\ causes' = [causes EXCEPT ![call.key] = call.causes]
  /\ readers' = [readers EXCEPT ![r] = IdleReader]
  /\ UNCHANGED <<version, writers>>
Finish(r) ==
  LET call == readers[r] IN
  /\ call # IdleReader
  /\ \A t \in Reads[call.key] : call.seen[t] # Unread
  /\ \/ /\ cache' = [cache EXCEPT ![call.key] = call.seen]
        /\ causes' = [causes EXCEPT ![call.key] = call.causes]
     \/ UNCHANGED <<cache, causes>>
  /\ readers' = [readers EXCEPT ![r] = IdleReader]
  /\ UNCHANGED <<version, writers>>

-------------------------------------------------------------------------------
(* The database write of a request.  Its invalidation is still to come,    *)
(* but for the keys it never drops.                                        *)
Write(w, kind) ==
  LET left == {k \in Keys : <<kind, k>> \in Uncovered} IN
  /\ writers[w] = IdleWriter
  /\ TotalWrites < MaxWrites
  /\ version' = [t \in Tables |-> version[t] + (IF t \in Writes[kind] THEN 1 ELSE 0)]
  /\ writers' = [writers EXCEPT ![w] =
       [step |-> "invalidate", todo |-> Deletes[kind]]]
  /\ readers' = ReadersNote(left, "uncovered")
  /\ causes' = EntriesNote(left, "uncovered")
  /\ UNCHANGED cache

(* The next delete, which reaches Redis or does not.  A read that is being *)
(* computed is overtaken by it.                                            *)
Invalidate(w) ==
  LET call == writers[w]
      ks == Head(call.todo) \cap Keys
  IN
  /\ call # IdleWriter /\ call.todo # <<>>
  /\ writers' = [writers EXCEPT ![w].todo = Tail(@)]
  /\ \/ /\ cache' = [k \in Keys |-> IF k \in ks THEN None ELSE cache[k]]
        /\ causes' = [k \in Keys |-> IF k \in ks THEN {} ELSE causes[k]]
        /\ readers' = ReadersNote(ks, "overtaken")
     \/ /\ causes' = EntriesNote(ks, "skipped")
        /\ readers' = ReadersNote(ks, "skipped")
        /\ UNCHANGED cache
  /\ UNCHANGED version

Answer(w) ==
  /\ writers[w] # IdleWriter /\ writers[w].todo = <<>>
  /\ writers' = [writers EXCEPT ![w] = IdleWriter]
  /\ UNCHANGED <<version, cache, readers, causes>>

-------------------------------------------------------------------------------
(* The deletes a request has yet to send.  They are never sent when its    *)
(* process dies, or when a SCAN throws (deleteByPattern catches nothing).  *)
Dropped(call) ==
  IF call = IdleWriter THEN {}
  ELSE (UNION {call.todo[i] : i \in DOMAIN call.todo}) \cap Keys

WriterDies(w) ==
  LET ks == Dropped(writers[w]) IN
  /\ writers[w] # IdleWriter
  /\ writers' = [writers EXCEPT ![w] = IdleWriter]
  /\ causes' = EntriesNote(ks, "skipped")
  /\ readers' = ReadersNote(ks, "skipped")
  /\ UNCHANGED <<version, cache>>

ReaderDies(r) ==
  /\ readers[r] # IdleReader
  /\ readers' = [readers EXCEPT ![r] = IdleReader]
  /\ UNCHANGED <<version, cache, writers, causes>>

(* Redis drops the entry: its EX ran out, or it was evicted or lost *)
NeverExpires(k) == FALSE /\ UNCHANGED vars
Expire(k) ==
  /\ cache[k] # None
  /\ cache' = [cache EXCEPT ![k] = None]
  /\ causes' = [causes EXCEPT ![k] = {}]
  /\ UNCHANGED <<version, readers, writers>>

Next ==
  \/ \E r \in Readers :
       \/ \E k \in Keys : StartRead(r, k)
       \/ \E t \in Tables : Query(r, t)
       \/ Finish(r)
       \/ ReaderDies(r)
  \/ \E w \in Writers :
       \/ \E kind \in Kinds : Write(w, kind)
       \/ Invalidate(w)
       \/ Answer(w)
       \/ WriterDies(w)
  \/ \E k \in Keys : Expire(k)

(* The event loop resumes a request whose await is done, and Redis honours *)
(* the TTL that every entry is set with.                                   *)
Fairness ==
  /\ \A r \in Readers : WF_vars((\E t \in Tables : Query(r, t)) \/ Finish(r))
  /\ \A w \in Writers : WF_vars(Invalidate(w) \/ Answer(w))
  /\ \A k \in Keys : WF_vars(Expire(k))

Spec == Init /\ [][Next]_vars /\ Fairness

-------------------------------------------------------------------------------
TypeOK ==
  /\ version \in [Tables -> Nat]
  /\ cache \in [Keys -> Snapshot]
  /\ \A k \in Keys : cache[k] # None => \A t \in Reads[k] : cache[k][t] # Unread
  /\ readers \in [Readers -> {IdleReader} \cup ReadCall]
  /\ writers \in [Writers -> {IdleWriter} \cup WriteCall]
  /\ causes \in [Keys -> SUBSET Causes]

OutOfDate(seen, k) == \E t \in Reads[k] : seen[t] # Unread /\ seen[t] < version[t]

Stale(k) == cache[k] # None /\ OutOfDate(cache[k], k)

Pending(k) == \E w \in Writers : k \in Dropped(writers[w])

(* An entry is out of date only for a reason one can name: its delete is   *)
(* about to be sent; or a write that does not drop it came after it; or a  *)
(* delete was lost with Redis or with its request; or the read that set it *)
(* was overtaken by a delete (getJson and setJson are separate awaits,     *)
(* redis-cache.service.ts:94-98).                                          *)
StaleHasCause == \A k \in Keys : Stale(k) => Pending(k) \/ causes[k] # {}

(* The inductive invariant: of a read in flight, too, what it has queried  *)
(* is out of date only for a reason that its entry will carry.             *)
ReadsHaveCause ==
  \A r \in Readers :
    readers[r] # IdleReader /\ OutOfDate(readers[r].seen, readers[r].key) =>
      Pending(readers[r].key) \/ readers[r].causes # {}

CacheInv == TypeOK /\ StaleHasCause /\ ReadsHaveCause

(* Whatever was lost, overtaken or never dropped: when the writes stop,    *)
(* every read model becomes current and stays so.  Only the TTL does it.   *)
EventuallyFresh == <>[](\A k \in Keys : ~Stale(k))

(* x-redis-cache of the API lists with each read model the writes that     *)
(* drop it: none of those looked at leaves the model in the cache.         *)
WritesDropTheirModels ==
  \A k \in Keys : Stale(k) => Pending(k) \/ causes[k] \cap {"skipped", "overtaken"} # {}
===============================================================================
