---------------------------- MODULE ReadCacheProofs ----------------------------
(***************************************************************************)
(* Staleness has a cause, for any number of readers, writers and writes.   *)
(***************************************************************************)
EXTENDS ReadCache, TLAPS

USE ReadCacheAssumption DEF ReadCacheAssumption

LEMMA ReadsAreTables == \A k \in AllKeys : Reads[k] \subseteq Tables /\ Reads[k] # {}
BY DEF AllKeys, Reads, Tables, DashboardReads, SetupWarningsReads, PaymentSummaryReads,
       ApplicationStatsReads

LEMMA KindsAre ==
  DOMAIN Writes = {"bookings", "mobileBookings", "customers", "cars", "sales", "refunds",
                   "settings", "signUps"}
BY DEF Writes

(* The lists of deletes, and what is in them *)
LEMMA DeleteLists ==
  /\ BookingDeletes \in Seq(SUBSET AllKeys)
  /\ SaleDeletes \in Seq(SUBSET AllKeys)
  /\ RefundDeletes \in Seq(SUBSET AllKeys)
  /\ SettingsDeletes \in Seq(SUBSET AllKeys)
  /\ << >> \in Seq(SUBSET AllKeys)
  /\ 1 \in DOMAIN BookingDeletes /\ "dashboard" \in BookingDeletes[1]
  /\ 2 \in DOMAIN SaleDeletes /\ "paymentSummary" \in SaleDeletes[2]
  /\ 3 \in DOMAIN SaleDeletes /\ "applicationStats" \in SaleDeletes[3]
  /\ 1 \in DOMAIN SettingsDeletes /\ "setupWarnings" \in SettingsDeletes[1]
<1> DEFINE A == {"dashboard", "setupWarnings"}
           P == {"paymentSummary"}
           S == {"applicationStats"}
           D == {"dashboard"}
           K == {"setupWarnings", "dashboard"}
<1>1. A \in SUBSET AllKeys /\ P \in SUBSET AllKeys /\ S \in SUBSET AllKeys
      /\ D \in SUBSET AllKeys /\ K \in SUBSET AllKeys
  BY DEF AllKeys
<1>2. "dashboard" \in A /\ "paymentSummary" \in P /\ "applicationStats" \in S
      /\ "setupWarnings" \in K
  OBVIOUS
<1>3. BookingDeletes = <<A>> /\ SaleDeletes = <<A, P, S>> /\ RefundDeletes = <<P, S, D>>
      /\ SettingsDeletes = <<K>>
  BY DEF BookingDeletes, SaleDeletes, RefundDeletes, SettingsDeletes
<1> HIDE DEF A, P, S, D, K
<1> QED
  BY <1>1, <1>2, <1>3

LEMMA DeletesAreLists == \A kind \in DOMAIN Writes : Deletes[kind] \in Seq(SUBSET AllKeys)
<1>1. /\ Deletes["bookings"] = BookingDeletes
      /\ Deletes["mobileBookings"] = << >>
      /\ Deletes["customers"] = << >>
      /\ Deletes["cars"] = << >>
      /\ Deletes["sales"] = SaleDeletes
      /\ Deletes["refunds"] = RefundDeletes
      /\ Deletes["settings"] = SettingsDeletes
      /\ Deletes["signUps"] = << >>
  BY DEF Deletes
<1> QED
  BY <1>1, KindsAre, DeleteLists

(* Every write either drops the read models it changes or is listed as one *)
(* that does not.                                                          *)
LEMMA WriteCovers ==
  ASSUME NEW kind \in DOMAIN Writes, NEW k \in AllKeys, NEW t \in Reads[k], t \in Writes[kind],
         <<kind, k>> \notin Uncovered
  PROVE  \E i \in DOMAIN Deletes[kind] : k \in Deletes[kind][i]
<1>1. /\ kind \in {"bookings", "mobileBookings"} => Writes[kind] = {"booking"}
      /\ kind = "customers" => Writes[kind] = {"customer"}
      /\ kind = "cars" => Writes[kind] = {"car"}
      /\ kind = "sales" => Writes[kind] = {"payment", "inventoryTransaction"}
      /\ kind = "refunds" => Writes[kind] = {}
      /\ kind \in {"settings", "signUps"} => Writes[kind] = {"setup"}
  BY DEF Writes
<1>2. /\ k = "dashboard" => Reads[k] = {"booking"}
      /\ k = "setupWarnings" => Reads[k] = {"setup"}
      /\ k = "paymentSummary" => Reads[k] = {"payment", "inventoryTransaction", "booking"}
      /\ k = "applicationStats" => Reads[k] = {"customer", "booking", "payment", "car"}
  BY DEF Reads, DashboardReads, SetupWarningsReads, PaymentSummaryReads, ApplicationStatsReads
<1>3. k \in {"dashboard", "setupWarnings", "paymentSummary", "applicationStats"}
  BY DEF AllKeys
<1>4. \/ kind = "bookings" /\ k = "dashboard"
      \/ kind = "sales" /\ k \in {"paymentSummary", "applicationStats"}
      \/ kind = "settings" /\ k = "setupWarnings"
  BY <1>1, <1>2, <1>3, KindsAre DEF Uncovered
<1>5. Deletes["bookings"] = BookingDeletes /\ Deletes["sales"] = SaleDeletes
      /\ Deletes["settings"] = SettingsDeletes
  BY DEF Deletes
<1> QED
  BY <1>4, <1>5, DeleteLists

-------------------------------------------------------------------------------
LEMMA InitInv == Init => CacheInv
<1> SUFFICES ASSUME Init PROVE CacheInv
  OBVIOUS
<1> USE DEF Init
<1>1. None \in Snapshot
  BY DEF None, Snapshot
<1>2. TypeOK
  BY <1>1 DEF TypeOK, Tables
<1>3. StaleHasCause /\ ReadsHaveCause
  BY DEF StaleHasCause, Stale, ReadsHaveCause
<1> QED
  BY <1>2, <1>3 DEF CacheInv

(* What the notes of an event do: they add a cause to the entries that     *)
(* exist and to the reads that queried something, and change nothing else. *)
LEMMA ReadersNoted ==
  ASSUME TypeOK, NEW ks, NEW cause \in Causes, readers' = ReadersNote(ks, cause)
  PROVE  /\ readers' \in [Readers -> {IdleReader} \cup ReadCall]
         /\ \A r \in Readers :
              /\ readers'[r] = IdleReader <=> readers[r] = IdleReader
              /\ readers[r] # IdleReader =>
                   /\ readers'[r].key = readers[r].key
                   /\ readers'[r].seen = readers[r].seen
                   /\ readers[r].causes \subseteq readers'[r].causes
                   /\ readers[r].key \in ks /\ readers[r].seen # None =>
                        cause \in readers'[r].causes
<1>1. readers \in [Readers -> {IdleReader} \cup ReadCall]
  BY DEF TypeOK
<1>2. \A call \in ReadCall :
        LET noted == [call EXCEPT !.causes = @ \cup {cause}]
        IN  /\ noted \in ReadCall
            /\ noted.key = call.key /\ noted.seen = call.seen
            /\ noted.causes = call.causes \cup {cause}
            /\ noted # IdleReader
  BY DEF ReadCall, IdleReader
<1>3. SUFFICES ASSUME NEW r \in Readers
      PROVE  /\ readers'[r] \in {IdleReader} \cup ReadCall
             /\ readers'[r] = IdleReader <=> readers[r] = IdleReader
             /\ readers[r] # IdleReader =>
                   /\ readers'[r].key = readers[r].key
                   /\ readers'[r].seen = readers[r].seen
                   /\ readers[r].causes \subseteq readers'[r].causes
                   /\ readers[r].key \in ks /\ readers[r].seen # None =>
                        cause \in readers'[r].causes
  <2>1. readers' = [r \in Readers |-> readers'[r]]
    BY DEF ReadersNote
  <2> QED
    BY <1>3, <2>1
<1>4. readers'[r] =
        IF readers[r] # IdleReader /\ readers[r].key \in ks /\ readers[r].seen # None
        THEN [readers[r] EXCEPT !.causes = @ \cup {cause}] ELSE readers[r]
  BY DEF ReadersNote
<1> QED
  BY <1>1, <1>2, <1>4

LEMMA EntriesNoted ==
  ASSUME TypeOK, NEW ks, NEW cause \in Causes, causes' = EntriesNote(ks, cause)
  PROVE  /\ causes' \in [Keys -> SUBSET Causes]
         /\ \A k \in Keys :
              /\ causes[k] \subseteq causes'[k]
              /\ k \in ks /\ cache[k] # None => causes'[k] # {}
BY DEF TypeOK, EntriesNote

-------------------------------------------------------------------------------
(* A step that changes no table and no writer keeps what is out of date. *)
LEMMA StartReadInv ==
  ASSUME CacheInv, NEW r \in Readers, NEW k \in Keys, StartRead(r, k)
  PROVE  CacheInv'
<1> USE DEF StartRead
<1> DEFINE call == [step |-> "compute", key |-> k, seen |-> None, causes |-> {}]
<1>1. call \in ReadCall /\ call.seen = None /\ call.key = k
  BY DEF ReadCall, None, Snapshot
<1>2. TypeOK
  BY DEF CacheInv
<1>3. readers' = [readers EXCEPT ![r] = call]
  OBVIOUS
<1> HIDE DEF call
<1>4. TypeOK'
  BY <1>1, <1>2, <1>3 DEF TypeOK
<1>5. StaleHasCause'
  BY DEF CacheInv, StaleHasCause, Stale, OutOfDate, Pending
<1>6. ReadsHaveCause'
  <2> SUFFICES ASSUME NEW q \in Readers, (readers[q] # IdleReader)',
                      OutOfDate(readers[q].seen, readers[q].key)'
               PROVE  (Pending(readers[q].key) \/ readers[q].causes # {})'
    BY DEF ReadsHaveCause
  <2>1. CASE q = r
    <3>1. readers'[q].seen = None /\ readers'[q].key \in AllKeys
      BY <1>1, <1>2, <1>3, <2>1 DEF TypeOK
    <3> QED
      BY <3>1, ReadsAreTables DEF OutOfDate, None
  <2>2. CASE q # r
    BY <1>2, <1>3, <2>2 DEF CacheInv, ReadsHaveCause, OutOfDate, Pending, TypeOK
  <2> QED
    BY <2>1, <2>2
<1> QED
  BY <1>4, <1>5, <1>6 DEF CacheInv

LEMMA QueryInv ==
  ASSUME CacheInv, NEW r \in Readers, NEW t \in Tables, Query(r, t)
  PROVE  CacheInv'
<1> USE DEF Query
<1> DEFINE call == [readers[r] EXCEPT !.seen[t] = version[t]]
<1>1. TypeOK /\ readers[r] \in ReadCall /\ version[t] \in Nat
  BY DEF CacheInv, TypeOK
<1>2. /\ call \in ReadCall /\ call.key = readers[r].key
      /\ call.causes = readers[r].causes
      /\ call.seen = [readers[r].seen EXCEPT ![t] = version[t]]
  BY <1>1 DEF ReadCall, Snapshot
<1>3. readers' = [readers EXCEPT ![r] = call]
  OBVIOUS
<1> HIDE DEF call
<1>4. TypeOK'
  BY <1>1, <1>2, <1>3 DEF TypeOK
<1>5. StaleHasCause'
  BY DEF CacheInv, StaleHasCause, Stale, OutOfDate, Pending
<1>6. ReadsHaveCause'
  <2> SUFFICES ASSUME NEW q \in Readers, (readers[q] # IdleReader)',
                      OutOfDate(readers[q].seen, readers[q].key)'
               PROVE  (Pending(readers[q].key) \/ readers[q].causes # {})'
    BY DEF ReadsHaveCause
  <2>1. CASE q = r
    <3>1. readers'[q] = call /\ readers[r].seen \in Snapshot
      BY <1>1, <1>3, <2>1 DEF TypeOK, ReadCall
    <3>2. PICK u \in Reads[call.key] : call.seen[u] # Unread /\ call.seen[u] < version[u]
      BY <3>1 DEF OutOfDate
    <3>3. u # t /\ call.seen[u] = readers[r].seen[u]
      BY <1>1, <1>2, <3>1, <3>2 DEF Snapshot
    <3>4. OutOfDate(readers[r].seen, readers[r].key)
      BY <1>2, <3>2, <3>3 DEF OutOfDate
    <3> QED
      BY <1>2, <2>1, <3>1, <3>4 DEF CacheInv, ReadsHaveCause, Pending
  <2>2. CASE q # r
    BY <1>1, <1>3, <2>2 DEF CacheInv, ReadsHaveCause, OutOfDate, Pending, TypeOK
  <2> QED
    BY <2>1, <2>2
<1> QED
  BY <1>4, <1>5, <1>6 DEF CacheInv

LEMMA FinishInv ==
  ASSUME CacheInv, NEW r \in Readers, Finish(r)
  PROVE  CacheInv'
<1> USE DEF Finish
<1>1. TypeOK /\ readers[r] \in ReadCall /\ readers[r] # IdleReader
  BY DEF CacheInv, TypeOK
<1>2. readers[r].key \in Keys /\ readers[r].seen \in Snapshot
      /\ readers[r].causes \subseteq Causes
  BY <1>1 DEF ReadCall
<1>3. readers' = [readers EXCEPT ![r] = IdleReader] /\ UNCHANGED <<version, writers>>
  OBVIOUS
<1>4. ReadsHaveCause'
  BY <1>1, <1>3 DEF CacheInv, ReadsHaveCause, OutOfDate, Pending, TypeOK
<1>5. CASE UNCHANGED <<cache, causes>>
  <2>1. TypeOK'
    BY <1>1, <1>3, <1>5 DEF TypeOK
  <2>2. StaleHasCause'
    BY <1>3, <1>5 DEF CacheInv, StaleHasCause, Stale, OutOfDate, Pending
  <2> QED
    BY <1>4, <2>1, <2>2 DEF CacheInv
<1>6. CASE /\ cache' = [cache EXCEPT ![readers[r].key] = readers[r].seen]
           /\ causes' = [causes EXCEPT ![readers[r].key] = readers[r].causes]
  <2>1. \A k \in Keys :
          /\ cache'[k] = IF k = readers[r].key THEN readers[r].seen ELSE cache[k]
          /\ causes'[k] = IF k = readers[r].key THEN readers[r].causes ELSE causes[k]
    BY <1>1, <1>6 DEF TypeOK
  <2>2. \A k \in Keys : cache'[k] # None => \A t \in Reads[k] : cache'[k][t] # Unread
    BY <1>1, <2>1 DEF TypeOK
  <2>3. cache' \in [Keys -> Snapshot] /\ causes' \in [Keys -> SUBSET Causes]
    BY <1>1, <1>2, <1>6 DEF TypeOK
  <2>4. TypeOK'
    BY <1>1, <1>3, <2>2, <2>3 DEF TypeOK
  <2>5. StaleHasCause'
    <3> SUFFICES ASSUME NEW k \in Keys, Stale(k)' PROVE (Pending(k) \/ causes[k] # {})'
      BY DEF StaleHasCause
    <3>1. CASE k = readers[r].key
      BY <1>1, <1>3, <2>1, <3>1 DEF CacheInv, ReadsHaveCause, Stale, OutOfDate, Pending
    <3>2. CASE k # readers[r].key
      BY <1>3, <2>1, <3>2 DEF CacheInv, StaleHasCause, Stale, OutOfDate, Pending
    <3> QED
      BY <3>1, <3>2
  <2> QED
    BY <1>4, <2>4, <2>5 DEF CacheInv
<1> QED
  BY <1>5, <1>6

LEMMA ReaderDiesInv ==
  ASSUME CacheInv, NEW r \in Readers, ReaderDies(r)
  PROVE  CacheInv'
<1> USE DEF ReaderDies
<1>1. TypeOK'
  BY DEF CacheInv, TypeOK
<1>2. StaleHasCause' /\ ReadsHaveCause'
  BY DEF CacheInv, StaleHasCause, ReadsHaveCause, Stale, OutOfDate, Pending, TypeOK
<1> QED
  BY <1>1, <1>2 DEF CacheInv

LEMMA ExpireInv ==
  ASSUME CacheInv, NEW k \in Keys, Expire(k)
  PROVE  CacheInv'
<1> USE DEF Expire
<1>1. TypeOK'
  BY DEF CacheInv, TypeOK, None, Snapshot
<1>2. StaleHasCause' /\ ReadsHaveCause'
  BY DEF CacheInv, StaleHasCause, ReadsHaveCause, Stale, OutOfDate, Pending, TypeOK
<1> QED
  BY <1>1, <1>2 DEF CacheInv

-------------------------------------------------------------------------------
(* What is out of date, and what is pending, after the step: k and seen    *)
(* are of the state before it.                                             *)
WillBeLate(seen, k) == \E t \in Reads[k] : seen[t] # Unread /\ seen[t] < version'[t]
WillPend(k) == \E v \in Writers : k \in Dropped(writers'[v])

(* A write ages the read models of its tables: those it does not list as   *)
(* uncovered it is about to drop.                                          *)
LEMMA WriteInv ==
  ASSUME CacheInv, NEW w \in Writers, NEW kind \in Kinds, Write(w, kind)
  PROVE  CacheInv'
<1> DEFINE left == {k \in Keys : <<kind, k>> \in Uncovered}
           call == [step |-> "invalidate", todo |-> Deletes[kind]]
<1>1. TypeOK /\ kind \in DOMAIN Writes /\ writers[w] = IdleWriter
  BY DEF CacheInv, Write
<1>2. /\ version' = [t \in Tables |-> version[t] + (IF t \in Writes[kind] THEN 1 ELSE 0)]
      /\ writers' = [writers EXCEPT ![w] = call]
      /\ readers' = ReadersNote(left, "uncovered")
      /\ causes' = EntriesNote(left, "uncovered")
      /\ cache' = cache
  BY DEF Write
<1>3. call \in WriteCall /\ call # IdleWriter /\ call.todo = Deletes[kind]
  BY <1>1, DeletesAreLists DEF WriteCall, IdleWriter
<1> HIDE DEF call
<1>4. /\ writers' \in [Writers -> {IdleWriter} \cup WriteCall]
      /\ writers'[w] = call
      /\ \A v \in Writers : v # w => writers'[v] = writers[v]
  BY <1>1, <1>2, <1>3 DEF TypeOK
<1>5. "uncovered" \in Causes
  BY DEF Causes
<1>6. \A q \in Readers :
        /\ readers'[q] = IdleReader <=> readers[q] = IdleReader
        /\ readers[q] # IdleReader =>
             /\ readers'[q].key = readers[q].key
             /\ readers'[q].seen = readers[q].seen
             /\ readers[q].causes \subseteq readers'[q].causes
             /\ readers[q].key \in left /\ readers[q].seen # None =>
                  "uncovered" \in readers'[q].causes
  BY <1>1, <1>2, <1>5, ReadersNoted
<1>7. readers' \in [Readers -> {IdleReader} \cup ReadCall]
  BY <1>1, <1>2, <1>5, ReadersNoted
<1>8. /\ causes' \in [Keys -> SUBSET Causes]
      /\ \A k \in Keys : /\ causes[k] \subseteq causes'[k]
                         /\ k \in left /\ cache[k] # None => causes'[k] # {}
  BY <1>1, <1>2, <1>5, EntriesNoted
<1>9. version' \in [Tables -> Nat]
  BY <1>1, <1>2 DEF TypeOK
<1>10. TypeOK'
  BY <1>1, <1>2, <1>4, <1>7, <1>8, <1>9 DEF TypeOK
(* What is pending stays so, and so does every key the write drops. *)
<1>11. \A k \in Keys : Pending(k) => WillPend(k)
  <2> SUFFICES ASSUME NEW k \in Keys, NEW v \in Writers, k \in Dropped(writers[v])
               PROVE  WillPend(k)
    BY DEF Pending
  <2>1. v # w
    BY <1>1 DEF Dropped
  <2>2. writers'[v] = writers[v]
    BY <1>4, <2>1
  <2> QED
    BY <2>2 DEF WillPend
<1>12. ASSUME NEW k \in Keys, NEW t \in Reads[k], t \in Writes[kind], k \notin left
       PROVE  WillPend(k)
  <2>1. PICK i \in DOMAIN Deletes[kind] : k \in Deletes[kind][i]
    BY <1>1, <1>12, WriteCovers
  <2>2. k \in (UNION {call.todo[j] : j \in DOMAIN call.todo}) \cap Keys
    BY <1>3, <2>1
  <2> QED
    BY <1>3, <1>4, <2>2 DEF WillPend, Dropped
(* What was current and no longer is, is of a table the write changed. *)
<1>13. ASSUME NEW k \in Keys, NEW seen \in Snapshot, WillBeLate(seen, k)
       PROVE  OutOfDate(seen, k) \/ k \in left \/ WillPend(k)
  <2>1. PICK t \in Reads[k] : seen[t] # Unread /\ seen[t] < version'[t]
    BY <1>13 DEF WillBeLate
  <2>2. CASE t \in Writes[kind]
    BY <1>12, <2>2
  <2>3. CASE t \notin Writes[kind]
    <3>1. t \in Tables
      BY ReadsAreTables
    <3>2. version'[t] = version[t]
      BY <1>1, <1>2, <2>3, <3>1 DEF TypeOK
    <3> QED
      BY <2>1, <3>2 DEF OutOfDate
  <2> QED
    BY <2>2, <2>3
<1>14. StaleHasCause'
  <2> SUFFICES ASSUME NEW k \in Keys, Stale(k)'
               PROVE  (Pending(k) \/ causes[k] # {})'
    BY DEF StaleHasCause
  <2>1. cache[k] # None /\ cache[k] \in Snapshot /\ WillBeLate(cache[k], k)
    BY <1>1, <1>2 DEF TypeOK, Stale, None, OutOfDate, WillBeLate, Tables, Unread
  <2>2. CASE OutOfDate(cache[k], k)
    BY <1>8, <1>11, <2>1, <2>2 DEF CacheInv, StaleHasCause, Stale, WillPend, Pending
  <2>3. CASE k \in left
    BY <1>8, <2>1, <2>3
  <2> QED
    BY <1>13, <2>1, <2>2, <2>3 DEF WillPend, Pending
<1>15. ReadsHaveCause'
  <2> SUFFICES ASSUME NEW q \in Readers, (readers[q] # IdleReader)',
                      OutOfDate(readers[q].seen, readers[q].key)'
               PROVE  (Pending(readers[q].key) \/ readers[q].causes # {})'
    BY DEF ReadsHaveCause
  <2> DEFINE k == readers[q].key
             seen == readers[q].seen
  <2>1. /\ readers[q] # IdleReader /\ k \in Keys /\ seen \in Snapshot
        /\ readers'[q].key = k /\ readers'[q].seen = seen
    BY <1>1, <1>6 DEF TypeOK, ReadCall, IdleReader
  <2>2. WillBeLate(seen, k)
    BY <2>1 DEF OutOfDate, WillBeLate
  <2> HIDE DEF k, seen
  <2>3. seen # None
    BY <2>1, <2>2, ReadsAreTables DEF WillBeLate, None
  <2>4. OutOfDate(seen, k) \/ k \in left \/ WillPend(k)
    BY <1>13, <2>1, <2>2
  <2>5. CASE OutOfDate(seen, k)
    <3>1. Pending(k) \/ readers[q].causes # {}
      BY <2>1, <2>5 DEF CacheInv, ReadsHaveCause, k, seen
    <3> QED
      BY <1>6, <1>11, <2>1, <3>1 DEF Pending, WillPend, k
  <2>6. CASE k \in left
    BY <1>6, <2>1, <2>3, <2>6 DEF k, seen
  <2>7. CASE WillPend(k)
    BY <2>1, <2>7 DEF Pending, WillPend
  <2> QED
    BY <2>4, <2>5, <2>6, <2>7
<1> QED
  BY <1>2, <1>10, <1>14, <1>15 DEF CacheInv

-------------------------------------------------------------------------------
(* A write that goes on, or ends: what it no longer has to send is either  *)
(* sent, or noted as skipped.                                              *)
LEMMA WriterSteps ==
  ASSUME CacheInv, NEW w \in Writers, NEW next \in {IdleWriter} \cup WriteCall,
         writers' = [writers EXCEPT ![w] = next],
         version' = version,
         NEW ks, Dropped(writers[w]) \subseteq Dropped(next) \cup ks,
         NEW cause \in Causes, readers' = ReadersNote(ks, cause),
         cache' \in [Keys -> Snapshot], causes' \in [Keys -> SUBSET Causes],
         \A k \in Keys :
           \/ cache'[k] = None
           \/ /\ cache'[k] = cache[k]
              /\ causes[k] \subseteq causes'[k]
              /\ k \in ks /\ cache[k] # None => causes'[k] # {}
  PROVE  CacheInv'
<1>1. TypeOK
  BY DEF CacheInv
<1>2. /\ writers' \in [Writers -> {IdleWriter} \cup WriteCall]
      /\ writers'[w] = next
      /\ \A v \in Writers : v # w => writers'[v] = writers[v]
  BY <1>1 DEF TypeOK
<1>3. \A q \in Readers :
        /\ readers'[q] = IdleReader <=> readers[q] = IdleReader
        /\ readers[q] # IdleReader =>
             /\ readers'[q].key = readers[q].key
             /\ readers'[q].seen = readers[q].seen
             /\ readers[q].causes \subseteq readers'[q].causes
             /\ readers[q].key \in ks /\ readers[q].seen # None =>
                  cause \in readers'[q].causes
  BY <1>1, ReadersNoted
<1>4. readers' \in [Readers -> {IdleReader} \cup ReadCall]
  BY <1>1, ReadersNoted
<1>6. TypeOK'
  BY <1>1, <1>2, <1>4 DEF TypeOK
<1>7. \A k \in Keys : Pending(k) => WillPend(k) \/ k \in ks
  BY <1>2 DEF Pending, WillPend
<1>8. StaleHasCause'
  <2> SUFFICES ASSUME NEW k \in Keys, Stale(k)'
               PROVE  (Pending(k) \/ causes[k] # {})'
    BY DEF StaleHasCause
  <2>1. cache'[k] = cache[k] /\ cache[k] # None
    BY DEF Stale, None, Tables, Unread
  <2>2. Stale(k)
    BY <2>1 DEF Stale, OutOfDate
  <2> QED
    BY <1>7, <2>2, <2>1 DEF CacheInv, StaleHasCause, Pending, WillPend
<1>9. ReadsHaveCause'
  <2> SUFFICES ASSUME NEW q \in Readers, (readers[q] # IdleReader)',
                      OutOfDate(readers[q].seen, readers[q].key)'
               PROVE  (Pending(readers[q].key) \/ readers[q].causes # {})'
    BY DEF ReadsHaveCause
  <2> DEFINE k == readers[q].key
             seen == readers[q].seen
  <2>1. /\ readers[q] # IdleReader /\ k \in Keys
        /\ readers'[q].key = k /\ readers'[q].seen = seen
    BY <1>1, <1>3 DEF TypeOK, ReadCall, IdleReader
  <2>2. OutOfDate(seen, k)
    BY <2>1 DEF OutOfDate
  <2>3. seen # None
    BY <2>1, <2>2, ReadsAreTables DEF OutOfDate, None
  <2>4. Pending(k) \/ readers[q].causes # {}
    BY <2>1, <2>2 DEF CacheInv, ReadsHaveCause
  <2> HIDE DEF k, seen
  <2>5. CASE k \in ks
    BY <1>3, <2>1, <2>3, <2>5 DEF k, seen
  <2>6. CASE WillPend(k)
    BY <2>1, <2>6 DEF Pending, WillPend
  <2> QED
    BY <1>3, <1>7, <2>1, <2>4, <2>5, <2>6
<1> QED
  BY <1>6, <1>8, <1>9 DEF CacheInv

LEMMA WriterDiesInv ==
  ASSUME CacheInv, NEW w \in Writers, WriterDies(w)
  PROVE  CacheInv'
<1>1. "skipped" \in Causes
  BY DEF Causes
<1>2. TypeOK
  BY DEF CacheInv
<1> QED
  BY <1>1, <1>2, WriterSteps, EntriesNoted DEF WriterDies, TypeOK

LEMMA AnswerInv ==
  ASSUME CacheInv, NEW w \in Writers, Answer(w)
  PROVE  CacheInv'
<1> USE DEF Answer
<1>1. TypeOK'
  BY DEF CacheInv, TypeOK
<1>2. Dropped(writers[w]) = {}
  BY DEF Dropped
<1>3. \A k \in Keys : Pending(k) => WillPend(k)
  BY <1>2 DEF Pending, WillPend, CacheInv, TypeOK
<1>4. StaleHasCause'
  BY <1>3 DEF CacheInv, StaleHasCause, Stale, OutOfDate, Pending, WillPend
<1>5. ReadsHaveCause'
  BY <1>3 DEF CacheInv, ReadsHaveCause, OutOfDate, Pending, WillPend, TypeOK, ReadCall,
              IdleReader
<1> QED
  BY <1>1, <1>4, <1>5 DEF CacheInv

(* A delete: the keys it names are dropped, or noted as skipped. *)
LEMMA InvalidateInv ==
  ASSUME CacheInv, NEW w \in Writers, Invalidate(w)
  PROVE  CacheInv'
<1> DEFINE call == writers[w]
           ks == Head(call.todo) \cap Keys
           next == [call EXCEPT !.todo = Tail(@)]
<1>1. TypeOK /\ call \in WriteCall /\ call.todo # << >>
  BY DEF CacheInv, TypeOK, Invalidate
<1>2. /\ call.todo \in Seq(SUBSET AllKeys)
      /\ next \in WriteCall /\ next.todo = Tail(call.todo)
      /\ next # IdleWriter /\ call # IdleWriter
  <2>1. call.todo \in Seq(SUBSET AllKeys) /\ call # IdleWriter
    BY <1>1 DEF WriteCall, Invalidate
  <2>2. Tail(call.todo) \in Seq(SUBSET AllKeys)
    BY <1>1, <2>1
  <2>3. next = [step |-> "invalidate", todo |-> Tail(call.todo)]
    BY <1>1 DEF WriteCall
  <2> HIDE DEF next
  <2> QED
    BY <2>1, <2>2, <2>3 DEF WriteCall, IdleWriter
<1>3. Dropped(call) \subseteq Dropped(next) \cup ks
  <2> SUFFICES ASSUME NEW i \in DOMAIN call.todo, NEW k \in Keys, k \in call.todo[i],
                      k \notin ks
               PROVE  \E j \in DOMAIN next.todo : k \in next.todo[j]
    BY <1>2 DEF Dropped
  <2>1. i # 1 /\ i \in 1..Len(call.todo)
    BY <1>1, <1>2
  <2>2. i - 1 \in DOMAIN next.todo /\ next.todo[i - 1] = call.todo[i]
    BY <1>2, <2>1
  <2> QED
    BY <2>2
<1>4. writers' = [writers EXCEPT ![w] = next] /\ version' = version
  BY DEF Invalidate
<1>5. CASE /\ causes' = EntriesNote(ks, "skipped")
           /\ readers' = ReadersNote(ks, "skipped")
           /\ UNCHANGED cache
  <2>1. "skipped" \in Causes
    BY DEF Causes
  <2>2. cache' \in [Keys -> Snapshot]
    BY <1>1, <1>5 DEF TypeOK
  <2> HIDE DEF ks, next, call
  <2> QED
    BY <1>1, <1>2, <1>3, <1>4, <1>5, <2>1, <2>2, WriterSteps, EntriesNoted DEF call
<1>6. CASE /\ cache' = [k \in Keys |-> IF k \in ks THEN None ELSE cache[k]]
           /\ causes' = [k \in Keys |-> IF k \in ks THEN {} ELSE causes[k]]
           /\ readers' = ReadersNote(ks, "overtaken")
  <2>1. "overtaken" \in Causes
    BY DEF Causes
  <2>2. cache' \in [Keys -> Snapshot] /\ causes' \in [Keys -> SUBSET Causes]
    BY <1>1, <1>6 DEF TypeOK, None, Snapshot
  <2> HIDE DEF ks, next, call
  <2> QED
    BY <1>1, <1>2, <1>3, <1>4, <1>6, <2>1, <2>2, WriterSteps DEF call
<1> QED
  BY <1>5, <1>6 DEF Invalidate

-------------------------------------------------------------------------------
LEMMA StepInv == CacheInv /\ [Next]_vars => CacheInv'
<1> SUFFICES ASSUME CacheInv, [Next]_vars PROVE CacheInv'
  OBVIOUS
<1>1. CASE UNCHANGED vars
  BY <1>1 DEF CacheInv, TypeOK, StaleHasCause, ReadsHaveCause, Stale, OutOfDate, Pending, vars
<1>2. ASSUME NEW r \in Readers, NEW k \in Keys, StartRead(r, k) PROVE CacheInv'
  BY <1>2, StartReadInv
<1>3. ASSUME NEW r \in Readers, NEW t \in Tables, Query(r, t) PROVE CacheInv'
  BY <1>3, QueryInv
<1>4. ASSUME NEW r \in Readers, Finish(r) PROVE CacheInv'
  BY <1>4, FinishInv
<1>5. ASSUME NEW r \in Readers, ReaderDies(r) PROVE CacheInv'
  BY <1>5, ReaderDiesInv
<1>6. ASSUME NEW w \in Writers, NEW kind \in Kinds, Write(w, kind) PROVE CacheInv'
  BY <1>6, WriteInv
<1>7. ASSUME NEW w \in Writers, Invalidate(w) PROVE CacheInv'
  BY <1>7, InvalidateInv
<1>8. ASSUME NEW w \in Writers, Answer(w) PROVE CacheInv'
  BY <1>8, AnswerInv
<1>9. ASSUME NEW w \in Writers, WriterDies(w) PROVE CacheInv'
  BY <1>9, WriterDiesInv
<1>10. ASSUME NEW k \in Keys, Expire(k) PROVE CacheInv'
  BY <1>10, ExpireInv
<1> QED
  BY <1>1, <1>2, <1>3, <1>4, <1>5, <1>6, <1>7, <1>8, <1>9, <1>10 DEF Next

(* The inductive invariant holds, with any number of requests on any       *)
(* number of processes, and however often Redis is lost.                   *)
THEOREM CacheInvHolds == Spec => []CacheInv
<1> QED
  BY InitInv, StepInv, PTL DEF Spec

(* Every entry of the cache was computed from a full set of queries. *)
THEOREM TypeCorrect == Spec => []TypeOK
<1>1. CacheInv => TypeOK
  BY DEF CacheInv
<1> QED
  BY <1>1, CacheInvHolds, PTL

(* A read model of redis-cache.service.ts is out of date only for one of   *)
(* the four reasons that its causes name.                                  *)
THEOREM StaleAlwaysHasCause == Spec => []StaleHasCause
<1>1. CacheInv => StaleHasCause
  BY DEF CacheInv
<1> QED
  BY <1>1, CacheInvHolds, PTL
================================================================================
