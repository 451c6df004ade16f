---------------------------- MODULE SessionsProofs ----------------------------
(***************************************************************************)
(* Sessions, for any number of users, tokens and requests in flight: the   *)
(* inductive invariant SessionsInv, and what follows from it.              *)
(***************************************************************************)
EXTENDS Sessions, FiniteSetTheorems, TLAPS

USE SessionsAssumption

LEMMA InitInv == Init => SessionsInv
BY DEF Init, SessionsInv, TypeOK, TokenRow, Unissued, RevokedWereIssued, CallsConsistent,
       OneExchangePerSlot, ExchangedTokensRevoked, RevokedHasCause, Children

(* Revoking a row keeps it a row. *)
LEMMA RevokedRow ==
  ASSUME NEW row \in TokenRow
  PROVE  [row EXCEPT !.revoked = TRUE] \in TokenRow
BY DEF TokenRow

(* A new row adds a child to its parent and nothing else. *)
LEMMA NewRowStep ==
  ASSUME SessionsInv, NEW t \in TokenIds, NEW u, NEW p \in TokenIds \cup {Null},
         NEW by \in RefreshCalls \cup {Null},
         ~tokens[t].issued,
         tokens' = [tokens EXCEPT ![t] = NewRow(u, p, by)]
  PROVE  /\ \A s \in TokenIds : s # t => tokens'[s] = tokens[s]
         /\ tokens'[t] = [issued |-> TRUE, userId |-> u, expired |-> FALSE,
                          revoked |-> FALSE, parent |-> p, by |-> by]
         /\ \A s \in TokenIds : Children(s)' = IF s = p THEN Children(s) \cup {t}
                                               ELSE Children(s)
         /\ \A s \in TokenIds : t \notin Children(s)
<1>1. /\ \A s \in TokenIds : s # t => tokens'[s] = tokens[s]
      /\ tokens'[t] = [issued |-> TRUE, userId |-> u, expired |-> FALSE,
                       revoked |-> FALSE, parent |-> p, by |-> by]
  BY DEF SessionsInv, TypeOK, NewRow
<1>2. \A s \in TokenIds : t \notin Children(s)
  BY DEF Children
<1>3. ASSUME NEW s \in TokenIds
      PROVE  Children(s)' = IF s = p THEN Children(s) \cup {t} ELSE Children(s)
  <2>1. tokens'[t].issued /\ tokens'[t].parent = p
    BY <1>1
  <2> QED
    BY <1>1, <2>1 DEF Children
<1> QED
  BY <1>1, <1>2, <1>3

LEMMA StepInv == SessionsInv /\ [Next]_vars => SessionsInv'
<1> SUFFICES ASSUME SessionsInv, [Next]_vars PROVE SessionsInv'
  OBVIOUS
<1>1. ASSUME NEW t \in TokenIds, NEW u \in Users, SignIn(u, t) PROVE SessionsInv'
  <2>1. /\ ~tokens[t].issued
        /\ tokens' = [tokens EXCEPT ![t] = NewRow(u, Null, Null)]
        /\ refreshing' = refreshing /\ signedOut' = signedOut /\ cut' = cut
    BY <1>1 DEF SignIn
  <2>2. /\ \A s \in TokenIds : s # t => tokens'[s] = tokens[s]
        /\ tokens'[t] = [issued |-> TRUE, userId |-> u, expired |-> FALSE,
                         revoked |-> FALSE, parent |-> Null, by |-> Null]
        /\ \A s \in TokenIds : Children(s)' = Children(s)
        /\ \A s \in TokenIds : t \notin Children(s)
    <3>1. /\ \A s \in TokenIds : s # t => tokens'[s] = tokens[s]
          /\ tokens'[t] = [issued |-> TRUE, userId |-> u, expired |-> FALSE,
                           revoked |-> FALSE, parent |-> Null, by |-> Null]
      BY <2>1 DEF SessionsInv, TypeOK, NewRow
    <3>2. \A s \in TokenIds : s # Null
      BY SessionsAssumption
    <3>3. \A s \in TokenIds : t \notin Children(s) /\ t \notin Children(s)'
      BY <2>1, <3>1, <3>2 DEF Children
    <3>4. ASSUME NEW s \in TokenIds, NEW r \in TokenIds
          PROVE  r \in Children(s)' <=> r \in Children(s)
      BY <3>1, <3>3 DEF Children
    <3> QED
      BY <3>1, <3>3, <3>4 DEF Children
  <2>3. TypeOK'
    BY <2>1 DEF SessionsInv, TypeOK, TokenRow, NewRow
  <2>4. RevokedWereIssued'
    BY <2>2 DEF SessionsInv, RevokedWereIssued
  <2>5. CallsConsistent'
    BY <2>1, <2>2 DEF SessionsInv, TypeOK, RefreshCall, CallsConsistent, Children
  <2>6. OneExchangePerSlot'
    BY <2>2 DEF SessionsInv, OneExchangePerSlot, Children
  <2>7. ExchangedTokensRevoked'
    <3>1. \A s \in TokenIds : \A r \in Children(s) :
            tokens[s].revoked /\ tokens[s].userId = tokens[r].userId /\ r \in TokenIds
      BY DEF SessionsInv, ExchangedTokensRevoked, Children
    <3>2. ~tokens[t].revoked
      BY <2>1 DEF SessionsInv, RevokedWereIssued
    <3> QED
      BY <2>2, <3>1, <3>2 DEF ExchangedTokensRevoked
  <2>8. RevokedHasCause'
    BY <2>1, <2>2 DEF SessionsInv, RevokedHasCause
  <2> QED
    BY <2>3, <2>4, <2>5, <2>6, <2>7, <2>8 DEF SessionsInv
<1>2. ASSUME NEW t \in TokenIds, SignOut(t) PROVE SessionsInv'
  <2> USE <1>2 DEF SignOut
  <2>1. /\ \A s \in TokenIds : s # t => tokens'[s] = tokens[s]
        /\ tokens'[t] = [tokens[t] EXCEPT !.revoked = TRUE]
    BY DEF SessionsInv, TypeOK
  <2>2. /\ tokens'[t].revoked
        /\ \A s \in TokenIds : /\ tokens'[s].issued = tokens[s].issued
                               /\ tokens'[s].userId = tokens[s].userId
                               /\ tokens'[s].parent = tokens[s].parent
                               /\ tokens'[s].by = tokens[s].by
                               /\ tokens[s].revoked => tokens'[s].revoked
    BY <2>1 DEF SessionsInv, TypeOK, TokenRow
  <2>3. \A s \in TokenIds : Children(s)' = Children(s)
    BY <2>2 DEF Children
  <2>4. TypeOK'
    BY DEF SessionsInv, TypeOK, TokenRow
  <2>5. RevokedWereIssued'
    BY <2>1, <2>2 DEF SessionsInv, RevokedWereIssued
  <2>6. CallsConsistent'
    BY <2>2, <2>3 DEF SessionsInv, TypeOK, RefreshCall, CallsConsistent, Children
  <2>7. OneExchangePerSlot' /\ ExchangedTokensRevoked'
    BY <2>2, <2>3 DEF SessionsInv, OneExchangePerSlot, ExchangedTokensRevoked, Children
  <2>8. RevokedHasCause'
    BY <2>1, <2>3 DEF SessionsInv, RevokedHasCause
  <2> QED
    BY <2>4, <2>5, <2>6, <2>7, <2>8 DEF SessionsInv
<1>3. ASSUME NEW t \in TokenIds, ExpireToken(t) PROVE SessionsInv'
  <2> USE <1>3 DEF ExpireToken
  <2>1. \A s \in TokenIds : /\ tokens'[s].issued = tokens[s].issued
                            /\ tokens'[s].userId = tokens[s].userId
                            /\ tokens'[s].parent = tokens[s].parent
                            /\ tokens'[s].by = tokens[s].by
                            /\ tokens'[s].revoked = tokens[s].revoked
    BY DEF SessionsInv, TypeOK, TokenRow
  <2>2. \A s \in TokenIds : Children(s)' = Children(s)
    BY <2>1 DEF Children
  <2>3. TypeOK'
    BY DEF SessionsInv, TypeOK, TokenRow
  <2>4. RevokedWereIssued'
    BY <2>1 DEF SessionsInv, RevokedWereIssued
  <2>5. CallsConsistent'
    BY <2>1, <2>2 DEF SessionsInv, TypeOK, RefreshCall, CallsConsistent, Children
  <2>6. OneExchangePerSlot' /\ ExchangedTokensRevoked'
    BY <2>1, <2>2 DEF SessionsInv, OneExchangePerSlot, ExchangedTokensRevoked, Children
  <2>7. RevokedHasCause'
    BY <2>1, <2>2 DEF SessionsInv, RevokedHasCause
  <2> QED
    BY <2>3, <2>4, <2>5, <2>6, <2>7 DEF SessionsInv
<1>4. ASSUME NEW c \in RefreshCalls, NEW t \in TokenIds, FindToken(c, t)
      PROVE  SessionsInv'
  <2> USE <1>4 DEF FindToken
  <2>1. \A s \in TokenIds : tokens'[s] = tokens[s] /\ Children(s)' = Children(s)
    BY DEF Children
  <2>2. /\ \A d \in RefreshCalls : d # c => refreshing'[d] = refreshing[d]
        /\ refreshing'[c] = [step |-> "revoke", token |-> t, userId |-> tokens[t].userId]
    BY DEF SessionsInv, TypeOK
  <2>3. TypeOK'
    BY DEF SessionsInv, TypeOK, TokenRow, RefreshCall
  <2>4. tokens[t].issued /\ Children(t) = {}
    BY DEF Usable, SessionsInv, ExchangedTokensRevoked
  <2>5. CallsConsistent'
    BY <2>1, <2>2, <2>4 DEF SessionsInv, TypeOK, RefreshCall, CallsConsistent, Children
  <2>6. RevokedWereIssued' /\ OneExchangePerSlot' /\ ExchangedTokensRevoked'
    BY <2>1 DEF SessionsInv, RevokedWereIssued, OneExchangePerSlot, ExchangedTokensRevoked,
                Children
  <2>7. RevokedHasCause'
    BY <2>1, <2>2 DEF SessionsInv, RevokedHasCause, IdleCall
  <2> QED
    BY <2>3, <2>5, <2>6, <2>7 DEF SessionsInv
<1>5. ASSUME NEW c \in RefreshCalls, RevokeToken(c) PROVE SessionsInv'
  <2> DEFINE t == refreshing[c].token
  <2> USE <1>5 DEF RevokeToken
  <2>1. t \in TokenIds /\ refreshing[c] \in RefreshCall /\ refreshing[c] # IdleCall
    BY DEF SessionsInv, TypeOK, RefreshCall, IdleCall
  <2>2. /\ \A s \in TokenIds : s # t => tokens'[s] = tokens[s]
        /\ tokens'[t] = [tokens[t] EXCEPT !.revoked = TRUE]
        /\ \A d \in RefreshCalls : d # c => refreshing'[d] = refreshing[d]
        /\ refreshing'[c] = [refreshing[c] EXCEPT !.step = "issue"]
    BY <2>1 DEF SessionsInv, TypeOK
  <2>3. /\ tokens'[t].revoked
        /\ \A s \in TokenIds : /\ tokens'[s].issued = tokens[s].issued
                               /\ tokens'[s].userId = tokens[s].userId
                               /\ tokens'[s].parent = tokens[s].parent
                               /\ tokens'[s].by = tokens[s].by
                               /\ tokens[s].revoked => tokens'[s].revoked
    BY <2>1, <2>2 DEF SessionsInv, TypeOK, TokenRow
  <2>4. \A s \in TokenIds : Children(s)' = Children(s)
    BY <2>3 DEF Children
  <2>5. /\ refreshing'[c].token = t /\ refreshing'[c].step = "issue"
        /\ refreshing'[c].userId = refreshing[c].userId
    BY <2>1, <2>2 DEF RefreshCall
  <2>6. TypeOK'
    <3>1. refreshing'[c] \in RefreshCall
      BY <2>1, <2>2 DEF RefreshCall
    <3>2. tokens[t] \in TokenRow
      BY <2>1 DEF SessionsInv, TypeOK
    <3>3. tokens'[t] \in TokenRow
      BY <2>2, <3>2, RevokedRow, Zenon
    <3>4. tokens' \in [TokenIds -> TokenRow]
      <4>1. \A s \in TokenIds : tokens'[s] \in TokenRow
        BY <2>2, <3>3 DEF SessionsInv, TypeOK
      <4>2. tokens' = [s \in TokenIds |-> tokens'[s]]
        BY DEF SessionsInv, TypeOK
      <4> QED
        BY <4>1, <4>2
    <3>5. refreshing' \in [RefreshCalls -> {IdleCall} \cup RefreshCall]
      BY <2>1, <2>2, <3>1 DEF SessionsInv, TypeOK
    <3> QED
      BY <3>4, <3>5 DEF SessionsInv, TypeOK, IdleCall, RefreshCall
  <2>7. tokens[t].issued
    BY <2>1 DEF SessionsInv, CallsConsistent
  <2>8. RevokedWereIssued'
    BY <2>2, <2>3, <2>7 DEF SessionsInv, RevokedWereIssued
  <2>9. CallsConsistent'
    <3> SUFFICES ASSUME NEW d \in RefreshCalls, refreshing'[d] # IdleCall
                 PROVE  /\ tokens'[refreshing'[d].token].issued
                        /\ refreshing'[d].userId = tokens'[refreshing'[d].token].userId
                        /\ refreshing'[d].step = "issue" =>
                             tokens'[refreshing'[d].token].revoked
                        /\ \A s \in TokenIds :
                             tokens'[s].issued /\ tokens'[s].parent = refreshing'[d].token
                               => tokens'[s].by # d
      BY DEF CallsConsistent, Children, IdleCall
    <3>1. /\ refreshing[d] # IdleCall
          /\ refreshing'[d].token = refreshing[d].token
          /\ refreshing'[d].userId = refreshing[d].userId
          /\ refreshing[d].token \in TokenIds
      BY <2>1, <2>2, <2>5 DEF SessionsInv, TypeOK, RefreshCall
    <3>2. refreshing'[d].step = "issue" => tokens'[refreshing[d].token].revoked
      BY <2>2, <2>3, <3>1 DEF SessionsInv, CallsConsistent
    <3>3. \A s \in TokenIds :
            tokens[s].issued /\ tokens[s].parent = refreshing[d].token => tokens[s].by # d
      BY <3>1 DEF SessionsInv, CallsConsistent, Children
    <3> QED
      BY <2>3, <3>1, <3>2, <3>3 DEF SessionsInv, CallsConsistent
  <2>10. OneExchangePerSlot' /\ ExchangedTokensRevoked'
    BY <2>3, <2>4 DEF SessionsInv, OneExchangePerSlot, ExchangedTokensRevoked, Children
  <2>11. RevokedHasCause'
    BY <2>2, <2>4, <2>5 DEF SessionsInv, RevokedHasCause
  <2> QED
    BY <2>6, <2>8, <2>9, <2>10, <2>11 DEF SessionsInv
<1>6. ASSUME NEW c \in RefreshCalls, NEW t \in TokenIds, IssueToken(c, t)
      PROVE  SessionsInv'
  <2> DEFINE p == refreshing[c].token
  <2>1. /\ ~tokens[t].issued /\ refreshing[c].step = "issue"
        /\ tokens' = [tokens EXCEPT ![t] = NewRow(refreshing[c].userId, p, c)]
        /\ refreshing' = [refreshing EXCEPT ![c] = IdleCall]
        /\ signedOut' = signedOut /\ cut' = cut
    BY <1>6 DEF IssueToken
  <2>2. p \in TokenIds /\ refreshing[c] \in RefreshCall /\ refreshing[c] # IdleCall
    BY <2>1 DEF SessionsInv, TypeOK, RefreshCall, IdleCall
  <2>3. /\ \A s \in TokenIds : s # t => tokens'[s] = tokens[s]
        /\ tokens'[t] = [issued |-> TRUE, userId |-> refreshing[c].userId,
                         expired |-> FALSE, revoked |-> FALSE, parent |-> p, by |-> c]
        /\ \A s \in TokenIds : Children(s)' = IF s = p THEN Children(s) \cup {t}
                                              ELSE Children(s)
        /\ \A s \in TokenIds : t \notin Children(s)
    BY <2>1, <2>2, NewRowStep
  <2>4. /\ \A d \in RefreshCalls : d # c => refreshing'[d] = refreshing[d]
        /\ refreshing'[c] = IdleCall
    BY <2>1 DEF SessionsInv, TypeOK
  <2>5. /\ tokens[p].issued /\ tokens[p].revoked /\ p # t
        /\ tokens[p].userId = refreshing[c].userId
        /\ \A s \in Children(p) : tokens[s].by # c
    BY <2>1, <2>2 DEF SessionsInv, CallsConsistent
  <2>6. TypeOK'
    BY <2>1, <2>2 DEF SessionsInv, TypeOK, TokenRow, RefreshCall, NewRow
  <2>7. RevokedWereIssued'
    BY <2>3 DEF SessionsInv, RevokedWereIssued
  <2>8. CallsConsistent'
    <3> SUFFICES ASSUME NEW d \in RefreshCalls, refreshing'[d] # IdleCall
                 PROVE  /\ tokens'[refreshing'[d].token].issued
                        /\ refreshing'[d].userId = tokens'[refreshing'[d].token].userId
                        /\ refreshing'[d].step = "issue" =>
                             tokens'[refreshing'[d].token].revoked
                        /\ \A s \in TokenIds :
                             tokens'[s].issued /\ tokens'[s].parent = refreshing'[d].token
                               => tokens'[s].by # d
      BY DEF CallsConsistent, Children, IdleCall
    <3>1. d # c /\ refreshing'[d] = refreshing[d] /\ refreshing[d].token \in TokenIds
      BY <2>4 DEF SessionsInv, TypeOK, RefreshCall
    <3>2. refreshing[d].token # t /\ tokens'[refreshing[d].token] = tokens[refreshing[d].token]
      BY <2>1, <2>3, <3>1 DEF SessionsInv, CallsConsistent
    <3>3. ASSUME NEW s \in TokenIds, tokens'[s].issued,
                 tokens'[s].parent = refreshing'[d].token
          PROVE  tokens'[s].by # d
      <4>1. CASE s = t
        BY <2>3, <3>1, <4>1
      <4>2. CASE s # t
        BY <2>3, <3>1, <3>3, <4>2 DEF SessionsInv, CallsConsistent, Children
      <4> QED
        BY <4>1, <4>2
    <3> QED
      BY <3>1, <3>2, <3>3 DEF SessionsInv, CallsConsistent
  <2>9. OneExchangePerSlot'
    <3> SUFFICES ASSUME NEW q \in TokenIds, NEW r \in Children(q)', NEW s \in Children(q)'
                 PROVE  /\ tokens'[r].by \in RefreshCalls
                        /\ tokens'[r].by = tokens'[s].by => r = s
      BY DEF OneExchangePerSlot
    <3>1. \A x \in Children(q)' :
            \/ x = t /\ q = p
            \/ x # t /\ x \in Children(q) /\ x \in TokenIds /\ tokens'[x] = tokens[x]
      BY <2>3 DEF Children
    <3>2. \A x, y \in Children(q) :
            tokens[x].by \in RefreshCalls /\ (tokens[x].by = tokens[y].by => x = y)
      BY DEF SessionsInv, OneExchangePerSlot
    <3>3. tokens'[t].by = c
      BY <2>3
    <3> QED
      BY <2>5, <3>1, <3>2, <3>3
  <2>10. ExchangedTokensRevoked'
    <3> SUFFICES ASSUME NEW q \in TokenIds, NEW s \in Children(q)'
                 PROVE  tokens'[q].revoked /\ tokens'[q].userId = tokens'[s].userId
      BY DEF ExchangedTokensRevoked
    <3>1. CASE s = t
      <4>1. q = p
        BY <2>3, <3>1
      <4> QED
        BY <2>3, <2>5, <3>1, <4>1
    <3>2. CASE s # t
      <4>1. s \in Children(q) /\ s \in TokenIds /\ tokens'[s] = tokens[s]
        BY <2>3, <3>2 DEF Children
      <4>2. tokens[q].revoked /\ tokens[q].userId = tokens[s].userId
        BY <4>1 DEF SessionsInv, ExchangedTokensRevoked
      <4>3. q # t
        BY <2>1, <4>2 DEF SessionsInv, RevokedWereIssued
      <4> QED
        BY <2>3, <4>1, <4>2, <4>3
    <3> QED
      BY <3>1, <3>2
  <2>11. RevokedHasCause'
    <3> SUFFICES ASSUME NEW s \in TokenIds, tokens'[s].revoked
                 PROVE  \/ s \in signedOut \/ Children(s)' # {} \/ s \in cut
                        \/ \E d \in RefreshCalls : refreshing'[d].token = s
                                                   /\ refreshing'[d].step = "issue"
      BY <2>1 DEF RevokedHasCause
    <3>1. CASE s = p
      BY <2>2, <2>3, <3>1
    <3>2. CASE s # p
      <4>1. tokens[s].revoked /\ Children(s)' = Children(s)
        BY <2>3, <3>2
      <4> QED
        BY <2>4, <3>2, <4>1 DEF SessionsInv, RevokedHasCause
    <3> QED
      BY <3>1, <3>2
  <2> QED
    BY <2>6, <2>7, <2>8, <2>9, <2>10, <2>11 DEF SessionsInv
<1>7. ASSUME NEW c \in RefreshCalls, RefreshDies(c) PROVE SessionsInv'
  <2> USE <1>7 DEF RefreshDies
  <2>1. refreshing[c] \in RefreshCall /\ refreshing[c].token \in TokenIds
    BY DEF SessionsInv, TypeOK, RefreshCall
  <2>2. /\ \A d \in RefreshCalls : d # c => refreshing'[d] = refreshing[d]
        /\ refreshing'[c] = IdleCall
    BY DEF SessionsInv, TypeOK
  <2>3. \A s \in TokenIds : tokens'[s] = tokens[s] /\ Children(s)' = Children(s)
    BY DEF Children
  <2>4. TypeOK'
    BY <2>1 DEF SessionsInv, TypeOK
  <2>5. CallsConsistent'
    BY <2>2, <2>3 DEF SessionsInv, TypeOK, RefreshCall, CallsConsistent, Children
  <2>6. RevokedWereIssued' /\ OneExchangePerSlot' /\ ExchangedTokensRevoked'
    BY <2>3 DEF SessionsInv, RevokedWereIssued, OneExchangePerSlot, ExchangedTokensRevoked,
                Children
  <2>7. RevokedHasCause'
    BY <2>2, <2>3 DEF SessionsInv, RevokedHasCause
  <2> QED
    BY <2>4, <2>5, <2>6, <2>7 DEF SessionsInv
<1>8. CASE UNCHANGED vars
  BY <1>8 DEF vars, SessionsInv, TypeOK, RevokedWereIssued, CallsConsistent,
              OneExchangePerSlot, ExchangedTokensRevoked, RevokedHasCause, Children
<1> QED
  BY <1>1, <1>2, <1>3, <1>4, <1>5, <1>6, <1>7, <1>8 DEF Next

(* The inductive invariant holds in every reachable state. *)
THEOREM SessionsInvHolds == Spec => []SessionsInv
BY InitInv, StepInv, PTL DEF Spec

(* The token table and the requests in flight stay within their types. *)
THEOREM TypeCorrect == Spec => []TypeOK
<1>1. SessionsInv => TypeOK
  BY DEF SessionsInv
<1> QED
  BY <1>1, SessionsInvHolds, PTL

(* An exchanged token is revoked, and its successor is the same user's. *)
THEOREM ExchangedAlwaysRevoked == Spec => []ExchangedTokensRevoked
<1>1. SessionsInv => ExchangedTokensRevoked
  BY DEF SessionsInv
<1> QED
  BY <1>1, SessionsInvHolds, PTL

(* A token is revoked by a sign-out, an exchange, or an exchange cut short. *)
THEOREM RevokedAlwaysHasCause == Spec => []RevokedHasCause
<1>1. SessionsInv => RevokedHasCause
  BY DEF SessionsInv
<1> QED
  BY <1>1, SessionsInvHolds, PTL

(* A token is exchanged at most once for each request that can be in       *)
(* flight: Children(t) maps one to one into the slots.                     *)
THEOREM ReplaysAlwaysBounded == Spec => []ReplaysBounded
<1>1. SessionsInv => ReplaysBounded
  <2> SUFFICES ASSUME SessionsInv, NEW t \in TokenIds
               PROVE  Cardinality(Children(t)) <= Cardinality(RefreshCalls)
    BY DEF ReplaysBounded
  <2> DEFINE slot == [s \in Children(t) |-> tokens[s].by]
  <2>1. slot \in Injection(Children(t), RefreshCalls)
    BY DEF Injection, IsInjective, SessionsInv, OneExchangePerSlot
  <2>2. IsFiniteSet(RefreshCalls)
    BY SessionsAssumption
  <2> QED
    BY <2>1, <2>2, FS_Injection
<1> QED
  BY <1>1, SessionsInvHolds, PTL

(* Double rotation needs concurrency: were refreshes served one at a time, *)
(* every token would be exchanged for at most one.                         *)
THEOREM SerialRotationSingleUse ==
  ASSUME \A c, d \in RefreshCalls : c = d
  PROVE  Spec => []RotationSingleUse
<1>1. SessionsInv => RotationSingleUse
  <2> SUFFICES ASSUME SessionsInv, NEW t \in TokenIds
               PROVE  Cardinality(Children(t)) <= 1
    BY DEF RotationSingleUse
  <2>1. \A r, s \in Children(t) : r = s
    BY DEF SessionsInv, OneExchangePerSlot
  <2>2. CASE Children(t) = {}
    BY <2>2, FS_EmptySet
  <2>3. CASE Children(t) # {}
    <3>1. PICK s : Children(t) = {s}
      BY <2>1, <2>3
    <3> QED
      BY <3>1, FS_Singleton
  <2> QED
    BY <2>2, <2>3
<1> QED
  BY <1>1, SessionsInvHolds, PTL

(* Once revoked, a token stays revoked and is never accepted again. *)
THEOREM RevokedStaysRevoked == Spec => RevokedForGood
<1>1. SessionsInv /\ [Next]_vars =>
        [\A t \in TokenIds : tokens[t].revoked =>
           /\ tokens'[t].revoked
           /\ \A c \in RefreshCalls : refreshing'[c].token = t => refreshing[c].token = t]_vars
  <2> SUFFICES ASSUME SessionsInv, Next, NEW t \in TokenIds, tokens[t].revoked
               PROVE  /\ tokens'[t].revoked
                      /\ \A c \in RefreshCalls :
                           refreshing'[c].token = t => refreshing[c].token = t
    OBVIOUS
  <2>1. tokens[t].issued /\ t # Null /\ tokens \in [TokenIds -> TokenRow]
        /\ refreshing \in [RefreshCalls -> {IdleCall} \cup RefreshCall]
    BY DEF SessionsInv, RevokedWereIssued, TypeOK
  <2>2. ASSUME NEW s \in TokenIds, NEW u \in Users, SignIn(u, s)
        PROVE  tokens'[t] = tokens[t] /\ refreshing' = refreshing
    BY <2>1, <2>2 DEF SignIn
  <2>3. ASSUME NEW s \in TokenIds, SignOut(s) \/ ExpireToken(s)
        PROVE  tokens'[t].revoked /\ refreshing' = refreshing
    BY <2>1, <2>3 DEF SignOut, ExpireToken, TokenRow
  <2>4. ASSUME NEW c \in RefreshCalls, NEW s \in TokenIds, FindToken(c, s)
        PROVE  /\ tokens'[t] = tokens[t]
               /\ \A d \in RefreshCalls : refreshing'[d].token = t => refreshing[d].token = t
    BY <2>1, <2>4 DEF FindToken, Usable
  <2>5. ASSUME NEW c \in RefreshCalls, NEW s \in TokenIds, IssueToken(c, s)
        PROVE  /\ tokens'[t] = tokens[t]
               /\ \A d \in RefreshCalls : refreshing'[d].token = t => refreshing[d].token = t
    BY <2>1, <2>5 DEF IssueToken, IdleCall
  <2>6. ASSUME NEW c \in RefreshCalls, RevokeToken(c)
        PROVE  /\ tokens'[t].revoked
               /\ \A d \in RefreshCalls : refreshing'[d].token = t => refreshing[d].token = t
    <3>1. refreshing[c] \in RefreshCall
      BY <2>1, <2>6 DEF RevokeToken, IdleCall
    <3> QED
      BY <2>1, <2>6, <3>1 DEF RevokeToken, RefreshCall, TokenRow
  <2>7. ASSUME NEW c \in RefreshCalls, RefreshDies(c)
        PROVE  /\ tokens'[t] = tokens[t]
               /\ \A d \in RefreshCalls : refreshing'[d].token = t => refreshing[d].token = t
    BY <2>1, <2>7 DEF RefreshDies, IdleCall
  <2> QED
    BY <2>2, <2>3, <2>4, <2>5, <2>6, <2>7 DEF Next
<1> QED
  BY <1>1, SessionsInvHolds, PTL DEF Spec, RevokedForGood
===============================================================================
