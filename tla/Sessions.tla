------------------------------ MODULE Sessions ------------------------------
(***************************************************************************)
(* AuthService: refresh tokens, their rotation and sign-out                *)
(* (src/modules/auth/auth.service.ts, model RefreshToken).                 *)
(*                                                                         *)
(* refresh is three awaits: find the row with its user, revoke the row by  *)
(* id, insert a new row.  Nothing ties them together, so refreshes of one  *)
(* token, and sign-outs, interleave between them.  A refresh that is       *)
(* answered 401 changes nothing and is not a step.                         *)
(***************************************************************************)
EXTENDS Integers, FiniteSets

CONSTANTS
  Users,
  TokenIds,       \* RefreshToken rows (48 random bytes: never drawn twice)
  RefreshCalls,   \* slots for refresh requests in flight at the same time
  Null

ASSUME SessionsAssumption ==
  /\ Null \notin TokenIds \cup RefreshCalls \cup Users
  /\ IsFiniteSet(RefreshCalls)

VARIABLES
  tokens,       \* tokens[t]: the row of token t
  refreshing,   \* refreshing[c]: what the request in slot c holds
  signedOut,    \* history: tokens a sign-out revoked
  cut           \* history: tokens whose refresh ended after it revoked them
                \* and before it issued the next one

vars == <<tokens, refreshing, signedOut, cut>>

(* parent and by are history: the token a refresh exchanged for this one,  *)
(* and the slot that refresh ran in.  Null: the token of a sign-in.        *)
TokenRow == [issued : BOOLEAN, userId : Users \cup {Null}, expired : BOOLEAN, revoked : BOOLEAN,
             parent : TokenIds \cup {Null}, by : RefreshCalls \cup {Null}]

Unissued == [issued |-> FALSE, userId |-> Null, expired |-> FALSE, revoked |-> FALSE,
             parent |-> Null, by |-> Null]

IdleCall == [step |-> "idle", token |-> Null, userId |-> Null]

RefreshCall == [step : {"revoke", "issue"}, token : TokenIds, userId : Users \cup {Null}]

Init ==
  /\ tokens = [t \in TokenIds |-> Unissued]
  /\ refreshing = [c \in RefreshCalls |-> IdleCall]
  /\ signedOut = {}
  /\ cut = {}

-------------------------------------------------------------------------------
(* !stored || stored.revokedAt || stored.expiresAt <= new Date(), negated  *)
UsableWhenRevoked(t) == tokens[t].issued /\ ~tokens[t].expired
Usable(t) == tokens[t].issued /\ ~tokens[t].revoked /\ ~tokens[t].expired

(* The row issueSession inserts *)
OfTokenRow(u, parent, c) ==
  [issued |-> TRUE, userId |-> parent, expired |-> FALSE, revoked |-> FALSE,
   parent |-> parent, by |-> c]
NewRow(u, parent, c) ==
  [issued |-> TRUE, userId |-> u, expired |-> FALSE, revoked |-> FALSE,
   parent |-> parent, by |-> c]

(* signIn, signInClient and the sign-ups end in one insert *)
SignIn(u, t) ==
  /\ ~tokens[t].issued
  /\ tokens' = [tokens EXCEPT ![t] = NewRow(u, Null, Null)]
  /\ UNCHANGED <<refreshing, signedOut, cut>>

FindToken(c, t) ==
  /\ refreshing[c] = IdleCall
  /\ Usable(t)
  /\ refreshing' = [refreshing EXCEPT ![c] =
       [step |-> "revoke", token |-> t, userId |-> tokens[t].userId]]
  /\ UNCHANGED <<tokens, signedOut, cut>>

(* update({ where: { id } }): revokes whether or not another request did   *)
RevokeSkipped(c) ==
  /\ refreshing[c].step = "revoke"
  /\ refreshing' = [refreshing EXCEPT ![c].step = "issue"]
  /\ UNCHANGED <<tokens, signedOut, cut>>
RevokeToken(c) ==
  /\ refreshing[c].step = "revoke"
  /\ tokens' = [tokens EXCEPT ![refreshing[c].token].revoked = TRUE]
  /\ refreshing' = [refreshing EXCEPT ![c].step = "issue"]
  /\ UNCHANGED <<signedOut, cut>>

(* createSession(stored.user) *)
IssueToken(c, t) ==
  /\ refreshing[c].step = "issue"
  /\ ~tokens[t].issued
  /\ tokens' = [tokens EXCEPT ![t] = NewRow(refreshing[c].userId, refreshing[c].token, c)]
  /\ refreshing' = [refreshing EXCEPT ![c] = IdleCall]
  /\ UNCHANGED <<signedOut, cut>>

(* updateMany({ where: { tokenHash, revokedAt: null } }): only a live row  *)
SignOutEverywhere(t) ==
  /\ tokens[t].issued
  /\ tokens' = [s \in TokenIds |-> IF tokens[s].issued /\ tokens[s].userId = tokens[t].userId
                                   THEN [tokens[s] EXCEPT !.revoked = TRUE] ELSE tokens[s]]
  /\ signedOut' = IF tokens[t].revoked THEN signedOut ELSE signedOut \cup {t}
  /\ UNCHANGED <<refreshing, cut>>
SignOut(t) ==
  /\ tokens[t].issued
  /\ tokens' = [tokens EXCEPT ![t].revoked = TRUE]
  /\ signedOut' = IF tokens[t].revoked THEN signedOut ELSE signedOut \cup {t}
  /\ UNCHANGED <<refreshing, cut>>

(* expiresAt passes, sooner or later; that of a revoked row no longer      *)
(* matters to anyone                                                       *)
ExpireToken(t) ==
  /\ tokens[t].issued /\ ~tokens[t].revoked /\ ~tokens[t].expired
  /\ tokens' = [tokens EXCEPT ![t].expired = TRUE]
  /\ UNCHANGED <<refreshing, signedOut, cut>>

(* A database call throws, or the process dies with the request *)
RestoredOnFailure(c) ==
  /\ refreshing[c] # IdleCall
  /\ refreshing' = [refreshing EXCEPT ![c] = IdleCall]
  /\ tokens' = [tokens EXCEPT ![refreshing[c].token].revoked = FALSE]
  /\ UNCHANGED <<signedOut, cut>>
RefreshDies(c) ==
  /\ refreshing[c] # IdleCall
  /\ refreshing' = [refreshing EXCEPT ![c] = IdleCall]
  /\ cut' = IF refreshing[c].step = "issue" THEN cut \cup {refreshing[c].token} ELSE cut
  /\ UNCHANGED <<tokens, signedOut>>

Next ==
  \/ \E t \in TokenIds :
       \/ \E u \in Users : SignIn(u, t)
       \/ SignOut(t)
       \/ ExpireToken(t)
  \/ \E c \in RefreshCalls :
       \/ \E t \in TokenIds : FindToken(c, t) \/ IssueToken(c, t)
       \/ RevokeToken(c)
       \/ RefreshDies(c)

Spec == Init /\ [][Next]_vars

-------------------------------------------------------------------------------
TypeOK ==
  /\ tokens \in [TokenIds -> TokenRow]
  /\ refreshing \in [RefreshCalls -> {IdleCall} \cup RefreshCall]
  /\ signedOut \subseteq TokenIds
  /\ cut \subseteq TokenIds

Children(t) == {s \in TokenIds : tokens[s].issued /\ tokens[s].parent = t}

(* Rotation kills the old token before the new one exists                  *)
(* (auth.service.ts:280-285): a token that was exchanged is revoked, and   *)
(* with it all its ancestors; and the session stays with its user.         *)
ExchangedTokensRevoked ==
  \A t \in TokenIds : \A s \in Children(t) :
    tokens[t].revoked /\ tokens[t].userId = tokens[s].userId

(* A revoked token stays revoked, and no refresh that starts later is      *)
(* accepted with it, whatever sign-outs and refreshes interleave.          *)
RevokedForGood ==
  [][\A t \in TokenIds : tokens[t].revoked =>
       /\ tokens'[t].revoked
       /\ \A c \in RefreshCalls :
            refreshing'[c].token = t => refreshing[c].token = t]_vars

(* The check of auth.service.ts:276 and the update after it are separate   *)
(* awaits: one token can be exchanged more than once, but only by requests *)
(* that were in flight together.                                           *)
ReplaysBounded ==
  \A t \in TokenIds : Cardinality(Children(t)) <= Cardinality(RefreshCalls)

(* Nobody is signed out silently: a revoked token was signed out, or was   *)
(* exchanged, or its refresh is about to issue the next one or was cut     *)
(* short just there.                                                       *)
RevokedHasCause ==
  \A t \in TokenIds : tokens[t].revoked =>
    \/ t \in signedOut
    \/ Children(t) # {}
    \/ t \in cut
    \/ \E c \in RefreshCalls : refreshing[c].token = t /\ refreshing[c].step = "issue"

(* 'Rotate a refresh token': one token is exchanged for one token. *)
RotationSingleUse == \A t \in TokenIds : Cardinality(Children(t)) <= 1

-------------------------------------------------------------------------------
(* The inductive invariant.  Requests in flight hold a token that was      *)
(* issued to the user they will issue for; one that is past its revoke     *)
(* holds a revoked token; and no slot has exchanged the token it holds.    *)
CallsConsistent ==
  \A c \in RefreshCalls : refreshing[c] # IdleCall =>
    /\ tokens[refreshing[c].token].issued
    /\ refreshing[c].userId = tokens[refreshing[c].token].userId
    /\ refreshing[c].step = "issue" => tokens[refreshing[c].token].revoked
    /\ \A s \in Children(refreshing[c].token) : tokens[s].by # c

(* Each slot exchanged a given token at most once. *)
OneExchangePerSlot ==
  \A t \in TokenIds : \A r, s \in Children(t) :
    /\ tokens[r].by \in RefreshCalls
    /\ tokens[r].by = tokens[s].by => r = s

RevokedWereIssued == \A t \in TokenIds : tokens[t].revoked => tokens[t].issued

SessionsInv ==
  /\ TypeOK
  /\ RevokedWereIssued
  /\ CallsConsistent
  /\ OneExchangePerSlot
  /\ ExchangedTokensRevoked
  /\ RevokedHasCause
===============================================================================
