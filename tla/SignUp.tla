-------------------------------- MODULE SignUp --------------------------------
(***************************************************************************)
(* AuthService's sign-up of businesses and clients, and signing in: how    *)
(* users and businesses come to be, how they are linked, and what the      *)
(* access tokens say of them.                                              *)
(*                                                                         *)
(* Each await of a request is an action, as requests of other users run    *)
(* between them.  What a request read is kept in its slot and is what it   *)
(* decides by.  The token of a session is signed from the row that the     *)
(* last write or read returned, so it is taken with that action; its       *)
(* refresh token is the subject of Sessions.                               *)
(***************************************************************************)
EXTENDS Integers, Sequences

CONSTANTS
  UserEmails,      \* e-mails of users
  BusinessEmails,  \* e-mails of businesses
  Passwords,
  Requests,        \* slots for requests in flight at the same time
  MaxCalls,        \* bounds the number of requests
  Before           \* what earlier requests may have left: users and businesses

VARIABLES
  users,       \* the table of users: users[id]
  businesses,  \* the table of businesses: businesses[id]
  tokens,      \* the claims of the access tokens there are
  requests,    \* requests[r]: what the request in slot r is at, and has read
  calls,       \* how many requests there were, for the bound
  promoted,    \* history: clients that a sign-up made users of a business
  contested,   \* history: users that another request was about to link as well
  moved,       \* history: users taken from one business to another
  stranded,    \* history: businesses that lost, or did not get, their user
  late         \* history: users that joined a business that was complete

signUpVars == <<users, businesses, tokens, requests, calls,
                promoted, contested, moved, stranded, late>>

(* Ids start at 1; None stands for null. *)
None == 0

User == [email : UserEmails, password : Passwords, role : {"client", "business"},
         business : Nat, completed : BOOLEAN, twoFactor : BOOLEAN]

(* info: businessType and employeeCount are set; hours: workingHoursOpen *)
(* is; services: how many rows of businessService there are; bank: there *)
(* is a row of bankDetails; billing: of billingAccount.                  *)
Business == [email : BusinessEmails, info : BOOLEAN, hours : BOOLEAN, services : Nat,
             bank : BOOLEAN, billing : BOOLEAN, completed : BOOLEAN]

(* given: the password that came with the request, not in the claims *)
Claims == [user : Nat, role : {"client", "business"}, business : Nat, given : Passwords]

(* What earlier requests leave when none is cut short or overtaken: the     *)
(* unique e-mails of the schema, clients without a business and owners with *)
(* one, and no business without a user.                                     *)
ASSUME SignUpAssumption ==
  /\ MaxCalls \in Nat
  /\ \A db \in Before :
       /\ db.users \in Seq(User) /\ db.businesses \in Seq(Business)
       /\ \A u, v \in DOMAIN db.users : db.users[u].email = db.users[v].email => u = v
       /\ \A b, c \in DOMAIN db.businesses :
            db.businesses[b].email = db.businesses[c].email => b = c
       /\ \A u \in DOMAIN db.users :
            IF db.users[u].role = "client" THEN db.users[u].business = None
            ELSE db.users[u].business \in DOMAIN db.businesses
       /\ \A b \in DOMAIN db.businesses :
            \E u \in DOMAIN db.users : db.users[u].business = b

NewUser(email, password, role, business) ==
  [email |-> email, password |-> password, role |-> role, business |-> business,
   completed |-> FALSE, twoFactor |-> FALSE]

NewBusiness(email) ==
  [email |-> email, info |-> FALSE, hours |-> FALSE, services |-> 0,
   bank |-> FALSE, billing |-> FALSE, completed |-> FALSE]

(* findUnique on an e-mail *)
IdOf(email, rows) ==
  IF \E id \in DOMAIN rows : rows[id].email = email
  THEN CHOOSE id \in DOMAIN rows : rows[id].email = email ELSE None

Members(b) == {u \in DOMAIN users : users[u].business = b}

(* What a request keeps of a row of a user that it read *)
NoUser == [id |-> None, role |-> "client", business |-> None]
Snapshot(id) ==
  IF id = None THEN NoUser
  ELSE [id |-> id, role |-> users[id].role, business |-> users[id].business]

(* existingBusiness?.users.find(...): findMany without an order *)
Candidates(b) ==
  LET owners == {u \in Members(b) : users[u].role = "business"} IN
  IF b = None \/ owners = {} THEN {NoUser} ELSE {Snapshot(u) : u \in owners}

ClaimsOf(user, given) ==
  [user |-> user.id, role |-> user.role, business |-> user.business, given |-> given]

Idle == [step |-> "idle"]
Busy(r) == requests[r] # Idle
At(r, step) == Busy(r) /\ requests[r].step = step

Begin(r, request) ==
  /\ ~Busy(r)
  /\ calls < MaxCalls /\ calls' = calls + 1
  /\ requests' = [requests EXCEPT ![r] = request]
Answer(r) == requests' = [requests EXCEPT ![r] = Idle]
GoTo(r, step) == requests' = [requests EXCEPT ![r].step = step]

Init ==
  \E db \in Before :
    /\ users = db.users
    /\ businesses = db.businesses
    /\ tokens = {[user |-> u, role |-> db.users[u].role, business |-> db.users[u].business,
                   given |-> db.users[u].password] : u \in DOMAIN db.users}
    /\ requests = [r \in Requests |-> Idle]
    /\ calls = 0
    /\ promoted = {} /\ contested = {} /\ moved = {} /\ stranded = {} /\ late = {}

-------------------------------------------------------------------------------
(* issueSession: the claims are those of the row at hand. *)
Grant(user, given) ==
  tokens' = tokens \cup {[user |-> user.id, role |-> user.role,
                          business |-> user.business, given |-> given]}

(* signUpBusiness, up to its first findUnique *)
SignUpBusiness(r) ==
  \E email \in UserEmails, shop \in BusinessEmails, given \in Passwords :
  \E candidate \in Candidates(IdOf(shop, businesses)) :
    /\ Begin(r, [step |-> "findOwner", email |-> email, shop |-> shop, given |-> given,
                 business |-> IdOf(shop, businesses), candidate |-> candidate,
                 owner |-> NoUser, created |-> FALSE])
    /\ UNCHANGED <<users, businesses, tokens, promoted, contested, moved, stranded, late>>

(* The second one; resumeBusinessSignUp reads again what was not found. *)
FindOwner(r) ==
  LET owner == Snapshot(IdOf(requests[r].email, users))
      known == requests[r].business # None IN
  /\ At(r, "findOwner")
  /\ requests' = [requests EXCEPT ![r].owner = owner, ![r].step =
       IF owner = NoUser THEN (IF known THEN "findOwnerAgain" ELSE "create")
       ELSE (IF known THEN "decide" ELSE "findBusinessAgain")]
  /\ UNCHANGED <<users, businesses, tokens, calls, promoted, contested, moved, stranded, late>>

(* The business with its owner, in one statement, or P2002 *)
CreateBusinessAndOwner(r) ==
  LET req == requests[r] IN
  /\ At(r, "create")
  /\ IF IdOf(req.email, users) = None /\ IdOf(req.shop, businesses) = None
     THEN /\ businesses' = Append(businesses, NewBusiness(req.shop))
          /\ users' = Append(users, NewUser(req.email, req.given, "business", Len(businesses) + 1))
          /\ Grant([id |-> Len(users) + 1, role |-> "business", business |-> Len(businesses) + 1],
                   req.given)
          /\ Answer(r)
     ELSE /\ GoTo(r, "findBusinessAgain")
          /\ UNCHANGED <<users, businesses, tokens>>
  /\ UNCHANGED <<calls, promoted, contested, moved, stranded, late>>

FindBusinessAgain(r) ==
  LET b == IdOf(requests[r].shop, businesses) IN
  /\ At(r, "findBusinessAgain")
  /\ \E candidate \in Candidates(b) :
       requests' = [requests EXCEPT ![r].business = b, ![r].candidate = candidate, ![r].step =
         IF requests[r].owner = NoUser THEN "findOwnerAgain" ELSE "decide"]
  /\ UNCHANGED <<users, businesses, tokens, calls, promoted, contested, moved, stranded, late>>

FindOwnerAgain(r) ==
  /\ At(r, "findOwnerAgain")
  /\ requests' = [requests EXCEPT ![r].owner = Snapshot(IdOf(requests[r].email, users)),
                                  ![r].step = "decide"]
  /\ UNCHANGED <<users, businesses, tokens, calls, promoted, contested, moved, stranded, late>>

(* The user that the sign-up goes on with, as it was read *)
Resumed(r) == IF requests[r].owner # NoUser THEN requests[r].owner ELSE requests[r].candidate

AnyPassword(r) == Resumed(r) # NoUser
PasswordIsRight(r) ==
  Resumed(r) # NoUser /\ users[Resumed(r).id].password = requests[r].given

(* A business that has no owner gets one; P2002 is not caught here. *)
CreateOwner(r) ==
  LET req == requests[r] IN
  /\ At(r, "decide") /\ Resumed(r) = NoUser /\ req.business # None
  /\ IF IdOf(req.email, users) = None
     THEN /\ users' = Append(users, NewUser(req.email, req.given, "business", req.business))
          /\ Grant([id |-> Len(users) + 1, role |-> "business", business |-> req.business],
                   req.given)
          /\ late' = IF businesses[req.business].completed
                     THEN late \cup {Len(users) + 1} ELSE late
     ELSE UNCHANGED <<users, tokens, late>>
  /\ Answer(r)
  /\ UNCHANGED <<businesses, calls, promoted, contested, moved, stranded>>

(* 'Email already in use' *)
Refuse(r) ==
  /\ At(r, "decide")
  /\ \/ Resumed(r) = NoUser /\ requests[r].business = None
     \/ Resumed(r) # NoUser /\ ~PasswordIsRight(r)
  /\ Answer(r)
  /\ UNCHANGED <<users, businesses, tokens, calls, promoted, contested, moved, stranded, late>>

(* P2002 is not caught here either. *)
CreateBusinessOnly(r) ==
  LET shop == requests[r].shop IN
  /\ At(r, "decide") /\ PasswordIsRight(r) /\ requests[r].business = None
  /\ IF IdOf(shop, businesses) = None
     THEN /\ businesses' = Append(businesses, NewBusiness(shop))
          /\ requests' = [requests EXCEPT ![r].business = Len(businesses) + 1,
                                          ![r].created = TRUE, ![r].step = "link"]
     ELSE Answer(r) /\ UNCHANGED businesses
  /\ UNCHANGED <<users, tokens, calls, promoted, contested, moved, stranded, late>>

(* At the end of resumeBusinessSignUp, with a business at hand *)
HasBusiness(r) ==
  \/ At(r, "link")
  \/ At(r, "decide") /\ PasswordIsRight(r) /\ requests[r].business # None

Owned(user) == user.role = "business" /\ user.business # None

(* Other sign-ups that have read the user as one to link *)
Rivals(r, u) ==
  {q \in Requests \ {r} : \E w \in {"owner", "candidate"} :
     Busy(q) /\ w \in DOMAIN requests[q] /\ requests[q][w].id = u /\ ~Owned(requests[q][w])}

(* The promotion of a client, or the link of an owner without a business: *)
(* an update by id, whatever the user has become since it was read.       *)
ForgetfulLink(r) ==
  LET u == Resumed(r).id  b == requests[r].business IN
  /\ HasBusiness(r) /\ ~Owned(Resumed(r))
  /\ Grant([id |-> u, role |-> "business", business |-> b], requests[r].given)
  /\ Answer(r)
  /\ UNCHANGED <<users, businesses, calls, promoted, contested, moved, stranded, late>>
Link(r) ==
  LET u == Resumed(r).id  b == requests[r].business  left == users[u].business IN
  /\ HasBusiness(r) /\ ~Owned(Resumed(r))
  /\ users' = [users EXCEPT ![u].role = "business", ![u].business = b]
  /\ Grant([id |-> u, role |-> "business", business |-> b], requests[r].given)
  /\ Answer(r)
  /\ promoted' = IF users[u].role = "client" THEN promoted \cup {u} ELSE promoted
  /\ contested' = IF Rivals(r, u) # {} THEN contested \cup {u} ELSE contested
  /\ moved' = IF left \in {None, b} THEN moved ELSE moved \cup {u}
  /\ stranded' = IF left \in {None, b} THEN stranded ELSE stranded \cup {left}
  /\ late' = IF businesses[b].completed THEN late \cup {u} ELSE late
  /\ UNCHANGED <<businesses, calls>>

(* A user with a business keeps it: the one of the request, if it was *)
(* created just now, gets no user.                                    *)
KeepBusiness(r) ==
  LET b == requests[r].business IN
  /\ HasBusiness(r) /\ Owned(Resumed(r))
  /\ Grant(Resumed(r), requests[r].given)
  /\ stranded' = IF requests[r].created THEN stranded \cup {b} ELSE stranded
  /\ Answer(r)
  /\ UNCHANGED <<users, businesses, calls, promoted, contested, moved, late>>

(* signUpClient: the user is created, or signed in if there is one *)
SignUpClient(r) ==
  \E email \in UserEmails, given \in Passwords :
    \/ /\ IdOf(email, users) = None /\ ~Busy(r)
       /\ calls < MaxCalls /\ calls' = calls + 1
       /\ users' = Append(users, NewUser(email, given, "client", None))
       /\ Grant([id |-> Len(users) + 1, role |-> "client", business |-> None], given)
       /\ UNCHANGED <<businesses, requests, promoted, contested, moved, stranded, late>>
    \/ /\ IdOf(email, users) # None
       /\ Begin(r, [step |-> "findClient", email |-> email, given |-> given])
       /\ UNCHANGED <<users, businesses, tokens, promoted, contested, moved, stranded, late>>

FindClient(r) ==
  LET u == IdOf(requests[r].email, users) IN
  /\ At(r, "findClient")
  /\ IF u # None /\ users[u].role = "client" /\ users[u].password = requests[r].given
     THEN Grant(Snapshot(u), requests[r].given) ELSE UNCHANGED tokens
  /\ Answer(r)
  /\ UNCHANGED <<users, businesses, calls, promoted, contested, moved, stranded, late>>

(* signIn and signInClient: the row is read, its role compared, then its *)
(* password; a session renewed by refresh gets the claims of the row too *)
SignIn ==
  \E u \in DOMAIN users, given \in Passwords :
    /\ calls < MaxCalls /\ calls' = calls + 1
    /\ users[u].password = given
    /\ Grant(Snapshot(u), given)
    /\ UNCHANGED <<users, businesses, requests, promoted, contested, moved, stranded, late>>

SignUpStep(r) ==
  \/ FindOwner(r) \/ CreateBusinessAndOwner(r) \/ FindBusinessAgain(r) \/ FindOwnerAgain(r)
  \/ CreateOwner(r) \/ Refuse(r) \/ CreateBusinessOnly(r) \/ Link(r) \/ KeepBusiness(r)
  \/ FindClient(r)

(* A write throws, or the process dies: a business just created has no user. *)
AbandonSignUp(r) ==
  /\ Busy(r) /\ requests[r].step \in {"findOwner", "create", "findBusinessAgain",
                                      "findOwnerAgain", "decide", "link", "findClient"}
  /\ stranded' = IF At(r, "link") THEN stranded \cup {requests[r].business} ELSE stranded
  /\ Answer(r)
  /\ UNCHANGED <<users, businesses, tokens, calls, promoted, contested, moved, late>>

-------------------------------------------------------------------------------
(* A session is one of the user whose password came with the request, and  *)
(* its claims are those of the user's row, but for two that wait for the   *)
(* token to expire.  A client that a sign-up promotes, overlapping or not, *)
(* keeps the tokens that say client and no business                        *)
(* (auth.service.ts:129-137).  And where two sign-ups linked the same user *)
(* at the same time, and only there, the later takes the user from the     *)
(* business that the token of the earlier names (auth.service.ts:139-148). *)
ClaimsHold ==
  /\ moved \subseteq contested
  /\ \A t \in tokens :
       LET row == users[t.user] IN
       /\ row.password = t.given
       /\ t.role = "client" =>
            /\ t.business = None
            /\ (row.role = "client" /\ row.business = None) \/ t.user \in promoted
       /\ t.role = "business" =>
            /\ t.business \in DOMAIN businesses
            /\ row.role = "business"
            /\ row.business = t.business \/ t.user \in moved

(* A business without a user is one whose sign-up is at the link still, or *)
(* was cut short there, or was made for an owner who has another already   *)
(* and keeps that one, which takes no overlap; or it lost its user to an   *)
(* overlapping sign-up (auth.service.ts:126-148).                          *)
OwnerlessHasCause ==
  \A b \in DOMAIN businesses :
    Members(b) = {} => b \in stranded \/ \E r \in Requests : At(r, "link") /\ requests[r].business = b
===============================================================================
