--------------------------- MODULE OnboardingProofs ---------------------------
(***************************************************************************)
(* SignUp and Onboarding, for any number of users, businesses, tokens and  *)
(* requests.  The invariant has two parts: AccountInv, of who is linked to *)
(* whom, which SignUp's requests rely on, and CompletionInv, of what the   *)
(* steps of the onboarding rely on.                                        *)
(***************************************************************************)
EXTENDS Onboarding, SequenceTheorems, TLAPS

UserRead == [id : Nat, role : {"client", "business"}, business : Nat]

ResumeSteps == SignUpSteps \ {"findClient"}

SignUpRequest ==
  [step : ResumeSteps, email : UserEmails, shop : BusinessEmails, given : Passwords,
   business : Nat, candidate : UserRead, owner : UserRead, created : BOOLEAN]
ClientRequest == [step : {"findClient"}, email : UserEmails, given : Passwords]
PartRequest == [step : StepSteps \ {"writeOwner"}, user : Nat, business : Nat]
OwnerRequest == [step : StepSteps, user : Nat, business : Nat,
                 email : UserEmails, free : BOOLEAN]
Request == {Idle} \cup SignUpRequest \cup ClientRequest \cup PartRequest \cup OwnerRequest

-------------------------------------------------------------------------------
(* The tables: a client has no business, and an owner has one. *)
Links(us, bs) ==
  \A u \in DOMAIN us :
    IF us[u].role = "client" THEN us[u].business = None ELSE us[u].business \in DOMAIN bs

OwnEmail(rows) == \A i, j \in DOMAIN rows : rows[i].email = rows[j].email => i = j

Tables ==
  /\ users \in Seq(User) /\ businesses \in Seq(Business)
  /\ Links(users, businesses) /\ OwnEmail(users) /\ OwnEmail(businesses)

(* What a request in flight has read of a user is true still, or somebody  *)
(* else has linked the user since.                                         *)
ReadSound(s) ==
  s # NoUser =>
    /\ s.id \in DOMAIN users
    /\ Owned(s) => /\ s.business \in DOMAIN businesses /\ users[s.id].role = "business"
                   /\ users[s.id].business = s.business \/ s.id \in moved
    /\ ~Owned(s) => users[s.id].business = None \/ s.id \in contested

ResumedOf(req) == IF req.owner # NoUser THEN req.owner ELSE req.candidate

ResumeSound(req) ==
  /\ req.business \in {None} \cup DOMAIN businesses
  /\ ReadSound(req.owner) /\ ReadSound(req.candidate)
  /\ req.step = "link" =>
       /\ req.business # None /\ req.created /\ ResumedOf(req) # NoUser
       /\ users[ResumedOf(req).id].password = req.given

RequestSound(req) ==
  /\ req \in Request
  /\ req.step \in ResumeSteps => ResumeSound(req)
  /\ req.step \in StepSteps => req.user \in DOMAIN users /\ req.business \in DOMAIN businesses

(* A token says of its user what is so, or was before the user was made  *)
(* one of a business, or was linked to another.                          *)
TokenSound(t) ==
  /\ t \in Claims /\ t.user \in DOMAIN users
  /\ users[t.user].password = t.given
  /\ t.role = "client" =>
       /\ t.business = None
       /\ (users[t.user].role = "client" /\ users[t.user].business = None) \/ t.user \in promoted
  /\ t.role = "business" =>
       /\ t.business \in DOMAIN businesses /\ users[t.user].role = "business"
       /\ users[t.user].business = t.business \/ t.user \in moved

HistoryTyped ==
  /\ calls \in 0..MaxCalls /\ stranded \subseteq DOMAIN businesses
  /\ promoted \cup contested \cup moved \cup late \subseteq DOMAIN users
  /\ moved \subseteq contested

Noted == aside \cup undone \cup cut \subseteq DOMAIN businesses

AccountInv ==
  /\ Tables /\ HistoryTyped /\ Noted
  /\ requests \in [Requests -> Request] /\ \A r \in Requests : RequestSound(requests[r])
  /\ \A t \in tokens : TokenSound(t)
  /\ OwnerlessHasCause

-------------------------------------------------------------------------------
(* Completion: what a step has checked before it marks is so still, or a   *)
(* part was taken back.                                                    *)
MarkSound(req) ==
  /\ req.step = "markBusiness" => req.business \in AllDone \cup undone
  /\ req.step = "markUsers" => businesses[req.business].completed

CompleteSound ==
  \A b \in DOMAIN businesses : businesses[b].completed => b \in AllDone \cup undone

UsersFollow ==
  /\ \A b \in DOMAIN businesses : businesses[b].completed =>
       \/ b \in cut \/ \E r \in Requests : At(r, "markUsers") /\ Own(r) = b
       \/ \A u \in Members(b) \ late : users[u].completed
  /\ \A u \in DOMAIN users \ moved :
       users[u].completed => users[u].business # None /\ businesses[users[u].business].completed

CompletionInv ==
  /\ \A r \in Requests : MarkSound(requests[r])
  /\ CompleteSound /\ UsersFollow /\ LastStepSubmits

OnboardingInv == AccountInv /\ CompletionInv

-------------------------------------------------------------------------------
(* Rows are added at the end and changed in place. *)
LEMMA RowAdded ==
  ASSUME NEW S, NEW rows \in Seq(S), NEW row \in S, NEW more, more = Append(rows, row)
  PROVE  /\ more \in Seq(S) /\ DOMAIN more = DOMAIN rows \cup {Len(rows) + 1}
         /\ Len(rows) + 1 \notin DOMAIN rows /\ Len(rows) + 1 \in Nat
         /\ more[Len(rows) + 1] = row /\ \A i \in DOMAIN rows : more[i] = rows[i]
<1>1. Len(rows) \in Nat /\ DOMAIN rows = 1..Len(rows)
  BY LenProperties
<1>2. /\ more \in Seq(S) /\ DOMAIN more = 1..Len(rows) + 1
      /\ \A i \in 1..Len(rows) : more[i] = rows[i]
      /\ more[Len(rows) + 1] = row
  BY <1>1, AppendProperties, LenProperties
<1> QED
  BY <1>1, <1>2

LEMMA RowPut ==
  ASSUME NEW S, NEW rows \in Seq(S), NEW i \in DOMAIN rows, NEW row \in S,
         NEW changed, changed = [rows EXCEPT ![i] = row]
  PROVE  /\ changed \in Seq(S) /\ DOMAIN changed = DOMAIN rows /\ changed[i] = row
         /\ \A j \in DOMAIN rows : j # i => changed[j] = rows[j]
<1>1. DOMAIN rows = 1..Len(rows)
  BY LenProperties
<1>2. changed \in Seq(S)
  BY <1>1, ExceptSeq
<1> QED
  BY <1>2

LEMMA RowTyped ==
  ASSUME NEW S, NEW rows \in Seq(S)
  PROVE  /\ \A i \in DOMAIN rows : rows[i] \in S /\ i \in Nat /\ i # None
         /\ None \notin DOMAIN rows
<1>1. DOMAIN rows = 1..Len(rows) /\ Len(rows) \in Nat
  BY LenProperties
<1>2. \A i \in DOMAIN rows : rows[i] \in S
  BY <1>1, ElementOfSeq
<1> QED
  BY <1>1, <1>2 DEF None

(* findUnique finds the row with the e-mail, if there is one. *)
LEMMA IdFound ==
  ASSUME NEW S, NEW rows \in Seq(S), NEW email
  PROVE  /\ IdOf(email, rows) \in {None} \cup DOMAIN rows
         /\ IdOf(email, rows) = None <=> \A id \in DOMAIN rows : rows[id].email # email
         /\ IdOf(email, rows) # None => rows[IdOf(email, rows)].email = email
<1>1. None \notin DOMAIN rows
  BY RowTyped
<1>2. CASE \E id \in DOMAIN rows : rows[id].email = email
  <2>1. PICK id : id = IdOf(email, rows)
    OBVIOUS
  <2>2. id \in DOMAIN rows /\ rows[id].email = email
    BY <1>2, <2>1 DEF IdOf
  <2> QED
    BY <1>1, <1>2, <2>1, <2>2
<1>3. CASE ~\E id \in DOMAIN rows : rows[id].email = email
  BY <1>3 DEF IdOf
<1> QED
  BY <1>2, <1>3

(* so an e-mail that is free, or one's own already, may be taken. *)
LEMMA EmailFree ==
  ASSUME NEW rows, OwnEmail(rows), None \notin DOMAIN rows, NEW email, NEW i, IdOf(email, rows) \in {None, i}
  PROVE  \A j \in DOMAIN rows : rows[j].email = email => j = i
<1>1. SUFFICES ASSUME NEW j \in DOMAIN rows, rows[j].email = email
               PROVE  j = i
  OBVIOUS
<1>2. PICK k : k = IdOf(email, rows)
  OBVIOUS
<1>3. k \in DOMAIN rows /\ rows[k].email = email
  BY <1>1, <1>2 DEF IdOf
<1> QED
  BY <1>1, <1>2, <1>3 DEF OwnEmail

LEMMA SameEmails ==
  ASSUME NEW rows, NEW after, OwnEmail(rows), DOMAIN after = DOMAIN rows,
         \A j \in DOMAIN rows : after[j].email = rows[j].email
  PROVE  OwnEmail(after)
BY DEF OwnEmail

(* Requests are told apart by their steps. *)
LEMMA RequestTyped ==
  ASSUME NEW req \in Request
  PROVE  /\ req = Idle <=> req.step = "idle"
         /\ req.step \in ResumeSteps <=> req \in SignUpRequest
         /\ req.step = "findClient" <=> req \in ClientRequest
         /\ req.step \in StepSteps <=> req \in PartRequest \cup OwnerRequest
         /\ req.step = "writeOwner" => req \in OwnerRequest
         /\ req \in SignUpRequest => "owner" \in DOMAIN req /\ "candidate" \in DOMAIN req
BY DEF Request, Idle, SignUpRequest, ClientRequest, PartRequest, OwnerRequest, ResumeSteps,
       SignUpSteps, StepSteps

LEMMA NoUserRead == NoUser \in UserRead /\ ~Owned(NoUser)
BY DEF NoUser, UserRead, Owned, None

-------------------------------------------------------------------------------
(* What a step may do to the tables: rows stay, a client that does not is  *)
(* counted as promoted, an owner stays one, and keeps the business unless  *)
(* it is counted as moved.                                                 *)
TablesMove ==
  /\ Tables' /\ DOMAIN users \subseteq DOMAIN users' /\ DOMAIN businesses \subseteq DOMAIN businesses'
  /\ promoted \subseteq promoted' /\ contested \subseteq contested' /\ moved \subseteq moved'
  /\ \A u \in DOMAIN users :
       /\ users'[u].password = users[u].password
       /\ users[u].role = "business" => users'[u].role = "business"
       /\ users[u].role = "client" => users'[u].role = "client" \/ u \in promoted'
       /\ \/ users'[u].business = users[u].business
          \/ users[u].business = None \/ u \in moved'

(* A request has read the user u as one to link. *)
Reads(req, u) ==
  req.step \in ResumeSteps /\ \E s \in {req.owner, req.candidate} : s # NoUser /\ s.id = u /\ ~Owned(s)

LEMMA ReadMoves ==
  ASSUME TablesMove, NEW s, ReadSound(s),
         s # NoUser /\ ~Owned(s) /\ users[s.id].business = None =>
           users'[s.id].business = None \/ s.id \in contested',
         moved' \subseteq contested'
  PROVE  ReadSound(s)'
<1>1. SUFFICES ASSUME s # NoUser
               PROVE  /\ s.id \in DOMAIN users'
                      /\ Owned(s) =>
                           /\ s.business \in DOMAIN businesses' /\ users'[s.id].role = "business"
                           /\ users'[s.id].business = s.business \/ s.id \in moved'
                      /\ ~Owned(s) => users'[s.id].business = None \/ s.id \in contested'
  BY DEF ReadSound, Owned
<1>2. s.id \in DOMAIN users /\ s.id \in DOMAIN users'
  BY <1>1 DEF ReadSound, TablesMove
<1>3. CASE Owned(s)
  <2>1. /\ s.business \in DOMAIN businesses /\ users[s.id].role = "business"
        /\ users[s.id].business = s.business \/ s.id \in moved
    BY <1>1, <1>3 DEF ReadSound
  <2>2. s.business # None
    BY <1>3 DEF Owned
  <2> QED
    BY <1>2, <1>3, <2>1, <2>2 DEF TablesMove
<1>4. CASE ~Owned(s)
  <2>1. users[s.id].business = None \/ s.id \in contested
    BY <1>1, <1>4 DEF ReadSound
  <2> QED
    BY <1>1, <1>2, <1>4, <2>1 DEF TablesMove
<1> QED
  BY <1>3, <1>4

LEMMA RequestMoves ==
  ASSUME TablesMove, moved' \subseteq contested', NEW req, RequestSound(req),
         \A u \in DOMAIN users : Reads(req, u) /\ users[u].business = None =>
           users'[u].business = None \/ u \in contested'
  PROVE  RequestSound(req)'
<1>1. /\ req \in Request
      /\ req.step \in ResumeSteps => ResumeSound(req)
      /\ req.step \in StepSteps => req.user \in DOMAIN users /\ req.business \in DOMAIN businesses
  BY DEF RequestSound
<1>2. ASSUME req.step \in ResumeSteps
      PROVE  ResumeSound(req)'
  <2>1. ResumeSound(req)
    BY <1>1, <1>2
  <2>2. ASSUME NEW s \in {req.owner, req.candidate}
        PROVE  ReadSound(s)'
    <3>1. ReadSound(s)
      BY <2>1 DEF ResumeSound
    <3>2. s # NoUser /\ ~Owned(s) /\ users[s.id].business = None =>
            users'[s.id].business = None \/ s.id \in contested'
      BY <1>2, <3>1 DEF Reads, ReadSound
    <3> QED
      BY <3>1, <3>2, ReadMoves
  <2>3. req.business \in {None} \cup DOMAIN businesses'
    BY <2>1 DEF ResumeSound, TablesMove
  <2>4. ASSUME req.step = "link"
        PROVE  /\ req.business # None /\ req.created /\ ResumedOf(req) # NoUser
               /\ users'[ResumedOf(req).id].password = req.given
    <3>1. /\ req.business # None /\ req.created /\ ResumedOf(req) # NoUser
          /\ users[ResumedOf(req).id].password = req.given
      BY <2>1, <2>4 DEF ResumeSound
    <3>2. ResumedOf(req).id \in DOMAIN users
      BY <2>1, <3>1 DEF ResumeSound, ReadSound, ResumedOf
    <3> QED
      BY <3>1, <3>2 DEF TablesMove
  <2> QED
    BY <2>2, <2>3, <2>4 DEF ResumeSound, ResumedOf
<1>3. req.step \in StepSteps => req.user \in DOMAIN users' /\ req.business \in DOMAIN businesses'
  BY <1>1 DEF TablesMove
<1> QED
  BY <1>1, <1>2, <1>3 DEF RequestSound

LEMMA TokenMoves ==
  ASSUME Tables, TablesMove, NEW t, TokenSound(t)
  PROVE  TokenSound(t)'
<1>1. None \notin DOMAIN businesses
  BY RowTyped DEF Tables
<1>2. \A u \in DOMAIN users' : users'[u].role = "client" => users'[u].business = None
  BY DEF TablesMove, Tables, Links
<1> QED
  BY <1>1, <1>2 DEF TokenSound, TablesMove

LEMMA AccountMoves ==
  ASSUME AccountInv, TablesMove, HistoryTyped', Noted', OwnerlessHasCause',
         requests' \in [Requests -> Request],
         \A q \in Requests : requests'[q] = requests[q] \/ RequestSound(requests[q])',
         \A q \in Requests : requests'[q] = requests[q] =>
           \A u \in DOMAIN users : Reads(requests[q], u) /\ users[u].business = None =>
             users'[u].business = None \/ u \in contested',
         \A t \in tokens' : t \in tokens \/ TokenSound(t)'
  PROVE  AccountInv'
<1>1. \A t \in tokens' : TokenSound(t)'
  BY TokenMoves DEF AccountInv
<1>2. ASSUME NEW q \in Requests
      PROVE  RequestSound(requests[q])'
  <2>1. CASE requests'[q] = requests[q]
    <3>1. PICK req : req = requests[q]
      OBVIOUS
    <3>2. RequestSound(req)
      BY <3>1 DEF AccountInv
    <3>3. \A u \in DOMAIN users : Reads(req, u) /\ users[u].business = None =>
            users'[u].business = None \/ u \in contested'
      BY <2>1, <3>1
    <3>4. RequestSound(req)'
      BY <3>2, <3>3, RequestMoves DEF HistoryTyped
    <3>5. requests'[q] = req
      BY <2>1, <3>1
    <3> QED
      BY <3>4, <3>5 DEF RequestSound, ResumeSound, ReadSound, ResumedOf
  <2> QED
    BY <2>1
<1> QED
  BY <1>1, <1>2 DEF AccountInv, TablesMove

(* A business keeps its users, or it is known why not. *)
LEMMA OwnersStay ==
  ASSUME OwnerlessHasCause, NEW r, stranded \subseteq stranded',
         DOMAIN businesses' = DOMAIN businesses,
         \A b \in DOMAIN businesses :
           b \in stranded' \/ \A u \in Members(b) : u \in Members(b)',
         \A q \in Requests \ {r} : requests'[q] = requests[q],
         r \in Requests /\ At(r, "link") =>
           \/ At(r, "link")' /\ requests'[r].business = requests[r].business
           \/ \E b : b = requests[r].business /\ (b \in stranded' \/ Members(b)' # {})
  PROVE  OwnerlessHasCause'
<1>1. SUFFICES ASSUME NEW b \in DOMAIN businesses', Members(b)' = {}, b \notin stranded'
               PROVE  \E q \in Requests : (At(q, "link") /\ requests[q].business = b)'
  BY DEF OwnerlessHasCause
<1>2. Members(b) = {} /\ b \notin stranded
  BY <1>1
<1>3. PICK q \in Requests : At(q, "link") /\ requests[q].business = b
  BY <1>2 DEF OwnerlessHasCause
<1>4. CASE q = r
  BY <1>1, <1>3, <1>4
<1>5. CASE q # r
  BY <1>3, <1>5 DEF At, Busy
<1> QED
  BY <1>4, <1>5

-------------------------------------------------------------------------------
(* Steps that only read, and answer or go on *)
LEMMA Reading ==
  ASSUME AccountInv, NEW r \in Requests, NEW req, RequestSound(req),
         requests' = [requests EXCEPT ![r] = req],
         UNCHANGED <<users, businesses, promoted, contested, moved, late>>,
         calls' \in 0..MaxCalls, Noted',
         stranded \subseteq stranded', stranded' \subseteq DOMAIN businesses,
         At(r, "link") => requests[r].business \in stranded',
         \A t \in tokens' : t \in tokens \/ TokenSound(t)
  PROVE  AccountInv'
<1>1. /\ req \in Request /\ requests \in [Requests -> Request]
      /\ requests' \in [Requests -> Request] /\ requests'[r] = req
      /\ \A q \in Requests \ {r} : requests'[q] = requests[q]
  BY DEF RequestSound, AccountInv
<1>2. TablesMove
  BY DEF TablesMove, AccountInv, Tables, Links, OwnEmail
<1>3. HistoryTyped'
  BY DEF HistoryTyped, AccountInv
<1>4. \A b : Members(b)' = Members(b)
  BY DEF Members
<1>5. OwnerlessHasCause'
  BY <1>1, <1>4, OwnersStay DEF AccountInv
<1>6. RequestSound(req)'
  BY DEF RequestSound, ResumeSound, ReadSound, ResumedOf
<1>7. RequestSound(requests[r])'
  BY <1>1, <1>6 DEF RequestSound, ResumeSound, ReadSound, ResumedOf
<1>8. \A q \in Requests : requests'[q] = requests[q] \/ RequestSound(requests[q])'
  BY <1>1, <1>7
<1>9. \A t \in tokens' : t \in tokens \/ TokenSound(t)'
  BY DEF TokenSound
<1> QED
  BY <1>1, <1>2, <1>3, <1>5, <1>8, <1>9, AccountMoves

(* What is read of a user, and what a token says of one *)
LEMMA SnapshotSound ==
  ASSUME Tables, NEW id \in {None} \cup DOMAIN users
  PROVE  /\ Snapshot(id) \in UserRead /\ ReadSound(Snapshot(id))
         /\ Snapshot(id) = NoUser <=> id = None
         /\ id # None => /\ Snapshot(id).id = id /\ Snapshot(id).role = users[id].role
                         /\ Snapshot(id).business = users[id].business
<1>1. CASE id = None
  BY <1>1, NoUserRead DEF Snapshot, ReadSound
<1>2. CASE id # None
  <2>1. PICK s : s = [id |-> id, role |-> users[id].role, business |-> users[id].business]
    OBVIOUS
  <2>2. /\ id \in DOMAIN users /\ users[id] \in User /\ id \in Nat
        /\ Snapshot(id) = s /\ s.id = id /\ s.role = users[id].role /\ s.business = users[id].business
    BY <1>2, <2>1, RowTyped DEF Tables, Snapshot
  <2>3. s \in UserRead
    BY <2>1, <2>2 DEF User, UserRead
  <2>4. s # NoUser
    BY <1>2, <2>2 DEF NoUser
  <2>5. ReadSound(s)
    <3>1. users[id].role \in {"client", "business"} /\ None \notin DOMAIN businesses
      BY <2>2, RowTyped DEF User, Tables
    <3> QED
      BY <2>2, <3>1 DEF ReadSound, Owned, Tables, Links
  <2> QED
    BY <1>2, <2>2, <2>3, <2>4, <2>5
<1> QED
  BY <1>1, <1>2

LEMMA CandidatesSound ==
  ASSUME Tables, NEW b, NEW c \in Candidates(b)
  PROVE  c \in UserRead /\ ReadSound(c)
<1>1. NoUser \in UserRead /\ ReadSound(NoUser)
  BY NoUserRead DEF ReadSound
<1>2. \A u \in Members(b) : Snapshot(u) \in UserRead /\ ReadSound(Snapshot(u))
  BY SnapshotSound DEF Members
<1> QED
  BY <1>1, <1>2 DEF Candidates

LEMMA RowToken ==
  ASSUME Tables, NEW u \in DOMAIN users, NEW given, users[u].password = given, Grant(Snapshot(u), given)
  PROVE  \A t \in tokens' : t \in tokens \/ TokenSound(t)
<1>1. PICK t : t = [user |-> Snapshot(u).id, role |-> Snapshot(u).role,
                    business |-> Snapshot(u).business, given |-> given]
  OBVIOUS
<1>2. u # None /\ u \in Nat /\ users[u] \in User /\ None \notin DOMAIN businesses
  BY RowTyped DEF Tables
<1>3. t.user = u /\ t.role = users[u].role /\ t.business = users[u].business /\ t.given = given
  BY <1>1, <1>2, SnapshotSound
<1>4. t = [user |-> u, role |-> users[u].role, business |-> users[u].business, given |-> given]
  BY <1>1, <1>2, SnapshotSound
<1>5. t \in Claims
  BY <1>2, <1>4 DEF Claims, User
<1>6. TokenSound(t)
  BY <1>2, <1>3, <1>5 DEF TokenSound, Tables, Links, User
<1> QED
  BY <1>1, <1>6 DEF Grant

(* SignIn *)
LEMMA SignInAccount ==
  ASSUME AccountInv, SignIn, Noted'
  PROVE  AccountInv'
<1>1. /\ UNCHANGED <<users, businesses, requests, promoted, contested, moved, stranded, late>>
      /\ calls < MaxCalls /\ calls' = calls + 1
  BY DEF SignIn
<1>2. \A t \in tokens' : t \in tokens \/ TokenSound(t)
  <2>1. PICK u \in DOMAIN users, given \in Passwords :
          users[u].password = given /\ Grant(Snapshot(u), given)
    BY DEF SignIn
  <2> QED
    BY <2>1, RowToken DEF AccountInv
<1>3. TablesMove
  BY <1>1 DEF TablesMove, AccountInv, Tables, Links, OwnEmail
<1>4. HistoryTyped'
  BY <1>1, SignUpAssumption DEF HistoryTyped, AccountInv
<1>5. OwnerlessHasCause'
  BY <1>1 DEF AccountInv, OwnerlessHasCause, Members, At, Busy
<1>6. \A t \in tokens' : t \in tokens \/ TokenSound(t)'
  BY <1>1, <1>2 DEF TokenSound
<1> QED
  BY <1>1, <1>3, <1>4, <1>5, <1>6, AccountMoves DEF AccountInv

(* A slot that begins, goes on and answers *)
LEMMA IdleSound == RequestSound(Idle) /\ Idle \in Request
BY DEF RequestSound, Request, Idle, ResumeSteps, SignUpSteps, StepSteps

LEMMA BusyStep ==
  ASSUME AccountInv, NEW r \in Requests, NEW step, At(r, step)
  PROVE  /\ requests[r] \in Request /\ RequestSound(requests[r]) /\ requests[r].step = step
         /\ step \in ResumeSteps => requests[r] \in SignUpRequest /\ ResumeSound(requests[r])
         /\ step \in StepSteps => /\ requests[r] \in PartRequest \cup OwnerRequest
                                  /\ requests[r].user \in DOMAIN users
                                  /\ requests[r].business \in DOMAIN businesses
         /\ step = "findClient" => requests[r] \in ClientRequest
BY RequestTyped DEF AccountInv, At, RequestSound

-------------------------------------------------------------------------------
(* The reads of the sign-up *)
LEMMA ResumeMade ==
  ASSUME NEW req \in SignUpRequest, ResumeSound(req)
  PROVE  RequestSound(req)
<1>1. req \in Request
  BY DEF Request
<1> QED
  BY <1>1, RequestTyped DEF RequestSound, SignUpRequest, ResumeSteps, SignUpSteps, StepSteps

LEMMA SignUpBusinessAccount ==
  ASSUME AccountInv, NEW r \in Requests, SignUpBusiness(r), Noted'
  PROVE  AccountInv'
<1>0. PICK email \in UserEmails, shop \in BusinessEmails, given \in Passwords :
  \E candidate \in Candidates(IdOf(shop, businesses)) :
    /\ Begin(r, [step |-> "findOwner", email |-> email, shop |-> shop, given |-> given,
                 business |-> IdOf(shop, businesses), candidate |-> candidate,
                 owner |-> NoUser, created |-> FALSE])
    /\ UNCHANGED <<users, businesses, tokens, promoted, contested, moved, stranded, late>>
  BY DEF SignUpBusiness
<1>1. PICK candidate \in Candidates(IdOf(shop, businesses)) :
    /\ Begin(r, [step |-> "findOwner", email |-> email, shop |-> shop, given |-> given,
                 business |-> IdOf(shop, businesses), candidate |-> candidate,
                 owner |-> NoUser, created |-> FALSE])
    /\ UNCHANGED <<users, businesses, tokens, promoted, contested, moved, stranded, late>>
  BY <1>0
<1>2. Tables
  BY DEF AccountInv
<1>3. PICK b : b = IdOf(shop, businesses)
  OBVIOUS
<1>4. b \in {None} \cup DOMAIN businesses /\ b \in Nat
  BY <1>2, <1>3, IdFound, RowTyped DEF Tables, None
<1>5. candidate \in UserRead /\ ReadSound(candidate)
  BY <1>2, CandidatesSound
<1>6. PICK req : req = [step |-> "findOwner", email |-> email, shop |-> shop, given |-> given,
                        business |-> b, candidate |-> candidate,
                        owner |-> NoUser, created |-> FALSE]
  OBVIOUS
<1>7. req \in SignUpRequest
  BY <1>4, <1>5, <1>6, NoUserRead DEF SignUpRequest, ResumeSteps, SignUpSteps
<1>8. ResumeSound(req)
  BY <1>4, <1>5, <1>6 DEF ResumeSound, ReadSound
<1>9. /\ ~Busy(r) /\ calls' \in 0..MaxCalls /\ requests' = [requests EXCEPT ![r] = req]
  BY <1>1, <1>3, <1>6, SignUpAssumption DEF Begin, AccountInv, HistoryTyped
<1>10. ~At(r, "link") /\ stranded \subseteq DOMAIN businesses
  BY <1>9 DEF At, AccountInv, HistoryTyped
<1> QED
  BY <1>1, <1>7, <1>8, <1>9, <1>10, ResumeMade, Reading

(* FindOwner, FindBusinessAgain and FindOwnerAgain: the request goes on    *)
(* with what it read.                                                      *)
LEMMA RereadAccount ==
  ASSUME AccountInv, NEW r \in Requests, NEW was \in {"findOwner", "findBusinessAgain", "findOwnerAgain"},
         At(r, was), NEW req, requests' = [requests EXCEPT ![r] = req],
         req \in SignUpRequest, req.step # "link",
         req.business \in {None} \cup DOMAIN businesses,
         ReadSound(req.owner), ReadSound(req.candidate),
         UNCHANGED <<users, businesses, tokens, calls, promoted, contested, moved, stranded, late>>, Noted'
  PROVE  AccountInv'
<1>1. RequestSound(req)
  BY ResumeMade DEF ResumeSound
<1>2. ~At(r, "link") /\ stranded \subseteq DOMAIN businesses /\ calls \in 0..MaxCalls
  BY DEF At, AccountInv, HistoryTyped
<1> QED
  BY <1>1, <1>2, Reading

LEMMA FindOwnerAccount ==
  ASSUME AccountInv, NEW r \in Requests, FindOwner(r), Noted'
  PROVE  AccountInv'
<1>1. At(r, "findOwner")
  BY DEF FindOwner
<1>2. /\ requests[r] \in SignUpRequest /\ ResumeSound(requests[r]) /\ Tables
      /\ requests \in [Requests -> Request]
  BY <1>1, BusyStep DEF AccountInv, ResumeSteps, SignUpSteps
<1>3. PICK owner : owner = Snapshot(IdOf(requests[r].email, users))
  OBVIOUS
<1>4. owner \in UserRead /\ ReadSound(owner)
  BY <1>2, <1>3, IdFound, SnapshotSound DEF Tables
<1>5. PICK step : step = IF owner = NoUser
         THEN (IF requests[r].business # None THEN "findOwnerAgain" ELSE "create")
         ELSE (IF requests[r].business # None THEN "decide" ELSE "findBusinessAgain")
  OBVIOUS
<1>6. step \in ResumeSteps /\ step # "link"
  BY <1>5 DEF ResumeSteps, SignUpSteps
<1>7. PICK req : req = [requests[r] EXCEPT !.owner = owner, !.step = step]
  OBVIOUS
<1>8. /\ req \in SignUpRequest /\ req.step = step /\ req.owner = owner
      /\ req.business = requests[r].business /\ req.candidate = requests[r].candidate
  BY <1>2, <1>4, <1>6, <1>7 DEF SignUpRequest
<1>9. /\ requests' = [requests EXCEPT ![r].owner = owner, ![r].step = step]
      /\ UNCHANGED <<users, businesses, tokens, calls, promoted, contested, moved, stranded, late>>
  BY <1>3, <1>5 DEF FindOwner
<1>10. requests' = [requests EXCEPT ![r] = req]
  BY <1>2, <1>7, <1>9
<1> QED
  BY <1>1, <1>2, <1>4, <1>6, <1>8, <1>9, <1>10, RereadAccount DEF ResumeSound

LEMMA FindBusinessAgainAccount ==
  ASSUME AccountInv, NEW r \in Requests, FindBusinessAgain(r), Noted'
  PROVE  AccountInv'
<1>1. At(r, "findBusinessAgain")
  BY DEF FindBusinessAgain
<1>2. /\ requests[r] \in SignUpRequest /\ ResumeSound(requests[r]) /\ Tables
      /\ requests \in [Requests -> Request]
  BY <1>1, BusyStep DEF AccountInv, ResumeSteps, SignUpSteps
<1>3. PICK b : b = IdOf(requests[r].shop, businesses)
  OBVIOUS
<1>4. b \in {None} \cup DOMAIN businesses /\ b \in Nat
  BY <1>2, <1>3, IdFound, RowTyped DEF Tables, None
<1>5. PICK step : step = IF requests[r].owner = NoUser THEN "findOwnerAgain" ELSE "decide"
  OBVIOUS
<1>6. step \in ResumeSteps /\ step # "link"
  BY <1>5 DEF ResumeSteps, SignUpSteps
<1>7. PICK candidate \in Candidates(b) :
        requests' = [requests EXCEPT ![r].business = b, ![r].candidate = candidate, ![r].step = step]
  BY <1>3, <1>5 DEF FindBusinessAgain
<1>8. candidate \in UserRead /\ ReadSound(candidate)
  BY <1>2, CandidatesSound
<1>9. PICK req : req = [requests[r] EXCEPT !.business = b, !.candidate = candidate, !.step = step]
  OBVIOUS
<1>10. /\ req \in SignUpRequest /\ req.step = step /\ req.owner = requests[r].owner
       /\ req.business = b /\ req.candidate = candidate
  BY <1>2, <1>4, <1>6, <1>8, <1>9 DEF SignUpRequest
<1>11. UNCHANGED <<users, businesses, tokens, calls, promoted, contested, moved, stranded, late>>
  BY DEF FindBusinessAgain
<1>12. requests' = [requests EXCEPT ![r] = req]
  BY <1>2, <1>7, <1>9
<1> QED
  BY <1>1, <1>2, <1>4, <1>6, <1>8, <1>10, <1>11, <1>12, RereadAccount DEF ResumeSound

LEMMA FindOwnerAgainAccount ==
  ASSUME AccountInv, NEW r \in Requests, FindOwnerAgain(r), Noted'
  PROVE  AccountInv'
<1>1. At(r, "findOwnerAgain")
  BY DEF FindOwnerAgain
<1>2. /\ requests[r] \in SignUpRequest /\ ResumeSound(requests[r]) /\ Tables
      /\ requests \in [Requests -> Request]
  BY <1>1, BusyStep DEF AccountInv, ResumeSteps, SignUpSteps
<1>3. PICK owner : owner = Snapshot(IdOf(requests[r].email, users))
  OBVIOUS
<1>4. owner \in UserRead /\ ReadSound(owner)
  BY <1>2, <1>3, IdFound, SnapshotSound DEF Tables
<1>5. "decide" \in ResumeSteps
  BY DEF ResumeSteps, SignUpSteps
<1>6. PICK req : req = [requests[r] EXCEPT !.owner = owner, !.step = "decide"]
  OBVIOUS
<1>7. /\ req \in SignUpRequest /\ req.step = "decide" /\ req.owner = owner
      /\ req.business = requests[r].business /\ req.candidate = requests[r].candidate
  BY <1>2, <1>4, <1>5, <1>6 DEF SignUpRequest
<1>8. /\ requests' = [requests EXCEPT ![r].owner = owner, ![r].step = "decide"]
      /\ UNCHANGED <<users, businesses, tokens, calls, promoted, contested, moved, stranded, late>>
  BY <1>3 DEF FindOwnerAgain
<1>9. requests' = [requests EXCEPT ![r] = req]
  BY <1>2, <1>6, <1>8
<1>10. /\ req.step # "link" /\ req.business \in {None} \cup DOMAIN businesses
       /\ ReadSound(req.owner) /\ ReadSound(req.candidate)
  BY <1>2, <1>4, <1>7 DEF ResumeSound
<1> QED
  BY <1>1, <1>7, <1>8, <1>9, <1>10, RereadAccount

(* The ends of the sign-up that write nothing *)
LEMMA AnswerAccount ==
  ASSUME AccountInv, NEW r \in Requests, Answer(r),
         UNCHANGED <<users, businesses, calls, promoted, contested, moved, late>>, Noted',
         stranded \subseteq stranded', stranded' \subseteq DOMAIN businesses,
         At(r, "link") => requests[r].business \in stranded',
         \A t \in tokens' : t \in tokens \/ TokenSound(t)
  PROVE  AccountInv'
<1>1. calls' \in 0..MaxCalls /\ requests' = [requests EXCEPT ![r] = Idle]
  BY DEF AccountInv, HistoryTyped, Answer
<1> QED
  BY <1>1, IdleSound, Reading

LEMMA RefuseAccount ==
  ASSUME AccountInv, NEW r \in Requests, Refuse(r), Noted'
  PROVE  AccountInv'
<1>1. ~At(r, "link") /\ stranded \subseteq DOMAIN businesses
  BY DEF Refuse, At, AccountInv, HistoryTyped
<1> QED
  BY <1>1, AnswerAccount DEF Refuse

LEMMA FindClientAccount ==
  ASSUME AccountInv, NEW r \in Requests, FindClient(r), Noted'
  PROVE  AccountInv'
<1>1. ~At(r, "link") /\ stranded \subseteq DOMAIN businesses /\ Tables
  BY DEF FindClient, At, AccountInv, HistoryTyped
<1>2. PICK u : u = IdOf(requests[r].email, users)
  OBVIOUS
<1>3. u # None => u \in DOMAIN users
  BY <1>1, <1>2, IdFound DEF Tables
<1>4. \/ u # None /\ users[u].password = requests[r].given /\ Grant(Snapshot(u), requests[r].given)
      \/ UNCHANGED tokens
  BY <1>2 DEF FindClient
<1>5. \A t \in tokens' : t \in tokens \/ TokenSound(t)
  BY <1>1, <1>3, <1>4, RowToken
<1> QED
  BY <1>1, <1>5, AnswerAccount DEF FindClient

LEMMA AbandonSignUpAccount ==
  ASSUME AccountInv, NEW r \in Requests, AbandonSignUp(r), Noted'
  PROVE  AccountInv'
<1>1. At(r, "link") => requests[r].business \in DOMAIN businesses
  BY BusyStep DEF ResumeSound, ResumeSteps, SignUpSteps
<1>2. stranded' = IF At(r, "link") THEN stranded \cup {requests[r].business} ELSE stranded
  BY DEF AbandonSignUp
<1>3. /\ stranded \subseteq stranded' /\ stranded' \subseteq DOMAIN businesses
      /\ At(r, "link") => requests[r].business \in stranded'
  BY <1>1, <1>2 DEF AccountInv, HistoryTyped
<1> QED
  BY <1>3, AnswerAccount DEF AbandonSignUp

(* What a request that has a business at hand knows of it and of the user *)
LEMMA BusinessAtHand ==
  ASSUME AccountInv, NEW r \in Requests, HasBusiness(r)
  PROVE  /\ requests[r] \in SignUpRequest /\ requests[r].business \in DOMAIN businesses
         /\ Resumed(r) \in UserRead /\ Resumed(r) # NoUser /\ ReadSound(Resumed(r))
         /\ Resumed(r).id \in DOMAIN users
         /\ users[Resumed(r).id].password = requests[r].given
         /\ At(r, "link") => requests[r].created
         /\ Resumed(r) \in {requests[r].owner, requests[r].candidate}
         /\ Busy(r) /\ requests[r].step \in ResumeSteps
<1>1. "link" \in ResumeSteps /\ "decide" \in ResumeSteps
  BY DEF ResumeSteps, SignUpSteps
<1>2. /\ requests[r] \in SignUpRequest /\ ResumeSound(requests[r]) /\ Busy(r)
      /\ requests[r].step \in ResumeSteps
  BY <1>1, BusyStep DEF HasBusiness, At
<1>3. Resumed(r) = ResumedOf(requests[r])
  BY DEF Resumed, ResumedOf
<1>4. At(r, "link") => /\ requests[r].business # None /\ requests[r].created /\ Resumed(r) # NoUser
                       /\ users[Resumed(r).id].password = requests[r].given
  BY <1>2, <1>3 DEF ResumeSound, At
<1>5. /\ requests[r].business # None /\ Resumed(r) # NoUser
      /\ users[Resumed(r).id].password = requests[r].given
  BY <1>4 DEF HasBusiness, PasswordIsRight
<1>6. requests[r].owner \in UserRead /\ requests[r].candidate \in UserRead
  BY <1>2 DEF SignUpRequest
<1>7. Resumed(r) \in UserRead /\ ReadSound(Resumed(r)) /\ requests[r].business \in DOMAIN businesses
  BY <1>2, <1>5, <1>6 DEF Resumed, ResumeSound
<1>8. Resumed(r).id \in DOMAIN users
  BY <1>5, <1>7 DEF ReadSound
<1> QED
  BY <1>2, <1>4, <1>5, <1>7, <1>8 DEF Resumed

LEMMA KeepBusinessAccount ==
  ASSUME AccountInv, NEW r \in Requests, KeepBusiness(r), Noted'
  PROVE  AccountInv'
<1>1. HasBusiness(r) /\ Owned(Resumed(r))
  BY DEF KeepBusiness
<1>2. PICK s, given : s = Resumed(r) /\ given = requests[r].given
  OBVIOUS
<1>3. /\ s \in UserRead /\ ReadSound(s) /\ s # NoUser /\ s.id \in DOMAIN users
      /\ users[s.id].password = given /\ given \in Passwords
      /\ requests[r].business \in DOMAIN businesses
      /\ At(r, "link") => requests[r].created
  BY <1>1, <1>2, BusinessAtHand DEF SignUpRequest
<1>4. PICK t : t = [user |-> s.id, role |-> s.role, business |-> s.business, given |-> given]
  OBVIOUS
<1>5. t \in Claims /\ t.user = s.id /\ t.role = s.role /\ t.business = s.business /\ t.given = given
  BY <1>3, <1>4 DEF Claims, UserRead
<1>6. TokenSound(t)
  BY <1>1, <1>2, <1>3, <1>5 DEF TokenSound, ReadSound, Owned
<1>7. \A x \in tokens' : x \in tokens \/ TokenSound(x)
  BY <1>2, <1>4, <1>6 DEF KeepBusiness, Grant
<1>8. stranded' = IF requests[r].created THEN stranded \cup {requests[r].business} ELSE stranded
  BY DEF KeepBusiness
<1>9. /\ stranded \subseteq stranded' /\ stranded' \subseteq DOMAIN businesses
      /\ At(r, "link") => requests[r].business \in stranded'
  BY <1>3, <1>8 DEF AccountInv, HistoryTyped
<1> QED
  BY <1>7, <1>9, AnswerAccount DEF KeepBusiness

-------------------------------------------------------------------------------
(* The writes of the sign-up: a user and a business are added. *)
LEMMA UserAdded ==
  ASSUME AccountInv, NEW email \in UserEmails, NEW given \in Passwords,
         NEW role \in {"client", "business"}, NEW b \in Nat,
         IdOf(email, users) = None,
         IF role = "client" THEN b = None ELSE b \in DOMAIN businesses',
         users' = Append(users, NewUser(email, given, role, b)),
         businesses' \in Seq(Business), DOMAIN businesses \subseteq DOMAIN businesses',
         OwnEmail(businesses'), UNCHANGED <<promoted, contested, moved>>,
         Grant([id |-> Len(users) + 1, role |-> role, business |-> b], given)
  PROVE  /\ TablesMove
         /\ \A t \in tokens' : t \in tokens \/ TokenSound(t)'
         /\ DOMAIN users' = DOMAIN users \cup {Len(users) + 1}
         /\ \A u \in DOMAIN users : users'[u] = users[u]
         /\ \A x, u : u \in Members(x) => u \in Members(x)'
         /\ \A x : x = b => Members(x)' # {}
<1>1. users \in Seq(User) /\ Links(users, businesses) /\ OwnEmail(users)
  BY DEF AccountInv, Tables
<1>2. PICK row : row = NewUser(email, given, role, b)
  OBVIOUS
<1>3. /\ row \in User /\ row.email = email /\ row.password = given /\ row.role = role
      /\ row.business = b
  BY <1>2 DEF NewUser, User
<1>4. PICK n : n = Len(users) + 1
  OBVIOUS
<1>5. /\ users' \in Seq(User) /\ DOMAIN users' = DOMAIN users \cup {n} /\ n \notin DOMAIN users
      /\ n \in Nat /\ users'[n] = row /\ \A u \in DOMAIN users : users'[u] = users[u]
  BY <1>1, <1>2, <1>3, <1>4, RowAdded
<1>6. Links(users', businesses')
  BY <1>1, <1>3, <1>5 DEF Links
<1>7. OwnEmail(users')
  BY <1>1, <1>3, <1>5, IdFound DEF OwnEmail
<1>8. TablesMove
  BY <1>5, <1>6, <1>7 DEF TablesMove, Tables
<1>9. PICK t : t = [user |-> n, role |-> role, business |-> b, given |-> given]
  OBVIOUS
<1>10. t \in Claims /\ t.user = n /\ t.role = role /\ t.business = b /\ t.given = given
  BY <1>5, <1>9 DEF Claims
<1>11. TokenSound(t)'
  BY <1>3, <1>5, <1>10 DEF TokenSound
<1>12. tokens' = tokens \cup {t}
  BY <1>4, <1>9 DEF Grant
<1>13. \A x \in tokens' : x \in tokens \/ TokenSound(x)'
  BY <1>11, <1>12
<1>14. \A x, u : u \in Members(x) => u \in Members(x)'
  BY <1>5 DEF Members
<1>15. \A x : x = b => n \in Members(x)'
  BY <1>3, <1>5 DEF Members
<1> QED
  BY <1>4, <1>5, <1>8, <1>13, <1>14, <1>15

LEMMA BusinessAdded ==
  ASSUME AccountInv, NEW shop \in BusinessEmails, IdOf(shop, businesses) = None,
         businesses' = Append(businesses, NewBusiness(shop))
  PROVE  /\ businesses' \in Seq(Business) /\ OwnEmail(businesses')
         /\ DOMAIN businesses' = DOMAIN businesses \cup {Len(businesses) + 1}
         /\ Len(businesses) + 1 \in Nat /\ Len(businesses) + 1 \notin DOMAIN businesses
         /\ Len(businesses) + 1 # None
         /\ businesses'[Len(businesses) + 1] = NewBusiness(shop)
         /\ \A b \in DOMAIN businesses : businesses'[b] = businesses[b]
<1>1. businesses \in Seq(Business) /\ OwnEmail(businesses)
  BY DEF AccountInv, Tables
<1>2. PICK row : row = NewBusiness(shop)
  OBVIOUS
<1>3. row \in Business /\ row.email = shop
  BY <1>2 DEF NewBusiness, Business
<1>4. PICK n : n = Len(businesses) + 1
  OBVIOUS
<1>5. /\ businesses' \in Seq(Business) /\ DOMAIN businesses' = DOMAIN businesses \cup {n}
      /\ n \notin DOMAIN businesses /\ n \in Nat /\ businesses'[n] = row
      /\ \A b \in DOMAIN businesses : businesses'[b] = businesses[b]
  BY <1>1, <1>2, <1>3, <1>4, RowAdded
<1>6. OwnEmail(businesses')
  BY <1>1, <1>3, <1>5, IdFound DEF OwnEmail
<1>7. n # None
  BY <1>1, <1>4, LenProperties DEF None
<1> QED
  BY <1>2, <1>4, <1>5, <1>6, <1>7

(* Users that are added are nobody's that a request has read. *)
LEMMA AddingAccount ==
  ASSUME AccountInv, TablesMove, Noted', NEW r \in Requests,
         NEW req, RequestSound(req)', requests' = [requests EXCEPT ![r] = req],
         UNCHANGED <<promoted, contested, moved, stranded>>, calls' \in 0..MaxCalls,
         late' \subseteq DOMAIN users',
         \A u \in DOMAIN users : users'[u].business = users[u].business,
         \A t \in tokens' : t \in tokens \/ TokenSound(t)',
         OwnerlessHasCause'
  PROVE  AccountInv'
<1>1. /\ req \in Request /\ requests \in [Requests -> Request]
  BY DEF RequestSound, AccountInv
<1>2. /\ requests' \in [Requests -> Request] /\ requests'[r] = req
      /\ \A q \in Requests \ {r} : requests'[q] = requests[q]
  BY <1>1
<1>3. HistoryTyped'
  BY DEF HistoryTyped, AccountInv, TablesMove
<1>4. RequestSound(requests[r])'
  BY <1>2 DEF RequestSound, ResumeSound, ReadSound, ResumedOf
<1> QED
  BY <1>2, <1>3, <1>4, AccountMoves

LEMMA IdleSoundNext == RequestSound(Idle)'
BY IdleSound DEF RequestSound, Idle, ResumeSteps, SignUpSteps, StepSteps

LEMMA CreateBusinessAndOwnerAccount ==
  ASSUME AccountInv, NEW r \in Requests, CreateBusinessAndOwner(r), Noted'
  PROVE  AccountInv'
<1>1. At(r, "create") /\ UNCHANGED <<calls, promoted, contested, moved, stranded, late>>
  BY DEF CreateBusinessAndOwner
<1>2. /\ requests[r] \in SignUpRequest /\ ResumeSound(requests[r])
      /\ requests \in [Requests -> Request] /\ calls \in 0..MaxCalls /\ ~At(r, "link")
  BY <1>1, BusyStep DEF AccountInv, HistoryTyped, ResumeSteps, SignUpSteps, At
<1>3. PICK email \in UserEmails, shop \in BusinessEmails, given \in Passwords :
        email = requests[r].email /\ shop = requests[r].shop /\ given = requests[r].given
  BY <1>2 DEF SignUpRequest
<1>4. CASE IdOf(email, users) = None /\ IdOf(shop, businesses) = None
  <2>1. PICK n : n = Len(businesses) + 1
    OBVIOUS
  <2>2. /\ businesses' = Append(businesses, NewBusiness(shop))
        /\ users' = Append(users, NewUser(email, given, "business", n))
        /\ Grant([id |-> Len(users) + 1, role |-> "business", business |-> n], given)
        /\ requests' = [requests EXCEPT ![r] = Idle]
    BY <1>3, <1>4, <2>1 DEF CreateBusinessAndOwner, Answer
  <2>3. /\ businesses' \in Seq(Business) /\ OwnEmail(businesses')
        /\ DOMAIN businesses' = DOMAIN businesses \cup {n} /\ n \in Nat /\ n \notin DOMAIN businesses
    BY <1>4, <2>1, <2>2, BusinessAdded
  <2>4. /\ TablesMove
        /\ \A t \in tokens' : t \in tokens \/ TokenSound(t)'
        /\ \A u \in DOMAIN users : users'[u] = users[u]
        /\ \A x, u : u \in Members(x) => u \in Members(x)'
        /\ Members(n)' # {}
    BY <1>1, <1>4, <2>2, <2>3, UserAdded
  <2>5. \A q \in Requests \ {r} : requests'[q] = requests[q]
    BY <1>2, <2>2
  <2>6. OwnerlessHasCause'
    <3>1. SUFFICES ASSUME NEW b \in DOMAIN businesses', Members(b)' = {}, b \notin stranded'
                   PROVE  \E q \in Requests : (At(q, "link") /\ requests[q].business = b)'
      BY DEF OwnerlessHasCause
    <3>2. b \in DOMAIN businesses /\ Members(b) = {}
      BY <2>3, <2>4, <3>1
    <3>3. PICK q \in Requests : At(q, "link") /\ requests[q].business = b
      BY <1>1, <3>1, <3>2 DEF AccountInv, OwnerlessHasCause
    <3> QED
      BY <1>2, <2>5, <3>3 DEF At, Busy
  <2> QED
    BY <1>1, <1>2, <2>2, <2>4, <2>6, IdleSoundNext, AddingAccount DEF AccountInv, HistoryTyped, TablesMove
<1>5. CASE ~(IdOf(email, users) = None /\ IdOf(shop, businesses) = None)
  <2>1. /\ requests' = [requests EXCEPT ![r].step = "findBusinessAgain"]
        /\ UNCHANGED <<users, businesses, tokens>>
    BY <1>3, <1>5 DEF CreateBusinessAndOwner, GoTo
  <2>2. PICK req : req = [requests[r] EXCEPT !.step = "findBusinessAgain"]
    OBVIOUS
  <2>3. /\ req \in SignUpRequest /\ req.step = "findBusinessAgain" /\ req.owner = requests[r].owner
        /\ req.business = requests[r].business /\ req.candidate = requests[r].candidate
    BY <1>2, <2>2 DEF SignUpRequest, ResumeSteps, SignUpSteps
  <2>4. ResumeSound(req)
    BY <1>2, <2>3 DEF ResumeSound
  <2>5. requests' = [requests EXCEPT ![r] = req]
    BY <1>2, <2>1, <2>2
  <2>6. stranded \subseteq DOMAIN businesses
    BY DEF AccountInv, HistoryTyped
  <2> QED
    BY <1>1, <1>2, <2>1, <2>3, <2>4, <2>5, <2>6, ResumeMade, Reading
<1> QED
  BY <1>4, <1>5

LEMMA CreateOwnerAccount ==
  ASSUME AccountInv, NEW r \in Requests, CreateOwner(r), Noted'
  PROVE  AccountInv'
<1>1. /\ At(r, "decide") /\ requests[r].business # None
      /\ requests' = [requests EXCEPT ![r] = Idle]
      /\ UNCHANGED <<businesses, calls, promoted, contested, moved, stranded>>
  BY DEF CreateOwner, Answer
<1>2. /\ requests[r] \in SignUpRequest /\ requests[r].business \in DOMAIN businesses
      /\ requests \in [Requests -> Request] /\ calls \in 0..MaxCalls /\ ~At(r, "link")
  BY <1>1, BusyStep DEF AccountInv, HistoryTyped, ResumeSteps, SignUpSteps, At, ResumeSound
<1>3. PICK email \in UserEmails, given \in Passwords, b \in DOMAIN businesses :
        email = requests[r].email /\ b = requests[r].business /\ given = requests[r].given
  BY <1>2 DEF SignUpRequest
<1>4. CASE IdOf(email, users) = None
  <2>1. /\ users' = Append(users, NewUser(email, given, "business", b))
        /\ Grant([id |-> Len(users) + 1, role |-> "business", business |-> b], given)
        /\ late' = IF businesses[b].completed THEN late \cup {Len(users) + 1} ELSE late
    BY <1>3, <1>4 DEF CreateOwner
  <2>2. b \in Nat /\ businesses' \in Seq(Business) /\ OwnEmail(businesses') /\ b \in DOMAIN businesses'
    BY <1>1, RowTyped DEF AccountInv, Tables
  <2>3. /\ TablesMove
        /\ \A t \in tokens' : t \in tokens \/ TokenSound(t)'
        /\ DOMAIN users' = DOMAIN users \cup {Len(users) + 1}
        /\ \A u \in DOMAIN users : users'[u] = users[u]
        /\ \A x, u : u \in Members(x) => u \in Members(x)'
    BY <1>1, <1>4, <2>1, <2>2, UserAdded
  <2>4. \A q \in Requests \ {r} : requests'[q] = requests[q]
    BY <1>1, <1>2
  <2>5. OwnerlessHasCause'
    BY <1>1, <1>2, <2>3, <2>4, OwnersStay DEF AccountInv
  <2>6. late' \subseteq DOMAIN users'
    BY <2>1, <2>3 DEF AccountInv, HistoryTyped
  <2> QED
    BY <1>1, <1>2, <2>3, <2>5, <2>6, IdleSoundNext, AddingAccount
<1>5. CASE IdOf(email, users) # None
  <2>1. UNCHANGED <<users, tokens, late>>
    BY <1>3, <1>5 DEF CreateOwner
  <2> QED
    BY <1>1, <1>2, <2>1, AnswerAccount DEF Answer, AccountInv, HistoryTyped
<1> QED
  BY <1>4, <1>5

-------------------------------------------------------------------------------
(* A business is added for a user that is linked to it next. *)
LEMMA CreateBusinessOnlyAccount ==
  ASSUME AccountInv, NEW r \in Requests, CreateBusinessOnly(r), Noted'
  PROVE  AccountInv'
<1>1. /\ At(r, "decide") /\ PasswordIsRight(r)
      /\ UNCHANGED <<users, tokens, calls, promoted, contested, moved, stranded, late>>
  BY DEF CreateBusinessOnly
<1>2. /\ requests[r] \in SignUpRequest /\ ResumeSound(requests[r]) /\ RequestSound(requests[r])
      /\ requests \in [Requests -> Request] /\ calls \in 0..MaxCalls /\ ~At(r, "link")
  BY <1>1, BusyStep DEF AccountInv, HistoryTyped, ResumeSteps, SignUpSteps, At
<1>3. PICK shop \in BusinessEmails : shop = requests[r].shop
  BY <1>2 DEF SignUpRequest
<1>4. CASE IdOf(shop, businesses) = None
  <2>1. PICK n : n = Len(businesses) + 1
    OBVIOUS
  <2>2. /\ businesses' = Append(businesses, NewBusiness(shop))
        /\ requests' = [requests EXCEPT ![r].business = n, ![r].created = TRUE, ![r].step = "link"]
    BY <1>3, <1>4, <2>1 DEF CreateBusinessOnly
  <2>3. /\ businesses' \in Seq(Business) /\ OwnEmail(businesses')
        /\ DOMAIN businesses' = DOMAIN businesses \cup {n} /\ n \in Nat /\ n # None
    BY <1>4, <2>1, <2>2, BusinessAdded
  <2>4. TablesMove
    <3>1. Tables
      BY DEF AccountInv
    <3>2. Links(users', businesses')
      BY <1>1, <2>3, <3>1 DEF Links, Tables
    <3> QED
      BY <1>1, <2>3, <3>1, <3>2 DEF TablesMove, Tables, OwnEmail
  <2>5. PICK req : req = [requests[r] EXCEPT !.business = n, !.created = TRUE, !.step = "link"]
    OBVIOUS
  <2>6. /\ req \in SignUpRequest /\ req.step = "link" /\ req.owner = requests[r].owner
        /\ req.business = n /\ req.candidate = requests[r].candidate /\ req.created
        /\ req.given = requests[r].given
    BY <1>2, <2>3, <2>5 DEF SignUpRequest, ResumeSteps, SignUpSteps
  <2>7. requests' = [requests EXCEPT ![r] = req] /\ requests'[r] = req
    BY <1>2, <2>2, <2>5
  <2>8. ResumedOf(req) # NoUser /\ users[ResumedOf(req).id].password = req.given
    BY <1>1, <2>6 DEF PasswordIsRight, Resumed, ResumedOf
  <2>9. ResumeSound(req)'
    <3>1. ReadSound(req.owner) /\ ReadSound(req.candidate)
      BY <1>2, <2>6 DEF ResumeSound
    <3>2. moved' \subseteq contested'
      BY <1>1 DEF AccountInv, HistoryTyped
    <3>3. PICK o, c : o = req.owner /\ c = req.candidate
      OBVIOUS
    <3>4. ReadSound(o)' /\ ReadSound(c)'
      BY <1>1, <2>4, <3>1, <3>2, <3>3, ReadMoves
    <3>5. \A s : s \in {o, c} =>
            /\ ReadSound(s)'
            /\ s # NoUser => s.id \in DOMAIN users'
      BY <3>4 DEF ReadSound
    <3> QED
      BY <1>1, <2>3, <2>6, <2>8, <3>3, <3>4 DEF ResumeSound, ResumedOf
  <2>10. RequestSound(req)'
    BY <2>6, <2>9, RequestTyped DEF RequestSound, Request, StepSteps
  <2>11. \A b : Members(b)' = Members(b)
    BY <1>1 DEF Members
  <2>12. OwnerlessHasCause'
    <3>1. SUFFICES ASSUME NEW b \in DOMAIN businesses', Members(b)' = {}, b \notin stranded'
                   PROVE  \E q \in Requests : (At(q, "link") /\ requests[q].business = b)'
      BY DEF OwnerlessHasCause
    <3>2. CASE b = n
      <4>1. requests'[r] # Idle
        BY <2>6, <2>7 DEF Idle
      <4> QED
        BY <2>6, <2>7, <3>2, <4>1 DEF At, Busy
    <3>3. CASE b # n
      <4>1. b \in DOMAIN businesses /\ Members(b) = {} /\ b \notin stranded
        BY <1>1, <2>3, <2>11, <3>1, <3>3
      <4>2. PICK q \in Requests : At(q, "link") /\ requests[q].business = b
        BY <4>1 DEF AccountInv, OwnerlessHasCause
      <4> QED
        BY <1>2, <2>7, <4>2 DEF At, Busy
    <3> QED
      BY <3>2, <3>3
  <2> QED
    BY <1>1, <1>2, <2>4, <2>7, <2>10, <2>12, AddingAccount DEF AccountInv, HistoryTyped
<1>5. CASE IdOf(shop, businesses) # None
  <2>1. Answer(r) /\ UNCHANGED businesses
    BY <1>3, <1>5 DEF CreateBusinessOnly
  <2> QED
    BY <1>1, <1>2, <2>1, AnswerAccount DEF AccountInv, HistoryTyped
<1> QED
  BY <1>4, <1>5

(* signUpClient *)
LEMMA SignUpClientAccount ==
  ASSUME AccountInv, NEW r \in Requests, SignUpClient(r), Noted'
  PROVE  AccountInv'
<1>1. PICK email \in UserEmails, given \in Passwords :
    \/ /\ IdOf(email, users) = None /\ ~Busy(r)
       /\ calls < MaxCalls /\ calls' = calls + 1
       /\ users' = Append(users, NewUser(email, given, "client", None))
       /\ Grant([id |-> Len(users) + 1, role |-> "client", business |-> None], given)
       /\ UNCHANGED <<businesses, requests, promoted, contested, moved, stranded, late>>
    \/ /\ IdOf(email, users) # None
       /\ Begin(r, [step |-> "findClient", email |-> email, given |-> given])
       /\ UNCHANGED <<users, businesses, tokens, promoted, contested, moved, stranded, late>>
  BY DEF SignUpClient
<1>2. ~Busy(r) /\ calls' \in 0..MaxCalls /\ ~At(r, "link") /\ requests \in [Requests -> Request]
  BY <1>1, SignUpAssumption DEF Begin, At, AccountInv, HistoryTyped
<1>3. CASE IdOf(email, users) = None
  <2>1. /\ users' = Append(users, NewUser(email, given, "client", None))
        /\ Grant([id |-> Len(users) + 1, role |-> "client", business |-> None], given)
        /\ UNCHANGED <<businesses, requests, promoted, contested, moved, stranded, late>>
    BY <1>1, <1>3
  <2>2. businesses \in Seq(Business) /\ OwnEmail(businesses) /\ None \in Nat
    BY DEF AccountInv, Tables, None
  <2>3. businesses' \in Seq(Business) /\ OwnEmail(businesses')
    BY <2>1, <2>2
  <2>4. /\ TablesMove
        /\ \A t \in tokens' : t \in tokens \/ TokenSound(t)'
        /\ DOMAIN users' = DOMAIN users \cup {Len(users) + 1}
        /\ \A u \in DOMAIN users : users'[u] = users[u]
        /\ \A x, u : u \in Members(x) => u \in Members(x)'
    BY <1>3, <2>1, <2>2, <2>3, UserAdded
  <2>5. OwnerlessHasCause'
    BY <2>1, <2>4, OwnersStay DEF AccountInv, At, Busy
  <2>6. late' \subseteq DOMAIN users'
    BY <2>1, <2>4 DEF AccountInv, HistoryTyped
  <2>7. requests' = [requests EXCEPT ![r] = Idle]
    BY <1>2, <2>1 DEF Busy
  <2> QED
    BY <1>2, <2>1, <2>4, <2>5, <2>6, <2>7, IdleSoundNext, AddingAccount
<1>4. CASE IdOf(email, users) # None
  <2>1. /\ Begin(r, [step |-> "findClient", email |-> email, given |-> given])
        /\ UNCHANGED <<users, businesses, tokens, promoted, contested, moved, stranded, late>>
    BY <1>1, <1>4
  <2>2. PICK req : req = [step |-> "findClient", email |-> email, given |-> given]
    OBVIOUS
  <2>3. req \in Request /\ req.step = "findClient"
    BY <2>2 DEF Request, ClientRequest
  <2>4. RequestSound(req)
    BY <2>3 DEF RequestSound, ResumeSteps, SignUpSteps, StepSteps
  <2> QED
    BY <1>2, <2>1, <2>2, <2>4, Reading DEF Begin, AccountInv, HistoryTyped
<1> QED
  BY <1>3, <1>4

(* The link of a user that the request has read as one without a business *)
LEMMA LinkAccount ==
  ASSUME AccountInv, NEW r \in Requests, Link(r), Noted'
  PROVE  AccountInv'
<1>1. HasBusiness(r) /\ ~Owned(Resumed(r))
  BY DEF Link
<1>2. PICK s, b, given : s = Resumed(r) /\ b = requests[r].business /\ given = requests[r].given
  OBVIOUS
<1>3. /\ s \in UserRead /\ ReadSound(s) /\ s # NoUser /\ s.id \in DOMAIN users
      /\ users[s.id].password = given /\ given \in Passwords /\ b \in DOMAIN businesses
      /\ Busy(r)
  BY <1>1, <1>2, BusinessAtHand DEF SignUpRequest
<1>4. PICK u \in DOMAIN users : u = s.id
  BY <1>3
<1>5. PICK left : left = users[u].business
  OBVIOUS
<1>6. /\ users' = [users EXCEPT ![u].role = "business", ![u].business = b]
      /\ Grant([id |-> u, role |-> "business", business |-> b], given)
      /\ requests' = [requests EXCEPT ![r] = Idle]
      /\ promoted' = IF users[u].role = "client" THEN promoted \cup {u} ELSE promoted
      /\ contested' = IF Rivals(r, u) # {} THEN contested \cup {u} ELSE contested
      /\ moved' = IF left \in {None, b} THEN moved ELSE moved \cup {u}
      /\ stranded' = IF left \in {None, b} THEN stranded ELSE stranded \cup {left}
      /\ late' = IF businesses[b].completed THEN late \cup {u} ELSE late
      /\ UNCHANGED <<businesses, calls>>
  BY <1>2, <1>4, <1>5 DEF Link, Answer
<1>7. /\ Tables /\ users \in Seq(User) /\ users[u] \in User /\ b \in Nat /\ u \in Nat /\ u # None
      /\ None \notin DOMAIN businesses /\ requests \in [Requests -> Request]
  BY <1>3, RowTyped DEF AccountInv, Tables
<1>8. PICK row : row = [users[u] EXCEPT !.role = "business", !.business = b]
  OBVIOUS
<1>9. /\ row \in User /\ row.role = "business" /\ row.business = b
      /\ row.email = users[u].email /\ row.password = users[u].password
  BY <1>7, <1>8 DEF User
<1>10. users' = [users EXCEPT ![u] = row]
  BY <1>6, <1>7, <1>8
<1>11. /\ users' \in Seq(User) /\ DOMAIN users' = DOMAIN users /\ users'[u] = row
       /\ \A x \in DOMAIN users : x # u => users'[x] = users[x]
  BY <1>7, <1>9, <1>10, RowPut
<1>12. Tables'
  <2>1. Links(users', businesses')
    BY <1>3, <1>6, <1>7, <1>9, <1>11 DEF Links, Tables
  <2>2. OwnEmail(users')
    BY <1>7, <1>9, <1>11 DEF OwnEmail, Tables
  <2> QED
    BY <1>6, <1>7, <1>11, <2>1, <2>2 DEF Tables
<1>13. left \in {None} \cup DOMAIN businesses
  BY <1>5, <1>7 DEF Tables, Links
<1>14. left = None \/ u \in contested
  BY <1>1, <1>2, <1>3, <1>4, <1>5 DEF ReadSound
<1>15. TablesMove
  BY <1>5, <1>6, <1>9, <1>11, <1>12 DEF TablesMove
<1>16. HistoryTyped'
  BY <1>6, <1>11, <1>13, <1>14 DEF HistoryTyped, AccountInv
<1>17. OwnerlessHasCause'
  <2>1. ASSUME NEW x \in DOMAIN businesses, x \notin stranded', NEW y \in Members(x)
        PROVE  y \in Members(x)'
    <3>1. y \in DOMAIN users /\ users[y].business = x /\ x # None
      BY <1>7, <2>1 DEF Members
    <3>2. CASE y = u
      <4>1. x = b
        BY <1>5, <1>6, <2>1, <3>1, <3>2
      <4> QED
        BY <1>9, <1>11, <3>2, <4>1 DEF Members
    <3>3. CASE y # u
      BY <1>11, <3>1, <3>3 DEF Members
    <3> QED
      BY <3>2, <3>3
  <2>2. u \in Members(b)'
    BY <1>9, <1>11 DEF Members
  <2>3. \A q \in Requests \ {r} : requests'[q] = requests[q]
    BY <1>6, <1>7
  <2> QED
    BY <1>2, <1>6, <2>1, <2>2, <2>3, OwnersStay DEF AccountInv
<1>18. \A t \in tokens' : t \in tokens \/ TokenSound(t)'
  <2>1. PICK t : t = [user |-> u, role |-> "business", business |-> b, given |-> given]
    OBVIOUS
  <2>2. t \in Claims /\ t.user = u /\ t.role = "business" /\ t.business = b /\ t.given = given
    BY <1>3, <1>7, <2>1 DEF Claims
  <2>3. TokenSound(t)'
    BY <1>3, <1>4, <1>6, <1>9, <1>11, <2>2 DEF TokenSound
  <2>4. tokens' = tokens \cup {t}
    BY <1>6, <2>1 DEF Grant
  <2> QED
    BY <2>3, <2>4
<1>19. /\ requests' \in [Requests -> Request] /\ requests'[r] = Idle /\ requests[r] # Idle
       /\ \A q \in Requests \ {r} : requests'[q] = requests[q]
  BY <1>3, <1>6, <1>7, IdleSound DEF Busy
<1>20. ASSUME NEW q \in Requests, requests'[q] = requests[q], NEW x \in DOMAIN users,
              Reads(requests[q], x), users[x].business = None
       PROVE  users'[x].business = None \/ x \in contested'
  <2>1. CASE x # u
    BY <1>11, <1>20, <2>1
  <2>2. CASE x = u
    <3>1. q \in Requests \ {r}
      BY <1>19, <1>20
    <3>2. requests[q] \in SignUpRequest /\ requests[q] # Idle
      <4>1. requests[q] \in Request /\ requests[q].step \in ResumeSteps
        BY <1>7, <1>20 DEF Reads
      <4> QED
        BY <4>1, RequestTyped DEF Idle, ResumeSteps, SignUpSteps
    <3>3. PICK y \in {requests[q].owner, requests[q].candidate} : y.id = u /\ ~Owned(y)
      BY <1>20, <2>2 DEF Reads
    <3>4. \E w \in {"owner", "candidate"} :
             /\ Busy(q) /\ w \in DOMAIN requests[q]
             /\ requests[q][w].id = u /\ ~Owned(requests[q][w])
      BY <3>2, <3>3, RequestTyped DEF Busy, Request
    <3>5. q \in Rivals(r, u)
      BY <3>1, <3>4 DEF Rivals
    <3> QED
      BY <1>6, <2>2, <3>5
  <2> QED
    BY <2>1, <2>2
<1>21. \A q \in Requests : requests'[q] = requests[q] \/ RequestSound(requests[q])'
  <2>1. RequestSound(requests[r])'
    BY <1>19, IdleSoundNext DEF RequestSound, Idle, ResumeSteps, SignUpSteps, StepSteps
  <2> QED
    BY <1>19, <2>1
<1> QED
  BY <1>15, <1>16, <1>17, <1>18, <1>19, <1>20, <1>21, AccountMoves


-------------------------------------------------------------------------------
(* The steps of the onboarding edit rows where they are. *)
InPlace ==
  /\ DOMAIN users' = DOMAIN users /\ DOMAIN businesses' = DOMAIN businesses
  /\ users' \in Seq(User) /\ businesses' \in Seq(Business)
  /\ OwnEmail(users') /\ OwnEmail(businesses')
  /\ \A u \in DOMAIN users :
       /\ users'[u].role = users[u].role /\ users'[u].business = users[u].business
       /\ users'[u].password = users[u].password
  /\ UNCHANGED <<tokens, promoted, contested, moved, stranded, late>>

(* Only the two marks of a submit change who is complete. *)
MarksKept ==
  /\ \A u \in DOMAIN users : users'[u].completed = users[u].completed
  /\ \A b \in DOMAIN businesses : businesses'[b].completed = businesses[b].completed

LEMMA NothingEdited ==
  ASSUME Tables, UNCHANGED <<users, businesses, tokens, promoted, contested, moved, stranded, late>>
  PROVE  InPlace /\ MarksKept
BY DEF InPlace, MarksKept, Tables, OwnEmail

LEMMA UserEdited ==
  ASSUME Tables, NEW u \in DOMAIN users, NEW row \in User, users' = [users EXCEPT ![u] = row],
         row.role = users[u].role, row.business = users[u].business,
         row.password = users[u].password, row.completed = users[u].completed,
         \A j \in DOMAIN users : users[j].email = row.email => j = u,
         UNCHANGED <<businesses, tokens, promoted, contested, moved, stranded, late>>
  PROVE  InPlace /\ MarksKept
<1>1. users \in Seq(User) /\ businesses \in Seq(Business) /\ OwnEmail(users) /\ OwnEmail(businesses)
  BY DEF Tables
<1>2. /\ users' \in Seq(User) /\ DOMAIN users' = DOMAIN users /\ users'[u] = row
      /\ \A j \in DOMAIN users : j # u => users'[j] = users[j]
  BY <1>1, RowPut
<1>3. OwnEmail(users')
  BY <1>1, <1>2 DEF OwnEmail
<1>4. OwnEmail(businesses')
  BY <1>1
<1> QED
  BY <1>1, <1>2, <1>3, <1>4 DEF InPlace, MarksKept

LEMMA BusinessEdited ==
  ASSUME Tables, NEW b \in DOMAIN businesses, NEW row \in Business,
         businesses' = [businesses EXCEPT ![b] = row],
         row.completed = businesses[b].completed,
         \A j \in DOMAIN businesses : businesses[j].email = row.email => j = b,
         UNCHANGED <<users, tokens, promoted, contested, moved, stranded, late>>
  PROVE  InPlace /\ MarksKept
<1>1. users \in Seq(User) /\ businesses \in Seq(Business) /\ OwnEmail(users) /\ OwnEmail(businesses)
  BY DEF Tables
<1>2. /\ businesses' \in Seq(Business) /\ DOMAIN businesses' = DOMAIN businesses
      /\ businesses'[b] = row
      /\ \A j \in DOMAIN businesses : j # b => businesses'[j] = businesses[j]
  BY <1>1, RowPut
<1>3. OwnEmail(businesses')
  BY <1>1, <1>2 DEF OwnEmail
<1>4. OwnEmail(users')
  BY <1>1
<1> QED
  BY <1>1, <1>2, <1>3, <1>4 DEF InPlace, MarksKept

LEMMA InPlaceMoves ==
  ASSUME Tables, InPlace
  PROVE  TablesMove
<1>1. Tables'
  BY DEF Tables, InPlace, Links
<1> QED
  BY <1>1 DEF TablesMove, InPlace

LEMMA InPlaceAccount ==
  ASSUME AccountInv, InPlace, Noted', calls' \in 0..MaxCalls,
         requests' \in [Requests -> Request],
         \A q \in Requests : \/ requests'[q] = requests[q]
                             \/ ~At(q, "link") /\ RequestSound(requests'[q])
  PROVE  AccountInv'
<1>1. TablesMove
  BY InPlaceMoves DEF AccountInv
<1>2. HistoryTyped'
  BY DEF HistoryTyped, AccountInv, InPlace
<1>3. \A b : Members(b)' = Members(b)
  BY DEF Members, InPlace
<1>4. OwnerlessHasCause'
  <2>1. SUFFICES ASSUME NEW b \in DOMAIN businesses', Members(b)' = {}, b \notin stranded'
                 PROVE  \E q \in Requests : (At(q, "link") /\ requests[q].business = b)'
    BY DEF OwnerlessHasCause
  <2>2. b \in DOMAIN businesses /\ Members(b) = {} /\ b \notin stranded
    BY <1>3, <2>1 DEF InPlace
  <2>3. PICK q \in Requests : At(q, "link") /\ requests[q].business = b
    BY <2>2 DEF AccountInv, OwnerlessHasCause
  <2> QED
    BY <2>3 DEF At, Busy
<1>5. ASSUME NEW q \in Requests
      PROVE  requests'[q] = requests[q] \/ RequestSound(requests[q])'
  <2>1. SUFFICES ASSUME RequestSound(requests'[q])
                 PROVE  RequestSound(requests[q])'
    OBVIOUS
  <2>2. PICK req : req = requests'[q]
    OBVIOUS
  <2>3. RequestSound(req)
    BY <2>1, <2>2
  <2>4. moved' \subseteq contested'
    BY <1>2 DEF HistoryTyped
  <2>5. RequestSound(req)'
    BY <1>1, <2>3, <2>4, RequestMoves DEF InPlace
  <2> QED
    BY <2>2, <2>5 DEF RequestSound, ResumeSound, ReadSound, ResumedOf
<1>6. \A t \in tokens' : t \in tokens
  BY DEF InPlace
<1>7. \A u \in DOMAIN users : users'[u].business = users[u].business
  BY DEF InPlace
<1> QED
  BY <1>1, <1>2, <1>4, <1>5, <1>6, <1>7, AccountMoves

(* The slot of a step of the onboarding *)
LEMMA StepBegun ==
  ASSUME AccountInv, NEW r \in Requests, NEW t \in tokens, NEW step \in StepSteps \ {"writeOwner"},
         BeginStep(r, t, step)
  PROVE  /\ calls' \in 0..MaxCalls /\ requests' \in [Requests -> Request] /\ ~Busy(r)
         /\ \A q \in Requests \ {r} : requests'[q] = requests[q]
         /\ t.user \in DOMAIN users /\ t.business \in DOMAIN businesses
         /\ RequestSound(requests'[r]) /\ requests'[r] # Idle
         /\ requests'[r].step = step /\ requests'[r].business = t.business
<1>1. PICK req : req = [step |-> step, user |-> t.user, business |-> t.business]
  OBVIOUS
<1>2. /\ req.step = step /\ req.user = t.user /\ req.business = t.business
      /\ ~Busy(r) /\ calls < MaxCalls /\ calls' = calls + 1
      /\ requests' = [requests EXCEPT ![r] = req]
      /\ t.role = "business" /\ t.business # None
  BY <1>1 DEF BeginStep, Begin, BusinessToken
<1>3. t.user \in DOMAIN users /\ t.business \in DOMAIN businesses /\ t \in Claims
  BY <1>2 DEF AccountInv, TokenSound
<1>4. req \in PartRequest
  BY <1>1, <1>3 DEF PartRequest, Claims
<1>5. req \in Request /\ RequestSound(req) /\ req # Idle
  BY <1>2, <1>3, <1>4 DEF RequestSound, Request, Idle, StepSteps, ResumeSteps, SignUpSteps
<1>6. calls' \in 0..MaxCalls /\ requests \in [Requests -> Request]
  BY <1>2, SignUpAssumption DEF AccountInv, HistoryTyped
<1>7. requests' \in [Requests -> Request] /\ requests'[r] = req
  BY <1>2, <1>5, <1>6
<1> QED
  BY <1>2, <1>3, <1>5, <1>6, <1>7

LEMMA StepGoesOn ==
  ASSUME AccountInv, NEW r \in Requests, NEW step, At(r, step), step \in StepSteps,
         NEW next \in StepSteps \ {"writeOwner"}, GoTo(r, next)
  PROVE  /\ requests' \in [Requests -> Request]
         /\ \A q \in Requests \ {r} : requests'[q] = requests[q]
         /\ RequestSound(requests'[r]) /\ requests'[r] # Idle
         /\ requests'[r].step = next /\ requests'[r].business = requests[r].business
<1>1. PICK was : was = requests[r]
  OBVIOUS
<1>2. /\ was \in PartRequest \cup OwnerRequest
      /\ was.user \in DOMAIN users /\ was.business \in DOMAIN businesses
  BY <1>1, BusyStep
<1>3. PICK req : req = [was EXCEPT !.step = next]
  OBVIOUS
<1>4. /\ req \in PartRequest \cup OwnerRequest /\ req.step = next
      /\ req.user = was.user /\ req.business = was.business
  BY <1>2, <1>3 DEF PartRequest, OwnerRequest
<1>5. req \in Request /\ RequestSound(req) /\ req # Idle
  BY <1>2, <1>4 DEF RequestSound, Request, Idle, StepSteps, ResumeSteps, SignUpSteps
<1>6. requests \in [Requests -> Request]
  BY DEF AccountInv
<1>7. requests' = [requests EXCEPT ![r] = req]
  BY <1>1, <1>3, <1>6 DEF GoTo
<1>8. requests' \in [Requests -> Request] /\ requests'[r] = req
  BY <1>5, <1>6, <1>7
<1> QED
  BY <1>1, <1>4, <1>5, <1>6, <1>7, <1>8

LEMMA SlotAnswered ==
  ASSUME AccountInv, NEW r \in Requests, Answer(r)
  PROVE  /\ requests' \in [Requests -> Request] /\ requests'[r] = Idle
         /\ RequestSound(requests'[r])
         /\ \A q \in Requests \ {r} : requests'[q] = requests[q]
<1>1. requests \in [Requests -> Request]
  BY DEF AccountInv
<1> QED
  BY <1>1, IdleSound DEF Answer

-------------------------------------------------------------------------------
(* What a step may do to who is complete *)
CompletionKept ==
  /\ DOMAIN users \subseteq DOMAIN users' /\ DOMAIN businesses \subseteq DOMAIN businesses'
  /\ late \subseteq late' /\ moved \subseteq moved' /\ cut \subseteq cut'
  /\ \A b \in DOMAIN businesses : businesses[b].completed => businesses'[b].completed
  /\ \A b \in DOMAIN businesses' : businesses'[b].completed =>
       \/ b \in DOMAIN businesses /\ businesses[b].completed
       \/ /\ b \in AllDone \cup undone
          /\ \E r \in Requests : At(r, "markUsers")' /\ requests'[r].business = b
  /\ \A u \in DOMAIN users' :
       \/ /\ u \in DOMAIN users /\ users'[u].business = users[u].business
          /\ users[u].completed => users'[u].completed
          /\ users'[u].completed =>
               \/ users[u].completed
               \/ users[u].business # None /\ businesses[users[u].business].completed
       \/ /\ u \in late' \/ users'[u].business = None \/ ~businesses'[users'[u].business].completed
          /\ users'[u].completed =>
               /\ u \in DOMAIN users /\ users[u].completed
               /\ users[u].business = None \/ u \in moved'

(* A request at a mark has checked what it relies on, one that ends at the *)
(* users has marked them, and a business is left by a step only when it is *)
(* complete, when something is missing, or when the step is cut short.     *)
SlotMoves(q) ==
  /\ MarkSound(requests[q])'
  /\ At(q, "markUsers") =>
       \/ requests[q].business \in cut'
       \/ \A u \in DOMAIN users' :
            users'[u].business = requests[q].business => users'[u].completed
  /\ Busy(q) /\ requests[q].step \in StepSteps =>
       \/ requests[q].business \in aside' \/ requests[q].business \notin SureDone'
       \/ businesses'[requests[q].business].completed
       \/ /\ Busy(q)' /\ requests'[q].step \in StepSteps
          /\ requests'[q].business = requests[q].business

(* What got done outside a step, or was taken back, is noted. *)
DoneNoted(own) ==
  /\ aside \cup ((SureDone' \ SureDone) \ {own}) \subseteq aside'
  /\ undone \cup (AllDone \ AllDone') \subseteq undone'
  /\ \/ own = None
     \/ \E r \in Requests : Busy(r)' /\ requests'[r].step \in StepSteps /\ requests'[r].business = own

LEMMA CompletionMoves ==
  ASSUME AccountInv, CompletionInv, CompletionKept, NEW own, DoneNoted(own),
         None \notin DOMAIN businesses',
         \A q \in Requests : requests'[q] = requests[q] \/ SlotMoves(q)
  PROVE  CompletionInv'
<1>1. SureDone \subseteq DOMAIN businesses /\ SureDone' \subseteq DOMAIN businesses'
  BY DEF AllDone, SureDone
<1>2. AllDone \cup undone \subseteq AllDone' \cup undone'
  BY DEF DoneNoted
<1>3. ASSUME NEW r \in Requests
      PROVE  MarkSound(requests[r])'
  <2>1. CASE requests'[r] = requests[r]
    <3>1. MarkSound(requests[r]) /\ RequestSound(requests[r])
      BY DEF CompletionInv, AccountInv
    <3>2. requests[r].step = "markUsers" => requests[r].business \in DOMAIN businesses
      BY <3>1 DEF RequestSound, StepSteps
    <3>3. requests[r].step = "markBusiness" => requests[r].business \in AllDone' \cup undone'
      BY <1>2, <3>1 DEF MarkSound
    <3>4. requests[r].step = "markUsers" => businesses'[requests[r].business].completed
      BY <3>1, <3>2 DEF MarkSound, CompletionKept
    <3> QED
      BY <2>1, <3>3, <3>4 DEF MarkSound
  <2> QED
    BY <2>1 DEF SlotMoves
<1>4. CompleteSound'
  <2>1. SUFFICES ASSUME NEW b \in DOMAIN businesses', businesses'[b].completed
                 PROVE  b \in AllDone' \cup undone'
    BY DEF CompleteSound
  <2>2. b \in AllDone \cup undone
    BY <2>1 DEF CompletionKept, CompletionInv, CompleteSound
  <2> QED
    BY <1>2, <2>2
<1>5. ASSUME NEW b \in DOMAIN businesses', businesses'[b].completed
      PROVE  \/ b \in cut' \/ \E r \in Requests : (At(r, "markUsers") /\ Own(r) = b)'
             \/ \A u \in Members(b)' \ late' : users'[u].completed
  <2>1. CASE \E r \in Requests : At(r, "markUsers")' /\ requests'[r].business = b
    BY <2>1 DEF Own
  <2>2. CASE b \in DOMAIN businesses /\ businesses[b].completed
    <3>1. \/ b \in cut \/ \E r \in Requests : At(r, "markUsers") /\ Own(r) = b
          \/ \A u \in Members(b) \ late : users[u].completed
      BY <2>2 DEF CompletionInv, UsersFollow
    <3>2. CASE b \in cut
      BY <3>2 DEF CompletionKept
    <3>3. CASE \E r \in Requests : At(r, "markUsers") /\ Own(r) = b
      <4>1. PICK r \in Requests : At(r, "markUsers") /\ requests[r].business = b
        BY <3>3 DEF Own
      <4>2. CASE requests'[r] = requests[r]
        <5>1. (At(r, "markUsers") /\ Own(r) = b)'
          BY <4>1, <4>2 DEF At, Busy, Own
        <5> QED
          BY <5>1
      <4>3. CASE SlotMoves(r)
        BY <4>1, <4>3 DEF SlotMoves, Members
      <4> QED
        BY <4>2, <4>3
    <3>4. CASE \A u \in Members(b) \ late : users[u].completed
      <4>1. ASSUME NEW u \in Members(b)' \ late'
            PROVE  users'[u].completed
        <5>1. u \in DOMAIN users' /\ users'[u].business = b /\ u \notin late'
          BY DEF Members
        <5>2. b # None
          BY <1>5
        <5>3. u \in DOMAIN users /\ users'[u].business = users[u].business
              /\ (users[u].completed => users'[u].completed)
          BY <1>5, <5>1, <5>2 DEF CompletionKept
        <5>4. u \in Members(b) \ late
          BY <5>1, <5>3 DEF Members, CompletionKept
        <5> QED
          BY <3>4, <5>3, <5>4
      <4> QED
        BY <4>1
    <3> QED
      BY <3>1, <3>2, <3>3, <3>4
  <2>3. \/ b \in DOMAIN businesses /\ businesses[b].completed
        \/ \E r \in Requests : At(r, "markUsers")' /\ requests'[r].business = b
    BY <1>5 DEF CompletionKept
  <2> QED
    BY <2>1, <2>2, <2>3
<1>6. ASSUME NEW u \in DOMAIN users' \ moved', users'[u].completed
      PROVE  users'[u].business # None /\ businesses'[users'[u].business].completed
  <2>1. u \notin moved
    BY DEF CompletionKept
  <2>2. u \in DOMAIN users /\ users[u].completed =>
          users[u].business # None /\ businesses[users[u].business].completed
    BY <2>1 DEF CompletionInv, UsersFollow
  <2>3. CASE /\ u \in DOMAIN users /\ users'[u].business = users[u].business
             /\ \/ users[u].completed
                \/ users[u].business # None /\ businesses[users[u].business].completed
    <3>1. users[u].business # None /\ businesses[users[u].business].completed
      BY <2>2, <2>3
    <3>2. users[u].business \in DOMAIN businesses
      <4>1. Tables /\ users[u] \in User
        BY <2>3, RowTyped DEF AccountInv, Tables
      <4> QED
        BY <2>3, <3>1, <4>1 DEF Tables, Links, User
    <3> QED
      BY <2>3, <3>1, <3>2 DEF CompletionKept
  <2>4. CASE users'[u].completed =>
               /\ u \in DOMAIN users /\ users[u].completed
               /\ users[u].business = None \/ u \in moved'
    BY <1>6, <2>2, <2>4
  <2> QED
    BY <1>6, <2>3, <2>4 DEF CompletionKept
<1>7. LastStepSubmits'
  <2>1. SUFFICES ASSUME NEW b \in SureDone', b \notin aside', ~businesses'[b].completed
                 PROVE  \E r \in Requests : (Busy(r) /\ requests[r].step \in StepSteps /\ Own(r) = b)'
    BY DEF LastStepSubmits
  <2>2. CASE b \in SureDone
    <3>1. b \in SureDone \ aside /\ ~businesses[b].completed
      BY <1>1, <2>1, <2>2 DEF DoneNoted, CompletionKept
    <3>2. PICK r \in Requests : Busy(r) /\ requests[r].step \in StepSteps /\ requests[r].business = b
      BY <3>1 DEF CompletionInv, LastStepSubmits, Own
    <3>3. CASE requests'[r] = requests[r]
      BY <3>2, <3>3 DEF Busy, Own
    <3>4. CASE SlotMoves(r)
      BY <2>1, <3>2, <3>4 DEF SlotMoves, Own
    <3> QED
      BY <3>3, <3>4
  <2>3. CASE b \notin SureDone
    <3>1. b = own /\ own # None
      BY <1>1, <2>1, <2>3 DEF DoneNoted
    <3> QED
      BY <3>1 DEF DoneNoted, Own
  <2> QED
    BY <2>2, <2>3
<1> QED
  BY <1>3, <1>4, <1>5, <1>6, <1>7 DEF CompletionInv, UsersFollow

-------------------------------------------------------------------------------
(* Who is all done depends on the parts alone, and on who is looked at. *)
LEMMA AllDoneSame ==
  ASSUME DOMAIN users' = DOMAIN users, DOMAIN businesses' = DOMAIN businesses,
         \A u \in DOMAIN users : /\ users'[u].business = users[u].business
                                 /\ users'[u].twoFactor = users[u].twoFactor,
         \A b \in DOMAIN businesses :
           /\ businesses'[b].info = businesses[b].info /\ businesses'[b].hours = businesses[b].hours
           /\ businesses'[b].services = businesses[b].services
           /\ businesses'[b].bank = businesses[b].bank
  PROVE  AllDone' = AllDone /\ SureDone' = SureDone
<1>1. \A b : Members(b)' = Members(b)
  BY DEF Members
<1>2. \A b : Looks(b)' = Looks(b)
  BY <1>1 DEF Looks
<1>3. ASSUME NEW b \in DOMAIN businesses, NEW seen \in SUBSET Members(b)
      PROVE  MissingRequirements(b, seen)' = MissingRequirements(b, seen)
  <2>1. (\A u \in seen : ~users'[u].twoFactor) <=> \A u \in seen : ~users[u].twoFactor
    BY DEF Members
  <2> QED
    BY <2>1 DEF MissingRequirements
<1>4. AllDone' = AllDone
  <2>1. ASSUME NEW b \in DOMAIN businesses
        PROVE  MissingRequirements(b, Members(b))' = MissingRequirements(b, Members(b))
    <3>1. PICK all : all = Members(b)
      OBVIOUS
    <3>2. Members(b)' = all
      BY <1>1, <3>1
    <3>3. MissingRequirements(b, all)' = MissingRequirements(b, all)
      BY <1>3, <3>1
    <3> QED
      BY <3>1, <3>2, <3>3 DEF MissingRequirements
  <2> QED
    BY <2>1 DEF AllDone
<1>5. SureDone' = SureDone
  <2>1. \A b \in AllDone : b \in DOMAIN businesses /\ Looks(b) \subseteq SUBSET Members(b)
    BY DEF AllDone, Looks
  <2> QED
    BY <1>2, <1>3, <1>4, <2>1 DEF SureDone
<1> QED
  BY <1>4, <1>5

LEMMA SameDone ==
  ASSUME UNCHANGED <<users, businesses>>
  PROVE  AllDone' = AllDone /\ SureDone' = SureDone
BY DEF AllDone, SureDone, Looks, MissingRequirements, Members

(* What is missing seems so from any of the users too. *)
LEMMA SeenMissing ==
  ASSUME NEW b \in DOMAIN businesses, NEW seen \in Looks(b)
  PROVE  /\ MissingRequirements(b, seen) = {} => b \in AllDone
         /\ MissingRequirements(b, seen) # {} => b \notin SureDone
<1>1. seen \subseteq Members(b)
  BY DEF Looks
<1>2. MissingRequirements(b, Members(b)) \subseteq MissingRequirements(b, seen)
  BY <1>1 DEF MissingRequirements
<1> QED
  BY <1>2 DEF AllDone, SureDone

LEMMA TallyNoted ==
  ASSUME Noted, NEW own, Tally(own), DOMAIN businesses \subseteq DOMAIN businesses'
  PROVE  Noted'
<1>1. SureDone' \subseteq DOMAIN businesses' /\ AllDone \subseteq DOMAIN businesses
  BY DEF AllDone, SureDone
<1> QED
  BY <1>1 DEF Noted, Tally

LEMMA InPlaceKept ==
  ASSUME InPlace, MarksKept, cut \subseteq cut'
  PROVE  CompletionKept
BY DEF InPlace, MarksKept, CompletionKept

StepRequests ==
  /\ calls' \in 0..MaxCalls /\ requests' \in [Requests -> Request]
  /\ \A q \in Requests : \/ requests'[q] = requests[q]
                         \/ ~At(q, "link") /\ RequestSound(requests'[q]) /\ SlotMoves(q)

LEMMA StepInv ==
  ASSUME OnboardingInv, InPlace, CompletionKept, Noted', StepRequests, NEW own, DoneNoted(own)
  PROVE  OnboardingInv'
<1>1. AccountInv'
  BY InPlaceAccount DEF OnboardingInv, StepRequests
<1>2. None \notin DOMAIN businesses'
  BY <1>1, RowTyped DEF AccountInv, Tables
<1>3. CompletionInv'
  BY <1>2, CompletionMoves DEF OnboardingInv, StepRequests
<1> QED
  BY <1>1, <1>3 DEF OnboardingInv

LEMMA EditInv ==
  ASSUME OnboardingInv, InPlace, MarksKept, StepRequests, NEW own, Tally(own),
         \/ own = None
         \/ \E r \in Requests :
              Busy(r)' /\ requests'[r].step \in StepSteps /\ requests'[r].business = own
  PROVE  OnboardingInv'
<1>1. DoneNoted(own) /\ CompletionKept
  BY InPlaceKept DEF Tally, DoneNoted
<1>2. Noted'
  BY TallyNoted DEF OnboardingInv, AccountInv, InPlace
<1> QED
  BY <1>1, <1>2, StepInv

(* A step that saves its part with its first write *)
LEMMA BegunInv ==
  ASSUME OnboardingInv, NEW r \in Requests, NEW t \in tokens, NEW step \in {"billing", "progress"},
         BeginStep(r, t, step), InPlace, MarksKept, Tally(t.business)
  PROVE  OnboardingInv'
<1>1. /\ calls' \in 0..MaxCalls /\ requests' \in [Requests -> Request] /\ ~Busy(r)
      /\ \A q \in Requests \ {r} : requests'[q] = requests[q]
      /\ RequestSound(requests'[r]) /\ requests'[r] # Idle
      /\ requests'[r].step = step /\ requests'[r].business = t.business
  BY StepBegun DEF OnboardingInv, StepSteps
<1>2. SlotMoves(r)
  BY <1>1 DEF SlotMoves, At, MarkSound
<1>3. StepRequests
  BY <1>1, <1>2 DEF StepRequests, At
<1>4. Busy(r)' /\ requests'[r].step \in StepSteps /\ requests'[r].business = t.business
  BY <1>1 DEF Busy, StepSteps, Idle
<1> QED
  BY <1>3, <1>4, EditInv

LEMMA GoneOnInv ==
  ASSUME OnboardingInv, NEW r \in Requests, NEW step \in {"writeOwner", "billing"}, At(r, step),
         GoTo(r, "progress"), InPlace, MarksKept, UNCHANGED calls, Tally(Own(r))
  PROVE  OnboardingInv'
<1>1. /\ requests' \in [Requests -> Request]
      /\ \A q \in Requests \ {r} : requests'[q] = requests[q]
      /\ RequestSound(requests'[r]) /\ requests'[r] # Idle
      /\ requests'[r].step = "progress" /\ requests'[r].business = requests[r].business
  BY StepGoesOn DEF OnboardingInv, StepSteps
<1>2. SlotMoves(r)
  BY <1>1 DEF SlotMoves, At, MarkSound, Busy, StepSteps, Idle
<1>3. StepRequests
  BY <1>1, <1>2 DEF StepRequests, At, OnboardingInv, AccountInv, HistoryTyped
<1>4. Busy(r)' /\ requests'[r].step \in StepSteps /\ requests'[r].business = Own(r)
  BY <1>1 DEF Busy, StepSteps, Idle, Own
<1> QED
  BY <1>3, <1>4, EditInv

(* A request of one await *)
LEMMA CallInv ==
  ASSUME OnboardingInv, Call, UNCHANGED requests, InPlace, MarksKept, Tally(None)
  PROVE  OnboardingInv'
<1>1. StepRequests
  BY SignUpAssumption DEF Call, StepRequests, OnboardingInv, AccountInv, HistoryTyped
<1> QED
  BY <1>1, EditInv

-------------------------------------------------------------------------------
(* The parts of an account that an edit leaves alone *)
LEMMA TokenLinked ==
  ASSUME OnboardingInv, NEW t \in tokens
  PROVE  /\ Tables /\ t.user \in DOMAIN users /\ users[t.user] \in User
         /\ BusinessToken(t) => /\ t.business \in DOMAIN businesses
                                /\ businesses[t.business] \in Business
<1>1. Tables /\ TokenSound(t)
  BY DEF OnboardingInv, AccountInv
<1> QED
  BY <1>1, RowTyped DEF TokenSound, BusinessToken, Tables

LEMMA OwnRow ==
  ASSUME NEW rows, OwnEmail(rows), NEW i \in DOMAIN rows, NEW email, email = rows[i].email
  PROVE  \A j \in DOMAIN rows : rows[j].email = email => j = i
BY DEF OwnEmail

LEMMA WriteOwnerInv ==
  ASSUME OnboardingInv, NEW r \in Requests, WriteOwner(r)
  PROVE  OnboardingInv'
<1>1. PICK u, email : u = requests[r].user /\ email = requests[r].email
  OBVIOUS
<1>2. /\ At(r, "writeOwner") /\ GoTo(r, "progress") /\ Tally(Own(r))
      /\ UNCHANGED <<businesses, tokens, calls, promoted, contested, moved, stranded, late>>
      /\ users' = IF requests[r].free /\ IdOf(email, users) \in {None, u}
                  THEN [users EXCEPT ![u].email = email] ELSE users
  BY <1>1 DEF WriteOwner, signUpHistory
<1>3. requests[r] \in Request /\ requests[r].step = "writeOwner" /\ u \in DOMAIN users
  BY <1>1, <1>2, BusyStep DEF OnboardingInv, StepSteps
<1>4. Tables /\ users[u] \in User /\ email \in UserEmails
  BY <1>1, <1>3, RequestTyped, RowTyped DEF OnboardingInv, AccountInv, Tables, OwnerRequest
<1>5. InPlace /\ MarksKept
  <2>1. CASE requests[r].free /\ IdOf(email, users) \in {None, u}
    <3>1. PICK row : row = [users[u] EXCEPT !.email = email]
      OBVIOUS
    <3>2. /\ row \in User /\ row.email = email /\ row.role = users[u].role
          /\ row.business = users[u].business /\ row.password = users[u].password
          /\ row.completed = users[u].completed
      BY <1>4, <3>1 DEF User
    <3>3. users' = [users EXCEPT ![u] = row]
      BY <1>2, <1>3, <2>1, <3>1
    <3>4. \A j \in DOMAIN users : users[j].email = row.email => j = u
      <4>1. OwnEmail(users) /\ None \notin DOMAIN users /\ IdOf(email, users) \in {None, u}
        BY <1>4, <2>1, RowTyped DEF Tables
      <4>2. \A j \in DOMAIN users : users[j].email = email => j = u
        BY <4>1, EmailFree
      <4> QED
        BY <3>2, <4>2
    <3> QED
      BY <1>2, <1>3, <1>4, <3>2, <3>3, <3>4, UserEdited
  <2>2. CASE ~(requests[r].free /\ IdOf(email, users) \in {None, u})
    BY <1>2, <1>4, <2>2, NothingEdited
  <2> QED
    BY <2>1, <2>2
<1> QED
  BY <1>2, <1>5, GoneOnInv

LEMMA TwoFactorEdited ==
  ASSUME OnboardingInv, NEW t \in tokens, NEW enabled \in BOOLEAN,
         users' = [users EXCEPT ![t.user].twoFactor = enabled],
         UNCHANGED <<businesses, tokens, promoted, contested, moved, stranded, late>>
  PROVE  InPlace /\ MarksKept
<1>1. PICK u \in DOMAIN users : u = t.user
  BY TokenLinked
<1>2. Tables /\ users[u] \in User
  BY <1>1, TokenLinked
<1>3. PICK row : row = [users[u] EXCEPT !.twoFactor = enabled]
  OBVIOUS
<1>4. /\ row \in User /\ row.email = users[u].email /\ row.role = users[u].role
      /\ row.business = users[u].business /\ row.password = users[u].password
      /\ row.completed = users[u].completed
  BY <1>2, <1>3 DEF User
<1>5. users' = [users EXCEPT ![u] = row]
  BY <1>1, <1>3
<1>6. \A j \in DOMAIN users : users[j].email = row.email => j = u
  BY <1>2, <1>4, OwnRow DEF Tables
<1> QED
  BY <1>2, <1>4, <1>5, <1>6, UserEdited

(* The parts of a business *)
LEMMA PartEdited ==
  ASSUME OnboardingInv, NEW b \in DOMAIN businesses, NEW row,
         businesses' = [businesses EXCEPT ![b] = row], row \in Business,
         row.email = businesses[b].email, row.completed = businesses[b].completed,
         UNCHANGED <<users, tokens, promoted, contested, moved, stranded, late>>
  PROVE  InPlace /\ MarksKept
<1>1. Tables
  BY DEF OnboardingInv, AccountInv
<1>2. \A j \in DOMAIN businesses : businesses[j].email = row.email => j = b
  BY <1>1, OwnRow DEF Tables
<1> QED
  BY <1>1, <1>2, BusinessEdited

LEMMA SaveTwoFactorInv ==
  ASSUME OnboardingInv, NEW r \in Requests, SaveTwoFactor(r)
  PROVE  OnboardingInv'
<1>1. PICK t \in tokens, enabled \in BOOLEAN :
        /\ BeginStep(r, t, "progress") /\ Tally(t.business)
        /\ users' = [users EXCEPT ![t.user].twoFactor = enabled]
        /\ UNCHANGED <<businesses, tokens, promoted, contested, moved, stranded, late>>
  BY DEF SaveTwoFactor, signUpHistory
<1> QED
  BY <1>1, TwoFactorEdited, BegunInv

LEMMA UpdateMfaInv ==
  ASSUME OnboardingInv, UpdateMfa
  PROVE  OnboardingInv'
<1>1. PICK t \in tokens, enabled \in BOOLEAN :
        /\ Call /\ Tally(None)
        /\ users' = [users EXCEPT ![t.user].twoFactor = enabled]
        /\ UNCHANGED <<businesses, tokens, requests, promoted, contested, moved, stranded, late>>
  BY DEF UpdateMfa, signUpHistory
<1> QED
  BY <1>1, TwoFactorEdited, CallInv

LEMMA SaveBusinessInformationInv ==
  ASSUME OnboardingInv, NEW r \in Requests, SaveBusinessInformation(r)
  PROVE  OnboardingInv'
<1>1. PICK t \in tokens :
        /\ BeginStep(r, t, "progress") /\ Tally(t.business)
        /\ businesses' = [businesses EXCEPT ![t.business].info = TRUE]
        /\ UNCHANGED <<users, tokens, promoted, contested, moved, stranded, late>>
  BY DEF SaveBusinessInformation, signUpHistory
<1>2. PICK b \in DOMAIN businesses : b = t.business
  BY <1>1, TokenLinked DEF BeginStep
<1>3. businesses[b] \in Business
  BY <1>1, <1>2, TokenLinked DEF BeginStep
<1>4. PICK row : row = [businesses[b] EXCEPT !.info = TRUE]
  OBVIOUS
<1>5. row \in Business /\ row.email = businesses[b].email /\ row.completed = businesses[b].completed
  BY <1>3, <1>4 DEF Business
<1>6. InPlace /\ MarksKept
  BY <1>1, <1>2, <1>4, <1>5, PartEdited
<1> QED
  BY <1>1, <1>6, BegunInv

LEMMA SaveBuildBusinessInv ==
  ASSUME OnboardingInv, NEW r \in Requests, SaveBuildBusiness(r)
  PROVE  OnboardingInv'
<1>1. PICK t \in tokens, n \in 1..MaxServices, hours \in BOOLEAN :
        /\ BeginStep(r, t, "progress") /\ Tally(t.business)
        /\ businesses' = [businesses EXCEPT ![t.business].services = n, ![t.business].hours = hours]
        /\ UNCHANGED <<users, tokens, promoted, contested, moved, stranded, late>>
  BY DEF SaveBuildBusiness, signUpHistory
<1>2. PICK b \in DOMAIN businesses : b = t.business
  BY <1>1, TokenLinked DEF BeginStep
<1>3. businesses[b] \in Business /\ n \in Nat
  BY <1>1, <1>2, TokenLinked DEF BeginStep
<1>4. PICK row : row = [businesses[b] EXCEPT !.services = n, !.hours = hours]
  OBVIOUS
<1>5. row \in Business /\ row.email = businesses[b].email /\ row.completed = businesses[b].completed
  BY <1>3, <1>4 DEF Business
<1>6. businesses' = [businesses EXCEPT ![b] = row]
  BY <1>1, <1>2, <1>4
<1>7. InPlace /\ MarksKept
  BY <1>1, <1>5, <1>6, PartEdited
<1> QED
  BY <1>1, <1>7, BegunInv

LEMMA SaveBankDetailsInv ==
  ASSUME OnboardingInv, NEW r \in Requests, SaveBankDetails(r)
  PROVE  OnboardingInv'
<1>1. PICK t \in tokens, step \in {"billing", "progress"} :
        /\ BeginStep(r, t, step) /\ Tally(t.business)
        /\ businesses' = [businesses EXCEPT ![t.business].bank = TRUE]
        /\ UNCHANGED <<users, tokens, promoted, contested, moved, stranded, late>>
  BY DEF SaveBankDetails, signUpHistory
<1>2. PICK b \in DOMAIN businesses : b = t.business
  BY <1>1, TokenLinked DEF BeginStep
<1>3. businesses[b] \in Business
  BY <1>1, <1>2, TokenLinked DEF BeginStep
<1>4. PICK row : row = [businesses[b] EXCEPT !.bank = TRUE]
  OBVIOUS
<1>5. row \in Business /\ row.email = businesses[b].email /\ row.completed = businesses[b].completed
  BY <1>3, <1>4 DEF Business
<1>6. InPlace /\ MarksKept
  BY <1>1, <1>2, <1>4, <1>5, PartEdited
<1> QED
  BY <1>1, <1>6, BegunInv

LEMMA CreateBillingAccountInv ==
  ASSUME OnboardingInv, NEW r \in Requests, CreateBillingAccount(r)
  PROVE  OnboardingInv'
<1>1. /\ At(r, "billing") /\ GoTo(r, "progress") /\ Tally(Own(r)) /\ UNCHANGED calls
      /\ businesses' = [businesses EXCEPT ![requests[r].business].billing = TRUE]
      /\ UNCHANGED <<users, tokens, promoted, contested, moved, stranded, late>>
  BY DEF CreateBillingAccount, signUpHistory, Own
<1>2. PICK b \in DOMAIN businesses : b = requests[r].business
  BY <1>1, BusyStep DEF OnboardingInv, StepSteps
<1>3. businesses[b] \in Business
  BY RowTyped DEF OnboardingInv, AccountInv, Tables
<1>4. PICK row : row = [businesses[b] EXCEPT !.billing = TRUE]
  OBVIOUS
<1>5. row \in Business /\ row.email = businesses[b].email /\ row.completed = businesses[b].completed
  BY <1>3, <1>4 DEF Business
<1>6. InPlace /\ MarksKept
  BY <1>1, <1>2, <1>4, <1>5, PartEdited
<1> QED
  BY <1>1, <1>6, GoneOnInv

(* BusinessService's endpoints *)
LEMMA ShopFree ==
  ASSUME Tables, NEW email
  PROVE  \A j \in DOMAIN businesses : businesses[j].email = email => j = IdOf(email, businesses)
<1>1. OwnEmail(businesses) /\ None \notin DOMAIN businesses
  BY RowTyped DEF Tables
<1>2. SUFFICES ASSUME NEW j \in DOMAIN businesses, businesses[j].email = email
               PROVE  j = IdOf(email, businesses)
  OBVIOUS
<1>3. PICK k : k = IdOf(email, businesses)
  OBVIOUS
<1>4. k \in DOMAIN businesses /\ businesses[k].email = email
  BY <1>2, <1>3 DEF IdOf
<1> QED
  BY <1>1, <1>2, <1>3, <1>4 DEF OwnEmail

LEMMA UpdateProfileInv ==
  ASSUME OnboardingInv, UpdateProfile
  PROVE  OnboardingInv'
<1>1. PICK t \in tokens, email \in BusinessEmails, info \in BOOLEAN, hours \in BOOLEAN :
        /\ BusinessToken(t) /\ Call /\ Tally(None)
        /\ IdOf(email, businesses) \in {None, t.business}
        /\ businesses' = [businesses EXCEPT ![t.business].email = email,
                                            ![t.business].info = info,
                                            ![t.business].hours = hours]
        /\ UNCHANGED <<users, tokens, requests, signUpHistory>>
  BY DEF UpdateProfile
<1>2. PICK b \in DOMAIN businesses : b = t.business
  BY <1>1, TokenLinked
<1>3. businesses[b] \in Business /\ Tables
  BY <1>1, <1>2, TokenLinked
<1>4. PICK row : row = [businesses[b] EXCEPT !.email = email, !.info = info, !.hours = hours]
  OBVIOUS
<1>5. row \in Business /\ row.email = email /\ row.completed = businesses[b].completed
  BY <1>3, <1>4 DEF Business
<1>6. businesses' = [businesses EXCEPT ![b] = row]
  BY <1>1, <1>2, <1>4
<1>7. \A j \in DOMAIN businesses : businesses[j].email = row.email => j = b
  <2>1. IdOf(email, businesses) \in {None, b}
    BY <1>1, <1>2
  <2>2. \A j \in DOMAIN businesses : businesses[j].email = email => j = IdOf(email, businesses)
    BY <1>3, ShopFree
  <2>3. \A j \in DOMAIN businesses : j # None
    BY <1>3, RowTyped DEF Tables
  <2> QED
    BY <1>5, <2>1, <2>2, <2>3
<1>8. UNCHANGED <<users, tokens, requests, promoted, contested, moved, stranded, late>>
  BY <1>1 DEF signUpHistory
<1>9. InPlace /\ MarksKept
  BY <1>3, <1>5, <1>6, <1>7, <1>8, BusinessEdited
<1> QED
  BY <1>1, <1>8, <1>9, CallInv

LEMMA ServicesBecomeInv ==
  ASSUME OnboardingInv, NEW t \in tokens, NEW n \in Nat, ServicesBecome(t, n)
  PROVE  OnboardingInv'
<1>1. /\ BusinessToken(t) /\ Call /\ Tally(None)
      /\ businesses' = [businesses EXCEPT ![t.business].services = n]
      /\ UNCHANGED <<users, tokens, requests, promoted, contested, moved, stranded, late>>
  BY DEF ServicesBecome, signUpHistory
<1>2. PICK b \in DOMAIN businesses : b = t.business
  BY <1>1, TokenLinked
<1>3. businesses[b] \in Business
  BY <1>1, <1>2, TokenLinked
<1>4. PICK row : row = [businesses[b] EXCEPT !.services = n]
  OBVIOUS
<1>5. row \in Business /\ row.email = businesses[b].email /\ row.completed = businesses[b].completed
  BY <1>3, <1>4 DEF Business
<1>6. InPlace /\ MarksKept
  BY <1>1, <1>2, <1>4, <1>5, PartEdited
<1> QED
  BY <1>1, <1>6, CallInv

LEMMA ServicesInv ==
  ASSUME OnboardingInv, ReplaceServices \/ CreateService \/ DeleteService
  PROVE  OnboardingInv'
<1>1. CASE ReplaceServices
  BY <1>1, ServicesBecomeInv DEF ReplaceServices
<1>2. CASE CreateService
  <2>1. PICK t \in tokens : BusinessToken(t) /\ ServicesBecome(t, businesses[t.business].services + 1)
    BY <1>2 DEF CreateService
  <2>2. businesses[t.business].services \in Nat
    BY <2>1, TokenLinked DEF Business
  <2> QED
    BY <2>1, <2>2, ServicesBecomeInv
<1>3. CASE DeleteService
  <2>1. PICK t \in tokens :
          /\ BusinessToken(t) /\ businesses[t.business].services > 0
          /\ ServicesBecome(t, businesses[t.business].services - 1)
    BY <1>3 DEF DeleteService
  <2>2. businesses[t.business].services \in Nat
    BY <2>1, TokenLinked DEF Business
  <2>3. businesses[t.business].services - 1 \in Nat
    BY <2>1, <2>2
  <2> QED
    BY <2>1, <2>3, ServicesBecomeInv
<1> QED
  BY <1>1, <1>2, <1>3

-------------------------------------------------------------------------------
(* Steps that leave the parts of every business as they are *)
LEMMA NothingDone ==
  ASSUME OnboardingInv, UNCHANGED <<users, businesses, tokens, promoted, contested, moved, stranded, late>>,
         aside \subseteq aside', undone' = undone, cut \subseteq cut', Noted', StepRequests
  PROVE  OnboardingInv'
<1>1. InPlace /\ MarksKept
  BY NothingEdited DEF OnboardingInv, AccountInv
<1>2. CompletionKept
  BY <1>1, InPlaceKept
<1>3. DoneNoted(None)
  BY SameDone DEF DoneNoted
<1> QED
  BY <1>1, <1>2, <1>3, StepInv

LEMMA OwnerInformationInv ==
  ASSUME OnboardingInv, NEW r \in Requests, OwnerInformation(r)
  PROVE  OnboardingInv'
<1>1. PICK t \in tokens, email \in UserEmails :
        /\ BusinessToken(t)
        /\ Begin(r, [step |-> "writeOwner", user |-> t.user, business |-> t.business,
                     email |-> email, free |-> IdOf(email, users) \in {None, t.user}])
        /\ UNCHANGED <<users, businesses, tokens, promoted, contested, moved, stranded, late>>
        /\ UNCHANGED <<aside, undone, cut>>
  BY DEF OwnerInformation, signUpHistory, onboardingVars
<1>2. PICK req : req = [step |-> "writeOwner", user |-> t.user, business |-> t.business,
                        email |-> email, free |-> IdOf(email, users) \in {None, t.user}]
  OBVIOUS
<1>3. /\ req.step = "writeOwner" /\ req.user = t.user /\ req.business = t.business
      /\ ~Busy(r) /\ calls < MaxCalls /\ calls' = calls + 1
      /\ requests' = [requests EXCEPT ![r] = req]
  BY <1>1, <1>2 DEF Begin
<1>4. t.user \in DOMAIN users /\ t.business \in DOMAIN businesses /\ t \in Claims
  BY <1>1 DEF OnboardingInv, AccountInv, TokenSound, BusinessToken
<1>5. req \in OwnerRequest
  <2>1. (IdOf(email, users) \in {None, t.user}) \in BOOLEAN
    OBVIOUS
  <2> QED
    BY <1>2, <1>4, <2>1 DEF OwnerRequest, Claims, StepSteps
<1>6. req \in Request /\ RequestSound(req)
  BY <1>3, <1>4, <1>5 DEF RequestSound, Request, StepSteps, ResumeSteps, SignUpSteps
<1>7. calls' \in 0..MaxCalls /\ requests \in [Requests -> Request]
  BY <1>3, SignUpAssumption DEF OnboardingInv, AccountInv, HistoryTyped
<1>8. /\ requests' \in [Requests -> Request] /\ requests'[r] = req
      /\ \A q \in Requests \ {r} : requests'[q] = requests[q]
  BY <1>3, <1>6, <1>7
<1>9. SlotMoves(r)
  BY <1>3, <1>8 DEF SlotMoves, At, MarkSound
<1>10. StepRequests
  BY <1>3, <1>6, <1>7, <1>8, <1>9 DEF StepRequests, At
<1>11. Noted'
  BY <1>1 DEF OnboardingInv, AccountInv, Noted
<1> QED
  BY <1>1, <1>10, <1>11, NothingDone

LEMMA ProgressInv ==
  ASSUME OnboardingInv, NEW r \in Requests, Progress(r)
  PROVE  OnboardingInv'
<1>1. /\ At(r, "progress")
      /\ UNCHANGED <<users, businesses, tokens, calls, promoted, contested, moved, stranded, late>>
      /\ UNCHANGED <<aside, undone, cut>>
  BY DEF Progress, signUpHistory, onboardingVars
<1>2. PICK seen \in Looks(Own(r)) :
        IF MissingRequirements(Own(r), seen) = {} THEN GoTo(r, "markBusiness") ELSE Answer(r)
  BY DEF Progress
<1>3. Own(r) \in DOMAIN businesses
  BY <1>1, BusyStep DEF OnboardingInv, Own, StepSteps
<1>4. Noted' /\ AllDone' = AllDone /\ SureDone' = SureDone
  BY <1>1, SameDone DEF OnboardingInv, AccountInv, Noted
<1>5. /\ requests' \in [Requests -> Request] /\ RequestSound(requests'[r]) /\ SlotMoves(r)
      /\ \A q \in Requests \ {r} : requests'[q] = requests[q]
  <2>1. CASE MissingRequirements(Own(r), seen) = {}
    <3>1. /\ requests' \in [Requests -> Request]
          /\ \A q \in Requests \ {r} : requests'[q] = requests[q]
          /\ RequestSound(requests'[r]) /\ requests'[r] # Idle
          /\ requests'[r].step = "markBusiness" /\ requests'[r].business = requests[r].business
      BY <1>1, <1>2, <2>1, StepGoesOn DEF OnboardingInv, StepSteps
    <3>2. Own(r) \in AllDone
      BY <1>3, <2>1, SeenMissing
    <3>3. SlotMoves(r)
      BY <1>1, <1>4, <3>1, <3>2 DEF SlotMoves, At, MarkSound, Busy, StepSteps, Own
    <3> QED
      BY <3>1, <3>3
  <2>2. CASE MissingRequirements(Own(r), seen) # {}
    <3>1. /\ requests' \in [Requests -> Request] /\ requests'[r] = Idle
          /\ RequestSound(requests'[r])
          /\ \A q \in Requests \ {r} : requests'[q] = requests[q]
      BY <1>2, <2>2, SlotAnswered DEF OnboardingInv
    <3>2. Own(r) \notin SureDone
      BY <1>3, <2>2, SeenMissing
    <3>3. SlotMoves(r)
      BY <1>1, <1>4, <3>1, <3>2 DEF SlotMoves, At, MarkSound, Own, Idle
    <3> QED
      BY <3>1, <3>3
  <2> QED
    BY <2>1, <2>2
<1>6. StepRequests
  BY <1>1, <1>5 DEF StepRequests, At, OnboardingInv, AccountInv, HistoryTyped
<1> QED
  BY <1>1, <1>4, <1>6, NothingDone

LEMMA SubmitInv ==
  ASSUME OnboardingInv, NEW r \in Requests, Submit(r)
  PROVE  OnboardingInv'
<1>1. PICK t \in tokens :
        /\ BeginStep(r, t, "markBusiness")
        /\ \E seen \in Looks(t.business) : MissingRequirements(t.business, seen) = {}
        /\ UNCHANGED <<users, businesses, tokens, promoted, contested, moved, stranded, late>>
        /\ UNCHANGED <<aside, undone, cut>>
  BY DEF Submit, signUpHistory, onboardingVars
<1>2. /\ calls' \in 0..MaxCalls /\ requests' \in [Requests -> Request] /\ ~Busy(r)
      /\ \A q \in Requests \ {r} : requests'[q] = requests[q]
      /\ RequestSound(requests'[r]) /\ requests'[r].step = "markBusiness"
      /\ requests'[r].business = t.business /\ t.business \in DOMAIN businesses
  BY <1>1, StepBegun DEF OnboardingInv, StepSteps
<1>3. Noted' /\ AllDone' = AllDone
  BY <1>1, SameDone DEF OnboardingInv, AccountInv, Noted
<1>4. t.business \in AllDone
  BY <1>1, <1>2, SeenMissing
<1>5. SlotMoves(r)
  BY <1>1, <1>2, <1>3, <1>4 DEF SlotMoves, At, MarkSound
<1>6. StepRequests
  BY <1>2, <1>5 DEF StepRequests, At
<1> QED
  BY <1>1, <1>3, <1>6, NothingDone

LEMMA AbandonStepInv ==
  ASSUME OnboardingInv, NEW r \in Requests, AbandonStep(r)
  PROVE  OnboardingInv'
<1>1. /\ Busy(r) /\ requests[r].step \in StepSteps /\ Answer(r)
      /\ aside' = aside \cup {requests[r].business}
      /\ cut' = IF At(r, "markUsers") THEN cut \cup {requests[r].business} ELSE cut
      /\ UNCHANGED <<users, businesses, tokens, calls, promoted, contested, moved, stranded, late>>
      /\ UNCHANGED undone
  BY DEF AbandonStep, signUpHistory, Own, StepSteps
<1>2. /\ requests[r].business \in DOMAIN businesses
      /\ requests' \in [Requests -> Request] /\ requests'[r] = Idle
      /\ RequestSound(requests'[r])
      /\ \A q \in Requests \ {r} : requests'[q] = requests[q]
  BY <1>1, SlotAnswered DEF OnboardingInv, AccountInv, RequestSound
<1>3. Noted'
  BY <1>1, <1>2 DEF OnboardingInv, AccountInv, Noted
<1>4. SlotMoves(r)
  BY <1>1, <1>2 DEF SlotMoves, MarkSound, Idle
<1>5. StepRequests
  BY <1>1, <1>2, <1>4 DEF StepRequests, At, OnboardingInv, AccountInv, HistoryTyped, StepSteps
<1> QED
  BY <1>1, <1>3, <1>5, NothingDone

(* The two marks of a submit *)
LEMMA MarkBusinessInv ==
  ASSUME OnboardingInv, NEW r \in Requests, MarkBusiness(r)
  PROVE  OnboardingInv'
<1>1. PICK b : b = requests[r].business
  OBVIOUS
<1>2. /\ At(r, "markBusiness") /\ GoTo(r, "markUsers")
      /\ businesses' = [businesses EXCEPT ![b].completed = TRUE]
      /\ UNCHANGED <<users, tokens, calls, promoted, contested, moved, stranded, late>>
      /\ UNCHANGED <<aside, undone, cut>>
  BY <1>1 DEF MarkBusiness, signUpHistory, onboardingVars, Own
<1>3. b \in DOMAIN businesses /\ b \in AllDone \cup undone
  <2>1. requests[r].step = "markBusiness" /\ MarkSound(requests[r])
    BY <1>2 DEF OnboardingInv, CompletionInv, At
  <2> QED
    BY <1>1, <1>2, <2>1, BusyStep DEF OnboardingInv, MarkSound, StepSteps
<1>4. Tables /\ businesses[b] \in Business /\ businesses \in Seq(Business)
  BY <1>3, RowTyped DEF OnboardingInv, AccountInv, Tables
<1>5. PICK row : row = [businesses[b] EXCEPT !.completed = TRUE]
  OBVIOUS
<1>6. /\ row \in Business /\ row.email = businesses[b].email /\ row.completed
      /\ row.info = businesses[b].info /\ row.hours = businesses[b].hours
      /\ row.services = businesses[b].services /\ row.bank = businesses[b].bank
  BY <1>4, <1>5 DEF Business
<1>7. /\ businesses' \in Seq(Business) /\ DOMAIN businesses' = DOMAIN businesses
      /\ businesses'[b] = row /\ \A x \in DOMAIN businesses : x # b => businesses'[x] = businesses[x]
  <2>1. businesses' = [businesses EXCEPT ![b] = row]
    BY <1>2, <1>5
  <2> QED
    BY <1>3, <1>4, <1>6, <2>1, RowPut
<1>8. InPlace
  BY <1>2, <1>4, <1>6, <1>7 DEF InPlace, Tables, OwnEmail
<1>9. /\ requests' \in [Requests -> Request]
      /\ \A q \in Requests \ {r} : requests'[q] = requests[q]
      /\ RequestSound(requests'[r]) /\ requests'[r] # Idle
      /\ requests'[r].step = "markUsers" /\ requests'[r].business = b
  BY <1>1, <1>2, StepGoesOn DEF OnboardingInv, StepSteps
<1>10. At(r, "markUsers")' /\ requests'[r].business = b
  BY <1>9 DEF At, Busy, Idle
<1>11. CompletionKept
  BY <1>2, <1>3, <1>6, <1>7, <1>10 DEF CompletionKept
<1>12. AllDone' = AllDone /\ SureDone' = SureDone
  BY <1>2, <1>6, <1>7, AllDoneSame
<1>13. Noted' /\ DoneNoted(None)
  BY <1>2, <1>7, <1>12 DEF OnboardingInv, AccountInv, Noted, DoneNoted
<1>14. SlotMoves(r)
  BY <1>1, <1>2, <1>6, <1>7, <1>9 DEF SlotMoves, At, MarkSound
<1>15. StepRequests
  BY <1>2, <1>9, <1>14 DEF StepRequests, At, OnboardingInv, AccountInv, HistoryTyped
<1> QED
  BY <1>8, <1>11, <1>13, <1>15, StepInv

LEMMA MarkUsersInv ==
  ASSUME OnboardingInv, NEW r \in Requests, MarkUsers(r)
  PROVE  OnboardingInv'
<1>1. PICK b : b = requests[r].business
  OBVIOUS
<1>2. /\ At(r, "markUsers") /\ Answer(r)
      /\ users' = [u \in DOMAIN users |->
           IF u \in Members(b) THEN [users[u] EXCEPT !.completed = TRUE] ELSE users[u]]
      /\ UNCHANGED <<businesses, tokens, calls, promoted, contested, moved, stranded, late>>
      /\ UNCHANGED <<aside, undone, cut>>
  BY <1>1 DEF MarkUsers, signUpHistory, onboardingVars, Own
<1>3. b \in DOMAIN businesses /\ businesses[b].completed
  <2>1. requests[r].step = "markUsers" /\ MarkSound(requests[r])
    BY <1>2 DEF OnboardingInv, CompletionInv, At
  <2> QED
    BY <1>1, <1>2, <2>1, BusyStep DEF OnboardingInv, MarkSound, StepSteps
<1>4. Tables /\ users \in Seq(User) /\ b # None
  BY <1>3, RowTyped DEF OnboardingInv, AccountInv, Tables
<1>5. ASSUME NEW u \in DOMAIN users
      PROVE  /\ users'[u] \in User /\ users'[u].email = users[u].email
             /\ users'[u].role = users[u].role /\ users'[u].business = users[u].business
             /\ users'[u].password = users[u].password
             /\ users'[u].twoFactor = users[u].twoFactor
             /\ users'[u].completed = (u \in Members(b) \/ users[u].completed)
  <2>1. users[u] \in User
    BY <1>4, RowTyped
  <2>2. PICK row : row = [users[u] EXCEPT !.completed = TRUE]
    OBVIOUS
  <2>3. /\ row \in User /\ row.email = users[u].email /\ row.role = users[u].role
        /\ row.business = users[u].business /\ row.password = users[u].password
        /\ row.twoFactor = users[u].twoFactor /\ row.completed = TRUE
    BY <2>1, <2>2 DEF User
  <2>4. CASE u \in Members(b)
    BY <1>2, <2>2, <2>3, <2>4
  <2>5. CASE u \notin Members(b)
    <3>1. users'[u] = users[u]
      BY <1>2, <2>5
    <3>2. users[u].completed \in BOOLEAN
      BY <2>1 DEF User
    <3> QED
      BY <2>1, <2>5, <3>1, <3>2
  <2> QED
    BY <2>4, <2>5
<1>6. DOMAIN users' = DOMAIN users /\ users' \in Seq(User)
  <2>1. DOMAIN users = 1..Len(users) /\ Len(users) \in Nat
    BY <1>4, LenProperties
  <2>2. DOMAIN users' = DOMAIN users
    BY <1>2
  <2>3. users' \in [1..Len(users) -> User]
    BY <1>2, <1>5, <2>1, <2>2
  <2> QED
    BY <2>1, <2>2, <2>3, SeqDef
<1>7. InPlace
  BY <1>2, <1>4, <1>5, <1>6 DEF InPlace, Tables, OwnEmail
<1>8. \A u \in DOMAIN users : users[u].completed \in BOOLEAN /\ (u \in Members(b) => users[u].business = b)
  <2>1. \A u \in DOMAIN users : users[u] \in User
    BY <1>4, RowTyped
  <2> QED
    BY <2>1 DEF User, Members
<1>9. CompletionKept
  BY <1>2, <1>3, <1>4, <1>5, <1>6, <1>8 DEF CompletionKept
<1>10. AllDone' = AllDone /\ SureDone' = SureDone
  BY <1>2, <1>5, <1>6, AllDoneSame
<1>11. Noted' /\ DoneNoted(None)
  BY <1>2, <1>10 DEF OnboardingInv, AccountInv, Noted, DoneNoted
<1>12. /\ requests' \in [Requests -> Request] /\ requests'[r] = Idle
       /\ RequestSound(requests'[r])
       /\ \A q \in Requests \ {r} : requests'[q] = requests[q]
  BY <1>2, SlotAnswered DEF OnboardingInv
<1>13. \A u \in DOMAIN users' : users'[u].business = b => users'[u].completed
  BY <1>5, <1>6, <1>8 DEF Members
<1>14. SlotMoves(r)
  BY <1>1, <1>2, <1>3, <1>12, <1>13 DEF SlotMoves, MarkSound, Idle
<1>15. StepRequests
  BY <1>2, <1>12, <1>14 DEF StepRequests, At, OnboardingInv, AccountInv, HistoryTyped
<1> QED
  BY <1>7, <1>9, <1>11, <1>15, StepInv

-------------------------------------------------------------------------------
(* Sign-ups complete nobody, and pass no step of the onboarding by. *)
LEMMA RowsKept ==
  ASSUME UNCHANGED <<users, businesses, moved, late>>, cut' = cut
  PROVE  CompletionKept
BY DEF CompletionKept

LEMMA UserJoined ==
  ASSUME users \in Seq(User), NEW row \in User, users' = Append(users, row), ~row.completed,
         DOMAIN businesses \subseteq DOMAIN businesses',
         \A b \in DOMAIN businesses : businesses'[b].completed = businesses[b].completed,
         \A b \in DOMAIN businesses' : b \in DOMAIN businesses \/ ~businesses'[b].completed,
         \/ row.business = None \/ ~businesses'[row.business].completed
         \/ Len(users) + 1 \in late',
         UNCHANGED moved, late \subseteq late', cut' = cut
  PROVE  CompletionKept
<1>1. PICK n : n = Len(users) + 1
  OBVIOUS
<1>2. /\ DOMAIN users' = DOMAIN users \cup {n} /\ users'[n] = row
      /\ \A u \in DOMAIN users : users'[u] = users[u]
  BY <1>1, RowAdded
<1> QED
  BY <1>1, <1>2 DEF CompletionKept

LEMMA SlotChanged ==
  ASSUME AccountInv, NEW r \in Requests, NEW req, requests' = [requests EXCEPT ![r] = req],
         req.step \notin {"markBusiness", "markUsers"},
         Busy(r) => requests[r].step \notin StepSteps
  PROVE  \A q \in Requests : requests'[q] = requests[q] \/ SlotMoves(q)
<1>1. requests'[r] = req /\ \A q \in Requests \ {r} : requests'[q] = requests[q]
  BY DEF AccountInv
<1>2. SlotMoves(r)
  BY <1>1 DEF SlotMoves, MarkSound, At, StepSteps
<1> QED
  BY <1>1, <1>2

LEMMA SlotAnswers ==
  ASSUME AccountInv, NEW r \in Requests, Answer(r), Busy(r) => requests[r].step \notin StepSteps
  PROVE  \A q \in Requests : requests'[q] = requests[q] \/ SlotMoves(q)
BY SlotChanged DEF Answer, Idle

LEMMA SlotStep ==
  ASSUME AccountInv, NEW r \in Requests, NEW step \in ResumeSteps, At(r, step)
  PROVE  requests[r] \in SignUpRequest /\ requests[r].step \notin StepSteps
BY BusyStep DEF At, ResumeSteps, SignUpSteps, StepSteps

LEMMA SignUpSlots ==
  ASSUME AccountInv, NEW r \in Requests,
         SignUpBusiness(r) \/ SignUpClient(r) \/ SignUpStep(r) \/ AbandonSignUp(r)
  PROVE  \A q \in Requests : requests'[q] = requests[q] \/ SlotMoves(q)
<1>1. CASE SignUpBusiness(r)
  <2>1. PICK email \in UserEmails, shop \in BusinessEmails, given \in Passwords :
        \E candidate \in Candidates(IdOf(shop, businesses)) :
          Begin(r, [step |-> "findOwner", email |-> email, shop |-> shop, given |-> given,
                    business |-> IdOf(shop, businesses), candidate |-> candidate,
                    owner |-> NoUser, created |-> FALSE])
    BY <1>1 DEF SignUpBusiness
  <2>2. PICK req : Begin(r, req) /\ req.step = "findOwner"
    BY <2>1
  <2> QED
    BY <2>2, SlotChanged DEF Begin
<1>2. CASE SignUpClient(r)
  <2>1. PICK email \in UserEmails, given \in Passwords :
          \/ UNCHANGED requests
          \/ Begin(r, [step |-> "findClient", email |-> email, given |-> given])
    BY <1>2 DEF SignUpClient
  <2>2. CASE UNCHANGED requests
    BY <2>2
  <2>3. CASE Begin(r, [step |-> "findClient", email |-> email, given |-> given])
    <3>1. PICK req : Begin(r, req) /\ req.step = "findClient"
      BY <2>3
    <3> QED
      BY <3>1, SlotChanged DEF Begin
  <2> QED
    BY <2>1, <2>2, <2>3
<1>3. CASE FindOwner(r)
  <2>1. At(r, "findOwner") /\ requests[r] \in SignUpRequest /\ requests[r].step \notin StepSteps
    BY <1>3, SlotStep DEF FindOwner, ResumeSteps, SignUpSteps
  <2>2. PICK owner, step :
          /\ step \in {"findOwnerAgain", "create", "decide", "findBusinessAgain"}
          /\ requests' = [requests EXCEPT ![r].owner = owner, ![r].step = step]
    BY <1>3 DEF FindOwner
  <2>3. PICK req : req = [requests[r] EXCEPT !.owner = owner, !.step = step]
    OBVIOUS
  <2>4. req.step = step /\ requests' = [requests EXCEPT ![r] = req]
    BY <2>1, <2>2, <2>3 DEF AccountInv, SignUpRequest
  <2> QED
    BY <2>1, <2>2, <2>4, SlotChanged
<1>4. CASE CreateBusinessAndOwner(r)
  <2>1. At(r, "create") /\ requests[r] \in SignUpRequest /\ requests[r].step \notin StepSteps
    BY <1>4, SlotStep DEF CreateBusinessAndOwner, ResumeSteps, SignUpSteps
  <2>2. CASE Answer(r)
    BY <2>1, <2>2, SlotAnswers
  <2>3. CASE GoTo(r, "findBusinessAgain")
    <3>1. PICK req : req = [requests[r] EXCEPT !.step = "findBusinessAgain"]
      OBVIOUS
    <3>2. req.step = "findBusinessAgain" /\ requests' = [requests EXCEPT ![r] = req]
      BY <2>1, <2>3, <3>1 DEF AccountInv, SignUpRequest, GoTo
    <3> QED
      BY <2>1, <3>2, SlotChanged
  <2> QED
    BY <1>4, <2>2, <2>3 DEF CreateBusinessAndOwner
<1>5. CASE FindBusinessAgain(r)
  <2>1. /\ At(r, "findBusinessAgain") /\ requests[r] \in SignUpRequest
        /\ requests[r].step \notin StepSteps
    BY <1>5, SlotStep DEF FindBusinessAgain, ResumeSteps, SignUpSteps
  <2>2. PICK b, candidate, step :
          /\ step \in {"findOwnerAgain", "decide"}
          /\ requests' = [requests EXCEPT ![r].business = b, ![r].candidate = candidate,
                                          ![r].step = step]
    BY <1>5 DEF FindBusinessAgain
  <2>3. PICK req : req = [requests[r] EXCEPT !.business = b, !.candidate = candidate, !.step = step]
    OBVIOUS
  <2>4. req.step = step /\ requests' = [requests EXCEPT ![r] = req]
    BY <2>1, <2>2, <2>3 DEF AccountInv, SignUpRequest
  <2> QED
    BY <2>1, <2>2, <2>4, SlotChanged
<1>6. CASE FindOwnerAgain(r)
  <2>1. /\ At(r, "findOwnerAgain") /\ requests[r] \in SignUpRequest
        /\ requests[r].step \notin StepSteps
    BY <1>6, SlotStep DEF FindOwnerAgain, ResumeSteps, SignUpSteps
  <2>2. PICK owner : requests' = [requests EXCEPT ![r].owner = owner, ![r].step = "decide"]
    BY <1>6 DEF FindOwnerAgain
  <2>3. PICK req : req = [requests[r] EXCEPT !.owner = owner, !.step = "decide"]
    OBVIOUS
  <2>4. req.step = "decide" /\ requests' = [requests EXCEPT ![r] = req]
    BY <2>1, <2>2, <2>3 DEF AccountInv, SignUpRequest
  <2> QED
    BY <2>1, <2>4, SlotChanged
<1>7. CASE CreateOwner(r) \/ Refuse(r)
  <2>1. At(r, "decide") /\ Answer(r)
    BY <1>7 DEF CreateOwner, Refuse
  <2> QED
    BY <2>1, SlotStep, SlotAnswers DEF ResumeSteps, SignUpSteps
<1>8. CASE CreateBusinessOnly(r)
  <2>1. At(r, "decide") /\ requests[r] \in SignUpRequest /\ requests[r].step \notin StepSteps
    BY <1>8, SlotStep DEF CreateBusinessOnly, ResumeSteps, SignUpSteps
  <2>2. CASE Answer(r)
    BY <2>1, <2>2, SlotAnswers
  <2>3. ASSUME NEW n, requests' = [requests EXCEPT ![r].business = n, ![r].created = TRUE,
                                                  ![r].step = "link"]
        PROVE  \A q \in Requests : requests'[q] = requests[q] \/ SlotMoves(q)
    <3>1. PICK req : req = [requests[r] EXCEPT !.business = n, !.created = TRUE, !.step = "link"]
      OBVIOUS
    <3>2. req.step = "link" /\ requests' = [requests EXCEPT ![r] = req]
      BY <2>1, <2>3, <3>1 DEF AccountInv, SignUpRequest
    <3> QED
      BY <2>1, <3>2, SlotChanged
  <2> QED
    BY <1>8, <2>2, <2>3 DEF CreateBusinessOnly
<1>9. CASE Link(r) \/ KeepBusiness(r)
  <2>1. (At(r, "link") \/ At(r, "decide")) /\ Answer(r)
    BY <1>9 DEF Link, KeepBusiness, HasBusiness
  <2> QED
    BY <2>1, SlotStep, SlotAnswers DEF ResumeSteps, SignUpSteps
<1>10. CASE FindClient(r) \/ AbandonSignUp(r)
  <2>1. requests[r].step \in SignUpSteps /\ Answer(r)
    BY <1>10 DEF FindClient, AbandonSignUp, At, SignUpSteps
  <2> QED
    BY <2>1, SlotAnswers DEF SignUpSteps, StepSteps
<1> QED
  BY <1>1, <1>2, <1>3, <1>4, <1>5, <1>6, <1>7, <1>8, <1>9, <1>10 DEF SignUpStep

LEMMA CreateBusinessAndOwnerKept ==
  ASSUME AccountInv, NEW r \in Requests, CreateBusinessAndOwner(r), cut' = cut
  PROVE  CompletionKept
<1>1. At(r, "create") /\ UNCHANGED <<promoted, contested, moved, stranded, late>>
  BY DEF CreateBusinessAndOwner
<1>2. requests[r] \in SignUpRequest /\ users \in Seq(User)
  BY <1>1, BusyStep DEF AccountInv, Tables, ResumeSteps, SignUpSteps
<1>3. PICK email \in UserEmails, shop \in BusinessEmails, given \in Passwords :
        email = requests[r].email /\ shop = requests[r].shop /\ given = requests[r].given
  BY <1>2 DEF SignUpRequest
<1>4. CASE IdOf(email, users) = None /\ IdOf(shop, businesses) = None
  <2>1. PICK n : n = Len(businesses) + 1
    OBVIOUS
  <2>2. /\ businesses' = Append(businesses, NewBusiness(shop))
        /\ users' = Append(users, NewUser(email, given, "business", n))
    BY <1>3, <1>4, <2>1 DEF CreateBusinessAndOwner
  <2>3. /\ DOMAIN businesses' = DOMAIN businesses \cup {n} /\ n \in Nat
        /\ businesses'[n] = NewBusiness(shop)
        /\ \A b \in DOMAIN businesses : businesses'[b] = businesses[b]
    BY <1>4, <2>1, <2>2, BusinessAdded
  <2>4. ~businesses'[n].completed
    BY <2>3 DEF NewBusiness
  <2>5. PICK row : row = NewUser(email, given, "business", n)
    OBVIOUS
  <2>6. row \in User /\ ~row.completed /\ row.business = n
    BY <2>3, <2>5 DEF NewUser, User
  <2>7. users' = Append(users, row)
    BY <2>2, <2>5
  <2> QED
    BY <1>1, <1>2, <2>3, <2>4, <2>6, <2>7, UserJoined
<1>5. CASE ~(IdOf(email, users) = None /\ IdOf(shop, businesses) = None)
  BY <1>1, <1>3, <1>5, RowsKept DEF CreateBusinessAndOwner
<1> QED
  BY <1>4, <1>5

LEMMA CreateOwnerKept ==
  ASSUME AccountInv, NEW r \in Requests, CreateOwner(r), cut' = cut
  PROVE  CompletionKept
<1>1. /\ At(r, "decide") /\ requests[r].business # None
      /\ UNCHANGED <<businesses, promoted, contested, moved, stranded>>
  BY DEF CreateOwner
<1>2. /\ requests[r] \in SignUpRequest /\ requests[r].business \in DOMAIN businesses
      /\ users \in Seq(User) /\ businesses \in Seq(Business)
  BY <1>1, BusyStep DEF AccountInv, Tables, ResumeSteps, SignUpSteps, ResumeSound
<1>3. PICK email \in UserEmails, given \in Passwords, b \in DOMAIN businesses :
        email = requests[r].email /\ b = requests[r].business /\ given = requests[r].given
  BY <1>2 DEF SignUpRequest
<1>4. CASE IdOf(email, users) = None
  <2>1. /\ users' = Append(users, NewUser(email, given, "business", b))
        /\ late' = IF businesses[b].completed THEN late \cup {Len(users) + 1} ELSE late
    BY <1>3, <1>4 DEF CreateOwner
  <2>2. PICK row : row = NewUser(email, given, "business", b)
    OBVIOUS
  <2>3. b \in Nat
    BY <1>2, RowTyped
  <2>4. row \in User /\ ~row.completed /\ row.business = b
    BY <2>2, <2>3 DEF NewUser, User
  <2>5. users' = Append(users, row)
    BY <2>1, <2>2
  <2>6. late \subseteq late' /\ (~businesses'[row.business].completed \/ Len(users) + 1 \in late')
    BY <1>1, <2>1, <2>4
  <2> QED
    BY <1>1, <1>2, <2>4, <2>5, <2>6, UserJoined
<1>5. CASE IdOf(email, users) # None
  BY <1>1, <1>3, <1>5, RowsKept DEF CreateOwner
<1> QED
  BY <1>4, <1>5

LEMMA CreateBusinessOnlyKept ==
  ASSUME AccountInv, NEW r \in Requests, CreateBusinessOnly(r), cut' = cut
  PROVE  CompletionKept
<1>1. At(r, "decide") /\ UNCHANGED <<users, moved, late>>
  BY DEF CreateBusinessOnly
<1>2. requests[r] \in SignUpRequest /\ Tables
  BY <1>1, BusyStep DEF AccountInv, ResumeSteps, SignUpSteps
<1>3. PICK shop \in BusinessEmails : shop = requests[r].shop
  BY <1>2 DEF SignUpRequest
<1>4. CASE IdOf(shop, businesses) = None
  <2>1. PICK n : n = Len(businesses) + 1
    OBVIOUS
  <2>2. businesses' = Append(businesses, NewBusiness(shop))
    BY <1>3, <1>4 DEF CreateBusinessOnly
  <2>3. /\ DOMAIN businesses' = DOMAIN businesses \cup {n}
        /\ businesses'[n] = NewBusiness(shop)
        /\ \A b \in DOMAIN businesses : businesses'[b] = businesses[b]
    BY <1>4, <2>1, <2>2, BusinessAdded
  <2>4. ~businesses'[n].completed
    BY <2>3 DEF NewBusiness
  <2> QED
    BY <1>1, <2>3, <2>4 DEF CompletionKept
<1>5. CASE IdOf(shop, businesses) # None
  BY <1>1, <1>3, <1>5, RowsKept DEF CreateBusinessOnly
<1> QED
  BY <1>4, <1>5

LEMMA SignUpClientKept ==
  ASSUME AccountInv, NEW r \in Requests, SignUpClient(r), cut' = cut
  PROVE  CompletionKept
<1>1. PICK email \in UserEmails, given \in Passwords :
        /\ \/ users' = Append(users, NewUser(email, given, "client", None))
           \/ users' = users
        /\ UNCHANGED <<businesses, promoted, contested, moved, stranded, late>>
  BY DEF SignUpClient
<1>2. CASE users' = Append(users, NewUser(email, given, "client", None))
  <2>1. PICK row : row = NewUser(email, given, "client", None)
    OBVIOUS
  <2>2. row \in User /\ ~row.completed /\ row.business = None
    BY <2>1 DEF NewUser, User, None
  <2>3. users' = Append(users, row) /\ users \in Seq(User)
    BY <1>2, <2>1 DEF AccountInv, Tables
  <2> QED
    BY <1>1, <2>2, <2>3, UserJoined
<1>3. CASE users' = users
  BY <1>1, <1>3, RowsKept
<1> QED
  BY <1>1, <1>2, <1>3

LEMMA LinkKept ==
  ASSUME AccountInv, NEW r \in Requests, Link(r), cut' = cut
  PROVE  CompletionKept
<1>1. PICK s, b : s = Resumed(r) /\ b = requests[r].business
  OBVIOUS
<1>2. HasBusiness(r) /\ ~Owned(s)
  BY <1>1 DEF Link
<1>3. s.id \in DOMAIN users /\ b \in DOMAIN businesses /\ Tables
  BY <1>1, <1>2, BusinessAtHand DEF AccountInv
<1>4. PICK u \in DOMAIN users : u = s.id
  BY <1>3
<1>5. PICK left : left = users[u].business
  OBVIOUS
<1>6. /\ users' = [users EXCEPT ![u].role = "business", ![u].business = b]
      /\ moved' = IF left \in {None, b} THEN moved ELSE moved \cup {u}
      /\ late' = IF businesses[b].completed THEN late \cup {u} ELSE late
      /\ UNCHANGED businesses
  BY <1>1, <1>4, <1>5 DEF Link
<1>7. users[u] \in User /\ users \in Seq(User)
  BY <1>3, <1>4, RowTyped DEF Tables
<1>8. PICK row : row = [users[u] EXCEPT !.role = "business", !.business = b]
  OBVIOUS
<1>9. row.business = b /\ row.completed = users[u].completed
  BY <1>7, <1>8 DEF User
<1>10. users' = [users EXCEPT ![u] = row]
  BY <1>6, <1>8
<1>11. /\ DOMAIN users' = DOMAIN users /\ users'[u] = row
       /\ \A x \in DOMAIN users : x # u => users'[x] = users[x]
  BY <1>10
<1> QED
  BY <1>5, <1>6, <1>9, <1>11 DEF CompletionKept

LEMMA SignUpKept ==
  ASSUME AccountInv, SignUpAction, cut' = cut
  PROVE  CompletionKept
<1>1. CASE SignIn
  BY <1>1, RowsKept DEF SignIn
<1>2. ASSUME NEW r \in Requests, SignUpBusiness(r) \/ SignUpClient(r) \/ SignUpStep(r) \/ AbandonSignUp(r)
      PROVE  CompletionKept
  <2>1. CASE SignUpBusiness(r)
    BY <2>1, RowsKept DEF SignUpBusiness
  <2>2. CASE FindOwner(r) \/ FindBusinessAgain(r) \/ FindOwnerAgain(r)
    BY <2>2, RowsKept DEF FindOwner, FindBusinessAgain, FindOwnerAgain
  <2>3. CASE Refuse(r) \/ KeepBusiness(r) \/ FindClient(r) \/ AbandonSignUp(r)
    BY <2>3, RowsKept DEF Refuse, KeepBusiness, FindClient, AbandonSignUp
  <2> QED
    BY <1>2, <2>1, <2>2, <2>3, CreateBusinessAndOwnerKept, CreateOwnerKept,
       CreateBusinessOnlyKept, SignUpClientKept, LinkKept DEF SignUpStep
<1> QED
  BY <1>1, <1>2 DEF SignUpAction

LEMMA SignUpAccount ==
  ASSUME AccountInv, SignUpAction, Noted'
  PROVE  AccountInv'
<1>1. CASE SignIn
  BY <1>1, SignInAccount
<1>2. ASSUME NEW r \in Requests, SignUpBusiness(r) \/ SignUpClient(r) \/ SignUpStep(r) \/ AbandonSignUp(r)
      PROVE  AccountInv'
  BY <1>2, SignUpBusinessAccount, SignUpClientAccount, FindOwnerAccount,
     CreateBusinessAndOwnerAccount, FindBusinessAgainAccount, FindOwnerAgainAccount,
     CreateOwnerAccount, RefuseAccount, CreateBusinessOnlyAccount, LinkAccount,
     KeepBusinessAccount, FindClientAccount, AbandonSignUpAccount DEF SignUpStep
<1> QED
  BY <1>1, <1>2 DEF SignUpAction

LEMMA SignUpInv ==
  ASSUME OnboardingInv, SignUpAction, Tally(None)
  PROVE  OnboardingInv'
<1>1. AccountInv /\ CompletionInv /\ cut' = cut
  BY DEF OnboardingInv, Tally
<1>2. CompletionKept
  BY <1>1, SignUpKept
<1>3. Noted'
  BY <1>1, <1>2, TallyNoted DEF AccountInv, CompletionKept
<1>4. AccountInv'
  BY <1>1, <1>3, SignUpAccount
<1>5. \A q \in Requests : requests'[q] = requests[q] \/ SlotMoves(q)
  BY <1>1, SignUpSlots DEF SignUpAction, SignIn
<1>6. DoneNoted(None) /\ None \notin DOMAIN businesses'
  BY <1>4, RowTyped DEF DoneNoted, Tally, AccountInv, Tables
<1>7. CompletionInv'
  BY <1>1, <1>2, <1>5, <1>6, CompletionMoves
<1> QED
  BY <1>4, <1>7 DEF OnboardingInv

-------------------------------------------------------------------------------
LEMMA InitAccount ==
  ASSUME OnboardingInit
  PROVE  AccountInv
<1>1. PICK db \in Before :
        /\ users = db.users /\ businesses = db.businesses
        /\ tokens = {[user |-> u, role |-> db.users[u].role, business |-> db.users[u].business,
                      given |-> db.users[u].password] : u \in DOMAIN db.users}
        /\ requests = [r \in Requests |-> Idle] /\ calls = 0
        /\ promoted = {} /\ contested = {} /\ moved = {} /\ stranded = {} /\ late = {}
  BY DEF OnboardingInit, Init
<1>2. /\ users \in Seq(User) /\ businesses \in Seq(Business) /\ OwnEmail(users)
      /\ OwnEmail(businesses) /\ Links(users, businesses)
      /\ \A b \in DOMAIN businesses : \E u \in DOMAIN users : users[u].business = b
      /\ MaxCalls \in Nat
  BY <1>1, SignUpAssumption DEF OwnEmail, Links
<1>3. Tables
  BY <1>2 DEF Tables
<1>4. HistoryTyped /\ Noted
  BY <1>1, <1>2 DEF HistoryTyped, Noted, OnboardingInit
<1>5. requests \in [Requests -> Request] /\ \A r \in Requests : RequestSound(requests[r])
  BY <1>1, IdleSound
<1>6. ASSUME NEW t \in tokens
      PROVE  TokenSound(t)
  <2>1. PICK u \in DOMAIN users :
          t = [user |-> u, role |-> users[u].role, business |-> users[u].business,
               given |-> users[u].password]
    BY <1>1
  <2>2. users[u] \in User /\ u \in Nat
    BY <1>2, RowTyped
  <2>3. /\ t \in Claims /\ t.user = u /\ t.role = users[u].role
        /\ t.business = users[u].business /\ t.given = users[u].password
    BY <2>1, <2>2 DEF Claims, User
  <2> QED
    BY <1>2, <2>2, <2>3 DEF TokenSound, Links, User
<1>7. OwnerlessHasCause
  BY <1>2 DEF OwnerlessHasCause, Members
<1> QED
  BY <1>3, <1>4, <1>5, <1>6, <1>7 DEF AccountInv

LEMMA InitCompletion ==
  ASSUME OnboardingInit
  PROVE  CompletionInv
<1>1. PICK db \in Before :
        users = db.users /\ businesses = db.businesses /\ requests = [r \in Requests |-> Idle]
  BY DEF OnboardingInit, Init
<1>2. /\ \A b \in DOMAIN businesses :
           businesses[b].completed <=>
             /\ businesses[b].info /\ businesses[b].services > 0 /\ businesses[b].hours
             /\ businesses[b].bank
             /\ \E u \in DOMAIN users : users[u].business = b /\ users[u].twoFactor
      /\ \A u \in DOMAIN users :
           users[u].completed <=> users[u].business # None /\ businesses[users[u].business].completed
  BY <1>1, OnboardingAssumption
<1>3. Tables
  BY InitAccount DEF AccountInv
<1>4. \A b \in DOMAIN businesses : businesses[b].services \in Nat /\ b # None
  <2>1. \A b \in DOMAIN businesses : businesses[b] \in Business /\ b # None
    BY <1>3, RowTyped DEF Tables
  <2> QED
    BY <2>1 DEF Business
<1>5. ASSUME NEW b \in DOMAIN businesses
      PROVE  businesses[b].completed <=> MissingRequirements(b, Members(b)) = {}
  <2>1. MissingRequirements(b, Members(b)) = {} <=>
          /\ Members(b) # {} /\ businesses[b].info
          /\ ~(businesses[b].services = 0) /\ businesses[b].hours /\ businesses[b].bank
          /\ \E u \in Members(b) : users[u].twoFactor
    BY DEF MissingRequirements
  <2>2. ~(businesses[b].services = 0) <=> businesses[b].services > 0
    BY <1>4
  <2>3. (\E u \in Members(b) : users[u].twoFactor)
          <=> \E u \in DOMAIN users : users[u].business = b /\ users[u].twoFactor
    BY DEF Members
  <2>4. (\E u \in Members(b) : users[u].twoFactor) => Members(b) # {}
    OBVIOUS
  <2> QED
    BY <1>2, <2>1, <2>2, <2>3, <2>4
<1>6. CompleteSound
  BY <1>5 DEF CompleteSound, AllDone
<1>7. UsersFollow
  BY <1>2, <1>4 DEF UsersFollow, Members
<1>8. LastStepSubmits
  BY <1>5 DEF LastStepSubmits, AllDone, SureDone
<1>9. \A r \in Requests : MarkSound(requests[r])
  BY <1>1 DEF MarkSound, Idle
<1> QED
  BY <1>6, <1>7, <1>8, <1>9 DEF CompletionInv

LEMMA Unchanging ==
  ASSUME OnboardingInv, UNCHANGED vars
  PROVE  OnboardingInv'
<1>1. /\ UNCHANGED <<users, businesses, tokens, promoted, contested, moved, stranded, late>>
      /\ UNCHANGED <<requests, calls, aside, undone, cut>>
  BY DEF vars, signUpVars, onboardingVars
<1>2. StepRequests /\ Noted'
  BY <1>1 DEF StepRequests, Noted, OnboardingInv, AccountInv, HistoryTyped
<1> QED
  BY <1>1, <1>2, NothingDone

LEMMA NextInv ==
  ASSUME OnboardingInv, [Next]_vars
  PROVE  OnboardingInv'
<1>1. CASE SignUpAction /\ Tally(None)
  BY <1>1, SignUpInv
<1>2. ASSUME NEW r \in Requests,
             \/ OwnerInformation(r) \/ SaveBusinessInformation(r) \/ SaveBuildBusiness(r)
             \/ SaveBankDetails(r) \/ SaveTwoFactor(r) \/ Submit(r)
             \/ OnboardingStep(r) \/ AbandonStep(r)
      PROVE  OnboardingInv'
  BY <1>2, OwnerInformationInv, SaveBusinessInformationInv, SaveBuildBusinessInv,
     SaveBankDetailsInv, SaveTwoFactorInv, SubmitInv, WriteOwnerInv, CreateBillingAccountInv,
     ProgressInv, MarkBusinessInv, MarkUsersInv, AbandonStepInv DEF OnboardingStep
<1>3. CASE UpdateMfa \/ UpdateProfile \/ ReplaceServices \/ CreateService \/ DeleteService
  BY <1>3, UpdateMfaInv, UpdateProfileInv, ServicesInv
<1>4. CASE UNCHANGED vars
  BY <1>4, Unchanging
<1> QED
  BY <1>1, <1>2, <1>3, <1>4 DEF Next

(* The invariant of sign-up and onboarding is inductive. *)
THEOREM OnboardingInvariant == Spec => []OnboardingInv
<1>1. OnboardingInit => OnboardingInv
  BY InitAccount, InitCompletion DEF OnboardingInv
<1>2. OnboardingInv /\ [Next]_vars => OnboardingInv'
  BY NextInv
<1> QED
  BY <1>1, <1>2, PTL DEF Spec

(* Rows, tokens and slots keep their form, users and businesses are linked  *)
(* within their tables, and no e-mail is given twice, whatever overlaps.    *)
THEOREM OnboardingTypeCorrect == Spec => []TypeOK
<1>1. OnboardingInv => TypeOK
  <2> SUFFICES ASSUME OnboardingInv PROVE TypeOK
    OBVIOUS
  <2>1. Tables /\ HistoryTyped /\ Noted
    BY DEF OnboardingInv, AccountInv
  <2>2. \A u \in DOMAIN users : users[u] \in User /\ users[u].business \in {None} \cup DOMAIN businesses
    BY <2>1, RowTyped DEF Tables, Links
  <2>3. \A b \in DOMAIN businesses : businesses[b] \in Business
    BY <2>1, RowTyped DEF Tables
  <2>4. \A t \in tokens : t \in Claims /\ t.user \in DOMAIN users
    BY DEF OnboardingInv, AccountInv, TokenSound
  <2>5. ASSUME NEW r \in Requests, Busy(r)
        PROVE  requests[r].step \in SignUpSteps \cup StepSteps
    <3>1. requests[r] \in Request /\ requests[r] # Idle
      BY <2>5 DEF OnboardingInv, AccountInv, Busy
    <3> QED
      BY <3>1 DEF Request, SignUpRequest, ClientRequest, PartRequest, OwnerRequest,
                  ResumeSteps, SignUpSteps
  <2> QED
    BY <2>1, <2>2, <2>3, <2>4, <2>5 DEF TypeOK, Tables, OwnEmail, HistoryTyped, Noted
<1> QED
  BY <1>1, OnboardingInvariant, PTL

(* What an access token says of its user is what the row of the user says,  *)
(* unless a sign-up has promoted the user since, overlapping or not, or     *)
(* overlapped with the one of the token and moved the user to another       *)
(* business (auth.service.ts:129-148).                                      *)
THEOREM ClaimsAreTrue == Spec => []ClaimsHold
<1>1. OnboardingInv => ClaimsHold
  BY DEF OnboardingInv, AccountInv, TokenSound, HistoryTyped, ClaimsHold
<1> QED
  BY <1>1, OnboardingInvariant, PTL

(* A business without a user is one whose sign-up is at the link, or was    *)
(* cut short there, or was made for an owner who keeps another, without any *)
(* overlap; or it lost its user to an overlapping sign-up                   *)
(* (auth.service.ts:126-148).                                               *)
THEOREM OwnerlessForCause == Spec => []OwnerlessHasCause
<1>1. OnboardingInv => OwnerlessHasCause
  BY DEF OnboardingInv, AccountInv
<1> QED
  BY <1>1, OnboardingInvariant, PTL

(* A business that is marked complete was found to have every part, and its *)
(* users are marked with it (onboarding.service.ts:121-161).                *)
THEOREM CompletionIsTrue == Spec => []CompletionAgrees
<1>1. OnboardingInv => CompletionAgrees
  <2> SUFFICES ASSUME OnboardingInv PROVE CompletionAgrees
    OBVIOUS
  <2>1. UsersFollow /\ CompleteSound
    BY DEF OnboardingInv, CompletionInv
  <2>2. ASSUME NEW b \in DOMAIN businesses, businesses[b].completed, b \notin undone
        PROVE  MissingRequirements(b, Members(b)) \cup CriticalWarnings(b) = {}
    <3>1. MissingRequirements(b, Members(b)) = {}
      BY <2>1, <2>2 DEF CompleteSound, AllDone
    <3>2. businesses[b].bank /\ businesses[b].services # 0
      BY <3>1 DEF MissingRequirements
    <3>3. CriticalWarnings(b) = {}
      BY <3>2 DEF CriticalWarnings
    <3> QED
      BY <3>1, <3>3
  <2> QED
    BY <2>1, <2>2 DEF CompletionAgrees, UsersFollow
<1> QED
  BY <1>1, OnboardingInvariant, PTL

(* A business whose parts are all saved by steps is marked complete, or a   *)
(* step of it that will look again is on its way, for any number of users   *)
(* and any Take, where its parts are seen whichever Take of its users are   *)
(* looked at (onboarding.service.ts:66-90, 121-161).                        *)
THEOREM SomeStepSubmits == Spec => []LastStepSubmits
<1>1. OnboardingInv => LastStepSubmits
  BY DEF OnboardingInv, CompletionInv
<1> QED
  BY <1>1, OnboardingInvariant, PTL
===============================================================================
