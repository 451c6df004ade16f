------------------------------ MODULE Onboarding ------------------------------
(***************************************************************************)
(* OnboardingService, with the endpoints of BusinessService and            *)
(* AccountService that change what it looks at, over the users and         *)
(* businesses that sign-ups make while it runs.                            *)
(*                                                                         *)
(* A step of the onboarding saves its part, then reads the business with   *)
(* its users again: when no part is missing it marks first the business,   *)
(* then its users, as complete.  Parts that are saved elsewhere are not    *)
(* followed by that, and a part can be taken back at any time.             *)
(***************************************************************************)
EXTENDS SignUp, FiniteSets

CONSTANTS
  Take,        \* how many users of a business the progress looks at: 10 in the code
  MaxServices  \* bounds the services of a business

(* What earlier requests leave when none is cut short or overtaken, and     *)
(* every part was saved by a step and kept: a business is complete when it  *)
(* has all its parts, and its users with it.                                *)
ASSUME OnboardingAssumption ==
  /\ Take \in Nat \ {0} /\ MaxServices \in Nat \ {0}
  /\ \A db \in Before :
       /\ \A b \in DOMAIN db.businesses :
            LET row == db.businesses[b] IN
            row.completed <=>
              /\ row.info /\ row.services > 0 /\ row.hours /\ row.bank
              /\ \E u \in DOMAIN db.users : db.users[u].business = b /\ db.users[u].twoFactor
       /\ \A u \in DOMAIN db.users :
            LET b == db.users[u].business IN
            db.users[u].completed <=> b # None /\ db.businesses[b].completed

VARIABLES
  aside,   \* history: businesses that got their last part outside a step, or
           \* whose step was cut short
  undone,  \* history: businesses of which a part was taken back
  cut      \* history: businesses marked complete whose users were not

onboardingVars == <<aside, undone, cut>>
vars == <<signUpVars, onboardingVars>>

OnboardingInit == Init /\ aside = {} /\ undone = {} /\ cut = {}

(* JwtStrategy takes the claims as they are, RolesGuard looks at the role   *)
(* in them, requireBusinessId at the business.                             *)
BusinessToken(t) == t \in tokens /\ t.role = "business" /\ t.business # None

(* users: { take: 10 }, without an order *)
Looks(b) ==
  {seen \in SUBSET Members(b) :
     \/ seen = Members(b) /\ Cardinality(seen) <= Take
     \/ Cardinality(seen) = Take}

(* computeProgress: STEPS without those that are completed, as it seems *)
(* from the users looked at                                             *)
MissingRequirements(b, seen) ==
  {s \in {"owner-information", "business-information", "build-business",
          "bank-details", "two-factor-auth"} :
     \/ s = "owner-information"    /\ seen = {}
     \/ s = "business-information" /\ ~businesses[b].info
     \/ s = "build-business"       /\ (businesses[b].services = 0 \/ ~businesses[b].hours)
     \/ s = "bank-details"         /\ ~businesses[b].bank
     \/ s = "two-factor-auth"      /\ \A u \in seen : ~users[u].twoFactor}

(* Every part is there; and it is found to be, whoever is looked at. *)
AllDone == {b \in DOMAIN businesses : MissingRequirements(b, Members(b)) = {}}
SureDone == {b \in AllDone : \A seen \in Looks(b) : MissingRequirements(b, seen) = {}}

(* computeSetupWarnings: those of severity critical *)
CriticalWarnings(b) ==
  {w \in {"billing-account-missing", "services-missing"} :
     \/ w = "billing-account-missing" /\ ~businesses[b].bank /\ ~businesses[b].billing
     \/ w = "services-missing"        /\ businesses[b].services = 0}

(* Every action notes the businesses that got their last part, or lost a  *)
(* user without two-factor, without a step of their own, and those that   *)
(* are not all done any more.                                             *)
Tally(own) ==
  /\ aside' = aside \cup ((SureDone' \ SureDone) \ {own})
  /\ undone' = undone \cup (AllDone \ AllDone')
  /\ UNCHANGED cut

signUpHistory == <<promoted, contested, moved, stranded, late>>

-------------------------------------------------------------------------------
(* A step of the onboarding starts with the claims of a token. *)
BeginStep(r, t, step) ==
  /\ BusinessToken(t)
  /\ Begin(r, [step |-> step, user |-> t.user, business |-> t.business])

(* A request of one await *)
Call == calls < MaxCalls /\ calls' = calls + 1

Own(r) == requests[r].business

(* saveOwnerInformation: whose e-mail it is, if anybody's, is looked up *)
OwnerInformation(r) ==
  \E t \in tokens, email \in UserEmails :
    /\ BusinessToken(t)
    /\ Begin(r, [step |-> "writeOwner", user |-> t.user, business |-> t.business,
                 email |-> email, free |-> IdOf(email, users) \in {None, t.user}])
    /\ UNCHANGED <<users, businesses, tokens, signUpHistory, onboardingVars>>

(* The e-mail is left as it is if it was taken, or is by now (P2002). *)
TrustingWriteOwner(r) ==
  LET req == requests[r]  u == req.user IN
  /\ At(r, "writeOwner")
  /\ users' = IF req.free THEN [users EXCEPT ![u].email = req.email] ELSE users
  /\ GoTo(r, "progress")
  /\ UNCHANGED <<businesses, tokens, calls, signUpHistory>>
  /\ Tally(Own(r))
WriteOwner(r) ==
  LET req == requests[r]  u == req.user IN
  /\ At(r, "writeOwner")
  /\ users' = IF req.free /\ IdOf(req.email, users) \in {None, u}
              THEN [users EXCEPT ![u].email = req.email] ELSE users
  /\ GoTo(r, "progress")
  /\ UNCHANGED <<businesses, tokens, calls, signUpHistory>>
  /\ Tally(Own(r))

(* saveBusinessInformation *)
HastyBusinessInformation(r) ==
  \E t \in tokens :
    /\ IF t.business \in AllDone THEN BeginStep(r, t, "markBusiness")
       ELSE BusinessToken(t) /\ Call /\ UNCHANGED requests
    /\ businesses' = [businesses EXCEPT ![t.business].info = TRUE]
    /\ UNCHANGED <<users, tokens, signUpHistory>>
    /\ Tally(t.business)
SaveBusinessInformation(r) ==
  \E t \in tokens :
    /\ BeginStep(r, t, "progress")
    /\ businesses' = [businesses EXCEPT ![t.business].info = TRUE]
    /\ UNCHANGED <<users, tokens, signUpHistory>>
    /\ Tally(t.business)

(* saveBuildBusiness: one transaction; at least one service, and hours *)
(* that may be empty strings                                           *)
SaveBuildBusiness(r) ==
  \E t \in tokens, n \in 1..MaxServices, hours \in BOOLEAN :
    /\ BeginStep(r, t, "progress")
    /\ businesses' = [businesses EXCEPT ![t.business].services = n, ![t.business].hours = hours]
    /\ UNCHANGED <<users, tokens, signUpHistory>>
    /\ Tally(t.business)

(* saveBankDetails: with the details of an account, that is created next *)
SaveBankDetails(r) ==
  \E t \in tokens, step \in {"billing", "progress"} :
    /\ BeginStep(r, t, step)
    /\ businesses' = [businesses EXCEPT ![t.business].bank = TRUE]
    /\ UNCHANGED <<users, tokens, signUpHistory>>
    /\ Tally(t.business)

CreateBillingAccount(r) ==
  /\ At(r, "billing")
  /\ businesses' = [businesses EXCEPT ![Own(r)].billing = TRUE]
  /\ GoTo(r, "progress")
  /\ UNCHANGED <<users, tokens, calls, signUpHistory>>
  /\ Tally(Own(r))

(* saveTwoFactor: of the user in the claims, on or off *)
SaveTwoFactor(r) ==
  \E t \in tokens, enabled \in BOOLEAN :
    /\ BeginStep(r, t, "progress")
    /\ users' = [users EXCEPT ![t.user].twoFactor = enabled]
    /\ UNCHANGED <<businesses, tokens, signUpHistory>>
    /\ Tally(t.business)

(* stepResponse, and submit, which saves nothing before *)
Progress(r) ==
  /\ At(r, "progress")
  /\ \E seen \in Looks(Own(r)) :
       IF MissingRequirements(Own(r), seen) = {} THEN GoTo(r, "markBusiness") ELSE Answer(r)
  /\ UNCHANGED <<users, businesses, tokens, calls, signUpHistory, onboardingVars>>

Submit(r) ==
  \E t \in tokens :
    /\ BeginStep(r, t, "markBusiness")
    /\ \E seen \in Looks(t.business) : MissingRequirements(t.business, seen) = {}
    /\ UNCHANGED <<users, businesses, tokens, signUpHistory, onboardingVars>>

MarkBusiness(r) ==
  /\ At(r, "markBusiness")
  /\ businesses' = [businesses EXCEPT ![Own(r)].completed = TRUE]
  /\ GoTo(r, "markUsers")
  /\ UNCHANGED <<users, tokens, calls, signUpHistory, onboardingVars>>

MarkOneUser(r) ==
  /\ At(r, "markUsers")
  /\ users' = [users EXCEPT ![requests[r].user].completed = TRUE]
  /\ Answer(r)
  /\ UNCHANGED <<businesses, tokens, calls, signUpHistory, onboardingVars>>
MarkUsers(r) ==
  /\ At(r, "markUsers")
  /\ users' = [u \in DOMAIN users |->
       IF u \in Members(Own(r)) THEN [users[u] EXCEPT !.completed = TRUE] ELSE users[u]]
  /\ Answer(r)
  /\ UNCHANGED <<businesses, tokens, calls, signUpHistory, onboardingVars>>

OnboardingStep(r) ==
  \/ WriteOwner(r) \/ CreateBillingAccount(r)
  \/ Progress(r) \/ MarkBusiness(r) \/ MarkUsers(r)

(* A read or a write of the step throws, or the process dies. *)
AbandonStep(r) ==
  /\ Busy(r) /\ requests[r].step \in {"writeOwner", "billing", "progress",
                                      "markBusiness", "markUsers"}
  /\ aside' = aside \cup {Own(r)}
  /\ cut' = IF At(r, "markUsers") THEN cut \cup {Own(r)} ELSE cut
  /\ Answer(r)
  /\ UNCHANGED <<users, businesses, tokens, calls, signUpHistory, undone>>

-------------------------------------------------------------------------------
(* AccountService.updateMfa: of any user *)
UpdateMfa ==
  \E t \in tokens, enabled \in BOOLEAN :
    /\ Call
    /\ users' = [users EXCEPT ![t.user].twoFactor = enabled]
    /\ UNCHANGED <<businesses, tokens, requests, signUpHistory>>
    /\ Tally(None)

(* BusinessService.updateProfile: the fields that came, a business e-mail  *)
(* if nobody else has it                                                   *)
UpdateProfile ==
  \E t \in tokens, email \in BusinessEmails, info \in BOOLEAN, hours \in BOOLEAN :
    /\ BusinessToken(t)
    /\ Call
    /\ IdOf(email, businesses) \in {None, t.business}
    /\ info \/ ~businesses[t.business].info
    /\ businesses' = [businesses EXCEPT ![t.business].email = email,
                                        ![t.business].info = info,
                                        ![t.business].hours = hours]
    /\ UNCHANGED <<users, tokens, requests, signUpHistory>>
    /\ Tally(None)

ServicesBecome(t, n) ==
  /\ BusinessToken(t)
  /\ Call
  /\ businesses' = [businesses EXCEPT ![t.business].services = n]
  /\ UNCHANGED <<users, tokens, requests, signUpHistory>>
  /\ Tally(None)

ReplaceServices == \E t \in tokens, n \in 0..MaxServices : ServicesBecome(t, n)

CreateService ==
  \E t \in tokens :
    /\ BusinessToken(t) /\ businesses[t.business].services < MaxServices
    /\ ServicesBecome(t, businesses[t.business].services + 1)

(* The lookup before the delete only tells that the row is there, as the *)
(* delete itself does.                                                   *)
DeleteService ==
  \E t \in tokens :
    /\ BusinessToken(t) /\ businesses[t.business].services > 0
    /\ ServicesBecome(t, businesses[t.business].services - 1)

SignUpAction ==
  \/ SignIn
  \/ \E r \in Requests :
       SignUpBusiness(r) \/ SignUpClient(r) \/ SignUpStep(r) \/ AbandonSignUp(r)

Next ==
  \/ SignUpAction /\ Tally(None)
  \/ \E r \in Requests :
       \/ OwnerInformation(r) \/ SaveBusinessInformation(r) \/ SaveBuildBusiness(r)
       \/ SaveBankDetails(r) \/ SaveTwoFactor(r) \/ Submit(r)
       \/ OnboardingStep(r)
       \/ AbandonStep(r)
  \/ UpdateMfa \/ UpdateProfile
  \/ ReplaceServices \/ CreateService \/ DeleteService

Spec == OnboardingInit /\ [][Next]_vars

-------------------------------------------------------------------------------
SignUpSteps == {"findOwner", "create", "findBusinessAgain", "findOwnerAgain",
                "decide", "link", "findClient"}
StepSteps == {"writeOwner", "billing", "progress", "markBusiness", "markUsers"}

TypeOK ==
  /\ \A u \in DOMAIN users :
       users[u] \in User /\ users[u].business \in {None} \cup DOMAIN businesses
  /\ \A b \in DOMAIN businesses : businesses[b] \in Business
  /\ \A u, v \in DOMAIN users : users[u].email = users[v].email => u = v
  /\ \A b, c \in DOMAIN businesses : businesses[b].email = businesses[c].email => b = c
  /\ \A t \in tokens : t \in Claims /\ t.user \in DOMAIN users
  /\ \A r \in Requests : Busy(r) => requests[r].step \in SignUpSteps \cup StepSteps
  /\ calls \in 0..MaxCalls
  /\ promoted \cup contested \cup moved \cup late \subseteq DOMAIN users
  /\ stranded \cup aside \cup undone \cup cut \subseteq DOMAIN businesses

(* A complete business has nothing missing and no critical setup warning,  *)
(* but what was taken back after the check; its users are complete with    *)
(* it, but for a step cut short or still at it, and users that joined      *)
(* later; and no user is complete without its business                     *)
(* (onboarding.service.ts:121-161, business.service.ts:274-292).           *)
CompletionAgrees ==
  /\ \A b \in DOMAIN businesses : businesses[b].completed =>
       /\ b \in undone \/ MissingRequirements(b, Members(b)) \cup CriticalWarnings(b) = {}
       /\ \/ b \in cut \/ \E r \in Requests : At(r, "markUsers") /\ Own(r) = b
          \/ \A u \in Members(b) \ late : users[u].completed
  /\ \A u \in DOMAIN users \ moved :
       users[u].completed => users[u].business # None /\ businesses[users[u].business].completed

(* Whichever of two overlapping steps saves the last missing part, the     *)
(* business ends up complete without a submit, each step looking at the    *)
(* business after it has saved its own part (onboarding.service.ts:121):   *)
(* so wherever no part is missing whichever Take of its users are looked   *)
(* at.  Where a business has more users, some without two-factor, the step *)
(* may happen to look at those alone, and go away (line 72).               *)
LastStepSubmits ==
  \A b \in SureDone \ aside :
    \/ businesses[b].completed
    \/ \E r \in Requests : Busy(r) /\ requests[r].step \in StepSteps /\ Own(r) = b
===============================================================================
