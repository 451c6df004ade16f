--------------------------------- MODULE Jobs ---------------------------------
(***************************************************************************)
(* AppQueueService with its users (payment exports, billing accounts,      *)
(* support tickets) and the processors of the queues.                      *)
(*                                                                         *)
(* A request writes its row, then puts a job into a queue of BullMQ; where *)
(* queues are off, or the attempt throws, it does the work of the job      *)
(* itself.  The attempt may throw after the job got into the queue         *)
(* (queue.close is awaited in the same try): then the work is done twice.  *)
(* BullMQ and Redis are external: a waiting job is taken by some worker, a *)
(* job that throws waits again until its attempts are used up, and a job   *)
(* whose worker dies waits again once.                                     *)
(*                                                                         *)
(* No module of the repository registers a processor: Workers is empty in  *)
(* what it deploys, and has a member where a process that does is added.   *)
(***************************************************************************)
EXTENDS Integers

CONSTANTS
  Exports,        \* payment export jobs
  Accounts,       \* billing accounts
  Tickets,        \* support tickets
  Requests,       \* slots for requests in flight at the same time
  Workers,        \* processes that run the processors
  QueuesEnabled,  \* what REDIS_QUEUES_ENABLED says, in some process or other
  ExportAttempts, \* the attempts of an export job: 3 in the code
  OtherAttempts,  \* the attempts of the other jobs: 5 in the code
  MaxCalls        \* bounds the number of requests

VARIABLES
  exports,    \* exports[x]: the status of export job x
  accounts,   \* accounts[x]: the status of billing account x
  notified,   \* notified[x]: the outbox rows written for ticket x
  queue,      \* the jobs that BullMQ holds
  requests,   \* requests[r]: what the request in slot r is at
  workers,    \* workers[w]: the job that w runs, and how far it is
  calls,      \* how many requests there were, for the bound
  cut,        \* history: rows whose request ended before it had queued or done
  twice,      \* history: rows whose work was or may be done twice
  contested,  \* history: accounts on which requests overlapped
  lost        \* history: accounts that were deleted though not drafts

vars == <<exports, accounts, notified, queue, requests, workers, calls,
          cut, twice, contested, lost>>

Rows == Exports \cup Accounts \cup Tickets

ASSUME JobsAssumption ==
  /\ Exports \cap Accounts = {} /\ Exports \cap Tickets = {} /\ Accounts \cap Tickets = {}
  /\ QueuesEnabled \subseteq BOOLEAN
  /\ {ExportAttempts, OtherAttempts} \subseteq Nat \ {0}
  /\ MaxCalls \in Nat

ExportStatus  == {"none", "queued", "processing", "completed"}
AccountStatus == {"none", "draft", "pending_review", "verified", "deleted"}

Attempts(x) == IF x \in Exports THEN ExportAttempts ELSE OtherAttempts

(* A job is named by the request that added it, as each adds one. *)
Job == [row : Rows, by : Nat, state : {"waiting", "active", "failed"},
        failures : Nat, stalled : BOOLEAN]

Idle == [step |-> "idle"]
Call == [step : {"remove", "submit", "enqueue", "fallback"}, row : Rows, no : Nat]
Busy(r) == requests[r] # Idle

Resting == [step |-> "resting"]
Work == [step : {"process", "complete"}, job : Job]
Working(w) == workers[w] # Resting

Init ==
  /\ exports = [x \in Exports |-> "none"]
  /\ accounts = [x \in Accounts |-> "none"]
  /\ notified = [x \in Tickets |-> 0]
  /\ queue = {}
  /\ requests = [r \in Requests |-> Idle]
  /\ workers = [w \in Workers |-> Resting]
  /\ calls = 0
  /\ cut = {} /\ twice = {} /\ contested = {} /\ lost = {}

historyVars == <<cut, twice, contested, lost>>
rowVars == <<exports, accounts, notified>>

Begin(r, step, x) ==
  /\ ~Busy(r)
  /\ calls < MaxCalls /\ calls' = calls + 1
  /\ requests' = [requests EXCEPT ![r] = [step |-> step, row |-> x, no |-> calls + 1]]

At(r, step) == Busy(r) /\ requests[r].step = step
Answer(r) == requests' = [requests EXCEPT ![r] = Idle]
GoTo(r, step) == requests' = [requests EXCEPT ![r].step = step]

-------------------------------------------------------------------------------
(* createExportJob: the row, then enqueuePaymentExport *)
CreateExportJob(r) ==
  \E x \in Exports :
    /\ exports[x] = "none"
    /\ Begin(r, "enqueue", x)
    /\ exports' = [exports EXCEPT ![x] = "queued"]
    /\ UNCHANGED <<accounts, notified, queue, workers, historyVars>>

(* createTicket: the row, then enqueueSupportNotification *)
CreateTicket(r) ==
  \E x \in Tickets :
    /\ \A q \in Requests : Busy(q) => requests[q].row # x
    /\ notified[x] = 0 /\ x \notin cut /\ \A job \in queue : job.row # x
    /\ Begin(r, "enqueue", x)
    /\ UNCHANGED <<exports, accounts, notified, queue, workers, historyVars>>

(* BillingService.create *)
CreateAccount(x) ==
  /\ calls < MaxCalls /\ calls' = calls + 1
  /\ accounts[x] = "none"
  /\ accounts' = [accounts EXCEPT ![x] = "draft"]
  /\ UNCHANGED <<exports, notified, queue, requests, workers, historyVars>>

(* remove: the status is looked up, then the row is deleted by id. *)
AnyRemove(r) ==
  \E x \in Accounts :
    /\ accounts[x] \notin {"none", "deleted"}
    /\ Begin(r, "remove", x)
    /\ UNCHANGED <<exports, accounts, notified, queue, workers, historyVars>>
FindForRemove(r) ==
  \E x \in Accounts :
    /\ accounts[x] = "draft"
    /\ Begin(r, "remove", x)
    /\ UNCHANGED <<exports, accounts, notified, queue, workers, historyVars>>

(* Other requests that have looked up the account and not yet written it, *)
(* or whose write is being worked on                                      *)
Contenders(r, x) == {q \in Requests \ {r} : Busy(q) /\ requests[q].row = x}

ApplyRemove(r) ==
  LET x == requests[r].row IN
  /\ At(r, "remove")
  /\ accounts[x] # "deleted"
  /\ accounts' = [accounts EXCEPT ![x] = "deleted"]
  /\ lost' = IF accounts[x] = "draft" THEN lost ELSE lost \cup {x}
  /\ contested' = IF Contenders(r, x) # {} THEN contested \cup {x} ELSE contested
  /\ Answer(r)
  /\ UNCHANGED <<exports, notified, queue, workers, calls, cut, twice>>

(* submit: the status is looked up, then changed by id, then              *)
(* enqueueBillingVerification.  Nothing ever rejects an account.          *)
AnySubmit(r) ==
  \E x \in Accounts :
    /\ accounts[x] \notin {"none", "deleted"}
    /\ Begin(r, "submit", x)
    /\ UNCHANGED <<exports, accounts, notified, queue, workers, historyVars>>
FindForSubmit(r) ==
  \E x \in Accounts :
    /\ accounts[x] = "draft"
    /\ Begin(r, "submit", x)
    /\ UNCHANGED <<exports, accounts, notified, queue, workers, historyVars>>

ApplySubmit(r) ==
  LET x == requests[r].row IN
  /\ At(r, "submit")
  /\ accounts[x] # "deleted"
  /\ accounts' = [accounts EXCEPT ![x] = "pending_review"]
  /\ contested' = IF Contenders(r, x) # {} THEN contested \cup {x} ELSE contested
  /\ GoTo(r, "enqueue")
  /\ UNCHANGED <<exports, notified, queue, workers, calls, cut, twice, lost>>

-------------------------------------------------------------------------------
NewJob(r) ==
  [row |-> requests[r].row, by |-> requests[r].no, state |-> "waiting",
   failures |-> 0, stalled |-> FALSE]

(* tryAddBullJob, in a process where queues are on: the job gets into the  *)
(* queue or does not, and the call returns or throws.                      *)
AlwaysFallBack(r) ==
  /\ At(r, "enqueue") /\ TRUE \in QueuesEnabled
  /\ queue' \in {queue, queue \cup {NewJob(r)}}
  /\ GoTo(r, "fallback")
  /\ UNCHANGED <<rowVars, workers, calls, historyVars>>
TryAddBullJob(r) ==
  /\ At(r, "enqueue") /\ TRUE \in QueuesEnabled
  /\ \/ /\ queue' = queue \cup {NewJob(r)}
        /\ \/ Answer(r) /\ UNCHANGED twice
           \/ GoTo(r, "fallback") /\ twice' = twice \cup {requests[r].row}
     \/ GoTo(r, "fallback") /\ UNCHANGED <<queue, twice>>
  /\ UNCHANGED <<rowVars, workers, calls, cut, contested, lost>>

QueuesAreOff(r) ==
  /\ At(r, "enqueue") /\ FALSE \in QueuesEnabled
  /\ GoTo(r, "fallback")
  /\ UNCHANGED <<rowVars, queue, workers, calls, historyVars>>

(* What a job does to its row, in a processor or in the request itself. An *)
(* account that is gone cannot be updated.                                 *)
Done(x) ==
  \/ /\ x \in Exports
     /\ exports' = [exports EXCEPT ![x] = "completed"]
     /\ UNCHANGED <<accounts, notified>>
  \/ /\ x \in Accounts /\ accounts[x] # "deleted"
     /\ accounts' = [accounts EXCEPT ![x] = "verified"]
     /\ UNCHANGED <<exports, notified>>
  \/ /\ x \in Tickets
     /\ notified' = [notified EXCEPT ![x] = @ + 1]
     /\ UNCHANGED <<exports, accounts>>

(* completePaymentExportLocally, the update of the account, createOutbox *)
ForgetfulFallback(r) ==
  /\ At(r, "fallback")
  /\ IF requests[r].row \in Exports
     THEN UNCHANGED <<exports, accounts, notified>> ELSE Done(requests[r].row)
  /\ Answer(r)
  /\ UNCHANGED <<queue, workers, calls, historyVars>>
Fallback(r) ==
  /\ At(r, "fallback")
  /\ Done(requests[r].row)
  /\ Answer(r)
  /\ UNCHANGED <<queue, workers, calls, historyVars>>

(* A write of the request throws, or its process dies. *)
Abandon(r) ==
  /\ Busy(r)
  /\ cut' = IF requests[r].step \in {"enqueue", "fallback"}
            THEN cut \cup {requests[r].row} ELSE cut
  /\ Answer(r)
  /\ UNCHANGED <<rowVars, queue, workers, calls, twice, contested, lost>>

-------------------------------------------------------------------------------
(* BullMQ: a worker takes a waiting job, at its next attempt. *)
PopTake(w) ==
  /\ ~Working(w)
  /\ \E job \in queue :
       /\ job.state = "waiting"
       /\ queue' = queue \ {job}
       /\ workers' = [workers EXCEPT ![w] =
            [step |-> IF job.row \in Exports THEN "process" ELSE "complete",
             job |-> [job EXCEPT !.state = "active"]]]
  /\ UNCHANGED <<rowVars, requests, calls, historyVars>>
Take(w) ==
  /\ ~Working(w)
  /\ \E job \in queue :
       /\ job.state = "waiting"
       /\ queue' = (queue \ {job}) \cup {[job EXCEPT !.state = "active"]}
       /\ workers' = [workers EXCEPT ![w] =
            [step |-> IF job.row \in Exports THEN "process" ELSE "complete",
             job |-> [job EXCEPT !.state = "active"]]]
  /\ UNCHANGED <<rowVars, requests, calls, historyVars>>

(* PaymentExportProcessor marks the job first, whatever its status is. *)
MarkProcessing(w) ==
  /\ Working(w) /\ workers[w].step = "process"
  /\ exports' = [exports EXCEPT ![workers[w].job.row] = "processing"]
  /\ workers' = [workers EXCEPT ![w].step = "complete"]
  /\ UNCHANGED <<accounts, notified, queue, requests, calls, historyVars>>

(* The processor's last write; the job is removed when it is complete. *)
Complete(w) ==
  /\ Working(w) /\ workers[w].step = "complete"
  /\ Done(workers[w].job.row)
  /\ queue' = queue \ {workers[w].job}
  /\ workers' = [workers EXCEPT ![w] = Resting]
  /\ UNCHANGED <<requests, calls, historyVars>>

(* A write of the processor throws, and was made or was not: another       *)
(* attempt follows, after the backoff, or the job has failed for good.     *)
MayHaveWritten(w) ==
  \/ UNCHANGED <<rowVars, twice>>
  \/ /\ workers[w].step = "complete"
     /\ Done(workers[w].job.row)
     /\ twice' = twice \cup {workers[w].job.row}

SwallowFailure(w) ==
  LET job == workers[w].job IN
  /\ Working(w)
  /\ queue' = queue \ {job}
  /\ workers' = [workers EXCEPT ![w] = Resting]
  /\ UNCHANGED <<rowVars, requests, calls, historyVars>>
ProcessorThrows(w) ==
  LET job == workers[w].job  failures == job.failures + 1 IN
  /\ Working(w)
  /\ queue' = (queue \ {job}) \cup
       {[job EXCEPT !.failures = failures,
                    !.state = IF failures < Attempts(job.row) THEN "waiting" ELSE "failed"]}
  /\ MayHaveWritten(w)
  /\ workers' = [workers EXCEPT ![w] = Resting]
  /\ UNCHANGED <<requests, calls, cut, contested, lost>>

(* The worker dies, perhaps when the last write is done and BullMQ does    *)
(* not know it yet; the stalled job waits again, the second time it fails. *)
WorkerDies(w) ==
  LET job == workers[w].job IN
  /\ Working(w)
  /\ queue' = (queue \ {job}) \cup
       {[job EXCEPT !.stalled = TRUE, !.state = IF job.stalled THEN "failed" ELSE "waiting"]}
  /\ MayHaveWritten(w)
  /\ workers' = [workers EXCEPT ![w] = Resting]
  /\ UNCHANGED <<requests, calls, cut, contested, lost>>

RequestStep(r) ==
  \/ ApplyRemove(r) \/ ApplySubmit(r)
  \/ TryAddBullJob(r) \/ QueuesAreOff(r) \/ Fallback(r)

WorkerStep(w) == Take(w) \/ MarkProcessing(w) \/ Complete(w)

Next ==
  \/ \E r \in Requests :
       \/ CreateExportJob(r) \/ CreateTicket(r) \/ FindForRemove(r) \/ FindForSubmit(r)
       \/ RequestStep(r)
       \/ Abandon(r)
  \/ \E x \in Accounts : CreateAccount(x)
  \/ \E w \in Workers : WorkerStep(w) \/ ProcessorThrows(w) \/ WorkerDies(w)

(* The event loop resumes a request whose await is done, and BullMQ hands  *)
(* a waiting job to a worker that is free.                                 *)
Fairness ==
  /\ \A r \in Requests : WF_vars(RequestStep(r) \/ Abandon(r))
  /\ \A w \in Workers : WF_vars(WorkerStep(w) \/ ProcessorThrows(w))

Spec == Init /\ [][Next]_vars /\ Fairness

-------------------------------------------------------------------------------
TypeOK ==
  /\ exports \in [Exports -> ExportStatus]
  /\ accounts \in [Accounts -> AccountStatus]
  /\ notified \in [Tickets -> Nat]
  /\ queue \subseteq Job
  /\ requests \in [Requests -> {Idle} \cup Call]
  /\ workers \in [Workers -> {Resting} \cup Work]
  /\ \A w \in Workers : Working(w) => workers[w].job \in queue
  /\ calls \in 0..MaxCalls
  /\ cut \subseteq Rows /\ twice \subseteq Rows
  /\ contested \subseteq Accounts /\ lost \subseteq Accounts

InHand(x) == \E r \in Requests : Busy(r) /\ requests[r].row = x
                                   /\ requests[r].step \in {"enqueue", "fallback"}
Queued(x) == \E job \in queue : job.row = x /\ job.state # "failed"
Failed(x) == \E job \in queue : job.row = x /\ job.state = "failed"

Unfinished(x) ==
  \/ x \in Exports /\ exports[x] \in {"queued", "processing"}
  \/ x \in Accounts /\ accounts[x] = "pending_review"

(* A row waits for its work only while a request has it in hand or a job   *)
(* is in the queue, or because the request was cut short or the job used   *)
(* up its attempts: nothing is forgotten on the way to the fallback        *)
(* (app-queue.service.ts:35-64, 85-117).                                   *)
WaitHasCause ==
  \A x \in Rows : Unfinished(x) => InHand(x) \/ Queued(x) \/ Failed(x) \/ x \in cut

(* 'Only draft billing accounts can be deleted': but for a submit that     *)
(* overlapped the removal (billing.service.ts:101-112).                    *)
DraftsDeleted == lost \subseteq contested

(* An export that the client has seen completed is not withdrawn, a ticket *)
(* is not announced again and an account that is verified not put back     *)
(* under review, unless the job of the row is run besides the fallback or  *)
(* again after its write, or two requests for the account overlapped.      *)
DoneOnce ==
  [][ /\ \A x \in Exports :
           exports[x] = "completed" => exports'[x] = "completed" \/ x \in twice
      /\ \A x \in Tickets :
           notified[x] > 0 => notified'[x] = notified[x] \/ x \in twice'
      /\ \A x \in Accounts :
           accounts[x] = "verified" => accounts'[x] = "verified" \/ x \in contested'
    ]_vars

(* Where a worker runs, or queues are off, the work is done in the end, or *)
(* its request was cut short, or the job's attempts are used up.           *)
WorkIsDone ==
  \A x \in Rows : Unfinished(x) ~> ~Unfinished(x) \/ Failed(x) \/ x \in cut

-------------------------------------------------------------------------------
(* What is inductive.  A row whose work is asked for once: an export, or a *)
(* ticket, but not an account, which may be submitted by two requests.     *)
Single == Exports \cup Tickets
HasJob(x) == \E job \in queue : job.row = x
WasDone(x) == (x \in Exports /\ exports[x] = "completed") \/ (x \in Tickets /\ notified[x] > 0)

(* The request that added a job tells it from all others, and a job that a *)
(* worker runs is no other worker's.                                       *)
JobsNamed ==
  /\ \A job \in queue : job.by <= calls
  /\ \A j, k \in queue : j.by = k.by => j = k
  /\ \A r \in Requests : Busy(r) =>
       /\ requests[r].no <= calls
       /\ requests[r].step # "fallback" => \A job \in queue : job.by # requests[r].no
  /\ \A q, r \in Requests :
       Busy(q) /\ Busy(r) /\ requests[q].no = requests[r].no => q = r
  /\ \A w \in Workers : Working(w) => workers[w].job.state = "active"
  /\ \A v, w \in Workers :
       Working(v) /\ Working(w) /\ workers[v].job = workers[w].job => v = w

(* Who is about to remove or submit an account found a draft, which it is  *)
(* still unless somebody else was about to, too.                           *)
LookupsHold ==
  /\ \A r \in Requests : At(r, "remove") \/ At(r, "submit") =>
       /\ requests[r].row \in Accounts
       /\ accounts[requests[r].row] = "draft" \/ requests[r].row \in contested
  /\ \A x \in Accounts : accounts[x] \in {"none", "draft"} => ~InHand(x) /\ ~HasJob(x)

(* The work of a single row is asked for by one request, with one job.  It *)
(* is not done before that, and to be done once more only with a reason.   *)
OneRequest ==
  \A q, r \in Requests, x \in Single :
    Busy(q) /\ Busy(r) /\ requests[q].row = x /\ requests[r].row = x => q = r
OneJob == \A j, k \in queue : j.row = k.row /\ j.row \in Single => j = k
WorkAhead ==
  \A r \in Requests, x \in Single : Busy(r) /\ requests[r].row = x =>
    /\ requests[r].step = "enqueue" => ~HasJob(x) /\ ~WasDone(x)
    /\ HasJob(x) => x \in twice
NoneBegun == \A x \in Exports : exports[x] = "none" => ~InHand(x) /\ ~HasJob(x)
NotAgain == \A x \in Single : WasDone(x) /\ (InHand(x) \/ HasJob(x)) => x \in twice
WorkOnce == OneRequest /\ OneJob /\ WorkAhead /\ NoneBegun /\ NotAgain

JobsInv ==
  TypeOK /\ WaitHasCause /\ DraftsDeleted /\ JobsNamed /\ LookupsHold /\ WorkOnce
===============================================================================
