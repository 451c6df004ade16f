------------------------------ MODULE JobsProofs ------------------------------
(***************************************************************************)
(* Jobs, for any number of rows, requests in flight, workers and attempts: *)
(* the inductive invariant JobsInv, conjunct by conjunct, and what follows *)
(* from it.                                                                *)
(***************************************************************************)
EXTENDS Jobs, TLAPS

USE JobsAssumption

LEMMA InitInv == Init => JobsInv
BY DEF Init, JobsInv, TypeOK, WaitHasCause, DraftsDeleted, JobsNamed, LookupsHold, WorkOnce,
       OneRequest, OneJob, WorkAhead, NoneBegun, NotAgain, Busy, Working, At, Idle, Resting, InHand, HasJob, Queued, Failed, Unfinished, WasDone,
       ExportStatus, AccountStatus, Single, Rows

(* A request that has begun is one of Call; it is busy. *)
LEMMA Begun ==
  ASSUME TypeOK, NEW r \in Requests, NEW x \in Rows,
         NEW step \in {"remove", "submit", "enqueue"}, Begin(r, step, x)
  PROVE  /\ requests' \in [Requests -> {Idle} \cup Call]
         /\ requests'[r] = [step |-> step, row |-> x, no |-> calls + 1]
         /\ Busy(r)' /\ ~Busy(r)
         /\ \A q \in Requests : q # r => requests'[q] = requests[q]
         /\ calls \in Nat /\ calls' = calls + 1 /\ calls' \in 0..MaxCalls
BY DEF TypeOK, Begin, Busy, Call, Idle

(* A request that is busy, a worker that is working *)
LEMMA BusyTyped ==
  ASSUME TypeOK, NEW r \in Requests, Busy(r)
  PROVE  requests[r] \in Call
BY DEF TypeOK, Busy

LEMMA WorkingTyped ==
  ASSUME TypeOK, NEW w \in Workers, Working(w)
  PROVE  workers[w] \in Work /\ workers[w].job \in queue /\ workers[w].job \in Job
BY DEF TypeOK, Working

(* A request that goes on to another step keeps its row and its number. *)
LEMMA GoneOn ==
  ASSUME TypeOK, NEW r \in Requests, Busy(r),
         NEW step \in {"remove", "submit", "enqueue", "fallback"}, GoTo(r, step)
  PROVE  /\ requests' \in [Requests -> {Idle} \cup Call]
         /\ requests'[r] = [step |-> step, row |-> requests[r].row, no |-> requests[r].no]
         /\ Busy(r)'
         /\ \A q \in Requests : q # r => requests'[q] = requests[q]
<1>1. requests[r] \in Call
  BY BusyTyped
<1> QED
  BY <1>1 DEF TypeOK, GoTo, Busy, Call, Idle

LEMMA Answered ==
  ASSUME TypeOK, NEW r \in Requests, Answer(r)
  PROVE  /\ requests' \in [Requests -> {Idle} \cup Call]
         /\ ~Busy(r)'
         /\ requests'[r] = Idle
         /\ \A q \in Requests : q # r => requests'[q] = requests[q]
BY DEF TypeOK, Answer, Busy

(* The work of a row leaves all other rows as they are. *)
LEMMA DoneTyped ==
  ASSUME TypeOK, NEW x \in Rows, Done(x)
  PROVE  /\ exports' \in [Exports -> ExportStatus]
         /\ accounts' \in [Accounts -> AccountStatus]
         /\ notified' \in [Tickets -> Nat]
         /\ \A y \in Exports : exports'[y] = IF y = x THEN "completed" ELSE exports[y]
         /\ \A y \in Accounts : accounts'[y] = IF y = x THEN "verified" ELSE accounts[y]
         /\ \A y \in Tickets : notified'[y] = IF y = x THEN notified[y] + 1 ELSE notified[y]
         /\ x \in Accounts => accounts[x] # "deleted"
BY DEF TypeOK, Done, ExportStatus, AccountStatus, Rows

(* The job of a request, and a job that a worker has given back *)
LEMMA NewJobTyped ==
  ASSUME TypeOK, NEW r \in Requests, Busy(r)
  PROVE  /\ NewJob(r) \in Job
         /\ NewJob(r).row = requests[r].row
         /\ NewJob(r).by = requests[r].no
         /\ NewJob(r).state = "waiting"
BY BusyTyped DEF NewJob, Job, Call

(* A worker that rests again leaves the jobs of the others in the queue. *)
LEMMA Rested ==
  ASSUME TypeOK, JobsNamed, NEW w \in Workers, Working(w),
         queue \ {workers[w].job} \subseteq queue',
         workers' = [workers EXCEPT ![w] = Resting]
  PROVE  /\ workers' \in [Workers -> {Resting} \cup Work]
         /\ ~Working(w)'
         /\ \A v \in Workers : v # w => workers'[v] = workers[v]
         /\ \A v \in Workers : Working(v)' => Working(v) /\ v # w /\ workers'[v].job \in queue'
<1>1. /\ workers' \in [Workers -> {Resting} \cup Work]
      /\ ~Working(w)'
      /\ \A v \in Workers : v # w => workers'[v] = workers[v]
  BY DEF TypeOK, Working
<1>2. ASSUME NEW v \in Workers, Working(v)'
      PROVE  Working(v) /\ v # w /\ workers'[v].job \in queue'
  <2>1. v # w /\ workers'[v] = workers[v] /\ Working(v)
    BY <1>1, <1>2 DEF Working
  <2>2. workers[v].job # workers[w].job /\ workers[v].job \in queue
    BY <2>1 DEF JobsNamed, TypeOK
  <2> QED
    BY <2>1, <2>2
<1> QED
  BY <1>1, <1>2

(* A job that is taken is active; nobody else has it. *)
LEMMA Taken ==
  ASSUME TypeOK, JobsNamed, NEW w \in Workers, Take(w)
  PROVE  \E job \in queue, active \in Job :
           /\ job \in Job /\ job.state = "waiting" /\ active.state = "active"
           /\ active.row = job.row /\ active.by = job.by
           /\ queue' = (queue \ {job}) \cup {active}
           /\ ~Working(w) /\ Working(w)' /\ workers'[w].job = active
           /\ workers'[w].step = IF job.row \in Exports THEN "process" ELSE "complete"
           /\ workers' \in [Workers -> {Resting} \cup Work]
           /\ \A v \in Workers : v # w => workers'[v] = workers[v]
           /\ \A v \in Workers : Working(v) =>
                v # w /\ workers[v].job # job /\ workers[v].job \in queue
<1>1. PICK job \in queue :
        /\ ~Working(w)
        /\ job.state = "waiting"
        /\ queue' = (queue \ {job}) \cup {[job EXCEPT !.state = "active"]}
        /\ workers' = [workers EXCEPT ![w] =
             [step |-> IF job.row \in Exports THEN "process" ELSE "complete",
              job |-> [job EXCEPT !.state = "active"]]]
  BY DEF Take
<1> DEFINE active == [job EXCEPT !.state = "active"]
<1>2. /\ job \in Job /\ active \in Job /\ active.state = "active"
      /\ active.row = job.row /\ active.by = job.by
  BY DEF TypeOK, Job
<1> HIDE DEF active
<1>3. workers' = [workers EXCEPT ![w] =
        [step |-> IF job.row \in Exports THEN "process" ELSE "complete", job |-> active]]
      /\ queue' = (queue \ {job}) \cup {active}
  BY <1>1 DEF active
<1>4. /\ workers' \in [Workers -> {Resting} \cup Work]
      /\ workers'[w] =
           [step |-> IF job.row \in Exports THEN "process" ELSE "complete", job |-> active]
      /\ \A v \in Workers : v # w => workers'[v] = workers[v]
  BY <1>2, <1>3 DEF TypeOK, Work
<1>5. Working(w)'
  BY <1>4 DEF Working, Resting
<1>6. \A v \in Workers : Working(v) =>
        v # w /\ workers[v].job # job /\ workers[v].job \in queue
  BY <1>1 DEF JobsNamed, TypeOK
<1> QED
  BY <1>1, <1>2, <1>3, <1>4, <1>5, <1>6

(* A job that is given back keeps its row and its number. *)
LEMMA GivenBack ==
  ASSUME TypeOK, JobsNamed, NEW w \in Workers, ProcessorThrows(w) \/ WorkerDies(w)
  PROVE  /\ Working(w)
         /\ workers' = [workers EXCEPT ![w] = Resting]
         /\ MayHaveWritten(w)
         /\ UNCHANGED <<requests, calls, cut, contested, lost>>
         /\ \E back \in Job :
              /\ back.row = workers[w].job.row /\ back.by = workers[w].job.by
              /\ queue' = (queue \ {workers[w].job}) \cup {back}
<1> DEFINE job == workers[w].job
<1>1. Working(w) /\ job \in Job
  BY WorkingTyped DEF ProcessorThrows, WorkerDies
<1>2. CASE ProcessorThrows(w)
  <2> DEFINE failures == job.failures + 1
             state == IF failures < Attempts(job.row) THEN "waiting" ELSE "failed"
             back == [job EXCEPT !.failures = failures, !.state = state]
  <2>4. failures \in Nat /\ state \in {"waiting", "failed"}
    BY <1>1 DEF Job
  <2>1. back \in Job /\ back.row = job.row /\ back.by = job.by
    <3> HIDE DEF failures, state, job
    <3> QED
      BY <1>1, <2>4 DEF Job
  <2>2. queue' = (queue \ {job}) \cup {back}
    BY <1>2 DEF ProcessorThrows
  <2>3. /\ workers' = [workers EXCEPT ![w] = Resting] /\ MayHaveWritten(w)
        /\ UNCHANGED <<requests, calls, cut, contested, lost>>
    BY <1>2 DEF ProcessorThrows
  <2> HIDE DEF back
  <2> QED
    BY <1>1, <2>1, <2>2, <2>3
<1>3. CASE WorkerDies(w)
  <2> DEFINE back == [job EXCEPT !.stalled = TRUE,
                                 !.state = IF job.stalled THEN "failed" ELSE "waiting"]
  <2>1. back \in Job /\ back.row = job.row /\ back.by = job.by
    BY <1>1 DEF Job
  <2>2. queue' = (queue \ {job}) \cup {back}
    BY <1>3 DEF WorkerDies
  <2>3. /\ workers' = [workers EXCEPT ![w] = Resting] /\ MayHaveWritten(w)
        /\ UNCHANGED <<requests, calls, cut, contested, lost>>
    BY <1>3 DEF WorkerDies
  <2> HIDE DEF back
  <2> QED
    BY <1>1, <2>1, <2>2, <2>3
<1> QED
  BY <1>2, <1>3

-------------------------------------------------------------------------------
(* Type correctness.  That a worker's job is in the queue rests on the     *)
(* jobs being told apart.                                                  *)
LEMMA TypeStep ==
  ASSUME TypeOK, JobsNamed, LookupsHold, [Next]_vars
  PROVE  TypeOK'
<1>1. ASSUME NEW r \in Requests, CreateExportJob(r) PROVE TypeOK'
  <2>1. PICK x \in Exports : /\ Begin(r, "enqueue", x)
                             /\ exports' = [exports EXCEPT ![x] = "queued"]
    BY <1>1 DEF CreateExportJob
  <2>2. x \in Rows
    BY DEF Rows
  <2> QED
    BY <1>1, <2>1, <2>2, Begun DEF TypeOK, CreateExportJob, ExportStatus, historyVars, Working
<1>2. ASSUME NEW r \in Requests, CreateTicket(r) PROVE TypeOK'
  <2>1. PICK x \in Tickets : Begin(r, "enqueue", x)
    BY <1>2 DEF CreateTicket
  <2>2. x \in Rows
    BY DEF Rows
  <2> QED
    BY <1>2, <2>1, <2>2, Begun DEF TypeOK, CreateTicket, historyVars, Working
<1>3. ASSUME NEW r \in Requests, FindForRemove(r) \/ FindForSubmit(r) PROVE TypeOK'
  <2>1. PICK x \in Accounts, step \in {"remove", "submit"} : Begin(r, step, x)
    BY <1>3 DEF FindForRemove, FindForSubmit
  <2>2. x \in Rows
    BY DEF Rows
  <2> QED
    BY <1>3, <2>1, <2>2, Begun
    DEF TypeOK, FindForRemove, FindForSubmit, historyVars, Working
<1>4. ASSUME NEW x \in Accounts, CreateAccount(x) PROVE TypeOK'
  BY <1>4 DEF TypeOK, CreateAccount, AccountStatus, historyVars, Working
<1>5. ASSUME NEW r \in Requests, ApplyRemove(r) PROVE TypeOK'
  <2>1. requests[r].row \in Accounts
    BY <1>5 DEF ApplyRemove, LookupsHold
  <2> QED
    BY <1>5, <2>1, Answered DEF TypeOK, ApplyRemove, AccountStatus, Working
<1>6. ASSUME NEW r \in Requests, ApplySubmit(r) PROVE TypeOK'
  <2>1. requests[r].row \in Accounts /\ Busy(r) /\ GoTo(r, "enqueue")
    BY <1>6 DEF ApplySubmit, LookupsHold, At
  <2> QED
    BY <1>6, <2>1, GoneOn DEF TypeOK, ApplySubmit, AccountStatus, Working
<1>7. ASSUME NEW r \in Requests, TryAddBullJob(r) PROVE TypeOK'
  <2>1. Busy(r) /\ requests[r] \in Call /\ NewJob(r) \in Job
    BY <1>7, BusyTyped, NewJobTyped DEF TryAddBullJob, At
  <2>2. /\ queue' \subseteq Job /\ queue \subseteq queue'
        /\ twice' \subseteq Rows
        /\ Answer(r) \/ GoTo(r, "fallback")
    BY <1>7, <2>1 DEF TryAddBullJob, TypeOK, Call
  <2>3. requests' \in [Requests -> {Idle} \cup Call]
    BY <2>1, <2>2, Answered, GoneOn
  <2> QED
    BY <1>7, <2>2, <2>3 DEF TypeOK, TryAddBullJob, rowVars, Working
<1>8. ASSUME NEW r \in Requests, QueuesAreOff(r) PROVE TypeOK'
  <2>1. Busy(r) /\ GoTo(r, "fallback")
    BY <1>8 DEF QueuesAreOff, At
  <2> QED
    BY <1>8, <2>1, GoneOn DEF TypeOK, QueuesAreOff, rowVars, historyVars, Working
<1>9. ASSUME NEW r \in Requests, Fallback(r) PROVE TypeOK'
  <2>1. requests[r] \in Call /\ Done(requests[r].row)
    BY <1>9, BusyTyped DEF Fallback, At
  <2>2. requests[r].row \in Rows
    BY <2>1 DEF Call
  <2> QED
    BY <1>9, <2>1, <2>2, Answered, DoneTyped DEF TypeOK, Fallback, historyVars, Working
<1>10. ASSUME NEW r \in Requests, Abandon(r) PROVE TypeOK'
  <2>1. requests[r] \in Call
    BY <1>10, BusyTyped DEF Abandon
  <2>2. cut' \subseteq Rows
    BY <1>10, <2>1 DEF Abandon, TypeOK, Call
  <2> QED
    BY <1>10, <2>2, Answered DEF TypeOK, Abandon, rowVars, Working
<1>11. ASSUME NEW w \in Workers, Take(w) PROVE TypeOK'
  <2>1. PICK job \in queue, active \in Job :
          /\ queue' = (queue \ {job}) \cup {active}
          /\ workers'[w].job = active
          /\ workers' \in [Workers -> {Resting} \cup Work]
          /\ \A v \in Workers : v # w => workers'[v] = workers[v]
          /\ \A v \in Workers : Working(v) => workers[v].job # job /\ workers[v].job \in queue
    BY <1>11, Taken
  <2>2. \A v \in Workers : Working(v)' => workers'[v].job \in queue'
    BY <2>1 DEF Working
  <2> QED
    BY <1>11, <2>1, <2>2 DEF TypeOK, Take, rowVars, historyVars
<1>12. ASSUME NEW w \in Workers, MarkProcessing(w) PROVE TypeOK'
  <2>1. /\ Working(w) /\ workers[w] \in Work
        /\ workers' = [workers EXCEPT ![w].step = "complete"]
    BY <1>12, WorkingTyped DEF MarkProcessing
  <2>2. /\ workers' \in [Workers -> {Resting} \cup Work]
        /\ \A v \in Workers : Working(v)' => Working(v) /\ workers'[v].job = workers[v].job
    BY <2>1 DEF TypeOK, Work, Working
  <2>3. exports' \in [Exports -> ExportStatus]
    BY <1>12 DEF MarkProcessing, TypeOK, ExportStatus
  <2> QED
    BY <1>12, <2>2, <2>3 DEF TypeOK, MarkProcessing, historyVars
<1>13. ASSUME NEW w \in Workers, Complete(w) PROVE TypeOK'
  <2>1. Working(w) /\ Done(workers[w].job.row) /\ workers[w].job.row \in Rows
    BY <1>13, WorkingTyped DEF Complete, Job
  <2> QED
    BY <1>13, <2>1, Rested, DoneTyped DEF TypeOK, Complete, historyVars
<1>14. ASSUME NEW w \in Workers, ProcessorThrows(w) \/ WorkerDies(w) PROVE TypeOK'
  <2>1. PICK back \in Job : queue' = (queue \ {workers[w].job}) \cup {back}
    BY <1>14, GivenBack
  <2>2. /\ Working(w) /\ workers[w].job.row \in Rows /\ MayHaveWritten(w)
        /\ workers' = [workers EXCEPT ![w] = Resting]
        /\ UNCHANGED <<requests, calls, cut, contested, lost>>
    BY <1>14, GivenBack, WorkingTyped DEF Job
  <2>3. /\ exports' \in [Exports -> ExportStatus]
        /\ accounts' \in [Accounts -> AccountStatus]
        /\ notified' \in [Tickets -> Nat]
        /\ twice' \subseteq Rows
    BY <2>2, DoneTyped DEF MayHaveWritten, rowVars, TypeOK
  <2> QED
    BY <2>1, <2>2, <2>3, Rested DEF TypeOK
<1>15. CASE UNCHANGED vars
  BY <1>15 DEF TypeOK, vars, Working
<1> QED
  BY <1>1, <1>2, <1>3, <1>4, <1>5, <1>6, <1>7, <1>8, <1>9, <1>10, <1>11, <1>12,
     <1>13, <1>14, <1>15
  DEF Next, RequestStep, WorkerStep

(* The requests that begin do nothing but write their own row. *)
LEMMA Beginning ==
  ASSUME TypeOK, NEW r \in Requests,
         CreateExportJob(r) \/ CreateTicket(r) \/ FindForRemove(r) \/ FindForSubmit(r)
  PROVE  \E x \in Rows, step \in {"remove", "submit", "enqueue"} :
           /\ Begin(r, step, x)
           /\ UNCHANGED <<queue, workers, cut, twice, contested, lost, notified, accounts>>
           /\ step = "enqueue" => x \in Single
           /\ step # "enqueue" => x \in Accounts /\ accounts[x] = "draft"
           /\ \A y \in Exports : y # x => exports'[y] = exports[y]
           /\ x \in Exports => exports[x] = "none" /\ exports'[x] = "queued"
           /\ x \in Tickets => /\ notified[x] = 0 /\ \A job \in queue : job.row # x
                               /\ \A q \in Requests : Busy(q) => requests[q].row # x
<1>1. CASE CreateExportJob(r)
  <2>1. PICK x \in Exports : /\ Begin(r, "enqueue", x) /\ exports[x] = "none"
                             /\ exports' = [exports EXCEPT ![x] = "queued"]
    BY <1>1 DEF CreateExportJob
  <2>2. x \in Rows /\ x \in Single /\ x \notin Tickets
    BY DEF Rows, Single
  <2>3. UNCHANGED <<queue, workers, cut, twice, contested, lost, notified, accounts>>
    BY <1>1 DEF CreateExportJob, historyVars
  <2> QED
    BY <2>1, <2>2, <2>3 DEF TypeOK
<1>2. CASE CreateTicket(r)
  <2>1. PICK x \in Tickets : /\ Begin(r, "enqueue", x) /\ notified[x] = 0
                             /\ \A job \in queue : job.row # x
                             /\ \A q \in Requests : Busy(q) => requests[q].row # x
    BY <1>2 DEF CreateTicket
  <2>2. x \in Rows /\ x \in Single /\ x \notin Exports
    BY DEF Rows, Single
  <2>3. UNCHANGED <<queue, workers, cut, twice, contested, lost, exports, notified, accounts>>
    BY <1>2 DEF CreateTicket, historyVars
  <2> QED
    BY <2>1, <2>2, <2>3
<1>3. CASE FindForRemove(r) \/ FindForSubmit(r)
  <2>1. PICK x \in Accounts, step \in {"remove", "submit"} :
          Begin(r, step, x) /\ accounts[x] = "draft"
    BY <1>3 DEF FindForRemove, FindForSubmit
  <2>2. x \in Rows /\ x \notin Exports /\ x \notin Tickets
    BY DEF Rows
  <2>3. UNCHANGED <<queue, workers, cut, twice, contested, lost, exports, notified, accounts>>
    BY <1>3 DEF FindForRemove, FindForSubmit, historyVars
  <2> QED
    BY <2>1, <2>2, <2>3
<1> QED
  BY <1>1, <1>2, <1>3

(* What an attempt to queue comes to: only a job that is queued and then   *)
(* done by the request besides is marked.                                  *)
LEMMA Tried ==
  ASSUME TypeOK, NEW r \in Requests, TryAddBullJob(r)
  PROVE  /\ Busy(r) /\ requests[r].step = "enqueue"
         /\ UNCHANGED <<exports, accounts, notified, workers, calls, cut, contested, lost>>
         /\ \A q \in Requests : q # r => requests'[q] = requests[q]
         /\ queue' \in {queue, queue \cup {NewJob(r)}}
         /\ twice \subseteq twice'
         /\ \/ ~Busy(r)' /\ queue' = queue \cup {NewJob(r)}
            \/ /\ requests'[r] =
                    [step |-> "fallback", row |-> requests[r].row, no |-> requests[r].no]
               /\ Busy(r)'
               /\ queue' = queue \/ requests[r].row \in twice'
<1>1. /\ Busy(r) /\ requests[r].step = "enqueue"
      /\ UNCHANGED <<exports, accounts, notified, workers, calls, cut, contested, lost>>
      /\ queue' \in {queue, queue \cup {NewJob(r)}}
      /\ twice \subseteq twice'
      /\ \/ Answer(r) /\ queue' = queue \cup {NewJob(r)}
         \/ /\ GoTo(r, "fallback")
            /\ queue' = queue \/ requests[r].row \in twice'
  BY DEF TryAddBullJob, At, rowVars
<1>2. CASE Answer(r) /\ queue' = queue \cup {NewJob(r)}
  <2>1. ~Busy(r)' /\ \A q \in Requests : q # r => requests'[q] = requests[q]
    BY <1>2, Answered, Zenon
  <2> QED
    BY <1>1, <1>2, <2>1
<1>3. CASE GoTo(r, "fallback") /\ (queue' = queue \/ requests[r].row \in twice')
  <2>1. "fallback" \in {"remove", "submit", "enqueue", "fallback"}
    OBVIOUS
  <2>2. /\ requests'[r] =
             [step |-> "fallback", row |-> requests[r].row, no |-> requests[r].no]
        /\ Busy(r)'
        /\ \A q \in Requests : q # r => requests'[q] = requests[q]
    BY <1>1, <1>3, <2>1, GoneOn, Zenon
  <2> QED
    BY <1>1, <1>3, <2>2
<1> QED
  BY <1>1, <1>2, <1>3

(* Each request adds one job at most, under its own number. *)
LEMMA NamedStep ==
  ASSUME TypeOK, JobsNamed, [Next]_vars
  PROVE  JobsNamed'
<1>1. ASSUME NEW r \in Requests,
             CreateExportJob(r) \/ CreateTicket(r) \/ FindForRemove(r) \/ FindForSubmit(r)
      PROVE  JobsNamed'
  <2>1. PICK x \in Rows, step \in {"remove", "submit", "enqueue"} :
          Begin(r, step, x) /\ UNCHANGED <<queue, workers>>
    BY <1>1, Beginning
  <2>2. /\ requests'[r] = [step |-> step, row |-> x, no |-> calls + 1]
        /\ \A q \in Requests : q # r => requests'[q] = requests[q]
        /\ calls \in Nat /\ calls' = calls + 1
    BY <2>1, Begun, Zenon
  <2>3. \A q \in Requests : Busy(q) => requests[q].no \in Nat
    BY BusyTyped DEF Call
  <2>4. \A job \in queue : job.by \in Nat
    BY DEF TypeOK, Job
  <2> QED
    BY <2>1, <2>2, <2>3, <2>4 DEF JobsNamed, Busy, Working
<1>2. ASSUME NEW x \in Accounts, CreateAccount(x) PROVE JobsNamed'
  <2>1. /\ UNCHANGED <<queue, workers, requests>> /\ calls \in Nat /\ calls' = calls + 1
    BY <1>2 DEF CreateAccount, TypeOK
  <2>3. \A q \in Requests : Busy(q) => requests[q].no \in Nat
    BY BusyTyped DEF Call
  <2>4. \A job \in queue : job.by \in Nat
    BY DEF TypeOK, Job
  <2> QED
    BY <2>1, <2>3, <2>4 DEF JobsNamed, Busy, Working
<1>3. ASSUME NEW r \in Requests, ApplyRemove(r) \/ Fallback(r) \/ Abandon(r) PROVE JobsNamed'
  <2>1. Answer(r) /\ UNCHANGED <<queue, workers, calls>>
    BY <1>3 DEF ApplyRemove, Fallback, Abandon
  <2> QED
    BY <2>1, Answered DEF JobsNamed, Busy, Working
<1>4. ASSUME NEW r \in Requests, ApplySubmit(r) \/ QueuesAreOff(r) PROVE JobsNamed'
  <2>1. PICK step \in {"enqueue", "fallback"} :
          /\ Busy(r) /\ GoTo(r, step) /\ UNCHANGED <<queue, workers, calls>>
          /\ requests[r].step # "fallback"
    BY <1>4 DEF ApplySubmit, QueuesAreOff, At, rowVars, historyVars
  <2>3. step \in {"remove", "submit", "enqueue", "fallback"}
    OBVIOUS
  <2>2. /\ requests'[r] = [step |-> step, row |-> requests[r].row, no |-> requests[r].no]
        /\ \A q \in Requests : q # r => requests'[q] = requests[q]
    BY <2>1, <2>3, GoneOn, Zenon
  <2> QED
    BY <2>1, <2>2 DEF JobsNamed, Busy, Working
<1>5. ASSUME NEW r \in Requests, TryAddBullJob(r) PROVE JobsNamed'
  <2>1. /\ Busy(r) /\ requests[r].step = "enqueue"
        /\ queue' \in {queue, queue \cup {NewJob(r)}}
        /\ UNCHANGED <<workers, calls>>
        /\ \A q \in Requests : q # r => requests'[q] = requests[q]
        /\ \/ ~Busy(r)'
           \/ requests'[r] = [step |-> "fallback", row |-> requests[r].row, no |-> requests[r].no]
    BY <1>5, Tried
  <2>2. NewJob(r).by = requests[r].no
    BY <2>1, NewJobTyped, Zenon
  <2>3. Busy(r)' => requests'[r].no = requests[r].no /\ requests'[r].step = "fallback"
    BY <2>1
  <2> HIDE DEF NewJob
  <2>4. /\ \A job \in queue' : job.by <= calls'
        /\ \A j, k \in queue' : j.by = k.by => j = k
    BY <2>1, <2>2 DEF JobsNamed
  <2>5. \A q \in Requests : Busy(q)' =>
          /\ requests'[q].no <= calls'
          /\ requests'[q].step # "fallback" => \A job \in queue' : job.by # requests'[q].no
    BY <2>1, <2>2, <2>3 DEF JobsNamed, Busy
  <2>6. \A p, q \in Requests :
          Busy(p)' /\ Busy(q)' /\ requests'[p].no = requests'[q].no => p = q
    BY <2>1, <2>3 DEF JobsNamed, Busy
  <2> QED
    BY <2>1, <2>4, <2>5, <2>6 DEF JobsNamed, Busy, Working
<1>6. ASSUME NEW w \in Workers, Take(w) PROVE JobsNamed'
  <2>1. PICK job \in queue, active \in Job :
          /\ active.state = "active" /\ active.by = job.by
          /\ queue' = (queue \ {job}) \cup {active}
          /\ workers'[w].job = active
          /\ \A v \in Workers : v # w => workers'[v] = workers[v]
          /\ \A v \in Workers : Working(v) =>
               v # w /\ workers[v].job # job /\ workers[v].job \in queue
    BY <1>6, Taken
  <2>2. UNCHANGED <<requests, calls>>
    BY <1>6 DEF Take
  <2>3. \A v \in Workers : Working(v)' /\ v # w => Working(v) /\ workers'[v].job # active
    BY <2>1 DEF JobsNamed, Working
  <2> QED
    BY <2>1, <2>2, <2>3 DEF JobsNamed, Busy, Working
<1>7. ASSUME NEW w \in Workers, MarkProcessing(w) PROVE JobsNamed'
  <2>1. /\ Working(w) /\ workers[w] \in Work /\ UNCHANGED <<queue, requests, calls>>
        /\ workers' = [workers EXCEPT ![w].step = "complete"]
    BY <1>7, WorkingTyped DEF MarkProcessing, historyVars
  <2>2. \A v \in Workers : Working(v)' => Working(v) /\ workers'[v].job = workers[v].job
    BY <2>1 DEF TypeOK, Work, Working
  <2> QED
    BY <2>1, <2>2 DEF JobsNamed, Busy
<1>8. ASSUME NEW w \in Workers, Complete(w) PROVE JobsNamed'
  <2>1. /\ Working(w) /\ queue' = queue \ {workers[w].job}
        /\ workers' = [workers EXCEPT ![w] = Resting] /\ UNCHANGED <<requests, calls>>
    BY <1>8 DEF Complete, historyVars
  <2>2. \A v \in Workers : Working(v)' => Working(v) /\ workers'[v] = workers[v]
    BY <2>1, Rested
  <2> QED
    BY <2>1, <2>2 DEF JobsNamed, Busy
<1>9. ASSUME NEW w \in Workers, ProcessorThrows(w) \/ WorkerDies(w) PROVE JobsNamed'
  <2>1. PICK back \in Job :
          /\ back.by = workers[w].job.by
          /\ queue' = (queue \ {workers[w].job}) \cup {back}
    BY <1>9, GivenBack
  <2>2. /\ Working(w) /\ workers[w].job \in queue
        /\ workers' = [workers EXCEPT ![w] = Resting] /\ UNCHANGED <<requests, calls>>
    BY <1>9, GivenBack, WorkingTyped
  <2>3. \A v \in Workers : Working(v)' => Working(v) /\ workers'[v] = workers[v]
    BY <2>1, <2>2, Rested
  <2> QED
    BY <2>1, <2>2, <2>3 DEF JobsNamed, Busy
<1>10. CASE UNCHANGED vars
  BY <1>10 DEF JobsNamed, vars, Working, Busy
<1> QED
  BY <1>1, <1>2, <1>3, <1>4, <1>5, <1>6, <1>7, <1>8, <1>9, <1>10
  DEF Next, RequestStep, WorkerStep

-------------------------------------------------------------------------------
(* A step of one request leaves what the others have in hand. *)
LEMMA HandsKept ==
  ASSUME NEW r \in Requests, NEW y,
         \A q \in Requests : q # r => requests'[q] = requests[q],
         InHand(y),
         Busy(r) /\ requests[r].row = y /\ requests[r].step \in {"enqueue", "fallback"} =>
           Busy(r)' /\ requests'[r].row = y /\ requests'[r].step \in {"enqueue", "fallback"}
  PROVE  InHand(y)'
BY DEF InHand, Busy

(* A row waits with a cause: each step hands it from one cause to another. *)
LEMMA WaitStep ==
  ASSUME TypeOK, JobsNamed, WaitHasCause, [Next]_vars
  PROVE  WaitHasCause'
<1> SUFFICES ASSUME NEW y \in Rows, Unfinished(y)'
             PROVE  InHand(y)' \/ Queued(y)' \/ Failed(y)' \/ y \in cut'
  BY DEF WaitHasCause, Rows
<1>0. Unfinished(y) => InHand(y) \/ Queued(y) \/ Failed(y) \/ y \in cut
  BY DEF WaitHasCause
<1> DEFINE Goal == InHand(y)' \/ Queued(y)' \/ Failed(y)' \/ y \in cut'
<1>1. ASSUME NEW r \in Requests,
             CreateExportJob(r) \/ CreateTicket(r) \/ FindForRemove(r) \/ FindForSubmit(r)
      PROVE  Goal
  <2>1. PICK x \in Rows, step \in {"remove", "submit", "enqueue"} :
          /\ Begin(r, step, x)
          /\ UNCHANGED <<queue, cut, accounts>>
          /\ step # "enqueue" => x \in Accounts
          /\ \A z \in Exports : z # x => exports'[z] = exports[z]
    BY <1>1, Beginning, Zenon
  <2>2. /\ requests'[r] = [step |-> step, row |-> x, no |-> calls + 1]
        /\ Busy(r)' /\ ~Busy(r)
        /\ \A q \in Requests : q # r => requests'[q] = requests[q]
    BY <2>1, Begun, Zenon
  <2>3. CASE y = x /\ step = "enqueue"
    BY <2>2, <2>3 DEF InHand
  <2>4. CASE ~(y = x /\ step = "enqueue")
    <3>1. Unfinished(y)
      BY <2>1, <2>4 DEF Unfinished
    <3>2. InHand(y) => InHand(y)'
      BY <2>2, HandsKept, Zenon
    <3> QED
      BY <1>0, <2>1, <3>1, <3>2 DEF Queued, Failed
  <2> QED
    BY <2>3, <2>4
<1>2. ASSUME NEW x \in Accounts, CreateAccount(x) PROVE Goal
  <2>1. Unfinished(y) /\ UNCHANGED <<requests, queue, cut>>
    BY <1>2 DEF CreateAccount, TypeOK, Unfinished, historyVars
  <2> QED
    BY <1>0, <2>1 DEF Queued, Failed, InHand, Busy
<1>3. ASSUME NEW r \in Requests, ApplyRemove(r) PROVE Goal
  <2>1. /\ Unfinished(y) /\ UNCHANGED <<queue, cut>> /\ Answer(r)
        /\ requests[r].step = "remove"
    BY <1>3 DEF ApplyRemove, TypeOK, Unfinished, At
  <2>2. \A q \in Requests : q # r => requests'[q] = requests[q]
    BY <2>1, Answered, Zenon
  <2>3. InHand(y) => InHand(y)'
    BY <2>1, <2>2, HandsKept
  <2> QED
    BY <1>0, <2>1, <2>3 DEF Queued, Failed
<1>4. ASSUME NEW r \in Requests, ApplySubmit(r) \/ QueuesAreOff(r) PROVE Goal
  <2>1. PICK step \in {"enqueue", "fallback"} :
          /\ Busy(r) /\ GoTo(r, step) /\ UNCHANGED <<queue, cut>>
          /\ requests[r].row = y \/ (Unfinished(y)' => Unfinished(y))
    BY <1>4 DEF ApplySubmit, QueuesAreOff, At, rowVars, historyVars, Unfinished, TypeOK
  <2>2. step \in {"remove", "submit", "enqueue", "fallback"}
    OBVIOUS
  <2>3. /\ requests'[r] = [step |-> step, row |-> requests[r].row, no |-> requests[r].no]
        /\ Busy(r)'
        /\ \A q \in Requests : q # r => requests'[q] = requests[q]
    BY <2>1, <2>2, GoneOn, Zenon
  <2>4. requests[r].row = y => InHand(y)'
    BY <2>1, <2>3 DEF InHand
  <2>5. InHand(y) => InHand(y)'
    BY <2>3, <2>4, HandsKept
  <2> QED
    BY <1>0, <2>1, <2>4, <2>5 DEF Queued, Failed
<1>5. ASSUME NEW r \in Requests, TryAddBullJob(r) PROVE Goal
  <2>1. /\ Busy(r)
        /\ UNCHANGED <<exports, accounts, cut>>
        /\ \A q \in Requests : q # r => requests'[q] = requests[q]
        /\ queue' \in {queue, queue \cup {NewJob(r)}}
        /\ \/ ~Busy(r)' /\ queue' = queue \cup {NewJob(r)}
           \/ /\ requests'[r] =
                   [step |-> "fallback", row |-> requests[r].row, no |-> requests[r].no]
              /\ Busy(r)'
    BY <1>5, Tried
  <2>2. Unfinished(y)
    BY <2>1 DEF Unfinished
  <2>3. NewJob(r).row = requests[r].row /\ NewJob(r).state = "waiting"
    BY <2>1, NewJobTyped, Zenon
  <2> HIDE DEF NewJob
  <2>4. CASE requests[r].row = y
    BY <2>1, <2>3, <2>4 DEF Queued, InHand
  <2>5. CASE requests[r].row # y
    <3>1. InHand(y) => InHand(y)'
      BY <2>1, <2>5, HandsKept
    <3> QED
      BY <1>0, <2>1, <2>2, <3>1 DEF Queued, Failed
  <2> QED
    BY <2>4, <2>5
<1>6. ASSUME NEW r \in Requests, Fallback(r) PROVE Goal
  <2>1. /\ Busy(r) /\ Answer(r) /\ Done(requests[r].row) /\ UNCHANGED <<queue, cut>>
        /\ requests[r].row \in Rows
    BY <1>6, BusyTyped DEF Fallback, At, historyVars, Call
  <2>2. Unfinished(y) /\ y # requests[r].row
    BY <2>1, DoneTyped DEF Unfinished
  <2>3. \A q \in Requests : q # r => requests'[q] = requests[q]
    BY <2>1, Answered, Zenon
  <2>4. InHand(y) => InHand(y)'
    BY <2>2, <2>3, HandsKept
  <2> QED
    BY <1>0, <2>1, <2>2, <2>4 DEF Queued, Failed
<1>7. ASSUME NEW r \in Requests, Abandon(r) PROVE Goal
  <2>1. /\ Answer(r) /\ Unfinished(y) /\ queue' = queue /\ cut \subseteq cut'
        /\ requests[r].step \in {"enqueue", "fallback"} => requests[r].row \in cut'
    BY <1>7 DEF Abandon, rowVars, Unfinished
  <2>2. \A q \in Requests : q # r => requests'[q] = requests[q]
    BY <2>1, Answered, Zenon
  <2>3. y \in cut' \/ (InHand(y) => InHand(y)')
    BY <2>1, <2>2, HandsKept
  <2> QED
    BY <1>0, <2>1, <2>3 DEF Queued, Failed
<1>8. ASSUME NEW w \in Workers, Take(w) PROVE Goal
  <2>1. PICK job \in queue, active \in Job :
          /\ job.state = "waiting" /\ active.state = "active" /\ active.row = job.row
          /\ queue' = (queue \ {job}) \cup {active}
    BY <1>8, Taken
  <2>2. Unfinished(y) /\ UNCHANGED <<requests, cut>>
    BY <1>8 DEF Take, Unfinished, rowVars, historyVars
  <2> QED
    BY <1>0, <2>1, <2>2 DEF Queued, Failed, InHand, Busy
<1>9. ASSUME NEW w \in Workers, MarkProcessing(w) PROVE Goal
  <2>1. /\ Working(w) /\ UNCHANGED <<requests, queue, cut>>
        /\ workers[w].job \in queue /\ workers[w].job.state = "active"
        /\ workers[w].job.row = y \/ Unfinished(y)
    BY <1>9, WorkingTyped DEF MarkProcessing, historyVars, JobsNamed, Unfinished, TypeOK
  <2> QED
    BY <1>0, <2>1 DEF Queued, Failed, InHand, Busy
<1>10. ASSUME NEW w \in Workers, Complete(w) PROVE Goal
  <2>1. /\ Done(workers[w].job.row) /\ queue' = queue \ {workers[w].job}
        /\ UNCHANGED <<requests, cut>> /\ workers[w].job.row \in Rows
    BY <1>10, WorkingTyped DEF Complete, historyVars, Job
  <2>2. Unfinished(y) /\ y # workers[w].job.row
    BY <2>1, DoneTyped DEF Unfinished
  <2> QED
    BY <1>0, <2>1, <2>2 DEF Queued, Failed, InHand, Busy
<1>11. ASSUME NEW w \in Workers, ProcessorThrows(w) \/ WorkerDies(w) PROVE Goal
  <2>1. PICK back \in Job : /\ back.row = workers[w].job.row
                            /\ queue' = (queue \ {workers[w].job}) \cup {back}
    BY <1>11, GivenBack
  <2>2. /\ Working(w) /\ MayHaveWritten(w) /\ UNCHANGED <<requests, cut>>
        /\ workers[w].job.row \in Rows
    BY <1>11, GivenBack, WorkingTyped DEF Job
  <2>3. CASE y = workers[w].job.row
    BY <2>1, <2>3 DEF Queued, Failed
  <2>4. CASE y # workers[w].job.row
    <3>1. Unfinished(y)
      BY <2>2, <2>4, DoneTyped DEF MayHaveWritten, rowVars, Unfinished
    <3> QED
      BY <1>0, <2>1, <2>2, <2>4, <3>1 DEF Queued, Failed, InHand, Busy
  <2> QED
    BY <2>3, <2>4
<1>12. CASE UNCHANGED vars
  BY <1>0, <1>12 DEF vars, Unfinished, Queued, Failed, InHand, Busy
<1> QED
  BY <1>1, <1>2, <1>3, <1>4, <1>5, <1>6, <1>7, <1>8, <1>9, <1>10, <1>11, <1>12
  DEF Next, RequestStep, WorkerStep

-------------------------------------------------------------------------------
(* What is in hand after a step of one request was so before, but for what *)
(* that request has in hand now.                                           *)
LEMMA HandsHad ==
  ASSUME NEW r \in Requests, NEW y,
         \A q \in Requests : q # r => requests'[q] = requests[q],
         InHand(y)',
         Busy(r)' /\ requests'[r].row = y /\ requests'[r].step \in {"enqueue", "fallback"} =>
           InHand(y)
  PROVE  InHand(y)
BY DEF InHand, Busy

(* An account stays the draft that was looked up until somebody else who   *)
(* looked it up writes it.                                                 *)
LEMMA LookupsStep ==
  ASSUME TypeOK, JobsNamed, LookupsHold, [Next]_vars
  PROVE  LookupsHold'
<1> DEFINE Pending(r) == At(r, "remove") \/ At(r, "submit")
           Kept(r) == /\ requests[r].row \in Accounts
                      /\ accounts[requests[r].row] = "draft" \/ requests[r].row \in contested
           Fresh(y) == accounts[y] \in {"none", "draft"}
<1>0. /\ \A r \in Requests : Pending(r) => Kept(r)
      /\ \A y \in Accounts : Fresh(y) => ~InHand(y) /\ ~HasJob(y)
  BY DEF LookupsHold
<1>a. ASSUME \A r \in Requests : Pending(r)' => Kept(r)',
             \A y \in Accounts : Fresh(y)' => ~InHand(y)' /\ ~HasJob(y)'
      PROVE  LookupsHold'
  BY <1>a DEF LookupsHold
<1>1. ASSUME NEW r \in Requests,
             CreateExportJob(r) \/ CreateTicket(r) \/ FindForRemove(r) \/ FindForSubmit(r)
      PROVE  LookupsHold'
  <2>1. PICK x \in Rows, step \in {"remove", "submit", "enqueue"} :
          /\ Begin(r, step, x)
          /\ UNCHANGED <<queue, contested, accounts>>
          /\ step = "enqueue" => x \in Single
          /\ step # "enqueue" => x \in Accounts /\ accounts[x] = "draft"
    BY <1>1, Beginning, Zenon
  <2>2. /\ requests'[r] = [step |-> step, row |-> x, no |-> calls + 1]
        /\ Busy(r)' /\ ~Busy(r)
        /\ \A q \in Requests : q # r => requests'[q] = requests[q]
    BY <2>1, Begun, Zenon
  <2>3. \A q \in Requests : Pending(q)' => Kept(q)'
    BY <1>0, <2>1, <2>2 DEF At, Busy
  <2>4. ASSUME NEW y \in Accounts, InHand(y)' PROVE InHand(y)
    <3>1. x \in Single => x # y
      BY DEF Single
    <3> QED
      BY <2>1, <2>2, <2>4, <3>1, HandsHad
  <2>5. \A y \in Accounts : Fresh(y)' => ~InHand(y)' /\ ~HasJob(y)'
    BY <1>0, <2>1, <2>4 DEF HasJob
  <2> QED
    BY <1>a, <2>3, <2>5
<1>2. ASSUME NEW x \in Accounts, CreateAccount(x) PROVE LookupsHold'
  <2>1. /\ UNCHANGED <<requests, queue, contested>> /\ accounts[x] = "none"
        /\ \A y \in Accounts : accounts'[y] = IF y = x THEN "draft" ELSE accounts[y]
    BY <1>2 DEF CreateAccount, TypeOK, historyVars
  <2> QED
    BY <1>0, <1>a, <2>1 DEF At, Busy, InHand, HasJob
<1>3. ASSUME NEW r \in Requests, ApplyRemove(r) \/ ApplySubmit(r) PROVE LookupsHold'
  <2> DEFINE x == requests[r].row
  <2>1. /\ Pending(r) /\ x \in Accounts /\ queue' = queue /\ contested \subseteq contested'
        /\ Contenders(r, x) # {} => x \in contested'
        /\ \A y \in Accounts : y # x => accounts'[y] = accounts[y]
        /\ accounts'[x] \notin {"none", "draft"}
        /\ Answer(r) \/ GoTo(r, "enqueue")
    BY <1>0, <1>3 DEF ApplyRemove, ApplySubmit, TypeOK
  <2>2. /\ \A q \in Requests : q # r => requests'[q] = requests[q]
        /\ Busy(r)' => requests'[r].row = x /\ requests'[r].step = "enqueue"
    <3>1. CASE Answer(r)
      <4>1. /\ \A q \in Requests : q # r => requests'[q] = requests[q]
            /\ ~Busy(r)'
        BY <3>1, Answered, Zenon
      <4> QED
        BY <4>1
    <3>2. CASE GoTo(r, "enqueue")
      <4>1. "enqueue" \in {"remove", "submit", "enqueue", "fallback"} /\ Busy(r)
        BY <2>1 DEF At
      <4>2. /\ \A q \in Requests : q # r => requests'[q] = requests[q]
            /\ requests'[r] = [step |-> "enqueue", row |-> x, no |-> requests[r].no]
        BY <3>2, <4>1, GoneOn, Zenon
      <4> QED
        BY <4>2
    <3> QED
      BY <2>1, <3>1, <3>2
  <2>3. ASSUME NEW q \in Requests, Pending(q)' PROVE Kept(q)'
    <3>1. q # r /\ requests'[q] = requests[q] /\ Pending(q)
      BY <2>2, <2>3 DEF At, Busy
    <3>2. CASE requests[q].row = x
      <4>1. q \in Contenders(r, x)
        BY <3>1, <3>2 DEF Contenders, At
      <4> QED
        BY <2>1, <3>1, <3>2, <4>1
    <3>3. CASE requests[q].row # x
      BY <1>0, <2>1, <3>1, <3>3
    <3> QED
      BY <3>2, <3>3
  <2>4. ASSUME NEW y \in Accounts, Fresh(y)' PROVE ~InHand(y)' /\ ~HasJob(y)'
    <3>1. y # x /\ Fresh(y)
      BY <2>1, <2>4
    <3>2. InHand(y)' => InHand(y)
      BY <2>2, <3>1, HandsHad
    <3> QED
      BY <1>0, <2>1, <3>1, <3>2 DEF HasJob
  <2> QED
    BY <1>a, <2>3, <2>4
<1>4. ASSUME NEW r \in Requests, QueuesAreOff(r) PROVE LookupsHold'
  <2>1. /\ Busy(r) /\ GoTo(r, "fallback") /\ UNCHANGED <<queue, accounts, contested>>
        /\ requests[r].step = "enqueue"
        /\ "fallback" \in {"remove", "submit", "enqueue", "fallback"}
    BY <1>4 DEF QueuesAreOff, At, rowVars, historyVars
  <2>2. /\ requests'[r] =
             [step |-> "fallback", row |-> requests[r].row, no |-> requests[r].no]
        /\ \A q \in Requests : q # r => requests'[q] = requests[q]
    BY <2>1, GoneOn, Zenon
  <2>3. \A q \in Requests : Pending(q)' => Kept(q)'
    BY <1>0, <2>1, <2>2 DEF At, Busy
  <2>4. ASSUME NEW y, InHand(y)' PROVE InHand(y)
    BY <2>1, <2>2, <2>4, HandsHad DEF InHand
  <2>5. \A y \in Accounts : Fresh(y)' => ~InHand(y)' /\ ~HasJob(y)'
    BY <1>0, <2>1, <2>4 DEF HasJob
  <2> QED
    BY <1>a, <2>3, <2>5
<1>5. ASSUME NEW r \in Requests, TryAddBullJob(r) PROVE LookupsHold'
  <2>1. /\ Busy(r) /\ requests[r].step = "enqueue"
        /\ UNCHANGED <<accounts, contested>>
        /\ \A q \in Requests : q # r => requests'[q] = requests[q]
        /\ queue' \in {queue, queue \cup {NewJob(r)}}
        /\ \/ ~Busy(r)'
           \/ requests'[r] =
                   [step |-> "fallback", row |-> requests[r].row, no |-> requests[r].no]
    BY <1>5, Tried
  <2>2. NewJob(r).row = requests[r].row
    BY <2>1, NewJobTyped, Zenon
  <2> HIDE DEF NewJob
  <2>3. \A q \in Requests : Pending(q)' => Kept(q)'
    BY <1>0, <2>1 DEF At, Busy
  <2>4. ASSUME NEW y, InHand(y)' \/ HasJob(y)' PROVE InHand(y) \/ HasJob(y)
    <3>1. requests[r].row = y => InHand(y)
      BY <2>1 DEF InHand
    <3>2. CASE requests[r].row # y
      <4>1. InHand(y)' => InHand(y)
        BY <2>1, <3>2, HandsHad
      <4> QED
        BY <2>1, <2>2, <2>4, <3>2, <4>1 DEF HasJob
    <3> QED
      BY <3>1, <3>2
  <2>5. \A y \in Accounts : Fresh(y)' => ~InHand(y)' /\ ~HasJob(y)'
    BY <1>0, <2>1, <2>4
  <2> QED
    BY <1>a, <2>3, <2>5
<1>6. ASSUME NEW r \in Requests, Fallback(r) PROVE LookupsHold'
  <2> DEFINE x == requests[r].row
  <2>1. /\ Busy(r) /\ Answer(r) /\ Done(x) /\ UNCHANGED <<queue, contested>>
        /\ x \in Rows /\ requests[r].step = "fallback"
    BY <1>6, BusyTyped DEF Fallback, At, historyVars, Call
  <2>2. \A y \in Accounts : accounts'[y] = IF y = x THEN "verified" ELSE accounts[y]
    BY <2>1, DoneTyped
  <2>3. /\ \A q \in Requests : q # r => requests'[q] = requests[q]
        /\ ~Busy(r)'
    BY <2>1, Answered, Zenon
  <2>4. InHand(x)
    BY <2>1 DEF InHand
  <2>5. \A q \in Requests : Pending(q)' => Kept(q)'
    BY <1>0, <2>1, <2>2, <2>3, <2>4 DEF At, Busy
  <2>6. ASSUME NEW y, InHand(y)' PROVE InHand(y)
    BY <2>3, <2>6, HandsHad
  <2>7. \A y \in Accounts : Fresh(y)' => ~InHand(y)' /\ ~HasJob(y)'
    BY <1>0, <2>1, <2>2, <2>6 DEF HasJob
  <2> QED
    BY <1>a, <2>5, <2>7
<1>7. ASSUME NEW r \in Requests, Abandon(r) PROVE LookupsHold'
  <2>1. Answer(r) /\ UNCHANGED <<queue, contested, accounts>>
    BY <1>7 DEF Abandon, rowVars
  <2>2. /\ \A q \in Requests : q # r => requests'[q] = requests[q]
        /\ ~Busy(r)'
    BY <2>1, Answered, Zenon
  <2>3. ASSUME NEW y, InHand(y)' PROVE InHand(y)
    BY <2>2, <2>3, HandsHad
  <2>4. \A q \in Requests : Pending(q)' => Kept(q)'
    BY <1>0, <2>1, <2>2 DEF At, Busy
  <2>5. \A y \in Accounts : Fresh(y)' => ~InHand(y)' /\ ~HasJob(y)'
    BY <1>0, <2>1, <2>3 DEF HasJob
  <2> QED
    BY <1>a, <2>4, <2>5
<1>8. ASSUME NEW w \in Workers, Take(w) PROVE LookupsHold'
  <2>1. PICK job \in queue, active \in Job :
          active.row = job.row /\ queue' = (queue \ {job}) \cup {active}
    BY <1>8, Taken
  <2>2. UNCHANGED <<requests, accounts, contested>>
    BY <1>8 DEF Take, rowVars, historyVars
  <2> QED
    BY <1>0, <1>a, <2>1, <2>2 DEF HasJob, InHand, At, Busy
<1>9. ASSUME NEW w \in Workers, MarkProcessing(w) PROVE LookupsHold'
  BY <1>0, <1>a, <1>9 DEF MarkProcessing, historyVars, HasJob, InHand, At, Busy
<1>10. ASSUME NEW w \in Workers, Complete(w) PROVE LookupsHold'
  <2> DEFINE x == workers[w].job.row
  <2>1. /\ Done(x) /\ queue' = queue \ {workers[w].job} /\ workers[w].job \in queue
        /\ UNCHANGED <<requests, contested>> /\ x \in Rows
    BY <1>10, WorkingTyped DEF Complete, historyVars, Job
  <2>2. \A y \in Accounts : accounts'[y] = IF y = x THEN "verified" ELSE accounts[y]
    BY <2>1, DoneTyped
  <2>3. HasJob(x)
    BY <2>1 DEF HasJob
  <2> QED
    BY <1>0, <1>a, <2>1, <2>2, <2>3 DEF HasJob, InHand, At, Busy
<1>11. ASSUME NEW w \in Workers, ProcessorThrows(w) \/ WorkerDies(w) PROVE LookupsHold'
  <2> DEFINE x == workers[w].job.row
  <2>1. PICK back \in Job : /\ back.row = x
                            /\ queue' = (queue \ {workers[w].job}) \cup {back}
    BY <1>11, GivenBack
  <2>2. /\ MayHaveWritten(w) /\ UNCHANGED <<requests, contested>>
        /\ x \in Rows /\ workers[w].job \in queue
    BY <1>11, GivenBack, WorkingTyped DEF Job
  <2>3. \/ accounts' = accounts
        \/ \A y \in Accounts : accounts'[y] = IF y = x THEN "verified" ELSE accounts[y]
    BY <2>2, DoneTyped DEF MayHaveWritten, rowVars
  <2>4. HasJob(x) /\ \A y : HasJob(y)' => HasJob(y)
    BY <2>1, <2>2 DEF HasJob
  <2> QED
    BY <1>0, <1>a, <2>2, <2>3, <2>4 DEF InHand, At, Busy
<1>12. CASE UNCHANGED vars
  BY <1>0, <1>a, <1>12 DEF vars, HasJob, InHand, At, Busy
<1> QED
  BY <1>1, <1>2, <1>3, <1>4, <1>5, <1>6, <1>7, <1>8, <1>9, <1>10, <1>11, <1>12
  DEF Next, RequestStep, WorkerStep

(* Only a removal loses an account, one that another looked up as well. *)
LEMMA DraftStep ==
  ASSUME TypeOK, LookupsHold, DraftsDeleted, [Next]_vars
  PROVE  DraftsDeleted'
<1>1. ASSUME NEW r \in Requests, ApplyRemove(r) PROVE DraftsDeleted'
  BY <1>1 DEF ApplyRemove, LookupsHold, DraftsDeleted
<1>2. ASSUME NEW r \in Requests, ApplySubmit(r) PROVE DraftsDeleted'
  BY <1>2 DEF ApplySubmit, DraftsDeleted
<1>3. CASE \A r \in Requests : ~ApplyRemove(r) /\ ~ApplySubmit(r)
  <2>1. UNCHANGED <<lost, contested>>
    BY <1>3
    DEF Next, RequestStep, WorkerStep, CreateExportJob, CreateTicket, FindForRemove,
        FindForSubmit, CreateAccount, TryAddBullJob, QueuesAreOff, Fallback, Abandon, Take,
        MarkProcessing, Complete, ProcessorThrows, WorkerDies, historyVars, vars
  <2> QED
    BY <2>1 DEF DraftsDeleted
<1> QED
  BY <1>1, <1>2, <1>3

-------------------------------------------------------------------------------
(* A request for a single row is one that has it in hand. *)
LEMMA SinglesInHand ==
  ASSUME TypeOK, LookupsHold, NEW r \in Requests, Busy(r), requests[r].row \in Single
  PROVE  requests[r].step \in {"enqueue", "fallback"} /\ InHand(requests[r].row)
<1>1. requests[r].row \notin Accounts
  BY DEF Single
<1>2. requests[r].step \in {"enqueue", "fallback"}
  BY <1>1, BusyTyped DEF Call, LookupsHold, At
<1> QED
  BY <1>2 DEF InHand

(* The work of an export or a ticket is done twice for a reason only. *)
LEMMA OnceStep ==
  ASSUME TypeOK, JobsNamed, LookupsHold, WorkOnce, [Next]_vars
  PROVE  WorkOnce'
<1> DEFINE Mine(r) == Busy(r) /\ requests[r].row \in Single
<1>0. \A r \in Requests : Mine(r) =>
        requests[r].step \in {"enqueue", "fallback"} /\ InHand(requests[r].row)
  BY SinglesInHand
<1>1. ASSUME NEW r \in Requests,
             CreateExportJob(r) \/ CreateTicket(r) \/ FindForRemove(r) \/ FindForSubmit(r)
      PROVE  WorkOnce'
  <2>1. PICK x \in Rows, step \in {"remove", "submit", "enqueue"} :
          /\ Begin(r, step, x)
          /\ UNCHANGED <<queue, workers, cut, twice, contested, lost, notified, accounts>>
          /\ step = "enqueue" => x \in Single
          /\ step # "enqueue" => x \in Accounts /\ accounts[x] = "draft"
          /\ \A y \in Exports : y # x => exports'[y] = exports[y]
          /\ x \in Exports => exports[x] = "none" /\ exports'[x] = "queued"
          /\ x \in Tickets => /\ notified[x] = 0 /\ \A job \in queue : job.row # x
                              /\ \A q \in Requests : Busy(q) => requests[q].row # x
    BY <1>1, Beginning, Zenon
  <2>2. /\ requests'[r] = [step |-> step, row |-> x, no |-> calls + 1]
        /\ Busy(r)' /\ ~Busy(r)
        /\ \A q \in Requests : q # r => requests'[q] = requests[q]
    BY <2>1, Begun, Zenon
  <2>a. x \in Accounts <=> x \notin Single
    BY <2>1 DEF Single
  <2>b. x \in Single => ~HasJob(x) /\ ~WasDone(x)' /\ ~InHand(x)
    <3>1. CASE x \in Exports
      BY <2>1, <3>1 DEF WorkOnce, NoneBegun, WasDone
    <3>2. CASE x \in Tickets
      BY <2>1, <3>2 DEF HasJob, WasDone, InHand
    <3> QED
      BY <3>1, <3>2 DEF Single
  <2>3. x \in Single => \A q \in Requests : Busy(q) => requests[q].row # x
    BY <1>0, <2>b
  <2>4. \A y : HasJob(y)' <=> HasJob(y)
    BY <2>1 DEF HasJob
  <2>5. \A y \in Single : y # x => (WasDone(y)' <=> WasDone(y))
    BY <2>1 DEF WasDone
  <2>6. ASSUME NEW y \in Single, y # x, InHand(y)' PROVE InHand(y)
    BY <2>2, <2>6, HandsHad
  <2>7. OneRequest'
    BY <2>2, <2>3 DEF WorkOnce, OneRequest, Busy
  <2>8. WorkAhead'
    <3> SUFFICES ASSUME NEW q \in Requests, NEW y \in Single, Busy(q)', requests'[q].row = y
                 PROVE  /\ requests'[q].step = "enqueue" => ~HasJob(y)' /\ ~WasDone(y)'
                        /\ HasJob(y)' => y \in twice'
      BY DEF WorkAhead
    <3>1. CASE q = r
      BY <2>2, <2>4, <2>b, <3>1
    <3>2. CASE q # r
      <4>1. requests'[q] = requests[q] /\ Busy(q)
        BY <2>2, <3>2 DEF Busy
      <4>2. y # x
        BY <2>3, <4>1
      <4> QED
        BY <2>1, <2>4, <2>5, <4>1, <4>2 DEF WorkOnce, WorkAhead
    <3> QED
      BY <3>1, <3>2
  <2>9. NoneBegun'
    BY <2>1, <2>4, <2>6 DEF WorkOnce, NoneBegun, Single
  <2>10. NotAgain'
    BY <2>1, <2>4, <2>b, <2>5, <2>6 DEF WorkOnce, NotAgain
  <2> QED
    BY <2>1, <2>7, <2>8, <2>9, <2>10 DEF WorkOnce, OneJob
<1>2. ASSUME NEW x \in Accounts, CreateAccount(x) PROVE WorkOnce'
  BY <1>2 DEF CreateAccount, historyVars, WorkOnce, OneRequest, OneJob, WorkAhead, NoneBegun,
              NotAgain, HasJob, InHand, WasDone, Busy
<1>3. ASSUME NEW r \in Requests,
             ApplyRemove(r) \/ ApplySubmit(r) \/ QueuesAreOff(r) \/ Abandon(r)
      PROVE  WorkOnce'
  <2>1. /\ Busy(r) /\ UNCHANGED <<exports, notified, queue, twice>>
        /\ \/ Answer(r)
           \/ \E step \in {"enqueue", "fallback"} :
                /\ GoTo(r, step)
                /\ step = "enqueue" => requests[r].row \in Accounts
                /\ step = "fallback" => requests[r].step = "enqueue"
    BY <1>3 DEF ApplyRemove, ApplySubmit, QueuesAreOff, Abandon, At, rowVars, historyVars,
                LookupsHold
  <2>2. /\ \A q \in Requests : q # r => requests'[q] = requests[q]
        /\ Busy(r)' => /\ requests'[r].row = requests[r].row
                       /\ requests'[r].step = "enqueue" => requests[r].row \in Accounts
                       /\ requests'[r].step = "fallback" => requests[r].step = "enqueue"
                       /\ requests'[r].step \in {"enqueue", "fallback"}
    <3>1. CASE Answer(r)
      <4>1. ~Busy(r)' /\ \A q \in Requests : q # r => requests'[q] = requests[q]
        BY <3>1, Answered, Zenon
      <4> QED
        BY <4>1
    <3>2. ASSUME NEW step \in {"enqueue", "fallback"}, GoTo(r, step),
                 step = "enqueue" => requests[r].row \in Accounts,
                 step = "fallback" => requests[r].step = "enqueue"
          PROVE  <2>2!1 /\ <2>2!2
      <4>1. step \in {"remove", "submit", "enqueue", "fallback"}
        OBVIOUS
      <4>2. /\ requests'[r] = [step |-> step, row |-> requests[r].row, no |-> requests[r].no]
            /\ \A q \in Requests : q # r => requests'[q] = requests[q]
        BY <2>1, <3>2, <4>1, GoneOn, Zenon
      <4> QED
        BY <3>2, <4>2
    <3> QED
      BY <2>1, <3>1, <3>2
  <2>3. \A x \in Single : x \notin Accounts
    BY DEF Single
  <2>4. ASSUME NEW y \in Single, InHand(y)' PROVE InHand(y)
    BY <2>1, <2>2, <2>3, <2>4, HandsHad DEF InHand
  <2>5. \A y : (HasJob(y)' <=> HasJob(y)) /\ (WasDone(y)' <=> WasDone(y))
    BY <2>1 DEF HasJob, WasDone
  <2>6. OneRequest'
    BY <2>1, <2>2 DEF WorkOnce, OneRequest, Busy
  <2>7. WorkAhead'
    <3> SUFFICES ASSUME NEW q \in Requests, NEW y \in Single, Busy(q)', requests'[q].row = y
                 PROVE  /\ requests'[q].step = "enqueue" => ~HasJob(y)' /\ ~WasDone(y)'
                        /\ HasJob(y)' => y \in twice'
      BY DEF WorkAhead
    <3>1. CASE q = r
      BY <2>1, <2>2, <2>3, <2>5, <3>1 DEF WorkOnce, WorkAhead
    <3>2. CASE q # r
      <4>1. requests'[q] = requests[q] /\ Busy(q)
        BY <2>2, <3>2 DEF Busy
      <4> QED
        BY <2>1, <2>5, <4>1 DEF WorkOnce, WorkAhead
    <3> QED
      BY <3>1, <3>2
  <2>8. NoneBegun'
    <3>1. \A x \in Exports : exports[x] = "none" => ~InHand(x) /\ ~HasJob(x)
      BY DEF WorkOnce, NoneBegun
    <3>2. ASSUME NEW x \in Exports, exports'[x] = "none" PROVE ~InHand(x)' /\ ~HasJob(x)'
      <4>1. x \in Single /\ exports[x] = "none"
        BY <2>1, <3>2 DEF Single
      <4> QED
        BY <2>4, <2>5, <3>1, <4>1
    <3> QED
      BY <3>2 DEF NoneBegun
  <2>9. NotAgain'
    BY <2>1, <2>4, <2>5 DEF WorkOnce, NotAgain
  <2> QED
    BY <2>1, <2>6, <2>7, <2>8, <2>9 DEF WorkOnce, OneJob
<1>4. ASSUME NEW r \in Requests, TryAddBullJob(r) PROVE WorkOnce'
  <2> DEFINE x == requests[r].row
  <2>1. /\ Busy(r) /\ requests[r].step = "enqueue"
        /\ UNCHANGED <<exports, accounts, notified>>
        /\ \A q \in Requests : q # r => requests'[q] = requests[q]
        /\ queue' \in {queue, queue \cup {NewJob(r)}}
        /\ twice \subseteq twice'
        /\ \/ ~Busy(r)'
           \/ /\ requests'[r] = [step |-> "fallback", row |-> x, no |-> requests[r].no]
              /\ queue' = queue \/ x \in twice'
    BY <1>4, Tried
  <2>2. NewJob(r).row = x /\ InHand(x)
    BY <2>1, NewJobTyped DEF InHand
  <2> HIDE DEF NewJob
  <2>3. x \in Single => ~HasJob(x) /\ ~WasDone(x)
    BY <2>1 DEF WorkOnce, WorkAhead
  <2>4. /\ \A y : y # x => (HasJob(y)' <=> HasJob(y))
        /\ \A y : WasDone(y)' <=> WasDone(y)
    BY <2>1, <2>2 DEF HasJob, WasDone
  <2>5. ASSUME NEW y, y # x, InHand(y)' PROVE InHand(y)
    BY <2>1, <2>5, HandsHad
  <2>6. OneRequest'
    BY <2>1 DEF WorkOnce, OneRequest, Busy
  <2>7. OneJob'
    BY <2>1, <2>2, <2>3 DEF WorkOnce, OneJob, HasJob
  <2>8. WorkAhead'
    <3> SUFFICES ASSUME NEW q \in Requests, NEW y \in Single, Busy(q)', requests'[q].row = y
                 PROVE  /\ requests'[q].step = "enqueue" => ~HasJob(y)' /\ ~WasDone(y)'
                        /\ HasJob(y)' => y \in twice'
      BY DEF WorkAhead
    <3>1. CASE q = r
      <4>1. HasJob(y)' => HasJob(y) \/ y \in twice'
        BY <2>1, <3>1 DEF HasJob
      <4> QED
        BY <2>1, <2>3, <3>1, <4>1
    <3>2. CASE q # r
      <4>1. requests'[q] = requests[q] /\ Busy(q)
        BY <2>1, <3>2 DEF Busy
      <4>2. y # x
        BY <2>1, <3>2, <4>1 DEF WorkOnce, OneRequest
      <4> QED
        BY <2>1, <2>4, <4>1, <4>2 DEF WorkOnce, WorkAhead
    <3> QED
      BY <3>1, <3>2
  <2>9. NoneBegun'
    <3>1. ASSUME NEW y \in Exports, exports'[y] = "none" PROVE ~InHand(y)' /\ ~HasJob(y)'
      <4>1. ~InHand(y) /\ ~HasJob(y)
        BY <2>1, <3>1 DEF WorkOnce, NoneBegun
      <4> QED
        BY <2>2, <2>4, <2>5, <4>1
    <3> QED
      BY <3>1 DEF NoneBegun
  <2>10. NotAgain'
    <3>1. ASSUME NEW y \in Single, WasDone(y)', InHand(y)' \/ HasJob(y)' PROVE y \in twice'
      <4>1. y # x /\ WasDone(y)
        BY <2>3, <2>4, <3>1
      <4>2. InHand(y) \/ HasJob(y)
        BY <2>4, <2>5, <3>1, <4>1
      <4> QED
        BY <2>1, <4>1, <4>2 DEF WorkOnce, NotAgain
    <3> QED
      BY <3>1 DEF NotAgain
  <2> QED
    BY <2>6, <2>7, <2>8, <2>9, <2>10 DEF WorkOnce
<1>5. ASSUME NEW r \in Requests, Fallback(r) PROVE WorkOnce'
  <2> DEFINE x == requests[r].row
  <2>1. /\ Busy(r) /\ Answer(r) /\ Done(x) /\ UNCHANGED <<queue, twice>>
        /\ x \in Rows /\ requests[r].step = "fallback"
    BY <1>5, BusyTyped DEF Fallback, At, historyVars, Call
  <2>2. /\ \A q \in Requests : q # r => requests'[q] = requests[q]
        /\ ~Busy(r)'
    BY <2>1, Answered, Zenon
  <2>3. /\ \A y \in Exports : exports'[y] = IF y = x THEN "completed" ELSE exports[y]
        /\ \A y \in Tickets : y # x => notified'[y] = notified[y]
    BY <2>1, DoneTyped
  <2>4. /\ \A y : HasJob(y)' <=> HasJob(y)
        /\ \A y : y # x => (WasDone(y)' <=> WasDone(y))
    BY <2>1, <2>3 DEF HasJob, WasDone
  <2>5. ASSUME NEW y, InHand(y)' PROVE InHand(y)
    BY <2>2, <2>5, HandsHad
  <2>6. OneRequest'
    BY <2>2 DEF WorkOnce, OneRequest, Busy
  <2>7. OneJob'
    BY <2>1 DEF WorkOnce, OneJob
  <2>8. x \in Single => /\ HasJob(x) => x \in twice
                        /\ \A q \in Requests : q # r /\ Busy(q) => requests[q].row # x
    BY <2>1 DEF WorkOnce, WorkAhead, OneRequest
  <2>9. WorkAhead'
    <3> SUFFICES ASSUME NEW q \in Requests, NEW y \in Single, Busy(q)', requests'[q].row = y
                 PROVE  /\ requests'[q].step = "enqueue" => ~HasJob(y)' /\ ~WasDone(y)'
                        /\ HasJob(y)' => y \in twice'
      BY DEF WorkAhead
    <3>1. q # r /\ requests'[q] = requests[q] /\ Busy(q)
      BY <2>2 DEF Busy
    <3> QED
      BY <2>1, <2>4, <2>8, <3>1 DEF WorkOnce, WorkAhead
  <2>10. NoneBegun'
    BY <2>3, <2>4, <2>5 DEF WorkOnce, NoneBegun
  <2>11. NotAgain'
    <3>1. ASSUME NEW y \in Single, WasDone(y)', InHand(y)' \/ HasJob(y)' PROVE y \in twice'
      <4>1. CASE y = x
        <5>1. ~InHand(y)'
          BY <2>2, <2>8, <4>1 DEF InHand, Busy
        <5> QED
          BY <2>1, <2>4, <2>8, <3>1, <4>1, <5>1
      <4>2. CASE y # x
        BY <2>1, <2>4, <2>5, <3>1, <4>2 DEF WorkOnce, NotAgain
      <4> QED
        BY <4>1, <4>2
    <3> QED
      BY <3>1 DEF NotAgain
  <2> QED
    BY <2>6, <2>7, <2>9, <2>10, <2>11 DEF WorkOnce
<1>6. ASSUME NEW w \in Workers, Take(w) PROVE WorkOnce'
  <2>1. PICK job \in queue, active \in Job :
          active.row = job.row /\ queue' = (queue \ {job}) \cup {active}
    BY <1>6, Taken
  <2>2. UNCHANGED <<requests, exports, notified, twice>>
    BY <1>6 DEF Take, rowVars, historyVars
  <2>3. \A y : (HasJob(y)' <=> HasJob(y)) /\ (WasDone(y)' <=> WasDone(y))
                /\ (InHand(y)' <=> InHand(y))
    BY <2>1, <2>2 DEF HasJob, WasDone, InHand, Busy
  <2>4. OneJob'
    BY <2>1 DEF WorkOnce, OneJob
  <2>5. OneRequest' /\ WorkAhead' /\ NoneBegun' /\ NotAgain'
    BY <2>2, <2>3 DEF WorkOnce, OneRequest, WorkAhead, NoneBegun, NotAgain, Busy
  <2> QED
    BY <2>4, <2>5 DEF WorkOnce
<1>7. ASSUME NEW w \in Workers, MarkProcessing(w) PROVE WorkOnce'
  <2>1. /\ UNCHANGED <<requests, notified, queue, twice>>
        /\ \A y \in Exports : exports'[y] \in {exports[y], "processing"}
    BY <1>7 DEF MarkProcessing, historyVars, TypeOK
  <2>2. \A y : (HasJob(y)' <=> HasJob(y)) /\ (WasDone(y)' => WasDone(y))
                /\ (InHand(y)' <=> InHand(y))
    BY <2>1 DEF HasJob, WasDone, InHand, Busy
  <2>3. OneJob' /\ OneRequest' /\ WorkAhead' /\ NotAgain'
    BY <2>1, <2>2 DEF WorkOnce, OneJob, OneRequest, WorkAhead, NotAgain, Busy
  <2>4. NoneBegun'
    BY <2>1, <2>2 DEF WorkOnce, NoneBegun
  <2> QED
    BY <2>3, <2>4 DEF WorkOnce
<1>8. ASSUME NEW w \in Workers, Complete(w) PROVE WorkOnce'
  <2>0. PICK x : x = workers[w].job.row
    OBVIOUS
  <2>1. /\ Done(x) /\ queue' = queue \ {workers[w].job} /\ workers[w].job \in queue
        /\ UNCHANGED <<requests, twice>> /\ x \in Rows
    BY <1>8, <2>0, WorkingTyped DEF Complete, historyVars, Job
  <2>2. /\ \A y \in Exports : exports'[y] = IF y = x THEN "completed" ELSE exports[y]
        /\ \A y \in Tickets : y # x => notified'[y] = notified[y]
    BY <2>1, DoneTyped
  <2>3. /\ \A y : (HasJob(y)' => HasJob(y)) /\ (InHand(y)' <=> InHand(y))
        /\ \A y : y # x => (WasDone(y)' <=> WasDone(y))
    BY <2>1, <2>2 DEF HasJob, WasDone, InHand, Busy
  <2>4. HasJob(x) /\ (x \in Single => ~HasJob(x)')
    <3>1. x \in Single => \A job \in queue : job.row = x => job = workers[w].job
      BY <2>0, <2>1 DEF WorkOnce, OneJob
    <3> QED
      BY <2>0, <2>1, <3>1 DEF HasJob
  <2>5. OneJob' /\ OneRequest'
    BY <2>1 DEF WorkOnce, OneJob, OneRequest, Busy
  <2>6. WorkAhead'
    <3> SUFFICES ASSUME NEW q \in Requests, NEW y \in Single, Busy(q), requests[q].row = y
                 PROVE  /\ requests[q].step = "enqueue" => ~HasJob(y)' /\ ~WasDone(y)'
                        /\ HasJob(y)' => y \in twice
      BY <2>1 DEF WorkAhead, Busy
    <3> QED
      BY <2>3, <2>4 DEF WorkOnce, WorkAhead
  <2>7. NoneBegun'
    BY <2>2, <2>3 DEF WorkOnce, NoneBegun
  <2>8. NotAgain'
    <3>1. ASSUME NEW y \in Single, WasDone(y)', InHand(y)' \/ HasJob(y)' PROVE y \in twice
      <4>1. CASE y = x
        <5>1. InHand(x)
          BY <2>3, <2>4, <3>1, <4>1
        <5>2. \E q \in Requests : Busy(q) /\ requests[q].row = x
          BY <5>1 DEF InHand
        <5> QED
          BY <2>4, <4>1, <5>2 DEF WorkOnce, WorkAhead
      <4>2. CASE y # x
        BY <2>3, <3>1, <4>2 DEF WorkOnce, NotAgain
      <4> QED
        BY <4>1, <4>2
    <3> QED
      BY <2>1, <3>1 DEF NotAgain
  <2> QED
    BY <2>5, <2>6, <2>7, <2>8 DEF WorkOnce
<1>9. ASSUME NEW w \in Workers, ProcessorThrows(w) \/ WorkerDies(w) PROVE WorkOnce'
  <2> DEFINE x == workers[w].job.row
  <2>1. PICK back \in Job : /\ back.row = x
                            /\ queue' = (queue \ {workers[w].job}) \cup {back}
    BY <1>9, GivenBack
  <2>2. /\ MayHaveWritten(w) /\ UNCHANGED requests
        /\ x \in Rows /\ workers[w].job \in queue
    BY <1>9, GivenBack, WorkingTyped DEF Job
  <2>3. /\ \A y : (HasJob(y)' <=> HasJob(y)) /\ (InHand(y)' <=> InHand(y))
        /\ HasJob(x)
    BY <2>1, <2>2 DEF HasJob, InHand, Busy
  <2>4. /\ twice \subseteq twice'
        /\ \/ \A y : WasDone(y)' <=> WasDone(y)
           \/ x \in twice' /\ \A y : y # x => (WasDone(y)' <=> WasDone(y))
        /\ \A y \in Exports : exports'[y] = "none" => exports[y] = "none"
    <3>1. CASE UNCHANGED <<rowVars, twice>>
      BY <3>1 DEF rowVars, WasDone
    <3>2. CASE Done(x) /\ twice' = twice \cup {x}
      <4>1. /\ \A y \in Exports : exports'[y] = IF y = x THEN "completed" ELSE exports[y]
            /\ \A y \in Tickets : y # x => notified'[y] = notified[y]
        BY <2>2, <3>2, DoneTyped
      <4> QED
        BY <3>2, <4>1 DEF WasDone
    <3> QED
      BY <2>2, <3>1, <3>2 DEF MayHaveWritten
  <2>5. OneJob' /\ OneRequest'
    BY <2>1, <2>2 DEF WorkOnce, OneJob, OneRequest, Busy
  <2>6. WorkAhead'
    <3> SUFFICES ASSUME NEW q \in Requests, NEW y \in Single, Busy(q), requests[q].row = y
                 PROVE  /\ requests[q].step = "enqueue" => ~HasJob(y)' /\ ~WasDone(y)'
                        /\ HasJob(y)' => y \in twice'
      BY <2>2 DEF WorkAhead, Busy
    <3> QED
      BY <2>3, <2>4 DEF WorkOnce, WorkAhead
  <2>7. NoneBegun'
    BY <2>3, <2>4 DEF WorkOnce, NoneBegun
  <2>8. NotAgain'
    BY <2>3, <2>4 DEF WorkOnce, NotAgain
  <2> QED
    BY <2>5, <2>6, <2>7, <2>8 DEF WorkOnce
<1>10. CASE UNCHANGED vars
  BY <1>10 DEF vars, WorkOnce, OneRequest, OneJob, WorkAhead, NoneBegun, NotAgain, HasJob,
               InHand, WasDone, Busy
<1> QED
  BY <1>1, <1>2, <1>3, <1>4, <1>5, <1>6, <1>7, <1>8, <1>9, <1>10
  DEF Next, RequestStep, WorkerStep

-------------------------------------------------------------------------------
(* The inductive invariant: types, causes, and the facts about jobs, looked *)
(* up accounts and single rows that the properties rest on.                *)
THEOREM JobsInvHolds == Spec => []JobsInv
<1>1. JobsInv /\ [Next]_vars => JobsInv'
  BY TypeStep, WaitStep, DraftStep, NamedStep, LookupsStep, OnceStep DEF JobsInv
<1> QED
  BY <1>1, InitInv, PTL DEF Spec

(* The rows, the queue, the requests and the workers keep their types. *)
THEOREM TypeCorrect == Spec => []TypeOK
<1>1. JobsInv => TypeOK
  BY DEF JobsInv
<1> QED
  BY <1>1, JobsInvHolds, PTL

(* Nothing is forgotten between a row, its job and the fallback: whoever   *)
(* waits, waits for a request, a job, or for good with a reason, however   *)
(* many requests, workers and attempts there are.                          *)
THEOREM WaitAlwaysHasCause == Spec => []WaitHasCause
<1>1. JobsInv => WaitHasCause
  BY DEF JobsInv
<1> QED
  BY <1>1, JobsInvHolds, PTL

(* Only drafts are deleted, unless a submit or removal overlapped.         *)
THEOREM DraftsAlwaysDeleted == Spec => []DraftsDeleted
<1>1. JobsInv => DraftsDeleted
  BY DEF JobsInv
<1> QED
  BY <1>1, JobsInvHolds, PTL

(* With one request at a time no account is ever deleted but as a draft:   *)
(* the lookup and the delete need no more than to be undisturbed.          *)
THEOREM SerialDeletesDrafts ==
  Spec /\ [](\A q, r \in Requests : Busy(q) /\ Busy(r) => q = r) => [](lost = {})
<1> DEFINE Serial == \A q, r \in Requests : Busy(q) /\ Busy(r) => q = r
           Calm == contested = {}
<1>1. Init => Calm
  BY DEF Init
<1>2. Calm /\ Serial /\ [Next]_vars => Calm'
  <2> SUFFICES ASSUME Calm, Serial, [Next]_vars PROVE contested' = {}
    OBVIOUS
  <2>1. ASSUME NEW r \in Requests, ApplyRemove(r) \/ ApplySubmit(r) PROVE contested' = {}
    <3>1. Contenders(r, requests[r].row) = {}
      BY <2>1 DEF ApplyRemove, ApplySubmit, Contenders, At
    <3> QED
      BY <2>1, <3>1 DEF ApplyRemove, ApplySubmit
  <2>2. CASE \A r \in Requests : ~ApplyRemove(r) /\ ~ApplySubmit(r)
    BY <2>2
    DEF Next, RequestStep, WorkerStep, CreateExportJob, CreateTicket, FindForRemove,
        FindForSubmit, CreateAccount, TryAddBullJob, QueuesAreOff, Fallback, Abandon, Take,
        MarkProcessing, Complete, ProcessorThrows, WorkerDies, historyVars, vars
  <2> QED
    BY <2>1, <2>2
<1>3. JobsInv /\ Calm => lost = {}
  BY DEF JobsInv, DraftsDeleted
<1> QED
  BY <1>1, <1>2, <1>3, JobsInvHolds, PTL DEF Spec

(* Work that is done stays done, or a reason for doing it again is named.  *)
THEOREM WorkDoneOnce == Spec => DoneOnce
<1> DEFINE Stays ==
      /\ \A x \in Exports :
           exports[x] = "completed" => exports'[x] = "completed" \/ x \in twice
      /\ \A x \in Tickets :
           notified[x] > 0 => notified'[x] = notified[x] \/ x \in twice'
      /\ \A x \in Accounts :
           accounts[x] = "verified" => accounts'[x] = "verified" \/ x \in contested'
<1>1. JobsInv /\ [Next]_vars => [Stays]_vars
  <2> SUFFICES ASSUME JobsInv, Next PROVE Stays
    OBVIOUS
  <2>0. TypeOK /\ JobsNamed /\ LookupsHold /\ NotAgain
    BY DEF JobsInv, WorkOnce
  <2>a. ASSUME NEW x \in Rows, Done(x),
               x \in Single /\ WasDone(x) => x \in twice'
        PROVE  Stays
    BY <2>0, <2>a, DoneTyped DEF WasDone, Single, Rows
  <2>1. ASSUME NEW r \in Requests,
               CreateExportJob(r) \/ CreateTicket(r) \/ FindForRemove(r) \/ FindForSubmit(r)
        PROVE  Stays
    <3>1. PICK x \in Rows :
            /\ UNCHANGED <<notified, accounts>>
            /\ \A y \in Exports : y # x => exports'[y] = exports[y]
            /\ x \in Exports => exports[x] = "none"
      BY <2>0, <2>1, Beginning
    <3> QED
      BY <3>1
  <2>2. ASSUME NEW x \in Accounts, CreateAccount(x) PROVE Stays
    BY <2>0, <2>2 DEF CreateAccount, TypeOK
  <2>3. ASSUME NEW r \in Requests, ApplyRemove(r) \/ ApplySubmit(r) PROVE Stays
    <3> DEFINE x == requests[r].row
    <3>1. /\ UNCHANGED <<exports, notified>> /\ contested \subseteq contested'
          /\ x \in Accounts /\ (accounts[x] = "draft" \/ x \in contested)
          /\ \A y \in Accounts : y # x => accounts'[y] = accounts[y]
      BY <2>0, <2>3 DEF ApplyRemove, ApplySubmit, TypeOK, LookupsHold
    <3> QED
      BY <3>1
  <2>4. ASSUME NEW r \in Requests, TryAddBullJob(r) \/ QueuesAreOff(r) \/ Abandon(r) PROVE Stays
    <3>1. UNCHANGED <<exports, accounts, notified>>
      BY <2>4 DEF TryAddBullJob, QueuesAreOff, Abandon, rowVars
    <3> QED
      BY <3>1
  <2>5. ASSUME NEW r \in Requests, Fallback(r) PROVE Stays
    <3> DEFINE x == requests[r].row
    <3>1. Done(x) /\ x \in Rows /\ InHand(x) /\ twice' = twice
      BY <2>0, <2>5, BusyTyped DEF Fallback, At, historyVars, Call, InHand
    <3>2. x \in Single /\ WasDone(x) => x \in twice'
      BY <2>0, <3>1 DEF NotAgain
    <3> QED
      BY <2>a, <3>1, <3>2
  <2>6. ASSUME NEW w \in Workers, Take(w) PROVE Stays
    <3>1. UNCHANGED <<exports, accounts, notified>>
      BY <2>6 DEF Take, rowVars
    <3> QED
      BY <3>1
  <2>7. ASSUME NEW w \in Workers, MarkProcessing(w) PROVE Stays
    <3> DEFINE x == workers[w].job.row
    <3>1. /\ HasJob(x) /\ UNCHANGED <<accounts, notified>>
          /\ \A y \in Exports : y # x => exports'[y] = exports[y]
      BY <2>0, <2>7, WorkingTyped DEF MarkProcessing, HasJob, TypeOK
    <3>2. x \in Exports /\ exports[x] = "completed" => x \in twice
      BY <2>0, <3>1 DEF NotAgain, WasDone, Single
    <3> QED
      BY <3>1, <3>2
  <2>8. ASSUME NEW w \in Workers, Complete(w) PROVE Stays
    <3> DEFINE x == workers[w].job.row
    <3>1. Done(x) /\ x \in Rows /\ HasJob(x) /\ twice' = twice
      BY <2>0, <2>8, WorkingTyped DEF Complete, historyVars, Job, HasJob
    <3>2. x \in Single /\ WasDone(x) => x \in twice'
      BY <2>0, <3>1 DEF NotAgain
    <3> QED
      BY <2>a, <3>1, <3>2
  <2>9. ASSUME NEW w \in Workers, ProcessorThrows(w) \/ WorkerDies(w) PROVE Stays
    <3> DEFINE x == workers[w].job.row
    <3>1. x \in Rows /\ MayHaveWritten(w)
      BY <2>0, <2>9, GivenBack, WorkingTyped DEF Job
    <3>2. CASE UNCHANGED <<rowVars, twice>>
      BY <3>2 DEF rowVars
    <3>3. CASE Done(x) /\ twice' = twice \cup {x}
      BY <2>a, <3>1, <3>3
    <3> QED
      BY <3>1, <3>2, <3>3 DEF MayHaveWritten
  <2> QED
    BY <2>1, <2>2, <2>3, <2>4, <2>5, <2>6, <2>7, <2>8, <2>9 DEF Next, RequestStep, WorkerStep
<1> QED
  BY <1>1, JobsInvHolds, PTL DEF Spec, DoneOnce
===============================================================================
