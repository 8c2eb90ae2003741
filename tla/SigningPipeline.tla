-------------------------- MODULE SigningPipeline --------------------------
(***************************************************************************)
(* The asynchronous signing path of the service: POST /api/v1/sign         *)
(* (src/src/api/signing.py) inside its database session                    *)
(* (src/src/models/database.py), the Celery broker, the workers that run   *)
(* sign_macro_task (src/src/queue/tasks.py), the certificate store they    *)
(* read and the webhook events they publish.                               *)
(*                                                                         *)
(* A submission is one HTTP request; its job id is fresh, so jobs and      *)
(* requests are the same thing.  A task message is <<job, retries>>: the   *)
(* rest of its payload (certificate name, algorithm, webhook URL, file) is *)
(* a function of the request.  A signature is abstracted to the generation *)
(* <<certificate name, generation>> of the certificate that made it.       *)
(***************************************************************************)
EXTENDS Naturals, Sequences, FiniteSets

CONSTANTS
    Jobs,         \* submissions, one per request
    Workers,      \* Celery worker child processes
    Certs,        \* certificate names in the certificate store
    Default,      \* the certificate named "default"
    Profiles,     \* signing profile names
    NoProfile,    \* a request without the profile form field
    ProfileRows,  \* active rows of signing_profiles
    Requests,     \* the requests clients send
    MaxRetries,   \* max_retries of sign_macro_task
    MaxGen,       \* bound: generations a certificate goes through
    PublishFaults, \* how a publish can go wrong: <<copies, raised>>
    MaxFaults     \* bound: broker faults, process crashes, late time limits

NoSeal == <<>>
Seals == Certs \X Nat

ASSUME WorkersAssumption == IsFiniteSet(Workers)
ASSUME DefaultAssumption == Default \in Certs
ASSUME ProfileAssumption ==
    /\ NoProfile \notin Profiles
    /\ \A r \in ProfileRows : r.name \in Profiles /\ r.certificate_name \in Certs
ASSUME RequestAssumption ==
    Requests \subseteq [validFile : BOOLEAN, profile : Profiles \cup {NoProfile},
                        supported : BOOLEAN, webhook : BOOLEAN]
ASSUME FaultAssumption == PublishFaults \subseteq {<<0, TRUE>>, <<1, TRUE>>, <<2, FALSE>>}
ASSUME BoundAssumption ==
    /\ MaxRetries \in Nat
    /\ MaxGen \in Nat \ {0}
    /\ MaxFaults \in Nat

VARIABLES
    req,      \* req[j]: the form fields of submission j
    api,      \* api[j]: where the handler of submission j is
    row,      \* row[j]: the SigningJob object in the request's session
    db,       \* db[j]: the committed row of signing_jobs
    queue,    \* queue[m]: ready copies of task message m
    worker,   \* worker[w]: what a worker process is executing
    results,  \* results[j]: how executions of tasks of j ended (the result
              \*   backend records all but "REJECTED", which is only logged)
    outbox,   \* outbox[j]: webhook events published for j, in order
    store,    \* store[c]: the certificate store's entry
    faults    \* broker faults, crashes, and soft time limits that struck
              \*   between the publish of a completion and the return

vars == <<req, api, row, db, queue, worker, results, outbox, store, faults>>

Messages == Jobs \X (0..MaxRetries)
NoMessage == <<>>
EmptyRow == [status |-> "none", seal |-> NoSeal]
Conditions == {"usable", "unusable", "absent"}
Finals == {"SUCCESS", "FAILED_RESULT", "RAISED", "KILLED", "REJECTED"}

(***************************************************************************)
(* Signing profiles.  The lookup is by name among the active rows, over    *)
(* every team; the handler goes on only when exactly one row matches.      *)
(***************************************************************************)
Matches(p) == {r \in ProfileRows : r.name = p}

Admissible(q) ==
    /\ q.validFile
    /\ q.profile = NoProfile \/ \E r \in ProfileRows : Matches(q.profile) = {r}

CertName(q) ==
    IF q.profile = NoProfile
    THEN Default
    ELSE (CHOOSE r \in ProfileRows : r.name = q.profile).certificate_name

(***************************************************************************)
(* One call of .delay() or .retry() on the broker: n copies of the message *)
(* become ready, and the call raises or returns.  Without a fault it is    *)
(* one copy and no exception.  A connection lost before (0 copies) or      *)
(* after (1 copy) the broker took the message raises; the client's own     *)
(* republish after a lost acknowledgement leaves two copies.               *)
(***************************************************************************)
Publish(n, raised) ==
    \/ n = 1 /\ ~raised /\ UNCHANGED faults
    \/ /\ faults < MaxFaults
       /\ <<n, raised>> \in PublishFaults
       /\ faults' = faults + 1

Events(e, n) == [i \in 1..n |-> e]

-----------------------------------------------------------------------------
Idle == [pc |-> "idle", msg |-> NoMessage, seal |-> NoSeal, usable |-> FALSE,
         limited |-> FALSE, outcome |-> "none"]

Init ==
    /\ req \in [Jobs -> Requests]
    /\ api = [j \in Jobs |-> "new"]
    /\ row = [j \in Jobs |-> EmptyRow]
    /\ db = [j \in Jobs |-> EmptyRow]
    /\ queue = [m \in Messages |-> 0]
    /\ worker = [w \in Workers |-> Idle]
    /\ results = [j \in Jobs |-> {}]
    /\ outbox = [j \in Jobs |-> <<>>]
    /\ store \in [Certs -> [gen : {1}, cond : Conditions]]
    /\ faults = 0

(***************************************************************************)
(* The request handler.                                                    *)
(***************************************************************************)
\* An invalid file (400), an unknown profile (404), a profile name two teams
\* share (500), or a flush the database rejects (500): nothing is kept.
Refuse(j) ==
    /\ api[j] = "new"
    /\ api' = [api EXCEPT ![j] = "refused"]
    /\ UNCHANGED <<req, row, db, queue, worker, results, outbox, store, faults>>

\* The row is added to the session as queued and flushed.
Submit(j) ==
    /\ api[j] = "new"
    /\ Admissible(req[j])
    /\ row' = [row EXCEPT ![j] = [status |-> "queued", seal |-> NoSeal]]
    /\ api' = [api EXCEPT ![j] = "enqueue"]
    /\ UNCHANGED <<req, db, queue, worker, results, outbox, store, faults>>

\* Variant: the except clause logs and goes on as if the task were queued.
EnqueueSwallowing(j) ==
    /\ api[j] = "enqueue"
    /\ \E n \in 0..2, raised \in BOOLEAN :
        /\ Publish(n, raised)
        /\ queue' = [queue EXCEPT ![<<j, 0>>] = @ + n]
    /\ api' = [api EXCEPT ![j] = "commit"]
    /\ UNCHANGED <<req, row, db, worker, results, outbox, store>>

\* Variant: the synchronous signing stands after the try instead of in its except.
EnqueueAndSign(j) ==
    /\ api[j] = "enqueue"
    /\ \E n \in 0..2, raised \in BOOLEAN :
        /\ Publish(n, raised)
        /\ queue' = [queue EXCEPT ![<<j, 0>>] = @ + n]
    /\ api' = [api EXCEPT ![j] = "fallback"]
    /\ UNCHANGED <<req, row, db, worker, results, outbox, store>>

\* sign_macro_task.delay(...): on an exception the handler signs by itself.
Enqueue(j) ==
    /\ api[j] = "enqueue"
    /\ \E n \in 0..2, raised \in BOOLEAN :
        /\ Publish(n, raised)
        /\ queue' = [queue EXCEPT ![<<j, 0>>] = @ + n]
        /\ api' = [api EXCEPT ![j] = IF raised THEN "fallback" ELSE "commit"]
    /\ UNCHANGED <<req, row, db, worker, results, outbox, store>>

\* _process_signing_sync: the certificate is always "default".  Any exception
\* (no entry, no key, expired, unsupported algorithm, store unreachable) makes
\* the row FAILED.
ProcessSigningSync(j) ==
    /\ api[j] = "fallback"
    /\ \/ /\ store[Default].cond = "usable" /\ req[j].supported
          /\ row' = [row EXCEPT ![j] = [status |-> "completed",
                                        seal |-> <<Default, store[Default].gen>>]]
       \/ row' = [row EXCEPT ![j] = [status |-> "failed", seal |-> NoSeal]]
    /\ api' = [api EXCEPT ![j] = "commit"]
    /\ UNCHANGED <<req, db, queue, worker, results, outbox, store, faults>>

\* Variant: the session is closed without a commit.
CommitForgotten(j) ==
    /\ api[j] = "commit"
    /\ api' = [api EXCEPT ![j] = "answered"]
    /\ UNCHANGED <<req, row, db, queue, worker, results, outbox, store, faults>>

\* get_db commits after the handler built its response and before it is sent.
Commit(j) ==
    /\ api[j] = "commit"
    /\ db' = [db EXCEPT ![j] = row[j]]
    /\ api' = [api EXCEPT ![j] = "answered"]
    /\ UNCHANGED <<req, row, queue, worker, results, outbox, store, faults>>

\* The commit raises, or the API process dies: the session rolls back, what
\* was published stays published.  A process may also die once it committed
\* and before it answers; the client then never learns the job id.
Abort(j) ==
    /\ api[j] \in {"enqueue", "fallback", "commit"}
    /\ faults < MaxFaults
    /\ faults' = faults + 1
    /\ row' = [row EXCEPT ![j] = EmptyRow]
    /\ \E committed \in BOOLEAN :
        /\ committed => api[j] = "commit"
        /\ db' = IF committed THEN [db EXCEPT ![j] = row[j]] ELSE db
        /\ api' = [api EXCEPT ![j] = IF committed THEN "unanswered" ELSE "aborted"]
    /\ UNCHANGED <<req, queue, worker, results, outbox, store>>

(***************************************************************************)
(* A worker process executing sign_macro_task.  With acks_late the message *)
(* is acknowledged after the task ended; until then a crash of the worker  *)
(* returns it to the queue.                                                *)
(***************************************************************************)
Job(w) == worker[w].msg[1]
Retries(w) == worker[w].msg[2]
Goto(w, pc) == worker' = [worker EXCEPT ![w].pc = pc]
End(w, outcome) ==
    worker' = [worker EXCEPT ![w].pc = "store", ![w].outcome = outcome]

Receive(w, m) ==
    /\ worker[w].pc = "idle"
    /\ queue[m] > 0
    /\ queue' = [queue EXCEPT ![m] = @ - 1]
    /\ worker' = [worker EXCEPT ![w].pc = "fetch", ![w].msg = m]
    /\ UNCHANGED <<req, api, row, db, results, outbox, store, faults>>

\* Variant: the worker takes the default certificate, as the fallback does.
FetchDefault(w) ==
    /\ worker[w].pc = "fetch"
    /\ store[Default].cond # "absent"
    /\ worker' = [worker EXCEPT ![w].pc = "sign",
                                ![w].seal = <<Default, store[Default].gen>>,
                                ![w].usable = (store[Default].cond = "usable")]
    /\ UNCHANGED <<req, api, row, db, queue, results, outbox, store, faults>>

\* cert_store.get_certificate(certificate_name)
Fetch(w) ==
    /\ worker[w].pc = "fetch"
    /\ LET c == CertName(req[Job(w)]) IN
        /\ store[c].cond # "absent"
        /\ worker' = [worker EXCEPT ![w].pc = "sign",
                                    ![w].seal = <<c, store[c].gen>>,
                                    ![w].usable = (store[c].cond = "usable")]
    /\ UNCHANGED <<req, api, row, db, queue, results, outbox, store, faults>>

\* Variant: the webhook URL is not looked at.
SignSilent(w) ==
    /\ worker[w].pc = "sign"
    /\ worker[w].usable /\ req[Job(w)].supported
    /\ End(w, "SUCCESS")
    /\ UNCHANGED <<req, api, row, db, queue, results, outbox, store, faults>>

\* SigningEngine(...).sign(...): succeeds on the certificate it was given.
Sign(w) ==
    /\ worker[w].pc = "sign"
    /\ worker[w].usable /\ req[Job(w)].supported
    /\ IF req[Job(w)].webhook THEN Goto(w, "notify") ELSE End(w, "SUCCESS")
    /\ UNCHANGED <<req, api, row, db, queue, results, outbox, store, faults>>

\* Where an exception inside the try block leads.
Handling(w) == IF req[Job(w)].webhook THEN "report" ELSE "retry"

\* An exception of the code inside the try block: the store raised, the
\* certificate is unusable or the algorithm unsupported.
Except(w) ==
    /\ worker[w].pc \in {"fetch", "sign"}
    /\ Goto(w, Handling(w))
    /\ UNCHANGED <<req, api, row, db, queue, results, outbox, store, faults>>

\* Variant: no return after the completion was published.
NotifyFallsThrough(w) ==
    /\ worker[w].pc = "notify"
    /\ \E n \in 0..2, raised \in BOOLEAN :
        /\ Publish(n, raised)
        /\ outbox' = [outbox EXCEPT ![Job(w)] =
            @ \o Events([event |-> "signing.completed", seal |-> worker[w].seal], n)]
        /\ Goto(w, "report")
    /\ UNCHANGED <<req, api, row, db, queue, results, store>>

\* send_webhook_task.delay(event="signing.completed") stands inside the try: an
\* exception of this call lands in the except clause like a failure to sign.
Notify(w) ==
    /\ worker[w].pc = "notify"
    /\ \E n \in 0..2, raised \in BOOLEAN :
        /\ Publish(n, raised)
        /\ outbox' = [outbox EXCEPT ![Job(w)] =
            @ \o Events([event |-> "signing.completed", seal |-> worker[w].seal], n)]
        /\ IF raised THEN Goto(w, "report") ELSE Goto(w, "told")
    /\ UNCHANGED <<req, api, row, db, queue, results, store>>

\* return signing_result, the last statement of the try.
Return(w) ==
    /\ worker[w].pc = "told"
    /\ End(w, "SUCCESS")
    /\ UNCHANGED <<req, api, row, db, queue, results, outbox, store, faults>>

\* send_webhook_task.delay(event="signing.failed"), on every failed attempt.
Report(w) ==
    /\ worker[w].pc = "report"
    /\ \E n \in 0..2, raised \in BOOLEAN :
        /\ Publish(n, raised)
        /\ outbox' = [outbox EXCEPT ![Job(w)] =
            @ \o Events([event |-> "signing.failed", seal |-> NoSeal], n)]
        /\ IF raised THEN End(w, "RAISED") ELSE Goto(w, "retry")
    /\ UNCHANGED <<req, api, row, db, queue, results, store>>

\* Variant: automatic retries (autoretry_for) on top of the explicit one.
RetryTwice(w) ==
    /\ worker[w].pc = "retry"
    /\ Retries(w) < MaxRetries
    /\ \E n \in 0..2, raised \in BOOLEAN :
        /\ Publish(n, raised)
        /\ queue' = [queue EXCEPT ![<<Job(w), Retries(w) + 1>>] = @ + n + 1]
        /\ IF raised THEN End(w, "REJECTED") ELSE Goto(w, "retried")
    /\ UNCHANGED <<req, api, row, db, results, outbox, store>>

\* Variant: the except clause acknowledges and counts on someone to retry.
RetryDropped(w) ==
    /\ worker[w].pc = "retry"
    /\ Retries(w) < MaxRetries
    /\ Goto(w, "ack")
    /\ UNCHANGED <<req, api, row, db, queue, results, outbox, store, faults>>

\* raise self.retry(exc=exc): the task is published again with one retry more;
\* Celery rejects the message without requeue when that publish raises.
Retry(w) ==
    /\ worker[w].pc = "retry"
    /\ Retries(w) < MaxRetries
    /\ \E n \in 0..2, raised \in BOOLEAN :
        /\ Publish(n, raised)
        /\ queue' = [queue EXCEPT ![<<Job(w), Retries(w) + 1>>] = @ + n]
        /\ IF raised THEN End(w, "REJECTED") ELSE Goto(w, "retried")
    /\ UNCHANGED <<req, api, row, db, results, outbox, store>>

\* Variant: the error result is built and not returned.
GiveUpUnrecorded(w) ==
    /\ worker[w].pc = "retry"
    /\ Retries(w) = MaxRetries
    /\ Goto(w, "store")
    /\ UNCHANGED <<req, api, row, db, queue, results, outbox, store, faults>>

\* return error_result once the retries are used up.
GiveUp(w) ==
    /\ worker[w].pc = "retry"
    /\ Retries(w) = MaxRetries
    /\ End(w, "FAILED_RESULT")
    /\ UNCHANGED <<req, api, row, db, queue, results, outbox, store, faults>>

\* The execution ends: its final state goes to the result backend.
StoreResult(w) ==
    /\ worker[w].pc = "store"
    /\ results' = [results EXCEPT ![Job(w)] = @ \cup {worker[w].outcome}]
    /\ Goto(w, "ack")
    /\ UNCHANGED <<req, api, row, db, queue, outbox, store, faults>>

\* After a result was stored, or the Retry exception was raised.
Ack(w) ==
    /\ worker[w].pc \in {"retried", "ack"}
    /\ worker' = [worker EXCEPT ![w] = Idle]
    /\ UNCHANGED <<req, api, row, db, queue, results, outbox, store, faults>>

\* task_soft_time_limit: an exception, at most one per execution, raised where
\* the task stands.  In the try it is caught like any other, after the
\* completion was published as well; in the except clause it leaves the task
\* with no retry; once the retry is published, Celery's retry() turns it into a
\* rejection.
SoftTimeLimit(w) ==
    /\ ~worker[w].limited
    /\ \/ /\ worker[w].pc \in {"fetch", "sign", "notify"}
          /\ worker' = [worker EXCEPT ![w].pc = Handling(w), ![w].limited = TRUE]
          /\ UNCHANGED faults
       \/ /\ worker[w].pc = "told"
          /\ faults < MaxFaults
          /\ faults' = faults + 1
          /\ worker' = [worker EXCEPT ![w].pc = "report", ![w].limited = TRUE]
       \/ /\ worker[w].pc \in {"report", "retry", "retried"}
          /\ worker' = [worker EXCEPT ![w].pc = "store", ![w].limited = TRUE,
                ![w].outcome = IF worker[w].pc = "retried" THEN "REJECTED" ELSE "RAISED"]
          /\ UNCHANGED faults
    /\ UNCHANGED <<req, api, row, db, queue, results, outbox, store>>

\* task_time_limit: the child is killed, Celery records a failure and still
\* acknowledges the message (acks_on_failure_or_timeout).
HardTimeLimit(w) ==
    /\ worker[w].pc \notin {"idle", "ack"}
    /\ results' = [results EXCEPT ![Job(w)] = @ \cup {"KILLED"}]
    /\ worker' = [worker EXCEPT ![w] = Idle]
    /\ UNCHANGED <<req, api, row, db, queue, outbox, store, faults>>

\* Variant: acks_late is not set, so the message is gone when it was received.
WorkerCrashEarlyAck(w) ==
    /\ worker[w].pc # "idle"
    /\ faults < MaxFaults
    /\ faults' = faults + 1
    /\ worker' = [worker EXCEPT ![w] = Idle]
    /\ UNCHANGED <<req, api, row, db, queue, results, outbox, store>>

\* The worker dies with the message unacknowledged: the broker redelivers it.
WorkerCrash(w) ==
    /\ worker[w].pc # "idle"
    /\ faults < MaxFaults
    /\ faults' = faults + 1
    /\ queue' = [queue EXCEPT ![worker[w].msg] = @ + 1]
    /\ worker' = [worker EXCEPT ![w] = Idle]
    /\ UNCHANGED <<req, api, row, db, results, outbox, store>>

(***************************************************************************)
(* The operator of the certificate store, and the calendar.                *)
(***************************************************************************)
Rotate(c) ==
    /\ store[c].gen < MaxGen
    /\ \E k \in {"usable", "unusable"} :
        store' = [store EXCEPT ![c] = [gen |-> @.gen + 1, cond |-> k]]
    /\ UNCHANGED <<req, api, row, db, queue, worker, results, outbox, faults>>

Delete(c) ==
    /\ store[c].cond # "absent"
    /\ store' = [store EXCEPT ![c].cond = "absent"]
    /\ UNCHANGED <<req, api, row, db, queue, worker, results, outbox, faults>>

Expire(c) ==
    /\ store[c].cond = "usable"
    /\ store' = [store EXCEPT ![c].cond = "unusable"]
    /\ UNCHANGED <<req, api, row, db, queue, worker, results, outbox, faults>>

-----------------------------------------------------------------------------
Handler(j) ==
    Refuse(j) \/ Submit(j) \/ Enqueue(j) \/ ProcessSigningSync(j) \/ Commit(j)

\* What the task does by itself, from the receipt of the message to its ack.
TaskStep(w) ==
    \/ Fetch(w) \/ Sign(w) \/ Except(w) \/ Notify(w) \/ Return(w) \/ Report(w)
    \/ Retry(w) \/ GiveUp(w) \/ StoreResult(w) \/ Ack(w)

Next ==
    \/ \E j \in Jobs : Handler(j) \/ Abort(j)
    \/ \E w \in Workers :
        \/ \E m \in Messages : Receive(w, m)
        \/ TaskStep(w) \/ SoftTimeLimit(w) \/ HardTimeLimit(w) \/ WorkerCrash(w)
    \/ \E c \in Certs : Rotate(c) \/ Delete(c) \/ Expire(c)

Spec == Init /\ [][Next]_vars

(***************************************************************************)
(* Fairness.  An accepted request runs to its end; a task's steps are      *)
(* bounded by the time limits; some worker process takes every ready       *)
(* message.  Nothing makes a client send a request, a certificate change,  *)
(* a process die or a limit fire.                                          *)
(***************************************************************************)
Fairness ==
    /\ \A j \in Jobs : WF_vars(Enqueue(j) \/ ProcessSigningSync(j) \/ Commit(j))
    /\ \A w \in Workers : WF_vars(TaskStep(w))
    /\ \A m \in Messages : WF_vars(\E w \in Workers : Receive(w, m))

FairSpec == Spec /\ Fairness
-----------------------------------------------------------------------------
(***************************************************************************)
(* Properties.                                                             *)
(***************************************************************************)
Row == [status : {"none", "queued", "completed", "failed"}, seal : Seals \cup {NoSeal}]
Event == [event : {"signing.completed", "signing.failed"}, seal : Seals \cup {NoSeal}]

Busy == [pc : {"fetch", "sign", "notify", "told", "report", "retry", "retried",
               "store", "ack"},
         msg : Messages, seal : Seals \cup {NoSeal}, usable : BOOLEAN,
         limited : BOOLEAN, outcome : Finals \cup {"none"}]

\* The type invariant: what each piece of state ranges over, that a worker is
\* idle with nothing held or busy with a message, and that an execution about
\* to record how it ended has ended somehow.
TypeOK ==
    /\ req \in [Jobs -> Requests]
    /\ api \in [Jobs -> {"new", "refused", "enqueue", "fallback", "commit",
                         "answered", "unanswered", "aborted"}]
    /\ row \in [Jobs -> Row]
    /\ db \in [Jobs -> Row]
    /\ queue \in [Messages -> Nat]
    /\ worker \in [Workers -> {Idle} \cup Busy]
    /\ \A w \in Workers : worker[w].pc = "store" => worker[w].outcome \in Finals
    /\ results \in [Jobs -> SUBSET Finals]
    /\ outbox \in [Jobs -> Seq(Event)]
    /\ store \in [Certs -> [gen : Nat, cond : Conditions]]
    /\ faults \in Nat

Ready(j) == \E r \in 0..MaxRetries : queue[<<j, r>>] > 0

\* A worker that only has its acknowledgement left is no longer executing: what
\* it was to leave behind (a result, or the retry message) is already there.
Executing(w, j) == worker[w].pc \notin {"idle", "retried", "ack"} /\ Job(w) = j

Settled(j) == results[j] # {}

Live(j) == Ready(j) \/ \E w \in Workers : Executing(w, j)

\* No crash, redelivery or lost publish loses a task: a job the database shows
\* as queued has a ready message, a worker executing it, or an ended execution.
NoLostTask ==
    \A j \in Jobs : db[j].status = "queued" => Live(j) \/ Settled(j)

\* Every signature the outside sees was made by a generation the right
\* certificate really went through: an event's by the certificate the request
\* resolved to, a row's by "default" (the fallback ignores the profile), and
\* never for an algorithm the engine does not support.
Provenance ==
    \A j \in Jobs :
        /\ \A i \in DOMAIN outbox[j] :
            outbox[j][i].event = "signing.completed" =>
                /\ req[j].supported
                /\ outbox[j][i].seal \in
                     {<<CertName(req[j]), g>> : g \in 1..store[CertName(req[j])].gen}
        /\ db[j].status = "completed" =>
                /\ req[j].supported
                /\ db[j].seal \in {<<Default, g>> : g \in 1..store[Default].gen}

\* Without broker faults, crashes and soft time limits between a completion and
\* the return, the events of a job are failures of the attempts in order, at most
\* one per attempt, with nothing after a completion.  The other soft limits, and
\* the hard one, may strike anywhere.
OutboxShape ==
    faults = 0 =>
        \A j \in Jobs :
            /\ Len(outbox[j]) <= MaxRetries + 1
            /\ \A i \in DOMAIN outbox[j] :
                outbox[j][i].event = "signing.completed" => i = Len(outbox[j])

\* Each copy of a message, each execution that can still publish a completion
\* and each completion already published is one effect of the job.  Redelivery,
\* retries and republishing add at most one effect per fault, a soft time limit
\* that turns a completion already published into a failure being one of them.
Copies(j) == UNION {{<<r, i>> : i \in 1..queue[<<j, r>>]} : r \in 0..MaxRetries}
Runs(w, j) ==
    worker[w].pc \in {"fetch", "sign", "notify", "report", "retry"} /\ Job(w) = j
Completions(j) == {i \in DOMAIN outbox[j] : outbox[j][i].event = "signing.completed"}

Effects(j) ==
    Cardinality(Copies(j)) + Cardinality({w \in Workers : Runs(w, j)})
    + Cardinality(Completions(j))

EffectBound == \A j \in Jobs : Effects(j) <= 1 + faults

\* A job the API signed by itself is not given to a worker as well.  It holds
\* as long as a publish that raises left nothing on the broker.
OnePath ==
    \A j \in Jobs :
        db[j].status \in {"completed", "failed"} =>
            ~Live(j) /\ ~Settled(j) /\ outbox[j] = <<>>

\* Effects of a job without a committed row come only from a request that is
\* still in flight or was aborted after the task had been published.
EffectsHaveRow ==
    \A j \in Jobs :
        (Live(j) \/ Settled(j) \/ outbox[j] # <<>>) /\ db[j].status = "none"
            => api[j] \in {"fallback", "commit", "aborted"}

\* A task that succeeded told its webhook so, with its signature; one whose
\* retry was rejected had told it of a failure; one that gave up had told it of a
\* failure in every one of its attempts.  Only an execution that was killed, or
\* left by an exception of its except clause, may end unheard.
ResultsWereNotified ==
    \A j \in Jobs :
        req[j].webhook =>
            /\ "SUCCESS" \in results[j] =>
                \E i \in DOMAIN outbox[j] : outbox[j][i].event = "signing.completed"
            /\ "REJECTED" \in results[j] =>
                \E i \in DOMAIN outbox[j] : outbox[j][i].event = "signing.failed"
            /\ "FAILED_RESULT" \in results[j] =>
                Cardinality({i \in DOMAIN outbox[j] :
                    outbox[j][i].event = "signing.failed"}) > MaxRetries

\* A job left queued in the database is eventually settled by some worker,
\* through any retries, crashes and redeliveries.
TaskSettles == \A j \in Jobs : db[j].status = "queued" ~> Settled(j)
=============================================================================
