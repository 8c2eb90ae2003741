----------------------- MODULE SigningPipelineProofs -----------------------
(***************************************************************************)
(* Theorems about SigningPipeline, for every set of jobs, workers,         *)
(* certificates, profiles and requests and every retry, generation and     *)
(* fault bound.                                                            *)
(***************************************************************************)
EXTENDS SigningPipeline, FiniteSetTheorems, TLAPS

\* A publish puts a natural number of copies on the broker.
LEMMA PublishType ==
    ASSUME NEW n \in 0..2, NEW raised \in BOOLEAN, Publish(n, raised), faults \in Nat
    PROVE  n \in Nat /\ faults' \in Nat
BY DEF Publish

\* A publish that returns left a copy of the message on the broker.
LEMMA PublishReturned ==
    ASSUME NEW n \in 0..2, NEW raised \in BOOLEAN, Publish(n, raised), ~raised
    PROVE  n > 0
<1>1. CASE n = 1
  BY <1>1
<1>2. CASE <<n, raised>> \in PublishFaults
  <2>1. <<n, raised>> \in {<<0, TRUE>>, <<1, TRUE>>, <<2, FALSE>>}
    BY <1>2, FaultAssumption
  <2>2. <<n, raised>> = <<2, FALSE>>
    BY <2>1
  <2>3. n = 2
    BY <2>2
  <2>. QED
    BY <2>3
<1>. QED
  BY <1>1, <1>2 DEF Publish

LEMMA MessageType ==
    ASSUME NEW j \in Jobs, NEW r \in 0..MaxRetries
    PROVE  <<j, r>> \in Messages
BY DEF Messages

\* A worker that is not idle executes a task of some job.
LEMMA BusyWorker ==
    ASSUME TypeOK, NEW w \in Workers, worker[w].pc # "idle"
    PROVE  /\ worker[w] \in Busy
           /\ worker[w].msg \in Messages
           /\ worker[w].msg = <<Job(w), Retries(w)>>
           /\ Job(w) \in Jobs /\ Retries(w) \in 0..MaxRetries
<1>1. worker[w] \in Busy
  BY DEF TypeOK, Idle
<1>2. worker[w].msg \in Messages
  BY <1>1 DEF Busy
<1>. QED
  BY <1>1, <1>2 DEF Messages, Job, Retries

\* Moving a busy worker on, or ending its execution, keeps the worker's type.
WorkerType(wk) ==
    /\ wk \in [Workers -> {Idle} \cup Busy]
    /\ \A w \in Workers : wk[w].pc = "store" => wk[w].outcome \in Finals

LEMMA WorkerUpdate ==
    ASSUME WorkerType(worker), NEW w \in Workers, NEW x \in {Idle} \cup Busy,
           x.pc = "store" => x.outcome \in Finals,
           worker' = [worker EXCEPT ![w] = x]
    PROVE  WorkerType(worker')
BY DEF WorkerType

LEMMA GotoType ==
    ASSUME WorkerType(worker), NEW w \in Workers, worker[w] \in Busy,
           NEW pc \in {"notify", "told", "report", "retry", "retried", "ack"}, Goto(w, pc)
    PROVE  WorkerType(worker')
<1>1. [worker[w] EXCEPT !.pc = pc] \in Busy /\ [worker[w] EXCEPT !.pc = pc].pc # "store"
  BY DEF Busy
<1>2. worker' = [worker EXCEPT ![w] = [worker[w] EXCEPT !.pc = pc]]
  BY DEF Goto, WorkerType
<1>. QED
  BY <1>1, <1>2, WorkerUpdate

LEMMA EndType ==
    ASSUME WorkerType(worker), NEW w \in Workers, worker[w] \in Busy,
           NEW outcome \in Finals, End(w, outcome)
    PROVE  WorkerType(worker')
<1>. DEFINE x == [worker[w] EXCEPT !.pc = "store", !.outcome = outcome]
<1>1. x \in Busy /\ x.outcome = outcome
  BY DEF Busy
<1>2. worker' = [worker EXCEPT ![w] = x]
  BY DEF End, WorkerType
<1>. QED
  BY <1>1, <1>2, WorkerUpdate

\* Where a soft time limit may strike, what it changes, and where it leads.
LEMMA Limit ==
    ASSUME TypeOK, NEW w \in Workers, SoftTimeLimit(w)
    PROVE  /\ WorkerType(worker')
           /\ worker[w].pc # "idle" /\ worker'[w].msg = worker[w].msg
           /\ \A v \in Workers \ {w} : worker'[v] = worker[v]
           /\ UNCHANGED <<req, api, row, db, queue, results, outbox, store>>
           /\ \/ /\ worker[w].pc \in {"fetch", "sign", "notify"}
                 /\ worker'[w].pc = Handling(w) /\ UNCHANGED faults
              \/ /\ worker[w].pc = "told" /\ worker'[w].pc = "report"
                 /\ faults' = faults + 1
              \/ /\ worker[w].pc \in {"report", "retry", "retried"}
                 /\ worker'[w].pc = "store" /\ UNCHANGED faults
                 /\ worker'[w].outcome =
                      IF worker[w].pc = "retried" THEN "REJECTED" ELSE "RAISED"
<1>1. worker[w].pc # "idle" /\ worker[w] \in Busy /\ WorkerType(worker)
  BY BusyWorker DEF SoftTimeLimit, WorkerType, TypeOK
<1>2. Handling(w) \in {"report", "retry"}
  BY DEF Handling
<1>3. CASE worker[w].pc \in {"fetch", "sign", "notify", "told"}
  <2>. DEFINE x == [worker[w] EXCEPT !.limited = TRUE,
                      !.pc = IF worker[w].pc = "told" THEN "report" ELSE Handling(w)]
  <2>1. x \in Busy /\ x.pc # "store" /\ x.msg = worker[w].msg
        /\ x.pc = IF worker[w].pc = "told" THEN "report" ELSE Handling(w)
    BY <1>1, <1>2 DEF Busy
  <2>2. worker' = [worker EXCEPT ![w] = x]
    BY <1>1, <1>3 DEF SoftTimeLimit, WorkerType, Busy
  <2>. HIDE DEF x
  <2>3. WorkerType(worker') /\ worker'[w] = x
        /\ \A v \in Workers \ {w} : worker'[v] = worker[v]
    BY <1>1, <2>1, <2>2, WorkerUpdate DEF WorkerType
  <2>. QED
    BY <1>1, <1>3, <2>1, <2>3 DEF SoftTimeLimit
<1>4. CASE worker[w].pc \in {"report", "retry", "retried"}
  <2>. DEFINE o == IF worker[w].pc = "retried" THEN "REJECTED" ELSE "RAISED"
              x == [worker[w] EXCEPT !.pc = "store", !.limited = TRUE, !.outcome = o]
  <2>1. x \in Busy /\ x.pc = "store" /\ x.outcome = o /\ o \in Finals /\ x.msg = worker[w].msg
    BY <1>1 DEF Busy, Finals
  <2>2. worker' = [worker EXCEPT ![w] = x]
    BY <1>1, <1>4 DEF SoftTimeLimit, WorkerType, Busy
  <2>. HIDE DEF x
  <2>3. WorkerType(worker') /\ worker'[w] = x
        /\ \A v \in Workers \ {w} : worker'[v] = worker[v]
    BY <1>1, <2>1, <2>2, WorkerUpdate DEF WorkerType
  <2>. QED
    BY <1>1, <1>4, <2>1, <2>3 DEF SoftTimeLimit
<1>. QED
  BY <1>3, <1>4 DEF SoftTimeLimit

\* An admissible request resolves to a certificate name.
LEMMA CertNameType ==
    ASSUME NEW q \in Requests, Admissible(q)
    PROVE  CertName(q) \in Certs
BY DefaultAssumption, ProfileAssumption, RequestAssumption
   DEF Admissible, CertName, Matches

LEMMA EventsType ==
    ASSUME NEW e \in Event, NEW n \in 0..2, NEW s \in Seq(Event)
    PROVE  s \o Events(e, n) \in Seq(Event)
<1>1. Events(e, n) \in Seq(Event)
  BY DEF Events
<1>. QED
  BY <1>1

-----------------------------------------------------------------------------
(***************************************************************************)
(* The inductive invariant of the request handler.  Effects of a job       *)
(* (messages, executions, ended executions, events) start with the publish *)
(* that follows the flush; a row is committed only by the two last answers.*)
(***************************************************************************)
Touched(j) ==
    \/ Ready(j)
    \/ \E w \in Workers : worker[w].pc # "idle" /\ Job(w) = j
    \/ Settled(j)
    \/ outbox[j] # <<>>

Untouched == \A j \in Jobs : api[j] \in {"new", "refused", "enqueue"} => ~Touched(j)

Admitted == \A j \in Jobs : api[j] \notin {"new", "refused"} => Admissible(req[j])

Session == \A j \in Jobs :
    /\ api[j] \in {"enqueue", "fallback"} => row[j].status = "queued"
    /\ api[j] = "commit" => row[j].status \in {"queued", "completed", "failed"}
    /\ api[j] \in {"answered", "unanswered"} <=> db[j].status # "none"

HandlerInv == TypeOK /\ Untouched /\ Admitted /\ Session

LEMMA HandlerInit == Init => HandlerInv
<1>. SUFFICES ASSUME Init PROVE HandlerInv
  OBVIOUS
<1>. USE DEF Init
<1>1. TypeOK
  BY DEF TypeOK, Idle, EmptyRow, Row, Conditions
<1>2. Untouched
  <2>1. \A j \in Jobs : ~Ready(j)
    <3>1. ASSUME NEW j \in Jobs, NEW r \in 0..MaxRetries
          PROVE  queue[<<j, r>>] = 0
      BY MessageType
    <3>2. ~(0 > 0)
      OBVIOUS
    <3>. QED
      BY <3>1, <3>2 DEF Ready
  <2>2. \A w \in Workers : worker[w].pc = "idle"
    BY DEF Idle
  <2>. QED
    BY <2>1, <2>2 DEF Untouched, Touched, Settled
<1>3. Admitted /\ Session
  BY DEF Admitted, Session, EmptyRow
<1>. QED
  BY <1>1, <1>2, <1>3 DEF HandlerInv

\* The types are preserved by every step of the pipeline.
LEMMA TypeStep == HandlerInv /\ [Next]_vars => TypeOK'
<1>. SUFFICES ASSUME HandlerInv, [Next]_vars PROVE TypeOK'
  OBVIOUS
<1>. USE DEF HandlerInv
<1>0. WorkerType(worker)
  BY DEF TypeOK, WorkerType
<1>1. ASSUME NEW j \in Jobs, Handler(j) PROVE TypeOK'
  <2>1. CASE Refuse(j) BY <2>1 DEF Refuse, TypeOK
  <2>2. CASE Submit(j) BY <2>2 DEF Submit, TypeOK, Row
  <2>3. CASE Enqueue(j)
    <3>. PICK n \in 0..2, raised \in BOOLEAN :
           /\ Publish(n, raised)
           /\ queue' = [queue EXCEPT ![<<j, 0>>] = @ + n]
           /\ api' = [api EXCEPT ![j] = IF raised THEN "fallback" ELSE "commit"]
      BY <2>3 DEF Enqueue
    <3>1. queue' \in [Messages -> Nat]
      BY MessageType, BoundAssumption DEF TypeOK
    <3>2. faults' \in Nat
      BY PublishType DEF TypeOK
    <3>. QED
      BY <2>3, <3>1, <3>2 DEF Enqueue, TypeOK
  <2>4. CASE ProcessSigningSync(j)
    <3>1. store[Default].gen \in Nat
      BY DefaultAssumption DEF TypeOK
    <3>2. /\ [status |-> "completed", seal |-> <<Default, store[Default].gen>>] \in Row
          /\ [status |-> "failed", seal |-> NoSeal] \in Row
      BY <3>1, DefaultAssumption DEF Row, Seals
    <3>. QED
      BY <2>4, <3>2 DEF ProcessSigningSync, TypeOK
  <2>5. CASE Commit(j) BY <2>5 DEF Commit, TypeOK
  <2>. QED
    BY <1>1, <2>1, <2>2, <2>3, <2>4, <2>5 DEF Handler
<1>2. ASSUME NEW j \in Jobs, Abort(j) PROVE TypeOK'
  <2>1. EmptyRow \in Row
    BY DEF EmptyRow, Row
  <2>. QED
    BY <1>2, <2>1 DEF Abort, TypeOK
<1>3. ASSUME NEW w \in Workers, NEW m \in Messages, Receive(w, m) PROVE TypeOK'
  <2>. DEFINE x == [Idle EXCEPT !.pc = "fetch", !.msg = m]
  <2>1. worker[w] = Idle
    BY <1>3 DEF Receive, TypeOK, Busy
  <2>2. x \in Busy /\ x.pc # "store"
    BY DEF Idle, Busy
  <2>3. worker' = [worker EXCEPT ![w] = x]
    BY <1>3, <2>1 DEF Receive, TypeOK
  <2>4. WorkerType(worker')
    BY <1>0, <2>2, <2>3, WorkerUpdate
  <2>5. queue' \in [Messages -> Nat]
    BY <1>3 DEF Receive, TypeOK
  <2>. QED
    BY <1>3, <2>4, <2>5 DEF Receive, TypeOK, WorkerType
<1>4. ASSUME NEW w \in Workers, TaskStep(w) PROVE TypeOK'
  <2>0. /\ worker[w].pc # "idle"
        /\ worker[w] \in Busy
        /\ Job(w) \in Jobs
        /\ Retries(w) \in 0..MaxRetries
    BY <1>4, BusyWorker
       DEF TaskStep, Fetch, Sign, Except, Notify, Return, Report, Retry, GiveUp, StoreResult, Ack
  <2>1. CASE Fetch(w)
    <3>. DEFINE c == CertName(req[Job(w)])
    <3>. DEFINE x == [worker[w] EXCEPT !.pc = "sign", !.seal = <<c, store[c].gen>>,
                                       !.usable = (store[c].cond = "usable")]
    <3>1. Admissible(req[Job(w)])
      BY <2>0 DEF Untouched, Touched, Admitted
    <3>2. c \in Certs /\ store[c].gen \in Nat
      BY <2>0, <3>1, CertNameType DEF TypeOK
    <3>3. <<c, store[c].gen>> \in Seals
      BY <3>2 DEF Seals
    <3>4. x \in Busy /\ x.pc # "store"
      BY <2>0, <3>3 DEF Busy
    <3>5. worker' = [worker EXCEPT ![w] = x]
      BY <2>1 DEF Fetch, TypeOK
    <3>6. WorkerType(worker')
      BY <1>0, <3>4, <3>5, WorkerUpdate
    <3>. QED
      BY <2>1, <3>6 DEF Fetch, TypeOK, WorkerType
  <2>2. CASE Sign(w)
    <3>1. WorkerType(worker')
      BY <1>0, <2>0, <2>2, GotoType, EndType DEF Sign, Finals
    <3>. QED
      BY <2>2, <3>1 DEF Sign, TypeOK, WorkerType
  <2>3. CASE Except(w)
    <3>1. Goto(w, "report") \/ Goto(w, "retry")
      BY <2>3 DEF Except, Handling
    <3>2. WorkerType(worker')
      BY <1>0, <2>0, <3>1, GotoType
    <3>. QED
      BY <2>3, <3>2 DEF Except, TypeOK, WorkerType
  <2>4. CASE Notify(w)
    <3>. PICK n \in 0..2, raised \in BOOLEAN :
           /\ Publish(n, raised)
           /\ outbox' = [outbox EXCEPT ![Job(w)] =
                @ \o Events([event |-> "signing.completed", seal |-> worker[w].seal], n)]
           /\ IF raised THEN Goto(w, "report") ELSE Goto(w, "told")
      BY <2>4 DEF Notify
    <3>1. outbox' \in [Jobs -> Seq(Event)]
      <4>1. [event |-> "signing.completed", seal |-> worker[w].seal] \in Event
        BY <2>0 DEF Event, Busy
      <4>. QED
        BY <4>1, <2>0, EventsType DEF TypeOK
    <3>2. faults' \in Nat
      BY PublishType DEF TypeOK
    <3>3. WorkerType(worker')
      BY <1>0, <2>0, GotoType
    <3>. QED
      BY <2>4, <3>1, <3>2, <3>3 DEF Notify, TypeOK, WorkerType
  <2>10. CASE Return(w)
    <3>1. WorkerType(worker')
      BY <1>0, <2>0, <2>10, EndType DEF Return, Finals
    <3>. QED
      BY <2>10, <3>1 DEF Return, TypeOK, WorkerType
  <2>5. CASE Report(w)
    <3>. PICK n \in 0..2, raised \in BOOLEAN :
           /\ Publish(n, raised)
           /\ outbox' = [outbox EXCEPT ![Job(w)] =
                @ \o Events([event |-> "signing.failed", seal |-> NoSeal], n)]
           /\ IF raised THEN End(w, "RAISED") ELSE Goto(w, "retry")
      BY <2>5 DEF Report
    <3>1. outbox' \in [Jobs -> Seq(Event)]
      <4>1. [event |-> "signing.failed", seal |-> NoSeal] \in Event
        BY DEF Event
      <4>. QED
        BY <4>1, <2>0, EventsType DEF TypeOK
    <3>2. faults' \in Nat
      BY PublishType DEF TypeOK
    <3>3. WorkerType(worker')
      BY <1>0, <2>0, GotoType, EndType DEF Finals
    <3>. QED
      BY <2>5, <3>1, <3>2, <3>3 DEF Report, TypeOK, WorkerType
  <2>6. CASE Retry(w)
    <3>. PICK n \in 0..2, raised \in BOOLEAN :
           /\ Publish(n, raised)
           /\ queue' = [queue EXCEPT ![<<Job(w), Retries(w) + 1>>] = @ + n]
           /\ IF raised THEN End(w, "REJECTED") ELSE Goto(w, "retried")
      BY <2>6 DEF Retry
    <3>1. queue' \in [Messages -> Nat]
      <4>1. <<Job(w), Retries(w) + 1>> \in Messages
        BY <2>0, <2>6, BoundAssumption DEF Retry, Messages
      <4>. QED
        BY <4>1 DEF TypeOK
    <3>2. faults' \in Nat
      BY PublishType DEF TypeOK
    <3>3. WorkerType(worker')
      BY <1>0, <2>0, GotoType, EndType DEF Finals
    <3>. QED
      BY <2>6, <3>1, <3>2, <3>3 DEF Retry, TypeOK, WorkerType
  <2>7. CASE GiveUp(w)
    <3>1. WorkerType(worker')
      BY <1>0, <2>0, <2>7, EndType DEF GiveUp, Finals
    <3>. QED
      BY <2>7, <3>1 DEF GiveUp, TypeOK, WorkerType
  <2>8. CASE StoreResult(w)
    <3>1. worker[w].outcome \in Finals
      BY <2>8 DEF StoreResult, TypeOK
    <3>2. results' \in [Jobs -> SUBSET Finals]
      BY <2>8, <3>1 DEF StoreResult, TypeOK
    <3>3. WorkerType(worker')
      BY <1>0, <2>0, <2>8, GotoType DEF StoreResult
    <3>. QED
      BY <2>8, <3>2, <3>3 DEF StoreResult, TypeOK, WorkerType
  <2>9. CASE Ack(w)
    <3>1. WorkerType(worker')
      BY <1>0, <2>9, WorkerUpdate DEF Ack, Idle
    <3>. QED
      BY <2>9, <3>1 DEF Ack, TypeOK, WorkerType
  <2>. QED
    BY <1>4, <2>1, <2>2, <2>3, <2>4, <2>5, <2>6, <2>7, <2>8, <2>9, <2>10 DEF TaskStep
<1>5. ASSUME NEW w \in Workers, HardTimeLimit(w) PROVE TypeOK'
  <2>1. WorkerType(worker')
    BY <1>0, <1>5, WorkerUpdate DEF HardTimeLimit, Idle
  <2>2. results' \in [Jobs -> SUBSET Finals]
    BY <1>5 DEF HardTimeLimit, TypeOK, Finals
  <2>. QED
    BY <1>5, <2>1, <2>2 DEF HardTimeLimit, TypeOK, WorkerType
<1>9. ASSUME NEW w \in Workers, SoftTimeLimit(w) PROVE TypeOK'
  <2>1. WorkerType(worker') /\ UNCHANGED <<req, api, row, db, queue, results, outbox, store>>
        /\ (faults' = faults \/ faults' = faults + 1)
    BY <1>9, Limit
  <2>. QED
    BY <2>1 DEF TypeOK, WorkerType
<1>6. ASSUME NEW w \in Workers, WorkerCrash(w) PROVE TypeOK'
  <2>1. WorkerType(worker')
    BY <1>0, <1>6, WorkerUpdate DEF WorkerCrash, Idle
  <2>2. queue' \in [Messages -> Nat] /\ faults' \in Nat
    BY <1>6, BusyWorker DEF WorkerCrash, TypeOK
  <2>. QED
    BY <1>6, <2>1, <2>2 DEF WorkerCrash, TypeOK, WorkerType
<1>7. ASSUME NEW c \in Certs, Rotate(c) \/ Delete(c) \/ Expire(c) PROVE TypeOK'
  <2>1. store' \in [Certs -> [gen : Nat, cond : Conditions]]
    <3>1. store[c] \in [gen : Nat, cond : Conditions]
      BY DEF TypeOK
    <3>2. CASE Rotate(c)
      <4>. PICK k \in {"usable", "unusable"} :
             store' = [store EXCEPT ![c] = [gen |-> @.gen + 1, cond |-> k]]
        BY <3>2 DEF Rotate
      <4>1. [gen |-> store[c].gen + 1, cond |-> k] \in [gen : Nat, cond : Conditions]
        BY <3>1 DEF Conditions
      <4>. QED
        BY <4>1 DEF TypeOK
    <3>3. ASSUME NEW k \in Conditions, store' = [store EXCEPT ![c].cond = k]
          PROVE  store' \in [Certs -> [gen : Nat, cond : Conditions]]
      <4>1. [store[c] EXCEPT !.cond = k] \in [gen : Nat, cond : Conditions]
        BY <3>1
      <4>2. store' = [store EXCEPT ![c] = [store[c] EXCEPT !.cond = k]]
        BY <3>3
      <4>. QED
        BY <4>1, <4>2 DEF TypeOK
    <3>. QED
      BY <1>7, <3>2, <3>3 DEF Delete, Expire, Conditions
  <2>. QED
    BY <1>7, <2>1 DEF Rotate, Delete, Expire, TypeOK
<1>8. CASE UNCHANGED vars
  BY <1>8 DEF vars, TypeOK
<1>. QED
  BY <1>1, <1>2, <1>3, <1>4, <1>5, <1>6, <1>7, <1>8, <1>9 DEF Next

-----------------------------------------------------------------------------
(***************************************************************************)
(* What a step of a worker leaves alone: everything of other jobs.         *)
(***************************************************************************)
OthersUntouched(w, job) ==
    /\ \A k \in Jobs \ {job} :
        /\ \A r \in 0..MaxRetries : queue'[<<k, r>>] = queue[<<k, r>>]
        /\ results'[k] = results[k]
        /\ outbox'[k] = outbox[k]
    /\ \A v \in Workers \ {w} : worker'[v] = worker[v]
    /\ worker'[w].pc # "idle" => worker'[w].msg[1] = job
    /\ UNCHANGED <<req, api, row, db, store>>

TaskEnd(w) ==
    TaskStep(w) \/ SoftTimeLimit(w) \/ HardTimeLimit(w) \/ WorkerCrash(w)

\* A step of a busy worker concerns the job whose task it executes.
LEMMA TaskFrame ==
    ASSUME TypeOK, NEW w \in Workers, TaskEnd(w)
    PROVE  /\ worker[w].pc # "idle" /\ Job(w) \in Jobs
           /\ OthersUntouched(w, Job(w))
<1>1. worker[w].pc # "idle"
  BY DEF TaskEnd, SoftTimeLimit, HardTimeLimit, WorkerCrash,
         TaskStep, Fetch, Sign, Except, Notify, Return, Report, Retry, GiveUp, StoreResult, Ack
<1>2. /\ worker[w] \in Busy
      /\ worker[w].msg \in Messages
      /\ worker[w].msg = <<Job(w), Retries(w)>>
      /\ Job(w) \in Jobs /\ Retries(w) \in 0..MaxRetries
  BY <1>1, BusyWorker
<1>3. ASSUME NEW pc, Goto(w, pc)
      PROVE  /\ \A v \in Workers \ {w} : worker'[v] = worker[v]
             /\ worker'[w].msg[1] = Job(w)
  BY <1>2, <1>3 DEF Goto, TypeOK, Busy, Job
<1>4. ASSUME NEW outcome, End(w, outcome)
      PROVE  /\ \A v \in Workers \ {w} : worker'[v] = worker[v]
             /\ worker'[w].msg[1] = Job(w)
  BY <1>2, <1>4 DEF End, TypeOK, Busy, Job
<1>5. ASSUME worker' = [worker EXCEPT ![w] = Idle]
      PROVE  /\ \A v \in Workers \ {w} : worker'[v] = worker[v]
             /\ worker'[w].pc = "idle"
  BY <1>5 DEF TypeOK, Idle
<1>. USE DEF OthersUntouched
<1>6. CASE Fetch(w)
  <2>1. /\ \A v \in Workers \ {w} : worker'[v] = worker[v]
        /\ worker'[w].msg[1] = Job(w)
    BY <1>2, <1>6 DEF Fetch, TypeOK, Busy, Job
  <2>. QED
    BY <1>1, <1>2, <1>6, <2>1 DEF Fetch
<1>7. CASE Sign(w) BY <1>1, <1>2, <1>3, <1>4, <1>7 DEF Sign
<1>8. CASE Except(w)
  <2>1. Goto(w, "report") \/ Goto(w, "retry")
    BY <1>8 DEF Except, Handling
  <2>. QED
    BY <1>1, <1>2, <1>3, <1>8, <2>1 DEF Except
<1>9. CASE Notify(w) BY <1>1, <1>2, <1>3, <1>4, <1>9 DEF Notify, TypeOK
<1>17. CASE Return(w) BY <1>1, <1>2, <1>4, <1>17 DEF Return
<1>18. CASE SoftTimeLimit(w)
  <2>1. worker'[w].msg[1] = Job(w)
    BY <1>18, Limit DEF Job
  <2>. QED
    BY <1>1, <1>2, <1>18, <2>1, Limit
<1>10. CASE Report(w) BY <1>1, <1>2, <1>3, <1>4, <1>10 DEF Report, TypeOK
<1>11. CASE Retry(w) BY <1>1, <1>2, <1>3, <1>4, <1>11, MessageType DEF Retry, TypeOK
<1>12. CASE GiveUp(w) BY <1>1, <1>2, <1>4, <1>12 DEF GiveUp
<1>13. CASE StoreResult(w) BY <1>1, <1>2, <1>3, <1>13 DEF StoreResult, TypeOK
<1>14. CASE Ack(w) BY <1>1, <1>2, <1>5, <1>14 DEF Ack
<1>15. CASE HardTimeLimit(w) BY <1>1, <1>2, <1>5, <1>15 DEF HardTimeLimit, TypeOK
<1>16. CASE WorkerCrash(w) BY <1>1, <1>2, <1>5, <1>16, MessageType DEF WorkerCrash, TypeOK
<1>. QED
  BY <1>6, <1>7, <1>8, <1>9, <1>10, <1>11, <1>12, <1>13, <1>14, <1>15, <1>16, <1>17, <1>18
     DEF TaskEnd, TaskStep

\* Taking a message concerns the job it belongs to.
LEMMA ReceiveFrame ==
    ASSUME TypeOK, NEW w \in Workers, NEW m \in Messages, Receive(w, m)
    PROVE  /\ m[1] \in Jobs /\ Ready(m[1])
           /\ worker[w].pc = "idle"
           /\ worker'[w].pc = "fetch" /\ worker'[w].msg = m
           /\ OthersUntouched(w, m[1])
<1>1. PICK j \in Jobs, r \in 0..MaxRetries : m = <<j, r>>
  BY DEF Messages
<1>2. Ready(m[1])
  BY <1>1 DEF Receive, Ready
<1>3. worker[w] = Idle /\ worker[w].pc = "idle"
  BY DEF Receive, TypeOK, Busy
<1>4. /\ worker'[w].pc = "fetch" /\ worker'[w].msg = m
      /\ \A v \in Workers \ {w} : worker'[v] = worker[v]
  BY <1>3 DEF Receive, TypeOK, Idle
<1>5. \A k \in Jobs \ {j}, x \in 0..MaxRetries : queue'[<<k, x>>] = queue[<<k, x>>]
  BY <1>1, MessageType DEF Receive, TypeOK
<1>. QED
  BY <1>1, <1>2, <1>3, <1>4, <1>5 DEF Receive, OthersUntouched

\* A job without effects gets its first one only from its own request.
LEMMA StaysUntouched ==
    ASSUME NEW w \in Workers, NEW job \in Jobs, NEW k \in Jobs, k # job,
           OthersUntouched(w, job), ~Touched(k)
    PROVE  ~Touched(k)'
BY DEF OthersUntouched, Touched, Ready, Settled, Job

LEMMA HandlerStep == HandlerInv /\ [Next]_vars => HandlerInv'
<1>. SUFFICES ASSUME HandlerInv, [Next]_vars PROVE HandlerInv'
  OBVIOUS
<1>. USE DEF HandlerInv
<1>0. TypeOK'
  BY TypeStep
<1>1. ASSUME NEW j \in Jobs, Handler(j) \/ Abort(j)
      PROVE  Untouched' /\ Admitted' /\ Session'
  <2>1. UNCHANGED <<req, worker, results, outbox>>
    BY <1>1 DEF Handler, Abort, Refuse, Submit, Enqueue, ProcessSigningSync, Commit
  <2>2. \A k \in Jobs \ {j} : /\ api'[k] = api[k] /\ row'[k] = row[k] /\ db'[k] = db[k]
                              /\ \A r \in 0..MaxRetries : queue'[<<k, r>>] = queue[<<k, r>>]
    BY <1>1, MessageType
       DEF Handler, Abort, Refuse, Submit, Enqueue, ProcessSigningSync, Commit, TypeOK
  <2>3. Untouched'
    <3>. SUFFICES ASSUME NEW k \in Jobs, api'[k] \in {"new", "refused", "enqueue"}
                  PROVE  ~Touched(k)'
      BY DEF Untouched
    <3>1. CASE k # j
      <4>1. ~Touched(k)
        BY <2>2, <3>1 DEF Untouched
      <4>2. Ready(k)' <=> Ready(k)
        BY <2>2, <3>1 DEF Ready
      <4>. QED
        BY <2>1, <4>1, <4>2 DEF Touched, Settled, Job
    <3>2. CASE k = j
      <4>1. queue' = queue /\ api[k] \in {"new", "refused", "enqueue"}
        BY <1>1, <3>2
           DEF Handler, Abort, Refuse, Submit, Enqueue, ProcessSigningSync, Commit, TypeOK
      <4>. QED
        BY <2>1, <4>1 DEF Untouched, Touched, Ready, Settled, Job
    <3>. QED
      BY <3>1, <3>2
  <2>4. Admitted'
    <3>. SUFFICES ASSUME NEW k \in Jobs, api'[k] \notin {"new", "refused"}
                  PROVE  Admissible(req[k])
      BY <2>1 DEF Admitted, Admissible
    <3>1. CASE k # j
      BY <3>1, <2>2 DEF Admitted
    <3>2. CASE k = j
      BY <1>1, <3>2
         DEF Handler, Abort, Refuse, Submit, Enqueue, ProcessSigningSync, Commit, TypeOK, Admitted
    <3>. QED
      BY <3>1, <3>2
  <2>5. Session'
    <3>. SUFFICES ASSUME NEW k \in Jobs
                  PROVE  /\ api'[k] \in {"enqueue", "fallback"} => row'[k].status = "queued"
                         /\ api'[k] = "commit" =>
                              row'[k].status \in {"queued", "completed", "failed"}
                         /\ api'[k] \in {"answered", "unanswered"} <=> db'[k].status # "none"
      BY DEF Session
    <3>1. CASE k # j
      BY <3>1, <2>2 DEF Session
    <3>2. CASE k = j
      <4>1. CASE Refuse(j) BY <3>2, <4>1 DEF Refuse, TypeOK, Session
      <4>2. CASE Submit(j) BY <3>2, <4>2 DEF Submit, TypeOK, Session
      <4>3. CASE Enqueue(j) BY <3>2, <4>3 DEF Enqueue, TypeOK, Session
      <4>4. CASE ProcessSigningSync(j)
        <5>1. row'[j].status \in {"completed", "failed"}
          BY <4>4 DEF ProcessSigningSync, TypeOK
        <5>. QED
          BY <3>2, <4>4, <5>1 DEF ProcessSigningSync, TypeOK, Session
      <4>5. CASE Commit(j) BY <3>2, <4>5 DEF Commit, TypeOK, Session
      <4>6. CASE Abort(j) BY <3>2, <4>6 DEF Abort, TypeOK, Session, EmptyRow
      <4>. QED
        BY <1>1, <4>1, <4>2, <4>3, <4>4, <4>5, <4>6 DEF Handler
    <3>. QED
      BY <3>1, <3>2
  <2>. QED
    BY <2>3, <2>4, <2>5
<1>2. ASSUME NEW w \in Workers, NEW job \in Jobs, Touched(job), OthersUntouched(w, job)
      PROVE  Untouched' /\ Admitted' /\ Session'
  <2>1. UNCHANGED <<req, api, row, db>>
    BY <1>2 DEF OthersUntouched
  <2>2. Untouched'
    BY <1>2, <2>1, StaysUntouched DEF Untouched
  <2>. QED
    BY <2>1, <2>2 DEF Admitted, Session, Admissible
<1>3. ASSUME NEW w \in Workers, NEW m \in Messages, Receive(w, m)
      PROVE  Untouched' /\ Admitted' /\ Session'
  BY <1>2, <1>3, ReceiveFrame DEF Touched
<1>4. ASSUME NEW w \in Workers, TaskEnd(w)
      PROVE  Untouched' /\ Admitted' /\ Session'
  BY <1>2, <1>4, TaskFrame DEF Touched
<1>5. ASSUME UNCHANGED <<req, api, row, db, queue, worker, results, outbox>>
      PROVE  Untouched' /\ Admitted' /\ Session'
  BY <1>5 DEF Untouched, Touched, Ready, Settled, Job, Admitted, Session, Admissible
<1>6. CASE \E c \in Certs : Rotate(c) \/ Delete(c) \/ Expire(c)
  BY <1>0, <1>5, <1>6 DEF Rotate, Delete, Expire
<1>7. CASE UNCHANGED vars
  BY <1>0, <1>5, <1>7 DEF vars
<1>. QED
  BY <1>0, <1>1, <1>3, <1>4, <1>6, <1>7 DEF Next, TaskEnd

\* Every state of the pipeline has its type: in particular a worker is never
\* sent to a certificate of a request that was not admitted.
THEOREM TypeCorrect == Spec => []TypeOK
<1>1. HandlerInv => TypeOK
  BY DEF HandlerInv
<1>. QED
  BY <1>1, HandlerInit, HandlerStep, PTL DEF Spec

LEMMA HandlerInvariant == Spec => []HandlerInv
BY HandlerInit, HandlerStep, PTL DEF Spec

\* EffectsHaveRow: whatever leaves the service for a job without a committed
\* row comes from a request in flight or aborted after its publish.
THEOREM EffectsCorrect == Spec => []EffectsHaveRow
<1>1. HandlerInv => EffectsHaveRow
  BY DEF HandlerInv, TypeOK, Untouched, Session, Touched, EffectsHaveRow, Live, Executing
<1>. QED
  BY <1>1, HandlerInvariant, PTL

-----------------------------------------------------------------------------
(***************************************************************************)
(* No task is lost.  A job that was handed to the broker stays alive or    *)
(* settled through every step; and a row is committed as queued only when  *)
(* the publish returned.                                                   *)
(***************************************************************************)
Carried(j) == Live(j) \/ Settled(j)

\* The worker that takes a step leaves its own job carried.
LEMMA OwnJobCarried ==
    ASSUME TypeOK, NEW w \in Workers, TaskEnd(w),
           NEW job \in Jobs, Job(w) = job, Carried(job)
    PROVE  Carried(job)'
<1>1. worker[w].pc # "idle" /\ OthersUntouched(w, job)
  BY TaskFrame
<1>2. /\ worker[w] \in Busy
      /\ worker[w].msg \in Messages
      /\ worker[w].msg = <<job, Retries(w)>>
      /\ Retries(w) \in 0..MaxRetries
  BY <1>1, BusyWorker
<1>3. ASSUME NEW pc \in {"notify", "told", "report", "retry"}, Goto(w, pc)
      PROVE  Carried(job)'
  BY <1>1, <1>2, <1>3 DEF Goto, TypeOK, Busy, Job, Carried, Live, Executing
<1>4. ASSUME NEW outcome, End(w, outcome)
      PROVE  Carried(job)'
  BY <1>1, <1>2, <1>4 DEF End, TypeOK, Busy, Job, Carried, Live, Executing
<1>5. CASE Fetch(w)
  BY <1>1, <1>2, <1>5 DEF Fetch, TypeOK, Busy, Job, Carried, Live, Executing
<1>6. CASE Sign(w) BY <1>3, <1>4, <1>6 DEF Sign
<1>7. CASE Except(w)
  <2>1. Goto(w, "report") \/ Goto(w, "retry")
    BY <1>7 DEF Except, Handling
  <2>. QED
    BY <1>3, <2>1
<1>8. CASE Notify(w) BY <1>3, <1>8 DEF Notify
<1>15. CASE Return(w) BY <1>4, <1>15 DEF Return
<1>16. CASE SoftTimeLimit(w)
  <2>1. Job(w)' = job /\ worker'[w].pc \in {"report", "retry", "store"}
    BY <1>16, Limit DEF Job, Handling
  <2>. QED
    BY <2>1 DEF Carried, Live, Executing
<1>9. CASE Report(w) BY <1>3, <1>4, <1>9 DEF Report
<1>10. CASE Retry(w)
  <2>. PICK n \in 0..2, raised \in BOOLEAN :
         /\ Publish(n, raised)
         /\ queue' = [queue EXCEPT ![<<job, Retries(w) + 1>>] = @ + n]
         /\ IF raised THEN End(w, "REJECTED") ELSE Goto(w, "retried")
    BY <1>10 DEF Retry
  <2>1. CASE raised
    BY <1>4, <2>1
  <2>2. CASE ~raised
    <3>1. n > 0
      BY <2>2, PublishReturned
    <3>2. Retries(w) + 1 \in 0..MaxRetries
      BY <1>2, <1>10, BoundAssumption DEF Retry
    <3>3. queue'[<<job, Retries(w) + 1>>] > 0
      BY <1>1, <3>1, <3>2, MessageType DEF TypeOK
    <3>. QED
      BY <3>2, <3>3 DEF Carried, Live, Ready
  <2>. QED
    BY <2>1, <2>2
<1>11. CASE GiveUp(w) BY <1>4, <1>11 DEF GiveUp
<1>12. CASE StoreResult(w) \/ HardTimeLimit(w)
  BY <1>1, <1>12 DEF StoreResult, HardTimeLimit, TypeOK, Carried, Settled
<1>13. CASE Ack(w)
  \* Whatever carries the job is not this worker: it only had its ack left.
  <2>1. ~Executing(w, job)
    BY <1>13 DEF Ack, Executing
  <2>2. UNCHANGED <<queue, results>> /\ \A v \in Workers \ {w} : worker'[v] = worker[v]
    BY <1>1, <1>13 DEF Ack, OthersUntouched
  <2>. QED
    BY <2>1, <2>2 DEF Carried, Live, Ready, Settled, Executing, Job
<1>14. CASE WorkerCrash(w)
  <2>1. queue'[<<job, Retries(w)>>] > 0
    BY <1>2, <1>14 DEF WorkerCrash, TypeOK
  <2>. QED
    BY <1>2, <2>1 DEF Carried, Live, Ready
<1>. QED
  BY <1>5, <1>6, <1>7, <1>8, <1>9, <1>10, <1>11, <1>12, <1>13, <1>14, <1>15, <1>16
     DEF TaskEnd, TaskStep

\* Once carried, always carried.
LEMMA CarriedKept ==
    ASSUME TypeOK, [Next]_vars, NEW j \in Jobs, Carried(j)
    PROVE  Carried(j)'
<1>. USE DEF Carried, Live, Executing, Settled, Job
<1>1. ASSUME NEW i \in Jobs, Handler(i) \/ Abort(i)
      PROVE  Carried(j)'
  <2>1. UNCHANGED <<worker, results>>
    BY <1>1 DEF Handler, Abort, Refuse, Submit, Enqueue, ProcessSigningSync, Commit
  <2>2. ASSUME Ready(j) PROVE Ready(j)'
    <3>1. PICK r \in 0..MaxRetries : queue[<<j, r>>] > 0
      BY <2>2 DEF Ready
    <3>2. CASE queue' = queue
      BY <3>1, <3>2 DEF Ready
    <3>3. CASE Enqueue(i)
      <4>1. PICK n \in 0..2 : queue' = [queue EXCEPT ![<<i, 0>>] = @ + n]
        BY <3>3 DEF Enqueue
      <4>2. <<j, r>> \in Messages /\ queue[<<j, r>>] \in Nat
        BY MessageType DEF TypeOK
      <4>3. CASE <<j, r>> = <<i, 0>>
        <5>1. queue'[<<j, r>>] = queue[<<j, r>>] + n
          BY <4>1, <4>2, <4>3 DEF TypeOK
        <5>. QED
          BY <3>1, <4>2, <5>1 DEF Ready
      <4>4. CASE <<j, r>> # <<i, 0>>
        <5>1. queue'[<<j, r>>] = queue[<<j, r>>]
          BY <4>1, <4>2, <4>4 DEF TypeOK
        <5>. QED
          BY <3>1, <5>1 DEF Ready
      <4>. QED
        BY <4>3, <4>4
    <3>. QED
      BY <1>1, <3>2, <3>3 DEF Handler, Abort, Refuse, Submit, ProcessSigningSync, Commit
  <2>. QED
    BY <2>1, <2>2
<1>2. ASSUME NEW w \in Workers, NEW job \in Jobs, OthersUntouched(w, job), j # job,
             worker[w].pc \in {"idle", "ack"} \/ Job(w) = job
      PROVE  Carried(j)'
  <2>1. ~Executing(w, j)
    BY <1>2
  <2>2. Ready(j)' <=> Ready(j)
    BY <1>2 DEF OthersUntouched, Ready
  <2>3. results'[j] = results[j] /\ \A v \in Workers \ {w} : worker'[v] = worker[v]
    BY <1>2 DEF OthersUntouched
  <2>. QED
    BY <2>1, <2>2, <2>3
<1>3. ASSUME NEW w \in Workers, NEW m \in Messages, Receive(w, m)
      PROVE  Carried(j)'
  BY <1>2, <1>3, ReceiveFrame
<1>4. ASSUME NEW w \in Workers, TaskEnd(w)
      PROVE  Carried(j)'
  BY <1>2, <1>4, TaskFrame, OwnJobCarried
<1>5. ASSUME UNCHANGED <<queue, worker, results>>
      PROVE  Carried(j)'
  BY <1>5 DEF Ready
<1>. QED
  BY <1>1, <1>3, <1>4, <1>5 DEF Next, vars, TaskEnd, Rotate, Delete, Expire

\* The strengthening: the promise is made when the publish returns, before the
\* row is committed.
Handed ==
    \A j \in Jobs :
        (api[j] = "commit" /\ row[j].status = "queued") \/ db[j].status = "queued"
            => Carried(j)

LEMMA HandedStep == HandlerInv /\ Handed /\ [Next]_vars => Handed'
<1>. SUFFICES ASSUME HandlerInv, Handed, [Next]_vars, NEW j \in Jobs,
                     \/ api'[j] = "commit" /\ row'[j].status = "queued"
                     \/ db'[j].status = "queued"
              PROVE  Carried(j)'
  BY DEF Handed
<1>. USE DEF HandlerInv
<1>1. CASE Carried(j)
  BY <1>1, CarriedKept
<1>2. CASE ~Carried(j)
  <2>1. ~(api[j] = "commit" /\ row[j].status = "queued") /\ db[j].status # "queued"
    BY <1>2 DEF Handed
  <2>2. ~UNCHANGED <<api, row, db>>
    BY <2>1
  <2>3. PICK i \in Jobs : Handler(i) \/ Abort(i)
    BY <2>2 DEF Next, vars, Receive, TaskStep, Fetch, Sign, Except, Notify, Return, Report, Retry,
         GiveUp, StoreResult, Ack, SoftTimeLimit, HardTimeLimit, WorkerCrash, Rotate, Delete, Expire
  <2>4. i = j
    BY <2>1, <2>3
       DEF Handler, Abort, Refuse, Submit, Enqueue, ProcessSigningSync, Commit, TypeOK
  <2>5. Enqueue(j)
    <3>1. ~Refuse(j) /\ ~Submit(j)
      BY <2>1 DEF Refuse, Submit, TypeOK
    <3>2. ~ProcessSigningSync(j)
      <4>1. ProcessSigningSync(j) => row'[j].status \in {"completed", "failed"}
        BY DEF ProcessSigningSync, TypeOK
      <4>. QED
        BY <2>1, <4>1 DEF ProcessSigningSync
    <3>3. ~Commit(j) /\ ~Abort(j)
      BY <2>1 DEF Commit, Abort, TypeOK
    <3>. QED
      BY <2>3, <2>4, <3>1, <3>2, <3>3 DEF Handler
  <2>. PICK n \in 0..2, raised \in BOOLEAN :
         /\ Publish(n, raised)
         /\ queue' = [queue EXCEPT ![<<j, 0>>] = @ + n]
         /\ api' = [api EXCEPT ![j] = IF raised THEN "fallback" ELSE "commit"]
    BY <2>5 DEF Enqueue
  <2>6. ~raised
    BY <2>1, <2>5 DEF Enqueue, TypeOK
  <2>7. n > 0
    BY <2>6, PublishReturned
  <2>8. 0 \in 0..MaxRetries
    BY BoundAssumption
  <2>9. queue'[<<j, 0>>] > 0
    BY <2>7, <2>8, MessageType DEF TypeOK
  <2>. QED
    BY <2>8, <2>9 DEF Carried, Live, Ready
<1>. QED
  BY <1>1, <1>2

\* NoLostTask: a job the database shows as queued has a ready message, a worker
\* executing it, or an execution that ended, whatever crashed in between.
THEOREM NoLostTaskCorrect == Spec => []NoLostTask
<1>1. Init => Handed
  BY DEF Init, Handed, EmptyRow
<1>2. Handed => NoLostTask
  BY DEF Handed, NoLostTask, Carried
<1>. QED
  BY <1>1, <1>2, HandedStep, HandlerInvariant, PTL DEF Spec

-----------------------------------------------------------------------------
(***************************************************************************)
(* Provenance.  The strengthening follows a signature from the certificate *)
(* a worker fetched to the event, and from the fallback to the row.        *)
(***************************************************************************)
SealsOf(c) == {<<c, g>> : g \in 1..store[c].gen}

Generations == \A c \in Certs : store[c].gen \in Nat \ {0}

Fetched == \A w \in Workers :
    /\ worker[w].pc \in {"sign", "notify"} =>
         worker[w].seal \in SealsOf(CertName(req[Job(w)]))
    /\ worker[w].pc = "notify" => req[Job(w)].supported

SignedRow(r, j) ==
    r.status = "completed" => req[j].supported /\ r.seal \in SealsOf(Default)

SignedRows == \A j \in Jobs : SignedRow(row[j], j) /\ SignedRow(db[j], j)

SignedEvent(e, j) ==
    e.event = "signing.completed" =>
        req[j].supported /\ e.seal \in SealsOf(CertName(req[j]))

SignedEvents == \A j \in Jobs : \A i \in DOMAIN outbox[j] : SignedEvent(outbox[j][i], j)

ProvenanceInv == Generations /\ Fetched /\ SignedRows /\ SignedEvents

\* Publishing appends the event to what was there.
LEMMA EventsAppended ==
    ASSUME NEW e \in Event, NEW n \in 0..2, NEW s \in Seq(Event)
    PROVE  \A i \in DOMAIN (s \o Events(e, n)) :
              \/ (s \o Events(e, n))[i] = e
              \/ i \in DOMAIN s /\ (s \o Events(e, n))[i] = s[i]
<1>1. Events(e, n) \in Seq(Event) /\ Len(Events(e, n)) = n
  BY DEF Events
<1>2. \A i \in 1..n : Events(e, n)[i] = e
  BY DEF Events
<1>. QED
  BY <1>1, <1>2

\* The operator and the calendar change one entry and never its past.
LEMMA StoreStep ==
    ASSUME TypeOK, NEW d \in Certs, Rotate(d) \/ Delete(d) \/ Expire(d), NEW c \in Certs
    PROVE  /\ req' = req
           /\ store'[c].gen \in {store[c].gen, store[c].gen + 1}
<1>1. CASE Rotate(d)
  <2>1. PICK k \in {"usable", "unusable"} :
          store' = [store EXCEPT ![d] = [gen |-> @.gen + 1, cond |-> k]]
    BY <1>1 DEF Rotate
  <2>2. CASE c = d
    <3>1. store'[c] = [gen |-> store[c].gen + 1, cond |-> k]
      BY <2>1, <2>2 DEF TypeOK
    <3>. QED
      BY <1>1, <3>1 DEF Rotate
  <2>3. CASE c # d
    BY <1>1, <2>1, <2>3 DEF Rotate, TypeOK
  <2>. QED
    BY <2>2, <2>3
<1>2. ASSUME NEW k, store' = [store EXCEPT ![d].cond = k]
      PROVE  store'[c].gen = store[c].gen
  BY <1>2 DEF TypeOK
<1>. QED
  BY <1>1, <1>2 DEF Delete, Expire

\* A certificate keeps every generation it went through.
LEMMA SealsKept ==
    ASSUME TypeOK, [Next]_vars, NEW c \in Certs
    PROVE  SealsOf(c) \subseteq SealsOf(c)' /\ req' = req
<1>1. req' = req /\ store' = store =>
        SealsOf(c) \subseteq SealsOf(c)' /\ req' = req
  BY DEF SealsOf
<1>2. ASSUME NEW d \in Certs, Rotate(d) \/ Delete(d) \/ Expire(d)
      PROVE  SealsOf(c) \subseteq SealsOf(c)' /\ req' = req
  <2>1. store[c].gen \in Nat /\ store'[c].gen \in {store[c].gen, store[c].gen + 1}
    BY <1>2, StoreStep DEF TypeOK
  <2>2. 1..store[c].gen \subseteq 1..store'[c].gen
    BY <2>1
  <2>. QED
    BY <1>2, <2>2 DEF SealsOf, Rotate, Delete, Expire
<1>. QED
  BY <1>1, <1>2 DEF Next, vars, Handler, Abort, Refuse, Submit, Enqueue, ProcessSigningSync,
       Commit, Receive, TaskStep, Fetch, Sign, Except, Notify, Return, Report, Retry, GiveUp,
       StoreResult, Ack, SoftTimeLimit, HardTimeLimit, WorkerCrash

LEMMA ProvenanceStep == HandlerInv /\ ProvenanceInv /\ [Next]_vars => ProvenanceInv'
<1>. SUFFICES ASSUME HandlerInv, ProvenanceInv, [Next]_vars PROVE ProvenanceInv'
  OBVIOUS
<1>. USE DEF HandlerInv, ProvenanceInv
<1>1. \A c \in Certs : SealsOf(c) \subseteq SealsOf(c)' /\ req' = req
  BY SealsKept
<1>2. req' = req
  BY <1>1, DefaultAssumption
<1>3. \A j \in Jobs : Admissible(req[j]) => CertName(req[j]) \in Certs
  BY CertNameType DEF TypeOK
<1>4. Generations'
  <2>1. ASSUME NEW d \in Certs, Rotate(d) \/ Delete(d) \/ Expire(d)
        PROVE  \A c \in Certs : store'[c].gen \in {store[c].gen, store[c].gen + 1}
    BY <2>1, StoreStep
  <2>2. store' = store \/ \E d \in Certs : Rotate(d) \/ Delete(d) \/ Expire(d)
    BY DEF Next, vars, Handler, Abort, Refuse, Submit, Enqueue, ProcessSigningSync,
       Commit, Receive, TaskStep, Fetch, Sign, Except, Notify, Return, Report, Retry, GiveUp,
       StoreResult, Ack, SoftTimeLimit, HardTimeLimit, WorkerCrash
  <2>. QED
    BY <2>1, <2>2 DEF Generations
<1>5. Fetched'
  <2>. SUFFICES ASSUME NEW w \in Workers, worker'[w].pc \in {"sign", "notify"}
                PROVE  /\ worker'[w].seal \in SealsOf(CertName(req[Job(w)]))'
                       /\ worker'[w].pc = "notify" => req'[Job(w)'].supported
    BY <1>2 DEF Fetched
  <2>1. CASE worker'[w] = worker[w]
    <3>1. CertName(req[Job(w)]) \in Certs
      <4>1. worker[w].pc # "idle" /\ Job(w) \in Jobs
        BY <2>1, BusyWorker
      <4>. QED
        BY <1>3, <4>1 DEF Untouched, Touched, Admitted
    <3>. QED
      BY <1>1, <1>2, <2>1, <3>1 DEF Fetched, Job, SealsOf
  <2>2. CASE worker'[w] # worker[w]
    <3>1. Fetch(w) \/ Sign(w)
      <4>1. \/ \E m \in Messages : Receive(w, m)
            \/ TaskEnd(w)
        <5>1. ASSUME NEW v \in Workers, v # w,
                     TaskEnd(v) \/ \E m \in Messages : Receive(v, m)
              PROVE  FALSE
          BY <2>2, <5>1, TaskFrame, ReceiveFrame DEF OthersUntouched
        <5>. QED
          BY <2>2, <5>1 DEF Next, vars, TaskEnd, Handler, Abort, Refuse, Submit, Enqueue,
             ProcessSigningSync, Commit, Rotate, Delete, Expire
      <4>2. ASSUME NEW m \in Messages, Receive(w, m) PROVE FALSE
        BY <4>2, ReceiveFrame
      <4>3. TaskEnd(w) /\ worker[w] \in Busy
        BY <4>1, <4>2, TaskFrame, BusyWorker
      <4>4. ASSUME NEW pc \in {"told", "report", "retry", "retried", "ack"}, Goto(w, pc)
            PROVE  FALSE
        BY <4>3, <4>4 DEF Goto, TypeOK, Busy
      <4>5. ASSUME NEW outcome, End(w, outcome) PROVE FALSE
        BY <4>3, <4>5 DEF End, TypeOK, Busy
      <4>6. worker' # [worker EXCEPT ![w] = Idle]
        BY DEF TypeOK, Idle
      <4>7. Except(w) => Goto(w, "report") \/ Goto(w, "retry")
        BY DEF Except, Handling
      <4>8. ~SoftTimeLimit(w)
        BY Limit DEF Handling
      <4>. QED
        BY <4>3, <4>4, <4>5, <4>6, <4>7, <4>8
           DEF TaskEnd, TaskStep, Notify, Return, Report, Retry, GiveUp, StoreResult, Ack,
               HardTimeLimit, WorkerCrash
    <3>2. worker[w] \in Busy /\ worker[w].msg = <<Job(w), Retries(w)>> /\ Job(w) \in Jobs
      BY <3>1, BusyWorker DEF Fetch, Sign
    <3>3. CertName(req[Job(w)]) \in Certs
      BY <1>3, <3>1, <3>2 DEF Untouched, Touched, Admitted, Fetch, Sign
    <3>4. CASE Fetch(w)
      <4>. PICK c \in Certs : c = CertName(req[Job(w)])
        BY <3>3
      <4>1. worker'[w].pc = "sign" /\ worker'[w].seal = <<c, store[c].gen>> /\ Job(w)' = Job(w)
        BY <3>2, <3>4 DEF Fetch, TypeOK, Busy, Job
      <4>2. store[c].gen \in 1..store[c].gen
        BY <3>3 DEF Generations
      <4>3. <<c, store[c].gen>> \in SealsOf(c)'
        <5>1. <<c, store[c].gen>> \in SealsOf(c)
          BY <4>2 DEF SealsOf
        <5>. QED
          BY <3>3, <5>1, <1>1
      <4>. QED
        BY <4>1, <4>3, <1>2 DEF SealsOf
    <3>5. CASE Sign(w)
      <4>1. worker'[w].seal = worker[w].seal /\ Job(w)' = Job(w)
        <5>1. Goto(w, "notify") \/ End(w, "SUCCESS")
          BY <3>5 DEF Sign
        <5>2. Goto(w, "notify") => worker'[w] = [worker[w] EXCEPT !.pc = "notify"]
          BY DEF Goto, TypeOK
        <5>3. End(w, "SUCCESS") =>
                worker'[w] = [worker[w] EXCEPT !.pc = "store", !.outcome = "SUCCESS"]
          BY DEF End, TypeOK
        <5>. QED
          BY <3>2, <5>1, <5>2, <5>3 DEF Busy, Job
      <4>2. worker[w].seal \in SealsOf(CertName(req[Job(w)])) /\ req[Job(w)].supported
        BY <3>5 DEF Sign, Fetched
      <4>. QED
        BY <1>1, <1>2, <3>3, <4>1, <4>2 DEF SealsOf
    <3>. QED
      BY <3>1, <3>4, <3>5
  <2>. QED
    BY <2>1, <2>2
<1>6. SignedRows'
  <2>1. ASSUME NEW r, NEW j \in Jobs, SignedRow(r, j)
        PROVE  r.status = "completed" => req'[j].supported /\ r.seal \in SealsOf(Default)'
    BY <1>1, <1>2, <2>1, DefaultAssumption DEF SignedRow
  <2>2. ASSUME NEW j \in Jobs, ProcessSigningSync(j)
        PROVE  row'[j].status = "completed" =>
                 req[j].supported /\ row'[j].seal \in SealsOf(Default)'
    <3>1. store[Default].gen \in 1..store[Default].gen
      BY DefaultAssumption DEF Generations
    <3>2. <<Default, store[Default].gen>> \in SealsOf(Default)'
      BY <1>1, <3>1, DefaultAssumption DEF SealsOf
    <3>. QED
      <4>1. \/ /\ req[j].supported
                /\ row'[j] = [status |-> "completed", seal |-> <<Default, store[Default].gen>>]
            \/ row'[j].status = "failed"
        <5>1. PICK x : /\ row' = [row EXCEPT ![j] = x]
                       /\ \/ /\ req[j].supported
                             /\ x = [status |-> "completed", seal |-> <<Default, store[Default].gen>>]
                          \/ x = [status |-> "failed", seal |-> NoSeal]
          BY <2>2 DEF ProcessSigningSync
        <5>2. row'[j] = x
          BY <5>1 DEF TypeOK
        <5>. QED
          BY <5>1, <5>2
      <4>. QED
        BY <3>2, <4>1
  <2>3. ASSUME NEW j \in Jobs
        PROVE  \/ row'[j] = row[j]
               \/ row'[j].status # "completed"
               \/ ProcessSigningSync(j)
    <3>1. row' = row \/ \E i \in Jobs : Submit(i) \/ ProcessSigningSync(i) \/ Abort(i)
      BY DEF Next, vars, Handler, Refuse, Enqueue, Commit, Receive, TaskStep, Fetch, Sign,
         Except, Notify, Return, Report, Retry, GiveUp, StoreResult, Ack, SoftTimeLimit, HardTimeLimit,
         WorkerCrash, Rotate, Delete, Expire
    <3>2. ASSUME NEW i \in Jobs, Submit(i) PROVE row'[j] = row[j] \/ row'[j].status = "queued"
      BY <3>2 DEF Submit, TypeOK
    <3>3. ASSUME NEW i \in Jobs, Abort(i) PROVE row'[j] = row[j] \/ row'[j].status = "none"
      BY <3>3 DEF Abort, TypeOK, EmptyRow
    <3>4. ASSUME NEW i \in Jobs, i # j, ProcessSigningSync(i) PROVE row'[j] = row[j]
      BY <3>4 DEF ProcessSigningSync, TypeOK
    <3>. QED
      BY <3>1, <3>2, <3>3, <3>4
  <2>4. ASSUME NEW j \in Jobs
        PROVE  db'[j] \in {db[j], row[j]}
    <3>1. db' = db \/ \E i \in Jobs : db' = [db EXCEPT ![i] = row[i]]
      BY DEF Next, vars, Handler, Abort, Refuse, Submit, Enqueue, ProcessSigningSync,
         Commit, Receive, TaskStep, Fetch, Sign, Except, Notify, Return, Report, Retry, GiveUp,
         StoreResult, Ack, SoftTimeLimit, HardTimeLimit, WorkerCrash, Rotate, Delete, Expire
    <3>. QED
      BY <3>1 DEF TypeOK
  <2>. SUFFICES ASSUME NEW j \in Jobs PROVE (SignedRow(row[j], j) /\ SignedRow(db[j], j))'
    BY DEF SignedRows
  <2>5. SignedRow(row[j], j) /\ SignedRow(db[j], j)
    BY DEF SignedRows
  <2>. QED
    BY <1>2, <2>1, <2>2, <2>3, <2>4, <2>5 DEF SignedRow
<1>7. SignedEvents'
  <2>. SUFFICES ASSUME NEW j \in Jobs, NEW i \in DOMAIN outbox'[j],
                       outbox'[j][i].event = "signing.completed"
                PROVE  /\ req[j].supported
                       /\ outbox'[j][i].seal \in SealsOf(CertName(req[j]))'
    BY <1>2 DEF SignedEvents, SignedEvent
  <2>1. CertName(req[j]) \in Certs
    <3>1. outbox'[j] # <<>>
      OBVIOUS
    <3>2. Touched(j)'
      BY <3>1 DEF Touched
    <3>3. Admissible(req[j])
      BY <1>2, <3>2, HandlerStep DEF Untouched, Admitted, Admissible
    <3>. QED
      BY <1>3, <3>3
  <2>2. ASSUME SignedEvent(outbox'[j][i], j)
        PROVE  /\ req[j].supported
               /\ outbox'[j][i].seal \in SealsOf(CertName(req[j]))'
    BY <1>1, <2>1, <2>2 DEF SignedEvent
  <2>3. CASE outbox'[j] = outbox[j]
    BY <2>2, <2>3 DEF SignedEvents
  <2>4. CASE outbox'[j] # outbox[j]
    <3>1. PICK w \in Workers : Notify(w) \/ Report(w)
      BY <2>4 DEF Next, vars, Handler, Abort, Refuse, Submit, Enqueue, ProcessSigningSync,
         Commit, Receive, TaskStep, Fetch, Sign, Except, Return, Retry, GiveUp,
         StoreResult, Ack, SoftTimeLimit, HardTimeLimit, WorkerCrash, Rotate, Delete, Expire
    <3>2. worker[w] \in Busy /\ Job(w) \in Jobs
      BY <3>1, BusyWorker DEF Notify, Return, Report
    <3>3. PICK e \in Event, n \in 0..2 :
            /\ outbox' = [outbox EXCEPT ![Job(w)] = @ \o Events(e, n)]
            /\ SignedEvent(e, Job(w))
      <4>1. CASE Notify(w)
        <5>. DEFINE e == [event |-> "signing.completed", seal |-> worker[w].seal]
        <5>1. e \in Event
          BY <3>2 DEF Event, Busy
        <5>2. SignedEvent(e, Job(w))
          BY <4>1 DEF Notify, Fetched, SignedEvent
        <5>. QED
          BY <4>1, <5>1, <5>2 DEF Notify
      <4>2. CASE Report(w)
        <5>. DEFINE e == [event |-> "signing.failed", seal |-> NoSeal]
        <5>1. e \in Event /\ SignedEvent(e, Job(w))
          BY DEF Event, SignedEvent
        <5>. QED
          BY <4>2, <5>1 DEF Report
      <4>. QED
        BY <3>1, <4>1, <4>2
    <3>4. j = Job(w) /\ outbox'[j] = outbox[j] \o Events(e, n)
      BY <2>4, <3>2, <3>3 DEF TypeOK
    <3>5. outbox[j] \in Seq(Event)
      BY DEF TypeOK
    <3>6. \/ outbox'[j][i] = e
          \/ i \in DOMAIN outbox[j] /\ outbox'[j][i] = outbox[j][i]
      <4>1. \A x \in DOMAIN (outbox[j] \o Events(e, n)) :
              \/ (outbox[j] \o Events(e, n))[x] = e
              \/ x \in DOMAIN outbox[j] /\ (outbox[j] \o Events(e, n))[x] = outbox[j][x]
        BY <3>5, EventsAppended
      <4>. QED
        BY <3>4, <4>1
    <3>. QED
      BY <2>2, <3>3, <3>4, <3>6 DEF SignedEvents
  <2>. QED
    BY <2>3, <2>4
<1>. QED
  BY <1>4, <1>5, <1>6, <1>7

\* Provenance: no event and no row carries a signature of a certificate other
\* than the right one, or for an algorithm the engine does not support.
THEOREM ProvenanceCorrect == Spec => []Provenance
<1>1. Init => ProvenanceInv
  BY DEF Init, ProvenanceInv, Generations, Fetched, SignedRows, SignedRow, SignedEvents,
         Idle, EmptyRow
<1>2. ProvenanceInv => Provenance
  BY DEF ProvenanceInv, Provenance, SignedRows, SignedRow, SignedEvents, SignedEvent, SealsOf
<1>. QED
  BY <1>1, <1>2, ProvenanceStep, HandlerInvariant, PTL DEF Spec

-----------------------------------------------------------------------------
(***************************************************************************)
(* The events of a job without faults.  There is one carrier of the job at *)
(* a time, a ready message or a running worker, and it knows how many      *)
(* events there can have been from the retry it is at.                     *)
(***************************************************************************)
NoCompletion(j) == \A i \in DOMAIN outbox[j] : outbox[j][i].event # "signing.completed"

Waiting(j) == \A r \in 0..MaxRetries : queue[<<j, r>>] > 0 =>
    /\ queue[<<j, r>>] = 1
    /\ \A s \in 0..MaxRetries : queue[<<j, s>>] > 0 => s = r
    /\ \A w \in Workers : ~Runs(w, j)
    /\ Len(outbox[j]) <= r /\ NoCompletion(j)

Attempting(j) == \A w \in Workers : Runs(w, j) =>
    /\ \A v \in Workers : Runs(v, j) => v = w
    /\ \A r \in 0..MaxRetries : queue[<<j, r>>] = 0
    /\ Len(outbox[j]) <= IF worker[w].pc = "retry" THEN Retries(w) + 1 ELSE Retries(w)
    /\ NoCompletion(j)

Shaped(j) ==
    /\ Len(outbox[j]) <= MaxRetries + 1
    /\ \A i \in DOMAIN outbox[j] :
         outbox[j][i].event = "signing.completed" => i = Len(outbox[j])

ShapeInv == faults = 0 => \A j \in Jobs : Waiting(j) /\ Attempting(j) /\ Shaped(j)

\* Without a fault a publish is one copy and no exception.
LEMMA CleanPublish ==
    ASSUME NEW n \in 0..2, NEW raised \in BOOLEAN, Publish(n, raised),
           faults \in Nat, faults' = 0
    PROVE  n = 1 /\ ~raised /\ faults = 0
BY DEF Publish

\* Faults are only counted up.
LEMMA FaultsKept ==
    ASSUME TypeOK, [Next]_vars, faults' = 0
    PROVE  faults = 0
<1>1. faults' = faults \/ faults' = faults + 1
  BY DEF Publish, Next, vars, Handler, Abort, Refuse, Submit, Enqueue, ProcessSigningSync,
     Commit, Receive, TaskStep, Fetch, Sign, Except, Notify, Return, Report, Retry, GiveUp,
     StoreResult, Ack, SoftTimeLimit, HardTimeLimit, WorkerCrash, Rotate, Delete, Expire
<1>. QED
  BY <1>1 DEF TypeOK

\* Nothing of job j moves: its messages, its runs and its events are as before.
Still(j) ==
    /\ \A r \in 0..MaxRetries : queue'[<<j, r>>] = queue[<<j, r>>]
    /\ outbox'[j] = outbox[j]
    /\ \A w \in Workers : Runs(w, j)' => Runs(w, j) /\ worker'[w] = worker[w]

LEMMA ShapeStill ==
    ASSUME NEW j \in Jobs, Still(j), Waiting(j), Attempting(j), Shaped(j)
    PROVE  (Waiting(j) /\ Attempting(j) /\ Shaped(j))'
<1>1. Waiting(j)'
  BY DEF Still, Waiting, NoCompletion
<1>2. Attempting(j)'
  BY DEF Still, Attempting, NoCompletion, Retries
<1>3. Shaped(j)'
  BY DEF Still, Shaped
<1>. QED
  BY <1>1, <1>2, <1>3

\* A step moves one job at most: the one submitted, taken or executed.
LEMMA OthersStill ==
    ASSUME TypeOK, [Next]_vars, NEW j \in Jobs
    PROVE  \/ Still(j)
           \/ Enqueue(j)
           \/ \E w \in Workers : \E m \in Messages : Receive(w, m) /\ m[1] = j
           \/ \E w \in Workers : TaskEnd(w) /\ Job(w) = j
<1>1. ASSUME NEW w \in Workers, NEW job \in Jobs, OthersUntouched(w, job), j # job
      PROVE  Still(j)
  BY <1>1 DEF OthersUntouched, Still, Runs, Job
<1>2. ASSUME UNCHANGED <<worker, outbox>>,
             \A r \in 0..MaxRetries : queue'[<<j, r>>] = queue[<<j, r>>]
      PROVE  Still(j)
  BY <1>2 DEF Still, Runs, Job
<1>3. ASSUME NEW i \in Jobs, Handler(i) \/ Abort(i) PROVE Still(j) \/ Enqueue(j)
  <2>1. CASE Enqueue(i)
    <3>1. CASE i = j BY <2>1, <3>1
    <3>2. CASE i # j
      BY <1>2, <2>1, <3>2, MessageType DEF Enqueue, TypeOK
    <3>. QED BY <3>1, <3>2
  <2>2. CASE ~Enqueue(i)
    BY <1>2, <1>3, <2>2 DEF Handler, Abort, Refuse, Submit, ProcessSigningSync, Commit
  <2>. QED BY <2>1, <2>2
<1>4. ASSUME NEW w \in Workers, NEW m \in Messages, Receive(w, m)
      PROVE  Still(j) \/ m[1] = j
  BY <1>1, <1>4, ReceiveFrame
<1>5. ASSUME NEW w \in Workers, TaskEnd(w)
      PROVE  Still(j) \/ Job(w) = j
  BY <1>1, <1>5, TaskFrame
<1>6. CASE UNCHANGED vars
  BY <1>2, <1>6 DEF vars
<1>7. CASE \E c \in Certs : Rotate(c) \/ Delete(c) \/ Expire(c)
  BY <1>2, <1>7 DEF Rotate, Delete, Expire
<1>. QED
  BY <1>3, <1>4, <1>5, <1>6, <1>7 DEF Next, TaskEnd

\* What a worker does to its own job without a fault.
LEMMA ShapeOwn ==
    ASSUME TypeOK, faults' = 0, NEW w \in Workers, TaskEnd(w), NEW j \in Jobs, Job(w) = j,
           Waiting(j), Attempting(j), Shaped(j)
    PROVE  (Waiting(j) /\ Attempting(j) /\ Shaped(j))'
<1>1. worker[w].pc # "idle" /\ OthersUntouched(w, j)
  BY TaskFrame
<1>2. /\ worker[w] \in Busy
      /\ worker[w].msg \in Messages
      /\ worker[w].msg = <<j, Retries(w)>>
      /\ Retries(w) \in 0..MaxRetries
  BY <1>1, BusyWorker
<1>3. outbox[j] \in Seq(Event) /\ faults \in Nat
  BY DEF TypeOK
<1>4. \A v \in Workers \ {w} : worker'[v] = worker[v] /\ (Runs(v, j)' <=> Runs(v, j))
  BY <1>1 DEF OthersUntouched, Runs, Job
<1>5. ASSUME UNCHANGED <<queue, outbox>>, ~Runs(w, j)'
      PROVE  (Waiting(j) /\ Attempting(j) /\ Shaped(j))'
  BY <1>4, <1>5, ShapeStill DEF Still
<1>6. ASSUME NEW outcome, End(w, outcome) PROVE ~Runs(w, j)'
  BY <1>2, <1>6 DEF End, TypeOK, Busy, Runs
<1>7. ASSUME NEW pc, Goto(w, pc)
      PROVE  worker'[w].pc = pc /\ worker'[w].msg = worker[w].msg
  BY <1>2, <1>7 DEF Goto, TypeOK, Busy
<1>8. ASSUME UNCHANGED <<queue, outbox>>, Runs(w, j), worker[w].pc # "retry",
             worker'[w].msg = worker[w].msg
      PROVE  (Waiting(j) /\ Attempting(j) /\ Shaped(j))'
  <2>1. \A v \in Workers \ {w} : ~Runs(v, j)
    BY <1>8 DEF Attempting
  <2>2. Retries(w)' = Retries(w) /\ Len(outbox[j]) <= Retries(w)
    BY <1>8 DEF Attempting, Retries
  <2>3. Attempting(j)'
    <3>1. \A v \in Workers : Runs(v, j)' => v = w
      BY <1>4, <2>1
    <3>2. Len(outbox'[j]) <= Retries(w)' /\ NoCompletion(j)'
      BY <1>8, <2>2 DEF Attempting, NoCompletion
    <3>. QED
      BY <1>2, <1>3, <1>8, <2>2, <3>1, <3>2 DEF Attempting, TypeOK
  <2>4. Waiting(j)' /\ Shaped(j)'
    BY <1>8 DEF Attempting, Waiting, Shaped
  <2>. QED
    BY <2>3, <2>4
<1>9. CASE Fetch(w)
  BY <1>2, <1>8, <1>9 DEF Fetch, TypeOK, Busy, Runs
<1>10. CASE Sign(w)
  BY <1>2, <1>5, <1>6, <1>7, <1>8, <1>10 DEF Sign, Runs
<1>11. CASE Except(w)
  <2>1. Goto(w, "report") \/ Goto(w, "retry")
    BY <1>11 DEF Except, Handling
  <2>. QED
    BY <1>2, <1>7, <1>8, <1>11, <2>1 DEF Except, Runs
<1>12. CASE Notify(w)
  <2>1. outbox' = [outbox EXCEPT ![j] =
            @ \o Events([event |-> "signing.completed", seal |-> worker[w].seal], 1)]
        /\ Goto(w, "told") /\ Runs(w, j) /\ queue' = queue
    BY <1>3, <1>12, CleanPublish DEF Notify, Runs
  <2>2. Len(outbox[j]) <= Retries(w) /\ NoCompletion(j)
        /\ (\A v \in Workers \ {w} : ~Runs(v, j))
        /\ \A r \in 0..MaxRetries : queue[<<j, r>>] = 0
    BY <1>12, <2>1 DEF Attempting, Notify
  <2>3. outbox'[j] = Append(outbox[j], [event |-> "signing.completed", seal |-> worker[w].seal])
    BY <1>3, <2>1 DEF Events, TypeOK
  <2>4. Len(outbox'[j]) = Len(outbox[j]) + 1
        /\ \A i \in 1..Len(outbox[j]) : outbox'[j][i] = outbox[j][i]
        /\ DOMAIN outbox'[j] = 1..Len(outbox[j]) + 1
    BY <1>3, <2>3
  <2>5. Shaped(j)'
    <3>1. Len(outbox[j]) \in Nat /\ DOMAIN outbox[j] = 1..Len(outbox[j])
      BY <1>3
    <3>2. Len(outbox'[j]) <= MaxRetries + 1
      BY <1>2, <2>2, <2>4, <3>1, BoundAssumption
    <3>3. \A i \in 1..Len(outbox[j]) : outbox'[j][i].event # "signing.completed"
      BY <2>2, <2>4, <3>1 DEF NoCompletion
    <3>4. \A i \in DOMAIN outbox'[j] : i \in 1..Len(outbox[j]) \/ i = Len(outbox'[j])
      BY <2>4, <3>1
    <3>. QED
      BY <3>2, <3>3, <3>4 DEF Shaped
  <2>6. \A v \in Workers : ~Runs(v, j)'
    BY <1>4, <1>7, <2>1, <2>2 DEF Runs
  <2>. QED
    BY <2>1, <2>2, <2>5, <2>6 DEF Waiting, Attempting
<1>19. CASE Return(w) BY <1>5, <1>6, <1>19 DEF Return
<1>20. CASE SoftTimeLimit(w)
  <2>1. UNCHANGED <<queue, outbox>> /\ worker'[w].msg = worker[w].msg
    BY <1>20, Limit
  <2>2. CASE worker[w].pc \in {"fetch", "sign", "notify"}
    BY <1>2, <1>8, <2>1, <2>2 DEF Runs
  <2>3. CASE worker[w].pc \in {"report", "retry", "retried"}
    <3>1. worker'[w].pc = "store"
      BY <1>20, <2>3, Limit
    <3>. QED
      BY <1>5, <2>1, <3>1 DEF Runs
  <2>4. worker[w].pc # "told"
    <3>1. faults' # faults + 1
      BY <1>3
    <3>. QED
      BY <1>20, <3>1, Limit
  <2>. QED
    BY <1>20, <2>2, <2>3, <2>4, Limit
<1>13. CASE Report(w)
  <2>1. outbox' = [outbox EXCEPT ![j] =
            @ \o Events([event |-> "signing.failed", seal |-> NoSeal], 1)]
        /\ Goto(w, "retry") /\ Runs(w, j) /\ queue' = queue
    BY <1>3, <1>13, CleanPublish DEF Report, Runs
  <2>2. Len(outbox[j]) <= Retries(w) /\ NoCompletion(j)
        /\ (\A v \in Workers \ {w} : ~Runs(v, j))
        /\ \A r \in 0..MaxRetries : queue[<<j, r>>] = 0
    BY <1>13, <2>1 DEF Attempting, Report
  <2>3. outbox'[j] = Append(outbox[j], [event |-> "signing.failed", seal |-> NoSeal])
    BY <1>3, <2>1 DEF Events, TypeOK
  <2>4. /\ Len(outbox'[j]) = Len(outbox[j]) + 1
        /\ \A i \in 1..Len(outbox[j]) : outbox'[j][i] = outbox[j][i]
        /\ outbox'[j][Len(outbox[j]) + 1].event = "signing.failed"
        /\ DOMAIN outbox'[j] = 1..Len(outbox[j]) + 1
    BY <1>3, <2>3
  <2>5. NoCompletion(j)'
    BY <1>3, <2>2, <2>4 DEF NoCompletion
  <2>6. worker'[w].pc = "retry" /\ Retries(w)' = Retries(w)
    BY <1>7, <2>1 DEF Retries
  <2>7. \A v \in Workers : Runs(v, j)' => v = w
    BY <1>4, <2>2
  <2>8. Len(outbox'[j]) <= Retries(w)' + 1 /\ Len(outbox'[j]) <= MaxRetries + 1
    BY <1>2, <1>3, <2>2, <2>4, <2>6, BoundAssumption
  <2>. QED
    BY <2>1, <2>2, <2>5, <2>6, <2>7, <2>8 DEF Waiting, Attempting, Shaped, NoCompletion
<1>14. CASE Retry(w)
  <2>1. queue' = [queue EXCEPT ![<<j, Retries(w) + 1>>] = @ + 1] /\ Goto(w, "retried")
        /\ Runs(w, j) /\ outbox' = outbox /\ Retries(w) < MaxRetries
    BY <1>3, <1>14, CleanPublish DEF Retry, Runs
  <2>2. Len(outbox[j]) <= Retries(w) + 1 /\ NoCompletion(j)
        /\ (\A v \in Workers \ {w} : ~Runs(v, j))
        /\ \A r \in 0..MaxRetries : queue[<<j, r>>] = 0
    BY <1>14, <2>1 DEF Attempting, Retry
  <2>3. \A v \in Workers : ~Runs(v, j)'
    BY <1>4, <1>7, <2>1, <2>2 DEF Runs
  <2>4. \A r \in 0..MaxRetries : queue'[<<j, r>>] = IF r = Retries(w) + 1 THEN 1 ELSE 0
    BY <1>2, <2>1, <2>2, MessageType, BoundAssumption DEF TypeOK
  <2>. QED
    BY <1>2, <2>1, <2>2, <2>3, <2>4 DEF Waiting, Attempting, Shaped, NoCompletion
<1>15. CASE GiveUp(w) BY <1>5, <1>6, <1>15 DEF GiveUp
<1>16. CASE StoreResult(w) BY <1>5, <1>7, <1>16 DEF StoreResult, Runs
<1>17. CASE Ack(w) \/ HardTimeLimit(w)
  <2>1. worker' = [worker EXCEPT ![w] = Idle] /\ UNCHANGED <<queue, outbox>>
    BY <1>17 DEF Ack, HardTimeLimit
  <2>2. ~Runs(w, j)'
    BY <2>1 DEF TypeOK, Idle, Runs
  <2>. QED
    BY <1>5, <2>1, <2>2
<1>18. ~WorkerCrash(w)
  BY <1>3 DEF WorkerCrash
<1>. QED
  BY <1>9, <1>10, <1>11, <1>12, <1>13, <1>14, <1>15, <1>16, <1>17, <1>18, <1>19, <1>20
     DEF TaskEnd, TaskStep

LEMMA ShapeStep == HandlerInv /\ ShapeInv /\ [Next]_vars => ShapeInv'
<1>. SUFFICES ASSUME HandlerInv, ShapeInv, [Next]_vars, faults' = 0, NEW j \in Jobs
              PROVE  (Waiting(j) /\ Attempting(j) /\ Shaped(j))'
  BY DEF ShapeInv
<1>. USE DEF HandlerInv
<1>1. faults = 0 /\ Waiting(j) /\ Attempting(j) /\ Shaped(j)
  BY FaultsKept DEF ShapeInv
<1>2. CASE Still(j)
  BY <1>1, <1>2, ShapeStill
<1>3. CASE Enqueue(j)
  <2>1. ~Touched(j) /\ outbox[j] = <<>> /\ UNCHANGED <<worker, outbox>>
    BY <1>3 DEF Enqueue, Untouched, Touched
  <2>2. queue' = [queue EXCEPT ![<<j, 0>>] = @ + 1]
    BY <1>3, CleanPublish DEF Enqueue, TypeOK
  <2>3. ASSUME NEW r \in 0..MaxRetries PROVE queue[<<j, r>>] = 0
    <3>1. queue[<<j, r>>] \in Nat
      BY MessageType DEF TypeOK
    <3>2. ~(queue[<<j, r>>] > 0)
      BY <2>1 DEF Touched, Ready
    <3>. QED
      BY <3>1, <3>2
  <2>4. \A r \in 0..MaxRetries : queue'[<<j, r>>] = IF r = 0 THEN 1 ELSE 0
    BY <2>2, <2>3, MessageType, BoundAssumption DEF TypeOK
  <2>5. \A v \in Workers : ~Runs(v, j)'
    BY <2>1 DEF Touched, Runs, Job
  <2>. QED
    BY <2>1, <2>4, <2>5, BoundAssumption DEF Waiting, Attempting, Shaped, NoCompletion
<1>4. ASSUME NEW w \in Workers, NEW m \in Messages, Receive(w, m), m[1] = j
      PROVE  (Waiting(j) /\ Attempting(j) /\ Shaped(j))'
  <2>1. PICK r \in 0..MaxRetries : m = <<j, r>>
    BY <1>4 DEF Messages
  <2>2. queue[<<j, r>>] > 0 /\ queue' = [queue EXCEPT ![<<j, r>>] = @ - 1] /\ outbox' = outbox
    BY <1>4, <2>1 DEF Receive
  <2>3. /\ queue[<<j, r>>] = 1
        /\ \A s \in 0..MaxRetries : queue[<<j, s>>] > 0 => s = r
        /\ \A v \in Workers : ~Runs(v, j)
        /\ Len(outbox[j]) <= r /\ NoCompletion(j)
    BY <1>1, <2>2 DEF Waiting
  <2>4. \A s \in 0..MaxRetries : queue'[<<j, s>>] = 0
    BY <2>2, <2>3, MessageType DEF TypeOK
  <2>5. /\ worker'[w].pc = "fetch" /\ worker'[w].msg = <<j, r>>
        /\ \A v \in Workers \ {w} : worker'[v] = worker[v]
    BY <1>4, <2>1, ReceiveFrame DEF OthersUntouched
  <2>6. Retries(w)' = r /\ \A v \in Workers : Runs(v, j)' => v = w
    BY <2>3, <2>5 DEF Retries, Runs, Job
  <2>. QED
    BY <1>1, <2>2, <2>3, <2>4, <2>5, <2>6 DEF Waiting, Attempting, Shaped, NoCompletion
<1>5. ASSUME NEW w \in Workers, TaskEnd(w), Job(w) = j
      PROVE  (Waiting(j) /\ Attempting(j) /\ Shaped(j))'
  BY <1>1, <1>5, ShapeOwn
<1>. QED
  BY <1>2, <1>3, <1>4, <1>5, OthersStill

\* OutboxShape: without faults, time limits elsewhere included, a job's events are failures, one per attempt at
\* most, and a completion after which nothing comes.
THEOREM ShapeCorrect == Spec => []OutboxShape
<1>1. Init => ShapeInv
  <2>. SUFFICES ASSUME Init, NEW j \in Jobs PROVE Waiting(j) /\ Attempting(j) /\ Shaped(j)
    BY DEF ShapeInv
  <2>1. \A r \in 0..MaxRetries : queue[<<j, r>>] = 0
    BY MessageType DEF Init
  <2>2. outbox[j] = <<>> /\ \A w \in Workers : ~Runs(w, j)
    BY DEF Init, Runs, Idle
  <2>. QED
    BY <2>1, <2>2, BoundAssumption DEF Waiting, Attempting, Shaped
<1>2. ShapeInv => OutboxShape
  BY DEF ShapeInv, Shaped, OutboxShape
<1>. QED
  BY <1>1, <1>2, ShapeStep, HandlerInvariant, PTL DEF Spec

-----------------------------------------------------------------------------
(***************************************************************************)
(* What the events of a job say of its attempts.  A message or an          *)
(* execution at retry r has r failures behind it that were told, and a     *)
(* crash gives its message back with the same r.                           *)
(***************************************************************************)
FailuresIn(s) == {i \in DOMAIN s : s[i].event = "signing.failed"}
Told(s) == \E i \in DOMAIN s : s[i].event = "signing.completed"

LEMMA FailuresType ==
    ASSUME NEW s \in Seq(Event)
    PROVE  IsFiniteSet(FailuresIn(s)) /\ Cardinality(FailuresIn(s)) \in Nat
<1>1. IsFiniteSet(1..Len(s))
  BY FS_Interval
<1>2. FailuresIn(s) \subseteq 1..Len(s)
  BY DEF FailuresIn
<1>. QED
  BY <1>1, <1>2, FS_Subset, FS_CardinalityType

\* Publishing keeps what was told, and a failure adds to the failures.
LEMMA FailuresGrow ==
    ASSUME NEW s \in Seq(Event), NEW e \in Event, NEW n \in 0..2, NEW t, t = s \o Events(e, n)
    PROVE  /\ t \in Seq(Event)
           /\ Told(s) => Told(t)
           /\ Cardinality(FailuresIn(t)) >= Cardinality(FailuresIn(s))
           /\ e.event = "signing.failed" /\ n > 0 =>
                Cardinality(FailuresIn(t)) > Cardinality(FailuresIn(s))
           /\ e.event = "signing.completed" /\ n > 0 => Told(t)
<1>1. Events(e, n) \in Seq(Event) /\ Len(Events(e, n)) = n /\ \A i \in 1..n : Events(e, n)[i] = e
  BY DEF Events
<1>2. t \in Seq(Event) /\ Len(t) = Len(s) + n /\ DOMAIN t = 1..Len(s) + n
  BY <1>1
<1>3. \A i \in 1..Len(s) : t[i] = s[i]
  BY <1>1
<1>4. n > 0 => t[Len(s) + 1] = e
  BY <1>1
<1>5. DOMAIN s = 1..Len(s) /\ Len(s) \in Nat
  OBVIOUS
<1>6. FailuresIn(s) \subseteq FailuresIn(t) /\ (Told(s) => Told(t))
  BY <1>2, <1>3, <1>5 DEF FailuresIn, Told
<1>7. /\ IsFiniteSet(FailuresIn(s)) /\ Cardinality(FailuresIn(s)) \in Nat
      /\ IsFiniteSet(FailuresIn(t)) /\ Cardinality(FailuresIn(t)) \in Nat
  BY <1>2, FailuresType
<1>8. Cardinality(FailuresIn(t)) >= Cardinality(FailuresIn(s))
  BY <1>6, <1>7, FS_Subset
<1>9. ASSUME e.event = "signing.failed", n > 0
      PROVE  Cardinality(FailuresIn(t)) > Cardinality(FailuresIn(s))
  <2>. DEFINE k == Len(s) + 1
  <2>1. k \notin FailuresIn(s) /\ k \in FailuresIn(t)
    BY <1>2, <1>4, <1>5, <1>9 DEF FailuresIn
  <2>2. FailuresIn(s) \cup {k} \subseteq FailuresIn(t)
    BY <1>6, <2>1
  <2>3. /\ IsFiniteSet(FailuresIn(s) \cup {k})
        /\ Cardinality(FailuresIn(s) \cup {k}) = Cardinality(FailuresIn(s)) + 1
    BY <1>7, <2>1, FS_AddElement
  <2>4. Cardinality(FailuresIn(s) \cup {k}) <= Cardinality(FailuresIn(t))
    BY <1>7, <2>2, FS_Subset
  <2>. QED
    BY <1>7, <2>3, <2>4
<1>10. e.event = "signing.completed" /\ n > 0 => Told(t)
  BY <1>2, <1>4, <1>5 DEF Told
<1>. QED
  BY <1>2, <1>6, <1>8, <1>9, <1>10

Failures(j) == Cardinality(FailuresIn(outbox[j]))

ToldSoFar(w, j) ==
    /\ Failures(j) >= Retries(w)
    /\ worker[w].pc \in {"retry", "retried"} => Failures(j) > Retries(w)
    /\ worker[w].pc = "told" => Told(outbox[j])
    /\ worker[w].pc = "store" /\ worker[w].outcome = "SUCCESS" => Told(outbox[j])
    /\ worker[w].pc = "store" /\ worker[w].outcome = "REJECTED" => Failures(j) > 0
    /\ worker[w].pc = "store" /\ worker[w].outcome = "FAILED_RESULT" => Failures(j) > MaxRetries

Notified(j) ==
    /\ \A r \in 0..MaxRetries : queue[<<j, r>>] > 0 => Failures(j) >= r
    /\ \A w \in Workers : worker[w].pc # "idle" /\ Job(w) = j => ToldSoFar(w, j)
    /\ "SUCCESS" \in results[j] => Told(outbox[j])
    /\ "REJECTED" \in results[j] => Failures(j) > 0
    /\ "FAILED_RESULT" \in results[j] => Failures(j) > MaxRetries

NotifiedInv == \A j \in Jobs : req[j].webhook => Notified(j)

\* A step of a worker on its own job, of a request that asked for a webhook.
LEMMA NotifiedOwn ==
    ASSUME TypeOK, NEW w \in Workers, TaskEnd(w), NEW j \in Jobs, Job(w) = j,
           req[j].webhook, Notified(j)
    PROVE  Notified(j)'
<1>1. worker[w].pc # "idle" /\ OthersUntouched(w, j)
  BY TaskFrame
<1>2. /\ worker[w] \in Busy
      /\ worker[w].msg \in Messages
      /\ worker[w].msg = <<j, Retries(w)>>
      /\ Retries(w) \in 0..MaxRetries
  BY <1>1, BusyWorker
<1>3. outbox[j] \in Seq(Event) /\ Failures(j) \in Nat
  BY FailuresType DEF TypeOK, Failures
<1>4. ToldSoFar(w, j) /\ \A v \in Workers \ {w} : worker'[v] = worker[v]
  BY <1>1 DEF Notified, OthersUntouched
<1>5. ASSUME NEW pc, Goto(w, pc)
      PROVE  worker'[w].pc = pc /\ worker'[w].msg = worker[w].msg
  BY <1>2, <1>5 DEF Goto, TypeOK, Busy
<1>6. ASSUME NEW outcome, End(w, outcome)
      PROVE  worker'[w].pc = "store" /\ worker'[w].msg = worker[w].msg
             /\ worker'[w].outcome = outcome
  BY <1>2, <1>6 DEF End, TypeOK, Busy
  \* The events only grow: what is left is the worker, its message and its result.
<1>7. ASSUME Failures(j)' \in Nat, Failures(j)' >= Failures(j), Told(outbox[j]) => Told(outbox'[j]),
             \A r \in 0..MaxRetries : queue'[<<j, r>>] > 0 =>
                 queue[<<j, r>>] > 0 \/ Failures(j)' >= r,
             worker'[w].pc # "idle" => ToldSoFar(w, j)',
             "SUCCESS" \in results'[j] => "SUCCESS" \in results[j] \/ Told(outbox'[j]),
             "REJECTED" \in results'[j] => "REJECTED" \in results[j] \/ Failures(j)' > 0,
             "FAILED_RESULT" \in results'[j] =>
                 "FAILED_RESULT" \in results[j] \/ Failures(j)' > MaxRetries
      PROVE  Notified(j)'
  <2>1. \A r \in 0..MaxRetries : queue'[<<j, r>>] > 0 => Failures(j)' >= r
    BY <1>3, <1>7 DEF Notified
  <2>2. ASSUME NEW v \in Workers, v # w, worker'[v].pc # "idle", worker'[v].msg[1] = j
        PROVE  ToldSoFar(v, j)'
    <3>1. worker[v] \in Busy /\ Retries(v) \in 0..MaxRetries /\ ToldSoFar(v, j)
      BY <1>4, <2>2, BusyWorker DEF Notified, Job
    <3>2. Retries(v)' = Retries(v)
      BY <1>4, <2>2 DEF Retries
    <3>. QED
      BY <1>3, <1>4, <1>7, <2>2, <3>1, <3>2, BoundAssumption DEF ToldSoFar
  <2>3. \A v \in Workers : worker'[v].pc # "idle" /\ Job(v)' = j => ToldSoFar(v, j)'
    BY <1>7, <2>2 DEF Job
  <2>4. "FAILED_RESULT" \in results'[j] => Failures(j)' > MaxRetries
    BY <1>3, <1>7, BoundAssumption DEF Notified
  <2>5. "REJECTED" \in results'[j] => Failures(j)' > 0
    BY <1>3, <1>7 DEF Notified
  <2>. QED
    BY <1>7, <2>1, <2>3, <2>4, <2>5 DEF Notified
<1>8. ASSUME UNCHANGED <<queue, outbox, results>>, worker'[w].pc # "idle" => ToldSoFar(w, j)'
      PROVE  Notified(j)'
  BY <1>3, <1>7, <1>8 DEF Failures
<1>9. ASSUME UNCHANGED outbox, worker'[w].msg = worker[w].msg,
             worker'[w].pc \notin {"retry", "told", "retried", "store"}
      PROVE  ToldSoFar(w, j)'
  BY <1>4, <1>9 DEF ToldSoFar, Failures, Retries
<1>10. CASE Fetch(w)
  <2>1. worker'[w].msg = worker[w].msg /\ worker'[w].pc = "sign"
    BY <1>2, <1>10 DEF Fetch, TypeOK, Busy
  <2>. QED
    BY <1>8, <1>9, <1>10, <2>1 DEF Fetch
<1>11. CASE Sign(w)
  BY <1>5, <1>8, <1>9, <1>11 DEF Sign
<1>12. CASE Except(w)
  <2>1. Goto(w, "report")
    BY <1>12 DEF Except, Handling
  <2>. QED
    BY <1>5, <1>8, <1>9, <1>12, <2>1 DEF Except
<1>13. CASE Notify(w)
  <2>. DEFINE e == [event |-> "signing.completed", seal |-> worker[w].seal]
  <2>1. PICK n \in 0..2, raised \in BOOLEAN :
          /\ Publish(n, raised)
          /\ outbox' = [outbox EXCEPT ![j] = @ \o Events(e, n)]
          /\ IF raised THEN Goto(w, "report") ELSE Goto(w, "told")
    BY <1>13 DEF Notify
  <2>2. e \in Event /\ e.event = "signing.completed"
    BY <1>2 DEF Event, Busy
  <2>3. outbox'[j] = outbox[j] \o Events(e, n)
    BY <2>1 DEF TypeOK
  <2>4. /\ Failures(j)' \in Nat /\ Failures(j)' >= Failures(j)
        /\ Told(outbox[j]) => Told(outbox'[j])
        /\ n > 0 => Told(outbox'[j])
    BY <1>3, <2>2, <2>3, FailuresGrow, FailuresType DEF Failures
  <2>5. ~raised => n > 0
    BY <2>1, PublishReturned
  <2>6. Retries(w)' = Retries(w) /\ (worker'[w].pc = "told" => Told(outbox'[j]))
        /\ worker'[w].pc \in {"told", "report"}
    BY <1>5, <2>1, <2>4, <2>5 DEF Retries
  <2>7. ToldSoFar(w, j)'
    BY <1>2, <1>3, <1>4, <2>4, <2>6 DEF ToldSoFar
  <2>. QED
    BY <1>7, <1>13, <2>4, <2>7 DEF Notify
<1>14. CASE Report(w)
  <2>. DEFINE e == [event |-> "signing.failed", seal |-> NoSeal]
  <2>1. PICK n \in 0..2, raised \in BOOLEAN :
          /\ Publish(n, raised)
          /\ outbox' = [outbox EXCEPT ![j] = @ \o Events(e, n)]
          /\ IF raised THEN End(w, "RAISED") ELSE Goto(w, "retry")
    BY <1>14 DEF Report
  <2>2. e \in Event /\ e.event = "signing.failed"
    BY DEF Event
  <2>3. outbox'[j] = outbox[j] \o Events(e, n)
    BY <2>1 DEF TypeOK
  <2>4. /\ Failures(j)' \in Nat /\ Failures(j)' >= Failures(j)
        /\ Told(outbox[j]) => Told(outbox'[j])
        /\ n > 0 => Failures(j)' > Failures(j)
    BY <1>3, <2>2, <2>3, FailuresGrow, FailuresType DEF Failures
  <2>5. ~raised => n > 0
    BY <2>1, PublishReturned
  <2>6. Retries(w)' = Retries(w) /\ (worker'[w].pc = "retry" => Failures(j)' > Failures(j))
        /\ worker'[w].pc \in {"retry", "store"}
        /\ (worker'[w].pc = "store" => worker'[w].outcome = "RAISED")
    BY <1>5, <1>6, <2>1, <2>4, <2>5 DEF Retries
  <2>7. ToldSoFar(w, j)'
    BY <1>2, <1>3, <1>4, <2>4, <2>6 DEF ToldSoFar
  <2>. QED
    BY <1>7, <1>14, <2>4, <2>7 DEF Report
<1>15. CASE Retry(w)
  <2>1. PICK n \in 0..2, raised \in BOOLEAN :
          /\ Publish(n, raised)
          /\ queue' = [queue EXCEPT ![<<j, Retries(w) + 1>>] = @ + n]
          /\ IF raised THEN End(w, "REJECTED") ELSE Goto(w, "retried")
    BY <1>15 DEF Retry
  <2>2. Failures(j)' = Failures(j) /\ Failures(j) > Retries(w) /\ UNCHANGED <<outbox, results>>
    BY <1>4, <1>15 DEF Retry, Failures, ToldSoFar
  <2>3. ASSUME NEW r \in 0..MaxRetries, queue'[<<j, r>>] > 0
        PROVE  queue[<<j, r>>] > 0 \/ Failures(j)' >= r
    <3>1. CASE r = Retries(w) + 1
      BY <1>2, <1>3, <2>2, <3>1
    <3>2. CASE r # Retries(w) + 1
      BY <2>1, <2>3, <3>2, MessageType DEF TypeOK
    <3>. QED
      BY <3>1, <3>2
  <2>4. ToldSoFar(w, j)'
    <3>1. /\ Retries(w)' = Retries(w) /\ worker'[w].pc \in {"retried", "store"}
          /\ worker'[w].pc = "store" => worker'[w].outcome = "REJECTED"
      BY <1>5, <1>6, <2>1 DEF Retries
    <3>. QED
      BY <1>2, <1>3, <1>4, <2>2, <3>1 DEF ToldSoFar
  <2>. QED
    BY <1>3, <1>7, <2>2, <2>3, <2>4
<1>16. CASE GiveUp(w)
  <2>1. worker'[w].outcome = "FAILED_RESULT" /\ worker'[w].pc = "store" /\ Retries(w)' = Retries(w)
    BY <1>6, <1>16 DEF GiveUp, Retries
  <2>2. ToldSoFar(w, j)'
    BY <1>4, <1>16, <2>1 DEF GiveUp, ToldSoFar, Failures
  <2>. QED
    BY <1>8, <1>16, <2>2 DEF GiveUp
<1>17. CASE StoreResult(w)
  <2>1. results'[j] = results[j] \cup {worker[w].outcome}
    BY <1>17 DEF StoreResult, TypeOK
  <2>2. worker[w].pc = "store" /\ UNCHANGED <<queue, outbox>> /\ Goto(w, "ack")
    BY <1>17 DEF StoreResult
  <2>3. ToldSoFar(w, j)'
    BY <1>5, <1>9, <2>2
  <2>. QED
    BY <1>3, <1>4, <1>7, <2>1, <2>2, <2>3 DEF ToldSoFar, Failures
<1>18. CASE Ack(w)
  BY <1>8, <1>18 DEF Ack, TypeOK, Idle
<1>19. CASE HardTimeLimit(w)
  <2>1. worker'[w].pc = "idle" /\ results'[j] = results[j] \cup {"KILLED"}
        /\ UNCHANGED <<queue, outbox>>
    BY <1>19 DEF HardTimeLimit, TypeOK, Idle
  <2>. QED
    BY <1>3, <1>7, <2>1 DEF Failures
<1>20. CASE WorkerCrash(w)
  <2>1. worker'[w].pc = "idle" /\ UNCHANGED <<results, outbox>>
    BY <1>20 DEF WorkerCrash, TypeOK, Idle
  <2>2. \A r \in 0..MaxRetries : r # Retries(w) => queue'[<<j, r>>] = queue[<<j, r>>]
    BY <1>2, <1>20, MessageType DEF WorkerCrash, TypeOK
  <2>. QED
    BY <1>3, <1>4, <1>7, <2>1, <2>2 DEF Failures, ToldSoFar
<1>21. CASE Return(w)
  <2>1. worker'[w].outcome = "SUCCESS" /\ worker'[w].pc = "store" /\ Retries(w)' = Retries(w)
    BY <1>6, <1>21 DEF Return, Retries
  <2>2. ToldSoFar(w, j)'
    BY <1>4, <1>21, <2>1 DEF Return, ToldSoFar, Failures
  <2>. QED
    BY <1>8, <1>21, <2>2 DEF Return
<1>22. CASE SoftTimeLimit(w)
  <2>1. UNCHANGED <<queue, outbox, results>> /\ worker'[w].msg = worker[w].msg
    BY <1>22, Limit
  <2>2. CASE worker'[w].pc = "report"
    BY <1>8, <1>9, <2>1, <2>2
  <2>3. CASE worker'[w].pc # "report"
    <3>1. worker'[w].pc = "store"
          /\ \/ worker'[w].outcome = "RAISED"
             \/ worker'[w].outcome = "REJECTED" /\ worker[w].pc = "retried"
      BY <1>22, <2>3, Limit DEF Handling
    <3>2. Retries(w)' = Retries(w) /\ Failures(j)' = Failures(j)
      BY <2>1 DEF Retries, Failures
    <3>3. ToldSoFar(w, j)'
      BY <1>2, <1>3, <1>4, <2>1, <3>1, <3>2 DEF ToldSoFar
    <3>. QED
      BY <1>8, <2>1, <3>3
  <2>. QED
    BY <2>2, <2>3
<1>. QED
  BY <1>10, <1>11, <1>12, <1>13, <1>14, <1>15, <1>16, <1>17, <1>18, <1>19, <1>20, <1>21, <1>22
     DEF TaskEnd, TaskStep

LEMMA NotifiedStep == TypeOK /\ NotifiedInv /\ [Next]_vars => NotifiedInv'
<1>. SUFFICES ASSUME TypeOK, NotifiedInv, [Next]_vars, NEW j \in Jobs, req'[j].webhook
              PROVE  Notified(j)'
  BY DEF NotifiedInv
<1>1. req' = req
  BY SealsKept, DefaultAssumption
<1>2. Notified(j) /\ outbox[j] \in Seq(Event) /\ Failures(j) \in Nat
  BY <1>1, FailuresType DEF NotifiedInv, TypeOK, Failures
<1>3. ASSUME NEW w \in Workers, NEW job \in Jobs, OthersUntouched(w, job), j # job,
             worker[w].pc = "idle" \/ Job(w) = job
      PROVE  Notified(j)'
  <2>1. ASSUME NEW v \in Workers, worker'[v].pc # "idle", Job(v)' = j PROVE ToldSoFar(v, j)'
    <3>1. v # w /\ worker'[v] = worker[v] /\ outbox'[j] = outbox[j]
      BY <1>3, <2>1 DEF OthersUntouched, Job
    <3>. QED
      BY <1>2, <2>1, <3>1 DEF Notified, ToldSoFar, Failures, Retries, Job
  <2>. QED
    BY <1>2, <1>3, <2>1 DEF OthersUntouched, Notified, Failures
<1>4. ASSUME UNCHANGED <<worker, outbox, results>>,
             \A r \in 0..MaxRetries : r = 0 \/ queue'[<<j, r>>] = queue[<<j, r>>]
      PROVE  Notified(j)'
  BY <1>2, <1>4 DEF Notified, ToldSoFar, Failures, Retries, Job
<1>5. ASSUME NEW i \in Jobs, Handler(i) \/ Abort(i) PROVE Notified(j)'
  <2>1. CASE Enqueue(i)
    BY <1>4, <2>1, MessageType DEF Enqueue, TypeOK
  <2>2. CASE ~Enqueue(i)
    BY <1>4, <1>5, <2>2 DEF Handler, Abort, Refuse, Submit, ProcessSigningSync, Commit
  <2>. QED
    BY <2>1, <2>2
<1>6. ASSUME NEW w \in Workers, NEW m \in Messages, Receive(w, m) PROVE Notified(j)'
  <2>1. PICK i \in Jobs, r \in 0..MaxRetries : m = <<i, r>>
    BY DEF Messages
  <2>2. worker[w].pc = "idle" /\ OthersUntouched(w, i)
    BY <1>6, <2>1, ReceiveFrame
  <2>3. CASE i # j
    BY <1>3, <2>2, <2>3
  <2>4. CASE i = j
    <3>1. /\ worker'[w].pc = "fetch" /\ worker'[w].msg = <<j, r>>
          /\ \A v \in Workers \ {w} : worker'[v] = worker[v]
      BY <1>6, <2>1, <2>2, <2>4, ReceiveFrame DEF OthersUntouched
    <3>2. queue[<<j, r>>] > 0 /\ UNCHANGED <<outbox, results>>
      BY <1>6, <2>1, <2>4 DEF Receive
    <3>3. Failures(j) >= r
      BY <1>2, <3>2 DEF Notified
    <3>4. ToldSoFar(w, j)'
      BY <3>1, <3>2, <3>3 DEF ToldSoFar, Failures, Retries
    <3>5. ASSUME NEW v \in Workers, v # w, worker'[v].pc # "idle", Job(v)' = j
          PROVE  ToldSoFar(v, j)'
      BY <1>2, <3>1, <3>2, <3>5 DEF Notified, ToldSoFar, Failures, Retries, Job
    <3>6. ASSUME NEW s \in 0..MaxRetries, queue'[<<j, s>>] > 0 PROVE queue[<<j, s>>] > 0
      <4>1. CASE s = r
        BY <3>2, <4>1
      <4>2. CASE s # r
        BY <1>6, <2>1, <2>4, <3>6, <4>2, MessageType DEF Receive, TypeOK
      <4>. QED
        BY <4>1, <4>2
    <3>. QED
      BY <1>2, <3>2, <3>4, <3>5, <3>6 DEF Notified, Failures
  <2>. QED
    BY <2>3, <2>4
<1>7. ASSUME NEW w \in Workers, TaskEnd(w) PROVE Notified(j)'
  BY <1>1, <1>2, <1>3, <1>7, TaskFrame, NotifiedOwn
<1>8. CASE UNCHANGED vars
  BY <1>4, <1>8 DEF vars
<1>9. CASE \E c \in Certs : Rotate(c) \/ Delete(c) \/ Expire(c)
  BY <1>4, <1>9 DEF Rotate, Delete, Expire
<1>. QED
  BY <1>5, <1>6, <1>7, <1>8, <1>9 DEF Next, TaskEnd

\* ResultsWereNotified: whatever is redelivered or retried, a recorded success
\* was told with its signature, and giving up comes after a failure told per attempt.
THEOREM NotificationsCorrect == Spec => []ResultsWereNotified
<1>1. Init => NotifiedInv
  <2>. SUFFICES ASSUME Init, NEW j \in Jobs PROVE Notified(j)
    BY DEF NotifiedInv
  <2>1. \A r \in 0..MaxRetries : ~(queue[<<j, r>>] > 0)
    <3>1. \A r \in 0..MaxRetries : queue[<<j, r>>] = 0
      BY MessageType DEF Init
    <3>. QED
      BY <3>1
  <2>2. results[j] = {} /\ \A w \in Workers : worker[w].pc = "idle"
    BY DEF Init, Idle
  <2>. QED
    BY <2>1, <2>2 DEF Notified
<1>2. TypeOK /\ NotifiedInv => ResultsWereNotified
  <2>. SUFFICES ASSUME TypeOK, NotifiedInv, NEW j \in Jobs, req[j].webhook
                PROVE  /\ "SUCCESS" \in results[j] => Told(outbox[j])
                       /\ "REJECTED" \in results[j] => FailuresIn(outbox[j]) # {}
                       /\ "FAILED_RESULT" \in results[j] => Failures(j) > MaxRetries
    BY DEF Told, Failures, FailuresIn, ResultsWereNotified
  <2>1. Notified(j)
    BY DEF NotifiedInv
  <2>2. FailuresIn(outbox[j]) = {} => Failures(j) = 0
    BY FS_EmptySet DEF Failures
  <2>. QED
    BY <2>1, <2>2 DEF Notified
<1>. QED
  BY <1>1, <1>2, NotifiedStep, TypeCorrect, PTL DEF Spec

-----------------------------------------------------------------------------
(***************************************************************************)
(* The two paths of a submission.  Where a publish that raises has left    *)
(* nothing on the broker, a job the API signs by itself has no effect of a *)
(* worker, from the fallback on.                                           *)
(***************************************************************************)
PublishesCleanly == \A n \in 0..2 : <<n, TRUE>> \in PublishFaults => n = 0

Inline(j) ==
    \/ api[j] = "fallback"
    \/ api[j] = "commit" /\ row[j].status \in {"completed", "failed"}
    \/ db[j].status \in {"completed", "failed"}

InlineInv == \A j \in Jobs : Inline(j) => ~Touched(j)

LEMMA InlineStep ==
    ASSUME PublishesCleanly, HandlerInv, InlineInv, [Next]_vars
    PROVE  InlineInv'
<1>. SUFFICES ASSUME NEW j \in Jobs, Inline(j)' PROVE ~Touched(j)'
  BY DEF InlineInv
<1>. USE DEF HandlerInv
<1>1. CASE UNCHANGED <<api, row, db>>
  <2>1. ~Touched(j)
    BY <1>1 DEF InlineInv, Inline
  <2>2. ASSUME NEW w \in Workers, NEW job \in Jobs, OthersUntouched(w, job), Touched(job)
        PROVE  ~Touched(j)'
    BY <2>1, <2>2, StaysUntouched
  <2>3. ASSUME NEW w \in Workers, NEW m \in Messages, Receive(w, m) PROVE ~Touched(j)'
    BY <2>2, <2>3, ReceiveFrame DEF Touched
  <2>4. ASSUME NEW w \in Workers, TaskEnd(w) PROVE ~Touched(j)'
    BY <2>2, <2>4, TaskFrame DEF Touched
  <2>5. ASSUME UNCHANGED <<queue, worker, results, outbox>> PROVE ~Touched(j)'
    BY <2>1, <2>5 DEF Touched, Ready, Settled, Job
  <2>6. ASSUME NEW i \in Jobs PROVE ~Enqueue(i)
    BY <1>1 DEF Enqueue, TypeOK
  <2>7. CASE \E i \in Jobs : Handler(i) \/ Abort(i)
    BY <2>5, <2>6, <2>7 DEF Handler, Abort, Refuse, Submit, ProcessSigningSync, Commit
  <2>8. CASE \E c \in Certs : Rotate(c) \/ Delete(c) \/ Expire(c)
    BY <2>5, <2>8 DEF Rotate, Delete, Expire
  <2>9. CASE UNCHANGED vars
    BY <2>5, <2>9 DEF vars
  <2>. QED
    BY <2>3, <2>4, <2>7, <2>8, <2>9 DEF Next, TaskEnd
<1>2. CASE ~UNCHANGED <<api, row, db>>
  <2>1. PICK i \in Jobs : Handler(i) \/ Abort(i)
    BY <1>2 DEF Next, vars, Receive, TaskStep, Fetch, Sign, Except, Notify, Return, Report, Retry,
         GiveUp, StoreResult, Ack, SoftTimeLimit, HardTimeLimit, WorkerCrash, Rotate, Delete, Expire
  <2>2. UNCHANGED <<worker, results, outbox>>
    BY <2>1 DEF Handler, Abort, Refuse, Submit, Enqueue, ProcessSigningSync, Commit
  <2>3. ASSUME \A r \in 0..MaxRetries : queue'[<<j, r>>] = queue[<<j, r>>], ~Touched(j)
        PROVE  ~Touched(j)'
    BY <2>2, <2>3 DEF Touched, Ready, Settled, Job
  <2>4. CASE i # j
    <3>1. Inline(j)
      BY <2>1, <2>4 DEF Inline, TypeOK,
         Handler, Abort, Refuse, Submit, Enqueue, ProcessSigningSync, Commit
    <3>2. \A r \in 0..MaxRetries : queue'[<<j, r>>] = queue[<<j, r>>]
      BY <2>1, <2>4, MessageType
         DEF Handler, Abort, Refuse, Submit, Enqueue, ProcessSigningSync, Commit, TypeOK
    <3>. QED
      BY <2>3, <3>1, <3>2 DEF InlineInv
  <2>5. CASE i = j /\ Enqueue(j)
    <3>1. PICK n \in 0..2, raised \in BOOLEAN :
            /\ Publish(n, raised)
            /\ queue' = [queue EXCEPT ![<<j, 0>>] = @ + n]
            /\ api' = [api EXCEPT ![j] = IF raised THEN "fallback" ELSE "commit"]
      BY <2>5 DEF Enqueue
    <3>2. /\ api[j] = "enqueue" /\ row[j].status = "queued" /\ db[j].status = "none"
          /\ UNCHANGED <<row, db>> /\ ~Touched(j)
      BY <2>5 DEF Enqueue, Session, Untouched, TypeOK, Row
    <3>3. raised
      BY <3>1, <3>2 DEF Inline, TypeOK
    <3>4. n = 0
      BY <3>1, <3>3 DEF Publish, PublishesCleanly
    <3>5. ASSUME NEW r \in 0..MaxRetries PROVE queue'[<<j, r>>] = queue[<<j, r>>]
      <4>1. <<j, r>> \in Messages /\ queue[<<j, r>>] \in Nat
        BY MessageType DEF TypeOK
      <4>2. CASE r = 0
        <5>1. queue'[<<j, 0>>] = queue[<<j, 0>>] + 0
          BY <3>1, <3>4, <4>1, <4>2 DEF TypeOK
        <5>. QED
          BY <4>1, <4>2, <5>1
      <4>3. CASE r # 0
        BY <3>1, <4>1, <4>3 DEF TypeOK
      <4>. QED
        BY <4>2, <4>3
    <3>. QED
      BY <2>3, <3>2, <3>5
  <2>6. CASE i = j /\ ~Enqueue(j)
    <3>1. queue' = queue
      BY <2>1, <2>6 DEF Handler, Abort, Refuse, Submit, ProcessSigningSync, Commit
    <3>2. Inline(j) \/ api[j] \in {"new", "refused", "enqueue"}
      <4>1. CASE Refuse(j) \/ Submit(j)
        BY <4>1 DEF Refuse, Submit
      <4>2. CASE ProcessSigningSync(j)
        BY <4>2 DEF ProcessSigningSync, Inline
      <4>3. CASE Commit(j)
        BY <4>3 DEF Commit, Inline, TypeOK
      <4>4. CASE Abort(j)
        BY <4>4 DEF Abort, Inline, TypeOK
      <4>. QED
        BY <2>1, <2>6, <4>1, <4>2, <4>3, <4>4 DEF Handler
    <3>. QED
      BY <2>3, <3>1, <3>2 DEF InlineInv, Untouched
  <2>. QED
    BY <2>4, <2>5, <2>6
<1>. QED
  BY <1>1, <1>2

\* OnePath: as long as a publish that raises has left nothing behind, a job the
\* API answered by itself never reaches a worker or a webhook.
THEOREM OnePathCorrect ==
    ASSUME PublishesCleanly
    PROVE  Spec => []OnePath
<1>1. Init => InlineInv
  BY DEF Init, InlineInv, Inline, EmptyRow
<1>2. HandlerInv /\ InlineInv => OnePath
  BY DEF InlineInv, Inline, Touched, OnePath, Live, Executing
<1>. QED
  BY <1>1, <1>2, InlineStep, HandlerInvariant, PTL DEF Spec

-----------------------------------------------------------------------------
(***************************************************************************)
(* Counting effects.  Copies of a message are counted as elements of a     *)
(* set, so that one copy more or less is one element more or less.         *)
(***************************************************************************)
CopiesAt(q, j) == UNION {{<<r, i>> : i \in 1..q[<<j, r>>]} : r \in 0..MaxRetries}

LEMMA CopiesMembers ==
    ASSUME NEW q \in [Messages -> Nat], NEW j \in Jobs, NEW c
    PROVE  c \in CopiesAt(q, j)
             <=> \E r \in 0..MaxRetries : \E i \in 1..q[<<j, r>>] : c = <<r, i>>
<1>. DEFINE At(r) == {<<r, i>> : i \in 1..q[<<j, r>>]}
            S == {At(r) : r \in 0..MaxRetries}
<1>1. c \in CopiesAt(q, j) <=> \E T \in S : c \in T
  BY Zenon DEF CopiesAt
<1>2. (\E T \in S : c \in T) <=> \E r \in 0..MaxRetries : c \in At(r)
  BY Zenon
<1>. QED
  BY <1>1, <1>2, Zenon

LEMMA CopiesFinite ==
    ASSUME NEW q \in [Messages -> Nat], NEW j \in Jobs
    PROVE  IsFiniteSet(CopiesAt(q, j)) /\ Cardinality(CopiesAt(q, j)) \in Nat
<1>. DEFINE At(r) == {<<r, i>> : i \in 1..q[<<j, r>>]}
            S == {At(r) : r \in 0..MaxRetries}
            f == [r \in 0..MaxRetries |-> At(r)]
<1>1. ASSUME NEW r \in 0..MaxRetries PROVE IsFiniteSet(At(r))
  <2>1. q[<<j, r>>] \in Nat
    BY MessageType
  <2>2. IsFiniteSet(1..q[<<j, r>>])
    BY <2>1, FS_Interval
  <2>5. IsFiniteSet({r})
    BY FS_Singleton
  <2>3. IsFiniteSet({r} \X (1..q[<<j, r>>]))
    BY <2>2, <2>5, FS_Product
  <2>4. At(r) \subseteq {r} \X (1..q[<<j, r>>])
    OBVIOUS
  <2>. QED
    BY <2>3, <2>4, FS_Subset
<1>2. IsFiniteSet(0..MaxRetries)
  BY BoundAssumption, FS_Interval
<1>3. IsFiniteSet(S)
  <2>1. f \in Surjection(0..MaxRetries, S)
    <3>1. f \in [0..MaxRetries -> S]
      OBVIOUS
    <3>2. \A T \in S : \E r \in 0..MaxRetries : f[r] = T
      BY Zenon
    <3>. HIDE DEF f, S
    <3>. QED
      BY <3>1, <3>2 DEF Surjection
  <2>. QED
    BY <1>2, <2>1, FS_Surjection
<1>4. \A T \in S : IsFiniteSet(T)
  BY <1>1
<1>5. IsFiniteSet(UNION S)
  BY <1>3, <1>4, FS_UNION
<1>. QED
  BY <1>5, FS_CardinalityType DEF CopiesAt

\* One copy more.
LEMMA CopiesAdd ==
    ASSUME NEW q \in [Messages -> Nat], NEW j \in Jobs, NEW r \in 0..MaxRetries,
           NEW p \in [Messages -> Nat], p[<<j, r>>] = q[<<j, r>>] + 1,
           \A s \in 0..MaxRetries : s # r => p[<<j, s>>] = q[<<j, s>>]
    PROVE  Cardinality(CopiesAt(p, j)) = Cardinality(CopiesAt(q, j)) + 1
<1>. DEFINE c == <<r, q[<<j, r>>] + 1>>
<1>1. q[<<j, r>>] \in Nat
  BY MessageType
<1>2. c \notin CopiesAt(q, j)
  <2>. SUFFICES ASSUME c \in CopiesAt(q, j) PROVE FALSE
    OBVIOUS
  <2>1. PICK s \in 0..MaxRetries : \E i \in 1..q[<<j, s>>] : c = <<s, i>>
    <3>1. \A y : y \in CopiesAt(q, j)
             <=> \E s \in 0..MaxRetries : \E i \in 1..q[<<j, s>>] : y = <<s, i>>
      BY CopiesMembers
    <3>. QED
      BY <3>1, Zenon
  <2>2. s = r /\ q[<<j, r>>] + 1 \in 1..q[<<j, s>>]
    BY <2>1
  <2>. QED
    BY <1>1, <2>2
<1>3. ASSUME NEW x PROVE x \in CopiesAt(p, j) <=> x \in CopiesAt(q, j) \/ x = c
  <2>1. \A s \in 0..MaxRetries : \A i :
          i \in 1..p[<<j, s>>] <=> i \in 1..q[<<j, s>>] \/ (s = r /\ i = q[<<j, r>>] + 1)
    <3>. TAKE s \in 0..MaxRetries
    <3>1. q[<<j, s>>] \in Nat
      BY MessageType
    <3>2. CASE s = r BY <1>1, <3>2
    <3>3. CASE s # r BY <3>1, <3>3
    <3>. QED BY <3>2, <3>3
  <2>. DEFINE In(f) == \E s \in 0..MaxRetries : \E i \in 1..f[<<j, s>>] : x = <<s, i>>
  <2>2. In(p) <=> In(q) \/ x = c
    <3>1. q[<<j, r>>] + 1 \in 1..p[<<j, r>>]
      BY <1>1
    <3>2. In(p) => In(q) \/ x = c
      BY <2>1
    <3>3. In(q) \/ x = c => In(p)
      BY <2>1, <3>1
    <3>. QED
      BY <3>2, <3>3
  <2>3. ASSUME NEW f \in [Messages -> Nat] PROVE x \in CopiesAt(f, j) <=> In(f)
    <3>1. \A y : y \in CopiesAt(f, j)
             <=> \E s \in 0..MaxRetries : \E i \in 1..f[<<j, s>>] : y = <<s, i>>
      BY CopiesMembers
    <3>. QED
      BY <3>1, Zenon
  <2>. QED
    BY <2>2, <2>3
<1>4. CopiesAt(p, j) = CopiesAt(q, j) \cup {c}
  BY <1>3
<1>. QED
  BY <1>2, <1>4, CopiesFinite, FS_AddElement

LEMMA CopiesPublished ==
    ASSUME NEW q \in [Messages -> Nat], NEW j \in Jobs, NEW r \in 0..MaxRetries, NEW n \in 0..2
    PROVE  Cardinality(CopiesAt([q EXCEPT ![<<j, r>>] = @ + n], j))
             = Cardinality(CopiesAt(q, j)) + n
<1>. DEFINE p == [q EXCEPT ![<<j, r>>] = @ + n]
            m == <<j, r>>
            q1 == [q EXCEPT ![m] = q[m] + 1]
<1>1. m \in Messages /\ q[m] \in Nat
  BY MessageType
<1>2. q1 \in [Messages -> Nat] /\ p \in [Messages -> Nat] /\ p[m] = q[m] + n
      /\ \A s \in 0..MaxRetries : s # r => p[<<j, s>>] = q[<<j, s>>]
  BY <1>1, MessageType
<1>3. q1[m] = q[m] + 1 /\ \A s \in 0..MaxRetries : s # r => q1[<<j, s>>] = q[<<j, s>>]
  BY <1>1, MessageType
<1>4. Cardinality(CopiesAt(q1, j)) = Cardinality(CopiesAt(q, j)) + 1
  <2>. HIDE DEF q1
  <2>. QED
    BY <1>2, <1>3, CopiesAdd
<1>5. CASE n = 0
  <2>1. \A x \in Messages : p[x] = q[x]
    BY <1>1, <1>5
  <2>2. CopiesAt(p, j) = CopiesAt(q, j)
    <3>. HIDE DEF p
    <3>1. p = q
      BY <1>2, <2>1
    <3>. QED
      BY <3>1
  <2>3. Cardinality(CopiesAt(q, j)) \in Nat
    BY CopiesFinite
  <2>. QED
    BY <1>5, <2>2, <2>3
<1>6. CASE n = 1
  <2>1. p[m] = q[m] + 1
    BY <1>2, <1>6
  <2>2. Cardinality(CopiesAt(p, j)) = Cardinality(CopiesAt(q, j)) + 1
    <3>. HIDE DEF p
    <3>. QED
      BY <1>2, <2>1, CopiesAdd
  <2>. QED
    BY <1>6, <2>2
<1>7. CASE n = 2
  <2>1. p[m] = q1[m] + 1
    BY <1>1, <1>2, <1>3, <1>7
  <2>2. \A s \in 0..MaxRetries : s # r => p[<<j, s>>] = q1[<<j, s>>]
    BY <1>2, <1>3
  <2>3. Cardinality(CopiesAt(p, j)) = Cardinality(CopiesAt(q1, j)) + 1
    <3>. HIDE DEF q1, p
    <3>. QED
      BY <1>2, <2>1, <2>2, CopiesAdd
  <2>. QED
    BY <1>4, <1>7, <2>3, CopiesFinite
<1>. QED
  BY <1>5, <1>6, <1>7

LEMMA CopiesTaken ==
    ASSUME NEW q \in [Messages -> Nat], NEW j \in Jobs, NEW r \in 0..MaxRetries,
           q[<<j, r>>] > 0
    PROVE  Cardinality(CopiesAt([q EXCEPT ![<<j, r>>] = @ - 1], j))
             = Cardinality(CopiesAt(q, j)) - 1
<1>. DEFINE p == [q EXCEPT ![<<j, r>>] = @ - 1]
<1>1. <<j, r>> \in Messages /\ q[<<j, r>>] \in Nat
  BY MessageType
<1>2. /\ p \in [Messages -> Nat] /\ q[<<j, r>>] = p[<<j, r>>] + 1
      /\ \A s \in 0..MaxRetries : s # r => q[<<j, s>>] = p[<<j, s>>]
  BY <1>1
<1>3. Cardinality(CopiesAt(q, j)) = Cardinality(CopiesAt(p, j)) + 1
  BY <1>2, CopiesAdd
<1>4. Cardinality(CopiesAt(p, j)) \in Nat
  BY <1>2, CopiesFinite
<1>. QED
  BY <1>3, <1>4

\* The completions of a longer history.
CompletionsIn(s) == {i \in DOMAIN s : s[i].event = "signing.completed"}

LEMMA CompletionsFinite ==
    ASSUME NEW s \in Seq(Event)
    PROVE  IsFiniteSet(CompletionsIn(s)) /\ Cardinality(CompletionsIn(s)) \in Nat
<1>1. IsFiniteSet(1..Len(s))
  BY FS_Interval
<1>2. CompletionsIn(s) \subseteq 1..Len(s)
  BY DEF CompletionsIn
<1>. QED
  BY <1>1, <1>2, FS_Subset, FS_CardinalityType

LEMMA CompletionsGrow ==
    ASSUME NEW s \in Seq(Event), NEW e \in Event, NEW n \in 0..2, NEW t, t = s \o Events(e, n)
    PROVE  Cardinality(CompletionsIn(t)) =
             Cardinality(CompletionsIn(s)) + IF e.event = "signing.completed" THEN n ELSE 0
<1>1. Events(e, n) \in Seq(Event) /\ Len(Events(e, n)) = n /\ \A i \in 1..n : Events(e, n)[i] = e
  BY DEF Events
<1>2. /\ DOMAIN t = 1..Len(s) + n /\ DOMAIN s = 1..Len(s) /\ Len(s) \in Nat
      /\ \A i \in 1..Len(s) : t[i] = s[i]
      /\ \A i \in Len(s) + 1..Len(s) + n : t[i] = e
  BY <1>1
<1>3. IsFiniteSet(CompletionsIn(s)) /\ Cardinality(CompletionsIn(s)) \in Nat
  BY CompletionsFinite
<1>4. CASE e.event # "signing.completed" \/ n = 0
  <2>1. CompletionsIn(t) = CompletionsIn(s)
    BY <1>2, <1>4 DEF CompletionsIn
  <2>. QED
    BY <1>3, <1>4, <2>1
<1>5. CASE e.event = "signing.completed" /\ n = 1
  <2>1. CompletionsIn(t) = CompletionsIn(s) \cup {Len(s) + 1} /\ Len(s) + 1 \notin CompletionsIn(s)
    BY <1>2, <1>5 DEF CompletionsIn
  <2>. QED
    BY <1>3, <1>5, <2>1, FS_AddElement
<1>6. CASE e.event = "signing.completed" /\ n = 2
  <2>0. PICK S1 : S1 = CompletionsIn(s) \cup {Len(s) + 1}
    OBVIOUS
  <2>1. CompletionsIn(t) = S1 \cup {Len(s) + 2}
        /\ Len(s) + 1 \notin CompletionsIn(s) /\ Len(s) + 2 \notin S1
    BY <1>2, <1>6, <2>0 DEF CompletionsIn
  <2>2. IsFiniteSet(S1) /\ Cardinality(S1) = Cardinality(CompletionsIn(s)) + 1
    BY <1>3, <2>0, <2>1, FS_AddElement
  <2>3. Cardinality(CompletionsIn(t)) = Cardinality(S1) + 1
    BY <2>1, <2>2, FS_AddElement
  <2>. QED
    BY <1>3, <1>6, <2>2, <2>3
<1>. QED
  BY <1>4, <1>5, <1>6

-----------------------------------------------------------------------------
(***************************************************************************)
(* The bound on effects: a worker's step adds at most one effect for each  *)
(* fault of the broker or crash that it counts.                            *)
(***************************************************************************)
RunsOf(j) == {w \in Workers : Runs(w, j)}

ReadyCopies(j) == Cardinality(CopiesAt(queue, j))
Running(j) == Cardinality(RunsOf(j))
Completed(j) == Cardinality(CompletionsIn(outbox[j]))

EffectSum == \A j \in Jobs :
    /\ ReadyCopies(j) \in Nat /\ Running(j) \in Nat /\ Completed(j) \in Nat
    /\ Effects(j) = ReadyCopies(j) + Running(j) + Completed(j)

LEMMA EffectParts == TypeOK => EffectSum
<1>. SUFFICES ASSUME TypeOK, NEW j \in Jobs
              PROVE  /\ ReadyCopies(j) \in Nat /\ Running(j) \in Nat /\ Completed(j) \in Nat
                     /\ Effects(j) = ReadyCopies(j) + Running(j) + Completed(j)
  BY DEF EffectSum
<1>1. Copies(j) = CopiesAt(queue, j) /\ Completions(j) = CompletionsIn(outbox[j])
  BY DEF Copies, CopiesAt, Completions, CompletionsIn
<1>2. Cardinality(CopiesAt(queue, j)) \in Nat /\ Cardinality(CompletionsIn(outbox[j])) \in Nat
  BY CopiesFinite, CompletionsFinite DEF TypeOK
<1>3. IsFiniteSet(RunsOf(j))
  <2>1. RunsOf(j) \subseteq Workers
    BY DEF RunsOf
  <2>. QED
    BY <2>1, WorkersAssumption, FS_Subset
<1>4. Cardinality(RunsOf(j)) \in Nat
  BY <1>3, FS_CardinalityType
<1>. QED
  BY <1>1, <1>2, <1>3, <1>4 DEF Effects, RunsOf, ReadyCopies, Running, Completed

\* A publish that raises left no more copies than it counts faults; one that
\* returns left at most one more.
LEMMA PublishBound ==
    ASSUME NEW n \in 0..2, NEW raised \in BOOLEAN, Publish(n, raised), faults \in Nat
    PROVE  /\ faults' \in Nat
           /\ raised => n + faults <= faults'
           /\ n + faults <= 1 + faults'
<1>1. CASE n = 1 /\ ~raised /\ UNCHANGED faults
  BY <1>1
<1>2. CASE faults' = faults + 1 /\ <<n, raised>> \in PublishFaults
  <2>1. <<n, raised>> \in {<<0, TRUE>>, <<1, TRUE>>, <<2, FALSE>>}
    BY <1>2, FaultAssumption
  <2>2. (n = 0 \/ n = 1) \/ (n = 2 /\ ~raised)
    BY <2>1
  <2>. QED
    BY <1>2, <2>2
<1>. QED
  BY <1>1, <1>2 DEF Publish

\* A job nothing was published for has no effects.
LEMMA NoEffects ==
    ASSUME TypeOK, NEW j \in Jobs, ~Touched(j)
    PROVE  Copies(j) = {} /\ RunsOf(j) = {} /\ Completions(j) = {}
<1>1. Copies(j) = {}
  <2>1. ASSUME NEW c \in CopiesAt(queue, j) PROVE FALSE
    <3>0. \A y : y \in CopiesAt(queue, j)
             <=> \E s \in 0..MaxRetries : \E i \in 1..queue[<<j, s>>] : y = <<s, i>>
      BY CopiesMembers DEF TypeOK
    <3>1. PICK r \in 0..MaxRetries : \E i \in 1..queue[<<j, r>>] : c = <<r, i>>
      BY <3>0
    <3>2. queue[<<j, r>>] \in Nat /\ ~(queue[<<j, r>>] > 0)
      BY MessageType DEF TypeOK, Touched, Ready
    <3>. QED
      BY <3>1, <3>2
  <2>. QED
    BY <2>1 DEF Copies, CopiesAt
<1>2. RunsOf(j) = {}
  BY DEF RunsOf, Runs, Touched
<1>3. Completions(j) = {}
  BY DEF Completions, Touched
<1>. QED
  BY <1>1, <1>2, <1>3

\* The workers that run a job, when one of them starts, stops or goes on.
LEMMA RunsMove ==
    ASSUME NEW j \in Jobs, NEW w \in Workers,
           \A v \in Workers \ {w} : worker'[v] = worker[v]
    PROVE  /\ Running(j)' <= Running(j) + 1
           /\ Runs(w, j) => Running(j)' <= Running(j)
           /\ ~Runs(w, j)' => Running(j)' <= Running(j)
           /\ Runs(w, j) /\ ~Runs(w, j)' =>
                Running(j)' + 1 <= Running(j)
<1>. DEFINE A == RunsOf(j)
            B == RunsOf(j)'
<1>1. IsFiniteSet(A) /\ IsFiniteSet(B) /\ Cardinality(A) \in Nat /\ Cardinality(B) \in Nat
  <2>1. A \subseteq Workers /\ B \subseteq Workers
    BY DEF RunsOf
  <2>2. IsFiniteSet(A) /\ IsFiniteSet(B)
    BY <2>1, WorkersAssumption, FS_Subset
  <2>. QED
    BY <2>2, FS_CardinalityType
<1>2. \A v \in Workers : v # w => (v \in B <=> v \in A)
  BY DEF RunsOf, Runs, Job
<1>3. (w \in A <=> Runs(w, j)) /\ (w \in B <=> Runs(w, j)') /\ A \subseteq Workers /\ B \subseteq Workers
  BY DEF RunsOf
<1>. HIDE DEF A, B
<1>4. /\ Cardinality(A \cup {w}) <= Cardinality(A) + 1 /\ IsFiniteSet(A \cup {w})
      /\ w \in A => Cardinality(A \ {w}) = Cardinality(A) - 1
      /\ IsFiniteSet(A \ {w})
  <2>1. IsFiniteSet(A \cup {w})
        /\ Cardinality(A \cup {w}) = IF w \in A THEN Cardinality(A) ELSE Cardinality(A) + 1
    BY <1>1, FS_AddElement
  <2>2. IsFiniteSet(A \ {w})
        /\ Cardinality(A \ {w}) = IF w \in A THEN Cardinality(A) - 1 ELSE Cardinality(A)
    BY <1>1, FS_RemoveElement
  <2>. QED
    BY <1>1, <2>1, <2>2
<1>5. B \subseteq A \cup {w} /\ (w \notin B => B \subseteq A \ {w}) /\ (w \in A => B \subseteq A)
  BY <1>2, <1>3
<1>6. \A S, T : IsFiniteSet(S) /\ T \subseteq S => Cardinality(T) <= Cardinality(S)
  BY FS_Subset
<1>7. Cardinality(A \ {w}) <= Cardinality(A) /\ Cardinality(A \ {w}) \in Nat
      /\ Cardinality(A \cup {w}) \in Nat
  BY <1>1, <1>4, <1>6, FS_CardinalityType
<1>8. Cardinality(B) <= Cardinality(A) + 1
  <2>1. Cardinality(B) <= Cardinality(A \cup {w})
    BY <1>4, <1>5, <1>6
  <2>. QED
    BY <1>1, <1>4, <1>7, <2>1
<1>9. w \in A => Cardinality(B) <= Cardinality(A)
  BY <1>1, <1>5, <1>6
<1>10. w \notin B => Cardinality(B) <= Cardinality(A \ {w})
  BY <1>4, <1>5, <1>6
<1>11. w \notin B => Cardinality(B) <= Cardinality(A)
  BY <1>1, <1>7, <1>10
<1>12. w \in A /\ w \notin B => Cardinality(B) + 1 <= Cardinality(A)
  BY <1>1, <1>4, <1>7, <1>10
<1>. QED
  BY <1>3, <1>8, <1>9, <1>11, <1>12 DEF A, B, Running

LEMMA EffectArithmetic ==
    /\ \A c, r, d, c1, r1, d1, f, f1, n \in Nat :
         c1 + d1 = c + d + n /\ r1 + 1 <= r /\ n + f <= 1 + f1
           => (c1 + r1 + d1) + f <= (c + r + d) + f1
    /\ \A f, f1, n \in Nat : n + f <= 1 + f1 => n <= 1 + f1
OBVIOUS

\* What the step of a worker adds to its own job.
LEMMA EffectsOwn ==
    ASSUME TypeOK, TypeOK', NEW w \in Workers, TaskEnd(w), NEW j \in Jobs, Job(w) = j
    PROVE  Effects(j)' + faults <= Effects(j) + faults'
<1>1. worker[w].pc # "idle" /\ OthersUntouched(w, j)
  BY TaskFrame
<1>2. /\ worker[w] \in Busy
      /\ worker[w].msg \in Messages
      /\ worker[w].msg = <<j, Retries(w)>>
      /\ Retries(w) \in 0..MaxRetries
  BY <1>1, BusyWorker
<1>3. outbox[j] \in Seq(Event) /\ faults \in Nat /\ faults' \in Nat /\ queue \in [Messages -> Nat]
  BY DEF TypeOK
<1>4. ReadyCopies(j) \in Nat /\ Completed(j) \in Nat /\ Running(j) \in Nat /\ Effects(j) = ReadyCopies(j) + Running(j) + Completed(j)
  BY EffectParts DEF EffectSum
<1>5. ReadyCopies(j)' \in Nat /\ Completed(j)' \in Nat /\ Running(j)' \in Nat /\ Effects(j)' = ReadyCopies(j)' + Running(j)' + Completed(j)'
  <2>1. (TypeOK => EffectSum)'
    BY EffectParts, PTL
  <2>. QED
    BY <2>1 DEF EffectSum
<1>6. /\ Runs(w, j) => Running(j)' <= Running(j)
      /\ ~Runs(w, j)' => Running(j)' <= Running(j)
      /\ Runs(w, j) /\ ~Runs(w, j)' => Running(j)' + 1 <= Running(j)
  BY <1>1, RunsMove DEF OthersUntouched
<1>7. ASSUME NEW outcome, End(w, outcome) PROVE ~Runs(w, j)'
  BY <1>2, <1>7 DEF End, TypeOK, Busy, Runs
<1>8. ASSUME NEW pc, Goto(w, pc) PROVE worker'[w].pc = pc
  BY <1>2, <1>8 DEF Goto, TypeOK
<1>9. queue' = queue => ReadyCopies(j)' = ReadyCopies(j)
  BY DEF ReadyCopies
<1>10. outbox' = outbox => Completed(j)' = Completed(j)
  BY DEF Completed
<1>11. CASE Fetch(w) \/ Sign(w) \/ Except(w)
  <2>1. Runs(w, j) /\ UNCHANGED <<queue, outbox, faults>>
    BY <1>11 DEF Fetch, Sign, Except, Runs
  <2>. QED
    BY <1>3, <1>4, <1>5, <1>6, <1>9, <1>10, <2>1
<1>12. CASE Notify(w)
  <2>. DEFINE e == [event |-> "signing.completed", seal |-> worker[w].seal]
  <2>1. PICK n \in 0..2, raised \in BOOLEAN :
          /\ Publish(n, raised)
          /\ outbox' = [outbox EXCEPT ![j] = @ \o Events(e, n)]
          /\ IF raised THEN Goto(w, "report") ELSE Goto(w, "told")
    BY <1>12 DEF Notify
  <2>2. Completed(j)' = Completed(j) + n
    <3>1. e \in Event /\ e.event = "signing.completed"
      BY <1>2 DEF Event, Busy
    <3>2. outbox'[j] = outbox[j] \o Events(e, n)
      BY <2>1 DEF TypeOK
    <3>. QED
      BY <1>3, <3>1, <3>2, CompletionsGrow DEF Completed
  <2>3. Runs(w, j) /\ queue' = queue
    BY <1>12 DEF Notify, Runs
  <2>4. /\ raised => n + faults <= faults'
        /\ n + faults <= 1 + faults'
    BY <1>3, <2>1, PublishBound
  <2>5. ~raised => Running(j)' + 1 <= Running(j)
    BY <1>6, <1>8, <2>1, <2>3 DEF Runs
  <2>6. CASE raised
    BY <1>3, <1>4, <1>5, <1>6, <1>9, <2>2, <2>3, <2>4, <2>6
  <2>7. CASE ~raised
    <3>1. Running(j)' + 1 <= Running(j) /\ ReadyCopies(j)' = ReadyCopies(j) /\ n \in Nat
      BY <1>9, <2>3, <2>5, <2>7
    <3>2. n + faults <= 1 + faults'
      BY <2>4
    <3>3. ReadyCopies(j)' + Completed(j)' = ReadyCopies(j) + Completed(j) + n
      BY <1>4, <1>5, <2>2, <3>1
    <3>4. (ReadyCopies(j)' + Running(j)' + Completed(j)') + faults
             <= (ReadyCopies(j) + Running(j) + Completed(j)) + faults'
      BY <1>3, <1>4, <1>5, <3>1, <3>2, <3>3, EffectArithmetic, ZenonT(60)
    <3>. QED
      BY <1>4, <1>5, <3>4
  <2>. QED
    BY <2>6, <2>7
<1>13. CASE Report(w)
  <2>. DEFINE e == [event |-> "signing.failed", seal |-> NoSeal]
  <2>1. PICK n \in 0..2, raised \in BOOLEAN :
          /\ Publish(n, raised)
          /\ outbox' = [outbox EXCEPT ![j] = @ \o Events(e, n)]
    BY <1>13 DEF Report
  <2>2. Completed(j)' = Completed(j)
    <3>1. e \in Event /\ e.event # "signing.completed"
      BY DEF Event
    <3>2. outbox'[j] = outbox[j] \o Events(e, n)
      BY <2>1 DEF TypeOK
    <3>. HIDE DEF e
    <3>3. Cardinality(CompletionsIn(outbox[j] \o Events(e, n)))
            = Cardinality(CompletionsIn(outbox[j]))
              + IF e.event = "signing.completed" THEN n ELSE 0
      BY <1>3, <2>1, <3>1, CompletionsGrow
    <3>. QED
      BY <1>4, <3>1, <3>2, <3>3 DEF Completed
  <2>3. Runs(w, j) /\ queue' = queue
    BY <1>13 DEF Report, Runs
  <2>4. faults <= faults'
    BY <1>3, <2>1 DEF Publish
  <2>. QED
    BY <1>3, <1>4, <1>5, <1>6, <1>9, <2>2, <2>3, <2>4
<1>14. CASE Retry(w)
  <2>1. PICK n \in 0..2, raised \in BOOLEAN :
          /\ Publish(n, raised)
          /\ queue' = [queue EXCEPT ![<<j, Retries(w) + 1>>] = @ + n]
          /\ IF raised THEN End(w, "REJECTED") ELSE Goto(w, "retried")
    BY <1>14 DEF Retry
  <2>2. ReadyCopies(j)' = ReadyCopies(j) + n
    <3>1. Retries(w) + 1 \in 0..MaxRetries
      BY <1>2, <1>14, BoundAssumption DEF Retry
    <3>2. Cardinality(CopiesAt([queue EXCEPT ![<<j, Retries(w) + 1>>] = @ + n], j))
            = Cardinality(CopiesAt(queue, j)) + n
      BY <1>3, <2>1, <3>1, CopiesPublished
    <3>. QED
      BY <2>1, <3>2 DEF ReadyCopies
  <2>3. Runs(w, j) /\ outbox' = outbox
    BY <1>14 DEF Retry, Runs
  <2>4. ~Runs(w, j)'
    BY <1>7, <1>8, <2>1 DEF Runs
  <2>5. n + faults <= 1 + faults'
    BY <1>3, <2>1, PublishBound
  <2>6. Running(j)' + 1 <= Running(j) /\ Completed(j)' = Completed(j) /\ n \in Nat
    BY <1>6, <1>10, <2>3, <2>4
  <2>7. ReadyCopies(j)' + Completed(j)' = ReadyCopies(j) + Completed(j) + n
    BY <1>4, <1>5, <2>2, <2>6
  <2>8. (ReadyCopies(j)' + Running(j)' + Completed(j)') + faults
           <= (ReadyCopies(j) + Running(j) + Completed(j)) + faults'
    BY <1>3, <1>4, <1>5, <2>5, <2>6, <2>7, EffectArithmetic, ZenonT(60)
  <2>. QED
    BY <1>4, <1>5, <2>8
<1>15. CASE GiveUp(w) \/ Return(w)
  BY <1>3, <1>4, <1>5, <1>6, <1>7, <1>9, <1>10, <1>15 DEF GiveUp, Return
<1>18. CASE SoftTimeLimit(w)
  <2>1. UNCHANGED <<queue, outbox>> /\ Running(j)' <= Running(j) + 1
    BY <1>1, <1>18, Limit, RunsMove DEF OthersUntouched
  <2>2. CASE worker[w].pc = "told"
    <3>1. faults' = faults + 1
      BY <1>18, <2>2, Limit
    <3>. QED
      BY <1>3, <1>4, <1>5, <1>9, <1>10, <2>1, <3>1
  <2>3. CASE worker[w].pc # "told"
    <3>1. faults' = faults /\ (Runs(w, j) \/ ~Runs(w, j)')
      BY <1>2, <1>18, <2>3, Limit DEF Runs
    <3>. QED
      BY <1>3, <1>4, <1>5, <1>6, <1>9, <1>10, <2>1, <3>1
  <2>. QED
    BY <2>2, <2>3
<1>16. CASE StoreResult(w) \/ Ack(w) \/ HardTimeLimit(w)
  <2>1. ~Runs(w, j)' /\ UNCHANGED <<queue, outbox, faults>>
    BY <1>8, <1>16 DEF StoreResult, Ack, SoftTimeLimit, HardTimeLimit, Runs, TypeOK, Idle
  <2>. QED
    BY <1>3, <1>4, <1>5, <1>6, <1>9, <1>10, <2>1
<1>17. CASE WorkerCrash(w)
  <2>1. ~Runs(w, j)' /\ outbox' = outbox /\ faults' = faults + 1
    BY <1>17 DEF WorkerCrash, Runs, TypeOK, Idle
  <2>2. queue' = [queue EXCEPT ![<<j, Retries(w)>>] = @ + 1]
    BY <1>2, <1>17 DEF WorkerCrash
  <2>3. ReadyCopies(j)' = ReadyCopies(j) + 1
    <3>1. Cardinality(CopiesAt([queue EXCEPT ![<<j, Retries(w)>>] = @ + 1], j))
            = Cardinality(CopiesAt(queue, j)) + 1
      <4>1. \A n \in 0..2 : Cardinality(CopiesAt([queue EXCEPT ![<<j, Retries(w)>>] = @ + n], j))
                               = Cardinality(CopiesAt(queue, j)) + n
        BY <1>2, <1>3, CopiesPublished
      <4>. QED
        BY <4>1
    <3>. QED
      BY <2>2, <3>1 DEF ReadyCopies
  <2>. QED
    BY <1>3, <1>4, <1>5, <1>6, <1>10, <2>1, <2>3
<1>. QED
  BY <1>11, <1>12, <1>13, <1>14, <1>15, <1>16, <1>17, <1>18 DEF TaskEnd, TaskStep

LEMMA EffectsStep ==
    ASSUME HandlerInv, TypeOK', EffectBound, [Next]_vars
    PROVE  EffectBound'
<1>. SUFFICES ASSUME NEW j \in Jobs PROVE Effects(j)' <= 1 + faults'
  BY DEF EffectBound
<1>. USE DEF HandlerInv
<1>1. ReadyCopies(j) \in Nat /\ Completed(j) \in Nat /\ Running(j) \in Nat /\ Effects(j) = ReadyCopies(j) + Running(j) + Completed(j)
  BY EffectParts DEF EffectSum
<1>2. ReadyCopies(j)' \in Nat /\ Completed(j)' \in Nat /\ Running(j)' \in Nat /\ Effects(j)' = ReadyCopies(j)' + Running(j)' + Completed(j)'
  <2>1. (TypeOK => EffectSum)'
    BY EffectParts, PTL
  <2>. QED
    BY <2>1 DEF EffectSum
<1>3. Effects(j) <= 1 + faults /\ faults \in Nat /\ faults' \in Nat
  BY DEF EffectBound, TypeOK
<1>4. faults <= faults'
  <2>1. faults' = faults \/ faults' = faults + 1
    BY DEF Publish, Next, vars, Handler, Abort, Refuse, Submit, Enqueue, ProcessSigningSync,
       Commit, Receive, TaskStep, Fetch, Sign, Except, Notify, Return, Report, Retry, GiveUp,
       StoreResult, Ack, SoftTimeLimit, HardTimeLimit, WorkerCrash, Rotate, Delete, Expire
  <2>. QED
    BY <1>3, <2>1
<1>5. CASE Still(j)
  <2>1. CopiesAt(queue, j)' = CopiesAt(queue, j)
    BY <1>5 DEF Still, CopiesAt
  <2>2. RunsOf(j)' \subseteq RunsOf(j) /\ CompletionsIn(outbox[j])' = CompletionsIn(outbox[j])
    BY <1>5 DEF Still, RunsOf, CompletionsIn
  <2>3. Running(j)' <= Running(j)
    <3>1. IsFiniteSet(RunsOf(j))
      BY WorkersAssumption, FS_Subset DEF RunsOf
    <3>. QED
      BY <2>2, <3>1, FS_Subset DEF Running
  <2>. QED
    BY <1>1, <1>2, <1>3, <1>4, <2>1, <2>2, <2>3 DEF ReadyCopies, Completed
<1>6. CASE Enqueue(j)
  <2>1. PICK n \in 0..2, raised \in BOOLEAN :
          /\ Publish(n, raised)
          /\ queue' = [queue EXCEPT ![<<j, 0>>] = @ + n]
    BY <1>6 DEF Enqueue
  <2>2. ~Touched(j) /\ UNCHANGED <<worker, outbox>>
    BY <1>6 DEF Enqueue, Untouched
  <2>3. ReadyCopies(j) = 0 /\ Running(j) = 0 /\ Completed(j) = 0
    <3>1. CopiesAt(queue, j) = {} /\ RunsOf(j) = {} /\ CompletionsIn(outbox[j]) = {}
      BY <2>2, NoEffects DEF Copies, CopiesAt, Completions, CompletionsIn
    <3>. QED
      BY <3>1, FS_EmptySet DEF ReadyCopies, Running, Completed
  <2>4. Running(j)' = Running(j) /\ Completed(j)' = Completed(j)
    BY <2>2 DEF RunsOf, Runs, Job, Running, Completed
  <2>5. ReadyCopies(j)' = ReadyCopies(j) + n
    <3>1. 0 \in 0..MaxRetries /\ queue \in [Messages -> Nat]
      BY BoundAssumption DEF TypeOK
    <3>2. Cardinality(CopiesAt([queue EXCEPT ![<<j, 0>>] = @ + n], j))
            = Cardinality(CopiesAt(queue, j)) + n
      BY <3>1, CopiesPublished
    <3>. QED
      BY <2>1, <3>2 DEF ReadyCopies
  <2>6. n + faults <= 1 + faults'
    BY <1>3, <2>1, PublishBound
  <2>. QED
    <3>1. Effects(j)' = n /\ n \in Nat
      BY <1>2, <2>3, <2>4, <2>5
    <3>. QED
      BY <1>3, <2>6, <3>1, EffectArithmetic
<1>7. ASSUME NEW w \in Workers, NEW m \in Messages, Receive(w, m), m[1] = j
      PROVE  Effects(j)' <= 1 + faults'
  <2>1. OthersUntouched(w, j)
    BY <1>7, ReceiveFrame
  <2>2. Running(j)' <= Running(j) + 1
    BY <2>1, RunsMove DEF OthersUntouched
  <2>3. PICK r \in 0..MaxRetries : m = <<j, r>>
    BY <1>7 DEF Messages
  <2>4. ReadyCopies(j)' = ReadyCopies(j) - 1
    <3>1. queue \in [Messages -> Nat] /\ queue[<<j, r>>] > 0
          /\ queue' = [queue EXCEPT ![<<j, r>>] = @ - 1]
      BY <1>7, <2>3 DEF Receive, TypeOK
    <3>2. Cardinality(CopiesAt([queue EXCEPT ![<<j, r>>] = @ - 1], j))
            = Cardinality(CopiesAt(queue, j)) - 1
      BY <3>1, CopiesTaken
    <3>. QED
      BY <3>1, <3>2 DEF ReadyCopies
  <2>5. Completed(j)' = Completed(j) /\ faults' = faults
    BY <1>7 DEF Receive, Completed
  <2>. QED
    BY <1>1, <1>2, <1>3, <2>2, <2>4, <2>5
<1>8. ASSUME NEW w \in Workers, TaskEnd(w), Job(w) = j
      PROVE  Effects(j)' <= 1 + faults'
  <2>1. Effects(j)' + faults <= Effects(j) + faults'
    BY <1>8, EffectsOwn
  <2>. QED
    BY <1>1, <1>2, <1>3, <2>1
<1>. QED
  BY <1>5, <1>6, <1>7, <1>8, OthersStill

\* EffectBound: redelivery, retries and republishing give a job at most one
\* effect for each fault, next to the one it asked for; a soft time limit between
\* the publish of a completion and the return is a fault.
THEOREM EffectsBounded == Spec => []EffectBound
<1>1. Init => EffectBound
  <2>. SUFFICES ASSUME Init, NEW j \in Jobs PROVE Effects(j) <= 1 + faults
    BY DEF EffectBound
  <2>1. HandlerInv /\ api[j] = "new" /\ faults = 0
    BY HandlerInit DEF Init
  <2>2. Copies(j) = {} /\ RunsOf(j) = {} /\ Completions(j) = {}
    BY <2>1, NoEffects DEF HandlerInv, Untouched
  <2>3. Effects(j) = Cardinality({}) + Cardinality({}) + Cardinality({})
    BY <2>2 DEF Effects, RunsOf
  <2>. QED
    BY <2>1, <2>3, FS_EmptySet
<1>. QED
  BY <1>1, EffectsStep, HandlerInvariant, TypeCorrect, PTL DEF Spec
=============================================================================
