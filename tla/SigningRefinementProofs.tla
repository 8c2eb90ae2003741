---------------------- MODULE SigningRefinementProofs ----------------------
(***************************************************************************)
(* SigningPipeline implements the safety part of SigningService, for every *)
(* value of the constants.                                                 *)
(***************************************************************************)
EXTENDS SigningRefinement, SigningPipelineProofs

-----------------------------------------------------------------------------
(***************************************************************************)
(* The refinement needs one invariant more: a worker that still holds a    *)
(* message, its acknowledgement included, holds it for a carried job, so   *)
(* that its redelivery never revives a job that was gone.                  *)
(***************************************************************************)
Held == \A w \in Workers : worker[w].pc # "idle" => Carried(Job(w))

RefinementInv == HandlerInv /\ Handed /\ Held

LEMMA HeldStep == TypeOK /\ Held /\ [Next]_vars => Held'
<1>. SUFFICES ASSUME TypeOK, Held, [Next]_vars,
                     NEW w \in Workers, worker'[w].pc # "idle",
                     NEW job, job = worker'[w].msg[1]
              PROVE  Carried(job)'
  BY DEF Held, Job
<1>1. CASE worker'[w] = worker[w]
  <2>1. worker[w].pc # "idle" /\ Job(w) = job
    BY <1>1 DEF Job
  <2>2. job \in Jobs /\ Carried(job)
    BY <2>1, BusyWorker DEF Held
  <2>. QED
    BY <2>2, CarriedKept
<1>2. CASE \E m \in Messages : Receive(w, m)
  <2>. PICK m \in Messages : Receive(w, m)
    BY <1>2
  <2>1. job \in Jobs /\ Ready(job)
    BY ReceiveFrame
  <2>. QED
    BY <2>1, CarriedKept DEF Carried, Live
<1>3. CASE TaskEnd(w)
  <2>1. worker[w].pc # "idle" /\ Job(w) = job /\ job \in Jobs
    BY <1>3, TaskFrame DEF OthersUntouched
  <2>2. Carried(job)
    BY <2>1 DEF Held
  <2>. QED
    BY <2>1, <2>2, CarriedKept
<1>4. ASSUME NEW v \in Workers, v # w,
             TaskEnd(v) \/ \E m \in Messages : Receive(v, m)
      PROVE  worker'[w] = worker[w]
  BY <1>4, TaskFrame, ReceiveFrame DEF OthersUntouched
<1>5. ASSUME NEW i \in Jobs, Handler(i) \/ Abort(i)
      PROVE  worker' = worker
  BY <1>5 DEF Handler, Abort, Refuse, Submit, Enqueue, ProcessSigningSync, Commit
<1>. QED
  BY <1>1, <1>2, <1>3, <1>4, <1>5 DEF Next, vars, TaskEnd, Rotate, Delete, Expire

LEMMA RefinementInvariant == Spec => []RefinementInv
<1>1. Init => RefinementInv
  BY HandlerInit DEF Init, RefinementInv, Handed, Held, EmptyRow, Idle
<1>2. RefinementInv /\ [Next]_vars => RefinementInv'
  BY HandlerStep, HandedStep, HeldStep DEF RefinementInv, HandlerInv
<1>. QED
  BY <1>1, <1>2, PTL DEF Spec

-----------------------------------------------------------------------------
(***************************************************************************)
(* The mapped state, one job at a time.                                    *)
(***************************************************************************)
\* The work of a job in terms of what carries it.
LEMMA WorkValues ==
    ASSUME NEW j
    PROVE  /\ Work(j) = "settled" <=> Settled(j)
           /\ Work(j) = "pending" <=> ~Settled(j) /\ Live(j)
           /\ Work(j) = "none" <=> ~Carried(j)
           /\ Work(j) \in {"none", "pending", "settled"}
BY DEF Work, Carried

\* A job no step touches keeps its work.
LEMMA SameWork ==
    ASSUME NEW j, Ready(j)' <=> Ready(j), results'[j] = results[j],
           (\E w \in Workers : Executing(w, j))' <=> \E w \in Workers : Executing(w, j)
    PROVE  Work(j)' = Work(j)
BY DEF Work, Settled, Live

\* A committed row is an answer, and "queued" is one only for carried work.
LEMMA AnswerStep ==
    ASSUME RefinementInv, NEW i \in Jobs, Handler(i) \/ Abort(i), ~Enqueue(i)
    PROVE  /\ \A k \in Jobs : Work(k)' = Work(k)
           /\ \A k \in Jobs \ {i} : Answer(k)' = Answer(k)
           /\ Answer(i)' = Answer(i)
              \/ /\ Answer(i) = "none"
                 /\ \/ Answer(i)' \in {"refused", "completed", "failed"}
                    \/ Answer(i)' = "queued" /\ Work(i) # "none"
<1>. USE DEF RefinementInv, HandlerInv
<1>1. UNCHANGED <<queue, worker, results>>
  BY DEF Handler, Abort, Refuse, Submit, Enqueue, ProcessSigningSync, Commit
<1>2. \A k \in Jobs : Work(k)' = Work(k)
  BY <1>1 DEF Work, Settled, Live, Ready, Executing, Job
<1>3. \A k \in Jobs \ {i} : api'[k] = api[k] /\ db'[k] = db[k]
  BY DEF Handler, Abort, Refuse, Submit, Enqueue, ProcessSigningSync, Commit, TypeOK
<1>4. \A k \in Jobs \ {i} : Answer(k)' = Answer(k)
  BY <1>3 DEF Answer
<1>5. ASSUME api[i] = "commit", db'[i] = row[i]
      PROVE  /\ Answer(i) = "none"
             /\ \/ Answer(i)' \in {"completed", "failed"}
                \/ Answer(i)' = "queued" /\ Work(i) # "none"
  <2>1. db[i].status = "none" /\ row[i].status \in {"queued", "completed", "failed"}
    BY <1>5 DEF Session
  <2>2. Answer(i) = "none" /\ Answer(i)' = row[i].status
    BY <1>5, <2>1 DEF Answer
  <2>3. row[i].status = "queued" => Work(i) # "none"
    BY <1>5, WorkValues DEF Handed
  <2>. QED
    BY <2>1, <2>2, <2>3
<1>6. ASSUME api[i] \in {"new", "enqueue", "fallback", "commit"}
      PROVE  db[i].status = "none" /\ Answer(i) = "none"
  BY <1>6 DEF Session, Answer
<1>7. CASE Refuse(i)
  BY <1>2, <1>4, <1>6, <1>7 DEF Refuse, Answer, TypeOK
<1>8. CASE Submit(i)
  BY <1>2, <1>4, <1>6, <1>8 DEF Submit, Answer, TypeOK
<1>9. CASE ProcessSigningSync(i)
  BY <1>2, <1>4, <1>6, <1>9 DEF ProcessSigningSync, Answer, TypeOK
<1>10. CASE Commit(i)
  BY <1>2, <1>4, <1>5, <1>10 DEF Commit, TypeOK
<1>11. CASE Abort(i)
  <2>1. CASE db' = db
    <3>1. api'[i] \in {"aborted", "unanswered"} /\ db'[i] = db[i]
      BY <1>11, <2>1 DEF Abort, TypeOK
    <3>2. api'[i] = "aborted" \/ (api[i] = "commit" /\ db'[i] = row[i])
      BY <1>11 DEF Abort, TypeOK
    <3>3. CASE api'[i] = "aborted"
      BY <1>2, <1>4, <1>6, <1>11, <3>1, <3>3 DEF Abort, Answer
    <3>. QED
      BY <1>2, <1>4, <1>5, <3>2, <3>3
  <2>2. CASE db' # db
    <3>1. api[i] = "commit" /\ db'[i] = row[i]
      BY <1>11, <2>2 DEF Abort, TypeOK
    <3>. QED
      BY <1>2, <1>4, <1>5, <3>1
  <2>. QED
    BY <2>1, <2>2
<1>. QED
  BY <1>7, <1>8, <1>9, <1>10, <1>11 DEF Handler

\* The publish may take work on; it answers nothing.
LEMMA EnqueueWork ==
    ASSUME RefinementInv, NEW i \in Jobs, Enqueue(i)
    PROVE  /\ \A k \in Jobs : Answer(k)' = Answer(k)
           /\ \A k \in Jobs \ {i} : Work(k)' = Work(k)
           /\ Answer(i) = "none" /\ Work(i) = "none"
           /\ Work(i)' \in {"none", "pending"}
<1>. USE DEF RefinementInv, HandlerInv
<1>1. /\ api[i] = "enqueue" /\ api'[i] \in {"fallback", "commit"}
      /\ \A k \in Jobs \ {i} : api'[k] = api[k]
      /\ UNCHANGED <<db, worker, results>>
  BY DEF Enqueue, TypeOK
<1>2. db[i].status = "none" /\ ~Touched(i)
  BY <1>1 DEF Session, Untouched
<1>3. \A k \in Jobs : Answer(k)' = Answer(k)
  BY <1>1, <1>2 DEF Answer
<1>4. \A k \in Jobs \ {i} : Ready(k)' <=> Ready(k)
  BY MessageType DEF Enqueue, TypeOK, Ready
<1>5. \A k \in Jobs \ {i} : Work(k)' = Work(k)
  BY <1>1, <1>4, SameWork DEF Executing, Job
<1>6. Answer(i) = "none" /\ ~Carried(i)
  BY <1>1, <1>2 DEF Answer, Touched, Carried, Live, Executing
<1>7. ~Settled(i)'
  BY <1>1, <1>6 DEF Carried, Settled
<1>8. Work(i)' \in {"none", "pending"}
  BY <1>7 DEF Work
<1>. QED
  BY <1>3, <1>5, <1>6, <1>8, WorkValues

\* A step of a worker can settle the job whose task it executes, and no more.
LEMMA WorkerWork ==
    ASSUME TypeOK, [Next]_vars, NEW w \in Workers, NEW job \in Jobs, OthersUntouched(w, job),
           worker[w].pc = "idle" \/ Job(w) = job, Carried(job), results[job] \subseteq results'[job]
    PROVE  /\ \A k \in Jobs : Answer(k)' = Answer(k)
           /\ \A k \in Jobs \ {job} : Work(k)' = Work(k)
           /\ Work(job)' = Work(job) \/ (Work(job) = "pending" /\ Work(job)' = "settled")
<1>1. \A k \in Jobs : Answer(k)' = Answer(k)
  BY DEF OthersUntouched, Answer
<1>2. ASSUME NEW k \in Jobs, k # job
      PROVE  Work(k)' = Work(k)
  <2>1. Ready(k)' <=> Ready(k)
    BY <1>2 DEF OthersUntouched, Ready
  <2>2. ASSUME NEW v \in Workers
        PROVE  Executing(v, k)' <=> Executing(v, k)
    <3>1. CASE v = w
      BY <1>2, <3>1 DEF OthersUntouched, Executing, Job
    <3>2. CASE v # w
      BY <3>2 DEF OthersUntouched, Executing, Job
    <3>. QED
      BY <3>1, <3>2
  <2>3. results'[k] = results[k]
    BY <1>2 DEF OthersUntouched
  <2>. QED
    BY <2>1, <2>2, <2>3, SameWork
<1>3. Carried(job)'
  BY CarriedKept
<1>4. Settled(job) => Settled(job)'
  BY DEF Settled
<1>5. Work(job)' = Work(job) \/ (Work(job) = "pending" /\ Work(job)' = "settled")
  BY <1>3, <1>4 DEF Work, Carried
<1>. QED
  BY <1>1, <1>2, <1>5

-----------------------------------------------------------------------------
LEMMA ServiceInit == Init => Service!Init
<1>. SUFFICES ASSUME Init, NEW j \in Jobs
              PROVE  Answer(j) = "none" /\ Work(j) = "none"
  BY DEF Service!Init
<1>1. HandlerInv
  BY HandlerInit
<1>2. api[j] = "new" /\ db[j].status = "none"
  BY DEF Init, EmptyRow
<1>3. ~Carried(j)
  BY <1>1, <1>2 DEF HandlerInv, Untouched, Touched, Carried, Live, Executing
<1>. QED
  BY <1>2, <1>3, WorkValues DEF Answer

\* Functions over the jobs that differ at most at one of them.
LEMMA OneAnswer ==
    ASSUME NEW i \in Jobs, \A k \in Jobs \ {i} : Answer(k)' = Answer(k)
    PROVE  [j \in Jobs |-> Answer(j)]' =
               [[j \in Jobs |-> Answer(j)] EXCEPT ![i] = Answer(i)']
OBVIOUS

LEMMA OneWork ==
    ASSUME NEW i \in Jobs, \A k \in Jobs \ {i} : Work(k)' = Work(k)
    PROVE  [j \in Jobs |-> Work(j)]' = [[j \in Jobs |-> Work(j)] EXCEPT ![i] = Work(i)']
OBVIOUS

\* The three ways a step of the pipeline shows: not at all, as an answer, as work.
LEMMA MappedStutter ==
    ASSUME \A k \in Jobs : Answer(k)' = Answer(k), \A k \in Jobs : Work(k)' = Work(k)
    PROVE  UNCHANGED Service!vars
BY DEF Service!vars

LEMMA MappedAnswer ==
    ASSUME NEW i \in Jobs, \A k \in Jobs : Work(k)' = Work(k),
           \A k \in Jobs \ {i} : Answer(k)' = Answer(k),
           Answer(i) = "none",
           \/ Answer(i)' \in {"refused", "completed", "failed"}
           \/ Answer(i)' = "queued" /\ Work(i) # "none"
    PROVE  Service!Next
<1>1. [j \in Jobs |-> Answer(j)]' = [[j \in Jobs |-> Answer(j)] EXCEPT ![i] = Answer(i)']
  BY OneAnswer
<1>2. [j \in Jobs |-> Work(j)]' = [j \in Jobs |-> Work(j)]
  OBVIOUS
<1>3. CASE Answer(i)' = "refused"
  BY <1>1, <1>2, <1>3 DEF Service!Next, Service!Refuse
<1>4. CASE Answer(i)' \in {"completed", "failed"}
  <2>1. Service!AnswerInline(i)
    BY <1>1, <1>2, <1>4 DEF Service!AnswerInline
  <2>. QED
    BY <2>1 DEF Service!Next
<1>5. CASE Answer(i)' = "queued" /\ Work(i) # "none"
  BY <1>1, <1>2, <1>5 DEF Service!Next, Service!AnswerQueued
<1>. QED
  BY <1>3, <1>4, <1>5

LEMMA MappedWork ==
    ASSUME NEW i \in Jobs, \A k \in Jobs : Answer(k)' = Answer(k),
           \A k \in Jobs \ {i} : Work(k)' = Work(k),
           \/ Work(i) = "none" /\ Answer(i) = "none" /\ Work(i)' = "pending"
           \/ Work(i) = "pending" /\ Work(i)' = "settled"
    PROVE  Service!Next
<1>1. [j \in Jobs |-> Work(j)]' = [[j \in Jobs |-> Work(j)] EXCEPT ![i] = Work(i)']
  BY OneWork
<1>2. [j \in Jobs |-> Answer(j)]' = [j \in Jobs |-> Answer(j)]
  OBVIOUS
<1>. QED
  BY <1>1, <1>2 DEF Service!Next, Service!TakeOn, Service!Settle

LEMMA ServiceStep == RefinementInv /\ [Next]_vars => [Service!Next]_Service!vars
<1>. SUFFICES ASSUME RefinementInv, [Next]_vars
              PROVE  Service!Next \/ UNCHANGED Service!vars
  OBVIOUS
<1>. USE DEF RefinementInv, HandlerInv
<1>1. ASSUME NEW i \in Jobs, Handler(i) \/ Abort(i), ~Enqueue(i)
      PROVE  Service!Next \/ UNCHANGED Service!vars
  <2>1. CASE Answer(i)' = Answer(i)
    BY <1>1, <2>1, AnswerStep, MappedStutter
  <2>2. CASE Answer(i)' # Answer(i)
    BY <1>1, <2>2, AnswerStep, MappedAnswer
  <2>. QED
    BY <2>1, <2>2
<1>2. ASSUME NEW i \in Jobs, Enqueue(i)
      PROVE  Service!Next \/ UNCHANGED Service!vars
  <2>1. CASE Work(i)' = "none"
    BY <1>2, <2>1, EnqueueWork, MappedStutter
  <2>2. CASE Work(i)' = "pending"
    BY <1>2, <2>2, EnqueueWork, MappedWork
  <2>. QED
    BY <1>2, <2>1, <2>2, EnqueueWork
<1>3. ASSUME NEW w \in Workers, NEW job \in Jobs, OthersUntouched(w, job),
             worker[w].pc = "idle" \/ Job(w) = job, Carried(job),
             results[job] \subseteq results'[job]
      PROVE  Service!Next \/ UNCHANGED Service!vars
  <2>1. CASE Work(job)' = Work(job)
    BY <1>3, <2>1, WorkerWork, MappedStutter
  <2>2. CASE Work(job)' # Work(job)
    BY <1>3, <2>2, WorkerWork, MappedWork
  <2>. QED
    BY <2>1, <2>2
<1>4. ASSUME NEW w \in Workers, NEW m \in Messages, Receive(w, m)
      PROVE  Service!Next \/ UNCHANGED Service!vars
  <2>1. /\ m[1] \in Jobs /\ Ready(m[1])
        /\ worker[w].pc = "idle"
        /\ OthersUntouched(w, m[1])
    BY <1>4, ReceiveFrame
  <2>2. Carried(m[1]) /\ results' = results
    BY <1>4, <2>1 DEF Carried, Live, Receive
  <2>. QED
    BY <1>3, <2>1, <2>2
<1>5. ASSUME NEW w \in Workers, TaskEnd(w)
      PROVE  Service!Next \/ UNCHANGED Service!vars
  <2>1. worker[w].pc # "idle" /\ Job(w) \in Jobs /\ OthersUntouched(w, Job(w))
    BY <1>5, TaskFrame
  <2>2. Carried(Job(w))
    BY <2>1 DEF Held
  <2>3. results[Job(w)] \subseteq results'[Job(w)]
    BY <1>5, <2>1 DEF TaskEnd, TaskStep, Fetch, Sign, Except, Notify, Return, Report, Retry, GiveUp,
                      StoreResult, Ack, SoftTimeLimit, HardTimeLimit, WorkerCrash, TypeOK
  <2>. QED
    BY <1>3, <2>1, <2>2, <2>3
<1>6. ASSUME UNCHANGED <<api, db, queue, worker, results>>
      PROVE  UNCHANGED Service!vars
  <2>1. \A k \in Jobs : Answer(k)' = Answer(k)
    BY <1>6 DEF Answer
  <2>2. \A k \in Jobs : Work(k)' = Work(k)
    BY <1>6 DEF Work, Settled, Live, Ready, Executing, Job
  <2>. QED
    BY <2>1, <2>2, MappedStutter
<1>7. CASE \E c \in Certs : Rotate(c) \/ Delete(c) \/ Expire(c)
  BY <1>6, <1>7 DEF Rotate, Delete, Expire
<1>8. CASE UNCHANGED vars
  BY <1>6, <1>8 DEF vars
<1>. QED
  BY <1>1, <1>2, <1>4, <1>5, <1>7, <1>8 DEF Next, TaskEnd

\* ImplementsService: whatever is lost, redelivered, crashed or retried, a
\* submission has one lasting answer, "queued" is answered only for work that was
\* taken on, and work that was taken on is never lost again before it is settled.
THEOREM RefinementCorrect == Spec => ImplementsService
BY ServiceInit, ServiceStep, RefinementInvariant, PTL
   DEF Spec, ImplementsService, Service!SafeSpec
=============================================================================
