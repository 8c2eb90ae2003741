--------------------------- MODULE WebhookDelivery ---------------------------
(***************************************************************************)
(* send_webhook_task (src/src/queue/tasks.py): what becomes of the events  *)
(* SigningPipeline puts into its outbox.  The task is not acks_late: its   *)
(* message is acknowledged when a worker process begins with it, so that   *)
(* what a dying process was posting is gone.  A failed attempt publishes   *)
(* the task again for a minute later; ready and waiting messages are not   *)
(* told apart, which lets events overtake each other as they do.           *)
(***************************************************************************)
EXTENDS Naturals, FiniteSets

CONSTANTS
    Events,     \* events handed to send_webhook_task.delay
    Workers,    \* child processes that consume the queue "webhooks"
    MaxRetries, \* max_retries of the task
    MaxFaults   \* bound: crashes, time limits and broker faults

ASSUME WorkersAssumption == IsFiniteSet(Workers)
ASSUME RetryAssumption == MaxRetries \in Nat
ASSUME FaultAssumption == MaxFaults \in Nat

VARIABLES
    published, \* events the signing tasks have published
    queue,     \* queue[m]: copies of m = <<event, retries>> on the broker
    worker,    \* worker[w]: the step of the task w is in and its message
    attempts,  \* attempts[e]: posts of e begun
    received,  \* received[e]: posts of e the receiver took
    unheard,   \* unheard[e]: of these, those whose response never came back
    results,   \* results[e]: final states in the result backend
    lost,      \* lost[e]: faults that befell e
    faults

vars == <<published, queue, worker, attempts, received, unheard, results, lost, faults>>

Messages == Events \X (0..MaxRetries)
Idle == [pc |-> "idle", msg |-> <<>>]
Zero == [e \in Events |-> 0]

Init ==
    /\ published = {}
    /\ queue = [m \in Messages |-> 0]
    /\ worker = [w \in Workers |-> Idle]
    /\ attempts = Zero /\ received = Zero /\ unheard = Zero /\ lost = Zero
    /\ results = [e \in Events |-> {}]
    /\ faults = 0

Event(w) == worker[w].msg[1]
Retries(w) == worker[w].msg[2]
Goto(w, pc) == worker' = [worker EXCEPT ![w].pc = pc]
Return(w, state) ==
    /\ worker' = [worker EXCEPT ![w] = Idle]
    /\ results' = [results EXCEPT ![Event(w)] = @ \cup {state}]

\* A fault that concerns event e.
Fault(e) ==
    /\ faults < MaxFaults
    /\ faults' = faults + 1
    /\ lost' = [lost EXCEPT ![e] = @ + 1]

\* A signing task publishes an event (Notify and Report of SigningPipeline).
Publish(e) ==
    /\ e \notin published
    /\ published' = published \cup {e}
    /\ queue' = [queue EXCEPT ![<<e, 0>>] = @ + 1]
    /\ UNCHANGED <<worker, attempts, received, unheard, results, lost, faults>>

\* Variant: the next retry number comes from a counter that is not passed on.
BeginUncounted(w, m) ==
    /\ worker[w].pc = "idle"
    /\ queue[m] > 0
    /\ queue' = [queue EXCEPT ![m] = @ - 1]
    /\ worker' = [worker EXCEPT ![w] = [pc |-> "post", msg |-> <<m[1], 0>>]]
    /\ attempts' = [attempts EXCEPT ![m[1]] = @ + 1]
    /\ UNCHANGED <<published, received, unheard, results, lost, faults>>

\* A process begins with a message: it is acknowledged at this point.
Begin(w, m) ==
    /\ worker[w].pc = "idle"
    /\ queue[m] > 0
    /\ queue' = [queue EXCEPT ![m] = @ - 1]
    /\ worker' = [worker EXCEPT ![w] = [pc |-> "post", msg |-> m]]
    /\ attempts' = [attempts EXCEPT ![m[1]] = @ + 1]
    /\ UNCHANGED <<published, received, unheard, results, lost, faults>>

\* Variant: no return after the post.
PostFallsThrough(w) ==
    /\ worker[w].pc = "post"
    /\ received' = [received EXCEPT ![Event(w)] = @ + 1]
    /\ Goto(w, "except")
    /\ UNCHANGED <<published, queue, attempts, unheard, results, lost, faults>>

\* client.post and raise_for_status: a 2xx answer within the time allowed.
PostSucceeds(w) ==
    /\ worker[w].pc = "post"
    /\ received' = [received EXCEPT ![Event(w)] = @ + 1]
    /\ Return(w, "sent")
    /\ UNCHANGED <<published, queue, attempts, unheard, lost, faults>>

\* Anything else raises: no connection, another status (redirects are not
\* followed), a bad URL, the soft time limit; or an answer that is lost or too
\* late, for the post or for the soft limit, although the receiver took the event.
PostRaises(w) ==
    /\ worker[w].pc = "post"
    /\ \E taken \in BOOLEAN :
        IF taken
        THEN /\ received' = [received EXCEPT ![Event(w)] = @ + 1]
             /\ unheard' = [unheard EXCEPT ![Event(w)] = @ + 1]
        ELSE UNCHANGED <<received, unheard>>
    /\ Goto(w, "except")
    /\ UNCHANGED <<published, queue, attempts, results, lost, faults>>

\* Variant: the exception is raised again instead of a retry.
RetryForgotten(w) ==
    /\ worker[w].pc = "except"
    /\ Retries(w) < MaxRetries
    /\ worker' = [worker EXCEPT ![w] = Idle]
    /\ UNCHANGED <<published, queue, attempts, received, unheard, results, lost, faults>>

\* raise self.retry(exc=exc): one copy more.  The publish may be made twice
\* without a word; it may raise, before or after the broker took the message,
\* on which Celery rejects a message that was acknowledged long ago; or the soft
\* time limit ends the task in its except clause.
Retry(w) ==
    /\ worker[w].pc = "except"
    /\ Retries(w) < MaxRetries
    /\ \E n \in 0..2 :
        /\ queue' = [queue EXCEPT ![<<Event(w), Retries(w) + 1>>] = @ + n]
        /\ \/ n = 1 /\ UNCHANGED <<results, lost, faults>>
           \/ n = 2 /\ Fault(Event(w)) /\ UNCHANGED results
           \/ /\ n < 2 /\ Fault(Event(w))
              /\ \E r \in {"rejected", "raised"} :
                    results' = [results EXCEPT ![Event(w)] = @ \cup {r}]
        /\ worker' = [worker EXCEPT ![w] = Idle]
    /\ UNCHANGED <<published, attempts, received, unheard>>

\* Variant: the slot of the process is not freed.
GiveUpBlocks(w) ==
    /\ worker[w].pc = "except"
    /\ Retries(w) >= MaxRetries
    /\ results' = [results EXCEPT ![Event(w)] = @ \cup {"failed"}]
    /\ Goto(w, "failed")
    /\ UNCHANGED <<published, queue, attempts, received, unheard, lost, faults>>

\* return {"status": "failed"} once the retries are used up.
GiveUp(w) ==
    /\ worker[w].pc = "except"
    /\ Retries(w) >= MaxRetries
    /\ Return(w, "failed")
    /\ UNCHANGED <<published, queue, attempts, received, unheard, lost, faults>>

\* The child is killed at the hard time limit; the pool records a failure.
HardTimeLimit(w) ==
    /\ worker[w].pc # "idle"
    /\ Fault(Event(w))
    /\ Return(w, "killed")
    /\ UNCHANGED <<published, queue, attempts, received, unheard>>

\* The worker dies, perhaps after the receiver took the event: nobody has the
\* message any more, and nobody records it.
WorkerCrash(w) ==
    /\ worker[w].pc # "idle"
    /\ Fault(Event(w))
    /\ worker' = [worker EXCEPT ![w] = Idle]
    /\ \/ UNCHANGED <<received, unheard>>
       \/ /\ worker[w].pc = "post"
          /\ received' = [received EXCEPT ![Event(w)] = @ + 1]
          /\ unheard' = [unheard EXCEPT ![Event(w)] = @ + 1]
    /\ UNCHANGED <<published, queue, attempts, results>>

Next ==
    \/ \E e \in Events : Publish(e)
    \/ \E w \in Workers :
        \/ \E m \in Messages : Begin(w, m)
        \/ PostSucceeds(w) \/ PostRaises(w) \/ Retry(w) \/ GiveUp(w)
        \/ HardTimeLimit(w) \/ WorkerCrash(w)

Spec == Init /\ [][Next]_vars

\* A running task ends (its post has a timeout), and a message that is ready
\* is taken by some worker in the end.
Fairness ==
    /\ \A w \in Workers :
        WF_vars(PostSucceeds(w) \/ PostRaises(w) \/ Retry(w) \/ GiveUp(w))
    /\ \A m \in Messages : SF_vars(\E w \in Workers : Begin(w, m))

FairSpec == Spec /\ Fairness
-----------------------------------------------------------------------------
(***************************************************************************)
(* Properties.                                                             *)
(***************************************************************************)
Live(e) ==
    \/ \E r \in 0..MaxRetries : queue[<<e, r>>] > 0
    \/ \E w \in Workers : worker[w].pc # "idle" /\ Event(w) = e

\* The type invariant.
TypeOK ==
    /\ published \subseteq Events
    /\ queue \in [Messages -> Nat]
    /\ worker \in [Workers -> [pc : {"idle", "post", "except"}, msg : Messages \cup {<<>>}]]
    /\ \A w \in Workers : worker[w].pc # "idle" => worker[w].msg \in Messages
    /\ \A f \in {attempts, received, unheard, lost} : f \in [Events -> Nat]
    /\ results \in [Events -> SUBSET {"sent", "failed", "killed", "rejected", "raised"}]
    /\ faults \in 0..MaxFaults

\* An event nobody will post again reached the receiver with its answer heard,
\* or was posted as often as the task may be retried, or met a crash, a time
\* limit or a failing broker: an event is never dropped for another reason.
NoSilentLoss ==
    \A e \in published : ~Live(e) =>
        \/ "sent" \in results[e] /\ received[e] > 0
        \/ "failed" \in results[e] /\ attempts[e] > MaxRetries
        \/ lost[e] > 0

\* However often posts fail, an event is posted once more than it may be
\* retried; only a retry the broker was handed twice adds to it.
PostBound ==
    \A e \in Events : attempts[e] <= (MaxRetries + 1) + MaxRetries * lost[e]

\* A receiver sees an event a second time only when its answer to an earlier
\* post did not come back or the broker duplicated the retry, so a receiver
\* whose answers arrive need not expect duplicates.
DuplicatesWereUnheard ==
    \A e \in Events : received[e] <= unheard[e] + 1 + lost[e]

\* Every event that is published is settled: posted and heard, given up, or
\* lost to a fault.
EventsSettle == \A e \in Events : e \in published ~> ~Live(e)
=============================================================================
