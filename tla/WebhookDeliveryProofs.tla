----------------------- MODULE WebhookDeliveryProofs -----------------------
(***************************************************************************)
(* Theorems about WebhookDelivery, for every set of events and workers and *)
(* every number of retries and faults.                                     *)
(***************************************************************************)
EXTENDS WebhookDelivery, FiniteSetTheorems, TLAPS

(***************************************************************************)
(* The type invariant.                                                     *)
(***************************************************************************)
Finals == {"sent", "failed", "killed", "rejected", "raised"}

LEMMA BusyWorker ==
    ASSUME TypeOK, NEW w \in Workers, worker[w].pc # "idle"
    PROVE  /\ worker[w].msg \in Messages /\ worker[w].pc \in {"post", "except"}
           /\ Event(w) \in Events /\ Retries(w) \in 0..MaxRetries
           /\ worker[w].msg = <<Event(w), Retries(w)>>
<1>1. worker[w].msg \in Messages
  BY DEF TypeOK
<1>. QED
  BY <1>1 DEF TypeOK, Messages, Event, Retries

LEMMA IdleType == Idle \in [pc : {"idle", "post", "except"}, msg : Messages \cup {<<>>}]
BY DEF Idle

LEMMA TypeInit == Init => TypeOK
BY FaultAssumption, IdleType DEF Init, TypeOK, Zero, Idle

LEMMA FaultType ==
    ASSUME TypeOK, NEW e \in Events, Fault(e)
    PROVE  faults' \in 0..MaxFaults /\ lost' \in [Events -> Nat]
<1>1. lost \in [Events -> Nat] /\ faults \in 0..MaxFaults /\ MaxFaults \in Nat
  BY FaultAssumption DEF TypeOK
<1>. QED
  BY <1>1 DEF Fault

\* A busy worker moves on within the task, or is done with it.
WorkerType(wk) ==
    /\ wk \in [Workers -> [pc : {"idle", "post", "except"}, msg : Messages \cup {<<>>}]]
    /\ \A w \in Workers : wk[w].pc # "idle" => wk[w].msg \in Messages

LEMMA GotoType ==
    ASSUME TypeOK, NEW w \in Workers, worker[w].pc # "idle", Goto(w, "except")
    PROVE  WorkerType(worker')
BY DEF TypeOK, Goto, WorkerType

LEMMA IdleAgain ==
    ASSUME TypeOK, NEW w \in Workers, worker' = [worker EXCEPT ![w] = Idle]
    PROVE  WorkerType(worker')
BY IdleType DEF TypeOK, Idle, WorkerType

LEMMA ReturnType ==
    ASSUME TypeOK, NEW w \in Workers, worker[w].pc # "idle", NEW s \in Finals, Return(w, s)
    PROVE  WorkerType(worker') /\ results' \in [Events -> SUBSET Finals]
<1>1. WorkerType(worker')
  BY IdleAgain DEF Return
<1>2. Event(w) \in Events /\ results \in [Events -> SUBSET Finals]
  BY BusyWorker DEF TypeOK, Finals
<1>. QED
  BY <1>1, <1>2 DEF Return

LEMMA TypeNext == TypeOK /\ [Next]_vars => TypeOK'
<1>. SUFFICES ASSUME TypeOK, [Next]_vars PROVE TypeOK'
  OBVIOUS
<1>. USE DEF TypeOK
<1>0. faults \in Nat /\ MaxFaults \in Nat /\ MaxRetries \in Nat
  BY FaultAssumption, RetryAssumption
<1>1. ASSUME NEW e \in Events, Publish(e) PROVE TypeOK'
  <2>1. <<e, 0>> \in Messages
    BY <1>0 DEF Messages
  <2>. QED
    BY <1>1, <2>1 DEF Publish
<1>2. ASSUME NEW w \in Workers, NEW m \in Messages, Begin(w, m) PROVE TypeOK'
  <2>1. m[1] \in Events
    BY DEF Messages
  <2>2. queue' \in [Messages -> Nat]
    BY <1>2 DEF Begin
  <2>3. attempts' \in [Events -> Nat]
    BY <1>2, <2>1 DEF Begin
  <2>4. worker' \in [Workers -> [pc : {"idle", "post", "except"}, msg : Messages \cup {<<>>}]]
        /\ \A v \in Workers : worker'[v].pc # "idle" => worker'[v].msg \in Messages
    BY <1>2 DEF Begin
  <2>. QED
    BY <1>2, <2>2, <2>3, <2>4 DEF Begin
<1>3. ASSUME NEW w \in Workers, PostSucceeds(w) PROVE TypeOK'
  <2>1. WorkerType(worker') /\ results' \in [Events -> SUBSET Finals] /\ Event(w) \in Events
    BY <1>3, BusyWorker, ReturnType DEF PostSucceeds, Finals
  <2>2. received' \in [Events -> Nat]
    BY <1>3, <2>1 DEF PostSucceeds
  <2>. QED
    BY <1>3, <2>1, <2>2 DEF PostSucceeds, WorkerType, Finals
<1>4. ASSUME NEW w \in Workers, PostRaises(w) PROVE TypeOK'
  <2>1. WorkerType(worker') /\ Event(w) \in Events
    BY <1>4, BusyWorker, GotoType DEF PostRaises
  <2>2. received' \in [Events -> Nat] /\ unheard' \in [Events -> Nat]
    <3>1. CASE UNCHANGED <<received, unheard>>
      BY <3>1
    <3>2. CASE /\ received' = [received EXCEPT ![Event(w)] = @ + 1]
               /\ unheard' = [unheard EXCEPT ![Event(w)] = @ + 1]
      <4>1. received \in [Events -> Nat] /\ unheard \in [Events -> Nat]
        OBVIOUS
      <4>. QED
        BY <4>1, <3>2, <2>1
    <3>. QED
      BY <1>4, <3>1, <3>2 DEF PostRaises
  <2>. QED
    BY <1>4, <2>1, <2>2 DEF PostRaises, WorkerType
<1>5. ASSUME NEW w \in Workers, Retry(w) PROVE TypeOK'
  <2>. DEFINE m == <<Event(w), Retries(w) + 1>>
  <2>1. Event(w) \in Events /\ m \in Messages
    BY <1>5, <1>0, BusyWorker DEF Retry, Messages
  <2>2. queue' \in [Messages -> Nat]
    BY <1>5, <2>1 DEF Retry
  <2>3. worker' = [worker EXCEPT ![w] = Idle]
    BY <1>5 DEF Retry
  <2>4. results' \in [Events -> SUBSET Finals]
    BY <1>5, <2>1 DEF Retry, Finals
  <2>5. lost' \in [Events -> Nat] /\ faults' \in 0..MaxFaults
    <3>1. CASE Fault(Event(w))
      BY <3>1, <2>1, FaultType
    <3>2. CASE UNCHANGED <<lost, faults>>
      BY <3>2
    <3>. QED
      BY <1>5, <3>1, <3>2 DEF Retry
  <2>. QED
    BY <1>5, <2>2, <2>3, <2>4, <2>5, IdleType DEF Retry, Idle, Finals
<1>6. ASSUME NEW w \in Workers, GiveUp(w) PROVE TypeOK'
  BY <1>6, BusyWorker, IdleType DEF GiveUp, Return, Idle
<1>7. ASSUME NEW w \in Workers, HardTimeLimit(w) PROVE TypeOK'
  <2>1. WorkerType(worker') /\ results' \in [Events -> SUBSET Finals]
    BY <1>7, ReturnType DEF HardTimeLimit, Finals
  <2>2. faults' \in 0..MaxFaults /\ lost' \in [Events -> Nat]
    BY <1>7, BusyWorker, FaultType DEF HardTimeLimit
  <2>. QED
    BY <1>7, <2>1, <2>2 DEF HardTimeLimit, WorkerType, Finals
<1>8. ASSUME NEW w \in Workers, WorkerCrash(w) PROVE TypeOK'
  <2>1. WorkerType(worker')
    BY <1>8, IdleAgain DEF WorkerCrash
  <2>2. faults' \in 0..MaxFaults /\ lost' \in [Events -> Nat] /\ Event(w) \in Events
    BY <1>8, BusyWorker, FaultType DEF WorkerCrash
  <2>3. received' \in [Events -> Nat] /\ unheard' \in [Events -> Nat]
    <3>1. CASE UNCHANGED <<received, unheard>>
      BY <3>1
    <3>2. CASE /\ received' = [received EXCEPT ![Event(w)] = @ + 1]
               /\ unheard' = [unheard EXCEPT ![Event(w)] = @ + 1]
      <4>1. received \in [Events -> Nat] /\ unheard \in [Events -> Nat]
        OBVIOUS
      <4>. QED
        BY <4>1, <3>2, <2>2
    <3>. QED
      BY <1>8, <3>1, <3>2 DEF WorkerCrash
  <2>. QED
    BY <1>8, <2>1, <2>2, <2>3 DEF WorkerCrash, WorkerType
<1>9. CASE UNCHANGED vars
  BY <1>9 DEF vars
<1>. QED
  BY <1>1, <1>2, <1>3, <1>4, <1>5, <1>6, <1>7, <1>8, <1>9 DEF Next

\* The type invariant.
THEOREM TypeCorrect == Spec => []TypeOK
<1>. QED
  BY TypeInit, TypeNext, PTL DEF Spec

(***************************************************************************)
(* No event is lost without a cause.                                       *)
(***************************************************************************)
\* A message has been posted as often as it says it was retried, and once more
\* where a worker holds it.
AttemptInv ==
    /\ \A e \in Events, r \in 0..MaxRetries : queue[<<e, r>>] > 0 => attempts[e] >= r
    /\ \A w \in Workers : worker[w].pc # "idle" => attempts[Event(w)] > Retries(w)

Settled(e) ==
    \/ "sent" \in results[e] /\ received[e] > 0
    \/ "failed" \in results[e] /\ attempts[e] > MaxRetries
    \/ lost[e] > 0

\* The strengthening of NoSilentLoss by the numbers of attempts.
DeliveryInv ==
    /\ TypeOK
    /\ AttemptInv
    /\ \A e \in published : Live(e) \/ Settled(e)

LEMMA MessageParts ==
    ASSUME NEW m \in Messages
    PROVE  m[1] \in Events /\ m[2] \in 0..MaxRetries /\ m = <<m[1], m[2]>>
BY DEF Messages

LEMMA AttemptNext == TypeOK /\ AttemptInv /\ [Next]_vars => AttemptInv'
<1>. SUFFICES ASSUME TypeOK, AttemptInv, [Next]_vars PROVE AttemptInv'
  OBVIOUS
<1>0. /\ queue \in [Messages -> Nat] /\ attempts \in [Events -> Nat] /\ MaxRetries \in Nat
      /\ DOMAIN worker = Workers
      /\ \A e \in Events, r \in 0..MaxRetries : <<e, r>> \in Messages
  BY RetryAssumption DEF TypeOK, Messages
<1>. USE DEF AttemptInv, Event, Retries
<1>1. ASSUME NEW e \in Events, Publish(e) PROVE AttemptInv'
  <2>1. ASSUME NEW d \in Events, NEW r \in 0..MaxRetries, queue'[<<d, r>>] > 0
        PROVE  attempts'[d] >= r
    <3>1. CASE r = 0
      BY <3>1, <1>0, <1>1 DEF Publish
    <3>2. CASE r # 0
      <4>1. <<d, r>> # <<e, 0>>
        BY <3>2
      <4>2. queue'[<<d, r>>] = queue[<<d, r>>]
        BY <4>1, <1>0, <1>1 DEF Publish
      <4>. QED
        BY <4>2, <2>1, <1>1 DEF Publish
    <3>. QED
      BY <3>1, <3>2
  <2>. QED
    BY <2>1, <1>1 DEF Publish
<1>2. ASSUME NEW w \in Workers, NEW m \in Messages, Begin(w, m) PROVE AttemptInv'
  <2>1. m[1] \in Events /\ m[2] \in 0..MaxRetries /\ m = <<m[1], m[2]>>
    BY MessageParts
  <2>2. attempts[m[1]] >= m[2] /\ attempts'[m[1]] = attempts[m[1]] + 1
    <3>1. queue[<<m[1], m[2]>>] > 0
      BY <2>1, <1>2 DEF Begin
    <3>. QED
      BY <3>1, <2>1, <1>0, <1>2 DEF Begin
  <2>3. \A d \in Events : attempts'[d] >= attempts[d] /\ attempts[d] \in Nat /\ attempts'[d] \in Nat
    BY <2>1, <1>0, <1>2 DEF Begin
  <2>4. ASSUME NEW d \in Events, NEW r \in 0..MaxRetries, queue'[<<d, r>>] > 0
        PROVE  attempts'[d] >= r
    <3>1. queue[<<d, r>>] > 0
      BY <2>4, <1>0, <1>2 DEF Begin
    <3>. QED
      BY <3>1, <2>3
  <2>5. ASSUME NEW v \in Workers, worker'[v].pc # "idle"
        PROVE  attempts'[worker'[v].msg[1]] > worker'[v].msg[2]
    <3>1. CASE v = w
      <4>1. worker'[v].msg = m
        BY <3>1, <1>0, <1>2 DEF Begin
      <4>. QED
        BY <4>1, <2>1, <2>2, <1>0
    <3>2. CASE v # w
      <4>1. worker'[v] = worker[v]
        BY <3>2, <1>0, <1>2 DEF Begin
      <4>2. Event(v) \in Events /\ Retries(v) \in 0..MaxRetries /\ attempts[Event(v)] > Retries(v)
        BY <4>1, <2>5, BusyWorker
      <4>. QED
        BY <4>1, <4>2, <2>3, <1>0
    <3>. QED
      BY <3>1, <3>2
  <2>. QED
    BY <2>4, <2>5
<1>3. ASSUME NEW w \in Workers,
             PostSucceeds(w) \/ PostRaises(w) \/ GiveUp(w) \/ HardTimeLimit(w) \/ WorkerCrash(w)
      PROVE  AttemptInv'
  <2>1. UNCHANGED <<queue, attempts>>
    BY <1>3 DEF PostSucceeds, PostRaises, GiveUp, HardTimeLimit, WorkerCrash
  <2>2. \/ worker' = [worker EXCEPT ![w] = Idle]
        \/ worker' = [worker EXCEPT ![w].pc = "except"]
    BY <1>3 DEF PostSucceeds, PostRaises, GiveUp, HardTimeLimit, WorkerCrash, Return, Goto
  <2>3. worker[w].pc # "idle"
    BY <1>3 DEF PostSucceeds, PostRaises, GiveUp, HardTimeLimit, WorkerCrash
  <2>4. \A v \in Workers : worker'[v].pc # "idle" =>
            worker[v].pc # "idle" /\ worker'[v].msg = worker[v].msg
    <3>1. CASE worker' = [worker EXCEPT ![w] = Idle]
      BY <3>1, <1>0 DEF Idle
    <3>2. CASE worker' = [worker EXCEPT ![w].pc = "except"]
      <4>1. worker[w] \in [pc : {"idle", "post", "except"}, msg : Messages \cup {<<>>}]
        BY DEF TypeOK
      <4>2. worker'[w].msg = worker[w].msg /\ \A v \in Workers \ {w} : worker'[v] = worker[v]
        BY <3>2, <4>1, <1>0
      <4>. QED
        BY <4>2, <2>3
    <3>. QED
      BY <2>2, <3>1, <3>2
  <2>. QED
    BY <2>1, <2>4
<1>4. ASSUME NEW w \in Workers, Retry(w) PROVE AttemptInv'
  <2>. DEFINE e == Event(w)
              r == Retries(w)
  <2>1. e \in Events /\ r \in 0..MaxRetries /\ r < MaxRetries /\ attempts[e] > r
    BY <1>4, BusyWorker DEF Retry
  <2>2. PICK n \in 0..2 : queue' = [queue EXCEPT ![<<e, r + 1>>] = @ + n]
    BY <1>4 DEF Retry
  <2>3. worker' = [worker EXCEPT ![w] = Idle] /\ attempts' = attempts
    BY <1>4 DEF Retry
  <2>4. ASSUME NEW d \in Events, NEW q \in 0..MaxRetries, queue'[<<d, q>>] > 0
        PROVE  attempts'[d] >= q
    <3>1. CASE d = e /\ q = r + 1
      BY <3>1, <2>1, <2>3, <1>0
    <3>2. CASE ~(d = e /\ q = r + 1)
      <4>1. queue'[<<d, q>>] = queue[<<d, q>>]
        BY <3>2, <2>2, <1>0
      <4>. QED
        BY <4>1, <2>4, <2>3
    <3>. QED
      BY <3>1, <3>2
  <2>5. \A v \in Workers : worker'[v].pc # "idle" => worker'[v] = worker[v]
    BY <2>3, <1>0 DEF Idle
  <2>. QED
    BY <2>3, <2>4, <2>5
<1>5. CASE UNCHANGED vars
  BY <1>5 DEF vars
<1>. QED
  BY <1>1, <1>2, <1>3, <1>4, <1>5 DEF Next

\* Nothing that settles an event is taken back.
LEMMA SettledKept ==
    ASSUME TypeOK, [Next]_vars, NEW d \in Events, Settled(d)
    PROVE  Settled(d)'
<1>0. /\ results \in [Events -> SUBSET Finals] /\ attempts \in [Events -> Nat]
      /\ received \in [Events -> Nat] /\ lost \in [Events -> Nat]
  BY DEF TypeOK, Finals
<1>1. results[d] \subseteq results'[d]
  <2>1. ASSUME NEW w \in Workers, NEW s, Return(w, s) PROVE results[d] \subseteq results'[d]
    BY <2>1, <1>0 DEF Return
  <2>2. ASSUME NEW w \in Workers, Retry(w) PROVE results[d] \subseteq results'[d]
    BY <2>2, <1>0 DEF Retry
  <2>. QED
    BY <2>1, <2>2 DEF Next, vars, Publish, Begin, PostSucceeds, PostRaises, GiveUp,
                      HardTimeLimit, WorkerCrash
<1>2. attempts'[d] >= attempts[d]
  <2>1. ASSUME NEW w \in Workers, NEW m \in Messages, Begin(w, m)
        PROVE  attempts'[d] >= attempts[d]
    BY <2>1, <1>0 DEF Begin
  <2>2. CASE UNCHANGED attempts
    BY <2>2, <1>0
  <2>. QED
    BY <2>1, <2>2 DEF Next, vars, Publish, PostSucceeds, PostRaises, Retry, GiveUp,
                      HardTimeLimit, WorkerCrash
<1>3. received'[d] >= received[d]
  <2>1. ASSUME NEW e, received' = [received EXCEPT ![e] = @ + 1]
        PROVE  received'[d] >= received[d]
    BY <2>1, <1>0
  <2>2. CASE UNCHANGED received
    BY <2>2, <1>0
  <2>3. ASSUME NEW w \in Workers, PostSucceeds(w) \/ PostRaises(w) \/ WorkerCrash(w)
        PROVE  received'[d] >= received[d]
    BY <2>1, <2>2, <2>3 DEF PostSucceeds, PostRaises, WorkerCrash
  <2>. QED
    BY <2>2, <2>3 DEF Next, vars, Publish, Begin, Retry, GiveUp, HardTimeLimit
<1>4. lost'[d] >= lost[d]
  <2>1. ASSUME NEW e, Fault(e) PROVE lost'[d] >= lost[d]
    BY <2>1, <1>0 DEF Fault
  <2>2. CASE UNCHANGED lost
    BY <2>2, <1>0
  <2>3. ASSUME NEW w \in Workers, Retry(w) \/ HardTimeLimit(w) \/ WorkerCrash(w)
        PROVE  lost'[d] >= lost[d]
    BY <2>1, <2>2, <2>3 DEF Retry, HardTimeLimit, WorkerCrash
  <2>. QED
    BY <2>2, <2>3 DEF Next, vars, Publish, Begin, PostSucceeds, PostRaises, GiveUp
<1>5. /\ attempts[d] \in Nat /\ received[d] \in Nat /\ lost[d] \in Nat
      /\ attempts'[d] \in Nat /\ received'[d] \in Nat /\ lost'[d] \in Nat
  <2>1. TypeOK'
    BY TypeNext
  <2>. QED
    BY <2>1, <1>0 DEF TypeOK
<1>. QED
  BY <1>1, <1>2, <1>3, <1>4, <1>5, RetryAssumption DEF Settled

\* An event is live on through every step but the end of its task.
LEMMA LiveOrSettled ==
    ASSUME TypeOK, AttemptInv, [Next]_vars, NEW d \in Events, Live(d)
    PROVE  Live(d)' \/ Settled(d)'
<1>0. /\ queue \in [Messages -> Nat] /\ DOMAIN worker = Workers
      /\ \A e \in Events, r \in 0..MaxRetries : <<e, r>> \in Messages
      /\ results \in [Events -> SUBSET Finals] /\ MaxRetries \in Nat
      /\ received \in [Events -> Nat] /\ lost \in [Events -> Nat] /\ attempts \in [Events -> Nat]
  BY RetryAssumption DEF TypeOK, Messages, Finals
\* What waits on the broker waits on, or a worker begins with it.
<1>1. ASSUME NEW r \in 0..MaxRetries, queue[<<d, r>>] > 0
      PROVE  Live(d)'
  <2>1. ASSUME NEW w \in Workers, NEW m \in Messages, Begin(w, m) PROVE Live(d)'
    <3>1. CASE m = <<d, r>>
      <4>1. worker'[w].pc # "idle" /\ worker'[w].msg[1] = d
        BY <3>1, <2>1, <1>0 DEF Begin
      <4>. QED
        BY <4>1 DEF Live, Event
    <3>2. CASE m # <<d, r>>
      <4>1. queue'[<<d, r>>] = queue[<<d, r>>]
        BY <3>2, <2>1, <1>0 DEF Begin
      <4>. QED
        BY <4>1, <1>1 DEF Live
    <3>. QED
      BY <3>1, <3>2
  <2>2. ASSUME NEW e \in Events, Publish(e) PROVE queue'[<<d, r>>] > 0
    BY <2>2, <1>0, <1>1 DEF Publish
  <2>3. ASSUME NEW w \in Workers, Retry(w) PROVE queue'[<<d, r>>] > 0
    <3>1. PICK n \in 0..2 : queue' = [queue EXCEPT ![<<Event(w), Retries(w) + 1>>] = @ + n]
      BY <2>3 DEF Retry
    <3>. QED
      BY <3>1, <1>0, <1>1
  <2>4. CASE UNCHANGED queue
    BY <2>4, <1>1 DEF Live
  <2>. QED
    BY <2>1, <2>2, <2>3, <2>4 DEF Live, Next, vars, PostSucceeds, PostRaises, GiveUp,
                                  HardTimeLimit, WorkerCrash
\* What a worker works on it works on, hands to the broker, or ends.
<1>2. ASSUME NEW v \in Workers, worker[v].pc # "idle", Event(v) = d
      PROVE  Live(d)' \/ Settled(d)'
  <2>0. Retries(v) \in 0..MaxRetries /\ attempts[d] > Retries(v)
    BY <1>2, BusyWorker DEF AttemptInv
  <2>1. CASE worker'[v] = worker[v]
    BY <2>1, <1>2 DEF Live, Event
  <2>2. ASSUME NEW e, Fault(e), e = d PROVE Settled(d)'
    <3>1. lost'[d] = lost[d] + 1
      BY <2>2, <1>0 DEF Fault
    <3>. QED
      BY <3>1, <1>0 DEF Settled
  <2>3. CASE PostSucceeds(v)
    <3>1. "sent" \in results'[d] /\ received'[d] = received[d] + 1
      BY <2>3, <1>2, <1>0 DEF PostSucceeds, Return
    <3>. QED
      BY <3>1, <1>0 DEF Settled
  <2>4. CASE PostRaises(v)
    <3>1. worker'[v].pc = "except" /\ worker'[v].msg = worker[v].msg
      <4>1. worker[v] \in [pc : {"idle", "post", "except"}, msg : Messages \cup {<<>>}]
        BY DEF TypeOK
      <4>. QED
        BY <4>1, <2>4, <1>0 DEF PostRaises, Goto
    <3>. QED
      BY <3>1, <1>2 DEF Live, Event
  <2>5. CASE Retry(v)
    <3>1. CASE Fault(d)
      BY <3>1, <2>2
    <3>2. CASE ~Fault(d)
      <4>1. queue' = [queue EXCEPT ![<<d, Retries(v) + 1>>] = @ + 1]
        BY <2>5, <3>2, <1>2 DEF Retry
      <4>2. Retries(v) + 1 \in 0..MaxRetries
        BY <2>5, <2>0, <1>0 DEF Retry
      <4>3. queue'[<<d, Retries(v) + 1>>] > 0
        BY <4>1, <4>2, <1>0
      <4>. QED
        BY <4>2, <4>3 DEF Live
    <3>. QED
      BY <3>1, <3>2
  <2>6. CASE GiveUp(v)
    <3>1. "failed" \in results'[d] /\ attempts'[d] = attempts[d] /\ Retries(v) >= MaxRetries
      BY <2>6, <1>2, <1>0 DEF GiveUp, Return
    <3>. QED
      BY <3>1, <2>0, <1>0 DEF Settled
  <2>7. CASE HardTimeLimit(v) \/ WorkerCrash(v)
    BY <2>7, <2>2, <1>2 DEF HardTimeLimit, WorkerCrash
  <2>8. ASSUME NEW w \in Workers,
               \/ \E m \in Messages : Begin(w, m)
               \/ w # v /\ (PostSucceeds(w) \/ PostRaises(w) \/ Retry(w) \/ GiveUp(w)
                               \/ HardTimeLimit(w) \/ WorkerCrash(w))
        PROVE  worker'[v] = worker[v]
    <3>1. w # v
      BY <2>8, <1>2 DEF Begin
    <3>. QED
      BY <3>1, <2>8, <1>0 DEF Begin, PostSucceeds, PostRaises, Retry, GiveUp, HardTimeLimit,
                              WorkerCrash, Return, Goto
  <2>9. ASSUME NEW e \in Events, Publish(e) PROVE worker'[v] = worker[v]
    BY <2>9 DEF Publish
  <2>10. CASE UNCHANGED vars
    BY <2>10, <2>1 DEF vars
  <2>. QED
    BY <2>1, <2>3, <2>4, <2>5, <2>6, <2>7, <2>8, <2>9, <2>10 DEF Next
<1>. QED
  BY <1>1, <1>2 DEF Live

LEMMA DeliveryInit == Init => DeliveryInv
<1>. SUFFICES ASSUME Init PROVE DeliveryInv
  OBVIOUS
<1>1. AttemptInv
  BY RetryAssumption DEF Init, AttemptInv, Messages, Idle, Zero
<1>2. published = {}
  BY DEF Init
<1>. QED
  BY <1>1, <1>2, TypeInit DEF DeliveryInv

LEMMA DeliveryNext == DeliveryInv /\ [Next]_vars => DeliveryInv'
<1>. SUFFICES ASSUME DeliveryInv, [Next]_vars PROVE DeliveryInv'
  OBVIOUS
<1>0. TypeOK /\ AttemptInv /\ TypeOK' /\ AttemptInv'
  BY TypeNext, AttemptNext DEF DeliveryInv
<1>1. ASSUME NEW d \in published' PROVE Live(d)' \/ Settled(d)'
  <2>1. CASE d \in published
    <3>1. d \in Events /\ (Live(d) \/ Settled(d))
      BY <2>1, <1>0 DEF DeliveryInv, TypeOK
    <3>. QED
      BY <3>1, <1>0, LiveOrSettled, SettledKept
  <2>2. CASE d \notin published
    <3>1. PICK e \in Events : Publish(e) /\ d = e
      BY <1>1, <2>2 DEF Next, vars, Publish, Begin, PostSucceeds, PostRaises, Retry, GiveUp,
                        HardTimeLimit, WorkerCrash
    <3>2. <<d, 0>> \in Messages /\ queue \in [Messages -> Nat] /\ 0 \in 0..MaxRetries
      BY <3>1, <1>0, RetryAssumption DEF TypeOK, Messages
    <3>3. queue'[<<d, 0>>] > 0
      BY <3>1, <3>2 DEF Publish
    <3>. QED
      BY <3>2, <3>3 DEF Live
  <2>. QED
    BY <2>1, <2>2
<1>. QED
  BY <1>0, <1>1 DEF DeliveryInv

\* Whatever posts fail, workers die or retries miss the broker: an event nobody
\* will post again was received and heard, or posted as often as it may be
\* retried, or met one of those faults.
THEOREM NoSilentLossCorrect == Spec => []NoSilentLoss
<1>1. DeliveryInv => NoSilentLoss
  BY DEF DeliveryInv, NoSilentLoss, Settled
<1>. QED
  BY <1>1, DeliveryInit, DeliveryNext, PTL DEF Spec

-----------------------------------------------------------------------------
(***************************************************************************)
(* Counting posts.                                                         *)
(***************************************************************************)
\* g[x] things for each x, as elements of a set: their number is the sum of g.
Heap(g) == UNION {{<<x, i>> : i \in 1..g[x]} : x \in DOMAIN g}
Size(g) == Cardinality(Heap(g))

LEMMA HeapMembers ==
    ASSUME NEW S, NEW g \in [S -> Nat], NEW c
    PROVE  c \in Heap(g) <=> \E x \in S : \E i \in 1..g[x] : c = <<x, i>>
<1>. DEFINE Of(x) == {<<x, i>> : i \in 1..g[x]}
            All == {Of(x) : x \in DOMAIN g}
<1>1. c \in Heap(g) <=> \E T \in All : c \in T
  BY Zenon DEF Heap
<1>2. (\E T \in All : c \in T) <=> \E x \in DOMAIN g : c \in Of(x)
  BY Zenon
<1>3. DOMAIN g = S
  OBVIOUS
<1>. QED
  BY <1>1, <1>2, <1>3, Zenon

LEMMA HeapFinite ==
    ASSUME NEW S, IsFiniteSet(S), NEW g \in [S -> Nat]
    PROVE  IsFiniteSet(Heap(g)) /\ Size(g) \in Nat
<1>. DEFINE Of(x) == {<<x, i>> : i \in 1..g[x]}
            All == {Of(x) : x \in S}
            f == [x \in S |-> Of(x)]
<1>1. ASSUME NEW x \in S PROVE IsFiniteSet(Of(x))
  <2>1. IsFiniteSet(1..g[x])
    BY FS_Interval
  <2>2. IsFiniteSet({x})
    BY FS_Singleton
  <2>3. IsFiniteSet({x} \X (1..g[x]))
    BY <2>1, <2>2, FS_Product
  <2>4. Of(x) \subseteq {x} \X (1..g[x])
    OBVIOUS
  <2>. QED
    BY <2>3, <2>4, FS_Subset
<1>2. IsFiniteSet(All)
  <2>1. f \in Surjection(S, All)
    <3>1. f \in [S -> All]
      OBVIOUS
    <3>2. \A T \in All : \E x \in S : f[x] = T
      BY Zenon
    <3>. HIDE DEF f, All
    <3>. QED
      BY <3>1, <3>2 DEF Surjection
  <2>. QED
    BY <2>1, FS_Surjection
<1>3. IsFiniteSet(UNION All)
  <2>1. \A T \in All : IsFiniteSet(T)
    BY <1>1
  <2>. QED
    BY <1>2, <2>1, FS_UNION
<1>4. Heap(g) = UNION All
  BY DEF Heap
<1>. QED
  BY <1>3, <1>4, FS_CardinalityType DEF Size

LEMMA HeapEmpty ==
    ASSUME NEW S, NEW g \in [S -> Nat], \A x \in S : g[x] = 0
    PROVE  Size(g) = 0
<1>1. Heap(g) = {}
  <2>. SUFFICES ASSUME NEW c \in Heap(g) PROVE FALSE
    OBVIOUS
  <2>1. \A y : y \in Heap(g) <=> \E x \in S : \E i \in 1..g[x] : y = <<x, i>>
    BY HeapMembers
  <2>2. PICK x \in S : \E i \in 1..g[x] : c = <<x, i>>
    BY <2>1, Zenon
  <2>. QED
    BY <2>2
<1>. QED
  BY <1>1, FS_EmptySet DEF Size

\* k more things for x are k things more.
LEMMA HeapGrows ==
    ASSUME NEW S, IsFiniteSet(S), NEW g \in [S -> Nat], NEW f \in [S -> Nat],
           NEW x \in S, NEW k \in Nat, f[x] = g[x] + k,
           \A y \in S : y # x => f[y] = g[y]
    PROVE  Size(f) = Size(g) + k
<1>. DEFINE New == {<<x, i>> : i \in g[x] + 1..g[x] + k}
<1>1. IsFiniteSet(New) /\ Cardinality(New) = k
  <2>1. IsFiniteSet(1..k) /\ Cardinality(1..k) = k
    BY FS_Interval
  <2>. DEFINE b == [i \in 1..k |-> <<x, g[x] + i>>]
  <2>2. b \in [1..k -> New]
    <3>. SUFFICES ASSUME NEW i \in 1..k PROVE <<x, g[x] + i>> \in New
      OBVIOUS
    <3>1. g[x] + i \in g[x] + 1..g[x] + k
      OBVIOUS
    <3>. QED
      BY <3>1
  <2>3. \A i, j \in 1..k : b[i] = b[j] => i = j
    <3>. SUFFICES ASSUME NEW i \in 1..k, NEW j \in 1..k, <<x, g[x] + i>> = <<x, g[x] + j>>
                  PROVE i = j
      OBVIOUS
    <3>1. g[x] + i = g[x] + j /\ g[x] \in Nat
      OBVIOUS
    <3>. QED
      BY <3>1
  <2>4. \A c \in New : \E i \in 1..k : b[i] = c
    <3>. SUFFICES ASSUME NEW i \in g[x] + 1..g[x] + k
                  PROVE  \E j \in 1..k : b[j] = <<x, i>>
      OBVIOUS
    <3>1. i - g[x] \in 1..k /\ g[x] + (i - g[x]) = i
      OBVIOUS
    <3>2. b[i - g[x]] = <<x, i>>
      BY <3>1
    <3>. QED
      BY <3>1, <3>2
  <2>. HIDE DEF b, New
  <2>5. b \in Bijection(1..k, New)
    BY <2>2, <2>3, <2>4 DEF Bijection, Injection, Surjection, IsInjective
  <2>6. ExistsBijection(1..k, New)
    BY <2>5 DEF ExistsBijection
  <2>. QED
    BY <2>1, <2>6, FS_Bijection
<1>2. \A c : c \in Heap(f) <=> c \in Heap(g) \/ c \in New
  <2>. TAKE c
  <2>1. \A y : y \in Heap(f) <=> \E z \in S : \E i \in 1..f[z] : y = <<z, i>>
    BY HeapMembers
  <2>2. \A y : y \in Heap(g) <=> \E z \in S : \E i \in 1..g[z] : y = <<z, i>>
    BY HeapMembers
  <2>3. ASSUME NEW z \in S, NEW i
        PROVE  i \in 1..f[z] <=> i \in 1..g[z] \/ (z = x /\ i \in g[x] + 1..g[x] + k)
    <3>1. g[z] \in Nat /\ g[x] \in Nat
      OBVIOUS
    <3>2. CASE z = x BY <3>1, <3>2
    <3>3. CASE z # x BY <3>1, <3>3
    <3>. QED BY <3>2, <3>3
  <2>4. (\E z \in S : \E i \in 1..f[z] : c = <<z, i>>)
          <=> (\E z \in S : \E i \in 1..g[z] : c = <<z, i>>) \/ c \in New
    BY <2>3
  <2>. QED
    BY <2>1, <2>2, <2>4, Zenon
<1>3. Heap(g) \cap New = {}
  <2>. SUFFICES ASSUME NEW c \in Heap(g), c \in New PROVE FALSE
    OBVIOUS
  <2>1. \A y : y \in Heap(g) <=> \E z \in S : \E i \in 1..g[z] : y = <<z, i>>
    BY HeapMembers
  <2>2. PICK z \in S : \E i \in 1..g[z] : c = <<z, i>>
    BY <2>1, Zenon
  <2>3. g[x] \in Nat
    OBVIOUS
  <2>. QED
    BY <2>2, <2>3
<1>. HIDE DEF New
<1>4. Heap(f) = Heap(g) \cup New
  BY <1>2
<1>5. IsFiniteSet(Heap(g)) /\ Size(g) \in Nat
  BY HeapFinite
<1>6. Cardinality(Heap(g) \cup New) = Cardinality(Heap(g)) + Cardinality(New)
                                      - Cardinality(Heap(g) \cap New)
  BY <1>1, <1>5, FS_Union
<1>7. Cardinality(Heap(g) \cap New) = 0
  BY <1>3, FS_EmptySet
<1>8. Cardinality(Heap(f)) = Cardinality(Heap(g)) + k - 0 /\ Cardinality(Heap(g)) \in Nat
  BY <1>1, <1>4, <1>5, <1>6, <1>7 DEF Size
<1>. QED
  BY <1>8 DEF Size

-----------------------------------------------------------------------------
(***************************************************************************)
(* What is still to come of an event: copies that wait and workers that    *)
(* send it, and the posts these may still begin.                           *)
(***************************************************************************)
Turns == 0..MaxRetries

BusyIn(wk, w, e) == wk[w].pc # "idle" /\ wk[w].msg[1] = e
Busy(w, e) == BusyIn(worker, w, e)

WaitingIn(q, e) == [r \in Turns |-> q[<<e, r>>]]
PostsIn(q, e) == [r \in Turns |-> q[<<e, r>>] * (MaxRetries + 1 - r)]
SendingIn(wk, e) == [w \in Workers |-> IF BusyIn(wk, w, e) THEN 1 ELSE 0]
HeldIn(wk, e) == [w \in Workers |-> IF BusyIn(wk, w, e) THEN MaxRetries - wk[w].msg[2] ELSE 0]

Waiting(e) == Size(WaitingIn(queue, e))
Sending(e) == Size(SendingIn(worker, e))
PostsWaiting(e) == Size(PostsIn(queue, e))
PostsHeld(e) == Size(HeldIn(worker, e))

\* Before it is published there is nothing of an event.
Unpublished(e) ==
    /\ attempts[e] = 0 /\ received[e] = 0
    /\ \A r \in Turns : queue[<<e, r>>] = 0
    /\ \A w \in Workers : ~Busy(w, e)

\* DuplicatesWereUnheard and PostBound, with what is still to come.
CountInv ==
    \A e \in Events :
        /\ e \notin published => Unpublished(e)
        /\ Waiting(e) + Sending(e) + received[e] <= unheard[e] + 1 + lost[e]
        /\ attempts[e] + PostsWaiting(e) + PostsHeld(e)
             <= (MaxRetries + 1) + MaxRetries * lost[e]

LEMMA TurnsFinite == IsFiniteSet(Turns)
BY RetryAssumption, FS_Interval DEF Turns

LEMMA TurnsGrow ==
    ASSUME NEW g \in [Turns -> Nat], NEW f \in [Turns -> Nat], NEW r \in Turns, NEW k \in Nat,
           f[r] = g[r] + k, \A s \in Turns : s # r => f[s] = g[s]
    PROVE  Size(f) = Size(g) + k
BY TurnsFinite, HeapGrows

LEMMA TurnsType ==
    /\ \A r \in Turns : MaxRetries + 1 - r \in Nat
    /\ \A q \in [Messages -> Nat], e \in Events, r \in Turns :
        <<e, r>> \in Messages /\ q[<<e, r>>] \in Nat
BY RetryAssumption DEF Turns, Messages

LEMMA QueueCounts ==
    ASSUME NEW q \in [Messages -> Nat], NEW e \in Events
    PROVE  /\ WaitingIn(q, e) \in [Turns -> Nat] /\ PostsIn(q, e) \in [Turns -> Nat]
           /\ Size(WaitingIn(q, e)) \in Nat /\ Size(PostsIn(q, e)) \in Nat
<1>1. \A a, b \in Nat : a * b \in Nat
  OBVIOUS
<1>2. WaitingIn(q, e) \in [Turns -> Nat] /\ PostsIn(q, e) \in [Turns -> Nat]
  BY <1>1, TurnsType DEF WaitingIn, PostsIn
<1>. QED
  BY <1>2, TurnsFinite, HeapFinite

LEMMA WorkerCounts ==
    ASSUME NEW wk, WorkerType(wk), NEW e \in Events
    PROVE  /\ SendingIn(wk, e) \in [Workers -> Nat] /\ HeldIn(wk, e) \in [Workers -> Nat]
           /\ Size(SendingIn(wk, e)) \in Nat /\ Size(HeldIn(wk, e)) \in Nat
<1>1. \A w \in Workers : BusyIn(wk, w, e) => MaxRetries - wk[w].msg[2] \in Nat
  BY RetryAssumption DEF WorkerType, BusyIn, Messages
<1>2. SendingIn(wk, e) \in [Workers -> Nat] /\ HeldIn(wk, e) \in [Workers -> Nat]
  BY <1>1 DEF SendingIn, HeldIn
<1>. QED
  BY <1>2, WorkersAssumption, HeapFinite

\* k copies more of <<e, r>>.
LEMMA CopiesMore ==
    ASSUME NEW q \in [Messages -> Nat], NEW p \in [Messages -> Nat],
           NEW e \in Events, NEW r \in Turns, NEW k \in Nat,
           p[<<e, r>>] = q[<<e, r>>] + k,
           \A s \in Turns : s # r => p[<<e, s>>] = q[<<e, s>>]
    PROVE  /\ Size(WaitingIn(p, e)) = Size(WaitingIn(q, e)) + k
           /\ Size(PostsIn(p, e)) = Size(PostsIn(q, e)) + k * (MaxRetries + 1 - r)
<1>1. /\ WaitingIn(q, e) \in [Turns -> Nat] /\ PostsIn(q, e) \in [Turns -> Nat]
      /\ WaitingIn(p, e) \in [Turns -> Nat] /\ PostsIn(p, e) \in [Turns -> Nat]
  BY QueueCounts
<1>2. MaxRetries + 1 - r \in Nat /\ q[<<e, r>>] \in Nat
  BY TurnsType
<1>3. \A a, b, c \in Nat : (a + b) * c = a * c + b * c /\ b * c \in Nat
  OBVIOUS
<1>4. PICK n \in Nat : n = k * (MaxRetries + 1 - r)
  BY <1>2, <1>3
<1>5. (q[<<e, r>>] + k) * (MaxRetries + 1 - r) = q[<<e, r>>] * (MaxRetries + 1 - r) + n
  BY <1>2, <1>3, <1>4
<1>6. /\ PostsIn(p, e)[r] = PostsIn(q, e)[r] + n
      /\ \A s \in Turns : s # r => PostsIn(p, e)[s] = PostsIn(q, e)[s]
  BY <1>5 DEF PostsIn
<1>7. /\ WaitingIn(p, e)[r] = WaitingIn(q, e)[r] + k
      /\ \A s \in Turns : s # r => WaitingIn(p, e)[s] = WaitingIn(q, e)[s]
  BY DEF WaitingIn
<1>8. Size(WaitingIn(p, e)) = Size(WaitingIn(q, e)) + k
  BY <1>1, <1>7, TurnsGrow
<1>9. Size(PostsIn(p, e)) = Size(PostsIn(q, e)) + n
  BY <1>1, <1>6, TurnsGrow
<1>. QED
  BY <1>4, <1>8, <1>9

\* A worker takes <<e, r>>, or lets go of it.
LEMMA WorkerTakes ==
    ASSUME NEW wk, WorkerType(wk), NEW wl, WorkerType(wl), NEW e \in Events, NEW w \in Workers,
           ~BusyIn(wk, w, e), BusyIn(wl, w, e),
           \A v \in Workers \ {w} : wl[v] = wk[v]
    PROVE  /\ Size(SendingIn(wl, e)) = Size(SendingIn(wk, e)) + 1
           /\ Size(HeldIn(wl, e)) = Size(HeldIn(wk, e)) + (MaxRetries - wl[w].msg[2])
           /\ MaxRetries - wl[w].msg[2] \in Nat
<1>1. /\ SendingIn(wk, e) \in [Workers -> Nat] /\ HeldIn(wk, e) \in [Workers -> Nat]
      /\ SendingIn(wl, e) \in [Workers -> Nat] /\ HeldIn(wl, e) \in [Workers -> Nat]
  BY WorkerCounts
<1>2. SendingIn(wl, e)[w] = 1 /\ SendingIn(wk, e)[w] = 0
      /\ HeldIn(wl, e)[w] = MaxRetries - wl[w].msg[2] /\ HeldIn(wk, e)[w] = 0
  BY DEF SendingIn, HeldIn
<1>3. \A v \in Workers : v # w =>
        SendingIn(wl, e)[v] = SendingIn(wk, e)[v] /\ HeldIn(wl, e)[v] = HeldIn(wk, e)[v]
  BY DEF SendingIn, HeldIn, BusyIn
<1>4. MaxRetries - wl[w].msg[2] \in Nat
  BY <1>1, <1>2
<1>5. SendingIn(wl, e)[w] = SendingIn(wk, e)[w] + 1
      /\ HeldIn(wl, e)[w] = HeldIn(wk, e)[w] + (MaxRetries - wl[w].msg[2])
  BY <1>2, <1>4
<1>6. Size(SendingIn(wl, e)) = Size(SendingIn(wk, e)) + 1
  BY <1>1, <1>3, <1>5, WorkersAssumption, HeapGrows
<1>7. Size(HeldIn(wl, e)) = Size(HeldIn(wk, e)) + (MaxRetries - wl[w].msg[2])
  BY <1>1, <1>3, <1>4, <1>5, WorkersAssumption, HeapGrows
<1>. QED
  BY <1>4, <1>6, <1>7

CountsNat(e) ==
    /\ Waiting(e) \in Nat /\ Sending(e) \in Nat /\ PostsWaiting(e) \in Nat /\ PostsHeld(e) \in Nat
    /\ attempts[e] \in Nat /\ received[e] \in Nat /\ unheard[e] \in Nat /\ lost[e] \in Nat

LEMMA CountsTyped ==
    ASSUME NEW e \in Events
    PROVE  TypeOK => CountsNat(e)
<1>. SUFFICES ASSUME TypeOK PROVE CountsNat(e)
  OBVIOUS
<1>1. WorkerType(worker) /\ queue \in [Messages -> Nat]
  BY DEF TypeOK, WorkerType
<1>. QED
  BY <1>1, QueueCounts, WorkerCounts DEF TypeOK, CountsNat, Waiting, Sending, PostsWaiting, PostsHeld

LEMMA NothingCounted ==
    ASSUME TypeOK, NEW e \in Events, Unpublished(e)
    PROVE  Waiting(e) = 0 /\ Sending(e) = 0 /\ PostsWaiting(e) = 0 /\ PostsHeld(e) = 0
<1>1. WorkerType(worker) /\ queue \in [Messages -> Nat]
  BY DEF TypeOK, WorkerType
<1>2. /\ WaitingIn(queue, e) \in [Turns -> Nat] /\ PostsIn(queue, e) \in [Turns -> Nat]
      /\ SendingIn(worker, e) \in [Workers -> Nat] /\ HeldIn(worker, e) \in [Workers -> Nat]
  BY <1>1, QueueCounts, WorkerCounts
<1>3. \A r \in Turns : WaitingIn(queue, e)[r] = 0 /\ PostsIn(queue, e)[r] = 0
  <2>1. \A x \in Nat : 0 * x = 0
    OBVIOUS
  <2>. QED
    BY <2>1, TurnsType DEF Unpublished, WaitingIn, PostsIn
<1>4. \A w \in Workers : SendingIn(worker, e)[w] = 0 /\ HeldIn(worker, e)[w] = 0
  BY DEF Unpublished, Busy, SendingIn, HeldIn
<1>5. Size(WaitingIn(queue, e)) = 0 /\ Size(PostsIn(queue, e)) = 0
  BY <1>2, <1>3, HeapEmpty
<1>6. Size(SendingIn(worker, e)) = 0 /\ Size(HeldIn(worker, e)) = 0
  BY <1>2, <1>4, HeapEmpty
<1>. QED
  BY <1>5, <1>6 DEF Waiting, PostsWaiting, Sending, PostsHeld

-----------------------------------------------------------------------------
(***************************************************************************)
(* What a step does to one event.                                          *)
(***************************************************************************)
SameQueue(e) == \A r \in Turns : queue'[<<e, r>>] = queue[<<e, r>>]
SameWorkers(e) == \A w \in Workers :
    (Busy(w, e)' <=> Busy(w, e)) /\ (Busy(w, e) => worker'[w].msg = worker[w].msg)

LEMMA SameQueueCounts ==
    ASSUME NEW e \in Events, SameQueue(e)
    PROVE  Waiting(e)' = Waiting(e) /\ PostsWaiting(e)' = PostsWaiting(e)
BY DEF SameQueue, WaitingIn, PostsIn, Waiting, PostsWaiting

LEMMA SameWorkersCounts ==
    ASSUME NEW e \in Events, SameWorkers(e)
    PROVE  Sending(e)' = Sending(e) /\ PostsHeld(e)' = PostsHeld(e)
BY DEF SameWorkers, SendingIn, HeldIn, Busy, Sending, PostsHeld

\* The steps of a worker within its task.
TaskStep(w) ==
    PostSucceeds(w) \/ PostRaises(w) \/ Retry(w) \/ GiveUp(w) \/ HardTimeLimit(w) \/ WorkerCrash(w)

Still(e) ==
    /\ SameQueue(e) /\ SameWorkers(e)
    /\ attempts'[e] = attempts[e] /\ received'[e] = received[e]
    /\ unheard'[e] = unheard[e] /\ lost'[e] = lost[e]

\* A step of one worker leaves the messages of the others alone.
LEMMA OneWorker ==
    ASSUME TypeOK, NEW w \in Workers, TaskStep(w)
    PROVE  /\ worker[w].pc # "idle" /\ DOMAIN worker' = Workers
           /\ \A v \in Workers \ {w} : worker'[v] = worker[v]
           /\ \/ ~PostRaises(w) /\ worker'[w].pc = "idle"
              \/ PostRaises(w) /\ worker'[w].pc = "except" /\ worker'[w].msg = worker[w].msg
<1>1. DOMAIN worker = Workers
      /\ worker[w] \in [pc : {"idle", "post", "except"}, msg : Messages \cup {<<>>}]
  BY DEF TypeOK
<1>2. worker[w].pc # "idle"
  BY DEF TaskStep, PostSucceeds, PostRaises, Retry, GiveUp, HardTimeLimit, WorkerCrash
<1>3. CASE PostRaises(w)
  <2>1. worker' = [worker EXCEPT ![w].pc = "except"]
    BY <1>3 DEF PostRaises, Goto
  <2>. QED
    BY <1>1, <1>2, <1>3, <2>1
<1>4. CASE ~PostRaises(w)
  <2>1. worker' = [worker EXCEPT ![w] = Idle]
    BY <1>4 DEF TaskStep, PostSucceeds, Retry, GiveUp, HardTimeLimit, WorkerCrash, Return
  <2>. QED
    BY <1>1, <1>2, <1>4, <2>1 DEF Idle
<1>. QED
  BY <1>3, <1>4

LEMMA StepsOfEvent ==
    ASSUME TypeOK, [Next]_vars, NEW e \in Events
    PROVE  \/ Still(e)
           \/ Publish(e)
           \/ \E w \in Workers, r \in Turns : Begin(w, <<e, r>>)
           \/ \E w \in Workers : Busy(w, e) /\ TaskStep(w)
<1>0. /\ DOMAIN queue = Messages /\ DOMAIN worker = Workers
      /\ \A f \in {attempts, received, unheard, lost} : f \in [Events -> Nat]
      /\ \A d \in Events, r \in Turns : <<d, r>> \in Messages
  BY DEF TypeOK, Messages, Turns
<1>1. ASSUME NEW d \in Events, d # e, Publish(d) PROVE Still(e)
  BY <1>0, <1>1 DEF Publish, Still, SameQueue, SameWorkers, Busy, BusyIn
<1>2. ASSUME NEW w \in Workers, NEW m \in Messages, m[1] # e, Begin(w, m) PROVE Still(e)
  <2>1. SameQueue(e)
    BY <1>0, <1>2 DEF Begin, SameQueue
  <2>2. worker' = [worker EXCEPT ![w] = [pc |-> "post", msg |-> m]] /\ worker[w].pc = "idle"
    BY <1>2 DEF Begin
  <2>3. SameWorkers(e)
    BY <1>0, <1>2, <2>2 DEF SameWorkers, Busy, BusyIn
  <2>. QED
    BY <1>0, <1>2, <2>1, <2>3 DEF Begin, Still
<1>3. ASSUME NEW w \in Workers, ~Busy(w, e), TaskStep(w) PROVE Still(e)
  <2>1. Event(w) # e /\ Event(w) \in Events
    BY <1>3, OneWorker, BusyWorker DEF Busy, BusyIn, Event
  <2>2. SameWorkers(e)
    BY <1>3, OneWorker DEF SameWorkers, Busy, BusyIn
  <2>3. SameQueue(e)
    <3>1. CASE UNCHANGED queue
      BY <3>1 DEF SameQueue
    <3>2. CASE Retry(w)
      BY <1>0, <2>1, <3>2 DEF Retry, SameQueue
    <3>. QED
      BY <1>3, <3>1, <3>2 DEF TaskStep, PostSucceeds, PostRaises, GiveUp, HardTimeLimit, WorkerCrash
  <2>4. attempts' = attempts
    BY <1>3 DEF TaskStep, PostSucceeds, PostRaises, Retry, GiveUp, HardTimeLimit, WorkerCrash
  <2>5. lost'[e] = lost[e]
    BY <1>0, <1>3, <2>1 DEF TaskStep, PostSucceeds, PostRaises, Retry, GiveUp, HardTimeLimit,
                            WorkerCrash, Fault
  <2>6. received'[e] = received[e] /\ unheard'[e] = unheard[e]
    BY <1>0, <1>3, <2>1 DEF TaskStep, PostSucceeds, PostRaises, Retry, GiveUp, HardTimeLimit,
                            WorkerCrash
  <2>. QED
    BY <2>2, <2>3, <2>4, <2>5, <2>6 DEF Still
<1>4. CASE UNCHANGED vars
  BY <1>4 DEF vars, Still, SameQueue, SameWorkers, Busy, BusyIn
<1>5. ASSUME NEW w \in Workers, NEW m \in Messages, m[1] = e, Begin(w, m)
      PROVE  \E r \in Turns : Begin(w, <<e, r>>)
  BY <1>5, MessageParts DEF Turns
<1>. QED
  BY <1>1, <1>2, <1>3, <1>4, <1>5 DEF Next, TaskStep

LEMMA HeardArith ==
    ASSUME NEW c \in Nat, NEW s \in Nat, NEW r \in Nat, NEW u \in Nat, NEW l \in Nat,
           NEW c1 \in Nat, NEW s1 \in Nat, NEW r1 \in Nat, NEW u1 \in Nat, NEW l1 \in Nat,
           c + s + r <= u + 1 + l, (c1 + s1 + r1) + (u + l) <= (c + s + r) + (u1 + l1)
    PROVE  c1 + s1 + r1 <= u1 + 1 + l1
OBVIOUS

LEMMA PostArith ==
    ASSUME NEW a \in Nat, NEW p \in Nat, NEW h \in Nat, NEW l \in Nat, NEW m \in Nat,
           NEW a1 \in Nat, NEW p1 \in Nat, NEW h1 \in Nat, NEW l1 \in Nat,
           a + p + h <= (m + 1) + m * l,
           \/ l1 \in {l, l + 1} /\ a1 + p1 + h1 <= a + p + h
           \/ l1 = l + 1 /\ a1 + p1 + h1 <= (a + p + h) + m
    PROVE  a1 + p1 + h1 <= (m + 1) + m * l1
<1>1. PICK f \in Nat : f = m * l
  OBVIOUS
<1>2. m * (l + 1) = f + m
  BY <1>1
<1>. QED
  BY <1>1, <1>2

\* What the step of a worker does to the counts of its event.
HeardStep(e) ==
    (Waiting(e)' + Sending(e)' + received'[e]) + (unheard[e] + lost[e])
      <= (Waiting(e) + Sending(e) + received[e]) + (unheard'[e] + lost'[e])
PostStep(e) ==
    \/ /\ lost'[e] \in {lost[e], lost[e] + 1}
       /\ attempts'[e] + PostsWaiting(e)' + PostsHeld(e)' <= attempts[e] + PostsWaiting(e) + PostsHeld(e)
    \/ /\ lost'[e] = lost[e] + 1
       /\ attempts'[e] + PostsWaiting(e)' + PostsHeld(e)'
             <= (attempts[e] + PostsWaiting(e) + PostsHeld(e)) + MaxRetries

\* The worker is free again; it was counted once, and held the posts it could
\* still have asked for.
LEMMA WorkerFreed ==
    ASSUME TypeOK, TypeOK', NEW e \in Events, NEW w \in Workers, Busy(w, e), TaskStep(w),
           ~PostRaises(w)
    PROVE  /\ Sending(e) = Sending(e)' + 1
           /\ PostsHeld(e) = PostsHeld(e)' + (MaxRetries - Retries(w))
           /\ MaxRetries - Retries(w) \in Nat
<1>1. WorkerType(worker) /\ WorkerType(worker')
  BY DEF TypeOK, WorkerType
<1>2. ~BusyIn(worker', w, e) /\ BusyIn(worker, w, e) /\ \A v \in Workers \ {w} : worker[v] = worker'[v]
  BY OneWorker DEF Busy, BusyIn
<1>3. /\ Size(SendingIn(worker, e)) = Size(SendingIn(worker', e)) + 1
      /\ Size(HeldIn(worker, e)) = Size(HeldIn(worker', e)) + (MaxRetries - worker[w].msg[2])
      /\ MaxRetries - worker[w].msg[2] \in Nat
  BY <1>1, <1>2, WorkerTakes
<1>. QED
  BY <1>3 DEF Sending, PostsHeld, Retries

LEMMA OwnStep ==
    ASSUME TypeOK, TypeOK', NEW e \in Events, NEW w \in Workers, Busy(w, e), TaskStep(w)
    PROVE  HeardStep(e) /\ PostStep(e)
<1>1. /\ Event(w) = e /\ Retries(w) \in Turns /\ worker[w].pc # "idle"
      /\ \A f \in {attempts, received, unheard, lost} : f \in [Events -> Nat]
  BY BusyWorker DEF Busy, BusyIn, Event, Turns, TypeOK
<1>2. PICK c, s, p, h, a, r, u, l \in Nat :
        /\ c = Waiting(e) /\ s = Sending(e) /\ p = PostsWaiting(e) /\ h = PostsHeld(e)
        /\ a = attempts[e] /\ r = received[e] /\ u = unheard[e] /\ l = lost[e]
  BY CountsTyped DEF CountsNat
<1>3. PICK c1, s1, p1, h1, a1, r1, u1, l1 \in Nat :
        /\ c1 = Waiting(e)' /\ s1 = Sending(e)' /\ p1 = PostsWaiting(e)' /\ h1 = PostsHeld(e)'
        /\ a1 = attempts'[e] /\ r1 = received'[e] /\ u1 = unheard'[e] /\ l1 = lost'[e]
  <2>1. (TypeOK => CountsNat(e))'
    BY CountsTyped, PTL
  <2>. QED
    BY <2>1 DEF CountsNat
<1>4. SUFFICES /\ (c1 + s1 + r1) + (u + l) <= (c + s + r) + (u1 + l1)
               /\ \/ l1 \in {l, l + 1} /\ a1 + p1 + h1 <= a + p + h
                  \/ l1 = l + 1 /\ a1 + p1 + h1 <= (a + p + h) + MaxRetries
  BY <1>2, <1>3 DEF HeardStep, PostStep
<1>5. a1 = a
  BY <1>2, <1>3 DEF TaskStep, PostSucceeds, PostRaises, Retry, GiveUp, HardTimeLimit, WorkerCrash
<1>6. UNCHANGED queue => c1 = c /\ p1 = p
  BY <1>2, <1>3, SameQueueCounts DEF SameQueue
<1>7. ASSUME Fault(e) PROVE l1 = l + 1
  BY <1>1, <1>2, <1>3, <1>7 DEF Fault
<1>8. ASSUME received' = [received EXCEPT ![e] = @ + 1] PROVE r1 = r + 1
  BY <1>1, <1>2, <1>3, <1>8
<1>9. ASSUME unheard' = [unheard EXCEPT ![e] = @ + 1] PROVE u1 = u + 1
  BY <1>1, <1>2, <1>3, <1>9
<1>10. CASE PostRaises(w)
  <2>1. s1 = s /\ h1 = h
    <3>1. SameWorkers(e)
      BY <1>10, OneWorker DEF SameWorkers, Busy, BusyIn, PostRaises
    <3>. QED
      BY <1>2, <1>3, <3>1, SameWorkersCounts
  <2>2. c1 = c /\ p1 = p /\ l1 = l
    BY <1>2, <1>3, <1>6, <1>10 DEF PostRaises
  <2>3. (r1 = r /\ u1 = u) \/ (r1 = r + 1 /\ u1 = u + 1)
    BY <1>1, <1>2, <1>3, <1>8, <1>9, <1>10 DEF PostRaises
  <2>. QED
    BY <1>5, <2>1, <2>2, <2>3
<1>11. CASE ~PostRaises(w)
  <2>1. PICK d \in Nat : d = MaxRetries - Retries(w)
    BY <1>11, WorkerFreed
  <2>2. s = s1 + 1 /\ h = h1 + d
    BY <1>2, <1>3, <1>11, <2>1, WorkerFreed
  <2>3. CASE PostSucceeds(w)
    <3>1. r1 = r + 1 /\ u1 = u /\ l1 = l /\ c1 = c /\ p1 = p
      BY <1>1, <1>2, <1>3, <1>6, <1>8, <2>3 DEF PostSucceeds
    <3>. QED
      BY <1>5, <2>2, <3>1
  <2>4. CASE GiveUp(w) \/ HardTimeLimit(w)
    <3>1. r1 = r /\ u1 = u /\ (l1 = l \/ l1 = l + 1) /\ c1 = c /\ p1 = p
      BY <1>1, <1>2, <1>3, <1>6, <1>7, <2>4 DEF GiveUp, HardTimeLimit
    <3>. QED
      BY <1>5, <2>2, <3>1
  <2>5. CASE WorkerCrash(w)
    <3>1. l1 = l + 1 /\ c1 = c /\ p1 = p
      BY <1>1, <1>6, <1>7, <2>5 DEF WorkerCrash
    <3>2. (r1 = r /\ u1 = u) \/ (r1 = r + 1 /\ u1 = u + 1)
      BY <1>1, <1>2, <1>3, <1>8, <1>9, <2>5 DEF WorkerCrash
    <3>. QED
      BY <1>5, <2>2, <3>1, <3>2
  <2>6. CASE Retry(w)
    <3>0. PICK n \in 0..2 :
            /\ queue' = [queue EXCEPT ![<<e, Retries(w) + 1>>] = @ + n]
            /\ Fault(e) \/ (n = 1 /\ lost' = lost)
      BY <1>1, <2>6 DEF Retry
    <3>1. l1 = l + 1 \/ (n = 1 /\ l1 = l)
      BY <1>2, <1>3, <1>7, <3>0
    <3>2. r1 = r /\ u1 = u
      BY <1>2, <1>3, <2>6 DEF Retry
    <3>3. c1 = c + n /\ p1 = p + n * d
      <4>1. Retries(w) + 1 \in Turns /\ MaxRetries + 1 - (Retries(w) + 1) = d
        BY <1>1, <2>1, <2>6, RetryAssumption DEF Retry, Turns
      <4>2. queue \in [Messages -> Nat] /\ queue' \in [Messages -> Nat]
            /\ \A i \in Turns : <<e, i>> \in Messages
        BY TurnsType DEF TypeOK
      <4>3. queue'[<<e, Retries(w) + 1>>] = queue[<<e, Retries(w) + 1>>] + n
            /\ \A i \in Turns : i # Retries(w) + 1 => queue'[<<e, i>>] = queue[<<e, i>>]
        BY <3>0, <4>1, <4>2
      <4>4. n \in Nat
        OBVIOUS
      <4>5. /\ Size(WaitingIn(queue', e)) = Size(WaitingIn(queue, e)) + n
            /\ Size(PostsIn(queue', e)) = Size(PostsIn(queue, e)) + n * (MaxRetries + 1 - (Retries(w) + 1))
        BY <4>1, <4>2, <4>3, <4>4, CopiesMore
      <4>. QED
        BY <1>2, <1>3, <4>1, <4>5 DEF Waiting, PostsWaiting
    <3>4. d <= MaxRetries
      BY <1>1, <2>1, RetryAssumption DEF Turns
    <3>5. CASE n = 0
      <4>1. n * d = 0 BY <3>5
      <4>. QED BY <1>5, <2>2, <3>1, <3>2, <3>3, <3>5, <4>1
    <3>6. CASE n = 1
      <4>1. n * d = d BY <3>6
      <4>. QED BY <1>5, <2>2, <3>1, <3>2, <3>3, <3>6, <4>1
    <3>7. CASE n = 2
      <4>1. n * d = d + d BY <3>7
      <4>. QED BY <1>5, <2>2, <3>1, <3>2, <3>3, <3>4, <3>7, <4>1, RetryAssumption
    <3>. QED
      BY <3>5, <3>6, <3>7
  <2>. QED
    BY <1>11, <2>3, <2>4, <2>5, <2>6 DEF TaskStep
<1>. QED
  BY <1>10, <1>11

\* A worker that begins with a copy holds what the copy stood for, less the post
\* it begins.
LEMMA BeginCounts ==
    ASSUME TypeOK, TypeOK', NEW e \in Events, NEW w \in Workers, NEW i \in Turns,
           Begin(w, <<e, i>>)
    PROVE  HeardStep(e) /\ PostStep(e)
<1>1. \A f \in {attempts, received, unheard, lost} : f \in [Events -> Nat]
  BY DEF TypeOK
<1>2. PICK c, s, p, h, a, r, u, l \in Nat :
        /\ c = Waiting(e) /\ s = Sending(e) /\ p = PostsWaiting(e) /\ h = PostsHeld(e)
        /\ a = attempts[e] /\ r = received[e] /\ u = unheard[e] /\ l = lost[e]
  BY CountsTyped DEF CountsNat
<1>3. PICK c1, s1, p1, h1, a1, r1, u1, l1 \in Nat :
        /\ c1 = Waiting(e)' /\ s1 = Sending(e)' /\ p1 = PostsWaiting(e)' /\ h1 = PostsHeld(e)'
        /\ a1 = attempts'[e] /\ r1 = received'[e] /\ u1 = unheard'[e] /\ l1 = lost'[e]
  <2>1. (TypeOK => CountsNat(e))'
    BY CountsTyped, PTL
  <2>. QED
    BY <2>1 DEF CountsNat
<1>4. SUFFICES /\ (c1 + s1 + r1) + (u + l) <= (c + s + r) + (u1 + l1)
               /\ l1 = l /\ a1 + p1 + h1 <= a + p + h
  BY <1>2, <1>3 DEF HeardStep, PostStep
<1>5. a1 = a + 1 /\ r1 = r /\ u1 = u /\ l1 = l
  BY <1>1, <1>2, <1>3 DEF Begin
<1>6. s1 = s + 1 /\ h1 = h + (MaxRetries - i) /\ MaxRetries - i \in Nat
  <2>1. WorkerType(worker) /\ WorkerType(worker') /\ DOMAIN worker = Workers
    BY DEF TypeOK, WorkerType
  <2>2. worker' = [worker EXCEPT ![w] = [pc |-> "post", msg |-> <<e, i>>]] /\ worker[w].pc = "idle"
    BY DEF Begin
  <2>3. ~BusyIn(worker, w, e) /\ BusyIn(worker', w, e) /\ worker'[w].msg[2] = i
        /\ \A v \in Workers \ {w} : worker'[v] = worker[v]
    BY <2>1, <2>2 DEF BusyIn
  <2>4. /\ Size(SendingIn(worker', e)) = Size(SendingIn(worker, e)) + 1
        /\ Size(HeldIn(worker', e)) = Size(HeldIn(worker, e)) + (MaxRetries - worker'[w].msg[2])
        /\ MaxRetries - worker'[w].msg[2] \in Nat
    BY <2>1, <2>3, WorkerTakes
  <2>. QED
    BY <1>2, <1>3, <2>3, <2>4 DEF Sending, PostsHeld
<1>7. c = c1 + 1 /\ p = p1 + (MaxRetries + 1 - i)
  <2>1. queue \in [Messages -> Nat] /\ queue' \in [Messages -> Nat]
        /\ \A j \in Turns : <<e, j>> \in Messages
    BY TurnsType DEF TypeOK
  <2>2. queue[<<e, i>>] = queue'[<<e, i>>] + 1
        /\ \A j \in Turns : j # i => queue[<<e, j>>] = queue'[<<e, j>>]
    BY <2>1 DEF Begin
  <2>3. /\ Size(WaitingIn(queue, e)) = Size(WaitingIn(queue', e)) + 1
        /\ Size(PostsIn(queue, e)) = Size(PostsIn(queue', e)) + 1 * (MaxRetries + 1 - i)
    BY <2>1, <2>2, CopiesMore
  <2>. QED
    <3>1. MaxRetries + 1 - i \in Nat /\ \A x \in Nat : 1 * x = x
      BY TurnsType
    <3>. QED
      BY <1>2, <1>3, <2>3, <3>1 DEF Waiting, PostsWaiting
<1>. QED
  BY <1>5, <1>6, <1>7, RetryAssumption DEF Turns

LEMMA CountInit == Init => CountInv
<1>. SUFFICES ASSUME Init, NEW e \in Events
              PROVE  /\ Unpublished(e)
                     /\ Waiting(e) + Sending(e) + received[e] <= unheard[e] + 1 + lost[e]
                     /\ attempts[e] + PostsWaiting(e) + PostsHeld(e)
                          <= (MaxRetries + 1) + MaxRetries * lost[e]
  BY DEF CountInv
<1>1. TypeOK
  BY TypeInit
<1>2. Unpublished(e)
  BY DEF Init, Unpublished, Zero, Idle, Busy, BusyIn, Turns, Messages
<1>3. Waiting(e) = 0 /\ Sending(e) = 0 /\ PostsWaiting(e) = 0 /\ PostsHeld(e) = 0
  BY <1>1, <1>2, NothingCounted
<1>4. attempts[e] = 0 /\ received[e] = 0 /\ unheard[e] = 0 /\ lost[e] = 0
  BY DEF Init, Zero
<1>. QED
  BY <1>2, <1>3, <1>4, RetryAssumption

LEMMA CountNext == TypeOK /\ TypeOK' /\ CountInv /\ [Next]_vars => CountInv'
<1>. SUFFICES ASSUME TypeOK, TypeOK', CountInv, [Next]_vars, NEW e \in Events
              PROVE  /\ e \notin published' => Unpublished(e)'
                     /\ Waiting(e)' + Sending(e)' + received'[e] <= unheard'[e] + 1 + lost'[e]
                     /\ attempts'[e] + PostsWaiting(e)' + PostsHeld(e)'
                          <= (MaxRetries + 1) + MaxRetries * lost'[e]
  BY DEF CountInv
<1>1. /\ e \notin published => Unpublished(e)
      /\ Waiting(e) + Sending(e) + received[e] <= unheard[e] + 1 + lost[e]
      /\ attempts[e] + PostsWaiting(e) + PostsHeld(e) <= (MaxRetries + 1) + MaxRetries * lost[e]
  BY DEF CountInv
<1>2. CountsNat(e) /\ CountsNat(e)'
  <2>1. (TypeOK => CountsNat(e))'
    BY CountsTyped, PTL
  <2>. QED
    BY <2>1, CountsTyped
<1>3. published \subseteq published'
  BY DEF Next, vars, Publish, Begin, PostSucceeds, PostRaises, Retry, GiveUp, HardTimeLimit,
         WorkerCrash
<1>4. CASE Still(e)
  <2>1. Waiting(e)' = Waiting(e) /\ Sending(e)' = Sending(e) /\ PostsWaiting(e)' = PostsWaiting(e)
        /\ PostsHeld(e)' = PostsHeld(e)
    BY <1>4, SameQueueCounts, SameWorkersCounts DEF Still
  <2>2. Unpublished(e) => Unpublished(e)'
    BY <1>4 DEF Still, Unpublished, SameQueue, SameWorkers
  <2>. QED
    BY <1>1, <1>3, <1>4, <2>1, <2>2 DEF Still
<1>5. ASSUME HeardStep(e), PostStep(e)
      PROVE  /\ Waiting(e)' + Sending(e)' + received'[e] <= unheard'[e] + 1 + lost'[e]
             /\ attempts'[e] + PostsWaiting(e)' + PostsHeld(e)'
                  <= (MaxRetries + 1) + MaxRetries * lost'[e]
  <2>1. PICK c, s, p, h, a, r, u, l \in Nat :
          /\ c = Waiting(e) /\ s = Sending(e) /\ p = PostsWaiting(e) /\ h = PostsHeld(e)
          /\ a = attempts[e] /\ r = received[e] /\ u = unheard[e] /\ l = lost[e]
    BY <1>2 DEF CountsNat
  <2>2. PICK c1, s1, p1, h1, a1, r1, u1, l1 \in Nat :
          /\ c1 = Waiting(e)' /\ s1 = Sending(e)' /\ p1 = PostsWaiting(e)' /\ h1 = PostsHeld(e)'
          /\ a1 = attempts'[e] /\ r1 = received'[e] /\ u1 = unheard'[e] /\ l1 = lost'[e]
    BY <1>2 DEF CountsNat
  <2>3. c + s + r <= u + 1 + l /\ (c1 + s1 + r1) + (u + l) <= (c + s + r) + (u1 + l1)
    BY <1>1, <1>5, <2>1, <2>2 DEF HeardStep
  <2>4. /\ a + p + h <= (MaxRetries + 1) + MaxRetries * l
        /\ \/ l1 \in {l, l + 1} /\ a1 + p1 + h1 <= a + p + h
           \/ l1 = l + 1 /\ a1 + p1 + h1 <= (a + p + h) + MaxRetries
    BY <1>1, <1>5, <2>1, <2>2 DEF PostStep
  <2>5. c1 + s1 + r1 <= u1 + 1 + l1
    BY <2>3, HeardArith
  <2>6. a1 + p1 + h1 <= (MaxRetries + 1) + MaxRetries * l1
    BY <2>4, PostArith, RetryAssumption
  <2>. QED
    BY <2>2, <2>5, <2>6
<1>6. ASSUME NEW w \in Workers, NEW r \in Turns, Begin(w, <<e, r>>)
      PROVE  HeardStep(e) /\ PostStep(e) /\ e \in published
  <2>1. queue[<<e, r>>] > 0
    BY <1>6 DEF Begin
  <2>2. e \in published
    BY <1>1, <2>1 DEF Unpublished
  <2>. QED
    BY <1>6, <2>2, BeginCounts
<1>7. ASSUME NEW w \in Workers, Busy(w, e), TaskStep(w)
      PROVE  HeardStep(e) /\ PostStep(e) /\ e \in published
  BY <1>1, <1>7, OwnStep DEF Unpublished
<1>8. CASE Publish(e)
  <2>1. Unpublished(e) /\ e \in published'
    BY <1>1, <1>8 DEF Publish
  <2>2. Waiting(e) = 0 /\ Sending(e) = 0 /\ PostsWaiting(e) = 0 /\ PostsHeld(e) = 0
    BY <2>1, NothingCounted
  <2>3. UNCHANGED <<worker, attempts, received, unheard, lost>>
    BY <1>8 DEF Publish
  <2>4. Sending(e)' = 0 /\ PostsHeld(e)' = 0
    BY <2>2, <2>3 DEF Sending, PostsHeld
  <2>5. Waiting(e)' = 1 /\ PostsWaiting(e)' = MaxRetries + 1
    <3>0. 0 \in Turns
      BY RetryAssumption DEF Turns
    <3>1. queue \in [Messages -> Nat] /\ queue' \in [Messages -> Nat]
          /\ \A j \in Turns : <<e, j>> \in Messages
      BY TurnsType DEF TypeOK
    <3>2. queue'[<<e, 0>>] = queue[<<e, 0>>] + 1
          /\ \A j \in Turns : j # 0 => queue'[<<e, j>>] = queue[<<e, j>>]
      BY <1>8, <3>0, <3>1 DEF Publish
    <3>3. /\ Size(WaitingIn(queue', e)) = Size(WaitingIn(queue, e)) + 1
          /\ Size(PostsIn(queue', e)) = Size(PostsIn(queue, e)) + 1 * (MaxRetries + 1 - 0)
      BY <3>0, <3>1, <3>2, CopiesMore
    <3>4. 1 * (MaxRetries + 1 - 0) = MaxRetries + 1
      BY RetryAssumption
    <3>. QED
      BY <2>2, <3>3, <3>4, RetryAssumption DEF Waiting, PostsWaiting
  <2>6. attempts'[e] = 0 /\ received'[e] = 0
    BY <2>1, <2>3 DEF Unpublished
  <2>7. \A m, l \in Nat : m + 1 <= (m + 1) + m * l
    <3>1. \A m, l \in Nat : m * l \in Nat
      OBVIOUS
    <3>2. \A a, b \in Nat : a <= a + b
      OBVIOUS
    <3>. QED
      BY <3>1, <3>2
  <2>8. MaxRetries + 1 <= (MaxRetries + 1) + MaxRetries * lost'[e]
    BY <1>2, <2>7, RetryAssumption DEF CountsNat
  <2>9. 0 + (MaxRetries + 1) + 0 = MaxRetries + 1
    BY RetryAssumption
  <2>10. attempts'[e] + PostsWaiting(e)' + PostsHeld(e)' <= (MaxRetries + 1) + MaxRetries * lost'[e]
    BY <2>4, <2>5, <2>6, <2>8, <2>9, Zenon
  <2>11. Waiting(e)' + Sending(e)' + received'[e] <= unheard'[e] + 1 + lost'[e]
    BY <1>2, <2>4, <2>5, <2>6 DEF CountsNat
  <2>. QED
    BY <2>1, <2>10, <2>11
<1>. QED
  BY <1>3, <1>4, <1>5, <1>6, <1>7, <1>8, StepsOfEvent

LEMMA CountInvariant == Spec => [](TypeOK /\ CountInv)
<1>1. Init => TypeOK /\ CountInv
  BY TypeInit, CountInit
<1>2. (TypeOK /\ CountInv) /\ [Next]_vars => (TypeOK /\ CountInv)'
  BY TypeNext, CountNext
<1>. QED
  BY <1>1, <1>2, PTL DEF Spec

\* DuplicatesWereUnheard: of all posts a receiver took, all but one had their
\* answer lost or came of a fault, for any number of retries and workers.
THEOREM DuplicatesCorrect == Spec => []DuplicatesWereUnheard
<1>1. TypeOK /\ CountInv => DuplicatesWereUnheard
  <2>. SUFFICES ASSUME TypeOK, CountInv, NEW e \in Events
                PROVE  received[e] <= unheard[e] + 1 + lost[e]
    BY DEF DuplicatesWereUnheard
  <2>1. CountsNat(e) /\ Waiting(e) + Sending(e) + received[e] <= unheard[e] + 1 + lost[e]
    BY CountsTyped DEF CountInv
  <2>. QED
    BY <2>1 DEF CountsNat
<1>. QED
  BY <1>1, CountInvariant, PTL

\* PostBound: an event is posted at most once more than it may be retried, and
\* as often again as it may be retried for each fault that befell it.
THEOREM PostsBounded == Spec => []PostBound
<1>1. TypeOK /\ CountInv => PostBound
  <2>. SUFFICES ASSUME TypeOK, CountInv, NEW e \in Events
                PROVE  attempts[e] <= (MaxRetries + 1) + MaxRetries * lost[e]
    BY DEF PostBound
  <2>1. CountsNat(e) /\ attempts[e] + PostsWaiting(e) + PostsHeld(e)
                          <= (MaxRetries + 1) + MaxRetries * lost[e]
    BY CountsTyped DEF CountInv
  <2>2. PICK b \in Nat : b = (MaxRetries + 1) + MaxRetries * lost[e]
    <3>1. MaxRetries \in Nat /\ lost[e] \in Nat
      BY <2>1, RetryAssumption DEF CountsNat
    <3>2. \A m, l \in Nat : (m + 1) + m * l \in Nat
      OBVIOUS
    <3>. QED
      BY <3>1, <3>2
  <2>. QED
    BY <2>1, <2>2 DEF CountsNat
<1>. QED
  BY <1>1, CountInvariant, PTL
=============================================================================
