-------------------------- MODULE SnowServiceProofs --------------------------
(***************************************************************************)
(* Theorems about SnowService, for any back end, any number of processes,  *)
(* names, requests, failing calls and seconds.                             *)
(***************************************************************************)
EXTENDS SnowService, TLAPS

(***************************************************************************)
(* The types.  What a client may ask is left open, but for its op and name *)
(* (RequestsAssumption); what the store may hold is not: certificates and  *)
(* keys, any of the one with any of the other.                             *)
(***************************************************************************)
Certificates == [kind : {"cert"}, pair : Nat, from : Nat, until : Nat]
PrivateKeys == [kind : {"key"}, pair : Nat]
Entries == [cert : Certificates \cup {Garbage}, key : PrivateKeys \cup {Blank}, name : Names]

Rotating(r) == r.op = "rotate" /\ r.kind \in Kinds /\ (r.kind = "mismatched" => r.pair \in Nat)

Pcs == {"idle", "look", "store", "create", "engine", "commit", "list", "rotate", "delete"}
Answers ==
    [status : {0, 200, 500, 503},
     body : {"none", "signed", "valid", "invalid", "details", "unhandled"}]

Process(x) ==
    [pc : Pcs, req : {x.req}, id : Nat, new : Entries \cup {NoEntry}, got : Entries \cup {NoEntry},
     second : BOOLEAN, verdict : {"none", "signed", "valid", "invalid"}, at : Nat,
     failed : BOOLEAN, raced : BOOLEAN, answer : Answers]

Looking == {"sign", "details"} \cup Verifications

Shape(x) ==
    /\ x \in Process(x)
    /\ x.req.name \in Names
    /\ x.pc # "idle" => x.id # 0
    /\ x.second => x.req.op = "sign"
    /\ x.pc \notin {"idle", "engine", "commit"} => x.got = NoEntry
    /\ x.pc \in {"look", "engine"} => x.req.op \in Looking
    /\ x.pc = "engine" => x.got \in Entries
    /\ x.pc = "store" => x.req.op = "sign"
    /\ x.pc = "create" => x.req.op \in {"sign", "rotate"}
    /\ x.pc \in {"store", "create"} => x.new \in Entries /\ x.new.name = x.req.name
    /\ x.pc = "commit" =>
        /\ x.got \in Entries
        /\ \/ x.req.op = "sign" /\ x.verdict = "signed"
           \/ x.req.op \in Verifications /\ x.verdict \in {"valid", "invalid"}
    /\ x.pc = "rotate" => x.req.op = "rotate" /\ Rotating(x.req)
    /\ x.pc = "delete" => x.req.op = "delete"
    /\ x.pc = "list" => x.req.op = "list"

LEMMA Distinct ==
    /\ Blank \notin Certificates /\ Garbage \notin Certificates
    /\ Blank \notin PrivateKeys /\ Garbage \notin PrivateKeys
    /\ Blank # Garbage /\ NoEntry.cert = Blank
    /\ Absent \notin Entries /\ NoEntry \notin Entries
<1>1. /\ Blank \notin Certificates /\ Garbage \notin Certificates
      /\ Blank \notin PrivateKeys /\ Garbage \notin PrivateKeys
      /\ Blank # Garbage
  BY DEF Blank, Garbage, Certificates, PrivateKeys
<1>2. NoEntry.cert = Blank
  BY DEF NoEntry
<1>3. Absent \notin Entries
  BY DEF Absent, Entries
<1>. QED
  BY <1>1, <1>2, <1>3 DEF Entries

LEMMA RestingShape == Shape(Resting)
BY DefaultAssumption DEF Resting, Shape, Process, Pcs, Answers, NoAnswer

(***************************************************************************)
(* What is kept of a request that is answered.                             *)
(***************************************************************************)
AfterCheck(rec, answer) ==
    [rec EXCEPT !.pc = "idle", !.verdict = "none", !.new = NoEntry, !.answer = answer]
AfterRefusal(rec, answer) ==
    [Resting EXCEPT !.req = rec.req, !.failed = rec.failed, !.raced = rec.raced, !.answer = answer]
AfterSigning(rec, answer) == [Resting EXCEPT !.id = rec.id, !.answer = answer]

Answer(status, body) == [status |-> status, body |-> body]
Kept(status, body) == status = 503 \/ body = "unhandled"

LEMMA ReplyIs ==
    ASSUME NEW rec, NEW status, NEW body, body = "unhandled" => status = 500
    PROVE  /\ rec.req.op \in Verifications /\ status = 200 =>
                Reply(rec, status, body) = AfterCheck(rec, Answer(status, body))
           /\ rec.req.op = "sign" /\ Kept(status, body) =>
                Reply(rec, status, body) = AfterRefusal(rec, Answer(status, body))
           /\ rec.req.op = "sign" /\ ~Kept(status, body) /\ status = 200 =>
                Reply(rec, status, body) = AfterSigning(rec, Answer(status, body))
           /\ \/ rec.req.op \notin Verifications \cup {"sign"}
              \/ status # 200 /\ (rec.req.op = "sign" => ~Kept(status, body))
              => Reply(rec, status, body) = Resting
<1>. DEFINE x == Reply(rec, status, body)
<1>1. "sign" \notin Verifications /\ (Kept(status, body) => status # 200)
  BY DEF Verifications, Kept
<1>2. x = CASE rec.req.op \in Verifications /\ status = 200 -> AfterCheck(rec, Answer(status, body))
            [] rec.req.op = "sign" /\ Kept(status, body) -> AfterRefusal(rec, Answer(status, body))
            [] rec.req.op = "sign" /\ status = 200 -> AfterSigning(rec, Answer(status, body))
            [] OTHER -> Resting
  BY DEF Reply, AfterCheck, AfterRefusal, AfterSigning, Kept, Answer
<1>. HIDE DEF x
<1>3. rec.req.op \in Verifications /\ status = 200 => x = AfterCheck(rec, Answer(status, body))
  BY <1>1, <1>2
<1>4. rec.req.op = "sign" /\ Kept(status, body) => x = AfterRefusal(rec, Answer(status, body))
  BY <1>1, <1>2
<1>5. rec.req.op = "sign" /\ ~Kept(status, body) /\ status = 200 => x = AfterSigning(rec, Answer(status, body))
  BY <1>1, <1>2
<1>6. \/ rec.req.op \notin Verifications \cup {"sign"}
      \/ status # 200 /\ (rec.req.op = "sign" => ~Kept(status, body))
      => x = Resting
  BY <1>1, <1>2
<1>. QED
  BY <1>3, <1>4, <1>5, <1>6 DEF x

LEMMA ReplyForgets ==
    ASSUME NEW rec, NEW status, NEW body, body = "unhandled" => status = 500,
           \/ rec.req.op \notin Verifications \cup {"sign"}
           \/ status = 0 /\ body = "aborted"
           \/ status = 400 /\ body = "none"
    PROVE  Reply(rec, status, body) = Resting
<1>1. \/ rec.req.op \notin Verifications \cup {"sign"}
      \/ status # 200 /\ ~Kept(status, body)
  BY DEF Kept
<1>. QED
  BY <1>1, ReplyIs

\* The answers there are.
Said(status, body) ==
    \/ status = 503 /\ body = "none"
    \/ status = 200 /\ body \in {"none", "signed", "valid", "invalid", "details"}
    \/ status = 500 /\ body \in {"unhandled", "signing_error"}
    \/ status \in {400, 404} /\ body = "none"
    \/ status = 0 /\ body = "aborted"

\* y is the request of x, further on or forgotten.
From(x, y) == y.id \in {0, x.id} /\ y.req \in {x.req, Resting.req}

Ended(x, y) == Shape(y) /\ y.pc = "idle" /\ From(x, y)

LEMMA ReplyShape ==
    ASSUME NEW rec, NEW status, NEW body, Shape(rec), Said(status, body)
    PROVE  Ended(rec, Reply(rec, status, body))
<1>. DEFINE x == Reply(rec, status, body)
            answer == Answer(status, body)
<1>0. /\ body = "unhandled" => status = 500
      /\ status = 200 \/ status = 503 \/ body = "unhandled" => answer \in Answers
  <2>1. body = "unhandled" => status = 500
    BY DEF Said
  <2>2. status = 200 \/ status = 503 \/ body = "unhandled" =>
            /\ status \in {0, 200, 500, 503}
            /\ body \in {"none", "signed", "valid", "invalid", "details", "unhandled"}
    <3>1. CASE status \in {200, 503}
      BY <3>1 DEF Said
    <3>2. CASE body = "unhandled"
      BY <2>1, <3>2
    <3>. QED
      BY <3>1, <3>2
  <2>. QED
    BY <2>1, <2>2 DEF Answers, Answer
<1>1. \/ x = Resting
      \/ /\ answer \in Answers
         /\ x \in {AfterCheck(rec, answer), AfterRefusal(rec, answer), AfterSigning(rec, answer)}
  BY <1>0, ReplyIs DEF Kept
<1>. SUFFICES Shape(x) /\ x.pc = "idle" /\ x.id \in {0, rec.id} /\ x.req \in {rec.req, Resting.req}
  BY DEF Ended, From
<1>. HIDE DEF x, answer
<1>2. CASE x = AfterCheck(rec, answer) /\ answer \in Answers
  <2>1. x = [pc |-> "idle", req |-> rec.req, id |-> rec.id, new |-> NoEntry, got |-> rec.got,
             second |-> rec.second, verdict |-> "none", at |-> rec.at, failed |-> rec.failed,
             raced |-> rec.raced, answer |-> answer]
    BY <1>2 DEF AfterCheck, Shape, Process
  <2>. QED
    BY <1>2, <2>1 DEF Shape, Process, Pcs
<1>3. CASE x = AfterRefusal(rec, answer) /\ answer \in Answers
  <2>1. x = [pc |-> "idle", req |-> rec.req, id |-> 0, new |-> NoEntry, got |-> NoEntry,
             second |-> FALSE, verdict |-> "none", at |-> 0, failed |-> rec.failed,
             raced |-> rec.raced, answer |-> answer]
    BY <1>3 DEF Resting, AfterRefusal
  <2>. QED
    BY <1>3, <2>1 DEF Shape, Process, Pcs
<1>4. CASE x = AfterSigning(rec, answer) /\ answer \in Answers
  <2>1. x = [pc |-> "idle", req |-> Resting.req, id |-> rec.id, new |-> NoEntry, got |-> NoEntry,
             second |-> FALSE, verdict |-> "none", at |-> 0, failed |-> FALSE,
             raced |-> FALSE, answer |-> answer]
    BY <1>4 DEF Resting, AfterSigning
  <2>2. Resting.req.name \in Names
    BY RestingShape DEF Shape
  <2>. QED
    BY <1>4, <2>1, <2>2 DEF Shape, Process, Pcs
<1>5. CASE x = Resting
  BY <1>5, RestingShape DEF Resting
<1>. QED
  BY <1>1, <1>2, <1>3, <1>4, <1>5

Offer(n, from, until, key, name) ==
    [cert |-> CertPem(n, from, until), key |-> key, name |-> name]

LEMMA FreshType ==
    ASSUME NEW p \in Procs, Shape(proc[p]), now \in Nat
    PROVE  /\ Fresh(p) \in Entries
           /\ Fresh(p).cert \in Certificates /\ Fresh(p).key \in PrivateKeys
           /\ Fresh(p).name = Req(p).name
           /\ Rotating(Req(p)) => Rotated(p) \in Entries /\ Rotated(p).name = Req(p).name
<1>. DEFINE n == proc[p].id
<1>1. n \in Nat /\ Req(p).name \in Names
  BY DEF Shape, Process, Req
<1>2. Fresh(p) = Offer(n, now, now + Days, KeyPem(n), Req(p).name)
  BY DEF Offer, Fresh, create_self_signed_cert
<1>3. now + Days \in Nat /\ now + 1 \in Nat
  BY DaysAssumption
<1>4. ASSUME NEW from \in Nat, NEW until \in Nat
      PROVE  CertPem(n, from, until) \in Certificates
  BY <1>1 DEF CertPem, Certificates
<1>5. KeyPem(n) \in PrivateKeys /\ KeyPem(n).pair = n
  BY <1>1 DEF KeyPem, PrivateKeys
<1>6. ASSUME NEW from \in Nat, NEW until \in Nat, NEW key \in PrivateKeys \cup {Blank}
      PROVE  /\ Offer(n, from, until, key, Req(p).name) \in Entries
             /\ Offer(n, from, until, key, Req(p).name).name = Req(p).name
  BY <1>1, <1>4 DEF Offer, Entries
<1>7. Fresh(p) \in Entries
  BY <1>2, <1>3, <1>5, <1>6
<1>8. ASSUME Rotating(Req(p))
      PROVE  Rotated(p) \in Entries /\ Rotated(p).name = Req(p).name
  <2>1. CASE Req(p).kind = "brief"
    <3>1. Rotated(p) = Offer(n, now, now, KeyPem(n), Req(p).name)
      BY <1>2, <2>1 DEF Offer, Rotated, CertPem
    <3>. QED
      BY <1>5, <1>6, <3>1
  <2>2. CASE Req(p).kind = "later"
    <3>1. Rotated(p) = Offer(n, now + 1, now + Days, KeyPem(n), Req(p).name)
      BY <1>2, <2>2 DEF Offer, Rotated, CertPem
    <3>. QED
      BY <1>3, <1>5, <1>6, <3>1
  <2>3. CASE Req(p).kind = "keyless"
    <3>1. Rotated(p) = Offer(n, now, now + Days, Blank, Req(p).name)
      BY <1>2, <2>3 DEF Offer, Rotated
    <3>. QED
      BY <1>3, <1>6, <3>1
  <2>5. CASE Req(p).kind = "mismatched"
    <3>1. Rotated(p) = Offer(n, now, now + Days, KeyPem(Req(p).pair), Req(p).name)
      BY <1>2, <2>5 DEF Offer, Rotated
    <3>2. KeyPem(Req(p).pair) \in PrivateKeys
      BY <1>8, <2>5 DEF Rotating, KeyPem, PrivateKeys
    <3>. QED
      BY <1>3, <1>6, <3>1, <3>2
  <2>4. CASE Req(p).kind = "garbage"
    <3>1. Rotated(p) = [cert |-> Garbage, key |-> KeyPem(n), name |-> Req(p).name]
      BY <1>2, <2>4 DEF Offer, Rotated
    <3>. QED
      BY <1>1, <1>5, <3>1 DEF Entries
  <2>. QED
    BY <1>8, <2>1, <2>2, <2>3, <2>4, <2>5 DEF Kinds, Rotating
<1>. QED
  BY <1>2, <1>3, <1>4, <1>5, <1>6, <1>7, <1>8 DEF Offer

-----------------------------------------------------------------------------
Record(s) ==
    [secret |-> s, cert |-> entry[s].cert, key |-> entry[s].key, name |-> entry[s].name]

StoreInv ==
    /\ backend \in Backends
    /\ entry \in [Names -> Entries \cup {Absent}]
    /\ faults \in 0..MaxFaults /\ now \in 0..MaxNow /\ started \in 0..MaxOps
    /\ \A s \in Names : entry[s] # Absent => Record(s) \in past
    /\ \A s \in Names : entry[s] # Absent => SecretName(entry[s].name) = s
    /\ \A t \in past : t.secret = SecretName(t.name)
    /\ \A s \in hidden : /\ s \in Names /\ entry[s] = Absent /\ backend = "azure"
                         /\ \E t \in past : t.secret = s

TypeInv ==
    /\ StoreInv
    /\ DOMAIN proc = Procs
    /\ \A p \in Procs : /\ Shape(proc[p]) /\ proc[p].id <= started
                        /\ proc[p].pc = "create" => backend = "aws"

LEMMA SecretType ==
    ASSUME backend \in Backends, NEW n \in Names
    PROVE  SecretName(n) \in Names /\ SecretName(SecretName(n)) = SecretName(n)
BY DashedAssumption DEF SecretName

(***************************************************************************)
(* What a step of p leaves of the other requests: a write to the secret of *)
(* one of them marks it as raced.                                          *)
(***************************************************************************)
RacedBy(x) == [x EXCEPT !.raced = TRUE]

Frame(p) ==
    /\ backend' = backend /\ past \subseteq past' /\ issued \subseteq issued'
    /\ DOMAIN proc' = Procs
    /\ \A q \in Procs \ {p} :
        /\ proc'[q] = proc[q] \/ (proc[q].pc # "idle" /\ proc'[q] = RacedBy(proc[q]))
        /\ LET s == SecretName(Req(q).name) IN
            proc[q].pc # "idle" /\ entry'[s] # entry[s] => proc'[q].raced

LEMMA RacedShape ==
    ASSUME NEW x, Shape(x)
    PROVE  /\ Shape(RacedBy(x))
           /\ RacedBy(x) = [pc |-> x.pc, req |-> x.req, id |-> x.id, new |-> x.new, got |-> x.got,
                            second |-> x.second, verdict |-> x.verdict, at |-> x.at,
                            failed |-> x.failed, raced |-> TRUE, answer |-> x.answer]
<1>. DEFINE y == RacedBy(x)
<1>1. y = [x EXCEPT !.raced = TRUE]
  BY DEF RacedBy
<1>. HIDE DEF y
<1>2. y = [pc |-> x.pc, req |-> x.req, id |-> x.id, new |-> x.new, got |-> x.got,
           second |-> x.second, verdict |-> x.verdict, at |-> x.at,
           failed |-> x.failed, raced |-> TRUE, answer |-> x.answer]
  BY <1>1 DEF Shape, Process
<1>3. Shape(y)
  BY <1>2 DEF Shape, Process
<1>. QED
  BY <1>2, <1>3 DEF y

\* The types after a step of p, from those of the store and of p.
LEMMA FrameType ==
    ASSUME TypeInv, NEW p \in Procs, Frame(p), StoreInv', Shape(proc'[p]),
           proc'[p].id <= started', proc'[p].pc = "create" => backend = "aws",
           started' \in {started, started + 1}
    PROVE  TypeInv'
<1>1. ASSUME NEW q \in Procs
      PROVE  /\ Shape(proc'[q]) /\ proc'[q].id <= started'
             /\ proc'[q].pc = "create" => backend' = "aws"
  <2>1. CASE q = p
    BY <2>1 DEF Frame
  <2>2. CASE q # p
    <3>1. /\ Shape(proc[q]) /\ proc[q].id \in Nat /\ proc[q].id <= started
          /\ proc[q].pc = "create" => backend = "aws"
      BY DEF TypeInv, Shape, Process
    <3>2. started \in Nat
      BY OpsAssumption DEF TypeInv, StoreInv
    <3>3. proc[q].id <= started'
      BY <3>1, <3>2
    <3>4. proc'[q] = proc[q] \/ proc'[q] = RacedBy(proc[q])
      BY <2>2 DEF Frame
    <3>5. /\ Shape(proc'[q]) /\ proc'[q].id = proc[q].id
          /\ proc'[q].pc = proc[q].pc
      BY <3>1, <3>4, RacedShape
    <3>. QED
      BY <3>1, <3>3, <3>5 DEF Frame
  <2>. QED
    BY <2>1, <2>2
<1>. QED
  BY <1>1 DEF TypeInv, Frame

\* A step of the request p handles.
Handled(p) ==
    Frame(p) /\ From(proc[p], proc'[p]) /\ UNCHANGED <<now, started>>

(***************************************************************************)
(* A step that writes nothing.                                             *)
(***************************************************************************)
Moves(p, rec) ==
    /\ Step(p, rec)
    /\ UNCHANGED <<backend, entry, hidden, now, started, past>>
    /\ issued \subseteq issued'
    /\ faults' = faults \/ Fault

LEMMA StepIs ==
    ASSUME DOMAIN proc = Procs, NEW p \in Procs, NEW rec, Step(p, rec)
    PROVE  /\ DOMAIN proc' = Procs
           /\ proc'[p] = rec
           /\ \A q \in Procs \ {p} : proc'[q] = proc[q]
BY DEF Step

LEMMA FaultType ==
    ASSUME faults \in 0..MaxFaults, faults' = faults \/ Fault
    PROVE  faults' \in 0..MaxFaults
BY FaultsAssumption DEF Fault

LEMMA MoveType ==
    ASSUME TypeInv, NEW p \in Procs, NEW rec, Moves(p, rec), Shape(rec), From(proc[p], rec),
           rec.pc # "create"
    PROVE  TypeInv' /\ Handled(p) /\ proc'[p] = rec
<1>1. Frame(p) /\ proc'[p] = rec
  BY StepIs DEF TypeInv, Moves, Frame
<1>2. StoreInv'
  BY FaultType DEF TypeInv, Moves, StoreInv, Record, SecretName
<1>3. rec.id <= started'
  BY OpsAssumption DEF TypeInv, StoreInv, Moves, From
<1>. QED
  BY <1>1, <1>2, <1>3, FrameType DEF Moves, Handled

(***************************************************************************)
(* A step that may write, to p's secret.                                   *)
(***************************************************************************)
Writes(p, rec, new) ==
    LET s == SecretName(Req(p).name) IN
    /\ StepWriting(p, rec, s)
    /\ UNCHANGED <<backend, now, started, issued>>
    /\ faults' = faults \/ Fault
    /\ \/ UNCHANGED <<entry, hidden>>
       \/ s \notin hidden /\ Put(s, new) /\ UNCHANGED hidden
       \/ Put(s, Absent) /\ UNCHANGED hidden /\ backend # "azure"
       \/ /\ Put(s, Absent) /\ backend = "azure" /\ entry[s] # Absent
          /\ hidden' = hidden \cup {s}

LEMMA WriteType ==
    ASSUME TypeInv, NEW p \in Procs, NEW rec, NEW new \in Entries, new.name = Req(p).name,
           Writes(p, rec, new), Shape(rec), From(proc[p], rec),
           rec.pc = "create" => backend = "aws"
    PROVE  TypeInv' /\ Handled(p) /\ proc'[p] = rec
<1>s. PICK s : s = SecretName(Req(p).name)
  OBVIOUS
<1>1. /\ Req(p).name \in Names /\ backend \in Backends
      /\ \A q \in Procs : SecretName(Req(q).name) \in Names
  BY SecretType DEF TypeInv, StoreInv, Shape, Req
<1>2. s \in Names /\ SecretName(s) = s /\ SecretName(new.name) = s
  BY <1>s, <1>1, SecretType
<1>3. /\ entry \in [Names -> Entries \cup {Absent}]
      /\ UNCHANGED entry \/ Put(s, new) \/ Put(s, Absent)
  BY <1>s DEF TypeInv, StoreInv, Writes
<1>4. /\ entry' \in [Names -> Entries \cup {Absent}]
      /\ \A n \in Names \ {s} : entry'[n] = entry[n]
      /\ entry'[s] \in {entry[s], new, Absent}
  BY <1>2, <1>3 DEF Put
<1>5. \/ entry' = entry /\ Step(p, rec) /\ past' = past
      \/ /\ proc' = [q \in Procs |->
                IF q = p THEN rec
                ELSE IF proc[q].pc # "idle" /\ SecretName(Req(q).name) = s
                THEN RacedBy(proc[q]) ELSE proc[q]]
         /\ past' = IF entry'[s] = Absent THEN past
                    ELSE past \cup {[secret |-> s, cert |-> entry'[s].cert,
                                     key |-> entry'[s].key, name |-> entry'[s].name]}
  BY <1>s DEF Writes, StepWriting, RacedBy
<1>6. Frame(p) /\ proc'[p] = rec
  <2>1. CASE entry' = entry /\ Step(p, rec) /\ past' = past
    BY <2>1, StepIs DEF TypeInv, Writes, Frame
  <2>2. CASE /\ proc' = [q \in Procs |->
                    IF q = p THEN rec
                    ELSE IF proc[q].pc # "idle" /\ SecretName(Req(q).name) = s
                    THEN RacedBy(proc[q]) ELSE proc[q]]
             /\ past \subseteq past'
    <3>1. ASSUME NEW q \in Procs \ {p}, proc[q].pc # "idle", SecretName(Req(q).name) = s
          PROVE  proc'[q] = RacedBy(proc[q]) /\ proc'[q].raced
      <4>1. proc'[q] = RacedBy(proc[q]) /\ Shape(proc[q])
        BY <2>2, <3>1 DEF TypeInv
      <4>. QED
        BY <4>1, RacedShape
    <3>2. ASSUME NEW q \in Procs \ {p}, proc[q].pc = "idle" \/ SecretName(Req(q).name) # s
          PROVE  /\ proc'[q] = proc[q]
                 /\ proc[q].pc = "idle"
                    \/ entry'[SecretName(Req(q).name)] = entry[SecretName(Req(q).name)]
      BY <1>1, <1>4, <2>2, <3>2
    <3>. QED
      BY <2>2, <3>1, <3>2 DEF Writes, Frame
  <2>. QED
    BY <1>5, <2>1, <2>2
<1>7. StoreInv'
  <2>1. StoreInv
    BY DEF TypeInv
  <2>2. /\ backend' = backend /\ now' = now /\ started' = started
        /\ faults' \in 0..MaxFaults
    BY <2>1, FaultType DEF StoreInv, Writes
  <2>3. ASSUME NEW n \in Names, entry'[n] # Absent
        PROVE  SecretName(entry'[n].name) = n
    <3>1. CASE n = s /\ entry'[n] = new
      BY <1>2, <3>1
    <3>2. CASE entry'[n] = entry[n]
      BY <2>1, <2>3, <3>2 DEF StoreInv
    <3>. QED
      BY <1>4, <2>3, <3>1, <3>2
  <2>4. past' = past \/ (entry'[s] # Absent /\ past' = past \cup {Record(s)'})
    BY <1>5 DEF Record
  <2>5. ASSUME NEW n \in Names, entry'[n] # Absent
        PROVE  Record(n)' \in past'
    <3>1. CASE entry'[n] = entry[n]
      BY <2>1, <2>4, <2>5, <3>1 DEF StoreInv, Record
    <3>2. CASE n = s /\ entry'[n] # entry[n]
      BY <1>5, <2>5, <3>2 DEF Record
    <3>. QED
      BY <1>4, <3>1, <3>2
  <2>6. ASSUME NEW t \in past'
        PROVE  t.secret = SecretName(t.name)
    <3>1. CASE t \in past
      BY <2>1, <3>1 DEF StoreInv
    <3>2. CASE entry'[s] # Absent /\ t = Record(s)'
      <4>1. t.secret = s /\ t.name = entry'[s].name
        BY <3>2 DEF Record
      <4>. QED
        BY <1>2, <2>3, <3>2, <4>1
    <3>. QED
      BY <2>4, <3>1, <3>2
  <2>7. ASSUME NEW h \in hidden'
        PROVE  /\ h \in Names /\ entry'[h] = Absent /\ backend = "azure"
               /\ \E t \in past' : t.secret = h
    <3>1. past \subseteq past'
      BY <2>4
    <3>2. CASE h \in hidden
      <4>1. /\ h \in Names /\ entry[h] = Absent /\ backend = "azure"
            /\ \E t \in past : t.secret = h
        BY <2>1, <3>2 DEF StoreInv
      <4>2. entry'[h] = Absent
        BY <1>s, <1>2, <1>3, <3>2, <4>1 DEF Writes, Put
      <4>. QED
        BY <3>1, <4>1, <4>2
    <3>3. CASE h = s /\ Put(s, Absent) /\ backend = "azure" /\ entry[s] # Absent
      <4>1. Record(s) \in past /\ Record(s).secret = s
        BY <1>2, <2>1, <3>3 DEF StoreInv, Record
      <4>2. entry'[h] = Absent
        BY <1>2, <1>3, <3>3 DEF Put
      <4>. QED
        BY <1>2, <3>1, <3>3, <4>1, <4>2
    <3>. QED
      BY <1>s, <2>7, <3>2, <3>3 DEF Writes
  <2>8. /\ backend' \in Backends /\ now' \in 0..MaxNow /\ started' \in 0..MaxOps
    BY <2>1, <2>2 DEF StoreInv
  <2>. QED
    BY <1>4, <2>2, <2>3, <2>5, <2>6, <2>7, <2>8 DEF StoreInv, SecretName
<1>8. rec.id <= started'
  BY OpsAssumption DEF TypeInv, StoreInv, Writes, Shape, Process, From
<1>. QED
  BY <1>6, <1>7, <1>8, FrameType DEF Writes, Handled

(***************************************************************************)
(* The records the actions make of the request p handles.                  *)
(***************************************************************************)
Found(x, e) == [x EXCEPT !.pc = "engine", !.got = e]
Provisions(x, e) == [x EXCEPT !.pc = "store", !.new = e]
Again(x) == [x EXCEPT !.pc = "look", !.second = TRUE]
Creates(x, e) == [x EXCEPT !.pc = "create", !.new = e]
Signs(x, time) == [x EXCEPT !.pc = "commit", !.verdict = "signed", !.at = time]
Judges(x, verdict, time) == [x EXCEPT !.pc = "commit", !.verdict = verdict, !.at = time]

LEMMA FoundShape ==
    ASSUME NEW x, Shape(x), x.pc = "look", NEW e \in Entries
    PROVE  /\ Shape(Found(x, e))
           /\ Found(x, e) = [pc |-> "engine", req |-> x.req, id |-> x.id, new |-> x.new, got |-> e,
                             second |-> x.second, verdict |-> x.verdict, at |-> x.at,
                             failed |-> x.failed, raced |-> x.raced, answer |-> x.answer]
<1>. DEFINE y == Found(x, e)
<1>1. y = [x EXCEPT !.pc = "engine", !.got = e]
  BY DEF Found
<1>. HIDE DEF y
<1>2. y = [pc |-> "engine", req |-> x.req, id |-> x.id, new |-> x.new, got |-> e,
           second |-> x.second, verdict |-> x.verdict, at |-> x.at,
           failed |-> x.failed, raced |-> x.raced, answer |-> x.answer]
  BY <1>1 DEF Shape, Process
<1>3. Shape(y)
  BY <1>2 DEF Shape, Process, Pcs
<1>. QED
  BY <1>2, <1>3 DEF y

LEMMA CalledShape ==
    ASSUME NEW p \in Procs, Shape(proc[p]), NEW result
    PROVE  LET x == proc[p] IN
           /\ Shape(Called(p, result))
           /\ Called(p, result) =
                [pc |-> x.pc, req |-> x.req, id |-> x.id, new |-> x.new, got |-> x.got,
                 second |-> x.second, verdict |-> x.verdict, at |-> x.at,
                 failed |-> (x.failed \/ result = "fault"), raced |-> x.raced, answer |-> x.answer]
<1>. DEFINE y == Called(p, result)
            x == proc[p]
<1>1. y = [x EXCEPT !.failed = @ \/ result = "fault"]
  BY DEF Called
<1>. HIDE DEF y, x
<1>2. Shape(x)
  BY DEF x
<1>3. y = [pc |-> x.pc, req |-> x.req, id |-> x.id, new |-> x.new, got |-> x.got,
           second |-> x.second, verdict |-> x.verdict, at |-> x.at,
           failed |-> (x.failed \/ result = "fault"), raced |-> x.raced, answer |-> x.answer]
  BY <1>1, <1>2 DEF Shape, Process
<1>4. Shape(y)
  BY <1>2, <1>3 DEF Shape, Process
<1>. QED
  BY <1>3, <1>4 DEF x, y

LEMMA ProvisionsShape ==
    ASSUME NEW x, Shape(x), x.pc = "look", x.req.op = "sign",
           NEW e \in Entries, e.name = x.req.name
    PROVE  /\ Shape(Provisions(x, e))
           /\ Provisions(x, e) =
                [pc |-> "store", req |-> x.req, id |-> x.id, new |-> e, got |-> x.got,
                 second |-> x.second, verdict |-> x.verdict, at |-> x.at,
                 failed |-> x.failed, raced |-> x.raced, answer |-> x.answer]
<1>. DEFINE y == Provisions(x, e)
<1>1. y = [x EXCEPT !.pc = "store", !.new = e]
  BY DEF Provisions
<1>. HIDE DEF y
<1>2. y = [pc |-> "store", req |-> x.req, id |-> x.id, new |-> e, got |-> x.got,
           second |-> x.second, verdict |-> x.verdict, at |-> x.at,
           failed |-> x.failed, raced |-> x.raced, answer |-> x.answer]
  BY <1>1 DEF Shape, Process
<1>3. Shape(y)
  BY <1>2 DEF Shape, Process, Pcs
<1>. QED
  BY <1>2, <1>3 DEF y

LEMMA AgainShape ==
    ASSUME NEW x, Shape(x), x.pc \in {"store", "create"}, x.req.op = "sign"
    PROVE  /\ Shape(Again(x))
           /\ Again(x) =
                [pc |-> "look", req |-> x.req, id |-> x.id, new |-> x.new, got |-> x.got,
                 second |-> TRUE, verdict |-> x.verdict, at |-> x.at,
                 failed |-> x.failed, raced |-> x.raced, answer |-> x.answer]
<1>. DEFINE y == Again(x)
<1>1. y = [x EXCEPT !.pc = "look", !.second = TRUE]
  BY DEF Again
<1>. HIDE DEF y
<1>2. y = [pc |-> "look", req |-> x.req, id |-> x.id, new |-> x.new, got |-> x.got,
           second |-> TRUE, verdict |-> x.verdict, at |-> x.at,
           failed |-> x.failed, raced |-> x.raced, answer |-> x.answer]
  BY <1>1 DEF Shape, Process
<1>3. Shape(y)
  BY <1>2 DEF Shape, Process, Pcs, Looking
<1>. QED
  BY <1>2, <1>3 DEF y

LEMMA CreatesShape ==
    ASSUME NEW x, Shape(x), x.pc \in {"store", "rotate"}, x.req.op \in {"sign", "rotate"},
           NEW e \in Entries, e.name = x.req.name
    PROVE  /\ Shape(Creates(x, e))
           /\ Creates(x, e) =
                [pc |-> "create", req |-> x.req, id |-> x.id, new |-> e, got |-> x.got,
                 second |-> x.second, verdict |-> x.verdict, at |-> x.at,
                 failed |-> x.failed, raced |-> x.raced, answer |-> x.answer]
<1>. DEFINE y == Creates(x, e)
<1>1. y = [x EXCEPT !.pc = "create", !.new = e]
  BY DEF Creates
<1>. HIDE DEF y
<1>2. y = [pc |-> "create", req |-> x.req, id |-> x.id, new |-> e, got |-> x.got,
           second |-> x.second, verdict |-> x.verdict, at |-> x.at,
           failed |-> x.failed, raced |-> x.raced, answer |-> x.answer]
  BY <1>1 DEF Shape, Process
<1>3. Shape(y)
  BY <1>2 DEF Shape, Process, Pcs
<1>. QED
  BY <1>2, <1>3 DEF y

LEMMA SignsShape ==
    ASSUME NEW x, Shape(x), x.pc = "engine", x.req.op = "sign", NEW time \in Nat
    PROVE  /\ Shape(Signs(x, time))
           /\ Signs(x, time) =
                [pc |-> "commit", req |-> x.req, id |-> x.id, new |-> x.new, got |-> x.got,
                 second |-> x.second, verdict |-> "signed", at |-> time,
                 failed |-> x.failed, raced |-> x.raced, answer |-> x.answer]
<1>. DEFINE y == Signs(x, time)
<1>1. y = [x EXCEPT !.pc = "commit", !.verdict = "signed", !.at = time]
  BY DEF Signs
<1>. HIDE DEF y
<1>2. y = [pc |-> "commit", req |-> x.req, id |-> x.id, new |-> x.new, got |-> x.got,
           second |-> x.second, verdict |-> "signed", at |-> time,
           failed |-> x.failed, raced |-> x.raced, answer |-> x.answer]
  BY <1>1 DEF Shape, Process
<1>3. Shape(y)
  BY <1>2 DEF Shape, Process, Pcs
<1>. QED
  BY <1>2, <1>3 DEF y

LEMMA JudgesShape ==
    ASSUME NEW x, Shape(x), x.pc = "engine", x.req.op \in Verifications,
           NEW verdict \in {"valid", "invalid"}, NEW time \in Nat
    PROVE  /\ Shape(Judges(x, verdict, time))
           /\ Judges(x, verdict, time) =
                [pc |-> "commit", req |-> x.req, id |-> x.id, new |-> x.new, got |-> x.got,
                 second |-> x.second, verdict |-> verdict, at |-> time,
                 failed |-> x.failed, raced |-> x.raced, answer |-> x.answer]
<1>. DEFINE y == Judges(x, verdict, time)
<1>1. y = [x EXCEPT !.pc = "commit", !.verdict = verdict, !.at = time]
  BY DEF Judges
<1>. HIDE DEF y
<1>2. y = [pc |-> "commit", req |-> x.req, id |-> x.id, new |-> x.new, got |-> x.got,
           second |-> x.second, verdict |-> verdict, at |-> time,
           failed |-> x.failed, raced |-> x.raced, answer |-> x.answer]
  BY <1>1 DEF Shape, Process
<1>3. Shape(y)
  BY <1>2 DEF Shape, Process, Pcs
<1>. QED
  BY <1>2, <1>3 DEF y

(***************************************************************************)
(* The actions: the types hold after each, and what it makes of p.         *)
(***************************************************************************)
LEMMA InStep ==
    ASSUME TypeInv, NEW p \in Procs
    PROVE  /\ Shape(proc[p]) /\ Req(p) = proc[p].req /\ Req(p).name \in Names
           /\ SecretName(Req(p).name) \in Names
           /\ entry[SecretName(Req(p).name)] \in Entries \cup {Absent}
           /\ now \in Nat
<1>1. /\ Shape(proc[p]) /\ Req(p) = proc[p].req /\ Req(p).name \in Names
      /\ backend \in Backends /\ now \in Nat /\ entry \in [Names -> Entries \cup {Absent}]
  BY OpsAssumption DEF TypeInv, StoreInv, Shape, Req
<1>. QED
  BY <1>1, SecretType

LEMMA NotFoundIs ==
    ASSUME NEW x, Shape(x), x.req.op \in Looking
    PROVE  /\ x.req.op \in {"sign", "verify"} => NotFound(x) = Reply(x, 503, "none")
           /\ x.req.op = "verify_default" => NotFound(x) = Reply(x, 200, "invalid")
           /\ x.req.op = "details" => NotFound(x) = Reply(x, 404, "none")
           /\ Ended(x, NotFound(x))
<1>1. x.req.op \in {"sign", "verify"} => NotFound(x) = Reply(x, 503, "none")
  BY DEF NotFound
<1>2. x.req.op = "verify_default" => NotFound(x) = Reply(x, 200, "invalid")
  BY DEF NotFound
<1>3. x.req.op = "details" => NotFound(x) = Reply(x, 404, "none")
  BY DEF NotFound
<1>4. Said(503, "none") /\ Said(200, "invalid") /\ Said(404, "none")
  BY DEF Said
<1>5. /\ Ended(x, Reply(x, 503, "none")) /\ Ended(x, Reply(x, 200, "invalid"))
      /\ Ended(x, Reply(x, 404, "none"))
  BY <1>4, ReplyShape
<1>6. x.req.op \in {"sign", "verify"} \/ x.req.op = "verify_default" \/ x.req.op = "details"
  BY DEF Looking, Verifications
<1>7. Ended(x, NotFound(x))
  <2>1. CASE x.req.op \in {"sign", "verify"}
    BY <1>1, <1>5, <2>1
  <2>2. CASE x.req.op = "verify_default"
    BY <1>2, <1>5, <2>2
  <2>3. CASE x.req.op = "details"
    BY <1>3, <1>5, <2>3
  <2>. QED
    BY <1>6, <2>1, <2>2, <2>3
<1>. QED
  BY <1>1, <1>2, <1>3, <1>7

\* A step that ends p's request and leaves the store alone.
LEMMA EndStep ==
    ASSUME TypeInv, NEW p \in Procs, NEW x, Shape(x), x.id = proc[p].id, x.req = proc[p].req,
           NEW status, NEW body, Said(status, body), Moves(p, Reply(x, status, body))
    PROVE  TypeInv' /\ Handled(p) /\ proc'[p] = Reply(x, status, body)
BY ReplyShape, MoveType DEF Ended, From

\* A request that never reached its store has ended.
LEMMA ConnectFailsStep ==
    ASSUME TypeInv, NEW p \in Procs, ConnectFails(p)
    PROVE  LET x == Called(p, "fault") IN
           /\ TypeInv' /\ Handled(p) /\ UNCHANGED entry
           /\ proc[p].pc \in {"look", "list", "rotate", "delete"} /\ ~proc[p].second
           /\ backend = "vault" /\ proc'[p].pc = "idle"
           /\ Shape(x) /\ x.req = proc[p].req /\ x.got = NoEntry /\ x.failed
           /\ proc[p].req.op \in Verifications => proc'[p] = Reply(x, 200, "invalid")
           /\ proc[p].req.op = "sign" => proc'[p] = Reply(x, 500, "unhandled")
           /\ proc[p].req.op \notin Verifications \cup {"sign"} => proc'[p] = Resting
<1>. DEFINE x == Called(p, "fault")
<1>1. /\ Shape(proc[p]) /\ ~proc[p].second /\ backend = "vault"
      /\ proc[p].pc \in {"look", "list", "rotate", "delete"}
  BY InStep DEF ConnectFails, GetClientFails
<1>2. Shape(x) /\ x.req = proc[p].req /\ x.id = proc[p].id /\ x.failed /\ x.got = NoEntry
  <2>1. PICK e : e = proc[p].got
    OBVIOUS
  <2>2. e = NoEntry
    BY <1>1, <2>1 DEF Shape
  <2>3. /\ Shape(x) /\ x.req = proc[p].req /\ x.id = proc[p].id /\ x.got = e
        /\ x.failed = (proc[p].failed \/ "fault" = "fault")
    BY <1>1, <2>1, CalledShape
  <2>. QED
    BY <2>2, <2>3
<1>3. Moves(p, NotConnected(x))
  BY DEF ConnectFails, GetClientFails, Moves
<1>4. entry' = entry
  BY DEF ConnectFails, GetClientFails
<1>. HIDE DEF x
<1>5. /\ x.req.op \in Verifications => NotConnected(x) = Reply(x, 200, "invalid")
      /\ x.req.op = "list" => NotConnected(x) = Reply(x, 503, "none")
      /\ x.req.op \notin Verifications \cup {"list"} => NotConnected(x) = Reply(x, 500, "unhandled")
  BY DEF NotConnected, Verifications
<1>6. PICK status, body : /\ NotConnected(x) = Reply(x, status, body)
                         /\ Said(status, body)
  <2>1. Said(200, "invalid") /\ Said(503, "none") /\ Said(500, "unhandled")
    BY DEF Said
  <2>. QED
    BY <1>5, <2>1
<1>7. TypeInv' /\ Handled(p) /\ proc'[p] = NotConnected(x)
  BY <1>2, <1>3, <1>6, EndStep
<1>8. proc'[p].pc = "idle"
  BY <1>2, <1>6, <1>7, ReplyShape DEF Ended
<1>9. x.req.op \notin Verifications \cup {"sign"} => NotConnected(x) = Resting
  BY <1>5, ReplyForgets
<1>10. "sign" \notin Verifications \cup {"list"}
  BY DEF Verifications
<1>. QED
  BY <1>1, <1>2, <1>4, <1>5, <1>7, <1>8, <1>9, <1>10 DEF x

LEMMA LookFindsStep ==
    ASSUME TypeInv, NEW p \in Procs, LookFinds(p)
    PROVE  LET e == entry[SecretName(Req(p).name)]
           IN  /\ TypeInv' /\ Handled(p)
               /\ e # Absent /\ e \in Entries /\ proc'[p] = Found(proc[p], e)
<1>. DEFINE e == entry[SecretName(Req(p).name)]
<1>1. e # Absent /\ e \in Entries
  BY InStep DEF LookFinds, GetSecret
<1>2. Moves(p, Found(proc[p], e))
  BY DEF LookFinds, GetSecret, Found, Moves, storeVars
<1>3. Shape(proc[p]) /\ proc[p].pc = "look"
  BY InStep DEF LookFinds
<1>. HIDE DEF e
<1>4. /\ Shape(Found(proc[p], e))
      /\ From(proc[p], Found(proc[p], e)) /\ Found(proc[p], e).pc = "engine"
  BY <1>1, <1>3, FoundShape DEF From
<1>5. TypeInv' /\ Handled(p) /\ proc'[p] = Found(proc[p], e)
  BY <1>2, <1>4, MoveType
<1>. QED
  BY <1>1, <1>5 DEF e

LEMMA LookFailsStep ==
    ASSUME TypeInv, NEW p \in Procs, LookFails(p)
    PROVE  /\ TypeInv' /\ Handled(p) /\ UNCHANGED entry
           /\ \E result \in {"missing", "fault"} :
                /\ result = "missing" => entry[SecretName(Req(p).name)] = Absent
                /\ \/ /\ Req(p).op = "sign" /\ ~proc[p].second
                      /\ proc'[p] = Provisions(Called(p, result), Fresh(p))
                   \/ /\ ~(Req(p).op = "sign" /\ ~proc[p].second)
                      /\ proc'[p] = NotFound(Called(p, result))
<1>. DEFINE first == Req(p).op = "sign" /\ ~proc[p].second
<1>1. PICK result \in {"missing", "fault"} :
        /\ GetSecret(Req(p).name, result)
        /\ Step(p, IF first THEN [Called(p, result) EXCEPT !.pc = "store", !.new = Fresh(p)]
                   ELSE NotFound(Called(p, result)))
        /\ UNCHANGED <<now, started, audit, issued, past>>
  BY DEF LookFails
<1>2. /\ Shape(proc[p]) /\ proc[p].pc = "look" /\ Req(p) = proc[p].req
      /\ Req(p).op \in Looking
  BY InStep DEF LookFails, Shape
<1>3. LET x == Called(p, result) IN
        Shape(x) /\ x.pc = "look" /\ x.req = Req(p) /\ x.id = proc[p].id
  BY <1>2, CalledShape
<1>4. Fresh(p) \in Entries /\ Fresh(p).name = Req(p).name
  BY InStep, FreshType
<1>5. CASE first
  <2>1. Moves(p, Provisions(Called(p, result), Fresh(p)))
    BY <1>1, <1>5 DEF GetSecret, Provisions, Moves, storeVars
  <2>2. LET y == Provisions(Called(p, result), Fresh(p)) IN
          Shape(y) /\ y.pc = "store" /\ From(proc[p], y)
    BY <1>2, <1>3, <1>4, <1>5, ProvisionsShape DEF From
  <2>3. TypeInv' /\ Handled(p) /\ proc'[p] = Provisions(Called(p, result), Fresh(p))
    BY <2>1, <2>2, MoveType
  <2>. QED
    BY <1>1, <1>5, <2>3 DEF GetSecret
<1>6. CASE ~first
  <2>1. Moves(p, NotFound(Called(p, result)))
    BY <1>1, <1>6 DEF GetSecret, Moves, storeVars
  <2>2. Ended(proc[p], NotFound(Called(p, result)))
    BY <1>2, <1>3, NotFoundIs DEF Ended, From
  <2>3. TypeInv' /\ Handled(p) /\ proc'[p] = NotFound(Called(p, result))
    BY <2>1, <2>2, MoveType DEF Ended
  <2>. QED
    BY <1>1, <1>6, <2>3 DEF GetSecret
<1>. QED
  BY <1>5, <1>6

\* What the client is told of a call that wrote, or did not.
LEMMA StoredShape ==
    ASSUME NEW x, Shape(x), x.pc \in {"store", "rotate", "create"}
    PROVE  /\ x.req.op = "sign" => Stored(x) = Again(x)
           /\ x.req.op # "sign" => Stored(x) = Reply(x, 200, "none")
           /\ Shape(Stored(x)) /\ From(x, Stored(x)) /\ Stored(x).pc # "create"
<1>1. x.req.op = "sign" => Stored(x) = Again(x)
  BY DEF Stored, Again
<1>2. x.req.op # "sign" => Stored(x) = Reply(x, 200, "none")
  BY DEF Stored
<1>3. Said(200, "none")
  BY DEF Said
<1>4. CASE x.req.op = "sign"
  <2>1. x.pc \in {"store", "create"}
    BY <1>4 DEF Shape
  <2>. QED
    BY <1>1, <1>4, <2>1, AgainShape DEF From
<1>5. CASE x.req.op # "sign"
  BY <1>2, <1>3, <1>5, ReplyShape DEF Ended, From
<1>. QED
  BY <1>1, <1>2, <1>4, <1>5

LEMMA StoreStep ==
    ASSUME TypeInv, NEW p \in Procs, Store(p)
    PROVE  LET s == SecretName(Req(p).name)
           IN  /\ TypeInv' /\ Handled(p)
               /\ \E new \in Entries :
                    \/ entry'[s] = new /\ proc'[p] = Stored(proc[p])
                    \/ /\ entry[s] = Absent /\ backend = "aws" /\ UNCHANGED entry
                       /\ proc'[p] = Creates(proc[p], new)
                    \/ s \in hidden /\ proc'[p] = Reply(Called(p, "error"), 503, "none")
                    \/ proc'[p] = Reply(Called(p, "fault"), 503, "none")
<1>. DEFINE new == IF Req(p).op = "sign" THEN proc[p].new ELSE Rotated(p)
<1>n. PICK e : e = new
  OBVIOUS
<1>s. PICK s : s = SecretName(Req(p).name)
  OBVIOUS
<1>1. PICK result \in {"ok", "missing", "error", "fault"} :
        /\ SetSecret(Req(p).name, e, result)
        /\ StepWriting(p,
            CASE result = "ok" -> Stored(proc[p])
              [] result = "missing" -> [proc[p] EXCEPT !.pc = "create", !.new = e]
              [] result \in {"error", "fault"} -> Reply(Called(p, result), 503, "none"), s)
  BY <1>n, <1>s DEF Store
<1>2. UNCHANGED <<now, started, audit, issued>> /\ proc[p].pc \in {"store", "rotate"}
  BY DEF Store
<1>3. /\ Shape(proc[p]) /\ Req(p) = proc[p].req /\ Req(p).op \in {"sign", "rotate"}
      /\ s \in Names /\ entry \in [Names -> Entries \cup {Absent}]
  BY <1>s, <1>2, InStep DEF Shape, TypeInv, StoreInv
<1>4. e \in Entries /\ e.name = Req(p).name
  <2>1. CASE Req(p).op = "sign"
    BY <1>n, <1>2, <1>3, <2>1 DEF Shape
  <2>2. CASE Req(p).op # "sign"
    <3>1. Rotating(Req(p))
      BY <1>2, <1>3, <2>2 DEF Shape
    <3>. QED
      BY <1>n, <1>3, <2>2, <3>1, InStep, FreshType
  <2>. QED
    BY <2>1, <2>2
<1>. HIDE DEF new
<1>5. LET x == Called(p, result) IN Shape(x) /\ x.id = proc[p].id /\ x.req = proc[p].req
  BY <1>3, CalledShape
<1>6. CASE result = "ok"
  <2>1. Writes(p, Stored(proc[p]), e)
    BY <1>s, <1>1, <1>2, <1>6 DEF SetSecret, Writes
  <2>2. TypeInv' /\ Handled(p) /\ proc'[p] = Stored(proc[p])
    BY <1>2, <1>3, <1>4, <2>1, WriteType, StoredShape
  <2>3. entry'[s] = e
    BY <1>s, <1>1, <1>3, <1>6 DEF SetSecret, Put
  <2>. QED
    BY <1>s, <1>4, <2>2, <2>3
<1>7. CASE result = "missing"
  <2>1. Writes(p, Creates(proc[p], e), e)
    BY <1>s, <1>1, <1>2, <1>7 DEF SetSecret, Writes, Creates
  <2>2. LET y == Creates(proc[p], e) IN Shape(y) /\ From(proc[p], y)
    BY <1>2, <1>3, <1>4, CreatesShape DEF From
  <2>3. entry[s] = Absent /\ backend = "aws" /\ UNCHANGED entry
    BY <1>s, <1>1, <1>7 DEF SetSecret
  <2>4. TypeInv' /\ Handled(p) /\ proc'[p] = Creates(proc[p], e)
    BY <1>4, <2>1, <2>2, <2>3, WriteType
  <2>. QED
    BY <1>s, <1>4, <2>3, <2>4
<1>8. CASE result \in {"error", "fault"}
  <2>1. Writes(p, Reply(Called(p, result), 503, "none"), e)
    BY <1>s, <1>1, <1>2, <1>8 DEF SetSecret, Writes
  <2>2. Said(503, "none")
    BY DEF Said
  <2>3. Ended(proc[p], Reply(Called(p, result), 503, "none"))
    BY <1>5, <2>2, ReplyShape DEF Ended, From
  <2>4. TypeInv' /\ Handled(p) /\ proc'[p] = Reply(Called(p, result), 503, "none")
    BY <1>4, <2>1, <2>3, WriteType DEF Ended
  <2>5. result = "error" => s \in hidden
    BY <1>s, <1>1 DEF SetSecret
  <2>. QED
    BY <1>s, <1>4, <1>8, <2>4, <2>5
<1>. QED
  BY <1>6, <1>7, <1>8

LEMMA CreateStep ==
    ASSUME TypeInv, NEW p \in Procs, Create(p)
    PROVE  LET s == SecretName(Req(p).name)
           IN  /\ TypeInv' /\ Handled(p) /\ backend = "aws"
               /\ \/ entry'[s] \in Entries /\ proc'[p] = Stored(proc[p])
                  \/ entry[s] # Absent /\ proc'[p] = Reply(Called(p, "exists"), 500, "unhandled")
                  \/ proc'[p] = Reply(Called(p, "fault"), 500, "unhandled")
<1>s. PICK s : s = SecretName(Req(p).name)
  OBVIOUS
<1>n. PICK e : e = proc[p].new
  OBVIOUS
<1>1. PICK result \in {"ok", "exists", "fault"} :
        /\ CreateSecret(Req(p).name, e, result)
        /\ StepWriting(p, IF result = "ok" THEN Stored(proc[p])
                          ELSE Reply(Called(p, result), 500, "unhandled"), s)
  BY <1>n, <1>s DEF Create
<1>2. UNCHANGED <<now, started, audit, issued>> /\ proc[p].pc = "create"
  BY DEF Create
<1>3. /\ Shape(proc[p]) /\ Req(p) = proc[p].req
      /\ s \in Names /\ entry \in [Names -> Entries \cup {Absent}]
      /\ backend = "aws" /\ s \notin hidden
  BY <1>s, <1>2, InStep DEF TypeInv, StoreInv
<1>4. e \in Entries /\ e.name = Req(p).name
  BY <1>n, <1>2, <1>3 DEF Shape
<1>5. LET x == Called(p, result) IN Shape(x) /\ x.id = proc[p].id /\ x.req = proc[p].req
  BY <1>3, CalledShape
<1>6. CASE result = "ok"
  <2>1. Writes(p, Stored(proc[p]), e)
    BY <1>s, <1>1, <1>2, <1>3, <1>6 DEF CreateSecret, Writes
  <2>2. TypeInv' /\ Handled(p) /\ proc'[p] = Stored(proc[p])
    BY <1>2, <1>3, <1>4, <2>1, WriteType, StoredShape
  <2>3. entry'[s] = e
    BY <1>s, <1>1, <1>3, <1>6 DEF CreateSecret, Put
  <2>. QED
    BY <1>s, <1>3, <1>4, <2>2, <2>3
<1>7. CASE result \in {"exists", "fault"}
  <2>1. Writes(p, Reply(Called(p, result), 500, "unhandled"), e)
    BY <1>s, <1>1, <1>2, <1>3, <1>7 DEF CreateSecret, Writes
  <2>2. Said(500, "unhandled")
    BY DEF Said
  <2>3. Ended(proc[p], Reply(Called(p, result), 500, "unhandled"))
    BY <1>5, <2>2, ReplyShape DEF Ended, From
  <2>4. TypeInv' /\ Handled(p) /\ proc'[p] = Reply(Called(p, result), 500, "unhandled")
    BY <1>4, <2>1, <2>3, WriteType DEF Ended
  <2>5. result = "exists" => entry[s] # Absent
    BY <1>s, <1>1 DEF CreateSecret
  <2>. QED
    BY <1>s, <1>3, <1>7, <2>4, <2>5
<1>. QED
  BY <1>6, <1>7

LEMMA DeleteStep ==
    ASSUME TypeInv, NEW p \in Procs, Delete(p)
    PROVE  /\ TypeInv' /\ Handled(p) /\ proc'[p] = Resting
<1>s. PICK s : s = SecretName(Req(p).name)
  OBVIOUS
<1>1. PICK result \in {"ok", "missing", "fault"} :
        /\ DeleteSecret(Req(p).name, result)
        /\ StepWriting(p, Reply(Called(p, result), IF result = "ok" THEN 200 ELSE 503, "none"), s)
  BY <1>s DEF Delete
<1>2. UNCHANGED <<now, started, audit, issued>> /\ proc[p].pc = "delete"
  BY DEF Delete
<1>3. /\ Shape(proc[p]) /\ Req(p) = proc[p].req /\ Req(p).op = "delete" /\ Req(p).name \in Names
  BY <1>2, InStep DEF Shape
<1>4. PICK e \in Entries : e.name = Req(p).name
  <2>. DEFINE e == [cert |-> Garbage, key |-> Blank, name |-> Req(p).name]
  <2>. e \in Entries /\ e.name = Req(p).name
    BY <1>3 DEF Entries
  <2>. QED
    OBVIOUS
<1>5. Reply(Called(p, result), IF result = "ok" THEN 200 ELSE 503, "none") = Resting
  <2>1. Called(p, result).req.op \notin Verifications \cup {"sign"}
    BY <1>3, CalledShape DEF Verifications
  <2>. QED
    BY <2>1, ReplyForgets
<1>6. Writes(p, Resting, e)
  BY <1>s, <1>1, <1>2, <1>5 DEF DeleteSecret, Writes
<1>7. Shape(Resting) /\ From(proc[p], Resting) /\ Resting.pc = "idle"
  BY RestingShape DEF Resting, From
<1>. QED
  BY <1>4, <1>6, <1>7, WriteType

LEMMA ListStep ==
    ASSUME TypeInv, NEW p \in Procs, List(p)
    PROVE  /\ TypeInv' /\ Handled(p) /\ proc'[p] = Resting
<1>1. PICK result \in {"ok", "missing", "fault"} :
        /\ ListSecrets(result)
        /\ Step(p, Reply(Called(p, result), IF result = "ok" THEN 200 ELSE 503, "none"))
        /\ UNCHANGED <<now, started, audit, issued, past>>
  BY DEF List
<1>2. Shape(proc[p]) /\ proc[p].req.op = "list"
  BY InStep DEF List, Shape
<1>3. Reply(Called(p, result), IF result = "ok" THEN 200 ELSE 503, "none") = Resting
  <2>1. Called(p, result).req.op \notin Verifications \cup {"sign"}
    BY <1>2, CalledShape DEF Verifications
  <2>. QED
    BY <2>1, ReplyForgets
<1>4. Moves(p, Resting)
  BY <1>1, <1>3 DEF ListSecrets, Moves
<1>5. Shape(Resting) /\ From(proc[p], Resting) /\ Resting.pc = "idle"
  BY RestingShape DEF Resting, From
<1>. QED
  BY <1>4, <1>5, MoveType

LEMMA SignStep ==
    ASSUME TypeInv, NEW p \in Procs, Sign(p)
    PROVE  /\ TypeInv' /\ Handled(p)
           /\ \/ /\ CanSign(Got(p).key, Got(p).cert, Req(p).algorithm, now)
                 /\ proc'[p] = Signs(proc[p], now)
              \/ proc'[p] = Reply(proc[p], 500, "signing_error")
<1>1. /\ Shape(proc[p]) /\ Req(p) = proc[p].req /\ proc[p].pc = "engine" /\ proc[p].req.op = "sign"
      /\ now \in Nat
  BY InStep DEF Sign, Ready
<1>2. CASE CanSign(Got(p).key, Got(p).cert, Req(p).algorithm, now)
  <2>1. Moves(p, Signs(proc[p], now))
    BY <1>2 DEF Sign, Signs, Moves, storeVars
  <2>2. /\ Shape(Signs(proc[p], now)) /\ From(proc[p], Signs(proc[p], now))
        /\ Signs(proc[p], now).pc = "commit"
    BY <1>1, SignsShape DEF From
  <2>. QED
    BY <1>2, <2>1, <2>2, MoveType
<1>3. CASE ~CanSign(Got(p).key, Got(p).cert, Req(p).algorithm, now)
  <2>1. Moves(p, Reply(proc[p], 500, "signing_error"))
    BY <1>3 DEF Sign, Finish, Moves, storeVars
  <2>2. Said(500, "signing_error")
    BY DEF Said
  <2>. QED
    BY <1>1, <2>1, <2>2, EndStep
<1>. QED
  BY <1>2, <1>3

VerdictOf(x) == Verdict(x.got.cert, x.req.of.sig, x.req.algorithm, x.req.content, now)

LEMMA VerifyStep ==
    ASSUME TypeInv, NEW p \in Procs, Verify(p)
    PROVE  /\ TypeInv' /\ Handled(p) /\ Req(p).op \in Verifications /\ proc[p].got \in Entries
           /\ \/ /\ Got(p).cert = Garbage \/ ~Supported(Req(p).algorithm)
                 /\ proc'[p] = Reply(proc[p], 200, "invalid")
              \/ /\ VerdictOf(proc[p]) \in {"valid", "invalid"}
                 /\ proc'[p] = Judges(proc[p], VerdictOf(proc[p]), now)
<1>1. /\ Shape(proc[p]) /\ Req(p) = proc[p].req /\ proc[p].pc = "engine"
      /\ proc[p].req.op \in Verifications /\ now \in Nat
  BY InStep DEF Verify, Ready
<1>2. proc[p].got \in Entries
  BY <1>1 DEF Shape
<1>. DEFINE verdict == IF Constructs(Blank, Got(p).cert) THEN VerdictOf(proc[p]) ELSE "raises"
<1>v. PICK v : v = verdict
  OBVIOUS
<1>3. /\ Step(p, IF v = "raises" THEN Reply(proc[p], 200, "invalid")
                ELSE [proc[p] EXCEPT !.pc = "commit", !.verdict = v, !.at = now])
      /\ UNCHANGED <<storeVars, now, started, audit, issued, past>>
  BY <1>v DEF Verify, Finish, VerdictOf, Req, Got
<1>4. v \in {"valid", "invalid", "raises"}
  BY <1>v DEF VerdictOf, Verdict
<1>5. CASE v = "raises"
  <2>1. Got(p).cert = Garbage \/ ~Supported(Req(p).algorithm)
    BY <1>v, <1>1, <1>5 DEF VerdictOf, Verdict, Constructs, Blank, Garbage
  <2>2. Moves(p, Reply(proc[p], 200, "invalid"))
    BY <1>3, <1>5 DEF Moves, storeVars
  <2>3. Said(200, "invalid")
    BY DEF Said
  <2>4. TypeInv' /\ Handled(p) /\ proc'[p] = Reply(proc[p], 200, "invalid")
    BY <1>1, <2>2, <2>3, EndStep
  <2>. QED
    BY <1>1, <1>2, <2>1, <2>4
<1>6. CASE v \in {"valid", "invalid"}
  <2>1. Moves(p, Judges(proc[p], v, now))
    BY <1>3, <1>6 DEF Judges, Moves, storeVars
  <2>2. /\ Shape(Judges(proc[p], v, now)) /\ From(proc[p], Judges(proc[p], v, now))
        /\ Judges(proc[p], v, now).pc = "commit"
    BY <1>1, <1>6, JudgesShape DEF From
  <2>3. TypeInv' /\ Handled(p) /\ proc'[p] = Judges(proc[p], v, now)
    BY <2>1, <2>2, MoveType
  <2>4. v = VerdictOf(proc[p])
    BY <1>v, <1>6
  <2>. QED
    BY <1>1, <1>2, <1>6, <2>3, <2>4
<1>. QED
  BY <1>4, <1>5, <1>6

LEMMA DetailsStep ==
    ASSUME TypeInv, NEW p \in Procs, Details(p)
    PROVE  TypeInv' /\ Handled(p) /\ proc'[p] = Resting
<1>1. Shape(proc[p]) /\ proc[p].req.op = "details"
  BY InStep DEF Details, Ready
<1>2. PICK status, body :
        /\ Said(status, body)
        /\ Step(p, Reply(proc[p], status, body))
        /\ UNCHANGED <<storeVars, now, started, audit, issued, past>>
  BY DEF Details, Finish, Said
<1>3. body = "unhandled" => status = 500
  BY <1>2 DEF Said
<1>4. Reply(proc[p], status, body) = Resting
  BY <1>1, <1>3, ReplyForgets DEF Verifications
<1>5. Moves(p, Reply(proc[p], status, body))
  BY <1>2 DEF Moves, storeVars
<1>. QED
  BY <1>1, <1>2, <1>4, <1>5, EndStep

LEMMA CommitStep ==
    ASSUME TypeInv, NEW p \in Procs, Commit(p)
    PROVE  /\ TypeInv' /\ Handled(p)
           /\ proc'[p] = Reply(proc[p], 200, proc[p].verdict)
<1>1. Shape(proc[p]) /\ proc[p].pc = "commit"
  BY InStep DEF Commit
<1>2. Said(200, proc[p].verdict)
  BY <1>1 DEF Shape, Said
<1>3. Moves(p, Reply(proc[p], 200, proc[p].verdict))
  BY DEF Commit, Finish, Moves, storeVars
<1>. QED
  BY <1>1, <1>2, <1>3, EndStep

LEMMA AbortStep ==
    ASSUME TypeInv, NEW p \in Procs, Abort(p)
    PROVE  TypeInv' /\ Handled(p) /\ proc'[p] = Resting
<1>1. Shape(proc[p])
  BY InStep
<1>2. Reply(proc[p], 0, "aborted") = Resting
  BY ReplyForgets
<1>3. Said(0, "aborted")
  BY DEF Said
<1>4. Moves(p, Reply(proc[p], 0, "aborted"))
  BY DEF Abort, Finish, Moves
<1>. QED
  BY <1>1, <1>2, <1>3, <1>4, EndStep

(***************************************************************************)
(* A request arrives.                                                      *)
(***************************************************************************)
Arrives(r, id) == [Resting EXCEPT !.pc = FirstStep(r), !.req = r, !.id = id]

Asked(r) ==
    /\ r.name \in Names
    /\ \/ r.op \in {"sign", "details", "list", "delete"} \cup Verifications
       \/ Rotating(r)

LEMMA ArrivesShape ==
    ASSUME NEW r, Asked(r), NEW id \in Nat \ {0}
    PROVE  /\ Shape(Arrives(r, id))
           /\ Arrives(r, id) =
                [pc |-> FirstStep(r), req |-> r, id |-> id, new |-> NoEntry, got |-> NoEntry,
                 second |-> FALSE, verdict |-> "none", at |-> 0, failed |-> FALSE, raced |-> FALSE,
                 answer |-> NoAnswer]
           /\ Arrives(r, id).pc \in {"look", "list", "rotate", "delete"}
<1>. DEFINE y == Arrives(r, id)
<1>1. y = [Resting EXCEPT !.pc = FirstStep(r), !.req = r, !.id = id]
  BY DEF Arrives
<1>. HIDE DEF y
<1>2. y = [pc |-> FirstStep(r), req |-> r, id |-> id, new |-> NoEntry, got |-> NoEntry,
           second |-> FALSE, verdict |-> "none", at |-> 0, failed |-> FALSE, raced |-> FALSE,
           answer |-> NoAnswer]
  BY <1>1 DEF Resting
<1>3. /\ FirstStep(r) \in {"look", "list", "rotate", "delete"}
      /\ FirstStep(r) # "look" => FirstStep(r) = r.op
      /\ FirstStep(r) = "look" => r.op \in Looking
  BY DEF FirstStep, Asked, Looking, Verifications, Rotating
<1>4. NoAnswer \in Answers
  BY DEF NoAnswer, Answers
<1>5. y \in Process(y)
  BY <1>2, <1>3, <1>4 DEF Process, Pcs
<1>6. Shape(y)
  BY <1>2, <1>3, <1>5 DEF Shape, Asked, Verifications, Rotating
<1>. QED
  BY <1>2, <1>3, <1>6 DEF y

LEMMA BeginStep ==
    ASSUME TypeInv, NEW p \in Procs, NEW r, Asked(r), Begin(p, r)
    PROVE  /\ TypeInv' /\ Frame(p) /\ proc[p].pc = "idle"
           /\ UNCHANGED <<storeVars, now, audit, issued, past>> /\ started' = started + 1
           /\ \/ proc'[p] = Resting
              \/ ~BadRequest(r) /\ proc'[p] = Arrives(r, started + 1)
           /\ proc'[p].pc \in {"idle", "look", "list", "rotate", "delete"}
<1>1. started \in Nat /\ started + 1 \in Nat \ {0} /\ started + 1 \in 0..MaxOps
  BY OpsAssumption DEF TypeInv, StoreInv, Begin
<1>2. /\ UNCHANGED <<storeVars, now, audit, issued, past>> /\ started' = started + 1
      /\ proc[p].pc = "idle"
  BY DEF Begin
<1>3. \/ BadRequest(r) /\ Step(p, Reply(Arrives(r, started + 1), 400, "none"))
      \/ ~BadRequest(r) /\ Step(p, Arrives(r, started + 1))
  BY DEF Begin, Arrives
<1>4. Reply(Arrives(r, started + 1), 400, "none") = Resting
  BY ReplyForgets
<1>5. PICK x : Step(p, x) /\ (x = Resting \/ (~BadRequest(r) /\ x = Arrives(r, started + 1)))
  BY <1>3, <1>4
<1>6. Frame(p) /\ proc'[p] = x
  BY <1>2, <1>5, StepIs DEF TypeInv, Frame, storeVars
<1>7. StoreInv'
  BY <1>1, <1>2 DEF TypeInv, StoreInv, Record, SecretName, storeVars
<1>8. /\ Shape(x) /\ x.id \in {0, started + 1}
      /\ x.pc \in {"idle", "look", "list", "rotate", "delete"}
  <2>1. CASE x = Resting
    BY <2>1, RestingShape DEF Resting
  <2>2. CASE x = Arrives(r, started + 1)
    BY <1>1, <2>2, ArrivesShape
  <2>. QED
    BY <1>5, <2>1, <2>2
<1>9. x.id <= started'
  BY <1>1, <1>2, <1>8
<1>10. TypeInv'
  BY <1>2, <1>6, <1>7, <1>8, <1>9, FrameType
<1>. QED
  BY <1>2, <1>5, <1>6, <1>8, <1>10

\* What the requests of Next ask for.
LEMMA RequestsAsk ==
    \A r \in Requests : Asked(r) /\ (r.op \in Verifications => BadRequest(r))
BY RequestsAssumption DEF Asked, BadRequest, Verifications, Rotating

LEMMA PurgeStep ==
    ASSUME TypeInv, PurgeSecret
    PROVE  /\ TypeInv'
           /\ UNCHANGED <<backend, entry, faults, now, proc, started, audit, issued, past>>
BY DEF PurgeSecret, Purge, TypeInv, StoreInv, Record, SecretName

LEMMA TickStep ==
    ASSUME TypeInv, Tick
    PROVE  /\ TypeInv' /\ now' = now + 1 /\ now \in Nat
           /\ UNCHANGED <<storeVars, proc, started, audit, issued, past>>
<1>1. now' \in 0..MaxNow /\ now' = now + 1 /\ now \in Nat
  BY OpsAssumption DEF Tick, TypeInv, StoreInv
<1>2. UNCHANGED <<storeVars, proc, started, audit, issued, past>>
  BY DEF Tick
<1>3. StoreInv'
  BY <1>1, <1>2 DEF TypeInv, StoreInv, Record, SecretName, storeVars
<1>. QED
  BY <1>1, <1>2, <1>3 DEF TypeInv, storeVars

LEMMA StutterStep == ASSUME TypeInv, UNCHANGED vars PROVE TypeInv'
BY DEF vars, storeVars, TypeInv, StoreInv, Record, SecretName

LEMMA TypeInit == Init => TypeInv
<1>. SUFFICES ASSUME Init PROVE TypeInv
  OBVIOUS
<1>1. StoreInv
  BY OpsAssumption, FaultsAssumption DEF Init, StoreInit, StoreInv
<1>2. \A p \in Procs : proc[p] = Resting
  BY DEF Init
<1>3. Resting.id = 0 /\ Resting.pc = "idle" /\ started = 0
  BY DEF Resting, Init
<1>. QED
  BY <1>1, <1>2, <1>3, RestingShape DEF TypeInv, Init

\* The actions of p, with the request it begins with named.
Handles(p) ==
    \/ ConnectFails(p) \/ LookFinds(p) \/ LookFails(p)
    \/ Store(p) \/ Create(p) \/ Delete(p) \/ List(p)
    \/ Sign(p) \/ Verify(p) \/ Details(p) \/ Commit(p) \/ Abort(p)

NewRequest(p, r) ==
    /\ Begin(p, r) /\ Asked(r)
    /\ r.op \in Verifications => BadRequest(r) \/ r.of \in issued

LEMMA NextIs ==
    ASSUME Next
    PROVE  \/ \E p \in Procs : Handles(p) \/ \E r : NewRequest(p, r)
           \/ PurgeSecret \/ Tick
<1>1. ASSUME NEW p \in Procs, NEW r \in Requests, Begin(p, r)
      PROVE  NewRequest(p, r)
  BY <1>1, RequestsAsk DEF NewRequest
<1>2. ASSUME NEW p \in Procs, NEW c \in Checks, NEW i \in issued, BeginCheck(p, c, i)
      PROVE  \E r : NewRequest(p, r)
  <2>. DEFINE r == [op |-> c.op, name |-> c.name, algorithm |-> c.algorithm, hex |-> TRUE,
                    of |-> i, content |-> IF c.same THEN i.sig.content ELSE "other"]
  <2>1. Begin(p, r) /\ r.of \in issued
    BY <1>2 DEF BeginCheck
  <2>2. Asked(r)
    BY RequestsAssumption DEF Asked
  <2>3. NewRequest(p, r)
    BY <2>1, <2>2 DEF NewRequest
  <2>. HIDE DEF r
  <2>. QED
    BY <2>3
<1>. QED
  BY <1>1, <1>2 DEF Next, Handles

LEMMA HandlesType ==
    ASSUME TypeInv, NEW p \in Procs, Handles(p)
    PROVE  TypeInv' /\ Handled(p)
BY ConnectFailsStep, LookFindsStep, LookFailsStep, StoreStep, CreateStep, DeleteStep, ListStep,
   SignStep, VerifyStep, DetailsStep, CommitStep, AbortStep DEF Handles

LEMMA TypeStep == TypeInv /\ [Next]_vars => TypeInv'
<1>. SUFFICES ASSUME TypeInv, [Next]_vars PROVE TypeInv'
  OBVIOUS
<1>1. ASSUME NEW p \in Procs, NEW r, NewRequest(p, r) PROVE TypeInv'
  BY <1>1, BeginStep DEF NewRequest
<1>. QED
  BY <1>1, NextIs, HandlesType, PurgeStep, TickStep, StutterStep

\* Where each action leaves p.
LEMMA NextPc ==
    ASSUME TypeInv, NEW p \in Procs
    PROVE  /\ LookFails(p) => proc'[p].pc \in {"store", "idle"}
           /\ Store(p) => proc'[p].pc \in {"look", "create", "idle"}
           /\ Create(p) => proc'[p].pc \in {"look", "idle"}
           /\ ConnectFails(p) \/ Delete(p) \/ List(p) \/ Details(p) \/ Commit(p) \/ Abort(p) =>
                proc'[p].pc = "idle"
<1>1. Shape(proc[p]) /\ Req(p) = proc[p].req /\ proc[p].req.name \in Names
  BY InStep
<1>2. ASSUME NEW result
      PROVE  Shape(Called(p, result)) /\ Called(p, result).pc = proc[p].pc
             /\ Called(p, result).req = proc[p].req
  BY <1>1, CalledShape
<1>3. LookFails(p) => proc'[p].pc \in {"store", "idle"}
  <2>1. SUFFICES ASSUME LookFails(p) PROVE proc'[p].pc \in {"store", "idle"}
    OBVIOUS
  <2>2. proc[p].pc = "look" /\ proc[p].req.op \in Looking
    BY <1>1, <2>1 DEF LookFails, Shape
  <2>3. PICK result \in {"missing", "fault"} :
            \/ Req(p).op = "sign" /\ proc'[p] = Provisions(Called(p, result), Fresh(p))
            \/ proc'[p] = NotFound(Called(p, result))
    BY <2>1, LookFailsStep
  <2>4. Fresh(p) \in Entries /\ Fresh(p).name = proc[p].req.name
    BY <1>1, InStep, FreshType
  <2>5. CASE Req(p).op = "sign" /\ proc'[p] = Provisions(Called(p, result), Fresh(p))
    BY <1>1, <1>2, <2>2, <2>4, <2>5, ProvisionsShape
  <2>6. CASE proc'[p] = NotFound(Called(p, result))
    BY <1>2, <2>2, <2>6, NotFoundIs DEF Ended
  <2>. QED
    BY <2>3, <2>5, <2>6
<1>4. ASSUME proc[p].pc \in {"store", "rotate", "create"}
      PROVE  Stored(proc[p]).pc \in {"look", "idle"}
  <2>1. CASE proc[p].req.op = "sign"
    <3>1. proc[p].pc \in {"store", "create"}
      BY <1>1, <1>4, <2>1 DEF Shape
    <3>. QED
      BY <1>1, <1>4, <2>1, <3>1, StoredShape, AgainShape
  <2>2. CASE proc[p].req.op # "sign"
    <3>1. Said(200, "none")
      BY DEF Said
    <3>. QED
      BY <1>1, <1>4, <2>2, <3>1, StoredShape, ReplyShape DEF Ended, From
  <2>. QED
    BY <2>1, <2>2
<1>5. ASSUME NEW result
      PROVE  /\ Reply(Called(p, result), 503, "none").pc = "idle"
             /\ Reply(Called(p, result), 500, "unhandled").pc = "idle"
  <2>1. Said(503, "none") /\ Said(500, "unhandled")
    BY DEF Said
  <2>. QED
    BY <1>2, <2>1, ReplyShape DEF Ended, From
<1>6. Store(p) => proc'[p].pc \in {"look", "create", "idle"}
  <2>1. SUFFICES ASSUME Store(p) PROVE proc'[p].pc \in {"look", "create", "idle"}
    OBVIOUS
  <2>2. proc[p].pc \in {"store", "rotate"}
    BY <2>1 DEF Store
  <2>3. CASE \E new \in Entries : proc'[p] = Creates(proc[p], new)
    BY <1>1, <2>3 DEF Creates, Shape, Process
  <2>. QED
    BY <1>4, <1>5, <2>1, <2>2, <2>3, StoreStep
<1>7. Create(p) => proc'[p].pc \in {"look", "idle"}
  BY <1>4, <1>5, CreateStep DEF Create
<1>8. ConnectFails(p) \/ Delete(p) \/ List(p) \/ Details(p) \/ Commit(p) \/ Abort(p) =>
        proc'[p].pc = "idle"
  <2>1. Resting.pc = "idle"
    BY DEF Resting
  <2>2. Commit(p) => proc'[p].pc = "idle"
    <3>1. SUFFICES ASSUME Commit(p) PROVE proc'[p].pc = "idle"
      OBVIOUS
    <3>2. Said(200, proc[p].verdict)
      BY <1>1, <3>1 DEF Commit, Shape, Said
    <3>. QED
      BY <1>1, <3>1, <3>2, CommitStep, ReplyShape DEF Ended, From
  <2>. QED
    BY <2>1, <2>2, ConnectFailsStep, DeleteStep, ListStep, DetailsStep, AbortStep
<1>. QED
  BY <1>3, <1>6, <1>7, <1>8

(***************************************************************************)
(* The audit trail: a request's row is there only once it is answered.     *)
(***************************************************************************)
AuditInv ==
    /\ \A p, q \in Procs : p # q /\ proc[p].id # 0 => proc[p].id # proc[q].id
    /\ \A r \in audit : r.id \in 1..started /\ r.verdict \in {"signed", "valid", "invalid"}
    /\ \A p \in Procs, r \in audit : r.id = proc[p].id =>
        /\ proc[p].pc = "idle"
        /\ proc[p].answer.status = 200 => proc[p].answer.body = r.verdict

LEMMA AuditFrame ==
    ASSUME TypeInv, TypeInv', AuditInv, NEW p \in Procs, Handled(p), proc[p].pc # "idle",
           audit \subseteq audit',
           \A r \in audit' \ audit :
                /\ r.id = proc[p].id /\ r.verdict \in {"signed", "valid", "invalid"}
                /\ proc'[p].id # 0 =>
                    /\ proc'[p].pc = "idle"
                    /\ proc'[p].answer.status = 200 => proc'[p].answer.body = r.verdict
    PROVE  AuditInv'
<1>1. /\ started \in Nat /\ started' = started
      /\ \A q \in Procs : Shape(proc[q]) /\ proc[q].id \in Nat /\ proc[q].id <= started
  BY OpsAssumption DEF TypeInv, StoreInv, Shape, Process, Handled
<1>2. /\ proc'[p].id \in {0, proc[p].id}
      /\ \A q \in Procs \ {p} : /\ proc'[q].id = proc[q].id /\ proc'[q].pc = proc[q].pc
                               /\ proc'[q].answer = proc[q].answer
  BY <1>1, RacedShape DEF Handled, Frame, From
<1>3. proc[p].id \in 1..started
  BY <1>1 DEF Shape
<1>4. ASSUME NEW q1 \in Procs, NEW q2 \in Procs, q1 # q2, proc'[q1].id # 0
      PROVE  proc'[q1].id # proc'[q2].id
  BY <1>2, <1>4 DEF AuditInv
<1>5. ASSUME NEW r \in audit'
      PROVE  r.id \in 1..started' /\ r.verdict \in {"signed", "valid", "invalid"}
  <2>1. CASE r \in audit
    BY <1>1, <2>1 DEF AuditInv
  <2>2. CASE r \notin audit
    BY <1>1, <1>3, <2>2
  <2>. QED
    BY <2>1, <2>2
<1>6. ASSUME NEW q \in Procs, NEW r \in audit', r.id = proc'[q].id
      PROVE  /\ proc'[q].pc = "idle"
             /\ proc'[q].answer.status = 200 => proc'[q].answer.body = r.verdict
  <2>1. proc'[q].id # 0
    BY <1>1, <1>5, <1>6
  <2>2. CASE q = p
    <3>1. r.id = proc[p].id
      BY <1>2, <1>6, <2>1, <2>2
    <3>2. r \notin audit
      BY <3>1 DEF AuditInv
    <3>. QED
      BY <2>1, <2>2, <3>2
  <2>3. CASE q # p
    <3>1. r.id = proc[q].id /\ proc[q].id # proc[p].id
      BY <1>2, <1>6, <2>1, <2>3 DEF AuditInv
    <3>2. r \in audit
      BY <3>1
    <3>. QED
      BY <1>2, <2>3, <3>1, <3>2 DEF AuditInv
  <2>. QED
    BY <2>2, <2>3
<1>. QED
  BY <1>4, <1>5, <1>6 DEF AuditInv

LEMMA CommitAnswers ==
    ASSUME TypeInv, NEW p \in Procs, Commit(p)
    PROVE  /\ proc'[p].pc = "idle" /\ proc'[p].answer = Answer(200, proc[p].verdict)
           /\ Row(p).id = proc[p].id /\ Row(p).verdict = proc[p].verdict
           /\ proc[p].verdict \in {"signed", "valid", "invalid"}
<1>1. Shape(proc[p]) /\ proc[p].pc = "commit"
  BY InStep DEF Commit
<1>2. proc'[p] = Reply(proc[p], 200, proc[p].verdict)
  BY CommitStep
<1>3. /\ proc[p].verdict \in {"signed", "valid", "invalid"}
      /\ proc[p].req.op = "sign" \/ proc[p].req.op \in Verifications
  BY <1>1 DEF Shape
<1>4. Row(p).id = proc[p].id /\ Row(p).verdict = proc[p].verdict
  BY DEF Row
<1>5. \/ proc'[p] = AfterSigning(proc[p], Answer(200, proc[p].verdict))
      \/ proc'[p] = AfterCheck(proc[p], Answer(200, proc[p].verdict))
  BY <1>2, <1>3, ReplyIs DEF Kept
<1>6. proc'[p].pc = "idle" /\ proc'[p].answer = Answer(200, proc[p].verdict)
  <2>1. ASSUME NEW a
        PROVE  AfterSigning(proc[p], a).pc = "idle" /\ AfterSigning(proc[p], a).answer = a
    BY DEF AfterSigning, Resting
  <2>2. ASSUME NEW a
        PROVE  AfterCheck(proc[p], a).pc = "idle" /\ AfterCheck(proc[p], a).answer = a
    BY <1>1 DEF AfterCheck, Shape, Process
  <2>. QED
    BY <1>5, <2>1, <2>2
<1>. QED
  BY <1>3, <1>4, <1>6

LEMMA AuditStep == TypeInv /\ AuditInv /\ [Next]_vars => AuditInv'
<1>. SUFFICES ASSUME TypeInv, AuditInv, [Next]_vars PROVE AuditInv'
  OBVIOUS
<1>1. TypeInv'
  BY TypeStep
<1>2. ASSUME NEW p \in Procs, Handles(p) PROVE AuditInv'
  <2>1. Handled(p) /\ proc[p].pc # "idle"
    BY <1>2, HandlesType
       DEF Handles, ConnectFails, LookFinds, LookFails, Store, Create, Delete, List, Sign, Verify,
           Details, Ready, Commit, Abort
  <2>2. CASE Commit(p)
    <3>1. audit' = audit \cup {Row(p)}
      BY <2>2 DEF Commit
    <3>2. /\ proc'[p].pc = "idle" /\ proc'[p].answer.body = proc[p].verdict
          /\ Row(p).id = proc[p].id /\ Row(p).verdict = proc[p].verdict
          /\ proc[p].verdict \in {"signed", "valid", "invalid"}
      <4>1. \A v : Answer(200, v).body = v
        BY DEF Answer
      <4>. QED
        BY <2>2, <4>1, CommitAnswers
    <3>. QED
      BY <1>1, <2>1, <3>1, <3>2, AuditFrame
  <2>3. CASE Abort(p)
    <3>1. proc'[p].id = 0
      BY <2>3, AbortStep DEF Resting
    <3>2. audit' = audit \/ (proc[p].pc = "commit" /\ audit' = audit \cup {Row(p)})
      BY <2>3 DEF Abort
    <3>3. proc[p].pc = "commit" =>
            Row(p).id = proc[p].id /\ Row(p).verdict \in {"signed", "valid", "invalid"}
      BY InStep DEF Shape, Row
    <3>. QED
      BY <1>1, <2>1, <3>1, <3>2, <3>3, AuditFrame
  <2>4. CASE audit' = audit
    BY <1>1, <2>1, <2>4, AuditFrame
  <2>. QED
    BY <1>2, <2>2, <2>3, <2>4
       DEF Handles, ConnectFails, LookFinds, LookFails, Store, Create, Delete, List, Sign, Verify,
           Details
<1>3. ASSUME NEW p \in Procs, NEW r, NewRequest(p, r) PROVE AuditInv'
  <2>1. /\ Frame(p) /\ audit' = audit /\ started' = started + 1 /\ proc[p].pc = "idle"
        /\ proc'[p] = Resting \/ proc'[p] = Arrives(r, started + 1)
    BY <1>3, BeginStep DEF NewRequest
  <2>2. /\ started \in Nat
        /\ \A q \in Procs : Shape(proc[q]) /\ proc[q].id \in Nat /\ proc[q].id <= started
    BY OpsAssumption DEF TypeInv, StoreInv, Shape, Process
  <2>3. proc'[p].id \in {0, started + 1}
    BY <1>3, <2>1, <2>2, ArrivesShape DEF Resting, NewRequest
  <2>4. \A q \in Procs \ {p} : /\ proc'[q].id = proc[q].id /\ proc'[q].pc = proc[q].pc
                               /\ proc'[q].answer = proc[q].answer
    BY <2>1, <2>2, RacedShape DEF Frame
  <2>5. \A r1 \in audit : r1.id \in 1..started /\ r1.id # started + 1 /\ r1.id # 0
    BY <2>2 DEF AuditInv
  <2>6. \A q \in Procs : proc[q].id # started + 1
    BY <2>2
  <2>7. ASSUME NEW q1 \in Procs, NEW q2 \in Procs, q1 # q2, proc'[q1].id # 0
        PROVE  proc'[q1].id # proc'[q2].id
    BY <2>3, <2>4, <2>6, <2>7 DEF AuditInv
  <2>8. ASSUME NEW r1 \in audit'
        PROVE  r1.id \in 1..started' /\ r1.verdict \in {"signed", "valid", "invalid"}
    BY <2>1, <2>2, <2>5 DEF AuditInv
  <2>9. ASSUME NEW q \in Procs, NEW r1 \in audit', r1.id = proc'[q].id
        PROVE  /\ proc'[q].pc = "idle"
               /\ proc'[q].answer.status = 200 => proc'[q].answer.body = r1.verdict
    <3>1. q # p
      BY <2>1, <2>3, <2>5, <2>9
    <3>. QED
      BY <2>1, <2>4, <2>9, <3>1 DEF AuditInv
  <2>. QED
    BY <2>7, <2>8, <2>9 DEF AuditInv
<1>4. CASE UNCHANGED <<proc, audit, started>>
  BY <1>4 DEF AuditInv
<1>. QED
  BY <1>2, <1>3, <1>4, NextIs, PurgeStep, TickStep DEF vars

LEMMA AuditInit == Init => AuditInv
BY DEF Init, AuditInv, Resting

-----------------------------------------------------------------------------
(***************************************************************************)
(* The entry a request works on is one that was stored under its secret.   *)
(***************************************************************************)
FromStore(x) ==
    [secret |-> SecretName(x.req.name), cert |-> x.got.cert, key |-> x.got.key,
     name |-> x.got.name] \in past

Made(x) ==
    /\ x.got.cert \in Certificates /\ x.got.key \in PrivateKeys
    /\ x.at \in x.got.cert.from..x.got.cert.until
    /\ Supported(x.req.algorithm)

Certified(i) ==
    /\ i.cert \in Certificates
    /\ i.sig.hash \in {Spelling(n, FALSE) : n \in SUPPORTED_ALGORITHMS}
    /\ i.sig = [pair |-> i.sig.pair, hash |-> i.sig.hash, content |-> i.sig.content]
    /\ i.at \in i.cert.from..i.cert.until
    /\ \E t \in past : /\ t.cert = i.cert /\ t.key = KeyPem(i.sig.pair)
                       /\ SecretName(t.name) = SecretName(i.name)

CertOf(x) ==
    /\ x.pc \in {"engine", "commit"} => FromStore(x)
    /\ x.pc = "commit" /\ x.req.op = "sign" => Made(x)

CertInv ==
    /\ \A p \in Procs : CertOf(proc[p])
    /\ \A i \in issued : Certified(i)

LEMMA IssuedStep ==
    ASSUME TypeInv, CertInv, [Next]_vars
    PROVE  /\ backend' = backend /\ past \subseteq past' /\ issued \subseteq issued'
           /\ \A i \in issued' : Certified(i)
<1>1. ASSUME NEW p \in Procs, Commit(p), NEW i \in issued', i \notin issued
      PROVE  Certified(i)
  <2>1. i = Given(p) /\ Req(p).op = "sign" /\ proc[p].pc = "commit"
    BY <1>1 DEF Commit
  <2>2. Made(proc[p]) /\ FromStore(proc[p]) /\ proc[p].got \in Entries
    BY <2>1, InStep DEF CertInv, CertOf, Shape
  <2>3. /\ i.cert = proc[p].got.cert /\ i.name = proc[p].req.name /\ i.at = proc[p].at
        /\ i.sig = [pair |-> proc[p].got.key.pair, hash |-> lower(proc[p].req.algorithm),
                    content |-> proc[p].req.content]
    BY <2>1 DEF Given, Signature, Req, Got
  <2>4. proc[p].got.key = KeyPem(proc[p].got.key.pair)
    BY <2>2 DEF Made, KeyPem, PrivateKeys
  <2>5. lower(proc[p].req.algorithm) \in {Spelling(n, FALSE) : n \in SUPPORTED_ALGORITHMS}
    BY <2>2 DEF Made, Supported
  <2>6. PICK t \in past : /\ t.secret = SecretName(proc[p].req.name)
                         /\ t.cert = proc[p].got.cert /\ t.key = proc[p].got.key
    BY <2>2 DEF FromStore
  <2>7. t.cert = i.cert /\ SecretName(t.name) = SecretName(i.name)
    BY <2>3, <2>6 DEF TypeInv, StoreInv
  <2>11. t.key = KeyPem(i.sig.pair)
    <3>1. i.sig.pair = proc[p].got.key.pair
      BY <2>3
    <3>. QED
      BY <2>4, <2>6, <3>1
  <2>8. i.cert \in Certificates /\ i.at \in i.cert.from..i.cert.until
    BY <2>2, <2>3 DEF Made
  <2>9. /\ i.sig.hash = lower(proc[p].req.algorithm) /\ i.sig.content = proc[p].req.content
        /\ i.sig.pair = proc[p].got.key.pair
    BY <2>3
  <2>10. i.sig = [pair |-> i.sig.pair, hash |-> i.sig.hash, content |-> i.sig.content]
    BY <2>3, <2>9
  <2>. QED
    BY <2>5, <2>7, <2>8, <2>9, <2>10, <2>11 DEF Certified
<1>2. \A i \in issued : Certified(i)
  BY DEF CertInv
<1>3. ASSUME NEW p \in Procs, Handles(p)
      PROVE  /\ backend' = backend /\ past \subseteq past' /\ issued \subseteq issued'
             /\ Commit(p) \/ issued' = issued
  BY <1>3, HandlesType
     DEF Handles, Handled, Frame, ConnectFails, LookFinds, LookFails, Store, Create, Delete, List,
         Sign, Verify, Details, Abort
<1>4. \/ \E p \in Procs : Handles(p)
      \/ backend' = backend /\ past' = past /\ issued' = issued
  BY NextIs, BeginStep, PurgeStep, TickStep DEF vars, storeVars, NewRequest
<1>. QED
  BY <1>1, <1>2, <1>3, <1>4

LEMMA CertifiedStays ==
    ASSUME backend' = backend, past \subseteq past', NEW i, Certified(i)
    PROVE  Certified(i)'
BY DEF Certified, SecretName

\* What certifies p's signature stays, and so does what other requests found.
LEMMA CertFrame ==
    ASSUME TypeInv, CertInv, NEW p \in Procs, Frame(p), NEW q \in Procs,
           q # p \/ (/\ proc'[p].req = proc[p].req /\ proc'[p].got = proc[p].got
                    /\ proc[p].pc \in {"engine", "commit"}),
           q = p => (proc'[p].pc = "commit" /\ proc'[p].req.op = "sign" => Made(proc'[p]))
    PROVE  CertOf(proc[q])'
<1>1. /\ backend' = backend /\ past \subseteq past'
      /\ q # p => /\ proc'[q].pc = proc[q].pc /\ proc'[q].req = proc[q].req
                  /\ proc'[q].got = proc[q].got /\ proc'[q].at = proc[q].at
  BY RacedShape DEF Frame, TypeInv
<1>2. CertOf(proc[q])
  BY DEF CertInv
<1>3. ASSUME proc'[q].pc \in {"engine", "commit"} PROVE FromStore(proc[q])'
  <2>1. FromStore(proc[q]) /\ proc'[q].req = proc[q].req /\ proc'[q].got = proc[q].got
    BY <1>1, <1>2, <1>3 DEF CertOf
  <2>. QED
    BY <1>1, <2>1 DEF FromStore, SecretName
<1>4. ASSUME proc'[q].pc = "commit", proc'[q].req.op = "sign" PROVE Made(proc'[q])
  <2>1. CASE q = p
    BY <1>4, <2>1
  <2>2. CASE q # p
    BY <1>1, <1>2, <1>4, <2>2 DEF CertOf, Made
  <2>. QED
    BY <2>1, <2>2
<1>. QED
  BY <1>3, <1>4 DEF CertOf, Made

LEMMA CertHandles ==
    ASSUME TypeInv, CertInv, NEW p \in Procs, Handles(p)
    PROVE  CertOf(proc[p])'
<1>1. /\ TypeInv' /\ Handled(p) /\ Frame(p) /\ Shape(proc[p]) /\ Shape(proc'[p])
      /\ Req(p) = proc[p].req /\ proc[p].req.name \in Names
  BY HandlesType, InStep DEF Handled, TypeInv
<1>2. CASE proc'[p].pc \notin {"engine", "commit"}
  BY <1>2 DEF CertOf
<1>3. CASE LookFinds(p)
  <2>. DEFINE s == SecretName(Req(p).name)
  <2>1. /\ entry[s] # Absent /\ entry[s] \in Entries /\ proc'[p] = Found(proc[p], entry[s])
        /\ proc[p].pc = "look"
    BY <1>3, LookFindsStep DEF LookFinds
  <2>2. proc'[p].pc = "engine" /\ proc'[p].req = proc[p].req /\ proc'[p].got = entry[s]
    BY <1>1, <2>1, FoundShape
  <2>3. Record(s) \in past
    BY <2>1, InStep DEF TypeInv, StoreInv
  <2>4. FromStore(proc[p])'
    BY <1>1, <2>2, <2>3 DEF FromStore, Record, Frame, SecretName
  <2>. QED
    BY <2>2, <2>4 DEF CertOf
<1>4. CASE Sign(p) /\ proc'[p].pc = "commit"
  <2>1. CanSign(Got(p).key, Got(p).cert, Req(p).algorithm, now) /\ proc'[p] = Signs(proc[p], now)
    <3>1. proc'[p] # Reply(proc[p], 500, "signing_error")
      BY <1>1, <1>4, ReplyShape DEF Said, Ended
    <3>. QED
      BY <1>4, <3>1, SignStep
  <2>2. proc[p].pc = "engine" /\ proc[p].req.op = "sign" /\ proc[p].got \in Entries /\ now \in Nat
    BY <1>1, <1>4, InStep DEF Sign, Ready, Shape
  <2>3. /\ proc'[p].req = proc[p].req /\ proc'[p].got = proc[p].got /\ proc'[p].at = now
    BY <1>1, <2>1, <2>2, SignsShape
  <2>4. /\ proc[p].got.cert \in Certificates /\ proc[p].got.key \in PrivateKeys
        /\ ~(now > proc[p].got.cert.until) /\ ~(now < proc[p].got.cert.from)
        /\ Supported(proc[p].req.algorithm)
    BY <1>1, <2>1, <2>2 DEF CanSign, Constructs, Got, Entries
  <2>5. now \in proc[p].got.cert.from..proc[p].got.cert.until
    BY <2>2, <2>4 DEF Certificates
  <2>6. Made(proc'[p])
    BY <2>3, <2>4, <2>5 DEF Made
  <2>. QED
    BY <1>1, <2>2, <2>3, <2>6, CertFrame
<1>5. CASE Verify(p) /\ proc'[p].pc = "commit"
  <2>1. proc[p].pc = "engine" /\ proc[p].req.op \in Verifications
    BY <1>1, <1>5 DEF Verify, Ready
  <2>2. VerdictOf(proc[p]) \in {"valid", "invalid"} /\ proc'[p] = Judges(proc[p], VerdictOf(proc[p]), now)
    <3>1. proc'[p] # Reply(proc[p], 200, "invalid")
      BY <1>1, <1>5, ReplyShape DEF Said, Ended
    <3>. QED
      BY <1>5, <3>1, VerifyStep
  <2>3. proc'[p].req = proc[p].req /\ proc'[p].got = proc[p].got
    BY <1>1, <2>1, <2>2, InStep, JudgesShape
  <2>. QED
    BY <1>1, <2>1, <2>3, CertFrame DEF Verifications
<1>6. LookFinds(p) \/ (Sign(p) /\ proc'[p].pc = "commit") \/ (Verify(p) /\ proc'[p].pc = "commit")
      \/ proc'[p].pc \notin {"engine", "commit"}
  <2>1. Sign(p) => proc'[p].pc \in {"commit", "idle"}
    <3>1. Said(500, "signing_error")
      BY DEF Said
    <3>2. Reply(proc[p], 500, "signing_error").pc = "idle"
      BY <1>1, <3>1, ReplyShape DEF Ended, From
    <3>3. Signs(proc[p], now).pc = "commit"
      BY <1>1 DEF Signs, Shape, Process
    <3>. QED
      BY <3>2, <3>3, SignStep
  <2>2. Verify(p) => proc'[p].pc \in {"commit", "idle"}
    <3>1. Said(200, "invalid")
      BY DEF Said
    <3>2. Reply(proc[p], 200, "invalid").pc = "idle"
      BY <1>1, <3>1, ReplyShape DEF Ended, From
    <3>3. Judges(proc[p], VerdictOf(proc[p]), now).pc = "commit"
      BY <1>1 DEF Judges, Shape, Process
    <3>. QED
      BY <3>2, <3>3, VerifyStep
  <2>. QED
    BY <2>1, <2>2, NextPc DEF Handles
<1>. QED
  BY <1>2, <1>3, <1>4, <1>5, <1>6

LEMMA CertStep == TypeInv /\ CertInv /\ [Next]_vars => CertInv'
<1>. SUFFICES ASSUME TypeInv, CertInv, [Next]_vars PROVE CertInv'
  OBVIOUS
<1>1. \A i \in issued' : Certified(i)'
  BY IssuedStep, CertifiedStays
<1>2. ASSUME NEW p \in Procs, Handles(p) PROVE \A q \in Procs : CertOf(proc[q])'
  BY <1>2, HandlesType, CertHandles, CertFrame DEF Handled
<1>3. ASSUME NEW p \in Procs, NEW r, NewRequest(p, r) PROVE \A q \in Procs : CertOf(proc[q])'
  <2>1. Frame(p) /\ proc'[p].pc \in {"idle", "look", "list", "rotate", "delete"}
    BY <1>3, BeginStep DEF NewRequest
  <2>2. proc'[p].pc \notin {"engine", "commit"}
    BY <2>1
  <2>3. CertOf(proc[p])'
    BY <2>2 DEF CertOf
  <2>. QED
    BY <2>1, <2>3, CertFrame
<1>4. ASSUME UNCHANGED <<proc, past, backend>> PROVE \A q \in Procs : CertOf(proc[q])'
  BY <1>4 DEF CertInv, CertOf, FromStore, Made, SecretName
<1>. QED
  BY <1>1, <1>2, <1>3, <1>4, NextIs, PurgeStep, TickStep DEF vars, CertInv, storeVars

(***************************************************************************)
(* What a verification answered, or is about to, has a reason.             *)
(***************************************************************************)
Says(x, verdict) ==
    \/ x.pc = "commit" /\ x.verdict = verdict
    \/ x.pc = "idle" /\ x.answer.status = 200 /\ x.answer.body = verdict

Reasons(x) ==
    LET i == x.req.of IN
        \/ x.req.name # i.name \/ x.req.content # i.sig.content
        \/ lower(x.req.algorithm) # i.sig.hash
        \/ x.failed \/ x.got.cert # i.cert
        \/ i.sig.pair # i.cert.pair \/ x.at > i.cert.until

Matches(x) ==
    LET i == x.req.of IN
        /\ x.req.content = i.sig.content /\ lower(x.req.algorithm) = i.sig.hash
        /\ x.got.cert.pair = i.sig.pair /\ x.at <= x.got.cert.until

VerifyOf(x) ==
    x.req.op \in Verifications =>
        /\ x.req.of \in issued
        /\ Says(x, "invalid") => Reasons(x)
        /\ Says(x, "valid") => Matches(x)

VerifyInv == \A p \in Procs : VerifyOf(proc[p])

\* A request that says nothing it did not say before, on the same grounds.
LEMMA VerifyFrame ==
    ASSUME VerifyInv, NEW q \in Procs, issued \subseteq issued',
           proc'[q].req = proc[q].req, proc'[q].got = proc[q].got, proc'[q].at = proc[q].at,
           proc'[q].failed = proc[q].failed,
           \A v \in {"valid", "invalid"} : Says(proc'[q], v) => Says(proc[q], v)
    PROVE  VerifyOf(proc[q])'
<1>1. VerifyOf(proc[q])
  BY DEF VerifyInv
<1>2. Reasons(proc[q]) => Reasons(proc'[q])
  BY DEF Reasons
<1>3. Matches(proc[q]) => Matches(proc'[q])
  BY DEF Matches
<1>4. /\ Says(proc'[q], "valid") => Says(proc[q], "valid")
      /\ Says(proc'[q], "invalid") => Says(proc[q], "invalid")
  OBVIOUS
<1>. QED
  BY <1>1, <1>2, <1>3, <1>4 DEF VerifyOf, Says, Reasons, Matches

LEMMA VerifyQuiet ==
    ASSUME VerifyInv, NEW q \in Procs, issued \subseteq issued',
           \/ proc'[q].req.op \notin Verifications
           \/ proc'[q].req = proc[q].req /\ proc'[q].pc \notin {"idle", "commit"}
    PROVE  VerifyOf(proc[q])'
BY DEF VerifyInv, VerifyOf, Says

LEMMA VerifyOthers ==
    ASSUME TypeInv, VerifyInv, NEW p \in Procs, Frame(p)
    PROVE  \A q \in Procs \ {p} : VerifyOf(proc[q])'
<1>. SUFFICES ASSUME NEW q \in Procs \ {p} PROVE VerifyOf(proc[q])'
  OBVIOUS
<1>1. issued \subseteq issued' /\ (proc'[q] = proc[q] \/ (proc[q].pc # "idle" /\ proc'[q] = RacedBy(proc[q])))
  BY DEF Frame
<1>2. CASE proc'[q] = proc[q]
  BY <1>1, <1>2, VerifyFrame
<1>3. CASE proc[q].pc # "idle" /\ proc'[q] = RacedBy(proc[q])
  <2>1. /\ proc'[q].req = proc[q].req /\ proc'[q].got = proc[q].got
        /\ proc'[q].failed = proc[q].failed /\ proc'[q].pc = proc[q].pc
        /\ proc'[q].at = proc[q].at /\ proc'[q].verdict = proc[q].verdict
    BY <1>3, RacedShape DEF TypeInv
  <2>2. \A v \in {"valid", "invalid"} : Says(proc'[q], v) => Says(proc[q], v)
    BY <1>3, <2>1 DEF Says
  <2>. QED
    BY <1>1, <2>1, <2>2, VerifyFrame
<1>. QED
  BY <1>1, <1>2, <1>3

\* What is answered to a verification.
LEMMA AfterCheckIs ==
    ASSUME NEW x, Shape(x), x.req.op \in Verifications, NEW body, NEW y,
           y = Reply(x, 200, body), body # "unhandled"
    PROVE  /\ y.pc = "idle" /\ y.req = x.req /\ y.got = x.got /\ y.failed = x.failed
           /\ y.at = x.at
           /\ y.answer.status = 200 /\ y.answer.body = body
<1>1. y = AfterCheck(x, Answer(200, body))
  BY ReplyIs
<1>2. Answer(200, body).status = 200 /\ Answer(200, body).body = body
  BY DEF Answer
<1>. QED
  BY <1>1, <1>2 DEF AfterCheck, Shape, Process

\* What the engine says of a signature that a client was given.
LEMMA VerdictIs ==
    ASSUME NEW x, x.got \in Entries, Certified(x.req.of), now \in Nat, NEW y,
           y.got = x.got, y.req = x.req, y.at = now
    PROVE  /\ VerdictOf(x) = "invalid" => Reasons(y)
           /\ VerdictOf(x) = "valid" => Matches(y)
<1>. DEFINE i == x.req.of
            made == Signature(KeyPem(x.got.cert.pair), x.req.algorithm, x.req.content)
<1>1. x.got.cert \in Certificates \cup {Garbage} /\ i.cert \in Certificates
  BY DEF Entries, Certified
<1>2. /\ made = [pair |-> x.got.cert.pair, hash |-> lower(x.req.algorithm), content |-> x.req.content]
      /\ i.sig = [pair |-> i.sig.pair, hash |-> i.sig.hash, content |-> i.sig.content]
  BY DEF Signature, KeyPem, Certified
<1>3. CASE x.got.cert = Garbage
  BY <1>1, <1>3, Distinct DEF VerdictOf, Verdict, Reasons
<1>4. CASE x.got.cert \in Certificates /\ now > x.got.cert.until
  BY <1>4, <1>1, Distinct DEF VerdictOf, Verdict, Reasons, Certificates
<1>5. CASE x.got.cert \in Certificates /\ ~(now > x.got.cert.until)
  <2>1. VerdictOf(x) = IF ~Supported(x.req.algorithm) THEN "raises"
                       ELSE IF i.sig = made THEN "valid" ELSE "invalid"
    BY <1>5, Distinct DEF VerdictOf, Verdict
  <2>. HIDE DEF made
  <2>2. i.sig # made => Reasons(y)
    BY <1>2 DEF Reasons
  <2>3. i.sig = made => Matches(y)
    BY <1>2, <1>5 DEF Matches, Certificates
  <2>. QED
    BY <2>1, <2>2, <2>3
<1>. QED
  BY <1>1, <1>3, <1>4, <1>5

LEMMA VerifyHandles ==
    ASSUME TypeInv, CertInv, VerifyInv, NEW p \in Procs, Handles(p)
    PROVE  VerifyOf(proc[p])'
<1>1. /\ Handled(p) /\ Shape(proc[p]) /\ Req(p) = proc[p].req /\ Got(p) = proc[p].got
      /\ proc'[p].req \in {proc[p].req, Resting.req} /\ Resting.req.op \notin Verifications
      /\ issued \subseteq issued' /\ now \in Nat
  BY HandlesType, InStep DEF Handled, Frame, From, Got, Resting, Verifications
<1>2. CASE proc'[p].req.op \notin Verifications
  BY <1>1, <1>2, VerifyQuiet
<1>3. ASSUME proc'[p].req.op \in Verifications PROVE VerifyOf(proc[p])'
  <2>1. /\ proc'[p].req = proc[p].req /\ proc[p].req.op \in Verifications
        /\ proc[p].req.of \in issued /\ Certified(proc[p].req.of)
    BY <1>1, <1>3 DEF VerifyInv, VerifyOf, CertInv
  <2>2. CASE proc'[p].pc \notin {"idle", "commit"}
    BY <1>1, <2>1, <2>2, VerifyQuiet
  <2>3. CASE proc'[p] = Resting
    BY <1>1, <1>3, <2>3
  <2>4. CASE LookFails(p)
    <3>1. PICK result \in {"missing", "fault"} : proc'[p] = NotFound(Called(p, result))
      BY <1>1, <2>1, <2>4, LookFailsStep DEF Verifications
    <3>. DEFINE x == Called(p, result)
    <3>2. /\ Shape(x) /\ x.req = proc[p].req /\ x.got = NoEntry /\ x.req.op \in Looking
      BY <1>1, <2>1, <2>4, CalledShape DEF LookFails, Shape, Looking
    <3>. HIDE DEF x
    <3>3. CASE x.req.op = "verify"
      <4>1. proc'[p] = Reply(x, 503, "none")
        BY <3>1, <3>2, <3>3, NotFoundIs DEF x
      <4>2. x.req.op \in Verifications /\ x.req.op # "sign"
        BY <3>3 DEF Verifications
      <4>3. proc'[p] = Resting
        BY <4>1, <4>2, ReplyIs
      <4>. QED
        BY <2>3, <4>3
    <3>4. CASE x.req.op = "verify_default"
      <4>1. proc'[p] = Reply(x, 200, "invalid")
        BY <3>1, <3>2, <3>4, NotFoundIs DEF x
      <4>2. /\ proc'[p].pc = "idle" /\ proc'[p].got = NoEntry
            /\ proc'[p].answer.status = 200 /\ proc'[p].answer.body = "invalid"
        BY <2>1, <3>2, <4>1, AfterCheckIs
      <4>3. proc'[p].got.cert # proc'[p].req.of.cert
        BY <2>1, <4>2, Distinct DEF Certified
      <4>4. Reasons(proc[p])'
        BY <4>3 DEF Reasons
      <4>5. ~Says(proc'[p], "valid")
        BY <4>2 DEF Says
      <4>. QED
        BY <1>1, <2>1, <4>4, <4>5 DEF VerifyOf, Says, Matches, Reasons
    <3>. QED
      BY <2>1, <3>2, <3>3, <3>4 DEF Verifications
  <2>5. CASE Verify(p)
    <3>1. CASE /\ Got(p).cert = Garbage \/ ~Supported(Req(p).algorithm)
               /\ proc'[p] = Reply(proc[p], 200, "invalid")
      <4>1. /\ proc'[p].pc = "idle" /\ proc'[p].got = proc[p].got
            /\ proc'[p].answer.status = 200 /\ proc'[p].answer.body = "invalid"
        BY <1>1, <2>1, <3>1, AfterCheckIs
      <4>2. ASSUME Got(p).cert = Garbage PROVE Reasons(proc[p])'
        <5>1. proc'[p].got.cert # proc'[p].req.of.cert
          BY <1>1, <2>1, <4>1, <4>2, Distinct DEF Certified
        <5>. QED
          BY <5>1 DEF Reasons
      <4>3. ASSUME ~Supported(Req(p).algorithm) PROVE Reasons(proc[p])'
        <5>1. lower(proc'[p].req.algorithm) # proc'[p].req.of.sig.hash
          BY <1>1, <2>1, <4>3 DEF Supported, Certified
        <5>. QED
          BY <5>1 DEF Reasons
      <4>4. Reasons(proc[p])'
        BY <3>1, <4>2, <4>3
      <4>5. ~Says(proc'[p], "valid")
        BY <4>1 DEF Says
      <4>. QED
        BY <1>1, <2>1, <4>4, <4>5 DEF VerifyOf, Says, Matches, Reasons
    <3>2. CASE /\ VerdictOf(proc[p]) \in {"valid", "invalid"}
               /\ proc'[p] = Judges(proc[p], VerdictOf(proc[p]), now)
      <4>1. proc[p].pc = "engine" /\ proc[p].got \in Entries
        BY <1>1, <2>5 DEF Verify, Ready, Shape
      <4>3. /\ proc'[p].pc = "commit" /\ proc'[p].verdict = VerdictOf(proc[p])
            /\ proc'[p].got = proc[p].got /\ proc'[p].at = now
        BY <1>1, <2>1, <3>2, <4>1, JudgesShape
      <4>2. /\ VerdictOf(proc[p]) = "invalid" => Reasons(proc'[p])
            /\ VerdictOf(proc[p]) = "valid" => Matches(proc'[p])
        BY <1>1, <2>1, <4>1, <4>3, VerdictIs
      <4>4. Says(proc'[p], "invalid") => Reasons(proc'[p])
        BY <4>2, <4>3 DEF Says
      <4>5. Says(proc'[p], "valid") => Matches(proc'[p])
        BY <4>2, <4>3 DEF Says
      <4>. QED
        BY <1>1, <2>1, <4>4, <4>5 DEF VerifyOf, Says, Matches, Reasons
    <3>. QED
      BY <2>5, <3>1, <3>2, VerifyStep
  <2>6. CASE Commit(p)
    <3>1. proc'[p] = Reply(proc[p], 200, proc[p].verdict)
      BY <2>6, CommitStep
    <3>2. proc[p].verdict \in {"valid", "invalid"} /\ proc[p].pc = "commit"
      BY <1>1, <2>1, <2>6 DEF Commit, Shape, Verifications
    <3>3. /\ proc'[p].pc = "idle" /\ proc'[p].got = proc[p].got /\ proc'[p].failed = proc[p].failed
          /\ proc'[p].at = proc[p].at /\ proc'[p].answer.status = 200 /\ proc'[p].answer.body = proc[p].verdict
      BY <1>1, <2>1, <3>1, <3>2, AfterCheckIs
    <3>4. \A v \in {"valid", "invalid"} : Says(proc'[p], v) => Says(proc[p], v)
      BY <3>2, <3>3 DEF Says
    <3>. QED
      BY <1>1, <2>1, <3>3, <3>4, VerifyFrame
  <2>8. CASE ConnectFails(p)
    <3>. DEFINE x == Called(p, "fault")
    <3>1. /\ Shape(x) /\ x.req = proc[p].req /\ x.failed /\ proc'[p] = Reply(x, 200, "invalid")
      BY <2>1, <2>8, ConnectFailsStep
    <3>. HIDE DEF x
    <3>2. /\ proc'[p].pc = "idle" /\ proc'[p].failed
          /\ proc'[p].answer.status = 200 /\ proc'[p].answer.body = "invalid"
      BY <2>1, <3>1, AfterCheckIs
    <3>3. Reasons(proc'[p]) /\ ~Says(proc'[p], "valid")
      BY <3>2 DEF Reasons, Says
    <3>. QED
      BY <1>1, <2>1, <3>3 DEF VerifyOf, Says, Matches, Reasons
  <2>7. \/ ConnectFails(p) \/ LookFails(p) \/ Verify(p) \/ Commit(p) \/ proc'[p] = Resting
        \/ proc'[p].pc \notin {"idle", "commit"}
    <3>1. ~Sign(p) /\ ~Store(p) /\ ~Create(p)
      BY <1>1, <2>1 DEF Sign, Ready, Store, Create, Shape, Verifications
    <3>2. LookFinds(p) => proc'[p].pc = "engine"
      <4>1. SUFFICES ASSUME LookFinds(p) PROVE proc'[p].pc = "engine"
        OBVIOUS
      <4>2. PICK e \in Entries : proc'[p] = Found(proc[p], e)
        BY <4>1, LookFindsStep
      <4>3. proc[p].pc = "look"
        BY <4>1 DEF LookFinds
      <4>. QED
        BY <1>1, <4>2, <4>3, FoundShape
    <3>. QED
      BY <3>1, <3>2, DeleteStep, ListStep, DetailsStep, AbortStep DEF Handles
  <2>. QED
    BY <2>2, <2>3, <2>4, <2>5, <2>6, <2>7, <2>8
<1>. QED
  BY <1>2, <1>3

LEMMA VerifyStepInv == TypeInv /\ CertInv /\ VerifyInv /\ [Next]_vars => VerifyInv'
<1>. SUFFICES ASSUME TypeInv, CertInv, VerifyInv, [Next]_vars PROVE VerifyInv'
  OBVIOUS
<1>1. ASSUME NEW p \in Procs, Handles(p) PROVE \A q \in Procs : VerifyOf(proc[q])'
  BY <1>1, HandlesType, VerifyHandles, VerifyOthers DEF Handled
<1>2. ASSUME NEW p \in Procs, NEW r, NewRequest(p, r) PROVE \A q \in Procs : VerifyOf(proc[q])'
  <2>1. /\ Frame(p) /\ issued' = issued
        /\ \/ proc'[p] = Resting
           \/ ~BadRequest(r) /\ proc'[p] = Arrives(r, started + 1)
    BY <1>2, BeginStep DEF NewRequest
  <2>2. CASE proc'[p] = Resting
    BY <2>1, <2>2, VerifyQuiet, VerifyOthers DEF Resting, Verifications
  <2>3. CASE ~BadRequest(r) /\ proc'[p] = Arrives(r, started + 1)
    <3>1. started + 1 \in Nat \ {0}
      BY OpsAssumption DEF TypeInv, StoreInv
    <3>2. /\ proc'[p].req = r /\ proc'[p].answer = NoAnswer
          /\ proc'[p].pc \in {"look", "list", "rotate", "delete"}
      BY <1>2, <2>3, <3>1, ArrivesShape DEF NewRequest
    <3>3. r.op \in Verifications => r.of \in issued
      BY <1>2, <2>3 DEF NewRequest
    <3>4. VerifyOf(proc[p])'
      BY <2>1, <3>2, <3>3 DEF VerifyOf, Says
    <3>. QED
      BY <2>1, <3>4, VerifyOthers
  <2>. QED
    BY <2>1, <2>2, <2>3
<1>3. ASSUME UNCHANGED <<proc, issued>> PROVE \A q \in Procs : VerifyOf(proc[q])'
  BY <1>3, VerifyFrame
<1>. QED
  BY <1>1, <1>2, <1>3, NextIs, PurgeStep, TickStep DEF vars, VerifyInv

(***************************************************************************)
(* What may stand in the way of a provisioning.                            *)
(***************************************************************************)
Excused(x) == x.failed \/ x.raced
Hides(x) == backend = "azure" /\ \E t \in past : t.secret = SecretName(x.req.name)

Provisioning(x) ==
    /\ x.pc \in {"store", "create"} => entry[SecretName(x.req.name)] = Absent \/ Excused(x)
    /\ x.pc = "look" /\ x.second => entry[SecretName(x.req.name)] # Absent \/ Excused(x)
    /\ x.pc = "idle" /\ x.req.op = "sign" =>
        /\ x.answer.status = 503 => Excused(x) \/ Hides(x)
        /\ x.answer.body = "unhandled" =>
            (backend = "aws" /\ Excused(x)) \/ (backend = "vault" /\ x.failed)

ProvisionInv == \A p \in Procs : Provisioning(proc[p])

\* A step of p changes nothing of this for the other requests.
LEMMA ProvisionOthers ==
    ASSUME TypeInv, ProvisionInv, NEW p \in Procs, Frame(p)
    PROVE  \A q \in Procs \ {p} : Provisioning(proc[q])'
<1>. SUFFICES ASSUME NEW q \in Procs \ {p} PROVE Provisioning(proc[q])'
  OBVIOUS
<1>1. /\ Provisioning(proc[q]) /\ Shape(proc[q]) /\ Req(q) = proc[q].req
      /\ backend' = backend /\ past \subseteq past'
  BY DEF ProvisionInv, TypeInv, Frame, Req
<1>2. /\ proc'[q].req = proc[q].req /\ proc'[q].pc = proc[q].pc
      /\ proc'[q].second = proc[q].second /\ proc'[q].answer = proc[q].answer
      /\ proc'[q].failed = proc[q].failed
      /\ Excused(proc[q]) => Excused(proc'[q])
  BY <1>1, RacedShape DEF Frame, Excused
<1>s. PICK s : s = SecretName(proc[q].req.name)
  OBVIOUS
<1>3. proc[q].pc # "idle" => entry'[s] = entry[s] \/ Excused(proc'[q])
  BY <1>s, <1>1 DEF Frame, Excused
<1>4. SecretName(proc[q].req.name)' = s /\ (Hides(proc[q]) => Hides(proc[q])')
  BY <1>s, <1>1, <1>2 DEF SecretName, Hides
<1>. QED
  BY <1>s, <1>1, <1>2, <1>3, <1>4 DEF Provisioning, Excused

\* A refused sign request keeps what happened to it.
LEMMA RefusalIs ==
    ASSUME NEW x, Shape(x), x.req.op = "sign", NEW status, NEW body,
           \/ status = 503 /\ body = "none"
           \/ status = 500 /\ body = "unhandled"
    PROVE  LET y == Reply(x, status, body) IN
           /\ y.pc = "idle" /\ y.req = x.req /\ y.failed = x.failed /\ y.raced = x.raced
           /\ y.answer = Answer(status, body)
<1>1. Reply(x, status, body) = AfterRefusal(x, Answer(status, body))
  BY ReplyIs DEF Kept
<1>. QED
  BY <1>1 DEF AfterRefusal, Resting

\* The answer "unhandled" comes with 500, and 503 with no other body.
LEMMA AnswerIs ==
    ASSUME NEW status, NEW body
    PROVE  Answer(status, body).status = status /\ Answer(status, body).body = body
BY DEF Answer

LEMMA ProvisionHandles ==
    ASSUME TypeInv, ProvisionInv, NEW p \in Procs, Handles(p)
    PROVE  Provisioning(proc[p])'
<1>1. /\ TypeInv' /\ Handled(p) /\ Shape(proc[p]) /\ Req(p) = proc[p].req
      /\ proc[p].req.name \in Names /\ Provisioning(proc[p]) /\ StoreInv
      /\ proc'[p].req \in {proc[p].req, Resting.req} /\ Resting.req.op # "sign"
      /\ backend' = backend /\ past \subseteq past'
  BY HandlesType, InStep DEF Handled, Frame, From, Resting, ProvisionInv, TypeInv
<1>s. PICK s : s = SecretName(proc[p].req.name)
  OBVIOUS
<1>2. CASE /\ proc'[p].pc \notin {"store", "create", "look"}
           /\ proc'[p].pc = "idle" => proc'[p].req.op # "sign"
  BY <1>2 DEF Provisioning
<1>3. ASSUME proc'[p] = Resting PROVE Provisioning(proc[p])'
  BY <1>1, <1>3, <1>2 DEF Resting
<1>4. ASSUME proc'[p].req = proc[p].req PROVE SecretName(proc[p].req.name)' = s
  BY <1>s, <1>1, <1>4 DEF SecretName
<1>5. CASE LookFinds(p)
  <2>1. PICK e \in Entries : proc'[p] = Found(proc[p], e)
    BY <1>5, LookFindsStep
  <2>2. proc'[p].pc = "engine"
    BY <1>1, <1>5, <2>1, FoundShape DEF LookFinds
  <2>. QED
    BY <1>2, <2>2
<1>6. CASE LookFails(p)
  <2>1. PICK result \in {"missing", "fault"} :
            /\ result = "missing" => entry[s] = Absent
            /\ \/ /\ Req(p).op = "sign" /\ ~proc[p].second
                  /\ proc'[p] = Provisions(Called(p, result), Fresh(p))
               \/ /\ ~(Req(p).op = "sign" /\ ~proc[p].second)
                  /\ proc'[p] = NotFound(Called(p, result))
    BY <1>s, <1>1, <1>6, LookFailsStep
  <2>2. entry' = entry /\ proc[p].pc = "look" /\ proc[p].req.op \in Looking
    BY <1>1, <1>6, LookFailsStep DEF LookFails, Shape
  <2>x. PICK x : x = Called(p, result)
    OBVIOUS
  <2>3. /\ Shape(x) /\ x.pc = "look" /\ x.req = proc[p].req /\ x.raced = proc[p].raced
        /\ x.failed = (proc[p].failed \/ result = "fault")
    BY <1>1, <2>2, <2>x, CalledShape
  <2>4. CASE Req(p).op = "sign" /\ proc'[p] = Provisions(x, Fresh(p))
    <3>1. Fresh(p) \in Entries /\ Fresh(p).name = x.req.name
      BY <1>1, <2>3, InStep, FreshType
    <3>2. /\ proc'[p].pc = "store" /\ proc'[p].req = proc[p].req
          /\ proc'[p].failed = x.failed
      BY <1>1, <2>3, <2>4, <3>1, ProvisionsShape
    <3>3. entry'[s] = Absent \/ proc'[p].failed
      BY <2>1, <2>2, <2>3, <3>2
    <3>. QED
      BY <1>4, <3>2, <3>3 DEF Provisioning, Excused
  <2>5. CASE Req(p).op = "sign" /\ proc[p].second /\ proc'[p] = NotFound(x)
    <3>1. proc'[p] = Reply(x, 503, "none")
      BY <1>1, <2>2, <2>3, <2>5, NotFoundIs
    <3>2. /\ proc'[p].pc = "idle" /\ proc'[p].req = proc[p].req /\ proc'[p].raced = proc[p].raced
          /\ proc'[p].failed = x.failed /\ proc'[p].answer.body = "none"
      BY <1>1, <2>3, <2>5, <3>1, RefusalIs, AnswerIs
    <3>3. Excused(proc[p]) \/ result = "fault"
      BY <1>s, <1>1, <2>1, <2>2, <2>5 DEF Provisioning
    <3>4. Excused(proc'[p])
      BY <2>3, <3>2, <3>3 DEF Excused
    <3>. QED
      BY <3>2, <3>4 DEF Provisioning, Excused
  <2>6. CASE Req(p).op # "sign" /\ proc'[p] = NotFound(x)
    <3>1. proc'[p].pc = "idle" /\ proc'[p].req.op # "sign"
      BY <1>1, <2>2, <2>3, <2>6, NotFoundIs DEF Ended
    <3>. QED
      BY <1>2, <3>1
  <2>. QED
    BY <2>1, <2>x, <2>4, <2>5, <2>6
<1>7. ASSUME proc'[p] = Stored(proc[p]), proc[p].pc \in {"store", "rotate", "create"},
             entry'[s] \in Entries
      PROVE  Provisioning(proc[p])'
  <2>1. CASE proc[p].req.op = "sign"
    <3>1. proc[p].pc \in {"store", "create"}
      BY <1>1, <1>7, <2>1 DEF Shape
    <3>2. proc'[p].pc = "look" /\ proc'[p].req = proc[p].req
      BY <1>1, <1>7, <2>1, <3>1, StoredShape, AgainShape
    <3>3. entry'[s] # Absent
      BY <1>7, Distinct
    <3>. QED
      BY <1>4, <3>2, <3>3 DEF Provisioning
  <2>2. CASE proc[p].req.op # "sign"
    <3>1. proc[p].req.op \notin Verifications
      BY <1>1, <1>7 DEF Shape, Verifications
    <3>2. proc'[p] = Resting
      BY <1>1, <1>7, <2>2, <3>1, StoredShape, ReplyForgets
    <3>. QED
      BY <1>3, <3>2
  <2>. QED
    BY <2>1, <2>2
<1>8. ASSUME NEW result, NEW status, NEW body,
             \/ status = 503 /\ body = "none"
             \/ status = 500 /\ body = "unhandled" /\ backend = "aws",
             proc'[p] = Reply(Called(p, result), status, body),
             proc[p].pc \in {"store", "rotate", "create"},
             \/ result = "fault"
             \/ Excused(proc[p])
             \/ status = 503 /\ Hides(proc[p])
      PROVE  Provisioning(proc[p])'
  <2>x. PICK x : x = Called(p, result)
    OBVIOUS
  <2>1. /\ Shape(x) /\ x.req = proc[p].req /\ x.raced = proc[p].raced
        /\ x.failed = (proc[p].failed \/ result = "fault")
    BY <1>1, <2>x, CalledShape
  <2>2. CASE proc[p].req.op = "sign"
    <3>1. /\ proc'[p].pc = "idle" /\ proc'[p].req = proc[p].req /\ proc'[p].raced = proc[p].raced
          /\ proc'[p].failed = x.failed /\ proc'[p].answer = Answer(status, body)
      BY <1>8, <2>x, <2>1, <2>2, RefusalIs
    <3>2. Excused(proc'[p]) \/ (status = 503 /\ Hides(proc[p])')
      BY <1>1, <1>4, <1>s, <1>8, <2>1, <3>1 DEF Excused, Hides
    <3>3. /\ proc'[p].answer.status = status /\ proc'[p].answer.body = body
          /\ body = "unhandled" => status # 503 /\ backend = "aws"
      BY <1>8, <3>1, AnswerIs
    <3>4. /\ status = 503 => Excused(proc'[p]) \/ Hides(proc[p])'
          /\ body = "unhandled" => backend' = "aws" /\ Excused(proc'[p])
      BY <1>1, <3>2, <3>3
    <3>. QED
      BY <3>1, <3>3, <3>4 DEF Provisioning, Excused
  <2>3. CASE proc[p].req.op # "sign"
    <3>1. proc[p].req.op \notin Verifications
      BY <1>1, <1>8 DEF Shape, Verifications
    <3>2. proc'[p] = Resting
      BY <1>8, <2>x, <2>1, <2>3, <3>1, ReplyForgets
    <3>. QED
      BY <1>3, <3>2
  <2>. QED
    BY <2>2, <2>3
<1>9. CASE Store(p)
  <2>1. PICK new \in Entries :
            \/ entry'[s] = new /\ proc'[p] = Stored(proc[p])
            \/ /\ entry[s] = Absent /\ backend = "aws" /\ UNCHANGED entry
               /\ proc'[p] = Creates(proc[p], new)
            \/ s \in hidden /\ proc'[p] = Reply(Called(p, "error"), 503, "none")
            \/ proc'[p] = Reply(Called(p, "fault"), 503, "none")
    BY <1>s, <1>1, <1>9, StoreStep
  <2>2. proc[p].pc \in {"store", "rotate"}
    BY <1>9 DEF Store
  <2>3. CASE entry[s] = Absent /\ UNCHANGED entry /\ proc'[p] = Creates(proc[p], new)
    <3>1. proc'[p].pc = "create" /\ proc'[p].req = proc[p].req
      BY <1>1, <2>3 DEF Creates, Shape, Process
    <3>. QED
      BY <1>4, <2>3, <3>1 DEF Provisioning
  <2>4. s \in hidden => Hides(proc[p])
    BY <1>s, <1>1 DEF StoreInv, Hides
  <2>. QED
    BY <1>7, <1>8, <2>1, <2>2, <2>3, <2>4
<1>10. CASE Create(p)
  <2>1. /\ backend = "aws"
        /\ \/ entry'[s] \in Entries /\ proc'[p] = Stored(proc[p])
           \/ entry[s] # Absent /\ proc'[p] = Reply(Called(p, "exists"), 500, "unhandled")
           \/ proc'[p] = Reply(Called(p, "fault"), 500, "unhandled")
    BY <1>s, <1>1, <1>10, CreateStep
  <2>2. proc[p].pc = "create"
    BY <1>10 DEF Create
  <2>3. entry[s] # Absent => Excused(proc[p])
    BY <1>s, <1>1, <2>2 DEF Provisioning
  <2>. QED
    BY <1>7, <1>8, <2>1, <2>2, <2>3
<1>11. CASE Sign(p)
  <2>1. proc[p].pc = "engine" /\ proc[p].req.op = "sign" /\ now \in Nat
    BY <1>1, <1>11, InStep DEF Sign, Ready
  <2>2. CASE proc'[p] = Signs(proc[p], now)
    <3>1. proc'[p].pc = "commit"
      BY <1>1, <2>1, <2>2, SignsShape
    <3>. QED
      BY <1>2, <3>1
  <2>3. CASE proc'[p] = Reply(proc[p], 500, "signing_error")
    <3>1. proc'[p] = Resting
      BY <2>1, <2>3, ReplyIs DEF Kept
    <3>. QED
      BY <1>3, <3>1
  <2>. QED
    BY <1>11, <2>2, <2>3, SignStep
<1>12. CASE Verify(p)
  <2>1. proc[p].pc = "engine" /\ proc[p].req.op \in Verifications
    BY <1>1, <1>12 DEF Verify, Ready
  <2>2. proc'[p].req.op # "sign"
    BY <1>1, <2>1 DEF Verifications
  <2>3. proc'[p].pc \in {"commit", "idle"}
    <3>1. Said(200, "invalid")
      BY DEF Said
    <3>2. Reply(proc[p], 200, "invalid").pc = "idle"
      BY <1>1, <3>1, ReplyShape DEF Ended, From
    <3>3. Judges(proc[p], VerdictOf(proc[p]), now).pc = "commit"
      BY <1>1 DEF Judges, Shape, Process
    <3>. QED
      BY <1>12, <3>2, <3>3, VerifyStep
  <2>. QED
    BY <1>2, <2>2, <2>3
<1>13. CASE Commit(p)
  <2>1. proc'[p] = Reply(proc[p], 200, proc[p].verdict) /\ Shape(proc[p]) /\ proc[p].pc = "commit"
    BY <1>1, <1>13, CommitStep DEF Commit
  <2>2. proc'[p].pc = "idle"
    BY <1>13, NextPc
  <2>3. proc'[p].req.op # "sign"
    <3>1. CASE proc[p].req.op = "sign"
      <4>1. proc[p].verdict = "signed"
        BY <2>1, <3>1 DEF Shape, Verifications
      <4>2. proc'[p] = AfterSigning(proc[p], Answer(200, "signed"))
        BY <2>1, <3>1, <4>1, ReplyIs DEF Kept
      <4>. QED
        BY <4>2 DEF AfterSigning, Resting
    <3>. QED
      BY <1>1, <3>1
  <2>. QED
    BY <1>2, <2>2, <2>3
<1>15. CASE ConnectFails(p)
  <2>. DEFINE x == Called(p, "fault")
  <2>1. /\ Shape(x) /\ x.req = proc[p].req /\ x.failed /\ backend = "vault" /\ proc'[p].pc = "idle"
        /\ proc[p].req.op = "sign" => proc'[p] = Reply(x, 500, "unhandled")
    BY <1>15, ConnectFailsStep
  <2>. HIDE DEF x
  <2>2. CASE proc[p].req.op = "sign"
    <3>1. /\ proc'[p].pc = "idle" /\ proc'[p].failed /\ proc'[p].answer = Answer(500, "unhandled")
      BY <2>1, <2>2, RefusalIs
    <3>2. proc'[p].answer.status = 500
      BY <3>1, AnswerIs
    <3>. QED
      BY <1>1, <2>1, <3>1, <3>2 DEF Provisioning
  <2>3. CASE proc[p].req.op # "sign"
    BY <1>1, <1>2, <2>1, <2>3
  <2>. QED
    BY <2>2, <2>3
<1>14. Delete(p) \/ List(p) \/ Details(p) \/ Abort(p) => proc'[p] = Resting
  BY DeleteStep, ListStep, DetailsStep, AbortStep
<1>. QED
  BY <1>3, <1>5, <1>6, <1>9, <1>10, <1>11, <1>12, <1>13, <1>14, <1>15 DEF Handles

LEMMA ProvisionStep == TypeInv /\ ProvisionInv /\ [Next]_vars => ProvisionInv'
<1>. SUFFICES ASSUME TypeInv, ProvisionInv, [Next]_vars PROVE ProvisionInv'
  OBVIOUS
<1>1. ASSUME NEW p \in Procs, Handles(p) PROVE \A q \in Procs : Provisioning(proc[q])'
  BY <1>1, HandlesType, ProvisionHandles, ProvisionOthers DEF Handled
<1>2. ASSUME NEW p \in Procs, NEW r, NewRequest(p, r) PROVE \A q \in Procs : Provisioning(proc[q])'
  <2>1. Frame(p) /\ (proc'[p] = Resting \/ proc'[p] = Arrives(r, started + 1))
    BY <1>2, BeginStep DEF NewRequest
  <2>2. started + 1 \in Nat \ {0}
    BY OpsAssumption DEF TypeInv, StoreInv
  <2>3. /\ proc'[p].pc \in {"idle", "look", "list", "rotate", "delete"} /\ ~proc'[p].second
        /\ proc'[p].pc = "idle" => proc'[p].req.op # "sign"
    BY <1>2, <2>1, <2>2, ArrivesShape DEF NewRequest, Resting
  <2>4. Provisioning(proc[p])'
    BY <2>3 DEF Provisioning
  <2>. QED
    BY <2>1, <2>4, ProvisionOthers
<1>3. ASSUME UNCHANGED <<proc, backend, entry, past>> PROVE \A q \in Procs : Provisioning(proc[q])'
  BY <1>3 DEF ProvisionInv, Provisioning, Excused, Hides, SecretName
<1>. QED
  BY <1>1, <1>2, <1>3, NextIs, PurgeStep, TickStep DEF vars, storeVars, ProvisionInv

-----------------------------------------------------------------------------
LEMMA OthersInit == Init => CertInv /\ VerifyInv /\ ProvisionInv
<1>. SUFFICES ASSUME Init PROVE CertInv /\ VerifyInv /\ ProvisionInv
  OBVIOUS
<1>1. issued = {} /\ \A p \in Procs : proc[p] = Resting
  BY DEF Init
<1>2. CertInv
  BY <1>1 DEF CertInv, CertOf, Resting
<1>3. VerifyInv
  BY <1>1 DEF VerifyInv, VerifyOf, Resting, Verifications
<1>4. ProvisionInv
  BY <1>1 DEF ProvisionInv, Provisioning, Resting
<1>. QED
  BY <1>2, <1>3, <1>4

LEMMA TypeAlways == Spec => [](TypeInv /\ AuditInv)
<1>1. Init => TypeInv /\ AuditInv
  BY TypeInit, AuditInit
<1>2. TypeInv /\ AuditInv /\ [Next]_vars => TypeInv' /\ AuditInv'
  BY TypeStep, AuditStep
<1>. QED
  BY <1>1, <1>2, PTL DEF Spec

LEMMA VerifyAlways == Spec => [](CertInv /\ VerifyInv)
<1>1. Init => CertInv /\ VerifyInv
  BY OthersInit
<1>2. TypeInv /\ CertInv /\ VerifyInv /\ [Next]_vars => CertInv' /\ VerifyInv'
  BY CertStep, VerifyStepInv
<1>. QED
  BY <1>1, <1>2, TypeAlways, PTL DEF Spec

LEMMA ProvisionAlways == Spec => []ProvisionInv
<1>1. Init => ProvisionInv
  BY OthersInit
<1>. QED
  BY <1>1, ProvisionStep, TypeAlways, PTL DEF Spec

\* The store holds only what some request once wrote under that very secret,
\* a secret Azure hides holds nothing, and audit rows belong to begun requests
\* and say one of three verdicts: for any back end, with any number of calls
\* that fail with or without their effect.
THEOREM TypeCorrect == Spec => []TypeOK
<1>1. TypeInv /\ AuditInv => TypeOK
  <2>. SUFFICES ASSUME TypeInv, AuditInv PROVE TypeOK
    OBVIOUS
  <2>1. \A p \in Procs : proc[p].pc \in Pcs /\ proc[p].answer \in Answers
    BY DEF TypeInv, Shape, Process
  <2>2. \A a \in Answers : a.status \in {0, 200, 500, 503}
    BY DEF Answers
  <2>3. hidden \subseteq {s \in Names : entry[s] = Absent}
    BY DEF TypeInv, StoreInv
  <2>4. \A s \in Names : entry[s] # Absent =>
            [secret |-> s, cert |-> entry[s].cert, key |-> entry[s].key, name |-> entry[s].name]
                \in past
    BY DEF TypeInv, StoreInv, Record
  <2>. QED
    BY <2>1, <2>2, <2>3, <2>4 DEF TypeInv, StoreInv, AuditInv, TypeOK, Pcs
<1>. QED
  BY <1>1, TypeAlways, PTL

\* Every signature handed out is by the key, and comes with the certificate, of
\* one stored entry, made within that certificate's validity; the entry was
\* stored for the name the client asked for, or on Azure for one with the same
\* secret: however rotations, with whatever certificate and key, and
\* provisionings of other processes interleave with the request.
THEOREM CertificatesCorrect == Spec => []SignatureCertified
<1>1. TypeInv /\ CertInv => SignatureCertified
  <2>. SUFFICES ASSUME TypeInv, CertInv, NEW i \in issued
       PROVE  /\ i.at \in i.cert.from..i.cert.until
              /\ \E t \in past :
                    /\ t.cert = i.cert /\ t.key = KeyPem(i.sig.pair)
                    /\ t.name = i.name \/ (backend = "azure" /\ Dashed[t.name] = Dashed[i.name])
    BY DEF SignatureCertified
  <2>1. Certified(i)
    BY DEF CertInv
  <2>. QED
    BY <2>1 DEF Certified, SecretName
<1>. QED
  BY <1>1, TypeAlways, VerifyAlways, PTL

\* A signature sent back with its name, content and algorithm is refused only
\* if a call failed, its entry was replaced, its certificate is not of the key
\* that signed or it expired: signing and verification agree on everything
\* else, the last instant included.
THEOREM RoundTripCorrect == Spec => []RoundTrip
<1>1. VerifyInv => RoundTrip
  <2>. SUFFICES ASSUME VerifyInv, NEW p \in Procs, Checked(p), proc[p].answer.body = "invalid"
       PROVE  Reasons(proc[p])
    BY DEF RoundTrip, Reasons, Req, Got
  <2>. QED
    BY DEF VerifyInv, VerifyOf, Checked, Says, Req
<1>. QED
  BY <1>1, VerifyAlways, PTL

\* "Valid" is answered only about the content of a signature a client was given,
\* with its hash, when the certificate read is of the pair that signed and has
\* not expired, and the audit row of a request says what its client was told.
THEOREM ValidCorrect == Spec => []ValidMeansSigned
<1>1. AuditInv /\ VerifyInv => ValidMeansSigned
  <2>. SUFFICES ASSUME AuditInv, VerifyInv PROVE ValidMeansSigned
    OBVIOUS
  <2>1. ASSUME NEW p \in Procs, Checked(p), proc[p].answer.body = "valid"
        PROVE  LET sig == Req(p).of.sig IN
                /\ Req(p).content = sig.content /\ lower(Req(p).algorithm) = sig.hash
                /\ Got(p).cert.pair = sig.pair /\ proc[p].at <= Got(p).cert.until
    <3>1. Matches(proc[p])
      BY <2>1 DEF VerifyInv, VerifyOf, Checked, Says, Req
    <3>. QED
      BY <3>1 DEF Matches, Req, Got
  <2>2. ASSUME NEW p \in Procs, NEW r \in audit, r.id = proc[p].id, proc[p].answer.status = 200
        PROVE  r.verdict = proc[p].answer.body
    BY <2>2 DEF AuditInv
  <2>. QED
    BY <2>1, <2>2 DEF ValidMeansSigned
<1>. QED
  BY <1>1, TypeAlways, VerifyAlways, PTL

\* A sign request is answered 503 only if a call failed, another request wrote
\* the secret or Azure still hides it, and an exception of the store goes
\* unhandled only on AWS, after a failure or a race, or where Vault could not
\* be reached: never on Azure.
THEOREM ErrorsCorrect == Spec => []ErrorsExplained
<1>1. ProvisionInv => ErrorsExplained
  <2>. SUFFICES ASSUME ProvisionInv, NEW p \in Procs, proc[p].pc = "idle", Req(p).op = "sign"
       PROVE  /\ proc[p].answer.status = 503 =>
                    \/ proc[p].failed \/ proc[p].raced
                    \/ backend = "azure" /\ \E t \in past : t.secret = SecretName(Req(p).name)
              /\ proc[p].answer.body = "unhandled" =>
                    \/ backend = "aws" /\ (proc[p].failed \/ proc[p].raced)
                    \/ backend = "vault" /\ proc[p].failed
    BY DEF ErrorsExplained
  <2>. QED
    BY DEF ProvisionInv, Provisioning, Excused, Hides, Req
<1>. QED
  BY <1>1, ProvisionAlways, PTL

\* No provisioning overwrites an entry its look could have seen: it does so only
\* after a look that failed or when another request wrote the entry since.
THEOREM BlindCorrect == Spec => ReplacedBlindly
<1>1. ProvisionInv =>
        [entry' # entry => \A p \in Procs :
            LET s == SecretName(Req(p).name) IN
                proc[p].pc \in {"store", "create"} /\ proc'[p] # proc[p] =>
                    entry[s] = Absent \/ proc[p].failed \/ proc[p].raced]_vars
  BY DEF ProvisionInv, Provisioning, Excused, Req
<1>. QED
  BY <1>1, ProvisionAlways, PTL DEF ReplacedBlindly
=============================================================================
