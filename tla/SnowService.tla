----------------------------- MODULE SnowService -----------------------------
(***************************************************************************)
(* The synchronous endpoints over a remote certificate store: sign,        *)
(* verify, list and details for ServiceNow (src/src/api/snow.py) and       *)
(* POST /verify (src/src/api/signing.py), run by processes that share the  *)
(* store, while an operator rotates and deletes certificates.  Inside a    *)
(* process the blocking calls leave no room for another request; between   *)
(* processes every call, the engine and the commit are steps.              *)
(***************************************************************************)
EXTENDS RemoteCertStore, SigningEngine, FileValidator

CONSTANTS
    Procs,       \* processes that share the store
    Requests,    \* requests that do not depend on an earlier answer
    Checks,      \* verifications: [op, name, algorithm, same (content)]
    Default,     \* the name POST /verify reads
    Days,        \* days_valid of an automatically created certificate
    MaxOps,      \* bound: requests
    MaxNow       \* bound: time

ASSUME DefaultAssumption == Default \in Names
ASSUME DaysAssumption == Days \in Nat \ {0}
ASSUME OpsAssumption == MaxOps \in Nat /\ MaxNow \in Nat

\* The certificates an operator brings; a signature that no answer contained is
\* sent to verify only as text that is not hexadecimal.
Kinds == {"brief", "later", "keyless", "garbage", "mismatched"}
Verifications == {"verify", "verify_default"}
ASSUME RequestsAssumption ==
    /\ \A r \in Requests :
        /\ r.name \in Names
        /\ \/ r.op \in {"sign", "details", "list", "delete"}
           \/ /\ r.op = "rotate" /\ r.kind \in Kinds
              /\ r.kind = "mismatched" => r.pair \in Nat
           \/ r.op \in Verifications /\ ~r.hex
    /\ \A c \in Checks : c.name \in Names /\ c.op \in Verifications

VARIABLES
    now,
    proc,     \* proc[p]: the request p handles and how far it is
    started,  \* requests begun; numbers the key pairs they generate
    audit,    \* committed rows of audit_logs: [id, op, verdict]
    issued,   \* signatures in the hands of clients, with the answer's certificate
    past      \* history: [secret, cert, key, name] of every entry ever written

vars == <<storeVars, now, proc, started, audit, issued, past>>

NoEntry == [cert |-> Blank, key |-> Blank, name |-> Default]
NoAnswer == [status |-> 0, body |-> "none"]

\* new: the entry to be stored; got: the entry read; second: the look after the
\* store; verdict: what the audit row will say;
\* at: when the engine signed or judged.  failed and raced are history:
\* a call of this request failed, another request wrote the same secret.
Resting == [pc |-> "idle", req |-> [op |-> "none", name |-> Default], id |-> 0,
            new |-> NoEntry, got |-> NoEntry, second |-> FALSE, verdict |-> "none",
            at |-> 0, failed |-> FALSE, raced |-> FALSE, answer |-> NoAnswer]

Init ==
    /\ StoreInit
    /\ now = 0
    /\ proc = [p \in Procs |-> Resting]
    /\ started = 0
    /\ audit = {} /\ issued = {} /\ past = {}

Req(p) == proc[p].req
Ready(p, pc, ops) == proc[p].pc = pc /\ Req(p).op \in ops
Step(p, rec) == proc' = [proc EXCEPT ![p] = rec]
\* Of an answered request only what the properties look back at is kept.
Reply(rec, status, body) ==
    LET op == rec.req.op
        answer == [status |-> status, body |-> body]
    IN  CASE op \in Verifications /\ status = 200 ->
                [rec EXCEPT !.pc = "idle", !.verdict = "none", !.new = NoEntry, !.answer = answer]
          [] op = "sign" /\ (status = 503 \/ body = "unhandled") ->
                [Resting EXCEPT !.req = rec.req, !.failed = rec.failed, !.raced = rec.raced,
                                !.answer = answer]
          [] op = "sign" /\ status = 200 -> [Resting EXCEPT !.id = rec.id, !.answer = answer]
          [] OTHER -> Resting
Finish(p, status, body) == Step(p, Reply(proc[p], status, body))
Called(p, result) == [proc[p] EXCEPT !.failed = @ \/ result = "fault"]

\* The history a write to s leaves, and the requests it gets in the way of.
StepWriting(p, rec, s) ==
    IF entry' = entry
    THEN Step(p, rec) /\ UNCHANGED past
    ELSE /\ proc' = [q \in Procs |->
                IF q = p THEN rec
                ELSE IF proc[q].pc # "idle" /\ SecretName(Req(q).name) = s
                THEN [proc[q] EXCEPT !.raced = TRUE] ELSE proc[q]]
         /\ past' = IF entry'[s] = Absent THEN past
                    ELSE past \cup {[secret |-> s, cert |-> entry'[s].cert,
                                     key |-> entry'[s].key, name |-> entry'[s].name]}

(***************************************************************************)
(* A request arrives.  A file the validator refuses and a signature that   *)
(* is not hexadecimal are answered at once.                                *)
(***************************************************************************)
Fresh(p) ==
    LET made == create_self_signed_cert(proc[p].id, now, Days)
    IN  [cert |-> made.cert, key |-> made.key, name |-> Req(p).name]

BadRequest(r) ==
    \/ r.op = "sign" /\ ~Accepts(r.file)
    \/ r.op \in Verifications /\ ~r.hex

FirstStep(r) == IF r.op \in {"list", "rotate", "delete"} THEN r.op ELSE "look"

Begin(p, r) ==
    /\ proc[p].pc = "idle"
    /\ started < MaxOps
    /\ started' = started + 1
    /\ LET rec == [Resting EXCEPT !.pc = FirstStep(r), !.req = r, !.id = started + 1]
       IN  Step(p, IF BadRequest(r) THEN Reply(rec, 400, "none") ELSE rec)
    /\ UNCHANGED <<storeVars, now, audit, issued, past>>

\* A client asks about a signature it was given.
BeginCheck(p, c, i) ==
    Begin(p, [op |-> c.op, name |-> c.name, algorithm |-> c.algorithm, hex |-> TRUE,
              of |-> i, content |-> IF c.same THEN i.sig.content ELSE "other"])

(***************************************************************************)
(* Each request makes a store of its own, whose first call connects.       *)
(***************************************************************************)
\* sign and details handle only CertificateStoreError, the operator's calls
\* nothing; the verifications and the list handle any exception.
NotConnected(rec) ==
    CASE rec.req.op \in Verifications -> Reply(rec, 200, "invalid")
      [] rec.req.op = "list" -> Reply(rec, 503, "none")
      [] OTHER -> Reply(rec, 500, "unhandled")

ConnectFails(p) ==
    /\ proc[p].pc \in {"look", "list", "rotate", "delete"} /\ ~proc[p].second
    /\ GetClientFails
    /\ Step(p, NotConnected(Called(p, "fault")))
    /\ UNCHANGED <<now, started, audit, issued, past>>

(***************************************************************************)
(* get_certificate, alone or in get_or_create_certificate.                 *)
(***************************************************************************)
LookFinds(p) ==
    /\ proc[p].pc = "look"
    /\ GetSecret(Req(p).name, "ok")
    /\ Step(p, [proc[p] EXCEPT !.pc = "engine", !.got = entry[SecretName(Req(p).name)]])
    /\ UNCHANGED <<now, started, audit, issued, past>>

\* CertificateStoreError, for whatever reason: what the endpoint makes of it.
NotFound(rec) ==
    CASE rec.req.op \in {"sign", "verify"} -> Reply(rec, 503, "none")
      [] rec.req.op = "verify_default" -> Reply(rec, 200, "invalid")
      [] rec.req.op = "details" -> Reply(rec, 404, "none")

\* Variant: the certificate is created whatever was found.
LookCreatesAnyway(p) ==
    /\ proc[p].pc = "look"
    /\ \E result \in {"ok", "missing", "fault"} :
        /\ GetSecret(Req(p).name, result)
        /\ Step(p, IF Req(p).op = "sign" /\ ~proc[p].second
                   THEN [Called(p, result) EXCEPT !.pc = "store", !.new = Fresh(p)]
                   ELSE NotFound(Called(p, result)))
    /\ UNCHANGED <<now, started, audit, issued, past>>

\* Variant: absence is answered with 503, only other errors lead to a creation.
LookFailsInverted(p) ==
    /\ proc[p].pc = "look"
    /\ \E result \in {"missing", "fault"} :
        /\ GetSecret(Req(p).name, result)
        /\ Step(p, IF Req(p).op = "sign" /\ ~proc[p].second /\ result = "fault"
                   THEN [Called(p, result) EXCEPT !.pc = "store", !.new = Fresh(p)]
                   ELSE NotFound(Called(p, result)))
    /\ UNCHANGED <<now, started, audit, issued, past>>

\* A sign request generates a certificate the first time its look fails.
LookFails(p) ==
    /\ proc[p].pc = "look"
    /\ \E result \in {"missing", "fault"} :
        /\ GetSecret(Req(p).name, result)
        /\ Step(p, IF Req(p).op = "sign" /\ ~proc[p].second
                   THEN [Called(p, result) EXCEPT !.pc = "store", !.new = Fresh(p)]
                   ELSE NotFound(Called(p, result)))
    /\ UNCHANGED <<now, started, audit, issued, past>>

(***************************************************************************)
(* store_certificate, in a provisioning or in a rotation.                  *)
(***************************************************************************)
\* The operator's new certificate: valid for an instant, not valid yet, without
\* its key, with the key of another pair, or text that is no certificate.
Rotated(p) ==
    CASE Req(p).kind = "brief" -> [Fresh(p) EXCEPT !.cert.until = now]
      [] Req(p).kind = "later" -> [Fresh(p) EXCEPT !.cert.from = @ + 1]
      [] Req(p).kind = "keyless" -> [Fresh(p) EXCEPT !.key = Blank]
      [] Req(p).kind = "mismatched" -> [Fresh(p) EXCEPT !.key = KeyPem(Req(p).pair)]
      [] Req(p).kind = "garbage" -> [Fresh(p) EXCEPT !.cert = Garbage]

Stored(rec) ==
    IF rec.req.op = "sign" THEN [rec EXCEPT !.pc = "look", !.second = TRUE]
    ELSE Reply(rec, 200, "none")

Store(p) ==
    /\ proc[p].pc \in {"store", "rotate"}
    /\ LET new == IF Req(p).op = "sign" THEN proc[p].new ELSE Rotated(p)
       IN  \E result \in {"ok", "missing", "error", "fault"} :
            /\ SetSecret(Req(p).name, new, result)
            /\ StepWriting(p,
                CASE result = "ok" -> Stored(proc[p])
                  [] result = "missing" -> [proc[p] EXCEPT !.pc = "create", !.new = new]
                  [] result \in {"error", "fault"} -> Reply(Called(p, result), 503, "none"),
                SecretName(Req(p).name))
    /\ UNCHANGED <<now, started, audit, issued>>

\* AWS only: what create_secret raises is not a CertificateStoreError and ends
\* in the global handler (500).
Create(p) ==
    /\ proc[p].pc = "create"
    /\ \E result \in {"ok", "exists", "fault"} :
        /\ CreateSecret(Req(p).name, proc[p].new, result)
        /\ StepWriting(p,
            IF result = "ok" THEN Stored(proc[p])
            ELSE Reply(Called(p, result), 500, "unhandled"), SecretName(Req(p).name))
    /\ UNCHANGED <<now, started, audit, issued>>

Delete(p) ==
    /\ proc[p].pc = "delete"
    /\ \E result \in {"ok", "missing", "fault"} :
        /\ DeleteSecret(Req(p).name, result)
        /\ StepWriting(p, Reply(Called(p, result), IF result = "ok" THEN 200 ELSE 503, "none"),
                       SecretName(Req(p).name))
    /\ UNCHANGED <<now, started, audit, issued>>

\* GET /snow/certs: any exception is answered 503.
List(p) ==
    /\ proc[p].pc = "list"
    /\ \E result \in {"ok", "missing", "fault"} :
        /\ ListSecrets(result)
        /\ Step(p, Reply(Called(p, result), IF result = "ok" THEN 200 ELSE 503, "none"))
    /\ UNCHANGED <<now, started, audit, issued, past>>

(***************************************************************************)
(* The engine works on the entry that was read.                            *)
(***************************************************************************)
Got(p) == proc[p].got

\* Variant: the answer's certificate is what the store holds by then.
GivenCurrent(p) ==
    LET e == entry[SecretName(Req(p).name)] IN
    [id |-> proc[p].id, name |-> Req(p).name, at |-> proc[p].at,
     cert |-> IF e = Absent \/ e.cert = Garbage THEN Got(p).cert ELSE e.cert,
     sig |-> Signature(Got(p).key, Req(p).algorithm, Req(p).content)]

Given(p) ==
    [id |-> proc[p].id, name |-> Req(p).name, cert |-> Got(p).cert, at |-> proc[p].at,
     sig |-> Signature(Got(p).key, Req(p).algorithm, Req(p).content)]

\* A SigningError is answered 500; otherwise the audit row is flushed.
Sign(p) ==
    /\ Ready(p, "engine", {"sign"})
    /\ IF CanSign(Got(p).key, Got(p).cert, Req(p).algorithm, now)
       THEN Step(p, [proc[p] EXCEPT !.pc = "commit", !.verdict = "signed", !.at = now])
       ELSE Finish(p, 500, "signing_error")
    /\ UNCHANGED <<storeVars, now, started, audit, issued, past>>

\* An exception of the engine is answered "not valid" and leaves no audit row.
Verify(p) ==
    /\ Ready(p, "engine", Verifications)
    /\ LET verdict == IF Constructs(Blank, Got(p).cert)
                      THEN Verdict(Got(p).cert, Req(p).of.sig, Req(p).algorithm, Req(p).content, now)
                      ELSE "raises"
       IN  IF verdict = "raises"
           THEN Finish(p, 200, "invalid")
           ELSE Step(p, [proc[p] EXCEPT !.pc = "commit", !.verdict = verdict, !.at = now])
    /\ UNCHANGED <<storeVars, now, started, audit, issued, past>>

\* GET /snow/certs/{name}: an entry that does not load is not handled.
Details(p) ==
    /\ Ready(p, "engine", {"details"})
    /\ IF Constructs(Blank, Got(p).cert)
       THEN Finish(p, 200, "details")
       ELSE Finish(p, 500, "unhandled")
    /\ UNCHANGED <<storeVars, now, started, audit, issued, past>>

Row(p) == [id |-> proc[p].id, op |-> Req(p).op, verdict |-> proc[p].verdict]

\* get_db commits the audit row, then the answer is sent.
Commit(p) ==
    /\ proc[p].pc = "commit"
    /\ audit' = audit \cup {Row(p)}
    /\ issued' = IF Req(p).op = "sign" THEN issued \cup {Given(p)} ELSE issued
    /\ Finish(p, 200, proc[p].verdict)
    /\ UNCHANGED <<storeVars, now, started, past>>

\* The flush or the commit fails, or the process dies: anywhere, and perhaps
\* after the commit.  The client gets an error or nothing.
Abort(p) ==
    /\ proc[p].pc # "idle"
    /\ Fault
    /\ \/ UNCHANGED audit
       \/ proc[p].pc = "commit" /\ audit' = audit \cup {Row(p)}
    /\ Finish(p, 0, "aborted")
    /\ UNCHANGED <<backend, entry, hidden, now, started, issued, past>>

-----------------------------------------------------------------------------
Tick ==
    /\ now < MaxNow
    /\ now' = now + 1
    /\ UNCHANGED <<storeVars, proc, started, audit, issued, past>>

PurgeSecret ==
    /\ \E s \in Names : Purge(s)
    /\ UNCHANGED <<now, proc, started, audit, issued, past>>

Next ==
    \/ \E p \in Procs :
        \/ \E r \in Requests : Begin(p, r)
        \/ \E c \in Checks, i \in issued : BeginCheck(p, c, i)
        \/ ConnectFails(p) \/ LookFinds(p) \/ LookFails(p) \/ Store(p) \/ Create(p)
        \/ Delete(p) \/ List(p)
        \/ Sign(p) \/ Verify(p) \/ Details(p) \/ Commit(p) \/ Abort(p)
    \/ PurgeSecret \/ Tick

Spec == Init /\ [][Next]_vars
-----------------------------------------------------------------------------
(***************************************************************************)
(* Properties.                                                             *)
(***************************************************************************)
\* The type invariant: the store holds what was once written under that
\* secret, and a secret Azure hides holds nothing.
TypeOK ==
    /\ backend \in Backends
    /\ hidden \subseteq {s \in Names : entry[s] = Absent}
    /\ faults \in 0..MaxFaults /\ now \in 0..MaxNow /\ started \in 0..MaxOps
    /\ \A s \in Names : entry[s] # Absent =>
        [secret |-> s, cert |-> entry[s].cert, key |-> entry[s].key, name |-> entry[s].name]
            \in past
    /\ \A r \in audit : r.id \in 1..started /\ r.verdict \in {"signed", "valid", "invalid"}
    /\ \A p \in Procs :
        /\ proc[p].pc \in {"idle", "look", "store", "create", "engine", "commit",
                            "list", "rotate", "delete"}
        /\ proc[p].answer.status \in {0, 200, 500, 503}

\* Whatever rotations and provisionings of other processes happen between the
\* look, the signature and the answer: the key that signed and the certificate
\* the client gets are those of one stored entry (a pair nobody compared), the
\* certificate was within its validity, and the entry had been stored for the
\* name the client asked for; on Azure, where names that differ in their
\* punctuation are one secret, for a name with the same secret.
SignatureCertified ==
    \A i \in issued :
        /\ i.at \in i.cert.from..i.cert.until
        /\ \E t \in past :
            /\ t.cert = i.cert /\ t.key = KeyPem(i.sig.pair)
            /\ t.name = i.name \/ (backend = "azure" /\ Dashed[t.name] = Dashed[i.name])

Checked(p) ==
    proc[p].pc = "idle" /\ Req(p).op \in Verifications /\ proc[p].answer.status = 200

\* A signature sent back with its name, content and algorithm is refused only
\* if a call failed, the entry is not the one it was signed with any more, the
\* operator had stored a certificate with the key of another pair, or the
\* certificate expired; signing and verifying agree on the last instant.
RoundTrip ==
    \A p \in Procs : Checked(p) /\ proc[p].answer.body = "invalid" =>
        LET i == Req(p).of IN
            \/ Req(p).name # i.name \/ Req(p).content # i.sig.content
            \/ lower(Req(p).algorithm) # i.sig.hash
            \/ proc[p].failed \/ Got(p).cert # i.cert
            \/ i.sig.pair # i.cert.pair \/ proc[p].at > i.cert.until

\* "Valid" is said only of the content that was signed, with the hash it was
\* signed with, when the certificate read certifies the pair that signed and
\* had not expired; and the audit trail never says of a request what its client
\* was not told.
ValidMeansSigned ==
    /\ \A p \in Procs : Checked(p) /\ proc[p].answer.body = "valid" =>
        LET sig == Req(p).of.sig IN
            /\ Req(p).content = sig.content /\ lower(Req(p).algorithm) = sig.hash
            /\ Got(p).cert.pair = sig.pair /\ proc[p].at <= Got(p).cert.until
    /\ \A p \in Procs, r \in audit :
        r.id = proc[p].id /\ proc[p].answer.status = 200 => r.verdict = proc[p].answer.body

\* Every error of a sign request that the store leads to has a cause the
\* service cannot help: 503 means a call failed, another request wrote the
\* entry meanwhile, or Azure still hides a deleted secret; an exception nobody
\* handles means a creation on AWS that failed or lost a race, or a Vault that
\* could not be reached.
ErrorsExplained ==
    \A p \in Procs : proc[p].pc = "idle" =>
        /\ Req(p).op = "sign" /\ proc[p].answer.status = 503 =>
            \/ proc[p].failed \/ proc[p].raced
            \/ backend = "azure" /\ \E t \in past : t.secret = SecretName(Req(p).name)
        /\ Req(p).op = "sign" /\ proc[p].answer.body = "unhandled" =>
            \/ backend = "aws" /\ (proc[p].failed \/ proc[p].raced)
            \/ backend = "vault" /\ proc[p].failed

\* A provisioning replaces an entry only blindly: its look failed on the way
\* to the store, or the entry came or changed after the look.
ReplacedBlindly ==
    [][entry' # entry => \A p \in Procs :
        LET s == SecretName(Req(p).name) IN
            proc[p].pc \in {"store", "create"} /\ proc'[p] # proc[p] =>
                entry[s] = Absent \/ proc[p].failed \/ proc[p].raced]_vars
=============================================================================
