# A verification development for macro-sign-service

TLA+ modules that model the service, TLC configurations that check them on
small instances, and theorems about them that TLAPS checks for every instance.
Paths below are relative to the repository (`src/` is its checkout, so the
Python package is `src/src/`).

Run everything from this directory:

    tlc -workers 2 -config SigningFaults.cfg MCSigningPipeline.tla
    tlapm SigningPipelineProofs.tla

(section 3 pairs configurations and modules, section 4 lists the proof modules).

## 1. The system

The service signs Office macro files with X.509 certificates. Clients are the
command-line tool, a dashboard, build pipelines and ServiceNow.

| Component | State | Operations |
|---|---|---|
| Signing API (`api/signing.py`) | rows of `signing_jobs`, `audit_logs` | `POST /sign`, `GET /jobs`, `GET /status/{id}`, `POST /verify` |
| Request session (`models/database.py`) | one SQLAlchemy session and engine per request | yield, commit after the handler, roll back on an exception |
| Broker and result backend (Celery on Redis, `queue/celery_app.py`) | ready and unacknowledged messages, task results | publish, deliver, acknowledge, redeliver |
| Workers (`queue/tasks.py`) | the task each child process executes | `sign_macro_task`, `send_webhook_task`, `verify_macro_task` |
| Certificate store (`core/certificate_store.py`) | certificate, key and metadata by name: files, Vault, AWS, Azure | get, store, list, delete, rotate, get-or-create |
| Startup hook (`main.py`) | the local store's directory | create the `default` and `snow-test-domain` certificates |
| Signing engine (`core/signing_engine.py`) | none | sign, verify, create a self-signed certificate |
| ServiceNow endpoints (`api/snow.py`) | audit rows | sign (synchronously, provisioning its certificate), verify |
| Rate limiter (`utils/rate_limiter.py`) | request times by key, per process | check |
| Accounts (`auth/`, `api/auth.py`) | users, API keys, tokens | register, log in, refresh, create and revoke keys, permission check |
| Administration (`api/admin.py`, `api/webhooks.py`) | users, teams, profiles, webhook configurations | create, update, delete, list, statistics |
| File validator (`utils/file_validator.py`) | none | validate |
| Command-line client (`cli/`) | the job it waits for; certificates in its directory | sign locally, submit and poll, status |
| Dashboard (`dashboard/`) | the leaf, filter and rows it shows | turn leaves, filter, upload, retry |

How they interact:

    client -- POST /sign --> API -- row --> session ....commit.... database
                              |                                        ^
                              | sign_macro_task.delay                  | GET /status
                              v                                        |
                            broker <-- retry -- worker            client polls
                                                |    |
                             certificate store <+    +-- send_webhook_task.delay --> broker

If `.delay` raises, the API signs in the request (`_process_signing_sync`).
The session commits after the handler has built its response and before the
response is sent, so the task is on the broker before the row is in the
database. The worker does not write the row: its result goes to the result
backend and, with a webhook URL, into an event.

What is hard here is where several actors meet: a message published inside an
open transaction, late acknowledgement with crashes and redelivery, retries
whose side effects (events) precede them, a publish whose outcome is unknown,
time limits that end a task between two steps, certificates that change while
tasks run, and a directory that several processes read and write file by file
without locks. `PROJECT.json` lists the hazards one by one, each at its line.

What makes each component correct:

* signing path: nothing queued is lost, what is done twice is accounted for by
  a fault, a signature comes from the certificate the request resolved to, what
  was reported agrees with what happened, everything queued is settled;
* local certificate store: certificate and key belong together, provisioning
  never replaces an entry, a rotation archives what it replaces;
* remote certificate stores: what was stored is found under its name, an entry
  is overwritten only by someone who means to, errors have an outside cause;
* signing engine: a signature comes with the certificate of its key, made
  within its validity, and verifies as long as that certificate is there;
* rate limiter: no window grants more than the limit, nobody is refused
  without a full window;
* webhook delivery: each event is received, or given up after a bounded number
  of attempts, or lost to a named fault; duplicates only where an answer was lost;
* accounts: an effect was authorised, names stay unique, concurrent changes of
  one row do not undo each other, requests do not block each other for ever;
* readers: turning leaves misses nothing, what is shown is what is selected,
  statistics are within what the table had, exit codes tell the truth.

## 2. The modules

| Module | What it is |
|---|---|
| `SigningPipeline` | submission, session, broker, workers, events, certificates |
| `SigningService` | what the signing endpoint promises: answer and background work of a submission |
| `SigningRefinement` | the mapping under which the pipeline implements the service |
| `SigningClaims` | what documents say of the pipeline and it does not do |
| `WebhookDelivery` | `send_webhook_task`: what becomes of the pipeline's events |
| `LocalCertStore` | the local certificate store, the startup hook and the client's commands, file by file |
| `CertStore`, `LocalCertRefinement` | what a certificate store promises for one name; the directory implements it |
| `LocalCertClaims` | what the store's comments say and it does not do |
| `RemoteCertStore` | Vault, AWS and Azure: each call and how it may end |
| `SigningEngine` | sign, verify and certificate creation as functions |
| `FileValidator` | the upload checks as a predicate |
| `SnowService` | the synchronous endpoints, composing the last three |
| `RateLimiter` | the limiters of several processes and a clock |
| `Database` | the request session over PostgreSQL: writes, locks, constraints |
| `Accounts` | authentication, roles, keys and administration over `Database` |
| `JobReaders` | listings, dashboard pages, statistics and the polling client, while jobs are submitted |
| `*Proofs` | theorems about the module of that name |
| `MC*` | values of the constants for TLC |

A definition whose comment begins with `Variant:` is a plausible mistake in the
code, kept next to the definition it would replace; no specification uses it.
`PROJECT.json` says which property notices which variant.

### 2.1 SigningPipeline

One submission is one request with a fresh job id, so jobs stand for requests.

| Variable | In the code |
|---|---|
| `req[j]` | the form fields, reduced to what the path depends on: does the file validate, which profile, is the algorithm supported, is there a webhook URL |
| `api[j]` | how far `sign_macro` is in request `j` |
| `row[j]`, `db[j]` | the `SigningJob` object in the session; the committed row |
| `queue[m]` | copies of message `m = <<job, retries>>` that are ready on the broker |
| `worker[w]` | the step of the task a child process is in, the message it holds, the certificate it fetched |
| `results[j]` | final states of executions (result backend; `REJECTED` only in the worker's log) |
| `outbox[j]` | events handed to `send_webhook_task.delay`, in order |
| `store[c]` | generation and condition of certificate `c` |
| `faults` | broker faults, crashes, and soft time limits between a completion and the return, so far (a bound) |

Actions, in the order of the code. A handler or task is split exactly where
another process can act in between: at a publish, at the read of the store, at
the commit, at the acknowledgement.

| Action | Code |
|---|---|
| `Refuse`, `Submit` | validation, profile lookup, row added and flushed (the flush can fail for any request) |
| `Enqueue` | `sign_macro_task.delay`, and where its exception leads |
| `ProcessSigningSync` | the fallback |
| `Commit`, `Abort` | `get_db`; `Abort` is a commit that fails or an API process that dies, before the commit or between commit and response |
| `Receive`, `Fetch`, `Sign`, `Notify`, `Return` | the task up to its `return` |
| `Except` | an exception of the store or the engine |
| `Report`, `Retry`, `GiveUp` | the `except` clause |
| `StoreResult`, `Ack` | Celery after the task ended |
| `SoftTimeLimit`, `HardTimeLimit` | `task_soft_time_limit`, `task_time_limit` |
| `WorkerCrash` | a process that dies with its message unacknowledged |
| `Rotate`, `Delete`, `Expire` | whoever runs the certificate store, and the calendar |

Facts about Celery and its broker the model relies on (their code is not in the
repository, so the definitions are marked external):
with `acks_late` a message is acknowledged after the task ended; the child that
exceeds the hard limit is killed, recorded as failed, and its message
acknowledged; a message held by a worker that dies is delivered again;
`self.retry` publishes the task with one retry more, and when that publish
raises, Celery rejects the message without requeueing and only logs it; a
publish may raise before or after the broker took the message, and the client
library may publish twice after a lost acknowledgement. Redelivery of a message
that is still being worked on (Redis' visibility timeout, one hour) is left out:
the task's hard limit is far below it. The broker keeps what it was given.

The soft time limit is an exception raised where the task stands, once per
execution. Inside the `try` it leads to the `except` clause, also when the broker
has just taken `signing.completed` and only the `return` is left: then a
`signing.failed` follows, and a retry that may complete again. `SoftTimeLimit`
counts that one case as a fault, so that the properties can say what a second
completion is owed to. In the `except` clause the limit makes the exception leave
the task without a retry (`RAISED`), and once the retry is published Celery turns
it into a rejection, with the retry on the broker all the same (`REJECTED`). A
publish that is interrupted by the limit is one that raises (`Publish`).

`Sign` uses what `Fetch` read, not what the store holds by then. `Fetch` is one
step; that its file reads are not is the subject of `LocalCertStore`.

### 2.2 WebhookDelivery

`published` are the events `SigningPipeline` appends to its outboxes. `queue`
and `worker` are as there; `attempts`, `received`, `unheard` and `lost` count,
per event, posts begun, posts the receiver took, those of them whose answer did
not come back, and faults. The task has no `acks_late`: `Begin` takes the
message off the broker for good, so `WorkerCrash` loses it. `PostSucceeds` is a
2xx within the 30 seconds of the client, `PostRaises` everything else, an
answer that comes too late included; `Retry` publishes the next attempt (a
publish that fails, and the soft limit inside the `except` clause, end the
event instead), `GiveUp` returns `failed`. Which of several events is posted
first is left open, as it is in the code: a retry waits a minute while later
events go out.

### 2.3 LocalCertStore

One certificate name on a directory shared by the API workers and the Celery
children (`docker-compose.yml` mounts one volume into both). Within a process
no operation of the local store yields, so a process runs one at a time;
between processes every file system call is a step. `write_bytes` is two: the
file is truncated (`OpenFile`), then written (`PutFile`). Operations are `get`
(`get_certificate`: workers and verification), `provision`
(`get_or_create_certificate`: ServiceNow), `startup` (the lifespan hook),
`local sign` and `generate` (the client's `sign --local` and `generate-cert`,
where it shares `./certs`), and `rotate`, `recertify` and `delete` (no caller
in the repository but its tests: whoever maintains the store).
`rotate_certificate` compares nothing. The model has two operations for it:
`rotate` is given a certificate with its key, or one for the key that is there;
`recertify` a certificate of another pair than the key it is given, or with no key
at all, also where none is stored. Some promises hold for the first only, and say
so. `delete` is
modelled where one process uses the directory: what becomes of a file unlinked
while another process has it open is not modelled (`DeleteAssumption`). A
credential is `<<serial, key pair>>`; every generated one is new. Metadata is
kept only for the errors that reading it can raise.

`CertStore` says what one would like of a name: an entry is absent or a
certificate with its key, provisioning creates one only where there is none, a
rotation replaces only what is archived. `LocalCertRefinement` maps the
directory to it; a write counts from the moment its first file is opened.
`recertify` is not an operation of it: it can leave a certificate with no key or
with another's.

### 2.4 RemoteCertStore, SigningEngine, FileValidator, SnowService

`RemoteCertStore` has one operator per call the three stores make to their
service, with its result: success, absence, refusal, or a fault with or without
the effect. It is a state machine without a `Next`: `SnowService` puts the calls
in order. What tells the back ends apart is kept: AWS updates before it creates,
and what its creation raises is not a `CertificateStoreError`; Azure maps names
that differ in `.`, `/` and `_` to one secret and hides a deleted name until it
is purged; Vault answers an empty path with an error, and its `_get_client` asks
`is_authenticated()` before the `try` of every method, so that what a lost
connection raises there is no `CertificateStoreError` (`GetClientFails`). Secrets
are written by this code only: one edited to what it cannot parse, which its
reader takes for a failed look, is not modelled.

`SigningEngine` computes with keys and certificates as values: a PEM is blank,
unreadable or what it holds, a signature is `[pair, hash, content]`. `CanSign`
and `Verdict` have the checks in the code's order, expiry included at its last
instant, and verification ignoring the beginning of the validity.

`SnowService` is one process per request at a time, as the blocking calls leave
no room for another inside a process; a request goes through `look` (the read,
and again after a store), `store`, `create` (AWS), `engine` and `commit`.
Requests are sign, verify, list and details of `api/snow.py`, `POST /verify` of
`api/signing.py` (which reads `default`), and an operator's rotation and
deletion. The operator's certificate (`Kinds`) may be short, not valid yet,
without its key, no certificate at all, or come with the key of another pair,
which the stores accept and the engine signs with. `ConnectFails` is a Vault
that cannot be reached at a request's first call: an unhandled 500 for a sign
request, where a failing `LookFails` one line later is a
`CertificateStoreError`. `Abort` stands for the loss of the database connection
or of the process: the global handler's 500, or no answer. `issued` is what
clients hold: the signature with the certificate of the same answer. `past`,
`failed` and `raced` are histories the properties need: what was ever stored,
whether a call of the request failed, whether another request wrote its entry
meanwhile.

### 2.5 RateLimiter

One limiter per process. `_requests[key]` is kept as the set of positions it
holds in `stamp`, the history of all grants, which makes "what is remembered"
and "what was granted" comparable. A check is `Cleanup`, which reads the clock
and forgets, then `Grant` (which reads the clock again) or `Reject`; `Tick` may
come between. `get_key` takes the first header present, cut to ten characters:
the instance's two clients have different tokens with the same first ten
characters, as all JWTs of one header do. So docs/API.md:357's 60 requests a
minute and user are, of the code, 60 for all users together at each process,
and that times the four processes in all.

### 2.6 Database and Accounts

`Database` is a transaction per request at READ COMMITTED: reads see what is
committed, flushed writes lock their row and the unique values it had and gets,
a write that needs such a lock waits, the commit makes them visible. `Raises`
has the constraints of `models/schemas.py`.

`Accounts` has a request go through `authenticate`, `touch` (only with an API
key: `last_used_at` is flushed, which locks the key's row until the request
ends), `handle` (the handler reads and decides), `flush` and `commit`. The
permission table is `PERMISSIONS`. Each handler that writes is an operator
named as in the code, returning its status, its writes and the tokens of its
answer. A request also has what no handler looks at before it fails: an id that
`uuid.UUID` does not parse (`Unparsed`; `ById`, `BadTeam`), and a text its
column does not hold (`fits`; `Unfit`); both are answered 500. Where no handler
answers, because the connection was lost, the answer is `Unserved`, which
stands for the 500 of the exception handler in `main.py` or for none.
SQLAlchemy sends only fields whose value differs from the one loaded (`Write`).
PostgreSQL breaks a circle of waits by failing one transaction (`Victim`).

Things the model shows that are worth knowing: a key and its owner are looked
at at two moments, so that no single moment may have had both in order; requests
with one key run one after the other, because of the lock of `touch`; the role
in a token is never used, the row's is; an administrator can disable the last
administrator, after which nobody can enable one; a field that is set to the
value it had when read is not sent, so a concurrent change of it stays.

### 2.7 JobReaders

Rows get `created_at` at their flush and appear at their commit, hence in
another order. Against them run, one kind per behaviour: the jobs page and the
audit page of the dashboard (each request is two queries; the answer that comes
last is shown), the statistics (one query after the other), and the client
(`sign` with and without `--wait`, `status`). `from`, `seen`, `calm` and
`crossed` are histories: what there was when the reader was last sent to leaf
one, what has been on the screen since, whether requests overlapped, whether
rows appeared between the two queries of a request. The audit page shows its
buttons only when nothing is loading and no error is shown (`Buttons`); the
jobs page always. A success clears no error of an overlapping request. A status
is answered 400 for an id that is none; 401 is an answer the client gives up
on, and is among the lost ones (`CliFails`).

## 3. The runs

All runs set `CHECK_DEADLOCK FALSE`: the bounded system stops when every
request is answered, every message worked off and every bound used up.

| Run (module) | Instance | Checks |
|---|---|---|
| `SigningFaults` (`MCSigningPipeline`) | 1 job of every form, 2 workers, 1 retry, 1 generation, 2 faults of any kind, time limits | `TypeOK`, `NoLostTask`, `EffectBound`, `EffectsHaveRow`, `ResultsWereNotified`, `OutboxShape` |
| `SigningCertificates` (same) | 1 job, algorithms supported or not, 1 worker, 2 certificates of 2 generations, 1 fault | `Provenance` |
| `SigningLive` (same) | 1 job, 2 workers, 1 crash or publish that fails cleanly, fairness | `OnePath`, `TaskSettles`, `ImplementsServiceLive` |
| `Webhooks` (`MCWebhookDelivery`) | 2 events, 2 workers, 2 retries, 1 fault, fairness | `TypeOK`, `NoSilentLoss`, `PostBound`, `DuplicatesWereUnheard`, `EventsSettle` |
| `CertsShared` (`MCLocalCertStore`) | 2 processes, 3 operations of every kind but `delete`, 2 crashes, 2 seconds | `CompleteWhenQuiet`, `DamageCounted` |
| `CertsSequential` (same) | 1 process, 5 operations of every kind but `generate` and `recertify`, 3 seconds | `TypeOK`, `ImplementsCertStore` |
| `Snow` (`MCSnowService`) | 2 processes, 3 requests, 2 names Azure takes for one, each back end, 1 fault, 2 instants | `TypeOK`, `SignatureCertified`, `RoundTrip`, `ValidMeansSigned`, `ErrorsExplained`, `ReplacedBlindly` |
| `Limiter` (`MCRateLimiter`) | 2 processes, 2 clients with one key, limit 2, window 2, 5 instants, 1 restart | `TypeOK`, `WindowBound`, `ClusterBound`, `RefusedOnlyWhenFull` |
| `Accounts` (`MCAccounts`) | 2 processes, 3 requests, the first a change of an administrator; 3 users, 3 keys, 2 teams, 1 expiry | `TypeOK`, `EffectsAuthorized`, `UpdatesAreExact`, `CyclesOnlyByRevocation`, `UnhandledExplained` |
| `Listings` (`MCJobReaders`) | 3 rows and 2 submissions, leaves of 1 row, 3 requests of a page (an upload may add one), 1 lost request, time budgets of 0 to 2 intervals | `TypeOK`, `PagesCover`, `ShownIsSelected`, `StatsBounded`, `ExitIsTruth` |

What they show of the signing path:

* `NoLostTask`: no crash, redelivery or failed publish makes a queued job
  vanish without a trace. It says nothing of success, and "settled" includes a
  killed child and a rejected retry, which tell the client nothing.
* `EffectBound`: copies of the message, executions that may still publish a
  completion, and completions published are at most one plus the faults, so
  duplicates come from faults only, one each; the soft time limit between a
  completion and the return is one, which needs no broker to fail.
* `EffectsHaveRow`: tasks and events of a job without a row belong to a request
  still in flight or aborted after it had published; it permits that case and
  excludes all others.
* `ResultsWereNotified`: a task that succeeded has told its webhook; one whose
  retry was rejected has told it of a failure; one that gave up has done so in
  each attempt, crashes or not. A killed execution, and one the soft limit ends
  in its `except` clause, are outside it: they tell nobody.
* `Provenance`: no event or row carries a signature of a wrong certificate, of
  a generation that never was, or for an unsupported algorithm. Its run has the
  fault the fallback needs, and requests whose algorithm is not supported.
* `OutboxShape`: without faults, at most one event per attempt, nothing after a
  completion. A soft time limit between completion and return is counted as a
  fault, as it breaks both; limits anywhere else are not, and may strike.
* `OnePath`: the API and a worker both sign a job only if a publish raised
  although the broker had taken the message. It fails at once where such
  publishes are allowed, so it belongs to the run whose publishes fail cleanly.
* `TaskSettles`, `ImplementsServiceLive`: what was taken on is settled; the
  pipeline implements `SigningService`.
* `NoSilentLoss`, `PostBound`, `DuplicatesWereUnheard`, `EventsSettle`: events are
  posted until heard or given up; what is lost, repeated or posted more often is
  paid for by a fault or an answer that did not come back.

Of certificates:

* `CompleteWhenQuiet`: without crashes the race of several creators and
  rotations leaves both files written in full; only a rotation that was given no
  key can leave a certificate without one. That the two files belong together is
  what does not hold: two creators, two local signers included, can leave the
  certificate of one and the key of the other.
* `DamageCounted`: a file that is truncated and that nobody is about to write
  is one a process died over, one for each death at most, whatever is rotated
  in. Nothing repairs such a file: a provisioning may return the empty
  certificate, or fail on the empty metadata.
* `ImplementsCertStore`: used by one process at a time, rotated at most once a
  second and to certificates of the keys given or there, the directory is the
  abstract store at every file system call.
* `SignatureCertified`: key and certificate of what a ServiceNow client is
  given are those of one entry stored for the name it asked for, rotations and
  provisionings of others notwithstanding. Whether they are a pair nobody
  compares.
* `RoundTrip`, `ValidMeansSigned`: a signature is refused only for a named
  reason, an operator's mismatched pair among them; it is accepted only if it was
  made by the pair the certificate certifies, which has not expired.
* `ErrorsExplained`, `ReplacedBlindly`: a 503 has an outside cause; an unhandled
  exception comes from a creation on AWS or from a Vault that cannot be reached,
  never from Azure; and a provisioning overwrites an entry only when it could not
  see it, which a lost connection is enough for.

Of limits, accounts and readers:

* `WindowBound` holds per process although the clock is read twice;
  `ClusterBound` says what all clients of a shared key get from all processes,
  restarts included; `RefusedOnlyWhenFull` that a refusal is never wrong.
* `EffectsAuthorized`: each effect was authorised at some moment of its
  request; a revocation that commits earlier than the effect does not stop it.
  The expiry of tokens and keys is modelled and not part of it.
* `UpdatesAreExact`: no update undoes another field's.
* `CyclesOnlyByRevocation`: the one deadlock of this API is that of requests that
  revoke each other's keys.
* `UnhandledExplained`: which circumstances end in a handler's 500; the global
  handler's, of a lost connection, is told apart (`Unserved`).
* `PagesCover`, `ShownIsSelected`: turning leaves one at a time misses nothing
  and shows what is selected; both need the premise that one request is under
  way at a time, which the jobs page does not enforce.
* `StatsBounded`, `ExitIsTruth`: the figures of the statistics are those of
  several moments and no worse; the client's exit code is the job's fate.

Bounds. One job suffices for the properties of `SigningFaults` because jobs
interact only through certificates and workers, which hold one message each. One
retry distinguishes the first, an intermediate and the last attempt as far as
the code does (`retries < max_retries` or not), and the theorems cover the real
limit of three. Two faults allow a fault during the recovery from another. Two
generations of two certificates separate what a worker fetched from what the
store holds and from what the fallback uses (`SigningCertificates`). Two
processes with three operations between them (`CertsShared`) allow each kind of
operation to overlap each other and a third to follow; two deaths allow one over
what another left. The theorems hold for any number of either. Two retries and
one fault let a duplicated retry fail again while the other copy is posted.
Three requests of two processes allow, over a remote store, a signature, a
change of its entry and a check of it, or two provisionings around a deletion;
in `Accounts`, a change that commits between two steps of one of two others. A
limit and a window of two let a window straddle a cleanup, and five instants
hold two windows. Leaves of one row put every boundary between rows on a
boundary between leaves. Symmetry (`WorkerSymmetry`, `ProcSymmetry`) is used for
invariants and for action properties that treat processes alike; `SigningLive`
and `Webhooks` use none.

Fairness. `SigningPipeline!Fairness`: a request that passed its checks goes on
(the event loop runs it to its end); a task that has begun goes on (its time is
limited); for every ready message some worker takes it (each route is a FIFO
queue with consumers). `WebhookDelivery!Fairness`: a running task ends, as its
post has a timeout (weak); a message that is ready again and again is taken by
some worker (strong, as one worker may be busy whenever another message is
ready). No fairness is assumed for clients, faults, time limits, or changes of
certificates.

### Where documents and code disagree

Two runs check one sentence of the repository each and end in a counterexample;
`PROJECT.json` quotes the sentences.

| Run (module) | What happens |
|---|---|
| `ClaimPolled` (`MCSigningClaims`) | a queued job stays `queued` in every poll: the worker never writes the row |
| `ClaimIdempotent` (`MCLocalCertStore`) | of two concurrent provisionings one returns a certificate the other overwrites |

More, without a run of their own, each visible in a definition:

* `signing.failed` is sent per attempt and may be followed by
  `signing.completed` (`Report`, `Retry`); DEVELOPER_GUIDE.md:931 has it for a
  job that failed. The fallback completes a job without posting its webhook
  (`ProcessSigningSync`), DEVELOPER_GUIDE.md:158 promises a post. It also signs
  with `default` whatever profile was asked for.
* "Retry on transient errors" in `queue/tasks.py` stands above a retry of every
  exception (`Except`).
* A crash between certificate and key leaves an entry without key which later
  provisionings return, where certificate_store.py:91 wants to "ensure" it
  (`Crash`, `Read`). Two rotations in one second share the backup that
  certificate_store.py:193 makes (`RotateArchives` with `Hurry`).
* docs/API.md:357 has the rate limit per user; `get_key` gives all bearer tokens
  one key, at each of four processes. `burst` is stored and never read.
* docs/API.md:350 names the header `X-Webhook-Signature`, the code sends
  `X-Macro-Sign-Signature`, and only with a secret, which the signing task never
  passes (README.md:256: payloads are signed).
* README.md:253: the audit trail has the file hash and the certificate
  fingerprint; rows of the ServiceNow endpoints have neither.
* The jobs page means to go to leaf one after an upload; its `fetchJobs` still
  asks for the leaf it was on, and both answers are applied
  (`handleUploadSuccess`). The audit page keeps its total after an error.

## 4. The proofs

Every safety invariant and action property of the passing runs is a theorem, and
so are the two refinements, for every instance: any sets of jobs, workers,
processes, certificates, clients or requests and any bounds, under the
assumptions the modules name, which TLC evaluates in each run. Each action has a
step of its own; frame lemmas say once what a step leaves alone. `TypeCorrect` of
each module is inductive once it says at which step of its code a process may be
and what it then holds; the others are below, with the invariant they need.

`SigningPipelineProofs`, `SigningRefinementProofs`:

| Theorem | Property | Argument |
|---|---|---|
| `EffectsCorrect` | `EffectsHaveRow` | `HandlerInv`: what row and database hold at each stage of the handler, and that before the publish the job is untouched |
| `NoLostTaskCorrect` | `NoLostTask` | "carried from the successful publish on": live or settled at the commit and after, each step hands the job from message to execution to retry message or result |
| `ProvenanceCorrect` | `Provenance` | the seals workers hold and rows in the session carry; generations only grow, so a seal stays one the certificate went through |
| `ShapeCorrect` | `OutboxShape` | `ShapeInv`: without faults there is one message or one execution of a job, and its number of retries counts the events there are; a soft limit before the publish moves an execution to the `except` clause and adds no event |
| `NotificationsCorrect` | `ResultsWereNotified` | `NotifiedInv`: a message or execution that says it was retried `r` times stands for `r` failures told, the step before a result for the event told |
| `OnePathCorrect` | `OnePath` | `InlineInv`: where a publish that raises leaves nothing on the broker (`PublishesCleanly`, a hypothesis, as in the run), a job the API signs by itself stays untouched |
| `EffectsBounded` | `EffectBound` | each step adds to copies, executions and completions of a job no more than to the faults; the sums of the model are shown to be cardinalities of sets of copies, executions and positions, as induction over a fold is out of reach |
| `RefinementCorrect` | `ImplementsService` | each step is one action of the service at one job, or a stutter; a worker that still has a message, its acknowledgement included, has it for a carried job (`Held`), so that a redelivery never takes work on anew |

`WebhookDeliveryProofs`:

| Theorem | Property | Argument |
|---|---|---|
| `NoSilentLossCorrect` | `NoSilentLoss` | `AttemptInv`: a message that says it was retried `r` times stands for at least `r` posts, one more where a worker holds it, so that giving up means the posts were made |
| `DuplicatesCorrect`, `PostsBounded` | `DuplicatesWereUnheard`, `PostBound` | `CountInv`: a sum of what was posted or received and what messages and executions may still add (a message retried `r` times: `MaxRetries - r + 1` posts) against the answers unheard and the faults |

`LocalCertProofs`:

| Theorem | Property | Argument |
|---|---|---|
| `DamageCorrect` | `DamageCounted` | no hypothesis. `DamageStep`: an operation that steps leaves no file it truncated behind, and a process that dies leaves the one it was about to put (`DamageGrows`) |
| `PairComplete` | `CompleteWhenQuiet` | nobody deletes (a hypothesis). `PairInv`: a file that is absent or half written while the other is there is one that some process has yet to write, or the key of a certificate that came without one; rotations are included, two in the same second too |
| `StoreImplemented` | `ImplementsCertStore` | hypotheses: one process, which does not die, does not generate over an entry and rotates in only certificates of the key given or there (no `recertify`), and one rotation a second. `AloneInv` says for each operation how far the files and its backup are, and that the serial it is to write is larger than all there are; then every step is one of `CertStore`'s or none: a write takes effect when the certificate is opened |

`RateLimiterProofs`:

| Theorem | Property | Argument |
|---|---|---|
| `WindowCorrect` | `WindowBound` | `Kept`: times are stamped in order, so what is remembered is an end of the list, and what is forgotten is a window old. A grant finds fewer than `Limit` remembered, hence the time `Limit` places back is among the forgotten |
| `RefusalsCorrect` | `RefusedOnlyWhenFull` | `CheckInv`: what is remembered while a key is checked lies within the window before the first reading of the clock |
| `ClusterCorrect` | `ClusterBound` | `SeatedInv`: each limiter, running or replaced by a restart, has `Limit` seats, and the `m`-th request it grants takes seat `m % Limit`; two grants in one seat are a window apart, so one window holds no more grants than there are seats |

`SnowServiceProofs`:

| Theorem | Property | Argument |
|---|---|---|
| `CertificatesCorrect` | `SignatureCertified` | `CertInv`: the entry a request works on was stored under its secret, certificate and key together, and before the commit the engine has found both loadable, in time and of a supported algorithm |
| `RoundTripCorrect`, `ValidCorrect` | `RoundTrip`, `ValidMeansSigned` | `VerifyInv`: a verification that says `invalid`, or is about to, has one of the reasons; one that says `valid` found content, hash and pair to agree. `AuditInv`: the row of an identity says what its request was answered |
| `ErrorsCorrect`, `BlindCorrect` | `ErrorsExplained`, `ReplacedBlindly` | `ProvisionInv`: who is about to store found no entry and there is none yet, or a call of it failed, or another request wrote its secret meanwhile; a secret Azure hides was stored once; only Vault's connection and AWS's creation raise what nobody handles |

`AccountsProofs`:

| Theorem | Property | Argument |
|---|---|---|
| `AuthorityCorrect` | `EffectsAuthorized` | `AuthInv`: among the states a request has seen is one in which its account is enabled and has the permission and one in which its key is active; both may have gone since, the moments stay |
| `CyclesCorrect` | `CyclesOnlyByRevocation` | in a circle each request waits with its decision for a lock another one holds before it decided, which is the mark of a key; only a revocation writes the row of a key |
| `UpdatesCorrect` | `UpdatesAreExact` | `HeldInv`, `LocksInv`, `DataInv`: a transaction holds the key's mark and, from the flush on, what the handler decided, and no other holds a lock of these writes, so that what they need stays until the commit |
| `UnhandledCorrect` | `UnhandledExplained` | `DecidedInv`: while nothing was committed since a handler decided, what it looked at is still so, hence a write that then raises has a cause no check looks at; ids and texts that are refused before that are told by the request itself |

`JobReadersProofs`:

| Theorem | Property | Argument |
|---|---|---|
| `CoverCorrect`, `ShownCorrect` | `PagesCover`, `ShownIsSelected` | `PageInv`: rows only get behind newer ones, so a row that was passed stays passed; of a reader who turns one leaf at a time, the leaf to be read exists, what comes before it has been seen, and the answer under way fits both |
| `StatsCorrect` | `StatsBounded` | `StatsInv`: each figure is the size of a set the table had between the first and the last query; what two of them differ in appeared meanwhile |
| `ExitCorrect` | `ExitIsTruth` | `CliInv`: the client polls a job of its own that is committed, and which it has found queued in every poll so far |

The assumptions say no more than what the code is given: finite sets of workers
and processes, positive limits and sizes, publishes that raise before or after
the broker took the message, seed data that respects the constraints of the
tables, tokens of accounts of the seed, requests with fields of the kinds their
schemas have, malformed ids and unfit texts included, and deletions only where one
process uses the directory.

Only model-checked: the liveness properties `TaskSettles` and `EventsSettle` and
the fairness part of `ImplementsServiceLive`, as fairness and ENABLED are beyond
the prover; and the two runs that end in a counterexample.

## 5. Plan

Done, in this order: `SigningPipeline` with its runs, refinement and first
proofs; `LocalCertStore` and its refinement; `WebhookDelivery`; `RateLimiter`;
`RemoteCertStore`, `SigningEngine`, `FileValidator` and `SnowService`;
`Database` and `Accounts`; `JobReaders`; proofs of every invariant, action
property and refinement the runs check.

Left: theorems where a hypothesis above may be weakened (`StoreImplemented` for
several processes of which one writes), and about the functions of
`SigningEngine` and `FileValidator` by themselves.

## 6. Not modelled

Cryptography, the bytes of files, certificates and signatures, formatting of
responses and logs, password hashing and token encoding. `verify_macro_task` is
published by nobody. Handlers that only read one row or list and answer with it
(`GET /me`, the listings of users, teams, profiles, keys and webhook
configurations), the client's `verify` and `health`, and dashboard pages that
show one answer keep no state a property could be about. Webhook configurations
are written (`Accounts`) and read by nobody: no event is sent because of one.
Every session makes an engine with a pool of its own; how many connections that
takes is not part of `Database`. Health probes, settings, logging, deployment
manifests and slide generation are configuration or tools. Network faults
between client and API appear only as a response that is never seen. A worker
host losing its clock and a broker losing its data are out of scope, and so is
redelivery by Redis' visibility timeout (see 2.1).
