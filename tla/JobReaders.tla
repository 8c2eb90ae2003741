----------------------------- MODULE JobReaders -----------------------------
(***************************************************************************)
(* Those who read signing jobs while others submit them: the listings of   *)
(* src/src/api/signing.py and src/src/api/admin.py with the dashboard      *)
(* pages that turn their leaves, the statistics, and the command line      *)
(* client that submits a job and polls it.  Each query reads what is       *)
(* committed at its moment; a row has its created_at from the flush and    *)
(* appears at the commit, which may be much later, so rows appear below    *)
(* newer ones.  A run has one kind of reader, chosen at the start.         *)
(***************************************************************************)
EXTENDS Naturals, Sequences, FiniteSets

CONSTANTS
    Jobs,        \* submissions, each with its audit row
    Mine,        \* those of the reader's account
    OldStatus,   \* the statuses of those committed at the start, oldest first
    Kinds,       \* readers: "jobs", "audit" (pages), "stats", "sign", "status"
    Filters,     \* status filters the page may ask for, and NoFilter
    NoFilter,
    PER_PAGE, RECENT, \* leaf size; size of the statistics' list of jobs
    Timeouts,    \* values of --timeout, in polling intervals of three seconds
    MaxFetches,  \* bound: requests of a page
    MaxFaults    \* bound: requests that fail

Statuses == {"queued", "completed", "failed"}
JobStatus == Statuses \cup {"processing", "cancelled"}

Old == 1..Len(OldStatus)

\* No job is numbered 0: a client without a job has that one.
ASSUME JobsAssumption ==
    Mine \subseteq Jobs /\ Old \subseteq Jobs /\ IsFiniteSet(Jobs) /\ 0 \notin Jobs
ASSUME OldAssumption == OldStatus \in Seq(Statuses)
ASSUME FilterAssumption == NoFilter \in Filters
ASSUME PageAssumption == PER_PAGE \in Nat \ {0} /\ RECENT \in Nat
ASSUME BoundsAssumption ==
    Timeouts \subseteq Nat /\ MaxFetches \in Nat \ {0} /\ MaxFaults \in Nat

VARIABLES
    stamp,   \* stamp[j]: created_at, 0 before the flush
    status,  \* status[j]: of the committed row; "none" or "gone" without one
    kind,    \* the reader
    ui,      \* a dashboard page
    fetches, \* its requests under way
    sent,    \* requests it has made
    stats,   \* a request for the statistics
    cli,     \* a run of the command line client
    faults

rows == <<stamp, status>>
readers == <<ui, fetches, sent, stats, cli, faults>>
vars == <<rows, kind, readers>>

Committed == {j \in Jobs : status[j] \in Statuses}
Stamped == {j \in Jobs : stamp[j] > 0}

(***************************************************************************)
(* The submissions.  Clocks are fine enough for stamps to differ.          *)
(***************************************************************************)
FlushRow(j) ==
    /\ stamp[j] = 0
    /\ stamp' = [stamp EXCEPT ![j] = Cardinality(Stamped) + 1]
    /\ UNCHANGED <<status, kind, readers>>

\* Variant: the column has no default.
CommitRowUnstamped(j) ==
    /\ status[j] = "none"
    /\ \E s \in Statuses : status' = [status EXCEPT ![j] = s]
    /\ UNCHANGED <<stamp, kind, readers>>

\* Queued for a worker, or signed in the request after all.
CommitRow(j) ==
    /\ stamp[j] > 0 /\ status[j] = "none"
    /\ \E s \in Statuses : status' = [status EXCEPT ![j] = s]
    /\ UNCHANGED <<stamp, kind, readers>>

RollbackRow(j) ==
    /\ stamp[j] > 0 /\ status[j] = "none"
    /\ status' = [status EXCEPT ![j] = "gone"]
    /\ UNCHANGED <<stamp, kind, readers>>

Fault ==
    /\ faults < MaxFaults
    /\ faults' = faults + 1

(***************************************************************************)
(* list_signing_jobs and list_audit_logs: the matching rows are counted,   *)
(* then the leaf is cut by offset from the newest.                         *)
(***************************************************************************)
Matching(filter) ==
    IF kind = "audit" THEN Committed
    ELSE {j \in Committed \cap Mine : filter = NoFilter \/ status[j] = filter}

Newer(j, S) == Cardinality({k \in S : stamp[k] > stamp[j]})

\* Variant: the offset counts leaves from zero.
LeafFromZero(S, page) == {j \in S : Newer(j, S) \in page * PER_PAGE..(page + 1) * PER_PAGE - 1}

Leaf(S, page) == {j \in S : Newer(j, S) \in (page - 1) * PER_PAGE..page * PER_PAGE - 1}

Request(n, page, filter) ==
    [n |-> n, page |-> page, filter |-> filter, pc |-> "count", ok |-> TRUE,
     total |-> 0, rows |-> {}, crossed |-> FALSE]

Replace(r, new) == fetches' = (fetches \ {r}) \cup {new}

\* A filter that is no status is refused (400).
CountRows(r) ==
    /\ r.pc = "count"
    /\ IF kind = "jobs" /\ r.filter # NoFilter /\ r.filter \notin JobStatus
       THEN Replace(r, [r EXCEPT !.pc = "answer", !.ok = FALSE])
       ELSE Replace(r, [r EXCEPT !.pc = "rows", !.total = Cardinality(Matching(r.filter))])
    /\ UNCHANGED <<rows, kind, ui, sent, stats, cli, faults>>

\* crossed: history, rows appeared between the two queries.
ReadRows(r) ==
    /\ r.pc = "rows"
    /\ Replace(r, [r EXCEPT !.pc = "answer", !.rows = Leaf(Matching(r.filter), r.page),
                            !.crossed = Cardinality(Matching(r.filter)) # r.total])
    /\ UNCHANGED <<rows, kind, ui, sent, stats, cli, faults>>

LoseRequest(r) ==
    /\ r.pc # "answer" /\ Fault
    /\ Replace(r, [r EXCEPT !.pc = "answer", !.ok = FALSE])
    /\ UNCHANGED <<rows, kind, ui, sent, stats, cli>>

(***************************************************************************)
(* The dashboard's jobs page and audit page.  from, seen: history, the     *)
(* rows there were when the reader was last sent to leaf one, and those on *)
(* the screen since; crossed: history, of the answer on the screen; calm:  *)
(* history, no request was made while another was under way.               *)
(***************************************************************************)
totalPages(u) == (u.total + PER_PAGE - 1) \div PER_PAGE

\* A request for the leaf; every change of leaf or filter makes one.
fetch(u, page, filter) ==
    /\ sent < MaxFetches
    /\ sent' = sent + 1
    /\ fetches' = fetches \cup {Request(sent + 1, page, filter)}
    /\ ui' = [u EXCEPT !.page = page, !.filter = filter, !.error = FALSE,
                       !.calm = @ /\ fetches = {},
                       !.from = IF page = 1 THEN Matching(filter) ELSE @,
                       !.seen = IF page = 1 THEN {} ELSE @]
    /\ UNCHANGED <<rows, kind, stats, cli, faults>>

\* The audit page hides its buttons while it loads, and for good once a request
\* failed; the jobs page has them all the time.
Buttons == kind = "audit" => fetches = {} /\ ~ui.error

NextPage == Buttons /\ ui.page < totalPages(ui) /\ fetch(ui, ui.page + 1, ui.filter)

PrevPage == Buttons /\ ui.page > 1 /\ fetch(ui, ui.page - 1, ui.filter)

\* Variant: the leaf number stays when the filter changes.
handleStatusChangeKeepsPage == \E f \in Filters \ {ui.filter} :
    kind = "jobs" /\ fetch(ui, ui.page, f)

handleStatusChange == \E f \in Filters \ {ui.filter} :
    kind = "jobs" /\ fetch(ui, 1, f)

\* handleUploadSuccess sets leaf one, which makes a request if it was another,
\* and calls fetchJobs, which still asks for the leaf there was.
handleUploadSuccess ==
    /\ kind = "jobs" /\ Committed \cap Mine # {}
    /\ IF ui.page = 1 THEN fetch(ui, 1, ui.filter)
       ELSE /\ sent < MaxFetches
            /\ sent' = sent + 2
            /\ fetches' = fetches \cup {Request(sent + 1, ui.page, ui.filter),
                                        Request(sent + 2, 1, ui.filter)}
            /\ ui' = [ui EXCEPT !.page = 1, !.error = FALSE, !.calm = FALSE]
            /\ UNCHANGED <<rows, kind, stats, cli, faults>>

RetryFetch == kind = "jobs" /\ ui.error /\ fetch(ui, ui.page, ui.filter)

\* The answer that comes last is shown, whichever request it answers, under the
\* error of an earlier one.
Arrive(r) ==
    /\ r.pc = "answer"
    /\ fetches' = fetches \ {r}
    /\ ui' = IF r.ok
             THEN [ui EXCEPT !.rows = r.rows, !.total = r.total,
                             !.seen = @ \cup r.rows, !.crossed = r.crossed]
             ELSE [ui EXCEPT !.rows = {}, !.error = TRUE,
                             !.total = IF kind = "audit" THEN @ ELSE 0]
    /\ UNCHANGED <<rows, kind, sent, stats, cli, faults>>

(***************************************************************************)
(* get_dashboard_stats: one query after the other.                         *)
(***************************************************************************)
StatQueries == <<"total", "completed", "failed", "recent">>

\* Variant: what is not completed counts as failed.
CountOfNegated(what) ==
    CASE what = "total" -> Committed
      [] what = "completed" -> {j \in Committed : status[j] = "completed"}
      [] what = "failed" -> {j \in Committed : status[j] # "completed"}
      [] what = "recent" -> {j \in Committed : Newer(j, Committed) < RECENT}

CountOf(what) ==
    CASE what = "total" -> Committed
      [] what \in {"completed", "failed"} -> {j \in Committed : status[j] = what}
      [] what = "recent" -> {j \in Committed : Newer(j, Committed) < RECENT}

\* found: what each query saw, kept as sets; at: history, the rows there were.
get_dashboard_stats ==
    /\ kind = "stats" /\ stats.step < Len(StatQueries)
    /\ LET q == StatQueries[stats.step + 1] IN
        stats' = [stats EXCEPT !.step = @ + 1, !.found[q] = CountOf(q),
                               !.at = IF stats.step = 0 THEN Committed ELSE @]
    /\ UNCHANGED <<rows, kind, ui, fetches, sent, cli, faults>>

(***************************************************************************)
(* The command line client.                                                *)
(***************************************************************************)
Exit(code) == [cli EXCEPT !.pc = "done", !.exit = code]
CliStep(new) == cli' = new /\ UNCHANGED <<rows, kind, ui, fetches, sent, stats>>

\* get_signing_status: 400 for an id that is none (job 0 here), 404 without a
\* row, 403 for a job of another account unless the reader is an administrator.
get_signing_status(j) ==
    CASE j = 0 -> 400
      [] j # 0 /\ j \notin Committed -> 404
      [] j \in Committed /\ j \notin Mine /\ ~cli.admin -> 403
      [] OTHER -> 200

\* _sign_remote: the answer of POST /sign comes once its transaction is over.
\* Without --wait this is all.
SignRemote(j) ==
    /\ cli.pc = "post" /\ kind = "sign"
    /\ j \in Mine \ Old /\ status[j] # "none"
    /\ CliStep(IF status[j] = "gone" THEN Exit(1)
               ELSE IF ~cli.wait THEN [Exit(0) EXCEPT !.job = j]
               ELSE [cli EXCEPT !.pc = "poll", !.job = j])
    /\ UNCHANGED faults

\* A connection that is lost, a post that takes a minute, a credential that is
\* refused (401).
CliFails ==
    /\ cli.pc \in {"post", "poll"} /\ (cli.pc = "poll" => cli.elapsed < cli.timeout)
    /\ Fault /\ CliStep([Exit(1) EXCEPT !.failed = TRUE])

\* Variant: a last poll that would end after the time budget is not made.
PollStatusEarly ==
    /\ cli.pc = "poll"
    /\ LET shown == status[cli.job] IN
        CliStep(CASE cli.elapsed + 1 >= cli.timeout -> Exit(1)
                  [] cli.elapsed + 1 < cli.timeout /\ shown = "completed" -> Exit(0)
                  [] cli.elapsed + 1 < cli.timeout /\ shown = "failed" -> Exit(1)
                  [] OTHER -> [cli EXCEPT !.elapsed = @ + 1])
    /\ UNCHANGED faults

\* _poll_status: one poll and the sleep after it; only sleeps are counted.
PollStatus ==
    /\ cli.pc = "poll"
    /\ LET shown == status[cli.job] IN
        CliStep(CASE cli.elapsed >= cli.timeout -> Exit(1)
                  [] cli.elapsed < cli.timeout /\ get_signing_status(cli.job) # 200 -> Exit(1)
                  [] cli.elapsed < cli.timeout /\ shown = "completed" -> Exit(0)
                  [] cli.elapsed < cli.timeout /\ shown = "failed" -> Exit(1)
                  [] OTHER -> [cli EXCEPT !.elapsed = @ + 1])
    /\ UNCHANGED faults

cmd_status(j) ==
    /\ cli.pc = "post" /\ kind = "status"
    /\ CliStep([Exit(IF get_signing_status(j) = 200 THEN 0 ELSE 1) EXCEPT !.job = j])
    /\ UNCHANGED faults

-----------------------------------------------------------------------------
Init ==
    /\ stamp = [j \in Jobs |-> IF j \in Old THEN j ELSE 0]
    /\ status = [j \in Jobs |-> IF j \in Old THEN OldStatus[j] ELSE "none"]
    /\ kind \in Kinds
    /\ ui = [page |-> 1, filter |-> NoFilter, rows |-> {}, total |-> 0, error |-> FALSE,
             seen |-> {}, from |-> Old \cap (IF kind = "audit" THEN Jobs ELSE Mine),
             crossed |-> FALSE, calm |-> TRUE]
    /\ fetches = IF kind \in {"jobs", "audit"} THEN {Request(1, 1, NoFilter)} ELSE {}
    /\ sent = 1
    /\ stats = [step |-> 0, found |-> [q \in {"total", "completed", "failed", "recent"} |-> {}], at |-> {}]
    /\ \E t \in Timeouts, w, a \in BOOLEAN :
        cli = IF kind \in {"sign", "status"}
              THEN [pc |-> "post", timeout |-> t, wait |-> w, admin |-> a,
                    elapsed |-> 0, job |-> 0, exit |-> 1, failed |-> FALSE]
              ELSE [pc |-> "done", timeout |-> 0, wait |-> FALSE, admin |-> FALSE,
                    elapsed |-> 0, job |-> 0, exit |-> 1, failed |-> FALSE]
    /\ faults = 0

Next ==
    \/ \E j \in Jobs : FlushRow(j) \/ CommitRow(j) \/ RollbackRow(j)
    \/ \E r \in fetches : CountRows(r) \/ ReadRows(r) \/ LoseRequest(r) \/ Arrive(r)
    \/ NextPage \/ PrevPage \/ handleStatusChange \/ handleUploadSuccess \/ RetryFetch
    \/ get_dashboard_stats
    \/ \E j \in Jobs : SignRemote(j)
    \/ \E j \in Jobs \cup {0} : cmd_status(j)
    \/ CliFails \/ PollStatus

Spec == Init /\ [][Next]_vars
-----------------------------------------------------------------------------
(***************************************************************************)
(* Properties.                                                             *)
(***************************************************************************)
\* The type invariant: stamps are the order of the flushes, only stamped rows
\* are committed, and what a page shows and counts is committed.
TypeOK ==
    /\ \A j, k \in Stamped : stamp[j] = stamp[k] => j = k
    /\ \A j \in Jobs : stamp[j] \in 0..Cardinality(Jobs) /\ (status[j] # "none" => stamp[j] > 0)
    /\ ui.rows \cup ui.seen \cup ui.from \subseteq Committed
    /\ ui.total <= Cardinality(Committed) /\ ui.page \in 1..MaxFetches
    /\ sent \in 1..MaxFetches + 1 /\ faults \in 0..MaxFaults
    /\ stats.step \in 0..Len(StatQueries)
    /\ cli.exit \in {0, 1} /\ cli.elapsed \in 0..cli.timeout

Calm == ui.calm /\ fetches = {} /\ ~ui.error

\* A reader who turns the leaves one at a time until "Next" is disabled has had
\* every row on the screen that was there at the start, although rows appear
\* above and among those read; only a row that appears between the count and
\* the leaf of the last request can push one out of sight.
PagesCover ==
    kind \in {"jobs", "audit"} /\ Calm /\ ui.page >= totalPages(ui) /\ ~ui.crossed =>
        ui.from \subseteq ui.seen

\* As long as the page makes one request at a time, what it shows is what is
\* selected: jobs of the filter, a leaf at most, and no leaf past the last.
ShownIsSelected ==
    kind \in {"jobs", "audit"} /\ Calm =>
        /\ ui.rows \subseteq Matching(ui.filter) /\ Cardinality(ui.rows) <= PER_PAGE
        /\ ui.page > 1 => ui.rows # {}

\* The statistics are of no single moment, so completed and failed jobs may
\* outnumber all jobs; but each figure is one the table had while the request
\* ran, and a difference is made up by rows that appeared meanwhile.
StatsBounded ==
    stats.step = Len(StatQueries) =>
        LET of(s) == {j \in Committed : status[j] = s}
            found == stats.found
            late == Committed \ stats.at
        IN /\ stats.at \subseteq found["total"]
           /\ \A s \in {"completed", "failed"} :
                stats.at \cap of(s) \subseteq found[s] /\ found[s] \subseteq of(s)
           /\ Cardinality(found["completed"]) + Cardinality(found["failed"])
                <= Cardinality(found["total"]) + Cardinality(late)
           /\ Cardinality(found["recent"]) <= RECENT

\* The exit code of "sign --wait" is the job's fate: 0 says it is completed;
\* 1 of a completed job is the fault of a lost answer or of a budget of no
\* time, never of the last poll's timing; a job that was queued exits with 1
\* when the budget is spent, whatever the workers do.
ExitIsTruth ==
    kind = "sign" /\ cli.pc = "done" /\ cli.wait =>
        /\ cli.exit = 0 => status[cli.job] = "completed"
        /\ cli.exit = 1 /\ cli.job \in Committed /\ status[cli.job] = "completed" =>
            cli.failed \/ cli.timeout = 0
        /\ cli.job \in Committed /\ status[cli.job] = "queued" => cli.failed \/ cli.elapsed = cli.timeout
=============================================================================
