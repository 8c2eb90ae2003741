-------------------------- MODULE JobReadersProofs --------------------------
(***************************************************************************)
(* Theorems about JobReaders, for any submissions, leaf size, filters,     *)
(* time budgets, requests of a page and failing requests.                  *)
(***************************************************************************)
EXTENDS JobReaders, FiniteSetTheorems, TLAPS

(***************************************************************************)
(* The rows.  Nothing that is committed changes or goes away.              *)
(***************************************************************************)
RowsInv ==
    /\ stamp \in [Jobs -> Nat] /\ status \in [Jobs -> Statuses \cup {"none", "gone"}]
    /\ \A j \in Jobs : stamp[j] <= Cardinality(Stamped)
    /\ \A j, k \in Stamped : stamp[j] = stamp[k] => j = k
    /\ \A j \in Jobs : status[j] # "none" => stamp[j] > 0

LEMMA JobsFinite == \A S \in SUBSET Jobs : IsFiniteSet(S) /\ Cardinality(S) \in Nat
BY JobsAssumption, FS_Subset, FS_CardinalityType

LEMMA RowSets == Committed \subseteq Jobs /\ Stamped \subseteq Jobs
BY DEF Committed, Stamped

LEMMA RowsInit == Init => RowsInv
<1>. SUFFICES ASSUME Init PROVE RowsInv
  OBVIOUS
<1>n. PICK n \in Nat : n = Len(OldStatus) /\ Old = 1..n /\ OldStatus \in [1..n -> Statuses]
  BY OldAssumption DEF Old
<1>1. /\ stamp = [j \in Jobs |-> IF j \in Old THEN j ELSE 0]
      /\ status = [j \in Jobs |-> IF j \in Old THEN OldStatus[j] ELSE "none"]
  BY DEF Init
<1>2. \A j \in Old : j \in Nat \ {0} /\ j <= n /\ OldStatus[j] \in Statuses
  BY <1>n
<1>3. Stamped = Old
  BY <1>1, <1>2, JobsAssumption DEF Stamped
<1>4. Cardinality(Stamped) = n
  <2>1. Cardinality(1..n) = IF 1 > n THEN 0 ELSE n - 1 + 1
    BY FS_Interval
  <2>. QED
    BY <1>n, <1>3, <2>1
<1>5. stamp \in [Jobs -> Nat] /\ status \in [Jobs -> Statuses \cup {"none", "gone"}]
  BY <1>1, <1>2
<1>6. \A j \in Jobs : stamp[j] <= Cardinality(Stamped)
  BY <1>1, <1>2, <1>4
<1>7. \A j, k \in Stamped : stamp[j] = stamp[k] => j = k
  BY <1>1, <1>3, JobsAssumption
<1>8. \A j \in Jobs : status[j] # "none" => stamp[j] > 0
  BY <1>1, <1>2
<1>. QED
  BY <1>5, <1>6, <1>7, <1>8 DEF RowsInv

\* Rows appear, and those that are committed stay as they are.
Grows ==
    /\ Committed \subseteq Committed' /\ kind' = kind
    /\ \A j \in Committed : status'[j] = status[j] /\ stamp'[j] = stamp[j]

LEMMA SameRows ==
    ASSUME RowsInv, UNCHANGED <<stamp, status, kind>>
    PROVE  RowsInv' /\ Grows
BY DEF RowsInv, Grows, Committed, Stamped

LEMMA FlushStep ==
    ASSUME RowsInv, NEW j \in Jobs, FlushRow(j)
    PROVE  RowsInv' /\ Grows
<1>1. PICK n \in Nat : n = Cardinality(Stamped) /\ IsFiniteSet(Stamped)
  BY RowSets, JobsFinite
<1>2. /\ stamp[j] = 0 /\ stamp' = [stamp EXCEPT ![j] = n + 1]
      /\ status' = status /\ kind' = kind
  BY <1>1 DEF FlushRow
<1>3. /\ stamp' \in [Jobs -> Nat] /\ stamp'[j] = n + 1
      /\ \A k \in Jobs \ {j} : stamp'[k] = stamp[k]
      /\ \A k \in Jobs : stamp[k] \in Nat /\ stamp[k] <= n
  BY <1>1, <1>2 DEF RowsInv
<1>4. Stamped' = Stamped \cup {j} /\ j \notin Stamped
  BY <1>2, <1>3 DEF Stamped
<1>5. Cardinality(Stamped') = n + 1
  BY <1>1, <1>4, FS_AddElement
<1>6. \A k \in Jobs : stamp'[k] <= Cardinality(Stamped')
  BY <1>3, <1>5
<1>7. \A k \in Stamped' : k = j \/ (k \in Stamped /\ k # j /\ stamp'[k] = stamp[k] /\ stamp[k] <= n)
  BY <1>3, <1>4, RowSets
<1>8. ASSUME NEW k \in Stamped', NEW l \in Stamped', stamp'[k] = stamp'[l] PROVE k = l
  <2>1. \A m \in Stamped : stamp[m] \in Nat
    BY <1>3, RowSets
  <2>. QED
    BY <1>3, <1>7, <1>8, <2>1 DEF RowsInv
<1>9. \A k \in Jobs : status'[k] # "none" => stamp'[k] > 0
  BY <1>2, <1>3 DEF RowsInv
<1>10. RowsInv'
  BY <1>2, <1>3, <1>6, <1>8, <1>9 DEF RowsInv
<1>11. Grows
  <2>1. j \notin Committed /\ Committed \subseteq Jobs
    BY <1>2 DEF RowsInv, Committed, Statuses
  <2>. QED
    BY <1>2, <1>3, <2>1 DEF Grows, Committed
<1>. QED
  BY <1>10, <1>11

LEMMA EndRowStep ==
    ASSUME RowsInv, NEW j \in Jobs, CommitRow(j) \/ RollbackRow(j)
    PROVE  RowsInv' /\ Grows
<1>1. PICK s \in Statuses \cup {"gone"} : status' = [status EXCEPT ![j] = s]
  BY DEF CommitRow, RollbackRow
<1>2. stamp[j] > 0 /\ status[j] = "none" /\ stamp' = stamp /\ kind' = kind
  BY DEF CommitRow, RollbackRow
<1>3. j \notin Committed
  BY <1>2 DEF Committed, Statuses
<1>4. \A k \in Jobs : k # j => status'[k] = status[k]
  BY <1>1 DEF RowsInv
<1>5. RowsInv'
  BY <1>1, <1>2, <1>4 DEF RowsInv, Stamped
<1>6. Grows
  BY <1>2, <1>3, <1>4 DEF Grows, Committed
<1>. QED
  BY <1>5, <1>6

\* The steps of the readers leave the rows alone.
RowStep == \E j \in Jobs : FlushRow(j) \/ CommitRow(j) \/ RollbackRow(j)
PageStep ==
    \/ \E r \in fetches : CountRows(r) \/ ReadRows(r) \/ LoseRequest(r) \/ Arrive(r)
    \/ NextPage \/ PrevPage \/ handleStatusChange \/ handleUploadSuccess \/ RetryFetch
ClientStep ==
    \/ \E j \in Jobs : SignRemote(j)
    \/ \E j \in Jobs \cup {0} : cmd_status(j)
    \/ CliFails \/ PollStatus

LEMMA StepIs ==
    ASSUME [Next]_vars
    PROVE  \/ RowStep /\ UNCHANGED readers
           \/ UNCHANGED <<rows, kind>> /\ PageStep /\ UNCHANGED <<stats, cli>>
           \/ UNCHANGED <<rows, kind>> /\ get_dashboard_stats /\ UNCHANGED <<ui, fetches, sent, cli, faults>>
           \/ UNCHANGED <<rows, kind>> /\ ClientStep /\ UNCHANGED <<ui, fetches, sent, stats>>
           \/ UNCHANGED vars
<1>1. ASSUME RowStep PROVE UNCHANGED readers
  BY <1>1 DEF RowStep, FlushRow, CommitRow, RollbackRow
<1>2. ASSUME NEW u, NEW page, NEW filter, fetch(u, page, filter)
      PROVE  UNCHANGED <<rows, kind>> /\ UNCHANGED <<stats, cli>>
  BY <1>2 DEF fetch
<1>3. ASSUME PageStep PROVE UNCHANGED <<rows, kind>> /\ UNCHANGED <<stats, cli>>
  BY <1>2, <1>3
     DEF PageStep, CountRows, ReadRows, LoseRequest, Arrive, NextPage, PrevPage,
         handleStatusChange, handleUploadSuccess, RetryFetch
<1>4. ASSUME get_dashboard_stats PROVE UNCHANGED <<rows, kind>> /\ UNCHANGED <<ui, fetches, sent, cli, faults>>
  BY <1>4 DEF get_dashboard_stats
<1>5. ASSUME ClientStep PROVE UNCHANGED <<rows, kind>> /\ UNCHANGED <<ui, fetches, sent, stats>>
  BY <1>5 DEF ClientStep, SignRemote, cmd_status, CliFails, PollStatus, CliStep
<1>. QED
  BY <1>1, <1>3, <1>4, <1>5 DEF Next, vars, RowStep, PageStep, ClientStep

LEMMA RowsStep == RowsInv /\ [Next]_vars => RowsInv' /\ Grows
<1>1. ASSUME RowsInv, RowStep PROVE RowsInv' /\ Grows
  BY <1>1, FlushStep, EndRowStep DEF RowStep
<1>. QED
  BY <1>1, StepIs, SameRows DEF vars, rows

-----------------------------------------------------------------------------
(***************************************************************************)
(* Positions from the newest.                                              *)
(***************************************************************************)
Above(j, S) == {k \in S : stamp[k] > stamp[j]}

LEMMA CommittedStamps ==
    ASSUME RowsInv, NEW S \in SUBSET Committed
    PROVE  /\ IsFiniteSet(S) /\ Cardinality(S) \in Nat
           /\ \A j \in S : stamp[j] \in Nat /\ j \in Stamped
           /\ \A j, k \in S : stamp[j] = stamp[k] => j = k
           /\ \A j : /\ Above(j, S) \subseteq S /\ IsFiniteSet(Above(j, S))
                     /\ Newer(j, S) = Cardinality(Above(j, S)) /\ Newer(j, S) \in Nat
<1>1. S \subseteq Jobs
  BY RowSets
<1>2. \A j \in S : stamp[j] \in Nat /\ j \in Stamped
  BY <1>1 DEF RowsInv, Stamped, Committed, Statuses
<1>3. \A j : Above(j, S) \subseteq S /\ Above(j, S) \subseteq Jobs
  BY <1>1 DEF Above
<1>4. \A j : Newer(j, S) = Cardinality(Above(j, S))
  BY DEF Newer, Above
<1>5. \A j, k \in S : stamp[j] = stamp[k] => j = k
  BY <1>2 DEF RowsInv
<1>. QED
  BY <1>1, <1>2, <1>3, <1>4, <1>5, JobsFinite

LEMMA NewerIs ==
    ASSUME RowsInv, NEW S \in SUBSET Committed
    PROVE  /\ \A j \in S : Newer(j, S) \in 0..Cardinality(S) - 1
           /\ \A j, k \in S : Newer(j, S) = Newer(k, S) => j = k
<1>1. ASSUME NEW j \in S PROVE Newer(j, S) \in 0..Cardinality(S) - 1
  <2>1. j \notin Above(j, S) /\ Above(j, S) \in SUBSET S
    BY CommittedStamps DEF Above
  <2>2. Cardinality(Above(j, S)) <= Cardinality(S) /\ Cardinality(Above(j, S)) # Cardinality(S)
    BY <2>1, CommittedStamps, FS_Subset
  <2>. QED
    BY <2>2, CommittedStamps
<1>2. ASSUME NEW j \in S, NEW k \in S, stamp[j] < stamp[k] PROVE Newer(k, S) < Newer(j, S)
  <2>1. Above(k, S) \in SUBSET Above(j, S)
    BY <1>2, CommittedStamps DEF Above
  <2>2. k \in Above(j, S) /\ k \notin Above(k, S)
    BY <1>2, CommittedStamps DEF Above
  <2>3. /\ Cardinality(Above(k, S)) <= Cardinality(Above(j, S))
        /\ Cardinality(Above(k, S)) # Cardinality(Above(j, S))
    BY <2>1, <2>2, CommittedStamps, FS_Subset
  <2>. QED
    BY <2>3, CommittedStamps
<1>3. ASSUME NEW j \in S, NEW k \in S, Newer(j, S) = Newer(k, S) PROVE j = k
  <2>1. ~(stamp[j] < stamp[k]) /\ ~(stamp[k] < stamp[j])
    BY <1>2, <1>3, CommittedStamps
  <2>2. stamp[j] \in Nat /\ stamp[k] \in Nat
    BY CommittedStamps
  <2>3. stamp[j] = stamp[k]
    BY <2>1, <2>2
  <2>. QED
    BY <2>3, CommittedStamps
<1>. QED
  BY <1>1, <1>3

\* The rows at the positions a..b-1 are at most b - a.
LEMMA LeafSize ==
    ASSUME RowsInv, NEW S \in SUBSET Committed, NEW a \in Nat, NEW b \in Nat, a <= b,
           NEW T \in SUBSET S, \A j \in T : Newer(j, S) \in a..b - 1
    PROVE  Cardinality(T) <= b - a
<1>. DEFINE f == [j \in T |-> Newer(j, S)]
<1>1. f \in Injection(T, a..b - 1)
  BY NewerIs DEF Injection, IsInjective
<1>2. IsFiniteSet(a..b - 1) /\ Cardinality(a..b - 1) = IF a > b - 1 THEN 0 ELSE (b - 1) - a + 1
  BY FS_Interval
<1>3. Cardinality(T) <= Cardinality(a..b - 1)
  BY <1>1, <1>2, FS_Injection
<1>. QED
  BY <1>2, <1>3

\* There is a row at every position.
LEMMA EveryPosition ==
    ASSUME RowsInv, NEW S \in SUBSET Committed, NEW n \in Nat, n < Cardinality(S)
    PROVE  \E j \in S : Newer(j, S) = n
<1>l. PICK last \in Int : last = Cardinality(S) - 1
  BY CommittedStamps
<1>. DEFINE f == [j \in S |-> Newer(j, S)]
<1>1. f \in Injection(S, 0..last)
  BY <1>l, NewerIs DEF Injection, IsInjective
<1>2. IsFiniteSet(0..last) /\ Cardinality(0..last) = IF 0 > last THEN 0 ELSE last - 0 + 1
  BY FS_Interval
<1>3. Cardinality(0..last) = Cardinality(S) /\ n \in 0..last
  BY <1>l, <1>2, CommittedStamps
<1>4. f \in Surjection(S, 0..last)
  BY <1>1, <1>2, <1>3, FS_Injection
<1>. QED
  BY <1>3, <1>4 DEF Surjection

\* A row that is there never comes nearer to the newest.
LEMMA NewerGrows ==
    ASSUME RowsInv, RowsInv', Grows, NEW S \in SUBSET Committed, NEW T \in SUBSET Committed',
           S \subseteq T, NEW j \in S
    PROVE  Newer(j, S) <= Newer(j, T)'
<1>1. /\ IsFiniteSet(Above(j, T)') /\ Newer(j, T)' = Cardinality(Above(j, T)')
      /\ Newer(j, S) = Cardinality(Above(j, S))
  <2>1. IsFiniteSet(T)
    <3>1. T \in SUBSET Jobs
      BY DEF Committed
    <3>. QED
      BY <3>1, JobsFinite
  <2>2. Above(j, T)' \subseteq T /\ Newer(j, T)' = Cardinality(Above(j, T)')
    BY DEF Above, Newer
  <2>. QED
    BY <2>1, <2>2, FS_Subset, CommittedStamps
<1>2. Above(j, S) \in SUBSET Above(j, T)'
  BY DEF Above, Grows
<1>. QED
  BY <1>1, <1>2, FS_Subset

-----------------------------------------------------------------------------
(***************************************************************************)
(* The statistics.                                                         *)
(***************************************************************************)
WithStatus(s) == {j \in Committed : status[j] = s}

StatsInv ==
    /\ stats \in [step : 0..4, found : [{"total", "completed", "failed", "recent"} -> SUBSET Jobs],
                  at : SUBSET Jobs]
    /\ stats.at \subseteq Committed
    /\ stats.step >= 1 => stats.at \subseteq stats.found["total"]
    /\ stats.step >= 2 => stats.at \cap WithStatus("completed") \subseteq stats.found["completed"]
    /\ stats.step >= 3 => stats.at \cap WithStatus("failed") \subseteq stats.found["failed"]
    /\ \A s \in {"completed", "failed"} : stats.found[s] \subseteq WithStatus(s)
    /\ Cardinality(stats.found["recent"]) <= RECENT

LEMMA WithStatusGrows ==
    ASSUME Grows, NEW s
    PROVE  /\ WithStatus(s) \subseteq WithStatus(s)'
           /\ \A j \in Committed : j \in WithStatus(s)' => j \in WithStatus(s)
BY DEF Grows, WithStatus

LEMMA StatsInit == Init => StatsInv
<1>. SUFFICES ASSUME Init PROVE StatsInv
  OBVIOUS
<1>1. stats = [step |-> 0, found |-> [q \in {"total", "completed", "failed", "recent"} |-> {}],
               at |-> {}]
  BY DEF Init
<1>2. Cardinality({}) = 0
  BY FS_EmptySet
<1>. QED
  BY <1>1, <1>2, PageAssumption DEF StatsInv

\* Rows appear: what was found stays committed with its status.
LEMMA StatsFrame ==
    ASSUME RowsInv, Grows, StatsInv, UNCHANGED stats
    PROVE  StatsInv'
<1>1. ASSUME NEW s \in {"completed", "failed"}
      PROVE  /\ stats.found[s] \subseteq WithStatus(s)'
             /\ \A j \in stats.at : j \in WithStatus(s)' => j \in WithStatus(s)
  BY WithStatusGrows DEF StatsInv
<1>2. stats.at \subseteq Committed'
  BY DEF StatsInv, Grows
<1>. QED
  BY <1>1, <1>2 DEF StatsInv

LEMMA CountOfIs ==
    ASSUME RowsInv, NEW q \in {"total", "completed", "failed", "recent"}
    PROVE  /\ CountOf(q) \in SUBSET Jobs
           /\ q = "total" => CountOf(q) = Committed
           /\ q \in {"completed", "failed"} => CountOf(q) = WithStatus(q)
           /\ q = "recent" => Cardinality(CountOf(q)) <= RECENT
<1>1. q = "total" => CountOf(q) = Committed
  BY DEF CountOf
<1>2. q \in {"completed", "failed"} => CountOf(q) = WithStatus(q)
  BY DEF CountOf, WithStatus
<1>3. ASSUME q = "recent"
      PROVE  CountOf(q) \in SUBSET Committed /\ Cardinality(CountOf(q)) <= RECENT
  <2>1. CountOf(q) = {j \in Committed : Newer(j, Committed) < RECENT}
    BY <1>3 DEF CountOf
  <2>2. \A j \in Committed : Newer(j, Committed) \in Nat
    BY CommittedStamps
  <2>3. \A j \in CountOf(q) : Newer(j, Committed) \in 0..RECENT - 1
    BY <2>1, <2>2, PageAssumption
  <2>4. Committed \in SUBSET Committed /\ CountOf(q) \in SUBSET Committed
    BY <2>1
  <2>5. 0 \in Nat /\ RECENT \in Nat /\ 0 <= RECENT /\ RECENT - 0 = RECENT
    BY PageAssumption
  <2>6. Cardinality(CountOf(q)) <= RECENT - 0
    BY <2>3, <2>4, <2>5, LeafSize
  <2>. QED
    BY <2>4, <2>5, <2>6
<1>. QED
  BY <1>1, <1>2, <1>3, RowSets DEF WithStatus

LEMMA StatQueriesAre ==
    /\ Len(StatQueries) = 4
    /\ StatQueries[1] = "total" /\ StatQueries[2] = "completed"
    /\ StatQueries[3] = "failed" /\ StatQueries[4] = "recent"
BY DEF StatQueries

LEMMA StatsQuery ==
    ASSUME RowsInv, StatsInv, get_dashboard_stats, UNCHANGED <<rows, kind>>
    PROVE  StatsInv'
<1>q. PICK q : q = StatQueries[stats.step + 1]
  OBVIOUS
<1>n. PICK n \in 0..3 : n = stats.step
  BY StatQueriesAre DEF get_dashboard_stats, StatsInv
<1>c. PICK found : found = CountOf(q)
  OBVIOUS
<1>1. stats' = [stats EXCEPT !.step = @ + 1, !.found[q] = found,
                             !.at = IF stats.step = 0 THEN Committed ELSE @]
  BY <1>q, <1>c DEF get_dashboard_stats
<1>2. /\ q \in {"total", "completed", "failed", "recent"}
      /\ n = 0 => q = "total"
      /\ n = 1 => q = "completed"
      /\ n = 2 => q = "failed"
      /\ n = 3 => q = "recent"
  BY <1>q, <1>n, StatQueriesAre
<1>3. /\ found \in SUBSET Jobs
      /\ q = "total" => found = Committed
      /\ q \in {"completed", "failed"} => found = WithStatus(q)
      /\ q = "recent" => Cardinality(found) <= RECENT
  BY <1>c, <1>2, CountOfIs
<1>t. stats' = [step |-> n + 1, found |-> [stats.found EXCEPT ![q] = found],
                at |-> IF n = 0 THEN Committed ELSE stats.at]
  BY <1>1, <1>n DEF StatsInv
<1>4. /\ stats'.step = n + 1
      /\ stats'.at = IF n = 0 THEN Committed ELSE stats.at
      /\ stats'.found[q] = found
      /\ \A r \in {"total", "completed", "failed", "recent"} \ {q} : stats'.found[r] = stats.found[r]
      /\ stats' \in [step : 0..4, found : [{"total", "completed", "failed", "recent"} -> SUBSET Jobs],
                     at : SUBSET Jobs]
  BY <1>t, <1>2, <1>3, <1>n, RowSets DEF StatsInv
<1>5. Committed' = Committed /\ \A s : WithStatus(s)' = WithStatus(s)
  BY DEF Committed, WithStatus, rows
<1>6. stats'.at \subseteq Committed /\ (n # 0 => stats'.at = stats.at)
  BY <1>4 DEF StatsInv
<1>7. stats'.step >= 1 => stats'.at \subseteq stats'.found["total"]
  BY <1>2, <1>3, <1>4, <1>6, <1>n DEF StatsInv
<1>8. stats'.step >= 2 => stats'.at \cap WithStatus("completed") \subseteq stats'.found["completed"]
  BY <1>2, <1>3, <1>4, <1>6, <1>n DEF StatsInv
<1>9. stats'.step >= 3 => stats'.at \cap WithStatus("failed") \subseteq stats'.found["failed"]
  BY <1>2, <1>3, <1>4, <1>6, <1>n DEF StatsInv
<1>10. \A s \in {"completed", "failed"} : stats'.found[s] \subseteq WithStatus(s)
  BY <1>2, <1>3, <1>4 DEF StatsInv
<1>11. Cardinality(stats'.found["recent"]) <= RECENT
  BY <1>2, <1>3, <1>4 DEF StatsInv
<1>. QED
  BY <1>4, <1>5, <1>6, <1>7, <1>8, <1>9, <1>10, <1>11 DEF StatsInv

LEMMA StatsInvStep == RowsInv /\ StatsInv /\ [Next]_vars => StatsInv'
<1>. SUFFICES ASSUME RowsInv, StatsInv, [Next]_vars PROVE StatsInv'
  OBVIOUS
<1>1. Grows
  BY RowsStep
<1>. QED
  BY <1>1, StepIs, StatsFrame, StatsQuery DEF readers, vars

\* The figures are of sets the table had while the request ran.
LEMMA StatsBound ==
    ASSUME RowsInv, StatsInv
    PROVE  StatsBounded
<1>. SUFFICES ASSUME stats.step = 4
              PROVE  StatsBounded
  BY StatQueriesAre DEF StatsBounded
<1>. DEFINE total == stats.found["total"]
            completed == stats.found["completed"]
            failed == stats.found["failed"]
            late == Committed \ stats.at
<1>1. /\ stats.at \subseteq total
      /\ stats.at \cap WithStatus("completed") \subseteq completed
      /\ stats.at \cap WithStatus("failed") \subseteq failed
      /\ completed \subseteq WithStatus("completed") /\ failed \subseteq WithStatus("failed")
      /\ total \subseteq Jobs /\ completed \subseteq Jobs /\ failed \subseteq Jobs /\ late \subseteq Jobs
  BY RowSets DEF StatsInv
<1>2. completed \cap failed = {} /\ completed \cup failed \subseteq total \cup late
  BY <1>1 DEF WithStatus
<1>. HIDE DEF total, completed, failed, late
<1>3. Cardinality(completed \cup failed) = Cardinality(completed) + Cardinality(failed)
  <2>1. Cardinality(completed \cup failed) =
            Cardinality(completed) + Cardinality(failed) - Cardinality(completed \cap failed)
    BY <1>1, JobsFinite, FS_Union
  <2>2. Cardinality(completed \cap failed) = 0
    BY <1>2, FS_EmptySet
  <2>. QED
    BY <1>1, <2>1, <2>2, JobsFinite
<1>4. Cardinality(completed \cup failed) <= Cardinality(total \cup late)
  <2>1. total \cup late \subseteq Jobs
    BY <1>1
  <2>. QED
    BY <1>2, <2>1, JobsFinite, FS_Subset
<1>5. Cardinality(total \cup late) <= Cardinality(total) + Cardinality(late)
  <2>1. Cardinality(total \cup late) =
            Cardinality(total) + Cardinality(late) - Cardinality(total \cap late)
    BY <1>1, JobsFinite, FS_Union
  <2>2. Cardinality(total \cap late) \in Nat /\ total \cap late \subseteq Jobs
    BY <1>1, JobsFinite
  <2>. QED
    BY <1>1, <2>1, <2>2, JobsFinite
<1>6. Cardinality(completed) + Cardinality(failed) <= Cardinality(total) + Cardinality(late)
  <2>1. /\ Cardinality(completed \cup failed) \in Nat /\ Cardinality(total \cup late) \in Nat
        /\ Cardinality(total) \in Nat /\ Cardinality(late) \in Nat
    BY <1>1, JobsFinite
  <2>. QED
    BY <1>3, <1>4, <1>5, <2>1
<1>7. \A s \in {"completed", "failed"} : {j \in Committed : status[j] = s} = WithStatus(s)
  BY DEF WithStatus
<1>. QED
  BY <1>1, <1>6, <1>7 DEF StatsBounded, StatsInv, total, completed, failed, late

(***************************************************************************)
(* The command line client.                                                *)
(***************************************************************************)
Runs ==
    [pc : {"post", "poll", "done"}, timeout : Nat, wait : BOOLEAN, admin : BOOLEAN,
     elapsed : Nat, job : Jobs \cup {0}, exit : {0, 1}, failed : BOOLEAN]

CliInv ==
    /\ cli \in Runs
    /\ cli.elapsed <= cli.timeout
    /\ kind = "sign" /\ cli.pc # "post" => cli.job \in {0} \cup Committed
    /\ cli.pc = "post" => cli.job = 0 /\ cli.elapsed = 0
    /\ kind = "sign" /\ cli.pc = "done" /\ cli.exit = 0 => cli.job # 0
    /\ cli.pc = "poll" => /\ kind = "sign" /\ cli.job \in Committed \cap Mine
                          /\ cli.elapsed > 0 => status[cli.job] = "queued"
    /\ ExitIsTruth

LEMMA CliInit == Init => CliInv
<1>. SUFFICES ASSUME Init PROVE CliInv
  OBVIOUS
<1>1. PICK t \in Timeouts, w \in BOOLEAN, a \in BOOLEAN :
        cli = IF kind \in {"sign", "status"}
              THEN [pc |-> "post", timeout |-> t, wait |-> w, admin |-> a,
                    elapsed |-> 0, job |-> 0, exit |-> 1, failed |-> FALSE]
              ELSE [pc |-> "done", timeout |-> 0, wait |-> FALSE, admin |-> FALSE,
                    elapsed |-> 0, job |-> 0, exit |-> 1, failed |-> FALSE]
  BY DEF Init
<1>2. t \in Nat
  BY BoundsAssumption
<1>3. CASE kind \in {"sign", "status"}
  BY <1>1, <1>2, <1>3 DEF CliInv, Runs, ExitIsTruth
<1>4. CASE kind \notin {"sign", "status"}
  BY <1>1, <1>2, <1>4 DEF CliInv, Runs, ExitIsTruth
<1>. QED
  BY <1>3, <1>4

LEMMA CliFrame ==
    ASSUME RowsInv, Grows, CliInv, UNCHANGED cli
    PROVE  CliInv'
<1>1. /\ Committed \subseteq Committed' /\ kind' = kind
      /\ \A j \in Committed : status'[j] = status[j]
  BY DEF Grows
<1>2. ExitIsTruth'
  <2>1. PICK j : j = cli.job
    OBVIOUS
  <2>2. SUFFICES ASSUME kind = "sign", cli.pc = "done", cli.wait
                 PROVE  ExitIsTruth'
    BY <1>1 DEF ExitIsTruth
  <2>3. j = 0 \/ j \in Committed
    BY <2>1, <2>2 DEF CliInv
  <2>4. j \in Committed => j \in Committed' /\ status'[j] = status[j]
    BY <1>1
  <2>5. j = 0 => j \notin Committed'
    BY JobsAssumption DEF Committed
  <2>6. j = 0 => cli.exit # 0
    BY <2>1, <2>2 DEF CliInv, ExitIsTruth
  <2>7. /\ cli.exit = 0 => status[j] = "completed"
        /\ cli.exit = 1 /\ j \in Committed /\ status[j] = "completed" =>
              cli.failed \/ cli.timeout = 0
        /\ j \in Committed /\ status[j] = "queued" => cli.failed \/ cli.elapsed = cli.timeout
    BY <2>1, <2>2 DEF CliInv, ExitIsTruth
  <2>8. /\ cli.exit = 0 => status'[j] = "completed"
        /\ cli.exit = 1 /\ j \in Committed' /\ status'[j] = "completed" =>
              cli.failed \/ cli.timeout = 0
        /\ j \in Committed' /\ status'[j] = "queued" => cli.failed \/ cli.elapsed = cli.timeout
    BY <2>3, <2>4, <2>5, <2>6, <2>7
  <2>. QED
    BY <2>1, <2>8 DEF ExitIsTruth
<1>. QED
  BY <1>1, <1>2 DEF CliInv

\* A step of the client to c.
LEMMA CliTo ==
    ASSUME UNCHANGED <<rows, kind>>, cli' \in Runs,
           cli'.elapsed <= cli'.timeout,
           kind = "sign" => cli'.job \in {0} \cup Committed,
           kind = "sign" /\ cli'.pc = "done" /\ cli'.exit = 0 => cli'.job # 0,
           \/ /\ cli'.pc = "poll" /\ kind = "sign" /\ cli'.job \in Committed \cap Mine
              /\ cli'.elapsed > 0 => status[cli'.job] = "queued"
           \/ cli'.pc = "done" /\ kind # "sign"
           \/ cli'.pc = "done" /\ (cli'.failed \/ ~cli'.wait \/ cli'.job = 0) /\ cli'.exit = 1
           \/ cli'.pc = "done" /\ ~cli'.wait
           \/ /\ cli'.pc = "done" /\ cli'.exit = 0 /\ status[cli'.job] = "completed"
           \/ /\ cli'.pc = "done" /\ cli'.exit = 1 /\ cli'.elapsed = cli'.timeout
              /\ status[cli'.job] = "completed" => cli'.timeout = 0
           \/ cli'.pc = "done" /\ cli'.exit = 1 /\ status[cli'.job] = "failed"
    PROVE  CliInv'
<1>1. Committed' = Committed /\ status' = status /\ kind' = kind /\ 0 \notin Committed
  BY JobsAssumption DEF Committed, rows
<1>2. ExitIsTruth'
  BY <1>1 DEF ExitIsTruth
<1>. QED
  BY <1>1, <1>2 DEF CliInv

LEMMA CliAction ==
    ASSUME RowsInv, CliInv, ClientStep, UNCHANGED <<rows, kind>>
    PROVE  CliInv'
<1>c. PICK c : c = cli
  OBVIOUS
<1>0. /\ c \in Runs
      /\ c.elapsed <= c.timeout
      /\ kind = "sign" /\ c.pc # "post" => c.job \in {0} \cup Committed
      /\ c.pc = "post" => c.job = 0 /\ c.elapsed = 0
      /\ c.pc = "poll" => /\ kind = "sign" /\ c.job \in Committed \cap Mine
                          /\ c.elapsed > 0 => status[c.job] = "queued"
  BY <1>c DEF CliInv
<1>z. 0 \notin Jobs /\ 0 \notin Committed /\ Committed \subseteq Jobs
  BY JobsAssumption, RowSets DEF Committed
<1>1. ASSUME NEW j \in Jobs, SignRemote(j) PROVE CliInv'
  <2>1. /\ c.pc = "post" /\ kind = "sign" /\ j \in Mine /\ status[j] # "none"
        /\ cli' = IF status[j] = "gone" THEN [c EXCEPT !.pc = "done", !.exit = 1]
                  ELSE IF ~c.wait THEN [c EXCEPT !.pc = "done", !.exit = 0, !.job = j]
                  ELSE [c EXCEPT !.pc = "poll", !.job = j]
    BY <1>c, <1>1 DEF SignRemote, CliStep, Exit
  <2>2. status[j] # "gone" => j \in Committed
    BY <2>1 DEF RowsInv, Committed
  <2>3. CASE status[j] = "gone"
    <3>1. /\ cli' \in Runs /\ cli'.elapsed = c.elapsed /\ cli'.timeout = c.timeout
          /\ cli'.pc = "done" /\ cli'.exit = 1 /\ cli'.job = 0
      BY <1>0, <2>1, <2>3 DEF Runs
    <3>. QED
      BY <1>0, <3>1, CliTo
  <2>4. CASE status[j] # "gone" /\ ~c.wait
    BY <1>0, <1>z, <2>1, <2>2, <2>4, CliTo DEF Runs
  <2>5. CASE status[j] # "gone" /\ c.wait
    <3>1. ~(c.elapsed > 0)
      BY <1>0, <2>1
    <3>. QED
      BY <1>0, <1>z, <2>1, <2>2, <2>5, <3>1, CliTo DEF Runs
  <2>. QED
    BY <2>3, <2>4, <2>5
<1>2. ASSUME NEW j \in Jobs \cup {0}, cmd_status(j) PROVE CliInv'
  <2>1. PICK e \in {0, 1} : cli' = [c EXCEPT !.pc = "done", !.exit = e, !.job = j]
    BY <1>c, <1>2 DEF cmd_status, CliStep, Exit
  <2>2. kind = "status"
    BY <1>2 DEF cmd_status
  <2>. QED
    BY <1>0, <1>z, <2>1, <2>2, CliTo DEF Runs
<1>3. CASE CliFails
  <2>1. /\ cli' = [c EXCEPT !.pc = "done", !.exit = 1, !.failed = TRUE]
        /\ c.pc \in {"post", "poll"}
    BY <1>c, <1>3 DEF CliFails, CliStep, Exit
  <2>. QED
    <3>1. /\ cli' \in Runs /\ cli'.elapsed = c.elapsed /\ cli'.timeout = c.timeout
          /\ cli'.pc = "done" /\ cli'.exit = 1 /\ cli'.job = c.job /\ cli'.failed
      BY <1>0, <2>1 DEF Runs
    <3>2. kind = "sign" => cli'.job \in {0} \cup Committed
      BY <1>0, <2>1, <3>1
    <3>. QED
      BY <1>0, <3>1, <3>2, CliTo
<1>4. CASE PollStatus
  <2>1. /\ c.pc = "poll"
        /\ cli' = CASE c.elapsed >= c.timeout -> [c EXCEPT !.pc = "done", !.exit = 1]
                    [] c.elapsed < c.timeout /\ get_signing_status(c.job) # 200 ->
                        [c EXCEPT !.pc = "done", !.exit = 1]
                    [] c.elapsed < c.timeout /\ status[c.job] = "completed" ->
                        [c EXCEPT !.pc = "done", !.exit = 0]
                    [] c.elapsed < c.timeout /\ status[c.job] = "failed" ->
                        [c EXCEPT !.pc = "done", !.exit = 1]
                    [] OTHER -> [c EXCEPT !.elapsed = @ + 1]
    BY <1>c, <1>4 DEF PollStatus, CliStep, Exit
  <2>2. /\ kind = "sign" /\ c.job \in Committed \cap Mine /\ get_signing_status(c.job) = 200
        /\ status[c.job] \in Statuses
    BY <1>0, <2>1, JobsAssumption DEF get_signing_status, Committed
  <2>3. CASE c.elapsed >= c.timeout
    <3>1. cli' = [c EXCEPT !.pc = "done", !.exit = 1]
      <4>1. ~(c.elapsed < c.timeout)
        BY <1>0, <2>3 DEF Runs
      <4>. QED
        BY <2>1, <2>3, <4>1
    <3>2. c.elapsed = c.timeout /\ (c.timeout > 0 => status[c.job] = "queued")
      BY <1>0, <2>1, <2>3 DEF Runs
    <3>3. status[c.job] = "completed" => c.timeout = 0
      BY <1>0, <3>2 DEF Runs
    <3>. QED
      BY <1>0, <1>z, <2>2, <3>1, <3>2, <3>3, CliTo DEF Runs
  <2>4. CASE c.elapsed < c.timeout /\ status[c.job] = "completed"
    <3>1. cli' = [c EXCEPT !.pc = "done", !.exit = 0]
      BY <1>0, <2>1, <2>2, <2>4
    <3>. QED
      BY <1>0, <1>z, <2>2, <2>4, <3>1, CliTo DEF Runs
  <2>5. CASE c.elapsed < c.timeout /\ status[c.job] = "failed"
    <3>1. cli' = [c EXCEPT !.pc = "done", !.exit = 1]
      BY <1>0, <2>1, <2>2, <2>5
    <3>. QED
      BY <1>0, <1>z, <2>2, <2>5, <3>1, CliTo DEF Runs
  <2>6. CASE c.elapsed < c.timeout /\ status[c.job] = "queued"
    <3>1. cli' = [c EXCEPT !.elapsed = @ + 1]
      BY <1>0, <2>1, <2>2, <2>6 DEF Runs
    <3>2. c.elapsed + 1 \in Nat /\ c.elapsed + 1 <= c.timeout
      BY <1>0, <2>6 DEF Runs
    <3>. QED
      BY <1>0, <1>z, <2>1, <2>2, <2>6, <3>1, <3>2, CliTo DEF Runs
  <2>. QED
    BY <1>0, <2>2, <2>3, <2>4, <2>5, <2>6 DEF Statuses, Runs
<1>. QED
  BY <1>1, <1>2, <1>3, <1>4 DEF ClientStep

LEMMA CliInvStep == RowsInv /\ CliInv /\ [Next]_vars => CliInv'
<1>. SUFFICES ASSUME RowsInv, CliInv, [Next]_vars PROVE CliInv'
  OBVIOUS
<1>1. Grows
  BY RowsStep
<1>. QED
  BY <1>1, StepIs, CliFrame, CliAction DEF readers, vars

-----------------------------------------------------------------------------
(***************************************************************************)
(* A page.  Leaves are cut by position, and the answer a page waits for    *)
(* takes its reader on.                                                    *)
(***************************************************************************)
LEMMA TimesMonotone ==
    ASSUME NEW p \in Nat, NEW m \in Nat, NEW n \in Nat, m <= n
    PROVE  m * p <= n * p
<1>1. PICK d \in Nat : n = m + d
  OBVIOUS
<1>2. d * p >= 0 /\ n * p = m * p + d * p
  BY <1>1
<1>. QED
  BY <1>2

\* totalPages rounds up.
LEMMA Division ==
    ASSUME NEW t \in Nat, NEW p \in Nat \ {0}, NEW n \in Nat
    PROVE  (t <= n * p) <=> (n >= (t + p - 1) \div p)
<1>1. PICK q \in Nat : q = (t + p - 1) \div p
  OBVIOUS
<1>2. q * p <= t + p - 1 /\ t + p - 1 < q * p + p
  BY <1>1
<1>3. n * p \in Nat /\ q * p \in Nat
  OBVIOUS
<1>4. ASSUME n >= q PROVE t <= n * p
  BY <1>2, <1>3, <1>4, TimesMonotone
<1>5. ASSUME n < q PROVE n * p < t
  <2>1. n + 1 \in Nat /\ n + 1 <= q /\ (n + 1) * p = n * p + p
    BY <1>5
  <2>2. (n + 1) * p <= q * p
    BY <2>1, TimesMonotone
  <2>. QED
    BY <1>2, <1>3, <2>1, <2>2
<1>. QED
  BY <1>1, <1>3, <1>4, <1>5

Screens ==
    [page : Nat \ {0}, filter : Filters, rows : SUBSET Jobs, total : Nat, error : BOOLEAN,
     seen : SUBSET Jobs, from : SUBSET Jobs, crossed : BOOLEAN, calm : BOOLEAN]

Queries ==
    [n : Nat, page : Nat \ {0}, filter : Filters, pc : {"count", "rows", "answer"}, ok : BOOLEAN,
     total : Nat, rows : SUBSET Jobs, crossed : BOOLEAN]

PageType(u, fs) ==
    /\ u \in Screens /\ fs \subseteq Queries
    /\ u.rows \subseteq Committed /\ u.seen \subseteq Committed /\ u.from \subseteq Committed
    /\ u.total <= Cardinality(Committed)
    /\ \A r \in fs : r.rows \subseteq Committed /\ r.total <= Cardinality(Committed)

CountsInv ==
    /\ sent \in 1..MaxFetches + 1 /\ ui.page \in 1..MaxFetches /\ ui.page <= sent
    /\ faults \in 0..MaxFaults

Position(j, filter) == Newer(j, Matching(filter))

Skipped(page) == (page - 1) * PER_PAGE
Passed(u, n) == {j \in u.from : Position(j, u.filter) < n}

\* The leaf rs, with the total the answer has, takes the reader of u on.
Covers(u, rs, total, crossed) ==
    /\ total <= Cardinality(Matching(u.filter))
    /\ rs \subseteq Matching(u.filter) /\ Cardinality(rs) <= PER_PAGE
    /\ u.page > 1 => rs # {}
    /\ Passed(u, u.page * PER_PAGE) \subseteq u.seen \cup rs
    /\ ~crossed /\ total <= u.page * PER_PAGE => u.from \subseteq u.seen \cup rs

Fits(u, r) ==
    /\ r.page = u.page /\ r.filter = u.filter
    /\ r.pc = "rows" /\ r.ok => r.total <= Cardinality(Matching(u.filter))
    /\ r.pc = "answer" /\ r.ok => Covers(u, r.rows, r.total, r.crossed)

\* Of a reader who turns one leaf at a time: the leaf there is to be read
\* exists, the rows that come before it have been seen, and the answer fits.
Turning(u, fs) ==
    /\ \A r, s \in fs : r = s
    /\ u.page > 1 => Skipped(u.page) < Cardinality(Matching(u.filter))
    /\ Passed(u, Skipped(u.page)) \subseteq u.seen
    /\ \A r \in fs : Fits(u, r)
    /\ fs = {} /\ ~u.error => u.rows \subseteq u.seen /\ Covers(u, u.rows, u.total, u.crossed)
    /\ u.error => fs = {} /\ (kind # "audit" => u.total = 0)

Reading(u, fs) ==
    /\ u.from \subseteq Matching(u.filter)
    /\ u.calm => Turning(u, fs)

OnPage == kind \in {"jobs", "audit"}
PageAt(u, fs) == PageType(u, fs) /\ (OnPage => Reading(u, fs))
PageInv == PageAt(ui, fetches)

LEMMA Matches ==
    ASSUME RowsInv, NEW f
    PROVE  /\ Matching(f) \in SUBSET Committed /\ Cardinality(Matching(f)) \in Nat
           /\ Cardinality(Matching(f)) <= Cardinality(Committed) /\ Cardinality(Committed) \in Nat
           /\ \A j \in Matching(f) : Position(j, f) \in 0..Cardinality(Matching(f)) - 1
<1>1. PICK M : M = Matching(f)
  OBVIOUS
<1>2. M \in SUBSET Committed
  BY <1>1 DEF Matching
<1>3. IsFiniteSet(Committed) /\ Cardinality(Committed) \in Nat /\ Cardinality(M) \in Nat
  BY <1>2, CommittedStamps
<1>4. Cardinality(M) <= Cardinality(Committed)
  BY <1>2, <1>3, FS_Subset
<1>5. \A j \in M : Newer(j, M) \in 0..Cardinality(M) - 1
  BY <1>2, NewerIs
<1>. QED
  BY <1>1, <1>2, <1>3, <1>4, <1>5 DEF Position

LEMMA MatchesGrow ==
    ASSUME RowsInv, RowsInv', Grows, NEW f
    PROVE  /\ Matching(f) \subseteq Matching(f)'
           /\ Cardinality(Matching(f)) <= Cardinality(Matching(f)')
           /\ Cardinality(Committed) <= Cardinality(Committed')
           /\ \A j \in Matching(f) : /\ Position(j, f) <= Position(j, f)'
                                     /\ Position(j, f) \in Nat /\ Position(j, f)' \in Nat
<1>1. PICK M, N : M = Matching(f) /\ N = Matching(f)'
  OBVIOUS
<1>2. M \in SUBSET Committed /\ N \in SUBSET Committed'
  BY <1>1 DEF Matching
<1>3. M \subseteq N
  BY <1>1 DEF Matching, Grows
<1>4. IsFiniteSet(Committed') /\ IsFiniteSet(N)
  <2>1. Committed' \in SUBSET Jobs /\ N \in SUBSET Jobs
    BY <1>2 DEF Committed
  <2>. QED
    BY <2>1, JobsFinite
<1>5. Cardinality(M) <= Cardinality(N) /\ Cardinality(Committed) <= Cardinality(Committed')
  BY <1>3, <1>4, FS_Subset DEF Grows
<1>6. \A j \in M : Newer(j, M) <= Newer(j, N)'
  BY <1>2, <1>3, NewerGrows
<1>7. \A j \in M : Position(j, f) = Newer(j, M) /\ Position(j, f)' = Newer(j, N)'
  BY <1>1 DEF Position
<1>8. \A j \in M : Position(j, f) \in Nat
  BY <1>1, Matches
<1>9. \A j \in N : Position(j, f)' \in Nat
  <2>1. \A j : Above(j, N)' \in SUBSET N
    BY DEF Above
  <2>2. \A j : Cardinality(Above(j, N)') \in Nat
    BY <1>4, <2>1, FS_Subset, FS_CardinalityType
  <2>3. \A j : Newer(j, N)' = Cardinality(Above(j, N)')
    BY DEF Newer, Above
  <2>4. \A j \in N : Position(j, f)' = Newer(j, N)'
    BY <1>1 DEF Position
  <2>. QED
    BY <2>2, <2>3, <2>4
<1>. QED
  BY <1>1, <1>3, <1>5, <1>6, <1>7, <1>8, <1>9

LEMMA PageTypeFrame ==
    ASSUME RowsInv, RowsInv', Grows, NEW u, NEW fs, PageType(u, fs)
    PROVE  PageType(u, fs)'
<1>1. PICK m, n \in Nat : m = Cardinality(Committed) /\ n = Cardinality(Committed') /\ m <= n
  <2>1. Cardinality(Committed) \in Nat
    BY CommittedStamps
  <2>2. Cardinality(Committed') \in Nat
    <3>1. Committed' \in SUBSET Jobs
      BY DEF Committed
    <3>. QED
      BY <3>1, JobsFinite
  <2>. QED
    BY <2>1, <2>2, MatchesGrow
<1>2. u.total \in Nat /\ \A r \in fs : r.total \in Nat
  BY DEF PageType, Screens, Queries
<1>. QED
  BY <1>1, <1>2 DEF PageType, Grows, Screens, Queries

LEMMA PageNumbers ==
    ASSUME NEW page \in Nat \ {0}
    PROVE  /\ Skipped(page) \in Nat /\ page * PER_PAGE \in Nat /\ PER_PAGE \in Nat \ {0}
           /\ page * PER_PAGE = Skipped(page) + PER_PAGE
           /\ Skipped(page + 1) = page * PER_PAGE /\ Skipped(1) = 0
<1>1. PER_PAGE \in Nat \ {0} /\ page - 1 \in Nat
  BY PageAssumption
<1>2. \A p \in Nat : page * p = (page - 1) * p + p /\ (page - 1) * p \in Nat /\ page * p \in Nat
  OBVIOUS
<1>3. page + 1 - 1 = page /\ 1 - 1 = 0 /\ 0 * PER_PAGE = 0
  BY <1>1
<1>. QED
  BY <1>1, <1>2, <1>3 DEF Skipped

LEMMA PassedFrame ==
    ASSUME RowsInv, RowsInv', Grows, NEW u, u.from \subseteq Matching(u.filter), NEW n \in Nat
    PROVE  Passed(u, n)' \subseteq Passed(u, n)
<1>1. \A j \in u.from : /\ Position(j, u.filter) <= Position(j, u.filter)'
                        /\ Position(j, u.filter) \in Nat /\ Position(j, u.filter)' \in Nat
  BY MatchesGrow
<1>2. \A j \in u.from : Position(j, u.filter)' < n => Position(j, u.filter) < n
  BY <1>1
<1>. QED
  BY <1>2 DEF Passed

LEMMA CoversFrame ==
    ASSUME RowsInv, RowsInv', Grows, NEW u \in Screens, u.from \subseteq Matching(u.filter),
           NEW rs, NEW total \in Nat, NEW crossed, Covers(u, rs, total, crossed)
    PROVE  Covers(u, rs, total, crossed)'
<1>1. PICK m, n \in Nat :
        m = Cardinality(Matching(u.filter)) /\ n = Cardinality(Matching(u.filter)') /\ m <= n
  <2>1. Cardinality(Matching(u.filter)') \in Nat
    <3>1. Matching(u.filter)' \in SUBSET Jobs
      BY DEF Matching, Committed
    <3>. QED
      BY <3>1, JobsFinite
  <2>. QED
    BY <2>1, Matches, MatchesGrow
<1>2. Matching(u.filter) \subseteq Matching(u.filter)'
  BY MatchesGrow
<1>3. Passed(u, u.page * PER_PAGE)' \subseteq Passed(u, u.page * PER_PAGE)
  <2>1. u.page * PER_PAGE \in Nat
    BY PageNumbers DEF Screens
  <2>. QED
    BY <2>1, PassedFrame
<1>. QED
  BY <1>1, <1>2, <1>3 DEF Covers

\* Rows that appear leave a page what it is.
LEMMA ReadingFrame ==
    ASSUME RowsInv, RowsInv', Grows, NEW u, NEW fs, PageType(u, fs), Reading(u, fs)
    PROVE  Reading(u, fs)'
<1>0. /\ u \in Screens /\ u.total \in Nat /\ u.from \subseteq Matching(u.filter)
      /\ \A r \in fs : r.total \in Nat
      /\ Skipped(u.page) \in Nat
  BY PageNumbers DEF PageType, Screens, Queries, Reading
<1>1. Matching(u.filter) \subseteq Matching(u.filter)'
  BY MatchesGrow
<1>2. PICK m, n \in Nat :
        m = Cardinality(Matching(u.filter)) /\ n = Cardinality(Matching(u.filter)') /\ m <= n
  <2>1. Cardinality(Matching(u.filter)') \in Nat
    <3>1. Matching(u.filter)' \in SUBSET Jobs
      BY DEF Matching, Committed
    <3>. QED
      BY <3>1, JobsFinite
  <2>. QED
    BY <2>1, Matches, MatchesGrow
<1>3. ASSUME u.calm PROVE Turning(u, fs)'
  <2>0. Turning(u, fs)
    BY <1>3 DEF Reading
  <2>1. u.page > 1 => Skipped(u.page) < Cardinality(Matching(u.filter)')
    BY <1>0, <1>2, <2>0 DEF Turning
  <2>2. Passed(u, Skipped(u.page))' \subseteq u.seen
    BY <1>0, <2>0, PassedFrame DEF Turning
  <2>3. \A r \in fs : Fits(u, r)'
    <3>1. TAKE r \in fs
    <3>2. r.pc = "answer" /\ r.ok => Covers(u, r.rows, r.total, r.crossed)'
      BY <1>0, <2>0, CoversFrame DEF Turning, Fits
    <3>3. r.pc = "rows" /\ r.ok => r.total <= n
      BY <1>0, <1>2, <2>0 DEF Turning, Fits
    <3>. QED
      BY <1>2, <2>0, <3>2, <3>3 DEF Turning, Fits
  <2>4. fs = {} /\ ~u.error => u.rows \subseteq u.seen /\ Covers(u, u.rows, u.total, u.crossed)'
    BY <1>0, <2>0, CoversFrame DEF Turning
  <2>. QED
    BY <2>0, <2>1, <2>2, <2>3, <2>4 DEF Turning, Skipped, Grows
<1>. QED
  BY <1>0, <1>1, <1>3 DEF Reading

\* Nobody is before the first leaf.
LEMMA NobodyBefore ==
    ASSUME RowsInv, NEW u \in Screens, u.page = 1, u.from \subseteq Matching(u.filter)
    PROVE  Passed(u, Skipped(u.page)) = {}
BY PageNumbers, Matches DEF Passed, Screens

LEMMA PageInit == Init => PageInv /\ CountsInv
<1>. SUFFICES ASSUME Init PROVE PageInv /\ CountsInv
  OBVIOUS
<1>u. PICK u, fs : u = ui /\ fs = fetches
  OBVIOUS
<1>r. PICK q : q = Request(1, 1, NoFilter)
  OBVIOUS
<1>0. RowsInv
  BY RowsInit
<1>1. /\ u = [page |-> 1, filter |-> NoFilter, rows |-> {}, total |-> 0, error |-> FALSE,
              seen |-> {}, from |-> Old \cap (IF kind = "audit" THEN Jobs ELSE Mine),
              crossed |-> FALSE, calm |-> TRUE]
      /\ fs = IF kind \in {"jobs", "audit"} THEN {q} ELSE {}
  BY <1>u, <1>r DEF Init
<1>2. /\ q.page = 1 /\ q.filter = NoFilter /\ q.pc = "count" /\ q.rows = {} /\ q.total = 0
      /\ q \in Queries
  BY <1>r, FilterAssumption DEF Request, Queries
<1>3. u.from \subseteq Matching(NoFilter) /\ u.from \subseteq Committed
  <2>1. \A j \in Old : status[j] \in Statuses /\ j \in Jobs
    BY OldAssumption, JobsAssumption DEF Init, Old
  <2>. QED
    BY <1>1, <2>1 DEF Matching, Committed
<1>4. u \in Screens
  BY <1>1, FilterAssumption, JobsAssumption DEF Screens
<1>5. 0 \in Nat /\ Cardinality(Committed) \in Nat /\ Cardinality(Matching(NoFilter)) \in Nat
  BY <1>0, Matches
<1>6. PageType(u, fs)
  BY <1>1, <1>2, <1>3, <1>4, <1>5 DEF PageType
<1>7. Passed(u, Skipped(u.page)) = {}
  BY <1>0, <1>1, <1>3, <1>4, NobodyBefore
<1>8. ASSUME fs # {} PROVE Reading(u, fs)
  <2>1. fs = {q} /\ {q} # {} /\ ~(u.page > 1) /\ Fits(u, q)
    BY <1>1, <1>2, <1>8 DEF Fits
  <2>2. Passed(u, Skipped(u.page)) \subseteq u.seen /\ u.from \subseteq Matching(u.filter)
    BY <1>1, <1>3, <1>7
  <2>3. ~u.error
    BY <1>1
  <2>. QED
    BY <2>1, <2>2, <2>3 DEF Reading, Turning
<1>9. CountsInv
  BY <1>u, <1>1, BoundsAssumption DEF CountsInv, Init
<1>. QED
  BY <1>u, <1>1, <1>6, <1>8, <1>9 DEF PageInv, PageAt, OnPage

LEMMA PageAtFrame ==
    ASSUME RowsInv, RowsInv', Grows, NEW u, NEW fs, PageAt(u, fs)
    PROVE  PageAt(u, fs)'
BY PageTypeFrame, ReadingFrame DEF PageAt, OnPage, Grows

\* A request that goes on.
LEMMA ReplaceKeeps ==
    ASSUME NEW u, NEW fs, PageAt(u, fs), NEW r \in fs, NEW r2 \in Queries,
           r2.rows \subseteq Committed, r2.total <= Cardinality(Committed),
           OnPage /\ Turning(u, fs) /\ Fits(u, r) => Fits(u, r2)
    PROVE  PageAt(u, (fs \ {r}) \cup {r2})
<1>1. PageType(u, (fs \ {r}) \cup {r2})
  BY DEF PageAt, PageType
<1>2. ASSUME OnPage, u.calm PROVE Turning(u, (fs \ {r}) \cup {r2})
  <2>1. Turning(u, fs)
    BY <1>2 DEF PageAt, Reading
  <2>2. (fs \ {r}) \cup {r2} = {r2} /\ Fits(u, r2)
    BY <1>2, <2>1 DEF Turning
  <2>. QED
    BY <2>1, <2>2 DEF Turning
<1>. QED
  BY <1>1, <1>2 DEF PageAt, Reading

\* The leaf that is cut for the request the page waits for.
LEMMA LeafCovers ==
    ASSUME RowsInv, NEW u \in Screens, NEW fs, Turning(u, fs), u.from \subseteq Matching(u.filter),
           NEW total \in Nat, total <= Cardinality(Matching(u.filter)),
           NEW crossed, ~crossed => total = Cardinality(Matching(u.filter)),
           NEW rs, rs = Leaf(Matching(u.filter), u.page)
    PROVE  Covers(u, rs, total, crossed)
<1>m. PICK M, n : M = Matching(u.filter) /\ n = Cardinality(M)
  OBVIOUS
<1>1. M \in SUBSET Committed /\ n \in Nat /\ \A j \in M : Newer(j, M) \in 0..n - 1
  BY <1>m, Matches, NewerIs
<1>p. PICK a, b \in Nat : a = Skipped(u.page) /\ b = u.page * PER_PAGE /\ b = a + PER_PAGE /\ a < b
  BY PageNumbers DEF Screens
<1>2. rs = {j \in M : Newer(j, M) \in a..b - 1}
  BY <1>m, <1>p DEF Leaf, Skipped
<1>3. Cardinality(rs) <= PER_PAGE
  <2>1. rs \in SUBSET M /\ a <= b /\ b - a = PER_PAGE
    BY <1>2, <1>p, PageAssumption
  <2>2. \A j \in rs : Newer(j, M) \in a..b - 1
    BY <1>2
  <2>3. Cardinality(rs) <= b - a
    BY <1>1, <1>p, <2>1, <2>2, LeafSize
  <2>. QED
    BY <2>1, <2>3
<1>4. ASSUME u.page > 1 PROVE rs # {}
  <2>1. a < n
    BY <1>m, <1>p, <1>4 DEF Turning
  <2>2. PICK j \in M : Newer(j, M) = a
    BY <1>m, <1>1, <1>p, <2>1, EveryPosition
  <2>. QED
    BY <1>2, <1>p, <2>2
<1>5. \A j : Position(j, u.filter) = Newer(j, M)
  BY <1>m DEF Position
<1>6. Passed(u, b) \subseteq u.seen \cup rs
  <2>1. SUFFICES ASSUME NEW j \in Passed(u, b) PROVE j \in u.seen \cup rs
    OBVIOUS
  <2>2. j \in u.from /\ j \in M /\ Newer(j, M) \in Nat /\ Newer(j, M) < b
    BY <1>m, <1>1, <1>5 DEF Passed
  <2>3. CASE Newer(j, M) < a
    BY <1>p, <1>5, <2>2, <2>3 DEF Turning, Passed
  <2>4. CASE Newer(j, M) >= a
    BY <1>2, <1>p, <2>2, <2>4
  <2>. QED
    BY <1>p, <2>2, <2>3, <2>4
<1>7. ASSUME ~crossed, total <= b PROVE u.from \subseteq u.seen \cup rs
  <2>1. n <= b
    BY <1>m, <1>7
  <2>2. u.from \subseteq Passed(u, b)
    BY <1>m, <1>1, <1>5, <1>p, <2>1 DEF Passed
  <2>. QED
    BY <1>6, <2>2
<1>. QED
  BY <1>m, <1>p, <1>2, <1>3, <1>4, <1>6, <1>7 DEF Covers

LEMMA ArriveKeeps ==
    ASSUME RowsInv, NEW u, NEW fs, PageAt(u, fs), NEW r \in fs, r.pc = "answer", NEW u2,
           u2 = IF r.ok
                THEN [u EXCEPT !.rows = r.rows, !.total = r.total,
                               !.seen = @ \cup r.rows, !.crossed = r.crossed]
                ELSE [u EXCEPT !.rows = {}, !.error = TRUE,
                               !.total = IF kind = "audit" THEN @ ELSE 0]
    PROVE  PageAt(u2, fs \ {r})
<1>0. u \in Screens /\ r \in Queries /\ Cardinality(Committed) \in Nat
  BY CommittedStamps DEF PageAt, PageType
<1>1. /\ u2.page = u.page /\ u2.filter = u.filter /\ u2.from = u.from /\ u2.calm = u.calm
      /\ u2 \in Screens
      /\ r.ok => /\ u2.rows = r.rows /\ u2.total = r.total /\ u2.seen = u.seen \cup r.rows
                 /\ u2.crossed = r.crossed /\ u2.error = u.error
      /\ ~r.ok => u2.rows = {} /\ u2.error /\ u2.seen = u.seen /\ u2.total \in {0, u.total}
      /\ ~r.ok /\ kind # "audit" => u2.total = 0
  BY <1>0 DEF Screens, Queries
<1>2. PageType(u2, fs \ {r})
  BY <1>0, <1>1 DEF PageAt, PageType
<1>3. ASSUME OnPage, u.calm PROVE Turning(u2, fs \ {r})
  <2>1. Turning(u, fs) /\ Fits(u, r) /\ fs \ {r} = {}
    BY <1>3 DEF PageAt, Reading, Turning
  <2>2. \A n : Passed(u2, n) = Passed(u, n)
    BY <1>1 DEF Passed
  <2>3. u.seen \subseteq u2.seen
    BY <1>1, <1>0 DEF Queries
  <2>4. ASSUME ~u2.error PROVE u2.rows \subseteq u2.seen /\ Covers(u2, u2.rows, u2.total, u2.crossed)
    <3>1. r.ok /\ Covers(u, r.rows, r.total, r.crossed)
      BY <1>0, <1>1, <2>1, <2>4 DEF Fits, Queries
    <3>. QED
      BY <1>1, <2>2, <3>1 DEF Covers
  <2>. QED
    BY <1>1, <2>1, <2>2, <2>3, <2>4 DEF Turning
<1>. QED
  BY <1>1, <1>2, <1>3 DEF PageAt, Reading

\* A request for a leaf: of the first, or of one the reader may turn to.
LEMMA FetchKeeps ==
    ASSUME RowsInv, NEW u, NEW fs, PageAt(u, fs), NEW page \in Nat \ {0}, NEW filter \in Filters,
           NEW n \in Nat,
           \/ page = 1
           \/ /\ filter = u.filter
              /\ OnPage /\ Turning(u, fs) /\ fs = {} =>
                    /\ Skipped(page) < Cardinality(Matching(filter))
                    /\ Passed(u, Skipped(page)) \subseteq u.seen,
           NEW u2,
           u2 = [u EXCEPT !.page = page, !.filter = filter, !.error = FALSE,
                          !.calm = @ /\ fs = {},
                          !.from = IF page = 1 THEN Matching(filter) ELSE @,
                          !.seen = IF page = 1 THEN {} ELSE @]
    PROVE  PageAt(u2, fs \cup {Request(n, page, filter)})
<1>q. PICK q : q = Request(n, page, filter)
  OBVIOUS
<1>0. /\ u \in Screens /\ Matching(filter) \in SUBSET Committed /\ Committed \subseteq Jobs
      /\ Cardinality(Committed) \in Nat
  BY Matches, RowSets DEF PageAt, PageType
<1>1. /\ q \in Queries /\ q.page = page /\ q.filter = filter /\ q.pc = "count"
      /\ q.rows = {} /\ q.total = 0
  BY <1>q DEF Request, Queries
<1>2. /\ u2 \in Screens /\ u2.page = page /\ u2.filter = filter
      /\ u2.calm = (u.calm /\ fs = {})
      /\ u2.from = IF page = 1 THEN Matching(filter) ELSE u.from
      /\ u2.seen = IF page = 1 THEN {} ELSE u.seen
      /\ u2.rows = u.rows /\ u2.total = u.total /\ ~u2.error
  BY <1>0 DEF Screens
<1>3. PageType(u2, fs \cup {q})
  BY <1>0, <1>1, <1>2 DEF PageAt, PageType
<1>4. ASSUME OnPage PROVE u2.from \subseteq Matching(u2.filter)
  BY <1>2, <1>4 DEF PageAt, Reading
<1>5. ASSUME OnPage, u2.calm PROVE Turning(u2, fs \cup {q})
  <2>1. OnPage /\ Turning(u, fs) /\ fs = {}
    BY <1>2, <1>5 DEF PageAt, Reading
  <2>2. Fits(u2, q) /\ fs \cup {q} = {q}
    BY <1>1, <1>2, <2>1 DEF Fits
  <2>3. CASE page = 1
    <3>1. Passed(u2, Skipped(u2.page)) \subseteq u2.seen
      BY <1>2, <1>4, <1>5, <2>3, NobodyBefore
    <3>2. ~(u2.page > 1) /\ {q} # {}
      BY <1>2, <2>3
    <3>. QED
      BY <1>2, <2>2, <3>1, <3>2 DEF Turning
  <2>4. CASE page # 1
    <3>1. \A m : Passed(u2, m) = Passed(u, m)
      BY <1>2, <2>4 DEF Passed
    <3>. QED
      BY <1>2, <2>1, <2>2, <2>4, <3>1 DEF Turning
  <2>. QED
    BY <2>3, <2>4
<1>. QED
  BY <1>q, <1>3, <1>4, <1>5 DEF PageAt, Reading

LEMMA PageTo ==
    ASSUME RowsInv, UNCHANGED <<rows, kind>>, NEW u2, NEW f2, PageAt(u2, f2),
           u2 = ui', f2 = fetches'
    PROVE  PageInv'
<1>1. RowsInv' /\ Grows
  BY SameRows DEF rows
<1>2. PageAt(u2, f2)'
  BY <1>1, PageAtFrame
<1>. QED
  BY <1>2 DEF PageInv

LEMMA FetchStep ==
    ASSUME RowsInv, PageInv, CountsInv, UNCHANGED <<rows, kind>>,
           NEW page \in Nat \ {0}, page <= sent + 1, NEW filter \in Filters, fetch(ui, page, filter),
           \/ page = 1
           \/ /\ filter = ui.filter
              /\ OnPage /\ Turning(ui, fetches) /\ fetches = {} =>
                    /\ Skipped(page) < Cardinality(Matching(filter))
                    /\ Passed(ui, Skipped(page)) \subseteq ui.seen
    PROVE  PageInv' /\ CountsInv'
<1>1. PICK u, fs, n, u2, f2 :
        u = ui /\ fs = fetches /\ n = sent + 1 /\ u2 = ui' /\ f2 = fetches'
  OBVIOUS
<1>2. /\ u2 = [u EXCEPT !.page = page, !.filter = filter, !.error = FALSE,
                        !.calm = @ /\ fs = {},
                        !.from = IF page = 1 THEN Matching(filter) ELSE @,
                        !.seen = IF page = 1 THEN {} ELSE @]
      /\ f2 = fs \cup {Request(n, page, filter)}
      /\ sent < MaxFetches /\ sent' = sent + 1 /\ faults' = faults
  BY <1>1 DEF fetch
<1>3. n \in Nat /\ sent \in Nat
  BY <1>1, BoundsAssumption DEF CountsInv
<1>c. \/ page = 1
      \/ /\ filter = u.filter
         /\ OnPage /\ Turning(u, fs) /\ fs = {} =>
               /\ Skipped(page) < Cardinality(Matching(filter))
               /\ Passed(u, Skipped(page)) \subseteq u.seen
  BY <1>1
<1>4. PageAt(u2, fs \cup {Request(n, page, filter)})
  <2>1. PageAt(u, fs)
    BY <1>1 DEF PageInv
  <2>. QED
    BY <1>2, <1>3, <1>c, <2>1, FetchKeeps
<1>5. PageInv'
  BY <1>1, <1>2, <1>4, PageTo
<1>6. u2.page = page
  BY <1>1, <1>2 DEF PageInv, PageAt, PageType, Screens
<1>7. CountsInv'
  BY <1>1, <1>2, <1>3, <1>6, BoundsAssumption DEF CountsInv
<1>. QED
  BY <1>5, <1>7

\* The screen is the answer to the last request, and it brought the reader on.
LEMMA PageShows ==
    ASSUME RowsInv, NEW u, PageAt(u, {}), OnPage, u.calm, ~u.error
    PROVE  u.rows \subseteq u.seen /\ Covers(u, u.rows, u.total, u.crossed)
BY DEF PageAt, Reading, Turning

LEMMA NextStep ==
    ASSUME RowsInv, PageInv, CountsInv, UNCHANGED <<rows, kind>>, NextPage
    PROVE  PageInv' /\ CountsInv'
<1>1. PICK u, fs : u = ui /\ fs = fetches
  OBVIOUS
<1>2. u \in Screens /\ u.page \in Nat \ {0} /\ u.total \in Nat /\ u.filter \in Filters
  BY <1>1 DEF PageInv, PageAt, PageType, Screens
<1>3. fetch(ui, u.page + 1, u.filter) /\ u.page < totalPages(u)
  BY <1>1 DEF NextPage
<1>4. u.page * PER_PAGE < u.total
  <2>1. totalPages(u) = (u.total + PER_PAGE - 1) \div PER_PAGE /\ totalPages(u) \in Int
    BY <1>2, PageAssumption DEF totalPages
  <2>2. ~(u.page >= (u.total + PER_PAGE - 1) \div PER_PAGE)
    BY <1>2, <1>3, <2>1
  <2>3. ~(u.total <= u.page * PER_PAGE) /\ u.page * PER_PAGE \in Nat
    BY <1>2, <2>2, Division, PageAssumption, PageNumbers
  <2>. QED
    BY <1>2, <2>3
<1>5. ASSUME OnPage, Turning(u, fs), fs = {}
      PROVE  /\ Skipped(u.page + 1) < Cardinality(Matching(u.filter))
             /\ Passed(u, Skipped(u.page + 1)) \subseteq u.seen
  <2>1. ~u.error
    <3>1. kind = "audit" => ~u.error
      BY <1>1 DEF NextPage, Buttons
    <3>2. u.total # 0
      BY <1>2, <1>4, PageAssumption
    <3>. QED
      BY <1>5, <3>1, <3>2 DEF Turning
  <2>2. u.rows \subseteq u.seen /\ Covers(u, u.rows, u.total, u.crossed)
    BY <1>5, <2>1 DEF Turning
  <2>3. Skipped(u.page + 1) = u.page * PER_PAGE /\ u.page * PER_PAGE \in Nat
    BY <1>2, PageNumbers
  <2>4. Cardinality(Matching(u.filter)) \in Nat
    BY Matches
  <2>. QED
    BY <1>2, <1>4, <2>2, <2>3, <2>4 DEF Covers
<1>6. u.page + 1 \in Nat \ {0} /\ u.page + 1 <= sent + 1
  BY <1>1, <1>2, BoundsAssumption DEF CountsInv
<1>. QED
  BY <1>1, <1>2, <1>3, <1>5, <1>6, FetchStep

LEMMA PrevStep ==
    ASSUME RowsInv, PageInv, CountsInv, UNCHANGED <<rows, kind>>, PrevPage
    PROVE  PageInv' /\ CountsInv'
<1>1. PICK u, fs : u = ui /\ fs = fetches
  OBVIOUS
<1>2. u \in Screens /\ u.page \in Nat \ {0} /\ u.filter \in Filters /\ u.page > 1
  BY <1>1 DEF PageInv, PageAt, PageType, Screens, PrevPage
<1>3. fetch(ui, u.page - 1, u.filter)
  BY <1>1 DEF PrevPage
<1>4. u.page - 1 \in Nat \ {0} /\ u.page - 1 <= sent + 1
  BY <1>1, <1>2, BoundsAssumption DEF CountsInv
<1>5. ASSUME OnPage, Turning(u, fs)
      PROVE  /\ Skipped(u.page - 1) < Cardinality(Matching(u.filter))
             /\ Passed(u, Skipped(u.page - 1)) \subseteq u.seen
  <2>1. PICK a, b \in Nat : a = Skipped(u.page - 1) /\ b = Skipped(u.page) /\ a <= b
    <3>1. /\ Skipped(u.page - 1) \in Nat /\ Skipped(u.page) \in Nat
          /\ Skipped(u.page - 1 + 1) = (u.page - 1) * PER_PAGE
          /\ (u.page - 1) * PER_PAGE = Skipped(u.page - 1) + PER_PAGE /\ PER_PAGE \in Nat
      BY <1>2, <1>4, PageNumbers
    <3>2. u.page - 1 + 1 = u.page
      BY <1>2
    <3>. QED
      BY <3>1, <3>2
  <2>2. b < Cardinality(Matching(u.filter)) /\ Cardinality(Matching(u.filter)) \in Nat
    BY <1>2, <1>5, <2>1, Matches DEF Turning
  <2>3. \A j \in u.from : Position(j, u.filter) \in Nat
    BY <1>1, <1>5, Matches DEF PageInv, PageAt, Reading
  <2>4. Passed(u, a) \subseteq Passed(u, b)
    BY <2>1, <2>3 DEF Passed
  <2>. QED
    BY <1>5, <2>1, <2>2, <2>4 DEF Turning
<1>. QED
  BY <1>1, <1>2, <1>3, <1>4, <1>5, FetchStep

LEMMA OtherFetches ==
    ASSUME RowsInv, PageInv, CountsInv, UNCHANGED <<rows, kind>>,
           handleStatusChange \/ RetryFetch \/ (handleUploadSuccess /\ ui.page = 1)
    PROVE  PageInv' /\ CountsInv'
<1>1. PICK u, fs : u = ui /\ fs = fetches
  OBVIOUS
<1>2. u \in Screens /\ u.page \in Nat \ {0} /\ u.filter \in Filters
  BY <1>1 DEF PageInv, PageAt, PageType, Screens
<1>3. 1 \in Nat \ {0} /\ 1 <= sent + 1 /\ u.page <= sent + 1
  BY <1>1, <1>2, BoundsAssumption DEF CountsInv
<1>4. CASE handleStatusChange
  <2>1. PICK f \in Filters : fetch(ui, 1, f)
    BY <1>4 DEF handleStatusChange
  <2>. QED
    BY <1>3, <2>1, FetchStep
<1>5. CASE handleUploadSuccess /\ ui.page = 1
  <2>1. fetch(ui, 1, u.filter)
    BY <1>1, <1>5 DEF handleUploadSuccess
  <2>. QED
    BY <1>2, <1>3, <2>1, FetchStep
<1>6. CASE RetryFetch
  <2>1. fetch(ui, u.page, u.filter)
    BY <1>1, <1>6 DEF RetryFetch
  <2>2. u.page # 1 /\ Turning(u, fs) =>
            /\ Skipped(u.page) < Cardinality(Matching(u.filter))
            /\ Passed(u, Skipped(u.page)) \subseteq u.seen
    BY <1>2 DEF Turning
  <2>. QED
    BY <1>1, <1>2, <1>3, <2>1, <2>2, FetchStep
<1>. QED
  BY <1>4, <1>5, <1>6

\* The two requests after an upload are no calm reading.
LEMMA UploadStep ==
    ASSUME RowsInv, PageInv, CountsInv, UNCHANGED <<rows, kind>>,
           handleUploadSuccess, ui.page # 1
    PROVE  PageInv' /\ CountsInv'
<1>1. PICK u, fs, m, n, u2, f2 :
        /\ u = ui /\ fs = fetches /\ m = sent + 1 /\ n = sent + 2 /\ u2 = ui' /\ f2 = fetches'
  OBVIOUS
<1>2. /\ u2 = [u EXCEPT !.page = 1, !.error = FALSE, !.calm = FALSE]
      /\ f2 = fs \cup {Request(m, u.page, u.filter), Request(n, 1, u.filter)}
      /\ sent < MaxFetches /\ sent' = sent + 2 /\ faults' = faults
  BY <1>1 DEF handleUploadSuccess
<1>3. u \in Screens /\ m \in Nat /\ n \in Nat /\ sent \in Nat
  BY <1>1, BoundsAssumption DEF PageInv, PageAt, PageType, CountsInv
<1>4. PICK q, r : q = Request(m, u.page, u.filter) /\ r = Request(n, 1, u.filter)
  OBVIOUS
<1>5. q \in Queries /\ r \in Queries /\ q.rows = {} /\ q.total = 0 /\ r.rows = {} /\ r.total = 0
  BY <1>3, <1>4 DEF Request, Queries, Screens
<1>6. /\ u2 \in Screens /\ u2.page = 1 /\ ~u2.calm /\ u2.filter = u.filter /\ u2.from = u.from
      /\ u2.seen = u.seen /\ u2.rows = u.rows /\ u2.total = u.total
  <2>1. u2 = [page |-> 1, filter |-> u.filter, rows |-> u.rows, total |-> u.total,
              error |-> FALSE, seen |-> u.seen, from |-> u.from, crossed |-> u.crossed,
              calm |-> FALSE]
    BY <1>2, <1>3 DEF Screens
  <2>. QED
    BY <1>3, <2>1 DEF Screens
<1>7. Cardinality(Committed) \in Nat
  BY CommittedStamps
<1>8. PageType(u2, f2)
  <2>1. f2 \subseteq Queries /\ \A s \in f2 : s \in fs \/ (s.rows = {} /\ s.total = 0)
    BY <1>1, <1>2, <1>4, <1>5 DEF PageInv, PageAt, PageType
  <2>. QED
    BY <1>1, <1>6, <1>7, <2>1 DEF PageInv, PageAt, PageType
<1>9. PageAt(u2, f2)
  BY <1>1, <1>6, <1>8 DEF PageInv, PageAt, Reading
<1>10. CountsInv'
  BY <1>1, <1>2, <1>3, <1>6, BoundsAssumption DEF CountsInv
<1>. QED
  BY <1>1, <1>9, <1>10, PageTo

\* The steps of a request, up to its answer.
LEMMA RequestStep ==
    ASSUME RowsInv, PageInv, CountsInv, UNCHANGED <<rows, kind>>, NEW r \in fetches,
           CountRows(r) \/ ReadRows(r) \/ LoseRequest(r)
    PROVE  PageInv' /\ CountsInv'
<1>1. PICK u, fs : u = ui /\ fs = fetches
  OBVIOUS
<1>2. PICK M : M = Matching(r.filter)
  OBVIOUS
<1>3. /\ u \in Screens /\ r \in fs /\ r \in Queries /\ PageAt(u, fs)
      /\ r.rows \subseteq Committed /\ r.total <= Cardinality(Committed)
      /\ Cardinality(Committed) \in Nat /\ Committed \subseteq Jobs
      /\ M \in SUBSET Committed /\ Cardinality(M) \in Nat /\ Cardinality(M) <= Cardinality(Committed)
  BY <1>1, <1>2, Matches, RowSets DEF PageInv, PageAt, PageType
<1>4. ui' = ui /\ sent' = sent /\ faults' \in 0..MaxFaults
  BY BoundsAssumption DEF CountRows, ReadRows, LoseRequest, Fault, CountsInv
<1>5. CountsInv'
  BY <1>4 DEF CountsInv
<1>6. ASSUME NEW r2 \in Queries, fetches' = (fetches \ {r}) \cup {r2},
             r2.rows \subseteq Committed, r2.total <= Cardinality(Committed),
             OnPage /\ Turning(u, fs) /\ Fits(u, r) => Fits(u, r2)
      PROVE  PageInv'
  <2>1. PageAt(u, (fs \ {r}) \cup {r2})
    BY <1>3, <1>6, ReplaceKeeps
  <2>. QED
    BY <1>1, <1>4, <1>6, <2>1, PageTo
<1>7. CASE CountRows(r)
  <2>1. PICK r2 : /\ fetches' = (fetches \ {r}) \cup {r2}
                  /\ \/ r2 = [r EXCEPT !.pc = "answer", !.ok = FALSE]
                     \/ r2 = [r EXCEPT !.pc = "rows", !.total = Cardinality(M)]
    BY <1>2, <1>7 DEF CountRows, Replace
  <2>2. /\ r2 \in Queries /\ r2.rows = r.rows /\ r2.page = r.page /\ r2.filter = r.filter
        /\ r2.total \in {r.total, Cardinality(M)}
        /\ r2.pc = "answer" => ~r2.ok
        /\ r2.pc = "rows" => r2.total = Cardinality(M)
    BY <1>3, <2>1 DEF Queries
  <2>3. Fits(u, r) => Fits(u, r2)
    BY <1>2, <1>3, <2>2 DEF Fits
  <2>. QED
    BY <1>3, <1>5, <1>6, <2>1, <2>2, <2>3
<1>8. CASE ReadRows(r)
  <2>1. PICK leaf, crossed : leaf = Leaf(M, r.page) /\ crossed = (Cardinality(M) # r.total)
    OBVIOUS
  <2>2. PICK r2 : /\ fetches' = (fetches \ {r}) \cup {r2} /\ r.pc = "rows"
                  /\ r2 = [r EXCEPT !.pc = "answer", !.rows = leaf, !.crossed = crossed]
    BY <1>2, <1>8, <2>1 DEF ReadRows, Replace
  <2>3. leaf \subseteq M /\ crossed \in BOOLEAN
    BY <2>1 DEF Leaf
  <2>4. /\ r2 \in Queries /\ r2.rows = leaf /\ r2.page = r.page /\ r2.filter = r.filter
        /\ r2.total = r.total /\ r2.pc = "answer" /\ r2.ok = r.ok /\ r2.crossed = crossed
    BY <1>3, <2>2, <2>3 DEF Queries
  <2>5. ASSUME OnPage, Turning(u, fs), Fits(u, r), r.ok PROVE Covers(u, leaf, r.total, crossed)
    <3>1. /\ r.page = u.page /\ r.filter = u.filter /\ M = Matching(u.filter)
          /\ r.total <= Cardinality(Matching(u.filter)) /\ r.total \in Nat
      BY <1>2, <1>3, <2>2, <2>5 DEF Fits, Queries
    <3>2. u.from \subseteq Matching(u.filter)
      BY <1>3, <2>5 DEF PageAt, Reading
    <3>3. ~crossed => r.total = Cardinality(Matching(u.filter))
      BY <2>1, <3>1
    <3>. QED
      BY <1>3, <2>1, <2>5, <3>1, <3>2, <3>3, LeafCovers
  <2>6. OnPage /\ Turning(u, fs) /\ Fits(u, r) => Fits(u, r2)
    BY <2>4, <2>5 DEF Fits
  <2>. QED
    BY <1>3, <1>5, <1>6, <2>2, <2>3, <2>4, <2>6
<1>9. CASE LoseRequest(r)
  <2>1. PICK r2 : /\ fetches' = (fetches \ {r}) \cup {r2}
                  /\ r2 = [r EXCEPT !.pc = "answer", !.ok = FALSE]
    BY <1>9 DEF LoseRequest, Replace
  <2>2. /\ r2 \in Queries /\ r2.rows = r.rows /\ r2.page = r.page /\ r2.filter = r.filter
        /\ r2.total = r.total /\ r2.pc = "answer" /\ ~r2.ok
    BY <1>3, <2>1 DEF Queries
  <2>3. Fits(u, r) => Fits(u, r2)
    BY <2>2 DEF Fits
  <2>. QED
    BY <1>3, <1>5, <1>6, <2>1, <2>2, <2>3
<1>. QED
  BY <1>5, <1>7, <1>8, <1>9

LEMMA ArriveStep ==
    ASSUME RowsInv, PageInv, CountsInv, UNCHANGED <<rows, kind>>, NEW r \in fetches, Arrive(r)
    PROVE  PageInv' /\ CountsInv'
<1>1. PICK u, fs, u2, f2 : u = ui /\ fs = fetches /\ u2 = ui' /\ f2 = fetches'
  OBVIOUS
<1>2. /\ f2 = fs \ {r} /\ r.pc = "answer" /\ sent' = sent /\ faults' = faults
      /\ u2 = IF r.ok
              THEN [u EXCEPT !.rows = r.rows, !.total = r.total,
                             !.seen = @ \cup r.rows, !.crossed = r.crossed]
              ELSE [u EXCEPT !.rows = {}, !.error = TRUE,
                             !.total = IF kind = "audit" THEN @ ELSE 0]
  BY <1>1 DEF Arrive
<1>3. PageAt(u2, fs \ {r})
  BY <1>1, <1>2, ArriveKeeps DEF PageInv
<1>4. u2.page = u.page
  BY <1>1, <1>2 DEF PageInv, PageAt, PageType, Screens
<1>5. CountsInv'
  BY <1>1, <1>2, <1>4 DEF CountsInv
<1>. QED
  BY <1>1, <1>2, <1>3, <1>5, PageTo

LEMMA PageAction ==
    ASSUME RowsInv, PageInv, CountsInv, UNCHANGED <<rows, kind>>, PageStep
    PROVE  PageInv' /\ CountsInv'
BY RequestStep, ArriveStep, NextStep, PrevStep, OtherFetches, UploadStep DEF PageStep

LEMMA PageFrame ==
    ASSUME RowsInv, RowsInv', Grows, PageInv, CountsInv, UNCHANGED <<ui, fetches, sent>>,
           faults' \in 0..MaxFaults
    PROVE  PageInv' /\ CountsInv'
<1>1. PICK u, fs : u = ui /\ fs = fetches
  OBVIOUS
<1>2. PageAt(u, fs)'
  BY <1>1, PageAtFrame DEF PageInv
<1>3. CountsInv'
  BY DEF CountsInv
<1>. QED
  BY <1>1, <1>2, <1>3 DEF PageInv

LEMMA PageInvStep == RowsInv /\ PageInv /\ CountsInv /\ [Next]_vars => PageInv' /\ CountsInv'
<1>. SUFFICES ASSUME RowsInv, PageInv, CountsInv, [Next]_vars PROVE PageInv' /\ CountsInv'
  OBVIOUS
<1>1. RowsInv' /\ Grows
  BY RowsStep
<1>2. ClientStep => faults' \in 0..MaxFaults
  <2>1. CliFails => faults < MaxFaults /\ faults' = faults + 1
    BY DEF CliFails, Fault
  <2>2. ClientStep /\ ~CliFails => faults' = faults
    BY DEF ClientStep, SignRemote, cmd_status, PollStatus
  <2>. QED
    BY <2>1, <2>2, BoundsAssumption DEF CountsInv
<1>. QED
  BY <1>1, <1>2, StepIs, PageAction, PageFrame DEF readers, vars, CountsInv

-----------------------------------------------------------------------------
(***************************************************************************)
(* The theorems.                                                           *)
(***************************************************************************)
Inv == RowsInv /\ PageInv /\ CountsInv /\ StatsInv /\ CliInv

LEMMA InvInit == Init => Inv
BY RowsInit, PageInit, StatsInit, CliInit DEF Inv

LEMMA InvStep == Inv /\ [Next]_vars => Inv'
BY RowsStep, PageInvStep, StatsInvStep, CliInvStep DEF Inv

LEMMA InvHolds == Spec => []Inv
<1>1. Init => Inv
  BY InvInit
<1>2. Inv /\ [Next]_vars => Inv'
  BY InvStep
<1>. QED
  BY <1>1, <1>2, PTL DEF Spec

\* Stamps are the order of the flushes, only stamped rows are committed, and
\* what a page shows, has shown and counts is committed; the requests, the
\* figures and the client's time stay within their bounds.
THEOREM TypeCorrect == Spec => []TypeOK
<1>1. Inv => TypeOK
  <2>. SUFFICES ASSUME Inv PROVE TypeOK
    OBVIOUS
  <2>1. /\ \A j, k \in Stamped : stamp[j] = stamp[k] => j = k
        /\ \A j \in Jobs : status[j] # "none" => stamp[j] > 0
    BY DEF Inv, RowsInv
  <2>2. \A j \in Jobs : stamp[j] \in 0..Cardinality(Jobs)
    <3>1. Cardinality(Stamped) <= Cardinality(Jobs)
      BY RowSets, JobsAssumption, FS_Subset
    <3>2. Cardinality(Stamped) \in Nat /\ Cardinality(Jobs) \in Nat
      BY RowSets, JobsFinite
    <3>. QED
      BY <3>1, <3>2 DEF Inv, RowsInv
  <2>3. ui.rows \cup ui.seen \cup ui.from \subseteq Committed /\ ui.total <= Cardinality(Committed)
    BY DEF Inv, PageInv, PageAt, PageType
  <2>4. ui.page \in 1..MaxFetches /\ sent \in 1..MaxFetches + 1 /\ faults \in 0..MaxFaults
    BY DEF Inv, CountsInv
  <2>5. stats.step \in 0..Len(StatQueries)
    BY StatQueriesAre DEF Inv, StatsInv
  <2>6. cli.exit \in {0, 1} /\ cli.elapsed \in 0..cli.timeout
    BY DEF Inv, CliInv, Runs
  <2>. QED
    BY <2>1, <2>2, <2>3, <2>4, <2>5, <2>6 DEF TypeOK
<1>. QED
  BY <1>1, InvHolds, PTL

\* The pages of list_signing_jobs and list_audit_logs lose no row: when "Next"
\* is disabled, a reader who turned the leaves one at a time has had on the
\* screen every row that was there at the start, however many appeared since.
THEOREM CoverCorrect == Spec => []PagesCover
<1>1. Inv => PagesCover
  <2>. SUFFICES ASSUME Inv, OnPage, Calm, ui.page >= totalPages(ui), ~ui.crossed
                PROVE  ui.from \subseteq ui.seen
    BY DEF PagesCover, OnPage
  <2>1. PICK u : u = ui
    OBVIOUS
  <2>2. /\ PageAt(u, {}) /\ u.calm /\ ~u.error /\ RowsInv
        /\ u.page \in Nat /\ u.total \in Nat
    BY <2>1 DEF Inv, PageInv, Calm, PageAt, PageType, Screens
  <2>3. u.rows \subseteq u.seen /\ Covers(u, u.rows, u.total, u.crossed)
    BY <2>2, PageShows
  <2>4. u.total <= u.page * PER_PAGE
    <3>1. u.page >= (u.total + PER_PAGE - 1) \div PER_PAGE
      BY <2>1 DEF totalPages
    <3>. QED
      BY <2>2, <3>1, PageAssumption, Division
  <2>. QED
    BY <2>1, <2>3, <2>4 DEF Covers
<1>. QED
  BY <1>1, InvHolds, PTL

\* A page that makes one request at a time shows what is selected: jobs of the
\* filter, a leaf at most, and no leaf past the last.
THEOREM ShownCorrect == Spec => []ShownIsSelected
<1>1. Inv => ShownIsSelected
  <2>. SUFFICES ASSUME Inv, OnPage, Calm
                PROVE  /\ ui.rows \subseteq Matching(ui.filter) /\ Cardinality(ui.rows) <= PER_PAGE
                       /\ ui.page > 1 => ui.rows # {}
    BY DEF ShownIsSelected, OnPage
  <2>1. PICK u : u = ui
    OBVIOUS
  <2>2. PageAt(u, {}) /\ u.calm /\ ~u.error /\ RowsInv
    BY <2>1 DEF Inv, PageInv, Calm
  <2>3. Covers(u, u.rows, u.total, u.crossed)
    BY <2>2, PageShows
  <2>. QED
    BY <2>1, <2>3 DEF Covers
<1>. QED
  BY <1>1, InvHolds, PTL

\* Each figure of get_dashboard_stats is one the table had while the request
\* ran, and figures that do not add up differ by rows that appeared meanwhile.
THEOREM StatsCorrect == Spec => []StatsBounded
<1>1. Inv => StatsBounded
  BY StatsBound DEF Inv
<1>. QED
  BY <1>1, InvHolds, PTL

\* The exit code of "sign --wait" is the job's fate.
THEOREM ExitCorrect == Spec => []ExitIsTruth
<1>1. Inv => ExitIsTruth
  BY DEF Inv, CliInv
<1>. QED
  BY <1>1, InvHolds, PTL

=============================================================================
