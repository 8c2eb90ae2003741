------------------------- MODULE SigningRefinement -------------------------
(***************************************************************************)
(* SigningPipeline implements SigningService.  The answer of a submission  *)
(* is the committed row, which every poll reads, or the refusal of its     *)
(* handler; the background work is pending while a message or an executing *)
(* worker stands for it and settled once an execution has ended.           *)
(***************************************************************************)
EXTENDS SigningPipeline

Answer(j) ==
    CASE db[j].status # "none" -> db[j].status
      [] db[j].status = "none" /\ api[j] \in {"refused", "aborted"} -> "refused"
      [] OTHER -> "none"

Work(j) ==
    CASE Settled(j) -> "settled"
      [] ~Settled(j) /\ Live(j) -> "pending"
      [] OTHER -> "none"

Service == INSTANCE SigningService WITH
    answer <- [j \in Jobs |-> Answer(j)],
    work <- [j \in Jobs |-> Work(j)]

\* Every behaviour of the pipeline is one the service allows: answers are
\* final, "queued" is answered only for work that exists, work never vanishes.
ImplementsService == Service!SafeSpec

\* Under the pipeline's fairness the work that was taken on is settled.
ImplementsServiceLive == Service!Spec
=============================================================================
