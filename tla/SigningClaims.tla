---------------------------- MODULE SigningClaims ----------------------------
(***************************************************************************)
(* What the repository's documents and comments say of the asynchronous    *)
(* signing path and the code does not do.  Each definition quotes its      *)
(* source; a run of its own shows the behaviour that contradicts it.       *)
(***************************************************************************)
EXTENDS SigningPipeline

\* docs/API.md:240, "Job Lifecycle: queued -> processing -> completed | failed".
\* A job whose row says queued is later seen as completed or failed: the
\* worker never writes the row, so it says queued for ever.
PolledToCompletion ==
    \A j \in Jobs :
        db[j].status = "queued" ~> db[j].status \in {"completed", "failed"}
=============================================================================
