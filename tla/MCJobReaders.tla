---------------------------- MODULE MCJobReaders ----------------------------
(***************************************************************************)
(* An instance of the readers for TLC: three jobs that are there and two   *)
(* that come, one of another account among the former.                       *)
(***************************************************************************)
EXTENDS JobReaders, TLC

MCJobs == 1..5
MCOldStatus == <<"completed", "queued", "failed">>
MCMine == {1, 3, 4, 5}
=============================================================================
