--------------------------- MODULE SigningService ---------------------------
(***************************************************************************)
(* What the signing endpoint promises about each submission, without       *)
(* queue, workers or session.  A submission gets at most one lasting       *)
(* answer.  It may be taken on as background work, and an answer "queued"  *)
(* is given only for work that was taken on; work that was taken on stays  *)
(* pending until it is settled, and it is settled at last.                 *)
(*                                                                         *)
(* The documents promise more (a job seen as queued is later seen as       *)
(* completed or failed); see SigningClaims for what the code does not do.  *)
(***************************************************************************)
CONSTANT Jobs

VARIABLES
    answer,  \* answer[j]: what the request and every later poll of j show
    work     \* work[j]: the background work of j

vars == <<answer, work>>

Init ==
    /\ answer = [j \in Jobs |-> "none"]
    /\ work = [j \in Jobs |-> "none"]

\* The client is told no, or gets an error although the work was taken on.
Refuse(j) ==
    /\ answer[j] = "none"
    /\ answer' = [answer EXCEPT ![j] = "refused"]
    /\ UNCHANGED work

\* The work goes to the background while the request is being answered.
TakeOn(j) ==
    /\ answer[j] = "none" /\ work[j] = "none"
    /\ work' = [work EXCEPT ![j] = "pending"]
    /\ UNCHANGED answer

AnswerQueued(j) ==
    /\ answer[j] = "none" /\ work[j] # "none"
    /\ answer' = [answer EXCEPT ![j] = "queued"]
    /\ UNCHANGED work

AnswerInline(j) ==
    /\ answer[j] = "none"
    /\ \E verdict \in {"completed", "failed"} : answer' = [answer EXCEPT ![j] = verdict]
    /\ UNCHANGED work

Settle(j) ==
    /\ work[j] = "pending"
    /\ work' = [work EXCEPT ![j] = "settled"]
    /\ UNCHANGED answer

Next == \E j \in Jobs :
    Refuse(j) \/ TakeOn(j) \/ AnswerQueued(j) \/ AnswerInline(j) \/ Settle(j)

SafeSpec == Init /\ [][Next]_vars
Spec == SafeSpec /\ \A j \in Jobs : WF_vars(Settle(j))
=============================================================================
