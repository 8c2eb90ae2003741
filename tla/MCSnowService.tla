---------------------------- MODULE MCSnowService ----------------------------
(***************************************************************************)
(* An instance of the ServiceNow endpoints for TLC: two names that Azure   *)
(* takes for one, one of them also the default.                            *)
(***************************************************************************)
EXTENDS SnowService, TLC

CONSTANTS dotted, dashed

MCDashed == (dotted :> dashed) @@ (dashed :> dashed)

File(suffix, size) ==
    [unnamed |-> FALSE, traversal |-> FALSE, null |-> FALSE, suffix |-> suffix, size |-> size]

SignRequests ==
    {[op |-> "sign", name |-> n, algorithm |-> Spelling("sha256", FALSE), content |-> "macro",
      file |-> File(".VBA", 1)] : n \in Names}

OddRequests ==
    {[op |-> "sign", name |-> dashed, algorithm |-> Spelling("md5", FALSE), content |-> "macro",
      file |-> File(".bas", MaxFileSize)],
     [op |-> "sign", name |-> dashed, algorithm |-> Spelling("sha256", FALSE), content |-> "macro",
      file |-> File(".exe", MaxFileSize + 1)],
     [op |-> "details", name |-> dashed],
     [op |-> "list", name |-> dashed]}

Maintenance ==
    {[op |-> "rotate", name |-> dashed, kind |-> k] : k \in Kinds \ {"mismatched"}}
        \cup {[op |-> "rotate", name |-> dashed, kind |-> "mismatched", pair |-> 0],
              [op |-> "delete", name |-> dashed]}

MCRequests == SignRequests \cup OddRequests \cup Maintenance

MCChecks ==
    {[op |-> "verify", name |-> n, algorithm |-> Spelling("sha256", TRUE), same |-> TRUE] : n \in Names}
    \cup {[op |-> "verify", name |-> dashed, algorithm |-> Spelling("sha256", FALSE), same |-> FALSE],
          [op |-> "verify", name |-> dashed, algorithm |-> Spelling("md5", FALSE), same |-> TRUE],
          [op |-> "verify_default", name |-> Default, algorithm |-> Spelling("sha256", FALSE),
           same |-> TRUE]}

ProcSymmetry == Permutations(Procs)
=============================================================================
