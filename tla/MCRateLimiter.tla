--------------------------- MODULE MCRateLimiter ---------------------------
(***************************************************************************)
(* An instance of the rate limiter for TLC: two users with bearer tokens,  *)
(* whose first ten characters are those of every token, so that they share *)
(* a key.  Keys do not interact, one is enough.                            *)
(***************************************************************************)
EXTENDS RateLimiter, TLC

CONSTANTS none, jwt, h1, h2

MCClients == {
    [api_key |-> none, bearer |-> jwt, host |-> h1],
    [api_key |-> none, bearer |-> jwt, host |-> h2]}

ProcSymmetry == Permutations(Procs)
=============================================================================
