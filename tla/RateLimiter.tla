----------------------------- MODULE RateLimiter -----------------------------
(***************************************************************************)
(* InMemoryRateLimiter and the dependency that asks it                     *)
(* (src/src/utils/rate_limiter.py).  Each uvicorn process has a limiter of *)
(* its own.  A check is synchronous, so a process runs one at a time, but  *)
(* it reads the clock twice: to forget old requests and, if it grants, to  *)
(* stamp the new one; time passes in between.                              *)
(*                                                                         *)
(* stamp and log are histories the code does not keep: the list            *)
(* _requests[key] is represented by the set of its positions in stamp.     *)
(***************************************************************************)
EXTENDS Integers, Sequences, FiniteSets

CONSTANTS
    Procs,       \* uvicorn processes
    Clients,     \* what a request shows: [api_key, bearer, host], cut to ten characters
    NoHeader,    \* the header is not sent
    Limit,       \* requests_per_minute
    Window,      \* window_size
    MaxNow,      \* bound: time
    MaxRestarts  \* bound: processes started anew

ASSUME LimitAssumption == Limit \in Nat \ {0}
ASSUME WindowAssumption == Window \in Nat \ {0}
ASSUME ClientAssumption == \A c \in Clients : DOMAIN c = {"api_key", "bearer", "host"}
ASSUME ProcsAssumption == IsFiniteSet(Procs)

VARIABLES
    enabled,   \* settings.rate_limit.enabled
    now,       \* time.time()
    requests,  \* requests[p][k]: positions in stamp[p][k] of the times _requests[k] holds
    stamp,     \* stamp[p][k]: when p granted requests of k since it started
    log,       \* log[k]: when any process granted requests of k
    check,     \* check[p]: the key being checked, with the time of its cleanup
    answer,    \* answer[p][k]: the last answer, [status, remaining]
    restarts

vars == <<enabled, now, requests, stamp, log, check, answer, restarts>>

\* The first header present decides, a key before a token before the address.
get_key(c) ==
    IF c.api_key # NoHeader THEN <<"api_key", c.api_key>>
    ELSE IF c.bearer # NoHeader THEN <<"token", c.bearer>>
    ELSE <<"ip", c.host>>

Keys == {get_key(c) : c \in Clients}

Idle == [busy |-> FALSE, key |-> <<>>, since |-> 0]
Unasked == [status |-> 200, remaining |-> Limit]

Init ==
    /\ enabled \in BOOLEAN
    /\ now = 0
    /\ requests = [p \in Procs |-> [k \in Keys |-> {}]]
    /\ stamp = [p \in Procs |-> [k \in Keys |-> <<>>]]
    /\ log = [k \in Keys |-> <<>>]
    /\ check = [p \in Procs |-> Idle]
    /\ answer = [p \in Procs |-> [k \in Keys |-> Unasked]]
    /\ restarts = 0

\* rate_limit_middleware while the limiter is switched off: nobody is refused.
Bypass(p, c) ==
    /\ ~enabled
    /\ answer' = [answer EXCEPT ![p][get_key(c)] = [status |-> 200, remaining |-> Limit]]
    /\ UNCHANGED <<enabled, now, requests, stamp, log, check, restarts>>

\* Variant: a window twice as long is remembered.
CleanupLate(p, c) ==
    /\ enabled /\ ~check[p].busy
    /\ LET k == get_key(c) IN
        /\ requests' = [requests EXCEPT ![p][k] = {i \in @ : stamp[p][k][i] > now - 2 * Window}]
        /\ check' = [check EXCEPT ![p] = [busy |-> TRUE, key |-> k, since |-> now]]
    /\ UNCHANGED <<enabled, now, stamp, log, answer, restarts>>

\* Variant: the list is emptied and not filtered.
CleanupAll(p, c) ==
    /\ enabled /\ ~check[p].busy
    /\ LET k == get_key(c) IN
        /\ requests' = [requests EXCEPT ![p][k] =
                IF \E i \in @ : stamp[p][k][i] <= now - Window THEN {} ELSE @]
        /\ check' = [check EXCEPT ![p] = [busy |-> TRUE, key |-> k, since |-> now]]
    /\ UNCHANGED <<enabled, now, stamp, log, answer, restarts>>

\* check_rate_limit begins with _cleanup: times of the last window are kept.
Cleanup(p, c) ==
    /\ enabled /\ ~check[p].busy
    /\ LET k == get_key(c) IN
        /\ requests' = [requests EXCEPT ![p][k] = {i \in @ : stamp[p][k][i] > now - Window}]
        /\ check' = [check EXCEPT ![p] = [busy |-> TRUE, key |-> k, since |-> now]]
    /\ UNCHANGED <<enabled, now, stamp, log, answer, restarts>>

Count(p) == Cardinality(requests[p][check[p].key])

\* Variant: one request too many.
GrantOneMore(p) ==
    /\ check[p].busy /\ Count(p) <= Limit
    /\ LET k == check[p].key IN
        /\ stamp' = [stamp EXCEPT ![p][k] = Append(@, now)]
        /\ requests' = [requests EXCEPT ![p][k] = @ \cup {Len(stamp[p][k]) + 1}]
        /\ log' = [log EXCEPT ![k] = Append(@, now)]
        /\ answer' = [answer EXCEPT ![p][k] = [status |-> 200, remaining |-> Limit - Count(p) - 1]]
    /\ check' = [check EXCEPT ![p] = Idle]
    /\ UNCHANGED <<enabled, now, restarts>>

\* Below the limit: the request is stamped with the time read now.
Grant(p) ==
    /\ check[p].busy /\ Count(p) < Limit
    /\ LET k == check[p].key IN
        /\ stamp' = [stamp EXCEPT ![p][k] = Append(@, now)]
        /\ requests' = [requests EXCEPT ![p][k] = @ \cup {Len(stamp[p][k]) + 1}]
        /\ log' = [log EXCEPT ![k] = Append(@, now)]
        /\ answer' = [answer EXCEPT ![p][k] = [status |-> 200, remaining |-> Limit - Count(p) - 1]]
    /\ check' = [check EXCEPT ![p] = Idle]
    /\ UNCHANGED <<enabled, now, restarts>>

\* At the limit: 429 with Retry-After, and nothing is remembered of the request.
Reject(p) ==
    /\ check[p].busy /\ Count(p) >= Limit
    /\ answer' = [answer EXCEPT ![p][check[p].key] = [status |-> 429, remaining |-> 0]]
    /\ check' = [check EXCEPT ![p] = Idle]
    /\ UNCHANGED <<enabled, now, requests, stamp, log, restarts>>

\* The limiter lives in the memory of its process and is made on first use.
Restart(p) ==
    /\ restarts < MaxRestarts
    /\ restarts' = restarts + 1
    /\ requests' = [requests EXCEPT ![p] = [k \in Keys |-> {}]]
    /\ stamp' = [stamp EXCEPT ![p] = [k \in Keys |-> <<>>]]
    /\ check' = [check EXCEPT ![p] = Idle]
    /\ answer' = [answer EXCEPT ![p] = [k \in Keys |-> Unasked]]
    /\ UNCHANGED <<enabled, now, log>>

Tick ==
    /\ now < MaxNow
    /\ now' = now + 1
    /\ UNCHANGED <<enabled, requests, stamp, log, check, answer, restarts>>

Next ==
    \/ \E p \in Procs :
        \/ \E c \in Clients : Bypass(p, c) \/ Cleanup(p, c)
        \/ Grant(p) \/ Reject(p) \/ Restart(p)
    \/ Tick

Spec == Init /\ [][Next]_vars
-----------------------------------------------------------------------------
(***************************************************************************)
(* Properties.                                                             *)
(***************************************************************************)
\* The type invariant.
TypeOK ==
    /\ enabled \in BOOLEAN
    /\ now \in Nat
    /\ restarts \in Nat
    /\ stamp \in [Procs -> [Keys -> Seq(Nat)]]
    /\ log \in [Keys -> Seq(Nat)]
    /\ requests \in [Procs -> [Keys -> SUBSET Nat]]
    /\ \A p \in Procs, k \in Keys : requests[p][k] \subseteq 1..Len(stamp[p][k])
    /\ check \in [Procs -> [busy : BOOLEAN, key : Keys \cup {<<>>}, since : Nat]]
    /\ \A p \in Procs : check[p].busy => check[p].key \in Keys
    /\ answer \in [Procs -> [Keys -> [status : {200, 429}, remaining : 0..Limit]]]

\* A sequence of times has at most n of them in any window.
Bounded(times, n) ==
    \A i \in DOMAIN times : i + n \in DOMAIN times => times[i + n] >= times[i] + Window

\* No window, wherever it begins, sees a process grant more than the limit to
\* one key, although a request is stamped later than the requests that count
\* against it were looked up.
WindowBound == \A p \in Procs, k \in Keys : Bounded(stamp[p][k], Limit)

\* What all clients that share a key get together, from all processes, is
\* bounded by the number of limiters there have been, and by nothing less.
ClusterBound ==
    \A k \in Keys : Bounded(log[k], Limit * (Cardinality(Procs) + restarts))

\* Retry-After can be relied on: a check that ends without a grant finds the
\* limit used up by requests of that key within the window before it.  (A
\* refused client that waits is refused again only because others came.)
RefusedOnlyWhenFull ==
    [][\A p \in Procs :
        check[p].busy /\ ~check'[p].busy /\ restarts' = restarts /\ UNCHANGED stamp =>
            LET k == check[p].key
            IN  Cardinality({i \in DOMAIN stamp[p][k] :
                    stamp[p][k][i] > check[p].since - Window}) >= Limit]_vars
=============================================================================
