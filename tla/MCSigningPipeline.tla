------------------------- MODULE MCSigningPipeline -------------------------
(***************************************************************************)
(* Values for TLC.  Three profile names: "p1" names one active row, "p2"   *)
(* rows of two teams, "p3" none.                                           *)
(***************************************************************************)
EXTENDS SigningRefinement, TLC

CONSTANTS j1, w1, w2, default, codesign, p1, p2, p3

MCProfileRows == {
    [name |-> p1, team |-> 1, certificate_name |-> codesign],
    [name |-> p2, team |-> 1, certificate_name |-> codesign],
    [name |-> p2, team |-> 2, certificate_name |-> default]}

Form(v, p, s, h) == [validFile |-> v, profile |-> p, supported |-> s, webhook |-> h]

\* Every value of every form field, with the combinations that matter: what is
\* refused goes no further, an unsupported algorithm fails as a bad certificate
\* does, and with one certificate a profile resolves to what no profile does.
AllRequests ==
    {Form(TRUE, p, TRUE, TRUE) : p \in {p1, p2, p3}}
    \cup {Form(TRUE, NoProfile, s, FALSE) : s \in BOOLEAN}
    \cup {Form(FALSE, NoProfile, TRUE, TRUE)}

\* Well-formed requests with and without a profile, all with a webhook.
WebhookRequests == {Form(TRUE, p, TRUE, TRUE) : p \in {p1, NoProfile}}

\* Requests that resolve to each certificate, with either kind of algorithm.
CertificateRequests == {Form(TRUE, p, s, TRUE) : p \in {p1, NoProfile}, s \in BOOLEAN}

\* Every way a publish can go wrong, and only the clean one: nothing published.
AllFaults == {<<0, TRUE>>, <<1, TRUE>>, <<2, FALSE>>}
Outages == {<<0, TRUE>>}

WorkerSymmetry == Permutations({w1, w2})
=============================================================================
