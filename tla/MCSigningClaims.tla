--------------------------- MODULE MCSigningClaims ---------------------------
EXTENDS SigningClaims

CONSTANTS j1, w1, default, codesign, p1

MCProfileRows == {[name |-> p1, team |-> 1, certificate_name |-> codesign]}

ProfileRequest ==
    {[validFile |-> TRUE, profile |-> p1, supported |-> s, webhook |-> TRUE] : s \in BOOLEAN}

Outages == {<<0, TRUE>>}
=============================================================================
