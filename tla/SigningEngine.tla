---------------------------- MODULE SigningEngine ----------------------------
(***************************************************************************)
(* The pure functions of src/src/core/signing_engine.py: what sign and     *)
(* verify make of a key, a certificate, an algorithm and the time.         *)
(*                                                                         *)
(* A PEM value is Blank (None or empty), Garbage (text that does not load) *)
(* or a record of what it holds.  A certificate names the key pair it      *)
(* certifies and its validity; a signature the pair that made it, the hash *)
(* and the content.  That such a signature is accepted with that public    *)
(* key, hash and content only is what the cryptography library provides.   *)
(***************************************************************************)
EXTENDS Integers

Blank == [kind |-> "blank"]
Garbage == [kind |-> "garbage"]
KeyPem(pair) == [kind |-> "key", pair |-> pair]
CertPem(pair, from, until) ==
    [kind |-> "cert", pair |-> pair, from |-> from, until |-> until]

\* An algorithm as the client spells it: its name, and whether in capitals.
SUPPORTED_ALGORITHMS == {"sha256", "sha384", "sha512"}
Spelling(name, capitals) == [name |-> name, capitals |-> capitals]
lower(a) == [a EXCEPT !.capitals = FALSE]
Supported(a) == lower(a) \in {Spelling(n, FALSE) : n \in SUPPORTED_ALGORITHMS}

\* SigningEngine(private_key_pem, certificate_pem): a PEM that is given loads.
Constructs(key, cert) == key # Garbage /\ cert # Garbage

\* sign: no SigningError is raised.  The last instant of a certificate counts.
CanSign(key, cert, a, now) ==
    /\ Constructs(key, cert)
    /\ key # Blank /\ cert # Blank
    /\ ~(now > cert.until) /\ ~(now < cert.from)
    /\ Supported(a)

Signature(key, a, content) ==
    [pair |-> key.pair, hash |-> lower(a), content |-> content]

\* Variant: the last instant is excluded.
VerdictExclusive(cert, sig, a, content, now) ==
    IF cert \in {Blank, Garbage} \/ (cert.kind = "cert" /\ now >= cert.until) THEN "invalid"
    ELSE IF ~Supported(a) THEN "raises"
    ELSE IF sig = Signature(KeyPem(cert.pair), a, content) THEN "valid"
    ELSE "invalid"

\* Variant: the content is hashed and the hash is not compared.
VerdictAnyContent(cert, sig, a, content, now) ==
    IF cert \in {Blank, Garbage} \/ (cert.kind = "cert" /\ now > cert.until) THEN "invalid"
    ELSE IF ~Supported(a) THEN "raises"
    ELSE IF sig = Signature(KeyPem(cert.pair), a, sig.content) THEN "valid"
    ELSE "invalid"

\* verify: only the end of the validity is looked at, and an unsupported
\* algorithm is raised from outside the try block.
Verdict(cert, sig, a, content, now) ==
    IF cert \in {Blank, Garbage} \/ (cert.kind = "cert" /\ now > cert.until) THEN "invalid"
    ELSE IF ~Supported(a) THEN "raises"
    ELSE IF sig = Signature(KeyPem(cert.pair), a, content) THEN "valid"
    ELSE "invalid"

\* create_self_signed_cert: a new pair, valid from now on.
create_self_signed_cert(pair, now, days) ==
    [cert |-> CertPem(pair, now, now + days), key |-> KeyPem(pair)]
=============================================================================
