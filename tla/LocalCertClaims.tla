--------------------------- MODULE LocalCertClaims ---------------------------
(***************************************************************************)
(* What the comments of src/src/core/certificate_store.py say of the       *)
(* store.                                                                  *)
(***************************************************************************)
EXTENDS LocalCertStore

Provisioned(p) == proc[p].op = "provision" /\ proc[p].result = "ok"

\* "the idempotent provisioning method": once every process is at rest, each
\* caller of get_or_create_certificate was given the certificate that is there.
ProvisioningIsIdempotent ==
    Quiet => \A p \in Procs :
        Provisioned(p) => proc[p].got.pem = files["pem"]
=============================================================================
