--------------------------- MODULE RemoteCertStore ---------------------------
(***************************************************************************)
(* The certificate stores kept by a remote service                         *)
(* (VaultCertificateStore, AWSKMSCertificateStore and                      *)
(* AzureKeyVaultCertificateStore of src/src/core/certificate_store.py):    *)
(* what each call to the service does and how it may end.  The calls block *)
(* and are atomic; a call may also fail, with or without its effect.       *)
(*                                                                         *)
(* A call is an action on entry, hidden and faults, with its result:       *)
(* "ok"; "missing" and "exists", which only AWS tells apart; "error", a    *)
(* refusal; "fault", a lost connection or a timeout.                       *)
(***************************************************************************)
EXTENDS Naturals, FiniteSets

CONSTANTS
    Names,      \* certificate names
    Dashed,     \* Dashed[n]: n with ".", "/" and "_" replaced by "-" (_secret_name)
    Backends,   \* the back ends the instance considers
    MaxFaults   \* bound: calls that fail

ASSUME DashedAssumption ==
    Dashed \in [Names -> Names] /\ \A n \in Names : Dashed[Dashed[n]] = Dashed[n]
ASSUME BackendAssumption == Backends \subseteq {"vault", "aws", "azure"}
ASSUME FaultsAssumption == MaxFaults \in Nat

VARIABLES
    backend,  \* settings.certificate.store_backend
    entry,    \* entry[s]: the JSON stored as secret s: certificate, key, its name
    hidden,   \* Azure: secrets deleted and not yet purged
    faults

storeVars == <<backend, entry, hidden, faults>>

Absent == [name |-> "absent"]

\* Vault keeps a path, AWS a name with a prefix; Azure has no dots or slashes.
SecretName(n) == IF backend = "azure" THEN Dashed[n] ELSE n

StoreInit ==
    /\ backend \in Backends
    /\ entry = [s \in Names |-> Absent]
    /\ hidden = {}
    /\ faults = 0

Fault == faults < MaxFaults /\ faults' = faults + 1

Put(s, e) == entry' = [entry EXCEPT ![s] = e]

\* _get_client, at the first call of a store object: Vault's is_authenticated()
\* stands before the try block of every method, and the exception of a lost
\* connection is not a CertificateStoreError.  The other clients only construct.
GetClientFails ==
    /\ backend = "vault"
    /\ Fault
    /\ UNCHANGED <<backend, entry, hidden>>

\* read_secret_version, get_secret_value, get_secret: every exception of them
\* becomes the same CertificateStoreError.  (What this code wrote it can parse;
\* secrets edited outside it are not modelled.)
GetSecret(n, result) ==
    /\ \/ result = "ok" /\ entry[SecretName(n)] # Absent /\ UNCHANGED faults
       \/ result = "missing" /\ entry[SecretName(n)] = Absent /\ UNCHANGED faults
       \/ result = "fault" /\ Fault
    /\ UNCHANGED <<backend, entry, hidden>>

\* Variant: a name Azure still hides can be written.
SetSecretHidden(n, new, result) ==
    /\ LET s == SecretName(n) IN
        \/ /\ result = "missing" /\ backend = "aws" /\ entry[s] = Absent
           /\ UNCHANGED <<entry, faults>>
        \/ /\ result = "ok"
           /\ backend = "aws" => entry[s] # Absent
           /\ Put(s, new) /\ UNCHANGED faults
    /\ UNCHANGED <<backend, hidden>>

\* create_or_update_secret, put_secret_value, set_secret: the whole entry is
\* replaced.  AWS wants it to exist, Azure refuses a name not yet purged.
SetSecret(n, new, result) ==
    /\ LET s == SecretName(n) IN
        \/ /\ result = "missing" /\ backend = "aws" /\ entry[s] = Absent
           /\ UNCHANGED <<entry, faults>>
        \/ /\ result = "error" /\ s \in hidden
           /\ UNCHANGED <<entry, faults>>
        \/ /\ result = "ok" /\ s \notin hidden
           /\ backend = "aws" => entry[s] # Absent
           /\ Put(s, new) /\ UNCHANGED faults
        \/ /\ result = "fault" /\ Fault
           /\ \/ UNCHANGED entry
              \/ s \notin hidden /\ (backend = "aws" => entry[s] # Absent) /\ Put(s, new)
    /\ UNCHANGED <<backend, hidden>>

\* create_secret, called by the handler of ResourceNotFoundException and hence
\* outside the try block: what it raises is not a CertificateStoreError.
CreateSecret(n, new, result) ==
    /\ LET s == SecretName(n) IN
        \/ result = "exists" /\ entry[s] # Absent /\ UNCHANGED <<entry, faults>>
        \/ result = "ok" /\ entry[s] = Absent /\ Put(s, new) /\ UNCHANGED faults
        \/ /\ result = "fault" /\ Fault
           /\ UNCHANGED entry \/ (entry[s] = Absent /\ Put(s, new))
    /\ UNCHANGED <<backend, hidden>>

\* delete_metadata_and_all_versions and a forced delete_secret do not mind an
\* absent entry; begin_delete_secret does, and hides the name until a purge.
DeleteSecret(n, result) ==
    /\ LET s == SecretName(n)
           Delete == /\ Put(s, Absent)
                     /\ hidden' = IF backend = "azure" THEN hidden \cup {s} ELSE hidden
       IN  \/ /\ result = "missing" /\ backend = "azure" /\ entry[s] = Absent
              /\ UNCHANGED <<entry, hidden, faults>>
           \/ /\ result = "ok"
              /\ backend = "azure" => entry[s] # Absent
              /\ Delete /\ UNCHANGED faults
           \/ /\ result = "fault" /\ Fault
              /\ UNCHANGED <<entry, hidden>> \/ (entry[s] # Absent /\ Delete)
    /\ UNCHANGED backend

\* list_secrets and list_properties_of_secrets read only; Vault answers an empty
\* path with an error.  (Azure lists dashed names, AWS its first page.)
ListSecrets(result) ==
    /\ \/ /\ result = "missing" /\ backend = "vault" /\ \A s \in Names : entry[s] = Absent
          /\ UNCHANGED faults
       \/ /\ result = "ok"
          /\ backend = "vault" => \E s \in Names : entry[s] # Absent
          /\ UNCHANGED faults
       \/ result = "fault" /\ Fault
    /\ UNCHANGED <<backend, entry, hidden>>

\* Azure purges what was deleted, after its retention or by hand.
Purge(s) ==
    /\ s \in hidden
    /\ hidden' = hidden \ {s}
    /\ UNCHANGED <<backend, entry, faults>>
=============================================================================
