------------------------- MODULE LocalCertRefinement -------------------------
(***************************************************************************)
(* One process at a time, at most one rotation a second, and certificates  *)
(* of the key that comes with them or is there ("rotate"): the directory   *)
(* implements the certificate store CertStore.                             *)
(***************************************************************************)
EXTENDS LocalCertStore

\* A write takes effect when its first file, the certificate, is opened.
Writing(p) ==
    \/ proc[p].pc = "put"
    \/ proc[p].pc = "open" /\ Target(p) # "pem"

ToWrite(f) == {p \in Procs : Writing(p) /\ \E i \in DOMAIN proc[p].todo : proc[p].todo[i] = f}

Effective(f) ==
    IF ToWrite(f) = {} THEN files[f] ELSE proc[CHOOSE p \in ToWrite(f) : TRUE].new

\* A key without a certificate is what deleting has yet to remove.
Entry == [cert |-> Effective("pem"),
          key |-> IF Effective("pem") = Absent THEN Absent ELSE Effective("key")]

Archived ==
    {[cert |-> backup[t].pem, key |-> backup[t].key] :
        t \in {s \in 0..MaxNow : backup[s].pem # Absent /\ backup[s].key # Absent}}

Store == INSTANCE CertStore WITH entry <- Entry, archive <- Archived

\* Every file system call of LocalCertificateStore and of the startup hook is a
\* step of the abstract store or none: between any two of them the directory
\* stands for an entry whose key belongs to its certificate, provisioning never
\* replaces one, and a rotation has archived certificate and key before.
ImplementsCertStore == Store!Spec
=============================================================================
