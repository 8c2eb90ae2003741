------------------------------ MODULE CertStore ------------------------------
(***************************************************************************)
(* What a certificate store promises for one certificate name: the entry   *)
(* is absent or a certificate with the private key that belongs to it,     *)
(* provisioning creates an entry only where there is none, and rotation    *)
(* replaces an entry only after it was archived.                           *)
(*                                                                         *)
(* A credential is <<serial, pair>>: the certificate's serial number and   *)
(* the key pair it certifies.  Absent is no credential.                    *)
(***************************************************************************)
EXTENDS Naturals

Absent == <<>>
Credentials == (Nat \ {0}) \X (Nat \ {0})

VARIABLES
    entry,    \* [cert, key]: both Absent, or a certificate and a key
    archive   \* entries rotation has put aside

vars == <<entry, archive>>

None == [cert |-> Absent, key |-> Absent]
Whole(e) == e.cert \in Credentials /\ e.key = e.cert

Init == entry = None /\ archive = {}

\* get_or_create_certificate and the startup hook: a fresh pair, once.
Provision ==
    /\ entry = None
    /\ Whole(entry')
    /\ UNCHANGED archive

Archive ==
    /\ entry # None
    /\ archive' = archive \cup {entry}
    /\ UNCHANGED entry

\* A new certificate, with a key of its own or for the key that is there.
Rotate ==
    /\ entry # None => entry \in archive
    /\ \/ Whole(entry') /\ \A a \in archive : a.cert # entry'.cert
       \/ /\ entry # None
          /\ entry'.cert \in Credentials /\ entry'.cert[2] = entry.key[2]
          /\ entry' = [entry EXCEPT !.cert = entry'.cert]
    /\ UNCHANGED archive

Delete ==
    /\ entry' = None
    /\ UNCHANGED archive

Next == Provision \/ Archive \/ Rotate \/ Delete

Spec == Init /\ [][Next]_vars
=============================================================================
