---------------------------- MODULE LocalCertStore ----------------------------
(***************************************************************************)
(* LocalCertificateStore (src/src/core/certificate_store.py) and the       *)
(* startup hook and the command line client that write to the same         *)
(* directory (src/src/main.py, src/cli/macro_sign_cli.py), one certificate *)
(* name, at the grain of file system calls.  The processes are the uvicorn *)
(* workers, the Celery children and the client where they share ./certs;   *)
(* inside one process no operation yields, so it runs one at a time.       *)
(*                                                                         *)
(* A file is Absent, Empty (opened for writing and truncated, not yet      *)
(* written) or holds <<serial, pair>>: the operation that wrote it, and    *)
(* the key pair that the certificate certifies or the key belongs to.      *)
(***************************************************************************)
EXTENDS Naturals, Sequences, FiniteSets

CONSTANTS
    Procs,      \* processes that share the directory
    Ops,        \* operations they run
    Hurry,      \* TRUE: two rotations may archive in the same second
    MaxOps,     \* bound: operations started
    MaxNow,     \* bound: seconds
    MaxCrashes  \* bound: processes that die inside an operation

\* "rotate": with the key the certificate is of, or without a key for the one
\* that is there; "recertify": a certificate of another pair than the operation's
\* own, with the operation's key or with none, whatever is there.
Rotations == {"rotate", "recertify"}
AllOps == {"get", "provision", "startup", "delete",
           "local sign", "generate"}   \* sign --local, generate-cert
          \cup Rotations

ASSUME OpsAssumption == Ops \subseteq AllOps
\* Scope: what becomes of a file unlinked while another process writes it is
\* not modelled.
ASSUME DeleteAssumption == "delete" \in Ops => \A p, q \in Procs : p = q
ASSUME HurryAssumption == Hurry \in BOOLEAN
ASSUME BoundAssumption == MaxOps \in Nat /\ MaxNow \in Nat /\ MaxCrashes \in Nat

Absent == <<>>
Empty == <<0, 0>>
Credentials == (1..MaxOps) \X (1..MaxOps)
Files == {"pem", "key", "meta"}

VARIABLES
    files,    \* files[f]: content of <name>.pem, <name>.key, <name>.meta.json
    backup,   \* backup[t]: content of <name>.backup.<t>.pem and .key
    now,      \* int(time.time())
    proc,     \* proc[p]: the operation process p is in
    started,  \* operations started; numbers the credentials they generate
    crashes

vars == <<files, backup, now, proc, started, crashes>>

NoBackup == [pem |-> Absent, key |-> Absent]

\* todo: files the operation has yet to read, archive, write or unlink; got:
\* what it read; new: the credential it writes; result: of the last operation.
Resting(op, result, got) ==
    [op |-> op, pc |-> "idle", todo |-> <<>>, got |-> got, new |-> Absent,
     second |-> FALSE, at |-> 0, result |-> result]
NothingRead == [pem |-> Absent, key |-> Absent]

Init ==
    /\ files = [f \in Files |-> Absent]
    /\ backup = [t \in 0..MaxNow |-> NoBackup]
    /\ now = 0
    /\ proc = [p \in Procs |-> Resting("none", "none", NothingRead)]
    /\ started = 0
    /\ crashes = 0

Step(p, rec) == proc' = [proc EXCEPT ![p] = rec]
Return(p, result) == Step(p, Resting(proc[p].op, result, proc[p].got))
Quiet == \A p \in Procs : proc[p].pc = "idle"

Target(p) == Head(proc[p].todo)
At(p, pc) == proc[p].pc = pc

\* Begin writing: the files of new, in order, each opened and then put.
Write(p, seq, new) ==
    Step(p, [proc[p] EXCEPT !.pc = "open", !.todo = seq, !.new = new])

\* create_self_signed_cert: a pair nobody else has.
Fresh(p) == <<proc[p].at, proc[p].at>>

Begin(p, op) ==
    /\ proc[p].pc = "idle"
    /\ started < MaxOps
    /\ started' = started + 1
    /\ Step(p, [op |-> op, pc |-> "look",
                todo |-> IF op \in Rotations THEN <<"pem", "key">> ELSE <<"pem", "key", "meta">>,
                got |-> NothingRead, new |-> Absent, second |-> FALSE,
                at |-> started + 1, result |-> "none"])
    /\ UNCHANGED <<files, backup, now, crashes>>

(***************************************************************************)
(* get_certificate: existence check and read of each file in turn.         *)
(***************************************************************************)
Reading(p) == proc[p].op \in {"get", "provision"}

\* The file is there: it is read next.
Look(p) ==
    /\ At(p, "look") /\ Reading(p) /\ proc[p].todo # <<>>
    /\ files[Target(p)] # Absent
    /\ Step(p, [proc[p] EXCEPT !.pc = "read"])
    /\ UNCHANGED <<files, backup, now, started, crashes>>

\* No key or metadata: that is no error.
LookSkips(p) ==
    /\ At(p, "look") /\ Reading(p) /\ proc[p].todo # <<>>
    /\ Target(p) # "pem" /\ files[Target(p)] = Absent
    /\ Step(p, [proc[p] EXCEPT !.todo = Tail(@)])
    /\ UNCHANGED <<files, backup, now, started, crashes>>

\* No certificate: CertificateStoreError, on which get_or_create_certificate
\* generates and stores one, the first time.
LookFails(p) ==
    /\ At(p, "look") /\ Reading(p) /\ proc[p].todo # <<>>
    /\ Target(p) = "pem" /\ files["pem"] = Absent
    /\ IF proc[p].op = "provision" /\ ~proc[p].second
       THEN Write(p, <<"pem", "key", "meta">>, Fresh(p))
       ELSE Return(p, "missing")
    /\ UNCHANGED <<files, backup, now, started, crashes>>

\* A file that vanished since the check raises FileNotFoundError, metadata that
\* is not JSON yet JSONDecodeError; neither is a CertificateStoreError.
Read(p) ==
    /\ At(p, "read")
    /\ LET f == Target(p) IN
        IF files[f] = Absent \/ (f = "meta" /\ files[f] = Empty)
        THEN Return(p, "error")
        ELSE Step(p, [proc[p] EXCEPT !.pc = "look", !.todo = Tail(@),
                                     !.got = IF f = "meta" THEN @ ELSE [@ EXCEPT ![f] = files[f]]])
    /\ UNCHANGED <<files, backup, now, started, crashes>>

GetReturns(p) ==
    /\ At(p, "look") /\ Reading(p) /\ proc[p].todo = <<>>
    /\ Return(p, "ok")
    /\ UNCHANGED <<files, backup, now, started, crashes>>

(***************************************************************************)
(* The startup hook looks only at the certificate file.                    *)
(***************************************************************************)
\* Variant: only the certificate is written.
StartupWithoutKey(p) ==
    /\ At(p, "look") /\ proc[p].op = "startup"
    /\ IF files["pem"] = Absent
       THEN Write(p, <<"pem">>, Fresh(p))
       ELSE Return(p, "ok")
    /\ UNCHANGED <<files, backup, now, started, crashes>>

StartupChecks(p) ==
    /\ At(p, "look") /\ proc[p].op = "startup"
    /\ IF files["pem"] = Absent
       THEN Write(p, <<"pem", "key">>, Fresh(p))
       ELSE Return(p, "ok")
    /\ UNCHANGED <<files, backup, now, started, crashes>>

(***************************************************************************)
(* The client: "sign --local" looks only at the certificate file too, and  *)
(* reads both files without a check, "generate-cert" writes over them.     *)
(***************************************************************************)
LocalSignChecks(p) ==
    /\ At(p, "look") /\ proc[p].op = "local sign"
    /\ IF files["pem"] = Absent
       THEN Write(p, <<"pem", "key">>, Fresh(p))
       ELSE Step(p, [proc[p] EXCEPT !.pc = "load", !.todo = <<"pem", "key">>])
    /\ UNCHANGED <<files, backup, now, started, crashes>>

\* A file that is missing or still empty ends the command with an error.
LocalSignReads(p) ==
    /\ At(p, "load")
    /\ LET f == Target(p)  got == [proc[p].got EXCEPT ![f] = files[f]] IN
        CASE files[f] = Absent -> Return(p, "error")
          [] files[f] # Absent /\ f = "pem" ->
                Step(p, [proc[p] EXCEPT !.todo = Tail(@), !.got = got])
          [] files[f] # Absent /\ f = "key" ->
                Step(p, Resting("local sign",
                    IF Empty \in {got.pem, got.key} THEN "error" ELSE "ok", got))
    /\ UNCHANGED <<files, backup, now, started, crashes>>

GenerateWrites(p) ==
    /\ At(p, "look") /\ proc[p].op = "generate"
    /\ Write(p, <<"pem", "key">>, Fresh(p))
    /\ UNCHANGED <<files, backup, now, started, crashes>>

(***************************************************************************)
(* store_certificate, the startup hook and the client: write_bytes         *)
(* truncates the file and then writes it, one file after the other.        *)
(***************************************************************************)
\* Variant: all the files are opened before the first is written.
OpenFilesTogether(p) ==
    /\ At(p, "open")
    /\ files' = [f \in Files |->
                    IF \E i \in DOMAIN proc[p].todo : proc[p].todo[i] = f THEN Empty ELSE files[f]]
    /\ Step(p, [proc[p] EXCEPT !.pc = "put"])
    /\ UNCHANGED <<backup, now, started, crashes>>

OpenFile(p) ==
    /\ At(p, "open")
    /\ files' = [files EXCEPT ![Target(p)] = Empty]
    /\ Step(p, [proc[p] EXCEPT !.pc = "put"])
    /\ UNCHANGED <<backup, now, started, crashes>>

\* Variant: off by one at the last file.
PutFilePastEnd(p) ==
    /\ At(p, "put")
    /\ files' = [files EXCEPT ![Target(p)] = proc[p].new]
    /\ Step(p, [proc[p] EXCEPT !.pc = "open", !.todo = Tail(@)])
    /\ UNCHANGED <<backup, now, started, crashes>>

\* A key is of the operation's own pair, whatever its certificate certifies.
Piece(p) ==
    IF Target(p) = "key" THEN <<proc[p].new[1], proc[p].new[1]>> ELSE proc[p].new

\* After its last file a provisioning looks a second time, the others return.
PutFile(p) ==
    /\ At(p, "put")
    /\ files' = [files EXCEPT ![Target(p)] = Piece(p)]
    /\ IF Len(proc[p].todo) > 1
       THEN Step(p, [proc[p] EXCEPT !.pc = "open", !.todo = Tail(@)])
       ELSE IF proc[p].op = "provision"
       THEN Step(p, [proc[p] EXCEPT !.pc = "look", !.second = TRUE,
                                    !.todo = <<"pem", "key", "meta">>])
       ELSE Return(p, "ok")
    /\ UNCHANGED <<backup, now, started, crashes>>

(***************************************************************************)
(* rotate_certificate: archive the certificate and the key under the       *)
(* second of the call, then store the certificate that was given, and the  *)
(* key when one was.  Nothing is compared.                                 *)
(***************************************************************************)
RotateLooks(p) ==
    /\ At(p, "look") /\ proc[p].op \in Rotations /\ proc[p].todo # <<>>
    /\ files[Target(p)] # Absent
    /\ Target(p) = "pem" => Hurry \/ backup[now] = NoBackup
    /\ Step(p, [proc[p] EXCEPT !.pc = "archive", !.at = IF Target(p) = "pem" THEN now ELSE @,
                               !.new = IF Target(p) = "pem" THEN Fresh(p) ELSE @])
    /\ UNCHANGED <<files, backup, now, started, crashes>>

\* The backup file is written at once: nobody reads it while it is written.
RotateArchives(p) ==
    /\ At(p, "archive")
    /\ LET f == Target(p) IN
        IF files[f] = Absent
        THEN Return(p, "error") /\ UNCHANGED backup
        ELSE /\ backup' = [backup EXCEPT ![proc[p].at][f] = files[f]]
             /\ Step(p, [proc[p] EXCEPT !.pc = "look", !.todo = Tail(@)])
    /\ UNCHANGED <<files, now, started, crashes>>

\* Variant: the key of the new certificate is not stored.
RotateKeepsKey(p) ==
    /\ At(p, "look") /\ proc[p].op \in Rotations
    /\ proc[p].todo # <<>> => files[Target(p)] = Absent
    /\ Write(p, <<"pem">>, IF proc[p].new = Absent THEN Fresh(p) ELSE proc[p].new)
    /\ UNCHANGED <<files, backup, now, started, crashes>>

RotateStores(p) ==
    /\ At(p, "look") /\ proc[p].op \in Rotations
    /\ proc[p].todo # <<>> => files[Target(p)] = Absent
    /\ LET new == IF proc[p].new = Absent THEN Fresh(p) ELSE proc[p].new IN
        \/ /\ proc[p].op = "rotate"
           /\ \/ Write(p, <<"pem", "key">>, new)
              \/ /\ files["key"] \notin {Absent, Empty}
                 /\ Write(p, <<"pem">>, <<new[1], files["key"][2]>>)
        \/ /\ proc[p].op = "recertify"
           /\ \E pair \in 1..MaxOps \ {new[1]} : \E seq \in {<<"pem">>, <<"pem", "key">>} :
                Write(p, seq, <<new[1], pair>>)
    /\ UNCHANGED <<files, backup, now, started, crashes>>

(***************************************************************************)
(* delete_certificate: each file that exists is unlinked.                  *)
(***************************************************************************)
DeleteNext(p) ==
    IF Len(proc[p].todo) > 1
    THEN Step(p, [proc[p] EXCEPT !.pc = "look", !.todo = Tail(@)])
    ELSE Return(p, "ok")

DeleteLooks(p) ==
    /\ At(p, "look") /\ proc[p].op = "delete"
    /\ IF files[Target(p)] = Absent
       THEN DeleteNext(p)
       ELSE Step(p, [proc[p] EXCEPT !.pc = "unlink"])
    /\ UNCHANGED <<files, backup, now, started, crashes>>

\* A file another process unlinked first raises FileNotFoundError.
Unlink(p) ==
    /\ At(p, "unlink")
    /\ IF files[Target(p)] = Absent
       THEN Return(p, "error") /\ UNCHANGED files
       ELSE DeleteNext(p) /\ files' = [files EXCEPT ![Target(p)] = Absent]
    /\ UNCHANGED <<backup, now, started, crashes>>

-----------------------------------------------------------------------------
\* A process dies inside its operation; the file it had open stays truncated.
Crash(p) ==
    /\ proc[p].pc # "idle"
    /\ crashes < MaxCrashes
    /\ crashes' = crashes + 1
    /\ Step(p, Resting(proc[p].op, "crashed", NothingRead))
    /\ UNCHANGED <<files, backup, now, started>>

Tick ==
    /\ now < MaxNow
    /\ now' = now + 1
    /\ UNCHANGED <<files, backup, proc, started, crashes>>

OpStep(p) ==
    \/ Look(p) \/ LookSkips(p) \/ LookFails(p) \/ Read(p) \/ GetReturns(p)
    \/ StartupChecks(p) \/ LocalSignChecks(p) \/ LocalSignReads(p) \/ GenerateWrites(p)
    \/ OpenFile(p) \/ PutFile(p)
    \/ RotateLooks(p) \/ RotateArchives(p) \/ RotateStores(p)
    \/ DeleteLooks(p) \/ Unlink(p)

Next ==
    \/ \E p \in Procs : (\E op \in Ops : Begin(p, op)) \/ OpStep(p) \/ Crash(p)
    \/ Tick

Spec == Init /\ [][Next]_vars
-----------------------------------------------------------------------------
(***************************************************************************)
(* Properties.                                                             *)
(***************************************************************************)
Content == {Absent, Empty} \cup Credentials
Pcs == {"idle", "look", "read", "load", "open", "put", "archive", "unlink"}

\* The type invariant: the contents of the files and of the backups, and that
\* a process between two of its file system calls still has a file to go to.
TypeOK ==
    /\ files \in [Files -> Content]
    /\ backup \in [0..MaxNow -> [pem : Content, key : Content]]
    /\ now \in 0..MaxNow
    /\ started \in 0..MaxOps
    /\ crashes \in 0..MaxCrashes
    /\ DOMAIN proc = Procs
    /\ \A p \in Procs :
        /\ proc[p].op \in AllOps \cup {"none"}
        /\ proc[p].pc \in Pcs
        /\ proc[p].got \in [pem : Content, key : Content]
        /\ proc[p].new \in Credentials \cup {Absent}
        /\ proc[p].result \in {"none", "ok", "missing", "error", "crashed"}
        /\ proc[p].pc \notin {"idle", "look"} => proc[p].todo # <<>>
        /\ proc[p].pc \in {"open", "put"} => proc[p].new \in Credentials

\* When the operations of any number of processes are over and none of them
\* died, certificate and key are both there, written in full, or both absent, or
\* there is only a certificate that a rotation was given without its key:
\* creators and rotations that overlap leave no other gap.
CompleteWhenQuiet ==
    Quiet /\ crashes = 0 =>
        \/ \A f \in {"pem", "key"} : files[f] \in Credentials
        \/ \A f \in {"pem", "key"} : files[f] = Absent
        \/ /\ files["pem"] \in Credentials /\ files["key"] = Absent
           /\ files["pem"][1] # files["pem"][2]

\* A truncated file that nobody is writing is one a process died over, and each
\* death spoils one file at most, whatever operations overlap: all else that a
\* reader finds truncated is about to be written.
Torn == {f \in Files : files[f] = Empty /\ ~\E p \in Procs : At(p, "put") /\ Target(p) = f}
DamageCounted == Cardinality(Torn) <= crashes
=============================================================================
