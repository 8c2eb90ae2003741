--------------------------- MODULE LocalCertProofs ---------------------------
(***************************************************************************)
(* Theorems about LocalCertStore, for any number of processes, operations, *)
(* seconds and crashes.                                                    *)
(***************************************************************************)
EXTENDS LocalCertRefinement, FiniteSetTheorems, TLAPS

USE DEF Rotations

LEMMA Distinct ==
    /\ Absent # Empty
    /\ Absent \notin Credentials /\ Empty \notin Credentials
    /\ \A c \in Content : c \notin {Absent, Empty} => c \in Credentials
BY BoundAssumption DEF Absent, Empty, Credentials, Content

\* The files an operation has yet to go to.
Todos == {<<>>, <<"pem">>, <<"key">>, <<"pem", "key">>,
          <<"meta">>, <<"key", "meta">>, <<"pem", "key", "meta">>}

LEMMA TodoType ==
    ASSUME NEW t \in Todos, t # <<>>
    PROVE  /\ Head(t) \in Files
           /\ Tail(t) \in Todos
           /\ Len(t) > 1 => Tail(t) # <<>>
           /\ t \in {<<"pem", "key">>, <<"key">>} =>
                Head(t) \in {"pem", "key"} /\ Tail(t) \in {<<"key">>, <<>>}
<1>1. ASSUME NEW f \in Files, t = <<f>>
      PROVE  Head(t) \in Files /\ Tail(t) = <<>> /\ Len(t) = 1 /\ Head(t) = f
  BY <1>1
<1>2. CASE t = <<"pem", "key">>
  BY <1>2 DEF Todos, Files
<1>3. CASE t = <<"key", "meta">>
  BY <1>3 DEF Todos, Files
<1>4. CASE t = <<"pem", "key", "meta">>
  BY <1>4 DEF Todos, Files
<1>5. CASE t \in {<<"pem">>, <<"key">>, <<"meta">>}
  BY <1>1, <1>5 DEF Todos, Files
<1>. QED
  BY <1>2, <1>3, <1>4, <1>5 DEF Todos

LEMMA TodoHead ==
    /\ Head(<<"pem", "key">>) = "pem" /\ Tail(<<"pem", "key">>) = <<"key">>
    /\ Head(<<"key">>) = "key" /\ Tail(<<"key">>) = <<>>
    /\ <<"pem", "key">> # <<>> /\ <<"key">> # <<>> /\ <<"pem", "key">> # <<"key">>
OBVIOUS

-----------------------------------------------------------------------------
(***************************************************************************)
(* The types.  A process between two calls has a file to go to, and what   *)
(* it archives under, or numbers its credential by, is in range.           *)
(***************************************************************************)
Process ==
    [op : AllOps \cup {"none"}, pc : Pcs, todo : Todos, got : [pem : Content, key : Content],
     new : Credentials \cup {Absent}, second : BOOLEAN, at : Nat,
     result : {"none", "ok", "missing", "error", "crashed"}]

Shape(x) ==
    /\ x \in Process
    /\ x.pc \in {"read", "unlink", "archive", "open", "put"} => x.todo # <<>>
    /\ x.pc \in {"open", "put"} => x.new \in Credentials
    /\ x.pc = "load" => x.op = "local sign" /\ x.todo \in {<<"pem", "key">>, <<"key">>}
    /\ x.pc = "read" => x.op \in {"get", "provision"}
    /\ x.pc = "unlink" => x.op = "delete"
    /\ x.pc = "archive" => x.op \in Rotations /\ x.new # Absent
    /\ x.op = "delete" /\ x.pc = "look" => x.todo # <<>>
    /\ x.op \notin Rotations /\ x.pc # "idle" => x.at \in 1..MaxOps
    /\ x.op \in Rotations /\ x.pc \in {"look", "archive"} =>
        /\ x.todo \in {<<"pem", "key">>, <<"key">>, <<>>}
        /\ IF x.new = Absent
           THEN x.todo = <<"pem", "key">> /\ x.at \in 1..MaxOps
           ELSE /\ x.at \in 0..MaxNow
                /\ x.pc = "look" => x.todo \in {<<"key">>, <<>>}

TypeInv ==
    /\ files \in [Files -> Content]
    /\ backup \in [0..MaxNow -> [pem : Content, key : Content]]
    /\ now \in 0..MaxNow
    /\ started \in 0..MaxOps
    /\ crashes \in 0..MaxCrashes
    /\ DOMAIN proc = Procs
    /\ \A p \in Procs : Shape(proc[p])

LEMMA RestingShape ==
    ASSUME NEW op \in AllOps \cup {"none"}, NEW got \in [pem : Content, key : Content],
           NEW result \in {"none", "ok", "missing", "error", "crashed"}
    PROVE  Shape(Resting(op, result, got))
BY DEF Shape, Resting, Process, Pcs, Todos

LEMMA NothingReadType == NothingRead \in [pem : Content, key : Content]
BY DEF NothingRead, Content

\* A step of one process leaves the others alone.
LEMMA StepFrame ==
    ASSUME DOMAIN proc = Procs, NEW p \in Procs, NEW x, Step(p, x)
    PROVE  /\ DOMAIN proc' = Procs
           /\ proc'[p] = x
           /\ \A q \in Procs \ {p} : proc'[q] = proc[q]
BY DEF Step

LEMMA ReturnShape ==
    ASSUME TypeInv, NEW p \in Procs, NEW result \in {"ok", "missing", "error"}, Return(p, result)
    PROVE  Shape(proc'[p])
<1>1. proc[p].op \in AllOps \cup {"none"} /\ proc[p].got \in [pem : Content, key : Content]
  BY DEF TypeInv, Shape, Process
<1>2. proc'[p] = Resting(proc[p].op, result, proc[p].got)
  BY StepFrame DEF Return, TypeInv
<1>. QED
  BY <1>1, <1>2, RestingShape

LEMMA WriteShape ==
    ASSUME TypeInv, NEW p \in Procs, NEW t \in Todos, t # <<>>, NEW new \in Credentials,
           proc[p].op \notin Rotations => proc[p].at \in 1..MaxOps, Write(p, t, new)
    PROVE  Shape(proc'[p])
<1>1. proc'[p] = [proc[p] EXCEPT !.pc = "open", !.todo = t, !.new = new]
  BY StepFrame DEF Write, TypeInv
<1>2. proc[p] \in Process
  BY DEF TypeInv, Shape
<1>. QED
  BY <1>1, <1>2 DEF Shape, Process, Pcs

\* A fresh credential, while the operation's number is still at hand.
LEMMA FreshType ==
    ASSUME NEW p \in Procs, proc[p].at \in 1..MaxOps
    PROVE  Fresh(p) \in Credentials
BY DEF Fresh, Credentials

\* What a process writes is a credential.
LEMMA PieceType ==
    ASSUME NEW p \in Procs, proc[p].new \in Credentials
    PROVE  Piece(p) \in Credentials
BY DEF Piece, Credentials

LEMMA TypeInit == Init => TypeInv
<1>. SUFFICES ASSUME Init PROVE TypeInv
  OBVIOUS
<1>1. \A p \in Procs : Shape(proc[p])
  BY RestingShape, NothingReadType DEF Init
<1>. QED
  BY <1>1, BoundAssumption DEF Init, TypeInv, Content, NoBackup

\* Every step of an operation leaves its process, and the files, in range.
LEMMA TypeOp ==
    ASSUME TypeInv, NEW p \in Procs, OpStep(p)
    PROVE  /\ Shape(proc'[p])
           /\ files' \in [Files -> Content]
           /\ backup' \in [0..MaxNow -> [pem : Content, key : Content]]
<1>. DEFINE x == proc[p]
<1>1. Shape(x) /\ x \in Process /\ files \in [Files -> Content]
      /\ backup \in [0..MaxNow -> [pem : Content, key : Content]] /\ DOMAIN proc = Procs
  BY DEF TypeInv, Shape
<1>2. x.todo # <<>> => Target(p) \in Files /\ Tail(x.todo) \in Todos
                       /\ (Len(x.todo) > 1 => Tail(x.todo) # <<>>)
  BY <1>1, TodoType DEF Target, Process
<1>3. ASSUME NEW y, Step(p, y) PROVE proc'[p] = y
  BY <1>1, <1>3, StepFrame
<1>. USE DEF At
<1>4. CASE Look(p)
  <2>1. proc'[p] = [x EXCEPT !.pc = "read"]
    BY <1>3, <1>4 DEF Look
  <2>2. x.op \in {"get", "provision"} /\ x.pc = "look" /\ x.todo # <<>>
        /\ UNCHANGED <<files, backup>>
    BY <1>4 DEF Look, Reading
  <2>. QED
    BY <1>1, <2>1, <2>2 DEF Shape, Process, Pcs
<1>5. CASE LookSkips(p)
  <2>1. proc'[p] = [x EXCEPT !.todo = Tail(@)]
    BY <1>3, <1>5 DEF LookSkips
  <2>2. x.op \in {"get", "provision"} /\ x.pc = "look" /\ x.todo # <<>>
        /\ UNCHANGED <<files, backup>>
    BY <1>5 DEF LookSkips, Reading
  <2>. QED
    BY <1>1, <1>2, <2>1, <2>2 DEF Shape, Process, Pcs
<1>6. CASE LookFails(p)
  <2>1. x.op \in {"get", "provision"} /\ x.pc = "look" /\ UNCHANGED <<files, backup>>
    BY <1>6 DEF LookFails, Reading
  <2>2. x.at \in 1..MaxOps
    BY <1>1, <2>1 DEF Shape
  <2>3. CASE Write(p, <<"pem", "key", "meta">>, Fresh(p))
    BY <1>1, <2>1, <2>2, <2>3, WriteShape, FreshType DEF Todos
  <2>4. CASE Return(p, "missing")
    BY <1>1, <2>1, <2>4, ReturnShape
  <2>. QED
    BY <1>6, <2>3, <2>4 DEF LookFails
<1>7. CASE Read(p)
  <2>1. x.op \in {"get", "provision"} /\ x.pc = "read" /\ x.todo # <<>> /\ UNCHANGED <<files, backup>>
    BY <1>1, <1>7 DEF Read, Shape
  <2>2. CASE Return(p, "error")
    BY <1>1, <2>1, <2>2, ReturnShape
  <2>3. ASSUME NEW got, got = IF Target(p) = "meta" THEN x.got
                                                    ELSE [x.got EXCEPT ![Target(p)] = files[Target(p)]],
               Step(p, [x EXCEPT !.pc = "look", !.todo = Tail(@), !.got = got])
        PROVE  Shape(proc'[p])
    <3>1. got \in [pem : Content, key : Content]
      BY <1>1, <1>2, <2>1, <2>3 DEF Process, Files
    <3>2. proc'[p] = [x EXCEPT !.pc = "look", !.todo = Tail(@), !.got = got]
      BY <1>3, <2>3
    <3>. QED
      BY <1>1, <1>2, <2>1, <3>1, <3>2 DEF Shape, Process, Pcs
  <2>. QED
    BY <1>1, <1>7, <2>1, <2>2, <2>3 DEF Read
<1>8. CASE GetReturns(p)
  BY <1>1, <1>8, ReturnShape DEF GetReturns
<1>9. CASE StartupChecks(p)
  <2>1. x.op = "startup" /\ x.pc = "look" /\ x.at \in 1..MaxOps /\ UNCHANGED <<files, backup>>
    BY <1>1, <1>9 DEF StartupChecks, Shape
  <2>2. CASE Write(p, <<"pem", "key">>, Fresh(p))
    BY <1>1, <2>1, <2>2, WriteShape, FreshType DEF Todos
  <2>3. CASE Return(p, "ok")
    BY <1>1, <2>1, <2>3, ReturnShape
  <2>. QED
    BY <1>9, <2>2, <2>3 DEF StartupChecks
<1>10. CASE LocalSignChecks(p)
  <2>1. x.op = "local sign" /\ x.pc = "look" /\ x.at \in 1..MaxOps /\ UNCHANGED <<files, backup>>
    BY <1>1, <1>10 DEF LocalSignChecks, Shape
  <2>2. CASE Write(p, <<"pem", "key">>, Fresh(p))
    BY <1>1, <2>1, <2>2, WriteShape, FreshType DEF Todos
  <2>3. CASE Step(p, [x EXCEPT !.pc = "load", !.todo = <<"pem", "key">>])
    <3>1. proc'[p] = [x EXCEPT !.pc = "load", !.todo = <<"pem", "key">>]
      BY <1>3, <2>3
    <3>. QED
      BY <1>1, <2>1, <3>1 DEF Shape, Process, Pcs, Todos
  <2>. QED
    BY <1>10, <2>2, <2>3 DEF LocalSignChecks
<1>11. CASE LocalSignReads(p)
  <2>. DEFINE f == Target(p)
              got == [x.got EXCEPT ![f] = files[f]]
  <2>1. x.pc = "load" /\ x.todo \in {<<"pem", "key">>, <<"key">>} /\ UNCHANGED <<files, backup>>
    BY <1>1, <1>11 DEF LocalSignReads, Shape
  <2>2. /\ f = "pem" => x.todo = <<"pem", "key">> /\ Tail(x.todo) = <<"key">>
        /\ f \in {"pem", "key"}
    BY <2>1, TodoHead DEF Target
  <2>3. got \in [pem : Content, key : Content]
    BY <1>1, <2>2 DEF Process, Files
  <2>4. CASE Return(p, "error")
    BY <1>1, <2>1, <2>4, ReturnShape
  <2>5. CASE f = "pem" /\ Step(p, [x EXCEPT !.todo = Tail(@), !.got = got])
    <3>1. proc'[p] = [x EXCEPT !.todo = <<"key">>, !.got = got]
      BY <1>3, <2>2, <2>5
    <3>. QED
      BY <1>1, <2>1, <2>3, <3>1 DEF Shape, Process, Todos
  <2>6. ASSUME NEW r \in {"ok", "error"}, Step(p, Resting("local sign", r, got))
        PROVE  Shape(proc'[p])
    <3>1. proc'[p] = Resting("local sign", r, got)
      BY <1>3, <2>6
    <3>. QED
      BY <2>3, <3>1, RestingShape DEF AllOps
  <2>. QED
    BY <1>1, <1>11, <2>1, <2>2, <2>4, <2>5, <2>6 DEF LocalSignReads
<1>12. CASE GenerateWrites(p)
  <2>1. x.op = "generate" /\ x.pc = "look" /\ x.at \in 1..MaxOps /\ UNCHANGED <<files, backup>>
    BY <1>1, <1>12 DEF GenerateWrites, Shape
  <2>. QED
    BY <1>1, <1>12, <2>1, WriteShape, FreshType DEF GenerateWrites, Todos
<1>13. CASE OpenFile(p)
  <2>1. proc'[p] = [x EXCEPT !.pc = "put"] /\ x.pc = "open" /\ UNCHANGED backup
    BY <1>3, <1>13 DEF OpenFile
  <2>2. files' \in [Files -> Content]
    BY <1>1, <1>2, <1>13 DEF OpenFile, Content
  <2>. QED
    BY <1>1, <2>1, <2>2 DEF Shape, Process, Pcs
<1>14. CASE PutFile(p)
  <2>1. x.pc = "put" /\ x.todo # <<>> /\ x.new \in Credentials /\ UNCHANGED backup
    BY <1>1, <1>14 DEF PutFile, Shape
  <2>2. files' \in [Files -> Content]
    <3>1. Piece(p) \in Content
      BY <2>1, PieceType DEF Content
    <3>. QED
      BY <1>1, <1>14, <3>1 DEF PutFile
  <2>3. CASE Len(x.todo) > 1 /\ Step(p, [x EXCEPT !.pc = "open", !.todo = Tail(@)])
    <3>1. proc'[p] = [x EXCEPT !.pc = "open", !.todo = Tail(@)]
      BY <1>3, <2>3
    <3>. QED
      BY <1>1, <1>2, <1>14, <2>1, <2>2, <2>3, <3>1 DEF Shape, Process, Pcs
  <2>4. CASE x.op = "provision" /\ Step(p, [x EXCEPT !.pc = "look", !.second = TRUE,
                                                     !.todo = <<"pem", "key", "meta">>])
    <3>1. proc'[p] = [x EXCEPT !.pc = "look", !.second = TRUE,
                               !.todo = <<"pem", "key", "meta">>]
      BY <1>3, <2>4
    <3>. QED
      BY <1>1, <1>14, <2>1, <2>2, <2>4, <3>1 DEF Shape, Process, Pcs, Todos
  <2>5. CASE Return(p, "ok")
    BY <1>1, <1>14, <2>1, <2>2, <2>5, ReturnShape
  <2>. QED
    BY <1>14, <2>3, <2>4, <2>5 DEF PutFile
<1>15. CASE RotateLooks(p)
  <2>1. x.op \in Rotations /\ x.pc = "look" /\ x.todo # <<>> /\ UNCHANGED <<files, backup>>
        /\ now \in 0..MaxNow
    BY <1>15 DEF RotateLooks, TypeInv
  <2>2. proc'[p] = [x EXCEPT !.pc = "archive", !.at = IF Target(p) = "pem" THEN now ELSE @,
                             !.new = IF Target(p) = "pem" THEN Fresh(p) ELSE @]
    BY <1>3, <1>15 DEF RotateLooks
  <2>3. x.todo \in {<<"pem", "key">>, <<"key">>}
        /\ (x.new = Absent => x.todo = <<"pem", "key">> /\ x.at \in 1..MaxOps)
        /\ (x.new # Absent => x.at \in 0..MaxNow)
    BY <1>1, <2>1 DEF Shape
  <2>4. CASE x.todo = <<"pem", "key">>
    <3>1. Target(p) = "pem" /\ x.new = Absent
      BY <1>1, <2>1, <2>4, TodoHead DEF Shape, Target
    <3>2. proc'[p] = [x EXCEPT !.pc = "archive", !.at = now, !.new = Fresh(p)]
      BY <2>2, <3>1
    <3>3. Fresh(p) \in Credentials /\ Fresh(p) # Absent
      BY <2>3, <3>1, FreshType, Distinct
    <3>4. now \in Nat
      BY <2>1, BoundAssumption
    <3>5. proc'[p] \in Process
      BY <1>1, <3>2, <3>3, <3>4 DEF Process, Pcs
    <3>. QED
      BY <1>1, <2>1, <2>4, <3>2, <3>3, <3>5, TodoHead DEF Shape, Process
  <2>5. CASE x.todo = <<"key">>
    <3>1. Target(p) = "key" /\ x.new # Absent
      BY <2>3, <2>5, TodoHead DEF Target
    <3>2. proc'[p] = [x EXCEPT !.pc = "archive"]
      BY <1>1, <2>2, <3>1 DEF Process
    <3>. QED
      BY <1>1, <2>1, <2>3, <2>5, <3>1, <3>2, TodoHead DEF Shape, Process, Pcs
  <2>. QED
    BY <2>3, <2>4, <2>5
<1>16. CASE RotateArchives(p)
  <2>. DEFINE f == Target(p)
  <2>1. x.op \in Rotations /\ x.pc = "archive" /\ x.todo \in {<<"pem", "key">>, <<"key">>}
        /\ x.new # Absent /\ x.at \in 0..MaxNow /\ UNCHANGED files
    BY <1>1, <1>16 DEF RotateArchives, Shape
  <2>2. f \in {"pem", "key"} /\ Tail(x.todo) \in {<<"key">>, <<>>}
    BY <2>1, TodoHead DEF Target
  <2>3. CASE Return(p, "error") /\ UNCHANGED backup
    BY <1>1, <2>1, <2>3, ReturnShape
  <2>4. CASE backup' = [backup EXCEPT ![x.at][f] = files[f]]
             /\ Step(p, [x EXCEPT !.pc = "look", !.todo = Tail(@)])
    <3>1. proc'[p] = [x EXCEPT !.pc = "look", !.todo = Tail(@)]
      BY <1>3, <2>4
    <3>2. [backup[x.at] EXCEPT ![f] = files[f]] \in [pem : Content, key : Content]
      <4>1. backup[x.at] \in [pem : Content, key : Content] /\ files[f] \in Content
        BY <1>1, <2>1, <2>2 DEF Files
      <4>2. CASE f = "pem" BY <4>1, <4>2
      <4>3. CASE f = "key" BY <4>1, <4>3
      <4>. QED BY <2>2, <4>2, <4>3
    <3>3. backup' = [backup EXCEPT ![x.at] = [backup[x.at] EXCEPT ![f] = files[f]]]
      BY <2>4
    <3>4. backup' \in [0..MaxNow -> [pem : Content, key : Content]]
      BY <1>1, <2>1, <3>2, <3>3
    <3>. QED
      BY <1>1, <2>1, <2>2, <3>1, <3>4 DEF Shape, Process, Pcs, Todos
  <2>. QED
    BY <1>16, <2>3, <2>4 DEF RotateArchives
<1>17. CASE RotateStores(p)
  <2>. DEFINE new == IF x.new = Absent THEN Fresh(p) ELSE x.new
  <2>1. x.op \in Rotations /\ x.pc = "look" /\ UNCHANGED <<files, backup>>
    BY <1>17 DEF RotateStores
  <2>2. new \in Credentials
    BY <1>1, <2>1, FreshType DEF Shape, Process
  <2>. HIDE DEF new
  <2>6. \/ Write(p, <<"pem", "key">>, new)
        \/ /\ files["key"] \notin {Absent, Empty}
           /\ Write(p, <<"pem">>, <<new[1], files["key"][2]>>)
        \/ \E pair \in 1..MaxOps : \E seq \in {<<"pem">>, <<"pem", "key">>} :
                Write(p, seq, <<new[1], pair>>)
    BY <1>17 DEF RotateStores, new
  <2>3. CASE Write(p, <<"pem", "key">>, new)
    BY <1>1, <2>1, <2>2, <2>3, WriteShape DEF Todos
  <2>4. CASE files["key"] \notin {Absent, Empty} /\ Write(p, <<"pem">>, <<new[1], files["key"][2]>>)
    <3>1. files["key"] \in Credentials
      BY <1>1, <2>4, Distinct DEF Files
    <3>2. <<new[1], files["key"][2]>> \in Credentials
      BY <2>2, <3>1 DEF Credentials
    <3>. QED
      BY <1>1, <2>1, <2>4, <3>2, WriteShape DEF Todos
  <2>7. CASE \E pair \in 1..MaxOps : \E seq \in {<<"pem">>, <<"pem", "key">>} :
                Write(p, seq, <<new[1], pair>>)
    <3>1. PICK pair \in 1..MaxOps, seq \in {<<"pem">>, <<"pem", "key">>} :
                Write(p, seq, <<new[1], pair>>)
      BY <2>7
    <3>2. <<new[1], pair>> \in Credentials
      BY <2>2, <3>1 DEF Credentials
    <3>3. seq \in Todos /\ seq # <<>>
      BY <3>1, TodoHead DEF Todos
    <3>. QED
      BY <1>1, <2>1, <3>1, <3>2, <3>3, WriteShape
  <2>. QED
    BY <2>3, <2>4, <2>6, <2>7
<1>18. ASSUME x.op = "delete", x.pc \in {"look", "unlink"}, DeleteNext(p) PROVE Shape(proc'[p])
  <2>1. CASE Len(x.todo) > 1 /\ Step(p, [x EXCEPT !.pc = "look", !.todo = Tail(@)])
    <3>1. proc'[p] = [x EXCEPT !.pc = "look", !.todo = Tail(@)] /\ x.todo # <<>>
      BY <1>1, <1>3, <1>18, <2>1 DEF Shape
    <3>. QED
      BY <1>1, <1>2, <1>18, <2>1, <3>1 DEF Shape, Process, Pcs
  <2>2. CASE Return(p, "ok")
    BY <2>2, ReturnShape
  <2>. QED
    BY <1>18, <2>1, <2>2 DEF DeleteNext
<1>19. CASE DeleteLooks(p)
  <2>1. x.op = "delete" /\ x.pc = "look" /\ x.todo # <<>> /\ UNCHANGED <<files, backup>>
    BY <1>1, <1>19 DEF DeleteLooks, Shape
  <2>2. CASE DeleteNext(p)
    BY <1>1, <1>18, <2>1, <2>2
  <2>3. CASE Step(p, [x EXCEPT !.pc = "unlink"])
    <3>1. proc'[p] = [x EXCEPT !.pc = "unlink"]
      BY <1>3, <2>3
    <3>. QED
      BY <1>1, <2>1, <3>1 DEF Shape, Process, Pcs
  <2>. QED
    BY <1>19, <2>2, <2>3 DEF DeleteLooks
<1>20. CASE Unlink(p)
  <2>1. x.op = "delete" /\ x.pc = "unlink" /\ UNCHANGED backup
    BY <1>1, <1>20 DEF Unlink, Shape
  <2>2. CASE Return(p, "error") /\ UNCHANGED files
    BY <1>1, <2>1, <2>2, ReturnShape
  <2>3. CASE DeleteNext(p) /\ files' = [files EXCEPT ![Target(p)] = Absent]
    <3>1. files' \in [Files -> Content]
      BY <1>1, <2>3 DEF Content
    <3>. QED
      BY <1>1, <1>18, <2>1, <2>3, <3>1
  <2>. QED
    BY <1>20, <2>2, <2>3 DEF Unlink
<1>. QED
  BY <1>4, <1>5, <1>6, <1>7, <1>8, <1>9, <1>10, <1>11, <1>12, <1>13, <1>14, <1>15, <1>16,
     <1>17, <1>19, <1>20 DEF OpStep

LEMMA BeginStep ==
    ASSUME TypeInv, NEW p \in Procs, NEW op \in Ops, Begin(p, op)
    PROVE  /\ Shape(proc'[p]) /\ started' \in 0..MaxOps
           /\ proc'[p].op = op /\ proc'[p].pc = "look" /\ ~proc'[p].second
           /\ proc'[p].result = "none" /\ proc'[p].new = Absent
           /\ proc'[p].todo = IF op \in Rotations THEN <<"pem", "key">> ELSE <<"pem", "key", "meta">>
<1>. DEFINE x == [op |-> op, pc |-> "look",
                  todo |-> IF op \in Rotations THEN <<"pem", "key">> ELSE <<"pem", "key", "meta">>,
                  got |-> NothingRead, new |-> Absent, second |-> FALSE,
                  at |-> started + 1, result |-> "none"]
<1>1. proc'[p] = x
  BY StepFrame DEF Begin, TypeInv
<1>2. started + 1 \in 1..MaxOps /\ started' = started + 1
  BY BoundAssumption DEF Begin, TypeInv
<1>3. op \in AllOps
  BY OpsAssumption
<1>4. Shape(x)
  BY <1>2, <1>3, NothingReadType DEF Shape, Process, Pcs, Todos
<1>. QED
  BY <1>1, <1>2, <1>4

\* Operations change neither what is counted nor the clock, nor another process.
LEMMA OpFrame ==
    ASSUME TypeInv, NEW p \in Procs, OpStep(p)
    PROVE  /\ UNCHANGED <<now, started, crashes>>
           /\ DOMAIN proc' = Procs
           /\ \A q \in Procs \ {p} : proc'[q] = proc[q]
<1>. USE DEF Step, Return, Write
<1>1. DOMAIN proc = Procs
  BY DEF TypeInv
<1>. DEFINE Others == DOMAIN proc' = Procs /\ \A q \in Procs \ {p} : proc'[q] = proc[q]
<1>2. Others
  <2>1. CASE Look(p) \/ LookSkips(p) \/ LookFails(p) \/ Read(p) \/ GetReturns(p)
    BY <1>1, <2>1 DEF Look, LookSkips, LookFails, Read, GetReturns
  <2>2. CASE StartupChecks(p) \/ LocalSignChecks(p) \/ GenerateWrites(p)
    BY <1>1, <2>2 DEF StartupChecks, LocalSignChecks, GenerateWrites
  <2>3. CASE LocalSignReads(p)
    <3>1. Target(p) \in {"pem", "key"}
      BY <2>3, TodoHead DEF LocalSignReads, At, TypeInv, Shape, Target
    <3>. QED
      BY <1>1, <2>3, <3>1 DEF LocalSignReads
  <2>4. CASE OpenFile(p) \/ PutFile(p) \/ RotateLooks(p) \/ RotateArchives(p) \/ RotateStores(p)
    BY <1>1, <2>4 DEF OpenFile, PutFile, RotateLooks, RotateArchives, RotateStores
  <2>5. CASE DeleteLooks(p) \/ Unlink(p)
    BY <1>1, <2>5 DEF DeleteLooks, Unlink, DeleteNext
  <2>. QED
    BY <2>1, <2>2, <2>3, <2>4, <2>5 DEF OpStep
<1>3. UNCHANGED <<now, started, crashes>>
  BY DEF OpStep, Look, LookSkips, LookFails, Read, GetReturns, StartupChecks, LocalSignChecks,
         LocalSignReads, GenerateWrites, OpenFile, PutFile, RotateLooks, RotateArchives,
         RotateStores, DeleteLooks, Unlink
<1>. QED
  BY <1>2, <1>3

LEMMA TypeStep == TypeInv /\ [Next]_vars => TypeInv'
<1>. SUFFICES ASSUME TypeInv, [Next]_vars PROVE TypeInv'
  OBVIOUS
<1>1. ASSUME NEW p \in Procs, NEW x, Step(p, x), Shape(proc'[p])
      PROVE  DOMAIN proc' = Procs /\ \A q \in Procs : Shape(proc'[q])
  BY <1>1, StepFrame DEF TypeInv
<1>2. ASSUME NEW p \in Procs, NEW op \in Ops, Begin(p, op) PROVE TypeInv'
  BY <1>1, <1>2, BeginStep DEF Begin, TypeInv
<1>3. ASSUME NEW p \in Procs, OpStep(p) PROVE TypeInv'
  BY <1>3, TypeOp, OpFrame DEF TypeInv
<1>4. ASSUME NEW p \in Procs, Crash(p) PROVE TypeInv'
  <2>1. proc'[p] = Resting(proc[p].op, "crashed", NothingRead)
    BY <1>4, StepFrame DEF Crash, TypeInv
  <2>2. Shape(proc'[p])
    <3>1. proc[p].op \in AllOps \cup {"none"}
      BY DEF TypeInv, Shape, Process
    <3>. QED
      BY <2>1, <3>1, RestingShape, NothingReadType
  <2>3. crashes' \in 0..MaxCrashes
    BY <1>4, BoundAssumption DEF Crash, TypeInv
  <2>. QED
    BY <1>1, <1>4, <2>2, <2>3 DEF Crash, TypeInv
<1>5. CASE Tick
  BY <1>5, BoundAssumption DEF Tick, TypeInv
<1>6. CASE UNCHANGED vars
  BY <1>6 DEF vars, TypeInv
<1>. QED
  BY <1>2, <1>3, <1>4, <1>5, <1>6 DEF Next

\* TypeOK: contents of the files and backups, and a file to go to for every
\* process between two calls.
THEOREM TypeCorrect == Spec => []TypeOK
<1>1. TypeInv => TypeOK
  <2>. SUFFICES ASSUME TypeInv, NEW p \in Procs
                PROVE  /\ proc[p].op \in AllOps \cup {"none"}
                       /\ proc[p].pc \in Pcs
                       /\ proc[p].got \in [pem : Content, key : Content]
                       /\ proc[p].new \in Credentials \cup {Absent}
                       /\ proc[p].result \in {"none", "ok", "missing", "error", "crashed"}
                       /\ proc[p].pc \notin {"idle", "look"} => proc[p].todo # <<>>
                       /\ proc[p].pc \in {"open", "put"} => proc[p].new \in Credentials
    BY DEF TypeInv, TypeOK
  <2>1. Shape(proc[p]) /\ proc[p] \in Process
    BY DEF TypeInv, Shape
  <2>2. proc[p].pc \notin {"idle", "look"} => proc[p].todo # <<>>
    BY <2>1, TodoHead DEF Shape, Process, Pcs
  <2>. QED
    BY <2>1, <2>2 DEF Shape, Process
<1>. QED
  BY <1>1, TypeInit, TypeStep, PTL DEF Spec

-----------------------------------------------------------------------------
(***************************************************************************)
(* Where nobody deletes: a file that is absent or half written is one some *)
(* process has yet to write, unless a process died or the certificate came *)
(* without its key.  Rotations are included, with any number of processes  *)
(* and two in the same second.                                             *)
(***************************************************************************)
\* The todos that still hold file f.
Holding(f) ==
    IF f = "pem" THEN {<<"pem">>, <<"pem", "key">>, <<"pem", "key", "meta">>}
                 ELSE {<<"key">>, <<"pem", "key">>, <<"key", "meta">>, <<"pem", "key", "meta">>}

WritingPc == {"open", "put"}
Pending(p, f) == proc[p].pc \in WritingPc /\ proc[p].todo \in Holding(f)

\* A rotation that was given a certificate of another pair and no key.
Keyless(x) == x.todo = <<"pem">> /\ x.new[1] # x.new[2]

WriteInv(p) ==
    /\ proc[p].op # "delete"
    /\ proc[p].pc = "put" => files[Target(p)] # Absent
    /\ \A f \in {"pem", "key"} :
        proc[p].pc \in WritingPc /\ ~Pending(p, f) =>
            files[f] # Absent \/ (f = "key" /\ Keyless(proc[p]))
    /\ proc[p].second => files["pem"] # Absent

PairInv ==
    crashes = 0 =>
        /\ \A f \in {"pem", "key"} : files[f] = Empty => \E p \in Procs : Pending(p, f)
        /\ files["pem"] \notin {Absent, Empty} /\ files["key"] = Absent =>
            (\E p \in Procs : Pending(p, "key")) \/ files["pem"][1] # files["pem"][2]
        /\ files["key"] # Absent => files["pem"] # Absent

FilesInv == (\A p \in Procs : WriteInv(p)) /\ PairInv

\* Writing a file takes exactly that file off what is to be written.
LEMMA HoldingTail ==
    ASSUME NEW t \in Todos, t # <<>>, NEW f \in {"pem", "key"}
    PROVE  /\ Head(t) = f => t \in Holding(f) /\ Tail(t) \notin Holding(f)
           /\ Head(t) # f => (Tail(t) \in Holding(f) <=> t \in Holding(f))
           /\ Head(t) = "key" => t \notin Holding("pem")
           /\ Tail(t) \in Holding(f) => Len(t) > 1
<1>1. ASSUME NEW g \in Files, t = <<g>>
      PROVE  Head(t) = g /\ Tail(t) = <<>> /\ (t \in Holding(f) <=> f = g)
             /\ (g = "key" => t \notin Holding("pem"))
  BY <1>1 DEF Holding, Files
<1>2. CASE t = <<"pem", "key">>
  BY <1>2 DEF Holding
<1>3. CASE t = <<"key", "meta">>
  BY <1>3 DEF Holding
<1>4. CASE t = <<"pem", "key", "meta">>
  BY <1>4 DEF Holding
<1>5. CASE t \in {<<"pem">>, <<"key">>, <<"meta">>}
  <2>1. <<>> \notin Holding(f)
    BY DEF Holding
  <2>. QED
    BY <1>1, <1>5, <2>1 DEF Files
<1>. QED
  BY <1>2, <1>3, <1>4, <1>5 DEF Todos

\* What an operation that does not delete does to the files and to its todo:
\* nothing; it begins to write; it opens a file; it writes one and has more to
\* write, or is through.
Calm(p) ==
    /\ UNCHANGED files
    /\ proc[p].pc \notin WritingPc /\ proc'[p].pc \notin WritingPc
Begins(p) ==
    /\ UNCHANGED files
    /\ proc[p].pc \notin WritingPc /\ proc'[p].pc = "open"
    /\ \/ proc'[p].todo \in Holding("pem") \cap Holding("key")
       \/ proc'[p].todo = <<"pem">> /\ (files["key"] # Absent \/ Keyless(proc'[p]))
Opens(p) ==
    /\ files' = [files EXCEPT ![Target(p)] = Empty]
    /\ proc[p].pc = "open" /\ proc'[p].pc = "put" /\ proc'[p].todo = proc[p].todo
    /\ proc'[p].new = proc[p].new
Puts(p) ==
    /\ files' = [files EXCEPT ![Target(p)] = Piece(p)]
    /\ proc[p].pc = "put"
    /\ \/ proc'[p].pc = "open" /\ proc'[p].todo = Tail(proc[p].todo) /\ Len(proc[p].todo) > 1
       \/ proc'[p].pc \notin WritingPc /\ ~(Len(proc[p].todo) > 1)

\* Its name never changes, and it looks a second time only once the certificate
\* is there.
Keeps(p) ==
    /\ proc'[p].op = proc[p].op
    /\ proc'[p].second => proc[p].second \/ (Puts(p) /\ proc'[p].pc \notin WritingPc)

LEMMA OpEffect ==
    ASSUME TypeInv, NEW p \in Procs, WriteInv(p), OpStep(p)
    PROVE  Keeps(p) /\ (Calm(p) \/ Begins(p) \/ Opens(p) \/ Puts(p))
<1>. DEFINE x == proc[p]
<1>1. x \in Process /\ Shape(x) /\ DOMAIN proc = Procs /\ x.op # "delete"
  BY DEF TypeInv, Shape, WriteInv
<1>2. ASSUME NEW y, Step(p, y) PROVE proc'[p] = y
  BY <1>1, <1>2, StepFrame
<1>3. ASSUME NEW r \in {"ok", "missing", "error"}, Return(p, r)
      PROVE  Keeps(p) /\ proc'[p].pc = "idle"
  <2>1. proc'[p] = Resting(x.op, r, x.got)
    BY <1>2, <1>3 DEF Return
  <2>. QED
    BY <1>3, <2>1 DEF Keeps, Resting
<1>4. ASSUME NEW t \in {<<"pem">>, <<"pem", "key">>, <<"pem", "key", "meta">>}, NEW new,
             Write(p, t, new), t = <<"pem">> => files["key"] # Absent \/ new[1] # new[2],
             UNCHANGED files, x.pc \notin WritingPc
      PROVE  Keeps(p) /\ Begins(p)
  <2>1. proc'[p] = [x EXCEPT !.pc = "open", !.todo = t, !.new = new]
    BY <1>2, <1>4 DEF Write
  <2>2. proc'[p].op = x.op /\ proc'[p].second = x.second /\ proc'[p].result = x.result
        /\ proc'[p].pc = "open" /\ proc'[p].todo = t /\ proc'[p].new = new
    BY <1>1, <2>1 DEF Process
  <2>. QED
    BY <1>1, <1>4, <2>2 DEF Keeps, Begins, Holding, Keyless
<1>5. ASSUME NEW pc \in {"look", "read", "load", "archive"}, proc'[p].pc = pc, proc'[p].op = x.op,
             proc'[p].second = x.second, proc'[p].result = x.result,
             UNCHANGED files, x.pc \notin WritingPc
      PROVE  Keeps(p) /\ Calm(p)
  BY <1>1, <1>5 DEF Keeps, Calm, WritingPc
<1>. USE DEF At
<1>6. CASE Look(p) \/ LookSkips(p) \/ GetReturns(p)
  <2>1. CASE Look(p)
    <3>1. proc'[p] = [x EXCEPT !.pc = "read"]
      BY <1>2, <2>1 DEF Look
    <3>. QED
      BY <1>1, <1>5, <2>1, <3>1 DEF Look, Process, WritingPc
  <2>2. CASE LookSkips(p)
    <3>1. proc'[p] = [x EXCEPT !.todo = Tail(@)]
      BY <1>2, <2>2 DEF LookSkips
    <3>. QED
      BY <1>1, <1>5, <2>2, <3>1 DEF LookSkips, Process, WritingPc
  <2>3. CASE GetReturns(p)
    BY <1>3, <2>3 DEF GetReturns, Calm, WritingPc
  <2>. QED
    BY <1>6, <2>1, <2>2, <2>3
<1>7. CASE LookFails(p)
  <2>1. x.pc = "look" /\ files["pem"] = Absent /\ UNCHANGED files /\ ~x.second
    BY <1>7 DEF LookFails, WriteInv
  <2>2. CASE x.op = "provision"
    <3>1. Write(p, <<"pem", "key", "meta">>, Fresh(p))
      BY <1>7, <2>1, <2>2 DEF LookFails
    <3>. QED
      BY <1>4, <2>1, <3>1, TodoHead DEF WritingPc
  <2>3. CASE x.op # "provision"
    BY <1>3, <1>7, <2>1, <2>3 DEF LookFails, Calm, WritingPc
  <2>. QED
    BY <2>2, <2>3
<1>8. CASE Read(p)
  <2>1. x.pc = "read" /\ UNCHANGED files
    BY <1>8 DEF Read
  <2>2. CASE Return(p, "error")
    BY <1>3, <2>1, <2>2 DEF Calm, WritingPc
  <2>3. ASSUME NEW got, Step(p, [x EXCEPT !.pc = "look", !.todo = Tail(@), !.got = got])
        PROVE  Keeps(p) /\ Calm(p)
    <3>1. proc'[p] = [x EXCEPT !.pc = "look", !.todo = Tail(@), !.got = got]
      BY <1>2, <2>3
    <3>. QED
      BY <1>1, <1>5, <2>1, <3>1 DEF Process, WritingPc
  <2>. QED
    BY <1>8, <2>2, <2>3 DEF Read
<1>9. CASE StartupChecks(p) \/ GenerateWrites(p)
  <2>1. x.pc = "look" /\ UNCHANGED files
    BY <1>9 DEF StartupChecks, GenerateWrites
  <2>2. CASE Write(p, <<"pem", "key">>, Fresh(p))
    BY <1>4, <2>1, <2>2, TodoHead DEF WritingPc
  <2>3. CASE Return(p, "ok")
    BY <1>3, <2>1, <2>3 DEF Calm, WritingPc
  <2>. QED
    BY <1>9, <2>2, <2>3 DEF StartupChecks, GenerateWrites
<1>10. CASE LocalSignChecks(p)
  <2>1. x.pc = "look" /\ UNCHANGED files
    BY <1>10 DEF LocalSignChecks
  <2>2. CASE Write(p, <<"pem", "key">>, Fresh(p))
    BY <1>4, <2>1, <2>2, TodoHead DEF WritingPc
  <2>3. CASE Step(p, [x EXCEPT !.pc = "load", !.todo = <<"pem", "key">>])
    <3>1. proc'[p] = [x EXCEPT !.pc = "load", !.todo = <<"pem", "key">>]
      BY <1>2, <2>3
    <3>. QED
      BY <1>1, <1>5, <2>1, <3>1 DEF Process, WritingPc
  <2>. QED
    BY <1>10, <2>2, <2>3 DEF LocalSignChecks
<1>11. CASE LocalSignReads(p)
  <2>1. x.pc = "load" /\ UNCHANGED files /\ Target(p) \in {"pem", "key"}
    BY <1>1, <1>11, TodoHead DEF LocalSignReads, Shape, Target
  <2>2. CASE Return(p, "error")
    BY <1>3, <2>1, <2>2 DEF Calm, WritingPc
  <2>3. ASSUME NEW got, Step(p, [x EXCEPT !.todo = Tail(@), !.got = got])
        PROVE  Keeps(p) /\ Calm(p)
    <3>1. proc'[p] = [x EXCEPT !.todo = Tail(@), !.got = got]
      BY <1>2, <2>3
    <3>. QED
      BY <1>1, <1>5, <2>1, <3>1 DEF Process, WritingPc
  <2>4. ASSUME NEW r \in {"ok", "error"}, NEW got, Step(p, Resting("local sign", r, got)),
               x.op = "local sign"
        PROVE  Keeps(p) /\ Calm(p)
    <3>1. proc'[p] = Resting("local sign", r, got)
      BY <1>2, <2>4
    <3>2. proc'[p].op = "local sign" /\ proc'[p].second = FALSE /\ proc'[p].pc = "idle"
      <4>1. ASSUME NEW y, y = Resting("local sign", r, got)
            PROVE  y.op = "local sign" /\ y.second = FALSE /\ y.pc = "idle"
        BY <4>1 DEF Resting
      <4>. QED
        BY <3>1, <4>1
    <3>. QED
      BY <2>1, <2>4, <3>2 DEF Keeps, Calm, WritingPc
  <2>5. x.op = "local sign"
    BY <1>1, <2>1 DEF Shape
  <2>. QED
    BY <1>11, <2>1, <2>2, <2>3, <2>4, <2>5 DEF LocalSignReads
<1>12. CASE OpenFile(p)
  <2>1. proc'[p] = [x EXCEPT !.pc = "put"] /\ x.pc = "open"
    BY <1>2, <1>12 DEF OpenFile
  <2>. QED
    BY <1>1, <1>12, <2>1 DEF OpenFile, Keeps, Opens, Process
<1>13. CASE PutFile(p)
  <2>1. x.pc = "put" /\ files' = [files EXCEPT ![Target(p)] = Piece(p)]
    BY <1>13 DEF PutFile
  <2>2. CASE Len(x.todo) > 1 /\ Step(p, [x EXCEPT !.pc = "open", !.todo = Tail(@)])
    <3>1. proc'[p] = [x EXCEPT !.pc = "open", !.todo = Tail(@)]
      BY <1>2, <2>2
    <3>. QED
      BY <1>1, <2>1, <2>2, <3>1 DEF Keeps, Puts, Process
  <2>3. CASE ~(Len(x.todo) > 1) /\ Step(p, [x EXCEPT !.pc = "look", !.second = TRUE,
                                                     !.todo = <<"pem", "key", "meta">>])
    <3>1. proc'[p] = [x EXCEPT !.pc = "look", !.second = TRUE, !.todo = <<"pem", "key", "meta">>]
      BY <1>2, <2>3
    <3>. QED
      BY <1>1, <2>1, <2>3, <3>1 DEF Keeps, Puts, Process, WritingPc
  <2>4. CASE ~(Len(x.todo) > 1) /\ Return(p, "ok")
    BY <1>3, <2>1, <2>4 DEF Puts, WritingPc
  <2>. QED
    BY <1>13, <2>2, <2>3, <2>4 DEF PutFile
<1>14. CASE RotateLooks(p)
  <2>1. PICK at, new : proc'[p] = [x EXCEPT !.pc = "archive", !.at = at, !.new = new]
    BY <1>2, <1>14 DEF RotateLooks
  <2>. QED
    BY <1>1, <1>5, <1>14, <2>1 DEF RotateLooks, Process, WritingPc
<1>15. CASE RotateArchives(p)
  <2>1. x.pc = "archive" /\ UNCHANGED files
    BY <1>15 DEF RotateArchives
  <2>2. CASE Return(p, "error")
    BY <1>3, <2>1, <2>2 DEF Calm, WritingPc
  <2>3. CASE Step(p, [x EXCEPT !.pc = "look", !.todo = Tail(@)])
    <3>1. proc'[p] = [x EXCEPT !.pc = "look", !.todo = Tail(@)]
      BY <1>2, <2>3
    <3>. QED
      BY <1>1, <1>5, <2>1, <3>1 DEF Process, WritingPc
  <2>. QED
    BY <1>15, <2>2, <2>3 DEF RotateArchives
<1>16. CASE RotateStores(p)
  <2>1. x.pc = "look" /\ UNCHANGED files
    BY <1>16 DEF RotateStores
  <2>2. \/ \E new : Write(p, <<"pem", "key">>, new)
        \/ files["key"] # Absent /\ \E new : Write(p, <<"pem">>, new)
        \/ \E new : new[1] # new[2] /\ Write(p, <<"pem">>, new)
    BY <1>1, <1>16 DEF RotateStores
  <2>. QED
    BY <1>4, <2>1, <2>2, TodoHead DEF WritingPc
<1>17. CASE DeleteLooks(p) \/ Unlink(p)
  BY <1>1, <1>17 DEF DeleteLooks, Unlink, Shape
<1>. QED
  BY <1>6, <1>7, <1>8, <1>9, <1>10, <1>11, <1>12, <1>13, <1>14, <1>15, <1>16, <1>17 DEF OpStep

LEMMA FilesInit == Init => FilesInv
<1>. SUFFICES ASSUME Init PROVE FilesInv
  OBVIOUS
<1>1. \A f \in Files : files[f] = Absent
  BY DEF Init
<1>2. ASSUME NEW p \in Procs PROVE WriteInv(p)
  <2>1. proc[p] = Resting("none", "none", NothingRead)
    BY DEF Init
  <2>2. proc[p].op = "none" /\ proc[p].pc = "idle" /\ proc[p].second = FALSE
    BY <2>1 DEF Resting
  <2>. QED
    BY <2>2 DEF WriteInv, WritingPc
<1>. QED
  BY <1>1, <1>2, Distinct DEF FilesInv, PairInv, Files

\* A file that is there stays there.
LEMMA FilesStay ==
    ASSUME TypeInv, NEW p \in Procs, WriteInv(p), OpStep(p), NEW f \in Files, files[f] # Absent
    PROVE  files'[f] # Absent
<1>1. CASE Opens(p)
  BY <1>1, Distinct DEF Opens, TypeInv
<1>2. CASE Puts(p)
  <2>1. Piece(p) # Absent
    BY <1>2, Distinct, PieceType DEF Puts, TypeInv, Shape
  <2>. QED
    BY <1>2, <2>1 DEF Puts, TypeInv
<1>. QED
  BY <1>1, <1>2, OpEffect DEF Calm, Begins

\* The process that steps keeps its own invariant.
LEMMA WriteStep ==
    ASSUME TypeInv, NEW p \in Procs, WriteInv(p), OpStep(p)
    PROVE  WriteInv(p)'
<1>. DEFINE x == proc[p]
            t == x.todo
<1>1. Keeps(p) /\ Shape(x) /\ t \in Todos /\ files \in [Files -> Content]
  BY OpEffect DEF TypeInv, Shape, Process
<1>2. \A f \in Files : files[f] # Absent => files'[f] # Absent
  BY FilesStay
<1>3. "pem" \in Files /\ "key" \in Files
  BY DEF Files
<1>4. proc'[p].op # "delete"
  BY <1>1 DEF Keeps, WriteInv
<1>5. ASSUME x.pc \in WritingPc
      PROVE  t # <<>> /\ Target(p) \in Files /\ Piece(p) # Absent /\ Piece(p) # Empty
  BY <1>1, <1>5, Distinct, PieceType, TodoType DEF Shape, WritingPc, Target
<1>6. proc'[p].second => files'["pem"] # Absent
  <2>1. CASE Puts(p)
    <3>1. x.pc \in WritingPc /\ x.pc = "put"
      BY <2>1 DEF Puts, WritingPc
    <3>2. CASE Target(p) = "pem"
      BY <1>1, <1>3, <1>5, <2>1, <3>1, <3>2 DEF Puts
    <3>3. CASE Target(p) # "pem" /\ ~Pending(p, "pem")
      BY <1>2, <1>3, <3>1, <3>3 DEF WriteInv
    <3>4. CASE Target(p) # "pem" /\ Pending(p, "pem")
      <4>1. Len(t) > 1
        BY <1>1, <1>5, <3>1, <3>4, HoldingTail DEF Pending, Target
      <4>2. proc'[p].second => x.second
        BY <1>1, <2>1, <4>1 DEF Keeps, Puts, WritingPc
      <4>. QED
        BY <1>2, <1>3, <4>2 DEF WriteInv
    <3>. QED
      BY <3>2, <3>3, <3>4
  <2>. QED
    BY <1>1, <1>2, <1>3, <2>1 DEF Keeps, WriteInv
<1>7. proc'[p].pc = "put" => files'[Target(p)'] # Absent
  <2>1. CASE Opens(p)
    <3>1. Target(p)' = Target(p) /\ x.pc \in WritingPc
      BY <2>1 DEF Opens, Target, WritingPc
    <3>. QED
      BY <1>1, <1>5, <2>1, <3>1, Distinct DEF Opens
  <2>2. CASE Calm(p) \/ Begins(p) \/ Puts(p)
    BY <2>2 DEF Calm, Begins, Puts, WritingPc
  <2>. QED
    BY <2>1, <2>2, OpEffect
<1>8. ASSUME NEW f \in {"pem", "key"}, proc'[p].pc \in WritingPc, ~Pending(p, f)'
      PROVE  files'[f] # Absent \/ (f = "key" /\ Keyless(proc'[p]))
  <2>0. f \in Files /\ proc'[p].todo \notin Holding(f)
    BY <1>3, <1>8 DEF Pending
  <2>1. CASE Begins(p)
    <3>1. f = "key" /\ (files["key"] # Absent \/ Keyless(proc'[p]))
      BY <1>8, <2>0, <2>1 DEF Begins, Holding
    <3>. QED
      BY <1>2, <2>0, <3>1
  <2>2. CASE Opens(p)
    BY <1>2, <2>0, <2>2 DEF Opens, Pending, WriteInv, WritingPc, Keyless
  <2>3. CASE Puts(p)
    <3>1. x.pc \in WritingPc /\ proc'[p].todo = Tail(t) /\ ~Keyless(x)
      BY <1>8, <2>3 DEF Puts, WritingPc, Keyless
    <3>2. CASE Target(p) = f
      BY <1>1, <1>5, <2>0, <2>3, <3>1, <3>2 DEF Puts
    <3>3. CASE Target(p) # f
      <4>1. ~Pending(p, f)
        BY <1>1, <1>5, <2>0, <3>1, <3>3, HoldingTail DEF Pending, Target
      <4>. QED
        BY <1>2, <2>0, <3>1, <4>1 DEF WriteInv
    <3>. QED
      BY <3>2, <3>3
  <2>. QED
    BY <1>8, <2>1, <2>2, <2>3, OpEffect DEF Calm
<1>. QED
  BY <1>4, <1>6, <1>7, <1>8 DEF WriteInv

\* What the step does to the pair.
LEMMA PairStep ==
    ASSUME TypeInv, FilesInv, NEW p \in Procs, OpStep(p)
    PROVE  PairInv'
<1>. DEFINE x == proc[p]
            t == x.todo
<1>1. t \in Todos /\ files \in [Files -> Content] /\ WriteInv(p) /\ Shape(x)
  BY DEF TypeInv, Shape, Process, FilesInv
<1>2. "pem" \in Files /\ "key" \in Files /\ "pem" # "key"
  BY DEF Files
<1>3. \A f \in Files : files[f] # Absent => files'[f] # Absent
  BY <1>1, FilesStay
<1>4. ASSUME x.pc \in WritingPc
      PROVE  t # <<>> /\ Target(p) \in Files /\ Piece(p) # Absent /\ Piece(p) # Empty
  BY <1>1, <1>4, Distinct, PieceType, TodoType DEF Shape, WritingPc, Target
<1>5. crashes' = crashes /\ \A q \in Procs \ {p} : proc'[q] = proc[q]
  BY OpFrame
<1>. SUFFICES ASSUME crashes = 0
              PROVE  /\ \A f \in {"pem", "key"} : files'[f] = Empty => \E q \in Procs : Pending(q, f)'
                     /\ files'["pem"] \notin {Absent, Empty} /\ files'["key"] = Absent =>
                            \/ \E q \in Procs : Pending(q, "key")'
                            \/ files'["pem"][1] # files'["pem"][2]
                     /\ files'["key"] # Absent => files'["pem"] # Absent
  BY <1>5 DEF PairInv
<1>6. /\ \A f \in {"pem", "key"} : files[f] = Empty => \E q \in Procs : Pending(q, f)
      /\ files["pem"] \notin {Absent, Empty} /\ files["key"] = Absent =>
            (\E q \in Procs : Pending(q, "key")) \/ files["pem"][1] # files["pem"][2]
      /\ files["key"] # Absent => files["pem"] # Absent
  BY DEF FilesInv, PairInv
<1>7. ASSUME NEW f \in {"pem", "key"}, NEW q \in Procs, Pending(q, f), ~(Puts(p) /\ Target(p) = f)
      PROVE  \E r \in Procs : Pending(r, f)'
  <2>1. CASE q # p
    BY <1>5, <1>7, <2>1 DEF Pending
  <2>2. CASE q = p /\ Opens(p)
    BY <1>7, <2>2 DEF Pending, Opens, WritingPc
  <2>3. CASE q = p /\ Puts(p)
    <3>1. Tail(t) \in Holding(f) /\ Len(t) > 1
      BY <1>1, <1>4, <1>7, <2>3, HoldingTail DEF Pending, Target
    <3>2. proc'[p].todo = Tail(t) /\ proc'[p].pc = "open"
      BY <2>3, <3>1 DEF Puts
    <3>. QED
      BY <3>1, <3>2 DEF Pending, WritingPc
  <2>. QED
    BY <1>1, <1>7, <2>1, <2>2, <2>3, OpEffect DEF Calm, Begins, Pending
<1>8. CASE Calm(p) \/ Begins(p)
  BY <1>6, <1>7, <1>8 DEF Calm, Begins, Puts, WritingPc
<1>9. CASE Opens(p) \/ Puts(p)
  <2>. DEFINE f == Target(p)
  <2>1. x.pc \in WritingPc /\ f \in Files /\ t # <<>> /\ f = Head(t)
    BY <1>4, <1>9 DEF Opens, Puts, WritingPc, Target
  <2>2. PICK c : files' = [files EXCEPT ![f] = c] /\ c # Absent
                 /\ (c = Empty => Opens(p))
    BY <1>4, <1>9, <2>1, Distinct DEF Opens, Puts
  <2>3. \A g \in Files : files'[g] = IF g = f THEN c ELSE files[g]
    BY <1>1, <2>2
  <2>4. f \in {"pem", "key"} => t \in Holding(f)
    BY <1>1, <2>1, HoldingTail
  <2>5. \A g \in {"pem", "key"} : files'[g] = Empty => \E q \in Procs : Pending(q, g)'
    <3>. SUFFICES ASSUME NEW g \in {"pem", "key"}, files'[g] = Empty
                  PROVE  \E q \in Procs : Pending(q, g)'
      OBVIOUS
    <3>1. CASE g = f
      <4>1. Opens(p) /\ Pending(p, g)
        BY <1>2, <2>1, <2>2, <2>3, <2>4, <3>1 DEF Pending
      <4>. QED
        BY <1>7, <4>1 DEF Opens, Puts
    <3>2. CASE g # f
      BY <1>2, <1>6, <1>7, <2>3, <3>2
    <3>. QED
      BY <3>1, <3>2
  <2>6. ASSUME files'["pem"] \notin {Absent, Empty}, files'["key"] = Absent
        PROVE  (\E q \in Procs : Pending(q, "key")') \/ files'["pem"][1] # files'["pem"][2]
    <3>1. files["key"] = Absent /\ f # "key"
      BY <1>2, <2>2, <2>3, <2>6
    <3>2. CASE Pending(p, "key")
      BY <1>7, <3>1, <3>2
    <3>3. CASE ~Pending(p, "key")
      <4>1. Keyless(x) /\ f = "pem"
        BY <1>1, <2>1, <3>1, <3>3 DEF WriteInv, Keyless
      <4>2. files'["pem"] = Piece(p)
        BY <1>1, <1>2, <1>9, <2>3, <2>6, <4>1 DEF Opens, Puts
      <4>. QED
        BY <4>1, <4>2 DEF Keyless, Piece
    <3>. QED
      BY <3>2, <3>3
  <2>7. files'["key"] # Absent => files'["pem"] # Absent
    <3>1. CASE f = "key"
      <4>1. ~Pending(p, "pem")
        BY <1>1, <2>1, <3>1, HoldingTail DEF Pending
      <4>. QED
        BY <1>1, <1>2, <1>3, <2>1, <4>1 DEF WriteInv
    <3>2. CASE f # "key"
      BY <1>2, <1>3, <1>6, <2>3, <3>2
    <3>. QED
      BY <3>1, <3>2
  <2>. QED
    BY <2>5, <2>6, <2>7
<1>. QED
  BY <1>1, <1>8, <1>9, OpEffect

LEMMA FilesStep ==
    ASSUME "delete" \notin Ops
    PROVE  TypeInv /\ FilesInv /\ [Next]_vars => FilesInv'
<1>. SUFFICES ASSUME TypeInv, FilesInv, [Next]_vars PROVE FilesInv'
  OBVIOUS
<1>1. ASSUME NEW p \in Procs, NEW op \in Ops, Begin(p, op) PROVE FilesInv'
  <2>1. proc'[p].op = op /\ proc'[p].pc = "look" /\ ~proc'[p].second /\ proc'[p].result = "none"
        /\ proc[p].pc = "idle" /\ UNCHANGED <<files, crashes>>
    BY <1>1, BeginStep DEF Begin
  <2>2. \A q \in Procs \ {p} : proc'[q] = proc[q]
    BY <1>1, StepFrame DEF Begin, TypeInv
  <2>3. WriteInv(p)'
    BY <2>1 DEF WriteInv, Pending, WritingPc
  <2>4. \A q \in Procs \ {p} : WriteInv(q)'
    BY <2>1, <2>2 DEF WriteInv, Pending, FilesInv, Target
  <2>5. \A q \in Procs, f \in {"pem", "key"} : Pending(q, f)' = Pending(q, f)
    BY <2>1, <2>2 DEF Pending, WritingPc
  <2>. QED
    BY <2>1, <2>3, <2>4, <2>5 DEF FilesInv, PairInv
<1>2. ASSUME NEW p \in Procs, OpStep(p) PROVE FilesInv'
  <2>1. WriteInv(p) /\ WriteInv(p)' /\ PairInv'
    BY <1>2, WriteStep, PairStep DEF FilesInv
  <2>2. \A f \in Files : files[f] # Absent => files'[f] # Absent
    BY <1>2, <2>1, FilesStay
  <2>3. ASSUME NEW q \in Procs \ {p} PROVE WriteInv(q)'
    <3>1. proc'[q] = proc[q] /\ WriteInv(q) /\ Shape(proc[q])
      BY <1>2, OpFrame DEF FilesInv, TypeInv
    <3>2. proc[q].pc = "put" => Target(q) \in Files /\ Target(q)' = Target(q)
      BY <3>1, TodoType DEF Shape, Target, Process
    <3>3. "pem" \in Files /\ "key" \in Files
      BY DEF Files
    <3>4. \A f \in {"pem", "key"} : Pending(q, f)' = Pending(q, f)
      BY <3>1 DEF Pending
    <3>. QED
      BY <2>2, <3>1, <3>2, <3>3, <3>4 DEF WriteInv
  <2>. QED
    BY <2>1, <2>3 DEF FilesInv
<1>3. ASSUME NEW p \in Procs, Crash(p) PROVE FilesInv'
  <2>1. proc'[p] = Resting(proc[p].op, "crashed", NothingRead) /\ UNCHANGED files
        /\ \A q \in Procs \ {p} : proc'[q] = proc[q]
    BY <1>3, StepFrame DEF Crash, TypeInv
  <2>2. crashes' # 0
    BY <1>3, BoundAssumption DEF Crash, TypeInv
  <2>3. WriteInv(p)'
    BY <2>1 DEF WriteInv, Pending, WritingPc, Resting, FilesInv
  <2>4. \A q \in Procs \ {p} : WriteInv(q)'
    BY <2>1 DEF WriteInv, Pending, FilesInv, Target
  <2>. QED
    BY <2>2, <2>3, <2>4 DEF FilesInv, PairInv
<1>4. CASE Tick \/ UNCHANGED vars
  BY <1>4 DEF Tick, vars, FilesInv, WriteInv, PairInv, Pending, Target
<1>. QED
  BY <1>1, <1>2, <1>3, <1>4 DEF Next

LEMMA FilesCorrect ==
    ASSUME "delete" \notin Ops
    PROVE  Spec => [](TypeInv /\ FilesInv)
<1>1. TypeInv /\ FilesInv /\ [Next]_vars => (TypeInv /\ FilesInv)'
  BY TypeStep, FilesStep
<1>2. Init => TypeInv /\ FilesInv
  BY TypeInit, FilesInit
<1>. QED
  BY <1>1, <1>2, PTL DEF Spec

\* CompleteWhenQuiet: where nobody deletes, certificate and key are both there and
\* written in full, or both absent, or there is only a certificate that a rotation
\* was given without its key, once the operations of any number of processes are
\* over and none of them died.
THEOREM PairComplete ==
    ASSUME "delete" \notin Ops
    PROVE  Spec => []CompleteWhenQuiet
<1>1. TypeInv /\ FilesInv => CompleteWhenQuiet
  <2>. SUFFICES ASSUME TypeInv, FilesInv, Quiet, crashes = 0
                PROVE  \/ \A f \in {"pem", "key"} : files[f] \in Credentials
                       \/ \A f \in {"pem", "key"} : files[f] = Absent
                       \/ /\ files["pem"] \in Credentials /\ files["key"] = Absent
                          /\ files["pem"][1] # files["pem"][2]
    BY DEF CompleteWhenQuiet
  <2>1. \A p \in Procs, f \in {"pem", "key"} : ~Pending(p, f)
    BY DEF Quiet, Pending, WritingPc
  <2>2. \A f \in {"pem", "key"} : files[f] # Empty /\ files[f] \in Content
    BY <2>1 DEF FilesInv, PairInv, TypeInv, Files
  <2>3. /\ files["pem"] # Absent /\ files["key"] = Absent => files["pem"][1] # files["pem"][2]
        /\ files["key"] # Absent => files["pem"] # Absent
    BY <2>1, <2>2 DEF FilesInv, PairInv
  <2>4. \A f \in {"pem", "key"} : files[f] = Absent \/ files[f] \in Credentials
    BY <2>2 DEF Content
  <2>. QED
    BY <2>3, <2>4
<1>. QED
  BY <1>1, FilesCorrect, PTL

-----------------------------------------------------------------------------
(***************************************************************************)
(* Damage: an operation that steps adds no torn file, and a process that   *)
(* dies adds the one it had open.                                          *)
(***************************************************************************)
LEMMA TornStep ==
    ASSUME TypeInv, NEW p \in Procs, OpStep(p)
    PROVE  Torn' \subseteq Torn
<1>. DEFINE x == proc[p]
<1>1. files \in [Files -> Content] /\ Shape(x) /\ DOMAIN proc = Procs
      /\ \A q \in Procs \ {p} : proc'[q] = proc[q]
  BY OpFrame DEF TypeInv
<1>2. ASSUME NEW f \in Torn' PROVE f \in Torn
  <2>1. f \in Files /\ files'[f] = Empty
        /\ \A q \in Procs : ~(proc'[q].pc = "put" /\ Head(proc'[q].todo) = f)
    BY <1>2 DEF Torn, At, Target
  <2>2. \A q \in Procs \ {p} : ~(At(q, "put") /\ Target(q) = f)
    BY <1>1, <2>1 DEF At, Target
  <2>3. CASE OpenFile(p)
    <3>1. proc'[p] = [x EXCEPT !.pc = "put"] /\ x.pc = "open"
      BY <1>1, <2>3, StepFrame DEF OpenFile, At
    <3>2. proc'[p].pc = "put" /\ proc'[p].todo = x.todo
      BY <1>1, <3>1 DEF Shape, Process
    <3>3. Target(p) # f
      BY <2>1, <3>2 DEF Target
    <3>4. files[f] = Empty
      BY <1>1, <2>1, <2>3, <3>3 DEF OpenFile
    <3>. QED
      BY <2>1, <2>2, <3>1, <3>4 DEF Torn, At
  <2>4. CASE PutFile(p)
    <3>1. x.new \in Credentials /\ files' = [files EXCEPT ![Target(p)] = Piece(p)]
      BY <1>1, <2>4 DEF PutFile, At, Shape
    <3>2. Piece(p) # Empty
      BY <3>1, PieceType, Distinct
    <3>3. Target(p) # f /\ files[f] = Empty
      BY <1>1, <2>1, <3>1, <3>2
    <3>. QED
      BY <2>1, <2>2, <3>3 DEF Torn
  <2>5. CASE Unlink(p)
    <3>1. x.pc = "unlink" /\ files[f] = Empty
      BY <1>1, <2>1, <2>5, Distinct DEF Unlink, At
    <3>. QED
      BY <2>1, <2>2, <3>1 DEF Torn, At
  <2>6. CASE ~(OpenFile(p) \/ PutFile(p) \/ Unlink(p))
    <3>1. UNCHANGED files /\ x.pc # "put"
      BY <2>6 DEF OpStep, Look, LookSkips, LookFails, Read, GetReturns, StartupChecks,
             LocalSignChecks, LocalSignReads, GenerateWrites, RotateLooks, RotateArchives,
             RotateStores, DeleteLooks, At
    <3>. QED
      BY <2>1, <2>2, <3>1 DEF Torn, At
  <2>. QED
    BY <2>3, <2>4, <2>5, <2>6
<1>. QED
  BY <1>2

DamageInv == IsFiniteSet(Torn) /\ Cardinality(Torn) <= crashes

\* The torn files are among those there were, or one more where a process died.
LEMMA DamageGrows ==
    ASSUME DamageInv, crashes \in Nat, NEW f,
           \/ Torn' \subseteq Torn /\ crashes' = crashes
           \/ Torn' \subseteq Torn \cup {f} /\ crashes' = crashes + 1
    PROVE  DamageInv'
<1>1. IsFiniteSet(Torn) /\ Cardinality(Torn) \in Nat /\ Cardinality(Torn) <= crashes
  BY FS_CardinalityType DEF DamageInv
<1>2. CASE Torn' \subseteq Torn /\ crashes' = crashes
  <2>1. IsFiniteSet(Torn') /\ Cardinality(Torn') \in Nat /\ Cardinality(Torn') <= Cardinality(Torn)
    BY <1>1, <1>2, FS_Subset, FS_CardinalityType
  <2>. QED
    BY <1>1, <1>2, <2>1 DEF DamageInv
<1>3. CASE Torn' \subseteq Torn \cup {f} /\ crashes' = crashes + 1
  <2>1. IsFiniteSet(Torn \cup {f}) /\ Cardinality(Torn \cup {f}) \in Nat
        /\ Cardinality(Torn \cup {f}) <= Cardinality(Torn) + 1
    <3>1. /\ IsFiniteSet(Torn \cup {f})
          /\ Cardinality(Torn \cup {f}) = IF f \in Torn THEN Cardinality(Torn)
                                                        ELSE Cardinality(Torn) + 1
      BY <1>1, FS_AddElement
    <3>. QED
      BY <1>1, <3>1, FS_CardinalityType
  <2>2. IsFiniteSet(Torn') /\ Cardinality(Torn') \in Nat
        /\ Cardinality(Torn') <= Cardinality(Torn \cup {f})
    BY <1>3, <2>1, FS_Subset, FS_CardinalityType
  <2>. QED
    BY <1>1, <1>3, <2>1, <2>2 DEF DamageInv
<1>. QED
  BY <1>2, <1>3

LEMMA DamageStep == TypeInv /\ DamageInv /\ [Next]_vars => DamageInv'
<1>. SUFFICES ASSUME TypeInv, DamageInv, [Next]_vars PROVE DamageInv'
  OBVIOUS
<1>1. crashes \in Nat /\ DOMAIN proc = Procs
  BY BoundAssumption DEF TypeInv
<1>2. ASSUME NEW p \in Procs, NEW op \in Ops, Begin(p, op) PROVE DamageInv'
  <2>1. proc[p].pc = "idle" /\ UNCHANGED <<files, crashes>>
        /\ \A q \in Procs \ {p} : proc'[q] = proc[q]
    BY <1>1, <1>2, StepFrame DEF Begin
  <2>2. Torn' \subseteq Torn
    BY <2>1 DEF Torn, At, Target
  <2>. QED
    BY <1>1, <2>1, <2>2, DamageGrows
<1>3. ASSUME NEW p \in Procs, OpStep(p) PROVE DamageInv'
  BY <1>1, <1>3, TornStep, OpFrame, DamageGrows
<1>4. ASSUME NEW p \in Procs, Crash(p) PROVE DamageInv'
  <2>1. UNCHANGED files /\ crashes' = crashes + 1
        /\ \A q \in Procs \ {p} : proc'[q] = proc[q]
    BY <1>1, <1>4, StepFrame DEF Crash
  <2>2. Torn' \subseteq Torn \cup {Target(p)}
    BY <2>1 DEF Torn, At, Target
  <2>. QED
    BY <1>1, <2>1, <2>2, DamageGrows
<1>5. CASE Tick \/ UNCHANGED vars
  <2>1. UNCHANGED <<files, proc, crashes>>
    BY <1>5 DEF Tick, vars
  <2>2. Torn' \subseteq Torn
    BY <2>1 DEF Torn, At, Target
  <2>. QED
    BY <1>1, <2>1, <2>2, DamageGrows
<1>. QED
  BY <1>2, <1>3, <1>4, <1>5 DEF Next

\* DamageCounted: of the files that stand truncated and that nobody is writing
\* there is at most one for each process that died, however provisionings,
\* startups, client commands and rotations of all kinds overlap.
THEOREM DamageCorrect == Spec => []DamageCounted
<1>1. Init => DamageInv
  <2>. SUFFICES ASSUME Init PROVE DamageInv
    OBVIOUS
  <2>1. Torn = {} /\ crashes = 0
    BY Distinct DEF Init, Torn
  <2>. QED
    BY <2>1, FS_EmptySet DEF DamageInv
<1>2. DamageInv => DamageCounted
  BY DEF DamageInv, DamageCounted
<1>. QED
  BY <1>1, <1>2, TypeInit, TypeStep, DamageStep, PTL DEF Spec

-----------------------------------------------------------------------------
(***************************************************************************)
(* The refinement: one process that does not die and does not generate     *)
(* over an entry, and no two rotations in one second.                      *)
(***************************************************************************)
Alone(p) == Procs = {p} /\ ~Hurry /\ MaxCrashes = 0 /\ "generate" \notin Ops
            /\ "recertify" \notin Ops

\* Certificate and key are both absent, or both there and belong together.
Settled ==
    \/ files["pem"] = Absent /\ files["key"] = Absent
    \/ /\ files["pem"] \in Credentials /\ files["key"] \in Credentials
       /\ files["pem"][2] = files["key"][2]

\* The certificates there are, or were, have serials up to n.
Serials(n) ==
    /\ files["pem"] \in Credentials => files["pem"][1] <= n
    /\ \A t \in 0..MaxNow : backup[t].pem \in Credentials => backup[t].pem[1] <= n

\* An operation that reads, or has yet to look: if it has written nothing, the
\* serial it would write is new.
ReadInv(x) ==
    /\ Settled
    /\ ~x.second => x.at = started /\ Serials(started - 1)

\* A rotation has archived what it no longer has to do.
RotateInv(x) ==
    /\ Settled /\ Serials(started - 1)
    /\ IF x.new = Absent THEN x.at = started
       ELSE /\ x.new = <<started, started>> /\ files["pem"] # Absent
            /\ backup[x.at] = [pem |-> IF x.todo = <<"pem", "key">> THEN Absent ELSE files["pem"],
                               key |-> IF x.todo = <<>> THEN files["key"] ELSE Absent]

DeleteInv(x) ==
    \/ x.todo = <<"pem", "key", "meta">> /\ Settled
    \/ x.todo = <<"key", "meta">> /\ files["pem"] = Absent /\ files["key"] # Empty
    \/ x.todo = <<"meta">> /\ files["pem"] = Absent /\ files["key"] = Absent

\* About to write: what is there was archived, the serial is new, and a
\* certificate for the key that is there belongs to it.
BeforeInv(x) ==
    /\ Settled /\ Serials(started - 1) /\ x.new[1] = started
    /\ files["pem"] # Absent =>
        /\ x.at \in 0..MaxNow
        /\ backup[x.at] = [pem |-> files["pem"], key |-> files["key"]]
    /\ x.todo \in {<<"pem">>, <<"pem", "key">>, <<"pem", "key", "meta">>}
    /\ IF x.todo = <<"pem">> THEN files["pem"] # Absent /\ x.new[2] = files["key"][2]
       ELSE x.new[2] = x.new[1]

\* Writing: what has been written is the new credential.
AfterInv(x) ==
    /\ x.new[1] <= started
    /\ x.todo # <<"pem">> => x.new[2] = x.new[1]
    /\ \/ x.todo = <<"pem">> /\ files["key"] \in Credentials /\ x.new[2] = files["key"][2]
       \/ x.todo \in {<<"pem", "key">>, <<"pem", "key", "meta">>}
       \/ x.todo \in {<<"key">>, <<"key", "meta">>} /\ files["pem"] = x.new
       \/ x.todo = <<"meta">> /\ files["pem"] = x.new /\ files["key"] = x.new

Written(x) == x.pc = "put" \/ (x.pc = "open" /\ Head(x.todo) # "pem")

AloneInv(x) ==
    /\ Serials(started)
    /\ x.op \notin {"generate", "recertify"} /\ (x.second => x.op = "provision")
    /\ x.pc = "idle" => Settled
    /\ x.pc \in {"look", "read", "load"} /\ x.op \notin {"rotate", "delete"} => ReadInv(x)
    /\ x.pc \in {"look", "archive"} /\ x.op = "rotate" => RotateInv(x)
    /\ x.pc \in {"look", "unlink"} /\ x.op = "delete" => DeleteInv(x)
    /\ x.pc = "open" /\ ~Written(x) => BeforeInv(x)
    /\ Written(x) => AfterInv(x)

\* The entry the files stand for, by what the one process is about.
EntryOf(x) ==
    IF Written(x)
    THEN [cert |-> x.new, key |-> IF x.todo = <<"pem">> THEN files["key"] ELSE x.new]
    ELSE [cert |-> files["pem"], key |-> IF files["pem"] = Absent THEN Absent ELSE files["key"]]

\* The parts of each todo, spelled out for the provers.
LEMMA TodoParts ==
    /\ Head(<<"pem">>) = "pem" /\ Tail(<<"pem">>) = <<>> /\ Len(<<"pem">>) = 1
    /\ Head(<<"key">>) = "key" /\ Tail(<<"key">>) = <<>> /\ Len(<<"key">>) = 1
    /\ Head(<<"meta">>) = "meta" /\ Tail(<<"meta">>) = <<>> /\ Len(<<"meta">>) = 1
    /\ Head(<<"pem", "key">>) = "pem" /\ Tail(<<"pem", "key">>) = <<"key">>
    /\ Len(<<"pem", "key">>) = 2
    /\ Head(<<"key", "meta">>) = "key" /\ Tail(<<"key", "meta">>) = <<"meta">>
    /\ Len(<<"key", "meta">>) = 2
    /\ Head(<<"pem", "key", "meta">>) = "pem" /\ Tail(<<"pem", "key", "meta">>) = <<"key", "meta">>
    /\ Len(<<"pem", "key", "meta">>) = 3
OBVIOUS

LEMMA TodoDiffer ==
    ASSUME NEW s \in Todos, NEW t \in Todos,
           Len(s) # Len(t) \/ (s # <<>> /\ t # <<>> /\ Head(s) # Head(t))
    PROVE  s # t
OBVIOUS

\* Which files a todo holds.
Has(t, f) == \E i \in DOMAIN t : t[i] = f

LEMMA TodoHas ==
    ASSUME NEW t \in Todos
    PROVE  /\ Has(t, "pem") <=> t # <<>> /\ Head(t) = "pem"
           /\ Has(t, "key") <=> t \in Holding("key")
<1>1. CASE t = <<>>
  BY <1>1 DEF Has, Holding
<1>2. CASE t \in {<<"pem">>, <<"key">>, <<"meta">>}
  BY <1>2 DEF Has, Holding
<1>3. CASE t = <<"pem", "key">>
  <2>1. DOMAIN t = 1..2 /\ t[1] = "pem" /\ t[2] = "key"
    BY <1>3
  <2>. QED
    BY <1>3, <2>1 DEF Has, Holding
<1>4. CASE t = <<"key", "meta">>
  <2>1. DOMAIN t = 1..2 /\ t[1] = "key" /\ t[2] = "meta"
    BY <1>4
  <2>. QED
    BY <1>4, <2>1 DEF Has, Holding
<1>5. CASE t = <<"pem", "key", "meta">>
  <2>1. DOMAIN t = 1..3 /\ t[1] = "pem" /\ t[2] = "key" /\ t[3] = "meta"
    BY <1>5
  <2>. QED
    BY <1>5, <2>1 DEF Has, Holding
<1>. QED
  BY <1>1, <1>2, <1>3, <1>4, <1>5 DEF Todos

\* Entry, read off the one process.
EntryRead == \A p : Alone(p) /\ TypeInv /\ AloneInv(proc[p]) => Entry = EntryOf(proc[p])

LEMMA EntryIs == EntryRead
<1>. SUFFICES ASSUME NEW p, Alone(p), TypeInv, AloneInv(proc[p])
              PROVE  Entry = EntryOf(proc[p])
  BY DEF EntryRead
<1>. DEFINE x == proc[p]
<1>1. x.todo \in Todos /\ Shape(x) /\ (Written(x) => x.todo # <<>> /\ x.new \in Credentials)
  BY DEF Alone, TypeInv, Shape, Process, Written
<1>2. x.new \in Credentials => x.new # Absent
  BY Distinct
<1>3. Writing(p) <=> Written(x)
  BY DEF Writing, Written, Target
<1>4. ASSUME NEW f
      PROVE  Effective(f) = IF Written(x) /\ Has(x.todo, f) THEN x.new ELSE files[f]
  <2>1. ToWrite(f) = IF Written(x) /\ Has(x.todo, f) THEN {p} ELSE {}
    BY <1>3 DEF ToWrite, Alone, Has
  <2>2. (CHOOSE q \in {p} : TRUE) = p
    OBVIOUS
  <2>. QED
    BY <2>1, <2>2 DEF Effective
<1>5. CASE ~Written(x)
  BY <1>4, <1>5 DEF Entry, EntryOf
<1>6. CASE Written(x)
  <2>1. AfterInv(x) /\ x.new # Absent
    BY <1>1, <1>2, <1>6 DEF AloneInv
  <2>2. Effective("pem") = x.new
    <3>1. Has(x.todo, "pem") \/ files["pem"] = x.new
      BY <1>1, <2>1, TodoHas, TodoParts DEF AfterInv
    <3>. QED
      BY <1>4, <1>6, <3>1
  <2>3. Effective("key") = IF x.todo = <<"pem">> THEN files["key"] ELSE x.new
    <3>1. CASE x.todo = <<"pem">>
      <4>1. x.todo \notin Holding("key")
        BY <3>1, TodoParts, TodoDiffer DEF Holding, Todos
      <4>. QED
        BY <1>1, <1>4, <1>6, <3>1, <4>1, TodoHas
    <3>2. CASE x.todo = <<"meta">>
      <4>1. files["key"] = x.new /\ x.todo # <<"pem">>
        BY <2>1, <3>2, TodoParts, TodoDiffer DEF AfterInv, Todos
      <4>. QED
        BY <1>4, <1>6, <3>2, <4>1
    <3>3. CASE x.todo \notin {<<"pem">>, <<"meta">>}
      <4>1. x.todo \in Holding("key")
        BY <2>1, <3>3 DEF AfterInv, Holding
      <4>. QED
        BY <1>1, <1>4, <1>6, <3>3, <4>1, TodoHas
    <3>. QED
      BY <3>1, <3>2, <3>3
  <2>. QED
    BY <1>6, <2>1, <2>2, <2>3 DEF Entry, EntryOf
<1>. QED
  BY <1>5, <1>6

-----------------------------------------------------------------------------
\* What a step owes: the invariant again, and a step of the abstract store.
StoreStep == [Store!Next]_(Store!vars)
Same == Entry' = Entry /\ Archived' = Archived

\* What every step starts from.
LEMMA Context ==
    ASSUME NEW p, Alone(p), TypeInv
    PROVE  /\ p \in Procs /\ proc[p] \in Process /\ Shape(proc[p]) /\ DOMAIN proc = Procs
           /\ files \in [Files -> Content] /\ started \in Nat
<1>1. p \in Procs
  BY DEF Alone
<1>2. started \in Nat
  <2>1. started \in 0..MaxOps /\ MaxOps \in Nat
    BY BoundAssumption DEF TypeInv
  <2>. QED
    BY <2>1
<1>3. Shape(proc[p]) /\ proc[p] \in Process
  BY <1>1 DEF TypeInv, Shape
<1>. QED
  BY <1>1, <1>2, <1>3 DEF TypeInv

\* Entry before and after a step.
LEMMA EntryBefore ==
    ASSUME NEW p, Alone(p), TypeInv, AloneInv(proc[p])
    PROVE  Entry = EntryOf(proc[p])
BY EntryIs DEF EntryRead

LEMMA EntryAfter ==
    ASSUME NEW p, Alone(p), TypeInv', AloneInv(proc[p])'
    PROVE  Entry' = EntryOf(proc[p])'
<1>1. EntryRead'
  BY EntryIs, PTL
<1>2. Alone(p)'
  BY DEF Alone
<1>. QED
  BY <1>1, <1>2 DEF EntryRead

\* A step that leaves the entry read off the process, and the backups, is none
\* of the abstract store.
LEMMA SameEntry ==
    ASSUME NEW p, Alone(p), TypeInv, AloneInv(proc[p]), TypeInv', AloneInv(proc[p])',
           EntryOf(proc[p])' = EntryOf(proc[p]), UNCHANGED backup
    PROVE  Same
BY EntryBefore, EntryAfter DEF Same, Archived

LEMMA SameStep == Same => StoreStep
BY DEF Same, StoreStep, Store!vars

\* A step that writes nothing, of an operation that reads or has yet to look.
LEMMA ReadsOn ==
    ASSUME NEW p, Alone(p), TypeInv, AloneInv(proc[p]), UNCHANGED <<files, backup, started>>,
           proc[p].op \notin {"rotate", "delete"}, proc[p].pc \in {"look", "read", "load"},
           proc'[p].op = proc[p].op, proc'[p].pc \in {"idle", "look", "read", "load"},
           proc'[p].second => proc[p].second,
           proc'[p].pc # "idle" => proc'[p].second = proc[p].second /\ proc'[p].at = proc[p].at
    PROVE  AloneInv(proc[p])' /\ EntryOf(proc[p])' = EntryOf(proc[p])
<1>1. ReadInv(proc[p]) /\ Serials(started) /\ proc[p].op # "generate"
  BY DEF AloneInv
<1>2. Settled' /\ Serials(started)' /\ (Serials(started - 1) => Serials(started - 1)')
  BY <1>1 DEF Settled, Serials, ReadInv
<1>3. proc'[p].pc # "idle" => ReadInv(proc[p])'
  BY <1>1, <1>2 DEF ReadInv
<1>4. ~Written(proc[p]) /\ ~Written(proc[p])'
  BY DEF Written
<1>. QED
  BY <1>1, <1>2, <1>3, <1>4 DEF AloneInv, EntryOf

\* An operation begins to write.
LEMMA Starts ==
    ASSUME NEW p, Alone(p), TypeInv, AloneInv(proc[p]), UNCHANGED <<files, backup, started>>,
           proc[p].pc = "look", proc'[p].pc = "open", proc'[p].op = proc[p].op,
           proc'[p].second = proc[p].second, Serials(started - 1), BeforeInv(proc'[p])
    PROVE  AloneInv(proc[p])' /\ EntryOf(proc[p])' = EntryOf(proc[p])
<1>1. Serials(started) /\ proc[p].op # "generate"
  BY DEF AloneInv
<1>2. Serials(started)' /\ BeforeInv(proc[p])'
  BY <1>1 DEF Settled, Serials, BeforeInv
<1>3. ~Written(proc[p]) /\ ~Written(proc[p])'
  BY TodoParts DEF Written, BeforeInv
<1>. QED
  BY <1>1, <1>2, <1>3 DEF AloneInv, EntryOf

\* The operations that read, and those that create where nothing is.
LEMMA LooksStep ==
    ASSUME NEW p, Alone(p), TypeInv, AloneInv(proc[p]),
           \/ Look(p) \/ LookSkips(p) \/ LookFails(p) \/ Read(p) \/ GetReturns(p)
           \/ StartupChecks(p) \/ LocalSignChecks(p) \/ LocalSignReads(p)
    PROVE  AloneInv(proc[p])' /\ EntryOf(proc[p])' = EntryOf(proc[p]) /\ UNCHANGED backup
<1>. DEFINE x == proc[p]
            Done == AloneInv(proc[p])' /\ EntryOf(proc[p])' = EntryOf(proc[p])
<1>1. p \in Procs /\ x \in Process /\ Shape(x) /\ DOMAIN proc = Procs
  BY DEF Alone, TypeInv, Shape
<1>2. ASSUME NEW y, Step(p, y) PROVE proc'[p] = y
  BY <1>1, <1>2, StepFrame
<1>. USE DEF At
<1>3. UNCHANGED <<files, backup, started>>
  BY DEF Look, LookSkips, LookFails, Read, GetReturns, StartupChecks, LocalSignChecks,
         LocalSignReads
<1>4. x.op \notin {"rotate", "delete"} /\ x.pc \in {"look", "read", "load"}
  BY <1>1 DEF Look, LookSkips, LookFails, Read, GetReturns, StartupChecks, LocalSignChecks,
              LocalSignReads, Reading, Shape
<1>5. ASSUME NEW r, Return(p, r) PROVE Done
  <2>1. proc'[p] = Resting(x.op, r, x.got)
    BY <1>2, <1>5 DEF Return
  <2>2. proc'[p].op = x.op /\ proc'[p].pc = "idle" /\ ~proc'[p].second
    BY <2>1 DEF Resting
  <2>. QED
    BY <1>3, <1>4, <2>2, ReadsOn
<1>6. ASSUME proc'[p].pc \in {"look", "read", "load"}, proc'[p].op = x.op,
             proc'[p].second = x.second, proc'[p].at = x.at
      PROVE  Done
  BY <1>3, <1>4, <1>6, ReadsOn
<1>7. ASSUME NEW t \in {<<"pem", "key">>, <<"pem", "key", "meta">>}, Write(p, t, Fresh(p)),
             files["pem"] = Absent, ~x.second, x.pc = "look"
      PROVE  Done
  <2>1. proc'[p] = [x EXCEPT !.pc = "open", !.todo = t, !.new = Fresh(p)]
    BY <1>2, <1>7 DEF Write
  <2>2. proc'[p].pc = "open" /\ proc'[p].op = x.op /\ proc'[p].todo = t /\ proc'[p].new = Fresh(p)
        /\ proc'[p].second = x.second
    BY <1>1, <2>1 DEF Process
  <2>3. ReadInv(x)
    BY <1>4 DEF AloneInv
  <2>4. Fresh(p)[1] = started /\ Fresh(p)[2] = started /\ Serials(started - 1) /\ Settled
    BY <1>7, <2>3 DEF ReadInv, Fresh
  <2>5. BeforeInv(proc'[p])
    <3>1. t # <<"pem">>
      BY <1>7, TodoParts, TodoDiffer DEF Todos
    <3>. QED
      BY <1>7, <2>2, <2>4, <3>1 DEF BeforeInv
  <2>. QED
    BY <1>3, <1>7, <2>2, <2>4, <2>5, Starts
<1>8. CASE Look(p)
  <2>1. proc'[p] = [x EXCEPT !.pc = "read"]
    BY <1>2, <1>8 DEF Look
  <2>. QED
    BY <1>1, <1>3, <1>6, <2>1 DEF Process
<1>9. CASE LookSkips(p)
  <2>1. proc'[p] = [x EXCEPT !.todo = Tail(@)] /\ x.pc = "look"
    BY <1>2, <1>9 DEF LookSkips
  <2>. QED
    BY <1>1, <1>3, <1>6, <2>1 DEF Process
<1>10. CASE LookFails(p)
  <2>1. x.pc = "look" /\ files["pem"] = Absent
    BY <1>10 DEF LookFails
  <2>. QED
    BY <1>3, <1>5, <1>7, <1>10, <2>1 DEF LookFails
<1>11. CASE Read(p)
  <2>1. ASSUME NEW got, Step(p, [x EXCEPT !.pc = "look", !.todo = Tail(@), !.got = got])
        PROVE  Done
    <3>1. proc'[p] = [x EXCEPT !.pc = "look", !.todo = Tail(@), !.got = got]
      BY <1>2, <2>1
    <3>. QED
      BY <1>1, <1>6, <3>1 DEF Process
  <2>. QED
    BY <1>3, <1>5, <1>11, <2>1 DEF Read
<1>12. CASE GetReturns(p)
  BY <1>3, <1>5, <1>12 DEF GetReturns
<1>13. CASE StartupChecks(p)
  <2>1. x.pc = "look" /\ x.op = "startup"
    BY <1>13 DEF StartupChecks
  <2>2. CASE files["pem"] = Absent /\ Write(p, <<"pem", "key">>, Fresh(p))
    <3>1. ~x.second
      BY <2>1 DEF AloneInv
    <3>. QED
      BY <1>3, <1>7, <2>1, <2>2, <3>1
  <2>. QED
    BY <1>3, <1>5, <1>13, <2>2 DEF StartupChecks
<1>14. CASE LocalSignChecks(p)
  <2>1. x.pc = "look" /\ x.op = "local sign"
    BY <1>14 DEF LocalSignChecks
  <2>2. CASE files["pem"] = Absent /\ Write(p, <<"pem", "key">>, Fresh(p))
    <3>1. ~x.second
      BY <2>1 DEF AloneInv
    <3>. QED
      BY <1>3, <1>7, <2>1, <2>2, <3>1
  <2>3. CASE Step(p, [x EXCEPT !.pc = "load", !.todo = <<"pem", "key">>])
    <3>1. proc'[p] = [x EXCEPT !.pc = "load", !.todo = <<"pem", "key">>]
      BY <1>2, <2>3
    <3>. QED
      BY <1>1, <1>3, <1>6, <3>1 DEF Process
  <2>. QED
    BY <1>14, <2>2, <2>3 DEF LocalSignChecks
<1>15. CASE LocalSignReads(p)
  <2>1. x.pc = "load" /\ x.op = "local sign" /\ Target(p) \in {"pem", "key"}
    BY <1>1, <1>15, TodoHead DEF LocalSignReads, Shape, Target
  <2>2. ASSUME NEW got, Step(p, [x EXCEPT !.todo = Tail(@), !.got = got])
        PROVE  Done
    <3>1. proc'[p] = [x EXCEPT !.todo = Tail(@), !.got = got]
      BY <1>2, <2>2
    <3>. QED
      BY <1>1, <1>6, <2>1, <3>1 DEF Process
  <2>3. ASSUME NEW r, NEW got, Step(p, Resting("local sign", r, got))
        PROVE  Done
    <3>1. proc'[p] = Resting("local sign", r, got)
      BY <1>2, <2>3
    <3>2. proc'[p].op = x.op /\ proc'[p].pc = "idle" /\ ~proc'[p].second
      <4>1. ASSUME NEW y, y = Resting("local sign", r, got)
            PROVE  y.op = "local sign" /\ ~y.second /\ y.pc = "idle"
        BY <4>1 DEF Resting
      <4>. QED
        BY <2>1, <3>1, <4>1
    <3>. QED
      BY <1>3, <1>4, <3>2, ReadsOn
  <2>. QED
    BY <1>3, <1>5, <1>15, <2>1, <2>2, <2>3 DEF LocalSignReads
<1>. QED
  BY <1>3, <1>8, <1>9, <1>10, <1>11, <1>12, <1>13, <1>14, <1>15

-----------------------------------------------------------------------------
\* Opening the certificate is where a write takes effect: on nothing, or on an
\* entry that was archived, with a serial no archived one has.
LEMMA TakesEffect ==
    ASSUME NEW p, Alone(p), TypeInv, AloneInv(proc[p]), BeforeInv(proc[p]),
           proc[p].new \in Credentials, UNCHANGED backup,
           Entry = [cert |-> files["pem"],
                    key |-> IF files["pem"] = Absent THEN Absent ELSE files["key"]],
           Entry' = [cert |-> proc[p].new,
                     key |-> IF proc[p].todo = <<"pem">> THEN files["key"] ELSE proc[p].new]
    PROVE  StoreStep
<1>. DEFINE x == proc[p]
<1>1. Archived' = Archived
  BY DEF Archived
<1>2. x.new \in Store!Credentials /\ x.new[1] = started /\ Settled
  BY BoundAssumption DEF Credentials, Store!Credentials, BeforeInv
<1>3. CASE files["pem"] = Absent
  <2>1. Entry = Store!None /\ x.todo # <<"pem">>
    BY <1>3 DEF BeforeInv, Store!None, Store!Absent, Absent
  <2>2. Store!Whole(Entry')
    BY <1>2, <2>1 DEF Store!Whole
  <2>. QED
    BY <1>1, <2>1, <2>2 DEF StoreStep, Store!Next, Store!Provision
<1>4. CASE files["pem"] # Absent
  <2>1. files["key"] \in Credentials /\ files["key"] # Absent
    BY <1>2, <1>4, Distinct DEF Settled
  <2>2. Entry = [cert |-> files["pem"], key |-> files["key"]]
    BY <1>4
  <2>3. Entry \in Archived
    <3>1. x.at \in 0..MaxNow /\ backup[x.at] = [pem |-> files["pem"], key |-> files["key"]]
      BY <1>4 DEF BeforeInv
    <3>. QED
      BY <1>4, <2>1, <2>2, <3>1 DEF Archived
  <2>4. CASE x.todo = <<"pem">>
    <3>1. Entry' = [Entry EXCEPT !.cert = x.new] /\ Entry'.cert = x.new
      BY <2>2, <2>4
    <3>2. x.new[2] = Entry.key[2]
      BY <2>2, <2>4 DEF BeforeInv
    <3>3. Entry # Store!None
      BY <1>4, <2>2 DEF Store!None, Store!Absent, Absent
    <3>. QED
      BY <1>1, <1>2, <2>3, <3>1, <3>2, <3>3 DEF StoreStep, Store!Next, Store!Rotate
  <2>5. CASE x.todo # <<"pem">>
    <3>1. Store!Whole(Entry') /\ Entry'.cert = x.new
      BY <1>2, <2>5 DEF Store!Whole
    <3>2. ASSUME NEW a \in Archived PROVE a.cert # x.new
      <4>1. PICK t \in 0..MaxNow : a.cert = backup[t].pem
        BY <3>2 DEF Archived
      <4>2. Serials(started - 1) /\ started \in Nat
        BY BoundAssumption DEF BeforeInv, TypeInv
      <4>. QED
        BY <1>2, <4>1, <4>2 DEF Serials
    <3>. QED
      BY <1>1, <2>3, <3>1, <3>2 DEF StoreStep, Store!Next, Store!Rotate
  <2>. QED
    BY <2>4, <2>5
<1>. QED
  BY <1>3, <1>4

\* The parts of a todo that is being written.
LEMMA WritingTodo ==
    ASSUME NEW x, x.todo \in Todos, x.todo # <<>>
    PROVE  /\ AfterInv(x) /\ Head(x.todo) = "pem" =>
                \/ x.todo = <<"pem">> /\ files["key"] \in Credentials /\ x.new[2] = files["key"][2]
                \/ x.todo \in {<<"pem", "key">>, <<"pem", "key", "meta">>}
           /\ AfterInv(x) /\ Head(x.todo) = "key" =>
                x.todo \in {<<"key">>, <<"key", "meta">>} /\ files["pem"] = x.new
           /\ AfterInv(x) /\ Head(x.todo) = "meta" =>
                x.todo = <<"meta">> /\ files["pem"] = x.new /\ files["key"] = x.new
           /\ Head(x.todo) \in Files
           /\ Head(x.todo) # "pem" => x.todo # <<"pem">>
BY TodoParts, TodoType DEF AfterInv

\* The steps of writing: a file is opened, which of the certificate is where the
\* write takes effect, and filled.
LEMMA OpenStep ==
    ASSUME NEW p, Alone(p), TypeInv, TypeInv', AloneInv(proc[p]), UNCHANGED started, OpenFile(p)
    PROVE  AloneInv(proc[p])' /\ StoreStep
<1>. DEFINE x == proc[p]
<1>1. p \in Procs /\ x \in Process /\ Shape(x) /\ files \in [Files -> Content] /\ started \in Nat
  BY Context
<1>2. proc'[p] = [x EXCEPT !.pc = "put"] /\ x.pc = "open" /\ UNCHANGED backup
      /\ files' = [files EXCEPT ![Target(p)] = Empty]
  BY <1>1, StepFrame DEF OpenFile, At, TypeInv
<1>3. proc'[p].pc = "put" /\ proc'[p].op = x.op /\ proc'[p].todo = x.todo /\ proc'[p].new = x.new
      /\ proc'[p].second = x.second
  BY <1>1, <1>2 DEF Process
<1>4. x.todo \in Todos /\ x.todo # <<>> /\ x.new \in Credentials /\ Target(p) = Head(x.todo)
  BY <1>1, <1>2 DEF Shape, Process, Target
<1>5. "pem" \in Files /\ "key" \in Files /\ "pem" # "key" /\ Target(p) \in Files
  BY <1>4, TodoType DEF Files
<1>6. Written(proc[p])' /\ x.op \notin {"generate", "recertify"} /\ (x.second => x.op = "provision")
  BY <1>3 DEF Written, AloneInv
<1>7. AfterInv(proc[p])' /\ Serials(started)' => AloneInv(proc[p])'
  BY <1>3, <1>6 DEF AloneInv, Written
<1>8. CASE Target(p) = "pem"
  <2>1. ~Written(x) /\ BeforeInv(x)
    BY <1>2, <1>4, <1>8 DEF Written, AloneInv
  <2>2. files'["key"] = files["key"] /\ files'["pem"] = Empty
    BY <1>1, <1>2, <1>5, <1>8
  <2>3. Serials(started)'
    BY <1>1, <1>2, <2>2, Distinct DEF Serials, AloneInv
  <2>4. AfterInv(proc[p])'
    <3>1. x.todo = <<"pem">> => files["key"] \in Credentials /\ x.new[2] = files["key"][2]
      BY <2>1, Distinct DEF BeforeInv, Settled
    <3>. QED
      BY <1>1, <1>3, <2>1, <2>2, <3>1 DEF AfterInv, BeforeInv
  <2>5. AloneInv(proc[p])'
    BY <1>7, <2>3, <2>4
  <2>6. Entry = EntryOf(x) /\ Entry' = EntryOf(proc[p])'
    BY <2>5, EntryBefore, EntryAfter
  <2>7. StoreStep
    <3>1. Entry = [cert |-> files["pem"],
                   key |-> IF files["pem"] = Absent THEN Absent ELSE files["key"]]
      BY <2>1, <2>6 DEF EntryOf
    <3>2. Entry' = [cert |-> x.new, key |-> IF x.todo = <<"pem">> THEN files["key"] ELSE x.new]
      BY <1>3, <1>6, <2>2, <2>6 DEF EntryOf
    <3>. QED
      BY <1>2, <1>4, <2>1, <3>1, <3>2, TakesEffect
  <2>. QED
    BY <2>5, <2>7
<1>9. CASE Target(p) # "pem"
  <2>1. Written(x) /\ AfterInv(x)
    BY <1>2, <1>4, <1>9 DEF Written, AloneInv
  <2>2. files'["pem"] = files["pem"] /\ (Target(p) # "key" => files'["key"] = files["key"])
    BY <1>1, <1>2, <1>5, <1>9
  <2>3. Serials(started)'
    BY <1>2, <2>2 DEF Serials, AloneInv
  <2>4. AfterInv(proc[p])' /\ x.todo # <<"pem">>
    BY <1>3, <1>4, <1>5, <1>9, <2>1, <2>2, WritingTodo DEF AfterInv, Files
  <2>5. AloneInv(proc[p])'
    BY <1>7, <2>3, <2>4
  <2>6. EntryOf(proc[p])' = EntryOf(x)
    BY <1>3, <1>6, <2>1, <2>4 DEF EntryOf
  <2>. QED
    BY <1>2, <2>5, <2>6, SameEntry, SameStep
<1>. QED
  BY <1>8, <1>9

LEMMA PutStep ==
    ASSUME NEW p, Alone(p), TypeInv, TypeInv', AloneInv(proc[p]), UNCHANGED started, PutFile(p)
    PROVE  AloneInv(proc[p])' /\ StoreStep
<1>. DEFINE x == proc[p]
            t == x.todo
<1>1. p \in Procs /\ x \in Process /\ Shape(x) /\ files \in [Files -> Content] /\ started \in Nat
      /\ DOMAIN proc = Procs
  BY Context
<1>2. x.pc = "put" /\ UNCHANGED backup /\ files' = [files EXCEPT ![Target(p)] = x.new]
  <2>1. x.pc = "put" /\ UNCHANGED backup /\ files' = [files EXCEPT ![Target(p)] = Piece(p)]
    BY DEF PutFile, At
  <2>2. x.new \in Credentials /\ AfterInv(x) /\ t # <<>> /\ t \in Todos
    BY <1>1, <2>1 DEF Shape, Written, AloneInv, Process
  <2>3. CASE Target(p) = "key"
    <3>1. t # <<"pem">>
      BY <2>3, TodoParts DEF Target
    <3>2. x.new = <<x.new[1], x.new[1]>>
      BY <2>2, <3>1 DEF AfterInv, Credentials
    <3>. QED
      BY <2>1, <2>3, <3>2 DEF Piece
  <2>4. CASE Target(p) # "key"
    BY <2>1, <2>4 DEF Piece
  <2>. QED
    BY <2>3, <2>4
<1>3. t \in Todos /\ t # <<>> /\ x.new \in Credentials /\ x.new # Absent /\ Target(p) = Head(t)
  BY <1>1, <1>2, Distinct DEF Shape, Process, Target
<1>4. "pem" \in Files /\ "key" \in Files /\ "pem" # "key" /\ Target(p) \in Files
  BY <1>3, TodoType DEF Files
<1>5. Written(x) /\ AfterInv(x) /\ x.new[1] <= started /\ x.op # "generate"
      /\ (x.second => x.op = "provision")
  BY <1>2 DEF Written, AloneInv, AfterInv
<1>6. /\ files'["pem"] = IF Target(p) = "pem" THEN x.new ELSE files["pem"]
      /\ files'["key"] = IF Target(p) = "key" THEN x.new ELSE files["key"]
  BY <1>1, <1>2, <1>4
<1>7. Serials(started)'
  BY <1>2, <1>5, <1>6 DEF Serials, AloneInv
<1>8. CASE Len(t) > 1
  <2>1. proc'[p] = [x EXCEPT !.pc = "open", !.todo = Tail(@)]
    BY <1>1, <1>8, StepFrame DEF PutFile
  <2>2. proc'[p].pc = "open" /\ proc'[p].op = x.op /\ proc'[p].todo = Tail(t)
        /\ proc'[p].new = x.new /\ proc'[p].second = x.second
    BY <1>1, <2>1 DEF Process
  <2>3. \/ t = <<"pem", "key">> /\ Tail(t) = <<"key">> /\ files'["pem"] = x.new
        \/ t = <<"pem", "key", "meta">> /\ Tail(t) = <<"key", "meta">> /\ files'["pem"] = x.new
        \/ t = <<"key", "meta">> /\ Tail(t) = <<"meta">> /\ files'["pem"] = x.new
             /\ files'["key"] = x.new
    <3>1. CASE Head(t) = "pem"
      <4>1. t \in {<<"pem", "key">>, <<"pem", "key", "meta">>}
        BY <1>3, <1>5, <1>8, <3>1, WritingTodo, TodoParts
      <4>. QED
        BY <1>3, <1>6, <3>1, <4>1, TodoParts
    <3>2. CASE Head(t) = "key"
      <4>1. t = <<"key", "meta">> /\ files["pem"] = x.new
        BY <1>3, <1>5, <1>8, <3>2, WritingTodo, TodoParts
      <4>. QED
        BY <1>3, <1>6, <3>2, <4>1, TodoParts
    <3>3. Head(t) # "meta"
      BY <1>3, <1>5, <1>8, WritingTodo, TodoParts
    <3>. QED
      BY <1>3, <1>4, <3>1, <3>2, <3>3 DEF Files
  <2>4. AfterInv(proc[p])' /\ Written(proc[p])'
    <3>1. Head(Tail(t)) # "pem" /\ t # <<"pem">>
      BY <2>3, TodoParts
    <3>2. x.new[2] = x.new[1]
      BY <1>5, <3>1 DEF AfterInv
    <3>. QED
      BY <1>5, <2>2, <2>3, <3>1, <3>2 DEF AfterInv, Written
  <2>5. AloneInv(proc[p])'
    BY <1>5, <1>7, <2>2, <2>4 DEF AloneInv
  <2>6. t # <<"pem">> /\ Tail(t) # <<"pem">>
    BY <1>3, <1>8, <2>3, TodoParts
  <2>7. EntryOf(proc[p])' = EntryOf(x)
    BY <1>5, <2>2, <2>4, <2>6 DEF EntryOf
  <2>. QED
    BY <1>2, <2>5, <2>7, SameEntry, SameStep
<1>9. CASE ~(Len(t) > 1)
  <2>1. files'["pem"] = x.new /\ files'["key"] \in Credentials /\ files'["key"][2] = x.new[2]
        /\ files'["key"] = IF t = <<"pem">> THEN files["key"] ELSE x.new
    BY <1>3, <1>4, <1>5, <1>6, <1>9, WritingTodo, TodoParts DEF Files
  <2>2. Settled'
    BY <1>3, <2>1 DEF Settled
  <2>3. /\ proc'[p].op = x.op /\ proc'[p].pc \in {"idle", "look"}
        /\ proc'[p].pc = "look" => x.op = "provision" /\ proc'[p].second
        /\ proc'[p].second => x.op = "provision"
    <3>1. CASE x.op = "provision"
      <4>1. proc'[p] = [x EXCEPT !.pc = "look", !.second = TRUE, !.todo = <<"pem", "key", "meta">>]
        BY <1>1, <1>9, <3>1, StepFrame DEF PutFile
      <4>. QED
        BY <1>1, <3>1, <4>1 DEF Process
    <3>2. CASE x.op # "provision"
      <4>1. proc'[p] = Resting(x.op, "ok", x.got)
        BY <1>1, <1>9, <3>2, StepFrame DEF PutFile, Return
      <4>. QED
        BY <4>1 DEF Resting
    <3>. QED
      BY <3>1, <3>2
  <2>4. ~Written(proc[p])'
    BY <2>3 DEF Written
  <2>5. AloneInv(proc[p])'
    BY <1>5, <1>7, <2>2, <2>3, <2>4 DEF AloneInv, ReadInv
  <2>6. EntryOf(proc[p])' = EntryOf(x)
    BY <1>3, <1>5, <2>1, <2>4 DEF EntryOf
  <2>. QED
    BY <1>2, <2>5, <2>6, SameEntry, SameStep
<1>. QED
  BY <1>8, <1>9

-----------------------------------------------------------------------------
\* A rotation puts the certificate and then the key aside: with the key the
\* backup is an entry of the archive.
LEMMA KeyArchived ==
    ASSUME NEW t \in 0..MaxNow, backup \in [0..MaxNow -> [pem : Content, key : Content]],
           backup[t].key = Absent, backup[t].pem # Absent, NEW c, c # Absent,
           backup' = [backup EXCEPT ![t].key = c]
    PROVE  Archived' = Archived \cup {[cert |-> backup[t].pem, key |-> c]}
<1>1. \A s \in 0..MaxNow : backup'[s] = IF s = t THEN [backup[t] EXCEPT !.key = c] ELSE backup[s]
  OBVIOUS
<1>2. backup'[t].pem = backup[t].pem /\ backup'[t].key = c
  BY <1>1
<1>3. \A e : e \in Archived' <=>
          \E s \in 0..MaxNow : /\ backup'[s].pem # Absent /\ backup'[s].key # Absent
                               /\ e = [cert |-> backup'[s].pem, key |-> backup'[s].key]
  BY DEF Archived
<1>4. \A e : e \in Archived <=>
          \E s \in 0..MaxNow : /\ backup[s].pem # Absent /\ backup[s].key # Absent
                               /\ e = [cert |-> backup[s].pem, key |-> backup[s].key]
  BY DEF Archived
<1>5. \A s \in 0..MaxNow : s # t => backup'[s] = backup[s]
  BY <1>1
<1>6. ASSUME NEW e
      PROVE  e \in Archived' <=> e \in Archived \/ e = [cert |-> backup[t].pem, key |-> c]
  BY <1>2, <1>3, <1>4, <1>5
<1>. QED
  BY <1>6

LEMMA PemArchived ==
    ASSUME NEW t \in 0..MaxNow, backup \in [0..MaxNow -> [pem : Content, key : Content]],
           backup[t].key = Absent, NEW c, backup' = [backup EXCEPT ![t].pem = c]
    PROVE  Archived' = Archived
<1>1. \A s \in 0..MaxNow : backup'[s] = IF s = t THEN [backup[t] EXCEPT !.pem = c] ELSE backup[s]
  OBVIOUS
<1>2. \A s \in 0..MaxNow : /\ backup'[s].key = backup[s].key
                           /\ backup[s].key # Absent => backup'[s].pem = backup[s].pem
  BY <1>1
<1>3. {s \in 0..MaxNow : backup'[s].pem # Absent /\ backup'[s].key # Absent}
        = {s \in 0..MaxNow : backup[s].pem # Absent /\ backup[s].key # Absent}
  BY <1>2
<1>. QED
  BY <1>2, <1>3 DEF Archived

\* Where a rotation stands: at its first look, or with a part archived.
LEMMA RotatingAt ==
    ASSUME NEW p, Alone(p), TypeInv, AloneInv(proc[p]),
           proc[p].op = "rotate", proc[p].pc \in {"look", "archive"}
    PROVE  /\ RotateInv(proc[p]) /\ ~Written(proc[p]) /\ ~proc[p].second
           /\ proc[p].todo \in {<<"pem", "key">>, <<"key">>, <<>>}
           /\ proc[p].new = Absent =>
                proc[p].pc = "look" /\ proc[p].todo = <<"pem", "key">> /\ proc[p].at = started
           /\ proc[p].new # Absent =>
                /\ proc[p].at \in 0..MaxNow
                /\ proc[p].pc = "look" => proc[p].todo \in {<<"key">>, <<>>}
                /\ files["pem"] \in Credentials /\ files["key"] \in Credentials
                /\ files["pem"] # Absent /\ files["key"] # Absent
<1>1. Shape(proc[p]) /\ RotateInv(proc[p]) /\ ~Written(proc[p]) /\ ~proc[p].second
  BY Context DEF AloneInv, Written
<1>. QED
  BY <1>1, Distinct DEF Shape, RotateInv, Settled

\* The steps of a rotation.
LEMMA RotateLooksStep ==
    ASSUME NEW p, Alone(p), TypeInv, TypeInv', AloneInv(proc[p]), RotateLooks(p)
    PROVE  AloneInv(proc[p])' /\ StoreStep
<1>. DEFINE x == proc[p]
<1>1. p \in Procs /\ x \in Process /\ DOMAIN proc = Procs
  BY Context
<1>2. /\ x.pc = "look" /\ x.op = "rotate" /\ x.todo # <<>> /\ files[Target(p)] # Absent
      /\ UNCHANGED <<files, backup, started>>
      /\ Target(p) = "pem" => backup[now] = NoBackup
  BY DEF RotateLooks, At, Alone, AloneInv
<1>3. proc'[p] = [x EXCEPT !.pc = "archive", !.at = IF Target(p) = "pem" THEN now ELSE @,
                           !.new = IF Target(p) = "pem" THEN Fresh(p) ELSE @]
  BY <1>1, StepFrame DEF RotateLooks
<1>4. /\ proc'[p].pc = "archive" /\ proc'[p].op = x.op /\ proc'[p].todo = x.todo
      /\ proc'[p].second = x.second
      /\ proc'[p].at = IF Target(p) = "pem" THEN now ELSE x.at
      /\ proc'[p].new = IF Target(p) = "pem" THEN Fresh(p) ELSE x.new
  BY <1>1, <1>3 DEF Process
<1>5. /\ RotateInv(x) /\ ~Written(x) /\ ~x.second /\ Serials(started)
      /\ \/ x.new = Absent /\ x.todo = <<"pem", "key">> /\ x.at = started
         \/ x.new # Absent /\ x.todo = <<"key">>
  BY <1>2, RotatingAt DEF AloneInv
<1>6. RotateInv(proc'[p])
  <2>1. CASE x.new = Absent
    <3>1. Target(p) = "pem" /\ Fresh(p) = <<started, started>> /\ Fresh(p) # Absent
      BY <1>5, <2>1, TodoParts DEF Target, Fresh, Absent
    <3>. QED
      BY <1>2, <1>4, <1>5, <2>1, <3>1 DEF RotateInv, NoBackup
  <2>2. CASE x.new # Absent
    <3>1. Target(p) = "key"
      BY <1>5, <2>2, TodoParts DEF Target
    <3>. QED
      BY <1>4, <1>5, <2>2, <3>1 DEF RotateInv
  <2>. QED
    BY <2>1, <2>2
<1>7. RotateInv(proc[p])' /\ Serials(started)'
  BY <1>2, <1>5, <1>6 DEF RotateInv, Settled, Serials
<1>8. AloneInv(proc[p])' /\ ~Written(proc[p])'
  BY <1>2, <1>4, <1>5, <1>7 DEF AloneInv, Written
<1>9. EntryOf(proc[p])' = EntryOf(x)
  BY <1>2, <1>5, <1>8 DEF EntryOf
<1>. QED
  BY <1>2, <1>8, <1>9, SameEntry, SameStep

LEMMA RotateArchivesStep ==
    ASSUME NEW p, Alone(p), TypeInv, TypeInv', AloneInv(proc[p]), RotateArchives(p),
           UNCHANGED started
    PROVE  AloneInv(proc[p])' /\ StoreStep
<1>. DEFINE x == proc[p]
            f == Target(p)
<1>1. p \in Procs /\ x \in Process /\ DOMAIN proc = Procs /\ Shape(x)
  BY Context
<1>2. x.pc = "archive" /\ x.op = "rotate" /\ x.new # Absent /\ x.todo # <<>> /\ UNCHANGED files
  BY <1>1 DEF RotateArchives, At, Shape, AloneInv
<1>3. /\ RotateInv(x) /\ ~Written(x) /\ ~x.second /\ Serials(started)
      /\ x.todo \in {<<"pem", "key">>, <<"key">>}
      /\ x.at \in 0..MaxNow /\ files["pem"] # Absent /\ files["key"] # Absent
  BY <1>2, RotatingAt DEF AloneInv
<1>4. /\ f = IF x.todo = <<"pem", "key">> THEN "pem" ELSE "key"
      /\ Tail(x.todo) = IF x.todo = <<"pem", "key">> THEN <<"key">> ELSE <<>>
  BY <1>3, TodoParts DEF Target
<1>5. backup' = [backup EXCEPT ![x.at][f] = files[f]]
      /\ Step(p, [x EXCEPT !.pc = "look", !.todo = Tail(@)])
  BY <1>3, <1>4 DEF RotateArchives
<1>6. proc'[p] = [x EXCEPT !.pc = "look", !.todo = Tail(@)]
  BY <1>1, <1>5, StepFrame
<1>7. /\ proc'[p].pc = "look" /\ proc'[p].op = x.op /\ proc'[p].todo = Tail(x.todo)
      /\ proc'[p].second = x.second /\ proc'[p].at = x.at /\ proc'[p].new = x.new
  BY <1>1, <1>6 DEF Process
<1>8. backup \in [0..MaxNow -> [pem : Content, key : Content]]
  BY DEF TypeInv
<1>9. backup'[x.at] = [backup[x.at] EXCEPT ![f] = files[f]]
      /\ \A s \in 0..MaxNow : s # x.at => backup'[s] = backup[s]
  BY <1>3, <1>5, <1>8
<1>10. /\ backup[x.at] = [pem |-> IF x.todo = <<"pem", "key">> THEN Absent ELSE files["pem"],
                          key |-> IF x.todo = <<>> THEN files["key"] ELSE Absent]
       /\ x.todo # <<>>
  BY <1>2, <1>3 DEF RotateInv
<1>11. backup'[x.at] = [pem |-> files["pem"],
                        key |-> IF x.todo = <<"pem", "key">> THEN Absent ELSE files["key"]]
  <2>1. CASE x.todo = <<"pem", "key">>
    BY <1>4, <1>9, <1>10, <2>1
  <2>2. CASE x.todo # <<"pem", "key">>
    BY <1>4, <1>9, <1>10, <2>2
  <2>. QED
    BY <2>1, <2>2
<1>12. RotateInv(proc[p])'
  <2>1. Serials(started - 1)' /\ Settled'
    BY <1>2, <1>3, <1>9, <1>11 DEF RotateInv, Serials, Settled
  <2>2. /\ Tail(x.todo) # <<"pem", "key">>
        /\ Tail(x.todo) = <<>> <=> x.todo # <<"pem", "key">>
    BY <1>4, TodoHead
  <2>. QED
    BY <1>2, <1>3, <1>7, <1>11, <2>1, <2>2 DEF RotateInv
<1>13. Serials(started)'
  BY <1>2, <1>3, <1>9, <1>11 DEF Serials
<1>14. AloneInv(proc[p])' /\ ~Written(proc[p])'
  BY <1>2, <1>3, <1>7, <1>12, <1>13 DEF AloneInv, Written
<1>15. Entry' = Entry /\ Entry = [cert |-> files["pem"], key |-> files["key"]]
  BY <1>2, <1>3, <1>14, EntryBefore, EntryAfter DEF EntryOf
<1>16. StoreStep
  <2>1. CASE x.todo = <<"pem", "key">>
    <3>1. backup' = [backup EXCEPT ![x.at].pem = files["pem"]]
      BY <1>4, <1>5, <2>1
    <3>2. backup[x.at].key = Absent
      BY <1>10
    <3>3. Archived' = Archived
      BY <1>3, <1>8, <3>1, <3>2, PemArchived
    <3>. QED
      BY <1>15, <3>3, SameStep DEF Same
  <2>2. CASE x.todo # <<"pem", "key">>
    <3>1. backup' = [backup EXCEPT ![x.at].key = files["key"]]
      BY <1>4, <1>5, <2>2
    <3>2. backup[x.at].key = Absent /\ backup[x.at].pem = files["pem"]
      BY <1>10, <2>2
    <3>3. Archived' = Archived \cup {Entry}
      BY <1>3, <1>8, <1>15, <3>1, <3>2, KeyArchived
    <3>4. Entry # Store!None
      BY <1>3, <1>15 DEF Store!None, Store!Absent, Absent
    <3>. QED
      BY <1>15, <3>3, <3>4 DEF StoreStep, Store!Next, Store!Archive
  <2>. QED
    BY <2>1, <2>2
<1>. QED
  BY <1>14, <1>16

LEMMA RotateStoresStep ==
    ASSUME NEW p, Alone(p), TypeInv, TypeInv', AloneInv(proc[p]), RotateStores(p)
    PROVE  AloneInv(proc[p])' /\ StoreStep
<1>. DEFINE x == proc[p]
            new == IF x.new = Absent THEN Fresh(p) ELSE x.new
<1>1. p \in Procs /\ x \in Process /\ DOMAIN proc = Procs
  BY Context
<1>2. /\ x.pc = "look" /\ x.op = "rotate" /\ UNCHANGED <<files, backup, started>>
      /\ x.todo # <<>> => files[Target(p)] = Absent
  BY DEF RotateStores, At, AloneInv
<1>3. /\ RotateInv(x) /\ ~Written(x) /\ ~x.second
      /\ \/ x.new = Absent /\ x.todo = <<"pem", "key">> /\ x.at = started
         \/ /\ x.new # Absent /\ x.todo \in {<<"key">>, <<>>} /\ x.at \in 0..MaxNow
            /\ files["pem"] # Absent /\ files["key"] # Absent
  BY <1>2, RotatingAt
<1>4. Serials(started - 1) /\ Settled /\ new[1] = started /\ new[2] = started
  BY <1>3 DEF RotateInv, Fresh
<1>5. files["pem"] # Absent => x.new # Absent
  BY <1>2, <1>3, TodoParts, TodoHead DEF Target
<1>6. files["pem"] # Absent =>
        x.at \in 0..MaxNow /\ backup[x.at] = [pem |-> files["pem"], key |-> files["key"]]
  <2>. SUFFICES ASSUME files["pem"] # Absent
                PROVE  x.at \in 0..MaxNow /\ backup[x.at] = [pem |-> files["pem"], key |-> files["key"]]
    OBVIOUS
  <2>1. x.new # Absent /\ x.todo # <<"key">>
    BY <1>2, <1>3, <1>5, TodoParts, TodoHead DEF Target
  <2>2. x.todo = <<>> /\ x.todo # <<"pem", "key">>
    BY <1>3, <2>1, TodoHead
  <2>. QED
    BY <1>3, <2>1, <2>2 DEF RotateInv
<1>7. ASSUME NEW t \in {<<"pem">>, <<"pem", "key">>}, NEW n, n[1] = started, Write(p, t, n),
             IF t = <<"pem">> THEN files["pem"] # Absent /\ n[2] = files["key"][2]
             ELSE n[2] = n[1]
      PROVE  AloneInv(proc[p])' /\ EntryOf(proc[p])' = EntryOf(proc[p])
  <2>1. proc'[p] = [x EXCEPT !.pc = "open", !.todo = t, !.new = n]
    BY <1>1, <1>7, StepFrame DEF Write
  <2>2. /\ proc'[p].pc = "open" /\ proc'[p].op = x.op /\ proc'[p].todo = t
        /\ proc'[p].new = n /\ proc'[p].second = x.second /\ proc'[p].at = x.at
    BY <1>1, <2>1 DEF Process
  <2>3. BeforeInv(proc'[p])
    BY <1>4, <1>6, <1>7, <2>2 DEF BeforeInv
  <2>. QED
    BY <1>2, <1>4, <2>2, <2>3, Starts
<1>8. CASE Write(p, <<"pem", "key">>, new)
  <2>1. <<"pem", "key">> # <<"pem">>
    BY TodoParts
  <2>. QED
    BY <1>2, <1>4, <1>7, <1>8, <2>1, SameEntry, SameStep
<1>9. CASE files["key"] \notin {Absent, Empty} /\ Write(p, <<"pem">>, <<new[1], files["key"][2]>>)
  <2>1. files["pem"] # Absent
    BY <1>4, <1>9, Distinct DEF Settled
  <2>. QED
    BY <1>2, <1>4, <1>7, <1>9, <2>1, SameEntry, SameStep
<1>. QED
  BY <1>2, <1>8, <1>9 DEF RotateStores

\* Deleting takes the certificate, then the key, then the metadata.
LEMMA DeleteStep ==
    ASSUME NEW p, Alone(p), TypeInv, TypeInv', AloneInv(proc[p]), UNCHANGED started,
           DeleteLooks(p) \/ Unlink(p)
    PROVE  AloneInv(proc[p])' /\ StoreStep
<1>. DEFINE x == proc[p]
            t == x.todo
<1>1. p \in Procs /\ x \in Process /\ DOMAIN proc = Procs /\ Shape(x)
      /\ files \in [Files -> Content]
  BY Context
<1>2. x.pc \in {"look", "unlink"} /\ x.op = "delete" /\ UNCHANGED backup
  BY <1>1 DEF DeleteLooks, Unlink, At, Shape
<1>3. DeleteInv(x) /\ Serials(started) /\ ~Written(x) /\ ~x.second
  BY <1>2 DEF AloneInv, Written
<1>4. /\ t \in {<<"pem", "key", "meta">>, <<"key", "meta">>, <<"meta">>}
      /\ t = <<"pem", "key", "meta">> =>
            Settled /\ Target(p) = "pem" /\ Len(t) > 1 /\ Tail(t) = <<"key", "meta">>
      /\ t = <<"key", "meta">> =>
            /\ files["pem"] = Absent /\ files["key"] # Empty
            /\ Target(p) = "key" /\ Len(t) > 1 /\ Tail(t) = <<"meta">>
      /\ t = <<"meta">> => /\ files["pem"] = Absent /\ files["key"] = Absent
                           /\ Target(p) = "meta" /\ ~(Len(t) > 1)
  <2>1. t \in {<<"pem", "key", "meta">>, <<"key", "meta">>, <<"meta">>}
    BY <1>3 DEF DeleteInv
  <2>2. /\ t = <<"pem", "key", "meta">> => t # <<"key", "meta">> /\ t # <<"meta">>
        /\ t = <<"key", "meta">> => t # <<"meta">>
    BY TodoParts
  <2>3. CASE t = <<"pem", "key", "meta">>
    BY <1>3, <2>2, <2>3, TodoParts DEF DeleteInv, Target
  <2>4. CASE t = <<"key", "meta">>
    BY <1>3, <2>2, <2>4, TodoParts DEF DeleteInv, Target
  <2>5. CASE t = <<"meta">>
    BY <1>3, <2>2, <2>5, TodoParts DEF DeleteInv, Target
  <2>. QED
    BY <2>1, <2>2, <2>3, <2>4, <2>5
<1>5. "pem" \in Files /\ "key" \in Files /\ "meta" \in Files
  BY DEF Files
\* the file is gone, and the todo goes on or the operation returns
<1>6. ASSUME files' = [files EXCEPT ![Target(p)] = Absent], DeleteNext(p) \/ Return(p, "error"),
             Return(p, "error") => files[Target(p)] = Absent
      PROVE  AloneInv(proc[p])' /\ StoreStep
  <2>1. /\ files'["pem"] = IF Target(p) = "pem" THEN Absent ELSE files["pem"]
        /\ files'["key"] = IF Target(p) = "key" THEN Absent ELSE files["key"]
    BY <1>1, <1>5, <1>6
  <2>2. Serials(started)'
    BY <1>2, <1>3, <2>1, Distinct DEF Serials
  <2>3. files'["pem"] = Absent /\ files'["key"] # Empty
        /\ (t # <<"pem", "key", "meta">> => files'["key"] = Absent)
    BY <1>4, <2>1, Distinct DEF Settled
  <2>4. AloneInv(proc[p])' /\ ~Written(proc[p])'
    <3>1. ASSUME NEW r, Return(p, r), Settled'
          PROVE  AloneInv(proc[p])' /\ ~Written(proc[p])'
      <4>1. proc'[p] = Resting(x.op, r, x.got)
        BY <1>1, <3>1, StepFrame DEF Return
      <4>2. proc'[p].op = x.op /\ proc'[p].pc = "idle" /\ ~proc'[p].second
        BY <4>1 DEF Resting
      <4>. QED
        BY <1>2, <2>2, <3>1, <4>2 DEF AloneInv, Written
    <3>2. CASE Return(p, "error")
      <4>1. Settled'
        BY <1>4, <1>6, <2>1, <2>3, <3>2, Distinct DEF Settled
      <4>. QED
        BY <3>1, <3>2, <4>1
    <3>3. CASE DeleteNext(p) /\ Len(t) > 1
      <4>1. proc'[p] = [x EXCEPT !.pc = "look", !.todo = Tail(@)]
        BY <1>1, <3>3, StepFrame DEF DeleteNext
      <4>2. proc'[p].op = x.op /\ proc'[p].pc = "look" /\ proc'[p].second = x.second
            /\ proc'[p].todo = Tail(t)
        BY <1>1, <4>1 DEF Process
      <4>3. DeleteInv(proc[p])'
        BY <1>4, <2>3, <3>3, <4>2, TodoParts DEF DeleteInv
      <4>. QED
        BY <1>2, <1>3, <2>2, <4>2, <4>3 DEF AloneInv, Written
    <3>4. CASE DeleteNext(p) /\ ~(Len(t) > 1)
      <4>1. Return(p, "ok") /\ Settled'
        BY <1>4, <2>3, <3>4, TodoParts DEF DeleteNext, Settled
      <4>. QED
        BY <3>1, <4>1
    <3>. QED
      BY <1>6, <3>2, <3>3, <3>4
  <2>5. Entry' = Store!None
    BY <2>3, <2>4, EntryAfter DEF EntryOf, Store!None, Store!Absent, Absent
  <2>. QED
    BY <1>2, <2>4, <2>5 DEF StoreStep, Store!Next, Store!Delete, Archived
<1>7. ASSUME files[Target(p)] = Absent, UNCHANGED files
      PROVE  files' = [files EXCEPT ![Target(p)] = Absent]
  BY <1>1, <1>7
<1>8. CASE DeleteLooks(p)
  <2>1. CASE files[Target(p)] = Absent /\ DeleteNext(p) /\ UNCHANGED files
    <3>1. Return(p, "error") => files[Target(p)] = Absent
      BY <2>1
    <3>. QED
      BY <1>6, <1>7, <2>1, <3>1
  <2>2. CASE Step(p, [x EXCEPT !.pc = "unlink"]) /\ UNCHANGED files
    <3>1. proc'[p] = [x EXCEPT !.pc = "unlink"]
      BY <1>1, <2>2, StepFrame
    <3>2. proc'[p].pc = "unlink" /\ proc'[p].op = x.op /\ proc'[p].second = x.second
          /\ proc'[p].todo = t
      BY <1>1, <3>1 DEF Process
    <3>3. DeleteInv(proc[p])' /\ Serials(started)'
      BY <1>2, <1>3, <2>2, <3>2 DEF DeleteInv, Settled, Serials
    <3>4. AloneInv(proc[p])' /\ ~Written(proc[p])'
      BY <1>2, <1>3, <3>2, <3>3 DEF AloneInv, Written
    <3>5. EntryOf(proc[p])' = EntryOf(x)
      BY <1>3, <2>2, <3>4 DEF EntryOf
    <3>. QED
      BY <1>2, <3>4, <3>5, SameEntry, SameStep
  <2>. QED
    BY <1>8, <2>1, <2>2 DEF DeleteLooks
<1>9. CASE Unlink(p)
  <2>1. CASE files[Target(p)] = Absent
    BY <1>6, <1>7, <1>9, <2>1 DEF Unlink
  <2>2. CASE files[Target(p)] # Absent
    <3>1. DeleteNext(p) /\ files' = [files EXCEPT ![Target(p)] = Absent]
      BY <1>9, <2>2 DEF Unlink
    <3>2. Return(p, "error") => FALSE
      <4>. SUFFICES ASSUME Return(p, "error") PROVE FALSE
        OBVIOUS
      <4>1. proc'[p] = Resting(x.op, "error", x.got)
        BY <1>1, StepFrame DEF Return
      <4>2. proc'[p].pc = "idle" /\ proc'[p].result = "error"
        BY <4>1 DEF Resting
      <4>3. CASE Len(t) > 1
        <5>1. proc'[p] = [x EXCEPT !.pc = "look", !.todo = Tail(@)]
          BY <1>1, <3>1, <4>3, StepFrame DEF DeleteNext
        <5>. QED
          BY <1>1, <4>2, <5>1 DEF Process
      <4>4. CASE ~(Len(t) > 1)
        <5>1. proc'[p] = Resting(x.op, "ok", x.got)
          BY <1>1, <3>1, <4>4, StepFrame DEF DeleteNext, Return
        <5>2. proc'[p].result = "ok"
          BY <5>1 DEF Resting
        <5>. QED
          BY <4>2, <5>2
      <4>. QED
        BY <4>3, <4>4
    <3>. QED
      BY <1>6, <3>1, <3>2
  <2>. QED
    BY <2>1, <2>2
<1>. QED
  BY <1>8, <1>9

\* A new operation: its serial is one more than those there are.
LEMMA BeginsStep ==
    ASSUME NEW p, Alone(p), TypeInv, TypeInv', AloneInv(proc[p]), NEW op \in Ops, Begin(p, op)
    PROVE  AloneInv(proc[p])' /\ StoreStep
<1>. DEFINE x == proc[p]
<1>1. p \in Procs /\ DOMAIN proc = Procs /\ started \in Nat /\ op \notin {"generate", "recertify"}
  BY Context DEF Alone
<1>2. x.pc = "idle" /\ started' = started + 1 /\ UNCHANGED <<files, backup>>
  BY DEF Begin
<1>3. /\ proc'[p].op = op /\ proc'[p].pc = "look" /\ ~proc'[p].second /\ proc'[p].new = Absent
      /\ proc'[p].todo = IF op \in Rotations THEN <<"pem", "key">> ELSE <<"pem", "key", "meta">>
  BY <1>1, BeginStep
<1>4. proc'[p].at = started + 1
  BY <1>1, StepFrame DEF Begin
<1>5. Settled /\ Serials(started) /\ ~Written(x) /\ ~Written(proc[p])'
  BY <1>2, <1>3 DEF AloneInv, Written
<1>6. Settled' /\ Serials(started)' /\ Serials(started - 1)'
  <2>1. \A n : n \in Nat => n + 1 - 1 = n
    OBVIOUS
  <2>2. Serials(started - 1)'
    BY <1>1, <1>2, <1>5, <2>1 DEF Serials
  <2>3. ASSUME NEW c \in Credentials PROVE c[1] \in Nat
    BY BoundAssumption DEF Credentials
  <2>. QED
    BY <1>1, <1>2, <1>5, <2>2, <2>3 DEF Serials, Settled
<1>7. AloneInv(proc[p])'
  BY <1>1, <1>2, <1>3, <1>4, <1>5, <1>6 DEF AloneInv, ReadInv, RotateInv, DeleteInv
<1>8. EntryOf(proc[p])' = EntryOf(x)
  BY <1>2, <1>5 DEF EntryOf
<1>. QED
  BY <1>2, <1>7, <1>8, SameEntry, SameStep

\* Every step keeps the invariant and is one of the abstract store, or none.
LEMMA AloneStep ==
    ASSUME NEW p, Alone(p)
    PROVE  TypeInv /\ TypeInv' /\ AloneInv(proc[p]) /\ [Next]_vars
             => AloneInv(proc[p])' /\ StoreStep
<1>. SUFFICES ASSUME TypeInv, TypeInv', AloneInv(proc[p]), [Next]_vars
              PROVE  AloneInv(proc[p])' /\ StoreStep
  OBVIOUS
<1>1. p \in Procs /\ \A q \in Procs : q = p
  BY DEF Alone
<1>2. CASE \E op \in Ops : Begin(p, op)
  BY <1>2, BeginsStep
<1>3. CASE OpStep(p)
  <2>1. UNCHANGED <<now, started, crashes>>
    BY <1>1, <1>3, OpFrame
  <2>2. CASE \/ Look(p) \/ LookSkips(p) \/ LookFails(p) \/ Read(p) \/ GetReturns(p)
             \/ StartupChecks(p) \/ LocalSignChecks(p) \/ LocalSignReads(p)
    BY <2>2, LooksStep, SameEntry, SameStep
  <2>3. ~GenerateWrites(p)
    BY DEF GenerateWrites, AloneInv
  <2>4. CASE OpenFile(p)
    BY <2>1, <2>4, OpenStep
  <2>5. CASE PutFile(p)
    BY <2>1, <2>5, PutStep
  <2>6. CASE RotateLooks(p)
    BY <2>6, RotateLooksStep
  <2>7. CASE RotateArchives(p)
    BY <2>1, <2>7, RotateArchivesStep
  <2>8. CASE RotateStores(p)
    BY <2>8, RotateStoresStep
  <2>9. CASE DeleteLooks(p) \/ Unlink(p)
    BY <2>1, <2>9, DeleteStep
  <2>. QED
    BY <1>3, <2>2, <2>3, <2>4, <2>5, <2>6, <2>7, <2>8, <2>9 DEF OpStep
<1>4. ~Crash(p)
  BY DEF Crash, Alone, TypeInv
<1>5. CASE Tick \/ UNCHANGED vars
  <2>1. UNCHANGED <<files, backup, proc, started>>
    BY <1>5 DEF Tick, vars
  <2>2. AloneInv(proc[p])'
    BY <2>1 DEF AloneInv, Settled, Serials, Written, ReadInv, RotateInv, DeleteInv, BeforeInv,
                AfterInv
  <2>3. EntryOf(proc[p])' = EntryOf(proc[p])
    BY <2>1 DEF EntryOf, Written
  <2>. QED
    BY <2>1, <2>2, <2>3, SameEntry, SameStep
<1>. QED
  BY <1>1, <1>2, <1>3, <1>4, <1>5 DEF Next

LEMMA AloneInit ==
    ASSUME NEW p, Alone(p)
    PROVE  Init => AloneInv(proc[p]) /\ Store!Init
<1>. SUFFICES ASSUME Init PROVE AloneInv(proc[p]) /\ Store!Init
  OBVIOUS
<1>1. proc[p].pc = "idle" /\ proc[p].op = "none" /\ ~proc[p].second
  <2>1. proc[p] = Resting("none", "none", NothingRead)
    BY DEF Init, Alone
  <2>. QED
    BY <2>1 DEF Resting
<1>2. /\ files["pem"] = Absent /\ files["key"] = Absent
      /\ \A t \in 0..MaxNow : backup[t].pem = Absent /\ backup[t].key = Absent
  BY DEF Init, Files, NoBackup
<1>3. AloneInv(proc[p]) /\ ~Written(proc[p])
  BY <1>1, <1>2, Distinct DEF AloneInv, Settled, Serials, Written
<1>4. Entry = Store!None
  BY <1>2, <1>3, TypeInit, EntryBefore DEF EntryOf, Store!None, Store!Absent, Absent
<1>5. Archived = {}
  BY <1>2 DEF Archived
<1>. QED
  BY <1>3, <1>4, <1>5 DEF Store!Init

\* ImplementsCertStore: used by one process that does not die half way, does not
\* generate over an entry and is given, for a rotation, a certificate of the key
\* that comes with it or is there, and rotating at most once a second, the
\* directory implements the certificate store CertStore: certificate and key
\* belong together between any two file system calls, a provisioning replaces
\* nothing, and a rotation has archived what it replaces.
THEOREM StoreImplemented ==
    ASSUME NEW p, Procs = {p}, ~Hurry, MaxCrashes = 0, "generate" \notin Ops,
           "recertify" \notin Ops
    PROVE  Spec => ImplementsCertStore
<1>1. Alone(p)
  BY DEF Alone
<1>2. Init => TypeInv /\ AloneInv(proc[p]) /\ Store!Init
  BY <1>1, TypeInit, AloneInit
<1>3. TypeInv /\ AloneInv(proc[p]) /\ [Next]_vars
        => TypeInv' /\ AloneInv(proc[p])' /\ [Store!Next]_(Store!vars)
  BY <1>1, TypeStep, AloneStep DEF StoreStep
<1>. QED
  BY <1>2, <1>3, PTL DEF Spec, ImplementsCertStore, Store!Spec
=============================================================================
