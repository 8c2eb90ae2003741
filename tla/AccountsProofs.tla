--------------------------- MODULE AccountsProofs ---------------------------
(***************************************************************************)
(* Theorems about Accounts, for any requests, rows, tokens, processes and  *)
(* bounds.                                                                 *)
(***************************************************************************)
EXTENDS Accounts, FiniteSetTheorems, TLAPS

Pcs == {"idle", "authenticate", "touch", "handle", "flush", "commit"}

\* A request's record has these fields and no other.
Whole(x) ==
    x = [pc |-> x.pc, req |-> x.req, id |-> x.id, user |-> x.user, as |-> x.as, read |-> x.read,
         change |-> x.change, give |-> x.give, saw |-> x.saw, answer |-> x.answer]

ShapeInv ==
    /\ proc = [p \in Procs |-> proc[p]] /\ tx = [p \in Procs |-> tx[p]]
    /\ \A p \in Procs : Whole(proc[p]) /\ proc[p].pc \in Pcs

LEMMA RestingIs ==
    /\ Whole(Resting) /\ Resting.pc = "idle" /\ Resting.give = {} /\ Resting.change = {}
    /\ \A status : /\ Whole([Resting EXCEPT !.answer = status])
                   /\ [Resting EXCEPT !.answer = status].pc = "idle"
                   /\ [Resting EXCEPT !.answer = status].give = {}
                   /\ [Resting EXCEPT !.answer = status].answer = status
BY DEF Whole, Resting

LEMMA ShapeInit == Init => ShapeInv
BY RestingIs DEF Init, ShapeInv, Pcs

\* What the steps of p but the first and the last make of its record x.
Moves(x, y) ==
    \/ \E status : y = [Resting EXCEPT !.answer = status]
    \/ /\ x.pc # "idle"
       /\ \/ \E u : y = [x EXCEPT !.pc = "handle", !.user = u, !.as = db[u]]
          \/ \E pc \in {"touch", "commit"} : y = [x EXCEPT !.pc = pc]
          \/ \E pc \in {"flush", "commit"} : \E read, change, give :
                y = [x EXCEPT !.pc = pc, !.read = read, !.change = change, !.give = give]

LEMMA MovesKeep ==
    ASSUME NEW x, Whole(x), NEW y, Moves(x, y)
    PROVE  /\ Whole(y) /\ y.pc \in Pcs
           /\ y.pc # "idle" =>
                x.pc # "idle" /\ y.req = x.req /\ y.id = x.id /\ y.saw = x.saw /\ y.answer = x.answer
BY DEF Moves, Whole, Pcs, Resting

LEMMA StepFacts ==
    ASSUME ShapeInv, NEW p \in Procs, NEW y, Step(p, y)
    PROVE  /\ proc' = [q \in Procs |-> proc'[q]] /\ proc'[p] = y
           /\ \A q \in Procs \ {p} : proc'[q] = proc[q]
BY DEF ShapeInv, Step

LEMMA TxFacts ==
    ASSUME ShapeInv, NEW p \in Procs
    PROVE  /\ \A ws : Flush(p, ws) =>
                /\ tx' = [q \in Procs |-> tx'[q]] /\ tx'[p] = tx[p] \cup ws /\ db' = db
                /\ \A q \in Procs \ {p} : tx'[q] = tx[q]
           /\ RollbackTx(p) =>
                /\ tx' = [q \in Procs |-> tx'[q]] /\ tx'[p] = {} /\ db' = db
                /\ \A q \in Procs \ {p} : tx'[q] = tx[q]
           /\ CommitTx(p) =>
                /\ tx' = [q \in Procs |-> tx'[q]] /\ tx'[p] = {}
                /\ \A q \in Procs \ {p} : tx'[q] = tx[q]
BY DEF ShapeInv, Flush, RollbackTx, CommitTx

Ends(p, status) == RollbackTx(p) /\ Step(p, [Resting EXCEPT !.answer = status])

LEMMA FailIs == \A p, status : Fail(p, status) <=> Ends(p, status)
BY DEF Fail, Done, Ends

Begins(p) == started < MaxOps /\ \E r \in Requests[started + 1] : Begin(p, r)
Works(p) ==
    \/ Authenticate(p) \/ Touch(p) \/ Handle(p) \/ FlushWrites(p) \/ Unfit(p) \/ Abort(p) \/ Victim(p)

LEMMA NextIs ==
    ASSUME [Next]_vars
    PROVE  \/ \E p \in Procs : Begins(p)
           \/ \E p \in Procs : Works(p)
           \/ \E p \in Procs : Commit(p)
           \/ UNCHANGED <<dbVars, tokens, proc, started>>
BY DEF Next, Begins, Works, Expire, vars

LEMMA ActsAs ==
    ASSUME NEW p, NEW u, ActAs(p, u)
    PROVE  \/ Entitled(db[u], Req(p).op) /\ Step(p, [proc[p] EXCEPT !.pc = "handle", !.user = u, !.as = db[u]])
           \/ ~Entitled(db[u], Req(p).op) /\ Step(p, [Resting EXCEPT !.answer = 403])
BY DEF ActAs, Done

\* Who waits in a circle is about to write.
LEMMA CycleWaits ==
    ASSUME NEW S, Cycle(S), NEW p \in S
    PROVE  proc[p].pc \in {"touch", "flush"}
<1>1. PICK q \in S : Waits(p, q)
  BY DEF Cycle
<1>2. Pending(p) # {}
  BY <1>1 DEF Waits
<1>. QED
  BY <1>2 DEF Pending, At

LEMMA WorksIs ==
    ASSUME ShapeInv, NEW p \in Procs, Works(p)
    PROVE  /\ \E y : Moves(proc[p], y) /\ Step(p, y)
           /\ proc[p].pc # "idle" /\ db' = db /\ started' = started /\ tokens' = tokens
           /\ tx' = tx \/ RollbackTx(p) \/ (\E ws : Flush(p, ws))
<1>0. started' = started /\ tokens' = tokens /\ proc[p].pc # "idle"
  BY CycleWaits DEF Works, Authenticate, Touch, Handle, FlushWrites, Unfit, Abort, Victim, At
<1>1. CASE Authenticate(p)
  <2>1. db' = db /\ tx' = tx
    BY <1>1 DEF Authenticate, dbVars
  <2>2. CASE \E u : ActAs(p, u)
    BY <1>0, <2>1, <2>2, ActsAs DEF Moves
  <2>3. CASE Goto(p, "touch") \/ Step(p, Done(p, 401))
    BY <1>0, <2>1, <2>3 DEF Moves, Goto, Done
  <2>. QED
    BY <1>1, <2>2, <2>3 DEF Authenticate
<1>2. CASE Touch(p)
  <2>1. \E u : ActAs(p, u)
    BY <1>2 DEF Touch
  <2>2. \E y : Moves(proc[p], y) /\ Step(p, y)
    BY <1>0, <2>1, ActsAs DEF Moves
  <2>3. RollbackTx(p) \/ (\E ws : Flush(p, ws))
    BY <1>2 DEF Touch
  <2>. QED
    BY <1>0, <2>2, <2>3 DEF RollbackTx, Flush
<1>3. CASE Handle(p)
  <2>1. PICK o : o = Outcome(p)
    OBVIOUS
  <2>2. CASE o.status = 200
    <3>1. /\ Step(p, [proc[p] EXCEPT !.pc = IF o.change = {} /\ Req(p).fits THEN "commit" ELSE "flush",
                                     !.read = o.read, !.change = o.change, !.give = o.give])
          /\ db' = db /\ tx' = tx
      BY <1>3, <2>1, <2>2 DEF Handle, dbVars
    <3>. QED
      BY <1>0, <3>1 DEF Moves
  <2>3. CASE o.status # 200
    <3>1. Ends(p, o.status)
      BY <1>3, <2>1, <2>3, FailIs DEF Handle
    <3>. QED
      BY <1>0, <3>1 DEF Moves, Ends, RollbackTx
  <2>. QED
    BY <2>2, <2>3
<1>4. CASE FlushWrites(p)
  <2>1. CASE Ends(p, 500)
    <3>1. \E status : Ends(p, status)
      BY <2>1
    <3>. QED
      BY <1>0, <3>1 DEF Moves, Ends, RollbackTx
  <2>2. CASE Flush(p, proc[p].change) /\ Goto(p, "commit")
    BY <1>0, <2>2 DEF Moves, Goto, Flush
  <2>. QED
    BY <1>4, <2>1, <2>2, FailIs DEF FlushWrites
<1>5. CASE Unfit(p) \/ Abort(p) \/ Victim(p)
  <2>1. \E status : Ends(p, status)
    BY <1>5, FailIs DEF Unfit, Abort, Victim
  <2>. QED
    BY <1>0, <2>1 DEF Moves, Ends, RollbackTx
<1>. QED
  BY <1>1, <1>2, <1>3, <1>4, <1>5 DEF Works

\* A request begins.
Starts(r, n, y) ==
    /\ Whole(y) /\ y.pc = (IF r.op \in Public THEN "handle" ELSE "authenticate") /\ y.pc \in Pcs
    /\ y.req = r /\ y.id = n /\ y.saw = {db} /\ y.give = {} /\ y.change = {} /\ y.answer = 0

LEMMA BeginIs ==
    ASSUME NEW p \in Procs, Begins(p)
    PROVE  /\ started < MaxOps /\ started' = started + 1 /\ proc[p].pc = "idle"
           /\ \E r \in Requests[started + 1] : \E y : Step(p, y) /\ Starts(r, started + 1, y)
           /\ db' = db /\ tx' = tx /\ tokens' = tokens
<1>1. PICK r \in Requests[started + 1] : Begin(p, r) /\ started < MaxOps
  BY DEF Begins
<1>2. PICK y : y = [Resting EXCEPT !.pc = IF r.op \in Public THEN "handle" ELSE "authenticate",
                                   !.req = r, !.id = started + 1, !.saw = {db}]
  OBVIOUS
<1>3. Starts(r, started + 1, y)
  BY <1>2 DEF Starts, Whole, Resting, Unserved, Pcs
<1>. QED
  BY <1>1, <1>2, <1>3 DEF Begin, dbVars, At

\* A commit answers 200, and the requests under way have seen another state.
LEMMA CommitIs ==
    ASSUME ShapeInv, NEW p \in Procs, Commit(p)
    PROVE  /\ proc[p].pc = "commit" /\ CommitTx(p) /\ started' = started
           /\ proc' = [q \in Procs |-> proc'[q]] /\ proc'[p] = [Resting EXCEPT !.answer = 200]
           /\ \A q \in Procs \ {p} :
                /\ proc[q].pc = "idle" => proc'[q] = proc[q]
                /\ \A s : s = db' /\ proc[q].pc # "idle" => proc'[q] = [proc[q] EXCEPT !.saw = @ \cup {s}]
           /\ proc'[p].pc = "idle" /\ tokens' = tokens \cup proc[p].give
<1>1. PICK s : s = db'
  OBVIOUS
<1>2. proc' = [q \in Procs |->
            IF q = p THEN [Resting EXCEPT !.answer = 200]
            ELSE IF proc[q].pc = "idle" THEN proc[q]
            ELSE [proc[q] EXCEPT !.saw = @ \cup {s}]]
  BY <1>1 DEF Commit, Done, At
<1>3. [Resting EXCEPT !.answer = 200].pc = "idle"
  BY RestingIs
<1>. QED
  BY <1>1, <1>2, <1>3 DEF Commit, At

LEMMA ShapeStep == ShapeInv /\ [Next]_vars => ShapeInv'
<1>. SUFFICES ASSUME ShapeInv, [Next]_vars PROVE ShapeInv'
  OBVIOUS
<1>0. ASSUME NEW p \in Procs, NEW y, Whole(y), y.pc \in Pcs, Step(p, y), tx' = tx PROVE ShapeInv'
  BY <1>0, StepFacts DEF ShapeInv
<1>1. ASSUME NEW p \in Procs, Works(p) PROVE ShapeInv'
  <2>1. PICK y : Moves(proc[p], y) /\ Step(p, y)
    BY <1>1, WorksIs
  <2>2. /\ proc' = [q \in Procs |-> proc'[q]] /\ proc'[p] = y
        /\ \A q \in Procs \ {p} : proc'[q] = proc[q]
    BY <2>1, StepFacts
  <2>3. tx' = [q \in Procs |-> tx'[q]]
    BY <1>1, WorksIs, TxFacts DEF ShapeInv
  <2>4. Whole(y) /\ y.pc \in Pcs
    BY <2>1, MovesKeep DEF ShapeInv
  <2>. QED
    BY <2>2, <2>3, <2>4 DEF ShapeInv
<1>2. ASSUME NEW p \in Procs, Commit(p) PROVE ShapeInv'
  <2>1. tx' = [q \in Procs |-> tx'[q]]
    BY <1>2, CommitIs, TxFacts
  <2>2. \A q \in Procs \ {p} : Whole(proc'[q]) /\ proc'[q].pc \in Pcs
    <3>1. TAKE q \in Procs \ {p}
    <3>2. PICK x : x = proc[q] /\ Whole(x) /\ x.pc \in Pcs
      BY DEF ShapeInv
    <3>3. PICK s : s = db'
      OBVIOUS
    <3>4. proc'[q] = x \/ proc'[q] = [x EXCEPT !.saw = @ \cup {s}]
      BY <1>2, <3>2, <3>3, CommitIs
    <3>5. ASSUME NEW y, y = [x EXCEPT !.saw = @ \cup {s}] PROVE Whole(y) /\ y.pc = x.pc
      BY <3>2, <3>5 DEF Whole
    <3>. QED
      BY <3>2, <3>4, <3>5
  <2>3. PICK y : y = proc'[p] /\ y = [Resting EXCEPT !.answer = 200]
    BY <1>2, CommitIs
  <2>4. Whole(y) /\ y.pc \in Pcs
    BY <2>3, RestingIs DEF Pcs
  <2>. QED
    BY <1>2, <2>1, <2>2, <2>3, <2>4, CommitIs DEF ShapeInv
<1>3. ASSUME UNCHANGED <<dbVars, tokens, proc, started>> PROVE ShapeInv'
  BY <1>3 DEF ShapeInv, dbVars
<1>4. ASSUME NEW p \in Procs, Begins(p) PROVE ShapeInv'
  <2>1. PICK y, r : Step(p, y) /\ Starts(r, started + 1, y)
    BY <1>4, BeginIs
  <2>. QED
    BY <1>0, <1>4, <2>1, BeginIs DEF Starts
<1>. QED
  BY <1>1, <1>2, <1>3, <1>4, NextIs

-----------------------------------------------------------------------------
(***************************************************************************)
(* The requests under way are numbered in the order they began.            *)
(***************************************************************************)
Bodies == UNION {Requests[n] : n \in 1..MaxOps}

NumbersInv ==
    /\ started \in 0..MaxOps
    /\ \A p \in Procs : proc[p].pc # "idle" => proc[p].req \in Bodies /\ proc[p].id \in 1..started
    /\ \A p, q \in Procs :
        proc[p].pc # "idle" /\ proc[q].pc # "idle" /\ proc[p].id = proc[q].id => p = q

\* What a commit changes in the record of a request under way.
Sees(x, y, s) ==
    /\ Whole(y) /\ y = [x EXCEPT !.saw = @ \cup {s}] /\ y.saw = x.saw \cup {s}
    /\ y.pc = x.pc /\ y.req = x.req /\ y.id = x.id /\ y.user = x.user /\ y.as = x.as
    /\ y.read = x.read /\ y.change = x.change /\ y.give = x.give /\ y.answer = x.answer

LEMMA SeesIs ==
    ASSUME NEW x, Whole(x), NEW s
    PROVE  Sees(x, [x EXCEPT !.saw = @ \cup {s}], s)
BY DEF Whole, Sees

LEMMA CommitSees ==
    ASSUME ShapeInv, NEW p \in Procs, Commit(p), NEW s, s = db', NEW q \in Procs \ {p}
    PROVE  \/ proc[q].pc = "idle" /\ proc'[q] = proc[q]
           \/ proc[q].pc # "idle" /\ Sees(proc[q], proc'[q], s)
<1>1. /\ proc[q].pc = "idle" => proc'[q] = proc[q]
      /\ proc[q].pc # "idle" => proc'[q] = [proc[q] EXCEPT !.saw = @ \cup {s}]
  BY CommitIs
<1>2. Sees(proc[q], [proc[q] EXCEPT !.saw = @ \cup {s}], s)
  BY SeesIs DEF ShapeInv
<1>. QED
  BY <1>1, <1>2

LEMMA NumbersInit == Init => NumbersInv
BY OpsAssumption, RestingIs DEF Init, NumbersInv

LEMMA NumbersStep == ShapeInv /\ NumbersInv /\ [Next]_vars => NumbersInv'
<1>. SUFFICES ASSUME ShapeInv, NumbersInv, [Next]_vars PROVE NumbersInv'
  OBVIOUS
<1>0. started \in Nat /\ MaxOps \in Nat
  BY OpsAssumption DEF NumbersInv
<1>1. ASSUME NEW p \in Procs, Begins(p) PROVE NumbersInv'
  <2>1. PICK r, y : r \in Requests[started + 1] /\ Step(p, y) /\ Starts(r, started + 1, y)
    BY <1>1, BeginIs
  <2>2. started < MaxOps /\ started' = started + 1 /\ started + 1 \in 1..MaxOps
    BY <1>0, <1>1, BeginIs
  <2>4. r \in Bodies
    BY <2>1, <2>2 DEF Bodies
  <2>3. y.req = r /\ y.id = started + 1 /\ proc'[p] = y /\ \A q \in Procs \ {p} : proc'[q] = proc[q]
    BY <2>1, StepFacts DEF Starts
  <2>. QED
    BY <1>0, <2>2, <2>3, <2>4 DEF NumbersInv
<1>2. ASSUME NEW p \in Procs, started' = started, \A q \in Procs \ {p} : proc'[q] = proc[q],
             proc'[p].pc # "idle" =>
                proc[p].pc # "idle" /\ proc'[p].req = proc[p].req /\ proc'[p].id = proc[p].id
      PROVE  NumbersInv'
  BY <1>2 DEF NumbersInv
<1>3. ASSUME NEW p \in Procs, Works(p) PROVE NumbersInv'
  <2>1. PICK y : Moves(proc[p], y) /\ Step(p, y)
    BY <1>3, WorksIs
  <2>2. proc'[p] = y /\ \A q \in Procs \ {p} : proc'[q] = proc[q]
    BY <2>1, StepFacts
  <2>3. y.pc # "idle" => proc[p].pc # "idle" /\ y.req = proc[p].req /\ y.id = proc[p].id
    BY <2>1, MovesKeep DEF ShapeInv
  <2>. QED
    BY <1>2, <1>3, <2>2, <2>3, WorksIs
<1>4. ASSUME NEW p \in Procs, Commit(p) PROVE NumbersInv'
  <2>1. \A q \in Procs : proc'[q].pc # "idle" =>
            proc[q].pc # "idle" /\ proc'[q].req = proc[q].req /\ proc'[q].id = proc[q].id
    <3>1. proc'[p].pc = "idle"
      BY <1>4, CommitIs
    <3>2. \A q \in Procs \ {p} :
            \/ proc[q].pc = "idle" /\ proc'[q] = proc[q]
            \/ proc[q].pc # "idle" /\ proc'[q].req = proc[q].req /\ proc'[q].id = proc[q].id
      BY <1>4, CommitSees DEF Sees
    <3>. QED
      BY <3>1, <3>2
  <2>2. started' = started
    BY <1>4, CommitIs
  <2>. QED
    BY <2>1, <2>2 DEF NumbersInv
<1>. QED
  BY <1>1, <1>3, <1>4, NextIs DEF NumbersInv

-----------------------------------------------------------------------------
(***************************************************************************)
(* Authority.  A request has seen the state it looked its credential up    *)
(* in, and what it decides on is what that state allows.                   *)
(***************************************************************************)
KeyLived(x) == \E s \in x.saw : s[x.req.key].active
Marked(x, ws) == Update(x.req.key, [used |-> TRUE]) \subseteq ws

Allowed(x, ws) ==
    /\ \E s \in x.saw : Entitled(s[x.user], x.req.op)
    /\ x.user[2] = x.req.token.user \/ (Marked(x, ws) /\ KeyLived(x))

Given(x) ==
    \A t \in x.give : t.type = "access" =>
        \E s \in x.saw : s[<<"user", t.user>>].active /\ s[<<"user", t.user>>].role = t.role

\* Of a request x whose writes are ws, when d is committed.
Rightful(x, ws, d) ==
    /\ x.pc # "idle" => d \in x.saw
    /\ x.pc = "touch" => KeyLived(x)
    /\ x.pc \in {"handle", "flush", "commit"} /\ x.req.op \notin Public => Allowed(x, ws)
    /\ Given(x)

AuthInv == \A p \in Procs : Rightful(proc[p], tx[p], db)

\* Who writes more and sees more keeps its right.
LEMMA RightKept ==
    ASSUME NEW x, Whole(x), NEW ws, NEW d, Rightful(x, ws, d), NEW vs, ws \subseteq vs, NEW e,
           NEW y, (y = x /\ (x.pc # "idle" => e = d)) \/ y = [x EXCEPT !.saw = @ \cup {e}]
    PROVE  Rightful(y, vs, e)
<1>1. /\ y.pc = x.pc /\ y.req = x.req /\ y.user = x.user /\ y.give = x.give
      /\ x.saw \subseteq y.saw /\ (x.pc # "idle" => e \in y.saw)
  BY DEF Whole, Rightful
<1>2. KeyLived(x) => KeyLived(y)
  BY <1>1 DEF KeyLived
<1>3. Allowed(x, ws) => Allowed(y, vs)
  BY <1>1, <1>2 DEF Allowed, Marked
<1>4. Given(x) => Given(y)
  BY <1>1 DEF Given
<1>. QED
  BY <1>1, <1>2, <1>3, <1>4 DEF Rightful

LEMMA RestRightful ==
    ASSUME NEW status, NEW ws, NEW d
    PROVE  Rightful([Resting EXCEPT !.answer = status], ws, d)
<1>1. PICK y : y = [Resting EXCEPT !.answer = status]
  OBVIOUS
<1>2. y.pc = "idle" /\ y.give = {}
  BY <1>1, RestingIs
<1>3. Rightful(y, ws, d)
  BY <1>2 DEF Rightful, Given
<1>. QED
  BY <1>1, <1>3

LEMMA RowsAre ==
    \A table, r : r \in Rows(table) => r = <<table, r[2]>> /\ db[r] # NoRow /\ r \in Refs
BY DEF Rows, Refs

LEMMA BodiesAre ==
    \A r \in Bodies :
        /\ r.op \in Ops /\ r.key \in {NoKey} \cup {"key"} \X Ids
        /\ r.op \in Updates =>
            /\ r.target \in {Subject(r.op)} \X (Ids \cup {Unparsed})
            /\ DOMAIN r.set \subseteq Changes(r.op)
            /\ "team" \in DOMAIN r.set => r.set.team \in Ids \cup {NoTeam, Unparsed}
        /\ r.op \in {"delete_webhook", "revoke_key"} =>
            r.target \in {Subject(r.op)} \X (Ids \cup {Unparsed})
BY RequestsAssumption DEF Bodies

\* The ids of a request that is accepted are ids.
LEMMA AcceptedIds ==
    ASSUME NEW p, NEW r \in Bodies, Req(p) = r, Outcome(p).status = 200
    PROVE  /\ r.op \in Updates =>
                /\ r.target \in {Subject(r.op)} \X Ids
                /\ "team" \in DOMAIN r.set => r.set.team \in Ids \cup {NoTeam}
           /\ r.op \in {"delete_webhook", "revoke_key"} => r.target \in {Subject(r.op)} \X Ids
<1>1. ASSUME NEW o, ById(p, o).status = 200
      PROVE  r.target[2] # Unparsed /\ ById(p, o) = o
  BY <1>1 DEF ById, Refuse
<1>2. CASE r.op \in {"delete_webhook", "revoke_key"}
  <2>1. \E o : Outcome(p) = ById(p, o)
    BY <1>2 DEF Outcome, revoke_api_key, delete_webhook
  <2>. QED
    BY <1>1, <1>2, <2>1, BodiesAre DEF Updates
<1>3. CASE r.op \in {"update_team", "update_webhook"}
  <2>1. \E o : Outcome(p) = ById(p, o)
    BY <1>3 DEF Outcome, update_team, update_webhook
  <2>2. "team" \notin Changes(r.op)
    BY <1>3 DEF Changes
  <2>. QED
    BY <1>1, <1>3, <2>1, <2>2, BodiesAre DEF Updates
<1>4. CASE r.op = "update_user"
  <2>1. PICK o : Outcome(p) = ById(p, o) /\ (BadTeam(r.set) => o.status # 200)
    BY <1>4 DEF Outcome, update_user, BadTeam, ById, Refuse
  <2>2. ~BadTeam(r.set) /\ r.target[2] # Unparsed
    BY <1>1, <2>1
  <2>. QED
    BY <1>4, <2>2, BodiesAre DEF Updates, BadTeam
<1>. QED
  BY <1>2, <1>3, <1>4 DEF Updates

\* Only login and refresh_token give tokens, to an account that is enabled.
LEMMA OutcomeGives ==
    ASSUME NEW p, Req(p).op \in Ops, Outcome(p).status = 200,
           NEW t \in Outcome(p).give, t.type = "access"
    PROVE  db[<<"user", t.user>>].active /\ db[<<"user", t.user>>].role = t.role
<1>t. ASSUME NEW u, t \in Tokens(u) PROVE t.user = u[2] /\ t.role = db[u].role
  BY <1>t DEF Tokens
<1>1. CASE Req(p).op = "login"
  <2>1. PICK users : users = {u \in Rows("user") : db[u].username = Req(p).username
                                                   /\ db[u].password = Req(p).password}
    OBVIOUS
  <2>2. PICK u : u = CHOOSE v \in users : TRUE
    OBVIOUS
  <2>3. /\ users # {} /\ db[u].active /\ t \in Tokens(u)
    BY <1>1, <2>1, <2>2 DEF Outcome, login, Refuse, Accept
  <2>4. u = <<"user", u[2]>>
    BY <2>1, <2>2, <2>3, RowsAre
  <2>. QED
    BY <1>t, <2>3, <2>4
<1>2. CASE Req(p).op = "refresh"
  <2>1. PICK u : u = <<"user", Req(p).token.user>>
    OBVIOUS
  <2>2. db[u].active /\ t \in Tokens(u)
    BY <1>2, <2>1 DEF Outcome, refresh_token, Refuse, Accept
  <2>. QED
    BY <1>t, <2>1, <2>2
<1>3. CASE Req(p).op \notin {"login", "refresh"}
  <2>1. Outcome(p).give = {}
    BY <1>3 DEF Outcome, Ops, Public, Updates, register, create_api_key, revoke_api_key, update_user,
        create_team, update_team, create_profile, create_webhook, update_webhook, delete_webhook,
        ById, BadTeam, Refuse, Accept
  <2>. QED
    BY <2>1
<1>. QED
  BY <1>1, <1>2, <1>3

LEMMA AuthWorks ==
    ASSUME ShapeInv, NumbersInv, AuthInv, NEW p \in Procs, Works(p)
    PROVE  Rightful(proc[p], tx[p], db)'
<1>x. PICK x, ws, d : x = proc[p] /\ ws = tx[p] /\ d = db
  OBVIOUS
<1>0. Whole(x) /\ Rightful(x, ws, d) /\ (x.pc # "idle" => x.req \in Bodies)
  BY <1>x DEF ShapeInv, AuthInv, NumbersInv
<1>1. ASSUME NEW y, NEW vs, Step(p, y), db' = db, vs = tx'[p], Rightful(y, vs, d)
      PROVE  Rightful(proc[p], tx[p], db)'
  <2>1. proc'[p] = y /\ tx'[p] = vs /\ db' = d
    BY <1>x, <1>1, StepFacts
  <2>. QED
    BY <1>1, <2>1
<1>2. ASSUME \E status : Ends(p, status) PROVE Rightful(proc[p], tx[p], db)'
  <2>1. PICK status : Ends(p, status)
    BY <1>2
  <2>2. PICK y : y = [Resting EXCEPT !.answer = status]
    OBVIOUS
  <2>. QED
    BY <1>1, <2>1, <2>2, RestRightful DEF Ends, RollbackTx
<1>3. CASE Authenticate(p)
  <2>1. /\ x.pc = "authenticate" /\ db' = db /\ tx' = tx
        /\ IF Valid(x.req.token, "access") THEN ActAs(p, <<"user", x.req.token.user>>)
           ELSE IF x.req.key # NoKey /\ d[x.req.key] # NoRow /\ d[x.req.key].active
                     /\ x.req.key \notin expired
           THEN Goto(p, "touch") ELSE Step(p, Done(p, 401))
    BY <1>3, <1>x DEF Authenticate, dbVars, At, Req
  <2>2. d \in x.saw /\ Given(x)
    BY <1>0, <2>1 DEF Rightful
  <2>3. CASE ActAs(p, <<"user", x.req.token.user>>)
    <3>u. PICK u : u = <<"user", x.req.token.user>>
      OBVIOUS
    <3>1. u = <<"user", x.req.token.user>> /\ u[2] = x.req.token.user
      BY <3>u
    <3>2. CASE Entitled(d[u], x.req.op) /\ Step(p, [x EXCEPT !.pc = "handle", !.user = u, !.as = d[u]])
      <4>1. PICK y : y = [x EXCEPT !.pc = "handle", !.user = u, !.as = d[u]]
        OBVIOUS
      <4>2. y.pc = "handle" /\ y.user = u /\ y.req = x.req /\ y.saw = x.saw /\ y.give = x.give
        BY <1>0, <4>1 DEF Whole
      <4>3. Rightful(y, ws, d)
        BY <2>2, <3>1, <3>2, <4>2 DEF Rightful, Allowed, Given
      <4>. QED
        BY <1>x, <1>1, <2>1, <3>2, <4>1, <4>3
    <3>3. CASE Step(p, [Resting EXCEPT !.answer = 403])
      BY <1>1, <2>1, <3>3, RestRightful
    <3>. QED
      BY <1>x, <2>3, <3>1, <3>2, <3>3, ActsAs DEF Req
  <2>4. CASE Goto(p, "touch") /\ d[x.req.key].active
    <3>1. PICK y : y = [x EXCEPT !.pc = "touch"]
      OBVIOUS
    <3>2. y.pc = "touch" /\ y.req = x.req /\ y.saw = x.saw /\ y.give = x.give
      BY <1>0, <3>1 DEF Whole
    <3>3. Rightful(y, ws, d)
      BY <2>2, <2>4, <3>2 DEF Rightful, KeyLived, Given
    <3>. QED
      BY <1>x, <1>1, <2>1, <2>4, <3>1, <3>3 DEF Goto
  <2>5. CASE Step(p, Done(p, 401))
    BY <1>1, <2>1, <2>5, RestRightful DEF Done
  <2>. QED
    BY <2>1, <2>3, <2>4, <2>5
<1>4. CASE Touch(p)
  <2>1. PICK u : /\ x.pc = "touch" /\ ActAs(p, u)
                 /\ IF Entitled(d[u], x.req.op) THEN Flush(p, TouchWrite(p)) ELSE RollbackTx(p)
    BY <1>4, <1>x DEF Touch, At, Req
  <2>2. d \in x.saw /\ Given(x) /\ KeyLived(x)
    BY <1>0, <2>1 DEF Rightful
  <2>3. CASE Entitled(d[u], x.req.op)
    <3>1. PICK y : y = [x EXCEPT !.pc = "handle", !.user = u, !.as = d[u]] /\ Step(p, y)
      BY <1>x, <2>1, <2>3, ActsAs DEF Req
    <3>2. y.pc = "handle" /\ y.user = u /\ y.req = x.req /\ y.saw = x.saw /\ y.give = x.give
      BY <1>0, <3>1 DEF Whole
    <3>3. PICK vs : vs = tx'[p]
      OBVIOUS
    <3>4. db' = db /\ vs = ws \cup Update(x.req.key, [used |-> TRUE])
      BY <1>x, <2>1, <2>3, <3>3, TxFacts DEF TouchWrite, Req
    <3>5. Rightful(y, vs, d)
      BY <2>2, <2>3, <3>2, <3>4 DEF Rightful, Allowed, Marked, KeyLived, Given
    <3>. QED
      BY <1>1, <3>1, <3>3, <3>4, <3>5
  <2>4. CASE ~Entitled(d[u], x.req.op)
    <3>1. Ends(p, 403)
      BY <1>x, <2>1, <2>4, ActsAs DEF Req, Ends
    <3>. QED
      BY <1>2, <3>1
  <2>. QED
    BY <2>3, <2>4
<1>5. CASE Handle(p)
  <2>1. PICK o : o = Outcome(p)
    OBVIOUS
  <2>2. CASE o.status # 200
    <3>1. Ends(p, o.status)
      BY <1>5, <2>1, <2>2, FailIs DEF Handle
    <3>. QED
      BY <1>2, <3>1
  <2>3. CASE o.status = 200
    <3>1. /\ Step(p, [x EXCEPT !.pc = IF o.change = {} /\ x.req.fits THEN "commit" ELSE "flush",
                               !.read = o.read, !.change = o.change, !.give = o.give])
          /\ db' = db /\ tx' = tx /\ x.pc = "handle"
      BY <1>5, <1>x, <2>1, <2>3 DEF Handle, dbVars, At, Req
    <3>2. PICK y : y = [x EXCEPT !.pc = IF o.change = {} /\ x.req.fits THEN "commit" ELSE "flush",
                                 !.read = o.read, !.change = o.change, !.give = o.give]
      OBVIOUS
    <3>3. /\ y.pc \in {"flush", "commit"} /\ y.user = x.user /\ y.req = x.req /\ y.saw = x.saw
          /\ y.give = o.give
      BY <1>0, <3>2 DEF Whole
    <3>4. d \in x.saw /\ (x.req.op \notin Public => Allowed(x, ws))
      BY <1>0, <3>1 DEF Rightful
    <3>5. x.req.op \in Ops
      BY <1>0, <3>1, BodiesAre
    <3>6. \A t \in o.give : t.type = "access" =>
                d[<<"user", t.user>>].active /\ d[<<"user", t.user>>].role = t.role
      BY <1>x, <2>1, <2>3, <3>5, OutcomeGives DEF Req
    <3>7. Given(y)
      BY <3>3, <3>4, <3>6 DEF Given
    <3>8. Allowed(x, ws) => Allowed(y, ws)
      BY <3>3 DEF Allowed, Marked, KeyLived
    <3>9. Rightful(y, ws, d)
      BY <3>3, <3>4, <3>7, <3>8 DEF Rightful
    <3>. QED
      BY <1>x, <1>1, <3>1, <3>2, <3>9
  <2>. QED
    BY <2>2, <2>3
<1>6. CASE FlushWrites(p)
  <2>1. CASE Ends(p, 500)
    <3>1. \E status : Ends(p, status)
      BY <2>1
    <3>. QED
      BY <1>2, <3>1
  <2>2. CASE Flush(p, proc[p].change) /\ Goto(p, "commit")
    <3>1. PICK y : y = [x EXCEPT !.pc = "commit"] /\ Step(p, y)
      BY <1>x, <2>2 DEF Goto
    <3>2. x.pc = "flush"
      BY <1>6, <1>x DEF FlushWrites, At
    <3>3. y.pc = "commit" /\ y.user = x.user /\ y.req = x.req /\ y.saw = x.saw /\ y.give = x.give
      BY <1>0, <3>1 DEF Whole
    <3>4. PICK vs : vs = tx'[p] /\ ws \subseteq vs /\ db' = db
      BY <1>x, <2>2, TxFacts
    <3>5. Rightful(y, vs, d)
      BY <1>0, <3>2, <3>3, <3>4 DEF Rightful, Allowed, Marked, KeyLived, Given
    <3>. QED
      BY <1>1, <3>1, <3>4, <3>5
  <2>. QED
    BY <1>6, <2>1, <2>2, FailIs DEF FlushWrites
<1>7. CASE Unfit(p) \/ Abort(p) \/ Victim(p)
  <2>1. \E status : Ends(p, status)
    BY <1>7, FailIs DEF Unfit, Abort, Victim
  <2>. QED
    BY <1>2, <2>1
<1>. QED
  BY <1>3, <1>4, <1>5, <1>6, <1>7 DEF Works

LEMMA AuthInit == Init => AuthInv
<1>. SUFFICES ASSUME Init, NEW p \in Procs PROVE Rightful(proc[p], tx[p], db)
  BY DEF AuthInv
<1>1. proc[p] = Resting
  BY DEF Init
<1>. QED
  BY <1>1, RestingIs DEF Rightful, Given

LEMMA AuthStep == ShapeInv /\ NumbersInv /\ AuthInv /\ [Next]_vars => AuthInv'
<1>. SUFFICES ASSUME ShapeInv, NumbersInv, AuthInv, [Next]_vars, NEW q \in Procs
              PROVE  Rightful(proc[q], tx[q], db)'
  BY DEF AuthInv
<1>x. PICK x, ws, d : x = proc[q] /\ ws = tx[q] /\ d = db
  OBVIOUS
<1>y. PICK y, vs, e : y = proc'[q] /\ vs = tx'[q] /\ e = db'
  OBVIOUS
<1>0. Whole(x) /\ Rightful(x, ws, d)
  BY <1>x DEF ShapeInv, AuthInv
<1>1. ASSUME y = x, e = d, ws \subseteq vs PROVE Rightful(y, vs, e)
  BY <1>0, <1>1, RightKept
<1>2. ASSUME NEW p \in Procs, Begins(p) PROVE Rightful(y, vs, e)
  <2>1. PICK r, z : Step(p, z) /\ Starts(r, started + 1, z)
    BY <1>2, BeginIs
  <2>2. e = d /\ vs = ws
    BY <1>2, <1>x, <1>y, BeginIs
  <2>3. CASE p # q
    BY <1>x, <1>y, <1>1, <2>1, <2>2, <2>3, StepFacts
  <2>4. CASE p = q
    <3>1. y = z
      BY <1>y, <2>1, <2>4, StepFacts
    <3>. QED
      BY <1>x, <2>1, <2>2, <3>1 DEF Starts, Rightful, Given
  <2>. QED
    BY <2>3, <2>4
<1>3. ASSUME NEW p \in Procs, Works(p), p # q PROVE Rightful(y, vs, e)
  <2>1. PICK z : Step(p, z)
    BY <1>3, WorksIs
  <2>2. e = d /\ ws = vs
    BY <1>3, <1>x, <1>y, WorksIs, TxFacts
  <2>. QED
    BY <1>x, <1>y, <1>1, <1>3, <2>1, <2>2, StepFacts
<1>4. ASSUME NEW p \in Procs, Commit(p) PROVE Rightful(y, vs, e)
  <2>1. CASE p = q
    <3>1. y = [Resting EXCEPT !.answer = 200]
      BY <1>4, <1>y, <2>1, CommitIs
    <3>. QED
      BY <3>1, RestRightful
  <2>2. CASE p # q
    <3>1. ws = vs
      BY <1>4, <1>x, <1>y, <2>2, CommitIs, TxFacts
    <3>2. (x.pc = "idle" /\ y = x) \/ y = [x EXCEPT !.saw = @ \cup {e}]
      BY <1>4, <1>x, <1>y, <2>2, CommitSees DEF Sees
    <3>. QED
      BY <1>0, <3>1, <3>2, RightKept
  <2>. QED
    BY <2>1, <2>2
<1>5. CASE UNCHANGED <<dbVars, tokens, proc, started>>
  BY <1>x, <1>y, <1>1, <1>5 DEF dbVars
<1>6. CASE Works(q)
  BY <1>6, AuthWorks
<1>7. Rightful(y, vs, e) => Rightful(proc[q], tx[q], db)'
  BY <1>y
<1>. QED
  BY <1>2, <1>3, <1>4, <1>5, <1>6, <1>7, NextIs

\* A request has an effect only while its account was entitled to it and its key
\* active at some moment it ran, and tokens go to enabled accounts only:
\* get_current_user, RBACPermission, login and refresh_token.
THEOREM AuthorityCorrect == Spec => EffectsAuthorized
<1>1. Init => ShapeInv /\ NumbersInv /\ AuthInv
  BY ShapeInit, NumbersInit, AuthInit
<1>2. ShapeInv /\ NumbersInv /\ AuthInv /\ [Next]_vars => (ShapeInv /\ NumbersInv /\ AuthInv)'
  BY ShapeStep, NumbersStep, AuthStep
<1>3. AuthInv => \A p \in Procs : Answers(p) =>
        /\ Req(p).op \notin Public =>
            /\ \E s \in proc[p].saw : Entitled(s[proc[p].user], Req(p).op)
            /\ \/ proc[p].user[2] = Req(p).token.user
               \/ WithKey(p) /\ \E s \in proc[p].saw : s[Req(p).key].active
        /\ \A t \in proc[p].give : t.type = "access" =>
            \E s \in proc[p].saw : s[<<"user", t.user>>].active /\ s[<<"user", t.user>>].role = t.role
  <2>. SUFFICES ASSUME AuthInv, NEW p \in Procs, Answers(p)
                PROVE  /\ Req(p).op \notin Public => Allowed(proc[p], tx[p])
                       /\ Given(proc[p])
    BY DEF Allowed, Marked, KeyLived, Given, WithKey, TouchWrite, Req
  <2>1. Rightful(proc[p], tx[p], db) /\ proc[p].pc = "commit"
    BY DEF AuthInv, Answers, At
  <2>2. Req(p).op \notin Public => Allowed(proc[p], tx[p])
    BY <2>1 DEF Rightful, Req
  <2>3. Given(proc[p])
    BY <2>1 DEF Rightful
  <2>. QED
    BY <2>2, <2>3
<1>. QED
  BY <1>1, <1>2, <1>3, PTL DEF Spec, EffectsAuthorized

-----------------------------------------------------------------------------
(***************************************************************************)
(* What a request may write.                                               *)
(***************************************************************************)
Proper(x, w) ==
    /\ w.ref \in Refs /\ w.kind \in {"insert", "update", "delete"}
    /\ w.kind = "insert" => w.ref[2] = x.id /\ DOMAIN w.fields = Columns(w.ref[1])
    /\ w.kind = "update" => DOMAIN w.fields \subseteq Columns(w.ref[1])
    /\ w.kind = "delete" => w.ref[1] = "webhook"
    /\ w.kind # "delete" /\ "team" \in DOMAIN w.fields => w.fields.team \in Ids \cup {NoTeam}
    /\ w.kind # "delete" /\ "owner" \in DOMAIN w.fields =>
            w.kind = "insert" /\ w.fields.owner = x.user[2] /\ x.req.op \notin Public

\* An update sets what the request is about, and nothing else.
Intended(x, w) ==
    w.kind = "update" =>
        \/ x.req.op = "login" /\ w.ref[1] = "user" /\ DOMAIN w.fields = {"login"}
        \/ x.req.op = "revoke_key" /\ w.ref = x.req.target /\ DOMAIN w.fields = {"active"}
        \/ /\ x.req.op \in Updates /\ w.ref = x.req.target /\ DOMAIN w.fields \subseteq DOMAIN x.req.set
           /\ \A f \in DOMAIN w.fields : w.fields[f] = x.req.set[f]

Single(c) == \A v, w \in c : v.ref[1] = w.ref[1] => v = w

Complete(x, read, c) ==
    x.req.op \in Updates => \A f \in DOMAIN x.req.set :
        \/ read[f] = x.req.set[f]
        \/ \E w \in c : w.kind = "update" /\ w.ref = x.req.target /\ f \in DOMAIN w.fields

Choice(x, read, c) ==
    (\A w \in c : Proper(x, w) /\ Intended(x, w)) /\ Single(c) /\ Complete(x, read, c)

LEMMA RefsAre ==
    /\ \A t \in Tables, i \in Ids : <<t, i>> \in Refs /\ <<t, i>>[1] = t /\ <<t, i>>[2] = i
    /\ \A r \in Refs : r[1] \in Tables /\ r[2] \in Ids /\ r = <<r[1], r[2]>>
BY DEF Refs

LEMMA WritesAre ==
    /\ \A t, p, row : \A w \in Insert(t, p, row) :
        w.ref = <<t, proc[p].id>> /\ w.kind = "insert" /\ w.fields = row
    /\ \A t, p, row : \A v, w \in Insert(t, p, row) : v = w
    /\ \A ref, set : \A w \in Update(ref, set) : w.ref = ref /\ w.kind = "update" /\ w.fields = set
    /\ \A ref, set : \A v, w \in Update(ref, set) : v = w
    /\ \A ref : \A w \in Delete(ref) : w.ref = ref /\ w.kind = "delete"
    /\ \A ref : \A v, w \in Delete(ref) : v = w
BY DEF Insert, Update, Delete

LEMMA InsertProper ==
    ASSUME NEW p, NEW x, x = proc[p], x.id \in Ids, NEW t \in Tables, NEW row,
           DOMAIN row = Columns(t),
           "team" \in DOMAIN row => row.team \in Ids \cup {NoTeam},
           "owner" \in DOMAIN row => row.owner = x.user[2] /\ x.req.op \notin Public,
           NEW w \in Insert(t, p, row)
    PROVE  Proper(x, w) /\ Intended(x, w) /\ w.ref[1] = t
<1>1. w.ref = <<t, x.id>> /\ w.kind = "insert" /\ w.fields = row
  BY WritesAre
<1>2. w.ref \in Refs /\ w.ref[1] = t /\ w.ref[2] = x.id
  BY <1>1, RefsAre
<1>. QED
  BY <1>1, <1>2 DEF Proper, Intended

LEMMA ChoiceOne ==
    ASSUME NEW x, NEW read, NEW c, \A v, w \in c : v = w,
           \A w \in c : Proper(x, w) /\ Intended(x, w), x.req.op \notin Updates
    PROVE  Choice(x, read, c)
BY DEF Choice, Single, Complete

LEMMA WriteIs ==
    ASSUME NEW ref, NEW row, NEW set
    PROVE  /\ \A w \in Write(ref, row, set) :
                /\ w.ref = ref /\ w.kind = "update" /\ DOMAIN w.fields \subseteq DOMAIN set
                /\ \A f \in DOMAIN w.fields : w.fields[f] = set[f]
           /\ \A v, w \in Write(ref, row, set) : v = w
           /\ \A f \in DOMAIN set : row[f] = set[f] \/ \E w \in Write(ref, row, set) : f \in DOMAIN w.fields
<1>1. PICK dirty : dirty = {f \in DOMAIN set : set[f] # row[f]}
  OBVIOUS
<1>2. PICK fields : fields = [f \in dirty |-> set[f]]
  OBVIOUS
<1>3. Write(ref, row, set) = IF dirty = {} THEN {} ELSE Update(ref, fields)
  BY <1>1, <1>2 DEF Write
<1>4. DOMAIN fields = dirty /\ \A f \in dirty : fields[f] = set[f]
  BY <1>2
<1>5. \A w \in Write(ref, row, set) : w.ref = ref /\ w.kind = "update" /\ w.fields = fields
  BY <1>3, WritesAre
<1>6. \A f \in DOMAIN set : row[f] # set[f] => f \in dirty /\ \E w \in Write(ref, row, set) : TRUE
  BY <1>1, <1>3 DEF Update
<1>. QED
  BY <1>1, <1>3, <1>4, <1>5, <1>6, WritesAre

\* update_user, update_team and update_webhook.
LEMMA ChoiceUpdate ==
    ASSUME NEW x, x.req \in Bodies, x.req.op \in Updates, NEW row,
           x.req.target \in {Subject(x.req.op)} \X Ids,
           "team" \in DOMAIN x.req.set => x.req.set.team \in Ids \cup {NoTeam}
    PROVE  Choice(x, row, Write(x.req.target, row, x.req.set))
<1>1. PICK c, ref, set, op :
        c = Write(x.req.target, row, x.req.set) /\ ref = x.req.target /\ set = x.req.set /\ op = x.req.op
  OBVIOUS
<1>2. /\ ref \in {Subject(op)} \X Ids /\ DOMAIN set \subseteq Changes(op)
      /\ "team" \in DOMAIN set => set.team \in Ids \cup {NoTeam}
  BY <1>1, BodiesAre
<1>3. /\ Subject(op) \in Tables /\ Changes(op) \subseteq Columns(Subject(op))
      /\ "owner" \notin Changes(op)
  BY <1>1 DEF Updates, Subject, Changes, Columns, Tables
<1>4. ref \in Refs /\ ref[1] = Subject(op)
  BY <1>2, <1>3, RefsAre
<1>5. \A w \in c : /\ w.ref = ref /\ w.kind = "update" /\ DOMAIN w.fields \subseteq DOMAIN set
                   /\ \A f \in DOMAIN w.fields : w.fields[f] = set[f]
  BY <1>1, WriteIs
<1>6. \A w \in c : Proper(x, w) /\ Intended(x, w)
  BY <1>1, <1>2, <1>3, <1>4, <1>5 DEF Proper, Intended
<1>7. Single(c)
  BY <1>1, WriteIs DEF Single
<1>8. Complete(x, row, c)
  BY <1>1, <1>5, WriteIs DEF Complete
<1>. QED
  BY <1>1, <1>6, <1>7, <1>8 DEF Choice

\* One write to a table at most.
Part(x, d, t) ==
    (\A v, w \in d : v = w) /\ \A w \in d : Proper(x, w) /\ Intended(x, w) /\ w.ref[1] = t

LEMMA ChoiceTwo ==
    ASSUME NEW x, NEW read, x.req.op \notin Updates, NEW d, NEW e, NEW t, NEW s, t # s,
           Part(x, d, t), Part(x, e, s)
    PROVE  Choice(x, read, d \cup e)
BY DEF Part, Choice, Single, Complete

LEMMA AuditPart ==
    ASSUME NEW p, NEW x, x = proc[p], x.id \in Ids, NEW row, DOMAIN row = Columns("audit")
    PROVE  Part(x, Insert("audit", p, row), "audit")
<1>1. "audit" \in Tables /\ "team" \notin Columns("audit") /\ "owner" \notin Columns("audit")
  BY DEF Tables, Columns
<1>2. \A w \in Insert("audit", p, row) : Proper(x, w) /\ Intended(x, w) /\ w.ref[1] = "audit"
  BY <1>1, InsertProper
<1>3. \A v, w \in Insert("audit", p, row) : v = w
  BY WritesAre
<1>. QED
  BY <1>2, <1>3 DEF Part

\* The columns the handlers give their new rows.
LEMMA ChoiceInsert ==
    ASSUME NEW p, NEW x, x = proc[p], x.id \in Ids, NEW read, x.req.op \notin Updates,
           NEW t \in Tables, NEW row, DOMAIN row = Columns(t),
           "team" \in DOMAIN row => row.team \in Ids \cup {NoTeam},
           "owner" \in DOMAIN row => row.owner = x.user[2] /\ x.req.op \notin Public
    PROVE  Choice(x, read, Insert(t, p, row))
<1>1. \A w \in Insert(t, p, row) : Proper(x, w) /\ Intended(x, w)
  BY InsertProper
<1>. QED
  BY <1>1, WritesAre, ChoiceOne

LEMMA ChoiceRegister ==
    ASSUME NEW p, NEW x, x = proc[p], x.req.op = "register", x.id \in Ids,
           NEW o, o = Outcome(p), o.status = 200
    PROVE  Choice(x, o.read, o.change)
<1>1. PICK row, row2 :
        row = NewUser(x.req) /\ row2 = [action |-> "user.registered", user |-> x.id]
  OBVIOUS
<1>2. PICK same : same = {u \in Rows("user") : db[u].email = x.req.email \/ db[u].username = x.req.username}
  OBVIOUS
<1>3. PICK c : c = Insert("user", p, row) \cup Insert("audit", p, row2)
  OBVIOUS
<1>4. o = register(p)
  BY DEF Outcome, Req
<1>5. register(p) = CASE Cardinality(same) > 1 -> Refuse(500)
                      [] Cardinality(same) = 1 -> Refuse(409)
                      [] OTHER -> Accept(NoRow, c)
  BY <1>1, <1>2, <1>3 DEF register, Req
<1>6. o.change = c
  BY <1>4, <1>5 DEF Refuse, Accept
<1>7. DOMAIN row = Columns("user") /\ row.team = NoTeam /\ DOMAIN row2 = Columns("audit")
  BY <1>1 DEF NewUser, Columns
<1>8. "owner" \notin Columns("user") /\ "user" \in Tables /\ x.req.op \notin Updates
  BY DEF Columns, Tables, Updates
<1>9. \A w \in Insert("user", p, row) : Proper(x, w) /\ Intended(x, w) /\ w.ref[1] = "user"
  BY <1>7, <1>8, InsertProper
<1>10. \A v, w \in Insert("user", p, row) : v = w
  BY WritesAre
<1>11. PICK d, e : d = Insert("user", p, row) /\ e = Insert("audit", p, row2)
  OBVIOUS
<1>12. Part(x, d, "user") /\ Part(x, e, "audit")
  BY <1>7, <1>9, <1>10, <1>11, AuditPart DEF Part
<1>13. Choice(x, o.read, d \cup e)
  BY <1>8, <1>12, ChoiceTwo
<1>. QED
  BY <1>3, <1>6, <1>11, <1>13

LEMMA ChoiceLogin ==
    ASSUME NEW p, NEW x, x = proc[p], x.req.op = "login", x.id \in Ids,
           NEW o, o = Outcome(p), o.status = 200
    PROVE  Choice(x, o.read, o.change)
<1>1. PICK users : users = {v \in Rows("user") : db[v].username = x.req.username
                                                  /\ db[v].password = x.req.password}
  OBVIOUS
<1>2. PICK u : u = CHOOSE v \in users : TRUE
  OBVIOUS
<1>3. PICK set, row2 : set = [login |-> TRUE] /\ row2 = [action |-> "user.login", user |-> u[2]]
  OBVIOUS
<1>4. PICK d, e, c : d = Update(u, set) /\ e = Insert("audit", p, row2) /\ c = d \cup e
  OBVIOUS
<1>5. o = login(p)
  BY DEF Outcome, Req
<1>6. login(p) = IF users = {} THEN Refuse(401)
                 ELSE IF ~db[u].active THEN Refuse(403)
                 ELSE [Accept(db[u], c) EXCEPT !.give = Tokens(u)]
  BY <1>1, <1>2, <1>3, <1>4 DEF login, Req
<1>7. users # {} /\ o.change = c
  BY <1>5, <1>6 DEF Refuse, Accept
<1>8. DOMAIN set = {"login"} /\ DOMAIN row2 = Columns("audit") /\ "login" \in Columns("user")
  BY <1>3 DEF Columns
<1>9. u \in Refs /\ u[1] = "user"
  BY <1>1, <1>2, <1>7, RowsAre
<1>10. \A w \in d : Proper(x, w) /\ Intended(x, w) /\ w.ref[1] = "user"
  BY <1>4, <1>8, <1>9, WritesAre DEF Proper, Intended
<1>11. (\A v, w \in d : v = w) /\ x.req.op \notin Updates
  BY <1>4, WritesAre DEF Updates
<1>12. Part(x, d, "user") /\ Part(x, e, "audit")
  BY <1>4, <1>8, <1>10, <1>11, AuditPart DEF Part
<1>13. Choice(x, o.read, d \cup e)
  BY <1>11, <1>12, ChoiceTwo
<1>. QED
  BY <1>4, <1>7, <1>13

LEMMA OutcomeChoice ==
    ASSUME NEW p, NEW x, x = proc[p], x.req \in Bodies, x.id \in Ids,
           x.req.op \notin Public => x.as.team \in Ids \cup {NoTeam},
           NEW o, o = Outcome(p), o.status = 200
    PROVE  Choice(x, o.read, o.change)
<1>r. PICK r, op : r = x.req /\ op = r.op
  OBVIOUS
<1>0. op \in Ops /\ Req(p) = r
  BY <1>r, BodiesAre DEF Req
<1>1. CASE op = "register"
  BY <1>1, <1>r, ChoiceRegister
<1>2. CASE op = "login"
  BY <1>2, <1>r, ChoiceLogin
<1>3. CASE op = "refresh"
  <2>1. o.change = {}
    BY <1>0, <1>3, <1>r DEF Outcome, refresh_token, Refuse, Accept
  <2>. QED
    BY <1>3, <1>r, <2>1 DEF Choice, Single, Complete, Updates
<1>4. CASE op \in {"create_key", "create_webhook"}
  <2>1. PICK t, row : /\ t \in {"key", "webhook"} /\ DOMAIN row = Columns(t) /\ row.owner = x.user[2]
                      /\ o.change = Insert(t, p, row)
    <3>1. CASE op = "create_key"
      <4>1. PICK row : row = [owner |-> x.user[2], active |-> TRUE, used |-> FALSE]
        OBVIOUS
      <4>2. o.change = Insert("key", p, row)
        BY <1>0, <1>r, <3>1, <4>1 DEF Outcome, create_api_key, Accept
      <4>. QED
        BY <4>1, <4>2 DEF Columns
    <3>2. CASE op = "create_webhook"
      <4>1. PICK row : row = [owner |-> x.user[2], active |-> TRUE]
        OBVIOUS
      <4>2. o.change = Insert("webhook", p, row)
        BY <1>0, <1>r, <3>2, <4>1 DEF Outcome, create_webhook, Accept
      <4>. QED
        BY <4>1, <4>2 DEF Columns
    <3>. QED
      BY <1>4, <3>1, <3>2
  <2>2. t \in Tables /\ "team" \notin Columns(t) /\ op \notin Updates /\ op \notin Public
    BY <1>4, <2>1 DEF Tables, Columns, Updates, Public
  <2>. QED
    BY <1>r, <2>1, <2>2, ChoiceInsert
<1>5. CASE op = "create_team"
  <2>1. PICK row : row = [name |-> r.name, active |-> TRUE]
    OBVIOUS
  <2>2. o.change = Insert("team", p, row)
    BY <1>0, <1>5, <1>r, <2>1 DEF Outcome, create_team, Refuse, Accept
  <2>3. "team" \in Tables /\ DOMAIN row = Columns("team") /\ op \notin Updates
        /\ "team" \notin DOMAIN row /\ "owner" \notin DOMAIN row
    BY <1>5, <2>1 DEF Tables, Columns, Updates
  <2>. QED
    BY <1>r, <2>2, <2>3, ChoiceInsert
<1>6. CASE op = "create_profile"
  <2>1. PICK row : row = [name |-> r.name, team |-> x.as.team]
    OBVIOUS
  <2>2. o.change = Insert("profile", p, row)
    BY <1>0, <1>6, <1>r, <2>1 DEF Outcome, create_profile, Refuse, Accept
  <2>3. "profile" \in Tables /\ DOMAIN row = Columns("profile") /\ op \notin Updates
        /\ row.team \in Ids \cup {NoTeam} /\ "owner" \notin DOMAIN row
    BY <1>6, <1>r, <2>1 DEF Tables, Columns, Updates, Public
  <2>. QED
    BY <1>r, <2>2, <2>3, ChoiceInsert
<1>7. CASE op = "revoke_key"
  <2>1. PICK k, set : k = r.target /\ set = [active |-> FALSE]
    OBVIOUS
  <2>2. o.change = Write(k, db[k], set)
    BY <1>0, <1>7, <1>r, <2>1 DEF Outcome, revoke_api_key, ById, Refuse, Accept
  <2>3. k \in {"key"} \X Ids
    BY <1>0, <1>7, <1>r, <2>1, AcceptedIds DEF Subject
  <2>4. k \in Refs /\ k[1] = "key" /\ "active" \in Columns("key") /\ DOMAIN set = {"active"}
    BY <2>1, <2>3, RefsAre DEF Tables, Columns
  <2>5. \A w \in o.change : w.ref = k /\ w.kind = "update" /\ DOMAIN w.fields = {"active"}
    <3>1. TAKE w \in o.change
    <3>2. w.ref = k /\ w.kind = "update" /\ DOMAIN w.fields \subseteq DOMAIN set
      BY <2>2, WriteIs
    <3>3. "active" \in DOMAIN w.fields
      <4>1. PICK dirty : dirty = {f \in DOMAIN set : set[f] # db[k][f]}
        OBVIOUS
      <4>2. dirty # {} /\ w.fields = [f \in dirty |-> set[f]]
        BY <2>2, <4>1, WritesAre DEF Write
      <4>. QED
        BY <2>4, <4>1, <4>2
    <3>. QED
      BY <2>4, <3>2, <3>3
  <2>6. \A w \in o.change : Proper(x, w) /\ Intended(x, w)
    BY <1>7, <1>r, <2>1, <2>4, <2>5 DEF Proper, Intended
  <2>7. (\A v, w \in o.change : v = w) /\ op \notin Updates
    BY <1>7, <2>2, WriteIs DEF Updates
  <2>. QED
    BY <1>r, <2>6, <2>7, ChoiceOne
<1>8. CASE op = "delete_webhook"
  <2>1. o.change = Delete(r.target)
    BY <1>0, <1>8, <1>r DEF Outcome, delete_webhook, ById, Refuse, Accept
  <2>2. r.target \in Refs /\ r.target[1] = "webhook"
    <3>1. r.target \in {"webhook"} \X Ids
      BY <1>0, <1>8, <1>r, AcceptedIds DEF Subject
    <3>. QED
      BY <3>1, RefsAre DEF Tables
  <2>3. \A w \in o.change : Proper(x, w) /\ Intended(x, w)
    BY <2>1, <2>2, WritesAre DEF Proper, Intended
  <2>4. (\A v, w \in o.change : v = w) /\ op \notin Updates
    BY <1>8, <2>1, WritesAre DEF Updates
  <2>. QED
    BY <1>r, <2>3, <2>4, ChoiceOne
<1>9. CASE op \in Updates
  <2>1. o = CASE op = "update_user" -> update_user(p)
              [] op = "update_team" -> update_team(p)
              [] op = "update_webhook" -> update_webhook(p)
    BY <1>0, <1>9, <1>r DEF Outcome, Updates
  <2>2. o.change = Write(r.target, o.read, r.set)
    <3>1. CASE op = "update_user"
      BY <1>0, <1>r, <2>1, <3>1 DEF update_user, BadTeam, ById, Refuse, Accept
    <3>2. CASE op = "update_team"
      BY <1>0, <1>r, <2>1, <3>2 DEF update_team, ById, Refuse, Accept
    <3>3. CASE op = "update_webhook"
      BY <1>0, <1>r, <2>1, <3>3 DEF update_webhook, ById, Refuse, Accept
    <3>. QED
      BY <1>9, <3>1, <3>2, <3>3 DEF Updates
  <2>3. x.req.op \in Updates /\ o.change = Write(x.req.target, o.read, x.req.set)
    BY <1>9, <1>r, <2>2
  <2>4. PICK row : row = o.read
    OBVIOUS
  <2>5. Choice(x, row, Write(x.req.target, row, x.req.set))
    BY <1>0, <1>r, <2>3, AcceptedIds, ChoiceUpdate
  <2>. QED
    BY <2>3, <2>4, <2>5
<1>. QED
  BY <1>0, <1>1, <1>2, <1>3, <1>4, <1>5, <1>6, <1>7, <1>8, <1>9 DEF Ops, Public

-----------------------------------------------------------------------------
(***************************************************************************)
(* What a transaction holds.  Its writes are those its handler decided on  *)
(* and the mark on the key it came with; what they need is there and stays *)
(* there, for no other transaction may write it before this one ends.      *)
(***************************************************************************)
Mark(x) == Update(x.req.key, [used |-> TRUE])

OfKey(x) == x.req.op \notin Public /\ x.req.key \in {"key"} \X Ids /\ db[x.req.key] # NoRow

Holds(x, ws, c) == ws = c \/ (ws = c \cup Mark(x) /\ OfKey(x))

HasTeam(row) == row.team = NoTeam \/ (row.team \in Ids /\ db[<<"team", row.team>>] # NoRow)

IsUser(u) == u \in {"user"} \X Ids /\ db[u] # NoRow

Issued(t) == t.type \in {"access", "refresh"} /\ IsUser(<<"user", t.user>>)

\* Of a request x whose writes are ws.
Held(x, ws) ==
    /\ x.pc \in {"idle", "authenticate", "touch"} => ws = {}
    /\ x.pc = "authenticate" => x.req.op \notin Public
    /\ x.pc = "touch" => OfKey(x)
    /\ x.pc \in {"handle", "flush"} => Holds(x, ws, {})
    /\ x.pc = "commit" => Holds(x, ws, x.change) /\ \A w \in x.change : ~Raises(w)
    /\ x.pc \in {"flush", "commit"} => Choice(x, x.read, x.change)
    /\ x.pc \in {"handle", "flush", "commit"} /\ x.req.op \notin Public => IsUser(x.user) /\ HasTeam(x.as)
    /\ x.pc # "idle" => \A t \in Tables : db[<<t, x.id>>] = NoRow
    /\ \A t \in x.give : Issued(t)

HeldInv == \A p \in Procs : Held(proc[p], tx[p])

LocksInv == \A p, q \in Procs : p # q => Locks(p) \cap Locks(q) = {}

Alone == \A r, s \in Refs : r # s /\ r[1] = s[1] => Values(r[1], db[r]) \cap Values(s[1], db[s]) = {}

DataInv ==
    /\ DOMAIN db = Refs
    /\ \A r \in Refs : db[r] # NoRow => DOMAIN db[r] = Columns(r[1])
    /\ Alone
    /\ \A r \in Refs : r[1] = "user" /\ db[r] # NoRow => HasTeam(db[r])
    /\ \A r \in Refs : r[1] = "key" /\ db[r] # NoRow => IsUser(<<"user", db[r].owner>>)
    /\ \A t \in Tables, i \in 1..MaxOps : i > started => db[<<t, i>>] = NoRow
    /\ \A t \in tokens : Issued(t)

LEMMA NoRowIs == DOMAIN NoRow = {"none"} /\ \A t \in Tables : "none" \notin Columns(t)
BY DEF NoRow, Columns, Tables

LEMMA MarkIs ==
    \A x : \A w \in Mark(x) :
        /\ w.ref = x.req.key /\ w.kind = "update" /\ DOMAIN w.fields = {"used"} /\ w.fields["used"] = TRUE
        /\ w.fields = [used |-> TRUE]
BY WritesAre DEF Mark

\* A row becomes new by the updates ws.
Updated(row, ws, new) ==
    /\ DOMAIN new = DOMAIN row
    /\ \A f \in DOMAIN row :
        \/ (\A w \in ws : f \notin DOMAIN w.fields) /\ new[f] = row[f]
        \/ \E w \in ws : f \in DOMAIN w.fields /\ new[f] = w.fields[f]

\* What is written of a row: nothing, it is deleted, it is inserted, or fields
\* of it are updated.
LEMMA WrittenIs ==
    ASSUME NEW row, NEW ws
    PROVE  /\ ws = {} => Written(row, ws) = row
           /\ \A w : ws = {w} /\ w.kind = "delete" => Written(row, ws) = NoRow
           /\ \A w : ws = {w} /\ w.kind = "insert" => Written(row, ws) = w.fields
           /\ ws # {} /\ (\A w \in ws : w.kind = "update") => Updated(row, ws, Written(row, ws))
<1>1. ws = {} => Written(row, ws) = row
  BY DEF Written
<1>2. ASSUME NEW w, ws = {w}, w.kind = "delete" PROVE Written(row, ws) = NoRow
  <2>1. ws # {} /\ (\E v \in ws : v.kind = "delete") /\ ~(\E v \in ws : v.kind = "insert")
    BY <1>2
  <2>. QED
    BY <2>1 DEF Written
<1>3. ASSUME NEW w, ws = {w}, w.kind = "insert" PROVE Written(row, ws) = w.fields
  <2>1. (CHOOSE v \in ws : TRUE) = w
    BY <1>3
  <2>2. ws # {} /\ ~(\E v \in ws : v.kind = "delete") /\ (\E v \in ws : v.kind = "insert")
    BY <1>3
  <2>. QED
    BY <2>1, <2>2 DEF Written
<1>4. ASSUME ws # {}, \A w \in ws : w.kind = "update"
      PROVE  Updated(row, ws, Written(row, ws))
  <2>1. Written(row, ws) = [f \in DOMAIN row |->
            IF \E w \in ws : f \in DOMAIN w.fields
            THEN (CHOOSE w \in ws : f \in DOMAIN w.fields).fields[f] ELSE row[f]]
    BY <1>4 DEF Written
  <2>2. \A f \in DOMAIN row :
            \/ (\A w \in ws : f \notin DOMAIN w.fields) /\ Written(row, ws)[f] = row[f]
            \/ \E w \in ws : f \in DOMAIN w.fields /\ Written(row, ws)[f] = w.fields[f]
    <3>1. TAKE f \in DOMAIN row
    <3>2. CASE \E w \in ws : f \in DOMAIN w.fields
      <4>1. PICK w : w = CHOOSE v \in ws : f \in DOMAIN v.fields
        OBVIOUS
      <4>2. w \in ws /\ f \in DOMAIN w.fields /\ Written(row, ws)[f] = w.fields[f]
        BY <2>1, <3>2, <4>1
      <4>. QED
        BY <4>2
    <3>3. CASE \A w \in ws : f \notin DOMAIN w.fields
      BY <2>1, <3>3
    <3>. QED
      BY <3>2, <3>3
  <2>. QED
    BY <2>1, <2>2 DEF Updated
<1>. QED
  BY <1>1, <1>2, <1>3, <1>4

\* The writes a transaction may hold.
LEMMA TxIs ==
    ASSUME NEW x, NEW ws, Held(x, ws), x.pc \in Pcs, NEW w \in ws
    PROVE  /\ x.pc \in {"handle", "flush", "commit"} /\ w.ref \in Refs
           /\ \/ w \in Mark(x) /\ OfKey(x) /\ w.ref = x.req.key /\ w.kind = "update"
              \/ x.pc = "commit" /\ w \in x.change /\ Proper(x, w) /\ Intended(x, w) /\ ~Raises(w)
<1>1. x.pc \in {"handle", "flush", "commit"}
  BY DEF Held, Pcs
<1>2. (w \in Mark(x) /\ OfKey(x)) \/ (x.pc = "commit" /\ w \in x.change /\ ~Raises(w))
  BY <1>1 DEF Held, Holds
<1>3. CASE w \in Mark(x) /\ OfKey(x)
  <2>1. x.req.key \in Refs
    BY <1>3 DEF OfKey, Refs, Tables
  <2>. QED
    BY <1>1, <1>3, <2>1, MarkIs
<1>4. CASE x.pc = "commit" /\ w \in x.change /\ ~Raises(w)
  BY <1>1, <1>4 DEF Held, Choice, Proper
<1>. QED
  BY <1>2, <1>3, <1>4

\* A row as a commit leaves it, of whose writes, c and perhaps a mark, T are
\* about that row.
RowAfter(c, r, T) ==
    \/ T = {} /\ db'[r] = db[r]
    \/ r[1] = "webhook" /\ (\E w \in T : w.kind = "delete") /\ db'[r] = NoRow
    \/ \E w \in c : T = {w} /\ w.kind = "insert" /\ db[r] = NoRow /\ db'[r] = w.fields
    \/ /\ T # {} /\ (\A w \in T : w.kind = "update") /\ db[r] # NoRow /\ db'[r] # NoRow
       /\ Updated(db[r], T, db'[r])

LEMMA CommitRow ==
    ASSUME ShapeInv, HeldInv, DataInv, NEW p \in Procs, Commit(p), NEW r \in Refs,
           NEW T, T = {w \in tx[p] : w.ref = r}
    PROVE  RowAfter(proc[p].change, r, T)
<1>x. PICK x, ws : x = proc[p] /\ ws = tx[p]
  OBVIOUS
<1>1. x.pc = "commit" /\ x.pc \in Pcs /\ Held(x, ws) /\ db'[r] = Written(db[r], T)
  <2>1. db' = [s \in Refs |-> Written(db[s], {w \in tx[p] : w.ref = s})]
    BY CommitIs DEF CommitTx
  <2>2. db'[r] = Written(db[r], T)
    BY <2>1
  <2>. QED
    BY <1>x, <2>2, CommitIs DEF HeldInv, Pcs
<1>2. CASE T = {}
  BY <1>1, <1>2, WrittenIs DEF RowAfter
<1>3. CASE \E w \in T : w.kind = "delete"
  <2>1. PICK w \in T : w.kind = "delete"
    BY <1>3
  <2>2. w \in x.change /\ Proper(x, w) /\ w.ref = r
    BY <1>x, <1>1, <2>1, TxIs
  <2>3. r[1] = "webhook" /\ Single(x.change)
    BY <1>1, <2>1, <2>2 DEF Proper, Held, Choice
  <2>4. \A v \in T : v = w
    <3>1. TAKE v \in T
    <3>2. r \notin {"key"} \X Ids
      BY <2>3
    <3>3. v.ref = r /\ v \in x.change
      BY <1>x, <1>1, <3>2, TxIs DEF OfKey
    <3>. QED
      BY <2>2, <2>3, <3>3 DEF Single
  <2>5. T = {w}
    BY <2>4
  <2>. QED
    BY <1>1, <2>1, <2>3, <2>5, WrittenIs DEF RowAfter
<1>4. CASE \E w \in T : w.kind = "insert"
  <2>1. PICK w \in T : w.kind = "insert"
    BY <1>4
  <2>2. w \in x.change /\ Proper(x, w) /\ w.ref = r
    BY <1>x, <1>1, <2>1, TxIs
  <2>3. r[2] = x.id /\ r = <<r[1], r[2]>> /\ r[1] \in Tables
    BY <2>1, <2>2, RefsAre DEF Proper
  <2>4. db[r] = NoRow
    BY <1>1, <2>3 DEF Held
  <2>5. Single(x.change)
    BY <1>1 DEF Held, Choice
  <2>6. \A v \in T : v = w
    <3>1. TAKE v \in T
    <3>2. v.ref = r /\ v \in x.change
      BY <1>x, <1>1, <2>4, TxIs DEF OfKey
    <3>. QED
      BY <2>2, <2>5, <3>2 DEF Single
  <2>7. T = {w}
    BY <2>6
  <2>. QED
    <3>1. db'[r] = w.fields
      BY <1>1, <2>1, <2>7, WrittenIs
    <3>. QED
      BY <1>x, <2>1, <2>2, <2>4, <2>7, <3>1 DEF RowAfter
<1>5. CASE T # {} /\ \A w \in T : w.kind = "update"
  <2>1. PICK w \in T : w.kind = "update"
    BY <1>5
  <2>2. db[r] # NoRow
    BY <1>x, <1>1, <2>1, TxIs DEF OfKey, Raises, Gone
  <2>3. Updated(db[r], T, db'[r])
    BY <1>1, <1>5, WrittenIs
  <2>4. db'[r] # NoRow
    BY <2>2, <2>3, NoRowIs, RefsAre DEF Updated, DataInv
  <2>. QED
    BY <1>5, <2>2, <2>3, <2>4 DEF RowAfter
<1>6. \A w \in T : w.kind \in {"insert", "update", "delete"}
  BY <1>x, <1>1, TxIs DEF Proper
<1>. QED
  BY <1>2, <1>3, <1>4, <1>5, <1>6

\* What the others rely on stays: no row goes but a webhook's, and a new row has
\* the number of the request that inserted it.
LEMMA CommitRows ==
    ASSUME ShapeInv, HeldInv, DataInv, NEW p \in Procs, Commit(p)
    PROVE  /\ DOMAIN db' = Refs
           /\ \A r \in Refs : r[1] # "webhook" /\ db[r] # NoRow => db'[r] # NoRow
           /\ \A r \in Refs : db[r] = NoRow /\ db'[r] # NoRow => r[2] = proc[p].id
           /\ \A r \in Refs : db'[r] # NoRow => DOMAIN db'[r] = Columns(r[1])
<1>1. DOMAIN db' = Refs
  <2>1. db' = [s \in Refs |-> Written(db[s], {w \in tx[p] : w.ref = s})]
    BY CommitIs DEF CommitTx
  <2>. QED
    BY <2>1
<1>2. ASSUME NEW r \in Refs
      PROVE  /\ r[1] # "webhook" /\ db[r] # NoRow => db'[r] # NoRow
             /\ db[r] = NoRow /\ db'[r] # NoRow => r[2] = proc[p].id
             /\ db'[r] # NoRow => DOMAIN db'[r] = Columns(r[1])
  <2>1. PICK T : T = {w \in tx[p] : w.ref = r}
    OBVIOUS
  <2>2. ASSUME NEW w \in proc[p].change, T = {w}, w.kind = "insert"
        PROVE  r[2] = proc[p].id /\ DOMAIN w.fields = Columns(r[1])
    <3>1. w \in tx[p] /\ w.ref = r
      BY <2>1, <2>2
    <3>2. proc[p].pc = "commit" /\ Held(proc[p], tx[p])
      BY CommitIs DEF HeldInv
    <3>3. Proper(proc[p], w)
      BY <3>2 DEF Held, Choice
    <3>. QED
      BY <2>2, <3>1, <3>3 DEF Proper
  <2>3. db[r] # NoRow => DOMAIN db[r] = Columns(r[1])
    BY DEF DataInv
  <2>. QED
    <3>1. RowAfter(proc[p].change, r, T)
      BY <2>1, CommitRow
    <3>. QED
      BY <2>2, <2>3, <3>1 DEF RowAfter, Updated
<1>. QED
  BY <1>1, <1>2

LEMMA Stays ==
    ASSUME ShapeInv, HeldInv, DataInv, NEW p \in Procs, Commit(p)
    PROVE  /\ \A u : IsUser(u) => IsUser(u)'
           /\ \A row : HasTeam(row) => HasTeam(row)'
           /\ \A t : Issued(t) => Issued(t)'
           /\ \A x : OfKey(x) => OfKey(x)'
<1>1. \A t \in Tables \ {"webhook"}, i \in Ids : db[<<t, i>>] # NoRow => db'[<<t, i>>] # NoRow
  BY CommitRows, RefsAre
<1>2. ASSUME NEW u, IsUser(u) PROVE IsUser(u)'
  <2>1. u \in Refs /\ u[1] = "user"
    BY <1>2 DEF IsUser, Refs, Tables
  <2>. QED
    BY <1>2, <2>1, CommitRows DEF IsUser
<1>3. ASSUME NEW row, HasTeam(row) PROVE HasTeam(row)'
  BY <1>1, <1>3 DEF HasTeam, Tables
<1>4. ASSUME NEW t, Issued(t) PROVE Issued(t)'
  BY <1>2, <1>4 DEF Issued
<1>5. ASSUME NEW x, OfKey(x) PROVE OfKey(x)'
  <2>1. x.req.key \in Refs /\ x.req.key[1] = "key"
    BY <1>5 DEF OfKey, Refs, Tables
  <2>. QED
    BY <1>5, <2>1, CommitRows DEF OfKey
<1>. QED
  BY <1>2, <1>3, <1>4, <1>5

\* What another transaction has written stays as it is.
LEMMA Untouched ==
    ASSUME ShapeInv, HeldInv, DataInv, LocksInv, NEW p \in Procs, Commit(p),
           NEW q \in Procs \ {p}, NEW w \in tx[q]
    PROVE  db'[w.ref] = db[w.ref] /\ Claims(w)' = Claims(w)
<1>1. w.ref \in Refs
  BY TxIs DEF HeldInv, ShapeInv
<1>2. PICK T : T = {v \in tx[p] : v.ref = w.ref}
  OBVIOUS
<1>3. \A v : v.ref \in Claims(v)
  BY DEF Claims
<1>4. \A v \in T : v.ref \in Locks(p) /\ v.ref \in Locks(q)
  BY <1>2, <1>3 DEF Locks
<1>5. T = {}
  BY <1>4 DEF LocksInv
<1>6. db'[w.ref] = db[w.ref]
  BY <1>1, <1>2, <1>5, CommitRow DEF RowAfter
<1>. QED
  BY <1>6 DEF Claims

\* The unique values of a row a commit has written were locked.
Settled(p, r) ==
    \/ Values(r[1], db'[r]) = {}
    \/ db'[r] = db[r]
    \/ \E w \in proc[p].change :
        /\ w.ref = r /\ w.kind # "delete" /\ ~Raises(w)
        /\ db'[r] = Written(db[r], {w}) /\ Values(r[1], db'[r]) \subseteq Locks(p)

LEMMA ValuesAfter ==
    ASSUME ShapeInv, HeldInv, DataInv, NEW p \in Procs, Commit(p), NEW r \in Refs
    PROVE  Settled(p, r)
<1>x. PICK x, ws : x = proc[p] /\ ws = tx[p]
  OBVIOUS
<1>1. x.pc = "commit" /\ x.pc \in Pcs /\ Held(x, ws) /\ Single(x.change)
  BY <1>x, CommitIs DEF HeldInv, Pcs, Held, Choice
<1>2. PICK T : T = {w \in tx[p] : w.ref = r}
  OBVIOUS
<1>3. db'[r] = Written(db[r], T)
  <2>1. db' = [s \in Refs |-> Written(db[s], {w \in tx[p] : w.ref = s})]
    BY CommitIs DEF CommitTx
  <2>. QED
    BY <1>2, <2>1
<1>4. CASE T = {}
  BY <1>3, <1>4, WrittenIs DEF Settled
<1>5. CASE r[1] \in {"key", "webhook", "audit"}
  BY <1>5 DEF Values, Uniques, Settled
<1>6. CASE T # {} /\ r[1] \in {"user", "team", "profile"}
  <2>1. PICK w \in T : TRUE
    BY <1>6
  <2>2. \A v \in T : v \in x.change /\ v.ref = r /\ Proper(x, v) /\ ~Raises(v)
    <3>1. TAKE v \in T
    <3>2. v \in ws /\ v.ref = r /\ v.ref \notin {"key"} \X Ids
      BY <1>x, <1>2, <1>6
    <3>. QED
      BY <1>1, <3>2, TxIs DEF OfKey
  <2>3. T = {w}
    BY <1>1, <2>1, <2>2 DEF Single
  <2>4. w.kind # "delete"
    BY <1>6, <2>1, <2>2 DEF Proper
  <2>5. ~Gone(w)
    BY <2>1, <2>2, <2>4 DEF Raises
  <2>6. w \in tx[p] /\ w.ref = r /\ db'[r] = Written(db[r], {w})
    BY <1>2, <1>3, <2>1, <2>3
  <2>7. Values(r[1], db'[r]) \subseteq Claims(w)
    BY <2>5, <2>6 DEF Claims, Gone
  <2>8. Claims(w) \subseteq Locks(p)
    BY <2>6 DEF Locks
  <2>. QED
    BY <1>x, <2>1, <2>2, <2>4, <2>6, <2>7, <2>8 DEF Settled
<1>. QED
  BY <1>4, <1>5, <1>6, RefsAre DEF Tables

LEMMA LocksInit == Init => LocksInv
<1>. SUFFICES ASSUME Init, NEW p \in Procs, NEW q \in Procs PROVE Locks(p) \cap Locks(q) = {}
  BY DEF LocksInv
<1>1. tx[p] = {}
  BY DEF Init
<1>. QED
  BY <1>1 DEF Locks

\* A write is sent only when no other transaction holds what it needs.
LEMMA FlushesFree ==
    ASSUME NEW p \in Procs, Works(p)
    PROVE  tx' = tx \/ RollbackTx(p) \/ (\E ws : Flush(p, ws) /\ \A w \in ws : ~Blocked(p, w))
<1>1. CASE Authenticate(p)
  BY <1>1 DEF Authenticate, dbVars
<1>2. CASE Touch(p)
  BY <1>2 DEF Touch
<1>3. CASE Handle(p)
  BY <1>3 DEF Handle, Fail, dbVars
<1>4. CASE FlushWrites(p)
  BY <1>4 DEF FlushWrites, Fail
<1>5. CASE Unfit(p) \/ Abort(p) \/ Victim(p)
  BY <1>5 DEF Unfit, Abort, Victim, Fail
<1>. QED
  BY <1>1, <1>2, <1>3, <1>4, <1>5 DEF Works

LEMMA LocksStep == ShapeInv /\ HeldInv /\ DataInv /\ LocksInv /\ [Next]_vars => LocksInv'
<1>. SUFFICES ASSUME ShapeInv, HeldInv, DataInv, LocksInv, [Next]_vars PROVE LocksInv'
  OBVIOUS
<1>1. ASSUME NEW p \in Procs, \A q \in Procs \ {p} : Locks(q)' = Locks(q),
             \A q \in Procs \ {p} : Locks(p)' \cap Locks(q) = {}
      PROVE  LocksInv'
  BY <1>1 DEF LocksInv
<1>2. ASSUME db' = db, NEW q \in Procs, tx'[q] = tx[q] PROVE Locks(q)' = Locks(q)
  BY <1>2 DEF Locks, Claims
<1>3. ASSUME NEW q \in Procs, tx'[q] = {} PROVE Locks(q)' = {}
  BY <1>3 DEF Locks
<1>4. ASSUME db' = db, tx' = tx PROVE LocksInv'
  BY <1>2, <1>4 DEF LocksInv
<1>5. ASSUME NEW p \in Procs, Works(p) PROVE LocksInv'
  <2>1. db' = db
    BY <1>5, WorksIs
  <2>2. CASE RollbackTx(p)
    BY <1>1, <1>2, <1>3, <2>1, <2>2, TxFacts
  <2>3. ASSUME NEW ws, Flush(p, ws), \A w \in ws : ~Blocked(p, w) PROVE LocksInv'
    <3>1. tx'[p] = tx[p] \cup ws /\ \A q \in Procs \ {p} : tx'[q] = tx[q]
      BY <2>3, TxFacts
    <3>2. \A w : Claims(w)' = Claims(w)
      BY <2>1 DEF Claims
    <3>3. ASSUME NEW q \in Procs \ {p}, NEW y \in Locks(p)', y \in Locks(q) PROVE FALSE
      <4>1. PICK w \in tx[p] \cup ws : y \in Claims(w)
        BY <3>1, <3>2, <3>3 DEF Locks
      <4>2. CASE w \in tx[p]
        BY <3>3, <4>1, <4>2 DEF Locks, LocksInv
      <4>3. CASE w \in ws
        BY <2>3, <3>3, <4>1, <4>3 DEF Blocked, WaitsFor
      <4>. QED
        BY <4>1, <4>2, <4>3
    <3>. QED
      BY <1>1, <1>2, <2>1, <3>1, <3>3
  <2>. QED
    BY <1>4, <1>5, <2>1, <2>2, <2>3, FlushesFree
<1>6. ASSUME NEW p \in Procs, Commit(p) PROVE LocksInv'
  <2>1. tx'[p] = {} /\ \A q \in Procs \ {p} : tx'[q] = tx[q]
    BY <1>6, CommitIs, TxFacts
  <2>2. ASSUME NEW q \in Procs \ {p} PROVE Locks(q)' = Locks(q)
    <3>1. \A w \in tx[q] : Claims(w)' = Claims(w)
      BY <1>6, Untouched
    <3>. QED
      BY <2>1, <3>1 DEF Locks
  <2>. QED
    BY <1>1, <1>3, <2>1, <2>2
<1>7. ASSUME NEW p \in Procs, Begins(p) PROVE LocksInv'
  BY <1>4, <1>7, BeginIs
<1>8. CASE UNCHANGED <<dbVars, tokens, proc, started>>
  BY <1>4, <1>8 DEF dbVars
<1>. QED
  BY <1>5, <1>6, <1>7, <1>8, NextIs

LEMMA AloneAfter ==
    ASSUME ShapeInv, HeldInv, DataInv, NEW p \in Procs, Commit(p)
    PROVE  Alone'
<1>0. Single(proc[p].change)
  BY CommitIs DEF HeldInv, Held, Choice
<1>1. SUFFICES ASSUME NEW r \in Refs, NEW s \in Refs, r # s, r[1] = s[1]
               PROVE  Values(r[1], db'[r]) \cap Values(s[1], db'[s]) = {}
  BY DEF Alone
<1>2. ASSUME NEW t \in Refs, NEW u \in Refs, t # u, t[1] = u[1], db'[u] = db[u],
             NEW w, w.ref = t, w.kind # "delete", ~Raises(w), db'[t] = Written(db[t], {w})
      PROVE  Values(t[1], db'[t]) \cap Values(u[1], db'[u]) = {}
  <2>1. CASE db[u] = NoRow
    BY <1>2, <2>1 DEF Values
  <2>2. CASE db[u] # NoRow
    <3>1. u \in Rows(w.ref[1]) \ {w.ref} /\ ~Taken(w)
      BY <1>2, <2>2 DEF Rows, Raises
    <3>. QED
      BY <1>2, <3>1 DEF Taken
  <2>. QED
    BY <2>1, <2>2
<1>3. Settled(p, r) /\ Settled(p, s)
  BY <1>1, ValuesAfter
<1>4. CASE db'[r] = db[r] /\ db'[s] = db[s]
  BY <1>1, <1>4 DEF DataInv, Alone
<1>5. ASSUME NEW w \in proc[p].change, w.ref = r, w.kind # "delete", ~Raises(w),
             db'[r] = Written(db[r], {w})
      PROVE  Values(r[1], db'[r]) \cap Values(s[1], db'[s]) = {}
  <2>1. \A v \in proc[p].change : v.ref # s
    BY <1>0, <1>1, <1>5 DEF Single
  <2>2. CASE db'[s] = db[s]
    BY <1>1, <1>2, <1>5, <2>2
  <2>. QED
    BY <1>3, <2>1, <2>2 DEF Settled
<1>6. ASSUME NEW w \in proc[p].change, w.ref = s, w.kind # "delete", ~Raises(w),
             db'[s] = Written(db[s], {w})
      PROVE  Values(r[1], db'[r]) \cap Values(s[1], db'[s]) = {}
  <2>1. \A v \in proc[p].change : v.ref # r
    BY <1>0, <1>1, <1>6 DEF Single
  <2>2. CASE db'[r] = db[r]
    <3>1. Values(s[1], db'[s]) \cap Values(r[1], db'[r]) = {}
      BY <1>1, <1>2, <1>6, <2>2
    <3>. QED
      BY <3>1
  <2>. QED
    BY <1>3, <2>1, <2>2 DEF Settled
<1>. QED
  BY <1>3, <1>4, <1>5, <1>6 DEF Settled

-----------------------------------------------------------------------------
(***************************************************************************)
(* The committed rows.                                                     *)
(***************************************************************************)
LEMMA DataInit == Init => DataInv
<1>. SUFFICES ASSUME Init PROVE DataInv
  OBVIOUS
<1>1. db = Seed /\ tokens = SeedTokens /\ started = 0 /\ MaxOps \in Nat /\ 1..MaxOps \subseteq Ids
  BY OpsAssumption DEF Init
<1>2. DOMAIN db = Refs /\ (\A r \in Refs : db[r] # NoRow => DOMAIN db[r] = Columns(r[1])) /\ Alone
  BY <1>1, SeedAssumption DEF Alone
<1>3. \A t \in Tables, i \in 1..MaxOps : db[<<t, i>>] = NoRow
  BY <1>1, SeedAssumption
<1>4. ASSUME NEW r \in Refs, r[1] = "user", db[r] # NoRow PROVE HasTeam(db[r])
  <2>1. r[2] \in Ids /\ r = <<"user", r[2]>>
    BY <1>4, RefsAre
  <2>. QED
    BY <1>1, <1>4, <2>1, SeedAssumption DEF HasTeam
<1>5. ASSUME NEW r \in Refs, r[1] = "key", db[r] # NoRow PROVE IsUser(<<"user", db[r].owner>>)
  <2>1. r[2] \in Ids /\ r = <<"key", r[2]>>
    BY <1>5, RefsAre
  <2>2. db[r].owner \in Ids /\ db[<<"user", db[r].owner>>] # NoRow
    BY <1>1, <1>5, <2>1, SeedAssumption
  <2>. QED
    BY <2>2 DEF IsUser
<1>6. \A t \in tokens : Issued(t)
  BY <1>1, TokensAssumption DEF Issued, IsUser
<1>. QED
  BY <1>2, <1>3, <1>4, <1>5, <1>6 DEF DataInv

LEMMA DataCommit ==
    ASSUME ShapeInv, NumbersInv, HeldInv, DataInv, NEW p \in Procs, Commit(p)
    PROVE  DataInv'
<1>x. PICK x, ws : x = proc[p] /\ ws = tx[p]
  OBVIOUS
<1>0. /\ x.pc = "commit" /\ x.pc \in Pcs /\ Held(x, ws) /\ x.id \in 1..started
      /\ started \in 0..MaxOps /\ MaxOps \in Nat /\ started' = started /\ tokens' = tokens \cup x.give
  BY <1>x, CommitIs, OpsAssumption DEF HeldInv, NumbersInv, Pcs
<1>1. ASSUME NEW r \in Refs, r[1] = "user", db'[r] # NoRow PROVE HasTeam(db[r])'
  <2>1. PICK T : T = {w \in tx[p] : w.ref = r}
    OBVIOUS
  <2>2. \/ T = {} /\ db'[r] = db[r]
        \/ \E w \in x.change : T = {w} /\ w.kind = "insert" /\ db[r] = NoRow /\ db'[r] = w.fields
        \/ /\ T # {} /\ (\A w \in T : w.kind = "update") /\ db[r] # NoRow
           /\ Updated(db[r], T, db'[r])
    <3>1. RowAfter(x.change, r, T)
      BY <1>x, <2>1, CommitRow
    <3>. QED
      BY <1>1, <3>1 DEF RowAfter
  <2>3. "team" \in Columns("user")
    BY DEF Columns
  <2>4. ASSUME NEW w \in T, w.kind # "delete", "team" \in DOMAIN w.fields PROVE HasTeam(w.fields)'
    <3>1. w \in ws /\ w.ref = r /\ r \notin {"key"} \X Ids
      BY <1>x, <1>1, <2>1
    <3>2. Proper(x, w) /\ ~Raises(w)
      BY <1>0, <3>1, TxIs DEF OfKey
    <3>3. HasTeam(w.fields)
      BY <2>4, <3>2 DEF Proper, Raises, Dangling, HasTeam
    <3>. QED
      BY <3>3, Stays
  <2>5. CASE T = {} /\ db'[r] = db[r]
    <3>1. HasTeam(db[r])
      BY <1>1, <2>5 DEF DataInv
    <3>2. PICK row : row = db[r]
      OBVIOUS
    <3>3. HasTeam(row)'
      BY <3>1, <3>2, Stays
    <3>. QED
      BY <2>5, <3>2, <3>3
  <2>6. ASSUME NEW w \in x.change, T = {w}, w.kind = "insert", db'[r] = w.fields PROVE HasTeam(db[r])'
    <3>1. "team" \in DOMAIN w.fields
      BY <1>1, <2>3, <2>6, CommitRows
    <3>2. HasTeam(w.fields)'
      BY <2>4, <2>6, <3>1
    <3>. QED
      BY <2>6, <3>2
  <2>7. CASE T # {} /\ (\A w \in T : w.kind = "update") /\ db[r] # NoRow /\ Updated(db[r], T, db'[r])
    <3>1. PICK old, new : old = db[r] /\ new = db'[r]
      OBVIOUS
    <3>2. HasTeam(old) /\ "team" \in DOMAIN old
      BY <1>1, <2>3, <2>7, <3>1 DEF DataInv
    <3>3. HasTeam(old)'
      BY <3>2, Stays
    <3>4. \/ new.team = old.team
          \/ \E w \in T : "team" \in DOMAIN w.fields /\ new.team = w.fields.team
      BY <2>7, <3>1, <3>2 DEF Updated
    <3>5. HasTeam(new)'
      BY <2>4, <2>7, <3>3, <3>4 DEF HasTeam
    <3>. QED
      BY <3>1, <3>5
  <2>. QED
    BY <2>2, <2>5, <2>6, <2>7
<1>2. ASSUME NEW r \in Refs, r[1] = "key", db'[r] # NoRow PROVE IsUser(<<"user", db[r].owner>>)'
  <2>1. PICK T : T = {w \in tx[p] : w.ref = r}
    OBVIOUS
  <2>2. \/ T = {} /\ db'[r] = db[r]
        \/ \E w \in x.change : T = {w} /\ w.kind = "insert" /\ db[r] = NoRow /\ db'[r] = w.fields
        \/ /\ T # {} /\ (\A w \in T : w.kind = "update") /\ db[r] # NoRow
           /\ Updated(db[r], T, db'[r])
    <3>1. RowAfter(x.change, r, T)
      BY <1>x, <2>1, CommitRow
    <3>. QED
      BY <1>2, <3>1 DEF RowAfter
  <2>3. "owner" \in Columns("key")
    BY DEF Columns
  <2>4. db[r] # NoRow /\ db'[r].owner = db[r].owner => IsUser(<<"user", db[r].owner>>)'
    <3>1. PICK u : u = <<"user", db[r].owner>>
      OBVIOUS
    <3>2. db[r] # NoRow => IsUser(u)'
      BY <1>2, <3>1, Stays DEF DataInv
    <3>. QED
      BY <3>1, <3>2
  <2>5. CASE T = {} /\ db'[r] = db[r]
    BY <1>2, <2>4, <2>5
  <2>6. ASSUME NEW w \in x.change, T = {w}, w.kind = "insert", db'[r] = w.fields
        PROVE  IsUser(<<"user", db[r].owner>>)'
    <3>1. "owner" \in DOMAIN w.fields
      BY <1>2, <2>3, <2>6, CommitRows
    <3>2. Proper(x, w)
      BY <1>0 DEF Held, Choice
    <3>3. w.fields.owner = x.user[2] /\ x.req.op \notin Public
      BY <2>6, <3>1, <3>2 DEF Proper
    <3>4. IsUser(x.user)
      BY <1>0, <3>3 DEF Held
    <3>5. x.user = <<"user", x.user[2]>>
      BY <3>4 DEF IsUser
    <3>6. IsUser(x.user)'
      BY <3>4, Stays
    <3>. QED
      BY <2>6, <3>3, <3>5, <3>6
  <2>7. CASE T # {} /\ (\A w \in T : w.kind = "update") /\ db[r] # NoRow /\ Updated(db[r], T, db'[r])
    <3>1. \A w \in T : "owner" \notin DOMAIN w.fields
      <4>1. TAKE w \in T
      <4>2. w \in ws /\ w.kind = "update"
        BY <1>x, <2>1, <2>7
      <4>3. CASE w \in Mark(x)
        BY <4>3, MarkIs
      <4>4. CASE Proper(x, w)
        BY <4>2, <4>4 DEF Proper
      <4>. QED
        BY <1>0, <4>2, <4>3, <4>4, TxIs
    <3>2. PICK old, new : old = db[r] /\ new = db'[r]
      OBVIOUS
    <3>3. "owner" \in DOMAIN old
      BY <1>2, <2>3, <2>7, <3>2 DEF DataInv
    <3>4. new.owner = old.owner
      BY <2>7, <3>1, <3>2, <3>3 DEF Updated
    <3>. QED
      BY <2>4, <2>7, <3>2, <3>4
  <2>. QED
    BY <2>2, <2>5, <2>6, <2>7
<1>3. ASSUME NEW t \in Tables, NEW i \in 1..MaxOps, i > started PROVE db'[<<t, i>>] = NoRow
  <2>1. <<t, i>> \in Refs /\ <<t, i>>[2] = i /\ db[<<t, i>>] = NoRow
    BY <1>3, RefsAre, OpsAssumption DEF DataInv
  <2>2. i # x.id
    BY <1>0, <1>3
  <2>. QED
    BY <1>x, <2>1, <2>2, CommitRows
<1>4. ASSUME NEW t \in tokens \cup x.give PROVE Issued(t)'
  <2>1. Issued(t)
    BY <1>0, <1>4 DEF DataInv, Held
  <2>. QED
    BY <2>1, Stays
<1>5. DOMAIN db' = Refs /\ Alone' /\ \A r \in Refs : db'[r] # NoRow => DOMAIN db'[r] = Columns(r[1])
  BY AloneAfter, CommitRows
<1>6. \A t \in tokens' : Issued(t)'
  BY <1>0, <1>4
<1>7. started' = started
  BY <1>0
<1>. QED
  BY <1>1, <1>2, <1>3, <1>5, <1>6, <1>7 DEF DataInv

LEMMA DataStep == ShapeInv /\ NumbersInv /\ HeldInv /\ DataInv /\ [Next]_vars => DataInv'
<1>. SUFFICES ASSUME ShapeInv, NumbersInv, HeldInv, DataInv, [Next]_vars PROVE DataInv'
  OBVIOUS
<1>1. ASSUME db' = db, tokens' = tokens, started' = started \/ started' = started + 1 PROVE DataInv'
  <2>1. started \in Nat /\ \A i \in 1..MaxOps : i > started' => i > started
    BY <1>1, OpsAssumption DEF NumbersInv
  <2>. QED
    BY <1>1, <2>1 DEF DataInv, Alone, HasTeam, IsUser, Issued
<1>2. ASSUME NEW p \in Procs, Works(p) PROVE DataInv'
  BY <1>1, <1>2, WorksIs
<1>3. ASSUME NEW p \in Procs, Begins(p) PROVE DataInv'
  BY <1>1, <1>3, BeginIs
<1>4. CASE UNCHANGED <<dbVars, tokens, proc, started>>
  BY <1>1, <1>4 DEF dbVars
<1>. QED
  BY <1>2, <1>3, <1>4, DataCommit, NextIs

-----------------------------------------------------------------------------
(***************************************************************************)
(* What a transaction holds, from step to step.                            *)
(***************************************************************************)
LEMMA HeldSame ==
    ASSUME db' = db
    PROVE  \A x, ws : Held(x, ws) => Held(x, ws)'
<1>1. \A w : Raises(w)' <=> Raises(w)
  BY DEF Raises, Gone, Taken, Dangling, Rows
<1>2. /\ \A u : IsUser(u) => IsUser(u)'
      /\ \A row : HasTeam(row) => HasTeam(row)'
      /\ \A x : OfKey(x) => OfKey(x)'
  BY DEF IsUser, HasTeam, OfKey
<1>3. \A t : Issued(t) => Issued(t)'
  BY <1>2 DEF Issued
<1>4. \A x, ws, c : Holds(x, ws, c) => Holds(x, ws, c)'
  BY <1>2 DEF Holds
<1>. QED
  BY <1>1, <1>2, <1>3, <1>4 DEF Held

LEMMA HeldRest ==
    ASSUME NEW status
    PROVE  Held([Resting EXCEPT !.answer = status], {})'
<1>1. PICK y : y = [Resting EXCEPT !.answer = status]
  OBVIOUS
<1>2. y.pc = "idle" /\ y.give = {}
  BY <1>1, RestingIs
<1>3. Held(y, {})'
  BY <1>2 DEF Held
<1>. QED
  BY <1>1, <1>3

\* While another request commits.
LEMMA HeldCommit ==
    ASSUME ShapeInv, NumbersInv, HeldInv, DataInv, LocksInv, NEW p \in Procs, Commit(p),
           NEW q \in Procs \ {p}
    PROVE  Held(proc[q], tx[q])'
<1>x. PICK x, ws, y : x = proc[q] /\ ws = tx[q] /\ y = proc'[q]
  OBVIOUS
<1>0. /\ Held(x, ws) /\ x.pc \in Pcs /\ tx'[q] = ws
      /\ y.pc = x.pc /\ y.req = x.req /\ y.id = x.id /\ y.user = x.user /\ y.as = x.as
      /\ y.read = x.read /\ y.change = x.change /\ y.give = x.give
  <2>1. PICK s : s = db'
    OBVIOUS
  <2>2. (x.pc = "idle" /\ y = x) \/ Sees(x, y, s)
    BY <1>x, <2>1, CommitSees
  <2>3. Held(x, ws) /\ x.pc \in Pcs /\ tx'[q] = ws
    BY <1>x, CommitIs, TxFacts DEF HeldInv, ShapeInv
  <2>. QED
    BY <2>2, <2>3 DEF Sees
<1>1. ASSUME NEW w \in ws, x.pc = "commit", w \in x.change, ~Raises(w) PROVE ~Raises(w)'
  <2>1. CASE w.kind = "delete"
    BY <2>1 DEF Raises
  <2>2. CASE w.kind # "delete"
    <3>1. /\ ~Gone(w) /\ ~Taken(w) /\ ~Dangling(w) /\ db'[w.ref] = db[w.ref]
          /\ Proper(x, w) /\ Claims(w) \subseteq Locks(q)
      BY <1>x, <1>0, <1>1, <2>2, Untouched DEF Raises, Locks, Held, Choice
    <3>2. ~Gone(w)'
      BY <3>1 DEF Gone
    <3>3. ~Dangling(w)'
      <4>1. CASE "team" \notin DOMAIN w.fields
        BY <4>1 DEF Dangling
      <4>2. CASE "team" \in DOMAIN w.fields
        <5>1. HasTeam(w.fields)
          BY <2>2, <3>1, <4>2 DEF Proper, Dangling, HasTeam
        <5>2. HasTeam(w.fields)'
          BY <5>1, Stays
        <5>. QED
          BY <5>2 DEF HasTeam, Dangling
      <4>. QED
        BY <4>1, <4>2
    <3>4. ~Taken(w)'
      <4>1. SUFFICES ASSUME NEW r \in Refs, r[1] = w.ref[1], r # w.ref, db'[r] # NoRow,
                            NEW v, v \in Values(r[1], db'[r]), v \in Values(r[1], Written(db[w.ref], {w}))
                     PROVE  FALSE
        BY <3>1 DEF Taken, Rows
      <4>2. CASE db'[r] = db[r]
        BY <3>1, <4>1, <4>2 DEF Taken, Rows
      <4>3. CASE Values(r[1], db'[r]) \subseteq Locks(p)
        <5>1. v \in Claims(w)
          BY <3>1, <4>1 DEF Claims, Gone
        <5>. QED
          BY <3>1, <4>1, <4>3, <5>1 DEF LocksInv
      <4>. QED
        BY <4>1, <4>2, <4>3, ValuesAfter DEF Settled
    <3>. QED
      BY <3>2, <3>3, <3>4 DEF Raises
  <2>. QED
    BY <2>1, <2>2
<1>2. ASSUME NEW c, Holds(x, ws, c) PROVE Holds(y, ws, c)'
  <2>1. Mark(y) = Mark(x) /\ (OfKey(x) => OfKey(x)') /\ (OfKey(x)' => OfKey(y)')
    BY <1>0, Stays DEF Mark, OfKey
  <2>. QED
    BY <1>2, <2>1 DEF Holds
<1>3. ASSUME Choice(x, x.read, x.change) PROVE Choice(y, y.read, y.change)
  BY <1>0, <1>3 DEF Choice, Proper, Intended, Complete
<1>4. x.pc = "commit" => \A w \in y.change : ~Raises(w)'
  <2>1. x.pc = "commit" => \A w \in x.change : w \in ws /\ ~Raises(w)
    BY <1>0 DEF Held, Holds
  <2>. QED
    BY <1>0, <1>1, <2>1
<1>5. ASSUME x.pc # "idle", NEW t \in Tables PROVE db'[<<t, y.id>>] = NoRow
  <2>1. x.id # proc[p].id /\ x.id \in Ids
    BY <1>x, <1>5, CommitIs, OpsAssumption DEF NumbersInv
  <2>2. db[<<t, x.id>>] = NoRow /\ <<t, x.id>> \in Refs /\ <<t, x.id>>[2] = x.id
    BY <1>0, <1>5, <2>1, RefsAre DEF Held
  <2>. QED
    BY <1>0, <2>1, <2>2, CommitRows
<1>6. /\ \A t \in y.give : Issued(t)'
      /\ x.pc \in {"handle", "flush", "commit"} /\ x.req.op \notin Public =>
            IsUser(y.user)' /\ HasTeam(y.as)'
      /\ x.pc = "touch" => OfKey(y)'
  <2>1. OfKey(x)' => OfKey(y)'
    BY <1>0 DEF OfKey
  <2>. QED
    BY <1>0, <2>1, Stays DEF Held
<1>7. Held(y, ws)'
  BY <1>0, <1>2, <1>3, <1>4, <1>5, <1>6 DEF Held
<1>. QED
  BY <1>x, <1>0, <1>7

LEMMA OutcomeIssues ==
    ASSUME DataInv, NEW p, Req(p).op \in Ops, Outcome(p).status = 200, NEW t \in Outcome(p).give
    PROVE  Issued(t)
<1>t. ASSUME NEW u, t \in Tokens(u) PROVE t.user = u[2] /\ t.type \in {"access", "refresh"}
  BY <1>t DEF Tokens
<1>u. ASSUME NEW u \in Rows("user") PROVE IsUser(<<"user", u[2]>>)
  BY DEF Rows, Refs, IsUser
<1>1. CASE Req(p).op = "login"
  <2>1. PICK users : users = {u \in Rows("user") : db[u].username = Req(p).username
                                                   /\ db[u].password = Req(p).password}
    OBVIOUS
  <2>2. PICK u : u = CHOOSE v \in users : TRUE
    OBVIOUS
  <2>3. users # {} /\ t \in Tokens(u)
    BY <1>1, <2>1, <2>2 DEF Outcome, login, Refuse, Accept
  <2>4. u \in Rows("user")
    BY <2>1, <2>2, <2>3
  <2>. QED
    BY <1>t, <1>u, <2>3, <2>4 DEF Issued
<1>2. CASE Req(p).op = "refresh"
  <2>1. PICK u : u = <<"user", Req(p).token.user>>
    OBVIOUS
  <2>2. Req(p).token \in tokens /\ t \in Tokens(u)
    BY <1>2, <2>1 DEF Outcome, refresh_token, Refuse, Accept, Valid
  <2>3. Issued(Req(p).token)
    BY <2>2 DEF DataInv
  <2>. QED
    BY <1>t, <2>1, <2>2, <2>3 DEF Issued
<1>3. CASE Req(p).op \notin {"login", "refresh"}
  <2>1. Outcome(p).give = {}
    BY <1>3 DEF Outcome, Ops, Public, Updates, register, create_api_key, revoke_api_key, update_user,
        create_team, update_team, create_profile, create_webhook, update_webhook, delete_webhook,
        ById, BadTeam, Refuse, Accept
  <2>. QED
    BY <2>1
<1>. QED
  BY <1>1, <1>2, <1>3

LEMMA HeldWorks ==
    ASSUME ShapeInv, NumbersInv, HeldInv, DataInv, NEW p \in Procs, Works(p)
    PROVE  Held(proc[p], tx[p])'
<1>x. PICK x, ws : x = proc[p] /\ ws = tx[p]
  OBVIOUS
<1>0. /\ Whole(x) /\ Held(x, ws) /\ x.pc \in Pcs /\ db' = db /\ x.id \in Ids
      /\ x.pc # "idle" => x.req \in Bodies /\ x.req.op \in Ops
  BY <1>x, WorksIs, BodiesAre, OpsAssumption DEF ShapeInv, NumbersInv, HeldInv
<1>1. ASSUME NEW y, NEW vs, Step(p, y), vs = tx'[p], Held(y, vs) PROVE Held(proc[p], tx[p])'
  <2>1. Held(y, vs)' /\ proc'[p] = y
    BY <1>0, <1>1, HeldSame, StepFacts
  <2>. QED
    BY <1>1, <2>1
<1>2. ASSUME \E status : Ends(p, status) PROVE Held(proc[p], tx[p])'
  <2>1. PICK status : Ends(p, status)
    BY <1>2
  <2>2. PICK y : y = [Resting EXCEPT !.answer = status] /\ Held(y, {})'
    BY HeldRest
  <2>3. proc'[p] = y /\ tx'[p] = {}
    BY <2>1, <2>2, StepFacts, TxFacts DEF Ends
  <2>. QED
    BY <2>2, <2>3
<1>3. ASSUME NEW u, IsUser(u), NEW vs, vs = tx'[p], Holds(x, vs, {}), NEW y,
             y = [x EXCEPT !.pc = "handle", !.user = u, !.as = db[u]], Step(p, y), x.pc # "idle"
      PROVE  Held(proc[p], tx[p])'
  <2>1. /\ y.pc = "handle" /\ y.req = x.req /\ y.id = x.id /\ y.user = u /\ y.as = db[u]
        /\ y.give = x.give
    BY <1>0, <1>3 DEF Whole
  <2>2. HasTeam(db[u])
    BY <1>3 DEF IsUser, DataInv, Refs, Tables
  <2>3. Holds(y, vs, {})
    BY <1>3, <2>1 DEF Holds, Mark, OfKey
  <2>4. Held(y, vs)
    BY <1>0, <1>3, <2>1, <2>2, <2>3 DEF Held
  <2>. QED
    BY <1>1, <1>3, <2>4
<1>4. CASE Authenticate(p)
  <2>1. /\ x.pc = "authenticate" /\ tx' = tx
        /\ IF Valid(x.req.token, "access") THEN ActAs(p, <<"user", x.req.token.user>>)
           ELSE IF x.req.key # NoKey /\ db[x.req.key] # NoRow /\ db[x.req.key].active
                     /\ x.req.key \notin expired
           THEN Goto(p, "touch") ELSE Step(p, Done(p, 401))
    BY <1>4, <1>x DEF Authenticate, dbVars, At, Req
  <2>2. ws = {} /\ tx'[p] = {} /\ x.req.op \notin Public
    BY <1>0, <1>x, <2>1 DEF Held
  <2>3. CASE Valid(x.req.token, "access")
    <3>1. PICK u : u = <<"user", x.req.token.user>>
      OBVIOUS
    <3>2. IsUser(u) /\ ActAs(p, u)
      BY <2>1, <2>3, <3>1 DEF Valid, DataInv, Issued
    <3>3. CASE Step(p, [x EXCEPT !.pc = "handle", !.user = u, !.as = db[u]])
      <4>1. Holds(x, {}, {})
        BY DEF Holds
      <4>. QED
        BY <1>3, <2>1, <2>2, <3>2, <3>3, <4>1
    <3>4. CASE Step(p, [Resting EXCEPT !.answer = 403])
      <4>1. Ends(p, 403)
        BY <1>0, <1>x, <2>1, <2>2, <3>4 DEF Ends, RollbackTx, ShapeInv
      <4>. QED
        BY <1>2, <4>1
    <3>. QED
      BY <1>x, <3>2, <3>3, <3>4, ActsAs
  <2>4. CASE x.req.key # NoKey /\ db[x.req.key] # NoRow /\ Goto(p, "touch")
    <3>1. PICK y : y = [x EXCEPT !.pc = "touch"] /\ Step(p, y)
      BY <1>x, <2>4 DEF Goto
    <3>2. y.pc = "touch" /\ y.req = x.req /\ y.id = x.id /\ y.give = x.give
      BY <1>0, <3>1 DEF Whole
    <3>3. OfKey(y)
      BY <1>0, <2>1, <2>2, <2>4, <3>2, BodiesAre DEF OfKey
    <3>4. Held(y, {})
      BY <1>0, <2>1, <3>2, <3>3 DEF Held
    <3>. QED
      BY <1>1, <2>2, <3>1, <3>4
  <2>5. CASE Step(p, Done(p, 401))
    <3>1. Ends(p, 401)
      BY <1>0, <1>x, <2>1, <2>2, <2>5 DEF Ends, RollbackTx, ShapeInv, Done
    <3>. QED
      BY <1>2, <3>1
  <2>. QED
    BY <2>1, <2>3, <2>4, <2>5
<1>5. CASE Touch(p)
  <2>1. PICK u : /\ x.pc = "touch" /\ u = <<"user", db[x.req.key].owner>> /\ ActAs(p, u)
                 /\ IF Entitled(db[u], x.req.op) THEN Flush(p, TouchWrite(p)) ELSE RollbackTx(p)
    BY <1>5, <1>x DEF Touch, At, Req
  <2>2. ws = {} /\ OfKey(x)
    BY <1>0, <2>1 DEF Held
  <2>3. IsUser(u)
    <3>1. x.req.key \in Refs /\ x.req.key[1] = "key" /\ db[x.req.key] # NoRow
      BY <2>2 DEF OfKey, Refs, Tables
    <3>. QED
      BY <2>1, <3>1 DEF DataInv
  <2>4. CASE Entitled(db[u], x.req.op)
    <3>1. PICK y : y = [x EXCEPT !.pc = "handle", !.user = u, !.as = db[u]] /\ Step(p, y)
      BY <1>x, <2>1, <2>4, ActsAs DEF Req
    <3>2. PICK vs : vs = tx'[p] /\ vs = ws \cup Mark(x)
      BY <1>x, <2>1, <2>4, TxFacts DEF TouchWrite, Mark, Req
    <3>3. Holds(x, vs, {})
      BY <2>2, <3>2 DEF Holds
    <3>. QED
      BY <1>3, <2>1, <2>3, <3>1, <3>2, <3>3
  <2>5. CASE ~Entitled(db[u], x.req.op)
    <3>1. Ends(p, 403)
      BY <1>x, <2>1, <2>5, ActsAs DEF Req, Ends
    <3>. QED
      BY <1>2, <3>1
  <2>. QED
    BY <2>4, <2>5
<1>6. CASE Handle(p)
  <2>1. PICK o : o = Outcome(p)
    OBVIOUS
  <2>2. CASE o.status # 200
    <3>1. Ends(p, o.status)
      BY <1>6, <2>1, <2>2, FailIs DEF Handle
    <3>. QED
      BY <1>2, <3>1
  <2>3. CASE o.status = 200
    <3>1. PICK y : /\ y = [x EXCEPT !.pc = IF o.change = {} /\ x.req.fits THEN "commit" ELSE "flush",
                                    !.read = o.read, !.change = o.change, !.give = o.give]
                   /\ Step(p, y) /\ tx' = tx /\ x.pc = "handle"
      BY <1>6, <1>x, <2>1, <2>3 DEF Handle, dbVars, At, Req
    <3>2. /\ y.pc = (IF o.change = {} /\ x.req.fits THEN "commit" ELSE "flush") /\ y.req = x.req /\ y.id = x.id
          /\ y.user = x.user /\ y.as = x.as /\ y.read = o.read /\ y.change = o.change /\ y.give = o.give
      BY <1>0, <3>1 DEF Whole
    <3>3. /\ Holds(x, ws, {})
          /\ x.req.op \notin Public => IsUser(x.user) /\ HasTeam(x.as)
          /\ \A t \in Tables : db[<<t, x.id>>] = NoRow
      BY <1>0, <3>1 DEF Held
    <3>4. Choice(x, o.read, o.change)
      BY <1>0, <1>x, <2>1, <2>3, <3>1, <3>3, OutcomeChoice DEF HasTeam
    <3>5. Choice(y, y.read, y.change)
      BY <3>2, <3>4 DEF Choice, Proper, Intended, Complete
    <3>6. \A t \in y.give : Issued(t)
      BY <1>0, <1>x, <2>1, <2>3, <3>1, <3>2, OutcomeIssues DEF Req
    <3>7. Holds(y, ws, {})
      BY <3>2, <3>3 DEF Holds, Mark, OfKey
    <3>8. Held(y, ws)
      BY <3>2, <3>3, <3>5, <3>6, <3>7 DEF Held
    <3>. QED
      BY <1>1, <1>x, <3>1, <3>8
  <2>. QED
    BY <2>2, <2>3
<1>7. CASE FlushWrites(p)
  <2>1. CASE \E w \in x.change : Raises(w)
    <3>1. \E status : Ends(p, status)
      BY <1>7, <1>x, <2>1, FailIs DEF FlushWrites
    <3>. QED
      BY <1>2, <3>1
  <2>2. CASE \A w \in x.change : ~Raises(w)
    <3>1. PICK y : y = [x EXCEPT !.pc = "commit"] /\ Step(p, y)
      BY <1>7, <1>x, <2>2 DEF FlushWrites, Goto
    <3>2. x.pc = "flush" /\ Flush(p, x.change)
      BY <1>7, <1>x, <2>2 DEF FlushWrites, At
    <3>3. /\ y.pc = "commit" /\ y.req = x.req /\ y.id = x.id
          /\ y.user = x.user /\ y.as = x.as /\ y.read = x.read /\ y.change = x.change /\ y.give = x.give
      BY <1>0, <3>1 DEF Whole
    <3>4. PICK vs : vs = tx'[p] /\ vs = ws \cup x.change
      BY <1>x, <3>2, TxFacts
    <3>5. /\ Holds(x, ws, {}) /\ Choice(x, x.read, x.change)
          /\ x.req.op \notin Public => IsUser(x.user) /\ HasTeam(x.as)
          /\ \A t \in Tables : db[<<t, x.id>>] = NoRow
          /\ \A t \in x.give : Issued(t)
      BY <1>0, <3>2 DEF Held
    <3>6. Choice(y, y.read, y.change)
      BY <3>3, <3>5 DEF Choice, Proper, Intended, Complete
    <3>7. Holds(y, vs, y.change)
      BY <3>3, <3>4, <3>5 DEF Holds, Mark, OfKey
    <3>8. Held(y, vs)
      BY <2>2, <3>3, <3>5, <3>6, <3>7 DEF Held
    <3>. QED
      BY <1>1, <3>1, <3>4, <3>8
  <2>. QED
    BY <2>1, <2>2
<1>8. CASE Unfit(p) \/ Abort(p) \/ Victim(p)
  <2>1. \E status : Ends(p, status)
    BY <1>8, FailIs DEF Unfit, Abort, Victim
  <2>. QED
    BY <1>2, <2>1
<1>. QED
  BY <1>4, <1>5, <1>6, <1>7, <1>8 DEF Works

LEMMA HeldInit == Init => HeldInv
<1>. SUFFICES ASSUME Init, NEW p \in Procs PROVE Held(proc[p], tx[p])
  BY DEF HeldInv
<1>1. proc[p] = Resting /\ tx[p] = {}
  BY DEF Init
<1>. QED
  BY <1>1, RestingIs DEF Held

LEMMA HeldStep ==
    ShapeInv /\ NumbersInv /\ HeldInv /\ DataInv /\ LocksInv /\ [Next]_vars => HeldInv'
<1>. SUFFICES ASSUME ShapeInv, NumbersInv, HeldInv, DataInv, LocksInv, [Next]_vars, NEW q \in Procs
              PROVE  Held(proc[q], tx[q])'
  BY DEF HeldInv
<1>x. PICK x, ws : x = proc[q] /\ ws = tx[q] /\ Held(x, ws)
  BY DEF HeldInv
<1>1. ASSUME db' = db, proc'[q] = x, tx'[q] = ws PROVE Held(proc[q], tx[q])'
  <2>1. Held(x, ws)'
    BY <1>x, <1>1, HeldSame
  <2>. QED
    BY <1>1, <2>1
<1>2. ASSUME NEW p \in Procs, Works(p), p # q PROVE Held(proc[q], tx[q])'
  <2>1. PICK y : Step(p, y)
    BY <1>2, WorksIs
  <2>. QED
    BY <1>x, <1>1, <1>2, <2>1, WorksIs, StepFacts, TxFacts
<1>3. ASSUME NEW p \in Procs, Commit(p) PROVE Held(proc[q], tx[q])'
  <2>1. CASE p = q
    <3>1. proc'[q] = [Resting EXCEPT !.answer = 200] /\ tx'[q] = {}
      BY <1>3, <2>1, CommitIs, TxFacts
    <3>2. Held([Resting EXCEPT !.answer = 200], {})'
      BY HeldRest
    <3>. QED
      BY <3>1, <3>2
  <2>. QED
    BY <1>3, <2>1, HeldCommit
<1>4. ASSUME NEW p \in Procs, Begins(p) PROVE Held(proc[q], tx[q])'
  <2>1. PICK r, y : Step(p, y) /\ Starts(r, started + 1, y)
    BY <1>4, BeginIs
  <2>2. db' = db /\ tx' = tx /\ started < MaxOps /\ proc[p].pc = "idle"
    BY <1>4, BeginIs
  <2>3. CASE p # q
    BY <1>x, <1>1, <2>1, <2>2, <2>3, StepFacts
  <2>4. CASE p = q
    <3>1. ws = {} /\ y.give = {}
      BY <1>x, <2>1, <2>2, <2>4 DEF Held, Starts
    <3>2. \A t \in Tables : db[<<t, y.id>>] = NoRow
      <4>1. started + 1 \in 1..MaxOps /\ started + 1 > started
        BY <2>2, OpsAssumption DEF NumbersInv
      <4>. QED
        BY <2>1, <4>1 DEF Starts, DataInv
    <3>3. Held(y, {})
      BY <2>1, <3>1, <3>2 DEF Starts, Held, Holds
    <3>4. Held(y, {})'
      BY <2>2, <3>3, HeldSame
    <3>5. proc'[q] = y /\ tx'[q] = {}
      BY <1>x, <2>1, <2>2, <2>4, <3>1, StepFacts
    <3>. QED
      BY <3>4, <3>5
  <2>. QED
    BY <2>3, <2>4
<1>5. CASE UNCHANGED <<dbVars, tokens, proc, started>>
  BY <1>x, <1>1, <1>5 DEF dbVars
<1>6. CASE Works(q)
  BY <1>6, HeldWorks
<1>. QED
  BY <1>2, <1>3, <1>4, <1>5, <1>6, NextIs

-----------------------------------------------------------------------------
(***************************************************************************)
(* The invariant, and what follows from it.                                *)
(***************************************************************************)
Statuses == {0, 200, 400, 401, 403, 404, 409, 500}

AnswerInv == \A p \in Procs : proc[p].answer \in Statuses

LEMMA OutcomeStatus == \A p : Req(p).op \in Ops => Outcome(p).status \in Statuses
<1>. SUFFICES ASSUME NEW p, Req(p).op \in Ops PROVE Outcome(p).status \in Statuses
  OBVIOUS
<1>1. CASE Req(p).op = "register"
  <2>1. PICK same, c :
            /\ same = {u \in Rows("user") : db[u].email = Req(p).email \/ db[u].username = Req(p).username}
            /\ c = Insert("user", p, NewUser(Req(p)))
                    \cup Insert("audit", p, [action |-> "user.registered", user |-> proc[p].id])
    OBVIOUS
  <2>2. register(p) = CASE Cardinality(same) > 1 -> Refuse(500)
                        [] Cardinality(same) = 1 -> Refuse(409)
                        [] OTHER -> Accept(NoRow, c)
    BY <2>1 DEF register
  <2>. QED
    BY <1>1, <2>2 DEF Outcome, Refuse, Accept, Statuses
<1>2. CASE Req(p).op = "login"
  <2>1. PICK users : users = {u \in Rows("user") : db[u].username = Req(p).username
                                                   /\ db[u].password = Req(p).password}
    OBVIOUS
  <2>2. PICK u : u = CHOOSE v \in users : TRUE
    OBVIOUS
  <2>3. PICK c : c = Update(u, [login |-> TRUE])
                        \cup Insert("audit", p, [action |-> "user.login", user |-> u[2]])
    OBVIOUS
  <2>4. login(p) = IF users = {} THEN Refuse(401)
                   ELSE IF ~db[u].active THEN Refuse(403)
                   ELSE [Accept(db[u], c) EXCEPT !.give = Tokens(u)]
    BY <2>1, <2>2, <2>3 DEF login
  <2>. QED
    BY <1>2, <2>4 DEF Outcome, Refuse, Accept, Statuses
<1>3. CASE Req(p).op = "refresh"
  BY <1>3 DEF Outcome, refresh_token, Refuse, Accept, Statuses
<1>4. CASE Req(p).op \in Updates
  BY <1>4 DEF Outcome, Updates, update_user, update_team, update_webhook, ById, Refuse, Accept, Statuses
<1>5. CASE Req(p).op \in Ops \ (Public \cup Updates)
  BY <1>5 DEF Outcome, Ops, Public, Updates, create_api_key, revoke_api_key, create_team,
              create_profile, create_webhook, delete_webhook, ById, Refuse, Accept, Statuses
<1>. QED
  BY <1>1, <1>2, <1>3, <1>4, <1>5 DEF Public

LEMMA AnswerStep == ShapeInv /\ NumbersInv /\ AnswerInv /\ [Next]_vars => AnswerInv'
<1>. SUFFICES ASSUME ShapeInv, NumbersInv, AnswerInv, [Next]_vars PROVE AnswerInv'
  OBVIOUS
<1>1. ASSUME NEW p \in Procs, NEW y, Step(p, y), y.answer \in Statuses PROVE AnswerInv'
  BY <1>1, StepFacts DEF AnswerInv
<1>2. ASSUME NEW p \in Procs, NEW status \in Statuses, Step(p, [Resting EXCEPT !.answer = status])
      PROVE  AnswerInv'
  <2>1. PICK y : y = [Resting EXCEPT !.answer = status]
    OBVIOUS
  <2>2. y.answer = status
    BY <2>1, RestingIs
  <2>. QED
    BY <1>1, <1>2, <2>1, <2>2
<1>3. ASSUME NEW p \in Procs, Works(p) PROVE AnswerInv'
  <2>1. PICK y : Moves(proc[p], y) /\ Step(p, y)
    BY <1>3, WorksIs
  <2>2. CASE y.pc # "idle"
    <3>1. y.answer \in Statuses
      BY <2>1, <2>2, MovesKeep DEF ShapeInv, AnswerInv
    <3>. QED
      BY <1>1, <2>1, <3>1
  <2>3. CASE y.pc = "idle"
    <3>1. ASSUME NEW status, Step(p, [Resting EXCEPT !.answer = status]),
                 status \in {0, 401, 403, 500, Outcome(p).status}
          PROVE  AnswerInv'
      <4>1. proc[p].req.op \in Ops
        BY <1>3, WorksIs, BodiesAre DEF NumbersInv
      <4>2. status \in Statuses
        BY <3>1, <4>1, OutcomeStatus DEF Statuses, Req
      <4>. QED
        BY <1>2, <3>1, <4>2
    <3>2. ASSUME NEW z, Step(p, z), z.pc # "idle" PROVE FALSE
      BY <2>1, <2>3, <3>2, StepFacts
    <3>3. PICK x : x = proc[p] /\ Whole(x)
      BY DEF ShapeInv
    <3>4. ASSUME NEW u, ActAs(p, u) PROVE AnswerInv'
      <4>1. PICK z : z = [x EXCEPT !.pc = "handle", !.user = u, !.as = db[u]]
        OBVIOUS
      <4>2. z.pc = "handle"
        BY <3>3, <4>1 DEF Whole
      <4>3. Step(p, z) \/ Step(p, [Resting EXCEPT !.answer = 403])
        BY <3>3, <3>4, <4>1, ActsAs
      <4>. QED
        BY <3>1, <3>2, <4>2, <4>3
    <3>5. ASSUME NEW pc \in Pcs \ {"idle"}, Goto(p, pc) PROVE FALSE
      <4>1. PICK z : z = [x EXCEPT !.pc = pc]
        OBVIOUS
      <4>2. z.pc = pc
        BY <3>3, <4>1 DEF Whole
      <4>. QED
        BY <3>2, <3>3, <3>5, <4>1, <4>2 DEF Goto
    <3>6. CASE Authenticate(p)
      <4>1. (\E u : ActAs(p, u)) \/ Goto(p, "touch") \/ Step(p, [Resting EXCEPT !.answer = 401])
        BY <3>6 DEF Authenticate, Done
      <4>. QED
        BY <3>1, <3>4, <3>5, <4>1 DEF Pcs
    <3>7. CASE Touch(p)
      BY <3>4, <3>7 DEF Touch
    <3>8. CASE Handle(p)
      <4>1. PICK o : o = Outcome(p)
        OBVIOUS
      <4>2. CASE o.status # 200
        <5>1. Step(p, [Resting EXCEPT !.answer = o.status])
          BY <3>8, <4>1, <4>2, FailIs DEF Handle, Ends
        <5>. QED
          BY <3>1, <4>1, <5>1
      <4>3. CASE o.status = 200
        <5>1. PICK z : /\ z = [proc[p] EXCEPT !.pc = IF o.change = {} /\ Req(p).fits THEN "commit" ELSE "flush",
                                  !.read = o.read, !.change = o.change, !.give = o.give]
                       /\ Step(p, z)
          BY <3>8, <4>1, <4>3 DEF Handle
        <5>2. z.pc \in {"commit", "flush"}
          BY <3>3, <5>1 DEF Whole
        <5>. QED
          BY <3>2, <5>1, <5>2
      <4>. QED
        BY <4>2, <4>3
    <3>9. CASE FlushWrites(p)
      <4>1. Ends(p, 500) \/ Goto(p, "commit")
        BY <3>9, FailIs DEF FlushWrites
      <4>. QED
        BY <3>1, <3>5, <4>1 DEF Ends, Pcs
    <3>10. CASE Unfit(p) \/ Abort(p) \/ Victim(p)
      <4>1. Ends(p, 0) \/ Ends(p, 500)
        BY <3>10, FailIs DEF Unfit, Abort, Unserved, Victim
      <4>. QED
        BY <3>1, <4>1 DEF Ends
    <3>. QED
      BY <1>3, <3>6, <3>7, <3>8, <3>9, <3>10 DEF Works
  <2>. QED
    BY <2>2, <2>3
<1>4. ASSUME NEW p \in Procs, Commit(p) PROVE AnswerInv'
  <2>1. proc'[p].answer = 200
    <3>1. PICK y : y = proc'[p] /\ y = [Resting EXCEPT !.answer = 200]
      BY <1>4, CommitIs
    <3>. QED
      BY <3>1, RestingIs
  <2>2. \A q \in Procs \ {p} : proc'[q].answer = proc[q].answer
    BY <1>4, CommitSees DEF Sees
  <2>. QED
    BY <2>1, <2>2 DEF AnswerInv, Statuses
<1>5. ASSUME NEW p \in Procs, Begins(p) PROVE AnswerInv'
  <2>1. PICK r, y : Step(p, y) /\ Starts(r, started + 1, y)
    BY <1>5, BeginIs
  <2>. QED
    BY <1>1, <2>1 DEF Starts, Statuses
<1>6. CASE UNCHANGED <<dbVars, tokens, proc, started>>
  BY <1>6 DEF AnswerInv
<1>. QED
  BY <1>3, <1>4, <1>5, <1>6, NextIs

Inv ==
    /\ ShapeInv /\ NumbersInv /\ AuthInv
    /\ HeldInv /\ LocksInv /\ DataInv /\ AnswerInv

THEOREM InvCorrect == Spec => []Inv
<1>1. Init => Inv
  <2>1. Init => AnswerInv
    BY DEF Init, AnswerInv, Resting, Unserved, Statuses
  <2>. QED
    BY <2>1, ShapeInit, NumbersInit, AuthInit, HeldInit, LocksInit, DataInit DEF Inv
<1>2. Inv /\ [Next]_vars => Inv'
  BY ShapeStep, NumbersStep, AuthStep, HeldStep, LocksStep, DataStep, AnswerStep DEF Inv
<1>. QED
  BY <1>1, <1>2, PTL DEF Spec

\* The rows and the tokens are what they should be, no value that must be unique
\* is there twice, and a lock is held by one transaction: the constraints of
\* schemas.py and the session of database.py.
THEOREM TypeCorrect == Spec => []TypeOK
<1>1. Inv => TypeOK
  <2>. SUFFICES ASSUME Inv PROVE TypeOK
    OBVIOUS
  <2>1. DOMAIN db = Refs /\ started \in 0..MaxOps
    BY DEF Inv, DataInv, NumbersInv
  <2>2. \A t \in tokens : t.type \in {"access", "refresh"} /\ db[<<"user", t.user>>] # NoRow
    BY DEF Inv, DataInv, Issued, IsUser
  <2>3. ASSUME NEW u, NEW v, u \in Refs, v \in Refs, u # v, u[1] = v[1], db[u] # NoRow, db[v] # NoRow
        PROVE  Uniques(u[1], db[u]) \cap Uniques(v[1], db[v]) = {}
    BY <2>3 DEF Inv, DataInv, Alone, Values
  <2>4. ASSUME NEW u \in Rows("user"), NEW v \in Rows("user"), u # v
        PROVE  db[u].email # db[v].email /\ db[u].username # db[v].username
    <3>1. Uniques("user", db[u]) \cap Uniques("user", db[v]) = {}
      BY <2>3, <2>4 DEF Rows
    <3>. QED
      BY <3>1 DEF Uniques
  <2>5. ASSUME NEW u \in Rows("team"), NEW v \in Rows("team"), u # v
        PROVE  db[u].name # db[v].name
    <3>1. Uniques("team", db[u]) \cap Uniques("team", db[v]) = {}
      BY <2>3, <2>5 DEF Rows
    <3>. QED
      BY <3>1 DEF Uniques
  <2>6. ASSUME NEW u \in Rows("profile"), NEW v \in Rows("profile"), u # v
        PROVE  <<db[u].name, db[u].team>> # <<db[v].name, db[v].team>>
    <3>1. Uniques("profile", db[u]) \cap Uniques("profile", db[v]) = {}
      BY <2>3, <2>6 DEF Rows
    <3>. QED
      BY <3>1 DEF Uniques
  <2>7. \A p \in Procs : /\ proc[p].pc \in Pcs /\ proc[p].answer \in Statuses
                         /\ proc[p].pc = "idle" => tx[p] = {}
    BY DEF Inv, ShapeInv, AnswerInv, HeldInv, Held
  <2>8. \A p, q \in Procs : p # q => Locks(p) \cap Locks(q) = {}
    BY DEF Inv, LocksInv
  <2>. QED
    BY <2>1, <2>2, <2>4, <2>5, <2>6, <2>7, <2>8 DEF TypeOK, At, Pcs, Statuses, Unserved
<1>. QED
  BY <1>1, InvCorrect, PTL

LEMMA ValuesAre ==
    \A t \in Tables : \A row : \A y \in Values(t, row) :
        y[1] \in {"email", "username", "team_name", "profile_name"}
BY DEF Values, Uniques, Tables

\* A circle of waits is one of requests that revoke each other's keys:
\* get_current_user's flush of last_used_at and revoke_api_key.
THEOREM CyclesCorrect == Spec => []CyclesOnlyByRevocation
<1>1. Inv => CyclesOnlyByRevocation
  <2>. SUFFICES ASSUME Inv, NEW S \in SUBSET Procs, Cycle(S), NEW p \in S
                PROVE  /\ Req(p).op = "revoke_key" /\ Req(p).target # Req(p).key
                       /\ \E q \in S : Req(p).target = Req(q).key
    BY DEF CyclesOnlyByRevocation
  <2>1. ASSUME NEW q \in S
        PROVE  /\ proc[q].pc = "flush" /\ OfKey(proc[q]) /\ tx[q] = Mark(proc[q])
               /\ Locks(q) = {proc[q].req.key}
    <3>1. PICK r \in S : Waits(r, q)
      BY <2>1 DEF Cycle
    <3>2. Locks(q) # {}
      BY <3>1 DEF Waits, WaitsFor
    <3>3. tx[q] # {}
      BY <3>2 DEF Locks
    <3>4. proc[q].pc \in {"touch", "flush"} /\ Held(proc[q], tx[q])
      BY <2>1, CycleWaits DEF Inv, HeldInv
    <3>5. proc[q].pc = "flush" /\ OfKey(proc[q]) /\ tx[q] = Mark(proc[q])
      BY <3>3, <3>4 DEF Held, Holds
    <3>6. \A w \in Mark(proc[q]) : Claims(w) = {proc[q].req.key}
      <4>1. TAKE w \in Mark(proc[q])
      <4>2. w.ref = proc[q].req.key /\ w.ref[1] = "key"
        BY <3>5, MarkIs DEF OfKey
      <4>3. \A row : Values("key", row) = {}
        BY DEF Values, Uniques
      <4>. QED
        BY <4>2, <4>3 DEF Claims
    <3>7. \E w : w \in Mark(proc[q])
      BY <3>3, <3>5
    <3>. QED
      BY <3>5, <3>6, <3>7 DEF Locks
  <2>2. PICK q \in S : Waits(p, q)
    BY DEF Cycle
  <2>3. PICK x, k : x = proc[p] /\ k = proc[q].req.key
    OBVIOUS
  <2>4. PICK w \in x.change : WaitsFor(p, w, q)
    BY <2>1, <2>2, <2>3 DEF Waits, Pending, At
  <2>5. k \in Claims(w) /\ k \in {"key"} \X Ids /\ db[k] # NoRow /\ p # q
    BY <2>1, <2>3, <2>4 DEF WaitsFor, OfKey
  <2>6. Proper(x, w) /\ Intended(x, w) /\ (\A t \in Tables : db[<<t, x.id>>] = NoRow) /\ x.req \in Bodies
    BY <2>1, <2>3, <2>4 DEF Inv, HeldInv, Held, Choice, NumbersInv
  <2>7. w.ref = k
    <3>1. w.ref[1] \in Tables
      BY <2>6, RefsAre DEF Proper
    <3>2. k = w.ref \/ k[1] \in {"email", "username", "team_name", "profile_name"}
      BY <2>5, <3>1, ValuesAre DEF Claims
    <3>. QED
      BY <2>5, <3>2
  <2>8. w.kind = "update"
    <3>1. w.kind # "delete"
      BY <2>5, <2>6, <2>7 DEF Proper
    <3>2. w.kind # "insert"
      BY <2>5, <2>6, <2>7 DEF Proper, Tables
    <3>. QED
      BY <2>6, <3>1, <3>2 DEF Proper
  <2>9. x.req.op = "revoke_key" /\ x.req.target = k
    <3>1. x.req.op \in Updates => x.req.target[1] # "key"
      BY <2>6, BodiesAre DEF Updates, Subject
    <3>. QED
      BY <2>5, <2>6, <2>7, <2>8, <3>1 DEF Intended
  <2>10. k # x.req.key
    BY <2>1, <2>3, <2>5 DEF Inv, LocksInv
  <2>. QED
    BY <2>3, <2>9, <2>10 DEF Req
<1>. QED
  BY <1>1, InvCorrect, PTL

\* Only a commit answers 200.
LEMMA AnswersIs ==
    ASSUME ShapeInv, [Next]_vars, NEW p \in Procs, Answers(p)
    PROVE  Commit(p)
<1>0. proc[p].pc = "commit" /\ proc'[p].pc = "idle" /\ proc'[p].answer = 200
  BY DEF Answers, At
<1>1. ASSUME NEW q \in Procs, q # p, NEW y, Step(q, y) PROVE FALSE
  BY <1>0, <1>1, StepFacts
<1>2. ASSUME NEW q \in Procs, Begins(q) PROVE FALSE
  <2>1. q # p /\ \E y : Step(q, y)
    BY <1>0, <1>2, BeginIs
  <2>. QED
    BY <1>1, <2>1
<1>3. ASSUME NEW q \in Procs, q # p, Works(q) PROVE FALSE
  BY <1>1, <1>3, WorksIs
<1>4. ASSUME Works(p) PROVE FALSE
  <2>1. Abort(p)
    BY <1>0, <1>4, CycleWaits DEF Works, Authenticate, Touch, Handle, FlushWrites, Unfit, Victim, At
  <2>2. PICK y : y = [Resting EXCEPT !.answer = 0] /\ Step(p, y)
    BY <2>1, FailIs DEF Abort, Unserved, Ends
  <2>3. y.answer = 0
    BY <2>2, RestingIs
  <2>4. proc'[p] = y
    BY <2>2, StepFacts
  <2>. QED
    BY <1>0, <2>3, <2>4
<1>5. ASSUME NEW q \in Procs, q # p, Commit(q) PROVE FALSE
  <2>1. proc'[p].pc = proc[p].pc
    BY <1>5, CommitSees DEF Sees
  <2>. QED
    BY <1>0, <2>1
<1>6. CASE UNCHANGED <<dbVars, tokens, proc, started>>
  BY <1>0, <1>6
<1>. QED
  BY <1>2, <1>3, <1>4, <1>5, <1>6, NextIs

\* The mark on the key is none of the writes a handler decides on.
LEMMA MarkApart ==
    ASSUME NEW x, x.req \in Bodies, NEW w, Intended(x, w), w.kind = "update"
    PROVE  /\ "used" \notin DOMAIN w.fields
           /\ x.req.op \in Updates => x.req.target \notin {"key"} \X Ids
<1>1. x.req.op \in Updates =>
        /\ x.req.target[1] = Subject(x.req.op) /\ DOMAIN x.req.set \subseteq Changes(x.req.op)
        /\ "used" \notin Changes(x.req.op) /\ Subject(x.req.op) # "key"
  BY BodiesAre DEF Updates, Changes, Subject
<1>. QED
  BY <1>1 DEF Intended

\* A commit changes what its request is about, and each field asked for gets the
\* value asked for: the unit of work of SQLAlchemy's session, as update_user,
\* update_team, update_webhook, revoke_api_key and login use it.
THEOREM UpdatesCorrect == Spec => UpdatesAreExact
<1>1. ASSUME Inv, NEW p \in Procs, Commit(p), NEW r \in Refs, db[r] # NoRow, db'[r] # NoRow,
             NEW f \in DOMAIN db[r], db'[r][f] # db[r][f]
      PROVE  f \in Named(p, r)
  <2>1. PICK x, T : x = proc[p] /\ T = {w \in tx[p] : w.ref = r}
    OBVIOUS
  <2>2. RowAfter(x.change, r, T)
    BY <1>1, <2>1, CommitRow DEF Inv
  <2>3. Updated(db[r], T, db'[r]) /\ \A w \in T : w.kind = "update"
    BY <1>1, <2>2 DEF RowAfter
  <2>4. PICK w \in T : f \in DOMAIN w.fields
    BY <1>1, <2>3 DEF Updated
  <2>5. x.pc = "commit" /\ Held(x, tx[p]) /\ x.req \in Bodies /\ w \in tx[p] /\ w.ref = r
    BY <1>1, <2>1, CommitIs DEF Inv, HeldInv, NumbersInv
  <2>6. CASE w \in Mark(x) /\ OfKey(x) /\ w.ref = x.req.key
    <3>1. f = "used" /\ r = Req(p).key /\ r[1] = "key"
      BY <2>1, <2>4, <2>5, <2>6, MarkIs DEF OfKey, Req
    <3>2. Req(p).op # "login" /\ (Req(p).op \in Updates => Req(p).target[1] # "key")
      BY <2>1, <2>5, <2>6, BodiesAre DEF OfKey, Req, Public, Updates, Subject
    <3>. QED
      BY <3>1, <3>2 DEF Named
  <2>7. CASE Intended(x, w)
    <3>1. \/ Req(p).op = "login" /\ DOMAIN w.fields = {"login"}
          \/ Req(p).op = "revoke_key" /\ DOMAIN w.fields = {"active"}
          \/ /\ Req(p).op \in Updates /\ r = Req(p).target /\ DOMAIN w.fields \subseteq DOMAIN Req(p).set
      BY <2>1, <2>3, <2>5, <2>7 DEF Intended, Req
    <3>. QED
      BY <2>4, <3>1 DEF Named, Updates
  <2>. QED
    BY <2>5, <2>6, <2>7, TxIs DEF Pcs
<1>2. ASSUME Inv, NEW p \in Procs, Commit(p), Req(p).op \in Updates, NEW f \in DOMAIN Req(p).set,
             proc[p].read[f] # Req(p).set[f]
      PROVE  db'[Req(p).target][f] = Req(p).set[f]
  <2>1. PICK x, r, T : x = proc[p] /\ r = x.req.target /\ T = {w \in tx[p] : w.ref = r}
    OBVIOUS
  <2>2. x.pc = "commit" /\ x.pc \in Pcs /\ Held(x, tx[p]) /\ x.req \in Bodies /\ Choice(x, x.read, x.change)
    BY <1>2, <2>1, CommitIs DEF Inv, HeldInv, NumbersInv, Held, Pcs
  <2>3. PICK w \in x.change : w.kind = "update" /\ w.ref = r /\ f \in DOMAIN w.fields
    BY <1>2, <2>1, <2>2 DEF Choice, Complete, Req
  <2>4. w \in T /\ Proper(x, w) /\ Intended(x, w) /\ ~Raises(w)
    BY <2>1, <2>2, <2>3 DEF Held, Holds, Choice
  <2>5. w.fields[f] = x.req.set[f] /\ r \in Refs /\ f \in Columns(r[1]) /\ db[r] # NoRow
    BY <1>2, <2>1, <2>3, <2>4 DEF Intended, Proper, Raises, Gone, Req, Updates
  <2>6. \A v \in T : v = w
    <3>1. TAKE v \in T
    <3>2. r \notin {"key"} \X Ids
      BY <1>2, <2>1, <2>2, <2>3, <2>4, MarkApart DEF Req
    <3>3. v \in x.change /\ v.ref = r
      BY <2>1, <2>2, <3>2, TxIs DEF OfKey
    <3>. QED
      BY <2>2, <2>3, <3>3 DEF Choice, Single
  <2>7. RowAfter(x.change, r, T)
    BY <1>2, <2>1, <2>5, CommitRow DEF Inv
  <2>8. Updated(db[r], T, db'[r])
    BY <2>3, <2>4, <2>5, <2>6, <2>7 DEF RowAfter
  <2>9. f \in DOMAIN db[r]
    BY <1>2, <2>5 DEF Inv, DataInv
  <2>10. db'[r][f] = w.fields[f]
    BY <2>3, <2>4, <2>6, <2>8, <2>9 DEF Updated
  <2>. QED
    BY <2>1, <2>5, <2>10 DEF Req
<1>3. Inv /\ [Next]_vars => \A p \in Procs : Answers(p) =>
        /\ \A r \in Refs : db[r] # NoRow /\ db'[r] # NoRow =>
            \A f \in DOMAIN db[r] : db'[r][f] # db[r][f] => f \in Named(p, r)
        /\ Req(p).op \in Updates =>
            \A f \in DOMAIN Req(p).set :
                \/ proc[p].read[f] = Req(p).set[f]
                \/ db'[Req(p).target][f] = Req(p).set[f]
  <2>1. ASSUME Inv, [Next]_vars, NEW p \in Procs, Answers(p) PROVE Commit(p)
    BY <2>1, AnswersIs DEF Inv
  <2>. QED
    BY <1>1, <1>2, <2>1
<1>. QED
  BY <1>3, InvCorrect, PTL DEF Spec, UpdatesAreExact

-----------------------------------------------------------------------------
(***************************************************************************)
(* Why a request ends with a 500.  When nothing was committed since a      *)
(* handler decided, what it decided on is still so.                        *)
(***************************************************************************)
Sound(op, w) ==
    /\ ~Gone(w)
    /\ op \notin {"update_team", "create_profile"} => ~Taken(w)
    /\ op # "update_user" => ~Dangling(w)

\* Of a request x about to write.
Decided(x) ==
    x.pc = "flush" => \A w \in x.change : w.kind # "delete" =>
        /\ x.saw = {db} => Sound(x.req.op, w)
        /\ x.req.op # "update_user" => ~Dangling(w)

DecidedInv == \A p \in Procs : Decided(proc[p]) /\ (proc[p].pc # "idle" => IsFiniteSet(proc[p].saw))

\* Rows of these tables have no value that must be unique.
LEMMA NotTaken ==
    ASSUME NEW w, w.ref[1] \in {"key", "webhook", "audit"}
    PROVE  ~Taken(w)
BY DEF Taken, Rows, Values, Uniques

\* An update of other fields leaves a row the unique values it had.
LEMMA UpdateKeeps ==
    ASSUME DataInv, NEW w, w.kind = "update", w.ref \in Refs, db[w.ref] # NoRow, w.ref[1] = "user",
           DOMAIN w.fields \cap {"email", "username"} = {}
    PROVE  ~Taken(w)
<1>1. PICK row, new : row = db[w.ref] /\ new = Written(row, {w})
  OBVIOUS
<1>2. Updated(row, {w}, new)
  BY <1>1, WrittenIs
<1>3. "email" \in DOMAIN row /\ "username" \in DOMAIN row
  BY <1>1 DEF DataInv, Columns
<1>4. new.email = row.email /\ new.username = row.username
  BY <1>2, <1>3 DEF Updated
<1>5. Values("user", new) \subseteq Values("user", row)
  BY <1>1, <1>4 DEF Values, Uniques
<1>6. ASSUME NEW r \in Rows("user") \ {w.ref} PROVE Values(r[1], db[r]) \cap Values(r[1], new) = {}
  <2>1. r \in Refs /\ r[1] = "user"
    BY <1>6 DEF Rows
  <2>2. Values(r[1], db[r]) \cap Values(w.ref[1], db[w.ref]) = {}
    BY <1>6, <2>1 DEF DataInv, Alone
  <2>. QED
    BY <1>1, <1>5, <2>1, <2>2
<1>. QED
  BY <1>1, <1>6 DEF Taken

LEMMA InsertIs ==
    \A w : w.kind = "insert" => \A row : Written(row, {w}) = w.fields
BY WrittenIs

LEMMA RowsFinite == \A table : IsFiniteSet(Rows(table))
<1>. SUFFICES ASSUME NEW table PROVE IsFiniteSet(Rows(table))
  OBVIOUS
<1>1. IsFiniteSet({table} \X Ids)
  BY FS_Singleton, FS_Product, OpsAssumption
<1>2. Rows(table) \in SUBSET ({table} \X Ids)
  BY DEF Rows, Refs
<1>. QED
  BY <1>1, <1>2, FS_Subset

\* When a handler has decided, its writes would go through, but for what it does
\* not look at.
LEMMA SoundUpdate ==
    ASSUME DataInv, NEW r, r \in Bodies, r.op \in Updates, db[r.target] # NoRow, NEW row,
           r.target \in {Subject(r.op)} \X Ids,
           NEW w \in Write(r.target, row, r.set)
    PROVE  Sound(r.op, w)
<1>1. PICK op, ref, set : op = r.op /\ ref = r.target /\ set = r.set
  OBVIOUS
<1>2. ref \in {Subject(op)} \X Ids /\ DOMAIN set \subseteq Changes(op)
  BY <1>1, BodiesAre
<1>3. w.ref = ref /\ w.kind = "update" /\ DOMAIN w.fields \subseteq DOMAIN set
  BY <1>1, WriteIs
<1>4. ~Gone(w)
  BY <1>1, <1>3 DEF Gone
<1>5. CASE op = "update_user"
  <2>1. ref \in Refs /\ ref[1] = "user" /\ DOMAIN w.fields \cap {"email", "username"} = {}
    BY <1>2, <1>3, <1>5 DEF Subject, Changes, Refs, Tables
  <2>2. ~Taken(w)
    BY <1>1, <1>3, <2>1, UpdateKeeps
  <2>. QED
    BY <1>1, <1>4, <1>5, <2>2 DEF Sound
<1>6. CASE op = "update_team"
  <2>1. "team" \notin DOMAIN w.fields
    BY <1>2, <1>3, <1>6 DEF Changes
  <2>. QED
    BY <1>1, <1>4, <1>6, <2>1 DEF Sound, Dangling
<1>7. CASE op = "update_webhook"
  <2>1. ref[1] = "webhook" /\ "team" \notin DOMAIN w.fields
    BY <1>2, <1>3, <1>7 DEF Subject, Changes
  <2>2. ~Taken(w)
    BY <1>3, <2>1, NotTaken
  <2>. QED
    BY <1>1, <1>4, <2>1, <2>2 DEF Sound, Dangling
<1>. QED
  BY <1>1, <1>5, <1>6, <1>7 DEF Updates

LEMMA SoundInsert ==
    ASSUME NEW op, NEW t, NEW p, NEW row, NEW w \in Insert(t, p, row),
           op \in {"update_team", "create_profile"} \/ ~Taken(w),
           "team" \in DOMAIN row => HasTeam(row)
    PROVE  Sound(op, w)
<1>1. w.kind = "insert" /\ w.fields = row
  BY WritesAre
<1>. QED
  BY <1>1 DEF Sound, Gone, Dangling, HasTeam

\* An account is registered when no user has the e-mail or the name.
LEMMA SoundRegister ==
    ASSUME NEW p, Req(p).op = "register", NEW o, o = Outcome(p), o.status = 200,
           NEW w \in o.change
    PROVE  Sound("register", w)
<1>1. PICK r, row : r = Req(p) /\ row = NewUser(r)
  OBVIOUS
<1>a. PICK row2 : row2 = [action |-> "user.registered", user |-> proc[p].id]
  OBVIOUS
<1>2. PICK same : same = {u \in Rows("user") : db[u].email = r.email \/ db[u].username = r.username}
  OBVIOUS
<1>3. PICK c : c = Insert("user", p, row) \cup Insert("audit", p, row2)
  OBVIOUS
<1>4. o = register(p)
  BY DEF Outcome
<1>5. register(p) = CASE Cardinality(same) > 1 -> Refuse(500)
                      [] Cardinality(same) = 1 -> Refuse(409)
                      [] OTHER -> Accept(NoRow, c)
  BY <1>1, <1>a, <1>2, <1>3 DEF register
<1>6. o.change = c /\ ~(Cardinality(same) > 1) /\ Cardinality(same) # 1
  BY <1>4, <1>5 DEF Refuse, Accept
<1>7. same = {}
  <2>1. IsFiniteSet(same)
    <3>1. IsFiniteSet(Rows("user")) /\ same \in SUBSET Rows("user")
      BY <1>2, RowsFinite
    <3>. QED
      BY <3>1, FS_Subset
  <2>2. Cardinality(same) \in Nat
    BY <2>1, FS_CardinalityType
  <2>3. Cardinality(same) = 0
    BY <1>6, <2>2
  <2>. QED
    BY <2>1, <2>3, FS_EmptySet
<1>8. ASSUME w \in Insert("user", p, row) PROVE Sound("register", w)
  <2>1. w.ref[1] = "user" /\ w.kind = "insert" /\ w.fields = row
    BY <1>8, WritesAre
  <2>2. Written(db[w.ref], {w}) = row
    BY <2>1, InsertIs
  <2>3. row.email = r.email /\ row.username = r.username /\ row.team = NoTeam
    BY <1>1 DEF NewUser
  <2>4. Values("user", row) \subseteq {<<"email", r.email>>, <<"username", r.username>>}
    BY <2>3 DEF Values, Uniques
  <2>5. ASSUME NEW u \in Rows("user") PROVE Values("user", db[u]) \cap Values("user", row) = {}
    <3>1. db[u].email # r.email /\ db[u].username # r.username
      BY <1>2, <1>7, <2>5
    <3>2. Values("user", db[u]) \subseteq {<<"email", db[u].email>>, <<"username", db[u].username>>}
      BY DEF Values, Uniques
    <3>. QED
      BY <2>4, <3>1, <3>2
  <2>6. ~Taken(w)
    BY <2>1, <2>2, <2>5 DEF Taken, Rows
  <2>. QED
    BY <1>8, <2>3, <2>6, SoundInsert DEF HasTeam
<1>9. ASSUME w \in Insert("audit", p, row2) PROVE Sound("register", w)
  <2>1. ~Taken(w) /\ "team" \notin DOMAIN row2
    BY <1>a, <1>9, WritesAre, NotTaken
  <2>. QED
    BY <1>9, <2>1, SoundInsert
<1>. QED
  BY <1>3, <1>6, <1>8, <1>9

LEMMA SoundLogin ==
    ASSUME DataInv, NEW p, Req(p).op = "login", NEW o, o = Outcome(p), o.status = 200,
           NEW w \in o.change
    PROVE  Sound("login", w)
<1>1. PICK users : users = {v \in Rows("user") : db[v].username = Req(p).username
                                                  /\ db[v].password = Req(p).password}
  OBVIOUS
<1>2. PICK u : u = CHOOSE v \in users : TRUE
  OBVIOUS
<1>3. PICK set : set = [login |-> TRUE]
  OBVIOUS
<1>a. PICK row2 : row2 = [action |-> "user.login", user |-> u[2]]
  OBVIOUS
<1>4. PICK c : c = Update(u, set) \cup Insert("audit", p, row2)
  OBVIOUS
<1>5. o = login(p)
  BY DEF Outcome
<1>6. login(p) = IF users = {} THEN Refuse(401)
                 ELSE IF ~db[u].active THEN Refuse(403)
                 ELSE [Accept(db[u], c) EXCEPT !.give = Tokens(u)]
  BY <1>1, <1>2, <1>3, <1>a, <1>4 DEF login
<1>7. users # {} /\ o.change = c
  BY <1>5, <1>6 DEF Refuse, Accept
<1>8. u \in Refs /\ u[1] = "user" /\ db[u] # NoRow
  BY <1>1, <1>2, <1>7, RowsAre DEF Rows
<1>9. ASSUME w \in Update(u, set) PROVE Sound("login", w)
  <2>1. w.ref = u /\ w.kind = "update" /\ DOMAIN w.fields = {"login"}
    BY <1>3, <1>9, WritesAre
  <2>2. ~Taken(w)
    BY <1>8, <2>1, UpdateKeeps
  <2>. QED
    BY <1>8, <2>1, <2>2 DEF Sound, Gone, Dangling
<1>10. ASSUME w \in Insert("audit", p, row2) PROVE Sound("login", w)
  <2>1. ~Taken(w) /\ "team" \notin DOMAIN row2
    BY <1>a, <1>10, WritesAre, NotTaken
  <2>. QED
    BY <1>10, <2>1, SoundInsert
<1>. QED
  BY <1>4, <1>7, <1>9, <1>10

LEMMA OutcomeSound ==
    ASSUME DataInv, NEW p, NEW x, x = proc[p], x.req \in Bodies, x.id \in Ids,
           \A t \in Tables : db[<<t, x.id>>] = NoRow,
           x.req.op \notin Public => HasTeam(x.as),
           NEW o, o = Outcome(p), o.status = 200, NEW w \in o.change, w.kind # "delete"
    PROVE  Sound(x.req.op, w)
<1>r. PICK r, op : r = x.req /\ op = r.op
  OBVIOUS
<1>0. op \in Ops /\ Req(p) = r
  BY <1>r, BodiesAre DEF Req
<1>1. CASE op = "register"
  BY <1>0, <1>1, <1>r, SoundRegister
<1>2. CASE op = "login"
  BY <1>0, <1>2, <1>r, SoundLogin
<1>3. CASE op \in {"refresh", "delete_webhook"}
  BY <1>0, <1>3, <1>r, WritesAre DEF Outcome, refresh_token, delete_webhook, ById, Refuse, Accept
<1>4. CASE op \in {"create_key", "create_webhook"}
  <2>1. PICK t, row : t \in {"key", "webhook"} /\ DOMAIN row = Columns(t) /\ w \in Insert(t, p, row)
    <3>1. CASE op = "create_key"
      <4>1. PICK row : row = [owner |-> x.user[2], active |-> TRUE, used |-> FALSE]
        OBVIOUS
      <4>2. o.change = Insert("key", p, row)
        BY <1>0, <1>r, <3>1, <4>1 DEF Outcome, create_api_key, Accept
      <4>. QED
        BY <4>1, <4>2 DEF Columns
    <3>2. CASE op = "create_webhook"
      <4>1. PICK row : row = [owner |-> x.user[2], active |-> TRUE]
        OBVIOUS
      <4>2. o.change = Insert("webhook", p, row)
        BY <1>0, <1>r, <3>2, <4>1 DEF Outcome, create_webhook, Accept
      <4>. QED
        BY <4>1, <4>2 DEF Columns
    <3>. QED
      BY <1>4, <3>1, <3>2
  <2>2. ~Taken(w) /\ "team" \notin DOMAIN row
    BY <2>1, WritesAre, NotTaken DEF Columns
  <2>. QED
    BY <1>r, <2>1, <2>2, SoundInsert
<1>5. CASE op = "create_team"
  <2>1. PICK row : row = [name |-> r.name, active |-> TRUE]
    OBVIOUS
  <2>2. w \in Insert("team", p, row) /\ ~(\E t \in Rows("team") : db[t].name = r.name)
    BY <1>0, <1>5, <1>r, <2>1 DEF Outcome, create_team, Refuse, Accept
  <2>3. w.ref[1] = "team" /\ Written(db[w.ref], {w}) = row
    BY <2>2, WritesAre, InsertIs
  <2>4. ASSUME NEW t \in Rows("team") PROVE Values("team", db[t]) \cap Values("team", row) = {}
    <3>1. db[t].name # row.name
      BY <2>1, <2>2
    <3>. QED
      BY <3>1 DEF Values, Uniques
  <2>5. ~Taken(w)
    BY <2>3, <2>4 DEF Taken, Rows
  <2>. QED
    BY <1>r, <2>1, <2>2, <2>5, SoundInsert
<1>6. CASE op = "create_profile"
  <2>1. PICK row : row = [name |-> r.name, team |-> x.as.team]
    OBVIOUS
  <2>2. w \in Insert("profile", p, row) /\ HasTeam(row)
    BY <1>0, <1>6, <1>r, <2>1 DEF Outcome, create_profile, Refuse, Accept, Public, HasTeam
  <2>. QED
    BY <1>6, <1>r, <2>2, SoundInsert
<1>7. CASE op = "revoke_key"
  <2>1. PICK k, set : k = r.target /\ set = [active |-> FALSE]
    OBVIOUS
  <2>2. w \in Write(k, db[k], set) /\ db[k] # NoRow
    BY <1>0, <1>7, <1>r, <2>1 DEF Outcome, revoke_api_key, Own, ById, Refuse, Accept
  <2>3. k[1] = "key"
    BY <1>7, <1>r, <2>1, BodiesAre DEF Subject
  <2>4. w.ref = k /\ w.kind = "update" /\ DOMAIN w.fields \subseteq {"active"}
    BY <2>1, <2>2, WriteIs
  <2>. QED
    BY <1>r, <2>2, <2>3, <2>4, NotTaken DEF Sound, Gone, Dangling
<1>8. CASE op \in Updates
  <2>1. PICK row : w \in Write(r.target, row, r.set) /\ db[r.target] # NoRow
    BY <1>0, <1>8, <1>r
       DEF Outcome, Updates, update_user, update_team, update_webhook, Own, BadTeam, ById, Refuse, Accept
  <2>2. r.target \in {Subject(op)} \X Ids
    BY <1>0, <1>8, <1>r, AcceptedIds
  <2>. QED
    BY <1>8, <1>r, <2>1, <2>2, SoundUpdate
<1>. QED
  BY <1>0, <1>1, <1>2, <1>3, <1>4, <1>5, <1>6, <1>7, <1>8 DEF Ops, Public

LEMMA DecidedStep == Inv /\ DecidedInv /\ [Next]_vars => DecidedInv'
<1>. SUFFICES ASSUME Inv, DecidedInv, [Next]_vars, NEW q \in Procs
              PROVE  Decided(proc[q])' /\ (proc'[q].pc # "idle" => IsFiniteSet(proc'[q].saw))
  BY DEF DecidedInv
<1>i. ShapeInv /\ NumbersInv /\ AuthInv /\ HeldInv /\ LocksInv /\ DataInv
  BY DEF Inv
<1>x. PICK x, y : x = proc[q] /\ y = proc'[q] /\ Decided(x) /\ (x.pc # "idle" => IsFiniteSet(x.saw))
  BY DEF DecidedInv
<1>s. ASSUME db' = db PROVE \A z : Decided(z)' <=> Decided(z)
  BY <1>s DEF Decided, Sound, Gone, Taken, Dangling, Rows
<1>1. ASSUME db' = db, y = x PROVE Decided(proc[q])' /\ (y.pc # "idle" => IsFiniteSet(y.saw))
  <2>1. Decided(y)'
    BY <1>x, <1>s, <1>1
  <2>. QED
    BY <1>x, <1>1, <2>1
<1>2. ASSUME NEW p \in Procs, Works(p), p # q
      PROVE  Decided(proc[q])' /\ (y.pc # "idle" => IsFiniteSet(y.saw))
  <2>1. PICK z : Step(p, z)
    BY <1>i, <1>2, WorksIs
  <2>. QED
    BY <1>i, <1>x, <1>1, <1>2, <2>1, WorksIs, StepFacts
<1>3. ASSUME Works(q) PROVE Decided(proc[q])' /\ (y.pc # "idle" => IsFiniteSet(y.saw))
  <2>1. db' = db /\ x.pc # "idle" /\ x.req \in Bodies /\ x.id \in Ids /\ Held(x, tx[q]) /\ Whole(x)
    BY <1>i, <1>x, <1>3, WorksIs, OpsAssumption DEF NumbersInv, HeldInv, ShapeInv
  <2>2. Step(q, y) /\ Moves(x, y)
    BY <1>i, <1>x, <1>3, WorksIs, StepFacts
  <2>3. y.pc # "idle" => IsFiniteSet(y.saw)
    BY <1>x, <2>1, <2>2, MovesKeep
  <2>4. CASE y.pc # "flush"
    <3>1. Decided(y)'
      BY <2>4 DEF Decided
    <3>. QED
      BY <1>x, <2>3, <3>1
  <2>5. CASE y.pc = "flush"
    <3>1. PICK o : o = Outcome(q)
      OBVIOUS
    <3>2. x.pc = "handle" /\ o.status = 200 /\ y.change = o.change /\ y.req = x.req
      <4>0. y.req = x.req
        BY <2>2, <2>5, MovesKeep, <2>1
      <4>a. ASSUME NEW z, Step(q, z), z.pc # "flush" PROVE FALSE
        BY <1>i, <1>x, <2>5, <4>a, StepFacts
      <4>b. ASSUME NEW status, Step(q, [Resting EXCEPT !.answer = status]) PROVE FALSE
        <5>1. PICK z : z = [Resting EXCEPT !.answer = status]
          OBVIOUS
        <5>2. z.pc = "idle"
          BY <5>1, RestingIs
        <5>. QED
          BY <4>a, <4>b, <5>1, <5>2
      <4>c. ASSUME NEW u, ActAs(q, u) PROVE FALSE
        <5>1. PICK z : z = [x EXCEPT !.pc = "handle", !.user = u, !.as = db[u]]
          OBVIOUS
        <5>2. z.pc = "handle"
          BY <2>1, <5>1 DEF Whole
        <5>3. Step(q, z)
          BY <1>x, <4>b, <4>c, <5>1, ActsAs
        <5>. QED
          BY <4>a, <5>2, <5>3
      <4>d. ASSUME NEW pc \in {"touch", "commit"}, Goto(q, pc) PROVE FALSE
        <5>1. PICK z : z = [x EXCEPT !.pc = pc] /\ Step(q, z)
          BY <1>x, <4>d DEF Goto
        <5>2. z.pc = pc
          BY <2>1, <5>1 DEF Whole
        <5>. QED
          BY <4>a, <4>d, <5>1, <5>2
      <4>1. /\ ~(\E status : Ends(q, status)) /\ ~(\E u : ActAs(q, u))
            /\ ~Goto(q, "touch") /\ ~Goto(q, "commit") /\ ~Step(q, Done(q, 401))
        BY <4>b, <4>c, <4>d DEF Ends, Done
      <4>2. Handle(q)
        BY <1>3, <4>1, FailIs DEF Works, Authenticate, Touch, FlushWrites, Unfit, Abort, Victim
      <4>3. o.status = 200
        BY <3>1, <4>1, <4>2, FailIs DEF Handle
      <4>4. y = [x EXCEPT !.pc = IF o.change = {} /\ x.req.fits THEN "commit" ELSE "flush",
                          !.read = o.read, !.change = o.change, !.give = o.give]
        BY <1>i, <1>x, <3>1, <4>2, <4>3, StepFacts DEF Handle, Req
      <4>5. y.change = o.change
        BY <2>1, <4>4 DEF Whole
      <4>. QED
        BY <1>x, <4>0, <4>2, <4>3, <4>5 DEF Handle, At
    <3>3. (x.req.op \notin Public => HasTeam(x.as)) /\ \A t \in Tables : db[<<t, x.id>>] = NoRow
      BY <2>1, <3>2 DEF Held
    <3>4. \A w \in o.change : w.kind # "delete" => Sound(x.req.op, w)
      BY <1>i, <1>x, <2>1, <3>1, <3>2, <3>3, OutcomeSound
    <3>5. Decided(y)
      BY <3>2, <3>4 DEF Decided, Sound
    <3>6. Decided(y)'
      BY <1>s, <2>1, <3>5
    <3>. QED
      BY <1>x, <2>3, <3>6
  <2>. QED
    BY <2>4, <2>5
<1>4. ASSUME NEW p \in Procs, Commit(p) PROVE Decided(proc[q])' /\ (y.pc # "idle" => IsFiniteSet(y.saw))
  <2>1. CASE p = q
    <3>1. y.pc = "idle"
      BY <1>i, <1>x, <1>4, <2>1, CommitIs
    <3>2. Decided(y)'
      BY <3>1 DEF Decided
    <3>. QED
      BY <1>x, <3>1, <3>2
  <2>2. CASE p # q
    <3>1. PICK s : s = db'
      OBVIOUS
    <3>2. (x.pc = "idle" /\ y = x) \/ (x.pc # "idle" /\ Sees(x, y, s))
      BY <1>i, <1>x, <1>4, <2>2, <3>1, CommitSees
    <3>3. y.pc # "idle" => IsFiniteSet(y.saw)
      BY <1>x, <3>2, FS_AddElement DEF Sees
    <3>4. CASE y.pc # "flush"
      <4>1. Decided(y)'
        BY <3>4 DEF Decided
      <4>. QED
        BY <1>x, <3>3, <4>1
    <3>5. CASE y.pc = "flush"
      <4>1. /\ x.pc = "flush" /\ y.change = x.change /\ y.req = x.req /\ y.saw = x.saw \cup {s}
            /\ db \in x.saw /\ Choice(x, x.read, x.change)
        BY <1>i, <1>x, <3>2, <3>5 DEF Sees, AuthInv, Rightful, HeldInv, Held
      <4>2. ASSUME NEW w \in x.change, w.kind # "delete", x.req.op # "update_user" PROVE ~Dangling(w)'
        <5>1. ~Dangling(w) /\ Proper(x, w)
          BY <1>x, <4>1, <4>2 DEF Decided, Choice
        <5>2. "team" \in DOMAIN w.fields => HasTeam(w.fields)
          BY <4>2, <5>1 DEF Proper, Dangling, HasTeam
        <5>3. "team" \in DOMAIN w.fields => HasTeam(w.fields)'
          BY <1>i, <1>4, <5>2, Stays
        <5>. QED
          BY <5>3 DEF Dangling, HasTeam
      <4>3. ASSUME y.saw = {s} PROVE Decided(y)'
        <5>1. db' = db /\ x.saw = {db}
          BY <3>1, <4>1, <4>3
        <5>2. Decided(y)
          BY <1>x, <4>1, <5>1 DEF Decided
        <5>. QED
          BY <1>s, <5>1, <5>2
      <4>4. ASSUME y.saw # {s} PROVE Decided(y)'
        BY <3>1, <4>1, <4>2, <4>4 DEF Decided
      <4>. QED
        BY <1>x, <3>3, <4>3, <4>4
    <3>. QED
      BY <3>4, <3>5
  <2>. QED
    BY <2>1, <2>2
<1>5. ASSUME NEW p \in Procs, Begins(p) PROVE Decided(proc[q])' /\ (y.pc # "idle" => IsFiniteSet(y.saw))
  <2>1. PICK r, z : Step(p, z) /\ Starts(r, started + 1, z)
    BY <1>5, BeginIs
  <2>2. db' = db
    BY <1>5, BeginIs
  <2>3. CASE p # q
    BY <1>i, <1>x, <1>1, <2>1, <2>2, <2>3, StepFacts
  <2>4. CASE p = q
    <3>1. y = z
      BY <1>i, <1>x, <2>1, <2>4, StepFacts
    <3>2. y.pc # "flush" /\ IsFiniteSet(y.saw)
      BY <2>1, <3>1, FS_Singleton DEF Starts
    <3>3. Decided(y)'
      BY <3>2 DEF Decided
    <3>. QED
      BY <1>x, <3>2, <3>3
  <2>. QED
    BY <2>3, <2>4
<1>6. CASE UNCHANGED <<dbVars, tokens, proc, started>>
  BY <1>x, <1>1, <1>6 DEF dbVars
<1>. QED
  BY <1>x, <1>2, <1>3, <1>4, <1>5, <1>6, NextIs

LEMMA SawOne ==
    ASSUME NEW S, IsFiniteSet(S), NEW d \in S, ~(Cardinality(S) > 1)
    PROVE  S = {d}
<1>1. Cardinality(S) \in Nat /\ S # {}
  BY FS_CardinalityType
<1>2. Cardinality(S) = 1
  BY <1>1, FS_EmptySet
<1>3. PICK x : S = {x}
  BY <1>2, FS_Singleton
<1>. QED
  BY <1>3

\* What no check of the request's own keeps from failing.
Unchecked(p) ==
    \/ ~Req(p).fits
    \/ Req(p).op \in Targeted /\ Req(p).target[2] = Unparsed
    \/ Req(p).op = "update_user" /\ BadTeam(Req(p).set)

\* Given ids that are ids, the only handler that fails with a 500 of its own is
\* register.
LEMMA OutcomeFails ==
    ASSUME DataInv, NEW p, Req(p).op \in Ops, Outcome(p).status = 500, ~Unchecked(p)
    PROVE  /\ Req(p).op = "register"
           /\ \E u, v \in Rows("user") :
                u # v /\ db[u].email = Req(p).email /\ db[v].username = Req(p).username
<1>1. Req(p).op # "login"
  <2>1. SUFFICES ASSUME Req(p).op = "login" PROVE FALSE
    OBVIOUS
  <2>2. PICK users : users = {u \in Rows("user") : db[u].username = Req(p).username
                                                   /\ db[u].password = Req(p).password}
    OBVIOUS
  <2>3. PICK u : u = CHOOSE v \in users : TRUE
    OBVIOUS
  <2>4. PICK c : c = Update(u, [login |-> TRUE])
                        \cup Insert("audit", p, [action |-> "user.login", user |-> u[2]])
    OBVIOUS
  <2>5. login(p) = IF users = {} THEN Refuse(401)
                   ELSE IF ~db[u].active THEN Refuse(403)
                   ELSE [Accept(db[u], c) EXCEPT !.give = Tokens(u)]
    BY <2>2, <2>3, <2>4 DEF login
  <2>. QED
    BY <2>1, <2>5 DEF Outcome, Refuse, Accept
<1>2. Req(p).op = "register"
  BY <1>1 DEF Outcome, Ops, Public, Updates, refresh_token, create_api_key, revoke_api_key, create_team,
              create_profile, create_webhook, delete_webhook, update_user, update_team, update_webhook,
              Unchecked, Targeted, ById, Refuse, Accept
<1>3. PICK same : same = {u \in Rows("user") : db[u].email = Req(p).email \/ db[u].username = Req(p).username}
  OBVIOUS
<1>4. Cardinality(same) > 1
  <2>1. PICK c : c = Insert("user", p, NewUser(Req(p)))
                        \cup Insert("audit", p, [action |-> "user.registered", user |-> proc[p].id])
    OBVIOUS
  <2>2. register(p) = CASE Cardinality(same) > 1 -> Refuse(500)
                        [] Cardinality(same) = 1 -> Refuse(409)
                        [] OTHER -> Accept(NoRow, c)
    BY <1>3, <2>1 DEF register
  <2>3. Outcome(p) = register(p)
    BY <1>2 DEF Outcome
  <2>. QED
    BY <2>2, <2>3 DEF Refuse, Accept
<1>5. PICK u, v : u \in same /\ v \in same /\ u # v
  <2>1. Cardinality({}) = 0 /\ \A x : Cardinality({x}) = 1
    BY FS_EmptySet, FS_Singleton
  <2>2. ASSUME same = {} PROVE FALSE
    <3>1. Cardinality(same) = 0
      BY <2>1, <2>2
    <3>. QED
      BY <1>4, <3>1
  <2>3. ASSUME NEW x, same = {x} PROVE FALSE
    <3>1. Cardinality({x}) = 1
      BY <2>1
    <3>2. Cardinality(same) = 1
      BY <2>3, <3>1
    <3>. QED
      BY <1>4, <3>2
  <2>. QED
    BY <2>2, <2>3
<1>6. ~(db[u].email = db[v].email) /\ ~(db[u].username = db[v].username)
  <2>1. u \in Refs /\ v \in Refs /\ u[1] = "user" /\ v[1] = "user" /\ db[u] # NoRow /\ db[v] # NoRow
    BY <1>3, <1>5 DEF Rows
  <2>2. Values("user", db[u]) \cap Values("user", db[v]) = {}
    BY <1>5, <2>1 DEF DataInv, Alone
  <2>. QED
    BY <2>1, <2>2 DEF Values, Uniques
<1>. QED
  BY <1>2, <1>3, <1>5, <1>6

LEMMA FailsWith ==
    ASSUME Inv, [Next]_vars, NEW p \in Procs, ~At(p, "idle"), proc'[p].pc = "idle", proc'[p].answer = 500
    PROVE  \/ Victim(p) \/ Unfit(p)
           \/ FlushWrites(p) /\ \E w \in proc[p].change : Raises(w)
           \/ Handle(p) /\ Outcome(p).status = 500
<1>0. ShapeInv /\ proc[p].pc # "idle"
  BY DEF Inv, At
<1>1. ASSUME NEW q \in Procs, q # p, NEW y, Step(q, y) PROVE FALSE
  BY <1>0, <1>1, StepFacts
<1>2. ASSUME NEW q \in Procs, Begins(q) PROVE FALSE
  <2>1. q # p /\ \E y : Step(q, y)
    BY <1>0, <1>2, BeginIs
  <2>. QED
    BY <1>1, <2>1
<1>3. ASSUME NEW q \in Procs, q # p, Works(q) PROVE FALSE
  BY <1>0, <1>1, <1>3, WorksIs
<1>4. ASSUME NEW q \in Procs, Commit(q) PROVE FALSE
  <2>1. CASE q = p
    <3>1. PICK y : y = proc'[p] /\ y = [Resting EXCEPT !.answer = 200]
      BY <1>0, <1>4, <2>1, CommitIs
    <3>2. y.answer = 200
      BY <3>1, RestingIs
    <3>. QED
      BY <3>1, <3>2
  <2>2. CASE q # p
    <3>1. PICK s : s = db'
      OBVIOUS
    <3>2. q # p /\ p \in Procs /\ q \in Procs
      BY <2>2
    <3>3. Sees(proc[p], proc'[p], s)
      BY <1>0, <1>4, <3>1, <3>2, CommitSees
    <3>4. proc'[p].pc = proc[p].pc
      BY <3>3 DEF Sees
    <3>. QED
      BY <1>0, <3>4
  <2>. QED
    BY <2>1, <2>2
<1>5. CASE UNCHANGED <<dbVars, tokens, proc, started>>
  BY <1>0, <1>5
<1>6. ASSUME NEW z, Step(p, z), z.pc # "idle" \/ z.answer # 500 PROVE FALSE
  BY <1>0, <1>6, StepFacts
<1>7. ASSUME NEW status, status # 500, Step(p, [Resting EXCEPT !.answer = status]) PROVE FALSE
  <2>1. PICK z : z = [Resting EXCEPT !.answer = status]
    OBVIOUS
  <2>2. z.answer = status
    BY <2>1, RestingIs
  <2>. QED
    BY <1>6, <1>7, <2>1, <2>2
<1>8. PICK x : x = proc[p] /\ Whole(x)
  BY DEF Inv, ShapeInv
<1>9. ASSUME NEW u, ActAs(p, u) PROVE FALSE
  <2>1. PICK z : z = [x EXCEPT !.pc = "handle", !.user = u, !.as = db[u]]
    OBVIOUS
  <2>2. z.pc = "handle"
    BY <1>8, <2>1 DEF Whole
  <2>3. Step(p, z) \/ Step(p, [Resting EXCEPT !.answer = 403])
    BY <1>8, <1>9, <2>1, ActsAs
  <2>. QED
    BY <1>6, <1>7, <2>2, <2>3
<1>10. ASSUME NEW pc \in Pcs \ {"idle"}, Goto(p, pc) PROVE FALSE
  <2>1. PICK z : z = [x EXCEPT !.pc = pc] /\ Step(p, z)
    BY <1>8, <1>10 DEF Goto
  <2>2. z.pc = pc
    BY <1>8, <2>1 DEF Whole
  <2>. QED
    BY <1>6, <2>1, <2>2
<1>11. ASSUME Works(p)
       PROVE  \/ Victim(p) \/ Unfit(p)
              \/ FlushWrites(p) /\ \E w \in proc[p].change : Raises(w)
              \/ Handle(p) /\ Outcome(p).status = 500
  <2>1. ~Authenticate(p)
    <3>1. Authenticate(p) => (\E u : ActAs(p, u)) \/ Goto(p, "touch") \/ Step(p, [Resting EXCEPT !.answer = 401])
      BY DEF Authenticate, Done
    <3>. QED
      BY <1>7, <1>9, <1>10, <3>1 DEF Pcs
  <2>2. ~Touch(p)
    BY <1>9 DEF Touch
  <2>3. ~Abort(p)
    <3>1. Abort(p) => Step(p, [Resting EXCEPT !.answer = 0])
      BY FailIs DEF Abort, Unserved, Ends
    <3>. QED
      BY <1>7, <3>1
  <2>4. FlushWrites(p) => \E w \in proc[p].change : Raises(w)
    BY <1>10 DEF FlushWrites, Pcs
  <2>5. ASSUME Handle(p) PROVE Outcome(p).status = 500
    <3>1. PICK o : o = Outcome(p)
      OBVIOUS
    <3>2. CASE o.status = 200
      <4>1. PICK z : /\ z = [x EXCEPT !.pc = IF o.change = {} /\ x.req.fits THEN "commit" ELSE "flush",
                                      !.read = o.read, !.change = o.change, !.give = o.give]
                     /\ Step(p, z)
        BY <1>8, <2>5, <3>1, <3>2 DEF Handle, Req
      <4>2. z.pc \in {"commit", "flush"}
        BY <1>8, <4>1 DEF Whole
      <4>. QED
        BY <1>6, <4>1, <4>2
    <3>3. CASE o.status # 200
      <4>1. Step(p, [Resting EXCEPT !.answer = o.status])
        BY <2>5, <3>1, <3>3, FailIs DEF Handle, Ends
      <4>. QED
        BY <1>7, <3>1, <4>1
    <3>. QED
      BY <3>2, <3>3
  <2>. QED
    BY <1>11, <2>1, <2>2, <2>3, <2>4, <2>5 DEF Works
<1>. QED
  BY <1>2, <1>3, <1>4, <1>5, <1>11, NextIs

\* A request ends with a 500 for one of the causes listed there: the handlers
\* raise nothing else, and what a handler has looked at is not in its way.
THEOREM UnhandledCorrect == Spec => UnhandledExplained
<1>1. Init => DecidedInv
  <2>. SUFFICES ASSUME Init, NEW p \in Procs
                PROVE  Decided(proc[p]) /\ (proc[p].pc # "idle" => IsFiniteSet(proc[p].saw))
    BY DEF DecidedInv
  <2>1. proc[p] = Resting
    BY DEF Init
  <2>. QED
    BY <2>1, RestingIs DEF Decided
<1>2. Inv /\ DecidedInv /\ [Next]_vars => \A p \in Procs :
        ~At(p, "idle") /\ proc'[p].pc = "idle" /\ proc'[p].answer = 500 =>
            \/ Cardinality(proc[p].saw) > 1
            \/ \E S \in SUBSET Procs : p \in S /\ Cycle(S)
            \/ /\ Req(p).op = "register"
               /\ \E u, v \in Rows("user") :
                    u # v /\ db[u].email = Req(p).email /\ db[v].username = Req(p).username
            \/ ~Req(p).fits
            \/ Req(p).op \in Targeted /\ Req(p).target[2] = Unparsed
            \/ Req(p).op = "update_user" /\ BadTeam(Req(p).set)
            \/ Req(p).op \in {"update_team", "create_profile"} /\ \E w \in proc[p].change : Taken(w)
            \/ Req(p).op = "update_user" /\ \E w \in proc[p].change : Dangling(w)
  <2>. SUFFICES ASSUME Inv, DecidedInv, [Next]_vars, NEW p \in Procs, ~At(p, "idle"),
                       proc'[p].pc = "idle", proc'[p].answer = 500, ~(Cardinality(proc[p].saw) > 1),
                       ~Unchecked(p)
                PROVE  \/ \E S \in SUBSET Procs : p \in S /\ Cycle(S)
                       \/ /\ Req(p).op = "register"
                          /\ \E u, v \in Rows("user") :
                                u # v /\ db[u].email = Req(p).email /\ db[v].username = Req(p).username
                       \/ Req(p).op \in {"update_team", "create_profile"} /\ \E w \in proc[p].change : Taken(w)
                       \/ Req(p).op = "update_user" /\ \E w \in proc[p].change : Dangling(w)
    BY DEF Unchecked
  <2>1. CASE Victim(p)
    BY <2>1 DEF Victim
  <2>4. CASE Unfit(p)
    BY <2>4 DEF Unfit, Unchecked
  <2>2. CASE Handle(p) /\ Outcome(p).status = 500
    <3>1. Req(p).op \in Ops /\ DataInv
      BY BodiesAre DEF Inv, NumbersInv, At, Req
    <3>. QED
      BY <2>2, <3>1, OutcomeFails
  <2>3. ASSUME FlushWrites(p), NEW w \in proc[p].change, Raises(w)
        PROVE  \/ Req(p).op \in {"update_team", "create_profile"} /\ Taken(w)
               \/ Req(p).op = "update_user" /\ Dangling(w)
    <3>1. proc[p].pc = "flush" /\ Decided(proc[p]) /\ IsFiniteSet(proc[p].saw)
      BY <2>3 DEF FlushWrites, At, DecidedInv
    <3>2. db \in proc[p].saw
      BY <3>1 DEF Inv, AuthInv, Rightful
    <3>3. proc[p].saw = {db}
      BY <3>1, <3>2, SawOne
    <3>4. Sound(Req(p).op, w) /\ w.kind # "delete"
      BY <2>3, <3>1, <3>3 DEF Decided, Raises, Req
    <3>. QED
      BY <2>3, <3>4 DEF Sound, Raises
  <2>. QED
    BY <2>1, <2>2, <2>3, <2>4, FailsWith
<1>. QED
  BY <1>1, <1>2, DecidedStep, InvCorrect, PTL DEF Spec, UnhandledExplained

=============================================================================
