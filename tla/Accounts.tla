------------------------------ MODULE Accounts ------------------------------
(***************************************************************************)
(* Authentication, roles and administration: src/src/auth/dependencies.py, *)
(* src/src/auth/jwt_handler.py, src/src/api/auth.py, src/src/api/admin.py  *)
(* and src/src/api/webhooks.py.  A request authenticates, checks its       *)
(* permission, reads, writes and commits in one transaction; between these *)
(* steps other requests run.  Its effect appears at the commit, some time  *)
(* after its credential was looked at.                                     *)
(*                                                                         *)
(* A request is a record [op, token, key, fits, ...]: its bearer token     *)
(* (NoToken), the API key its X-API-Key names (NoKey), whether its texts   *)
(* are ones the columns hold, and the arguments of op.                     *)
(***************************************************************************)
EXTENDS Database, Integers

CONSTANTS
    Requests,   \* Requests[n]: what the n-th request may be
    Seed,       \* the rows there are at the start: a function on Refs
    SeedTokens, \* tokens issued before
    MaxOps,     \* bound: requests handled
    MaxExpiries \* bound: tokens and keys that expire

\* No row is numbered 0, which stands for none.
ASSUME OpsAssumption ==
    /\ MaxOps \in Nat /\ IsFiniteSet(Ids) /\ Ids \subseteq Nat \ {0} /\ 1..MaxOps \subseteq Ids

\* The rows at the start obey the constraints.
ASSUME SeedAssumption ==
    /\ DOMAIN Seed = Refs /\ \A i \in 1..MaxOps, t \in Tables : Seed[<<t, i>>] = NoRow
    /\ \A r \in Refs : Seed[r] # NoRow => DOMAIN Seed[r] = Columns(r[1])
    /\ \A r, s \in Refs : r # s /\ r[1] = s[1] =>
            Values(r[1], Seed[r]) \cap Values(s[1], Seed[s]) = {}
    /\ \A i \in Ids : Seed[<<"user", i>>] # NoRow =>
            LET team == Seed[<<"user", i>>].team IN
            team = NoTeam \/ (team \in Ids /\ Seed[<<"team", team>>] # NoRow)
    /\ \A i \in Ids : Seed[<<"key", i>>] # NoRow =>
            LET owner == Seed[<<"key", i>>].owner IN
            owner \in Ids /\ Seed[<<"user", owner>>] # NoRow

ASSUME TokensAssumption ==
    \A t \in SeedTokens :
        /\ t.type \in {"access", "refresh"} /\ t.user \in Ids
        /\ Seed[<<"user", t.user>>] # NoRow

VARIABLES
    tokens,   \* the signed tokens there are: [user, role, type]
    expired,  \* <<"token", t>> and <<"key", k>>: those past their expiry
    proc,     \* proc[p]: the request p handles and how far it is
    started   \* requests begun; numbers the rows they insert

vars == <<dbVars, tokens, expired, proc, started>>

NoToken == [user |-> 0, role |-> "none", type |-> "none"]
NoKey == <<"key", 0>>
NoUser == <<"user", 0>>

\* An id in a path or a body that uuid.UUID does not parse.
Unparsed == -1

\* No handler answered: nothing was asked yet, or the connection to the
\* database was lost, which the exception handler of main.py answers with a 500
\* of its own unless the process is gone with it.
Unserved == 0

\* user, as: the account p acts for and its row as it was read; read: the row
\* to change, as it was read; change: the writes the handler decided on; give:
\* the tokens it answers with; saw: history, the committed states since p began.
Resting == [pc |-> "idle", req |-> [op |-> "none", token |-> NoToken, key |-> NoKey],
            id |-> 0, user |-> NoUser, as |-> NoRow, read |-> NoRow,
            change |-> {}, give |-> {}, saw |-> {}, answer |-> Unserved]

Init ==
    /\ db = Seed
    /\ tx = [p \in Procs |-> {}]
    /\ tokens = SeedTokens
    /\ expired = {}
    /\ proc = [p \in Procs |-> Resting]
    /\ started = 0

Req(p) == proc[p].req
At(p, pc) == proc[p].pc = pc
Step(p, rec) == proc' = [proc EXCEPT ![p] = rec]
Goto(p, pc) == Step(p, [proc[p] EXCEPT !.pc = pc])
Done(p, status) == [Resting EXCEPT !.answer = status]

\* An exception leaves the handler: get_db rolls the session back.
Fail(p, status) == RollbackTx(p) /\ Step(p, Done(p, status))

Insert(table, p, row) == {[ref |-> <<table, proc[p].id>>, kind |-> "insert", fields |-> row]}
Update(ref, fields) == {[ref |-> ref, kind |-> "update", fields |-> fields]}
Delete(ref) == {[ref |-> ref, kind |-> "delete", fields |-> <<>>]}

\* Variant: the whole object is written back.
WriteAll(ref, row, set) ==
    Update(ref, [f \in DOMAIN row |-> IF f \in DOMAIN set THEN set[f] ELSE row[f]])

\* Of the fields the body gives, those whose value is not what the object was
\* loaded with; without one, no statement is sent.
Write(ref, row, set) ==
    LET dirty == {f \in DOMAIN set : set[f] # row[f]}
    IN IF dirty = {} THEN {} ELSE Update(ref, [f \in dirty |-> set[f]])

(***************************************************************************)
(* RBACPermission.                                                         *)
(***************************************************************************)
PERMISSIONS(role) ==
    CASE role = "admin" -> {"sign", "verify", "manage_users", "manage_teams", "manage_certs",
                            "manage_profiles", "view_audit", "manage_webhooks", "view_analytics"}
      [] role = "manager" -> {"sign", "verify", "manage_teams", "manage_profiles", "view_audit",
                              "manage_webhooks", "view_analytics"}
      [] role = "developer" -> {"sign", "verify", "view_audit"}
      [] role = "viewer" -> {"verify", "view_audit"}

Public == {"register", "login", "refresh"}

Needs(op) ==
    CASE op = "update_user" -> {"manage_users"}
      [] op \in {"create_team", "update_team"} -> {"manage_teams"}
      [] op = "create_profile" -> {"manage_profiles"}
      [] op \in {"create_webhook", "update_webhook", "delete_webhook"} -> {"manage_webhooks"}
      [] OTHER -> {}   \* any user may manage keys of their own

Changes(op) ==
    CASE op = "update_user" -> {"role", "active", "team"}
      [] op = "update_team" -> {"name", "active"}
      [] op = "update_webhook" -> {"active"}

Subject(op) ==
    CASE op = "update_user" -> "user"
      [] op = "update_team" -> "team"
      [] op \in {"update_webhook", "delete_webhook"} -> "webhook"
      [] op = "revoke_key" -> "key"

Updates == {"update_user", "update_team", "update_webhook"}
Ops == Public \cup Updates \cup {"create_key", "revoke_key", "create_team", "create_profile",
                                "create_webhook", "delete_webhook"}

\* What a request may say: its path has the id of a row of one table or no id at
\* all, its body the fields the schema has.  Lengths the schemas leave open
\* (UserUpdate.full_name, WebhookUpdate, a User-Agent...) and characters
\* PostgreSQL refuses are told by fits; a request without a body has neither.
Bodiless == {"refresh", "revoke_key", "delete_webhook"}
ASSUME RequestsAssumption ==
    \A n \in 1..MaxOps : \A r \in Requests[n] :
        /\ r.op \in Ops /\ r.key \in {NoKey} \cup {"key"} \X Ids
        /\ r.fits \in BOOLEAN /\ (r.op \in Bodiless => r.fits)
        /\ r.op \in Updates =>
            /\ r.target \in {Subject(r.op)} \X (Ids \cup {Unparsed})
            /\ DOMAIN r.set \subseteq Changes(r.op)
            /\ "team" \in DOMAIN r.set => r.set.team \in Ids \cup {NoTeam, Unparsed}
        /\ r.op \in {"delete_webhook", "revoke_key"} =>
            r.target \in {Subject(r.op)} \X (Ids \cup {Unparsed})

Entitled(row, op) == row.active /\ Needs(op) \subseteq PERMISSIONS(row.role)

(***************************************************************************)
(* get_current_user and the permission check.                              *)
(***************************************************************************)
Begin(p, r) ==
    /\ At(p, "idle")
    /\ started' = started + 1
    /\ Step(p, [Resting EXCEPT !.pc = IF r.op \in Public THEN "handle" ELSE "authenticate",
                               !.req = r, !.id = started + 1, !.saw = {db}])
    /\ UNCHANGED <<dbVars, tokens, expired>>

\* verify_token: signature, expiry and type.
Valid(token, type) == token \in tokens /\ <<"token", token>> \notin expired /\ token.type = type

\* The account is read, its role taken from the row and not from the token: 403
\* if it is disabled or lacks the permission.
ActAs(p, u) ==
    IF Entitled(db[u], Req(p).op)
    THEN Step(p, [proc[p] EXCEPT !.pc = "handle", !.user = u, !.as = db[u]])
    ELSE Step(p, Done(p, 403))

\* Variant: the role in the token is trusted.
AuthenticateByClaim(p) ==
    /\ At(p, "authenticate")
    /\ LET t == Req(p).token  u == <<"user", t.user>> IN
        /\ Valid(t, "access")
        /\ Step(p, IF Entitled([db[u] EXCEPT !.role = t.role], Req(p).op)
                   THEN [proc[p] EXCEPT !.pc = "handle", !.user = u, !.as = db[u]]
                   ELSE Done(p, 403))
    /\ UNCHANGED <<dbVars, tokens, expired, started>>

\* The bearer token first; one that is not valid falls back to the key, whose
\* hash, is_active and expires_at are looked at.
Authenticate(p) ==
    /\ At(p, "authenticate")
    /\ LET t == Req(p).token  k == Req(p).key IN
        IF Valid(t, "access") THEN ActAs(p, <<"user", t.user>>)
        ELSE IF k # NoKey /\ db[k] # NoRow /\ db[k].active /\ k \notin expired
        THEN Goto(p, "touch")
        ELSE Step(p, Done(p, 401))
    /\ UNCHANGED <<dbVars, tokens, expired, started>>

TouchWrite(p) == Update(Req(p).key, [used |-> TRUE])

\* Variant: the row of the key's owner gets a timestamp too.
TouchOwner(p) ==
    LET ws == TouchWrite(p) \cup Update(<<"user", db[Req(p).key].owner>>, [login |-> TRUE]) IN
    /\ At(p, "touch")
    /\ \A w \in ws : ~Blocked(p, w)
    /\ Flush(p, ws) /\ ActAs(p, <<"user", db[Req(p).key].owner>>)
    /\ UNCHANGED <<tokens, expired, started>>

\* last_used_at is flushed, which locks the key's row until the request ends;
\* then the owner is read.  A refusal rolls the timestamp back.
Touch(p) ==
    /\ At(p, "touch")
    /\ \A w \in TouchWrite(p) : ~Blocked(p, w)
    /\ LET u == <<"user", db[Req(p).key].owner>> IN
        /\ ActAs(p, u)
        /\ IF Entitled(db[u], Req(p).op) THEN Flush(p, TouchWrite(p)) ELSE RollbackTx(p)
    /\ UNCHANGED <<tokens, expired, started>>

(***************************************************************************)
(* The handlers: what each reads and decides.  Those that raise say with   *)
(* which status; the others say what they write and which tokens they give.*)
(***************************************************************************)
Refuse(status) == [status |-> status, read |-> NoRow, change |-> {}, give |-> {}]
Accept(read, change) == [status |-> 200, read |-> read, change |-> change, give |-> {}]

\* The id of the path is parsed before anything is read; nothing catches the
\* ValueError.
ById(p, outcome) == IF Req(p).target[2] = Unparsed THEN Refuse(500) ELSE outcome

\* An object the session has loaded is not read again.
Loaded(p, ref) == IF ref = proc[p].user THEN proc[p].as ELSE db[ref]

\* create_access_token and create_refresh_token.
Tokens(u) ==
    {[user |-> u[2], role |-> db[u].role, type |-> "access"],
     [user |-> u[2], role |-> "none", type |-> "refresh"]}

NewUser(r) ==
    [email |-> r.email, username |-> r.username, password |-> r.password,
     role |-> "developer", active |-> TRUE, team |-> NoTeam, login |-> FALSE]

\* Variant: only the e-mail is looked up.
registerByEmail(p) ==
    IF \E u \in Rows("user") : db[u].email = Req(p).email THEN Refuse(409)
    ELSE Accept(NoRow, Insert("user", p, NewUser(Req(p)))
             \cup Insert("audit", p, [action |-> "user.registered", user |-> proc[p].id]))

\* scalar_one_or_none raises when the e-mail is one user's and the name another's.
register(p) ==
    LET r == Req(p)
        same == {u \in Rows("user") : db[u].email = r.email \/ db[u].username = r.username}
    IN CASE Cardinality(same) > 1 -> Refuse(500)
         [] Cardinality(same) = 1 -> Refuse(409)
         [] OTHER -> Accept(NoRow, Insert("user", p, NewUser(r))
                \cup Insert("audit", p, [action |-> "user.registered", user |-> proc[p].id]))

login(p) ==
    LET r == Req(p)
        users == {u \in Rows("user") : db[u].username = r.username /\ db[u].password = r.password}
        u == CHOOSE v \in users : TRUE
    IN IF users = {} THEN Refuse(401)
       ELSE IF ~db[u].active THEN Refuse(403)
       ELSE [Accept(db[u], Update(u, [login |-> TRUE])
                \cup Insert("audit", p, [action |-> "user.login", user |-> u[2]]))
             EXCEPT !.give = Tokens(u)]

refresh_token(p) ==
    LET t == Req(p).token  u == <<"user", t.user>> IN
    IF Valid(t, "refresh") /\ db[u].active
    THEN [Accept(NoRow, {}) EXCEPT !.give = Tokens(u)]
    ELSE Refuse(401)

create_api_key(p) ==
    Accept(NoRow, Insert("key", p, [owner |-> proc[p].user[2], active |-> TRUE, used |-> FALSE]))

\* A row of another user is not found.
Own(p, ref) == db[ref] # NoRow /\ db[ref].owner = proc[p].user[2]

revoke_api_key(p) ==
    LET k == Req(p).target IN
    ById(p, IF Own(p, k) THEN Accept(db[k], Write(k, db[k], [active |-> FALSE]))
            ELSE Refuse(404))

\* The team's id is parsed last.
BadTeam(set) == "team" \in DOMAIN set /\ set.team = Unparsed

update_user(p) ==
    LET u == Req(p).target IN
    ById(p, IF db[u] = NoRow THEN Refuse(404)
            ELSE IF BadTeam(Req(p).set) THEN Refuse(500)
            ELSE Accept(Loaded(p, u), Write(u, Loaded(p, u), Req(p).set)))

create_team(p) ==
    IF \E t \in Rows("team") : db[t].name = Req(p).name THEN Refuse(409)
    ELSE Accept(NoRow, Insert("team", p, [name |-> Req(p).name, active |-> TRUE]))

update_team(p) ==
    LET t == Req(p).target IN
    ById(p, IF db[t] = NoRow THEN Refuse(404)
            ELSE Accept(db[t], Write(t, db[t], Req(p).set)))

\* The team is that of the account as authentication read it.
create_profile(p) ==
    IF proc[p].as.team = NoTeam THEN Refuse(400)
    ELSE Accept(NoRow, Insert("profile", p, [name |-> Req(p).name, team |-> proc[p].as.team]))

create_webhook(p) ==
    Accept(NoRow, Insert("webhook", p, [owner |-> proc[p].user[2], active |-> TRUE]))

update_webhook(p) ==
    LET h == Req(p).target IN
    ById(p, IF Own(p, h) THEN Accept(db[h], Write(h, db[h], Req(p).set)) ELSE Refuse(404))

delete_webhook(p) ==
    LET h == Req(p).target IN
    ById(p, IF Own(p, h) THEN Accept(db[h], Delete(h)) ELSE Refuse(404))

Outcome(p) ==
    CASE Req(p).op = "register" -> register(p)
      [] Req(p).op = "login" -> login(p)
      [] Req(p).op = "refresh" -> refresh_token(p)
      [] Req(p).op = "create_key" -> create_api_key(p)
      [] Req(p).op = "revoke_key" -> revoke_api_key(p)
      [] Req(p).op = "update_user" -> update_user(p)
      [] Req(p).op = "create_team" -> create_team(p)
      [] Req(p).op = "update_team" -> update_team(p)
      [] Req(p).op = "create_profile" -> create_profile(p)
      [] Req(p).op = "create_webhook" -> create_webhook(p)
      [] Req(p).op = "update_webhook" -> update_webhook(p)
      [] Req(p).op = "delete_webhook" -> delete_webhook(p)

\* The handler runs up to its flush.
Handle(p) ==
    /\ At(p, "handle")
    /\ LET o == Outcome(p) IN
        IF o.status = 200
        THEN /\ Step(p, [proc[p] EXCEPT
                    !.pc = IF o.change = {} /\ Req(p).fits THEN "commit" ELSE "flush",
                    !.read = o.read, !.change = o.change, !.give = o.give])
             /\ UNCHANGED dbVars
        ELSE Fail(p, o.status)
    /\ UNCHANGED <<tokens, expired, started>>

\* A query or a statement with a text that does not fit is refused, before or
\* after it waited.
Unfit(p) ==
    /\ At(p, "handle") \/ At(p, "flush")
    /\ ~Req(p).fits /\ Fail(p, 500)
    /\ UNCHANGED <<tokens, expired, started>>

(***************************************************************************)
(* The writes, once no other transaction holds what they need.             *)
(***************************************************************************)
FlushWrites(p) ==
    /\ At(p, "flush") /\ Req(p).fits
    /\ \A w \in proc[p].change : ~Blocked(p, w)
    /\ IF \E w \in proc[p].change : Raises(w) THEN Fail(p, 500)
       ELSE Flush(p, proc[p].change) /\ Goto(p, "commit")
    /\ UNCHANGED <<tokens, expired, started>>

\* get_db commits before the answer is sent.
Commit(p) ==
    /\ At(p, "commit")
    /\ CommitTx(p)
    /\ tokens' = tokens \cup proc[p].give
    /\ expired' = expired \ {<<"token", t>> : t \in proc[p].give}
    /\ proc' = [q \in Procs |->
            IF q = p THEN Done(p, 200)
            ELSE IF At(q, "idle") THEN proc[q]
            ELSE [proc[q] EXCEPT !.saw = @ \cup {db'}]]
    /\ UNCHANGED started

\* The connection or the process is lost.
Abort(p) ==
    /\ ~At(p, "idle") /\ Fail(p, Unserved)
    /\ UNCHANGED <<tokens, expired, started>>

\* What p is about to write, and whom it has to wait for.
Pending(p) ==
    CASE At(p, "touch") -> TouchWrite(p)
      [] At(p, "flush") -> proc[p].change
      [] OTHER -> {}
Waits(p, q) == \E w \in Pending(p) : WaitsFor(p, w, q)
Cycle(S) ==
    S # {} /\ \A p \in S : (\E q \in S : Waits(p, q)) /\ (\E q \in S : Waits(q, p))

\* PostgreSQL breaks a cycle by failing one of its transactions.
Victim(p) ==
    /\ \E S \in SUBSET Procs : p \in S /\ Cycle(S)
    /\ Fail(p, 500)
    /\ UNCHANGED <<tokens, expired, started>>

Expire(x) ==
    /\ x \notin expired
    /\ Cardinality(expired) < MaxExpiries
    /\ expired' = expired \cup {x}
    /\ UNCHANGED <<dbVars, tokens, proc, started>>

Next ==
    \/ \E p \in Procs :
        \/ started < MaxOps /\ \E r \in Requests[started + 1] : Begin(p, r)
        \/ Authenticate(p) \/ Touch(p) \/ Handle(p)
        \/ Unfit(p) \/ FlushWrites(p) \/ Commit(p) \/ Abort(p) \/ Victim(p)
    \/ \E x \in {<<"token", t>> : t \in tokens} \cup Rows("key") : Expire(x)

Spec == Init /\ [][Next]_vars
-----------------------------------------------------------------------------
(***************************************************************************)
(* Properties.                                                             *)
(***************************************************************************)
\* The type invariant.  No e-mail, username, team name or profile name within
\* a team is there twice, and a lock is held by one transaction.
TypeOK ==
    /\ DOMAIN db = Refs
    /\ started \in 0..MaxOps
    /\ \A t \in tokens : t.type \in {"access", "refresh"} /\ db[<<"user", t.user>>] # NoRow
    /\ \A u, v \in Rows("user") :
        u # v => db[u].email # db[v].email /\ db[u].username # db[v].username
    /\ \A t, s \in Rows("team") : t # s => db[t].name # db[s].name
    /\ \A f, g \in Rows("profile") : f # g => <<db[f].name, db[f].team>> # <<db[g].name, db[g].team>>
    /\ \A p, q \in Procs : p # q => Locks(p) \cap Locks(q) = {}
    /\ \A p \in Procs :
        /\ proc[p].pc \in {"idle", "authenticate", "touch", "handle", "flush", "commit"}
        /\ At(p, "idle") => tx[p] = {}
        /\ proc[p].answer \in {Unserved, 200, 400, 401, 403, 404, 409, 500}

Answers(p) == At(p, "commit") /\ proc'[p].pc = "idle" /\ proc'[p].answer = 200
WithKey(p) == TouchWrite(p) \subseteq tx[p]

\* A request has an effect only if the account it acts for was enabled and had
\* the permission at some moment while the request ran, whatever its token says,
\* and the key it came with was active at some moment, not always the same one
\* (expiry is not part of this: a token may run out while its request runs);
\* tokens are given only to an account that was enabled.
EffectsAuthorized ==
    [][\A p \in Procs : Answers(p) =>
        /\ Req(p).op \notin Public =>
            /\ \E s \in proc[p].saw : Entitled(s[proc[p].user], Req(p).op)
            /\ \/ proc[p].user[2] = Req(p).token.user
               \/ WithKey(p) /\ \E s \in proc[p].saw : s[Req(p).key].active
        /\ \A t \in proc[p].give : t.type = "access" =>
            \E s \in proc[p].saw : s[<<"user", t.user>>].active /\ s[<<"user", t.user>>].role = t.role]_vars

\* The fields of a row that p's request is about.
Named(p, ref) ==
    CASE Req(p).op = "login" -> {"login"}
      [] Req(p).op = "revoke_key" -> {"active"} \cup (IF ref = Req(p).key THEN {"used"} ELSE {})
      [] Req(p).op \in Updates /\ ref = Req(p).target ->
            DOMAIN Req(p).set
      [] OTHER -> IF ref = Req(p).key THEN {"used"} ELSE {}

\* Two requests that change different fields of a row both take hold: a commit
\* changes the fields its request is about and no other, and each gets the value
\* asked for, unless it had that value when it was read (then nothing is sent,
\* and what another request made of it meanwhile stays).
UpdatesAreExact ==
    [][\A p \in Procs : Answers(p) =>
        /\ \A r \in Refs : db[r] # NoRow /\ db'[r] # NoRow =>
            \A f \in DOMAIN db[r] : db'[r][f] # db[r][f] => f \in Named(p, r)
        /\ Req(p).op \in Updates =>
            \A f \in DOMAIN Req(p).set :
                \/ proc[p].read[f] = Req(p).set[f]
                \/ db'[Req(p).target][f] = Req(p).set[f]]_vars

\* Requests wait for each other in a circle only when each came with an API key
\* and revokes a key that another of them came with.  Other requests made with
\* a key wait as well while they hold its row, but nobody waits for them who
\* holds what they wait for.
CyclesOnlyByRevocation ==
    \A S \in SUBSET Procs : Cycle(S) =>
        \A p \in S : /\ Req(p).op = "revoke_key" /\ Req(p).target # Req(p).key
                     /\ \E q \in S : Req(p).target = Req(q).key

\* A handler's 500 (Unserved stands for that of a lost connection) has one of
\* these causes: another request committed while this one ran (a name checked as
\* free was taken, a row went away), a circle of waits, a registration that
\* matches two users, or a request that no check looks at: a text that does not
\* fit, an id that is none, a team or profile name that is taken, a team that
\* does not exist.
Targeted == Updates \cup {"revoke_key", "delete_webhook"}
UnhandledExplained ==
    [][\A p \in Procs : ~At(p, "idle") /\ proc'[p].pc = "idle" /\ proc'[p].answer = 500 =>
        \/ Cardinality(proc[p].saw) > 1
        \/ \E S \in SUBSET Procs : p \in S /\ Cycle(S)
        \/ /\ Req(p).op = "register"
           /\ \E u, v \in Rows("user") :
                u # v /\ db[u].email = Req(p).email /\ db[v].username = Req(p).username
        \/ ~Req(p).fits
        \/ Req(p).op \in Targeted /\ Req(p).target[2] = Unparsed
        \/ Req(p).op = "update_user" /\ BadTeam(Req(p).set)
        \/ Req(p).op \in {"update_team", "create_profile"} /\ \E w \in proc[p].change : Taken(w)
        \/ Req(p).op = "update_user" /\ \E w \in proc[p].change : Dangling(w)]_vars
=============================================================================
