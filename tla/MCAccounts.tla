----------------------------- MODULE MCAccounts -----------------------------
(***************************************************************************)
(* An instance of the accounts for TLC: two administrators, one with two   *)
(* API keys and one with one, a manager whose token still says             *)
(* administrator, two teams, a webhook.                                    *)
(***************************************************************************)
EXTENDS Accounts, TLC

MCIds == 1..MaxOps \cup {11, 12, 13}

User(email, username, role, team) ==
    [email |-> email, username |-> username, password |-> "right", role |-> role,
     active |-> TRUE, team |-> team, login |-> FALSE]
Key(owner) == [owner |-> owner, active |-> TRUE, used |-> FALSE]

Rows0 ==
    (<<"user", 11>> :> User("a@x", "a", "admin", 11)) @@
    (<<"user", 12>> :> User("b@x", "b", "admin", NoTeam)) @@
    (<<"user", 13>> :> User("m@x", "m", "manager", 12)) @@
    (<<"key", 11>> :> Key(11)) @@ (<<"key", 12>> :> Key(11)) @@ (<<"key", 13>> :> Key(12)) @@
    (<<"team", 11>> :> [name |-> "t", active |-> TRUE]) @@
    (<<"team", 12>> :> [name |-> "u", active |-> TRUE]) @@
    (<<"webhook", 11>> :> [owner |-> 13, active |-> TRUE])

MCSeed == [r \in Refs |-> IF r \in DOMAIN Rows0 THEN Rows0[r] ELSE NoRow]

Token(user, role) == [user |-> user, role |-> role, type |-> "access"]
Refresh(user) == [user |-> user, role |-> "none", type |-> "refresh"]
MCTokens == {Token(11, "admin"), Token(12, "admin"), Token(13, "admin"), Refresh(13)}

By(op, token, key) == [op |-> op, token |-> token, key |-> key, fits |-> TRUE]
AsAdmin(op) == By(op, Token(11, "admin"), NoKey)
AsManager(op) == By(op, Token(13, "admin"), NoKey)
WithKeyOf(op, k) == By(op, NoToken, <<"key", k>>)
Either(op) == By(op, Token(12, "admin"), <<"key", 13>>)

Sent ==
    {By("register", NoToken, NoKey) @@ [email |-> e, username |-> u, password |-> "right"] :
        e \in {"a@x", "c@x"}, u \in {"b", "c"}}
    \cup {By("login", NoToken, NoKey) @@ [username |-> "m", password |-> w] : w \in {"right", "wrong"}}
    \cup {By("refresh", Refresh(13), NoKey)}
    \cup {AsManager("create_key"),
          WithKeyOf("revoke_key", 11) @@ [target |-> <<"key", 12>>],
          WithKeyOf("revoke_key", 12) @@ [target |-> <<"key", 11>>],
          Either("revoke_key") @@ [target |-> <<"key", 13>>]}
    \cup {AsAdmin("update_user") @@ [target |-> <<"user", 13>>, set |-> s] :
            s \in {[active |-> FALSE], [active |-> TRUE], [role |-> "developer"],
                   [role |-> "admin", team |-> 11], [team |-> 13], [team |-> Unparsed]}}
    \cup {AsManager("update_user") @@ [target |-> <<"user", 11>>, set |-> [active |-> FALSE]],
          WithKeyOf("update_user", 11) @@ [target |-> <<"user", 12>>, set |-> [role |-> "viewer"]],
          Either("update_user") @@ [target |-> <<"user", 11>>, set |-> [role |-> "viewer"]]}
    \cup {AsManager("create_team") @@ [name |-> "v"],
          AsAdmin("update_team") @@ [target |-> <<"team", 12>>, set |-> [name |-> "v"]],
          AsAdmin("update_team") @@ [target |-> <<"team", 12>>, set |-> [name |-> "t", active |-> FALSE]]}
    \cup {AsManager("create_profile") @@ [name |-> "x"], Either("create_profile") @@ [name |-> "x"]}
    \cup {AsManager("create_webhook"),
          AsManager("update_webhook") @@ [target |-> <<"webhook", 11>>, set |-> [active |-> FALSE]],
          AsAdmin("update_webhook") @@ [target |-> <<"webhook", 11>>, set |-> [active |-> FALSE]],
          AsManager("delete_webhook") @@ [target |-> <<"webhook", 11>>],
          AsManager("delete_webhook") @@ [target |-> <<"webhook", Unparsed>>]}
    \cup {[AsManager("create_webhook") EXCEPT !.fits = FALSE],
          [WithKeyOf("update_user", 11) @@ [target |-> <<"user", 13>>, set |-> [active |-> TRUE]]
              EXCEPT !.fits = FALSE]}

\* The first request is one that changes what the next two rely on.
Early == {r \in Sent : r.op \in {"update_user"} /\ r.target[2] = 12}

MCRequests == [n \in 1..MaxOps |-> IF n = 1 THEN Early ELSE Sent]

ProcSymmetry == Permutations(Procs)
=============================================================================
