------------------------------ MODULE Database ------------------------------
(***************************************************************************)
(* The request session of src/src/models/database.py over PostgreSQL at    *)
(* READ COMMITTED, with the constraints of src/src/models/schemas.py.      *)
(* A transaction reads what is committed, sends its writes when the        *)
(* session flushes, and commits once its handler has returned.  A flushed  *)
(* write locks its row and its unique values until the transaction ends;   *)
(* another write of them waits.  An UPDATE sets the fields the object had  *)
(* changed, an INSERT brings a row.                                        *)
(***************************************************************************)
EXTENDS Naturals, FiniteSets

CONSTANTS
    Procs,  \* requests handled at a time
    Ids     \* ids of rows

Tables == {"user", "key", "team", "profile", "webhook", "audit"}

\* The columns that matter to the requests.
Columns(table) ==
    CASE table = "user" -> {"email", "username", "password", "role", "active", "team", "login"}
      [] table = "key" -> {"owner", "active", "used"}
      [] table = "team" -> {"name", "active"}
      [] table = "profile" -> {"name", "team"}
      [] table = "webhook" -> {"owner", "active"}
      [] table = "audit" -> {"action", "user"}

Refs == Tables \X Ids
NoRow == [none |-> TRUE]
NoTeam == 0

VARIABLES
    db,  \* db[ref]: the committed row, or NoRow
    tx   \* tx[p]: flushed writes of p's transaction, [ref, kind, fields]

dbVars == <<db, tx>>

Rows(table) == {r \in Refs : r[1] = table /\ db[r] # NoRow}

\* Variant: the unique indexes were not created.
NoUniques(table, row) == {}

\* unique=True and UniqueConstraint("name", "team_id"): what may exist once.
Uniques(table, row) ==
    CASE table = "user" -> {<<"email", row.email>>, <<"username", row.username>>}
      [] table = "team" -> {<<"team_name", row.name>>}
      [] table = "profile" -> {<<"profile_name", row.name, row.team>>}
      [] OTHER -> {}

\* The row as the writes ws of one transaction leave it.
Written(row, ws) ==
    CASE ws = {} -> row
      [] \E w \in ws : w.kind = "delete" -> NoRow
      [] \E w \in ws : w.kind = "insert" -> (CHOOSE w \in ws : TRUE).fields
      [] OTHER -> [f \in DOMAIN row |->
            IF \E w \in ws : f \in DOMAIN w.fields
            THEN (CHOOSE w \in ws : f \in DOMAIN w.fields).fields[f] ELSE row[f]]

\* What a write locks: its row, and the unique values the row had and gets.
\* Another write that would bring in such a value waits.
Values(table, row) == IF row = NoRow THEN {} ELSE Uniques(table, row)
Claims(w) ==
    {w.ref} \cup Values(w.ref[1], db[w.ref])
            \cup (IF w.kind = "update" /\ db[w.ref] = NoRow THEN {}
                  ELSE Values(w.ref[1], Written(db[w.ref], {w})))
Locks(p) == UNION {Claims(w) : w \in tx[p]}

\* The write w of p has to wait for q.
WaitsFor(p, w, q) == q # p /\ Claims(w) \cap Locks(q) # {}
Blocked(p, w) == \E q \in Procs : WaitsFor(p, w, q)

\* What the flush of w raises: a unique value is taken or the team referred to
\* does not exist (IntegrityError), the row to be updated is gone
\* (StaleDataError).  Deleting a row that is gone is only warned of.
Gone(w) == w.kind = "update" /\ db[w.ref] = NoRow
Taken(w) ==
    \E r \in Rows(w.ref[1]) \ {w.ref} :
        Values(r[1], db[r]) \cap Values(r[1], Written(db[w.ref], {w})) # {}
Dangling(w) ==
    /\ "team" \in DOMAIN w.fields /\ w.fields.team # NoTeam
    /\ db[<<"team", w.fields.team>>] = NoRow
Raises(w) == w.kind # "delete" /\ (Gone(w) \/ Taken(w) \/ Dangling(w))

Flush(p, ws) == tx' = [tx EXCEPT ![p] = @ \cup ws] /\ UNCHANGED db

\* The transaction ends: its writes become visible, its locks are gone.
CommitTx(p) ==
    /\ db' = [r \in Refs |-> Written(db[r], {w \in tx[p] : w.ref = r})]
    /\ tx' = [tx EXCEPT ![p] = {}]

RollbackTx(p) == tx' = [tx EXCEPT ![p] = {}] /\ UNCHANGED db
=============================================================================
