------------------------------- MODULE Migration -------------------------------
(* `db migrate up`, run by operators against one database, while an older     *)
(* release may still insert Todo rows and services of this release start. An  *)
(* operator's process may fail at any command or die at any moment. A command *)
(* to the database is one step. golang-migrate and the SQL files are modelled *)
(* by what this repository relies on; both are transactional per migration    *)
(* file on the two drivers here (MySQL, which is not, is left out).           *)
EXTENDS Naturals, FiniteSets

CONSTANTS
    Operators,      \* processes that run `db migrate up`
    Services        \* processes of this release that start

CurrentVersion == 3
Nobody == "nobody"

ASSUME OperatorsAssumption == Nobody \notin Operators

VARIABLES
    db,         \* "sqlite" or "postgres" (Config.Driver)
    recorded,   \* the row of schema_migrations: [version, dirty]; 0 is no row
    shape,      \* the last migration whose effect is in the schema
    rows,       \* owners that Todo rows have: "null", "unassigned", "owned"
    holder,     \* the operator that holds the server's migration lock
    up,         \* what each operator is doing
    service,    \* how far each service has come
    broken      \* a migration failed, or an operator died holding the lock (history)

migrationVars == <<db, recorded, shape, rows, holder, up, service, broken>>

Waiting == [step |-> "idle", version |-> 0, subject |-> FALSE]
Continues(o, step) == up' = [up EXCEPT ![o].step = step]
Record(version, dirty) == recorded' = [version |-> version, dirty |-> dirty]
Exact == recorded = [version |-> CurrentVersion, dirty |-> FALSE]
Unresolved == "unassigned" \in rows

-----------------------------------------------------------------------------
(* Up: with or without a subject for the rows that have no owner.            *)
Begin(o) ==
    /\ up[o].step = "idle"
    /\ \E subject \in BOOLEAN : up' = [up EXCEPT ![o].step = "lock", ![o].subject = subject]
    /\ UNCHANGED <<db, recorded, shape, rows, holder, service, broken>>

\* The SQLite driver's lock belongs to the connection, which is the operator's
\* own; the server's is waited for, for LockTimeout.
CanLock(o) == db = "sqlite" \/ holder = Nobody

Lock(o) ==
    /\ up[o].step = "lock"
    /\ IF CanLock(o)
       THEN Continues(o, "version") /\ holder' = IF db = "sqlite" THEN holder ELSE o
       ELSE Continues(o, "failed") /\ UNCHANGED holder
    /\ UNCHANGED <<db, recorded, shape, rows, service, broken>>

Unlocked(o) == IF holder = o THEN Nobody ELSE holder

\* A dirty database is refused; otherwise the version read here says what to run.
ReadVersion(o) ==
    /\ up[o].step = "version"
    /\ IF recorded.dirty
       THEN Continues(o, "failed") /\ holder' = Unlocked(o)
       ELSE /\ up' = [up EXCEPT ![o].step = "next", ![o].version = recorded.version]
            /\ UNCHANGED holder
    /\ UNCHANGED <<db, recorded, shape, rows, service, broken>>

\* The next migration is marked dirty before it runs; after the last one (or if
\* there is none) the lock is released. The end of the context asks for a
\* graceful stop, which takes effect here and is an error.
Mark(o) ==
    /\ up[o].step = "next" /\ up[o].version < CurrentVersion
    /\ up' = [up EXCEPT ![o].step = "body", ![o].version = @ + 1]
    /\ Record(up[o].version + 1, TRUE)
    /\ UNCHANGED <<db, shape, rows, holder, service, broken>>

Unlock(o) ==
    /\ up[o].step = "next" /\ up[o].version = CurrentVersion
    /\ Continues(o, "resolve") /\ holder' = Unlocked(o)
    /\ UNCHANGED <<db, recorded, shape, rows, service, broken>>

GracefulStop(o) ==
    /\ up[o].step = "next"
    /\ Continues(o, "failed") /\ holder' = Unlocked(o)
    /\ UNCHANGED <<db, recorded, shape, rows, service, broken>>

\* 1 creates the table unless it exists; 2 adds the nullable owner column, which
\* SQLite cannot do twice, and gives rows without an owner a placeholder; 3
\* copies the rows into a table (or alters the column) that refuses null.
Applies(v) ==
    CASE v = 1 -> TRUE
      [] v = 2 -> shape >= 1 /\ (db = "sqlite" => shape = 1)
      [] v = 3 -> shape >= 2 /\ "null" \notin rows

Body(o) ==
    LET v == up[o].version
    IN  /\ up[o].step = "body"
        /\ Applies(v)
        /\ shape' = IF shape < v THEN v ELSE shape
        /\ rows' = IF v = 2 /\ "null" \in rows THEN (rows \ {"null"}) \cup {"unassigned"} ELSE rows
        /\ Continues(o, "clear")
        /\ UNCHANGED <<db, recorded, holder, service, broken>>

\* A migration that fails, by itself or for the connection, leaves the mark.
BodyFails(o) ==
    /\ up[o].step = "body"
    /\ Continues(o, "failed") /\ holder' = Unlocked(o)
    /\ broken' = TRUE
    /\ UNCHANGED <<db, recorded, shape, rows, service>>

Clear(o) ==
    /\ up[o].step = "clear"
    /\ Record(up[o].version, FALSE)
    /\ Continues(o, "next")
    /\ UNCHANGED <<db, shape, rows, holder, service, broken>>

\* Completion.Resolve, one transaction; then the status, on the same runner.
Resolve(o) ==
    /\ up[o].step = "resolve"
    /\ IF Unresolved /\ ~up[o].subject THEN Continues(o, "failed") /\ UNCHANGED rows
       ELSE Continues(o, "status") /\ rows' = (rows \ {"unassigned"}) \cup (IF Unresolved THEN {"owned"} ELSE {})
    /\ UNCHANGED <<db, recorded, shape, holder, service, broken>>

Finish(o) ==
    /\ up[o].step = "status"
    /\ Continues(o, IF Exact THEN "done" ELSE "failed")
    /\ UNCHANGED <<db, recorded, shape, rows, holder, service, broken>>

\* A command fails or the process dies: the connection ends, and its lock.
Dies(o) ==
    /\ up[o].step \in {"version", "next", "body", "clear", "resolve", "status"}
    /\ Continues(o, "failed") /\ holder' = Unlocked(o)
    /\ broken' = (broken \/ up[o].step \in {"body", "clear"})
    /\ UNCHANGED <<db, recorded, shape, rows, service>>

Retry(o) ==
    /\ up[o].step \in {"failed", "done"}
    /\ up' = [up EXCEPT ![o] = Waiting]
    /\ UNCHANGED <<db, recorded, shape, rows, holder, service, broken>>

-----------------------------------------------------------------------------
(* An older release inserts rows without an owner, while its schema lasts.   *)
OldServiceInserts ==
    /\ shape \in {1, 2} /\ rows' = rows \cup {"null"}
    /\ UNCHANGED <<db, recorded, shape, holder, up, service, broken>>

(* A service of this release: Compatibility.Check, then Completion.Verify on a *)
(* connection of its own, then (later resources permitting) it runs.           *)
Check(s) ==
    /\ service[s] = "starting"
    /\ service' = [service EXCEPT ![s] = IF Exact THEN "checked" ELSE "refused"]
    /\ UNCHANGED <<db, recorded, shape, rows, holder, up, broken>>

\* Faulty: the service trusts the version.
VerifyNothing(s) ==
    /\ service[s] = "checked"
    /\ service' = [service EXCEPT ![s] = "verified"]
    /\ UNCHANGED <<db, recorded, shape, rows, holder, up, broken>>

Verify(s) ==
    /\ service[s] = "checked"
    /\ service' = [service EXCEPT ![s] = IF Unresolved THEN "refused" ELSE "verified"]
    /\ UNCHANGED <<db, recorded, shape, rows, holder, up, broken>>

Run(s) ==
    /\ service[s] = "verified" /\ service' = [service EXCEPT ![s] = "running"]
    /\ rows' = rows \cup {"owned"}
    /\ UNCHANGED <<db, recorded, shape, holder, up, broken>>

StartAgain(s) ==
    /\ service[s] \in {"refused", "running"} /\ service' = [service EXCEPT ![s] = "starting"]
    /\ UNCHANGED <<db, recorded, shape, rows, holder, up, broken>>

-----------------------------------------------------------------------------
MigrationInit ==
    /\ db \in {"sqlite", "postgres"}
    /\ recorded = [version |-> 0, dirty |-> FALSE] /\ shape = 0
    /\ rows = {} /\ holder = Nobody
    /\ up = [o \in Operators |-> Waiting]
    /\ service = [s \in Services |-> "starting"]
    /\ broken = FALSE

MigrationNext ==
    \/ \E o \in Operators :
        \/ Begin(o) \/ Lock(o) \/ ReadVersion(o) \/ Mark(o) \/ Unlock(o) \/ GracefulStop(o)
        \/ Body(o) \/ BodyFails(o) \/ Clear(o) \/ Resolve(o) \/ Finish(o) \/ Dies(o) \/ Retry(o)
    \/ OldServiceInserts
    \/ \E s \in Services : Check(s) \/ Verify(s) \/ Run(s) \/ StartAgain(s)

MigrationSpec == MigrationInit /\ [][MigrationNext]_migrationVars

-----------------------------------------------------------------------------
(* Properties.                                                               *)
MigrationTypeOK ==
    /\ db \in {"sqlite", "postgres"}
    /\ recorded \in [version : 0..CurrentVersion, dirty : BOOLEAN] /\ shape \in 0..CurrentVersion
    /\ rows \subseteq {"null", "unassigned", "owned"} /\ holder \in Operators \cup {Nobody}
    /\ up \in [Operators -> [subject : BOOLEAN, version : 0..CurrentVersion,
                             step : {"idle", "lock", "version", "next", "body", "clear",
                                     "resolve", "status", "done", "failed"}]]
    /\ service \in [Services -> {"starting", "checked", "refused", "verified", "running"}]

\* A service that runs has the whole schema and no row without a real owner,
\* whatever operators, older services and crashes did around its two checks;
\* and with a server that locks, the recorded version stays what it checked.
ServiceRunsOnWhole ==
    \A s \in Services : service[s] = "running" =>
        /\ shape = CurrentVersion /\ rows = {"owned"}
        /\ db = "postgres" => Exact

\* An operator that was told "done" leaves a database that services accept, and
\* it stays so; and the version is marked dirty only while somebody migrates or
\* after a migration failed or its operator died. Both need the server's lock:
\* two operators on one SQLite file interleave.
UpMeansReady ==
    db = "postgres" =>
        /\ (\E o \in Operators : up[o].step = "done") => Exact /\ rows \subseteq {"owned"} /\ shape = CurrentVersion
        /\ recorded.dirty => broken \/ \E o \in Operators : holder = o /\ up[o].step \in {"body", "clear"}

\* Both: what a service relies on while it runs, and an operator once it is done.
MigrationIsSound == MigrationTypeOK /\ ServiceRunsOnWhole /\ UpMeansReady
=============================================================================
