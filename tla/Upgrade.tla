------------------------------- MODULE Upgrade -------------------------------
(***************************************************************************)
(* What every start of the server does to the database before it listens:  *)
(* migrate, seed and the import of the script library.  Each statement     *)
(* commits by itself, except inside BEGIN ... COMMIT; the process may die  *)
(* between any two of them, and the next start begins again with what is   *)
(* on disk.  Which statements are left to do is read off the database:     *)
(* a table that is missing, a column, a table's old shape.                 *)
(*                                                                         *)
(* A database is described by what an upgrade can lose: whether a rebuilt  *)
(* table holds its rows, the staff's accounts, the cutoffs of completed    *)
(* scenarios, the published topologies, the demo run, the scripts.             *)
(* MaxCrashes bounds the crashes, MaxChanges what is done in between.      *)
(***************************************************************************)
EXTENDS Naturals, Sequences, FiniteSets

CONSTANTS Staff,        \* staff of the active run, in a database that predates accounts
          Name(_),      \* their names as accounts compare them, without case
          Drawn, Later, \* a scenario with a node students may see, and one drawn later
          Library,      \* the scripts of catalog.json
          MaxCrashes, MaxChanges

ASSUME UpgradeAssumption == MaxCrashes \in Nat /\ MaxChanges \in Nat /\ Drawn # Later

VARIABLES
  disk,       \* the committed database
  db,         \* the connection's database: ahead of disk in a transaction only
  at, stmt,   \* the step of a start, and the statement in it
  hadTable,   \* hadTopologyPublications
  server,     \* "down", "starting", "failed" or "serving"
  was,        \* history: the database before the first start
  torn,       \* history: what a crash left half done
  chosen,     \* history: the scenarios an instructor published
  crashes, changes

upgradeVars == <<disk, db, at, stmt, hadTable, server, was, torn, chosen, crashes, changes>>
history == <<was, torn, chosen, crashes, changes>>

RebuiltTables == {"edges", "sessions", "scores", "grants"}
Tables == RebuiltTables \cup {"publications"}
Nothing == "nothing"

\* the order of migrate, seed and importScriptLibraryIfEmpty
Steps == <<"schema", "edges", "sessions", "column", "cutoffs", "scores", "template", "grants", "accounts",
           "guards", "publications", "admin", "demo", "library">>
Position(step) == CHOOSE i \in DOMAIN Steps : Steps[i] = step

\* the features of the versions a database may come from, oldest first
Features == <<"edges", "sessions", "publications", "scores", "grants", "accounts">>
Had(f, version) == \E i \in 1..version : Features[i] = f

Database(version, staff) ==
    [shape     |-> [t \in Tables |-> IF Had(t, version) THEN "new"
                                     ELSE IF t = "publications" THEN "absent" ELSE "old"],
     rows      |-> RebuiltTables,                       \* the tables that hold their rows
     copy      |-> [t \in RebuiltTables |-> Nothing],   \* <table>_new: "empty" or "filled"
     column    |-> Had("scores", version),        \* first_completed_at exists
     cutoffs   |-> Had("scores", version),        \* it is set wherever completed_at is
     template  |-> Had("grants", version),
     staff     |-> staff,
     linked    |-> IF Had("accounts", version) THEN staff ELSE {},
     accounts  |-> IF Had("accounts", version) THEN {Name(s) : s \in staff} ELSE {},
     admin     |-> Had("accounts", version),
     drawn     |-> {Drawn},
     published |-> IF Had("publications", version) THEN {Drawn} ELSE {},
     run       |-> "filled",                     \* the active event run: "none", "begun" or with its teams
     scripts   |-> Library]

\* no file yet: nothing to upgrade
Fresh == [Database(0, {}) EXCEPT !.shape = [t \in Tables |-> "absent"], !.rows = {}, !.drawn = {},
                               !.run = "none", !.scripts = {}]

-----------------------------------------------------------------------------
(* Statements                                                              *)

\* Mutant: the scores are rebuilt like the tables before them.
Transactional_NotScores == {"grants", "accounts"}

\* BEGIN ... COMMIT
Transactional == {"scores", "grants", "accounts"}

Doing(step) == server = "starting" /\ at <= Len(Steps) /\ Steps[at] = step

\* one statement, on disk at once unless a transaction is open and goes on
Execute(new, open) ==
    /\ db' = new
    /\ disk' = IF open THEN disk ELSE new
    /\ UNCHANGED <<hadTable, server, history>>

NextStep == at' = at + 1 /\ stmt' = 0
SameStep == at' = at /\ stmt' = stmt + 1

\* an error that nothing catches ends the process, and with it an open transaction
Throw ==
    /\ server' = "failed" /\ db' = disk
    /\ UNCHANGED <<disk, at, stmt, hadTable, history>>

-----------------------------------------------------------------------------
(* migrate                                                                 *)

\* CREATE TABLE IF NOT EXISTS, table by table: what is created has the new shape
SchemaOrder == <<"edges", "publications", "sessions", "scores", "grants">>
MissingTables == {i \in DOMAIN SchemaOrder : db.shape[SchemaOrder[i]] = "absent"}

RunSchemaFiles ==
    /\ Doing("schema")
    /\ \/ MissingTables = {} /\ NextStep /\ Execute(db, FALSE)
       \/ \E i \in MissingTables :
            /\ \A k \in MissingTables : i <= k
            /\ SameStep /\ Execute([db EXCEPT !.shape[SchemaOrder[i]] = "new"], FALSE)

CreateCopy(t) == Execute([db EXCEPT !.copy[t] = "empty"], t \in Transactional)
FillCopy(t) == Execute([db EXCEPT !.copy[t] = IF t \in db.rows THEN "filled" ELSE "empty"], t \in Transactional)
DropTable(t) == Execute([db EXCEPT !.shape[t] = "absent", !.rows = @ \ {t}], t \in Transactional)
RenameCopy(t) ==
    Execute([db EXCEPT !.shape[t] = "new", !.copy[t] = Nothing,
                       !.rows = IF db.copy[t] = "filled" THEN @ \cup {t} ELSE @], FALSE)

\* relaxTopologyEdgesForZones, relaxAccessSessionsTeamId, relaxScoresForTtpAwards and
\* perScenarioCertificateGrants: once, guarded by the table's shape
Rebuild(t) ==
    /\ Doing(t)
    /\ \/ stmt = 0 /\ db.shape[t] = "new" /\ NextStep /\ Execute(db, FALSE)
       \/ stmt = 0 /\ db.shape[t] = "old" /\ db.copy[t] # Nothing /\ Throw     \* <table>_new already exists
       \/ stmt = 0 /\ db.shape[t] = "old" /\ db.copy[t] = Nothing /\ SameStep /\ CreateCopy(t)
       \/ stmt = 1 /\ SameStep /\ FillCopy(t)
       \/ stmt = 2 /\ SameStep /\ DropTable(t)
       \/ stmt = 3 /\ NextStep /\ RenameCopy(t)

AddColumnIfMissing == Doing("column") /\ NextStep /\ Execute([db EXCEPT !.column = TRUE], FALSE)

\* UPDATE ... SET first_completed_at = completed_at WHERE first_completed_at IS NULL
BackfillCutoffs == Doing("cutoffs") /\ NextStep /\ Execute([db EXCEPT !.cutoffs = TRUE], FALSE)

EnsureDefaultTemplate == Doing("template") /\ NextStep /\ Execute([db EXCEPT !.template = TRUE], FALSE)

\* backfillStaffAccounts: in one transaction, while there are no accounts; names that differ only in
\* case share one
BackfillStaffAccounts ==
    LET left == db.staff \ db.linked
    IN  /\ Doing("accounts")
        /\ \/ stmt = 0 /\ (db.accounts # {} \/ left = {}) /\ NextStep /\ Execute(db, FALSE)
           \/ \E s \in left :
                /\ stmt > 0 \/ db.accounts = {}
                /\ IF left = {s} THEN NextStep ELSE SameStep
                /\ Execute([db EXCEPT !.linked = @ \cup {s}, !.accounts = @ \cup {Name(s)}, !.admin = TRUE],
                           "accounts" \in Transactional /\ left # {s})

\* one account is one person of a run (idx_users_run_account)
SharedAccount(d) == \E s, u \in d.linked : s # u /\ Name(s) = Name(u)

AddStaffMembershipGuards ==
    /\ Doing("guards")
    /\ IF SharedAccount(db) THEN Throw ELSE NextStep /\ Execute(db, FALSE)

\* the topologies students could see before there was publishing, when its table was just created
PublishOnce ==
    LET left == IF hadTable THEN {} ELSE db.drawn \ db.published
    IN  /\ Doing("publications")
        /\ \/ left = {} /\ NextStep /\ Execute(db, FALSE)
           \/ \E r \in left : SameStep /\ Execute([db EXCEPT !.published = @ \cup {r}], FALSE)

-----------------------------------------------------------------------------
(* seed, importScriptLibraryIfEmpty                                        *)

EnsureInitialAdmin == Doing("admin") /\ NextStep /\ Execute([db EXCEPT !.admin = TRUE], FALSE)

\* the run, then its demo teams and students; a run that is there is left as it is
SeedDemoRunData ==
    /\ Doing("demo")
    /\ \/ stmt = 0 /\ db.run # "none" /\ NextStep /\ Execute(db, FALSE)
       \/ stmt = 0 /\ db.run = "none" /\ SameStep /\ Execute([db EXCEPT !.run = "begun"], FALSE)
       \/ stmt = 1 /\ NextStep /\ Execute([db EXCEPT !.run = "filled"], FALSE)

\* only into an empty table, script by script; then the server listens
ImportScriptLibrary ==
    /\ Doing("library") /\ (stmt > 0 \/ db.scripts = {}) /\ db.scripts # Library
    /\ SameStep
    /\ \E x \in Library \ db.scripts : Execute([db EXCEPT !.scripts = @ \cup {x}], FALSE)

Listen ==
    /\ Doing("library") /\ (stmt = 0 => db.scripts # {}) /\ (stmt > 0 => db.scripts = Library)
    /\ server' = "serving"
    /\ UNCHANGED <<disk, db, at, stmt, hadTable, history>>

Migrate ==
    \/ RunSchemaFiles \/ (\E t \in RebuiltTables : Rebuild(t)) \/ AddColumnIfMissing \/ BackfillCutoffs
    \/ EnsureDefaultTemplate \/ BackfillStaffAccounts \/ AddStaffMembershipGuards \/ PublishOnce

-----------------------------------------------------------------------------
(* The process, and what people do while it serves                         *)

StartServer ==
    /\ server \in {"down", "failed"}
    /\ server' = "starting" /\ at' = 1 /\ stmt' = 0
    /\ hadTable' = (disk.shape["publications"] = "new")
    /\ UNCHANGED <<disk, db, history>>

Torn ==
    {t \in RebuiltTables \ {"scores", "grants"} : Doing(t) /\ stmt > 0}
    \cup {t \in {"publications"} : /\ server = "starting" /\ ~hadTable /\ disk.shape[t] = "new"
                                   /\ at <= Position(t) /\ db.drawn # {}}
    \cup {t \in {"demo", "library"} : Doing(t) /\ stmt > 0}

Crash ==
    /\ server \in {"starting", "serving"} /\ crashes < MaxCrashes
    /\ crashes' = crashes + 1
    /\ server' = "down" /\ db' = disk
    /\ torn' = torn \cup Torn
    /\ UNCHANGED <<disk, at, stmt, hadTable, was, chosen, changes>>

Change(new, published) ==
    /\ server = "serving" /\ changes < MaxChanges
    /\ db' = new /\ disk' = new /\ changes' = changes + 1
    /\ chosen' = chosen \cup published
    /\ UNCHANGED <<at, stmt, hadTable, server, was, torn, crashes>>

DrawNode == Later \notin db.drawn /\ Change([db EXCEPT !.drawn = @ \cup {Later}], {})
PublishTopology(r) == r \in db.drawn \ db.published /\ Change([db EXCEPT !.published = @ \cup {r}], {r})
DeleteScript(x) == x \in db.scripts /\ Change([db EXCEPT !.scripts = @ \ {x}], {})

UpgradeInit ==
    /\ \E version \in 0..Len(Features), staff \in SUBSET Staff :
          /\ version = Len(Features) => ~\E s, u \in staff : s # u /\ Name(s) = Name(u)
          /\ was \in {Fresh, Database(version, staff)}
    /\ disk = was /\ db = was
    /\ at = 1 /\ stmt = 0 /\ hadTable = FALSE
    /\ server = "down" /\ torn = {} /\ chosen = {} /\ crashes = 0 /\ changes = 0

UpgradeNext ==
    \/ StartServer \/ Migrate \/ EnsureInitialAdmin \/ SeedDemoRunData \/ ImportScriptLibrary \/ Listen
    \/ Crash
    \/ DrawNode \/ (\E r \in {Drawn, Later} : PublishTopology(r)) \/ (\E x \in Library : DeleteScript(x))

UpgradeSpec == UpgradeInit /\ [][UpgradeNext]_upgradeVars

-----------------------------------------------------------------------------
(* Properties                                                              *)

Upgraded ==
    /\ was.rows \ torn \subseteq db.rows
    /\ db.linked = was.staff /\ db.admin /\ db.template
    /\ "demo" \notin torn => db.run = "filled"
    /\ db.column /\ (was.rows # {} => db.cutoffs)
    /\ was.shape["publications"] = "absent" => was.drawn \subseteq db.published \cup {r \in {Drawn} : "publications" \in torn}

\* Whatever version a database comes from and however often its upgrade is killed and begun again, a
\* server that listens has kept the scores, the certificate grants, the staff's sign-ins and the cutoffs
\* of completed scenarios, and has published what students could see and nothing an instructor did not
\* publish; what else it lost, or why it cannot start at all, is explained by a crash inside one of the
\* rebuilds that are not transactions, of the one-time publication or of the import, or by staff whose
\* names share an account (migrate.ts).
UpgradesKeepRecords ==
    /\ server = "serving" => Upgraded
    /\ server = "failed" => torn \cap RebuiltTables # {} \/ SharedAccount([linked |-> was.staff])
    /\ server = "serving" /\ changes = 0 /\ "library" \notin torn => db.scripts = Library
    /\ db.published \subseteq was.published \cup was.drawn \cup chosen
=============================================================================
