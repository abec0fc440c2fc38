-------------------------- MODULE SchemaMigration --------------------------
(***************************************************************************)
(* Opening the SQLite store: initialize and migrate of                     *)
(* auth-server/server/sqlite_store.go, run by server processes that start, *)
(* crash and start again over one database file.                           *)
(*                                                                         *)
(* A schema is the set of the tables and columns that later versions       *)
(* added.  Every statement outside a transaction commits by itself; the    *)
(* statements of a migration and its PRAGMA user_version commit together.  *)
(***************************************************************************)
EXTENDS Integers, Sequences

CONSTANTS Process,        \* servers opened on the file
          StartVersions,  \* versions the file may have when it is first opened;
                          \* NoFile for a file that does not exist yet
          Crashes         \* whether a process may die while it opens the store

NoFile == -1
currentSchemaVersion == 5

\* The tables of the first, unversioned schema.
BaseTables == {"clients", "authorization_codes", "refresh_tokens", "consent_requests"}

\* What each migration adds with ALTER TABLE (which fails on a column that is
\* there already) and with CREATE TABLE IF NOT EXISTS (which does not).
Alters == <<{"clients.public_key_pem", "consent_requests.code_verifier"}, {},
            {"clients.algorithm"}, {"refresh_tokens.family_id"},
            {"clients.dynamic_registration"}>>
Creates == <<{"client_assertions"}, {"upstream_sessions"}, {}, {}, {}>>

\* The statements of freshSchema, each a CREATE TABLE IF NOT EXISTS.
freshSchema == <<{"clients", "clients.public_key_pem", "clients.algorithm",
                  "clients.dynamic_registration"},
                 {"client_assertions"},
                 {"authorization_codes"},
                 {"refresh_tokens", "refresh_tokens.family_id"},
                 {"consent_requests", "consent_requests.code_verifier"},
                 {"upstream_sessions"}>>

ASSUME ConstantsAssumption ==
    /\ StartVersions \subseteq -1 .. currentSchemaVersion
    /\ Crashes \in BOOLEAN

VARIABLES schema,     \* tables and columns in the file
          version,    \* PRAGMA user_version
          pc,         \* what each process does next
          step,       \* freshSchema statement a process executes next
          read,       \* user_version as a process read it
          unverified, \* the clients that were in the file are marked dynamic
          legacy      \* history: the file held clients from before version 5

vars == <<schema, version, pc, step, read, unverified, legacy>>

-----------------------------------------------------------------------------
Union(s, from, to) == UNION {s[v] : v \in (from + 1) .. to}

\* The schema of a file at version v.
SchemaAt(v) ==
    IF v = NoFile THEN {} ELSE BaseTables \cup Union(Alters, 0, v) \cup Union(Creates, 0, v)

CurrentSchema == SchemaAt(currentSchemaVersion)

Init ==
    \E v \in StartVersions :
        /\ schema = SchemaAt(v)
        /\ version = IF v = NoFile THEN 0 ELSE v
        /\ legacy = (v \in 0 .. currentSchemaVersion - 1)
        /\ pc = [p \in Process |-> "down"]
        /\ step = [p \in Process |-> 1]
        /\ read = [p \in Process |-> 0]
        /\ unverified = FALSE

Goto(p, label) == pc' = [pc EXCEPT ![p] = label]

\* initialize looks for the clients table.
Start(p) ==
    /\ pc[p] = "down"
    /\ Goto(p, IF "clients" \in schema THEN "reading" ELSE "creating")
    /\ step' = [step EXCEPT ![p] = 1]
    /\ UNCHANGED <<schema, version, read, unverified, legacy>>

\* The next statement of freshSchema; a table that exists is left as it is.
CreateTable(p) ==
    /\ pc[p] = "creating"
    /\ step[p] <= Len(freshSchema)
    /\ LET table == freshSchema[step[p]]
           exists == \E x \in table : x \in BaseTables \cap schema
       IN  schema' = IF exists THEN schema ELSE schema \cup table
    /\ step' = [step EXCEPT ![p] = @ + 1]
    /\ UNCHANGED <<version, pc, read, unverified, legacy>>

\* PRAGMA user_version, set before the tables exist.
SetVersionFirst(p) ==
    /\ pc[p] = "creating"
    /\ version' = currentSchemaVersion
    /\ IF step[p] > Len(freshSchema) THEN Goto(p, "serving") ELSE UNCHANGED pc
    /\ UNCHANGED <<schema, step, read, unverified, legacy>>

\* PRAGMA user_version, a statement of its own after freshSchema.
SetVersion(p) ==
    /\ pc[p] = "creating"
    /\ step[p] > Len(freshSchema)
    /\ version' = currentSchemaVersion
    /\ Goto(p, "serving")
    /\ UNCHANGED <<schema, step, read, unverified, legacy>>

\* migrate reads the version before it opens its transaction.
ReadVersion(p) ==
    /\ pc[p] = "reading"
    /\ read' = [read EXCEPT ![p] = version]
    /\ Goto(p, IF version >= currentSchemaVersion THEN "serving" ELSE "migrating")
    /\ UNCHANGED <<schema, version, step, unverified, legacy>>

\* The migrations from version v on can be executed: the tables they alter are
\* there and the columns they add are not.
Applicable(v) ==
    /\ Union(Alters, v, currentSchemaVersion) \cap schema = {}
    /\ BaseTables \ {"authorization_codes"} \subseteq schema

\* Migrations whose version number is not part of their transaction.
MigrateWithoutVersion(p) ==
    /\ pc[p] = "migrating"
    /\ Applicable(read[p])
    /\ schema' = schema \cup Union(Alters, read[p], currentSchemaVersion)
                        \cup Union(Creates, read[p], currentSchemaVersion)
    /\ unverified' = TRUE
    /\ Goto(p, "down")
    /\ UNCHANGED <<version, step, read, legacy>>

\* One migration per start instead of all the missing ones.
MigrateOneVersion(p) ==
    /\ pc[p] = "migrating"
    /\ Applicable(read[p])
    /\ schema' = schema \cup Alters[read[p] + 1] \cup Creates[read[p] + 1]
    /\ version' = currentSchemaVersion
    /\ unverified' = (read[p] = currentSchemaVersion - 1)
    /\ Goto(p, "serving")
    /\ UNCHANGED <<step, read, legacy>>

\* The transaction of migrate commits: every missing migration, the marking of
\* the clients already there by the last one, and the version.
Migrate(p) ==
    /\ pc[p] = "migrating"
    /\ Applicable(read[p])
    /\ schema' = schema \cup Union(Alters, read[p], currentSchemaVersion)
                        \cup Union(Creates, read[p], currentSchemaVersion)
    /\ version' = currentSchemaVersion
    /\ unverified' = TRUE
    /\ Goto(p, "serving")
    /\ UNCHANGED <<step, read, legacy>>

\* A failed migration that is tried again with the version read before.
RetryWithStaleVersion(p) ==
    /\ pc[p] = "migrating"
    /\ ~Applicable(read[p])
    /\ UNCHANGED vars

\* A statement of the transaction fails: rolled back, and the process exits.
MigrateFails(p) ==
    /\ pc[p] = "migrating"
    /\ ~Applicable(read[p])
    /\ Goto(p, "down")
    /\ UNCHANGED <<schema, version, step, read, unverified, legacy>>

\* The process ends, in order or (Crashes) in the middle of opening the store.
Exit(p) ==
    /\ pc[p] = "serving" \/ (Crashes /\ pc[p] # "down")
    /\ Goto(p, "down")
    /\ UNCHANGED <<schema, version, step, read, unverified, legacy>>

Next ==
    \E p \in Process :
        \/ Start(p)
        \/ CreateTable(p)
        \/ SetVersion(p)
        \/ ReadVersion(p)
        \/ Migrate(p)
        \/ MigrateFails(p)
        \/ Exit(p)

Spec == Init /\ [][Next]_vars

\* A supervisor restarts the server, and a server that runs goes on running its
\* statements; nothing makes it exit.
Progress(p) ==
    \/ Start(p) \/ CreateTable(p) \/ SetVersion(p)
    \/ ReadVersion(p) \/ Migrate(p) \/ MigrateFails(p)

FairSpec == Spec /\ \A p \in Process : WF_vars(Progress(p))

-----------------------------------------------------------------------------
TypeOK ==
    /\ schema \subseteq CurrentSchema
    /\ version \in 0 .. currentSchemaVersion
    /\ pc \in [Process -> {"down", "creating", "reading", "migrating", "serving"}]
    /\ step \in [Process -> 1 .. Len(freshSchema) + 1]
    /\ read \in [Process -> 0 .. currentSchemaVersion]
    /\ unverified \in BOOLEAN /\ legacy \in BOOLEAN

\* A server that serves has every table and column the queries name, however
\* many servers opened the file at once and wherever some of them died.
ServingHasCurrentSchema ==
    \A p \in Process : pc[p] = "serving" => schema = CurrentSchema

\* Clients from before version 5 are shown as unverified once the store is open
\* (the comment on migrations[4]).
LegacyClientsUnverified ==
    \A p \in Process : pc[p] = "serving" /\ legacy => unverified

\* A server started alone on the file would create it, find it current, or
\* migrate it.
CanOpen ==
    \/ "clients" \notin schema
    \/ version >= currentSchemaVersion
    \/ Applicable(version)

\* Whenever no server is busy opening the file, it can be opened.  This is what
\* the comment on currentSchemaVersion says of an existing file (exactly the
\* missing statements are applied).
Openable ==
    (\A p \in Process : pc[p] \in {"down", "serving"}) => CanOpen

\* The same, for a file that an earlier release has written: upgrading never
\* damages it, wherever the servers that upgrade it die.
UpgradeKeepsOpenable == legacy => Openable

\* Every server ends up serving, on a file new or old, if servers stop dying
\* (otherwise than by a failed migration) and no crash has ruined the file: one
\* that looked at the file while another was creating or migrating it fails, and
\* finds it current when it is restarted.
EventuallyServes ==
    <>[][\A p \in Process : Exit(p) => MigrateFails(p)]_vars /\ <>[]CanOpen
        => \A p \in Process : pc[p] = "down" ~> pc[p] = "serving"
=============================================================================
