----------------------- MODULE SchemaMigrationProofs -----------------------
(***************************************************************************)
(* Proofs about SchemaMigration, for any number of servers that open the   *)
(* file, crash and are restarted.                                          *)
(*                                                                         *)
(* A file has one of two histories, which never mix.  One that an earlier  *)
(* release has written goes from its version to the current one in a       *)
(* single transaction and is never created again.  One that a server of    *)
(* this release creates grows statement by statement, and no migration     *)
(* ever applies to it.                                                     *)
(***************************************************************************)
EXTENDS SchemaMigration, TLAPS

\* A file of an earlier release: the schema is that of the version, nobody
\* creates it, and who has read the version before has read the right one.
LegacyFile ==
    /\ schema = SchemaAt(version)
    /\ version = currentSchemaVersion => unverified
    /\ \A p \in Process :
         /\ pc[p] # "creating"
         /\ pc[p] = "serving" => version = currentSchemaVersion
         /\ pc[p] = "migrating" => /\ read[p] < currentSchemaVersion
                                   /\ version < currentSchemaVersion => read[p] = version

\* A table is there with all its columns or not at all.
TablesAreWhole ==
    \A i \in 1 .. Len(freshSchema) :
        (\E x \in freshSchema[i] : x \in BaseTables \cap schema) => freshSchema[i] \subseteq schema

\* A file of this release: the version is set once everything is there.
FreshFile ==
    /\ version \in {0, currentSchemaVersion}
    /\ version = currentSchemaVersion => schema = CurrentSchema
    /\ TablesAreWhole
    /\ \A p \in Process :
         /\ pc[p] = "creating" => \A i \in 1 .. step[p] - 1 : freshSchema[i] \subseteq schema
         /\ pc[p] = "serving" => schema = CurrentSchema
         /\ pc[p] \in {"reading", "migrating"} => "clients" \in schema
         /\ pc[p] = "migrating" => read[p] = 0

SchemaInv == TypeOK /\ IF legacy THEN LegacyFile ELSE FreshFile

-----------------------------------------------------------------------------
\* The statements, one by one.
LEMMA AltersAre ==
    /\ Alters[1] = {"clients.public_key_pem", "consent_requests.code_verifier"}
    /\ Alters[2] = {}
    /\ Alters[3] = {"clients.algorithm"}
    /\ Alters[4] = {"refresh_tokens.family_id"}
    /\ Alters[5] = {"clients.dynamic_registration"}
BY DEF Alters

LEMMA CreatesAre ==
    /\ Creates[1] = {"client_assertions"}
    /\ Creates[2] = {"upstream_sessions"}
    /\ Creates[3] = {} /\ Creates[4] = {} /\ Creates[5] = {}
BY DEF Creates

LEMMA FreshAre ==
    /\ Len(freshSchema) = 6
    /\ freshSchema[1] = {"clients", "clients.public_key_pem", "clients.algorithm",
                         "clients.dynamic_registration"}
    /\ freshSchema[2] = {"client_assertions"}
    /\ freshSchema[3] = {"authorization_codes"}
    /\ freshSchema[4] = {"refresh_tokens", "refresh_tokens.family_id"}
    /\ freshSchema[5] = {"consent_requests", "consent_requests.code_verifier"}
    /\ freshSchema[6] = {"upstream_sessions"}
BY DEF freshSchema

\* What is in a union of migrations.
LEMMA InUnion ==
    ASSUME NEW s, NEW from \in Int, NEW to \in Int, NEW x
    PROVE  x \in Union(s, from, to) <=> \E v \in from + 1 .. to : x \in s[v]
BY DEF Union

\* The migrations from v on complete the schema of version v.
LEMMA MigrationsComplete ==
    ASSUME NEW v \in 0 .. currentSchemaVersion
    PROVE  SchemaAt(v) \cup Union(Alters, v, currentSchemaVersion)
                       \cup Union(Creates, v, currentSchemaVersion) = CurrentSchema
<1>1. v \in Int /\ currentSchemaVersion \in Int /\ 0 <= v /\ v <= currentSchemaVersion
  BY DEF currentSchemaVersion
<1>2. v # NoFile /\ currentSchemaVersion # NoFile
  BY <1>1 DEF NoFile, currentSchemaVersion
<1>3. ASSUME NEW s
      PROVE  Union(s, 0, v) \cup Union(s, v, currentSchemaVersion)
                 = Union(s, 0, currentSchemaVersion)
  <2>1. ASSUME NEW x
        PROVE  (\E w \in 0 + 1 .. v : x \in s[w]) \/ (\E w \in v + 1 .. currentSchemaVersion : x \in s[w])
                 <=> \E w \in 0 + 1 .. currentSchemaVersion : x \in s[w]
    BY <1>1
  <2> QED
    BY <1>1, <2>1, InUnion
<1>4. /\ Union(Alters, 0, v) \cup Union(Alters, v, currentSchemaVersion)
             = Union(Alters, 0, currentSchemaVersion)
      /\ Union(Creates, 0, v) \cup Union(Creates, v, currentSchemaVersion)
             = Union(Creates, 0, currentSchemaVersion)
  BY <1>3
<1> QED
  BY <1>2, <1>4 DEF SchemaAt, CurrentSchema

\* They add columns that version v does not have, to tables that it has.
LEMMA MigrationsApply ==
    ASSUME NEW v \in 0 .. currentSchemaVersion - 1
    PROVE  /\ Union(Alters, v, currentSchemaVersion) \cap SchemaAt(v) = {}
           /\ BaseTables \subseteq SchemaAt(v)
<1>1. v \in {0, 1, 2, 3, 4} /\ currentSchemaVersion = 5 /\ v # NoFile
  BY DEF currentSchemaVersion, NoFile
<1>2. SchemaAt(v) = BaseTables \cup Union(Alters, 0, v) \cup Union(Creates, 0, v)
  BY <1>1 DEF SchemaAt
<1>3. Union(Alters, v, 5) \cap BaseTables = {}
  BY <1>1, InUnion, AltersAre DEF BaseTables
<1>4. Union(Alters, v, 5) \cap Union(Alters, 0, v) = {}
  <2> SUFFICES ASSUME NEW i \in v + 1 .. 5, NEW j \in 0 + 1 .. v
               PROVE  Alters[i] \cap Alters[j] = {}
    BY <1>1, InUnion
  <2>1. i \in {1, 2, 3, 4, 5} /\ j \in {1, 2, 3, 4} /\ i # j
    BY <1>1
  <2> QED
    BY <2>1, AltersAre
<1>5. Union(Alters, v, 5) \cap Union(Creates, 0, v) = {}
  <2> SUFFICES ASSUME NEW i \in v + 1 .. 5, NEW j \in 0 + 1 .. v
               PROVE  Alters[i] \cap Creates[j] = {}
    BY <1>1, InUnion
  <2>1. i \in {1, 2, 3, 4, 5} /\ j \in {1, 2, 3, 4}
    BY <1>1
  <2> QED
    BY <2>1, AltersAre, CreatesAre
<1> QED
  BY <1>1, <1>2, <1>3, <1>4, <1>5

\* The last migration is missing from every earlier version, and the current
\* schema has its column: nothing applies to a file that is current.
LEMMA CurrentIsFinal ==
    ASSUME NEW v \in 0 .. currentSchemaVersion - 1, schema = CurrentSchema
    PROVE  ~Applicable(v)
<1>1. currentSchemaVersion = 5 /\ v \in Int /\ v < 5 /\ v >= 0 /\ 5 # NoFile
  BY DEF currentSchemaVersion, NoFile
<1>2. \A w \in 0 .. 4 : "clients.dynamic_registration" \in Union(Alters, w, 5)
  BY InUnion, AltersAre
<1>3. "clients.dynamic_registration" \in CurrentSchema
  BY <1>1, <1>2 DEF CurrentSchema, SchemaAt
<1> QED
  BY <1>1, <1>2, <1>3 DEF Applicable

\* A file that has the clients table of this release takes no migration at all.
LEMMA FreshIsFinal ==
    ASSUME TablesAreWhole, "clients" \in schema
    PROVE  ~Applicable(0)
<1>1. freshSchema[1] \subseteq schema
  BY FreshAre DEF TablesAreWhole, BaseTables
<1>2. "clients.public_key_pem" \in schema
  BY <1>1, FreshAre
<1>3. "clients.public_key_pem" \in Union(Alters, 0, currentSchemaVersion)
  BY InUnion, AltersAre DEF currentSchemaVersion
<1> QED
  BY <1>2, <1>3 DEF Applicable

\* The statements of freshSchema make up the current schema.
LEMMA FreshIsCurrent ==
    /\ \A i \in 1 .. Len(freshSchema) : freshSchema[i] \subseteq CurrentSchema
    /\ \A x \in CurrentSchema : \E i \in 1 .. Len(freshSchema) : x \in freshSchema[i]
<1>1. \A x : x \in Union(Alters, 0, 5) <=>
                 x \in {"clients.public_key_pem", "consent_requests.code_verifier",
                        "clients.algorithm", "refresh_tokens.family_id",
                        "clients.dynamic_registration"}
  <2>1. 0 + 1 .. 5 = {1, 2, 3, 4, 5}
    OBVIOUS
  <2> QED
    BY <2>1, InUnion, AltersAre
<1>2. \A x : x \in Union(Creates, 0, 5) <=> x \in {"client_assertions", "upstream_sessions"}
  <2>1. 0 + 1 .. 5 = {1, 2, 3, 4, 5}
    OBVIOUS
  <2> QED
    BY <2>1, InUnion, CreatesAre
<1>3. CurrentSchema = BaseTables \cup Union(Alters, 0, 5) \cup Union(Creates, 0, 5)
  BY DEF CurrentSchema, SchemaAt, currentSchemaVersion, NoFile
<1>4. 1 .. 6 = {1, 2, 3, 4, 5, 6}
  OBVIOUS
<1>5. \A i \in 1 .. 6 : freshSchema[i] \subseteq CurrentSchema
  BY <1>1, <1>2, <1>3, <1>4, FreshAre DEF BaseTables
<1>6. \A x \in CurrentSchema : \E i \in {1, 2, 3, 4, 5, 6} : x \in freshSchema[i]
  BY <1>1, <1>2, <1>3, FreshAre DEF BaseTables
<1> QED
  BY <1>4, <1>5, <1>6, FreshAre

\* No two statements of freshSchema name the same table or column.
LEMMA FreshIsDisjoint ==
    ASSUME NEW i \in 1 .. Len(freshSchema), NEW j \in 1 .. Len(freshSchema), i # j
    PROVE  freshSchema[i] \cap freshSchema[j] = {}
<1>1. i \in {1, 2, 3, 4, 5, 6} /\ j \in {1, 2, 3, 4, 5, 6}
  BY FreshAre
<1>2. CASE i \in {1, 2, 3}
  BY <1>1, <1>2, FreshAre
<1>3. CASE i \in {4, 5, 6}
  BY <1>1, <1>3, FreshAre
<1> QED
  BY <1>1, <1>2, <1>3

-----------------------------------------------------------------------------
LEMMA SchemaInvInit == Init => SchemaInv
<1> SUFFICES ASSUME Init PROVE SchemaInv
  OBVIOUS
<1>0. currentSchemaVersion = 5 /\ NoFile = -1
  BY DEF currentSchemaVersion, NoFile
<1>1. PICK v \in StartVersions :
          /\ schema = SchemaAt(v)
          /\ version = IF v = NoFile THEN 0 ELSE v
          /\ legacy = (v \in 0 .. currentSchemaVersion - 1)
          /\ pc = [p \in Process |-> "down"]
          /\ step = [p \in Process |-> 1]
          /\ read = [p \in Process |-> 0]
          /\ unverified = FALSE
  BY DEF Init
<1>2. v \in Int /\ -1 <= v /\ v <= 5
  BY <1>0, ConstantsAssumption
<1>3. v # NoFile => version = v /\ v \in 0 .. currentSchemaVersion
  BY <1>0, <1>1, <1>2
<1>4. v = NoFile => schema = {} /\ version = 0
  BY <1>1 DEF SchemaAt
<1>5. (legacy <=> v \in 0 .. currentSchemaVersion - 1) /\ legacy \in BOOLEAN /\ unverified \in BOOLEAN
  <2>1. legacy = (v \in 0 .. currentSchemaVersion - 1) /\ unverified = FALSE
    BY <1>1
  <2>2. legacy <=> v \in 0 .. currentSchemaVersion - 1
    BY <2>1, Zenon
  <2>3. legacy \in BOOLEAN
    <3>1. (v \in 0 .. currentSchemaVersion - 1) \in BOOLEAN
      OBVIOUS
    <3> QED
      BY <2>1, <3>1
  <2> QED
    BY <2>1, <2>2, <2>3, Zenon
<1>6. TypeOK
  <2>1. schema \subseteq CurrentSchema
    BY <1>1, <1>3, <1>4, MigrationsComplete
  <2>2. version \in 0 .. currentSchemaVersion
    BY <1>0, <1>3, <1>4
  <2>3. step \in [Process -> 1 .. Len(freshSchema) + 1]
    BY <1>1, FreshAre
  <2>4. read \in [Process -> 0 .. currentSchemaVersion]
    BY <1>0, <1>1
  <2> QED
    BY <1>1, <1>5, <2>1, <2>2, <2>3, <2>4 DEF TypeOK
<1>7. CASE legacy
  <2>1. version = v /\ version < currentSchemaVersion
    BY <1>0, <1>2, <1>3, <1>7, <1>5
  <2> QED
    BY <1>0, <1>1, <1>6, <1>7, <2>1 DEF SchemaInv, LegacyFile
<1>8. CASE ~legacy
  <2>1. v = NoFile \/ v = currentSchemaVersion
    BY <1>0, <1>2, <1>8, <1>5
  <2>2. version \in {0, currentSchemaVersion} /\ (version = currentSchemaVersion => schema = CurrentSchema)
    BY <1>0, <1>1, <1>3, <1>4, <2>1 DEF CurrentSchema
  <2>3. TablesAreWhole
    BY <1>1, <1>4, <2>1, FreshIsCurrent DEF TablesAreWhole, CurrentSchema
  <2> QED
    BY <1>1, <1>6, <1>8, <2>2, <2>3 DEF SchemaInv, FreshFile
<1> QED
  BY <1>7, <1>8

\* The steps on a file of an earlier release.
LEMMA LegacyNext ==
    ASSUME TypeOK, legacy, LegacyFile, NEW p \in Process,
           \/ Start(p) \/ CreateTable(p) \/ SetVersion(p) \/ ReadVersion(p)
           \/ Migrate(p) \/ MigrateFails(p) \/ Exit(p)
    PROVE  TypeOK' /\ LegacyFile' /\ legacy'
<1>0. /\ currentSchemaVersion = 5 /\ 5 \in 0 .. currentSchemaVersion
      /\ version \in 0 .. 5 /\ version \in Int
  BY DEF currentSchemaVersion, TypeOK
<1>1. pc[p] # "creating" /\ "clients" \in schema
  <2>1. version # NoFile
    BY <1>0 DEF NoFile
  <2> QED
    BY <2>1 DEF LegacyFile, SchemaAt, BaseTables
<1>2. /\ pc \in [Process -> {"down", "creating", "reading", "migrating", "serving"}]
      /\ step \in [Process -> 1 .. Len(freshSchema) + 1]
      /\ read \in [Process -> 0 .. currentSchemaVersion]
  BY DEF TypeOK
<1>3. CASE Start(p)
  <2>1. pc' = [pc EXCEPT ![p] = "reading"]
    BY <1>1, <1>3 DEF Start, Goto
  <2>2. step' \in [Process -> 1 .. Len(freshSchema) + 1]
    BY <1>2, <1>3, FreshAre DEF Start
  <2> QED
    BY <1>2, <1>3, <2>1, <2>2 DEF Start, TypeOK, LegacyFile
<1>4. CASE ReadVersion(p)
  <2>1. CASE version = 5
    BY <1>0, <1>2, <1>4, <2>1 DEF ReadVersion, Goto, TypeOK, LegacyFile
  <2>2. CASE version # 5
    <3>1. ~(version >= currentSchemaVersion) /\ version < currentSchemaVersion
      BY <1>0, <2>2
    <3>2. pc' = [pc EXCEPT ![p] = "migrating"]
      BY <1>4, <3>1 DEF ReadVersion, Goto
    <3> QED
      BY <1>0, <1>2, <1>4, <3>1, <3>2 DEF ReadVersion, TypeOK, LegacyFile
  <2> QED
    BY <2>1, <2>2
<1>5. CASE Migrate(p)
  <2>1. /\ pc[p] = "migrating" /\ Applicable(read[p]) /\ read[p] \in 0 .. currentSchemaVersion - 1
        /\ version < currentSchemaVersion => read[p] = version
    BY <1>0, <1>2, <1>5 DEF Migrate, LegacyFile
  <2>2. version < currentSchemaVersion
    <3>1. version = currentSchemaVersion => schema = CurrentSchema
      BY DEF LegacyFile, CurrentSchema
    <3> QED
      BY <1>0, <2>1, <3>1, CurrentIsFinal
  <2>3. schema' = CurrentSchema
    BY <1>0, <1>5, <2>1, <2>2, MigrationsComplete DEF Migrate, LegacyFile
  <2>4. version' = currentSchemaVersion /\ unverified' = TRUE /\ UNCHANGED <<step, read, legacy>>
    BY <1>5 DEF Migrate
  <2>5. pc' = [pc EXCEPT ![p] = "serving"]
    BY <1>5 DEF Migrate, Goto
  <2>6. TypeOK'
    BY <1>0, <1>2, <2>3, <2>4, <2>5 DEF TypeOK
  <2>7. LegacyFile'
    BY <1>0, <1>2, <2>3, <2>4, <2>5 DEF LegacyFile, CurrentSchema
  <2> QED
    BY <2>4, <2>6, <2>7
<1>6. CASE MigrateFails(p) \/ Exit(p)
  <2>1. pc' = [pc EXCEPT ![p] = "down"] /\ UNCHANGED <<schema, version, step, read, unverified, legacy>>
    BY <1>6 DEF MigrateFails, Exit, Goto
  <2> QED
    BY <1>2, <2>1 DEF TypeOK, LegacyFile
<1> QED
  BY <1>1, <1>3, <1>4, <1>5, <1>6 DEF CreateTable, SetVersion

\* The steps on a file of this release.
LEMMA FreshNext ==
    ASSUME TypeOK, ~legacy, FreshFile, NEW p \in Process,
           \/ Start(p) \/ CreateTable(p) \/ SetVersion(p) \/ ReadVersion(p)
           \/ Migrate(p) \/ MigrateFails(p) \/ Exit(p)
    PROVE  TypeOK' /\ FreshFile' /\ ~legacy'
<1>0. currentSchemaVersion = 5 /\ version \in {0, 5} /\ version \in 0 .. 5
  BY DEF currentSchemaVersion, FreshFile, TypeOK
<1>1. /\ pc \in [Process -> {"down", "creating", "reading", "migrating", "serving"}]
      /\ step \in [Process -> 1 .. Len(freshSchema) + 1]
      /\ read \in [Process -> 0 .. currentSchemaVersion]
  BY DEF TypeOK
<1>2. CASE Start(p)
  <2>1. UNCHANGED <<schema, version, read, unverified, legacy>>
    BY <1>2 DEF Start
  <2>2. step' = [step EXCEPT ![p] = 1] /\ step' \in [Process -> 1 .. Len(freshSchema) + 1]
    BY <1>1, <1>2, FreshAre DEF Start
  <2>3. \/ pc' = [pc EXCEPT ![p] = "reading"] /\ "clients" \in schema
        \/ pc' = [pc EXCEPT ![p] = "creating"]
    BY <1>2 DEF Start, Goto
  <2>4. TypeOK'
    BY <1>1, <2>1, <2>2, <2>3 DEF TypeOK
  <2>5. \A q \in Process : /\ q # p => pc'[q] = pc[q] /\ step'[q] = step[q]
                           /\ step'[p] = 1
                           /\ pc'[p] = "creating" \/ (pc'[p] = "reading" /\ "clients" \in schema)
    BY <1>1, <2>2, <2>3
  <2>6. TablesAreWhole'
    BY <2>1 DEF FreshFile, TablesAreWhole
  <2>7. FreshFile'
    BY <2>1, <2>5, <2>6 DEF FreshFile, CurrentSchema
  <2> QED
    BY <2>1, <2>4, <2>7
<1>3. CASE CreateTable(p)
  <2>1. /\ UNCHANGED <<version, pc, read, unverified, legacy>>
        /\ pc[p] = "creating" /\ step[p] \in 1 .. Len(freshSchema)
        /\ step' = [step EXCEPT ![p] = step[p] + 1]
    BY <1>1, <1>3, FreshAre DEF CreateTable
  <2> DEFINE table == freshSchema[step[p]]
  <2>2. /\ schema' = schema \/ schema' = schema \cup table
        /\ (\E x \in table : x \in BaseTables \cap schema) \/ schema' = schema \cup table
    BY <1>3 DEF CreateTable
  <2>3. table \subseteq schema' /\ schema \subseteq schema'
    BY <2>1, <2>2 DEF FreshFile, TablesAreWhole
  <2>4. schema' \subseteq CurrentSchema
    BY <2>1, <2>2, FreshIsCurrent DEF TypeOK
  <2>5. step' \in [Process -> 1 .. Len(freshSchema) + 1]
    BY <1>1, <2>1, FreshAre
  <2>6. TypeOK'
    BY <2>1, <2>4, <2>5 DEF TypeOK
  <2>7. TablesAreWhole'
    <3> SUFFICES ASSUME NEW i \in 1 .. Len(freshSchema),
                        NEW x \in freshSchema[i], x \in BaseTables, x \in schema'
                 PROVE  freshSchema[i] \subseteq schema'
      BY DEF TablesAreWhole
    <3>1. CASE i = step[p]
      BY <2>3, <3>1
    <3>2. CASE i # step[p]
      <4>1. x \notin table
        BY <2>1, <3>2, FreshIsDisjoint
      <4>2. x \in schema
        BY <2>2, <4>1
      <4> QED
        BY <2>3, <4>2 DEF FreshFile, TablesAreWhole
    <3> QED
      BY <3>1, <3>2
  <2>8. ASSUME NEW q \in Process, pc'[q] = "creating"
        PROVE  \A i \in 1 .. step'[q] - 1 : freshSchema[i] \subseteq schema'
    <3>1. CASE q = p
      <4>1. step'[q] = step[p] + 1 /\ step[p] \in Int
        BY <1>1, <2>1, <3>1, FreshAre
      <4>2. \A i \in 1 .. step[p] : i = step[p] \/ i \in 1 .. step[p] - 1
        BY <4>1
      <4>3. \A i \in 1 .. step[p] - 1 : freshSchema[i] \subseteq schema
        BY <2>1 DEF FreshFile
      <4>4. 1 .. step'[q] - 1 = 1 .. step[p]
        BY <4>1
      <4> QED
        BY <2>3, <4>2, <4>3, <4>4
    <3>2. CASE q # p
      <4>1. step'[q] = step[q] /\ pc[q] = "creating"
        BY <1>1, <2>1, <2>8, <3>2
      <4>2. \A i \in 1 .. step[q] - 1 : freshSchema[i] \subseteq schema
        BY <4>1 DEF FreshFile
      <4> QED
        BY <2>3, <4>1, <4>2
    <3> QED
      BY <3>1, <3>2
  <2>9. schema = CurrentSchema => schema' = CurrentSchema
    BY <2>3, <2>4
  <2>10. CurrentSchema' = CurrentSchema
    BY DEF CurrentSchema, SchemaAt, Union
  <2> HIDE DEF table
  <2>11. FreshFile'
    BY <2>1, <2>3, <2>7, <2>8, <2>9, <2>10 DEF FreshFile
  <2> QED
    BY <2>1, <2>6, <2>11
<1>4. CASE SetVersion(p)
  <2>1. /\ UNCHANGED <<schema, step, read, unverified, legacy>>
        /\ version' = currentSchemaVersion /\ pc' = [pc EXCEPT ![p] = "serving"]
        /\ pc[p] = "creating" /\ step[p] > Len(freshSchema)
    BY <1>4 DEF SetVersion, Goto
  <2>2. step[p] - 1 = 6 /\ Len(freshSchema) = 6
    BY <1>1, <2>1, FreshAre
  <2>3. \A i \in 1 .. 6 : freshSchema[i] \subseteq schema
    BY <2>1, <2>2 DEF FreshFile
  <2>4. schema = CurrentSchema
    BY <2>2, <2>3, FreshIsCurrent DEF TypeOK
  <2>5. TypeOK'
    BY <1>0, <1>1, <2>1 DEF TypeOK
  <2>6. TablesAreWhole'
    BY <2>1 DEF FreshFile, TablesAreWhole
  <2>7. \A q \in Process : pc'[q] = pc[q] \/ (q = p /\ pc'[q] = "serving")
    BY <1>1, <2>1
  <2>8. FreshFile'
    BY <2>1, <2>4, <2>6, <2>7 DEF FreshFile, CurrentSchema
  <2> QED
    BY <2>1, <2>5, <2>8
<1>5. CASE ReadVersion(p)
  <2>1. UNCHANGED <<schema, version, step, unverified, legacy>> /\ pc[p] = "reading"
    BY <1>5 DEF ReadVersion
  <2>2. read' = [read EXCEPT ![p] = version]
    BY <1>5 DEF ReadVersion
  <2>3. \/ version = 5 /\ pc' = [pc EXCEPT ![p] = "serving"]
        \/ version = 0 /\ pc' = [pc EXCEPT ![p] = "migrating"]
    <3>1. (version >= currentSchemaVersion <=> version = 5) /\ version \in {0, 5}
      BY <1>0
    <3> QED
      BY <1>5, <3>1 DEF ReadVersion, Goto
  <2>4. TypeOK'
    BY <1>0, <1>1, <2>1, <2>2, <2>3 DEF TypeOK
  <2>5. \A q \in Process : /\ q # p => pc'[q] = pc[q] /\ read'[q] = read[q]
                           /\ \/ version = 5 /\ pc'[p] = "serving"
                              \/ version = 0 /\ pc'[p] = "migrating" /\ read'[p] = 0
    BY <1>1, <2>2, <2>3
  <2>6. TablesAreWhole'
    BY <2>1 DEF FreshFile, TablesAreWhole
  <2>7. FreshFile'
    BY <1>0, <2>1, <2>5, <2>6 DEF FreshFile, CurrentSchema
  <2> QED
    BY <2>1, <2>4, <2>7
<1>6. CASE Migrate(p)
  BY <1>6, FreshIsFinal DEF Migrate, FreshFile
<1>7. CASE MigrateFails(p) \/ Exit(p)
  <2>1. pc' = [pc EXCEPT ![p] = "down"] /\ UNCHANGED <<schema, version, step, read, unverified, legacy>>
    BY <1>7 DEF MigrateFails, Exit, Goto
  <2>2. TablesAreWhole'
    BY <2>1 DEF FreshFile, TablesAreWhole
  <2> QED
    BY <1>1, <2>1, <2>2 DEF TypeOK, FreshFile
<1> QED
  BY <1>2, <1>3, <1>4, <1>5, <1>6, <1>7

LEMMA SchemaInvNext == SchemaInv /\ [Next]_vars => SchemaInv'
<1>1. ASSUME SchemaInv, Next PROVE SchemaInv'
  BY <1>1, LegacyNext, FreshNext DEF Next, SchemaInv
<1>2. ASSUME SchemaInv, UNCHANGED vars PROVE SchemaInv'
  BY <1>2 DEF vars, SchemaInv, TypeOK, LegacyFile, FreshFile, TablesAreWhole
<1> QED
  BY <1>1, <1>2

LEMMA SchemaInvAlways == Spec => []SchemaInv
BY SchemaInvInit, SchemaInvNext, PTL DEF Spec

\* The types of the file and of the servers that open it.
THEOREM SchemaTypeCorrect == Spec => []TypeOK
<1>1. SchemaInv => TypeOK
  BY DEF SchemaInv
<1> QED
  BY <1>1, SchemaInvAlways, PTL

\* However many servers open the file at once, and wherever they die, one that
\* initialize has let through serves from the complete current schema.
THEOREM ServersHaveCurrentSchema == Spec => []ServingHasCurrentSchema
<1>1. SchemaInv => ServingHasCurrentSchema
  BY DEF SchemaInv, LegacyFile, FreshFile, ServingHasCurrentSchema, CurrentSchema
<1> QED
  BY <1>1, SchemaInvAlways, PTL

\* The clients an earlier release has registered are marked as dynamically
\* registered, and so shown as unverified, before any server serves from the file.
THEOREM LegacyClientsAreUnverified == Spec => []LegacyClientsUnverified
<1>1. SchemaInv => LegacyClientsUnverified
  BY DEF SchemaInv, LegacyFile, LegacyClientsUnverified
<1> QED
  BY <1>1, SchemaInvAlways, PTL

\* Upgrading never damages a file: whenever nobody is busy with it, it is current
\* or the missing migrations apply, also after crashes in the middle of migrate.
THEOREM UpgradesKeepOpenable == Spec => []UpgradeKeepsOpenable
<1>1. SchemaInv => UpgradeKeepsOpenable
  <2> SUFFICES ASSUME SchemaInv, legacy PROVE CanOpen
    BY DEF UpgradeKeepsOpenable, Openable
  <2>1. schema = SchemaAt(version) /\ version \in 0 .. currentSchemaVersion
    BY DEF SchemaInv, LegacyFile, TypeOK
  <2>2. CASE version >= currentSchemaVersion
    BY <2>2 DEF CanOpen
  <2>3. CASE ~(version >= currentSchemaVersion)
    <3>1. version \in 0 .. currentSchemaVersion - 1
      BY <2>1, <2>3 DEF currentSchemaVersion
    <3> QED
      BY <2>1, <3>1, MigrationsApply DEF CanOpen, Applicable
  <2> QED
    BY <2>2, <2>3
<1> QED
  BY <1>1, SchemaInvAlways, PTL
=============================================================================
