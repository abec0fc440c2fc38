------------------------ MODULE ClientRegistryProofs ------------------------
(***************************************************************************)
(* Proofs about ClientAssertion and ClientRegistry, for every set of       *)
(* handlers, clients, documents, files and configurations, every skew and  *)
(* every horizon of the clock.                                             *)
(*                                                                         *)
(* The first part is about ClientAssertion alone.  The second shows that   *)
(* the registry is one of its environments, RegistrySpec => Spec, so that  *)
(* the first part holds of it too, and goes on to the clients.             *)
(***************************************************************************)
EXTENDS ClientRegistry, TLAPS

-----------------------------------------------------------------------------
\* Replay of assertions.

\* The clock and the expiry times can be compared.
LEMMA TimesAreNaturals ==
    ASSUME TypeOK
    PROVE  /\ now \in Nat
           /\ \A k \in Key : /\ assertions[k] # NoEntry => assertions[k] \in Nat
                             /\ lastExp[k] # NoEntry => lastExp[k] \in Nat
  <1>1. now \in Nat
    BY ConstantsAssumption DEF TypeOK
  <1>2. \A e \in Exp : e \in Nat
    BY ConstantsAssumption
  <1>3. \A k \in Key : assertions[k] \in Exp \cup {NoEntry} /\ lastExp[k] \in Exp \cup {NoEntry}
    BY DEF TypeOK
  <1>4. QED
    BY <1>1, <1>2, <1>3

\* A purge keeps the type of the replay table and every entry that has not
\* expired.
LEMMA PurgeKeeps ==
    ASSUME TypeOK
    PROVE  /\ Purged \in [Key -> Exp \cup {NoEntry}]
           /\ \A k \in Key : assertions[k] # NoEntry /\ assertions[k] >= now
                             => Purged[k] = assertions[k]
  <1>1. Purged \in [Key -> Exp \cup {NoEntry}]
    BY DEF TypeOK, Purged
  <1>2. ASSUME NEW k \in Key, assertions[k] # NoEntry, assertions[k] >= now
        PROVE  Purged[k] = assertions[k]
    <2>1. ~(assertions[k] < now)
      BY <1>2, TimesAreNaturals
    <2>2. QED
      BY <2>1 DEF Purged
  <1>3. QED
    BY <1>1, <1>2

\* The replay table and the history agree on every assertion that has not
\* expired.
AssertionInv == TypeOK /\ UnexpiredIsRemembered

\* A server starts with an empty replay table.
LEMMA AssertionInvInit == Init => AssertionInv
  BY ConstantsAssumption DEF Init, AssertionInv, TypeOK, UnexpiredIsRemembered

LEMMA KeyOfIsKey == \A a \in Assertion : KeyOf(a) \in Key
  BY DEF Assertion, KeyOf, Key

\* Every step keeps the agreement.
LEMMA AssertionInvStep == AssertionInv /\ [Next]_vars => AssertionInv'
  <1> USE ConstantsAssumption
  <1> SUFFICES ASSUME AssertionInv, [Next]_vars
               PROVE  AssertionInv'
    OBVIOUS
  <1> USE DEF AssertionInv
  <1>1. ASSUME NEW h \in Handler, NEW a \in Assertion, verifyClientAssertion(h, a)
        PROVE  AssertionInv'
    BY <1>1 DEF verifyClientAssertion, TypeOK, UnexpiredIsRemembered
  <1>2. ASSUME NEW h \in Handler, ConsumeClientAssertionJTI(h)
        PROVE  AssertionInv'
    <2> DEFINE a == verified[h]
               k == KeyOf(a)
    <2>1. a \in Assertion /\ k \in Key /\ a.exp \in Exp
      BY <1>2, KeyOfIsKey DEF ConsumeClientAssertionJTI, TypeOK, Assertion
    <2>2. /\ assertions' = [Purged EXCEPT ![k] = a.exp]
          /\ lastExp' = [lastExp EXCEPT ![k] = a.exp]
          /\ accepted' = [accepted EXCEPT ![a] = @ + 1]
          /\ verified' = [verified EXCEPT ![h] = NoEntry]
          /\ accepted[a] < MaxAccepted
          /\ UNCHANGED <<backend, now>>
      BY <1>2 DEF ConsumeClientAssertionJTI
    <2> HIDE DEF a, k
    <2>3. TypeOK'
      BY <2>1, <2>2, PurgeKeeps DEF TypeOK
    <2>4. UnexpiredIsRemembered'
      BY <2>1, <2>2, PurgeKeeps DEF TypeOK, UnexpiredIsRemembered
    <2>5. QED
      BY <2>3, <2>4
  <1>3. ASSUME NEW h \in Handler, RejectReplay(h)
        PROVE  AssertionInv'
    BY <1>3, PurgeKeeps DEF RejectReplay, TypeOK, UnexpiredIsRemembered
  <1>4. ASSUME NEW h \in Handler, StoreFails(h)
        PROVE  AssertionInv'
    BY <1>4 DEF StoreFails, TypeOK, UnexpiredIsRemembered
  <1>5. CASE Tick
    <2>1. TypeOK'
      BY <1>5 DEF Tick, TypeOK
    <2>2. ASSUME NEW k \in Key, lastExp[k] # NoEntry, lastExp[k] >= now + 1
          PROVE  assertions[k] = lastExp[k]
      <3>1. lastExp[k] >= now
        BY <2>2, TimesAreNaturals
      <3>2. QED
        BY <2>2, <3>1 DEF UnexpiredIsRemembered
    <2>3. QED
      BY <1>5, <2>1, <2>2 DEF Tick, UnexpiredIsRemembered
  <1>6. CASE Restart
    BY <1>6 DEF Restart, TypeOK, UnexpiredIsRemembered
  <1>7. CASE UNCHANGED vars
    BY <1>7 DEF vars, TypeOK, UnexpiredIsRemembered
  <1>8. QED
    BY <1>1, <1>2, <1>3, <1>4, <1>5, <1>6, <1>7 DEF Next

\* An assertion that is accepted is not one that the table still remembers.
LEMMA AcceptedAfterExpiry ==
    ASSUME AssertionInv, [Next]_vars, NEW a \in Assertion,
           accepted'[a] > accepted[a], lastExp[KeyOf(a)] # NoEntry
    PROVE  now >= lastExp[KeyOf(a)]
  <1> USE ConstantsAssumption
  <1> USE DEF AssertionInv
  <1>1. accepted[a] \in Nat
    BY DEF TypeOK
  <1>2. PICK h \in Handler : ConsumeClientAssertionJTI(h)
    BY <1>1 DEF Next, vars, verifyClientAssertion, RejectReplay, StoreFails, Tick, Restart
  <1>3. verified[h] = a
    BY <1>1, <1>2 DEF ConsumeClientAssertionJTI, TypeOK
  <1>4. ~Conflicts(KeyOf(a))
    BY <1>2, <1>3 DEF ConsumeClientAssertionJTI
  <1>5. KeyOf(a) \in Key
    BY KeyOfIsKey
  <1>6. now \in Nat /\ lastExp[KeyOf(a)] \in Nat
    BY <1>5, TimesAreNaturals
  <1>7. SUFFICES ASSUME lastExp[KeyOf(a)] > now
                 PROVE  FALSE
    BY <1>6
  <1>8. assertions[KeyOf(a)] = lastExp[KeyOf(a)]
    BY <1>5, <1>6, <1>7 DEF UnexpiredIsRemembered
  <1>9. Purged[KeyOf(a)] = lastExp[KeyOf(a)]
    BY <1>5, <1>6, <1>7, <1>8, PurgeKeeps
  <1>10. QED
    BY <1>4, <1>7, <1>9 DEF Conflicts

\* ClientAssertion: the replay table remembers what has not expired.
THEOREM AssertionsAreRemembered == Spec => [](TypeOK /\ UnexpiredIsRemembered)
  BY AssertionInvInit, AssertionInvStep, PTL DEF Spec, AssertionInv

\* ClientAssertion: no assertion is accepted while an accepted one with its jti
\* has not expired, with either store, across restarts and concurrent handlers.
THEOREM AssertionsAreNotReplayed == Spec => NoReplayBeforeExpiry
  <1>1. AssertionInv /\ [Next]_vars
        => [\A a \in Assertion : accepted'[a] > accepted[a] /\ lastExp[KeyOf(a)] # NoEntry
                                 => now >= lastExp[KeyOf(a)]]_vars
    BY AcceptedAfterExpiry
  <1>2. QED
    BY <1>1, AssertionInvInit, AssertionInvStep, PTL DEF Spec, NoReplayBeforeExpiry

-----------------------------------------------------------------------------
\* The registry.

\* No request is served and no assertion verified unless the server listens,
\* which it does once every startup client is saved; a process that has not
\* started has contacted nobody.
ServesOnceStarted ==
    /\ up # "serving" => \A h \in Handler : job[h] = NoRow /\ verified[h] = NoEntry
    /\ up = "serving" => todo = {}
    /\ up = "down" => contacted = {}

\* The startup clients saved so far have the keys of the file.
SavedKeys ==
    up # "down" => \A c \in DOMAIN applied \ todo : clients[c] # NoRow /\ clients[c].key = applied[c]

\* Which redirects the startup clients have.
RowsOfClients ==
    \A id \in ClientId : clients[id] # NoRow =>
        /\ clients[id].id = id
        /\ id \in Client => clients[id].redirects = {}
        /\ id = LocalClientID => clients[id].redirects = {LocalRedirect}

\* What a client publishes now under its own URL is among what it has published.
PublicationsAreKept ==
    \A u \in Url : document[u] # NoRow /\ document[u].id = u => document[u] \in published

\* The redirect of a code is still one of its client's, or matches a document
\* that its client has published.
RedirectsOfCodes ==
    \A k \in Code : codes[k] # NoRow =>
        IF codes[k].client \in Url
        THEN \E d \in published : d.id = codes[k].client /\ redirectAllowed(d.redirects, codes[k].redirect)
        ELSE clients[codes[k].client] # NoRow /\ codes[k].redirect \in clients[codes[k].client].redirects

\* What a handler knows of the code and the client it is busy with.
JobsAreCurrent ==
    \A h \in Handler : job[h] # NoRow =>
        /\ job[h].pc # "authenticated" => job[h].as \in Url
        /\ job[h].pc = "resolving" => job[h].code = Absent
        /\ job[h].code # Absent =>
             /\ codes[job[h].code] # NoRow /\ codes[job[h].code].status # "pending"
             /\ codes[job[h].code].redirect = job[h].redirect
        /\ job[h].as \in Url /\ Lists(job[h].as, document[job[h].as], job[h].redirect) => job[h].listed
        /\ job[h].pc = "authenticated" =>
             /\ job[h].client # NoRow /\ job[h].client.id = job[h].as
             /\ IF job[h].as \in Url
                THEN redirectAllowed(job[h].client.redirects, job[h].redirect) => job[h].listed
                ELSE job[h].client = clients[job[h].as]

\* An assertion that has been verified is one of a client in the table, and was
\* signed with the key of the file.
SignedKeys ==
    \A h \in Handler : verified[h] # NoEntry =>
        /\ clients[verified[h].client] # NoRow
        /\ verified[h].client \in DOMAIN applied => signed[h] = applied[verified[h].client]

RegistryInv ==
    /\ RegistryTypeOK
    /\ ServesOnceStarted
    /\ SavedKeys
    /\ RowsOfClients
    /\ PublicationsAreKept
    /\ RedirectsOfCodes
    /\ JobsAreCurrent
    /\ SignedKeys
    /\ OnlyDialableIsContacted

\* Each step of the registry is one of ClientAssertion, or leaves its variables
\* alone.
LEMMA RegistryStepIsAssertionStep == [RegistryNext]_registryVars => [Next]_vars
  <1> SUFFICES ASSUME [RegistryNext]_registryVars
               PROVE  [Next]_vars
    OBVIOUS
  <1>1. ASSUME NEW h \in Handler, NEW a \in Assertion, NEW key \in PublicKey,
               authenticateClientAssertion(h, a, key)
        PROVE  Next
    BY <1>1 DEF authenticateClientAssertion, Next
  <1>2. ASSUME NEW h \in Handler, assertionConsumed(h)
        PROVE  Next
    BY <1>2 DEF assertionConsumed, Next
  <1>3. CASE clockTicks
    BY <1>3 DEF clockTicks, Next
  <1>4. CASE exit
    BY <1>4 DEF exit, Next
  <1>5. CASE UNCHANGED registryVars
    BY <1>5 DEF registryVars
  <1>6. QED
    BY <1>1, <1>2, <1>3, <1>4, <1>5
    DEF RegistryNext, main, saveStartupClient, ListenAndServe, EditFile, Publish, Rebind, register,
        authorizeRegistered, completeAuthorization, redirectError, resolveClient, authorizeFetched,
        fetchFails, authenticateRegistered, authenticateURL, authenticateFetched,
        authorizationCodeToken

\* The registry is an environment of ClientAssertion: whatever clients, files
\* and restarts do, its replay table sees a behaviour of Spec.
THEOREM RegistryImplementsAssertions == RegistrySpec => Spec
  <1>1. RegistryInit => Init
    BY DEF RegistryInit
  <1>2. QED
    BY <1>1, RegistryStepIsAssertionStep, PTL DEF RegistrySpec, Spec

\* So no assertion is replayed at the registry either.
THEOREM RegistryAssertionsAreNotReplayed ==
    RegistrySpec => NoReplayBeforeExpiry /\ [](TypeOK /\ UnexpiredIsRemembered)
  BY RegistryImplementsAssertions, AssertionsAreNotReplayed, AssertionsAreRemembered, PTL

\* A server starts with nothing in its store.
LEMMA RegistryInvInit == RegistryInit => RegistryInv
  <1> SUFFICES ASSUME RegistryInit
               PROVE  RegistryInv
    OBVIOUS
  <1>1. TypeOK
    BY AssertionInvInit DEF RegistryInit, AssertionInv
  <1>2. RegistryTypeOK
    BY <1>1 DEF RegistryInit, RegistryTypeOK
  <1>3. verified = [h \in Handler |-> NoEntry]
    BY DEF RegistryInit, Init
  <1>4. QED
    BY <1>2, <1>3
    DEF RegistryInit, RegistryInv, ServesOnceStarted, SavedKeys, RowsOfClients, PublicationsAreKept, RedirectsOfCodes,
        JobsAreCurrent, SignedKeys, OnlyDialableIsContacted

\* Start-up: the process begins with the file of that moment.
LEMMA MainKeeps ==
    ASSUME RegistryInv, NEW c \in Configs, main(c)
    PROVE  RegistryInv'
  <1> USE RegistryAssumption DEF RegistryInv, main, vars, external, store, history
  <1>1. RegistryTypeOK'
    BY DEF RegistryTypeOK, TypeOK, LoadResourceClients
  <1>2. (ServesOnceStarted /\ SavedKeys /\ SignedKeys)'
    BY DEF ServesOnceStarted, SavedKeys, SignedKeys
  <1>3. (RowsOfClients /\ PublicationsAreKept /\ RedirectsOfCodes /\ JobsAreCurrent /\ OnlyDialableIsContacted)'
    BY DEF RowsOfClients, PublicationsAreKept, RedirectsOfCodes, JobsAreCurrent, OnlyDialableIsContacted, ServesOnceStarted
  <1>4. QED
    BY <1>1, <1>2, <1>3

\* Saving a startup client: no handler runs yet, and no code of an earlier run
\* loses its redirect.
LEMMA SaveStartupClientKeeps ==
    ASSUME RegistryInv, NEW id \in Client \cup {LocalClientID}, saveStartupClient(id)
    PROVE  RegistryInv'
  <1> USE DEF RegistryInv
  <1>1. /\ up = "starting" /\ id \in todo /\ todo' = todo \ {id}
        /\ UNCHANGED <<vars, present, config, up, applied, external, codes, job, signed, history>>
    BY DEF saveStartupClient
  <1>2. applied \in Files /\ LoadResourceClients(applied) /\ DOMAIN applied \subseteq Client
    <2>1. applied \in Files /\ LoadResourceClients(applied)
      BY <1>1 DEF RegistryTypeOK
    <2>2. QED
      BY <2>1, RegistryAssumption
  <1>3. LocalClientID \notin Client /\ LocalRedirect \in Redirect
    BY RegistryAssumption
  <1>4. PICK row \in ClientRow :
          /\ clients' = [clients EXCEPT ![id] = row]
          /\ row.id = id
          /\ id \in Client => row.redirects = {}
          /\ id = LocalClientID => row.redirects = {LocalRedirect}
          /\ id \in DOMAIN applied => row.key = applied[id]
    <2>1. id # LocalClientID => applied[id] \in PublicKey
      <3>1. id # LocalClientID => id \in DOMAIN applied
        BY <1>1 DEF RegistryTypeOK
      <3>2. QED
        BY <1>2, <3>1, RegistryAssumption DEF LoadResourceClients
    <2> DEFINE local == id = LocalClientID
               row == [id        |-> id,
                       redirects |-> IF local THEN {LocalRedirect} ELSE {},
                       auth      |-> IF local THEN "none" ELSE "private_key_jwt",
                       secret    |-> Absent,
                       key       |-> IF local THEN Absent ELSE applied[id]]
    <2>2. row \in ClientRow
      BY <1>3, <2>1 DEF ClientRow, ClientId, Secret
    <2>3. clients' = [clients EXCEPT ![id] = row]
      BY DEF saveStartupClient, SaveClient
    <2>4. /\ row.id = id /\ row.redirects = IF local THEN {LocalRedirect} ELSE {}
          /\ id \in DOMAIN applied => row.key = applied[id]
      BY <1>2, <1>3
    <2> HIDE DEF row
    <2>5. QED
      BY <1>3, <2>2, <2>3, <2>4
  <1>5. row # NoRow
    BY RegistryAssumption
  <1>6. clients \in [ClientId -> ClientRow \cup {NoRow}] /\ id \in ClientId
    BY DEF RegistryTypeOK, ClientId
  <1> USE DEF vars, external, history
  <1>7. RegistryTypeOK'
    BY <1>1, <1>4, <1>6 DEF RegistryTypeOK, TypeOK
  <1>8. (ServesOnceStarted /\ SignedKeys)'
    BY <1>1 DEF ServesOnceStarted, SignedKeys
  <1>9. SavedKeys'
    BY <1>1, <1>2, <1>4, <1>5, <1>6 DEF SavedKeys, ClientId
  <1>10. RowsOfClients'
    BY <1>4, <1>6 DEF RowsOfClients
  <1>11. RedirectsOfCodes'
    <2> SUFFICES ASSUME NEW k \in Code, codes[k] # NoRow, codes[k].client \notin Url
                 PROVE  /\ clients'[codes[k].client] # NoRow
                        /\ codes[k].redirect \in clients'[codes[k].client].redirects
      BY <1>1 DEF RedirectsOfCodes
    <2>1. /\ codes[k].client \in ClientId
          /\ clients[codes[k].client] # NoRow
          /\ codes[k].redirect \in clients[codes[k].client].redirects
      BY DEF RedirectsOfCodes, RegistryTypeOK, CodeRow
    <2>2. CASE codes[k].client = id
      BY <1>4, <1>5, <1>6, <2>1, <2>2 DEF RowsOfClients
    <2>3. QED
      BY <1>4, <1>6, <2>1, <2>2
  <1>12. (JobsAreCurrent /\ PublicationsAreKept /\ OnlyDialableIsContacted)'
    BY <1>1 DEF JobsAreCurrent, PublicationsAreKept, ServesOnceStarted, OnlyDialableIsContacted
  <1>13. QED
    BY <1>7, <1>8, <1>9, <1>10, <1>11, <1>12

\* The steps that touch neither the store nor a handler.
LEMMA QuietStepsKeep ==
    ASSUME RegistryInv,
           \/ ListenAndServe
           \/ \E f \in Files : EditFile(f)
           \/ \E n \in Host, answer \in Lookups : Rebind(n, answer)
           \/ clockTicks
           \/ UNCHANGED registryVars
    PROVE  RegistryInv'
  <1> USE DEF RegistryInv
  <1>1. /\ UNCHANGED <<present, config, applied, todo, document, store, job, signed, history, verified>>
        /\ UNCHANGED file \/ file' \in Files
        /\ up' = up \/ (up = "starting" /\ up' = "serving" /\ todo = {})
    BY DEF ListenAndServe, EditFile, Rebind, clockTicks, Tick, vars, process, external, registryVars
  <1>2. TypeOK'
    <2>1. CASE UNCHANGED vars
      BY <2>1 DEF RegistryTypeOK, TypeOK, vars
    <2>2. CASE Tick
      BY <2>2, ConstantsAssumption DEF RegistryTypeOK, TypeOK, Tick
    <2>3. QED
      BY <2>1, <2>2 DEF ListenAndServe, EditFile, Rebind, clockTicks, registryVars
  <1> USE DEF store, history
  <1>3. RegistryTypeOK'
    BY <1>1, <1>2 DEF RegistryTypeOK
  <1>4. (ServesOnceStarted /\ SavedKeys /\ SignedKeys)'
    BY <1>1 DEF ServesOnceStarted, SavedKeys, SignedKeys
  <1>5. (RowsOfClients /\ PublicationsAreKept /\ RedirectsOfCodes /\ JobsAreCurrent /\ OnlyDialableIsContacted)'
    BY <1>1 DEF RowsOfClients, PublicationsAreKept, RedirectsOfCodes, JobsAreCurrent, OnlyDialableIsContacted
  <1>6. QED
    BY <1>3, <1>4, <1>5

\* A process that exits takes its handlers along, and the store with it unless
\* that is the sqlite file.
LEMMA ExitKeeps ==
    ASSUME RegistryInv, exit
    PROVE  RegistryInv'
  <1> USE DEF RegistryInv
  <1>1. TypeOK'
    BY ConstantsAssumption DEF RegistryTypeOK, TypeOK, exit, Restart
  <1>2. /\ up' = "down" /\ applied' = <<>> /\ todo' = {} /\ contacted' = {}
        /\ job' = [h \in Handler |-> NoRow] /\ signed' = [h \in Handler |-> Absent]
        /\ verified' = [h \in Handler |-> NoEntry]
        /\ \/ UNCHANGED <<clients, codes>>
           \/ clients' = [id \in ClientId |-> NoRow] /\ codes' = [k \in Code |-> NoRow]
        /\ UNCHANGED <<present, config, file, document, published, panicked>>
    BY DEF exit, Restart, store, external
  <1>3. RegistryTypeOK'
    BY <1>1, <1>2 DEF RegistryTypeOK
  <1>4. (ServesOnceStarted /\ SavedKeys /\ SignedKeys /\ JobsAreCurrent /\ OnlyDialableIsContacted)'
    BY <1>2 DEF ServesOnceStarted, SavedKeys, SignedKeys, JobsAreCurrent, OnlyDialableIsContacted
  <1>5. (RowsOfClients /\ PublicationsAreKept /\ RedirectsOfCodes)'
    BY <1>2 DEF RowsOfClients, PublicationsAreKept, RedirectsOfCodes
  <1>6. QED
    BY <1>3, <1>4, <1>5

\* A published document is one that the handlers waiting for it may still get.
LEMMA PublishKeeps ==
    ASSUME RegistryInv, NEW u \in Url, NEW d \in Documents, Publish(u, d)
    PROVE  RegistryInv'
  <1> USE DEF RegistryInv
  <1>1. UNCHANGED <<vars, present, process, file, store, signed, contacted, panicked>>
    BY DEF Publish
  <1> USE DEF vars, process, store
  <1>2. /\ document' = [document EXCEPT ![u] = d]
        /\ published \subseteq published' /\ published' \subseteq published \cup {d}
        /\ d.id = u => d \in published'
    BY DEF Publish
  <1>3. /\ job \in [Handler -> Job \cup {NoRow}]
        /\ document \in [Url -> Documents \cup {NoRow}]
    BY DEF RegistryTypeOK
  <1>4. \A h \in Handler :
          /\ job'[h] = NoRow <=> job[h] = NoRow
          /\ job'[h] \in Job \cup {NoRow}
          /\ job[h] # NoRow =>
               /\ job'[h].pc = job[h].pc /\ job'[h].as = job[h].as
               /\ job'[h].redirect = job[h].redirect /\ job'[h].code = job[h].code
               /\ job'[h].client = job[h].client
               /\ job[h].listed => job'[h].listed
               /\ job[h].as = u /\ Lists(u, d, job[h].redirect) => job'[h].listed
    <2> TAKE h \in Handler
    <2>1. job'[h] = IF job[h] = NoRow \/ job[h].as # u THEN job[h]
                    ELSE [job[h] EXCEPT !.listed = @ \/ Lists(u, d, job[h].redirect)]
      BY DEF Publish
    <2>2. Lists(u, d, job[h].redirect) \in BOOLEAN
      BY DEF Lists
    <2>3. NoRow \notin Job
      BY RegistryAssumption
    <2>4. QED
      BY <1>3, <2>1, <2>2, <2>3 DEF Job
  <1>5. RegistryTypeOK'
    <2>1. job' \in [Handler -> Job \cup {NoRow}]
      BY <1>4 DEF Publish
    <2>2. QED
      BY <1>1, <1>2, <2>1 DEF RegistryTypeOK, TypeOK
  <1>6. (ServesOnceStarted /\ SavedKeys /\ SignedKeys)'
    BY <1>1, <1>4 DEF ServesOnceStarted, SavedKeys, SignedKeys
  <1>7. (RowsOfClients /\ OnlyDialableIsContacted)'
    BY <1>1 DEF RowsOfClients, OnlyDialableIsContacted
  <1>8. (PublicationsAreKept /\ RedirectsOfCodes)'
    BY <1>1, <1>2, <1>3 DEF PublicationsAreKept, RedirectsOfCodes
  <1>9. JobsAreCurrent'
    BY <1>1, <1>2, <1>3, <1>4 DEF JobsAreCurrent
  <1>10. QED
    BY <1>5, <1>6, <1>7, <1>8, <1>9

\* POST /register adds a row under a new id.
LEMMA RegisterKeeps ==
    ASSUME RegistryInv, NEW id \in Dynamic, NEW r \in Registrations, register(id, r)
    PROVE  RegistryInv'
  <1> USE DEF RegistryInv
  <1>1. /\ UNCHANGED <<vars, present, process, external, codes, job, signed, history>>
        /\ clients[id] = NoRow
    BY DEF register
  <1> USE DEF vars, process, external, history
  <1>2. PICK row \in ClientRow : row.id = id /\ clients' = [clients EXCEPT ![id] = row]
    <2> DEFINE row == [id        |-> id,
                       redirects |-> r.redirects,
                       auth      |-> IF r.auth = "" THEN "none" ELSE r.auth,
                       secret    |-> IF r.auth \in {"none", ""} THEN Absent ELSE id,
                       key       |-> Absent]
    <2>1. row \in ClientRow
      <3>1. r \in [redirects : SUBSET Redirect,
                   auth : {"", "none", "client_secret_basic", "private_key_jwt"}]
        BY RegistryAssumption
      <3>2. QED
        BY <3>1 DEF ClientRow, ClientId, Secret
    <2>2. QED
      BY <2>1 DEF register, SaveClient
  <1>3. id \in ClientId /\ id \notin Client \cup Url \cup {LocalClientID}
    BY RegistryAssumption DEF ClientId
  <1>4. clients \in [ClientId -> ClientRow \cup {NoRow}]
    BY DEF RegistryTypeOK
  <1>5. row # NoRow
    BY RegistryAssumption
  <1>6. RegistryTypeOK'
    BY <1>1, <1>2, <1>3 DEF RegistryTypeOK, TypeOK
  <1>7. (ServesOnceStarted /\ PublicationsAreKept /\ OnlyDialableIsContacted)'
    BY <1>1 DEF ServesOnceStarted, PublicationsAreKept, OnlyDialableIsContacted
  <1>8. (SavedKeys /\ SignedKeys)'
    BY <1>1, <1>2, <1>3, <1>4 DEF SavedKeys, SignedKeys
  <1>9. RowsOfClients'
    BY <1>1, <1>2, <1>3, <1>4 DEF RowsOfClients
  <1>10. RedirectsOfCodes'
    <2>1. \A k \in Code : codes[k] # NoRow => codes[k].client \in ClientId
      BY DEF RegistryTypeOK, CodeRow
    <2>2. QED
      BY <1>1, <1>2, <1>4, <2>1 DEF RedirectsOfCodes
  <1>11. JobsAreCurrent'
    <2>1. \A h \in Handler : job[h] # NoRow => job[h].as \in ClientId
      BY DEF RegistryTypeOK, Job
    <2>2. QED
      BY <1>1, <1>2, <1>4, <2>1 DEF JobsAreCurrent
  <1>12. QED
    BY <1>6, <1>7, <1>8, <1>9, <1>10, <1>11

\* A request is accepted for a redirect of the row, or of the document, of its
\* client, and gets a code of its own.
LEMMA AcceptRequestKeeps ==
    ASSUME RegistryInv, NEW client \in ClientRow, NEW r \in Redirect,
           acceptRequest(client, r),
           IF client.id \in Url
           THEN \E d \in published : d.id = client.id /\ d.redirects = client.redirects
           ELSE client = clients[client.id],
           UNCHANGED <<clients, published>>
    PROVE  /\ codes' \in [Code -> CodeRow \cup {NoRow}]
           /\ RedirectsOfCodes'
           /\ \A k \in Code : codes[k] # NoRow => codes'[k] = codes[k]
  <1>1. PICK k \in Code :
          /\ codes[k] = NoRow
          /\ codes' = [codes EXCEPT ![k] = [client |-> client.id, redirect |-> r, status |-> "pending"]]
    BY DEF acceptRequest
  <1>2. codes \in [Code -> CodeRow \cup {NoRow}]
    BY DEF RegistryInv, RegistryTypeOK
  <1> DEFINE row == [client |-> client.id, redirect |-> r, status |-> "pending"]
  <1>3. row \in CodeRow
    BY DEF CodeRow, ClientRow
  <1>4. row # NoRow /\ client # NoRow
    BY <1>3, RegistryAssumption
  <1>5. row.client = client.id /\ row.redirect = r
    OBVIOUS
  <1> HIDE DEF row
  <1>6. codes' = [codes EXCEPT ![k] = row]
    BY <1>1 DEF row
  <1>7. IF client.id \in Url
        THEN \E d \in published : d.id = client.id /\ redirectAllowed(d.redirects, r)
        ELSE clients[client.id] # NoRow /\ r \in clients[client.id].redirects
    BY <1>4 DEF acceptRequest, clientRedirectPermitted
  <1>8. RedirectsOfCodes
    BY DEF RegistryInv
  <1>9. RedirectsOfCodes'
    <2> SUFFICES ASSUME NEW c \in Code, codes'[c] # NoRow
                 PROVE  IF codes'[c].client \in Url
                        THEN \E d \in published : d.id = codes'[c].client
                                                  /\ redirectAllowed(d.redirects, codes'[c].redirect)
                        ELSE clients[codes'[c].client] # NoRow
                             /\ codes'[c].redirect \in clients[codes'[c].client].redirects
      BY DEF RedirectsOfCodes
    <2>1. CASE c = k
      <3>1. codes'[c] = row
        BY <1>2, <1>6, <2>1
      <3>2. QED
        BY <3>1, <1>5, <1>7
    <2>2. CASE c # k
      BY <1>2, <1>6, <1>8, <2>2 DEF RedirectsOfCodes
    <2>3. QED
      BY <2>1, <2>2
  <1>10. QED
    BY <1>1, <1>2, <1>3, <1>6, <1>9

\* /authorize for a client of the table.
LEMMA AuthorizeRegisteredKeeps ==
    ASSUME RegistryInv, NEW id \in ClientId, NEW r \in Redirect, authorizeRegistered(id, r)
    PROVE  RegistryInv'
  <1> USE DEF RegistryInv
  <1>1. /\ UNCHANGED <<vars, present, process, external, clients, job, signed, history>>
        /\ id \notin Url /\ clients[id] # NoRow /\ acceptRequest(clients[id], r)
    BY DEF authorizeRegistered
  <1>2. clients[id] \in ClientRow /\ clients[id].id = id
    BY <1>1 DEF RegistryTypeOK, RowsOfClients
  <1>3. /\ codes' \in [Code -> CodeRow \cup {NoRow}]
        /\ RedirectsOfCodes'
        /\ \A k \in Code : codes[k] # NoRow => codes'[k] = codes[k]
    BY <1>1, <1>2, AcceptRequestKeeps DEF history
  <1> USE DEF vars, process, external, history
  <1>4. RegistryTypeOK'
    BY <1>1, <1>3 DEF RegistryTypeOK, TypeOK
  <1>5. (ServesOnceStarted /\ SavedKeys /\ SignedKeys /\ RowsOfClients /\ PublicationsAreKept /\ OnlyDialableIsContacted)'
    BY <1>1 DEF ServesOnceStarted, SavedKeys, SignedKeys, RowsOfClients, PublicationsAreKept, OnlyDialableIsContacted
  <1>6. JobsAreCurrent'
    <2>1. \A h \in Handler : job[h] # NoRow => job[h].code \in Code \cup {Absent}
      BY DEF RegistryTypeOK, Job
    <2>2. QED
      BY <1>1, <1>3, <2>1 DEF JobsAreCurrent
  <1>7. QED
    BY <1>3, <1>4, <1>5, <1>6

\* A pending request is answered: with a code or with an error.
LEMMA AnswerKeeps ==
    ASSUME RegistryInv, NEW k \in Code, completeAuthorization(k) \/ redirectError(k)
    PROVE  RegistryInv'
  <1> USE DEF RegistryInv
  <1>1. /\ UNCHANGED <<vars, present, process, external, clients, job, signed, published, contacted>>
        /\ codes[k] # NoRow /\ codes[k].status = "pending"
    BY DEF completeAuthorization, redirectError
  <1>2. codes \in [Code -> CodeRow \cup {NoRow}]
    BY DEF RegistryTypeOK
  <1>3. \/ codes' = [codes EXCEPT ![k] = NoRow]
        \/ codes' = [codes EXCEPT ![k].status = "fresh"]
    BY DEF completeAuthorization, redirectError
  <1>4. /\ codes' \in [Code -> CodeRow \cup {NoRow}]
        /\ codes'[k] = NoRow \/ (codes'[k].client = codes[k].client
                                 /\ codes'[k].redirect = codes[k].redirect)
        /\ \A c \in Code \ {k} : codes'[c] = codes[c]
    BY <1>1, <1>2, <1>3 DEF CodeRow
  <1>5. panicked' \subseteq Redirect
    BY <1>1, <1>2 DEF completeAuthorization, redirectError, sendBack, RegistryTypeOK, CodeRow
  <1> USE DEF vars, process, external
  <1>6. RegistryTypeOK'
    BY <1>1, <1>4, <1>5 DEF RegistryTypeOK, TypeOK
  <1>7. (ServesOnceStarted /\ SavedKeys /\ SignedKeys /\ RowsOfClients /\ PublicationsAreKept /\ OnlyDialableIsContacted)'
    BY <1>1 DEF ServesOnceStarted, SavedKeys, SignedKeys, RowsOfClients, PublicationsAreKept, OnlyDialableIsContacted
  <1>8. RedirectsOfCodes'
    <2> SUFFICES ASSUME NEW c \in Code, codes'[c] # NoRow
                 PROVE  IF codes'[c].client \in Url
                        THEN \E d \in published : d.id = codes'[c].client
                                                  /\ redirectAllowed(d.redirects, codes'[c].redirect)
                        ELSE clients[codes'[c].client] # NoRow
                             /\ codes'[c].redirect \in clients[codes'[c].client].redirects
      BY <1>1 DEF RedirectsOfCodes
    <2>1. /\ codes[c] # NoRow /\ codes'[c].client = codes[c].client
          /\ codes'[c].redirect = codes[c].redirect
      BY <1>1, <1>4
    <2>2. QED
      BY <2>1 DEF RedirectsOfCodes
  <1>9. JobsAreCurrent'
    <2>1. \A h \in Handler : job[h] # NoRow => job[h].code \in Code \cup {Absent}
      BY DEF RegistryTypeOK, Job
    <2>2. \A h \in Handler : job[h] # NoRow => job[h].code # k
      <3>1. k # Absent
        BY RegistryAssumption
      <3>2. QED
        BY <3>1, <1>1 DEF JobsAreCurrent
    <2>3. QED
      BY <1>1, <1>4, <2>1, <2>2 DEF JobsAreCurrent
  <1>10. QED
    BY <1>6, <1>7, <1>8, <1>9

\* A dial reaches dialable addresses only.
LEMMA DialReaches ==
    ASSUME NEW u \in Url, Dial(u), OnlyDialableIsContacted, UNCHANGED config
    PROVE  OnlyDialableIsContacted'
  BY DEF Dial, publicOnlyDialContext, dialableIP, OnlyDialableIsContacted

\* A handler begins to wait for a document: nothing is known of it yet except
\* whether what is published now lists the redirect.
LEMMA FetchStartsKeeps ==
    ASSUME RegistryInv, NEW h \in Handler, NEW u \in Url, NEW r \in Redirect,
           NEW k \in Code \cup {Absent}, NEW pc \in {"resolving", "authenticating"},
           fetchStarts(h, u, pc, r, k),
           pc = "resolving" => k = Absent,
           k # Absent => codes[k] # NoRow /\ codes[k].status = "fresh" /\ codes[k].redirect = r,
           UNCHANGED <<vars, present, process, external, store, signed, history>>
    PROVE  RegistryInv'
  <1> USE DEF RegistryInv, vars, process, external, store, history
  <1> DEFINE new == [pc |-> pc, as |-> u, redirect |-> r, code |-> k,
                     client |-> NoRow, listed |-> Lists(u, document[u], r)]
  <1>1. up = "serving" /\ job' = [job EXCEPT ![h] = new]
    BY DEF fetchStarts
  <1>2. Lists(u, document[u], r) \in BOOLEAN
    BY DEF Lists
  <1>3. new \in Job /\ new # NoRow
    <2>1. new \in Job
      BY <1>2 DEF Job, ClientId
    <2>2. QED
      BY <2>1, RegistryAssumption
  <1>4. /\ new.pc = pc /\ new.as = u /\ new.redirect = r /\ new.code = k
        /\ new.listed = Lists(u, document[u], r)
    OBVIOUS
  <1> HIDE DEF new
  <1>5. job \in [Handler -> Job \cup {NoRow}]
    BY DEF RegistryTypeOK
  <1>6. RegistryTypeOK'
    BY <1>1, <1>3 DEF RegistryTypeOK, TypeOK
  <1>7. (ServesOnceStarted /\ SavedKeys /\ SignedKeys)'
    BY <1>1 DEF ServesOnceStarted, SavedKeys, SignedKeys
  <1>8. (RowsOfClients /\ PublicationsAreKept /\ RedirectsOfCodes /\ OnlyDialableIsContacted)'
    BY DEF RowsOfClients, PublicationsAreKept, RedirectsOfCodes, OnlyDialableIsContacted
  <1>9. JobsAreCurrent'
    BY <1>1, <1>3, <1>4, <1>5 DEF JobsAreCurrent
  <1>10. QED
    BY <1>6, <1>7, <1>8, <1>9

\* /authorize goes on with the document it has fetched.
LEMMA AuthorizeFetchedKeeps ==
    ASSUME RegistryInv, NEW h \in Handler, authorizeFetched(h)
    PROVE  RegistryInv'
  <1> USE DEF RegistryInv
  <1> DEFINE u == job[h].as
  <1>1. /\ UNCHANGED <<vars, present, process, external, clients, signed, published, panicked>>
        /\ fetchClientMetadata(h, "resolving")
        /\ acceptRequest(clientOf(u), job[h].redirect)
        /\ job' = [job EXCEPT ![h] = NoRow]
    BY DEF authorizeFetched
  <1> USE DEF vars, process, external
  <1>2. job[h] # NoRow /\ u \in Url /\ job[h].redirect \in Redirect
    BY <1>1 DEF fetchClientMetadata, RegistryTypeOK, JobsAreCurrent, Job
  <1>3. document[u] \in Documents /\ document[u].id = u /\ document[u] \in published
    BY <1>1, <1>2 DEF fetchClientMetadata, validDocument, RegistryTypeOK, PublicationsAreKept
  <1>4. clientOf(u) \in ClientRow /\ clientOf(u).id = u /\ clientOf(u).redirects = document[u].redirects
    BY <1>2, <1>3, RegistryAssumption DEF clientOf, ClientRow, ClientId, Secret
  <1>5. /\ codes' \in [Code -> CodeRow \cup {NoRow}]
        /\ RedirectsOfCodes'
        /\ \A k \in Code : codes[k] # NoRow => codes'[k] = codes[k]
    <2> HIDE DEF u
    <2>1. QED
      BY <1>1, <1>2, <1>3, <1>4, AcceptRequestKeeps
  <1>6. OnlyDialableIsContacted'
    BY <1>1, <1>2, DialReaches DEF fetchClientMetadata
  <1>7. RegistryTypeOK'
    <2>1. contacted' \subseteq Address
      BY <1>6 DEF OnlyDialableIsContacted, Address
    <2>2. QED
      BY <1>1, <1>5, <2>1 DEF RegistryTypeOK, TypeOK
  <1>8. up = "serving"
    BY <1>2 DEF ServesOnceStarted
  <1>9. (ServesOnceStarted /\ SavedKeys /\ SignedKeys /\ RowsOfClients /\ PublicationsAreKept)'
    BY <1>1, <1>8 DEF ServesOnceStarted, SavedKeys, SignedKeys, RowsOfClients, PublicationsAreKept
  <1>10. JobsAreCurrent'
    <2>1. \A i \in Handler : job[i] # NoRow => job[i].code \in Code \cup {Absent}
      BY DEF RegistryTypeOK, Job
    <2>2. job \in [Handler -> Job \cup {NoRow}]
      BY DEF RegistryTypeOK
    <2>3. QED
      BY <1>1, <1>5, <2>1, <2>2 DEF JobsAreCurrent
  <1>11. QED
    BY <1>5, <1>6, <1>7, <1>9, <1>10

\* A fetch that fails has contacted nobody, or dialable addresses.
LEMMA FetchFailsKeeps ==
    ASSUME RegistryInv, NEW h \in Handler, fetchFails(h)
    PROVE  RegistryInv'
  <1> USE DEF RegistryInv
  <1>1. /\ UNCHANGED <<vars, present, process, external, store, signed, published, panicked>>
        /\ job[h] # NoRow /\ job[h].pc \in {"resolving", "authenticating"}
        /\ Dial(job[h].as) \/ UNCHANGED contacted
        /\ job' = [job EXCEPT ![h] = NoRow]
    BY DEF fetchFails
  <1> USE DEF vars, process, external, store
  <1>2. job[h].as \in Url /\ up = "serving"
    BY <1>1 DEF JobsAreCurrent, ServesOnceStarted
  <1>3. OnlyDialableIsContacted'
    <2>1. CASE Dial(job[h].as)
      BY <1>1, <1>2, <2>1, DialReaches
    <2>2. CASE UNCHANGED contacted
      BY <1>1, <2>2 DEF OnlyDialableIsContacted
    <2>3. QED
      BY <1>1, <2>1, <2>2
  <1>4. RegistryTypeOK'
    <2>1. contacted' \subseteq Address
      BY <1>3 DEF OnlyDialableIsContacted, Address
    <2>2. QED
      BY <1>1, <2>1 DEF RegistryTypeOK, TypeOK
  <1>5. (ServesOnceStarted /\ SavedKeys /\ SignedKeys /\ RowsOfClients /\ PublicationsAreKept /\ RedirectsOfCodes)'
    BY <1>1, <1>2 DEF ServesOnceStarted, SavedKeys, SignedKeys, RowsOfClients, PublicationsAreKept, RedirectsOfCodes
  <1>6. JobsAreCurrent'
    <2>1. job \in [Handler -> Job \cup {NoRow}]
      BY DEF RegistryTypeOK
    <2>2. QED
      BY <1>1, <2>1 DEF JobsAreCurrent
  <1>7. QED
    BY <1>3, <1>4, <1>5, <1>6

\* /token has authenticated a client of the table.
LEMMA AuthenticateRegisteredKeeps ==
    ASSUME RegistryInv, NEW h \in Handler, NEW id \in ClientId, NEW s \in Secret, NEW k \in Code,
           authenticateRegistered(h, id, s, k)
    PROVE  RegistryInv'
  <1> USE DEF RegistryInv
  <1> DEFINE new == [pc |-> "authenticated", as |-> id, redirect |-> codes[k].redirect,
                     code |-> k, client |-> clients[id], listed |-> FALSE]
  <1>1. /\ UNCHANGED <<vars, present, process, external, store, signed, history>>
        /\ up = "serving" /\ job' = [job EXCEPT ![h] = new]
        /\ codes[k] # NoRow /\ codes[k].status = "fresh"
        /\ id \notin Url /\ clients[id] # NoRow
    BY DEF authenticateRegistered, redeems
  <1> USE DEF vars, process, external, store, history
  <1>2. clients[id] \in ClientRow /\ clients[id].id = id /\ codes[k].redirect \in Redirect
    BY <1>1 DEF RegistryTypeOK, RowsOfClients, CodeRow
  <1>3. new \in Job
    BY <1>2 DEF Job
  <1>4. /\ new.pc = "authenticated" /\ new.as = id /\ new.redirect = codes[k].redirect
        /\ new.code = k /\ new.client = clients[id]
    OBVIOUS
  <1> HIDE DEF new
  <1>5. job \in [Handler -> Job \cup {NoRow}]
    BY DEF RegistryTypeOK
  <1>6. RegistryTypeOK'
    BY <1>1, <1>3 DEF RegistryTypeOK, TypeOK
  <1>7. (ServesOnceStarted /\ SavedKeys /\ SignedKeys)'
    BY <1>1 DEF ServesOnceStarted, SavedKeys, SignedKeys
  <1>8. (RowsOfClients /\ PublicationsAreKept /\ RedirectsOfCodes /\ OnlyDialableIsContacted)'
    BY <1>1 DEF RowsOfClients, PublicationsAreKept, RedirectsOfCodes, OnlyDialableIsContacted
  <1>9. JobsAreCurrent'
    BY <1>1, <1>2, <1>4, <1>5 DEF JobsAreCurrent
  <1>10. QED
    BY <1>6, <1>7, <1>8, <1>9

\* /token has authenticated a client known by URL, with the document of now.
LEMMA AuthenticateFetchedKeeps ==
    ASSUME RegistryInv, NEW h \in Handler, authenticateFetched(h)
    PROVE  RegistryInv'
  <1> USE DEF RegistryInv
  <1> DEFINE u == job[h].as
             new == [job[h] EXCEPT !.pc = "authenticated", !.client = clientOf(u)]
  <1>1. /\ UNCHANGED <<vars, present, process, external, store, signed, published, panicked>>
        /\ fetchClientMetadata(h, "authenticating")
    BY DEF authenticateFetched
  <1> USE DEF vars, process, external, store
  <1>2. job[h] # NoRow /\ u \in Url /\ job[h] \in Job /\ up = "serving"
    BY <1>1 DEF fetchClientMetadata, RegistryTypeOK, JobsAreCurrent, ServesOnceStarted
  <1>3. document[u] \in Documents /\ document[u].id = u /\ document[u] # NoRow
    BY <1>1, <1>2 DEF fetchClientMetadata, validDocument, RegistryTypeOK
  <1>4. clientOf(u) \in ClientRow /\ clientOf(u).id = u /\ clientOf(u).redirects = document[u].redirects
    BY <1>2, <1>3, RegistryAssumption DEF clientOf, ClientRow, ClientId, Secret
  <1>5. job \in [Handler -> Job \cup {NoRow}]
    BY DEF RegistryTypeOK
  <1>6. job' = [job EXCEPT ![h] = new]
    BY <1>5 DEF authenticateFetched
  <1>7. /\ new \in Job /\ new.pc = "authenticated" /\ new.as = u /\ new.redirect = job[h].redirect
        /\ new.code = job[h].code /\ new.client = clientOf(u) /\ new.listed = job[h].listed
    BY <1>2, <1>4 DEF Job
  <1>8. redirectAllowed(clientOf(u).redirects, job[h].redirect) => job[h].listed
    BY <1>2, <1>3, <1>4 DEF JobsAreCurrent, Lists
  <1>9. clientOf(u) # NoRow
    BY <1>4, RegistryAssumption
  <1>10. OnlyDialableIsContacted'
    BY <1>1, <1>2, DialReaches DEF fetchClientMetadata
  <1> HIDE DEF new
  <1>11. RegistryTypeOK'
    <2>1. contacted' \subseteq Address
      BY <1>10 DEF OnlyDialableIsContacted, Address
    <2>2. QED
      BY <1>1, <1>6, <1>7, <2>1 DEF RegistryTypeOK, TypeOK
  <1>12. (ServesOnceStarted /\ SavedKeys /\ SignedKeys)'
    BY <1>1, <1>2 DEF ServesOnceStarted, SavedKeys, SignedKeys
  <1>13. (RowsOfClients /\ PublicationsAreKept /\ RedirectsOfCodes)'
    BY <1>1 DEF RowsOfClients, PublicationsAreKept, RedirectsOfCodes
  <1>14. JobsAreCurrent'
    <2>1. job'[h] = new /\ \A i \in Handler \ {h} : job'[i] = job[i]
      BY <1>5, <1>6
    <2>2. /\ new.code # Absent =>
               /\ codes[new.code] # NoRow /\ codes[new.code].status # "pending"
               /\ codes[new.code].redirect = new.redirect
          /\ Lists(u, document[u], new.redirect) => new.listed
      BY <1>2, <1>7 DEF JobsAreCurrent
    <2> HIDE DEF u
    <2>3. QED
      BY <1>1, <1>2, <1>4, <1>7, <1>8, <1>9, <2>1, <2>2 DEF JobsAreCurrent
  <1>15. QED
    BY <1>10, <1>11, <1>12, <1>13, <1>14

\* The code is spent; it keeps its client and its redirect.
LEMMA AuthorizationCodeTokenKeeps ==
    ASSUME RegistryInv, NEW h \in Handler, NEW form \in Form, authorizationCodeToken(h, form)
    PROVE  RegistryInv'
  <1> USE DEF RegistryInv
  <1> DEFINE k == job[h].code
  <1>1. /\ UNCHANGED <<vars, present, process, external, clients, signed, history>>
        /\ job[h] # NoRow /\ job' = [job EXCEPT ![h] = NoRow]
    BY DEF authorizationCodeToken
  <1>2. codes' = codes \/ (codes[k] # NoRow /\ \E st \in {"issued", "burned"} :
                             codes' = [codes EXCEPT ![k].status = st])
    BY DEF authorizationCodeToken
  <1>3. codes \in [Code -> CodeRow \cup {NoRow}] /\ job \in [Handler -> Job \cup {NoRow}]
    BY DEF RegistryTypeOK
  <1>4. NoRow \notin CodeRow
    BY RegistryAssumption
  <1>5. /\ codes' \in [Code -> CodeRow \cup {NoRow}]
        /\ \A c \in Code : /\ codes'[c] = NoRow <=> codes[c] = NoRow
                           /\ codes[c] # NoRow =>
                                /\ codes'[c].client = codes[c].client
                                /\ codes'[c].redirect = codes[c].redirect
                                /\ codes[c].status # "pending" => codes'[c].status # "pending"
    <2>1. CASE codes' = codes
      BY <1>3, <2>1
    <2>2. ASSUME codes[k] # NoRow, NEW st \in {"issued", "burned"},
                 codes' = [codes EXCEPT ![k].status = st]
          PROVE  <1>5
      <3> DEFINE row == [codes[k] EXCEPT !.status = st]
      <3>1. CASE k \in Code
        <4>1. /\ row \in CodeRow /\ row.client = codes[k].client /\ row.redirect = codes[k].redirect
              /\ row.status = st
          BY <1>3, <2>2, <3>1 DEF CodeRow
        <4> HIDE DEF row
        <4>2. codes' = [codes EXCEPT ![k] = row]
          BY <1>3, <2>2, <3>1 DEF row
        <4>3. QED
          BY <1>3, <1>4, <2>2, <4>1, <4>2
      <3>2. CASE k \notin Code
        <4>1. codes' = codes
          BY <1>3, <2>2, <3>2
        <4>2. QED
          BY <1>3, <4>1
      <3>3. QED
        BY <3>1, <3>2
    <2>3. QED
      BY <1>2, <2>1, <2>2
  <1> USE DEF vars, process, external, history
  <1>6. up = "serving"
    BY <1>1 DEF ServesOnceStarted
  <1>7. RegistryTypeOK'
    BY <1>1, <1>5 DEF RegistryTypeOK, TypeOK
  <1>8. (ServesOnceStarted /\ SavedKeys /\ SignedKeys /\ RowsOfClients /\ PublicationsAreKept /\ OnlyDialableIsContacted)'
    BY <1>1, <1>6 DEF ServesOnceStarted, SavedKeys, SignedKeys, RowsOfClients, PublicationsAreKept, OnlyDialableIsContacted
  <1>9. RedirectsOfCodes'
    BY <1>1, <1>5 DEF RedirectsOfCodes
  <1>10. JobsAreCurrent'
    <2>1. \A i \in Handler : job[i] # NoRow => job[i].code \in Code \cup {Absent}
      BY DEF RegistryTypeOK, Job
    <2>2. QED
      BY <1>1, <1>3, <1>5, <2>1 DEF JobsAreCurrent
  <1>11. QED
    BY <1>7, <1>8, <1>9, <1>10

\* A verified assertion was signed with the key that is in the table.
LEMMA AuthenticateClientAssertionKeeps ==
    ASSUME RegistryInv, NEW h \in Handler, NEW a \in Assertion, NEW key \in PublicKey,
           authenticateClientAssertion(h, a, key)
    PROVE  RegistryInv'
  <1> USE DEF RegistryInv
  <1>1. /\ UNCHANGED <<present, process, external, store, job, history>>
        /\ UNCHANGED <<backend, assertions, now, accepted, lastExp>>
        /\ up = "serving" /\ clients[a.client] # NoRow /\ key = clients[a.client].key
        /\ verified' = [verified EXCEPT ![h] = a] /\ signed' = [signed EXCEPT ![h] = key]
    BY DEF authenticateClientAssertion, verifyClientAssertion
  <1> USE DEF process, external, store, history
  <1>2. /\ verified \in [Handler -> Assertion \cup {NoEntry}]
        /\ signed \in [Handler -> PublicKey \cup {Absent}]
    BY DEF RegistryTypeOK, TypeOK
  <1>3. RegistryTypeOK'
    BY <1>1 DEF RegistryTypeOK, TypeOK
  <1>4. (ServesOnceStarted /\ SavedKeys)'
    BY <1>1 DEF ServesOnceStarted, SavedKeys
  <1>5. (RowsOfClients /\ PublicationsAreKept /\ RedirectsOfCodes /\ JobsAreCurrent /\ OnlyDialableIsContacted)'
    BY <1>1 DEF RowsOfClients, PublicationsAreKept, RedirectsOfCodes, JobsAreCurrent, OnlyDialableIsContacted
  <1>6. SignedKeys'
    <2>1. a.client \in DOMAIN applied => key = applied[a.client]
      BY <1>1 DEF ServesOnceStarted, SavedKeys
    <2>2. QED
      BY <1>1, <1>2, <2>1 DEF SignedKeys
  <1>7. QED
    BY <1>3, <1>4, <1>5, <1>6

\* The handler has its answer from the replay table and, if the client came with
\* a code, is about to redeem it.
LEMMA AssertionConsumedKeeps ==
    ASSUME RegistryInv, NEW h \in Handler, assertionConsumed(h)
    PROVE  RegistryInv'
  <1> USE DEF RegistryInv
  <1> DEFINE c == verified[h].client
  <1>1. /\ UNCHANGED <<present, process, external, store, history>>
        /\ verified[h] # NoEntry
        /\ verified' = [verified EXCEPT ![h] = NoEntry] /\ signed' = [signed EXCEPT ![h] = Absent]
        /\ UNCHANGED job \/ \E k \in Code : redeems(h, c, k)
    BY DEF assertionConsumed, ConsumeClientAssertionJTI, RejectReplay, StoreFails
  <1> USE DEF process, external, store, history
  <1>2. /\ verified \in [Handler -> Assertion \cup {NoEntry}]
        /\ signed \in [Handler -> PublicKey \cup {Absent}]
        /\ job \in [Handler -> Job \cup {NoRow}]
    BY DEF RegistryTypeOK, TypeOK
  <1>3. TypeOK'
    <2>1. TypeOK
      BY DEF RegistryTypeOK
    <2> DEFINE a == verified[h]
               key == KeyOf(a)
    <2>2. a \in Assertion /\ key \in Key /\ a.exp \in Exp
      BY <1>1, <1>2, KeyOfIsKey DEF Assertion
    <2>3. CASE ConsumeClientAssertionJTI(h)
      <3>1. /\ assertions' = [Purged EXCEPT ![key] = a.exp]
            /\ lastExp' = [lastExp EXCEPT ![key] = a.exp]
            /\ accepted' = [accepted EXCEPT ![a] = @ + 1]
            /\ accepted[a] < MaxAccepted
            /\ UNCHANGED <<backend, now>>
        BY <2>3 DEF ConsumeClientAssertionJTI
      <3> HIDE DEF a, key
      <3>2. QED
        BY <1>1, <2>1, <2>2, <3>1, PurgeKeeps, ConstantsAssumption DEF TypeOK
    <2>4. CASE RejectReplay(h) \/ StoreFails(h)
      BY <1>1, <2>1, <2>4, PurgeKeeps DEF RejectReplay, StoreFails, TypeOK
    <2>5. QED
      BY <2>3, <2>4 DEF assertionConsumed
  <1>4. up = "serving"
    BY <1>1 DEF ServesOnceStarted
  <1>5. job' \in [Handler -> Job \cup {NoRow}] /\ JobsAreCurrent'
    <2>1. CASE UNCHANGED job
      BY <1>1, <1>2, <2>1 DEF JobsAreCurrent
    <2>2. ASSUME NEW k \in Code, redeems(h, c, k)
          PROVE  <1>5
      <3> DEFINE new == [pc |-> "authenticated", as |-> c, redirect |-> codes[k].redirect,
                         code |-> k, client |-> clients[c], listed |-> FALSE]
      <3>1. job' = [job EXCEPT ![h] = new] /\ codes[k] # NoRow /\ codes[k].status = "fresh"
        BY <2>2 DEF redeems
      <3>2. c \in Client /\ c \in ClientId /\ c \notin Url
        BY <1>1, <1>2, RegistryAssumption DEF Assertion, ClientId
      <3>3. clients[c] # NoRow
        BY <1>1 DEF SignedKeys
      <3> HIDE DEF c
      <3>4. clients[c] \in ClientRow /\ clients[c].id = c /\ codes[k].redirect \in Redirect
        BY <3>1, <3>2, <3>3 DEF RegistryTypeOK, RowsOfClients, CodeRow
      <3>5. new \in Job
        BY <3>2, <3>4 DEF Job
      <3>6. /\ new.pc = "authenticated" /\ new.as = c /\ new.redirect = codes[k].redirect
            /\ new.code = k /\ new.client = clients[c]
        OBVIOUS
      <3> HIDE DEF new
      <3>7. QED
        BY <1>1, <1>2, <3>1, <3>2, <3>3, <3>4, <3>5, <3>6 DEF JobsAreCurrent
    <2>3. QED
      BY <1>1, <2>1, <2>2
  <1>6. RegistryTypeOK'
    BY <1>1, <1>3, <1>5 DEF RegistryTypeOK
  <1>7. (ServesOnceStarted /\ SavedKeys)'
    BY <1>1, <1>4 DEF ServesOnceStarted, SavedKeys
  <1>8. (RowsOfClients /\ PublicationsAreKept /\ RedirectsOfCodes /\ OnlyDialableIsContacted)'
    BY <1>1 DEF RowsOfClients, PublicationsAreKept, RedirectsOfCodes, OnlyDialableIsContacted
  <1>9. SignedKeys'
    BY <1>1, <1>2 DEF SignedKeys
  <1>10. QED
    BY <1>5, <1>6, <1>7, <1>8, <1>9

\* The invariant is inductive.
LEMMA RegistryInvStep == RegistryInv /\ [RegistryNext]_registryVars => RegistryInv'
  <1> SUFFICES ASSUME RegistryInv, [RegistryNext]_registryVars
               PROVE  RegistryInv'
    OBVIOUS
  <1>1. ASSUME NEW h \in Handler, NEW u \in Url, NEW r \in Redirect, resolveClient(h, u, r)
        PROVE  RegistryInv'
    BY <1>1, FetchStartsKeeps DEF resolveClient
  <1>2. ASSUME NEW h \in Handler, NEW u \in Url, NEW k \in Code, authenticateURL(h, u, k)
        PROVE  RegistryInv'
    <2>1. codes[k].redirect \in Redirect
      BY <1>2 DEF authenticateURL, RegistryInv, RegistryTypeOK, CodeRow
    <2>2. QED
      BY <1>2, <2>1, FetchStartsKeeps DEF authenticateURL
  <1>3. CASE \E h \in Handler :
               \/ authorizeFetched(h)
               \/ fetchFails(h)
               \/ \E id \in ClientId, s \in Secret, k \in Code : authenticateRegistered(h, id, s, k)
               \/ authenticateFetched(h)
               \/ \E form \in Form : authorizationCodeToken(h, form)
    BY <1>3, AuthenticateRegisteredKeeps, AuthorizeFetchedKeeps, FetchFailsKeeps,
       AuthenticateFetchedKeeps, AuthorizationCodeTokenKeeps
  <1>4. CASE \E h \in Handler :
               \/ \E a \in Assertion, key \in PublicKey : authenticateClientAssertion(h, a, key)
               \/ assertionConsumed(h)
    BY <1>4, AuthenticateClientAssertionKeeps, AssertionConsumedKeeps
  <1>5. CASE \/ \E c \in Configs : main(c)
             \/ \E id \in Client \cup {LocalClientID} : saveStartupClient(id)
             \/ exit
             \/ \E u \in Url, d \in Documents : Publish(u, d)
    BY <1>5, MainKeeps, SaveStartupClientKeeps, ExitKeeps, PublishKeeps
  <1>6. CASE \/ \E id \in Dynamic, r \in Registrations : register(id, r)
             \/ \E id \in ClientId, r \in Redirect : authorizeRegistered(id, r)
             \/ \E k \in Code : completeAuthorization(k) \/ redirectError(k)
    BY <1>6, RegisterKeeps, AuthorizeRegisteredKeeps, AnswerKeeps
  <1>7. CASE \/ ListenAndServe
             \/ \E f \in Files : EditFile(f)
             \/ \E n \in Host, answer \in Lookups : Rebind(n, answer)
             \/ clockTicks
             \/ UNCHANGED registryVars
    BY <1>7, QuietStepsKeep
  <1>8. QED
    BY <1>1, <1>2, <1>3, <1>4, <1>5, <1>6, <1>7, Zenon DEF RegistryNext

LEMMA RegistryInvHolds == RegistrySpec => []RegistryInv
  BY RegistryInvInit, RegistryInvStep, PTL DEF RegistrySpec

\* Everything the registry keeps has its type, in every reachable state.
THEOREM RegistryTypeCorrect == RegistrySpec => []RegistryTypeOK
  <1>1. RegistryInv => RegistryTypeOK
    BY DEF RegistryInv
  <1>2. QED
    BY <1>1, RegistryInvHolds, PTL

\* No document fetch reaches a private address, however names are rebound.
THEOREM FetchesStayPublic == RegistrySpec => []OnlyDialableIsContacted
  <1>1. RegistryInv => OnlyDialableIsContacted
    BY DEF RegistryInv
  <1>2. QED
    BY <1>1, RegistryInvHolds, PTL

\* What redirectMatches lets pass has the scheme and the host of the entry.
LEMMA MatchKeepsHost ==
    ASSUME NEW allowlist, NEW u, redirectAllowed(allowlist, u)
    PROVE  \E r \in allowlist : r.scheme = u.scheme /\ r.host = u.host
  BY DEF redirectAllowed, redirectMatches

\* A code is sent to a host of its client, whatever is published, registered or
\* saved again at a restart meanwhile.
THEOREM CodesStayOnListedHosts == RegistrySpec => []CodeStaysOnListedHost
  <1>1. ASSUME RegistryInv, NEW k \in Code, codes[k] # NoRow
        PROVE  LET own == IF codes[k].client \in Url
                          THEN UNION {d.redirects : d \in {e \in published : e.id = codes[k].client}}
                          ELSE clients[codes[k].client].redirects
               IN  \E r \in own : r.scheme = codes[k].redirect.scheme /\ r.host = codes[k].redirect.host
    <2>1. CASE codes[k].client \in Url
      <3>1. PICK d \in published : d.id = codes[k].client /\ redirectAllowed(d.redirects, codes[k].redirect)
        BY <1>1, <2>1 DEF RegistryInv, RedirectsOfCodes
      <3>2. \E r \in d.redirects : r.scheme = codes[k].redirect.scheme /\ r.host = codes[k].redirect.host
        BY <3>1, MatchKeepsHost
      <3>3. QED
        BY <2>1, <3>1, <3>2
    <2>2. CASE codes[k].client \notin Url
      BY <1>1, <2>2 DEF RegistryInv, RedirectsOfCodes
    <2>3. QED
      BY <2>1, <2>2
  <1>2. RegistryInv => CodeStaysOnListedHost
    BY <1>1 DEF CodeStaysOnListedHost
  <1>3. QED
    BY <1>2, RegistryInvHolds, PTL

\* Only authorizationCodeToken issues tokens for a fresh code.
LEMMA OnlyTokenIssues ==
    ASSUME RegistryInv, [RegistryNext]_registryVars, NEW k \in Code,
           codes[k] # NoRow, codes[k].status = "fresh",
           codes'[k] # NoRow, codes'[k].status = "issued"
    PROVE  \E h \in Handler, form \in Form : authorizationCodeToken(h, form)
  <1>1. codes \in [Code -> CodeRow \cup {NoRow}]
    BY DEF RegistryInv, RegistryTypeOK
  <1>2. codes' # codes
    OBVIOUS
  <1>3. ~exit
    BY <1>1 DEF exit, store
  <1>4. \A client, r : ~acceptRequest(client, r)
    <2> SUFFICES ASSUME NEW client, NEW r, acceptRequest(client, r)
                 PROVE  FALSE
      OBVIOUS
    <2>1. PICK c \in Code :
            /\ codes[c] = NoRow
            /\ codes' = [codes EXCEPT ![c] = [client |-> client.id, redirect |-> r, status |-> "pending"]]
      BY DEF acceptRequest
    <2>2. QED
      BY <1>1, <2>1
  <1>5. ASSUME NEW c \in Code, completeAuthorization(c) \/ redirectError(c)
        PROVE  FALSE
    <2>1. CASE completeAuthorization(c)
      <3>1. codes[c].status = "pending" /\ codes' = [codes EXCEPT ![c].status = "fresh"]
        BY <2>1 DEF completeAuthorization
      <3>2. QED
        BY <1>1, <3>1
    <2>2. CASE redirectError(c)
      <3>1. codes[c].status = "pending" /\ codes' = [codes EXCEPT ![c] = NoRow]
        BY <2>2 DEF redirectError
      <3>2. QED
        BY <1>1, <3>1
    <2>3. QED
      BY <1>5, <2>1, <2>2
  <1>6. QED
    BY <1>2, <1>3, <1>4, <1>5
    DEF RegistryNext, registryVars, main, saveStartupClient, ListenAndServe, EditFile, Publish, Rebind,
        register, authorizeRegistered, clockTicks, resolveClient, authorizeFetched, fetchFails,
        authenticateRegistered, authenticateURL, authenticateFetched, authenticateClientAssertion,
        assertionConsumed, store

\* What an authenticated handler holds lets its client use the redirect now.
LEMMA PermittedNow ==
    ASSUME RegistryInv, NEW h \in Handler, job[h] # NoRow, job[h].pc = "authenticated",
           job[h].code # Absent,
           clientRedirectPermitted(job[h].client, codes[job[h].code].redirect)
    PROVE  IF job[h].as \in Url
           THEN /\ job[h].listed
                /\ config.allow = {} \/ redirectAllowed(config.allow, codes[job[h].code].redirect)
           ELSE codes[job[h].code].redirect \in clients[job[h].as].redirects
  <1>1. /\ job[h].client.id = job[h].as /\ codes[job[h].code].redirect = job[h].redirect
        /\ IF job[h].as \in Url
           THEN redirectAllowed(job[h].client.redirects, job[h].redirect) => job[h].listed
           ELSE job[h].client = clients[job[h].as]
    BY DEF RegistryInv, JobsAreCurrent
  <1>2. QED
    BY <1>1 DEF clientRedirectPermitted

\* Tokens are issued for a code whose redirect its client may use at that moment
\* or, for a client known by URL when the request authenticates as another, has
\* published at some time; the client that authenticated may use it then.
THEOREM RedemptionIsCurrent == RegistrySpec => RedeemedRedirectIsCurrent
  <1> DEFINE Permitted(h, id) ==
               IF id \in Url
               THEN /\ job[h].listed
                    /\ config.allow = {} \/ redirectAllowed(config.allow, codes[job[h].code].redirect)
               ELSE codes[job[h].code].redirect \in clients[id].redirects
             Current(h) ==
               LET k   == job[h].code
                   own == codes[k].client
               IN  /\ IF own \in Url /\ job[h].as # own
                      THEN \E d \in published : Lists(own, d, codes[k].redirect)
                      ELSE Permitted(h, own)
                   /\ job[h].as # own => Permitted(h, job[h].as)
  <1>1. ASSUME RegistryInv, [RegistryNext]_registryVars, NEW h \in Handler,
               job[h] # NoRow, job'[h] = NoRow, job[h].code # Absent,
               codes[job[h].code] # NoRow, codes[job[h].code].status = "fresh",
               codes'[job[h].code] # NoRow, codes'[job[h].code].status = "issued"
        PROVE  Current(h)
    <2> DEFINE k == job[h].code
               own == codes[k].client
    <2>1. k \in Code /\ codes \in [Code -> CodeRow \cup {NoRow}]
      BY <1>1 DEF RegistryInv, RegistryTypeOK, Job
    <2>2. PICK i \in Handler, form \in Form : authorizationCodeToken(i, form)
      BY <1>1, <2>1, OnlyTokenIssues
    <2>3. i = h
      <3>1. job' = [job EXCEPT ![i] = NoRow]
        BY <2>2 DEF authorizationCodeToken
      <3>2. job \in [Handler -> Job \cup {NoRow}]
        BY <1>1 DEF RegistryInv, RegistryTypeOK
      <3>3. QED
        BY <1>1, <3>1, <3>2
    <2>4. job[h].pc = "authenticated"
      BY <2>2, <2>3 DEF authorizationCodeToken
    <2>5. clientRedirectPermitted(job[h].client, codes[k].redirect)
      <3>1. \E ok \in BOOLEAN :
              /\ codes' = [codes EXCEPT ![k].status = IF ok THEN "issued" ELSE "burned"]
              /\ ok => clientRedirectPermitted(job[h].client, codes[k].redirect)
        BY <1>1, <2>2, <2>3 DEF authorizationCodeToken, Form
      <3>2. codes'[k] = [codes[k] EXCEPT !.status = "burned"] => codes'[k].status # "issued"
        BY <1>1, <2>1 DEF CodeRow
      <3>3. QED
        BY <1>1, <2>1, <3>1, <3>2
    <2>6. Permitted(h, job[h].as)
      BY <1>1, <2>4, <2>5, PermittedNow
    <2>7. IF own \in Url
          THEN \E d \in published : d.id = own /\ redirectAllowed(d.redirects, codes[k].redirect)
          ELSE codes[k].redirect \in clients[own].redirects
      BY <1>1, <2>1 DEF RegistryInv, RedirectsOfCodes
    <2>8. \A d \in published : d # NoRow
      <3>1. NoRow \notin Documents
        BY RegistryAssumption
      <3>2. published \subseteq Documents
        BY <1>1 DEF RegistryInv, RegistryTypeOK
      <3>3. QED
        BY <3>1, <3>2
    <2>9. CASE own \in Url /\ job[h].as # own
      <3>1. \E d \in published : Lists(own, d, codes[k].redirect)
        BY <2>7, <2>8, <2>9 DEF Lists
      <3>2. QED
        BY <2>6, <2>9, <3>1
    <2>10. CASE ~(own \in Url /\ job[h].as # own)
      BY <2>6, <2>7, <2>10
    <2>11. QED
      BY <2>9, <2>10
  <1>2. RegistryInv /\ [RegistryNext]_registryVars =>
          [\A h \in Handler :
             LET k == job[h].code
             IN  job[h] # NoRow /\ job'[h] = NoRow /\ job[h].code # Absent
                 /\ codes[k] # NoRow /\ codes[k].status = "fresh"
                 /\ codes'[k] # NoRow /\ codes'[k].status = "issued"
                 => Current(h)]_registryVars
    <2> HIDE DEF Current
    <2>1. QED
      BY <1>1
  <1>3. QED
    BY <1>2, RegistryInvHolds, PTL DEF RegistrySpec, RedeemedRedirectIsCurrent

\* A resource client authenticates with the key in the file of the process.
THEOREM KeysInForce == RegistrySpec => AssertionKeyInForce
  <1>1. RegistryInv /\ [RegistryNext]_registryVars =>
          [\A h \in Handler :
             LET c == verified[h].client
             IN  verified[h] # NoEntry /\ (\E a \in Assertion : accepted'[a] > accepted[a])
                 /\ verified'[h] = NoEntry /\ c \in DOMAIN applied
                 => signed[h] = applied[c]]_registryVars
    BY DEF RegistryInv, SignedKeys
  <1>2. QED
    BY <1>1, RegistryInvHolds, PTL DEF RegistrySpec, AssertionKeyInForce
=============================================================================
