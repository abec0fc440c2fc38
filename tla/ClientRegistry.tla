--------------------------- MODULE ClientRegistry ---------------------------
(***************************************************************************)
(* The clients of the authorization server and how they authenticate:      *)
(* start-up (main.go), POST /register, Client ID Metadata Documents        *)
(* (client_metadata.go), pre-provisioned resource clients                  *)
(* (resource_clients.go), authenticateClient and the places that use the   *)
(* client it returns (server.go).                                          *)
(*                                                                         *)
(* A client is a row of the Store, or a document fetched from the URL that *)
(* is its client_id: once for /authorize and again for /token, with an     *)
(* await in each, while the document, the addresses its host resolves to   *)
(* and, across restarts, the configuration may change.  ClientAssertion    *)
(* models private_key_jwt itself; here its clients come from the table.    *)
(* AuthorizationFlow models the steps between /authorize and the code.     *)
(***************************************************************************)
EXTENDS ClientAssertion, RedirectURI

CONSTANTS Dynamic,        \* client_ids that randomID can return to POST /register
          Url,            \* client_ids that isClientIDURL recognizes
          LocalClientID,  \* Config.LocalClientID
          LocalRedirect,  \* the redirect URI of that client
          PublicKey,      \* keys of resource clients
          BadKey,         \* an entry that LoadResourceClients refuses
          Code,           \* values randomID returns for authorization codes
          Redirect,       \* redirect_uri values in use
          Registrations,  \* bodies of POST /register
          Documents,      \* documents a client may publish at its URL
          Lookups,        \* answers of a host name lookup
          Files,          \* contents of MCP_AUTH_RESOURCE_CLIENTS_FILE
          Configs,        \* the configurations a server is started with
          Worlds,         \* sets of clients that exist together
          NoRow

ClientId == Dynamic \cup Url \cup Client \cup {LocalClientID}

\* A client secret is named by the client that randomID drew it for.
Secret == Dynamic \cup {Absent}

\* Client of store.go.
ClientRow == [id        : ClientId,
              redirects : SUBSET Redirect,
              auth      : {"none", "client_secret_basic", "private_key_jwt"},
              secret    : Secret,
              key       : PublicKey \cup {Absent}]

\* An authorization request from /authorize on: pending (AuthorizationFlow has
\* its consent and identity steps), its code fresh, then issued or burned.
CodeRow == [client   : ClientId,
            redirect : Redirect,
            status   : {"pending", "fresh", "issued", "burned"}]

\* How dialableIP tells addresses apart.
Address == {"public", "private", "loopback"}
Host == {u.host : u \in Url}

\* A request at /authorize or /token that waits for the document of client as,
\* or has authenticated that client and is about to consume a code.
Job == [pc       : {"resolving", "authenticating", "authenticated"},
        as       : ClientId,
        redirect : Redirect,               \* of the request, or of the code
        code     : Code \cup {Absent},
        client   : ClientRow \cup {NoRow},
        listed   : BOOLEAN]     \* history: the document has listed redirect meanwhile

ASSUME RegistryAssumption ==
    /\ LocalClientID \notin Dynamic \cup Url \cup Client
    /\ Dynamic \cap Client = {} /\ Url \cap (Dynamic \cup Client) = {}
    /\ LocalRedirect \in Redirect
    /\ BadKey \notin PublicKey
    /\ NoRow \notin ClientRow \cup CodeRow \cup Documents \cup Job
    /\ Absent \notin PublicKey \cup Code
    /\ \A f \in Files : DOMAIN f \subseteq Client /\ \A c \in DOMAIN f : f[c] \in PublicKey \cup {BadKey}
    /\ Registrations \subseteq [redirects : SUBSET Redirect,
                               auth : {"", "none", "client_secret_basic", "private_key_jwt"}]
    /\ Documents \subseteq [id : Url, redirects : SUBSET Redirect, auth : STRING]
    /\ Lookups \subseteq SUBSET Address
    /\ Worlds \subseteq SUBSET (Dynamic \cup Url \cup Client)

VARIABLES present,    \* the clients that exist in this behaviour
          config,     \* s.Config
          up,         \* how far the process has started
          file,       \* external: the resource clients file
          applied,    \* the file as this process has loaded it
          todo,       \* clients that start-up still has to save
          clients,    \* Store.clients
          codes,      \* Store.codes and Store.consent
          document,   \* external: what is published at each URL
          address,    \* external: what each host resolves to
          job,        \* what each handler waits for
          signed,     \* the key that signed the assertion a handler has verified
          published,  \* history: the documents that were published under their own URL
          contacted,  \* history: addresses this process has fetched from
          panicked    \* history: redirects that could not be built

process == <<config, up, applied, todo>>
external == <<file, document, address>>
store == <<clients, codes>>
history == <<published, contacted, panicked>>
registryVars == <<vars, present, process, external, store, job, signed, history>>

Idle(h) == job[h] = NoRow /\ verified[h] = NoEntry

-----------------------------------------------------------------------------
\* Start-up and the store.

\* Config.Validate, where it constrains what follows.
Validate(c) == c.local \/ backend # "memory"

RegistryInit ==
    /\ Init
    /\ present \in Worlds
    /\ config \in {c \in Configs : Validate(c)}
    /\ up = "down"
    /\ file \in {f \in Files : DOMAIN f \subseteq present}
    /\ applied = <<>> /\ todo = {}
    /\ clients = [id \in ClientId |-> NoRow]
    /\ codes = [k \in Code |-> NoRow]
    /\ document = [u \in Url |-> NoRow]
    /\ address = [h \in Host |-> {IF \E u \in Url : u.host = h /\ u.literal = "loopback"
                                  THEN "loopback" ELSE "public"}]
    /\ job = [h \in Handler |-> NoRow]
    /\ signed = [h \in Handler |-> Absent]
    /\ published = {} /\ contacted = {} /\ panicked = {}

\* An INSERT that leaves an existing row alone.
KeepExistingRow(row) ==
    IF clients[row.id] = NoRow THEN [clients EXCEPT ![row.id] = row] ELSE clients

\* SaveClient of both stores: a row with that id is overwritten.
SaveClient(row) == [clients EXCEPT ![row.id] = row]

\* The file is refused as a whole if one of its entries is.
LoadResourceClients(f) == \A c \in DOMAIN f : f[c] # BadKey

\* The process starts, with the file and the configuration of that moment.
main(c) ==
    /\ up = "down"
    /\ Validate(c)
    /\ LoadResourceClients(file)
    /\ up' = "starting" /\ config' = c /\ applied' = file
    /\ todo' = DOMAIN file \cup IF c.local THEN {LocalClientID} ELSE {}
    /\ UNCHANGED <<vars, present, external, store, job, signed, history>>

\* One SaveClient of loadResourceClients, or after them the one for the local
\* client.
saveStartupClient(id) ==
    LET local == id = LocalClientID
    IN  /\ up = "starting" /\ id \in todo
        /\ local => todo = {id}
        /\ clients' = SaveClient([id        |-> id,
                                  redirects |-> IF local THEN {LocalRedirect} ELSE {},
                                  auth      |-> IF local THEN "none" ELSE "private_key_jwt",
                                  secret    |-> Absent,
                                  key       |-> IF local THEN Absent ELSE applied[id]])
        /\ todo' = todo \ {id}
        /\ UNCHANGED <<vars, present, config, up, applied, external, codes, job, signed, history>>

ListenAndServe ==
    /\ up = "starting" /\ todo = {}
    /\ up' = "serving"
    /\ UNCHANGED <<vars, present, config, applied, todo, external, store, job, signed, history>>

\* The process dies, or a SaveClient of start-up fails and it exits.  What it
\* has saved by then stays in the sqlite file.
exit ==
    /\ up # "down"
    /\ Restart
    /\ up' = "down" /\ applied' = <<>> /\ todo' = {}
    /\ job' = [h \in Handler |-> NoRow]
    /\ signed' = [h \in Handler |-> Absent]
    /\ contacted' = {}
    /\ IF backend = "sqlite"
       THEN UNCHANGED store
       ELSE clients' = [id \in ClientId |-> NoRow] /\ codes' = [k \in Code |-> NoRow]
    /\ UNCHANGED <<present, config, external, published, panicked>>

\* External: the operator edits the file, a client publishes a document, and
\* the name server changes its answer.
EditFile(f) ==
    /\ DOMAIN f \subseteq present /\ f # file
    /\ file' = f
    /\ UNCHANGED <<vars, present, process, document, address, store, job, signed, history>>

Lists(u, d, r) == d # NoRow /\ d.id = u /\ redirectAllowed(d.redirects, r)

Publish(u, d) ==
    /\ u \in present /\ d # document[u]
    /\ document' = [document EXCEPT ![u] = d]
    /\ published' = published \cup {e \in {d} : e.id = u}
    /\ job' = [h \in Handler |->
                 IF job[h] = NoRow \/ job[h].as # u THEN job[h]
                 ELSE [job[h] EXCEPT !.listed = @ \/ Lists(u, d, job[h].redirect)]]
    /\ UNCHANGED <<vars, present, process, file, address, store, signed, contacted, panicked>>

Rebind(h, answer) ==
    /\ \E u \in present \cap Url : u.host = h /\ u.literal = "none"
    /\ answer # address[h]
    /\ address' = [address EXCEPT ![h] = answer]
    /\ UNCHANGED <<vars, present, process, file, document, store, job, signed, history>>

-----------------------------------------------------------------------------
\* POST /register.

\* r.auth = "" is an absent token_endpoint_auth_method.  randomID never draws
\* an id twice.
register(id, r) ==
    /\ up = "serving" /\ config.registration
    /\ id \in present /\ clients[id] = NoRow
    /\ r.redirects # {}
    /\ \A u \in r.redirects :
         /\ validRedirect(u)
         /\ config.allow = {} \/ redirectAllowed(config.allow, u)
    /\ clients' = SaveClient([id        |-> id,
                              redirects |-> r.redirects,
                              auth      |-> IF r.auth = "" THEN "none" ELSE r.auth,
                              secret    |-> IF r.auth \in {"none", ""} THEN Absent ELSE id,
                              key       |-> Absent])
    /\ UNCHANGED <<vars, present, process, external, codes, job, signed, history>>

-----------------------------------------------------------------------------
\* Client ID Metadata Documents.

\* u.literal: whether the host is an IP address and, if so, ip.IsLoopback.
validateClientMetadataURL(u) == u.scheme = "https" /\ u.plain /\ u.literal # "other"

allowedMetadataHost(u) == config.hosts = {} \/ u.host \in config.hosts

dialableIP(a) == a = "public" \/ (a = "loopback" /\ config.local)

\* A dial that trusts the validation of the URL.
DialUnchecked(h) == address[h] # {}

\* publicOnlyDialContext: one address that may not be dialled refuses them all.
publicOnlyDialContext(h) == address[h] # {} /\ \A a \in address[h] : dialableIP(a)

\* The checks before the request is sent; the handler then waits.
fetchStarts(h, u, pc, r, k) ==
    /\ Idle(h) /\ up = "serving" /\ u \in present
    /\ validateClientMetadataURL(u)
    /\ allowedMetadataHost(u)
    /\ job' = [job EXCEPT ![h] = [pc |-> pc, as |-> u, redirect |-> r, code |-> k,
                                  client |-> NoRow, listed |-> Lists(u, document[u], r)]]

\* What is published there is a document of this very client.
validDocument(u) ==
    LET d == document[u]
    IN  /\ d # NoRow
        /\ d.id = u
        /\ d.redirects # {} /\ \A r \in d.redirects : validRedirect(r)
        /\ d.auth \in {"none", ""}

\* The client that fetchClientMetadata returns.
clientOf(u) == [id |-> u, redirects |-> document[u].redirects,
                auth |-> "none", secret |-> Absent, key |-> Absent]

\* The host is looked up, checked and its first address dialled in one step.
Dial(u) ==
    /\ publicOnlyDialContext(u.host)
    /\ \E a \in address[u.host] : contacted' = contacted \cup {a}

\* The answer to handler h's request is an acceptable document.
fetchClientMetadata(h, pc) ==
    /\ job[h] # NoRow /\ job[h].pc = pc
    /\ Dial(job[h].as)
    /\ validDocument(job[h].as)

\* The fetch fails or times out, or the document that came back is refused.
fetchFails(h) ==
    /\ job[h] # NoRow /\ job[h].pc \in {"resolving", "authenticating"}
    /\ Dial(job[h].as) \/ UNCHANGED contacted
    /\ job' = [job EXCEPT ![h] = NoRow]
    /\ UNCHANGED <<vars, present, process, external, store, signed, published, panicked>>

-----------------------------------------------------------------------------
\* /authorize.

clientRedirectPermitted(client, r) ==
    IF client.id \in Url
    THEN /\ config.allow = {} \/ redirectAllowed(config.allow, r)
         /\ redirectAllowed(client.redirects, r)
    ELSE r \in client.redirects

\* The request is accepted and waits for consent and identity.
acceptRequest(client, r) ==
    /\ clientRedirectPermitted(client, r)
    /\ validRedirect(r)
    /\ \E k \in Code :
         /\ codes[k] = NoRow
         /\ codes' = [codes EXCEPT ![k] = [client |-> client.id, redirect |-> r, status |-> "pending"]]

\* parseAuthorizationRequest for a client of the table: resolveClient reads it.
authorizeRegistered(id, r) ==
    /\ up = "serving" /\ id \notin Url
    /\ clients[id] # NoRow
    /\ acceptRequest(clients[id], r)
    /\ UNCHANGED <<vars, present, process, external, clients, job, signed, history>>

\* resolveClient for a URL starts the fetch, unless it is disabled ...
resolveClient(h, u, r) ==
    /\ config.metadata
    /\ fetchStarts(h, u, "resolving", r, Absent)
    /\ UNCHANGED <<vars, present, process, external, store, signed, history>>

\* ... and parseAuthorizationRequest goes on with the document.
authorizeFetched(h) ==
    /\ fetchClientMetadata(h, "resolving")
    /\ acceptRequest(clientOf(job[h].as), job[h].redirect)
    /\ job' = [job EXCEPT ![h] = NoRow]
    /\ UNCHANGED <<vars, present, process, external, clients, signed, published, panicked>>

\* url.Parse's error is ignored where the browser is sent back: the handler
\* panics on a nil URL, and net/http recovers it.
sendBack(r) == panicked' = IF urlParses(r) THEN panicked ELSE panicked \cup {r}

\* completeAuthorization saves the code before it builds the redirect.
completeAuthorization(k) ==
    /\ up = "serving"
    /\ codes[k] # NoRow /\ codes[k].status = "pending"
    /\ codes' = [codes EXCEPT ![k].status = "fresh"]
    /\ sendBack(codes[k].redirect)
    /\ UNCHANGED <<vars, present, process, external, clients, job, signed, published, contacted>>

\* A denied consent or a failed identity is sent back by redirectError.
redirectError(k) ==
    /\ up = "serving"
    /\ codes[k] # NoRow /\ codes[k].status = "pending"
    /\ codes' = [codes EXCEPT ![k] = NoRow]
    /\ sendBack(codes[k].redirect)
    /\ UNCHANGED <<vars, present, process, external, clients, job, signed, published, contacted>>

-----------------------------------------------------------------------------
\* /token.

\* The client of the table with this id is authenticated and about to redeem k.
\* A request whose code is unknown or spent changes nothing and is left out.
redeems(h, id, k) ==
    /\ codes[k] # NoRow /\ codes[k].status = "fresh"
    /\ job' = [job EXCEPT ![h] = [pc |-> "authenticated", as |-> id, redirect |-> codes[k].redirect,
                                  code |-> k, client |-> clients[id], listed |-> FALSE]]

\* authenticateClient for a client of the table, with the secret presented.
authenticateRegistered(h, id, secret, k) ==
    LET row == clients[id]
    IN  /\ Idle(h) /\ up = "serving"
        /\ id \notin Url /\ row # NoRow
        /\ row.auth # "private_key_jwt"
        /\ row.auth = "none" \/ row.secret = Absent \/ row.secret = secret
        /\ redeems(h, id, k)
        /\ UNCHANGED <<vars, present, process, external, store, signed, history>>

\* authenticateClient for a URL: the document is fetched again, whether or not
\* ClientIDMetadataEnabled still holds.
authenticateURL(h, u, k) ==
    /\ codes[k] # NoRow /\ codes[k].status = "fresh"
    /\ fetchStarts(h, u, "authenticating", codes[k].redirect, k)
    /\ UNCHANGED <<vars, present, process, external, store, signed, history>>

authenticateFetched(h) ==
    /\ fetchClientMetadata(h, "authenticating")
    /\ job' = [job EXCEPT ![h].pc = "authenticated", ![h].client = clientOf(job[h].as)]
    /\ UNCHANGED <<vars, present, process, external, store, signed, published, panicked>>

\* Redeeming a code without asking again whether its redirect is permitted.
RedeemUnchecked(h, form) ==
    /\ job[h] # NoRow /\ job[h].pc = "authenticated"
    /\ job' = [job EXCEPT ![h] = NoRow]
    /\ codes' = [codes EXCEPT ![job[h].code].status =
                   IF @ = "fresh" THEN (IF form.client = codes[job[h].code].client
                                        THEN "issued" ELSE "burned") ELSE @]
    /\ UNCHANGED <<vars, present, process, external, clients, signed, history>>

\* authorizationCodeToken: ConsumeAuthorizationCode spends a fresh code, and
\* every later check that fails leaves it spent.  form.proof: the PKCE verifier
\* and the resource match.
authorizationCodeToken(h, form) ==
    LET k    == job[h].code
        code == codes[k]
        ok   == /\ code.client = form.client
                /\ code.redirect = form.redirect
                /\ clientRedirectPermitted(job[h].client, code.redirect)
                /\ form.proof
    IN  /\ job[h] # NoRow /\ job[h].pc = "authenticated"
        /\ codes' = IF code = NoRow \/ code.status # "fresh" THEN codes
                    ELSE [codes EXCEPT ![k].status = IF ok THEN "issued" ELSE "burned"]
        /\ job' = [job EXCEPT ![h] = NoRow]
        /\ UNCHANGED <<vars, present, process, external, clients, signed, history>>

\* authenticateClientAssertion: the row is read, and the assertion, signed with
\* key, passes verifyClientAssertion.
authenticateClientAssertion(h, a, key) ==
    LET row == clients[a.client]
    IN  /\ up = "serving" /\ job[h] = NoRow
        /\ row # NoRow /\ row.auth = "private_key_jwt" /\ row.key # Absent
        /\ key = row.key
        /\ verifyClientAssertion(h, a)
        /\ signed' = [signed EXCEPT ![h] = key]
        /\ UNCHANGED <<present, process, external, store, job, history>>

\* ConsumeClientAssertionJTI decides: the client of the assertion may have come
\* with a code, like any other, or for the token exchange; or it is refused.
assertionConsumed(h) ==
    LET c == verified[h].client
    IN  /\ \/ /\ ConsumeClientAssertionJTI(h)
              /\ \/ \E k \in Code : redeems(h, c, k)
                 \/ UNCHANGED job
           \/ /\ RejectReplay(h) \/ StoreFails(h)
              /\ UNCHANGED job
        /\ signed' = [signed EXCEPT ![h] = Absent]
        /\ UNCHANGED <<present, process, external, store, history>>

\* The clock matters to assertions only.
clockTicks ==
    /\ present \cap Client # {}
    /\ Tick
    /\ UNCHANGED <<present, process, external, store, job, signed, history>>

-----------------------------------------------------------------------------
Form == [client : ClientId, redirect : Redirect, proof : BOOLEAN]

RegistryNext ==
    \/ \E c \in Configs : main(c)
    \/ \E id \in Client \cup {LocalClientID} : saveStartupClient(id)
    \/ ListenAndServe
    \/ exit
    \/ \E f \in Files : EditFile(f)
    \/ \E u \in Url, d \in Documents : Publish(u, d)
    \/ \E n \in Host, answer \in Lookups : Rebind(n, answer)
    \/ \E id \in Dynamic, r \in Registrations : register(id, r)
    \/ \E id \in ClientId, r \in Redirect : authorizeRegistered(id, r)
    \/ \E k \in Code : completeAuthorization(k) \/ redirectError(k)
    \/ clockTicks
    \/ \E h \in Handler :
         \/ \E u \in Url, r \in Redirect : resolveClient(h, u, r)
         \/ authorizeFetched(h)
         \/ fetchFails(h)
         \/ \E id \in ClientId, s \in Secret, k \in Code : authenticateRegistered(h, id, s, k)
         \/ \E u \in Url, k \in Code : authenticateURL(h, u, k)
         \/ authenticateFetched(h)
         \/ \E form \in Form : authorizationCodeToken(h, form)
         \/ \E a \in Assertion, key \in PublicKey : authenticateClientAssertion(h, a, key)
         \/ assertionConsumed(h)

RegistrySpec == RegistryInit /\ [][RegistryNext]_registryVars

-----------------------------------------------------------------------------
RegistryTypeOK ==
    /\ TypeOK
    /\ present \in Worlds /\ config \in Configs /\ file \in Files
    /\ up \in {"down", "starting", "serving"}
    /\ up # "down" => applied \in Files /\ LoadResourceClients(applied)
    /\ todo \subseteq DOMAIN applied \cup {LocalClientID}
    /\ clients \in [ClientId -> ClientRow \cup {NoRow}]
    /\ codes \in [Code -> CodeRow \cup {NoRow}]
    /\ document \in [Url -> Documents \cup {NoRow}]
    /\ job \in [Handler -> Job \cup {NoRow}]
    /\ signed \in [Handler -> PublicKey \cup {Absent}]
    /\ published \subseteq Documents /\ contacted \subseteq Address /\ panicked \subseteq Redirect

\* When tokens are issued for a code, its redirect is one its client may use: a
\* registered client still has it, and a client known by URL that authenticates
\* as itself has published a document that lists it since the token request
\* arrived, and the allowlist of the running process, which may be newer than
\* the code, lets it pass.  authorizationCodeToken compares the code's client
\* with the form alone, so the request may have authenticated as another client.
\* Then that one may use the redirect, and all there is to say of the code's own
\* client, if known by URL, is that it has published the redirect at some time.
RedeemedRedirectIsCurrent ==
    [][\A h \in Handler :
         LET k    == job[h].code
             own  == codes[k].client
             Permitted(id) ==
                 IF id \in Url
                 THEN /\ job[h].listed
                      /\ config.allow = {} \/ redirectAllowed(config.allow, codes[k].redirect)
                 ELSE codes[k].redirect \in clients[id].redirects
         IN  job[h] # NoRow /\ job'[h] = NoRow /\ job[h].code # Absent
             /\ codes[k] # NoRow /\ codes[k].status = "fresh"
             /\ codes'[k] # NoRow /\ codes'[k].status = "issued"
             => /\ IF own \in Url /\ job[h].as # own
                   THEN \E d \in published : Lists(own, d, codes[k].redirect)
                   ELSE Permitted(own)
                /\ job[h].as # own => Permitted(job[h].as)]_registryVars

\* No code is sent where its client has no listener: its redirect has the
\* scheme and the host of one the client has registered, or has published at
\* its URL at some time.  redirectMatches ignores the port of a loopback
\* redirect and nothing else.
CodeStaysOnListedHost ==
    \A k \in Code : codes[k] # NoRow =>
        LET own == IF codes[k].client \in Url
                   THEN UNION {d.redirects : d \in {e \in published : e.id = codes[k].client}}
                   ELSE clients[codes[k].client].redirects
        IN  \E r \in own : r.scheme = codes[k].redirect.scheme /\ r.host = codes[k].redirect.host

\* A resource client authenticates with the key that the file of the running
\* process gives it: a rotated key is out of use from the next start on, also
\* if an earlier start died half-way through saving the file.
AssertionKeyInForce ==
    [][\A h \in Handler :
         LET c == verified[h].client
         IN  verified[h] # NoEntry /\ (\E a \in Assertion : accepted'[a] > accepted[a])
             /\ verified'[h] = NoEntry /\ c \in DOMAIN applied
             => signed[h] = applied[c]]_registryVars

\* The server connects to public addresses only (and to loopback in local
\* development), even if the name is rebound after the URL was validated.
OnlyDialableIsContacted ==
    contacted \subseteq {"public"} \cup IF config.local THEN {"loopback"} ELSE {}

\* What the comment on parseClientRedirect and the security model say: a
\* redirect that registration accepts is one the browser can be sent to.
RedirectCanBeSent == panicked = {}
=============================================================================
