# TLA+ models of mcp-auth

mcp-auth is an OAuth 2.1 authorization server for MCP servers (`auth-server/`,
Go) and three client SDKs that protect the resource servers (`auth-client/`: Go,
Python, TypeScript). This directory models the parts of it that keep state and
are reached by concurrent requests, checks them with TLC on small instances, and
proves with TLAPS every safety property that the runs find to hold, for every
value of the constants that meets the stated assumptions (section 4).

## 1. The system

### Components, their state and their operations

| Component | State | Operations | Correct when |
|---|---|---|---|
| Authorization-code flow (`server.go`) | consent, code and session tables; a handler's consumed request | `authorize`, `finishConsent`, `identityCallback`, `completeAuthorization`, `authorizationCodeToken` | a request yields at most one code, only after approval, for who signed in for it, and its tokens convey what was approved |
| Refresh tokens (`server.go`, `store.go`) | refresh table with `used`, `revoked`, `FamilyID` | `issueTokens`, `refreshTokenToken`, `revoke` | a token is rotated once, a family is a chain of one grant, reuse ends the family |
| Store (`store.go`, `sqlite_store.go`) | all tables | `Save*`, `Consume*`, `Revoke*`, `Get*` | one-time values are consumed once |
| SQLite schema (`sqlite_store.go`) | tables, columns, `user_version` | `initialize`, `migrate` | a serving server has the whole schema and a file stays openable |
| Client assertions (`server.go`, `resource_clients.go`) | `(client_id, jti)` with expiry | `authenticateClientAssertion`, `ConsumeClientAssertionJTI` | an assertion is not replayed |
| OIDC provider (`oidc.go`) | endpoints, JWKS cache | `Begin`, `Complete`, `resolve` | a callback is bound to its redirect (verifier, nonce); keys are fresh |
| Upstream sessions (`upstream_session.go`) | session per subject | `Exchange`, `refresh` | a usable upstream refresh token is never lost |
| Clients (`server.go`, `client_metadata.go`, `redirect.go`) | client table; documents that clients publish | `register`, `resolveClient`, `fetchClientMetadata`, `authenticateClient` | a code goes to a host its client lists, and is redeemed for a redirect that its client lists by then (or that the client which authenticated in its place lists); no inner address is contacted |
| Process (`cmd/auth-server`) | the configuration and the resource-client file it started with | `main`, `loadResourceClients` | what the file said at start-up is what is served |
| SDK verifiers | key cache, fetch throttle, in-flight load | `Verify`, `ensureKeys` | no token passes on an outdated or foreign key; a rotated key is picked up |
| SDK exchange clients | LRU map and list | `Exchange`, `Get`, `Put` | no expired or foreign token is returned, the least recently used entry goes first |
| Consent page, discovery, CORS, key files, audit | none that changes while serving | rendering and validation | not modelled |

### How they interact

The HTTP server runs every request in a goroutine of its own. Handlers share
nothing but the `Store` (and the JWKS cache) and hold no lock between two Store
calls, so requests interleave at every call. A browser carries a request from
`/authorize` through the consent page and the upstream provider back to
`/identity/callback`; what the server must remember meanwhile is a row of the
consent table, first under the `consent_id` and then, with a PKCE verifier, under
the upstream `state`. The callback turns it into an authorization code, the code
into an access token and the first refresh token of a family, and each refresh
into the next token of that family. A resource server verifies the access token
with the SDK and may exchange it, authenticating with an assertion, for the
upstream session that the login left behind; the SDK caches what it gets.

A client is a row of the client table (registered, or saved at start-up) or a
document behind an HTTPS URL, which the server fetches anew whenever the client
is named: at `/authorize` and again at `/token`. Documents, name bindings, the
configuration and the resource-client file all change outside the server's
control between two of its steps.

### What is hard

* Interleaving: two redemptions of one code or refresh token; a replay that
  meets the first rotation half done; two sign-ins whose callbacks are swapped.
* Failure: a Store call or the signature fails, or the process dies, after the
  presented value was used up; a crash while the schema is created.
* Time: `Before` against `After` at the instant of expiry, clock skew granted in
  one place and not in another, a check at one time and its use at a later one.
* Staleness: the schema version read before the transaction, a session read
  before an upstream call and written after it, a client document checked at
  `/authorize` and replaced before `/token`, a name checked and then rebound.
* Limits: a cache of two structures at its capacity, fed by concurrent misses.

`PROJECT.json` lists each of these hazards with its line and the property that
covers it.

## 2. Modules

| Module | Models | State and actions |
|---|---|---|
| `Store` | the decisions and row updates of the Store's one-time operations | pure operators: `CodeStatus`, `ConsentStatus`, `RefreshStatus` give the error the operation returns; `MarkUsed`, `DeleteRow`, `RevokeRefreshToken`, `RevokeRefreshFamily` give the table afterwards |
| `RefreshRotation` | `issueTokens`, `refreshTokenToken`, `revoke` | `refresh` is the table; `pc`, `old`, `family`, `grant` are a handler's locals between two Store calls; `parent`, `reused`, `settled`, `failed` are history |
| `RefreshRotationProofs` | | theorems about `RefreshRotation` |
| `OneTimeStore` | what the handlers rely on: a Store whose calls take effect at one instant | `rows` are the tables, empty at first but for refresh tokens that a migration left without a family, `call` what each handler waits for; `wins`, `reuse`, `saved` are history |
| `SQLiteStore` | the same methods in `sqlite_store.go`, one step per SQL statement | adds `pc` (where a method is), and SQLite's write `lock` and up-to-date snapshots (`current`), which are external; implements `OneTimeStore` |
| `SQLiteStoreProofs` | | theorems about `OneTimeStore` and `SQLiteStore` |
| `AuthorizationFlow` | `authorize` ... `authorizationCodeToken`, `Begin`, `Complete` | `consent`, `codes`, `sessions` are the tables; `begun` and `logins` are the upstream provider; `drawn`, `asked`, `approved`, `denied`, `issued` and the `origin` fields are history |
| `AuthorizationFlowProofs` | | theorems about `AuthorizationFlow` |
| `ClientAssertion` | `verifyClientAssertion`, `ConsumeClientAssertionJTI` of both stores | `assertions` is the replay table, `verified` a handler between the two calls |
| `TokenExchange` | `exchange`, `UpstreamSessionExchanger`, and the logins that write sessions | `sessions` is the table, `session` what a handler has read or refreshed; `issued`, `valid`, `provider` are the upstream provider; `lost` and `overtaken` are history |
| `TokenExchangeProofs` | | theorems about `TokenExchange` |
| `KeyCache` | the key lookup of the three SDKs' `JWTVerifier` and of the server's `jwksCache` | `keys`, `loadedAt`, `lastRefresh`, `missed` are the cache, `load` the request in flight, which stands for the lock as well, `pc` and `kid` the callers; `published` is the endpoint; `seen`, `steady`, `took`, `answers` are history |
| `KeyCacheProofs` | | theorems about `KeyCache` |
| `RedirectURI` | `redirect.go` | pure operators on parsed URIs: `parseClientRedirect`, `validRedirect`, `redirectMatches`, `redirectAllowed` |
| `ClientRegistry` | start-up, `register`, client documents, `authenticateClient`, the checks of `/authorize` and of the code grant that concern the client | extends `ClientAssertion` and `RedirectURI`; `clients` and `codes` are tables, `up`, `config`, `applied` and `todo` the process, `file`, `document` and `address` the outside world, `job` a handler that fetches a document, `signed` the key of a verified assertion; `contacted`, `panicked`, `published` and the field `listed` are history |
| `ClientRegistryProofs` | | theorems about `ClientAssertion` and `ClientRegistry` |
| `LRUCache` | what a cache promises: entries in the order of their use, at most so many | `entries` |
| `TokenExchangeClient` | `Exchange` of the three SDKs and their caches | `values` and `order` are the cache, `call` the requests under way; `until`, `late` and `written` are history; implements `LRUCache` |
| `TokenExchangeClientProofs` | | theorems about `TokenExchangeClient` and `LRUCache` |
| `SchemaMigration` | `initialize`, `migrate` | `schema`, `version` are the file, `pc`, `step`, `read` a server that opens it |
| `SchemaMigrationProofs` | | theorems about `SchemaMigration` |
| `MC...` | | the instances for TLC: symmetry sets, requests and settings |

Definitions whose comment describes a deviation ("Rotation that forgets ...",
"Consent that leaves ...") are the mutants of `PROJECT.json`: plausible mistakes
in the code that one of the properties must catch. They are not part of any
specification.

Abstractions. Random values (`randomID`, 256 bits) are members of finite sets
that are never drawn twice. Hashes are the values themselves, because rows are
only looked up by the hash of what is presented. `S256` is an injective
constructor. Subject, scopes and resource of a refresh token are one `Authority`,
because nothing looks at them separately. `Registered` says which redirect URIs
`clientRedirectPermitted` accepts. Requests that are answered with an error and
change nothing are stuttering steps. The clock is a natural number that may
advance at any time; two steps may happen at the same instant.

In `RefreshRotation` and `AuthorizationFlow` the Store's operations are atomic
steps. For `MemoryStore` this is its mutex. For `SQLiteStore` it is what
`SQLiteStore` shows: a consume is a deferred transaction (SELECT, UPDATE, COMMIT)
that never looks at the number of rows its UPDATE changed; in WAL mode a
transaction that has read rows somebody has changed since cannot write, so the
loser of a race gets SQLITE_BUSY, an ordinary error, and not `ErrAlreadyUsed`:
it does not start the revocation of the family. A `Crash` keeps the tables, as
SQLite does, and loses the handlers.

`TokenExchange` knows three kinds of upstream providers: one that replaces the
refresh token it is shown ("rotating"), one that keeps it ("keeping") and one that
does now this and now that ("mixed"). The last one reveals what the code has
nothing against: of two exchanges with one token, one is told to keep it and the
other is given its replacement, and the former saves last. `overtaken` records the
users this may happen to, and `SessionStaysUsable` excepts them, for that kind of
provider only; for the other two `overtaken` stays empty, which is proved. A
provider that withdraws a whole family when an old token is shown again is
outside the model; there two concurrent exchanges would end the session. A login
is one step, because nobody else knows its tokens before they are saved.

`KeyCache` names a key by its `kid` and leaves out the signature and claim checks
that follow the lookup and change nothing. The four verifiers share the module:
the variable `verifier` says whose rules apply and with which settings. The
server's lifetime, which Cache-Control sets anew with each document, is constant.
An answer with no usable key is a failure for the server and an empty document
for the SDKs.

`ClientRegistry` works on parsed URIs: scheme, host, port, path, and whether
`url.Parse` takes the text. `:*` is a port there, while `parseLoopbackPortWildcard`
looks for it in the text, and userinfo is left out: both would only matter to
redirects that no part of the flow tells apart. The kinds of clients are disjoint
(`RegistryAssumption`): the file of resource clients could name the local client
or a URL, which the loader does not refuse, but the one row would only replace the
other and a URL is never looked up in the table except by an assertion. A member of `Worlds` gives the clients that take part in a
behaviour, because clients meet only in tables that are indexed by them. The
client that authenticates and the `client_id` of the form are separate inputs, as
they are in the code; a code may be redeemed under an assertion too, which spends
it, whether or not it is then refused. A name lookup gives a set of
addresses, any of which may be the first one, which is dialled. Signing in is reduced to what passes between `authorize` and
`completeAuthorization` about the client; `AuthorizationFlow` has the rest.

`TokenExchangeClient` leaves out the assertion and the encoding of the form. A
token's real expiry is history, against which what the caller is told is
compared; TypeScript takes an `expires_in` of 0 for 300 s, a
guess, which is why `HitServesRequest` bounds the expiry only where the answer
stated a lifetime. An answer without `expires_in`, which this server never gives,
is left out (Python and TypeScript assume 300 s, Go nothing). A request may take any time:
no SDK ties it to the margin, TypeScript's timeout can be switched off
(`timeout.ts:17`), httpx bounds single operations only, and Go's margin is an
argument of its cache. `HitServesRequest` therefore says how much longer than its
issuer the client may believe a token to live: as long as its answer was underway
(`late`), less the margin. The entries of `LRUCache` under the refinement mapping are the keys of `order` with their
`values`; a lookup that finds an expired entry is a removal, and a put at
capacity removes the last entry in the same step.

`SchemaMigration` has one table that the migrations alter and the tables they
create; a schema is the set of the columns and tables a file has.

## 3. Runs

| Run | Question | Result |
|---|---|---|
| `refresh` | do concurrent refreshes, replays, revocations, expiry, failures and crashes keep families chains of one grant, rotated once, does a revocation reach only the family of the presented token (only the token itself if it was migrated without one), and is a detected reuse really followed by the revocation of the family's tokens? | holds |
| `refresh_reuse_race` | is a family dead once it was revoked on reuse? | violated |
| `flow` | do two interleaved authorization requests stay apart, from `/authorize` to the tokens? For an upstream provider that enforces PKCE while the clients send the same nonce, for one that answers with an ID token alone, so that only the nonce the server drew binds a sign-in, and for a local server with the `approve=true` shortcut, several resources and requests that must be refused | holds |
| `sqlite_store` | do the transactions of `sqlite_store.go`, interleaved, failing and crashing, behave like atomic calls, also for refresh tokens without a family? | they implement `OneTimeStore` |
| `exchange` | can concurrent exchanges and logins strand a user with a refresh token the provider has replaced? | no, unless a fault swallows the provider's answer, or a provider that replaces its tokens only now and then has replaced one that another exchange was told to keep |
| `clients` | with documents, names, configuration and key files that change, restarts, and concurrent requests: is a code sent to a host its own client has listed, does that client, or the one that authenticated in its place, list the redirect when it is redeemed, are only public addresses contacted, is a rotated key out of use, can an assertion be replayed before it expires? | holds |
| `redirect_wildcard` | can a registered redirect be answered to? | violated |
| `token_cache` | do the SDKs' caches behave like `LRUCache`, does a hit give a token of the same subject, audience and scope, and is it live unless its answer took longer than the margin, with concurrent misses and slow answers? | holds |
| `assertion_single_use` | can it be used twice at all? | yes, within the clock skew |
| `key_cache` | with concurrent verifications, keys published and withdrawn, and slow, lost and failed requests: do withdrawn keys stop being accepted, are new ones found, do only absent keys get refused, do requests stay spaced, does every verification end? | holds |
| `schema` | do servers that race, crash and restart over a new file or one of any earlier version serve only with the full schema, keep existing files openable, and end up serving? | holds |
| `schema_crash` | is a file openable after a crash while it was created? | violated |

### The four disagreements

* `refresh_reuse_race`. Consuming the presented token and saving its successor
  are two Store calls. A replay in between revokes the rows there are; then the
  successor is saved, live, in the revoked family. `docs/security-model.md` says
  "the whole family is revoked on reuse". `SettledFamilyIsDead` is the part that
  does hold: a revocation with no rotation in flight is final.
* `assertion_single_use`. `validExpiry` accepts an assertion for
  `clockSkewTolerance` after its `exp`, and neither store remembers its `jti` that
  long. At the very instant of `exp` the memory store still has the entry but asks
  whether its expiry is strictly after now (`store.go:147`); this is the trace TLC
  shows. After it, both stores have purged the entry. The comment on the Store says "a single use per assertion".
  `NoReplayBeforeExpiry` is the part that does hold.
* `schema_crash`. `freshSchema` and `PRAGMA user_version` are not one
  transaction. A crash in between leaves new columns at version 0, and every
  later start fails on `ALTER TABLE`. `UpgradeKeepsOpenable` in run `schema` shows
  that existing files are safe from this.
* `redirect_wildcard`. `validRedirect` accepts the allowlist syntax
  `http://127.0.0.1:*` from a registration, but `url.Parse`, whose error
  `completeAuthorization` and `redirectError` discard, does not; the handler
  dereferences a nil URL after the code was saved. `net/http` recovers the panic,
  so the connection is cut and the server goes on.

### Seen while modelling, without a run

These are visible in a single line of the code, so that a run would add nothing.

* `exchange` compares the audience with `Config.Resource` (`server.go:509`), while
  tokens are issued for `MCP_AUTH_RESOURCES`, of which `docs/auth-server.md:664-665`
  says that it replaces `MCP_AUTH_RESOURCE`.
* `main.go:77-80` calls the resource-client file "the source of truth". A client
  removed from it stays in a SQLite database; `AssertionKeyInForce` is
  therefore about the clients the file names.
* `authenticateClient` fetches documents of URL clients also if client documents
  are switched off; `/authorize` does not.
* A client that registers for `private_key_jwt` gets no key and can never
  authenticate.
* An `expires_in` of 0 is cached for 300 s by TypeScript, refused by Python and not
  reused by Go.
* `docs/security-model.md:17-19` says the fetch of a client document "does not
  resolve hostnames", and `docs/auth-server.md:314-316` "A hostname is not resolved,
  so a name that points at a private address is not blocked"; so does the comment at
  `client_metadata.go:40-41` of the check of the URL alone. `publicOnlyDialContext`
  (`client_metadata.go:99-129`) resolves the name and refuses private addresses, as
  `OnlyDialableIsContacted` shows.
* `authorizationCodeToken` compares the code with the `client_id` of the form and
  the code's redirect with the client that authenticated (`server.go:435`), and
  nothing compares the two clients. So a code of a URL client can be redeemed by a
  request that authenticates as another client with the same redirect, although
  the document of the URL client has dropped the redirect, or is not fetched at all,
  while `docs/auth-server.md:305-309` says that a URL is fetched and checked "On
  `/authorize` and `/token`". `RedeemedRedirectIsCurrent` states what does hold.

`UnexpiredIsRemembered`, on which `NoReplayBeforeExpiry` rests, is proved and in no
run. Where a run lists no type invariant, the module's `TypeOK` documents its variables
and was checked with the same instance.

### Bounds and why they are enough

* `refresh`: two handlers give every race of the code, which only ever
  involves a rotation and one other request; three tokens, two of which may be
  migrated without a family, give a chain of three, two successors of one token, or
  a legacy token and its successors, or two legacy tokens of which one is reused; two
  clients let grants be mixed up. Lifetime and clock bound let a token be live and
  past its expiry. There is no symmetry set, because the run checks liveness. The
  instance is this small because the theorems below remove all of its bounds for
  every safety property.
* `flow`: two authorization requests need two consent identifiers and two
  upstream states (four `Id`s); two handlers, two subjects and two codes let
  everything that could be swapped or duplicated be so. `TokenRequest`
  enumerates every combination of client, redirect, verifier and resource.
* `clients`: two handlers, so that one request is half-way while another one or a
  restart happens; a registered and a document client that share a redirect, an `https` and an
  `http` redirect on one host, a
  document client at a loopback address and one without TLS, documents that
  change or carry the identifier of another client (one that is gone is a fetch
  that fails), a resource client with
  two keys and a file with a bad one (one resource client only, for the number of
  states: old and new keys side by side are left to the theorem); an open, a
  closed and a local-development configuration; both backends. Two `jti`s, a skew
  of one and a clock of two give instants before, at and after expiry. The
  symmetry set permutes handlers and `jti`s, which appear in no other definition.
* `redirect_wildcard`: one registration that names the allowlist syntax.
* `assertion_single_use`: a skew of two and a clock of four give instants inside
  the tolerance; `MaxAccepted` caps the history counter at the first value that
  refutes single use.
* `token_cache`: three requests that differ in subject and in scope and two
  entries, so that a put evicts; two callers miss at once, the same key or two.
  Half seconds let a lifetime be rounded down. Requests last from no time to the
  whole run, so that answers arrive within and after the margin.
* `schema*`: three servers, so that one can meet two others at different
  points; every earlier version, and the absence of a file.
* `sqlite_store`: two handlers, an authorization code, a consent request and two
  refresh tokens of one family or of none, with the clock before and after their
  expiry. COMMIT and the answer are one step, so that a process which dies between
  them, and leaves a token used that nobody got, is not seen; to the caller this is
  a lost answer. The
  write lock and the snapshot are contended by two transactions at a time; the
  theorems cover any number.
* `exchange`: two handlers and two subjects; four upstream refresh tokens let a
  login and two rotations, or two logins, race; sessions expire after one tick of
  a clock that runs to two, so that a refreshed session expires again. All three
  kinds of provider are initial states.
* `key_cache`: two callers, so that one queues for, joins or forces past the
  other's request; two keys, one of which is missed while the other is found. All
  four verifiers run with a cache that outlives the throttle and misses remembered
  for longer than it, and the SDKs also with a cache shorter than the throttle.
  The clock reaches two, the longest interval, so that every cache expires and
  every throttle ends. Without the liveness property the run also passes with a
  clock of three (1.4 million states).

### Fairness

`refresh` assumes weak fairness of a handler that has a Store call to
make: the Go scheduler runs every runnable goroutine. No client is assumed to
send anything and no clock to advance. The code discards the error of
`RevokeRefreshFamily`, so `DetectedReuseIsRevoked` excepts the families of which a
fault prevented a revocation (`failed`).
Run `schema` assumes that a server that has started goes on and that one that
failed or died is started again, as the supervisor of a deployment does.
`EventuallyServes` has two premises, and says so in the formula: crashes stop at
some time, and the file is not the broken one of `schema_crash`.

`key_cache` assumes that a request of an SDK ends, since each has a timeout (10 s by
default; httpx in Python bounds each read rather than the request, so for a document that trickles
in for ever the assumption is generous), and that a queued caller gets the lock in the end (strong fairness, as
Go's mutex and asyncio's lock hand over to whoever has waited longest). The
server's default HTTP client has no timeout, so none of this is assumed of it:
`EveryVerificationIsAnswered` has the premise that its fetches end, and shows that
nothing else keeps a sign-in waiting. `OnlyAbsentKeysAreRefused` has a premise on the settings: with a cache
shorter than the throttle, Go refuses an expired key it still holds, and
TypeScript one whose earlier miss it still remembers, although the comment at
`verifier.ts:138` says that throttling never rejects a token the document can
verify. The default settings satisfy the premise.

## 4. Proofs

`RefreshRotationProofs` proves, for every set of handlers, tokens, families,
clients and authorities, any lifetime and any clock bound, with and without
faults:

| Theorem | States |
|---|---|
| `RotationInvariant` | `Spec => []RotationInv` |
| `TypeCorrect` | `TypeOK` |
| `RotationIsSafe` | `RotatedAtMostOnce` and `RotationPreservesGrant` |
| `FamiliesAreChains` | `OneHeadPerFamily` and `FamilyHasOneGrant` |
| `SettledRevocationIsFinal` | `SettledFamilyIsDead` |
| `NothingIsUnspent` | `SpentStaysSpent` |
| `RevocationsStayInFamily` | `RevocationStaysInFamily` |

The only assumption is `ConstantsAssumption`: the bounds are naturals and the
markers for absent values are none of the values.

The argument. None of the properties is inductive by itself: that a token has one
successor depends on what a handler that is about to save one knows. `InFlight`
states it: the token being rotated is used, has no successor yet, belongs to the
family and grant that were passed to `issueTokens`, and nobody else is rotating
it. `ParentIsUsed` keeps a token that has a successor from being consumed again,
and `SettledIsKnown` keeps the identifier of a dead family from being drawn for a
new one. `RotationInv` is these three, the type invariant and the properties.
The lemmas `MarkUsedSpends`, `RevokeTokenSpends` and `RevokeFamilySpends` say
that the Store operations only ever set marks on existing rows; `SpendingStep`
shows once that any such step with unchanged handlers preserves the invariant,
and the steps that also move a handler (`RedeemStep`, `ConsumeStep`,
`RevokeFamilyStep`, `SaveStep`) are proved one by one. `SaveStep` is the heart:
the fresh row is the only new live token, and `InFlight` and `OneHeadPerFamily`
leave no other one in its family.

`SQLiteStoreProofs` proves, for every set of handlers, values and families, any
lifetime and any clock bound:

| Theorem | States |
|---|---|
| `StoreHandsOutOnce` | the abstract `Spec` satisfies `ConsumedOnce` and `ReuseIsReal` |
| `WritersAreCurrent` | `SQLiteSpec` satisfies `WriterHasReadTheLatest` |
| `SQLiteImplementsStore` | `SQLiteSpec => Spec`, that is `ImplementsOneTimeStore` |
| `SQLiteHandsOutOnce` | hence `SQLiteSpec` satisfies `ConsumedOnce` and `ReuseIsReal` |

The assumptions are `StoreAssumption` and `LockAssumption`: types of the constants
and markers that are none of the values. The refinement mapping is the identity:
the statements of `SQLiteStore` act on the variables of `OneTimeStore` or leave
them alone, and a value is consumed at COMMIT. The argument has two invariants.
`HandedOutIsSpent` ties the history of answers to the rows: a value has been
handed out exactly if its row is used, or, for a consent request, gone.
`OnlyTokensHaveFamilies` and the separate treatment of an empty family make the
UPDATE of `RevokeRefreshFamily` the atomic revocation (`FamilyUpdateRevokes`).
`SQLiteInv` says what a method knows: a snapshot that is still the latest one
shows a value that may be consumed, and the holder of the write lock read the
latest one. `CommitConsumes` follows: the WHERE clause of its UPDATE matched,
which is what the code never asks. The two invariants need each other's step:
`SQLiteInvStep` uses the type of the rows that `StoreInvStep` gives through
`RefinementStep`.

`AuthorizationFlowProofs` proves, for every set of handlers, identifiers, codes,
clients, subjects and deployments, with and without faults:

| Theorem | States |
|---|---|
| `FlowTypeCorrect` | `TypeOK` |
| `RequestsNeverFork` | `RequestNeverForks` and `DenialIsFinal` |
| `CodesNeedApproval` | `CodeOnlyAfterApproval` |
| `UsersAreNotMixedUp` | `SubjectSignedInForRequest`, under a hypothesis on the deployments |
| `CodesHaveSessions` | `CodeHasSession` |
| `CodesAreRedeemedOnce` | `OneGrantPerCode` |
| `GrantsMatchApproval` | `TokensMatchApproval` |

`ConstantsAssumption` types the constants and keeps the markers apart from the
values. `FlowInv` is built in layers, each preserved with the help of the ones
below it. `FlowTypes` also says what a handler holds in each of its states.
`FlowOrigins`: every row, every request in a handler and every code carries the
request `/authorize` stored under its origin, and whatever has a verifier was
approved; this is why a `consent_id` sent to the callback gets nowhere.
`FlowCopies`: a request is in one place. `FlowSignIns`: a verifier belongs to one
redirect, sent for one request, so that an upstream login completes only the
request it was made for. `FlowSessions` and `FlowGrants` follow a request to its
session and its tokens.

The hypothesis of `UsersAreNotMixedUp` is that every interactive provider can
tell two sign-ins apart (`ChecksSignIn`): it enforces PKCE, or it returns an ID
token and no client sends a nonce, so that the server draws one. `Begin` sends a
challenge always, and a nonce where the connector requires an ID token with one
(`oidc.go:101`), but whether the provider looks at the challenge,
and whether it answers with an ID token, is up to the provider, and a nonce
that the client has chosen may be chosen twice. Without either, nothing in the
callback distinguishes one sign-in from another. Both deployments with an
upstream provider of run `flow` satisfy it, one in each way.

`ClientRegistryProofs` proves, for every set of clients, documents, names, files,
configurations and worlds, any skew and clock bound, and both stores:

| Theorem | States |
|---|---|
| `AssertionsAreRemembered`, `AssertionsAreNotReplayed` | `ClientAssertion` satisfies `UnexpiredIsRemembered` and `NoReplayBeforeExpiry` |
| `RegistryImplementsAssertions` | `RegistrySpec` implements the specification of `ClientAssertion` |
| `RegistryAssertionsAreNotReplayed` | hence it has the same two properties |
| `RegistryTypeCorrect` | `RegistryTypeOK` |
| `FetchesStayPublic` | `OnlyDialableIsContacted` |
| `CodesStayOnListedHosts` | `CodeStaysOnListedHost` |
| `RedemptionIsCurrent` | `RedeemedRedirectIsCurrent` |
| `KeysInForce` | `AssertionKeyInForce` |

The assumptions are `ConstantsAssumption` of `ClientAssertion` and
`RegistryAssumption`: the kinds of clients do not overlap (see section 2) and absent
values are none of the values. `RegistryInv` ties what a handler carries across a fetch to
the tables: `JobsAreCurrent` says that the code and redirect it has read are
still those of the row, and that a document which lists the redirect while the
handler waits is recorded as having done so; `PublicationsAreKept` says that every
document there is was published, so that the redirect of a URL client's code
matches one that was (`RedirectsOfCodes`), which is all that remains to be said
when the code is redeemed under another client; `SavedKeys` and `SignedKeys` tie
the keys in the table, and those of the assertions being verified, to the file
read at start-up, through `ServesOnceStarted`, by which nobody is served before
the last client is saved. `RedirectsOfCodes` is about every code, used ones too,
because rows of clients are never removed.

`TokenExchangeProofs` proves, for any number of handlers, subjects and tokens and
all kinds of provider:

| Theorem | States |
|---|---|
| `ExchangeTypeCorrect` | `TypeOK`, and that a busy handler holds a session with a refresh token |
| `SessionsStayUsable` | `SessionStaysUsable` |
| `RefreshTokensAreKept` | `RefreshTokenIsKept` |

`SessionStaysUsable` is not inductive: a save of one handler could overwrite the
good token of another. `ExchangeInv` says why it does not: every token in use was
issued and has one owner, and the replacement a handler is about to save is valid,
or its user is in `overtaken`. With a provider that rotates it is also unseen, in no
row and with no other handler, so that nobody can have shown it to the provider;
this keeps `overtaken` empty (`OnlyMixedOvertakes`). `StepTokens` states once that a step spreads at most one token,
which is new.

`KeyCacheProofs` proves, for any number of callers and keys, any lifetime, throttle
and memory of misses, and any delay of a request:

| Theorem | States |
|---|---|
| `KeyCacheTypeCorrect` | `TypeOK` |
| `AcceptedKeysAreRecent` | `AcceptedKeyIsRecent` |
| `RefusedKeysAreAbsent` | `OnlyAbsentKeysAreRefused`, with the premise `Coherent` the property has |
| `RotatedKeysAreFound` | `RotatedKeyIsFound` |
| `FetchesAreSpaced` | `RequestsAreSpaced` |

The theorems name `FairSpec` because the run does; the fairness is not used.
`KeyInv` bounds when the keys of the cache, and of the document on its way, were
last published (`KeysWereSeen`); says that a caller whose key was published all
along waits for an answer that has it or is still to be given (`SteadyCallers`);
that only TypeScript forces a request past another one and only once the throttle
has ended (`WaitersFitVerifier`); and that Python has missed no key of its
document since the load before (`MissesAreOld`). `ConstantsAssumption` only asks
that `Long` is as long as the longest setting.

`SchemaMigrationProofs` proves, for any number of servers:

| Theorem | States |
|---|---|
| `SchemaTypeCorrect` | `TypeOK` |
| `ServersHaveCurrentSchema` | `ServingHasCurrentSchema` |
| `LegacyClientsAreUnverified` | `LegacyClientsUnverified` |
| `UpgradesKeepOpenable` | `UpgradeKeepsOpenable` |

`SchemaInv` distinguishes two histories that never mix. In a file of an earlier
release the schema is always exactly that of `user_version`, since a migration is
one transaction, and whoever is about to migrate from a version read the current
one or finds the work done. In a file created by this release the version is 0
until everything is there, and a table is whole or absent, so a migration of a
half-created file fails instead of serving it. That failure is `schema_crash`.

`TokenExchangeClientProofs` proves, for any number of callers, requests and
entries:

| Theorem | States |
|---|---|
| `CacheStaysConsistent` | `CacheIsConsistent` |
| `HitsServeRequests` | `HitServesRequest` |
| `PromptHitsAreLive` | a hit whose answer stated a lifetime and took less than the margin is live at its issuer |
| `ClientImplementsLRUCache` | `ImplementsLRUCache` |

The assumptions are `ClientAssumption` and `NoRowAssumption`, which type the
constants; nothing is assumed about the margin or the duration of requests.
`ClientInv`: the list has
each key of the map once and is no longer than the capacity, and what the client
takes for the expiry of a token is late by at most the time its answer was underway
(`TokensAreTimely`), from which the margin is taken off at a hit.
The refinement maps `order` and `values` to the sequence of cached entries. It
rests on lemmas on sequences: mapping commutes with taking out an element and
with dropping the last one (`EntriesOfRemoveAt`, `EntriesOfFront`), so a hit is a
`Use` (`HitIsUse`), an expired entry a `Forget` (`MissIsForget`) and a put an
`Insert` (`PutIsInsert`).

Each inductive invariant was checked with TLC as an invariant of the run of its
module before it was proved.

What is only model-checked: liveness (`DetectedReuseIsRevoked`, `EventuallyServes`,
`EveryVerificationIsAnswered`), which is out of the prover's reach, and the four
violations, which are counterexamples.

## 5. Plan

Done, in this order: `Store`, `RefreshRotation` and its proofs (the tokens that
live longest); `AuthorizationFlow`; `ClientAssertion`; `SchemaMigration`;
`OneTimeStore`, `SQLiteStore` and their proofs; `TokenExchange`; `KeyCache`, one
instance per language's throttle and sharing rule; `RedirectURI` and
`ClientRegistry`, in one run with `ClientAssertion`, which it continues;
`LRUCache` and `TokenExchangeClient`; the proofs of the remaining modules.

Left:

1. Abstract specifications of the flow and of a refresh family (what a client sees
   of `AuthorizationFlow` and `RefreshRotation`), with proofs that the modules
   implement them.
2. `AuthServer`: `AuthorizationFlow` and `RefreshRotation` composed over one
   store, from approval to the last refresh.

## 6. Not modelled

Cryptography and encodings (`jwt.go`, `keys.go`, `signature.go`), the consent
page's HTML, discovery documents, CORS and HTTPS enforcement, audit logging,
the parsing of environment variables and connector presets, the SDKs' middleware
and challenges, and the choice of providers and exchangers in `cmd/auth-server`:
stateless, or fixed before the first request. The examples, deployment files and
conformance fixtures are not part of the program.
