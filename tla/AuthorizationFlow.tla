------------------------- MODULE AuthorizationFlow -------------------------
(***************************************************************************)
(* The authorization-code flow of auth-server/server/server.go: GET        *)
(* /authorize, POST /authorize/consent, GET /identity/callback and the     *)
(* authorization_code grant of POST /token, with the OIDC identity         *)
(* provider of oidc.go and the consent, code and session tables of the     *)
(* Store.                                                                  *)
(*                                                                         *)
(* A request is served by a Handler that holds no lock between two Store   *)
(* calls; every Store call and every answer of the upstream provider is a  *)
(* step.  Anything a browser or client may send may be sent at any time:   *)
(* any identifier to any endpoint, any number of times.  One table holds   *)
(* both the consent identifiers shown on the consent page and the state    *)
(* values sent to the upstream provider.                                   *)
(***************************************************************************)
EXTENDS Store, FiniteSets

CONSTANTS Handler,               \* goroutines
          Id,                    \* values randomID returns for consent_id and upstream state
          Code,                  \* values randomID returns for authorization codes
          Client, Redirect, Verifier, Resource, Scope, Subject,
          ClientNonce,           \* nonce parameters clients send
          Registered,            \* redirect URIs clientRedirectPermitted accepts, per client
          AllowedScopes,         \* Config.AllowedScopes
          Deployments,           \* the configurations a server may run with
          Requests(_),           \* the authorization requests that are sent to each
          CodeTTL,               \* Config.AuthorizationCodeTTL
          MaxTime,               \* bound on the clock
          Faults,                \* whether the Store, Sign and the process may fail
          Empty                  \* the empty string of an absent parameter

S256(v) == <<"S256", v>>

\* An authorization request as it is parsed: nonce is what the client sent, or
\* Empty; challenge is the code_challenge, or Empty.
Request == [client    : Client,
            redirect  : Redirect,
            challenge : {S256(v) : v \in Verifier} \cup {Empty},
            resource  : Resource \cup {Empty},
            scope     : SUBSET Scope,
            nonce     : ClientNonce \cup {Empty}]

\* Random values other than Id and Code are named after the identifier that is
\* drawn in the same call, which makes them as fresh as it is.
RandomNonce(i)  == <<"nonce", i>>
CodeVerifier(i) == <<"verifier", i>>

Nonce == ClientNonce \cup {RandomNonce(i) : i \in Id}
Challenge == {S256(CodeVerifier(i)) : i \in Id}

ConsentRow == [request  : Request,
               nonce    : Nonce,
               verifier : {CodeVerifier(i) : i \in Id} \cup {Empty},
               expires  : Nat,
               origin   : Id]      \* history: the consent_id /authorize drew

CodeRow == [request : Request,
            subject : Subject,
            expires : Nat,
            used    : BOOLEAN,
            origin  : Id]          \* history

\* A sign-in at the upstream provider: the challenge and nonce of the redirect
\* it answers, and who signed in.
Login == [challenge : Challenge,
          nonce     : Nonce,
          subject   : Subject,
          origin    : Id]          \* history

\* How a server is deployed; it does not change while the server runs.
Deployment == [interactive : BOOLEAN,        \* an InteractiveIdentityProvider
               idToken     : BOOLEAN,        \* whose connector requires an ID token, hence a nonce
               pkce        : BOOLEAN,        \* whose token endpoint enforces PKCE
               accessToken : BOOLEAN,        \* and answers with an upstream access token
               local       : BOOLEAN,        \* Config.LocalDevelopment
               resources   : SUBSET Resource] \* Config.configuredResources()

ASSUME ConstantsAssumption ==
    /\ CodeTTL \in Nat /\ MaxTime \in Nat
    /\ Faults \in BOOLEAN
    /\ Registered \in [Client -> SUBSET Redirect]
    /\ AllowedScopes \subseteq Scope
    /\ Deployments \subseteq Deployment
    /\ \A d \in Deployments : Requests(d) \subseteq Request
    /\ NoRow \notin ConsentRow \cup CodeRow
    /\ Empty \notin Id \cup ClientNonce \cup Resource \cup Subject
    /\ \A i \in Id : CodeVerifier(i) # Empty
    /\ \A v \in Verifier : S256(v) # Empty

VARIABLES config,     \* s.Config and s.IdentityProvider
          consent,    \* Store.consent
          codes,      \* Store.codes
          sessions,   \* Store.upstreamSessions: the origin of the login that wrote it
          now,        \* s.now()
          pc,         \* where each handler is between two steps
          pending,    \* the ConsentRequest a handler has consumed
          subject,    \* Identity.Subject
          code,       \* the code whose tokens a handler is issuing
          begun,      \* external: redirects sent to the upstream provider
          logins,     \* external: sign-ins the provider has a code for
          drawn,      \* history: identifiers randomID has returned
          asked,      \* history: the request stored by /authorize, per consent_id
          approved,   \* history: consent_ids approved
          denied,     \* history: consent_ids denied
          issued      \* history: the grants issueTokens was completed for

tables == <<consent, codes, sessions>>
handlerVars == <<pc, pending, subject, code>>
provider == <<begun, logins>>
history == <<drawn, asked, approved, denied, issued>>
vars == <<config, tables, now, handlerVars, provider, history>>

-----------------------------------------------------------------------------
Init ==
    /\ config \in Deployments
    /\ consent  = [i \in Id |-> NoRow]
    /\ codes    = [k \in Code |-> NoRow]
    /\ sessions = [u \in Subject |-> Empty]
    /\ now = 0
    /\ pc      = [h \in Handler |-> "idle"]
    /\ pending = [h \in Handler |-> NoRow]
    /\ subject = [h \in Handler |-> Empty]
    /\ code    = [h \in Handler |-> Empty]
    /\ begun = {} /\ logins = {}
    /\ drawn = {}
    /\ asked = [i \in Id |-> NoRow]
    /\ approved = {} /\ denied = {}
    /\ issued = {}

\* The handler moves on with the consumed request row and the subject u.
Goto(h, label, row, u) ==
    /\ pc'      = [pc EXCEPT ![h] = label]
    /\ pending' = [pending EXCEPT ![h] = row]
    /\ subject' = [subject EXCEPT ![h] = u]
    /\ UNCHANGED code

\* The handler writes its response and its goroutine ends.
Respond(h) ==
    /\ pc'      = [pc EXCEPT ![h] = "idle"]
    /\ pending' = [pending EXCEPT ![h] = NoRow]
    /\ subject' = [subject EXCEPT ![h] = Empty]
    /\ code'    = [code EXCEPT ![h] = Empty]

-----------------------------------------------------------------------------
\* parseAuthorizationRequest fills in the resource when only one is configured.
WithResource(r) ==
    IF r.resource = Empty /\ Cardinality(config.resources) = 1
    THEN [r EXCEPT !.resource = CHOOSE x \in config.resources : TRUE]
    ELSE r

\* parseAuthorizationRequest accepts r (resolveClient knows every Client).
ValidRequest(r) ==
    /\ r.challenge # Empty
    /\ r.redirect \in Registered[r.client]
    /\ WithResource(r).resource \in config.resources
    /\ r.scope \subseteq AllowedScopes

PendingConsent(r, i) ==
    [request |-> WithResource(r),
     nonce   |-> IF r.nonce = Empty THEN RandomNonce(i) ELSE r.nonce,
     verifier |-> Empty, expires |-> now + CodeTTL, origin |-> i]

\* GET /authorize stores the request under a new consent_id and shows the page.
authorize(r, i) ==
    /\ ValidRequest(r)
    /\ i \notin drawn
    /\ consent' = [consent EXCEPT ![i] = PendingConsent(r, i)]
    /\ drawn' = drawn \cup {i}
    /\ asked' = [asked EXCEPT ![i] = WithResource(r)]
    /\ UNCHANGED <<codes, sessions, now, config, handlerVars, provider, approved, denied, issued>>

\* finishConsent after a successful ConsumeConsentRequest of row and an approval:
\* an interactive provider goes on to Begin, another one authenticates at once.
Approve(h, row) ==
    /\ approved' = approved \cup {row.origin}
    /\ \/ config.interactive /\ Goto(h, "beginning", row, Empty)
       \/ ~config.interactive /\ \E u \in Subject : Goto(h, "coding", row, u)
       \/ ~config.interactive /\ UNCHANGED handlerVars     \* Authenticate failed

\* GET /authorize?approve=true of a local-development server: finishConsent runs
\* in the same handler on a consent_id nobody else has seen.
authorizeApproved(h, r, i) ==
    /\ config.local
    /\ pc[h] = "idle"
    /\ ValidRequest(r)
    /\ i \notin drawn
    /\ drawn' = drawn \cup {i}
    /\ asked' = [asked EXCEPT ![i] = WithResource(r)]
    /\ Approve(h, PendingConsent(r, i))
    /\ UNCHANGED <<tables, now, config, provider, denied, issued>>

\* Consent that leaves the row in place until the flow completes.
ConsumeAtTheEnd(h, i, approve) ==
    /\ pc[h] = "idle" /\ approve
    /\ ConsentStatus(consent[i], now) = "ok"
    /\ Approve(h, consent[i])
    /\ UNCHANGED <<tables, now, config, provider, drawn, asked, denied, issued>>

\* Consent that deletes the row only once it is approved.
KeepDenied(h, i, approve) ==
    /\ pc[h] = "idle"
    /\ ConsentStatus(consent[i], now) = "ok"
    /\ IF approve
       THEN consent' = DeleteRow(consent, i) /\ Approve(h, consent[i]) /\ UNCHANGED denied
       ELSE /\ denied' = denied \cup {consent[i].origin}
            /\ UNCHANGED <<consent, handlerVars, approved>>
    /\ UNCHANGED <<codes, sessions, now, config, provider, drawn, asked, issued>>

\* POST /authorize/consent with consent_id = i.
finishConsent(h, i, approve) ==
    /\ pc[h] = "idle"
    /\ ConsentStatus(consent[i], now) = "ok"
    /\ consent' = DeleteRow(consent, i)
    /\ IF approve
       THEN Approve(h, consent[i]) /\ UNCHANGED denied
       ELSE /\ denied' = denied \cup {consent[i].origin}
            /\ UNCHANGED <<handlerVars, approved>>
    /\ UNCHANGED <<codes, sessions, now, config, provider, drawn, asked, issued>>

\* Begin with one verifier for every sign-in.
SharedVerifier(s) == CodeVerifier(Empty)

\* The code_verifier Begin draws together with the upstream state s.
BeginVerifier(s) == CodeVerifier(s)

\* finishConsent: Begin builds the upstream redirect and the row is stored again
\* under the upstream state, with its verifier and a new deadline.
SaveUpstreamState(h, s) ==
    /\ pc[h] = "beginning"
    /\ s \notin drawn
    /\ drawn' = drawn \cup {s}
    /\ consent' = [consent EXCEPT ![s] = [pending[h] EXCEPT !.verifier = BeginVerifier(s),
                                                            !.expires = now + CodeTTL]]
    /\ begun' = begun \cup {[challenge |-> S256(BeginVerifier(s)),
                             nonce |-> pending[h].nonce, origin |-> pending[h].origin]}
    /\ Respond(h)
    /\ UNCHANGED <<codes, sessions, now, config, logins, asked, approved, denied, issued>>

-----------------------------------------------------------------------------
\* External: somebody signs in at the provider, following one of its redirects.
SignIn(b, u) ==
    /\ logins' = logins \cup {[challenge |-> b.challenge, nonce |-> b.nonce,
                               subject |-> u, origin |-> b.origin]}
    /\ UNCHANGED <<tables, now, config, handlerVars, begun, history>>

\* GET /identity/callback with state = i: the row is consumed first, whatever
\* else the request carries.
identityCallback(h, i) ==
    /\ config.interactive
    /\ pc[h] = "idle"
    /\ ConsentStatus(consent[i], now) = "ok"
    /\ consent' = DeleteRow(consent, i)
    /\ Goto(h, "completing", consent[i], Empty)
    /\ UNCHANGED <<codes, sessions, now, config, provider, history>>

\* Complete without its check that the row carries a verifier.
AcceptsWithoutVerifierCheck(row, l) ==
    /\ config.pkce /\ row.verifier # Empty => l.challenge = S256(row.verifier)
    /\ config.idToken => l.nonce = row.nonce

\* Complete that takes the ID token's nonce for granted.
AcceptsAnyNonce(row, l) ==
    /\ row.verifier # Empty
    /\ config.pkce => l.challenge = S256(row.verifier)

\* Complete returns an identity for the consumed row when the browser brings the
\* upstream code of login l: the row must hold a verifier, the provider checks
\* it if it enforces PKCE, and verifyIDToken checks the nonce if there is an ID
\* token.
CompleteAccepts(row, l) ==
    /\ row.verifier # Empty
    /\ config.pkce => l.challenge = S256(row.verifier)
    /\ config.idToken => l.nonce = row.nonce

\* identityCallback calls completeAuthorization, which has a session to save if
\* the provider answered with an access token.
Complete(h, l) ==
    /\ pc[h] = "completing"
    /\ CompleteAccepts(pending[h], l)
    /\ Goto(h, IF config.accessToken THEN "session" ELSE "coding", pending[h], l.subject)
    /\ UNCHANGED <<tables, now, config, provider, history>>

\* identityCallback is given an error parameter, or Complete fails.
CompleteFails(h) ==
    /\ pc[h] = "completing"
    /\ Respond(h)
    /\ UNCHANGED <<tables, now, config, provider, history>>

\* completeAuthorization that carries on when the session could not be saved.
IgnoreSessionError(h) ==
    /\ pc[h] = "session"
    /\ sessions' \in {sessions, [sessions EXCEPT ![subject[h]] = pending[h].origin]}
    /\ Goto(h, "coding", pending[h], subject[h])
    /\ UNCHANGED <<consent, codes, now, config, provider, history>>

\* completeAuthorization saves the user's upstream session first ...
SaveUpstreamSession(h) ==
    /\ pc[h] = "session"
    /\ sessions' = [sessions EXCEPT ![subject[h]] = pending[h].origin]
    /\ Goto(h, "coding", pending[h], subject[h])
    /\ UNCHANGED <<consent, codes, now, config, provider, history>>

\* ... and then the authorization code, which the redirect carries.
SaveAuthorizationCode(h, k) ==
    /\ pc[h] = "coding"
    /\ codes[k] = NoRow
    /\ codes' = [codes EXCEPT ![k] = [request |-> pending[h].request, subject |-> subject[h],
                                      expires |-> now + CodeTTL, used |-> FALSE,
                                      origin |-> pending[h].origin]]
    /\ Respond(h)
    /\ UNCHANGED <<consent, sessions, now, config, provider, history>>

-----------------------------------------------------------------------------
\* What a client sends with grant_type=authorization_code.
TokenRequest == [client   : Client,
                 redirect : Redirect,
                 verifier : Verifier,
                 resource : Resource \cup {Empty}]

\* Redemption that forgets to compare the verifier with the challenge.
MatchesWithoutPKCE(row, q, a) ==
    /\ q.client = row.request.client
    /\ q.redirect = row.request.redirect
    /\ row.request.redirect \in Registered[a]
    /\ q.resource \in {Empty, row.request.resource}

\* authorizationCodeToken's checks of the consumed code against the form q, for
\* a request authenticated as client a.
MatchesCode(row, q, a) ==
    /\ q.client = row.request.client
    /\ q.redirect = row.request.redirect
    /\ row.request.redirect \in Registered[a]
    /\ S256(q.verifier) = row.request.challenge
    /\ q.resource \in {Empty, row.request.resource}

\* The consumed code k passes q's checks and its tokens are being issued.
CallIssueTokens(h, k, q) ==
    /\ pc'   = [pc EXCEPT ![h] = "issuing"]
    /\ code' = [code EXCEPT ![h] = [value |-> k, verifier |-> q.verifier]]
    /\ UNCHANGED <<pending, subject>>

\* Redemption that looks the code up without marking it used.
RedeemWithoutConsuming(h, k, q, a) ==
    /\ pc[h] = "idle"
    /\ CodeStatus(codes[k], now) = "ok"
    /\ MatchesCode(codes[k], q, a)
    /\ CallIssueTokens(h, k, q)
    /\ UNCHANGED <<tables, now, config, provider, history>>

\* POST /token, authorization_code: the code is used up before it is checked.
authorizationCodeToken(h, k, q, a) ==
    /\ pc[h] = "idle"
    /\ CodeStatus(codes[k], now) = "ok"
    /\ codes' = MarkUsed(codes, k)
    /\ IF MatchesCode(codes[k], q, a)
       THEN CallIssueTokens(h, k, q)
       ELSE UNCHANGED handlerVars
    /\ UNCHANGED <<consent, sessions, now, config, provider, history>>

\* issueTokens signs the access token and saves a refresh token (RefreshRotation
\* continues from there).
issueTokens(h) ==
    /\ pc[h] = "issuing"
    /\ LET row == codes[code[h].value]
       IN  issued' = issued \cup {[code |-> code[h].value, verifier |-> code[h].verifier,
                                   client |-> row.request.client, subject |-> row.subject,
                                   scope |-> row.request.scope, resource |-> row.request.resource]}
    /\ Respond(h)
    /\ UNCHANGED <<tables, now, config, provider, drawn, asked, approved, denied>>

-----------------------------------------------------------------------------
\* A Store call or Sign returns an error: the handler answers server_error.
StoreFails(h) ==
    /\ Faults
    /\ pc[h] \in {"beginning", "session", "coding", "issuing"}
    /\ Respond(h)
    /\ UNCHANGED <<tables, now, config, provider, history>>

\* The process dies and is restarted over the same database.
Crash ==
    /\ Faults
    /\ pc'      = [h \in Handler |-> "idle"]
    /\ pending' = [h \in Handler |-> NoRow]
    /\ subject' = [h \in Handler |-> Empty]
    /\ code'    = [h \in Handler |-> Empty]
    /\ UNCHANGED <<tables, now, config, provider, history>>

Tick ==
    /\ now < MaxTime
    /\ now' = now + 1
    /\ UNCHANGED <<config, tables, handlerVars, provider, history>>

Next ==
    \/ \E r \in Requests(config), i \in Id : authorize(r, i)
    \/ \E h \in Handler :
         \/ \E r \in Requests(config), i \in Id : authorizeApproved(h, r, i)
         \/ \E i \in Id, approve \in BOOLEAN : finishConsent(h, i, approve)
         \/ \E s \in Id : SaveUpstreamState(h, s)
         \/ \E i \in Id : identityCallback(h, i)
         \/ \E l \in logins : Complete(h, l)
         \/ CompleteFails(h)
         \/ SaveUpstreamSession(h)
         \/ \E k \in Code : SaveAuthorizationCode(h, k)
         \/ \E k \in Code, q \in TokenRequest, a \in Client : authorizationCodeToken(h, k, q, a)
         \/ issueTokens(h)
         \/ StoreFails(h)
    \/ \E b \in begun, u \in Subject : SignIn(b, u)
    \/ Crash
    \/ Tick

Spec == Init /\ [][Next]_vars

-----------------------------------------------------------------------------
HandlerCode == [value : Code, verifier : Verifier] \cup {Empty}

TypeOK ==
    /\ config \in Deployments
    /\ consent \in [Id -> ConsentRow \cup {NoRow}]
    /\ codes \in [Code -> CodeRow \cup {NoRow}]
    /\ sessions \in [Subject -> Id \cup {Empty}]
    /\ now \in 0 .. MaxTime
    /\ pc \in [Handler -> {"idle", "beginning", "completing", "session", "coding", "issuing"}]
    /\ pending \in [Handler -> ConsentRow \cup {NoRow}]
    /\ subject \in [Handler -> Subject \cup {Empty}]
    /\ code \in [Handler -> HandlerCode]
    /\ begun \subseteq [challenge : Challenge, nonce : Nonce, origin : Id]
    /\ logins \subseteq Login
    /\ drawn \subseteq Id /\ approved \subseteq Id /\ denied \subseteq Id
    /\ asked \in [Id -> Request \cup {NoRow}]

\* Who still holds the request that /authorize stored under consent_id i: rows
\* of the consent table, handlers between two steps, and codes.
Rows(i)     == {j \in Id : consent[j] # NoRow /\ consent[j].origin = i}
Carriers(i) == {h \in Handler : pending[h] # NoRow /\ pending[h].origin = i}
CodesOf(i)  == {k \in Code : codes[k] # NoRow /\ codes[k].origin = i}

\* An authorization request never forks: it is one row, one handler's pending
\* request or one code, however consent posts and callbacks are repeated or
\* raced.  In particular one consent yields at most one code.
RequestNeverForks ==
    \A i \in Id :
        /\ \A x, y \in Rows(i) : x = y
        /\ \A x, y \in Carriers(i) : x = y
        /\ \A x, y \in CodesOf(i) : x = y
        /\ Rows(i) = {} \/ Carriers(i) = {}
        /\ Rows(i) = {} \/ CodesOf(i) = {}
        /\ Carriers(i) = {} \/ CodesOf(i) = {}

\* A code exists only for a request whose consent was approved, and it carries
\* that very request: no callback, in whatever order, turns a consent_id into a
\* code without the consent page.
CodeOnlyAfterApproval ==
    \A k \in Code : codes[k] # NoRow =>
        /\ codes[k].origin \in approved
        /\ codes[k].request = asked[codes[k].origin]

\* Denying consent is final: no code, no pending row and no handler is left.
DenialIsFinal ==
    \A i \in denied : Rows(i) = {} /\ Carriers(i) = {} /\ CodesOf(i) = {}

\* With an interactive provider, the subject of a code is somebody who signed in
\* upstream for this very authorization request: the callbacks of two browsers
\* cannot be mixed up.
SubjectSignedInForRequest ==
    config.interactive =>
        \A k \in Code : codes[k] # NoRow =>
            \E l \in logins : l.origin = codes[k].origin /\ l.subject = codes[k].subject

\* If the upstream provider gives out access tokens, whoever has a code has an
\* upstream session for the token exchange to use, even when one of the two
\* saves fails.
CodeHasSession ==
    config.interactive /\ config.accessToken =>
        \A k \in Code : codes[k] # NoRow => sessions[codes[k].subject] # Empty

\* A code is exchanged once: its tokens are being issued by one handler at most,
\* and not again once they were issued.
OneGrantPerCode ==
    \A h \in Handler : pc[h] = "issuing" =>
        /\ \A i \in Handler : pc[i] = "issuing" /\ code[i].value = code[h].value => i = h
        /\ \A g \in issued : g.code # code[h].value

\* Tokens convey what was approved and go to whoever knows the verifier: client,
\* scope, resource and challenge are those of the approved request, the resource
\* is one of the configured ones and the scope is allowed.
TokensMatchApproval ==
    \A g \in issued : \E i \in approved :
        /\ codes[g.code].origin = i
        /\ g.client = asked[i].client
        /\ g.scope = asked[i].scope /\ g.scope \subseteq AllowedScopes
        /\ g.resource = asked[i].resource /\ g.resource \in config.resources
        /\ S256(g.verifier) = asked[i].challenge
        /\ g.subject = codes[g.code].subject
=============================================================================
