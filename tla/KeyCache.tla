----------------------------- MODULE KeyCache -----------------------------
(***************************************************************************)
(* The signing keys a verifier fetches from a JWKS endpoint and caches:    *)
(* JWTVerifier of the Go, Python and TypeScript SDKs and jwksCache of the  *)
(* authorization server's OIDC provider.                                   *)
(*                                                                         *)
(* The four differ in who waits for whom.  Go and Python look once without *)
(* a lock and again under one, which is held across the request; the       *)
(* server holds its mutex from the start; TypeScript has no lock and       *)
(* shares one request in flight, and a token whose key is missing asks for *)
(* one that is newer than itself.  A lock is only ever held across a       *)
(* request, so a request in flight stands for it.                          *)
(*                                                                         *)
(* A key is named by its kid.  The endpoint may publish and withdraw keys  *)
(* at any time; a request is answered with what is published at some       *)
(* instant and the answer arrives later, or never.                         *)
(***************************************************************************)
EXTENDS Integers, FiniteSets

CONSTANTS Caller,      \* goroutines or tasks that verify tokens
          Kid, NoKid,
          Verifiers,   \* the verifiers that are checked, with their settings
          Long,        \* longer than every interval: the age of what never happened
          MaxTime      \* bound on the clock

SDKs == {"go", "python", "typescript", "server"}

\* jwks_ttl, jwks_min_fetch and unknown_key_ttl of the SDKs; the server only has
\* the first.
Verifier == [sdk : SDKs, ttl : Nat, minFetch : Nat, unknownTTL : Nat]

Never == -Long

Load == [state : {"none", "asked", "served"}, document : SUBSET Kid, since : 0 .. MaxTime]

NoLoad == [state |-> "none", document |-> {}, since |-> 0]

Answer == [kid : Kid, found : BOOLEAN, steady : BOOLEAN,
           cause : {"cached", "missed", "throttled", "loaded", "failed"}]

ASSUME ConstantsAssumption ==
    /\ Long \in Nat /\ MaxTime \in Nat
    /\ Verifiers \subseteq Verifier
    /\ NoKid \notin Kid
    /\ \A v \in Verifiers : v.ttl <= Long /\ v.minFetch <= Long /\ v.unknownTTL <= Long

VARIABLES verifier,      \* which verifier runs
          keys,          \* v.keys: the kids of the cached document
          loadedAt,      \* v.loadedAt; for the server, expiresAt less its lifetime
          lastRefresh,   \* v.lastRefresh
          missed,        \* v.unknownKeys: when each kid was last missed
          load,          \* the request in flight
          pc, kid,       \* where each caller is and the kid it waits for
          now,           \* time.Now()
          published,     \* external: the kids the endpoint publishes
          seen,          \* history: when each kid was last published
          steady,        \* history: callers whose kid was published ever since they
                         \* asked, and who need not put up with an older request
          took,          \* history: how long the last load took
          answers        \* history: what the last step has told its callers

cache == <<keys, loadedAt, lastRefresh, missed, took>>
vars == <<verifier, cache, load, pc, kid, now, published, seen, steady, answers>>

Init ==
    /\ verifier \in Verifiers
    /\ keys = {}
    /\ loadedAt = Never /\ lastRefresh = Never
    /\ missed = [k \in Kid |-> Never]
    /\ load = NoLoad
    /\ pc = [c \in Caller |-> "idle"]
    /\ kid = [c \in Caller |-> NoKid]
    /\ now = 0
    /\ published \in SUBSET Kid
    /\ seen = [k \in Kid |-> IF k \in published THEN 0 ELSE Never]
    /\ steady = {}
    /\ took = 0
    /\ answers = {}

-----------------------------------------------------------------------------
\* A document that never expires.
FreshOnceLoaded == keys # {}

Fresh == keys # {} /\ now - loadedAt < verifier.ttl

Throttled == now - lastRefresh < verifier.minFetch

RecentMiss(k) == now - missed[k] < verifier.unknownTTL /\ Throttled

Told(c, k, found, cause) ==
    [kid |-> k, found |-> found, steady |-> c \in steady, cause |-> cause]

\* Caller c, who asks for k, is told and done.
Reply(c, k, found, cause) ==
    /\ kid' = [kid EXCEPT ![c] = NoKid]
    /\ pc' = [pc EXCEPT ![c] = "idle"]
    /\ steady' = steady \ {c}
    /\ answers' = {Told(c, k, found, cause)}
    /\ UNCHANGED <<verifier, cache, load, now, published, seen>>

\* Caller c asks for k and waits.
Wait(c, k, label) ==
    /\ kid' = [kid EXCEPT ![c] = k]
    /\ pc' = [pc EXCEPT ![c] = label]
    /\ steady' = IF k \in published /\ (verifier.sdk = "typescript" /\ load # NoLoad
                                        => keys # {} /\ k \notin keys)
                 THEN steady \cup {c} ELSE steady
    /\ answers' = {}
    /\ UNCHANGED <<verifier, cache, now, published, seen>>

Request == [state |-> "asked", document |-> {}, since |-> now]

-----------------------------------------------------------------------------
\* The look that tries the missed kids before the cached ones.
MissedBeforeCached(c, k) ==
    \/ RecentMiss(k) /\ Reply(c, k, FALSE, "missed")
    \/ ~RecentMiss(k) /\ k \in keys /\ Fresh /\ Reply(c, k, TRUE, "cached")
    \/ ~RecentMiss(k) /\ ~(k \in keys /\ Fresh) /\ Wait(c, k, "queued") /\ UNCHANGED load

\* The look at the cache that Go and Python take before they queue for the lock.
LookUp(c, k) ==
    \/ k \in keys /\ Fresh /\ Reply(c, k, TRUE, "cached")
    \/ ~(k \in keys /\ Fresh) /\ RecentMiss(k) /\ Reply(c, k, FALSE, "missed")
    \/ ~(k \in keys /\ Fresh) /\ ~RecentMiss(k) /\ Wait(c, k, "queued") /\ UNCHANGED load

ensureKeys(c, k) == verifier.sdk = "go" /\ pc[c] = "idle" /\ LookUp(c, k)

ensure_key(c, k) == verifier.sdk = "python" /\ pc[c] = "idle" /\ LookUp(c, k)

\* The server's resolve locks first.
resolve(c, k) ==
    verifier.sdk = "server" /\ pc[c] = "idle" /\ Wait(c, k, "queued") /\ UNCHANGED load

\* A token whose key the document in hand lacks joins any request in flight.
JoinsAny(k) == FALSE

\* A token whose key the document in hand lacks needs a request of its own.
Forces(k) == keys # {} /\ k \notin keys

\* TypeScript: the same look, the throttle, and then load.
signingKey(c, k) ==
    /\ verifier.sdk = "typescript" /\ pc[c] = "idle"
    /\ \/ k \in keys /\ Fresh /\ Reply(c, k, TRUE, "cached")
       \/ /\ ~(k \in keys /\ Fresh)
          /\ \/ RecentMiss(k) /\ Reply(c, k, FALSE, "missed")
             \/ ~RecentMiss(k) /\ Throttled /\ Reply(c, k, k \in keys, "throttled")
             \/ /\ ~RecentMiss(k) /\ ~Throttled
                /\ IF load = NoLoad
                   THEN Wait(c, k, "waiting") /\ load' = Request
                   ELSE Wait(c, k, IF Forces(k) THEN "forcing" ELSE "waiting") /\ UNCHANGED load

StartLoad(c) ==
    /\ pc' = [pc EXCEPT ![c] = "waiting"]
    /\ load' = Request
    /\ answers' = {}
    /\ UNCHANGED <<verifier, cache, kid, now, published, seen, steady>>

\* The second look that forgets the throttle.
LockedWithoutThrottle(c) ==
    /\ pc[c] = "queued" /\ load = NoLoad
    /\ \/ kid[c] \in keys /\ Fresh /\ Reply(c, kid[c], TRUE, "cached")
       \/ ~(kid[c] \in keys /\ Fresh) /\ StartLoad(c)

\* The look under the lock, which is free if no request is in flight.  Go turns a
\* throttled caller away and Python makes do with the key it has; the server has
\* no throttle.
LookUpLocked(c) ==
    /\ pc[c] = "queued" /\ load = NoLoad
    /\ \/ kid[c] \in keys /\ Fresh /\ Reply(c, kid[c], TRUE, "cached")
       \/ /\ ~(kid[c] \in keys /\ Fresh)
          /\ \/ /\ verifier.sdk # "server" /\ Throttled
                /\ Reply(c, kid[c], verifier.sdk = "python" /\ kid[c] \in keys, "throttled")
             \/ /\ verifier.sdk = "server" \/ ~Throttled
                /\ StartLoad(c)

-----------------------------------------------------------------------------
\* External: the endpoint answers the request.
Serve ==
    /\ load.state = "asked"
    /\ load' = [load EXCEPT !.state = "served", !.document = published]
    /\ answers' = {}
    /\ UNCHANGED <<verifier, cache, pc, kid, now, published, seen, steady>>

Waiting == {c \in Caller : pc[c] = "waiting"}
Forcing == {c \in Caller : pc[c] = "forcing"}

\* The answer arrives and replaces the cache.  Everybody who waited for this
\* request is answered from it; those who insisted on a newer one share the next.
\* The server takes an empty document for an error.
Loaded ==
    /\ load.state = "served"
    /\ verifier.sdk = "server" => load.document # {}
    /\ keys' = load.document
    /\ loadedAt' = now /\ lastRefresh' = now
    /\ took' = now - load.since
    /\ missed' = [k \in Kid |-> IF verifier.sdk # "server" /\ \E c \in Waiting : kid[c] = k
                                THEN IF k \in load.document THEN Never ELSE now
                                ELSE missed[k]]
    /\ answers' = {Told(c, kid[c], kid[c] \in load.document, "loaded") : c \in Waiting}
    /\ pc' = [c \in Caller |-> CASE c \in Waiting -> "idle"
                                 [] c \in Forcing -> "waiting"
                                 [] OTHER -> pc[c]]
    /\ kid' = [c \in Caller |-> IF c \in Waiting THEN NoKid ELSE kid[c]]
    /\ steady' = steady \ Waiting
    /\ load' = IF Forcing = {} THEN NoLoad ELSE Request
    /\ UNCHANGED <<verifier, now, published, seen>>

\* A failed request that is left behind as if it were still in flight.
FailsWithoutRelease ==
    /\ load # NoLoad
    /\ answers' = {Told(c, kid[c], FALSE, "failed") : c \in Waiting \cup Forcing}
    /\ pc' = [c \in Caller |-> IF c \in Waiting \cup Forcing THEN "idle" ELSE pc[c]]
    /\ kid' = [c \in Caller |-> IF c \in Waiting \cup Forcing THEN NoKid ELSE kid[c]]
    /\ steady' = steady \ (Waiting \cup Forcing)
    /\ load' = load
    /\ UNCHANGED <<verifier, cache, now, published, seen>>

\* The request times out, is cancelled by the caller that made it, or is
\* answered with an error or a document that cannot be used: everybody who
\* waited for it fails, and nothing is remembered.
LoadFails ==
    /\ load # NoLoad
    /\ answers' = {Told(c, kid[c], FALSE, "failed") : c \in Waiting \cup Forcing}
    /\ pc' = [c \in Caller |-> IF c \in Waiting \cup Forcing THEN "idle" ELSE pc[c]]
    /\ kid' = [c \in Caller |-> IF c \in Waiting \cup Forcing THEN NoKid ELSE kid[c]]
    /\ steady' = steady \ (Waiting \cup Forcing)
    /\ load' = NoLoad
    /\ UNCHANGED <<verifier, cache, now, published, seen>>

\* External: keys are published and withdrawn.
Rotate(document) ==
    /\ document # published
    /\ published' = document
    /\ seen' = [k \in Kid |-> IF k \in published \cup document THEN now ELSE seen[k]]
    /\ steady' = {c \in steady : kid[c] \in document}
    /\ answers' = {}
    /\ UNCHANGED <<verifier, cache, load, pc, kid, now>>

Tick ==
    /\ now < MaxTime
    /\ now' = now + 1
    /\ seen' = [k \in Kid |-> IF k \in published THEN now' ELSE seen[k]]
    /\ answers' = {}
    /\ UNCHANGED <<verifier, cache, load, pc, kid, published, steady>>

Next ==
    \/ \E c \in Caller :
         \/ \E k \in Kid : ensureKeys(c, k) \/ ensure_key(c, k) \/ signingKey(c, k) \/ resolve(c, k)
         \/ LookUpLocked(c)
    \/ Serve
    \/ Loaded
    \/ LoadFails
    \/ \E document \in SUBSET Kid : Rotate(document)
    \/ Tick

\* Locks are handed to whoever waits long enough, and the SDKs' requests end
\* because they have a timeout; those of the server have none.
FairSpec ==
    /\ Init /\ [][Next]_vars
    /\ \A c \in Caller : SF_vars(LookUpLocked(c))
    /\ WF_vars(verifier.sdk # "server" /\ (Loaded \/ LoadFails))

-----------------------------------------------------------------------------
TypeOK ==
    /\ verifier \in Verifiers
    /\ keys \in SUBSET Kid
    /\ {loadedAt, lastRefresh} \subseteq {Never} \cup (0 .. MaxTime)
    /\ missed \in [Kid -> {Never} \cup (0 .. MaxTime)]
    /\ load \in Load
    /\ pc \in [Caller -> {"idle", "queued", "waiting", "forcing"}]
    /\ kid \in [Caller -> Kid \cup {NoKid}]
    /\ \A c \in Caller : pc[c] = "idle" <=> kid[c] = NoKid
    /\ now \in 0 .. MaxTime /\ took \in 0 .. MaxTime
    /\ published \in SUBSET Kid
    /\ seen \in [Kid -> {Never} \cup (0 .. MaxTime)]
    /\ steady \in SUBSET Caller
    /\ answers \in SUBSET Answer

\* How long a cached document is relied on: Python and TypeScript fall back on it
\* while they may not fetch another one.
Lifetime ==
    IF verifier.sdk \in {"python", "typescript"} /\ verifier.minFetch > verifier.ttl
    THEN verifier.minFetch ELSE verifier.ttl

\* A key that was withdrawn stops being accepted: one that a verifier uses was
\* published less than a cache lifetime ago, give or take the time the request
\* took, whatever loads overlapped and failed meanwhile.
AcceptedKeyIsRecent ==
    \A a \in answers : a.found =>
        \/ now - seen[a.kid] < Lifetime + took
        \/ a.cause = "loaded" /\ now - seen[a.kid] <= took

\* The settings under which the caches below never contradict their document.
Coherent ==
    \/ verifier.sdk = "server"
    \/ verifier.ttl >= verifier.minFetch
    \/ verifier.sdk = "python" /\ verifier.unknownTTL <= verifier.minFetch

\* A token is turned away for its key only if the last document does not have
\* the key and is too young to be asked for again; failed requests aside.
OnlyAbsentKeysAreRefused ==
    Coherent =>
        \A a \in answers : ~a.found /\ a.cause # "failed" =>
            a.kid \notin keys /\ (Throttled \/ lastRefresh = now)

\* Key rotation: a key that has been published since before the token came is
\* found by the request it waits for.  A caller of TypeScript that has no key at
\* all, or one that has expired, shares an older request and is not meant.
RotatedKeyIsFound ==
    \A a \in answers : a.cause = "loaded" /\ a.steady => a.found

\* Callers cannot make an SDK fetch documents in quick succession: a request is
\* made only if no load has succeeded within the interval, that load excepted
\* which TypeScript's forced request has waited for.
RequestsAreSpaced ==
    [][load'.state = "asked" /\ load' # load /\ verifier.sdk # "server" =>
           now - lastRefresh >= verifier.minFetch]_vars

\* Every verification ends, whoever else queues, waits or fails: by an SDK
\* always, and a sign-in at the server as long as the requests for keys do.  The
\* mutex that resolve holds across them delays those who queue and starves none.
EveryVerificationIsAnswered ==
    \A c \in Caller :
        []<>(verifier.sdk = "server" => load = NoLoad)
            => (pc[c] # "idle") ~> (pc[c] = "idle")
=============================================================================
