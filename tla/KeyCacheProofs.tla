--------------------------- MODULE KeyCacheProofs ---------------------------
(***************************************************************************)
(* Proofs about KeyCache, for every number of callers and keys, every      *)
(* setting of the four verifiers and every schedule of the requests and of *)
(* the endpoint's rotations.                                               *)
(*                                                                         *)
(* What a verifier tells its callers is judged by history that the code    *)
(* does not have: when a key was last published, and whether it was        *)
(* published all along.  The invariant ties the cache, the request in      *)
(* flight and the callers that wait to that history.                       *)
(***************************************************************************)
EXTENDS KeyCache, TLAPS

\* Nothing happens in the future, and the cache has one time stamp.
Clocks ==
    /\ loadedAt = lastRefresh /\ lastRefresh <= now
    /\ load.since <= now
    /\ keys # {} => lastRefresh \in Nat

\* When the keys that are published, fetched and cached were last published.
KeysWereSeen ==
    /\ \A k \in Kid : seen[k] <= now
    /\ \A k \in published : seen[k] = now
    /\ load.state = "served" => \A k \in load.document : load.since <= seen[k]
    /\ \A k \in keys : loadedAt - took <= seen[k]

\* A caller whose key has been published all along waits for a request that has
\* it or is still to be answered.
SteadyCallers ==
    \A c \in steady :
        /\ pc[c] # "idle"
        /\ kid[c] \in published
        /\ pc[c] = "waiting" /\ load.state = "served" => kid[c] \in load.document

\* Only TypeScript has callers that insist on a newer request, and they were not
\* throttled; only the others queue for a lock.
WaitersFitVerifier ==
    /\ \A c \in Forcing : verifier.sdk = "typescript" /\ now - lastRefresh >= verifier.minFetch
    /\ \A c \in Caller : pc[c] = "queued" => verifier.sdk # "typescript"

\* Python's requests are spaced, so a key of the document in hand was missed no
\* later than at the load before.
MissesAreOld ==
    verifier.sdk = "python" =>
        /\ load # NoLoad => load.since - lastRefresh >= verifier.minFetch
        /\ \A k \in Kid : missed[k] <= lastRefresh
        /\ \A k \in keys : missed[k] <= lastRefresh - verifier.minFetch

\* What the callers are told.
AnswersInv == AcceptedKeyIsRecent /\ OnlyAbsentKeysAreRefused /\ RotatedKeyIsFound

KeyInv ==
    /\ TypeOK
    /\ Clocks
    /\ KeysWereSeen
    /\ SteadyCallers
    /\ WaitersFitVerifier
    /\ MissesAreOld

-----------------------------------------------------------------------------
\* The numbers and sets the cache is made of.
LEMMA KeyTypes ==
    ASSUME TypeOK
    PROVE  /\ now \in Nat /\ took \in Nat /\ now <= MaxTime
           /\ loadedAt \in Int /\ lastRefresh \in Int /\ Never \in Int
           /\ \A k \in Kid : seen[k] \in Int /\ missed[k] \in Int
           /\ verifier.sdk \in SDKs
           /\ verifier.ttl \in Nat /\ verifier.minFetch \in Nat /\ verifier.unknownTTL \in Nat
           /\ verifier.minFetch <= -Never /\ -Never \in Nat
           /\ load.state \in {"none", "asked", "served"} /\ load.since \in 0 .. MaxTime
           /\ load.document \subseteq Kid /\ published \subseteq Kid /\ keys \subseteq Kid
           /\ steady \subseteq Caller
<1>1. Long \in Nat /\ MaxTime \in Nat
  BY ConstantsAssumption
<1>2. verifier \in Verifier /\ verifier.minFetch <= Long
  BY ConstantsAssumption DEF TypeOK
<1>3. /\ verifier.sdk \in SDKs
      /\ verifier.ttl \in Nat /\ verifier.minFetch \in Nat /\ verifier.unknownTTL \in Nat
  BY <1>2 DEF Verifier
<1>4. Never \in Int /\ -Never = Long
  BY <1>1 DEF Never
<1>5. now \in Nat /\ took \in Nat /\ now <= MaxTime
  BY <1>1 DEF TypeOK
<1>6. loadedAt \in Int /\ lastRefresh \in Int
  BY <1>1, <1>4 DEF TypeOK
<1>7. \A k \in Kid : seen[k] \in Int /\ missed[k] \in Int
  BY <1>1, <1>4 DEF TypeOK
<1>8. /\ load.state \in {"none", "asked", "served"} /\ load.since \in 0 .. MaxTime
      /\ load.document \subseteq Kid
  BY DEF TypeOK, Load
<1>9. published \subseteq Kid /\ keys \subseteq Kid /\ steady \subseteq Caller
  BY DEF TypeOK
<1> QED
  BY <1>1, <1>2, <1>3, <1>4, <1>5, <1>6, <1>7, <1>8, <1>9

LEMMA WaitersHaveKid ==
    ASSUME TypeOK, NEW c \in Caller, pc[c] # "idle"
    PROVE  kid[c] \in Kid
BY DEF TypeOK

LEMMA KeyInvInit == Init => KeyInv /\ AnswersInv
<1> SUFFICES ASSUME Init PROVE KeyInv /\ AnswersInv
  OBVIOUS
<1>1. Long \in Nat /\ MaxTime \in Nat /\ Never \in Int /\ Never <= 0 /\ Never = -Long
  BY ConstantsAssumption DEF Never
<1>2. TypeOK
  <2>1. load \in Load
    BY <1>1 DEF Init, NoLoad, Load
  <2>2. seen \in [Kid -> {Never} \cup (0 .. MaxTime)]
    BY <1>1 DEF Init
  <2> QED
    BY <1>1, <2>1, <2>2 DEF Init, TypeOK
<1>3. Clocks
  BY <1>1 DEF Init, Clocks, NoLoad
<1>4. KeysWereSeen
  BY <1>1 DEF Init, KeysWereSeen, NoLoad
<1>5. SteadyCallers /\ WaitersFitVerifier
  BY DEF Init, SteadyCallers, WaitersFitVerifier, Forcing
<1>6. MissesAreOld
  BY <1>1 DEF Init, MissesAreOld
<1>7. AnswersInv
  BY DEF Init, AnswersInv, AcceptedKeyIsRecent, OnlyAbsentKeysAreRefused, RotatedKeyIsFound
<1> QED
  BY <1>2, <1>3, <1>4, <1>5, <1>6, <1>7 DEF KeyInv

-----------------------------------------------------------------------------
\* The four ways in which a look at the cache ends keep the invariant.
LEMMA ReplyKeeps ==
    ASSUME KeyInv, NEW c \in Caller, NEW k \in Kid, NEW found \in BOOLEAN,
           NEW cause \in {"cached", "missed", "throttled", "loaded", "failed"},
           Reply(c, k, found, cause)
    PROVE  KeyInv'
<1>1. TypeOK'
  <2>1. Told(c, k, found, cause) \in Answer
    BY DEF Told, Answer
  <2> QED
    BY <2>1 DEF KeyInv, TypeOK, Reply, cache
<1>2. Clocks' /\ KeysWereSeen' /\ MissesAreOld'
  BY DEF KeyInv, Clocks, KeysWereSeen, MissesAreOld, Reply, cache
<1>3. \A d \in Caller : /\ d # c => pc'[d] = pc[d] /\ kid'[d] = kid[d]
                        /\ pc'[c] = "idle"
  BY DEF KeyInv, TypeOK, Reply
<1>4. SteadyCallers'
  <2> SUFFICES ASSUME NEW d \in steady \ {c}
               PROVE  /\ pc'[d] # "idle" /\ kid'[d] \in published
                      /\ pc'[d] = "waiting" /\ load.state = "served" => kid'[d] \in load.document
    BY DEF SteadyCallers, Reply
  <2>1. pc'[d] = pc[d] /\ kid'[d] = kid[d]
    BY <1>3 DEF KeyInv, TypeOK
  <2> QED
    BY <2>1 DEF KeyInv, SteadyCallers
<1>5. WaitersFitVerifier'
  BY <1>3 DEF KeyInv, WaitersFitVerifier, Forcing, Reply, cache
<1> QED
  BY <1>1, <1>2, <1>4, <1>5 DEF KeyInv

LEMMA RequestIsLoad == TypeOK => Request \in Load
BY ConstantsAssumption DEF TypeOK, Request, Load

LEMMA WaitKeeps ==
    ASSUME KeyInv, NEW c \in Caller, pc[c] = "idle", NEW k \in Kid,
           NEW label \in {"queued", "waiting", "forcing"}, Wait(c, k, label),
           \/ /\ UNCHANGED load
              /\ label = "forcing" => /\ verifier.sdk = "typescript"
                                      /\ now - lastRefresh >= verifier.minFetch
              /\ label = "waiting" => /\ verifier.sdk = "typescript" /\ load # NoLoad
                                      /\ ~Forces(k)
              /\ label = "queued" => verifier.sdk # "typescript"
           \/ label = "waiting" /\ load' = Request /\ verifier.sdk # "python"
    PROVE  KeyInv'
<1>1. TypeOK'
  <2>1. load' \in Load
    BY RequestIsLoad DEF KeyInv, TypeOK
  <2>2. steady' \in SUBSET Caller
    BY DEF KeyInv, TypeOK, Wait
  <2>3. /\ kid' \in [Caller -> Kid \cup {NoKid}]
        /\ pc' \in [Caller -> {"idle", "queued", "waiting", "forcing"}]
        /\ \A d \in Caller : pc'[d] = "idle" <=> kid'[d] = NoKid
    BY ConstantsAssumption DEF KeyInv, TypeOK, Wait
  <2> QED
    BY <2>1, <2>2, <2>3 DEF KeyInv, TypeOK, Wait, cache
<1>2. load' = load \/ load' = Request
  OBVIOUS
<1>3. UNCHANGED <<verifier, keys, loadedAt, lastRefresh, missed, took, now, published, seen>>
  BY DEF Wait, cache
<1>4. Clocks'
  BY <1>2, <1>3, KeyTypes DEF KeyInv, Clocks, Request
<1>5. KeysWereSeen'
  BY <1>2, <1>3 DEF KeyInv, KeysWereSeen, Request
<1>6. MissesAreOld'
  BY <1>2, <1>3 DEF KeyInv, MissesAreOld
<1>7. \A d \in Caller : /\ d # c => pc'[d] = pc[d] /\ kid'[d] = kid[d]
                        /\ pc'[c] = label /\ kid'[c] = k
  BY DEF KeyInv, TypeOK, Wait
<1>8. SteadyCallers'
  <2> SUFFICES ASSUME NEW d \in steady'
               PROVE  /\ pc'[d] # "idle" /\ kid'[d] \in published
                      /\ pc'[d] = "waiting" /\ load'.state = "served" => kid'[d] \in load'.document
    BY <1>3 DEF SteadyCallers
  <2>1. load'.state = "served" => load' = load
    BY <1>2 DEF Request
  <2>2. CASE d = c
    <3>1. c \notin steady
      BY DEF KeyInv, SteadyCallers
    <3>2. k \in published /\ (verifier.sdk = "typescript" /\ load # NoLoad => Forces(k))
      BY <2>2, <3>1 DEF Wait, Forces
    <3>3. label # "waiting" \/ load' = Request
      BY <3>2
    <3> QED
      BY <1>7, <2>2, <3>2, <3>3 DEF Request
  <2>3. CASE d # c
    <3>1. d \in steady /\ d \in Caller
      BY <2>3 DEF Wait, KeyInv, TypeOK
    <3> QED
      BY <1>7, <2>1, <2>3, <3>1 DEF KeyInv, SteadyCallers
  <2> QED
    BY <2>2, <2>3
<1>9. WaitersFitVerifier'
  BY <1>3, <1>7 DEF KeyInv, WaitersFitVerifier, Forcing
<1> QED
  BY <1>1, <1>4, <1>5, <1>6, <1>8, <1>9 DEF KeyInv

LEMMA StartLoadKeeps ==
    ASSUME KeyInv, NEW c \in Caller, pc[c] = "queued", StartLoad(c),
           verifier.sdk = "python" => ~Throttled
    PROVE  KeyInv'
<1>1. UNCHANGED <<verifier, keys, loadedAt, lastRefresh, missed, took, now, published, seen,
                  kid, steady>>
  BY DEF StartLoad, cache
<1>2. load' = Request /\ load'.state = "asked" /\ load'.since = now
  BY DEF StartLoad, Request
<1>3. TypeOK'
  <2>1. load' \in Load
    BY RequestIsLoad, <1>2 DEF KeyInv
  <2>2. /\ pc' \in [Caller -> {"idle", "queued", "waiting", "forcing"}]
        /\ \A d \in Caller : pc'[d] = "idle" <=> kid'[d] = NoKid
    BY <1>1 DEF KeyInv, TypeOK, StartLoad
  <2> QED
    BY <1>1, <2>1, <2>2 DEF KeyInv, TypeOK, StartLoad
<1>4. Clocks'
  BY <1>1, <1>2, KeyTypes DEF KeyInv, Clocks
<1>5. KeysWereSeen'
  BY <1>1, <1>2 DEF KeyInv, KeysWereSeen
<1>6. MissesAreOld'
  BY <1>1, <1>2, KeyTypes DEF KeyInv, MissesAreOld, Throttled
<1>7. \A d \in Caller : pc'[d] = IF d = c THEN "waiting" ELSE pc[d]
  BY DEF KeyInv, TypeOK, StartLoad
<1>8. SteadyCallers'
  BY <1>1, <1>2, <1>7 DEF KeyInv, TypeOK, SteadyCallers
<1>9. WaitersFitVerifier'
  BY <1>1, <1>7 DEF KeyInv, WaitersFitVerifier, Forcing
<1> QED
  BY <1>3, <1>4, <1>5, <1>6, <1>8, <1>9 DEF KeyInv

-----------------------------------------------------------------------------
\* The endpoint and the request in flight.
LEMMA ServeKeeps ==
    ASSUME KeyInv, Serve
    PROVE  KeyInv'
<1>1. UNCHANGED <<verifier, keys, loadedAt, lastRefresh, missed, took, now, published, seen,
                  pc, kid, steady>>
  BY DEF Serve, cache
<1>2. /\ load'.state = "served" /\ load'.document = published /\ load'.since = load.since
      /\ load' \in Load /\ load # NoLoad
  <2>1. load \in Load /\ published \in SUBSET Kid /\ load.state = "asked"
    BY DEF Serve, KeyInv, TypeOK
  <2>2. load' = [load EXCEPT !.state = "served", !.document = published]
    BY DEF Serve
  <2>3. load' \in Load
    BY <2>1, <2>2 DEF Load
  <2>4. load'.state = "served" /\ load'.document = published /\ load'.since = load.since
    BY <2>1, <2>2 DEF Load
  <2> QED
    BY <2>1, <2>3, <2>4 DEF NoLoad
<1>3. TypeOK'
  BY <1>1, <1>2 DEF KeyInv, TypeOK, Serve
<1>4. Clocks'
  BY <1>1, <1>2 DEF KeyInv, Clocks
<1>5. KeysWereSeen'
  <2>1. \A k \in published : load.since <= seen[k]
    BY DEF KeyInv, Clocks, KeysWereSeen
  <2> QED
    BY <1>1, <1>2, <2>1 DEF KeyInv, KeysWereSeen
<1>6. MissesAreOld'
  BY <1>1, <1>2 DEF KeyInv, MissesAreOld
<1>7. SteadyCallers' /\ WaitersFitVerifier'
  BY <1>1, <1>2 DEF KeyInv, SteadyCallers, WaitersFitVerifier, Forcing
<1> QED
  BY <1>3, <1>4, <1>5, <1>6, <1>7 DEF KeyInv

LEMMA LoadedKeeps ==
    ASSUME KeyInv, Loaded
    PROVE  KeyInv'
<1>1. UNCHANGED <<verifier, now, published, seen>>
  BY DEF Loaded
<1>2. /\ keys' = load.document /\ loadedAt' = now /\ lastRefresh' = now
      /\ took' = now - load.since /\ load.state = "served" /\ load # NoLoad
  BY DEF Loaded, NoLoad
<1>3. load' = NoLoad \/ (load' = Request /\ Forcing # {})
  BY DEF Loaded
<1>4. load'.state # "served" /\ load'.since \in Nat /\ load'.since <= now /\ load' \in Load
  BY <1>3, RequestIsLoad, KeyTypes, ConstantsAssumption DEF KeyInv, NoLoad, Request, Load
<1>5. Waiting \subseteq Caller /\ \A c \in Waiting : kid[c] \in Kid
  BY WaitersHaveKid DEF Waiting, KeyInv
<1>6. \A c \in Caller : /\ pc'[c] = CASE c \in Waiting -> "idle"
                                      [] c \in Forcing -> "waiting"
                                      [] OTHER -> pc[c]
                        /\ kid'[c] = IF c \in Waiting THEN NoKid ELSE kid[c]
  BY DEF Loaded
<1>7. \A k \in Kid : \/ missed'[k] = missed[k]
                     \/ missed'[k] = Never
                     \/ missed'[k] = now /\ k \notin load.document
  BY DEF Loaded
<1>8. TypeOK'
  <2>1. took' \in 0 .. MaxTime
    BY <1>2, KeyTypes, ConstantsAssumption DEF KeyInv, Clocks
  <2>2. missed' \in [Kid -> {Never} \cup (0 .. MaxTime)]
    <3>1. now \in 0 .. MaxTime /\ missed \in [Kid -> {Never} \cup (0 .. MaxTime)]
      BY DEF KeyInv, TypeOK
    <3> QED
      BY <3>1 DEF Loaded
  <2>3. pc' \in [Caller -> {"idle", "queued", "waiting", "forcing"}]
    <3>1. pc \in [Caller -> {"idle", "queued", "waiting", "forcing"}]
      BY DEF KeyInv, TypeOK
    <3> QED
      BY <3>1 DEF Loaded
  <2>4. kid' \in [Caller -> Kid \cup {NoKid}]
    <3>1. kid \in [Caller -> Kid \cup {NoKid}]
      BY DEF KeyInv, TypeOK
    <3> QED
      BY <3>1 DEF Loaded
  <2>5. \A c \in Caller : pc'[c] = "idle" <=> kid'[c] = NoKid
    BY <1>6 DEF KeyInv, TypeOK, Waiting, Forcing
  <2>6. answers' \in SUBSET Answer
    <3>1. \A c \in Waiting : Told(c, kid[c], kid[c] \in load.document, "loaded") \in Answer
      BY <1>5 DEF Told, Answer
    <3> QED
      BY <3>1 DEF Loaded
  <2>7. /\ keys' \in SUBSET Kid /\ steady' \in SUBSET Caller
        /\ {loadedAt', lastRefresh'} \subseteq {Never} \cup (0 .. MaxTime)
    BY <1>2, KeyTypes DEF KeyInv, TypeOK, Loaded
  <2> QED
    BY <1>1, <1>4, <2>1, <2>2, <2>3, <2>4, <2>5, <2>6, <2>7 DEF KeyInv, TypeOK
<1>9. Clocks'
  BY <1>1, <1>2, <1>4, KeyTypes DEF KeyInv, Clocks
<1>10. KeysWereSeen'
  <2>1. \A k \in load.document : /\ load.since <= seen[k] /\ seen[k] \in Int
                                 /\ now - (now - load.since) = load.since
    BY <1>2, KeyTypes DEF KeyInv, KeysWereSeen
  <2> QED
    BY <1>1, <1>2, <1>4, <2>1 DEF KeyInv, KeysWereSeen
<1>11. MissesAreOld'
  <2> SUFFICES ASSUME verifier.sdk = "python"
               PROVE  /\ load' = NoLoad
                      /\ \A k \in Kid : missed'[k] <= now
                      /\ \A k \in load.document : missed'[k] <= now - verifier.minFetch
    BY <1>1, <1>2 DEF MissesAreOld
  <2>1. load' = NoLoad
    BY <1>3 DEF KeyInv, WaitersFitVerifier
  <2>2. /\ load.since - lastRefresh >= verifier.minFetch /\ load.since <= now
        /\ \A k \in Kid : missed[k] <= lastRefresh
    BY <1>2 DEF KeyInv, MissesAreOld, Clocks
  <2>3. \A k \in Kid : missed[k] <= now - verifier.minFetch /\ missed[k] <= now
    BY <2>2, KeyTypes DEF KeyInv
  <2>4. Never <= now - verifier.minFetch /\ Never <= now
    BY KeyTypes DEF KeyInv
  <2> QED
    BY <1>7, <2>1, <2>3, <2>4, KeyTypes DEF KeyInv
<1>12. SteadyCallers'
  <2> SUFFICES ASSUME NEW c \in steady \ Waiting
               PROVE  pc'[c] # "idle" /\ kid'[c] \in published
    BY <1>1, <1>4 DEF SteadyCallers, Loaded
  <2>1. c \in Caller /\ pc[c] # "idle" /\ kid[c] \in published
    BY DEF KeyInv, SteadyCallers, TypeOK
  <2> QED
    BY <1>6, <2>1
<1>13. WaitersFitVerifier'
  BY <1>1, <1>6 DEF Forcing, Waiting, WaitersFitVerifier, KeyInv
<1> QED
  BY <1>8, <1>9, <1>10, <1>11, <1>12, <1>13 DEF KeyInv

LEMMA LoadFailsKeeps ==
    ASSUME KeyInv, LoadFails
    PROVE  KeyInv'
<1>1. UNCHANGED <<verifier, keys, loadedAt, lastRefresh, missed, took, now, published, seen>>
  BY DEF LoadFails, cache
<1> DEFINE Gone == Waiting \cup Forcing
<1>2. /\ load' = NoLoad /\ load'.state = "none" /\ load'.since = 0 /\ load' \in Load
      /\ steady' = steady \ Gone
  BY ConstantsAssumption DEF LoadFails, NoLoad, Load
<1>3. \A c \in Caller : /\ pc'[c] = IF c \in Gone THEN "idle" ELSE pc[c]
                        /\ kid'[c] = IF c \in Gone THEN NoKid ELSE kid[c]
  BY DEF LoadFails
<1>4. Gone \subseteq Caller /\ \A c \in Gone : kid[c] \in Kid
  BY WaitersHaveKid DEF Waiting, Forcing, KeyInv
<1>5. TypeOK'
  <2>1. answers' \in SUBSET Answer
    <3>1. \A c \in Gone : Told(c, kid[c], FALSE, "failed") \in Answer
      BY <1>4 DEF Told, Answer
    <3> QED
      BY <3>1 DEF LoadFails
  <2>2. /\ pc' \in [Caller -> {"idle", "queued", "waiting", "forcing"}]
        /\ kid' \in [Caller -> Kid \cup {NoKid}]
    BY DEF LoadFails, KeyInv, TypeOK
  <2>3. \A c \in Caller : pc'[c] = "idle" <=> kid'[c] = NoKid
    BY <1>3 DEF KeyInv, TypeOK
  <2> QED
    BY <1>1, <1>2, <2>1, <2>2, <2>3 DEF KeyInv, TypeOK
<1>6. Clocks'
  BY <1>1, <1>2, KeyTypes DEF KeyInv, Clocks
<1>7. KeysWereSeen' /\ MissesAreOld'
  BY <1>1, <1>2 DEF KeyInv, KeysWereSeen, MissesAreOld
<1>8. SteadyCallers'
  <2> SUFFICES ASSUME NEW c \in steady \ Gone
               PROVE  pc'[c] # "idle" /\ kid'[c] \in published
    BY <1>1, <1>2 DEF SteadyCallers
  <2>1. c \in Caller /\ pc[c] # "idle" /\ kid[c] \in published
    BY DEF KeyInv, SteadyCallers, TypeOK
  <2> QED
    BY <1>3, <2>1
<1>9. WaitersFitVerifier'
  BY <1>1, <1>3 DEF Forcing, WaitersFitVerifier, KeyInv
<1> QED
  BY <1>5, <1>6, <1>7, <1>8, <1>9 DEF KeyInv

LEMMA RotateKeeps ==
    ASSUME KeyInv, NEW document \in SUBSET Kid, Rotate(document)
    PROVE  KeyInv'
<1>1. UNCHANGED <<verifier, keys, loadedAt, lastRefresh, missed, took, load, pc, kid, now>>
  BY DEF Rotate, cache
<1>2. \A k \in Kid : seen'[k] = IF k \in published \cup document THEN now ELSE seen[k]
  BY DEF Rotate
<1>3. \A k \in Kid : seen[k] <= seen'[k] /\ seen'[k] <= now /\ seen'[k] \in Int
  BY <1>2, KeyTypes DEF KeyInv, KeysWereSeen
<1>4. TypeOK'
  <2>1. seen' \in [Kid -> {Never} \cup (0 .. MaxTime)]
    BY DEF Rotate, KeyInv, TypeOK
  <2> QED
    BY <1>1, <2>1 DEF Rotate, KeyInv, TypeOK
<1>5. Clocks' /\ MissesAreOld' /\ WaitersFitVerifier'
  BY <1>1 DEF KeyInv, Clocks, MissesAreOld, WaitersFitVerifier, Forcing
<1>6. KeysWereSeen'
  <2>1. \A k \in document : seen'[k] = now
    BY <1>2
  <2>2. load.state = "served" => \A k \in load.document : load.since <= seen'[k]
    BY <1>3, KeyTypes DEF KeyInv, KeysWereSeen
  <2>3. \A k \in keys : loadedAt - took <= seen'[k]
    BY <1>3, KeyTypes DEF KeyInv, KeysWereSeen
  <2> QED
    BY <1>1, <1>3, <2>1, <2>2, <2>3 DEF KeysWereSeen, Rotate
<1>7. SteadyCallers'
  BY <1>1 DEF Rotate, KeyInv, SteadyCallers
<1> QED
  BY <1>4, <1>5, <1>6, <1>7 DEF KeyInv

LEMMA TickKeeps ==
    ASSUME KeyInv, Tick
    PROVE  KeyInv'
<1>1. UNCHANGED <<verifier, keys, loadedAt, lastRefresh, missed, took, load, pc, kid, published,
                  steady>>
  BY DEF Tick, cache
<1>2. now' = now + 1 /\ now' \in 0 .. MaxTime
  BY KeyTypes, ConstantsAssumption DEF Tick, KeyInv
<1>3. \A k \in Kid : seen'[k] = IF k \in published THEN now' ELSE seen[k]
  BY DEF Tick
<1>4. \A k \in Kid : seen[k] <= seen'[k] /\ seen'[k] <= now' /\ seen'[k] \in Int
  BY <1>2, <1>3, KeyTypes DEF KeyInv, KeysWereSeen
<1>5. TypeOK'
  <2>1. seen' \in [Kid -> {Never} \cup (0 .. MaxTime)]
    BY <1>2 DEF Tick, KeyInv, TypeOK
  <2> QED
    BY <1>1, <1>2, <2>1 DEF Tick, KeyInv, TypeOK
<1>6. Clocks'
  BY <1>1, <1>2, KeyTypes DEF KeyInv, Clocks
<1>7. KeysWereSeen'
  <2>1. load.state = "served" => \A k \in load.document : load.since <= seen'[k]
    BY <1>4, KeyTypes DEF KeyInv, KeysWereSeen
  <2>2. \A k \in keys : loadedAt - took <= seen'[k]
    BY <1>4, KeyTypes DEF KeyInv, KeysWereSeen
  <2> QED
    BY <1>1, <1>3, <1>4, <2>1, <2>2, KeyTypes DEF KeysWereSeen, KeyInv
<1>8. MissesAreOld' /\ SteadyCallers'
  BY <1>1 DEF KeyInv, MissesAreOld, SteadyCallers
<1>9. WaitersFitVerifier'
  BY <1>1, <1>2, KeyTypes DEF KeyInv, WaitersFitVerifier, Forcing
<1> QED
  BY <1>5, <1>6, <1>7, <1>8, <1>9 DEF KeyInv

-----------------------------------------------------------------------------
\* The answers.  A key that is found in the cache is in a document that is fresh
\* or must do for lack of a new one; a refusal is due to the throttle.
LEMMA FoundIsRecent ==
    ASSUME KeyInv, NEW k \in keys,
           Fresh \/ (Throttled /\ verifier.sdk \in {"python", "typescript"})
    PROVE  now - seen[k] < Lifetime + took
<1>1. loadedAt = lastRefresh /\ loadedAt - took <= seen[k]
  BY DEF KeyInv, Clocks, KeysWereSeen
<1>2. now - loadedAt < Lifetime
  BY <1>1, KeyTypes DEF KeyInv, Fresh, Throttled, Lifetime
<1>3. /\ now \in Int /\ loadedAt \in Int /\ took \in Int /\ seen[k] \in Int
      /\ Lifetime \in Int
  BY KeyTypes DEF KeyInv, Lifetime
<1> QED
  BY <1>1, <1>2, <1>3

LEMMA RefusedIsAbsent ==
    ASSUME KeyInv, NEW k \in Kid, Coherent, verifier.sdk # "server", Throttled,
           ~(k \in keys /\ Fresh),
           k \in keys => verifier.sdk = "go" \/ RecentMiss(k)
    PROVE  k \notin keys
<1> SUFFICES ASSUME k \in keys PROVE FALSE
  OBVIOUS
<1>1. now - lastRefresh < verifier.minFetch /\ now - lastRefresh >= verifier.ttl
  BY KeyTypes DEF Throttled, Fresh, KeyInv, Clocks
<1>2. ~(verifier.ttl >= verifier.minFetch)
  BY <1>1, KeyTypes DEF KeyInv
<1>3. verifier.sdk = "python" /\ verifier.unknownTTL <= verifier.minFetch
  BY <1>2 DEF Coherent
<1>4. now - missed[k] < verifier.unknownTTL
  BY <1>3 DEF RecentMiss
<1>5. missed[k] <= lastRefresh - verifier.minFetch /\ lastRefresh <= now
  BY <1>3 DEF KeyInv, MissesAreOld, Clocks
<1> QED
  BY <1>1, <1>3, <1>4, <1>5, KeyTypes DEF KeyInv

LEMMA ReplyAnswers ==
    ASSUME KeyInv, NEW c \in Caller, NEW k \in Kid, NEW found \in BOOLEAN,
           NEW cause \in {"cached", "missed", "throttled"}, Reply(c, k, found, cause),
           found => /\ k \in keys
                    /\ Fresh \/ (Throttled /\ verifier.sdk \in {"python", "typescript"}),
           ~found => /\ verifier.sdk # "server" /\ Throttled /\ ~(k \in keys /\ Fresh)
                     /\ k \in keys => verifier.sdk = "go" \/ RecentMiss(k)
    PROVE  AnswersInv'
<1>1. UNCHANGED <<verifier, keys, loadedAt, lastRefresh, missed, took, now, seen>>
  BY DEF Reply, cache
<1>2. \A a \in answers' : a.kid = k /\ a.found = found /\ a.cause = cause
  BY DEF Reply, Told
<1>3. AcceptedKeyIsRecent'
  <2>1. found => now - seen[k] < Lifetime + took
    BY FoundIsRecent
  <2>2. Lifetime' = Lifetime
    BY <1>1 DEF Lifetime
  <2> QED
    BY <1>1, <1>2, <2>1, <2>2 DEF AcceptedKeyIsRecent
<1>4. OnlyAbsentKeysAreRefused'
  <2>1. Coherent /\ ~found => k \notin keys /\ Throttled
    BY RefusedIsAbsent
  <2>2. (Coherent' <=> Coherent) /\ (Throttled' <=> Throttled)
    BY <1>1 DEF Coherent, Throttled
  <2> QED
    BY <1>1, <1>2, <2>1, <2>2 DEF OnlyAbsentKeysAreRefused
<1>5. RotatedKeyIsFound'
  BY <1>2 DEF RotatedKeyIsFound
<1> QED
  BY <1>3, <1>4, <1>5 DEF AnswersInv

LEMMA QuietAnswers ==
    ASSUME answers' = {}
    PROVE  AnswersInv'
BY DEF AnswersInv, AcceptedKeyIsRecent, OnlyAbsentKeysAreRefused, RotatedKeyIsFound

LEMMA LoadedAnswers ==
    ASSUME KeyInv, Loaded
    PROVE  AnswersInv'
<1>1. /\ UNCHANGED <<verifier, now, seen>>
      /\ keys' = load.document /\ lastRefresh' = now /\ took' = now - load.since
      /\ load.state = "served"
  BY DEF Loaded
<1>2. \A a \in answers' : \E c \in Waiting :
          /\ a.kid = kid[c] /\ a.found = (kid[c] \in load.document)
          /\ a.steady = (c \in steady) /\ a.cause = "loaded"
  BY DEF Loaded, Told
<1>3. AcceptedKeyIsRecent'
  <2> SUFFICES ASSUME NEW k \in load.document
               PROVE  now - seen[k] <= now - load.since
    BY <1>1, <1>2 DEF AcceptedKeyIsRecent
  <2>1. load.since <= seen[k]
    BY <1>1 DEF KeyInv, KeysWereSeen
  <2> QED
    BY <2>1, KeyTypes DEF KeyInv
<1>4. OnlyAbsentKeysAreRefused'
  BY <1>1, <1>2 DEF OnlyAbsentKeysAreRefused
<1>5. RotatedKeyIsFound'
  BY <1>1, <1>2 DEF RotatedKeyIsFound, KeyInv, SteadyCallers, Waiting
<1> QED
  BY <1>3, <1>4, <1>5 DEF AnswersInv

LEMMA LoadFailsAnswers ==
    ASSUME KeyInv, LoadFails
    PROVE  AnswersInv'
<1>1. \A a \in answers' : a.found = FALSE /\ a.cause = "failed"
  BY DEF LoadFails, Told
<1> QED
  BY <1>1 DEF AnswersInv, AcceptedKeyIsRecent, OnlyAbsentKeysAreRefused, RotatedKeyIsFound

-----------------------------------------------------------------------------
\* The looks of the four verifiers, each a Reply, a Wait or a StartLoad.
LEMMA LookUpKeeps ==
    ASSUME KeyInv, NEW c \in Caller, NEW k \in Kid, pc[c] = "idle", LookUp(c, k),
           verifier.sdk \in {"go", "python"}
    PROVE  (KeyInv /\ AnswersInv)'
<1>1. CASE k \in keys /\ Fresh /\ Reply(c, k, TRUE, "cached")
  BY <1>1, ReplyKeeps, ReplyAnswers
<1>2. CASE ~(k \in keys /\ Fresh) /\ RecentMiss(k) /\ Reply(c, k, FALSE, "missed")
  <2>1. Throttled
    BY <1>2 DEF RecentMiss
  <2>2. AnswersInv'
    BY <1>2, <2>1, ReplyAnswers
  <2> QED
    BY <1>2, <2>2, ReplyKeeps
<1>3. CASE Wait(c, k, "queued") /\ UNCHANGED load
  BY <1>3, WaitKeeps, QuietAnswers DEF Wait
<1> QED
  BY <1>1, <1>2, <1>3 DEF LookUp

LEMMA signingKeyKeeps ==
    ASSUME KeyInv, NEW c \in Caller, NEW k \in Kid, signingKey(c, k)
    PROVE  (KeyInv /\ AnswersInv)'
<1>0. verifier.sdk = "typescript" /\ pc[c] = "idle"
  BY DEF signingKey
<1>1. CASE k \in keys /\ Fresh /\ Reply(c, k, TRUE, "cached")
  BY <1>1, ReplyKeeps, ReplyAnswers
<1>2. CASE ~(k \in keys /\ Fresh) /\ RecentMiss(k) /\ Reply(c, k, FALSE, "missed")
  <2>1. Throttled
    BY <1>2 DEF RecentMiss
  <2>2. AnswersInv'
    BY <1>0, <1>2, <2>1, ReplyAnswers
  <2> QED
    BY <1>2, <2>2, ReplyKeeps
<1>3. CASE ~(k \in keys /\ Fresh) /\ Throttled /\ Reply(c, k, k \in keys, "throttled")
  <2>1. (k \in keys) \in BOOLEAN
    OBVIOUS
  <2>2. AnswersInv'
    BY <1>0, <1>3, <2>1, ReplyAnswers
  <2> QED
    BY <1>3, <2>1, <2>2, ReplyKeeps
<1>4. CASE /\ ~Throttled /\ load = NoLoad
           /\ Wait(c, k, "waiting") /\ load' = Request
  BY <1>0, <1>4, WaitKeeps, QuietAnswers DEF Wait
<1>5. CASE /\ ~Throttled /\ load # NoLoad
           /\ Wait(c, k, IF Forces(k) THEN "forcing" ELSE "waiting") /\ UNCHANGED load
  <2>1. now - lastRefresh >= verifier.minFetch
    BY <1>5, KeyTypes DEF Throttled, KeyInv
  <2>2. CASE Forces(k)
    BY <1>0, <1>5, <2>1, <2>2, WaitKeeps, QuietAnswers DEF Wait
  <2>3. CASE ~Forces(k)
    BY <1>0, <1>5, <2>3, WaitKeeps, QuietAnswers DEF Wait
  <2> QED
    BY <2>2, <2>3
<1> QED
  BY <1>1, <1>2, <1>3, <1>4, <1>5 DEF signingKey

LEMMA LookUpLockedKeeps ==
    ASSUME KeyInv, NEW c \in Caller, LookUpLocked(c)
    PROVE  (KeyInv /\ AnswersInv)'
<1>0. pc[c] = "queued" /\ kid[c] \in Kid
  BY WaitersHaveKid DEF LookUpLocked, KeyInv
<1> DEFINE k == kid[c]
<1>1. CASE k \in keys /\ Fresh /\ Reply(c, k, TRUE, "cached")
  BY <1>0, <1>1, ReplyKeeps, ReplyAnswers
<1>2. CASE /\ ~(k \in keys /\ Fresh) /\ verifier.sdk # "server" /\ Throttled
           /\ Reply(c, k, verifier.sdk = "python" /\ k \in keys, "throttled")
  <2>1. (verifier.sdk = "python" /\ k \in keys) \in BOOLEAN
    OBVIOUS
  <2>2. verifier.sdk \in {"go", "python"}
    BY <1>0, <1>2, KeyTypes DEF KeyInv, SDKs, WaitersFitVerifier
  <2>3. AnswersInv'
    BY <1>0, <1>2, <2>1, <2>2, ReplyAnswers
  <2> QED
    BY <1>0, <1>2, <2>1, <2>3, ReplyKeeps
<1>3. CASE (verifier.sdk = "server" \/ ~Throttled) /\ StartLoad(c)
  BY <1>0, <1>3, StartLoadKeeps, QuietAnswers DEF StartLoad
<1> QED
  BY <1>1, <1>2, <1>3 DEF LookUpLocked

LEMMA KeyInvNext == KeyInv /\ AnswersInv /\ [Next]_vars => (KeyInv /\ AnswersInv)'
<1> SUFFICES ASSUME KeyInv, AnswersInv, [Next]_vars
             PROVE  (KeyInv /\ AnswersInv)'
  OBVIOUS
<1>1. ASSUME NEW c \in Caller, NEW k \in Kid, ensureKeys(c, k) \/ ensure_key(c, k)
      PROVE  (KeyInv /\ AnswersInv)'
  BY <1>1, LookUpKeeps DEF ensureKeys, ensure_key
<1>2. ASSUME NEW c \in Caller, NEW k \in Kid, signingKey(c, k)
      PROVE  (KeyInv /\ AnswersInv)'
  BY <1>2, signingKeyKeeps
<1>3. ASSUME NEW c \in Caller, NEW k \in Kid, resolve(c, k)
      PROVE  (KeyInv /\ AnswersInv)'
  BY <1>3, WaitKeeps, QuietAnswers DEF resolve, Wait
<1>4. ASSUME NEW c \in Caller, LookUpLocked(c)
      PROVE  (KeyInv /\ AnswersInv)'
  BY <1>4, LookUpLockedKeeps
<1>5. CASE Serve
  BY <1>5, ServeKeeps, QuietAnswers DEF Serve
<1>6. CASE Loaded
  BY <1>6, LoadedKeeps, LoadedAnswers
<1>7. CASE LoadFails
  BY <1>7, LoadFailsKeeps, LoadFailsAnswers
<1>8. ASSUME NEW document \in SUBSET Kid, Rotate(document)
      PROVE  (KeyInv /\ AnswersInv)'
  BY <1>8, RotateKeeps, QuietAnswers DEF Rotate
<1>9. CASE Tick
  BY <1>9, TickKeeps, QuietAnswers DEF Tick
<1>10. CASE UNCHANGED vars
  <2>1. KeyInv'
    BY <1>10
    DEF vars, cache, KeyInv, TypeOK, Clocks, KeysWereSeen, SteadyCallers, WaitersFitVerifier,
        Forcing, MissesAreOld
  <2>2. AnswersInv'
    BY <1>10
    DEF vars, cache, AnswersInv, AcceptedKeyIsRecent, Lifetime, OnlyAbsentKeysAreRefused,
        Coherent, Throttled, RotatedKeyIsFound
  <2> QED
    BY <2>1, <2>2
<1> QED
  BY <1>1, <1>2, <1>3, <1>4, <1>5, <1>6, <1>7, <1>8, <1>9, <1>10 DEF Next

LEMMA KeyInvAlways == Init /\ [][Next]_vars => [](KeyInv /\ AnswersInv)
BY KeyInvInit, KeyInvNext, PTL

\* The caches of the four verifiers keep their types: among others, a caller has
\* a kid exactly while its lookup is under way.
THEOREM KeyCacheTypeCorrect == FairSpec => []TypeOK
<1>1. KeyInv => TypeOK
  BY DEF KeyInv
<1> QED
  BY <1>1, KeyInvAlways, PTL DEF FairSpec

\* A withdrawn key stops being accepted, for any lifetime, throttle and delay of
\* the requests and whatever loads overlap: one that a verifier uses was
\* published less than a cache lifetime and the time of one request ago.
THEOREM AcceptedKeysAreRecent == FairSpec => []AcceptedKeyIsRecent
<1>1. AnswersInv => AcceptedKeyIsRecent
  BY DEF AnswersInv
<1> QED
  BY <1>1, KeyInvAlways, PTL DEF FairSpec

\* A token is turned away for its key only if the cached document lacks the key
\* and may not be fetched again yet: the table of missed kids, which the three
\* SDKs keep beside the document, never contradicts it.
THEOREM RefusedKeysAreAbsent == FairSpec => []OnlyAbsentKeysAreRefused
<1>1. AnswersInv => OnlyAbsentKeysAreRefused
  BY DEF AnswersInv
<1> QED
  BY <1>1, KeyInvAlways, PTL DEF FairSpec

\* Key rotation: a key that has been published since before the token came is
\* found by the request its verification waits for, also when TypeScript shares
\* requests between callers.
THEOREM RotatedKeysAreFound == FairSpec => []RotatedKeyIsFound
<1>1. AnswersInv => RotatedKeyIsFound
  BY DEF AnswersInv
<1> QED
  BY <1>1, KeyInvAlways, PTL DEF FairSpec

\* No number of callers makes an SDK fetch in quick succession: a request starts
\* only when the last successful load is minFetch old, TypeScript's forced
\* request after a load excepted.
THEOREM FetchesAreSpaced == FairSpec => RequestsAreSpaced
<1> DEFINE Spaced == load'.state = "asked" /\ load' # load /\ verifier.sdk # "server" =>
                         now - lastRefresh >= verifier.minFetch
<1>1. KeyInv /\ [Next]_vars => [Spaced]_vars
  <2> SUFFICES ASSUME KeyInv, Next, load'.state = "asked", load' # load, verifier.sdk # "server"
               PROVE  now - lastRefresh >= verifier.minFetch
    OBVIOUS
  <2>1. ~Throttled => now - lastRefresh >= verifier.minFetch
    BY KeyTypes DEF Throttled, KeyInv
  <2>2. ASSUME NEW c \in Caller, NEW k \in Kid, signingKey(c, k)
        PROVE  ~Throttled
    BY <2>2 DEF signingKey, Reply
  <2>3. ASSUME NEW c \in Caller, LookUpLocked(c)
        PROVE  ~Throttled
    BY <2>3 DEF LookUpLocked, Reply
  <2>4. ASSUME NEW c \in Caller, NEW k \in Kid,
               ensureKeys(c, k) \/ ensure_key(c, k) \/ resolve(c, k)
        PROVE  FALSE
    BY <2>4 DEF ensureKeys, ensure_key, resolve, LookUp, Reply
  <2>5. CASE Loaded
    <3>1. Forcing # {}
      BY <2>5 DEF Loaded, NoLoad
    <3> QED
      BY <3>1 DEF KeyInv, WaitersFitVerifier
  <2>6. CASE Serve
    <3>1. load'.state = "served"
      BY <2>6 DEF Serve, KeyInv, TypeOK, Load
    <3> QED
      BY <3>1
  <2>7. CASE LoadFails
    BY <2>7 DEF LoadFails, NoLoad
  <2> QED
    BY <2>1, <2>2, <2>3, <2>4, <2>5, <2>6, <2>7 DEF Next, Rotate, Tick
<1>2. FairSpec => [][Spaced]_vars
  BY <1>1, KeyInvAlways, PTL DEF FairSpec
<1> QED
  BY <1>2 DEF RequestsAreSpaced
=============================================================================
