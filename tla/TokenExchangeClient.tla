------------------------ MODULE TokenExchangeClient ------------------------
(***************************************************************************)
(* TokenExchangeClient of the three SDKs and its cache: cache.go and       *)
(* token_exchange.go (Go), cache.py and token_exchange.py (Python),        *)
(* token-exchange.ts (TypeScript).  A caller that misses the cache asks    *)
(* the authorization server (TokenExchange models it) and stores what      *)
(* comes back; nothing keeps two callers from missing the same key.        *)
(*                                                                         *)
(* The answer says how long the token lives in whole seconds, counted from *)
(* when it was written; the client counts from when it was read.           *)
(***************************************************************************)
EXTENDS Integers, Sequences, SequencesExt

CONSTANTS SDKs,      \* which of "go", "python", "typescript" is used
          Caller,    \* goroutines or tasks that call exchange
          Request,   \* [subject, audience, scopes] of a call
          MaxEntries,       \* maxEntries
          Margin,    \* expiryMargin
          Second,    \* clock steps in a second: expires_in is rounded down
          Lifetimes, \* how long tokens may still live when the server answers
          DefaultLifetime,  \* what TypeScript assumes of an answer without one
          MaxTime,   \* bound on the clock
          NoRow

ASSUME ClientAssumption ==
    /\ SDKs \subseteq {"go", "python", "typescript"}
    /\ MaxEntries \in Nat \ {0} /\ Second \in Nat \ {0}
    /\ Margin \in Nat
    /\ Lifetimes \subseteq Nat \ {0}
    /\ DefaultLifetime \in Nat /\ MaxTime \in Nat
    /\ \A r \in Request :
         r = [subject |-> r.subject, audience |-> r.audience, scopes |-> r.scopes]

VARIABLES sdk,     \* the SDK in use
          values,  \* TokenCache.values: the token cached for each key
          order,   \* TokenCache.order: the keys, most recently used first
          now,     \* the clock
          call     \* what each caller waits for

vars == <<sdk, values, order, now, call>>

\* A key that leaves the scopes out.
KeyWithoutScopes(r) == <<r.subject, r.audience>>

\* exchangeCacheKey: a hash of all three; the scopes are sorted first.
exchangeCacheKey(r) == <<r.subject, r.audience, r.scopes>>

CacheKey == {exchangeCacheKey(r) : r \in Request}

\* CachedToken.  for, until, told and late are history: the request the token was
\* issued for, when it really expires, whether the answer said so, and how long
\* the answer was underway.
Token == [for : Request, until : Nat, told : BOOLEAN, late : Nat, expires : Nat]

\* The token response and the call that waits for it; until and written are
\* history.
Answer == [written : Nat, until : Nat, expiresIn : Nat]
Call == [request : Request, answer : Answer \cup {NoRow}]

ASSUME NoRowAssumption == NoRow \notin Token \cup Answer \cup Call

Init ==
    /\ sdk \in SDKs
    /\ values = [k \in CacheKey |-> NoRow]
    /\ order = <<>>
    /\ now = 0
    /\ call = [c \in Caller |-> NoRow]

\* The list s once the element of k is taken out.
Without(s, k) == RemoveFirst(s, k)

\* A token that is used up to its very expiry.
UsableDuringMargin(token) == token.expires > now

\* Go evicts once the margin reaches past the expiry, the other two as soon as
\* it reaches it.
Usable(token) ==
    IF sdk = "go" THEN now + Margin <= token.expires ELSE now + Margin < token.expires

-----------------------------------------------------------------------------
\* exchange of a caller whose request is in the cache: Get moves the entry to
\* the front and its token is returned.
CacheHit(c, r) ==
    LET k == exchangeCacheKey(r)
    IN  /\ call[c] = NoRow
        /\ values[k] # NoRow /\ Usable(values[k])
        /\ order' = <<k>> \o Without(order, k)
        /\ UNCHANGED <<sdk, values, now, call>>

\* An expired entry that is deleted from the map and not from the list.
MissKeepsOrder(c, r) ==
    LET k == exchangeCacheKey(r)
    IN  /\ call[c] = NoRow
        /\ values[k] # NoRow => ~Usable(values[k])
        /\ values' = [values EXCEPT ![k] = NoRow]
        /\ call' = [call EXCEPT ![c] = [request |-> r, answer |-> NoRow]]
        /\ UNCHANGED <<sdk, order, now>>

\* exchange otherwise: Get drops an entry that is no longer usable, and the
\* request is sent.
CacheMiss(c, r) ==
    LET k == exchangeCacheKey(r)
    IN  /\ call[c] = NoRow
        /\ values[k] # NoRow => ~Usable(values[k])
        /\ values' = [values EXCEPT ![k] = NoRow]
        /\ order' = Without(order, k)
        /\ call' = [call EXCEPT ![c] = [request |-> r, answer |-> NoRow]]
        /\ UNCHANGED <<sdk, now>>

\* sessionExchangeResponse: whole seconds, rounded down.
expiresIn(lifetime) == lifetime \div Second

\* The authorization server answers with a token that lives for another lifetime.
ServerAnswers(c, lifetime) ==
    /\ call[c] # NoRow /\ call[c].answer = NoRow
    /\ call' = [call EXCEPT ![c].answer = [written |-> now, until |-> now + lifetime,
                                            expiresIn |-> expiresIn(lifetime)]]
    /\ UNCHANGED <<sdk, values, order, now>>

\* What the SDK makes of expires_in, in clock steps: TypeScript takes 0 for an
\* answer without one.  (sessionExchangeResponse always sends one, so what the
\* SDKs assume of an answer without it, 300 seconds in Python too, is left out.)
lifetimeOf(n) == IF sdk = "typescript" /\ n = 0 THEN DefaultLifetime ELSE n * Second

\* Evicting the entry that was most recently used before.
EvictNewest(k, token) ==
    LET front == <<k>> \o Without(order, k)
    IN  IF Len(front) <= MaxEntries
        THEN /\ values' = [values EXCEPT ![k] = token]
             /\ order' = front
        ELSE /\ values' = [values EXCEPT ![k] = token, ![front[2]] = NoRow]
             /\ order' = RemoveAt(front, 2)

\* Put: the token goes to the front, and the back is cut off while there are
\* more than MaxEntries.
Put(k, token) ==
    LET front == <<k>> \o Without(order, k)
    IN  IF Len(front) <= MaxEntries
        THEN /\ values' = [values EXCEPT ![k] = token]
             /\ order' = front
        ELSE /\ values' = [values EXCEPT ![k] = token, ![front[Len(front)]] = NoRow]
             /\ order' = SubSeq(front, 1, Len(front) - 1)

\* The answer arrives and is cached.  Python refuses one that has
\* expired already (AnswerRefused).
ReceiveAnswer(c) ==
    LET r == call[c].request
        a == call[c].answer
    IN  /\ call[c] # NoRow /\ a # NoRow
        /\ sdk = "python" => a.expiresIn > 0
        /\ Put(exchangeCacheKey(r), [for |-> r, until |-> a.until, told |-> a.expiresIn > 0,
                                     late |-> now - a.written, expires |-> now + lifetimeOf(a.expiresIn)])
        /\ call' = [call EXCEPT ![c] = NoRow]
        /\ UNCHANGED <<sdk, now>>

\* from_response raises ValueError.
AnswerRefused(c) ==
    /\ sdk = "python"
    /\ call[c] # NoRow /\ call[c].answer # NoRow
    /\ call[c].answer.expiresIn = 0
    /\ call' = [call EXCEPT ![c] = NoRow]
    /\ UNCHANGED <<sdk, values, order, now>>

\* The server refuses, the connection fails, or the timeout aborts the request.
RequestFails(c) ==
    /\ call[c] # NoRow
    /\ call' = [call EXCEPT ![c] = NoRow]
    /\ UNCHANGED <<sdk, values, order, now>>

\* The resource server restarts.
Restart ==
    /\ values' = [k \in CacheKey |-> NoRow]
    /\ order' = <<>>
    /\ call' = [c \in Caller |-> NoRow]
    /\ UNCHANGED <<sdk, now>>

\* A request may take any time: TypeScript's timeout can be switched off, and
\* httpx bounds each operation, not their sum.
Tick ==
    /\ now < MaxTime
    /\ now' = now + 1
    /\ UNCHANGED <<sdk, values, order, call>>

Next ==
    \/ \E c \in Caller :
         \/ \E r \in Request : CacheHit(c, r) \/ CacheMiss(c, r)
         \/ \E l \in Lifetimes : ServerAnswers(c, l)
         \/ ReceiveAnswer(c)
         \/ AnswerRefused(c)
         \/ RequestFails(c)
    \/ Restart
    \/ Tick

Spec == Init /\ [][Next]_vars

-----------------------------------------------------------------------------
\* The map and the list of Go's cache agree: the list holds every cached key
\* once, and there are never more than MaxEntries of them, whatever calls overlap.
\* (OrderedDict and Map keep the two in one.)
CacheIsConsistent ==
    /\ \A k \in CacheKey : values[k] = NoRow \/ values[k] \in Token
    /\ Len(order) <= MaxEntries
    /\ \A i, j \in 1 .. Len(order) : order[i] = order[j] => i = j
    /\ {order[i] : i \in 1 .. Len(order)} = {k \in CacheKey : values[k] # NoRow}

\* A token from the cache was issued for the same subject token, audience and
\* scopes, whichever of several overlapping calls has stored it.  The client
\* counts its lifetime from when the answer was read, so it believes it to live
\* longer than its issuer does, by at most what that answer was underway; the
\* margin is taken off.  So the token has not expired at its issuer if its answer
\* took less than the margin, however slow the other calls were.  An expires_in
\* of 0 says nothing about the latter: TypeScript guesses a lifetime.
HitServesRequest ==
    \A r \in Request :
        LET token == values[exchangeCacheKey(r)]
        IN  token # NoRow /\ Usable(token) =>
                /\ token.for = r
                /\ token.told => now + Margin <= token.until + token.late

\* The list as LRUCache has it.
Entries == [i \in 1 .. Len(order) |-> [key |-> order[i], value |-> values[order[i]]]]

LRU == INSTANCE LRUCache WITH entries <- Entries, Value <- Token

\* Map and list together are a least-recently-used cache.
ImplementsLRUCache == LRU!Spec
=============================================================================
