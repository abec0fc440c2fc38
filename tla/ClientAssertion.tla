-------------------------- MODULE ClientAssertion --------------------------
(***************************************************************************)
(* private_key_jwt client authentication: authenticateClientAssertion of   *)
(* server.go, the expiry check of verifyClientAssertion                    *)
(* (resource_clients.go, oidc.go) and ConsumeClientAssertionJTI of both    *)
(* stores.  Signature, issuer, subject and audience are checked before     *)
(* anything else and change no state: an Assertion here has passed them.   *)
(*                                                                         *)
(* The expiry is checked against the clock once, by validExpiry, and the   *)
(* replay table purges against the clock again, later, when it is called.  *)
(***************************************************************************)
EXTENDS Integers

CONSTANTS Handler,      \* goroutines serving /token
          Client, Jti,
          Exp,          \* the exp claims in use
          Skew,         \* clockSkewTolerance
          MaxTime,      \* bound on the clock
          MaxAccepted,  \* bound on how often one assertion is accepted
          Backends,     \* the stores a server may run with
          NoEntry

Assertion == [client : Client, jti : Jti, exp : Exp]
Key == Client \X Jti
KeyOf(a) == <<a.client, a.jti>>

ASSUME ConstantsAssumption ==
    /\ Exp \subseteq Nat /\ Skew \in Nat /\ MaxTime \in Nat /\ MaxAccepted \in Nat
    /\ Backends \subseteq {"memory", "sqlite"}
    /\ NoEntry \notin Nat /\ NoEntry \notin Assertion

VARIABLES backend,     \* which Store the server runs with
          assertions,  \* Store: expiry per (client_id, jti)
          now,         \* time.Now()
          verified,    \* the assertion each handler has verified, not yet consumed
          accepted,    \* history: how often each assertion was accepted
          lastExp      \* history: the exp of the assertion last accepted per key

vars == <<backend, assertions, now, verified, accepted, lastExp>>

Init ==
    /\ backend \in Backends
    /\ assertions = [k \in Key |-> NoEntry]
    /\ now = 0
    /\ verified = [h \in Handler |-> NoEntry]
    /\ accepted = [a \in Assertion |-> 0]
    /\ lastExp = [k \in Key |-> NoEntry]

\* time.Now().Add(-clockSkewTolerance) < exp: an assertion passes for Skew after
\* it has expired.
validExpiry(exp) == now - Skew < exp

\* verifyClientAssertion succeeds.
verifyClientAssertion(h, a) ==
    /\ verified[h] = NoEntry
    /\ validExpiry(a.exp)
    /\ verified' = [verified EXCEPT ![h] = a]
    /\ UNCHANGED <<backend, assertions, now, accepted, lastExp>>

\* Both stores first drop the entries whose expiry is before now.
Purged == [k \in Key |-> IF assertions[k] # NoEntry /\ assertions[k] < now
                         THEN NoEntry ELSE assertions[k]]

\* A replay check that lets an entry about to expire pass.
ConflictsUntilAlmostExpired(k) == Purged[k] # NoEntry /\ Purged[k] > now + 1

\* An entry that survives the purge is a replay for the primary key of SQLite;
\* MemoryStore also lets the instant of expiry itself pass.
Conflicts(k) ==
    /\ Purged[k] # NoEntry
    /\ backend = "memory" => Purged[k] > now

\* ConsumeClientAssertionJTI records the key and the client is authenticated ...
ConsumeClientAssertionJTI(h) ==
    LET a == verified[h]
        k == KeyOf(a)
    IN  /\ a # NoEntry
        /\ ~Conflicts(k)
        /\ accepted[a] < MaxAccepted
        /\ assertions' = [Purged EXCEPT ![k] = a.exp]
        /\ accepted' = [accepted EXCEPT ![a] = @ + 1]
        /\ lastExp' = [lastExp EXCEPT ![k] = a.exp]
        /\ verified' = [verified EXCEPT ![h] = NoEntry]
        /\ UNCHANGED <<backend, now>>

\* ... or answers ErrAlreadyUsed.  MemoryStore has purged by then; the SQLite
\* transaction is rolled back, purge included.
RejectReplay(h) ==
    /\ verified[h] # NoEntry
    /\ Conflicts(KeyOf(verified[h]))
    /\ assertions' = IF backend = "memory" THEN Purged ELSE assertions
    /\ verified' = [verified EXCEPT ![h] = NoEntry]
    /\ UNCHANGED <<backend, now, accepted, lastExp>>

\* A call of the sqlite store that fails for another reason: the transaction is
\* rolled back and the client is refused.  MemoryStore cannot fail.
StoreFails(h) ==
    /\ backend = "sqlite" /\ verified[h] # NoEntry
    /\ verified' = [verified EXCEPT ![h] = NoEntry]
    /\ UNCHANGED <<backend, assertions, now, accepted, lastExp>>

Tick ==
    /\ now < MaxTime
    /\ now' = now + 1
    /\ UNCHANGED <<backend, assertions, verified, accepted, lastExp>>

\* A restart loses the handlers.  The sqlite table survives it; MemoryStore
\* starts empty, and so does what it is accountable for.
Restart ==
    /\ verified' = [h \in Handler |-> NoEntry]
    /\ IF backend = "sqlite"
       THEN UNCHANGED <<assertions, accepted, lastExp>>
       ELSE /\ assertions' = [k \in Key |-> NoEntry]
            /\ accepted' = [a \in Assertion |-> 0]
            /\ lastExp' = [k \in Key |-> NoEntry]
    /\ UNCHANGED <<backend, now>>

Next ==
    \/ \E h \in Handler :
         \/ \E a \in Assertion : verifyClientAssertion(h, a)
         \/ ConsumeClientAssertionJTI(h)
         \/ RejectReplay(h)
         \/ StoreFails(h)
    \/ Tick
    \/ Restart

Spec == Init /\ [][Next]_vars

-----------------------------------------------------------------------------
TypeOK ==
    /\ backend \in Backends
    /\ assertions \in [Key -> Exp \cup {NoEntry}]
    /\ now \in 0 .. MaxTime
    /\ verified \in [Handler -> Assertion \cup {NoEntry}]
    /\ accepted \in [Assertion -> 0 .. MaxAccepted]
    /\ lastExp \in [Key -> Exp \cup {NoEntry}]

\* While an accepted assertion has not expired, no assertion with its jti is
\* accepted: the handler that verified it earlier, a concurrent one, and one
\* after a restart of the sqlite backend are all turned away.
NoReplayBeforeExpiry ==
    [][\A a \in Assertion :
         accepted'[a] > accepted[a] /\ lastExp[KeyOf(a)] # NoEntry
         => now >= lastExp[KeyOf(a)]]_vars

\* The replay table remembers the last accepted assertion of every key for as
\* long as that assertion has not expired, whatever is purged meanwhile.
UnexpiredIsRemembered ==
    \A k \in Key : lastExp[k] # NoEntry /\ lastExp[k] >= now => assertions[k] = lastExp[k]

\* What the comment on Store.ConsumeClientAssertionJTI promises: an assertion
\* authenticates a client once.
SingleUse == \A a \in Assertion : accepted[a] <= 1
=============================================================================
