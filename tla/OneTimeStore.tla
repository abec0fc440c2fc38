---------------------------- MODULE OneTimeStore ----------------------------
(***************************************************************************)
(* What the handlers of the authorization server rely on: a Store whose    *)
(* calls each take effect at one instant between the call and its answer.  *)
(* Authorization codes, refresh tokens and consent requests are the values *)
(* it hands out once.  RefreshRotation and AuthorizationFlow are written   *)
(* over such a Store; SQLiteStore shows that the transactions of           *)
(* sqlite_store.go provide one.                                            *)
(***************************************************************************)
EXTENDS Store

CONSTANTS Handler,   \* goroutines that call the Store
          Value,     \* values randomID returns
          Kind,      \* what each of them is drawn for
          Family,    \* refresh-token families
          Migrated,  \* refresh tokens a migrated file may hold
          TTL,       \* the lifetime of a value
          MaxTime,   \* bound on the clock
          Idle       \* no call is in progress

Kinds == {"code", "consent", "refresh"}

Row == [family : Family \cup {NoFamily}, expires : Nat, used : BOOLEAN, revoked : BOOLEAN]

Call == [op : {"consume", "revokeFamily"}, value : Value, at : Nat]

ASSUME StoreAssumption ==
    /\ Kind \in [Value -> Kinds]
    /\ Migrated \in SUBSET {v \in Value : Kind[v] = "refresh"}
    /\ TTL \in Nat /\ MaxTime \in Nat
    /\ NoRow \notin Row
    /\ Idle \notin Call

VARIABLES rows,     \* the committed rows of the three tables
          saved,    \* history: values that were ever saved
          now,      \* the clock the handlers read
          call,     \* the call each handler is waiting for, with the time it passed
          wins,     \* history: how often a call to consume each value returned it
          reuse     \* history: values for which a call returned ErrAlreadyUsed

storeVars == <<rows, saved, now, call, wins, reuse>>

\* A refresh token from before families: ADD COLUMN family_id leaves '' in it.
MigratedRow == [family |-> NoFamily, expires |-> TTL, used |-> FALSE, revoked |-> FALSE]

Init ==
    /\ \E M \in SUBSET Migrated :
         /\ rows = [v \in Value |-> IF v \in M THEN MigratedRow ELSE NoRow]
         /\ saved = M
    /\ now = 0
    /\ call = [h \in Handler |-> Idle]
    /\ wins = [v \in Value |-> 0]
    /\ reuse = {}

\* What a Consume method answers for value v at time t.
Status(v, t) ==
    IF Kind[v] = "code" THEN CodeStatus(rows[v], t)
    ELSE IF Kind[v] = "consent" THEN ConsentStatus(rows[v], t)
    ELSE RefreshStatus(rows[v], t)

\* The rows after v was consumed.
Consumed(v) == IF Kind[v] = "consent" THEN DeleteRow(rows, v) ELSE MarkUsed(rows, v)

\* The call of h returns a; the handlers only tell ErrAlreadyUsed from other errors.
Return(h, a) ==
    /\ call' = [call EXCEPT ![h] = Idle]
    /\ reuse' = IF a = "ErrAlreadyUsed" THEN reuse \cup {call[h].value} ELSE reuse

-----------------------------------------------------------------------------
\* SaveAuthorizationCode, SaveConsentRequest, SaveRefreshToken of a new value.
Save(v, f) ==
    /\ v \notin saved
    /\ (Kind[v] = "refresh") = (f # NoFamily)
    /\ rows' = [rows EXCEPT ![v] = [family |-> f, expires |-> now + TTL,
                                    used |-> FALSE, revoked |-> FALSE]]
    /\ saved' = saved \cup {v}
    /\ UNCHANGED <<now, call, wins, reuse>>

CallStore(h, op, v) ==
    /\ call[h] = Idle
    /\ op = "revokeFamily" => Kind[v] = "refresh"
    /\ call' = [call EXCEPT ![h] = [op |-> op, value |-> v, at |-> now]]
    /\ UNCHANGED <<rows, saved, now, wins, reuse>>

\* The call to Consume finds a value that may be consumed, and consumes it.
Consume(h) ==
    /\ call[h] # Idle /\ call[h].op = "consume"
    /\ Status(call[h].value, call[h].at) = "ok"
    /\ rows' = Consumed(call[h].value)
    /\ wins' = [wins EXCEPT ![call[h].value] = @ + 1]
    /\ Return(h, "ok")
    /\ UNCHANGED <<saved, now>>

\* The value is missing, expired, revoked or used.
Refuse(h) ==
    /\ call[h] # Idle /\ call[h].op = "consume"
    /\ Status(call[h].value, call[h].at) # "ok"
    /\ Return(h, Status(call[h].value, call[h].at))
    /\ UNCHANGED <<rows, saved, now, wins>>

\* RevokeRefreshFamily.
RevokeFamily(h) ==
    /\ call[h] # Idle /\ call[h].op = "revokeFamily"
    /\ rows' = RevokeRefreshFamily(rows, call[h].value)
    /\ Return(h, IF rows[call[h].value] = NoRow THEN "ErrNotFound" ELSE "ok")
    /\ UNCHANGED <<saved, now, wins>>

\* RevokeRefreshToken.
Revoke(v) ==
    /\ Kind[v] = "refresh"
    /\ rows' = RevokeRefreshToken(rows, v)
    /\ UNCHANGED <<saved, now, call, wins, reuse>>

\* A call fails without an effect.
Fail(h) ==
    /\ call[h] # Idle
    /\ Return(h, "error")
    /\ UNCHANGED <<rows, saved, now, wins>>

\* The process dies and is restarted over the same tables.
Crash ==
    /\ call' = [h \in Handler |-> Idle]
    /\ UNCHANGED <<rows, saved, now, wins, reuse>>

Tick ==
    /\ now < MaxTime
    /\ now' = now + 1
    /\ UNCHANGED <<rows, saved, call, wins, reuse>>

Next ==
    \/ \E v \in Value, f \in Family \cup {NoFamily} : Save(v, f)
    \/ \E h \in Handler :
         \/ \E op \in {"consume", "revokeFamily"}, v \in Value : CallStore(h, op, v)
         \/ Consume(h)
         \/ Refuse(h)
         \/ RevokeFamily(h)
         \/ Fail(h)
    \/ \E v \in Value : Revoke(v)
    \/ Crash
    \/ Tick

Spec == Init /\ [][Next]_storeVars

-----------------------------------------------------------------------------
StoreTypeOK ==
    /\ rows \in [Value -> Row \cup {NoRow}]
    /\ saved \in SUBSET Value
    /\ now \in 0 .. MaxTime
    /\ call \in [Handler -> Call \cup {Idle}]
    /\ wins \in [Value -> Nat]
    /\ reuse \in SUBSET Value

\* A value is handed out once: of all the calls that ever present it, in
\* whatever order and across restarts, at most one is told "ok".
ConsumedOnce == \A v \in Value : wins[v] <= 1

\* Reuse is reported only for a value that was handed out: a caller that raced
\* another one, or met a failure, never starts the revocation of a family whose
\* token nobody has consumed.
ReuseIsReal == \A v \in reuse : wins[v] = 1

\* Why they hold: a value that was handed out leaves a trace in the tables that
\* no call removes, and nothing else leaves such a trace.
Spent(v) ==
    IF Kind[v] = "consent" THEN rows[v] = NoRow ELSE rows[v] # NoRow /\ rows[v].used

HandedOutIsSpent ==
    \A v \in Value :
        /\ rows[v] # NoRow => v \in saved
        /\ v \notin saved => wins[v] = 0
        /\ v \in saved => wins[v] = (IF Spent(v) THEN 1 ELSE 0)

\* Codes and consent requests have no family.
OnlyTokensHaveFamilies ==
    \A v \in Value : rows[v] # NoRow /\ rows[v].family # NoFamily => Kind[v] = "refresh"

StoreInv == StoreTypeOK /\ HandedOutIsSpent /\ OnlyTokensHaveFamilies /\ ReuseIsReal
=============================================================================
