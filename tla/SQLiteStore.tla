---------------------------- MODULE SQLiteStore ----------------------------
(***************************************************************************)
(* The one-time operations of auth-server/server/sqlite_store.go, one step *)
(* per SQL statement.  A Consume method is a deferred transaction: SELECT, *)
(* then UPDATE or DELETE, then COMMIT; it never looks at how many rows the *)
(* UPDATE changed.  Everything else is one statement that commits by       *)
(* itself, except RevokeRefreshFamily, which is two of them.               *)
(*                                                                         *)
(* SQLite is in WAL mode: the first SELECT of a transaction fixes its      *)
(* snapshot, one connection at a time may write, and a transaction whose   *)
(* snapshot is not the latest one cannot become a writer (SQLITE_BUSY).    *)
(***************************************************************************)
EXTENDS OneTimeStore

CONSTANT NoHandler   \* nobody holds the write lock

ASSUME LockAssumption == NoHandler \notin Handler

VARIABLES pc,        \* where each handler is in its method
          lock,      \* external: who holds SQLite's write lock
          current    \* external: transactions whose snapshot is the latest commit

vars == <<storeVars, pc, lock, current>>

SQLiteInit ==
    /\ Init
    /\ pc = [h \in Handler |-> "idle"]
    /\ lock = NoHandler
    /\ current = {}

Goto(h, label) == pc' = [pc EXCEPT ![h] = label]

\* The deferred tx.Rollback(), or the end of a transaction that committed.
EndTransaction(h) ==
    /\ Goto(h, "idle")
    /\ lock' = IF lock = h THEN NoHandler ELSE lock

\* A statement outside a transaction: it needs the write lock for a moment, and
\* every snapshot is older than its commit.
Autocommit ==
    /\ lock = NoHandler
    /\ current' = {}
    /\ UNCHANGED lock

-----------------------------------------------------------------------------
\* INSERT OR REPLACE of SaveAuthorizationCode, SaveRefreshToken, SaveConsentRequest.
SaveRow(v, f) == Save(v, f) /\ Autocommit /\ UNCHANGED pc

\* The UPDATE of RevokeRefreshToken.
UpdateRevoked(v) == Revoke(v) /\ Autocommit /\ UNCHANGED pc

\* A handler calls a Consume method (db.Begin is deferred: no lock, no snapshot)
\* or RevokeRefreshFamily.
Begin(h, op, v) ==
    /\ pc[h] = "idle"
    /\ CallStore(h, op, v)
    /\ Goto(h, IF op = "consume" THEN "begun" ELSE "calling")
    /\ UNCHANGED <<lock, current>>

\* SELECT of a Consume method, and the early returns after it.
SelectRow(h) ==
    /\ pc[h] = "begun"
    /\ LET status == Status(call[h].value, call[h].at)
       IN  IF status = "ok"
           THEN /\ Goto(h, "read")
                /\ current' = current \cup {h}
                /\ UNCHANGED <<storeVars, lock>>
           ELSE /\ Return(h, status)
                /\ EndTransaction(h)
                /\ UNCHANGED <<rows, saved, now, wins, current>>

\* UPDATE in a transaction of its own, after the one that read the row.
UpdateOutsideTransaction(h) ==
    /\ pc[h] = "read"
    /\ lock = NoHandler
    /\ lock' = h
    /\ Goto(h, "locked")
    /\ UNCHANGED <<storeVars, current>>

\* UPDATE or DELETE: the transaction becomes the writer.
UpdateRow(h) ==
    /\ pc[h] = "read"
    /\ lock = NoHandler
    /\ h \in current
    /\ lock' = h
    /\ Goto(h, "locked")
    /\ UNCHANGED <<storeVars, current>>

\* What the transaction has written: the DELETE of a consent request, or the
\* UPDATE ... WHERE used=0, for a refresh token also revoked=0, which may leave
\* the row alone.
Written(v) ==
    IF Kind[v] = "consent" \/ (~rows[v].used /\ (Kind[v] = "refresh" => ~rows[v].revoked))
    THEN Consumed(v) ELSE rows

\* COMMIT, and the method returns the row it selected.
Commit(h) ==
    /\ pc[h] = "locked"
    /\ rows' = Written(call[h].value)
    /\ wins' = [wins EXCEPT ![call[h].value] = @ + 1]
    /\ Return(h, "ok")
    /\ EndTransaction(h)
    /\ current' = {}
    /\ UNCHANGED <<saved, now>>

\* SELECT family_id of RevokeRefreshFamily, outside a transaction.
SelectFamily(h) ==
    /\ pc[h] = "calling"
    /\ IF rows[call[h].value] = NoRow
       THEN Return(h, "ErrNotFound") /\ EndTransaction(h) /\ UNCHANGED <<rows, saved, now, wins>>
       ELSE Goto(h, "selected") /\ UNCHANGED <<storeVars, lock>>
    /\ UNCHANGED current

\* UPDATE refresh_tokens SET revoked=1 WHERE family_id=f.
UpdateWhereFamily(f) ==
    [v \in Value |-> IF rows[v] # NoRow /\ Kind[v] = "refresh" /\ rows[v].family = f
                     THEN [rows[v] EXCEPT !.revoked = TRUE] ELSE rows[v]]

\* Revocation that matches the empty family_id too.
UpdateEmptyFamilyToo(h) ==
    /\ pc[h] = "selected"
    /\ rows' = UpdateWhereFamily(rows[call[h].value].family)
    /\ Return(h, "ok")
    /\ Autocommit
    /\ Goto(h, "idle")
    /\ UNCHANGED <<saved, now, wins>>

\* The UPDATE of RevokeRefreshFamily for the family selected, which no statement
\* changes; a token without one is revoked alone, by RevokeRefreshToken.
UpdateFamily(h) ==
    /\ pc[h] = "selected"
    /\ LET f == rows[call[h].value].family
       IN  rows' = IF f = NoFamily THEN RevokeRefreshToken(rows, call[h].value)
                                   ELSE UpdateWhereFamily(f)
    /\ Return(h, "ok")
    /\ Autocommit
    /\ Goto(h, "idle")
    /\ UNCHANGED <<saved, now, wins>>

\* A failing method that forgets its transaction.
ErrorWithoutRollback(h) ==
    /\ pc[h] # "idle"
    /\ Return(h, "error")
    /\ Goto(h, "idle")
    /\ UNCHANGED <<rows, saved, now, wins, lock, current>>

\* A failing method that commits what it has written so far.
CommitOnError(h) ==
    /\ pc[h] # "idle"
    /\ rows' = IF pc[h] = "locked" THEN Written(call[h].value) ELSE rows
    /\ Return(h, "error")
    /\ EndTransaction(h)
    /\ current' = {}
    /\ UNCHANGED <<saved, now, wins>>

\* Any statement fails: SQLITE_BUSY when another connection writes or has
\* committed since the snapshot, a busy timeout, an I/O error.  The method
\* returns the error and the deferred Rollback undoes the transaction.
StatementError(h) ==
    /\ pc[h] # "idle"
    /\ Return(h, "error")
    /\ EndTransaction(h)
    /\ current' = current \ {h}
    /\ UNCHANGED <<rows, saved, now, wins>>

\* The process dies: SQLite rolls back what was not committed.
ProcessCrash ==
    /\ Crash
    /\ pc' = [h \in Handler |-> "idle"]
    /\ lock' = NoHandler
    /\ current' = {}

SQLiteNext ==
    \/ \E v \in Value, f \in Family \cup {NoFamily} : SaveRow(v, f)
    \/ \E v \in Value : UpdateRevoked(v)
    \/ \E h \in Handler :
         \/ \E op \in {"consume", "revokeFamily"}, v \in Value : Begin(h, op, v)
         \/ SelectRow(h)
         \/ UpdateRow(h)
         \/ Commit(h)
         \/ SelectFamily(h)
         \/ UpdateFamily(h)
         \/ StatementError(h)
    \/ ProcessCrash
    \/ Tick /\ UNCHANGED <<pc, lock, current>>

SQLiteSpec == SQLiteInit /\ [][SQLiteNext]_vars

-----------------------------------------------------------------------------
TypeOK ==
    /\ StoreTypeOK
    /\ pc \in [Handler -> {"idle", "begun", "read", "locked", "calling", "selected"}]
    /\ lock \in Handler \cup {NoHandler}
    /\ current \in SUBSET Handler

\* What a Consume method would find, were it to read the rows now.
MayConsume(h) == Status(call[h].value, call[h].at) = "ok"

\* The write lock belongs to a method that is about to commit, and what that
\* method read is still true: the value it presents may be consumed.  Nobody
\* keeps the lock after an error.
WriterHasReadTheLatest ==
    /\ lock # NoHandler => pc[lock] = "locked"
    /\ \A h \in Handler : pc[h] = "locked" =>
         lock = h /\ MayConsume(h)

\* Where a method is agrees with the call it serves, and a snapshot that is still
\* the latest shows a value that may be consumed.
MethodsKnow ==
    \A h \in Handler :
        /\ pc[h] = "idle" <=> call[h] = Idle
        /\ pc[h] \in {"begun", "read", "locked"} => call[h].op = "consume"
        /\ pc[h] \in {"calling", "selected"} =>
             call[h].op = "revokeFamily" /\ Kind[call[h].value] = "refresh"
        /\ pc[h] = "selected" => rows[call[h].value] # NoRow
        /\ pc[h] = "read" /\ h \in current => MayConsume(h)

SQLiteInv == TypeOK /\ MethodsKnow /\ WriterHasReadTheLatest

\* The transactions of sqlite_store.go are a Store whose calls are atomic,
\* although no method checks what its UPDATE did.
ImplementsOneTimeStore == Spec
=============================================================================
