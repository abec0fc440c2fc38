------------------------- MODULE SQLiteStoreProofs -------------------------
(***************************************************************************)
(* The transactions of sqlite_store.go implement the atomic calls of       *)
(* OneTimeStore, and such a Store hands out every value at most once, for  *)
(* any number of handlers, values and families.                            *)
(***************************************************************************)
EXTENDS SQLiteStore, TLAPS

-----------------------------------------------------------------------------
(* The rows that the calls of the Store leave behind.                       *)

\* Consuming a value that may be consumed leaves well-formed rows, spends this
\* value and touches no other.
LEMMA ConsumedRows ==
    ASSUME StoreTypeOK, NEW v \in Value, NEW t \in Nat, Status(v, t) = "ok"
    PROVE  /\ Consumed(v) \in [Value -> Row \cup {NoRow}]
           /\ \A w \in Value : w # v => Consumed(v)[w] = rows[w]
           /\ rows[v] # NoRow
           /\ Consumed(v)[v] # NoRow => Consumed(v)[v].family = rows[v].family
           /\ Kind[v] = "consent" => Consumed(v)[v] = NoRow
           /\ Kind[v] # "consent" => /\ ~rows[v].used
                                     /\ Consumed(v)[v] # NoRow /\ Consumed(v)[v].used
  <1>1. rows[v] # NoRow /\ (Kind[v] # "consent" => ~rows[v].used)
    BY StoreAssumption DEF Status, CodeStatus, ConsentStatus, RefreshStatus, Kinds
  <1>2. rows[v] \in Row
    BY <1>1 DEF StoreTypeOK
  <1>3. [rows[v] EXCEPT !.used = TRUE] \in Row
    BY <1>2 DEF Row
  <1>4. [rows[v] EXCEPT !.used = TRUE].used /\ [rows[v] EXCEPT !.used = TRUE].family = rows[v].family
    BY <1>2 DEF Row
  <1>5. CASE Kind[v] = "consent"
    BY <1>1, <1>5 DEF Consumed, DeleteRow, StoreTypeOK
  <1>6. CASE Kind[v] # "consent"
    BY <1>1, <1>3, <1>4, <1>6, StoreAssumption DEF Consumed, MarkUsed, StoreTypeOK
  <1> QED BY <1>5, <1>6

\* Revocation, of one token or of a family, keeps every row, with its used mark
\* and its family.
LEMMA RevokedRows ==
    ASSUME StoreTypeOK, NEW v \in Value, NEW table,
           table = RevokeRefreshToken(rows, v) \/ table = RevokeRefreshFamily(rows, v)
    PROVE  /\ table \in [Value -> Row \cup {NoRow}]
           /\ \A w \in Value : /\ table[w] = NoRow <=> rows[w] = NoRow
                               /\ rows[w] # NoRow => /\ table[w].used = rows[w].used
                                                     /\ table[w].family = rows[w].family
  <1>1. \A w \in Value : rows[w] # NoRow =>
            /\ rows[w] \in Row
            /\ [rows[w] EXCEPT !.revoked = TRUE] \in Row
            /\ [rows[w] EXCEPT !.revoked = TRUE].used = rows[w].used
            /\ [rows[w] EXCEPT !.revoked = TRUE].family = rows[w].family
    BY DEF StoreTypeOK, Row
  <1>2. DOMAIN rows = Value
    BY DEF StoreTypeOK
  <1>3. CASE table = RevokeRefreshToken(rows, v)
    BY <1>1, <1>2, <1>3, StoreAssumption DEF RevokeRefreshToken, StoreTypeOK
  <1>4. CASE table = RevokeRefreshFamily(rows, v) /\ table # RevokeRefreshToken(rows, v)
    <2>1. table = [k \in Value |->
                     IF rows[k] # NoRow /\ rows[k].family = rows[v].family
                     THEN [rows[k] EXCEPT !.revoked = TRUE] ELSE rows[k]]
      BY <1>2, <1>4 DEF RevokeRefreshFamily
    <2> QED BY <1>1, <2>1, StoreAssumption DEF StoreTypeOK
  <1> QED BY <1>3, <1>4

-----------------------------------------------------------------------------
(* The atomic Store.                                                        *)

\* A Store that holds nothing but migrated tokens satisfies the invariant: nobody
\* was told "ok" for one of them and none is used.
LEMMA StoreInvInit == Init => StoreInv
  <1> SUFFICES ASSUME Init PROVE StoreInv
    OBVIOUS
  <1>1. MigratedRow \in Row /\ ~MigratedRow.used /\ MigratedRow # NoRow
    <2>1. MigratedRow \in Row
      BY StoreAssumption DEF MigratedRow, Row
    <2>2. ~MigratedRow.used
      BY DEF MigratedRow
    <2> QED BY <2>1, <2>2, StoreAssumption
  <1>2. PICK M \in SUBSET Migrated :
            rows = [v \in Value |-> IF v \in M THEN MigratedRow ELSE NoRow] /\ saved = M
    BY DEF Init
  <1>3. M \in SUBSET Value /\ \A v \in M : Kind[v] = "refresh"
    BY StoreAssumption
  <1>4. StoreTypeOK
    BY <1>1, <1>2, <1>3, StoreAssumption DEF Init, StoreTypeOK
  <1>5. HandedOutIsSpent
    BY <1>1, <1>2, <1>3 DEF Init, HandedOutIsSpent, Spent
  <1>6. ReuseIsReal
    BY DEF Init, ReuseIsReal
  <1>7. OnlyTokensHaveFamilies
    BY <1>2, <1>3 DEF OnlyTokensHaveFamilies
  <1> QED BY <1>4, <1>5, <1>6, <1>7 DEF StoreInv

\* Refuse reports reuse only for a row with its used mark.
LEMMA RefusedReuse ==
    ASSUME NEW v \in Value, NEW t \in Nat, Status(v, t) = "ErrAlreadyUsed"
    PROVE  Kind[v] # "consent" /\ rows[v] # NoRow /\ rows[v].used
  BY StoreAssumption DEF Status, CodeStatus, ConsentStatus, RefreshStatus, Kinds

\* Every call of the atomic Store preserves it: a value is handed out in the step
\* that spends it.
LEMMA StoreInvStep == StoreInv /\ [Next]_storeVars => StoreInv'
  <1> SUFFICES ASSUME StoreInv, [Next]_storeVars PROVE StoreInv'
    OBVIOUS
  <1> USE DEF StoreInv, OnlyTokensHaveFamilies
  <1>0. \A h \in Handler : call[h] # Idle =>
            call[h] \in Call /\ call[h].value \in Value /\ call[h].at \in Nat
    BY DEF StoreTypeOK, Call
  <1>1. ASSUME NEW v \in Value, NEW f \in Family \cup {NoFamily}, Save(v, f) PROVE StoreInv'
    <2>1. [family |-> f, expires |-> now + TTL, used |-> FALSE, revoked |-> FALSE] \in Row
      BY StoreAssumption DEF StoreTypeOK, Row
    <2>2. rows[v] = NoRow /\ wins[v] = 0
      BY <1>1 DEF Save, HandedOutIsSpent
    <2> QED BY <1>1, <2>1, <2>2, StoreAssumption
            DEF Save, StoreTypeOK, HandedOutIsSpent, ReuseIsReal, Spent
  <1>2. ASSUME NEW h \in Handler, NEW op \in {"consume", "revokeFamily"}, NEW v \in Value,
               CallStore(h, op, v)
        PROVE  StoreInv'
    <2>1. [op |-> op, value |-> v, at |-> now] \in Call
      BY StoreAssumption DEF StoreTypeOK, Call
    <2> QED BY <1>2, <2>1 DEF CallStore, StoreTypeOK, HandedOutIsSpent, ReuseIsReal, Spent
  <1>3. ASSUME NEW h \in Handler, Consume(h) PROVE StoreInv'
    <2> DEFINE v == call[h].value
    <2>1. v \in Value /\ call[h].at \in Nat /\ Status(v, call[h].at) = "ok"
      BY <1>0, <1>3 DEF Consume
    <2>2. /\ Consumed(v) \in [Value -> Row \cup {NoRow}]
          /\ \A w \in Value : w # v => Consumed(v)[w] = rows[w]
          /\ rows[v] # NoRow
          /\ Consumed(v)[v] # NoRow => Consumed(v)[v].family = rows[v].family
          /\ Kind[v] = "consent" => Consumed(v)[v] = NoRow
          /\ Kind[v] # "consent" => /\ ~rows[v].used
                                    /\ Consumed(v)[v] # NoRow /\ Consumed(v)[v].used
      BY <2>1, ConsumedRows
    <2>3. rows' = Consumed(v) /\ wins' = [wins EXCEPT ![v] = @ + 1]
          /\ call' = [call EXCEPT ![h] = Idle] /\ UNCHANGED <<saved, now, reuse>>
      BY <1>3 DEF Consume, Return
    <2>4. v \in saved /\ wins[v] = 0 /\ ~Spent(v)
      BY <2>1, <2>2 DEF HandedOutIsSpent, Spent
    <2>5. StoreTypeOK'
      BY <2>1, <2>2, <2>3 DEF StoreTypeOK
    <2>6. HandedOutIsSpent'
      <3> SUFFICES ASSUME NEW w \in Value
                   PROVE  /\ rows'[w] # NoRow => w \in saved'
                          /\ w \notin saved' => wins'[w] = 0
                          /\ w \in saved' => wins'[w] = (IF Spent(w)' THEN 1 ELSE 0)
        BY DEF HandedOutIsSpent
      <3>1. CASE w = v
        BY <2>1, <2>2, <2>3, <2>4, <3>1 DEF Spent, StoreTypeOK
      <3>2. CASE w # v
        <4>1. rows'[w] = rows[w] /\ wins'[w] = wins[w] /\ saved' = saved
          BY <2>2, <2>3, <3>2 DEF StoreTypeOK
        <4>2. Spent(w)' <=> Spent(w)
          BY <4>1 DEF Spent
        <4> QED BY <4>1, <4>2 DEF HandedOutIsSpent
      <3> QED BY <3>1, <3>2
    <2>7. ReuseIsReal'
      BY <2>1, <2>3, <2>4 DEF ReuseIsReal, StoreTypeOK
    <2>8. OnlyTokensHaveFamilies'
      BY <2>2, <2>3
    <2> QED BY <2>5, <2>6, <2>7, <2>8
  <1>4. ASSUME NEW h \in Handler, Refuse(h) PROVE StoreInv'
    <2> DEFINE v == call[h].value
    <2>1. v \in Value /\ call[h].at \in Nat
      BY <1>0, <1>4 DEF Refuse
    <2>2. Status(v, call[h].at) = "ErrAlreadyUsed" => wins[v] = 1
      BY <2>1, RefusedReuse DEF HandedOutIsSpent, Spent
    <2>3. /\ call' = [call EXCEPT ![h] = Idle]
          /\ reuse' = IF Status(v, call[h].at) = "ErrAlreadyUsed" THEN reuse \cup {v} ELSE reuse
          /\ UNCHANGED <<rows, saved, now, wins>>
      BY <1>4 DEF Refuse, Return
    <2>4. StoreTypeOK' /\ ReuseIsReal'
      BY <2>1, <2>2, <2>3 DEF StoreTypeOK, ReuseIsReal
    <2>5. HandedOutIsSpent'
      BY <2>3 DEF HandedOutIsSpent, Spent
    <2>6. OnlyTokensHaveFamilies'
      BY <2>3
    <2> QED BY <2>4, <2>5, <2>6
  <1>5. ASSUME NEW table, NEW v \in Value,
               table = RevokeRefreshToken(rows, v) \/ table = RevokeRefreshFamily(rows, v),
               rows' = table, UNCHANGED <<saved, now, wins, reuse>>,
               call' \in [Handler -> Call \cup {Idle}]
        PROVE  StoreInv'
    <2>1. /\ table \in [Value -> Row \cup {NoRow}]
          /\ \A w \in Value : /\ table[w] = NoRow <=> rows[w] = NoRow
                              /\ rows[w] # NoRow => /\ table[w].used = rows[w].used
                                                    /\ table[w].family = rows[w].family
      BY <1>5, RevokedRows
    <2>2. \A w \in Value : Spent(w)' <=> Spent(w)
      BY <1>5, <2>1 DEF Spent
    <2> QED BY <1>5, <2>1, <2>2 DEF StoreTypeOK, HandedOutIsSpent, ReuseIsReal
  <1>6. ASSUME NEW h \in Handler, RevokeFamily(h) PROVE StoreInv'
    <2>1. rows' = RevokeRefreshFamily(rows, call[h].value) /\ UNCHANGED <<saved, now, wins, reuse>>
      BY <1>6 DEF RevokeFamily, Return
    <2>2. call' \in [Handler -> Call \cup {Idle}] /\ call[h].value \in Value
      BY <1>0, <1>6 DEF RevokeFamily, Return, StoreTypeOK
    <2> QED BY <1>5, <2>1, <2>2
  <1>7. ASSUME NEW v \in Value, Revoke(v) PROVE StoreInv'
    <2>1. call' \in [Handler -> Call \cup {Idle}]
      BY <1>7 DEF Revoke, StoreTypeOK
    <2> QED BY <1>5, <1>7, <2>1 DEF Revoke
  <1>8. ASSUME NEW h \in Handler, Fail(h) PROVE StoreInv'
    BY <1>8 DEF Fail, Return, StoreTypeOK, HandedOutIsSpent, ReuseIsReal, Spent
  <1>9. CASE Crash
    BY <1>9 DEF Crash, StoreTypeOK, HandedOutIsSpent, ReuseIsReal, Spent
  <1>10. CASE Tick
    BY <1>10, StoreAssumption DEF Tick, StoreTypeOK, HandedOutIsSpent, ReuseIsReal, Spent
  <1>11. CASE UNCHANGED storeVars
    BY <1>11 DEF storeVars, StoreTypeOK, HandedOutIsSpent, ReuseIsReal, Spent
  <1> QED BY <1>1, <1>2, <1>3, <1>4, <1>6, <1>7, <1>8, <1>9, <1>10, <1>11 DEF Next

\* A Store with atomic calls hands out every value at most once, and reports
\* reuse only of a value it has handed out.
THEOREM StoreHandsOutOnce == Spec => [](ConsumedOnce /\ ReuseIsReal)
  <1>1. StoreInv => ConsumedOnce /\ ReuseIsReal
    BY DEF StoreInv, HandedOutIsSpent, ConsumedOnce, StoreTypeOK
  <1> QED BY <1>1, StoreInvInit, StoreInvStep, PTL DEF Spec

-----------------------------------------------------------------------------
(* The transactions of SQLite.                                              *)

\* No method runs and nobody holds the write lock at first.
LEMMA SQLiteInvInit == SQLiteInit => SQLiteInv
  BY LockAssumption, StoreInvInit
  DEF SQLiteInit, Init, StoreInv, SQLiteInv, TypeOK, MethodsKnow, WriterHasReadTheLatest

\* A commit: it needs the write lock free or held by its own handler, and makes
\* every snapshot an old one.  What it must still respect is that the refresh
\* tokens whose family is being revoked do not disappear.
LEMMA CommitStep ==
    ASSUME SQLiteInv, StoreTypeOK', UNCHANGED lock, UNCHANGED pc, UNCHANGED call,
           lock = NoHandler, current' = {},
           \A v \in Value : Kind[v] = "refresh" /\ rows[v] # NoRow => rows'[v] # NoRow
    PROVE  SQLiteInv'
  <1>1. \A h \in Handler : pc[h] # "locked"
    BY LockAssumption DEF SQLiteInv, WriterHasReadTheLatest
  <1>2. \A h \in Handler : call[h] # Idle => call[h].value \in Value
    BY DEF SQLiteInv, TypeOK, StoreTypeOK, Call
  <1>3. TypeOK'
    BY DEF SQLiteInv, TypeOK
  <1>4. MethodsKnow'
    BY <1>2 DEF SQLiteInv, MethodsKnow
  <1>5. WriterHasReadTheLatest'
    BY <1>1 DEF SQLiteInv, WriterHasReadTheLatest
  <1> QED BY <1>3, <1>4, <1>5 DEF SQLiteInv

\* A method returns and its transaction, if it had one, is over.
LEMMA ReturnStep ==
    ASSUME SQLiteInv, StoreTypeOK', NEW h \in Handler,
           call' = [call EXCEPT ![h] = Idle], EndTransaction(h),
           \/ rows' = rows /\ current' \in SUBSET current
           \/ /\ lock \in {NoHandler, h} /\ current' = {}
              /\ \A v \in Value : Kind[v] = "refresh" /\ rows[v] # NoRow => rows'[v] # NoRow
    PROVE  SQLiteInv'
  <1>1. pc' = [pc EXCEPT ![h] = "idle"] /\ lock' = IF lock = h THEN NoHandler ELSE lock
    BY DEF EndTransaction, Goto
  <1>2. \A i \in Handler : i # h => pc'[i] = pc[i] /\ call'[i] = call[i]
    BY <1>1 DEF SQLiteInv, TypeOK, StoreTypeOK
  <1>3. pc'[h] = "idle" /\ call'[h] = Idle
    BY <1>1 DEF SQLiteInv, TypeOK, StoreTypeOK
  <1>4. \A i \in Handler : call[i] # Idle => call[i].value \in Value
    BY DEF SQLiteInv, TypeOK, StoreTypeOK, Call
  <1>5. TypeOK'
    BY <1>1 DEF SQLiteInv, TypeOK
  <1>6. MethodsKnow'
    <2> SUFFICES ASSUME NEW i \in Handler, i # h
                 PROVE  /\ pc'[i] = "idle" <=> call'[i] = Idle
                        /\ pc'[i] \in {"begun", "read", "locked"} => call'[i].op = "consume"
                        /\ pc'[i] \in {"calling", "selected"} =>
                             call'[i].op = "revokeFamily" /\ Kind[call'[i].value] = "refresh"
                        /\ pc'[i] = "selected" => rows'[call'[i].value] # NoRow
                        /\ pc'[i] = "read" /\ i \in current' => MayConsume(i)'
      BY <1>3 DEF MethodsKnow
    <2>1. rows' = rows => (MayConsume(i)' <=> MayConsume(i))
      BY <1>2 DEF MayConsume, Status
    <2> QED BY <1>2, <1>4, <2>1 DEF SQLiteInv, MethodsKnow
  <1>7. WriterHasReadTheLatest'
    <2>1. \A i \in Handler : pc'[i] = "locked" => pc[i] = "locked" /\ i # h /\ lock = i /\ rows' = rows
      BY <1>2, <1>3, LockAssumption DEF SQLiteInv, WriterHasReadTheLatest
    <2>2. \A i \in Handler : pc'[i] = "locked" =>
             lock' = i /\ MayConsume(i)'
      <3> SUFFICES ASSUME NEW i \in Handler, pc'[i] = "locked"
                   PROVE  lock' = i /\ MayConsume(i)'
        OBVIOUS
      <3>1. MayConsume(i)
        BY <2>1 DEF SQLiteInv, WriterHasReadTheLatest
      <3>2. MayConsume(i)' <=> MayConsume(i)
        BY <1>2, <2>1 DEF MayConsume, Status
      <3> QED BY <1>1, <2>1, <3>1, <3>2
    <2>3. lock' # NoHandler => pc'[lock'] = "locked"
      BY <1>1, <1>2 DEF SQLiteInv, TypeOK, WriterHasReadTheLatest
    <2> QED BY <2>2, <2>3 DEF WriterHasReadTheLatest
  <1> QED BY <1>5, <1>6, <1>7 DEF SQLiteInv

\* COMMIT is where a value is consumed: its writer has read the latest rows, so
\* the WHERE clause of its UPDATE matched and the row it returns is unused.
LEMMA CommitConsumes ==
    ASSUME SQLiteInv, NEW h \in Handler, Commit(h)
    PROVE  Consume(h)
  <1>1. call[h] # Idle /\ call[h].op = "consume" /\ Status(call[h].value, call[h].at) = "ok"
    BY DEF Commit, SQLiteInv, MethodsKnow, WriterHasReadTheLatest, MayConsume
  <1>2. call[h].value \in Value
    BY <1>1 DEF SQLiteInv, TypeOK, StoreTypeOK, Call
  <1>3. Written(call[h].value) = Consumed(call[h].value)
    BY <1>1, <1>2, StoreAssumption
    DEF Written, Status, CodeStatus, ConsentStatus, RefreshStatus, Kinds
  <1> QED BY <1>1, <1>3 DEF Commit, Consume

\* The UPDATE of RevokeRefreshFamily revokes what the atomic call does, although
\* its family was selected by an earlier statement.
LEMMA FamilyUpdateRevokes ==
    ASSUME SQLiteInv, StoreInv, NEW h \in Handler, UpdateFamily(h)
    PROVE  RevokeFamily(h)
  <1>1. call[h] # Idle /\ call[h].op = "revokeFamily" /\ rows[call[h].value] # NoRow
    BY DEF UpdateFamily, SQLiteInv, MethodsKnow
  <1>2. /\ rows' = IF rows[call[h].value].family = NoFamily
                   THEN RevokeRefreshToken(rows, call[h].value)
                   ELSE UpdateWhereFamily(rows[call[h].value].family)
        /\ Return(h, "ok") /\ UNCHANGED <<saved, now, wins>>
    BY DEF UpdateFamily
  <1>3. rows' = RevokeRefreshFamily(rows, call[h].value)
    BY <1>1, <1>2 DEF RevokeRefreshFamily, UpdateWhereFamily, StoreTypeOK,
                      StoreInv, OnlyTokensHaveFamilies
  <1> QED BY <1>1, <1>2, <1>3 DEF RevokeFamily

\* Every statement is a call of the atomic Store taking effect, or nothing that
\* the Store's callers see.
LEMMA RefinementStep == SQLiteInv /\ StoreInv /\ [SQLiteNext]_vars => [Next]_storeVars
  <1> SUFFICES ASSUME SQLiteInv, StoreInv, [SQLiteNext]_vars PROVE Next \/ UNCHANGED storeVars
    OBVIOUS
  <1> USE DEF SQLiteInv
  <1>1. ASSUME NEW h \in Handler, SelectRow(h) PROVE Refuse(h) \/ UNCHANGED storeVars
    BY <1>1 DEF SelectRow, Refuse, MethodsKnow
  <1>2. ASSUME NEW h \in Handler, Commit(h) PROVE Consume(h)
    BY <1>2, CommitConsumes
  <1>3. ASSUME NEW h \in Handler, SelectFamily(h) PROVE RevokeFamily(h) \/ UNCHANGED storeVars
    <2>1. call[h] # Idle /\ call[h].op = "revokeFamily"
      BY <1>3 DEF SelectFamily, MethodsKnow
    <2>2. rows[call[h].value] = NoRow => RevokeRefreshFamily(rows, call[h].value) = rows
      BY DEF RevokeRefreshFamily, RevokeRefreshToken
    <2> QED BY <1>3, <2>1, <2>2 DEF SelectFamily, RevokeFamily
  <1>4. ASSUME NEW h \in Handler, UpdateFamily(h) PROVE RevokeFamily(h)
    BY <1>4, FamilyUpdateRevokes
  <1>5. ASSUME NEW h \in Handler, StatementError(h) PROVE Fail(h)
    BY <1>5 DEF StatementError, Fail, MethodsKnow
  <1>6. ASSUME NEW h \in Handler, UpdateRow(h) PROVE UNCHANGED storeVars
    BY <1>6 DEF UpdateRow
  <1>7. CASE UNCHANGED vars
    BY <1>7 DEF vars
  <1> QED BY <1>1, <1>2, <1>3, <1>4, <1>5, <1>6, <1>7
          DEF SQLiteNext, Next, SaveRow, UpdateRevoked, Begin, ProcessCrash

\* Every statement preserves what the methods know: a commit leaves no snapshot
\* current, and UPDATE is refused to the others.
LEMMA SQLiteInvStep == SQLiteInv /\ StoreInv /\ [SQLiteNext]_vars => SQLiteInv'
  <1> SUFFICES ASSUME SQLiteInv, StoreInv, [SQLiteNext]_vars PROVE SQLiteInv'
    OBVIOUS
  <1>0. StoreTypeOK'
    BY RefinementStep, StoreInvStep DEF StoreInv
  <1>1. ASSUME NEW v \in Value, NEW f \in Family \cup {NoFamily}, SaveRow(v, f) PROVE SQLiteInv'
    <2>1. \A w \in Value : rows[w] # NoRow => rows'[w] # NoRow
      BY <1>1, StoreAssumption DEF SaveRow, Save, StoreInv, StoreTypeOK, HandedOutIsSpent
    <2> QED BY <1>0, <1>1, <2>1, CommitStep DEF SaveRow, Save, Autocommit
  <1>2. ASSUME NEW v \in Value, UpdateRevoked(v) PROVE SQLiteInv'
    <2>1. \A w \in Value : rows[w] # NoRow => rows'[w] # NoRow
      BY <1>2, RevokedRows DEF UpdateRevoked, Revoke, StoreInv
    <2> QED BY <1>0, <1>2, <2>1, CommitStep DEF UpdateRevoked, Revoke, Autocommit
  <1>3. ASSUME NEW h \in Handler, NEW op \in {"consume", "revokeFamily"}, NEW v \in Value,
               Begin(h, op, v)
        PROVE  SQLiteInv'
    <2>1. [op |-> op, value |-> v, at |-> now] # Idle
      BY StoreAssumption DEF StoreInv, StoreTypeOK, Call
    <2>2. /\ pc' = [pc EXCEPT ![h] = IF op = "consume" THEN "begun" ELSE "calling"]
          /\ call' = [call EXCEPT ![h] = [op |-> op, value |-> v, at |-> now]]
          /\ pc[h] = "idle" /\ UNCHANGED <<rows, lock, current>>
          /\ op = "revokeFamily" => Kind[v] = "refresh"
      BY <1>3 DEF Begin, CallStore, Goto
    <2>3. /\ \A i \in Handler : i # h => pc'[i] = pc[i] /\ call'[i] = call[i]
          /\ pc'[h] = IF op = "consume" THEN "begun" ELSE "calling"
          /\ call'[h] = [op |-> op, value |-> v, at |-> now]
      BY <2>2 DEF SQLiteInv, TypeOK, StoreTypeOK
    <2>4. \A i \in Handler : i # h => (MayConsume(i)' <=> MayConsume(i))
      BY <2>2, <2>3 DEF MayConsume, Status
    <2>5. TypeOK'
      BY <1>0, <2>2 DEF SQLiteInv, TypeOK
    <2>6. MethodsKnow'
      BY <2>1, <2>2, <2>3, <2>4 DEF SQLiteInv, MethodsKnow
    <2>7. WriterHasReadTheLatest'
      BY <2>2, <2>3, <2>4 DEF SQLiteInv, TypeOK, WriterHasReadTheLatest
    <2> QED BY <2>5, <2>6, <2>7 DEF SQLiteInv
  <1>4. ASSUME NEW h \in Handler, SelectRow(h), MayConsume(h) PROVE SQLiteInv'
    <2>1. /\ pc' = [pc EXCEPT ![h] = "read"] /\ pc[h] = "begun"
          /\ current' = current \cup {h} /\ UNCHANGED <<storeVars, lock>>
      BY <1>4 DEF SelectRow, MayConsume, Goto
    <2>2. \A i \in Handler : (MayConsume(i)' <=> MayConsume(i)) /\ call'[i] = call[i]
      BY <2>1 DEF MayConsume, Status, storeVars
    <2>3. TypeOK'
      BY <1>0, <2>1 DEF SQLiteInv, TypeOK
    <2>4. MethodsKnow'
      BY <1>4, <2>1, <2>2 DEF SQLiteInv, MethodsKnow, TypeOK, storeVars
    <2>5. WriterHasReadTheLatest'
      BY <2>1, <2>2 DEF SQLiteInv, TypeOK, WriterHasReadTheLatest
    <2> QED BY <2>3, <2>4, <2>5 DEF SQLiteInv
  <1>5. ASSUME NEW h \in Handler, SelectRow(h), ~MayConsume(h) PROVE SQLiteInv'
    BY <1>0, <1>5, ReturnStep DEF SelectRow, MayConsume, Return
  <1>6. ASSUME NEW h \in Handler, UpdateRow(h) PROVE SQLiteInv'
    <2>1. /\ pc' = [pc EXCEPT ![h] = "locked"] /\ pc[h] = "read" /\ h \in current
          /\ lock = NoHandler /\ lock' = h /\ UNCHANGED <<storeVars, current>>
      BY <1>6 DEF UpdateRow, Goto
    <2>2. \A i \in Handler : (MayConsume(i)' <=> MayConsume(i)) /\ call'[i] = call[i]
      BY <2>1 DEF MayConsume, Status, storeVars
    <2>3. TypeOK'
      BY <1>0, <2>1 DEF SQLiteInv, TypeOK
    <2>4. MethodsKnow'
      BY <2>1, <2>2 DEF SQLiteInv, MethodsKnow, TypeOK, storeVars
    <2>5. WriterHasReadTheLatest'
      BY <2>1, <2>2, LockAssumption DEF SQLiteInv, TypeOK, WriterHasReadTheLatest, MethodsKnow
    <2> QED BY <2>3, <2>4, <2>5 DEF SQLiteInv
  <1>7. ASSUME NEW h \in Handler, Commit(h) PROVE SQLiteInv'
    <2>1. Consume(h) /\ lock = h
      BY <1>7, CommitConsumes DEF Commit, SQLiteInv, WriterHasReadTheLatest
    <2>2. call[h].value \in Value /\ call[h].at \in Nat
      BY <2>1 DEF Consume, SQLiteInv, TypeOK, StoreTypeOK, Call
    <2>3. \A w \in Value : Kind[w] = "refresh" /\ rows[w] # NoRow => rows'[w] # NoRow
      BY <2>1, <2>2, ConsumedRows DEF Consume, StoreInv
    <2> QED BY <1>0, <1>7, <2>1, <2>3, ReturnStep DEF Commit, Return
  <1>8. ASSUME NEW h \in Handler, SelectFamily(h) PROVE SQLiteInv'
    <2>1. CASE rows[call[h].value] = NoRow
      BY <1>0, <1>8, <2>1, ReturnStep DEF SelectFamily, Return
    <2>2. CASE rows[call[h].value] # NoRow
      <3>1. /\ pc' = [pc EXCEPT ![h] = "selected"] /\ pc[h] = "calling"
            /\ UNCHANGED <<storeVars, lock, current>>
        BY <1>8, <2>2 DEF SelectFamily, Goto
      <3>2. \A i \in Handler : (MayConsume(i)' <=> MayConsume(i)) /\ call'[i] = call[i]
        BY <3>1 DEF MayConsume, Status, storeVars
      <3>3. TypeOK'
        BY <1>0, <3>1 DEF SQLiteInv, TypeOK
      <3>4. MethodsKnow'
        BY <2>2, <3>1, <3>2 DEF SQLiteInv, MethodsKnow, TypeOK, storeVars
      <3>5. WriterHasReadTheLatest'
        BY <3>1, <3>2 DEF SQLiteInv, TypeOK, WriterHasReadTheLatest
      <3> QED BY <3>3, <3>4, <3>5 DEF SQLiteInv
    <2> QED BY <2>1, <2>2
  <1>9. ASSUME NEW h \in Handler, UpdateFamily(h) PROVE SQLiteInv'
    <2>1. call[h].value \in Value
      BY <1>9 DEF UpdateFamily, SQLiteInv, MethodsKnow, TypeOK, StoreTypeOK, Call
    <2>2. \A w \in Value : rows[w] # NoRow => rows'[w] # NoRow
      <3>1. RevokeFamily(h)
        BY <1>9, FamilyUpdateRevokes
      <3> QED BY <2>1, <3>1, RevokedRows DEF RevokeFamily, StoreInv
    <2>3. EndTransaction(h) /\ lock = NoHandler
      BY <1>9, LockAssumption DEF UpdateFamily, Autocommit, EndTransaction
    <2> QED BY <1>0, <1>9, <2>2, <2>3, ReturnStep DEF UpdateFamily, Return, Autocommit
  <1>10. ASSUME NEW h \in Handler, StatementError(h) PROVE SQLiteInv'
    BY <1>0, <1>10, ReturnStep DEF StatementError, Return
  <1>11. CASE ProcessCrash
    BY <1>0, <1>11, LockAssumption
    DEF ProcessCrash, Crash, SQLiteInv, TypeOK, MethodsKnow, WriterHasReadTheLatest
  <1>12. CASE (Tick /\ UNCHANGED <<pc, lock, current>>) \/ UNCHANGED vars
    <2>1. UNCHANGED <<rows, call, pc, lock, current>>
      BY <1>12 DEF Tick, vars, storeVars
    <2>2. \A i \in Handler : MayConsume(i)' <=> MayConsume(i)
      BY <2>1 DEF MayConsume, Status
    <2> QED BY <1>0, <2>1, <2>2 DEF SQLiteInv, TypeOK, MethodsKnow, WriterHasReadTheLatest
  <1> QED BY <1>1, <1>2, <1>3, <1>4, <1>5, <1>6, <1>7, <1>8, <1>9, <1>10, <1>11, <1>12
          DEF SQLiteNext

\* Both invariants hold of the SQL statements; the one of the atomic Store because
\* the statements refine its calls.
LEMMA SQLiteInvariant == SQLiteSpec => [](SQLiteInv /\ StoreInv)
  <1>1. SQLiteInit => SQLiteInv /\ StoreInv
    BY SQLiteInvInit, StoreInvInit DEF SQLiteInit
  <1>2. SQLiteInv /\ StoreInv /\ [SQLiteNext]_vars => (SQLiteInv /\ StoreInv)'
    BY SQLiteInvStep, RefinementStep, StoreInvStep
  <1> QED BY <1>1, <1>2, PTL DEF SQLiteSpec

\* The holder of SQLite's write lock is about to commit, and the value it
\* presents may still be consumed.
THEOREM WritersAreCurrent == SQLiteSpec => []WriterHasReadTheLatest
  <1>1. SQLiteInv => WriterHasReadTheLatest
    BY DEF SQLiteInv
  <1> QED BY <1>1, SQLiteInvariant, PTL

\* sqlite_store.go implements the Store with atomic calls that the handlers rely
\* on, although none of its methods looks at what its UPDATE has changed.
THEOREM SQLiteImplementsStore == SQLiteSpec => ImplementsOneTimeStore
  <1>1. SQLiteInit => Init
    BY DEF SQLiteInit
  <1> QED BY <1>1, SQLiteInvariant, RefinementStep, PTL DEF SQLiteSpec, Spec, ImplementsOneTimeStore

\* Every code, consent request and refresh token in SQLite is handed out once.
THEOREM SQLiteHandsOutOnce == SQLiteSpec => [](ConsumedOnce /\ ReuseIsReal)
  BY SQLiteImplementsStore, StoreHandsOutOnce, PTL DEF ImplementsOneTimeStore
=============================================================================
