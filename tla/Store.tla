------------------------------- MODULE Store -------------------------------
(***************************************************************************)
(* The Store interface of auth-server/server/store.go: what one call does  *)
(* to one table.  MemoryStore runs every method under one mutex, so a call *)
(* is one atomic step of whichever handler makes it.  The operators below  *)
(* are pure functions of the table; the modules that extend this one keep  *)
(* the tables as variables.                                                *)
(*                                                                         *)
(* A table is a total function from the values a client can present to     *)
(* rows, with NoRow for a value that is not a key.  HashSecret is the key  *)
(* of a row; SHA-256 is taken to be injective, so a row is keyed by the    *)
(* value itself.                                                           *)
(***************************************************************************)
EXTENDS Integers

CONSTANTS NoRow,     \* the map has no entry under this key
          NoFamily   \* RefreshToken.FamilyID == "": a row older than schema version 4

-----------------------------------------------------------------------------
\* ExpiresAt.Before(now): a row is still good at the very instant it expires.
ExpiredAt(row, now) == row.expires < now

\* What ConsumeAuthorizationCode answers for a row.
CodeStatus(row, now) ==
    IF row # NoRow /\ ~ExpiredAt(row, now)
    THEN IF row.used THEN "ErrAlreadyUsed" ELSE "ok"
    ELSE "ErrNotFound"

\* What ConsumeConsentRequest answers for a row.
ConsentStatus(row, now) ==
    IF row # NoRow /\ ~ExpiredAt(row, now) THEN "ok" ELSE "ErrNotFound"

\* What ConsumeRefreshToken answers for a row: an expired or revoked row is
\* reported as missing before its Used flag is looked at.
RefreshStatus(row, now) ==
    IF row # NoRow /\ ~ExpiredAt(row, now) /\ ~row.revoked
    THEN IF row.used THEN "ErrAlreadyUsed" ELSE "ok"
    ELSE "ErrNotFound"

-----------------------------------------------------------------------------
\* The table after a successful ConsumeRefreshToken(t) or
\* ConsumeAuthorizationCode(t): the row stays, marked used.
MarkUsed(table, t) == [table EXCEPT ![t].used = TRUE]

\* The table after a successful ConsumeConsentRequest(t): the row is deleted.
DeleteRow(table, t) == [table EXCEPT ![t] = NoRow]

\* Revocation that deletes the row instead of marking it.
DeleteOnRevoke(table, t) == DeleteRow(table, t)

\* The table after RevokeRefreshToken(t), which touches one row only.
RevokeRefreshToken(table, t) ==
    IF table[t] = NoRow THEN table ELSE [table EXCEPT ![t].revoked = TRUE]

\* A family revocation that stops at the presented token.
RevokeOnlyPresented(table, t) == RevokeRefreshToken(table, t)

\* A family revocation that takes the empty family_id for a family.
RevokeEmptyFamilyToo(table, t) ==
    [k \in DOMAIN table |->
        IF table[t] # NoRow /\ table[k] # NoRow /\ table[k].family = table[t].family
        THEN [table[k] EXCEPT !.revoked = TRUE]
        ELSE table[k]]

\* The table after RevokeRefreshFamily(t): every row of the presented token's
\* family, or just that row when it belongs to none.
RevokeRefreshFamily(table, t) ==
    IF table[t] = NoRow \/ table[t].family = NoFamily
    THEN RevokeRefreshToken(table, t)
    ELSE [k \in DOMAIN table |->
            IF table[k] # NoRow /\ table[k].family = table[t].family
            THEN [table[k] EXCEPT !.revoked = TRUE]
            ELSE table[k]]
=============================================================================
