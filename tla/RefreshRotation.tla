-------------------------- MODULE RefreshRotation --------------------------
(***************************************************************************)
(* Refresh tokens of the authorization server: issueTokens, the            *)
(* refresh_token grant (refreshTokenToken) and POST /revoke of             *)
(* auth-server/server/server.go, over the refresh table of the Store.      *)
(*                                                                         *)
(* Every request is served by its own goroutine (a Handler).  A handler    *)
(* holds no lock between two Store calls, so each call is a step of its    *)
(* own and requests interleave between ConsumeRefreshToken and the         *)
(* SaveRefreshToken or RevokeRefreshFamily that follows it.  The table is  *)
(* durable (SQLiteStore): Crash loses the handlers and keeps the rows.     *)
(***************************************************************************)
EXTENDS Store, FiniteSets

CONSTANTS Handler,      \* goroutines serving /token
          Token,        \* refresh-token values: what randomID can return or a client can present
          Family,       \* family identifiers randomID can return
          Client,       \* client_id values
          Authority,    \* what a grant conveys: subject, scopes and resource together
          LegacyToken,  \* tokens migrated from a schema without family_id
          RefreshTTL,   \* Config.RefreshTokenTTL
          MaxTime,      \* bound on the clock
          Faults,       \* whether Sign, the Store and the process may fail
          NoToken, NoGrant

Grant == [client : Client, authority : Authority]

RefreshRow == [family  : Family \cup {NoFamily},
               grant   : Grant,
               expires : Nat,
               used    : BOOLEAN,
               revoked : BOOLEAN]

ASSUME ConstantsAssumption ==
    /\ RefreshTTL \in Nat /\ MaxTime \in Nat
    /\ Faults \in BOOLEAN
    /\ LegacyToken \subseteq Token
    /\ NoRow \notin RefreshRow
    /\ NoToken \notin Token
    /\ NoFamily \notin Family
    /\ NoGrant \notin Grant

VARIABLES refresh,   \* Store.refresh
          now,       \* s.now()
          pc,        \* where each handler is between two Store calls
          old,       \* the refresh_token a handler was presented
          family,    \* issueTokens' familyID argument
          grant,     \* issueTokens' clientID, subject, scopes, resource arguments
          parent,    \* history: the token whose rotation produced this one
          reused,    \* history: families revoked because a token was reused
          settled,   \* history: those of them with no rotation in flight at that moment
          failed     \* history: families whose revocation on reuse a fault has prevented

vars == <<refresh, now, pc, old, family, grant, parent, reused, settled, failed>>
handlerVars == <<pc, old, family, grant>>

-----------------------------------------------------------------------------
Row(f, g) == [family |-> f, grant |-> g, expires |-> now + RefreshTTL,
              used |-> FALSE, revoked |-> FALSE]

\* A token that ConsumeRefreshToken would still accept, were it not expired.
Live(t) == refresh[t] # NoRow /\ ~refresh[t].used /\ ~refresh[t].revoked

Issuing(h, f) == pc[h] = "issuing" /\ family[h] = f

\* The families that the handlers hs are about to revoke.
RevokedBy(hs) ==
    {refresh[old[h]].family : h \in {i \in hs : pc[i] = "revoking"}} \ {NoFamily}

\* randomID never returns a value twice.
FreshToken(t)  == refresh[t] = NoRow
FreshFamily(f) == \A t \in Token : refresh[t] # NoRow => refresh[t].family # f

LegacyRow(g) == [family |-> NoFamily, grant |-> g, expires |-> RefreshTTL,
                 used |-> FALSE, revoked |-> FALSE]

\* The table is empty, or a migration has left some legacy tokens in it.
Init ==
    /\ \E L \in SUBSET LegacyToken : \E g \in [L -> Grant] :
         refresh = [t \in Token |-> IF t \in L THEN LegacyRow(g[t]) ELSE NoRow]
    /\ now = 0
    /\ pc     = [h \in Handler |-> "idle"]
    /\ old    = [h \in Handler |-> NoToken]
    /\ family = [h \in Handler |-> NoFamily]
    /\ grant  = [h \in Handler |-> NoGrant]
    /\ parent = [t \in Token |-> NoToken]
    /\ reused = {}
    /\ settled = {}
    /\ failed = {}

-----------------------------------------------------------------------------
\* The handler writes its response and its goroutine ends.
Respond(h) ==
    /\ pc'     = [pc EXCEPT ![h] = "idle"]
    /\ old'    = [old EXCEPT ![h] = NoToken]
    /\ family' = [family EXCEPT ![h] = NoFamily]
    /\ grant'  = [grant EXCEPT ![h] = NoGrant]

\* The handler enters issueTokens.
CallIssueTokens(h, t, f, g) ==
    /\ pc'     = [pc EXCEPT ![h] = "issuing"]
    /\ old'    = [old EXCEPT ![h] = t]
    /\ family' = [family EXCEPT ![h] = f]
    /\ grant'  = [grant EXCEPT ![h] = g]

\* authorizationCodeToken has consumed and checked a code (AuthorizationFlow
\* models how) and calls issueTokens with an empty familyID.
RedeemCode(h, g) ==
    /\ pc[h] = "idle"
    /\ CallIssueTokens(h, NoToken, NoFamily, g)
    /\ UNCHANGED <<refresh, now, parent, reused, settled, failed>>

\* Rotation that hands the successor to whichever client presents the token.
RotateToPresenter(h, t, c) ==
    /\ pc[h] = "idle"
    /\ RefreshStatus(refresh[t], now) = "ok"
    /\ refresh' = MarkUsed(refresh, t)
    /\ CallIssueTokens(h, t, refresh[t].family, [refresh[t].grant EXCEPT !.client = c])
    /\ UNCHANGED <<now, parent, reused, settled, failed>>

\* Rotation that reads the row and never marks it used.
RotateWithoutConsuming(h, t, c) ==
    /\ pc[h] = "idle"
    /\ RefreshStatus(refresh[t], now) = "ok"
    /\ CallIssueTokens(h, t, refresh[t].family, refresh[t].grant)
    /\ UNCHANGED <<refresh, now, parent, reused, settled, failed>>

\* Rotation that passes on the zero RefreshToken instead of the consumed one.
RotateZeroToken(h, t, c) ==
    /\ pc[h] = "idle"
    /\ RefreshStatus(refresh[t], now) = "ok"
    /\ refresh' = MarkUsed(refresh, t)
    /\ CallIssueTokens(h, t, NoFamily, NoGrant)
    /\ UNCHANGED <<now, parent, reused, settled, failed>>

\* refreshTokenToken with refresh_token = t and client_id = c, when
\* ConsumeRefreshToken succeeds.  The row is used up before the client is
\* compared, so a request naming another client burns the token.
ConsumeRefreshToken(h, t, c) ==
    /\ pc[h] = "idle"
    /\ RefreshStatus(refresh[t], now) = "ok"
    /\ refresh' = MarkUsed(refresh, t)
    /\ IF c = refresh[t].grant.client
       THEN CallIssueTokens(h, t, refresh[t].family, refresh[t].grant)
       ELSE UNCHANGED handlerVars
    /\ UNCHANGED <<now, parent, reused, settled, failed>>

\* refreshTokenToken when ConsumeRefreshToken answers ErrAlreadyUsed.
\* (ErrNotFound changes nothing and is a stuttering step.)
DetectReuse(h, t) ==
    /\ pc[h] = "idle"
    /\ RefreshStatus(refresh[t], now) = "ErrAlreadyUsed"
    /\ pc'  = [pc EXCEPT ![h] = "revoking"]
    /\ old' = [old EXCEPT ![h] = t]
    /\ UNCHANGED <<refresh, now, family, grant, parent, reused, settled, failed>>

\* The RevokeRefreshFamily call after a detected reuse, then the response.
RevokeFamily(h) ==
    /\ pc[h] = "revoking"
    /\ refresh' = RevokeRefreshFamily(refresh, old[h])
    /\ reused'  = reused \cup RevokedBy({h})
    /\ settled' = settled \cup {g \in RevokedBy({h}) : \A i \in Handler : ~Issuing(i, g)}
    /\ Respond(h)
    /\ UNCHANGED <<now, parent, failed>>

\* issueTokens: Sign succeeded; SaveRefreshToken stores the new token t in the
\* family it was given, or in a new family f when it was given none.
SaveRefreshToken(h, t, f) ==
    /\ pc[h] = "issuing"
    /\ FreshToken(t)
    /\ IF family[h] = NoFamily THEN FreshFamily(f) ELSE f = family[h]
    /\ refresh' = [refresh EXCEPT ![t] = Row(f, grant[h])]
    /\ parent' = [parent EXCEPT ![t] = old[h]]
    /\ Respond(h)
    /\ UNCHANGED <<now, reused, settled, failed>>

\* issueTokens returns server_error because Sign or SaveRefreshToken failed.
IssueFails(h) ==
    /\ Faults
    /\ pc[h] = "issuing"
    /\ Respond(h)
    /\ UNCHANGED <<refresh, now, parent, reused, settled, failed>>

\* RevokeRefreshFamily returned an error, which refreshTokenToken discards.
RevokeFamilyFails(h) ==
    /\ Faults
    /\ pc[h] = "revoking"
    /\ failed' = failed \cup RevokedBy({h})
    /\ Respond(h)
    /\ UNCHANGED <<refresh, now, parent, reused, settled>>

\* POST /revoke: one Store call, no client authentication, errors discarded.
Revoke(t) ==
    /\ refresh' = RevokeRefreshToken(refresh, t)
    /\ UNCHANGED <<now, handlerVars, parent, reused, settled, failed>>

\* The process dies and is restarted over the same database.
Crash ==
    /\ Faults
    /\ failed' = failed \cup RevokedBy(Handler)
    /\ pc'     = [h \in Handler |-> "idle"]
    /\ old'    = [h \in Handler |-> NoToken]
    /\ family' = [h \in Handler |-> NoFamily]
    /\ grant'  = [h \in Handler |-> NoGrant]
    /\ UNCHANGED <<refresh, now, parent, reused, settled>>

Tick ==
    /\ now < MaxTime
    /\ now' = now + 1
    /\ UNCHANGED <<refresh, handlerVars, parent, reused, settled, failed>>

HandlerStep(h) ==
    \/ RevokeFamily(h)
    \/ \E t \in Token, f \in Family : SaveRefreshToken(h, t, f)

Next ==
    \/ \E h \in Handler :
         \/ \E g \in Grant : RedeemCode(h, g)
         \/ \E t \in Token, c \in Client : ConsumeRefreshToken(h, t, c)
         \/ \E t \in Token : DetectReuse(h, t)
         \/ HandlerStep(h)
         \/ IssueFails(h)
         \/ RevokeFamilyFails(h)
    \/ \E t \in Token : Revoke(t)
    \/ Crash
    \/ Tick

Spec == Init /\ [][Next]_vars

\* The Go scheduler runs every goroutine that has work; nothing obliges a
\* client to send a request, or the clock to pass any particular deadline.
FairSpec == Spec /\ \A h \in Handler : WF_vars(HandlerStep(h))

-----------------------------------------------------------------------------
TypeOK ==
    /\ refresh \in [Token -> RefreshRow \cup {NoRow}]
    /\ now \in 0 .. MaxTime
    /\ pc \in [Handler -> {"idle", "issuing", "revoking"}]
    /\ old \in [Handler -> Token \cup {NoToken}]
    /\ family \in [Handler -> Family \cup {NoFamily}]
    /\ grant \in [Handler -> Grant \cup {NoGrant}]
    /\ parent \in [Token -> Token \cup {NoToken}]
    /\ reused \in SUBSET Family
    /\ settled \in SUBSET Family
    /\ failed \in SUBSET Family

\* A refresh token is rotated at most once: however many requests present it
\* at the same time, before or after a crash, it has at most one successor.
RotatedAtMostOnce ==
    \A s, t \in Token : parent[s] = parent[t] /\ parent[s] # NoToken => s = t

\* A family is a chain with one head: at any moment at most one of its tokens
\* can still be rotated, and none while a rotation of the family is in flight.
OneHeadPerFamily ==
    \A f \in Family :
        /\ \A s, t \in Token :
             /\ Live(s) /\ refresh[s].family = f
             /\ Live(t) /\ refresh[t].family = f
             => s = t
        /\ \A h, i \in Handler : Issuing(h, f) /\ Issuing(i, f) => h = i
        /\ \A t \in Token, h \in Handler :
             ~(Live(t) /\ refresh[t].family = f /\ Issuing(h, f))

\* Rotation never changes what a grant conveys: the client, subject, scopes and
\* resource of every token are those of the token it was rotated from, and the
\* successor stays in its family (a legacy token's successor starts one).
RotationPreservesGrant ==
    \A t \in Token : parent[t] # NoToken =>
        /\ refresh[t] # NoRow /\ refresh[parent[t]] # NoRow
        /\ refresh[t].grant = refresh[parent[t]].grant
        /\ refresh[t].family = refresh[parent[t]].family
              \/ refresh[parent[t]].family = NoFamily

\* All the tokens of a family convey the same grant: two code redemptions never
\* end up in one family.
FamilyHasOneGrant ==
    \A s, t \in Token :
        /\ refresh[s] # NoRow /\ refresh[t] # NoRow
        /\ refresh[s].family = refresh[t].family
        /\ refresh[s].family # NoFamily
        => refresh[s].grant = refresh[t].grant

\* Once a family is revoked on reuse while no rotation of it is in flight, it
\* is dead for good: no token of it is or becomes live, and none is being issued.
SettledFamilyIsDead ==
    \A f \in settled :
        /\ \A t \in Token : Live(t) => refresh[t].family # f
        /\ \A h \in Handler : ~Issuing(h, f)

\* The rest of the inductive invariant: what a handler between two Store calls
\* may rely on.  The token being rotated is used and has no successor yet, the
\* arguments of issueTokens are that token's, and no other handler rotates it.
InFlight ==
    \A h \in Handler :
        /\ pc[h] = "revoking" => old[h] \in Token /\ refresh[old[h]] # NoRow
        /\ pc[h] = "issuing" => grant[h] \in Grant
        /\ pc[h] = "issuing" /\ old[h] = NoToken => family[h] = NoFamily
        /\ pc[h] = "issuing" /\ old[h] # NoToken =>
             /\ refresh[old[h]] # NoRow /\ refresh[old[h]].used
             /\ refresh[old[h]].family = family[h]
             /\ refresh[old[h]].grant = grant[h]
             /\ \A t \in Token : parent[t] # old[h]
             /\ \A i \in Handler : pc[i] = "issuing" /\ old[i] = old[h] => i = h

ParentIsUsed ==
    \A t \in Token : parent[t] # NoToken =>
        refresh[parent[t]] # NoRow /\ refresh[parent[t]].used

SettledIsKnown ==
    \A f \in settled : \E t \in Token : refresh[t] # NoRow /\ refresh[t].family = f

RotationInv ==
    /\ TypeOK
    /\ InFlight
    /\ ParentIsUsed
    /\ SettledIsKnown
    /\ RotatedAtMostOnce
    /\ OneHeadPerFamily
    /\ RotationPreservesGrant
    /\ FamilyHasOneGrant
    /\ SettledFamilyIsDead

\* What docs/security-model.md and docs/auth-server.md say of reuse: once
\* RevokeRefreshFamily has run for a reused token, its family has no live token.
ReuseRevokesWholeFamily ==
    \A f \in reused, t \in Token : Live(t) => refresh[t].family # f

\* A used or revoked row keeps its marks, its family and its grant for ever;
\* nothing, a crash included, brings a spent refresh token back.
SpentStaysSpent ==
    [][\A t \in Token : refresh[t] # NoRow =>
         /\ refresh'[t] # NoRow
         /\ refresh[t].used => refresh'[t].used
         /\ refresh[t].revoked => refresh'[t].revoked
         /\ refresh'[t].family = refresh[t].family
         /\ refresh'[t].grant = refresh[t].grant]_vars

\* No step revokes the tokens of two families, or of two grants that belong to
\* none: tokens from before schema version 4 all have an empty family_id, and the
\* reuse of one says nothing of the others (RevokeRefreshFamily).
RevocationStaysInFamily ==
    [][\A s, t \in Token :
         LET Revokes(k) == /\ refresh[k] # NoRow /\ ~refresh[k].revoked
                           /\ refresh'[k] # NoRow /\ refresh'[k].revoked
         IN  s # t /\ Revokes(s) /\ Revokes(t)
             => refresh[s].family = refresh[t].family /\ refresh[s].family # NoFamily]_vars

\* A reuse that a handler has detected ends with every token that the family had
\* at that moment revoked, whatever the other handlers do meanwhile, unless a
\* fault has prevented a revocation of that family.
DetectedReuseIsRevoked ==
    \A t \in Token :
        (refresh[t] # NoRow /\ refresh[t].family \in RevokedBy(Handler))
        ~> (refresh[t] # NoRow /\ (refresh[t].revoked \/ refresh[t].family \in failed))
=============================================================================
