----------------------- MODULE AuthorizationFlowProofs -----------------------
(***************************************************************************)
(* Proofs about AuthorizationFlow, for every number of handlers, browsers, *)
(* identifiers, codes, clients and users, every deployment and every       *)
(* lifetime, with and without faults.                                      *)
(*                                                                         *)
(* The invariant is built in layers, each inductive given those before it: *)
(* what a handler holds at each label; that every copy of a request comes  *)
(* from one /authorize and its consent; that there is one copy; whose      *)
(* sign-in it carries; and what becomes of its code.                       *)
(***************************************************************************)
EXTENDS AuthorizationFlow, TLAPS

-----------------------------------------------------------------------------
\* Types, and what a handler holds.

Labels == {"idle", "beginning", "completing", "session", "coding", "issuing"}

\* A handler holds a request between consent and code, a subject once the
\* identity is known, and a code that it has used up while it issues tokens.
HandlerState ==
    \A h \in Handler :
        /\ pc[h] \in {"idle", "issuing"} <=> pending[h] = NoRow
        /\ pc[h] \in {"session", "coding"} => subject[h] \in Subject
        /\ pc[h] = "issuing" =>
             /\ code[h] \in [value : Code, verifier : Verifier]
             /\ codes[code[h].value] # NoRow
             /\ codes[code[h].value].used
             /\ S256(code[h].verifier) = codes[code[h].value].request.challenge

FlowTypes == TypeOK /\ HandlerState

\* An accepted request keeps its type when the resource is filled in.
LEMMA WithResourceType ==
    ASSUME TypeOK, NEW r \in Requests(config), ValidRequest(r)
    PROVE  /\ WithResource(r) \in Request
           /\ WithResource(r).resource \in config.resources
           /\ WithResource(r).scope \subseteq AllowedScopes
           /\ WithResource(r).nonce = r.nonce
  <1>1. r \in Request /\ config.resources \subseteq Resource
    BY ConstantsAssumption DEF TypeOK, Deployment
  <1>2. WithResource(r).resource \in config.resources /\ r.scope \subseteq AllowedScopes
    BY DEF ValidRequest
  <1>3. CASE WithResource(r) = r
    BY <1>1, <1>2, <1>3
  <1>4. ASSUME NEW x, WithResource(r) = [r EXCEPT !.resource = x]
        PROVE  /\ WithResource(r) \in Request
               /\ WithResource(r).scope = r.scope
               /\ WithResource(r).nonce = r.nonce
    <2>1. x \in Resource
      BY <1>1, <1>2, <1>4 DEF Request
    <2>2. QED
      BY <1>1, <1>4, <2>1 DEF Request
  <1>5. QED
    BY <1>2, <1>3, <1>4 DEF WithResource

\* What /authorize stores.
LEMMA PendingConsentType ==
    ASSUME TypeOK, NEW r \in Requests(config), NEW i \in Id, ValidRequest(r)
    PROVE  /\ PendingConsent(r, i) \in ConsentRow
           /\ PendingConsent(r, i).request = WithResource(r)
           /\ PendingConsent(r, i).verifier = Empty
           /\ PendingConsent(r, i).origin = i
           /\ PendingConsent(r, i).nonce = IF r.nonce = Empty THEN RandomNonce(i) ELSE r.nonce
  <1>1. WithResource(r) \in Request
    BY WithResourceType
  <1>2. now + CodeTTL \in Nat
    BY ConstantsAssumption DEF TypeOK
  <1>3. (IF r.nonce = Empty THEN RandomNonce(i) ELSE r.nonce) \in Nonce
    <2>1. r \in Request
      BY ConstantsAssumption DEF TypeOK
    <2>2. QED
      BY <2>1 DEF Request, Nonce
  <1>4. QED
    BY <1>1, <1>2, <1>3 DEF PendingConsent, ConsentRow

\* A server starts idle.
LEMMA FlowTypesInit == Init => FlowTypes
  BY ConstantsAssumption DEF Init, FlowTypes, TypeOK, HandlerState, HandlerCode

\* The handlers' part of the types.
HandlerTypes ==
    /\ pc \in [Handler -> Labels]
    /\ pending \in [Handler -> ConsentRow \cup {NoRow}]
    /\ subject \in [Handler -> Subject \cup {Empty}]
    /\ code \in [Handler -> HandlerCode]

\* A step that forgets no code and changes nothing about it but that it is used.
CodesKept ==
    \A k \in Code : codes[k] # NoRow =>
        /\ codes'[k] # NoRow
        /\ codes'[k].request = codes[k].request
        /\ codes'[k].subject = codes[k].subject
        /\ codes'[k].origin = codes[k].origin
        /\ codes[k].used => codes'[k].used

\* A handler that has answered is idle.
LEMMA RespondKeeps ==
    ASSUME FlowTypes, NEW h \in Handler, Respond(h), CodesKept
    PROVE  HandlerTypes' /\ HandlerState'
  <1>1. HandlerTypes /\ HandlerState
    BY DEF FlowTypes, TypeOK, HandlerTypes, Labels
  <1>2. HandlerTypes'
    BY <1>1 DEF HandlerTypes, Respond, Labels, HandlerCode
  <1>3. HandlerState'
    BY <1>1 DEF HandlerTypes, HandlerState, Respond, CodesKept
  <1>4. QED
    BY <1>2, <1>3

\* A handler that moves on holds the row and the subject it was given.
LEMMA GotoKeeps ==
    ASSUME FlowTypes, NEW h \in Handler, NEW row \in ConsentRow,
           NEW label \in {"beginning", "completing", "session", "coding"}, NEW u \in Subject \cup {Empty},
           label \in {"session", "coding"} => u \in Subject,
           Goto(h, label, row, u), CodesKept
    PROVE  HandlerTypes' /\ HandlerState'
  <1>1. HandlerTypes /\ HandlerState
    BY DEF FlowTypes, TypeOK, HandlerTypes, Labels
  <1>2. row # NoRow
    BY ConstantsAssumption
  <1>3. HandlerTypes'
    BY <1>1 DEF HandlerTypes, Goto, Labels
  <1>4. HandlerState'
    BY <1>1, <1>2 DEF HandlerTypes, HandlerState, Goto, CodesKept
  <1>5. QED
    BY <1>3, <1>4

\* A used code keeps everything else.
LEMMA MarkUsedKeeps ==
    ASSUME TypeOK, NEW k \in Code, codes[k] # NoRow
    PROVE  /\ MarkUsed(codes, k) \in [Code -> CodeRow \cup {NoRow}]
           /\ MarkUsed(codes, k)[k] # NoRow /\ MarkUsed(codes, k)[k].used
           /\ \A c \in Code :
                /\ MarkUsed(codes, k)[c] = NoRow <=> codes[c] = NoRow
                /\ codes[c] # NoRow =>
                     /\ MarkUsed(codes, k)[c].request = codes[c].request
                     /\ MarkUsed(codes, k)[c].subject = codes[c].subject
                     /\ MarkUsed(codes, k)[c].origin = codes[c].origin
                     /\ codes[c].used => MarkUsed(codes, k)[c].used
  <1>1. codes \in [Code -> CodeRow \cup {NoRow}]
    BY DEF TypeOK
  <1> DEFINE row == [codes[k] EXCEPT !.used = TRUE]
  <1>2. /\ row \in CodeRow /\ row.used
        /\ row.request = codes[k].request /\ row.subject = codes[k].subject /\ row.origin = codes[k].origin
    BY <1>1 DEF CodeRow
  <1>3. row # NoRow
    BY <1>2, ConstantsAssumption
  <1>4. MarkUsed(codes, k) = [codes EXCEPT ![k] = row]
    BY <1>1 DEF MarkUsed
  <1> HIDE DEF row
  <1>5. QED
    BY <1>1, <1>2, <1>3, <1>4

\* So does one that got an approval.
LEMMA ApproveKeeps ==
    ASSUME FlowTypes, NEW h \in Handler, NEW row \in ConsentRow, Approve(h, row), CodesKept
    PROVE  HandlerTypes' /\ HandlerState'
  <1>1. CASE UNCHANGED handlerVars
    BY <1>1 DEF FlowTypes, TypeOK, HandlerTypes, HandlerState, CodesKept, handlerVars, Labels
  <1>2. CASE Goto(h, "beginning", row, Empty)
    BY <1>2, GotoKeeps
  <1>3. ASSUME NEW u \in Subject, Goto(h, "coding", row, u)
        PROVE  HandlerTypes' /\ HandlerState'
    BY <1>3, GotoKeeps
  <1>4. QED
    BY <1>1, <1>2, <1>3 DEF Approve

\* A code is never overwritten: SaveAuthorizationCode draws a new one.
LEMMA EveryStepKeepsCodes == TypeOK /\ [Next]_vars => CodesKept
  <1> SUFFICES ASSUME TypeOK, [Next]_vars
               PROVE  CodesKept
    OBVIOUS
  <1>1. ASSUME NEW h \in Handler, NEW k \in Code, SaveAuthorizationCode(h, k)
        PROVE  CodesKept
    BY <1>1 DEF TypeOK, SaveAuthorizationCode, CodesKept
  <1>2. ASSUME NEW h \in Handler, NEW k \in Code, NEW q \in TokenRequest, NEW a \in Client,
               authorizationCodeToken(h, k, q, a)
        PROVE  CodesKept
    <2>1. codes[k] # NoRow /\ codes' = MarkUsed(codes, k)
      BY <1>2 DEF authorizationCodeToken, CodeStatus
    <2>2. QED
      BY <2>1, MarkUsedKeeps DEF CodesKept
  <1>3. CASE UNCHANGED codes
    BY <1>3 DEF CodesKept
  <1>4. QED
    BY <1>1, <1>2, <1>3
    DEF Next, authorize, authorizeApproved, finishConsent, SaveUpstreamState, identityCallback, Complete,
        CompleteFails, SaveUpstreamSession, issueTokens, StoreFails, SignIn, Crash, Tick, vars, tables

\* Every step keeps the types and what handlers hold.
LEMMA FlowTypesStep == FlowTypes /\ [Next]_vars => FlowTypes'
  <1> SUFFICES ASSUME FlowTypes, [Next]_vars
               PROVE  FlowTypes'
    OBVIOUS
  <1>1. TypeOK /\ HandlerState /\ HandlerTypes
    BY DEF FlowTypes, TypeOK, HandlerTypes, Labels
  <1>2. CodesKept
    BY <1>1, EveryStepKeepsCodes
  <1> DEFINE Rest == /\ config \in Deployments
                     /\ consent \in [Id -> ConsentRow \cup {NoRow}]
                     /\ codes \in [Code -> CodeRow \cup {NoRow}]
                     /\ sessions \in [Subject -> Id \cup {Empty}]
                     /\ now \in 0 .. MaxTime
                     /\ begun \subseteq [challenge : Challenge, nonce : Nonce, origin : Id]
                     /\ logins \subseteq Login
                     /\ drawn \subseteq Id /\ approved \subseteq Id /\ denied \subseteq Id
                     /\ asked \in [Id -> Request \cup {NoRow}]
  <1>3. Rest
    BY <1>1 DEF TypeOK
  <1>4. SUFFICES Rest' /\ HandlerTypes' /\ HandlerState'
    BY DEF FlowTypes, TypeOK, HandlerTypes, Labels
  <1>5. UNCHANGED handlerVars => HandlerTypes' /\ HandlerState'
    BY <1>1, <1>2 DEF handlerVars, HandlerTypes, HandlerState, CodesKept
  <1> USE DEF tables, provider, history
  <1>6. ASSUME NEW r \in Requests(config), NEW i \in Id, authorize(r, i)
        PROVE  Rest' /\ HandlerTypes' /\ HandlerState'
    BY <1>1, <1>3, <1>5, <1>6, WithResourceType, PendingConsentType DEF authorize
  <1>7. ASSUME NEW h \in Handler, NEW r \in Requests(config), NEW i \in Id, authorizeApproved(h, r, i)
        PROVE  Rest' /\ HandlerTypes' /\ HandlerState'
    <2>1. PendingConsent(r, i) \in ConsentRow /\ PendingConsent(r, i).origin = i /\ WithResource(r) \in Request
      BY <1>1, <1>7, WithResourceType, PendingConsentType DEF authorizeApproved
    <2>2. HandlerTypes' /\ HandlerState'
      BY <1>2, <1>7, <2>1, ApproveKeeps DEF authorizeApproved
    <2>3. QED
      BY <1>3, <1>7, <2>1, <2>2 DEF authorizeApproved, Approve
  <1>8. ASSUME NEW h \in Handler, NEW i \in Id, NEW approve \in BOOLEAN, finishConsent(h, i, approve)
        PROVE  Rest' /\ HandlerTypes' /\ HandlerState'
    <2>1. consent[i] \in ConsentRow /\ consent[i].origin \in Id
      BY <1>3, <1>8 DEF finishConsent, ConsentStatus, ConsentRow
    <2>2. Rest'
      BY <1>3, <1>8, <2>1 DEF finishConsent, Approve, DeleteRow
    <2>3. CASE approve
      BY <1>2, <1>8, <2>1, <2>2, <2>3, ApproveKeeps DEF finishConsent
    <2>4. CASE ~approve
      BY <1>5, <1>8, <2>2, <2>4 DEF finishConsent
    <2>5. QED
      BY <2>3, <2>4
  <1>9. ASSUME NEW h \in Handler, NEW s \in Id, SaveUpstreamState(h, s)
        PROVE  Rest' /\ HandlerTypes' /\ HandlerState'
    <2>1. pending[h] \in ConsentRow
      BY <1>1, <1>9 DEF SaveUpstreamState, HandlerState, HandlerTypes
    <2>2. now + CodeTTL \in Nat
      BY <1>3, ConstantsAssumption
    <2>3. [pending[h] EXCEPT !.verifier = BeginVerifier(s), !.expires = now + CodeTTL] \in ConsentRow
      BY <2>1, <2>2 DEF ConsentRow, BeginVerifier
    <2>4. [challenge |-> S256(BeginVerifier(s)), nonce |-> pending[h].nonce, origin |-> pending[h].origin]
            \in [challenge : Challenge, nonce : Nonce, origin : Id]
      BY <2>1 DEF ConsentRow, Challenge, BeginVerifier
    <2>5. Rest'
      BY <1>3, <1>9, <2>3, <2>4 DEF SaveUpstreamState
    <2>6. QED
      BY <1>2, <1>9, <2>5, RespondKeeps DEF SaveUpstreamState
  <1>10. ASSUME NEW h \in Handler, NEW i \in Id, identityCallback(h, i)
         PROVE  Rest' /\ HandlerTypes' /\ HandlerState'
    <2>1. consent[i] \in ConsentRow
      BY <1>3, <1>10 DEF identityCallback, ConsentStatus
    <2>2. Rest'
      BY <1>3, <1>10 DEF identityCallback, DeleteRow
    <2>3. QED
      BY <1>2, <1>10, <2>1, <2>2, GotoKeeps DEF identityCallback
  <1>11. ASSUME NEW h \in Handler, NEW l \in logins, Complete(h, l)
         PROVE  Rest' /\ HandlerTypes' /\ HandlerState'
    <2>1. pending[h] \in ConsentRow /\ l.subject \in Subject
      BY <1>1, <1>3, <1>11 DEF Complete, HandlerState, HandlerTypes, Login
    <2>2. Rest'
      BY <1>3, <1>11 DEF Complete
    <2>3. QED
      BY <1>2, <1>11, <2>1, <2>2, GotoKeeps DEF Complete
  <1>12. ASSUME NEW h \in Handler, SaveUpstreamSession(h)
         PROVE  Rest' /\ HandlerTypes' /\ HandlerState'
    <2>1. pending[h] \in ConsentRow /\ subject[h] \in Subject
      BY <1>1, <1>12 DEF SaveUpstreamSession, HandlerState, HandlerTypes
    <2>2. pending[h].origin \in Id
      BY <2>1 DEF ConsentRow
    <2>3. Rest'
      BY <1>3, <1>12, <2>1, <2>2 DEF SaveUpstreamSession
    <2>4. QED
      BY <1>2, <1>12, <2>1, <2>3, GotoKeeps DEF SaveUpstreamSession
  <1>13. ASSUME NEW h \in Handler, NEW k \in Code, SaveAuthorizationCode(h, k)
         PROVE  Rest' /\ HandlerTypes' /\ HandlerState'
    <2>1. pending[h] \in ConsentRow /\ subject[h] \in Subject
      BY <1>1, <1>13 DEF SaveAuthorizationCode, HandlerState, HandlerTypes
    <2>2. now + CodeTTL \in Nat
      BY <1>3, ConstantsAssumption
    <2>3. [request |-> pending[h].request, subject |-> subject[h], expires |-> now + CodeTTL,
           used |-> FALSE, origin |-> pending[h].origin] \in CodeRow
      BY <2>1, <2>2 DEF ConsentRow, CodeRow
    <2>4. Rest'
      BY <1>3, <1>13, <2>3 DEF SaveAuthorizationCode
    <2>5. QED
      BY <1>2, <1>13, <2>4, RespondKeeps DEF SaveAuthorizationCode
  <1>14. ASSUME NEW h \in Handler, NEW k \in Code, NEW q \in TokenRequest, NEW a \in Client,
                authorizationCodeToken(h, k, q, a)
         PROVE  Rest' /\ HandlerTypes' /\ HandlerState'
    <2>1. codes[k] # NoRow /\ codes' = MarkUsed(codes, k) /\ pc[h] = "idle"
      BY <1>14 DEF authorizationCodeToken, CodeStatus
    <2>2. Rest'
      BY <1>1, <1>3, <1>14, <2>1, MarkUsedKeeps DEF authorizationCodeToken
    <2>3. CASE MatchesCode(codes[k], q, a) /\ CallIssueTokens(h, k, q)
      <3> DEFINE new == [value |-> k, verifier |-> q.verifier]
      <3>1. new \in [value : Code, verifier : Verifier] /\ new.value = k /\ new.verifier = q.verifier
        BY DEF TokenRequest
      <3>2. pc' = [pc EXCEPT ![h] = "issuing"] /\ code' = [code EXCEPT ![h] = new] /\ UNCHANGED <<pending, subject>>
        BY <2>3 DEF CallIssueTokens
      <3>3. S256(new.verifier) = codes[k].request.challenge
        BY <2>3, <3>1 DEF MatchesCode
      <3> HIDE DEF new
      <3>4. HandlerTypes'
        BY <1>1, <3>1, <3>2 DEF HandlerTypes, HandlerCode, Labels
      <3>5. codes'[k] # NoRow /\ codes'[k].used /\ codes'[k].request = codes[k].request
        BY <1>1, <2>1, MarkUsedKeeps
      <3>6. HandlerState'
        <4> SUFFICES ASSUME NEW g \in Handler
                     PROVE  /\ pc'[g] \in {"idle", "issuing"} <=> pending'[g] = NoRow
                            /\ pc'[g] \in {"session", "coding"} => subject'[g] \in Subject
                            /\ pc'[g] = "issuing" =>
                                 /\ code'[g] \in [value : Code, verifier : Verifier]
                                 /\ codes'[code'[g].value] # NoRow
                                 /\ codes'[code'[g].value].used
                                 /\ S256(code'[g].verifier) = codes'[code'[g].value].request.challenge
          BY DEF HandlerState
        <4>1. CASE g = h
          <5>1. pc'[g] = "issuing" /\ code'[g] = new /\ pending'[g] = NoRow
            BY <1>1, <2>1, <3>2, <4>1 DEF HandlerTypes, HandlerState
          <5>2. QED
            BY <3>1, <3>3, <3>5, <5>1
        <4>2. CASE g # h
          <5>1. /\ pc'[g] = pc[g] /\ code'[g] = code[g] /\ pending'[g] = pending[g]
                /\ subject'[g] = subject[g]
            BY <1>1, <3>2, <4>2 DEF HandlerTypes
          <5>2. QED
            BY <1>1, <1>2, <5>1 DEF HandlerState, CodesKept
        <4>3. QED
          BY <4>1, <4>2
      <3>7. QED
        BY <2>2, <3>4, <3>6
    <2>4. CASE UNCHANGED handlerVars
      BY <1>5, <2>2, <2>4
    <2>5. QED
      BY <1>14, <2>3, <2>4 DEF authorizationCodeToken
  <1>15. ASSUME NEW h \in Handler, CompleteFails(h) \/ StoreFails(h) \/ issueTokens(h)
         PROVE  Rest' /\ HandlerTypes' /\ HandlerState'
    <2>1. Rest'
      BY <1>3, <1>15 DEF CompleteFails, StoreFails, issueTokens
    <2>2. QED
      BY <1>2, <1>15, <2>1, RespondKeeps DEF CompleteFails, StoreFails, issueTokens
  <1>16. ASSUME NEW b \in begun, NEW u \in Subject, SignIn(b, u)
         PROVE  Rest' /\ HandlerTypes' /\ HandlerState'
    <2>1. [challenge |-> b.challenge, nonce |-> b.nonce, subject |-> u, origin |-> b.origin] \in Login
      BY <1>3 DEF Login
    <2>2. QED
      BY <1>3, <1>5, <1>16, <2>1 DEF SignIn
  <1>17. CASE Crash
    BY <1>3, <1>17 DEF Crash, HandlerTypes, HandlerState, HandlerCode, Labels
  <1>18. CASE Tick
    BY <1>3, <1>5, <1>18, ConstantsAssumption DEF Tick
  <1>19. CASE UNCHANGED vars
    BY <1>3, <1>5, <1>19 DEF vars
  <1> HIDE DEF Rest
  <1>20. QED
    BY <1>6, <1>7, <1>8, <1>9, <1>10, <1>11, <1>12, <1>13, <1>14, <1>15, <1>16, <1>17, <1>18, <1>19
    DEF Next

-----------------------------------------------------------------------------
\* Every copy of a request comes from /authorize and, past the consent page,
\* from an approval.

\* A consent row or a code carries the request that /authorize stored for it,
\* and that request asks for nothing the server does not offer.
IsAsked(row) ==
    /\ row.origin \in drawn
    /\ row.request = asked[row.origin]
    /\ row.request.resource \in config.resources
    /\ row.request.scope \subseteq AllowedScopes

RowsAreAsked ==
    \A i \in Id : consent[i] # NoRow =>
        /\ i \in drawn
        /\ IsAsked(consent[i])
        /\ consent[i].verifier # Empty => consent[i].origin \in approved

\* A callback may consume a row that nobody has approved; Complete then finds
\* no verifier in it.
PendingIsAsked ==
    \A h \in Handler : pending[h] # NoRow =>
        /\ IsAsked(pending[h])
        /\ pc[h] # "completing" \/ pending[h].verifier # Empty => pending[h].origin \in approved

CodesAreApproved ==
    \A k \in Code : codes[k] # NoRow => IsAsked(codes[k]) /\ codes[k].origin \in approved

FlowOrigins ==
    /\ RowsAreAsked
    /\ PendingIsAsked
    /\ CodesAreApproved
    /\ approved \subseteq drawn /\ denied \subseteq drawn

LEMMA FlowOriginsInit == Init => FlowOrigins
  BY DEF Init, FlowOrigins, RowsAreAsked, PendingIsAsked, CodesAreApproved

\* Nothing that was drawn, asked, approved or denied is taken back.
HistoryGrows ==
    /\ drawn \subseteq drawn' /\ approved \subseteq approved'
    /\ \A i \in drawn : asked'[i] = asked[i]
    /\ config' = config

LEMMA EveryStepGrowsHistory == TypeOK /\ [Next]_vars => HistoryGrows
  <1> SUFFICES ASSUME TypeOK, [Next]_vars
               PROVE  HistoryGrows
    OBVIOUS
  <1>1. ASSUME NEW h \in Handler, NEW row, Approve(h, row)
        PROVE  approved \subseteq approved'
    BY <1>1 DEF Approve
  <1>2. ASSUME NEW r \in Requests(config), NEW i \in Id,
               authorize(r, i) \/ \E h \in Handler : authorizeApproved(h, r, i)
        PROVE  HistoryGrows
    BY <1>1, <1>2 DEF HistoryGrows, authorize, authorizeApproved, TypeOK
  <1>3. ASSUME NEW h \in Handler, NEW i \in Id, NEW approve \in BOOLEAN, finishConsent(h, i, approve)
        PROVE  HistoryGrows
    BY <1>1, <1>3 DEF HistoryGrows, finishConsent
  <1>4. QED
    BY <1>2, <1>3
    DEF HistoryGrows, Next, SaveUpstreamState, identityCallback, Complete, CompleteFails,
        SaveUpstreamSession, SaveAuthorizationCode, authorizationCodeToken, issueTokens, StoreFails,
        SignIn, Crash, Tick, vars, history

\* An approval leaves the handler with the row it was given, or fails.
LEMMA ApproveEffect ==
    ASSUME NEW h \in Handler, NEW row, Approve(h, row)
    PROVE  /\ approved' = approved \cup {row.origin}
           /\ \/ UNCHANGED handlerVars
              \/ config.interactive /\ Goto(h, "beginning", row, Empty)
              \/ ~config.interactive /\ \E u \in Subject : Goto(h, "coding", row, u)
  BY DEF Approve

\* A handler that moves on with a row that was asked, and approved where that
\* matters, keeps the pending rows so.
LEMMA GotoKeepsPending ==
    ASSUME FlowTypes, FlowOrigins, HistoryGrows, NEW h \in Handler, NEW row, NEW label, NEW u,
           Goto(h, label, row, u), IsAsked(row)',
           label # "completing" \/ row.verifier # Empty => row.origin \in approved'
    PROVE  PendingIsAsked'
  <1>1. /\ pending \in [Handler -> ConsentRow \cup {NoRow}]
        /\ pc \in [Handler -> Labels]
    BY DEF FlowTypes, TypeOK, Labels
  <1>2. PendingIsAsked
    BY DEF FlowOrigins
  <1>3. QED
    BY <1>1, <1>2 DEF Goto, PendingIsAsked, IsAsked, HistoryGrows

\* So does one that answers.
LEMMA RespondKeepsPending ==
    ASSUME FlowTypes, FlowOrigins, HistoryGrows, NEW h \in Handler, Respond(h)
    PROVE  PendingIsAsked'
  <1>1. /\ pending \in [Handler -> ConsentRow \cup {NoRow}]
        /\ pc \in [Handler -> Labels]
    BY DEF FlowTypes, TypeOK, Labels
  <1>2. PendingIsAsked
    BY DEF FlowOrigins
  <1>3. QED
    BY <1>1, <1>2 DEF Respond, PendingIsAsked, IsAsked, HistoryGrows

LEMMA FlowOriginsStep == FlowTypes /\ FlowOrigins /\ [Next]_vars => FlowOrigins'
  <1> SUFFICES ASSUME FlowTypes, FlowOrigins, [Next]_vars
               PROVE  FlowOrigins'
    OBVIOUS
  <1>1. HistoryGrows /\ CodesKept
    BY EveryStepGrowsHistory, EveryStepKeepsCodes DEF FlowTypes
  <1>2. /\ consent \in [Id -> ConsentRow \cup {NoRow}] /\ codes \in [Code -> CodeRow \cup {NoRow}]
        /\ pending \in [Handler -> ConsentRow \cup {NoRow}] /\ pc \in [Handler -> Labels]
        /\ asked \in [Id -> Request \cup {NoRow}]
        /\ TypeOK /\ HandlerState
    BY DEF FlowTypes, TypeOK, Labels
  <1>3. RowsAreAsked /\ PendingIsAsked /\ CodesAreApproved /\ approved \subseteq drawn /\ denied \subseteq drawn
    BY DEF FlowOrigins
  \* What does not change stays true, as the history grows.
  <1>4. UNCHANGED consent => RowsAreAsked'
    BY <1>1, <1>3 DEF RowsAreAsked, IsAsked, HistoryGrows
  <1>5. UNCHANGED handlerVars => PendingIsAsked'
    BY <1>1, <1>3 DEF PendingIsAsked, IsAsked, HistoryGrows, handlerVars
  <1>6. UNCHANGED codes => CodesAreApproved'
    BY <1>1, <1>3 DEF CodesAreApproved, IsAsked, HistoryGrows
  <1> USE DEF FlowOrigins, tables, provider, history
  <1>7. ASSUME NEW r \in Requests(config), NEW i \in Id, authorize(r, i)
        PROVE  FlowOrigins'
    <2>1. PICK row \in ConsentRow : row = PendingConsent(r, i)
      BY <1>2, <1>7, PendingConsentType DEF authorize
    <2>2. IsAsked(row)' /\ row.verifier = Empty
      BY <1>2, <1>7, <2>1, PendingConsentType, WithResourceType DEF authorize, IsAsked
    <2>3. RowsAreAsked'
      BY <1>1, <1>2, <1>3, <1>7, <2>1, <2>2 DEF authorize, RowsAreAsked, IsAsked, HistoryGrows
    <2>4. QED
      BY <1>3, <1>5, <1>6, <1>7, <2>3 DEF authorize
  <1>8. ASSUME NEW h \in Handler, NEW r \in Requests(config), NEW i \in Id, authorizeApproved(h, r, i)
        PROVE  FlowOrigins'
    <2>1. PICK row \in ConsentRow : row = PendingConsent(r, i)
      BY <1>2, <1>8, PendingConsentType DEF authorizeApproved
    <2>2. IsAsked(row)' /\ row.origin = i
      BY <1>2, <1>8, <2>1, PendingConsentType, WithResourceType DEF authorizeApproved, IsAsked
    <2>3. Approve(h, row) /\ UNCHANGED <<consent, codes, denied>> /\ drawn' = drawn \cup {i}
      BY <1>8, <2>1 DEF authorizeApproved
    <2>4. PendingIsAsked'
      BY <1>1, <1>5, <2>2, <2>3, ApproveEffect, GotoKeepsPending
    <2>5. QED
      BY <1>3, <1>4, <1>6, <2>2, <2>3, <2>4, ApproveEffect
  <1>9. ASSUME NEW h \in Handler, NEW i \in Id, NEW approve \in BOOLEAN, finishConsent(h, i, approve)
        PROVE  FlowOrigins'
    <2>1. PICK row \in ConsentRow : row = consent[i] /\ row # NoRow
      BY <1>2, <1>9 DEF finishConsent, ConsentStatus
    <2>2. IsAsked(row) /\ IsAsked(row)'
      BY <1>1, <1>3, <2>1 DEF RowsAreAsked, IsAsked, HistoryGrows
    <2>3. RowsAreAsked'
      BY <1>1, <1>2, <1>3, <1>9 DEF finishConsent, DeleteRow, RowsAreAsked, IsAsked, HistoryGrows
    <2>4. CodesAreApproved' /\ UNCHANGED drawn
      BY <1>6, <1>9 DEF finishConsent
    <2>5. CASE approve
      <3>1. Approve(h, row) /\ UNCHANGED denied
        BY <1>9, <2>1, <2>5 DEF finishConsent
      <3>2. PendingIsAsked'
        BY <1>1, <1>5, <2>2, <3>1, ApproveEffect, GotoKeepsPending
      <3>3. QED
        BY <1>3, <2>2, <2>3, <2>4, <3>1, <3>2, ApproveEffect DEF IsAsked
    <2>6. CASE ~approve
      BY <1>3, <1>5, <1>9, <2>1, <2>2, <2>3, <2>4, <2>6 DEF finishConsent, IsAsked
    <2>7. QED
      BY <2>5, <2>6
  <1>10. ASSUME NEW h \in Handler, NEW s \in Id, SaveUpstreamState(h, s)
         PROVE  FlowOrigins'
    <2>1. pending[h] \in ConsentRow /\ pending[h] # NoRow /\ pending[h].origin \in approved /\ IsAsked(pending[h])
      BY <1>2, <1>3, <1>10, ConstantsAssumption DEF SaveUpstreamState, HandlerState, PendingIsAsked
    <2>2. PICK row : row = [pending[h] EXCEPT !.verifier = BeginVerifier(s), !.expires = now + CodeTTL]
      OBVIOUS
    <2>3. row.request = pending[h].request /\ row.origin = pending[h].origin
      BY <2>1, <2>2 DEF ConsentRow
    <2>4. IsAsked(row)' /\ row.origin \in approved'
      BY <1>1, <2>1, <2>3 DEF IsAsked, HistoryGrows
    <2>5. RowsAreAsked'
      BY <1>1, <1>2, <1>3, <1>10, <2>2, <2>4 DEF SaveUpstreamState, RowsAreAsked, IsAsked, HistoryGrows
    <2>6. QED
      BY <1>1, <1>3, <1>6, <1>10, <2>5, RespondKeepsPending DEF SaveUpstreamState
  <1>11. ASSUME NEW h \in Handler, NEW i \in Id, identityCallback(h, i)
         PROVE  FlowOrigins'
    <2>1. PICK row \in ConsentRow : row = consent[i] /\ row # NoRow
      BY <1>2, <1>11 DEF identityCallback, ConsentStatus
    <2>2. IsAsked(row)' /\ (row.verifier # Empty => row.origin \in approved')
      BY <1>1, <1>3, <2>1 DEF RowsAreAsked, IsAsked, HistoryGrows
    <2>3. RowsAreAsked'
      BY <1>1, <1>2, <1>3, <1>11 DEF identityCallback, DeleteRow, RowsAreAsked, IsAsked, HistoryGrows
    <2>4. PendingIsAsked'
      BY <1>1, <1>11, <2>1, <2>2, GotoKeepsPending DEF identityCallback
    <2>5. QED
      BY <1>3, <1>6, <1>11, <2>3, <2>4 DEF identityCallback
  <1>12. ASSUME NEW h \in Handler, (\E l \in logins : Complete(h, l)) \/ SaveUpstreamSession(h)
         PROVE  FlowOrigins'
    <2>1. PICK row \in ConsentRow : row = pending[h] /\ row # NoRow
      BY <1>2, <1>12 DEF Complete, SaveUpstreamSession, HandlerState
    <2>2. IsAsked(row)' /\ row.origin \in approved'
      BY <1>1, <1>3, <1>12, <2>1
      DEF Complete, SaveUpstreamSession, CompleteAccepts, PendingIsAsked, IsAsked, HistoryGrows
    <2>3. PendingIsAsked'
      BY <1>1, <1>12, <2>1, <2>2, GotoKeepsPending DEF Complete, SaveUpstreamSession
    <2>4. QED
      BY <1>3, <1>4, <1>6, <1>12, <2>3 DEF Complete, SaveUpstreamSession
  <1>13. ASSUME NEW h \in Handler, NEW k \in Code, SaveAuthorizationCode(h, k)
         PROVE  FlowOrigins'
    <2>1. pending[h] \in ConsentRow /\ pending[h] # NoRow /\ pending[h].origin \in approved /\ IsAsked(pending[h])
      BY <1>2, <1>3, <1>13, ConstantsAssumption DEF SaveAuthorizationCode, HandlerState, PendingIsAsked
    <2>2. PICK row : row = [request |-> pending[h].request, subject |-> subject[h],
                            expires |-> now + CodeTTL, used |-> FALSE, origin |-> pending[h].origin]
      OBVIOUS
    <2>3. row.request = pending[h].request /\ row.origin = pending[h].origin
      BY <2>2
    <2>4. IsAsked(row)' /\ row.origin \in approved'
      BY <1>1, <2>1, <2>3 DEF IsAsked, HistoryGrows
    <2>5. CodesAreApproved'
      BY <1>1, <1>2, <1>3, <1>13, <2>2, <2>4 DEF SaveAuthorizationCode, CodesAreApproved, IsAsked, HistoryGrows
    <2>6. QED
      BY <1>1, <1>3, <1>4, <1>13, <2>5, RespondKeepsPending DEF SaveAuthorizationCode
  <1>14. ASSUME NEW h \in Handler, NEW k \in Code, NEW q \in TokenRequest, NEW a \in Client,
                authorizationCodeToken(h, k, q, a)
         PROVE  FlowOrigins'
    <2>1. codes[k] # NoRow /\ codes' = MarkUsed(codes, k) /\ pc[h] = "idle" /\ pending[h] = NoRow
      BY <1>2, <1>14 DEF authorizationCodeToken, CodeStatus, HandlerState
    <2>2. \A c \in Code : codes'[c] = NoRow <=> codes[c] = NoRow
      BY <1>2, <2>1, MarkUsedKeeps
    <2>3. CodesAreApproved'
      BY <1>1, <1>3, <2>2 DEF CodesAreApproved, IsAsked, HistoryGrows, CodesKept
    <2>4. PendingIsAsked'
      <3>1. UNCHANGED pending /\ \A g \in Handler : pending[g] # NoRow => pc'[g] = pc[g]
        BY <1>2, <1>14, <2>1 DEF authorizationCodeToken, CallIssueTokens, handlerVars
      <3>2. QED
        BY <1>1, <1>3, <3>1 DEF PendingIsAsked, IsAsked, HistoryGrows
    <2>5. QED
      BY <1>3, <1>4, <1>14, <2>3, <2>4 DEF authorizationCodeToken
  <1>15. ASSUME NEW h \in Handler, CompleteFails(h) \/ StoreFails(h) \/ issueTokens(h)
         PROVE  FlowOrigins'
    BY <1>1, <1>3, <1>4, <1>6, <1>15, RespondKeepsPending DEF CompleteFails, StoreFails, issueTokens
  <1>16. CASE Crash
    BY <1>3, <1>4, <1>6, <1>16 DEF Crash, PendingIsAsked
  <1>17. CASE (\E b \in begun, u \in Subject : SignIn(b, u)) \/ Tick \/ UNCHANGED vars
    BY <1>3, <1>4, <1>5, <1>6, <1>17 DEF SignIn, Tick, vars
  <1> HIDE DEF FlowOrigins
  <1>18. QED
    BY <1>7, <1>8, <1>9, <1>10, <1>11, <1>12, <1>13, <1>14, <1>15, <1>16, <1>17 DEF Next

-----------------------------------------------------------------------------
\* There is one copy of a request.

FlowCopies == RequestNeverForks /\ DenialIsFinal

LEMMA FlowCopiesInit == Init => FlowCopies
  BY DEF Init, FlowCopies, RequestNeverForks, DenialIsFinal, Rows, Carriers, CodesOf

\* What a step may do with the copies of the request of consent_id i: leave or
\* drop them, ...
Shrinks(i) == Rows(i)' \subseteq Rows(i) /\ Carriers(i)' \subseteq Carriers(i) /\ CodesOf(i)' \subseteq CodesOf(i)

\* ... or have it in one place, if it was not denied.
InOnePlace(i) ==
    \/ \E x \in Id : Rows(i)' \subseteq {x} /\ Carriers(i)' = {} /\ CodesOf(i)' = {}
    \/ \E x \in Handler : Rows(i)' = {} /\ Carriers(i)' \subseteq {x} /\ CodesOf(i)' = {}
    \/ \E x \in Code : Rows(i)' = {} /\ Carriers(i)' = {} /\ CodesOf(i)' \subseteq {x}

Gone(i) == Rows(i)' = {} /\ Carriers(i)' = {} /\ CodesOf(i)' = {}

LEMMA CopiesKept ==
    ASSUME FlowCopies, denied \subseteq Id,
           \A i \in Id : Shrinks(i) \/ (InOnePlace(i) /\ i \notin denied'),
           \A i \in denied' : i \in denied \/ Gone(i)
    PROVE  FlowCopies'
  <1>1. RequestNeverForks'
    <2> SUFFICES ASSUME NEW i \in Id
                 PROVE  /\ \A x, y \in Rows(i)' : x = y
                        /\ \A x, y \in Carriers(i)' : x = y
                        /\ \A x, y \in CodesOf(i)' : x = y
                        /\ Rows(i)' = {} \/ Carriers(i)' = {}
                        /\ Rows(i)' = {} \/ CodesOf(i)' = {}
                        /\ Carriers(i)' = {} \/ CodesOf(i)' = {}
      BY DEF RequestNeverForks
    <2>1. CASE InOnePlace(i)
      BY <2>1 DEF InOnePlace
    <2>2. CASE Shrinks(i)
      BY <2>2 DEF Shrinks, FlowCopies, RequestNeverForks
    <2>3. QED
      BY <2>1, <2>2
  <1>2. DenialIsFinal'
    <2> SUFFICES ASSUME NEW i \in denied'
                 PROVE  Gone(i)
      BY DEF DenialIsFinal, Gone
    <2>1. CASE i \in denied
      BY <2>1 DEF Shrinks, Gone, FlowCopies, DenialIsFinal
    <2>2. QED
      BY <2>1
  <1>3. QED
    BY <1>1, <1>2 DEF FlowCopies

\* Nobody holds a request that was never asked.
LEMMA NothingBeforeDrawn ==
    ASSUME FlowOrigins, NEW i \in Id, i \notin drawn
    PROVE  Rows(i) = {} /\ Carriers(i) = {} /\ CodesOf(i) = {}
  BY DEF FlowOrigins, RowsAreAsked, PendingIsAsked, CodesAreApproved, IsAsked, Rows, Carriers, CodesOf

\* A copy that is in one place is in no other.
LEMMA OnlyCopy ==
    ASSUME FlowCopies, NEW i \in Id
    PROVE  /\ \A x \in Rows(i) : Rows(i) = {x} /\ Carriers(i) = {} /\ CodesOf(i) = {} /\ i \notin denied
           /\ \A x \in Carriers(i) : Rows(i) = {} /\ Carriers(i) = {x} /\ CodesOf(i) = {} /\ i \notin denied
  BY DEF FlowCopies, RequestNeverForks, DenialIsFinal

\* A handler that answers drops its copy.
LEMMA RespondCarriers ==
    ASSUME FlowTypes, NEW h \in Handler, Respond(h)
    PROVE  \A i \in Id : Carriers(i)' = Carriers(i) \ {h}
  <1>1. pending \in [Handler -> ConsentRow \cup {NoRow}]
    BY DEF FlowTypes, TypeOK
  <1>2. QED
    BY <1>1 DEF Respond, Carriers

\* A handler that moves on holds the row it was given.
LEMMA GotoCarriers ==
    ASSUME FlowTypes, NEW h \in Handler, NEW row \in ConsentRow, NEW label, NEW u, Goto(h, label, row, u)
    PROVE  \A i \in Id : Carriers(i)' = IF i = row.origin THEN Carriers(i) \cup {h} ELSE Carriers(i) \ {h}
  <1>1. pending \in [Handler -> ConsentRow \cup {NoRow}] /\ row # NoRow
    BY ConstantsAssumption DEF FlowTypes, TypeOK
  <1>2. QED
    BY <1>1 DEF Goto, Carriers

\* After an approval of a request that only the approving handler can hold.
LEMMA ApproveCarriers ==
    ASSUME FlowTypes, NEW h \in Handler, NEW row \in ConsentRow, Approve(h, row), pc[h] = "idle"
    PROVE  \A i \in Id : Carriers(i)' \subseteq IF i = row.origin THEN Carriers(i) \cup {h} ELSE Carriers(i)
  <1>1. CASE UNCHANGED handlerVars
    BY <1>1 DEF handlerVars, Carriers
  <1>2. ASSUME NEW label, NEW u, Goto(h, label, row, u)
        PROVE  \A i \in Id : Carriers(i)' \subseteq IF i = row.origin THEN Carriers(i) \cup {h} ELSE Carriers(i)
    BY <1>2, GotoCarriers
  <1>3. QED
    BY <1>1, <1>2 DEF Approve

LEMMA FlowCopiesStep == FlowTypes /\ FlowOrigins /\ FlowCopies /\ [Next]_vars => FlowCopies'
  <1> SUFFICES ASSUME FlowTypes, FlowOrigins, FlowCopies, [Next]_vars
               PROVE  FlowCopies'
    OBVIOUS
  <1>1. /\ consent \in [Id -> ConsentRow \cup {NoRow}] /\ codes \in [Code -> CodeRow \cup {NoRow}]
        /\ pending \in [Handler -> ConsentRow \cup {NoRow}] /\ denied \subseteq Id /\ denied \subseteq drawn
        /\ TypeOK /\ HandlerState
    BY DEF FlowTypes, TypeOK, FlowOrigins
  <1>2. UNCHANGED consent => \A i \in Id : Rows(i)' = Rows(i)
    BY DEF Rows
  <1>3. UNCHANGED pending => \A i \in Id : Carriers(i)' = Carriers(i)
    BY DEF Carriers
  <1>4. UNCHANGED codes => \A i \in Id : CodesOf(i)' = CodesOf(i)
    BY DEF CodesOf
  <1>5. NoRow \notin ConsentRow
    BY ConstantsAssumption
  <1> USE DEF tables, provider, history
  <1>6. ASSUME NEW r \in Requests(config), NEW i \in Id, authorize(r, i)
        PROVE  FlowCopies'
    <2>1. PICK row \in ConsentRow : consent' = [consent EXCEPT ![i] = row] /\ row.origin = i
      BY <1>1, <1>6, PendingConsentType DEF authorize
    <2>2. i \notin drawn /\ i \notin denied' /\ UNCHANGED <<codes, denied, pending>>
      BY <1>1, <1>6 DEF authorize, handlerVars
    <2>3. Rows(i) = {} /\ Carriers(i) = {} /\ CodesOf(i) = {} /\ consent[i] = NoRow
      BY <2>2, NothingBeforeDrawn DEF FlowOrigins, RowsAreAsked
    <2>4. Rows(i)' = {i} /\ \A o \in Id \ {i} : Rows(o)' = Rows(o)
      BY <1>1, <1>5, <2>1, <2>3 DEF Rows
    <2>5. \A o \in Id : Shrinks(o) \/ (InOnePlace(o) /\ o \notin denied')
      BY <1>3, <1>4, <2>2, <2>3, <2>4 DEF Shrinks, InOnePlace
    <2>6. QED
      BY <1>1, <2>2, <2>5, CopiesKept
  <1>7. ASSUME NEW h \in Handler, NEW r \in Requests(config), NEW i \in Id, authorizeApproved(h, r, i)
        PROVE  FlowCopies'
    <2>1. PICK row \in ConsentRow : row = PendingConsent(r, i) /\ row.origin = i
      BY <1>1, <1>7, PendingConsentType DEF authorizeApproved
    <2>2. /\ i \notin drawn /\ i \notin denied' /\ UNCHANGED <<consent, codes, denied>>
          /\ Approve(h, row) /\ pc[h] = "idle"
      BY <1>1, <1>7, <2>1 DEF authorizeApproved
    <2>3. Rows(i) = {} /\ Carriers(i) = {} /\ CodesOf(i) = {}
      BY <2>2, NothingBeforeDrawn
    <2>4. Carriers(i)' \subseteq {h} /\ \A o \in Id \ {i} : Carriers(o)' \subseteq Carriers(o)
      BY <2>1, <2>2, <2>3, ApproveCarriers
    <2>5. \A o \in Id : Shrinks(o) \/ (InOnePlace(o) /\ o \notin denied')
      BY <1>2, <1>4, <2>2, <2>3, <2>4 DEF Shrinks, InOnePlace
    <2>6. QED
      BY <1>1, <2>2, <2>5, CopiesKept
  <1>8. ASSUME NEW i \in Id, consent[i] # NoRow, consent' = DeleteRow(consent, i)
        PROVE  \E o \in Id : /\ o = consent[i].origin /\ i \in Rows(o)
                             /\ Rows(o)' = {}
                             /\ \A p \in Id : Rows(p)' \subseteq Rows(p)
    <2>1. PICK o \in Id : o = consent[i].origin
      BY <1>1, <1>8 DEF ConsentRow
    <2>2. i \in Rows(o) /\ \A p \in Id : Rows(p)' = Rows(p) \ {i}
      BY <1>1, <1>8, <2>1 DEF Rows, DeleteRow
    <2>3. QED
      BY <2>1, <2>2, OnlyCopy
  <1>9. ASSUME NEW h \in Handler, NEW i \in Id, NEW approve \in BOOLEAN, finishConsent(h, i, approve)
        PROVE  FlowCopies'
    <2>1. consent[i] \in ConsentRow /\ consent' = DeleteRow(consent, i) /\ consent[i] # NoRow
      BY <1>1, <1>9 DEF finishConsent, ConsentStatus
    <2>2. PICK o \in Id : /\ o = consent[i].origin /\ i \in Rows(o)
                          /\ Rows(o)' = {}
                          /\ \A p \in Id : Rows(p)' \subseteq Rows(p)
      BY <1>8, <2>1
    <2>3. Carriers(o) = {} /\ CodesOf(o) = {} /\ o \notin denied /\ UNCHANGED codes
      BY <1>9, <2>2, OnlyCopy DEF finishConsent
    <2>4. CASE approve
      <3>1. Approve(h, consent[i]) /\ UNCHANGED denied /\ pc[h] = "idle"
        BY <1>9, <2>4 DEF finishConsent
      <3>2. Carriers(o)' \subseteq {h} /\ \A p \in Id \ {o} : Carriers(p)' \subseteq Carriers(p)
        BY <2>1, <2>2, <2>3, <3>1, ApproveCarriers
      <3>3. \A p \in Id : Shrinks(p) \/ (InOnePlace(p) /\ p \notin denied')
        BY <1>4, <2>2, <2>3, <3>1, <3>2 DEF Shrinks, InOnePlace
      <3>4. QED
        BY <1>1, <3>1, <3>3, CopiesKept
    <2>5. CASE ~approve
      <3>1. denied' = denied \cup {o} /\ UNCHANGED pending
        BY <1>9, <2>2, <2>5 DEF finishConsent, handlerVars
      <3>2. Gone(o) /\ \A p \in Id : Shrinks(p)
        BY <1>3, <1>4, <2>2, <2>3, <3>1 DEF Gone, Shrinks
      <3>3. QED
        BY <1>1, <3>1, <3>2, CopiesKept
    <2>6. QED
      BY <2>4, <2>5
  <1>10. ASSUME NEW h \in Handler, NEW s \in Id, SaveUpstreamState(h, s)
         PROVE  FlowCopies'
    <2>1. pending[h] \in ConsentRow /\ pending[h] # NoRow
      BY <1>1, <1>10 DEF SaveUpstreamState, HandlerState
    <2> DEFINE row == [pending[h] EXCEPT !.verifier = BeginVerifier(s), !.expires = now + CodeTTL]
    <2>2. PICK o \in Id : o = pending[h].origin /\ row.origin = o /\ row # NoRow
      <3>1. now + CodeTTL \in Nat
        BY <1>1, ConstantsAssumption DEF TypeOK
      <3>2. row \in ConsentRow /\ row.origin = pending[h].origin
        BY <2>1, <3>1 DEF ConsentRow, BeginVerifier
      <3>3. QED
        BY <1>5, <2>1, <3>2 DEF ConsentRow
    <2>3. consent' = [consent EXCEPT ![s] = row] /\ s \notin drawn /\ Respond(h) /\ UNCHANGED <<codes, denied>>
      BY <1>10 DEF SaveUpstreamState
    <2>4. h \in Carriers(o)
      BY <2>1, <2>2 DEF Carriers
    <2>5. Rows(o) = {} /\ Carriers(o) = {h} /\ CodesOf(o) = {} /\ o \notin denied
      BY <2>2, <2>4, OnlyCopy
    <2>6. consent[s] = NoRow
      BY <2>3 DEF FlowOrigins, RowsAreAsked
    <2> HIDE DEF row
    <2>7. Rows(o)' = {s} /\ \A p \in Id \ {o} : Rows(p)' = Rows(p)
      BY <1>1, <2>2, <2>3, <2>5, <2>6 DEF Rows
    <2>8. Carriers(o)' = {} /\ \A p \in Id : Carriers(p)' \subseteq Carriers(p)
      BY <2>2, <2>3, <2>5, RespondCarriers
    <2>9. \A p \in Id : Shrinks(p) \/ (InOnePlace(p) /\ p \notin denied')
      BY <1>4, <2>3, <2>5, <2>7, <2>8 DEF Shrinks, InOnePlace
    <2>10. QED
      BY <1>1, <2>3, <2>9, CopiesKept
  <1>11. ASSUME NEW h \in Handler, NEW i \in Id, identityCallback(h, i)
         PROVE  FlowCopies'
    <2>1. consent[i] \in ConsentRow /\ consent' = DeleteRow(consent, i) /\ consent[i] # NoRow
      BY <1>1, <1>11 DEF identityCallback, ConsentStatus
    <2>2. PICK o \in Id : /\ o = consent[i].origin /\ i \in Rows(o)
                          /\ Rows(o)' = {}
                          /\ \A p \in Id : Rows(p)' \subseteq Rows(p)
      BY <1>8, <2>1
    <2>3. Carriers(o) = {} /\ CodesOf(o) = {} /\ o \notin denied /\ UNCHANGED <<codes, denied>>
      BY <1>11, <2>2, OnlyCopy DEF identityCallback
    <2>4. Carriers(o)' \subseteq {h} /\ \A p \in Id \ {o} : Carriers(p)' \subseteq Carriers(p)
      BY <1>11, <2>1, <2>2, <2>3, GotoCarriers DEF identityCallback
    <2>5. \A p \in Id : Shrinks(p) \/ (InOnePlace(p) /\ p \notin denied')
      BY <1>4, <2>2, <2>3, <2>4 DEF Shrinks, InOnePlace
    <2>6. QED
      BY <1>1, <2>3, <2>5, CopiesKept
  <1>12. ASSUME UNCHANGED <<consent, codes, denied>>, \A i \in Id : Carriers(i)' \subseteq Carriers(i)
         PROVE  FlowCopies'
    <2>1. \A i \in Id : Shrinks(i)
      BY <1>2, <1>4, <1>12 DEF Shrinks
    <2>2. QED
      BY <1>1, <1>12, <2>1, CopiesKept
  <1>13. ASSUME NEW h \in Handler, (\E l \in logins : Complete(h, l)) \/ SaveUpstreamSession(h)
         PROVE  FlowCopies'
    <2>1. UNCHANGED <<consent, codes, denied, pending>>
      BY <1>1, <1>13 DEF Complete, SaveUpstreamSession, Goto
    <2>2. QED
      BY <1>3, <1>12, <2>1
  <1>14. ASSUME NEW h \in Handler, NEW k \in Code, SaveAuthorizationCode(h, k)
         PROVE  FlowCopies'
    <2>1. pending[h] \in ConsentRow /\ pending[h] # NoRow /\ subject[h] \in Subject
      BY <1>1, <1>14 DEF SaveAuthorizationCode, HandlerState
    <2> DEFINE row == [request |-> pending[h].request, subject |-> subject[h],
                       expires |-> now + CodeTTL, used |-> FALSE, origin |-> pending[h].origin]
    <2>2. PICK o \in Id : o = pending[h].origin /\ row.origin = o /\ row # NoRow
      <3>1. now + CodeTTL \in Nat
        BY <1>1, ConstantsAssumption DEF TypeOK
      <3>2. row \in CodeRow /\ row.origin = pending[h].origin
        BY <2>1, <3>1 DEF ConsentRow, CodeRow
      <3>3. NoRow \notin CodeRow
        BY ConstantsAssumption
      <3>4. QED
        BY <2>1, <3>2, <3>3 DEF ConsentRow
    <2>3. /\ codes' = [codes EXCEPT ![k] = row] /\ codes[k] = NoRow
          /\ Respond(h) /\ UNCHANGED <<consent, denied>>
      BY <1>14 DEF SaveAuthorizationCode
    <2>4. h \in Carriers(o)
      BY <2>1, <2>2 DEF Carriers
    <2>5. Rows(o) = {} /\ Carriers(o) = {h} /\ CodesOf(o) = {} /\ o \notin denied
      BY <2>2, <2>4, OnlyCopy
    <2> HIDE DEF row
    <2>6. CodesOf(o)' = {k} /\ \A p \in Id \ {o} : CodesOf(p)' = CodesOf(p)
      BY <1>1, <2>2, <2>3, <2>5 DEF CodesOf
    <2>7. Carriers(o)' = {} /\ \A p \in Id : Carriers(p)' \subseteq Carriers(p)
      BY <2>2, <2>3, <2>5, RespondCarriers
    <2>8. \A p \in Id : Shrinks(p) \/ (InOnePlace(p) /\ p \notin denied')
      BY <1>2, <2>3, <2>5, <2>6, <2>7 DEF Shrinks, InOnePlace
    <2>9. QED
      BY <1>1, <2>3, <2>8, CopiesKept
  <1>15. ASSUME NEW h \in Handler, NEW k \in Code, NEW q \in TokenRequest, NEW a \in Client,
                authorizationCodeToken(h, k, q, a)
         PROVE  FlowCopies'
    <2>1. /\ codes[k] # NoRow /\ codes' = MarkUsed(codes, k)
          /\ UNCHANGED <<consent, denied, pending>>
      BY <1>15 DEF authorizationCodeToken, CodeStatus, CallIssueTokens, handlerVars
    <2>2. \A c \in Code : /\ codes'[c] = NoRow <=> codes[c] = NoRow
                          /\ codes[c] # NoRow => codes'[c].origin = codes[c].origin
      BY <1>1, <2>1, MarkUsedKeeps
    <2>3. \A i \in Id : Shrinks(i)
      BY <1>2, <1>3, <2>1, <2>2 DEF Shrinks, CodesOf
    <2>4. QED
      BY <1>1, <2>1, <2>3, CopiesKept
  <1>16. ASSUME NEW h \in Handler, CompleteFails(h) \/ StoreFails(h) \/ issueTokens(h)
         PROVE  FlowCopies'
    <2>1. Respond(h) /\ UNCHANGED <<consent, codes, denied>>
      BY <1>16 DEF CompleteFails, StoreFails, issueTokens
    <2>2. QED
      BY <1>12, <2>1, RespondCarriers
  <1>17. CASE Crash
    <2>1. \A i \in Id : Carriers(i)' = {}
      BY <1>17 DEF Crash, Carriers
    <2>2. QED
      BY <1>12, <1>17, <2>1 DEF Crash
  <1>18. CASE (\E b \in begun, u \in Subject : SignIn(b, u)) \/ Tick \/ UNCHANGED vars
    <2>1. UNCHANGED <<consent, codes, denied, pending>>
      BY <1>18 DEF SignIn, Tick, vars, handlerVars
    <2>2. QED
      BY <1>3, <1>12, <2>1
  <1>19. QED
    BY <1>6, <1>7, <1>9, <1>10, <1>11, <1>13, <1>14, <1>15, <1>16, <1>17, <1>18 DEF Next

-----------------------------------------------------------------------------
\* Whose sign-in a request carries.

\* No client of deployment d sends a nonce, so that every nonce is random.
NoncesAreRandom(d) == \A r \in Requests(d) : r.nonce = Empty

\* The provider can tell sign-ins apart: it enforces PKCE, or its ID token
\* carries a random nonce.
ChecksSignIn(d) == d.pkce \/ (d.idToken /\ NoncesAreRandom(d))

\* A verifier in a row is that of a redirect which was sent for this request.
HasBegun(row) ==
    row.verifier # Empty =>
        \E b \in begun : b.challenge = S256(row.verifier) /\ b.nonce = row.nonce /\ b.origin = row.origin

OwnNonce(row) == NoncesAreRandom(config) => row.nonce = RandomNonce(row.origin)

RowsHaveBegun == \A i \in Id : consent[i] # NoRow => HasBegun(consent[i]) /\ OwnNonce(consent[i])

PendingHasBegun == \A h \in Handler : pending[h] # NoRow => HasBegun(pending[h]) /\ OwnNonce(pending[h])

\* A challenge was sent for one request only.
ChallengesAreUnique ==
    /\ \A b \in begun : OwnNonce(b) /\ \E s \in drawn : b.challenge = S256(CodeVerifier(s))
    /\ \A b, c \in begun : b.challenge = c.challenge => b.origin = c.origin

LoginsHaveBegun ==
    \A l \in logins : \E b \in begun : b.challenge = l.challenge /\ b.nonce = l.nonce /\ b.origin = l.origin

\* Somebody signed in as u for the request of consent_id i.
SignedIn(i, u) == \E l \in logins : l.origin = i /\ l.subject = u

PendingSignedIn ==
    config.interactive /\ ChecksSignIn(config) =>
        \A h \in Handler : pc[h] \in {"session", "coding"} => SignedIn(pending[h].origin, subject[h])

CodesSignedIn ==
    config.interactive /\ ChecksSignIn(config) =>
        \A k \in Code : codes[k] # NoRow => SignedIn(codes[k].origin, codes[k].subject)

FlowSignIns ==
    /\ RowsHaveBegun
    /\ PendingHasBegun
    /\ ChallengesAreUnique
    /\ LoginsHaveBegun
    /\ PendingSignedIn
    /\ CodesSignedIn

LEMMA FlowSignInsInit == Init => FlowSignIns
  BY DEF Init, FlowSignIns, RowsHaveBegun, PendingHasBegun, ChallengesAreUnique, LoginsHaveBegun,
         PendingSignedIn, CodesSignedIn

\* Redirects and sign-ins are not taken back.
ProviderGrows == begun \subseteq begun' /\ logins \subseteq logins' /\ config' = config

LEMMA EveryStepGrowsProvider == [Next]_vars => ProviderGrows
  BY DEF ProviderGrows, Next, authorize, authorizeApproved, finishConsent, SaveUpstreamState,
         identityCallback, Complete, CompleteFails, SaveUpstreamSession, SaveAuthorizationCode,
         authorizationCodeToken, issueTokens, StoreFails, SignIn, Crash, Tick, vars, provider

\* A request that the upstream login l completes is the one l was made for.
LEMMA CompletedByOwnLogin ==
    ASSUME FlowSignIns, ChecksSignIn(config), NEW h \in Handler, pending[h] # NoRow, NEW l \in logins,
           CompleteAccepts(pending[h], l)
    PROVE  l.origin = pending[h].origin
  <1>1. PICK b \in begun : b.challenge = l.challenge /\ b.nonce = l.nonce /\ b.origin = l.origin
    BY DEF FlowSignIns, LoginsHaveBegun
  <1>2. PICK c \in begun : c.challenge = S256(pending[h].verifier) /\ c.origin = pending[h].origin
    BY DEF FlowSignIns, PendingHasBegun, HasBegun, CompleteAccepts
  <1>3. CASE config.pkce
    BY <1>1, <1>2, <1>3 DEF CompleteAccepts, FlowSignIns, ChallengesAreUnique
  <1>4. CASE config.idToken /\ NoncesAreRandom(config)
    <2>1. b.nonce = RandomNonce(l.origin) /\ pending[h].nonce = RandomNonce(pending[h].origin)
      BY <1>1, <1>4 DEF FlowSignIns, ChallengesAreUnique, PendingHasBegun, OwnNonce
    <2>2. QED
      BY <1>1, <1>4, <2>1 DEF CompleteAccepts, RandomNonce
  <1>5. QED
    BY <1>3, <1>4 DEF ChecksSignIn

\* /authorize stores a row that no redirect was sent for.
LEMMA PendingConsentNonce ==
    ASSUME TypeOK, NEW r \in Requests(config), NEW i \in Id, ValidRequest(r)
    PROVE  OwnNonce(PendingConsent(r, i)) /\ PendingConsent(r, i).verifier = Empty
  BY PendingConsentType DEF OwnNonce, NoncesAreRandom

\* A handler that moves on keeps its row's redirect and nonce.
LEMMA GotoKeepsBegun ==
    ASSUME FlowTypes, PendingHasBegun, ProviderGrows, NEW h \in Handler, NEW row, NEW label, NEW u,
           Goto(h, label, row, u), HasBegun(row), OwnNonce(row)
    PROVE  PendingHasBegun'
  <1>1. pending \in [Handler -> ConsentRow \cup {NoRow}]
    BY DEF FlowTypes, TypeOK
  <1>2. QED
    BY <1>1 DEF Goto, PendingHasBegun, HasBegun, OwnNonce, ProviderGrows

\* A handler that moves on with the sign-in it has, or needs none, keeps the
\* handlers signed in.
LEMMA GotoKeepsSignedIn ==
    ASSUME FlowTypes, PendingSignedIn, ProviderGrows, NEW h \in Handler, NEW row, NEW label, NEW u,
           Goto(h, label, row, u),
           config.interactive /\ ChecksSignIn(config) /\ label \in {"session", "coding"}
             => SignedIn(row.origin, u)
    PROVE  PendingSignedIn'
  <1>1. /\ pending \in [Handler -> ConsentRow \cup {NoRow}] /\ pc \in [Handler -> Labels]
        /\ subject \in [Handler -> Subject \cup {Empty}]
    BY DEF FlowTypes, TypeOK, Labels
  <1>2. QED
    BY <1>1 DEF Goto, PendingSignedIn, SignedIn, ProviderGrows, ChecksSignIn, NoncesAreRandom

\* A handler that answers holds nothing.
LEMMA RespondKeepsSignIns ==
    ASSUME FlowTypes, PendingHasBegun, PendingSignedIn, ProviderGrows, NEW h \in Handler, Respond(h)
    PROVE  PendingHasBegun' /\ PendingSignedIn'
  <1>1. /\ pending \in [Handler -> ConsentRow \cup {NoRow}] /\ pc \in [Handler -> Labels]
        /\ subject \in [Handler -> Subject \cup {Empty}]
    BY DEF FlowTypes, TypeOK, Labels
  <1>2. PendingHasBegun'
    BY <1>1 DEF Respond, PendingHasBegun, HasBegun, OwnNonce, ProviderGrows
  <1>3. PendingSignedIn'
    BY <1>1 DEF Respond, PendingSignedIn, SignedIn, ProviderGrows, ChecksSignIn, NoncesAreRandom
  <1>4. QED
    BY <1>2, <1>3

LEMMA FlowSignInsStep == FlowTypes /\ FlowOrigins /\ FlowSignIns /\ [Next]_vars => FlowSignIns'
  <1> SUFFICES ASSUME FlowTypes, FlowOrigins, FlowSignIns, [Next]_vars
               PROVE  FlowSignIns'
    OBVIOUS
  <1>1. /\ consent \in [Id -> ConsentRow \cup {NoRow}] /\ codes \in [Code -> CodeRow \cup {NoRow}]
        /\ pending \in [Handler -> ConsentRow \cup {NoRow}] /\ pc \in [Handler -> Labels]
        /\ TypeOK /\ HandlerState
    BY DEF FlowTypes, TypeOK, Labels
  <1>2. /\ RowsHaveBegun /\ PendingHasBegun /\ ChallengesAreUnique /\ LoginsHaveBegun
        /\ PendingSignedIn /\ CodesSignedIn
    BY DEF FlowSignIns
  <1>3. ProviderGrows /\ CodesKept /\ drawn \subseteq drawn'
    BY <1>1, EveryStepGrowsProvider, EveryStepKeepsCodes, EveryStepGrowsHistory DEF HistoryGrows
  <1> USE DEF ProviderGrows
  \* What does not change stays true, as redirects and sign-ins are added.
  <1>4. UNCHANGED consent => RowsHaveBegun'
    BY <1>2, <1>3 DEF RowsHaveBegun, HasBegun, OwnNonce
  <1>5. UNCHANGED handlerVars => PendingHasBegun' /\ PendingSignedIn'
    BY <1>2, <1>3
    DEF PendingHasBegun, HasBegun, OwnNonce, PendingSignedIn, SignedIn, ChecksSignIn, NoncesAreRandom, handlerVars
  <1>6. UNCHANGED begun => ChallengesAreUnique'
    BY <1>2, <1>3 DEF ChallengesAreUnique, OwnNonce
  <1>7. UNCHANGED logins => LoginsHaveBegun'
    BY <1>2, <1>3 DEF LoginsHaveBegun
  <1>8. UNCHANGED codes => CodesSignedIn'
    BY <1>2, <1>3 DEF CodesSignedIn, SignedIn, ChecksSignIn, NoncesAreRandom
  <1> USE DEF tables, provider, history
  <1>9. ASSUME NEW r \in Requests(config), NEW i \in Id, authorize(r, i)
        PROVE  FlowSignIns'
    <2>1. PICK row : row = PendingConsent(r, i)
      OBVIOUS
    <2>2. HasBegun(row) /\ OwnNonce(row)
      BY <1>1, <1>9, <2>1, PendingConsentNonce DEF authorize, HasBegun
    <2>3. RowsHaveBegun'
      BY <1>1, <1>2, <1>3, <1>9, <2>1, <2>2 DEF authorize, RowsHaveBegun, HasBegun, OwnNonce
    <2>4. QED
      BY <1>5, <1>6, <1>7, <1>8, <1>9, <2>3 DEF authorize, FlowSignIns
  <1>10. ASSUME NEW h \in Handler, NEW row, Approve(h, row), HasBegun(row), OwnNonce(row)
         PROVE  PendingHasBegun' /\ PendingSignedIn'
    <2>1. CASE UNCHANGED handlerVars
      BY <1>5, <2>1
    <2>2. CASE Goto(h, "beginning", row, Empty)
      BY <1>2, <1>3, <1>10, <2>2, GotoKeepsBegun, GotoKeepsSignedIn
    <2>3. ASSUME ~config.interactive, NEW u \in Subject, Goto(h, "coding", row, u)
          PROVE  PendingHasBegun' /\ PendingSignedIn'
      BY <1>2, <1>3, <1>10, <2>3, GotoKeepsBegun, GotoKeepsSignedIn
    <2>4. QED
      BY <1>10, <2>1, <2>2, <2>3, ApproveEffect
  <1>11. ASSUME NEW h \in Handler, NEW r \in Requests(config), NEW i \in Id, authorizeApproved(h, r, i)
         PROVE  FlowSignIns'
    <2>1. PICK row : row = PendingConsent(r, i)
      OBVIOUS
    <2>2. HasBegun(row) /\ OwnNonce(row) /\ Approve(h, row)
      BY <1>1, <1>11, <2>1, PendingConsentNonce DEF authorizeApproved, HasBegun
    <2>3. QED
      BY <1>4, <1>6, <1>7, <1>8, <1>10, <1>11, <2>2 DEF authorizeApproved, FlowSignIns
  <1>12. ASSUME NEW i \in Id, consent' = DeleteRow(consent, i)
         PROVE  RowsHaveBegun'
    BY <1>1, <1>2, <1>3, <1>12 DEF DeleteRow, RowsHaveBegun, HasBegun, OwnNonce
  <1>13. ASSUME NEW h \in Handler, NEW i \in Id, NEW approve \in BOOLEAN, finishConsent(h, i, approve)
         PROVE  FlowSignIns'
    <2>1. PICK row : row = consent[i] /\ row # NoRow
      BY <1>1, <1>13 DEF finishConsent, ConsentStatus
    <2>2. HasBegun(row) /\ OwnNonce(row)
      BY <1>2, <2>1 DEF RowsHaveBegun
    <2>3. PendingHasBegun' /\ PendingSignedIn'
      BY <1>5, <1>10, <1>13, <2>1, <2>2 DEF finishConsent
    <2>4. QED
      BY <1>6, <1>7, <1>8, <1>12, <1>13, <2>3 DEF finishConsent, FlowSignIns
  <1>14. ASSUME NEW h \in Handler, NEW s \in Id, SaveUpstreamState(h, s)
         PROVE  FlowSignIns'
    <2>1. pending[h] \in ConsentRow /\ pending[h] # NoRow /\ OwnNonce(pending[h])
      BY <1>1, <1>2, <1>14 DEF SaveUpstreamState, HandlerState, PendingHasBegun
    <2>2. PICK row : row = [pending[h] EXCEPT !.verifier = CodeVerifier(s), !.expires = now + CodeTTL]
      OBVIOUS
    <2>3. PICK b : b = [challenge |-> S256(CodeVerifier(s)), nonce |-> pending[h].nonce,
                        origin |-> pending[h].origin]
      OBVIOUS
    <2>4. /\ row.verifier = CodeVerifier(s) /\ row.nonce = pending[h].nonce /\ row.origin = pending[h].origin
          /\ b.challenge = S256(CodeVerifier(s)) /\ b.nonce = pending[h].nonce /\ b.origin = pending[h].origin
      BY <2>1, <2>2, <2>3 DEF ConsentRow
    <2>5. /\ consent' = [consent EXCEPT ![s] = row] /\ begun' = begun \cup {b}
          /\ s \notin drawn /\ drawn' = drawn \cup {s} /\ Respond(h) /\ UNCHANGED <<codes, logins>>
      BY <1>14, <2>2, <2>3 DEF SaveUpstreamState, BeginVerifier
    <2>6. RowsHaveBegun'
      <3>1. HasBegun(row)' /\ OwnNonce(row)'
        BY <1>3, <2>1, <2>4, <2>5 DEF HasBegun, OwnNonce
      <3>2. QED
        BY <1>1, <1>2, <1>3, <2>5, <3>1 DEF RowsHaveBegun, HasBegun, OwnNonce
    <2>7. ChallengesAreUnique'
      <3>1. \A c \in begun : c.challenge # b.challenge
        BY <1>2, <2>4, <2>5 DEF ChallengesAreUnique, S256, CodeVerifier
      <3>2. OwnNonce(b)'
        BY <1>3, <2>1, <2>4 DEF OwnNonce
      <3>3. \A c \in begun' : OwnNonce(c)' /\ \E t \in drawn' : c.challenge = S256(CodeVerifier(t))
        BY <1>2, <1>3, <2>4, <2>5, <3>2 DEF ChallengesAreUnique, OwnNonce
      <3>4. QED
        BY <1>2, <2>5, <3>1, <3>3 DEF ChallengesAreUnique
    <2>8. QED
      BY <1>2, <1>3, <1>7, <1>8, <2>5, <2>6, <2>7, RespondKeepsSignIns DEF FlowSignIns
  <1>15. ASSUME NEW b \in begun, NEW u \in Subject, SignIn(b, u)
         PROVE  FlowSignIns'
    <2>1. LoginsHaveBegun'
      BY <1>2, <1>15 DEF SignIn, LoginsHaveBegun
    <2>2. QED
      BY <1>4, <1>5, <1>6, <1>8, <1>15, <2>1 DEF SignIn, FlowSignIns
  <1>16. ASSUME NEW h \in Handler, NEW i \in Id, identityCallback(h, i)
         PROVE  FlowSignIns'
    <2>1. PICK row : row = consent[i] /\ row # NoRow
      BY <1>1, <1>16 DEF identityCallback, ConsentStatus
    <2>2. HasBegun(row) /\ OwnNonce(row) /\ Goto(h, "completing", row, Empty)
      BY <1>2, <1>16, <2>1 DEF RowsHaveBegun, identityCallback
    <2>3. PendingHasBegun' /\ PendingSignedIn'
      BY <1>2, <1>3, <2>2, GotoKeepsBegun, GotoKeepsSignedIn
    <2>4. QED
      BY <1>6, <1>7, <1>8, <1>12, <1>16, <2>3 DEF identityCallback, FlowSignIns
  <1>17. ASSUME NEW h \in Handler, NEW l \in logins, Complete(h, l)
         PROVE  FlowSignIns'
    <2>1. PICK row : row = pending[h] /\ row # NoRow
      BY <1>1, <1>17 DEF Complete, HandlerState
    <2>2. HasBegun(row) /\ OwnNonce(row)
      BY <1>2, <2>1 DEF PendingHasBegun
    <2>3. ChecksSignIn(config) => SignedIn(row.origin, l.subject)
      BY <1>17, <2>1, CompletedByOwnLogin DEF Complete, SignedIn
    <2>4. PendingHasBegun' /\ PendingSignedIn'
      BY <1>2, <1>3, <1>17, <2>1, <2>2, <2>3, GotoKeepsBegun, GotoKeepsSignedIn DEF Complete
    <2>5. QED
      BY <1>4, <1>6, <1>7, <1>8, <1>17, <2>4 DEF Complete, FlowSignIns
  <1>18. ASSUME NEW h \in Handler, SaveUpstreamSession(h)
         PROVE  FlowSignIns'
    <2>1. PICK row : row = pending[h] /\ row # NoRow
      BY <1>1, <1>18 DEF SaveUpstreamSession, HandlerState
    <2>2. HasBegun(row) /\ OwnNonce(row) /\ Goto(h, "coding", row, subject[h])
      BY <1>2, <1>18, <2>1 DEF PendingHasBegun, SaveUpstreamSession
    <2>3. config.interactive /\ ChecksSignIn(config) => SignedIn(row.origin, subject[h])
      BY <1>2, <1>18, <2>1 DEF SaveUpstreamSession, PendingSignedIn
    <2>4. PendingHasBegun' /\ PendingSignedIn'
      BY <1>2, <1>3, <2>2, <2>3, GotoKeepsBegun, GotoKeepsSignedIn
    <2>5. QED
      BY <1>4, <1>6, <1>7, <1>8, <1>18, <2>4 DEF SaveUpstreamSession, FlowSignIns
  <1>19. ASSUME NEW h \in Handler, NEW k \in Code, SaveAuthorizationCode(h, k)
         PROVE  FlowSignIns'
    <2>1. PICK row : row = [request |-> pending[h].request, subject |-> subject[h],
                            expires |-> now + CodeTTL, used |-> FALSE, origin |-> pending[h].origin]
      OBVIOUS
    <2>2. row.subject = subject[h] /\ row.origin = pending[h].origin
      BY <2>1
    <2>3. codes' = [codes EXCEPT ![k] = row] /\ Respond(h) /\ UNCHANGED <<consent, provider>>
      BY <1>19, <2>1 DEF SaveAuthorizationCode
    <2>4. config.interactive /\ ChecksSignIn(config) => SignedIn(row.origin, row.subject)
      BY <1>2, <1>19, <2>2 DEF SaveAuthorizationCode, PendingSignedIn
    <2>5. CodesSignedIn'
      BY <1>1, <1>2, <1>3, <2>3, <2>4 DEF CodesSignedIn, SignedIn, ChecksSignIn, NoncesAreRandom
    <2>6. QED
      BY <1>2, <1>3, <1>4, <1>6, <1>7, <2>3, <2>5, RespondKeepsSignIns DEF FlowSignIns
  <1>20. ASSUME NEW h \in Handler, NEW k \in Code, NEW q \in TokenRequest, NEW a \in Client,
                authorizationCodeToken(h, k, q, a)
         PROVE  FlowSignIns'
    <2>1. /\ codes[k] # NoRow /\ codes' = MarkUsed(codes, k) /\ pc[h] = "idle"
          /\ UNCHANGED <<consent, provider, pending, subject>>
          /\ pc' = pc \/ pc' = [pc EXCEPT ![h] = "issuing"]
      BY <1>20 DEF authorizationCodeToken, CodeStatus, CallIssueTokens, handlerVars
    <2>2. \A c \in Code : codes'[c] = NoRow <=> codes[c] = NoRow
      BY <1>1, <2>1, MarkUsedKeeps
    <2>3. CodesSignedIn'
      BY <1>2, <1>3, <2>2 DEF CodesSignedIn, SignedIn, ChecksSignIn, NoncesAreRandom, CodesKept
    <2>4. PendingHasBegun'
      BY <1>2, <1>3, <2>1 DEF PendingHasBegun, HasBegun, OwnNonce
    <2>5. PendingSignedIn'
      BY <1>1, <1>2, <1>3, <2>1 DEF PendingSignedIn, SignedIn, ChecksSignIn, NoncesAreRandom
    <2>6. QED
      BY <1>4, <1>6, <1>7, <2>1, <2>3, <2>4, <2>5 DEF FlowSignIns
  <1>21. ASSUME NEW h \in Handler, CompleteFails(h) \/ StoreFails(h) \/ issueTokens(h)
         PROVE  FlowSignIns'
    <2>1. Respond(h) /\ UNCHANGED <<tables, provider>>
      BY <1>21 DEF CompleteFails, StoreFails, issueTokens
    <2>2. QED
      BY <1>2, <1>3, <1>4, <1>6, <1>7, <1>8, <2>1, RespondKeepsSignIns DEF FlowSignIns
  <1>22. CASE Crash
    <2>1. PendingHasBegun' /\ PendingSignedIn'
      BY <1>22 DEF Crash, PendingHasBegun, PendingSignedIn
    <2>2. QED
      BY <1>4, <1>6, <1>7, <1>8, <1>22, <2>1 DEF Crash, FlowSignIns
  <1>23. CASE Tick \/ UNCHANGED vars
    BY <1>4, <1>5, <1>6, <1>7, <1>8, <1>23 DEF Tick, vars, FlowSignIns
  <1>24. QED
    BY <1>9, <1>11, <1>13, <1>14, <1>15, <1>16, <1>17, <1>18, <1>19, <1>20, <1>21, <1>22, <1>23 DEF Next

-----------------------------------------------------------------------------
\* Upstream sessions.

HandlersHaveSessions ==
    config.interactive /\ config.accessToken =>
        \A h \in Handler : pc[h] = "coding" => sessions[subject[h]] # Empty

FlowSessions == HandlersHaveSessions /\ CodeHasSession

LEMMA FlowSessionsInit == Init => FlowSessions
  BY DEF Init, FlowSessions, HandlersHaveSessions, CodeHasSession

\* A handler that moves on to the code has saved the session, if there is one.
LEMMA GotoKeepsSessions ==
    ASSUME FlowTypes, HandlersHaveSessions, UNCHANGED config, NEW h \in Handler, NEW row, NEW label, NEW u,
           Goto(h, label, row, u),
           \A v \in Subject : sessions[v] # Empty => sessions'[v] # Empty,
           config.interactive /\ config.accessToken /\ label = "coding" => sessions'[u] # Empty
    PROVE  HandlersHaveSessions'
  <1>1. pc \in [Handler -> Labels] /\ subject \in [Handler -> Subject \cup {Empty}] /\ HandlerState
    BY DEF FlowTypes, TypeOK, Labels
  <1>2. QED
    BY <1>1 DEF Goto, HandlersHaveSessions, HandlerState

LEMMA FlowSessionsStep == FlowTypes /\ FlowSessions /\ [Next]_vars => FlowSessions'
  <1> SUFFICES ASSUME FlowTypes, FlowSessions, [Next]_vars
               PROVE  FlowSessions'
    OBVIOUS
  <1>1. /\ codes \in [Code -> CodeRow \cup {NoRow}] /\ sessions \in [Subject -> Id \cup {Empty}]
        /\ pending \in [Handler -> ConsentRow \cup {NoRow}] /\ pc \in [Handler -> Labels]
        /\ subject \in [Handler -> Subject \cup {Empty}] /\ TypeOK /\ HandlerState
    BY DEF FlowTypes, TypeOK, Labels
  <1>2. HandlersHaveSessions /\ CodeHasSession
    BY DEF FlowSessions
  <1>3. UNCHANGED config /\ CodesKept
    BY <1>1, EveryStepGrowsProvider, EveryStepKeepsCodes DEF ProviderGrows
  <1>4. \A k \in Code : codes[k] # NoRow => codes[k].subject \in Subject
    BY <1>1 DEF CodeRow
  <1>5. UNCHANGED <<sessions, codes>> => CodeHasSession'
    BY <1>2, <1>3 DEF CodeHasSession
  <1>6. UNCHANGED <<sessions, handlerVars>> => HandlersHaveSessions'
    BY <1>2, <1>3 DEF HandlersHaveSessions, handlerVars
  <1>7. ASSUME NEW h \in Handler, Respond(h), UNCHANGED sessions
        PROVE  HandlersHaveSessions'
    BY <1>1, <1>2, <1>3, <1>7 DEF Respond, HandlersHaveSessions
  <1> USE DEF tables, provider, history
  <1>8. ASSUME NEW h \in Handler, NEW row, Approve(h, row), UNCHANGED sessions
        PROVE  HandlersHaveSessions'
    BY <1>2, <1>3, <1>6, <1>8, ApproveEffect, GotoKeepsSessions
  <1>9. ASSUME NEW r \in Requests(config), NEW i \in Id,
               authorize(r, i) \/ \E h \in Handler : authorizeApproved(h, r, i)
        PROVE  FlowSessions'
    BY <1>5, <1>6, <1>8, <1>9 DEF authorize, authorizeApproved, FlowSessions
  <1>10. ASSUME NEW h \in Handler, NEW i \in Id, NEW approve \in BOOLEAN, finishConsent(h, i, approve)
         PROVE  FlowSessions'
    BY <1>5, <1>6, <1>8, <1>10 DEF finishConsent, FlowSessions
  <1>11. ASSUME NEW h \in Handler, NEW i \in Id, identityCallback(h, i)
         PROVE  FlowSessions'
    <2>1. Goto(h, "completing", consent[i], Empty) /\ UNCHANGED <<sessions, codes>>
      BY <1>11 DEF identityCallback
    <2>2. HandlersHaveSessions'
      BY <1>2, <1>3, <2>1, GotoKeepsSessions
    <2>3. QED
      BY <1>5, <2>1, <2>2 DEF FlowSessions
  <1>12. ASSUME NEW h \in Handler, NEW l \in logins, Complete(h, l)
         PROVE  FlowSessions'
    <2>1. PICK label : /\ label = IF config.accessToken THEN "session" ELSE "coding"
                       /\ Goto(h, label, pending[h], l.subject) /\ UNCHANGED <<sessions, codes>>
      BY <1>12 DEF Complete
    <2>2. HandlersHaveSessions'
      BY <1>2, <1>3, <2>1, GotoKeepsSessions
    <2>3. QED
      BY <1>5, <2>1, <2>2 DEF FlowSessions
  <1>13. ASSUME NEW h \in Handler, SaveUpstreamSession(h)
         PROVE  FlowSessions'
    <2>1. subject[h] \in Subject /\ pending[h] \in ConsentRow
      BY <1>1, <1>13 DEF SaveUpstreamSession, HandlerState
    <2>2. pending[h].origin \in Id /\ pending[h].origin # Empty
      BY <2>1, ConstantsAssumption DEF ConsentRow
    <2>3. /\ sessions' = [sessions EXCEPT ![subject[h]] = pending[h].origin]
          /\ Goto(h, "coding", pending[h], subject[h]) /\ UNCHANGED codes
      BY <1>13 DEF SaveUpstreamSession
    <2>4. /\ sessions'[subject[h]] # Empty
          /\ \A u \in Subject : sessions[u] # Empty => sessions'[u] # Empty
      BY <1>1, <2>1, <2>2, <2>3
    <2>5. HandlersHaveSessions'
      BY <1>2, <1>3, <2>3, <2>4, GotoKeepsSessions
    <2>6. CodeHasSession'
      BY <1>2, <1>3, <1>4, <2>3, <2>4 DEF CodeHasSession
    <2>7. QED
      BY <2>5, <2>6 DEF FlowSessions
  <1>14. ASSUME NEW h \in Handler, NEW k \in Code, SaveAuthorizationCode(h, k)
         PROVE  FlowSessions'
    <2>1. PICK row : row = [request |-> pending[h].request, subject |-> subject[h],
                            expires |-> now + CodeTTL, used |-> FALSE, origin |-> pending[h].origin]
      OBVIOUS
    <2>2. row.subject = subject[h]
      BY <2>1
    <2>3. codes' = [codes EXCEPT ![k] = row] /\ Respond(h) /\ UNCHANGED sessions /\ pc[h] = "coding"
      BY <1>14, <2>1 DEF SaveAuthorizationCode
    <2>4. CodeHasSession'
      BY <1>1, <1>2, <1>3, <2>2, <2>3 DEF CodeHasSession, HandlersHaveSessions
    <2>5. QED
      BY <1>7, <2>3, <2>4 DEF FlowSessions
  <1>15. ASSUME NEW h \in Handler, NEW k \in Code, NEW q \in TokenRequest, NEW a \in Client,
                authorizationCodeToken(h, k, q, a)
         PROVE  FlowSessions'
    <2>1. /\ codes[k] # NoRow /\ codes' = MarkUsed(codes, k) /\ UNCHANGED <<sessions, subject>>
          /\ pc' = pc \/ pc' = [pc EXCEPT ![h] = "issuing"]
      BY <1>15 DEF authorizationCodeToken, CodeStatus, CallIssueTokens, handlerVars
    <2>2. \A c \in Code : codes'[c] = NoRow <=> codes[c] = NoRow
      BY <1>1, <2>1, MarkUsedKeeps
    <2>3. CodeHasSession'
      BY <1>2, <1>3, <2>1, <2>2 DEF CodeHasSession, CodesKept
    <2>4. HandlersHaveSessions'
      BY <1>1, <1>2, <1>3, <2>1 DEF HandlersHaveSessions
    <2>5. QED
      BY <2>3, <2>4 DEF FlowSessions
  <1>16. ASSUME NEW h \in Handler,
                \/ \E s \in Id : SaveUpstreamState(h, s)
                \/ CompleteFails(h) \/ StoreFails(h) \/ issueTokens(h)
         PROVE  FlowSessions'
    <2>1. Respond(h) /\ UNCHANGED <<sessions, codes>>
      BY <1>16 DEF SaveUpstreamState, CompleteFails, StoreFails, issueTokens
    <2>2. QED
      BY <1>5, <1>7, <2>1 DEF FlowSessions
  <1>17. CASE Crash
    <2>1. HandlersHaveSessions'
      BY <1>17 DEF Crash, HandlersHaveSessions
    <2>2. QED
      BY <1>5, <1>17, <2>1 DEF Crash, FlowSessions
  <1>18. CASE (\E b \in begun, u \in Subject : SignIn(b, u)) \/ Tick \/ UNCHANGED vars
    BY <1>5, <1>6, <1>18 DEF SignIn, Tick, vars, FlowSessions
  <1>19. QED
    BY <1>9, <1>10, <1>11, <1>12, <1>13, <1>14, <1>15, <1>16, <1>17, <1>18 DEF Next

-----------------------------------------------------------------------------
\* What becomes of a code.

\* A grant was issued for a code that is used up, and says what the code says.
GrantsAreForCodes ==
    \A g \in issued :
        /\ g.code \in Code
        /\ codes[g.code] # NoRow /\ codes[g.code].used
        /\ g.client = codes[g.code].request.client
        /\ g.scope = codes[g.code].request.scope
        /\ g.resource = codes[g.code].request.resource
        /\ S256(g.verifier) = codes[g.code].request.challenge
        /\ g.subject = codes[g.code].subject

FlowGrants == GrantsAreForCodes /\ OneGrantPerCode

LEMMA FlowGrantsInit == Init => FlowGrants
  BY DEF Init, FlowGrants, GrantsAreForCodes, OneGrantPerCode

LEMMA FlowGrantsStep == FlowTypes /\ FlowGrants /\ [Next]_vars => FlowGrants'
  <1> SUFFICES ASSUME FlowTypes, FlowGrants, [Next]_vars
               PROVE  FlowGrants'
    OBVIOUS
  <1>1. /\ codes \in [Code -> CodeRow \cup {NoRow}] /\ pc \in [Handler -> Labels]
        /\ code \in [Handler -> HandlerCode] /\ TypeOK /\ HandlerState
    BY DEF FlowTypes, TypeOK, Labels
  <1>2. GrantsAreForCodes /\ OneGrantPerCode
    BY DEF FlowGrants
  <1>3. CodesKept
    BY <1>1, EveryStepKeepsCodes
  <1>4. UNCHANGED issued => GrantsAreForCodes'
    BY <1>2, <1>3 DEF GrantsAreForCodes, CodesKept
  \* No handler starts issuing tokens.
  <1>5. ASSUME UNCHANGED issued,
               \A h \in Handler : pc'[h] = "issuing" => pc[h] = "issuing" /\ code'[h] = code[h]
        PROVE  OneGrantPerCode'
    BY <1>2, <1>5 DEF OneGrantPerCode
  <1> USE DEF tables, provider, history
  <1>6. ASSUME NEW h \in Handler, Respond(h)
        PROVE  \A i \in Handler : pc'[i] = "issuing" => pc[i] = "issuing" /\ code'[i] = code[i] /\ i # h
    BY <1>1, <1>6 DEF Respond
  <1>7. ASSUME NEW h \in Handler, NEW label \in Labels \ {"issuing"}, NEW row, NEW u, Goto(h, label, row, u)
        PROVE  \A i \in Handler : pc'[i] = "issuing" => pc[i] = "issuing" /\ code'[i] = code[i]
    BY <1>1, <1>7 DEF Goto
  <1>8. ASSUME NEW h \in Handler, NEW row, Approve(h, row)
        PROVE  \A i \in Handler : pc'[i] = "issuing" => pc[i] = "issuing" /\ code'[i] = code[i]
    <2>1. CASE UNCHANGED handlerVars
      BY <2>1 DEF handlerVars
    <2>2. QED
      BY <1>7, <1>8, <2>1, ApproveEffect DEF Labels
  <1>9. ASSUME NEW r \in Requests(config), NEW i \in Id,
               authorize(r, i) \/ \E h \in Handler : authorizeApproved(h, r, i)
        PROVE  FlowGrants'
    BY <1>4, <1>5, <1>8, <1>9 DEF authorize, authorizeApproved, handlerVars, FlowGrants
  <1>10. ASSUME NEW h \in Handler, NEW i \in Id, NEW approve \in BOOLEAN, finishConsent(h, i, approve)
         PROVE  FlowGrants'
    BY <1>4, <1>5, <1>8, <1>10 DEF finishConsent, handlerVars, FlowGrants
  <1>11. ASSUME NEW h \in Handler,
                \/ \E i \in Id : identityCallback(h, i)
                \/ \E l \in logins : Complete(h, l)
                \/ SaveUpstreamSession(h)
         PROVE  FlowGrants'
    <2>1. UNCHANGED issued /\ \E label \in Labels \ {"issuing"} : \E row, u : Goto(h, label, row, u)
      BY <1>11 DEF identityCallback, Complete, SaveUpstreamSession, Labels
    <2>2. QED
      BY <1>4, <1>5, <1>7, <2>1 DEF FlowGrants
  <1>12. ASSUME NEW h \in Handler,
                \/ \E s \in Id : SaveUpstreamState(h, s)
                \/ CompleteFails(h) \/ StoreFails(h)
                \/ \E k \in Code : SaveAuthorizationCode(h, k)
         PROVE  FlowGrants'
    <2>1. Respond(h) /\ UNCHANGED issued
      BY <1>12 DEF SaveUpstreamState, CompleteFails, StoreFails, SaveAuthorizationCode
    <2>2. QED
      BY <1>4, <1>5, <1>6, <2>1 DEF FlowGrants
  <1>13. ASSUME NEW h \in Handler, NEW k \in Code, NEW q \in TokenRequest, NEW a \in Client,
                authorizationCodeToken(h, k, q, a)
         PROVE  FlowGrants'
    <2>1. codes[k] # NoRow /\ ~codes[k].used /\ UNCHANGED issued
      BY <1>13 DEF authorizationCodeToken, CodeStatus
    <2>2. CASE UNCHANGED handlerVars
      BY <1>4, <1>5, <2>1, <2>2 DEF handlerVars, FlowGrants
    <2>3. CASE CallIssueTokens(h, k, q)
      <3>1. /\ \A g \in issued : g.code # k
            /\ \A i \in Handler : pc[i] = "issuing" => code[i].value # k
        BY <1>1, <1>2, <2>1 DEF GrantsAreForCodes, HandlerState
      <3>2. /\ pc'[h] = "issuing" /\ code'[h].value = k
            /\ \A i \in Handler \ {h} : pc'[i] = pc[i] /\ code'[i] = code[i]
        BY <1>1, <2>3 DEF CallIssueTokens
      <3>3. OneGrantPerCode'
        BY <1>2, <2>1, <3>1, <3>2 DEF OneGrantPerCode
      <3>4. QED
        BY <1>4, <2>1, <3>3 DEF FlowGrants
    <2>4. QED
      BY <1>13, <2>2, <2>3 DEF authorizationCodeToken
  <1>14. ASSUME NEW h \in Handler, issueTokens(h)
         PROVE  FlowGrants'
    <2>1. PICK k \in Code, v \in Verifier : /\ k = code[h].value /\ v = code[h].verifier
                                            /\ codes[k] # NoRow /\ codes[k].used
                                            /\ S256(v) = codes[k].request.challenge
      BY <1>1, <1>14 DEF issueTokens, HandlerState
    <2>2. PICK g : g = [code |-> k, verifier |-> v,
                        client |-> codes[k].request.client, subject |-> codes[k].subject,
                        scope |-> codes[k].request.scope, resource |-> codes[k].request.resource]
      OBVIOUS
    <2>3. /\ g.code = k /\ g.verifier = v /\ g.client = codes[k].request.client
          /\ g.subject = codes[k].subject /\ g.scope = codes[k].request.scope
          /\ g.resource = codes[k].request.resource
      BY <2>2
    <2>4. issued' = issued \cup {g} /\ Respond(h) /\ UNCHANGED codes /\ pc[h] = "issuing"
      BY <1>14, <2>1, <2>2 DEF issueTokens
    <2>5. GrantsAreForCodes'
      BY <1>2, <2>1, <2>3, <2>4 DEF GrantsAreForCodes
    <2>6. \A i \in Handler : pc'[i] = "issuing" =>
            /\ pc[i] = "issuing" /\ code'[i] = code[i] /\ code[i].value # k
      BY <1>2, <1>6, <2>1, <2>4 DEF OneGrantPerCode
    <2>7. OneGrantPerCode'
      BY <1>2, <2>3, <2>4, <2>6 DEF OneGrantPerCode
    <2>8. QED
      BY <2>5, <2>7 DEF FlowGrants
  <1>15. CASE Crash
    BY <1>4, <1>5, <1>15 DEF Crash, FlowGrants
  <1>16. CASE (\E b \in begun, u \in Subject : SignIn(b, u)) \/ Tick \/ UNCHANGED vars
    BY <1>4, <1>5, <1>16 DEF SignIn, Tick, vars, handlerVars, FlowGrants
  <1>17. QED
    BY <1>9, <1>10, <1>11, <1>12, <1>13, <1>14, <1>15, <1>16 DEF Next

-----------------------------------------------------------------------------
\* The theorems.

FlowInv == FlowTypes /\ FlowOrigins /\ FlowCopies /\ FlowSignIns /\ FlowSessions /\ FlowGrants

LEMMA FlowInvHolds == Spec => []FlowInv
  <1>1. Init => FlowInv
    BY FlowTypesInit, FlowOriginsInit, FlowCopiesInit, FlowSignInsInit, FlowSessionsInit, FlowGrantsInit
    DEF FlowInv
  <1>2. FlowInv /\ [Next]_vars => FlowInv'
    BY FlowTypesStep, FlowOriginsStep, FlowCopiesStep, FlowSignInsStep, FlowSessionsStep, FlowGrantsStep
    DEF FlowInv
  <1>3. QED
    BY <1>1, <1>2, PTL DEF Spec

\* Everything the flow keeps has its type.
THEOREM FlowTypeCorrect == Spec => []TypeOK
  <1>1. FlowInv => TypeOK
    BY DEF FlowInv, FlowTypes
  <1>2. QED
    BY <1>1, FlowInvHolds, PTL

\* However consent posts and callbacks are repeated, raced or interrupted, a
\* request is in one place, and in none once it was denied.
THEOREM RequestsNeverFork == Spec => [](RequestNeverForks /\ DenialIsFinal)
  <1>1. FlowInv => RequestNeverForks /\ DenialIsFinal
    BY DEF FlowInv, FlowCopies
  <1>2. QED
    BY <1>1, FlowInvHolds, PTL

\* Every code was approved on the consent page and carries the request shown.
THEOREM CodesNeedApproval == Spec => []CodeOnlyAfterApproval
  <1>1. FlowInv => CodeOnlyAfterApproval
    BY DEF FlowInv, FlowOrigins, CodesAreApproved, IsAsked, CodeOnlyAfterApproval
  <1>2. QED
    BY <1>1, FlowInvHolds, PTL

\* If every interactive provider enforces PKCE, or returns an ID token with a
\* nonce that the server has drawn, a code is for somebody who signed in for
\* that very request.
THEOREM UsersAreNotMixedUp ==
    ASSUME \A d \in Deployments : d.interactive => ChecksSignIn(d)
    PROVE  Spec => []SubjectSignedInForRequest
  <1>1. FlowInv => SubjectSignedInForRequest
    <2>1. FlowInv => config \in Deployments /\ CodesSignedIn
      BY DEF FlowInv, FlowTypes, TypeOK, FlowSignIns
    <2>2. QED
      BY <2>1 DEF CodesSignedIn, SignedIn, SubjectSignedInForRequest
  <1>2. QED
    BY <1>1, FlowInvHolds, PTL

\* Whoever has a code has an upstream session, if the provider gives one.
THEOREM CodesHaveSessions == Spec => []CodeHasSession
  <1>1. FlowInv => CodeHasSession
    BY DEF FlowInv, FlowSessions
  <1>2. QED
    BY <1>1, FlowInvHolds, PTL

\* A code is exchanged at most once, by whichever handlers present it.
THEOREM CodesAreRedeemedOnce == Spec => []OneGrantPerCode
  <1>1. FlowInv => OneGrantPerCode
    BY DEF FlowInv, FlowGrants
  <1>2. QED
    BY <1>1, FlowInvHolds, PTL

\* What is issued for a code is what was approved for it.
THEOREM GrantsMatchApproval == Spec => []TokensMatchApproval
  <1>1. ASSUME FlowInv, NEW g \in issued
        PROVE  \E i \in approved :
                 /\ codes[g.code].origin = i
                 /\ g.client = asked[i].client
                 /\ g.scope = asked[i].scope /\ g.scope \subseteq AllowedScopes
                 /\ g.resource = asked[i].resource /\ g.resource \in config.resources
                 /\ S256(g.verifier) = asked[i].challenge
                 /\ g.subject = codes[g.code].subject
    <2>1. /\ g.code \in Code /\ codes[g.code] # NoRow
          /\ g.client = codes[g.code].request.client /\ g.scope = codes[g.code].request.scope
          /\ g.resource = codes[g.code].request.resource
          /\ S256(g.verifier) = codes[g.code].request.challenge
          /\ g.subject = codes[g.code].subject
      BY <1>1 DEF FlowInv, FlowGrants, GrantsAreForCodes
    <2>2. IsAsked(codes[g.code]) /\ codes[g.code].origin \in approved
      BY <1>1, <2>1 DEF FlowInv, FlowOrigins, CodesAreApproved
    <2>3. QED
      BY <2>1, <2>2 DEF IsAsked
  <1>2. FlowInv => TokensMatchApproval
    BY <1>1 DEF TokensMatchApproval
  <1>3. QED
    BY <1>2, FlowInvHolds, PTL
=============================================================================
