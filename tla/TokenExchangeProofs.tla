------------------------ MODULE TokenExchangeProofs ------------------------
(***************************************************************************)
(* Proofs about TokenExchange: exchanges and logins that overlap leave     *)
(* every user with a refresh token the provider accepts.                   *)
(*                                                                         *)
(* SessionStaysUsable is not inductive.  Its proof needs that a token has  *)
(* one owner, so that a handler which spends it spends that of the user it *)
(* serves, and that nobody else can spend the replacement a handler is     *)
(* about to save: nobody else has seen it, or the provider is one that now *)
(* keeps its tokens and now replaces them, and the user is noted as        *)
(* overtaken.                                                              *)
(***************************************************************************)
EXTENDS TokenExchange, TLAPS

\* A handler that refreshes or saves has a subject and a session with a token.
HandlerState ==
    \A h \in Handler :
        /\ pc[h] = "idle" => subject[h] = NoRow /\ session[h] = NoRow
        /\ pc[h] # "idle" => /\ subject[h] \in Subject
                             /\ session[h] \in Session
                             /\ session[h].refresh \in Token

\* The token stored for u, and the one a handler serves u with.
Stores(u, t) == sessions[u] # NoRow /\ sessions[u].refresh = t
Holds(h, u, t) == pc[h] # "idle" /\ subject[h] = u /\ session[h].refresh = t

Has(u, t) == Stores(u, t) \/ \E h \in Handler : Holds(h, u, t)

\* Every token in use came from the provider, and belongs to one user.
TokensAreIssued == \A u \in Subject, t \in Token : Has(u, t) => t \in issued
TokensHaveOneOwner ==
    \A u, v \in Subject, t \in Token : Has(u, t) /\ Has(v, t) => u = v

\* Only a provider that keeps a token and then replaces it lets one handler
\* overtake another.
OnlyMixedOvertakes == provider # "mixed" => overtaken = {}

\* The replacement a handler is about to save is accepted, and one of a provider
\* that always rotates is known to no other handler and not stored.
SavedIsValid ==
    \A h \in Handler : pc[h] = "saving" /\ subject[h] \notin overtaken =>
        session[h].refresh \in valid
SavedIsUnseen ==
    provider = "rotating" =>
        \A h \in Handler : pc[h] = "saving" =>
            /\ \A g \in Handler : g # h /\ pc[g] # "idle" => session[g].refresh # session[h].refresh
            /\ \A u \in Subject : ~Stores(u, session[h].refresh)

ExchangeInv ==
    /\ TypeOK
    /\ HandlerState
    /\ TokensAreIssued /\ TokensHaveOneOwner
    /\ OnlyMixedOvertakes
    /\ SavedIsValid /\ SavedIsUnseen
    /\ SessionStaysUsable

-----------------------------------------------------------------------------
\* What the code hands a handler is a session with a refresh token.
LEMMA RefreshedHasToken ==
    ASSUME TypeOK, HandlerState, NEW h \in Handler, NEW n \in Token \cup {NoToken},
           pc[h] = "refreshing"
    PROVE  /\ RefreshedSession(session[h], n) \in Session
           /\ RefreshedSession(session[h], n).refresh \in Token
           /\ n = NoToken => RefreshedSession(session[h], n).refresh = session[h].refresh
           /\ n # NoToken => RefreshedSession(session[h], n).refresh = n
<1>1. session[h].refresh \in Token
  BY DEF HandlerState
<1>2. now + TTL \in Nat
  BY ConstantsAssumption DEF TypeOK
<1> QED
  BY <1>1, <1>2, ConstantsAssumption DEF RefreshedSession, Session

\* TypeOK and HandlerState are inductive.
LEMMA ExchangeTypesInit == Init => TypeOK /\ HandlerState
BY ConstantsAssumption DEF Init, TypeOK, HandlerState

LEMMA GotoTypes ==
    ASSUME TypeOK, HandlerState, NEW h \in Handler,
           NEW label \in {"refreshing", "saving"},
           NEW u \in Subject, NEW s \in Session, s.refresh \in Token,
           Goto(h, label, u, s)
    PROVE  /\ pc' \in [Handler -> {"idle", "refreshing", "saving"}]
           /\ subject' \in [Handler -> Subject \cup {NoRow}]
           /\ session' \in [Handler -> Session \cup {NoRow}]
           /\ HandlerState'
BY DEF TypeOK, HandlerState, Goto

LEMMA RespondTypes ==
    ASSUME TypeOK, HandlerState, NEW h \in Handler, Respond(h)
    PROVE  /\ pc' \in [Handler -> {"idle", "refreshing", "saving"}]
           /\ subject' \in [Handler -> Subject \cup {NoRow}]
           /\ session' \in [Handler -> Session \cup {NoRow}]
           /\ HandlerState'
BY DEF TypeOK, HandlerState, Goto, Respond

LEMMA ProviderTypes ==
    ASSUME TypeOK, NEW s \in Session, NEW n \in Token \cup {NoToken},
           ProviderAccepts(s, n)
    PROVE  /\ provider' \in Providers
           /\ issued' \in SUBSET Token /\ valid' \in SUBSET issued'
BY ConstantsAssumption DEF TypeOK, ProviderAccepts

LEMMA ExchangeTypesNext == TypeOK /\ HandlerState /\ [Next]_vars => (TypeOK /\ HandlerState)'
<1> SUFFICES ASSUME TypeOK, HandlerState, [Next]_vars
             PROVE  TypeOK' /\ HandlerState'
  OBVIOUS
<1>1. ASSUME NEW u \in Subject, NEW n \in Token \cup {NoToken}, SaveLogin(u, n)
      PROVE  TypeOK' /\ HandlerState'
  <2>1. [refresh |-> n, expires |-> now + TTL] \in Session
    BY ConstantsAssumption DEF TypeOK, Session
  <2>2. HandlerState'
    BY <1>1 DEF SaveLogin, handlerVars, HandlerState
  <2> QED
    BY <1>1, <2>1, <2>2 DEF SaveLogin, handlerVars, TypeOK
<1>2. ASSUME NEW h \in Handler, NEW aud \in Resources, NEW u \in Subject, Exchange(h, aud, u)
      PROVE  TypeOK' /\ HandlerState'
  <2>1. sessions[u] \in Session /\ sessions[u].refresh \in Token
    BY <1>2 DEF Exchange, TypeOK, Session
  <2> QED
    BY <1>2, <2>1, GotoTypes DEF Exchange, external, TypeOK
<1>3. ASSUME NEW h \in Handler, NEW n \in Token \cup {NoToken}, refresh(h, n)
      PROVE  TypeOK' /\ HandlerState'
  <2>1. session[h] \in Session /\ subject[h] \in Subject
    BY <1>3 DEF refresh, HandlerState
  <2>2. /\ RefreshedSession(session[h], n) \in Session
        /\ RefreshedSession(session[h], n).refresh \in Token
    BY <1>3, RefreshedHasToken DEF refresh
  <2>3. /\ provider' \in Providers
        /\ issued' \in SUBSET Token /\ valid' \in SUBSET issued'
    BY <1>3, <2>1, ProviderTypes DEF refresh
  <2>4. /\ pc' \in [Handler -> {"idle", "refreshing", "saving"}]
        /\ subject' \in [Handler -> Subject \cup {NoRow}]
        /\ session' \in [Handler -> Session \cup {NoRow}]
        /\ HandlerState'
    BY <1>3, <2>1, <2>2, GotoTypes DEF refresh
  <2> QED
    BY <1>3, <2>1, <2>3, <2>4 DEF refresh, NoteOvertaken, TypeOK
<1>4. ASSUME NEW h \in Handler, NEW n \in Token \cup {NoToken}, AnswerLost(h, n)
      PROVE  TypeOK' /\ HandlerState'
  <2>1. session[h] \in Session /\ subject[h] \in Subject
    BY <1>4 DEF AnswerLost, HandlerState
  <2>2. /\ provider' \in Providers
        /\ issued' \in SUBSET Token /\ valid' \in SUBSET issued'
    BY <1>4, <2>1, ProviderTypes DEF AnswerLost
  <2> QED
    BY <1>4, <2>1, <2>2, RespondTypes DEF AnswerLost, NoteOvertaken, TypeOK
<1>5. ASSUME NEW h \in Handler, RefreshFails(h)
      PROVE  TypeOK' /\ HandlerState'
  BY <1>5, RespondTypes DEF RefreshFails, external, TypeOK
<1>6. ASSUME NEW h \in Handler, SaveUpstreamSession(h)
      PROVE  TypeOK' /\ HandlerState'
  <2>1. session[h] \in Session /\ subject[h] \in Subject
    BY <1>6 DEF SaveUpstreamSession, HandlerState
  <2> QED
    BY <1>6, <2>1, RespondTypes DEF SaveUpstreamSession, external, TypeOK
<1>7. ASSUME NEW h \in Handler, SaveFails(h)
      PROVE  TypeOK' /\ HandlerState'
  <2>1. subject[h] \in Subject
    BY <1>7 DEF SaveFails, HandlerState
  <2> QED
    BY <1>7, <2>1, RespondTypes DEF SaveFails, external, TypeOK
<1>8. CASE Crash
  <2>1. lost' \in SUBSET Subject
    BY <1>8 DEF Crash, HandlerState, TypeOK
  <2> QED
    BY <1>8, <2>1 DEF Crash, external, HandlerState, TypeOK
<1>9. CASE Tick
  BY <1>9, ConstantsAssumption DEF Tick, handlerVars, external, HandlerState, TypeOK
<1>10. CASE UNCHANGED vars
  BY <1>10 DEF vars, handlerVars, external, HandlerState, TypeOK
<1> QED
  BY <1>1, <1>2, <1>3, <1>4, <1>5, <1>6, <1>7, <1>8, <1>9, <1>10 DEF Next

\* Sessions, handlers and the provider's tokens keep their types whatever faults
\* and exchanges overlap: a handler past its first step always has a session
\* with a refresh token.
THEOREM ExchangeTypeCorrect == Spec => [](TypeOK /\ HandlerState)
BY ExchangeTypesInit, ExchangeTypesNext, PTL DEF Spec

-----------------------------------------------------------------------------
\* Where tokens can turn up: a step puts at most one token where it was not, with
\* one user, and that token is one the provider has only now issued.
LEMMA StepTokens ==
    ASSUME TypeOK, HandlerState, Next
    PROVE  \E w, n : \A v \in Subject, t \in Token :
               Has(v, t)' => \/ Has(v, t)
                             \/ v = w /\ t = n /\ t \notin issued /\ t \in issued'
<1> DEFINE Goal(w, n) == \A v \in Subject, t \in Token :
               Has(v, t)' => \/ Has(v, t)
                             \/ v = w /\ t = n /\ t \notin issued /\ t \in issued'
<1>1. ASSUME NEW u \in Subject, NEW n \in Token \cup {NoToken}, SaveLogin(u, n)
      PROVE  Goal(u, n)
  BY <1>1, ConstantsAssumption DEF SaveLogin, handlerVars, Has, Stores, Holds, TypeOK, HandlerState
<1>2. ASSUME NEW h \in Handler, NEW aud \in Resources, NEW u \in Subject, Exchange(h, aud, u)
      PROVE  Goal(NoRow, NoToken)
  BY <1>2 DEF Exchange, Goto, external, Has, Stores, Holds, TypeOK, HandlerState
<1>3. ASSUME NEW h \in Handler, NEW n \in Token \cup {NoToken}, refresh(h, n)
      PROVE  Goal(subject[h], n)
  <2>1. /\ n = NoToken => RefreshedSession(session[h], n).refresh = session[h].refresh
        /\ n # NoToken => RefreshedSession(session[h], n).refresh = n
    BY <1>3, RefreshedHasToken DEF refresh
  <2>2. n # NoToken => n \notin issued /\ n \in issued'
    BY <1>3 DEF refresh, ProviderAccepts
  <2>3. pc[h] # "idle" /\ sessions' = sessions
    BY <1>3 DEF refresh
  <2> DEFINE s == RefreshedSession(session[h], n)
  <2>4. \A g \in Handler : /\ pc'[g] = IF g = h THEN "saving" ELSE pc[g]
                           /\ subject'[g] = subject[g]
                           /\ session'[g] = IF g = h THEN s ELSE session[g]
    BY <1>3 DEF refresh, Goto, TypeOK
  <2> HIDE DEF s
  <2>5. s.refresh = session[h].refresh \/ (s.refresh = n /\ n # NoToken)
    BY <2>1 DEF s
  <2> SUFFICES ASSUME NEW v \in Subject, NEW t \in Token, Has(v, t)', ~Has(v, t)
               PROVE  v = subject[h] /\ t = n /\ t \notin issued /\ t \in issued'
    OBVIOUS
  <2>6. ~Stores(v, t)'
    BY <2>3 DEF Has, Stores
  <2>7. PICK g \in Handler : Holds(g, v, t)'
    BY <2>6 DEF Has
  <2>8. g = h
    BY <2>4, <2>7 DEF Has, Holds
  <2>9. v = subject[h] /\ t = s.refresh
    BY <2>4, <2>7, <2>8 DEF Holds
  <2>10. t # session[h].refresh
    BY <2>3, <2>9 DEF Has, Holds
  <2> QED
    BY <2>2, <2>5, <2>9, <2>10
<1>4. ASSUME NEW h \in Handler, Respond(h), UNCHANGED sessions
      PROVE  Goal(NoRow, NoToken)
  BY <1>4 DEF Respond, Goto, Has, Stores, Holds, TypeOK
<1>5. ASSUME NEW h \in Handler, SaveUpstreamSession(h)
      PROVE  Goal(NoRow, NoToken)
  <2>1. pc[h] # "idle" /\ subject[h] \in Subject
    BY <1>5 DEF SaveUpstreamSession, HandlerState
  <2>2. \A v \in Subject : sessions'[v] = IF v = subject[h] THEN session[h] ELSE sessions[v]
    BY <1>5, <2>1 DEF SaveUpstreamSession, TypeOK
  <2>3. \A g \in Handler : g # h => /\ pc'[g] = pc[g] /\ subject'[g] = subject[g]
                                    /\ session'[g] = session[g]
    BY <1>5 DEF SaveUpstreamSession, Respond, Goto, TypeOK
  <2>4. pc'[h] = "idle"
    BY <1>5 DEF SaveUpstreamSession, Respond, Goto, TypeOK
  <2> QED
    BY <2>1, <2>2, <2>3, <2>4 DEF Has, Stores, Holds
<1>6. ASSUME Crash PROVE Goal(NoRow, NoToken)
  BY <1>6 DEF Crash, Has, Stores, Holds
<1>7. ASSUME Tick PROVE Goal(NoRow, NoToken)
  BY <1>7 DEF Tick, handlerVars, Has, Stores, Holds
<1>8. ASSUME NEW h \in Handler, NEW n \in Token \cup {NoToken}, AnswerLost(h, n)
      PROVE  Goal(NoRow, NoToken)
  BY <1>8, <1>4 DEF AnswerLost
<1>9. ASSUME NEW h \in Handler, RefreshFails(h) \/ SaveFails(h)
      PROVE  Goal(NoRow, NoToken)
  BY <1>9, <1>4 DEF RefreshFails, SaveFails
<1> HIDE DEF Goal
<1>10. \E w, n : Goal(w, n)
  BY <1>1, <1>2, <1>3, <1>5, <1>6, <1>7, <1>8, <1>9 DEF Next
<1> QED
  BY <1>10 DEF Goal

LEMMA IssuedGrow ==
    ASSUME TypeOK, HandlerState, Next
    PROVE  issued \subseteq issued'
BY DEF Next, SaveLogin, Exchange, refresh, AnswerLost, RefreshFails, SaveUpstreamSession,
       SaveFails, Crash, Tick, external, ProviderAccepts

\* A token in use has come from the provider and has one owner.
LEMMA OwnersNext ==
    ASSUME TypeOK, HandlerState, TokensAreIssued, TokensHaveOneOwner, Next
    PROVE  (TokensAreIssued /\ TokensHaveOneOwner)'
<1>1. PICK w, n : \A v \in Subject, t \in Token :
                      Has(v, t)' => \/ Has(v, t)
                                    \/ v = w /\ t = n /\ t \notin issued /\ t \in issued'
  BY StepTokens
<1>2. TokensAreIssued'
  BY <1>1, IssuedGrow DEF TokensAreIssued
<1>3. TokensHaveOneOwner'
  BY <1>1 DEF TokensAreIssued, TokensHaveOneOwner
<1> QED
  BY <1>2, <1>3

\* The replacements that handlers are about to save.
ReplacementsInv == OnlyMixedOvertakes /\ SavedIsValid /\ SavedIsUnseen

\* The provider accepts the token of h: the replacements of the others stay good,
\* or their user is noted as overtaken.
LEMMA OthersStayValid ==
    ASSUME TypeOK, HandlerState, TokensHaveOneOwner, ReplacementsInv,
           NEW h \in Handler, NEW n \in Token \cup {NoToken},
           pc[h] = "refreshing", ProviderAccepts(session[h], n), NoteOvertaken(h, n),
           NEW g \in Handler, pc[g] = "saving"
    PROVE  subject[g] \in overtaken' \/ session[g].refresh \in valid'
<1>1. CASE subject[g] \in overtaken
  BY <1>1 DEF NoteOvertaken
<1>2. CASE subject[g] \notin overtaken
  <2>1. session[g].refresh \in valid
    BY <1>2 DEF ReplacementsInv, SavedIsValid
  <2>2. CASE n = NoToken \/ session[g].refresh # session[h].refresh
    BY <2>1, <2>2 DEF ProviderAccepts
  <2>3. CASE n # NoToken /\ session[g].refresh = session[h].refresh
    <3>1. Overtakes(h, n)
      BY <2>3 DEF Overtakes
    <3>2. /\ Has(subject[g], session[h].refresh) /\ Has(subject[h], session[h].refresh)
          /\ subject[g] \in Subject /\ subject[h] \in Subject /\ session[h].refresh \in Token
      BY <2>3 DEF Has, Holds, HandlerState
    <3>3. subject[g] = subject[h]
      BY <3>2 DEF TokensHaveOneOwner
    <3> QED
      BY <3>1, <3>3 DEF NoteOvertaken
  <2> QED
    BY <2>2, <2>3
<1> QED
  BY <1>1, <1>2

\* A provider that always rotates answers h with a token that no other handler
\* has seen, and one that keeps its tokens replaces none.
LEMMA MixedNext ==
    ASSUME TypeOK, HandlerState, OnlyMixedOvertakes, SavedIsUnseen, Next
    PROVE  OnlyMixedOvertakes'
<1>1. ASSUME NEW h \in Handler, NEW n \in Token \cup {NoToken}, pc[h] = "refreshing",
             ProviderAccepts(session[h], n), NoteOvertaken(h, n)
      PROVE  OnlyMixedOvertakes'
  <2>1. CASE provider = "rotating"
    BY <1>1, <2>1 DEF SavedIsUnseen, Overtakes, NoteOvertaken, ProviderAccepts, OnlyMixedOvertakes
  <2>2. CASE provider = "keeping"
    BY <1>1, <2>2 DEF Overtakes, NoteOvertaken, ProviderAccepts, OnlyMixedOvertakes
  <2>3. CASE provider = "mixed"
    BY <1>1, <2>3 DEF ProviderAccepts, OnlyMixedOvertakes
  <2> QED
    BY <2>1, <2>2, <2>3, ConstantsAssumption DEF TypeOK
<1> QED
  BY <1>1
  DEF OnlyMixedOvertakes, Next, SaveLogin, Exchange, refresh, AnswerLost, RefreshFails,
      SaveUpstreamSession, SaveFails, Crash, Tick, external

\* A step after which h, or any handler for Crash, has nothing to save.
LEMMA RespondReplacements ==
    ASSUME TypeOK, HandlerState, ReplacementsInv, NEW h \in Handler, Respond(h),
           provider' = provider,
           \A g \in Handler :
               pc[g] = "saving" => subject[g] \in overtaken' \/ session[g].refresh \in valid',
           \A u \in Subject, t \in Token :
               Stores(u, t)' => Stores(u, t) \/ (pc[h] # "idle" /\ session[h].refresh = t)
    PROVE  (SavedIsValid /\ SavedIsUnseen)'
<1>1. \A g \in Handler : /\ g = h => pc'[g] = "idle"
                         /\ g # h => /\ pc'[g] = pc[g] /\ session'[g] = session[g]
                                     /\ subject'[g] = subject[g]
  BY DEF Respond, Goto, TypeOK
<1>2. SavedIsValid'
  BY <1>1 DEF SavedIsValid
<1>3. SavedIsUnseen'
  <2> SUFFICES ASSUME provider = "rotating", NEW g \in Handler, pc'[g] = "saving"
               PROVE  /\ \A f \in Handler : f # g /\ pc'[f] # "idle" =>
                                                session'[f].refresh # session'[g].refresh
                      /\ \A u \in Subject : ~Stores(u, session[g].refresh)'
    BY DEF SavedIsUnseen
  <2>1. g # h /\ pc[g] = "saving" /\ session'[g] = session[g]
    BY <1>1
  <2>2. session[g].refresh \in Token
    BY <2>1 DEF HandlerState
  <2>3. /\ \A f \in Handler : f # g /\ pc[f] # "idle" => session[f].refresh # session[g].refresh
        /\ \A u \in Subject : ~Stores(u, session[g].refresh)
    BY <2>1 DEF ReplacementsInv, SavedIsUnseen
  <2>4. PICK t \in Token : t = session[g].refresh
    BY <2>2
  <2>5. \A u \in Subject : ~Stores(u, t)'
    BY <2>1, <2>3, <2>4
  <2>6. \A u \in Subject : ~Stores(u, session[g].refresh)'
    BY <2>1, <2>4, <2>5 DEF Stores
  <2> QED
    BY <1>1, <2>1, <2>3, <2>6
<1> QED
  BY <1>2, <1>3

LEMMA ReplacementsNext ==
    ASSUME TypeOK, HandlerState, TokensAreIssued, TokensHaveOneOwner, ReplacementsInv, Next
    PROVE  ReplacementsInv'
<1> USE DEF ReplacementsInv
<1>1. ASSUME NEW u \in Subject, NEW n \in Token \cup {NoToken}, SaveLogin(u, n)
      PROVE  (SavedIsValid /\ SavedIsUnseen)'
  <2>1. \A h \in Handler : pc[h] # "idle" =>
            /\ session[h].refresh \in issued /\ session[h].refresh # NoToken
            /\ subject[h] \in overtaken' <=> subject[h] \in overtaken
    <3>1. \A h \in Handler : pc[h] # "idle" => session[h].refresh \in issued
      BY DEF HandlerState, TokensAreIssued, Has, Holds
    <3>2. \A h \in Handler : subject[h] \in overtaken' <=> subject[h] \in overtaken
      BY <1>1 DEF SaveLogin
    <3> QED
      BY <3>1, <3>2, ConstantsAssumption DEF HandlerState
  <2>2. \A h \in Handler : pc[h] = "saving" => session[h].refresh # n
    BY <1>1, <2>1 DEF SaveLogin
  <2>3. \A v \in Subject : sessions'[v] = IF v = u THEN [refresh |-> n, expires |-> now + TTL]
                                                   ELSE sessions[v]
    BY <1>1 DEF SaveLogin, TypeOK
  <2>4. UNCHANGED <<pc, subject, session, provider>> /\ valid \subseteq valid'
    BY <1>1 DEF SaveLogin, handlerVars
  <2> QED
    BY <2>1, <2>2, <2>3, <2>4 DEF SavedIsValid, SavedIsUnseen, Stores
<1>2. ASSUME NEW h \in Handler, NEW aud \in Resources, NEW u \in Subject, Exchange(h, aud, u)
      PROVE  (SavedIsValid /\ SavedIsUnseen)'
  <2>1. \A g \in Handler : /\ pc'[g] = IF g = h THEN "refreshing" ELSE pc[g]
                           /\ session'[g] = IF g = h THEN sessions[u] ELSE session[g]
                           /\ g # h => subject'[g] = subject[g]
    BY <1>2 DEF Exchange, Goto, TypeOK
  <2>2. UNCHANGED <<sessions, provider, valid, overtaken>> /\ Stores(u, sessions[u].refresh)
    BY <1>2 DEF Exchange, external, Stores
  <2>3. SavedIsValid'
    BY <2>1, <2>2 DEF SavedIsValid
  <2>4. provider = "rotating" =>
            \A g \in Handler : pc[g] = "saving" => session[g].refresh # sessions[u].refresh
    BY <2>2 DEF SavedIsUnseen
  <2>5. SavedIsUnseen'
    BY <2>1, <2>2, <2>4 DEF SavedIsUnseen, Stores
  <2> QED
    BY <2>3, <2>5
<1>3. ASSUME NEW h \in Handler, NEW n \in Token \cup {NoToken}, refresh(h, n)
      PROVE  (SavedIsValid /\ SavedIsUnseen)'
  <2> DEFINE s == RefreshedSession(session[h], n)
  <2>1. /\ n = NoToken => s.refresh = session[h].refresh
        /\ n # NoToken => s.refresh = n
    BY <1>3, RefreshedHasToken DEF refresh
  <2>2. \A g \in Handler : /\ pc'[g] = IF g = h THEN "saving" ELSE pc[g]
                           /\ session'[g] = IF g = h THEN s ELSE session[g]
                           /\ subject'[g] = subject[g]
    BY <1>3 DEF refresh, Goto, TypeOK
  <2> HIDE DEF s
  <2>3. /\ UNCHANGED <<sessions, provider>> /\ pc[h] = "refreshing"
        /\ ProviderAccepts(session[h], n) /\ NoteOvertaken(h, n)
    BY <1>3 DEF refresh, ProviderAccepts
  <2>4. \A g \in Handler :
            pc[g] = "saving" => subject[g] \in overtaken' \/ session[g].refresh \in valid'
    BY <2>3, OthersStayValid
  <2>5. s.refresh \in valid'
    BY <2>1, <2>3, ConstantsAssumption DEF ProviderAccepts
  <2>6. SavedIsValid'
    BY <2>2, <2>4, <2>5 DEF SavedIsValid
  <2>7. SavedIsUnseen'
    <3> SUFFICES ASSUME provider = "rotating" PROVE SavedIsUnseen'
      BY <2>3 DEF SavedIsUnseen
    <3>1. n \in Token \ issued /\ s.refresh = n
      BY <2>1, <2>3, ConstantsAssumption DEF ProviderAccepts
    <3>2. \A g \in Handler : pc[g] # "idle" => session[g].refresh # n
      BY <3>1 DEF HandlerState, TokensAreIssued, Has, Holds
    <3>3. \A u \in Subject : ~Stores(u, n)
      BY <3>1 DEF TokensAreIssued, Has
    <3> QED
      BY <2>2, <2>3, <3>1, <3>2, <3>3 DEF SavedIsUnseen, Stores
  <2> QED
    BY <2>6, <2>7
<1>4. ASSUME NEW h \in Handler, NEW n \in Token \cup {NoToken}, AnswerLost(h, n)
      PROVE  (SavedIsValid /\ SavedIsUnseen)'
  <2>1. \A g \in Handler :
            pc[g] = "saving" => subject[g] \in overtaken' \/ session[g].refresh \in valid'
    BY <1>4, OthersStayValid DEF AnswerLost
  <2> QED
    BY <1>4, <2>1, RespondReplacements DEF AnswerLost, ProviderAccepts, Stores
<1>5. ASSUME NEW h \in Handler, RefreshFails(h) \/ SaveFails(h)
      PROVE  (SavedIsValid /\ SavedIsUnseen)'
  <2>1. \A g \in Handler :
            pc[g] = "saving" => subject[g] \in overtaken' \/ session[g].refresh \in valid'
    BY <1>5 DEF SavedIsValid, RefreshFails, SaveFails, external
  <2> QED
    BY <1>5, <2>1, RespondReplacements DEF RefreshFails, SaveFails, external, Stores
<1>6. ASSUME NEW h \in Handler, SaveUpstreamSession(h)
      PROVE  (SavedIsValid /\ SavedIsUnseen)'
  <2>1. \A g \in Handler :
            pc[g] = "saving" => subject[g] \in overtaken' \/ session[g].refresh \in valid'
    BY <1>6 DEF SavedIsValid, SaveUpstreamSession, external
  <2>2. \A v \in Subject : sessions'[v] = IF v = subject[h] THEN session[h] ELSE sessions[v]
    BY <1>6 DEF SaveUpstreamSession, TypeOK
  <2>3. \A v \in Subject, t \in Token :
            Stores(v, t)' => Stores(v, t) \/ (pc[h] # "idle" /\ session[h].refresh = t)
    BY <1>6, <2>2 DEF SaveUpstreamSession, Stores
  <2> QED
    BY <1>6, <2>1, <2>3, RespondReplacements DEF SaveUpstreamSession, external
<1>7. ASSUME Crash PROVE (SavedIsValid /\ SavedIsUnseen)'
  BY <1>7 DEF Crash, SavedIsValid, SavedIsUnseen
<1>8. ASSUME Tick PROVE (SavedIsValid /\ SavedIsUnseen)'
  BY <1>8 DEF Tick, handlerVars, external, SavedIsValid, SavedIsUnseen, Stores
<1> QED
  BY MixedNext, <1>1, <1>2, <1>3, <1>4, <1>5, <1>6, <1>7, <1>8 DEF Next

-----------------------------------------------------------------------------
\* The provider replaces the token of h: what it makes useless is a token of the
\* subject of h and nobody else's.
LEMMA OthersStayUsable ==
    ASSUME TypeOK, HandlerState, TokensHaveOneOwner,
           NEW h \in Handler, NEW n \in Token \cup {NoToken},
           pc[h] = "refreshing", ProviderAccepts(session[h], n),
           NEW v \in Subject, sessions[v] # NoRow, sessions[v].refresh \in valid,
           v # subject[h]
    PROVE  sessions[v].refresh \in valid'
<1>1. /\ Has(v, sessions[v].refresh)
      /\ Has(subject[h], session[h].refresh)
  BY DEF Has, Stores, Holds
<1>2. sessions[v].refresh # session[h].refresh
  BY <1>1 DEF TokensHaveOneOwner, HandlerState, TypeOK
<1> QED
  BY <1>2 DEF ProviderAccepts

LEMMA UsableNext ==
    ASSUME ExchangeInv, Next
    PROVE  SessionStaysUsable'
<1> USE DEF ExchangeInv
<1> SUFFICES ASSUME NEW v \in Subject, sessions'[v] # NoRow, sessions'[v].refresh # NoToken,
                    sessions'[v].refresh \notin valid', v \notin lost',
                    ~(provider' = "mixed" /\ v \in overtaken')
             PROVE  \E g \in Handler : Carries(g, v)'
  BY DEF SessionStaysUsable
<1>a. v \notin overtaken'
  BY MixedNext DEF OnlyMixedOvertakes
<1>0. \/ sessions[v] = NoRow \/ sessions[v].refresh = NoToken
      \/ sessions[v].refresh \in valid
      \/ \E g \in Handler : Carries(g, v)
      \/ v \in lost \cup overtaken
  BY DEF SessionStaysUsable
<1>1. ASSUME NEW u \in Subject, NEW n \in Token \cup {NoToken}, SaveLogin(u, n)
      PROVE  \E g \in Handler : Carries(g, v)'
  <2>1. sessions'[u].refresh = n
    BY <1>1 DEF SaveLogin, TypeOK
  <2>2. v # u
    BY <1>1, <2>1 DEF SaveLogin
  <2>3. sessions'[v] = sessions[v] /\ v \notin lost \cup overtaken /\ valid \subseteq valid'
    BY <1>a, <1>1, <2>2 DEF SaveLogin, TypeOK
  <2> QED
    BY <1>0, <1>1, <2>3 DEF SaveLogin, handlerVars, Carries
<1>2. ASSUME NEW h \in Handler, NEW aud \in Resources, NEW u \in Subject, Exchange(h, aud, u)
      PROVE  \E g \in Handler : Carries(g, v)'
  <2>1. UNCHANGED <<sessions, valid, lost, overtaken>> /\ pc[h] = "idle"
    BY <1>2 DEF Exchange, external
  <2>2. PICK g \in Handler : Carries(g, v)
    BY <1>a, <1>0, <2>1
  <2>3. g # h
    BY <2>1, <2>2 DEF Carries
  <2> QED
    BY <1>2, <2>1, <2>2, <2>3 DEF Exchange, Goto, Carries, TypeOK
<1>3. ASSUME NEW h \in Handler, NEW n \in Token \cup {NoToken}, refresh(h, n)
      PROVE  \E g \in Handler : Carries(g, v)'
  <2>1. /\ UNCHANGED <<sessions, lost>> /\ pc[h] = "refreshing"
        /\ ProviderAccepts(session[h], n) /\ v \notin overtaken
    BY <1>a, <1>3 DEF refresh, NoteOvertaken
  <2> DEFINE s == RefreshedSession(session[h], n)
  <2>2. \A g \in Handler : /\ pc'[g] = IF g = h THEN "saving" ELSE pc[g]
                           /\ subject'[g] = subject[g]
                           /\ session'[g] = IF g = h THEN s ELSE session[g]
    BY <1>3 DEF refresh, Goto, TypeOK
  <2> HIDE DEF s
  <2>3. SavedIsValid'
    BY ReplacementsNext DEF ReplacementsInv
  <2>4. CASE v = subject[h]
    <3>1. Carries(h, v)'
      BY <1>a, <2>2, <2>3, <2>4 DEF SavedIsValid, Carries
    <3> QED
      BY <3>1
  <2>5. CASE v # subject[h]
    <3>1. sessions[v].refresh \notin valid
      BY <2>1, <2>5, OthersStayUsable
    <3>2. PICK g \in Handler : Carries(g, v)
      BY <1>0, <2>1, <3>1
    <3>3. Carries(g, v)'
      BY <1>a, <2>1, <2>2, <2>3, <3>2 DEF Carries, SavedIsValid
    <3> QED
      BY <3>3
  <2> QED
    BY <2>4, <2>5
<1>4. ASSUME NEW h \in Handler, NEW n \in Token \cup {NoToken}, AnswerLost(h, n)
      PROVE  \E g \in Handler : Carries(g, v)'
  <2>1. /\ UNCHANGED sessions /\ pc[h] = "refreshing" /\ ProviderAccepts(session[h], n)
        /\ v # subject[h] /\ v \notin lost \cup overtaken
    BY <1>a, <1>4 DEF AnswerLost, NoteOvertaken
  <2>2. sessions[v].refresh \notin valid
    BY <2>1, OthersStayUsable
  <2>3. PICK g \in Handler : Carries(g, v)
    BY <1>0, <2>1, <2>2
  <2>4. pc'[g] = "saving" /\ subject'[g] = v /\ session'[g] = session[g]
    BY <1>4, <2>1, <2>3 DEF AnswerLost, Respond, Goto, Carries, TypeOK
  <2>5. SavedIsValid'
    BY ReplacementsNext DEF ReplacementsInv
  <2> QED
    BY <1>a, <2>4, <2>5 DEF Carries, SavedIsValid
<1>5. ASSUME NEW h \in Handler, RefreshFails(h) \/ SaveFails(h)
      PROVE  \E g \in Handler : Carries(g, v)'
  <2>1. UNCHANGED <<sessions, valid>> /\ v \notin lost \cup overtaken
    BY <1>a, <1>5 DEF RefreshFails, SaveFails, external
  <2>2. PICK g \in Handler : Carries(g, v)
    BY <1>0, <2>1
  <2>3. g # h
    BY <1>5, <2>2 DEF RefreshFails, SaveFails, Carries
  <2>4. pc'[g] = pc[g] /\ subject'[g] = subject[g] /\ session'[g] = session[g]
    BY <1>5, <2>3 DEF RefreshFails, SaveFails, Respond, Goto, TypeOK
  <2> QED
    BY <2>1, <2>2, <2>4 DEF Carries
<1>6. ASSUME NEW h \in Handler, SaveUpstreamSession(h)
      PROVE  \E g \in Handler : Carries(g, v)'
  <2>1. /\ UNCHANGED <<valid, overtaken>> /\ subject[h] \in Subject
        /\ subject[h] \notin overtaken => session[h].refresh \in valid
    BY <1>6 DEF SaveUpstreamSession, external, SavedIsValid, HandlerState
  <2>2. sessions'[subject[h]] = session[h]
    BY <1>6, <2>1 DEF SaveUpstreamSession, TypeOK
  <2>3. v # subject[h]
    BY <1>a, <2>1, <2>2
  <2>4. sessions'[v] = sessions[v] /\ v \notin lost \cup overtaken
    BY <1>a, <1>6, <2>1, <2>3 DEF SaveUpstreamSession, TypeOK
  <2>5. PICK g \in Handler : Carries(g, v)
    BY <1>0, <2>1, <2>4
  <2>6. pc'[g] = pc[g] /\ subject'[g] = subject[g] /\ session'[g] = session[g]
    BY <1>6, <2>3, <2>5 DEF SaveUpstreamSession, Respond, Goto, TypeOK, Carries
  <2> QED
    BY <2>1, <2>5, <2>6 DEF Carries
<1>7. ASSUME Crash PROVE \E g \in Handler : Carries(g, v)'
  <2>1. /\ UNCHANGED <<sessions, valid>> /\ v \notin lost \cup overtaken
        /\ v \notin {subject[h] : h \in {g \in Handler : pc[g] = "saving"}}
    BY <1>a, <1>7 DEF Crash, external
  <2> QED
    BY <1>0, <2>1 DEF Carries
<1>8. ASSUME Tick PROVE \E g \in Handler : Carries(g, v)'
  BY <1>a, <1>0, <1>8 DEF Tick, handlerVars, external, Carries
<1> QED
  BY <1>1, <1>2, <1>3, <1>4, <1>5, <1>6, <1>7, <1>8 DEF Next

LEMMA ExchangeInvInit == Init => ExchangeInv
<1> SUFFICES ASSUME Init PROVE ExchangeInv
  OBVIOUS
<1>1. TypeOK /\ HandlerState
  BY ExchangeTypesInit
<1>2. \A u \in Subject : sessions[u] = NoRow
  BY DEF Init
<1>3. \A h \in Handler : pc[h] = "idle"
  BY DEF Init
<1> QED
  BY <1>1, <1>2, <1>3
  DEF Init, ExchangeInv, TokensAreIssued, TokensHaveOneOwner, Has, Stores, Holds, OnlyMixedOvertakes,
      SavedIsValid, SavedIsUnseen, SessionStaysUsable

LEMMA ExchangeInvNext == ExchangeInv /\ [Next]_vars => ExchangeInv'
<1>1. ASSUME ExchangeInv, Next PROVE ExchangeInv'
  <2>1. (TypeOK /\ HandlerState)'
    BY <1>1, ExchangeTypesNext DEF ExchangeInv
  <2>2. (TokensAreIssued /\ TokensHaveOneOwner)'
    BY <1>1, OwnersNext DEF ExchangeInv
  <2>3. ReplacementsInv'
    BY <1>1, ReplacementsNext DEF ExchangeInv, ReplacementsInv
  <2>4. SessionStaysUsable'
    BY <1>1, UsableNext
  <2> QED
    BY <2>1, <2>2, <2>3, <2>4 DEF ExchangeInv, ReplacementsInv
<1>2. ASSUME ExchangeInv, UNCHANGED vars PROVE ExchangeInv'
  BY <1>2
  DEF vars, handlerVars, external, ExchangeInv, TypeOK, HandlerState, TokensAreIssued,
      TokensHaveOneOwner, Has, Stores, Holds, OnlyMixedOvertakes, SavedIsValid, SavedIsUnseen,
      SessionStaysUsable, Carries
<1> QED
  BY <1>1, <1>2

\* Concurrent exchanges and logins never strand a user: whatever handlers of
\* Exchange overlap with each other and with logins, for any number of users,
\* handlers and tokens, and whether the provider rotates its refresh tokens or
\* keeps them, the stored one is accepted or a handler is about to replace it,
\* unless a lost answer, a failed save or a crash has swallowed the replacement.
\* A provider that does now one and now the other adds the one exception of a
\* user whose token was replaced while another handler was about to save it.
THEOREM SessionsStayUsable == Spec => []SessionStaysUsable
<1>1. Spec => []ExchangeInv
  BY ExchangeInvInit, ExchangeInvNext, PTL DEF Spec
<1>2. ExchangeInv => SessionStaysUsable
  BY DEF ExchangeInv
<1> QED
  BY <1>1, <1>2, PTL

\* A refresh never loses the refresh token of a session: only a login that came
\* without one replaces a session that had one by a session that has none.
THEOREM RefreshTokensAreKept == Spec => RefreshTokenIsKept
<1> DEFINE Kept == \A u \in Subject :
                     /\ sessions[u] # NoRow /\ sessions[u].refresh # NoToken
                     /\ sessions'[u] # NoRow /\ sessions'[u].refresh = NoToken
                     => SaveLogin(u, NoToken)
<1>1. TypeOK /\ HandlerState /\ [Next]_vars => [Kept]_vars
  <2> SUFFICES ASSUME TypeOK, HandlerState, Next,
                      NEW u \in Subject, sessions[u].refresh # NoToken,
                      sessions'[u] # NoRow, sessions'[u].refresh = NoToken
               PROVE  SaveLogin(u, NoToken)
    OBVIOUS
  <2>1. sessions' # sessions
    OBVIOUS
  <2>2. ASSUME NEW w \in Subject, NEW n \in Token \cup {NoToken}, SaveLogin(w, n)
        PROVE  SaveLogin(u, NoToken)
    <3>1. \A x \in Subject : sessions'[x] = IF x = w THEN [refresh |-> n, expires |-> now + TTL]
                                                     ELSE sessions[x]
      BY <2>2 DEF SaveLogin, TypeOK
    <3>2. u = w /\ n = NoToken
      BY <3>1
    <3> QED
      BY <2>2, <3>2
  <2>3. ASSUME NEW h \in Handler, SaveUpstreamSession(h)
        PROVE  FALSE
    <3>1. session[h].refresh \in Token
      BY <2>3 DEF SaveUpstreamSession, HandlerState
    <3>2. sessions'[u] = IF u = subject[h] THEN session[h] ELSE sessions[u]
      BY <2>3 DEF SaveUpstreamSession, TypeOK
    <3> QED
      BY <3>1, <3>2, ConstantsAssumption
  <2> QED
    BY <2>1, <2>2, <2>3
    DEF Next, Exchange, refresh, AnswerLost, RefreshFails, SaveFails, Crash, Tick
<1>2. Spec => [][Next]_vars
  BY DEF Spec
<1>3. Spec => [][Kept]_vars
  BY <1>1, <1>2, ExchangeTypeCorrect, PTL
<1> QED
  BY <1>3 DEF RefreshTokenIsKept
=============================================================================
