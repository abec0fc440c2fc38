--------------------------- MODULE TokenExchange ---------------------------
(***************************************************************************)
(* The token-exchange grant: exchange of server.go and the default         *)
(* UpstreamSessionExchanger of upstream_session.go, which hands out the    *)
(* upstream session of the user and refreshes it at the upstream provider  *)
(* when it has expired.                                                    *)
(*                                                                         *)
(* A handler reads the session, talks to the provider and writes the       *)
(* session back, with no lock around the three; logins write it too        *)
(* (AuthorizationFlow models them).  A provider that rotates refresh       *)
(* tokens makes the one it was shown useless, whatever becomes of its      *)
(* answer.                                                                 *)
(***************************************************************************)
EXTENDS Integers

CONSTANTS Handler,         \* goroutines serving /token
          Subject,
          Token,           \* refresh tokens the upstream provider can issue
          Resources,       \* Config.configuredResources(): what access tokens are issued for
          ConfigResource,  \* Config.Resource
          Providers,       \* how the upstream provider may treat its refresh tokens:
                           \* "rotating", "keeping", or "mixed" (now one, now the other)
          TTL,             \* lifetime of an upstream access token
          MaxTime,         \* bound on the clock
          Faults,          \* whether answers get lost, the Store fails and the process dies
          NoRow, NoToken

Session == [refresh : Token \cup {NoToken}, expires : Nat]

ASSUME ConstantsAssumption ==
    /\ TTL \in Nat \ {0} /\ MaxTime \in Nat
    /\ Faults \in BOOLEAN
    /\ Providers \subseteq {"rotating", "keeping", "mixed"}
    /\ NoRow \notin Session /\ NoRow \notin Subject /\ NoToken \notin Token

VARIABLES sessions,   \* Store.upstreamSessions
          now,        \* time.Now()
          pc,         \* where each handler is in Exchange
          subject,    \* the subject it serves
          session,    \* the session it read, and later the refreshed one
          provider,   \* external: how the provider treats refresh tokens
          issued,     \* external: refresh tokens the provider has issued
          valid,      \* external: those it still accepts
          lost,       \* history: subjects whose replaced token a fault has swallowed
          overtaken   \* history: subjects whose token was replaced while another
                      \* handler was about to save it

handlerVars == <<pc, subject, session>>
external == <<provider, issued, valid>>
vars == <<sessions, now, handlerVars, external, lost, overtaken>>

Init ==
    /\ sessions = [u \in Subject |-> NoRow]
    /\ now = 0
    /\ pc = [h \in Handler |-> "idle"]
    /\ subject = [h \in Handler |-> NoRow]
    /\ session = [h \in Handler |-> NoRow]
    /\ provider \in Providers
    /\ issued = {} /\ valid = {}
    /\ lost = {} /\ overtaken = {}

Goto(h, label, u, s) ==
    /\ pc' = [pc EXCEPT ![h] = label]
    /\ subject' = [subject EXCEPT ![h] = u]
    /\ session' = [session EXCEPT ![h] = s]

Respond(h) == Goto(h, "idle", NoRow, NoRow)

-----------------------------------------------------------------------------
\* A login of u completes: the token response becomes the user's session, with
\* the refresh token n or, if the provider gave none, without.
SaveLogin(u, n) ==
    /\ n \notin issued
    /\ sessions' = [sessions EXCEPT ![u] = [refresh |-> n, expires |-> now + TTL]]
    /\ issued' = issued \cup ({n} \ {NoToken})
    /\ valid' = valid \cup ({n} \ {NoToken})
    /\ lost' = lost \ {u}
    /\ overtaken' = IF \E h \in Handler : subject[h] = u THEN overtaken ELSE overtaken \ {u}
    /\ UNCHANGED <<now, handlerVars, provider>>

\* exchange relays a token of this server's own only if it was issued for
\* Config.Resource.
exchangeAccepts(aud) == aud = ConfigResource

\* exchange of a token of u that was issued for aud, and Exchange up to the
\* request to the provider: the stored session has expired and can be refreshed.
\* (A token for another resource is refused, a session that has not expired is
\* returned as it is, and one that is missing or has no refresh token is an
\* error; none of these changes anything.)
Exchange(h, aud, u) ==
    /\ pc[h] = "idle"
    /\ exchangeAccepts(aud)
    /\ sessions[u] # NoRow
    /\ sessions[u].expires <= now
    /\ sessions[u].refresh # NoToken
    /\ Goto(h, "refreshing", u, sessions[u])
    /\ UNCHANGED <<sessions, now, external, lost, overtaken>>

\* External: the provider accepts the refresh token of session s and answers
\* with the token n, which replaces it, or with NoToken, which keeps it.
ProviderAccepts(s, n) ==
    /\ s.refresh \in valid
    /\ \/ provider # "keeping" /\ n \in Token \ issued
       \/ provider # "rotating" /\ n = NoToken
    /\ issued' = issued \cup ({n} \ {NoToken})
    /\ valid' = IF n = NoToken THEN valid ELSE (valid \ {s.refresh}) \cup {n}
    /\ UNCHANGED provider

\* The answer n to h replaces a token that another handler is about to save.
Overtakes(h, n) ==
    n # NoToken /\ \E g \in Handler \ {h} :
                     pc[g] = "saving" /\ session[g].refresh = session[h].refresh

NoteOvertaken(h, n) ==
    overtaken' = IF Overtakes(h, n) THEN overtaken \cup {subject[h]} ELSE overtaken

\* Refreshing that takes the refresh token of the answer as it is.
TakeAnswer(s, n) == [refresh |-> n, expires |-> now + TTL]

\* The session refresh builds from the answer: a missing refresh token means
\* that the old one stays good.
RefreshedSession(s, n) ==
    [refresh |-> IF n = NoToken THEN s.refresh ELSE n, expires |-> now + TTL]

refresh(h, n) ==
    /\ pc[h] = "refreshing"
    /\ ProviderAccepts(session[h], n)
    /\ Goto(h, "saving", subject[h], RefreshedSession(session[h], n))
    /\ NoteOvertaken(h, n)
    /\ UNCHANGED <<sessions, now, lost>>

\* The provider refuses the token, or cannot be reached.
RefreshFails(h) ==
    /\ pc[h] = "refreshing"
    /\ Respond(h)
    /\ UNCHANGED <<sessions, now, external, lost, overtaken>>

\* Exchange that hands the refreshed session out without saving it.
ReturnWithoutSaving(h) ==
    /\ pc[h] = "saving"
    /\ Respond(h)
    /\ UNCHANGED <<sessions, now, external, lost, overtaken>>

\* SaveUpstreamSession replaces whatever is stored by now.
SaveUpstreamSession(h) ==
    /\ pc[h] = "saving"
    /\ sessions' = [sessions EXCEPT ![subject[h]] = session[h]]
    /\ lost' = lost \ {subject[h]}
    /\ Respond(h)
    /\ UNCHANGED <<now, external, overtaken>>

\* The provider's answer is lost on its way.
AnswerLost(h, n) ==
    /\ Faults
    /\ pc[h] = "refreshing"
    /\ ProviderAccepts(session[h], n)
    /\ NoteOvertaken(h, n)
    /\ lost' = lost \cup {subject[h]}
    /\ Respond(h)
    /\ UNCHANGED <<sessions, now>>

\* SaveUpstreamSession returns an error.
SaveFails(h) ==
    /\ Faults
    /\ pc[h] = "saving"
    /\ lost' = lost \cup {subject[h]}
    /\ Respond(h)
    /\ UNCHANGED <<sessions, now, external, overtaken>>

\* The process dies and is restarted over the same database.
Crash ==
    /\ Faults
    /\ lost' = lost \cup {subject[h] : h \in {g \in Handler : pc[g] = "saving"}}
    /\ pc' = [h \in Handler |-> "idle"]
    /\ subject' = [h \in Handler |-> NoRow]
    /\ session' = [h \in Handler |-> NoRow]
    /\ UNCHANGED <<sessions, now, external, overtaken>>

Tick ==
    /\ now < MaxTime
    /\ now' = now + 1
    /\ UNCHANGED <<sessions, handlerVars, external, lost, overtaken>>

Next ==
    \/ \E u \in Subject, n \in Token \cup {NoToken} : SaveLogin(u, n)
    \/ \E h \in Handler :
         \/ \E aud \in Resources, u \in Subject : Exchange(h, aud, u)
         \/ \E n \in Token \cup {NoToken} : refresh(h, n) \/ AnswerLost(h, n)
         \/ RefreshFails(h)
         \/ SaveUpstreamSession(h)
         \/ SaveFails(h)
    \/ Crash
    \/ Tick

Spec == Init /\ [][Next]_vars

-----------------------------------------------------------------------------
TypeOK ==
    /\ sessions \in [Subject -> Session \cup {NoRow}]
    /\ now \in 0 .. MaxTime
    /\ pc \in [Handler -> {"idle", "refreshing", "saving"}]
    /\ subject \in [Handler -> Subject \cup {NoRow}]
    /\ session \in [Handler -> Session \cup {NoRow}]
    /\ provider \in Providers
    /\ issued \in SUBSET Token /\ valid \in SUBSET issued
    /\ lost \in SUBSET Subject /\ overtaken \in SUBSET Subject

\* The handler that carries the replacement of u's refresh token, if any.
Carries(h, u) == pc[h] = "saving" /\ subject[h] = u /\ session[h].refresh \in valid

\* Concurrent exchanges and logins never strand a user: the refresh token stored
\* for a subject is one the provider accepts, or a handler is about to store
\* one, unless a fault has swallowed the provider's answer since.  Of a provider
\* that replaces its tokens only now and then, a handler told to keep the token
\* may still save it after another one was given its replacement.
SessionStaysUsable ==
    \A u \in Subject : sessions[u] # NoRow /\ sessions[u].refresh # NoToken =>
        \/ sessions[u].refresh \in valid
        \/ \E h \in Handler : Carries(h, u)
        \/ u \in lost
        \/ provider = "mixed" /\ u \in overtaken

\* A refresh never leaves a session without the refresh token it had: only a
\* login that came with none does.
RefreshTokenIsKept ==
    [][\A u \in Subject :
         /\ sessions[u] # NoRow /\ sessions[u].refresh # NoToken
         /\ sessions'[u] # NoRow /\ sessions'[u].refresh = NoToken
         => SaveLogin(u, NoToken)]_vars
=============================================================================
