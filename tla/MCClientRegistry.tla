-------------------------- MODULE MCClientRegistry --------------------------
(***************************************************************************)
(* Instances of ClientRegistry: a registered client beside one known by    *)
(* URL, a client at a loopback address, and a resource client.             *)
(***************************************************************************)
EXTENDS ClientRegistry, TLC

CONSTANTS d1, c1, pk1, pk2

callback1 == MakeURI("http", "127.0.0.1", "1", "/cb")
callback2 == MakeURI("http", "127.0.0.1", "2", "/cb")
callbackS == MakeURI("https", "127.0.0.1", "1", "/cb")
callbackL == MakeURI("http", "localhost", "1", "/cb")
anyPort == MakeURI("http", "127.0.0.1", "*", Absent)

u1 == [scheme |-> "https", host |-> "client.example", literal |-> "none", plain |-> TRUE]
u2 == [scheme |-> "https", host |-> "127.0.0.1", literal |-> "loopback", plain |-> TRUE]
u3 == [scheme |-> "http", host |-> "client.example", literal |-> "none", plain |-> TRUE]

MCUrl == {u1, u2, u3}
MCRedirect == {callback1, callback2, callbackL, callbackS}
MCRegistrations == {[redirects |-> {callback1}, auth |-> "client_secret_basic"],
                    [redirects |-> {callback2}, auth |-> ""]}
MCDocuments == {[id |-> u1, redirects |-> {callback1}, auth |-> "none"],
                [id |-> u1, redirects |-> {callbackL}, auth |-> ""],
                [id |-> u2, redirects |-> {callback1}, auth |-> "none"]}
MCLookups == {{"public"}, {"public", "private"}}

open == [registration |-> TRUE, metadata |-> TRUE, allow |-> {}, hosts |-> {}, local |-> FALSE]
closed == [registration |-> FALSE, metadata |-> FALSE, allow |-> {anyPort},
           hosts |-> {"client.example"}, local |-> FALSE]
development == [open EXCEPT !.local = TRUE]

MCConfigs == {open, closed, development}
MCFiles == {<<>>, c1 :> pk1, c1 :> pk2, c1 :> BadKey}
MCWorlds == {{d1, u1}, {u2, u3}, {c1}}

Symmetry == Permutations(Handler) \cup Permutations(Jti)

\* Instances of the redirect_wildcard run: registration with the allowlist syntax.
WildcardRedirect == {callback1, callbackL, anyPort}
WildcardRegistrations == {[redirects |-> {callback1, anyPort}, auth |-> "none"]}
=============================================================================
