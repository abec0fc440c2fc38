----------------------- MODULE MCAuthorizationFlow -----------------------
(* Instances of AuthorizationFlow for TLC: two clients with a redirect URI   *)
(* each, and small sets of requests that differ where the checks look.       *)
EXTENDS AuthorizationFlow, TLC

CONSTANTS c1, c2, u1, v1, v2, res1, res2, s1, s2, n1

MCRegistered == (c1 :> {u1}) @@ (c2 :> {})

Ask(c, v, res, nonce) == [client |-> c, redirect |-> u1, challenge |-> S256(v),
                          resource |-> res, scope |-> {s1}, nonce |-> nonce]

\* Two requests that name no resource and share the nonce their client sent ...
SameNonce == {Ask(c1, v1, Empty, n1), Ask(c1, v2, Empty, n1)}

\* ... or leave the nonce to the server.
NoNonce == {Ask(c1, v1, Empty, Empty), Ask(c1, v2, Empty, Empty)}

\* Requests that must be refused, next to one that must not.
MixedRequests ==
    {Ask(c1, v1, res1, Empty), Ask(c1, v1, res2, Empty), Ask(c2, v1, res1, Empty),
     Ask(c1, v2, Empty, Empty),
     [Ask(c1, v1, res1, Empty) EXCEPT !.challenge = Empty],
     [Ask(c1, v1, res1, Empty) EXCEPT !.scope = {s2}]}

\* An upstream provider that checks the verifier but has no ID token, one that
\* answers with an ID token alone and ignores the verifier, and the local
\* identity of a development server.
Pkce  == [interactive |-> TRUE, idToken |-> FALSE, pkce |-> TRUE, accessToken |-> TRUE,
          local |-> FALSE, resources |-> {res1}]
IDTokenOnly == [Pkce EXCEPT !.idToken = TRUE, !.pkce = FALSE, !.accessToken = FALSE]
Local == [interactive |-> FALSE, idToken |-> FALSE, pkce |-> FALSE, accessToken |-> FALSE,
          local |-> TRUE, resources |-> {res1, res2}]

MCDeployments == {Pkce, IDTokenOnly, Local}

MCRequests(d) == CASE d = Pkce -> SameNonce
                   [] d = IDTokenOnly -> NoNonce
                   [] d = Local -> MixedRequests

Symmetry == Permutations(Handler) \cup Permutations(Id) \cup Permutations(Code)
              \cup Permutations(Subject)
=============================================================================
