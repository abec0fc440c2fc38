---------------------------- MODULE RedirectURI ----------------------------
(***************************************************************************)
(* Client redirect URIs: the structural check and the matching rules of    *)
(* auth-server/server/redirect.go.  A URI is the record of its components; *)
(* scheme "app" stands for any private-use scheme, port "*" for the        *)
(* allowlist syntax http://<loopback>:*, and Absent for a component that   *)
(* is not there.                                                           *)
(***************************************************************************)

Absent == "-"

\* The URI with these components and neither a query nor a fragment.
MakeURI(scheme, host, port, path) ==
    [scheme |-> scheme, host |-> host, port |-> port, path |-> path,
     query |-> Absent, fragment |-> Absent]

isLoopbackHost(host) == host \in {"localhost", "127.0.0.1", "::1"}

\* parseLoopbackPortWildcard and, for every other value, the switch over the
\* scheme: https needs a host, http a loopback one, a private-use scheme nothing.
parseClientRedirect(u) ==
    /\ u.fragment = Absent
    /\ IF u.port = "*"
       THEN u.scheme = "http" /\ isLoopbackHost(u.host)
       ELSE CASE u.scheme = "https" -> u.host # Absent
              [] u.scheme = "http"  -> isLoopbackHost(u.host)
              [] OTHER              -> TRUE

validRedirect(u) == parseClientRedirect(u)

\* url.Parse, which knows no port "*": it answers with a nil URL and an error.
urlParses(u) == u.port # "*"

\* A :* entry with no path of its own stands for every path on its host.
anyPath(u) == u.port = "*" /\ u.path = Absent

\* Matching that takes one loopback name for another.
MatchesAnyLoopback(pattern, candidate) ==
    \/ pattern = candidate
    \/ /\ parseClientRedirect(pattern) /\ pattern.scheme = "http"
       /\ parseClientRedirect(candidate) /\ candidate.scheme = "http"
       /\ anyPath(pattern) \/ pattern.path = candidate.path

\* redirectMatches: the same string, or, for an http loopback entry, the same
\* URI but for its port (and anything on the host for a :* entry with no path).
redirectMatches(pattern, candidate) ==
    \/ pattern = candidate
    \/ /\ parseClientRedirect(pattern)
       /\ pattern.scheme = "http" /\ isLoopbackHost(pattern.host)
       /\ parseClientRedirect(candidate)
       /\ candidate.scheme = "http" /\ candidate.host = pattern.host
       /\ \/ anyPath(pattern)
          \/ pattern.path = candidate.path /\ pattern.query = candidate.query

redirectAllowed(allowlist, u) == \E entry \in allowlist : redirectMatches(entry, u)
=============================================================================
