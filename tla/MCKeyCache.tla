---------------------------- MODULE MCKeyCache ----------------------------
(* Instances of KeyCache for TLC: the default proportions of the intervals,  *)
(* and a cache that is kept for a shorter time than the throttle.            *)
EXTENDS KeyCache

Settings(sdk, ttl, minFetch, unknownTTL) ==
    [sdk |-> sdk, ttl |-> ttl, minFetch |-> minFetch, unknownTTL |-> unknownTTL]

MCVerifiers ==
    {Settings(sdk, 2, 1, 2) : sdk \in SDKs}
      \cup {Settings(sdk, 1, 2, 2) : sdk \in {"go", "python", "typescript"}}
=============================================================================
