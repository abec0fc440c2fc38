----------------------- MODULE MCTokenExchangeClient -----------------------
(***************************************************************************)
(* An instance of TokenExchangeClient: three requests for a cache of two.  *)
(***************************************************************************)
EXTENDS TokenExchangeClient, TLC

CONSTANTS alice, bob, api, read, write

MCRequest == {[subject |-> alice, audience |-> api, scopes |-> {read}],
              [subject |-> alice, audience |-> api, scopes |-> {write}],
              [subject |-> bob, audience |-> api, scopes |-> {read}]}

CallerSymmetry == Permutations(Caller)
=============================================================================
