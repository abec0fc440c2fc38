--------------------------- MODULE MCSQLiteStore ---------------------------
(* An instance of SQLiteStore for TLC: a code, a consent request and two      *)
(* refresh tokens.                                                           *)
EXTENDS SQLiteStore, TLC

CONSTANTS code, consent, refresh1, refresh2

MCKind == (code :> "code") @@ (consent :> "consent")
            @@ (refresh1 :> "refresh") @@ (refresh2 :> "refresh")

Symmetry == Permutations(Handler) \cup Permutations({refresh1, refresh2})
=============================================================================
