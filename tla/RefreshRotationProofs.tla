---------------------- MODULE RefreshRotationProofs ----------------------
(***************************************************************************)
(* Proofs about RefreshRotation, for every number of handlers, tokens,     *)
(* families and clients, every TTL and every horizon of the clock.         *)
(*                                                                         *)
(* Every Store call either adds a row (SaveRefreshToken) or only spends    *)
(* rows: it may set used and revoked and changes nothing else.  The        *)
(* conjuncts of RotationInv are shown once for all spending steps and once *)
(* for SaveRefreshToken.                                                   *)
(***************************************************************************)
EXTENDS RefreshRotation, TLAPS

\* The refresh table is only spent by a step: no row appears or disappears, and
\* a row changes only by gaining the used or the revoked mark.
OnlySpends ==
    /\ refresh' \in [Token -> RefreshRow \cup {NoRow}]
    /\ \A t \in Token : refresh[t] = NoRow => refresh'[t] = NoRow
    /\ \A t \in Token : refresh[t] # NoRow =>
         /\ refresh'[t] # NoRow
         /\ refresh'[t].family = refresh[t].family
         /\ refresh'[t].grant = refresh[t].grant
         /\ refresh[t].used => refresh'[t].used
         /\ refresh[t].revoked => refresh'[t].revoked

\* MarkUsed, the write of ConsumeRefreshToken, only spends rows and does use up
\* the row it is given.
LEMMA MarkUsedSpends ==
    ASSUME TypeOK, NEW t \in Token, refresh[t] # NoRow,
           refresh' = MarkUsed(refresh, t)
    PROVE  /\ OnlySpends
           /\ refresh'[t].used /\ refresh'[t].revoked = refresh[t].revoked
           /\ \A s \in Token : s # t => refresh'[s] = refresh[s]
  <1> DEFINE row == [refresh[t] EXCEPT !.used = TRUE]
  <1>1. refresh[t] \in RefreshRow
    BY DEF TypeOK
  <1>2. refresh' = [refresh EXCEPT ![t] = row]
    BY DEF MarkUsed
  <1>3. /\ row \in RefreshRow
        /\ row.family = refresh[t].family /\ row.grant = refresh[t].grant
        /\ row.used = TRUE /\ row.revoked = refresh[t].revoked
    BY <1>1 DEF RefreshRow
  <1> HIDE DEF row
  <1>4. QED
    BY <1>1, <1>2, <1>3, ConstantsAssumption DEF TypeOK, OnlySpends

\* POST /revoke only spends rows, and no row but that of its token.
LEMMA RevokeTokenSpends ==
    ASSUME TypeOK, NEW t \in Token, refresh' = RevokeRefreshToken(refresh, t)
    PROVE  /\ OnlySpends
           /\ refresh[t] # NoRow => refresh'[t].revoked
           /\ \A s \in Token : s # t => refresh'[s] = refresh[s]
  <1>1. CASE refresh[t] = NoRow
    BY <1>1 DEF RevokeRefreshToken, OnlySpends, TypeOK
  <1>2. CASE refresh[t] # NoRow
    <2> DEFINE row == [refresh[t] EXCEPT !.revoked = TRUE]
    <2>1. refresh[t] \in RefreshRow
      BY <1>2 DEF TypeOK
    <2>2. refresh' = [refresh EXCEPT ![t] = row]
      BY <1>2 DEF RevokeRefreshToken
    <2>3. /\ row \in RefreshRow
          /\ row.family = refresh[t].family /\ row.grant = refresh[t].grant
          /\ row.used = refresh[t].used /\ row.revoked = TRUE
      BY <2>1 DEF RefreshRow
    <2> HIDE DEF row
    <2>4. QED
      BY <2>1, <2>2, <2>3, <1>2, ConstantsAssumption DEF TypeOK, OnlySpends
  <1>3. QED
    BY <1>1, <1>2

\* The family revocation after a reuse only spends rows, leaves no row of the
\* presented token's family unrevoked, and touches no row outside it.
LEMMA RevokeFamilySpends ==
    ASSUME TypeOK, NEW t \in Token, refresh[t] # NoRow,
           refresh' = RevokeRefreshFamily(refresh, t)
    PROVE  /\ OnlySpends
           /\ refresh[t].family # NoFamily =>
                \A s \in Token :
                  refresh[s] # NoRow /\ refresh[s].family = refresh[t].family
                  => refresh'[s].revoked
           /\ \A s \in Token : refresh'[s] # refresh[s] =>
                \/ s = t
                \/ refresh[s].family = refresh[t].family /\ refresh[t].family # NoFamily
  <1>1. CASE refresh[t].family = NoFamily
    BY <1>1, RevokeTokenSpends DEF RevokeRefreshFamily
  <1>2. CASE refresh[t].family # NoFamily
    <2> DEFINE row(s) == [refresh[s] EXCEPT !.revoked = TRUE]
               hit(s) == refresh[s] # NoRow /\ refresh[s].family = refresh[t].family
    <2>1. refresh' = [s \in Token |-> IF hit(s) THEN row(s) ELSE refresh[s]]
      BY <1>2 DEF RevokeRefreshFamily, TypeOK
    <2>2. ASSUME NEW s \in Token, refresh[s] # NoRow
          PROVE  /\ refresh[s] \in RefreshRow
                 /\ row(s) \in RefreshRow /\ row(s) # NoRow
                 /\ row(s).family = refresh[s].family /\ row(s).grant = refresh[s].grant
                 /\ row(s).used = refresh[s].used /\ row(s).revoked = TRUE
      <3>1. refresh[s] \in RefreshRow
        BY <2>2 DEF TypeOK
      <3>2. QED
        BY <3>1, ConstantsAssumption DEF RefreshRow
    <2> HIDE DEF row
    <2>3. OnlySpends
      BY <2>1, <2>2 DEF OnlySpends, TypeOK
    <2>4. \A s \in Token : refresh'[s] # refresh[s] => refresh[s].family = refresh[t].family
      BY <2>1
    <2>5. \A s \in Token : refresh[s] # NoRow /\ refresh[s].family = refresh[t].family
                            => refresh'[s].revoked
      BY <2>1, <2>2
    <2> HIDE DEF hit
    <2>6. QED
      BY <1>2, <2>3, <2>4, <2>5
  <1>3. QED
    BY <1>1, <1>2

-----------------------------------------------------------------------------
\* Handlers only ever revoke families; one handler revokes the family of the
\* token it was presented, if that has one.
LEMMA RevokedByFamilies ==
    ASSUME TypeOK, InFlight
    PROVE  /\ \A hs \in SUBSET Handler : RevokedBy(hs) \in SUBSET Family
           /\ \A h \in Handler : RevokedBy({h}) \subseteq {refresh[old[h]].family} \ {NoFamily}
  <1>1. ASSUME NEW h \in Handler, pc[h] = "revoking"
        PROVE  refresh[old[h]].family \in Family \cup {NoFamily}
    BY <1>1, ConstantsAssumption DEF TypeOK, InFlight, RefreshRow
  <1>2. QED
    BY <1>1 DEF RevokedBy

\* Every action keeps the variables in their types.
LEMMA TypeStep ==
    ASSUME TypeOK, InFlight, [Next]_vars
    PROVE  TypeOK'
  <1> USE ConstantsAssumption
  <1>1. ASSUME NEW h \in Handler, NEW g \in Grant, RedeemCode(h, g)
        PROVE  TypeOK'
    BY <1>1 DEF RedeemCode, CallIssueTokens, TypeOK
  <1>2. ASSUME NEW h \in Handler, NEW t \in Token, NEW c \in Client, ConsumeRefreshToken(h, t, c)
        PROVE  TypeOK'
    <2>1. refresh[t] # NoRow /\ refresh' = MarkUsed(refresh, t)
      BY <1>2 DEF ConsumeRefreshToken, RefreshStatus
    <2>2. refresh' \in [Token -> RefreshRow \cup {NoRow}]
      BY <2>1, MarkUsedSpends DEF OnlySpends
    <2>3. refresh[t].family \in Family \cup {NoFamily} /\ refresh[t].grant \in Grant
      BY <2>1 DEF TypeOK, RefreshRow
    <2>4. QED
      BY <1>2, <2>2, <2>3 DEF ConsumeRefreshToken, CallIssueTokens, handlerVars, TypeOK
  <1>3. ASSUME NEW h \in Handler, NEW t \in Token, DetectReuse(h, t)
        PROVE  TypeOK'
    BY <1>3 DEF DetectReuse, TypeOK
  <1>4. ASSUME NEW h \in Handler, RevokeFamily(h)
        PROVE  TypeOK'
    <2>1. old[h] \in Token /\ refresh[old[h]] # NoRow
      BY <1>4 DEF RevokeFamily, InFlight
    <2>2. refresh' \in [Token -> RefreshRow \cup {NoRow}]
      BY <1>4, <2>1, RevokeFamilySpends DEF RevokeFamily, OnlySpends
    <2>3. reused' \in SUBSET Family /\ settled' \in SUBSET Family
      BY <1>4, RevokedByFamilies DEF RevokeFamily, TypeOK
    <2>4. QED
      BY <1>4, <2>2, <2>3 DEF RevokeFamily, Respond, TypeOK
  <1>5. ASSUME NEW h \in Handler, NEW t \in Token, NEW f \in Family, SaveRefreshToken(h, t, f)
        PROVE  TypeOK'
    <2>1. Row(f, grant[h]) \in RefreshRow
      BY <1>5 DEF SaveRefreshToken, InFlight, Row, RefreshRow, TypeOK
    <2>2. QED
      BY <1>5, <2>1 DEF SaveRefreshToken, Respond, TypeOK
  <1>6. ASSUME NEW h \in Handler, IssueFails(h) \/ RevokeFamilyFails(h)
        PROVE  TypeOK'
    <2>1. failed' \in SUBSET Family
      BY <1>6, RevokedByFamilies DEF IssueFails, RevokeFamilyFails, TypeOK
    <2>2. QED
      BY <1>6, <2>1 DEF IssueFails, RevokeFamilyFails, Respond, TypeOK
  <1>7. ASSUME NEW t \in Token, Revoke(t)
        PROVE  TypeOK'
    BY <1>7, RevokeTokenSpends DEF Revoke, handlerVars, OnlySpends, TypeOK
  <1>8. CASE Crash
    <2>1. failed' \in SUBSET Family
      BY <1>8, RevokedByFamilies DEF Crash, TypeOK
    <2>2. QED
      BY <1>8, <2>1 DEF Crash, TypeOK
  <1>9. CASE Tick
    BY <1>9 DEF Tick, handlerVars, TypeOK
  <1>10. CASE UNCHANGED vars
    BY <1>10 DEF vars, TypeOK
  <1>11. QED
    BY <1>1, <1>2, <1>3, <1>4, <1>5, <1>6, <1>7, <1>8, <1>9, <1>10
    DEF Next, HandlerStep

\* No handler starts a rotation in this step: whoever is issuing afterwards was
\* issuing before, with the same arguments, and whoever is about to revoke a
\* family was presented a token that has a row.
NoNewRotation ==
    \A h \in Handler :
        /\ pc'[h] = "issuing" => /\ pc[h] = "issuing"
                                 /\ old'[h] = old[h]
                                 /\ family'[h] = family[h]
                                 /\ grant'[h] = grant[h]
        /\ pc'[h] = "revoking" => old'[h] \in Token /\ refresh[old'[h]] # NoRow

\* A step that only spends rows and starts no rotation preserves everything
\* that RotationInv says of handlers, parents, families and grants.
LEMMA SpendingStep ==
    ASSUME RotationInv, TypeOK', OnlySpends, NoNewRotation, parent' = parent
    PROVE  /\ InFlight' /\ ParentIsUsed' /\ RotatedAtMostOnce' /\ OneHeadPerFamily'
           /\ RotationPreservesGrant' /\ FamilyHasOneGrant'
           /\ settled' = settled => SettledIsKnown' /\ SettledFamilyIsDead'
  <1> USE DEF RotationInv
  <1>1. \A t \in Token : Live(t)' => Live(t) /\ refresh'[t].family = refresh[t].family
    BY DEF OnlySpends, Live, TypeOK, RefreshRow
  <1>2. \A h \in Handler, f \in Family : Issuing(h, f)' => Issuing(h, f)
    BY DEF NoNewRotation, Issuing
  <1>3. InFlight'
    <2> SUFFICES ASSUME NEW h \in Handler
                 PROVE  InFlight!(h)'
      BY DEF InFlight
    <2>1. InFlight!(h)
      BY DEF InFlight
    <2>2. CASE pc'[h] = "issuing" /\ old'[h] # NoToken
      <3>1. old[h] \in Token /\ old'[h] = old[h] /\ pc[h] = "issuing"
        BY <2>2, ConstantsAssumption DEF NoNewRotation, TypeOK
      <3>2. \A i \in Handler : pc'[i] = "issuing" => pc[i] = "issuing" /\ old'[i] = old[i]
        BY DEF NoNewRotation
      <3>3. QED
        BY <2>1, <2>2, <3>1, <3>2 DEF NoNewRotation, OnlySpends
    <2>3. CASE ~(pc'[h] = "issuing" /\ old'[h] # NoToken)
      BY <2>1, <2>3 DEF NoNewRotation, OnlySpends
    <2>4. QED
      BY <2>2, <2>3
  <1>4. ParentIsUsed'
    BY DEF ParentIsUsed, OnlySpends, TypeOK
  <1>5. RotatedAtMostOnce'
    BY DEF RotatedAtMostOnce
  <1>6. OneHeadPerFamily'
    BY <1>1, <1>2 DEF OneHeadPerFamily
  <1>7. RotationPreservesGrant'
    BY DEF RotationPreservesGrant, OnlySpends, TypeOK
  <1>8. FamilyHasOneGrant'
    BY DEF FamilyHasOneGrant, OnlySpends
  <1>9. ASSUME settled' = settled
        PROVE  SettledIsKnown' /\ SettledFamilyIsDead'
    <2>1. SettledIsKnown'
      BY <1>9 DEF SettledIsKnown, OnlySpends
    <2>2. SettledFamilyIsDead'
      BY <1>9, <1>1, <1>2 DEF SettledFamilyIsDead, TypeOK
    <2>3. QED
      BY <2>1, <2>2
  <1>10. QED
    BY <1>3, <1>4, <1>5, <1>6, <1>7, <1>8, <1>9

\* The code grant adds a handler that rotates nothing and belongs to no family.
LEMMA RedeemStep ==
    ASSUME RotationInv, NEW h \in Handler, NEW g \in Grant, RedeemCode(h, g)
    PROVE  RotationInv'
  <1> USE ConstantsAssumption DEF RotationInv
  <1>1. TypeOK'
    BY TypeStep DEF Next
  <1>2. /\ refresh' = refresh /\ parent' = parent /\ settled' = settled
        /\ pc'[h] = "issuing" /\ old'[h] = NoToken /\ family'[h] = NoFamily /\ grant'[h] = g
        /\ \A i \in Handler : i # h =>
             pc'[i] = pc[i] /\ old'[i] = old[i] /\ family'[i] = family[i] /\ grant'[i] = grant[i]
    BY DEF RedeemCode, CallIssueTokens, TypeOK
  <1>3. InFlight'
    BY <1>2 DEF InFlight
  <1>4. \A i \in Handler, f \in Family : Issuing(i, f)' => Issuing(i, f)
    BY <1>2 DEF Issuing
  <1>5. \A t \in Token : Live(t)' <=> Live(t)
    BY <1>2 DEF Live
  <1>6. OneHeadPerFamily' /\ SettledFamilyIsDead'
    BY <1>2, <1>4, <1>5 DEF OneHeadPerFamily, SettledFamilyIsDead, TypeOK
  <1>7. /\ ParentIsUsed' /\ RotatedAtMostOnce' /\ RotationPreservesGrant'
        /\ FamilyHasOneGrant' /\ SettledIsKnown'
    BY <1>2 DEF ParentIsUsed, RotatedAtMostOnce, RotationPreservesGrant,
                FamilyHasOneGrant, SettledIsKnown
  <1>8. QED
    BY <1>1, <1>3, <1>6, <1>7

\* A successful ConsumeRefreshToken takes the head of a family out of the table
\* and puts it in the hands of exactly one handler.
LEMMA ConsumeStep ==
    ASSUME RotationInv, NEW h \in Handler, NEW t \in Token, NEW c \in Client,
           ConsumeRefreshToken(h, t, c)
    PROVE  RotationInv'
  <1> USE ConstantsAssumption DEF RotationInv
  <1>1. TypeOK'
    BY TypeStep DEF Next
  <1>2. /\ pc[h] = "idle" /\ Live(t) /\ refresh[t] # NoRow
        /\ refresh' = MarkUsed(refresh, t)
        /\ parent' = parent /\ settled' = settled
    BY DEF ConsumeRefreshToken, RefreshStatus, Live, TypeOK
  <1>3. /\ OnlySpends /\ refresh'[t].used
        /\ \A s \in Token : s # t => refresh'[s] = refresh[s]
    BY <1>2, MarkUsedSpends
  <1>4. CASE c # refresh[t].grant.client
    <2>1. pc' = pc /\ old' = old /\ family' = family /\ grant' = grant
      BY <1>4 DEF ConsumeRefreshToken, handlerVars
    <2>2. NoNewRotation
      BY <2>1 DEF NoNewRotation, InFlight, TypeOK
    <2>3. QED
      BY <1>1, <1>2, <1>3, <2>2, SpendingStep
  <1>5. CASE c = refresh[t].grant.client
    <2>1. /\ pc'[h] = "issuing" /\ old'[h] = t
          /\ family'[h] = refresh[t].family /\ grant'[h] = refresh[t].grant
          /\ \A i \in Handler : i # h =>
               pc'[i] = pc[i] /\ old'[i] = old[i] /\ family'[i] = family[i] /\ grant'[i] = grant[i]
      BY <1>5 DEF ConsumeRefreshToken, CallIssueTokens, TypeOK
    <2>2. \A s \in Token : /\ Live(s)' => s # t /\ Live(s)
                           /\ refresh[s] # NoRow => refresh'[s].family = refresh[s].family
      BY <1>3 DEF Live, OnlySpends
    <2>3. \A s \in Token : parent[s] # t
      BY <1>2 DEF ParentIsUsed, Live
    <2>4. \A i \in Handler : pc[i] = "issuing" => old[i] # t
      BY <1>2 DEF InFlight, Live
    <2>5. refresh[t].grant \in Grant
      BY <1>2 DEF TypeOK, RefreshRow
    <2>6. InFlight'
      <3> SUFFICES ASSUME NEW i \in Handler
                   PROVE  InFlight!(i)'
        BY DEF InFlight
      <3>1. CASE i = h
        BY <3>1, <1>2, <1>3, <2>1, <2>3, <2>4, <2>5 DEF OnlySpends
      <3>2. CASE i # h
        <4>1. InFlight!(i)
          BY DEF InFlight
        <4>2. old[i] \in Token \cup {NoToken}
          BY DEF TypeOK
        <4>3. /\ pc'[i] = pc[i] /\ old'[i] = old[i]
              /\ family'[i] = family[i] /\ grant'[i] = grant[i]
          BY <3>2, <2>1
        <4>4. pc[i] = "issuing" => old'[h] # old[i]
          BY <2>1, <2>4
        <4>5. QED
          BY <4>1, <4>2, <4>3, <4>4, <1>2, <1>3, <2>1 DEF OnlySpends
      <3>3. QED
        BY <3>1, <3>2
    <2>7. OneHeadPerFamily'
      <3> SUFFICES ASSUME NEW f \in Family
                   PROVE  OneHeadPerFamily!(f)'
        BY DEF OneHeadPerFamily
      <3>1. OneHeadPerFamily!(f)
        BY DEF OneHeadPerFamily
      <3>2. \A i \in Handler : Issuing(i, f)' => IF i = h THEN refresh[t].family = f ELSE Issuing(i, f)
        BY <2>1 DEF Issuing
      <3>3. \A s \in Token : Live(s)' => refresh[s] # NoRow
        BY <2>2 DEF Live
      <3>4. QED
        BY <1>2, <2>2, <3>1, <3>2, <3>3
    <2>8. SettledFamilyIsDead'
      BY <1>2, <2>1, <2>2 DEF SettledFamilyIsDead, Issuing, Live, TypeOK
    <2>9. ParentIsUsed' /\ RotationPreservesGrant'
      BY <1>2, <1>3 DEF ParentIsUsed, RotationPreservesGrant, OnlySpends, TypeOK
    <2>10. RotatedAtMostOnce' /\ FamilyHasOneGrant' /\ SettledIsKnown'
      BY <1>2, <1>3 DEF RotatedAtMostOnce, FamilyHasOneGrant, SettledIsKnown, OnlySpends
    <2>11. QED
      BY <1>1, <2>6, <2>7, <2>8, <2>9, <2>10
  <1>6. QED
    BY <1>4, <1>5

\* RevokeFamily kills every row of the family; if no handler is issuing in it,
\* nothing can add to it any more.
LEMMA RevokeFamilyStep ==
    ASSUME RotationInv, NEW h \in Handler, RevokeFamily(h)
    PROVE  RotationInv'
  <1> USE ConstantsAssumption DEF RotationInv
  <1>1. TypeOK'
    BY TypeStep DEF Next, HandlerStep
  <1> DEFINE t == old[h]
  <1>2. t \in Token /\ refresh[t] # NoRow
    BY DEF RevokeFamily, InFlight
  <1>3. /\ OnlySpends
        /\ refresh[t].family # NoFamily =>
             \A s \in Token : refresh[s] # NoRow /\ refresh[s].family = refresh[t].family
                             => refresh'[s].revoked
    BY <1>2, RevokeFamilySpends DEF RevokeFamily
  <1>4. NoNewRotation
    BY DEF RevokeFamily, Respond, NoNewRotation, InFlight, TypeOK
  <1>5. /\ parent' = parent
        /\ \A f \in settled' : f \in settled \/ (f = refresh[t].family /\ f # NoFamily
                                              /\ \A i \in Handler : ~Issuing(i, f))
    BY RevokedByFamilies DEF RevokeFamily
  <1>6. /\ InFlight' /\ ParentIsUsed' /\ RotatedAtMostOnce' /\ OneHeadPerFamily'
        /\ RotationPreservesGrant' /\ FamilyHasOneGrant'
    BY <1>1, <1>3, <1>4, <1>5, SpendingStep
  <1>7. SettledIsKnown'
    BY <1>2, <1>3, <1>5 DEF SettledIsKnown, OnlySpends
  <1>8. SettledFamilyIsDead'
    <2> SUFFICES ASSUME NEW f \in settled'
                 PROVE  /\ \A s \in Token : Live(s)' => refresh'[s].family # f
                        /\ \A i \in Handler : ~Issuing(i, f)'
      BY DEF SettledFamilyIsDead
    <2>1. \A s \in Token : Live(s)' => /\ Live(s) /\ refresh[s] # NoRow
                                       /\ ~refresh'[s].revoked
                                       /\ refresh'[s].family = refresh[s].family
      BY <1>3 DEF OnlySpends, Live
    <2>2. \A i \in Handler : Issuing(i, f)' => Issuing(i, f)
      BY <1>4 DEF NoNewRotation, Issuing
    <2>3. QED
      BY <1>3, <1>5, <2>1, <2>2 DEF SettledFamilyIsDead
  <1>9. QED
    BY <1>1, <1>6, <1>7, <1>8

\* SaveRefreshToken appends the one successor of the token its handler rotated:
\* to that token's family, of which it becomes the head, or to a new family.
LEMMA SaveStep ==
    ASSUME RotationInv, NEW h \in Handler, NEW t \in Token, NEW f \in Family,
           SaveRefreshToken(h, t, f)
    PROVE  RotationInv'
  <1> USE ConstantsAssumption DEF RotationInv
  <1>1. TypeOK'
    BY TypeStep DEF Next, HandlerStep
  <1>2. /\ pc[h] = "issuing" /\ refresh[t] = NoRow /\ grant[h] \in Grant
        /\ IF family[h] = NoFamily THEN FreshFamily(f) ELSE f = family[h]
        /\ settled' = settled
    BY DEF SaveRefreshToken, FreshToken, InFlight
  <1>3. /\ refresh'[t] # NoRow
        /\ refresh'[t].family = f /\ refresh'[t].grant = grant[h]
        /\ ~refresh'[t].used /\ ~refresh'[t].revoked
        /\ \A s \in Token : s # t => refresh'[s] = refresh[s]
    <2>1. refresh' = [refresh EXCEPT ![t] = Row(f, grant[h])]
      BY DEF SaveRefreshToken
    <2>2. /\ Row(f, grant[h]).family = f /\ Row(f, grant[h]).grant = grant[h]
          /\ Row(f, grant[h]).used = FALSE /\ Row(f, grant[h]).revoked = FALSE
      BY DEF Row
    <2>3. Row(f, grant[h]) \in RefreshRow
      BY <1>2 DEF Row, RefreshRow, TypeOK
    <2>4. QED
      BY <2>1, <2>2, <2>3 DEF TypeOK
  <1>4. parent'[t] = old[h] /\ \A s \in Token : s # t => parent'[s] = parent[s]
    BY DEF SaveRefreshToken, TypeOK
  <1>5. /\ pc'[h] = "idle"
        /\ \A i \in Handler : i # h =>
             pc'[i] = pc[i] /\ old'[i] = old[i] /\ family'[i] = family[i] /\ grant'[i] = grant[i]
    BY DEF SaveRefreshToken, Respond, TypeOK
  <1>6. old[h] # NoToken =>
          /\ old[h] \in Token /\ old[h] # t
          /\ refresh[old[h]] # NoRow /\ refresh[old[h]].used
          /\ refresh[old[h]].family = family[h]
          /\ refresh[old[h]].grant = grant[h]
          /\ \A s \in Token : parent[s] # old[h]
          /\ \A i \in Handler : pc[i] = "issuing" /\ old[i] = old[h] => i = h
    BY <1>2 DEF InFlight, TypeOK
  <1>7. family[h] # NoFamily => old[h] # NoToken
    BY <1>2 DEF InFlight
  \* Handlers: nobody else was rotating old[h], and t was nobody's token.
  <1>8. InFlight'
    <2> SUFFICES ASSUME NEW i \in Handler
                 PROVE  InFlight!(i)'
      BY DEF InFlight
    <2>1. CASE i = h
      BY <2>1, <1>5
    <2>2. CASE i # h
      <3>1. InFlight!(i)
        BY DEF InFlight
      <3>2. /\ pc'[i] = pc[i] /\ old'[i] = old[i] /\ family'[i] = family[i] /\ grant'[i] = grant[i]
            /\ old[i] \in Token \cup {NoToken}
        BY <2>2, <1>5 DEF TypeOK
      <3>3. pc[i] = "revoking" => old[i] # t
        BY <3>1, <1>2
      <3>4. pc[i] = "issuing" /\ old[i] # NoToken => old[i] # t /\ old[i] # old[h]
        BY <3>1, <1>2, <2>2
      <3>5. \A j \in Handler : pc'[j] = "issuing" => j # h /\ pc[j] = "issuing" /\ old'[j] = old[j]
        BY <1>5
      <3>6. pc'[i] = "issuing" /\ old'[i] # NoToken => \A s \in Token : parent'[s] # old'[i]
        BY <3>1, <3>2, <3>4, <1>4
      <3>7. QED
        BY <3>1, <3>2, <3>3, <3>4, <3>5, <3>6, <1>3
    <2>3. QED
      BY <2>1, <2>2
  <1>9. ParentIsUsed'
    BY <1>2, <1>3, <1>4, <1>6 DEF ParentIsUsed, TypeOK
  <1>10. RotatedAtMostOnce'
    BY <1>4, <1>6 DEF RotatedAtMostOnce
  <1>11. RotationPreservesGrant'
    <2> SUFFICES ASSUME NEW s \in Token, parent'[s] # NoToken
                 PROVE  RotationPreservesGrant!(s)!2'
      BY DEF RotationPreservesGrant
    <2>1. CASE s = t
      BY <2>1, <1>2, <1>3, <1>4, <1>6
    <2>2. CASE s # t
      <3>1. parent'[s] = parent[s] /\ parent[s] \in Token /\ parent[s] # t /\ refresh[s] # NoRow
        BY <2>2, <1>2, <1>4 DEF RotationPreservesGrant, TypeOK
      <3>2. QED
        BY <2>2, <3>1, <1>3 DEF RotationPreservesGrant
    <2>3. QED
      BY <2>1, <2>2
  \* Families: either f is new, or h was the only handler issuing in it and it
  \* had no live token.
  <1>12. \A s \in Token : refresh[s] # NoRow /\ refresh[s].family = f => refresh[s].grant = grant[h]
    <2>1. CASE family[h] = NoFamily
      BY <2>1, <1>2 DEF FreshFamily
    <2>2. CASE family[h] # NoFamily
      BY <2>2, <1>2, <1>6, <1>7 DEF FamilyHasOneGrant
    <2>3. QED
      BY <2>1, <2>2
  <1>13. FamilyHasOneGrant'
    BY <1>3, <1>12 DEF FamilyHasOneGrant
  <1>14. /\ \A s \in Token : Live(s) => refresh[s].family # f
         /\ \A i \in Handler : Issuing(i, f) => i = h
         /\ f \notin settled
    <2>1. CASE family[h] = NoFamily
      <3>1. \A i \in Handler : ~Issuing(i, f)
        BY <2>1, <1>2 DEF FreshFamily, InFlight, Issuing, TypeOK
      <3>2. QED
        BY <2>1, <3>1, <1>2 DEF FreshFamily, Live, SettledIsKnown
    <2>2. CASE family[h] # NoFamily
      <3>1. Issuing(h, f)
        BY <2>2, <1>2 DEF Issuing
      <3>2. QED
        BY <3>1 DEF OneHeadPerFamily, SettledFamilyIsDead
    <2>3. QED
      BY <2>1, <2>2
  <1>15. /\ \A s \in Token : Live(s)' => IF s = t THEN refresh'[s].family = f
                                         ELSE Live(s) /\ refresh'[s].family = refresh[s].family
         /\ \A i \in Handler, g \in Family : Issuing(i, g)' => i # h /\ Issuing(i, g)
    BY <1>3, <1>5 DEF Live, Issuing
  <1>16. OneHeadPerFamily'
    BY <1>14, <1>15 DEF OneHeadPerFamily
  <1>17. SettledFamilyIsDead'
    BY <1>2, <1>14, <1>15 DEF SettledFamilyIsDead, TypeOK
  <1>18. SettledIsKnown'
    BY <1>2, <1>3 DEF SettledIsKnown
  <1>19. QED
    BY <1>1, <1>8, <1>9, <1>10, <1>11, <1>13, <1>16, <1>17, <1>18

\* RotationInv is inductive.
LEMMA RotationInvStep ==
    ASSUME RotationInv, [Next]_vars
    PROVE  RotationInv'
  <1> USE ConstantsAssumption
  <1>1. TypeOK /\ InFlight /\ TypeOK'
    BY TypeStep DEF RotationInv
  \* The steps that leave the table, the parents and the histories alone, and
  \* start no rotation.
  <1>2. ASSUME UNCHANGED <<refresh, parent, settled>>, NoNewRotation
        PROVE  RotationInv'
    <2>1. OnlySpends
      BY <1>1, <1>2 DEF OnlySpends, TypeOK
    <2>2. QED
      BY <1>1, <1>2, <2>1, SpendingStep DEF RotationInv
  <1>3. ASSUME NEW h \in Handler, NEW t \in Token, DetectReuse(h, t)
        PROVE  RotationInv'
    <2>1. NoNewRotation
      BY <1>1, <1>3 DEF DetectReuse, RefreshStatus, NoNewRotation, InFlight, TypeOK
    <2>2. QED
      BY <1>2, <1>3, <2>1 DEF DetectReuse
  <1>4. ASSUME NEW h \in Handler, IssueFails(h) \/ RevokeFamilyFails(h)
        PROVE  RotationInv'
    <2>1. NoNewRotation
      BY <1>1, <1>4 DEF IssueFails, RevokeFamilyFails, Respond, NoNewRotation, InFlight, TypeOK
    <2>2. QED
      BY <1>2, <1>4, <2>1 DEF IssueFails, RevokeFamilyFails
  <1>5. ASSUME NEW t \in Token, Revoke(t)
        PROVE  RotationInv'
    <2>1. OnlySpends
      BY <1>1, <1>5, RevokeTokenSpends DEF Revoke
    <2>2. NoNewRotation
      BY <1>1, <1>5 DEF Revoke, handlerVars, NoNewRotation, InFlight
    <2>3. QED
      BY <1>1, <1>5, <2>1, <2>2, SpendingStep DEF Revoke, RotationInv
  <1>6. CASE Crash
    BY <1>2, <1>6 DEF Crash, NoNewRotation
  <1>7. CASE Tick \/ UNCHANGED vars
    <2>1. NoNewRotation
      BY <1>1, <1>7 DEF Tick, vars, handlerVars, NoNewRotation, InFlight
    <2>2. QED
      BY <1>2, <1>7, <2>1 DEF Tick, vars
  <1>8. QED
    BY <1>3, <1>4, <1>5, <1>6, <1>7, RedeemStep, ConsumeStep, RevokeFamilyStep, SaveStep
    DEF Next, HandlerStep

\* The server starts with no request in flight and only legacy rows, if any.
LEMMA RotationInvInit == Init => RotationInv
  <1> USE ConstantsAssumption
  <1> SUFFICES ASSUME Init
               PROVE  RotationInv
    OBVIOUS
  <1>1. PICK L \in SUBSET LegacyToken : \E g \in [L -> Grant] :
          refresh = [t \in Token |-> IF t \in L THEN LegacyRow(g[t]) ELSE NoRow]
    BY DEF Init
  <1>2. PICK g \in [L -> Grant] :
          refresh = [t \in Token |-> IF t \in L THEN LegacyRow(g[t]) ELSE NoRow]
    BY <1>1
  <1>3. \A t \in L : LegacyRow(g[t]) \in RefreshRow /\ LegacyRow(g[t]).family = NoFamily
    BY DEF LegacyRow, RefreshRow
  <1>4. \A t \in Token : refresh[t] # NoRow => refresh[t].family = NoFamily
    BY <1>2, <1>3
  <1>5. TypeOK
    BY <1>2, <1>3 DEF Init, TypeOK
  <1>6. InFlight /\ ParentIsUsed /\ SettledIsKnown
    BY DEF Init, InFlight, ParentIsUsed, SettledIsKnown
  <1>7. RotatedAtMostOnce /\ RotationPreservesGrant /\ FamilyHasOneGrant
    BY <1>4 DEF Init, RotatedAtMostOnce, RotationPreservesGrant, FamilyHasOneGrant
  <1>8. OneHeadPerFamily /\ SettledFamilyIsDead
    BY <1>4 DEF Init, OneHeadPerFamily, SettledFamilyIsDead, Live, Issuing
  <1>9. QED
    BY <1>5, <1>6, <1>7, <1>8 DEF RotationInv

-----------------------------------------------------------------------------
\* The inductive invariant holds in every reachable state.
THEOREM RotationInvariant == Spec => []RotationInv
  <1>1. RotationInv /\ [Next]_vars => RotationInv'
    BY RotationInvStep
  <1>2. QED
    BY <1>1, RotationInvInit, PTL DEF Spec

\* Type correctness of the refresh table and the handlers.
THEOREM TypeCorrect == Spec => []TypeOK
  <1>1. RotationInv => TypeOK
    BY DEF RotationInv
  <1>2. QED
    BY <1>1, RotationInvariant, PTL

\* However many requests race, refreshTokenToken gives a refresh token at most
\* one successor, and the successor conveys exactly what its parent did.
THEOREM RotationIsSafe == Spec => [](RotatedAtMostOnce /\ RotationPreservesGrant)
  <1>1. RotationInv => RotatedAtMostOnce /\ RotationPreservesGrant
    BY DEF RotationInv
  <1>2. QED
    BY <1>1, RotationInvariant, PTL

\* A refresh family never has two heads, nor a head while a rotation of it is
\* in flight, and all its tokens convey one grant.
THEOREM FamiliesAreChains == Spec => [](OneHeadPerFamily /\ FamilyHasOneGrant)
  <1>1. RotationInv => OneHeadPerFamily /\ FamilyHasOneGrant
    BY DEF RotationInv
  <1>2. QED
    BY <1>1, RotationInvariant, PTL

\* A family revoked on reuse with no rotation in flight stays dead: the race
\* with an unfinished issueTokens is the only way a family survives its own
\* revocation.
THEOREM SettledRevocationIsFinal == Spec => []SettledFamilyIsDead
  <1>1. RotationInv => SettledFamilyIsDead
    BY DEF RotationInv
  <1>2. QED
    BY <1>1, RotationInvariant, PTL

\* No step, crash and restart included, gives a spent refresh token back its
\* life or moves it to another family or grant.
THEOREM NothingIsUnspent == Spec => SpentStaysSpent
  <1> DEFINE Kept == \A t \in Token : refresh[t] # NoRow =>
                        /\ refresh'[t] # NoRow
                        /\ refresh[t].used => refresh'[t].used
                        /\ refresh[t].revoked => refresh'[t].revoked
                        /\ refresh'[t].family = refresh[t].family
                        /\ refresh'[t].grant = refresh[t].grant
  <1>1. ASSUME RotationInv, [Next]_vars
        PROVE  Kept
    <2>1. OnlySpends => Kept
      BY DEF OnlySpends
    <2>2. refresh' = refresh => Kept
      OBVIOUS
    <2>3. TypeOK /\ InFlight
      BY <1>1 DEF RotationInv
    <2>4. ASSUME NEW h \in Handler, NEW t \in Token, NEW c \in Client, ConsumeRefreshToken(h, t, c)
          PROVE  OnlySpends
      BY <2>3, <2>4, MarkUsedSpends DEF ConsumeRefreshToken, RefreshStatus
    <2>5. ASSUME NEW h \in Handler, RevokeFamily(h)
          PROVE  OnlySpends
      BY <2>3, <2>5, RevokeFamilySpends DEF RevokeFamily, InFlight
    <2>6. ASSUME NEW t \in Token, Revoke(t)
          PROVE  OnlySpends
      BY <2>3, <2>6, RevokeTokenSpends DEF Revoke
    <2>7. ASSUME NEW h \in Handler, NEW t \in Token, NEW f \in Family, SaveRefreshToken(h, t, f)
          PROVE  Kept
      <3>1. refresh[t] = NoRow /\ refresh' = [refresh EXCEPT ![t] = Row(f, grant[h])]
        BY <2>7 DEF SaveRefreshToken, FreshToken
      <3>2. \A s \in Token : refresh[s] # NoRow => refresh'[s] = refresh[s]
        BY <3>1, <2>3 DEF TypeOK
      <3>3. QED
        BY <3>2
    <2> HIDE DEF Kept
    <2>8. QED
      BY <1>1, <2>1, <2>2, <2>4, <2>5, <2>6, <2>7
      DEF Next, HandlerStep, RedeemCode, DetectReuse, IssueFails, RevokeFamilyFails, Crash, Tick, vars
  <1>2. RotationInv /\ [Next]_vars => [Kept]_vars
    BY <1>1
  <1>3. QED
    BY <1>2, RotationInvariant, PTL DEF Spec, SpentStaysSpent

\* A step revokes tokens of one family, or a single token.
THEOREM RevocationsStayInFamily == Spec => RevocationStaysInFamily
  <1> DEFINE Revokes(k) == /\ refresh[k] # NoRow /\ ~refresh[k].revoked
                           /\ refresh'[k] # NoRow /\ refresh'[k].revoked
             Together == \A s, t \in Token : s # t /\ Revokes(s) /\ Revokes(t)
                           => refresh[s].family = refresh[t].family /\ refresh[s].family # NoFamily
  <1>1. ASSUME RotationInv, [Next]_vars
        PROVE  Together
    <2>1. TypeOK /\ InFlight
      BY <1>1 DEF RotationInv
    <2>2. (\A s \in Token : ~Revokes(s)) => Together
      OBVIOUS
    <2>3. \A s \in Token : refresh'[s] = refresh[s] => ~Revokes(s)
      OBVIOUS
    <2>4. ASSUME NEW h \in Handler, NEW t \in Token, NEW c \in Client, ConsumeRefreshToken(h, t, c)
          PROVE  \A s \in Token : ~Revokes(s)
      BY <2>1, <2>4, MarkUsedSpends DEF ConsumeRefreshToken, RefreshStatus
    <2>5. ASSUME NEW h \in Handler, RevokeFamily(h)
          PROVE  Together
      <3>1. old[h] \in Token /\ refresh[old[h]] # NoRow /\ refresh' = RevokeRefreshFamily(refresh, old[h])
        BY <2>1, <2>5 DEF RevokeFamily, InFlight
      <3>2. \A s \in Token : refresh'[s] # refresh[s] =>
              \/ s = old[h]
              \/ refresh[s].family = refresh[old[h]].family /\ refresh[old[h]].family # NoFamily
        BY <2>1, <3>1, RevokeFamilySpends
      <3>3. QED
        BY <2>3, <3>2
    <2>6. ASSUME NEW t \in Token, Revoke(t)
          PROVE  Together
      <3>1. \A s \in Token : s # t => refresh'[s] = refresh[s]
        BY <2>1, <2>6, RevokeTokenSpends DEF Revoke
      <3>2. QED
        BY <2>3, <3>1
    <2>7. ASSUME NEW h \in Handler, NEW t \in Token, NEW f \in Family, SaveRefreshToken(h, t, f)
          PROVE  \A s \in Token : ~Revokes(s)
      <3>1. refresh[t] = NoRow /\ refresh' = [refresh EXCEPT ![t] = Row(f, grant[h])]
        BY <2>7 DEF SaveRefreshToken, FreshToken
      <3>2. QED
        BY <2>1, <3>1 DEF TypeOK
    <2>8. UNCHANGED refresh => Together
      OBVIOUS
    <2> HIDE DEF Together, Revokes
    <2>9. QED
      BY <1>1, <2>2, <2>4, <2>5, <2>6, <2>7, <2>8
      DEF Next, HandlerStep, RedeemCode, DetectReuse, IssueFails, RevokeFamilyFails, Crash, Tick, vars
  <1>2. RotationInv /\ [Next]_vars => [Together]_vars
    BY <1>1
  <1>3. QED
    BY <1>2, RotationInvariant, PTL DEF Spec, RevocationStaysInFamily
=============================================================================
