--------------------- MODULE TokenExchangeClientProofs ---------------------
(***************************************************************************)
(* Proofs about TokenExchangeClient, for every capacity, margin and number *)
(* of callers and requests, and requests of any duration: the token caches *)
(* of the SDKs hand out tokens of the very request, live ones as far as    *)
(* the margin covers the delay of their answers, and are LRU caches.       *)
(***************************************************************************)
EXTENDS TokenExchangeClient, SequenceTheorems, TLAPS

\* A token is cached under the key of its request, and its expiry as the client
\* counts it is late by what the answer was underway at most.
TokensAreTimely ==
    \A k \in CacheKey : values[k] # NoRow =>
        /\ values[k] \in Token
        /\ k = exchangeCacheKey(values[k].for)
        /\ values[k].told => values[k].expires <= values[k].until + values[k].late

\* The token of an answer lives at least as long as the answer says, counted from
\* when it was written.
CallsAreTimely ==
    \A c \in Caller : call[c] # NoRow =>
        /\ call[c] \in Call
        /\ call[c].answer # NoRow =>
             /\ call[c].answer.written <= now
             /\ call[c].answer.written + call[c].answer.expiresIn * Second <= call[c].answer.until

ClientTypes ==
    /\ sdk \in SDKs
    /\ values \in [CacheKey -> Token \cup {NoRow}]
    /\ order \in Seq(CacheKey)
    /\ now \in Nat
    /\ call \in [Caller -> Call \cup {NoRow}]

\* What is in a list, without the positions, and that it is there once.
Elements(s) == {s[i] : i \in 1 .. Len(s)}
Distinct(s) == \A i, j \in 1 .. Len(s) : s[i] = s[j] => i = j

\* The keys of the map.
Cached == {k \in CacheKey : values[k] # NoRow}

ClientInv ==
    /\ ClientTypes
    /\ TokensAreTimely
    /\ CallsAreTimely
    /\ Distinct(order) /\ Elements(order) = Cached
    /\ Len(order) <= MaxEntries

-----------------------------------------------------------------------------
\* Requests with the same key are the same.
LEMMA KeysAreInjective ==
    ASSUME NEW r \in Request, NEW s \in Request, exchangeCacheKey(r) = exchangeCacheKey(s)
    PROVE  r = s
<1>1. /\ r = [subject |-> r.subject, audience |-> r.audience, scopes |-> r.scopes]
      /\ s = [subject |-> s.subject, audience |-> s.audience, scopes |-> s.scopes]
  BY ClientAssumption
<1>2. r.subject = s.subject /\ r.audience = s.audience /\ r.scopes = s.scopes
  BY DEF exchangeCacheKey
<1> QED
  BY <1>1, <1>2

\* Rounding down never lengthens a lifetime.
LEMMA RoundedDown ==
    ASSUME NEW l \in Nat
    PROVE  expiresIn(l) \in Nat /\ expiresIn(l) * Second <= l
<1>1. Second \in Nat \ {0}
  BY ClientAssumption
<1> QED
  BY <1>1, Z3 DEF expiresIn

-----------------------------------------------------------------------------
\* Taking an element out of a list.
LEMMA RemoveAtProps ==
    ASSUME NEW S, NEW s \in Seq(S), NEW i \in 1 .. Len(s)
    PROVE  /\ RemoveAt(s, i) \in Seq(S)
           /\ Len(RemoveAt(s, i)) = Len(s) - 1
           /\ \A j \in 1 .. Len(s) - 1 : RemoveAt(s, i)[j] = IF j < i THEN s[j] ELSE s[j + 1]
<1> DEFINE a == SubSeq(s, 1, i - 1)
           b == SubSeq(s, i + 1, Len(s))
<1>1. /\ a \in Seq(S) /\ Len(a) = i - 1
      /\ \A j \in 1 .. i - 1 : a[j] = s[j]
  BY SubSeqProperties
<1>2. /\ b \in Seq(S) /\ Len(b) = Len(s) - i
      /\ \A j \in 1 .. Len(s) - i : b[j] = s[i + j]
  BY SubSeqProperties
<1> HIDE DEF a, b
<1>3. /\ a \o b \in Seq(S)
      /\ Len(a \o b) = Len(s) - 1
      /\ \A j \in 1 .. Len(a) + Len(b) : (a \o b)[j] = IF j <= Len(a) THEN a[j] ELSE b[j - Len(a)]
  <2>1. a \in Seq(S) /\ b \in Seq(S)
    BY <1>1, <1>2
  <2>2. /\ a \o b \in Seq(S)
        /\ Len(a \o b) = Len(a) + Len(b)
        /\ \A j \in 1 .. Len(a) + Len(b) : (a \o b)[j] = IF j <= Len(a) THEN a[j] ELSE b[j - Len(a)]
    BY <2>1, ConcatProperties
  <2> QED
    BY <1>1, <1>2, <2>2
<1>4. ASSUME NEW j \in 1 .. Len(s) - 1
      PROVE  (a \o b)[j] = IF j < i THEN s[j] ELSE s[j + 1]
  BY <1>1, <1>2, <1>3
<1> QED
  BY <1>3, <1>4 DEF RemoveAt, a, b

LEMMA WithoutIsRemoveAt ==
    ASSUME NEW S, NEW s \in Seq(S), NEW i \in 1 .. Len(s),
           \A j \in 1 .. Len(s) : s[j] = s[i] => j = i
    PROVE  Without(s, s[i]) = RemoveAt(s, i)
<1>1. {j \in 1 .. Len(s) : s[j] = s[i]} = {i}
  OBVIOUS
<1>2. Min({i}) = i
  BY DEF Min
<1> QED
  BY <1>1, <1>2 DEF Without, RemoveFirst, SelectInSeq

LEMMA WithoutIsSame ==
    ASSUME NEW S, NEW s \in Seq(S), NEW k, \A j \in 1 .. Len(s) : s[j] # k
    PROVE  Without(s, k) = s
BY DEF Without, RemoveFirst

\* The list with the element of k in front: it was at position i, or is new.
LEMMA FrontProps ==
    ASSUME NEW S, NEW t \in Seq(S), NEW k \in S
    PROVE  /\ <<k>> \o t \in Seq(S)
           /\ Len(<<k>> \o t) = Len(t) + 1
           /\ \A j \in 1 .. Len(t) + 1 : (<<k>> \o t)[j] = IF j = 1 THEN k ELSE t[j - 1]
<1>1. <<k>> \in Seq(S) /\ Len(<<k>>) = 1 /\ <<k>>[1] = k
  OBVIOUS
<1>2. /\ <<k>> \o t \in Seq(S)
      /\ Len(<<k>> \o t) = Len(<<k>>) + Len(t)
      /\ \A j \in 1 .. Len(<<k>>) + Len(t) :
             (<<k>> \o t)[j] = IF j <= Len(<<k>>) THEN <<k>>[j] ELSE t[j - Len(<<k>>)]
  BY <1>1, ConcatProperties
<1>3. Len(t) \in Nat
  OBVIOUS
<1>4. ASSUME NEW j \in 1 .. Len(t) + 1
      PROVE  (<<k>> \o t)[j] = IF j = 1 THEN k ELSE t[j - 1]
  BY <1>1, <1>2, <1>3, <1>4
<1> QED
  BY <1>1, <1>2, <1>3, <1>4

LEMMA WithoutElements ==
    ASSUME NEW s \in Seq(CacheKey), Distinct(s), NEW k \in CacheKey
    PROVE  /\ Without(s, k) \in Seq(CacheKey)
           /\ Distinct(Without(s, k))
           /\ Elements(Without(s, k)) = Elements(s) \ {k}
           /\ Len(Without(s, k)) <= Len(s)
<1>0. Len(s) \in Nat
  OBVIOUS
<1>1. CASE \E i \in 1 .. Len(s) : s[i] = k
  <2>1. PICK i \in 1 .. Len(s) : s[i] = k
    BY <1>1
  <2>2. \A j \in 1 .. Len(s) : s[j] = s[i] => j = i
    BY DEF Distinct
  <2> DEFINE t == RemoveAt(s, i)
  <2>3. Without(s, k) = t
    BY <2>1, <2>2, WithoutIsRemoveAt
  <2>4. /\ t \in Seq(CacheKey) /\ Len(t) = Len(s) - 1
        /\ \A j \in 1 .. Len(s) - 1 : t[j] = IF j < i THEN s[j] ELSE s[j + 1]
    BY RemoveAtProps
  <2> HIDE DEF t
  <2>5. Distinct(t)
    BY <1>0, <2>4 DEF Distinct
  <2>6. ASSUME NEW x \in Elements(t) PROVE x \in Elements(s) \ {k}
    <3>1. PICK j \in 1 .. Len(s) - 1 : x = t[j]
      BY <2>4 DEF Elements
    <3>2. PICK l \in 1 .. Len(s) : x = s[l] /\ l # i
      BY <1>0, <2>4, <3>1
    <3> QED
      BY <2>1, <2>2, <3>2 DEF Elements
  <2>7. ASSUME NEW x \in Elements(s), x # k PROVE x \in Elements(t)
    <3>1. PICK l \in 1 .. Len(s) : x = s[l]
      BY DEF Elements
    <3>2. l # i
      BY <2>1, <2>7, <3>1
    <3>3. CASE l < i
      <4>1. l \in 1 .. Len(s) - 1 /\ t[l] = x
        BY <1>0, <2>4, <3>1, <3>3
      <4> QED
        BY <2>4, <4>1 DEF Elements
    <3>4. CASE ~(l < i)
      <4>1. l - 1 \in 1 .. Len(s) - 1 /\ ~(l - 1 < i) /\ (l - 1) + 1 = l
        BY <1>0, <3>2, <3>4
      <4>2. t[l - 1] = x
        BY <2>4, <3>1, <4>1
      <4> QED
        BY <2>4, <4>1, <4>2 DEF Elements
    <3> QED
      BY <3>3, <3>4
  <2> QED
    BY <1>0, <2>3, <2>4, <2>5, <2>6, <2>7
<1>2. CASE \A i \in 1 .. Len(s) : s[i] # k
  <2>1. Without(s, k) = s
    BY <1>2, WithoutIsSame
  <2> QED
    BY <1>0, <1>2, <2>1 DEF Elements
<1> QED
  BY <1>1, <1>2

LEMMA FrontElements ==
    ASSUME NEW s \in Seq(CacheKey), Distinct(s), NEW k \in CacheKey
    PROVE  LET front == <<k>> \o Without(s, k)
           IN  /\ front \in Seq(CacheKey)
               /\ Distinct(front)
               /\ Elements(front) = Elements(s) \cup {k}
               /\ front[1] = k
               /\ Len(front) <= Len(s) + 1
               /\ k \in Elements(s) => Len(front) = Len(s)
<1> DEFINE t == Without(s, k)
           front == <<k>> \o t
<1>1. /\ t \in Seq(CacheKey) /\ Distinct(t) /\ Elements(t) = Elements(s) \ {k}
      /\ Len(t) <= Len(s) /\ Len(t) \in Nat /\ Len(s) \in Nat
  BY WithoutElements
<1>2. k \in Elements(s) => Len(t) = Len(s) - 1
  <2> SUFFICES ASSUME k \in Elements(s) PROVE Len(t) = Len(s) - 1
    OBVIOUS
  <2>1. PICK i \in 1 .. Len(s) : s[i] = k
    BY DEF Elements
  <2>2. t = RemoveAt(s, i)
    BY <2>1, WithoutIsRemoveAt DEF Distinct
  <2> QED
    BY <2>2, RemoveAtProps
<1> HIDE DEF t
<1>3. /\ front \in Seq(CacheKey) /\ Len(front) = Len(t) + 1
      /\ \A j \in 1 .. Len(t) + 1 : front[j] = IF j = 1 THEN k ELSE t[j - 1]
  BY <1>1, FrontProps
<1> HIDE DEF front
<1>4. \A j \in 1 .. Len(t) : t[j] # k
  BY <1>1 DEF Elements
<1>5. Distinct(front)
  <2> SUFFICES ASSUME NEW i \in 1 .. Len(front), NEW j \in 1 .. Len(front), front[i] = front[j]
               PROVE  i = j
    BY DEF Distinct
  <2>1. i = 1 \/ i - 1 \in 1 .. Len(t)
    BY <1>1, <1>3
  <2>2. j = 1 \/ j - 1 \in 1 .. Len(t)
    BY <1>1, <1>3
  <2>3. CASE i = 1 \/ j = 1
    BY <1>1, <1>3, <1>4, <2>1, <2>2, <2>3
  <2>4. CASE i # 1 /\ j # 1
    <3>1. t[i - 1] = t[j - 1]
      BY <1>1, <1>3, <2>4
    <3>2. i - 1 = j - 1
      BY <1>1, <2>1, <2>2, <2>4, <3>1 DEF Distinct
    <3> QED
      BY <1>1, <1>3, <3>2
  <2> QED
    BY <2>3, <2>4
<1>6. Elements(front) = Elements(t) \cup {k}
  <2>1. ASSUME NEW x \in Elements(front) PROVE x \in Elements(t) \cup {k}
    <3>1. PICK j \in 1 .. Len(t) + 1 : x = front[j]
      BY <1>3 DEF Elements
    <3>2. j = 1 \/ j - 1 \in 1 .. Len(t)
      BY <1>1
    <3> QED
      BY <1>3, <3>1, <3>2 DEF Elements
  <2>2. k \in Elements(front)
    BY <1>1, <1>3 DEF Elements
  <2>3. ASSUME NEW x \in Elements(t) PROVE x \in Elements(front)
    <3>1. PICK j \in 1 .. Len(t) : x = t[j]
      BY DEF Elements
    <3>2. j + 1 \in 1 .. Len(t) + 1 /\ j + 1 # 1 /\ (j + 1) - 1 = j
      BY <1>1
    <3>3. front[j + 1] = x
      BY <1>3, <3>1, <3>2
    <3> QED
      BY <1>3, <3>2, <3>3 DEF Elements
  <2> QED
    BY <2>1, <2>2, <2>3
<1>7. front[1] = k
  BY <1>1, <1>3
<1> QED
  BY <1>1, <1>2, <1>3, <1>5, <1>6, <1>7 DEF front, t

\* The list once its last element is cut off.
LEMMA CutElements ==
    ASSUME NEW s \in Seq(CacheKey), Distinct(s), Len(s) > 0
    PROVE  LET cut == SubSeq(s, 1, Len(s) - 1)
           IN  /\ cut \in Seq(CacheKey)
               /\ Distinct(cut)
               /\ Elements(cut) = Elements(s) \ {s[Len(s)]}
               /\ Len(cut) = Len(s) - 1
               /\ \A j \in 1 .. Len(s) - 1 : cut[j] = s[j]
<1> DEFINE cut == SubSeq(s, 1, Len(s) - 1)
<1>0. Len(s) \in Nat
  OBVIOUS
<1>1. /\ cut \in Seq(CacheKey) /\ Len(cut) = Len(s) - 1
      /\ \A j \in 1 .. Len(s) - 1 : cut[j] = s[j]
  <2>1. PICK n \in Nat : n = Len(s) - 1
    BY <1>0
  <2>2. \A j \in 1 .. n : s[j] \in CacheKey
    BY <1>0, <2>1
  <2>3. /\ SubSeq(s, 1, n) \in Seq(CacheKey)
        /\ Len(SubSeq(s, 1, n)) = IF 1 <= n THEN n - 1 + 1 ELSE 0
        /\ \A j \in 1 .. n - 1 + 1 : SubSeq(s, 1, n)[j] = s[1 + j - 1]
    BY <2>2, SubSeqProperties
  <2>4. Len(SubSeq(s, 1, n)) = n /\ \A j \in 1 .. n : SubSeq(s, 1, n)[j] = s[j]
    BY <2>3
  <2> QED
    BY <2>1, <2>3, <2>4
<1> HIDE DEF cut
<1>2. Distinct(cut)
  BY <1>0, <1>1 DEF Distinct
<1>3. ASSUME NEW x \in Elements(cut) PROVE x \in Elements(s) /\ x # s[Len(s)]
  <2>1. PICK j \in 1 .. Len(s) - 1 : x = s[j]
    BY <1>1 DEF Elements
  <2>2. j \in 1 .. Len(s) /\ Len(s) \in 1 .. Len(s) /\ j # Len(s)
    BY <1>0
  <2> QED
    BY <2>1, <2>2 DEF Elements, Distinct
<1>4. ASSUME NEW x \in Elements(s), x # s[Len(s)] PROVE x \in Elements(cut)
  <2>1. PICK j \in 1 .. Len(s) : x = s[j]
    BY DEF Elements
  <2>2. j \in 1 .. Len(s) - 1
    BY <1>0, <1>4, <2>1
  <2> QED
    BY <1>1, <2>1, <2>2 DEF Elements
<1> QED
  BY <1>1, <1>2, <1>3, <1>4 DEF cut

-----------------------------------------------------------------------------
\* The steps, one conjunct of the invariant after the other.
LEMMA ClientInvInit == Init => ClientInv
<1> SUFFICES ASSUME Init PROVE ClientInv
  OBVIOUS
<1>1. Len(order) = 0 /\ order \in Seq(CacheKey)
  BY DEF Init
<1>2. Distinct(order) /\ Elements(order) = Cached
  BY <1>1 DEF Init, Distinct, Elements, Cached
<1> QED
  BY <1>1, <1>2, ClientAssumption DEF Init, ClientInv, ClientTypes, TokensAreTimely, CallsAreTimely

LEMMA KeyOfRequest == \A r \in Request : exchangeCacheKey(r) \in CacheKey
BY DEF CacheKey

\* A call that begins is a call.
LEMMA NewCall ==
    ASSUME ClientInv, NEW c \in Caller, NEW r \in Request,
           call' = [call EXCEPT ![c] = [request |-> r, answer |-> NoRow]],
           UNCHANGED now
    PROVE  call' \in [Caller -> Call \cup {NoRow}] /\ CallsAreTimely'
<1> DEFINE new == [request |-> r, answer |-> NoRow]
<1>1. new \in Call /\ new.answer = NoRow
  BY DEF Call
<1> HIDE DEF new
<1>2. call' = [call EXCEPT ![c] = new]
  BY DEF new
<1>3. call' \in [Caller -> Call \cup {NoRow}]
  BY <1>1, <1>2 DEF ClientInv, ClientTypes
<1>4. CallsAreTimely'
  BY <1>1, <1>2 DEF CallsAreTimely, ClientInv, ClientTypes
<1> QED
  BY <1>3, <1>4

\* A call that ends leaves the others alone.
LEMMA EndCall ==
    ASSUME ClientInv, NEW c \in Caller, call' = [call EXCEPT ![c] = NoRow], UNCHANGED now
    PROVE  call' \in [Caller -> Call \cup {NoRow}] /\ CallsAreTimely'
BY DEF CallsAreTimely, ClientInv, ClientTypes

\* The map and its list after a hit, a miss and a store.
LEMMA HitKeeps ==
    ASSUME ClientInv, NEW c \in Caller, NEW r \in Request, CacheHit(c, r)
    PROVE  ClientInv'
<1> DEFINE k == exchangeCacheKey(r)
<1>1. /\ k \in CacheKey /\ values[k] # NoRow /\ order' = <<k>> \o Without(order, k)
      /\ UNCHANGED <<sdk, values, now, call>>
  BY KeyOfRequest DEF CacheHit
<1> HIDE DEF k
<1>2. order \in Seq(CacheKey) /\ Distinct(order) /\ Elements(order) = Cached
  BY DEF ClientInv, ClientTypes
<1>3. k \in Elements(order)
  BY <1>1, <1>2 DEF Cached
<1>4. /\ order' \in Seq(CacheKey) /\ Distinct(order') /\ Elements(order') = Elements(order) \cup {k}
      /\ Len(order') = Len(order)
  BY <1>1, <1>2, <1>3, FrontElements
<1>5. Elements(order)' = Cached'
  BY <1>1, <1>2, <1>3, <1>4 DEF Cached, Elements
<1>6. Distinct(order)'
  BY <1>4 DEF Distinct
<1> QED
  BY <1>1, <1>4, <1>5, <1>6 DEF ClientInv, ClientTypes, TokensAreTimely, CallsAreTimely

LEMMA MissKeeps ==
    ASSUME ClientInv, NEW c \in Caller, NEW r \in Request, CacheMiss(c, r)
    PROVE  ClientInv'
<1> DEFINE k == exchangeCacheKey(r)
<1>1. /\ k \in CacheKey
      /\ values' = [values EXCEPT ![k] = NoRow] /\ order' = Without(order, k)
      /\ UNCHANGED <<sdk, now>>
  BY KeyOfRequest DEF CacheMiss
<1>2. call' \in [Caller -> Call \cup {NoRow}] /\ CallsAreTimely'
  BY NewCall DEF CacheMiss
<1> HIDE DEF k
<1>3. /\ order \in Seq(CacheKey) /\ Distinct(order) /\ Elements(order) = Cached
      /\ Len(order) <= MaxEntries
  BY DEF ClientInv, ClientTypes
<1>4. /\ order' \in Seq(CacheKey) /\ Distinct(order') /\ Elements(order') = Elements(order) \ {k}
      /\ Len(order') <= Len(order)
  BY <1>1, <1>3, WithoutElements
<1>5. \A j \in CacheKey : values'[j] = IF j = k THEN NoRow ELSE values[j]
  BY <1>1 DEF ClientInv, ClientTypes
<1>6. Elements(order)' = Cached'
  BY <1>3, <1>4, <1>5 DEF Cached, Elements
<1>7. Distinct(order)'
  BY <1>4 DEF Distinct
<1>8. TokensAreTimely'
  BY <1>5 DEF ClientInv, TokensAreTimely
<1>9. values' \in [CacheKey -> Token \cup {NoRow}]
  BY <1>1 DEF ClientInv, ClientTypes
<1>10. Len(order') <= MaxEntries
  <2>1. Len(order) \in Nat /\ Len(order') \in Nat /\ MaxEntries \in Nat
    BY <1>3, <1>4, ClientAssumption
  <2> QED
    BY <1>3, <1>4, <2>1
<1> QED
  BY <1>1, <1>2, <1>4, <1>6, <1>7, <1>8, <1>9, <1>10 DEF ClientInv, ClientTypes

LEMMA PutKeeps ==
    ASSUME ClientInv, NEW k \in CacheKey, NEW token \in Token,
           k = exchangeCacheKey(token.for),
           token.told => token.expires <= token.until + token.late,
           Put(k, token)
    PROVE  /\ values' \in [CacheKey -> Token \cup {NoRow}] /\ order' \in Seq(CacheKey)
           /\ TokensAreTimely'
           /\ Distinct(order)' /\ Elements(order)' = Cached'
           /\ Len(order') <= MaxEntries
<1> DEFINE front == <<k>> \o Without(order, k)
<1>1. /\ order \in Seq(CacheKey) /\ Distinct(order) /\ Elements(order) = Cached
      /\ Len(order) <= MaxEntries /\ Len(order) \in Nat /\ MaxEntries \in Nat \ {0}
      /\ values \in [CacheKey -> Token \cup {NoRow}]
  BY ClientAssumption DEF ClientInv, ClientTypes
<1>2. /\ front \in Seq(CacheKey) /\ Distinct(front) /\ Elements(front) = Elements(order) \cup {k}
      /\ front[1] = k /\ Len(front) <= Len(order) + 1 /\ Len(front) \in Nat
  BY <1>1, FrontElements
<1>3. token # NoRow
  BY NoRowAssumption
<1>4. \/ /\ Len(front) <= MaxEntries
         /\ values' = [values EXCEPT ![k] = token] /\ order' = front
      \/ /\ ~(Len(front) <= MaxEntries)
         /\ values' = [values EXCEPT ![k] = token, ![front[Len(front)]] = NoRow]
         /\ order' = SubSeq(front, 1, Len(front) - 1)
  BY DEF Put
<1> HIDE DEF front
<1>5. CASE /\ Len(front) <= MaxEntries
           /\ values' = [values EXCEPT ![k] = token] /\ order' = front
  <2>1. \A j \in CacheKey : values'[j] = IF j = k THEN token ELSE values[j]
    BY <1>1, <1>5
  <2>2. TokensAreTimely'
    BY <2>1 DEF ClientInv, TokensAreTimely
  <2>3. Elements(order)' = Cached'
    <3>1. Elements(front) = {j \in CacheKey : values'[j] # NoRow}
      BY <1>1, <1>2, <1>3, <2>1 DEF Cached
    <3> QED
      BY <1>5, <3>1 DEF Cached, Elements
  <2>4. Distinct(order)'
    BY <1>2, <1>5 DEF Distinct
  <2> QED
    BY <1>1, <1>2, <1>5, <2>2, <2>3, <2>4
<1>6. CASE /\ ~(Len(front) <= MaxEntries)
           /\ values' = [values EXCEPT ![k] = token, ![front[Len(front)]] = NoRow]
           /\ order' = SubSeq(front, 1, Len(front) - 1)
  <2> DEFINE last == front[Len(front)]
  <2>1. Len(front) = MaxEntries + 1 /\ Len(front) > 1
    BY <1>1, <1>2, <1>6
  <2>2. last # k /\ last \in CacheKey
    <3>1. 1 \in 1 .. Len(front) /\ Len(front) \in 1 .. Len(front) /\ Len(front) # 1
      BY <1>2, <2>1
    <3>2. front[Len(front)] # front[1]
      BY <1>2, <3>1 DEF Distinct
    <3>3. front[Len(front)] \in CacheKey
      BY <1>2, <3>1, ElementOfSeq
    <3> QED
      BY <1>2, <3>2, <3>3
  <2>3. /\ order' \in Seq(CacheKey) /\ Distinct(order') /\ Elements(order') = Elements(front) \ {last}
        /\ Len(order') = Len(front) - 1
    <3>1. order' = SubSeq(front, 1, Len(front) - 1) /\ Len(front) > 0
      BY <1>2, <1>6, <2>1
    <3>2. front \in Seq(CacheKey) /\ Distinct(front)
      BY <1>2
    <3> HIDE DEF last
    <3>3. LET cut == SubSeq(front, 1, Len(front) - 1)
          IN  /\ cut \in Seq(CacheKey) /\ Distinct(cut)
              /\ Elements(cut) = Elements(front) \ {front[Len(front)]}
              /\ Len(cut) = Len(front) - 1
      BY <3>1, <3>2, CutElements
    <3> QED
      BY <3>1, <3>3 DEF last
  <2>4. values' = [values EXCEPT ![k] = token, ![last] = NoRow]
    BY <1>6
  <2> HIDE DEF last
  <2>5. \A j \in CacheKey : values'[j] = IF j = last THEN NoRow ELSE IF j = k THEN token ELSE values[j]
    BY <1>1, <2>4
  <2>6. TokensAreTimely'
    BY <2>5 DEF ClientInv, TokensAreTimely
  <2>7. Elements(order') = {j \in CacheKey : values'[j] # NoRow}
    BY <1>1, <1>2, <1>3, <2>2, <2>3, <2>5 DEF Cached
  <2>8. Elements(order)' = Cached' /\ Distinct(order)'
    BY <2>3, <2>7 DEF Cached, Elements, Distinct
  <2>9. Len(order') <= MaxEntries
    BY <1>1, <2>1, <2>3
  <2>10. values' \in [CacheKey -> Token \cup {NoRow}]
    BY <1>1, <2>4
  <2> QED
    BY <2>3, <2>6, <2>8, <2>9, <2>10
<1> QED
  BY <1>4, <1>5, <1>6

\* What is stored of an answer.
LEMMA ReceivedToken ==
    ASSUME ClientInv, NEW c \in Caller, ReceiveAnswer(c)
    PROVE  \E token \in Token :
               /\ call[c].request \in Request /\ token.for = call[c].request
               /\ token.told => token.expires <= token.until + token.late
               /\ Put(exchangeCacheKey(call[c].request), token)
<1> DEFINE r == call[c].request
           a == call[c].answer
           token == [for |-> r, until |-> a.until, told |-> a.expiresIn > 0,
                     late |-> now - a.written, expires |-> now + lifetimeOf(a.expiresIn)]
<1>1. /\ call[c] \in Call /\ r \in Request /\ a \in Answer
      /\ a.until \in Nat /\ a.expiresIn \in Nat /\ a.written \in Nat
      /\ a.written <= now
      /\ a.written + a.expiresIn * Second <= a.until
  BY DEF ReceiveAnswer, ClientInv, CallsAreTimely, Call, Answer
<1>2. now \in Nat /\ Second \in Nat /\ DefaultLifetime \in Nat
  BY ClientAssumption DEF ClientInv, ClientTypes
<1>3. /\ lifetimeOf(a.expiresIn) \in Nat
      /\ a.expiresIn > 0 => lifetimeOf(a.expiresIn) = a.expiresIn * Second
  BY <1>1, <1>2 DEF lifetimeOf
<1>4. token \in Token
  <2>1. now + lifetimeOf(a.expiresIn) \in Nat /\ now - a.written \in Nat
    BY <1>1, <1>2, <1>3
  <2>2. (a.expiresIn > 0) \in BOOLEAN
    OBVIOUS
  <2> QED
    BY <1>1, <2>1, <2>2 DEF Token
<1>5. a.expiresIn > 0 => now + lifetimeOf(a.expiresIn) <= a.until + (now - a.written)
  <2>1. a.expiresIn * Second \in Nat
    BY <1>1, <1>2
  <2> QED
    BY <1>1, <1>2, <1>3, <2>1
<1>6. token.told => token.expires <= token.until + token.late
  BY <1>5
<1>7. Put(exchangeCacheKey(r), token)
  BY DEF ReceiveAnswer
<1>8. token.for = r
  OBVIOUS
<1> HIDE DEF token
<1> QED
  BY <1>1, <1>4, <1>6, <1>7, <1>8

LEMMA ReceiveKeeps ==
    ASSUME ClientInv, NEW c \in Caller, ReceiveAnswer(c)
    PROVE  ClientInv'
<1>1. PICK token \in Token :
          /\ call[c].request \in Request /\ token.for = call[c].request
          /\ token.told => token.expires <= token.until + token.late
          /\ Put(exchangeCacheKey(call[c].request), token)
  BY ReceivedToken
<1>2. UNCHANGED <<sdk, now>> /\ call' = [call EXCEPT ![c] = NoRow]
  BY DEF ReceiveAnswer
<1>3. /\ values' \in [CacheKey -> Token \cup {NoRow}] /\ order' \in Seq(CacheKey)
      /\ TokensAreTimely'
      /\ Distinct(order)' /\ Elements(order)' = Cached'
      /\ Len(order') <= MaxEntries
  BY <1>1, KeyOfRequest, PutKeeps
<1>4. call' \in [Caller -> Call \cup {NoRow}] /\ CallsAreTimely'
  BY <1>2, EndCall
<1> QED
  BY <1>2, <1>3, <1>4 DEF ClientInv, ClientTypes

LEMMA AnswersKeep ==
    ASSUME ClientInv, NEW c \in Caller, NEW l \in Lifetimes, ServerAnswers(c, l)
    PROVE  ClientInv'
<1> DEFINE a == [written |-> now, until |-> now + l, expiresIn |-> expiresIn(l)]
<1>1. call[c] \in Call
  BY DEF ServerAnswers, ClientInv, CallsAreTimely
<1>2. l \in Nat /\ now \in Nat /\ Second \in Nat
  BY ClientAssumption DEF ClientInv, ClientTypes
<1>3. expiresIn(l) \in Nat /\ expiresIn(l) * Second <= l
  BY <1>2, RoundedDown
<1>4. a \in Answer /\ a.written = now /\ a.until = now + l /\ a.expiresIn = expiresIn(l)
  BY <1>2, <1>3 DEF Answer
<1>5. call' = [call EXCEPT ![c].answer = a] /\ UNCHANGED <<sdk, values, order, now>>
  BY DEF ServerAnswers
<1> HIDE DEF a
<1>6. a.written <= now /\ a.written + a.expiresIn * Second <= a.until
  <2>1. PICK m \in Nat : m = expiresIn(l) * Second
    BY <1>2, <1>3
  <2> QED
    BY <1>2, <1>3, <1>4, <2>1
<1>7. /\ call \in [Caller -> Call \cup {NoRow}]
      /\ call' = [call EXCEPT ![c] = [call[c] EXCEPT !.answer = a]]
  BY <1>5 DEF ClientInv, ClientTypes
<1> DEFINE new == [call[c] EXCEPT !.answer = a]
<1>8. new \in Call /\ new.answer = a
  BY <1>1, <1>4 DEF Call
<1> HIDE DEF new
<1>9. \A d \in Caller : call'[d] = IF d = c THEN new ELSE call[d]
  BY <1>7 DEF new
<1>10. call' \in [Caller -> Call \cup {NoRow}]
  BY <1>7, <1>8 DEF new
<1>11. CallsAreTimely'
  BY <1>1, <1>5, <1>6, <1>8, <1>9 DEF ClientInv, CallsAreTimely
<1> QED
  BY <1>5, <1>10, <1>11 DEF ClientInv, ClientTypes, TokensAreTimely, Cached, Elements, Distinct

LEMMA TickKeepsClient ==
    ASSUME ClientInv, Tick
    PROVE  ClientInv'
<1>1. now \in Nat /\ now' = now + 1 /\ UNCHANGED <<sdk, values, order, call>>
  BY DEF Tick, ClientInv, ClientTypes
<1>2. ASSUME NEW c \in Caller, call[c] # NoRow, call[c].answer # NoRow
      PROVE  call[c].answer.written <= now + 1
  <2>1. call[c].answer.written \in Nat /\ call[c].answer.written <= now
    BY <1>2 DEF ClientInv, CallsAreTimely, Call, Answer
  <2> QED
    BY <1>1, <2>1
<1>3. CallsAreTimely'
  BY <1>1, <1>2 DEF ClientInv, CallsAreTimely
<1> QED
  BY <1>1, <1>3 DEF ClientInv, ClientTypes, TokensAreTimely, Cached, Elements, Distinct

LEMMA ClientInvNext == ClientInv /\ [Next]_vars => ClientInv'
<1> SUFFICES ASSUME ClientInv, [Next]_vars PROVE ClientInv'
  OBVIOUS
<1>1. ASSUME NEW c \in Caller, AnswerRefused(c) \/ RequestFails(c)
      PROVE  ClientInv'
  <2>1. call' = [call EXCEPT ![c] = NoRow] /\ UNCHANGED <<sdk, values, order, now>>
    BY <1>1 DEF AnswerRefused, RequestFails
  <2>2. call' \in [Caller -> Call \cup {NoRow}] /\ CallsAreTimely'
    BY <2>1, EndCall
  <2> QED
    BY <2>1, <2>2 DEF ClientInv, ClientTypes, TokensAreTimely, Cached, Elements, Distinct
<1>2. CASE Restart
  <2>1. order' \in Seq(CacheKey) /\ Len(order') = 0
    BY <1>2 DEF Restart
  <2>2. Distinct(order)' /\ Elements(order)' = Cached'
    BY <1>2, <2>1 DEF Restart, Distinct, Elements, Cached
  <2>3. TokensAreTimely' /\ CallsAreTimely'
    BY <1>2 DEF Restart, TokensAreTimely, CallsAreTimely
  <2>4. /\ values' \in [CacheKey -> Token \cup {NoRow}]
        /\ call' \in [Caller -> Call \cup {NoRow}]
    BY <1>2 DEF Restart
  <2> QED
    BY <1>2, <2>1, <2>2, <2>3, <2>4, ClientAssumption DEF Restart, ClientInv, ClientTypes
<1>3. CASE UNCHANGED vars
  BY <1>3
  DEF vars, ClientInv, ClientTypes, TokensAreTimely, CallsAreTimely, Cached, Elements, Distinct
<1> QED
  BY <1>1, <1>2, <1>3, HitKeeps, MissKeeps, AnswersKeep, ReceiveKeeps, TickKeepsClient DEF Next

LEMMA ClientInvAlways == Spec => []ClientInv
BY ClientInvInit, ClientInvNext, PTL DEF Spec

\* Get and Put keep Go's map and list in step, whatever calls overlap: the list
\* holds every key of the map once, and no more than maxEntries of them.
THEOREM CacheStaysConsistent == Spec => []CacheIsConsistent
<1>1. ClientInv => CacheIsConsistent
  BY DEF ClientInv, ClientTypes, CacheIsConsistent, Distinct, Elements, Cached
<1> QED
  BY <1>1, ClientInvAlways, PTL

\* A hit returns a token of the very request, and what it outlives its issuer's
\* expiry by is less than the delay of its own answer minus the margin: the cache
\* key tells all requests apart and expires_in is rounded down.  (Not of an answer
\* with expires_in 0, for which TypeScript guesses a lifetime.)
THEOREM HitsServeRequests == Spec => []HitServesRequest
<1>1. ClientInv => HitServesRequest
  <2> SUFFICES ASSUME ClientInv, NEW r \in Request,
                      values[exchangeCacheKey(r)] # NoRow,
                      Usable(values[exchangeCacheKey(r)])
               PROVE  /\ values[exchangeCacheKey(r)].for = r
                      /\ values[exchangeCacheKey(r)].told
                             => now + Margin <= values[exchangeCacheKey(r)].until
                                                + values[exchangeCacheKey(r)].late
    BY DEF HitServesRequest
  <2>1. PICK token \in Token : token = values[exchangeCacheKey(r)]
    BY KeyOfRequest DEF ClientInv, TokensAreTimely
  <2>2. /\ token.for \in Request /\ token.until \in Nat /\ token.expires \in Nat /\ token.late \in Nat
        /\ exchangeCacheKey(r) = exchangeCacheKey(token.for)
        /\ token.told => token.expires <= token.until + token.late
    BY <2>1, KeyOfRequest DEF ClientInv, TokensAreTimely, Token
  <2>3. token.for = r
    BY <2>2, KeysAreInjective
  <2>4. now + Margin <= token.expires
    BY <2>1, <2>2, ClientAssumption DEF Usable, ClientInv, ClientTypes
  <2>5. token.told => now + Margin <= token.until + token.late
    BY <2>2, <2>4, ClientAssumption DEF ClientInv, ClientTypes
  <2> QED
    BY <2>1, <2>3, <2>5
<1> QED
  BY <1>1, ClientInvAlways, PTL

\* The token of a hit, told of by an answer that was underway for less than the
\* margin, is one that its issuer still accepts.
HitIsLive ==
    \A r \in Request :
        LET token == values[exchangeCacheKey(r)]
        IN  token # NoRow /\ Usable(token) /\ token.told /\ token.late < Margin => now < token.until

\* So a token from the cache has not expired at its issuer where requests are
\* faster than the margin.
THEOREM PromptHitsAreLive == Spec => []HitIsLive
<1>1. ClientInv /\ HitServesRequest => HitIsLive
  <2> SUFFICES ASSUME ClientInv, HitServesRequest, NEW r \in Request, NEW token,
                      token = values[exchangeCacheKey(r)],
                      token # NoRow, Usable(token), token.told, token.late < Margin
               PROVE  now < token.until
    BY DEF HitIsLive
  <2>1. token.until \in Nat /\ token.late \in Nat /\ now \in Nat /\ Margin \in Nat
    BY KeyOfRequest, ClientAssumption DEF ClientInv, ClientTypes, TokensAreTimely, Token
  <2>2. now + Margin <= token.until + token.late
    BY DEF HitServesRequest
  <2> QED
    BY <2>1, <2>2
<1> QED
  BY <1>1, ClientInvAlways, HitsServeRequests, PTL

-----------------------------------------------------------------------------
\* The refinement of LRUCache.  Its list is that of the keys with their tokens,
\* and taking out, putting in front and cutting off commute with this mapping.
Entry == [key : CacheKey, value : Token]
EntriesOf(s, v) == [i \in 1 .. Len(s) |-> [key |-> s[i], value |-> v[s[i]]]]

\* The tokens of a list of keys are there.
Present(s, v) == s \in Seq(CacheKey) /\ \A i \in 1 .. Len(s) : v[s[i]] \in Token

LEMMA EntriesProps ==
    ASSUME NEW s, NEW v, Present(s, v)
    PROVE  /\ EntriesOf(s, v) \in Seq(Entry)
           /\ Len(EntriesOf(s, v)) = Len(s)
           /\ \A i \in 1 .. Len(s) : EntriesOf(s, v)[i] = [key |-> s[i], value |-> v[s[i]]]
<1> DEFINE e == EntriesOf(s, v)
<1>1. Len(s) \in Nat /\ \A i \in 1 .. Len(s) : s[i] \in CacheKey /\ v[s[i]] \in Token
  BY DEF Present
<1>2. \A i \in 1 .. Len(s) : [key |-> s[i], value |-> v[s[i]]] \in Entry
  BY <1>1 DEF Entry
<1>3. e \in [1 .. Len(s) -> Entry] /\ DOMAIN e = 1 .. Len(s)
  BY <1>2 DEF EntriesOf
<1>4. \A i \in 1 .. Len(s) : e[i] = [key |-> s[i], value |-> v[s[i]]]
  BY DEF EntriesOf
<1> HIDE DEF e
<1>5. e \in Seq(Entry)
  BY <1>1, <1>3, SeqDef
<1>6. Len(e) \in Nat /\ 1 .. Len(e) = 1 .. Len(s)
  BY <1>3, <1>5, LenProperties
<1>7. Len(e) = Len(s)
  BY <1>1, <1>6
<1> QED
  BY <1>4, <1>5, <1>7 DEF e

LEMMA PresentOrder ==
    ASSUME ClientInv
    PROVE  Present(order, values)
BY DEF Present, ClientInv, ClientTypes, Elements, Cached, TokensAreTimely

LEMMA EntriesOfRemoveAt ==
    ASSUME NEW s, NEW v, Present(s, v), NEW i \in 1 .. Len(s)
    PROVE  /\ Present(RemoveAt(s, i), v)
           /\ EntriesOf(RemoveAt(s, i), v) = RemoveAt(EntriesOf(s, v), i)
<1> DEFINE t == RemoveAt(s, i)
           e == EntriesOf(s, v)
           f == RemoveAt(e, i)
<1>1. s \in Seq(CacheKey) /\ Len(s) \in Nat
  BY DEF Present
<1>2. /\ t \in Seq(CacheKey) /\ Len(t) = Len(s) - 1
      /\ \A j \in 1 .. Len(s) - 1 : t[j] = IF j < i THEN s[j] ELSE s[j + 1]
  BY <1>1, RemoveAtProps
<1>3. /\ e \in Seq(Entry) /\ Len(e) = Len(s)
      /\ \A j \in 1 .. Len(s) : e[j] = [key |-> s[j], value |-> v[s[j]]]
  BY EntriesProps
<1> HIDE DEF e, t
<1>4. /\ f \in Seq(Entry) /\ Len(f) = Len(e) - 1
      /\ \A j \in 1 .. Len(e) - 1 : f[j] = IF j < i THEN e[j] ELSE e[j + 1]
  BY <1>3, RemoveAtProps
<1>5. Present(t, v)
  <2>1. \A j \in 1 .. Len(s) - 1 : v[t[j]] \in Token
    BY <1>1, <1>2 DEF Present
  <2> QED
    BY <1>2, <2>1 DEF Present
<1>6. /\ EntriesOf(t, v) \in Seq(Entry) /\ Len(EntriesOf(t, v)) = Len(t)
      /\ \A j \in 1 .. Len(t) : EntriesOf(t, v)[j] = [key |-> t[j], value |-> v[t[j]]]
  BY <1>5, EntriesProps
<1> HIDE DEF f
<1>7. ASSUME NEW j \in 1 .. Len(t)
      PROVE  EntriesOf(t, v)[j] = f[j]
  <2>1. CASE j < i
    <3>1. t[j] = s[j] /\ f[j] = e[j] /\ j \in 1 .. Len(s)
      BY <1>1, <1>2, <1>3, <1>4, <2>1
    <3> QED
      BY <1>3, <1>6, <3>1
  <2>2. CASE ~(j < i)
    <3>1. t[j] = s[j + 1] /\ f[j] = e[j + 1] /\ j + 1 \in 1 .. Len(s)
      BY <1>1, <1>2, <1>3, <1>4, <2>2
    <3> QED
      BY <1>3, <1>6, <3>1
  <2> QED
    BY <2>1, <2>2
<1>8. EntriesOf(t, v) = f
  BY <1>2, <1>3, <1>4, <1>6, <1>7, SeqEqual
<1> QED
  BY <1>5, <1>8 DEF t, e, f

LEMMA EntriesOfFront ==
    ASSUME NEW t, NEW v, Present(t, v), NEW k \in CacheKey, v[k] \in Token
    PROVE  /\ Present(<<k>> \o t, v)
           /\ EntriesOf(<<k>> \o t, v) = <<[key |-> k, value |-> v[k]]>> \o EntriesOf(t, v)
<1> DEFINE s == <<k>> \o t
           x == [key |-> k, value |-> v[k]]
           e == EntriesOf(t, v)
           f == <<x>> \o e
<1>1. t \in Seq(CacheKey) /\ Len(t) \in Nat /\ \A j \in 1 .. Len(t) : v[t[j]] \in Token
  BY DEF Present
<1>2. /\ s \in Seq(CacheKey) /\ Len(s) = Len(t) + 1
      /\ \A j \in 1 .. Len(t) + 1 : s[j] = IF j = 1 THEN k ELSE t[j - 1]
  BY <1>1, FrontProps
<1>3. /\ e \in Seq(Entry) /\ Len(e) = Len(t)
      /\ \A j \in 1 .. Len(t) : e[j] = [key |-> t[j], value |-> v[t[j]]]
  BY EntriesProps
<1>4. x \in Entry
  BY DEF Entry
<1> HIDE DEF s, e, x
<1>5. /\ f \in Seq(Entry) /\ Len(f) = Len(e) + 1
      /\ \A j \in 1 .. Len(e) + 1 : f[j] = IF j = 1 THEN x ELSE e[j - 1]
  BY <1>3, <1>4, FrontProps
<1> HIDE DEF f
<1>6. Present(s, v)
  <2>1. \A j \in 1 .. Len(s) : v[s[j]] \in Token
    <3> SUFFICES ASSUME NEW j \in 1 .. Len(s) PROVE v[s[j]] \in Token
      OBVIOUS
    <3>1. j = 1 \/ j - 1 \in 1 .. Len(t)
      BY <1>1, <1>2
    <3> QED
      BY <1>1, <1>2, <3>1
  <2> QED
    BY <1>2, <2>1 DEF Present
<1>7. /\ EntriesOf(s, v) \in Seq(Entry) /\ Len(EntriesOf(s, v)) = Len(s)
      /\ \A j \in 1 .. Len(s) : EntriesOf(s, v)[j] = [key |-> s[j], value |-> v[s[j]]]
  BY <1>6, EntriesProps
<1>8. ASSUME NEW j \in 1 .. Len(s)
      PROVE  EntriesOf(s, v)[j] = f[j]
  <2>1. CASE j = 1
    BY <1>1, <1>2, <1>3, <1>5, <1>7, <2>1 DEF x
  <2>2. CASE j # 1
    <3>1. j - 1 \in 1 .. Len(t) /\ s[j] = t[j - 1] /\ f[j] = e[j - 1]
      BY <1>1, <1>2, <1>3, <1>5, <2>2
    <3> QED
      BY <1>3, <1>7, <3>1
  <2> QED
    BY <2>1, <2>2
<1>9. EntriesOf(s, v) = f
  BY <1>2, <1>3, <1>5, <1>7, <1>8, SeqEqual
<1> QED
  BY <1>6, <1>9 DEF s, e, f, x

\* Only the tokens of the keys in the list matter.
LEMMA EntriesAgree ==
    ASSUME NEW s, NEW v, NEW w, \A i \in 1 .. Len(s) : v[s[i]] = w[s[i]]
    PROVE  EntriesOf(s, v) = EntriesOf(s, w)
BY DEF EntriesOf

LEMMA SameRemoveAt == \A s, i : LRU!RemoveAt(s, i) = RemoveAt(s, i)
BY DEF LRU!RemoveAt, RemoveAt

LEMMA EntriesAre == Entries = EntriesOf(order, values) /\ Entries' = EntriesOf(order', values')
BY DEF Entries, EntriesOf

\* Where the entry of a key is.
LEMMA PositionsAre ==
    ASSUME ClientInv, NEW k \in CacheKey
    PROVE  /\ \A i \in 1 .. Len(order) : order[i] = k => LRU!Positions(k) = {i}
           /\ (\A i \in 1 .. Len(order) : order[i] # k) => LRU!Positions(k) = {}
<1>1. /\ Len(Entries) = Len(order)
      /\ \A i \in 1 .. Len(order) : Entries[i].key = order[i]
  <2>1. /\ Len(EntriesOf(order, values)) = Len(order)
        /\ \A i \in 1 .. Len(order) :
             EntriesOf(order, values)[i] = [key |-> order[i], value |-> values[order[i]]]
    BY PresentOrder, EntriesProps
  <2>2. Entries = EntriesOf(order, values)
    BY EntriesAre
  <2>3. Len(Entries) = Len(order)
    BY <2>1, <2>2
  <2>4. ASSUME NEW i \in 1 .. Len(order)
        PROVE  Entries[i].key = order[i]
    <3>1. Entries[i] = [key |-> order[i], value |-> values[order[i]]]
      BY <2>1, <2>2
    <3> QED
      BY <3>1
  <2> QED
    BY <2>3, <2>4
<1>2. LRU!Positions(k) = {i \in 1 .. Len(order) : order[i] = k}
  BY <1>1 DEF LRU!Positions
<1> QED
  BY <1>2 DEF ClientInv, Distinct

\* The entries of the other keys are those of the list without k.
LEMMA OthersAre ==
    ASSUME ClientInv, NEW k \in CacheKey
    PROVE  /\ Present(Without(order, k), values)
           /\ LRU!Others(k) = EntriesOf(Without(order, k), values)
<1>0. order \in Seq(CacheKey)
  BY DEF ClientInv, ClientTypes
<1>1. CASE \E i \in 1 .. Len(order) : order[i] = k
  <2>1. PICK i \in 1 .. Len(order) : order[i] = k
    BY <1>1
  <2>2. Without(order, k) = RemoveAt(order, i)
    BY <1>0, <2>1, WithoutIsRemoveAt DEF ClientInv, Distinct
  <2>3. LRU!Positions(k) = {i}
    BY <2>1, PositionsAre
  <2>4. LRU!Others(k) = RemoveAt(Entries, i)
    BY <2>3, SameRemoveAt DEF LRU!Others
  <2> QED
    BY <2>2, <2>4, PresentOrder, EntriesOfRemoveAt, EntriesAre
<1>2. CASE \A i \in 1 .. Len(order) : order[i] # k
  <2>1. Without(order, k) = order
    BY <1>0, <1>2, WithoutIsSame
  <2>2. LRU!Others(k) = Entries
    BY <1>2, PositionsAre, SameRemoveAt DEF LRU!Others
  <2> QED
    BY <2>1, <2>2, PresentOrder, EntriesAre
<1> QED
  BY <1>1, <1>2

LEMMA HitIsUse ==
    ASSUME ClientInv, NEW c \in Caller, NEW r \in Request, CacheHit(c, r)
    PROVE  LRU!Use(exchangeCacheKey(r))
<1> DEFINE k == exchangeCacheKey(r)
<1>1. /\ k \in CacheKey /\ values[k] # NoRow /\ values' = values
      /\ order' = <<k>> \o Without(order, k)
  BY KeyOfRequest DEF CacheHit
<1> HIDE DEF k
<1>2. values[k] \in Token
  BY <1>1 DEF ClientInv, TokensAreTimely
<1>3. PICK i \in 1 .. Len(order) : order[i] = k
  BY <1>1 DEF ClientInv, Elements, Cached
<1>4. LRU!Positions(k) = {i}
  BY <1>1, <1>3, PositionsAre
<1>5. LRU!Others(k) = RemoveAt(Entries, i)
  BY <1>4, SameRemoveAt DEF LRU!Others
<1>6. Entries[i] = [key |-> k, value |-> values[k]]
  BY <1>3, PresentOrder, EntriesProps, EntriesAre
<1>7. Entries' = <<[key |-> k, value |-> values[k]]>> \o EntriesOf(Without(order, k), values)
  BY <1>1, <1>2, OthersAre, EntriesOfFront, EntriesAre
<1>8. Entries' = <<Entries[i]>> \o RemoveAt(Entries, i)
  BY <1>1, <1>5, <1>6, <1>7, OthersAre
<1>9. LRU!Use(k)
  BY <1>4, <1>8, SameRemoveAt DEF LRU!Use
<1> QED
  BY <1>9 DEF k

LEMMA MissIsForget ==
    ASSUME ClientInv, NEW c \in Caller, NEW r \in Request, CacheMiss(c, r)
    PROVE  LRU!Forget(exchangeCacheKey(r)) \/ UNCHANGED Entries
<1> DEFINE k == exchangeCacheKey(r)
<1>1. /\ k \in CacheKey /\ values' = [values EXCEPT ![k] = NoRow]
      /\ order' = Without(order, k)
  BY KeyOfRequest DEF CacheMiss
<1> HIDE DEF k
<1>2. /\ values \in [CacheKey -> Token \cup {NoRow}] /\ order \in Seq(CacheKey)
      /\ Distinct(order) /\ Elements(order) = Cached
  BY DEF ClientInv, ClientTypes
<1>3. CASE values[k] = NoRow
  <2>1. values' = values
    BY <1>1, <1>2, <1>3
  <2>2. \A i \in 1 .. Len(order) : order[i] # k
    BY <1>2, <1>3 DEF Elements, Cached
  <2>3. order' = order
    BY <1>1, <1>2, <2>2, WithoutIsSame
  <2> QED
    BY <2>1, <2>3 DEF Entries
<1>4. CASE values[k] # NoRow
  <2>1. PICK i \in 1 .. Len(order) : order[i] = k
    BY <1>1, <1>2, <1>4 DEF Elements, Cached
  <2>2. LRU!Positions(k) = {i}
    BY <1>1, <2>1, PositionsAre
  <2>3. LRU!Others(k) = RemoveAt(Entries, i)
    BY <2>2, SameRemoveAt DEF LRU!Others
  <2>4. Elements(order') = Elements(order) \ {k} /\ order' \in Seq(CacheKey)
    BY <1>1, <1>2, WithoutElements
  <2>5. \A j \in 1 .. Len(order') : order'[j] # k /\ order'[j] \in CacheKey
    BY <2>4 DEF Elements
  <2>6. \A j \in 1 .. Len(order') : values'[order'[j]] = values[order'[j]]
    BY <1>1, <1>2, <2>5
  <2>7. Entries' = EntriesOf(order', values)
    BY <2>6, EntriesAgree, EntriesAre
  <2>8. Entries' = RemoveAt(Entries, i)
    BY <1>1, <2>3, <2>7, OthersAre
  <2>9. LRU!Forget(k)
    BY <2>2, <2>8, SameRemoveAt DEF LRU!Forget
  <2> QED
    BY <2>9 DEF k
<1> QED
  BY <1>3, <1>4

LEMMA PutIsInsert ==
    ASSUME ClientInv, ClientInv', NEW k \in CacheKey, NEW token \in Token, Put(k, token)
    PROVE  LRU!Insert(k)
<1> DEFINE t == Without(order, k)
           front == <<k>> \o t
           o == EntriesOf(t, values)
<1>1. /\ order \in Seq(CacheKey) /\ Distinct(order) /\ Len(order) <= MaxEntries
      /\ Len(order) \in Nat /\ MaxEntries \in Nat \ {0}
      /\ values \in [CacheKey -> Token \cup {NoRow}]
  BY ClientAssumption DEF ClientInv, ClientTypes
<1>2. /\ t \in Seq(CacheKey) /\ Len(t) \in Nat /\ Len(t) <= Len(order)
      /\ Elements(t) = Elements(order) \ {k}
  BY <1>1, WithoutElements
<1>3. LRU!Others(k) = o /\ o \in Seq(Entry) /\ Len(o) = Len(t)
      /\ \A j \in 1 .. Len(t) : o[j] = [key |-> t[j], value |-> values[t[j]]]
  BY OthersAre, EntriesProps
<1>4. /\ front \in Seq(CacheKey) /\ Len(front) = Len(t) + 1 /\ Distinct(front)
      /\ \A j \in 1 .. Len(t) + 1 : front[j] = IF j = 1 THEN k ELSE t[j - 1]
  <2>1. Distinct(front)
    BY <1>1, FrontElements
  <2> QED
    BY <1>2, <2>1, FrontProps
<1>5. \/ /\ Len(front) <= MaxEntries
         /\ values' = [values EXCEPT ![k] = token] /\ order' = front
      \/ /\ ~(Len(front) <= MaxEntries)
         /\ values' = [values EXCEPT ![k] = token, ![front[Len(front)]] = NoRow]
         /\ order' = SubSeq(front, 1, Len(front) - 1)
  BY DEF Put
<1> HIDE DEF t, front, o
<1>6. ASSUME NEW j \in 1 .. Len(t)
      PROVE  t[j] # k /\ t[j] \in CacheKey /\ front[j + 1] = t[j]
  <2>1. t[j] \in Elements(t)
    BY DEF Elements
  <2>2. j + 1 \in 1 .. Len(t) + 1 /\ j + 1 # 1 /\ (j + 1) - 1 = j
    BY <1>2
  <2> QED
    BY <1>2, <1>4, <2>1, <2>2
\* The list and the tokens that follow the new one are those of the others.
<1>7. /\ Len(order') = IF Len(t) < MaxEntries THEN Len(t) + 1 ELSE Len(t)
      /\ order'[1] = k /\ values'[k] = token
      /\ \A j \in 1 .. Len(order') - 1 :
           j \in 1 .. Len(t) /\ order'[j + 1] = t[j] /\ values'[t[j]] = values[t[j]]
  <2>1. CASE /\ Len(front) <= MaxEntries
             /\ values' = [values EXCEPT ![k] = token] /\ order' = front
    <3>1. Len(order') = Len(t) + 1 /\ Len(t) < MaxEntries /\ order'[1] = k
      BY <1>1, <1>2, <1>4, <2>1
    <3>2. values'[k] = token
      BY <1>1, <2>1
    <3>3. ASSUME NEW j \in 1 .. Len(t)
          PROVE  order'[j + 1] = t[j] /\ values'[t[j]] = values[t[j]]
      BY <1>1, <1>6, <2>1
    <3>4. Len(order') - 1 = Len(t)
      BY <1>2, <3>1
    <3> QED
      BY <3>1, <3>2, <3>3, <3>4
  <2>2. CASE /\ ~(Len(front) <= MaxEntries)
             /\ values' = [values EXCEPT ![k] = token, ![front[Len(front)]] = NoRow]
             /\ order' = SubSeq(front, 1, Len(front) - 1)
    <3>1. Len(t) = MaxEntries /\ Len(front) = MaxEntries + 1 /\ Len(front) > 0
      BY <1>1, <1>2, <1>4, <2>2
    <3>2. /\ Len(order') = Len(front) - 1
          /\ \A j \in 1 .. Len(front) - 1 : order'[j] = front[j]
      BY <1>4, <2>2, <3>1, CutElements
    <3>3. Len(order') = Len(t) /\ Len(front) - 1 = Len(t)
      BY <1>2, <3>1, <3>2
    <3>4. PICK last \in CacheKey : last = front[Len(front)]
      <4>1. Len(front) \in 1 .. Len(front)
        BY <1>1, <3>1
      <4> QED
        BY <1>4, <4>1, ElementOfSeq
    <3>5. \A j \in 1 .. Len(front) : j # Len(front) => front[j] # last
      BY <1>1, <1>4, <3>1, <3>4 DEF Distinct
    <3>6. front[1] = k /\ k # last
      BY <1>1, <1>2, <1>4, <3>1, <3>5
    <3>7. \A x \in CacheKey :
            values'[x] = IF x = last THEN NoRow ELSE IF x = k THEN token ELSE values[x]
      BY <1>1, <2>2, <3>4
    <3>8. ASSUME NEW j \in 1 .. Len(t) - 1
          PROVE  j \in 1 .. Len(t) /\ order'[j + 1] = t[j] /\ values'[t[j]] = values[t[j]]
      <4>1. j \in 1 .. Len(t) /\ j + 1 \in 1 .. Len(t)
        BY <1>2
      <4>2. order'[j + 1] = t[j]
        BY <1>6, <3>2, <3>3, <4>1
      <4>3. t[j] # last
        <5>1. j + 1 \in 1 .. Len(front) /\ j + 1 # Len(front)
          BY <1>2, <1>4
        <5> QED
          BY <1>6, <3>5, <4>1, <5>1
      <4> QED
        BY <1>6, <3>7, <4>1, <4>2, <4>3
    <3>9. order'[1] = k
      BY <1>1, <3>1, <3>2, <3>6
    <3> QED
      BY <1>1, <3>1, <3>3, <3>6, <3>7, <3>8, <3>9
  <2> QED
    BY <1>5, <2>1, <2>2
<1>8. Present(order', values')
  BY DEF Present, ClientInv, ClientTypes, Elements, Cached, TokensAreTimely
<1>9. PICK e \in Seq(Entry) :
        /\ e = Entries' /\ Len(e) = Len(order')
        /\ \A j \in 1 .. Len(order') : e[j] = [key |-> order'[j], value |-> values'[order'[j]]]
  BY <1>8, EntriesProps, EntriesAre
<1>10. Len(e) \in Nat /\ Len(e) > 0 /\ e # <<>>
  BY <1>1, <1>2, <1>7, <1>9
<1>11. e[1].key = k /\ e[1].value \in Token
  <2>1. 1 \in 1 .. Len(order')
    BY <1>9, <1>10
  <2>2. e[1] = [key |-> k, value |-> token]
    BY <1>7, <1>9, <2>1
  <2> QED
    BY <2>2
<1>12. /\ Tail(e) \in Seq(Entry) /\ Len(Tail(e)) = Len(e) - 1
       /\ \A j \in 1 .. Len(e) - 1 : Tail(e)[j] = e[j + 1]
  BY <1>10, HeadTailProperties
<1>13. ASSUME NEW j \in 1 .. Len(e) - 1
       PROVE  j \in 1 .. Len(t) /\ Tail(e)[j] = o[j]
  <2>1. j + 1 \in 1 .. Len(e)
    BY <1>10
  <2>2. j \in 1 .. Len(t) /\ order'[j + 1] = t[j] /\ values'[t[j]] = values[t[j]]
    BY <1>7, <1>9
  <2>3. e[j + 1] = [key |-> t[j], value |-> values[t[j]]]
    BY <1>9, <2>1, <2>2
  <2> QED
    BY <1>3, <1>12, <2>2, <2>3
<1>14. CASE Len(t) < MaxEntries
  <2>1. Len(Tail(e)) = Len(o)
    BY <1>2, <1>3, <1>7, <1>9, <1>12, <1>14
  <2>2. Tail(e) = o
    BY <1>3, <1>12, <1>13, <2>1, SeqEqual
  <2> QED
    BY <1>3, <1>9, <1>10, <1>11, <1>14, <2>2 DEF LRU!Insert
<1>15. CASE ~(Len(t) < MaxEntries)
  <2>1. Len(t) = MaxEntries /\ Len(Tail(e)) = MaxEntries - 1
    BY <1>1, <1>2, <1>7, <1>9, <1>12, <1>15
  <2>2. PICK n \in Nat : n = MaxEntries - 1
    BY <1>1
  <2>3. \A j \in 1 .. n : o[j] \in Entry
    BY <1>3, <2>1, <2>2, ElementOfSeq
  <2>4. /\ SubSeq(o, 1, n) \in Seq(Entry)
        /\ Len(SubSeq(o, 1, n)) = IF 1 <= n THEN n - 1 + 1 ELSE 0
        /\ \A j \in 1 .. n - 1 + 1 : SubSeq(o, 1, n)[j] = o[1 + j - 1]
    BY <2>3, SubSeqProperties
  <2>5. Len(SubSeq(o, 1, n)) = n /\ \A j \in 1 .. n : SubSeq(o, 1, n)[j] = o[j]
    BY <2>4
  <2>6. Tail(e) = SubSeq(o, 1, n)
    BY <1>12, <1>13, <2>1, <2>2, <2>4, <2>5, SeqEqual
  <2> QED
    BY <1>3, <1>9, <1>10, <1>11, <1>15, <2>2, <2>6 DEF LRU!Insert
<1> QED
  BY <1>14, <1>15

\* The map and the list of Go's TokenCache, and so OrderedDict and Map, are a
\* least-recently-used cache of any capacity: a hit moves its entry to the front,
\* a store replaces or pushes out the one unused for longest, and nothing else
\* changes the order, whatever calls overlap.
THEOREM ClientImplementsLRUCache == Spec => ImplementsLRUCache
<1>1. Init => LRU!Init
  <2> SUFFICES ASSUME Init PROVE Entries = <<>>
    BY DEF LRU!Init
  <2>1. Len(order) = 0
    BY DEF Init
  <2> QED
    BY <2>1 DEF Entries
<1>2. ClientInv /\ ClientInv' /\ [Next]_vars => [LRU!Next]_Entries
  <2> SUFFICES ASSUME ClientInv, ClientInv', [Next]_vars
               PROVE  LRU!Next \/ UNCHANGED Entries
    OBVIOUS
  <2>1. ASSUME NEW c \in Caller, NEW r \in Request, CacheHit(c, r)
        PROVE  LRU!Next
    BY <2>1, HitIsUse, KeyOfRequest DEF LRU!Next
  <2>2. ASSUME NEW c \in Caller, NEW r \in Request, CacheMiss(c, r)
        PROVE  LRU!Next \/ UNCHANGED Entries
    BY <2>2, MissIsForget, KeyOfRequest DEF LRU!Next
  <2>3. ASSUME NEW c \in Caller, ReceiveAnswer(c)
        PROVE  LRU!Next
    <3>1. PICK token \in Token : /\ call[c].request \in Request
                                 /\ Put(exchangeCacheKey(call[c].request), token)
      BY <2>3, ReceivedToken
    <3> QED
      BY <3>1, KeyOfRequest, PutIsInsert DEF LRU!Next
  <2>4. CASE Restart
    <3>1. Len(order') = 0
      BY <2>4 DEF Restart
    <3>2. Entries' = <<>>
      BY <3>1 DEF Entries
    <3> QED
      BY <3>2 DEF LRU!Next, LRU!Clear
  <2>5. ASSUME UNCHANGED <<values, order>> PROVE UNCHANGED Entries
    BY <2>5 DEF Entries
  <2> QED
    BY <2>1, <2>2, <2>3, <2>4, <2>5
    DEF Next, ServerAnswers, AnswerRefused, RequestFails, Tick, vars
<1> QED
  BY <1>1, <1>2, ClientInvAlways, PTL DEF Spec, ImplementsLRUCache, LRU!Spec
=============================================================================
