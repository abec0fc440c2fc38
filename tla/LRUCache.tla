------------------------------ MODULE LRUCache ------------------------------
(***************************************************************************)
(* What the SDKs' token caches promise: a list of at most MaxEntries       *)
(* entries, the most recently used one first, from which an entry may be   *)
(* forgotten at any time and a new one pushes out the one unused for       *)
(* longest.                                                                *)
(***************************************************************************)
EXTENDS Naturals, Sequences, SequencesExt

CONSTANTS CacheKey, Value, MaxEntries

VARIABLE entries

\* The position of key's entry, among those it may have.
Positions(key) == {i \in 1 .. Len(entries) : entries[i].key = key}

\* The entries of the other keys.
Others(key) ==
    IF Positions(key) = {} THEN entries
    ELSE RemoveAt(entries, CHOOSE i \in Positions(key) : TRUE)

Init == entries = <<>>

\* A hit.
Use(key) ==
    \E i \in Positions(key) : entries' = <<entries[i]>> \o RemoveAt(entries, i)

\* The entry has expired, as far as the cache can tell.
Forget(key) ==
    \E i \in Positions(key) : entries' = RemoveAt(entries, i)

\* The entry of key is replaced, or a new one put in front; what does not fit
\* behind it is dropped.
Insert(key) ==
    /\ entries' # <<>>
    /\ entries'[1].key = key /\ entries'[1].value \in Value
    /\ Tail(entries') = IF Len(Others(key)) < MaxEntries THEN Others(key)
                       ELSE SubSeq(Others(key), 1, MaxEntries - 1)

\* The process that holds the cache restarts.
Clear == entries' = <<>>

Next ==
    \/ \E key \in CacheKey : Use(key) \/ Forget(key) \/ Insert(key)
    \/ Clear

Spec == Init /\ [][Next]_entries
=============================================================================
