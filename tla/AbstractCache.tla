---------------------------- MODULE AbstractCache ----------------------------
(***************************************************************************)
(* What the document cache promises the proxy (spec 6 and 8.3): a register *)
(* per key.  A key holds nothing until a write stores a document in it;    *)
(* each write replaces the key's document atomically (last writer wins),   *)
(* touches no other key, and a stored document stays readable.  Reads do   *)
(* not change the cache.                                                   *)
(***************************************************************************)
CONSTANTS
    Keys,     \* cache keys
    Values    \* documents a write may store

VARIABLE cache   \* cache[k]: {} (nothing readable) or {v}

Init == cache = [k \in Keys |-> {}]

Put(k, v) == cache' = [cache EXCEPT ![k] = {v}]

Next == \E k \in Keys, v \in Values : Put(k, v)

Spec == Init /\ [][Next]_cache
=============================================================================
