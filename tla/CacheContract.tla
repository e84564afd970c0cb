---------------------------- MODULE CacheContract ----------------------------
(***************************************************************************)
(* What a client of the in-memory cache of src/src/cache.rs may count on:  *)
(* the cache is a partial map from identities to data; a put either stores *)
(* exactly the new data and forgets any other entries it likes, or leaves  *)
(* the map alone (the data is larger than the whole budget).               *)
(***************************************************************************)
NoEntries == [id \in {} |-> id]

\* A cache over these identities and data.
IsCache(cache, ids, data) ==
    /\ DOMAIN cache \subseteq ids
    /\ cache \in [DOMAIN cache -> data]

\* Every cache that a put of data under id can leave.
Puts(cache, id, data) ==
    {cache} \cup
    {[k \in kept \cup {id} |-> IF k = id THEN data ELSE cache[k]] :
        kept \in SUBSET DOMAIN cache}
=============================================================================
