----------------------------- MODULE BoundedCache -----------------------------
(***************************************************************************)
(* The abstract in-memory cache: what the Resolver module takes a          *)
(* MemoryCache to be.  Every step is a put, and leaves one of the caches   *)
(* that CacheContract!Puts allows; a lookup changes nothing.               *)
(***************************************************************************)
EXTENDS CacheContract

CONSTANTS Ids, Data

VARIABLE contents

Init == contents = NoEntries

Put(id, data) == contents' \in Puts(contents, id, data)

Next == \E id \in Ids, data \in Data : Put(id, data)

Spec == Init /\ [][Next]_contents
=============================================================================
