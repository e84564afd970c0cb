------------------------------ MODULE MemoryCache ------------------------------
(***************************************************************************)
(* The in-memory LRU of src/src/cache.rs: a map bounded by a number of     *)
(* entries and by a total of bytes, with a tick that orders the uses and a *)
(* running byte count that is kept beside the map.                         *)
(***************************************************************************)
EXTENDS CacheContract, Integers, FiniteSets

CONSTANTS
    Ids,          \* content identities
    Data,         \* cached plaintexts
    Size,         \* their lengths in bytes
    MaxEntries,   \* the entry bound
    MaxBytes,     \* the byte budget
    MaxTick       \* where the tick counter would overflow (u64::MAX)

ASSUME CacheAssumption ==
    /\ Size \in [Data -> Nat]
    /\ MaxEntries \in Nat
    /\ MaxBytes \in Nat
    /\ MaxTick \in Nat

VARIABLES
    tick,    \* the last tick handed out
    bytes,   \* the running total of the sizes of the entries
    map      \* identity -> [last_used, data]

vars == <<tick, bytes, map>>

Entries == [last_used : Nat, data : Data]

\* The bytes that the entries keys of m hold, one by one, and how many they are.
Held(m, keys) == {s \in keys \X (1..MaxBytes) : s[2] <= Size[m[s[1]].data]}
Total(m, keys) == Cardinality(Held(m, keys))

Init == tick = 0 /\ bytes = 0 /\ map = NoEntries

\* The map with the entry id used at time now.
Touched(id, now) == [map EXCEPT ![id] = [last_used |-> now, data |-> map[id].data]]

\* Slips: a lookup does not count as a use; it counts, at the current tick.
Get_NoUse(id) == tick < MaxTick /\ tick' = tick + 1 /\ UNCHANGED <<bytes, map>>
Get_SameTick(id) ==
    /\ id \in DOMAIN map
    /\ map' = Touched(id, tick)
    /\ UNCHANGED <<tick, bytes>>

\* get: the tick advances on a miss as well.
Get(id) ==
    /\ tick < MaxTick
    /\ tick' = tick + 1
    /\ map' = IF id \in DOMAIN map THEN Touched(id, tick + 1) ELSE map
    /\ UNCHANGED bytes

-----------------------------------------------------------------------------
\* Eviction removes the least recently used entry until both bounds hold.  The
\* entries that go are those up to a threshold of last_used: the least one with
\* which the rest fits.

UpTo(m, t) == {k \in DOMAIN m : m[k].last_used <= t}
After(m, t) == {k \in DOMAIN m : m[k].last_used > t}

Fits(m, total, t) ==
    /\ Cardinality(After(m, t)) <= MaxEntries
    /\ total - Total(m, UpTo(m, t)) <= MaxBytes

\* The threshold is no entry's last_used but 0 when nothing has to go.
Thresholds(m) == {0} \cup {m[k].last_used : k \in DOMAIN m}

EvictsUpTo(m, total, t) ==
    /\ t \in Thresholds(m)
    /\ Fits(m, total, t)
    /\ \A u \in Thresholds(m) : Fits(m, total, u) => t <= u

\* Slip: an entry larger than the budget is put like any other.
TooLarge_Never(data) == FALSE

\* put: an entry too large for the whole budget leaves the cache alone; any other
\* replaces its predecessor, is counted, and evicts.
TooLarge(data) == MaxEntries = 0 \/ Size[data] > MaxBytes

\* Slip: a replaced entry keeps its place in the order.
With_InPlace(m, id, data, now) ==
    [k \in DOMAIN m \cup {id} |->
        IF k = id THEN [last_used |-> IF id \in DOMAIN m THEN m[id].last_used ELSE now,
                        data |-> data]
        ELSE m[k]]

With(m, id, data, now) ==
    [k \in DOMAIN m \cup {id} |->
        IF k = id THEN [last_used |-> now, data |-> data] ELSE m[k]]

\* Slips: the replaced entry's size is not taken off; the wrong size is.
Counted_Twice(m, id, data) == bytes + Size[data]
Counted_NewSize(m, id, data) ==
    bytes - (IF id \in DOMAIN m THEN Size[data] ELSE 0) + Size[data]

Counted(m, id, data) ==
    bytes - (IF id \in DOMAIN m THEN Size[m[id].data] ELSE 0) + Size[data]

Put(id, data) ==
    \/ TooLarge(data) /\ UNCHANGED vars
    \/ /\ ~ TooLarge(data)
       /\ tick < MaxTick
       /\ tick' = tick + 1
       /\ LET m == With(map, id, data, tick + 1)
              total == Counted(map, id, data)
          IN  \E t \in Thresholds(m) :
                /\ EvictsUpTo(m, total, t)
                /\ map' = [k \in After(m, t) |-> m[k]]
                /\ bytes' = total - Total(m, UpTo(m, t))

Next == \E id \in Ids : Get(id) \/ \E data \in Data : Put(id, data)

Spec == Init /\ [][Next]_vars

-----------------------------------------------------------------------------
\* Every variable keeps its type (struct Inner of cache.rs).
TypeOK ==
    /\ tick \in Nat
    /\ bytes \in Nat
    /\ DOMAIN map \subseteq Ids
    /\ map \in [DOMAIN map -> Entries]

\* The running count is the sum of the sizes held, through replacements and
\* evictions; so no subtraction from it underflows.
Accounting == bytes = Total(map, DOMAIN map)

\* Both bounds hold after every operation.
WithinBounds == Cardinality(DOMAIN map) <= MaxEntries /\ bytes <= MaxBytes

\* No two entries have the same last_used and none is ahead of the tick, so the
\* victim of an eviction is unique.
TicksDistinct ==
    /\ \A k \in DOMAIN map : map[k].last_used \in 1..tick
    /\ \A j, k \in DOMAIN map : map[j].last_used = map[k].last_used => j = k

\* A put that is not refused keeps what it put: eviction never takes the new entry.
PutStores ==
    [][\A id \in Ids, data \in Data :
            Put(id, data) /\ ~ TooLarge(data) =>
                id \in DOMAIN map' /\ map'[id].data = data]_vars

\* The cache implements the contract that the Resolver module relies on.
Abstract == INSTANCE BoundedCache WITH contents <- [k \in DOMAIN map |-> map[k].data]
ImplementsBoundedCache == Abstract!Spec
=============================================================================
