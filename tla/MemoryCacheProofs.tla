--------------------------- MODULE MemoryCacheProofs ---------------------------
(***************************************************************************)
(* The LRU keeps its accounts, its bounds and its order, for any set of    *)
(* identities, any sizes and any bounds.                                   *)
(*                                                                         *)
(* Sums of sizes are cardinalities (Total counts the bytes held), so the   *)
(* arithmetic of put and evict is that of disjoint finite sets.            *)
(*                                                                         *)
(* The loop of evict is shown to take what the closed form of Put takes;   *)
(* its invariant says how far along the order of use it has come.          *)
(***************************************************************************)
EXTENDS EvictionLoop, FiniteSetTheorems, WellFoundedInduction, TLAPS

\* The inductive invariant: the listed properties, and what they need of the map: it
\* is finite, and no entry alone exceeds the budget (TooLarge refused it).
Small(m) == \A k \in DOMAIN m : Size[m[k].data] <= MaxBytes

IInv ==
    /\ TypeOK
    /\ IsFiniteSet(DOMAIN map)
    /\ Small(map)
    /\ Accounting
    /\ WithinBounds
    /\ TicksDistinct

-----------------------------------------------------------------------------
\* Sums.

\* The bytes of finitely many entries are finitely many.
LEMMA TotalIsNat ==
    ASSUME NEW m, NEW keys, IsFiniteSet(keys)
    PROVE  IsFiniteSet(Held(m, keys)) /\ Total(m, keys) \in Nat
  <1>1. IsFiniteSet(1..MaxBytes)
    BY FS_Interval, CacheAssumption, 0 \in Int, 1 \in Int
  <1>2. IsFiniteSet(keys \X (1..MaxBytes))
    BY <1>1, FS_Product
  <1>3. Held(m, keys) \in SUBSET (keys \X (1..MaxBytes))
    BY DEF Held
  <1>4. IsFiniteSet(Held(m, keys))
    BY <1>2, <1>3, FS_Subset
  <1> QED
    BY <1>4, FS_CardinalityType DEF Total

\* Totals of disjoint sets of entries add up.
LEMMA TotalAdds ==
    ASSUME NEW m, NEW A, NEW B, IsFiniteSet(A), IsFiniteSet(B), A \cap B = {}
    PROVE  Total(m, A \cup B) = Total(m, A) + Total(m, B)
  <1>1. IsFiniteSet(Held(m, A)) /\ IsFiniteSet(Held(m, B))
    BY TotalIsNat
  <1>2. Held(m, A \cup B) = Held(m, A) \cup Held(m, B)
    BY DEF Held
  <1>3. Held(m, A) \cap Held(m, B) = {}
    BY DEF Held
  <1>4. Cardinality({}) = 0
    BY FS_EmptySet
  <1>5. Total(m, A) \in Nat /\ Total(m, B) \in Nat
    BY TotalIsNat
  <1>6. Cardinality(Held(m, A) \cup Held(m, B)) =
            Cardinality(Held(m, A)) + Cardinality(Held(m, B))
                - Cardinality(Held(m, A) \cap Held(m, B))
    BY <1>1, FS_Union
  <1>7. Cardinality(Held(m, A) \cap Held(m, B)) = 0
    BY <1>3, <1>4
  <1>8. Total(m, A) = Cardinality(Held(m, A)) /\ Total(m, B) = Cardinality(Held(m, B))
        /\ Total(m, A \cup B) = Cardinality(Held(m, A) \cup Held(m, B))
    BY <1>2 DEF Total
  <1> QED
    BY <1>5, <1>6, <1>7, <1>8

\* One entry within the budget counts for its size.
LEMMA TotalOfOne ==
    ASSUME NEW m, NEW k, m[k].data \in Data, Size[m[k].data] <= MaxBytes
    PROVE  Total(m, {k}) = Size[m[k].data]
  <1> DEFINE n == Size[m[k].data]
  <1>1. n \in Nat /\ n <= MaxBytes /\ MaxBytes \in Nat
    BY CacheAssumption
  <1>2. Held(m, {k}) = {k} \X (1..n)
    BY <1>1 DEF Held
  <1> HIDE DEF n
  <1>3. IsFiniteSet(1..n) /\ Cardinality(1..n) = n
    <2>1. 1 \in Int /\ n \in Int
      BY <1>1
    <2>2. Cardinality(1..n) = IF 1 > n THEN 0 ELSE n - 1 + 1
      BY <2>1, FS_Interval
    <2> QED
      BY <1>1, <2>1, <2>2, FS_Interval
  <1>4. IsFiniteSet({k}) /\ Cardinality({k}) = 1
    BY FS_Singleton
  <1>5. Cardinality({k} \X (1..n)) = 1 * n
    <2>1. Cardinality({k} \X (1..n)) = Cardinality({k}) * Cardinality(1..n)
      BY <1>3, <1>4, FS_Product
    <2> QED
      BY <2>1, <1>3, <1>4
  <1>6. Total(m, {k}) = Cardinality({k} \X (1..n))
    BY <1>2 DEF Total
  <1>7. Total(m, {k}) = n
    BY <1>1, <1>5, <1>6
  <1> QED
    BY <1>7 DEF n

\* A total depends only on the data of the entries it is about.
LEMMA TotalAgrees ==
    ASSUME NEW m1, NEW m2, NEW keys, \A k \in keys : m1[k].data = m2[k].data
    PROVE  Total(m1, keys) = Total(m2, keys)
  BY DEF Total, Held

-----------------------------------------------------------------------------
\* The two halves of put.

\* Counting: the running count is the total of the map with the new entry in it.
LEMMA WithCounts ==
    ASSUME IInv, NEW id \in Ids, NEW data \in Data, ~ TooLarge(data)
    PROVE  LET m == With(map, id, data, tick + 1) IN
           /\ DOMAIN m \subseteq Ids
           /\ m \in [DOMAIN m -> Entries]
           /\ IsFiniteSet(DOMAIN m)
           /\ Small(m)
           /\ Counted(map, id, data) = Total(m, DOMAIN m)
           /\ \A k \in DOMAIN m : m[k].last_used \in 1..(tick + 1)
           /\ \A j, k \in DOMAIN m : m[j].last_used = m[k].last_used => j = k
  <1> DEFINE m == With(map, id, data, tick + 1)
             D == DOMAIN map
             rest == D \ {id}
  <1>0. tick \in Nat /\ bytes \in Nat /\ D \subseteq Ids /\ map \in [D -> Entries]
        /\ IsFiniteSet(D) /\ bytes = Total(map, D)
    BY DEF IInv, TypeOK, Accounting
  <1>1. DOMAIN m = D \cup {id} /\ m[id] = [last_used |-> tick + 1, data |-> data]
        /\ \A k \in rest : m[k] = map[k]
    BY DEF With
  <1>2. DOMAIN m \subseteq Ids /\ m \in [DOMAIN m -> Entries]
    BY <1>0 DEF With, Entries
  <1>3. IsFiniteSet(DOMAIN m) /\ IsFiniteSet(rest) /\ IsFiniteSet({id})
    <2>1. IsFiniteSet(D \cup {id})
      BY <1>0, FS_AddElement
    <2>2. IsFiniteSet(rest)
      BY <1>0, FS_RemoveElement
    <2>3. IsFiniteSet({id})
      BY FS_Singleton
    <2> QED
      BY <1>1, <2>1, <2>2, <2>3
  <1>4. Small(m)
    <2> SUFFICES ASSUME NEW k \in DOMAIN m PROVE Size[m[k].data] <= MaxBytes
      BY DEF Small
    <2>1. CASE k = id
      BY <2>1, <1>1, CacheAssumption DEF TooLarge
    <2>2. CASE k # id
      BY <2>2, <1>1 DEF IInv, Small
    <2> QED
      BY <2>1, <2>2
  <1>5. Total(m, DOMAIN m) = Total(m, rest) + Size[data]
    <2>1. DOMAIN m = rest \cup {id} /\ rest \cap {id} = {}
      BY <1>1
    <2>2. m[id].data = data
      BY <1>1
    <2>3. id \in DOMAIN m
      BY <1>1
    <2>4. Size[m[id].data] <= MaxBytes
      BY <1>4, <2>3 DEF Small
    <2>5. Total(m, {id}) = Size[data]
      BY <2>2, <2>4, TotalOfOne
    <2>6. Total(m, rest \cup {id}) = Total(m, rest) + Total(m, {id})
      BY <1>3, <2>1, TotalAdds
    <2> QED
      BY <2>1, <2>5, <2>6
  <1>6. Total(m, rest) = Total(map, rest)
    BY <1>1, TotalAgrees
  <1>7. Total(map, D) = Total(map, rest) + (IF id \in D THEN Size[map[id].data] ELSE 0)
    <2>1. CASE id \in D
      <3>1. D = rest \cup {id} /\ rest \cap {id} = {}
        BY <2>1
      <3>2. map[id].data \in Data /\ Size[map[id].data] <= MaxBytes
        BY <2>1, <1>0 DEF IInv, Small, Entries
      <3>3. Total(map, {id}) = Size[map[id].data]
        BY <3>2, TotalOfOne
      <3>4. Total(map, rest \cup {id}) = Total(map, rest) + Total(map, {id})
        BY <1>3, <3>1, TotalAdds
      <3> QED
        BY <2>1, <3>1, <3>3, <3>4
    <2>2. CASE id \notin D
      <3>1. rest = D
        BY <2>2
      <3>2. Total(map, D) \in Nat
        BY <1>0
      <3> QED
        BY <2>2, <3>1, <3>2
    <2> QED
      BY <2>1, <2>2
  <1>8. Counted(map, id, data) = Total(m, DOMAIN m)
    <2>1. Total(map, rest) \in Nat /\ Size[data] \in Nat
      BY <1>3, TotalIsNat, CacheAssumption
    <2>2. id \in D => Size[map[id].data] \in Nat
      BY <1>0, CacheAssumption DEF Entries
    <2> QED
      BY <1>0, <1>5, <1>6, <1>7, <2>1, <2>2 DEF Counted
  <1>9. \A k \in DOMAIN m : m[k].last_used \in 1..(tick + 1)
    BY <1>0, <1>1 DEF IInv, TicksDistinct
  <1>10. \A j, k \in DOMAIN m : m[j].last_used = m[k].last_used => j = k
    <2>1. \A k \in rest : m[k].last_used \in 1..tick
      BY <1>1 DEF IInv, TicksDistinct
    <2>2. m[id].last_used = tick + 1
      BY <1>1
    <2> QED
      BY <1>0, <1>1, <2>1, <2>2 DEF IInv, TicksDistinct
  <1> QED
    BY <1>2, <1>3, <1>4, <1>8, <1>9, <1>10

\* Evicting: what is left has the remaining total.
LEMMA EvictionCounts ==
    ASSUME NEW m, IsFiniteSet(DOMAIN m), NEW t \in Int,
           \A k \in DOMAIN m : m[k].last_used \in Int,
           NEW kept, kept = [k \in After(m, t) |-> m[k]]
    PROVE  /\ IsFiniteSet(DOMAIN kept)
           /\ DOMAIN kept \subseteq DOMAIN m
           /\ \A k \in DOMAIN kept : kept[k] = m[k]
           /\ Total(m, DOMAIN m) - Total(m, UpTo(m, t)) = Total(kept, DOMAIN kept)
  <1>1. DOMAIN kept = After(m, t) /\ \A k \in DOMAIN kept : kept[k] = m[k]
    OBVIOUS
  <1>2. DOMAIN m = After(m, t) \cup UpTo(m, t) /\ After(m, t) \cap UpTo(m, t) = {}
    BY DEF After, UpTo
  <1>3. After(m, t) \in SUBSET DOMAIN m /\ UpTo(m, t) \in SUBSET DOMAIN m
    BY DEF After, UpTo
  <1>4. IsFiniteSet(After(m, t)) /\ IsFiniteSet(UpTo(m, t))
    BY <1>3, FS_Subset
  <1>5. Total(m, DOMAIN m) = Total(m, After(m, t)) + Total(m, UpTo(m, t))
    BY <1>2, <1>4, TotalAdds
  <1>6. Total(m, After(m, t)) = Total(kept, DOMAIN kept)
    BY <1>1, TotalAgrees
  <1>7. Total(m, After(m, t)) \in Nat /\ Total(m, UpTo(m, t)) \in Nat
    BY <1>4, TotalIsNat
  <1> QED
    BY <1>1, <1>3, <1>4, <1>5, <1>6, <1>7

-----------------------------------------------------------------------------
\* The empty cache is in order.
LEMMA InitInvariant == Init => IInv
  <1> SUFFICES ASSUME Init PROVE IInv
    OBVIOUS
  <1>1. DOMAIN map = {} /\ tick = 0 /\ bytes = 0
    BY DEF Init, NoEntries
  <1>2. map \in [DOMAIN map -> Entries]
    BY DEF Init, NoEntries
  <1>3. IsFiniteSet({}) /\ Cardinality({}) = 0
    BY FS_EmptySet
  <1>4. Held(map, {}) = {}
    BY DEF Held
  <1> QED
    BY <1>1, <1>2, <1>3, <1>4, CacheAssumption
       DEF IInv, TypeOK, Small, Accounting, WithinBounds, TicksDistinct, Total

\* A lookup changes nothing but the order.
LEMMA GetKeeps ==
    ASSUME IInv, NEW id \in Ids, Get(id)
    PROVE  IInv'
  <1>1. tick' = tick + 1 /\ bytes' = bytes /\ tick \in Nat
    BY DEF Get, IInv, TypeOK
  <1>2. DOMAIN map' = DOMAIN map /\ \A k \in DOMAIN map : map'[k].data = map[k].data
    BY DEF Get, Touched, IInv, TypeOK, Entries
  <1>3. \A k \in DOMAIN map :
            map'[k].last_used = IF k = id THEN tick + 1 ELSE map[k].last_used
    BY DEF Get, Touched, IInv, TypeOK, Entries
  <1>4. map' \in [DOMAIN map -> Entries]
    BY <1>1 DEF Get, Touched, IInv, TypeOK, Entries
  <1>5. TypeOK'
    BY <1>1, <1>2, <1>4 DEF IInv, TypeOK
  <1>6. Total(map', DOMAIN map) = Total(map, DOMAIN map)
    BY <1>2, TotalAgrees
  <1>7. TicksDistinct'
    <2>1. \A k \in DOMAIN map : map[k].last_used \in 1..tick
      BY DEF IInv, TicksDistinct
    <2> QED
      BY <1>1, <1>2, <1>3, <2>1 DEF IInv, TicksDistinct
  <1> QED
    BY <1>1, <1>2, <1>5, <1>6, <1>7 DEF IInv, Small, Accounting, WithinBounds

\* A put keeps accounts, bounds and order.
LEMMA PutKeeps ==
    ASSUME IInv, NEW id \in Ids, NEW data \in Data, Put(id, data)
    PROVE  IInv'
  <1>1. CASE TooLarge(data) /\ UNCHANGED vars
    BY <1>1 DEF vars, IInv, TypeOK, Small, Accounting, WithinBounds, TicksDistinct
  <1>2. CASE ~ TooLarge(data)
    <2> DEFINE m == With(map, id, data, tick + 1)
               total == Counted(map, id, data)
    <2> PICK t \in Thresholds(m) :
            /\ EvictsUpTo(m, total, t)
            /\ map' = [k \in After(m, t) |-> m[k]]
            /\ bytes' = total - Total(m, UpTo(m, t))
      BY <1>2 DEF Put
    <2>1. tick' = tick + 1 /\ tick \in Nat
      BY <1>2 DEF Put, IInv, TypeOK
    <2>2. /\ DOMAIN m \subseteq Ids
          /\ m \in [DOMAIN m -> Entries]
          /\ IsFiniteSet(DOMAIN m)
          /\ Small(m)
          /\ total = Total(m, DOMAIN m)
          /\ \A k \in DOMAIN m : m[k].last_used \in 1..(tick + 1)
          /\ \A j, k \in DOMAIN m : m[j].last_used = m[k].last_used => j = k
      BY <1>2, WithCounts
    <2>3. t \in Int /\ \A k \in DOMAIN m : m[k].last_used \in Int
      BY <2>1, <2>2 DEF Thresholds
    <2> HIDE DEF m, total
    <2>4. /\ IsFiniteSet(DOMAIN map')
          /\ DOMAIN map' \subseteq DOMAIN m
          /\ \A k \in DOMAIN map' : map'[k] = m[k]
          /\ Total(m, DOMAIN m) - Total(m, UpTo(m, t)) = Total(map', DOMAIN map')
      BY <2>2, <2>3, EvictionCounts
    <2>5. bytes' = Total(map', DOMAIN map') /\ bytes' \in Nat
      BY <2>2, <2>4, TotalIsNat
    <2>6. map' \in [DOMAIN map' -> Entries]
      BY <2>2, <2>4
    <2>7. TypeOK'
      BY <2>1, <2>2, <2>4, <2>5, <2>6 DEF TypeOK
    <2>8. Small(map')
      BY <2>2, <2>4 DEF Small
    <2>9. WithinBounds'
      BY DEF WithinBounds, EvictsUpTo, Fits
    <2>10. TicksDistinct'
      BY <2>1, <2>2, <2>4 DEF TicksDistinct
    <2> QED
      BY <2>4, <2>5, <2>7, <2>8, <2>9, <2>10 DEF IInv, Accounting
  <1> QED
    BY <1>1, <1>2 DEF Put

\* Every operation keeps the invariant.
LEMMA StepInvariant == IInv /\ [Next]_vars => IInv'
  <1> SUFFICES ASSUME IInv, [Next]_vars PROVE IInv'
    OBVIOUS
  <1>1. ASSUME NEW id \in Ids, Get(id) PROVE IInv'
    BY <1>1, GetKeeps
  <1>2. ASSUME NEW id \in Ids, NEW data \in Data, Put(id, data) PROVE IInv'
    BY <1>2, PutKeeps
  <1>3. CASE UNCHANGED vars
    BY <1>3 DEF vars, IInv, TypeOK, Small, Accounting, WithinBounds, TicksDistinct
  <1> QED
    BY <1>1, <1>2, <1>3 DEF Next

\* The invariant holds after any sequence of lookups and puts.
THEOREM Invariant == Spec => []IInv
  BY InitInvariant, StepInvariant, PTL DEF Spec

\* The fields of struct Inner keep their types; the byte count is never negative.
THEOREM TypeCorrect == Spec => []TypeOK
  BY Invariant, PTL DEF IInv

\* The running byte count is always the sum of the sizes of the entries, so no
\* subtraction in put or evict wraps the usize.
THEOREM AccountingHolds == Spec => []Accounting
  BY Invariant, PTL DEF IInv

\* Neither bound is exceeded after any operation.
THEOREM BoundsHold == Spec => []WithinBounds
  BY Invariant, PTL DEF IInv

\* The least recently used entry is always unique.
THEOREM OrderIsTotal == Spec => []TicksDistinct
  BY Invariant, PTL DEF IInv

-----------------------------------------------------------------------------
\* Eviction spares the entry that was put: it is the most recently used, and it fits
\* alone, so a threshold below it fits already.

\* A bounded set of naturals has a greatest member.
LEMMA Greatest ==
    ASSUME NEW T, T # {}, T \subseteq Nat, NEW n \in Nat, \A x \in T : x <= n
    PROVE  \E x \in T : \A y \in T : y <= x
  <1> DEFINE Gaps == {n - x : x \in T}
  <1>1. Gaps # {} /\ Gaps \subseteq Nat
    <2>1. \A x \in T : n - x \in Nat
      OBVIOUS
    <2> QED
      BY <2>1
  <1>2. \E g \in Gaps : \A h \in Gaps : ~ (<<h, g>> \in OpToRel(<, Nat))
    BY <1>1, WFMin, NatLessThanWellFounded
  <1>3. \A g, h \in Nat : <<h, g>> \in OpToRel(<, Nat) <=> h < g
    BY DEF OpToRel
  <1>4. PICK g \in Gaps : \A h \in Gaps : ~ (h < g)
    BY <1>1, <1>2, <1>3
  <1>5. PICK x \in T : g = n - x
    BY <1>4
  <1>6. ASSUME NEW y \in T PROVE y <= x
    <2>1. n - y \in Gaps
      OBVIOUS
    <2>2. ~ (n - y < n - x)
      BY <1>4, <1>5, <2>1
    <2>3. x \in Nat /\ y \in Nat
      OBVIOUS
    <2> HIDE DEF Gaps
    <2> QED
      BY <2>2, <2>3
  <1> QED
    BY <1>6

\* The threshold of an eviction lies below the tick of the entry just put.
LEMMA NewestStays ==
    ASSUME IInv, NEW id \in Ids, NEW data \in Data, ~ TooLarge(data), NEW t,
           t \in Thresholds(With(map, id, data, tick + 1)),
           EvictsUpTo(With(map, id, data, tick + 1), Counted(map, id, data), t)
    PROVE  id \in After(With(map, id, data, tick + 1), t)
  <1> DEFINE m == With(map, id, data, tick + 1)
             total == Counted(map, id, data)
             others == {0} \cup {m[k].last_used : k \in DOMAIN map \ {id}}
  <1>1. /\ DOMAIN m \subseteq Ids
        /\ m \in [DOMAIN m -> Entries]
        /\ IsFiniteSet(DOMAIN m)
        /\ Small(m)
        /\ total = Total(m, DOMAIN m)
        /\ \A k \in DOMAIN m : m[k].last_used \in 1..(tick + 1)
    BY WithCounts
  <1>2. DOMAIN m = DOMAIN map \cup {id} /\ m[id] = [last_used |-> tick + 1, data |-> data]
        /\ \A k \in DOMAIN map \ {id} : m[k].last_used = map[k].last_used
    BY DEF With
  <1>3. tick \in Nat /\ \A k \in DOMAIN map : map[k].last_used \in 1..tick
    BY DEF IInv, TypeOK, TicksDistinct
  <1> HIDE DEF m, total
  <1>4. others \subseteq Nat /\ \A u \in others : u <= tick
    BY <1>2, <1>3
  <1>5. PICK u \in others : \A v \in others : v <= u
    BY <1>3, <1>4, Greatest
  <1>6. u \in Nat /\ u <= tick /\ u \in Thresholds(m)
    BY <1>2, <1>4 DEF Thresholds
  <1>7. After(m, u) = {id}
    BY <1>2, <1>3, <1>5, <1>6 DEF After
  <1>8. total - Total(m, UpTo(m, u)) = Size[data]
    <2> DEFINE kept == [k \in After(m, u) |-> m[k]]
    <2>1. Total(m, DOMAIN m) - Total(m, UpTo(m, u)) = Total(kept, DOMAIN kept)
      BY <1>1, <1>6, EvictionCounts
    <2>2. DOMAIN kept = {id} /\ kept[id].data = data
      BY <1>2, <1>7
    <2> HIDE DEF kept
    <2>3. Size[data] <= MaxBytes
      BY CacheAssumption DEF TooLarge
    <2>4. Total(kept, {id}) = Size[data]
      BY <2>2, <2>3, TotalOfOne
    <2> QED
      BY <1>1, <2>1, <2>2, <2>4
  <1>9. Fits(m, total, u)
    <2>1. Cardinality({id}) = 1
      BY FS_Singleton
    <2>2. 1 <= MaxEntries /\ Size[data] <= MaxBytes
      BY CacheAssumption DEF TooLarge
    <2> QED
      BY <1>7, <1>8, <2>1, <2>2 DEF Fits
  <1>10. t \in Thresholds(m) /\ t <= u
    BY <1>6, <1>9 DEF EvictsUpTo, m, total
  <1>11. t \in Int
    BY <1>1, <1>3, <1>10 DEF Thresholds
  <1>12. m[id].last_used > t
    BY <1>2, <1>3, <1>6, <1>10, <1>11
  <1>13. id \in After(m, t)
    BY <1>2, <1>12 DEF After
  <1> QED
    BY <1>13 DEF m

\* What a put that is not refused leaves.
LEMMA PutLeaves ==
    ASSUME IInv, NEW id \in Ids, NEW data \in Data, Put(id, data), ~ TooLarge(data)
    PROVE  /\ id \in DOMAIN map' /\ map'[id].data = data
           /\ DOMAIN map' \subseteq DOMAIN map \cup {id}
           /\ \A k \in DOMAIN map' \ {id} : map'[k].data = map[k].data
  <1> DEFINE m == With(map, id, data, tick + 1)
  <1> PICK t \in Thresholds(m) :
          /\ EvictsUpTo(m, Counted(map, id, data), t)
          /\ map' = [k \in After(m, t) |-> m[k]]
    BY DEF Put
  <1>1. id \in After(m, t)
    BY NewestStays
  <1>2. DOMAIN m = DOMAIN map \cup {id} /\ m[id].data = data
        /\ \A k \in DOMAIN map \ {id} : m[k] = map[k]
    BY DEF With
  <1> HIDE DEF m
  <1> QED
    BY <1>1, <1>2 DEF After

\* A put that is not refused stores what it put, whatever it evicts.
THEOREM PutIsKept == Spec => PutStores
  <1>1. IInv /\ [Next]_vars =>
            [\A id \in Ids, data \in Data :
                Put(id, data) /\ ~ TooLarge(data) =>
                    id \in DOMAIN map' /\ map'[id].data = data]_vars
    BY PutLeaves
  <1> QED
    BY <1>1, Invariant, PTL DEF Spec, PutStores

LEMMA PutsAllows ==
    ASSUME NEW old, NEW new, NEW kept \in SUBSET DOMAIN old, NEW id, NEW data,
           new = [k \in kept \cup {id} |-> IF k = id THEN data ELSE old[k]]
    PROVE  new \in Puts(old, id, data)
  BY DEF Puts

\* The LRU of cache.rs is the cache that the Resolver module takes it for: a lookup
\* changes no contents, and a put stores its data or leaves the cache alone.
THEOREM IsBoundedCache == Spec => ImplementsBoundedCache
  <1> DEFINE contents == [k \in DOMAIN map |-> map[k].data]
  <1>1. Init => Abstract!Init
    <2> SUFFICES ASSUME Init PROVE contents = NoEntries
      BY DEF Abstract!Init, Abstract!NoEntries, NoEntries
    <2>1. DOMAIN map = {}
      BY DEF Init, NoEntries
    <2> QED
      BY <2>1 DEF NoEntries
  <1>2. IInv /\ [Next]_vars => [Abstract!Next]_contents
    <2> SUFFICES ASSUME IInv, [Next]_vars PROVE [Abstract!Next]_contents
      OBVIOUS
    <2>1. ASSUME NEW id \in Ids, Get(id) PROVE UNCHANGED contents
      <3>1. DOMAIN map' = DOMAIN map /\ \A k \in DOMAIN map : map'[k].data = map[k].data
        BY <2>1 DEF Get, Touched, IInv, TypeOK, Entries
      <3> QED
        BY <3>1
    <2>2. ASSUME NEW id \in Ids, NEW data \in Data, Put(id, data)
          PROVE  UNCHANGED contents \/ Abstract!Put(id, data)
      <3>1. CASE TooLarge(data) /\ UNCHANGED vars
        BY <3>1 DEF vars
      <3>2. CASE ~ TooLarge(data)
        <4> DEFINE kept == DOMAIN map' \ {id}
        <4>1. /\ id \in DOMAIN map' /\ map'[id].data = data
              /\ DOMAIN map' \subseteq DOMAIN map \cup {id}
              /\ \A k \in DOMAIN map' \ {id} : map'[k].data = map[k].data
          BY <2>2, <3>2, PutLeaves
        <4>2. kept \in SUBSET DOMAIN contents /\ DOMAIN map' = kept \cup {id}
          BY <4>1
        <4>3. contents' =
                [k \in kept \cup {id} |-> IF k = id THEN data ELSE contents[k]]
          BY <4>1, <4>2
        <4>4. contents' \in Puts(contents, id, data)
          BY <4>2, <4>3, PutsAllows
        <4> QED
          BY <4>4 DEF Abstract!Put, Abstract!Puts, Puts
      <3> QED
        BY <2>2, <3>1, <3>2 DEF Put
    <2>3. CASE UNCHANGED vars
      BY <2>3 DEF vars
    <2> QED
      BY <2>1, <2>2, <2>3 DEF Next, Abstract!Next
  <1> QED
    BY <1>1, <1>2, Invariant, PTL DEF Spec, ImplementsBoundedCache, Abstract!Spec
-----------------------------------------------------------------------------
\* The loop of evict.

\* What the loop has left of a map m with a byte count total once it has taken the
\* entries up to the threshold t, having found no lower one to be enough.
Evicted(m, total, t, inner) ==
    /\ t \in Thresholds(m)
    /\ inner = [map |-> [k \in After(m, t) |-> m[k]], bytes |-> total - Total(m, UpTo(m, t))]
    /\ \A u \in Thresholds(m) : u < t => ~ Fits(m, total, u)

Running ==
    /\ putting \in Ids
    /\ tick < MaxTick
    /\ \E data \in Data, t \in Nat :
        /\ ~ TooLarge(data)
        /\ Evicted(With(map, putting, data, tick + 1), Counted(map, putting, data), t, borrowed)

\* The history agrees with the ticks.
InOrder ==
    \A j, k \in DOMAIN map : map[j].last_used < map[k].last_used => <<j, k>> \in older

JInv == IInv /\ InOrder /\ (putting # NoId => Running)

\* Nothing is taken before the first turn: every tick is positive.
LEMMA InsertRuns ==
    ASSUME IInv, NEW id \in Ids, NEW data \in Data, Insert(id, data)
    PROVE  Running'
  <1> DEFINE m == With(map, id, data, tick + 1)
             total == Counted(map, id, data)
  <1>1. putting' = id /\ tick' = tick /\ map' = map /\ bytes' = bytes
        /\ tick < MaxTick /\ ~ TooLarge(data)
        /\ borrowed' = [map |-> m, bytes |-> total]
    BY DEF Insert, vars
  <1>2. tick \in Nat
    BY DEF IInv, TypeOK
  <1>3. /\ IsFiniteSet(DOMAIN m)
        /\ total = Total(m, DOMAIN m)
        /\ \A k \in DOMAIN m : m[k].last_used \in 1..(tick + 1)
    BY <1>1, WithCounts
  <1>4. m = [k \in DOMAIN m |-> m[k]]
    BY DEF With
  <1>5. Counted(map, putting, data)' = total /\ With(map, putting, data, tick + 1)' = m
    BY <1>1 DEF Counted, With
  <1> HIDE DEF m, total
  <1>6. After(m, 0) = DOMAIN m /\ UpTo(m, 0) = {}
    <2>1. \A k \in DOMAIN m : m[k].last_used > 0 /\ ~ (m[k].last_used <= 0)
      BY <1>2, <1>3
    <2> QED
      BY <2>1 DEF After, UpTo
  <1>7. Total(m, {}) = 0
    <2>1. Held(m, {}) = {}
      BY DEF Held
    <2> QED
      BY <2>1, FS_EmptySet DEF Total
  <1>8. total \in Nat
    BY <1>3, TotalIsNat
  <1>9. 0 \in Thresholds(m) /\ \A u \in Thresholds(m) : ~ (u < 0)
    BY <1>2, <1>3 DEF Thresholds
  <1>10. borrowed' = [map |-> [k \in After(m, 0) |-> m[k]],
                     bytes |-> total - Total(m, UpTo(m, 0))]
    BY <1>1, <1>4, <1>6, <1>7, <1>8
  <1>11. Evicted(m, total, 0, borrowed')
    BY <1>9, <1>10 DEF Evicted
  <1> QED
    BY <1>1, <1>5, <1>11 DEF Running, TooLarge

\* A turn moves the threshold to the least tick that is left, and no threshold lies
\* between the two.
LEMMA TurnMovesOn ==
    ASSUME NEW m, IsFiniteSet(DOMAIN m), m \in [DOMAIN m -> Entries], Small(m),
           \A k \in DOMAIN m : m[k].last_used \in Nat,
           \A j, k \in DOMAIN m : m[j].last_used = m[k].last_used => j = k,
           NEW total, total \in Nat, NEW t \in Nat, NEW inner, Evicted(m, total, t, inner),
           Exceeds(inner), NEW victim \in DOMAIN inner.map, Least(inner.map, victim)
    PROVE  Evicted(m, total, m[victim].last_used, Without(inner, victim))
  <1> DEFINE next == m[victim].last_used
  <1>1. /\ inner.map = [k \in After(m, t) |-> m[k]]
        /\ inner.bytes = total - Total(m, UpTo(m, t))
    BY DEF Evicted
  <1>2. /\ DOMAIN inner.map = After(m, t)
        /\ \A k \in After(m, t) : inner.map[k] = m[k]
    BY <1>1
  <1>3. victim \in After(m, t) /\ victim \in DOMAIN m /\ next \in Nat /\ t < next
    BY <1>2 DEF After
  <1>4. \A k \in After(m, t) : next <= m[k].last_used
    BY <1>2, <1>3 DEF Least
  <1>5. After(m, next) = After(m, t) \ {victim}
    <2>1. ASSUME NEW k \in After(m, next) PROVE k \in After(m, t) \ {victim}
      BY <1>3 DEF After
    <2>2. ASSUME NEW k \in After(m, t) \ {victim} PROVE k \in After(m, next)
      <3>1. k \in DOMAIN m /\ m[k].last_used \in Nat /\ m[k].last_used # next
        BY <1>3 DEF After
      <3> QED
        BY <1>3, <1>4, <3>1 DEF After
    <2> QED
      BY <2>1, <2>2
  <1>6. UpTo(m, next) = UpTo(m, t) \cup {victim} /\ UpTo(m, t) \cap {victim} = {}
    <2>1. /\ UpTo(m, next) = DOMAIN m \ After(m, next)
          /\ UpTo(m, t) = DOMAIN m \ After(m, t)
      BY <1>3 DEF UpTo, After
    <2> QED
      BY <1>3, <1>5, <2>1
  <1>7. Total(m, UpTo(m, next)) = Total(m, UpTo(m, t)) + Size[m[victim].data]
    <2>1. UpTo(m, t) \in SUBSET DOMAIN m
      BY DEF UpTo
    <2>2. IsFiniteSet(UpTo(m, t)) /\ IsFiniteSet({victim})
      BY <2>1, FS_Subset, FS_Singleton
    <2>3. m[victim].data \in Data /\ Size[m[victim].data] <= MaxBytes
      BY <1>3 DEF Small, Entries
    <2>4. Total(m, {victim}) = Size[m[victim].data]
      BY <2>3, TotalOfOne
    <2> QED
      BY <1>6, <2>2, <2>4, TotalAdds
  <1>8. Total(m, UpTo(m, t)) \in Nat /\ Size[m[victim].data] \in Nat
    <2>1. UpTo(m, t) \in SUBSET DOMAIN m
      BY DEF UpTo
    <2>2. m[victim].data \in Data
      BY <1>3 DEF Entries
    <2> QED
      BY <2>1, <2>2, FS_Subset, TotalIsNat, CacheAssumption
  <1>9. Without(inner, victim) =
            [map |-> [k \in After(m, next) |-> m[k]],
             bytes |-> total - Total(m, UpTo(m, next))]
    <2>1. [k \in DOMAIN inner.map \ {victim} |-> inner.map[k]] = [k \in After(m, next) |-> m[k]]
      BY <1>2, <1>5
    <2>2. inner.bytes - Size[inner.map[victim].data] = total - Total(m, UpTo(m, next))
      BY <1>1, <1>2, <1>3, <1>7, <1>8
    <2> QED
      BY <2>1, <2>2 DEF Without
  <1>10. next \in Thresholds(m)
    BY <1>3 DEF Thresholds
  <1>11. ASSUME NEW u \in Thresholds(m), u < next PROVE ~ Fits(m, total, u)
    <2>1. u \in Nat
      BY DEF Thresholds
    <2>2. u <= t
      <3>1. CASE u = 0
        BY <3>1
      <3>2. CASE u # 0
        <4>1. PICK k \in DOMAIN m : u = m[k].last_used
          BY <3>2 DEF Thresholds
        <4>2. k \notin After(m, t)
          BY <1>3, <1>4, <1>11, <2>1, <4>1
        <4> QED
          BY <2>1, <4>1, <4>2 DEF After
      <3> QED
        BY <3>1, <3>2
    <2>3. CASE u = t
      <3>1. Cardinality(After(m, t)) > MaxEntries \/ total - Total(m, UpTo(m, t)) > MaxBytes
        BY <1>1, <1>2 DEF Exceeds
      <3>2. Cardinality(After(m, t)) \in Nat
        <4>1. After(m, t) \in SUBSET DOMAIN m
          BY DEF After
        <4> QED
          BY <4>1, FS_Subset, FS_CardinalityType
      <3>3. total - Total(m, UpTo(m, t)) \in Int
        BY <1>8
      <3> QED
        BY <2>3, <3>1, <3>2, <3>3, CacheAssumption DEF Fits
    <2>4. CASE u < t
      BY <2>4 DEF Evicted
    <2> QED
      BY <2>1, <2>2, <2>3, <2>4
  <1> QED
    BY <1>9, <1>10, <1>11 DEF Evicted

\* What With and Counted make of a cache in order, for Evicted.
LEMMA PutStarts ==
    ASSUME IInv, NEW id \in Ids, NEW data \in Data, ~ TooLarge(data)
    PROVE  LET m == With(map, id, data, tick + 1)
               total == Counted(map, id, data)
           IN
           /\ IsFiniteSet(DOMAIN m) /\ m \in [DOMAIN m -> Entries] /\ Small(m)
           /\ \A k \in DOMAIN m : m[k].last_used \in Nat /\ m[k].last_used > 0
           /\ \A j, k \in DOMAIN m : m[j].last_used = m[k].last_used => j = k
           /\ total = Total(m, DOMAIN m) /\ total \in Nat
           /\ DOMAIN m = DOMAIN map \cup {id} /\ m[id].last_used = tick + 1
           /\ \A k \in DOMAIN map \ {id} : m[k] = map[k]
  <1> DEFINE m == With(map, id, data, tick + 1)
             total == Counted(map, id, data)
  <1>1. tick \in Nat
    BY DEF IInv, TypeOK
  <1>2. /\ IsFiniteSet(DOMAIN m) /\ m \in [DOMAIN m -> Entries] /\ Small(m)
        /\ total = Total(m, DOMAIN m)
        /\ \A k \in DOMAIN m : m[k].last_used \in 1..(tick + 1)
        /\ \A j, k \in DOMAIN m : m[j].last_used = m[k].last_used => j = k
    BY WithCounts
  <1>3. DOMAIN m = DOMAIN map \cup {id} /\ m[id].last_used = tick + 1
        /\ \A k \in DOMAIN map \ {id} : m[k] = map[k]
    BY DEF With
  <1>4. \A k \in DOMAIN m : m[k].last_used \in Nat /\ m[k].last_used > 0
    BY <1>1, <1>2
  <1> QED
    BY <1>2, <1>3, <1>4, TotalIsNat

\* The loop keeps its invariant.
LEMMA EvictRuns ==
    ASSUME IInv, Running, Evict
    PROVE  Running'
  <1>1. UNCHANGED vars /\ putting' = putting /\ Exceeds(borrowed)
    BY DEF Evict
  <1>2. PICK victim \in DOMAIN borrowed.map :
            Least(borrowed.map, victim) /\ borrowed' = Without(borrowed, victim)
    BY DEF Evict
  <1>3. PICK data \in Data, t \in Nat :
            /\ ~ TooLarge(data)
            /\ Evicted(With(map, putting, data, tick + 1), Counted(map, putting, data),
                       t, borrowed)
    BY DEF Running
  <1>4. putting \in Ids /\ tick < MaxTick
    BY DEF Running
  <1> DEFINE m == With(map, putting, data, tick + 1)
             total == Counted(map, putting, data)
             next == m[victim].last_used
  <1>5. m' = m /\ total' = total
    BY <1>1 DEF vars, With, Counted
  <1>6. Evicted(m, total, t, borrowed)
    BY <1>3
  <1>7. /\ IsFiniteSet(DOMAIN m) /\ m \in [DOMAIN m -> Entries] /\ Small(m)
        /\ \A k \in DOMAIN m : m[k].last_used \in Nat /\ m[k].last_used > 0
        /\ \A j, k \in DOMAIN m : m[j].last_used = m[k].last_used => j = k
        /\ total \in Nat
    BY <1>3, <1>4, PutStarts
  <1> HIDE DEF m, total
  <1>8. Evicted(m, total, next, borrowed')
    BY <1>1, <1>2, <1>6, <1>7, TurnMovesOn
  <1>9. next \in Nat
    <2>1. victim \in DOMAIN m
      BY <1>2, <1>6 DEF Evicted, After
    <2> QED
      BY <1>7, <2>1
  <1> QED
    BY <1>1, <1>3, <1>4, <1>5, <1>8, <1>9 DEF Running, TooLarge, vars, m, total

\* The loop ends where Put says: at the least threshold with which the rest fits, and
\* not for want of a victim.
LEMMA ReleaseIsPut ==
    ASSUME IInv, Running, Release
    PROVE  \E data \in Data, t \in Nat :
              LET m == With(map, putting, data, tick + 1)
                  total == Counted(map, putting, data)
              IN
              /\ ~ TooLarge(data) /\ Put(putting, data)
              /\ t \in Thresholds(m) /\ EvictsUpTo(m, total, t)
              /\ tick' = tick + 1 /\ map' = [k \in After(m, t) |-> m[k]]
  <1>1. PICK data \in Data, t \in Nat :
            /\ ~ TooLarge(data)
            /\ Evicted(With(map, putting, data, tick + 1), Counted(map, putting, data),
                       t, borrowed)
    BY DEF Running
  <1>2. putting \in Ids /\ tick < MaxTick
    BY DEF Running
  <1> DEFINE m == With(map, putting, data, tick + 1)
             total == Counted(map, putting, data)
  <1>3. Evicted(m, total, t, borrowed)
    BY <1>1
  <1>4. /\ IsFiniteSet(DOMAIN m) /\ \A k \in DOMAIN m : m[k].last_used \in Nat
        /\ total = Total(m, DOMAIN m) /\ total \in Nat
    BY <1>1, <1>2, PutStarts
  <1>5. tick' = tick + 1 /\ map' = borrowed.map /\ bytes' = borrowed.bytes
    BY DEF Release
  <1>6. Exceeds(borrowed) => DOMAIN borrowed.map = {}
    BY DEF Release
  <1> HIDE DEF m, total
  <1>7. t \in Thresholds(m) /\ borrowed.map = [k \in After(m, t) |-> m[k]]
        /\ borrowed.bytes = total - Total(m, UpTo(m, t))
        /\ \A u \in Thresholds(m) : u < t => ~ Fits(m, total, u)
    BY <1>3 DEF Evicted
  <1>8. borrowed.bytes = Total(borrowed.map, After(m, t))
    <2>1. t \in Int /\ \A k \in DOMAIN m : m[k].last_used \in Int
      BY <1>4
    <2> QED
      BY <1>4, <1>7, <2>1, EvictionCounts
  <1>9. ~ Exceeds(borrowed)
    <2> SUFFICES ASSUME DOMAIN borrowed.map = {} PROVE ~ Exceeds(borrowed)
      BY <1>6
    <2>1. After(m, t) = {}
      BY <1>7
    <2>2. Held(borrowed.map, {}) = {} /\ Cardinality({}) = 0
      BY FS_EmptySet DEF Held
    <2>3. borrowed.bytes = 0
      BY <1>8, <2>1, <2>2 DEF Total
    <2> QED
      BY <2>2, <2>3, CacheAssumption DEF Exceeds
  <1>10. Fits(m, total, t)
    <2>1. After(m, t) \in SUBSET DOMAIN m /\ UpTo(m, t) \in SUBSET DOMAIN m
      BY DEF After, UpTo
    <2>2. IsFiniteSet(After(m, t)) /\ IsFiniteSet(UpTo(m, t))
      BY <1>4, <2>1, FS_Subset
    <2>3. Cardinality(After(m, t)) \in Nat /\ Total(m, UpTo(m, t)) \in Nat
      BY <2>2, FS_CardinalityType, TotalIsNat
    <2>4. DOMAIN borrowed.map = After(m, t)
      BY <1>7
    <2> QED
      BY <1>4, <1>7, <1>9, <2>3, <2>4, CacheAssumption DEF Fits, Exceeds
  <1>11. EvictsUpTo(m, total, t)
    <2>1. ASSUME NEW u \in Thresholds(m), Fits(m, total, u) PROVE t <= u
      <3>1. u \in Nat
        BY <1>4 DEF Thresholds
      <3> QED
        BY <1>7, <2>1, <3>1
    <2> QED
      BY <1>7, <1>10, <2>1 DEF EvictsUpTo
  <1>12. Put(putting, data)
    BY <1>1, <1>2, <1>5, <1>7, <1>11 DEF Put, m, total
  <1> QED
    BY <1>1, <1>5, <1>7, <1>11, <1>12 DEF m, total
\* Whatever the use of id leaves, the history orders as its ticks do.
LEMMA UseIsNewest ==
    ASSUME IInv, InOrder, NEW id \in Ids, NEW m,
           DOMAIN m \subseteq DOMAIN map \cup {id},
           id \in DOMAIN m => m[id].last_used = tick + 1,
           \A k \in DOMAIN m \ {id} : m[k].last_used = map[k].last_used
    PROVE  \A j, k \in DOMAIN m : m[j].last_used < m[k].last_used => <<j, k>> \in UsedLast(id)
  <1>1. tick \in Nat /\ DOMAIN map \subseteq Ids
        /\ \A k \in DOMAIN map : map[k].last_used \in 1..tick
    BY DEF IInv, TypeOK, TicksDistinct
  <1> SUFFICES ASSUME NEW j \in DOMAIN m, NEW k \in DOMAIN m, m[j].last_used < m[k].last_used
               PROVE  <<j, k>> \in UsedLast(id)
    OBVIOUS
  <1>2. \A i \in DOMAIN m : m[i].last_used \in Nat /\ m[i].last_used <= tick + 1
    BY <1>1
  <1>3. j # id
    BY <1>1, <1>2
  <1>4. CASE k = id
    BY <1>1, <1>3, <1>4 DEF UsedLast
  <1>5. CASE k # id
    <2>1. <<j, k>> \in older
      BY <1>3, <1>5 DEF InOrder
    <2>2. <<j, k>>[1] # id
      BY <1>3
    <2> QED
      BY <2>1, <2>2 DEF UsedLast
  <1> QED
    BY <1>4, <1>5

\* A lookup keeps the order.
LEMMA LookUpOrders ==
    ASSUME IInv, InOrder, NEW id \in Ids, LookUp(id)
    PROVE  InOrder'
  <1>1. CASE id \in DOMAIN map
    <2>1. /\ DOMAIN map' = DOMAIN map /\ map'[id].last_used = tick + 1
          /\ \A k \in DOMAIN map \ {id} : map'[k].last_used = map[k].last_used
      BY <1>1 DEF LookUp, Get, Touched, IInv, TypeOK
    <2>2. older' = UsedLast(id)
      BY <1>1 DEF LookUp
    <2>3. \A j, k \in DOMAIN map' :
              map'[j].last_used < map'[k].last_used => <<j, k>> \in UsedLast(id)
      BY <2>1, UseIsNewest
    <2> QED
      BY <2>2, <2>3 DEF InOrder
  <1>2. CASE id \notin DOMAIN map
    BY <1>2 DEF LookUp, Get, InOrder
  <1> QED
    BY <1>1, <1>2

\* A put keeps the order, and what it evicts was used before what it leaves.
LEMMA ReleaseOrders ==
    ASSUME IInv, InOrder, Running, Release
    PROVE  /\ InOrder'
           /\ \A gone \in DOMAIN map \ DOMAIN map', kept \in DOMAIN map' :
                  <<gone, kept>> \in older'
  <1>1. PICK data \in Data, t \in Nat :
            LET m == With(map, putting, data, tick + 1)
                total == Counted(map, putting, data)
            IN
            /\ ~ TooLarge(data) /\ Put(putting, data)
            /\ t \in Thresholds(m) /\ EvictsUpTo(m, total, t)
            /\ tick' = tick + 1 /\ map' = [k \in After(m, t) |-> m[k]]
    BY ReleaseIsPut
  <1>2. putting \in Ids
    BY DEF Running
  <1> DEFINE m == With(map, putting, data, tick + 1)
  <1>3. putting \in After(m, t)
    BY <1>1, <1>2, NewestStays
  <1>4. /\ DOMAIN m = DOMAIN map \cup {putting} /\ m[putting].last_used = tick + 1
        /\ \A k \in DOMAIN map \ {putting} : m[k] = map[k]
        /\ \A k \in DOMAIN m : m[k].last_used \in Nat
    BY <1>1, <1>2, PutStarts
  <1>5. map' = [k \in After(m, t) |-> m[k]]
    BY <1>1
  <1>6. older' = UsedLast(putting)
    BY DEF Release
  <1> HIDE DEF m
  <1>7. \A j, k \in DOMAIN m :
            m[j].last_used < m[k].last_used => <<j, k>> \in UsedLast(putting)
    BY <1>2, <1>4, UseIsNewest
  <1>8. DOMAIN map' = After(m, t) /\ \A k \in After(m, t) : map'[k] = m[k]
    BY <1>5
  <1>9. InOrder'
    BY <1>6, <1>7, <1>8 DEF InOrder, After
  <1>10. ASSUME NEW gone \in DOMAIN map \ DOMAIN map', NEW kept \in DOMAIN map'
         PROVE  <<gone, kept>> \in older'
    <2>1. gone \in DOMAIN m /\ kept \in DOMAIN m /\ m[kept].last_used > t
          /\ ~ (m[gone].last_used > t)
      BY <1>4, <1>8 DEF After
    <2>2. m[gone].last_used < m[kept].last_used
      BY <1>4, <2>1
    <2> QED
      BY <1>6, <1>7, <2>1, <2>2
  <1> QED
    BY <1>9, <1>10

-----------------------------------------------------------------------------
\* A run of the cache, with its loop, starts in order and stays in order.

LEMMA LoopInitInvariant == LoopInit => JInv
  <1> SUFFICES ASSUME LoopInit PROVE JInv
    OBVIOUS
  <1>1. IInv
    BY InitInvariant DEF LoopInit
  <1>2. InOrder
    BY DEF LoopInit, Init, NoEntries, InOrder
  <1> QED
    BY <1>1, <1>2 DEF LoopInit, JInv

\* Every turn, every lookup and every return keeps the loop's invariant.
LEMMA LoopStep == JInv /\ [LoopNext]_loopVars => JInv'
  <1> SUFFICES ASSUME JInv, [LoopNext]_loopVars PROVE JInv'
    OBVIOUS
  <1>0. IInv /\ InOrder /\ (putting # NoId => Running)
    BY DEF JInv
  <1>1. ASSUME NEW id \in Ids, LookUp(id) PROVE JInv'
    <2>1. Get(id) /\ putting' = NoId
      BY <1>1 DEF LookUp
    <2> QED
      BY <1>0, <1>1, <2>1, GetKeeps, LookUpOrders DEF JInv
  <1>2. ASSUME UNCHANGED vars PROVE IInv'
    BY <1>0, <1>2, StepInvariant
  <1>3. ASSUME NEW id \in Ids, NEW data \in Data, Insert(id, data) PROVE JInv'
    <2>1. UNCHANGED <<vars, older>>
      BY <1>3 DEF Insert
    <2>2. Running'
      BY <1>0, <1>3, InsertRuns
    <2>3. InOrder'
      BY <1>0, <2>1 DEF InOrder, vars
    <2> QED
      BY <1>2, <2>1, <2>2, <2>3 DEF JInv
  <1>4. CASE Evict
    <2>1. UNCHANGED <<vars, older>> /\ putting # NoId
      BY <1>4 DEF Evict
    <2>2. Running'
      BY <1>0, <1>4, <2>1, EvictRuns
    <2>3. InOrder'
      BY <1>0, <2>1 DEF InOrder, vars
    <2> QED
      BY <1>2, <2>1, <2>2, <2>3 DEF JInv
  <1>5. CASE Release
    <2>1. Running /\ putting' = NoId
      BY <1>0, <1>5 DEF Release
    <2>2. IInv'
      <3>1. PICK data \in Data : Put(putting, data)
        BY <1>0, <1>5, <2>1, ReleaseIsPut
      <3> QED
        BY <1>0, <2>1, <3>1, PutKeeps DEF Running
    <2>3. InOrder'
      BY <1>0, <1>5, <2>1, ReleaseOrders
    <2> QED
      BY <2>1, <2>2, <2>3 DEF JInv
  <1>6. ASSUME UNCHANGED loopVars PROVE JInv'
    <2>1. UNCHANGED vars /\ older' = older /\ putting' = putting /\ borrowed' = borrowed
      BY <1>6 DEF loopVars
    <2>2. InOrder'
      BY <1>0, <2>1 DEF InOrder, vars
    <2>3. putting' # NoId => Running'
      BY <1>0, <2>1 DEF Running, vars, TooLarge, Evicted, With, Counted
    <2> QED
      BY <1>2, <2>1, <2>2, <2>3 DEF JInv
  <1>7. ASSUME NEW data \in Data, Refuse(data) PROVE JInv'
    BY <1>6, <1>7 DEF Refuse
  <1> QED
    BY <1>1, <1>3, <1>4, <1>5, <1>6, <1>7 DEF LoopNext

\* Between two turns the loop has taken the entries up to a threshold that a lower one
\* would not have served for.
THEOREM LoopInvariant == LoopSpec => []JInv
  BY LoopInitInvariant, LoopStep, PTL DEF LoopSpec

\* The while loop of evict takes, turn by turn, exactly what Put takes at once; so all
\* that is proved of Spec holds of put and evict as they are written.
THEOREM LoopIsPut == LoopSpec => ImplementsMemoryCache
  <1>1. LoopInit => Init
    BY DEF LoopInit
  <1>2. JInv /\ [LoopNext]_loopVars => [Next]_vars
    <2> SUFFICES ASSUME JInv, [LoopNext]_loopVars PROVE [Next]_vars
      OBVIOUS
    <2>1. ASSUME NEW id \in Ids, LookUp(id) PROVE Next
      BY <2>1 DEF LookUp, Next
    <2>2. CASE Release
      <3>1. IInv /\ Running /\ putting \in Ids
        BY <2>2 DEF JInv, Release, Running
      <3>2. PICK data \in Data : Put(putting, data)
        BY <2>2, <3>1, ReleaseIsPut
      <3> QED
        BY <3>1, <3>2 DEF Next
    <2>3. ASSUME NEW id \in Ids, NEW data \in Data, Insert(id, data) PROVE UNCHANGED vars
      BY <2>3 DEF Insert
    <2>4. CASE Evict
      BY <2>4 DEF Evict
    <2>5. ASSUME NEW data \in Data, Refuse(data) PROVE UNCHANGED vars
      BY <2>5 DEF Refuse, loopVars
    <2>6. CASE UNCHANGED loopVars
      BY <2>6 DEF loopVars
    <2> QED
      BY <2>1, <2>2, <2>3, <2>4, <2>5, <2>6 DEF LoopNext
  <1> QED
    BY <1>1, <1>2, LoopInvariant, PTL DEF LoopSpec, ImplementsMemoryCache, Spec

\* What evict takes was used before everything it leaves, whatever lookups and puts
\* went before: an entry just looked up outlives one that was not.
THEOREM EvictionFollowsUse == LoopSpec => EvictsOldest
  <1>1. JInv /\ [LoopNext]_loopVars =>
            [\A gone \in DOMAIN map \ DOMAIN map', kept \in DOMAIN map' :
                <<gone, kept>> \in older']_vars
    <2> SUFFICES ASSUME JInv, [LoopNext]_loopVars, ~ UNCHANGED vars,
                        NEW gone \in DOMAIN map \ DOMAIN map', NEW kept \in DOMAIN map'
                 PROVE  <<gone, kept>> \in older'
      OBVIOUS
    <2>1. ASSUME NEW id \in Ids, LookUp(id) PROVE FALSE
      BY <2>1 DEF LookUp, Get, Touched
    <2>2. CASE Release
      <3>1. IInv /\ InOrder /\ Running
        BY <2>2 DEF JInv, Release
      <3> QED
        BY <2>2, <3>1, ReleaseOrders
    <2> QED
      BY <2>1, <2>2 DEF LoopNext, Insert, Evict, Refuse, loopVars
  <1> QED
    BY <1>1, LoopInvariant, PTL DEF LoopSpec, EvictsOldest

\* No subtraction of the loop wraps the usize, and the break of evict, for want of a
\* victim, is never taken.
THEOREM LoopAccountingHolds == LoopSpec => []LoopAccounting
  <1>1. JInv => LoopAccounting
    <2> SUFFICES ASSUME JInv, putting # NoId
                 PROVE  /\ borrowed.bytes = Total(borrowed.map, DOMAIN borrowed.map)
                        /\ DOMAIN borrowed.map = {} => ~ Exceeds(borrowed)
      BY DEF LoopAccounting
    <2>1. IInv /\ Running /\ putting \in Ids
      BY DEF JInv, Running
    <2>2. PICK data \in Data, t \in Nat :
              /\ ~ TooLarge(data)
              /\ Evicted(With(map, putting, data, tick + 1), Counted(map, putting, data),
                         t, borrowed)
      BY <2>1 DEF Running
    <2> DEFINE m == With(map, putting, data, tick + 1)
               total == Counted(map, putting, data)
    <2>3. /\ IsFiniteSet(DOMAIN m) /\ \A k \in DOMAIN m : m[k].last_used \in Nat
          /\ total = Total(m, DOMAIN m)
      BY <2>1, <2>2, PutStarts
    <2>4. Evicted(m, total, t, borrowed)
      BY <2>2
    <2> HIDE DEF m, total
    <2>5. /\ borrowed.map = [k \in After(m, t) |-> m[k]]
          /\ borrowed.bytes = total - Total(m, UpTo(m, t))
      BY <2>4 DEF Evicted
    <2>6. borrowed.bytes = Total(borrowed.map, DOMAIN borrowed.map)
      <3>1. t \in Int /\ \A k \in DOMAIN m : m[k].last_used \in Int
        BY <2>3
      <3> QED
        BY <2>3, <2>5, <3>1, EvictionCounts
    <2>7. Held(borrowed.map, {}) = {} /\ Cardinality({}) = 0
      BY FS_EmptySet DEF Held
    <2> QED
      BY <2>6, <2>7, CacheAssumption DEF Exceeds, Total
  <1> QED
    BY <1>1, LoopInvariant, PTL
=============================================================================
