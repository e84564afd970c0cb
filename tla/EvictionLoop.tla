----------------------------- MODULE EvictionLoop -----------------------------
(***************************************************************************)
(* put of src/src/cache.rs taken apart: the insertion, every turn of the   *)
(* while loop of evict, and the return that gives the RefCell back.  The   *)
(* variables of MemoryCache are the Inner that the next borrower finds; a  *)
(* put works on what it has borrowed, and no other call can look at that.  *)
(*                                                                         *)
(* The variable older is a history: who was used before whom.              *)
(***************************************************************************)
EXTENDS MemoryCache

CONSTANT NoId   \* no put is running

ASSUME LoopAssumption == NoId \notin Ids

VARIABLES
    putting,    \* the identity that is being put
    borrowed,   \* the map and the byte count of the Inner that put has borrowed
    older       \* <<a, b>>: b was used, and a has not been used since

loopVars == <<vars, putting, borrowed, older>>

Nothing == [map |-> NoEntries, bytes |-> 0]

\* A use of id, by a lookup or a put, leaves it the most recently used one.
UsedLast(id) == {p \in older : p[1] # id} \cup ((Ids \ {id}) \X {id})

LoopInit ==
    /\ Init
    /\ putting = NoId
    /\ borrowed = Nothing
    /\ older = {}

LookUp(id) ==
    /\ putting = NoId
    /\ Get(id)
    /\ older' = IF id \in DOMAIN map THEN UsedLast(id) ELSE older
    /\ UNCHANGED <<putting, borrowed>>

\* put returns before it borrows anything.
Refuse(data) ==
    /\ putting = NoId
    /\ TooLarge(data)
    /\ UNCHANGED loopVars

\* The entry replaces its predecessor and both sizes are accounted for.
Insert(id, data) ==
    /\ putting = NoId
    /\ ~ TooLarge(data)
    /\ tick < MaxTick
    /\ putting' = id
    /\ borrowed' = [map |-> With(map, id, data, tick + 1), bytes |-> Counted(map, id, data)]
    /\ UNCHANGED <<vars, older>>

\* Slips: only one of the bounds is looked at; a bound that is met counts as exceeded.
Exceeds_BytesOnly(inner) == inner.bytes > MaxBytes
Exceeds_AtBound(inner) ==
    Cardinality(DOMAIN inner.map) >= MaxEntries \/ inner.bytes > MaxBytes

\* The condition of the loop.
Exceeds(inner) == Cardinality(DOMAIN inner.map) > MaxEntries \/ inner.bytes > MaxBytes

Least(m, victim) == \A k \in DOMAIN m : m[victim].last_used <= m[k].last_used

\* Slip: an entry goes and its size stays.
Without_Uncounted(inner, victim) ==
    [map |-> [k \in DOMAIN inner.map \ {victim} |-> inner.map[k]], bytes |-> inner.bytes]

Without(inner, victim) ==
    [map |-> [k \in DOMAIN inner.map \ {victim} |-> inner.map[k]],
     bytes |-> inner.bytes - Size[inner.map[victim].data]]

\* One turn: the entry with the least last_used goes, and its size with it.
Evict ==
    /\ putting # NoId
    /\ Exceeds(borrowed)
    /\ \E victim \in DOMAIN borrowed.map :
        Least(borrowed.map, victim) /\ borrowed' = Without(borrowed, victim)
    /\ UNCHANGED <<vars, putting, older>>

\* The loop is over, or breaks for want of a victim, and put returns.
Release ==
    /\ putting # NoId
    /\ Exceeds(borrowed) => DOMAIN borrowed.map = {}
    /\ tick' = tick + 1
    /\ map' = borrowed.map
    /\ bytes' = borrowed.bytes
    /\ older' = UsedLast(putting)
    /\ putting' = NoId
    /\ borrowed' = Nothing

LoopNext ==
    \/ \E id \in Ids : LookUp(id) \/ \E data \in Data : Insert(id, data)
    \/ \E data \in Data : Refuse(data)
    \/ Evict
    \/ Release

LoopSpec == LoopInit /\ [][LoopNext]_loopVars

-----------------------------------------------------------------------------
\* While a put is running, the byte count it works on is the sum of the sizes it
\* still holds; so no turn of the loop wraps the usize of cache.rs, and the loop does
\* not run out of victims with its bounds exceeded.
LoopAccounting ==
    putting # NoId =>
        /\ borrowed.bytes = Total(borrowed.map, DOMAIN borrowed.map)
        /\ DOMAIN borrowed.map = {} => ~ Exceeds(borrowed)

\* cache.rs "evicting the least-recently-used entries": what an eviction takes was
\* last used, by a lookup or a put, before everything it leaves.
EvictsOldest ==
    [][\A gone \in DOMAIN map \ DOMAIN map', kept \in DOMAIN map' :
            <<gone, kept>> \in older']_vars

\* However many turns it takes, the loop of evict takes what Put says in one step:
\* the entries up to the least threshold of last_used with which both bounds hold.
ImplementsMemoryCache == Spec
=============================================================================
