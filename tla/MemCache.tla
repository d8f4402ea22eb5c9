------------------------------ MODULE MemCache ------------------------------
(***************************************************************************)
(* cache/memcache: a map with a byte budget. Every operation holds the one *)
(* lock from start to end, so each is one step; time passes in between.    *)
(***************************************************************************)
EXTENDS Integers, FiniteSets

CONSTANTS
    Keys, Values,
    MaxSize,     \* maxSize, in bytes
    KeepFirst,   \* keepFirst, in ticks of the clock
    MaxNow,      \* bound: ticks of the clock
    MaxUse       \* bound: UseCount of a record

ASSUME CacheConstantsOK ==
    /\ IsFiniteSet(Keys)
    /\ {MaxSize, KeepFirst, MaxNow, MaxUse} \subseteq Nat

VARIABLES
    storage,     \* the map: a function on the keys that are present
    size,        \* c.size
    now          \* time.Now().Unix()

vars == <<storage, size, now>>

RecordSize == 48    \* of a cacheRec: 16 + 16 + 8 + 8 bytes
PointerSize == 8    \* of a *cacheRec

Present == DOMAIN storage

Record == [value : Values, addedAt : 0 .. MaxNow, useCount : 1 .. MaxUse + 1]

Init ==
    /\ storage = [k \in {} |-> 0]
    /\ size = 0
    /\ now = 0

Without(E) == [k \in Present \ E |-> storage[k]]

With(f, key, rec) ==
    [k \in DOMAIN f \cup {key} |-> IF k = key THEN rec ELSE f[k]]

Tick ==
    /\ now < MaxNow
    /\ now' = now + 1
    /\ UNCHANGED <<storage, size>>

Get(key) ==
    /\ key \in Present /\ storage[key].useCount <= MaxUse
    /\ storage' = [storage EXCEPT ![key].useCount = @ + 1]
    /\ UNCHANGED <<size, now>>

(***************************************************************************)
(* Set, with the loop over evict.                                          *)
(***************************************************************************)
\* Mutant: records are evicted whatever their age.
EvictableAtAnyAge == Present

Evictable == {k \in Present : storage[k].addedAt < now - KeepFirst}

\* c.size+sz > c.maxSize is false once E is evicted; used is c.size by then.
Fits(used, E) == used + RecordSize - RecordSize * Cardinality(E) <= MaxSize

\* The sets that repeated calls of evict can remove: least used records first,
\* no more than needed, and all there are when nothing is enough. Records used
\* equally often go in the order of Go's map iteration, which is arbitrary.
Evictions(used) ==
    {E \in SUBSET Evictable :
        /\ \A k \in E, j \in Evictable \ E :
              storage[k].useCount <= storage[j].useCount
        /\ \A k \in E : ~Fits(used, E \ {k})
        /\ Fits(used, E) \/ E = Evictable}

\* Mutant: the size of the record that is replaced is not given back.
SizeBeforeSetKept(key) == size

SizeBeforeSet(key) == IF key \in Present THEN size - RecordSize ELSE size

Set(key, value) ==
    LET old == key \in Present
        rec == [value    |-> value,
                addedAt  |-> IF old THEN storage[key].addedAt ELSE now,
                useCount |-> IF old THEN storage[key].useCount + 1 ELSE 1]
        used == SizeBeforeSet(key)
    IN  /\ rec.useCount <= MaxUse + 1
        /\ \E E \in Evictions(used) :
              \/ /\ Fits(used, E)
                 /\ storage' = With(Without(E), key, rec)
                 /\ size' = used + RecordSize - RecordSize * Cardinality(E)
              \/ /\ ~Fits(used, E)
                 /\ storage' = Without(E)
                 /\ size' = used - RecordSize * Cardinality(E)
        /\ UNCHANGED now

\* Mutant: a record is given back twice its size.
DelTwice(key) ==
    /\ key \in Present
    /\ storage' = Without({key})
    /\ size' = size - 2 * RecordSize
    /\ UNCHANGED now

\* valueSize(v) is the size of the pointer that v is.
Del(key) ==
    /\ key \in Present
    /\ storage' = Without({key})
    /\ size' = size - PointerSize
    /\ UNCHANGED now

Cleanup ==
    /\ storage' = Without(Present)
    /\ UNCHANGED <<size, now>>

Next ==
    \/ Tick
    \/ Cleanup
    \/ \E key \in Keys : Get(key) \/ Del(key)
    \/ \E key \in Keys, value \in Values : Set(key, value)

Spec == Init /\ [][Next]_vars

-----------------------------------------------------------------------------
TypeOK ==
    /\ Present \subseteq Keys
    /\ storage \in [Present -> Record]
    /\ size \in Int
    /\ now \in 0 .. MaxNow

\* Whatever is set, deleted and cleaned up, the records held never take more
\* than the cache was given: c.size counts at least what is there, and stays
\* within maxSize.
WithinBudget ==
    /\ RecordSize * Cardinality(Present) <= size
    /\ size <= MaxSize

\* The inductive invariant: it is inductive as it stands, because Del gives
\* back too little and Cleanup nothing, never too much.
BudgetInv == TypeOK /\ WithinBudget

\* Setting a key that is present always succeeds and evicts nothing.
UpdateEvictsNothing ==
    [][\A key \in Present, value \in Values :
          Set(key, value) => Present' = Present /\ storage'[key].value = value]_vars

\* A Set makes room by evicting one record at most, and never one that is
\* younger than keepFirst.
EvictsOneOldRecord ==
    [][\A key \in Keys, value \in Values :
          Set(key, value) =>
             /\ Cardinality(Present \ Present') <= 1
             /\ \A k \in Present \ Present' : storage[k].addedAt < now - KeepFirst]_vars
=============================================================================
