---------------------------- MODULE CacheProofs ----------------------------
(***************************************************************************)
(* What the two caches of package cache promise. MemCache: its budget and  *)
(* what a Set may evict, for every budget and every finite set of keys.    *)
(* FileCache: its rows and its files, for any number of calls, retries,    *)
(* crashes and failures.                                                   *)
(***************************************************************************)
EXTENDS MemCache, FileCache, FiniteSetTheorems, TLAPS

(***************************************************************************)
(* The memory cache.                                                       *)
(***************************************************************************)
\* The records present are finite in number, and without E there are
\* Cardinality(E) fewer.
LEMMA EvictionCount ==
    ASSUME Present \subseteq Keys, NEW E \in SUBSET Present
    PROVE  /\ IsFiniteSet(Present) /\ IsFiniteSet(E)
           /\ Cardinality(Present) \in Nat /\ Cardinality(E) \in Nat
           /\ Cardinality(Present \ E) = Cardinality(Present) - Cardinality(E)
<1>1. IsFiniteSet(Present)
  BY CacheConstantsOK, FS_Subset
<1>2. IsFiniteSet(E)
  BY <1>1, FS_Subset
<1>3. Present \cap E = E
  OBVIOUS
<1> QED BY <1>1, <1>2, <1>3, FS_CardinalityType, FS_Difference

\* Every operation keeps the budget. A record that is replaced gives back the
\* room it needs, so that only a new key can make Set enter its loop.
LEMMA BudgetStep == BudgetInv /\ [Next]_vars => BudgetInv'
<1> SUFFICES ASSUME BudgetInv, [Next]_vars PROVE BudgetInv'
  OBVIOUS
<1> USE DEF BudgetInv, TypeOK, WithinBudget, RecordSize, PointerSize
<1>k. Cardinality(Present) \in Nat
  BY EvictionCount
<1>c. MaxSize \in Nat /\ KeepFirst \in Nat /\ MaxNow \in Nat /\ MaxUse \in Nat
  BY CacheConstantsOK
<1>1. CASE Tick
  BY <1>1, <1>c DEF Tick, Present
<1>2. CASE Cleanup
  <2>1. Present' = {}
    BY <1>2 DEF Cleanup, Without, Present
  <2>2. Cardinality(Present') = 0
    BY <2>1, FS_EmptySet
  <2>3. storage' \in [Present' -> Record]
    BY <1>2, <2>1 DEF Cleanup, Without, Present
  <2> QED BY <1>2, <1>k, <1>c, <2>1, <2>2, <2>3 DEF Cleanup
<1>3. ASSUME NEW key \in Keys, Get(key) PROVE BudgetInv'
  <2>1. Present' = Present
    BY <1>3 DEF Get, Present
  <2>2. storage' \in [Present' -> Record]
    BY <1>3, <2>1, <1>c DEF Get, Record
  <2> QED BY <1>3, <1>c, <2>1, <2>2 DEF Get
<1>4. ASSUME NEW key \in Keys, Del(key) PROVE BudgetInv'
  <2>1. Present' = Present \ {key}
    BY <1>4 DEF Del, Without, Present
  <2>2. {key} \in SUBSET Present /\ Cardinality({key}) = 1
    BY <1>4, FS_Singleton DEF Del
  <2>3. Cardinality(Present') = Cardinality(Present) - 1
    BY <2>1, <2>2, EvictionCount
  <2>4. storage' \in [Present' -> Record]
    BY <1>4, <2>1 DEF Del, Without, Present
  <2>5. size' \in Int /\ RecordSize * Cardinality(Present') <= size' /\ size' <= MaxSize
    BY <1>4, <1>k, <1>c, <2>3 DEF Del
  <2> QED BY <1>4, <2>1, <2>4, <2>5 DEF Del
<1>5. ASSUME NEW key \in Keys, NEW value \in Values, Set(key, value)
      PROVE  BudgetInv'
  <2> DEFINE old == key \in Present
             rec == [value    |-> value,
                     addedAt  |-> IF old THEN storage[key].addedAt ELSE now,
                     useCount |-> IF old THEN storage[key].useCount + 1 ELSE 1]
             used == SizeBeforeSet(key)
  <2>1. PICK E \in Evictions(used) :
           \/ /\ Fits(used, E)
              /\ storage' = With(Without(E), key, rec)
              /\ size' = used + RecordSize - RecordSize * Cardinality(E)
           \/ /\ ~Fits(used, E)
              /\ storage' = Without(E)
              /\ size' = used - RecordSize * Cardinality(E)
    BY <1>5 DEF Set
  <2>2. E \in SUBSET Present /\ E \in SUBSET Evictable
    BY DEF Evictions, Evictable
  <2>3. rec \in Record
    BY <1>5, <1>c DEF Set, Record
  <2>4. /\ Cardinality(E) \in Nat
        /\ IsFiniteSet(Present \ E)
        /\ Cardinality(Present \ E) = Cardinality(Present) - Cardinality(E)
    BY <2>2, EvictionCount, FS_Difference
  <2>5. used \in Int /\ used <= size
    BY DEF SizeBeforeSet
  <2>6. now' = now
    BY <1>5, <2>1 DEF Set
  <2>7. CASE key \in Present
    \* Replacing a record needs no room: the loop over evict is not entered.
    <3>1. \A n \in Nat : used + RecordSize - RecordSize * n <= MaxSize
      BY <2>7, <1>c DEF SizeBeforeSet
    <3>2. \A k \in E : Cardinality(E \ {k}) \in Nat
      BY <2>2, EvictionCount
    <3>3. E = {} /\ Fits(used, E)
      BY <2>4, <3>1, <3>2 DEF Evictions, Fits
    <3>4. /\ storage' = With(Without({}), key, rec)
          /\ size' = size
      BY <2>1, <2>7, <3>3, FS_EmptySet DEF SizeBeforeSet
    <3>5. Present' = Present /\ storage' \in [Present -> Record]
      BY <2>3, <2>7, <3>4 DEF With, Without, Present
    <3> QED BY <2>6, <3>4, <3>5
  <2>8. CASE key \notin Present
    <3>1. used = size
      BY <2>8 DEF SizeBeforeSet
    <3>2. CASE Fits(used, E)
      <4>1. Present' = (Present \ E) \cup {key} /\ storage' \in [Present' -> Record]
        BY <2>1, <2>3, <3>2 DEF With, Without, Present
      <4>2. Cardinality(Present') = Cardinality(Present) - Cardinality(E) + 1
        BY <2>4, <2>8, <4>1, FS_AddElement
      <4>3. /\ size' \in Int
            /\ RecordSize * Cardinality(Present') <= size'
            /\ size' <= MaxSize
        BY <1>k, <1>c, <2>1, <2>4, <3>1, <3>2, <4>2 DEF Fits
      <4> QED BY <2>6, <4>1, <4>3
    <3>3. CASE ~Fits(used, E)
      <4>1. Present' = Present \ E /\ storage' \in [Present' -> Record]
        BY <2>1, <3>3 DEF Without, Present
      <4>2. /\ size' \in Int
            /\ RecordSize * Cardinality(Present') <= size'
            /\ size' <= MaxSize
        BY <1>k, <1>c, <2>1, <2>4, <3>1, <3>3, <4>1
      <4> QED BY <2>6, <4>1, <4>2
    <3> QED BY <3>2, <3>3
  <2> QED BY <2>7, <2>8
<1>6. CASE UNCHANGED vars
  BY <1>6 DEF vars, Present
<1> QED BY <1>1, <1>2, <1>3, <1>4, <1>5, <1>6 DEF Next

LEMMA BudgetHolds == Spec => []BudgetInv
<1>1. Init => BudgetInv
  <2> SUFFICES ASSUME Init PROVE BudgetInv
    OBVIOUS
  <2>1. Present = {} /\ Cardinality(Present) = 0
    BY FS_EmptySet DEF Init, Present
  <2> QED BY <2>1, CacheConstantsOK
          DEF Init, BudgetInv, TypeOK, WithinBudget, RecordSize
<1> QED BY <1>1, BudgetStep, PTL DEF Spec

\* The records held never take more than the budget, and c.size never claims
\* less than they take, for every history of operations.
THEOREM CacheWithinBudget == Spec => []WithinBudget
  BY BudgetHolds, PTL DEF BudgetInv

(***************************************************************************)
(* What one Set may do.                                                    *)
(***************************************************************************)
\* Set takes away what it evicts at most, and evict makes room for one record
\* once it has removed one: there was room for all records before the call.
LEMMA EvictionsOfSet ==
    ASSUME BudgetInv, NEW key \in Keys, NEW value \in Values, Set(key, value)
    PROVE  \E E \in SUBSET Evictable :
              /\ Present \ Present' \subseteq E
              /\ \A j, k \in E : j = k
              /\ key \in Present =>
                    Present' = Present /\ storage'[key].value = value
<1> DEFINE old == key \in Present
           rec == [value    |-> value,
                   addedAt  |-> IF old THEN storage[key].addedAt ELSE now,
                   useCount |-> IF old THEN storage[key].useCount + 1 ELSE 1]
           used == SizeBeforeSet(key)
<1>1. PICK E \in Evictions(used) :
         \/ Fits(used, E) /\ storage' = With(Without(E), key, rec)
         \/ ~Fits(used, E) /\ storage' = Without(E)
  BY DEF Set
<1>2. /\ E \in SUBSET Evictable /\ E \in SUBSET Present
      /\ \A k \in E : ~Fits(used, E \ {k})
  BY DEF Evictions, Evictable
<1>3. /\ MaxSize \in Nat /\ size \in Int /\ size <= MaxSize
      /\ used \in Int /\ used <= size
      /\ key \in Present => used = size - RecordSize
  BY CacheConstantsOK DEF BudgetInv, TypeOK, WithinBudget, SizeBeforeSet, RecordSize
<1>4. ASSUME NEW S \in SUBSET E PROVE IsFiniteSet(S) /\ Cardinality(S) \in Nat
  BY <1>2, EvictionCount DEF BudgetInv, TypeOK
<1>5. ASSUME NEW S \in SUBSET E, key \in Present \/ Cardinality(S) # 0 PROVE Fits(used, S)
  BY <1>3, <1>4, <1>5 DEF Fits, RecordSize
<1>6. Present \ Present' \subseteq E
  BY <1>1 DEF With, Without, Present
<1>7. \A j, k \in E : j = k
  <2> SUFFICES ASSUME NEW j \in E, NEW k \in E, j # k PROVE FALSE
    OBVIOUS
  <2>1. Cardinality(E \ {k}) # 0
    BY <1>4, FS_EmptySet
  <2> QED BY <1>2, <1>5, <2>1
<1>8. ASSUME key \in Present PROVE Present' = Present /\ storage'[key].value = value
  <2>1. Fits(used, E) /\ \A k \in E : Fits(used, E \ {k})
    BY <1>5, <1>8
  <2>2. E = {} /\ storage' = With(Without(E), key, rec)
    BY <1>1, <1>2, <2>1
  <2> QED BY <1>8, <2>2 DEF With, Without, Present
<1> QED BY <1>2, <1>6, <1>7, <1>8

\* Set of a key that is present succeeds and evicts nothing, for every budget and
\* whatever Del and Cleanup have left of the count: the record gives back the room
\* that it takes.
THEOREM UpdatesEvictNothing == Spec => UpdateEvictsNothing
<1>1. ASSUME BudgetInv, [Next]_vars, NEW key \in Present, NEW value \in Values, Set(key, value)
      PROVE  Present' = Present /\ storage'[key].value = value
  <2>1. key \in Keys
    BY <1>1 DEF BudgetInv, TypeOK
  <2> QED BY <1>1, <2>1, EvictionsOfSet
<1>2. BudgetInv /\ [Next]_vars =>
         [\A key \in Present, value \in Values :
             Set(key, value) => Present' = Present /\ storage'[key].value = value]_vars
  BY <1>1
<1> QED BY <1>2, BudgetHolds, PTL DEF Spec, UpdateEvictsNothing

\* The loop over evict removes one record at most, and only one that is older than
\* keepFirst: Cleanup and Del leave c.size too large, never too small.
THEOREM EvictsAtMostOneOldRecord == Spec => EvictsOneOldRecord
<1>1. ASSUME BudgetInv, NEW key \in Keys, NEW value \in Values, Set(key, value)
      PROVE  /\ Cardinality(Present \ Present') <= 1
             /\ \A k \in Present \ Present' : storage[k].addedAt < now - KeepFirst
  <2>1. PICK E \in SUBSET Evictable : Present \ Present' \subseteq E /\ \A j, k \in E : j = k
    BY <1>1, EvictionsOfSet
  <2>2. \A k \in Present \ Present' : storage[k].addedAt < now - KeepFirst
    BY <2>1 DEF Evictable
  <2>3. Present \ Present' = {} \/ \E k : Present \ Present' = {k}
    BY <2>1
  <2>4. Cardinality(Present \ Present') \in {0, 1}
    BY <2>3, FS_EmptySet, FS_Singleton
  <2> QED BY <2>2, <2>4
<1>2. BudgetInv /\ [Next]_vars =>
         [\A key \in Keys, value \in Values :
             Set(key, value) =>
                /\ Cardinality(Present \ Present') <= 1
                /\ \A k \in Present \ Present' : storage[k].addedAt < now - KeepFirst]_vars
  BY <1>1
<1> QED BY <1>2, BudgetHolds, PTL DEF Spec, EvictsOneOldRecord

(***************************************************************************)
(* The file cache.                                                         *)
(***************************************************************************)
LEMMA FileInvInit == FileInit => FileInv
  BY FileCacheConstantsOK
     DEF FileInit, FileInv, FileTypeOK, RecordedFileIsWhole, BodyIsWhole, RecordsWhole,
         OneWriter, SeenIsRecorded, CallOrder, Files, Contents, Downloading, NoFile

LEMMA FileInvStep == FileInv /\ [FileNext]_fileVars => FileInv'
<1> SUFFICES ASSUME FileInv, [FileNext]_fileVars PROVE FileInv'
  OBVIOUS
<1> USE FileCacheConstantsOK
    DEF FileInv, FileTypeOK, RecordedFileIsWhole, BodyIsWhole, RecordsWhole,
        OneWriter, SeenIsRecorded, CallOrder, Files, Contents, Downloading, Goto
<1>1. ASSUME NEW c \in Calls, getCacheRecord(c) PROVE FileInv'
  BY <1>1 DEF getCacheRecord
<1>2. ASSUME NEW c \in Calls, LookForFile(c) PROVE FileInv'
  BY <1>2 DEF LookForFile, Exists
<1>3. ASSUME NEW c \in Calls, Read(c) PROVE FileInv'
  BY <1>3 DEF Read
<1>4. ASSUME NEW c \in Calls, Request(c) PROVE FileInv'
  BY <1>4 DEF Request
<1>5. ASSUME NEW c \in Calls, CreateFile(c) PROVE FileInv'
  BY <1>5 DEF CreateFile
<1>6. ASSUME NEW c \in Calls, Copy(c) PROVE FileInv'
  BY <1>6 DEF Copy
<1>7. ASSUME NEW c \in Calls, setCacheRecord(c) PROVE FileInv'
  BY <1>7 DEF setCacheRecord
<1>8. ASSUME NEW c \in Calls, BgRequest(c) PROVE FileInv'
  BY <1>8 DEF BgRequest
<1>9. ASSUME NEW c \in Calls, BgCreateFile(c) PROVE FileInv'
  BY <1>9 DEF BgCreateFile
<1>10. ASSUME NEW c \in Calls, BgCopy(c) PROVE FileInv'
  BY <1>10 DEF BgCopy
<1>11. ASSUME NEW c \in Calls, contentTypeUpdate(c) PROVE FileInv'
  BY <1>11 DEF contentTypeUpdate
<1>12. CASE Crash
  BY <1>12 DEF Crash
<1>13. CASE UNCHANGED fileVars
  BY <1>13 DEF fileVars
<1> QED BY <1>1, <1>2, <1>3, <1>4, <1>5, <1>6, <1>7, <1>8, <1>9, <1>10, <1>11,
           <1>12, <1>13 DEF FileNext, CallStep, BackgroundStep

\* A row points to a complete file, or to one left to the background.
THEOREM RecordedFiles == FileSpec => []RecordedFileIsWhole
<1>1. FileInv => RecordedFileIsWhole
  BY DEF FileInv
<1> QED BY <1>1, FileInvInit, FileInvStep, PTL DEF FileSpec

\* A part of the content comes only out of a file left to the background.
THEOREM WholeBodies == FileSpec => []BodyIsWhole
<1>1. FileInv => BodyIsWhole
  BY DEF FileInv
<1> QED BY <1>1, FileInvInit, FileInvStep, PTL DEF FileSpec

\* No step writes to a file that is complete.
THEOREM NothingIsRewritten == FileSpec => FullStaysFull
<1>1. FileInv /\ [FileNext]_fileVars
      => [\A c \in Calls : file[c] = "full" => file'[c] = "full"]_fileVars
  <2> SUFFICES ASSUME FileInv, FileNext, NEW c \in Calls, file[c] = "full"
               PROVE  file'[c] = "full"
    OBVIOUS
  <2>1. /\ file \in [Calls -> Contents]
        /\ \A d \in Calls : file[d] = "full"
              => pc[d] \notin Downloading /\ bg[d] \notin Downloading
    BY DEF FileInv, FileTypeOK, OneWriter
  <2>2. CASE file' = file
    BY <2>2
  <2>3. CASE \E d \in Calls :
               CreateFile(d) \/ Copy(d) \/ BgCreateFile(d) \/ BgCopy(d)
    BY <2>1, <2>3 DEF CreateFile, Copy, BgCreateFile, BgCopy, Downloading
  <2> QED BY <2>2, <2>3 DEF FileNext, CallStep, BackgroundStep, getCacheRecord,
             LookForFile, Read, Request, setCacheRecord, BgRequest,
             contentTypeUpdate, Crash
<1> QED BY <1>1, FileInvInit, FileInvStep, PTL DEF FileSpec, FullStaysFull
=============================================================================
