--------------------------- MODULE MigratorProofs ---------------------------
(***************************************************************************)
(* Migrator, for any number of instances, files and failures: what         *)
(* schema_migrations says, that nothing is applied twice by instances of   *)
(* one release that do not overlap, that files are applied in their order, *)
(* and that none is left out.                                              *)
(***************************************************************************)
EXTENDS Migrator, SequenceTheorems, TLAPS

Applying == {"begin", "apply", "record", "commit"}

\* What holds of an instance at each point: its transaction and its attempts.
TxInvOf(i) ==
    /\ pc[i] \in Applying => cur[i] \in Tree
    /\ pc[i] = "record" => tx[i] = {"effect"}
    /\ pc[i] = "commit" => tx[i] = {"effect", "row"}
    /\ pc[i] \notin {"record", "commit"} => tx[i] = {}
    /\ pc[i] = "connect" => tries[i] < Retries
    /\ pc[i] = "new" => tries[i] = 0

TxInv == \A i \in Instances : TxInvOf(i)

\* Contents that took effect took effect once, and are recorded under the name of
\* a file that has them.
AppliedOnce(c) ==
    effects[c] = 0 \/ /\ effects[c] = 1
                      /\ \E i \in Instances, f \in Tree : hash[i][f] = c /\ rows[Base(f)] = c

\* Instances of one release that do not overlap: one is at work at a time, and
\* what it applies has not been applied.
AloneInv ==
    SameRelease /\ ~overlapped =>
        /\ \A i, j \in Instances : Migrating(i) /\ Migrating(j) => i = j
        /\ \A c \in Contents : NamedApart(c) => AppliedOnce(c)
        /\ \A i \in Instances : pc[i] \in Applying /\ NamedApart(hash[i][cur[i]]) =>
              effects[hash[i][cur[i]]] = 0

MigratorInv == TypeOK /\ TxInv /\ RecordsTheLatest /\ AloneInv

LEMMA ContentsType ==
    ASSUME TypeOK, NEW i \in Instances, NEW f \in Tree
    PROVE  hash[i][f] \in Contents /\ Base(f) \in Names
  BY MigratorConstantsOK DEF TypeOK

\* Every step leaves the files alone.
LEMMA FilesStay == [Next]_vars => hash' = hash
  BY DEF Next, vars, Start, Step, Crash, Connect, Ping, CheckTable, CreateTable, StatDir,
     ProcessDir, Finish, LookUp, BeginTransaction, Apply, Record, Commit

Places == {"new", "connect", "ping", "table", "create", "stat", "walk"} \cup Applying \cup Ended

\* An instance moves on, and nobody else does.
Moves(i) ==
    /\ pc' = [pc EXCEPT ![i] = pc'[i]] /\ tx' = [tx EXCEPT ![i] = tx'[i]]
    /\ cur' = [cur EXCEPT ![i] = cur'[i]] /\ tries' = [tries EXCEPT ![i] = tries'[i]]
    /\ pc'[i] \in Places /\ tx'[i] \in SUBSET {"effect", "row"}
    /\ cur'[i] \in Tree \cup {NoFile} /\ tries'[i] \in 0 .. Retries
    /\ TxInvOf(i)'

ControlOK ==
    /\ pc \in [Instances -> Places]
    /\ tries \in [Instances -> 0 .. Retries]
    /\ cur \in [Instances -> Tree \cup {NoFile}]
    /\ tx \in [Instances -> SUBSET {"effect", "row"}]

DataOK ==
    /\ table \in BOOLEAN
    /\ rows \in [Names -> Contents \cup {None}]
    /\ effects \in [Contents -> Nat]
    /\ latest \in [Names -> Contents \cup {None}]
    /\ hash \in [Instances -> Releases]
    /\ lost \in SUBSET Instances
    /\ overlapped \in BOOLEAN

TodoOK == todo \in [Instances -> SUBSET Seq(Nat)]

LEMMA TypeSplit == TypeOK <=> ControlOK /\ DataOK /\ TodoOK
  BY DEF TypeOK, ControlOK, DataOK, TodoOK, Places, Applying, Ended

LEMMA TypeSplitNext == ControlOK' /\ DataOK' /\ TodoOK' => TypeOK'
  BY DEF TypeOK, ControlOK, DataOK, TodoOK, Places, Applying, Ended

LEMMA Moved ==
    ASSUME ControlOK, TxInv, NEW i \in Instances, Moves(i)
    PROVE  ControlOK' /\ TxInv'
<1>1. ControlOK'
  BY DEF Moves, ControlOK
<1>2. ASSUME NEW j \in Instances PROVE TxInvOf(j)'
  <2>1. CASE j = i
    BY <2>1 DEF Moves
  <2>2. CASE j # i
    <3>1. TxInvOf(j)
      BY DEF TxInv
    <3>2. pc'[j] = pc[j] /\ tx'[j] = tx[j] /\ cur'[j] = cur[j] /\ tries'[j] = tries[j]
      BY <2>2 DEF Moves, ControlOK
    <3> QED BY <3>1, <3>2 DEF TxInvOf
  <2> QED BY <2>1, <2>2
<1> QED BY <1>1, <1>2 DEF TxInv

LEMMA EveryStepMoves ==
    ASSUME ControlOK, TxInv, NEW i \in Instances, Start(i) \/ Step(i) \/ Crash(i)
    PROVE  Moves(i)
<1> USE MigratorConstantsOK DEF ControlOK, Moves, TxInvOf, Goto, Places, Applying, Ended
<1>1. CASE Start(i)
  BY <1>1 DEF Start, TxInv
<1>2. CASE Connect(i)
  <2>1. /\ pc[i] = "connect" /\ tries[i] < Retries /\ tx[i] = {}
        /\ UNCHANGED <<cur, tx>>
    BY <1>2 DEF Connect, TxInv
  <2>2. CASE Goto(i, "ping") /\ tries' = [tries EXCEPT ![i] = 0]
    BY <2>1, <2>2
  <2>3. CASE /\ tries' = [tries EXCEPT ![i] = @ + 1]
             /\ Goto(i, IF tries[i] + 1 < Retries THEN "connect" ELSE "failed")
    <3>1. tries[i] \in Nat /\ tries[i] + 1 \in 0 .. Retries
      BY <2>1
    <3>2. CASE tries[i] + 1 < Retries
      BY <2>1, <2>3, <3>1, <3>2
    <3>3. CASE ~(tries[i] + 1 < Retries)
      BY <2>1, <2>3, <3>1, <3>3
    <3> QED BY <3>2, <3>3
  <2> QED BY <1>2, <2>2, <2>3 DEF Connect
<1>3. CASE Ping(i) \/ CheckTable(i) \/ CreateTable(i) \/ StatDir(i)
  <2>1. /\ \E w \in {"table", "unmigrated", "stat", "create", "walk", "failed"} :
              pc' = [pc EXCEPT ![i] = w]
        /\ pc[i] \in {"ping", "table", "create", "stat"}
        /\ UNCHANGED <<cur, tx, tries>>
    BY <1>3 DEF Ping, CheckTable, CreateTable, StatDir
  <2>2. tx[i] = {}
    BY <2>1 DEF TxInv
  <2> QED BY <2>1, <2>2
<1>4. ASSUME NEW dir, ProcessDir(i, dir) PROVE Moves(i)
  BY <1>4 DEF ProcessDir, TxInv
<1>5. CASE Finish(i)
  BY <1>5 DEF Finish, TxInv
<1>6. ASSUME NEW file, LookUp(i, file) PROVE Moves(i)
  <2>1. /\ pc[i] = "walk" /\ file \in Tree
        /\ cur' = [cur EXCEPT ![i] = file]
        /\ pc' = pc \/ (\E w \in {"begin", "failed"} : pc' = [pc EXCEPT ![i] = w])
        /\ UNCHANGED <<tries, tx>>
    BY <1>6 DEF LookUp
  <2>2. tx[i] = {}
    BY <2>1 DEF TxInv
  <2>3. cur'[i] \in Tree
    BY <2>1
  <2> QED BY <2>1, <2>2, <2>3
<1>7. CASE BeginTransaction(i)
  <2>1. /\ pc[i] = "begin" /\ \E w \in {"apply", "failed"} : pc' = [pc EXCEPT ![i] = w]
        /\ UNCHANGED <<cur, tx, tries>>
    BY <1>7 DEF BeginTransaction
  <2>2. tx[i] = {} /\ cur[i] \in Tree
    BY <2>1 DEF TxInv
  <2> QED BY <2>1, <2>2
<1>8. CASE Apply(i) \/ Record(i)
  <2>1. /\ pc[i] \in {"apply", "record"} /\ UNCHANGED <<cur, tries>>
        /\ \/ pc[i] = "apply" /\ tx' = [tx EXCEPT ![i] = tx[i] \cup {"effect"}]
              /\ pc' = [pc EXCEPT ![i] = "record"]
           \/ pc[i] = "record" /\ tx' = [tx EXCEPT ![i] = tx[i] \cup {"row"}]
              /\ pc' = [pc EXCEPT ![i] = "commit"]
           \/ tx' = [tx EXCEPT ![i] = {}] /\ pc' = [pc EXCEPT ![i] = "failed"]
    BY <1>8 DEF Apply, Record, Fail, Rollback
  <2>2. /\ cur[i] \in Tree
        /\ pc[i] = "apply" => tx[i] \cup {"effect"} = {"effect"}
        /\ pc[i] = "record" => tx[i] \cup {"row"} = {"effect", "row"}
    BY <2>1 DEF TxInv
  <2> QED BY <2>1, <2>2
<1>9. CASE Commit(i) \/ Crash(i)
  <2>1. /\ \E w \in {"walk", "failed"} : pc' = [pc EXCEPT ![i] = w]
        /\ tx' = [tx EXCEPT ![i] = {}] /\ UNCHANGED <<cur, tries>>
    BY <1>9 DEF Commit, Crash, Rollback
  <2> QED BY <2>1
<1> QED BY <1>1, <1>2, <1>3, <1>4, <1>5, <1>6, <1>7, <1>8, <1>9 DEF Step
\* A step that commits nothing: who starts to migrate alone knows, and who takes
\* up a file has not found it recorded.
Quiet(i) ==
    /\ rows' = rows /\ effects' = effects /\ latest' = latest
    /\ overlapped => overlapped'
    /\ Migrating(i)' => Migrating(i) \/ overlapped' \/ \A j \in Instances : ~Migrating(j)
    /\ pc'[i] \in Applying => \/ pc[i] \in Applying /\ cur'[i] = cur[i]
                              \/ cur'[i] \in Tree /\ ~Recorded(i, cur'[i])

\* A step that commits a file.
Commits(i, c, n) ==
    /\ pc[i] = "commit" /\ pc'[i] = "walk" /\ overlapped' = overlapped
    /\ c = hash[i][cur[i]] /\ n = Base(cur[i])
    /\ rows' = [rows EXCEPT ![n] = c] /\ latest' = [latest EXCEPT ![n] = c]
    /\ effects' = [effects EXCEPT ![c] = @ + 1]

LEMMA QuietOrCommit ==
    ASSUME ControlOK, DataOK, TxInv, NEW i \in Instances, Start(i) \/ Step(i) \/ Crash(i)
    PROVE  Quiet(i) \/ \E c \in Contents, n \in Names : Commits(i, c, n)
<1> USE DEF Quiet, Migrating, Goto, Applying, Ended, database, history
<1>1. CASE Start(i) \/ Connect(i)
  BY <1>1 DEF Start, Connect, ControlOK
<1>2. CASE Ping(i)
  <2>1. CASE pc' = [pc EXCEPT ![i] = "table"] /\ overlapped' = (overlapped \/ \E j \in Instances : Migrating(j))
    BY <1>2, <2>1 DEF Ping, ControlOK
  <2>2. CASE \E w \in {"unmigrated", "failed"} : pc' = [pc EXCEPT ![i] = w] /\ UNCHANGED overlapped
    BY <1>2, <2>2 DEF Ping, ControlOK
  <2> QED BY <1>2, <2>1, <2>2 DEF Ping
<1>3. CASE \/ CheckTable(i) \/ CreateTable(i) \/ StatDir(i) \/ Finish(i)
           \/ \E dir \in todo[i] : ProcessDir(i, dir)
  <2>1. /\ pc[i] \in {"table", "create", "stat", "walk"}
        /\ pc' = pc \/ \E w \in {"stat", "create", "walk", "done", "failed"} : pc' = [pc EXCEPT ![i] = w]
        /\ UNCHANGED <<rows, effects, latest, overlapped>>
    BY <1>3 DEF CheckTable, CreateTable, StatDir, ProcessDir, Finish
  <2> QED BY <2>1 DEF ControlOK
<1>4. ASSUME NEW file, LookUp(i, file) PROVE Quiet(i)
  <2>1. /\ pc[i] = "walk" /\ file \in Tree
        /\ cur' = [cur EXCEPT ![i] = file]
        /\ \/ pc' = pc
           \/ pc' = [pc EXCEPT ![i] = "failed"]
           \/ pc' = [pc EXCEPT ![i] = "begin"] /\ ~Recorded(i, file)
        /\ UNCHANGED <<rows, effects, latest, overlapped>>
    BY <1>4 DEF LookUp
  <2>2. cur'[i] = file
    BY <2>1 DEF ControlOK
  <2> QED BY <2>1, <2>2 DEF ControlOK
<1>5. CASE BeginTransaction(i) \/ Apply(i) \/ Record(i) \/ Crash(i)
  <2>1. /\ pc[i] \notin {"new"} \cup Ended
        /\ \/ pc' = [pc EXCEPT ![i] = "failed"]
           \/ /\ \E w \in {"apply", "record", "commit"} : pc' = [pc EXCEPT ![i] = w]
              /\ pc[i] \in Applying
        /\ UNCHANGED <<rows, effects, latest, cur, overlapped>>
    BY <1>5 DEF BeginTransaction, Apply, Record, Crash, Fail
  <2> QED BY <2>1 DEF ControlOK
<1>6. CASE Commit(i)
  <2> DEFINE c == hash[i][cur[i]]
             n == Base(cur[i])
  <2>1. pc[i] = "commit" /\ pc'[i] = "walk" /\ overlapped' = overlapped
    BY <1>6 DEF Commit, ControlOK
  <2>2. tx[i] = {"effect", "row"} /\ cur[i] \in Tree
    BY <2>1 DEF TxInv, TxInvOf
  <2>3. c \in Contents /\ n \in Names
    BY <2>2, MigratorConstantsOK DEF DataOK
  <2>4. CASE UNCHANGED <<rows, effects, latest>>
    BY <2>1, <2>4
  <2>5. CASE /\ rows' = IF "row" \in tx[i] THEN [rows EXCEPT ![n] = c] ELSE rows
             /\ effects' = IF "effect" \in tx[i] THEN [effects EXCEPT ![c] = @ + 1] ELSE effects
             /\ latest' = IF "effect" \in tx[i] THEN [latest EXCEPT ![n] = c] ELSE latest
    <3> HIDE DEF c, n
    <3>1. /\ rows' = [rows EXCEPT ![n] = c] /\ latest' = [latest EXCEPT ![n] = c]
          /\ effects' = [effects EXCEPT ![c] = @ + 1]
      BY <2>2, <2>5
    <3>2. Commits(i, c, n)
      BY <2>1, <3>1 DEF Commits, c, n
    <3> QED BY <2>3, <3>2
  <2> QED BY <1>6, <2>4, <2>5 DEF Commit
<1> QED BY <1>1, <1>2, <1>3, <1>4, <1>5, <1>6 DEF Step
LEMMA DataStep ==
    ASSUME ControlOK, DataOK, TxInv, RecordsTheLatest, [Next]_vars
    PROVE  DataOK' /\ RecordsTheLatest'
<1>1. hash' = hash
  BY FilesStay
<1>2. table' \in BOOLEAN /\ overlapped' \in BOOLEAN /\ lost' \in SUBSET Instances
  <2> USE DEF DataOK, database, history
  <2>1. CASE UNCHANGED vars
    BY <2>1 DEF vars
  <2>2. ASSUME NEW i \in Instances, NEW p, ProcessDir(i, p) \/ LookUp(i, p)
        PROVE  table' \in BOOLEAN /\ overlapped' \in BOOLEAN /\ lost' \in SUBSET Instances
    BY <2>2 DEF ProcessDir, LookUp
  <2>3. ASSUME NEW i \in Instances,
               \/ Start(i) \/ Crash(i) \/ Connect(i) \/ Ping(i) \/ CheckTable(i) \/ CreateTable(i)
               \/ StatDir(i) \/ Finish(i) \/ BeginTransaction(i) \/ Apply(i) \/ Record(i) \/ Commit(i)
        PROVE  table' \in BOOLEAN /\ overlapped' \in BOOLEAN /\ lost' \in SUBSET Instances
    BY <2>3 DEF Start, Crash, Connect, Ping, CheckTable, CreateTable, StatDir, Finish,
       BeginTransaction, Apply, Record, Commit
  <2> QED BY <2>1, <2>2, <2>3 DEF Next, Step
<1>3. CASE UNCHANGED <<rows, effects, latest>>
  BY <1>1, <1>2, <1>3 DEF DataOK, RecordsTheLatest
<1>4. ASSUME NEW i \in Instances, NEW c \in Contents, NEW n \in Names, Commits(i, c, n)
      PROVE  DataOK' /\ RecordsTheLatest'
  <2>1. rows' \in [Names -> Contents \cup {None}] /\ latest' \in [Names -> Contents \cup {None}]
    BY <1>4 DEF Commits, DataOK
  <2>2. effects' \in [Contents -> Nat]
    BY <1>4 DEF Commits, DataOK
  <2>3. rows' = latest'
    BY <1>4 DEF Commits, RecordsTheLatest
  <2> QED BY <1>1, <1>2, <2>1, <2>2, <2>3 DEF DataOK, RecordsTheLatest
<1> QED
  <2>1. CASE UNCHANGED vars
    BY <1>3, <2>1 DEF vars, database
  <2>2. ASSUME NEW i \in Instances, Start(i) \/ Step(i) \/ Crash(i)
        PROVE  DataOK' /\ RecordsTheLatest'
    BY <1>3, <1>4, <2>2, QuietOrCommit DEF Quiet
  <2> QED BY <2>1, <2>2 DEF Next

LEMMA PrefixByElements ==
    ASSUME NEW d \in Seq(Nat), NEW f \in Seq(Nat)
    PROVE  IsStrictPrefix(d, f) <=> Len(d) < Len(f) /\ \A k \in 1 .. Len(d) : f[k] = d[k]
<1>1. SubSeq(d, 1, Len(d)) = d
  BY SubSeqFull
<1>2. ASSUME Len(d) <= Len(f)
      PROVE  SubSeq(f, 1, Len(d)) = d <=> \A k \in 1 .. Len(d) : f[k] = d[k]
  <2>1. /\ SubSeq(f, 1, Len(d)) \in Seq(Nat) /\ Len(SubSeq(f, 1, Len(d))) = Len(d)
        /\ \A k \in 1 .. Len(d) : SubSeq(f, 1, Len(d))[k] = f[k]
    BY <1>2
  <2> QED BY <2>1, SeqEqual
<1>3. ASSUME Len(d) = Len(f), \A k \in 1 .. Len(d) : f[k] = d[k] PROVE d = f
  BY <1>3, SeqEqual
<1> QED BY <1>1, <1>2, <1>3 DEF IsStrictPrefix, IsPrefix

LEMMA TodoStep ==
    ASSUME TodoOK, [Next]_vars
    PROVE  TodoOK'
<1> USE DEF TodoOK
<1>1. CASE UNCHANGED todo
  BY <1>1
<1>2. ASSUME NEW i \in Instances, NEW T \in SUBSET Seq(Nat), todo' = [todo EXCEPT ![i] = T]
      PROVE  TodoOK'
  BY <1>2
<1>3. {<<o>> : o \in 1 .. Objects} \in SUBSET Seq(Nat)
  <2>1. ASSUME NEW o \in 1 .. Objects PROVE <<o>> \in Seq(Nat)
    BY MigratorConstantsOK
  <2> QED BY <2>1
<1>4. ASSUME NEW dir \in Seq(Nat) PROVE Entries(dir) \in SUBSET Seq(Nat)
  <2>1. ASSUME NEW f \in Tree, IsStrictPrefix(dir, f) PROVE SubSeq(f, 1, Len(dir) + 1) \in Seq(Nat)
    <3>1. f \in Seq(Nat) /\ Len(dir) \in Nat /\ Len(f) \in Nat
      BY MigratorConstantsOK
    <3>2. Len(dir) + 1 <= Len(f)
      BY <2>1, <3>1, PrefixByElements
    <3> QED BY <3>1, <3>2
  <2> QED BY <2>1 DEF Entries
<1>5. ASSUME NEW i \in Instances, NEW p \in todo[i], ProcessDir(i, p) PROVE TodoOK'
  BY <1>2, <1>4, <1>5 DEF ProcessDir
<1>6. ASSUME NEW i \in Instances, NEW p \in todo[i], LookUp(i, p) PROVE TodoOK'
  BY <1>1, <1>2, <1>6 DEF LookUp, NextFile
<1>7. ASSUME NEW i \in Instances, StatDir(i) PROVE TodoOK'
  BY <1>1, <1>2, <1>3, <1>7 DEF StatDir
<1>8. ASSUME NEW i \in Instances, Commit(i) PROVE TodoOK'
  BY <1>1, <1>2, <1>8 DEF Commit, NextFile
<1>9. ASSUME NEW i \in Instances,
             \/ Start(i) \/ Crash(i) \/ Connect(i) \/ Ping(i) \/ CheckTable(i) \/ CreateTable(i)
             \/ Finish(i) \/ BeginTransaction(i) \/ Apply(i) \/ Record(i)
      PROVE  UNCHANGED todo
  BY <1>9 DEF Start, Crash, Connect, Ping, CheckTable, CreateTable, Finish, BeginTransaction,
     Apply, Record
<1> QED BY <1>1, <1>5, <1>6, <1>7, <1>8, <1>9 DEF Next, Step, vars

\* Part of AloneInv: who has taken up a file will be the first to apply it.
FirstToApply(i) ==
    pc[i] \in Applying /\ NamedApart(hash[i][cur[i]]) => effects[hash[i][cur[i]]] = 0

LEMMA AloneQuiet ==
    ASSUME TypeOK, AloneInv, hash' = hash, NEW i \in Instances, Moves(i), Quiet(i)
    PROVE  AloneInv'
<1> SUFFICES ASSUME SameRelease', ~overlapped'
             PROVE  /\ \A j, k \in Instances : Migrating(j)' /\ Migrating(k)' => j = k
                    /\ \A c \in Contents : NamedApart(c)' => AppliedOnce(c)'
                    /\ \A j \in Instances : FirstToApply(j)'
  BY DEF AloneInv, FirstToApply
<1>1. /\ \A j, k \in Instances : Migrating(j) /\ Migrating(k) => j = k
      /\ \A c \in Contents : NamedApart(c) => AppliedOnce(c)
      /\ \A j \in Instances : FirstToApply(j)
  BY DEF AloneInv, SameRelease, Quiet, FirstToApply
<1>2. \A j \in Instances \ {i} : pc'[j] = pc[j] /\ cur'[j] = cur[j]
  BY DEF Moves, TypeOK
<1>3. ASSUME NEW c PROVE (NamedApart(c)' <=> NamedApart(c)) /\ (AppliedOnce(c)' <=> AppliedOnce(c))
  BY DEF NamedApart, AppliedOnce, Quiet
<1>4. \A j \in Instances \ {i} : Migrating(j)' <=> Migrating(j)
  BY <1>2 DEF Migrating
<1>5. \A j, k \in Instances : Migrating(j)' /\ Migrating(k)' => j = k
  BY <1>1, <1>4 DEF Quiet
<1>6. \A c \in Contents : NamedApart(c)' => AppliedOnce(c)'
  BY <1>1, <1>3
<1>7. ASSUME NEW j \in Instances, j # i PROVE FirstToApply(j)'
  BY <1>1, <1>2, <1>7 DEF FirstToApply, NamedApart, Quiet
<1>8. FirstToApply(i)'
  <2>1. CASE pc[i] \in Applying /\ cur'[i] = cur[i]
    BY <1>1, <2>1 DEF FirstToApply, NamedApart, Quiet
  <2>2. ASSUME cur'[i] \in Tree, ~Recorded(i, cur'[i])
        PROVE  FirstToApply(i)'
    <3>1. PICK c \in Contents : c = hash[i][cur'[i]]
      BY <2>2, ContentsType
    <3>2. SUFFICES ASSUME NamedApart(c) PROVE effects[c] = 0
      BY <3>1 DEF FirstToApply, NamedApart, Quiet
    <3>3. AppliedOnce(c)
      BY <1>1, <3>2
    <3>4. \A f \in Tree : rows[Base(f)] # c
      BY <2>2, <3>1, ContentsType DEF Recorded
    <3> QED BY <3>3, <3>4 DEF AppliedOnce
  <2>3. CASE pc'[i] \notin Applying
    BY <2>3 DEF FirstToApply
  <2> QED BY <2>1, <2>2, <2>3 DEF Quiet
<1> QED BY <1>5, <1>6, <1>7, <1>8
LEMMA AloneCommits ==
    ASSUME TypeOK, TxInv, AloneInv, hash' = hash, NEW i \in Instances, Moves(i),
           NEW c \in Contents, NEW n \in Names, Commits(i, c, n)
    PROVE  AloneInv'
<1> SUFFICES ASSUME SameRelease, ~overlapped
             PROVE  /\ \A j, k \in Instances : Migrating(j)' /\ Migrating(k)' => j = k
                    /\ \A d \in Contents : NamedApart(d)' => AppliedOnce(d)'
                    /\ \A j \in Instances : FirstToApply(j)'
  BY DEF AloneInv, FirstToApply, SameRelease, Commits
<1>1. /\ \A j, k \in Instances : Migrating(j) /\ Migrating(k) => j = k
      /\ \A d \in Contents : NamedApart(d) => AppliedOnce(d)
      /\ \A j \in Instances : FirstToApply(j)
  BY DEF AloneInv, FirstToApply
<1>2. \A j \in Instances \ {i} : pc'[j] = pc[j] /\ cur'[j] = cur[j]
  BY DEF Moves, TypeOK
<1>3. Migrating(i)
  BY DEF Commits, Migrating, Ended
<1>4. \A j \in Instances : Migrating(j)' => j = i
  BY <1>1, <1>2, <1>3 DEF Migrating
<1>5. cur[i] \in Tree
  BY DEF Commits, TxInv, TxInvOf, Applying
<1>6. ASSUME NEW d \in Contents, NamedApart(d) PROVE AppliedOnce(d)'
  <2>1. CASE d = c
    <3>1. effects[c] = 0
      BY <1>1, <1>6, <2>1 DEF FirstToApply, Commits, Applying
    <3>2. effects'[d] = 1
      BY <2>1, <3>1 DEF Commits, TypeOK
    <3>3. hash[i][cur[i]] = d /\ rows'[Base(cur[i])] = d
      BY <2>1 DEF Commits, TypeOK
    <3> QED BY <1>5, <3>2, <3>3 DEF AppliedOnce
  <2>2. CASE d # c
    <3>1. AppliedOnce(d) /\ effects'[d] = effects[d]
      BY <1>1, <1>6, <2>2 DEF Commits, TypeOK
    <3>2. ASSUME NEW j \in Instances, NEW f \in Tree, hash[j][f] = d, rows[Base(f)] = d
          PROVE  rows'[Base(f)] = d
      <4>1. Base(f) # n
        BY <1>5, <1>6, <2>2, <3>2 DEF NamedApart, SameRelease, Commits
      <4> QED BY <3>2, <4>1, ContentsType DEF Commits, TypeOK
    <3> QED BY <3>1, <3>2 DEF AppliedOnce
  <2> QED BY <2>1, <2>2
<1>7. \A d \in Contents : NamedApart(d)' => AppliedOnce(d)'
  BY <1>6 DEF NamedApart
<1>8. \A j \in Instances : pc'[j] \notin Applying
  BY <1>4 DEF Migrating, Ended, Applying, Commits
<1> QED BY <1>4, <1>7, <1>8 DEF FirstToApply

LEMMA MigratorInductive == Spec => []MigratorInv
<1>1. Init => MigratorInv
  <2> SUFFICES ASSUME Init PROVE MigratorInv
    OBVIOUS
  <2>1. TypeOK
    <3>1. ControlOK
      BY MigratorConstantsOK DEF Init, ControlOK, Places
    <3>2. DataOK
      BY DEF Init, DataOK
    <3>3. TodoOK
      BY DEF Init, TodoOK
    <3> QED BY <3>1, <3>2, <3>3, TypeSplit
  <2>2. TxInv
    BY MigratorConstantsOK DEF Init, TxInv, TxInvOf, Applying
  <2>3. AloneInv
    BY DEF Init, AloneInv, AppliedOnce, Migrating, Applying
  <2> QED BY <2>1, <2>2, <2>3 DEF MigratorInv, RecordsTheLatest, Init
<1>2. MigratorInv /\ [Next]_vars => MigratorInv'
  <2> SUFFICES ASSUME MigratorInv, [Next]_vars PROVE MigratorInv'
    OBVIOUS
  <2> USE TypeSplit, TypeSplitNext DEF MigratorInv
  <2>1. hash' = hash /\ DataOK' /\ TodoOK' /\ RecordsTheLatest'
    BY FilesStay, DataStep, TodoStep
  <2>2. CASE UNCHANGED vars
    <3>1. ControlOK' /\ TxInv'
      BY <2>2 DEF vars, ControlOK, TxInv, TxInvOf
    <3>2. AloneInv'
      BY <2>2 DEF vars, database, history, AloneInv, SameRelease, NamedApart, AppliedOnce, Migrating
    <3> QED BY <2>1, <3>1, <3>2
  <2>3. ASSUME NEW i \in Instances, Start(i) \/ Step(i) \/ Crash(i) PROVE MigratorInv'
    <3>1. Moves(i)
      BY <2>3, EveryStepMoves
    <3>2. ControlOK' /\ TxInv'
      BY <3>1, Moved
    <3>3. AloneInv'
      BY <2>1, <2>3, <3>1, QuietOrCommit, AloneQuiet, AloneCommits
    <3> QED BY <2>1, <3>2, <3>3
  <2> QED BY <2>2, <2>3 DEF Next
<1> QED BY <1>1, <1>2, PTL DEF Spec

\* The types of the model: for any number of instances that connect, migrate, fail
\* and die, every variable stays in its set.
THEOREM MigratorTypes == Spec => []TypeOK
  BY MigratorInductive, PTL DEF MigratorInv

\* What schema_migrations says is what has been applied last, for any number of
\* instances that race, fail at any point of applyMigration, lose commits or die:
\* the contents and their record take effect in one transaction.
THEOREM TableTellsTheTruth == Spec => []RecordsTheLatest
  BY MigratorInductive, PTL DEF MigratorInv

\* Instances of one release that do not overlap apply no contents twice, whatever
\* fails in between, unless their name is used in two directories.
THEOREM AppliedOnceIfAlone == Spec => []OnceIfAlone
<1>1. MigratorInv => OnceIfAlone
  BY DEF MigratorInv, AloneInv, AppliedOnce, OnceIfAlone
<1> QED BY <1>1, MigratorInductive, PTL

(***************************************************************************)
(* The walk: everything an instance has yet to apply is below something    *)
(* that it has yet to process, and what it has yet to process comes later. *)
(***************************************************************************)
Paths == {p \in Seq(Nat) : Len(p) > 0}

\* The file f is p or below it.
IsUnder(p, f) == Len(p) <= Len(f) /\ \A k \in 1 .. Len(p) : f[k] = p[k]

\* The calls of processFilesIn under way are nested: the deeper entry p is in the
\* directory of q, below a directory that comes before q.
Nested(p, q) ==
    /\ Len(p) >= Len(q) => \A k \in 1 .. Len(q) - 1 : p[k] = q[k]
    /\ Len(p) > Len(q) => q \in Tree \/ p[Len(q)] < q[Len(q)]

Walking == {"walk", "done"} \cup Applying

WalkInvOf(i) ==
    /\ todo[i] \in SUBSET Paths
    /\ \A p, q \in todo[i] : Nested(p, q)
    /\ pc[i] \in Applying => UpNext(i, cur[i])
    /\ pc[i] \in Walking /\ i \notin lost =>
          \A f \in Tree : InEffect(hash[i][f]) \/ \E p \in todo[i] : IsUnder(p, f)
    /\ pc[i] = "done" => todo[i] = {}

\* What is recorded has taken effect.
EffectInv == \A n \in Names : rows[n] # None => InEffect(rows[n])

WalkInv ==
    /\ EffectInv
    /\ \A i \in Instances : WalkInvOf(i)

\* ReadDir: entries are one name longer than their directory, and lead to every
\* file below it.
LEMMA EntriesOfDirectory ==
    ASSUME NEW dir \in Paths
    PROVE  /\ \A e \in Entries(dir) : /\ e \in Paths /\ Len(e) = Len(dir) + 1
                                     /\ \A k \in 1 .. Len(dir) : e[k] = dir[k]
           /\ \A f \in Tree : IsUnder(dir, f) /\ f # dir => \E e \in Entries(dir) : IsUnder(e, f)
<1>1. ASSUME NEW f \in Tree, IsStrictPrefix(dir, f), NEW e, e = SubSeq(f, 1, Len(dir) + 1)
      PROVE  /\ e \in Paths /\ Len(e) = Len(dir) + 1
             /\ \A k \in 1 .. Len(dir) : e[k] = dir[k]
             /\ IsUnder(e, f)
  <2>1. f \in Seq(Nat) /\ dir \in Seq(Nat) /\ Len(dir) \in Nat /\ Len(f) \in Nat
    BY MigratorConstantsOK DEF Paths
  <2>2. Len(dir) + 1 <= Len(f) /\ \A k \in 1 .. Len(dir) : f[k] = dir[k]
    BY <1>1, <2>1, PrefixByElements
  <2>3. /\ e \in Seq(Nat) /\ Len(e) = Len(dir) + 1
        /\ \A k \in 1 .. Len(dir) + 1 : e[k] = f[k]
    BY <1>1, <2>1, <2>2
  <2>4. e \in Paths
    BY <2>1, <2>3 DEF Paths
  <2>5. ASSUME NEW k \in 1 .. Len(dir) PROVE e[k] = dir[k]
    <3>1. k \in 1 .. Len(dir) + 1
      BY <2>1
    <3> QED BY <2>2, <2>3, <3>1
  <2>6. IsUnder(e, f)
    BY <2>1, <2>2, <2>3 DEF IsUnder
  <2> QED BY <2>3, <2>4, <2>5, <2>6
<1>2. \A e \in Entries(dir) : /\ e \in Paths /\ Len(e) = Len(dir) + 1
                              /\ \A k \in 1 .. Len(dir) : e[k] = dir[k]
  BY <1>1 DEF Entries
<1>3. ASSUME NEW f \in Tree, IsUnder(dir, f), f # dir PROVE \E e \in Entries(dir) : IsUnder(e, f)
  <2>1. f \in Seq(Nat) /\ dir \in Seq(Nat)
    BY MigratorConstantsOK DEF Paths
  <2>2. Len(dir) # Len(f)
    BY <1>3, <2>1, SeqEqual DEF IsUnder
  <2>3. IsStrictPrefix(dir, f)
    BY <1>3, <2>1, <2>2, PrefixByElements DEF IsUnder
  <2> QED BY <1>1, <2>3 DEF Entries
<1> QED BY <1>2, <1>3

\* A file has nothing below it but itself.
LEMMA FilesAreLeaves ==
    ASSUME NEW p \in Tree, NEW f \in Tree, IsUnder(p, f)
    PROVE  f = p
<1>1. p \in Seq(Nat) /\ f \in Seq(Nat)
  BY MigratorConstantsOK
<1>2. CASE Len(p) = Len(f)
  BY <1>1, <1>2, SeqEqual DEF IsUnder
<1>3. CASE Len(p) # Len(f)
  BY <1>1, <1>3, PrefixByElements, MigratorConstantsOK DEF IsUnder
<1> QED BY <1>2, <1>3

\* The entry that is up comes before everything below the others.
LEMMA UpNextIsFirst ==
    ASSUME NEW i \in Instances, todo[i] \in SUBSET Paths, \A p, q \in todo[i] : Nested(p, q),
           NEW file \in Tree, UpNext(i, file),
           NEW p \in todo[i], NEW f \in Tree, IsUnder(p, f), Before(f, file)
    PROVE  FALSE
<1>1. /\ file \in Seq(Nat) /\ f \in Seq(Nat) /\ p \in Seq(Nat)
      /\ Len(file) \in Nat /\ Len(f) \in Nat /\ Len(p) \in Nat \ {0}
      /\ \A k \in 1 .. Len(file) : file[k] \in Nat
      /\ \A k \in 1 .. Len(f) : f[k] \in Nat
      /\ \A k \in 1 .. Len(p) : p[k] \in Nat
  <2>1. file \in Seq(Nat) /\ f \in Seq(Nat)
    BY MigratorConstantsOK
  <2>2. p \in Seq(Nat) /\ Len(p) > 0
    BY DEF Paths
  <2>3. ASSUME NEW s \in Seq(Nat) PROVE Len(s) \in Nat /\ \A k \in 1 .. Len(s) : s[k] \in Nat
    OBVIOUS
  <2> QED BY <2>1, <2>2, <2>3
<1>2. PICK k \in 1 .. Len(f) :
         /\ k <= Len(file) /\ f[k] # file[k]
         /\ \A l \in 1 .. k - 1 : f[l] = file[l]
         /\ \/ k < Len(f) /\ k = Len(file)
            \/ (k < Len(f) <=> k < Len(file)) /\ f[k] < file[k]
  BY DEF Before
<1>3. p # file
  <2>1. CASE p = file
    BY <1>1, <1>2, <2>1, FilesAreLeaves
  <2> QED BY <2>1
<1>4. Earlier(file, p) /\ Nested(file, p)
  BY <1>3 DEF UpNext
<1>5. Len(file) >= Len(p) /\ \A l \in 1 .. Len(p) - 1 : file[l] = p[l]
  <2>1. Len(file) > Len(p) \/ Len(file) = Len(p)
    BY <1>4 DEF Earlier
  <2>2. Len(file) >= Len(p)
    BY <1>1, <2>1
  <2> QED BY <1>4, <2>2 DEF Nested
<1>6. Len(p) <= Len(f) /\ \A l \in 1 .. Len(p) : f[l] = p[l]
  BY DEF IsUnder
<1>7. k >= Len(p)
  <2>1. SUFFICES ASSUME k < Len(p) PROVE FALSE
    BY <1>1
  <2>2. k \in 1 .. Len(p) - 1 /\ k \in 1 .. Len(p)
    BY <1>1, <2>1
  <2>3. file[k] = p[k] /\ f[k] = p[k]
    BY <1>5, <1>6, <2>2
  <2> QED BY <1>2, <2>3
<1>8. CASE p \in Tree
  <2>1. f = p
    BY <1>8, FilesAreLeaves
  <2>2. k = Len(p) /\ k = Len(f)
    BY <1>1, <1>2, <1>7, <2>1
  <2>3. k = Len(file) /\ p[k] < file[k]
    BY <1>1, <1>2, <2>1, <2>2
  <2>4. Base(file) < Base(p)
    BY <1>1, <1>4, <1>8, <2>2, <2>3 DEF Earlier, InOrderOfProcessing
  <2> QED BY <1>1, <1>2, <2>2, <2>3, <2>4 DEF Base
<1>9. CASE p \notin Tree
  <2>1. Len(file) > Len(p)
    BY <1>1, <1>4, <1>9 DEF Earlier, InOrderOfProcessing
  <2>2. file[Len(p)] < p[Len(p)]
    BY <1>4, <1>9, <2>1 DEF Nested
  <2>3. f[Len(p)] # file[Len(p)]
    <3>1. Len(p) \in 1 .. Len(p) /\ Len(p) \in 1 .. Len(file)
      BY <1>1, <2>1
    <3>2. f[Len(p)] = p[Len(p)] /\ p[Len(p)] \in Nat /\ file[Len(p)] \in Nat
      BY <1>1, <1>6, <3>1
    <3> QED BY <2>2, <3>2
  <2>4. k = Len(p)
    BY <1>1, <1>2, <1>7, <2>3
  <2>5. /\ k \in 1 .. Len(p) /\ k # Len(file) /\ k < Len(file)
        /\ file[k] < p[k] /\ f[k] = p[k]
    BY <1>1, <1>6, <2>1, <2>2, <2>4
  <2>6. f[k] < file[k]
    BY <1>2, <2>5
  <2>7. f[k] \in Nat /\ file[k] \in Nat
    BY <1>1, <1>2
  <2> QED BY <2>5, <2>6, <2>7
<1> QED BY <1>8, <1>9

(***************************************************************************)
(* Steps of the walk.                                                      *)
(***************************************************************************)
\* What has taken effect stays in effect, and what is recorded has taken effect.
LEMMA EffectsStay ==
    ASSUME TypeOK, TxInv, EffectInv, NEW i \in Instances, Start(i) \/ Step(i) \/ Crash(i)
    PROVE  EffectInv' /\ \A c \in Contents : InEffect(c) => InEffect(c)'
<1> USE DEF EffectInv, InEffect
<1>1. CASE Quiet(i)
  BY <1>1 DEF Quiet
<1>2. ASSUME NEW c \in Contents, NEW n \in Names, Commits(i, c, n)
      PROVE  EffectInv' /\ \A d \in Contents : InEffect(d) => InEffect(d)'
  <2>1. \A d \in Contents : effects[d] \in Nat /\ effects'[d] = IF d = c THEN effects[d] + 1 ELSE effects[d]
    BY <1>2 DEF Commits, TypeOK
  <2>2. \A d \in Contents : (InEffect(d) => InEffect(d)') /\ InEffect(c)'
    BY <2>1
  <2>3. \A m \in Names : rows'[m] = IF m = n THEN c ELSE rows[m]
    BY <1>2 DEF Commits, TypeOK
  <2>4. \A m \in Names : rows[m] # None => rows[m] \in Contents
    BY DEF TypeOK
  <2>5. EffectInv'
    <3> SUFFICES ASSUME NEW m \in Names, rows'[m] # None PROVE effects'[rows'[m]] > 0
      OBVIOUS
    <3>1. CASE m = n
      BY <2>2, <2>3, <3>1
    <3>2. CASE m # n
      BY <2>2, <2>3, <2>4, <3>2
    <3> QED BY <3>1, <3>2
  <2> QED BY <2>2, <2>5
<1> QED BY <1>1, <1>2, QuietOrCommit, TypeSplit

\* Everything that has not taken effect is below something to do.
Covered(i) == \A f \in Tree : InEffect(hash[i][f]) \/ \E p \in todo[i] : IsUnder(p, f)

\* Nobody else's walk goes on.
OwnWalk(i) ==
    /\ todo' = [todo EXCEPT ![i] = todo'[i]]
    /\ lost \subseteq lost' /\ lost' \subseteq lost \cup {i}

\* A step that takes up an entry at most.
Rests(i) ==
    /\ todo' = todo /\ lost' = lost
    /\ pc'[i] \in Walking => pc[i] \in Walking
    /\ pc'[i] \in Applying => UpNext(i, cur'[i])
    /\ pc'[i] = "done" => todo[i] = {}

\* A step that begins the walk.
Begins(i) ==
    /\ todo' = [todo EXCEPT ![i] = {<<o>> : o \in 1 .. Objects}] /\ lost' = lost
    /\ pc'[i] = "walk"

\* A step that replaces a directory by the set S of its entries.
Opens(i, dir, S) ==
    /\ pc[i] = "walk" /\ pc'[i] = "walk" /\ UpNext(i, dir) /\ dir \notin Tree
    /\ S \subseteq Entries(dir)
    /\ todo' = [todo EXCEPT ![i] = (@ \ {dir}) \cup S]
    /\ \/ S = Entries(dir) /\ lost' = lost
       \/ lost' = lost \cup {i}

\* A step that is through with a file.
Closes(i, file) ==
    /\ pc[i] \in Walking /\ pc'[i] = "walk" /\ file \in Tree
    /\ todo' = [todo EXCEPT ![i] = @ \ {file}]
    /\ \/ InEffect(hash[i][file])' /\ lost' = lost
       \/ lost' = lost \cup {i}

LEMMA WalkSteps ==
    ASSUME TypeOK, TxInv, WalkInv, NEW i \in Instances, Start(i) \/ Step(i) \/ Crash(i)
    PROVE  \/ Rests(i) \/ Begins(i)
           \/ \E dir \in todo[i] : \E S \in SUBSET Entries(dir) : Opens(i, dir, S)
           \/ \E file \in Tree : Closes(i, file)
<1> USE DEF Walking, Applying, Ended, Goto, history
<1>0. pc \in [Instances -> Places] /\ WalkInvOf(i) /\ TxInvOf(i)
  BY TypeSplit DEF ControlOK, WalkInv, TxInv
<1>1. CASE Start(i) \/ Connect(i) \/ Ping(i) \/ CheckTable(i) \/ CreateTable(i) \/ Crash(i)
  <2>1. /\ \E w \in {"connect", "failed", "ping", "table", "unmigrated", "stat", "create"} :
              pc' = [pc EXCEPT ![i] = w]
        /\ UNCHANGED <<todo, lost>>
    BY <1>1 DEF Start, Connect, Ping, CheckTable, CreateTable, Crash
  <2>2. pc'[i] \notin Walking
    BY <1>0, <2>1
  <2> QED BY <2>1, <2>2 DEF Rests
<1>2. CASE StatDir(i)
  BY <1>0, <1>2 DEF StatDir, Rests, Begins
<1>3. ASSUME NEW dir \in todo[i], ProcessDir(i, dir)
      PROVE  \E S \in SUBSET Entries(dir) : Opens(i, dir, S)
  <2>1. pc[i] = "walk" /\ pc'[i] = "walk" /\ UpNext(i, dir) /\ dir \notin Tree
    BY <1>3 DEF ProcessDir
  <2>2. CASE todo' = [todo EXCEPT ![i] = (@ \ {dir}) \cup Entries(dir)] /\ UNCHANGED lost
    <3>1. Opens(i, dir, Entries(dir))
      BY <2>1, <2>2 DEF Opens
    <3> QED BY <3>1
  <2>3. ASSUME NEW S \in SUBSET Entries(dir), todo' = [todo EXCEPT ![i] = (@ \ {dir}) \cup S],
               lost' = lost \cup {i}
        PROVE  Opens(i, dir, S)
    BY <2>1, <2>3 DEF Opens
  <2> QED BY <1>3, <2>2, <2>3 DEF ProcessDir
<1>4. CASE Finish(i)
  BY <1>0, <1>4 DEF Finish, Rests
<1>5. ASSUME NEW file \in todo[i], LookUp(i, file) PROVE Rests(i) \/ (Closes(i, file) /\ file \in Tree)
  <2>1. /\ pc[i] = "walk" /\ UpNext(i, file) /\ file \in Tree /\ lost' = lost
        /\ cur'[i] = file /\ effects' = effects /\ hash' = hash
    BY <1>5 DEF LookUp, TypeOK, database
  <2>2. CASE Recorded(i, file) /\ NextFile(i, file) /\ UNCHANGED pc
    <3>1. PICK n \in Names : rows[n] = hash[i][file]
      BY <2>2 DEF Recorded
    <3>2. rows[n] # None
      BY <2>1, <3>1, ContentsType, MigratorConstantsOK
    <3>3. InEffect(hash[i][file])
      BY <3>1, <3>2 DEF WalkInv, EffectInv
    <3>4. InEffect(hash[i][file])'
      BY <2>1, <3>3 DEF InEffect
    <3> QED BY <2>1, <2>2, <3>4 DEF Closes, NextFile
  <2>3. CASE pc' = [pc EXCEPT ![i] = "begin"] /\ UNCHANGED todo
    BY <1>0, <2>1, <2>3 DEF Rests
  <2>4. CASE pc' = [pc EXCEPT ![i] = "failed"] /\ UNCHANGED todo
    BY <1>0, <2>1, <2>4 DEF Rests
  <2> QED BY <1>5, <2>2, <2>3, <2>4 DEF LookUp
<1>6. CASE BeginTransaction(i) \/ Apply(i) \/ Record(i)
  <2>1. /\ pc[i] \in Applying /\ UNCHANGED <<todo, lost, cur>>
        /\ \E w \in {"apply", "record", "commit", "failed"} : pc' = [pc EXCEPT ![i] = w]
    BY <1>6 DEF BeginTransaction, Apply, Record, Fail
  <2>2. UpNext(i, cur'[i])
    BY <1>0, <2>1 DEF WalkInvOf
  <2>3. pc'[i] # "done"
    BY <1>0, <2>1
  <2> QED BY <2>1, <2>2, <2>3 DEF Rests
<1>7. CASE Commit(i)
  <2>1. /\ pc[i] = "commit" /\ pc'[i] = "walk" /\ hash' = hash
        /\ todo' = [todo EXCEPT ![i] = @ \ {cur[i]}]
    BY <1>0, <1>7 DEF Commit, NextFile
  <2>2. tx[i] = {"effect", "row"} /\ cur[i] \in Tree
    BY <1>0, <2>1 DEF TxInvOf
  <2>3. PICK c \in Contents : c = hash[i][cur[i]]
    BY <2>2, ContentsType
  <2>4. ASSUME lost' = lost \cup {i} PROVE \E file \in Tree : Closes(i, file)
    <3>1. PICK file \in Tree : file = cur[i]
      BY <2>2
    <3>2. Closes(i, file)
      BY <2>1, <2>4, <3>1 DEF Closes
    <3> QED BY <3>2
  <2>5. CASE effects' = [effects EXCEPT ![c] = @ + 1] /\ lost' = lost
    <3>1. effects[c] \in Nat /\ effects'[c] = effects[c] + 1
      BY <2>5 DEF TypeOK
    <3>2. effects'[hash'[i][cur[i]]] > 0
      BY <2>1, <2>3, <3>1
    <3>3. PICK file \in Tree : file = cur[i]
      BY <2>2
    <3>4. InEffect(hash[i][file])'
      BY <3>2, <3>3 DEF InEffect
    <3>5. Closes(i, file)
      BY <2>1, <2>5, <3>3, <3>4 DEF Closes
    <3> QED BY <3>5
  <2> QED BY <1>7, <2>2, <2>3, <2>4, <2>5 DEF Commit
<1> QED BY <1>1, <1>2, <1>3, <1>4, <1>5, <1>6, <1>7 DEF Step

\* What the others see of a step.
Grows == hash' = hash /\ \A c \in Contents : InEffect(c) => InEffect(c)'

LEMMA CoveredStays ==
    ASSUME TypeOK, Grows, NEW i \in Instances, NEW T, todo[i] \subseteq T, T = todo'[i], Covered(i)
    PROVE  Covered(i)'
<1> SUFFICES ASSUME NEW f \in Tree
             PROVE  InEffect(hash[i][f])' \/ \E p \in todo'[i] : IsUnder(p, f)
  BY DEF Covered
<1>1. PICK c \in Contents : c = hash[i][f]
  BY ContentsType
<1>2. InEffect(c) \/ \E p \in todo[i] : IsUnder(p, f)
  BY <1>1 DEF Covered
<1>3. InEffect(c)' => InEffect(hash[i][f])'
  BY <1>1 DEF Grows, InEffect
<1> QED BY <1>2, <1>3 DEF Grows

LEMMA OthersWait ==
    ASSUME TypeOK, Grows, NEW i \in Instances, OwnWalk(i), Moves(i),
           NEW j \in Instances, j # i, WalkInvOf(j)
    PROVE  WalkInvOf(j)'
<1>1. /\ todo'[j] = todo[j] /\ pc'[j] = pc[j] /\ cur'[j] = cur[j]
      /\ j \in lost' <=> j \in lost
  BY DEF OwnWalk, Moves, TypeOK
<1>2. Covered(j) => Covered(j)'
  BY <1>1, CoveredStays
<1> QED BY <1>1, <1>2 DEF WalkInvOf, Covered, UpNext

LEMMA WalkRests ==
    ASSUME TypeOK, Grows, NEW i \in Instances, WalkInvOf(i), Rests(i)
    PROVE  WalkInvOf(i)'
<1>1. Covered(i) => Covered(i)'
  BY CoveredStays DEF Rests
<1>2. UpNext(i, cur'[i]) => UpNext(i, cur[i])'
  BY DEF UpNext, Rests
<1> QED BY <1>1, <1>2 DEF WalkInvOf, Covered, Rests

LEMMA WalkBegins ==
    ASSUME TypeOK, NEW i \in Instances, Begins(i)
    PROVE  WalkInvOf(i)'
<1>1. todo'[i] = {<<o>> : o \in 1 .. Objects} /\ pc'[i] = "walk"
  BY DEF Begins, TypeOK
<1>2. ASSUME NEW o \in 1 .. Objects PROVE <<o>> \in Paths /\ Len(<<o>>) = 1
  BY MigratorConstantsOK DEF Paths
<1>3. \A p \in todo'[i] : p \in Paths /\ Len(p) = 1
  BY <1>1, <1>2
<1>5. ASSUME NEW p, NEW q, Len(p) = 1, Len(q) = 1 PROVE Nested(p, q)
  BY <1>5 DEF Nested
<1>6. \A p, q \in todo'[i] : Nested(p, q)
  BY <1>3, <1>5
<1>4. ASSUME NEW f \in Tree PROVE \E p \in todo'[i] : IsUnder(p, f)
  <2>1. f[1] \in 1 .. Objects /\ Len(f) > 1 /\ Len(f) \in Nat
    BY MigratorConstantsOK
  <2>2. PICK p : p = <<f[1]>>
    OBVIOUS
  <2>3. p \in todo'[i]
    BY <1>1, <2>1, <2>2
  <2>4. Len(p) = 1 /\ p[1] = f[1]
    BY <2>2
  <2>5. IsUnder(p, f)
    BY <2>1, <2>4 DEF IsUnder
  <2> QED BY <2>3, <2>5
<1> QED BY <1>1, <1>3, <1>4, <1>6 DEF WalkInvOf, Applying

LEMMA WalkOpens ==
    ASSUME TypeOK, Grows, NEW i \in Instances, WalkInvOf(i),
           NEW dir \in todo[i], NEW S \in SUBSET Entries(dir), Opens(i, dir, S)
    PROVE  WalkInvOf(i)'
<1>1. /\ todo'[i] = (todo[i] \ {dir}) \cup S /\ pc[i] = "walk" /\ pc'[i] = "walk"
      /\ dir \notin Tree /\ dir \in Paths
      /\ \A q \in todo[i] \ {dir} : q \in Paths /\ Earlier(dir, q) /\ Nested(dir, q)
  BY DEF Opens, UpNext, WalkInvOf, TypeOK
<1>2. \A e \in S : /\ e \in Paths /\ Len(e) = Len(dir) + 1
                    /\ \A k \in 1 .. Len(dir) : e[k] = dir[k]
  BY <1>1, EntriesOfDirectory
<1>3. todo'[i] \in SUBSET Paths
  BY <1>1, <1>2
<1>4. ASSUME NEW p \in S, NEW q \in S PROVE Nested(p, q)
  <2>1. Len(dir) \in Nat /\ Len(p) = Len(dir) + 1 /\ Len(q) = Len(dir) + 1
    BY <1>1, <1>2 DEF Paths
  <2>2. ASSUME NEW k \in 1 .. Len(q) - 1 PROVE p[k] = q[k]
    <3>1. k \in 1 .. Len(dir)
      BY <2>1
    <3> QED BY <1>2, <3>1
  <2> QED BY <2>1, <2>2 DEF Nested
<1>5. ASSUME NEW p \in S, NEW q \in todo[i] \ {dir} PROVE Nested(p, q) /\ Nested(q, p)
  <2>1. /\ Len(dir) \in Nat \ {0} /\ Len(p) = Len(dir) + 1 /\ Len(q) \in Nat \ {0}
        /\ Len(dir) >= Len(q)
    BY <1>1, <1>2 DEF Paths, Earlier
  <2>2. ASSUME NEW k \in 1 .. Len(q) - 1 PROVE p[k] = q[k]
    <3>1. k \in 1 .. Len(dir)
      BY <2>1
    <3>2. dir[k] = q[k]
      BY <1>1, <2>1 DEF Nested
    <3> QED BY <1>2, <3>1, <3>2
  <2>3. p[Len(q)] = dir[Len(q)]
    <3>1. Len(q) \in 1 .. Len(dir)
      BY <2>1
    <3> QED BY <1>2, <3>1
  <2>4. q \in Tree \/ dir[Len(q)] < q[Len(q)]
    <3>1. CASE Len(dir) > Len(q)
      BY <1>1, <3>1 DEF Nested
    <3>2. CASE Len(dir) = Len(q)
      BY <1>1, <2>1, <3>2 DEF Earlier, InOrderOfProcessing, Base
    <3> QED BY <2>1, <3>1, <3>2
  <2>5. Nested(p, q)
    BY <2>1, <2>2, <2>3, <2>4 DEF Nested
  <2>6. Nested(q, p)
    BY <2>1 DEF Nested
  <2> QED BY <2>5, <2>6
<1>6. \A p, q \in todo'[i] : Nested(p, q)
  BY <1>1, <1>4, <1>5 DEF WalkInvOf
<1>7. ASSUME i \notin lost' PROVE Covered(i)'
  <2>1. i \notin lost /\ S = Entries(dir)
    BY <1>7 DEF Opens
  <2>2. Covered(i)
    BY <1>1, <2>1 DEF WalkInvOf, Walking, Covered
  <2> SUFFICES ASSUME NEW f \in Tree
               PROVE  InEffect(hash[i][f])' \/ \E p \in todo'[i] : IsUnder(p, f)
    BY DEF Covered
  <2>3. PICK c \in Contents : c = hash[i][f]
    BY ContentsType
  <2>4. InEffect(c) \/ \E p \in todo[i] : IsUnder(p, f)
    BY <2>2, <2>3 DEF Covered
  <2>5. CASE InEffect(c)
    BY <2>3, <2>5 DEF Grows, InEffect
  <2>6. CASE IsUnder(dir, f)
    BY <1>1, <2>1, <2>6, EntriesOfDirectory
  <2> QED BY <1>1, <2>4, <2>5, <2>6
<1> QED BY <1>1, <1>3, <1>6, <1>7 DEF WalkInvOf, Covered, Applying

LEMMA WalkCloses ==
    ASSUME TypeOK, Grows, NEW i \in Instances, WalkInvOf(i),
           NEW file \in Tree, Closes(i, file)
    PROVE  WalkInvOf(i)'
<1>1. todo'[i] = todo[i] \ {file} /\ pc[i] \in Walking /\ pc'[i] = "walk"
  BY DEF Closes, TypeOK
<1>2. todo'[i] \in SUBSET Paths /\ \A p, q \in todo'[i] : Nested(p, q)
  BY <1>1 DEF WalkInvOf
<1>3. ASSUME i \notin lost' PROVE Covered(i)'
  <2>1. i \notin lost /\ InEffect(hash[i][file])'
    BY <1>3 DEF Closes
  <2>2. Covered(i)
    BY <1>1, <2>1 DEF WalkInvOf, Covered
  <2> SUFFICES ASSUME NEW f \in Tree
               PROVE  InEffect(hash[i][f])' \/ \E p \in todo'[i] : IsUnder(p, f)
    BY DEF Covered
  <2>3. PICK c \in Contents : c = hash[i][f]
    BY ContentsType
  <2>4. InEffect(c) \/ \E p \in todo[i] : IsUnder(p, f)
    BY <2>2, <2>3 DEF Covered
  <2>5. CASE InEffect(c)
    BY <2>3, <2>5 DEF Grows, InEffect
  <2>6. CASE IsUnder(file, f)
    BY <2>1, <2>6, FilesAreLeaves
  <2> QED BY <1>1, <2>4, <2>5, <2>6
<1> QED BY <1>1, <1>2, <1>3 DEF WalkInvOf, Covered, Applying

LEMMA WalkInductive == Spec => [](MigratorInv /\ WalkInv)
<1>1. Init => WalkInv
  BY DEF Init, WalkInv, EffectInv, WalkInvOf, Walking, Applying
<1>2. MigratorInv /\ WalkInv /\ [Next]_vars => WalkInv'
  <2> SUFFICES ASSUME MigratorInv, WalkInv, [Next]_vars PROVE WalkInv'
    OBVIOUS
  <2> USE DEF MigratorInv
  <2>1. CASE UNCHANGED vars
    BY <2>1 DEF vars, database, history, WalkInv, WalkInvOf, EffectInv, InEffect, UpNext
  <2>2. ASSUME NEW i \in Instances, Start(i) \/ Step(i) \/ Crash(i) PROVE WalkInv'
    <3>1. todo \in [Instances -> SUBSET Seq(Nat)] /\ EffectInv /\ \A j \in Instances : WalkInvOf(j)
      BY DEF WalkInv, TypeOK
    <3>2. EffectInv' /\ Grows
      BY <2>2, <3>1, EffectsStay, FilesStay DEF Grows
    <3>3. Moves(i)
      BY <2>2, EveryStepMoves, TypeSplit
    <3>4. OwnWalk(i) /\ WalkInvOf(i)'
      <4>1. CASE Rests(i)
        <5>1. OwnWalk(i)
          BY <3>1, <4>1 DEF OwnWalk, Rests
        <5> QED BY <3>1, <3>2, <4>1, <5>1, WalkRests
      <4>2. CASE Begins(i)
        <5>1. OwnWalk(i)
          BY <3>1, <4>2 DEF OwnWalk, Begins
        <5> QED BY <3>1, <4>2, <5>1, WalkBegins
      <4>3. ASSUME NEW dir \in todo[i], NEW S \in SUBSET Entries(dir), Opens(i, dir, S)
            PROVE  OwnWalk(i) /\ WalkInvOf(i)'
        <5>1. OwnWalk(i)
          BY <3>1, <4>3 DEF OwnWalk, Opens
        <5> QED BY <3>1, <3>2, <4>3, <5>1, WalkOpens
      <4>4. ASSUME NEW file \in Tree, Closes(i, file) PROVE OwnWalk(i) /\ WalkInvOf(i)'
        <5>1. OwnWalk(i)
          BY <3>1, <4>4 DEF OwnWalk, Closes
        <5> QED BY <3>1, <3>2, <4>4, <5>1, WalkCloses
      <4> QED BY <2>2, <4>1, <4>2, <4>3, <4>4, WalkSteps
    <3>5. \A j \in Instances : WalkInvOf(j)'
      BY <3>1, <3>2, <3>3, <3>4, OthersWait
    <3> QED BY <3>2, <3>5 DEF WalkInv
  <2> QED BY <2>1, <2>2 DEF Next
<1> QED BY <1>1, <1>2, MigratorInductive, PTL DEF Spec

\* processFilesIn: for any tree of files, an instance that has ignored no error
\* takes up a file only when every file before it, in the order of directories and
\* names, has taken effect, whatever other instances do meanwhile.
THEOREM AppliedInOrder == Spec => []AppliesInOrder
<1>1. MigratorInv /\ WalkInv => AppliesInOrder
  <2> SUFFICES ASSUME MigratorInv, WalkInv, NEW i \in Instances \ lost, pc[i] \in Applying,
                      NEW f \in Tree, Before(f, cur[i])
               PROVE  InEffect(hash[i][f])
    BY DEF AppliesInOrder, Applying
  <2>1. WalkInvOf(i) /\ cur[i] \in Tree
    BY DEF WalkInv, MigratorInv, TxInv, TxInvOf
  <2>2. InEffect(hash[i][f]) \/ \E p \in todo[i] : IsUnder(p, f)
    BY <2>1 DEF WalkInvOf, Walking
  <2>3. ASSUME NEW p \in todo[i], IsUnder(p, f) PROVE FALSE
    BY <2>1, <2>3, UpNextIsFirst DEF WalkInvOf
  <2> QED BY <2>2, <2>3
<1> QED BY <1>1, WalkInductive, PTL

\* Migrate: for any tree of files and any number of instances at once, New returns
\* a migrated database only when every file of the instance has taken effect, unless
\* the instance has ignored an error of ReadDir or Commit.
THEOREM DoneMeansMigrated == Spec => []DoneIsMigrated
<1>1. WalkInv => DoneIsMigrated
  BY DEF WalkInv, WalkInvOf, Walking, DoneIsMigrated
<1> QED BY <1>1, WalkInductive, PTL
=============================================================================
