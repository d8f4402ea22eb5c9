------------------------------ MODULE Migrator ------------------------------
(***************************************************************************)
(* dbase: instances of a program that connect to one database and migrate  *)
(* it. An instance walks its directory of SQL files, looks every file up   *)
(* in schema_migrations by the hash of its contents, and applies and       *)
(* records what it does not find in a transaction of its own. Nothing      *)
(* keeps two instances from doing so at the same time.                     *)
(*                                                                         *)
(* A path is a sequence of numbers, one per name, in the order of the      *)
(* names; the first is the index of the object directory ("Schemas" is 1). *)
(* The contents of a file and their hash are one thing.                    *)
(***************************************************************************)
EXTENDS SequencesExt

CONSTANTS
    Instances,  \* programs that start, each of them once
    Skipping,   \* those that may run without a migration path, or with SkipMigration
    Tree,       \* the paths of the files
    Names,      \* of files, without their directory
    Objects,    \* bound: how many object directories there are (5)
    Contents,   \* of files
    Releases,   \* of the program: which contents its files have
    Retries,    \* bound: attempts to connect (10)
    Faults      \* what may fail: subset of FaultKinds

FaultKinds ==
    {"connect", "query", "exec", "begin", "commit", "dir", "readdir", "read", "crash"}

None == "none"

\* No file is being applied yet.
NoFile == <<>>

\* filepath.Base
Base(file) == file[Len(file)]

ASSUME MigratorConstantsOK ==
    /\ Skipping \subseteq Instances
    /\ Objects \in Nat /\ Retries \in Nat \ {0}
    /\ Tree \subseteq Seq(Nat)
    /\ \A file \in Tree : Len(file) > 1 /\ file[1] \in 1 .. Objects /\ Base(file) \in Names
    /\ \A file, other \in Tree : ~IsStrictPrefix(file, other)
    /\ None \notin Contents
    /\ Releases \subseteq [Tree -> Contents]
    /\ Faults \subseteq FaultKinds

VARIABLES
    table,      \* does schema_migrations exist?
    rows,       \* its rows: the hash under each object_name
    effects,    \* how often the contents of a file have taken effect
    latest,     \* the contents that took effect last, for each name
    hash,       \* what is in the files of each instance
    pc,         \* where an instance stands
    tries,      \* its attempts to connect
    todo,       \* directories and files that it has seen and not yet processed
    cur,        \* the file it applies
    tx,         \* what its transaction has done so far
    lost,       \* instances that have lost a file without noticing
    overlapped  \* have two instances migrated at the same time?

database == <<table, rows, effects, latest>>
history == <<lost, overlapped>>
vars == <<database, hash, pc, tries, todo, cur, tx, history>>

Ended == {"done", "unmigrated", "failed"}
Migrating(i) == pc[i] \notin {"new", "connect", "ping"} \cup Ended

TypeOK ==
    /\ table \in BOOLEAN
    /\ rows \in [Names -> Contents \cup {None}]
    /\ effects \in [Contents -> Nat]
    /\ latest \in [Names -> Contents \cup {None}]
    /\ hash \in [Instances -> Releases]
    /\ pc \in [Instances -> {"new", "connect", "ping", "table", "create", "stat", "walk",
                             "begin", "apply", "record", "commit"} \cup Ended]
    /\ tries \in [Instances -> 0 .. Retries]
    /\ todo \in [Instances -> SUBSET Seq(Nat)]
    /\ cur \in [Instances -> Tree \cup {NoFile}]
    /\ tx \in [Instances -> SUBSET {"effect", "row"}]
    /\ lost \in SUBSET Instances
    /\ overlapped \in BOOLEAN

Init ==
    /\ table = FALSE
    /\ rows = [n \in Names |-> None]
    /\ effects = [c \in Contents |-> 0]
    /\ latest = [n \in Names |-> None]
    /\ hash \in [Instances -> Releases]
    /\ pc = [i \in Instances |-> "new"]
    /\ tries = [i \in Instances |-> 0]
    /\ todo = [i \in Instances |-> {}]
    /\ cur = [i \in Instances |-> NoFile]
    /\ tx = [i \in Instances |-> {}]
    /\ lost = {}
    /\ overlapped = FALSE

Goto(i, where) == pc' = [pc EXCEPT ![i] = where]

Rollback(i) == tx' = [tx EXCEPT ![i] = {}]

\* An error return, through the deferred Rollback if there is a transaction.
\* New then returns nil.
Fail(i) == Goto(i, "failed") /\ Rollback(i)

(***************************************************************************)
(* New and Migrate.                                                        *)
(***************************************************************************)
\* A type of database that is not supported ends New at once.
Start(i) ==
    /\ pc[i] = "new"
    /\ \E where \in {"connect", "failed"} : Goto(i, where)
    /\ UNCHANGED <<database, hash, tries, todo, cur, tx, history>>

\* postgresql.New, with a pause between attempts.
Connect(i) ==
    /\ pc[i] = "connect"
    /\ \/ /\ Goto(i, "ping")
          /\ tries' = [tries EXCEPT ![i] = 0]
       \/ /\ "connect" \in Faults
          /\ tries' = [tries EXCEPT ![i] = @ + 1]
          /\ Goto(i, IF tries[i] + 1 < Retries THEN "connect" ELSE "failed")
    /\ UNCHANGED <<database, hash, todo, cur, tx, history>>

\* db.Connect, and the choice whether to migrate.
Ping(i) ==
    /\ pc[i] = "ping"
    /\ \/ /\ Goto(i, "table")
          /\ overlapped' = (overlapped \/ \E j \in Instances : Migrating(j))
       \/ i \in Skipping /\ Goto(i, "unmigrated") /\ UNCHANGED overlapped
       \/ "connect" \in Faults /\ Goto(i, "failed") /\ UNCHANGED overlapped
    /\ UNCHANGED <<database, hash, tries, todo, cur, tx, lost>>

\* assureMigrationSupported asks whether the table exists ...
CheckTable(i) ==
    /\ pc[i] = "table"
    /\ \/ Goto(i, IF table THEN "stat" ELSE "create")
       \/ "query" \in Faults /\ Goto(i, "failed")
    /\ UNCHANGED <<database, hash, tries, todo, cur, tx, history>>

\* ... and creates it, which fails when another instance has been faster.
CreateTable(i) ==
    /\ pc[i] = "create"
    /\ \/ /\ ~table
          /\ table' = TRUE
          /\ Goto(i, "stat") \/ ("exec" \in Faults /\ Goto(i, "failed"))
       \/ /\ table \/ "exec" \in Faults
          /\ Goto(i, "failed")
          /\ UNCHANGED table
    /\ UNCHANGED <<rows, effects, latest, hash, tries, todo, cur, tx, history>>

\* The path is normalised and looked for; then every object directory is up.
StatDir(i) ==
    /\ pc[i] = "stat"
    /\ \/ /\ Goto(i, "walk")
          /\ todo' = [todo EXCEPT ![i] = {<<o>> : o \in 1 .. Objects}]
       \/ "dir" \in Faults /\ Goto(i, "failed") /\ UNCHANGED todo
    /\ UNCHANGED <<database, hash, tries, cur, tx, history>>

(***************************************************************************)
(* processFilesIn.                                                         *)
(***************************************************************************)
\* What ReadDir finds in a directory; nothing if it does not exist.
Entries(dir) == {SubSeq(file, 1, Len(dir) + 1) : file \in {f \in Tree : IsStrictPrefix(dir, f)}}

\* Mutant: files come before directories.
FilesFirst(p, q) ==
    \/ p \in Tree /\ q \notin Tree
    \/ (p \in Tree <=> q \in Tree) /\ Base(p) < Base(q)

\* Of the entries of a directory, first directories, then files, each by name.
InOrderOfProcessing(p, q) ==
    \/ p \notin Tree /\ q \in Tree
    \/ (p \in Tree <=> q \in Tree) /\ Base(p) < Base(q)

\* The recursion: a call ends before its caller goes on, so that the deepest
\* entries, all of one directory, are up.
Earlier(p, q) == Len(p) > Len(q) \/ (Len(p) = Len(q) /\ InOrderOfProcessing(p, q))

UpNext(i, p) == p \in todo[i] /\ \A q \in todo[i] \ {p} : Earlier(p, q)

\* An error of ReadDir is ignored: what it had found until then is processed.
ProcessDir(i, dir) ==
    /\ pc[i] = "walk" /\ UpNext(i, dir) /\ dir \notin Tree
    /\ \/ /\ todo' = [todo EXCEPT ![i] = (@ \ {dir}) \cup Entries(dir)]
          /\ UNCHANGED lost
       \/ /\ "readdir" \in Faults
          /\ \E S \in SUBSET Entries(dir) : todo' = [todo EXCEPT ![i] = (@ \ {dir}) \cup S]
          /\ lost' = lost \cup {i}
    /\ UNCHANGED <<database, hash, pc, tries, cur, tx, overlapped>>

Finish(i) ==
    /\ pc[i] = "walk" /\ todo[i] = {}
    /\ Goto(i, "done")
    /\ UNCHANGED <<database, hash, tries, todo, cur, tx, history>>

(***************************************************************************)
(* applyMigration.                                                         *)
(***************************************************************************)
NextFile(i, file) == todo' = [todo EXCEPT ![i] = @ \ {file}]

\* Mutant: a file is looked up by its name.
RecordedByName(i, file) == rows[Base(file)] # None

\* select exists (select from public.schema_migrations where hash = $1)
Recorded(i, file) == \E n \in Names : rows[n] = hash[i][file]

LookUp(i, file) ==
    /\ pc[i] = "walk" /\ UpNext(i, file) /\ file \in Tree
    /\ cur' = [cur EXCEPT ![i] = file]
    /\ \/ /\ Recorded(i, file)
          /\ NextFile(i, file)
          /\ UNCHANGED pc
       \/ /\ ~Recorded(i, file)
          /\ Goto(i, "begin")
          /\ UNCHANGED todo
       \/ /\ Faults \cap {"read", "query"} # {}
          /\ Goto(i, "failed")
          /\ UNCHANGED todo
    /\ UNCHANGED <<database, hash, tries, tx, history>>

BeginTransaction(i) ==
    /\ pc[i] = "begin"
    /\ Goto(i, "apply") \/ ("begin" \in Faults /\ Goto(i, "failed"))
    /\ UNCHANGED <<database, hash, tries, todo, cur, tx, history>>

\* Mutant: the contents are executed outside of the transaction.
ApplyOutside(i) ==
    /\ pc[i] = "apply"
    /\ effects' = [effects EXCEPT ![hash[i][cur[i]]] = @ + 1]
    /\ latest' = [latest EXCEPT ![Base(cur[i])] = hash[i][cur[i]]]
    /\ Goto(i, "record")
    /\ UNCHANGED <<table, rows, hash, tries, todo, cur, tx, history>>

\* The statements of the file, in the transaction.
Apply(i) ==
    /\ pc[i] = "apply"
    /\ \/ tx' = [tx EXCEPT ![i] = @ \cup {"effect"}] /\ Goto(i, "record")
       \/ "exec" \in Faults /\ Fail(i)
    /\ UNCHANGED <<database, hash, tries, todo, cur, history>>

\* PostgreSQL lets one open transaction at a time write the row of a name.
RowIsFree(i) ==
    \A j \in Instances \ {i} : "row" \in tx[j] => Base(cur[j]) # Base(cur[i])

\* Mutant: the hash is stored outside of the transaction.
RecordOutside(i) ==
    /\ pc[i] = "record" /\ RowIsFree(i)
    /\ rows' = [rows EXCEPT ![Base(cur[i])] = hash[i][cur[i]]]
    /\ Goto(i, "commit")
    /\ UNCHANGED <<table, effects, latest, hash, tries, todo, cur, tx, history>>

\* insert ... on conflict (object_name) do update
Record(i) ==
    /\ pc[i] = "record" /\ RowIsFree(i)
    /\ \/ tx' = [tx EXCEPT ![i] = @ \cup {"row"}] /\ Goto(i, "commit")
       \/ "exec" \in Faults /\ Fail(i)
    /\ UNCHANGED <<database, hash, tries, todo, cur, history>>

\* Mutant: the transaction is neither committed nor rolled back.
CommitForgotten(i) ==
    /\ pc[i] = "commit"
    /\ NextFile(i, cur[i])
    /\ Goto(i, "walk")
    /\ UNCHANGED <<database, hash, tries, cur, tx, history>>

\* The error of Commit is dropped: with or without effect, the next file is up.
Commit(i) ==
    LET c == hash[i][cur[i]] n == Base(cur[i]) IN
    /\ pc[i] = "commit"
    /\ \/ /\ rows' = IF "row" \in tx[i] THEN [rows EXCEPT ![n] = c] ELSE rows
          /\ effects' = IF "effect" \in tx[i] THEN [effects EXCEPT ![c] = @ + 1] ELSE effects
          /\ latest' = IF "effect" \in tx[i] THEN [latest EXCEPT ![n] = c] ELSE latest
          /\ UNCHANGED lost
       \/ /\ "commit" \in Faults
          /\ lost' = lost \cup {i}
          /\ UNCHANGED <<rows, effects, latest>>
    /\ Rollback(i)
    /\ NextFile(i, cur[i])
    /\ Goto(i, "walk")
    /\ UNCHANGED <<table, hash, tries, cur, overlapped>>

\* The instance dies; PostgreSQL rolls its transaction back.
Crash(i) ==
    /\ "crash" \in Faults /\ pc[i] \notin {"new"} \cup Ended
    /\ Goto(i, "failed")
    /\ Rollback(i)
    /\ UNCHANGED <<database, hash, tries, todo, cur, history>>

-----------------------------------------------------------------------------
Step(i) ==
    \/ Connect(i) \/ Ping(i) \/ CheckTable(i) \/ CreateTable(i) \/ StatDir(i)
    \/ \E p \in todo[i] : ProcessDir(i, p) \/ LookUp(i, p)
    \/ Finish(i) \/ BeginTransaction(i) \/ Apply(i) \/ Record(i) \/ Commit(i)

Next == \E i \in Instances : Start(i) \/ Step(i) \/ Crash(i)

\* PostgreSQL answers, and instances are scheduled.
Spec == Init /\ [][Next]_vars /\ \A i \in Instances : WF_vars(Step(i))

-----------------------------------------------------------------------------
\* The walk by another definition: where two paths part, directories come before
\* files, and names in their order.
Before(p, q) ==
    \E k \in 1 .. Len(p) :
        /\ k <= Len(q) /\ p[k] # q[k]
        /\ \A l \in 1 .. k - 1 : p[l] = q[l]
        /\ \/ k < Len(p) /\ k = Len(q)
           \/ (k < Len(p) <=> k < Len(q)) /\ p[k] < q[k]

InEffect(c) == effects[c] > 0

\* Instances die and fail in the middle, commits are lost, two instances apply
\* the same file: schema_migrations says under each name what has been applied
\* last, neither more nor less.
RecordsTheLatest == rows = latest

\* A file is applied only when everything before it has taken effect: tables
\* after schemas, the files of a directory after those of its subdirectories,
\* unless an instance has lost a file to an error it ignores.
AppliesInOrder ==
    \A i \in Instances \ lost :
        pc[i] \in {"begin", "apply", "record", "commit"} =>
            \A f \in Tree : Before(f, cur[i]) => InEffect(hash[i][f])

\* New returns a database only when all files of the instance have taken effect,
\* by its own doing or another's, again unless it ignored an error.
DoneIsMigrated ==
    \A i \in Instances \ lost :
        pc[i] = "done" => \A f \in Tree : InEffect(hash[i][f])

SameRelease == \A i, j \in Instances : hash[i] = hash[j]

\* No file with these contents shares its name with another one.
NamedApart(c) ==
    \A i \in Instances, f, g \in Tree :
        hash[i][f] = c /\ Base(f) = Base(g) => f = g

\* One after the other, however they end, instances of one release apply no
\* contents twice, as long as their names are not used in two directories.
OnceIfAlone ==
    SameRelease /\ ~overlapped =>
        \A c \in Contents : NamedApart(c) => effects[c] <= 1

\* An instance that has started comes to an end: whoever waits for a row that
\* another transaction has written gets it.
MigrationEnds == \A i \in Instances : pc[i] = "connect" ~> pc[i] \in Ended
=============================================================================
