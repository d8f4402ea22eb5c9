---------------------------- MODULE LoggerProofs ----------------------------
(***************************************************************************)
(* What the lines of Logger promise, for any number of requests and of     *)
(* records at any levels, and for every level from info up that the logger *)
(* is given.                                                               *)
(***************************************************************************)
EXTENDS Logger, FiniteSetTheorems, TLAPS

(***************************************************************************)
(* Sequences that list the values at a set of indices.                     *)
(***************************************************************************)
\* The positions of the indices in S are those of a sequence as long as S.
LEMMA Positions ==
    ASSUME NEW n \in Nat, NEW S \in SUBSET (1 .. n)
    PROVE  /\ IsFiniteSet(S) /\ Cardinality(S) \in Nat
           /\ \A i \in S : Position(S, i) \in 1 .. Cardinality(S)
<1>0. IsFiniteSet(1 .. n)
  BY FS_Interval
<1>1. IsFiniteSet(S)
  BY <1>0, FS_Subset
<1>2. Cardinality(S) \in Nat
  BY <1>1, FS_CardinalityType
<1>3. ASSUME NEW i \in S PROVE Position(S, i) \in 1 .. Cardinality(S)
  <2> DEFINE P == {j \in S : j <= i}
  <2>1. P \subseteq S /\ IsFiniteSet(P)
    BY <1>1, FS_Subset
  <2>2. Cardinality(P) \in Nat /\ Cardinality(P) <= Cardinality(S)
    BY <2>1, <1>1, FS_Subset, FS_CardinalityType
  <2>3. i \in P
    OBVIOUS
  <2>4. Cardinality(P) # 0
    BY <2>1, <2>3, FS_EmptySet
  <2> QED BY <2>2, <2>4, <1>2 DEF Position
<1> QED BY <1>1, <1>2, <1>3

\* An index after all others only adds its value at the end.
LEMMA ListsMore ==
    ASSUME NEW n \in Nat, NEW S \in SUBSET (1 .. n), NEW T, NEW seq \in Seq(T),
           NEW f, NEW g, Lists(seq, S, f), \A i \in 1 .. n : g[i] = f[i]
    PROVE  /\ Lists(seq, S, g)
           /\ g[n + 1] \in T => Lists(Append(seq, g[n + 1]), S \cup {n + 1}, g)
<1>1. Lists(seq, S, g)
  BY DEF Lists
<1>2. ASSUME g[n + 1] \in T PROVE Lists(Append(seq, g[n + 1]), S \cup {n + 1}, g)
  <2> DEFINE U == S \cup {n + 1}
             more == Append(seq, g[n + 1])
  <2>1. /\ IsFiniteSet(S) /\ Cardinality(S) \in Nat
        /\ \A i \in S : Position(S, i) \in 1 .. Cardinality(S)
    BY Positions
  <2>2. n + 1 \notin S
    OBVIOUS
  <2>3. Cardinality(U) = Cardinality(S) + 1
    BY <2>1, <2>2, FS_AddElement
  <2>4. Len(seq) = Cardinality(S)
    BY DEF Lists
  <2>5. Len(more) = Cardinality(U)
    BY <2>1, <2>3, <2>4, <1>2
  <2>6. ASSUME NEW i \in S PROVE more[Position(U, i)] = g[i]
    <3>1. {j \in U : j <= i} = {j \in S : j <= i}
      OBVIOUS
    <3>2. Position(U, i) = Position(S, i)
      BY <3>1 DEF Position
    <3>3. more[Position(S, i)] = seq[Position(S, i)]
      BY <2>1, <2>4, <1>2
    <3> QED BY <3>2, <3>3, <1>1 DEF Lists
  <2>7. more[Position(U, n + 1)] = g[n + 1]
    <3>0. \A j \in U : j \in Int /\ j <= n + 1
      OBVIOUS
    <3>1. {j \in U : j <= n + 1} = U
      BY <3>0
    <3>2. Position(U, n + 1) = Len(seq) + 1
      BY <3>1, <2>3, <2>4 DEF Position
    <3> QED BY <3>2, <1>2
  <2> QED BY <2>5, <2>6, <2>7 DEF Lists
<1> QED BY <1>1, <1>2

(***************************************************************************)
(* One more record.                                                        *)
(***************************************************************************)
\* Every record has a message, and levels are numbers.
LEMMA NoneIsNoName == None \notin Names
<1>1. None # "start" /\ None # "no session" /\ None # "finish" /\ None # "runtime" /\ None # Server
  BY DEF None, Server
<1>2. None \notin HandlerRecords /\ None \notin Requests /\ None \notin ServiceRecords
  BY LoggerConstantsOK
<1> QED BY <1>1, <1>2 DEF Names, Users

LEMMA RecordTypes ==
    ASSUME NEW rec \in Records
    PROVE  /\ rec.level \in Debug .. Panic /\ rec.level \in Int
           /\ rec.name \in Names /\ rec.name # None
<1>1. rec.level \in Debug .. Panic /\ rec.name \in Names
  BY DEF Records
<1> QED BY <1>1, NoneIsNoName DEF Debug, Panic

LEMMA BufferTypes ==
    ASSUME NEW b \in Buffers
    PROVE  /\ b.level \in ZeroLevel .. Panic /\ b.level \in Int
           /\ b.message \in Names \cup {None} /\ b.fields \in Seq(Names)
<1>1. b.level \in ZeroLevel .. Panic /\ b.message \in Names \cup {None} /\ b.fields \in Seq(Names)
  BY DEF Buffers
<1> QED BY <1>1 DEF ZeroLevel, Debug, Panic

\* top is the level of a buffer that began at low and was given h.
IsTop(h, low, top) ==
    /\ \A i \in DOMAIN h : h[i].level <= top
    /\ IF Kept(h, low) = {} THEN top = low ELSE \E i \in Kept(h, low) : h[i].level = top

\* Whether a record counts depends on its level and that of the buffer only.
LEMMA KeptOfMore ==
    ASSUME NEW h \in Seq(Records), NEW rec \in Records, NEW low \in Int, NEW top \in Int,
           IsTop(h, low, top)
    PROVE  Kept(Append(h, rec), low) =
              IF rec.level < top THEN Kept(h, low) ELSE Kept(h, low) \cup {Len(h) + 1}
<1> DEFINE g == Append(h, rec)
           n == Len(h)
<1>1. /\ n \in Nat /\ DOMAIN h = 1 .. n /\ DOMAIN g = 1 .. n + 1
      /\ g[n + 1] = rec /\ \A i \in 1 .. n : g[i] = h[i]
  OBVIOUS
<1>0. \A i \in 1 .. n : h[i] \in Records
  BY <1>1
<1>2. rec.level \in Int /\ \A i \in 1 .. n : h[i].level \in Int
  BY <1>0, RecordTypes
<1> HIDE DEF g, n
<1>3. \A i \in 1 .. n : i \in Kept(g, low) <=> i \in Kept(h, low)
  BY <1>1 DEF Kept
<1>4. n + 1 \in Kept(g, low) <=> rec.level >= low /\ \A j \in 1 .. n : h[j].level <= rec.level
  BY <1>1 DEF Kept
<1>5. Kept(g, low) \subseteq 1 .. n + 1 /\ Kept(h, low) \subseteq 1 .. n
  BY <1>1 DEF Kept
<1>6. rec.level < top => n + 1 \notin Kept(g, low)
  BY <1>1, <1>2, <1>4, <1>5 DEF IsTop
<1>7. ~(rec.level < top) => n + 1 \in Kept(g, low)
  <2> SUFFICES ASSUME rec.level >= top PROVE n + 1 \in Kept(g, low)
    BY <1>2
  <2>1. \A j \in 1 .. n : h[j].level <= rec.level
    BY <1>1, <1>2 DEF IsTop
  <2>2. low <= top
    BY <1>1, <1>2 DEF IsTop, Kept
  <2> QED BY <2>1, <2>2, <1>2, <1>4
<1>8. CASE rec.level < top
  <2>1. Kept(g, low) \subseteq 1 .. n
    BY <1>1, <1>5, <1>6, <1>8
  <2>2. \A i : i \in Kept(g, low) <=> i \in Kept(h, low)
    BY <2>1, <1>3, <1>5
  <2>3. Kept(g, low) = Kept(h, low)
    BY <2>2
  <2> QED BY <2>3, <1>8 DEF g
<1>9. CASE ~(rec.level < top)
  <2>1. Kept(g, low) = Kept(h, low) \cup {n + 1}
    BY <1>1, <1>3, <1>5, <1>7, <1>9
  <2> QED BY <2>1, <1>9 DEF g, n
<1> QED BY <1>8, <1>9

LEMMA HeldIsTop ==
    ASSUME NEW b \in Buffers, NEW h \in Seq(Records), NEW low \in Int, Holds(b, h, low)
    PROVE  IsTop(h, low, b.level)
BY DEF Holds, IsTop, Merged

\* merge keeps what the buffer holds in step with the records.
LEMMA MergeHolds ==
    ASSUME NEW b \in Buffers, NEW h \in Seq(Records), NEW rec \in Records, NEW low \in Int,
           Holds(b, h, low)
    PROVE  Holds(merge(b, rec), Append(h, rec), low)
<1> DEFINE g == Append(h, rec)
           n == Len(h)
           names(s) == [i \in DOMAIN s |-> s[i].name]
<1>1. /\ n \in Nat /\ DOMAIN h = 1 .. n /\ DOMAIN g = 1 .. n + 1
      /\ g[n + 1] = rec /\ \A i \in 1 .. n : g[i] = h[i]
  OBVIOUS
<1>2. /\ b.level \in Int /\ b.fields \in Seq(Names)
      /\ rec.level \in Int /\ rec.name \in Names /\ rec.name # None
  BY RecordTypes, BufferTypes
<1>0. \A i \in 1 .. n : h[i] \in Records
  BY <1>1
<1>3. \A i \in 1 .. n : h[i].level \in Int /\ h[i].name # None
  BY <1>0, RecordTypes
<1>4. Kept(g, low) = IF rec.level < b.level THEN Kept(h, low) ELSE Kept(h, low) \cup {n + 1}
  BY <1>2, HeldIsTop, KeptOfMore
<1>5. Kept(h, low) \subseteq 1 .. n
  BY <1>1 DEF Kept
<1>6. Lists(b.fields, Kept(h, low), names(h))
  <2>1. CASE Kept(h, low) = {}
    BY <2>1, FS_EmptySet DEF Holds, Lists
  <2>2. CASE Kept(h, low) # {}
    BY <2>2 DEF Holds, Merged
  <2> QED BY <2>1, <2>2
<1>7. /\ Lists(b.fields, Kept(h, low), names(g))
      /\ Lists(Append(b.fields, rec.name), Kept(h, low) \cup {n + 1}, names(g))
  <2>1. \A i \in 1 .. n : names(g)[i] = names(h)[i]
    BY <1>1
  <2>2. names(g)[n + 1] = rec.name
    BY <1>1
  <2> HIDE DEF names, g, n
  <2> QED BY <1>1, <1>2, <1>5, <1>6, <2>1, <2>2, ListsMore
<1> HIDE DEF g, n, names
<1>8. CASE rec.level < b.level
  <2>1. merge(b, rec) = b
    BY <1>8 DEF merge
  <2>2. Kept(g, low) = Kept(h, low)
    BY <1>4, <1>8
  <2>3. \A i \in DOMAIN g : g[i].level <= b.level
    BY <1>1, <1>2, <1>3, <1>8 DEF Holds
  <2>4. CASE Kept(h, low) = {}
    BY <2>1, <2>2, <2>3, <2>4 DEF Holds, g
  <2>5. CASE Kept(h, low) # {}
    <3>1. PICK i \in Kept(h, low) :
             Main(h, low, i) /\ b.level = h[i].level /\ b.message = h[i].name
      BY <2>5 DEF Holds, Merged
    <3>2. Tops(g, low) = Tops(h, low)
      BY <1>1, <1>5, <2>2 DEF Tops
    <3>3. Tops(h, low) \subseteq 1 .. n
      BY <1>5 DEF Tops
    <3>4. Main(g, low, i)
      BY <1>1, <3>1, <3>2, <3>3 DEF Main
    <3>5. b.level = g[i].level /\ b.message = g[i].name
      BY <3>1, <1>1, <1>5
    <3>6. Merged(g, low, b)
      BY <2>2, <3>4, <3>5, <1>7 DEF Merged, names
    <3> QED BY <2>1, <2>2, <2>3, <2>5, <3>6 DEF Holds, g
  <2> QED BY <2>4, <2>5
<1>9. CASE ~(rec.level < b.level)
  <2> DEFINE m == merge(b, rec)
  <2>1. /\ m.level = rec.level
        /\ m.message = IF rec.main \/ rec.level > b.level \/ b.message = None
                       THEN rec.name ELSE b.message
        /\ m.fields = Append(b.fields, rec.name)
    BY <1>9 DEF merge
  <2> HIDE DEF m
  <2>2. Kept(g, low) = Kept(h, low) \cup {n + 1}
    BY <1>4, <1>9
  <2>3. \A i \in DOMAIN g : g[i].level <= rec.level
    BY <1>1, <1>2, <1>3, <1>9 DEF Holds
  <2>4. Lists(m.fields, Kept(g, low), names(g))
    BY <2>1, <2>2, <1>7
  <2>5. n + 1 \in Tops(g, low)
    BY <2>2, <2>3, <1>1, <1>2, <1>5 DEF Tops
  <2>6. CASE rec.level > b.level \/ Kept(h, low) = {}
    <3>1. Tops(g, low) = {n + 1}
      BY <2>2, <2>5, <2>6, <1>1, <1>2, <1>3, <1>5 DEF Tops, Holds
    <3>2. Main(g, low, n + 1)
      BY <3>1, <1>1 DEF Main
    <3>3. m.message = rec.name
      BY <2>1, <2>6 DEF Holds
    <3>4. Merged(g, low, m)
      BY <2>1, <2>2, <2>4, <3>2, <3>3, <1>1 DEF Merged, names
    <3> QED BY <2>1, <2>2, <2>3, <3>4 DEF Holds, g, m
  <2>7. CASE rec.level = b.level /\ Kept(h, low) # {}
    <3>1. PICK i \in Kept(h, low) :
             Main(h, low, i) /\ b.level = h[i].level /\ b.message = h[i].name
      BY <2>7 DEF Holds, Merged
    <3>2. Tops(g, low) = Tops(h, low) \cup {n + 1}
      BY <2>2, <2>5, <2>7, <3>1, <1>1, <1>2, <1>3, <1>5 DEF Tops, Holds
    <3>3. Tops(h, low) \subseteq 1 .. n
      BY <1>5 DEF Tops
    <3>4. CASE rec.main
      <4>1. Main(g, low, n + 1)
        BY <3>2, <3>3, <3>4, <1>1 DEF Main
      <4>2. m.level = g[n + 1].level /\ m.message = g[n + 1].name
        BY <2>1, <3>4, <1>1
      <4>3. Merged(g, low, m)
        BY <2>2, <2>4, <4>1, <4>2 DEF Merged, names
      <4> QED BY <2>1, <2>2, <2>3, <4>3 DEF Holds, g, m
    <3>5. CASE ~rec.main
      <4>1. Main(g, low, i)
        BY <3>1, <3>2, <3>3, <3>5, <1>1 DEF Main
      <4>2. m.level = g[i].level /\ m.message = g[i].name
        BY <2>1, <2>7, <3>1, <3>5, <1>1, <1>3, <1>5
      <4>3. Merged(g, low, m)
        BY <2>2, <2>4, <4>1, <4>2 DEF Merged, names
      <4> QED BY <2>1, <2>2, <2>3, <4>3 DEF Holds, g, m
    <3> QED BY <3>4, <3>5
  <2> QED BY <2>6, <2>7, <1>2, <1>9
<1> QED BY <1>8, <1>9

\* What becomes a line of its own.
Written(level) == Enabled(level) /\ level # DPanic

\* In the other mode, what is written stays in step with the records.
LEMMA LineForMore ==
    ASSUME NEW h \in Seq(Records), NEW rec \in Records, NEW ls \in Seq(Buffers),
           LineForEach(h, ls), Line(rec) \in Buffers
    PROVE  LineForEach(Append(h, rec), ls \o directLog(Line(rec)))
<1> DEFINE g == Append(h, rec)
           n == Len(h)
           wr(s) == {i \in DOMAIN s : Written(s[i].level)}
           each(s) == [i \in DOMAIN s |-> Line(s[i])]
<1>1. /\ n \in Nat /\ DOMAIN h = 1 .. n /\ DOMAIN g = 1 .. n + 1
      /\ g[n + 1] = rec /\ \A i \in 1 .. n : g[i] = h[i]
  OBVIOUS
<1>2. Lists(ls, wr(h), each(h))
  BY DEF LineForEach, Written
<1>3. wr(h) \in SUBSET (1 .. n)
  BY <1>1
<1>4. (\A i \in 1 .. n : each(g)[i] = each(h)[i]) /\ each(g)[n + 1] = Line(rec)
  BY <1>1
<1>5. wr(g) = IF Written(rec.level) THEN wr(h) \cup {n + 1} ELSE wr(h)
  <2>1. \A i \in 1 .. n : i \in wr(g) <=> i \in wr(h)
    BY <1>1
  <2>2. n + 1 \in wr(g) <=> Written(rec.level)
    BY <1>1
  <2>3. wr(g) \subseteq 1 .. n + 1 /\ wr(h) \subseteq 1 .. n
    BY <1>1
  <2>4. \A i \in 1 .. n + 1 : i = n + 1 \/ i \in 1 .. n
    BY <1>1
  <2> HIDE DEF wr, g, n
  <2>5. CASE Written(rec.level)
    <3>1. \A i : i \in wr(g) <=> i \in wr(h) \cup {n + 1}
      BY <2>1, <2>2, <2>3, <2>4, <2>5
    <3>2. wr(g) = wr(h) \cup {n + 1}
      BY <3>1
    <3> QED BY <3>2, <2>5
  <2>6. CASE ~Written(rec.level)
    <3>1. \A i : i \in wr(g) <=> i \in wr(h)
      BY <2>1, <2>2, <2>3, <2>4, <2>6
    <3>2. wr(g) = wr(h)
      BY <3>1
    <3> QED BY <3>2, <2>6
  <2> QED BY <2>5, <2>6
<1>6. directLog(Line(rec)) = IF Written(rec.level) THEN <<Line(rec)>> ELSE <<>>
  BY DEF directLog, Line, Written
<1> HIDE DEF wr, each, g, n
<1>7. Lists(ls, wr(h), each(g)) /\ Lists(Append(ls, Line(rec)), wr(h) \cup {n + 1}, each(g))
  BY <1>1, <1>2, <1>3, <1>4, ListsMore
<1>8. CASE Written(rec.level)
  <2>1. ls \o directLog(Line(rec)) = Append(ls, Line(rec))
    BY <1>6, <1>8
  <2>2. Lists(ls \o directLog(Line(rec)), wr(g), each(g))
    BY <2>1, <1>5, <1>7, <1>8
  <2> QED BY <2>2 DEF LineForEach, Written, wr, each, g
<1>9. CASE ~Written(rec.level)
  <2>1. ls \o directLog(Line(rec)) = ls
    BY <1>6, <1>9
  <2>2. Lists(ls \o directLog(Line(rec)), wr(g), each(g))
    BY <2>1, <1>5, <1>7, <1>9
  <2> QED BY <2>2 DEF LineForEach, Written, wr, each, g
<1> QED BY <1>8, <1>9

\* The line that is promised, or none because of a DPanic.
Outcome(h, low, ls) == OneLine(h, low, ls) \/ (DPanicOnTop(h, low) /\ ls = <<>>)

\* What Flush writes is just that.
LEMMA FlushWrites ==
    ASSUME NEW b \in Buffers, NEW h \in Seq(Records), NEW low \in Int,
           Holds(b, h, low), oneline = TRUE
    PROVE  Outcome(h, low, flushed(b))
<1>1. Kept(h, low) \subseteq DOMAIN h
  BY DEF Kept
<1>2. CASE Kept(h, low) = {}
  <2>1. flushed(b) = <<>>
    BY <1>2 DEF Holds, flushed, Pending
  <2> QED BY <2>1, <1>2 DEF Outcome, OneLine
<1>3. CASE Kept(h, low) # {}
  <2>1. Merged(h, low, b)
    BY <1>3 DEF Holds
  <2>2. PICK i \in Kept(h, low) :
           Main(h, low, i) /\ b.level = h[i].level /\ b.message = h[i].name
    BY <2>1 DEF Merged
  <2>3. \A j \in DOMAIN h : h[j] \in Records
    OBVIOUS
  <2>4. \A j \in DOMAIN h : h[j].level \in Int /\ h[j].name # None
    BY <2>3, RecordTypes
  <2>5. flushed(b) = IF Written(b.level) THEN <<b>> ELSE <<>>
    BY <2>2, <2>4, <1>1 DEF flushed, Pending, directLog, Written
  <2>6. \A j \in Kept(h, low) : Main(h, low, j) => h[j].level = h[i].level
    BY <2>2, <2>4, <1>1 DEF Main, Tops
  <2>7. CASE Written(b.level)
    <3>1. \E j \in Kept(h, low) : Main(h, low, j) /\ Enabled(h[j].level)
      BY <2>2, <2>7 DEF Written
    <3>2. Len(<<b>>) = 1 /\ <<b>>[1] = b
      OBVIOUS
    <3> QED BY <3>1, <3>2, <2>1, <2>5, <2>7 DEF Outcome, OneLine
  <2>8. CASE ~Enabled(b.level)
    <3>1. ~\E j \in Kept(h, low) : Main(h, low, j) /\ Enabled(h[j].level)
      BY <2>2, <2>6, <2>8
    <3> QED BY <3>1, <2>5, <2>8 DEF Outcome, OneLine, Written
  <2>9. CASE b.level = DPanic
    <3>1. DPanicOnTop(h, low)
      BY <2>2, <2>9 DEF DPanicOnTop
    <3> QED BY <3>1, <2>5, <2>9 DEF Outcome, Written
  <2> QED BY <2>7, <2>8, <2>9 DEF Written
<1> QED BY <1>2, <1>3

(***************************************************************************)
(* Types.                                                                  *)
(***************************************************************************)
LEMMA MergeTypes ==
    ASSUME NEW b \in Buffers, NEW rec \in Records
    PROVE  merge(b, rec) \in Buffers
<1>1. /\ rec.level \in ZeroLevel .. Panic /\ rec.name \in Names
      /\ b.message \in Names \cup {None} /\ Append(b.fields, rec.name) \in Seq(Names)
  BY RecordTypes, BufferTypes DEF ZeroLevel, Debug, Panic
<1> QED BY <1>1 DEF merge, Buffers

LEMMA LineTypes ==
    ASSUME NEW rec \in Records
    PROVE  Line(rec) \in Buffers /\ directLog(Line(rec)) \in Seq(Buffers)
<1>1. /\ rec.level \in ZeroLevel .. Panic /\ rec.name \in Names
      /\ <<rec.name>> \in Seq(Names)
  BY RecordTypes DEF ZeroLevel, Debug, Panic
<1>2. Line(rec) \in Buffers
  BY <1>1 DEF Line, Buffers
<1> QED BY <1>2 DEF directLog

LEMMA EmptyTypes ==
    Empty \in Buffers /\ <<>> \in Seq(Buffers) /\ <<>> \in Seq(Records)
<1>1. ZeroLevel \in ZeroLevel .. Panic /\ None \in Names \cup {None} /\ <<>> \in Seq(Names)
  BY DEF ZeroLevel, Debug, Panic
<1>2. Empty \in Buffers
  BY <1>1 DEF Empty, Buffers
<1> QED BY <1>2

LEMMA FlushTypes ==
    ASSUME NEW b \in Buffers
    PROVE  flushed(b) \in Seq(Buffers)
BY DEF flushed, Pending, directLog

LEMMA PanicRecord ==
    ASSUME NEW r \in Requests
    PROVE  BaseRecords(r) = {Record(Error, r, FALSE)}
<1>1. r # Server
  BY LoggerConstantsOK
<1> QED BY <1>1 DEF BaseRecords

\* The records that the program logs.
LEMMA RecordsLogged ==
    /\ Record(Info, "start", FALSE) \in Records
    /\ Record(Error, "no session", FALSE) \in Records
    /\ Record(Info, "finish", FALSE) \in Records
    /\ Record(Error, "runtime", TRUE) \in Records
    /\ \A name \in HandlerRecords, level \in LogLevels, main \in BOOLEAN :
          Record(level, name, main) \in Records
    /\ \A u \in Users : BaseRecords(u) \subseteq Records
<1>1. Info \in Debug .. Panic /\ Error \in Debug .. Panic
  BY DEF Info, Error, Debug, Panic
<1>2. LogLevels \subseteq Debug .. Panic
  BY LoggerConstantsOK
<1>3. \A level \in Debug .. Panic, name \in Names, main \in BOOLEAN :
         Record(level, name, main) \in Records
  BY DEF Record, Records
<1>4. ASSUME NEW u \in Users PROVE BaseRecords(u) \subseteq Records
  <2>1. u \in Names /\ Server \in Names
    BY DEF Names, Users
  <2>2. (pc[u] = "store") \in BOOLEAN
    OBVIOUS
  <2>3. CASE u = Server
    <3>1. BaseRecords(u) = {Record(Info, Server, pc[u] = "store")}
      <4>1. u \notin Requests
        BY <2>3, LoggerConstantsOK
      <4> QED BY <2>3, <4>1 DEF BaseRecords
    <3> QED BY <1>1, <1>3, <2>1, <2>2, <3>1
  <2>4. CASE u \in Requests
    <3>1. BaseRecords(u) = {Record(Error, u, FALSE)}
      BY <2>4, PanicRecord
    <3> QED BY <1>1, <1>3, <2>1, <3>1
  <2>5. CASE u \in ServiceRecords
    <3>1. u # Server /\ u \notin Requests
      BY <2>5, LoggerConstantsOK
    <3>2. BaseRecords(u) = {Record(level, u, main) : level \in LogLevels, main \in BOOLEAN}
      BY <3>1 DEF BaseRecords
    <3> QED BY <1>2, <1>3, <2>1, <3>2
  <2> QED BY <2>3, <2>4, <2>5 DEF Users
<1> QED BY <1>1, <1>2, <1>3, <1>4 DEF Names

LEMMA TypesInitially == Init => TypeOK
<1> SUFFICES ASSUME Init PROVE TypeOK
  OBVIOUS
<1>1. oneline \in BOOLEAN /\ shared \in BOOLEAN
  BY DEF Init
<1>2. base \in Buffers /\ buf \in [Requests -> Buffers] /\ copy \in [Users -> Buffers]
  BY EmptyTypes DEF Init
<1>3. /\ baseLines \in Seq(Buffers) /\ lines \in [Requests -> Seq(Buffers)]
      /\ hist \in [Requests -> Seq(Records)]
  BY EmptyTypes DEF Init
<1>4. inherited \in [Requests -> ZeroLevel .. Panic]
  BY DEF Init, ZeroLevel, Debug, Panic
<1>5. pc \in [Users -> {"boot", "new", "load"}]
  BY DEF Init
<1> QED BY <1>1, <1>2, <1>3, <1>4, <1>5 DEF TypeOK, Flushed

\* A record is logged, by a request that then stands at where.
LEMMA LogTypes ==
    ASSUME TypeOK, NEW r \in Requests, NEW rec \in Records, NEW where \in Unflushed,
           Log(r, rec), Goto(r, where)
    PROVE  TypeOK'
<1>1. merge(buf[r], rec) \in Buffers
  BY MergeTypes DEF TypeOK
<1>2. lines[r] \o directLog(Line(rec)) \in Seq(Buffers)
  BY LineTypes DEF TypeOK
<1>3. Append(hist[r], rec) \in Seq(Records)
  BY DEF TypeOK
<1>4. buf' \in [Requests -> Buffers]
  BY <1>1 DEF TypeOK, Log
<1>5. lines' \in [Requests -> Seq(Buffers)]
  BY <1>2 DEF TypeOK, Log
<1>6. hist' \in [Requests -> Seq(Records)]
  BY <1>3 DEF TypeOK, Log
<1> HIDE DEF Buffers, Records
<1> QED BY <1>4, <1>5, <1>6 DEF TypeOK, Log, Goto, Users

LEMMA TypesStep == TypeOK /\ [Next]_vars => TypeOK'
<1> SUFFICES ASSUME TypeOK, [Next]_vars PROVE TypeOK'
  OBVIOUS
<1>0. Empty \in Buffers
  BY EmptyTypes
<1>1. ASSUME NEW r \in Requests, With(r) PROVE TypeOK'
  <2>1. base.level \in ZeroLevel .. Panic
    BY BufferTypes DEF TypeOK
  <2>2. [Empty EXCEPT !.level = base.level] \in Buffers
    BY <1>0, <2>1 DEF Buffers
  <2> QED BY <1>1, <2>1, <2>2 DEF TypeOK, With, Goto, Users, Unflushed
<1>2. ASSUME NEW r \in Requests, LogStart(r) PROVE TypeOK'
  BY <1>2, LogTypes, RecordsLogged DEF LogStart, Unflushed
<1>3. ASSUME NEW r \in Requests, LogHandler(r) PROVE TypeOK'
  <2>1. PICK name \in HandlerRecords, level \in LogLevels, main \in BOOLEAN :
           /\ Log(r, Record(level, name, main))
           /\ Goto(r, IF ~oneline /\ level = Panic THEN "flush panic" ELSE "handler")
    BY <1>3 DEF LogHandler
  <2>2. Record(level, name, main) \in Records
    BY RecordsLogged
  <2>3. (IF ~oneline /\ level = Panic THEN "flush panic" ELSE "handler") \in Unflushed
    BY DEF Unflushed
  <2> QED BY <2>1, <2>2, <2>3, LogTypes
<1>4. ASSUME NEW r \in Requests, HandlerPanics(r) PROVE TypeOK'
  BY <1>4 DEF TypeOK, HandlerPanics, Goto, Unflushed
<1>5. ASSUME NEW r \in Requests, LogFinish(r) PROVE TypeOK'
  BY <1>5, LogTypes, RecordsLogged DEF LogFinish, Unflushed
<1>6. ASSUME NEW r \in Requests, Flush(r) PROVE TypeOK'
  <2>1. lines[r] \o flushed(buf[r]) \in Seq(Buffers)
    BY FlushTypes DEF TypeOK
  <2>2. lines' \in [Requests -> Seq(Buffers)] /\ buf' \in [Requests -> Buffers]
    BY <1>0, <1>6, <2>1 DEF TypeOK, Flush
  <2> QED BY <1>6, <2>2 DEF TypeOK, Flush, Goto, Flushed
<1>7. ASSUME NEW u \in Users, BaseLoad(u) PROVE TypeOK'
  <2>1. shared' \in BOOLEAN
    BY <1>7 DEF BaseLoad, Enter, TypeOK
  <2> QED BY <1>7, <2>1 DEF TypeOK, BaseLoad, Goto, InTheBase
<1>8. ASSUME NEW u \in Users, BaseStore(u) PROVE TypeOK'
  <2>1. PICK rec \in BaseRecords(u) :
           /\ base' = IF oneline THEN merge(copy[u], rec) ELSE base
           /\ baseLines' = IF oneline THEN baseLines ELSE baseLines \o directLog(Line(rec))
    BY <1>8 DEF BaseStore
  <2>2. rec \in Records
    BY RecordsLogged
  <2>3. merge(copy[u], rec) \in Buffers
    BY <2>2, MergeTypes DEF TypeOK
  <2>4. baseLines \o directLog(Line(rec)) \in Seq(Buffers)
    BY <2>2, LineTypes DEF TypeOK
  <2>5. base' \in Buffers /\ baseLines' \in Seq(Buffers) /\ copy' \in [Users -> Buffers]
    BY <1>0, <1>8, <2>1, <2>3, <2>4 DEF TypeOK, BaseStore
  <2>6. pc' \in [Users -> {"boot", "serving", "new"} \cup Unflushed \cup InTheBase \cup Flushed]
    BY <1>8 DEF TypeOK, BaseStore, Goto, Flushed
  <2> QED BY <1>8, <2>5, <2>6 DEF TypeOK, BaseStore
<1>9. CASE Terminate
  BY <1>9 DEF TypeOK, Terminate, Goto, Flushed
<1>10. ASSUME NEW u \in Users, BaseOutput(u) PROVE TypeOK'
  <2>1. baseLines \o flushed(base) \in Seq(Buffers)
    BY FlushTypes DEF TypeOK
  <2> QED BY <1>10, <2>1 DEF TypeOK, BaseOutput, Goto, Flushed
<1>11. ASSUME NEW u \in Users, BaseReset(u) PROVE TypeOK'
  BY <1>0, <1>11 DEF TypeOK, BaseReset, Goto, Flushed
<1>12. CASE UNCHANGED vars
  BY <1>12 DEF TypeOK, vars
<1> QED BY <1>1, <1>2, <1>3, <1>4, <1>5, <1>6, <1>7, <1>8, <1>9, <1>10, <1>11, <1>12 DEF Next

\* The state of the logger has its types, for every instance.
THEOREM LoggerTypes == Spec => []TypeOK
BY TypesInitially, TypesStep, PTL DEF Spec

(***************************************************************************)
(* The lines of requests.                                                  *)
(***************************************************************************)
\* The part of the invariant that is about one request, of its own state alone.
Promise(where, one, h, low, b, ls) ==
    /\ where = "new" => h = <<>> /\ ls = <<>>
    /\ where \in Unflushed =>
          IF one THEN ls = <<>> /\ Holds(b, h, low) ELSE LineForEach(h, ls)
    /\ where \in Flushed =>
          IF one THEN Outcome(h, low, ls) ELSE LineForEach(h, ls)

LEMMA PromiseIsInv ==
    BufferInv /\ LinesAsPromised <=>
        \A r \in Requests : Promise(pc[r], oneline, hist[r], inherited[r], buf[r], lines[r])
BY DEF BufferInv, LinesAsPromised, Promise, Outcome

LEMMA PromiseIsInvNext ==
    (BufferInv /\ LinesAsPromised)' <=>
        \A r \in Requests :
            Promise(pc'[r], oneline', hist'[r], inherited'[r], buf'[r], lines'[r])
BY DEF BufferInv, LinesAsPromised, Promise, Outcome

\* Nothing has been logged to a logger that was just cloned.
LEMMA ClonePromise ==
    ASSUME NEW low \in Int
    PROVE  /\ Holds([Empty EXCEPT !.level = low], <<>>, low)
           /\ LineForEach(<<>>, <<>>)
<1>1. Kept(<<>>, low) = {}
  BY DEF Kept
<1>2. Holds([Empty EXCEPT !.level = low], <<>>, low)
  BY <1>1 DEF Holds, Empty
<1>3. {i \in DOMAIN <<>> : Enabled(<<>>[i].level) /\ <<>>[i].level # DPanic} = {}
  OBVIOUS
<1>4. Len(<<>>) = Cardinality({})
  BY FS_EmptySet
<1>5. Lists(<<>>, {}, [i \in DOMAIN <<>> |-> Line(<<>>[i])])
  BY <1>4 DEF Lists
<1> QED BY <1>2, <1>3, <1>5 DEF LineForEach

LEMMA RequestTypes ==
    ASSUME TypeOK, NEW r \in Requests
    PROVE  /\ inherited[r] \in Int /\ buf[r] \in Buffers
           /\ hist[r] \in Seq(Records) /\ lines[r] \in Seq(Buffers)
<1>1. inherited[r] \in ZeroLevel .. Panic
  BY DEF TypeOK
<1>2. inherited[r] \in Int
  BY <1>1 DEF ZeroLevel, Debug, Panic
<1> QED BY <1>2 DEF TypeOK

\* A record that is logged keeps the promise.
LEMMA LogPromise ==
    ASSUME TypeOK, NEW r \in Requests, NEW rec \in Records, NEW where \in Unflushed,
           pc[r] \in Unflushed, Log(r, rec), Goto(r, where),
           Promise(pc[r], oneline, hist[r], inherited[r], buf[r], lines[r])
    PROVE  Promise(pc'[r], oneline', hist'[r], inherited'[r], buf'[r], lines'[r])
<1>1. /\ pc'[r] = where /\ oneline' = oneline /\ inherited'[r] = inherited[r]
      /\ hist'[r] = Append(hist[r], rec)
  BY DEF TypeOK, Log, Goto, Users
<1>2. where # "new" /\ where \notin Flushed
  BY DEF Unflushed, Flushed
<1>3. CASE oneline = TRUE
  <2>1. buf'[r] = merge(buf[r], rec) /\ lines'[r] = lines[r]
    BY <1>3 DEF TypeOK, Log
  <2>2. lines[r] = <<>> /\ Holds(buf[r], hist[r], inherited[r])
    BY <1>3 DEF Promise
  <2>3. inherited[r] \in Int /\ buf[r] \in Buffers /\ hist[r] \in Seq(Records)
    BY RequestTypes
  <2>4. Holds(merge(buf[r], rec), Append(hist[r], rec), inherited[r])
    BY <2>2, <2>3, MergeHolds
  <2> QED BY <1>1, <1>2, <1>3, <2>1, <2>2, <2>4 DEF Promise
<1>4. CASE oneline = FALSE
  <2>1. lines'[r] = lines[r] \o directLog(Line(rec))
    BY <1>4 DEF TypeOK, Log
  <2>2. LineForEach(hist[r], lines[r])
    BY <1>4 DEF Promise
  <2>3. hist[r] \in Seq(Records) /\ lines[r] \in Seq(Buffers)
    BY DEF TypeOK
  <2>4. LineForEach(Append(hist[r], rec), lines[r] \o directLog(Line(rec)))
    BY <2>2, <2>3, LineForMore, LineTypes
  <2> QED BY <1>1, <1>2, <1>4, <2>1, <2>4 DEF Promise
<1> QED BY <1>3, <1>4 DEF TypeOK

\* A step of one request leaves those of all others alone.
LEMMA OthersKeepTheirs ==
    ASSUME TypeOK, NEW r \in Requests, NEW q \in Requests \ {r},
           With(r) \/ LogStart(r) \/ LogHandler(r) \/ HandlerPanics(r) \/ LogFinish(r) \/ Flush(r)
    PROVE  /\ oneline' = oneline /\ pc'[q] = pc[q] /\ hist'[q] = hist[q]
           /\ inherited'[q] = inherited[q] /\ buf'[q] = buf[q] /\ lines'[q] = lines[q]
<1>1. q \in Users /\ q # r
  BY DEF Users
<1>2. CASE With(r)
  BY <1>1, <1>2 DEF TypeOK, With, Goto
<1>3. CASE \E rec, where : Log(r, rec) /\ Goto(r, where)
  BY <1>1, <1>3 DEF TypeOK, Log, Goto
<1>4. CASE HandlerPanics(r)
  BY <1>1, <1>4 DEF TypeOK, HandlerPanics, Goto
<1>5. CASE Flush(r)
  BY <1>1, <1>5 DEF TypeOK, Flush, Goto
<1> QED BY <1>2, <1>3, <1>4, <1>5 DEF LogStart, LogHandler, LogFinish

LEMMA LinesStep == LinesInv /\ [Next]_vars => LinesInv'
<1> SUFFICES ASSUME LinesInv, [Next]_vars PROVE LinesInv'
  OBVIOUS
<1>t. TypeOK /\ TypeOK'
  BY TypesStep DEF LinesInv
<1>p. \A r \in Requests : Promise(pc[r], oneline, hist[r], inherited[r], buf[r], lines[r])
  BY PromiseIsInv DEF LinesInv
<1> SUFFICES ASSUME NEW q \in Requests
             PROVE  Promise(pc'[q], oneline', hist'[q], inherited'[q], buf'[q], lines'[q])
  BY <1>t, PromiseIsInvNext DEF LinesInv
<1> DEFINE KeepsPromise == Promise(pc'[q], oneline', hist'[q], inherited'[q], buf'[q], lines'[q])
<1>0. ASSUME NEW r \in Requests \ {q},
             With(r) \/ LogStart(r) \/ LogHandler(r) \/ HandlerPanics(r) \/ LogFinish(r) \/ Flush(r)
      PROVE  KeepsPromise
  BY <1>0, <1>t, <1>p, OthersKeepTheirs
<1>1. CASE With(q)
  <2>1. base.level \in Int
    BY <1>t, BufferTypes DEF TypeOK
  <2>2. /\ pc[q] = "new" /\ pc'[q] = "cloned" /\ oneline' = oneline
        /\ hist'[q] = hist[q] /\ lines'[q] = lines[q]
        /\ buf'[q] = [Empty EXCEPT !.level = base.level] /\ inherited'[q] = base.level
    BY <1>1, <1>t DEF TypeOK, With, Goto, Users
  <2>3. hist[q] = <<>> /\ lines[q] = <<>>
    BY <1>p, <2>2 DEF Promise
  <2>4. Holds(buf'[q], hist'[q], inherited'[q]) /\ LineForEach(hist'[q], lines'[q])
    BY <2>1, <2>2, <2>3, ClonePromise
  <2> QED BY <2>2, <2>3, <2>4 DEF Promise, Unflushed, Flushed
<1>2. CASE LogStart(q)
  BY <1>2, <1>t, <1>p, LogPromise, RecordsLogged DEF LogStart, Unflushed
<1>3. CASE LogHandler(q)
  <2>1. PICK name \in HandlerRecords, level \in LogLevels, main \in BOOLEAN :
           /\ Log(q, Record(level, name, main))
           /\ Goto(q, IF ~oneline /\ level = Panic THEN "flush panic" ELSE "handler")
    BY <1>3 DEF LogHandler
  <2>2. Record(level, name, main) \in Records
    BY RecordsLogged
  <2>3. (IF ~oneline /\ level = Panic THEN "flush panic" ELSE "handler") \in Unflushed
    BY DEF Unflushed
  <2>4. pc[q] \in Unflushed
    BY <1>3 DEF LogHandler, Unflushed
  <2> QED BY <2>1, <2>2, <2>3, <2>4, <1>t, <1>p, LogPromise
<1>4. CASE HandlerPanics(q)
  <2>1. /\ pc[q] = "handler" /\ pc'[q] = "flush panic" /\ oneline' = oneline
        /\ hist' = hist /\ lines' = lines /\ buf' = buf /\ inherited' = inherited
    BY <1>4, <1>t DEF TypeOK, HandlerPanics, Goto, Users
  <2> QED BY <2>1, <1>p DEF Promise, Unflushed, Flushed
<1>5. CASE LogFinish(q)
  BY <1>5, <1>t, <1>p, LogPromise, RecordsLogged DEF LogFinish, Unflushed
<1>6. CASE Flush(q)
  <2>1. /\ pc[q] \in Unflushed /\ pc'[q] \in {"load", "ended"} /\ oneline' = oneline
        /\ hist' = hist /\ inherited' = inherited
        /\ lines'[q] = lines[q] \o flushed(buf[q])
    BY <1>6, <1>t DEF TypeOK, Flush, Goto, Users, Unflushed
  <2>2. CASE oneline = TRUE
    <3>1. lines[q] = <<>> /\ Holds(buf[q], hist[q], inherited[q])
      BY <1>p, <2>1, <2>2 DEF Promise
    <3>2. flushed(buf[q]) \in Seq(Buffers)
      BY <1>t, RequestTypes, FlushTypes
    <3>3. lines'[q] = flushed(buf[q])
      BY <2>1, <3>1, <3>2
    <3>4. Outcome(hist[q], inherited[q], flushed(buf[q]))
      BY <3>1, <2>2, <1>t, RequestTypes, FlushWrites
    <3> QED BY <2>1, <2>2, <3>3, <3>4 DEF Promise, Unflushed, Flushed
  <2>3. CASE oneline = FALSE
    <3>1. flushed(buf[q]) = <<>>
      BY <2>3 DEF flushed, Pending
    <3>2. lines'[q] = lines[q]
      BY <2>1, <3>1, <1>t, RequestTypes
    <3>3. LineForEach(hist[q], lines[q])
      BY <1>p, <2>1, <2>3 DEF Promise
    <3> QED BY <2>1, <2>3, <3>2, <3>3 DEF Promise, Unflushed, Flushed
  <2> QED BY <2>2, <2>3, <1>t DEF TypeOK
<1>7. ASSUME NEW u \in Users, BaseLoad(u) \/ BaseStore(u) \/ BaseOutput(u) \/ BaseReset(u)
      PROVE  KeepsPromise
  <2>1. /\ oneline' = oneline /\ hist' = hist /\ lines' = lines /\ buf' = buf
        /\ inherited' = inherited
    BY <1>7 DEF BaseLoad, BaseStore, BaseOutput, BaseReset
  <2>2. CASE u # q
    <3>1. pc'[q] = pc[q]
      BY <2>2, <1>7, <1>t DEF BaseLoad, BaseStore, BaseOutput, BaseReset, Goto, TypeOK, Users
    <3> QED BY <2>1, <3>1, <1>p
  <2>3. CASE u = q /\ pc[q] \in Flushed
    <3>1. pc'[q] \in Flushed
      BY <2>3, <1>7, <1>t
         DEF BaseLoad, BaseStore, BaseOutput, BaseReset, Goto, TypeOK, Users, Flushed
    <3> QED BY <2>1, <2>3, <3>1, <1>p DEF Promise, Flushed, Unflushed
  <2>4. CASE u = q /\ pc[q] \in {"boot", "booting"}
    <3>1. pc'[q] \in {"booting", "serving"}
      <4>1. q \notin ServiceRecords
        BY LoggerConstantsOK
      <4> QED BY <4>1, <2>4, <1>7, <1>t
              DEF BaseLoad, BaseStore, BaseOutput, BaseReset, Goto, TypeOK, Users
    <3> QED BY <3>1 DEF Promise, Flushed, Unflushed
  <2> QED BY <2>2, <2>3, <2>4, <1>7 DEF BaseLoad, BaseStore, BaseOutput, BaseReset, Flushed
<1>8. CASE Terminate
  <2>1. /\ oneline' = oneline /\ hist' = hist /\ lines' = lines /\ buf' = buf
        /\ inherited' = inherited
    BY <1>8 DEF Terminate
  <2>2. pc'[q] = pc[q]
    BY <1>8, <1>t, LoggerConstantsOK DEF Terminate, Goto, TypeOK, Users
  <2> QED BY <2>1, <2>2, <1>p
<1>9. CASE UNCHANGED vars
  BY <1>9, <1>p DEF vars
<1> QED BY <1>0, <1>1, <1>2, <1>3, <1>4, <1>5, <1>6, <1>7, <1>8, <1>9 DEF Next

LEMMA LinesInitially == Init => LinesInv
<1> SUFFICES ASSUME Init PROVE LinesInv
  OBVIOUS
<1>1. \A r \in Requests : pc[r] = "new" /\ hist[r] = <<>> /\ lines[r] = <<>>
  BY LoggerConstantsOK DEF Init, Users
<1>2. \A r \in Requests : Promise(pc[r], oneline, hist[r], inherited[r], buf[r], lines[r])
  BY <1>1 DEF Promise, Unflushed, Flushed
<1> QED BY <1>2, PromiseIsInv, TypesInitially DEF LinesInv

\* The lines of a request that has ended are those that the README promises for
\* its records, however many there were, at whatever levels, in either mode, when
\* no sampling is on (MinLevel from info up); but for what is below an inherited
\* level and for DPanic.
THEOREM LinesKeepThePromise == Spec => []LinesAsPromised
<1>1. LinesInv => LinesAsPromised
  BY DEF LinesInv
<1> QED BY <1>1, LinesInitially, LinesStep, PTL DEF Spec

(***************************************************************************)
(* The base logger.                                                        *)
(***************************************************************************)
LEMMA InMoreLines ==
    ASSUME NEW ls \in Seq(Buffers), NEW more \in Seq(Buffers), NEW name,
           InLine(ls, name) \/ InLine(more, name)
    PROVE  InLine(ls \o more, name)
<1> DEFINE all == ls \o more
<1>1. /\ Len(ls) \in Nat /\ Len(more) \in Nat /\ DOMAIN ls = 1 .. Len(ls)
      /\ DOMAIN more = 1 .. Len(more) /\ DOMAIN all = 1 .. Len(ls) + Len(more)
      /\ \A n \in 1 .. Len(ls) : all[n] = ls[n]
      /\ \A n \in 1 .. Len(more) : all[Len(ls) + n] = more[n]
  OBVIOUS
<1> HIDE DEF all
<1>2. CASE InLine(ls, name)
  <2>1. PICK n \in DOMAIN ls : \E k \in DOMAIN ls[n].fields : ls[n].fields[k] = name
    BY <1>2 DEF InLine
  <2>2. n \in DOMAIN all /\ all[n] = ls[n]
    BY <1>1
  <2> QED BY <2>1, <2>2 DEF InLine, all
<1>3. CASE InLine(more, name)
  <2>1. PICK n \in DOMAIN more : \E k \in DOMAIN more[n].fields : more[n].fields[k] = name
    BY <1>3 DEF InLine
  <2>2. Len(ls) + n \in DOMAIN all /\ all[Len(ls) + n] = more[n]
    BY <1>1
  <2> QED BY <2>1, <2>2 DEF InLine, all
<1> QED BY <1>2, <1>3

\* A buffer takes an error unless it holds what outranks it.
LEMMA ErrorIsMerged ==
    ASSUME NEW b \in Buffers, NEW rec \in Records, rec.level = Error
    PROVE  \/ merge(b, rec).level > Error
           \/ merge(b, rec).level = Error /\ InLine(<<merge(b, rec)>>, rec.name)
<1>1. b.level \in Int /\ b.fields \in Seq(Names) /\ rec.name \in Names
  BY BufferTypes, RecordTypes
<1>2. CASE b.level > Error
  BY <1>1, <1>2 DEF merge, Error
<1>3. CASE ~(b.level > Error)
  <2>1. /\ merge(b, rec).level = Error
        /\ merge(b, rec).fields = Append(b.fields, rec.name)
    BY <1>1, <1>3 DEF merge, Error
  <2>2. /\ Len(b.fields) + 1 \in DOMAIN Append(b.fields, rec.name)
        /\ Append(b.fields, rec.name)[Len(b.fields) + 1] = rec.name
    BY <1>1
  <2>3. 1 \in DOMAIN <<merge(b, rec)>> /\ <<merge(b, rec)>>[1] = merge(b, rec)
    OBVIOUS
  <2> QED BY <2>1, <2>2, <2>3 DEF InLine
<1> QED BY <1>2, <1>3

\* A buffer at Panic stays there, and one that gets there has a field.
LEMMA PanicIsMerged ==
    ASSUME NEW b \in Buffers, NEW rec \in Records
    PROVE  /\ b.level = Panic => merge(b, rec).level = Panic
           /\ (b.level = Panic => b.fields # <<>>) /\ merge(b, rec).level = Panic =>
                 merge(b, rec).fields # <<>>
<1>1. /\ b.level \in Int /\ b.fields \in Seq(Names) /\ rec.name \in Names
      /\ rec.level \in Debug .. Panic
  BY BufferTypes, RecordTypes
<1>2. CASE rec.level < b.level
  BY <1>2 DEF merge
<1>3. CASE ~(rec.level < b.level)
  <2>1. merge(b, rec).level = rec.level /\ merge(b, rec).fields = Append(b.fields, rec.name)
    BY <1>3 DEF merge
  <2>2. Append(b.fields, rec.name) # <<>>
    BY <1>1
  <2>3. b.level = Panic => rec.level = Panic
    BY <1>1, <1>3 DEF Panic, Debug
  <2> QED BY <2>1, <2>2, <2>3
<1> QED BY <1>2, <1>3

\* Nothing changes for the base logger while nobody gets into it, or further in.
LEMMA BaseAtRest ==
    ASSUME BaseInv, UNCHANGED <<oneline, base, baseLines, copy, shared>>,
           \A u \in Users : pc'[u] = pc[u] \/ pc'[u] \notin InTheBase \cup {"panicked"}
    PROVE  BaseInv'
<1>1. \A r \in Requests : r \in Users
  BY DEF Users
<1>2. PanicHasFields'
  BY DEF BaseInv, PanicHasFields
<1>3. ASSUME ~shared'
      PROVE  OneAtATime' /\ CopyIsCurrent' /\ PanicInBuffer' /\ PanicsStay'
  <2>1. OneAtATime' /\ CopyIsCurrent'
    BY <1>3 DEF BaseInv, OneAtATime, CopyIsCurrent, InBase, InTheBase
  <2>2. PanicInBuffer'
    BY <1>1, <1>3 DEF BaseInv, PanicInBuffer, InTheBase
  <2>3. PanicsStay'
    BY <1>3 DEF BaseInv, PanicsStay, InTheBase
  <2> QED BY <2>1, <2>2, <2>3
<1>4. ASSUME ~shared', MinLevel <= Error PROVE PanicInLine'
  BY <1>1, <1>4 DEF BaseInv, PanicInLine, InTheBase
<1> QED BY <1>2, <1>3, <1>4 DEF BaseInv

LEMMA PanicsStep == PanicsInv /\ [Next]_vars => PanicsInv'
<1> SUFFICES ASSUME PanicsInv, [Next]_vars PROVE BaseInv'
  BY TypesStep DEF PanicsInv
<1>t. TypeOK /\ BaseInv /\ \A r \in Requests : r \in Users
  BY DEF PanicsInv, Users
<1>1. ASSUME NEW r \in Requests,
             With(r) \/ LogStart(r) \/ LogHandler(r) \/ HandlerPanics(r) \/ LogFinish(r) \/ Flush(r)
      PROVE  BaseInv'
  <2>1. UNCHANGED <<oneline, base, baseLines, copy, shared>>
    BY <1>1 DEF With, LogStart, LogHandler, HandlerPanics, LogFinish, Flush, Log
  <2>2. \E where : Goto(r, where) /\ where \notin InTheBase \cup {"panicked"}
    <3>1. \E where \in Unflushed \cup {"load", "ended"} : Goto(r, where)
      <4>1. CASE With(r) \/ LogStart(r) \/ HandlerPanics(r)
        BY <4>1 DEF With, LogStart, HandlerPanics, Unflushed
      <4>2. CASE LogHandler(r)
        BY <4>2 DEF LogHandler, Unflushed
      <4>3. CASE LogFinish(r)
        BY <4>3 DEF LogFinish, Unflushed
      <4>4. CASE Flush(r)
        BY <4>4 DEF Flush
      <4> QED BY <1>1, <4>1, <4>2, <4>3, <4>4
    <3> QED BY <3>1 DEF Unflushed, InTheBase
  <2>3. \A u \in Users : pc'[u] = pc[u] \/ pc'[u] \notin InTheBase \cup {"panicked"}
    BY <2>2, <1>t DEF Goto, TypeOK
  <2> QED BY <2>1, <2>3, <1>t, BaseAtRest
<1>2. CASE Terminate
  <2>1. \A u \in Users : pc'[u] = pc[u] \/ pc'[u] \notin InTheBase \cup {"panicked"}
    BY <1>2, <1>t DEF Terminate, Goto, TypeOK, InTheBase
  <2> QED BY <2>1, <1>2, <1>t, BaseAtRest DEF Terminate
<1>3. ASSUME NEW u \in Users, BaseLoad(u) PROVE BaseInv'
  <2>1. /\ oneline' = oneline /\ base' = base /\ baseLines' = baseLines
        /\ copy' = [copy EXCEPT ![u] = base] /\ copy'[u] = base
        /\ pc'[u] \in {"booting", "store"} /\ \A v \in Users \ {u} : pc'[v] = pc[v]
    BY <1>3, <1>t DEF BaseLoad, Goto, TypeOK
  <2>2. PanicHasFields'
    <3>1. \A v \in Users : copy'[v] = base \/ copy'[v] = copy[v]
      BY <2>1, <1>t DEF TypeOK
    <3> QED BY <2>1, <3>1, <1>t DEF BaseInv, PanicHasFields
  <2>3. ASSUME ~shared'
        PROVE  ~shared /\ \A v \in Users \ {u} : ~InBase(v)
    BY <2>3, <1>3 DEF BaseLoad, Enter
  <2>4. ASSUME ~shared'
        PROVE  OneAtATime' /\ CopyIsCurrent' /\ PanicInBuffer' /\ PanicInLine'
    BY <2>1, <2>3, <2>4, <1>t DEF OneAtATime, CopyIsCurrent, PanicInBuffer, PanicInLine, InBase, InTheBase
  <2>5. ASSUME ~shared' PROVE PanicsStay'
    BY <2>1, <2>3, <2>5, <1>t DEF BaseInv, PanicsStay
  <2> QED BY <2>2, <2>4, <2>5 DEF BaseInv
<1>4. ASSUME NEW u \in Users, BaseStore(u) PROVE BaseInv'
  <2>1. PICK rec \in BaseRecords(u) :
           /\ base' = IF oneline THEN merge(copy[u], rec) ELSE base
           /\ baseLines' = IF oneline THEN baseLines ELSE baseLines \o directLog(Line(rec))
    BY <1>4 DEF BaseStore
  <2>2. rec \in Records /\ copy[u] \in Buffers /\ base \in Buffers
    BY <2>1, <1>t, RecordsLogged DEF TypeOK
  <2>3. /\ oneline' = oneline /\ shared' = shared /\ pc[u] \in {"booting", "store"}
        /\ pc'[u] \in {"serving", "output", "ended"}
        /\ \A v \in Users \ {u} : pc'[v] = pc[v]
        /\ \A v \in Users : copy'[v] = Empty \/ copy'[v] = copy[v]
        /\ \A v \in Users \ {u} : copy'[v] = copy[v]
    BY <1>4, <1>t DEF BaseStore, Goto, TypeOK
  <2>4. PanicHasFields'
    <3>1. Empty.level # Panic
      BY DEF Empty, ZeroLevel, Debug, Panic
    <3>2. base'.level = Panic => base'.fields # <<>>
      <4>1. (copy[u].level = Panic => copy[u].fields # <<>>)
            /\ (base.level = Panic => base.fields # <<>>)
        BY <1>t DEF BaseInv, PanicHasFields
      <4> QED BY <2>1, <2>2, <4>1, PanicIsMerged
    <3> QED BY <2>3, <3>1, <3>2, <1>t DEF BaseInv, PanicHasFields
  <2>5. ASSUME ~shared'
        PROVE  /\ ~shared /\ OneAtATime /\ InBase(u) /\ copy[u] = base
               /\ \A v \in Users \ {u} : ~InBase(v)
    <3>1. ~shared /\ OneAtATime /\ InBase(u) /\ copy[u] = base
      BY <2>3, <2>5, <1>t DEF BaseInv, CopyIsCurrent, InBase, InTheBase
    <3> QED BY <3>1 DEF OneAtATime
  <2>6. ASSUME ~shared' PROVE OneAtATime' /\ CopyIsCurrent'
    BY <2>3, <2>5, <2>6 DEF OneAtATime, CopyIsCurrent, InBase, InTheBase
  <2>7. ASSUME u \in Requests PROVE rec.level = Error /\ rec.name = u
    BY <2>1, <2>7, PanicRecord DEF Record
  <2>8. ASSUME ~shared' PROVE PanicInBuffer'
    <3> SUFFICES ASSUME NEW r \in Requests, oneline', pc'[r] = "output"
                 PROVE  base'.level > Error \/ (base'.level = Error /\ InLine(<<base'>>, r))
      BY DEF PanicInBuffer
    <3>1. r = u
      BY <2>3, <2>5, <2>8, <1>t DEF InBase, InTheBase
    <3>2. base' = merge(copy[u], rec)
      BY <2>1, <2>3
    <3> QED BY <3>1, <3>2, <2>2, <2>7, ErrorIsMerged
  <2>9. ASSUME ~shared', MinLevel <= Error PROVE PanicInLine'
    <3> SUFFICES ASSUME NEW r \in Requests, pc'[r] = "reset" \/ (~oneline' /\ pc'[r] = "output")
                 PROVE  InLine(baseLines', r)
      BY DEF PanicInLine
    <3>1. r = u /\ ~oneline
      BY <2>3, <2>5, <2>9, <1>t DEF InBase, InTheBase
    <3>2. baseLines' = baseLines \o directLog(Line(rec))
      BY <3>1, <2>1
    <3>3. InLine(directLog(Line(rec)), u)
      <4>1. Enabled(Error) /\ Error # DPanic
        BY <2>9, LoggerConstantsOK DEF Enabled, Error, DPanic, Info, Fatal
      <4>2. directLog(Line(rec)) = <<Line(rec)>>
        BY <4>1, <2>7, <3>1 DEF directLog, Line
      <4>3. Line(rec).fields = <<u>>
        BY <2>7, <3>1 DEF Line
      <4> QED BY <4>2, <4>3 DEF InLine
    <3>4. baseLines \in Seq(Buffers) /\ directLog(Line(rec)) \in Seq(Buffers)
      BY <1>t, <2>2, LineTypes DEF TypeOK
    <3> QED BY <3>1, <3>2, <3>3, <3>4, InMoreLines
  <2>10. ASSUME ~shared' PROVE PanicsStay'
    <3>1. ASSUME NEW v \in Users PROVE ~(pc'[v] = "reset")
      BY <2>3, <2>5, <2>10, <3>1 DEF InBase, InTheBase
    <3>2. ASSUME NEW v \in Users, pc'[v] = "panicked"
          PROVE  oneline' /\ base'.level = Panic
      <4>1. pc[v] = "panicked"
        BY <2>3, <3>2
      <4>2. oneline /\ base.level = Panic
        BY <4>1, <2>5, <2>10, <1>t DEF BaseInv, PanicsStay
      <4>3. base' = merge(base, rec)
        BY <4>2, <2>1, <2>5, <2>10
      <4> QED BY <4>2, <4>3, <2>2, <2>3, PanicIsMerged
    <3> QED BY <3>1, <3>2 DEF PanicsStay
  <2> QED BY <2>4, <2>6, <2>8, <2>9, <2>10 DEF BaseInv
<1>5. ASSUME NEW u \in Users, BaseOutput(u) PROVE BaseInv'
  <2>1. /\ oneline' = oneline /\ base' = base /\ copy' = copy /\ shared' = shared
        /\ baseLines' = baseLines \o flushed(base)
        /\ pc[u] = "output" /\ pc'[u] = IF FlushPanics(base) THEN "panicked" ELSE "reset"
        /\ \A v \in Users \ {u} : pc'[v] = pc[v]
    BY <1>5, <1>t DEF BaseOutput, Goto, TypeOK
  <2>2. PanicHasFields'
    BY <2>1, <1>t DEF BaseInv, PanicHasFields
  <2>3. ASSUME ~shared PROVE OneAtATime' /\ CopyIsCurrent' /\ PanicInBuffer'
    <3>1. pc'[u] \in {"panicked", "reset"}
      BY <2>1
    <3> QED BY <2>1, <2>3, <3>1, <1>t
            DEF BaseInv, OneAtATime, CopyIsCurrent, PanicInBuffer, InBase, InTheBase
  <2>4. ASSUME ~shared, MinLevel <= Error PROVE PanicInLine'
    <3> SUFFICES ASSUME NEW r \in Requests, pc'[r] = "reset" \/ (~oneline' /\ pc'[r] = "output")
                 PROVE  InLine(baseLines', r) \/ (oneline' /\ base'.level > Error)
      BY DEF PanicInLine
    <3>1. baseLines \in Seq(Buffers) /\ flushed(base) \in Seq(Buffers)
      BY <1>t, FlushTypes DEF TypeOK
    <3>2. InLine(baseLines, r) \/ InLine(flushed(base), r) \/ (oneline /\ base.level > Error)
      <4>1. CASE oneline = TRUE /\ r = u /\ ~(base.level > Error)
        <5>1. base.level = Error /\ InLine(<<base>>, r)
          BY <4>1, <2>1, <2>4, <1>t DEF BaseInv, PanicInBuffer
        <5>2. base.fields # <<>>
          BY <5>1 DEF InLine
        <5>3. Enabled(base.level) /\ base.level # DPanic
          BY <5>1, <2>4, LoggerConstantsOK DEF Enabled, Error, DPanic, Info, Fatal
        <5>4. flushed(base) = <<base>>
          BY <4>1, <5>2, <5>3 DEF flushed, Pending, directLog
        <5> QED BY <5>1, <5>4
      <4>2. CASE oneline = FALSE \/ r # u
        BY <4>2, <2>1, <2>4, <1>t DEF BaseInv, PanicInLine
      <4> QED BY <4>1, <4>2, <1>t DEF TypeOK
    <3> QED BY <2>1, <3>1, <3>2, InMoreLines
  <2>5. ASSUME ~shared PROVE PanicsStay'
    <3>1. ASSUME NEW v \in Users, v # u
          PROVE  /\ oneline' /\ pc'[v] = "reset" => base'.level # Panic
                 /\ pc'[v] = "panicked" => oneline' /\ base'.level = Panic
      BY <2>1, <2>5, <3>1, <1>t DEF BaseInv, PanicsStay
    <3>2. oneline' /\ pc'[u] = "reset" => base'.level # Panic
      <4>1. base.level = Panic => base.fields # <<>>
        BY <1>t DEF BaseInv, PanicHasFields
      <4> QED BY <2>1, <4>1 DEF FlushPanics, Pending
    <3>3. pc'[u] = "panicked" => oneline' /\ base'.level = Panic
      BY <2>1 DEF FlushPanics, Pending
    <3> QED BY <3>1, <3>2, <3>3 DEF PanicsStay
  <2> QED BY <2>1, <2>2, <2>3, <2>4, <2>5 DEF BaseInv
<1>6. ASSUME NEW u \in Users, BaseReset(u) PROVE BaseInv'
  <2>1. /\ oneline' = oneline /\ shared' = shared /\ baseLines' = baseLines /\ copy' = copy
        /\ base' = IF oneline THEN Empty ELSE base
        /\ pc[u] = "reset" /\ pc'[u] = "ended" /\ \A v \in Users \ {u} : pc'[v] = pc[v]
    BY <1>6, <1>t DEF BaseReset, Goto, TypeOK
  <2>2. PanicHasFields'
    <3>1. Empty.level # Panic
      BY DEF Empty, ZeroLevel, Debug, Panic
    <3> QED BY <2>1, <3>1, <1>t DEF BaseInv, PanicHasFields
  <2>3. ASSUME ~shared'
        PROVE  /\ ~shared /\ OneAtATime /\ \A v \in Users \ {u} : ~InBase(v)
    <3>1. ~shared /\ OneAtATime /\ InBase(u)
      BY <2>1, <2>3, <1>t DEF BaseInv, InBase, InTheBase
    <3> QED BY <3>1 DEF OneAtATime
  <2>4. ASSUME ~shared' PROVE OneAtATime' /\ CopyIsCurrent' /\ PanicInBuffer' /\ PanicInLine'
    BY <2>1, <2>3, <2>4, <1>t
       DEF OneAtATime, CopyIsCurrent, PanicInBuffer, PanicInLine, InBase, InTheBase
  <2>5. ASSUME ~shared' PROVE PanicsStay'
    <3>1. ASSUME NEW v \in Users PROVE pc'[v] # "reset"
      BY <2>1, <2>3, <2>5, <3>1 DEF InBase, InTheBase
    <3>2. ASSUME NEW v \in Users PROVE pc'[v] # "panicked"
      <4>1. oneline => base.level # Panic
        BY <2>1, <2>3, <2>5, <1>t DEF BaseInv, PanicsStay
      <4>2. pc[v] # "panicked"
        BY <4>1, <2>3, <2>5, <1>t DEF BaseInv, PanicsStay
      <4> QED BY <4>2, <2>1
    <3> QED BY <3>1, <3>2 DEF PanicsStay
  <2> QED BY <2>2, <2>4, <2>5 DEF BaseInv
<1>7. CASE UNCHANGED vars
  BY <1>7, <1>t, BaseAtRest DEF vars
<1> QED BY <1>1, <1>2, <1>3, <1>4, <1>5, <1>6, <1>7 DEF Next

LEMMA PanicsInitially == Init => PanicsInv
<1> SUFFICES ASSUME Init PROVE BaseInv
  BY TypesInitially DEF PanicsInv
<1>1. \A u \in Users : pc[u] \in {"boot", "new", "load"} /\ copy[u] = Empty
  BY DEF Init
<1>2. \A r \in Requests : r \in Users
  BY DEF Users
<1>3. PanicHasFields
  BY <1>1 DEF Init, PanicHasFields, Empty, ZeroLevel, Debug, Panic
<1> QED BY <1>1, <1>2, <1>3
        DEF BaseInv, OneAtATime, CopyIsCurrent, PanicInBuffer, PanicInLine, PanicsStay, InBase, InTheBase

\* As long as no two users have met in the base logger, a panic is in a line once
\* its request has written what the base logger holds, whatever the services and
\* the server log and at every level from info to error that New is given; but for
\* a DPanic or a Panic in the buffer, which outranks it.
THEOREM PanicsReachTheLog == Spec => []PanicsAreWritten
<1>1. ASSUME PanicsInv PROVE PanicsAreWritten
  <2> SUFFICES ASSUME ~shared, MinLevel <= Error, NEW r \in Requests,
                      pc[r] \in {"reset", "panicked"}
               PROVE  InLine(baseLines, r) \/ (oneline /\ base.level > Error)
    BY DEF PanicsAreWritten
  <2>1. r \in Users /\ PanicInLine /\ PanicsStay
    BY <1>1 DEF PanicsInv, BaseInv, Users
  <2>2. CASE pc[r] = "reset"
    BY <2>1, <2>2 DEF PanicInLine
  <2>3. CASE pc[r] = "panicked"
    BY <2>1, <2>3 DEF PanicsStay, Panic, Error
  <2> QED BY <2>2, <2>3
<1> QED BY <1>1, PanicsInitially, PanicsStep, PTL DEF Spec
=============================================================================
