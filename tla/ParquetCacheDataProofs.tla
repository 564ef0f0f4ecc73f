------------------------ MODULE ParquetCacheDataProofs ------------------------
(***************************************************************************)
(* Proofs about module ParquetCacheData, for any objects, capacity, number *)
(* of write-backs and width of the size counter.                           *)
(***************************************************************************)
EXTENDS ParquetCacheData, FiniteSetTheorems, TLAPS

-----------------------------------------------------------------------------
(* Arithmetic modulo U64.                                                  *)

\* The quotient.
LEMMA ModIs ==
    ASSUME NEW a \in Int
    PROVE  a % U64 \in 0 .. U64 - 1 /\ \E q \in Int : a = U64 * q + (a % U64)
<1>1. U64 \in Int /\ U64 > 0
  BY DataAssumption
<1>2. a \div U64 \in Int
  BY <1>1
<1>3. a = U64 * (a \div U64) + (a % U64) /\ a % U64 \in 0 .. U64 - 1
  BY <1>1
<1> QED  BY <1>2, <1>3, Zenon

\* A remainder is determined by the difference.
LEMMA ModUnique ==
    ASSUME NEW q \in Int, NEW r \in 0 .. U64 - 1, NEW s \in 0 .. U64 - 1, r = U64 * q + s
    PROVE  r = s
<1>1. U64 \in Int /\ U64 > 0
  BY DataAssumption
<1>2. CASE q >= 1
  <2>1. U64 * q >= U64
    BY <1>1, <1>2
  <2> QED  BY <1>1, <2>1
<1>3. CASE q <= -1
  <2>1. U64 * q <= -U64
    BY <1>1, <1>3
  <2> QED  BY <1>1, <2>1
<1>4. CASE q = 0
  BY <1>1, <1>4
<1> QED  BY <1>2, <1>3, <1>4

LEMMA ModSame ==
    ASSUME NEW a \in Int, NEW b \in Int, NEW q \in Int, a = U64 * q + b
    PROVE  a % U64 = b % U64
<1>1. U64 \in Int
  BY DataAssumption
<1>2. a % U64 \in 0 .. U64 - 1 /\ b % U64 \in 0 .. U64 - 1
  BY ModIs, Zenon
<1>3. PICK i \in Int : a = U64 * i + (a % U64)
  BY ModIs, Zenon
<1>4. PICK j \in Int : b = U64 * j + (b % U64)
  BY ModIs, Zenon
<1>5. q + j - i \in Int /\ U64 * (q + j - i) = U64 * q + U64 * j - U64 * i
  BY ONLY <1>1, q \in Int, <1>3, <1>4
<1>6. a % U64 = U64 * (q + j - i) + (b % U64)
  <2> DEFINE x == U64 * q
             y == U64 * j
             z == U64 * i
  <2>1. x \in Int /\ y \in Int /\ z \in Int
    BY <1>1, <1>3, <1>4
  <2>2. a = x + b /\ a = z + (a % U64) /\ b = y + (b % U64) /\ U64 * (q + j - i) = x + y - z
    BY <1>3, <1>4, <1>5, Zenon
  <2>3. a % U64 \in Int /\ b % U64 \in Int
    BY <1>1, <1>2
  <2> HIDE DEF x, y, z
  <2> QED  BY <2>1, <2>2, <2>3
<1> QED  BY <1>2, <1>5, <1>6, ModUnique, Zenon

\* The same number added to both sides.
LEMMA ModAdd ==
    ASSUME NEW a \in Int, NEW b \in Int, a % U64 = b % U64, NEW n \in Int
    PROVE  (a + n) % U64 = (b + n) % U64
<1>1. U64 \in Int
  BY DataAssumption
<1>2. PICK i \in Int : a = U64 * i + (a % U64)
  BY ModIs, Zenon
<1>3. PICK j \in Int : b = U64 * j + (b % U64)
  BY ModIs, Zenon
<1>4. a % U64 \in Int
  BY ModIs
<1>5. i - j \in Int /\ U64 * (i - j) = U64 * i - U64 * j
  BY ONLY <1>1, <1>2, <1>3
<1>6. a + n = U64 * (i - j) + (b + n)
  <2> DEFINE x == U64 * i
             y == U64 * j
  <2>1. x \in Int /\ y \in Int
    BY <1>1, <1>2, <1>3
  <2>2. a = x + (a % U64) /\ b = y + (a % U64) /\ U64 * (i - j) = x - y
    BY <1>2, <1>3, <1>5, Zenon
  <2> HIDE DEF x, y
  <2> QED  BY <1>4, <2>1, <2>2
<1>7. a + n \in Int /\ b + n \in Int
  OBVIOUS
<1> QED  BY <1>5, <1>6, <1>7, ModSame, ZenonT(30)

\* A sum that wrapped around earlier.
LEMMA ModInner ==
    ASSUME NEW a \in Int, NEW n \in Int
    PROVE  ((a % U64) + n) % U64 = (a + n) % U64
<1>1. U64 \in Int
  BY DataAssumption
<1>2. PICK i \in Int : a = U64 * i + (a % U64)
  BY ModIs, Zenon
<1>3. a % U64 \in Int
  BY ModIs
<1>4. a + n = U64 * i + ((a % U64) + n) /\ a + n \in Int /\ (a % U64) + n \in Int
  <2> DEFINE x == U64 * i
  <2>1. x \in Int /\ a = x + (a % U64) /\ U64 * i = x
    BY <1>1, <1>2
  <2> HIDE DEF x
  <2> QED  BY <1>3, <2>1
<1> QED  BY <1>2, <1>4, ModSame, Zenon

-----------------------------------------------------------------------------
(* The inductive invariant.                                                *)

Inserting == {"insert", "slot", "refused", "add"}

Job ==
    {NoJob} \cup [step : {"create"}, object : Object]
           \cup [step : {"write"}, object : Object, file : WriteBack]
           \cup [step : Inserting, object : Object]

Reader ==
    {NoJob} \cup [step : {"open"}, object : Object]
           \cup [step : {"read"}, object : Object, file : WriteBack]

TypeOK ==
    /\ entry \in SUBSET Object /\ IsFiniteSet(entry)
    /\ size \in 0 .. U64 - 1
    /\ local \in [Object -> WriteBack \cup {NoFile}]
    /\ Filled \in SUBSET WriteBack
    /\ truncator \in [WriteBack -> WriteBack]
    /\ stray \in SUBSET Object
    /\ job \in [WriteBack -> Job]
    /\ started \in Nat
    /\ leaving \in SUBSET Object /\ IsFiniteSet(leaving)
    /\ due \in Nat
    /\ evicted \in Seq(Object)
    /\ reader \in Reader
    /\ slots \in Seq(Object) /\ heap \in Seq(Object)
    /\ removals \in Nat
    /\ repeats \in Nat
    /\ crossed \in SUBSET Object

\* Write-back f has created its file: the name f has been given away.
Created(f) == f <= started /\ job[f].step # "create"

\* A file is one object's, also for those that still hold it open.
FilesAreOwned ==
    /\ \A w \in WriteBack : w > started => job[w] = NoJob
    /\ \A o \in Object : local[o] # NoFile => Created(local[o])
    /\ \A o, p \in Object : local[o] = local[p] /\ local[o] # NoFile => o = p
    /\ \A w \in WriteBack : job[w].step = "write" =>
          /\ Created(job[w].file)
          /\ \A o \in Object : local[o] = job[w].file => o = job[w].object
    /\ reader.step = "read" =>
          /\ Created(reader.file)
          /\ \A o \in Object : local[o] = reader.file => o = reader.object

\* Write-back w is one of object o.
Writes(w, o) == job[w].step # "idle" /\ job[w].object = o

\* An object is sent to the deleting task once.
SentOnce(o) ==
    /\ \A i, j \in DOMAIN evicted : evicted[i] = o /\ evicted[j] = o => i = j
    /\ o \in leaving => \A i \in DOMAIN evicted : evicted[i] # o

\* The life of an object whose write-backs and evictions have not overlapped.
InTurn(o) ==
    /\ \A v, w \in WriteBack : Writes(v, o) /\ Writes(w, o) => v = w
    /\ Deleting(o) => o \notin entry /\ \A w \in WriteBack : ~Writes(w, o)
    /\ SentOnce(o)
    /\ o \in entry => local[o] \in Filled
    /\ o \notin entry /\ ~Deleting(o) /\ (\A w \in WriteBack : ~Writes(w, o))
          => local[o] = NoFile \/ o \in stray
    /\ \A w \in WriteBack : Writes(w, o) =>
          /\ o \in entry <=> job[w].step = "add"
          /\ job[w].step = "create" => local[o] = NoFile \/ o \in stray
          /\ job[w].step = "write" => local[o] = job[w].file /\ truncator[local[o]] = w
          /\ job[w].step \in {"insert", "slot", "refused"} => local[o] \in Filled
    /\ Looked(o) => o \in entry
    /\ reader.step = "read" /\ reader.object = o /\ o \notin stray => reader.file \in Filled

\* or_insert lets one write-back of an object in, and only if it has no entry.
OneInserts ==
    \A w \in WriteBack : job[w].step \in {"slot", "refused"} =>
        /\ job[w].object \notin entry
        /\ \A v \in WriteBack :
              job[v].step \in {"slot", "refused"} /\ job[v].object = job[w].object => v = w

In(step) == {w \in WriteBack : job[w].step = step}

\* What current_size counts, but for the additions to come.
Held == Cardinality(entry) + Cardinality(leaving) + due + repeats

\* Every removal that was asked for is paid by a slot.
RemovalsArePaid ==
    remover = "runs" => removals <= Len(heap) + Len(slots) + Cardinality(In("slot"))

IInv ==
    /\ TypeOK
    /\ FilesAreOwned
    /\ \A o \in Object \ crossed : InTurn(o)
    /\ OneInserts
    /\ SizeIsExplained
    /\ RemovalsArePaid

-----------------------------------------------------------------------------
(* Tasks.                                                                  *)

LEMMA JobIs ==
    ASSUME NEW t \in Job
    PROVE  /\ t.step \in {"idle", "create", "write"} \cup Inserting
           /\ t = NoJob <=> t.step = "idle"
           /\ t.step # "idle" => t.object \in Object
           /\ t.step = "write" => t.file \in WriteBack
BY DEF Job, NoJob, Inserting

LEMMA NewJobs ==
    ASSUME NEW o \in Object, NEW f \in WriteBack
    PROVE  /\ NoJob \in Job
           /\ [step |-> "create", object |-> o] \in Job
           /\ [step |-> "write", object |-> o, file |-> f] \in Job
           /\ \A s \in Inserting : [step |-> s, object |-> o] \in Job
BY Zenon DEF Job

\* A write-back goes on with its insertion.
LEMMA NextStep ==
    ASSUME job \in [WriteBack -> Job], NEW w \in WriteBack, job[w].step \in Inserting,
           NEW s \in Inserting, job' = [job EXCEPT ![w].step = s]
    PROVE  job' = [job EXCEPT ![w] = [step |-> s, object |-> job[w].object]]
<1>1. job[w] \in [step : Inserting, object : Object]
  BY DEF Job, NoJob, Inserting
<1>2. [job[w] EXCEPT !.step = s] = [step |-> s, object |-> job[w].object]
  BY <1>1
<1> QED  BY <1>2, Zenon

LEMMA WritingIs ==
    ASSUME job \in [WriteBack -> Job], NEW o
    PROVE  Writing(o) <=> \E w \in WriteBack : Writes(w, o)
BY JobIs, Zenon DEF Writing, Writes

LEMMA WriteBacksAre == /\ WriteBack \in SUBSET (Nat \ {0}) /\ NoFile \notin WriteBack
                       /\ IsFiniteSet(WriteBack)
BY FS_Interval, DataAssumption DEF WriteBack, NoFile

\* The number of write-backs at a step.
LEMMA InCounts ==
    ASSUME NEW CONSTANT s
    PROVE  IsFiniteSet(In(s)) /\ Cardinality(In(s)) \in Nat
<1>1. In(s) \in SUBSET WriteBack
  BY Zenon DEF In
<1> QED  BY <1>1, WriteBacksAre, FS_Subset, FS_CardinalityType, Zenon

LEMMA InChange ==
    ASSUME job \in [WriteBack -> Job], NEW w \in WriteBack, NEW t, job' = [job EXCEPT ![w] = t],
           NEW CONSTANT s
    PROVE  Cardinality(In(s)') = Cardinality(In(s)) + (IF t.step = s THEN 1 ELSE 0)
                                                    - (IF job[w].step = s THEN 1 ELSE 0)
<1>1. IsFiniteSet(In(s)) /\ Cardinality(In(s)) \in Nat
  BY InCounts, Zenon
<1>2. \A v \in WriteBack : job'[v] = IF v = w THEN t ELSE job[v]
  BY Zenon
<1>3. CASE t.step = s /\ job[w].step = s
  <2>1. In(s)' = In(s)
    BY <1>2, <1>3, Zenon DEF In
  <2> QED  BY <1>1, <1>3, <2>1
<1>4. CASE t.step = s /\ job[w].step # s
  <2>1. In(s)' = In(s) \cup {w} /\ w \notin In(s)
    BY <1>2, <1>4, Zenon DEF In
  <2>2. Cardinality(In(s)') = Cardinality(In(s)) + 1
    BY <1>1, <2>1, FS_AddElement, Zenon
  <2> QED  BY <1>1, <1>4, <2>2
<1>5. CASE t.step # s /\ job[w].step = s
  <2>1. In(s)' = In(s) \ {w} /\ w \in In(s)
    BY <1>2, <1>5, Zenon DEF In
  <2>2. Cardinality(In(s)') = Cardinality(In(s)) - 1
    BY <1>1, <2>1, FS_RemoveElement, ZenonT(30)
  <2> QED  BY <1>1, <1>5, <2>2
<1>6. CASE t.step # s /\ job[w].step # s
  <2>1. In(s)' = In(s)
    BY <1>2, <1>6, Zenon DEF In
  <2> QED  BY <1>1, <1>6, <2>1
<1> QED  BY <1>3, <1>4, <1>5, <1>6, Zenon

LEMMA SizeIs == SizeIsExplained <=> (size + Cardinality(In("add"))) % U64 = Held % U64
BY Zenon DEF SizeIsExplained, In, Held

LEMMA HeldIs ==
    ASSUME TypeOK
    PROVE  /\ Cardinality(entry) \in Nat /\ Cardinality(leaving) \in Nat
           /\ due \in Nat /\ repeats \in Nat
           /\ Held \in Nat
<1>1. /\ Cardinality(entry) \in Nat /\ Cardinality(leaving) \in Nat
      /\ due \in Nat /\ repeats \in Nat
  BY FS_CardinalityType, Zenon DEF TypeOK
<1> QED  BY <1>1 DEF Held

\* The counter and what it should be change together.
LEMMA SizeStep ==
    ASSUME IInv, NEW n \in Int, NEW d \in Int,
           size' = (size + d) % U64,
           Cardinality(In("add")') = Cardinality(In("add")) + n - d,
           Held' = Held + n
    PROVE  SizeIsExplained' /\ size' \in 0 .. U64 - 1
<1> DEFINE a == Cardinality(In("add"))
           e == Held
           b == Cardinality(In("add")')
<1>1. /\ size \in Int /\ a \in Int /\ e \in Int /\ (size + a) % U64 = e % U64
  <2>1. Held \in Nat /\ size \in Int
    BY DataAssumption, HeldIs DEF IInv, TypeOK
  <2> QED  BY <2>1, InCounts, SizeIs DEF IInv
<1>2. b = a + n - d /\ Held' = e + n
  BY Zenon
<1> HIDE DEF a, e, b
<1>3. (size + a + n) % U64 = (e + n) % U64
  <2>1. size + a \in Int
    BY <1>1
  <2> QED  BY <1>1, <2>1, ModAdd, ZenonT(30)
<1>4. (((size + d) % U64) + b) % U64 = (size + d + b) % U64
  <2>1. size + d \in Int /\ b \in Int
    BY <1>1, <1>2
  <2> QED  BY <2>1, ModInner, Zenon
<1>5. size + d + b = size + a + n
  BY <1>1, <1>2
<1>6. (size' + b) % U64 = Held' % U64
  BY <1>2, <1>3, <1>4, <1>5, Zenon
<1>7. SizeIsExplained'
  BY <1>6, Zenon DEF SizeIsExplained, In, b, Held
<1>8. size' \in 0 .. U64 - 1
  <2>1. size + d \in Int
    BY <1>1
  <2> QED  BY <2>1, ModIs, Zenon
<1> QED  BY <1>7, <1>8, Zenon

LEMMA SizeStays ==
    ASSUME IInv, NEW n \in Int, size' = size,
           Cardinality(In("add")') = Cardinality(In("add")) + n,
           Held' = Held + n
    PROVE  SizeIsExplained'
<1> DEFINE a == Cardinality(In("add"))
           e == Held
<1>1. size \in Int /\ a \in Int /\ e \in Int /\ size + a \in Int /\ (size + a) % U64 = e % U64
  <2>1. Held \in Nat /\ size \in Int
    BY DataAssumption, HeldIs DEF IInv, TypeOK
  <2> QED  BY <2>1, InCounts, SizeIs DEF IInv
<1>2. (size + a + n) % U64 = (e + n) % U64
  <2> HIDE DEF a, e
  <2> QED  BY <1>1, ModAdd, ZenonT(30)
<1>3. size' + Cardinality(In("add")') = size + a + n
  BY <1>1
<1> QED  BY <1>2, <1>3, Zenon DEF SizeIsExplained, In, Held

\* No file gets a name.
LEMMA OwnedStays ==
    ASSUME IInv, reader' = reader, job' \in [WriteBack -> Job],
           \A w \in WriteBack : w > started' => job'[w] = NoJob,
           \A f \in WriteBack : Created(f) => f <= started' /\ job'[f].step # "create",
           \A o \in Object : local'[o] \in {NoFile, local[o]},
           \A w \in WriteBack : job'[w].step = "write" => job'[w] = job[w]
    PROVE  FilesAreOwned'
<1>1. local \in [Object -> WriteBack \cup {NoFile}] /\ job \in [WriteBack -> Job]
  BY Zenon DEF IInv, TypeOK
<1>2. ASSUME NEW o \in Object, local'[o] # NoFile
      PROVE  local'[o] <= started' /\ job'[local'[o]].step # "create"
  BY <1>1, <1>2 DEF IInv, FilesAreOwned
<1>3. \A o, p \in Object : local'[o] = local'[p] /\ local'[o] # NoFile => o = p
  BY <1>1 DEF IInv, FilesAreOwned
<1>4. ASSUME NEW v \in WriteBack, job'[v].step = "write"
      PROVE  /\ job'[v].file <= started' /\ job'[job'[v].file].step # "create"
             /\ \A p \in Object : local'[p] = job'[v].file => p = job'[v].object
  <2>1. job'[v] = job[v] /\ job[v].file \in WriteBack
    BY <1>1, <1>4, JobIs, Zenon
  <2>2. Created(job[v].file) /\ \A p \in Object : local[p] = job[v].file => p = job[v].object
    BY <1>4, <2>1, Zenon DEF IInv, FilesAreOwned
  <2> QED  BY <2>1, <2>2, WriteBacksAre, Zenon
<1>5. ASSUME reader'.step = "read"
      PROVE  /\ reader'.file <= started' /\ job'[reader'.file].step # "create"
             /\ \A p \in Object : local'[p] = reader'.file => p = reader'.object
  <2>1. reader.file \in WriteBack
    BY <1>5 DEF IInv, TypeOK, Reader, NoJob
  <2>2. Created(reader.file) /\ \A p \in Object : local[p] = reader.file => p = reader.object
    BY <1>5, Zenon DEF IInv, FilesAreOwned
  <2> QED  BY <2>1, <2>2, WriteBacksAre, ZenonT(30)
<1> QED  BY <1>2, <1>3, <1>4, <1>5, Zenon DEF FilesAreOwned, Created

\* An object keeps its life when a step changes nothing that its life reads.
LEMMA InTurnStays ==
    ASSUME NEW p \in Object, InTurn(p), reader' = reader, local'[p] = local[p],
           p \in entry' <=> p \in entry, Deleting(p)' <=> Deleting(p), SentOnce(p)',
           \A v \in WriteBack : (Writes(v, p)' <=> Writes(v, p)) /\ (Writes(v, p) => job'[v] = job[v]),
           p \in stray => p \in stray',
           local[p] \in Filled => local[p] \in Filled',
           reader.step = "read" /\ reader.object = p /\ reader.file \in Filled => reader.file \in Filled',
           \A v \in WriteBack : Writes(v, p) /\ job[v].step = "write"
                                  => truncator'[local[p]] = truncator[local[p]]
    PROVE  InTurn(p)'
<1>1. \A w \in WriteBack : Writes(w, p)' =>
          /\ p \in entry' <=> job'[w].step = "add"
          /\ job'[w].step = "create" => local'[p] = NoFile \/ p \in stray'
          /\ job'[w].step = "write" => local'[p] = job'[w].file /\ truncator'[local'[p]] = w
          /\ job'[w].step \in {"insert", "slot", "refused"} => local'[p] \in Filled'
  BY ZenonT(30) DEF InTurn
<1>2. /\ \A v, w \in WriteBack : Writes(v, p)' /\ Writes(w, p)' => v = w
      /\ Deleting(p)' => p \notin entry' /\ \A w \in WriteBack : ~Writes(w, p)'
      /\ p \in entry' => local'[p] \in Filled'
      /\ p \notin entry' /\ ~Deleting(p)' /\ (\A w \in WriteBack : ~Writes(w, p)')
            => local'[p] = NoFile \/ p \in stray'
  BY ZenonT(30) DEF InTurn
<1>3. /\ Looked(p)' => p \in entry'
      /\ reader'.step = "read" /\ reader'.object = p /\ p \notin stray' => reader'.file \in Filled'
  BY ZenonT(30) DEF InTurn, Looked
<1> QED  BY <1>1, <1>2, <1>3, ZenonT(30) DEF InTurn

-----------------------------------------------------------------------------
(* Requests.                                                               *)

LEMMA MissIInv ==
    ASSUME IInv, NEW o \in Object, Miss(o)
    PROVE  IInv'
<1> DEFINE w == started + 1
           t == [step |-> "create", object |-> o]
<1>1. /\ TypeOK /\ started \in Nat /\ job \in [WriteBack -> Job]
  BY Zenon DEF IInv, TypeOK
<1>2. /\ o \notin entry /\ started < MaxWriteBacks /\ started' = w
      /\ job' = [job EXCEPT ![w] = t]
      /\ crossed' = crossed \cup IF Writing(o) \/ Deleting(o) THEN {o} ELSE {}
      /\ UNCHANGED <<entry, size, local, Filled, truncator, stray, leaving, due, evicted, reader, slots, heap, removals,
                     remover, repeats>>
  BY Zenon DEF Miss, files, contents, Filled, eviction, recency
<1>3. w \in WriteBack /\ w > started /\ job[w] = NoJob /\ t \in Job /\ w \in Nat
  <2>1. w \in WriteBack /\ w > started /\ w \in Nat
    BY <1>1, <1>2, DataAssumption DEF WriteBack
  <2> QED  BY <2>1, Zenon DEF IInv, FilesAreOwned, Job
<1>4. /\ job' \in [WriteBack -> Job] /\ job'[w] = t
      /\ \A v \in WriteBack \ {w} : job'[v] = job[v]
  BY <1>1, <1>2, <1>3, Zenon
<1>5. job[w].step = "idle" /\ t.step = "create" /\ t.object = o
  BY <1>3 DEF NoJob
<1> HIDE DEF t, w
<1>6. TypeOK'
  <2>1. crossed' \in SUBSET Object
    BY <1>1, <1>2, Zenon DEF TypeOK
  <2> QED  BY <1>1, <1>2, <1>3, <1>4, <2>1, Zenon DEF TypeOK
<1>7. \A f \in WriteBack : Created(f) => f <= started' /\ job'[f].step # "create"
  BY <1>1, <1>2, <1>3, <1>4, WriteBacksAre DEF Created
<1>8. FilesAreOwned'
  <2>1. \A v \in WriteBack : v > started' => job'[v] = NoJob
    <3>1. \A v \in WriteBack : v > started' => v > started /\ v # w
      BY <1>1, <1>2, <1>3, WriteBacksAre
    <3> QED  BY <1>4, <3>1, Zenon DEF IInv, FilesAreOwned
  <2>2. \A p \in Object : local'[p] \in {NoFile, local[p]}
    BY <1>2, Zenon
  <2>3. \A v \in WriteBack : job'[v].step = "write" => job'[v] = job[v]
    BY <1>4, <1>5, Zenon
  <2> QED  BY <1>2, <1>4, <1>7, <2>1, <2>2, <2>3, OwnedStays, Zenon
<1>9. ASSUME NEW p \in Object \ crossed' PROVE InTurn(p)'
  <2>1. InTurn(p)
    BY <1>2, <1>9, Zenon DEF IInv
  <2>2. CASE p # o
    <3>1. \A v \in WriteBack : Writes(v, p)' <=> Writes(v, p)
      BY <1>3, <1>4, <1>5, <2>2, Zenon DEF Writes
    <3>2. \A v \in WriteBack : Writes(v, p) => job'[v] = job[v]
      BY <1>3, <1>4, <1>5, Zenon DEF Writes
    <3>3. /\ reader' = reader /\ local' = local /\ Filled' = Filled /\ truncator' = truncator
          /\ (p \in entry' <=> p \in entry) /\ (Deleting(p)' <=> Deleting(p)) /\ stray' = stray
          /\ SentOnce(p)'
      BY <1>2, <2>1, Zenon DEF InTurn, Deleting, SentOnce
    <3> QED  BY <2>1, <3>1, <3>2, <3>3, InTurnStays, ZenonT(30)
  <2>3. CASE p = o
    <3>1. ~Deleting(o) /\ \A v \in WriteBack : ~Writes(v, o)
      BY <1>1, <1>2, <1>9, <2>3, WritingIs, Zenon
    <3>2. /\ \A v \in WriteBack : Writes(v, o)' => v = w
      BY <1>4, <3>1, Zenon DEF Writes
    <3>3. local[o] = NoFile \/ o \in stray
      BY <1>2, <2>1, <2>3, <3>1, Zenon DEF InTurn
    <3>4. /\ ~Deleting(o)' /\ SentOnce(o)' /\ (Looked(o)' => o \in entry')
          /\ reader'.step = "read" /\ reader'.object = o /\ o \notin stray' => reader'.file \in Filled'
      BY <1>2, <2>1, <2>3, <3>1, Zenon DEF InTurn, Deleting, SentOnce, Looked
    <3> QED  BY <1>2, <1>4, <1>5, <2>3, <3>2, <3>3, <3>4, ZenonT(30) DEF InTurn, Writes
  <2> QED  BY <2>2, <2>3, Zenon
<1>10. OneInserts'
  BY <1>2, <1>3, <1>4, <1>5, ZenonT(30) DEF IInv, OneInserts
<1>11. /\ Cardinality(In("add")') = Cardinality(In("add"))
       /\ Cardinality(In("slot")') = Cardinality(In("slot"))
  <2>1. Cardinality(In("add")) \in Nat /\ Cardinality(In("slot")) \in Nat
    BY InCounts, Zenon
  <2>2. /\ Cardinality(In("add")') = Cardinality(In("add")) + 0 - 0
        /\ Cardinality(In("slot")') = Cardinality(In("slot")) + 0 - 0
    BY <1>1, <1>2, <1>3, <1>5, InChange, ZenonT(30)
  <2> QED  BY <2>1, <2>2
<1>12. SizeIsExplained'
  BY <1>2, <1>11, Zenon DEF IInv, SizeIsExplained, In
<1>13. RemovalsArePaid'
  BY <1>2, <1>11, Zenon DEF IInv, RemovalsArePaid
<1> QED  BY <1>6, <1>8, <1>9, <1>10, <1>12, <1>13, Zenon DEF IInv

\* Requests for objects that are cached change the reader only.
LEMMA ReaderIInv ==
    ASSUME IInv, reader' \in Reader,
           UNCHANGED <<entry, size, files, job, started, eviction, recency, repeats, crossed>>,
           reader'.step = "open" => reader'.object \in entry,
           reader'.step = "read" =>
              /\ reader'.file = local[reader'.object]
              /\ reader'.file # NoFile
              /\ reader'.object \in crossed \/ reader'.object \in entry
    PROVE  IInv'
<1>1. /\ UNCHANGED <<entry, size, local, Filled, truncator, stray, job, started, leaving, due, evicted, slots, heap,
                     removals, remover, repeats, crossed>>
  BY Zenon DEF files, contents, Filled, eviction, recency
<1>2. TypeOK'
  BY <1>1, Zenon DEF IInv, TypeOK
<1>3. FilesAreOwned'
  <2>1. reader'.step = "read" => reader'.object \in Object
    BY DEF Reader, NoJob
  <2>2. reader'.step = "read" =>
           /\ Created(reader'.file)
           /\ \A p \in Object : local[p] = reader'.file => p = reader'.object
    BY <2>1, ZenonT(30) DEF IInv, FilesAreOwned
  <2> QED  BY <1>1, <2>2 DEF IInv, FilesAreOwned, Created
<1>4. ASSUME NEW p \in Object \ crossed' PROVE InTurn(p)'
  <2>1. InTurn(p) /\ p \notin crossed
    BY <1>1, <1>4, Zenon DEF IInv
  <2>2. Looked(p)' => p \in entry
    BY Zenon DEF Looked
  <2>3. reader'.step = "read" /\ reader'.object = p => reader'.file \in Filled
    BY <2>1, Zenon DEF InTurn
  <2>4. (Deleting(p)' <=> Deleting(p)) /\ SentOnce(p)'
    BY <1>1, <2>1, Zenon DEF InTurn, Deleting, SentOnce
  <2> QED  BY <1>1, <2>1, <2>2, <2>3, <2>4, ZenonT(30) DEF InTurn, Writes
<1>5. OneInserts' /\ SizeIsExplained' /\ RemovalsArePaid'
  BY <1>1, Zenon DEF IInv, OneInserts, SizeIsExplained, RemovalsArePaid, In
<1> QED  BY <1>2, <1>3, <1>4, <1>5, Zenon DEF IInv

LEMMA HitIInv ==
    ASSUME IInv, NEW o \in Object, Hit(o)
    PROVE  IInv'
<1>1. /\ reader' = [step |-> "open", object |-> o] /\ o \in entry
      /\ UNCHANGED <<entry, size, files, job, started, eviction, recency, repeats, crossed>>
  BY Zenon DEF Hit
<1>2. reader' \in Reader /\ reader'.step = "open" /\ reader'.object = o
  BY <1>1, Zenon DEF Reader
<1> QED  BY <1>1, <1>2, ReaderIInv, Zenon

LEMMA OpenIInv ==
    ASSUME IInv, Open
    PROVE  IInv'
<1> DEFINE o == reader.object
<1>1. /\ reader.step = "open"
      /\ reader' = IF local[o] = NoFile THEN NoJob ELSE [step |-> "read", object |-> o, file |-> local[o]]
      /\ UNCHANGED <<entry, size, files, job, started, eviction, recency, repeats, crossed>>
  BY Zenon DEF Open
<1>2. o \in Object /\ local[o] \in WriteBack \cup {NoFile}
  BY <1>1 DEF IInv, TypeOK, Reader, NoJob
<1>3. o \in crossed \/ o \in entry
  BY <1>1, <1>2, Zenon DEF IInv, InTurn, Looked
<1> HIDE DEF o
<1>4. CASE local[o] = NoFile
  <2>1. reader' \in Reader /\ reader'.step = "idle"
    BY <1>1, <1>4, Zenon DEF Reader, NoJob
  <2> QED  BY <1>1, <2>1, ReaderIInv, Zenon
<1>5. CASE local[o] # NoFile
  <2>1. reader' = [step |-> "read", object |-> o, file |-> local[o]]
    BY <1>1, <1>5, Zenon
  <2>2. /\ reader' \in Reader /\ reader'.step = "read" /\ reader'.object = o
        /\ reader'.file = local[o]
    BY <1>2, <1>5, <2>1, Zenon DEF Reader
  <2> QED  BY <1>1, <1>3, <1>5, <2>2, ReaderIInv, Zenon
<1> QED  BY <1>4, <1>5, Zenon

LEMMA ReadIInv ==
    ASSUME IInv, ReadStream
    PROVE  IInv'
<1>1. /\ reader' \in Reader /\ reader'.step = "idle"
      /\ UNCHANGED <<entry, size, files, job, started, eviction, recency, repeats, crossed>>
  BY Zenon DEF ReadStream, Reader, NoJob
<1> QED  BY <1>1, ReaderIInv, Zenon

-----------------------------------------------------------------------------
(* Write-backs.                                                            *)

\* What a step of write-back w leaves alone.
LEMMA OtherWrites ==
    ASSUME IInv, NEW w \in WriteBack, job[w].step # "idle", NEW t \in Job,
           job' = [job EXCEPT ![w] = t], t.step # "idle" => t.object = job[w].object
    PROVE  /\ job' \in [WriteBack -> Job] /\ job'[w] = t
           /\ \A v \in WriteBack \ {w} : job'[v] = job[v]
           /\ w <= started /\ started \in Nat
           /\ \A v \in WriteBack : v > started => job'[v] = NoJob
           /\ \A p \in Object \ {job[w].object}, v \in WriteBack :
                 /\ Writes(v, p)' <=> Writes(v, p)
                 /\ Writes(v, p) => job'[v] = job[v]
           /\ job[w].object \in Object /\ Writes(w, job[w].object)
<1>1. job \in [WriteBack -> Job] /\ started \in Nat /\ w \in Nat
  BY WriteBacksAre, Zenon DEF IInv, TypeOK
<1>2. job' \in [WriteBack -> Job] /\ job'[w] = t /\ \A v \in WriteBack \ {w} : job'[v] = job[v]
  BY <1>1, Zenon
<1>3. w <= started /\ \A v \in WriteBack : v > started => v # w /\ job[v] = NoJob
  <2>1. job[w] # NoJob
    BY DEF NoJob
  <2>2. \A v \in WriteBack : v > started => job[v] = NoJob
    BY Zenon DEF IInv, FilesAreOwned
  <2>3. ~(w > started)
    BY <2>1, <2>2, Zenon
  <2>4. w <= started
    BY ONLY <1>1, <2>3
  <2> QED  BY <2>2, <2>3, <2>4, Zenon
<1>4. job[w].object \in Object
  BY <1>1, JobIs, Zenon
<1>5. ASSUME NEW p \in Object \ {job[w].object}, NEW v \in WriteBack
      PROVE  (Writes(v, p)' <=> Writes(v, p)) /\ (Writes(v, p) => job'[v] = job[v])
  BY <1>2, Zenon DEF Writes
<1> QED  BY <1>1, <1>2, <1>3, <1>4, <1>5, ZenonT(30) DEF Writes

\* How the two counts of write-backs change.
LEMMA CountsChange ==
    ASSUME IInv, NEW w \in WriteBack, NEW t, job' = [job EXCEPT ![w] = t]
    PROVE  /\ Cardinality(In("add")') = Cardinality(In("add"))
                 + (IF t.step = "add" THEN 1 ELSE 0) - (IF job[w].step = "add" THEN 1 ELSE 0)
           /\ Cardinality(In("slot")') = Cardinality(In("slot"))
                 + (IF t.step = "slot" THEN 1 ELSE 0) - (IF job[w].step = "slot" THEN 1 ELSE 0)
           /\ Cardinality(In("add")) \in Nat /\ Cardinality(In("slot")) \in Nat
<1>1. job \in [WriteBack -> Job]
  BY Zenon DEF IInv, TypeOK
<1> QED  BY <1>1, InChange, InCounts, ZenonT(30)

\* Steps on the file leave the counts alone.
LEMMA FileStep ==
    ASSUME IInv, NEW w \in WriteBack, NEW t, job' = [job EXCEPT ![w] = t],
           job[w].step \notin {"slot", "refused", "add"}, t.step \notin {"slot", "refused", "add"},
           UNCHANGED <<entry, size, leaving, due, repeats, slots, heap, removals, remover>>
    PROVE  OneInserts' /\ SizeIsExplained' /\ RemovalsArePaid'
<1>1. /\ Cardinality(In("add")') = Cardinality(In("add"))
      /\ Cardinality(In("slot")') = Cardinality(In("slot"))
  <2>1. /\ Cardinality(In("add")') = Cardinality(In("add")) + 0 - 0
        /\ Cardinality(In("slot")') = Cardinality(In("slot")) + 0 - 0
        /\ Cardinality(In("add")) \in Nat /\ Cardinality(In("slot")) \in Nat
    BY CountsChange, ZenonT(30)
  <2> QED  BY <2>1
<1>2. \A v \in WriteBack : job'[v] = IF v = w THEN t ELSE job[v]
  BY Zenon DEF IInv, TypeOK
<1>3. OneInserts'
  BY <1>2 DEF IInv, OneInserts
<1> QED  BY <1>1, <1>3, Zenon DEF IInv, SizeIsExplained, RemovalsArePaid, In

\* A write-back ends without an entry, and with its object's file gone or left.
LEMMA GivenUp ==
    ASSUME IInv, NEW w \in WriteBack, job[w].step \in {"create", "write"},
           job' = [job EXCEPT ![w] = NoJob],
           \A p \in Object : /\ local'[p] \in {NoFile, local[p]}
                             /\ p \in stray => p \in stray',
           \A p \in Object \ {job[w].object} : local'[p] = local[p],
           job[w].object \notin crossed =>
              local'[job[w].object] = NoFile \/ job[w].object \in stray',
           UNCHANGED <<entry, Filled, truncator, started, leaving, evicted, reader, crossed>>
    PROVE  /\ job' \in [WriteBack -> Job]
           /\ FilesAreOwned'
           /\ \A p \in Object \ crossed' : InTurn(p)'
<1> DEFINE o == job[w].object
<1>1. NoJob \in Job /\ NoJob.step = "idle"
  BY Zenon DEF Job, NoJob
<1>2. /\ job' \in [WriteBack -> Job] /\ job'[w] = NoJob
      /\ \A v \in WriteBack \ {w} : job'[v] = job[v]
      /\ \A v \in WriteBack : v > started => job'[v] = NoJob
      /\ \A p \in Object \ {o}, v \in WriteBack :
            /\ Writes(v, p)' <=> Writes(v, p)
            /\ Writes(v, p) => job'[v] = job[v]
      /\ Writes(w, o) /\ o \in Object
  <2>1. job[w].step # "idle"
    OBVIOUS
  <2> QED  BY <1>1, <2>1, OtherWrites, ZenonT(30)
<1>3. /\ \A p \in Object \ {o} : local'[p] = local[p]
      /\ o \notin crossed => local'[o] = NoFile \/ o \in stray'
  BY Zenon
<1> HIDE DEF o
<1>4. FilesAreOwned'
  <2>1. \A g \in WriteBack : Created(g) => g <= started' /\ job'[g].step # "create"
    BY <1>1, <1>2, Zenon DEF Created
  <2>2. \A v \in WriteBack : job'[v].step = "write" => job'[v] = job[v]
    BY <1>1, <1>2, Zenon
  <2>3. /\ \A p \in Object : local'[p] \in {NoFile, local[p]}
        /\ \A v \in WriteBack : v > started' => job'[v] = NoJob
    BY <1>2, Zenon
  <2> QED  BY <1>2, <2>1, <2>2, <2>3, OwnedStays, Zenon
<1>5. ASSUME NEW p \in Object \ crossed' PROVE InTurn(p)'
  <2>1. InTurn(p)
    BY <1>5, Zenon DEF IInv
  <2>2. (Deleting(p)' <=> Deleting(p)) /\ SentOnce(p)'
    BY <2>1, Zenon DEF InTurn, Deleting, SentOnce
  <2>3. CASE p # o
    <3>1. \A v \in WriteBack : (Writes(v, p)' <=> Writes(v, p)) /\ (Writes(v, p) => job'[v] = job[v])
      BY <1>2, <2>3, Zenon
    <3>2. local'[p] = local[p] /\ (p \in entry' <=> p \in entry) /\ (p \in stray => p \in stray')
      BY <1>3, <2>3, Zenon
    <3> QED  BY <2>1, <2>2, <3>1, <3>2, InTurnStays, ZenonT(30)
  <2>4. CASE p = o
    <3>1. /\ ~Deleting(p) /\ p \notin entry /\ ~Looked(p)
          /\ \A v \in WriteBack : Writes(v, p) => v = w
      BY <1>2, <2>1, <2>4, ZenonT(30) DEF InTurn
    <3>2. \A v \in WriteBack : ~Writes(v, p)'
      BY <1>1, <1>2, <3>1, Zenon DEF Writes
    <3>3. local'[p] = NoFile \/ p \in stray'
      BY <1>3, <1>5, <2>4, Zenon
    <3>4. /\ ~Deleting(p)' /\ p \notin entry' /\ ~Looked(p)'
          /\ reader'.step = "read" /\ reader'.object = p /\ p \notin stray' => reader'.file \in Filled'
      BY <2>1, <2>2, <3>1, Zenon DEF Looked, InTurn
    <3> QED  BY <2>2, <3>2, <3>3, <3>4, ZenonT(30) DEF InTurn
  <2> QED  BY <2>3, <2>4, Zenon
<1> QED  BY <1>2, <1>4, <1>5, Zenon

\* A write-back gives its object a file: a new one, or the one that is there.
LEMMA FileGiven ==
    ASSUME IInv, NEW w \in WriteBack, job[w].step = "create",
           NEW f \in WriteBack, f = w \/ f = local[job[w].object],
           NEW t \in Job, t.step \in {"idle", "write", "insert"},
           t.step # "idle" => t.object = job[w].object,
           job' = [job EXCEPT ![w] = t],
           local' = [local EXCEPT ![job[w].object] = f],
           t.step = "idle" => job[w].object \in stray',
           t.step = "write" => t.file = f /\ truncator'[f] = w,
           t.step = "insert" => f \in Filled',
           \A g \in WriteBack \ {f} : /\ g \in Filled => g \in Filled'
                                     /\ truncator'[g] = truncator[g],
           stray \subseteq stray',
           UNCHANGED <<entry, started, leaving, evicted, reader, crossed>>
    PROVE  /\ local' \in [Object -> WriteBack \cup {NoFile}] /\ job' \in [WriteBack -> Job]
           /\ FilesAreOwned'
           /\ \A p \in Object \ crossed' : InTurn(p)'
<1> DEFINE o == job[w].object
<1>1. local \in [Object -> WriteBack \cup {NoFile}] /\ job \in [WriteBack -> Job]
  BY Zenon DEF IInv, TypeOK
<1>2. o \in Object
  BY <1>1, JobIs, Zenon
<1>3. /\ job' \in [WriteBack -> Job] /\ job'[w] = t
      /\ \A v \in WriteBack \ {w} : job'[v] = job[v]
      /\ w <= started /\ started \in Nat
      /\ \A v \in WriteBack : v > started => job'[v] = NoJob
      /\ \A p \in Object \ {o}, v \in WriteBack :
            /\ Writes(v, p)' <=> Writes(v, p)
            /\ Writes(v, p) => job'[v] = job[v]
      /\ Writes(w, o)
  BY OtherWrites, ZenonT(30)
<1>4. /\ t.step \in {"idle", "write", "insert"} /\ (t.step # "idle" => t.object = o)
      /\ (t.step = "idle" => o \in stray') /\ (t.step = "write" => t.file = f /\ truncator'[f] = w)
      /\ (t.step = "insert" => f \in Filled') /\ (f = w \/ f = local[o])
  BY Zenon
\* The file is nobody else's.
<1>5. /\ \A p \in Object \ {o} : local[p] # f
      /\ \A v \in WriteBack : job[v].step = "write" /\ job[v].file = f => job[v].object = o
      /\ reader.step = "read" /\ reader.file = f => reader.object = o
  <2>1. CASE f = w
    <3>1. ~Created(w) /\ w # NoFile
      BY WriteBacksAre, Zenon DEF Created
    <3> QED  BY <2>1, <3>1, ZenonT(30) DEF IInv, FilesAreOwned
  <2>2. CASE f = local[o]
    <3>1. f # NoFile
      BY WriteBacksAre, Zenon
    <3> QED  BY <1>2, <2>2, <3>1, ZenonT(30) DEF IInv, FilesAreOwned
  <2> QED  BY <1>4, <2>1, <2>2, Zenon
<1>6. Created(f) \/ f = w
  BY <1>2, <1>4, WriteBacksAre, ZenonT(30) DEF IInv, FilesAreOwned
<1>7. local' = [local EXCEPT ![o] = f]
  BY Zenon
<1> HIDE DEF o
<1>8. /\ local'[o] = f /\ \A p \in Object \ {o} : local'[p] = local[p]
      /\ local' \in [Object -> WriteBack \cup {NoFile}]
  BY <1>1, <1>2, <1>7, Zenon
<1>9. \A g \in WriteBack : Created(g) \/ g = w => g <= started' /\ job'[g].step # "create"
  BY <1>3, <1>4, ZenonT(30) DEF Created
<1>10. FilesAreOwned'
  <2>1. ASSUME NEW p \in Object, local'[p] # NoFile
        PROVE  local'[p] <= started' /\ job'[local'[p]].step # "create"
    <3>1. local'[p] \in WriteBack /\ (Created(local'[p]) \/ local'[p] = w)
      BY <1>1, <1>6, <1>8, <2>1, ZenonT(30) DEF IInv, FilesAreOwned
    <3> QED  BY <1>9, <3>1, Zenon
  <2>2. \A p, r \in Object : local'[p] = local'[r] /\ local'[p] # NoFile => p = r
    BY <1>5, <1>8 DEF IInv, FilesAreOwned
  <2>3. ASSUME NEW v \in WriteBack, job'[v].step = "write"
        PROVE  /\ job'[v].file <= started' /\ job'[job'[v].file].step # "create"
               /\ \A p \in Object : local'[p] = job'[v].file => p = job'[v].object
    <3>1. CASE v = w
      <4>1. job'[v].file = f /\ job'[v].object = o
        BY <1>3, <1>4, <2>3, <3>1, Zenon
      <4> QED  BY <1>5, <1>6, <1>8, <1>9, <4>1, ZenonT(30)
    <3>2. CASE v # w
      <4>1. job'[v] = job[v] /\ job[v].file \in WriteBack /\ job[v].step = "write"
        BY <1>1, <1>3, <2>3, <3>2, JobIs, Zenon
      <4>2. Created(job[v].file) /\ \A p \in Object : local[p] = job[v].file => p = job[v].object
        BY <4>1, Zenon DEF IInv, FilesAreOwned
      <4>3. job'[v].file <= started' /\ job'[job'[v].file].step # "create"
        BY <1>9, <4>1, <4>2, Zenon
      <4>4. \A p \in Object : local'[p] = job[v].file => p = job[v].object
        BY <1>5, <1>8, <4>1, <4>2, ZenonT(30)
      <4> QED  BY <4>1, <4>3, <4>4, Zenon
    <3> QED  BY <3>1, <3>2, Zenon
  <2>4. ASSUME reader'.step = "read"
        PROVE  /\ reader'.file <= started' /\ job'[reader'.file].step # "create"
               /\ \A p \in Object : local'[p] = reader'.file => p = reader'.object
    <3>1. reader.file \in WriteBack
      BY <2>4 DEF IInv, TypeOK, Reader, NoJob
    <3>2. Created(reader.file) /\ \A p \in Object : local[p] = reader.file => p = reader.object
      BY <2>4, Zenon DEF IInv, FilesAreOwned
    <3> QED  BY <1>5, <1>8, <1>9, <2>4, <3>1, <3>2, ZenonT(30)
  <2>5. \A v \in WriteBack : v > started' => job'[v] = NoJob
    BY <1>3, Zenon
  <2> QED  BY <2>1, <2>2, <2>3, <2>4, <2>5, ZenonT(30) DEF FilesAreOwned, Created
<1>11. ASSUME NEW p \in Object \ crossed' PROVE InTurn(p)'
  <2>1. InTurn(p)
    BY <1>11, Zenon DEF IInv
  <2>2. (Deleting(p)' <=> Deleting(p)) /\ SentOnce(p)'
    BY <2>1, Zenon DEF InTurn, Deleting, SentOnce
  <2>3. reader.step = "read" => reader.file \in WriteBack
    BY DEF IInv, TypeOK, Reader, NoJob
  <2>4. CASE p # o
    <3>1. local'[p] = local[p] /\ local[p] # f
      BY <1>5, <1>8, <2>4, Zenon
    <3>2. \A v \in WriteBack : Writes(v, p) /\ job[v].step = "write" => local[p] \in WriteBack
      BY <1>1, <2>1, JobIs, ZenonT(30) DEF InTurn
    <3>3. \A v \in WriteBack : Writes(v, p) /\ job[v].step = "write"
                                  => truncator'[local[p]] = truncator[local[p]]
      BY <3>1, <3>2, Zenon
    <3>4. Filled \in SUBSET WriteBack
      BY Zenon DEF IInv, TypeOK
    <3>5. /\ local[p] \in Filled => local[p] \in Filled'
          /\ reader.step = "read" /\ reader.object = p /\ reader.file \in Filled => reader.file \in Filled'
          /\ p \in entry' <=> p \in entry
          /\ p \in stray => p \in stray'
      BY <1>5, <2>3, <2>4, <3>1, <3>4, Zenon
    <3>6. \A v \in WriteBack : (Writes(v, p)' <=> Writes(v, p)) /\ (Writes(v, p) => job'[v] = job[v])
      BY <1>3, <2>4, Zenon
    <3> QED  BY <2>1, <2>2, <3>1, <3>3, <3>5, <3>6, InTurnStays, ZenonT(30)
  <2>5. CASE p = o
    <3>1. /\ ~Deleting(p) /\ p \notin entry /\ ~Looked(p) /\ (local[p] = NoFile \/ p \in stray)
          /\ \A v \in WriteBack : Writes(v, p) => v = w
      BY <1>3, <2>1, <2>5, Zenon DEF InTurn
    <3>2. \A v \in WriteBack : Writes(v, p)' => v = w /\ t.step # "idle"
      BY <1>3, <3>1, Zenon DEF Writes
    <3>3. reader.step = "read" /\ reader.object = p /\ p \notin stray' => reader.file \in Filled'
      <4> SUFFICES ASSUME reader.step = "read", reader.object = p, p \notin stray'
                   PROVE  reader.file \in Filled'
        BY Zenon
      <4>1. f = w /\ p \notin stray
        BY <1>4, <2>5, <3>1, WriteBacksAre, Zenon
      <4>2. ~Created(w)
        BY Zenon DEF Created
      <4>3. reader.file # f /\ reader.file \in Filled
        BY <2>1, <4>1, <4>2, Zenon DEF IInv, FilesAreOwned, InTurn
      <4> QED  BY <2>3, <4>3, Zenon
    <3>4. ASSUME NEW v \in WriteBack, Writes(v, p)'
          PROVE  /\ job'[v].step \in {"write", "insert"}
                 /\ job'[v].step = "write" => local'[p] = job'[v].file /\ truncator'[local'[p]] = v
                 /\ job'[v].step = "insert" => local'[p] \in Filled'
      BY <1>3, <1>4, <1>8, <2>5, <3>2, <3>4, ZenonT(30)
    <3>5. (\A v \in WriteBack : ~Writes(v, p)') => p \in stray'
      <4>1. t.step # "idle" => Writes(w, p)'
        BY <1>3, <1>4, <2>5, Zenon DEF Writes
      <4> QED  BY <1>4, <2>5, <4>1, Zenon
    <3>6. ~Deleting(p)' /\ p \notin entry' /\ ~Looked(p)'
      BY <2>2, <3>1, Zenon DEF Looked
    <3>7. \A v, x \in WriteBack : Writes(v, p)' /\ Writes(x, p)' => v = x
      BY <3>2, Zenon
    <3> QED  BY <2>2, <3>3, <3>4, <3>5, <3>6, <3>7, ZenonT(30) DEF InTurn
  <2> QED  BY <2>4, <2>5, Zenon
<1> QED  BY <1>3, <1>8, <1>10, <1>11, Zenon

\* File::create.
LEMMA OpenedIs ==
    ASSUME IInv, NEW w \in WriteBack, job[w].step = "create", OpenForWriting(w)
    PROVE  /\ Opened(w) \in WriteBack /\ (Opened(w) = w \/ Opened(w) = local[job[w].object])
           /\ local' = [local EXCEPT ![job[w].object] = Opened(w)]
           /\ Filled' \in SUBSET WriteBack
           /\ truncator' \in [WriteBack -> WriteBack] /\ truncator'[Opened(w)] = w
           /\ \A g \in WriteBack \ {Opened(w)} : /\ g \in Filled => g \in Filled'
                                               /\ truncator'[g] = truncator[g]
<1>1. /\ local \in [Object -> WriteBack \cup {NoFile}] /\ job[w].object \in Object
      /\ truncator \in [WriteBack -> WriteBack] /\ Filled \in SUBSET WriteBack
  BY JobIs, Zenon DEF IInv, TypeOK
<1>2. Opened(w) \in WriteBack /\ (Opened(w) = w \/ Opened(w) = local[job[w].object])
  BY <1>1, Zenon DEF Opened
<1>3. /\ local' = [local EXCEPT ![job[w].object] = Opened(w)]
      /\ truncator' = [truncator EXCEPT ![Opened(w)] = w]
  BY Zenon DEF OpenForWriting
<1>4. Filled' = Filled \ {Opened(w)}
  BY Zenon DEF OpenForWriting, Filled
<1> QED  BY <1>1, <1>2, <1>3, <1>4, Zenon

LEMMA CreateIInv ==
    ASSUME IInv, NEW w \in WriteBack, Create(w)
    PROVE  IInv'
<1> DEFINE t == [step |-> "write", object |-> job[w].object, file |-> Opened(w)]
<1>1. /\ job[w].step = "create" /\ OpenForWriting(w) /\ job' = [job EXCEPT ![w] = t]
      /\ UNCHANGED <<entry, size, stray, started, leaving, due, evicted, reader, slots, heap, removals,
                     remover, repeats, crossed>>
  BY Zenon DEF Create, recency, eviction
<1>2. job[w].object \in Object
  BY <1>1, JobIs, Zenon DEF IInv, TypeOK
<1>3. /\ Opened(w) \in WriteBack /\ (Opened(w) = w \/ Opened(w) = local[job[w].object])
      /\ local' = [local EXCEPT ![job[w].object] = Opened(w)]
      /\ Filled' \in SUBSET WriteBack
      /\ truncator' \in [WriteBack -> WriteBack] /\ truncator'[Opened(w)] = w
      /\ \A g \in WriteBack \ {Opened(w)} : /\ g \in Filled => g \in Filled'
                                          /\ truncator'[g] = truncator[g]
  BY <1>1, OpenedIs, Zenon
<1>4. t \in Job /\ t.step = "write" /\ t.object = job[w].object /\ t.file = Opened(w)
  BY <1>2, <1>3, NewJobs, ZenonT(30)
<1> HIDE DEF t
<1>5. /\ local' \in [Object -> WriteBack \cup {NoFile}] /\ job' \in [WriteBack -> Job]
      /\ FilesAreOwned' /\ \A p \in Object \ crossed' : InTurn(p)'
  BY <1>1, <1>3, <1>4, FileGiven, ZenonT(60)
<1>6. TypeOK'
  BY <1>1, <1>3, <1>5, Zenon DEF IInv, TypeOK
<1>7. OneInserts' /\ SizeIsExplained' /\ RemovalsArePaid'
  BY <1>1, <1>4, FileStep, ZenonT(30)
<1> QED  BY <1>5, <1>6, <1>7, Zenon DEF IInv

LEMMA CreateFailsIInv ==
    ASSUME IInv, NEW w \in WriteBack, CreateFails(w)
    PROVE  IInv'
<1>1. /\ job[w].step = "create" /\ job' = [job EXCEPT ![w] = NoJob]
      /\ UNCHANGED <<entry, size, started, leaving, due, evicted, reader, slots, heap, removals,
                     remover, repeats, crossed>>
  BY Zenon DEF CreateFails, recency, eviction
<1>2. /\ job \in [WriteBack -> Job] /\ job[w].object \in Object
  BY <1>1, JobIs, Zenon DEF IInv, TypeOK
<1>3. NoJob \in Job /\ NoJob.step = "idle"
  BY Zenon DEF Job, NoJob
<1>4. OneInserts' /\ SizeIsExplained' /\ RemovalsArePaid'
  BY <1>1, <1>3, FileStep, ZenonT(30)
<1>5. CASE OpenForWriting(w) /\ stray' = stray \cup {job[w].object}
  <2>1. /\ Opened(w) \in WriteBack /\ (Opened(w) = w \/ Opened(w) = local[job[w].object])
        /\ local' = [local EXCEPT ![job[w].object] = Opened(w)]
        /\ Filled' \in SUBSET WriteBack
        /\ truncator' \in [WriteBack -> WriteBack] /\ truncator'[Opened(w)] = w
        /\ \A g \in WriteBack \ {Opened(w)} : /\ g \in Filled => g \in Filled'
                                            /\ truncator'[g] = truncator[g]
    BY <1>1, <1>5, OpenedIs, Zenon
  <2>2. stray' \in SUBSET Object /\ stray \subseteq stray' /\ job[w].object \in stray'
    BY <1>2, <1>5, Zenon DEF IInv, TypeOK
  <2>3. /\ local' \in [Object -> WriteBack \cup {NoFile}] /\ job' \in [WriteBack -> Job]
        /\ FilesAreOwned' /\ \A p \in Object \ crossed' : InTurn(p)'
    BY <1>1, <1>3, <2>1, <2>2, FileGiven, ZenonT(60)
  <2>4. TypeOK'
    BY <1>1, <2>1, <2>2, <2>3, Zenon DEF IInv, TypeOK
  <2> QED  BY <1>4, <2>3, <2>4, Zenon DEF IInv
<1>6. CASE UNCHANGED files
  <2>1. UNCHANGED <<local, Filled, truncator, stray>>
    BY <1>6, Zenon DEF files, contents, Filled
  <2>2. /\ job' \in [WriteBack -> Job] /\ FilesAreOwned' /\ \A p \in Object \ crossed' : InTurn(p)'
    <3>1. \A p \in Object : local'[p] = local[p] /\ (p \in stray => p \in stray')
      BY <2>1, Zenon
    <3>3. job[w].object \notin crossed =>
             local'[job[w].object] = NoFile \/ job[w].object \in stray'
      <4>1. Writes(w, job[w].object)
        BY <1>1, Zenon DEF Writes
      <4> QED  BY <1>1, <1>2, <2>1, <4>1, ZenonT(30) DEF IInv, InTurn
    <3>2. Filled' = Filled /\ truncator' = truncator /\ job[w].step \in {"create", "write"}
      BY <1>1, <2>1, Zenon
    <3> QED  BY <1>1, <3>1, <3>2, <3>3, GivenUp, ZenonT(30)
  <2>3. TypeOK'
    BY <1>1, <2>1, <2>2, Zenon DEF IInv, TypeOK
  <2> QED  BY <1>4, <2>2, <2>3, Zenon DEF IInv
<1> QED  BY <1>5, <1>6, Zenon DEF CreateFails

LEMMA MoveFileToCacheIInv ==
    ASSUME IInv, NEW w \in WriteBack, MoveFileToCache(w)
    PROVE  IInv'
<1> DEFINE t == [step |-> "insert", object |-> job[w].object]
<1>1. /\ job[w].step = "create" /\ job' = [job EXCEPT ![w] = t]
      /\ local' = [local EXCEPT ![job[w].object] = w]
      /\ Filled' = Filled \cup {w}
      /\ UNCHANGED <<entry, size, truncator, stray, started, leaving, due, evicted, reader, slots, heap,
                     removals, remover, repeats, crossed>>
  BY Zenon DEF MoveFileToCache, recency, eviction, Filled
<1>2. job[w].object \in Object
  BY <1>1, JobIs, Zenon DEF IInv, TypeOK
<1>3. t \in Job /\ t.step = "insert" /\ t.object = job[w].object
  BY <1>2, NewJobs, ZenonT(30) DEF Inserting
<1> HIDE DEF t
<1>4. /\ \A g \in WriteBack \ {w} : g \in Filled => g \in Filled'
      /\ w \in Filled' /\ Filled' \in SUBSET WriteBack
  BY <1>1, Zenon DEF IInv, TypeOK
<1>5. /\ local' \in [Object -> WriteBack \cup {NoFile}] /\ job' \in [WriteBack -> Job]
      /\ FilesAreOwned' /\ \A p \in Object \ crossed' : InTurn(p)'
  BY <1>1, <1>3, <1>4, FileGiven, ZenonT(60)
<1>6. TypeOK'
  BY <1>1, <1>4, <1>5, Zenon DEF IInv, TypeOK
<1>7. OneInserts' /\ SizeIsExplained' /\ RemovalsArePaid'
  BY <1>1, <1>3, FileStep, ZenonT(30)
<1> QED  BY <1>5, <1>6, <1>7, Zenon DEF IInv

LEMMA WriteIInv ==
    ASSUME IInv, NEW w \in WriteBack, Write(w)
    PROVE  IInv'
<1> DEFINE o == job[w].object
           f == job[w].file
           t == [step |-> "insert", object |-> o]
<1>1. /\ job[w].step = "write" /\ Filled' = Filled \cup {g \in {f} : truncator[g] = w}
      /\ job' = [job EXCEPT ![w] = t]
      /\ UNCHANGED <<entry, size, local, truncator, stray, started, leaving, due, evicted, reader, slots, heap, removals,
                     remover, repeats, crossed>>
  BY Zenon DEF Write, recency, eviction, Filled
<1>2. job \in [WriteBack -> Job] /\ o \in Object /\ f \in WriteBack
  BY <1>1, JobIs, Zenon DEF IInv, TypeOK
<1>3. t \in Job /\ t.step = "insert" /\ t.object = o
  BY <1>2, NewJobs, ZenonT(30) DEF Inserting
<1>4. /\ job' \in [WriteBack -> Job] /\ job'[w] = t
      /\ \A v \in WriteBack \ {w} : job'[v] = job[v]
      /\ \A v \in WriteBack : v > started => job'[v] = NoJob
      /\ \A p \in Object \ {o}, v \in WriteBack :
            /\ Writes(v, p)' <=> Writes(v, p)
            /\ Writes(v, p) => job'[v] = job[v]
      /\ Writes(w, o)
  BY <1>1, <1>3, OtherWrites, ZenonT(30)
<1> HIDE DEF o, f, t
<1>5. TypeOK'
  BY <1>1, <1>2, <1>4, ZenonT(30) DEF IInv, TypeOK
<1>6. FilesAreOwned'
  <2>1. \A g \in WriteBack : Created(g) => g <= started' /\ job'[g].step # "create"
    BY <1>1, <1>3, <1>4, Zenon DEF Created
  <2>2. \A v \in WriteBack : job'[v].step = "write" => job'[v] = job[v]
    BY <1>3, <1>4, Zenon
  <2> QED  BY <1>1, <1>4, <2>1, <2>2, OwnedStays, Zenon
<1>7. ASSUME NEW p \in Object \ crossed' PROVE InTurn(p)'
  <2>1. InTurn(p)
    BY <1>1, <1>7, Zenon DEF IInv
  <2>2. CASE p # o
    <3>1. \A v \in WriteBack : (Writes(v, p)' <=> Writes(v, p)) /\ (Writes(v, p) => job'[v] = job[v])
      BY <1>4, <2>2, Zenon
    <3>2. reader' = reader /\ (Deleting(p)' <=> Deleting(p)) /\ SentOnce(p)'
      BY <1>1, <2>1, Zenon DEF InTurn, Deleting, SentOnce
    <3>3. /\ local'[p] = local[p] /\ Filled \subseteq Filled' /\ truncator' = truncator
          /\ (p \in entry' <=> p \in entry) /\ (p \in stray => p \in stray')
      BY <1>1, Zenon
    <3> QED  BY <2>1, <3>1, <3>2, <3>3, InTurnStays, ZenonT(30)
  <2>3. CASE p = o
    <3>1. /\ ~Deleting(p) /\ p \notin entry /\ local[p] = f /\ truncator[f] = w /\ ~Looked(p)
          /\ \A v \in WriteBack : Writes(v, p) => v = w
      BY <1>1, <1>4, <2>1, <2>3, ZenonT(30) DEF InTurn, f
    <3>2. \A v \in WriteBack : Writes(v, p)' => v = w
      BY <1>4, <3>1, ZenonT(30) DEF Writes
    <3>3. Writes(w, p)' /\ job'[w].step = "insert" /\ local'[p] \in Filled'
      BY <1>1, <1>3, <1>4, <2>3, <3>1, ZenonT(30) DEF Writes
    <3>4. /\ ~Deleting(p)' /\ SentOnce(p)' /\ p \notin entry' /\ ~Looked(p)'
          /\ reader'.step = "read" /\ reader'.object = p /\ p \notin stray' => reader'.file \in Filled'
      BY <1>1, <2>1, <3>1, Zenon DEF InTurn, Deleting, SentOnce, Looked
    <3> QED  BY <3>2, <3>3, <3>4, ZenonT(30) DEF InTurn
  <2> QED  BY <2>2, <2>3, Zenon
<1>8. OneInserts' /\ SizeIsExplained' /\ RemovalsArePaid'
  BY <1>1, <1>3, FileStep, ZenonT(30)
<1> QED  BY <1>5, <1>6, <1>7, <1>8, Zenon DEF IInv

\* remove_file.
LEMMA RemoveIs ==
    ASSUME IInv, NEW o \in Object, Remove(o)
    PROVE  /\ local' \in [Object -> WriteBack \cup {NoFile}] /\ stray' \in SUBSET Object
           /\ \A p \in Object : local'[p] \in {NoFile, local[p]} /\ (p \in stray => p \in stray')
           /\ \A p \in Object \ {o} : local'[p] = local[p]
           /\ local'[o] = NoFile \/ o \in stray'
<1>1. local \in [Object -> WriteBack \cup {NoFile}] /\ stray \in SUBSET Object
  BY Zenon DEF IInv, TypeOK
<1>2. CASE local' = [local EXCEPT ![o] = NoFile] /\ UNCHANGED stray
  <2>1. local'[o] = NoFile /\ \A p \in Object \ {o} : local'[p] = local[p]
    BY <1>1, <1>2, Zenon
  <2>2. local' \in [Object -> WriteBack \cup {NoFile}]
    BY <1>1, <1>2, Zenon
  <2> QED  BY <1>1, <1>2, <2>1, <2>2, Zenon
<1>3. CASE stray' = stray \cup {o} /\ UNCHANGED local
  BY <1>1, <1>3, Zenon
<1> QED  BY <1>2, <1>3, Zenon DEF Remove

LEMMA WriteFailsIInv ==
    ASSUME IInv, NEW w \in WriteBack, WriteFails(w)
    PROVE  IInv'
<1> DEFINE o == job[w].object
<1>1. /\ job[w].step = "write" /\ Remove(o) /\ job' = [job EXCEPT ![w] = NoJob]
      /\ UNCHANGED <<entry, size, Filled, truncator, started, leaving, due, evicted, reader, slots, heap,
                     removals, remover, repeats, crossed>>
  BY Zenon DEF WriteFails, recency, eviction, contents, Filled
<1>2. o \in Object
  BY <1>1, JobIs, Zenon DEF IInv, TypeOK
<1>3. /\ local' \in [Object -> WriteBack \cup {NoFile}] /\ stray' \in SUBSET Object
      /\ \A p \in Object : local'[p] \in {NoFile, local[p]} /\ (p \in stray => p \in stray')
      /\ \A p \in Object \ {o} : local'[p] = local[p]
      /\ local'[o] = NoFile \/ o \in stray'
  BY <1>1, <1>2, RemoveIs, Zenon
<1>4. /\ job' \in [WriteBack -> Job] /\ FilesAreOwned' /\ \A p \in Object \ crossed' : InTurn(p)'
  BY <1>1, <1>3, GivenUp, ZenonT(30)
<1>5. TypeOK'
  BY <1>1, <1>3, <1>4, Zenon DEF IInv, TypeOK
<1>6. NoJob.step = "idle"
  BY Zenon DEF NoJob
<1>7. OneInserts' /\ SizeIsExplained' /\ RemovalsArePaid'
  BY <1>1, <1>6, FileStep, ZenonT(30)
<1> QED  BY <1>4, <1>5, <1>7, Zenon DEF IInv

\* The steps of an insertion touch no file.
LEMMA InsertingStep ==
    ASSUME IInv, NEW w \in WriteBack, job[w].step \in Inserting,
           NEW t \in Job, t.step \in Inserting \cup {"idle"},
           t.step # "idle" => t.object = job[w].object,
           job' = [job EXCEPT ![w] = t],
           UNCHANGED <<local, Filled, truncator, stray, started, leaving, due, evicted, reader, crossed>>,
           entry \subseteq entry',
           \A p \in Object \ {job[w].object} : p \in entry' => p \in entry,
           job[w].object \notin crossed =>
              (job[w].object \in entry' <=> t.step \in {"add", "idle"})
    PROVE  FilesAreOwned' /\ \A p \in Object \ crossed' : InTurn(p)'
<1> DEFINE o == job[w].object
<1>1. /\ job' \in [WriteBack -> Job] /\ job'[w] = t
      /\ \A v \in WriteBack \ {w} : job'[v] = job[v]
      /\ \A v \in WriteBack : v > started => job'[v] = NoJob
      /\ \A p \in Object \ {o}, v \in WriteBack :
            /\ Writes(v, p)' <=> Writes(v, p)
            /\ Writes(v, p) => job'[v] = job[v]
      /\ Writes(w, o) /\ o \in Object
  <2>1. job[w].step # "idle"
    BY Zenon DEF Inserting
  <2> QED  BY <2>1, OtherWrites, ZenonT(30)
<1>2. FilesAreOwned'
  <2>1. \A g \in WriteBack : Created(g) => g <= started' /\ job'[g].step # "create"
    BY <1>1, Zenon DEF Created, Inserting
  <2>2. \A v \in WriteBack : job'[v].step = "write" => job'[v] = job[v]
    BY <1>1, Zenon DEF Inserting
  <2>3. /\ \A p \in Object : local'[p] \in {NoFile, local[p]}
        /\ \A v \in WriteBack : v > started' => job'[v] = NoJob
    BY <1>1, Zenon
  <2> QED  BY <1>1, <2>1, <2>2, <2>3, OwnedStays, Zenon
<1>3. o \notin crossed => (o \in entry' <=> t.step \in {"add", "idle"})
  BY Zenon
<1> HIDE DEF o
<1>4. ASSUME NEW p \in Object \ crossed' PROVE InTurn(p)'
  <2>1. InTurn(p) /\ p \notin crossed
    BY <1>4, Zenon DEF IInv
  <2>2. CASE p # o
    <3>1. \A v \in WriteBack : (Writes(v, p)' <=> Writes(v, p)) /\ (Writes(v, p) => job'[v] = job[v])
      BY <1>1, <2>2, Zenon
    <3>2. p \in entry' <=> p \in entry
      BY <2>2, Zenon DEF o
    <3>3. reader' = reader /\ (Deleting(p)' <=> Deleting(p)) /\ SentOnce(p)'
      BY <2>1, Zenon DEF InTurn, Deleting, SentOnce
    <3>4. /\ local'[p] = local[p] /\ Filled \subseteq Filled' /\ truncator' = truncator
          /\ (p \in entry' <=> p \in entry) /\ stray' = stray
      BY <3>2, Zenon
    <3> QED  BY <2>1, <3>1, <3>3, <3>4, InTurnStays, ZenonT(30)
  <2>3. CASE p = o
    <3>1. /\ ~Deleting(p) /\ local[p] \in Filled
          /\ \A v \in WriteBack : Writes(v, p) => v = w
      BY <1>1, <2>1, <2>3, ZenonT(30) DEF InTurn, Inserting
    <3>2. \A v \in WriteBack : Writes(v, p)' => v = w /\ t.step # "idle"
      BY <1>1, <3>1, ZenonT(30) DEF Writes
    <3>3. p \in entry' <=> t.step \in {"add", "idle"}
      BY <1>3, <2>1, <2>3, Zenon
    <3>4. Writes(w, p)' <=> t.step # "idle"
      BY <1>1, <2>3, Zenon DEF Writes, o
    <3>5. Looked(p) => p \in entry'
      BY <2>1, Zenon DEF InTurn
    <3>6. job'[w].step \notin {"create", "write"}
      BY <1>1, Zenon DEF Inserting
    <3>7. ~Deleting(p)' /\ SentOnce(p)'
      BY <2>1, <3>1, Zenon DEF InTurn, Deleting, SentOnce
    <3>8. ASSUME NEW v \in WriteBack, Writes(v, p)'
          PROVE  /\ p \in entry' <=> job'[v].step = "add"
                 /\ job'[v].step \notin {"create", "write"} /\ local'[p] \in Filled'
      BY <1>1, <3>1, <3>2, <3>3, <3>6, <3>8, ZenonT(30)
    <3>9. /\ \A v, x \in WriteBack : Writes(v, p)' /\ Writes(x, p)' => v = x
          /\ p \in entry' => local'[p] \in Filled'
          /\ ~(p \notin entry' /\ \A v \in WriteBack : ~Writes(v, p)')
      BY <3>1, <3>2, <3>3, <3>4, Zenon
    <3>10. /\ Looked(p)' => p \in entry'
           /\ reader'.step = "read" /\ reader'.object = p /\ p \notin stray' => reader'.file \in Filled'
      BY <2>1, <3>5, Zenon DEF InTurn, Looked
    <3> QED  BY <3>7, <3>8, <3>9, <3>10, ZenonT(30) DEF InTurn
  <2> QED  BY <2>2, <2>3, Zenon
<1> QED  BY <1>2, <1>4, Zenon

LEMMA ShouldInsertIInv ==
    ASSUME IInv, NEW w \in WriteBack, ShouldInsert(w)
    PROVE  IInv'
<1> DEFINE o == job[w].object
           s == IF o \in entry THEN "add" ELSE IF Accepts(o) THEN "slot" ELSE "refused"
           t == [step |-> s, object |-> o]
<1>1. /\ job[w].step = "insert"
      /\ \A v \in WriteBack : job[v].step \in {"slot", "refused"} => job[v].object # o
      /\ job' = [job EXCEPT ![w].step = s]
      /\ repeats' = IF o \in entry THEN repeats + 1 ELSE repeats
      /\ removals' = IF s = "slot" /\ Full THEN removals + 1 ELSE removals
      /\ UNCHANGED <<entry, size, local, Filled, truncator, stray, started, leaving, due, evicted, reader, slots, heap,
                     remover, crossed>>
  BY Zenon DEF ShouldInsert, files, contents, Filled, eviction
<1>2. /\ job \in [WriteBack -> Job] /\ o \in Object /\ repeats \in Nat /\ removals \in Nat
      /\ heap \in Seq(Object) /\ slots \in Seq(Object)
  BY <1>1, JobIs, Zenon DEF IInv, TypeOK
<1>3. s \in Inserting /\ s \in {"slot", "refused", "add"} /\ (s = "add" <=> o \in entry)
  BY Zenon DEF Inserting
<1>4. t \in Job /\ t.step = s /\ t.object = o
  BY <1>2, <1>3, DataAssumption, NewJobs, Zenon DEF Job
<1>5. job' = [job EXCEPT ![w] = t]
  <2>1. job[w].step \in Inserting
    BY <1>1, Zenon DEF Inserting
  <2> HIDE DEF s
  <2> QED  BY <1>1, <1>2, <1>3, <2>1, NextStep, ZenonT(30)
<1> HIDE DEF s, t
<1>6. job' \in [WriteBack -> Job] /\ \A v \in WriteBack : job'[v] = IF v = w THEN t ELSE job[v]
  BY <1>2, <1>4, <1>5, Zenon
<1>7. TypeOK'
  <2>1. repeats' \in Nat /\ removals' \in Nat
    BY <1>1, <1>2
  <2> QED  BY <1>1, <1>6, <2>1, Zenon DEF IInv, TypeOK
<1>8. FilesAreOwned' /\ \A p \in Object \ crossed' : InTurn(p)'
  <2>1. o \notin crossed => o \notin entry
    <3>1. Writes(w, o)
      BY <1>1, Zenon DEF Writes
    <3> QED  BY <1>1, <1>2, <3>1, Zenon DEF IInv, InTurn
  <2>2. o \notin crossed => (o \in entry' <=> t.step \in {"add", "idle"})
    BY <1>1, <1>3, <1>4, <2>1, Zenon
  <2>3. job[w].step \in Inserting /\ t.step \in Inserting \cup {"idle"} /\ t.object = job[w].object
    BY <1>1, <1>3, <1>4, Zenon DEF Inserting
  <2>4. entry \subseteq entry' /\ \A p \in Object \ {job[w].object} : p \in entry' => p \in entry
    BY <1>1, Zenon
  <2> QED  BY <1>1, <1>4, <1>5, <2>2, <2>3, <2>4, InsertingStep, ZenonT(30)
<1>9. OneInserts'
  BY <1>1, <1>3, <1>4, <1>6 DEF IInv, OneInserts
<1>10. /\ Cardinality(In("add")') = Cardinality(In("add")) + (IF s = "add" THEN 1 ELSE 0)
       /\ Cardinality(In("slot")') = Cardinality(In("slot")) + (IF s = "slot" THEN 1 ELSE 0)
       /\ Cardinality(In("slot")) \in Nat
  <2>1. /\ Cardinality(In("add")') = Cardinality(In("add")) + (IF s = "add" THEN 1 ELSE 0) - 0
        /\ Cardinality(In("slot")') = Cardinality(In("slot")) + (IF s = "slot" THEN 1 ELSE 0) - 0
        /\ Cardinality(In("add")) \in Nat /\ Cardinality(In("slot")) \in Nat
    BY <1>1, <1>4, <1>5, CountsChange, ZenonT(30)
  <2> QED  BY <2>1
<1>11. SizeIsExplained'
  <2>1. /\ Cardinality(entry) \in Nat /\ Cardinality(leaving) \in Nat /\ due \in Nat
        /\ Cardinality(entry') = Cardinality(entry) /\ Cardinality(leaving') = Cardinality(leaving)
        /\ due' = due
    BY <1>1, HeldIs, Zenon DEF IInv
  <2>2. Held' = Held + (IF s = "add" THEN 1 ELSE 0)
    <3>1. repeats' = repeats + (IF s = "add" THEN 1 ELSE 0)
      BY <1>1, <1>2, <1>3
    <3> HIDE DEF o
    <3> QED  BY <1>2, <2>1, <3>1 DEF Held
  <2> DEFINE n == IF s = "add" THEN 1 ELSE 0
  <2>3. n \in Int
    OBVIOUS
  <2>4. /\ Cardinality(In("add")') = Cardinality(In("add")) + n
        /\ Held' = Held + n
    BY <1>10, <2>2, Zenon
  <2> HIDE DEF n
  <2> QED  BY <1>1, <2>3, <2>4, SizeStays, Zenon
<1>12. RemovalsArePaid'
  <2>1. remover = "runs" => removals <= Len(heap) + Len(slots) + Cardinality(In("slot"))
    BY Zenon DEF IInv, RemovalsArePaid
  <2>2. removals' <= removals + (IF s = "slot" THEN 1 ELSE 0)
    BY <1>1, <1>2
  <2>3. Len(heap) \in Nat /\ Len(slots) \in Nat
    BY <1>2
  <2>4. remover' = "runs" => removals' <= Len(heap') + Len(slots') + Cardinality(In("slot")')
    BY <1>1, <1>2, <1>10, <2>1, <2>2, <2>3
  <2> QED  BY <2>4, Zenon DEF RemovalsArePaid, In
<1> QED  BY <1>7, <1>8, <1>9, <1>11, <1>12, Zenon DEF IInv

LEMMA InsertIInv ==
    ASSUME IInv, NEW w \in WriteBack, Insert(w)
    PROVE  IInv'
<1> DEFINE o == job[w].object
           s == job[w].step
           t == [step |-> "add", object |-> o]
<1>1. /\ s \in {"slot", "refused"} /\ entry' = entry \cup {o}
      /\ slots' = IF s = "slot" THEN Append(slots, o) ELSE slots
      /\ job' = [job EXCEPT ![w].step = "add"]
      /\ UNCHANGED <<size, local, Filled, truncator, stray, started, leaving, due, evicted, reader, heap, removals, remover,
                     repeats, crossed>>
  BY Zenon DEF Insert, files, contents, Filled, eviction
<1>2. /\ job \in [WriteBack -> Job] /\ o \in Object /\ repeats \in Nat /\ removals \in Nat
      /\ heap \in Seq(Object) /\ slots \in Seq(Object)
      /\ entry \in SUBSET Object /\ IsFiniteSet(entry) /\ Cardinality(entry) \in Nat
  BY <1>1, JobIs, FS_CardinalityType, Zenon DEF IInv, TypeOK
<1>3. t \in Job /\ t.step = "add" /\ t.object = o
  BY <1>2, Zenon DEF Job, Inserting
<1>4. job' = [job EXCEPT ![w] = t]
  BY <1>1, <1>2, NextStep, ZenonT(30) DEF Inserting
<1>5. o \notin entry
  BY <1>1, Zenon DEF IInv, OneInserts
<1> HIDE DEF t
<1>6. job' \in [WriteBack -> Job] /\ \A v \in WriteBack : job'[v] = IF v = w THEN t ELSE job[v]
  BY <1>2, <1>3, <1>4, Zenon
<1>7. /\ IsFiniteSet(entry') /\ Cardinality(entry') = Cardinality(entry) + 1
  BY <1>1, <1>2, <1>5, FS_AddElement, Zenon
<1>8. TypeOK'
  <2>1. entry' \in SUBSET Object /\ slots' \in Seq(Object)
    BY <1>1, <1>2
  <2> QED  BY <1>1, <1>6, <1>7, <2>1, Zenon DEF IInv, TypeOK
<1>9. FilesAreOwned' /\ \A p \in Object \ crossed' : InTurn(p)'
  <2>1. o \in entry' /\ entry \subseteq entry' /\ \A p \in Object \ {o} : p \in entry' => p \in entry
    BY <1>1, Zenon
  <2>2. job[w].step \in Inserting /\ t.step \in Inserting \cup {"idle"} /\ t.object = job[w].object
    BY <1>1, <1>3, Zenon DEF Inserting
  <2> QED  BY <1>1, <1>3, <1>4, <2>1, <2>2, InsertingStep, ZenonT(30)
<1>10. OneInserts'
  <2> SUFFICES ASSUME NEW v \in WriteBack, job'[v].step \in {"slot", "refused"}
               PROVE  /\ job'[v].object \notin entry'
                      /\ \A u \in WriteBack :
                            job'[u].step \in {"slot", "refused"} /\ job'[u].object = job'[v].object
                               => u = v
    BY Zenon DEF OneInserts
  <2>1. v # w /\ job'[v] = job[v]
    BY <1>3, <1>6, Zenon
  <2>2. job[v].object \notin entry /\ job[v].object # o
    BY <1>1, <2>1, ZenonT(30) DEF IInv, OneInserts
  <2>3. \A u \in WriteBack :
           job[u].step \in {"slot", "refused"} /\ job[u].object = job[v].object => u = v
    BY <2>1, Zenon DEF IInv, OneInserts
  <2> QED  BY <1>1, <1>3, <1>6, <2>1, <2>2, <2>3, ZenonT(30)
<1>11. /\ Cardinality(In("add")') = Cardinality(In("add")) + 1
       /\ Cardinality(In("slot")') = Cardinality(In("slot")) - (IF s = "slot" THEN 1 ELSE 0)
       /\ Cardinality(In("slot")) \in Nat
  <2>1. /\ Cardinality(In("add")') = Cardinality(In("add")) + 1 - 0
        /\ Cardinality(In("slot")') = Cardinality(In("slot")) + 0 - (IF s = "slot" THEN 1 ELSE 0)
        /\ Cardinality(In("add")) \in Nat /\ Cardinality(In("slot")) \in Nat
    BY <1>1, <1>3, <1>4, CountsChange, ZenonT(30)
  <2> QED  BY ONLY <2>1
<1>12. SizeIsExplained'
  <2>1. Held' = Held + 1
    <3>1. /\ Cardinality(leaving) \in Nat /\ due \in Nat
          /\ Cardinality(leaving') = Cardinality(leaving) /\ due' = due /\ repeats' = repeats
      BY <1>1, HeldIs, Zenon DEF IInv
    <3> QED  BY <1>2, <1>7, <3>1 DEF Held
  <2>2. 1 \in Int /\ size' = size
    BY <1>1
  <2> QED  BY ONLY ZenonT(30), IInv, <1>11, <2>1, <2>2, SizeStays
<1>13. RemovalsArePaid'
  <2>1. remover = "runs" => removals <= Len(heap) + Len(slots) + Cardinality(In("slot"))
    BY Zenon DEF IInv, RemovalsArePaid
  <2>2. Len(slots') = Len(slots) + (IF s = "slot" THEN 1 ELSE 0)
    BY <1>1, <1>2
  <2>3. Len(heap) \in Nat /\ Len(slots) \in Nat
    BY <1>2
  <2>4. remover' = "runs" => removals' <= Len(heap') + Len(slots') + Cardinality(In("slot")')
    BY <1>1, <1>2, <1>11, <2>1, <2>2, <2>3
  <2> QED  BY <2>4, Zenon DEF RemovalsArePaid, In
<1> QED  BY <1>8, <1>9, <1>10, <1>12, <1>13, Zenon DEF IInv

LEMMA AddIInv ==
    ASSUME IInv, NEW w \in WriteBack, Add(w)
    PROVE  IInv'
<1> DEFINE o == job[w].object
<1>1. /\ job[w].step = "add" /\ size' = (size + 1) % U64 /\ job' = [job EXCEPT ![w] = NoJob]
      /\ UNCHANGED <<entry, local, Filled, truncator, stray, started, leaving, due, evicted, reader, slots, heap, removals,
                     remover, repeats, crossed>>
  BY Zenon DEF Add, files, contents, Filled, eviction, recency
<1>2. /\ job \in [WriteBack -> Job] /\ o \in Object /\ repeats \in Nat
      /\ Cardinality(entry) \in Nat
  BY <1>1, JobIs, FS_CardinalityType, Zenon DEF IInv, TypeOK
<1>3. NoJob \in Job /\ NoJob.step = "idle"
  BY Zenon DEF Job, NoJob
<1>4. job' \in [WriteBack -> Job] /\ \A v \in WriteBack : job'[v] = IF v = w THEN NoJob ELSE job[v]
  BY <1>1, <1>2, <1>3, Zenon
<1>5. FilesAreOwned' /\ \A p \in Object \ crossed' : InTurn(p)'
  <2>1. o \notin crossed => o \in entry'
    <3> SUFFICES ASSUME o \notin crossed PROVE o \in entry'
      BY Zenon
    <3>1. Writes(w, o)
      BY <1>1, Zenon DEF Writes
    <3>2. InTurn(o)
      BY <1>2, Zenon DEF IInv
    <3> QED  BY <1>1, <3>1, <3>2, Zenon DEF InTurn
  <2>2. job[w].step \in Inserting /\ entry \subseteq entry'
    BY <1>1, Zenon DEF Inserting
  <2> QED  BY <1>1, <1>3, <2>1, <2>2, InsertingStep, ZenonT(30)
<1>6. OneInserts'
  BY <1>1, <1>3, <1>4, Zenon DEF IInv, OneInserts
<1>7. /\ Cardinality(In("add")') = Cardinality(In("add")) + 0 - 1
      /\ Cardinality(In("slot")') = Cardinality(In("slot"))
  <2>1. /\ Cardinality(In("add")') = Cardinality(In("add")) + 0 - 1
        /\ Cardinality(In("slot")') = Cardinality(In("slot")) + 0 - 0
        /\ Cardinality(In("add")) \in Nat /\ Cardinality(In("slot")) \in Nat
    BY <1>1, <1>3, CountsChange, ZenonT(30)
  <2> QED  BY <2>1
<1>8. SizeIsExplained' /\ size' \in 0 .. U64 - 1
  <2>1. Held' = Held /\ Held \in Nat
    BY <1>1, HeldIs, Zenon DEF IInv, Held
  <2>2. Held' = Held + 0
    BY <2>1
  <2> QED  BY <1>1, <1>7, <2>2, SizeStep
<1>9. TypeOK'
  BY <1>1, <1>4, <1>8, Zenon DEF IInv, TypeOK
<1>10. RemovalsArePaid'
  BY <1>1, <1>7, Zenon DEF IInv, RemovalsArePaid
<1> QED  BY <1>5, <1>6, <1>8, <1>9, <1>10, Zenon DEF IInv

-----------------------------------------------------------------------------
(* Evictions and the heap.                                                 *)

\* Steps of the listener and of the deleting task leave the write-backs and the
\* heap alone.
LEMMA ListenerStep ==
    ASSUME IInv,
           UNCHANGED <<job, started, reader, slots, heap, removals, remover, repeats>>,
           entry' \subseteq entry
    PROVE  /\ OneInserts' /\ RemovalsArePaid'
           /\ Cardinality(In("add")') = Cardinality(In("add")) /\ Cardinality(In("add")) \in Nat
           /\ \A p : \A v \in WriteBack : (Writes(v, p)' <=> Writes(v, p)) /\ job'[v] = job[v]
<1>1. In("add")' = In("add") /\ In("slot")' = In("slot")
  BY Zenon DEF In
<1>2. OneInserts' /\ RemovalsArePaid'
  BY <1>1, ZenonT(30) DEF IInv, OneInserts, RemovalsArePaid
<1>3. \A p : \A v \in WriteBack : (Writes(v, p)' <=> Writes(v, p)) /\ job'[v] = job[v]
  BY Zenon DEF Writes
<1> QED  BY <1>1, <1>2, <1>3, InCounts, Zenon

LEMMA EvictIInv ==
    ASSUME IInv, NEW o \in Object, Evict(o)
    PROVE  IInv'
<1>1. /\ o \in entry /\ o \notin leaving /\ entry' = entry \ {o} /\ leaving' = leaving \cup {o}
      /\ crossed' = crossed \cup IF Writing(o) \/ Looked(o) THEN {o} ELSE {}
      /\ UNCHANGED <<size, local, Filled, truncator, stray, job, started, due, evicted, reader, slots,
                     heap, removals, remover, repeats>>
  BY Zenon DEF Evict, files, contents, Filled, recency
<1>2. /\ job \in [WriteBack -> Job] /\ entry \in SUBSET Object /\ IsFiniteSet(entry)
      /\ leaving \in SUBSET Object /\ IsFiniteSet(leaving) /\ crossed \in SUBSET Object
      /\ Cardinality(entry) \in Nat /\ Cardinality(leaving) \in Nat /\ due \in Nat /\ repeats \in Nat
  BY HeldIs, Zenon DEF IInv, TypeOK
<1>3. /\ IsFiniteSet(entry') /\ Cardinality(entry') = Cardinality(entry) - 1
      /\ IsFiniteSet(leaving') /\ Cardinality(leaving') = Cardinality(leaving) + 1
  BY <1>1, <1>2, FS_RemoveElement, FS_AddElement, ZenonT(30)
<1>4. /\ OneInserts' /\ RemovalsArePaid'
      /\ Cardinality(In("add")') = Cardinality(In("add")) /\ Cardinality(In("add")) \in Nat
      /\ \A p : \A v \in WriteBack : (Writes(v, p)' <=> Writes(v, p)) /\ job'[v] = job[v]
  <2>1. entry' \subseteq entry
    BY <1>1, Zenon
  <2> QED  BY <1>1, <2>1, ListenerStep, Zenon
<1>5. SizeIsExplained'
  <2>1. repeats' = repeats /\ due' = due /\ size' = size
    BY <1>1, Zenon
  <2>2. Held' = Held + 0
    BY <1>2, <1>3, <2>1 DEF Held
  <2>3. Cardinality(In("add")') = Cardinality(In("add")) + 0 /\ 0 \in Int
    BY <1>4
  <2> QED  BY <2>1, <2>2, <2>3, SizeStays, Zenon
<1>6. TypeOK'
  <2>1. entry' \in SUBSET Object /\ leaving' \in SUBSET Object /\ crossed' \in SUBSET Object
    BY <1>1, <1>2, Zenon
  <2> QED  BY <1>1, <1>3, <2>1, Zenon DEF IInv, TypeOK
<1>7. FilesAreOwned'
  BY <1>1, Zenon DEF IInv, FilesAreOwned, Created
<1>8. ASSUME NEW p \in Object \ crossed' PROVE InTurn(p)'
  <2>1. InTurn(p)
    BY <1>1, <1>8, Zenon DEF IInv
  <2>2. CASE p # o
    <3>1. /\ (Deleting(p)' <=> Deleting(p)) /\ SentOnce(p)' /\ (p \in entry' <=> p \in entry)
      BY <1>1, <2>1, <2>2, Zenon DEF Deleting, InTurn, SentOnce
    <3> QED  BY <1>1, <1>4, <2>1, <3>1, InTurnStays, ZenonT(30)
  <2>3. CASE p = o
    <3>1. ~Looked(p) /\ \A v \in WriteBack : ~Writes(v, p)
      BY <1>1, <1>2, <1>8, <2>3, WritingIs, Zenon
    <3>2. ~Deleting(p)
      BY <1>1, <2>1, <2>3, ZenonT(30) DEF InTurn
    <3>3. SentOnce(p)'
      BY <1>1, <3>2, Zenon DEF Deleting, SentOnce
    <3>4. Deleting(p)' /\ p \notin entry' /\ ~Looked(p)' /\ \A v \in WriteBack : ~Writes(v, p)'
      BY <1>1, <1>4, <2>3, <3>1, Zenon DEF Deleting, Looked
    <3>5. reader'.step = "read" /\ reader'.object = p /\ p \notin stray' => reader'.file \in Filled'
      BY <1>1, <2>1, Zenon DEF InTurn
    <3> QED  BY <3>3, <3>4, <3>5, Zenon DEF InTurn
  <2> QED  BY <2>2, <2>3, Zenon
<1> QED  BY <1>4, <1>5, <1>6, <1>7, <1>8, Zenon DEF IInv

LEMMA SendEvictedIInv ==
    ASSUME IInv, NEW o \in Object, SendEvicted(o)
    PROVE  IInv'
<1>1. /\ o \in leaving /\ leaving' = leaving \ {o} /\ evicted' = Append(evicted, o) /\ due' = due + 1
      /\ UNCHANGED <<entry, size, local, Filled, truncator, stray, job, started, reader, slots, heap,
                     removals, remover, repeats, crossed>>
  BY Zenon DEF SendEvicted, files, contents, Filled, recency
<1>2. /\ leaving \in SUBSET Object /\ IsFiniteSet(leaving) /\ evicted \in Seq(Object)
      /\ Cardinality(entry) \in Nat /\ Cardinality(leaving) \in Nat /\ due \in Nat /\ repeats \in Nat
  BY HeldIs, Zenon DEF IInv, TypeOK
<1>3. IsFiniteSet(leaving') /\ Cardinality(leaving') = Cardinality(leaving) - 1
  BY <1>1, <1>2, FS_RemoveElement, ZenonT(30)
<1>4. /\ OneInserts' /\ RemovalsArePaid'
      /\ Cardinality(In("add")') = Cardinality(In("add")) /\ Cardinality(In("add")) \in Nat
      /\ \A p : \A v \in WriteBack : (Writes(v, p)' <=> Writes(v, p)) /\ job'[v] = job[v]
  <2>1. entry' \subseteq entry
    BY <1>1, Zenon
  <2> QED  BY <1>1, <2>1, ListenerStep, Zenon
<1>5. SizeIsExplained'
  <2>1. repeats' = repeats /\ due' = due + 1 /\ size' = size /\ Cardinality(entry') = Cardinality(entry)
    BY <1>1, Zenon
  <2>2. Held' = Held + 0
    BY <1>2, <1>3, <2>1 DEF Held
  <2>3. Cardinality(In("add")') = Cardinality(In("add")) + 0 /\ 0 \in Int
    BY <1>4
  <2> QED  BY <2>1, <2>2, <2>3, SizeStays, Zenon
<1>6. TypeOK'
  <2>1. leaving' \in SUBSET Object
    BY <1>1, <1>2, Zenon
  <2>2. evicted' \in Seq(Object) /\ due' \in Nat
    BY <1>1, <1>2
  <2> QED  BY <1>1, <1>3, <2>1, <2>2, Zenon DEF IInv, TypeOK
<1>7. FilesAreOwned'
  BY <1>1, Zenon DEF IInv, FilesAreOwned, Created
<1>8. /\ evicted'[Len(evicted) + 1] = o /\ DOMAIN evicted' = DOMAIN evicted \cup {Len(evicted) + 1}
      /\ \A i \in DOMAIN evicted : evicted'[i] = evicted[i]
  BY <1>1, <1>2
<1>9. ASSUME NEW p \in Object \ crossed' PROVE InTurn(p)'
  <2>1. InTurn(p)
    BY <1>1, <1>9, Zenon DEF IInv
  <2>2. Deleting(p)' <=> Deleting(p)
    BY <1>1, <1>8, ZenonT(30) DEF Deleting
  <2>3. SentOnce(p)'
    BY <1>1, <1>8, <2>1, ZenonT(30) DEF InTurn, SentOnce
  <2> QED  BY <1>1, <1>4, <2>1, <2>2, <2>3, InTurnStays, ZenonT(30)
<1> QED  BY <1>4, <1>5, <1>6, <1>7, <1>9, Zenon DEF IInv

LEMMA SubtractIInv ==
    ASSUME IInv, Subtract
    PROVE  IInv'
<1>1. /\ due > 0 /\ due' = due - 1 /\ size' = (size + (-1)) % U64
      /\ UNCHANGED <<entry, local, Filled, truncator, stray, job, started, leaving, evicted, reader,
                     slots, heap, removals, remover, repeats, crossed>>
  <2>1. size - 1 = size + (-1)
    BY DataAssumption, Zenon DEF IInv, TypeOK
  <2> QED  BY <2>1, Zenon DEF Subtract, files, contents, Filled, recency
<1>2. Cardinality(entry) \in Nat /\ Cardinality(leaving) \in Nat /\ due \in Nat /\ repeats \in Nat
  BY HeldIs, Zenon DEF IInv
<1>3. /\ OneInserts' /\ RemovalsArePaid'
      /\ Cardinality(In("add")') = Cardinality(In("add")) /\ Cardinality(In("add")) \in Nat
      /\ \A p : \A v \in WriteBack : (Writes(v, p)' <=> Writes(v, p)) /\ job'[v] = job[v]
  <2>1. entry' \subseteq entry
    BY <1>1, Zenon
  <2> QED  BY <1>1, <2>1, ListenerStep, Zenon
<1>4. SizeIsExplained' /\ size' \in 0 .. U64 - 1
  <2> DEFINE n == -1
  <2>1. /\ repeats' = repeats /\ Cardinality(entry') = Cardinality(entry)
        /\ Cardinality(leaving') = Cardinality(leaving) /\ due' = due - 1
    BY <1>1, Zenon
  <2>2. n \in Int /\ size' = (size + n) % U64
    BY <1>1
  <2>3. Held' = Held + n
    BY <1>2, <2>1 DEF Held
  <2>4. Cardinality(In("add")') = Cardinality(In("add")) + n - n
    BY <1>3
  <2> HIDE DEF n
  <2> QED  BY <2>2, <2>3, <2>4, SizeStep, Zenon
<1>5. TypeOK'
  <2>1. due' \in Nat
    BY <1>1, <1>2
  <2> QED  BY <1>1, <1>4, <2>1, Zenon DEF IInv, TypeOK
<1>6. FilesAreOwned'
  BY <1>1, Zenon DEF IInv, FilesAreOwned, Created
<1>7. ASSUME NEW p \in Object \ crossed' PROVE InTurn(p)'
  <2>1. InTurn(p)
    BY <1>1, <1>7, Zenon DEF IInv
  <2>2. (Deleting(p)' <=> Deleting(p)) /\ SentOnce(p)'
    BY <1>1, <2>1, Zenon DEF Deleting, InTurn, SentOnce
  <2> QED  BY <1>1, <1>3, <2>1, <2>2, InTurnStays, ZenonT(30)
<1> QED  BY <1>3, <1>4, <1>5, <1>6, <1>7, Zenon DEF IInv

LEMMA DeleteIInv ==
    ASSUME IInv, Delete
    PROVE  IInv'
<1>1. PICK o : o = Head(evicted)
  BY Zenon
<1>2. /\ evicted # <<>> /\ evicted' = Tail(evicted) /\ Remove(o)
      /\ UNCHANGED <<entry, size, Filled, truncator, job, started, leaving, due, reader, slots, heap,
                     removals, remover, repeats, crossed>>
  BY <1>1, Zenon DEF Delete, contents, Filled, recency
<1>3. evicted \in Seq(Object) /\ o \in Object
  <2>1. evicted \in Seq(Object)
    BY Zenon DEF IInv, TypeOK
  <2> QED  BY <1>1, <1>2, <2>1
<1>4. /\ local' \in [Object -> WriteBack \cup {NoFile}] /\ stray' \in SUBSET Object
      /\ \A p \in Object : local'[p] \in {NoFile, local[p]} /\ (p \in stray => p \in stray')
      /\ \A p \in Object \ {o} : local'[p] = local[p]
      /\ local'[o] = NoFile \/ o \in stray'
  BY <1>2, <1>3, RemoveIs, Zenon
<1>5. /\ evicted' \in Seq(Object) /\ evicted[1] = o /\ 1 \in DOMAIN evicted
      /\ \A i \in DOMAIN evicted' : i + 1 \in DOMAIN evicted /\ evicted'[i] = evicted[i + 1] /\ i \in Nat \ {0}
      /\ \A i \in DOMAIN evicted \ {1} : i - 1 \in DOMAIN evicted' /\ evicted'[i - 1] = evicted[i]
  BY <1>1, <1>2, <1>3
<1>6. TypeOK'
  BY <1>2, <1>4, <1>5, Zenon DEF IInv, TypeOK
<1>7. FilesAreOwned'
  <2>1. /\ \A w \in WriteBack : w > started' => job'[w] = NoJob
        /\ \A f \in WriteBack : Created(f) => f <= started' /\ job'[f].step # "create"
        /\ \A w \in WriteBack : job'[w].step = "write" => job'[w] = job[w]
        /\ job' \in [WriteBack -> Job]
    BY <1>2, Zenon DEF IInv, TypeOK, FilesAreOwned, Created
  <2> QED  BY <1>2, <1>4, <2>1, OwnedStays, Zenon
<1>8. /\ OneInserts' /\ RemovalsArePaid'
      /\ Cardinality(In("add")') = Cardinality(In("add")) /\ Cardinality(In("add")) \in Nat
      /\ \A p : \A v \in WriteBack : (Writes(v, p)' <=> Writes(v, p)) /\ job'[v] = job[v]
  <2>1. entry' \subseteq entry
    BY <1>2, Zenon
  <2> QED  BY <1>2, <2>1, ListenerStep, Zenon
<1>9. ASSUME NEW p \in Object \ crossed' PROVE InTurn(p)'
  <2>1. InTurn(p)
    BY <1>2, <1>9, ZenonT(30) DEF IInv
  <2>2. SentOnce(p)'
    <3>1. ASSUME NEW i \in DOMAIN evicted', NEW j \in DOMAIN evicted',
                 evicted'[i] = p, evicted'[j] = p
          PROVE  i = j
      <4>1. /\ i + 1 \in DOMAIN evicted /\ evicted[i + 1] = p
            /\ j + 1 \in DOMAIN evicted /\ evicted[j + 1] = p
        BY <1>5, <3>1, Zenon
      <4>2. i + 1 = j + 1
        BY <2>1, <4>1, Zenon DEF InTurn, SentOnce
      <4>3. i \in Nat /\ j \in Nat
        BY <1>5, Zenon
      <4> QED  BY ONLY <4>2, <4>3
    <3>2. p \in leaving' => \A i \in DOMAIN evicted' : evicted'[i] # p
      <4> SUFFICES ASSUME p \in leaving, NEW i \in DOMAIN evicted', evicted'[i] = p PROVE FALSE
        BY <1>2, Zenon
      <4>1. i + 1 \in DOMAIN evicted /\ evicted[i + 1] = p
        BY <1>5, Zenon
      <4> QED  BY <2>1, <4>1, Zenon DEF InTurn, SentOnce
    <3> QED  BY <3>1, <3>2, Zenon DEF SentOnce
  <2>3. CASE p # o
    <3>1. Deleting(p)' <=> Deleting(p)
      BY <1>2, <1>5, <2>3, ZenonT(30) DEF Deleting
    <3>2. local'[p] = local[p]
      BY <1>4, <2>3, Zenon
    <3> QED  BY <1>2, <1>4, <1>8, <2>1, <2>2, <3>1, <3>2, InTurnStays, ZenonT(30)
  <2>4. CASE p = o
    <3>1. Deleting(p) /\ p \notin leaving
      BY <1>5, <2>1, <2>4, Zenon DEF Deleting, InTurn, SentOnce
    <3>2. ~Deleting(p)'
      <4> SUFFICES ASSUME NEW i \in DOMAIN evicted', evicted'[i] = p PROVE FALSE
        BY <1>2, <3>1, Zenon DEF Deleting
      <4>1. i + 1 = 1
        BY <1>5, <2>1, <2>4, ZenonT(30) DEF InTurn, SentOnce
      <4> QED  BY <1>5, <4>1
    <3>3. p \notin entry /\ (\A w \in WriteBack : ~Writes(w, p)) /\ ~Looked(p)
      BY <2>1, <3>1, ZenonT(30) DEF InTurn
    <3>4. local'[p] = NoFile \/ p \in stray'
      BY <1>4, <2>4, Zenon
    <3>5. /\ p \notin entry' /\ (\A w \in WriteBack : ~Writes(w, p)') /\ ~Looked(p)'
          /\ reader'.step = "read" /\ reader'.object = p /\ p \notin stray' => reader'.file \in Filled'
      BY <1>2, <1>4, <1>8, <2>1, <3>3, ZenonT(30) DEF InTurn, Looked
    <3> QED  BY <2>2, <3>2, <3>4, <3>5, ZenonT(30) DEF InTurn
  <2> QED  BY <2>3, <2>4, Zenon
<1>10. SizeIsExplained'
  BY <1>2, <1>8, Zenon DEF IInv, SizeIsExplained, In
<1> QED  BY <1>6, <1>7, <1>8, <1>9, <1>10, Zenon DEF IInv

\* A slot is added to the heap, wherever it goes.
LEMMA PushIs ==
    ASSUME NEW h \in Seq(Object), NEW o \in Object
    PROVE  Push(h, o) \in Seq(Object) /\ Len(Push(h, o)) = Len(h) + 1
<1> DEFINE S == {i \in 1 .. Len(h) : h[i] <= o}
           n == Cardinality(S)
<1>1. n \in Nat /\ n <= Len(h)
  <2>1. Len(h) \in Nat
    OBVIOUS
  <2>2. IsFiniteSet(1 .. Len(h)) /\ Cardinality(1 .. Len(h)) = Len(h)
    <3>1. 1 \in Int /\ Len(h) \in Int
      BY ONLY <2>1
    <3>2. /\ IsFiniteSet(1 .. Len(h))
          /\ Cardinality(1 .. Len(h)) = IF 1 > Len(h) THEN 0 ELSE Len(h) - 1 + 1
      BY <3>1, FS_Interval, Zenon
    <3>3. (IF 1 > Len(h) THEN 0 ELSE Len(h) - 1 + 1) = Len(h)
      BY ONLY <2>1
    <3> QED  BY ONLY <3>2, <3>3
  <2>3. S \in SUBSET (1 .. Len(h))
    BY Zenon
  <2> HIDE DEF S
  <2>4. IsFiniteSet(S) /\ Cardinality(S) <= Cardinality(1 .. Len(h))
    BY <2>2, <2>3, FS_Subset, ZenonT(30)
  <2>5. Cardinality(S) \in Nat
    BY <2>4, FS_CardinalityType, Zenon
  <2> QED  BY <2>2, <2>4, <2>5, Zenon
<1>2. Push(h, o) = SubSeq(h, 1, n) \o <<o>> \o SubSeq(h, n + 1, Len(h))
  BY Zenon DEF Push
<1> HIDE DEF n
<1>3. SubSeq(h, 1, n) \in Seq(Object) /\ Len(SubSeq(h, 1, n)) = n
  BY <1>1
<1>4. SubSeq(h, n + 1, Len(h)) \in Seq(Object) /\ Len(SubSeq(h, n + 1, Len(h))) = Len(h) - n
  BY <1>1
<1>5. <<o>> \in Seq(Object) /\ Len(<<o>>) = 1
  OBVIOUS
<1> DEFINE a == SubSeq(h, 1, n)
           b == SubSeq(h, n + 1, Len(h))
<1> HIDE DEF S, a, b
<1>6. a \in Seq(Object) /\ Len(a) = n /\ b \in Seq(Object) /\ Len(b) = Len(h) - n /\ Len(h) \in Nat
  BY <1>3, <1>4 DEF a, b
<1>7. a \o <<o>> \in Seq(Object) /\ Len(a \o <<o>>) = n + 1
  BY <1>1, <1>5, <1>6
<1>8. a \o <<o>> \o b \in Seq(Object) /\ Len(a \o <<o>> \o b) = Len(h) + 1
  BY <1>1, <1>6, <1>7
<1> QED  BY <1>2, <1>8, Zenon DEF a, b

\* The heap's tasks touch the heap, its channels and nothing else.
LEMMA HeapStep ==
    ASSUME IInv,
           UNCHANGED <<entry, size, local, Filled, truncator, stray, job, started, leaving, due, evicted, reader, repeats,
                       crossed>>,
           slots' \in Seq(Object), heap' \in Seq(Object), removals' \in Nat, RemovalsArePaid'
    PROVE  IInv'
<1>1. TypeOK' /\ FilesAreOwned'
  BY ZenonT(30) DEF IInv, TypeOK, FilesAreOwned, Created
<1>2. ASSUME NEW p \in Object \ crossed' PROVE InTurn(p)'
  <2>1. InTurn(p)
    BY <1>2, Zenon DEF IInv
  <2>2. (Deleting(p)' <=> Deleting(p)) /\ SentOnce(p)'
    BY <2>1, Zenon DEF InTurn, Deleting, SentOnce
  <2>3. \A v \in WriteBack : (Writes(v, p)' <=> Writes(v, p)) /\ job'[v] = job[v]
    BY Zenon DEF Writes
  <2> QED  BY <2>1, <2>2, <2>3, InTurnStays, ZenonT(30)
<1>3. OneInserts' /\ SizeIsExplained'
  BY Zenon DEF IInv, OneInserts, SizeIsExplained
<1> QED  BY <1>1, <1>2, <1>3, Zenon DEF IInv

\* The last chunk of a file changes nothing that the invariant tells apart.
LEMMA FlushIInv ==
    ASSUME IInv, NEW f \in WriteBack, Flush(f)
    PROVE  IInv'
<1>1. /\ Filled' = Filled
      /\ UNCHANGED <<entry, size, local, truncator, stray, job, started, leaving, due, evicted, reader,
                     slots, heap, removals, remover, repeats, crossed>>
  BY Zenon DEF Flush, Filled, eviction, recency
<1>2. slots' \in Seq(Object) /\ heap' \in Seq(Object) /\ removals' \in Nat /\ RemovalsArePaid'
  BY <1>1, Zenon DEF IInv, TypeOK, RemovalsArePaid, In
<1> QED  BY <1>1, <1>2, HeapStep, Zenon

LEMMA HeapInsertIInv ==
    ASSUME IInv, HeapInsert
    PROVE  IInv'
<1>1. /\ slots # <<>> /\ slots' = Tail(slots) /\ heap' = Push(heap, Head(slots))
      /\ UNCHANGED <<entry, size, local, Filled, truncator, stray, job, started, leaving, due, evicted, reader, removals,
                     remover, repeats, crossed>>
  BY Zenon DEF HeapInsert, files, contents, Filled, eviction
<1>2. slots \in Seq(Object) /\ heap \in Seq(Object) /\ removals \in Nat
  BY Zenon DEF IInv, TypeOK
<1>3. slots' \in Seq(Object) /\ Len(slots') = Len(slots) - 1 /\ Head(slots) \in Object
  BY <1>1, <1>2
<1>4. heap' \in Seq(Object) /\ Len(heap') = Len(heap) + 1
  BY <1>1, <1>2, <1>3, PushIs, Zenon
<1>5. RemovalsArePaid'
  <2>1. Len(heap) \in Nat /\ Len(slots) \in Nat
    BY ONLY <1>2
  <2>2. Len(heap') + Len(slots') = Len(heap) + Len(slots)
    BY ONLY <1>3, <1>4, <2>1
  <2>3. In("slot")' = In("slot")
    BY <1>1, Zenon DEF In
  <2> QED  BY <1>1, <2>2, <2>3, Zenon DEF IInv, RemovalsArePaid
<1> QED  BY <1>1, <1>2, <1>3, <1>4, <1>5, HeapStep, Zenon

LEMMA HeapRemoveIInv ==
    ASSUME IInv, HeapRemove
    PROVE  IInv'
<1>1. /\ remover = "runs" /\ removals > 0 /\ removals' = removals - 1
      /\ IF heap = <<>> THEN remover' = "panicked" /\ heap' = heap
         ELSE heap' = Tail(heap)
      /\ UNCHANGED <<entry, size, local, Filled, truncator, stray, job, started, leaving, due, evicted, reader, slots,
                     repeats, crossed>>
  BY Zenon DEF HeapRemove, files, contents, Filled, eviction
<1>2. slots \in Seq(Object) /\ heap \in Seq(Object) /\ removals \in Nat
  BY Zenon DEF IInv, TypeOK
<1>3. heap' \in Seq(Object) /\ removals' \in Nat
  BY <1>1, <1>2
<1>4. RemovalsArePaid'
  <2>1. CASE heap = <<>>
    BY <1>1, <2>1, Zenon DEF RemovalsArePaid
  <2>2. CASE heap # <<>>
    <3>1. Len(heap') = Len(heap) - 1 /\ Len(heap) \in Nat /\ Len(slots) \in Nat
      BY <1>1, <1>2, <2>2
    <3>2. In("slot")' = In("slot") /\ Cardinality(In("slot")) \in Nat
      BY <1>1, InCounts, ZenonT(30) DEF In
    <3>3. removals <= Len(heap) + Len(slots) + Cardinality(In("slot"))
      BY <1>1, Zenon DEF IInv, RemovalsArePaid
    <3>4. removals' <= Len(heap') + Len(slots') + Cardinality(In("slot")')
      BY <1>1, <1>2, <3>1, <3>2, <3>3
    <3> QED  BY <3>4, Zenon DEF RemovalsArePaid, In
  <2> QED  BY <2>1, <2>2, Zenon
<1> QED  BY <1>1, <1>2, <1>3, <1>4, HeapStep, Zenon

-----------------------------------------------------------------------------
(* The theorems.                                                           *)

LEMMA InitIInv == DataInit => IInv
<1> SUFFICES ASSUME DataInit PROVE IInv
  BY Zenon
<1>1. TypeOK
  <2>1. IsFiniteSet(entry) /\ IsFiniteSet(leaving)
    BY FS_EmptySet, Zenon DEF DataInit
  <2>2. size \in 0 .. U64 - 1
    BY DataAssumption DEF DataInit
  <2>3. NoJob \in Job /\ NoJob \in Reader
    BY Zenon DEF Job, Reader
  <2> QED  BY <2>1, <2>2, <2>3 DEF DataInit, TypeOK, NoFile, Filled
<1>2. \A w \in WriteBack : job[w] = NoJob /\ job[w].step = "idle"
  BY Zenon DEF DataInit, NoJob
<1>3. reader.step = "idle"
  BY Zenon DEF DataInit, NoJob
<1>4. FilesAreOwned
  BY <1>2, <1>3, Zenon DEF DataInit, FilesAreOwned
<1>5. ASSUME NEW o \in Object PROVE InTurn(o)
  BY <1>2, <1>3 DEF DataInit, InTurn, Writes, Deleting, Looked, SentOnce
<1>6. OneInserts
  BY <1>2, Zenon DEF OneInserts
<1>7. In("add") = {} /\ In("slot") = {}
  BY <1>2, Zenon DEF In
<1>8. SizeIsExplained
  <2>1. Cardinality({}) = 0 /\ size = 0 /\ entry = {} /\ leaving = {} /\ due = 0 /\ repeats = 0
    BY FS_EmptySet, Zenon DEF DataInit
  <2>2. Held = 0
    BY <2>1 DEF Held
  <2>3. size + Cardinality(In("add")) = Held
    BY <1>7, <2>1, <2>2
  <2> QED  BY <2>3, SizeIs, Zenon
<1>9. RemovalsArePaid
  <2>1. Cardinality({}) = 0 /\ removals = 0 /\ Len(heap) = 0 /\ Len(slots) = 0
    BY FS_EmptySet, Zenon DEF DataInit
  <2>2. Cardinality(In("slot")) = 0
    BY <1>7, <2>1, Zenon
  <2>3. removals <= Len(heap) + Len(slots) + Cardinality(In("slot"))
    BY ONLY <2>1, <2>2
  <2> QED  BY <2>3, Zenon DEF RemovalsArePaid
<1> QED  BY <1>1, <1>4, <1>5, <1>6, <1>8, <1>9, Zenon DEF IInv

LEMMA NextIInv == IInv /\ [DataNext]_dataVars => IInv'
<1> SUFFICES ASSUME IInv, [DataNext]_dataVars PROVE IInv'
  BY Zenon
<1>1. ASSUME NEW o \in Object, Miss(o) \/ Hit(o) \/ Evict(o) \/ SendEvicted(o) PROVE IInv'
  BY <1>1, MissIInv, HitIInv, EvictIInv, SendEvictedIInv, Zenon
<1>2. CASE Open
  BY <1>2, OpenIInv, Zenon
<1>3. CASE ReadStream
  BY <1>3, ReadIInv, Zenon
<1>4. ASSUME NEW w \in WriteBack, \/ Create(w) \/ CreateFails(w) \/ MoveFileToCache(w)
                                  \/ Write(w) \/ WriteFails(w) \/ Flush(w)
                                  \/ ShouldInsert(w) \/ Insert(w) \/ Add(w)
      PROVE  IInv'
  <2>1. CASE Create(w) \/ CreateFails(w) \/ MoveFileToCache(w)
    BY <2>1, CreateIInv, CreateFailsIInv, MoveFileToCacheIInv, Zenon
  <2>2. CASE Write(w) \/ WriteFails(w) \/ Flush(w)
    BY <2>2, WriteIInv, WriteFailsIInv, FlushIInv, Zenon
  <2>3. CASE ShouldInsert(w) \/ Insert(w) \/ Add(w)
    BY <2>3, ShouldInsertIInv, InsertIInv, AddIInv, Zenon
  <2> QED  BY <1>4, <2>1, <2>2, <2>3, Zenon
<1>5. CASE Subtract \/ Delete
  BY <1>5, SubtractIInv, DeleteIInv, Zenon
<1>6. CASE HeapInsert
  BY <1>6, HeapInsertIInv, Zenon
<1>7. CASE HeapRemove
  BY <1>7, HeapRemoveIInv, Zenon
<1>8. CASE UNCHANGED dataVars
  <2>1. UNCHANGED <<entry, size, local, Filled, truncator, stray, job, started, leaving, due, evicted, reader, slots, heap,
                    removals, remover, repeats, crossed>>
    BY <1>8, Zenon DEF dataVars, Filled
  <2>2. RemovalsArePaid' /\ slots' \in Seq(Object) /\ heap' \in Seq(Object) /\ removals' \in Nat
    BY <2>1, Zenon DEF IInv, TypeOK, RemovalsArePaid, In
  <2> QED  BY <2>1, <2>2, HeapStep, Zenon
<1> QED  BY <1>1, <1>2, <1>3, <1>4, <1>5, <1>6, <1>7, <1>8, ZenonT(30) DEF DataNext

\* In every state a data service reaches: a local file belongs to one object;
\* an object whose write-backs and evictions did not overlap goes through its
\* life in order, whichever file operations fail and whether or not last chunks
\* get to their files; or_insert lets one write-back in; the size is explained and
\* every removal asked of the heap is paid by a slot.
THEOREM InvariantHolds == DataSpec => []IInv
BY InitIInv, NextIInv, PTL DEF DataSpec

\* Once nothing is being written or deleted for an object, an entry has its file,
\* complete but perhaps for the last chunk that write_object does not wait for,
\* and a file has its entry unless an operation that failed left it, for any number
\* of objects and write-backs (write_back, the listener and the deleting task).
THEOREM EntriesHaveTheirFiles == DataSpec => []CachedIsStored
<1>1. IInv => CachedIsStored
  <2> SUFFICES ASSUME IInv, NEW o \in Object \ crossed, ~Writing(o), ~Deleting(o)
               PROVE  /\ o \in entry => local[o] \in Filled
                      /\ local[o] # NoFile => o \in entry \/ o \in stray
    BY Zenon DEF CachedIsStored
  <2>1. InTurn(o) /\ \A w \in WriteBack : ~Writes(w, o)
    BY WritingIs, Zenon DEF IInv, TypeOK
  <2> QED  BY <2>1, ZenonT(30) DEF InTurn
<1> QED  BY <1>1, InvariantHolds, PTL

\* GET /object sends whole objects, but perhaps for the last chunk, unless a
\* write-back overlapped another one or an eviction, or a file operation failed.
THEOREM SentObjectsAreWhole == DataSpec => []ReadsAreWhole
<1>1. IInv => ReadsAreWhole
  <2> SUFFICES ASSUME IInv, reader.step = "read", reader.object \notin crossed, reader.object \notin stray
               PROVE  reader.file \in Filled
    BY Zenon DEF ReadsAreWhole
  <2>1. reader.object \in Object
    BY DEF IInv, TypeOK, Reader, NoJob
  <2> QED  BY <2>1, Zenon DEF IInv, InTurn
<1> QED  BY <1>1, InvariantHolds, PTL

\* current_size, modulo its width, is what is cached or leaving, less what is still
\* to be added, plus one for each repeated insertion, which is never subtracted.
THEOREM TheSizeIsExplained == DataSpec => []SizeIsExplained
<1>1. IInv => SizeIsExplained
  BY Zenon DEF IInv
<1> QED  BY <1>1, InvariantHolds, PTL

\* The removing task panics only when it overtakes a slot on its way to the heap.
THEOREM OnlyOvertakingPanics == DataSpec => PanicIsExplained
<1> DEFINE Overtakes == slots # <<>> \/ \E w \in WriteBack : job[w].step = "slot"
<1>1. IInv /\ [DataNext]_dataVars => [remover' # remover => Overtakes]_dataVars
  <2> SUFFICES ASSUME IInv, DataNext, remover' # remover PROVE Overtakes
    BY Zenon DEF dataVars
  <2>1. HeapRemove
    BY ZenonT(60) DEF DataNext, Miss, Hit, Evict, SendEvicted, Subtract, Open, ReadStream, Create,
                      CreateFails, MoveFileToCache, Write, WriteFails, Flush, ShouldInsert, Insert,
                      Add, Delete, HeapInsert, recency
  <2>2. /\ remover = "runs" /\ removals > 0 /\ heap = <<>>
    BY <2>1, Zenon DEF HeapRemove
  <2>3. removals <= 0 + Len(slots) + Cardinality(In("slot")) /\ removals \in Nat /\ slots \in Seq(Object)
    BY <2>2, Zenon DEF IInv, TypeOK, RemovalsArePaid
  <2>4. CASE In("slot") = {}
    <3>1. Cardinality(In("slot")) = 0
      BY <2>4, FS_EmptySet, Zenon
    <3> QED  BY <2>2, <2>3, <3>1
  <2>5. CASE In("slot") # {}
    BY <2>5, Zenon DEF In
  <2> QED  BY <2>4, <2>5, Zenon
<1> QED  BY <1>1, InvariantHolds, PTL DEF DataSpec, PanicIsExplained
=============================================================================
