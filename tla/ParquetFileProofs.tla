-------------------------- MODULE ParquetFileProofs -------------------------
(***************************************************************************)
(* Proofs about the two modules that keep the parquet files of a cluster:  *)
(* ParquetFileCatalog, for any number of clients, files and batches and    *)
(* any cutoff, and GarbageCollector, for any set of objects, any cutoffs,  *)
(* and channels and batches of any size.                                   *)
(***************************************************************************)
EXTENDS ParquetFileCatalog, GarbageCollector, FiniteSetTheorems, WellFoundedInduction, TLAPS

(***************************************************************************)
(* ParquetFileCatalog.                                                     *)
(***************************************************************************)

File == [object_store_id : ObjectStoreId, data : SUBSET Batch]

Plan == [pc : {"idle", "planned"}, delete : SUBSET ObjectStoreId,
         upgrade : SUBSET ObjectStoreId, create : SUBSET File, since : Nat \cup {NoTime}]

TypeOK ==
    /\ now \in Nat
    /\ files \in SUBSET Row
    /\ plans \in [Client -> Plan]
    /\ used \in SUBSET ObjectStoreId
    /\ removed \in SUBSET ObjectStoreId
    /\ written \in SUBSET Batch
    /\ expired \in SUBSET Batch

-----------------------------------------------------------------------------
(* The inductive invariant.                                                *)

\* Object store ids name rows, are drawn before they are used, and are not those
\* of removed rows.
IdsAreUnique ==
    /\ \A r, s \in files : r.object_store_id = s.object_store_id => r = s
    /\ IdsOf(files) \cup removed \subseteq used
    /\ removed \cap IdsOf(files) = {}

\* The data of active rows is disjoint, was written, and is all that was written
\* and did not expire.
DataIsKept ==
    /\ \A r, s \in Active(files) : r # s => r.data \cap s.data = {}
    /\ \A r \in files : r.data \subseteq written
    /\ \A b \in written \ expired : \E r \in Active(files) : b \in r.data

\* The row that a commit with unknown outcome has made is still there, as long
\* as the client may repeat the commit.
StillThere(f, since) ==
    /\ since <= now /\ now <= since + Cutoff
    /\ \E r \in files : /\ r.object_store_id = f.object_store_id
                        /\ r.to_delete = NoTime \/ since <= r.to_delete

\* A plan holds the data of what it deletes, if that can still be deleted, or
\* else data that nobody has written; its file is not in the catalog before it
\* is committed.
PlanIsGood(c) ==
    LET p == plans[c]
    IN  \A f \in p.create :
          /\ f.object_store_id \in used
          /\ p.delete \subseteq IdsOf(files) \cup removed
          /\ p.since = NoTime =>
                /\ f.object_store_id \notin IdsOf(files) \cup removed
                /\ p.delete \subseteq IdsOf(Active(files)) /\ p.delete # {} =>
                      f.data = UNION {r.data : r \in {s \in files : s.object_store_id \in p.delete}}
                /\ p.delete = {} => f.data \cap written = {}
          /\ p.since # NoTime => StillThere(f, p.since)

\* Plans do not share files, and what one client is going to write no other has.
PlansAreApart ==
    \A c, d \in Client : c # d =>
        \A f \in plans[c].create, g \in plans[d].create :
            /\ f.object_store_id # g.object_store_id
            /\ plans[c].since = NoTime /\ plans[c].delete = {} => f.data \cap g.data = {}

OneFile ==
    \A c \in Client :
        /\ plans[c].pc = "planned" => plans[c].create # {}
        /\ \A f, g \in plans[c].create : f = g

IInv ==
    /\ TypeOK
    /\ IdsAreUnique
    /\ DataIsKept
    /\ \A c \in Client : PlanIsGood(c)
    /\ PlansAreApart
    /\ OneFile

-----------------------------------------------------------------------------
(* Rows and plans.                                                         *)

LEMMA RowFields ==
    ASSUME NEW r \in Row
    PROVE  /\ r.object_store_id \in ObjectStoreId
           /\ r.to_delete \in Nat \cup {NoTime}
           /\ r.data \in SUBSET Batch
BY Zenon DEF Row

LEMMA PlanFields ==
    ASSUME NEW p \in Plan
    PROVE  /\ p.delete \in SUBSET ObjectStoreId
           /\ p.create \in SUBSET File
           /\ p.since \in Nat \cup {NoTime}
BY Zenon DEF Plan

LEMMA IdsAre ==
    ASSUME NEW S, NEW i
    PROVE  i \in IdsOf(S) <=> \E r \in S : r.object_store_id = i
BY Zenon DEF IdsOf

LEMMA SameElements ==
    ASSUME NEW S, NEW T, \A i : i \in S <=> i \in T
    PROVE  S = T
BY Zenon

LEMMA NewRowIs ==
    ASSUME NEW f \in File
    PROVE  /\ NewRow(f) \in Row
           /\ NewRow(f).object_store_id = f.object_store_id
           /\ NewRow(f).to_delete = NoTime
           /\ NewRow(f).data = f.data
BY DEF NewRow, File, Row, Level

\* A row after some were flagged and some upgraded.
Turned(r, s, D) ==
    /\ s.object_store_id = r.object_store_id
    /\ s.data = r.data
    /\ s.to_delete = IF r.object_store_id \in D THEN now ELSE r.to_delete

LEMMA FlagRowIs ==
    ASSUME now \in Nat, NEW r \in Row, NEW D
    PROVE  FlagRow(r, D) \in Row /\ Turned(r, FlagRow(r, D), D)
<1>1. CASE r.object_store_id \in D
  <2>1. FlagRow(r, D) = [r EXCEPT !.to_delete = now]
    BY <1>1, Zenon DEF FlagRow
  <2> QED  BY <1>1, <2>1, Zenon DEF Row, Turned
<1>2. CASE r.object_store_id \notin D
  BY <1>2, Zenon DEF FlagRow, Turned
<1> QED  BY <1>1, <1>2, Zenon

LEMMA UpgradeRowIs ==
    ASSUME NEW r \in Row, NEW U
    PROVE  /\ UpgradeRow(r, U) \in Row
           /\ UpgradeRow(r, U).object_store_id = r.object_store_id
           /\ UpgradeRow(r, U).data = r.data
           /\ UpgradeRow(r, U).to_delete = r.to_delete
<1>1. CASE r.object_store_id \in U
  <2>1. UpgradeRow(r, U) = [r EXCEPT !.level = 1]
    BY <1>1, Zenon DEF UpgradeRow
  <2> QED  BY <1>1, <2>1 DEF Row, Level
<1>2. CASE r.object_store_id \notin U
  BY <1>2, Zenon DEF UpgradeRow
<1> QED  BY <1>1, <1>2, Zenon

\* The rows after some were flagged and some upgraded.
LEMMA Changed ==
    ASSUME TypeOK, \A r, s \in files : r.object_store_id = s.object_store_id => r = s,
           NEW D, NEW U, NEW G, G = Upgraded(Flagged(files, D), U)
    PROVE  /\ G \subseteq Row
           /\ IdsOf(G) = IdsOf(files)
           /\ \A r \in files : \E s \in G : Turned(r, s, D)
           /\ \A s \in G : \E r \in files : Turned(r, s, D)
           /\ \A s, t \in G : s.object_store_id = t.object_store_id => s = t
<1> DEFINE M(r) == UpgradeRow(FlagRow(r, D), U)
<1>1. G = {M(r) : r \in files}
  BY Zenon DEF Upgraded, Flagged
<1>2. ASSUME NEW r \in files
      PROVE  M(r) \in Row /\ Turned(r, M(r), D)
  <2>1. r \in Row /\ now \in Nat
    BY Zenon DEF TypeOK
  <2> QED  BY <2>1, FlagRowIs, UpgradeRowIs DEF Turned
<1> HIDE DEF M
<1>3. G \subseteq Row
  BY <1>1, <1>2, Zenon
<1>4. /\ \A r \in files : \E s \in G : Turned(r, s, D)
      /\ \A s \in G : \E r \in files : Turned(r, s, D)
  BY <1>1, <1>2, Zenon
<1>5. IdsOf(G) = IdsOf(files)
  <2>1. \A i : i \in IdsOf(G) <=> i \in IdsOf(files)
    BY <1>4, IdsAre DEF Turned
  <2> QED  BY <2>1, Zenon DEF IdsOf
<1>6. \A s, t \in G : s.object_store_id = t.object_store_id => s = t
  BY <1>1, <1>2 DEF Turned
<1> QED  BY <1>3, <1>4, <1>5, <1>6, Zenon

-----------------------------------------------------------------------------
(* The plans of the clients that do not take the step.                     *)

\* A row and what a step makes of it.
Succ(r, s) ==
    /\ s.object_store_id = r.object_store_id
    /\ s.data = r.data
    /\ s.to_delete = r.to_delete \/ (r.to_delete = NoTime /\ s.to_delete = now)

\* A step adds rows with ids of N, which are new, and removes old ones.
Evolves(N) ==
    /\ \A s \in files' : s.object_store_id \in N \/ \E r \in files : Succ(r, s)
    /\ \A r \in files : \/ \E s \in files' : Succ(r, s)
                        \/ OldRow(r) /\ r.object_store_id \in removed'
    /\ removed \subseteq removed' /\ removed' \subseteq removed \cup IdsOf(files)
    /\ N \cap (IdsOf(files) \cup removed) = {}
    /\ now' = now /\ used \subseteq used'

LEMMA PlanStays ==
    ASSUME TypeOK, TypeOK', IdsAreUnique', NEW N, Evolves(N), NEW c \in Client,
           plans'[c] = plans[c], PlanIsGood(c),
           \A f \in plans[c].create :
              /\ f.object_store_id \notin N
              /\ plans[c].since = NoTime /\ plans[c].delete = {} => f.data \cap written' = {}
    PROVE  PlanIsGood(c)'
<1> DEFINE p == plans[c]
           D == p.delete
<1> SUFFICES ASSUME NEW f \in p.create
             PROVE  /\ f.object_store_id \in used'
                    /\ D \subseteq IdsOf(files') \cup removed'
                    /\ p.since = NoTime =>
                          /\ f.object_store_id \notin IdsOf(files') \cup removed'
                          /\ D \subseteq IdsOf(Active(files')) /\ D # {} =>
                                f.data = UNION {r.data : r \in {s \in files' : s.object_store_id \in D}}
                          /\ D = {} => f.data \cap written' = {}
                    /\ p.since # NoTime => StillThere(f, plans[c].since)'
  BY Zenon DEF PlanIsGood
<1>1. f.object_store_id \in used'
  BY Zenon DEF PlanIsGood, Evolves
<1>2. D \subseteq IdsOf(files') \cup removed'
  BY IdsAre DEF PlanIsGood, Evolves, Succ
<1>3. ASSUME p.since = NoTime
      PROVE  f.object_store_id \notin IdsOf(files') \cup removed'
  BY <1>3, IdsAre DEF PlanIsGood, Evolves, Succ
<1>4. ASSUME p.since = NoTime, D \subseteq IdsOf(Active(files')), D # {}
      PROVE  f.data = UNION {r.data : r \in {s \in files' : s.object_store_id \in D}}
  <2>1. D \subseteq IdsOf(files) \cup removed /\ D \cap N = {}
    BY Zenon DEF PlanIsGood, Evolves
  <2>2. now # NoTime
    BY CatalogAssumption, Zenon DEF TypeOK
  <2>3. ASSUME NEW i \in D PROVE i \in IdsOf(Active(files))
    <3>1. PICK s \in files' : s.object_store_id = i /\ s.to_delete = NoTime
      BY <1>4, Zenon DEF Active, IdsOf
    <3>2. PICK r \in files : Succ(r, s)
      BY <2>1, <3>1, Zenon DEF Evolves
    <3> QED  BY <2>2, <3>1, <3>2, IdsAre, Zenon DEF Succ, Active
  <2>4. f.data = UNION {r.data : r \in {s \in files : s.object_store_id \in D}}
    BY <1>4, <2>3, Zenon DEF PlanIsGood
  <2>5. ASSUME NEW s \in files', s.object_store_id \in D
        PROVE  \E r \in files : r.object_store_id \in D /\ r.data = s.data
    BY <2>1, <2>5, Zenon DEF Evolves, Succ
  <2>6. ASSUME NEW r \in files, r.object_store_id \in D
        PROVE  \E s \in files' : s.object_store_id \in D /\ s.data = r.data
    <3>1. r.object_store_id \notin removed'
      <4>1. r.object_store_id \in IdsOf(files')
        BY <1>4, <2>6, Zenon DEF Active, IdsOf
      <4> QED  BY <4>1, Zenon DEF IdsAreUnique
    <3> QED  BY <2>6, <3>1, Zenon DEF Evolves, Succ
  <2> QED  BY <2>4, <2>5, <2>6
<1>5. ASSUME p.since # NoTime
      PROVE  StillThere(f, plans[c].since)'
  <2>1. p.since \in Nat /\ now \in Nat /\ Cutoff \in Nat /\ now' = now
    BY <1>5, PlanFields, CatalogAssumption, Zenon DEF TypeOK, Evolves
  <2>2. p.since <= now /\ now <= p.since + Cutoff
    BY <1>5, Zenon DEF PlanIsGood, StillThere
  <2>3. PICK r \in files : /\ r.object_store_id = f.object_store_id
                           /\ r.to_delete = NoTime \/ p.since <= r.to_delete
    BY <1>5, Zenon DEF PlanIsGood, StillThere
  <2>4. r.to_delete \in Nat \cup {NoTime}
    BY RowFields, Zenon DEF TypeOK
  <2>5. ~OldRow(r)
    BY <2>1, <2>2, <2>3, <2>4 DEF OldRow
  <2>6. PICK s \in files' : Succ(r, s)
    BY <2>5, Zenon DEF Evolves
  <2>7. s.object_store_id = f.object_store_id /\ (s.to_delete = NoTime \/ p.since <= s.to_delete)
    BY <2>2, <2>3, <2>6, Zenon DEF Succ
  <2> QED  BY <2>1, <2>2, <2>7, Zenon DEF StillThere
<1>6. ASSUME p.since = NoTime, D = {}
      PROVE  f.data \cap written' = {}
  BY <1>6, Zenon
<1> QED  BY <1>1, <1>2, <1>3, <1>4, <1>5, <1>6, Zenon

-----------------------------------------------------------------------------
(* A commit.                                                               *)

\* What create_upgrade_delete returns, if it does not fail.
LEMMA CommitIs ==
    ASSUME NEW D, NEW U, NEW C, NEW f \in CreateUpgradeDelete(D, U, C)
    PROVE  /\ D \subseteq IdsOf(Active(files))
           /\ IdsOf(C) \cap IdsOf(Upgraded(Flagged(files, D), U)) = {}
           /\ f = Upgraded(Flagged(files, D), U) \cup {NewRow(x) : x \in C}
BY DEF CreateUpgradeDelete, FlagForDelete, UpdateCompactionLevel, CreateParquetFile

\* What a step of client c, whose file is x, makes of the catalog when its
\* commit takes effect: G are the rows that were there.
Committed(c, x, G) ==
    LET D == plans[c].delete
    IN  /\ plans[c].create = {x}
        /\ plans[c].since = NoTime
        /\ D \subseteq IdsOf(Active(files))
        /\ G \subseteq Row
        /\ IdsOf(G) = IdsOf(files)
        /\ \A r \in files : \E s \in G : Turned(r, s, D)
        /\ \A s \in G : \E r \in files : Turned(r, s, D)
        /\ \A s, t \in G : s.object_store_id = t.object_store_id => s = t
        /\ files' = G \cup {NewRow(x)}
        /\ written' = written \cup x.data
        /\ UNCHANGED <<now, used, expired, removed>>

LEMMA CommitStep ==
    ASSUME IInv, NEW c \in Client, Commit(c)
    PROVE  \E x \in File, G \in SUBSET Row : Committed(c, x, G)
<1> DEFINE p == plans[c]
           G == Upgraded(Flagged(files, p.delete), p.upgrade)
<1>1. p \in Plan /\ p.pc = "planned"
  BY Zenon DEF IInv, TypeOK, Commit
<1>2. PICK x \in p.create : p.create = {x}
  BY <1>1 DEF IInv, OneFile
<1>3. x \in File
  BY <1>1, <1>2, PlanFields, Zenon
<1>4. files' \in CreateUpgradeDelete(p.delete, p.upgrade, p.create)
  BY Zenon DEF Commit
<1>5. /\ p.delete \subseteq IdsOf(Active(files))
      /\ IdsOf(p.create) \cap IdsOf(G) = {}
      /\ files' = G \cup {NewRow(y) : y \in p.create}
  BY <1>4, CommitIs
<1>6. files' = G \cup {NewRow(x)}
  BY <1>2, <1>5, Zenon
<1>7. /\ G \subseteq Row
      /\ IdsOf(G) = IdsOf(files)
      /\ \A r \in files : \E s \in G : Turned(r, s, p.delete)
      /\ \A s \in G : \E r \in files : Turned(r, s, p.delete)
      /\ \A s, t \in G : s.object_store_id = t.object_store_id => s = t
  BY Changed DEF IInv, IdsAreUnique
<1> HIDE DEF G
<1>8. p.since = NoTime
  <2>1. x.object_store_id \in IdsOf(p.create)
    BY <1>2, Zenon DEF IdsOf
  <2>2. x.object_store_id \notin IdsOf(files)
    BY <1>5, <1>7, <2>1, Zenon
  <2>3. PlanIsGood(c)
    BY Zenon DEF IInv
  <2> QED  BY <2>2, <2>3, IdsAre, Zenon DEF PlanIsGood, StillThere
<1>9. /\ written' = written \cup x.data
      /\ UNCHANGED <<now, used, expired, removed>>
  BY <1>2, Zenon DEF Commit
<1> QED  BY <1>2, <1>3, <1>5, <1>6, <1>7, <1>8, <1>9, Zenon DEF Committed

LEMMA CommitPlans ==
    ASSUME TypeOK, NEW c \in Client, Commit(c)
    PROVE  /\ plans'[c] = Idle \/ plans'[c] = [plans[c] EXCEPT !.since = now]
           /\ \A d \in Client : d # c => plans'[d] = plans[d]
           /\ plans' \in [Client -> Plan]
<1>1. Idle \in Plan /\ plans[c] \in Plan /\ now \in Nat /\ plans \in [Client -> Plan]
  BY Zenon DEF TypeOK, Idle, Plan
<1>2. [plans[c] EXCEPT !.since = now] \in Plan
  BY <1>1, Zenon DEF Plan
<1>3. CASE plans' = [plans EXCEPT ![c] = Idle]
  BY <1>1, <1>3, Zenon
<1>4. CASE plans' = [plans EXCEPT ![c].since = now]
  BY <1>1, <1>2, <1>4, Zenon
<1> QED  BY <1>3, <1>4, Zenon DEF Commit, Forgets

\* The ids of the rows after a commit.
LEMMA CommitIds ==
    ASSUME IInv, NEW c \in Client, NEW x \in File, NEW G \in SUBSET Row, Committed(c, x, G)
    PROVE  /\ IdsOf(files') = IdsOf(files) \cup {x.object_store_id}
           /\ x.object_store_id \notin IdsOf(files) \cup removed
           /\ x.object_store_id \in used
           /\ NewRow(x) \in Row
           /\ IdsAreUnique'
<1>1. x.object_store_id \notin IdsOf(files) \cup removed /\ x.object_store_id \in used
  BY Zenon DEF IInv, PlanIsGood, Committed
<1>2. /\ NewRow(x) \in Row
      /\ NewRow(x).object_store_id = x.object_store_id
  BY NewRowIs, Zenon
<1>3. IdsOf(files') = IdsOf(files) \cup {x.object_store_id}
  <2>1. files' = G \cup {NewRow(x)} /\ IdsOf(G) = IdsOf(files)
    BY Zenon DEF Committed
  <2>2. \A i : i \in IdsOf(files') <=> i \in IdsOf(G) \/ i = NewRow(x).object_store_id
    BY <2>1, IdsAre
  <2>3. \A i : i \in IdsOf(files') <=> i \in IdsOf(files) \cup {x.object_store_id}
    BY <1>2, <2>1, <2>2, Zenon
  <2> QED  BY ONLY Zenon, <2>3, SameElements
<1>4. \A s \in G : s.object_store_id # x.object_store_id
  BY <1>1, IdsAre, Zenon DEF Committed
<1>5. \A s, t \in files' : s.object_store_id = t.object_store_id => s = t
  BY <1>2, <1>4, Zenon DEF Committed
<1>6. /\ IdsOf(files) \cup removed \subseteq used
      /\ removed \cap IdsOf(files) = {}
      /\ used' = used /\ removed' = removed
  BY Zenon DEF IInv, IdsAreUnique, Committed
<1>7. /\ IdsOf(files') \cup removed' \subseteq used'
      /\ removed' \cap IdsOf(files') = {}
  BY <1>1, <1>3, <1>6, Zenon
<1>8. IdsAreUnique'
  BY <1>5, <1>7, Zenon DEF IdsAreUnique
<1> QED  BY <1>1, <1>2, <1>3, <1>8, Zenon

\* The data of the active rows after a commit.
LEMMA CommitData ==
    ASSUME IInv, NEW c \in Client, NEW x \in File, NEW G \in SUBSET Row, Committed(c, x, G)
    PROVE  DataIsKept'
<1> DEFINE D == plans[c].delete
           n == NewRow(x)
<1>1. /\ \A r \in files : \E s \in G : Turned(r, s, D)
      /\ \A s \in G : \E r \in files : Turned(r, s, D)
      /\ \A s, t \in G : s.object_store_id = t.object_store_id => s = t
      /\ files' = G \cup {n}
      /\ written' = written \cup x.data
      /\ expired' = expired /\ now' = now
      /\ D \subseteq IdsOf(Active(files))
  BY Zenon DEF Committed
<1>2. n.to_delete = NoTime /\ n.data = x.data
  BY NewRowIs, Zenon
<1>3. now # NoTime
  BY CatalogAssumption, Zenon DEF IInv, TypeOK
<1>4. /\ \A r, s \in Active(files) : r # s => r.data \cap s.data = {}
      /\ \A r \in files : r.data \subseteq written
      /\ \A b \in written \ expired : \E r \in Active(files) : b \in r.data
      /\ \A r, s \in files : r.object_store_id = s.object_store_id => r = s
  BY Zenon DEF IInv, DataIsKept, IdsAreUnique
<1>5. /\ D # {} => x.data = UNION {r.data : r \in {s \in files : s.object_store_id \in D}}
      /\ D = {} => x.data \cap written = {}
  BY <1>1, Zenon DEF IInv, PlanIsGood, Committed
<1> HIDE DEF D, n
<1>6. ASSUME NEW s \in G, s.to_delete = NoTime
      PROVE  \E r \in Active(files) : /\ r.object_store_id \notin D
                                      /\ r.object_store_id = s.object_store_id
                                      /\ r.data = s.data
  BY <1>1, <1>3, <1>6, Zenon DEF Turned, Active
<1>7. ASSUME NEW r \in Active(files), r.object_store_id \notin D
      PROVE  \E s \in G : s.to_delete = NoTime /\ s.data = r.data
  BY <1>1, <1>7 DEF Turned, Active
<1>8. ASSUME NEW r \in files, r.object_store_id \in D
      PROVE  r \in Active(files)
  <2>1. PICK a \in Active(files) : a.object_store_id = r.object_store_id
    BY <1>1, <1>8, IdsAre, Zenon
  <2> QED  BY <1>4, <2>1, Zenon DEF Active
<1>9. ASSUME NEW s \in G, s.to_delete = NoTime
      PROVE  s.data \cap n.data = {}
  <2>1. PICK r \in Active(files) : r.object_store_id \notin D /\ r.data = s.data
    BY <1>6, <1>9, Zenon
  <2>2. CASE D = {}
    BY <1>2, <1>4, <1>5, <2>1, <2>2, Zenon DEF Active
  <2>3. CASE D # {}
    <3>1. ASSUME NEW b \in r.data \cap x.data PROVE FALSE
      <4>1. PICK q \in files : q.object_store_id \in D /\ b \in q.data
        BY <1>5, <2>3, <3>1
      <4>2. q \in Active(files) /\ q # r
        BY <1>8, <2>1, <4>1, Zenon
      <4> QED  BY <1>4, <3>1, <4>1, <4>2, Zenon
    <3> QED  BY <1>2, <2>1, <3>1, Zenon
  <2> QED  BY <2>2, <2>3, Zenon
<1>10. ASSUME NEW s \in G, s.to_delete = NoTime, NEW t \in G, t.to_delete = NoTime, s # t
       PROVE  s.data \cap t.data = {}
  <2>1. PICK r \in Active(files) : r.object_store_id = s.object_store_id /\ r.data = s.data
    BY <1>6, <1>10, Zenon
  <2>2. PICK q \in Active(files) : q.object_store_id = t.object_store_id /\ q.data = t.data
    BY <1>6, <1>10, Zenon
  <2>3. r # q
    BY <1>1, <1>10, <2>1, <2>2, Zenon
  <2> QED  BY <1>4, <2>1, <2>2, <2>3, Zenon
<1>11. \A r, s \in Active(files') : r # s => r.data \cap s.data = {}
  BY <1>1, <1>9, <1>10, Zenon DEF Active
<1>12. \A s \in files' : s.data \subseteq written'
  BY <1>1, <1>2, <1>4 DEF Turned
<1>13. ASSUME NEW b \in written' \ expired'
       PROVE  \E r \in Active(files') : b \in r.data
  <2>1. CASE b \in x.data
    BY <1>1, <1>2, <2>1, Zenon DEF Active
  <2>2. CASE b \notin x.data
    <3>1. PICK r \in Active(files) : b \in r.data
      BY <1>1, <1>4, <1>13, <2>2, Zenon
    <3>2. r.object_store_id \notin D
      BY <1>5, <2>2, <3>1, Zenon DEF Active
    <3> QED  BY <1>1, <1>7, <3>1, <3>2, Zenon DEF Active
  <2> QED  BY <2>1, <2>2, Zenon
<1> QED  BY <1>11, <1>12, <1>13, Zenon DEF DataIsKept

\* The plans after a commit.
LEMMA CommitOthers ==
    ASSUME IInv, NEW c \in Client, Commit(c), TypeOK', NEW x \in File,
           NEW G \in SUBSET Row, Committed(c, x, G), IdsAreUnique',
           NEW d \in Client
    PROVE  PlanIsGood(d)'
<1>0. ASSUME NEW r \in files, r.object_store_id \in plans[c].delete
      PROVE  r.to_delete = NoTime
  <2>1. r.object_store_id \in IdsOf(Active(files))
    BY <1>0, Zenon DEF Committed
  <2>2. PICK a \in Active(files) : a.object_store_id = r.object_store_id
    BY <2>1, IdsAre, Zenon
  <2> QED  BY <2>2, Zenon DEF IInv, IdsAreUnique, Active
<1>1. CASE d # c
  <2>1. Evolves({x.object_store_id})
    <3>1. \A s \in files' : s.object_store_id \in {x.object_store_id} \/ \E r \in files : Succ(r, s)
      <4>1. ASSUME NEW s \in G PROVE \E r \in files : Succ(r, s)
        <5>1. PICK r \in files : Turned(r, s, plans[c].delete)
          BY Zenon DEF Committed
        <5>2. r.object_store_id \in plans[c].delete => r.to_delete = NoTime
          BY <1>0, Zenon
        <5> QED  BY <5>1, <5>2, Zenon DEF Turned, Succ
      <4> QED  BY <4>1, NewRowIs, Zenon DEF Committed
    <3>2. ASSUME NEW r \in files PROVE \E s \in files' : Succ(r, s)
      <4>1. PICK s \in G : Turned(r, s, plans[c].delete)
        BY Zenon DEF Committed
      <4>2. r.object_store_id \in plans[c].delete => r.to_delete = NoTime
        BY <1>0, Zenon
      <4> QED  BY <4>1, <4>2, Zenon DEF Turned, Succ, Committed
    <3>3. {x.object_store_id} \cap (IdsOf(files) \cup removed) = {}
      BY CommitIds, Zenon
    <3> QED  BY <3>1, <3>2, <3>3, Zenon DEF Evolves, Committed
  <2>2. plans'[d] = plans[d] /\ TypeOK /\ PlanIsGood(d)
    BY <1>1, CommitPlans, Zenon DEF IInv
  <2>3. ASSUME NEW f \in plans[d].create
        PROVE  /\ f.object_store_id \notin {x.object_store_id}
               /\ plans[d].since = NoTime /\ plans[d].delete = {} => f.data \cap written' = {}
    <3>1. /\ f.object_store_id # x.object_store_id
          /\ plans[d].since = NoTime /\ plans[d].delete = {} => f.data \cap x.data = {}
      BY <1>1, Zenon DEF IInv, PlansAreApart, Committed
    <3>2. plans[d].since = NoTime /\ plans[d].delete = {} => f.data \cap written = {}
      BY Zenon DEF IInv, PlanIsGood
    <3> QED  BY <3>1, <3>2, Zenon DEF Committed
  <2> QED  BY <2>1, <2>2, <2>3, PlanStays, Zenon
<1>2. CASE d = c /\ plans'[c] = Idle
  BY <1>2 DEF Idle, PlanIsGood
<1>3. CASE d = c /\ plans'[c] = [plans[c] EXCEPT !.since = now]
  <2>1. plans[c] \in Plan /\ now \in Nat /\ now # NoTime /\ Cutoff \in Nat
    BY CatalogAssumption, Zenon DEF IInv, TypeOK
  <2>2. /\ plans'[c].since = now
        /\ plans'[c].create = {x}
        /\ plans'[c].delete = plans[c].delete
    BY <1>3, <2>1, Zenon DEF Plan, Committed
  <2>3. /\ x.object_store_id \in used'
        /\ IdsOf(files) \subseteq IdsOf(files')
    BY CommitIds, Zenon DEF Committed
  <2>4. plans[c].delete \subseteq IdsOf(files') \cup removed'
    BY <2>3, Zenon DEF IInv, PlanIsGood, Committed
  <2>5. now' = now /\ NewRow(x) \in files'
    BY Zenon DEF Committed
  <2>6. StillThere(x, now)'
    BY <2>1, <2>5, NewRowIs DEF StillThere
  <2> QED  BY <1>3, <2>1, <2>2, <2>3, <2>4, <2>5, <2>6, Zenon DEF PlanIsGood, StillThere
<1> QED  BY <1>1, <1>2, <1>3, CommitPlans, Zenon DEF IInv

LEMMA CommitIInv ==
    ASSUME IInv, NEW c \in Client, Commit(c)
    PROVE  IInv'
<1>1. PICK x \in File, G \in SUBSET Row : Committed(c, x, G)
  BY CommitStep, Zenon
<1>2. IdsAreUnique' /\ DataIsKept'
  BY <1>1, CommitIds, CommitData, Zenon
<1>3. /\ plans'[c] = Idle \/ plans'[c] = [plans[c] EXCEPT !.since = now]
      /\ \A d \in Client : d # c => plans'[d] = plans[d]
      /\ plans' \in [Client -> Plan]
  BY CommitPlans, Zenon DEF IInv
<1>4. TypeOK'
  BY <1>1, <1>3, NewRowIs, Zenon DEF IInv, TypeOK, Committed, File
<1>5. \A d \in Client : PlanIsGood(d)'
  BY <1>1, <1>2, <1>4, CommitOthers, Zenon
<1>6. /\ plans'[c].create \subseteq plans[c].create
      /\ plans'[c].since = NoTime => plans'[c].create = {}
      /\ plans'[c].pc = "planned" => plans'[c].create = plans[c].create
  <2>1. plans[c] \in Plan /\ now # NoTime /\ plans[c].pc = "planned"
    BY CatalogAssumption, Zenon DEF IInv, TypeOK, Commit
  <2> QED  BY <1>3, <2>1 DEF Idle, Plan
<1>7. PlansAreApart'
  BY <1>3, <1>6 DEF IInv, PlansAreApart
<1>8. OneFile'
  <2>1. plans[c].pc = "planned" /\ OneFile
    BY Zenon DEF IInv, Commit
  <2> QED  BY <1>3, <1>6, <2>1 DEF OneFile
<1> QED  BY <1>2, <1>4, <1>5, <1>7, <1>8, Zenon DEF IInv

-----------------------------------------------------------------------------
(* The other steps of a client.                                            *)

\* A step of client c that changes neither rows nor clock, and makes it a plan
\* that is good, and apart from those of the others.
LEMMA NewPlan ==
    ASSUME IInv, NEW c \in Client, NEW p \in Plan, plans' = [plans EXCEPT ![c] = p],
           UNCHANGED <<now, files, written, expired, removed>>,
           used \subseteq used', used' \in SUBSET ObjectStoreId, PlanIsGood(c)',
           p.pc = "planned" => p.create # {},
           \A f, g \in p.create : f = g,
           \A d \in Client : d # c =>
              \A f \in plans[d].create, g \in p.create :
                 /\ f.object_store_id # g.object_store_id
                 /\ \/ plans[d].since = NoTime /\ plans[d].delete = {}
                    \/ p.since = NoTime /\ p.delete = {}
                    => f.data \cap g.data = {}
    PROVE  IInv'
<1>1. plans' \in [Client -> Plan] /\ plans'[c] = p
  BY DEF IInv, TypeOK
<1>2. \A d \in Client : d # c => plans'[d] = plans[d]
  BY DEF IInv, TypeOK
<1>3. TypeOK'
  BY <1>1, Zenon DEF IInv, TypeOK
<1>4. IdsAreUnique' /\ DataIsKept'
  BY Zenon DEF IInv, IdsAreUnique, DataIsKept, Active, IdsOf
<1>5. ASSUME NEW d \in Client, d # c PROVE PlanIsGood(d)'
  <2>1. PlanIsGood(d) /\ plans'[d] = plans[d]
    BY <1>2, <1>5, Zenon DEF IInv
  <2> QED  BY <2>1 DEF PlanIsGood, StillThere, Active, IdsOf
<1>6. PlansAreApart'
  BY <1>1, <1>2 DEF IInv, PlansAreApart
<1>7. OneFile'
  BY <1>1, <1>2 DEF IInv, OneFile
<1> QED  BY <1>3, <1>4, <1>5, <1>6, <1>7, Zenon DEF IInv

LEMMA PlanWriteIInv ==
    ASSUME IInv, NEW c \in Client, NEW o \in ObjectStoreId, NEW b \in Batch, PlanWrite(c, o, b)
    PROVE  IInv'
<1> DEFINE x == [object_store_id |-> o, data |-> {b}]
           p == Planned({}, {}, {x})
<1>1. x \in File /\ x.object_store_id = o /\ x.data = {b}
  BY Zenon DEF File
<1>2. /\ plans' = [plans EXCEPT ![c] = p]
      /\ used' = used \cup {o}
      /\ UNCHANGED <<now, files, written, expired, removed>>
      /\ o \notin used /\ b \notin written
      /\ \A d \in Client : \A f \in plans[d].create : b \notin f.data
  BY Zenon DEF PlanWrite
<1> HIDE DEF x
<1>3. /\ p \in Plan
      /\ p.delete = {} /\ p.create = {x} /\ p.since = NoTime
  BY <1>1, Zenon DEF Planned, Plan
<1> HIDE DEF p
<1>4. plans'[c] = p
  BY <1>2, Zenon DEF IInv, TypeOK
<1>5. o \notin IdsOf(files) \cup removed
  BY <1>2, Zenon DEF IInv, IdsAreUnique
<1>6. PlanIsGood(c)'
  <2>1. /\ o \in used' /\ o \notin IdsOf(files') \cup removed'
        /\ x.data \cap written' = {}
    BY <1>1, <1>2, <1>5, Zenon
  <2> QED  BY <1>1, <1>3, <1>4, <2>1, Zenon DEF PlanIsGood
<1>7. ASSUME NEW d \in Client, d # c, NEW f \in plans[d].create
      PROVE  f.object_store_id # o /\ f.data \cap {b} = {}
  BY <1>2 DEF IInv, PlanIsGood
<1>8. used' \in SUBSET ObjectStoreId
  BY <1>2, Zenon DEF IInv, TypeOK
<1>9. \A d \in Client : d # c =>
         \A f \in plans[d].create, g \in p.create :
            /\ f.object_store_id # g.object_store_id
            /\ \/ plans[d].since = NoTime /\ plans[d].delete = {}
               \/ p.since = NoTime /\ p.delete = {}
               => f.data \cap g.data = {}
  BY <1>1, <1>3, <1>7, Zenon
<1>10. p.create # {} /\ \A f, g \in p.create : f = g
  BY <1>3, Zenon
<1>11. /\ plans' = [plans EXCEPT ![c] = p] /\ used \subseteq used'
       /\ UNCHANGED <<now, files, written, expired, removed>>
  BY <1>2, Zenon
<1> QED  BY <1>3, <1>6, <1>8, <1>9, <1>10, <1>11, NewPlan, Zenon

LEMMA PlanCompactIInv ==
    ASSUME IInv, NEW c \in Client, NEW o \in ObjectStoreId,
           NEW R \in SUBSET Active(files), NEW U \in SUBSET Active(files),
           PlanCompact(c, o, R, U)
    PROVE  IInv'
<1> DEFINE x == [object_store_id |-> o, data |-> UNION {r.data : r \in R}]
           p == Planned(IdsOf(R), IdsOf(U), {x})
<1>0. R \subseteq files /\ U \subseteq files /\ files \subseteq Row
  BY Zenon DEF Active, IInv, TypeOK
<1>1. x \in File /\ x.object_store_id = o /\ x.data = UNION {r.data : r \in R}
  BY <1>0, RowFields, Zenon DEF File
<1>2. /\ plans' = [plans EXCEPT ![c] = p]
      /\ used' = used \cup {o}
      /\ UNCHANGED <<now, files, written, expired, removed>>
      /\ o \notin used /\ R # {}
  BY Zenon DEF PlanCompact
<1> HIDE DEF x
<1>3. /\ p \in Plan
      /\ p.delete = IdsOf(R) /\ p.create = {x} /\ p.since = NoTime
  <2>1. IdsOf(R) \in SUBSET ObjectStoreId /\ IdsOf(U) \in SUBSET ObjectStoreId
    BY <1>0, RowFields, Zenon DEF IdsOf
  <2> QED  BY <1>1, <2>1, Zenon DEF Planned, Plan
<1> HIDE DEF p
<1>4. plans'[c] = p
  BY <1>2, Zenon DEF IInv, TypeOK
<1>5. o \notin IdsOf(files) \cup removed
  BY <1>2, Zenon DEF IInv, IdsAreUnique
<1>6. IdsOf(R) \subseteq IdsOf(files) /\ IdsOf(R) # {}
  BY <1>0, <1>2, Zenon DEF IdsOf
<1>7. x.data = UNION {r.data : r \in {s \in files : s.object_store_id \in IdsOf(R)}}
  <2>1. \A s \in files : s.object_store_id \in IdsOf(R) <=> s \in R
    BY <1>0, IdsAre DEF IInv, IdsAreUnique
  <2>2. R = {s \in files : s.object_store_id \in IdsOf(R)}
    BY <1>0, <2>1, Zenon
  <2> QED  BY <1>1, <2>2, Zenon
<1>8. PlanIsGood(c)'
  <2>1. IdsOf(files') = IdsOf(files) /\ removed' = removed /\ o \in used'
    BY <1>2, Zenon
  <2>2. /\ o \notin IdsOf(files') \cup removed'
        /\ IdsOf(R) \subseteq IdsOf(files') \cup removed'
    BY <1>5, <1>6, <2>1, Zenon
  <2>3. x.data = UNION {r.data : r \in {s \in files' : s.object_store_id \in IdsOf(R)}}
    BY <1>2, <1>7, Zenon
  <2> QED  BY <1>1, <1>3, <1>4, <1>6, <2>1, <2>2, <2>3 DEF PlanIsGood
<1>9. x.data \subseteq written
  BY <1>0, <1>1 DEF IInv, DataIsKept
<1>10. ASSUME NEW d \in Client, d # c, NEW f \in plans[d].create
       PROVE  /\ f.object_store_id # o
              /\ plans[d].since = NoTime /\ plans[d].delete = {} => f.data \cap x.data = {}
  BY <1>2, <1>9, Zenon DEF IInv, PlanIsGood
<1>11. used' \in SUBSET ObjectStoreId
  BY <1>2, Zenon DEF IInv, TypeOK
<1> QED  BY <1>1, <1>2, <1>3, <1>6, <1>8, <1>10, <1>11, NewPlan, Zenon

LEMMA CommitFailsIInv ==
    ASSUME IInv, NEW c \in Client, CommitFails(c)
    PROVE  IInv'
<1>1. /\ plans' = [plans EXCEPT ![c] = Idle]
      /\ UNCHANGED <<now, files, used, written, expired, removed>>
  BY Zenon DEF CommitFails, Forgets
<1>2. Idle \in Plan /\ Idle.create = {} /\ Idle.pc # "planned"
  BY Zenon DEF Idle, Plan
<1>3. PlanIsGood(c)'
  <2>1. plans'[c] = Idle
    BY <1>1, Zenon DEF IInv, TypeOK
  <2> QED  BY <1>2, <2>1, Zenon DEF PlanIsGood
<1>4. used \subseteq used' /\ used' \in SUBSET ObjectStoreId
  BY <1>1, Zenon DEF IInv, TypeOK
<1> QED  BY <1>1, <1>2, <1>3, <1>4, NewPlan, Zenon

-----------------------------------------------------------------------------
(* Retention, removal and time.                                            *)

\* A step that changes rows but no plan, and leaves the ids and data in order.
LEMMA RowsStep ==
    ASSUME IInv, Evolves({}), TypeOK', IdsAreUnique', DataIsKept', UNCHANGED <<plans, written>>
    PROVE  IInv'
<1>1. ASSUME NEW c \in Client PROVE PlanIsGood(c)'
  <2>1. /\ TypeOK /\ PlanIsGood(c)
        /\ \A f \in plans[c].create :
              plans[c].since = NoTime /\ plans[c].delete = {} => f.data \cap written' = {}
    BY Zenon DEF IInv, PlanIsGood
  <2> QED  BY <2>1, PlanStays, Zenon
<1>2. PlansAreApart' /\ OneFile'
  BY DEF IInv, PlansAreApart, OneFile
<1> QED  BY <1>1, <1>2, Zenon DEF IInv

LEMMA RetentionIInv ==
    ASSUME IInv, NEW R \in SUBSET Active(files), FlagForDeleteByRetention(R)
    PROVE  IInv'
<1> DEFINE D == IdsOf(R)
           G == Flagged(files, D)
<1>1. /\ files' = G
      /\ expired' = expired \cup UNION {r.data : r \in R}
      /\ UNCHANGED <<now, plans, used, written, removed>>
  BY Zenon DEF FlagForDeleteByRetention
<1>2. /\ \A r, s \in files : r.object_store_id = s.object_store_id => r = s
      /\ IdsOf(files) \cup removed \subseteq used
      /\ removed \cap IdsOf(files) = {}
      /\ files \subseteq Row /\ R \subseteq files /\ now \in Nat /\ now # NoTime
  BY CatalogAssumption, Zenon DEF IInv, IdsAreUnique, TypeOK, Active
<1>3. /\ G \subseteq Row
      /\ IdsOf(G) = IdsOf(files)
      /\ \A r \in files : \E s \in G : Turned(r, s, D)
      /\ \A s \in G : \E r \in files : Turned(r, s, D)
      /\ \A s, t \in G : s.object_store_id = t.object_store_id => s = t
  <2>1. \A r \in files : FlagRow(r, D) \in Row /\ Turned(r, FlagRow(r, D), D)
    BY <1>2, FlagRowIs, Zenon
  <2>2. G = Upgraded(G, {})
    BY Zenon DEF Upgraded, UpgradeRow
  <2> QED  BY <2>2, Changed DEF IInv, IdsAreUnique
<1>4. \A r \in files : r.object_store_id \in D <=> r \in R
  BY <1>2, IdsAre
<1>5. \A r \in R : r.to_delete = NoTime
  BY Zenon DEF Active
<1> HIDE DEF D, G
<1>6. Evolves({})
  <2>1. \A r \in files : \A s : Turned(r, s, D) => Succ(r, s)
    BY <1>4, <1>5, Zenon DEF Turned, Succ
  <2> QED  BY <1>1, <1>3, <2>1, Zenon DEF Evolves
<1>7. TypeOK'
  <2>1. expired' \in SUBSET Batch
    BY <1>1, <1>2, RowFields DEF IInv, TypeOK
  <2> QED  BY <1>1, <1>3, <2>1, Zenon DEF IInv, TypeOK
<1>8. IdsAreUnique'
  <2>1. IdsOf(files') = IdsOf(files)
    BY <1>1, <1>3, Zenon
  <2>2. /\ IdsOf(files') \cup removed' \subseteq used'
        /\ removed' \cap IdsOf(files') = {}
    BY <1>1, <1>2, <2>1, Zenon
  <2> QED  BY <1>1, <1>3, <2>2, Zenon DEF IdsAreUnique
<1>9. DataIsKept'
  <2>0. /\ \A r, s \in Active(files) : r # s => r.data \cap s.data = {}
        /\ \A r \in files : r.data \subseteq written
        /\ \A b \in written \ expired : \E r \in Active(files) : b \in r.data
    BY Zenon DEF IInv, DataIsKept
  <2>1. ASSUME NEW s \in G, s.to_delete = NoTime
        PROVE  \E r \in Active(files) : r.object_store_id = s.object_store_id /\ r.data = s.data
    BY <1>2, <1>3, <2>1, ZenonT(30) DEF Turned, Active
  <2>2. ASSUME NEW s \in G, s.to_delete = NoTime, NEW t \in G, t.to_delete = NoTime, s # t
        PROVE  s.data \cap t.data = {}
    <3>1. PICK r \in Active(files) : r.object_store_id = s.object_store_id /\ r.data = s.data
      BY <2>1, <2>2, Zenon
    <3>2. PICK q \in Active(files) : q.object_store_id = t.object_store_id /\ q.data = t.data
      BY <2>1, <2>2, Zenon
    <3>3. r # q
      BY <1>3, <2>2, <3>1, <3>2, Zenon
    <3> QED  BY <2>0, <3>1, <3>2, <3>3, Zenon
  <2>3. \A s \in G : s.data \subseteq written
    BY <1>3, <2>0, ZenonT(30) DEF Turned
  <2>4. ASSUME NEW b \in written' \ expired'
        PROVE  \E r \in Active(files') : b \in r.data
    <3>1. PICK r \in Active(files) : b \in r.data /\ r \notin R
      BY <1>1, <2>0, <2>4
    <3>2. PICK s \in G : Turned(r, s, D)
      BY <1>3, Zenon DEF Active
    <3>3. s.to_delete = NoTime /\ b \in s.data
      BY <1>4, <3>1, <3>2, Zenon DEF Turned, Active
    <3> QED  BY <1>1, <3>3, Zenon DEF Active
  <2> QED  BY <1>1, <2>2, <2>3, <2>4, Zenon DEF DataIsKept, Active
<1> QED  BY <1>1, <1>6, <1>7, <1>8, <1>9, RowsStep, Zenon

LEMMA DeleteIInv ==
    ASSUME IInv, DeleteOldIdsOnly
    PROVE  IInv'
<1> DEFINE old == {r \in files : OldRow(r)}
<1>1. /\ files' = files \ old
      /\ removed' = removed \cup IdsOf(old)
      /\ UNCHANGED <<now, plans, used, written, expired>>
  BY Zenon DEF DeleteOldIdsOnly
<1>2. Active(files') = Active(files)
  BY <1>1, Zenon DEF Active, OldRow
<1>3. Evolves({})
  <2>1. \A r : Succ(r, r)
    BY Zenon DEF Succ
  <2>2. \A r \in files : (\E s \in files' : Succ(r, s)) \/ (OldRow(r) /\ r.object_store_id \in removed')
    BY <1>1, <2>1, IdsAre, Zenon
  <2>3. IdsOf(old) \subseteq IdsOf(files)
    BY Zenon DEF IdsOf
  <2> QED  BY <1>1, <2>1, <2>2, <2>3, Zenon DEF Evolves
<1>4. IdsOf(old) \in SUBSET ObjectStoreId
  BY RowFields, Zenon DEF IdsOf, IInv, TypeOK
<1>5. TypeOK'
  BY <1>1, <1>4, Zenon DEF IInv, TypeOK
<1>6. IdsAreUnique'
  <2>1. /\ \A r, s \in files : r.object_store_id = s.object_store_id => r = s
        /\ IdsOf(files) \cup removed \subseteq used
        /\ removed \cap IdsOf(files) = {}
    BY Zenon DEF IInv, IdsAreUnique
  <2>2. IdsOf(files') \subseteq IdsOf(files) /\ IdsOf(old) \subseteq IdsOf(files)
    BY <1>1, Zenon DEF IdsOf
  <2>3. IdsOf(old) \cap IdsOf(files') = {}
    BY <1>1, <2>1, ZenonT(30) DEF IdsOf
  <2>4. /\ IdsOf(files') \cup removed' \subseteq used'
        /\ removed' \cap IdsOf(files') = {}
    BY <1>1, <2>1, <2>2, <2>3, Zenon
  <2> QED  BY <1>1, <2>1, <2>4, Zenon DEF IdsAreUnique
<1>7. DataIsKept'
  BY <1>1, <1>2, Zenon DEF IInv, DataIsKept
<1> QED  BY <1>1, <1>3, <1>5, <1>6, <1>7, RowsStep, Zenon

LEMMA TickIInv ==
    ASSUME IInv, Tick
    PROVE  IInv'
<1>1. now' = now + 1 /\ UNCHANGED <<files, plans, used, written, expired, removed>>
  BY Zenon DEF Tick
<1>2. TypeOK'
  BY <1>1 DEF IInv, TypeOK
<1>3. IdsAreUnique' /\ DataIsKept' /\ PlansAreApart' /\ OneFile'
  BY <1>1 DEF IInv, IdsAreUnique, DataIsKept, PlansAreApart, OneFile, IdsOf, Active
<1>4. ASSUME NEW c \in Client PROVE PlanIsGood(c)'
  <2>1. PlanIsGood(c)
    BY Zenon DEF IInv
  <2>2. ASSUME NEW f \in plans[c].create, plans[c].since # NoTime
        PROVE  StillThere(f, plans[c].since)'
    <3>1. plans[c].since \in Nat /\ now \in Nat /\ Cutoff \in Nat
      BY <2>2, PlanFields, CatalogAssumption, Zenon DEF IInv, TypeOK
    <3>2. now < plans[c].since + Cutoff
      BY <2>2, Zenon DEF Tick
    <3> QED  BY <1>1, <2>1, <2>2, <3>1, <3>2 DEF PlanIsGood, StillThere
  <2> QED  BY <1>1, <2>1, <2>2, Zenon DEF PlanIsGood, IdsOf, Active
<1> QED  BY <1>2, <1>3, <1>4, Zenon DEF IInv

-----------------------------------------------------------------------------

LEMMA InitIInv ==
    ASSUME Init
    PROVE  IInv
<1>1. TypeOK
  BY Zenon DEF Init, TypeOK, Idle, Plan
<1>2. \A c \in Client : plans[c].create = {} /\ plans[c].pc # "planned"
  BY Zenon DEF Init, Idle
<1> QED  BY <1>1, <1>2, Zenon DEF Init, IInv, IdsAreUnique, DataIsKept, PlanIsGood,
                          PlansAreApart, OneFile, IdsOf, Active

LEMMA NextIInv ==
    ASSUME IInv, [Next]_vars
    PROVE  IInv'
<1>1. CASE UNCHANGED vars
  BY <1>1 DEF vars, IInv, TypeOK, IdsAreUnique, DataIsKept, PlanIsGood, StillThere,
              PlansAreApart, OneFile, IdsOf, Active
<1>2. CASE Next
  BY Zenon, <1>2, PlanWriteIInv, PlanCompactIInv, CommitIInv, CommitFailsIInv,
     RetentionIInv, DeleteIInv, TickIInv DEF Next
<1> QED  BY <1>1, <1>2, Zenon

\* The catalog's rows, with the commits that clients prepare, keep IInv: ids name
\* rows, active data is apart and complete, and every plan is one that the checks
\* of create_upgrade_delete let through only while it is still right.
THEOREM InvariantHolds == Spec => []IInv
BY InitIInv, NextIInv, PTL DEF Spec

\* create_upgrade_delete: no batch is ever in two active files, whatever plans
\* are made on old lists of files and whatever commits are repeated.
THEOREM DataIsVisibleOnce == Spec => []NoDataTwice
<1>1. ASSUME IInv PROVE NoDataTwice
  <2> SUFFICES ASSUME NEW b \in Batch PROVE Cardinality(Holding(b)) <= 1
    BY Zenon DEF NoDataTwice
  <2>1. CASE Holding(b) = {}
    BY <2>1, FS_EmptySet
  <2>2. CASE Holding(b) # {}
    <3>1. PICK r : r \in Holding(b)
      BY <2>2, Zenon
    <3>2. Holding(b) = {r}
      BY <1>1, <3>1, Zenon DEF Holding, IInv, DataIsKept
    <3> QED  BY <3>2, FS_Singleton
  <2> QED  BY <2>1, <2>2, Zenon
<1> QED  BY <1>1, InvariantHolds, PTL

\* ... and what was written stays in an active file until retention flags it.
THEOREM DataStaysVisible == Spec => []NoDataLost
<1>1. ASSUME IInv PROVE NoDataLost
  BY <1>1, Zenon DEF IInv, DataIsKept, NoDataLost, Holding
<1> QED  BY <1>1, InvariantHolds, PTL

\* delete_old_ids_only: the row of a removed file is never created again, also
\* not by a client that repeats its commit.
THEOREM RemovedStaysRemoved == Spec => []RemovedForGood
<1>1. ASSUME IInv PROVE RemovedForGood
  BY <1>1, Zenon DEF IInv, IdsAreUnique, RemovedForGood
<1> QED  BY <1>1, InvariantHolds, PTL

(***************************************************************************)
(* GarbageCollector.                                                       *)
(***************************************************************************)

CollectorTypes ==
    /\ clock \in Nat
    /\ store \in [Object -> {"never", "present", "gone"}]
    /\ mtime \in [Object -> Nat]
    /\ row \in [Object -> {"none", "active", "flagged", "removed"}]
    /\ flaggedAt \in [Object -> Nat]
    /\ junk \in SUBSET Object

-----------------------------------------------------------------------------
(* The inductive invariant.                                                *)

\* The objects that have been uploaded.
Stored == {o \in Object : store[o] # "never"}

\* Those old enough that no writer is going to register them any more.
Old == {o \in Stored : mtime[o] + ObjectCutoff <= clock}

\* Those that may be deleted, now and at any later time.
Deletable == {o \in Stored : \/ o \in junk
                             \/ row[o] = "removed"
                             \/ row[o] = "none" /\ o \in Old}

\* What the tasks hold: the lister and the checker know objects that exist, the
\* checker asks the catalog only about old ones, and what is on its way to the
\* deleter may be deleted.
HeldObjects ==
    /\ listing \in SUBSET Stored
    /\ found \in Seq(Stored)
    /\ batch \in Seq(Stored)
    /\ checking = "query" => batch \in Seq(Old)
    /\ doomed \in Seq(Deletable)
    /\ condemned \in Seq(Deletable)

GoneWasDeletable == \A o \in Object : store[o] = "gone" => o \in Deletable

\* Rows are those of uploaded parquet files, and removed after the cutoff.
RowsAreKnown ==
    \A o \in Object :
        /\ row[o] # "none" => o \in Stored \ junk
        /\ row[o] = "removed" => flaggedAt[o] + FileCutoff < clock

CollectorInv == CollectorTypes /\ HeldObjects /\ GoneWasDeletable /\ RowsAreKnown

-----------------------------------------------------------------------------
(* Sequences.                                                              *)

\* A sequence over a set is one over a larger set.
LEMMA SeqOverMore ==
    ASSUME NEW S, NEW T, S \subseteq T, NEW s \in Seq(S)
    PROVE  s \in Seq(T)
OBVIOUS

\* One more element, and two sequences one after the other.
LEMMA SeqGrows ==
    ASSUME NEW S, NEW s \in Seq(S)
    PROVE  /\ << >> \in Seq(S)
           /\ \A x \in S : Append(s, x) \in Seq(S)
           /\ \A t \in Seq(S) : s \o t \in Seq(S)
OBVIOUS

\* The head and the tail of a sequence.
LEMMA HeadAndTail ==
    ASSUME NEW S, NEW s \in Seq(S), s # << >>
    PROVE  Head(s) \in S /\ Tail(s) \in Seq(S)
OBVIOUS

\* Every nonempty set of numbers has a least element.
LEMMA Least ==
    ASSUME NEW B \in SUBSET Nat, NEW b \in B
    PROVE  \E n \in B : \A m \in Nat : m < n => m \notin B
<1> DEFINE R == OpToRel(<, Nat)
<1>1. R = {p \in Nat \X Nat : p[1] < p[2]}
  BY Zenon DEF OpToRel
<1>2. IsWellFoundedOn(R, Nat)
  BY NatLessThanWellFounded, Zenon
<1> HIDE DEF R
<1>3. PICK n \in B : \A m \in B : ~(<<m, n>> \in R)
  BY <1>2, WFMin, Zenon
<1>4. ASSUME NEW m \in Nat, m < n PROVE m \notin B
  BY <1>1, <1>3, <1>4, Zenon
<1> QED  BY <1>4, Zenon

\* What is kept of a sequence are elements of it that are in T.
LEMMA KeptAre ==
    ASSUME NEW S, NEW T, NEW s \in Seq(S)
    PROVE  Kept(s, T) \in Seq(S \cap T)
<1> DEFINE Q == Seq(S \cap T)
           N == Len(s)
           Body(f) == [i \in 0 .. N |-> IF i = 0 THEN << >>
                        ELSE IF s[i] \in T THEN Append(f[i - 1], s[i]) ELSE f[i - 1]]
           F == CHOOSE f : f = Body(f)
           Upto(g, n) == /\ g[0] = << >>
                         /\ \A i \in 1 .. n : g[i] = IF s[i] \in T THEN Append(g[i - 1], s[i]) ELSE g[i - 1]
           Bad == {n \in Nat : n <= N /\ ~\E g \in [0 .. n -> Q] : Upto(g, n)}
<1>1. Kept(s, T) = F[N]
  BY Zenon DEF Kept
<1>2. N \in Nat /\ << >> \in Q
  OBVIOUS
<1>3. ASSUME NEW i \in 1 .. N, NEW q \in Q
      PROVE  (IF s[i] \in T THEN Append(q, s[i]) ELSE q) \in Q
  <2>1. s[i] \in S
    OBVIOUS
  <2> QED  BY <2>1
<1> HIDE DEF Q
<1>4. Bad = {}
  <2> SUFFICES ASSUME Bad # {} PROVE FALSE
    BY Zenon
  <2>1. PICK n \in Bad : \A m \in Nat : m < n => m \notin Bad
    BY Least, Zenon
  <2>2. n \in Nat /\ n <= N /\ ~\E g \in [0 .. n -> Q] : Upto(g, n)
    BY Zenon
  <2>3. n # 0
    <3>1. [i \in 0 .. 0 |-> << >>] \in [0 .. 0 -> Q]
      BY <1>2, Zenon
    <3>2. Upto([i \in 0 .. 0 |-> << >>], 0)
      OBVIOUS
    <3> QED  BY <2>2, <3>1, <3>2, Zenon
  <2>4. PICK g \in [0 .. n - 1 -> Q] : Upto(g, n - 1)
    <3>1. n - 1 \in Nat /\ n - 1 < n /\ n - 1 <= N
      BY <1>2, <2>2, <2>3
    <3> QED  BY <2>1, <3>1, Zenon
  <2> DEFINE x == IF s[n] \in T THEN Append(g[n - 1], s[n]) ELSE g[n - 1]
             h == [i \in 0 .. n |-> IF i = n THEN x ELSE g[i]]
  <2>5. x \in Q
    <3>1. n \in 1 .. N /\ g[n - 1] \in Q
      BY <1>2, <2>2, <2>3
    <3> QED  BY <1>3, <3>1, Zenon
  <2>6. h \in [0 .. n -> Q]
    <3> HIDE DEF x
    <3> QED  BY <2>2, <2>5
  <2>7. Upto(h, n)
    <3>1. h[0] = << >>
      BY <2>2, <2>3, <2>4
    <3>2. h[n] = x /\ \A i \in 0 .. n - 1 : h[i] = g[i]
      <4> HIDE DEF x
      <4> QED  BY <2>2
    <3>3. ASSUME NEW i \in 1 .. n
          PROVE  h[i] = IF s[i] \in T THEN Append(h[i - 1], s[i]) ELSE h[i - 1]
      <4>1. i - 1 \in 0 .. n - 1 /\ h[i - 1] = g[i - 1]
        BY <2>2, <3>2
      <4>2. CASE i = n
        BY <3>2, <4>1, <4>2, Zenon
      <4>3. CASE i # n
        <5>1. i \in 1 .. n - 1 /\ h[i] = g[i]
          BY <2>2, <3>2, <4>3
        <5> HIDE DEF h
        <5> QED  BY <2>4, <4>1, <5>1, Zenon
      <4> QED  BY <4>2, <4>3, Zenon
    <3> HIDE DEF h
    <3> QED  BY <3>1, <3>3, Zenon
  <2> HIDE DEF h
  <2> QED  BY <2>2, <2>6, <2>7, ZenonT(30)
<1>5. PICK g \in [0 .. N -> Q] : Upto(g, N)
  BY <1>2, <1>4
<1>6. g = Body(g)
  <2>1. ASSUME NEW i \in 0 .. N PROVE g[i] = Body(g)[i]
    <3>1. CASE i = 0
      BY <1>5, <3>1, Zenon
    <3>2. CASE i # 0
      <4>1. i \in 1 .. N
        BY <1>2, <3>2
      <4>2. g[i] = IF s[i] \in T THEN Append(g[i - 1], s[i]) ELSE g[i - 1]
        BY <1>5, <4>1, Zenon
      <4> QED  BY <3>2, <4>2, Zenon
    <3> QED  BY <3>1, <3>2, Zenon
  <2>2. Body(g) = [i \in 0 .. N |-> Body(g)[i]]
    BY Zenon
  <2>3. g = [i \in 0 .. N |-> g[i]]
    BY Zenon
  <2> QED  BY <2>1, <2>2, <2>3, Zenon
<1>7. F = Body(F)
  BY <1>6, Zenon
<1> HIDE DEF F
<1>8. /\ F[0] = << >>
      /\ \A i \in 1 .. N : F[i] = IF s[i] \in T THEN Append(F[i - 1], s[i]) ELSE F[i - 1]
  <2> DEFINE G == Body(F)
  <2>1. G[0] = << >>
    BY <1>2
  <2>2. ASSUME NEW i \in 1 .. N
        PROVE  G[i] = IF s[i] \in T THEN Append(F[i - 1], s[i]) ELSE F[i - 1]
    <3>1. i \in 0 .. N /\ i # 0
      BY <1>2
    <3> QED  BY <3>1, Zenon
  <2> HIDE DEF G
  <2>3. F = G
    BY <1>7, Zenon DEF G
  <2> QED  BY <2>1, <2>2, <2>3, Zenon
<1> DEFINE Off == {n \in Nat : n <= N /\ F[n] \notin Q}
<1>9. Off = {}
  <2> SUFFICES ASSUME Off # {} PROVE FALSE
    BY Zenon
  <2>1. PICK n \in Off : \A m \in Nat : m < n => m \notin Off
    BY Least, Zenon
  <2>2. n \in Nat /\ n <= N /\ F[n] \notin Q
    BY Zenon
  <2>3. n # 0
    BY <1>2, <1>8, <2>2, Zenon
  <2>4. F[n - 1] \in Q /\ n \in 1 .. N
    BY <1>2, <2>1, <2>2, <2>3
  <2>5. F[n] \in Q
    BY <1>3, <1>8, <2>4, Zenon
  <2> QED  BY <2>2, <2>5, Zenon
<1>10. F[N] \in Q
  BY <1>2, <1>9
<1> QED  BY <1>1, <1>10, Zenon DEF Q

-----------------------------------------------------------------------------
(* The steps of writers, compactors, time, flagger and remover: what could *)
(* be deleted can still be deleted.                                        *)

LEMMA ConstantTypes ==
    /\ ObjectCutoff \in Nat /\ FileCutoff \in Nat /\ CommitDelay \in Nat
    /\ CommitDelay < ObjectCutoff
BY CollectorAssumption, Zenon

LEMMA HeldStays ==
    ASSUME HeldObjects, Stored \subseteq Stored', Old \subseteq Old', Deletable \subseteq Deletable',
           UNCHANGED <<listing, found, batch, doomed, checking, condemned>>
    PROVE  HeldObjects'
<1>1. listing' \in SUBSET Stored' /\ found' \in Seq(Stored') /\ batch' \in Seq(Stored')
  BY SeqOverMore, Zenon DEF HeldObjects
<1>2. checking' = "query" => batch' \in Seq(Old')
  BY SeqOverMore, Zenon DEF HeldObjects
<1>3. doomed' \in Seq(Deletable') /\ condemned' \in Seq(Deletable')
  BY SeqOverMore, Zenon DEF HeldObjects
<1> QED  BY <1>1, <1>2, <1>3, Zenon DEF HeldObjects

LEMMA UploadStep ==
    ASSUME CollectorInv, NEW o \in Object, Upload(o)
    PROVE  CollectorInv'
<1> USE DEF CollectorInv, Upload, catalog, checker, config
<1>1. CollectorTypes'
  BY Zenon DEF CollectorTypes
<1>2. /\ store'[o] = "present" /\ store[o] = "never"
      /\ \A q \in Object \ {o} : store'[q] = store[q] /\ mtime'[q] = mtime[q]
  BY Zenon DEF CollectorTypes
<1>3. Stored \subseteq Stored' /\ Old \subseteq Old'
  BY <1>2, Zenon DEF Stored, Old
<1>4. Deletable \subseteq Deletable'
  BY <1>2, <1>3, Zenon DEF Deletable, Stored
<1>5. HeldObjects'
  BY <1>3, <1>4, HeldStays, Zenon
<1>6. GoneWasDeletable'
  BY <1>2, <1>4, Zenon DEF GoneWasDeletable
<1>7. RowsAreKnown'
  BY <1>3, Zenon DEF RowsAreKnown
<1> QED  BY <1>1, <1>5, <1>6, <1>7, Zenon

\* A writer that registers in time does so for an object that is not deletable.
LEMMA RegisterStep ==
    ASSUME CollectorInv, NEW o \in Object, Register(o)
    PROVE  CollectorInv'
<1> USE DEF CollectorInv, Register, objects, checker, config
<1>1. CollectorTypes'
  BY Zenon DEF CollectorTypes
<1>2. /\ row[o] = "none" /\ row'[o] = "active" /\ o \in Stored \ junk
      /\ \A q \in Object \ {o} : row'[q] = row[q]
  BY Zenon DEF CollectorTypes, Stored
<1>3. Stored' = Stored /\ Old' = Old /\ junk' = junk
  BY Zenon DEF Stored, Old
<1>4. o \notin Old
  <2>1. mtime[o] \in Nat /\ clock \in Nat
    BY Zenon DEF CollectorTypes
  <2> QED  BY <2>1, ConstantTypes DEF Old
<1>5. Deletable \subseteq Deletable'
  BY <1>2, <1>3, <1>4 DEF Deletable
<1>6. HeldObjects'
  BY <1>3, <1>5, HeldStays, Zenon
<1>7. GoneWasDeletable'
  BY <1>5, Zenon DEF GoneWasDeletable
<1>8. RowsAreKnown'
  BY <1>2, <1>3, Zenon DEF RowsAreKnown
<1> QED  BY <1>1, <1>6, <1>7, <1>8, Zenon

\* Flagging rows, by a compactor or by retention.
LEMMA FlagStep ==
    ASSUME CollectorInv, NEW R \in SUBSET Object, \A o \in R : row[o] = "active", Flag(R),
           UNCHANGED <<config, clock, objects, listing, found, checker, condemned>>
    PROVE  CollectorInv'
<1> USE DEF CollectorInv, Flag, objects, checker, config
<1>1. CollectorTypes'
  BY Zenon DEF CollectorTypes
<1>2. \A o \in Object : IF o \in R THEN row'[o] = "flagged"
                                   ELSE row'[o] = row[o] /\ flaggedAt'[o] = flaggedAt[o]
  BY Zenon DEF CollectorTypes
<1>3. Stored' = Stored /\ Old' = Old /\ junk' = junk
  BY Zenon DEF Stored, Old
<1>4. Deletable \subseteq Deletable'
  <2> SUFFICES ASSUME NEW o \in Deletable PROVE o \in Deletable'
    BY Zenon
  <2>1. o \in Object /\ o \in Stored
    BY Zenon DEF Deletable, Stored
  <2>2. row[o] = "active" => o \notin Deletable
    BY <2>1, Zenon DEF Deletable, RowsAreKnown
  <2> QED  BY <1>2, <1>3, <2>1, <2>2, Zenon DEF Deletable
<1>5. HeldObjects'
  BY <1>3, <1>4, HeldStays, Zenon
<1>6. GoneWasDeletable'
  BY <1>4, Zenon DEF GoneWasDeletable
<1>7. RowsAreKnown'
  BY <1>2, <1>3, Zenon DEF RowsAreKnown
<1> QED  BY <1>1, <1>5, <1>6, <1>7, Zenon

LEMMA ClockTicksStep ==
    ASSUME CollectorInv, ClockTicks
    PROVE  CollectorInv'
<1> USE DEF CollectorInv, ClockTicks, objects, catalog, checker, config
<1>1. CollectorTypes'
  BY DEF CollectorTypes
<1>2. Stored' = Stored
  BY Zenon DEF Stored
<1>3. ASSUME NEW o \in Old PROVE o \in Old'
  <2>1. o \in Object /\ o \in Stored /\ mtime[o] \in Nat /\ clock \in Nat /\ mtime[o] + ObjectCutoff <= clock
    BY Zenon DEF Old, Stored, CollectorTypes
  <2> QED  BY <1>2, <2>1, ConstantTypes DEF Old
<1>4. Deletable \subseteq Deletable'
  BY <1>2, <1>3, Zenon DEF Deletable
<1>5. HeldObjects'
  BY <1>2, <1>3, <1>4, HeldStays, Zenon
<1>6. GoneWasDeletable'
  BY <1>4, Zenon DEF GoneWasDeletable
<1>7. RowsAreKnown'
  <2> SUFFICES ASSUME NEW o \in Object, row[o] = "removed"
               PROVE  flaggedAt[o] + FileCutoff < clock + 1
    BY <1>2, Zenon DEF RowsAreKnown
  <2>1. flaggedAt[o] \in Nat /\ clock \in Nat /\ flaggedAt[o] + FileCutoff < clock
    BY Zenon DEF CollectorTypes, RowsAreKnown
  <2> QED  BY <2>1, ConstantTypes
<1> QED  BY <1>1, <1>5, <1>6, <1>7, Zenon

LEMMA RemoveStep ==
    ASSUME CollectorInv, RemoveRows
    PROVE  CollectorInv'
<1> USE DEF CollectorInv, RemoveRows, objects, checker, config
<1>1. CollectorTypes'
  BY Zenon DEF CollectorTypes
<1>2. \A o \in Object : row'[o] = (IF RowIsOld(o) THEN "removed" ELSE row[o])
  BY Zenon DEF CollectorTypes
<1>3. Stored' = Stored /\ Old' = Old /\ junk' = junk /\ flaggedAt' = flaggedAt /\ clock' = clock
  BY Zenon DEF Stored, Old
<1>4. Deletable \subseteq Deletable'
  BY <1>2, <1>3, Zenon DEF Deletable, Stored
<1>5. HeldObjects'
  BY <1>3, <1>4, HeldStays, Zenon
<1>6. GoneWasDeletable'
  BY <1>4, Zenon DEF GoneWasDeletable
<1>7. RowsAreKnown'
  <2> SUFFICES ASSUME NEW o \in Object, RowIsOld(o)
               PROVE  o \in Stored \ junk /\ flaggedAt[o] + FileCutoff < clock
    BY <1>2, <1>3, Zenon DEF RowsAreKnown
  <2>1. flaggedAt[o] \in Nat /\ clock \in Nat /\ flaggedAt[o] < clock - FileCutoff /\ row[o] = "flagged"
    BY Zenon DEF CollectorTypes, RowIsOld
  <2> QED  BY <2>1, ConstantTypes DEF RowsAreKnown
<1> QED  BY <1>1, <1>5, <1>6, <1>7, Zenon

-----------------------------------------------------------------------------
(* The steps of lister, checker and deleter.                               *)

\* A step that leaves the store, the catalog and the clock alone.
LEMMA SameWorld ==
    ASSUME CollectorInv, UNCHANGED <<junk, clock, store, mtime, row, flaggedAt>>
    PROVE  /\ CollectorTypes' /\ GoneWasDeletable' /\ RowsAreKnown'
           /\ Stored' = Stored /\ Old' = Old /\ Deletable' = Deletable
<1>1. Stored' = Stored /\ Old' = Old /\ Deletable' = Deletable
  BY Zenon DEF Stored, Old, Deletable
<1>2. CollectorTypes'
  BY Zenon DEF CollectorInv, CollectorTypes
<1>3. GoneWasDeletable' /\ RowsAreKnown'
  BY <1>1, Zenon DEF CollectorInv, GoneWasDeletable, RowsAreKnown
<1> QED  BY <1>1, <1>2, <1>3, Zenon

LEMMA ListerStep ==
    ASSUME CollectorInv, List \/ ListFails \/ \E o \in Object : ListSend(o)
    PROVE  CollectorInv'
<1>1. /\ UNCHANGED <<junk, clock, store, mtime, row, flaggedAt>>
      /\ UNCHANGED <<batch, doomed, checking, condemned>>
  BY Zenon DEF List, ListFails, ListSend, config, catalog, objects, checker
<1>2. Stored' = Stored /\ Old' = Old /\ Deletable' = Deletable
  BY <1>1, SameWorld, Zenon
<1>3. listing' \in SUBSET Stored /\ found' \in Seq(Stored)
  <2>1. CASE List
    BY <2>1, Zenon DEF List, CollectorInv, HeldObjects, Stored
  <2>2. CASE ListFails
    BY <2>2, Zenon DEF ListFails, CollectorInv, HeldObjects
  <2>3. ASSUME NEW o \in Object, ListSend(o)
        PROVE  listing' \in SUBSET Stored /\ found' \in Seq(Stored)
    <3>1. listing \in SUBSET Stored /\ found \in Seq(Stored) /\ o \in listing
      BY <2>3, Zenon DEF ListSend, CollectorInv, HeldObjects
    <3>2. Append(found, o) \in Seq(Stored)
      BY <3>1, SeqGrows, Zenon
    <3> QED  BY <2>3, <3>1, <3>2, Zenon DEF ListSend
  <2> QED  BY <2>1, <2>2, <2>3, Zenon
<1>4. HeldObjects'
  BY <1>1, <1>2, <1>3, Zenon DEF CollectorInv, HeldObjects
<1> QED  BY <1>1, <1>4, SameWorld, Zenon DEF CollectorInv

LEMMA ReceiveStep ==
    ASSUME CollectorInv, Receive
    PROVE  CollectorInv'
<1>1. /\ UNCHANGED <<junk, clock, store, mtime, row, flaggedAt>>
      /\ UNCHANGED <<listing, doomed, checking, condemned>>
  BY Zenon DEF Receive, config, catalog, objects
<1>2. Stored' = Stored /\ Old' = Old /\ Deletable' = Deletable
  BY <1>1, SameWorld, Zenon
<1>3. batch' \in Seq(Stored) /\ found' \in Seq(Stored) /\ checking # "query"
  BY HeadAndTail DEF Receive, CollectorInv, HeldObjects
<1>4. HeldObjects'
  BY <1>1, <1>2, <1>3, Zenon DEF CollectorInv, HeldObjects
<1> QED  BY <1>1, <1>4, SameWorld, Zenon DEF CollectorInv

LEMMA CheckAgeStep ==
    ASSUME CollectorInv, CheckAge
    PROVE  CollectorInv'
<1> DEFINE T == {o \in Object : OldEnough(o)}
<1>1. /\ UNCHANGED <<junk, clock, store, mtime, row, flaggedAt>>
      /\ UNCHANGED <<listing, found, doomed, condemned>>
      /\ batch' = Kept(batch, T)
  BY Zenon DEF CheckAge, config, catalog, objects
<1>2. Stored' = Stored /\ Old' = Old /\ Deletable' = Deletable
  BY <1>1, SameWorld, Zenon
<1>3. Stored \cap T \subseteq Old
  <2> SUFFICES ASSUME NEW o \in Stored, OldEnough(o) PROVE o \in Old
    BY Zenon
  <2>1. mtime[o] \in Nat /\ clock \in Nat
    BY Zenon DEF CollectorInv, CollectorTypes, Stored
  <2> QED  BY <2>1, ConstantTypes DEF OldEnough, Old
<1> HIDE DEF T
<1>4. batch \in Seq(Stored)
  BY Zenon DEF CollectorInv, HeldObjects
<1>5. batch' \in Seq(Stored \cap T)
  BY <1>1, <1>4, KeptAre, Zenon
<1>6. batch' \in Seq(Old) /\ batch' \in Seq(Stored)
  BY <1>3, <1>5, SeqOverMore, Zenon
<1>7. HeldObjects'
  BY <1>1, <1>2, <1>6, Zenon DEF CollectorInv, HeldObjects
<1> QED  BY <1>1, <1>7, SameWorld, Zenon DEF CollectorInv

LEMMA QueryStep ==
    ASSUME CollectorInv, Query
    PROVE  CollectorInv'
<1> DEFINE T == {o \in Object : NotInCatalog(o)}
<1>1. /\ UNCHANGED <<junk, clock, store, mtime, row, flaggedAt>>
      /\ UNCHANGED <<listing, found, condemned>>
      /\ batch' = << >> /\ checking = "query" /\ checking' = "send"
      /\ doomed' = Kept(batch, junk) \o Kept(batch, T) \/ doomed' = Kept(batch, junk)
  BY Zenon DEF Query, config, catalog, objects
<1>2. Stored' = Stored /\ Old' = Old /\ Deletable' = Deletable
  BY <1>1, SameWorld, Zenon
<1>3. Old \cap junk \subseteq Deletable /\ Old \cap T \subseteq Deletable
  BY Zenon DEF Old, Deletable, NotInCatalog
<1> HIDE DEF T
<1>4. batch \in Seq(Old)
  BY <1>1, Zenon DEF CollectorInv, HeldObjects
<1>5. Kept(batch, junk) \in Seq(Old \cap junk) /\ Kept(batch, T) \in Seq(Old \cap T)
  BY <1>4, KeptAre, Zenon
<1>6. Kept(batch, junk) \in Seq(Deletable) /\ Kept(batch, T) \in Seq(Deletable)
  BY <1>3, <1>5, SeqOverMore, Zenon
<1>7. doomed' \in Seq(Deletable)
  BY <1>1, <1>6, SeqGrows, Zenon
<1>8. HeldObjects'
  BY <1>1, <1>2, <1>7 DEF CollectorInv, HeldObjects
<1> QED  BY <1>1, <1>8, SameWorld, Zenon DEF CollectorInv

LEMMA CheckerSendStep ==
    ASSUME CollectorInv, CheckerSend
    PROVE  CollectorInv'
<1>1. /\ UNCHANGED <<junk, clock, store, mtime, row, flaggedAt>>
      /\ UNCHANGED <<listing, batch, checking>>
  BY Zenon DEF CheckerSend, config, catalog, objects
<1>2. Stored' = Stored /\ Old' = Old /\ Deletable' = Deletable
  BY <1>1, SameWorld, Zenon
<1>3. condemned' \in Seq(Deletable) /\ doomed' \in Seq(Deletable) /\ found' \in Seq(Stored)
  <2>1. /\ condemned \in Seq(Deletable) /\ doomed \in Seq(Deletable) /\ found \in Seq(Stored)
        /\ doomed # << >>
    BY Zenon DEF CheckerSend, CollectorInv, HeldObjects
  <2>2. /\ Head(doomed) \in Deletable /\ Tail(doomed) \in Seq(Deletable)
        /\ Append(condemned, Head(doomed)) \in Seq(Deletable)
        /\ << >> \in Seq(Deletable) /\ << >> \in Seq(Stored)
    BY <2>1, HeadAndTail, SeqGrows, Zenon
  <2> QED  BY <2>1, <2>2, Zenon DEF CheckerSend
<1>4. HeldObjects'
  BY <1>1, <1>2, <1>3, Zenon DEF CollectorInv, HeldObjects
<1> QED  BY <1>1, <1>4, SameWorld, Zenon DEF CollectorInv

\* A task that ends leaves what it holds, or the checker begins a new batch.
LEMMA TaskStep ==
    ASSUME CollectorInv, CheckerNext \/ CheckerClosed \/ DeleterClosed \/ \E t \in Task : Cancelled(t)
    PROVE  CollectorInv'
<1>1. UNCHANGED <<junk, clock, store, mtime, row, flaggedAt>>
  BY Zenon DEF CheckerNext, CheckerClosed, DeleterClosed, Cancelled, config, catalog, objects
<1>2. Stored' = Stored /\ Old' = Old /\ Deletable' = Deletable
  BY <1>1, SameWorld, Zenon
<1>3. /\ listing' \in {listing, {}} /\ found' \in {found, << >>} /\ batch' \in {batch, << >>}
      /\ doomed' \in {doomed, << >>} /\ condemned' \in {condemned, << >>}
      /\ checking' = "query" => checking = "query"
  BY Zenon DEF CheckerNext, CheckerClosed, DeleterClosed, DeleterEnds, Cancelled, checker
<1>4. << >> \in Seq(Stored) /\ << >> \in Seq(Old) /\ << >> \in Seq(Deletable)
  OBVIOUS
<1>5. batch' \in Seq(Stored) /\ (checking' = "query" => batch' \in Seq(Old))
  BY <1>3, <1>4, Zenon DEF CollectorInv, HeldObjects
<1>6. listing' \in SUBSET Stored /\ found' \in Seq(Stored)
  BY <1>3, <1>4, Zenon DEF CollectorInv, HeldObjects
<1>7. doomed' \in Seq(Deletable) /\ condemned' \in Seq(Deletable)
  BY <1>3, <1>4, Zenon DEF CollectorInv, HeldObjects
<1>8. HeldObjects'
  BY <1>2, <1>5, <1>6, <1>7, Zenon DEF HeldObjects
<1> QED  BY <1>1, <1>8, SameWorld, Zenon DEF CollectorInv

\* Only what may be deleted is deleted.
LEMMA DeleteStep ==
    ASSUME CollectorInv, Delete
    PROVE  CollectorInv'
<1> DEFINE o == Head(condemned)
<1>1. /\ UNCHANGED <<junk, clock, mtime, row, flaggedAt, listing, found, batch, doomed, checking>>
      /\ condemned' = Tail(condemned) \/ condemned' = << >>
      /\ store' = store \/ store' = [store EXCEPT ![o] = "gone"]
  BY Zenon DEF Delete, DeleterEnds, config, catalog, checker
<1>2. o \in Deletable /\ condemned' \in Seq(Deletable)
  <2>1. condemned \in Seq(Deletable) /\ condemned # << >>
    BY Zenon DEF Delete, CollectorInv, HeldObjects
  <2>2. o \in Deletable /\ Tail(condemned) \in Seq(Deletable) /\ << >> \in Seq(Deletable)
    BY <2>1, HeadAndTail, SeqGrows, Zenon
  <2> QED  BY <1>1, <2>2, Zenon
<1>3. o \in Object /\ store[o] # "never"
  BY <1>2, Zenon DEF Deletable, Stored
<1> HIDE DEF o
<1>4. CollectorTypes' /\ \A q \in Object : store'[q] = store[q] \/ (q = o /\ store'[q] = "gone")
  BY <1>1, <1>3, Zenon DEF CollectorInv, CollectorTypes
<1>5. Stored' = Stored
  BY <1>3, <1>4, Zenon DEF Stored
<1>6. Old' = Old
  BY <1>1, <1>5, Zenon DEF Old
<1>7. Deletable' = Deletable
  BY <1>1, <1>5, <1>6, Zenon DEF Deletable
<1>8. HeldObjects'
  BY <1>1, <1>2, <1>5, <1>6, <1>7, Zenon DEF CollectorInv, HeldObjects
<1>9. GoneWasDeletable'
  BY <1>2, <1>4, <1>7, Zenon DEF CollectorInv, GoneWasDeletable
<1>10. RowsAreKnown'
  BY <1>1, <1>5, Zenon DEF CollectorInv, RowsAreKnown
<1> QED  BY <1>4, <1>8, <1>9, <1>10, Zenon DEF CollectorInv

-----------------------------------------------------------------------------
(* The theorems.                                                           *)

LEMMA InitCollectorInv == CollectorInit => CollectorInv
BY DEF CollectorInit, CollectorInv, CollectorTypes, HeldObjects, GoneWasDeletable, RowsAreKnown, Stored

LEMMA NextCollectorInv == CollectorInv /\ [CollectorNext]_collectorVars => CollectorInv'
<1> SUFFICES ASSUME CollectorInv, [CollectorNext]_collectorVars PROVE CollectorInv'
  BY Zenon
<1>1. ASSUME NEW o \in Object, Compact(o) PROVE CollectorInv'
  BY <1>1, FlagStep, Zenon DEF Compact
<1>2. ASSUME NEW R \in SUBSET Object, FlagByRetention(R) PROVE CollectorInv'
  BY <1>2, FlagStep, Zenon DEF FlagByRetention
<1>3. CASE (\E t \in Task : CatalogTaskFails(t)) \/ Shutdown \/ UNCHANGED collectorVars
  <2>1. /\ UNCHANGED <<junk, clock, store, mtime, row, flaggedAt>>
        /\ UNCHANGED <<listing, found, batch, doomed, checking, condemned>>
    BY <1>3, Zenon DEF CatalogTaskFails, Shutdown, collectorVars, config, catalog, objects, checker
  <2>2. HeldObjects'
    BY <2>1, SameWorld, HeldStays, Zenon DEF CollectorInv
  <2> QED  BY <2>1, <2>2, SameWorld, Zenon DEF CollectorInv
<1>4. CASE Pipeline
  BY <1>4, ListerStep, ReceiveStep, CheckAgeStep, QueryStep, CheckerSendStep, TaskStep,
     DeleteStep, ZenonT(30)
  DEF Pipeline
<1> QED
  BY <1>1, <1>2, <1>3, <1>4, UploadStep, RegisterStep, ClockTicksStep, RemoveStep, ListerStep,
     TaskStep, ZenonT(30)
  DEF CollectorNext

\* The invariant holds in every reachable state.
THEOREM CollectorInvariantHolds == CollectorSpec => []CollectorInv
BY InitCollectorInv, NextCollectorInv, PTL DEF CollectorSpec

LEMMA CollectorInvRows == CollectorInv => RowsHaveObjects
<1> SUFFICES ASSUME CollectorInv, NEW o \in Object, row[o] \in {"active", "flagged"}
             PROVE  store[o] = "present"
  BY Zenon DEF RowsHaveObjects
<1>1. o \in Stored \ junk
  BY Zenon DEF CollectorInv, RowsAreKnown
<1>2. o \notin Deletable
  BY <1>1, Zenon DEF Deletable
<1> QED  BY <1>1, <1>2, Zenon DEF CollectorInv, GoneWasDeletable, Stored, CollectorTypes

LEMMA CollectorInvFlagged == CollectorInv => FlaggedObjectsStay
<1> SUFFICES ASSUME CollectorInv, NEW o \in Object, row[o] \in {"flagged", "removed"},
                    clock <= flaggedAt[o] + FileCutoff
             PROVE  store[o] = "present"
  BY Zenon DEF FlaggedObjectsStay
<1>1. clock \in Nat /\ flaggedAt[o] \in Nat
  BY Zenon DEF CollectorInv, CollectorTypes
<1>2. row[o] # "removed"
  BY <1>1, ConstantTypes DEF CollectorInv, RowsAreKnown
<1> QED  BY <1>2, CollectorInvRows, Zenon DEF RowsHaveObjects

\* The checker and the deleter never take the object of a row in the catalog,
\* however long ago the catalog was asked.
THEOREM RowsKeepTheirObjects == CollectorSpec => []RowsHaveObjects
BY CollectorInvariantHolds, CollectorInvRows, PTL

\* The object of a flagged row stays for parquetfile_cutoff.
THEOREM FlaggedObjectsAreReadable == CollectorSpec => []FlaggedObjectsStay
BY CollectorInvariantHolds, CollectorInvFlagged, PTL
=============================================================================
