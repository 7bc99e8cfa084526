----------------------------- MODULE PlanProofs -----------------------------
(***************************************************************************)
(* What holds over any backend: of Reconcile, which plan an app gets for   *)
(* what is listed, and that show and apply agree on it; of ApplyCommand,   *)
(* which jobs a command may still have to work on.                         *)
(***************************************************************************)
EXTENDS BackendCalls, OrderingProofs, SequenceTheorems

-----------------------------------------------------------------------------
(* What a plan is made from.                                               *)

\* What a backend may list: indices are numbers, nothing is known of the rest.
IsListing(entries) ==
  /\ DOMAIN entries \subseteq Nat /\ IsFiniteSet(DOMAIN entries)
  /\ \A n \in DOMAIN entries : entries[n].index \in Nat

LEMMA AtIsFinite ==
  ASSUME NEW entries, IsListing(entries), NEW j, NEW idx
  PROVE  /\ EntriesOf(entries, j) \in SUBSET Nat
         /\ IsFiniteSet(EntriesOf(entries, j))
         /\ At(entries, j, idx) \in SUBSET EntriesOf(entries, j)
         /\ IsFiniteSet(At(entries, j, idx))
  <1>1. /\ EntriesOf(entries, j) \in SUBSET DOMAIN entries
        /\ At(entries, j, idx) \in SUBSET DOMAIN entries
        /\ At(entries, j, idx) \in SUBSET EntriesOf(entries, j)
    BY DEF EntriesOf, At
  <1>2. IsFiniteSet(DOMAIN entries) /\ DOMAIN entries \subseteq Nat
    BY DEF IsListing
  <1>3. /\ IsFiniteSet(EntriesOf(entries, j)) /\ IsFiniteSet(At(entries, j, idx))
    BY <1>1, <1>2, FS_Subset
  <1> QED BY <1>1, <1>2, <1>3

\* An index that is listed has the hash of one of the entries that say it.
LEMMA HashAtIsListed ==
  ASSUME NEW entries, IsListing(entries), NEW j, NEW idx
  PROVE  IF At(entries, j, idx) = {}
         THEN HashAt(entries, j, idx) = None
         ELSE \E n \in At(entries, j, idx) :
                HashAt(entries, j, idx) = entries[n].hash
  <1> DEFINE at == At(entries, j, idx)
  <1>1. at \in SUBSET Nat /\ IsFiniteSet(at)
    BY AtIsFinite
  <1>2. HashAt(entries, j, idx) = IF at = {} THEN None ELSE entries[Max(at)].hash
    BY DEF HashAt
  <1> HIDE DEF at
  <1>3. at # {} => Max(at) \in at
    BY <1>1, MaxIsIn
  <1>4. IF at = {} THEN HashAt(entries, j, idx) = None
        ELSE \E n \in at : HashAt(entries, j, idx) = entries[n].hash
    BY <1>2, <1>3
  <1> QED BY <1>4 DEF at

\* Equal hash lists, said index by index.
LEMMA SameHashes ==
  ASSUME NEW entries, IsListing(entries), NEW j, EntriesOf(entries, j) # {},
         NEW v \in Version
  PROVE  ListedHashes(entries, j) = DesiredHashes(v)
         <=> /\ \A n \in EntriesOf(entries, j) :
                  entries[n].index < Len(Schedules[v])
             /\ \A n \in 1..Len(Schedules[v]) :
                  HashAt(entries, j, n - 1) = Hash(v, n - 1)
  <1> DEFINE indices == {entries[n].index : n \in EntriesOf(entries, j)}
             size == Len(Schedules[v])
             top == Max(indices)
             listed == [n \in 1..top + 1 |-> HashAt(entries, j, n - 1)]
             desired == [n \in 1..size |-> Hash(v, n - 1)]
  <1>1. indices \in SUBSET Nat /\ indices # {}
    BY DEF IsListing, EntriesOf
  <1>2. IsFiniteSet(indices)
    <2>1. IsFiniteSet(EntriesOf(entries, j))
      BY AtIsFinite
    <2> DEFINE f == [n \in EntriesOf(entries, j) |-> entries[n].index]
    <2>2. f \in Surjection(EntriesOf(entries, j), indices)
      BY DEF Surjection
    <2> HIDE DEF f, indices
    <2> QED BY <2>1, <2>2, FS_Surjection
  <1>3. top \in indices /\ \A i \in indices : i <= top
    <2> HIDE DEF indices
    <2> QED BY <1>1, <1>2, MaxIsIn
  <1>4. size \in Nat /\ size > 0 /\ top \in Nat
    BY <1>1, <1>3, ReconcileAssumption
  <1>5. ListedHashes(entries, j) = listed /\ DesiredHashes(v) = desired
    BY DEF ListedHashes, DesiredHashes
  <1>6. /\ DOMAIN listed = 1..top + 1
        /\ DOMAIN desired = 1..size
        /\ \A n \in 1..top + 1 : listed[n] = HashAt(entries, j, n - 1)
        /\ \A n \in 1..size : desired[n] = Hash(v, n - 1)
    OBVIOUS
  <1>7. \A i \in indices : \E n \in EntriesOf(entries, j) : i = entries[n].index
    OBVIOUS
  <1>8. \A n \in EntriesOf(entries, j) : entries[n].index \in indices
    OBVIOUS
  <1>9. ASSUME listed = desired
        PROVE  /\ \A n \in EntriesOf(entries, j) : entries[n].index < size
               /\ \A n \in 1..size : HashAt(entries, j, n - 1) = Hash(v, n - 1)
    <2>1. 1..top + 1 = 1..size
      <3> HIDE DEF listed, desired, top, size
      <3> QED BY <1>6, <1>9
    <2>2. top + 1 = size
      <3> HIDE DEF listed, desired, top, size
      <3>1. top + 1 \in 1..size /\ size \in 1..top + 1
        BY <1>4, <2>1
      <3> QED BY <1>4, <3>1
    <2> HIDE DEF listed, desired, top, size, indices
    <2>3. \A n \in EntriesOf(entries, j) : entries[n].index < size
      <3> TAKE n \in EntriesOf(entries, j)
      <3>1. entries[n].index \in Nat /\ entries[n].index <= top
        BY <1>1, <1>3, <1>8
      <3> QED BY <1>4, <2>2, <3>1
    <2>4. \A n \in 1..size : HashAt(entries, j, n - 1) = Hash(v, n - 1)
      BY <1>6, <1>9, <2>2
    <2> QED BY <2>3, <2>4
  <1>10. ASSUME \A n \in EntriesOf(entries, j) : entries[n].index < size,
                \A n \in 1..size : HashAt(entries, j, n - 1) = Hash(v, n - 1)
         PROVE  listed = desired
    <2> HIDE DEF top, size, indices
    <2>1. top < size
      BY <1>3, <1>7, <1>10
    <2>2. HashAt(entries, j, size - 1) # None
      <3>1. Hash(v, size - 1) \in Version \X Nat
        BY <1>4 DEF Hash
      <3> QED BY <1>4, <1>10, <3>1, ReconcileAssumption
    <2>3. At(entries, j, size - 1) # {}
      BY <2>2, HashAtIsListed
    <2>4. PICK n \in EntriesOf(entries, j) : entries[n].index = size - 1
      BY <2>3 DEF At
    <2>5. size - 1 <= top
      BY <1>3, <1>8, <2>4
    <2>6. top + 1 = size
      BY <1>4, <2>1, <2>5
    <2> QED BY <1>10, <2>6
  <1> HIDE DEF listed, desired
  <1>11. listed = desired
         <=> /\ \A n \in EntriesOf(entries, j) : entries[n].index < size
             /\ \A n \in 1..size : HashAt(entries, j, n - 1) = Hash(v, n - 1)
    BY <1>9, <1>10
  <1> QED BY <1>5, <1>11 DEF size

LEMMA SkippedIs ==
  ASSUME NEW m \in Manifest, NEW entries, NEW j \in DOMAIN m.jobs
  PROVE  /\ j \in Listed(entries) <=> EntriesOf(entries, j) # {}
         /\ j \in Compute(m, entries).skips
            <=> /\ EntriesOf(entries, j) # {}
                /\ ListedHashes(entries, j) = DesiredHashes(m.jobs[j])
  <1>1. j \in Listed(entries) <=> EntriesOf(entries, j) # {}
    BY DEF Listed, EntriesOf
  <1>2. Compute(m, entries).skips =
          {k \in DOMAIN m.jobs \cap Listed(entries) :
             ListedHashes(entries, k) = DesiredHashes(m.jobs[k])}
    BY DEF Compute
  <1> QED BY <1>1, <1>2

\* show counts the entries and compares hashes by index, apply compares lists
\* of hashes: whatever a backend lists, a job that show calls in sync is one
\* that apply skips, and the other way round when no index is listed twice
\* (computeInSync, cli/commands/show.go:178).
THEOREM ShowAlwaysAgrees ==
  ASSUME NEW m \in Manifest, NEW entries, IsListing(entries)
  PROVE  ShowAgrees(m, entries)
  <1> SUFFICES ASSUME NEW j \in DOMAIN m.jobs
               PROVE  LET shown == InSync(m.jobs[j], entries, j)
                          skipped == j \in Compute(m, entries).skips
                      IN  /\ shown => skipped
                          /\ skipped /\ ListedOnce(entries, j) => shown
    BY DEF ShowAgrees
  <1> DEFINE E == EntriesOf(entries, j)
             v == m.jobs[j]
             size == Len(Schedules[v])
             agree == \A n \in 1..size : HashAt(entries, j, n - 1) = Hash(v, n - 1)
             within == \A n \in E : entries[n].index < size
  <1>1. v \in Version
    BY CommandAssumption
  <1>2. size \in Nat /\ size > 0 /\ DOMAIN Schedules[v] = 1..size
    BY <1>1, ReconcileAssumption
  <1>3. InSync(v, entries, j) <=> Cardinality(E) = size /\ agree
    BY <1>2 DEF InSync
  <1>4. IsFiniteSet(E) /\ \A n \in E : entries[n].index \in Nat
    <2>1. \A n \in E : n \in DOMAIN entries
      BY DEF EntriesOf
    <2> QED BY <2>1, AtIsFinite DEF IsListing
  <1> HIDE DEF v, E
  <1>5. E # {} => (ListedHashes(entries, j) = DesiredHashes(v) <=> within /\ agree)
    BY <1>1, SameHashes, Zenon DEF E
  <1>6. j \in Compute(m, entries).skips <=> E # {} /\ within /\ agree
    BY <1>5, SkippedIs, Zenon DEF v, E
  <1>7. ASSUME agree
        PROVE  \A n \in 1..size : At(entries, j, n - 1) # {}
    <2> TAKE n \in 1..size
    <2>1. Hash(v, n - 1) \in Version \X Nat
      BY <1>1, <1>2 DEF Hash
    <2>2. HashAt(entries, j, n - 1) # None
      BY <1>7, <2>1, ReconcileAssumption
    <2> QED BY <2>2, HashAtIsListed
  <1>8. Cardinality(1..size) = size /\ IsFiniteSet(1..size)
    <2> HIDE DEF size
    <2> QED BY <1>2, FS_Interval
  <1> HIDE DEF size
  <1>9. ASSUME Cardinality(E) = size, agree
        PROVE  E # {} /\ within
    <2> DEFINE f == [n \in 1..size |-> CHOOSE k \in At(entries, j, n - 1) : TRUE]
    <2>1. \A n \in 1..size : f[n] \in At(entries, j, n - 1)
      BY <1>7, <1>9
    <2>2. \A n \in 1..size : f[n] \in E /\ entries[f[n]].index = n - 1
      BY <2>1 DEF At, E
    <2>3. f \in [1..size -> E]
      BY <2>2
    <2> HIDE DEF f
    <2>4. f \in Injection(1..size, E)
      BY <2>2, <2>3 DEF Injection, IsInjective
    <2>5. f \in Surjection(1..size, E)
      BY <1>4, <1>8, <1>9, <2>4, FS_Injection
    <2>6. \A k \in E : \E n \in 1..size : f[n] = k
      BY <2>5 DEF Surjection
    <2>7. \A k \in E : entries[k].index < size
      BY <1>2, <2>2, <2>6
    <2>8. f[1] \in E
      BY <1>2, <2>2
    <2> QED BY <2>7, <2>8
  <1>10. ASSUME E # {}, within, agree, ListedOnce(entries, j)
         PROVE  Cardinality(E) = size
    <2> DEFINE f == [k \in E |-> entries[k].index + 1]
    <2>1. \A k \in E : f[k] = entries[k].index + 1 /\ f[k] \in 1..size
      BY <1>2, <1>4, <1>10
    <2>2. f \in [E -> 1..size]
      BY <2>1
    <2>3. \A k, l \in E : entries[k].index = entries[l].index => k = l
      BY <1>10 DEF ListedOnce, E
    <2> HIDE DEF f
    <2>4. \A k, l \in E : f[k] = f[l] => k = l
      BY <1>4, <2>1, <2>3
    <2>5. f \in Injection(E, 1..size)
      BY <2>2, <2>4 DEF Injection, IsInjective
    <2>6. \A n \in 1..size : \E k \in E : f[k] = n
      <3> TAKE n \in 1..size
      <3>1. PICK k \in At(entries, j, n - 1) : TRUE
        BY <1>7, <1>10
      <3>2. k \in E /\ entries[k].index = n - 1
        BY <3>1 DEF At, E
      <3> QED BY <2>1, <3>2
    <2>7. f \in Surjection(E, 1..size)
      BY <2>2, <2>6 DEF Surjection
    <2> QED BY <1>8, <2>5, <2>7, FS_Injection
  <1> QED BY <1>3, <1>6, <1>9, <1>10 DEF v

\* No two entries have the same job and index.
IsOnce(entries) ==
  \A k, l \in DOMAIN entries :
    entries[k].job = entries[l].job /\ entries[k].index = entries[l].index => k = l

LEMMA EntryHash ==
  ASSUME NEW entries, IsListing(entries), IsOnce(entries), NEW k \in DOMAIN entries
  PROVE  HashAt(entries, entries[k].job, entries[k].index) = entries[k].hash
  <1> DEFINE j == entries[k].job
             idx == entries[k].index
  <1>1. k \in At(entries, j, idx)
    BY DEF At, EntriesOf
  <1>2. \A l \in At(entries, j, idx) :
          l \in DOMAIN entries /\ entries[l].job = j /\ entries[l].index = idx
    BY DEF At, EntriesOf
  <1>3. \A l \in At(entries, j, idx) : l = k
    BY <1>2 DEF IsOnce
  <1> HIDE DEF j, idx
  <1>4. \E n \in At(entries, j, idx) : HashAt(entries, j, idx) = entries[n].hash
    BY <1>1, HashAtIsListed
  <1>5. HashAt(entries, j, idx) = entries[k].hash
    BY <1>3, <1>4
  <1> QED BY <1>5 DEF j, idx

LEMMA PlanIs ==
  ASSUME NEW m \in Manifest, NEW entries
  PROVE  IsNoop(Compute(m, entries)) <=>
           /\ \A j \in DOMAIN m.jobs :
                /\ EntriesOf(entries, j) # {}
                /\ ListedHashes(entries, j) = DesiredHashes(m.jobs[j])
           /\ \A k \in DOMAIN entries :
                AppOf[entries[k].job] = m.app => entries[k].job \in DOMAIN m.jobs
  <1> DEFINE same(j) == ListedHashes(entries, j) = DesiredHashes(m.jobs[j])
             desired == DOMAIN m.jobs
             found == Listed(entries)
             outside == {j \in found \ desired : AppOf[j] = m.app}
  <1>1. IsNoop(Compute(m, entries)) <=>
          /\ desired \ found = {}
          /\ {j \in desired \cap found : ~same(j)} = {}
          /\ outside = {}
    BY DEF Compute, IsNoop
  <1>2. \A j : j \in found <=> EntriesOf(entries, j) # {}
    BY DEF Listed, EntriesOf
  <1>3. outside = {} <=>
          \A k \in DOMAIN entries :
            AppOf[entries[k].job] = m.app => entries[k].job \in desired
    BY DEF Listed
  <1> HIDE DEF same, desired, found, outside
  <1>4. IsNoop(Compute(m, entries)) <=>
          (\A j \in desired : EntriesOf(entries, j) # {} /\ same(j)) /\ outside = {}
    BY <1>1, <1>2
  <1> QED BY <1>3, <1>4 DEF same, desired

\* The entries of the app of m are those that m asks for, with its hashes.
AsAsked(m, entries) ==
  /\ \A j \in DOMAIN m.jobs : \A n \in 1..Len(Schedules[m.jobs[j]]) :
       \E k \in DOMAIN entries :
         /\ entries[k].job = j /\ entries[k].index = n - 1
         /\ entries[k].hash = Hash(m.jobs[j], n - 1)
  /\ \A k \in DOMAIN entries :
       AppOf[entries[k].job] = m.app =>
         /\ entries[k].job \in DOMAIN m.jobs
         /\ entries[k].index < Len(Schedules[m.jobs[entries[k].job]])

\* Over a backend that lists each schedule once, the plan for a manifest is
\* empty exactly when what is listed is what the manifest asks for.
LEMMA NoopIs ==
  ASSUME NEW m \in Manifest, NEW entries, IsListing(entries), IsOnce(entries)
  PROVE  IsNoop(Compute(m, entries)) <=> AsAsked(m, entries)
  <1> DEFINE size(j) == Len(Schedules[m.jobs[j]])
             there(j, n) == \E k \in DOMAIN entries :
                              /\ entries[k].job = j /\ entries[k].index = n - 1
                              /\ entries[k].hash = Hash(m.jobs[j], n - 1)
             agree(j) == \A n \in 1..size(j) :
                           HashAt(entries, j, n - 1) = Hash(m.jobs[j], n - 1)
             within(j) == \A n \in EntriesOf(entries, j) : entries[n].index < size(j)
  <1>1. \A k \in DOMAIN entries : entries[k].index \in Nat
    BY DEF IsListing
  <1>2. \A j \in DOMAIN m.jobs :
          /\ AppOf[j] = m.app /\ m.jobs[j] \in Version
          /\ size(j) \in Nat /\ size(j) > 0
    BY CommandAssumption, ReconcileAssumption
  <1>3. \A j, n : n \in EntriesOf(entries, j)
                 <=> n \in DOMAIN entries /\ entries[n].job = j
    BY DEF EntriesOf
  <1>4. ASSUME NEW j \in DOMAIN m.jobs, EntriesOf(entries, j) # {}
        PROVE  ListedHashes(entries, j) = DesiredHashes(m.jobs[j])
               <=> within(j) /\ agree(j)
    BY <1>2, <1>4, SameHashes
  <1>5. ASSUME NEW j \in DOMAIN m.jobs, NEW n \in 1..size(j)
        PROVE  HashAt(entries, j, n - 1) = Hash(m.jobs[j], n - 1) <=> there(j, n)
    <2>1. ASSUME HashAt(entries, j, n - 1) = Hash(m.jobs[j], n - 1)
          PROVE  there(j, n)
      <3>1. Hash(m.jobs[j], n - 1) \in Version \X Nat
        BY <1>2, <1>5 DEF Hash
      <3>2. At(entries, j, n - 1) # {}
        BY <2>1, <3>1, HashAtIsListed, ReconcileAssumption
      <3>3. PICK k \in DOMAIN entries :
              entries[k].job = j /\ entries[k].index = n - 1
        BY <3>2 DEF At, EntriesOf
      <3>4. entries[k].hash = Hash(m.jobs[j], n - 1)
        BY <2>1, <3>3, EntryHash
      <3> QED BY <3>3, <3>4
    <2>2. ASSUME there(j, n)
          PROVE  HashAt(entries, j, n - 1) = Hash(m.jobs[j], n - 1)
      <3>1. PICK k \in DOMAIN entries :
              /\ entries[k].job = j /\ entries[k].index = n - 1
              /\ entries[k].hash = Hash(m.jobs[j], n - 1)
        BY <2>2
      <3> QED BY <3>1, EntryHash
    <2> QED BY <2>1, <2>2
  <1>6. \A j \in DOMAIN m.jobs : agree(j) <=> \A n \in 1..size(j) : there(j, n)
    BY <1>5
  <1>7. ASSUME NEW j \in DOMAIN m.jobs, \A n \in 1..size(j) : there(j, n)
        PROVE  EntriesOf(entries, j) # {}
    <2>1. 1 \in 1..size(j)
      BY <1>2
    <2>2. there(j, 1)
      BY <1>7, <2>1
    <2> QED BY <1>3, <2>2
  <1> HIDE DEF there, agree
  <1>8. \A j \in DOMAIN m.jobs :
          /\ EntriesOf(entries, j) # {}
          /\ ListedHashes(entries, j) = DesiredHashes(m.jobs[j])
          <=> within(j) /\ \A n \in 1..size(j) : there(j, n)
    BY <1>4, <1>6, <1>7
  <1>9. IsNoop(Compute(m, entries)) <=>
          /\ \A j \in DOMAIN m.jobs : within(j) /\ \A n \in 1..size(j) : there(j, n)
          /\ \A k \in DOMAIN entries :
               AppOf[entries[k].job] = m.app => entries[k].job \in DOMAIN m.jobs
    BY <1>8, PlanIs
  <1>10. (\A j \in DOMAIN m.jobs : within(j)) <=>
           \A k \in DOMAIN entries :
             entries[k].job \in DOMAIN m.jobs => entries[k].index < size(entries[k].job)
    BY <1>3
  <1>11. \A k \in DOMAIN entries :
           entries[k].job \in DOMAIN m.jobs => AppOf[entries[k].job] = m.app
    BY <1>2
  <1> HIDE DEF size, within
  <1>12. IsNoop(Compute(m, entries)) <=>
           /\ \A j \in DOMAIN m.jobs : \A n \in 1..size(j) : there(j, n)
           /\ \A k \in DOMAIN entries :
                AppOf[entries[k].job] = m.app =>
                  entries[k].job \in DOMAIN m.jobs /\ entries[k].index < size(entries[k].job)
    BY <1>9, <1>10, <1>11
  <1> QED BY <1>12 DEF AsAsked, there, size

-----------------------------------------------------------------------------
(* The calls of a sequence.                                                *)

LEMMA RangeOfTail ==
  ASSUME NEW S, NEW q \in Seq(S), q # <<>>
  PROVE  /\ Head(q) \in Range(q)
         /\ \A x : x \in Range(Tail(q)) => x \in Range(q)
         /\ \A x : x \in Range(q) => x = Head(q) \/ x \in Range(Tail(q))
  <1>1. /\ Len(q) \in Nat /\ Len(q) > 0 /\ DOMAIN q = 1..Len(q)
        /\ Head(q) = q[1] /\ DOMAIN Tail(q) = 1..Len(q) - 1
        /\ \A i \in 1..Len(q) - 1 : Tail(q)[i] = q[i + 1]
    OBVIOUS
  <1>2. \A i \in 1..Len(q) : i = 1 \/ (i - 1 \in 1..Len(q) - 1 /\ (i - 1) + 1 = i)
    BY <1>1
  <1>3. \A i \in 1..Len(q) - 1 : i + 1 \in 1..Len(q)
    BY <1>1
  <1>4. 1 \in DOMAIN q
    BY <1>1
  <1>5. ASSUME NEW x \in Range(q) PROVE x = Head(q) \/ x \in Range(Tail(q))
    <2>1. PICK i \in DOMAIN q : x = q[i]
      BY DEF Range
    <2>2. CASE i = 1
      BY <1>1, <2>1, <2>2
    <2>3. CASE i # 1
      <3> DEFINE k == i - 1
      <3>1. k \in DOMAIN Tail(q) /\ k + 1 = i
        BY <1>1, <1>2, <2>3
      <3> HIDE DEF k
      <3>2. Tail(q)[k] = x
        BY <1>1, <2>1, <3>1
      <3> QED BY <3>1, <3>2 DEF Range
    <2> QED BY <2>2, <2>3
  <1>6. ASSUME NEW x \in Range(Tail(q)) PROVE x \in Range(q)
    <2>1. PICK i \in DOMAIN Tail(q) : x = Tail(q)[i]
      BY DEF Range
    <2> QED BY <1>1, <1>3, <2>1 DEF Range
  <1> QED BY <1>1, <1>4, <1>5, <1>6 DEF Range

LEMMA RangeOfConcat ==
  ASSUME NEW S, NEW p \in Seq(S), NEW q \in Seq(S), NEW x
  PROVE  x \in Range(p \o q) <=> x \in Range(p) \/ x \in Range(q)
  <1>1. /\ Len(p) \in Nat /\ Len(q) \in Nat
        /\ DOMAIN p = 1..Len(p) /\ DOMAIN q = 1..Len(q)
        /\ DOMAIN (p \o q) = 1..Len(p) + Len(q)
        /\ \A i \in 1..Len(p) + Len(q) :
             (p \o q)[i] = IF i <= Len(p) THEN p[i] ELSE q[i - Len(p)]
    OBVIOUS
  <1> DEFINE r == p \o q
  <1> HIDE DEF r
  <1>2. ASSUME NEW i \in DOMAIN p PROVE i \in DOMAIN r /\ r[i] = p[i]
    BY <1>1 DEF r
  <1>3. ASSUME NEW i \in DOMAIN q
        PROVE  i + Len(p) \in DOMAIN r /\ r[i + Len(p)] = q[i]
    <2>1. i + Len(p) \in 1..Len(p) + Len(q) /\ ~(i + Len(p) <= Len(p))
          /\ (i + Len(p)) - Len(p) = i
      BY <1>1
    <2> QED BY <1>1, <2>1 DEF r
  <1>4. ASSUME NEW i \in DOMAIN r
        PROVE  \/ \E k \in DOMAIN p : r[i] = p[k]
               \/ \E k \in DOMAIN q : r[i] = q[k]
    <2>1. CASE i <= Len(p)
      <3>1. i \in DOMAIN p
        BY <1>1, <2>1 DEF r
      <3> QED BY <1>2, <3>1
    <2>2. CASE ~(i <= Len(p))
      <3>1. i - Len(p) \in DOMAIN q
        BY <1>1, <2>2 DEF r
      <3> QED BY <1>1, <2>2, <3>1 DEF r
    <2> QED BY <2>1, <2>2
  <1>5. x \in Range(r) <=> \E i \in DOMAIN r : x = r[i]
    BY DEF Range
  <1>6. x \in Range(p) <=> \E i \in DOMAIN p : x = p[i]
    BY DEF Range
  <1>7. x \in Range(q) <=> \E i \in DOMAIN q : x = q[i]
    BY DEF Range
  <1> QED BY <1>2, <1>3, <1>4, <1>5, <1>6, <1>7 DEF r

-----------------------------------------------------------------------------
(* The commands, over any backend.                                         *)

Plan == [creates : SUBSET Job, skips : SUBSET Job,
         updates : SUBSET Job, deletes : SUBSET Job]

\* A command that has got that far is an apply of a manifest; what it is to
\* create or update, and what it writes specs of, is in the manifest.
ApplyOK(c) ==
  /\ pc[c] \notin Stopped \cup {"prune"} =>
       /\ want[c] \in Manifest
       /\ plan[c].creates \cup plan[c].updates \subseteq DOMAIN want[c].jobs
  /\ pc[c] \in {"update", "create", "specs", "fill"} =>
       todo[c] \subseteq DOMAIN want[c].jobs
  /\ pc[c] = "fill" => todo[c] # {}

CommandInv ==
  /\ CommandTypeOK
  /\ todo \in [Command -> SUBSET Job]
  /\ plan \in [Command -> Plan]
  /\ \A c \in Command : ApplyOK(c)

LEMMA CommandInitOK == CommandInit => CommandInv
  BY DEF CommandInit, CommandInv, CommandTypeOK, ApplyOK, Plan, NoPlan, Stopped

\* The next job of a pass is one of those left.
LEMMA NextJobIs ==
  ASSUME CommandInv, NEW c \in Command, todo[c] # {}
  PROVE  NextJob(c) \in todo[c] /\ NextJob(c) \in Job
  <1>1. todo[c] \in SUBSET Nat /\ todo[c] \subseteq Job
    BY ReconcileAssumption DEF CommandInv
  <1> QED BY <1>1, MinIsIn DEF NextJob

LEMMA ComputeIs ==
  ASSUME NEW m \in Manifest, NEW entries, Listed(entries) \subseteq Job
  PROVE  /\ Compute(m, entries) \in Plan
         /\ Compute(m, entries).creates \cup Compute(m, entries).updates
              \subseteq DOMAIN m.jobs
  <1>1. DOMAIN m.jobs \subseteq Job
    BY CommandAssumption
  <1> QED BY <1>1 DEF Compute, Plan

LEMMA ApplyKeeps ==
  ASSUME CommandInv, NEW c \in Command, NEW m \in Manifest, Apply(c, m)
  PROVE  CommandInv'
  BY DEF CommandInv, CommandTypeOK, ApplyOK, Plan, NoPlan, Stopped, Apply, Goto

LEMMA ComputePlanKeeps ==
  ASSUME CommandInv, NEW c \in Command, NEW entries, Listed(entries) \subseteq Job,
         ComputePlan(c, entries)
  PROVE  CommandInv'
  <1>1. want[c] \in Manifest
    BY DEF CommandInv, ApplyOK, ComputePlan, Stopped
  <1> DEFINE p == Compute(want[c], entries)
  <1>2. p \in Plan /\ p.creates \cup p.updates \subseteq DOMAIN want[c].jobs
    BY <1>1, ComputeIs
  <1> HIDE DEF p
  <1>3. /\ plan' = [plan EXCEPT ![c] = p]
        /\ pc' = [pc EXCEPT ![c] = "delete"]
        /\ todo' = [todo EXCEPT ![c] = plan'[c].deletes]
        /\ specs' = specs /\ want' = want
    BY DEF ComputePlan, Pass, Goto, p
  <1>4. plan'[c] = p /\ p.deletes \subseteq Job
    BY <1>2, <1>3 DEF CommandInv, Plan
  <1> QED BY <1>1, <1>2, <1>3, <1>4 DEF CommandInv, CommandTypeOK, ApplyOK, Stopped

LEMMA PruneKeeps ==
  ASSUME CommandInv, NEW c \in Command, NEW entries, Listed(entries) \subseteq Job,
         Prune(c, entries)
  PROVE  CommandInv'
  <1>1. PICK js \in SUBSET Job : Pass(c, "prune", js)
    BY DEF Prune
  <1>2. /\ want' = [want EXCEPT ![c] = None]
        /\ plan' = [plan EXCEPT ![c] = NoPlan]
        /\ specs' = specs
    BY DEF Prune
  <1> QED BY <1>1, <1>2 DEF CommandInv, CommandTypeOK, ApplyOK, Plan, NoPlan,
                            Stopped, Pass, Goto

LEMMA CallKeeps ==
  ASSUME CommandInv, NEW c \in Command, NEW j \in Job,
         CallDelete(c, j) \/ CallUpdate(c, j) \/ CallCreate(c, j)
  PROVE  CommandInv'
  <1>1. /\ todo' = [todo EXCEPT ![c] = @ \ {j}]
        /\ pc[c] \in {"delete", "prune", "update", "create"}
        /\ UNCHANGED <<specs, pc, want, plan>>
    BY DEF CallDelete, CallUpdate, CallCreate, Done
  <1> QED BY <1>1 DEF CommandInv, CommandTypeOK, ApplyOK, Stopped

LEMMA NextPassKeeps ==
  ASSUME CommandInv, NEW c \in Command, NextPass(c)
  PROVE  CommandInv'
  <1>1. specs' = specs /\ want' = want /\ plan' = plan /\ c \in Command
    BY DEF NextPass
  <1>2. /\ plan[c].updates \subseteq Job /\ plan[c].creates \subseteq Job
        /\ WithSpecs(plan[c].deletes) \subseteq Job
    BY DEF CommandInv, Plan, WithSpecs
  <1>3. CASE pc[c] = "delete" /\ Pass(c, "update", plan[c].updates)
    BY <1>1, <1>2, <1>3 DEF CommandInv, CommandTypeOK, ApplyOK, Stopped, Pass, Goto
  <1>4. CASE pc[c] = "update" /\ Pass(c, "create", plan[c].creates)
    BY <1>1, <1>2, <1>4 DEF CommandInv, CommandTypeOK, ApplyOK, Stopped, Pass, Goto
  <1>5. CASE pc[c] = "create" /\ Pass(c, "specs", WithSpecs(DOMAIN want[c].jobs))
    <2>1. want[c] \in Manifest
      BY <1>5 DEF CommandInv, ApplyOK, Stopped
    <2>2. /\ WithSpecs(DOMAIN want[c].jobs) \subseteq DOMAIN want[c].jobs
          /\ DOMAIN want[c].jobs \subseteq Job
      BY <2>1, CommandAssumption DEF WithSpecs
    <2> QED BY <1>1, <1>5, <2>1, <2>2
            DEF CommandInv, CommandTypeOK, ApplyOK, Stopped, Pass, Goto
  <1>6. CASE pc[c] = "specs" /\ Pass(c, "orphans", WithSpecs(plan[c].deletes))
    BY <1>1, <1>2, <1>6 DEF CommandInv, CommandTypeOK, ApplyOK, Stopped, Pass, Goto
  <1>7. CASE pc[c] \in {"orphans", "prune"} /\ Pass(c, "done", {})
    BY <1>1, <1>7 DEF CommandInv, CommandTypeOK, ApplyOK, Stopped, Pass, Goto
  <1> QED BY <1>3, <1>4, <1>5, <1>6, <1>7 DEF NextPass

LEMMA SpecStepKeeps ==
  ASSUME CommandInv, NEW c \in Command, SpecStep(c)
  PROVE  CommandInv'
  <1>1. CASE TruncateSpec(c)
    BY <1>1 DEF TruncateSpec, CommandInv, CommandTypeOK, ApplyOK, Stopped, Goto
  <1>2. CASE FillSpec(c)
    <2> DEFINE j == NextJob(c)
    <2>1. /\ todo[c] # {} /\ want[c] \in Manifest
          /\ todo[c] \subseteq DOMAIN want[c].jobs
      BY <1>2 DEF FillSpec, CommandInv, ApplyOK, Stopped
    <2>2. j \in Job /\ want[c].jobs[j] \in Version
      BY <2>1, NextJobIs, CommandAssumption
    <2> HIDE DEF j
    <2>3. /\ specs' = [specs EXCEPT ![j] = want[c].jobs[j]]
          /\ pc' = [pc EXCEPT ![c] = "specs"]
          /\ todo' = [todo EXCEPT ![c] = todo[c] \ {j}]
          /\ want' = want /\ plan' = plan
      BY <1>2 DEF FillSpec, Pass, Goto, j
    <2>4. specs' \in [Job -> Version \cup {None, Torn}]
      <3> DEFINE v == want[c].jobs[j]
      <3>1. v \in Version /\ specs' = [specs EXCEPT ![j] = v]
        BY <2>2, <2>3
      <3> HIDE DEF v
      <3> QED BY <2>2, <3>1 DEF CommandInv, CommandTypeOK
    <2>5. pc[c] = "fill"
      BY <1>2 DEF FillSpec
    <2> QED BY <2>1, <2>3, <2>4, <2>5
            DEF CommandInv, CommandTypeOK, ApplyOK, Stopped
  <1>3. CASE RemoveOrphan(c)
    BY <1>3 DEF RemoveOrphan, Done, CommandInv, CommandTypeOK, ApplyOK, Stopped
  <1> QED BY <1>1, <1>2, <1>3 DEF SpecStep

LEMMA FailKeeps ==
  ASSUME CommandInv, NEW c \in Command, Fail(c)
  PROVE  CommandInv'
  BY DEF Fail, Pass, Goto, CommandInv, CommandTypeOK, ApplyOK, Stopped

LEMMA IdleKeeps ==
  ASSUME CommandInv, UNCHANGED commandVars
  PROVE  CommandInv'
  BY DEF commandVars, CommandInv, CommandTypeOK, ApplyOK, Stopped
=============================================================================
