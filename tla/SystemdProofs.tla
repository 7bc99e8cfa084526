---------------------------- MODULE SystemdProofs ----------------------------
(***************************************************************************)
(* The safety of SystemdApply for any jobs, versions and units: a unit has *)
(* the name that its annotations say and a plan is empty exactly when      *)
(* nothing is to be done, for any commands at once; and, for a command     *)
(* with no other beside it, what systemd fires has its files, wherever the *)
(* command stops, and the units of an app are what the manifest says after *)
(* an apply that succeeds.                                                 *)
(***************************************************************************)
EXTENDS SystemdApply, PlanProofs

-----------------------------------------------------------------------------
(* What systemd has on disk.                                               *)

HasName(f, u) ==
  <<f.job, f.index>> \in DOMAIN ScheduleName /\ ScheduleName[<<f.job, f.index>>] = u

\* A unit whose files are cronix's has the name that they say.
UnitsOK ==
  /\ files \in [{"timer", "service"} -> [Unit -> File \cup {None, Torn, Foreign}]]
  /\ \A kind \in {"timer", "service"}, u \in Unit :
       IsOwned(files[kind][u]) => HasName(files[kind][u], u)
  /\ enabled \subseteq Unit
  /\ running \in [Unit -> File \cup {None}]

timers == files["timer"]

OwnedUnits == {u \in Unit : IsOwned(timers[u])}

LEMMA OwnedIs ==
  ASSUME SystemdAssumption, UnitsOK
  PROVE  /\ OwnedUnits \in SUBSET Nat /\ IsFiniteSet(OwnedUnits)
         /\ \A u \in OwnedUnits :
              /\ u \in Unit /\ timers[u] \in File /\ HasName(timers[u], u)
              /\ timers[u].job \in Job /\ timers[u].index \in Nat
              /\ timers[u].hash \in Version \X Nat /\ timers[u].edited \in BOOLEAN
  <1>1. OwnedUnits \in SUBSET Unit /\ Unit \subseteq Nat /\ IsFiniteSet(Unit)
    BY DEF OwnedUnits, SystemdAssumption
  <1>2. \A u \in OwnedUnits : timers[u] \in File /\ HasName(timers[u], u)
    BY DEF OwnedUnits, UnitsOK, IsOwned, timers
  <1>3. \A f \in File : /\ f.job \in Job /\ f.index \in Nat
                        /\ f.hash \in Version \X Nat /\ f.edited \in BOOLEAN
    BY DEF File
  <1> QED BY <1>1, <1>2, <1>3, FS_Subset

\* Each owned timer is listed once, by its job and index.
LEMMA ListIs ==
  ASSUME SystemdAssumption, UnitsOK
  PROVE  /\ IsListing(List(timers)) /\ IsOnce(List(timers))
         /\ Listed(List(timers)) \subseteq Job
         /\ \A k \in DOMAIN List(timers) : \E u \in OwnedUnits :
              List(timers)[k] = Entry(timers[u])
         /\ \A u \in OwnedUnits : \E k \in DOMAIN List(timers) :
              List(timers)[k] = Entry(timers[u])
  <1> DEFINE names == InOrder(OwnedUnits)
             size == Cardinality(OwnedUnits)
             list == List(timers)
  <1>1. /\ size \in Nat /\ DOMAIN names = 1..size
        /\ \A k \in 1..size : names[k] \in OwnedUnits
        /\ \A k, l \in 1..size : names[k] = names[l] => k = l
        /\ \A u \in OwnedUnits : \E k \in 1..size : names[k] = u
    BY OwnedIs, InOrderLists
  <1>2. list = [k \in DOMAIN names |-> Entry(timers[names[k]])]
    BY DEF List, OwnedUnits
  <1> HIDE DEF names, size, list
  <1>3. /\ DOMAIN list = 1..size
        /\ \A k \in 1..size : list[k] = Entry(timers[names[k]])
    BY <1>1, <1>2
  <1>4. \A k \in 1..size : /\ list[k].job = timers[names[k]].job
                           /\ list[k].index = timers[names[k]].index
    BY <1>3 DEF Entry
  <1>5. \A k \in 1..size : list[k].job \in Job /\ list[k].index \in Nat
    BY <1>1, <1>4, OwnedIs
  <1>6. IsListing(list)
    <2>1. IsFiniteSet(1..size) /\ 1..size \subseteq Nat
      BY <1>1, FS_Interval
    <2> QED BY <1>3, <1>5, <2>1 DEF IsListing
  <1>7. \A k \in 1..size : ScheduleName[<<list[k].job, list[k].index>>] = names[k]
    BY <1>1, <1>4, OwnedIs DEF HasName
  <1>8. IsOnce(list)
    <2> SUFFICES ASSUME NEW k \in 1..size, NEW l \in 1..size,
                        list[k].job = list[l].job, list[k].index = list[l].index
                 PROVE  k = l
      BY <1>3 DEF IsOnce
    <2>1. <<list[k].job, list[k].index>> = <<list[l].job, list[l].index>>
      OBVIOUS
    <2>2. names[k] = names[l]
      BY <1>7, <2>1
    <2> QED BY <1>1, <2>2
  <1>9. Listed(list) \subseteq Job
    BY <1>3, <1>5 DEF Listed
  <1>10. /\ \A k \in DOMAIN list : \E u \in OwnedUnits : list[k] = Entry(timers[u])
         /\ \A u \in OwnedUnits : \E k \in DOMAIN list : list[k] = Entry(timers[u])
    BY <1>1, <1>3
  <1> QED BY <1>6, <1>8, <1>9, <1>10 DEF list

LEMMA RenderIs ==
  ASSUME NEW j \in Job, NEW v \in Version, NEW n \in 1..Len(Schedules[v])
  PROVE  /\ Render(j, v, n - 1) \in File
         /\ Render(j, v, n - 1).job = j /\ Render(j, v, n - 1).index = n - 1
         /\ Render(j, v, n - 1).hash = Hash(v, n - 1)
         /\ Render(j, v, n - 1).edited = FALSE
  <1>1. n - 1 \in Nat
    BY ReconcileAssumption
  <1>2. Hash(v, n - 1) \in Version \X Nat
    BY <1>1 DEF Hash
  <1> QED BY <1>1, <1>2 DEF Render, File

LEMMA WantedIs ==
  ASSUME NEW m \in Manifest, NEW e
  PROVE  e \in Wanted(m) <=>
           \E j \in DOMAIN m.jobs : \E n \in 1..Len(Schedules[m.jobs[j]]) :
             e = <<ScheduleName[<<j, n - 1>>], Render(j, m.jobs[j], n - 1)>>
  <1> DEFINE size(j) == Len(Schedules[m.jobs[j]])
             unit(j, n) == <<ScheduleName[<<j, n - 1>>], Render(j, m.jobs[j], n - 1)>>
             us(j) == Units(j, m.jobs[j])
  <1>1. \A j \in DOMAIN m.jobs : e \in us(j) <=> \E n \in 1..size(j) : e = unit(j, n)
    <2> TAKE j \in DOMAIN m.jobs
    <2>1. DOMAIN Schedules[m.jobs[j]] = 1..size(j)
      BY CommandAssumption, ReconcileAssumption
    <2>2. us(j) = {unit(j, n) : n \in 1..size(j)}
      BY <2>1 DEF Units
    <2> HIDE DEF us, unit, size
    <2> QED BY <2>2
  <1>2. Wanted(m) = UNION {us(j) : j \in DOMAIN m.jobs}
    BY DEF Wanted
  <1> HIDE DEF us, unit, size
  <1>3. e \in Wanted(m) <=> \E j \in DOMAIN m.jobs : e \in us(j)
    BY <1>2
  <1>4. e \in Wanted(m) <=> \E j \in DOMAIN m.jobs : \E n \in 1..size(j) : e = unit(j, n)
    BY <1>1, <1>3
  <1> QED BY <1>4 DEF unit, size

\* An owned timer is the one that v asks for if it is listed so.
LEMMA EntryTells ==
  ASSUME SystemdAssumption, UnitsOK, NEW u \in OwnedUnits,
         NEW j \in Job, NEW v \in Version, NEW n \in 1..Len(Schedules[v])
  PROVE  timers[u] = Render(j, v, n - 1)
         <=> /\ Entry(timers[u]).job = j /\ Entry(timers[u]).index = n - 1
             /\ Entry(timers[u]).hash = Hash(v, n - 1)
  <1> DEFINE f == timers[u]
             r == Render(j, v, n - 1)
  <1>1. f \in File /\ r \in File
    BY OwnedIs, RenderIs
  <1>2. /\ r.job = j /\ r.index = n - 1 /\ r.hash = Hash(v, n - 1)
        /\ r.edited = FALSE
    BY RenderIs
  <1>3. /\ Entry(f).job = f.job /\ Entry(f).index = f.index
        /\ Entry(f).hash = IF f.edited THEN Edited ELSE f.hash
    BY DEF Entry
  <1> HIDE DEF f, r
  <1>4. Hash(v, n - 1) \in Version \X Nat /\ Edited \notin Version \X Nat
    BY <1>1, <1>2 DEF File, SystemdAssumption
  <1>5. f = r <=> /\ f.job = r.job /\ f.index = r.index
                  /\ f.hash = r.hash /\ f.edited = r.edited
    BY <1>1 DEF File
  <1>6. f.edited \in BOOLEAN
    BY <1>1 DEF File
  <1>7. Entry(f).hash = Hash(v, n - 1) <=> f.hash = r.hash /\ f.edited = r.edited
    BY <1>2, <1>3, <1>4, <1>6
  <1>8. f = r <=> /\ Entry(f).job = j /\ Entry(f).index = n - 1
                  /\ Entry(f).hash = Hash(v, n - 1)
    BY <1>2, <1>3, <1>5, <1>7
  <1> QED BY <1>8 DEF f, r

\* The plan for a manifest is empty exactly when the owned timers are those it
\* asks for.
LEMMA ExactPlan ==
  ASSUME SystemdAssumption, UnitsOK, NEW m \in Manifest
  PROVE  IsNoop(Compute(m, List(timers))) <=> Owned(m.app) = Wanted(m)
  <1> DEFINE list == List(timers)
             size(j) == Len(Schedules[m.jobs[j]])
             unit(j, n) == <<ScheduleName[<<j, n - 1>>], Render(j, m.jobs[j], n - 1)>>
             owned == Owned(m.app)
             wanted == Wanted(m)
  <1>1. /\ IsListing(list) /\ IsOnce(list)
        /\ \A k \in DOMAIN list : \E u \in OwnedUnits : list[k] = Entry(timers[u])
        /\ \A u \in OwnedUnits : \E k \in DOMAIN list : list[k] = Entry(timers[u])
    BY ListIs
  <1>2. IsNoop(Compute(m, list)) <=> AsAsked(m, list)
    BY <1>1, NoopIs
  <1>3. \A e : e \in owned <=>
                 \E u \in OwnedUnits : AppOf[timers[u].job] = m.app /\ e = <<u, timers[u]>>
    BY DEF Owned, OwnedUnits, timers
  <1>4. \A e : e \in wanted <=>
                 \E j \in DOMAIN m.jobs : \E n \in 1..size(j) : e = unit(j, n)
    BY WantedIs
  <1>5. \A j \in DOMAIN m.jobs : /\ j \in Job /\ AppOf[j] = m.app /\ m.jobs[j] \in Version
                                 /\ size(j) \in Nat /\ size(j) > 0
    BY CommandAssumption, ReconcileAssumption
  <1>6. AsAsked(m, list) <=>
          /\ \A j \in DOMAIN m.jobs : \A n \in 1..size(j) :
               \E k \in DOMAIN list :
                 /\ list[k].job = j /\ list[k].index = n - 1
                 /\ list[k].hash = Hash(m.jobs[j], n - 1)
          /\ \A k \in DOMAIN list :
               AppOf[list[k].job] = m.app =>
                 list[k].job \in DOMAIN m.jobs /\ list[k].index < size(list[k].job)
    BY DEF AsAsked
  <1>7. ASSUME NEW u \in OwnedUnits, NEW j \in DOMAIN m.jobs, NEW n \in 1..size(j)
        PROVE  /\ timers[u] = Render(j, m.jobs[j], n - 1)
                  <=> /\ Entry(timers[u]).job = j /\ Entry(timers[u]).index = n - 1
                      /\ Entry(timers[u]).hash = Hash(m.jobs[j], n - 1)
               /\ timers[u] = Render(j, m.jobs[j], n - 1)
                  <=> <<u, timers[u]>> = unit(j, n)
    <2>1. timers[u] = Render(j, m.jobs[j], n - 1)
          <=> /\ Entry(timers[u]).job = j /\ Entry(timers[u]).index = n - 1
              /\ Entry(timers[u]).hash = Hash(m.jobs[j], n - 1)
      BY <1>5, EntryTells
    <2>2. ASSUME timers[u] = Render(j, m.jobs[j], n - 1)
          PROVE  u = ScheduleName[<<j, n - 1>>]
      <3> DEFINE r == Render(j, m.jobs[j], n - 1)
      <3>1. r.job = j /\ r.index = n - 1
        BY <1>5, RenderIs
      <3> HIDE DEF r
      <3>2. timers[u].job = j /\ timers[u].index = n - 1
        BY <2>2, <3>1 DEF r
      <3> QED BY <3>2, OwnedIs DEF HasName
    <2> QED BY <2>1, <2>2
  <1>8. \A u \in OwnedUnits : /\ Entry(timers[u]).job = timers[u].job
                              /\ Entry(timers[u]).index = timers[u].index
                              /\ timers[u].index \in Nat
    BY OwnedIs DEF Entry
  <1> HIDE DEF list, size, unit, owned, wanted
  <1>9. ASSUME AsAsked(m, list) PROVE owned = wanted
    <2>1. ASSUME NEW j \in DOMAIN m.jobs, NEW n \in 1..size(j)
          PROVE  unit(j, n) \in owned
      <3>1. PICK k \in DOMAIN list :
              /\ list[k].job = j /\ list[k].index = n - 1
              /\ list[k].hash = Hash(m.jobs[j], n - 1)
        BY <1>6, <1>9
      <3>2. PICK u \in OwnedUnits : list[k] = Entry(timers[u])
        BY <1>1
      <3>3. <<u, timers[u]>> = unit(j, n)
        BY <1>7, <3>1, <3>2
      <3>4. AppOf[timers[u].job] = m.app
        BY <1>5, <1>8, <3>1, <3>2
      <3> QED BY <1>3, <3>3, <3>4
    <2>2. ASSUME NEW u \in OwnedUnits, AppOf[timers[u].job] = m.app
          PROVE  <<u, timers[u]>> \in wanted
      <3> DEFINE j == timers[u].job
                 n == timers[u].index + 1
      <3>1. PICK k \in DOMAIN list : list[k] = Entry(timers[u])
        BY <1>1
      <3>2. list[k].job = j /\ list[k].index = n - 1 /\ n - 1 \in Nat
        BY <1>8, <3>1
      <3>3. j \in DOMAIN m.jobs /\ n - 1 < size(j)
        <4>1. AppOf[list[k].job] = m.app
          BY <2>2, <3>2
        <4>2. list[k].job \in DOMAIN m.jobs /\ list[k].index < size(list[k].job)
          BY <1>6, <1>9, <4>1
        <4> HIDE DEF n
        <4> QED BY <3>2, <4>2
      <3>4. n \in 1..size(j)
        <4>1. j \in DOMAIN m.jobs /\ timers[u].index \in Nat
          BY <1>8, <3>3
        <4>2. timers[u].index < size(j) /\ size(j) \in Nat
          BY <1>5, <3>3, <4>1
        <4> HIDE DEF j
        <4> QED BY <4>1, <4>2
      <3> HIDE DEF j, n
      <3>5. PICK l \in DOMAIN list :
              /\ list[l].job = j /\ list[l].index = n - 1
              /\ list[l].hash = Hash(m.jobs[j], n - 1)
        BY <1>6, <1>9, <3>3, <3>4
      <3>6. l = k
        BY <1>1, <3>2, <3>5 DEF IsOnce
      <3>7. <<u, timers[u]>> = unit(j, n)
        BY <1>7, <3>1, <3>3, <3>4, <3>5, <3>6
      <3> QED BY <1>4, <3>3, <3>4, <3>7
    <2>3. \A e : e \in owned <=> e \in wanted
      BY <1>3, <1>4, <2>1, <2>2
    <2> QED BY <2>3
  <1>10. ASSUME owned = wanted PROVE AsAsked(m, list)
    <2>1. ASSUME NEW j \in DOMAIN m.jobs, NEW n \in 1..size(j)
          PROVE  \E k \in DOMAIN list :
                   /\ list[k].job = j /\ list[k].index = n - 1
                   /\ list[k].hash = Hash(m.jobs[j], n - 1)
      <3>1. unit(j, n) \in owned
        BY <1>4, <1>10
      <3>2. PICK u \in OwnedUnits : unit(j, n) = <<u, timers[u]>>
        BY <1>3, <3>1
      <3>3. PICK k \in DOMAIN list : list[k] = Entry(timers[u])
        BY <1>1
      <3> QED BY <1>7, <3>2, <3>3
    <2>2. ASSUME NEW k \in DOMAIN list, AppOf[list[k].job] = m.app
          PROVE  list[k].job \in DOMAIN m.jobs /\ list[k].index < size(list[k].job)
      <3>1. PICK u \in OwnedUnits : list[k] = Entry(timers[u])
        BY <1>1
      <3>2. <<u, timers[u]>> \in wanted
        BY <1>3, <1>8, <1>10, <2>2, <3>1
      <3>3. PICK j \in DOMAIN m.jobs : \E n \in 1..size(j) : <<u, timers[u]>> = unit(j, n)
        BY <1>4, <3>2
      <3> PICK n \in 1..size(j) : <<u, timers[u]>> = unit(j, n)
        BY <3>3
      <3>4. list[k].job = j /\ list[k].index = n - 1
        BY <1>7, <3>1
      <3>5. n - 1 < size(j)
        BY <1>5
      <3> QED BY <3>4, <3>5
    <2> QED BY <1>6, <2>1, <2>2
  <1>11. IsNoop(Compute(m, list)) <=> owned = wanted
    BY <1>2, <1>9, <1>10
  <1> QED BY <1>11 DEF list, owned, wanted

-----------------------------------------------------------------------------
(* The inductive invariant of SystemdApply.                                *)

Removing == {"disable", "stop", "removeTimer", "removeService"}
Writing == {"truncateTimer", "writeTimer", "truncateService", "writeService"}
Starting == {"enable", "start"}

Call ==
  [do : Removing \cup Starting, unit : Unit]
    \cup [do : Writing, unit : Unit, content : File] \cup {Refusal, Reload}

\* What is written to a unit has its name.
SafeCall ==
  {call \in Call : call.do \in Writing => HasName(call.content, call.unit)}

SystemdInv ==
  /\ UnitsOK
  /\ CommandInv
  /\ edits \in 0..MaxEdits
  /\ calls \in [Command -> Seq(SafeCall)]
  /\ \A c \in Command :
       calls[c] # <<>> => pc[c] \in {"delete", "prune", "update", "create"}

LEMMA SystemdInit == SystemdAssumption /\ Init => SystemdInv
  <1> SUFFICES ASSUME SystemdAssumption, Init PROVE SystemdInv
    OBVIOUS
  <1>1. CommandInv
    BY CommandInitOK DEF Init, CallsInit
  <1>2. PICK fs \in SUBSET Unit :
          files =
            [timer   |-> [u \in Unit |-> IF u \in fs THEN Foreign ELSE None],
             service |-> [u \in Unit |-> None]]
    BY DEF Init
  <1>3. UnitsOK
    BY <1>2 DEF Init, UnitsOK, IsOwned
  <1>4. edits \in 0..MaxEdits
    BY CallsAssumption DEF Init, CallsInit
  <1>5. <<>> \in Seq(SafeCall) /\ \A c \in Command : calls[c] = <<>>
    BY EmptySeq DEF Init, CallsInit
  <1>6. calls \in [Command -> Seq(SafeCall)]
    BY <1>5 DEF Init, CallsInit
  <1> QED BY <1>1, <1>3, <1>4, <1>5, <1>6 DEF SystemdInv

\* The calls that an operation starts with.
LEMMA RemovalsAre ==
  ASSUME SystemdAssumption, NEW j \in Job
  PROVE  /\ DeleteCalls(j) \in Seq(SafeCall)
         /\ \A x \in Range(DeleteCalls(j)) :
              /\ x.do \in {"disable", "reload"}
              /\ x.do = "disable" => x.unit \in Matches[j]
         /\ \A u \in Matches[j] : timers[u] # None =>
              RemoveUnit(u) \in Range(DeleteCalls(j))
  <1> DEFINE places == {u \in Matches[j] : timers[u] # None}
             found == InOrder(places)
             size == Cardinality(places)
             removals == [n \in DOMAIN found |-> RemoveUnit(found[n])]
             last == IF found = <<>> THEN <<>> ELSE <<Reload>>
  <1>1. places \in SUBSET Unit /\ Unit \subseteq Nat /\ IsFiniteSet(Unit)
    BY DEF SystemdAssumption
  <1>2. /\ size \in Nat /\ DOMAIN found = 1..size
        /\ \A k \in 1..size : found[k] \in places
        /\ \A u \in places : \E k \in 1..size : found[k] = u
    <2> HIDE DEF places
    <2> QED BY <1>1, FS_Subset, InOrderLists
  <1>3. \A u \in Unit : /\ RemoveUnit(u) \in SafeCall
                        /\ RemoveUnit(u).do = "disable" /\ RemoveUnit(u).unit = u
    BY DEF RemoveUnit, SafeCall, Call, Removing, Writing
  <1>4. Reload \in SafeCall /\ Reload.do = "reload"
    BY DEF Reload, SafeCall, Call, Writing
  <1>5. DeleteCalls(j) = removals \o last
    BY DEF DeleteCalls, timers
  <1> HIDE DEF places, found, size, last
  <1>6. removals \in [1..size -> SafeCall]
    BY <1>1, <1>2, <1>3
  <1>7. removals \in Seq(SafeCall)
    BY <1>2, <1>6, SeqDef
  <1>8. last \in Seq(SafeCall) /\ \A x \in Range(last) : x = Reload
    <2>1. <<>> \in Seq(SafeCall) /\ \A x \in Range(<<>>) : x = Reload
      BY EmptySeq DEF Range
    <2>2. <<Reload>> \in Seq(SafeCall) /\ \A x \in Range(<<Reload>>) : x = Reload
      BY <1>4 DEF Range
    <2> QED BY <2>1, <2>2 DEF last
  <1>9. \A x \in Range(removals) : x.do = "disable" /\ x.unit \in Matches[j]
    <2> TAKE x \in Range(removals)
    <2>1. PICK k \in 1..size : x = RemoveUnit(found[k])
      BY <1>2 DEF Range
    <2>2. found[k] \in Unit /\ found[k] \in places
      BY <1>1, <1>2
    <2>3. places \subseteq Matches[j]
      BY DEF places
    <2> QED BY <1>3, <2>1, <2>2, <2>3
  <1>10. \A u \in places : RemoveUnit(u) \in Range(removals)
    BY <1>2 DEF Range
  <1> HIDE DEF removals
  <1>11. DeleteCalls(j) \in Seq(SafeCall)
    BY <1>5, <1>7, <1>8, ConcatProperties
  <1>12. \A x : x \in Range(DeleteCalls(j)) <=> x \in Range(removals) \/ x \in Range(last)
    BY <1>5, <1>7, <1>8, RangeOfConcat
  <1>13. \A x \in Range(DeleteCalls(j)) :
           /\ x.do \in {"disable", "reload"}
           /\ x.do = "disable" => x.unit \in Matches[j]
    BY <1>4, <1>8, <1>9, <1>12
  <1>14. \A u \in Matches[j] : timers[u] # None =>
           RemoveUnit(u) \in Range(DeleteCalls(j))
    BY <1>10, <1>12 DEF places
  <1> QED BY <1>11, <1>13, <1>14

\* The unit and the annotations of the n-th schedule.
UnitOf(j, n) == ScheduleName[<<j, n - 1>>]

LEMMA UnitIs ==
  ASSUME SystemdAssumption, NEW j \in Job, NEW v \in Version,
         NEW n \in 1..Len(Schedules[v])
  PROVE  /\ UnitOf(j, n) \in Matches[j] /\ UnitOf(j, n) \in Unit
         /\ HasName(Render(j, v, n - 1), UnitOf(j, n))
         /\ WriteUnit(UnitOf(j, n), Render(j, v, n - 1)) \in SafeCall
         /\ EnableUnit(UnitOf(j, n)) \in SafeCall
  <1>1. n \in DOMAIN Schedules[v]
    BY ReconcileAssumption
  <1>2. /\ <<j, n - 1>> \in DOMAIN ScheduleName
        /\ UnitOf(j, n) \in Matches[j] /\ UnitOf(j, n) \in Unit
    BY <1>1 DEF SystemdAssumption, UnitOf
  <1> DEFINE f == Render(j, v, n - 1)
  <1>3. f \in File /\ f.job = j /\ f.index = n - 1
    BY RenderIs
  <1> HIDE DEF f
  <1>4. HasName(f, UnitOf(j, n))
    BY <1>2, <1>3 DEF HasName, UnitOf
  <1>5. WriteUnit(UnitOf(j, n), f) \in SafeCall
    BY <1>2, <1>3, <1>4 DEF WriteUnit, SafeCall, Call, Writing
  <1>6. EnableUnit(UnitOf(j, n)) \in SafeCall
    BY <1>2 DEF EnableUnit, SafeCall, Call, Writing, Starting
  <1> QED BY <1>2, <1>4, <1>5, <1>6 DEF f

\* Create writes all units, or is refused, and then enables them.
LEMMA CreationsAre ==
  ASSUME SystemdAssumption, NEW j \in Job, NEW v \in Version
  PROVE  \E writes \in Seq(SafeCall), enables \in Seq(SafeCall) :
           /\ CreateCalls(j, v) = (writes \o <<Reload>>) \o enables
           /\ \A x \in Range(writes) :
                \/ x = Refusal
                \/ \E n \in 1..Len(Schedules[v]) :
                     x = WriteUnit(UnitOf(j, n), Render(j, v, n - 1))
           /\ \A n \in 1..Len(Schedules[v]) :
                \/ Refusal \in Range(writes)
                \/ WriteUnit(UnitOf(j, n), Render(j, v, n - 1)) \in Range(writes)
           /\ \A x : x \in Range(enables) <=>
                \E n \in 1..Len(Schedules[v]) : x = EnableUnit(UnitOf(j, n))
  <1> DEFINE size == Len(Schedules[v])
             write(n) == WriteUnit(UnitOf(j, n), Render(j, v, n - 1))
             enable(n) == EnableUnit(UnitOf(j, n))
             refused(n) == Schedules[v][n] \notin Calendar
             writes == [n \in 1..size |-> IF refused(n) THEN Refusal ELSE write(n)]
             enables == [n \in 1..size |-> enable(n)]
  <1>1. size \in Nat /\ DOMAIN Schedules[v] = 1..size
    BY ReconcileAssumption
  <1>2. \A n \in 1..size : write(n) \in SafeCall /\ enable(n) \in SafeCall
    BY UnitIs
  <1>3. Refusal \in SafeCall
    BY DEF Refusal, SafeCall, Call, Writing
  <1>4. CreateCalls(j, v) = writes \o <<Reload>> \o enables
    BY <1>1 DEF CreateCalls, UnitOf
  <1> HIDE DEF size, write, enable, refused
  <1>5. writes \in [1..size -> SafeCall] /\ enables \in [1..size -> SafeCall]
    BY <1>2, <1>3
  <1>6. writes \in Seq(SafeCall) /\ enables \in Seq(SafeCall)
    BY <1>1, <1>5, SeqDef
  <1>7. /\ \A x \in Range(writes) : x = Refusal \/ \E n \in 1..size : x = write(n)
        /\ \A n \in 1..size : Refusal \in Range(writes) \/ write(n) \in Range(writes)
        /\ \A x : x \in Range(enables) <=> \E n \in 1..size : x = enable(n)
    BY DEF Range
  <1> HIDE DEF writes, enables
  <1> QED BY <1>4, <1>6, <1>7 DEF size, write, enable

LEMMA CreationsAreSafe ==
  ASSUME SystemdAssumption, NEW j \in Job, NEW v \in Version
  PROVE  CreateCalls(j, v) \in Seq(SafeCall)
  <1>1. PICK writes \in Seq(SafeCall), enables \in Seq(SafeCall) :
          CreateCalls(j, v) = (writes \o <<Reload>>) \o enables
    BY CreationsAre
  <1>2. <<Reload>> \in Seq(SafeCall)
    BY DEF Reload, SafeCall, Call, Writing
  <1>3. writes \o <<Reload>> \in Seq(SafeCall)
    BY <1>2, ConcatProperties
  <1> QED BY <1>1, <1>3, ConcatProperties

-----------------------------------------------------------------------------
(* The steps that leave the units as they are.                             *)

\* What a pass may work on is in the manifest.
LEMMA NextJobHasVersion ==
  ASSUME CommandInv, NEW c \in Command, NEW j \in Job,
         CallUpdate(c, j) \/ CallCreate(c, j)
  PROVE  j \in todo[c] /\ want[c].jobs[j] \in Version
  <1>1. /\ pc[c] \in {"update", "create"} /\ todo[c] # {} /\ j = NextJob(c)
    BY DEF CallUpdate, CallCreate
  <1>2. want[c] \in Manifest /\ todo[c] \subseteq DOMAIN want[c].jobs
    BY <1>1 DEF CommandInv, ApplyOK, Stopped
  <1>3. j \in todo[c]
    BY <1>1, NextJobIs
  <1> QED BY <1>2, <1>3, CommandAssumption

LEMMA OneJobKeeps ==
  ASSUME SystemdAssumption, SystemdInv, NEW c \in Command, OneJob(c)
  PROVE  SystemdInv'
  <1>1. PICK j \in Job :
          \/ CallDelete(c, j) /\ Begin(c, DeleteCalls(j))
          \/ CallUpdate(c, j) /\ Begin(c, UpdateCalls(j, want[c].jobs[j]))
          \/ CallCreate(c, j) /\ Begin(c, CreateCalls(j, want[c].jobs[j]))
    BY DEF OneJob, Operation
  <1>2. UNCHANGED unitVars
    BY DEF OneJob
  <1>3. CommandInv'
    BY <1>1, CallKeeps DEF SystemdInv
  <1>4. CallUpdate(c, j) \/ CallCreate(c, j) => want[c].jobs[j] \in Version
    BY NextJobHasVersion DEF SystemdInv
  <1>5. PICK ops \in Seq(SafeCall) : Begin(c, ops)
    <2>1. DeleteCalls(j) \in Seq(SafeCall)
      BY RemovalsAre
    <2>2. \A v \in Version : /\ CreateCalls(j, v) \in Seq(SafeCall)
                              /\ UpdateCalls(j, v) \in Seq(SafeCall)
      BY <2>1, CreationsAreSafe, ConcatProperties DEF UpdateCalls
    <2> QED BY <1>1, <1>4, <2>1, <2>2
  <1>6. calls' = [calls EXCEPT ![c] = ops] /\ edits' = edits
    BY <1>5 DEF Begin
  <1>7. pc' = pc /\ pc[c] \in {"delete", "prune", "update", "create"}
    BY <1>1 DEF CallDelete, CallUpdate, CallCreate
  <1>8. UnitsOK'
    BY <1>2 DEF SystemdInv, UnitsOK, unitVars
  <1> QED BY <1>3, <1>6, <1>7, <1>8 DEF SystemdInv

\* A step that leaves the units and empties calls at most.
LEMMA QuietKeeps ==
  ASSUME SystemdInv, CommandInv', UNCHANGED <<unitVars, edits>>,
         NEW c \in Command,
         \A d \in Command \ {c} : pc'[d] = pc[d],
         calls' = [calls EXCEPT ![c] = <<>>]
  PROVE  SystemdInv'
  <1>1. UnitsOK'
    BY DEF SystemdInv, UnitsOK, unitVars
  <1>2. <<>> \in Seq(SafeCall)
    BY EmptySeq
  <1> QED BY <1>1, <1>2 DEF SystemdInv

LEMMA OtherKeeps ==
  ASSUME SystemdAssumption, SystemdInv, NEW c \in Command, Other(c)
  PROVE  SystemdInv'
  <1> DEFINE list == List(timers)
  <1>1. /\ calls[c] = <<>> /\ calls' = calls /\ edits' = edits
        /\ UNCHANGED unitVars
    BY DEF Other, Between
  <1>2. \/ \E m \in Manifest : Apply(c, m)
        \/ Prune(c, list) \/ ComputePlan(c, list)
        \/ NextPass(c) \/ SpecStep(c)
    BY DEF Other, Between, timers
  <1>3. Listed(list) \subseteq Job
    BY ListIs DEF SystemdInv
  <1> HIDE DEF list
  <1>4. CommandInv'
    BY <1>2, <1>3, ApplyKeeps, PruneKeeps, ComputePlanKeeps, NextPassKeeps,
       SpecStepKeeps DEF SystemdInv
  <1>5. \A d \in Command \ {c} : pc'[d] = pc[d]
    BY <1>2 DEF Apply, Prune, ComputePlan, NextPass, SpecStep, TruncateSpec,
                FillSpec, RemoveOrphan, Pass, Goto, SystemdInv, CommandInv,
                CommandTypeOK
  <1>6. calls' = [calls EXCEPT ![c] = <<>>]
    BY <1>1 DEF SystemdInv
  <1> QED BY <1>1, <1>4, <1>5, <1>6, QuietKeeps

LEMMA StopsKeeps ==
  ASSUME SystemdInv, NEW c \in Command, Stops(c)
  PROVE  SystemdInv'
  <1>1. /\ Fail(c) /\ calls' = [calls EXCEPT ![c] = <<>>]
        /\ UNCHANGED <<unitVars, edits>>
    BY DEF Stops, Abort
  <1>2. CommandInv'
    BY <1>1, FailKeeps DEF SystemdInv
  <1>3. \A d \in Command \ {c} : pc'[d] = pc[d]
    BY <1>1 DEF Fail, Pass, Goto, SystemdInv, CommandInv, CommandTypeOK
  <1> QED BY <1>1, <1>2, <1>3, QuietKeeps

-----------------------------------------------------------------------------
(* A call is carried out.                                                  *)

LEMMA CallIs ==
  ASSUME NEW call \in SafeCall
  PROVE  /\ call.do \in Removing \cup Writing \cup Starting =>
              call.unit \in Unit
         /\ call.do \in Writing =>
              call.content \in File /\ HasName(call.content, call.unit)
         /\ call.do \notin Removing \cup Writing \cup Starting =>
              call = Refusal \/ call = Reload
  BY DEF SafeCall, Call, Removing, Writing, Starting, Refusal, Reload

\* The next call on the same unit.
LEMMA ThenIs ==
  ASSUME NEW call \in SafeCall, NEW do,
         \/ call.do \in Removing /\ do \in Removing
         \/ call.do \in Writing /\ do \in Writing
         \/ call.do \in Starting /\ do \in Starting
  PROVE  \E x \in SafeCall :
           /\ Then(call, do) = <<x>> /\ x.do = do /\ x.unit = call.unit
           /\ do \in Writing => x.content = call.content
  <1> DEFINE x == [call EXCEPT !.do = do]
  <1>1. Then(call, do) = <<x>>
    BY DEF Then
  <1>2. CASE call.do \in Writing
    <2>1. call \in [do : Writing, unit : Unit, content : File]
      BY <1>2 DEF SafeCall, Call, Removing, Starting, Writing, Refusal, Reload
    <2>2. do \in Writing
      BY <1>2 DEF Removing, Starting, Writing
    <2>3. /\ x \in [do : Writing, unit : Unit, content : File]
          /\ x.do = do /\ x.unit = call.unit /\ x.content = call.content
      BY <2>1, <2>2
    <2>4. HasName(x.content, x.unit)
      BY <1>2, <2>3, CallIs
    <2>5. x \in SafeCall
      BY <2>3, <2>4 DEF SafeCall, Call
    <2> QED BY <1>1, <2>3, <2>5
  <1>3. CASE call.do \notin Writing
    <2>1. call \in [do : Removing \cup Starting, unit : Unit]
      BY <1>3 DEF SafeCall, Call, Removing, Starting, Writing, Refusal, Reload
    <2>2. do \in Removing \cup Starting
      BY <1>3
    <2>3. /\ x \in [do : Removing \cup Starting, unit : Unit]
          /\ x.do = do /\ x.unit = call.unit
      BY <2>1, <2>2
    <2>4. do \notin Writing
      BY <2>2 DEF Removing, Starting, Writing
    <2>5. x \in SafeCall
      BY <2>3, <2>4 DEF SafeCall, Call
    <2> QED BY <1>1, <2>3, <2>4, <2>5
  <1> QED BY <1>2, <1>3

\* The file of this kind of the unit u becomes f.
FileBecomes(kind, u, f) ==
  \A k \in {"timer", "service"}, w \in Unit :
    files'[k][w] = IF k = kind /\ w = u THEN f ELSE files[k][w]

LEMMA FileIs ==
  ASSUME UnitsOK, NEW kind \in {"timer", "service"}, NEW u \in Unit, NEW f,
         files' = [files EXCEPT ![kind][u] = f]
  PROVE  FileBecomes(kind, u, f)
  <1>1. \A k \in {"timer", "service"} :
          files'[k] = IF k = kind THEN [files[kind] EXCEPT ![u] = f] ELSE files[k]
    BY DEF UnitsOK
  <1> QED BY <1>1 DEF UnitsOK, FileBecomes

LEMMA FileChanges ==
  ASSUME UnitsOK, NEW kind \in {"timer", "service"}, NEW u \in Unit,
         NEW f \in File \cup {None, Torn, Foreign},
         IsOwned(f) => HasName(f, u),
         files' = [files EXCEPT ![kind][u] = f], UNCHANGED <<enabled, running>>
  PROVE  UnitsOK'
  <1>1. \A k \in {"timer", "service"} :
          files'[k] = IF k = kind THEN [files[kind] EXCEPT ![u] = f] ELSE files[k]
    BY DEF UnitsOK
  <1>2. \A k \in {"timer", "service"}, w \in Unit :
          files'[k][w] = IF k = kind /\ w = u THEN f ELSE files[k][w]
    <2>1. FileBecomes(kind, u, f)
      BY FileIs
    <2> QED BY <2>1 DEF FileBecomes
  <1>3. \A k \in {"timer", "service"} :
          files'[k] \in [Unit -> File \cup {None, Torn, Foreign}]
    BY <1>1 DEF UnitsOK
  <1>4. files' \in [{"timer", "service"} -> [Unit -> File \cup {None, Torn, Foreign}]]
    BY <1>3 DEF UnitsOK
  <1>5. \A k \in {"timer", "service"}, w \in Unit :
          IsOwned(files'[k][w]) => HasName(files'[k][w], w)
    BY <1>2 DEF UnitsOK
  <1> QED BY <1>2, <1>4, <1>5 DEF UnitsOK

\* What a call leaves to do on its unit is safe as well.
LEMMA RunCallIs ==
  ASSUME SystemdAssumption, SystemdInv, NEW c \in Command, RunCall(c)
  PROVE  /\ UnitsOK'
         /\ \E rest \in Seq(SafeCall) : NextCall(c, rest)
  <1> DEFINE call == Head(calls[c])
  <1>1. call \in SafeCall
    <2>1. calls[c] \in Seq(SafeCall) /\ calls[c] # <<>>
      BY DEF SystemdInv, RunCall
    <2> QED BY <2>1, HeadTailProperties
  <1>2. \/ Disable(c, call) \/ Stop(c, call) \/ Enable(c, call) \/ Start(c, call)
        \/ DaemonReload(c, call) \/ RemoveFile(c, call) \/ WriteFile(c, call)
    BY DEF RunCall
  <1> HIDE DEF call
  <1>3. <<>> \in Seq(SafeCall) /\ UnitsOK
    BY EmptySeq DEF SystemdInv
  <1>4. ASSUME NEW do,
               \/ call.do \in Removing /\ do \in Removing
               \/ call.do \in Writing /\ do \in Writing
               \/ call.do \in Starting /\ do \in Starting
        PROVE  Then(call, do) \in Seq(SafeCall)
    <2>1. PICK x \in SafeCall : Then(call, do) = <<x>>
      BY <1>1, <1>4, ThenIs
    <2> QED BY <2>1
  <1>5. CASE Disable(c, call)
    <2>1. Then(call, "stop") \in Seq(SafeCall)
      BY <1>4, <1>5 DEF Disable, Removing
    <2> QED BY <1>3, <1>5, <2>1 DEF Disable, UnitsOK
  <1>6. CASE Stop(c, call)
    <2>1. Then(call, "removeTimer") \in Seq(SafeCall)
      BY <1>4, <1>6 DEF Stop, Removing
    <2> QED BY <1>3, <1>6, <2>1 DEF Stop, UnitsOK
  <1>7. CASE Enable(c, call)
    <2>1. Then(call, "start") \in Seq(SafeCall) /\ call.unit \in Unit
      BY <1>1, <1>4, <1>7, CallIs DEF Enable, Starting
    <2> QED BY <1>3, <1>7, <2>1 DEF Enable, UnitsOK
  <1>8. CASE Start(c, call)
    <2>1. call.unit \in Unit
      BY <1>1, <1>8, CallIs DEF Start, Starting
    <2>2. files["timer"][call.unit] \in File
      BY <1>3, <1>8, <2>1 DEF Start, UnitsOK, IsOwned
    <2> QED BY <1>3, <1>8, <2>2 DEF Start, UnitsOK
  <1>9. CASE DaemonReload(c, call)
    <2>1. \A u \in Unit : IsOwned(files["timer"][u]) => files["timer"][u] \in File
      BY <1>3 DEF UnitsOK, IsOwned
    <2> QED BY <1>3, <1>9, <2>1 DEF DaemonReload, UnitsOK
  <1>10. CASE RemoveFile(c, call)
    <2>1. call.unit \in Unit /\ Then(call, "removeService") \in Seq(SafeCall)
      BY <1>1, <1>4, <1>10, CallIs DEF RemoveFile, Removing
    <2>2. ~IsOwned(None)
      BY DEF IsOwned
    <2>3. PICK kind \in {"timer", "service"} : Put(kind, call, None)
      BY <1>10 DEF RemoveFile
    <2>4. UnitsOK'
      BY <1>3, <2>1, <2>2, <2>3, FileChanges DEF Put
    <2> QED BY <1>3, <1>10, <2>1, <2>4 DEF RemoveFile
  <1>11. CASE WriteFile(c, call)
    <2>1. /\ call.unit \in Unit /\ call.content \in File
          /\ HasName(call.content, call.unit)
          /\ \A do \in Writing : Then(call, do) \in Seq(SafeCall)
      BY <1>1, <1>4, <1>11, CallIs DEF WriteFile, Writing
    <2>2. ~IsOwned(Torn)
      BY DEF IsOwned
    <2>3. PICK kind \in {"timer", "service"}, f \in {Torn, call.content} :
            Put(kind, call, f)
      BY <1>11 DEF WriteFile
    <2>4. UnitsOK'
      BY <1>3, <2>1, <2>2, <2>3, FileChanges DEF Put
    <2>5. \E rest \in Seq(SafeCall) : NextCall(c, rest)
      BY <1>3, <1>11, <2>1 DEF WriteFile, Writing
    <2> QED BY <2>4, <2>5
  <1> QED BY <1>2, <1>5, <1>6, <1>7, <1>8, <1>9, <1>10, <1>11

LEMMA RunCallKeeps ==
  ASSUME SystemdAssumption, SystemdInv, NEW c \in Command, RunCall(c)
  PROVE  SystemdInv'
  <1>1. PICK rest \in Seq(SafeCall) : NextCall(c, rest)
    BY RunCallIs
  <1>2. /\ calls[c] # <<>> /\ calls' = [calls EXCEPT ![c] = rest \o Tail(@)]
        /\ edits' = edits /\ UNCHANGED commandVars
    BY <1>1 DEF NextCall
  <1>3. CommandInv' /\ pc' = pc
    BY <1>2, IdleKeeps DEF SystemdInv, commandVars
  <1>4. rest \o Tail(calls[c]) \in Seq(SafeCall)
    <2>1. calls[c] \in Seq(SafeCall)
      BY DEF SystemdInv
    <2>2. Tail(calls[c]) \in Seq(SafeCall)
      BY <1>2, <2>1, HeadTailProperties
    <2> QED BY <2>2, ConcatProperties
  <1>5. calls' \in [Command -> Seq(SafeCall)]
    BY <1>2, <1>4 DEF SystemdInv
  <1>6. \A d \in Command : calls'[d] # <<>> => calls[d] # <<>>
    BY <1>2 DEF SystemdInv
  <1> QED BY <1>2, <1>3, <1>5, <1>6, RunCallIs DEF SystemdInv

\* systemd comes up again.
LEMMA RebootKeeps ==
  ASSUME SystemdInv, Reboot
  PROVE  SystemdInv'
  <1>1. CommandInv' /\ UNCHANGED <<calls, edits, pc, files, enabled>>
    BY IdleKeeps DEF Reboot, callVars, commandVars, SystemdInv
  <1>2. \A u \in Unit : IsOwned(files["timer"][u]) => files["timer"][u] \in File
    BY DEF SystemdInv, UnitsOK, IsOwned
  <1>3. UnitsOK'
    BY <1>1, <1>2 DEF Reboot, SystemdInv, UnitsOK
  <1> QED BY <1>1, <1>3 DEF SystemdInv

\* An edit leaves the annotations.
LEMMA EditIs ==
  ASSUME SystemdAssumption, UnitsOK, EditByHand
  PROVE  \E u \in OwnedUnits : \E f \in File :
           /\ files' = [files EXCEPT !["timer"][u] = f]
           /\ IsOwned(f) /\ HasName(f, u) /\ f.job = timers[u].job
           /\ UNCHANGED <<enabled, running>>
  <1>1. PICK u \in Unit :
          /\ IsOwned(timers[u])
          /\ files' = [files EXCEPT !["timer"][u].edited = TRUE]
    BY DEF EditByHand, timers
  <1>2. files' = [files EXCEPT !["timer"][u] = [timers[u] EXCEPT !.edited = TRUE]]
    BY <1>1 DEF timers
  <1> DEFINE f == [timers[u] EXCEPT !.edited = TRUE]
  <1>3. u \in OwnedUnits
    BY <1>1 DEF OwnedUnits
  <1>4. timers[u] \in File /\ HasName(timers[u], u)
    BY <1>3, OwnedIs
  <1>5. f \in File /\ f.job = timers[u].job /\ f.index = timers[u].index
    BY <1>4 DEF File
  <1> HIDE DEF f
  <1>6. IsOwned(f)
    BY <1>5 DEF IsOwned, SystemdAssumption
  <1>7. HasName(f, u)
    BY <1>4, <1>5 DEF HasName
  <1>8. files' = [files EXCEPT !["timer"][u] = f]
    BY <1>2 DEF f
  <1>9. UNCHANGED <<enabled, running>>
    BY DEF EditByHand
  <1> QED BY <1>3, <1>5, <1>6, <1>7, <1>8, <1>9

LEMMA EditByHandKeeps ==
  ASSUME SystemdAssumption, SystemdInv, EditByHand
  PROVE  SystemdInv'
  <1>1. /\ edits < MaxEdits /\ edits' = edits + 1
        /\ calls' = calls /\ UNCHANGED commandVars
    BY DEF EditByHand, ByHand
  <1>2. CommandInv' /\ pc' = pc
    BY <1>1, IdleKeeps DEF SystemdInv, commandVars
  <1>3. edits' \in 0..MaxEdits
    BY <1>1, CallsAssumption DEF SystemdInv
  <1>4. PICK u \in OwnedUnits : \E f \in File :
          /\ files' = [files EXCEPT !["timer"][u] = f]
          /\ IsOwned(f) /\ HasName(f, u) /\ f.job = timers[u].job
          /\ UNCHANGED <<enabled, running>>
    BY EditIs DEF SystemdInv
  <1>5. u \in Unit
    BY DEF OwnedUnits
  <1>6. UnitsOK'
    BY <1>4, <1>5, FileChanges DEF SystemdInv
  <1> QED BY <1>1, <1>2, <1>3, <1>6 DEF SystemdInv

LEMMA StepKeeps == SystemdAssumption /\ SystemdInv /\ [Next]_vars => SystemdInv'
  <1> SUFFICES ASSUME SystemdAssumption, SystemdInv, [Next]_vars PROVE SystemdInv'
    OBVIOUS
  <1>1. ASSUME NEW c \in Command, OneJob(c) PROVE SystemdInv'
    BY <1>1, OneJobKeeps
  <1>2. ASSUME NEW c \in Command, RunCall(c) PROVE SystemdInv'
    BY <1>2, RunCallKeeps
  <1>3. ASSUME NEW c \in Command, Other(c) PROVE SystemdInv'
    BY <1>3, OtherKeeps
  <1>4. ASSUME NEW c \in Command, Stops(c) PROVE SystemdInv'
    BY <1>4, StopsKeeps
  <1>5. CASE Reboot
    BY <1>5, RebootKeeps
  <1>6. CASE EditByHand
    BY <1>6, EditByHandKeeps
  <1>7. CASE UNCHANGED vars
    <2>1. CommandInv'
      BY <1>7, IdleKeeps DEF vars, callVars, commandVars, SystemdInv
    <2>2. UnitsOK'
      BY <1>7 DEF vars, unitVars, UnitsOK, SystemdInv
    <2> QED BY <1>7, <2>1, <2>2 DEF vars, callVars, commandVars, SystemdInv
  <1> QED BY <1>1, <1>2, <1>3, <1>4, <1>5, <1>6, <1>7 DEF Next

LEMMA SystemdInvariant ==
  ASSUME SystemdAssumption
  PROVE  Spec => []SystemdInv
  <1>1. Init => SystemdInv
    BY SystemdInit
  <1>2. SystemdInv /\ [Next]_vars => SystemdInv'
    BY StepKeeps
  <1> QED BY <1>1, <1>2, PTL DEF Spec

-----------------------------------------------------------------------------
\* A timer and a service have the name that their annotations say, whatever
\* fails, is edited or is rebooted (renderUnitsWithHash, render.go); an
\* operation that has begun belongs to a command that is in a pass.
THEOREM SystemdTypeCorrect ==
  ASSUME SystemdAssumption
  PROVE  Spec => []TypeOK
  <1>1. SystemdInv => TypeOK
    <2> SUFFICES ASSUME SystemdInv PROVE TypeOK
      OBVIOUS
    <2>1. \A kind \in {"timer", "service"}, u \in Unit :
            IsOwned(files[kind][u]) =>
              ScheduleName[<<files[kind][u].job, files[kind][u].index>>] = u
      BY DEF SystemdInv, UnitsOK, HasName
    <2> QED BY <2>1 DEF TypeOK, CallsTypeOK, SystemdInv, UnitsOK, CommandInv
  <1> QED BY <1>1, SystemdInvariant, PTL

\* The plan for a manifest is empty exactly when the owned timers are the ones
\* it asks for and nobody has edited them, however many commands run at once
\* and wherever they stop (reconcile.Compute over systemd.List).
THEOREM SystemdPlanIsExact ==
  ASSUME SystemdAssumption
  PROVE  Spec => []PlanIsExact
  <1>1. SystemdInv => PlanIsExact
    BY ExactPlan DEF SystemdInv, PlanIsExact, timers
  <1> QED BY <1>1, SystemdInvariant, PTL

-----------------------------------------------------------------------------
(* A command with no other beside it.                                      *)

\* No two schedules have the same unit.
DistinctNames ==
  \A s, t \in DOMAIN ScheduleName : ScheduleName[s] = ScheduleName[t] => s = t

\* systemd does not run the timer of u, and will not after a reboot.
Quiet(u) == u \notin enabled /\ running[u] = None

\* An operation removes before it writes and writes before it starts.
Excluded(call) ==
  IF call.do \in Starting THEN Removing \cup Writing \cup {"refuse"}
  ELSE IF call.do \in Writing \cup {"refuse"} THEN Removing ELSE {}

Phased(q) ==
  \A i, k \in DOMAIN q : i < k => q[k].do \notin Excluded(q[i])

\* The timer that a call is about to take away or to write does not run, or is
\* disabled first; one that it is about to start has its service, or will have
\* it by then, or the operation will not get there.
CallsOK(R) ==
  /\ \A x \in R : x.do = "stop" => x.unit \notin enabled
  /\ \A x \in R : x.do \in {"removeTimer", "removeService"} => Quiet(x.unit)
  /\ \A x \in R : x.do \in Writing =>
       \/ Quiet(x.unit)
       \/ \E y \in R : y.do \in {"disable", "stop"} /\ y.unit = x.unit
  /\ \A x \in R : x.do \in Starting =>
       \/ Refusal \in R
       \/ \E y \in R : y.do \in Writing /\ y.unit = x.unit
       \/ IsOwned(files["service"][x.unit]) /\ \A y \in R : y.do \notin Removing

\* The jobs that the command c has still to create.
Pending(c) ==
  IF pc[c] \in {"delete", "update"} THEN plan[c].creates
  ELSE IF pc[c] = "create" THEN todo[c] ELSE {}

\* They have no timer, and get none before their turn.
PendingOK(c) ==
  /\ \A u \in OwnedUnits : timers[u].job \notin Pending(c)
  /\ \A x \in Range(calls[c]) : x.do \in Writing => x.content.job \notin Pending(c)
  /\ plan[c].creates \cap plan[c].updates = {}
  /\ pc[c] = "update" => todo[c] \subseteq plan[c].updates

Solo(c) == Phased(calls[c]) /\ CallsOK(Range(calls[c])) /\ PendingOK(c)

SoloInv == ScheduledIsInstalled /\ \A c \in Command : Solo(c)

LEMMA NoCalls == Range(<<>>) = {} /\ Phased(<<>>) /\ CallsOK({})
  BY DEF Range, Phased, CallsOK

LEMMA SoloInit == SystemdAssumption /\ Init => SoloInv
  <1> SUFFICES ASSUME SystemdAssumption, Init PROVE SoloInv
    OBVIOUS
  <1>1. ScheduledIsInstalled
    BY DEF Init, ScheduledIsInstalled
  <1>2. \A u \in Unit : ~IsOwned(timers[u])
    BY DEF Init, timers, IsOwned
  <1>3. \A c \in Command : /\ calls[c] = <<>> /\ pc[c] = "idle" /\ plan[c] = NoPlan
    BY DEF Init, CallsInit, CommandInit
  <1>4. \A c \in Command : PendingOK(c)
    BY <1>2, <1>3, NoCalls DEF PendingOK, Pending, OwnedUnits, NoPlan
  <1> QED BY <1>1, <1>3, <1>4, NoCalls DEF SoloInv, Solo

(* The calls that are left.                                                *)

LEMMA PhasedTail ==
  ASSUME NEW q \in Seq(SafeCall), q # <<>>, Phased(q)
  PROVE  /\ Phased(Tail(q))
         /\ \A y \in Range(Tail(q)) : y.do \notin Excluded(Head(q))
  <1>1. /\ Len(q) \in Nat /\ Len(q) > 0 /\ DOMAIN q = 1..Len(q)
        /\ Head(q) = q[1] /\ DOMAIN Tail(q) = 1..Len(q) - 1
        /\ \A i \in 1..Len(q) - 1 : Tail(q)[i] = q[i + 1]
    OBVIOUS
  <1>2. \A i \in DOMAIN Tail(q) : i + 1 \in DOMAIN q /\ 1 < i + 1 /\ 1 \in DOMAIN q
    BY <1>1
  <1>3. ASSUME NEW i \in DOMAIN Tail(q), NEW k \in DOMAIN Tail(q), i < k
        PROVE  Tail(q)[k].do \notin Excluded(Tail(q)[i])
    <2>1. i + 1 < k + 1
      BY <1>1, <1>3
    <2>2. q[k + 1].do \notin Excluded(q[i + 1])
      BY <1>2, <2>1 DEF Phased
    <2> QED BY <1>1, <2>2
  <1>4. ASSUME NEW i \in DOMAIN Tail(q) PROVE Tail(q)[i].do \notin Excluded(Head(q))
    <2>1. q[i + 1].do \notin Excluded(q[1])
      BY <1>2 DEF Phased
    <2> QED BY <1>1, <2>1
  <1> QED BY <1>3, <1>4 DEF Phased, Range

LEMMA PhasedConcat ==
  ASSUME NEW p \in Seq(SafeCall), NEW q \in Seq(SafeCall), Phased(p), Phased(q),
         \A x \in Range(p), y \in Range(q) : y.do \notin Excluded(x)
  PROVE  Phased(p \o q)
  <1>1. /\ Len(p) \in Nat /\ Len(q) \in Nat
        /\ DOMAIN p = 1..Len(p) /\ DOMAIN q = 1..Len(q)
        /\ DOMAIN (p \o q) = 1..Len(p) + Len(q)
        /\ \A i \in 1..Len(p) + Len(q) :
             (p \o q)[i] = IF i <= Len(p) THEN p[i] ELSE q[i - Len(p)]
    OBVIOUS
  <1> DEFINE r == p \o q
  <1> SUFFICES ASSUME NEW i \in DOMAIN r, NEW k \in DOMAIN r, i < k
               PROVE  r[k].do \notin Excluded(r[i])
    BY DEF Phased
  <1>2. CASE k <= Len(p)
    <2>1. i \in DOMAIN p /\ k \in DOMAIN p /\ r[i] = p[i] /\ r[k] = p[k]
      BY <1>1, <1>2
    <2> QED BY <2>1 DEF Phased
  <1>3. CASE i <= Len(p) /\ ~(k <= Len(p))
    <2>1. /\ i \in DOMAIN p /\ k - Len(p) \in DOMAIN q
          /\ r[i] = p[i] /\ r[k] = q[k - Len(p)]
      BY <1>1, <1>3
    <2>2. p[i] \in Range(p) /\ q[k - Len(p)] \in Range(q)
      BY <2>1 DEF Range
    <2> HIDE DEF r
    <2> QED BY <2>1, <2>2
  <1>4. CASE ~(i <= Len(p))
    <2>1. /\ i - Len(p) \in DOMAIN q /\ k - Len(p) \in DOMAIN q
          /\ i - Len(p) < k - Len(p)
          /\ r[i] = q[i - Len(p)] /\ r[k] = q[k - Len(p)]
      BY <1>1, <1>4
    <2> QED BY <2>1 DEF Phased
  <1> QED BY <1>1, <1>2, <1>3, <1>4

LEMMA PhasedOne ==
  ASSUME NEW x
  PROVE  Phased(<<x>>) /\ Range(<<x>>) = {x}
  <1>1. DOMAIN <<x>> = {1} /\ <<x>>[1] = x
    OBVIOUS
  <1> QED BY <1>1 DEF Phased, Range

\* What is left after a call, and what it leaves on its unit.
Rest(c) == Range(Tail(calls[c]))

\* A call that leaves nothing on its unit, or one other of its phase.
Leaves(call, rest, X) ==
  \/ rest = <<>> /\ X = {}
  \/ \E x \in SafeCall : /\ rest = <<x>> /\ X = {x}
                         /\ Excluded(x) = Excluded(call)

LEMMA AdvanceIs ==
  ASSUME SystemdInv, NEW c \in Command, calls[c] # <<>>, Phased(calls[c]),
         NEW rest, NextCall(c, rest), NEW X, Leaves(Head(calls[c]), rest, X)
  PROVE  /\ Range(calls[c]) = {Head(calls[c])} \cup Rest(c)
         /\ Range(calls'[c]) = X \cup Rest(c)
         /\ Phased(calls'[c])
         /\ \A y \in Rest(c) : y.do \notin Excluded(Head(calls[c]))
  <1> DEFINE q == calls[c]
  <1>1. q \in Seq(SafeCall) /\ q # <<>> /\ calls'[c] = rest \o Tail(q)
    BY DEF SystemdInv, NextCall
  <1>2. Tail(q) \in Seq(SafeCall)
    BY <1>1, HeadTailProperties
  <1>3. Range(q) = {Head(q)} \cup Rest(c)
    <2>1. /\ Head(q) \in Range(q)
          /\ \A x : x \in Range(Tail(q)) => x \in Range(q)
          /\ \A x : x \in Range(q) => x = Head(q) \/ x \in Range(Tail(q))
      BY <1>1, RangeOfTail
    <2> QED BY <2>1 DEF Rest
  <1>4. Phased(Tail(q)) /\ \A y \in Rest(c) : y.do \notin Excluded(Head(q))
    BY <1>1, PhasedTail DEF Rest
  <1>5. CASE rest = <<>> /\ X = {}
    <2>1. calls'[c] = Tail(q)
      BY <1>1, <1>2, <1>5, ConcatEmptySeq
    <2> QED BY <1>3, <1>4, <1>5, <2>1 DEF Rest
  <1>6. CASE \E x \in SafeCall : /\ rest = <<x>> /\ X = {x}
                                /\ Excluded(x) = Excluded(Head(q))
    <2>1. PICK x \in SafeCall : /\ rest = <<x>> /\ X = {x}
                               /\ Excluded(x) = Excluded(Head(q))
      BY <1>6
    <2>2. rest \in Seq(SafeCall) /\ Phased(rest) /\ Range(rest) = {x}
      BY <2>1, PhasedOne
    <2>3. Range(rest \o Tail(q)) = {x} \cup Rest(c)
      <3>1. \A y : y \in Range(rest \o Tail(q)) <=>
                     y \in Range(rest) \/ y \in Range(Tail(q))
        BY <1>2, <2>2, RangeOfConcat
      <3> QED BY <2>2, <3>1 DEF Rest
    <2>4. Phased(rest \o Tail(q))
      BY <1>2, <1>4, <2>1, <2>2, PhasedConcat DEF Rest
    <2> QED BY <1>1, <1>3, <1>4, <2>1, <2>3, <2>4
  <1> QED BY <1>5, <1>6 DEF Leaves

(* A call is carried out.                                                  *)

LEMMA HeadIs ==
  ASSUME SystemdInv, NEW c \in Command, Solo(c), calls[c] # <<>>
  PROVE  /\ Head(calls[c]) \in SafeCall
         /\ Range(calls[c]) = {Head(calls[c])} \cup Rest(c)
         /\ \A y \in Rest(c) : y.do \notin Excluded(Head(calls[c]))
         /\ CallsOK(Range(calls[c])) /\ PendingOK(c)
  <1> DEFINE q == calls[c]
  <1>1. q \in Seq(SafeCall) /\ q # <<>> /\ Phased(q)
    BY DEF SystemdInv, Solo
  <1>2. Head(q) \in SafeCall
    BY <1>1, HeadTailProperties
  <1>3. /\ Head(q) \in Range(q)
        /\ \A x : x \in Range(Tail(q)) => x \in Range(q)
        /\ \A x : x \in Range(q) => x = Head(q) \/ x \in Range(Tail(q))
    BY <1>1, RangeOfTail
  <1>4. \A y \in Rest(c) : y.do \notin Excluded(Head(q))
    BY <1>1, PhasedTail DEF Rest
  <1> QED BY <1>2, <1>3, <1>4 DEF Rest, Solo

LEMMA CallsAre ==
  ASSUME SystemdInv, NEW c \in Command, calls[c] # <<>>
  PROVE  \A y \in Rest(c) : y \in SafeCall /\
           (y.do \in Removing \cup Writing \cup Starting => y.unit \in Unit)
  <1>1. Tail(calls[c]) \in Seq(SafeCall)
    BY HeadTailProperties DEF SystemdInv
  <1>2. \A y \in Rest(c) : y \in SafeCall
    BY <1>1 DEF Rest, Range
  <1> QED BY <1>2, CallIs

\* The pending jobs stay without timers.
LEMMA PendingStays ==
  ASSUME NEW c \in Command, PendingOK(c), UNCHANGED commandVars,
         \A u \in Unit : IsOwned(timers'[u]) =>
           \/ IsOwned(timers[u]) /\ timers'[u].job = timers[u].job
           \/ timers'[u].job \notin Pending(c),
         \A x \in Range(calls'[c]) : x.do \in Writing =>
           x \in Range(calls[c]) \/ x.content.job \notin Pending(c)
  PROVE  PendingOK(c)'
  <1>1. Pending(c)' = Pending(c) /\ plan' = plan /\ pc' = pc /\ todo' = todo
    BY DEF commandVars, Pending
  <1>2. \A u \in OwnedUnits' : u \in Unit /\ IsOwned(timers'[u])
    BY DEF OwnedUnits, IsOwned
  <1>3. \A u \in OwnedUnits' : timers'[u].job \notin Pending(c)
    BY <1>2 DEF PendingOK, OwnedUnits
  <1>4. \A x \in Range(calls'[c]) : x.do \in Writing => x.content.job \notin Pending(c)
    BY DEF PendingOK
  <1> QED BY <1>1, <1>3, <1>4 DEF PendingOK

LEMMA SoloNext ==
  ASSUME NEW c \in Command, NEW R, Range(calls'[c]) = R, Phased(calls'[c]),
         CallsOK(R)', PendingOK(c)'
  PROVE  Solo(c)'
  <1>1. CallsOK(Range(calls[c]))'
    BY DEF CallsOK
  <1>2. Phased(calls[c])'
    BY DEF Phased
  <1> QED BY <1>1, <1>2 DEF Solo

LEMMA DisableSolo ==
  ASSUME SystemdAssumption, SystemdInv, SoloInv, NEW c \in Command,
         calls[c] # <<>>, Disable(c, Head(calls[c]))
  PROVE  ScheduledIsInstalled' /\ Solo(c)'
  <1>1. PICK call, T :
          /\ call \in SafeCall /\ call = Head(calls[c]) /\ T = Rest(c)
          /\ Range(calls[c]) = {call} \cup T
          /\ CallsOK({call} \cup T) /\ PendingOK(c) /\ Phased(calls[c])
          /\ ScheduledIsInstalled
    <2>1. Solo(c) /\ ScheduledIsInstalled
      BY DEF SoloInv
    <2>2. Phased(calls[c])
      BY <2>1 DEF Solo
    <2> QED BY <2>1, <2>2, HeadIs
  <1>2. /\ call.do = "disable" /\ NextCall(c, Then(call, "stop"))
        /\ enabled' = enabled \ {call.unit} /\ files' = files /\ running' = running
    BY <1>1 DEF Disable
  <1>3. PICK x \in SafeCall :
          Then(call, "stop") = <<x>> /\ x.do = "stop" /\ x.unit = call.unit
    BY <1>1, <1>2, ThenIs DEF Removing
  <1>4. Excluded(x) = Excluded(call)
    BY <1>2, <1>3 DEF Excluded, Starting, Writing
  <1>5. Range(calls'[c]) = {x} \cup T /\ Phased(calls'[c])
    <2>1. Leaves(call, Then(call, x.do), {x})
      BY <1>3, <1>4 DEF Leaves
    <2> QED BY <1>1, <1>2, <1>3, <2>1, AdvanceIs
  <1>6. ScheduledIsInstalled'
    BY <1>1, <1>2 DEF ScheduledIsInstalled, IsOwned
  <1>7. CallsOK({x} \cup T)'
    <2>1. \A u : Quiet(u) => Quiet(u)'
      BY <1>2 DEF Quiet
    <2>2. \A y \in {x} \cup T : y.do = "stop" => y.unit \notin enabled'
      BY <1>1, <1>2, <1>3 DEF CallsOK
    <2>3. \A y \in {x} \cup T :
            y.do \in {"removeTimer", "removeService"} => Quiet(y.unit)'
      BY <1>1, <1>3, <2>1 DEF CallsOK
    <2>4. \A y \in {x} \cup T : y.do \in Writing =>
            \/ Quiet(y.unit)'
            \/ \E z \in {x} \cup T : z.do \in {"disable", "stop"} /\ z.unit = y.unit
      BY <1>1, <1>3, <2>1 DEF CallsOK, Writing
    <2>5. \A y \in {x} \cup T : y.do \in Starting =>
            \/ Refusal \in {x} \cup T
            \/ \E z \in {x} \cup T : z.do \in Writing /\ z.unit = y.unit
      BY <1>1, <1>2, <1>3 DEF CallsOK, Writing, Starting, Removing, Refusal
    <2> QED BY <2>2, <2>3, <2>4, <2>5 DEF CallsOK
  <1>8. PendingOK(c)'
    BY <1>1, <1>2, <1>3, <1>5, PendingStays DEF NextCall, timers, Writing
  <1> QED BY <1>5, <1>6, <1>7, <1>8, SoloNext

LEMMA StopSolo ==
  ASSUME SystemdAssumption, SystemdInv, SoloInv, NEW c \in Command,
         calls[c] # <<>>, Stop(c, Head(calls[c]))
  PROVE  ScheduledIsInstalled' /\ Solo(c)'
  <1>1. PICK call, T :
          /\ call \in SafeCall /\ call = Head(calls[c]) /\ T = Rest(c)
          /\ Range(calls[c]) = {call} \cup T
          /\ CallsOK({call} \cup T) /\ PendingOK(c) /\ Phased(calls[c])
          /\ \A y \in T : y.do \notin Excluded(call)
          /\ ScheduledIsInstalled
    <2>1. Solo(c) /\ ScheduledIsInstalled
      BY DEF SoloInv
    <2>2. Phased(calls[c])
      BY <2>1 DEF Solo
    <2> QED BY <2>1, <2>2, HeadIs
  <1>2. /\ call.do = "stop" /\ NextCall(c, Then(call, "removeTimer"))
        /\ running' = [running EXCEPT ![call.unit] = None]
        /\ files' = files /\ enabled' = enabled
    BY <1>1 DEF Stop
  <1>3. PICK x \in SafeCall :
          Then(call, "removeTimer") = <<x>> /\ x.do = "removeTimer" /\ x.unit = call.unit
    BY <1>1, <1>2, ThenIs DEF Removing
  <1>4. Excluded(x) = Excluded(call)
    BY <1>2, <1>3 DEF Excluded, Starting, Writing
  <1>5. Range(calls'[c]) = {x} \cup T /\ Phased(calls'[c])
    <2>1. Leaves(call, Then(call, x.do), {x})
      BY <1>3, <1>4 DEF Leaves
    <2> QED BY <1>1, <1>2, <1>3, <2>1, AdvanceIs
  <1>6. call.unit \in Unit /\ call.unit \notin enabled
    BY <1>1, <1>2, CallIs DEF Removing, CallsOK
  <1>7. \A u \in Unit : running'[u] = IF u = call.unit THEN None ELSE running[u]
    BY <1>2 DEF SystemdInv, UnitsOK
  <1>8. ScheduledIsInstalled'
    BY <1>1, <1>2, <1>7 DEF ScheduledIsInstalled, IsOwned
  <1>9. Quiet(call.unit)' /\ \A u \in Unit : Quiet(u) => Quiet(u)'
    BY <1>2, <1>6, <1>7 DEF Quiet
  <1>10. CallsOK({x} \cup T)'
    <2>1. \A y \in T : y.do \in Removing \cup Writing => y.unit \in Unit
      BY <1>1, CallsAre
    <2>2. \A y \in {x} \cup T : y.do = "stop" => y.unit \notin enabled'
      BY <1>1, <1>2, <1>3 DEF CallsOK
    <2>3. \A y \in {x} \cup T :
            y.do \in {"removeTimer", "removeService"} => Quiet(y.unit)'
      BY <1>1, <1>3, <1>9, <2>1 DEF CallsOK, Removing
    <2>4. \A y \in {x} \cup T : y.do \in Writing =>
            \/ Quiet(y.unit)'
            \/ \E z \in {x} \cup T : z.do \in {"disable", "stop"} /\ z.unit = y.unit
      BY <1>1, <1>3, <1>9, <2>1 DEF CallsOK, Writing
    <2>5. \A y \in {x} \cup T : y.do \in Starting =>
            \/ Refusal \in {x} \cup T
            \/ \E z \in {x} \cup T : z.do \in Writing /\ z.unit = y.unit
      BY <1>1, <1>2, <1>3 DEF CallsOK, Writing, Starting, Removing, Refusal
    <2> QED BY <2>2, <2>3, <2>4, <2>5 DEF CallsOK
  <1>11. PendingOK(c)'
    BY <1>1, <1>2, <1>3, <1>5, PendingStays DEF NextCall, timers, Writing
  <1> QED BY <1>5, <1>8, <1>10, <1>11, SoloNext

LEMMA RemoveFileSolo ==
  ASSUME SystemdAssumption, SystemdInv, SoloInv, NEW c \in Command,
         calls[c] # <<>>, RemoveFile(c, Head(calls[c]))
  PROVE  ScheduledIsInstalled' /\ Solo(c)'
  <1>1. PICK call, T :
          /\ call \in SafeCall /\ call = Head(calls[c]) /\ T = Rest(c)
          /\ Range(calls[c]) = {call} \cup T
          /\ CallsOK({call} \cup T) /\ PendingOK(c) /\ Phased(calls[c])
          /\ \A y \in T : y.do \notin Excluded(call)
          /\ ScheduledIsInstalled
    <2>1. Solo(c) /\ ScheduledIsInstalled
      BY DEF SoloInv
    <2>2. Phased(calls[c])
      BY <2>1 DEF Solo
    <2> QED BY <2>1, <2>2, HeadIs
  <1>2. PICK kind, rest, X, f :
          /\ kind \in {"timer", "service"} /\ f = None
          /\ call.do \in {"removeTimer", "removeService"}
          /\ NextCall(c, rest) /\ Put(kind, call, f)
          /\ \/ rest = <<>> /\ X = {}
             \/ \E x \in SafeCall : /\ rest = <<x>> /\ X = {x}
                                    /\ x.do = "removeService" /\ x.unit = call.unit
    <2>1. CASE call.do = "removeTimer"
      <3>1. PICK x \in SafeCall : /\ Then(call, "removeService") = <<x>>
                                  /\ x.do = "removeService" /\ x.unit = call.unit
        BY <1>1, <2>1, ThenIs DEF Removing
      <3>2. NextCall(c, <<x>>) /\ Put("timer", call, None)
        BY <1>1, <2>1, <3>1 DEF RemoveFile
      <3>3. PICK kind, rest, X, f :
              kind = "timer" /\ rest = <<x>> /\ X = {x} /\ f = None
        OBVIOUS
      <3> QED BY <2>1, <3>1, <3>2, <3>3
    <2>2. CASE call.do # "removeTimer"
      BY <1>1, <2>2 DEF RemoveFile
    <2> QED BY <2>1, <2>2
  <1>3. Range(calls'[c]) = X \cup T /\ Phased(calls'[c])
    <2>1. Leaves(call, rest, X)
      BY <1>2 DEF Leaves, Excluded, Starting, Writing
    <2> QED BY <1>1, <1>2, <2>1, AdvanceIs
  <1>4. call.unit \in Unit /\ Quiet(call.unit)
    BY <1>1, <1>2, CallIs DEF Removing, CallsOK
  <1>5. /\ enabled' = enabled /\ running' = running
        /\ files' = [files EXCEPT ![kind][call.unit] = f]
        /\ f = None /\ ~IsOwned(f)
    BY <1>2 DEF Put, IsOwned
  <1>6. \A k \in {"timer", "service"}, w \in Unit :
          files'[k][w] = IF k = kind /\ w = call.unit THEN f ELSE files[k][w]
    <2>1. UnitsOK
      BY DEF SystemdInv
    <2>2. PICK u \in Unit : u = call.unit
      BY <1>4
    <2>3. kind \in {"timer", "service"} /\ files' = [files EXCEPT ![kind][u] = f]
      BY <1>2, <1>5, <2>2
    <2>4. FileBecomes(kind, u, f)
      BY <2>1, <2>3, FileIs
    <2> QED BY <2>2, <2>4 DEF FileBecomes
  <1>7. ScheduledIsInstalled'
    BY <1>1, <1>4, <1>5, <1>6 DEF ScheduledIsInstalled, IsOwned, Quiet
  <1>8. CallsOK(X \cup T)'
    <2>1. \A u : Quiet(u) => Quiet(u)'
      BY <1>5 DEF Quiet
    <2>2. \A y \in X \cup T : y.do = "stop" => y.unit \notin enabled'
      BY <1>1, <1>2, <1>5 DEF CallsOK
    <2>3. \A y \in X \cup T :
            y.do \in {"removeTimer", "removeService"} => Quiet(y.unit)'
      BY <1>1, <1>2, <1>4, <2>1 DEF CallsOK
    <2>4. \A y \in X \cup T : y.do \in Writing =>
            \/ Quiet(y.unit)'
            \/ \E z \in X \cup T : z.do \in {"disable", "stop"} /\ z.unit = y.unit
      BY <1>1, <1>2, <2>1 DEF CallsOK, Writing
    <2>5. \A y \in X \cup T : y.do \in Starting =>
            \/ Refusal \in X \cup T
            \/ \E z \in X \cup T : z.do \in Writing /\ z.unit = y.unit
      BY <1>1, <1>2 DEF CallsOK, Writing, Starting, Removing, Refusal
    <2> QED BY <2>2, <2>3, <2>4, <2>5 DEF CallsOK
  <1>9. PendingOK(c)'
    <2>1. \A u \in Unit : IsOwned(timers'[u]) => timers'[u] = timers[u]
      BY <1>5, <1>6 DEF timers
    <2>2. \A u \in Unit : IsOwned(timers'[u]) =>
            IsOwned(timers[u]) /\ timers'[u].job = timers[u].job
      BY <2>1 DEF IsOwned
    <2> QED BY <1>1, <1>2, <1>3, <2>2, PendingStays DEF NextCall, Writing
  <1> QED BY <1>3, <1>7, <1>8, <1>9, SoloNext

LEMMA WriteFileSolo ==
  ASSUME SystemdAssumption, SystemdInv, SoloInv, NEW c \in Command,
         calls[c] # <<>>, WriteFile(c, Head(calls[c]))
  PROVE  ScheduledIsInstalled' /\ Solo(c)'
  <1>1. PICK call, T :
          /\ call \in SafeCall /\ call = Head(calls[c]) /\ T = Rest(c)
          /\ Range(calls[c]) = {call} \cup T
          /\ CallsOK({call} \cup T) /\ PendingOK(c) /\ Phased(calls[c])
          /\ \A y \in T : y.do \notin Excluded(call)
          /\ ScheduledIsInstalled
    <2>1. Solo(c) /\ ScheduledIsInstalled
      BY DEF SoloInv
    <2>2. Phased(calls[c])
      BY <2>1 DEF Solo
    <2> QED BY <2>1, <2>2, HeadIs
  <1>2. PICK kind, rest, X, f :
          /\ kind \in {"timer", "service"} /\ f \in {Torn, call.content}
          /\ call.do \in Writing /\ NextCall(c, rest) /\ Put(kind, call, f)
          /\ \/ rest = <<>> /\ X = {} /\ kind = "service" /\ f = call.content
             \/ \E x \in SafeCall :
                  /\ rest = <<x>> /\ X = {x} /\ x.do \in Writing
                  /\ x.unit = call.unit /\ x.content = call.content
    <2>1. CASE call.do = "writeService"
      BY <1>1, <2>1 DEF WriteFile, Writing
    <2>2. CASE call.do # "writeService"
      <3>1. PICK do \in Writing, k \in {"timer", "service"}, f \in {Torn, call.content} :
              call.do \in Writing /\ NextCall(c, Then(call, do)) /\ Put(k, call, f)
        BY <1>1, <2>2 DEF WriteFile, Writing
      <3>2. PICK x \in SafeCall : /\ Then(call, do) = <<x>> /\ x.do = do
                                  /\ x.unit = call.unit /\ x.content = call.content
        BY <1>1, <3>1, ThenIs
      <3>3. NextCall(c, <<x>>)
        BY <3>1, <3>2
      <3> QED BY <3>1, <3>2, <3>3
    <2> QED BY <2>1, <2>2
  <1>3. Range(calls'[c]) = X \cup T /\ Phased(calls'[c])
    <2>1. Leaves(call, rest, X)
      BY <1>2 DEF Leaves, Excluded, Starting, Writing
    <2> QED BY <1>1, <1>2, <2>1, AdvanceIs
  <1>4. \A y \in T : y.do \notin Removing
    BY <1>1, <1>2 DEF Excluded, Starting, Writing
  <1>5. call.unit \in Unit /\ Quiet(call.unit)
    BY <1>1, <1>2, <1>4, CallIs DEF Writing, Removing, CallsOK
  <1>6. call.content \in File /\ HasName(call.content, call.unit)
    BY <1>1, <1>2, CallIs
  <1>7. /\ enabled' = enabled /\ running' = running
        /\ files' = [files EXCEPT ![kind][call.unit] = f]
        /\ f \in File \cup {Torn} /\ (IsOwned(f) => f = call.content)
    BY <1>2, <1>6 DEF Put, IsOwned
  <1>8. \A k \in {"timer", "service"}, w \in Unit :
          files'[k][w] = IF k = kind /\ w = call.unit THEN f ELSE files[k][w]
    <2>1. UnitsOK
      BY DEF SystemdInv
    <2>2. PICK u \in Unit : u = call.unit
      BY <1>5
    <2>3. kind \in {"timer", "service"} /\ files' = [files EXCEPT ![kind][u] = f]
      BY <1>2, <1>7, <2>2
    <2>4. FileBecomes(kind, u, f)
      BY <2>1, <2>3, FileIs
    <2> QED BY <2>2, <2>4 DEF FileBecomes
  <1>9. ScheduledIsInstalled'
    BY <1>1, <1>5, <1>7, <1>8 DEF ScheduledIsInstalled, IsOwned, Quiet
  <1>10. CallsOK(X \cup T)'
    <2>1. \A u : Quiet(u) => Quiet(u)'
      BY <1>7 DEF Quiet
    <2>2. \A y \in X \cup T : y.do \notin Removing
      BY <1>2, <1>4 DEF Writing, Removing
    <2>3. \A y \in X \cup T : y.do \in Writing => Quiet(y.unit)'
      BY <1>1, <1>2, <1>4, <1>5, <2>1 DEF CallsOK, Writing, Removing
    <2>4. ASSUME NEW y \in X \cup T, y.do \in Starting
          PROVE  \/ Refusal \in X \cup T
                 \/ \E z \in X \cup T : z.do \in Writing /\ z.unit = y.unit
                 \/ IsOwned(files'["service"][y.unit])
      <3>1. y \in T /\ y.unit \in Unit
        BY <1>1, <1>2, <2>4, CallsAre DEF Starting, Writing
      <3>2. \/ Refusal \in {call} \cup T
            \/ \E z \in {call} \cup T : z.do \in Writing /\ z.unit = y.unit
            \/ IsOwned(files["service"][y.unit])
        BY <1>1, <2>4, <3>1 DEF CallsOK
      <3>3. Refusal # call
        BY <1>2 DEF Refusal, Writing
      <3>4. CASE y.unit = call.unit
        <4>1. CASE X = {}
          <5>1. files'["service"][y.unit] = call.content
            BY <1>2, <1>5, <1>8, <3>4, <4>1
          <5>2. IsOwned(call.content)
            BY <1>6 DEF IsOwned, SystemdAssumption
          <5> QED BY <5>1, <5>2
        <4>2. CASE X # {}
          BY <1>2, <3>4, <4>2
        <4> QED BY <4>1, <4>2
      <3>5. CASE y.unit # call.unit
        <4>1. files'["service"][y.unit] = files["service"][y.unit]
          BY <1>8, <3>1, <3>5
        <4> QED BY <3>2, <3>3, <3>5, <4>1 DEF IsOwned
      <3> QED BY <3>4, <3>5
    <2>5. \A y \in X \cup T : y.do \in Starting =>
            \/ Refusal \in X \cup T
            \/ \E z \in X \cup T : z.do \in Writing /\ z.unit = y.unit
            \/ IsOwned(files["service"][y.unit])'
      BY <2>4 DEF IsOwned
    <2> QED BY <2>2, <2>3, <2>5 DEF CallsOK, Removing
  <1>11. PendingOK(c)'
    <2>1. call.content.job \notin Pending(c)
      BY <1>1, <1>2 DEF PendingOK
    <2>2. ASSUME NEW u \in Unit, IsOwned(timers'[u])
          PROVE  \/ IsOwned(timers[u]) /\ timers'[u].job = timers[u].job
                 \/ timers'[u].job \notin Pending(c)
      <3>1. timers'[u] = timers[u] \/ timers'[u] = f
        BY <1>8 DEF timers
      <3> QED BY <1>7, <2>1, <2>2, <3>1 DEF IsOwned
    <2>3. \A y \in Range(calls'[c]) : y.do \in Writing =>
            y \in Range(calls[c]) \/ y.content.job \notin Pending(c)
      BY <1>1, <1>2, <1>3, <2>1
    <2> QED BY <1>1, <1>2, <2>2, <2>3, PendingStays DEF NextCall
  <1> QED BY <1>3, <1>9, <1>10, <1>11, SoloNext

LEMMA EnableSolo ==
  ASSUME SystemdAssumption, SystemdInv, SoloInv, NEW c \in Command,
         calls[c] # <<>>, Enable(c, Head(calls[c]))
  PROVE  ScheduledIsInstalled' /\ Solo(c)'
  <1>1. PICK call, T :
          /\ call \in SafeCall /\ call = Head(calls[c]) /\ T = Rest(c)
          /\ Range(calls[c]) = {call} \cup T
          /\ CallsOK({call} \cup T) /\ PendingOK(c) /\ Phased(calls[c])
          /\ \A y \in T : y.do \notin Excluded(call)
          /\ ScheduledIsInstalled
    <2>1. Solo(c) /\ ScheduledIsInstalled
      BY DEF SoloInv
    <2>2. Phased(calls[c])
      BY <2>1 DEF Solo
    <2> QED BY <2>1, <2>2, HeadIs
  <1>2. /\ call.do = "enable" /\ NextCall(c, Then(call, "start"))
        /\ IsOwned(files["timer"][call.unit])
        /\ enabled' = enabled \cup {call.unit}
        /\ files' = files /\ running' = running
    BY <1>1 DEF Enable
  <1>3. PICK x \in SafeCall :
          Then(call, "start") = <<x>> /\ x.do = "start" /\ x.unit = call.unit
    BY <1>1, <1>2, ThenIs DEF Starting
  <1>4. /\ call.unit \in Unit /\ IsOwned(files["service"][call.unit])
        /\ \A y \in T : y.do \notin Removing \cup Writing
    <2>1. call.unit \in Unit
      BY <1>1, <1>2, CallIs DEF Starting
    <2>2. \A y \in T : y.do \notin Removing \cup Writing \cup {"refuse"}
      BY <1>1, <1>2 DEF Excluded, Starting
    <2>3. call.do \in Starting /\ call.do \notin Writing \cup {"refuse"}
      BY <1>2 DEF Starting, Writing
    <2>4. Refusal.do = "refuse"
      BY DEF Refusal
    <2>5. Refusal \notin {call} \cup T
      BY <2>2, <2>3, <2>4
    <2> QED BY <1>1, <2>1, <2>2, <2>3, <2>5 DEF CallsOK
  <1>5. Range(calls'[c]) = {x} \cup T /\ Phased(calls'[c])
    <2>1. Excluded(x) = Excluded(call)
      BY <1>2, <1>3 DEF Excluded, Starting, Writing
    <2>2. Leaves(call, Then(call, x.do), {x})
      BY <1>3, <2>1 DEF Leaves
    <2> QED BY <1>1, <1>2, <1>3, <2>2, AdvanceIs
  <1>6. ScheduledIsInstalled'
    BY <1>1, <1>2, <1>4 DEF ScheduledIsInstalled, IsOwned
  <1>7. CallsOK({x} \cup T)'
    <2>1. \A y \in {x} \cup T : y.do \notin Removing \cup Writing
      BY <1>2, <1>3, <1>4 DEF Starting, Removing, Writing
    <2>2. \A y \in {x} \cup T : y.do \in Starting =>
            \/ Refusal \in {x} \cup T
            \/ IsOwned(files["service"][y.unit])'
      BY <1>1, <1>2, <1>3, <1>4 DEF CallsOK, IsOwned, Starting, Writing, Refusal
    <2> QED BY <2>1, <2>2 DEF CallsOK, Removing, Writing
  <1>8. PendingOK(c)'
    BY <1>1, <1>2, <1>3, <1>5, PendingStays DEF NextCall, timers, Writing
  <1> QED BY <1>5, <1>6, <1>7, <1>8, SoloNext

LEMMA StartSolo ==
  ASSUME SystemdAssumption, SystemdInv, SoloInv, NEW c \in Command,
         calls[c] # <<>>, Start(c, Head(calls[c]))
  PROVE  ScheduledIsInstalled' /\ Solo(c)'
  <1>1. PICK call, T :
          /\ call \in SafeCall /\ call = Head(calls[c]) /\ T = Rest(c)
          /\ Range(calls[c]) = {call} \cup T
          /\ CallsOK({call} \cup T) /\ PendingOK(c) /\ Phased(calls[c])
          /\ \A y \in T : y.do \notin Excluded(call)
          /\ ScheduledIsInstalled
    <2>1. Solo(c) /\ ScheduledIsInstalled
      BY DEF SoloInv
    <2>2. Phased(calls[c])
      BY <2>1 DEF Solo
    <2> QED BY <2>1, <2>2, HeadIs
  <1>2. /\ call.do = "start" /\ NextCall(c, <<>>)
        /\ IsOwned(files["timer"][call.unit])
        /\ running' = [running EXCEPT ![call.unit] = files["timer"][call.unit]]
        /\ files' = files /\ enabled' = enabled
    BY <1>1 DEF Start
  <1>3. Range(calls'[c]) = {} \cup T /\ Phased(calls'[c])
    <2>1. Leaves(call, <<>>, {})
      BY DEF Leaves
    <2> QED BY <1>1, <1>2, <2>1, AdvanceIs
  <1>4. /\ call.unit \in Unit /\ IsOwned(files["service"][call.unit])
        /\ \A y \in T : y.do \notin Removing \cup Writing
    <2>1. call.unit \in Unit
      BY <1>1, <1>2, CallIs DEF Starting
    <2>2. \A y \in T : y.do \notin Removing \cup Writing \cup {"refuse"}
      BY <1>1, <1>2 DEF Excluded, Starting
    <2>3. call.do \in Starting /\ call.do \notin Writing \cup {"refuse"}
      BY <1>2 DEF Starting, Writing
    <2>4. Refusal.do = "refuse"
      BY DEF Refusal
    <2>5. Refusal \notin {call} \cup T
      BY <2>2, <2>3, <2>4
    <2> QED BY <1>1, <2>1, <2>2, <2>3, <2>5 DEF CallsOK
  <1>5. \A u \in Unit : u # call.unit => running'[u] = running[u]
    BY <1>2 DEF SystemdInv, UnitsOK
  <1>6. ScheduledIsInstalled'
    BY <1>1, <1>2, <1>4, <1>5 DEF ScheduledIsInstalled, IsOwned
  <1>7. CallsOK(T)'
    <2>1. \A y \in T : y.do \notin Removing \cup Writing
      BY <1>2, <1>3, <1>4 DEF Starting, Removing, Writing
    <2>2. \A y \in T : y.do \in Starting =>
            \/ Refusal \in T
            \/ IsOwned(files["service"][y.unit])'
      BY <1>1, <1>2, <1>3, <1>4 DEF CallsOK, IsOwned, Starting, Writing, Refusal
    <2> QED BY <2>1, <2>2 DEF CallsOK, Removing, Writing
  <1>8. PendingOK(c)'
    BY <1>1, <1>2, <1>3, PendingStays DEF NextCall, timers
  <1>9. Range(calls'[c]) = T
    BY <1>3
  <1> QED BY <1>3, <1>6, <1>7, <1>8, <1>9, SoloNext

LEMMA DaemonReloadSolo ==
  ASSUME SystemdAssumption, SystemdInv, SoloInv, NEW c \in Command,
         calls[c] # <<>>, DaemonReload(c, Head(calls[c]))
  PROVE  ScheduledIsInstalled' /\ Solo(c)'
  <1>1. PICK call, T :
          /\ call \in SafeCall /\ call = Head(calls[c]) /\ T = Rest(c)
          /\ Range(calls[c]) = {call} \cup T
          /\ CallsOK({call} \cup T) /\ PendingOK(c) /\ Phased(calls[c])
          /\ \A y \in T : y.do \notin Excluded(call)
          /\ ScheduledIsInstalled
    <2>1. Solo(c) /\ ScheduledIsInstalled
      BY DEF SoloInv
    <2>2. Phased(calls[c])
      BY <2>1 DEF Solo
    <2> QED BY <2>1, <2>2, HeadIs
  <1>2. /\ call.do = "reload" /\ NextCall(c, <<>>)
        /\ running' = [u \in Unit |->
             IF running[u] # None /\ IsOwned(files["timer"][u])
               THEN files["timer"][u] ELSE running[u]]
        /\ files' = files /\ enabled' = enabled
    BY <1>1 DEF DaemonReload
  <1>3. Range(calls'[c]) = {} \cup T /\ Phased(calls'[c])
    <2>1. Leaves(call, <<>>, {})
      BY DEF Leaves
    <2> QED BY <1>1, <1>2, <2>1, AdvanceIs
  <1>4. \A u \in Unit : running'[u] # None => running[u] # None
    BY <1>2
  <1>5. ScheduledIsInstalled'
    BY <1>1, <1>2, <1>4 DEF ScheduledIsInstalled, IsOwned
  <1>6. CallsOK(T)'
    <2>1. \A u \in Unit : Quiet(u) => Quiet(u)'
      BY <1>2, <1>4 DEF Quiet
    <2>2. \A y \in T : y.do \in Removing \cup Writing => y.unit \in Unit
      BY <1>1, CallsAre
    <2>3. \A y \in T : y.do = "stop" => y.unit \notin enabled'
      BY <1>1, <1>2 DEF CallsOK
    <2>4. \A y \in T : y.do \in {"removeTimer", "removeService"} => Quiet(y.unit)'
      BY <1>1, <2>1, <2>2 DEF CallsOK, Removing
    <2>5. \A y \in T : y.do \in Writing =>
            \/ Quiet(y.unit)'
            \/ \E z \in T : z.do \in {"disable", "stop"} /\ z.unit = y.unit
      BY <1>1, <1>2, <2>1, <2>2 DEF CallsOK
    <2>6. \A y \in T : y.do \in Starting =>
            \/ Refusal \in T
            \/ \E z \in T : z.do \in Writing /\ z.unit = y.unit
            \/ IsOwned(files["service"][y.unit]) /\ \A z \in T : z.do \notin Removing
      BY <1>1, <1>2 DEF CallsOK, Writing, Starting, Removing, Refusal
    <2>7. \A u : IsOwned(files["service"][u]) => IsOwned(files["service"][u])'
      BY <1>2 DEF IsOwned
    <2> QED BY <2>3, <2>4, <2>5, <2>6, <2>7 DEF CallsOK
  <1>7. PendingOK(c)'
    BY <1>1, <1>2, <1>3, PendingStays DEF NextCall, timers
  <1>8. Range(calls'[c]) = T
    BY <1>3
  <1> QED BY <1>3, <1>5, <1>6, <1>7, <1>8, SoloNext

(* The steps that are no calls.                                            *)

\* A command without an operation or jobs to create.
LEMMA IdleSolo ==
  ASSUME NEW c \in Command, calls'[c] = <<>>, Pending(c)' = {},
         (plan[c].creates \cap plan[c].updates = {})', pc'[c] # "update"
  PROVE  Solo(c)'
  <1>1. Range(calls'[c]) = {} /\ Phased(calls'[c]) /\ CallsOK({})'
    BY NoCalls DEF CallsOK
  <1>2. PendingOK(c)'
    BY <1>1 DEF PendingOK
  <1> QED BY <1>1, <1>2, SoloNext

\* A command between two operations.
LEMMA WaitingSolo ==
  ASSUME NEW c \in Command, calls'[c] = <<>>,
         OwnedUnits' = OwnedUnits, timers' = timers,
         \A u \in OwnedUnits : timers[u].job \notin Pending(c)',
         (plan[c].creates \cap plan[c].updates = {})',
         pc'[c] = "update" => todo'[c] \subseteq plan'[c].updates
  PROVE  Solo(c)'
  <1>1. Range(calls'[c]) = {} /\ Phased(calls'[c]) /\ CallsOK({})'
    BY NoCalls DEF CallsOK
  <1>2. PendingOK(c)'
    BY <1>1 DEF PendingOK
  <1> QED BY <1>1, <1>2, SoloNext

LEMMA StopsSolo ==
  ASSUME SystemdInv, SoloInv, NEW c \in Command, Stops(c)
  PROVE  ScheduledIsInstalled' /\ Solo(c)'
  <1>1. /\ calls'[c] = <<>> /\ pc'[c] = "failed" /\ plan' = plan
        /\ UNCHANGED unitVars
    BY DEF Stops, Abort, Fail, Pass, Goto, SystemdInv, CommandInv, CommandTypeOK
  <1>2. ScheduledIsInstalled'
    BY <1>1 DEF SoloInv, ScheduledIsInstalled, unitVars, IsOwned
  <1>3. Pending(c)' = {}
    BY <1>1 DEF Pending
  <1>4. (plan[c].creates \cap plan[c].updates = {})'
    BY <1>1 DEF SoloInv, Solo, PendingOK
  <1> QED BY <1>1, <1>2, <1>3, <1>4, IdleSolo

LEMMA StoppedSolo ==
  ASSUME SystemdInv, SoloInv, NEW c \in Command, pc[c] \in Stopped,
         UNCHANGED <<calls, commandVars>>
  PROVE  Solo(c)'
  <1>1. /\ calls'[c] = <<>> /\ pc'[c] = pc[c] /\ plan' = plan
        /\ pc[c] \notin {"delete", "update", "create"}
    BY DEF SystemdInv, commandVars, Stopped
  <1>2. Pending(c)' = {}
    BY <1>1 DEF Pending
  <1>3. (plan[c].creates \cap plan[c].updates = {})'
    BY <1>1 DEF SoloInv, Solo, PendingOK
  <1> QED BY <1>1, <1>2, <1>3, IdleSolo

LEMMA RebootSolo ==
  ASSUME SystemdInv, SoloInv, Reboot
  PROVE  SoloInv'
  <1>1. \A c \in Command : Solo(c)'
    BY StoppedSolo DEF Reboot, callVars
  <1>2. \A u \in Unit : u \in enabled' \/ running'[u] # None => u \in enabled
    BY DEF Reboot
  <1>3. ScheduledIsInstalled'
    BY <1>2 DEF Reboot, SoloInv, ScheduledIsInstalled, IsOwned
  <1> QED BY <1>1, <1>3 DEF SoloInv

LEMMA EditByHandSolo ==
  ASSUME SystemdAssumption, SystemdInv, SoloInv, EditByHand
  PROVE  SoloInv'
  <1>1. \A c \in Command : Solo(c)'
    BY StoppedSolo DEF EditByHand, ByHand
  <1>2. PICK u \in OwnedUnits, f \in File :
          /\ files' = [files EXCEPT !["timer"][u] = f]
          /\ IsOwned(f) /\ HasName(f, u) /\ UNCHANGED <<enabled, running>>
    BY EditIs DEF SystemdInv
  <1>3. \A k \in {"timer", "service"}, w \in Unit :
          files'[k][w] = IF k = "timer" /\ w = u THEN f ELSE files[k][w]
    <2>1. UnitsOK /\ u \in Unit
      BY DEF SystemdInv, OwnedUnits
    <2>2. PICK kind \in {"timer", "service"} : kind = "timer"
      OBVIOUS
    <2>3. FileBecomes(kind, u, f)
      BY <1>2, <2>1, <2>2, FileIs
    <2> QED BY <2>2, <2>3 DEF FileBecomes
  <1>4. ScheduledIsInstalled'
    BY <1>2, <1>3 DEF SoloInv, ScheduledIsInstalled, IsOwned
  <1> QED BY <1>1, <1>4 DEF SoloInv

LEMMA OtherSolo ==
  ASSUME SystemdAssumption, SystemdInv, SoloInv, NEW c \in Command, Other(c)
  PROVE  ScheduledIsInstalled' /\ Solo(c)'
  <1> DEFINE list == List(timers)
  <1>1. /\ calls[c] = <<>> /\ calls' = calls /\ UNCHANGED unitVars
        /\ \/ \E m \in Manifest : Apply(c, m)
           \/ Prune(c, list) \/ ComputePlan(c, list)
           \/ NextPass(c) \/ SpecStep(c)
    BY DEF Other, Between, timers
  <1>2. ScheduledIsInstalled'
    BY <1>1 DEF SoloInv, ScheduledIsInstalled, unitVars, IsOwned
  <1>3. \A u \in OwnedUnits : timers[u].job \in Listed(list)
    <2>1. \A u \in OwnedUnits : \E k \in DOMAIN list : list[k] = Entry(timers[u])
      BY ListIs DEF SystemdInv
    <2>2. \A u \in OwnedUnits : Entry(timers[u]).job = timers[u].job
      BY DEF Entry
    <2> HIDE DEF list
    <2> QED BY <2>1, <2>2 DEF Listed
  <1> HIDE DEF list
  <1>4. /\ PendingOK(c) /\ OwnedUnits' = OwnedUnits /\ timers' = timers
        /\ pc \in [Command -> Stopped \cup {"compute", "delete", "update", "create",
                                            "specs", "fill", "orphans", "prune"}]
        /\ plan[c].creates \cap plan[c].updates = {}
    BY <1>1 DEF SoloInv, Solo, PendingOK, SystemdInv, CommandInv, CommandTypeOK,
                unitVars, OwnedUnits, timers, IsOwned
  <1>5. CASE (\E m \in Manifest : Apply(c, m)) \/ Prune(c, list)
    <2>1. plan'[c] = NoPlan /\ pc'[c] \in {"compute", "prune"}
      BY <1>4, <1>5 DEF Apply, Prune, Pass, Goto, SystemdInv, CommandInv
    <2> QED BY <1>1, <1>2, <2>1, IdleSolo DEF NoPlan, Pending
  <1>6. CASE ComputePlan(c, list)
    <2>1. /\ plan'[c] = Compute(want[c], list) /\ pc'[c] = "delete"
      BY <1>4, <1>6 DEF ComputePlan, Pass, Goto, SystemdInv, CommandInv
    <2>2. /\ plan'[c].creates \cap plan'[c].updates = {}
          /\ plan'[c].creates \cap Listed(list) = {}
      BY <2>1 DEF Compute
    <2>3. Pending(c)' = plan'[c].creates
      BY <2>1 DEF Pending
    <2> QED BY <1>1, <1>2, <1>3, <1>4, <2>1, <2>2, <2>3, WaitingSolo
  <1>7. CASE NextPass(c)
    <2>1. CASE pc[c] \in {"delete", "update"}
      <3>1. /\ plan' = plan /\ Pending(c)' = Pending(c)
            /\ pc'[c] = "update" => todo'[c] = plan[c].updates
        BY <1>4, <1>7, <2>1 DEF NextPass, Pass, Goto, Pending, SystemdInv, CommandInv
      <3>2. \A u \in OwnedUnits : timers[u].job \notin Pending(c)
        BY <1>4 DEF PendingOK
      <3> QED BY <1>1, <1>2, <1>4, <3>1, <3>2, WaitingSolo
    <2>2. CASE pc[c] \notin {"delete", "update"}
      <3>1. plan' = plan /\ pc'[c] \in {"specs", "orphans", "done"}
        BY <1>4, <1>7, <2>2 DEF NextPass, Pass, Goto
      <3> QED BY <1>1, <1>2, <1>4, <3>1, IdleSolo DEF Pending
    <2> QED BY <2>1, <2>2
  <1>8. CASE SpecStep(c)
    <2>1. plan' = plan /\ pc'[c] \in {"specs", "fill", "orphans"}
      BY <1>4, <1>8 DEF SpecStep, TruncateSpec, FillSpec, RemoveOrphan, Pass, Goto
    <2> QED BY <1>1, <1>2, <1>4, <2>1, IdleSolo DEF Pending
  <1> QED BY <1>1, <1>5, <1>6, <1>7, <1>8

(* An operation begins.                                                    *)

LEMMA DeleteSolo ==
  ASSUME SystemdAssumption, NEW j \in Job
  PROVE  /\ Phased(DeleteCalls(j))
         /\ \A x \in Range(DeleteCalls(j)) :
              x.do \notin Writing \cup Starting /\ Excluded(x) = {}
         /\ CallsOK(Range(DeleteCalls(j)))
  <1>1. \A x \in Range(DeleteCalls(j)) : x.do \in {"disable", "reload"}
    BY RemovalsAre
  <1>2. \A x \in Range(DeleteCalls(j)) :
          x.do \notin Writing \cup Starting /\ Excluded(x) = {}
    BY <1>1 DEF Writing, Starting, Excluded
  <1>3. Phased(DeleteCalls(j))
    BY <1>2 DEF Phased, Range
  <1>4. CallsOK(Range(DeleteCalls(j)))
    BY <1>1 DEF CallsOK, Writing, Starting
  <1> QED BY <1>2, <1>3, <1>4

LEMMA CreateSolo ==
  ASSUME SystemdAssumption, NEW j \in Job, NEW v \in Version
  PROVE  /\ Phased(CreateCalls(j, v))
         /\ \A x \in Range(CreateCalls(j, v)) :
              /\ x.do \notin Removing
              /\ x.do \in Writing => \E n \in 1..Len(Schedules[v]) :
                   x = WriteUnit(UnitOf(j, n), Render(j, v, n - 1))
              /\ x.do \in Starting =>
                   \/ Refusal \in Range(CreateCalls(j, v))
                   \/ \E y \in Range(CreateCalls(j, v)) :
                        y.do \in Writing /\ y.unit = x.unit
  <1>1. PICK writes \in Seq(SafeCall), enables \in Seq(SafeCall) :
          /\ CreateCalls(j, v) = (writes \o <<Reload>>) \o enables
          /\ \A x \in Range(writes) :
               \/ x = Refusal
               \/ \E n \in 1..Len(Schedules[v]) :
                    x = WriteUnit(UnitOf(j, n), Render(j, v, n - 1))
          /\ \A n \in 1..Len(Schedules[v]) :
               \/ Refusal \in Range(writes)
               \/ WriteUnit(UnitOf(j, n), Render(j, v, n - 1)) \in Range(writes)
          /\ \A x : x \in Range(enables) <=>
               \E n \in 1..Len(Schedules[v]) : x = EnableUnit(UnitOf(j, n))
    BY CreationsAre
  <1> DEFINE size == Len(Schedules[v])
             write(n) == WriteUnit(UnitOf(j, n), Render(j, v, n - 1))
  <1>2. <<Reload>> \in Seq(SafeCall) /\ Phased(<<Reload>>) /\ Range(<<Reload>>) = {Reload}
    BY PhasedOne DEF Reload, SafeCall, Call, Writing
  <1>3. writes \o <<Reload>> \in Seq(SafeCall)
    BY <1>2, ConcatProperties
  <1>4. \A x : x \in Range(CreateCalls(j, v)) <=>
          x \in Range(writes) \/ x = Reload \/ x \in Range(enables)
    <2>1. \A x : x \in Range(writes \o <<Reload>>) <=> x \in Range(writes) \/ x = Reload
      BY <1>2, RangeOfConcat
    <2> QED BY <1>1, <1>3, <2>1, RangeOfConcat
  <1>5. \A x \in Range(writes) :
          /\ x.do \in {"refuse", "truncateTimer"}
          /\ x.do \in Writing => \E n \in 1..size : x = write(n)
    BY <1>1 DEF Refusal, WriteUnit, Writing
  <1>6. \A x \in Range(enables) : x.do = "enable"
    BY <1>1 DEF EnableUnit
  <1>7. Phased(CreateCalls(j, v))
    <2>1. /\ \A x \in Range(writes) : Excluded(x) = Removing
          /\ Excluded(Reload) = {}
      BY <1>5 DEF Excluded, Starting, Writing, Reload
    <2>2. Reload.do = "reload"
      BY DEF Reload
    <2>3. Phased(writes) /\ Phased(enables)
      BY <1>5, <1>6, <2>1 DEF Phased, Range, Removing, Excluded, Starting, Writing
    <2>4. Phased(writes \o <<Reload>>)
      BY <1>2, <2>1, <2>2, <2>3, PhasedConcat DEF Removing
    <2>5. \A x \in Range(writes \o <<Reload>>) : Excluded(x) \subseteq Removing
      BY <1>2, <2>1, RangeOfConcat
    <2>6. \A x \in Range(writes \o <<Reload>>), y \in Range(enables) :
            y.do \notin Excluded(x)
      BY <1>6, <2>5 DEF Removing
    <2> QED BY <1>1, <1>3, <2>3, <2>4, <2>6, PhasedConcat
  <1>8. ASSUME NEW x \in Range(CreateCalls(j, v)), x.do \in Starting
        PROVE  \/ Refusal \in Range(CreateCalls(j, v))
               \/ \E y \in Range(CreateCalls(j, v)) :
                    y.do \in Writing /\ y.unit = x.unit
    <2>1. x \in Range(enables)
      BY <1>4, <1>5, <1>8 DEF Starting, Reload
    <2>2. PICK n \in 1..size : x = EnableUnit(UnitOf(j, n))
      BY <1>1, <2>1
    <2>3. /\ write(n).do \in Writing /\ write(n).unit = x.unit
          /\ Refusal \in Range(writes) \/ write(n) \in Range(writes)
      BY <1>1, <2>2 DEF WriteUnit, EnableUnit, Writing
    <2> HIDE DEF write
    <2> QED BY <1>4, <2>3
  <1>9. ASSUME NEW x \in Range(CreateCalls(j, v))
        PROVE  /\ x.do \notin Removing
               /\ x.do \in Writing => \E n \in 1..size : x = write(n)
    BY <1>4, <1>5, <1>6 DEF Reload, Removing, Writing
  <1> QED BY <1>7, <1>8, <1>9

\* A unit that systemd runs belongs to the job that it is named for.
LEMMA NamedTimer ==
  ASSUME SystemdAssumption, SystemdInv, ScheduledIsInstalled, DistinctNames,
         NEW j \in Job, NEW v \in Version, NEW n \in 1..Len(Schedules[v])
  PROVE  \/ Quiet(UnitOf(j, n))
         \/ UnitOf(j, n) \in OwnedUnits /\ timers[UnitOf(j, n)].job = j
  <1> DEFINE u == UnitOf(j, n)
             f == timers[u]
  <1>1. u \in Unit /\ u = ScheduleName[<<j, n - 1>>] /\ <<j, n - 1>> \in DOMAIN ScheduleName
    <2>1. n \in DOMAIN Schedules[v]
      BY ReconcileAssumption
    <2> QED BY <2>1, UnitIs DEF SystemdAssumption, UnitOf
  <1> HIDE DEF u
  <1>2. CASE ~Quiet(u)
    <2>1. u \in OwnedUnits
      BY <1>1, <1>2 DEF Quiet, ScheduledIsInstalled, OwnedUnits, timers
    <2>2. /\ <<f.job, f.index>> \in DOMAIN ScheduleName
          /\ ScheduleName[<<f.job, f.index>>] = u
      BY <2>1, OwnedIs DEF SystemdInv, HasName
    <2>3. <<f.job, f.index>> = <<j, n - 1>>
      BY <1>1, <2>2 DEF DistinctNames
    <2> QED BY <2>1, <2>3 DEF u
  <1> QED BY <1>2 DEF u

LEMMA OneJobSolo ==
  ASSUME SystemdAssumption, DistinctNames, SystemdInv, SoloInv,
         NEW c \in Command, OneJob(c)
  PROVE  ScheduledIsInstalled' /\ Solo(c)'
  <1>1. PICK j \in Job :
          \/ CallDelete(c, j) /\ Begin(c, DeleteCalls(j))
          \/ CallUpdate(c, j) /\ Begin(c, UpdateCalls(j, want[c].jobs[j]))
          \/ CallCreate(c, j) /\ Begin(c, CreateCalls(j, want[c].jobs[j]))
    BY DEF OneJob, Operation
  <1>2. /\ UNCHANGED unitVars /\ plan' = plan /\ pc' = pc
        /\ todo'[c] = todo[c] \ {j}
        /\ ScheduledIsInstalled /\ PendingOK(c) /\ calls \in [Command -> Seq(SafeCall)]
    BY <1>1 DEF OneJob, CallDelete, CallUpdate, CallCreate, Done, SoloInv, Solo,
                SystemdInv, CommandInv
  <1>3. ScheduledIsInstalled'
    BY <1>2 DEF ScheduledIsInstalled, unitVars, IsOwned
  <1>4. ASSUME NEW ops, Begin(c, ops), Phased(ops), CallsOK(Range(ops)),
               \A x \in Range(ops) : x.do \in Writing => x.content.job \notin Pending(c)'
        PROVE  Solo(c)'
    <2>1. calls'[c] = ops
      BY <1>2, <1>4 DEF Begin
    <2>2. CallsOK(Range(ops))'
      <3> DEFINE R == Range(ops)
      <3>1. CallsOK(R)
        BY <1>4
      <3>2. \A u : (Quiet(u)' <=> Quiet(u)) /\
              (IsOwned(files["service"][u])' <=> IsOwned(files["service"][u]))
        BY <1>2 DEF Quiet, IsOwned, unitVars
      <3> QED BY <1>2, <1>4, <3>2 DEF CallsOK, unitVars, Range
    <2>3. OwnedUnits' = OwnedUnits /\ timers' = timers /\ Pending(c)' \subseteq Pending(c)
      BY <1>2 DEF OwnedUnits, timers, IsOwned, unitVars, Pending
    <2>4. PendingOK(c)'
      BY <1>2, <1>4, <2>1, <2>3 DEF PendingOK
    <2> QED BY <1>4, <2>1, <2>2, <2>4, SoloNext
  <1>5. CASE CallDelete(c, j) /\ Begin(c, DeleteCalls(j))
    BY <1>3, <1>4, <1>5, DeleteSolo
  <1> DEFINE v == want[c].jobs[j]
             creates == CreateCalls(j, v)
  <1>6. ASSUME CallUpdate(c, j) \/ CallCreate(c, j)
        PROVE  /\ v \in Version /\ j \in todo[c] /\ j \notin Pending(c)'
               /\ CallCreate(c, j) => j \in Pending(c)
    <2>1. v \in Version /\ j \in todo[c]
      BY <1>6, NextJobHasVersion DEF SystemdInv
    <2>2. CASE CallCreate(c, j)
      BY <1>2, <2>1, <2>2 DEF CallCreate, Pending
    <2>3. CASE CallUpdate(c, j)
      BY <1>2, <2>1, <2>3 DEF CallUpdate, CallCreate, Pending, PendingOK
    <2> QED BY <1>6, <2>1, <2>2, <2>3
  <1> HIDE DEF v
  <1>7. ASSUME v \in Version, j \notin Pending(c)'
        PROVE  \A x \in Range(creates) : x.do \in Writing => x.content.job \notin Pending(c)'
    <2>1. \A n : WriteUnit(UnitOf(j, n), Render(j, v, n - 1)).content.job = j
      BY DEF WriteUnit, Render
    <2> QED BY <1>7, <2>1, CreateSolo
  <1>8. CASE CallCreate(c, j) /\ Begin(c, creates)
    <2>1. v \in Version /\ j \notin Pending(c)' /\ j \in Pending(c)
      BY <1>6, <1>8
    <2>2. \A n \in 1..Len(Schedules[v]) : Quiet(UnitOf(j, n))
      BY <1>2, <2>1, NamedTimer DEF PendingOK
    <2>3. \A x \in Range(creates) : x.do \in Writing => Quiet(x.unit)
      BY <2>1, <2>2, CreateSolo DEF WriteUnit
    <2>4. CallsOK(Range(creates))
      <3> DEFINE R == Range(creates)
      <3>1. \A x \in R : x.do \notin Removing
        BY <2>1, CreateSolo
      <3>2. \A x \in R : x.do \in Starting =>
              Refusal \in R \/ \E y \in R : y.do \in Writing /\ y.unit = x.unit
        BY <2>1, CreateSolo
      <3> HIDE DEF R
      <3> QED BY <2>3, <3>1, <3>2 DEF CallsOK, Removing, R
    <2> QED BY <1>3, <1>4, <1>7, <1>8, <2>1, <2>4, CreateSolo
  <1>9. CASE CallUpdate(c, j) /\ Begin(c, UpdateCalls(j, v))
    <2> DEFINE deletes == DeleteCalls(j)
               ops == deletes \o creates
    <2>1. v \in Version /\ j \notin Pending(c)'
      BY <1>6, <1>9
    <2>2. deletes \in Seq(SafeCall) /\ creates \in Seq(SafeCall)
      BY <2>1, RemovalsAre, CreationsAreSafe
    <2>3. \A x : x \in Range(ops) <=> x \in Range(deletes) \/ x \in Range(creates)
      BY <2>2, RangeOfConcat
    <2>4. /\ Phased(deletes) /\ Phased(creates)
          /\ \A x \in Range(deletes) :
               /\ x.do \notin Writing \cup Starting /\ Excluded(x) = {}
               /\ x.do \in {"disable", "reload"}
      BY <2>1, DeleteSolo, CreateSolo, RemovalsAre
    <2>5. Phased(ops)
      BY <2>2, <2>4, PhasedConcat
    <2>6. \A x \in Range(creates) : x.do \in Writing =>
            \/ Quiet(x.unit)
            \/ \E y \in Range(deletes) : y.do = "disable" /\ y.unit = x.unit
      <3> SUFFICES ASSUME NEW x \in Range(creates), x.do \in Writing, ~Quiet(x.unit)
                   PROVE  \E y \in Range(deletes) : y.do = "disable" /\ y.unit = x.unit
        OBVIOUS
      <3>1. PICK n \in 1..Len(Schedules[v]) :
              x = WriteUnit(UnitOf(j, n), Render(j, v, n - 1))
        BY <2>1, CreateSolo
      <3>2. x.unit = UnitOf(j, n)
        BY <3>1 DEF WriteUnit
      <3>3. x.unit \in Matches[j] /\ x.unit \in Unit
        BY <2>1, <3>2, UnitIs
      <3>4. timers[x.unit] # None
        BY <1>2, <3>3 DEF ScheduledIsInstalled, Quiet, IsOwned, timers
      <3>5. RemoveUnit(x.unit) \in Range(deletes)
        BY <3>3, <3>4, RemovalsAre
      <3> QED BY <3>5 DEF RemoveUnit
    <2>7. CallsOK(Range(ops))
      <3> DEFINE R == Range(ops)
      <3>1. \A x \in R : x.do \in {"disable", "reload"} \/ x \in Range(creates)
        BY <2>3, <2>4
      <3>2. \A x \in Range(creates) : x.do \notin Removing /\ x \in R
        BY <2>1, <2>3, CreateSolo
      <3>3. \A x \in R : x.do \in Starting =>
              Refusal \in R \/ \E y \in R : y.do \in Writing /\ y.unit = x.unit
        BY <2>1, <2>3, <2>4, CreateSolo
      <3>4. \A x \in R : x.do \in Writing =>
              Quiet(x.unit) \/ \E y \in R : y.do = "disable" /\ y.unit = x.unit
        BY <2>3, <2>4, <2>6
      <3> HIDE DEF R
      <3> QED BY <3>1, <3>2, <3>3, <3>4 DEF CallsOK, Removing, R
    <2>8. \A x \in Range(ops) : x.do \in Writing => x.content.job \notin Pending(c)'
      BY <1>7, <2>1, <2>3, <2>4
    <2>9. Begin(c, ops)
      BY <1>9 DEF UpdateCalls
    <2> HIDE DEF ops
    <2> QED BY <1>3, <1>4, <2>5, <2>7, <2>8, <2>9
  <1> QED BY <1>1, <1>3, <1>5, <1>8, <1>9 DEF v

-----------------------------------------------------------------------------
LEMMA SoloStepKeeps ==
  ASSUME SystemdAssumption, DistinctNames, \A c, d \in Command : c = d
  PROVE  SystemdInv /\ SoloInv /\ [Next]_vars => SoloInv'
  <1> SUFFICES ASSUME SystemdInv, SoloInv, [Next]_vars PROVE SoloInv'
    OBVIOUS
  <1>1. ASSUME NEW c \in Command, ScheduledIsInstalled' /\ Solo(c)' PROVE SoloInv'
    <2>1. \A d \in Command : d = c
      OBVIOUS
    <2> QED BY <1>1, <2>1 DEF SoloInv
  <1>2. ASSUME NEW c \in Command, OneJob(c) PROVE SoloInv'
    BY <1>1, <1>2, OneJobSolo
  <1>3. ASSUME NEW c \in Command, RunCall(c) PROVE SoloInv'
    <2>1. calls[c] # <<>>
      BY <1>3 DEF RunCall
    <2>2. \/ Disable(c, Head(calls[c])) \/ Stop(c, Head(calls[c]))
          \/ Enable(c, Head(calls[c])) \/ Start(c, Head(calls[c]))
          \/ DaemonReload(c, Head(calls[c])) \/ RemoveFile(c, Head(calls[c]))
          \/ WriteFile(c, Head(calls[c]))
      BY <1>3 DEF RunCall
    <2>3. ScheduledIsInstalled' /\ Solo(c)'
      BY <2>1, <2>2, DisableSolo, StopSolo, EnableSolo, StartSolo,
         DaemonReloadSolo, RemoveFileSolo, WriteFileSolo
    <2> QED BY <1>1, <2>3
  <1>4. ASSUME NEW c \in Command, Other(c) PROVE SoloInv'
    BY <1>1, <1>4, OtherSolo
  <1>5. ASSUME NEW c \in Command, Stops(c) PROVE SoloInv'
    BY <1>1, <1>5, StopsSolo
  <1>6. CASE Reboot
    BY <1>6, RebootSolo
  <1>7. CASE EditByHand
    BY <1>7, EditByHandSolo
  <1>8. CASE UNCHANGED vars
    BY <1>8 DEF vars, unitVars, callVars, commandVars, SoloInv, Solo, Phased,
                CallsOK, PendingOK, Pending, Quiet, OwnedUnits, timers, IsOwned,
                ScheduledIsInstalled
  <1> QED BY <1>2, <1>3, <1>4, <1>5, <1>6, <1>7, <1>8 DEF Next

\* What systemd fires, now or after a reboot, has its timer and its service on
\* disk, wherever a command fails or is killed, and when the machine comes up
\* again: Delete disables and stops before it removes, Create
\* enables after it has written (systemd.Delete, systemd.Create), and it only
\* writes over what does not run.  No other command is at work, and no two
\* schedules have the same unit.
THEOREM SystemdScheduledIsInstalled ==
  ASSUME SystemdAssumption, DistinctNames, \A c, d \in Command : c = d
  PROVE  Spec => []ScheduledIsInstalled
  <1>1. Init => SystemdInv /\ SoloInv
    BY SystemdInit, SoloInit
  <1>2. SystemdInv /\ SoloInv /\ [Next]_vars => (SystemdInv /\ SoloInv)'
    BY StepKeeps, SoloStepKeeps
  <1>3. SoloInv => ScheduledIsInstalled
    BY DEF SoloInv
  <1> QED BY <1>1, <1>2, <1>3, PTL DEF Spec

-----------------------------------------------------------------------------
(* What an apply has still to do, with no other command beside it.         *)

\* The passes of an apply that has its plan.
Working == {"delete", "update", "create", "specs", "fill", "orphans"}

\* The glob of a job finds the units of its schedules, and of no other job of
\* the app.
OwnGlobs ==
  \A j \in Job : \A s \in DOMAIN ScheduleName :
    /\ s[1] = j => ScheduleName[s] \in Matches[j]
    /\ ScheduleName[s] \in Matches[j] /\ AppOf[s[1]] = AppOf[j] => s[1] = j

\* The jobs whose timers are still to be removed, and those that the apply has
\* not come to.
Doomed(c) ==
  IF pc[c] = "delete" THEN todo[c] \cup plan[c].updates
  ELSE IF pc[c] = "update" THEN todo[c] ELSE {}

Left(c) == Doomed(c) \cup Pending(c)

\* What the calls R, all that is left of an operation, will still do to the
\* unit u, unless the operation is refused.
Touches(R, dos, u) == \E y \in R : y.do \in dos /\ y.unit = u

Rewrites(R, u) ==
  Refusal \in R \/ Touches(R, {"truncateTimer", "writeTimer"}, u)
Restarts(R, u) == Refusal \in R \/ Touches(R, Starting, u)

\* The timer x that m wants in u is there, and runs if its job was to be created
\* or updated, or the operation sees to it.
InHand(c, R, u, x) ==
  /\ Touches(R, Removing, u) => Rewrites(R, u)
  /\ Touches(R, Removing \cup Writing, u) => Restarts(R, u)
  /\ x.job \notin Left(c) =>
       /\ timers[u] = x \/ Rewrites(R, u)
       /\ x.job \in plan[c].creates \cup plan[c].updates =>
            \/ u \in enabled /\ running[u] = x
            \/ Restarts(R, u)

\* The timer of u is one that m wants, or is to be removed.
Accounted(c, R, u) ==
  IsOwned(timers[u]) /\ AppOf[timers[u].job] = want[c].app =>
    \/ <<u, timers[u]>> \in Wanted(want[c]) \/ timers[u].job \in Doomed(c)
    \/ Touches(R, {"disable", "stop", "removeTimer"}, u)

UnitConverges(c, R, u) ==
  /\ Accounted(c, R, u)
  /\ \A x : <<u, x>> \in Wanted(want[c]) => InHand(c, R, u, x)

\* What is left of an operation writes and starts what the manifest asks for,
\* of jobs whose turn has come.
WritesWanted(c, R) ==
  /\ \A y \in R : y.do \in Writing =>
       <<y.unit, y.content>> \in Wanted(want[c]) /\ y.content.job \notin Left(c)
  /\ \A y \in R : y.do \in Starting =>
       \E x : <<y.unit, x>> \in Wanted(want[c]) /\ x.job \notin Left(c)
  /\ \A y \in R : y.do = "start" =>
       y.unit \in enabled /\ \A z \in R : z.do \notin Removing

UnitsInHand(c, R) ==
  WritesWanted(c, R) /\ \A u \in Unit : UnitConverges(c, R, u)

\* The specs that apply has come to are written, and those it removes are of
\* jobs of the app that the manifest does not name.
SpecsInHand(c) ==
  /\ \A j \in plan[c].deletes :
       j \notin DOMAIN want[c].jobs /\ AppOf[j] = want[c].app
  /\ pc[c] \in {"delete", "orphans"} => todo[c] \subseteq plan[c].deletes
  /\ KeepsSpecs /\ pc[c] \in {"specs", "fill", "orphans"} =>
       \A j \in DOMAIN want[c].jobs :
         \/ specs[j] = want[c].jobs[j]
         \/ pc[c] \in {"specs", "fill"} /\ j \in todo[c]

Converging(c) ==
  pc[c] \in Working => UnitsInHand(c, Range(calls[c])) /\ SpecsInHand(c)

ConvergeInv == \A c \in Command : Converging(c)

LEMMA NoCallLeft ==
  ASSUME NEW c \in Command, calls[c] = <<>>, pc[c] \in Working, Converging(c)
  PROVE  UnitsInHand(c, {}) /\ SpecsInHand(c)
  <1>1. Range(calls[c]) = {}
    BY DEF Range
  <1> QED BY <1>1 DEF Converging

LEMMA CallsInHand ==
  ASSUME NEW c \in Command, NEW Q, Range(calls'[c]) = Q, UnitsInHand(c, Q)',
         SpecsInHand(c)'
  PROVE  Converging(c)'
  <1>1. UnitsInHand(c, Range(calls[c]))'
    BY DEF UnitsInHand, UnitConverges, Accounted, InHand, Rewrites, Restarts,
           Touches, WritesWanted
  <1> QED BY <1>1 DEF Converging

-----------------------------------------------------------------------------
(* The units that a manifest wants.                                        *)

LEMMA WantedFile ==
  ASSUME SystemdAssumption, DistinctNames, NEW m \in Manifest, NEW u, NEW x,
         <<u, x>> \in Wanted(m)
  PROVE  /\ u \in Unit /\ x \in File /\ IsOwned(x)
         /\ x.job \in DOMAIN m.jobs /\ x.job \in Job /\ AppOf[x.job] = m.app
         /\ \E n \in 1..Len(Schedules[m.jobs[x.job]]) :
              u = UnitOf(x.job, n) /\ x = Render(x.job, m.jobs[x.job], n - 1)
         /\ \A y : <<u, y>> \in Wanted(m) => y = x
  <1>1. ASSUME NEW w, NEW y, <<w, y>> \in Wanted(m)
        PROVE  /\ w \in Unit /\ y \in File /\ HasName(y, w)
               /\ y.job \in DOMAIN m.jobs /\ y.job \in Job /\ AppOf[y.job] = m.app
               /\ \E n \in 1..Len(Schedules[m.jobs[y.job]]) :
                    w = UnitOf(y.job, n) /\ y = Render(y.job, m.jobs[y.job], n - 1)
    <2>1. PICK j \in DOMAIN m.jobs : \E n \in 1..Len(Schedules[m.jobs[j]]) :
            <<w, y>> = <<ScheduleName[<<j, n - 1>>], Render(j, m.jobs[j], n - 1)>>
      BY <1>1, WantedIs
    <2>2. PICK n \in 1..Len(Schedules[m.jobs[j]]) :
            w = UnitOf(j, n) /\ y = Render(j, m.jobs[j], n - 1)
      BY <2>1 DEF UnitOf
    <2>3. j \in Job /\ AppOf[j] = m.app /\ m.jobs[j] \in Version
      BY CommandAssumption
    <2>4. y \in File /\ y.job = j
      BY <2>2, <2>3, RenderIs
    <2>5. w \in Unit /\ HasName(y, w)
      BY <2>2, <2>3, UnitIs
    <2> QED BY <2>2, <2>3, <2>4, <2>5
  <1>2. IsOwned(x)
    BY <1>1 DEF IsOwned, SystemdAssumption
  <1>3. ASSUME NEW y, <<u, y>> \in Wanted(m) PROVE y = x
    <2>1. HasName(x, u) /\ HasName(y, u)
      BY <1>1, <1>3
    <2>2. x.job = y.job /\ x.index = y.index
      BY <2>1 DEF HasName, DistinctNames
    <2>3. PICK n \in 1..Len(Schedules[m.jobs[x.job]]) :
            x = Render(x.job, m.jobs[x.job], n - 1)
      BY <1>1
    <2>4. PICK k \in 1..Len(Schedules[m.jobs[y.job]]) :
            y = Render(y.job, m.jobs[y.job], k - 1)
      BY <1>1, <1>3
    <2>5. x.index = n - 1 /\ y.index = k - 1
      BY <2>3, <2>4 DEF Render
    <2> QED BY <2>2, <2>3, <2>4, <2>5
  <1> QED BY <1>1, <1>2, <1>3

\* A unit that the glob of a job finds is wanted, if by its app, for that job.
LEMMA GlobFinds ==
  ASSUME SystemdAssumption, DistinctNames, OwnGlobs, NEW m \in Manifest,
         NEW j \in Job, AppOf[j] = m.app, NEW u \in Matches[j], NEW x, <<u, x>> \in Wanted(m)
  PROVE  x.job = j
  <1>1. PICK n \in 1..Len(Schedules[m.jobs[x.job]]) : u = UnitOf(x.job, n)
    BY WantedFile
  <1>2. /\ x.job \in Job /\ m.jobs[x.job] \in Version
        /\ n \in DOMAIN Schedules[m.jobs[x.job]]
    <2>1. x.job \in DOMAIN m.jobs
      BY WantedFile
    <2> QED BY <2>1, CommandAssumption, ReconcileAssumption
  <1>3. <<x.job, n - 1>> \in DOMAIN ScheduleName
    BY <1>2 DEF SystemdAssumption
  <1>4. AppOf[x.job] = AppOf[j]
    BY WantedFile
  <1> QED BY <1>1, <1>3, <1>4 DEF OwnGlobs, UnitOf

-----------------------------------------------------------------------------
(* A step that changes nothing on a unit, but for calls elsewhere.         *)

LEMMA Elsewhere ==
  ASSUME NEW c \in Command, UNCHANGED <<want, plan>>,
         Left(c)' = Left(c), Doomed(c)' = Doomed(c), NEW R, NEW S, NEW u,
         timers'[u] = timers[u], u \in enabled' <=> u \in enabled,
         running'[u] = running[u],
         Refusal \in R => Refusal \in S,
         \A dos \in SUBSET (Removing \cup Writing \cup Starting) :
           Touches(R, dos, u) <=> Touches(S, dos, u),
         UnitConverges(c, R, u)
  PROVE  UnitConverges(c, S, u)'
  <1>1. want'[c] = want[c] /\ plan'[c] = plan[c]
    OBVIOUS
  <1>2. /\ Touches(R, Removing, u) <=> Touches(S, Removing, u)
        /\ Touches(R, Removing \cup Writing, u) <=> Touches(S, Removing \cup Writing, u)
        /\ Touches(R, {"truncateTimer", "writeTimer"}, u)
             <=> Touches(S, {"truncateTimer", "writeTimer"}, u)
        /\ Touches(R, Starting, u) <=> Touches(S, Starting, u)
        /\ Touches(R, {"disable", "stop", "removeTimer"}, u)
             <=> Touches(S, {"disable", "stop", "removeTimer"}, u)
    BY DEF Removing, Writing, Starting
  <1>3. \A dos : Touches(S, dos, u)' <=> Touches(S, dos, u)
    BY DEF Touches
  <1>4. Accounted(c, S, u)'
    BY <1>1, <1>2, <1>3 DEF UnitConverges, Accounted, IsOwned
  <1>5. ASSUME NEW x, <<u, x>> \in Wanted(want'[c]) PROVE InHand(c, S, u, x)'
    <2>1. InHand(c, R, u, x)
      BY <1>1, <1>5 DEF UnitConverges
    <2> QED BY <1>1, <1>2, <1>3, <2>1 DEF InHand, Rewrites, Restarts
  <1> QED BY <1>4, <1>5 DEF UnitConverges

-----------------------------------------------------------------------------
(* A call is carried out.                                                  *)

\* What the call leaves to do on its unit.
Follows(call, X) ==
  \A x \in X :
    /\ x \in SafeCall /\ x.unit = call.unit
    /\ \E dos \in {Removing, Writing, Starting} : call.do \in dos /\ x.do \in dos
    /\ x.do \in Writing => x.content = call.content

LEMMA UnitsAdvance ==
  ASSUME NEW c \in Command, UNCHANGED commandVars, NEW call \in SafeCall,
         call.do \in Removing \cup Writing \cup Starting,
         NEW T, NEW X, Follows(call, X), UnitsInHand(c, {call} \cup T),
         \A u \in Unit : u # call.unit =>
           /\ timers'[u] = timers[u] /\ running'[u] = running[u]
           /\ u \in enabled' <=> u \in enabled,
         UnitConverges(c, X \cup T, call.unit)',
         \A y \in X \cup T : y.do = "start" =>
           y.unit \in enabled' /\ \A z \in X \cup T : z.do \notin Removing
  PROVE  UnitsInHand(c, X \cup T)'
  <1>1. want' = want /\ plan' = plan /\ pc' = pc /\ todo' = todo
    BY DEF commandVars
  <1>2. Left(c)' = Left(c) /\ Doomed(c)' = Doomed(c)
    BY <1>1 DEF Left, Doomed, Pending
  <1>3. ASSUME NEW u \in Unit, u # call.unit
        PROVE  UnitConverges(c, X \cup T, u)'
    <2>1. UnitConverges(c, {call} \cup T, u)
      BY DEF UnitsInHand
    <2>2. \A dos \in SUBSET (Removing \cup Writing \cup Starting) :
            Touches({call} \cup T, dos, u) <=> Touches(X \cup T, dos, u)
      BY <1>3 DEF Touches, Follows
    <2>3. call # Refusal
      BY DEF Refusal, Removing, Writing, Starting
    <2> QED BY <1>1, <1>2, <1>3, <2>1, <2>2, <2>3, Elsewhere
  <1>4. \A u \in Unit : UnitConverges(c, X \cup T, u)'
    BY <1>3
  <1>5. WritesWanted(c, {call} \cup T)
    BY DEF UnitsInHand
  <1>6. ASSUME NEW y \in X \cup T, y.do \in Writing
        PROVE  <<y.unit, y.content>> \in Wanted(want[c]) /\ y.content.job \notin Left(c)
    <2>1. CASE y \in T
      BY <1>5, <1>6, <2>1 DEF WritesWanted
    <2>2. CASE y \in X
      <3>1. call.do \in Writing /\ y.unit = call.unit /\ y.content = call.content
        BY <1>6, <2>2 DEF Follows, Removing, Writing, Starting
      <3> QED BY <1>5, <3>1 DEF WritesWanted
    <2> QED BY <2>1, <2>2
  <1>7. ASSUME NEW y \in X \cup T, y.do \in Starting
        PROVE  \E x : <<y.unit, x>> \in Wanted(want[c]) /\ x.job \notin Left(c)
    <2>1. CASE y \in T
      BY <1>5, <1>7, <2>1 DEF WritesWanted
    <2>2. CASE y \in X
      <3>1. call.do \in Starting /\ y.unit = call.unit
        BY <1>7, <2>2 DEF Follows, Removing, Writing, Starting
      <3> QED BY <1>5, <3>1 DEF WritesWanted
    <2> QED BY <2>1, <2>2
  <1>8. WritesWanted(c, X \cup T)'
    BY <1>1, <1>2, <1>6, <1>7 DEF WritesWanted
  <1> QED BY <1>4, <1>8 DEF UnitsInHand

\* The timer of a unit goes; the operation has it written and started again if
\* it is wanted.
LEMMA RemovingConverges ==
  ASSUME NEW c \in Command, UNCHANGED commandVars, NEW call \in SafeCall,
         call.do \in Removing, NEW T, NEW X, Follows(call, X),
         UnitConverges(c, {call} \cup T, call.unit),
         \/ ~IsOwned(timers'[call.unit])
         \/ \E x \in X : x.do \in {"stop", "removeTimer"}
         \/ call.do = "removeService" /\ timers'[call.unit] = timers[call.unit]
  PROVE  UnitConverges(c, X \cup T, call.unit)'
  <1> DEFINE u == call.unit
             R == {call} \cup T
             S == X \cup T
  <1>1. want' = want /\ plan' = plan /\ pc' = pc /\ todo' = todo
    BY DEF commandVars
  <1>2. Left(c)' = Left(c) /\ Doomed(c)' = Doomed(c)
    BY <1>1 DEF Left, Doomed, Pending
  <1>3. call # Refusal /\ call.do \notin Writing \cup Starting
    BY DEF Refusal, Removing, Writing, Starting
  <1>4. Touches(R, Removing, u) /\ Touches(R, Removing \cup Writing, u)
    BY DEF Touches
  <1>5. \A dos \in SUBSET (Writing \cup Starting) :
          Touches(R, dos, u) => Touches(S, dos, u)
    BY <1>3 DEF Touches
  <1>6. /\ Refusal \in R => Refusal \in S
        /\ Touches(R, Starting, u) => Touches(S, Starting, u)
        /\ Touches(R, {"truncateTimer", "writeTimer"}, u)
             => Touches(S, {"truncateTimer", "writeTimer"}, u)
    BY <1>3, <1>5 DEF Writing, Starting
  <1>7. ASSUME NEW x, <<u, x>> \in Wanted(want'[c]) PROVE InHand(c, S, u, x)'
    <2>1. InHand(c, R, u, x)
      BY <1>1, <1>7 DEF UnitConverges
    <2>2. Rewrites(S, u) /\ Restarts(S, u)
      BY <1>4, <1>6, <2>1 DEF InHand, Rewrites, Restarts
    <2>3. Rewrites(S, u)' /\ Restarts(S, u)'
      BY <2>2 DEF Rewrites, Restarts, Touches
    <2> QED BY <2>3 DEF InHand
  <1>8. Accounted(c, S, u)'
    <2>1. CASE \E x \in X : x.do \in {"stop", "removeTimer"}
      <3>1. Touches(S, {"disable", "stop", "removeTimer"}, u)
        BY <2>1 DEF Touches, Follows
      <3> QED BY <3>1 DEF Accounted, Touches
    <2>2. CASE call.do = "removeService" /\ timers'[u] = timers[u]
      <3>1. Accounted(c, R, u)
        BY DEF UnitConverges
      <3>2. Touches(R, {"disable", "stop", "removeTimer"}, u)
              => Touches(S, {"disable", "stop", "removeTimer"}, u)
        BY <2>2 DEF Touches
      <3> QED BY <1>1, <1>2, <2>2, <3>1, <3>2 DEF Accounted, IsOwned, Touches
    <2>3. CASE ~IsOwned(timers'[u])
      BY <2>3 DEF Accounted, IsOwned
    <2> QED BY <2>1, <2>2, <2>3
  <1> QED BY <1>7, <1>8 DEF UnitConverges

\* A file of a unit is written as it is wanted.
LEMMA WritingConverges ==
  ASSUME SystemdAssumption, DistinctNames,
         NEW c \in Command, want[c] \in Manifest, UNCHANGED commandVars,
         NEW call \in SafeCall,
         call.do \in Writing, NEW T, NEW X, Follows(call, X),
         UnitConverges(c, {call} \cup T, call.unit),
         WritesWanted(c, {call} \cup T),
         \A y \in T : y.do \notin Removing,
         \/ /\ call.do = "truncateTimer" /\ timers'[call.unit] = Torn
            /\ \E x \in X : x.do = "writeTimer"
         \/ call.do = "writeTimer" /\ timers'[call.unit] = call.content
         \/ /\ call.do \in {"truncateService", "writeService"}
            /\ timers'[call.unit] = timers[call.unit]
  PROVE  UnitConverges(c, X \cup T, call.unit)'
  <1> DEFINE u == call.unit
             R == {call} \cup T
             S == X \cup T
             f == call.content
  <1>1. want' = want /\ plan' = plan /\ pc' = pc /\ todo' = todo
    BY DEF commandVars
  <1>2. Left(c)' = Left(c) /\ Doomed(c)' = Doomed(c)
    BY <1>1 DEF Left, Doomed, Pending
  <1>3. call # Refusal /\ call.do \notin Removing \cup Starting
    BY DEF Refusal, Removing, Writing, Starting
  <1>4. ~Touches(S, Removing, u)
    BY DEF Touches, Follows, Removing, Writing, Starting
  <1>5. /\ Touches(R, Removing \cup Writing, u)
        /\ Restarts(R, u) => Restarts(S, u)
    BY <1>3 DEF Touches, Restarts
  <1>6. <<u, f>> \in Wanted(want[c]) /\ f.job \notin Left(c)
    BY DEF WritesWanted
  <1>7. \A x : <<u, x>> \in Wanted(want[c]) => x = f
    BY <1>6, WantedFile
  <1>8. InHand(c, R, u, f)
    BY <1>6 DEF UnitConverges
  <1>9. Restarts(S, u)
    BY <1>5, <1>8 DEF InHand
  <1>10. timers'[u] = f \/ Rewrites(S, u)
    <2>1. CASE call.do = "truncateTimer"
      BY <2>1 DEF Rewrites, Touches, Follows
    <2>2. CASE call.do = "writeTimer"
      BY <2>2
    <2>3. CASE call.do \in {"truncateService", "writeService"}
      <3>1. timers[u] = f \/ Rewrites(R, u)
        BY <1>6, <1>8 DEF InHand
      <3>2. Rewrites(R, u) => Rewrites(S, u)
        BY <1>3, <2>3 DEF Rewrites, Touches
      <3> QED BY <2>3, <3>1, <3>2
    <2> QED BY <2>1, <2>2, <2>3 DEF Writing
  <1>11. InHand(c, S, u, f)'
    <2>1. ~Touches(S, Removing, u)' /\ Restarts(S, u)'
      BY <1>4, <1>9 DEF Restarts, Touches
    <2>2. (timers[u] = f \/ Rewrites(S, u))'
      BY <1>10 DEF Rewrites, Touches
    <2> QED BY <2>1, <2>2 DEF InHand
  <1>12. Accounted(c, S, u)'
    <2>1. CASE call.do = "truncateTimer"
      BY <2>1 DEF Accounted, IsOwned
    <2>2. CASE call.do = "writeTimer"
      BY <1>1, <1>6, <2>2 DEF Accounted
    <2>3. CASE call.do \in {"truncateService", "writeService"}
      <3>1. Accounted(c, R, u)
        BY DEF UnitConverges
      <3>2. Touches(R, {"disable", "stop", "removeTimer"}, u)
              => Touches(S, {"disable", "stop", "removeTimer"}, u)
        BY <2>3 DEF Touches
      <3> QED BY <1>1, <1>2, <2>3, <3>1, <3>2 DEF Accounted, IsOwned, Touches
    <2> QED BY <2>1, <2>2, <2>3 DEF Writing
  <1> QED BY <1>1, <1>7, <1>11, <1>12 DEF UnitConverges

\* A timer is started, which is as it is wanted.
LEMMA StartingConverges ==
  ASSUME SystemdAssumption, DistinctNames,
         NEW c \in Command, want[c] \in Manifest, UNCHANGED commandVars,
         NEW call \in SafeCall,
         call.do \in Starting, NEW T, NEW X, Follows(call, X),
         UnitConverges(c, {call} \cup T, call.unit),
         WritesWanted(c, {call} \cup T),
         \A y \in T : y.do \notin Removing \cup Writing \cup {"refuse"},
         timers'[call.unit] = timers[call.unit],
         \/ \E x \in X : x.do = "start"
         \/ /\ call.unit \in enabled'
            /\ running'[call.unit] = timers[call.unit]
  PROVE  UnitConverges(c, X \cup T, call.unit)'
  <1> DEFINE u == call.unit
             R == {call} \cup T
             S == X \cup T
  <1>1. want' = want /\ plan' = plan /\ pc' = pc /\ todo' = todo
    BY DEF commandVars
  <1>2. Left(c)' = Left(c) /\ Doomed(c)' = Doomed(c)
    BY <1>1 DEF Left, Doomed, Pending
  <1>3. Refusal \notin R
    BY DEF Refusal, Starting
  <1>4. ~Rewrites(R, u) /\ ~Touches(S, Removing \cup Writing, u)
    <2>1. \A y \in R \cup X : y.do \notin Removing \cup Writing
      BY DEF Follows, Removing, Writing, Starting
    <2> QED BY <1>3, <2>1 DEF Rewrites, Touches, Writing
  <1>5. PICK f : <<u, f>> \in Wanted(want[c]) /\ f.job \notin Left(c)
    BY DEF WritesWanted
  <1>6. \A x : <<u, x>> \in Wanted(want[c]) => x = f
    BY <1>5, WantedFile
  <1>7. timers[u] = f
    BY <1>4, <1>5 DEF UnitConverges, InHand
  <1>8. Accounted(c, S, u)'
    BY <1>1, <1>5, <1>7 DEF Accounted
  <1>9. InHand(c, S, u, f)'
    <2>1. ~Touches(S, Removing \cup Writing, u)' /\ ~Touches(S, Removing, u)'
      BY <1>4 DEF Touches
    <2>2. (timers[u] = f)'
      BY <1>7
    <2>3. ((u \in enabled /\ running[u] = f) \/ Restarts(S, u))'
      BY <1>7 DEF Restarts, Touches, Follows, Starting
    <2> QED BY <2>1, <2>2, <2>3 DEF InHand
  <1> QED BY <1>1, <1>6, <1>8, <1>9 DEF UnitConverges

\* systemd reads the timers again.
LEMMA ReloadConverges ==
  ASSUME SystemdAssumption, DistinctNames,
         NEW c \in Command, want[c] \in Manifest, UNCHANGED commandVars,
         NEW T, UnitsInHand(c, {Reload} \cup T),
         timers' = timers, enabled' = enabled,
         \A u \in Unit : running[u] # None /\ IsOwned(timers[u]) =>
           running'[u] = timers[u]
  PROVE  UnitsInHand(c, T)'
  <1> DEFINE R == {Reload} \cup T
  <1>1. want' = want /\ plan' = plan /\ pc' = pc /\ todo' = todo
    BY DEF commandVars
  <1>2. Left(c)' = Left(c) /\ Doomed(c)' = Doomed(c)
    BY <1>1 DEF Left, Doomed, Pending
  <1>3. /\ Refusal \in R <=> Refusal \in T
        /\ \A u, dos : "reload" \notin dos => (Touches(R, dos, u) <=> Touches(T, dos, u))
    BY DEF Reload, Refusal, Touches
  <1>4. ASSUME NEW u
        PROVE  /\ Touches(R, Removing, u) <=> Touches(T, Removing, u)
               /\ Touches(R, Removing \cup Writing, u)
                    <=> Touches(T, Removing \cup Writing, u)
               /\ Touches(R, {"disable", "stop", "removeTimer"}, u)
                    <=> Touches(T, {"disable", "stop", "removeTimer"}, u)
               /\ Rewrites(R, u) <=> Rewrites(T, u)
               /\ Restarts(R, u) <=> Restarts(T, u)
    BY <1>3 DEF Removing, Writing, Starting, Rewrites, Restarts
  <1>5. ASSUME NEW u \in Unit PROVE UnitConverges(c, T, u)'
    <2>1. UnitConverges(c, R, u)
      BY DEF UnitsInHand
    <2>2. Accounted(c, T, u)'
      <3>1. Accounted(c, R, u)
        BY <2>1 DEF UnitConverges
      <3> QED BY <1>1, <1>2, <1>4, <3>1 DEF Accounted, IsOwned, Touches
    <2>3. ASSUME NEW x, <<u, x>> \in Wanted(want[c]) PROVE InHand(c, T, u, x)'
      <3>1. InHand(c, R, u, x)
        BY <2>1, <2>3 DEF UnitConverges
      <3>2. x \in File /\ IsOwned(x) /\ x # None
        BY <2>3, WantedFile DEF SystemdAssumption
      <3>3. Rewrites(T, u) => Restarts(T, u)
        <4>1. Touches(T, {"truncateTimer", "writeTimer"}, u)
                => Touches(T, Removing \cup Writing, u)
          BY DEF Touches, Writing
        <4> QED BY <1>4, <3>1, <4>1 DEF Rewrites, Restarts, InHand
      <3>4. timers[u] = x /\ running[u] = x => running'[u] = x
        BY <3>2
      <3>5. /\ Touches(T, Removing, u) => Rewrites(T, u)
            /\ Touches(T, Removing \cup Writing, u) => Restarts(T, u)
            /\ x.job \notin Left(c) =>
                 /\ timers[u] = x \/ Rewrites(T, u)
                 /\ x.job \in plan[c].creates \cup plan[c].updates =>
                      \/ u \in enabled /\ running'[u] = x
                      \/ Restarts(T, u)
        BY <1>4, <3>1, <3>3, <3>4 DEF InHand
      <3> QED BY <1>1, <1>2, <3>5 DEF InHand, Rewrites, Restarts, Touches
    <2> QED BY <1>1, <2>2, <2>3 DEF UnitConverges
  <1>6. WritesWanted(c, T)'
    <2>1. WritesWanted(c, R)
      BY DEF UnitsInHand
    <2> QED BY <1>1, <1>2, <2>1 DEF WritesWanted
  <1> QED BY <1>5, <1>6 DEF UnitsInHand

\* What is known of the call that comes next, X being what it leaves on its
\* unit and T what is left beside it.
LEMMA CallConverges ==
  ASSUME SystemdAssumption, DistinctNames, SystemdInv, SoloInv,
         NEW c \in Command, pc[c] \in Working, Converging(c), RunCall(c)
  PROVE  Converging(c)'
  <1>1. PICK call, T :
          /\ call \in SafeCall /\ call = Head(calls[c]) /\ T = Rest(c)
          /\ Range(calls[c]) = {call} \cup T /\ Phased(calls[c])
          /\ \A y \in T : y.do \notin Excluded(call)
    <2>1. Solo(c) /\ calls[c] # <<>>
      BY DEF SoloInv, RunCall
    <2>2. Phased(calls[c])
      BY <2>1 DEF Solo
    <2> QED BY <2>1, <2>2, HeadIs
  <1>2. /\ calls[c] # <<>> /\ UnitsOK
        /\ \/ Disable(c, call) \/ Stop(c, call) \/ Enable(c, call) \/ Start(c, call)
           \/ DaemonReload(c, call) \/ RemoveFile(c, call) \/ WriteFile(c, call)
    BY <1>1 DEF RunCall, SystemdInv
  <1>3. UNCHANGED commandVars
    BY <1>2 DEF Disable, Stop, Enable, Start, DaemonReload, RemoveFile, WriteFile,
                NextCall
  <1>4. want[c] \in Manifest /\ UnitsInHand(c, {call} \cup T) /\ SpecsInHand(c)
    BY <1>1 DEF Converging, SystemdInv, CommandInv, ApplyOK, Working, Stopped
  <1>5. WritesWanted(c, {call} \cup T)
    BY <1>4 DEF UnitsInHand
  <1>6. call.do \in Removing \cup Writing \cup Starting =>
          call.unit \in Unit /\ UnitConverges(c, {call} \cup T, call.unit)
    BY <1>1, <1>4, CallIs DEF UnitsInHand
  <1>7. ASSUME NEW S, Range(calls'[c]) = S, UnitsInHand(c, S)'
        PROVE  Converging(c)'
    <2>1. SpecsInHand(c)'
      BY <1>3, <1>4 DEF SpecsInHand, commandVars
    <2> QED BY <1>7, <2>1, CallsInHand
  <1>8. ASSUME NEW rest, NextCall(c, rest), NEW X, Leaves(call, rest, X)
        PROVE  Range(calls'[c]) = X \cup T
    BY <1>1, <1>2, <1>8, AdvanceIs
  <1>9. ASSUME NEW kind \in {"timer", "service"}, NEW f, call.unit \in Unit,
               Put(kind, call, f)
        PROVE  /\ enabled' = enabled /\ running' = running
               /\ \A w \in Unit :
                    timers'[w] = IF kind = "timer" /\ w = call.unit THEN f ELSE timers[w]
    <2>1. PICK u \in Unit : u = call.unit
      BY <1>9
    <2>2. files' = [files EXCEPT ![kind][u] = f] /\ UNCHANGED <<enabled, running>>
      BY <1>9, <2>1 DEF Put
    <2>3. FileBecomes(kind, u, f)
      BY <1>2, <2>2, FileIs
    <2> QED BY <2>1, <2>2, <2>3 DEF FileBecomes, timers
  <1>10. /\ \A y \in T : y.do = "start" => call.do \notin Removing
         /\ \A y \in T : y.do = "start" =>
              y.unit \in enabled /\ \A z \in T : z.do \notin Removing
    BY <1>5 DEF WritesWanted
  <1>11. CASE Disable(c, call) \/ Stop(c, call)
    <2>1. PICK do \in {"stop", "removeTimer"} :
            /\ NextCall(c, Then(call, do)) /\ call.do \in {"disable", "stop"}
      BY <1>11 DEF Disable, Stop
    <2>2. PICK x \in SafeCall :
            Then(call, do) = <<x>> /\ x.do = do /\ x.unit = call.unit
      BY <1>1, <2>1, ThenIs DEF Removing
    <2>3. Range(calls'[c]) = {x} \cup T
      BY <1>8, <2>1, <2>2 DEF Leaves, Excluded, Starting, Writing
    <2>4. /\ call.unit \in Unit /\ timers' = timers
          /\ \A u \in Unit : u # call.unit =>
               running'[u] = running[u] /\ (u \in enabled' <=> u \in enabled)
      BY <1>2, <1>6, <1>11, <2>1 DEF Disable, Stop, timers, Removing, UnitsOK
    <2>5. Follows(call, {x})
      BY <2>1, <2>2 DEF Follows, Removing, Writing
    <2>6. UnitConverges(c, {x} \cup T, call.unit)'
      BY <1>1, <1>3, <1>6, <2>1, <2>2, <2>5, RemovingConverges DEF Removing
    <2>7. \A y \in {x} \cup T : y.do # "start"
      BY <1>10, <2>1, <2>2 DEF Removing
    <2>8. UnitsInHand(c, {x} \cup T)'
      BY <1>1, <1>3, <1>4, <2>1, <2>4, <2>5, <2>6, <2>7, UnitsAdvance DEF Removing
    <2> QED BY <1>7, <2>3, <2>8
  <1>12. CASE RemoveFile(c, call)
    <2>1. call.do \in {"removeTimer", "removeService"} /\ call.unit \in Unit
      BY <1>6, <1>12 DEF RemoveFile, Removing
    <2>2. PICK kind, rest, X :
            /\ kind \in {"timer", "service"} /\ Put(kind, call, None)
            /\ call.do = "removeService" <=> kind = "service"
            /\ NextCall(c, rest) /\ Leaves(call, rest, X) /\ Follows(call, X)
            /\ \A x \in X : x.do = "removeService"
      <3>1. CASE call.do = "removeTimer"
        <4>1. PICK x \in SafeCall : /\ Then(call, "removeService") = <<x>>
                                    /\ x.do = "removeService" /\ x.unit = call.unit
          BY <1>1, <3>1, ThenIs DEF Removing
        <4>2. NextCall(c, <<x>>) /\ Put("timer", call, None)
          BY <1>12, <3>1, <4>1 DEF RemoveFile
        <4>3. Leaves(call, <<x>>, {x}) /\ Follows(call, {x})
          BY <3>1, <4>1 DEF Leaves, Follows, Excluded, Starting, Writing, Removing
        <4> QED BY <3>1, <4>1, <4>2, <4>3
      <3>2. CASE call.do = "removeService"
        <4>1. NextCall(c, <<>>) /\ Put("service", call, None)
          BY <1>12, <3>2 DEF RemoveFile
        <4>2. Leaves(call, <<>>, {}) /\ Follows(call, {})
          BY DEF Leaves, Follows
        <4> QED BY <3>2, <4>1, <4>2
      <3> QED BY <2>1, <3>1, <3>2
    <2>3. Range(calls'[c]) = X \cup T
      BY <1>8, <2>2
    <2>4. /\ enabled' = enabled /\ running' = running
          /\ \A w \in Unit :
               timers'[w] = IF kind = "timer" /\ w = call.unit THEN None ELSE timers[w]
      BY <1>9, <2>1, <2>2
    <2>5. UnitConverges(c, X \cup T, call.unit)'
      <3>1. /\ call.do \in Removing
            /\ \/ ~IsOwned(timers'[call.unit])
               \/ call.do = "removeService" /\ timers'[call.unit] = timers[call.unit]
        BY <2>1, <2>2, <2>4 DEF IsOwned, Removing
      <3> QED BY <1>1, <1>3, <1>6, <2>2, <3>1, RemovingConverges
    <2>6. \A y \in X \cup T : y.do # "start"
      BY <1>10, <2>1, <2>2 DEF Removing
    <2>7. UnitsInHand(c, X \cup T)'
      BY <1>1, <1>3, <1>4, <2>1, <2>2, <2>4, <2>5, <2>6, UnitsAdvance DEF Removing
    <2> QED BY <1>7, <2>3, <2>7
  <1>13. CASE WriteFile(c, call)
    <2>1. call.do \in Writing /\ call.unit \in Unit
      BY <1>6, <1>13 DEF WriteFile, Writing
    <2>2. PICK kind, f, rest, X :
            /\ kind \in {"timer", "service"} /\ Put(kind, call, f)
            /\ NextCall(c, rest) /\ Leaves(call, rest, X) /\ Follows(call, X)
            /\ \A x \in X : x.do \in Writing
            /\ \/ /\ call.do = "truncateTimer" /\ kind = "timer" /\ f = Torn
                  /\ \E x \in X : x.do = "writeTimer"
               \/ call.do = "writeTimer" /\ kind = "timer" /\ f = call.content
               \/ call.do \in {"truncateService", "writeService"} /\ kind = "service"
      <3>1. CASE call.do = "writeService"
        <4>1. NextCall(c, <<>>) /\ Put("service", call, call.content)
          BY <1>13, <3>1 DEF WriteFile
        <4>2. Leaves(call, <<>>, {}) /\ Follows(call, {})
          BY DEF Leaves, Follows
        <4> QED BY <3>1, <4>1, <4>2
      <3>2. CASE call.do # "writeService"
        <4>1. PICK do \in Writing, k \in {"timer", "service"}, f \in {Torn, call.content} :
                /\ NextCall(c, Then(call, do)) /\ Put(k, call, f)
                /\ \/ call.do = "truncateTimer" /\ k = "timer" /\ f = Torn /\ do = "writeTimer"
                   \/ call.do = "writeTimer" /\ k = "timer" /\ f = call.content
                   \/ call.do = "truncateService" /\ k = "service"
          BY <1>13, <3>2 DEF WriteFile, Writing
        <4>2. PICK x \in SafeCall : /\ Then(call, do) = <<x>> /\ x.do = do
                                    /\ x.unit = call.unit /\ x.content = call.content
          BY <1>1, <2>1, <4>1, ThenIs
        <4>3. Leaves(call, <<x>>, {x}) /\ Follows(call, {x})
          BY <2>1, <4>1, <4>2 DEF Leaves, Follows, Excluded, Starting, Writing, Removing
        <4>4. NextCall(c, <<x>>)
          BY <4>1, <4>2
        <4> QED BY <4>1, <4>2, <4>3, <4>4
      <3> QED BY <3>1, <3>2
    <2>3. Range(calls'[c]) = X \cup T
      BY <1>8, <2>2
    <2>4. /\ enabled' = enabled /\ running' = running
          /\ \A w \in Unit :
               timers'[w] = IF kind = "timer" /\ w = call.unit THEN f ELSE timers[w]
      BY <1>9, <2>1, <2>2
    <2>5. \A y \in T : y.do \notin Removing
      BY <1>1, <2>1 DEF Excluded, Starting, Writing
    <2>6. UnitConverges(c, X \cup T, call.unit)'
      BY <1>1, <1>3, <1>4, <1>5, <1>6, <2>1, <2>2, <2>4, <2>5, WritingConverges
    <2>7. \A y \in X \cup T : y.do = "start" =>
            y.unit \in enabled' /\ \A z \in X \cup T : z.do \notin Removing
      BY <1>10, <2>2, <2>4, <2>5 DEF Writing, Removing
    <2>8. UnitsInHand(c, X \cup T)'
      BY <1>1, <1>3, <1>4, <2>1, <2>2, <2>4, <2>6, <2>7, UnitsAdvance
    <2> QED BY <1>7, <2>3, <2>8
  <1>14. CASE Enable(c, call) \/ Start(c, call)
    <2>1. /\ call.do \in Starting /\ call.unit \in Unit
          /\ \A y \in T : y.do \notin Removing \cup Writing \cup {"refuse"}
      BY <1>1, <1>6, <1>14 DEF Enable, Start, Starting, Excluded
    <2>2. PICK rest, X :
            /\ NextCall(c, rest) /\ Leaves(call, rest, X) /\ Follows(call, X)
            /\ \A x \in X : x.do = "start" /\ call.unit \in enabled'
            /\ \/ \E x \in X : x.do = "start"
               \/ /\ call.unit \in enabled'
                  /\ running'[call.unit] = timers[call.unit]
      <3>1. CASE Enable(c, call)
        <4>1. /\ call.do = "enable" /\ NextCall(c, Then(call, "start"))
              /\ call.unit \in enabled'
          BY <3>1 DEF Enable
        <4>2. PICK x \in SafeCall :
                Then(call, "start") = <<x>> /\ x.do = "start" /\ x.unit = call.unit
          BY <1>1, <4>1, ThenIs DEF Starting
        <4>3. Leaves(call, <<x>>, {x}) /\ Follows(call, {x})
          BY <4>1, <4>2 DEF Leaves, Follows, Excluded, Starting, Writing, Removing
        <4> QED BY <4>1, <4>2, <4>3
      <3>2. CASE Start(c, call)
        <4>1. /\ call.do = "start" /\ NextCall(c, <<>>) /\ enabled' = enabled
              /\ running' = [running EXCEPT ![call.unit] = timers[call.unit]]
          BY <3>2 DEF Start, timers
        <4>2. running'[call.unit] = timers[call.unit]
          BY <1>2, <2>1, <4>1 DEF UnitsOK
        <4>3. call.unit \in enabled'
          BY <1>5, <4>1 DEF WritesWanted
        <4>4. Leaves(call, <<>>, {}) /\ Follows(call, {})
          BY DEF Leaves, Follows
        <4> QED BY <4>1, <4>2, <4>3, <4>4
      <3> QED BY <1>14, <3>1, <3>2
    <2>3. Range(calls'[c]) = X \cup T
      BY <1>8, <2>2
    <2>4. /\ timers' = timers
          /\ \A u \in Unit : u # call.unit =>
               running'[u] = running[u] /\ (u \in enabled' <=> u \in enabled)
          /\ \A u : u \in enabled => u \in enabled'
      BY <1>2, <1>14, <2>1 DEF Enable, Start, timers, UnitsOK
    <2>5. UnitConverges(c, X \cup T, call.unit)'
      BY <1>1, <1>3, <1>4, <1>5, <1>6, <2>1, <2>2, <2>4, StartingConverges
    <2>6. \A y \in X \cup T : y.do = "start" =>
            y.unit \in enabled' /\ \A z \in X \cup T : z.do \notin Removing
      BY <1>10, <2>1, <2>2, <2>4 DEF Removing, Follows
    <2>7. UnitsInHand(c, X \cup T)'
      BY <1>1, <1>3, <1>4, <2>1, <2>2, <2>4, <2>5, <2>6, UnitsAdvance
    <2> QED BY <1>7, <2>3, <2>7
  <1>15. CASE DaemonReload(c, call)
    <2>1. /\ call.do = "reload" /\ NextCall(c, <<>>) /\ timers' = timers
          /\ enabled' = enabled
          /\ \A u \in Unit : running[u] # None /\ IsOwned(timers[u]) =>
               running'[u] = timers[u]
      BY <1>15 DEF DaemonReload, timers
    <2>2. call = Reload
      BY <1>1, <2>1, CallIs DEF Removing, Writing, Starting, Refusal
    <2>3. Range(calls'[c]) = {} \cup T
      BY <1>8, <2>1 DEF Leaves
    <2>4. Range(calls'[c]) = T
      BY <2>3
    <2>5. UnitsInHand(c, T)'
      BY <1>3, <1>4, <2>1, <2>2, ReloadConverges
    <2> QED BY <1>7, <2>4, <2>5
  <1> QED BY <1>2, <1>11, <1>12, <1>13, <1>14, <1>15

-----------------------------------------------------------------------------
(* The steps that make no call.                                            *)

\* The operation with the calls Q, if any, begins, and what it takes over from
\* the jobs left is in its hands.
LEMMA BeginConverges ==
  ASSUME NEW c \in Command, UNCHANGED <<files, enabled, running, want, plan>>,
         NEW Q, UnitsInHand(c, {}),
         Left(c)' \subseteq Left(c), Doomed(c)' \subseteq Doomed(c),
         \A y \in Q : y.do \in Writing =>
           <<y.unit, y.content>> \in Wanted(want[c]) /\ y.content.job \notin Left(c)',
         \A y \in Q : y.do \in Starting =>
           /\ y.do # "start"
           /\ \E x : <<y.unit, x>> \in Wanted(want[c]) /\ x.job \notin Left(c)',
         \A u \in Unit : \A x : <<u, x>> \in Wanted(want[c]) =>
           /\ Touches(Q, Removing, u) => Rewrites(Q, u)
           /\ Touches(Q, Removing \cup Writing, u) => Restarts(Q, u)
           /\ x.job \in Left(c) \ Left(c)' => Rewrites(Q, u) /\ Restarts(Q, u),
         \A u \in OwnedUnits : timers[u].job \in Doomed(c) \ Doomed(c)' =>
           Touches(Q, {"disable", "stop", "removeTimer"}, u)
  PROVE  UnitsInHand(c, Q)'
  <1>1. /\ want' = want /\ plan' = plan /\ timers' = timers
        /\ enabled' = enabled /\ running' = running
    BY DEF timers
  <1>2. \A dos, u : ~Touches({}, dos, u)
    BY DEF Touches
  <1>3. \A dos, u : Touches(Q, dos, u)' <=> Touches(Q, dos, u)
    BY DEF Touches
  <1>4. ASSUME NEW u \in Unit PROVE UnitConverges(c, Q, u)'
    <2>1. UnitConverges(c, {}, u)
      BY DEF UnitsInHand
    <2>2. Accounted(c, Q, u)'
      <3> SUFFICES ASSUME IsOwned(timers[u]), AppOf[timers[u].job] = want[c].app
                   PROVE  \/ <<u, timers[u]>> \in Wanted(want[c])
                          \/ timers[u].job \in Doomed(c)'
                          \/ Touches(Q, {"disable", "stop", "removeTimer"}, u)
        BY <1>1, <1>3 DEF Accounted, IsOwned
      <3>1. <<u, timers[u]>> \in Wanted(want[c]) \/ timers[u].job \in Doomed(c)
        BY <1>2, <2>1 DEF UnitConverges, Accounted
      <3>2. u \in OwnedUnits
        BY DEF OwnedUnits
      <3> QED BY <3>1, <3>2
    <2>3. ASSUME NEW x, <<u, x>> \in Wanted(want[c]) PROVE InHand(c, Q, u, x)'
      <3>1. /\ Touches(Q, Removing, u) => Rewrites(Q, u)
            /\ Touches(Q, Removing \cup Writing, u) => Restarts(Q, u)
            /\ x.job \in Left(c) \ Left(c)' => Rewrites(Q, u) /\ Restarts(Q, u)
        BY <2>3
      <3>2. x.job \notin Left(c) =>
              /\ timers[u] = x
              /\ x.job \in plan[c].creates \cup plan[c].updates =>
                   u \in enabled /\ running[u] = x
        BY <1>2, <2>1, <2>3 DEF UnitConverges, InHand, Rewrites, Restarts
      <3>3. /\ (Rewrites(Q, u)' <=> Rewrites(Q, u))
            /\ (Restarts(Q, u)' <=> Restarts(Q, u))
        BY <1>3 DEF Rewrites, Restarts
      <3> QED BY <1>1, <1>3, <3>1, <3>2, <3>3 DEF InHand
    <2> QED BY <1>1, <2>2, <2>3 DEF UnitConverges
  <1>5. WritesWanted(c, Q)'
    BY <1>1 DEF WritesWanted, Starting
  <1> QED BY <1>4, <1>5 DEF UnitsInHand

\* Create writes and enables all units of the job, unless it is refused.
LEMMA CreateCallsAre ==
  ASSUME SystemdAssumption, NEW j \in Job, NEW v \in Version,
         NEW Q, Q = Range(CreateCalls(j, v))
  PROVE  /\ \A n \in 1..Len(Schedules[v]) :
              /\ \/ Refusal \in Q
                 \/ WriteUnit(UnitOf(j, n), Render(j, v, n - 1)) \in Q
              /\ EnableUnit(UnitOf(j, n)) \in Q
         /\ \A x \in Q : x.do \in Starting =>
              \E n \in 1..Len(Schedules[v]) : x = EnableUnit(UnitOf(j, n))
  <1>1. PICK writes \in Seq(SafeCall), enables \in Seq(SafeCall) :
          /\ CreateCalls(j, v) = (writes \o <<Reload>>) \o enables
          /\ \A x \in Range(writes) :
               \/ x = Refusal
               \/ \E n \in 1..Len(Schedules[v]) :
                    x = WriteUnit(UnitOf(j, n), Render(j, v, n - 1))
          /\ \A n \in 1..Len(Schedules[v]) :
               \/ Refusal \in Range(writes)
               \/ WriteUnit(UnitOf(j, n), Render(j, v, n - 1)) \in Range(writes)
          /\ \A x : x \in Range(enables) <=>
               \E n \in 1..Len(Schedules[v]) : x = EnableUnit(UnitOf(j, n))
    BY CreationsAre
  <1>2. <<Reload>> \in Seq(SafeCall) /\ Range(<<Reload>>) = {Reload}
    BY PhasedOne DEF Reload, SafeCall, Call, Writing
  <1>3. writes \o <<Reload>> \in Seq(SafeCall)
    BY <1>2, ConcatProperties
  <1>4. \A x : x \in Q <=> x \in Range(writes) \/ x = Reload \/ x \in Range(enables)
    <2>1. PICK start \in Seq(SafeCall) : start = writes \o <<Reload>>
      BY <1>3
    <2>2. \A x : x \in Range(start) <=> x \in Range(writes) \/ x = Reload
      BY <1>2, <2>1, RangeOfConcat
    <2>3. Q = Range(start \o enables)
      BY <1>1, <2>1
    <2>4. \A x : x \in Range(start \o enables)
                <=> x \in Range(start) \/ x \in Range(enables)
      BY RangeOfConcat
    <2> QED BY <2>2, <2>3, <2>4
  <1>5. \A x \in Range(writes) : x.do \notin Starting
    BY <1>1 DEF Refusal, WriteUnit, Starting
  <1>6. Reload.do \notin Starting
    BY DEF Reload, Starting
  <1> QED BY <1>1, <1>4, <1>5, <1>6

\* The calls D take away units of the job j, if any.
TakesAway(D, j) ==
  \A x \in D : /\ x.do \in {"disable", "reload"}
               /\ x.do = "disable" => x.unit \in Matches[j]

\* The job j, whose turn comes, is built after the removals D of its units.
LEMMA BuildConverges ==
  ASSUME SystemdAssumption, DistinctNames, OwnGlobs,
         NEW c \in Command, want[c] \in Manifest,
         UNCHANGED <<files, enabled, running, want, plan>>, UnitsInHand(c, {}),
         NEW j \in DOMAIN want[c].jobs, NEW v, v = want[c].jobs[j],
         NEW D, TakesAway(D, j), NEW Q, Q = D \cup Range(CreateCalls(j, v)),
         j \notin Left(c)', Left(c)' \subseteq Left(c), Left(c) \ Left(c)' \subseteq {j},
         Doomed(c)' \subseteq Doomed(c),
         \A u \in OwnedUnits : timers[u].job \in Doomed(c) \ Doomed(c)' =>
           Touches(Q, {"disable", "stop", "removeTimer"}, u)
  PROVE  UnitsInHand(c, Q)'
  <1> DEFINE m == want[c]
             size == Len(Schedules[v])
             write(n) == WriteUnit(UnitOf(j, n), Render(j, v, n - 1))
             enable(n) == EnableUnit(UnitOf(j, n))
  <1>1. j \in Job /\ AppOf[j] = m.app /\ v \in Version /\ m.jobs[j] = v
    BY CommandAssumption
  <1>2. \A n : /\ write(n).do = "truncateTimer" /\ write(n).unit = UnitOf(j, n)
               /\ write(n).content = Render(j, v, n - 1) /\ write(n).content.job = j
               /\ enable(n).do = "enable" /\ enable(n).unit = UnitOf(j, n)
    BY DEF WriteUnit, EnableUnit, Render
  <1>3. \A n \in 1..size : <<UnitOf(j, n), Render(j, v, n - 1)>> \in Wanted(m)
    BY <1>1, WantedIs DEF UnitOf
  <1>4. /\ \A n \in 1..size : (Refusal \in Q \/ write(n) \in Q) /\ enable(n) \in Q
        /\ \A x \in Q : x.do \in Writing => \E n \in 1..size : x = write(n)
        /\ \A x \in Q : x.do \in Starting => \E n \in 1..size : x = enable(n)
        /\ \A x \in Q : x.do \in Removing => x.unit \in Matches[j]
    <2> DEFINE R == Range(CreateCalls(j, v))
    <2>1. /\ \A n \in 1..size : (Refusal \in R \/ write(n) \in R) /\ enable(n) \in R
          /\ \A x \in R : x.do \in Starting => \E n \in 1..size : x = enable(n)
      BY <1>1, CreateCallsAre
    <2>2. \A x \in R : /\ x.do \notin Removing
                       /\ x.do \in Writing => \E n \in 1..size : x = write(n)
      BY <1>1, CreateSolo
    <2>3. \A x \in D : /\ x.do \notin Writing \cup Starting
                       /\ x.do \in Removing => x.unit \in Matches[j]
      BY DEF TakesAway, Removing, Writing, Starting
    <2> HIDE DEF R, write, enable, size
    <2>4. \A x : x \in Q <=> x \in D \/ x \in R
      BY DEF R
    <2> QED BY <2>1, <2>2, <2>3, <2>4
  <1> HIDE DEF m, size, write, enable
  <1>5. ASSUME NEW n \in 1..size
        PROVE  Rewrites(Q, UnitOf(j, n)) /\ Restarts(Q, UnitOf(j, n))
    BY <1>2, <1>4 DEF Rewrites, Restarts, Touches, Starting
  <1>6. ASSUME NEW u, NEW x, <<u, x>> \in Wanted(m), x.job = j
        PROVE  Rewrites(Q, u) /\ Restarts(Q, u)
    <2>1. \E n \in 1..Len(Schedules[m.jobs[x.job]]) : u = UnitOf(x.job, n)
      BY <1>6, WantedFile DEF m
    <2> QED BY <1>1, <1>5, <1>6, <2>1 DEF size
  <1>7. \A y \in Q : y.do \in Writing =>
          <<y.unit, y.content>> \in Wanted(m) /\ y.content.job \notin Left(c)'
    BY <1>2, <1>3, <1>4
  <1>8. \A y \in Q : y.do \in Starting =>
          /\ y.do # "start"
          /\ \E x : <<y.unit, x>> \in Wanted(m) /\ x.job \notin Left(c)'
    <2> SUFFICES ASSUME NEW y \in Q, y.do \in Starting
                 PROVE  /\ y.do # "start"
                        /\ \E x : <<y.unit, x>> \in Wanted(m) /\ x.job \notin Left(c)'
      OBVIOUS
    <2>1. PICK n \in 1..size : y = enable(n)
      BY <1>4
    <2>2. y.do # "start" /\ y.unit = UnitOf(j, n)
      BY <1>2, <2>1
    <2>3. Render(j, v, n - 1).job = j
      BY DEF Render
    <2>4. <<y.unit, Render(j, v, n - 1)>> \in Wanted(m)
      BY <1>3, <2>2
    <2> QED BY <2>2, <2>3, <2>4
  <1>9. ASSUME NEW u \in Unit, NEW x, <<u, x>> \in Wanted(m)
        PROVE  /\ Touches(Q, Removing, u) => Rewrites(Q, u)
               /\ Touches(Q, Removing \cup Writing, u) => Restarts(Q, u)
               /\ x.job \in Left(c) \ Left(c)' => Rewrites(Q, u) /\ Restarts(Q, u)
    <2>1. Touches(Q, Removing, u) => x.job = j
      <3> SUFFICES ASSUME Touches(Q, Removing, u) PROVE x.job = j
        OBVIOUS
      <3>1. u \in Matches[j]
        BY <1>4 DEF Touches
      <3> QED BY <1>1, <1>9, <3>1, GlobFinds DEF m
    <2>2. ASSUME Touches(Q, Writing, u) PROVE Restarts(Q, u)
      <3>1. PICK n \in 1..size : u = UnitOf(j, n)
        BY <1>2, <1>4, <2>2 DEF Touches
      <3> QED BY <1>5, <3>1
    <2>3. Touches(Q, Removing \cup Writing, u)
            => Touches(Q, Removing, u) \/ Touches(Q, Writing, u)
      BY DEF Touches
    <2>4. x.job = j => Rewrites(Q, u) /\ Restarts(Q, u)
      BY <1>6, <1>9
    <2> QED BY <2>1, <2>2, <2>3, <2>4
  <1> QED BY <1>7, <1>8, <1>9, BeginConverges DEF m

\* The timers of a job are taken down.
LEMMA TakesDown ==
  ASSUME SystemdAssumption, OwnGlobs, UnitsOK, NEW j \in Job,
         NEW u \in OwnedUnits, timers[u].job = j
  PROVE  Touches(Range(DeleteCalls(j)), {"disable", "stop", "removeTimer"}, u)
  <1>1. HasName(timers[u], u)
    BY OwnedIs
  <1>2. u \in Matches[j]
    BY <1>1 DEF HasName, OwnGlobs
  <1>3. timers[u] # None
    BY DEF OwnedUnits, IsOwned
  <1>4. RemoveUnit(u) \in Range(DeleteCalls(j))
    BY <1>2, <1>3, RemovalsAre
  <1> QED BY <1>4 DEF Touches, RemoveUnit

LEMMA OneJobConverges ==
  ASSUME SystemdAssumption, DistinctNames, OwnGlobs, SystemdInv, SoloInv,
         NEW c \in Command, pc[c] \in Working, Converging(c), OneJob(c)
  PROVE  Converging(c)'
  <1>1. PICK j \in Job :
          \/ CallDelete(c, j) /\ Begin(c, DeleteCalls(j))
          \/ CallUpdate(c, j) /\ Begin(c, UpdateCalls(j, want[c].jobs[j]))
          \/ CallCreate(c, j) /\ Begin(c, CreateCalls(j, want[c].jobs[j]))
    BY DEF OneJob, Operation
  <1>2. /\ UNCHANGED <<files, enabled, running, want, plan, specs>> /\ pc' = pc
        /\ todo'[c] = todo[c] \ {j} /\ calls[c] = <<>>
        /\ calls \in [Command -> Seq(SafeCall)] /\ UnitsOK
        /\ pc[c] \in {"delete", "update", "create"}
    BY <1>1 DEF OneJob, CallDelete, CallUpdate, CallCreate, Begin, Done, SystemdInv,
                CommandInv, unitVars, Working
  <1>3. UnitsInHand(c, {}) /\ SpecsInHand(c)
    BY <1>2, NoCallLeft
  <1>4. SpecsInHand(c)'
    BY <1>2, <1>3 DEF SpecsInHand
  <1>5. want[c] \in Manifest /\ PendingOK(c)
    BY <1>2 DEF SystemdInv, CommandInv, ApplyOK, Stopped, SoloInv, Solo
  <1>6. Doomed(c)' \subseteq Doomed(c) /\ Doomed(c) \ Doomed(c)' \subseteq {j}
    BY <1>2 DEF Doomed
  <1>7. Left(c)' \subseteq Left(c) /\ Left(c) \ Left(c)' \subseteq {j}
    BY <1>2 DEF Left, Doomed, Pending
  <1>8. TakesAway(Range(DeleteCalls(j)), j)
    BY RemovalsAre DEF TakesAway
  <1>9. CASE CallDelete(c, j) /\ Begin(c, DeleteCalls(j))
    <2>1. PICK Q : Q = Range(DeleteCalls(j))
      OBVIOUS
    <2>2. Range(calls'[c]) = Q
      BY <1>2, <1>9, <2>1 DEF Begin
    <2>3. j \notin DOMAIN want[c].jobs /\ AppOf[j] = want[c].app
      BY <1>3, <1>9 DEF CallDelete, SpecsInHand, Working
    <2>4. \A y \in Q : /\ y.do \notin Writing \cup Starting
                       /\ y.do \in Removing => y.unit \in Matches[j]
      BY <1>8, <2>1 DEF TakesAway, Removing, Writing, Starting
    <2>5. ASSUME NEW u \in Unit, NEW x, <<u, x>> \in Wanted(want[c])
          PROVE  /\ ~Touches(Q, Removing, u) /\ ~Touches(Q, Removing \cup Writing, u)
                 /\ x.job \notin Left(c) \ Left(c)'
      <3>1. x.job # j
        BY <1>5, <2>3, <2>5, WantedFile
      <3>2. u \notin Matches[j]
        BY <1>5, <2>3, <2>5, <3>1, GlobFinds
      <3> QED BY <1>7, <2>4, <3>1, <3>2 DEF Touches
    <2>6. \A u \in OwnedUnits : timers[u].job \in Doomed(c) \ Doomed(c)' =>
            Touches(Q, {"disable", "stop", "removeTimer"}, u)
      BY <1>2, <1>6, <2>1, TakesDown
    <2>7. UnitsInHand(c, Q)'
      BY <1>2, <1>3, <1>6, <1>7, <2>4, <2>5, <2>6, BeginConverges
    <2> QED BY <1>4, <2>2, <2>7, CallsInHand
  <1>10. PICK v, D : v = want[c].jobs[j] /\ D = Range(DeleteCalls(j))
    OBVIOUS
  <1>11. ASSUME CallUpdate(c, j) \/ CallCreate(c, j)
         PROVE  j \in todo[c] /\ j \in DOMAIN want[c].jobs /\ v \in Version
    <2>1. j \in todo[c] /\ v \in Version
      BY <1>10, <1>11, NextJobHasVersion DEF SystemdInv
    <2>2. todo[c] \subseteq DOMAIN want[c].jobs
      BY <1>11 DEF CallUpdate, CallCreate, SystemdInv, CommandInv, ApplyOK
    <2> QED BY <2>1, <2>2
  <1>12. CASE CallUpdate(c, j) /\ Begin(c, UpdateCalls(j, want[c].jobs[j]))
    <2>1. PICK Q : Q = Range(UpdateCalls(j, v))
      OBVIOUS
    <2>2. Range(calls'[c]) = Q
      BY <1>2, <1>10, <1>12, <2>1 DEF Begin
    <2>3. Q = D \cup Range(CreateCalls(j, v)) /\ TakesAway(D, j)
      BY <1>8, <1>10, <1>11, <1>12, <2>1, RemovalsAre, CreationsAreSafe, RangeOfConcat
         DEF UpdateCalls
    <2>4. j \notin Left(c)'
      BY <1>2, <1>5, <1>11, <1>12 DEF CallUpdate, Left, Doomed, Pending, PendingOK
    <2>5. \A u \in OwnedUnits : timers[u].job \in Doomed(c) \ Doomed(c)' =>
            Touches(D, {"disable", "stop", "removeTimer"}, u)
      BY <1>2, <1>6, <1>10, TakesDown
    <2>6. \A u \in OwnedUnits : timers[u].job \in Doomed(c) \ Doomed(c)' =>
            Touches(Q, {"disable", "stop", "removeTimer"}, u)
      BY <2>3, <2>5 DEF Touches
    <2>7. UnitsInHand(c, Q)'
      BY <1>2, <1>3, <1>5, <1>6, <1>7, <1>10, <1>11, <1>12, <2>3, <2>4, <2>6,
         BuildConverges
    <2> QED BY <1>4, <2>2, <2>7, CallsInHand
  <1>13. CASE CallCreate(c, j) /\ Begin(c, CreateCalls(j, want[c].jobs[j]))
    <2>1. PICK Q : Q = Range(CreateCalls(j, v))
      OBVIOUS
    <2>2. Range(calls'[c]) = Q
      BY <1>2, <1>10, <1>13, <2>1 DEF Begin
    <2>3. j \notin Left(c)' /\ Doomed(c) = {}
      BY <1>2, <1>13 DEF CallCreate, Left, Doomed, Pending
    <2>4. Q = {} \cup Range(CreateCalls(j, v)) /\ TakesAway({}, j)
      BY <2>1 DEF TakesAway
    <2>5. j \notin Left(c)'
      BY <2>3
    <2>6. \A u \in OwnedUnits : timers[u].job \in Doomed(c) \ Doomed(c)' =>
            Touches(Q, {"disable", "stop", "removeTimer"}, u)
      BY <2>3
    <2>7. j \in DOMAIN want[c].jobs
      BY <1>11, <1>13
    <2>8. UnitsInHand(c, Q)'
      BY <1>2, <1>3, <1>5, <1>6, <1>7, <1>10, <2>4, <2>5, <2>6, <2>7, BuildConverges
    <2> QED BY <1>4, <2>2, <2>8, CallsInHand
  <1> QED BY <1>1, <1>9, <1>12, <1>13

LEMMA IdleConverges ==
  ASSUME NEW c \in Command, UNCHANGED <<files, enabled, running, want, plan>>,
         calls[c] = <<>>, calls'[c] = <<>>, pc[c] \in Working, Converging(c),
         Left(c)' = Left(c), Doomed(c)' = Doomed(c), SpecsInHand(c)'
  PROVE  Converging(c)'
  <1>1. PICK Q : Q = {}
    OBVIOUS
  <1>2. Range(calls'[c]) = Q
    BY <1>1 DEF Range
  <1>3. UnitsInHand(c, {})
    BY NoCallLeft
  <1>4. \A dos, u : ~Touches(Q, dos, u)
    BY <1>1 DEF Touches
  <1>5. UnitsInHand(c, Q)'
    BY <1>1, <1>3, <1>4, BeginConverges
  <1> QED BY <1>2, <1>5, CallsInHand

\* An apply goes on to its next pass, or writes or removes a spec.
LEMMA PassConverges ==
  ASSUME SystemdInv, NEW c \in Command, NextPass(c) \/ SpecStep(c),
         UNCHANGED <<files, enabled, running, calls>>, calls[c] = <<>>,
         pc[c] \in Working, pc'[c] \in Working, Converging(c)
  PROVE  Converging(c)'
  <1>1. /\ UNCHANGED <<want, plan>> /\ CommandInv /\ ApplyOK(c)
        /\ pc \in [Command -> Stopped \cup {"compute", "delete", "update", "create",
                                            "specs", "fill", "orphans", "prune"}]
        /\ todo \in [Command -> SUBSET Job]
        /\ specs \in [Job -> Version \cup {None, Torn}]
    BY DEF NextPass, SpecStep, TruncateSpec, FillSpec, RemoveOrphan, SystemdInv,
           CommandInv, CommandTypeOK
  <1>2. SpecsInHand(c)
    BY NoCallLeft
  <1>3. want[c] \in Manifest /\ DOMAIN want[c].jobs \subseteq Job
    <2>1. want[c] \in Manifest
      BY <1>1 DEF ApplyOK, Stopped, Working
    <2> QED BY <2>1, CommandAssumption
  <1>4. todo[c] # {} => NextJob(c) \in todo[c] /\ NextJob(c) \in Job
    BY <1>1, NextJobIs
  <1>5. CASE NextPass(c)
    <2>1. /\ todo[c] = {} /\ specs' = specs
          /\ \/ pc[c] = "delete" /\ pc'[c] = "update" /\ todo'[c] = plan[c].updates
             \/ pc[c] = "update" /\ pc'[c] = "create" /\ todo'[c] = plan[c].creates
             \/ /\ pc[c] = "create" /\ pc'[c] = "specs"
                /\ todo'[c] = WithSpecs(DOMAIN want[c].jobs)
             \/ /\ pc[c] = "specs" /\ pc'[c] = "orphans"
                /\ todo'[c] = WithSpecs(plan[c].deletes)
      BY <1>1, <1>5 DEF NextPass, Pass, Goto, Working
    <2>2. Doomed(c)' = Doomed(c)
      BY <1>1, <2>1 DEF Doomed
    <2>3. Left(c)' = Left(c)
      BY <1>1, <2>1, <2>2 DEF Left, Pending
    <2>4. SpecsInHand(c)'
      BY <1>1, <1>2, <2>1 DEF SpecsInHand, WithSpecs
    <2> QED BY <1>1, <2>2, <2>3, <2>4, IdleConverges
  <1>6. CASE SpecStep(c)
    <2>1. PICK j \in todo[c] :
            \/ /\ pc[c] = "specs" /\ pc'[c] = "fill" /\ todo'[c] = todo[c]
               /\ specs' = [specs EXCEPT ![j] = Torn]
            \/ /\ pc[c] = "fill" /\ pc'[c] = "specs" /\ todo'[c] = todo[c] \ {j}
               /\ specs' = [specs EXCEPT ![j] = want[c].jobs[j]]
            \/ /\ pc[c] = "orphans" /\ pc'[c] = "orphans" /\ todo'[c] = todo[c] \ {j}
               /\ specs' = [specs EXCEPT ![j] = None]
      <3>1. CASE TruncateSpec(c)
        BY <1>1, <1>4, <3>1 DEF TruncateSpec, Goto
      <3>2. CASE FillSpec(c)
        BY <1>1, <1>4, <3>2 DEF FillSpec, Pass, Goto, ApplyOK
      <3>3. CASE RemoveOrphan(c)
        BY <1>1, <3>3 DEF RemoveOrphan, Done
      <3> QED BY <1>6, <3>1, <3>2, <3>3 DEF SpecStep
    <2>2. Doomed(c)' = Doomed(c) /\ Left(c)' = Left(c)
      BY <2>1 DEF Doomed, Left, Pending
    <2>3. SpecsInHand(c)'
      BY <1>1, <1>2, <1>3, <2>1 DEF SpecsInHand
    <2> QED BY <1>1, <2>2, <2>3, IdleConverges
  <1> QED BY <1>5, <1>6

\* The timers of a job that the plan skips are those that the manifest wants.
LEMMA SkippedTimers ==
  ASSUME SystemdAssumption, UnitsOK, NEW m \in Manifest,
         NEW j \in Compute(m, List(timers)).skips
  PROVE  /\ \A n \in 1..Len(Schedules[m.jobs[j]]) :
              timers[UnitOf(j, n)] = Render(j, m.jobs[j], n - 1)
         /\ \A u \in OwnedUnits : timers[u].job = j => <<u, timers[u]>> \in Wanted(m)
  <1> DEFINE list == List(timers)
             v == m.jobs[j]
             size == Len(Schedules[v])
  <1>1. j \in DOMAIN m.jobs /\ j \in Job /\ v \in Version /\ size \in Nat
    <2>1. j \in DOMAIN m.jobs
      BY DEF Compute
    <2> QED BY <2>1, CommandAssumption, ReconcileAssumption
  <1>2. /\ IsListing(list) /\ IsOnce(list)
        /\ \A k \in DOMAIN list : \E u \in OwnedUnits : list[k] = Entry(timers[u])
        /\ \A u \in OwnedUnits : \E k \in DOMAIN list : list[k] = Entry(timers[u])
    BY ListIs
  <1>3. EntriesOf(list, j) # {} /\ ListedHashes(list, j) = DesiredHashes(v)
    BY <1>1, SkippedIs
  <1> HIDE DEF list, v
  <1>4. /\ \A k \in EntriesOf(list, j) : list[k].index < size
        /\ \A n \in 1..size : HashAt(list, j, n - 1) = Hash(v, n - 1)
    BY <1>1, <1>2, <1>3, SameHashes
  <1>5. ASSUME NEW u \in OwnedUnits, NEW n \in 1..size, Entry(timers[u]).job = j,
               Entry(timers[u]).index = n - 1, Entry(timers[u]).hash = Hash(v, n - 1)
        PROVE  timers[u] = Render(j, v, n - 1) /\ u = UnitOf(j, n)
    <2>1. timers[u] = Render(j, v, n - 1)
      BY <1>1, <1>5, EntryTells
    <2>2. timers[u].job = j /\ timers[u].index = n - 1
      BY <2>1 DEF Render
    <2> QED BY <2>1, <2>2, OwnedIs DEF HasName, UnitOf
  <1> HIDE DEF size
  <1>6. ASSUME NEW n \in 1..size
        PROVE  timers[UnitOf(j, n)] = Render(j, v, n - 1)
    <2>1. Hash(v, n - 1) # None
      <3>1. Hash(v, n - 1) \in Version \X Nat
        BY <1>1 DEF Hash
      <3> QED BY <3>1, ReconcileAssumption
    <2>2. PICK k \in At(list, j, n - 1) : list[k].hash = Hash(v, n - 1)
      BY <1>2, <1>4, <2>1, HashAtIsListed
    <2>3. k \in DOMAIN list /\ list[k].job = j /\ list[k].index = n - 1
      BY <2>2 DEF At, EntriesOf
    <2>4. PICK u \in OwnedUnits : list[k] = Entry(timers[u])
      BY <1>2, <2>3
    <2> QED BY <1>5, <2>2, <2>3, <2>4
  <1>7. ASSUME NEW u \in OwnedUnits, timers[u].job = j
        PROVE  <<u, timers[u]>> \in Wanted(m)
    <2>1. PICK k \in DOMAIN list : list[k] = Entry(timers[u])
      BY <1>2
    <2>2. list[k].job = j /\ list[k].index = timers[u].index /\ timers[u].index \in Nat
      BY <1>7, <2>1, OwnedIs DEF Entry
    <2>3. k \in EntriesOf(list, j) /\ timers[u].index < size
      BY <1>4, <2>2 DEF EntriesOf
    <2>4. PICK n \in 1..size : n - 1 = timers[u].index
      <3>1. timers[u].index + 1 \in 1..size /\ (timers[u].index + 1) - 1 = timers[u].index
        BY <1>1, <2>2, <2>3
      <3> QED BY <3>1
    <2>5. HashAt(list, list[k].job, list[k].index) = list[k].hash
      BY <1>2, EntryHash
    <2>6. list[k].hash = Hash(v, n - 1)
      BY <1>4, <2>2, <2>4, <2>5
    <2>7. timers[u] = Render(j, v, n - 1) /\ u = UnitOf(j, n)
      BY <1>5, <2>1, <2>2, <2>4, <2>6
    <2>8. <<u, timers[u]>> = <<ScheduleName[<<j, n - 1>>], Render(j, m.jobs[j], n - 1)>>
      BY <2>7 DEF UnitOf, v
    <2> QED BY <1>1, <2>8, WantedIs DEF size, v
  <1> QED BY <1>6, <1>7 DEF size, v

\* An apply computes its plan.
LEMMA PlanConverges ==
  ASSUME SystemdAssumption, DistinctNames, SystemdInv, NEW c \in Command,
         calls[c] = <<>>, ComputePlan(c, List(timers)),
         UNCHANGED <<files, enabled, running, calls>>
  PROVE  Converging(c)'
  <1>1. PICK p, Q : p = Compute(want[c], List(timers)) /\ Q = {}
    OBVIOUS
  <1>2. /\ want[c] \in Manifest /\ UnitsOK
        /\ pc'[c] = "delete" /\ plan'[c] = p /\ todo'[c] = p.deletes /\ want' = want
        /\ timers' = timers /\ Range(calls'[c]) = Q
    <2>1. want[c] \in Manifest /\ UnitsOK
      BY DEF ComputePlan, SystemdInv, CommandInv, ApplyOK, Stopped
    <2>2. /\ pc'[c] = "delete" /\ plan'[c] = p /\ todo'[c] = p.deletes
          /\ want' = want
      BY <1>1 DEF ComputePlan, Pass, Goto, SystemdInv, CommandInv, CommandTypeOK
    <2>3. timers' = timers /\ Range(calls'[c]) = Q
      BY <1>1 DEF timers, Range
    <2> QED BY <2>1, <2>2, <2>3
  <1>3. /\ p.creates = DOMAIN want[c].jobs \ Listed(List(timers))
        /\ \A j \in DOMAIN want[c].jobs :
             j \in p.creates \/ j \in p.updates \/ j \in p.skips
        /\ p.deletes = {j \in Listed(List(timers)) \ DOMAIN want[c].jobs :
                          AppOf[j] = want[c].app}
        /\ p.creates \cup p.updates \subseteq DOMAIN want[c].jobs
    BY <1>1 DEF Compute
  <1>4. Doomed(c)' = p.deletes \cup p.updates
        /\ Left(c)' = (p.deletes \cup p.updates) \cup p.creates
    BY <1>2 DEF Doomed, Left, Pending
  <1>5. \A u \in OwnedUnits : timers[u].job \in Listed(List(timers))
    <2> TAKE u \in OwnedUnits
    <2>1. PICK k \in DOMAIN List(timers) : List(timers)[k] = Entry(timers[u])
      BY <1>2, ListIs
    <2> QED BY <2>1 DEF Listed, Entry
  <1>6. \A dos, u : ~Touches(Q, dos, u)
    BY <1>1 DEF Touches
  <1>7. ASSUME NEW u \in Unit, IsOwned(timers[u]), AppOf[timers[u].job] = want[c].app
        PROVE  \/ <<u, timers[u]>> \in Wanted(want[c])
               \/ timers[u].job \in p.deletes \cup p.updates
    <2>1. u \in OwnedUnits
      BY <1>7 DEF OwnedUnits
    <2>2. timers[u].job \notin p.creates
      BY <1>3, <1>5, <2>1
    <2>3. timers[u].job \in p.skips => <<u, timers[u]>> \in Wanted(want[c])
      BY <1>1, <1>2, <2>1, SkippedTimers
    <2> QED BY <1>3, <1>5, <1>7, <2>1, <2>2, <2>3
  <1>8. ASSUME NEW u, NEW x, <<u, x>> \in Wanted(want[c]), x.job \notin Left(c)'
        PROVE  timers[u] = x /\ x.job \notin p.creates \cup p.updates
    <2>1. x.job \in p.skips
      BY <1>2, <1>3, <1>4, <1>8, WantedFile
    <2>2. PICK n \in 1..Len(Schedules[want[c].jobs[x.job]]) :
            u = UnitOf(x.job, n) /\ x = Render(x.job, want[c].jobs[x.job], n - 1)
      BY <1>2, <1>8, WantedFile
    <2>3. timers[u] = x
      BY <1>1, <1>2, <2>1, <2>2, SkippedTimers
    <2> QED BY <1>4, <1>8, <2>3
  <1>9. ASSUME NEW u \in Unit PROVE UnitConverges(c, Q, u)'
    <2>1. Accounted(c, Q, u)'
      BY <1>2, <1>4, <1>7 DEF Accounted, IsOwned
    <2>2. ASSUME NEW x, <<u, x>> \in Wanted(want[c]) PROVE InHand(c, Q, u, x)'
      <3>1. \A dos : ~Touches(Q, dos, u)'
        BY <1>6 DEF Touches
      <3> QED BY <1>2, <1>8, <2>2, <3>1 DEF InHand
    <2> QED BY <1>2, <2>1, <2>2 DEF UnitConverges
  <1>10. UnitsInHand(c, Q)'
    <2>1. WritesWanted(c, Q)'
      BY <1>1 DEF WritesWanted
    <2> QED BY <1>9, <2>1 DEF UnitsInHand
  <1>11. SpecsInHand(c)'
    BY <1>2, <1>3 DEF SpecsInHand
  <1> QED BY <1>2, <1>10, <1>11, CallsInHand

-----------------------------------------------------------------------------
LEMMA ConvergeStep ==
  ASSUME SystemdAssumption, DistinctNames, OwnGlobs, \A c, d \in Command : c = d
  PROVE  SystemdInv /\ SoloInv /\ ConvergeInv /\ [Next]_vars => ConvergeInv'
  <1> SUFFICES ASSUME SystemdInv, SoloInv, ConvergeInv, [Next]_vars,
                      NEW c \in Command, pc'[c] \in Working
               PROVE  Converging(c)'
    BY DEF ConvergeInv, Converging
  <1>1. Converging(c)
    BY DEF ConvergeInv
  <1>2. pc \in [Command -> Stopped \cup {"compute", "delete", "update", "create",
                                         "specs", "fill", "orphans", "prune"}]
    BY DEF SystemdInv, CommandInv, CommandTypeOK
  <1>3. CASE OneJob(c)
    <2>1. pc' = pc
      BY <1>3 DEF OneJob, Operation, CallDelete, CallUpdate, CallCreate
    <2> QED BY <1>1, <1>3, <2>1, OneJobConverges
  <1>4. CASE RunCall(c)
    <2>1. pc' = pc
      <3>1. PICK rest : NextCall(c, rest)
        BY <1>4, RunCallIs
      <3> QED BY <3>1 DEF NextCall, commandVars
    <2> QED BY <1>1, <1>4, <2>1, CallConverges
  <1>5. CASE Other(c)
    <2>1. /\ calls[c] = <<>> /\ UNCHANGED <<files, enabled, running, calls>>
          /\ \/ \E m \in Manifest : Apply(c, m)
             \/ Prune(c, List(timers)) \/ ComputePlan(c, List(timers))
             \/ NextPass(c) \/ SpecStep(c)
      BY <1>5 DEF Other, Between, unitVars, timers
    <2>2. ~\E m \in Manifest : Apply(c, m)
      BY <1>2 DEF Apply, Goto, Working
    <2>3. ~Prune(c, List(timers))
      BY <1>2 DEF Prune, Pass, Goto, Working
    <2>4. CASE ComputePlan(c, List(timers))
      BY <2>1, <2>4, PlanConverges
    <2>5. CASE NextPass(c) \/ SpecStep(c)
      <3>1. pc[c] \in Working
        BY <1>2, <2>5 DEF NextPass, SpecStep, TruncateSpec, FillSpec, RemoveOrphan,
                          Pass, Goto, Working
      <3> QED BY <1>1, <2>1, <2>5, <3>1, PassConverges
    <2> QED BY <2>1, <2>2, <2>3, <2>4, <2>5
  <1>6. ~Stops(c)
    BY <1>2 DEF Stops, Abort, Fail, Pass, Goto, Working
  <1>7. ~Reboot
    BY DEF Reboot, callVars, commandVars, Working, Stopped
  <1>8. ~EditByHand
    BY DEF EditByHand, ByHand, commandVars, Working, Stopped
  <1>9. CASE UNCHANGED vars
    BY <1>1, <1>9 DEF vars, unitVars, callVars, commandVars, Converging, UnitsInHand,
       SpecsInHand, WritesWanted, UnitConverges, Accounted, InHand, Rewrites,
       Restarts, Touches, Left, Doomed, Pending, timers
  <1>10. CASE \E d \in Command : OneJob(d) \/ RunCall(d) \/ Other(d) \/ Stops(d)
    BY <1>3, <1>4, <1>5, <1>6, <1>10
  <1> QED BY <1>7, <1>8, <1>9, <1>10 DEF Next

\* What the invariant says of an apply at its end.
LEMMA ConvergedAtEnd ==
  ASSUME SystemdAssumption, DistinctNames, SystemdInv, SoloInv,
         NEW c \in Command, Converging(c), pc[c] = "orphans"
  PROVE  /\ Owned(want[c].app) = Wanted(want[c])
         /\ \A j \in plan[c].creates \cup plan[c].updates :
              Scheduled(Units(j, want[c].jobs[j]))
         /\ SpecsOf(want[c])
  <1> DEFINE m == want[c]
  <1>1. calls[c] = <<>> /\ m \in Manifest
        /\ plan[c].creates \cup plan[c].updates \subseteq DOMAIN m.jobs
    BY DEF SystemdInv, CommandInv, ApplyOK, Stopped
  <1>2. UnitsInHand(c, {}) /\ SpecsInHand(c) /\ Doomed(c) = {} /\ Left(c) = {}
    BY <1>1, NoCallLeft DEF Working, Left, Doomed, Pending
  <1>3. \A dos, u : ~Touches({}, dos, u)
    BY DEF Touches
  <1>4. ASSUME NEW u, NEW x, <<u, x>> \in Wanted(m)
        PROVE  /\ u \in Unit /\ timers[u] = x /\ IsOwned(x) /\ AppOf[x.job] = m.app
               /\ x.job \in plan[c].creates \cup plan[c].updates =>
                    u \in enabled /\ running[u] = x /\ IsOwned(files["service"][u])
    <2>1. u \in Unit /\ x \in File /\ IsOwned(x) /\ AppOf[x.job] = m.app
      BY <1>1, <1>4, WantedFile
    <2>2. InHand(c, {}, u, x)
      BY <1>2, <1>4, <2>1 DEF UnitsInHand, UnitConverges
    <2>3. /\ timers[u] = x
          /\ x.job \in plan[c].creates \cup plan[c].updates =>
               u \in enabled /\ running[u] = x
      BY <1>2, <1>3, <2>2 DEF InHand, Rewrites, Restarts
    <2>4. u \in enabled => IsOwned(files["service"][u])
      BY <2>1 DEF SoloInv, ScheduledIsInstalled
    <2> QED BY <2>1, <2>3, <2>4
  <1>5. ASSUME NEW u \in Unit, IsOwned(timers[u]), AppOf[timers[u].job] = m.app
        PROVE  <<u, timers[u]>> \in Wanted(m)
    <2>1. UnitConverges(c, {}, u)
      BY <1>2 DEF UnitsInHand
    <2> QED BY <1>2, <1>3, <1>5, <2>1 DEF UnitConverges, Accounted
  <1> HIDE DEF m
  <1>6. Owned(m.app) = Wanted(m)
    <2>1. \A e : e \in Owned(m.app) <=>
            \E u \in Unit : /\ IsOwned(timers[u]) /\ AppOf[timers[u].job] = m.app
                            /\ e = <<u, timers[u]>>
      BY DEF Owned, timers
    <2>2. \A e : e \in Wanted(m) <=>
            \E j \in DOMAIN m.jobs : \E n \in 1..Len(Schedules[m.jobs[j]]) :
              e = <<ScheduleName[<<j, n - 1>>], Render(j, m.jobs[j], n - 1)>>
      BY <1>1, WantedIs
    <2>3. ASSUME NEW e \in Wanted(m) PROVE e \in Owned(m.app)
      <3>1. PICK j, n : e = <<ScheduleName[<<j, n - 1>>], Render(j, m.jobs[j], n - 1)>>
        BY <2>2
      <3>2. PICK u, x : u = ScheduleName[<<j, n - 1>>] /\ x = Render(j, m.jobs[j], n - 1)
        OBVIOUS
      <3>3. e = <<u, x>>
        BY <3>1, <3>2
      <3> QED BY <1>4, <2>1, <3>3
    <2>4. \A e \in Owned(m.app) : e \in Wanted(m)
      BY <1>5, <2>1
    <2> QED BY <2>3, <2>4
  <1>7. ASSUME NEW j \in plan[c].creates \cup plan[c].updates
        PROVE  Scheduled(Units(j, m.jobs[j]))
    <2> SUFFICES ASSUME NEW unit \in Units(j, m.jobs[j])
                 PROVE  /\ unit[1] \in enabled /\ running[unit[1]] = unit[2]
                        /\ IsOwned(files["service"][unit[1]])
      BY DEF Scheduled
    <2>1. j \in DOMAIN m.jobs /\ m.jobs[j] \in Version
      BY <1>1, CommandAssumption
    <2>2. PICK n \in 1..Len(Schedules[m.jobs[j]]) :
            unit = <<ScheduleName[<<j, n - 1>>], Render(j, m.jobs[j], n - 1)>>
      BY <2>1, ReconcileAssumption DEF Units
    <2>3. unit \in Wanted(m)
      BY <1>1, <2>1, <2>2, WantedIs
    <2>4. PICK u, x : u = unit[1] /\ x = unit[2] /\ unit = <<u, x>> /\ x.job = j
      BY <2>2 DEF Render
    <2> QED BY <1>4, <2>3, <2>4
  <1>8. SpecsOf(m)
    BY <1>2 DEF SpecsInHand, SpecsOf, m
  <1> QED BY <1>6, <1>7, <1>8 DEF m

\* An apply that succeeds, with no other command beside it, leaves the timers of
\* its app as its manifest says, whatever earlier commands have failed at or
\* were killed in and people have edited between them; those of the jobs it has
\* created or updated run, and the specs are written (reconcile.Apply over
\* systemd.Delete, Update and Create, then writeSpecs).  No two schedules have
\* the same unit, and no job's glob finds another's.
THEOREM UnitsConvergeAfterApply ==
  ASSUME SystemdAssumption, DistinctNames, OwnGlobs, \A c, d \in Command : c = d
  PROVE  Spec => [][UnitsConverge]_vars
  <1>1. Init => SystemdInv /\ SoloInv /\ ConvergeInv
    <2>1. Init => ConvergeInv
      BY DEF Init, CallsInit, CommandInit, ConvergeInv, Converging, Working
    <2> QED BY <2>1, SystemdInit, SoloInit
  <1>2. SystemdInv /\ SoloInv /\ ConvergeInv /\ [Next]_vars
          => (SystemdInv /\ SoloInv /\ ConvergeInv)'
    BY StepKeeps, SoloStepKeeps, ConvergeStep
  <1>3. SystemdInv /\ SoloInv /\ ConvergeInv /\ [Next]_vars => [UnitsConverge]_vars
    BY ConvergedAtEnd DEF UnitsConverge, Succeeds, ConvergeInv
  <1> QED BY <1>1, <1>2, <1>3, PTL DEF Spec
=============================================================================
